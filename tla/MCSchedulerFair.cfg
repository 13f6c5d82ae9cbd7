SPECIFICATION SpinSpec
CONSTANTS
  Task = {0, 1, 2, 3, 4, 5, 6}
  NIL = NIL
  Words = 2
  WordBits = 2
  MaxPid = 6
  NStacks = 6
  Signals = {14}
  SIGALRM = 14
  MaxAlarm = 0
  WorkerPrio = 1
  DecayRate = 2
  QuantaPunish = 2
  ResetDecay = 2
  ScheduleQuantum = 1
  VbeTicksPerFrame = 1
  WakeWaiters = FALSE
  Killed = {5}
  Handled = {}
INVARIANTS
  TypeOK
PROPERTIES
  EventuallyRuns
  PicksHighestReady
