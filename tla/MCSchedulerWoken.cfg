SPECIFICATION Spec
CONSTANTS
  Task = {0, 1, 2, 3, 4, 5}
  NIL = NIL
  Words = 1
  WordBits = 2
  MaxPid = 5
  NStacks = 6
  Signals = {14}
  SIGALRM = 14
  MaxAlarm = 1
  WorkerPrio = 0
  DecayRate = 1
  QuantaPunish = 1
  ResetDecay = 1
  ScheduleQuantum = 1
  VbeTicksPerFrame = 1
  WakeWaiters = TRUE
  Killed = {5}
  Handled = {}
INVARIANTS
  QueueWellFormed
  StacksExclusive
