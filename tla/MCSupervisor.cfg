CONSTANTS
  Job = {1, 2}
  JobFiles <- MCJobFiles
  StallLimit = 2
  MaxPid = 2
  NIL = NIL
SPECIFICATION Spec
INVARIANTS OneProgramEach ReadsNeverSleep
PROPERTIES StartupEnds ClientsServed
CHECK_DEADLOCK FALSE
