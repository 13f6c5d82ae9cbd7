CONSTANTS
  Job = {1, 2}
  JobFiles <- MCJobFiles
  StallLimit = 2
  MaxPid = 2
  NIL = NIL
SPECIFICATION Spec
INVARIANT ReadyOnExitZero
CHECK_DEADLOCK FALSE
