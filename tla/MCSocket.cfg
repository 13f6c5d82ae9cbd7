CONSTANTS
  Task = {t1, t2, t3}
  Sock = {1, 2, 3}
  Path = {a, b, c}
  FdMax = 2
  BufSize = 1
  BacklogMax = 2
  MaxBound = 2
  MaxRequest = 1
  MaxDgram = 2
  Disciplined = TRUE
  NULL = NULL
SPECIFICATION MCSocketSpec
INVARIANTS PeersMutual StreamSleepersJustified BacklogInStep BoundTableExact
CHECK_DEADLOCK FALSE
SYMMETRY Symmetry
