CONSTANTS
  Task = {t1, t2}
  InitTask = t1
  MaxFrames = 11
  Image = {0}
  Heap <- MCHeap
  Shmem <- MCShmem
  Parts = 2
  Table <- MCTable
  Obj = {o1, o2}
  MaxSize = 2
  MaxRefs = 3
  NULL = NULL
  Header = 2
  GuardSize = 1
  BlockAlign = 2
  PageSize = 8
  HeapStart = 16
  HeapEnd = 40
  Request <- MCRequest
  NIL = NIL
SPECIFICATION MCSpec
INVARIANTS FramesExclusive SharingExact HeapMapped HeapTiled GuardsIntact RoverListed
PROPERTIES GrowsOnlyWhenFull
CHECK_DEADLOCK FALSE
VIEW UpToFrames
