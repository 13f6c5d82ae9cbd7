SPECIFICATION Spec
CONSTANTS
  Drives = {0, 1}
  MemDrives = {1}
  Sectors = 2
  Data = {a, b}
  MaxEntries = 3
  NumBuckets = 2
  HashMult = 1
  MaxCount = 2
  Unreadable = {}
  Programs = TRUE
  MaxTorn = 1
  NIL = NIL
SYMMETRY Contents
INVARIANTS
  CacheCoherent
  CacheIntact
  ChainsEnd
