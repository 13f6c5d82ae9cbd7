SPECIFICATION PhysicalSpec
CONSTANTS
  Boots <- MCBoots
  HeapRange <- Heap
  StackRange <- Stack
  PageSize = 3
  PhysSize = 64
  MinManaged = 2
  TodoMax = 8
  ExclMax = 6
  MaxZones = 6
  MAX_ORDER = 2
  Orders = {0, 1, 2}
INVARIANTS
  ReservedKept
  ZonesDisjoint
  NothingLost
  Partition
  Coalesced
  BuddyFound
PROPERTIES
  PoolSpec
