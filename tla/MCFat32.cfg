SPECIFICATION MCSpec
CONSTANTS
  Clusters = 5
  Cells = 2
  Slots = 3
  d = d
  a = a
  b = b
  Paths <- MCPaths
  DirNames = {d}
  LongNames = {a}
  Val = {u}
  Root = Root
  MaxSize = 3
  MaxWrite = 2
  Handles = {1}
  Exclusive = TRUE
  PowerLoss = FALSE
  NIL = NIL
INVARIANTS
  ChainsDisjoint
  FilesKept
CHECK_DEADLOCK FALSE
VIEW WhatMatters
