SPECIFICATION Spec
CONSTANTS
  v1 = v1
  v2 = v2
  a = a
  b = b
  Names <- MCNames
  Values <- MCValues
  Default = a
  Sizes <- MCSizes
  First = 1
  MaxSize = 3
  MaxBlocks = 3
INVARIANTS
  HeapOK
PROPERTIES
  EachDestroyedOnce
  ActsAsLists
