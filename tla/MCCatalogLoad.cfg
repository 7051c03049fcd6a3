SPECIFICATION Spec
CONSTANTS
  d1 = d1
  d2 = d2
  t1 = t1
  t2 = t2
  empty = empty
  full = full
  DbNames <- MCDbNames
  TableNames <- MCTableNames
  Contents <- MCContents
  Empty = empty
  Absent = absent
  Torn = torn
  Null = null
INVARIANTS
  LoadedOnDemand
