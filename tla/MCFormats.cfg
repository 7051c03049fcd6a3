SPECIFICATION Spec
CONSTANTS
  Tables <- MCTables
  LineMax = 9
INVARIANTS
  TypeOK
  RowsShift
  SecondTripExact
  ColumnsShown
  CutTellsNoLie
CHECK_DEADLOCK FALSE
