SPECIFICATION Spec
CONSTANTS
  Names <- MCNames
  Ints <- MCInts
  Strings <- MCStrings
  MaxList = 2
  Edits <- MCEdits
INVARIANTS
  ExecutedAsTyped
CHECK_DEADLOCK FALSE
