SPECIFICATION Spec
CONSTANTS
  Keys <- MCKeys
  RowIds <- MCRowIds
  None = None
INVARIANTS
  TypeOK
  Sorted
  SearchBrackets
PROPERTIES
  ImplementsMap
  Terminates
