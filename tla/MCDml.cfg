SPECIFICATION Spec
CONSTANTS
  Names <- MCNames
  Schemas <- MCSchemas
  Literals <- MCLiterals
  MaxRows <- MCMaxRows
  MaxValues <- MCMaxValues
  IntMax = 1
  LongMax = 7
INVARIANTS
  TypeOK
  KeysUniqueUntilRekeyed
  IndexKeysExact
  DoesWhatItSays
PROPERTIES
  StatementsReturn
