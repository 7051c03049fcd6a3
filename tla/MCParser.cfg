SPECIFICATION Spec
CONSTANTS
  Names <- MCNames
  Ints <- MCInts
  Strings <- MCStrings
  MaxList = 2
  Edits <- MCEdits
INVARIANTS
  TypeOK
  SentencesParse
  ReadsWhatItAccepts
PROPERTIES
  Returns
CHECK_DEADLOCK FALSE
