SPECIFICATION Spec
CONSTANTS
  MaxPieces = 4
  Sources <- MCSources
  Upper <- MCUpper
  DigitValue <- MCDigitValue
  Keywords <- MCKeywords
  Punctuation <- MCPunctuation
  Blanks <- MCBlanks
  Newline <- MCNewline
  Quote <- MCQuote
  IntMax = 15
INVARIANTS
  TypeOK
  NothingLost
PROPERTIES
  RefusesWhatIsWrong
CHECK_DEADLOCK FALSE
