SPECIFICATION Spec
CONSTANTS
  c1 = c1
  c2 = c2
  brim = brim
  huge = huge
  wide = wide
  wrong = wrong
  Clients <- MCClients
  Nobody = nobody
  Statements <- MCStatements
  Brimming <- MCBrimming
  Refused <- MCRefused
  LongAnswer <- MCLongAnswer
  Exit = exit
  Backlog = 2
  MaxEntered <- MCMaxEntered
CHECK_DEADLOCK FALSE
INVARIANTS
  TypeOK
  ToldTheTruth
PROPERTIES
  CallsReturn
  KeepsPromise
