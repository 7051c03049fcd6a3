SPECIFICATION Spec
CONSTANTS
  c1 = c1
  c2 = c2
  d1 = d1
  d2 = d2
  t1 = t1
  t2 = t2
  empty = empty
  full = full
  use1 = use1
  use2 = use2
  drop1 = drop1
  create1 = create1
  create2 = create2
  made2 = made2
  insert = insert
  dropt = dropt
  look = look
  Clients <- MCClients
  Nobody = nobody
  Statements <- MCStatements
  Brimming = {}
  Refused = {}
  LongAnswer = {}
  exit = exit
  Exit = exit
  Says <- MCSays
  Backlog = 1
  MaxEntered <- MCMaxEntered
  DbNames <- MCDbNames
  TableNames <- MCTableNames
  Contents <- MCContents
  Empty = empty
  Absent = absent
  Torn = torn
  Null = null
  Does <- MCDoes
  Made <- MCMade
CHECK_DEADLOCK FALSE
INVARIANTS
  OneSession
  FilesAsLeft
PROPERTIES
  GoodbyeThenSaved
  ActsAsServer
