--------------------------- MODULE SessionProofs ---------------------------
(***************************************************************************)
(* Proofs about Session, for any clients, statements, databases and        *)
(* tables: the composition behaves as Server and as Catalog do, all        *)
(* clients share one session, and the files are as it leaves them.         *)
(***************************************************************************)
EXTENDS Session, SequenceTheorems, TLAPS

\* The two components once more, with what is proved about them.
SP == INSTANCE ServerProofs
CP == INSTANCE CatalogProofs

\* Inside save_all.
Saves == pc \in {"open", "write", "saved"}

\* The statement the executor is running.
Running == Does[sock[conn].text]

\* What the two threads of control know of each other: the process is gone for
\* both at once; save_all runs for the statement of the connection being
\* served, or for the shutdown; and an orderly end is an end.
Coupled ==
  /\ pc = "down" <=> srv = "down"
  /\ Saves /\ caller.op = "exit" => srv = "shutdown"
  /\ Saves /\ caller.op # "exit" =>
       /\ srv = "handle" /\ sock[conn].text \in Statements \ Refused
       /\ caller.op = "use" => Running = [op |-> "use", name |-> caller.name]
       /\ caller.op = "drop" => /\ Running = [op |-> "drop database", name |-> caller.name]
                                /\ caller.name = db_name
  /\ cause = "exit" => srv = "down"

\* The executor has open what the session says, also while it saves: a
\* statement that saves first takes effect when it returns.
Sessions == [db : DbNames \cup {Null}, rows : [TableNames -> Contents \cup {Absent}],
             left : [C!Paths -> SUBSET (Contents \cup {Absent})]]

Shared ==
  /\ session \in Sessions
  /\ pc # "down" => /\ db_name = session.db
                    /\ \A t \in TableNames : OpenRows(t) = session.rows[t]

\* A file as the session left it.
AsLeft(path) == C!File(path) \in session.left[path] \/ path \in damaged

\* The running save_all has come to this file.
Reached(path) ==
  /\ Saves
  /\ \E p \in 1..Len(db.tables) :
       db.tables[p].path = path /\ (p < pos \/ (pc = "write" /\ p = pos))

\* A file is as the session left it until save_all comes to it.
Kept ==
  /\ pc # "down" => \A path \in C!Paths : AsLeft(path) \/ Reached(path)
  /\ cause = "exit" => \A path \in C!Paths : AsLeft(path)

IInv == SP!IInv /\ CP!IInv /\ CP!SavedSoFar /\ Coupled /\ Shared /\ Kept

-----------------------------------------------------------------------------
(***************************************************************************)
(* The components                                                          *)
(***************************************************************************)

\* ServerProofs and CatalogProofs extend the modules Session instantiates: the
\* actions they are about are the same.
LEMMA SameServer ==
  /\ S!Init <=> SP!Init
  /\ [S!Next]_(S!vars) <=> [SP!Next]_(SP!vars)
<1>1. S!Init <=> SP!Init
  BY DEF S!Conns, SP!Conns, S!Init, SP!Init, S!NoConn, SP!NoConn, S!NoSocket, SP!NoSocket
<1>2. S!Next <=> SP!Next
  BY DEF S!Accept, SP!Accept, S!ClientStep, SP!ClientStep, S!CloseConn, SP!CloseConn,
         S!Connect, SP!Connect, S!Deliver, SP!Deliver, S!Die, SP!Die, S!Down, SP!Down,
         S!EmptyLine, SP!EmptyLine, S!Enter, SP!Enter, S!Handle, SP!Handle, S!Interrupt,
         SP!Interrupt, S!Kill, SP!Kill, S!My, SP!My, S!NewSocket, SP!NewSocket, S!Next,
         SP!Next, S!NoConn, SP!NoConn, S!Overlong, SP!Overlong, S!Receive, SP!Receive,
         S!RecvEmpty, SP!RecvEmpty, S!RecvRequest, SP!RecvRequest, S!Reply, SP!Reply,
         S!Reset, SP!Reset, S!Return, SP!Return, S!SendAnswer, SP!SendAnswer,
         S!SendAnswerNewline, SP!SendAnswerNewline, S!SendBody, SP!SendBody, S!SendNewline,
         SP!SendNewline, S!ServerGone, SP!ServerGone, S!ServerStep, SP!ServerStep,
         S!Shutdown, SP!Shutdown, S!Write, SP!Write, S!clients, SP!clients, S!server,
         SP!server
<1>3. UNCHANGED S!vars <=> UNCHANGED SP!vars
  BY DEF S!clients, SP!clients, S!server, SP!server, S!vars, SP!vars
<1> QED BY <1>1, <1>2, <1>3

LEMMA SamePosition == \A t : C!PositionOf(t) = CP!PositionOf(t)
  BY DEF C!PositionOf, CP!PositionOf, C!SelectInSeq, CP!SelectInSeq, C!Min, CP!Min

LEMMA SameCatalog ==
  [C!Next]_(C!vars) <=> [CP!Next]_(CP!vars)
<1>1. C!Next <=> CP!Next
  BY SamePosition
     DEF C!BeginSave, CP!BeginSave, C!Crash, CP!Crash, C!CreateDatabase, CP!CreateDatabase,
         C!CreateTable, CP!CreateTable, C!Database, CP!Database, C!DropAfterSave,
         CP!DropAfterSave, C!DropDatabase, CP!DropDatabase, C!DropTable, CP!DropTable,
         C!ExitAfterSave, CP!ExitAfterSave, C!Fail, CP!Fail, C!Gone, CP!Gone, C!HasDb,
         CP!HasDb, C!Modify, CP!Modify, C!Next, CP!Next, C!NoCall, CP!NoCall, C!NoDb,
         CP!NoDb, C!NoError, CP!NoError, C!RemoveDir, CP!RemoveDir, C!RemoveFile,
         CP!RemoveFile, C!Restart, CP!Restart, C!Resume, CP!Resume, C!SaveEnd, CP!SaveEnd,
         C!SaveOpen, CP!SaveOpen, C!Truncate, CP!Truncate, C!SavePath, CP!SavePath,
         C!SaveStep, CP!SaveStep, C!SaveWrite, CP!SaveWrite, C!SaveWriteFails, CP!SaveWriteFails, C!Select,
         CP!Select, C!Shutdown, CP!Shutdown, C!Succeed, CP!Succeed, C!Use, CP!Use,
         C!UseAfterSave, CP!UseAfterSave, C!disk, CP!disk, C!RemoveAt, CP!RemoveAt
<1>2. UNCHANGED C!vars <=> UNCHANGED CP!vars
  BY DEF C!vars, CP!vars
<1> QED BY <1>1, <1>2

LEMMA ServerAssumptions == SP!StatementsAssumption /\ SP!ExitAssumption /\ SP!BoundsAssumption
  BY ServerAssumption
     DEF S!StatementsAssumption, SP!StatementsAssumption, S!ExitAssumption, SP!ExitAssumption,
         S!BoundsAssumption, SP!BoundsAssumption

\* What is proved about Server holds of any behaviour whose steps are Server's.
LEMMA ServerInvariance ==
  /\ S!Init => SP!IInv
  /\ SP!IInv /\ [S!Next]_(S!vars) => SP!IInv'
  BY ServerAssumptions, SP!InitIInv, SP!StepIInv, SameServer

LEMMA CatalogAssumptions == CP!EmptyAssumption /\ CP!SentinelAssumption /\ CP!NullAssumption
  BY CatalogAssumption
     DEF C!EmptyAssumption, CP!EmptyAssumption, C!SentinelAssumption, CP!SentinelAssumption,
         C!NullAssumption, CP!NullAssumption, C!Databases, CP!Databases, C!Table, CP!Table,
         C!Paths, CP!Paths

\* And so with Catalog.
LEMMA CatalogInvariance ==
  CP!IInv /\ CP!SavedSoFar /\ [C!Next]_(C!vars) => CP!IInv' /\ CP!SavedSoFar'
  BY CatalogAssumptions, CP!NextIInv, CP!NextSaved, SameCatalog

-----------------------------------------------------------------------------
(***************************************************************************)
(* A step of the composition is a step of each component, or none          *)
(***************************************************************************)

LEMMA ServerStep == [Next]_vars => [S!Next]_(S!vars)
<1> SUFFICES ASSUME [Next]_vars PROVE S!Next \/ UNCHANGED S!vars
  OBVIOUS
<1>1. UNCHANGED server => UNCHANGED S!vars
  BY DEF server, S!vars, S!server, S!clients
<1>2. CASE Network
  BY <1>2 DEF Network, S!Next, S!ServerStep
<1>3. CASE HandleStatement \/ HandleOther \/ StatementReturns
  BY <1>1, <1>3 DEF HandleStatement, HandleOther, StatementReturns, Answered, S!Next, S!ServerStep
<1>4. CASE Saving
  BY <1>1, <1>4 DEF Saving
<1>5. CASE Shutdown \/ ShutdownReturns
  BY <1>1, <1>5 DEF Shutdown, ShutdownReturns, S!Next, S!ServerStep
<1>6. CASE Interrupt
  BY <1>6 DEF Interrupt, S!Next
<1>7. ASSUME NEW c \in Clients, Client(c) PROVE S!Next
  <2>1. CASE S!ClientStep(c) \/ S!Kill(c)
    BY <2>1 DEF S!Next
  <2>2. CASE /\ entered[c] + 1 \in DOMAIN Says[c]
             /\ \E s \in Says[c][entered[c] + 1] : S!Enter(c, s)
    <3>1. Says[c] \in Seq(SUBSET (Statements \cup {Exit}))
      BY SaysAssumption
    <3>2. Says[c][entered[c] + 1] \subseteq Statements \cup {Exit}
      BY <2>2, <3>1, LenProperties, ElementOfSeq
    <3> QED BY <2>2, <3>2 DEF S!Next
  <2> QED BY <1>7, <2>1, <2>2 DEF Client
<1>8. CASE UNCHANGED vars
  BY <1>1, <1>8 DEF vars
<1> QED BY <1>2, <1>3, <1>4, <1>5, <1>6, <1>7, <1>8 DEF Next, ServerThread

TableOps    == {"create table", "drop table", "select", "modify"}
DatabaseOps == {"use", "drop database", "create database"}

LEMMA CommandFacts ==
  ASSUME NEW m \in Commands
  PROVE  /\ m.op \in DatabaseOps \cup TableOps
         /\ m.op \in DatabaseOps => m.name \in DbNames /\ m = [op |-> m.op, name |-> m.name]
         /\ m.op \in TableOps => m.name \in TableNames
         /\ m.op = "modify" => m.makes \in [Contents -> Contents]
  BY DEF Commands, DatabaseOps, TableOps

LEMMA CatalogStep == [Next]_vars => [C!Next]_(C!vars)
<1> SUFFICES ASSUME [Next]_vars PROVE C!Next \/ UNCHANGED C!vars
  OBVIOUS
<1>1. UNCHANGED catalog => UNCHANGED C!vars
  BY DEF catalog, C!vars
<1>2. CASE Network \/ Interrupt
  BY <1>1, <1>2 DEF Network, Interrupt, C!Next
<1>3. CASE HandleStatement
  <2>1. Running \in Commands /\ Execute(Running)
    BY <1>3, DoesAssumption DEF HandleStatement, Running
  <2>2. CASE Running.op \in DatabaseOps
    <3>1. Running.name \in DbNames
      BY <2>1, <2>2, CommandFacts
    <3> QED BY <2>1, <2>2, <3>1 DEF Execute, C!Next, DatabaseOps
  <2>3. CASE Running.op \in TableOps
    <3>1. Running.name \in TableNames
          /\ (Running.op = "modify" => Running.makes \in [Contents -> Contents])
      BY <2>1, <2>3, CommandFacts
    <3> QED BY <2>1, <2>3, <3>1 DEF Execute, C!Next, TableOps
  <2> QED BY <2>1, <2>2, <2>3, CommandFacts
<1>4. CASE HandleOther
  BY <1>1, <1>4 DEF HandleOther
<1>5. CASE StatementReturns
  BY <1>5 DEF StatementReturns, C!Next, C!SaveStep
<1>6. CASE Saving
  BY <1>6 DEF Saving, C!Next, C!SaveStep
<1>7. CASE Shutdown \/ ShutdownReturns
  BY <1>7 DEF Shutdown, ShutdownReturns, C!Next, C!SaveStep
<1>8. ASSUME NEW c \in Clients, Client(c) PROVE UNCHANGED C!vars
  BY <1>1, <1>8 DEF Client
<1>9. CASE UNCHANGED vars
  BY <1>1, <1>9 DEF vars
<1> QED BY <1>2, <1>3, <1>4, <1>5, <1>6, <1>7, <1>8, <1>9 DEF Next, ServerThread

-----------------------------------------------------------------------------
(***************************************************************************)
(* What the steps do to the process and to save_all                        *)
(***************************************************************************)

\* The connection being served has a socket, whose text no client changes.
LEMMA ClientFacts ==
  ASSUME SP!IInv, NEW c \in Clients, Client(c)
  PROVE  /\ UNCHANGED <<srv, conn, cause, catalog, session>>
         /\ srv = "handle" => sock'[conn].text = sock[conn].text
<1>1. UNCHANGED <<srv, conn, cause, catalog, session>>
  BY DEF Client, S!ClientStep, S!Connect, S!SendBody, S!SendNewline, S!Receive, S!Kill, S!Enter,
         S!server
<1>2. ASSUME srv = "handle" PROVE sock'[conn].text = sock[conn].text
  <2>1. /\ conn \in SP!Conns /\ sock \in [SP!Conns -> SP!Socket \cup {SP!NoSocket}]
        /\ SP!SocketOK(conn) /\ SP!Waits(conn)
    BY <1>2 DEF SP!IInv, SP!TypeOK, SP!Waits
  <2>2. sock[conn] \in SP!Socket /\ conn[2] <= entered[conn[1]]
    BY <2>1 DEF SP!SocketOK, SP!Opened
  <2>3. /\ sock[conn] = [text |-> sock[conn].text, sent |-> sock[conn].sent,
                         read |-> sock[conn].read, back |-> sock[conn].back,
                         answer |-> sock[conn].answer, hungup |-> sock[conn].hungup,
                         closed |-> sock[conn].closed]
        /\ entered \in [Clients -> Nat]
    BY <2>2 DEF SP!Socket, SP!IInv, SP!TypeOK
  <2>4. CASE \E s \in Says[c][entered[c] + 1] : S!Enter(c, s)
    <3>1. PICK s \in Says[c][entered[c] + 1] : sock' = [sock EXCEPT ![<<c, entered[c] + 1>>] = S!NewSocket(s)]
      BY <2>4 DEF S!Enter
    <3>2. conn # <<c, entered[c] + 1>>
      BY <2>2, <2>3
    <3> QED BY <2>1, <3>1, <3>2
  <2>5. CASE S!ClientStep(c) \/ S!Kill(c)
    <3>1. \/ sock' = sock
          \/ sock' = [sock EXCEPT ![S!My(c)].hungup = TRUE]
          \/ \E n \in 1..2 : sock' = [sock EXCEPT ![S!My(c)].sent = n]
      BY <2>5 DEF S!ClientStep, S!Connect, S!SendBody, S!SendNewline, S!Receive, S!Kill,
                  S!Return, S!Write, S!Die
    <3> QED BY <2>1, <2>3, <3>1
  <2> QED BY <2>4, <2>5 DEF Client
<1> QED BY <1>1, <1>2

LEMMA NetworkFacts ==
  ASSUME Network
  PROVE  /\ srv \notin {"handle", "shutdown", "down"} /\ cause' \in {cause, "SIGPIPE"}
         /\ UNCHANGED session
         /\ srv' # "down" => UNCHANGED <<catalog, cause>>
         /\ srv' = "down" => C!Crash /\ cause' = "SIGPIPE"
<1>1. srv \notin {"handle", "shutdown", "down"}
  BY DEF Network, S!Accept, S!RecvRequest, S!RecvEmpty, S!SendAnswer, S!SendAnswerNewline
<1>2. (cause' = cause /\ srv' # "down") \/ (cause' = "SIGPIPE" /\ srv' = "down")
  <2>1. S!CloseConn => srv' \in {"accept", "shutdown"}
    BY DEF S!CloseConn
  <2>2. CASE S!Accept \/ S!RecvRequest
    BY <2>2 DEF S!Accept, S!RecvRequest
  <2>3. CASE S!RecvEmpty
    BY <2>1, <2>3 DEF S!RecvEmpty
  <2>4. CASE S!SendAnswer
    BY <2>1, <2>4 DEF S!SendAnswer
  <2>5. CASE S!SendAnswerNewline
    BY <2>1, <2>5 DEF S!SendAnswerNewline, S!Down
  <2> QED BY <2>2, <2>3, <2>4, <2>5 DEF Network
<1> QED BY <1>1, <1>2 DEF Network

\* A statement starts between two statements; it is over at once, or save_all
\* runs first and it has changed nothing yet.
LEMMA ExecuteFacts ==
  ASSUME NEW m \in Commands, Execute(m)
  PROVE  /\ pc = "idle" /\ pc' \in {"idle", "open"}
         /\ pc' = "open" =>
              /\ UNCHANGED <<dirs, files, db, db_name, damaged>>
              /\ \/ m.op = "use" /\ caller' = [op |-> "use", name |-> m.name]
                 \/ /\ m.op = "drop database" /\ caller' = [op |-> "drop", name |-> m.name]
                    /\ m.name = db_name
  BY DEF Execute, C!CreateDatabase, C!Use, C!DropDatabase, C!NoDb, C!CreateTable,
         C!DropTable, C!Modify, C!Select, C!BeginSave, C!disk

LEMMA HandleFacts ==
  ASSUME S!Handle
  PROVE  srv = "handle" /\ srv' = "send" /\ cause' = cause
  BY DEF S!Handle

LEMMA CoupledStep ==
  ASSUME SP!IInv, Coupled, Next
  PROVE  Coupled'
<1>1. ASSUME Network PROVE Coupled'
  <2>1. ~Saves /\ pc # "down" /\ cause # "exit"
    BY <1>1, NetworkFacts DEF Coupled
  <2>2. CASE srv' = "down"
    BY <1>1, <2>2, NetworkFacts DEF Coupled, Saves, C!Crash, C!Gone
  <2>3. CASE srv' # "down"
    BY <1>1, <2>1, <2>3, NetworkFacts DEF Coupled, Saves, catalog
  <2> QED BY <2>2, <2>3
<1>2. ASSUME HandleStatement PROVE Coupled'
  <2>1. /\ srv = "handle" /\ sock[conn].text \in Statements \ Refused
        /\ Running \in Commands /\ Execute(Running)
    BY <1>2, DoesAssumption DEF HandleStatement, Running
  <2>2. pc = "idle" /\ cause # "exit"
    BY <2>1, ExecuteFacts DEF Coupled
  <2>3. CASE pc' = "idle"
    <3>1. srv' = "send" /\ cause' = cause
      BY <1>2, <2>3, HandleFacts DEF HandleStatement, Answered
    <3> QED BY <2>2, <2>3, <3>1 DEF Coupled, Saves
  <2>4. CASE pc' = "open"
    <3>1. UNCHANGED <<srv, conn, sock, cause>> /\ Running' = Running
      BY <1>2, <2>4 DEF HandleStatement, server, Running
    <3>2. /\ db_name' = db_name
          /\ \/ Running.op = "use" /\ caller' = [op |-> "use", name |-> Running.name]
             \/ /\ Running.op = "drop database" /\ Running.name = db_name
                /\ caller' = [op |-> "drop", name |-> Running.name]
      BY <2>1, <2>4, ExecuteFacts
    <3>3. Running.op \in DatabaseOps => Running = [op |-> Running.op, name |-> Running.name]
      BY <2>1, CommandFacts
    <3>4. caller'.op # "exit"
          /\ (caller'.op = "use" => Running = [op |-> "use", name |-> caller'.name])
          /\ (caller'.op = "drop" => /\ Running = [op |-> "drop database", name |-> caller'.name]
                                     /\ caller'.name = db_name)
      <4>1. CASE Running.op = "use"
        BY <3>2, <3>3, <4>1 DEF DatabaseOps
      <4>2. CASE Running.op = "drop database"
        <5>1. Running.name = db_name /\ caller' = [op |-> "drop", name |-> Running.name]
          BY <3>2, <4>2
        <5>2. Running = [op |-> "drop database", name |-> Running.name]
          BY <3>3, <4>2 DEF DatabaseOps
        <5> QED BY <5>1, <5>2
      <4> QED BY <3>2, <4>1, <4>2
    <3> QED BY <2>1, <2>2, <2>4, <3>1, <3>2, <3>4 DEF Coupled, Saves
  <2> QED BY <2>1, <2>3, <2>4, ExecuteFacts
<1>3. ASSUME HandleOther PROVE Coupled'
  <2>1. srv = "handle" /\ srv' = "send" /\ cause' = cause /\ UNCHANGED catalog
        /\ sock[conn].text \notin Statements \ Refused
    BY <1>3, HandleFacts, ServerAssumption DEF HandleOther, S!ExitAssumption
  <2> QED BY <2>1 DEF Coupled, Saves, catalog
<1>4. ASSUME StatementReturns PROVE Coupled'
  <2>1. srv = "handle" /\ srv' = "send" /\ cause' = cause /\ pc' = "idle"
    BY <1>4, HandleFacts
       DEF StatementReturns, Answered, C!UseAfterSave, C!DropAfterSave, C!Resume
  <2> QED BY <2>1 DEF Coupled, Saves
<1>5. ASSUME Saving PROVE Coupled'
  <2>1. /\ pc \in {"open", "write"} /\ pc' \in {"open", "write", "saved"}
        /\ UNCHANGED <<caller, db_name, srv, conn, sock, cause>> /\ Running' = Running
    BY <1>5 DEF Saving, C!SaveOpen, C!Truncate, C!SaveWrite, C!SaveWriteFails,
                C!SaveEnd, server, Running
  <2> QED BY <2>1 DEF Coupled, Saves
<1>6. ASSUME Shutdown PROVE Coupled'
  <2>1. srv = "shutdown" /\ pc = "idle"
    BY <1>6 DEF Shutdown, C!Shutdown
  <2>2. CASE pc' = "down"
    BY <1>6, <2>2 DEF Coupled, Saves, Shutdown, S!Shutdown, S!Down
  <2>3. CASE pc' # "down"
    <3>1. pc' = "open" /\ caller'.op = "exit" /\ UNCHANGED <<srv, cause>>
      BY <1>6, <2>3 DEF Shutdown, C!Shutdown, C!BeginSave, C!Gone, server
    <3> QED BY <2>1, <3>1 DEF Coupled, Saves
  <2> QED BY <2>2, <2>3
<1>7. ASSUME ShutdownReturns \/ Interrupt PROVE Coupled'
  <2>1. pc' = "down" /\ srv' = "down"
    BY <1>7 DEF ShutdownReturns, Interrupt, C!ExitAfterSave, C!Crash, C!Gone, S!Shutdown,
                S!Interrupt, S!Down
  <2> QED BY <2>1 DEF Coupled, Saves
<1>8. ASSUME NEW c \in Clients, Client(c) PROVE Coupled'
  <2>1. /\ UNCHANGED <<srv, conn, cause, pc, caller, db_name>>
        /\ srv = "handle" => Running' = Running /\ sock'[conn].text = sock[conn].text
    BY <1>8, ClientFacts DEF catalog, Running
  <2> QED BY <2>1 DEF Coupled, Saves
<1> QED BY <1>1, <1>2, <1>3, <1>4, <1>5, <1>6, <1>7, <1>8 DEF Next, ServerThread

-----------------------------------------------------------------------------
(***************************************************************************)
(* The session                                                             *)
(***************************************************************************)

\* The open database and its tables, by position.
LEMMA OpenFacts ==
  ASSUME CP!IInv, db # Null
  PROVE  /\ db \in C!Databases /\ db.data_dir = db_name /\ db_name \in DbNames
         /\ CP!Aligned /\ db \in CP!Databases
         /\ Len(db.names) \in Nat /\ Len(db.tables) = Len(db.names)
         /\ \A p \in 1..Len(db.names) :
              /\ db.names[p] \in TableNames /\ db.tables[p].rows \in Contents
              /\ db.tables[p].path = <<db_name, db.names[p]>>
         /\ \A p, q \in 1..Len(db.names) : db.names[p] = db.names[q] => p = q
<1>1. /\ db \in CP!Databases /\ CP!Aligned /\ db.data_dir = db_name
  BY DEF CP!IInv, CP!TypeOK, CP!SelectedIsOpen
<1>2. db \in C!Databases /\ db_name \in DbNames
  BY <1>1 DEF C!Databases, CP!Databases, C!Table, CP!Table, C!Paths, CP!Paths
<1>3. /\ Len(db.names) \in Nat /\ Len(db.tables) = Len(db.names)
      /\ \A p \in 1..Len(db.names) :
           /\ db.names[p] \in TableNames /\ db.tables[p] \in CP!Table
           /\ db.tables[p].path = <<db.data_dir, db.names[p]>>
      /\ \A p, q \in 1..Len(db.names) : db.names[p] = db.names[q] => p = q
  BY <1>1, CatalogAssumptions, CP!DatabaseFacts
<1>4. \A p \in 1..Len(db.names) : db.tables[p].rows \in Contents
  BY <1>3 DEF CP!Table
<1> QED BY <1>1, <1>2, <1>3, <1>4

\* get_table finds a name where it is.
LEMMA OpenPosition ==
  ASSUME CP!IInv, db # Null, NEW t \in TableNames
  PROVE  /\ C!PositionOf(t) \in 0..Len(db.names)
         /\ C!PositionOf(t) > 0 => db.names[C!PositionOf(t)] = t
         /\ C!PositionOf(t) = 0 => \A p \in 1..Len(db.names) : db.names[p] # t
  BY CatalogAssumptions, CP!PositionFacts, OpenFacts, SamePosition

\* OpenRows by position: the rows of the one table with the name, if there is one.
RowsAt ==
  \A t \in TableNames :
    /\ (db = Null \/ \A p \in 1..Len(db.names) : db.names[p] # t) => OpenRows(t) = Absent
    /\ \A p \in 1..Len(db.names) :
         db # Null /\ db.names[p] = t => OpenRows(t) = db.tables[p].rows

LEMMA RowsFacts == CP!IInv => RowsAt
<1> SUFFICES ASSUME CP!IInv, NEW t \in TableNames
             PROVE  /\ (db = Null \/ \A p \in 1..Len(db.names) : db.names[p] # t)
                         => OpenRows(t) = Absent
                    /\ \A p \in 1..Len(db.names) :
                         db # Null /\ db.names[p] = t => OpenRows(t) = db.tables[p].rows
  BY DEF RowsAt
<1>1. CASE db = Null
  BY <1>1 DEF OpenRows
<1>2. CASE db # Null
  <2> DEFINE q == C!PositionOf(t)
  <2>1. /\ q \in 0..Len(db.names) /\ Len(db.names) \in Nat
        /\ q > 0 => db.names[q] = t
        /\ q = 0 => \A p \in 1..Len(db.names) : db.names[p] # t
        /\ \A p, r \in 1..Len(db.names) : db.names[p] = db.names[r] => p = r
    BY <1>2, OpenPosition, OpenFacts
  <2>2. OpenRows(t) = IF q = 0 THEN Absent ELSE db.tables[q].rows
    BY <1>2 DEF OpenRows
  <2> HIDE DEF q
  <2>3. q > 0 => q \in 1..Len(db.names)
    BY <2>1
  <2>4. (\A p \in 1..Len(db.names) : db.names[p] # t) => q = 0
    BY <2>1, <2>3
  <2>5. ASSUME NEW p \in 1..Len(db.names), db.names[p] = t PROVE q = p
    BY <2>1, <2>3, <2>5
  <2>6. \A p \in 1..Len(db.names) : p # 0
    BY <2>1
  <2> QED BY <1>2, <2>2, <2>4, <2>5, <2>6
<1> QED BY <1>1, <1>2

\* Statements that leave the session as it is.
NoEffect(st, m) ==
  \/ m.op \in {"create database", "select"}
  \/ m.op = "drop database" /\ m.name # st.db
  \/ m.op = "create table" /\ (st.db = Null \/ st.rows[m.name] # Absent)
  \/ m.op \in {"drop table", "modify"} /\ st.rows[m.name] = Absent

\* What a statement does to the session, member by member.
LEMMA AfterFacts ==
  ASSUME NEW st \in Sessions, NEW m \in Commands, st.db # Null \/ st.rows = NoRows
  PROVE  /\ After(st, m) \in Sessions
         /\ m.op = "use" =>
              After(st, m) = [db |-> m.name, rows |-> NoRows, left |-> Left(st)]
         /\ m.op = "drop database" /\ m.name = st.db =>
              After(st, m) = [db |-> Null, rows |-> NoRows, left |-> Left(st)]
         /\ m.op = "create table" /\ st.db # Null /\ st.rows[m.name] = Absent =>
              After(st, m) = [db |-> st.db, rows |-> [st.rows EXCEPT ![m.name] = Empty],
                              left |-> st.left]
         /\ m.op = "drop table" /\ st.rows[m.name] # Absent =>
              /\ st.db # Null
              /\ After(st, m) = [db |-> st.db, rows |-> [st.rows EXCEPT ![m.name] = Absent],
                    left |-> [st.left EXCEPT ![<<st.db, m.name>>] = @ \cup {Absent}]]
         /\ m.op = "modify" /\ st.rows[m.name] # Absent =>
              After(st, m) = [db |-> st.db,
                              rows |-> [st.rows EXCEPT ![m.name] = m.makes[st.rows[m.name]]],
                              left |-> st.left]
         /\ NoEffect(st, m) => After(st, m) = st
<1>1. /\ st = [db |-> st.db, rows |-> st.rows, left |-> st.left]
      /\ st.db \in DbNames \cup {Null} /\ st.rows \in [TableNames -> Contents \cup {Absent}]
      /\ st.left \in [C!Paths -> SUBSET (Contents \cup {Absent})]
  BY DEF Sessions
<1>2. NoRows \in [TableNames -> Contents \cup {Absent}]
  BY DEF NoRows
<1>3. Left(st) \in [C!Paths -> SUBSET (Contents \cup {Absent})]
  <2>1. \A path \in C!Paths : path[2] \in TableNames
    BY DEF C!Paths
  <2>2. ASSUME NEW path \in C!Paths, st.rows[path[2]] # Absent
        PROVE  {st.rows[path[2]]} \in SUBSET (Contents \cup {Absent})
    BY <1>1, <2>1
  <2> QED BY <1>1, <2>2 DEF Left
<1>4. CASE m.op = "use"
  <2>1. After(st, m) = [Closed(st) EXCEPT !.db = m.name]
    BY <1>4 DEF After
  <2>2. After(st, m) = [db |-> m.name, rows |-> NoRows, left |-> Left(st)]
    BY <2>1 DEF Closed
  <2>3. m.name \in DbNames
    BY <1>4, CommandFacts DEF DatabaseOps
  <2>4. After(st, m) \in Sessions
    BY <1>2, <1>3, <2>2, <2>3 DEF Sessions
  <2> QED BY <1>4, <2>2, <2>4 DEF NoEffect
<1>5. CASE m.op = "drop database"
  <2>1. CASE m.name = st.db
    <3>1. After(st, m) = [db |-> Null, rows |-> NoRows, left |-> Left(st)]
      BY <1>5, <2>1 DEF After, Closed
    <3>2. After(st, m) \in Sessions
      BY <1>2, <1>3, <3>1 DEF Sessions
    <3> QED BY <1>5, <2>1, <3>1, <3>2 DEF NoEffect
  <2>2. CASE m.name # st.db
    <3>1. After(st, m) = st
      BY <1>5, <2>2 DEF After
    <3> QED BY <1>5, <2>2, <3>1 DEF NoEffect
  <2> QED BY <2>1, <2>2
<1>6. CASE m.op = "create table"
  <2>1. CASE st.db # Null /\ st.rows[m.name] = Absent
    <3>1. After(st, m) = [st EXCEPT !.rows[m.name] = Empty]
      BY <1>6, <2>1 DEF After
    <3>2. After(st, m) = [db |-> st.db, rows |-> [st.rows EXCEPT ![m.name] = Empty],
                          left |-> st.left]
      BY <1>1, <3>1
    <3>3. [st.rows EXCEPT ![m.name] = Empty] \in [TableNames -> Contents \cup {Absent}]
      BY <1>1, CatalogAssumptions DEF CP!EmptyAssumption
    <3>4. After(st, m) \in Sessions
      BY <1>1, <3>2, <3>3 DEF Sessions
    <3> QED BY <1>6, <2>1, <3>2, <3>4 DEF NoEffect
  <2>2. CASE st.db = Null \/ st.rows[m.name] # Absent
    <3>1. After(st, m) = st
      BY <1>6, <2>2 DEF After
    <3> QED BY <1>6, <2>2, <3>1 DEF NoEffect
  <2> QED BY <2>1, <2>2
<1>7. CASE m.op = "drop table"
  <2>0. m.name \in TableNames
    BY <1>7, CommandFacts DEF TableOps
  <2>1. CASE st.rows[m.name] # Absent
    <3>1. After(st, m) = [st EXCEPT !.rows[m.name] = Absent,
                                    !.left[<<st.db, m.name>>] = @ \cup {Absent}]
      BY <1>7, <2>1 DEF After
    <3>2. st.db # Null
      BY <2>0, <2>1 DEF NoRows
    <3>3. After(st, m) = [db |-> st.db, rows |-> [st.rows EXCEPT ![m.name] = Absent],
                          left |-> [st.left EXCEPT ![<<st.db, m.name>>] = @ \cup {Absent}]]
      BY <1>1, <3>1
    <3>4. [st.rows EXCEPT ![m.name] = Absent] \in [TableNames -> Contents \cup {Absent}]
      BY <1>1
    <3>5. [st.left EXCEPT ![<<st.db, m.name>>] = @ \cup {Absent}]
            \in [C!Paths -> SUBSET (Contents \cup {Absent})]
      BY <1>1
    <3>6. After(st, m) \in Sessions
      BY <1>1, <3>3, <3>4, <3>5 DEF Sessions
    <3> QED BY <1>7, <2>1, <3>2, <3>3, <3>6 DEF NoEffect
  <2>2. CASE st.rows[m.name] = Absent
    <3>1. After(st, m) = st
      BY <1>7, <2>2 DEF After
    <3> QED BY <1>7, <2>2, <3>1 DEF NoEffect
  <2> QED BY <2>1, <2>2
<1>8. CASE m.op = "modify"
  <2>0. m.name \in TableNames /\ m.makes \in [Contents -> Contents]
    BY <1>8, CommandFacts DEF TableOps
  <2>1. CASE st.rows[m.name] # Absent
    <3>1. After(st, m) = [st EXCEPT !.rows[m.name] = m.makes[@]]
      BY <1>8, <2>1 DEF After
    <3>2. After(st, m) = [db |-> st.db,
                          rows |-> [st.rows EXCEPT ![m.name] = m.makes[st.rows[m.name]]],
                          left |-> st.left]
      BY <1>1, <3>1
    <3>3. m.makes[st.rows[m.name]] \in Contents
      BY <1>1, <2>0, <2>1
    <3>4. [st.rows EXCEPT ![m.name] = m.makes[st.rows[m.name]]]
            \in [TableNames -> Contents \cup {Absent}]
      BY <1>1, <3>3
    <3>5. After(st, m) \in Sessions
      BY <1>1, <3>2, <3>4 DEF Sessions
    <3> QED BY <1>8, <2>1, <3>2, <3>5 DEF NoEffect
  <2>2. CASE st.rows[m.name] = Absent
    <3>1. After(st, m) = st
      BY <1>8, <2>2 DEF After
    <3> QED BY <1>8, <2>2, <3>1 DEF NoEffect
  <2> QED BY <2>1, <2>2
<1>9. CASE m.op \in {"create database", "select"}
  <2>1. After(st, m) = st
    BY <1>9 DEF After
  <2> QED BY <1>9, <2>1
<1> QED BY <1>4, <1>5, <1>6, <1>7, <1>8, <1>9, CommandFacts DEF DatabaseOps, TableOps

-----------------------------------------------------------------------------
(***************************************************************************)
(* Statements                                                              *)
(***************************************************************************)

\* Without a database no file belongs to it: leaving it changes nothing.
LEMMA LeftNothing ==
  ASSUME NEW st \in Sessions, st.db = Null
  PROVE  Left(st) = st.left
<1>1. \A path \in C!Paths : path[1] # Null
  BY CatalogAssumptions DEF C!Paths, CP!NullAssumption
<1>2. st.left \in [C!Paths -> SUBSET (Contents \cup {Absent})]
  BY DEF Sessions
<1>3. Left(st) = [path \in C!Paths |-> st.left[path]]
  BY <1>1 DEF Left
<1> QED BY <1>2, <1>3

\* A table that keeps its name and its rows is what it was, wherever it moves.
LEMMA SameTable ==
  ASSUME CP!IInv, CP!IInv', db # Null, db' # Null, NEW t \in TableNames,
         \A p \in 1..Len(db.names) : db.names[p] = t =>
           \E j \in 1..Len(db'.names) :
             db'.names[j] = t /\ db'.tables[j].rows = db.tables[p].rows,
         \A j \in 1..Len(db'.names) : db'.names[j] = t =>
           \E p \in 1..Len(db.names) : db.names[p] = t
  PROVE  OpenRows(t)' = OpenRows(t)
<1>1. RowsAt /\ RowsAt'
  BY RowsFacts, PTL
<1>2. CASE \E p \in 1..Len(db.names) : db.names[p] = t
  <2>1. PICK p \in 1..Len(db.names) : db.names[p] = t
    BY <1>2
  <2>2. PICK j \in 1..Len(db'.names) :
               db'.names[j] = t /\ db'.tables[j].rows = db.tables[p].rows
    BY <2>1
  <2>3. OpenRows(t) = db.tables[p].rows
    BY <1>1, <2>1 DEF RowsAt
  <2>4. OpenRows(t)' = db'.tables[j].rows
    BY <1>1, <2>2 DEF RowsAt
  <2> QED BY <2>2, <2>3, <2>4
<1>3. CASE \A p \in 1..Len(db.names) : db.names[p] # t
  <2>1. \A j \in 1..Len(db'.names) : db'.names[j] # t
    BY <1>3
  <2>2. OpenRows(t) = Absent
    BY <1>1, <1>3 DEF RowsAt
  <2>3. OpenRows(t)' = Absent
    BY <1>1, <2>1 DEF RowsAt
  <2> QED BY <2>2, <2>3
<1> QED BY <1>2, <1>3

\* A statement on a table finds the database open, and leaves one open.
LEMMA TableStatement ==
  ASSUME CP!IInv, CP!IInv', NEW t \in TableNames,
         \/ C!CreateTable(t) \/ C!DropTable(t) \/ C!Select(t)
         \/ \E rows \in Contents : C!Modify(t, rows)
  PROVE  /\ db # Null /\ db' # Null /\ db \in CP!Databases /\ Len(db.names) \in Nat
         /\ Len(db.tables) = Len(db.names)
         /\ db_name # Null /\ UNCHANGED <<dirs, db_name>>
<1>1. db_name # Null /\ UNCHANGED <<dirs, db_name>>
  BY DEF C!CreateTable, C!DropTable, C!Select, C!Modify, C!HasDb, C!disk
<1>2. db # Null /\ db' # Null
  BY <1>1 DEF CP!IInv, CP!SelectedIsOpen
<1> QED BY <1>1, <1>2, OpenFacts

\* CREATE TABLE adds one table, empty, or finds the name taken.
LEMMA CreateTableRows ==
  ASSUME CP!IInv, CP!IInv', NEW t \in TableNames, C!CreateTable(t)
  PROVE  /\ OpenRows(t)' = IF OpenRows(t) = Absent THEN Empty ELSE OpenRows(t)
         /\ \A u \in TableNames : u # t => OpenRows(u)' = OpenRows(u)
<1> DEFINE n == Len(db.names)
           new == [path |-> <<db.data_dir, t>>, rows |-> Empty]
<1>1. /\ db # Null /\ db' # Null /\ db \in CP!Databases /\ n \in Nat
      /\ Len(db.tables) = n
  BY TableStatement
<1>2. RowsAt /\ RowsAt'
  BY RowsFacts, PTL
<1>3. CASE C!PositionOf(t) = 0
  <2>1. db' = [db EXCEPT !.names = Append(@, t), !.tables = Append(@, new),
                         !.indexes = Append(@, Empty)]
    BY <1>3 DEF C!CreateTable
  <2>2. new \in CP!Table
    BY <1>1, CatalogAssumptions DEF CP!Table, CP!Paths, CP!Databases, CP!EmptyAssumption
  <2>3. db'.names = Append(db.names, t) /\ db'.tables = Append(db.tables, new)
    BY <1>1, <2>1 DEF CP!Databases
  <2>4. /\ Len(db'.names) = n + 1 /\ db'.names[n + 1] = t /\ db'.tables[n + 1] = new
        /\ \A p \in 1..n : db'.names[p] = db.names[p] /\ db'.tables[p] = db.tables[p]
    BY <1>1, <2>2, <2>3, AppendProperties DEF CP!Databases
  <2>5. \A p \in 1..n : p \in 1..(n + 1)
    BY <1>1
  <2>6. \A p \in 1..(n + 1) : p \in 1..n \/ p = n + 1
    BY <1>1
  <2>7. OpenRows(t) = Absent
    BY <1>1, <1>2, <1>3, OpenPosition DEF RowsAt
  <2>8. OpenRows(t)' = Empty
    <3>1. n + 1 \in 1..Len(db'.names) /\ db'.tables[n + 1].rows = Empty
      BY <1>1, <2>4
    <3> QED BY <1>1, <1>2, <2>4, <3>1 DEF RowsAt
  <2>9. ASSUME NEW u \in TableNames, u # t PROVE OpenRows(u)' = OpenRows(u)
    <3> HIDE DEF n, new
    <3>1. \A p \in 1..n : db.names[p] = u =>
            \E j \in 1..Len(db'.names) :
              db'.names[j] = u /\ db'.tables[j].rows = db.tables[p].rows
      BY <2>4, <2>5
    <3>2. \A j \in 1..Len(db'.names) : db'.names[j] = u =>
            \E p \in 1..n : db.names[p] = u
      BY <2>4, <2>6, <2>9
    <3> QED BY <1>1, <3>1, <3>2, SameTable DEF n
  <2> QED BY <2>7, <2>8, <2>9
<1>4. CASE C!PositionOf(t) > 0 /\ UNCHANGED db
  <2>1. \A u : OpenRows(u)' = OpenRows(u)
    BY <1>4 DEF OpenRows, C!PositionOf, C!SelectInSeq
  <2>2. OpenRows(t) # Absent
    <3>1. /\ C!PositionOf(t) \in 1..n /\ db.names[C!PositionOf(t)] = t
      BY <1>1, <1>4, OpenPosition
    <3>2. OpenRows(t) = db.tables[C!PositionOf(t)].rows /\ OpenRows(t) \in Contents
      BY <1>1, <1>4, <3>1, OpenFacts DEF OpenRows
    <3> QED BY <3>2, CatalogAssumptions DEF CP!SentinelAssumption
  <2> QED BY <2>1, <2>2
<1> QED BY <1>3, <1>4 DEF C!CreateTable

\* DROP TABLE takes one table away, or finds none.
LEMMA DropTableRows ==
  ASSUME CP!IInv, CP!IInv', NEW t \in TableNames, C!DropTable(t)
  PROVE  /\ OpenRows(t)' = Absent
         /\ \A u \in TableNames : u # t => OpenRows(u)' = OpenRows(u)
<1> DEFINE n == Len(db.names)
           q == C!PositionOf(t)
<1>1. /\ db # Null /\ db' # Null /\ db \in CP!Databases /\ n \in Nat
      /\ Len(db.tables) = n
      /\ \A p, r \in 1..n : db.names[p] = db.names[r] => p = r
  BY TableStatement, OpenFacts
<1>2. RowsAt /\ RowsAt'
  BY RowsFacts, PTL
<1>3. /\ q \in 0..n /\ (q > 0 => db.names[q] = t)
      /\ q = 0 => \A p \in 1..n : db.names[p] # t
  BY <1>1, OpenPosition
<1>4. CASE q = 0 /\ UNCHANGED db
  <2>1. \A u : OpenRows(u)' = OpenRows(u)
    BY <1>4 DEF OpenRows, C!PositionOf, C!SelectInSeq
  <2>2. OpenRows(t) = Absent
    BY <1>4 DEF OpenRows
  <2> QED BY <2>1, <2>2
<1>5. CASE q > 0 /\ db' = [db EXCEPT !.names = C!RemoveAt(@, q), !.tables = C!RemoveAt(@, q),
                                     !.indexes = C!RemoveAt(@, q)]
  <2>1. q \in 1..n /\ db.names[q] = t
    BY <1>1, <1>3, <1>5
  <2>2. db'.names = C!RemoveAt(db.names, q) /\ db'.tables = C!RemoveAt(db.tables, q)
    BY <1>1, <1>5 DEF CP!Databases
  <2> HIDE DEF q
  <2>3. /\ C!RemoveAt(db.names, q) = CP!RemoveAt(db.names, q)
        /\ C!RemoveAt(db.tables, q) = CP!RemoveAt(db.tables, q)
    BY DEF C!RemoveAt, CP!RemoveAt
  <2>4. db.names \in Seq(TableNames) /\ db.tables \in Seq(CP!Table)
    BY <1>1 DEF CP!Databases
  <2>5. /\ Len(db'.names) = n - 1
        /\ \A j \in 1..(n - 1) :
             db'.names[j] = IF j < q THEN db.names[j] ELSE db.names[j + 1]
    <3>1. /\ Len(CP!RemoveAt(db.names, q)) = n - 1
          /\ \A j \in 1..(n - 1) :
               CP!RemoveAt(db.names, q)[j] = IF j < q THEN db.names[j] ELSE db.names[j + 1]
      BY <2>1, <2>4, CatalogAssumptions, CP!RemoveAtFacts, Zenon
    <3> QED BY <2>2, <2>3, <3>1
  <2>6. \A j \in 1..(n - 1) :
          db'.tables[j] = IF j < q THEN db.tables[j] ELSE db.tables[j + 1]
    <3>1. q \in 1..Len(db.tables)
      BY <1>1, <2>1
    <3>2. \A j \in 1..(Len(db.tables) - 1) : CP!RemoveAt(db.tables, q)[j] =
                  IF j < q THEN db.tables[j] ELSE db.tables[j + 1]
      BY <2>4, <3>1, CatalogAssumptions, CP!RemoveAtFacts, Zenon
    <3> QED BY <1>1, <2>2, <2>3, <3>2
  <2> DEFINE old(j) == IF j < q THEN j ELSE j + 1
  <2>7. \A j \in 1..(n - 1) :
          old(j) \in 1..n /\ old(j) # q /\ db'.names[j] = db.names[old(j)]
          /\ db'.tables[j] = db.tables[old(j)]
    BY <1>1, <2>1, <2>5, <2>6
  <2>8. \A p \in 1..n : p # q => \E j \in 1..(n - 1) : old(j) = p
    <3> SUFFICES ASSUME NEW p \in 1..n, p # q PROVE \E j \in 1..(n - 1) : old(j) = p
      OBVIOUS
    <3>1. CASE p < q
      <4>1. p \in 1..(n - 1) /\ old(p) = p
        BY <1>1, <2>1, <3>1
      <4> QED BY <4>1
    <3>2. CASE p > q
      <4>1. p - 1 \in 1..(n - 1) /\ old(p - 1) = p
        BY <1>1, <2>1, <3>2
      <4> QED BY <4>1
    <3> QED BY <1>1, <2>1, <3>1, <3>2
  <2> HIDE DEF old
  <2>9. OpenRows(t)' = Absent
    <3>1. \A j \in 1..Len(db'.names) : db'.names[j] # t
      BY <1>1, <2>1, <2>5, <2>7
    <3> QED BY <1>2, <3>1 DEF RowsAt
  <2>10. ASSUME NEW u \in TableNames, u # t PROVE OpenRows(u)' = OpenRows(u)
    <3> HIDE DEF n
    <3>1. ASSUME NEW p \in 1..n, db.names[p] = u
          PROVE  \E j \in 1..Len(db'.names) :
                   db'.names[j] = u /\ db'.tables[j].rows = db.tables[p].rows
      <4>1. p # q
        BY <2>1, <2>10, <3>1
      <4>2. PICK j \in 1..(n - 1) : old(j) = p
        BY <2>8, <4>1
      <4>3. /\ j \in 1..Len(db'.names)
            /\ db'.names[j] = db.names[p] /\ db'.tables[j] = db.tables[p]
        BY <2>5, <2>7, <4>2
      <4> QED BY <3>1, <4>3
    <3>2. ASSUME NEW j \in 1..Len(db'.names), db'.names[j] = u
          PROVE  \E p \in 1..n : db.names[p] = u
      <4>1. j \in 1..(n - 1)
        BY <2>5
      <4> QED BY <2>7, <3>2, <4>1
    <3> QED BY <1>1, <3>1, <3>2, SameTable DEF n
  <2> QED BY <2>9, <2>10
<1> QED BY <1>3, <1>4, <1>5 DEF C!DropTable

\* INSERT, DELETE and UPDATE change the rows of one table, or find none.
LEMMA ModifyRows ==
  ASSUME CP!IInv, CP!IInv', NEW t \in TableNames, NEW rows \in Contents, C!Modify(t, rows)
  PROVE  /\ OpenRows(t)' = IF OpenRows(t) = Absent THEN Absent ELSE rows
         /\ \A u \in TableNames : u # t => OpenRows(u)' = OpenRows(u)
<1> DEFINE n == Len(db.names)
           q == C!PositionOf(t)
<1>1. /\ db # Null /\ db' # Null /\ db \in CP!Databases /\ n \in Nat
      /\ Len(db.tables) = n
      /\ \A p \in 1..n : db.tables[p].rows \in Contents
      /\ \A p, r \in 1..n : db.names[p] = db.names[r] => p = r
  BY TableStatement, OpenFacts
<1>2. RowsAt /\ RowsAt'
  BY RowsFacts, PTL
<1>3. /\ q \in 0..n /\ (q > 0 => db.names[q] = t)
      /\ q = 0 => \A p \in 1..n : db.names[p] # t
  BY <1>1, OpenPosition
<1>4. CASE q = 0 /\ UNCHANGED db
  <2>1. \A u : OpenRows(u)' = OpenRows(u)
    BY <1>4 DEF OpenRows, C!PositionOf, C!SelectInSeq
  <2>2. OpenRows(t) = Absent
    BY <1>4 DEF OpenRows
  <2> QED BY <2>1, <2>2
<1>5. CASE q > 0 /\ db' = [db EXCEPT !.tables[q].rows = rows, !.indexes[q] = rows]
  <2>1. q \in 1..n /\ db.names[q] = t
    BY <1>1, <1>3, <1>5
  <2> HIDE DEF q
  <2>2. db'.names = db.names /\ db'.tables = [db.tables EXCEPT ![q] = [@ EXCEPT !.rows = rows]]
    BY <1>1, <1>5 DEF CP!Databases
  <2>3. db.tables \in Seq(CP!Table) /\ db.tables[q] \in CP!Table
    BY <1>1, <2>1, ElementOfSeq DEF CP!Databases
  <2>4. \A j \in 1..n : db'.tables[j].rows = IF j = q THEN rows ELSE db.tables[j].rows
    BY <1>1, <2>1, <2>2, <2>3 DEF CP!Table
  <2>5. OpenRows(t) # Absent /\ OpenRows(t)' = rows
    <3>1. OpenRows(t) = db.tables[q].rows
      BY <1>1, <1>2, <2>1 DEF RowsAt
    <3>2. OpenRows(t)' = db'.tables[q].rows
      BY <1>1, <1>2, <2>1, <2>2 DEF RowsAt
    <3>3. db.tables[q].rows \in Contents /\ db'.tables[q].rows = rows
      BY <1>1, <2>1, <2>4
    <3> QED BY <3>1, <3>2, <3>3, CatalogAssumptions DEF CP!SentinelAssumption
  <2>6. ASSUME NEW u \in TableNames, u # t PROVE OpenRows(u)' = OpenRows(u)
    <3> HIDE DEF n
    <3>1. \A p \in 1..n : db.names[p] = u =>
            \E j \in 1..Len(db'.names) :
              db'.names[j] = u /\ db'.tables[j].rows = db.tables[p].rows
      <4>1. Len(db'.names) = n
        BY <2>2 DEF n
      <4> QED BY <2>1, <2>2, <2>4, <2>6, <4>1
    <3>2. \A j \in 1..Len(db'.names) : db'.names[j] = u =>
            \E p \in 1..n : db.names[p] = u
      BY <2>2 DEF n
    <3> QED BY <1>1, <3>1, <3>2, SameTable DEF n
  <2> QED BY <2>5, <2>6
<1> QED BY <1>3, <1>4, <1>5 DEF C!Modify

\* The executor and the session before a statement.
LEMMA SessionFacts ==
  ASSUME CP!IInv, Shared, pc # "down"
  PROVE  /\ session \in Sessions /\ db_name = session.db
         /\ session = [db |-> session.db, rows |-> session.rows, left |-> session.left]
         /\ \A t \in TableNames : OpenRows(t) = session.rows[t]
         /\ db = Null <=> session.db = Null
         /\ session.db # Null \/ session.rows = NoRows
<1>1. /\ session \in Sessions /\ db_name = session.db
      /\ \A t \in TableNames : OpenRows(t) = session.rows[t]
      /\ db = Null <=> session.db = Null
  BY DEF Shared, CP!IInv, CP!SelectedIsOpen
<1>2. session.db # Null \/ session.rows = NoRows
  <2> SUFFICES ASSUME session.db = Null PROVE session.rows = NoRows
    OBVIOUS
  <2>1. \A t \in TableNames : session.rows[t] = Absent
    BY <1>1 DEF OpenRows
  <2>2. session.rows \in [TableNames -> Contents \cup {Absent}]
    BY <1>1 DEF Sessions
  <2> QED BY <2>1, <2>2 DEF NoRows
<1>3. session = [db |-> session.db, rows |-> session.rows, left |-> session.left]
  BY <1>1 DEF Sessions
<1> QED BY <1>1, <1>2, <1>3

\* What a statement that is over at once has made of the executor, the tables and
\* the files is what it makes of the session.
Follows(st) ==
  /\ st \in Sessions
  /\ db_name' = st.db
  /\ \A t \in TableNames : OpenRows(t)' = st.rows[t]
  /\ \A path \in C!Paths : AsLeft(path) => C!File(path)' \in st.left[path] \/ path \in damaged'

\* Nothing but the answer or the directories.
LEMMA NothingFollows ==
  ASSUME CP!IInv, Shared, pc # "down", UNCHANGED <<files, damaged, db, db_name>>
  PROVE  Follows(session)
<1>1. \A t \in TableNames : OpenRows(t)' = OpenRows(t)
  BY DEF OpenRows, C!PositionOf, C!SelectInSeq
<1>2. \A path : C!File(path)' = C!File(path)
  BY DEF C!File
<1> QED BY <1>1, <1>2, SessionFacts DEF Follows, AsLeft

\* USE with no database open.
LEMMA UseFollows ==
  ASSUME CP!IInv, CP!IInv', Shared, NEW m \in Commands, m.op = "use",
         C!Use(m.name), pc' = "idle"
  PROVE  Follows(After(session, m))
<1>1. /\ db = Null /\ pc = "idle" /\ db_name' = m.name /\ db' = C!Database(m.name)
      /\ UNCHANGED <<files, damaged>>
  BY DEF C!Use, C!BeginSave, C!disk
<1>2. /\ session \in Sessions /\ session.db = Null /\ session.rows = NoRows
  BY <1>1, SessionFacts
<1>3. /\ After(session, m) \in Sessions
      /\ After(session, m) = [db |-> m.name, rows |-> NoRows, left |-> session.left]
  BY <1>2, AfterFacts, LeftNothing
<1>4. \A t \in TableNames : OpenRows(t)' = Absent
  <2>1. RowsAt'
    BY RowsFacts, PTL
  <2>2. db'.names = <<>>
    BY <1>1 DEF C!Database
  <2>3. Len(db'.names) = 0
    BY <2>2, EmptySeq
  <2> QED BY <2>1, <2>3 DEF RowsAt
<1>5. \A path : C!File(path)' = C!File(path)
  BY <1>1 DEF C!File
<1> QED BY <1>1, <1>3, <1>4, <1>5 DEF Follows, AsLeft, NoRows

\* CREATE TABLE, DROP TABLE, INSERT, DELETE, UPDATE and SELECT.
LEMMA TableFollows ==
  ASSUME CP!IInv, CP!IInv', Shared, NEW m \in Commands, m.op \in TableOps,
         pc = "idle", Execute(m)
  PROVE  Follows(After(session, m))
<1>1. /\ session \in Sessions /\ db_name = session.db /\ m.name \in TableNames
      /\ \A t \in TableNames : OpenRows(t) = session.rows[t]
      /\ db = Null <=> session.db = Null
      /\ session.db # Null \/ session.rows = NoRows
      /\ m.op = "modify" => m.makes \in [Contents -> Contents]
  BY SessionFacts, CommandFacts
<1>2. CASE C!NoDb(m.name)
  <2>1. UNCHANGED <<files, damaged, db, db_name>> /\ db_name = Null
    BY <1>2 DEF C!NoDb, C!HasDb, C!disk
  <2>2. session.db = Null /\ session.rows[m.name] = Absent
    BY <1>1, <2>1 DEF NoRows
  <2>3. NoEffect(session, m)
    BY <2>2 DEF NoEffect, TableOps
  <2>4. After(session, m) = session
    BY <1>1, <2>3, AfterFacts
  <2> QED BY <2>1, <2>4, NothingFollows
<1>3. CASE m.op = "select" /\ C!Select(m.name)
  <2>1. UNCHANGED <<files, damaged, db, db_name>>
    BY <1>3 DEF C!Select, C!disk
  <2>2. After(session, m) = session
    BY <1>1, <1>3, AfterFacts DEF NoEffect
  <2> QED BY <2>1, <2>2, NothingFollows
<1>4. CASE m.op = "create table" /\ C!CreateTable(m.name)
  <2>1. UNCHANGED <<files, damaged, db_name>> /\ session.db # Null
    BY <1>1, <1>4 DEF C!CreateTable, C!HasDb, C!disk
  <2>2. /\ OpenRows(m.name)' = IF session.rows[m.name] = Absent THEN Empty
                               ELSE session.rows[m.name]
        /\ \A u \in TableNames : u # m.name => OpenRows(u)' = session.rows[u]
    BY <1>1, <1>4, CreateTableRows
  <2>3. \A path : C!File(path)' = C!File(path)
    BY <2>1 DEF C!File
  <2>4. CASE session.rows[m.name] = Absent
    <3>1. /\ After(session, m) \in Sessions
          /\ After(session, m) = [db |-> session.db,
               rows |-> [session.rows EXCEPT ![m.name] = Empty], left |-> session.left]
      BY <1>1, <1>4, <2>1, <2>4, AfterFacts
    <3>2. \A t \in TableNames : OpenRows(t)' = [session.rows EXCEPT ![m.name] = Empty][t]
      BY <1>1, <2>2, <2>4 DEF Sessions
    <3> QED BY <1>1, <2>1, <2>3, <3>1, <3>2 DEF Follows, AsLeft
  <2>5. CASE session.rows[m.name] # Absent
    <3>1. After(session, m) = session
      BY <1>1, <1>4, <2>5, AfterFacts DEF NoEffect
    <3>2. \A t \in TableNames : OpenRows(t)' = session.rows[t]
      BY <2>2, <2>5
    <3> QED BY <1>1, <2>1, <2>3, <3>1, <3>2 DEF Follows, AsLeft
  <2> QED BY <2>4, <2>5
<1>5. CASE m.op = "modify" /\ \E held \in Contents :
             OpenRows(m.name) \in {held, Absent} /\ C!Modify(m.name, m.makes[held])
  <2>0. PICK held \in Contents :
               OpenRows(m.name) \in {held, Absent} /\ C!Modify(m.name, m.makes[held])
    BY <1>5
  <2>1. UNCHANGED <<files, damaged, db_name>> /\ m.makes[held] \in Contents
    BY <1>1, <1>5, <2>0 DEF C!Modify, C!disk
  <2>2. /\ OpenRows(m.name)' = IF session.rows[m.name] = Absent THEN Absent
                               ELSE m.makes[held]
        /\ \A u \in TableNames : u # m.name => OpenRows(u)' = session.rows[u]
    BY <1>1, <2>0, <2>1, ModifyRows
  <2>3. \A path : C!File(path)' = C!File(path)
    BY <2>1 DEF C!File
  <2>4. CASE session.rows[m.name] # Absent
    <3>0. held = session.rows[m.name]
      BY <1>1, <2>0, <2>4
    <3>1. /\ After(session, m) \in Sessions
          /\ After(session, m) = [db |-> session.db,
               rows |-> [session.rows EXCEPT ![m.name] = m.makes[session.rows[m.name]]],
               left |-> session.left]
      BY <1>1, <1>5, <2>4, AfterFacts
    <3>2. \A t \in TableNames : OpenRows(t)' =
            [session.rows EXCEPT ![m.name] = m.makes[session.rows[m.name]]][t]
      BY <1>1, <2>2, <2>4, <3>0 DEF Sessions
    <3> QED BY <1>1, <2>1, <2>3, <3>1, <3>2 DEF Follows, AsLeft
  <2>5. CASE session.rows[m.name] = Absent
    <3>1. After(session, m) = session
      BY <1>1, <1>5, <2>5, AfterFacts DEF NoEffect
    <3>2. \A t \in TableNames : OpenRows(t)' = session.rows[t]
      BY <2>2, <2>5
    <3> QED BY <1>1, <2>1, <2>3, <3>1, <3>2 DEF Follows, AsLeft
  <2> QED BY <2>4, <2>5
<1>6. CASE m.op = "drop table" /\ C!DropTable(m.name)
  <2>1. UNCHANGED db_name /\ db # Null
    BY <1>1, <1>6 DEF C!DropTable, C!HasDb
  <2>2. /\ OpenRows(m.name)' = Absent
        /\ \A u \in TableNames : u # m.name => OpenRows(u)' = session.rows[u]
    BY <1>1, <1>6, DropTableRows
  <2>3. CASE session.rows[m.name] = Absent
    <3>1. After(session, m) = session
      BY <1>1, <1>6, <2>3, AfterFacts DEF NoEffect
    <3>2. C!PositionOf(m.name) = 0
      <4>1. OpenRows(m.name) = Absent /\ C!PositionOf(m.name) \in 0..Len(db.names)
            /\ Len(db.names) \in Nat
        BY <1>1, <2>1, <2>3, OpenPosition, OpenFacts
      <4>2. C!PositionOf(m.name) \in 1..Len(db.names) =>
              OpenRows(m.name) \in Contents
        BY <2>1, OpenFacts DEF OpenRows
      <4> QED BY <4>1, <4>2, CatalogAssumptions DEF CP!SentinelAssumption
    <3>3. UNCHANGED <<files, damaged>>
      <4>1. C!PositionOf(m.name) > 0 \/ UNCHANGED <<files, db, damaged>>
        BY <1>6 DEF C!DropTable
      <4>2. ~ (C!PositionOf(m.name) > 0)
        BY <3>2
      <4> QED BY <4>1, <4>2
    <3>4. \A path : C!File(path)' = C!File(path)
      BY <3>3 DEF C!File
    <3> QED BY <1>1, <2>1, <2>2, <2>3, <3>1, <3>3, <3>4 DEF Follows, AsLeft
  <2>4. CASE session.rows[m.name] # Absent
    <3> DEFINE path0 == <<session.db, m.name>>
    <3>1. /\ After(session, m) \in Sessions
          /\ After(session, m) = [db |-> session.db,
               rows |-> [session.rows EXCEPT ![m.name] = Absent],
               left |-> [session.left EXCEPT ![path0] = @ \cup {Absent}]]
      BY <1>1, <1>6, <2>4, AfterFacts
    <3>2. db.data_dir = session.db /\ session.db \in DbNames
      BY <1>1, <2>1, OpenFacts
    <3>3. C!RemoveFile(session.db, m.name) \/ UNCHANGED <<files, damaged>>
      <4>1. C!RemoveFile(db.data_dir, m.name) \/ UNCHANGED <<files, damaged>>
        BY <1>6 DEF C!DropTable
      <4> QED BY <3>2, <4>1 DEF C!RemoveFile
    <3>4. \A t \in TableNames : OpenRows(t)' = [session.rows EXCEPT ![m.name] = Absent][t]
      BY <1>1, <2>2 DEF Sessions
    <3>5. ASSUME NEW path \in C!Paths, AsLeft(path)
          PROVE  \/ C!File(path)' \in [session.left EXCEPT ![path0] = @ \cup {Absent}][path]
                 \/ path \in damaged'
      <4>1. session.left \in [C!Paths -> SUBSET (Contents \cup {Absent})] /\ path0 \in C!Paths
        BY <1>1, <3>2 DEF Sessions, C!Paths
      <4>2. CASE UNCHANGED <<files, damaged>>
        BY <3>5, <4>1, <4>2 DEF AsLeft, C!File
      <4>3. CASE /\ files' = [files EXCEPT ![session.db][m.name] = Absent]
                 /\ damaged' = damaged \ {path0}
        <5>1. \A q \in C!Paths : C!File(q)' = IF q = path0 THEN Absent ELSE C!File(q)
          BY <1>1, <3>2, <4>3 DEF C!File, C!Paths, CP!IInv, CP!TypeOK
        <5> QED BY <3>5, <4>1, <4>3, <5>1 DEF AsLeft
      <4> QED BY <3>3, <4>2, <4>3 DEF C!RemoveFile
    <3> HIDE DEF path0
    <3> QED BY <1>1, <2>1, <3>1, <3>4, <3>5 DEF Follows
  <2> QED BY <2>3, <2>4
<1> QED BY <1>2, <1>3, <1>4, <1>5, <1>6 DEF Execute, TableOps

\* A statement that needs no save.
LEMMA ExecuteFollows ==
  ASSUME CP!IInv, CP!IInv', Shared, NEW m \in Commands, Execute(m), pc' = "idle"
  PROVE  Follows(After(session, m))
<1>1. /\ pc = "idle" /\ session \in Sessions /\ db_name = session.db
      /\ session.db # Null \/ session.rows = NoRows
  BY ExecuteFacts, SessionFacts
<1>2. CASE m.op = "use"
  <2>1. C!Use(m.name)
    BY <1>2 DEF Execute
  <2> QED BY <1>2, <2>1, UseFollows
<1>3. CASE m.op = "drop database"
  <2>1. db_name # m.name /\ C!RemoveDir(m.name) /\ UNCHANGED <<db, db_name>>
    BY <1>3 DEF Execute, C!DropDatabase, C!BeginSave
  <2>2. UNCHANGED <<files, damaged>>
    BY <2>1 DEF C!RemoveDir
  <2>3. After(session, m) = session
    BY <1>1, <1>3, <2>1, AfterFacts DEF NoEffect
  <2> QED BY <1>1, <2>1, <2>2, <2>3, NothingFollows
<1>4. CASE m.op = "create database"
  <2>1. UNCHANGED <<files, damaged, db, db_name>>
    BY <1>4 DEF Execute, C!CreateDatabase
  <2>2. After(session, m) = session
    BY <1>1, <1>4, AfterFacts DEF NoEffect
  <2> QED BY <1>1, <2>1, <2>2, NothingFollows
<1>5. CASE m.op \in TableOps
  BY <1>1, <1>5, TableFollows
<1> QED BY <1>2, <1>3, <1>4, <1>5, CommandFacts DEF DatabaseOps

-----------------------------------------------------------------------------
(***************************************************************************)
(* Leaving a database                                                      *)
(***************************************************************************)

\* save_all has returned: what the files hold is what leaving the database says.
LEMMA SavedLeft ==
  ASSUME CP!IInv, CP!SavedSoFar, Shared, Kept, pc = "saved", NEW path \in C!Paths
  PROVE  C!File(path) \in Left(session)[path] \/ path \in damaged
<1> DEFINE n == Len(db.names)
<1>1. /\ db # Null /\ pos \in 1..(n + 1) /\ n \in Nat /\ Len(db.tables) = n
      /\ db \in CP!Databases
      /\ \A p \in 1..n : /\ db.names[p] \in TableNames /\ db.tables[p].rows \in Contents
                         /\ db.tables[p].path = <<session.db, db.names[p]>>
      /\ \A p, q \in 1..n : db.names[p] = db.names[q] => p = q
  BY CatalogAssumptions, CP!SaveFacts, OpenFacts, SessionFacts
<1>2. DOMAIN db.tables = 1..n
  BY <1>1 DEF CP!Databases
<1>3. RowsAt /\ (\A t \in TableNames : OpenRows(t) = session.rows[t])
  BY RowsFacts, SessionFacts
<1>4. Left(session)[path] =
        IF path[1] = session.db /\ session.rows[path[2]] # Absent /\ path \notin C!Unsaved
        THEN {session.rows[path[2]]} ELSE session.left[path]
  BY DEF Left
<1>5. /\ \/ pos > n /\ refused = {}
         \/ pos <= n /\ refused = {db.tables[pos].path}
      /\ \A p \in 1..n : p < pos =>
           CP!File(db.tables[p].path) = db.tables[p].rows \/ db.tables[p].path \in damaged
  BY <1>1 DEF CP!SavedSoFar, CP!SavePath
<1> HIDE DEF n
<1>6. ASSUME NEW p \in 1..n, db.tables[p].path = path, p < pos
      PROVE  C!File(path) \in Left(session)[path] \/ path \in damaged
  <2>1. path[1] = session.db /\ path[2] = db.names[p]
    BY <1>1, <1>6
  <2>2. session.rows[path[2]] = db.tables[p].rows /\ db.tables[p].rows # Absent
    <3>1. OpenRows(path[2]) = db.tables[p].rows /\ path[2] \in TableNames
      BY <1>1, <1>3, <2>1 DEF RowsAt, n
    <3> QED BY <1>1, <1>3, <3>1, CatalogAssumptions DEF CP!SentinelAssumption
  <2>3. path \notin C!Unsaved
    <3> SUFFICES ASSUME NEW q \in 1..n, db.tables[q].path = path,
                        NEW r \in 1..q, db.tables[r].path \in refused
                 PROVE  FALSE
      BY <1>2 DEF C!Unsaved
    <3>1. q = p
      BY <1>1, <1>6
    <3>2. r \in 1..n /\ r < pos
      BY <1>1, <1>6, <3>1
    <3>3. pos \in 1..n /\ db.tables[r].path = db.tables[pos].path
      BY <1>1, <1>5
    <3>4. r = pos
      BY <1>1, <3>2, <3>3
    <3> QED BY <1>1, <3>2, <3>4
  <2>4. CP!File(path) = db.tables[p].rows \/ path \in damaged
    BY <1>5, <1>6
  <2> QED BY <1>4, <2>1, <2>2, <2>3, <2>4 DEF C!File, CP!File
<1>7. ASSUME \A p \in 1..n : db.tables[p].path = path => ~ (p < pos)
      PROVE  C!File(path) \in Left(session)[path] \/ path \in damaged
  <2>1. AsLeft(path)
    <3>1. ~ Reached(path)
      BY <1>1, <1>7 DEF Reached, n
    <3> QED BY <3>1 DEF Kept
  <2>2. ASSUME path[1] = session.db, session.rows[path[2]] # Absent
        PROVE  path \in C!Unsaved
    <3>1. path = <<path[1], path[2]>> /\ path[2] \in TableNames
      BY DEF C!Paths
    <3>2. PICK p \in 1..n : db.names[p] = path[2]
      BY <1>3, <2>2, <3>1 DEF RowsAt, n
    <3>3. db.tables[p].path = path
      BY <1>1, <2>2, <3>1, <3>2
    <3>4. pos \in 1..p /\ pos <= n
      BY <1>1, <1>7, <3>3
    <3>5. db.tables[pos].path \in refused
      BY <1>1, <1>5, <3>4
    <3> QED BY <1>2, <3>3, <3>4, <3>5 DEF C!Unsaved
  <2>3. Left(session)[path] = session.left[path]
    BY <1>4, <2>2
  <2> QED BY <2>1, <2>3 DEF AsLeft
<1> QED BY <1>6, <1>7

\* A database just opened has no tables, and no database has none either.
LEMMA NoTables ==
  ASSUME CP!IInv', NEW d, db' = Null \/ db' = C!Database(d)
  PROVE  \A t \in TableNames : OpenRows(t)' = Absent
<1>1. RowsAt'
  BY RowsFacts, PTL
<1>2. CASE db' = Null
  BY <1>1, <1>2 DEF RowsAt
<1>3. CASE db' = C!Database(d)
  <2>1. db'.names = <<>>
    BY <1>3 DEF C!Database
  <2>2. Len(db'.names) = 0
    BY <2>1, EmptySeq
  <2> QED BY <1>1, <2>2 DEF RowsAt
<1> QED BY <1>2, <1>3

\* USE and DROP DATABASE after their save.
LEMMA ReturnFacts ==
  ASSUME CP!IInv, CP!IInv', CP!SavedSoFar, Coupled, Shared, Kept, StatementReturns
  PROVE  /\ pc = "saved" /\ pc' = "idle" /\ cause' = cause
         /\ session' \in Sessions /\ db_name' = session'.db
         /\ \A t \in TableNames : OpenRows(t)' = session'.rows[t]
         /\ \A path \in C!Paths : AsLeft(path)'
<1> DEFINE m == Running
<1>1. /\ pc = "saved" /\ pc' = "idle" /\ cause' = cause /\ session' = After(session, m)
      /\ UNCHANGED <<files, damaged>>
  BY HandleFacts DEF StatementReturns, Answered, C!UseAfterSave, C!DropAfterSave, C!Resume,
                     C!RemoveDir, C!disk, Running
<1>2. /\ session \in Sessions /\ db_name = session.db
      /\ session.db # Null \/ session.rows = NoRows
  BY <1>1, SessionFacts
<1>3. m \in Commands
  BY <1>1, DoesAssumption DEF Coupled, Saves, Running, StatementReturns, C!UseAfterSave,
                             C!DropAfterSave
<1>4. \/ /\ m.op = "use" /\ m.name = caller.name
         /\ db_name' = m.name /\ db' = C!Database(m.name)
      \/ /\ m.op = "drop database" /\ m.name = session.db
         /\ db_name' = Null /\ db' = Null
  <2>1. /\ caller.op = "use" => Running = [op |-> "use", name |-> caller.name]
        /\ caller.op = "drop" => /\ Running = [op |-> "drop database", name |-> caller.name]
                                 /\ caller.name = db_name
    BY <1>1 DEF Coupled, Saves
  <2>2. CASE C!UseAfterSave
    <3>1. caller.op = "use" /\ db_name' = caller.name /\ db' = C!Database(caller.name)
      BY <2>2 DEF C!UseAfterSave
    <3>2. m.op = "use" /\ m.name = caller.name
      BY <2>1, <3>1
    <3> QED BY <3>1, <3>2
  <2>3. CASE C!DropAfterSave
    <3>1. caller.op = "drop" /\ db_name' = Null /\ db' = Null
      BY <2>3 DEF C!DropAfterSave
    <3>2. /\ Running = [op |-> "drop database", name |-> caller.name]
          /\ caller.name = db_name
      BY <2>1, <3>1
    <3>3. m.op = "drop database" /\ m.name = caller.name
      BY <3>2
    <3> QED BY <1>2, <3>1, <3>2, <3>3
  <2> QED BY <2>2, <2>3 DEF StatementReturns
<1> HIDE DEF m
<1>5. /\ session' \in Sessions /\ session'.rows = NoRows /\ session'.left = Left(session)
      /\ session'.db = db_name'
  <2>1. session' \in Sessions
    BY <1>1, <1>2, <1>3, AfterFacts
  <2>2. \/ session' = [db |-> db_name', rows |-> NoRows, left |-> Left(session)]
    BY <1>1, <1>2, <1>3, <1>4, AfterFacts
  <2> QED BY <2>1, <2>2
<1>6. \A t \in TableNames : OpenRows(t)' = session'.rows[t]
  BY <1>4, <1>5, NoTables DEF NoRows
<1>7. \A path \in C!Paths : AsLeft(path)'
  BY <1>1, <1>5, SavedLeft DEF AsLeft, C!File
<1> QED BY <1>1, <1>5, <1>6, <1>7

\* A statement that reaches the executor.
LEMMA StatementFacts ==
  ASSUME CP!IInv, CP!IInv', Shared, HandleStatement
  PROVE  /\ pc = "idle" /\ cause' = cause
         /\ \/ pc' = "open" /\ UNCHANGED <<files, damaged, db, db_name, session>>
            \/ pc' = "idle" /\ Follows(session')
<1>1. Running \in Commands /\ Execute(Running) /\ cause' = cause
  BY DoesAssumption, HandleFacts DEF HandleStatement, Running, Answered, server
<1>2. pc = "idle" /\ pc' \in {"idle", "open"}
  BY <1>1, ExecuteFacts
<1>3. CASE pc' = "open"
  BY <1>1, <1>2, <1>3, ExecuteFacts DEF HandleStatement
<1>4. CASE pc' = "idle"
  <2>1. session' = After(session, Running)
    BY <1>4 DEF HandleStatement, Answered, Running
  <2> QED BY <1>1, <1>2, <1>4, <2>1, ExecuteFollows
<1> QED BY <1>1, <1>2, <1>3, <1>4

\* save_all reads the open database and changes neither it nor the session.
LEMMA SavingKeeps ==
  ASSUME Saving
  PROVE  /\ pc \in {"open", "write"} /\ pc' \in {"open", "write", "saved"}
         /\ UNCHANGED <<dirs, db, db_name, session, cause>>
  BY DEF Saving, C!SaveOpen, C!Truncate, C!SaveWrite, C!SaveWriteFails, C!SaveEnd, C!disk,
         server

\* A step of save_all touches the file it has come to, and no other.
LEMMA SavingReached ==
  ASSUME CP!IInv, Saving, NEW path \in C!Paths, AsLeft(path) \/ Reached(path)
  PROVE  AsLeft(path)' \/ Reached(path)'
<1> DEFINE n == Len(db.tables)
<1>1. /\ pc \in {"open", "write"} /\ pc' \in {"open", "write", "saved"}
      /\ UNCHANGED <<db, session>>
  BY SavingKeeps
<1>2. pos \in 1..(n + 1) /\ n \in Nat
  BY <1>1, CatalogAssumptions, CP!SaveFacts
<1>3. \/ pc' # "write" /\ UNCHANGED <<files, damaged>> /\ pos' = pos /\ pc = "open"
      \/ /\ pos <= n
         /\ pos' = pos + 1 \/ (pos' = pos /\ pc = "open" /\ pc' = "write")
         /\ damaged' \in {damaged, damaged \ {CP!SavePath}, damaged \cup {CP!SavePath}}
         /\ \/ UNCHANGED files
            \/ files' = [files EXCEPT ![CP!SavePath[1]][CP!SavePath[2]] = Torn]
            \/ files' = [files EXCEPT ![CP!SavePath[1]][CP!SavePath[2]] = db.tables[pos].rows]
  <2>1. CASE C!SaveEnd
    BY <2>1 DEF C!SaveEnd, C!disk
  <2>2. CASE C!SaveOpen
    BY <2>2 DEF C!SaveOpen, C!Truncate, C!SavePath, CP!SavePath
  <2>3. CASE C!SaveWrite \/ C!SaveWriteFails
    BY <2>3 DEF C!SaveWrite, C!SaveWriteFails, C!SavePath, CP!SavePath, C!disk,
                CP!IInv, CP!Writing
  <2> QED BY <2>1, <2>2, <2>3 DEF Saving
<1>4. Reached(path) => Reached(path)'
  <2> SUFFICES ASSUME NEW p \in 1..n, db.tables[p].path = path,
                      p < pos \/ (pc = "write" /\ p = pos)
               PROVE  Reached(path)'
    BY DEF Reached
  <2>1. p < pos' \/ (pc' = "write" /\ p = pos')
    BY <1>2, <1>3
  <2> QED BY <1>1, <2>1 DEF Reached, Saves
<1>5. CASE pc' # "write" /\ UNCHANGED <<files, damaged>>
  BY <1>1, <1>4, <1>5 DEF AsLeft, C!File
<1>6. CASE /\ pos <= n
           /\ pos' = pos + 1 \/ (pos' = pos /\ pc' = "write")
           /\ damaged' \in {damaged, damaged \ {CP!SavePath}, damaged \cup {CP!SavePath}}
           /\ \/ UNCHANGED files
              \/ files' = [files EXCEPT ![CP!SavePath[1]][CP!SavePath[2]] = Torn]
              \/ files' = [files EXCEPT ![CP!SavePath[1]][CP!SavePath[2]] = db.tables[pos].rows]
  <2>1. /\ CP!SavePath \in CP!Paths /\ db.tables[pos].rows \in Contents
        /\ pos \in 1..n
    BY <1>1, <1>2, <1>6, CatalogAssumptions, CP!SaveFacts
  <2>2. CASE path = CP!SavePath
    <3>1. db'.tables[pos].path = path /\ pos \in 1..Len(db'.tables)
      BY <1>1, <2>1, <2>2 DEF CP!SavePath
    <3>2. pos < pos' \/ (pc' = "write" /\ pos = pos')
      BY <1>2, <1>6
    <3> QED BY <1>1, <3>1, <3>2 DEF Reached, Saves
  <2>3. CASE path # CP!SavePath
    <3>1. CP!File(path)' = CP!File(path)
      <4>1. path \in CP!Paths
        BY DEF C!Paths, CP!Paths
      <4>2. CASE UNCHANGED files
        BY <4>2 DEF CP!File
      <4>3. ASSUME NEW c \in Contents \cup {Absent, Torn},
                   files' = [files EXCEPT ![CP!SavePath[1]][CP!SavePath[2]] = c]
            PROVE  CP!File(path)' = CP!File(path)
        BY <2>1, <2>3, <4>1, <4>3, CatalogAssumptions, CP!FileUpdate DEF CP!IInv
      <4> QED BY <1>6, <2>1, <4>2, <4>3
    <3>2. path \in damaged => path \in damaged'
      BY <1>6, <2>3
    <3>3. AsLeft(path) => AsLeft(path)'
      BY <1>1, <3>1, <3>2 DEF AsLeft, C!File, CP!File
    <3> QED BY <1>4, <3>3
  <2> QED BY <2>2, <2>3
<1> QED BY <1>3, <1>5, <1>6

\* executor.shutdown() begins to save, or has nothing to save and ends.
LEMMA ShutdownFacts ==
  ASSUME Shutdown
  PROVE  /\ pc = "idle" /\ UNCHANGED <<files, damaged, session>>
         /\ \/ pc' = "down"
            \/ pc' = "open" /\ UNCHANGED <<db, db_name, cause>>
<1>1. pc = "idle" /\ UNCHANGED session /\ C!Shutdown
  BY DEF Shutdown, C!Shutdown
<1>2. CASE db # Null /\ C!BeginSave([op |-> "exit", name |-> Null])
  <2>1. pc' = "open" /\ UNCHANGED <<files, damaged, db, db_name>>
    BY <1>2 DEF C!BeginSave, C!disk
  <2>2. UNCHANGED cause
    BY <2>1 DEF Shutdown, server
  <2> QED BY <1>1, <2>1, <2>2
<1>3. CASE db = Null /\ C!Gone /\ UNCHANGED <<C!disk, damaged>>
  BY <1>1, <1>3 DEF C!Gone, C!disk
<1> QED BY <1>1, <1>2, <1>3 DEF C!Shutdown

\* executor.shutdown() has saved: the process ends in order.
LEMMA ShutdownReturnFacts ==
  ASSUME CP!IInv, CP!SavedSoFar, Shared, Kept, ShutdownReturns
  PROVE  /\ pc = "saved" /\ pc' = "down" /\ session' \in Sessions
         /\ \A path \in C!Paths : AsLeft(path)'
<1>1. /\ pc = "saved" /\ pc' = "down" /\ UNCHANGED <<files, damaged>>
      /\ session' = [db |-> Null, rows |-> NoRows, left |-> Left(session)]
  BY DEF ShutdownReturns, C!ExitAfterSave, C!Gone, C!disk, Closed
<1>2. Left(session) \in [C!Paths -> SUBSET (Contents \cup {Absent})]
  <2>1. \A path \in C!Paths : path[2] \in TableNames
    BY DEF C!Paths
  <2>2. /\ session.rows \in [TableNames -> Contents \cup {Absent}]
        /\ session.left \in [C!Paths -> SUBSET (Contents \cup {Absent})]
    BY DEF Shared, Sessions
  <2> QED BY <2>1, <2>2 DEF Left
<1>3. session' \in Sessions
  BY <1>1, <1>2 DEF Sessions, NoRows
<1>4. \A path \in C!Paths : AsLeft(path)'
  BY <1>1, SavedLeft DEF AsLeft, C!File
<1> QED BY <1>1, <1>3, <1>4

-----------------------------------------------------------------------------
(***************************************************************************)
(* The inductive step                                                      *)
(***************************************************************************)

LEMMA SharedStep ==
  ASSUME SP!IInv, CP!IInv, CP!IInv', CP!SavedSoFar, Coupled, Shared, Kept, Next
  PROVE  Shared'
<1>1. ASSUME UNCHANGED <<db, db_name, session>>, pc # "down" \/ pc' = "down" PROVE Shared'
  <2>1. \A t \in TableNames : OpenRows(t)' = OpenRows(t)
    BY <1>1 DEF OpenRows, C!PositionOf, C!SelectInSeq
  <2> QED BY <1>1, <2>1 DEF Shared
<1>2. ASSUME pc' = "down", UNCHANGED session PROVE Shared'
  BY <1>2 DEF Shared
<1>3. CASE Network \/ Interrupt
  <2>1. CASE UNCHANGED <<catalog, session>>
    BY <1>1, <2>1 DEF catalog
  <2>2. CASE C!Crash /\ UNCHANGED session
    BY <1>2, <2>2 DEF C!Crash, C!Gone
  <2> QED BY <1>3, <2>1, <2>2 DEF Network, Interrupt
<1>4. CASE HandleStatement
  BY <1>1, <1>4, StatementFacts DEF Follows, Shared
<1>5. CASE HandleOther \/ \E c \in Clients : Client(c)
  BY <1>1, <1>5 DEF HandleOther, Client, catalog
<1>6. CASE StatementReturns
  BY <1>6, ReturnFacts DEF Shared
<1>7. CASE Saving
  BY <1>1, <1>7, SavingKeeps
<1>8. CASE Shutdown
  BY <1>1, <1>2, <1>8, ShutdownFacts
<1>9. CASE ShutdownReturns
  BY <1>9, ShutdownReturnFacts DEF Shared
<1> QED BY <1>3, <1>4, <1>5, <1>6, <1>7, <1>8, <1>9 DEF Next, ServerThread

LEMMA KeptStep ==
  ASSUME SP!IInv, CP!IInv, CP!IInv', CP!SavedSoFar, Coupled, Shared, Kept, Next
  PROVE  Kept'
<1>1. ASSUME \A path \in C!Paths : AsLeft(path)' PROVE Kept'
  BY <1>1 DEF Kept
<1>2. ASSUME NEW path \in C!Paths, UNCHANGED <<files, damaged, session>>, AsLeft(path)
      PROVE  AsLeft(path)'
  BY <1>2 DEF AsLeft, C!File
<1>3. pc = "idle" => \A path \in C!Paths : AsLeft(path)
  BY DEF Kept, Reached, Saves
<1>4. cause = "exit" => pc = "down"
  BY DEF Coupled
<1>5. ASSUME UNCHANGED <<files, damaged, session, db, pc, pos>>, cause' = cause \/ cause' # "exit"
      PROVE  Kept'
  BY <1>5 DEF Kept, AsLeft, C!File, Reached, Saves
<1>6. CASE Network \/ Interrupt
  <2>1. cause' = cause \/ cause' # "exit"
    BY <1>6, NetworkFacts DEF Network, Interrupt, S!Interrupt, S!Down
  <2>2. CASE UNCHANGED <<catalog, session>>
    BY <1>5, <2>1, <2>2 DEF catalog
  <2>3. CASE C!Crash
    <3>1. pc # "down" /\ pc' = "down"
      BY <2>3 DEF C!Crash, C!Gone
    <3>2. cause' # "exit"
      BY <1>4, <2>1, <3>1
    <3> QED BY <3>1, <3>2 DEF Kept
  <2> QED BY <1>6, <2>2, <2>3 DEF Network, Interrupt
<1>7. CASE HandleOther \/ \E c \in Clients : Client(c)
  BY <1>5, <1>7, HandleFacts, ClientFacts DEF HandleOther, catalog
<1>8. CASE HandleStatement
  <2>1. pc = "idle" /\ cause' # "exit"
    BY <1>4, <1>8, StatementFacts
  <2>2. CASE UNCHANGED <<files, damaged, session>>
    BY <1>1, <1>2, <1>3, <2>1, <2>2
  <2>3. CASE Follows(session')
    <3>1. \A path \in C!Paths : AsLeft(path)'
      BY <1>3, <2>1, <2>3 DEF Follows, AsLeft
    <3> QED BY <1>1, <3>1
  <2> QED BY <1>8, <2>2, <2>3, StatementFacts
<1>9. CASE StatementReturns
  BY <1>1, <1>9, ReturnFacts
<1>10. CASE Saving
  <2>1. pc # "down" /\ cause' # "exit"
    BY <1>4, <1>10, SavingKeeps
  <2>2. \A path \in C!Paths : AsLeft(path)' \/ Reached(path)'
    BY <1>10, <2>1, SavingReached DEF Kept
  <2> QED BY <2>1, <2>2 DEF Kept
<1>11. CASE Shutdown
  BY <1>1, <1>2, <1>3, <1>11, ShutdownFacts
<1>12. CASE ShutdownReturns
  BY <1>1, <1>12, ShutdownReturnFacts
<1> QED BY <1>6, <1>7, <1>8, <1>9, <1>10, <1>11, <1>12 DEF Next, ServerThread

-----------------------------------------------------------------------------
(***************************************************************************)
(* The theorems                                                            *)
(***************************************************************************)

LEMMA InitIInv == Init => IInv
<1> SUFFICES ASSUME Init PROVE IInv
  OBVIOUS
<1>1. SP!IInv
  BY ServerInvariance DEF Init
<1>2. /\ pc = "idle" /\ db = Null /\ db_name = Null /\ srv = "accept" /\ cause = "none"
      /\ files = [d \in DbNames |-> [t \in TableNames |-> Absent]]
  BY DEF Init, S!Init
<1>3. CP!IInv
  <2>1. CP!TypeOK
    BY CatalogAssumptions, MadeAssumption, <1>2
       DEF Init, CP!TypeOK, CP!NoCall, CP!NoError, C!NoCall, C!NoError
  <2> QED BY <1>2, <2>1, CatalogAssumptions
          DEF Init, CP!IInv, CP!SelectedIsOpen, CP!Aligned, CP!Writing,
              CP!TornIsDamaged, CP!File, CP!Paths, CP!SentinelAssumption
<1>4. CP!SavedSoFar
  BY <1>2 DEF CP!SavedSoFar
<1>5. Coupled
  BY <1>2 DEF Coupled, Saves
<1>6. session = [db |-> Null, rows |-> NoRows, left |-> [path \in C!Paths |-> {Absent}]]
  BY DEF Init, NewSession
<1>7. Shared
  <2>1. session \in Sessions
    BY <1>6 DEF Sessions, NoRows
  <2>2. \A t \in TableNames : OpenRows(t) = session.rows[t]
    BY <1>2, <1>6 DEF OpenRows, NoRows
  <2> QED BY <1>2, <1>6, <2>1, <2>2 DEF Shared
<1>8. Kept
  <2>1. \A path \in C!Paths : C!File(path) = Absent
    BY <1>2 DEF C!File, C!Paths
  <2> QED BY <1>6, <2>1 DEF Kept, AsLeft
<1> QED BY <1>1, <1>3, <1>4, <1>5, <1>7, <1>8 DEF IInv

LEMMA NextIInv == IInv /\ [Next]_vars => IInv'
<1> SUFFICES ASSUME IInv, [Next]_vars PROVE IInv'
  OBVIOUS
<1>1. SP!IInv'
  BY ServerStep, ServerInvariance DEF IInv
<1>2. CP!IInv' /\ CP!SavedSoFar'
  BY CatalogStep, CatalogInvariance DEF IInv
<1>3. CASE Next
  BY <1>1, <1>2, <1>3, CoupledStep, SharedStep, KeptStep DEF IInv
<1>4. CASE UNCHANGED vars
  <2>1. Coupled'
    BY <1>4 DEF IInv, Coupled, Saves, Running, vars, server, catalog
  <2>2. Shared'
    <3>1. UNCHANGED <<db, db_name, session, pc>>
      BY <1>4 DEF vars, catalog
    <3>2. \A t \in TableNames : OpenRows(t)' = OpenRows(t)
      BY <3>1 DEF OpenRows, C!PositionOf, C!SelectInSeq
    <3> QED BY <3>1, <3>2 DEF IInv, Shared
  <2>3. Kept'
    BY <1>4 DEF IInv, Kept, AsLeft, C!File, Reached, Saves, vars, server, catalog
  <2> QED BY <1>1, <1>2, <2>1, <2>2, <2>3 DEF IInv
<1> QED BY <1>3, <1>4

LEMMA Invariance == Spec => []IInv
  BY InitIInv, NextIInv, PTL DEF Spec

\* Whoever sends them, statements run in one session: between two statements the
\* executor has the database and the rows the statements executed so far leave.
THEOREM SharedSession == Spec => []OneSession
<1>1. IInv => OneSession
  BY DEF IInv, Shared, OneSession
<1> QED BY <1>1, Invariance, PTL

\* Between two statements and after an orderly end the files are what all nine
\* kinds of statements, and the saves between them, leave: where save_all could
\* not open a file, that file and those behind it hold what they held before.
THEOREM OrderlyEndSaves == Spec => []FilesAsLeft
<1>1. IInv => FilesAsLeft
  BY DEF IInv, Kept, AsLeft, Reached, Saves, FilesAsLeft
<1> QED BY <1>1, Invariance, PTL

\* An executor that saves files inside its handlers is, to the network, the
\* executor Server has: every step is one of Server's, or none.
THEOREM ServesAsServer == Spec => S!Init /\ [][S!Next]_(S!vars)
<1>1. Init => S!Init
  BY DEF Init
<1> QED BY <1>1, ServerStep, PTL DEF Spec

\* The server is a caller of the executor like any other: it starts from a state
\* Catalog reaches, every step is one of Catalog's, or none, and so its vectors
\* stay parallel and every torn file is accounted for.
THEOREM ExecutesAsCatalog ==
  Spec => [][C!Next]_(C!vars) /\ [](C!TypeOK /\ C!Aligned /\ C!TornIsDamaged)
<1>1. IInv => C!TypeOK /\ C!Aligned /\ C!TornIsDamaged
  BY DEF IInv, CP!IInv, C!TypeOK, CP!TypeOK, C!Aligned, CP!Aligned, C!TornIsDamaged,
         CP!TornIsDamaged, C!Databases, CP!Databases, C!Table, CP!Table, C!Paths, CP!Paths,
         C!File, CP!File, C!SavePath, CP!SavePath, C!Callers, CP!Callers, C!Errors, CP!Errors,
         C!NoError, CP!NoError, C!NoCall, CP!NoCall
<1> QED BY <1>1, CatalogStep, Invariance, PTL DEF Spec

\* With statements of many clients, a shutdown and interruptions in any order,
\* only files of open tables change, and a table leaves memory dropped, saved, or
\* with the failure that kept it from being saved.
THEOREM SessionFiles == Spec => C!FilesFollowCatalog /\ C!TablesLeaveSaved
<1> DEFINE Own == \A path \in C!Paths : C!File(path)' # C!File(path) =>
                    \/ path[1] \in dirs \ dirs' /\ C!File(path)' = Absent
                    \/ /\ path \in C!OpenPaths(db)
                       /\ C!File(path)' = Absent => path \notin C!OpenPaths(db)'
           Leaves == \A tb \in C!OpenTables(db) : tb.path \notin C!OpenPaths(db)' =>
                       \/ C!Dropped(tb.path)
                       \/ C!File(tb.path)' = tb.rows
                       \/ tb.path \in damaged'
                       \/ tb.path \in C!Unsaved
                       \/ pc' = "down" /\ pc # "saved"
<1>1. IInv /\ [Next]_vars => CP!OnlyOwnFiles /\ CP!LeavesSaved
  BY CatalogAssumptions, CatalogStep, SameCatalog, CP!NextOwnFiles, CP!NextLeaves DEF IInv
<1>2. CP!OnlyOwnFiles => Own
  BY DEF CP!OnlyOwnFiles, C!Paths, CP!Paths, C!File, CP!File, C!OpenPaths, CP!OpenPaths,
         C!OpenTables, CP!OpenTables, C!Range, CP!Range
<1>3. CP!LeavesSaved => Leaves
  BY DEF CP!LeavesSaved, CP!Excused, C!File, CP!File, C!OpenPaths, CP!OpenPaths,
         C!OpenTables, CP!OpenTables, C!Range, CP!Range, C!Dropped, CP!Dropped,
         C!Unsaved, CP!Unsaved
<1>4. IInv /\ [Next]_vars => [Own]_(C!vars) /\ [Leaves]_(C!vars)
  BY <1>1, <1>2, <1>3
<1> QED BY <1>4, Invariance, PTL DEF Spec, C!FilesFollowCatalog, C!TablesLeaveSaved

\* Saving inside a handler loses no answer and sends none early: what a client
\* holds is the answer of its own statement, executed once.
THEOREM AnswersStayTrue == Spec => []S!ToldTheTruth
<1>1. SP!IInv => S!ToldTheTruth
  BY ServerAssumptions, SP!IInvTruth
     DEF S!ToldTheTruth, SP!ToldTheTruth, S!Conns, SP!Conns, S!My, SP!My
<1>2. IInv => SP!IInv
  BY DEF IInv
<1> QED BY <1>1, <1>2, Invariance, PTL

-----------------------------------------------------------------------------
(***************************************************************************)
(* The promise of Service                                                  *)
(***************************************************************************)

\* The two copies of Server see the same calls.
LEMMA SameViews ==
  /\ S!Phase = SP!Phase /\ S!Answer = SP!Answer /\ S!Waiting = SP!Waiting
  /\ S!Stopped = SP!Stopped /\ S!Conns = SP!Conns
  BY DEF S!Answer, SP!Answer, S!Conns, SP!Conns, S!NoConn, SP!NoConn, S!NoSocket,
         SP!NoSocket, S!Phase, SP!Phase, S!Stopped, SP!Stopped, S!Told, SP!Told, S!Waiting,
         SP!Waiting

LEMMA SamePromise ==
  /\ SP!Promise!Init <=> S!Promise!Init
  /\ [SP!Promise!Next]_(SP!Promise!vars) <=> [S!Promise!Next]_(S!Promise!vars)
<1> DEFINE Same == /\ S!Phase = SP!Phase /\ S!Answer = SP!Answer /\ S!Waiting = SP!Waiting
                   /\ S!Stopped = SP!Stopped /\ S!Conns = SP!Conns
<1>1. Same
  BY SameViews
<1>2. Same'
  BY <1>1, PTL
<1>3. SP!Promise!Init <=> S!Promise!Init
  BY SameViews DEF S!Promise!Init, SP!Promise!Init
<1>4. SP!Promise!Next <=> S!Promise!Next
  BY <1>1, <1>2 DEF S!Promise!Answers, SP!Promise!Answers, S!Promise!Arrive, SP!Promise!Arrive,
         S!Promise!Call, SP!Promise!Call, S!Promise!Current, SP!Promise!Current,
         S!Promise!Die, SP!Promise!Die, S!Promise!Execute, SP!Promise!Execute,
         S!Promise!Finish, SP!Promise!Finish, S!Promise!Next, SP!Promise!Next,
         S!Promise!Return, SP!Promise!Return, S!Promise!Stop, SP!Promise!Stop
<1>5. UNCHANGED SP!Promise!vars <=> UNCHANGED S!Promise!vars
  BY <1>1, <1>2 DEF S!Promise!vars, SP!Promise!vars
<1> QED BY <1>3, <1>4, <1>5

\* The session keeps the promise of Service: though a statement's handler saves
\* files and every client's statement changes the one open database, calls are
\* served one at a time, in order of arrival, executed at most once, and what a
\* client is told stays true.
THEOREM PromiseKept == Spec => S!KeepsPromise
<1>1. IInv /\ IInv' /\ [Next]_vars => [SP!Promise!Next]_(SP!Promise!vars)
  BY ServerAssumptions, SP!StepRefines, ServerStep, SameServer DEF IInv
<1>2. Init => SP!Promise!Init
  BY ServerAssumptions, SP!InitRefines, SameServer DEF Init
<1> QED BY <1>1, <1>2, SamePromise, Invariance, PTL DEF Spec, S!KeepsPromise, S!Promise!Spec

=============================================================================
