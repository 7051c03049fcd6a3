------------------------------ MODULE Session ------------------------------
(***************************************************************************)
(* Server composed with Catalog: the one Executor behind all connections.  *)
(* The server thread executes a statement, or executor.shutdown(), inside  *)
(* its handler: while save_all writes its files, the connections wait, the *)
(* clients go on, and the process may be killed.                           *)
(***************************************************************************)
EXTENDS Integers, SequencesExt

CONSTANTS
  Clients, Nobody, Statements, Brimming, Refused, LongAnswer, Exit, Backlog, MaxEntered,
  DbNames, TableNames, Contents, Empty, Absent, Torn, Null,
  Does,   \* the command a statement is parsed to
  Made,   \* the databases the data root holds when the server starts
  Says    \* bound: per client, what its user may type, call by call

ASSUME MadeAssumption == Made \subseteq DbNames
ASSUME SaysAssumption == Says \in [Clients -> Seq(SUBSET (Statements \cup {Exit}))]

VARIABLES
  srv, conn, running, backlog, cause, repl, entered, got, sock, executed,
  dirs, files, db, db_name, pc, caller, pos, error, damaged, refused,
  session \* history: what the executed statements leave, run in their order

S == INSTANCE Server
C == INSTANCE Catalog

server  == <<srv, conn, running, backlog, cause, repl, entered, got, sock, executed>>
catalog == <<dirs, files, db, db_name, pc, caller, pos, error, damaged, refused>>
vars    == <<server, catalog, session>>

\* What the nine kinds of statements are to the executor.  INSERT, DELETE and
\* UPDATE are what each makes of its table's rows: the same, if it fails.
Commands == [op : {"use", "drop database", "create database"}, name : DbNames]
              \cup [op : {"create table", "drop table", "select"}, name : TableNames]
              \cup [op : {"modify"}, name : TableNames, makes : [Contents -> Contents]]

ASSUME DoesAssumption    == Does \in [Statements -> Commands]
ASSUME ServerAssumption  == S!StatementsAssumption /\ S!ExitAssumption /\ S!BoundsAssumption
ASSUME CatalogAssumption == C!EmptyAssumption /\ C!SentinelAssumption /\ C!NullAssumption

\* The session as the statements see it: the selected database, the rows of its
\* tables, and what each file may hold by then.
NoRows     == [t \in TableNames |-> Absent]
NewSession == [db |-> Null, rows |-> NoRows, left |-> [path \in C!Paths |-> {Absent}]]

\* The database is left: its tables are in their files, but for those that
\* save_all did not come to.
Left(st) ==
  [path \in C!Paths |->
     IF path[1] = st.db /\ st.rows[path[2]] # Absent /\ path \notin C!Unsaved
     THEN {st.rows[path[2]]} ELSE st.left[path]]
Closed(st) == [db |-> Null, rows |-> NoRows, left |-> Left(st)]

After(st, m) ==
  CASE m.op = "use" -> [Closed(st) EXCEPT !.db = m.name]
    [] m.op = "drop database" /\ m.name = st.db -> Closed(st)
    [] m.op = "create table" /\ st.db # Null /\ st.rows[m.name] = Absent ->
         [st EXCEPT !.rows[m.name] = Empty]
    [] m.op = "drop table" /\ st.rows[m.name] # Absent ->
         [st EXCEPT !.rows[m.name] = Absent, !.left[<<st.db, m.name>>] = @ \cup {Absent}]
    [] m.op = "modify" /\ st.rows[m.name] # Absent ->
         [st EXCEPT !.rows[m.name] = m.makes[@]]
    [] OTHER -> st

\* A server started on a data root an earlier one has made databases in.
Init ==
  /\ S!Init
  /\ dirs = Made
  /\ files = [d \in DbNames |-> [t \in TableNames |-> Absent]]
  /\ db = Null /\ db_name = Null
  /\ pc = "idle" /\ caller = C!NoCall /\ pos = 0
  /\ error = C!NoError
  /\ damaged = {} /\ refused = {}
  /\ session = NewSession

-----------------------------------------------------------------------------
\* What the executor holds of a table.
OpenRows(t) ==
  LET p == C!PositionOf(t) IN IF db = Null \/ p = 0 THEN Absent ELSE db.tables[p].rows

\* The executor's dispatch.
Execute(m) ==
  \/ m.op = "create database" /\ C!CreateDatabase(m.name)
  \/ m.op = "drop database" /\ C!DropDatabase(m.name)
  \/ m.op = "use" /\ C!Use(m.name)
  \/ m.op \in {"create table", "drop table", "select", "modify"} /\ C!NoDb(m.name)
  \/ m.op = "create table" /\ C!CreateTable(m.name)
  \/ m.op = "drop table" /\ C!DropTable(m.name)
  \/ m.op = "select" /\ C!Select(m.name)
  \/ /\ m.op = "modify"
     /\ \E held \in Contents :
          OpenRows(m.name) \in {held, Absent} /\ C!Modify(m.name, m.makes[held])

\* The statement has returned its ExecResult: the answer can be sent.
Answered ==
  /\ S!Handle
  /\ session' = After(session, Does[sock[conn].text])

\* A request that reaches the executor.  A USE or DROP DATABASE that has a
\* database to save returns later.
HandleStatement ==
  /\ srv = "handle" /\ sock[conn].text \in Statements \ Refused
  /\ Execute(Does[sock[conn].text])
  /\ IF pc' = "idle" THEN Answered ELSE UNCHANGED <<server, session>>

\* exit, and what the parser refuses.
HandleOther ==
  /\ srv = "handle" /\ sock[conn].text \in Refused \cup {Exit}
  /\ S!Handle
  /\ UNCHANGED <<catalog, session>>

\* One step of save_all, inside a statement or inside shutdown.
Saving ==
  /\ C!SaveOpen \/ C!SaveWrite \/ C!SaveWriteFails \/ C!SaveEnd
  /\ UNCHANGED <<server, session>>

\* save_all has returned, and so does the statement that called it.
StatementReturns ==
  /\ C!UseAfterSave \/ C!DropAfterSave
  /\ Answered

\* Mistake: the accept loop ends and nothing is saved.
ExitWithoutSave ==
  /\ S!Shutdown
  /\ C!Crash
  /\ session' = Closed(session)

\* executor.shutdown() after the loop: with a database open the process stays
\* until save_all has returned.
Shutdown ==
  /\ srv = "shutdown"
  /\ C!Shutdown
  /\ IF pc' = "down" THEN S!Shutdown ELSE UNCHANGED server
  /\ UNCHANGED session

ShutdownReturns ==
  /\ C!ExitAfterSave
  /\ S!Shutdown
  /\ session' = Closed(session)

\* The steps of the server that do not touch the executor, except that SIGPIPE
\* ends the process with it.
Network ==
  /\ S!Accept \/ S!RecvRequest \/ S!RecvEmpty \/ S!SendAnswer \/ S!SendAnswerNewline
  /\ IF srv' = "down" THEN C!Crash ELSE UNCHANGED catalog
  /\ UNCHANGED session

\* The operator stops the process, perhaps in the middle of a save.
Interrupt ==
  /\ S!Interrupt
  /\ C!Crash
  /\ UNCHANGED session

Client(c) ==
  /\ \/ S!ClientStep(c) \/ S!Kill(c)
     \/ /\ entered[c] + 1 \in DOMAIN Says[c]
        /\ \E s \in Says[c][entered[c] + 1] : S!Enter(c, s)
  /\ UNCHANGED <<catalog, session>>

ServerThread ==
  \/ Network
  \/ HandleStatement \/ HandleOther \/ StatementReturns
  \/ Saving
  \/ Shutdown \/ ShutdownReturns

Next == ServerThread \/ Interrupt \/ \E c \in Clients : Client(c)

\* The server's thread, also inside save_all, and every live client keep
\* running.
Fairness ==
  /\ WF_vars(ServerThread)
  /\ \A c \in Clients : WF_vars(S!ClientStep(c) /\ UNCHANGED <<catalog, session>>)

Spec == Init /\ [][Next]_vars /\ Fairness

-----------------------------------------------------------------------------
(***************************************************************************)
(* Properties                                                              *)
(***************************************************************************)

\* All connections share one session.  Between two statements the selected
\* database and the rows of its tables are what the statements executed so far
\* leave, run in that order, whoever sent them: a client's statement runs in the
\* database of the last USE of any client, and another client's DROP closes it.
OneSession ==
  pc = "idle" =>
    /\ db_name = session.db
    /\ \A t \in TableNames : OpenRows(t) = session.rows[t]

\* Between two statements and after an orderly end, every file holds what the
\* statements executed so far leave in it: the rows its table had when its
\* database was last left, and what was there before where save_all did not come
\* to it.  The exceptions are files a write failed on.
FilesAsLeft ==
  pc = "idle" \/ cause = "exit" =>
    \A path \in C!Paths : C!File(path) \in session.left[path] \/ path \in damaged

\* "goodbye" is sent before anything is saved.  Once a client has it, or the loop
\* has been told to end, the server comes to its end, and an end that is not a
\* kill comes with the files as the session leaves them.
GoodbyeThenSaved ==
  (~ running \/ \E c \in Clients : got[c] = "goodbye") ~> (srv = "down" /\ FilesAsLeft)

\* Saving inside a handler changes nothing of what Server says: no connection
\* moves, no answer is sent early, and every call still returns.
ActsAsServer == S!Spec
=============================================================================
