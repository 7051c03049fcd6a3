------------------------------ MODULE Catalog ------------------------------
(***************************************************************************)
(* execution/executor.cpp and storage/database.cpp: databases, tables and  *)
(* their files.  The executor keeps at most one database open, in memory;  *)
(* save_all writes its tables to their .dat files when it is left by USE,  *)
(* DROP DATABASE or the server's exit.  Each fopen and each write of       *)
(* save_all is a step, and the process may die between any two steps.      *)
(*                                                                         *)
(* What a table holds is one opaque value: Dml says how statements change  *)
(* it.  The index is represented by the contents it was built from.        *)
(***************************************************************************)
EXTENDS Integers, SequencesExt

CONSTANTS
  DbNames,     \* database names
  TableNames,  \* table names
  Contents,    \* what a table can hold
  Empty,       \* a table just created
  Absent,      \* no such file
  Torn,        \* a file truncated by fopen("w") and not yet written
  Null         \* no database selected: the null pointer, the empty name

Paths == DbNames \X TableNames
Table == [path : Paths, rows : Contents]

\* A Database object: three parallel vectors.
Databases == [data_dir : DbNames, names : Seq(TableNames),
              tables : Seq(Table), indexes : Seq(Contents)]

ASSUME EmptyAssumption    == Empty \in Contents
ASSUME SentinelAssumption == Absent # Torn /\ {Absent, Torn} \cap Contents = {}
ASSUME NullAssumption     == Null \notin DbNames \cup TableNames \cup Databases

VARIABLES
  dirs,      \* disk: the database directories under the data root
  files,     \* disk: files[d][t] is what d/t.dat holds
  db,        \* *_current_db
  db_name,   \* _current_db_name
  pc,        \* "idle", inside save_all ("open", "write", "saved"), or "down"
  caller,    \* the operation that called save_all
  pos,       \* loop variable of save_all, 1-based
  error,     \* the error the last statement returned
  damaged,   \* history: the files a crash or a failed write left torn
  refused    \* history: the file the last save_all could not open

disk == <<dirs, files>>
vars == <<dirs, files, db, db_name, pc, caller, pos, error, damaged, refused>>

Callers == [op : {"use", "drop"}, name : DbNames] \cup {[op |-> "exit", name |-> Null]}
Errors  == {"no database", "no table", "table exists", "drop table failed",
            "create failed", "drop failed"}
NoError == [what |-> "none", name |-> Null]
NoCall  == [op |-> "none", name |-> Null]

\* A new Database object.
Database(d) == [data_dir |-> d, names |-> <<>>, tables |-> <<>>, indexes |-> <<>>]

Init ==
  /\ dirs = {}
  /\ files = [d \in DbNames |-> [t \in TableNames |-> Absent]]
  /\ db = Null /\ db_name = Null
  /\ pc = "idle" /\ caller = NoCall /\ pos = 0
  /\ error = NoError
  /\ damaged = {} /\ refused = {}

\* A statement's answer.
Succeed       == error' = NoError
Fail(what, n) == error' = [what |-> what, name |-> n]

-----------------------------------------------------------------------------
(***************************************************************************)
(* Tables of the open database                                             *)
(***************************************************************************)

\* get_table, get_index: the first position with the name, 0 for nullptr.
PositionOf(t) == SelectInSeq(db.names, LAMBDA n : n = t)

\* require_db
HasDb == db_name # Null

\* The statement needs a database and none is selected.
NoDb(t) ==
  /\ pc = "idle" /\ ~HasDb
  /\ Fail("no database", t)
  /\ UNCHANGED <<disk, db, db_name, pc, caller, pos, damaged, refused>>

\* A new table starts empty, whatever its file holds.
CreateTable(t) ==
  /\ pc = "idle" /\ HasDb
  /\ \/ /\ PositionOf(t) = 0
        /\ db' = [db EXCEPT
                    !.names = Append(@, t),
                    !.tables = Append(@, [path |-> <<db.data_dir, t>>, rows |-> Empty]),
                    !.indexes = Append(@, Empty)]
        /\ Succeed
     \/ PositionOf(t) > 0 /\ Fail("table exists", t) /\ UNCHANGED db
  /\ UNCHANGED <<disk, db_name, pc, caller, pos, damaged, refused>>

\* std::remove of the table's file, whose result nobody looks at: the file may
\* not be there, or the system may keep it.
RemoveFile(d, t) ==
  \/ files' = [files EXCEPT ![d][t] = Absent] /\ damaged' = damaged \ {<<d, t>>}
  \/ UNCHANGED <<files, damaged>>

\* Mistake: the index vector is not shifted with the others.
DropTableOnly(t) ==
  /\ pc = "idle" /\ HasDb
  /\ LET p == PositionOf(t)
     IN  \/ /\ p > 0
            /\ RemoveFile(db.data_dir, t)
            /\ db' = [db EXCEPT !.names = RemoveAt(@, p),
                                !.tables = RemoveAt(@, p),
                                !.indexes = SubSeq(@, 1, Len(@) - 1)]
            /\ Succeed
         \/ p = 0 /\ Fail("drop table failed", t) /\ UNCHANGED <<files, db, damaged>>
  /\ UNCHANGED <<dirs, db_name, pc, caller, pos, refused>>

\* Mistake: DROP TABLE returns with the file removed and the vectors as they are.
DropTableKeepsEntry(t) ==
  /\ pc = "idle" /\ HasDb
  /\ LET p == PositionOf(t)
     IN  \/ p > 0 /\ RemoveFile(db.data_dir, t) /\ Succeed
         \/ p = 0 /\ Fail("drop table failed", t) /\ UNCHANGED <<files, damaged>>
  /\ UNCHANGED <<dirs, db, db_name, pc, caller, pos, refused>>

\* Remove the file, then close the gap in the three vectors.
DropTable(t) ==
  /\ pc = "idle" /\ HasDb
  /\ LET p == PositionOf(t)
     IN  \/ /\ p > 0
            /\ RemoveFile(db.data_dir, t)
            /\ db' = [db EXCEPT !.names = RemoveAt(@, p),
                                !.tables = RemoveAt(@, p),
                                !.indexes = RemoveAt(@, p)]
            /\ Succeed
         \/ p = 0 /\ Fail("drop table failed", t) /\ UNCHANGED <<files, db, damaged>>
  /\ UNCHANGED <<dirs, db_name, pc, caller, pos, refused>>

\* INSERT, DELETE, UPDATE: get_table and get_index, then both change.
Modify(t, rows) ==
  /\ pc = "idle" /\ HasDb
  /\ LET p == PositionOf(t)
     IN  \/ /\ p > 0
            /\ db' = [db EXCEPT !.tables[p].rows = rows, !.indexes[p] = rows]
            /\ Succeed
         \/ p = 0 /\ Fail("no table", t) /\ UNCHANGED db
  /\ UNCHANGED <<disk, db_name, pc, caller, pos, damaged, refused>>

\* SELECT finds the table or not.
Select(t) ==
  /\ pc = "idle" /\ HasDb
  /\ IF PositionOf(t) > 0 THEN Succeed ELSE Fail("no table", t)
  /\ UNCHANGED <<disk, db, db_name, pc, caller, pos, damaged, refused>>

-----------------------------------------------------------------------------
(***************************************************************************)
(* save_all                                                                *)
(***************************************************************************)

\* Mistake: the loop leaves out the first table.
BeginSaveAtSecond(c) ==
  pc' = "open" /\ caller' = c /\ pos' = 2 /\ UNCHANGED <<disk, db, db_name, error, damaged, refused>>

BeginSave(c) ==
  pc' = "open" /\ caller' = c /\ pos' = 1 /\ UNCHANGED <<disk, db, db_name, error, damaged, refused>>

SavePath == db.tables[pos].path

\* fopen(path, "w") truncates the file.
Truncate ==
  /\ SavePath[1] \in dirs
  /\ files' = [files EXCEPT ![SavePath[1]][SavePath[2]] = Torn]
  /\ pc' = "write"
  /\ UNCHANGED refused

\* Mistake: a file that cannot be opened is tried again.
SaveOpenRetries ==
  /\ pc = "open" /\ pos <= Len(db.tables)
  /\ Truncate \/ UNCHANGED <<files, pc, refused>>
  /\ UNCHANGED <<dirs, db, db_name, caller, pos, error, damaged>>

\* fopen fails without the directory, and may fail with it for any one table:
\* no permission, no descriptor, no room, a name too long.  Then save_all returns
\* false, the tables behind that one unsaved, and no caller looks at the result.
SaveOpen ==
  /\ pc = "open" /\ pos <= Len(db.tables)
  /\ \/ Truncate
     \/ pc' = "saved" /\ refused' = {SavePath} /\ UNCHANGED files
  /\ UNCHANGED <<dirs, db, db_name, caller, pos, error, damaged>>

\* Mistake: a table without rows is not written.
SaveWriteNonEmpty ==
  /\ pc = "write"
  /\ files' = IF db.tables[pos].rows = Empty THEN files
              ELSE [files EXCEPT ![SavePath[1]][SavePath[2]] = db.tables[pos].rows]
  /\ damaged' = damaged \ {SavePath}
  /\ pc' = "open" /\ pos' = pos + 1
  /\ UNCHANGED <<dirs, db, db_name, caller, error, refused>>

\* The fprintf calls and fclose.
SaveWrite ==
  /\ pc = "write"
  /\ files' = [files EXCEPT ![SavePath[1]][SavePath[2]] = db.tables[pos].rows]
  /\ damaged' = damaged \ {SavePath}
  /\ pc' = "open" /\ pos' = pos + 1
  /\ UNCHANGED <<dirs, db, db_name, caller, error, refused>>

\* A write fails (a full disk): the results of fprintf and fclose are not
\* looked at, and the loop goes on.
SaveWriteFails ==
  /\ pc = "write"
  /\ damaged' = damaged \cup {SavePath}
  /\ pc' = "open" /\ pos' = pos + 1
  /\ UNCHANGED <<disk, db, db_name, caller, error, refused>>

SaveEnd ==
  /\ pc = "open" /\ pos > Len(db.tables)
  /\ pc' = "saved"
  /\ UNCHANGED <<disk, db, db_name, caller, pos, error, damaged, refused>>

-----------------------------------------------------------------------------
(***************************************************************************)
(* Databases                                                               *)
(***************************************************************************)

\* mkdir fails when the directory exists, or when the system refuses it.
CreateDatabase(d) ==
  /\ pc = "idle"
  /\ \/ d \notin dirs /\ dirs' = dirs \cup {d} /\ Succeed
     \/ Fail("create failed", d) /\ UNCHANGED dirs
  /\ UNCHANGED <<files, db, db_name, pc, caller, pos, damaged, refused>>

\* Mistake: the finished call is left pending.
ResumePending == pc' = "idle" /\ refused' = {} /\ UNCHANGED <<caller, pos>>

\* save_all has returned and its caller finishes.
Resume == pc' = "idle" /\ caller' = NoCall /\ pos' = 0 /\ refused' = {}

\* Mistake: USE of the database that is open does nothing.
UseOther(d) ==
  /\ pc = "idle"
  /\ \/ db # Null /\ db_name # d /\ BeginSave([op |-> "use", name |-> d])
     \/ db_name = d /\ Succeed /\ UNCHANGED <<disk, db, db_name, pc, caller, pos, damaged, refused>>
     \/ /\ db = Null
        /\ db_name' = d /\ db' = Database(d)
        /\ Succeed
        /\ UNCHANGED <<disk, pc, caller, pos, damaged, refused>>

\* USE: save and delete the open database, if any, and open an empty one with
\* the new name.  Nothing is read from the directory, which need not exist.
Use(d) ==
  /\ pc = "idle"
  /\ \/ db # Null /\ BeginSave([op |-> "use", name |-> d])
     \/ /\ db = Null
        /\ db_name' = d /\ db' = Database(d)
        /\ Succeed
        /\ UNCHANGED <<disk, pc, caller, pos, damaged, refused>>

UseAfterSave ==
  /\ pc = "saved" /\ caller.op = "use"
  /\ db_name' = caller.name /\ db' = Database(caller.name)
  /\ Succeed
  /\ Resume
  /\ UNCHANGED <<disk, damaged>>

\* rmdir succeeds on an existing, empty directory only, and may be refused.
RemoveDir(d) ==
  /\ \/ /\ d \in dirs /\ \A t \in TableNames : files[d][t] = Absent
        /\ dirs' = dirs \ {d}
        /\ Succeed
     \/ Fail("drop failed", d) /\ UNCHANGED dirs
  /\ UNCHANGED <<files, damaged>>

\* DROP DATABASE: the open database is saved and closed first.
DropDatabase(d) ==
  /\ pc = "idle"
  /\ \/ db_name = d /\ BeginSave([op |-> "drop", name |-> d])
     \/ db_name # d /\ RemoveDir(d) /\ UNCHANGED <<db, db_name, pc, caller, pos, refused>>

\* Mistake: the name of the deleted database stays selected.
DropAfterSaveKeepsName ==
  /\ pc = "saved" /\ caller.op = "drop"
  /\ db' = Null
  /\ RemoveDir(caller.name)
  /\ Resume
  /\ UNCHANGED db_name

DropAfterSave ==
  /\ pc = "saved" /\ caller.op = "drop"
  /\ db' = Null /\ db_name' = Null
  /\ RemoveDir(caller.name)
  /\ Resume

-----------------------------------------------------------------------------
(***************************************************************************)
(* The process                                                             *)
(***************************************************************************)

\* The memory of the process is gone.
Gone ==
  /\ pc' = "down"
  /\ db' = Null /\ db_name' = Null
  /\ caller' = NoCall /\ pos' = 0 /\ error' = NoError /\ refused' = {}

\* Executor::shutdown, after the server's loop has ended.
Shutdown ==
  /\ pc = "idle"
  /\ \/ db # Null /\ BeginSave([op |-> "exit", name |-> Null])
     \/ db = Null /\ Gone /\ UNCHANGED <<disk, damaged>>

ExitAfterSave ==
  /\ pc = "saved" /\ caller.op = "exit"
  /\ Gone
  /\ UNCHANGED <<disk, damaged>>

\* The process is killed: no handler saves anything.
Crash ==
  /\ pc # "down"
  /\ Gone
  /\ damaged' = IF pc = "write" THEN damaged \cup {SavePath} ELSE damaged
  /\ UNCHANGED disk

Restart ==
  /\ pc = "down"
  /\ pc' = "idle"
  /\ UNCHANGED <<disk, db, db_name, caller, pos, error, damaged, refused>>

SaveStep == SaveOpen \/ SaveWrite \/ SaveWriteFails \/ SaveEnd
              \/ UseAfterSave \/ DropAfterSave \/ ExitAfterSave

Next ==
  \/ \E t \in TableNames : NoDb(t) \/ CreateTable(t) \/ DropTable(t) \/ Select(t)
  \/ \E t \in TableNames, c \in Contents : Modify(t, c)
  \/ \E d \in DbNames : CreateDatabase(d) \/ Use(d) \/ DropDatabase(d)
  \/ SaveStep
  \/ Shutdown \/ Crash \/ Restart

\* The thread inside save_all keeps running.
Fairness == WF_vars(SaveStep)

Spec == Init /\ [][Next]_vars /\ Fairness

-----------------------------------------------------------------------------
(***************************************************************************)
(* Properties                                                              *)
(***************************************************************************)
OpenTables(x) == IF x = Null THEN {} ELSE Range(x.tables)

OpenPaths(x) == {tb.path : tb \in OpenTables(x)}

\* The tables save_all did not save: the one whose file it could not open, and
\* those behind it.
Unsaved ==
  {db.tables[p].path : p \in {q \in DOMAIN db.tables :
                                 \E r \in 1..q : db.tables[r].path \in refused}}

File(path) == files[path[1]][path[2]]

\* Every variable stays in its range, and a call is pending exactly while
\* save_all runs.
TypeOK ==
  /\ dirs \subseteq DbNames
  /\ files \in [DbNames -> [TableNames -> Contents \cup {Absent, Torn}]]
  /\ db_name \in DbNames \cup {Null}
  /\ db \in Databases \cup {Null}
  /\ pc \in {"idle", "open", "write", "saved", "down"}
  /\ IF pc \in {"idle", "down"} THEN caller = NoCall /\ pos = 0
     ELSE caller \in Callers /\ db # Null /\ pos \in 1..(Len(db.tables) + 1)
  /\ error \in [what : Errors, name : DbNames \cup TableNames] \cup {NoError}
  /\ damaged \subseteq Paths
  /\ refused \subseteq Paths /\ (pc # "saved" => refused = {})

\* The three parallel vectors of a Database agree at every position after any
\* history of CREATE and DROP TABLE: a name occurs once, its table writes to
\* the file of that name, and its index describes that table's rows.
Aligned ==
  db # Null =>
    /\ Len(db.tables) = Len(db.names) /\ Len(db.indexes) = Len(db.names)
    /\ \A p, q \in 1..Len(db.names) : db.names[p] = db.names[q] => p = q
    /\ \A p \in 1..Len(db.names) :
         /\ db.tables[p].path = <<db.data_dir, db.names[p]>>
         /\ db.indexes[p] = db.tables[p].rows

\* _current_db_name and _current_db agree: DROP DATABASE dereferences the
\* pointer after looking only at the name, the DML handlers after require_db.
SelectedIsOpen ==
  /\ db = Null <=> db_name = Null
  /\ db # Null => db.data_dir = db_name

\* A truncated file is the one save_all is writing, or was left by a crash or a
\* failed write that no later save has repaired.
TornIsDamaged ==
  \A path \in Paths : File(path) = Torn =>
    path \in damaged \/ (pc = "write" /\ path = SavePath)

\* Only a file of a table of the open database ever changes by itself, and it
\* disappears only together with that table; any other file disappears with its
\* directory at most.  So no USE and no restart destroys the data of a table that
\* is not in memory.
FilesFollowCatalog ==
  [][\A path \in Paths : File(path)' # File(path) =>
       \/ path[1] \in dirs \ dirs' /\ File(path)' = Absent
       \/ /\ path \in OpenPaths(db)
          /\ File(path)' = Absent => path \notin OpenPaths(db)']_vars

\* Between two saves a table leaves memory alone, by DROP TABLE, and its file is
\* removed or stays as it is.
Dropped(path) ==
  /\ pc = "idle" /\ db' # Null
  /\ OpenPaths(db) \ OpenPaths(db)' = {path}
  /\ File(path)' \in {Absent, File(path)}

\* A table leaves memory only when it is dropped, or when its file holds its
\* rows, or when they could not be saved: the write failed, its file or that of a
\* table before it could not be opened, or the process was killed.
TablesLeaveSaved ==
  [][\A tb \in OpenTables(db) : tb.path \notin OpenPaths(db)' =>
       \/ Dropped(tb.path)
       \/ File(tb.path)' = tb.rows
       \/ tb.path \in damaged'
       \/ tb.path \in Unsaved
       \/ pc' = "down" /\ pc # "saved"]_vars

\* save_all and the operation that called it come to an end.
SaveReturns == pc \in {"open", "write", "saved"} ~> pc \in {"idle", "down"}

-----------------------------------------------------------------------------
(***************************************************************************)
(* What a comment says of the program, and the code does not do.           *)
(***************************************************************************)

\* "Tables are loaded on demand via get_table/create_table" (database.cpp:128):
\* get_table finds a table whose file is in the open database's directory.
LoadedOnDemand ==
  error.what = "no table" => files[db_name][error.name] = Absent
=============================================================================
