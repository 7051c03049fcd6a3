--------------------------- MODULE CatalogProofs ---------------------------
(***************************************************************************)
(* Proofs about Catalog, for any databases, tables and contents: memory    *)
(* and files stay consistent under every order of statements, failed       *)
(* writes, crashes and restarts.                                           *)
(***************************************************************************)
EXTENDS Catalog, SequenceTheorems, WellFoundedInduction, TLAPS

\* Removing the table at position i (DROP TABLE on the parallel vectors) keeps
\* the elements before i and moves the others down.
LEMMA RemoveAtFacts ==
  ASSUME NEW S, NEW s \in Seq(S), NEW i \in 1..Len(s)
  PROVE  /\ RemoveAt(s, i) \in Seq(S)
         /\ Len(RemoveAt(s, i)) = Len(s) - 1
         /\ \A j \in 1..(Len(s) - 1) :
              RemoveAt(s, i)[j] = IF j < i THEN s[j] ELSE s[j + 1]
<1> DEFINE a == SubSeq(s, 1, i - 1)
           b == SubSeq(s, i + 1, Len(s))
<1>1. Len(s) \in Nat /\ \A n \in 1..Len(s) : s[n] \in S
  BY LenProperties, ElementOfSeq
<1>2. /\ a \in Seq(S) /\ Len(a) = i - 1
      /\ \A n \in 1..(i - 1) : a[n] = s[n]
  <2>1. \A n \in 1..(i - 1) : s[n] \in S
    BY <1>1
  <2> QED BY <1>1, <2>1, SubSeqProperties
<1>3. /\ b \in Seq(S) /\ Len(b) = Len(s) - i
      /\ \A n \in 1..(Len(s) - i) : b[n] = s[i + n]
  <2>1. \A n \in (i + 1)..Len(s) : s[n] \in S
    BY <1>1
  <2>2. /\ b \in Seq(S)
        /\ Len(b) = IF i + 1 <= Len(s) THEN Len(s) - (i + 1) + 1 ELSE 0
        /\ \A n \in 1..(Len(s) - (i + 1) + 1) : b[n] = s[i + 1 + n - 1]
    BY <1>1, <2>1, SubSeqProperties
  <2> QED BY <1>1, <2>2
<1> HIDE DEF a, b
<1>4. /\ a \o b \in Seq(S)
      /\ Len(a \o b) = Len(a) + Len(b)
      /\ \A n \in 1..(Len(a) + Len(b)) :
           (a \o b)[n] = IF n <= Len(a) THEN a[n] ELSE b[n - Len(a)]
  BY <1>2, <1>3, ConcatProperties
<1> DEFINE d == a \o b
<1>5. RemoveAt(s, i) = d
  BY DEF RemoveAt, a, b
<1> HIDE DEF d
<1>6. /\ d \in Seq(S) /\ Len(d) = Len(s) - 1
      /\ \A n \in 1..(Len(s) - 1) :
           d[n] = IF n <= i - 1 THEN a[n] ELSE b[n - (i - 1)]
  BY <1>1, <1>2, <1>3, <1>4 DEF d
<1>7. ASSUME NEW j \in 1..(Len(s) - 1)
      PROVE  d[j] = IF j < i THEN s[j] ELSE s[j + 1]
  <2>1. CASE j < i
    BY <1>1, <1>2, <1>6, <2>1
  <2>2. CASE j >= i
    <3>1. d[j] = b[j - (i - 1)] /\ j - (i - 1) \in 1..(Len(s) - i)
      BY <1>1, <1>6, <2>2
    <3>2. b[j - (i - 1)] = s[i + (j - (i - 1))] /\ i + (j - (i - 1)) = j + 1
      BY <1>1, <1>3, <3>1
    <3> QED BY <2>2, <3>1, <3>2
  <2> QED BY <1>1, <2>1, <2>2
<1> QED BY <1>5, <1>6, <1>7

\* While save_all writes a file, the loop variable names a table.
Writing == pc = "write" => pos <= Len(db.tables)

\* The inductive invariant.  TypeOK rests on Writing: pos + 1 must stay within
\* one of the number of tables.
IInv == TypeOK /\ SelectedIsOpen /\ Aligned /\ Writing /\ TornIsDamaged

-----------------------------------------------------------------------------
\* The names of an open database are distinct, as Aligned says: get_table and
\* get_index find the one position of a name, or none.
LEMMA PositionFacts ==
  ASSUME NEW t \in TableNames, db \in Databases, Aligned
  PROVE  /\ PositionOf(t) \in 0..Len(db.names)
         /\ PositionOf(t) > 0 => db.names[PositionOf(t)] = t
         /\ PositionOf(t) = 0 => \A p \in 1..Len(db.names) : db.names[p] # t
<1> DEFINE I == {p \in 1..Len(db.names) : db.names[p] = t}
<1>1. PositionOf(t) = IF I # {} THEN Min(I) ELSE 0
  BY DEF PositionOf, SelectInSeq
<1>2. Len(db.names) \in Nat
  BY LenProperties DEF Databases
<1>3. \A p, q \in 1..Len(db.names) : db.names[p] = db.names[q] => p = q
  BY NullAssumption DEF Aligned
<1>4. ASSUME I # {} PROVE Min(I) \in I
  <2>1. PICK p \in I : I = {p}
    BY <1>3, <1>4
  <2>2. Min({p}) = p
    BY <1>2 DEF Min
  <2> QED BY <2>1, <2>2
<1> QED BY <1>1, <1>2, <1>4

\* The vectors of an open database, element by element.
LEMMA DatabaseFacts ==
  ASSUME db \in Databases, Aligned
  PROVE  /\ db # Null /\ db.data_dir \in DbNames
         /\ Len(db.names) \in Nat
         /\ Len(db.tables) = Len(db.names) /\ Len(db.indexes) = Len(db.names)
         /\ \A p \in 1..Len(db.names) :
              /\ db.names[p] \in TableNames
              /\ db.tables[p] \in Table
              /\ db.indexes[p] \in Contents
              /\ db.tables[p].path = <<db.data_dir, db.names[p]>>
              /\ db.indexes[p] = db.tables[p].rows
         /\ \A p, q \in 1..Len(db.names) : db.names[p] = db.names[q] => p = q
<1>1. db # Null
  BY NullAssumption
<1>2. db.names \in Seq(TableNames) /\ db.tables \in Seq(Table) /\ db.indexes \in Seq(Contents)
  BY DEF Databases
<1>3. Len(db.tables) = Len(db.names) /\ Len(db.indexes) = Len(db.names)
  BY <1>1 DEF Aligned
<1>4. \A p \in 1..Len(db.names) :
         db.names[p] \in TableNames /\ db.tables[p] \in Table /\ db.indexes[p] \in Contents
  BY <1>2, <1>3, ElementOfSeq, LenProperties
<1>5. Len(db.names) \in Nat /\ db.data_dir \in DbNames
  BY <1>2, LenProperties DEF Databases
<1> QED BY <1>1, <1>3, <1>4, <1>5 DEF Aligned

\* A Database object just created has no tables.
LEMMA NewDatabase ==
  ASSUME NEW d \in DbNames
  PROVE  Database(d) \in Databases /\ Database(d) # Null /\ Database(d).data_dir = d
         /\ Database(d).names = <<>> /\ Database(d).tables = <<>>
         /\ Database(d).indexes = <<>>
         /\ Len(Database(d).names) = 0 /\ Len(Database(d).tables) = 0
         /\ Len(Database(d).indexes) = 0
<1>1. Database(d) \in Databases
  BY EmptySeq DEF Database, Databases
<1> QED BY <1>1, EmptySeq, NullAssumption DEF Database

-----------------------------------------------------------------------------
\* Every answer is of the type of answers.
LEMMA AnswerType ==
  ASSUME \/ Succeed
         \/ \E what \in Errors, n \in DbNames \cup TableNames : Fail(what, n)
  PROVE  error' \in [what : Errors, name : DbNames \cup TableNames] \cup {NoError}
  BY DEF Succeed, Fail

\* A server just started on an empty data root.
LEMMA InitIInv == Init => IInv
<1> SUFFICES ASSUME Init PROVE IInv
  OBVIOUS
<1>1. TypeOK
  BY DEF Init, TypeOK, NoError, NoCall
<1>2. SelectedIsOpen /\ Aligned /\ Writing
  BY DEF Init, SelectedIsOpen, Aligned, Writing
<1>3. TornIsDamaged
  BY SentinelAssumption DEF Init, TornIsDamaged, File, Paths
<1> QED BY <1>1, <1>2, <1>3 DEF IInv

\* A statement that changes nothing but its answer: NoDb, Select, and the
\* failing cases of the others.
LEMMA AnswerIInv ==
  ASSUME IInv, pc = "idle", UNCHANGED <<disk, db, db_name, pc, caller, pos, damaged, refused>>,
         error' \in [what : Errors, name : DbNames \cup TableNames] \cup {NoError}
  PROVE  IInv'
<1>1. TypeOK'
  BY DEF IInv, TypeOK, disk
<1>2. SelectedIsOpen' /\ Aligned' /\ Writing'
  BY DEF IInv, SelectedIsOpen, Aligned, Writing, disk
<1>3. TornIsDamaged'
  BY DEF IInv, TornIsDamaged, File, SavePath, disk
<1> QED BY <1>1, <1>2, <1>3 DEF IInv

-----------------------------------------------------------------------------
(***************************************************************************)
(* Statements on tables                                                    *)
(***************************************************************************)

\* The parts of the invariant that a statement on the tables of the open
\* database keeps, whatever it does to them.
LEMMA TableStatementIInv ==
  ASSUME IInv, pc = "idle", db # Null, db' \in Databases, db'.data_dir = db.data_dir,
         UNCHANGED <<dirs, db_name, pc, caller, pos, refused>>,
         error' \in [what : Errors, name : DbNames \cup TableNames] \cup {NoError},
         Aligned',
         \/ UNCHANGED <<files, damaged>>
         \/ \E d \in DbNames, t \in TableNames : RemoveFile(d, t)
  PROVE  IInv'
<1>1. files' \in [DbNames -> [TableNames -> Contents \cup {Absent, Torn}]]
      /\ damaged' \subseteq Paths
  BY DEF IInv, TypeOK, RemoveFile
<1>2. TypeOK'
  BY <1>1, NullAssumption DEF IInv, TypeOK
<1>3. SelectedIsOpen' /\ Writing'
  BY NullAssumption DEF IInv, SelectedIsOpen, Writing
<1>4. TornIsDamaged'
  <2>1. CASE UNCHANGED <<files, damaged>>
    BY <2>1 DEF IInv, TornIsDamaged, File
  <2>2. CASE \E d \in DbNames, t \in TableNames : RemoveFile(d, t)
    <3>1. PICK d \in DbNames, t \in TableNames : RemoveFile(d, t)
      BY <2>2
    <3>2. CASE UNCHANGED <<files, damaged>>
      BY <2>1, <3>2 DEF IInv, TornIsDamaged, File
    <3>3. CASE files' = [files EXCEPT ![d][t] = Absent] /\ damaged' = damaged \ {<<d, t>>}
      <4>1. \A path \in Paths : File(path)' = IF path = <<d, t>> THEN Absent ELSE File(path)
        BY <3>3 DEF IInv, TypeOK, File, Paths
      <4> QED BY <3>3, <4>1, SentinelAssumption DEF IInv, TornIsDamaged
    <3> QED BY <3>1, <3>2, <3>3 DEF RemoveFile
  <2> QED BY <2>1, <2>2
<1> QED BY <1>2, <1>3, <1>4 DEF IInv

\* CREATE TABLE appends to all three vectors, or finds the name taken.
LEMMA CreateTableIInv ==
  ASSUME IInv, NEW t \in TableNames, CreateTable(t)
  PROVE  IInv'
<1>1. db \in Databases /\ db # Null /\ Aligned
  BY NullAssumption DEF IInv, TypeOK, SelectedIsOpen, CreateTable, HasDb
<1>2. CASE PositionOf(t) = 0 /\ Succeed
  <2> DEFINE n == Len(db.names)
             new == [path |-> <<db.data_dir, t>>, rows |-> Empty]
  <2>1. db' = [db EXCEPT !.names = Append(@, t), !.tables = Append(@, new),
                         !.indexes = Append(@, Empty)]
    BY <1>2, PositionFacts, <1>1 DEF CreateTable
  <2>2. new \in Table /\ Empty \in Contents
    BY <1>1, EmptyAssumption DEF Table, Paths, Databases
  <2>3. db' \in Databases /\ db'.data_dir = db.data_dir
    BY <1>1, <2>1, <2>2, AppendProperties DEF Databases
  <2>4. /\ Len(db'.names) = n + 1 /\ Len(db'.tables) = n + 1 /\ Len(db'.indexes) = n + 1
        /\ \A p \in 1..n : /\ db'.names[p] = db.names[p]
                           /\ db'.tables[p] = db.tables[p]
                           /\ db'.indexes[p] = db.indexes[p]
        /\ db'.names[n + 1] = t /\ db'.tables[n + 1] = new /\ db'.indexes[n + 1] = Empty
    BY <1>1, <2>1, <2>2, DatabaseFacts, AppendProperties DEF Databases
  <2>5. Aligned'
    <3>1. \A p \in 1..n : db'.names[p] # t
      BY <1>1, <1>2, <2>4, PositionFacts
    <3>2. \A p \in 1..(n + 1) : p \in 1..n \/ p = n + 1
      BY <1>1, DatabaseFacts
    <3>3. \A p, q \in 1..(n + 1) : db'.names[p] = db'.names[q] => p = q
      BY <1>1, <2>4, <3>1, <3>2, DatabaseFacts
    <3>4. ASSUME NEW p \in 1..(n + 1)
          PROVE  /\ db'.tables[p].path = <<db'.data_dir, db'.names[p]>>
                 /\ db'.indexes[p] = db'.tables[p].rows
      <4>1. CASE p \in 1..n
        <5>1. /\ db.tables[p].path = <<db.data_dir, db.names[p]>>
              /\ db.indexes[p] = db.tables[p].rows
          BY <1>1, <4>1, DatabaseFacts
        <5>2. /\ db'.tables[p] = db.tables[p] /\ db'.names[p] = db.names[p]
              /\ db'.indexes[p] = db.indexes[p] /\ db'.data_dir = db.data_dir
          BY <2>3, <2>4, <4>1
        <5> QED BY <5>1, <5>2
      <4>2. CASE p = n + 1
        <5>1. /\ db'.tables[p] = new /\ db'.names[p] = t
              /\ db'.indexes[p] = Empty /\ db'.data_dir = db.data_dir
          BY <2>3, <2>4, <4>2
        <5> QED BY <5>1
      <4> QED BY <3>2, <4>1, <4>2
    <3> QED BY <2>4, <3>3, <3>4 DEF Aligned
  <2> QED BY <1>1, <1>2, <2>3, <2>5, TableStatementIInv DEF CreateTable, Succeed, disk
<1>3. CASE Fail("table exists", t) /\ UNCHANGED db
  BY <1>3, AnswerIInv DEF CreateTable, Fail, Errors
<1> QED BY <1>2, <1>3 DEF CreateTable

\* DROP TABLE closes the gap in all three vectors, and its file is gone.
LEMMA DropTableIInv ==
  ASSUME IInv, NEW t \in TableNames, DropTable(t)
  PROVE  IInv'
<1> DEFINE p == PositionOf(t)
           n == Len(db.names)
<1>1. db \in Databases /\ db # Null /\ Aligned /\ db.data_dir \in DbNames
  BY NullAssumption DEF IInv, TypeOK, SelectedIsOpen, DropTable, HasDb, Databases
<1>2. CASE p > 0 /\ RemoveFile(db.data_dir, t) /\ Succeed
  <2>1. p \in 1..n
    BY <1>1, <1>2, PositionFacts, DatabaseFacts
  <2>2. db' = [db EXCEPT !.names = RemoveAt(@, p), !.tables = RemoveAt(@, p),
                         !.indexes = RemoveAt(@, p)]
    <3>1. p # 0
      BY <1>2
    <3> QED BY <3>1, Zenon DEF DropTable
  <2> HIDE DEF p
  <2>3. /\ RemoveAt(db.names, p) \in Seq(TableNames)
        /\ Len(RemoveAt(db.names, p)) = n - 1
        /\ \A j \in 1..(n - 1) :
             RemoveAt(db.names, p)[j] = IF j < p THEN db.names[j] ELSE db.names[j + 1]
    BY <1>1, <2>1, RemoveAtFacts DEF Databases
  <2>4. /\ RemoveAt(db.tables, p) \in Seq(Table)
        /\ Len(RemoveAt(db.tables, p)) = n - 1
        /\ \A j \in 1..(n - 1) :
             RemoveAt(db.tables, p)[j] = IF j < p THEN db.tables[j] ELSE db.tables[j + 1]
    <3>1. Len(db.tables) = n /\ db.tables \in Seq(Table)
      BY <1>1, DatabaseFacts DEF Databases
    <3>2. p \in 1..Len(db.tables)
      BY <2>1, <3>1
    <3>3. /\ RemoveAt(db.tables, p) \in Seq(Table)
          /\ Len(RemoveAt(db.tables, p)) = Len(db.tables) - 1
          /\ \A j \in 1..(Len(db.tables) - 1) :
               RemoveAt(db.tables, p)[j] =
                 IF j < p THEN db.tables[j] ELSE db.tables[j + 1]
      BY <3>1, <3>2, RemoveAtFacts, Zenon
    <3> QED BY <3>1, <3>3
  <2>5. /\ RemoveAt(db.indexes, p) \in Seq(Contents)
        /\ Len(RemoveAt(db.indexes, p)) = n - 1
        /\ \A j \in 1..(n - 1) :
             RemoveAt(db.indexes, p)[j] = IF j < p THEN db.indexes[j] ELSE db.indexes[j + 1]
    <3>1. Len(db.indexes) = n /\ db.indexes \in Seq(Contents)
      BY <1>1, DatabaseFacts DEF Databases
    <3>2. p \in 1..Len(db.indexes)
      BY <2>1, <3>1
    <3>3. /\ RemoveAt(db.indexes, p) \in Seq(Contents)
          /\ Len(RemoveAt(db.indexes, p)) = Len(db.indexes) - 1
          /\ \A j \in 1..(Len(db.indexes) - 1) :
               RemoveAt(db.indexes, p)[j] =
                 IF j < p THEN db.indexes[j] ELSE db.indexes[j + 1]
      BY <3>1, <3>2, RemoveAtFacts, Zenon
    <3> QED BY <3>1, <3>3
  <2>6. /\ db'.names = RemoveAt(db.names, p) /\ db'.tables = RemoveAt(db.tables, p)
        /\ db'.indexes = RemoveAt(db.indexes, p) /\ db'.data_dir = db.data_dir
        /\ db' \in Databases
    BY <1>1, <2>2, <2>3, <2>4, <2>5 DEF Databases
  <2>7. Aligned'
    <3> DEFINE old(j) == IF j < p THEN j ELSE j + 1
    <3>1. \A j \in 1..(n - 1) : old(j) \in 1..n
      BY <1>1, <2>1, DatabaseFacts
    <3>2. \A j \in 1..(n - 1) : /\ db'.names[j] = db.names[old(j)]
                                /\ db'.tables[j] = db.tables[old(j)]
                                /\ db'.indexes[j] = db.indexes[old(j)]
      BY <2>3, <2>4, <2>5, <2>6
    <3>3. \A j, k \in 1..(n - 1) : old(j) = old(k) => j = k
      BY <1>1, <2>1, DatabaseFacts
    <3> HIDE DEF old
    <3>4. \A j, k \in 1..(n - 1) : db'.names[j] = db'.names[k] => j = k
      <4>1. \A j, k \in 1..n : db.names[j] = db.names[k] => j = k
        BY <1>1, DatabaseFacts
      <4> SUFFICES ASSUME NEW j \in 1..(n - 1), NEW k \in 1..(n - 1),
                          db'.names[j] = db'.names[k]
                   PROVE  j = k
        OBVIOUS
      <4>2. db.names[old(j)] = db.names[old(k)]
        BY <3>2
      <4>3. old(j) = old(k)
        BY <3>1, <4>1, <4>2
      <4> QED BY <3>3, <4>3
    <3>5. ASSUME NEW j \in 1..(n - 1)
          PROVE  /\ db'.tables[j].path = <<db'.data_dir, db'.names[j]>>
                 /\ db'.indexes[j] = db'.tables[j].rows
      <4>1. old(j) \in 1..n
        BY <3>1
      <4>2. /\ db.tables[old(j)].path = <<db.data_dir, db.names[old(j)]>>
            /\ db.indexes[old(j)] = db.tables[old(j)].rows
        BY <1>1, <4>1, DatabaseFacts
      <4>3. /\ db'.names[j] = db.names[old(j)] /\ db'.tables[j] = db.tables[old(j)]
            /\ db'.indexes[j] = db.indexes[old(j)]
        BY <3>2
      <4>4. db'.data_dir = db.data_dir
        BY <2>6
      <4> QED BY <4>2, <4>3, <4>4
    <3> QED BY <2>3, <2>4, <2>5, <2>6, <3>4, <3>5 DEF Aligned
  <2> QED BY <1>1, <1>2, <2>6, <2>7, TableStatementIInv DEF DropTable, Succeed
<1>3. CASE Fail("drop table failed", t) /\ UNCHANGED <<files, db, damaged>>
  BY <1>3, AnswerIInv DEF DropTable, Fail, Errors, disk
<1> QED BY <1>2, <1>3 DEF DropTable

\* INSERT, DELETE and UPDATE change a table and its index together.
LEMMA ModifyIInv ==
  ASSUME IInv, NEW t \in TableNames, NEW rows \in Contents, Modify(t, rows)
  PROVE  IInv'
<1> DEFINE p == PositionOf(t)
           n == Len(db.names)
<1>1. db \in Databases /\ db # Null /\ Aligned
  BY NullAssumption DEF IInv, TypeOK, SelectedIsOpen, Modify, HasDb
<1>2. CASE p > 0 /\ Succeed
  <2>1. p \in 1..n
    BY <1>1, <1>2, PositionFacts, DatabaseFacts
  <2>2. db' = [db EXCEPT !.tables[p].rows = rows, !.indexes[p] = rows]
    <3>1. p # 0
      BY <1>2
    <3> QED BY <3>1, Zenon DEF Modify
  <2> HIDE DEF p
  <2>3. /\ db'.names = db.names /\ db'.data_dir = db.data_dir
        /\ db'.tables = [db.tables EXCEPT ![p] = [@ EXCEPT !.rows = rows]]
        /\ db'.indexes = [db.indexes EXCEPT ![p] = rows]
        /\ db' \in [data_dir : {db'.data_dir}, names : {db'.names},
                    tables : {db'.tables}, indexes : {db'.indexes}]
    BY <1>1, <2>2 DEF Databases
  <2>4. [db.tables[p] EXCEPT !.rows = rows] \in Table
    BY <1>1, <2>1, DatabaseFacts DEF Table
  <2>5. /\ db'.tables \in Seq(Table) /\ Len(db'.tables) = n
        /\ db'.indexes \in Seq(Contents) /\ Len(db'.indexes) = n
    BY <1>1, <2>1, <2>3, <2>4, DatabaseFacts, ExceptSeq DEF Databases
  <2>6. db' \in Databases
    BY <1>1, <2>3, <2>5 DEF Databases
  <2>7. \A j \in 1..n : /\ db'.tables[j].path = db.tables[j].path
                        /\ db'.tables[j].rows = IF j = p THEN rows ELSE db.tables[j].rows
                        /\ db'.indexes[j] = IF j = p THEN rows ELSE db.indexes[j]
    BY <1>1, <2>1, <2>3, DatabaseFacts DEF Databases, Table
  <2>8. Aligned'
    BY <1>1, <2>3, <2>5, <2>7, DatabaseFacts DEF Aligned
  <2> QED BY <1>1, <1>2, <2>3, <2>6, <2>8, TableStatementIInv DEF Modify, Succeed, disk
<1>3. CASE Fail("no table", t) /\ UNCHANGED db
  BY <1>3, AnswerIInv DEF Modify, Fail, Errors
<1> QED BY <1>2, <1>3 DEF Modify

-----------------------------------------------------------------------------
(***************************************************************************)
(* save_all                                                                *)
(***************************************************************************)

\* Inside save_all a database is open, and the table at the loop variable
\* writes to a file of that database.
LEMMA SaveFacts ==
  ASSUME IInv, pc \notin {"idle", "down"}
  PROVE  /\ db \in Databases /\ db # Null /\ caller \in Callers
         /\ pos \in 1..(Len(db.tables) + 1) /\ Len(db.tables) \in Nat
         /\ pos <= Len(db.tables) =>
              /\ SavePath \in Paths /\ SavePath = <<db.data_dir, db.names[pos]>>
              /\ db.tables[pos].rows \in Contents
<1>1. db # Null /\ db \in Databases /\ caller \in Callers /\ pos \in 1..(Len(db.tables) + 1)
  BY DEF IInv, TypeOK
<1>2. Len(db.tables) = Len(db.names) /\ Len(db.names) \in Nat
  BY <1>1, DatabaseFacts DEF IInv
<1>3. ASSUME pos <= Len(db.tables)
      PROVE  SavePath \in Paths /\ SavePath = <<db.data_dir, db.names[pos]>>
             /\ db.tables[pos].rows \in Contents
  <2>1. pos \in 1..Len(db.names)
    BY <1>1, <1>2, <1>3
  <2> QED BY <1>1, <2>1, DatabaseFacts DEF IInv, SavePath, Table
<1> QED BY <1>1, <1>2, <1>3

\* Writing one file leaves the others alone.
LEMMA FileUpdate ==
  ASSUME TypeOK, NEW path \in Paths, NEW c \in Contents \cup {Absent, Torn},
         files' = [files EXCEPT ![path[1]][path[2]] = c]
  PROVE  /\ files' \in [DbNames -> [TableNames -> Contents \cup {Absent, Torn}]]
         /\ \A q \in Paths : File(q)' = IF q = path THEN c ELSE File(q)
<1>1. PICK d \in DbNames, t \in TableNames : path = <<d, t>>
  BY DEF Paths
<1>2. files' = [files EXCEPT ![d][t] = c]
  BY <1>1
<1>3. files' \in [DbNames -> [TableNames -> Contents \cup {Absent, Torn}]]
  <2>1. files[d] \in [TableNames -> Contents \cup {Absent, Torn}]
    BY DEF TypeOK
  <2>2. [files[d] EXCEPT ![t] = c] \in [TableNames -> Contents \cup {Absent, Torn}]
    BY <2>1
  <2>3. files' = [files EXCEPT ![d] = [files[d] EXCEPT ![t] = c]]
    BY <1>2
  <2> QED BY <2>2, <2>3 DEF TypeOK
<1>4. \A e \in DbNames, u \in TableNames :
        files'[e][u] = IF e = d /\ u = t THEN c ELSE files[e][u]
  BY <1>2 DEF TypeOK
<1>5. \A q \in Paths : File(q)' = IF q = path THEN c ELSE File(q)
  BY <1>1, <1>4 DEF File, Paths
<1> QED BY <1>3, <1>5

\* BeginSave, from each of its three callers.
LEMMA BeginSaveIInv ==
  ASSUME IInv, pc = "idle", db # Null, NEW c \in Callers, BeginSave(c)
  PROVE  IInv'
<1>1. db \in Databases /\ Len(db.tables) \in Nat
  BY DatabaseFacts DEF IInv, TypeOK
<1>2. TypeOK'
  BY <1>1 DEF IInv, TypeOK, BeginSave, disk
<1>3. SelectedIsOpen' /\ Aligned' /\ Writing'
  BY DEF IInv, SelectedIsOpen, Aligned, Writing, BeginSave
<1>4. TornIsDamaged'
  BY DEF IInv, TornIsDamaged, File, BeginSave, disk
<1> QED BY <1>2, <1>3, <1>4 DEF IInv

\* The file save_all opens is the one it is about to write.
LEMMA SaveOpenIInv ==
  ASSUME IInv, SaveOpen
  PROVE  IInv'
<1>1. /\ SavePath \in Paths /\ pos <= Len(db.tables) /\ db # Null /\ caller \in Callers
      /\ pos \in 1..(Len(db.tables) + 1)
  BY SaveFacts DEF SaveOpen
<1>2. SavePath' = SavePath /\ (SavePath[1])' = SavePath[1]
  BY DEF SaveOpen, SavePath
<1>3. SelectedIsOpen' /\ Aligned'
  BY DEF IInv, SelectedIsOpen, Aligned, SaveOpen
<1>4. CASE Truncate
  <2>1. /\ files' \in [DbNames -> [TableNames -> Contents \cup {Absent, Torn}]]
        /\ \A q \in Paths : File(q)' = IF q = SavePath THEN Torn ELSE File(q)
    BY <1>1, <1>4, FileUpdate DEF IInv, Truncate
  <2>2. TypeOK'
    BY <1>1, <1>4, <2>1 DEF IInv, TypeOK, SaveOpen, Truncate
  <2>3. Writing'
    BY <1>1, <1>2, <1>4 DEF Writing, SaveOpen, Truncate
  <2>4. TornIsDamaged'
    BY <1>2, <1>4, <2>1 DEF IInv, TornIsDamaged, SaveOpen, Truncate
  <2> QED BY <1>3, <2>2, <2>3, <2>4 DEF IInv
<1>5. CASE pc' = "saved" /\ refused' = {SavePath} /\ UNCHANGED files
  <2>1. TypeOK'
    BY <1>1, <1>5 DEF IInv, TypeOK, SaveOpen
  <2>2. Writing' /\ TornIsDamaged'
    BY <1>5 DEF IInv, Writing, TornIsDamaged, File, SaveOpen
  <2> QED BY <1>3, <2>1, <2>2 DEF IInv
<1> QED BY <1>4, <1>5 DEF SaveOpen

\* A complete write replaces the truncated file.
LEMMA SaveWriteIInv ==
  ASSUME IInv, SaveWrite
  PROVE  IInv'
<1>1. /\ SavePath \in Paths /\ pos <= Len(db.tables) /\ db # Null /\ caller \in Callers
      /\ pos \in 1..(Len(db.tables) + 1) /\ Len(db.tables) \in Nat
      /\ db.tables[pos].rows \in Contents
  BY SaveFacts DEF SaveWrite, IInv, Writing
<1>2. /\ files' \in [DbNames -> [TableNames -> Contents \cup {Absent, Torn}]]
      /\ \A q \in Paths :
           File(q)' = IF q = SavePath THEN db.tables[pos].rows ELSE File(q)
  BY <1>1, FileUpdate DEF SaveWrite, IInv
<1>3. TypeOK'
  BY <1>1, <1>2 DEF IInv, TypeOK, SaveWrite
<1>4. SelectedIsOpen' /\ Aligned' /\ Writing'
  BY DEF IInv, SelectedIsOpen, Aligned, Writing, SaveWrite
<1>5. TornIsDamaged'
  BY <1>1, <1>2, SentinelAssumption DEF IInv, TornIsDamaged, SaveWrite
<1> QED BY <1>3, <1>4, <1>5 DEF IInv

\* A failed write leaves the truncated file, which is then counted as damaged.
LEMMA SaveWriteFailsIInv ==
  ASSUME IInv, SaveWriteFails
  PROVE  IInv'
<1>1. /\ SavePath \in Paths /\ pos <= Len(db.tables) /\ db # Null /\ caller \in Callers
      /\ pos \in 1..(Len(db.tables) + 1) /\ Len(db.tables) \in Nat
  BY SaveFacts DEF SaveWriteFails, IInv, Writing
<1>2. TypeOK'
  BY <1>1 DEF IInv, TypeOK, SaveWriteFails, disk
<1>3. SelectedIsOpen' /\ Aligned' /\ Writing'
  BY DEF IInv, SelectedIsOpen, Aligned, Writing, SaveWriteFails
<1>4. TornIsDamaged'
  BY DEF IInv, TornIsDamaged, File, SaveWriteFails, disk
<1> QED BY <1>2, <1>3, <1>4 DEF IInv

\* The end of save_all's loop.
LEMMA SaveEndIInv ==
  ASSUME IInv, SaveEnd
  PROVE  IInv'
<1>1. TypeOK'
  BY DEF IInv, TypeOK, SaveEnd, disk
<1>2. SelectedIsOpen' /\ Aligned' /\ Writing' /\ TornIsDamaged'
  BY DEF IInv, SelectedIsOpen, Aligned, Writing, TornIsDamaged, File,
         SaveEnd, disk
<1> QED BY <1>1, <1>2 DEF IInv

-----------------------------------------------------------------------------
(***************************************************************************)
(* Databases and the process                                               *)
(***************************************************************************)

\* mkdir adds a directory and touches no file.
LEMMA CreateDatabaseIInv ==
  ASSUME IInv, NEW d \in DbNames, CreateDatabase(d)
  PROVE  IInv'
<1>1. error' \in [what : Errors, name : DbNames \cup TableNames] \cup {NoError}
  <2>1. "create failed" \in Errors
    BY DEF Errors
  <2> QED BY <2>1, AnswerType DEF CreateDatabase
<1>2. TypeOK'
  BY <1>1 DEF IInv, TypeOK, CreateDatabase
<1>3. SelectedIsOpen' /\ Aligned' /\ Writing'
  BY DEF IInv, SelectedIsOpen, Aligned, Writing, CreateDatabase
<1>4. TornIsDamaged'
  BY DEF IInv, TornIsDamaged, File, CreateDatabase
<1> QED BY <1>2, <1>3, <1>4 DEF IInv

\* Use opens an empty database, at once or after save_all.
LEMMA OpenIInv ==
  ASSUME IInv, NEW d \in DbNames, db_name' = d, db' = Database(d), Succeed,
         pc' = "idle", caller' = NoCall, pos' = 0, refused' = {}, UNCHANGED <<disk, damaged>>,
         pc # "write"
  PROVE  IInv'
<1>1. TypeOK'
  BY NewDatabase DEF IInv, TypeOK, Succeed, disk
<1>2. SelectedIsOpen' /\ Aligned' /\ Writing'
  BY NewDatabase, NullAssumption DEF SelectedIsOpen, Aligned, Writing
<1>3. TornIsDamaged'
  BY DEF IInv, TornIsDamaged, File, disk
<1> QED BY <1>1, <1>2, <1>3 DEF IInv

\* USE opens the new database at once, or starts to save the old one.
LEMMA UseIInv ==
  ASSUME IInv, NEW d \in DbNames, Use(d)
  PROVE  IInv'
<1>1. CASE db # Null
  <2>1. [op |-> "use", name |-> d] \in Callers
    BY DEF Callers
  <2> QED BY <1>1, <2>1, BeginSaveIInv DEF Use
<1>2. CASE db = Null
  BY <1>2, OpenIInv DEF Use, IInv, TypeOK
<1> QED BY <1>1, <1>2

\* USE after save_all has returned.
LEMMA UseAfterSaveIInv ==
  ASSUME IInv, UseAfterSave
  PROVE  IInv'
<1>1. caller \in Callers
  BY SaveFacts DEF UseAfterSave
<1>2. caller.name \in DbNames
  BY <1>1 DEF UseAfterSave, Callers
<1> QED BY <1>2, OpenIInv DEF UseAfterSave, Resume

\* rmdir touches no file.
LEMMA RemoveDirKeeps ==
  ASSUME IInv, NEW d \in DbNames, RemoveDir(d)
  PROVE  /\ dirs' \subseteq DbNames /\ UNCHANGED <<files, damaged>>
         /\ error' \in [what : Errors, name : DbNames \cup TableNames] \cup {NoError}
<1>1. error' \in [what : Errors, name : DbNames \cup TableNames] \cup {NoError}
  <2>1. "drop failed" \in Errors
    BY DEF Errors
  <2> QED BY <2>1, AnswerType DEF RemoveDir
<1>2. dirs' \subseteq DbNames /\ UNCHANGED <<files, damaged>>
  BY DEF RemoveDir, IInv, TypeOK
<1> QED BY <1>1, <1>2

\* DROP DATABASE of another database, or the start of saving this one.
LEMMA DropDatabaseIInv ==
  ASSUME IInv, NEW d \in DbNames, DropDatabase(d)
  PROVE  IInv'
<1>1. CASE db_name = d /\ BeginSave([op |-> "drop", name |-> d])
  <2>1. [op |-> "drop", name |-> d] \in Callers /\ db # Null
    BY <1>1, NullAssumption DEF Callers, IInv, SelectedIsOpen
  <2> QED BY <1>1, <2>1, BeginSaveIInv DEF DropDatabase
<1>2. CASE RemoveDir(d) /\ UNCHANGED <<db, db_name, pc, caller, pos, refused>>
  <2>1. TypeOK'
    BY <1>2, RemoveDirKeeps DEF IInv, TypeOK
  <2>2. SelectedIsOpen' /\ Aligned' /\ Writing'
    BY <1>2 DEF IInv, SelectedIsOpen, Aligned, Writing, DropDatabase
  <2>3. TornIsDamaged'
    BY <1>2, RemoveDirKeeps DEF IInv, TornIsDamaged, File, SavePath
  <2> QED BY <2>1, <2>2, <2>3 DEF IInv
<1> QED BY <1>1, <1>2 DEF DropDatabase

\* DROP DATABASE after save_all: pointer and name are reset together.
LEMMA DropAfterSaveIInv ==
  ASSUME IInv, DropAfterSave
  PROVE  IInv'
<1>1. caller \in Callers
  BY SaveFacts DEF DropAfterSave
<1>2. caller.name \in DbNames
  BY <1>1 DEF DropAfterSave, Callers
<1>3. TypeOK'
  BY <1>2, RemoveDirKeeps DEF IInv, TypeOK, DropAfterSave, Resume
<1>4. SelectedIsOpen' /\ Aligned' /\ Writing'
  BY DEF SelectedIsOpen, Aligned, Writing, DropAfterSave, Resume
<1>5. TornIsDamaged'
  BY <1>2, RemoveDirKeeps DEF IInv, TornIsDamaged, File, DropAfterSave
<1> QED BY <1>3, <1>4, <1>5 DEF IInv

\* The process ends; a file being written stays torn.
LEMMA GoneIInv ==
  ASSUME IInv, Gone, UNCHANGED disk,
         \/ damaged' = damaged /\ pc # "write"
         \/ damaged' = damaged \cup {SavePath} /\ pc = "write"
  PROVE  IInv'
<1>1. damaged' \subseteq Paths
  <2>1. CASE pc = "write"
    <3>1. SavePath \in Paths
      BY <2>1, SaveFacts DEF IInv, Writing
    <3> QED BY <2>1, <3>1 DEF IInv, TypeOK
  <2>2. CASE pc # "write"
    BY <2>2 DEF IInv, TypeOK
  <2> QED BY <2>1, <2>2
<1>2. TypeOK'
  BY <1>1 DEF IInv, TypeOK, Gone, disk
<1>3. SelectedIsOpen' /\ Aligned' /\ Writing'
  BY DEF SelectedIsOpen, Aligned, Writing, Gone
<1>4. TornIsDamaged'
  BY DEF IInv, TornIsDamaged, File, Gone, disk
<1> QED BY <1>2, <1>3, <1>4 DEF IInv

\* Executor::shutdown, with and without an open database.
LEMMA ShutdownIInv ==
  ASSUME IInv, Shutdown
  PROVE  IInv'
<1>1. CASE db # Null /\ BeginSave([op |-> "exit", name |-> Null])
  <2>1. [op |-> "exit", name |-> Null] \in Callers
    BY DEF Callers
  <2> QED BY <1>1, <2>1, BeginSaveIInv DEF Shutdown
<1>2. CASE Gone /\ UNCHANGED <<disk, damaged>>
  BY <1>2, GoneIInv DEF Shutdown
<1> QED BY <1>1, <1>2 DEF Shutdown

\* A new process finds the disk as it was left.
LEMMA RestartIInv ==
  ASSUME IInv, Restart
  PROVE  IInv'
<1>1. TypeOK'
  BY DEF IInv, TypeOK, Restart, disk
<1>2. SelectedIsOpen' /\ Aligned' /\ Writing' /\ TornIsDamaged'
  BY DEF IInv, SelectedIsOpen, Aligned, Writing, TornIsDamaged, File,
         Restart, disk
<1> QED BY <1>1, <1>2 DEF IInv

-----------------------------------------------------------------------------
\* Every step taken inside save_all, and the return to its caller.
LEMMA SaveStepIInv ==
  ASSUME IInv, SaveStep
  PROVE  IInv'
<1>1. CASE ExitAfterSave
  BY <1>1, GoneIInv DEF ExitAfterSave
<1> QED BY <1>1, SaveOpenIInv, SaveWriteIInv, SaveWriteFailsIInv, SaveEndIInv,
           UseAfterSaveIInv, DropAfterSaveIInv DEF SaveStep

\* Every step of the executor keeps the invariant.
LEMMA NextIInv == IInv /\ [Next]_vars => IInv'
<1> SUFFICES ASSUME IInv, [Next]_vars PROVE IInv'
  OBVIOUS
<1>1. CASE \E t \in TableNames : NoDb(t) \/ Select(t)
  <2>1. PICK t \in TableNames : NoDb(t) \/ Select(t)
    BY <1>1
  <2>2. error' \in [what : Errors, name : DbNames \cup TableNames] \cup {NoError}
    <3>1. {"no database", "no table"} \subseteq Errors
      BY DEF Errors
    <3> QED BY <2>1, <3>1, AnswerType DEF NoDb, Select
  <2> QED BY <2>1, <2>2, AnswerIInv DEF NoDb, Select
<1>2. CASE \E t \in TableNames : CreateTable(t) \/ DropTable(t)
  BY <1>2, CreateTableIInv, DropTableIInv
<1>3. CASE \E t \in TableNames, c \in Contents : Modify(t, c)
  BY <1>3, ModifyIInv
<1>4. CASE \E d \in DbNames : CreateDatabase(d) \/ Use(d) \/ DropDatabase(d)
  BY <1>4, CreateDatabaseIInv, UseIInv, DropDatabaseIInv
<1>5. CASE SaveStep
  BY <1>5, SaveStepIInv
<1>6. CASE Shutdown
  BY <1>6, ShutdownIInv
<1>7. CASE Crash
  BY <1>7, GoneIInv DEF Crash
<1>8. CASE Restart
  BY <1>8, RestartIInv
<1>9. CASE UNCHANGED vars
  <2>1. TypeOK'
    BY <1>9 DEF IInv, TypeOK, vars
  <2>2. SelectedIsOpen' /\ Aligned' /\ Writing' /\ TornIsDamaged'
    BY <1>9 DEF IInv, SelectedIsOpen, Aligned, Writing, TornIsDamaged,
                File, SavePath, vars
  <2> QED BY <2>1, <2>2 DEF IInv
<1> QED BY <1>1, <1>2, <1>3, <1>4, <1>5, <1>6, <1>7, <1>8, <1>9 DEF Next

\* The invariant holds in every reachable state.
LEMMA Invariance == Spec => []IInv
  BY InitIInv, NextIInv, PTL DEF Spec

-----------------------------------------------------------------------------
\* Every variable of the executor and of the disk has its type, and save_all's
\* loop variable names a table or the end of the vector.
THEOREM TypeCorrect == Spec => []TypeOK
<1>1. IInv => TypeOK
  BY DEF IInv
<1> QED BY <1>1, Invariance, PTL

\* The parallel vectors of a Database agree after any history of statements.
THEOREM VectorsAligned == Spec => []Aligned
<1>1. IInv => Aligned
  BY DEF IInv
<1> QED BY <1>1, Invariance, PTL

\* _current_db is not null whenever _current_db_name is not empty.
THEOREM NoNullDatabase == Spec => []SelectedIsOpen
<1>1. IInv => SelectedIsOpen
  BY DEF IInv
<1> QED BY <1>1, Invariance, PTL

\* A truncated file is being written, or a crash or a failed write left it.
THEOREM TornFilesExplained == Spec => []TornIsDamaged
<1>1. IInv => TornIsDamaged
  BY DEF IInv
<1> QED BY <1>1, Invariance, PTL

-----------------------------------------------------------------------------
(***************************************************************************)
(* Which files a step may change                                           *)
(***************************************************************************)

\* The tables of an open database, by position.
LEMMA OpenTablesFacts ==
  ASSUME db \in Databases, Aligned
  PROVE  \A tb : tb \in OpenTables(db) <=> \E p \in 1..Len(db.names) : tb = db.tables[p]
<1>1. DOMAIN db.tables = 1..Len(db.names)
  BY DatabaseFacts DEF Databases
<1> QED BY <1>1, NullAssumption DEF OpenTables, Range

\* The step formula of FilesFollowCatalog.
OnlyOwnFiles ==
  \A path \in Paths : File(path)' # File(path) =>
    \/ path[1] \in dirs \ dirs' /\ File(path)' = Absent
    \/ /\ path \in OpenPaths(db)
       /\ File(path)' = Absent => path \notin OpenPaths(db)'

\* DROP TABLE removes the one file whose table leaves the vectors.
LEMMA DropTableOwnFiles ==
  ASSUME IInv, IInv', NEW t \in TableNames, DropTable(t)
  PROVE  OnlyOwnFiles
<1> DEFINE p == PositionOf(t)
           n == Len(db.names)
<1>1. db \in Databases /\ db # Null /\ Aligned /\ db.data_dir \in DbNames
  BY NullAssumption DEF IInv, TypeOK, SelectedIsOpen, DropTable, HasDb, Databases
<1>2. CASE UNCHANGED files
  BY <1>2 DEF OnlyOwnFiles, File
<1>3. CASE p > 0 /\ RemoveFile(db.data_dir, t)
  <2>1. p \in 1..n /\ db.names[p] = t
    BY <1>1, <1>3, PositionFacts, DatabaseFacts
  <2>2. db' = [db EXCEPT !.names = RemoveAt(@, p), !.tables = RemoveAt(@, p),
                         !.indexes = RemoveAt(@, p)]
    <3>1. p # 0
      BY <1>3
    <3> QED BY <3>1, Zenon DEF DropTable
  <2> HIDE DEF p
  <2>3. \A path \in Paths :
          File(path)' # File(path) => path = <<db.data_dir, t>>
    BY <1>1, <1>3 DEF IInv, TypeOK, File, RemoveFile, Paths
  <2>4. /\ db'.names = RemoveAt(db.names, p) /\ db'.tables = RemoveAt(db.tables, p)
        /\ db'.data_dir = db.data_dir
    BY <1>1, <2>2 DEF Databases
  <2>5. /\ Len(RemoveAt(db.names, p)) = n - 1
        /\ \A j \in 1..(n - 1) :
             RemoveAt(db.names, p)[j] = IF j < p THEN db.names[j] ELSE db.names[j + 1]
    BY <1>1, <2>1, RemoveAtFacts DEF Databases
  <2>6. \A j \in 1..(n - 1) : db'.names[j] # t
    <3> SUFFICES ASSUME NEW j \in 1..(n - 1) PROVE db'.names[j] # t
      OBVIOUS
    <3>1. \A k \in 1..n : db.names[k] = t => k = p
      BY <1>1, <2>1, DatabaseFacts
    <3>2. j \in 1..n /\ j + 1 \in 1..n
      BY <1>1, <2>1, DatabaseFacts
    <3>3. CASE j < p
      BY <2>1, <2>4, <2>5, <3>1, <3>2, <3>3
    <3>4. CASE ~(j < p)
      BY <2>1, <2>4, <2>5, <3>1, <3>2, <3>4
    <3> QED BY <3>3, <3>4
  <2>7. \A tb \in OpenTables(db)' : tb.path # <<db.data_dir, t>>
    <3>1. db' \in Databases /\ db' # Null /\ Aligned'
      <4>1. db' # Null
        BY <1>1, NullAssumption, <1>3 DEF IInv, SelectedIsOpen, DropTable
      <4> QED BY <4>1 DEF IInv, TypeOK
    <3>2. \A tb : tb \in OpenTables(db)'
                    => \E j \in 1..Len(db'.names) : tb = db'.tables[j]
      <4>1. Len(db'.tables) = Len(db'.names)
        BY <3>1 DEF Aligned
      <4>2. DOMAIN db'.tables = 1..Len(db'.names)
        BY <3>1, <4>1 DEF Databases
      <4> QED BY <3>1, <4>2 DEF OpenTables, Range
    <3>3. \A j \in 1..Len(db'.names) : db'.tables[j].path = <<db'.data_dir, db'.names[j]>>
      BY <3>1 DEF Aligned
    <3> QED BY <2>4, <2>5, <2>6, <3>2, <3>3
  <2>8. <<db.data_dir, t>> \in OpenPaths(db)
    <3>1. db.tables[p] \in OpenTables(db) /\ db.tables[p].path = <<db.data_dir, t>>
      BY <1>1, <2>1, OpenTablesFacts, DatabaseFacts
    <3> QED BY <3>1 DEF OpenPaths
  <2> QED BY <2>3, <2>7, <2>8 DEF OnlyOwnFiles, OpenPaths
<1> QED BY <1>2, <1>3 DEF DropTable

\* save_all opens and writes the file of one table of the open database.
LEMMA SaveOwnFiles ==
  ASSUME IInv, SaveOpen \/ SaveWrite
  PROVE  OnlyOwnFiles
<1>1. /\ SavePath \in Paths /\ pos <= Len(db.tables) /\ pos \in 1..(Len(db.tables) + 1)
      /\ Len(db.tables) \in Nat /\ db \in Databases /\ db # Null
      /\ db.tables[pos].rows \in Contents
  BY SaveFacts DEF SaveOpen, SaveWrite, IInv, Writing
<1>2. SavePath \in OpenPaths(db)
  <2>1. pos \in 1..Len(db.names)
    BY <1>1, DatabaseFacts DEF IInv
  <2>2. db.tables[pos] \in OpenTables(db)
    BY <1>1, <2>1, OpenTablesFacts DEF IInv
  <2> QED BY <2>2 DEF SavePath, OpenPaths
<1>3. ASSUME NEW c \in Contents \cup {Torn},
             files' = [files EXCEPT ![SavePath[1]][SavePath[2]] = c]
      PROVE  OnlyOwnFiles
  <2>1. \A q \in Paths : File(q)' = IF q = SavePath THEN c ELSE File(q)
    BY <1>1, <1>3, FileUpdate DEF IInv
  <2> QED BY <1>2, <2>1, SentinelAssumption DEF OnlyOwnFiles
<1>4. CASE UNCHANGED files
  BY <1>4 DEF OnlyOwnFiles, File
<1> QED BY <1>1, <1>3, <1>4 DEF SaveOpen, SaveWrite, Truncate

\* Every step changes the files of open tables only.
LEMMA NextOwnFiles == IInv /\ [Next]_vars => OnlyOwnFiles
<1> SUFFICES ASSUME IInv, [Next]_vars PROVE OnlyOwnFiles
  OBVIOUS
<1>1. CASE \E t \in TableNames : DropTable(t)
  BY <1>1, NextIInv, DropTableOwnFiles
<1>2. CASE SaveOpen \/ SaveWrite
  BY <1>2, SaveOwnFiles
<1>3. CASE UNCHANGED files
  BY <1>3 DEF OnlyOwnFiles, File
<1>4. ASSUME NEW t \in TableNames, NoDb(t) \/ CreateTable(t) \/ Select(t)
      PROVE  UNCHANGED files
  BY <1>4 DEF NoDb, CreateTable, Select, disk
<1>5. ASSUME NEW t \in TableNames, NEW c \in Contents, Modify(t, c)
      PROVE  UNCHANGED files
  BY <1>5 DEF Modify, disk
<1>6. ASSUME NEW d \in DbNames, CreateDatabase(d) \/ Use(d) \/ DropDatabase(d)
      PROVE  UNCHANGED files
  BY <1>6 DEF CreateDatabase, Use, DropDatabase, BeginSave, RemoveDir, disk
<1>7. SaveWriteFails \/ SaveEnd \/ UseAfterSave \/ DropAfterSave \/ ExitAfterSave
        => UNCHANGED files
  BY DEF SaveWriteFails, SaveEnd, UseAfterSave, DropAfterSave, ExitAfterSave, RemoveDir, disk
<1>8. Shutdown \/ Crash \/ Restart \/ UNCHANGED vars => UNCHANGED files
  BY DEF Shutdown, Crash, Restart, BeginSave, disk, vars
<1> QED BY <1>1, <1>2, <1>3, <1>4, <1>5, <1>6, <1>7, <1>8 DEF Next, SaveStep

\* No statement, no save_all, no crash and no restart changes the file of a
\* table that is not open, and a file disappears only with its table.
THEOREM OnlyOpenTablesWritten == Spec => FilesFollowCatalog
<1>1. IInv /\ [Next]_vars => [OnlyOwnFiles]_vars
  BY NextOwnFiles
<1> QED BY <1>1, Invariance, PTL DEF Spec, FilesFollowCatalog, OnlyOwnFiles

-----------------------------------------------------------------------------
(***************************************************************************)
(* What save_all has done so far                                           *)
(***************************************************************************)

\* The tables before the loop variable are in their files, unless a write of
\* theirs failed; save_all ends behind the last table, or at one whose file it
\* could not open.
SavedSoFar ==
  /\ pc \in {"open", "write", "saved"} =>
       \A p \in 1..Len(db.tables) : p < pos =>
         File(db.tables[p].path) = db.tables[p].rows \/ db.tables[p].path \in damaged
  /\ pc = "saved" => \/ pos > Len(db.tables) /\ refused = {}
                     \/ pos <= Len(db.tables) /\ refused = {SavePath}

\* The files of two tables are two files: writing one leaves the other saved.
LEMMA OtherPaths ==
  ASSUME IInv, pc \notin {"idle", "down"}, pos <= Len(db.tables)
  PROVE  \A p \in 1..Len(db.tables) : p < pos =>
           /\ db.tables[p].path # SavePath
           /\ db.tables[p].path \in Paths /\ db.tables[p].path[1] = db.data_dir
<1>1. /\ db \in Databases /\ Aligned /\ Len(db.tables) \in Nat
      /\ pos \in 1..Len(db.tables) /\ SavePath = <<db.data_dir, db.names[pos]>>
  BY SaveFacts DEF IInv
<1> SUFFICES ASSUME NEW p \in 1..Len(db.tables), p < pos
             PROVE  /\ db.tables[p].path # SavePath
                    /\ db.tables[p].path \in Paths
                    /\ db.tables[p].path[1] = db.data_dir
  OBVIOUS
<1>2. p \in 1..Len(db.names) /\ pos \in 1..Len(db.names) /\ p # pos
  BY <1>1, DatabaseFacts
<1>3. db.names[p] # db.names[pos]
  BY <1>1, <1>2, DatabaseFacts
<1>4. db.tables[p].path = <<db.data_dir, db.names[p]>> /\ db.names[p] \in TableNames
      /\ db.data_dir \in DbNames
  BY <1>1, <1>2, DatabaseFacts
<1> QED BY <1>1, <1>3, <1>4 DEF Paths

\* A step of save_all leaves the files written before it as they are.
LEMMA SaveStepSaved ==
  ASSUME IInv, SavedSoFar, SaveOpen \/ SaveWrite \/ SaveWriteFails
  PROVE  SavedSoFar'
<1>1. /\ SavePath \in Paths /\ pos <= Len(db.tables) /\ pos \in 1..(Len(db.tables) + 1)
      /\ Len(db.tables) \in Nat /\ pc \notin {"idle", "down"} /\ UNCHANGED db
      /\ db.tables[pos].rows \in Contents
      /\ SavePath = db.tables[pos].path
  <2>1. UNCHANGED db /\ pc \in {"open", "write"}
        /\ (pc = "open" => pos <= Len(db.tables))
    BY DEF SaveOpen, SaveWrite, SaveWriteFails, disk
  <2>2. pos <= Len(db.tables)
    BY <2>1 DEF IInv, Writing
  <2>3. SavePath = db.tables[pos].path
    BY DEF SavePath
  <2> QED BY <2>1, <2>2, <2>3, SaveFacts DEF IInv
<1>2. \A p \in 1..Len(db.tables) : p < pos =>
        db.tables[p].path # SavePath /\ db.tables[p].path \in Paths
  BY <1>1, OtherPaths
<1>3. \A p \in 1..Len(db.tables) : p < pos =>
        File(db.tables[p].path) = db.tables[p].rows \/ db.tables[p].path \in damaged
  BY DEF SavedSoFar, SaveOpen, SaveWrite, SaveWriteFails
<1>4. CASE SaveOpen
  <2>1. \A p \in 1..Len(db.tables) : p < pos =>
          File(db.tables[p].path)' = File(db.tables[p].path)
    <3>1. CASE files' = [files EXCEPT ![SavePath[1]][SavePath[2]] = Torn]
      <4>1. \A q \in Paths : File(q)' = IF q = SavePath THEN Torn ELSE File(q)
        BY <1>1, <3>1, FileUpdate DEF IInv
      <4> SUFFICES ASSUME NEW p \in 1..Len(db.tables), p < pos
                   PROVE  File(db.tables[p].path)' = File(db.tables[p].path)
        OBVIOUS
      <4>2. db.tables[p].path # SavePath /\ db.tables[p].path \in Paths
        BY <1>2
      <4> QED BY <1>1, <4>1, <4>2 DEF File
    <3>2. CASE UNCHANGED files
      BY <1>1, <3>2 DEF File
    <3> QED BY <1>4, <3>1, <3>2 DEF SaveOpen, Truncate
  <2>2. pc' = "saved" => (pos <= Len(db.tables) /\ refused = {SavePath})'
    BY <1>1, <1>4 DEF SaveOpen, Truncate, SavePath
  <2>3. /\ pc' \in {"write", "saved"} /\ UNCHANGED <<db, pos, damaged>>
        /\ pc \in {"open", "write", "saved"}
    BY <1>4 DEF SaveOpen, Truncate
  <2> QED BY <1>3, <2>1, <2>2, <2>3 DEF SavedSoFar, File
<1>5. CASE SaveWrite
  <2>1. \A q \in Paths : File(q)' = IF q = SavePath THEN db.tables[pos].rows ELSE File(q)
    BY <1>1, <1>5, FileUpdate DEF SaveWrite, IInv
  <2>2. \A p \in 1..Len(db.tables) : p < pos + 1 =>
          File(db.tables[p].path)' = db.tables[p].rows \/ db.tables[p].path \in damaged'
    <3> SUFFICES ASSUME NEW p \in 1..Len(db.tables), p < pos + 1
                 PROVE  \/ File(db.tables[p].path)' = db.tables[p].rows
                        \/ db.tables[p].path \in damaged'
      OBVIOUS
    <3>1. CASE p = pos
      BY <1>1, <2>1, <3>1 DEF File
    <3>2. CASE p < pos
      BY <1>1, <1>2, <1>3, <1>5, <2>1, <3>2 DEF SaveWrite, File
    <3> QED BY <1>1, <3>1, <3>2
  <2> QED BY <1>1, <1>5, <2>2 DEF SavedSoFar, SaveWrite, File
<1>6. CASE SaveWriteFails
  <2>1. \A p \in 1..Len(db.tables) : p < pos + 1 =>
          File(db.tables[p].path)' = db.tables[p].rows \/ db.tables[p].path \in damaged'
    <3> SUFFICES ASSUME NEW p \in 1..Len(db.tables), p < pos + 1
                 PROVE  \/ File(db.tables[p].path)' = db.tables[p].rows
                        \/ db.tables[p].path \in damaged'
      OBVIOUS
    <3>1. CASE p = pos
      BY <1>1, <1>6, <3>1 DEF SaveWriteFails
    <3>2. CASE p < pos
      BY <1>1, <1>3, <1>6, <3>2 DEF SaveWriteFails, File, disk
    <3> QED BY <1>1, <3>1, <3>2
  <2> QED BY <1>1, <1>6, <2>1 DEF SavedSoFar, SaveWriteFails, File
<1> QED BY <1>4, <1>5, <1>6

\* Only save_all is inside its loop, so no other step disturbs what it wrote.
LEMMA NextSaved == IInv /\ SavedSoFar /\ [Next]_vars => SavedSoFar'
<1> SUFFICES ASSUME IInv, SavedSoFar, [Next]_vars PROVE SavedSoFar'
  OBVIOUS
<1>1. CASE SaveOpen \/ SaveWrite \/ SaveWriteFails
  BY <1>1, SaveStepSaved
<1>2. CASE SaveEnd
  <2>1. refused = {} /\ pc = "open" /\ pos > Len(db.tables)
    BY <1>2 DEF SaveEnd, IInv, TypeOK
  <2> QED BY <1>2, <2>1 DEF SavedSoFar, SaveEnd, File, disk
<1>3. CASE pc' \notin {"open", "write", "saved"}
  BY <1>3 DEF SavedSoFar
<1>4. ASSUME NEW c \in Callers, BeginSave(c), pc = "idle"
      PROVE  SavedSoFar'
  BY <1>4 DEF SavedSoFar, BeginSave
<1>5. CASE UNCHANGED vars
  BY <1>5 DEF SavedSoFar, File, SavePath, vars
<1>6. ASSUME NEW t \in TableNames, NoDb(t) \/ CreateTable(t) \/ DropTable(t) \/ Select(t)
      PROVE  pc' = "idle"
  BY <1>6 DEF NoDb, CreateTable, DropTable, Select
<1>7. ASSUME NEW t \in TableNames, NEW c \in Contents, Modify(t, c)
      PROVE  pc' = "idle"
  BY <1>7 DEF Modify
<1>8. ASSUME NEW d \in DbNames, CreateDatabase(d) \/ Use(d) \/ DropDatabase(d)
      PROVE  pc' = "idle" \/ (pc = "idle" /\ \E c \in Callers : BeginSave(c))
  BY <1>8 DEF CreateDatabase, Use, DropDatabase, Callers
<1>9. UseAfterSave \/ DropAfterSave \/ ExitAfterSave \/ Crash \/ Restart
        => pc' \in {"idle", "down"}
  BY DEF UseAfterSave, DropAfterSave, ExitAfterSave, Crash, Restart, Resume, Gone
<1>10. Shutdown => pc' = "down" \/ (pc = "idle" /\ \E c \in Callers : BeginSave(c))
  BY DEF Shutdown, Gone, Callers
<1> QED BY <1>1, <1>2, <1>3, <1>4, <1>5, <1>6, <1>7, <1>8, <1>9, <1>10 DEF Next, SaveStep

\* The tables already passed by save_all's loop are saved in every reachable state.
LEMMA SavedInvariance == Spec => []SavedSoFar
<1>1. Init => SavedSoFar
  BY DEF Init, SavedSoFar
<1> QED BY <1>1, NextSaved, Invariance, PTL DEF Spec

-----------------------------------------------------------------------------
(***************************************************************************)
(* No table leaves memory unsaved                                          *)
(***************************************************************************)

\* Why a table may leave memory.
Excused(tb) ==
  \/ Dropped(tb.path)
  \/ File(tb.path)' = tb.rows
  \/ tb.path \in damaged'
  \/ tb.path \in Unsaved
  \/ pc' = "down" /\ pc # "saved"

\* The step formula of TablesLeaveSaved.
LeavesSaved ==
  \A tb \in OpenTables(db) :
    tb.path \notin OpenPaths(db)' => Excused(tb)

\* A table whose name is still in the vector has not left.
LEMMA StaysOpen ==
  ASSUME IInv, IInv', db # Null, db' # Null, db'.data_dir = db.data_dir,
         NEW p \in 1..Len(db.names), NEW j \in 1..Len(db'.names),
         db'.names[j] = db.names[p]
  PROVE  db.tables[p].path \in OpenPaths(db)'
<1>1. db \in Databases /\ Aligned /\ db' \in Databases /\ Aligned'
  BY DEF IInv, TypeOK
<1>2. db.tables[p].path = <<db.data_dir, db.names[p]>>
  BY <1>1, DatabaseFacts
<1>3. db'.tables[j].path = <<db'.data_dir, db'.names[j]>> /\ Len(db'.tables) = Len(db'.names)
  BY <1>1 DEF Aligned
<1>4. db'.tables[j] \in OpenTables(db)'
  <2>1. j \in DOMAIN db'.tables
    BY <1>1, <1>3 DEF Databases
  <2> QED BY <2>1 DEF OpenTables, Range
<1>5. db'.tables[j].path = db.tables[p].path
  BY <1>2, <1>3
<1> QED BY <1>4, <1>5 DEF OpenPaths

\* CREATE TABLE and the DML statements keep every table.
LEMMA KeepsTables ==
  ASSUME IInv, IInv', db # Null, db' # Null, db'.data_dir = db.data_dir,
         \A p \in 1..Len(db.names) : \E j \in 1..Len(db'.names) : db'.names[j] = db.names[p]
  PROVE  LeavesSaved
<1>1. db \in Databases /\ Aligned
  BY DEF IInv, TypeOK
<1> SUFFICES ASSUME NEW tb \in OpenTables(db)
             PROVE  tb.path \in OpenPaths(db)'
  BY DEF LeavesSaved
<1>2. PICK p \in 1..Len(db.names) : tb = db.tables[p]
  BY <1>1, OpenTablesFacts
<1>3. PICK j \in 1..Len(db'.names) : db'.names[j] = db.names[p]
  OBVIOUS
<1> QED BY <1>2, <1>3, StaysOpen

\* CREATE TABLE appends a name.
LEMMA CreateTableLeaves ==
  ASSUME IInv, IInv', NEW t \in TableNames, CreateTable(t)
  PROVE  LeavesSaved
<1>1. db \in Databases /\ db # Null /\ db' # Null
  BY NullAssumption DEF IInv, TypeOK, SelectedIsOpen, CreateTable, HasDb
<1>2. CASE UNCHANGED db
  BY <1>2 DEF LeavesSaved, OpenPaths, OpenTables
<1>3. CASE db' = [db EXCEPT !.names = Append(@, t),
                    !.tables = Append(@, [path |-> <<db.data_dir, t>>, rows |-> Empty]),
                    !.indexes = Append(@, Empty)]
  <2>1. db'.data_dir = db.data_dir /\ db'.names = Append(db.names, t)
    BY <1>1, <1>3 DEF Databases
  <2>2. /\ Len(db'.names) = Len(db.names) + 1 /\ Len(db.names) \in Nat
        /\ \A p \in 1..Len(db.names) : db'.names[p] = db.names[p]
    BY <1>1, <2>1, AppendProperties, LenProperties DEF Databases
  <2>3. \A p \in 1..Len(db.names) : p \in 1..Len(db'.names)
    BY <2>2
  <2> QED BY <1>1, <2>1, <2>2, <2>3, KeepsTables
<1> QED BY <1>2, <1>3, Zenon DEF CreateTable

\* INSERT, DELETE and UPDATE leave the names alone.
LEMMA ModifyLeaves ==
  ASSUME IInv, IInv', NEW t \in TableNames, NEW rows \in Contents, Modify(t, rows)
  PROVE  LeavesSaved
<1>1. db \in Databases /\ db # Null /\ db' # Null
  BY NullAssumption DEF IInv, TypeOK, SelectedIsOpen, Modify, HasDb
<1>2. CASE UNCHANGED db
  BY <1>2 DEF LeavesSaved, OpenPaths, OpenTables
<1>3. ASSUME NEW p, db' = [db EXCEPT !.tables[p].rows = rows, !.indexes[p] = rows]
      PROVE  db'.data_dir = db.data_dir /\ db'.names = db.names
  BY <1>1, <1>3 DEF Databases
<1> QED BY <1>1, <1>2, <1>3, KeepsTables DEF Modify

\* DROP TABLE removes the dropped table's file; the names after it move down.
LEMMA DropTableLeaves ==
  ASSUME IInv, IInv', NEW t \in TableNames, DropTable(t)
  PROVE  LeavesSaved
<1> DEFINE p == PositionOf(t)
           n == Len(db.names)
<1>1. db \in Databases /\ db # Null /\ db' # Null /\ Aligned /\ db.data_dir \in DbNames
      /\ pc = "idle"
  BY NullAssumption DEF IInv, TypeOK, SelectedIsOpen, DropTable, HasDb, Databases
<1>2. CASE UNCHANGED db
  BY <1>2 DEF LeavesSaved, OpenPaths, OpenTables
<1>3. CASE p > 0 /\ RemoveFile(db.data_dir, t)
  <2>1. p \in 1..n /\ db.names[p] = t
    BY <1>1, <1>3, PositionFacts, DatabaseFacts
  <2>2. db' = [db EXCEPT !.names = RemoveAt(@, p), !.tables = RemoveAt(@, p),
                         !.indexes = RemoveAt(@, p)]
    <3>1. p # 0
      BY <1>3
    <3> QED BY <3>1, Zenon DEF DropTable
  <2> HIDE DEF p
  <2>3. db'.data_dir = db.data_dir /\ db'.names = RemoveAt(db.names, p)
    BY <1>1, <2>2 DEF Databases
  <2>4. /\ Len(db'.names) = n - 1 /\ n \in Nat
        /\ \A j \in 1..(n - 1) :
             db'.names[j] = IF j < p THEN db.names[j] ELSE db.names[j + 1]
    BY <1>1, <2>1, <2>3, RemoveAtFacts, LenProperties DEF Databases
  <2>5. ASSUME NEW k \in 1..n, k # p
        PROVE  db.tables[k].path \in OpenPaths(db)'
    <3>1. CASE k < p
      <4>1. k \in 1..Len(db'.names) /\ db'.names[k] = db.names[k]
        BY <2>1, <2>4, <3>1
      <4> QED BY <1>1, <2>3, <4>1, StaysOpen
    <3>2. CASE k > p
      <4>1. k - 1 \in 1..Len(db'.names) /\ db'.names[k - 1] = db.names[k]
        BY <2>1, <2>4, <3>2
      <4> QED BY <1>1, <2>3, <4>1, StaysOpen
    <3> QED BY <2>1, <2>4, <2>5, <3>1, <3>2
  <2>6. db.tables[p].path = <<db.data_dir, t>>
    BY <1>1, <2>1, DatabaseFacts
  <2>7. \A path \in Paths : File(path)' \in {Absent, File(path)}
    BY <1>1, <1>3 DEF IInv, TypeOK, RemoveFile, File, Paths
  <2> SUFFICES ASSUME NEW tb \in OpenTables(db), tb.path \notin OpenPaths(db)'
               PROVE  Dropped(tb.path)
    BY DEF LeavesSaved, Excused
  <2>8. tb = db.tables[p]
    BY <1>1, <2>5, OpenTablesFacts
  <2>9. ASSUME NEW path \in OpenPaths(db), path \notin OpenPaths(db)'
        PROVE  path = tb.path
    <3>1. PICK x \in OpenTables(db) : path = x.path
      BY DEF OpenPaths
    <3>2. PICK k \in 1..n : x = db.tables[k]
      BY <1>1, <3>1, OpenTablesFacts
    <3> QED BY <2>5, <2>8, <2>9, <3>1, <3>2
  <2>10. OpenPaths(db) \ OpenPaths(db)' = {tb.path}
    <3>1. tb.path \in OpenPaths(db)
      BY DEF OpenPaths
    <3> QED BY <2>9, <3>1
  <2>11. File(tb.path)' \in {Absent, File(tb.path)}
    <3>1. tb.path \in Paths
      BY <1>1, <2>6, <2>8 DEF Paths
    <3> QED BY <2>7, <3>1
  <2> QED BY <1>1, <2>10, <2>11 DEF Dropped
<1> QED BY <1>2, <1>3 DEF DropTable

\* After save_all every table of the open database may go.
LEMMA SavedLeaves ==
  ASSUME IInv, SavedSoFar, pc = "saved", UNCHANGED <<files, damaged>>
  PROVE  LeavesSaved
<1>1. /\ db \in Databases /\ Aligned /\ db # Null
      /\ pos \in 1..(Len(db.tables) + 1) /\ Len(db.tables) \in Nat
      /\ Len(db.tables) = Len(db.names)
  BY SaveFacts, DatabaseFacts DEF IInv
<1> SUFFICES ASSUME NEW tb \in OpenTables(db) PROVE Excused(tb)
  BY DEF LeavesSaved
<1>2. PICK p \in 1..Len(db.names) : tb = db.tables[p]
  BY <1>1, OpenTablesFacts
<1>3. CASE pos > Len(db.tables)
  <2>1. File(tb.path) = tb.rows \/ tb.path \in damaged
    BY <1>1, <1>2, <1>3 DEF SavedSoFar
  <2> QED BY <2>1 DEF Excused, File
<1>4. CASE pos <= Len(db.tables) /\ p < pos
  <2>1. File(tb.path) = tb.rows \/ tb.path \in damaged
    BY <1>1, <1>2, <1>4 DEF SavedSoFar
  <2> QED BY <2>1 DEF Excused, File
<1>5. CASE pos <= Len(db.tables) /\ p >= pos /\ SavePath \in refused
  <2>1. pos \in 1..p /\ p \in DOMAIN db.tables /\ db.tables[pos].path \in refused
    BY <1>1, <1>2, <1>5 DEF SavePath, Databases
  <2>2. tb.path \in Unsaved
    BY <1>2, <2>1 DEF Unsaved
  <2> QED BY <2>2 DEF Excused
<1>6. pos > Len(db.tables) \/ SavePath \in refused
  BY DEF SavedSoFar
<1> QED BY <1>1, <1>2, <1>3, <1>4, <1>5, <1>6

\* Every step lets go of saved or excused tables only.
LEMMA NextLeaves == IInv /\ SavedSoFar /\ [Next]_vars => LeavesSaved
<1> SUFFICES ASSUME IInv, SavedSoFar, [Next]_vars PROVE LeavesSaved
  OBVIOUS
<1>1. IInv'
  BY NextIInv
<1>2. CASE UNCHANGED db
  BY <1>2 DEF LeavesSaved, OpenPaths, OpenTables
<1>3. CASE db = Null
  BY <1>3 DEF LeavesSaved, OpenPaths, OpenTables
<1>4. CASE pc = "saved" /\ UNCHANGED <<files, damaged>>
  BY <1>4, SavedLeaves
<1>5. CASE pc' = "down" /\ pc # "saved"
  BY <1>5 DEF LeavesSaved, Excused
<1>6. ASSUME NEW t \in TableNames, NoDb(t) \/ CreateTable(t) \/ DropTable(t) \/ Select(t)
      PROVE  LeavesSaved
  BY <1>1, <1>2, <1>6, CreateTableLeaves, DropTableLeaves DEF NoDb, Select
<1>7. ASSUME NEW t \in TableNames, NEW c \in Contents, Modify(t, c)
      PROVE  LeavesSaved
  BY <1>1, <1>7, ModifyLeaves
<1>8. ASSUME NEW d \in DbNames, CreateDatabase(d) \/ Use(d) \/ DropDatabase(d)
      PROVE  LeavesSaved
  BY <1>2, <1>3, <1>8 DEF CreateDatabase, Use, DropDatabase, BeginSave
<1>9. SaveOpen \/ SaveWrite \/ SaveWriteFails \/ SaveEnd => UNCHANGED db
  BY DEF SaveOpen, SaveWrite, SaveWriteFails, SaveEnd
<1>10. UseAfterSave \/ DropAfterSave \/ ExitAfterSave
         => pc = "saved" /\ UNCHANGED <<files, damaged>>
  BY DEF UseAfterSave, DropAfterSave, ExitAfterSave, RemoveDir, disk
<1>11. Shutdown => UNCHANGED db \/ db = Null
  BY DEF Shutdown, BeginSave
<1>12. Crash => \/ pc' = "down" /\ pc # "saved"
                \/ pc = "saved" /\ UNCHANGED <<files, damaged>>
  BY DEF Crash, Gone, disk
<1>13. Restart \/ UNCHANGED vars => UNCHANGED db
  BY DEF Restart, vars
<1> QED
  BY <1>2, <1>3, <1>4, <1>5, <1>6, <1>7, <1>8, <1>9, <1>10, <1>11, <1>12, <1>13
     DEF Next, SaveStep

\* Whatever fopen, the writes and std::remove come to, file by file: each table
\* that USE, DROP DATABASE and the server's exit let go of is in its file, unless
\* its write failed, or its file or that of a table before it could not be opened.
THEOREM NothingLeavesUnsaved == Spec => TablesLeaveSaved
<1>1. IInv /\ SavedSoFar /\ [Next]_vars => [LeavesSaved]_vars
  BY NextLeaves
<1> QED BY <1>1, Invariance, SavedInvariance, PTL
        DEF Spec, TablesLeaveSaved, LeavesSaved, Excused
=============================================================================
