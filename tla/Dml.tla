-------------------------------- MODULE Dml --------------------------------
(***************************************************************************)
(* execution/executor.cpp: INSERT, DELETE, UPDATE and SELECT on one table  *)
(* of the selected database, with the Table, Row and Value operations they *)
(* call.  The loops over the rows are modelled one row per step; the       *)
(* primary-key index is the map of IndexMap, which Index implements.       *)
(*                                                                         *)
(* Positions are 1-based here: i is the code's i + 1, and column 0 stands  *)
(* for the code's -1.  An integer literal is the number its digits denote, *)
(* a string is its rank in strcmp order.                                   *)
(***************************************************************************)
EXTENDS Integers, SequencesExt

CONSTANTS
  Names,      \* column names
  Schemas,    \* the column lists a table may have been created with
  Literals,   \* per column list: the literals of the statements
  IntMax,     \* INT_MAX
  LongMax,    \* LONG_MAX, at which strtol, hence atoi, saturates
  MaxRows,    \* bound, per column list: no INSERT into a table of this many rows
  MaxValues   \* bound, per column list: the longest VALUES list

Column  == [name : Names, is_primary : BOOLEAN]
Literal == [is_int : {TRUE}, val : Nat] \cup [is_int : {FALSE}, val : Nat]

ASSUME SchemasAssumption  == Schemas \subseteq Seq(Column)
ASSUME LiteralsAssumption == \A s \in Schemas : Literals[s] \subseteq Literal
ASSUME IntMaxAssumption   == IntMax \in Nat /\ LongMax \in Nat
ASSUME BoundsAssumption   == MaxRows \in [Schemas -> Nat] /\ MaxValues \in [Schemas -> Nat]
ASSUME StarAssumption     == "*" \notin Names

VARIABLES
  columns,   \* _columns of the table
  rows,      \* _rows of the table
  index,     \* the table's index: for each int key its row id or NoRow
  found,     \* what the last index operation returned
  pc,        \* where the statement is: "idle", "check", "apply", "scan", "done"
  stmt,      \* the statement being executed
  i,         \* loop variable over the rows
  count,     \* deleted / updated
  out,       \* rows of the result table of a SELECT
  status,    \* "ok" or the error returned
  before,    \* history: rows and index when the statement started
  rekeyed    \* history: some UPDATE has written the primary-key column

table == <<columns, rows, index, found>>
vars  == <<columns, rows, index, found, pc, stmt, i, count, out, status,
           before, rekeyed>>

NoRow  == -1
RowIds == UNION {0..(MaxRows[s] - 1) : s \in Schemas}
Ints   == -(IntMax + 1)..IntMax

Idx == INSTANCE IndexMap WITH
         Keys <- Ints, RowIds <- RowIds, None <- NoRow,
         map <- index, ret <- found, req <- [op |-> "none"]

-----------------------------------------------------------------------------
(***************************************************************************)
(* Values                                                                  *)
(***************************************************************************)
Value == [type : {"int"}, val : Ints] \cup [type : {"string"}, val : Nat]

\* atoi: strtol saturates, and the conversion to int drops the high bits.
Atoi(n) ==
  LET l == IF n > LongMax THEN LongMax ELSE n
  IN  ((l + IntMax + 1) % (2 * (IntMax + 1))) - (IntMax + 1)

\* The value of a literal: the declared column type plays no part in it.
ValueOf(lit) ==
  IF lit.is_int THEN [type |-> "int", val |-> Atoi(lit.val)]
                ELSE [type |-> "string", val |-> lit.val]

\* Value::compare, up to the magnitude of strcmp's result: ints and strings
\* among themselves, and every int before every string.
Compare(a, b) ==
  IF a.type = b.type THEN a.val - b.val
  ELSE IF a.type = "int" THEN -1 ELSE 1

-----------------------------------------------------------------------------
(***************************************************************************)
(* The schema                                                              *)
(***************************************************************************)
find_column(n) == SelectInSeq(columns, LAMBDA c : c.name = n)

primary_key_index == SelectInSeq(columns, LAMBDA c : c.is_primary)

HasIntKey(row) ==
  primary_key_index > 0 /\ row[primary_key_index].type = "int"

KeyOf(row) == row[primary_key_index].val

-----------------------------------------------------------------------------
(***************************************************************************)
(* The statements                                                          *)
(***************************************************************************)
NoWhere == [op |-> "none"]
Wheres  == [column : Names, op : {"=", "<", ">"}, value : Literals[columns]] \cup {NoWhere}

Inserts == [op : {"insert"}, values : UNION {[1..n -> Literals[columns]] : n \in 1..MaxValues[columns]}]
Deletes == [op : {"delete"}, where : Wheres]
Updates == [op : {"update"}, column : Names, value : Literals[columns], where : Wheres]
Selects == [op : {"select"}, column : Names \cup {"*"}, where : Wheres]
NoStmt  == [op |-> "none"]

\* find_column fails on the WHERE column (where_col < 0).
BadWhere(w) == w # NoWhere /\ find_column(w.column) = 0

matches_where(row, w) ==
  LET cmp == Compare(row[find_column(w.column)], ValueOf(w.value))
  IN  \/ w.op = "=" /\ cmp = 0
      \/ w.op = "<" /\ cmp < 0
      \/ w.op = ">" /\ cmp > 0

Selected(row, w) == w = NoWhere \/ matches_where(row, w)

Init ==
  /\ columns \in Schemas
  /\ rows = <<>>
  /\ index = [k \in Ints |-> NoRow]
  /\ found = Idx!Void
  /\ pc = "idle" /\ stmt = NoStmt
  /\ i = 0 /\ count = 0 /\ out = <<>> /\ status = "ok"
  /\ before = [rows |-> <<>>, index |-> index]
  /\ rekeyed = FALSE

\* Entry of a handler: the statement becomes current.
Start(s) ==
  /\ pc = "idle"
  /\ stmt' = s
  /\ before' = [rows |-> rows, index |-> index]
  /\ UNCHANGED <<columns, rows, index, found, count, out, rekeyed>>

\* An early return with an error.
Reject(error) == pc' = "done" /\ status' = error /\ UNCHANGED i

\* Mistake: the DELETE loop starts one row too low.
LoopFromTooLow(s) == IF s.op = "delete" THEN Len(rows) - 1 ELSE 1

\* Where the loop over the rows starts: DELETE runs backwards.
LoopFrom(s) == IF s.op = "delete" THEN Len(rows) ELSE 1

BeginLoop(s) == pc' = "scan" /\ i' = LoopFrom(s) /\ UNCHANGED status

-----------------------------------------------------------------------------
(***************************************************************************)
(* INSERT                                                                  *)
(***************************************************************************)

\* Mistake: only a shorter VALUES list is refused.
TooFewValues(values) == Len(values) < Len(columns)

CountMismatch(values) == Len(values) # Len(columns)

NewRow == [c \in 1..Len(stmt.values) |-> ValueOf(stmt.values[c])]

BeginInsert(s) ==
  /\ Len(rows) < MaxRows[columns]
  /\ Start(s)
  /\ \/ CountMismatch(s.values) /\ Reject("count mismatch")
     \/ ~CountMismatch(s.values) /\ pc' = "check" /\ UNCHANGED <<i, status>>

\* idx->find, for an int in the primary-key column only.
CheckKey ==
  /\ pc = "check"
  /\ IF HasIntKey(NewRow) THEN Idx!Find(KeyOf(NewRow))
                          ELSE UNCHANGED <<index, found>>
  /\ pc' = "apply"
  /\ UNCHANGED <<columns, rows, stmt, i, count, out, status, before, rekeyed>>

\* Mistake: a key whose row id is past the end counts as free.
KeyInRange == HasIntKey(NewRow) /\ found.ok /\ found.row < Len(rows)

\* CheckKey found the key of the new row in the index.
KeyTaken == HasIntKey(NewRow) /\ found.ok

\* Mistake: the row count is taken after the row is stored.
RowCountAfterAdd == Len(rows) + 1

\* row_idx: the row count before the row is stored, its position after it.
NewRowId == Len(rows)

\* Mistake: the row is stored before the key is checked.
StoreBeforeCheck ==
  /\ pc = "apply"
  /\ rows' = Append(rows, NewRow)
  /\ IF KeyTaken
     THEN status' = "duplicate" /\ UNCHANGED <<index, found>>
     ELSE /\ IF primary_key_index > 0
             THEN Idx!Insert(IF HasIntKey(NewRow) THEN KeyOf(NewRow) ELSE 0, NewRowId)
             ELSE UNCHANGED <<index, found>>
          /\ UNCHANGED status
  /\ pc' = "done"
  /\ UNCHANGED <<columns, stmt, i, count, out, before, rekeyed>>

\* Reject the duplicate, or store the row and index it: under its key, or
\* under pk_val's initial 0 when the key is a string.
StoreRow ==
  /\ pc = "apply"
  /\ \/ KeyTaken /\ status' = "duplicate" /\ UNCHANGED <<rows, index, found>>
     \/ /\ ~KeyTaken
        /\ rows' = Append(rows, NewRow)
        /\ IF primary_key_index > 0
           THEN Idx!Insert(IF HasIntKey(NewRow) THEN KeyOf(NewRow) ELSE 0, NewRowId)
           ELSE UNCHANGED <<index, found>>
        /\ UNCHANGED status
  /\ pc' = "done"
  /\ UNCHANGED <<columns, stmt, i, count, out, before, rekeyed>>

-----------------------------------------------------------------------------
(***************************************************************************)
(* DELETE                                                                  *)
(***************************************************************************)
BeginDelete(s) ==
  /\ Start(s)
  /\ \/ BadWhere(s.where) /\ Reject("column not found")
     \/ ~BadWhere(s.where) /\ BeginLoop(s)

\* Mistake: the index is left alone.
KeepKey(row) == UNCHANGED <<index, found>>

\* The index entry of the deleted row's key goes with it.
DropKey(row) ==
  IF HasIntKey(row) THEN Idx!Remove(KeyOf(row)) ELSE UNCHANGED <<index, found>>

\* Mistake: the loop variable only moves when a row is deleted.
ScanDeleteStuck ==
  /\ pc = "scan" /\ stmt.op = "delete" /\ i >= 1
  /\ \/ /\ Selected(rows[i], stmt.where)
        /\ DropKey(rows[i])
        /\ rows' = RemoveAt(rows, i)
        /\ count' = count + 1
        /\ i' = i - 1
     \/ /\ ~Selected(rows[i], stmt.where)
        /\ UNCHANGED <<rows, index, found, count, i>>
  /\ UNCHANGED <<columns, pc, stmt, out, status, before, rekeyed>>

ScanDelete ==
  /\ pc = "scan" /\ stmt.op = "delete" /\ i >= 1
  /\ \/ /\ Selected(rows[i], stmt.where)
        /\ DropKey(rows[i])
        /\ rows' = RemoveAt(rows, i)
        /\ count' = count + 1
     \/ /\ ~Selected(rows[i], stmt.where)
        /\ UNCHANGED <<rows, index, found, count>>
  /\ i' = i - 1
  /\ UNCHANGED <<columns, pc, stmt, out, status, before, rekeyed>>

-----------------------------------------------------------------------------
(***************************************************************************)
(* UPDATE                                                                  *)
(***************************************************************************)
BeginUpdate(s) ==
  /\ Start(s)
  /\ LET bad == find_column(s.column) = 0 \/ BadWhere(s.where)
     IN  \/ bad /\ Reject("column not found")
         \/ ~bad /\ BeginLoop(s)

\* Overwrite the cell; a new int key is added to the index, the old one stays.
SetCell(set_col, new_val) ==
  /\ rows' = [rows EXCEPT ![i][set_col] = new_val]
  /\ count' = count + 1
  /\ IF set_col = primary_key_index /\ new_val.type = "int"
     THEN Idx!Insert(new_val.val, i - 1)
     ELSE UNCHANGED <<index, found>>
  /\ rekeyed' = (rekeyed \/ set_col = primary_key_index)

\* Mistake: the loop ends at the first row that does not match.
ScanUpdateBreaks ==
  /\ pc = "scan" /\ stmt.op = "update" /\ i <= Len(rows)
  /\ \/ /\ Selected(rows[i], stmt.where)
        /\ SetCell(find_column(stmt.column), ValueOf(stmt.value))
        /\ i' = i + 1
     \/ /\ ~Selected(rows[i], stmt.where)
        /\ i' = Len(rows) + 1
        /\ UNCHANGED <<rows, index, found, count, rekeyed>>
  /\ UNCHANGED <<columns, pc, stmt, out, status, before>>

ScanUpdate ==
  /\ pc = "scan" /\ stmt.op = "update" /\ i <= Len(rows)
  /\ \/ /\ Selected(rows[i], stmt.where)
        /\ SetCell(find_column(stmt.column), ValueOf(stmt.value))
     \/ /\ ~Selected(rows[i], stmt.where)
        /\ UNCHANGED <<rows, index, found, count, rekeyed>>
  /\ i' = i + 1
  /\ UNCHANGED <<columns, pc, stmt, out, status, before>>

-----------------------------------------------------------------------------
(***************************************************************************)
(* SELECT                                                                  *)
(***************************************************************************)
BadSelect(s) ==
  (s.column # "*" /\ find_column(s.column) = 0) \/ BadWhere(s.where)

BeginSelect(s) ==
  /\ Start(s)
  /\ \/ BadSelect(s) /\ Reject("column not found")
     \/ ~BadSelect(s) /\ BeginLoop(s)

\* The whole row, or the one cell asked for.
Project(row, column) ==
  IF column = "*" THEN row ELSE <<row[find_column(column)]>>

\* Mistake: rows that do not match are copied too.
ScanSelectAll ==
  /\ pc = "scan" /\ stmt.op = "select" /\ i <= Len(rows)
  /\ out' = Append(out, Project(rows[i], stmt.column))
  /\ i' = i + 1
  /\ UNCHANGED <<table, pc, stmt, count, status, before, rekeyed>>

ScanSelect ==
  /\ pc = "scan" /\ stmt.op = "select" /\ i <= Len(rows)
  /\ \/ /\ Selected(rows[i], stmt.where)
        /\ out' = Append(out, Project(rows[i], stmt.column))
     \/ ~Selected(rows[i], stmt.where) /\ UNCHANGED out
  /\ i' = i + 1
  /\ UNCHANGED <<table, pc, stmt, count, status, before, rekeyed>>

-----------------------------------------------------------------------------
\* The loop condition fails.
EndLoop ==
  /\ pc = "scan"
  /\ IF stmt.op = "delete" THEN i < 1 ELSE i > Len(rows)
  /\ pc' = "done"
  /\ UNCHANGED <<table, stmt, i, count, out, status, before, rekeyed>>

\* The handler returns: its locals are gone and the caller has the result.
Return ==
  /\ pc = "done"
  /\ pc' = "idle" /\ stmt' = NoStmt
  /\ found' = Idx!Void
  /\ i' = 0 /\ count' = 0 /\ out' = <<>> /\ status' = "ok"
  /\ before' = [rows |-> <<>>, index |-> [k \in Ints |-> NoRow]]
  /\ UNCHANGED <<columns, rows, index, rekeyed>>

Step == CheckKey \/ StoreRow \/ ScanDelete \/ ScanUpdate \/ ScanSelect
          \/ EndLoop \/ Return

Next ==
  \/ \E s \in Inserts : BeginInsert(s)
  \/ \E s \in Deletes : BeginDelete(s)
  \/ \E s \in Updates : BeginUpdate(s)
  \/ \E s \in Selects : BeginSelect(s)
  \/ Step

\* A handler runs to its return on the caller's thread.
Fairness == WF_vars(Step)

Spec == Init /\ [][Next]_vars /\ Fairness

-----------------------------------------------------------------------------
(***************************************************************************)
(* Properties                                                              *)
(***************************************************************************)

\* Every variable stays in its range: ints fit an int, row ids in the index
\* fit the table's bound, and every row has a cell for every column, so the
\* unchecked get_value calls of DELETE, UPDATE and SELECT stay in bounds.
TypeOK ==
  /\ columns \in Schemas
  /\ rows \in Seq(Seq(Value))
  /\ \A r \in 1..Len(rows) : Len(rows[r]) = Len(columns)
  /\ index \in [Ints -> RowIds \cup {NoRow}]
  /\ found \in [ok : BOOLEAN, row : RowIds \cup {NoRow}]
  /\ pc \in {"idle", "check", "apply", "scan", "done"}
  /\ stmt \in Inserts \cup Deletes \cup Updates \cup Selects \cup {NoStmt}
  /\ i \in Nat /\ count \in Nat
  /\ out \in Seq(Seq(Value))
  /\ status \in {"ok", "count mismatch", "column not found", "duplicate"}
  /\ before.rows \in Seq(Seq(Value))
  /\ rekeyed \in BOOLEAN

\* The int keys in the table, and the rows that have one.
KeyedRows == {r \in 1..Len(rows) : HasIntKey(rows[r])}
IntKeys   == {KeyOf(rows[r]) : r \in KeyedRows}

\* No two rows share an int primary key.
KeysUnique ==
  \A r, q \in KeyedRows : KeyOf(rows[r]) = KeyOf(rows[q]) => r = q

\* INSERT and DELETE together keep the primary key unique; only an UPDATE of
\* the primary-key column can break it.
KeysUniqueUntilRekeyed == ~rekeyed => KeysUnique

\* What INSERT's uniqueness check rests on: until an UPDATE writes the primary
\* key, the index has exactly the keys of the rows, except that 0 may also be
\* there for rows whose key is a string.  It also holds between the steps of a
\* DELETE.
IndexKeysExact ==
  ~rekeyed =>
    /\ \A k \in IntKeys : index[k] # NoRow
    /\ \A k \in Ints \ {0} : index[k] # NoRow => k \in IntKeys

Finished(op) == pc = "done" /\ stmt.op = op /\ status = "ok"

\* The meaning of a WHERE clause, stated without Compare.
Below(a, b) ==
  \/ a.type = "int" /\ b.type = "string"
  \/ a.type = b.type /\ a.val < b.val

Satisfies(row, w) ==
  LET cell   == row[find_column(w.column)]
      target == ValueOf(w.value)
  IN  CASE w.op = "none" -> TRUE
        [] w.op = "="    -> cell = target
        [] w.op = "<"    -> Below(cell, target)
        [] w.op = ">"    -> Below(target, cell)

\* new is old at exactly the positions in kept, in the order of old.
IsSelection(new, old, kept) ==
  \E at \in [1..Len(new) -> kept] :
    /\ \A m, n \in 1..Len(new) : m < n => at[m] < at[n]
    /\ \A r \in kept : \E m \in 1..Len(new) : at[m] = r
    /\ \A m \in 1..Len(new) : new[m] = old[at[m]]

\* A DELETE removes the rows that satisfied the condition when it started, all
\* of them and no other, keeps the order of the rest and counts the removed:
\* the rows shifting under the loop make it neither skip nor repeat one.
DeleteExact ==
  Finished("delete") =>
    /\ IsSelection(rows, before.rows,
         {r \in 1..Len(before.rows) : ~Satisfies(before.rows[r], stmt.where)})
    /\ count = Len(before.rows) - Len(rows)

\* An UPDATE changes one cell of exactly the rows that satisfied the condition
\* when it started, also when it writes the column the condition reads.
UpdateExact ==
  Finished("update") =>
    /\ Len(rows) = Len(before.rows)
    /\ \A r \in 1..Len(rows) :
         rows[r] = IF Satisfies(before.rows[r], stmt.where)
                   THEN [before.rows[r] EXCEPT
                           ![find_column(stmt.column)] = ValueOf(stmt.value)]
                   ELSE before.rows[r]
    /\ count = Cardinality({r \in 1..Len(rows) :
                             Satisfies(before.rows[r], stmt.where)})

\* A SELECT returns the projection of the rows that satisfy the condition, in
\* the order of the table.
SelectExact ==
  Finished("select") =>
    IsSelection(out, [r \in 1..Len(rows) |-> Project(rows[r], stmt.column)],
                {r \in 1..Len(rows) : Satisfies(rows[r], stmt.where)})

\* A statement that returns an error, and any SELECT, leaves the rows and the
\* index as they were.
FailureChangesNothing ==
  pc = "done" /\ (status # "ok" \/ stmt.op = "select") =>
    rows = before.rows /\ index = before.index

\* Whatever a statement does row by row amounts to what it says: for DELETE,
\* UPDATE and SELECT that is the rows its condition named when it started, and
\* for a statement that fails it is nothing.
DoesWhatItSays == DeleteExact /\ UpdateExact /\ SelectExact /\ FailureChangesNothing

\* Every statement returns.
StatementsReturn == pc # "idle" ~> pc = "idle"
=============================================================================
