----------------------------- MODULE DmlProofs -----------------------------
(***************************************************************************)
(* What holds of INSERT, DELETE, UPDATE and SELECT (Dml) for every schema, *)
(* every set of literals and every width of int and long.                  *)
(***************************************************************************)
EXTENDS Dml, SequenceTheorems, FiniteSetTheorems, WellFoundedInduction, TLAPS

\* Removing the row at position p (the shift-left loop of Table::remove_row) keeps
\* the elements before p and moves the others down.
LEMMA RemoveAtFacts ==
  ASSUME NEW S, NEW s \in Seq(S), NEW p \in 1..Len(s)
  PROVE  /\ RemoveAt(s, p) \in Seq(S)
         /\ Len(RemoveAt(s, p)) = Len(s) - 1
         /\ \A j \in 1..(Len(s) - 1) :
              RemoveAt(s, p)[j] = IF j < p THEN s[j] ELSE s[j + 1]
<1> DEFINE a == SubSeq(s, 1, p - 1)
           b == SubSeq(s, p + 1, Len(s))
<1>1. Len(s) \in Nat /\ \A n \in 1..Len(s) : s[n] \in S
  BY LenProperties, ElementOfSeq
<1>2. /\ a \in Seq(S) /\ Len(a) = p - 1
      /\ \A n \in 1..(p - 1) : a[n] = s[n]
  <2>1. \A n \in 1..(p - 1) : s[n] \in S
    BY <1>1
  <2> QED BY <1>1, <2>1, SubSeqProperties
<1>3. /\ b \in Seq(S) /\ Len(b) = Len(s) - p
      /\ \A n \in 1..(Len(s) - p) : b[n] = s[p + n]
  <2>1. \A n \in (p + 1)..Len(s) : s[n] \in S
    BY <1>1
  <2>2. /\ b \in Seq(S)
        /\ Len(b) = IF p + 1 <= Len(s) THEN Len(s) - (p + 1) + 1 ELSE 0
        /\ \A n \in 1..(Len(s) - (p + 1) + 1) : b[n] = s[p + 1 + n - 1]
    BY <1>1, <2>1, SubSeqProperties
  <2> QED BY <1>1, <2>2
<1> HIDE DEF a, b
<1>4. /\ a \o b \in Seq(S)
      /\ Len(a \o b) = Len(a) + Len(b)
      /\ \A n \in 1..(Len(a) + Len(b)) :
           (a \o b)[n] = IF n <= Len(a) THEN a[n] ELSE b[n - Len(a)]
  BY <1>2, <1>3, ConcatProperties
<1> DEFINE d == a \o b
<1>5. RemoveAt(s, p) = d
  BY DEF RemoveAt, a, b
<1> HIDE DEF d
<1>6. /\ d \in Seq(S) /\ Len(d) = Len(s) - 1
      /\ \A n \in 1..(Len(s) - 1) :
           d[n] = IF n <= p - 1 THEN a[n] ELSE b[n - (p - 1)]
  BY <1>1, <1>2, <1>3, <1>4 DEF d
<1>7. ASSUME NEW j \in 1..(Len(s) - 1)
      PROVE  d[j] = IF j < p THEN s[j] ELSE s[j + 1]
  <2>1. CASE j < p
    BY <1>1, <1>2, <1>6, <2>1
  <2>2. CASE j >= p
    <3>1. d[j] = b[j - (p - 1)] /\ j - (p - 1) \in 1..(Len(s) - p)
      BY <1>1, <1>6, <2>2
    <3>2. b[j - (p - 1)] = s[p + (j - (p - 1))] /\ p + (j - (p - 1)) = j + 1
      BY <1>1, <1>3, <3>1
    <3> QED BY <2>2, <3>1, <3>2
  <2> QED BY <1>1, <2>1, <2>2
<1> QED BY <1>5, <1>6, <1>7

\* A loop that stops at the first position of a set finds its least one.
LEMMA MinFacts ==
  ASSUME NEW S \in SUBSET Nat, S # {}
  PROVE  Min(S) \in S /\ \A x \in S : Min(S) <= x
<1>1. \E x \in S : \A y \in S : x <= y
  <2> DEFINE R == {p \in Nat \X Nat : p[1] < p[2]}
  <2>1. IsWellFoundedOn(R, Nat)
    BY NatLessThanWellFounded, Zenon DEF OpToRel
  <2> HIDE DEF R
  <2>2. PICK x \in S : \A y \in S : <<y, x>> \notin R
    BY <2>1, WFMin
  <2>3. \A y \in S : ~(y < x)
    BY <2>2 DEF R
  <2> QED BY <2>3
<1> QED BY <1>1 DEF Min

(***************************************************************************)
(* The inductive invariant                                                 *)
(***************************************************************************)

\* The rows a statement started from have a cell for every column too.
BeforeOK ==
  /\ before.rows \in Seq(Seq(Value))
  /\ \A r \in 1..Len(before.rows) : Len(before.rows[r]) = Len(columns)

\* The table is within its bound, with room for the row being inserted.
BoundOK ==
  /\ Len(rows) <= MaxRows[columns]
  /\ pc \in {"check", "apply"} => Len(rows) < MaxRows[columns]

\* Where a statement is, and what has been checked of it on the way there.
StmtOK ==
  /\ pc = "idle" <=> stmt = NoStmt
  /\ pc = "idle" => i = 0 /\ count = 0 /\ out = <<>>
  /\ pc # "done" => status = "ok"
  /\ pc \in {"check", "apply"} => stmt \in Inserts /\ Len(stmt.values) = Len(columns)

\* The loop of a DELETE, an UPDATE or a SELECT is running or has ended.
Looping == pc = "scan" \/ (pc = "done" /\ status = "ok" /\ stmt.op # "insert")

\* The columns a loop reads and writes were found.
LoopOK ==
  Looping =>
    /\ stmt \in Deletes \cup Updates \cup Selects
    /\ ~BadWhere(stmt.where)
    /\ stmt.op = "update" => find_column(stmt.column) # 0
    /\ stmt.op = "select" => stmt.column = "*" \/ find_column(stmt.column) # 0

\* What CheckKey found still holds when the row is stored.
FoundOK ==
  pc = "apply" /\ HasIntKey(NewRow) =>
    (found.ok <=> index[KeyOf(NewRow)] # NoRow)

\* A statement that has failed, has not got to writing or never writes has left
\* the rows and the index alone.
Untouched ==
  \/ pc \in {"check", "apply"}
  \/ pc \in {"scan", "done"} /\ (status # "ok" \/ stmt.op = "select")
  => rows = before.rows /\ index = before.index

\* IsSelection(new, old, kept), of which the first n elements have not moved.
Keeps(new, old, n, kept) ==
  \E at \in [1..Len(new) -> kept] :
    /\ \A m1, m2 \in 1..Len(new) : m1 < m2 => at[m1] < at[m2]
    /\ \A r \in kept : \E m \in 1..Len(new) : at[m] = r
    /\ \A m \in 1..Len(new) : new[m] = old[at[m]]
    /\ \A m \in 1..n : at[m] = m

\* The backward loop of a DELETE: the rows up to i are those it started from,
\* and above i the satisfying ones are gone.
DeleteSoFar ==
  Looping /\ stmt.op = "delete" =>
    /\ i <= Len(rows) /\ Len(rows) <= Len(before.rows)
    /\ Keeps(rows, before.rows, i,
             {r \in 1..Len(before.rows) : r > i => ~Satisfies(before.rows[r], stmt.where)})
    /\ count = Len(before.rows) - Len(rows)
    /\ pc = "done" => i = 0

\* The loop of an UPDATE: the satisfying rows before i are changed.
UpdateSoFar ==
  Looping /\ stmt.op = "update" =>
    /\ Len(rows) = Len(before.rows)
    /\ i \in 1..(Len(rows) + 1)
    /\ \A r \in 1..Len(rows) :
         rows[r] = IF r < i /\ Satisfies(before.rows[r], stmt.where)
                   THEN [before.rows[r] EXCEPT
                           ![find_column(stmt.column)] = ValueOf(stmt.value)]
                   ELSE before.rows[r]
    /\ count = Cardinality({r \in 1..(i - 1) :
                             Satisfies(before.rows[r], stmt.where)})
    /\ pc = "done" => i = Len(rows) + 1

\* The loop of a SELECT: the satisfying rows before i are in the result.
SelectSoFar ==
  Looping /\ stmt.op = "select" =>
    /\ i \in 1..(Len(rows) + 1)
    /\ IsSelection(out, [r \in 1..Len(rows) |-> Project(rows[r], stmt.column)],
                   {r \in 1..(i - 1) : Satisfies(rows[r], stmt.where)})
    /\ pc = "done" => i = Len(rows) + 1

KeysOK == KeysUniqueUntilRekeyed /\ IndexKeysExact

SoFar == Untouched /\ DeleteSoFar /\ UpdateSoFar /\ SelectSoFar

IInv ==
  /\ TypeOK /\ BeforeOK /\ BoundOK
  /\ StmtOK /\ LoopOK /\ FoundOK
  /\ KeysOK
  /\ SoFar

-----------------------------------------------------------------------------
(***************************************************************************)
(* The operators of Dml                                                    *)
(***************************************************************************)

\* The row ids of a table within its bound are row ids, and NoRow is none.
LEMMA RowIdFacts ==
  /\ \A s \in Schemas : MaxRows[s] \in Nat /\ 0..(MaxRows[s] - 1) \subseteq RowIds
  /\ RowIds \subseteq Nat /\ NoRow \notin RowIds /\ NoRow = -1
BY BoundsAssumption DEF RowIds, NoRow

\* atoi returns an int, however long the literal.
LEMMA AtoiFacts ==
  ASSUME NEW n \in Nat
  PROVE  Atoi(n) \in Ints
<1> DEFINE w == 2 * (IntMax + 1)
           l == IF n > LongMax THEN LongMax ELSE n
           q == l + IntMax + 1
<1>1. w \in Nat \ {0} /\ q \in Nat
  BY IntMaxAssumption
<1>2. Atoi(n) = (q % w) - (IntMax + 1)
  BY DEF Atoi
<1>3. q % w \in 0..(w - 1)
  <2> HIDE DEF w, q
  <2> QED BY <1>1
<1> QED BY <1>2, <1>3, IntMaxAssumption DEF Ints

LEMMA ValueFacts ==
  ASSUME NEW lit \in Literal
  PROVE  ValueOf(lit) \in Value
<1>1. lit.val \in Nat /\ lit.is_int \in BOOLEAN
  BY DEF Literal
<1> QED BY <1>1, AtoiFacts DEF ValueOf, Value

\* A column that is looked up is one of the table, or not found.
LEMMA ColumnFacts ==
  ASSUME columns \in Schemas
  PROVE  /\ Len(columns) \in Nat
         /\ primary_key_index \in 0..Len(columns)
         /\ \A n : find_column(n) \in 0..Len(columns)
<1>1. Len(columns) \in Nat
  BY SchemasAssumption, LenProperties
<1>2. primary_key_index \in 0..Len(columns)
  <2> DEFINE I == {c \in 1..Len(columns) : columns[c].is_primary}
  <2>1. primary_key_index = IF I # {} THEN Min(I) ELSE 0
    BY DEF primary_key_index, SelectInSeq
  <2>2. I \in SUBSET Nat /\ I \subseteq 1..Len(columns)
    BY <1>1
  <2> HIDE DEF I
  <2>3. I # {} => Min(I) \in I
    BY <2>2, MinFacts
  <2> QED BY <1>1, <2>1, <2>2, <2>3 DEF I
<1>3. ASSUME NEW n PROVE find_column(n) \in 0..Len(columns)
  <2> DEFINE I == {c \in 1..Len(columns) : columns[c].name = n}
  <2>1. find_column(n) = IF I # {} THEN Min(I) ELSE 0
    BY DEF find_column, SelectInSeq
  <2>2. I \in SUBSET Nat /\ I \subseteq 1..Len(columns)
    BY <1>1
  <2> HIDE DEF I
  <2>3. I # {} => Min(I) \in I
    BY <2>2, MinFacts
  <2> QED BY <1>1, <2>1, <2>2, <2>3 DEF I
<1> QED BY <1>1, <1>2, <1>3

\* matches_where means what a WHERE clause says, for a row with a cell for
\* every column and a condition whose column was found.
LEMMA SelectedFacts ==
  ASSUME columns \in Schemas,
         NEW w \in Wheres, ~BadWhere(w),
         NEW row \in Seq(Value), Len(row) = Len(columns)
  PROVE  Selected(row, w) <=> Satisfies(row, w)
<1>1. CASE w = NoWhere
  BY <1>1 DEF Selected, Satisfies, NoWhere
<1>2. CASE w # NoWhere
  <2>1. /\ w.op \in {"=", "<", ">"} /\ w.value \in Literal
        /\ find_column(w.column) \in 1..Len(row)
    BY <1>2, ColumnFacts, LiteralsAssumption DEF Wheres, BadWhere
  <2> DEFINE a == row[find_column(w.column)]
             b == ValueOf(w.value)
  <2>2. a \in Value /\ b \in Value
    BY <2>1, ElementOfSeq, ValueFacts
  <2>3. Selected(row, w) <=> \/ w.op = "=" /\ Compare(a, b) = 0
                             \/ w.op = "<" /\ Compare(a, b) < 0
                             \/ w.op = ">" /\ Compare(a, b) > 0
    BY <1>2 DEF Selected, matches_where
  <2>4. Satisfies(row, w) <=> \/ w.op = "=" /\ a = b
                              \/ w.op = "<" /\ Below(a, b)
                              \/ w.op = ">" /\ Below(b, a)
    BY <2>1 DEF Satisfies
  <2> HIDE DEF a, b
  <2>5. /\ Compare(a, b) = 0 <=> a = b
        /\ Compare(a, b) < 0 <=> Below(a, b)
        /\ Compare(a, b) > 0 <=> Below(b, a)
    BY <2>2, IntMaxAssumption DEF Compare, Below, Value, Ints
  <2> QED BY <2>3, <2>4, <2>5
<1> QED BY <1>1, <1>2

\* What a statement is made of, by its kind.
LEMMA StmtFacts ==
  /\ \A s \in Inserts : s.op = "insert"
  /\ \A s \in Deletes : s.op = "delete" /\ s.where \in Wheres
  /\ \A s \in Updates : /\ s.op = "update" /\ s.where \in Wheres
                        /\ s.value \in Literals[columns]
  /\ \A s \in Selects : s.op = "select" /\ s.where \in Wheres
  /\ NoStmt.op = "none"
BY DEF Inserts, Deletes, Updates, Selects, NoStmt

\* The schema of a table never changes, nor does what is computed from it.
LEMMA SchemaUnchanged ==
  ASSUME columns' = columns
  PROVE  /\ primary_key_index' = primary_key_index
         /\ \A n : find_column(n)' = find_column(n)
         /\ Wheres' = Wheres
         /\ Inserts' = Inserts /\ Deletes' = Deletes
         /\ Updates' = Updates /\ Selects' = Selects
<1>1. primary_key_index' = primary_key_index
  BY DEF primary_key_index, SelectInSeq
<1>2. \A n : find_column(n)' = find_column(n)
  BY DEF find_column, SelectInSeq
<1>3. Wheres' = Wheres
  BY DEF Wheres
<1> QED BY <1>1, <1>2, <1>3 DEF Inserts, Deletes, Updates, Selects

\* So neither do the conditions on a row.
LEMMA RowUnchanged ==
  ASSUME columns' = columns, NEW row, NEW w, NEW c
  PROVE  /\ HasIntKey(row)' <=> HasIntKey(row)
         /\ KeyOf(row)' = KeyOf(row)
         /\ BadWhere(w)' <=> BadWhere(w)
         /\ Satisfies(row, w)' <=> Satisfies(row, w)
         /\ Project(row, c)' = Project(row, c)
BY SchemaUnchanged DEF HasIntKey, KeyOf, BadWhere, Satisfies, Project

LEMMA InitIInv == Init => IInv
<1> SUFFICES ASSUME Init PROVE IInv
  OBVIOUS
<1> USE DEF Init
<1>1. TypeOK
  <2>1. index \in [Ints -> RowIds \cup {NoRow}]
    OBVIOUS
  <2>2. found \in [ok : BOOLEAN, row : RowIds \cup {NoRow}]
    BY DEF Idx!Void
  <2>3. /\ rows \in Seq(Seq(Value)) /\ out \in Seq(Seq(Value))
        /\ before.rows \in Seq(Seq(Value)) /\ Len(rows) = 0
    OBVIOUS
  <2>4. /\ columns \in Schemas /\ i \in Nat /\ count \in Nat
        /\ pc \in {"idle", "check", "apply", "scan", "done"}
        /\ status \in {"ok", "count mismatch", "column not found", "duplicate"}
    OBVIOUS
  <2>5. stmt \in Inserts \cup Deletes \cup Updates \cup Selects \cup {NoStmt}
    OBVIOUS
  <2>6. rekeyed \in BOOLEAN
    OBVIOUS
  <2>7. \A r \in 1..Len(rows) : Len(rows[r]) = Len(columns)
    BY <2>3
  <2> HIDE DEF Init
  <2> QED BY <2>1, <2>2, <2>3, <2>4, <2>5, <2>6, <2>7 DEF TypeOK
<1>2. BeforeOK /\ BoundOK
  BY BoundsAssumption DEF BeforeOK, BoundOK
<1>3. StmtOK /\ LoopOK /\ FoundOK
  BY DEF StmtOK, LoopOK, FoundOK, Looping
<1>4. KeysOK
  BY DEF KeysOK, KeysUniqueUntilRekeyed, KeysUnique, IndexKeysExact, KeyedRows, IntKeys
<1>5. SoFar
  BY DEF SoFar, Untouched, DeleteSoFar, UpdateSoFar, SelectSoFar, Looping
<1> QED BY <1>1, <1>2, <1>3, <1>4, <1>5 DEF IInv

-----------------------------------------------------------------------------
(***************************************************************************)
(* Every step keeps the invariant                                          *)
(***************************************************************************)

\* A step that leaves the table alone leaves its keys in order.
LEMMA KeysUnchanged ==
  ASSUME KeysOK, columns' = columns, rows' = rows, index' = index,
         rekeyed' = rekeyed
  PROVE  KeysOK'
<1>1. KeyedRows' = KeyedRows
  BY SchemaUnchanged DEF KeyedRows, HasIntKey
<1>2. IntKeys' = IntKeys
  BY <1>1, SchemaUnchanged DEF IntKeys, KeyOf
<1>3. KeysUnique' <=> KeysUnique
  BY <1>1, SchemaUnchanged DEF KeysUnique, KeyOf
<1> QED BY <1>2, <1>3 DEF KeysOK, KeysUniqueUntilRekeyed, IndexKeysExact

\* Entering a handler records the table and changes none of it.
LEMMA StartFacts ==
  ASSUME IInv, NEW s \in Inserts \cup Deletes \cup Updates \cup Selects, Start(s),
         pc' \in {"check", "scan", "done"}, i' \in Nat,
         status' \in {"ok", "count mismatch", "column not found"}
  PROVE  /\ TypeOK' /\ BeforeOK' /\ KeysOK' /\ FoundOK' 
         /\ stmt' = s /\ s # NoStmt /\ columns' = columns
         /\ rows' = rows /\ index' = index
         /\ before'.rows = rows /\ before'.index = index
         /\ count' = 0 /\ out' = <<>>
<1>1. /\ pc = "idle" /\ stmt' = s
      /\ before' = [rows |-> rows, index |-> index]
      /\ columns' = columns /\ rows' = rows /\ index' = index /\ found' = found
      /\ count' = count /\ out' = out /\ rekeyed' = rekeyed
  BY DEF Start
<1>2. count = 0 /\ out = <<>>
  BY <1>1 DEF IInv, StmtOK
<1>3. s # NoStmt
  BY StmtFacts
<1>4. TypeOK'
  BY <1>1, <1>2, SchemaUnchanged DEF IInv, TypeOK
<1>5. BeforeOK'
  BY <1>1 DEF IInv, TypeOK, BeforeOK
<1>6. KeysOK'
  BY <1>1, KeysUnchanged DEF IInv
<1>7. FoundOK'
  BY DEF FoundOK
<1> QED BY <1>1, <1>2, <1>3, <1>4, <1>5, <1>6, <1>7

\* A statement that is refused at once has touched nothing.
LEMMA RejectIInv ==
  ASSUME IInv, NEW s \in Inserts \cup Deletes \cup Updates \cup Selects, Start(s),
         NEW e \in {"count mismatch", "column not found"}, Reject(e)
  PROVE  IInv'
<1>1. pc' = "done" /\ status' = e /\ i' = i /\ i \in Nat
  BY DEF Reject, IInv, TypeOK
<1>2. /\ TypeOK' /\ BeforeOK' /\ KeysOK' /\ FoundOK'
      /\ stmt' = s /\ s # NoStmt /\ columns' = columns
      /\ rows' = rows /\ index' = index
      /\ before'.rows = rows /\ before'.index = index
  BY <1>1, StartFacts
<1>3. ~Looping' /\ status' # "ok"
  BY <1>1 DEF Looping
<1>4. BoundOK'
  BY <1>1, <1>2 DEF IInv, BoundOK
<1>5. StmtOK' /\ LoopOK'
  BY <1>1, <1>2, <1>3 DEF StmtOK, LoopOK
<1>6. SoFar'
  BY <1>1, <1>2, <1>3 DEF SoFar, Untouched, DeleteSoFar, UpdateSoFar, SelectSoFar
<1> QED BY <1>2, <1>4, <1>5, <1>6 DEF IInv

\* Before its first iteration a loop has done nothing: a DELETE has every row
\* still to look at, an UPDATE and a SELECT none behind them.
LEMMA BeginLoopIInv ==
  ASSUME IInv, NEW s \in Deletes \cup Updates \cup Selects, Start(s), BeginLoop(s),
         ~BadWhere(s.where),
         s.op = "update" => find_column(s.column) # 0,
         s.op = "select" => s.column = "*" \/ find_column(s.column) # 0
  PROVE  IInv'
<1>1. /\ pc' = "scan" /\ status' = "ok"
      /\ i' = IF s.op = "delete" THEN Len(rows) ELSE 1
  BY DEF BeginLoop, LoopFrom, Start, IInv, StmtOK
<1>2. rows \in Seq(Seq(Value)) /\ Len(rows) \in Nat /\ i' \in Nat
  BY <1>1, LenProperties DEF IInv, TypeOK
<1>3. /\ TypeOK' /\ BeforeOK' /\ KeysOK' /\ FoundOK'
      /\ stmt' = s /\ s # NoStmt /\ columns' = columns
      /\ rows' = rows /\ index' = index
      /\ before'.rows = rows /\ before'.index = index
      /\ count' = 0 /\ out' = <<>>
  BY <1>1, <1>2, StartFacts
<1>4. BoundOK'
  BY <1>1, <1>3 DEF IInv, BoundOK
<1>5. StmtOK'
  BY <1>1, <1>3 DEF StmtOK
<1>6. LoopOK'
  BY <1>3, SchemaUnchanged, RowUnchanged DEF LoopOK
<1>7. Untouched'
  BY <1>3 DEF Untouched
<1>8. DeleteSoFar'
  <2> SUFFICES ASSUME s.op = "delete" PROVE DeleteSoFar'
    BY <1>3 DEF DeleteSoFar
  <2> DEFINE left == {r \in 1..Len(before.rows) :
                        r > i => ~Satisfies(before.rows[r], stmt.where)}
  <2>1. i' = Len(rows)
    BY <1>1
  <2>2. left' = 1..Len(rows)
    BY <1>2, <1>3, <2>1
  <2>3. Keeps(rows, rows, Len(rows), 1..Len(rows))
    <3>1. [m \in 1..Len(rows) |-> m] \in [1..Len(rows) -> 1..Len(rows)]
      OBVIOUS
    <3> QED BY <1>2, <3>1 DEF Keeps
  <2> HIDE DEF left
  <2>4. Keeps(rows, before.rows, i, left)'
    <3>1. before'.rows = rows /\ rows' = rows
      BY <1>3
    <3> QED BY <2>1, <2>2, <2>3, <3>1
  <2>5. /\ i' <= Len(rows') /\ Len(rows') <= Len(before'.rows)
        /\ count' = Len(before'.rows) - Len(rows') /\ pc' # "done"
    BY <1>1, <1>2, <1>3
  <2> QED BY <2>4, <2>5 DEF DeleteSoFar, left
<1>9. UpdateSoFar'
  <2> SUFFICES ASSUME s.op = "update" PROVE UpdateSoFar'
    BY <1>3 DEF UpdateSoFar
  <2>1. i' = 1
    BY <1>1
  <2>2. {r \in 1..(i - 1) : Satisfies(before.rows[r], stmt.where)}' = {}
    BY <2>1
  <2> QED BY <1>1, <1>2, <1>3, <2>1, <2>2, FS_EmptySet DEF UpdateSoFar
<1>10. SelectSoFar'
  <2> SUFFICES ASSUME s.op = "select" PROVE SelectSoFar'
    BY <1>3 DEF SelectSoFar
  <2>1. i' = 1
    BY <1>1
  <2>2. {r \in 1..(i - 1) : Satisfies(rows[r], stmt.where)}' = {}
    BY <2>1
  <2>3. ASSUME NEW old PROVE IsSelection(<<>>, old, {})
    <3>1. [m \in {} |-> 0] \in [1..Len(<<>>) -> {}] /\ 1..Len(<<>>) = {}
      OBVIOUS
    <3> QED BY <3>1 DEF IsSelection
  <2> QED BY <1>1, <1>2, <1>3, <2>1, <2>2, <2>3 DEF SelectSoFar, IsSelection
<1> QED BY <1>3, <1>4, <1>5, <1>6, <1>7, <1>8, <1>9, <1>10 DEF IInv, SoFar

\* An INSERT of the right number of values goes on to check its key.
LEMMA BeginInsertIInv ==
  ASSUME IInv, NEW s \in Inserts, BeginInsert(s)
  PROVE  IInv'
<1>1. CASE Reject("count mismatch")
  BY <1>1, RejectIInv DEF BeginInsert
<1>2. CASE ~CountMismatch(s.values) /\ pc' = "check" /\ UNCHANGED <<i, status>>
  <2>1. /\ pc' = "check" /\ i' = i /\ status' = "ok" /\ i \in Nat
        /\ Len(s.values) = Len(columns) /\ Len(rows) < MaxRows[columns]
    BY <1>2 DEF CountMismatch, BeginInsert, Start, IInv, TypeOK, StmtOK
  <2>2. /\ TypeOK' /\ BeforeOK' /\ KeysOK' /\ FoundOK'
        /\ stmt' = s /\ s # NoStmt /\ columns' = columns
        /\ rows' = rows /\ index' = index
        /\ before'.rows = rows /\ before'.index = index
    BY <2>1, StartFacts DEF BeginInsert
  <2>3. ~Looping'
    BY <2>1 DEF Looping
  <2>4. BoundOK'
    BY <2>1, <2>2 DEF IInv, BoundOK
  <2>5. StmtOK' /\ LoopOK'
    BY <2>1, <2>2, <2>3, SchemaUnchanged DEF StmtOK, LoopOK
  <2>6. SoFar'
    BY <2>1, <2>2, <2>3 DEF SoFar, Untouched, DeleteSoFar, UpdateSoFar, SelectSoFar
  <2> QED BY <2>2, <2>4, <2>5, <2>6 DEF IInv
<1> QED BY <1>1, <1>2 DEF BeginInsert

LEMMA BeginDeleteIInv ==
  ASSUME IInv, NEW s \in Deletes, BeginDelete(s)
  PROVE  IInv'
BY StmtFacts, RejectIInv, BeginLoopIInv DEF BeginDelete

LEMMA BeginUpdateIInv ==
  ASSUME IInv, NEW s \in Updates, BeginUpdate(s)
  PROVE  IInv'
BY StmtFacts, RejectIInv, BeginLoopIInv DEF BeginUpdate

LEMMA BeginSelectIInv ==
  ASSUME IInv, NEW s \in Selects, BeginSelect(s)
  PROVE  IInv'
BY StmtFacts, RejectIInv, BeginLoopIInv DEF BeginSelect, BadSelect

\* The key of a row with a cell for every column is an int.
LEMMA KeyFacts ==
  ASSUME columns \in Schemas, NEW row \in Seq(Value), Len(row) = Len(columns),
         HasIntKey(row)
  PROVE  KeyOf(row) \in Ints
<1>1. primary_key_index \in 1..Len(row)
  BY ColumnFacts DEF HasIntKey
<1>2. row[primary_key_index] \in Value
  BY <1>1, ElementOfSeq
<1> QED BY <1>2 DEF HasIntKey, KeyOf, Value

\* The row an INSERT makes has a cell for every column.
LEMMA NewRowFacts ==
  ASSUME columns \in Schemas, stmt \in Inserts, Len(stmt.values) = Len(columns)
  PROVE  NewRow \in Seq(Value) /\ Len(NewRow) = Len(columns)
<1>1. Len(columns) \in Nat
  BY ColumnFacts
<1>2. PICK n \in 1..MaxValues[columns] : stmt.values \in [1..n -> Literals[columns]]
  BY DEF Inserts
<1>3. MaxValues[columns] \in Nat /\ n \in Nat
  BY BoundsAssumption
<1>4. stmt.values \in Seq(Literals[columns]) /\ Len(stmt.values) = n
  BY <1>2, <1>3
<1>5. \A c \in 1..n : ValueOf(stmt.values[c]) \in Value
  BY <1>2, LiteralsAssumption, ValueFacts
<1>6. NewRow \in [1..n -> Value]
  BY <1>4, <1>5 DEF NewRow
<1> QED BY <1>3, <1>4, <1>6

LEMMA CheckKeyIInv ==
  ASSUME IInv, CheckKey
  PROVE  IInv'
<1> USE DEF IInv
<1>1. /\ pc = "check" /\ pc' = "apply" /\ index' = index
      /\ columns' = columns /\ rows' = rows /\ stmt' = stmt /\ i' = i
      /\ count' = count /\ out' = out /\ status' = status
      /\ before' = before /\ rekeyed' = rekeyed
  BY DEF CheckKey, Idx!Find
<1>2. columns \in Schemas /\ stmt \in Inserts /\ Len(stmt.values) = Len(columns)
  BY <1>1 DEF TypeOK, StmtOK
<1>3. HasIntKey(NewRow) => /\ KeyOf(NewRow) \in Ints
                           /\ found' = [ok |-> index[KeyOf(NewRow)] # NoRow,
                                        row |-> index[KeyOf(NewRow)]]
  BY <1>2, NewRowFacts, KeyFacts DEF CheckKey, Idx!Find
<1>4. ~HasIntKey(NewRow) => found' = found
  BY DEF CheckKey
<1>5. TypeOK'
  <2>1. found' \in [ok : BOOLEAN, row : RowIds \cup {NoRow}]
    <3>1. CASE HasIntKey(NewRow)
      <4>1. index[KeyOf(NewRow)] \in RowIds \cup {NoRow}
        BY <1>3, <3>1 DEF TypeOK
      <4>2. (index[KeyOf(NewRow)] # NoRow) \in BOOLEAN
        OBVIOUS
      <4> DEFINE b == index[KeyOf(NewRow)] # NoRow
                 x == index[KeyOf(NewRow)]
      <4>3. found' = [ok |-> b, row |-> x] /\ b \in BOOLEAN /\ x \in RowIds \cup {NoRow}
        BY <1>3, <3>1, <4>1, <4>2
      <4> HIDE DEF b, x, IInv
      <4> QED BY <4>3
    <3> QED BY <1>4, <3>1 DEF TypeOK
  <2> QED BY <1>1, <2>1, SchemaUnchanged DEF TypeOK
<1>6. BeforeOK' /\ BoundOK'
  BY <1>1 DEF BeforeOK, BoundOK
<1>7. ~Looping'
  BY <1>1 DEF Looping
<1>8. StmtOK' /\ LoopOK'
  BY <1>1, <1>7, SchemaUnchanged DEF StmtOK, LoopOK
<1>9. FoundOK'
  <2>1. NewRow' = NewRow
    BY <1>1 DEF NewRow
  <2>2. HasIntKey(NewRow)' <=> HasIntKey(NewRow)
    BY <1>1, <2>1, SchemaUnchanged DEF HasIntKey
  <2>3. KeyOf(NewRow)' = KeyOf(NewRow)
    BY <1>1, <2>1, SchemaUnchanged DEF KeyOf
  <2>4. HasIntKey(NewRow) => (found'.ok <=> index[KeyOf(NewRow)] # NoRow)
    <3> DEFINE b == index[KeyOf(NewRow)] # NoRow
               x == index[KeyOf(NewRow)]
    <3>1. HasIntKey(NewRow) => found' = [ok |-> b, row |-> x]
      BY <1>3
    <3> HIDE DEF b, x, IInv
    <3>2. HasIntKey(NewRow) => found'.ok = b
      BY <3>1
    <3> QED BY <3>2 DEF b
  <2> QED BY <1>1, <2>2, <2>3, <2>4 DEF FoundOK
<1>10. KeysOK'
  BY <1>1, KeysUnchanged
<1>11. SoFar'
  BY <1>1, <1>7 DEF SoFar, Untouched, DeleteSoFar, UpdateSoFar, SelectSoFar
<1> QED BY <1>5, <1>6, <1>8, <1>9, <1>10, <1>11

\* The keys after a row has been stored and indexed.
LEMMA StoredKeys ==
  ASSUME IInv, StoreRow, ~KeyTaken
  PROVE  KeysOK'
<1> USE DEF IInv
<1>1. /\ pc = "apply" /\ rows' = Append(rows, NewRow)
      /\ columns' = columns /\ rekeyed' = rekeyed
      /\ stmt \in Inserts /\ Len(stmt.values) = Len(columns)
  BY DEF StoreRow, TypeOK, StmtOK
<1>2. /\ columns \in Schemas /\ rows \in Seq(Seq(Value)) /\ Len(rows) \in Nat
      /\ \A r \in 1..Len(rows) : rows[r] \in Seq(Value) /\ Len(rows[r]) = Len(columns)
      /\ index \in [Ints -> RowIds \cup {NoRow}]
  BY LenProperties, ElementOfSeq DEF TypeOK
<1>3. NewRow \in Seq(Value) /\ Len(NewRow) = Len(columns)
  BY <1>1, <1>2, NewRowFacts
<1>4. /\ Len(rows') = Len(rows) + 1 /\ rows'[Len(rows) + 1] = NewRow
      /\ \A r \in 1..Len(rows) : rows'[r] = rows[r]
  BY <1>1, <1>2, <1>3, AppendProperties
<1>5. SUFFICES ASSUME ~rekeyed
               PROVE  /\ KeysUnique'
                      /\ \A k \in IntKeys' : index'[k] # NoRow
                      /\ \A k \in Ints \ {0} : index'[k] # NoRow => k \in IntKeys'
  BY <1>1 DEF KeysOK, KeysUniqueUntilRekeyed, IndexKeysExact
<1>6. /\ KeysUnique /\ \A k \in IntKeys : index[k] # NoRow
      /\ \A k \in Ints \ {0} : index[k] # NoRow => k \in IntKeys
  BY <1>5 DEF KeysOK, KeysUniqueUntilRekeyed, IndexKeysExact
<1>7. \A row : (HasIntKey(row)' <=> HasIntKey(row)) /\ KeyOf(row)' = KeyOf(row)
  BY <1>1, RowUnchanged
<1>8. CASE HasIntKey(NewRow)
  <2> DEFINE k0 == KeyOf(NewRow)
  <2>1. /\ k0 \in Ints /\ index[k0] = NoRow
    BY <1>1, <1>2, <1>3, <1>8, KeyFacts DEF FoundOK, KeyTaken
  <2>2. index' = [index EXCEPT ![k0] = NewRowId]
    BY <1>8 DEF StoreRow, HasIntKey, Idx!Insert
  <2>3. NewRowId # NoRow
    BY <1>2, RowIdFacts DEF NewRowId
  <2>4. KeyedRows' = KeyedRows \cup {Len(rows) + 1}
    <3>1. \A r \in 1..(Len(rows) + 1) : r \in 1..Len(rows) \/ r = Len(rows) + 1
      BY <1>2
    <3>2. \A r \in 1..Len(rows) : r \in 1..(Len(rows) + 1)
      BY <1>2
    <3>3. Len(rows) + 1 \in 1..(Len(rows) + 1)
      BY <1>2
    <3>4. \A r \in 1..Len(rows) : HasIntKey(rows[r])' <=> HasIntKey(rows[r])
      BY <1>4, <1>7
    <3>5. PICK row : row = NewRow
      OBVIOUS
    <3>6. HasIntKey(row)' /\ rows'[Len(rows) + 1] = row
      BY <1>4, <1>7, <1>8, <3>5
    <3>7. \A r \in 1..(Len(rows) + 1) : HasIntKey(rows[r])' <=> r \in KeyedRows \cup {Len(rows) + 1}
      BY <3>1, <3>3, <3>4, <3>6 DEF KeyedRows
    <3> QED BY <1>4, <3>2, <3>3, <3>7 DEF KeyedRows
  <2>5. \A r \in KeyedRows : /\ r \in 1..Len(rows)
                             /\ KeyOf(rows[r]) \in Ints /\ KeyOf(rows[r]) # k0
    <3>1. \A r \in KeyedRows : KeyOf(rows[r]) \in Ints /\ KeyOf(rows[r]) \in IntKeys
      BY <1>2, KeyFacts DEF KeyedRows, IntKeys
    <3> QED BY <1>6, <2>1, <3>1 DEF KeyedRows
  <2>6. \A r \in 1..Len(rows) : KeyOf(rows[r])' = KeyOf(rows[r])
    BY <1>1, <1>4, <1>7
  <2>7. \A r : r = Len(rows) + 1 => KeyOf(rows[r])' = k0
    BY <1>4, <1>7
  <2>8. KeysUnique'
    BY <1>6, <2>4, <2>5, <2>6, <2>7 DEF KeysUnique
  <2>9. IntKeys' = IntKeys \cup {k0}
    BY <2>4, <2>5, <2>6, <2>7 DEF IntKeys
  <2>10. \A k \in Ints : index'[k] = IF k = k0 THEN NewRowId ELSE index[k]
    BY <1>2, <2>2
  <2>11. IntKeys \subseteq Ints
    BY <2>5 DEF IntKeys
  <2> QED BY <1>6, <2>1, <2>3, <2>8, <2>9, <2>10, <2>11
<1>9. CASE ~HasIntKey(NewRow)
  <2>1. KeyedRows' = KeyedRows
    BY <1>2, <1>4, <1>7, <1>9 DEF KeyedRows
  <2>2. \A r \in KeyedRows : /\ KeyOf(rows[r]) \in Ints
                             /\ KeyOf(rows[r])' = KeyOf(rows[r])
    BY <1>1, <1>2, <1>4, <1>7, KeyFacts DEF KeyedRows
  <2>3. KeysUnique'
    BY <1>6, <2>1, <2>2 DEF KeysUnique
  <2>4. IntKeys' = IntKeys /\ IntKeys \subseteq Ints
    BY <2>1, <2>2 DEF IntKeys
  <2>5. index' = index \/ index' = [index EXCEPT ![0] = NewRowId]
    BY <1>9 DEF StoreRow, Idx!Insert
  <2>6. NewRowId # NoRow
    BY <1>2, RowIdFacts DEF NewRowId
  <2>7. \A k \in Ints : index'[k] = index[k] \/ (k = 0 /\ index'[k] # NoRow)
    BY <1>2, <2>5, <2>6
  <2> QED BY <1>6, <2>3, <2>4, <2>7
<1> QED BY <1>8, <1>9

LEMMA StoreRowIInv ==
  ASSUME IInv, StoreRow
  PROVE  IInv'
<1> USE DEF IInv
<1>1. /\ pc = "apply" /\ pc' = "done" /\ columns' = columns /\ stmt' = stmt
      /\ i' = i /\ count' = count /\ out' = out
      /\ before' = before /\ rekeyed' = rekeyed
      /\ status = "ok" /\ stmt \in Inserts /\ Len(stmt.values) = Len(columns)
      /\ stmt # NoStmt /\ stmt.op = "insert"
  BY StmtFacts DEF StoreRow, TypeOK, StmtOK
<1>2. ~Looping' /\ BeforeOK' /\ FoundOK'
  BY <1>1 DEF Looping, BeforeOK, FoundOK
<1>3. StmtOK' /\ LoopOK'
  BY <1>1, <1>2 DEF StmtOK, LoopOK
<1>4. CASE KeyTaken /\ status' = "duplicate" /\ UNCHANGED <<rows, index, found>>
  <2>1. TypeOK'
    BY <1>1, <1>4, SchemaUnchanged DEF TypeOK
  <2>2. BoundOK' /\ KeysOK'
    BY <1>1, <1>4, KeysUnchanged DEF BoundOK
  <2>3. SoFar'
    BY <1>1, <1>2, <1>4 DEF SoFar, Untouched, DeleteSoFar, UpdateSoFar, SelectSoFar
  <2> QED BY <1>2, <1>3, <2>1, <2>2, <2>3
<1>5. CASE ~KeyTaken
  <2>1. /\ rows' = Append(rows, NewRow) /\ status' = "ok"
        /\ columns \in Schemas /\ rows \in Seq(Seq(Value)) /\ Len(rows) \in Nat
        /\ Len(rows) < MaxRows[columns] /\ MaxRows[columns] \in Nat
    BY <1>1, <1>5, RowIdFacts, LenProperties DEF StoreRow, TypeOK, BoundOK
  <2>2. NewRow \in Seq(Value) /\ Len(NewRow) = Len(columns)
    BY <1>1, <2>1, NewRowFacts
  <2>3. /\ rows' \in Seq(Seq(Value)) /\ Len(rows') = Len(rows) + 1
        /\ \A r \in 1..Len(rows') : Len(rows'[r]) = Len(columns)
    <3>1. \A r \in 1..Len(rows) : Len(rows[r]) = Len(columns)
      BY DEF TypeOK
    <3> HIDE DEF IInv
    <3> QED BY <2>1, <2>2, <3>1, AppendProperties
  <2>4. /\ index' \in [Ints -> RowIds \cup {NoRow}]
        /\ found' \in [ok : BOOLEAN, row : RowIds \cup {NoRow}]
    <3>1. NewRowId \in RowIds
      BY <2>1, RowIdFacts DEF NewRowId
    <3>2. CASE primary_key_index > 0
      <4>1. PICK k : index' = [index EXCEPT ![k] = NewRowId] /\ found' = Idx!Void
        BY <1>5, <3>2 DEF StoreRow, Idx!Insert
      <4> QED BY <3>1, <4>1 DEF TypeOK, Idx!Void
    <3>3. CASE ~(primary_key_index > 0)
      BY <1>5, <3>3 DEF StoreRow, TypeOK
    <3> QED BY <3>2, <3>3
  <2>5. TypeOK'
    BY <1>1, <2>1, <2>3, <2>4, SchemaUnchanged DEF TypeOK
  <2>6. BoundOK' /\ KeysOK'
    BY <1>1, <1>5, <2>1, <2>3, StoredKeys DEF BoundOK
  <2>7. SoFar'
    BY <1>1, <1>2, <2>1 DEF SoFar, Untouched, DeleteSoFar, UpdateSoFar, SelectSoFar
  <2> QED BY <1>2, <1>3, <2>5, <2>6, <2>7
<1> QED BY <1>4, <1>5 DEF StoreRow

\* The loop has come to its last row.
LEMMA EndLoopIInv ==
  ASSUME IInv, EndLoop
  PROVE  IInv'
<1> USE DEF IInv
<1>1. /\ pc = "scan" /\ pc' = "done" /\ columns' = columns /\ rows' = rows
      /\ index' = index /\ found' = found /\ stmt' = stmt /\ i' = i
      /\ count' = count /\ out' = out /\ status' = status /\ status = "ok"
      /\ before' = before /\ rekeyed' = rekeyed /\ i \in Nat
  BY DEF EndLoop, table, TypeOK, StmtOK
<1>2. Looping /\ (Looping' <=> Looping)
  BY <1>1, StmtFacts DEF Looping, LoopOK
<1>3. TypeOK' /\ BeforeOK' /\ BoundOK' /\ FoundOK'
  BY <1>1, SchemaUnchanged DEF TypeOK, BeforeOK, BoundOK, FoundOK
<1>4. StmtOK'
  BY <1>1 DEF StmtOK
<1>5. LoopOK'
  BY <1>1, <1>2, SchemaUnchanged, RowUnchanged DEF LoopOK
<1>6. KeysOK'
  BY <1>1, KeysUnchanged
<1>7. Untouched'
  BY <1>1 DEF Untouched, SoFar
<1>8. DeleteSoFar'
  <2> DEFINE left == {r \in 1..Len(before.rows) :
                        r > i => ~Satisfies(before.rows[r], stmt.where)}
  <2>1. left' = left
    BY <1>1, RowUnchanged
  <2>2. stmt.op = "delete" => i < 1
    BY DEF EndLoop
  <2> HIDE DEF left
  <2>3. Keeps(rows, before.rows, i, left)' <=> Keeps(rows, before.rows, i, left)
    BY <1>1, <2>1
  <2> QED BY <1>1, <1>2, <2>2, <2>3 DEF DeleteSoFar, SoFar, left
<1>9. UpdateSoFar'
  <2> DEFINE hits == {r \in 1..(i - 1) : Satisfies(before.rows[r], stmt.where)}
  <2>1. hits' = hits
    BY <1>1, RowUnchanged
  <2>2. stmt.op = "update" => i > Len(rows)
    BY DEF EndLoop
  <2> HIDE DEF hits
  <2>3. Cardinality(hits)' = Cardinality(hits)
    BY <2>1
  <2>4. \A r : /\ Satisfies(before.rows[r], stmt.where)'
                     <=> Satisfies(before.rows[r], stmt.where)
               /\ find_column(stmt.column)' = find_column(stmt.column)
               /\ ValueOf(stmt.value)' = ValueOf(stmt.value)
    BY <1>1, RowUnchanged, SchemaUnchanged
  <2> QED BY <1>1, <1>2, <2>2, <2>3, <2>4 DEF UpdateSoFar, SoFar, hits
<1>10. SelectSoFar'
  <2> DEFINE hits == {r \in 1..(i - 1) : Satisfies(rows[r], stmt.where)}
             cells == [r \in 1..Len(rows) |-> Project(rows[r], stmt.column)]
  <2>1. hits' = hits
    BY <1>1, RowUnchanged
  <2>2. cells' = cells
    BY <1>1, RowUnchanged
  <2>3. stmt.op = "select" => i > Len(rows)
    BY DEF EndLoop
  <2> HIDE DEF hits, cells
  <2>4. IsSelection(out, cells, hits)' <=> IsSelection(out, cells, hits)
    BY <1>1, <2>1, <2>2
  <2> QED BY <1>1, <1>2, <2>3, <2>4 DEF SelectSoFar, SoFar, hits, cells
<1> QED BY <1>3, <1>4, <1>5, <1>6, <1>7, <1>8, <1>9, <1>10 DEF SoFar

\* The locals of the handler are gone; the table stays as it is.
LEMMA ReturnIInv ==
  ASSUME IInv, Return
  PROVE  IInv'
<1> USE DEF IInv
<1>1. /\ pc' = "idle" /\ stmt' = NoStmt /\ i' = 0 /\ count' = 0 /\ out' = <<>>
      /\ status' = "ok" /\ columns' = columns /\ rows' = rows /\ index' = index
      /\ rekeyed' = rekeyed /\ before'.rows = <<>> /\ found' = Idx!Void
  BY DEF Return
<1>2. TypeOK'
  <2>1. found' \in [ok : BOOLEAN, row : RowIds \cup {NoRow}]
    BY <1>1 DEF Idx!Void
  <2>2. out' \in Seq(Seq(Value)) /\ before'.rows \in Seq(Seq(Value))
    BY <1>1
  <2>3. stmt' = NoStmt /\ pc' = "idle" /\ i' \in Nat /\ count' \in Nat
    BY <1>1
  <2> QED BY <1>1, <2>1, <2>2, <2>3, SchemaUnchanged DEF TypeOK
<1>3. BeforeOK' /\ BoundOK' /\ FoundOK' /\ StmtOK'
  BY <1>1 DEF BeforeOK, BoundOK, FoundOK, StmtOK
<1>4. LoopOK' /\ SoFar'
  BY <1>1 DEF LoopOK, SoFar, Looping, Untouched, DeleteSoFar, UpdateSoFar, SelectSoFar
<1>5. KeysOK'
  BY <1>1, KeysUnchanged
<1> QED BY <1>2, <1>3, <1>4, <1>5

\* One more row of a SELECT: the selection grows at its end.
LEMMA SelectionAppend ==
  ASSUME NEW T, NEW s \in Seq(T), NEW e \in T, NEW old,
         NEW j \in Int, NEW S \in SUBSET Int, \A r \in S : r < j,
         e = old[j], IsSelection(s, old, S)
  PROVE  IsSelection(Append(s, e), old, S \cup {j})
<1>1. Len(s) \in Nat
  BY LenProperties
<1>2. PICK at \in [1..Len(s) -> S] :
        /\ \A m, n \in 1..Len(s) : m < n => at[m] < at[n]
        /\ \A r \in S : \E m \in 1..Len(s) : at[m] = r
        /\ \A m \in 1..Len(s) : s[m] = old[at[m]]
  BY DEF IsSelection
<1> DEFINE new == Append(s, e)
           to  == [m \in 1..(Len(s) + 1) |-> IF m <= Len(s) THEN at[m] ELSE j]
<1>3. /\ Len(new) = Len(s) + 1 /\ new[Len(s) + 1] = e
      /\ \A m \in 1..Len(s) : new[m] = s[m]
  BY AppendProperties
<1> HIDE DEF new
<1>4. to \in [1..Len(new) -> S \cup {j}]
  BY <1>1, <1>3
<1>5. \A m \in 1..Len(s) : m \in 1..Len(new) /\ to[m] = at[m] /\ at[m] \in S
  BY <1>1, <1>3
<1>6. Len(s) + 1 \in 1..Len(new) /\ to[Len(s) + 1] = j
  BY <1>1, <1>3
<1>7. \A m \in 1..Len(new) : m \in 1..Len(s) \/ m = Len(s) + 1
  BY <1>1, <1>3
<1> HIDE DEF to
<1>8. \A m, n \in 1..Len(new) : m < n => to[m] < to[n]
  <2> SUFFICES ASSUME NEW m \in 1..Len(new), NEW n \in 1..Len(new), m < n
               PROVE  to[m] < to[n]
    OBVIOUS
  <2>1. m \in 1..Len(s)
    BY <1>1, <1>3
  <2>2. CASE n \in 1..Len(s)
    BY <1>2, <1>5, <2>1, <2>2
  <2>3. CASE n = Len(s) + 1
    BY <1>5, <1>6, <2>1, <2>3
  <2> QED BY <1>7, <2>2, <2>3
<1>9. \A r \in S \cup {j} : \E m \in 1..Len(new) : to[m] = r
  BY <1>2, <1>5, <1>6
<1>10. \A m \in 1..Len(new) : new[m] = old[to[m]]
  BY <1>2, <1>3, <1>5, <1>6, <1>7
<1>11. IsSelection(new, old, S \cup {j})
  BY <1>4, <1>8, <1>9, <1>10 DEF IsSelection
<1> QED BY <1>11 DEF new

\* One row of a DELETE: the row at i goes, the ones above it move down.
LEMMA KeepsDrop ==
  ASSUME NEW T, NEW s \in Seq(T), NEW old, NEW j \in 1..Len(s),
         NEW S \in SUBSET Int, Keeps(s, old, j, S)
  PROVE  Keeps(RemoveAt(s, j), old, j - 1, S \ {j})
<1>1. Len(s) \in Nat
  BY LenProperties
<1>2. PICK at \in [1..Len(s) -> S] :
        /\ \A m, n \in 1..Len(s) : m < n => at[m] < at[n]
        /\ \A r \in S : \E m \in 1..Len(s) : at[m] = r
        /\ \A m \in 1..Len(s) : s[m] = old[at[m]]
        /\ \A m \in 1..j : at[m] = m
  BY DEF Keeps
<1> DEFINE new == RemoveAt(s, j)
           to  == [m \in 1..(Len(s) - 1) |-> IF m < j THEN at[m] ELSE at[m + 1]]
<1>3. /\ Len(new) = Len(s) - 1
      /\ \A m \in 1..Len(new) : new[m] = IF m < j THEN s[m] ELSE s[m + 1]
  BY <1>1, RemoveAtFacts
<1> HIDE DEF new
<1>4. at[j] = j
  BY <1>2
<1>5. \A m \in 1..Len(s) : m # j => at[m] \in S \ {j}
  BY <1>1, <1>2, <1>4
<1>6. to \in [1..Len(new) -> S \ {j}]
  BY <1>1, <1>3, <1>5
<1>7. \A m, n \in 1..Len(new) : m < n => to[m] < to[n]
  BY <1>1, <1>2, <1>3
<1>8. \A r \in S \ {j} : \E m \in 1..Len(new) : to[m] = r
  <2> SUFFICES ASSUME NEW r \in S \ {j} PROVE \E m \in 1..Len(new) : to[m] = r
    OBVIOUS
  <2>1. PICK m \in 1..Len(s) : at[m] = r
    BY <1>2
  <2>2. m # j
    BY <1>4, <2>1
  <2>3. CASE m < j
    <3>1. m \in 1..Len(new) /\ to[m] = r
      BY <1>1, <1>3, <2>1, <2>3
    <3> QED BY <3>1
  <2>4. CASE m > j
    <3>1. m - 1 \in 1..Len(new) /\ to[m - 1] = r
      BY <1>1, <1>3, <2>1, <2>4
    <3> QED BY <3>1
  <2>5. m < j \/ m = j \/ m > j
    BY <1>1, <2>1
  <2> QED BY <2>2, <2>3, <2>4, <2>5
<1>9. \A m \in 1..Len(new) : new[m] = old[to[m]]
  BY <1>1, <1>2, <1>3
<1>10. \A m \in 1..(j - 1) : to[m] = m
  BY <1>1, <1>2
<1> HIDE DEF to
<1>11. Keeps(new, old, j - 1, S \ {j})
  BY <1>6, <1>7, <1>8, <1>9, <1>10 DEF Keeps
<1> QED BY <1>11 DEF new

\* The loops of DELETE, UPDATE and SELECT look at rows that are in the table.
LEMMA LoopFacts ==
  ASSUME IInv, pc = "scan", i \in 1..Len(rows)
  PROVE  /\ columns \in Schemas /\ rows \in Seq(Seq(Value)) /\ Len(rows) \in Nat
         /\ \A r \in 1..Len(rows) : rows[r] \in Seq(Value) /\ Len(rows[r]) = Len(columns)
         /\ stmt \in Deletes \cup Updates \cup Selects
         /\ stmt.where \in Wheres /\ ~BadWhere(stmt.where)
         /\ Selected(rows[i], stmt.where) <=> Satisfies(rows[i], stmt.where)
<1>1. /\ columns \in Schemas /\ rows \in Seq(Seq(Value)) /\ Len(rows) \in Nat
      /\ \A r \in 1..Len(rows) : rows[r] \in Seq(Value) /\ Len(rows[r]) = Len(columns)
  BY LenProperties, ElementOfSeq DEF IInv, TypeOK
<1>2. /\ stmt \in Deletes \cup Updates \cup Selects
      /\ stmt.where \in Wheres /\ ~BadWhere(stmt.where)
  BY StmtFacts DEF IInv, LoopOK, Looping
<1> QED BY <1>1, <1>2, SelectedFacts

LEMMA ScanSelectIInv ==
  ASSUME IInv, ScanSelect
  PROVE  IInv'
<1> USE DEF IInv
<1>1. /\ pc = "scan" /\ pc' = "scan" /\ i \in 1..Len(rows) /\ i' = i + 1
      /\ columns' = columns /\ rows' = rows /\ index' = index /\ found' = found
      /\ stmt' = stmt /\ stmt.op = "select" /\ count' = count
      /\ status' = status /\ status = "ok" /\ before' = before /\ rekeyed' = rekeyed
  <2>1. i \in 1..Len(rows)
    <3>1. rows \in Seq(Seq(Value))
      BY DEF TypeOK
    <3>2. Looping /\ stmt.op = "select"
      BY DEF ScanSelect, Looping
    <3> QED BY <3>1, <3>2, LenProperties DEF ScanSelect, SoFar, SelectSoFar
  <2> QED BY <2>1 DEF ScanSelect, table, StmtOK
<1>2. Looping /\ Looping' /\ stmt # NoStmt
  BY <1>1, StmtFacts DEF Looping
<1>3. /\ columns \in Schemas /\ rows \in Seq(Seq(Value)) /\ Len(rows) \in Nat
      /\ \A r \in 1..Len(rows) : rows[r] \in Seq(Value) /\ Len(rows[r]) = Len(columns)
      /\ Selected(rows[i], stmt.where) <=> Satisfies(rows[i], stmt.where)
  BY <1>1, LoopFacts
<1>4. Project(rows[i], stmt.column) \in Seq(Value)
  <2>1. rows[i] \in Seq(Value) /\ Len(rows[i]) = Len(columns)
    BY <1>1, <1>3
  <2>2. CASE stmt.column = "*"
    BY <2>1, <2>2 DEF Project
  <2>3. CASE stmt.column # "*"
    <3>1. find_column(stmt.column) \in 1..Len(rows[i])
      BY <1>1, <1>2, <1>3, <2>1, <2>3, ColumnFacts DEF LoopOK
    <3>2. rows[i][find_column(stmt.column)] \in Value
      BY <2>1, <3>1, ElementOfSeq
    <3> QED BY <2>3, <3>2 DEF Project
  <2> QED BY <2>2, <2>3
<1>5. TypeOK'
  <2>1. out' \in Seq(Seq(Value))
    <3>1. out \in Seq(Seq(Value))
      BY DEF TypeOK
    <3>2. out' = out \/ out' = Append(out, Project(rows[i], stmt.column))
      BY DEF ScanSelect
    <3>3. Append(out, Project(rows[i], stmt.column)) \in Seq(Seq(Value))
      BY <1>4, <3>1, AppendProperties
    <3> HIDE DEF IInv
    <3> QED BY <3>1, <3>2, <3>3
  <2> QED BY <1>1, <1>3, <2>1, SchemaUnchanged DEF TypeOK
<1>6. BeforeOK' /\ BoundOK' /\ FoundOK' /\ StmtOK' /\ LoopOK'
  <2>1. BeforeOK' /\ BoundOK' /\ FoundOK' /\ StmtOK'
    BY <1>1, <1>2 DEF BeforeOK, BoundOK, FoundOK, StmtOK
  <2>2. LoopOK'
    BY <1>1, <1>2, SchemaUnchanged, RowUnchanged DEF LoopOK
  <2> QED BY <2>1, <2>2
<1>7. KeysOK'
  BY <1>1, KeysUnchanged
<1>8. Untouched' /\ DeleteSoFar' /\ UpdateSoFar'
  BY <1>1 DEF SoFar, Untouched, DeleteSoFar, UpdateSoFar
<1>9. SelectSoFar'
  <2> DEFINE hits  == {r \in 1..(i - 1) : Satisfies(rows[r], stmt.where)}
             cells == [r \in 1..Len(rows) |-> Project(rows[r], stmt.column)]
  <2>1. cells' = cells /\ cells[i] = Project(rows[i], stmt.column)
    BY <1>1, RowUnchanged
  <2>2. hits' = hits \cup IF Satisfies(rows[i], stmt.where) THEN {i} ELSE {}
    <3>1. \A r : Satisfies(rows[r], stmt.where)' <=> Satisfies(rows[r], stmt.where)
      BY <1>1, RowUnchanged
    <3>2. 1..(i + 1 - 1) = (1..(i - 1)) \cup {i}
      BY <1>1
    <3> QED BY <1>1, <3>1, <3>2
  <2>3. IsSelection(out, cells, hits)
    BY <1>1, <1>2 DEF SoFar, SelectSoFar
  <2>4. hits \in SUBSET Int /\ \A r \in hits : r < i
    BY <1>1
  <2> HIDE DEF hits, cells
  <2>5. IsSelection(out, cells, hits)'
    <3>1. CASE Satisfies(rows[i], stmt.where)
      <4>1. out' = Append(out, Project(rows[i], stmt.column))
        BY <1>3, <3>1 DEF ScanSelect
      <4>2. hits' = hits \cup {i}
        BY <2>2, <3>1
      <4>3. out \in Seq(Seq(Value)) /\ i \in Int
        BY <1>1 DEF TypeOK
      <4>4. IsSelection(Append(out, Project(rows[i], stmt.column)), cells, hits \cup {i})
        BY <1>4, <2>1, <2>3, <2>4, <4>3, SelectionAppend
      <4> QED BY <2>1, <4>1, <4>2, <4>4
    <3>2. CASE ~Satisfies(rows[i], stmt.where)
      <4>1. out' = out /\ hits' = hits
        BY <1>3, <2>2, <3>2 DEF ScanSelect
      <4> QED BY <2>1, <2>3, <4>1
    <3> QED BY <3>1, <3>2
  <2>6. i' \in 1..(Len(rows') + 1)
    BY <1>1, <1>3
  <2> QED BY <1>1, <2>5, <2>6 DEF SelectSoFar, hits, cells
<1> QED BY <1>5, <1>6, <1>7, <1>8, <1>9 DEF SoFar

\* Overwriting a cell leaves the keys in order, or marks the table rekeyed.
LEMMA SetCellKeys ==
  ASSUME KeysOK, columns \in Schemas, columns' = columns, rows \in Seq(Seq(Value)),
         \A r \in 1..Len(rows) : rows[r] \in Seq(Value) /\ Len(rows[r]) = Len(columns),
         i \in 1..Len(rows), NEW c \in 1..Len(columns), NEW v \in Value, SetCell(c, v)
  PROVE  KeysOK'
<1>1. CASE c = primary_key_index
  <2>1. rekeyed'
    BY <1>1 DEF SetCell
  <2> QED BY <2>1 DEF KeysOK, KeysUniqueUntilRekeyed, IndexKeysExact
<1>2. CASE c # primary_key_index
  <2>1. rows' = [rows EXCEPT ![i][c] = v] /\ index' = index /\ (rekeyed' <=> rekeyed)
    BY <1>2 DEF SetCell
  <2>2. Len(rows') = Len(rows)
    BY <2>1
  <2>3. ASSUME NEW r \in 1..Len(rows), primary_key_index > 0
        PROVE  rows'[r][primary_key_index] = rows[r][primary_key_index]
    <3>1. primary_key_index \in 1..Len(columns)
      BY <2>3, ColumnFacts
    <3> QED BY <1>2, <2>1, <3>1
  <2>4. \A r \in 1..Len(rows) : /\ HasIntKey(rows[r])' <=> HasIntKey(rows[r])
                                /\ HasIntKey(rows[r]) => KeyOf(rows[r])' = KeyOf(rows[r])
    BY <2>3, SchemaUnchanged DEF HasIntKey, KeyOf
  <2>5. KeyedRows' = KeyedRows
    BY <2>2, <2>4 DEF KeyedRows
  <2>6. \A r \in KeyedRows : KeyOf(rows[r])' = KeyOf(rows[r])
    BY <2>4 DEF KeyedRows
  <2>7. IntKeys' = IntKeys
    BY <2>5, <2>6 DEF IntKeys
  <2>8. KeysUnique' <=> KeysUnique
    BY <2>5, <2>6 DEF KeysUnique
  <2> QED BY <2>1, <2>7, <2>8 DEF KeysOK, KeysUniqueUntilRekeyed, IndexKeysExact
<1> QED BY <1>1, <1>2

\* The count of an UPDATE: one more row before the loop variable.
LEMMA CountFacts ==
  ASSUME NEW n \in Nat \ {0}, NEW S \in SUBSET (1..n)
  PROVE  LET before_n == S \cap 1..(n - 1)
         IN  Cardinality(S) = IF n \in S THEN Cardinality(before_n) + 1
                                         ELSE Cardinality(before_n)
<1> DEFINE low == S \cap 1..(n - 1)
<1>1. IsFiniteSet(low)
  <2>1. IsFiniteSet(1..(n - 1))
    BY FS_Interval
  <2> QED BY <2>1, FS_Subset
<1>2. n \notin low /\ S = IF n \in S THEN low \cup {n} ELSE low
  <2>1. \A r \in S : r \in low \/ r = n
    OBVIOUS
  <2>2. low \subseteq S /\ n \notin 1..(n - 1)
    OBVIOUS
  <2> QED BY <2>1, <2>2
<1> HIDE DEF low
<1>3. Cardinality(low \cup {n}) = Cardinality(low) + 1
  BY <1>1, <1>2, FS_AddElement
<1> QED BY <1>2, <1>3 DEF low

LEMMA ScanUpdateIInv ==
  ASSUME IInv, ScanUpdate
  PROVE  IInv'
<1> USE DEF IInv
<1> DEFINE c == find_column(stmt.column)
           v == ValueOf(stmt.value)
           hit(r) == Satisfies(before.rows[r], stmt.where)
           hits == {r \in 1..(i - 1) : hit(r)}
<1>1. /\ pc = "scan" /\ pc' = "scan" /\ stmt.op = "update" /\ i <= Len(rows)
      /\ i' = i + 1 /\ columns' = columns /\ stmt' = stmt /\ out' = out
      /\ status' = status /\ status = "ok" /\ before' = before
  BY DEF ScanUpdate, StmtOK
<1>2. Looping /\ Looping' /\ stmt # NoStmt
  BY <1>1, StmtFacts DEF Looping
<1>3. /\ Len(rows) = Len(before.rows) /\ i \in 1..(Len(rows) + 1)
      /\ \A r \in 1..Len(rows) :
           rows[r] = IF r < i /\ hit(r) THEN [before.rows[r] EXCEPT ![c] = v]
                                        ELSE before.rows[r]
      /\ count = Cardinality(hits)
  BY <1>1, <1>2 DEF SoFar, UpdateSoFar
<1>4. i \in 1..Len(rows) /\ Len(rows) \in Nat
  <2>1. Len(rows) \in Nat
    BY LenProperties DEF TypeOK
  <2> QED BY <1>1, <1>3, <2>1
<1>5. /\ columns \in Schemas /\ rows \in Seq(Seq(Value))
      /\ \A r \in 1..Len(rows) : rows[r] \in Seq(Value) /\ Len(rows[r]) = Len(columns)
      /\ stmt \in Updates
      /\ Selected(rows[i], stmt.where) <=> Satisfies(rows[i], stmt.where)
  BY <1>1, <1>4, LoopFacts, StmtFacts
<1>6. Selected(rows[i], stmt.where) <=> hit(i)
  <2>1. ~(i < i)
    BY <1>4
  <2>2. rows[i] = before.rows[i]
    BY <1>3, <1>4, <2>1
  <2> QED BY <1>5, <2>2
<1>7. c \in 1..Len(columns) /\ v \in Value
  BY <1>1, <1>2, <1>5, ColumnFacts, StmtFacts, ValueFacts, LiteralsAssumption DEF LoopOK
<1>8. /\ c' = c /\ v' = v /\ \A r : hit(r)' <=> hit(r)
  BY <1>1, SchemaUnchanged, RowUnchanged
<1> HIDE DEF c, v, hit
<1> DEFINE changed == \A r \in 1..Len(rows') :
                        rows'[r] = IF r < i' /\ hit(r)'
                                   THEN [before'.rows[r] EXCEPT ![c'] = v']
                                   ELSE before'.rows[r]
           after == /\ TypeOK' /\ BoundOK' /\ KeysOK' /\ Len(rows') = Len(rows)
                    /\ count' = IF hit(i) THEN Cardinality(hits) + 1
                                          ELSE Cardinality(hits)
                    /\ changed
<1>9. ASSUME hit(i) PROVE after
  <2>1. SetCell(c, v)
    BY <1>6, <1>9 DEF ScanUpdate, c, v
  <2>2. rows' = [rows EXCEPT ![i] = [rows[i] EXCEPT ![c] = v]] /\ count' = count + 1
    BY <2>1 DEF SetCell
  <2>3. [rows[i] EXCEPT ![c] = v] \in Seq(Value) /\ Len([rows[i] EXCEPT ![c] = v]) = Len(columns)
    BY <1>4, <1>5, <1>7, ExceptSeq
  <2>4. /\ rows' \in Seq(Seq(Value)) /\ Len(rows') = Len(rows)
        /\ \A r \in 1..Len(rows') : Len(rows'[r]) = Len(columns)
    BY <1>4, <1>5, <2>2, <2>3, ExceptSeq
  <2>5. /\ index' \in [Ints -> RowIds \cup {NoRow}]
        /\ found' \in [ok : BOOLEAN, row : RowIds \cup {NoRow}]
        /\ rekeyed' \in BOOLEAN
    <3>1. i - 1 \in RowIds
      <4>1. i - 1 \in 0..(MaxRows[columns] - 1)
        BY <1>4, <1>5, RowIdFacts DEF BoundOK
      <4> QED BY <1>5, <4>1, RowIdFacts
    <3>2. \/ index' = index /\ found' = found
          \/ \E k : index' = [index EXCEPT ![k] = i - 1] /\ found' = Idx!Void
      BY <2>1 DEF SetCell, Idx!Insert
    <3>3. rekeyed' \in BOOLEAN
      BY <2>1 DEF SetCell
    <3>4. Idx!Void \in [ok : BOOLEAN, row : RowIds \cup {NoRow}]
      BY DEF Idx!Void
    <3>5. \A k : [index EXCEPT ![k] = i - 1] \in [Ints -> RowIds \cup {NoRow}]
      BY <3>1 DEF TypeOK
    <3>6. /\ index \in [Ints -> RowIds \cup {NoRow}]
          /\ found \in [ok : BOOLEAN, row : RowIds \cup {NoRow}]
      BY DEF TypeOK
    <3> HIDE DEF IInv
    <3> QED BY <3>2, <3>3, <3>4, <3>5, <3>6
  <2>6. TypeOK'
    BY <1>1, <1>4, <2>2, <2>4, <2>5, SchemaUnchanged DEF TypeOK
  <2>7. BoundOK'
    BY <1>1, <2>4 DEF BoundOK
  <2>8. KeysOK'
    BY <1>1, <1>4, <1>5, <1>7, <2>1, SetCellKeys
  <2>9. changed
    <3> SUFFICES ASSUME NEW r \in 1..Len(rows)
                 PROVE  rows'[r] = IF r < i + 1 /\ hit(r)
                                   THEN [before.rows[r] EXCEPT ![c] = v]
                                   ELSE before.rows[r]
      BY <1>1, <1>8, <2>4
    <3>1. CASE r = i
      <4>1. ~(i < i) /\ i < i + 1
        BY <1>4
      <4>2. rows[i] = before.rows[i]
        BY <1>3, <1>4, <4>1
      <4> QED BY <1>4, <1>5, <1>9, <2>2, <3>1, <4>1, <4>2
    <3>2. CASE r # i
      <4>1. (r < i + 1) <=> (r < i)
        BY <1>4, <3>2
      <4>2. rows'[r] = rows[r]
        BY <1>5, <2>2, <3>2
      <4> QED BY <1>3, <4>1, <4>2
    <3> QED BY <3>1, <3>2
  <2>10. count' = Cardinality(hits) + 1
    BY <1>3, <2>2
  <2> HIDE DEF changed, hits
  <2> QED BY <1>9, <2>4, <2>6, <2>7, <2>8, <2>9, <2>10
<1>10. ASSUME ~hit(i) PROVE after
  <2>1. /\ rows' = rows /\ index' = index /\ found' = found
        /\ count' = count /\ rekeyed' = rekeyed
    BY <1>6, <1>10 DEF ScanUpdate
  <2>2. TypeOK'
    BY <1>1, <1>4, <2>1, SchemaUnchanged DEF TypeOK
  <2>3. BoundOK' /\ KeysOK'
    BY <1>1, <2>1, KeysUnchanged DEF BoundOK
  <2>4. changed
    <3> SUFFICES ASSUME NEW r \in 1..Len(rows)
                 PROVE  rows[r] = IF r < i + 1 /\ hit(r)
                                  THEN [before.rows[r] EXCEPT ![c] = v]
                                  ELSE before.rows[r]
      BY <1>1, <1>8, <2>1
    <3>1. (r < i + 1 /\ hit(r)) <=> (r < i /\ hit(r))
      BY <1>4, <1>10
    <3> QED BY <1>3, <3>1
  <2> HIDE DEF changed, hits
  <2> QED BY <1>3, <1>10, <2>1, <2>2, <2>3, <2>4
<1>11. after
  <2> HIDE DEF after
  <2> QED BY <1>9, <1>10
<1>12. count' = Cardinality(hits')
  <2>1. i - 1 + 1 = i /\ i \in Nat \ {0} /\ 1..(i' - 1) = 1..i
    BY <1>1, <1>4
  <2>2. hits' = {r \in 1..i : hit(r)}
    BY <1>8, <2>1
  <2>3. hits = hits' \cap 1..(i - 1) /\ hits' \in SUBSET (1..i)
    BY <1>4, <2>2
  <2>4. i \in hits' <=> hit(i)
    BY <2>1, <2>2
  <2> HIDE DEF hits
  <2>5. Cardinality(hits') = IF i \in hits' THEN Cardinality(hits) + 1
                                            ELSE Cardinality(hits)
    BY <2>1, <2>3, CountFacts
  <2> QED BY <1>11, <2>4, <2>5
<1>13. UpdateSoFar'
  <2>1. Len(rows') = Len(before'.rows) /\ i' \in 1..(Len(rows') + 1) /\ pc' # "done"
    BY <1>1, <1>3, <1>4, <1>11
  <2> QED BY <1>11, <1>12, <2>1 DEF UpdateSoFar, c, v, hit
<1>14. BeforeOK' /\ FoundOK' /\ StmtOK'
  BY <1>1, <1>2 DEF BeforeOK, FoundOK, StmtOK
<1>15. LoopOK'
  BY <1>1, <1>2, SchemaUnchanged, RowUnchanged DEF LoopOK
<1>16. Untouched' /\ DeleteSoFar' /\ SelectSoFar'
  BY <1>1 DEF Untouched, DeleteSoFar, SelectSoFar
<1> QED BY <1>11, <1>13, <1>14, <1>15, <1>16 DEF SoFar

\* Removing a row together with its key leaves the keys in order: the rows above
\* it move down, and no other row had its key.
LEMMA RemovedKeys ==
  ASSUME KeysOK, columns \in Schemas, columns' = columns, rows \in Seq(Seq(Value)),
         \A r \in 1..Len(rows) : rows[r] \in Seq(Value) /\ Len(rows[r]) = Len(columns),
         index \in [Ints -> RowIds \cup {NoRow}], rekeyed' = rekeyed,
         i \in 1..Len(rows), rows' = RemoveAt(rows, i), DropKey(rows[i])
  PROVE  KeysOK'
<1> DEFINE n == Len(rows)
           from(r) == IF r < i THEN r ELSE r + 1
<1>1. /\ n \in Nat /\ Len(rows') = n - 1
      /\ \A r \in 1..(n - 1) : rows'[r] = rows[from(r)]
  <2>1. n \in Nat
    BY LenProperties
  <2>2. /\ Len(RemoveAt(rows, i)) = n - 1
        /\ \A r \in 1..(n - 1) :
             RemoveAt(rows, i)[r] = IF r < i THEN rows[r] ELSE rows[r + 1]
    BY RemoveAtFacts
  <2> QED BY <2>1, <2>2
<1>2. \A r \in 1..(n - 1) : from(r) \in 1..n /\ from(r) # i
  BY <1>1
<1>3. \A r, q \in 1..(n - 1) : from(r) = from(q) => r = q
  BY <1>1
<1>4. \A q \in 1..n : q # i => \E r \in 1..(n - 1) : from(r) = q
  <2> SUFFICES ASSUME NEW q \in 1..n, q # i
               PROVE  \E r \in 1..(n - 1) : from(r) = q
    OBVIOUS
  <2>1. CASE q < i
    <3>1. q \in 1..(n - 1) /\ from(q) = q
      BY <1>1, <2>1
    <3> QED BY <3>1
  <2>2. CASE q > i
    <3>1. q - 1 \in 1..(n - 1) /\ from(q - 1) = q
      BY <1>1, <2>2
    <3> QED BY <3>1
  <2>3. q < i \/ q > i
    BY <1>1
  <2> QED BY <2>1, <2>2, <2>3
<1> HIDE DEF n, from
<1>5. \A r \in 1..(n - 1) : /\ HasIntKey(rows[r])' <=> HasIntKey(rows[from(r)])
                            /\ KeyOf(rows[r])' = KeyOf(rows[from(r)])
  BY <1>1, RowUnchanged
<1>6. KeyedRows' = {r \in 1..(n - 1) : HasIntKey(rows[from(r)])}
  BY <1>1, <1>5 DEF KeyedRows
<1>7. /\ \A r \in KeyedRows' : r \in 1..(n - 1) /\ from(r) \in KeyedRows \ {i}
      /\ \A q \in KeyedRows \ {i} : \E r \in KeyedRows' : from(r) = q
  BY <1>2, <1>4, <1>6 DEF KeyedRows, n
<1>8. IntKeys' = {KeyOf(rows[q]) : q \in KeyedRows \ {i}}
  <2>1. \A r \in KeyedRows' : KeyOf(rows[r])' = KeyOf(rows[from(r)])
    BY <1>5, <1>7
  <2>2. IntKeys' = {KeyOf(rows[from(r)]) : r \in KeyedRows'}
    BY <2>1 DEF IntKeys
  <2> QED BY <1>7, <2>2
<1>9. \A q \in KeyedRows : KeyOf(rows[q]) \in Ints
  BY KeyFacts DEF KeyedRows
<1>10. SUFFICES ASSUME ~rekeyed
                PROVE  /\ KeysUnique'
                       /\ \A k \in IntKeys' : index'[k] # NoRow
                       /\ \A k \in Ints \ {0} : index'[k] # NoRow => k \in IntKeys'
  BY DEF KeysOK, KeysUniqueUntilRekeyed, IndexKeysExact
<1>11. /\ KeysUnique /\ \A k \in IntKeys : index[k] # NoRow
       /\ \A k \in Ints \ {0} : index[k] # NoRow => k \in IntKeys
  BY <1>10 DEF KeysOK, KeysUniqueUntilRekeyed, IndexKeysExact
<1>12. KeysUnique'
  BY <1>3, <1>5, <1>7, <1>11 DEF KeysUnique
<1>13. CASE HasIntKey(rows[i])
  <2> DEFINE k0 == KeyOf(rows[i])
  <2>1. i \in KeyedRows /\ k0 \in Ints
    BY <1>9, <1>13 DEF KeyedRows
  <2>2. index' = [index EXCEPT ![k0] = NoRow]
    BY <1>13 DEF DropKey, Idx!Remove
  <2>3. \A q \in KeyedRows \ {i} : KeyOf(rows[q]) # k0
    BY <1>11, <2>1 DEF KeysUnique
  <2> HIDE DEF k0
  <2>4. \A k \in Ints : index'[k] = IF k = k0 THEN NoRow ELSE index[k]
    BY <2>2
  <2>5. \A k \in IntKeys' : k \in IntKeys /\ k # k0 /\ k \in Ints
    BY <1>8, <1>9, <2>3 DEF IntKeys
  <2>6. \A k \in IntKeys : k # k0 => k \in IntKeys'
    BY <1>8 DEF IntKeys, k0
  <2> QED BY <1>11, <1>12, <2>4, <2>5, <2>6
<1>14. CASE ~HasIntKey(rows[i])
  <2>1. index' = index
    BY <1>14 DEF DropKey
  <2>2. KeyedRows \ {i} = KeyedRows
    BY <1>14 DEF KeyedRows
  <2>3. IntKeys' = IntKeys
    BY <1>8, <2>2 DEF IntKeys
  <2> QED BY <1>11, <1>12, <2>1, <2>3
<1> QED BY <1>13, <1>14

LEMMA ScanDeleteIInv ==
  ASSUME IInv, ScanDelete
  PROVE  IInv'
<1> USE DEF IInv
<1> DEFINE hit(r) == Satisfies(before.rows[r], stmt.where)
           left == {r \in 1..Len(before.rows) : r > i => ~hit(r)}
<1>1. /\ pc = "scan" /\ pc' = "scan" /\ stmt.op = "delete" /\ i >= 1 /\ i \in Nat
      /\ i' = i - 1 /\ columns' = columns /\ stmt' = stmt /\ out' = out
      /\ status' = status /\ status = "ok" /\ before' = before /\ rekeyed' = rekeyed
  BY DEF ScanDelete, StmtOK, TypeOK
<1>2. Looping /\ Looping' /\ stmt # NoStmt
  BY <1>1, StmtFacts DEF Looping
<1>3. /\ i <= Len(rows) /\ Len(rows) <= Len(before.rows)
      /\ Keeps(rows, before.rows, i, left) /\ count = Len(before.rows) - Len(rows)
  BY <1>1, <1>2 DEF SoFar, DeleteSoFar
<1>4. /\ Len(rows) \in Nat /\ Len(before.rows) \in Nat
      /\ i \in 1..Len(rows) /\ i \in 1..Len(before.rows)
  <2>1. Len(rows) \in Nat /\ Len(before.rows) \in Nat
    BY LenProperties DEF TypeOK
  <2> QED BY <1>1, <1>3, <2>1
<1>5. /\ columns \in Schemas /\ rows \in Seq(Seq(Value))
      /\ \A r \in 1..Len(rows) : rows[r] \in Seq(Value) /\ Len(rows[r]) = Len(columns)
      /\ Selected(rows[i], stmt.where) <=> Satisfies(rows[i], stmt.where)
  BY <1>1, <1>4, LoopFacts
<1>6. Selected(rows[i], stmt.where) <=> hit(i)
  <2>1. rows[i] = before.rows[i]
    BY <1>3, <1>4 DEF Keeps
  <2> QED BY <1>5, <2>1
<1>7. \A r : hit(r)' <=> hit(r)
  BY <1>1, RowUnchanged
<1>8. left' = IF hit(i) THEN left \ {i} ELSE left
  <2> HIDE DEF hit
  <2>1. \A r \in 1..Len(before.rows) : (r > i - 1) <=> (r > i \/ r = i)
    BY <1>4
  <2>2. \A r \in 1..Len(before.rows) : r > i => r # i
    BY <1>4
  <2> QED BY <1>1, <1>4, <1>7, <2>1, <2>2
<1>9. left \in SUBSET Int
  OBVIOUS
<1> DEFINE after == /\ TypeOK' /\ BoundOK' /\ KeysOK'
                    /\ i' <= Len(rows') /\ Len(rows') <= Len(before.rows)
                    /\ Keeps(rows', before.rows, i', left')
                    /\ count' = Len(before.rows) - Len(rows')
<1> HIDE DEF hit, left
<1>10. ASSUME hit(i) PROVE after
  <2>1. rows' = RemoveAt(rows, i) /\ count' = count + 1 /\ DropKey(rows[i])
    BY <1>6, <1>10 DEF ScanDelete
  <2>2. /\ rows' \in Seq(Seq(Value)) /\ Len(rows') = Len(rows) - 1
        /\ \A r \in 1..(Len(rows) - 1) :
             rows'[r] = IF r < i THEN rows[r] ELSE rows[r + 1]
    BY <1>4, <1>5, <2>1, RemoveAtFacts
  <2>3. \A r \in 1..Len(rows') : Len(rows'[r]) = Len(columns)
    <3>1. \A r \in 1..(Len(rows) - 1) : r \in 1..Len(rows) /\ r + 1 \in 1..Len(rows)
      BY <1>4
    <3> HIDE DEF IInv
    <3> QED BY <1>5, <2>2, <3>1
  <2>4. /\ index' \in [Ints -> RowIds \cup {NoRow}]
        /\ found' \in [ok : BOOLEAN, row : RowIds \cup {NoRow}]
    <3>1. CASE HasIntKey(rows[i])
      <4> DEFINE b == index[KeyOf(rows[i])] # NoRow
      <4>1. /\ index' = [index EXCEPT ![KeyOf(rows[i])] = NoRow]
            /\ found' = [ok |-> b, row |-> NoRow] /\ b \in BOOLEAN
        BY <2>1, <3>1 DEF DropKey, Idx!Remove
      <4>2. index \in [Ints -> RowIds \cup {NoRow}]
        BY DEF TypeOK
      <4> HIDE DEF b, IInv
      <4> QED BY <4>1, <4>2
    <3>2. CASE ~HasIntKey(rows[i])
      BY <2>1, <3>2 DEF DropKey, TypeOK
    <3> QED BY <3>1, <3>2
  <2>5. count' \in Nat /\ i' \in Nat
    BY <1>1, <2>1 DEF TypeOK
  <2>6. TypeOK'
    BY <1>1, <2>2, <2>3, <2>4, <2>5, SchemaUnchanged DEF TypeOK
  <2>7. BoundOK'
    BY <1>1, <1>4, <1>5, <2>2, RowIdFacts DEF BoundOK
  <2>8. KeysOK'
    BY <1>1, <1>4, <1>5, <2>1, RemovedKeys DEF TypeOK
  <2>9. Keeps(rows', before.rows, i', left')
    BY <1>1, <1>3, <1>4, <1>5, <1>8, <1>9, <1>10, <2>1, KeepsDrop
  <2>10. /\ i' <= Len(rows') /\ Len(rows') <= Len(before.rows)
         /\ count' = Len(before.rows) - Len(rows')
    BY <1>1, <1>3, <1>4, <2>1, <2>2
  <2> QED BY <2>6, <2>7, <2>8, <2>9, <2>10
<1>11. ASSUME ~hit(i) PROVE after
  <2>1. rows' = rows /\ index' = index /\ found' = found /\ count' = count
    BY <1>6, <1>11 DEF ScanDelete
  <2>2. TypeOK'
    BY <1>1, <2>1, SchemaUnchanged DEF TypeOK
  <2>3. BoundOK' /\ KeysOK'
    BY <1>1, <2>1, KeysUnchanged DEF BoundOK
  <2>4. Keeps(rows', before.rows, i', left')
    <3>1. Keeps(rows, before.rows, i - 1, left)
      BY <1>1, <1>3 DEF Keeps
    <3> QED BY <1>1, <1>8, <1>11, <2>1, <3>1
  <2> QED BY <1>1, <1>3, <1>4, <2>1, <2>2, <2>3, <2>4
<1>12. after
  <2> HIDE DEF after
  <2> QED BY <1>10, <1>11
<1>13. DeleteSoFar'
  <2>1. /\ i' <= Len(rows') /\ Len(rows') <= Len(before'.rows) /\ pc' # "done"
        /\ count' = Len(before'.rows) - Len(rows')
        /\ Keeps(rows, before.rows, i, left)'
    BY <1>1, <1>12
  <2> QED BY <2>1 DEF DeleteSoFar, left, hit
<1>14. BeforeOK' /\ FoundOK' /\ StmtOK'
  BY <1>1, <1>2 DEF BeforeOK, FoundOK, StmtOK
<1>15. LoopOK'
  BY <1>1, <1>2, SchemaUnchanged, RowUnchanged DEF LoopOK
<1>16. Untouched' /\ UpdateSoFar' /\ SelectSoFar'
  BY <1>1 DEF Untouched, UpdateSoFar, SelectSoFar
<1> QED BY <1>12, <1>13, <1>14, <1>15, <1>16 DEF SoFar

LEMMA StutterIInv ==
  ASSUME IInv, UNCHANGED vars
  PROVE  IInv'
<1>1. /\ columns' = columns /\ rows' = rows /\ index' = index /\ found' = found
      /\ pc' = pc /\ stmt' = stmt /\ i' = i /\ count' = count /\ out' = out
      /\ status' = status /\ before' = before /\ rekeyed' = rekeyed
  BY DEF vars
<1>2. (Looping' <=> Looping) /\ NewRow' = NewRow
  BY <1>1 DEF Looping, NewRow
<1>3. TypeOK' /\ BeforeOK' /\ BoundOK' /\ StmtOK'
  BY <1>1, SchemaUnchanged DEF IInv, TypeOK, BeforeOK, BoundOK, StmtOK
<1>4. LoopOK' /\ FoundOK'
  BY <1>1, <1>2, SchemaUnchanged, RowUnchanged DEF IInv, LoopOK, FoundOK
<1>5. KeysOK'
  BY <1>1, KeysUnchanged DEF IInv
<1>6. Untouched' /\ DeleteSoFar' /\ UpdateSoFar' /\ SelectSoFar'
  <2>1. find_column(stmt.column)' = find_column(stmt.column)
    BY <1>1 DEF find_column, SelectInSeq
  <2>2. \A row : /\ Satisfies(row, stmt.where)' <=> Satisfies(row, stmt.where)
                 /\ Project(row, stmt.column)' = Project(row, stmt.column)
    BY <1>1 DEF Satisfies, Project, find_column, SelectInSeq
  <2>3. Untouched'
    BY <1>1 DEF IInv, SoFar, Untouched
  <2>4. DeleteSoFar'
    BY <1>1, <1>2, <2>2 DEF IInv, SoFar, DeleteSoFar
  <2>5. UpdateSoFar'
    BY <1>1, <1>2, <2>1, <2>2 DEF IInv, SoFar, UpdateSoFar
  <2>6. SelectSoFar'
    BY <1>1, <1>2, <2>2 DEF IInv, SoFar, SelectSoFar
  <2> QED BY <2>3, <2>4, <2>5, <2>6
<1> QED BY <1>3, <1>4, <1>5, <1>6 DEF IInv, SoFar

LEMMA StepIInv == IInv /\ [Next]_vars => IInv'
<1> SUFFICES ASSUME IInv, [Next]_vars PROVE IInv'
  OBVIOUS
<1>1. CASE \E s \in Inserts : BeginInsert(s)
  BY <1>1, BeginInsertIInv
<1>2. CASE \E s \in Deletes : BeginDelete(s)
  BY <1>2, BeginDeleteIInv
<1>3. CASE \E s \in Updates : BeginUpdate(s)
  BY <1>3, BeginUpdateIInv
<1>4. CASE \E s \in Selects : BeginSelect(s)
  BY <1>4, BeginSelectIInv
<1>5. CASE CheckKey
  BY <1>5, CheckKeyIInv
<1>6. CASE StoreRow
  BY <1>6, StoreRowIInv
<1>7. CASE ScanDelete
  BY <1>7, ScanDeleteIInv
<1>8. CASE ScanUpdate
  BY <1>8, ScanUpdateIInv
<1>9. CASE ScanSelect
  BY <1>9, ScanSelectIInv
<1>10. CASE EndLoop
  BY <1>10, EndLoopIInv
<1>11. CASE Return
  BY <1>11, ReturnIInv
<1>12. CASE UNCHANGED vars
  BY <1>12, StutterIInv
<1> QED BY <1>1, <1>2, <1>3, <1>4, <1>5, <1>6, <1>7, <1>8, <1>9, <1>10, <1>11, <1>12
        DEF Next, Step

LEMMA Invariance == Spec => []IInv
BY InitIInv, StepIInv, PTL DEF Spec

-----------------------------------------------------------------------------
(***************************************************************************)
(* The theorems                                                            *)
(***************************************************************************)

\* Whatever the schema and the statements, every row keeps a cell for every
\* column: the unchecked get_value calls of DELETE, UPDATE and SELECT stay in
\* bounds, atoi's results are ints and the index holds row ids of the table.
THEOREM TypeCorrect == Spec => []TypeOK
<1>1. IInv => TypeOK
  BY DEF IInv
<1> QED BY <1>1, Invariance, PTL

\* No two rows share an int primary key, as long as no UPDATE has written the
\* primary-key column: INSERT's check of the index is enough.
THEOREM KeysStayUnique == Spec => []KeysUniqueUntilRekeyed
<1>1. IInv => KeysUniqueUntilRekeyed
  BY DEF IInv, KeysOK
<1> QED BY <1>1, Invariance, PTL

\* And that check looks at an index with exactly the int keys of the rows, but
\* for key 0, whatever was inserted and deleted before.
THEOREM IndexStaysExact == Spec => []IndexKeysExact
<1>1. IInv => IndexKeysExact
  BY DEF IInv, KeysOK
<1> QED BY <1>1, Invariance, PTL

LEMMA LoopsDone == IInv => DoesWhatItSays
<1> SUFFICES ASSUME IInv PROVE DoesWhatItSays
  OBVIOUS
<1>1. Len(rows) \in Nat /\ Len(before.rows) \in Nat
  BY LenProperties DEF IInv, TypeOK
<1>2. ASSUME NEW op \in {"delete", "update", "select"}, Finished(op)
      PROVE  Looping /\ stmt.op = op /\ pc = "done"
  BY <1>2 DEF Finished, Looping
<1>3. DeleteExact
  <2> SUFFICES ASSUME Finished("delete")
               PROVE  /\ IsSelection(rows, before.rows,
                           {r \in 1..Len(before.rows) :
                              ~Satisfies(before.rows[r], stmt.where)})
                      /\ count = Len(before.rows) - Len(rows)
    BY DEF DeleteExact
  <2> DEFINE hit(r) == Satisfies(before.rows[r], stmt.where)
             left == {r \in 1..Len(before.rows) : r > i => ~hit(r)}
             kept == {r \in 1..Len(before.rows) : ~hit(r)}
  <2>1. /\ i = 0 /\ Keeps(rows, before.rows, i, left)
        /\ count = Len(before.rows) - Len(rows)
    BY <1>2 DEF IInv, SoFar, DeleteSoFar
  <2> HIDE DEF hit
  <2>2. left = kept
    BY <1>1, <2>1
  <2>3. IsSelection(rows, before.rows, left)
    BY <2>1 DEF Keeps, IsSelection
  <2> HIDE DEF left, kept
  <2>4. IsSelection(rows, before.rows, kept)
    BY <2>2, <2>3
  <2> QED BY <2>1, <2>4 DEF kept, hit
<1>4. UpdateExact
  <2> SUFFICES ASSUME Finished("update") PROVE UpdateExact
    BY DEF UpdateExact
  <2> DEFINE hit(r) == Satisfies(before.rows[r], stmt.where)
  <2>1. /\ i = Len(rows) + 1 /\ Len(rows) = Len(before.rows)
        /\ \A r \in 1..Len(rows) :
             rows[r] = IF r < i /\ hit(r)
                       THEN [before.rows[r] EXCEPT
                               ![find_column(stmt.column)] = ValueOf(stmt.value)]
                       ELSE before.rows[r]
        /\ count = Cardinality({r \in 1..(i - 1) : hit(r)})
    BY <1>2 DEF IInv, SoFar, UpdateSoFar
  <2>2. i - 1 = Len(rows) /\ \A r \in 1..Len(rows) : r < i
    BY <1>1, <2>1
  <2> HIDE DEF hit
  <2>3. /\ \A r \in 1..Len(rows) :
             rows[r] = IF hit(r) THEN [before.rows[r] EXCEPT
                               ![find_column(stmt.column)] = ValueOf(stmt.value)]
                       ELSE before.rows[r]
        /\ count = Cardinality({r \in 1..Len(rows) : hit(r)})
    BY <2>1, <2>2
  <2> QED BY <2>1, <2>3 DEF UpdateExact, hit
<1>5. SelectExact
  <2> SUFFICES ASSUME Finished("select") PROVE SelectExact
    BY DEF SelectExact
  <2>1. /\ i = Len(rows) + 1
        /\ IsSelection(out, [r \in 1..Len(rows) |-> Project(rows[r], stmt.column)],
                       {r \in 1..(i - 1) : Satisfies(rows[r], stmt.where)})
    BY <1>2 DEF IInv, SoFar, SelectSoFar
  <2>2. i - 1 = Len(rows)
    BY <1>1, <2>1
  <2> QED BY <2>1, <2>2 DEF SelectExact
<1>6. FailureChangesNothing
  BY DEF FailureChangesNothing, IInv, SoFar, Untouched
<1> QED BY <1>3, <1>4, <1>5, <1>6 DEF DoesWhatItSays

\* DELETE removes, UPDATE changes and SELECT returns exactly the rows their
\* condition named when they started, although DELETE shifts the rows and
\* UPDATE may write the very column the condition reads; a statement that fails
\* changes nothing.
THEOREM StatementsExact == Spec => []DoesWhatItSays
BY LoopsDone, Invariance, PTL
=============================================================================
