----------------------------- MODULE TableFile -----------------------------
(***************************************************************************)
(* storage/table.cpp: a table written to its file and read back, character *)
(* by character.  The process may be killed while it writes, which leaves  *)
(* any beginning of the text.  A table that was read is written and read   *)
(* once more.                                                              *)
(***************************************************************************)
EXTENDS Integers, SequencesExt

CONSTANTS
  Tables,   \* the tables to write: columns, and rows of values
  LineMax   \* sizeof(line_buf)

Separator == "|"
Newline   == "\n"
Return    == "\r"
Tab       == "\t"
Space     == " "
Blanks    == {Space, Tab, Newline, Return}

DigitChars == <<"0", "1", "2", "3", "4", "5", "6", "7", "8", "9">>
IsDigit(c) == c \in Range(DigitChars)

IntValue(n)    == [is_int |-> TRUE, val |-> n]
StringValue(s) == [is_int |-> FALSE, val |-> s]

ASSUME LineAssumption == LineMax \in Nat \ {0, 1}

VARIABLES
  saved,      \* the table in memory when it was written
  file,       \* the text in the file
  whole,      \* history: the text was written to its end
  table,      \* the Table object load_from_file fills
  pc,         \* "memory", "file", "columns", "rows", "loaded", "failed"
  at,         \* position in the file
  col_cnt, row_cnt,
  trip        \* how often the table was written

vars == <<saved, file, whole, table, pc, at, col_cnt, row_cnt, trip>>

NoTable == [columns |-> <<>>, rows |-> <<>>]

Init ==
  /\ saved \in Tables
  /\ file = <<>> /\ whole = FALSE
  /\ table = NoTable
  /\ pc = "memory" /\ at = 0 /\ col_cnt = 0 /\ row_cnt = 0 /\ trip = 1

-----------------------------------------------------------------------------
(***************************************************************************)
(* Text                                                                    *)
(***************************************************************************)

\* %d and %zu.
Natural[n \in Nat] ==
  IF n < 10 THEN <<DigitChars[n + 1]>>
  ELSE Append(Natural[n \div 10], DigitChars[(n % 10) + 1])

Decimal(n) == IF n < 0 THEN <<"-">> \o Natural[-n] ELSE Natural[n]

\* The longest beginning of s made of characters in S.
Leading(s, S(_)) == SubSeq(s, 1, Min({i \in 1..Len(s) : ~S(s[i])} \cup {Len(s) + 1}) - 1)

\* atoi: blanks, a sign, digits; what follows is ignored.
Atoi(s) ==
  LET text   == SubSeq(s, Len(Leading(s, LAMBDA c : c \in Blanks)) + 1, Len(s))
      signed == text # <<>> /\ Head(text) \in {"-", "+"}
      digits == Leading(IF signed THEN Tail(text) ELSE text, IsDigit)
      number == FoldLeft(LAMBDA n, c : n * 10 + SelectInSeq(DigitChars, LAMBDA d : d = c) - 1,
                         0, digits)
  IN  IF signed /\ Head(text) = "-" THEN -number ELSE number

\* strtok: the pieces between delimiters; of nothing there is no piece.
Pieces(s, Delims) ==
  LET first == {i \in 1..Len(s) : s[i] \notin Delims /\ (i = 1 \/ s[i - 1] \in Delims)}
      piece(i) == Leading(SubSeq(s, i, Len(s)), LAMBDA c : c \notin Delims)
  IN  [k \in 1..Cardinality(first) |-> piece(SetToSortSeq(first, <)[k])]

\* Mistake: strings are quoted in the file, and the quotes come back.
SpelledQuoted(v) == IF v.is_int THEN Decimal(v.val) ELSE <<"'">> \o v.val \o <<"'">>

Spelled(v) == IF v.is_int THEN Decimal(v.val) ELSE v.val

Joined(parts) == IF parts = <<>> THEN <<>>
                 ELSE Tail(FlattenSeq([i \in DOMAIN parts |-> <<Separator>> \o parts[i]]))

ColumnLine(c) ==
  c.name \o <<Space, IF c.type = "int" THEN "0" ELSE "1",
              Space, IF c.is_primary THEN "1" ELSE "0", Newline>>

RowLine(row) == Append(Joined([j \in DOMAIN row |-> Spelled(row[j])]), Newline)

\* save_to_file
TextOf(t) ==
  Append(Decimal(Len(t.columns)), Newline)
    \o FlattenSeq([i \in DOMAIN t.columns |-> ColumnLine(t.columns[i])])
    \o Append(Decimal(Len(t.rows)), Newline)
    \o FlattenSeq([i \in DOMAIN t.rows |-> RowLine(t.rows[i])])

-----------------------------------------------------------------------------
(***************************************************************************)
(* save_to_file                                                            *)
(***************************************************************************)

\* The text is written, or the beginning of it that reached the disk before
\* the process was killed.
Save ==
  /\ pc = "memory"
  /\ \E n \in 0..Len(TextOf(saved)) :
       /\ file' = SubSeq(TextOf(saved), 1, n)
       /\ whole' = (n = Len(TextOf(saved)))
  /\ pc' = "file"
  /\ UNCHANGED <<saved, table, at, col_cnt, row_cnt, trip>>

-----------------------------------------------------------------------------
(***************************************************************************)
(* load_from_file into a new Table                                         *)
(***************************************************************************)

\* What fgets returns: up to the next newline, at most LineMax - 1 characters;
\* nothing at the end of the file.
Line ==
  LET rest == SubSeq(file, at + 1, Len(file))
      body == Leading(rest, LAMBDA c : c # Newline)
      line == IF Len(body) < Len(rest) THEN Append(body, Newline) ELSE body
  IN  SubSeq(line, 1, Min({Len(line), LineMax - 1}))

ReadLine == at' = at + Len(Line)

Fails ==
  /\ Line = <<>>
  /\ pc' = "failed"
  /\ UNCHANGED <<saved, file, whole, table, at, col_cnt, row_cnt, trip>>

\* The column count.
LoadColumnCount ==
  /\ pc = "file"
  /\ \/ Fails
     \/ /\ Line # <<>> /\ ReadLine
        /\ col_cnt' = Atoi(Line)
        /\ table' = [table EXCEPT !.columns = <<>>]
        /\ pc' = "columns"
        /\ UNCHANGED <<saved, file, whole, row_cnt, trip>>

\* Mistake: type_from_string on that number.
TypeNamed(text) == IF text = <<"i", "n", "t">> THEN "int" ELSE "string"

\* The type is the number behind the name.
TypeRead(text) == IF Atoi(text) = 0 THEN "int" ELSE "string"

\* One column: a name, a type, a flag.
LoadColumn ==
  /\ pc = "columns" /\ Len(table.columns) < col_cnt
  /\ LET parts == Pieces(Line, Blanks)
     IN  \/ Fails
         \/ /\ Line # <<>> /\ Len(parts) < 3
            /\ ReadLine
            /\ pc' = "failed"
            /\ UNCHANGED <<saved, file, whole, table, col_cnt, row_cnt, trip>>
         \/ /\ Len(parts) >= 3
            /\ ReadLine
            /\ table' = [table EXCEPT !.columns = Append(@,
                 [name |-> parts[1], type |-> TypeRead(parts[2]),
                  is_primary |-> Atoi(parts[3]) # 0])]
            /\ UNCHANGED <<saved, file, whole, pc, col_cnt, row_cnt, trip>>

LoadRowCount ==
  /\ pc = "columns" /\ Len(table.columns) >= col_cnt
  /\ \/ Fails
     \/ /\ Line # <<>> /\ ReadLine
        /\ row_cnt' = Atoi(Line)
        /\ table' = [table EXCEPT !.rows = <<>>]
        /\ pc' = "rows"
        /\ UNCHANGED <<saved, file, whole, col_cnt, trip>>

\* A field becomes a value of its column's type.
Read(text, type) == IF type = "int" THEN IntValue(Atoi(text)) ELSE StringValue(text)

\* Mistake: fields beyond the last column are kept as strings.
RowKeepsAll(line) ==
  LET fields == Pieces(line, {Separator, Newline, Return})
  IN  [j \in 1..Len(fields) |->
         Read(fields[j], IF j <= col_cnt THEN table.columns[j].type ELSE "string")]

\* The fields of a line, as many as there are columns.
RowOf(line) ==
  LET fields == Pieces(line, {Separator, Newline, Return})
  IN  [j \in 1..Min({Len(fields), col_cnt}) |-> Read(fields[j], table.columns[j].type)]

\* Mistake: a line that is missing is an empty row.
LoadRowOrNone ==
  /\ pc = "rows" /\ Len(table.rows) < row_cnt
  /\ ReadLine
  /\ table' = [table EXCEPT !.rows = Append(@, RowOf(Line))]
  /\ UNCHANGED <<saved, file, whole, pc, col_cnt, row_cnt, trip>>

LoadRow ==
  /\ pc = "rows" /\ Len(table.rows) < row_cnt
  /\ \/ Fails
     \/ /\ Line # <<>> /\ ReadLine
        /\ table' = [table EXCEPT !.rows = Append(@, RowOf(Line))]
        /\ UNCHANGED <<saved, file, whole, pc, col_cnt, row_cnt, trip>>

LoadEnd ==
  /\ pc = "rows" /\ Len(table.rows) >= row_cnt
  /\ pc' = "loaded"
  /\ UNCHANGED <<saved, file, whole, table, at, col_cnt, row_cnt, trip>>

\* The next save of the table that was read.
SaveAgain ==
  /\ pc = "loaded" /\ whole /\ trip = 1
  /\ saved' = table /\ trip' = 2
  /\ table' = NoTable /\ file' = <<>> /\ whole' = FALSE
  /\ pc' = "memory" /\ at' = 0 /\ col_cnt' = 0 /\ row_cnt' = 0

Next == Save \/ LoadColumnCount \/ LoadColumn \/ LoadRowCount \/ LoadRow \/ LoadEnd \/ SaveAgain

Spec == Init /\ [][Next]_vars

-----------------------------------------------------------------------------
(***************************************************************************)
(* Properties                                                              *)
(***************************************************************************)
IsValue(v) == v.is_int \in BOOLEAN /\ (v.is_int => v.val \in Int)

\* Every variable stays in its range; nothing is read beyond the file's end or
\* the column types of the table.
TypeOK ==
  /\ pc \in {"memory", "file", "columns", "rows", "loaded", "failed"}
  /\ whole \in BOOLEAN /\ trip \in {1, 2}
  /\ at \in 0..Len(file)
  /\ col_cnt \in Nat /\ row_cnt \in Nat
  /\ pc \in {"rows", "loaded"} => Len(table.columns) = col_cnt
  /\ \A i \in DOMAIN table.rows :
       /\ Len(table.rows[i]) <= col_cnt
       /\ \A j \in DOMAIN table.rows[i] : IsValue(table.rows[i][j])

\* The text of a table fits fgets' buffer line by line, and no value breaks a
\* line.
Fits(t) ==
  /\ \A i \in DOMAIN t.rows :
       /\ Len(RowLine(t.rows[i])) < LineMax
       /\ \A j \in DOMAIN t.rows[i] : Newline \notin Range(Spelled(t.rows[i][j]))
  /\ \A i \in DOMAIN t.columns : Len(ColumnLine(t.columns[i])) < LineMax

\* What the columns of a row get when its values are not plain: a separator or
\* a carriage return in a string splits it, an empty string is left out, and the
\* values behind it move one column to the left; what is too much is lost, and
\* what is missing leaves a short row.
Shifted(row, columns) ==
  LET parts == FlattenSeq([j \in DOMAIN row |-> Pieces(Spelled(row[j]), {Separator, Return})])
  IN  [j \in 1..Min({Len(parts), Len(columns)}) |-> Read(parts[j], columns[j].type)]

\* A table that was written to the end is read back, with its columns as they
\* were; a plain value (not empty, without separator or return) comes back under
\* its column's type, which the executor never compares with the value's.  A
\* file whose writing was cut short is refused, unless only the end of its last
\* row is missing: that row then comes back changed, and nothing tells.
RowsShift ==
  pc \in {"loaded", "failed"} /\ Fits(saved) =>
    /\ whole => pc = "loaded"
    /\ pc = "loaded" =>
         LET n == Len(saved.rows)
         IN  /\ table.columns = saved.columns /\ Len(table.rows) = n
             /\ \A i \in 1..(IF whole THEN n ELSE n - 1) :
                  table.rows[i] = Shifted(saved.rows[i], saved.columns)

\* What one round trip loses is all that is lost: a table that was read is
\* written and read back unchanged.
SecondTripExact ==
  pc \in {"loaded", "failed"} /\ whole /\ trip = 2 /\ Fits(saved) => pc = "loaded" /\ table = saved
=============================================================================
