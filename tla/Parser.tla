------------------------------- MODULE Parser -------------------------------
(***************************************************************************)
(* parser/parser.cpp on the tokens of one statement, and the way a         *)
(* statement takes from the client's prompt to it (the request of          *)
(* client.cpp and json_get_string of protocol.cpp).                        *)
(*                                                                         *)
(* The parser never looks further than one token, so each parse_ function  *)
(* is a set of edges: at a point of the grammar, on a token of some kind,  *)
(* go on to another point and put the token into the statement.  A token   *)
(* is its kind and its lexeme; "eof" is the token after the last.          *)
(***************************************************************************)
EXTENDS Integers, SequencesExt

CONSTANTS
  Names,    \* identifiers
  Ints,     \* the lexemes of int literals
  Strings,  \* the contents of string literals
  MaxList,  \* bound: columns of a CREATE TABLE, values of an INSERT
  Edits(_)  \* what else may be typed for a sentence: sentences with mistakes

Words == {"create", "database", "drop", "use", "table", "select", "from", "where",
          "delete", "insert", "into", "values", "update", "set", "primary", "int",
          "string", "(", ")", "comma", "semicolon", "=", "<", ">", "*"}
\* "comma" and "semicolon" are the kinds of the tokens , and ; (a token's kind
\* and lexeme only have to differ from the others'); Empty is the lexeme "".
Empty    == ""
Word(w)  == [kind |-> w, lexeme |-> w]
Id(n)    == [kind |-> "id", lexeme |-> n]
Eof      == [kind |-> "eof", lexeme |-> Empty]
Missing  == [kind |-> "missing", lexeme |-> Empty]
Literals == [kind : {"intlit"}, lexeme : Ints] \cup [kind : {"strlit"}, lexeme : Strings]
Tokens   == {Word(w) : w \in Words} \cup {Id(n) : n \in Names} \cup Literals

\* An identifier starts with a letter or an underscore (Lexer::read_identifier).
ASSUME NamesAssumption == "*" \notin Names
ASSUME MaxListAssumption == MaxList \in Nat

-----------------------------------------------------------------------------
(***************************************************************************)
(* The grammar of README.md and the statements it describes                *)
(***************************************************************************)
NoWhere == [op |-> "none"]
Wheres  == [column : Names, op : {"=", "<", ">"}, value : Literals] \cup {NoWhere}
Columns == [name : Names, type : {"int", "string"}, primary : BOOLEAN]
Lists(S) == UNION {[1..n -> S] : n \in 1..MaxList}
OneKey(cs) == \A i, j \in 1..Len(cs) : cs[i].primary /\ cs[j].primary => i = j

\* One shape for the nine members of SQLStatement; values holds the VALUES list
\* or the one value of SET.
Blank == [kind |-> "none", name |-> Empty, column |-> Empty, columns |-> <<>>,
          values |-> <<>>, where |-> NoWhere]

\* A statement of kind k with these names, columns, values and condition.
Of(k, n, c, cs, vs, w) ==
  [kind |-> k, name |-> n, column |-> c, columns |-> cs, values |-> vs, where |-> w]

Statements ==
  {Of(k, n, Empty, <<>>, <<>>, NoWhere) :
     n \in Names, k \in {"create_database", "drop_database", "use", "drop_table"}}
  \cup {Of("create_table", n, Empty, cs, <<>>, NoWhere) :
     n \in Names, cs \in {cs \in Lists(Columns) : OneKey(cs)}}
  \cup {Of("select", n, c, <<>>, <<>>, w) :
     n \in Names, c \in Names \cup {"*"}, w \in Wheres}
  \cup {Of("delete", n, Empty, <<>>, <<>>, w) : n \in Names, w \in Wheres}
  \cup {Of("insert", n, Empty, <<>>, vs, NoWhere) : n \in Names, vs \in Lists(Literals)}
  \cup {Of("update", n, c, <<>>, <<v>>, w) :
     n \in Names, c \in Names, v \in Literals, w \in Wheres}

\* The words of a list with commas between its members.
Listed(parts) ==
  Tail(FlattenSeq([i \in 1..Len(parts) |-> <<Word("comma")>> \o parts[i]]))

ColumnText(c) == <<Id(c.name), Word(c.type)>>
                   \o (IF c.primary THEN <<Word("primary")>> ELSE <<>>)

\* A missing value has no text.
ValueText(v) == IF v = Missing THEN <<>> ELSE <<v>>

WhereText(w) ==
  IF w = NoWhere THEN <<>>
  ELSE <<Word("where"), Id(w.column), Word(w.op)>> \o ValueText(w.value)

\* The tokens of a statement, without the optional semicolon.
Render(s) ==
  CASE s.kind = "create_database" -> <<Word("create"), Word("database"), Id(s.name)>>
    [] s.kind = "drop_database"   -> <<Word("drop"), Word("database"), Id(s.name)>>
    [] s.kind = "use"             -> <<Word("use"), Id(s.name)>>
    [] s.kind = "drop_table"      -> <<Word("drop"), Word("table"), Id(s.name)>>
    [] s.kind = "create_table"    ->
         <<Word("create"), Word("table"), Id(s.name), Word("(")>>
           \o Listed([i \in 1..Len(s.columns) |-> ColumnText(s.columns[i])])
           \o <<Word(")")>>
    [] s.kind = "select" ->
         <<Word("select"), IF s.column = "*" THEN Word("*") ELSE Id(s.column),
           Word("from"), Id(s.name)>> \o WhereText(s.where)
    [] s.kind = "delete" ->
         <<Word("delete"), Word("from"), Id(s.name)>> \o WhereText(s.where)
    [] s.kind = "insert" ->
         <<Word("insert"), Word("into"), Id(s.name), Word("values"), Word("(")>>
           \o Listed([i \in 1..Len(s.values) |-> ValueText(s.values[i])])
           \o <<Word(")")>>
    [] s.kind = "update" ->
         <<Word("update"), Id(s.name), Word("set"), Id(s.column), Word("=")>>
           \o ValueText(s.values[1]) \o WhereText(s.where)

\* "Statement, optionally with a semicolon" (README.md:112).
Reads(text, s) == text = Render(s) \/ text = Append(Render(s), Word("semicolon"))

Sentences == {Render(s) : s \in Statements} \cup
             {Append(Render(s), Word("semicolon")) : s \in Statements}

\* Whatever is typed, the lexer makes tokens of it.
ASSUME EditsAssumption == \A s \in Sentences : Edits(s) \subseteq Seq(Tokens)

-----------------------------------------------------------------------------
(***************************************************************************)
(* The parse_ functions                                                    *)
(***************************************************************************)

\* At point "from", on a token of kind "on", to point "to"; "put" says where
\* the token goes.
Edge(from, on, to, put) == [from |-> from, on |-> on, to |-> to, put |-> put]

StatementEdges ==
  {Edge("start", w, w, "nothing") :
     w \in {"create", "drop", "use", "select", "delete", "insert", "update"}}

CreateEdges ==
  {Edge("create", "database", "create_database", "kind"),
   Edge("create_database", "id", "end", "name"),
   Edge("create", "table", "create_table", "kind"),
   Edge("create_table", "id", "columns", "name"),
   Edge("columns", "(", "first_column", "nothing"),
   Edge("column_end", "comma", "column", "nothing"),
   Edge("column_end", ")", "keys", "nothing")}

\* Mistake: PRIMARY may be repeated.
RepeatedPrimary ==
  {Edge(p, "id", "column_type", "column") : p \in {"first_column", "column"}} \cup
  {Edge("column_type", t, "column_key", "type") : t \in {"int", "string"}} \cup
  {Edge("column_key", "primary", "column_key", "primary")}

\* parse_column_def
ColumnEdges ==
  {Edge(p, "id", "column_type", "column") : p \in {"first_column", "column"}} \cup
  {Edge("column_type", t, "column_key", "type") : t \in {"int", "string"}} \cup
  {Edge("column_key", "primary", "column_end", "primary")}

DropEdges ==
  {Edge("drop", "database", "drop_database", "kind"),
   Edge("drop_database", "id", "end", "name"),
   Edge("drop", "table", "drop_table", "kind"),
   Edge("drop_table", "id", "end", "name")}

UseEdges == {Edge("use", "id", "end", "name")}

SelectEdges ==
  {Edge("select", k, "select_from", "target") : k \in {"id", "*"}} \cup
  {Edge("select_from", "from", "select_table", "nothing"),
   Edge("select_table", "id", "tail", "name")}

DeleteEdges ==
  {Edge("delete", "from", "delete_table", "nothing"),
   Edge("delete_table", "id", "tail", "name")}

InsertEdges ==
  {Edge("insert", "into", "insert_table", "nothing"),
   Edge("insert_table", "id", "insert_values", "name"),
   Edge("insert_values", "values", "insert_list", "nothing"),
   Edge("insert_list", "(", "first_value", "nothing"),
   Edge("value_end", "comma", "value", "nothing"),
   Edge("value_end", ")", "end", "nothing")}

UpdateEdges ==
  {Edge("update", "id", "update_set", "name"),
   Edge("update_set", "set", "update_column", "nothing"),
   Edge("update_column", "id", "update_eq", "target"),
   Edge("update_eq", "=", "set_value", "nothing")}

\* parse_where_clause, from each of its three callers.
WhereEdges ==
  {Edge("tail", "where", "where_column", "nothing"),
   Edge("where_column", "id", "where_op", "where_column")} \cup
  {Edge("where_op", o, "where_value", "where_op") : o \in {"=", "<", ">"}}

\* Mistake: UPDATE does not look for WHERE.
UpdateWithoutWhere == {<<"first_value", "value_end">>, <<"value", "value_end">>,
                       <<"set_value", "end">>, <<"where_value", "end">>}

\* Where parse_value_string is called, and where the caller goes on.
ValuePoints == {<<"first_value", "value_end">>, <<"value", "value_end">>,
                <<"set_value", "tail">>, <<"where_value", "end">>}

ValueEdges ==
  {Edge(p[1], k, p[2], IF p[1] = "where_value" THEN "where_value" ELSE "value") :
     p \in ValuePoints, k \in {"intlit", "strlit"}}

EndEdges == {Edge("end", "semicolon", "accepted", "nothing")}

Edges == StatementEdges \cup CreateEdges \cup ColumnEdges \cup DropEdges \cup UseEdges
           \cup SelectEdges \cup DeleteEdges \cup InsertEdges \cup UpdateEdges
           \cup WhereEdges \cup ValueEdges \cup EndEdges

VARIABLES
  typed,   \* what the user typed at the prompt, or a program handed to parse
  input,   \* the tokens the parser sees
  pos,     \* _pos, 1-based
  at,      \* the point of the grammar, or "accepted", "invalid"
  stmt     \* the statement being built

vars == <<typed, input, pos, at, stmt>>

\* peek
Peek == IF pos <= Len(input) THEN input[pos] ELSE Eof

\* The client puts the statement between quotes without escaping its own, and
\* json_get_string takes what is before the first of them.
Cut(text) ==
  LET q == SelectInSeq(text, LAMBDA t : t.kind = "strlit")
  IN  IF q = 0 THEN text ELSE SubSeq(text, 1, q - 1)

Init ==
  /\ typed \in Sentences \cup UNION {Edits(s) : s \in Sentences}
  /\ input \in {typed, Cut(typed)}
  /\ pos = 1 /\ at = "start" /\ stmt = Blank

LastColumn == Len(stmt.columns)

\* The statement that started with this keyword; CREATE and DROP wait for the
\* second one.
KindOf == [from \in {"use", "select", "delete", "insert", "update"} |-> from]

Put(e, t) ==
  CASE e.put = "nothing" -> IF e.to \in DOMAIN KindOf
                            THEN [stmt EXCEPT !.kind = KindOf[e.to]] ELSE stmt
    [] e.put = "kind"    -> [stmt EXCEPT !.kind = e.to]
    [] e.put = "name"    -> [stmt EXCEPT !.name = t.lexeme]
    [] e.put = "target"  -> [stmt EXCEPT !.column = t.lexeme]
    [] e.put = "column"  -> [stmt EXCEPT !.columns =
         Append(@, [name |-> t.lexeme, type |-> "none", primary |-> FALSE])]
    [] e.put = "type"    -> [stmt EXCEPT !.columns[LastColumn].type = t.lexeme]
    [] e.put = "primary" -> [stmt EXCEPT !.columns[LastColumn].primary = TRUE]
    [] e.put = "value"   -> [stmt EXCEPT !.values = Append(@, t)]
    [] e.put = "where_column" ->
         [stmt EXCEPT !.where = [column |-> t.lexeme, op |-> "none", value |-> Missing]]
    [] e.put = "where_op"     -> [stmt EXCEPT !.where.op = t.lexeme]
    [] e.put = "where_value"  -> [stmt EXCEPT !.where.value = t]

Fits(e) == e.from = at /\ e.on = Peek.kind

\* check and advance
Advance ==
  /\ \E e \in Edges : Fits(e) /\ at' = e.to /\ stmt' = Put(e, Peek)
  /\ pos' = pos + 1
  /\ UNCHANGED <<typed, input>>

\* Mistake: a value that is not there is skipped together with the next token.
SkipMissing ==
  /\ \E p \in ValuePoints :
       /\ at = p[1] /\ Peek.kind \notin {"intlit", "strlit"}
       /\ p[1] = "first_value" => Peek.kind # ")"
       /\ at' = p[2]
       /\ stmt' = IF p[1] = "where_value" THEN stmt
                  ELSE [stmt EXCEPT !.values = Append(@, Missing)]
  /\ pos' = pos + 1
  /\ UNCHANGED <<typed, input>>

\* parse_value_string finds neither literal: it returns the empty string and
\* the caller goes on at the same token.  Only INSERT looks for a ")" first.
NoValue ==
  /\ \E p \in ValuePoints :
       /\ at = p[1] /\ Peek.kind \notin {"intlit", "strlit"}
       /\ p[1] = "first_value" => Peek.kind # ")"
       /\ at' = p[2]
       /\ stmt' = IF p[1] = "where_value" THEN stmt
                  ELSE [stmt EXCEPT !.values = Append(@, Missing)]
  /\ UNCHANGED <<typed, input, pos>>

\* The optional parts that are not there: PRIMARY, WHERE, the semicolon.  What
\* follows the end of the statement is never looked at.
Skip ==
  /\ \/ at = "column_key" /\ Peek.kind # "primary" /\ at' = "column_end"
     \/ at = "tail" /\ Peek.kind # "where" /\ at' = "end"
     \/ at = "end" /\ Peek.kind # "semicolon" /\ at' = "accepted"
  /\ UNCHANGED <<typed, input, pos, stmt>>

\* Mistake: the number of primary keys is not looked at.
AnyKeys ==
  /\ at = "keys"
  /\ at' = "end"
  /\ UNCHANGED <<typed, input, pos, stmt>>

\* pk_count
CountKeys ==
  /\ at = "keys"
  /\ at' = IF OneKey(stmt.columns) THEN "end" ELSE "invalid"
  /\ UNCHANGED <<typed, input, pos, stmt>>

\* Mistake: an unexpected token in a list sends the loop round again.
FailInListRetries ==
  /\ \/ at = "first_value" /\ Peek.kind = ")"
     \/ /\ at \notin {"keys", "column_key", "tail", "end", "accepted", "invalid"}
        /\ at \notin {p[1] : p \in ValuePoints}
        /\ \A e \in Edges : ~Fits(e)
  /\ at' = IF at \in {"column_end", "value_end"} THEN at ELSE "invalid"
  /\ UNCHANGED <<typed, input, pos, stmt>>

\* make_error, and the failed WHERE clause
Fail ==
  /\ \/ at = "first_value" /\ Peek.kind = ")"
     \/ /\ at \notin {"keys", "column_key", "tail", "end", "accepted", "invalid"}
        /\ at \notin {p[1] : p \in ValuePoints}
        /\ \A e \in Edges : ~Fits(e)
  /\ at' = "invalid"
  /\ UNCHANGED <<typed, input, pos, stmt>>

Next == Advance \/ NoValue \/ Skip \/ CountKeys \/ Fail

Fairness == WF_vars(Next)

Spec == Init /\ [][Next]_vars /\ Fairness

-----------------------------------------------------------------------------
(***************************************************************************)
(* Properties                                                              *)
(***************************************************************************)
Points == {e.from : e \in Edges} \cup {"keys", "accepted", "invalid"}

\* Every variable stays in its range; _pos never passes the end-of-file token,
\* so the unchecked reads of _tokens in peek and advance stay in bounds.
TypeOK ==
  /\ typed \in Seq(Tokens) /\ input \in Seq(Tokens)
  /\ pos \in 1..(Len(input) + 1)
  /\ at \in Points
  /\ stmt.name \in Names \cup {Empty} /\ stmt.column \in Names \cup {Empty, "*"}
  /\ stmt.values \in Seq(Literals \cup {Missing})

Done == at \in {"accepted", "invalid"}

\* A sentence of the grammar is accepted as the statement it is the text of,
\* with every name, value and condition in its place.
SentencesParse ==
  Done /\ input \in Sentences => at = "accepted" /\ Reads(input, stmt)

\* Whatever is accepted, the tokens read are exactly the text of the statement:
\* none is skipped over and none, a WHERE clause for instance, is read without
\* leaving its part in the statement.  A CREATE TABLE has at most one primary
\* key, although the grammar of its columns allows any number.
ReadsWhatItAccepts ==
  at = "accepted" => Reads(SubSeq(input, 1, pos - 1), stmt) /\ OneKey(stmt.columns)

\* The parser returns on every input.
Returns == <>Done

-----------------------------------------------------------------------------
(***************************************************************************)
(* What the documentation says of the program, and the code does not do.   *)
(***************************************************************************)

\* A statement typed at the prompt, such as the example of README.md:76, is
\* executed as typed or answered with an error.
ExecutedAsTyped ==
  at = "accepted" /\ typed \in Sentences /\ input = Cut(typed) => Reads(typed, stmt)
=============================================================================
