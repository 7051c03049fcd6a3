------------------------------- MODULE Answer -------------------------------
(***************************************************************************)
(* network/protocol.cpp and cli/client_main.cpp: the answer a result is    *)
(* written as, and what the client shows of it.  The answer to a SELECT    *)
(* holds the table that TableFile writes to a file.  It may be cut short   *)
(* anywhere: by the buffer of the client, or because the server is gone.   *)
(*                                                                         *)
(* A text is a sequence of characters; a word whose letters nothing looks  *)
(* at is one element of it.                                                *)
(***************************************************************************)
EXTENDS TableFile

Quote == "\""
Colon == <<Quote, ":", Quote>>

-----------------------------------------------------------------------------
(***************************************************************************)
(* serialize_exec_result                                                   *)
(***************************************************************************)
WithComma(out) == IF out # <<>> /\ Last(out) \notin {"{", ","} THEN Append(out, ",") ELSE out

json_append_kv(out, key, value) ==
  WithComma(out) \o <<Quote, key>> \o Colon \o value \o <<Quote>>

json_append_kv_int(out, key, n) == WithComma(out) \o <<Quote, key, Quote, ":">> \o Decimal(n)

Listed(items) == IF items = <<>> THEN <<>>
                 ELSE Tail(FlattenSeq([i \in DOMAIN items |-> <<",">> \o items[i]]))

\* Mistake: the type in front of the name.
ColumnTypeFirst(c) ==
  Tail(json_append_kv(<<>>, "type", <<c.type>>)) \o json_append_kv(<<>>, "name", c.name)

\* What is cut off the name's pair is its opening quote: the buffer it starts
\* from is empty and has no brace.
ColumnText(c) ==
  Tail(json_append_kv(<<>>, "name", c.name)) \o json_append_kv(<<>>, "type", <<c.type>>)

CellText(v) == IF v.is_int THEN Decimal(v.val) ELSE <<Quote>> \o v.val \o <<Quote>>

RowText(row) ==
  <<"[">> \o Listed([j \in DOMAIN row |-> CellText(row[j])]) \o <<"]">>

serialize_status(status, message) ==
  Append(json_append_kv(json_append_kv(<<"{">>, "status", <<status>>), "message", message), "}")

TableText(t) ==
  json_append_kv_int(json_append_kv_int(<<",">>, "column_count", Len(t.columns)),
                     "row_count", Len(t.rows))
    \o <<",", Quote, "columns", Quote, ":", "[">>
    \o Listed([i \in DOMAIN t.columns |-> ColumnText(t.columns[i])]) \o <<"]">>
    \o <<",", Quote, "rows", Quote, ":", "[">>
    \o Listed([i \in DOMAIN t.rows |-> RowText(t.rows[i])]) \o <<"]">>

\* A result without a table, an error included, is its status.
serialize_exec_result(r) ==
  LET status == serialize_status(r.status, r.message)
  IN  IF r.status = "error" \/ r.table.columns = <<>> THEN status
      ELSE Append(Front(status) \o TableText(r.table), "}")

-----------------------------------------------------------------------------
(***************************************************************************)
(* display_response                                                        *)
(***************************************************************************)

\* strstr and strchr: where a pattern starts at or after from, or 0.
Find(text, pattern, from) ==
  LET hits == {i \in from..(Len(text) - Len(pattern) + 1) :
                 SubSeq(text, i, i + Len(pattern) - 1) = pattern}
  IN  IF hits = {} THEN 0 ELSE Min(hits)

KeyAt(text, key) == Find(text, <<Quote, key>> \o Colon, 1)

\* Mistake: a value may end with the text.
ValueToEnd(text, key) ==
  LET from == KeyAt(text, key) + 5
      end  == Find(text, <<Quote>>, from)
  IN  IF KeyAt(text, key) = 0 THEN <<"none">>
      ELSE <<"some", SubSeq(text, from, IF end = 0 THEN Len(text) ELSE end - 1)>>

\* The value behind a key, up to its closing quote.
ValueOf(text, key) ==
  LET from == KeyAt(text, key) + 5
      end  == Find(text, <<Quote>>, from)
  IN  IF KeyAt(text, key) = 0 \/ end = 0 THEN <<"none">>
      ELSE <<"some", SubSeq(text, from, end - 1)>>

\* The key before a ":" is what follows the last quote or comma.
KeyBefore(text, pos) ==
  LET from == Max({1} \cup {k \in 2..pos : text[k - 1] \in {Quote, ","}})
  IN  SubSeq(text, IF text[from] \in {",", "{"} THEN from + 1 ELSE from, pos - 1)

\* Mistake: two characters are skipped when a value has no end.
SkipTwo == 2

\* ++pos, when a value has no end.
Skip == 1

\* The loop over the pairs: the lines it prints, and whether it leaves the text.
Pairs(text) ==
  LET walk[from \in 1..(Len(text) + 1)] ==
        LET pos == Find(text, Colon, from)
            end == Find(text, <<Quote>>, pos + 3)
            key == KeyBefore(text, pos)
        IN  CASE pos = 0 -> [lines |-> <<>>, outside |-> FALSE]
            [] pos # 0 /\ end = 0 ->
                 IF pos + 3 + Skip > Len(text) + 1 THEN [lines |-> <<>>, outside |-> TRUE]
                 ELSE walk[pos + 3 + Skip]
            [] pos # 0 /\ end # 0 ->
                 LET rest == walk[end + 1]
                 IN  IF key \in {<<"status">>, <<"kind">>} THEN rest
                     ELSE [rest EXCEPT !.lines =
                             <<[key |-> key, val |-> SubSeq(text, pos + 3, end - 1)]>> \o @]
  IN  walk[1]

Line1(text) ==
  LET status  == ValueOf(text, "status")
      message == ValueOf(text, "message")
  IN  IF status = <<"none">> THEN [shows |-> "raw", message |-> <<>>]
      ELSE IF status[2] = <<"error">>
      THEN [shows |-> "ERROR",
            message |-> IF message = <<"none">> THEN <<"(unknown)">> ELSE message[2]]
      ELSE [shows |-> "OK", message |-> <<>>]

Pair(key, val) == [key |-> key, val |-> val]

\* What a search that has left the text takes for a pair.
Foreign == Pair(<<"foreign">>, <<"foreign">>)

\* The pairs printed: a search that goes on behind the text's end may find more
\* in the memory there, or nothing.
Printed(text) ==
  IF Pairs(text).outside THEN {Pairs(text).lines, Append(Pairs(text).lines, Foreign)}
  ELSE {Pairs(text).lines}

\* What may be shown: the first line, the statement's kind, and the pairs.
display_response(text) ==
  [first : {Line1(text)},
   kind  : {IF Line1(text).shows = "OK" THEN ValueOf(text, "kind") ELSE <<"none">>},
   lines : IF Line1(text).shows = "OK" THEN Printed(text) ELSE {<<>>}]

-----------------------------------------------------------------------------
(***************************************************************************)
(* Properties                                                              *)
(***************************************************************************)
Query   == [status |-> "ok", message |-> <<"Query OK">>, table |-> saved]
Done    == [status |-> "ok", message |-> <<"1 row inserted">>, table |-> NoTable]
Failure == [status |-> "error", message |-> <<"expected ", "2", ", got ", "1">>, table |-> NoTable]
Results == {Query, Done, Failure}

Cuts(r) == {SubSeq(serialize_exec_result(r), 1, n) : n \in 0..Len(serialize_exec_result(r))}

\* The names and types of the columns, in their order.
Columns(r) ==
  FlattenSeq([i \in DOMAIN r.table.columns |->
    <<r.table.columns[i].name, <<r.table.columns[i].type>>>>])

\* A run of the values shown, wherever it begins and whatever keys they have.
ShownTogether(d, vals) ==
  \E k \in 0..(Len(d.lines) - Len(vals)) :
    \A i \in DOMAIN vals : d.lines[k + i].val = vals[i]

\* The client shows a failure as a failure, with the whole of its message and
\* nothing else, and a success as a success, with the name and the type of every
\* column, whole and in order: the search for a colon between quotes, which a
\* string of a row may look like, steps over none of them.
ColumnsShown ==
  pc = "memory" =>
    \A r \in Results : \A d \in display_response(serialize_exec_result(r)) :
      IF r.status = "error"
      THEN d.first = [shows |-> "ERROR", message |-> r.message] /\ d.lines = <<>>
      ELSE d.first.shows = "OK" /\ ShownTogether(d, Columns(r))

\* What the client shows of a whole answer before its rows: the message, then
\* the columns; the first name has what opens the list in front of it.
Shown(r) ==
  <<Pair(<<"message">>, r.message)>>
    \o FlattenSeq([i \in DOMAIN r.table.columns |->
         <<Pair(IF i = 1 THEN <<":", "[", "name">> ELSE <<"name">>, r.table.columns[i].name),
           Pair(<<"type">>, <<r.table.columns[i].type>>)>>])

\* The pairs shown are the first of what a whole answer shows, or all of it and
\* what follows.
NoOtherPair(lines, r) == IsPrefix(lines, Shown(r)) \/ IsPrefix(Shown(r), lines)

\* An answer that is cut short is never shown as what it is not: a failure
\* never as a success nor the other way round, a message, a name or a type
\* never in part.  The search leaves the text in one case only: when the answer
\* is cut right behind a ":", it steps over the text's end, and what it finds
\* there comes last.
CutTellsNoLie ==
  pc = "memory" =>
    \A r \in Results : \A text \in Cuts(r) : \A d \in display_response(text) :
      \/ d.first.shows = "raw"
      \/ /\ r.status = "error"
         /\ d.first.shows = "ERROR" /\ d.first.message \in {r.message, <<"(unknown)">>}
      \/ /\ r.status = "ok"
         /\ d.first.shows = "OK"
         /\ \/ NoOtherPair(d.lines, r)
            \/ /\ IsSuffix(Colon, text)
               /\ Last(d.lines) = Foreign /\ NoOtherPair(Front(d.lines), r)
         /\ Pairs(text).outside => IsSuffix(Colon, text)
=============================================================================
