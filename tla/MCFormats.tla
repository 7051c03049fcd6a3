----------------------------- MODULE MCFormats -----------------------------
(***************************************************************************)
(* Small instances of TableFile and Answer: one or two columns, up to two  *)
(* rows, and values that are plain, empty, of the other type, or hold a    *)
(* separator; in one column also a newline, a carriage return, a colon,    *)
(* and a line that overflows the buffer.                                   *)
(***************************************************************************)
EXTENDS Answer

Col(n, type, pk) == [name |-> <<n>>, type |-> type, is_primary |-> pk]

FewValues  == {IntValue(-12), StringValue(<<>>), StringValue(<<"a">>), StringValue(<<"1", "|", "2">>)}
MoreValues == FewValues \cup
  {IntValue(0), StringValue(<<"|">>), StringValue(<<":">>), StringValue(<<"a", "\n", "b">>),
   StringValue(<<"a", "\r", "b">>),
   StringValue(<<"a", "a", "a", "a", "a", "a", "a", "a", "a">>)}

RowsOf(S, width) == UNION {[1..n -> [1..width -> S]] : n \in 0..2}

MCTables ==
  {[columns |-> <<Col("a", type, TRUE)>>, rows |-> rs] :
     type \in {"int", "string"}, rs \in RowsOf(MoreValues, 1)}
  \cup {[columns |-> <<Col("a", ts[1], FALSE), Col("b", ts[2], TRUE)>>, rows |-> rs] :
     ts \in {<<"int", "string">>, <<"string", "int">>, <<"string", "string">>},
     rs \in RowsOf(FewValues, 2)}
=============================================================================
