------------------------------ MODULE MCParser ------------------------------
(***************************************************************************)
(* A small instance of Parser: two names, one literal of each type, lists  *)
(* of up to two; and besides the sentences of the grammar those with a     *)
(* token left out, with one repeated, with a PRIMARY put in anywhere, with *)
(* one added at the end, and every beginning of one.                       *)
(***************************************************************************)
EXTENDS Parser

MCNames   == {"a", "t"}
MCInts    == {"1"}
MCStrings == {"s"}

MCEdits(s) ==
  {RemoveAt(s, i) : i \in 1..Len(s)}
  \cup {InsertAt(s, i, s[i]) : i \in 1..Len(s)}
  \cup {Append(s, t) : t \in Tokens}
  \cup {SubSeq(s, 1, i) : i \in 0..(Len(s) - 1)}
  \cup {InsertAt(s, i, Word("primary")) : i \in 1..Len(s)}
=============================================================================
