------------------------------- MODULE MCDml -------------------------------
(***************************************************************************)
(* Small instances of Dml: a 2-bit int and a 4-bit long, so that the       *)
(* literal 5 wraps to 1; a table keyed on its first column, one keyed on   *)
(* its second, and one without a primary key.                              *)
(***************************************************************************)
EXTENDS Dml

Col(n, pk) == [name |-> n, is_primary |-> pk]
IntLit(n) == [is_int |-> TRUE, val |-> n]
StrLit(n) == [is_int |-> FALSE, val |-> n]

MCNames == {"a", "b"}

Keyed      == <<Col("a", TRUE)>>
KeyedFirst == <<Col("a", TRUE), Col("b", FALSE)>>
KeyedLast  == <<Col("b", FALSE), Col("a", TRUE)>>
Unkeyed    == <<Col("a", FALSE)>>

\* One keyed column with more rows and keys, and the wider tables with fewer.
MCSchemas   == {Keyed, KeyedFirst, KeyedLast, Unkeyed}
MCLiterals  == [s \in MCSchemas |->
                 IF s = Keyed THEN {IntLit(0), IntLit(1), IntLit(5), StrLit(1)}
                              ELSE {IntLit(5), StrLit(1)}]
MCMaxRows   == [s \in MCSchemas |-> IF s = Keyed THEN 3 ELSE 2]
MCMaxValues == [s \in MCSchemas |-> IF s = Keyed THEN 2 ELSE 3]
=============================================================================
