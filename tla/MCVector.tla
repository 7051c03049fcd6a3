------------------------------ MODULE MCVector -----------------------------
(***************************************************************************)
(* A small instance of Vector: two vectors, the first capacity 1 instead   *)
(* of 8, so that three elements take two growths.                          *)
(***************************************************************************)
EXTENDS Vector

CONSTANTS v1, v2, a, b

MCNames  == {v1, v2}
MCValues == {a, b}
MCSizes  == {0, 2}
=============================================================================
