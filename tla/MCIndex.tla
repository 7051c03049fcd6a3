------------------------------ MODULE MCIndex ------------------------------
(***************************************************************************)
(* A small instance of Index: up to five keys, so that the bisection makes *)
(* up to three probes and every insertion point from front to end is hit.  *)
(***************************************************************************)
EXTENDS Index

MCKeys == -1..3
MCRowIds == {0, 1}
=============================================================================
