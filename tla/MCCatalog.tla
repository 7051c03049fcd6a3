----------------------------- MODULE MCCatalog -----------------------------
(***************************************************************************)
(* Small instances of Catalog: two databases, two tables, and besides the  *)
(* contents of a new table one other.                                      *)
(***************************************************************************)
EXTENDS Catalog

CONSTANTS d1, d2, t1, t2, empty, full

MCDbNames    == {d1, d2}
MCTableNames == {t1, t2}
MCContents   == {empty, full}
=============================================================================
