----------------------------- MODULE MCSession -----------------------------
(***************************************************************************)
(* A small instance of Session: one client works on two tables while       *)
(* another changes the databases; of two databases one is not made yet.    *)
(***************************************************************************)
EXTENDS Session, TLC

CONSTANTS c1, c2, d1, d2, t1, t2, empty, full,
          use1, use2, made2, drop1, create1, create2, insert, dropt, look, exit

MCClients    == {c1, c2}
MCStatements == {use1, use2, made2, drop1, create1, create2, insert, dropt, look}
MCMaxEntered == c1 :> 4 @@ c2 :> 1
MCSays       == c1 :> <<{use1}, {create1}, {create2, dropt}, {exit, use2}>>
             @@ c2 :> <<{use2, made2, drop1, insert, look, exit}>>
MCDbNames    == {d1, d2}
MCTableNames == {t1, t2}
MCContents   == {empty, full}
MCMade       == {d1}
MCDoes       == use1 :> [op |-> "use", name |-> d1]
             @@ use2 :> [op |-> "use", name |-> d2]
             @@ made2 :> [op |-> "create database", name |-> d2]
             @@ drop1 :> [op |-> "drop database", name |-> d1]
             @@ create1 :> [op |-> "create table", name |-> t1]
             @@ create2 :> [op |-> "create table", name |-> t2]
             @@ insert :> [op |-> "modify", name |-> t2,
                           makes |-> [c \in MCContents |-> full]]
             @@ dropt :> [op |-> "drop table", name |-> t1]
             @@ look :> [op |-> "select", name |-> t1]
=============================================================================
