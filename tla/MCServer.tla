------------------------------ MODULE MCServer ------------------------------
(***************************************************************************)
(* Small instances of Server: statements of every kind the network code    *)
(* tells apart.  brim fills the server's buffer and is executed, huge      *)
(* loses its closing quote there, the answer to wide overflows the         *)
(* client's buffer, and wrong is refused by the parser.                    *)
(***************************************************************************)
EXTENDS Server, TLC

CONSTANTS c1, c2, brim, huge, wide, wrong

MCClients    == {c1, c2}
MCStatements == {brim, huge, wide, wrong}
MCBrimming   == {brim, huge}
MCRefused    == {huge, wrong}
MCLongAnswer == {wide}
MCMaxEntered == c1 :> 2 @@ c2 :> 1
=============================================================================
