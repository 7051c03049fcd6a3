------------------------------ MODULE MCLexer ------------------------------
(***************************************************************************)
(* Small instances of Lexer: every text made of up to MaxPieces pieces,    *)
(* which are a keyword in two spellings, a beginning of it, a longer word, *)
(* two numbers, a character of every other kind, and one of none.          *)
(***************************************************************************)
EXTENDS Lexer, TLC

CONSTANT MaxPieces

MCUpper == [c \in {"u", "s", "e", "U", "_"} |-> IF c = "U" THEN "U" ELSE
              CASE c = "u" -> "U" [] c = "s" -> "S" [] c = "e" -> "E" [] OTHER -> c]
MCDigitValue == "0" :> 0 @@ "1" :> 1 @@ "9" :> 9
MCKeywords == {<<"U", "S", "E">>}
MCPunctuation == {"<"}
MCBlanks == {" "}
MCNewline == "\n"
MCQuote == "\""

Pieces == {<<"u", "s", "e">>, <<"U", "s", "e">>, <<"u", "_">>, <<"1">>, <<"9", "0">>,
           <<"<">>, <<" ">>, <<"\n">>, <<"\"">>, <<"#">>}
MCSources == {FlattenSeq(p) : p \in UNION {[1..n -> Pieces] : n \in 0..MaxPieces}}
=============================================================================
