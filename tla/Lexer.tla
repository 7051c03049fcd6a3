------------------------------- MODULE Lexer -------------------------------
(***************************************************************************)
(* parser/lexer.cpp: Lexer::tokenize on one source text.  A step is one    *)
(* iteration of a loop over characters, or the making of a token.          *)
(* Positions count from 0 as in the code, so the character at _pos is      *)
(* src[pos + 1]; the terminating zero is the end of src.                   *)
(***************************************************************************)
EXTENDS Integers, SequencesExt

CONSTANTS
  Sources,      \* the texts to read, sequences of characters
  Upper,        \* the letters and _, each with its upper-case form
  DigitValue,   \* the digits, each with its value
  Keywords,     \* in upper case, as sequences of characters
  Punctuation,  \* ( ) , ; = < > *
  Blanks,       \* space, tab and carriage return
  Newline,
  Quote,
  IntMax        \* the largest int

Letters   == DOMAIN Upper
Digits    == DOMAIN DigitValue
WordChars == Letters \cup Digits
Valid     == WordChars \cup Punctuation \cup Blanks \cup {Newline, Quote}

\* TokenType, but for the punctuation, whose tokens have a type each.
OtherKinds == {"keyword", "identifier", "int", "string", "invalid", "eof"}

ASSUME SourcesAssumption == \A s \in Sources : s \in Seq(Range(s))
ASSUME KindsAssumption == Punctuation \cap OtherKinds = {}
ASSUME CharactersAssumption ==
  /\ Letters \cap Digits = {}
  /\ WordChars \cap (Punctuation \cup Blanks \cup {Newline, Quote}) = {}
  /\ Punctuation \cap (Blanks \cup {Newline, Quote}) = {}
  /\ Blanks \cap {Newline, Quote} = {} /\ Newline # Quote
ASSUME DigitsAssumption == DigitValue \in [Digits -> 0..9] /\ IntMax \in Nat \ {0}

VARIABLES
  src,        \* _src
  pos,        \* _pos
  line, col,  \* _line, _col
  mode,       \* "between" tokens, in a "word", "number" or "string", "done"
  start,      \* start or content_start of the scan function
  start_col,
  value,      \* of scan_number
  tokens,
  has_error   \* _has_error

vars == <<src, pos, line, col, mode, start, start_col, value, tokens, has_error>>

Init ==
  /\ src \in Sources
  /\ pos = 0 /\ line = 1 /\ col = 1
  /\ mode = "between" /\ start = 0 /\ start_col = 1 /\ value = 0
  /\ tokens = <<>> /\ has_error = FALSE

-----------------------------------------------------------------------------
AtEnd == pos = Len(src)
NextIs(S) == ~AtEnd /\ src[pos + 1] \in S
Text(from, to) == SubSeq(src, from + 1, to)

Advance == pos' = pos + 1 /\ col' = col + 1 /\ UNCHANGED line

\* from and to are history: the part of the source the token was read from.
Token(kind, lexeme, column, val, from, to) ==
  [kind |-> kind, lexeme |-> lexeme, line |-> line, column |-> column,
   int_value |-> val, from |-> from, to |-> to]

Push(tok) == tokens' = Append(tokens, tok)

\* tokenize's loop looks at the next character.
Between(S) == mode = "between" /\ ~has_error /\ NextIs(S)

SkipBlank ==
  /\ Between(Blanks)
  /\ Advance
  /\ UNCHANGED <<src, mode, start, start_col, value, tokens, has_error>>

\* Mistake: the column goes on counting.
SkipNewlineKeepsColumn ==
  /\ Between({Newline})
  /\ pos' = pos + 1 /\ line' = line + 1 /\ col' = col + 1
  /\ UNCHANGED <<src, mode, start, start_col, value, tokens, has_error>>

SkipNewline ==
  /\ Between({Newline})
  /\ pos' = pos + 1 /\ line' = line + 1 /\ col' = 1
  /\ UNCHANGED <<src, mode, start, start_col, value, tokens, has_error>>

ScanPunctuation ==
  /\ Between(Punctuation)
  /\ Push(Token(src[pos + 1], Text(pos, pos + 1), col, 0, pos, pos + 1))
  /\ Advance
  /\ UNCHANGED <<src, mode, start, start_col, value, has_error>>

\* A scan function is entered: its locals, and for a string the opening quote.
BeginWord ==
  /\ Between(Letters)
  /\ mode' = "word" /\ start' = pos /\ start_col' = col
  /\ UNCHANGED <<src, pos, line, col, value, tokens, has_error>>

BeginNumber ==
  /\ Between(Digits)
  /\ mode' = "number" /\ start' = pos /\ start_col' = col /\ value' = 0
  /\ UNCHANGED <<src, pos, line, col, tokens, has_error>>

BeginString ==
  /\ Between({Quote})
  /\ mode' = "string" /\ start' = pos + 1 /\ start_col' = col
  /\ Advance
  /\ UNCHANGED <<src, value, tokens, has_error>>

\* Mistake: the text up to a character the language does not have is dropped.
SkipInvalid ==
  /\ mode = "between" /\ ~has_error /\ ~AtEnd
  /\ src[pos + 1] \notin Valid
  /\ Advance
  /\ UNCHANGED <<src, mode, start, start_col, value, tokens, has_error>>

ScanInvalid ==
  /\ mode = "between" /\ ~has_error /\ ~AtEnd
  /\ src[pos + 1] \notin Valid
  /\ has_error' = TRUE
  /\ Push(Token("invalid", <<>>, col, 0, pos, pos))
  /\ UNCHANGED <<src, pos, line, col, mode, start, start_col, value>>

-----------------------------------------------------------------------------
\* match_keyword: the keywords in any case.
IsKeyword(word) == [i \in 1..Len(word) |-> IF word[i] \in Letters THEN Upper[word[i]]
                                           ELSE word[i]] \in Keywords

\* Mistake: keywords match in upper case only.
KindUpperOnly(word) == IF word \in Keywords THEN "keyword" ELSE "identifier"

KindOf(word) == IF IsKeyword(word) THEN "keyword" ELSE "identifier"

\* scan_identifier_or_keyword
InWord ==
  /\ mode = "word" /\ NextIs(WordChars)
  /\ Advance
  /\ UNCHANGED <<src, mode, start, start_col, value, tokens, has_error>>

EndWord ==
  /\ mode = "word" /\ ~NextIs(WordChars)
  /\ LET word == Text(start, pos)
     IN  Push(Token(KindOf(word), word, start_col, 0, start, pos))
  /\ mode' = "between"
  /\ UNCHANGED <<src, pos, line, col, start, start_col, value, has_error>>

\* Mistake: the digits are read in the opposite order.
AccumulateReversed(v, d) ==
  LET exact == d * 10 + v
  IN  IF exact \in (-IntMax - 1)..IntMax THEN {exact} ELSE (-IntMax - 1)..IntMax

\* value * 10 + digit in an int.  Past the largest one the result is undefined:
\* any int.
Accumulate(v, d) ==
  LET exact == v * 10 + d
  IN  IF exact \in (-IntMax - 1)..IntMax THEN {exact} ELSE (-IntMax - 1)..IntMax

\* scan_number
InNumber ==
  /\ mode = "number" /\ NextIs(Digits)
  /\ value' \in Accumulate(value, DigitValue[src[pos + 1]])
  /\ Advance
  /\ UNCHANGED <<src, mode, start, start_col, tokens, has_error>>

EndNumber ==
  /\ mode = "number" /\ ~NextIs(Digits)
  /\ Push(Token("int", Text(start, pos), start_col, value, start, pos))
  /\ mode' = "between"
  /\ UNCHANGED <<src, pos, line, col, start, start_col, value, has_error>>

\* Mistake: only a quote ends the loop.
InStringPastEnd ==
  /\ mode = "string" /\ ~NextIs({Quote})
  /\ Advance
  /\ UNCHANGED <<src, mode, start, start_col, value, tokens, has_error>>

\* scan_string: a newline inside counts as a column, not as a line.
InString ==
  /\ mode = "string" /\ ~AtEnd /\ ~NextIs({Quote})
  /\ Advance
  /\ UNCHANGED <<src, mode, start, start_col, value, tokens, has_error>>

EndString ==
  /\ mode = "string" /\ NextIs({Quote})
  /\ Push(Token("string", Text(start, pos), start_col, 0, start - 1, pos + 1))
  /\ Advance
  /\ mode' = "between"
  /\ UNCHANGED <<src, start, start_col, value, has_error>>

Unterminated ==
  /\ mode = "string" /\ AtEnd
  /\ has_error' = TRUE
  /\ Push(Token("invalid", <<>>, start_col, 0, start - 1, pos))
  /\ mode' = "between"
  /\ UNCHANGED <<src, pos, line, col, start, start_col, value>>

\* Mistake: an error is noted and the loop goes on.
EndOfFileAtEnd ==
  /\ mode = "between" /\ AtEnd
  /\ Push(Token("eof", <<>>, col, 0, pos, pos))
  /\ mode' = "done"
  /\ UNCHANGED <<src, pos, line, col, start, start_col, value, has_error>>

\* The end of the text, or an error: the last token.
EndOfFile ==
  /\ mode = "between" /\ (AtEnd \/ has_error)
  /\ Push(Token("eof", <<>>, col, 0, pos, pos))
  /\ mode' = "done"
  /\ UNCHANGED <<src, pos, line, col, start, start_col, value, has_error>>

Next ==
  \/ SkipBlank \/ SkipNewline
  \/ ScanPunctuation \/ BeginWord \/ BeginNumber \/ BeginString \/ ScanInvalid
  \/ InWord \/ EndWord \/ InNumber \/ EndNumber
  \/ InString \/ EndString \/ Unterminated
  \/ EndOfFile

\* tokenize runs on its caller's thread to the end.
Fairness == WF_vars(Next)

Spec == Init /\ [][Next]_vars /\ Fairness

-----------------------------------------------------------------------------
(***************************************************************************)
(* Properties                                                              *)
(***************************************************************************)
Kinds == OtherKinds \cup Punctuation

\* Every variable stays in its range, and every read of the source is at or
\* before its terminating zero.
TypeOK ==
  /\ pos \in 0..Len(src) /\ start \in 0..pos
  /\ line \in 1..(Len(src) + 1) /\ col \in 1..(Len(src) + 1)
  /\ start_col \in 1..(Len(src) + 1)
  /\ mode \in {"between", "word", "number", "string", "done"}
  /\ value \in (-IntMax - 1)..IntMax
  /\ has_error \in BOOLEAN
  /\ \A i \in DOMAIN tokens :
       /\ tokens[i].kind \in Kinds
       /\ tokens[i].from \in 0..pos /\ tokens[i].to \in tokens[i].from..pos

\* Quotes open and close strings in turn, whatever stands between them.
Quotes(i)   == Cardinality({j \in 1..i : src[j] = Quote})
InQuotes(i) == Quotes(i) % 2 = 1

\* Where the text stops being one of the language: at the first character
\* outside strings that it does not have, else at a quote that is never closed.
BadCharacters == {i \in 0..(Len(src) - 1) : src[i + 1] \notin Valid /\ ~InQuotes(i)}
LastQuote     == Max({i \in 0..(Len(src) - 1) : src[i + 1] = Quote})
ErrorAt ==
  IF BadCharacters # {} THEN Min(BadCharacters)
  ELSE IF InQuotes(Len(src)) THEN LastQuote
  ELSE Len(src)

\* The number spelled by a sequence of digits.
Number(s) ==
  LET upTo[n \in 0..Len(s)] == IF n = 0 THEN 0 ELSE upTo[n - 1] * 10 + DigitValue[s[n]]
  IN  upTo[Len(s)]

\* A token of the language spelled by Text(from, to), and as long as the text
\* that follows allows.  A literal that fits an int is read as that number; a
\* longer one as anything.
Spells(tok) ==
  LET text == Text(tok.from, tok.to)
      more(S) == tok.to < Len(src) /\ src[tok.to + 1] \in S
  IN  CASE tok.kind \in {"keyword", "identifier"} ->
             /\ Range(text) \subseteq WordChars /\ Head(text) \in Letters
             /\ tok.lexeme = text /\ ~more(WordChars)
             /\ tok.kind = "keyword" <=> IsKeyword(text)
        [] tok.kind = "int" ->
             /\ text # <<>> /\ Range(text) \subseteq Digits
             /\ tok.lexeme = text /\ ~more(Digits)
             /\ Number(text) <= IntMax => tok.int_value = Number(text)
        [] tok.kind = "string" ->
             /\ text = <<Quote>> \o tok.lexeme \o <<Quote>>
             /\ Quote \notin Range(tok.lexeme)
        [] tok.kind \in Punctuation -> tok.lexeme = text /\ text = <<tok.kind>>
        [] OTHER -> tok.lexeme = <<>>

\* A line ends at a newline outside string literals: after a literal that spans
\* lines, the positions of all later tokens are off.
Breaks(i) == {j \in 1..i : src[j] = Newline /\ ~InQuotes(j)}

\* A token's line and column are those of its first character.
PositionTrue(tok) ==
  LET breaks == Breaks(tok.from)
  IN  /\ tok.line = Cardinality(breaks) + 1
      /\ tok.column = tok.from + 1 - (IF breaks = {} THEN 0 ELSE Max(breaks))

\* Nothing of the source is lost, read twice or reordered: the tokens spell it
\* piece by piece, at the positions they give, and only blanks and newlines
\* stand between them.
NothingLost ==
  /\ \A i \in DOMAIN tokens : Spells(tokens[i]) /\ PositionTrue(tokens[i])
  /\ LET ends(i) == IF i = 0 THEN 0 ELSE tokens[i].to
     IN  \A i \in DOMAIN tokens :
           /\ ends(i - 1) <= tokens[i].from
           /\ Range(Text(ends(i - 1), tokens[i].from)) \subseteq Blanks \cup {Newline}

\* The text is refused exactly when it is not one of the language, at the place
\* where it stops being one; otherwise all of it was read.  The last token is
\* the only END_OF_FILE, and a refused text has one INVALID before it.
Judged ==
  LET n == Len(tokens)
  IN  /\ has_error <=> ErrorAt < Len(src)
      /\ has_error => n > 1 /\ tokens[n - 1].kind = "invalid" /\ tokens[n - 1].from = ErrorAt
      /\ ~has_error => pos = Len(src)
      /\ \A i \in 1..n : /\ tokens[i].kind = "eof" <=> i = n
                         /\ tokens[i].kind = "invalid" <=> has_error /\ i = n - 1

\* tokenize returns on every text, and has refused it exactly when it should.
RefusesWhatIsWrong == <>(mode = "done" /\ Judged)
=============================================================================
