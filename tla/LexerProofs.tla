---------------------------- MODULE LexerProofs ----------------------------
(***************************************************************************)
(* What holds of tokenize (Lexer) for every text, every alphabet and every *)
(* width of an int.                                                        *)
(***************************************************************************)
EXTENDS Lexer, SequenceTheorems, FiniteSetTheorems, WellFoundedInduction, TLAPS

\* A loop that stops at the first position of a set finds its least one.
LEMMA MinFacts ==
  ASSUME NEW S \in SUBSET Nat, S # {}
  PROVE  Min(S) \in S /\ \A x \in S : Min(S) <= x
<1>1. \E x \in S : \A y \in S : x <= y
  <2> DEFINE R == {p \in Nat \X Nat : p[1] < p[2]}
  <2>1. IsWellFoundedOn(R, Nat)
    BY NatLessThanWellFounded, Zenon DEF OpToRel
  <2> HIDE DEF R
  <2>2. PICK x \in S : \A y \in S : <<y, x>> \notin R
    BY <2>1, WFMin
  <2>3. \A y \in S : ~(y < x)
    BY <2>2 DEF R
  <2> QED BY <2>3
<1> QED BY <1>1 DEF Min

(***************************************************************************)
(* The inductive invariant                                                 *)
(***************************************************************************)
Chars  == Range(src)
Tokens == [kind : Kinds, lexeme : Seq(Chars), line : Nat, column : Nat,
           int_value : Int, from : 0..Len(src), to : 0..Len(src)]

Typed ==
  /\ src \in Sources
  /\ pos \in 0..Len(src) /\ start \in 0..pos
  /\ line \in 1..(pos + 1) /\ col \in 1..(pos + 1) /\ start_col \in 1..(pos + 1)
  /\ mode \in {"between", "word", "number", "string", "done"}
  /\ value \in (-IntMax - 1)..IntMax
  /\ has_error \in BOOLEAN
  /\ tokens \in Seq(Tokens)
  /\ \A n \in 1..Len(tokens) : tokens[n].from <= tokens[n].to /\ tokens[n].to <= pos

\* The characters from start to pos, which the scan function has read.
Within(S) == \A j \in (start + 1)..pos : src[j] \in S

Scanning ==
  /\ mode = "word" => start < Len(src) /\ src[start + 1] \in Letters /\ Within(WordChars)
  /\ mode = "number" => start < Len(src) /\ src[start + 1] \in Digits /\ Within(Digits)
  /\ mode = "number" /\ Number(Text(start, pos)) <= IntMax => value = Number(Text(start, pos))
  /\ mode = "string" =>
       /\ start > 0 /\ src[start] = Quote
       /\ \A j \in (start + 1)..pos : src[j] # Quote
  /\ has_error => mode \in {"between", "done"}

\* Where the token being read, or else the next one, begins.
Begun == IF mode = "string" THEN start - 1
         ELSE IF mode \in {"word", "number"} THEN start ELSE pos

LineAt(n)    == Cardinality(Breaks(n)) + 1
LineStart(n) == IF Breaks(n) = {} THEN 0 ELSE Max(Breaks(n))

\* Line and column are those of pos, and start_col that of the token.
Placed ==
  /\ line = LineAt(pos) /\ col = pos + 1 - LineStart(pos)
  /\ Breaks(Begun) = Breaks(pos)
  /\ mode \in {"word", "number", "string"} => start_col = Begun + 1 - LineStart(Begun)

\* What has been read is in the language, and pos is inside a literal just when
\* scan_string is reading it.
Accepted ==
  ~has_error =>
    /\ InQuotes(pos) <=> mode = "string"
    /\ \A j \in 0..(pos - 1) : src[j + 1] \in Valid \/ InQuotes(j)
    /\ mode = "done" => pos = Len(src)

\* Between the last token and the next one there are only blanks.
LastEnd == IF tokens = <<>> THEN 0 ELSE tokens[Len(tokens)].to

Covered ==
  /\ NothingLost
  /\ LastEnd <= Begun /\ \A j \in (LastEnd + 1)..Begun : src[j] \in Blanks \cup {Newline}

\* The INVALID token and the END_OF_FILE, as far as there are any.
Ended ==
  LET n == IF mode = "done" THEN Len(tokens) - 1 ELSE Len(tokens)
  IN  /\ n >= 0
      /\ has_error => /\ ErrorAt < Len(src)
                      /\ n > 0 /\ tokens[n].kind = "invalid" /\ tokens[n].from = ErrorAt
      /\ \A m \in 1..Len(tokens) :
           /\ tokens[m].kind = "eof" <=> m > n
           /\ tokens[m].kind = "invalid" <=> has_error /\ m = n

IInv == Typed /\ Scanning /\ Placed /\ Accepted /\ Covered /\ Ended

-----------------------------------------------------------------------------
(***************************************************************************)
(* Numbers                                                                 *)
(***************************************************************************)

\* f gives the number spelled by each of the first n digits of s.
Sums(f, s, n) ==
  /\ f \in [0..n -> Nat] /\ f[0] = 0
  /\ \A m \in 1..n : f[m] = f[m - 1] * 10 + DigitValue[s[m]]

\* There is one for every sequence of digits: a least n without one would have
\* one, by a further step.
LEMMA SumsExist ==
  ASSUME NEW s \in Seq(Digits)
  PROVE  \E f : Sums(f, s, Len(s))
<1> DEFINE Wrong == {n \in 0..Len(s) : ~(\E f : Sums(f, s, n))}
<1>1. Len(s) \in Nat /\ \A m \in 1..Len(s) : DigitValue[s[m]] \in Nat
  BY LenProperties, DigitsAssumption
<1>2. Wrong = {}
  <2> SUFFICES ASSUME Wrong # {} PROVE FALSE
    OBVIOUS
  <2>1. PICK n \in Wrong : \A k \in Wrong : n <= k
    <3>1. Wrong \in SUBSET Nat
      BY <1>1
    <3> HIDE DEF Wrong
    <3> QED BY <3>1, MinFacts
  <2>2. n # 0
    <3>1. Sums([k \in 0..0 |-> 0], s, 0)
      BY DEF Sums
    <3> QED BY <3>1
  <2>3. PICK f : Sums(f, s, n - 1)
    <3>1. n - 1 \in 0..Len(s) /\ ~(n <= n - 1)
      BY <1>1, <2>2
    <3> QED BY <2>1, <3>1
  <2> DEFINE g == [k \in 0..n |-> IF k < n THEN f[k] ELSE f[n - 1] * 10 + DigitValue[s[n]]]
  <2>4. n \in 1..Len(s) /\ n - 1 \in 0..(n - 1) /\ DigitValue[s[n]] \in Nat
    BY <1>1, <2>2
  <2>5. f[n - 1] * 10 + DigitValue[s[n]] \in Nat
    BY <2>3, <2>4 DEF Sums
  <2>6. g \in [0..n -> Nat] /\ g[0] = 0
    BY <2>3, <2>4, <2>5 DEF Sums
  <2>7. \A m \in 1..n : g[m] = g[m - 1] * 10 + DigitValue[s[m]]
    <3> TAKE m \in 1..n
    <3>1. m - 1 \in 0..n /\ m \in 0..n /\ m - 1 < n
      BY <2>4
    <3>2. CASE m < n
      <4>1. m \in 1..(n - 1)
        BY <2>4, <3>2
      <4> QED BY <2>3, <3>1, <3>2, <4>1 DEF Sums
    <3>3. CASE m = n
      BY <3>1, <3>3
    <3> QED BY <2>4, <3>2, <3>3
  <2>8. Sums(g, s, n)
    BY <2>6, <2>7 DEF Sums
  <2> QED BY <2>1, <2>8
<1> QED BY <1>1, <1>2

\* And it is what Number computes.
LEMMA NumberIsSum ==
  ASSUME NEW s \in Seq(Digits), NEW f, Sums(f, s, Len(s))
  PROVE  Number(s) = f[Len(s)]
<1> DEFINE Rec(g) == g = [n \in 0..Len(s) |-> IF n = 0 THEN 0
                                               ELSE g[n - 1] * 10 + DigitValue[s[n]]]
           g0 == CHOOSE g : Rec(g)
<1>1. Len(s) \in Nat
  BY LenProperties
<1>2. Rec(f)
  BY <1>1 DEF Sums
<1>3. Rec(g0)
  <2> HIDE DEF Rec
  <2> QED BY <1>2
<1>4. Number(s) = g0[Len(s)]
  BY DEF Number
<1> HIDE DEF g0
<1> DEFINE Wrong == {n \in 0..Len(s) : g0[n] # f[n]}
<1>5. Wrong = {}
  <2> SUFFICES ASSUME Wrong # {} PROVE FALSE
    OBVIOUS
  <2>1. PICK n \in Wrong : \A k \in Wrong : n <= k
    <3>1. Wrong \in SUBSET Nat
      BY <1>1
    <3> HIDE DEF Wrong
    <3> QED BY <3>1, MinFacts
  <2>2. g0[0] = 0 /\ f[0] = 0
    BY <1>1, <1>3 DEF Sums
  <2>3. n \in 1..Len(s) /\ n - 1 \in 0..Len(s) /\ ~(n <= n - 1)
    BY <1>1, <2>2
  <2>4. g0[n - 1] = f[n - 1]
    BY <2>1, <2>3
  <2>5. g0[n] = g0[n - 1] * 10 + DigitValue[s[n]]
    BY <1>3, <2>3
  <2>6. f[n] = f[n - 1] * 10 + DigitValue[s[n]]
    BY <2>3 DEF Sums
  <2> QED BY <2>1, <2>4, <2>5, <2>6
<1> QED BY <1>1, <1>4, <1>5

\* A further digit.
LEMMA NumberFacts ==
  /\ Number(<<>>) = 0
  /\ \A s \in Seq(Digits), d \in Digits :
       /\ Number(s) \in Nat
       /\ Number(Append(s, d)) = Number(s) * 10 + DigitValue[d]
<1>1. Number(<<>>) = 0
  <2>1. <<>> \in Seq(Digits) /\ Len(<<>>) = 0
    BY EmptySeq
  <2>2. Sums([k \in 0..0 |-> 0], <<>>, 0)
    BY DEF Sums
  <2> QED BY <2>1, <2>2, NumberIsSum
<1>2. ASSUME NEW s \in Seq(Digits), NEW d \in Digits
      PROVE  /\ Number(s) \in Nat
             /\ Number(Append(s, d)) = Number(s) * 10 + DigitValue[d]
  <2> DEFINE n == Len(s)
             t == Append(s, d)
  <2>1. n \in Nat /\ t \in Seq(Digits) /\ Len(t) = n + 1 /\ t[n + 1] = d
        /\ \A m \in 1..n : t[m] = s[m]
    BY LenProperties, AppendProperties
  <2>2. PICK f : Sums(f, s, n)
    BY SumsExist
  <2>3. PICK g : Sums(g, t, n + 1)
    BY <2>1, SumsExist
  <2>4. Number(s) = f[n] /\ f[n] \in Nat
    BY <2>1, <2>2, NumberIsSum DEF Sums
  <2>5. Number(t) = g[n + 1]
    BY <2>1, <2>3, NumberIsSum
  <2> HIDE DEF n, t
  <2>6. Sums([k \in 0..n |-> g[k]], s, n)
    <3>1. /\ \A k \in 0..n : g[k] \in Nat
          /\ g[0] = 0 /\ 0 \in 0..n
      BY <2>1, <2>3 DEF Sums
    <3>2. ASSUME NEW m \in 1..n
          PROVE  g[m] = g[m - 1] * 10 + DigitValue[s[m]] /\ m - 1 \in 0..n /\ m \in 0..n
      <4>1. m \in 1..(n + 1) /\ m - 1 \in 0..n /\ m \in 0..n /\ t[m] = s[m]
        BY <2>1
      <4> QED BY <2>3, <4>1 DEF Sums
    <3> QED BY <3>1, <3>2 DEF Sums
  <2>7. Number(s) = g[n]
    <3>1. Number(s) = [k \in 0..n |-> g[k]][n]
      BY <2>6, NumberIsSum DEF n
    <3> QED BY <2>1, <3>1
  <2>8. g[n + 1] = g[n] * 10 + DigitValue[d]
    BY <2>1, <2>3 DEF Sums
  <2> QED BY <2>4, <2>5, <2>7, <2>8 DEF t
<1> QED BY <1>1, <1>2

-----------------------------------------------------------------------------
(***************************************************************************)
(* Quotes, line breaks and texts                                           *)
(***************************************************************************)

LEMMA SourceFacts ==
  ASSUME Typed
  PROVE  /\ src \in Seq(Chars) /\ Len(src) \in Nat /\ DOMAIN src = 1..Len(src)
         /\ \A j \in 1..Len(src) : src[j] \in Chars
<1>1. src \in Seq(Chars)
  BY SourcesAssumption DEF Typed, Chars
<1> QED BY <1>1, LenProperties

LEMMA MaxExists ==
  ASSUME NEW k \in Nat, NEW S \in SUBSET (0..k), S # {}
  PROVE  Max(S) \in S /\ \A x \in S : x <= Max(S)
<1> DEFINE T == {k - x : x \in S}
<1>1. T \in SUBSET Nat /\ T # {}
  <2>1. PICK z : z \in S
    OBVIOUS
  <2>2. k - z \in T
    BY <2>1
  <2> QED BY <2>2
<1>2. PICK y \in T : \A z \in T : y <= z
  <2> HIDE DEF T
  <2> QED BY <1>1, MinFacts
<1>3. PICK x \in S : y = k - x
  OBVIOUS
<1>4. \A z \in S : x >= z
  BY <1>2, <1>3
<1> QED BY <1>4 DEF Max

LEMMA MaxFacts ==
  ASSUME NEW S \in SUBSET Nat, NEW m \in S, \A x \in S : x <= m
  PROVE  Max(S) = m
<1>1. Max(S) \in S /\ \A x \in S : Max(S) >= x
  BY DEF Max
<1>2. Max(S) >= m /\ Max(S) <= m /\ Max(S) \in Nat /\ m \in Nat
  BY <1>1
<1> QED BY <1>2

\* A character more: a quote opens or closes a literal, and a newline outside
\* of one begins a line.
LEMMA QuoteSteps ==
  ASSUME Typed, NEW k \in 0..(Len(src) - 1)
  PROVE  /\ src[k + 1] = Quote => (InQuotes(k + 1) <=> ~InQuotes(k))
         /\ src[k + 1] # Quote => (InQuotes(k + 1) <=> InQuotes(k))
<1> DEFINE Q(i) == {j \in 1..i : src[j] = Quote}
<1>1. Len(src) \in Nat
  BY SourceFacts
<1>2. IsFiniteSet(Q(k)) /\ Cardinality(Q(k)) \in Nat
  <2>1. IsFiniteSet(1..k) /\ Q(k) \subseteq 1..k
    <3>1. 1 \in Int /\ k \in Int
      BY <1>1
    <3> QED BY <3>1, FS_Interval
  <2> HIDE DEF Q
  <2> QED BY <2>1, FS_Subset, FS_CardinalityType
<1>3. CASE src[k + 1] = Quote
  <2>1. Q(k + 1) = Q(k) \cup {k + 1} /\ k + 1 \notin Q(k)
    BY <1>1, <1>3
  <2> HIDE DEF Q
  <2>2. Cardinality(Q(k + 1)) = Cardinality(Q(k)) + 1
    BY <1>2, <2>1, FS_AddElement
  <2>3. Quotes(k + 1) = Quotes(k) + 1 /\ Quotes(k) \in Nat
    BY <1>2, <2>2 DEF Quotes, Q
  <2> QED BY <1>3, <2>3 DEF InQuotes
<1>4. CASE src[k + 1] # Quote
  <2>1. Q(k + 1) = Q(k)
    BY <1>1, <1>4
  <2> QED BY <1>4, <2>1 DEF InQuotes, Quotes
<1> QED BY <1>3, <1>4

LEMMA NoQuotesYet == ~InQuotes(0) /\ Breaks(0) = {}
<1>1. {j \in 1..0 : src[j] = Quote} = {} /\ {j \in 1..0 : src[j] = Newline /\ ~InQuotes(j)} = {}
  OBVIOUS
<1>2. Quotes(0) = 0
  BY <1>1, FS_EmptySet DEF Quotes
<1> QED BY <1>1, <1>2 DEF InQuotes, Breaks

LEMMA BreakSteps ==
  ASSUME Typed, NEW k \in 0..(Len(src) - 1)
  PROVE  /\ src[k + 1] # Newline \/ InQuotes(k) => Breaks(k + 1) = Breaks(k)
         /\ src[k + 1] = Newline /\ ~InQuotes(k) =>
              LineAt(k + 1) = LineAt(k) + 1 /\ LineStart(k + 1) = k + 1
<1>1. Len(src) \in Nat /\ Newline # Quote
  BY SourceFacts, CharactersAssumption
<1>2. CASE src[k + 1] # Newline \/ InQuotes(k)
  <2>1. ~(src[k + 1] = Newline /\ ~InQuotes(k + 1))
    BY <1>1, <1>2, QuoteSteps
  <2>2. \A j : j \in 1..(k + 1) /\ j # k + 1 => j \in 1..k
    BY <1>1
  <2>3. \A j : j \in 1..k => j \in 1..(k + 1)
    BY <1>1
  <2> QED BY <1>2, <2>1, <2>2, <2>3 DEF Breaks
<1>3. CASE src[k + 1] = Newline /\ ~InQuotes(k)
  <2>1. ~InQuotes(k + 1)
    BY <1>1, <1>3, QuoteSteps
  <2>2. /\ \A j : j \in 1..(k + 1) /\ j # k + 1 => j \in 1..k
        /\ \A j : j \in 1..k => j \in 1..(k + 1) /\ j <= k + 1
        /\ k + 1 \in 1..(k + 1) /\ k + 1 \notin 1..k /\ k + 1 <= k + 1
    BY <1>1
  <2>3. Breaks(k + 1) = Breaks(k) \cup {k + 1} /\ k + 1 \notin Breaks(k)
        /\ \A j \in Breaks(k + 1) : j <= k + 1
    BY <1>3, <2>1, <2>2 DEF Breaks
  <2>4. IsFiniteSet(Breaks(k)) /\ Breaks(k + 1) \in SUBSET Nat
    <3>1. 1 \in Int /\ k \in Int /\ Breaks(k) \subseteq 1..k /\ 1..k \subseteq Nat /\ k + 1 \in Nat
      BY <1>1 DEF Breaks
    <3>2. IsFiniteSet(1..k)
      BY <3>1, FS_Interval
    <3> QED BY <2>3, <3>1, <3>2, FS_Subset
  <2>5. Cardinality(Breaks(k + 1)) = Cardinality(Breaks(k)) + 1
        /\ Cardinality(Breaks(k)) \in Nat
    BY <2>3, <2>4, FS_AddElement, FS_CardinalityType
  <2>6. Max(Breaks(k + 1)) = k + 1
    BY <2>3, <2>4, MaxFacts
  <2> QED BY <1>3, <2>3, <2>5, <2>6 DEF LineAt, LineStart
<1> QED BY <1>2, <1>3

LEMMA TextFacts ==
  ASSUME Typed, NEW a \in 0..Len(src), NEW b \in a..Len(src)
  PROVE  /\ Text(a, b) \in Seq(Chars) /\ Len(Text(a, b)) = b - a
         /\ \A j \in 1..(b - a) : Text(a, b)[j] = src[a + j]
         /\ \A S : (Range(Text(a, b)) \subseteq S) <=> \A j \in (a + 1)..b : src[j] \in S
<1>1. src \in Seq(Chars) /\ Len(src) \in Nat
  BY SourceFacts
<1>2. /\ Text(a, b) \in Seq(Chars) /\ Len(Text(a, b)) = b - a
      /\ \A j \in 1..(b - a) : Text(a, b)[j] = src[a + j]
  <2>1. a + 1 \in 1..(Len(src) + 1) /\ b \in (a + 1 - 1)..Len(src)
    BY <1>1
  <2>2. /\ Text(a, b) \in Seq(Chars) /\ Len(Text(a, b)) = b - (a + 1) + 1
        /\ \A j \in 1..(b - (a + 1) + 1) : Text(a, b)[j] = src[a + 1 + j - 1]
    BY <1>1, <2>1, SubSeqProperties DEF Text
  <2>3. b - (a + 1) + 1 = b - a /\ \A j \in 1..(b - a) : a + 1 + j - 1 = a + j
    BY <1>1
  <2> QED BY <2>2, <2>3
<1>3. DOMAIN Text(a, b) = 1..(b - a)
  BY <1>2, LenProperties
<1>4. ASSUME NEW S
      PROVE  (Range(Text(a, b)) \subseteq S) <=> \A j \in (a + 1)..b : src[j] \in S
  <2> DEFINE t == Text(a, b)
  <2>1. (Range(t) \subseteq S) <=> \A j \in 1..(b - a) : t[j] \in S
    BY <1>3 DEF Range
  <2>2. (\A j \in 1..(b - a) : src[a + j] \in S) <=> \A j \in (a + 1)..b : src[j] \in S
    <3>1. ASSUME \A j \in 1..(b - a) : src[a + j] \in S, NEW j \in (a + 1)..b
          PROVE  src[j] \in S
      <4>1. j - a \in 1..(b - a) /\ a + (j - a) = j
        BY <1>1
      <4> QED BY <3>1, <4>1
    <3>2. \A j \in 1..(b - a) : a + j \in (a + 1)..b
      BY <1>1
    <3> QED BY <3>1, <3>2
  <2> HIDE DEF t
  <2> QED BY <1>2, <2>1, <2>2 DEF t
<1> QED BY <1>2, <1>4

\* A text with a character more, at its end.
LEMMA TextGrows ==
  ASSUME Typed, NEW a \in 0..Len(src), NEW b \in a..(Len(src) - 1)
  PROVE  Text(a, b + 1) = Append(Text(a, b), src[b + 1])
<1>1. Len(src) \in Nat /\ src[b + 1] \in Chars /\ b \in a..Len(src) /\ b + 1 \in a..Len(src)
  BY SourceFacts
<1> DEFINE s == Text(a, b)
           t == Text(a, b + 1)
<1>2. /\ s \in Seq(Chars) /\ Len(s) = b - a /\ \A j \in 1..(b - a) : s[j] = src[a + j]
      /\ t \in Seq(Chars) /\ Len(t) = b + 1 - a /\ \A j \in 1..(b + 1 - a) : t[j] = src[a + j]
  <2>1. /\ s \in Seq(Chars) /\ Len(s) = b - a /\ \A j \in 1..(b - a) : s[j] = src[a + j]
    BY <1>1, TextFacts
  <2>2. /\ t \in Seq(Chars) /\ Len(t) = b + 1 - a /\ \A j \in 1..(b + 1 - a) : t[j] = src[a + j]
    <3> PICK e : e = b + 1
      OBVIOUS
    <3>1. e \in a..Len(src)
      BY <1>1
    <3>2. /\ Text(a, e) \in Seq(Chars) /\ Len(Text(a, e)) = e - a
          /\ \A j \in 1..(e - a) : Text(a, e)[j] = src[a + j]
      BY ONLY Typed, a \in 0..Len(src), <3>1, TextFacts
    <3> QED BY <3>2
  <2> QED BY <2>1, <2>2
<1> HIDE DEF s, t
<1>3. /\ Append(s, src[b + 1]) \in Seq(Chars) /\ Len(Append(s, src[b + 1])) = b - a + 1
      /\ \A j \in 1..(b - a) : Append(s, src[b + 1])[j] = s[j]
      /\ Append(s, src[b + 1])[b - a + 1] = src[b + 1]
  BY <1>1, <1>2, AppendProperties
<1>4. \A j \in 1..(b + 1 - a) : t[j] = Append(s, src[b + 1])[j]
  <2> TAKE j \in 1..(b + 1 - a)
  <2>1. CASE j \in 1..(b - a)
    BY <1>2, <1>3, <2>1
  <2>2. CASE j = b - a + 1
    <3>1. a + j = b + 1
      BY <1>1, <2>2
    <3> QED BY <1>2, <1>3, <2>2, <3>1
  <2>3. j \in 1..(b - a) \/ j = b - a + 1
    BY <1>1
  <2> QED BY <2>1, <2>2, <2>3
<1>5. Len(t) = Len(Append(s, src[b + 1]))
  BY <1>1, <1>2, <1>3
<1>6. t = Append(s, src[b + 1])
  BY <1>2, <1>3, <1>4, <1>5, SeqEqual
<1> QED BY <1>6 DEF s, t

-----------------------------------------------------------------------------
(***************************************************************************)
(* The source is never written                                             *)
(***************************************************************************)

LEMMA SourceStays ==
  ASSUME src' = src
  PROVE  /\ Chars' = Chars /\ Tokens' = Tokens
         /\ \A n : (InQuotes(n)' <=> InQuotes(n)) /\ Breaks(n)' = Breaks(n)
         /\ \A n : LineAt(n)' = LineAt(n) /\ LineStart(n)' = LineStart(n)
         /\ \A a, b : Text(a, b)' = Text(a, b)
         /\ \A tok : (Spells(tok)' <=> Spells(tok)) /\ (PositionTrue(tok)' <=> PositionTrue(tok))
         /\ ErrorAt' = ErrorAt
<1>1. Chars' = Chars /\ Tokens' = Tokens
  BY DEF Chars, Tokens
<1>2. \A n : InQuotes(n)' <=> InQuotes(n)
  BY DEF InQuotes, Quotes
<1>3. \A n : Breaks(n)' = Breaks(n)
  BY <1>2 DEF Breaks
<1>4. \A n : LineAt(n)' = LineAt(n) /\ LineStart(n)' = LineStart(n)
  BY <1>3 DEF LineAt, LineStart
<1>5. \A a, b : Text(a, b)' = Text(a, b)
  BY DEF Text
<1>6. \A tok : Spells(tok)' <=> Spells(tok)
  BY <1>5 DEF Spells
<1>7. \A tok : PositionTrue(tok)' <=> PositionTrue(tok)
  BY <1>3 DEF PositionTrue
<1>8. ErrorAt' = ErrorAt
  <2>1. BadCharacters' = BadCharacters
    BY <1>2 DEF BadCharacters
  <2>2. LastQuote' = LastQuote
    BY DEF LastQuote
  <2> QED BY <1>2, <2>1, <2>2 DEF ErrorAt
<1> QED BY <1>1, <1>2, <1>3, <1>4, <1>5, <1>6, <1>7, <1>8

LEMMA LastEndFacts == Typed => LastEnd \in 0..Len(src)
<1> SUFFICES ASSUME Typed PROVE LastEnd \in 0..Len(src)
  OBVIOUS
<1>1. Len(tokens) \in Nat /\ \A m \in 1..Len(tokens) : tokens[m] \in Tokens
  BY LenProperties DEF Typed
<1>2. CASE tokens = <<>>
  BY <1>2, SourceFacts DEF LastEnd
<1>3. CASE tokens # <<>>
  <2>1. Len(tokens) \in 1..Len(tokens)
    BY <1>1, <1>3, EmptySeq DEF Typed
  <2> QED BY <1>1, <1>3, <2>1 DEF LastEnd, Tokens
<1> QED BY <1>2, <1>3

\* A token at the true position, in terms of the lines.
LEMMA PositionFacts ==
  \A tok : PositionTrue(tok) <=> /\ tok.line = LineAt(tok.from)
                                 /\ tok.column = tok.from + 1 - LineStart(tok.from)
BY DEF PositionTrue, LineAt, LineStart

\* A step that makes no token keeps what is known of the tokens.
LEMMA NothingPushed ==
  ASSUME Typed, NothingLost, src' = src, tokens' = tokens
  PROVE  NothingLost' /\ LastEnd' = LastEnd
<1>1. LastEnd' = LastEnd
  BY DEF LastEnd
<1>2. NothingLost'
  BY SourceStays DEF NothingLost
<1> QED BY <1>1, <1>2

\* A token that is spelled by the text from the last one on keeps it, too.
LEMMA TokenPushed ==
  ASSUME Typed, Covered, src' = src, NEW tok \in Tokens, tokens' = Append(tokens, tok),
         Spells(tok), PositionTrue(tok), tok.from = Begun, tok.from <= tok.to
  PROVE  /\ NothingLost' /\ LastEnd' = tok.to
         /\ tokens' \in Seq(Tokens) /\ Len(tokens') = Len(tokens) + 1
         /\ tokens'[Len(tokens) + 1] = tok
         /\ \A m \in 1..Len(tokens) : tokens'[m] = tokens[m]
<1> DEFINE n == Len(tokens)
<1>1. /\ n \in Nat /\ DOMAIN tokens = 1..n /\ tokens \in Seq(Tokens)
      /\ \A m \in 1..n : tokens[m] \in Tokens
  BY LenProperties DEF Typed
<1>2. /\ tokens' \in Seq(Tokens) /\ Len(tokens') = n + 1 /\ tokens'[n + 1] = tok
      /\ \A m \in 1..n : tokens'[m] = tokens[m]
  BY <1>1, AppendProperties
<1>3. DOMAIN tokens' = 1..(n + 1) /\ tokens' # <<>>
  BY <1>1, <1>2, LenProperties, EmptySeq
<1>4. LastEnd' = tok.to
  BY <1>2, <1>3 DEF LastEnd
<1>5. \A m \in 1..(n + 1) : m \in 1..n \/ m = n + 1
  BY <1>1
<1>6. \A m \in 1..(n + 1) : Spells(tokens[m])' /\ PositionTrue(tokens[m])'
  <2> TAKE m \in 1..(n + 1)
  <2>1. PICK t : t = tokens'[m]
    OBVIOUS
  <2>2. Spells(t) /\ PositionTrue(t)
    BY <1>1, <1>2, <1>5, <2>1 DEF Covered, NothingLost
  <2> QED BY <2>1, <2>2, SourceStays
<1>7. ASSUME NEW m \in 1..(n + 1)
      PROVE  LET end == IF m - 1 = 0 THEN 0 ELSE tokens'[m - 1].to
             IN  /\ end <= tokens'[m].from
                 /\ Range(Text(end, tokens'[m].from)) \subseteq Blanks \cup {Newline}
  <2>1. CASE m \in 1..n
    <3>1. m - 1 # 0 => tokens'[m - 1] = tokens[m - 1]
      BY <1>1, <1>2, <2>1
    <3>2. tokens'[m] = tokens[m]
      BY <1>2, <2>1
    <3> QED BY <1>1, <2>1, <3>1, <3>2 DEF Covered, NothingLost
  <2>2. CASE m = n + 1
    <3>1. n # 0 <=> tokens # <<>>
      BY <1>1, EmptySeq
    <3>2. (IF m - 1 = 0 THEN 0 ELSE tokens'[m - 1].to) = LastEnd
      <4>1. m - 1 = n /\ (n # 0 => n \in 1..n)
        BY <1>1, <2>2
      <4> QED BY <1>2, <3>1, <4>1 DEF LastEnd
    <3>3. LastEnd \in 0..Len(src) /\ Begun \in LastEnd..Len(src)
      <4>1. LastEnd <= Begun /\ Begun \in 0..Len(src)
        BY DEF Covered, Tokens
      <4> QED BY <4>1, LastEndFacts, SourceFacts
    <3>4. Range(Text(LastEnd, Begun)) \subseteq Blanks \cup {Newline}
      BY <3>3, TextFacts DEF Covered
    <3> QED BY <1>2, <2>2, <3>2, <3>4 DEF Covered
  <2> QED BY <1>5, <2>1, <2>2
<1>8. NothingLost'
  <2>1. \A a, b : Text(a, b)' = Text(a, b)
    BY SourceStays
  <2>2. ASSUME NEW m \in 1..(n + 1)
        PROVE  LET ends(k) == IF k = 0 THEN 0 ELSE tokens[k].to
               IN  (/\ ends(m - 1) <= tokens[m].from
                    /\ Range(Text(ends(m - 1), tokens[m].from)) \subseteq Blanks \cup {Newline})'
    BY <1>7, <2>1
  <2> QED BY <1>3, <1>6, <2>2 DEF NothingLost
<1> QED BY <1>2, <1>4, <1>8

-----------------------------------------------------------------------------
(***************************************************************************)
(* The invariant is kept: one character more                               *)
(***************************************************************************)

\* pos moves over a character that ends no line.
LEMMA LineGoesOn ==
  ASSUME Typed, Placed, pos < Len(src), src[pos + 1] # Newline \/ InQuotes(pos), Advance,
         NEW p, p = pos + 1
  PROVE  /\ p \in 1..Len(src) /\ pos' = p
         /\ line' = LineAt(p) /\ col' = p + 1 - LineStart(p)
         /\ Breaks(p) = Breaks(pos)
<1>1. pos \in 0..(Len(src) - 1) /\ pos + 1 \in 0..Len(src) /\ col \in Int
  BY SourceFacts DEF Typed
<1>2. Breaks(pos + 1) = Breaks(pos)
  BY <1>1, BreakSteps
<1>3. LineAt(pos + 1) = LineAt(pos) /\ LineStart(pos + 1) = LineStart(pos)
  BY <1>2 DEF LineAt, LineStart
<1>4. LineStart(pos) \in Int
  <2>1. pos \in Nat /\ Breaks(pos) \in SUBSET (0..pos)
    BY <1>1 DEF Breaks
  <2>2. Breaks(pos) # {} => Max(Breaks(pos)) \in Breaks(pos)
    BY <2>1, MaxExists
  <2>3. Breaks(pos) # {} => Max(Breaks(pos)) \in Int
    BY <2>1, <2>2
  <2> QED BY <2>3 DEF LineStart
<1> QED BY <1>1, <1>2, <1>3, <1>4 DEF Placed, Advance

\* Line and column after a step, from where the next or current token begins.
LEMMA PlacedAgain ==
  ASSUME src' = src, NEW p, NEW b, pos' = p, Begun' = b,
         line' = LineAt(p), col' = p + 1 - LineStart(p), Breaks(b) = Breaks(p),
         mode' \in {"word", "number", "string"} => start_col' = b + 1 - LineStart(b)
  PROVE  Placed'
BY SourceStays DEF Placed

\* A character of the language, or any inside a literal, has been read.
LEMMA CharacterAccepted ==
  ASSUME Typed, Accepted, ~has_error, pos < Len(src), src[pos + 1] \in Valid \/ InQuotes(pos),
         src' = src, NEW p, p = pos + 1, pos' = p, mode' # "done",
         mode' = "string" <=> (InQuotes(pos) <=> src[pos + 1] # Quote)
  PROVE  Accepted'
<1>1. pos \in 0..(Len(src) - 1) /\ pos \in Nat
  BY SourceFacts DEF Typed
<1>2. InQuotes(p) <=> mode' = "string"
  BY <1>1, QuoteSteps
<1>3. \A j \in 0..(p - 1) : src[j + 1] \in Valid \/ InQuotes(j)
  <2> TAKE j \in 0..(p - 1)
  <2>1. j = pos \/ j \in 0..(pos - 1)
    BY <1>1
  <2> QED BY <2>1 DEF Accepted
<1> QED BY <1>2, <1>3, SourceStays DEF Accepted

\* Nothing is said about the end before it has come.
LEMMA NotEndedYet ==
  ASSUME Ended, src' = src, tokens' = tokens, has_error' = has_error,
         mode # "done", mode' # "done"
  PROVE  Ended'
BY SourceStays DEF Ended

\* The tokens end before pos, also if it moves on.
LEMMA EarlierTokens ==
  ASSUME Typed, pos' = pos + 1
  PROVE  \A n \in 1..Len(tokens) : tokens[n].from <= tokens[n].to /\ tokens[n].to <= pos'
<1> TAKE n \in 1..Len(tokens)
<1>1. tokens[n] \in Tokens /\ tokens[n].from <= tokens[n].to /\ tokens[n].to <= pos
  BY LenProperties DEF Typed
<1>2. tokens[n].to \in 0..Len(src) /\ pos \in 0..Len(src) /\ Len(src) \in Nat
  <2>1. tokens[n].to \in 0..Len(src)
    BY <1>1 DEF Tokens
  <2> QED BY <2>1, SourceFacts DEF Typed
<1> QED BY <1>1, <1>2

\* Types of a step over one character.
LEMMA TypedMoves ==
  ASSUME Typed, pos < Len(src), src' = src, Advance, start' = start, start_col' = start_col,
         value' \in (-IntMax - 1)..IntMax, tokens' = tokens, has_error' = has_error,
         mode' = mode
  PROVE  Typed'
<1>1. Tokens' = Tokens /\ Len(src) \in Nat
  BY SourceStays, SourceFacts
<1>2. /\ pos' \in 0..Len(src) /\ pos' = pos + 1 /\ start \in 0..pos'
      /\ line \in 1..(pos' + 1) /\ col + 1 \in 1..(pos' + 1) /\ start_col \in 1..(pos' + 1)
  BY <1>1 DEF Typed, Advance
<1>3. \A n \in 1..Len(tokens) : tokens[n].from <= tokens[n].to /\ tokens[n].to <= pos'
  BY <1>2, EarlierTokens
<1> QED BY <1>1, <1>2, <1>3 DEF Typed, Advance

LEMMA SkipBlankIInv ==
  ASSUME IInv, SkipBlank
  PROVE  IInv'
<1>1. /\ mode = "between" /\ ~has_error /\ pos < Len(src) /\ src[pos + 1] \in Blanks
      /\ src' = src /\ mode' = mode /\ start' = start /\ start_col' = start_col
      /\ value' \in (-IntMax - 1)..IntMax /\ tokens' = tokens /\ has_error' = has_error
      /\ Advance
  BY SourceFacts DEF IInv, Typed, SkipBlank, Between, NextIs, AtEnd
<1>2. /\ src[pos + 1] \in Valid /\ src[pos + 1] # Newline /\ src[pos + 1] # Quote
  BY <1>1, CharactersAssumption DEF Valid
<1> PICK p : p = pos + 1
  OBVIOUS
<1>3. /\ p \in 1..Len(src) /\ pos' = p /\ line' = LineAt(p)
      /\ col' = p + 1 - LineStart(p) /\ Breaks(p) = Breaks(pos)
  BY <1>1, <1>2, LineGoesOn DEF IInv
<1>4. Typed'
  BY <1>1, TypedMoves DEF IInv
<1>5. Scanning'
  BY <1>1 DEF Scanning
<1>6. Begun = pos /\ Begun' = p
  BY <1>1, <1>3 DEF Begun
<1>7. Placed'
  BY <1>1, <1>3, <1>6, PlacedAgain DEF IInv, Typed
<1>8. Accepted'
  BY <1>1, <1>2, <1>3, CharacterAccepted DEF IInv, Accepted
<1>9. Covered'
  <2>1. NothingLost' /\ LastEnd' = LastEnd
    BY <1>1, NothingPushed DEF IInv, Covered
  <2>2. LastEnd <= pos /\ \A j \in (LastEnd + 1)..pos : src[j] \in Blanks \cup {Newline}
    BY <1>6 DEF IInv, Covered
  <2>3. LastEnd \in Int /\ pos \in Int
    BY LastEndFacts DEF IInv, Typed
  <2> QED BY <1>1, <1>6, <2>1, <2>2, <2>3 DEF Covered
<1>10. Ended'
  BY <1>1, NotEndedYet DEF IInv
<1> QED BY <1>4, <1>5, <1>7, <1>8, <1>9, <1>10 DEF IInv

LEMMA SkipNewlineIInv ==
  ASSUME IInv, SkipNewline
  PROVE  IInv'
<1>1. /\ mode = "between" /\ ~has_error /\ pos < Len(src) /\ src[pos + 1] = Newline
      /\ src' = src /\ mode' = mode /\ start' = start /\ start_col' = start_col
      /\ value' = value /\ tokens' = tokens /\ has_error' = has_error
      /\ pos' = pos + 1 /\ line' = line + 1 /\ col' = 1
  BY SourceFacts DEF IInv, Typed, SkipNewline, Between, NextIs, AtEnd
<1>2. src[pos + 1] \in Valid /\ src[pos + 1] # Quote
  BY <1>1, CharactersAssumption DEF Valid
<1>3. ~InQuotes(pos) /\ pos \in 0..(Len(src) - 1) /\ pos \in Nat
  BY <1>1, SourceFacts DEF IInv, Typed, Accepted
<1> PICK p : p = pos + 1
  OBVIOUS
<1>4. line' = LineAt(p) /\ col' = p + 1 - LineStart(p)
  <2>1. LineAt(p) = LineAt(pos) + 1 /\ LineStart(p) = p
    BY <1>1, <1>3, BreakSteps DEF IInv
  <2> QED BY <1>1, <1>3, <2>1 DEF IInv, Placed
<1>5. Typed'
  <2>1. Tokens' = Tokens /\ Len(src) \in Nat
    BY <1>1, SourceStays, SourceFacts DEF IInv
  <2>2. /\ pos' \in 0..Len(src) /\ start \in 0..pos' /\ line' \in 1..(pos' + 1)
        /\ col' \in 1..(pos' + 1) /\ start_col \in 1..(pos' + 1)
    BY <1>1, <2>1 DEF IInv, Typed
  <2>3. \A n \in 1..Len(tokens) : tokens[n].from <= tokens[n].to /\ tokens[n].to <= pos'
    BY <1>1, EarlierTokens DEF IInv
  <2> QED BY <1>1, <2>1, <2>2, <2>3 DEF IInv, Typed
<1>6. Scanning'
  BY <1>1 DEF Scanning
<1>7. Begun = pos /\ Begun' = p
  BY <1>1 DEF Begun
<1>8. Placed'
  BY <1>1, <1>4, <1>7, PlacedAgain
<1>9. Accepted'
  BY <1>1, <1>2, <1>3, CharacterAccepted DEF IInv
<1>10. Covered'
  <2>1. NothingLost' /\ LastEnd' = LastEnd
    BY <1>1, NothingPushed DEF IInv, Covered
  <2>2. LastEnd <= pos /\ \A j \in (LastEnd + 1)..pos : src[j] \in Blanks \cup {Newline}
    BY <1>7 DEF IInv, Covered
  <2>3. LastEnd \in Int
    BY LastEndFacts, SourceFacts DEF IInv
  <2> QED BY <1>1, <1>3, <1>7, <2>1, <2>2, <2>3 DEF Covered
<1>11. Ended'
  BY <1>1, NotEndedYet DEF IInv
<1> QED BY <1>5, <1>6, <1>8, <1>9, <1>10, <1>11 DEF IInv

\* The text read so far grows by one.
LEMMA WithinGrows ==
  ASSUME Typed, NEW S, Within(S), src' = src, start' = start, pos' = pos + 1,
         src[pos + 1] \in S
  PROVE  Within(S)'
<1>1. \A j \in (start + 1)..(pos + 1) : j \in (start + 1)..pos \/ j = pos + 1
  BY SourceFacts DEF Typed
<1> QED BY <1>1 DEF Within

\* A step inside a scan function leaves what is between the tokens.
LEMMA CoveredInside ==
  ASSUME Typed, Covered, src' = src, tokens' = tokens, Begun' = Begun
  PROVE  Covered'
BY NothingPushed DEF Covered

LEMMA InWordIInv ==
  ASSUME IInv, InWord
  PROVE  IInv'
<1>1. /\ mode = "word" /\ ~has_error /\ pos < Len(src) /\ src[pos + 1] \in WordChars
      /\ src' = src /\ mode' = mode /\ start' = start /\ start_col' = start_col
      /\ value' \in (-IntMax - 1)..IntMax /\ tokens' = tokens /\ has_error' = has_error
      /\ Advance
  BY SourceFacts DEF IInv, Typed, Scanning, InWord, NextIs, AtEnd
<1>2. /\ src[pos + 1] \in Valid /\ src[pos + 1] # Newline /\ src[pos + 1] # Quote
  BY <1>1, CharactersAssumption DEF Valid
<1> PICK p : p = pos + 1
  OBVIOUS
<1>3. /\ p \in 1..Len(src) /\ pos' = p /\ line' = LineAt(p)
      /\ col' = p + 1 - LineStart(p) /\ Breaks(p) = Breaks(pos)
  BY <1>1, <1>2, LineGoesOn DEF IInv
<1>4. Typed'
  BY <1>1, TypedMoves DEF IInv
<1>5. Scanning'
  <2>1. Within(WordChars)'
    BY <1>1, <1>3, WithinGrows DEF IInv, Scanning
  <2> QED BY <1>1, <2>1 DEF IInv, Scanning
<1>6. Begun = start /\ Begun' = start
  BY <1>1 DEF Begun
<1>7. Placed'
  BY <1>1, <1>3, <1>6, PlacedAgain DEF IInv, Placed
<1>8. Accepted'
  BY <1>1, <1>2, <1>3, CharacterAccepted DEF IInv, Accepted
<1>9. Covered'
  BY <1>1, <1>6, CoveredInside DEF IInv
<1>10. Ended'
  BY <1>1, NotEndedYet DEF IInv
<1> QED BY <1>4, <1>5, <1>7, <1>8, <1>9, <1>10 DEF IInv

\* The text read so far is a sequence over the characters of its kind.
LEMMA WithinText ==
  ASSUME Typed, NEW S, Within(S)
  PROVE  Text(start, pos) \in Seq(S) /\ Range(Text(start, pos)) \subseteq S
<1>1. start \in 0..Len(src) /\ pos \in start..Len(src) /\ Len(src) \in Nat
  BY SourceFacts DEF Typed
<1>2. Range(Text(start, pos)) \subseteq S
  BY <1>1, TextFacts DEF Within
<1>3. Text(start, pos) \in Seq(Chars) /\ DOMAIN Text(start, pos) = 1..(pos - start)
      /\ Len(Text(start, pos)) = pos - start
  BY <1>1, TextFacts, LenProperties
<1>4. \A j \in 1..Len(Text(start, pos)) : Text(start, pos)[j] \in S
  BY <1>2, <1>3 DEF Range
<1>5. Text(start, pos) \in Seq(S)
  BY <1>3, <1>4, SeqDef
<1> QED BY <1>2, <1>5

LEMMA InNumberIInv ==
  ASSUME IInv, InNumber
  PROVE  IInv'
<1>1. /\ mode = "number" /\ ~has_error /\ pos < Len(src) /\ src[pos + 1] \in Digits
      /\ src' = src /\ mode' = mode /\ start' = start /\ start_col' = start_col
      /\ value' \in Accumulate(value, DigitValue[src[pos + 1]])
      /\ tokens' = tokens /\ has_error' = has_error /\ Advance
  BY SourceFacts DEF IInv, Typed, Scanning, InNumber, NextIs, AtEnd
<1>2. /\ src[pos + 1] \in Valid /\ src[pos + 1] # Newline /\ src[pos + 1] # Quote
  BY <1>1, CharactersAssumption DEF Valid, WordChars
<1> PICK p : p = pos + 1
  OBVIOUS
<1>3. /\ p \in 1..Len(src) /\ pos' = p /\ line' = LineAt(p)
      /\ col' = p + 1 - LineStart(p) /\ Breaks(p) = Breaks(pos)
  BY <1>1, <1>2, LineGoesOn DEF IInv
<1>4. Typed'
  <2>1. value' \in (-IntMax - 1)..IntMax
    BY <1>1, DigitsAssumption DEF Accumulate
  <2> QED BY <1>1, <2>1, TypedMoves DEF IInv
<1>5. Scanning'
  <2>1. Within(Digits)'
    BY <1>1, <1>3, WithinGrows DEF IInv, Scanning
  <2> DEFINE t == Text(start, pos)
             d == DigitValue[src[pos + 1]]
  <2>2. t \in Seq(Digits)
    BY <1>1, WithinText DEF IInv, Scanning
  <2>3. Text(start, p) = Append(t, src[pos + 1])
    <3>1. start \in 0..Len(src) /\ pos \in start..(Len(src) - 1)
      BY <1>1, SourceFacts DEF IInv, Typed
    <3> QED BY <3>1, TextGrows DEF IInv
  <2>4. /\ Number(t) \in Nat /\ Number(Text(start, p)) = Number(t) * 10 + d
        /\ d \in 0..9 /\ IntMax \in Nat
    BY <1>1, <2>2, <2>3, NumberFacts, DigitsAssumption
  <2>5. Number(t) <= IntMax => value = Number(t)
    BY <1>1 DEF IInv, Scanning
  <2>6. Number(Text(start, p)) <= IntMax => value' = Number(Text(start, p))
    <3> SUFFICES ASSUME Number(Text(start, p)) <= IntMax
                 PROVE  value' = Number(Text(start, p))
      OBVIOUS
    <3> HIDE DEF t, d
    <3>1. value = Number(t)
      BY <2>4, <2>5
    <3>2. value * 10 + d \in (-IntMax - 1)..IntMax
      BY <2>4, <3>1
    <3>3. value' \in Accumulate(value, d)
      BY <1>1 DEF d
    <3> QED BY <2>4, <3>1, <3>2, <3>3 DEF Accumulate
  <2>7. Text(start, pos)' = Text(start, p)
    BY <1>1, <1>3, SourceStays
  <2> QED BY <1>1, <2>1, <2>6, <2>7 DEF IInv, Scanning
<1>6. Begun = start /\ Begun' = start
  BY <1>1 DEF Begun
<1>7. Placed'
  BY <1>1, <1>3, <1>6, PlacedAgain DEF IInv, Placed
<1>8. Accepted'
  BY <1>1, <1>2, <1>3, CharacterAccepted DEF IInv, Accepted
<1>9. Covered'
  BY <1>1, <1>6, CoveredInside DEF IInv
<1>10. Ended'
  BY <1>1, NotEndedYet DEF IInv
<1> QED BY <1>4, <1>5, <1>7, <1>8, <1>9, <1>10 DEF IInv

LEMMA InStringIInv ==
  ASSUME IInv, InString
  PROVE  IInv'
<1>1. /\ mode = "string" /\ ~has_error /\ pos < Len(src) /\ src[pos + 1] # Quote
      /\ src' = src /\ mode' = mode /\ start' = start /\ start_col' = start_col
      /\ value' \in (-IntMax - 1)..IntMax /\ tokens' = tokens /\ has_error' = has_error
      /\ Advance
  BY SourceFacts DEF IInv, Typed, Scanning, InString, NextIs, AtEnd
<1>2. InQuotes(pos)
  BY <1>1 DEF IInv, Accepted
<1> PICK p : p = pos + 1
  OBVIOUS
<1>3. /\ p \in 1..Len(src) /\ pos' = p /\ line' = LineAt(p)
      /\ col' = p + 1 - LineStart(p) /\ Breaks(p) = Breaks(pos)
  BY <1>1, <1>2, LineGoesOn DEF IInv
<1>4. Typed'
  BY <1>1, TypedMoves DEF IInv
<1>5. Scanning'
  <2>1. \A j \in (start + 1)..p : src[j] # Quote
    <3>1. \A j \in (start + 1)..p : j \in (start + 1)..pos \/ j = p
      BY SourceFacts DEF IInv, Typed
    <3> QED BY <1>1, <3>1 DEF IInv, Scanning
  <2> QED BY <1>1, <1>3, <2>1 DEF IInv, Scanning
<1> PICK b : b = start - 1
  OBVIOUS
<1>6. Begun = b /\ Begun' = b
  BY <1>1 DEF Begun
<1>7. Placed'
  BY <1>1, <1>3, <1>6, PlacedAgain DEF IInv, Placed
<1>8. Accepted'
  BY <1>1, <1>2, <1>3, CharacterAccepted DEF IInv, Accepted
<1>9. Covered'
  BY <1>1, <1>6, CoveredInside DEF IInv
<1>10. Ended'
  BY <1>1, NotEndedYet DEF IInv
<1> QED BY <1>4, <1>5, <1>7, <1>8, <1>9, <1>10 DEF IInv

-----------------------------------------------------------------------------
(***************************************************************************)
(* The invariant is kept: a scan function begins                           *)
(***************************************************************************)

\* Nothing has been read yet.
LEMMA BeginsHere ==
  ASSUME IInv, mode = "between", mode' \in {"word", "number"}, start' = pos, start_col' = col,
         value' \in (-IntMax - 1)..IntMax, UNCHANGED <<src, pos, line, col, tokens, has_error>>,
         ~has_error
  PROVE  Typed' /\ Placed' /\ Accepted' /\ Covered' /\ Ended'
<1>1. Begun = pos /\ Begun' = pos
  BY DEF Begun
<1>2. Typed'
  BY SourceStays, SourceFacts DEF IInv, Typed
<1>3. Placed'
  BY <1>1, SourceStays DEF IInv, Placed
<1>4. Accepted'
  BY SourceStays DEF IInv, Accepted
<1>5. Covered'
  BY <1>1, CoveredInside DEF IInv
<1>6. Ended'
  BY NotEndedYet DEF IInv
<1> QED BY <1>2, <1>3, <1>4, <1>5, <1>6

LEMMA BeginWordIInv ==
  ASSUME IInv, BeginWord
  PROVE  IInv'
<1>1. /\ mode = "between" /\ ~has_error /\ pos < Len(src) /\ src[pos + 1] \in Letters
      /\ mode' = "word" /\ start' = pos /\ start_col' = col /\ value' = value
      /\ UNCHANGED <<src, pos, line, col, tokens, has_error>>
  BY SourceFacts DEF IInv, Typed, BeginWord, Between, NextIs, AtEnd
<1>2. Scanning'
  BY <1>1, SourceFacts DEF IInv, Typed, Scanning, Within
<1> QED BY <1>1, <1>2, BeginsHere DEF IInv, Typed

LEMMA BeginNumberIInv ==
  ASSUME IInv, BeginNumber
  PROVE  IInv'
<1>1. /\ mode = "between" /\ ~has_error /\ pos < Len(src) /\ src[pos + 1] \in Digits
      /\ mode' = "number" /\ start' = pos /\ start_col' = col /\ value' = 0
      /\ UNCHANGED <<src, pos, line, col, tokens, has_error>>
  BY SourceFacts DEF IInv, Typed, BeginNumber, Between, NextIs, AtEnd
<1>2. value' \in (-IntMax - 1)..IntMax
  BY <1>1, DigitsAssumption
<1>3. Scanning'
  <2>1. Text(pos, pos) = <<>>
    <3>1. pos \in 0..Len(src) /\ pos \in pos..Len(src) /\ pos - pos = 0
      BY SourceFacts DEF IInv, Typed
    <3>2. Text(pos, pos) \in Seq(Chars) /\ Len(Text(pos, pos)) = 0
      BY <3>1, TextFacts DEF IInv
    <3> QED BY <3>2, EmptySeq
  <2>2. Text(start, pos)' = Text(pos, pos)
    BY <1>1, SourceStays
  <2>3. Number(Text(start, pos)') = 0
    BY <2>1, <2>2, NumberFacts
  <2>4. Within(Digits)'
    BY <1>1, SourceFacts DEF IInv, Typed, Within
  <2> QED BY <1>1, <2>3, <2>4 DEF Scanning
<1> QED BY <1>1, <1>2, <1>3, BeginsHere DEF IInv

LEMMA BeginStringIInv ==
  ASSUME IInv, BeginString
  PROVE  IInv'
<1>1. /\ mode = "between" /\ ~has_error /\ pos < Len(src) /\ src[pos + 1] = Quote
      /\ src' = src /\ mode' = "string" /\ start' = pos + 1 /\ start_col' = col
      /\ value' = value /\ tokens' = tokens /\ has_error' = has_error /\ Advance
  BY SourceFacts DEF IInv, Typed, BeginString, Between, NextIs, AtEnd
<1>2. src[pos + 1] \in Valid /\ src[pos + 1] # Newline /\ ~InQuotes(pos)
  BY <1>1, CharactersAssumption DEF IInv, Accepted, Valid
<1> PICK p : p = pos + 1
  OBVIOUS
<1>3. /\ p \in 1..Len(src) /\ pos' = p /\ line' = LineAt(p)
      /\ col' = p + 1 - LineStart(p) /\ Breaks(p) = Breaks(pos)
  BY <1>1, <1>2, LineGoesOn DEF IInv
<1> PICK b : b = pos
  OBVIOUS
<1>4. Begun = b /\ Begun' = b
  BY <1>1, SourceFacts DEF Begun, IInv, Typed
<1>5. Typed'
  <2>1. Tokens' = Tokens /\ Len(src) \in Nat
    BY <1>1, SourceStays, SourceFacts DEF IInv
  <2>2. /\ pos' \in 0..Len(src) /\ start' \in 0..pos' /\ line' \in 1..(pos' + 1)
        /\ col' \in 1..(pos' + 1) /\ start_col' \in 1..(pos' + 1)
    BY <1>1, <2>1 DEF IInv, Typed, Advance
  <2>3. \A n \in 1..Len(tokens) : tokens[n].from <= tokens[n].to /\ tokens[n].to <= pos'
    BY <1>1, <1>3, EarlierTokens DEF IInv
  <2> QED BY <1>1, <2>1, <2>2, <2>3 DEF IInv, Typed
<1>6. Scanning'
  BY <1>1, <1>3 DEF IInv, Scanning
<1>7. Placed'
  BY <1>1, <1>3, <1>4, PlacedAgain DEF IInv, Placed
<1>8. Accepted'
  BY <1>1, <1>2, <1>3, CharacterAccepted DEF IInv, Accepted
<1>9. Covered'
  BY <1>1, <1>4, CoveredInside DEF IInv
<1>10. Ended'
  BY <1>1, NotEndedYet DEF IInv
<1> QED BY <1>5, <1>6, <1>7, <1>8, <1>9, <1>10 DEF IInv

-----------------------------------------------------------------------------
(***************************************************************************)
(* The invariant is kept: a token is made                                  *)
(***************************************************************************)

LEMMA BegunFacts ==
  ASSUME IInv
  PROVE  Begun \in 0..Len(src) /\ Begun <= pos
<1>1. Len(src) \in Nat
  BY SourceFacts DEF IInv
<1>2. mode = "string" => start > 0
  BY DEF IInv, Scanning
<1> QED BY <1>1, <1>2 DEF IInv, Typed, Begun

\* What every token is made of.
LEMMA TokenMade ==
  ASSUME IInv, src' = src, NEW tok \in Tokens, tokens' = Append(tokens, tok),
         Spells(tok), tok.line = line, tok.column = Begun + 1 - LineStart(Begun),
         tok.from = Begun, tok.to = pos', pos' = pos \/ pos' = pos + 1, pos' <= Len(src),
         mode' \in {"between", "done"}, has_error' \in BOOLEAN,
         start' = start, start_col' = start_col, value' = value, line' = line,
         col' \in 1..(pos' + 1)
  PROVE  /\ Typed' /\ Covered'
         /\ Len(tokens) \in Nat /\ Len(tokens') = Len(tokens) + 1
         /\ tokens'[Len(tokens) + 1] = tok
         /\ \A m \in 1..Len(tokens) : tokens'[m] = tokens[m]
<1>1. Begun \in 0..Len(src) /\ Begun <= pos /\ pos \in 0..Len(src) /\ Len(src) \in Nat
  BY BegunFacts, SourceFacts DEF IInv, Typed
<1>2. pos' \in 0..Len(src) /\ tok.from <= tok.to
  BY <1>1
<1>3. PositionTrue(tok)
  <2>1. line = LineAt(Begun)
    BY DEF IInv, Placed, LineAt
  <2> QED BY <2>1, PositionFacts
<1>4. /\ NothingLost' /\ LastEnd' = tok.to
      /\ tokens' \in Seq(Tokens) /\ Len(tokens') = Len(tokens) + 1
      /\ tokens'[Len(tokens) + 1] = tok
      /\ \A m \in 1..Len(tokens) : tokens'[m] = tokens[m]
  BY <1>2, <1>3, TokenPushed DEF IInv
<1>5. Len(tokens) \in Nat
  BY LenProperties DEF IInv, Typed
<1>6. Covered'
  <2>1. Begun' = pos'
    BY DEF Begun
  <2>2. LastEnd' = pos' /\ pos' \in Int
    BY <1>1, <1>2, <1>4
  <2>3. LastEnd' <= Begun' /\ \A j \in (LastEnd' + 1)..Begun' : FALSE
    <3>1. ASSUME NEW q \in Int PROVE q <= q /\ \A j \in (q + 1)..q : FALSE
      OBVIOUS
    <3> QED BY <2>1, <2>2, <3>1
  <2> QED BY <1>4, <2>3 DEF Covered
<1>7. Typed'
  <2>1. Tokens' = Tokens
    BY SourceStays
  <2>2. start \in 0..pos' /\ line \in 1..(pos' + 1) /\ start_col \in 1..(pos' + 1)
    BY <1>1 DEF IInv, Typed
  <2>3. \A m \in 1..(Len(tokens) + 1) :
          tokens'[m].from <= tokens'[m].to /\ tokens'[m].to <= pos'
    <3> TAKE m \in 1..(Len(tokens) + 1)
    <3>1. CASE m = Len(tokens) + 1
      BY <1>1, <1>2, <1>4, <3>1
    <3>2. CASE m \in 1..Len(tokens)
      <4>1. tokens[m] \in Tokens /\ tokens[m].from <= tokens[m].to /\ tokens[m].to <= pos
        BY <3>2, LenProperties DEF IInv, Typed
      <4>2. tokens[m].to \in 0..Len(src)
        BY <4>1 DEF Tokens
      <4> QED BY <1>1, <1>4, <3>2, <4>1, <4>2
    <3> QED BY <1>5, <3>1, <3>2
  <2> QED BY <1>2, <1>4, <2>1, <2>2, <2>3 DEF IInv, Typed
<1> QED BY <1>4, <1>5, <1>6, <1>7

\* A token of the language, after which the loop of tokenize goes on.
LEMMA TokenAccepted ==
  ASSUME IInv, src' = src, NEW tok \in Tokens, tokens' = Append(tokens, tok),
         Spells(tok), tok.line = line, tok.column = Begun + 1 - LineStart(Begun),
         tok.from = Begun, tok.to = pos', pos' = pos \/ pos' = pos + 1, pos' <= Len(src),
         tok.kind \notin {"eof", "invalid"},
         mode # "done", ~has_error, mode' = "between", has_error' = FALSE,
         start' = start, start_col' = start_col, value' = value, line' = line,
         col' \in 1..(pos' + 1)
  PROVE  Typed' /\ Scanning' /\ Covered' /\ Ended'
<1>1. /\ Typed' /\ Covered'
      /\ Len(tokens) \in Nat /\ Len(tokens') = Len(tokens) + 1
      /\ tokens'[Len(tokens) + 1] = tok
      /\ \A m \in 1..Len(tokens) : tokens'[m] = tokens[m]
  BY TokenMade
<1>2. Scanning'
  BY DEF Scanning
<1>3. ASSUME NEW m \in 1..(Len(tokens) + 1)
      PROVE  tokens'[m].kind # "eof" /\ tokens'[m].kind # "invalid"
  <2>1. CASE m = Len(tokens) + 1
    BY <1>1, <2>1
  <2>2. CASE m \in 1..Len(tokens)
    BY <1>1, <2>2 DEF IInv, Ended
  <2> QED BY <1>1, <2>1, <2>2
<1>4. Ended'
  BY <1>1, <1>3 DEF Ended
<1> QED BY <1>1, <1>2, <1>4

LEMMA ScanPunctuationIInv ==
  ASSUME IInv, ScanPunctuation
  PROVE  IInv'
<1> DEFINE c == src[pos + 1]
           tok == Token(c, Text(pos, pos + 1), col, 0, pos, pos + 1)
<1>1. /\ mode = "between" /\ ~has_error /\ pos < Len(src) /\ c \in Punctuation
      /\ src' = src /\ mode' = mode /\ start' = start /\ start_col' = start_col
      /\ value' = value /\ tokens' = Append(tokens, tok) /\ has_error' = has_error /\ Advance
  BY SourceFacts DEF IInv, Typed, ScanPunctuation, Between, NextIs, AtEnd, Push
<1>2. /\ c \in Valid /\ c # Newline /\ c # Quote /\ c \notin OtherKinds
  BY <1>1, CharactersAssumption, KindsAssumption DEF Valid
<1> PICK p : p = pos + 1
  OBVIOUS
<1>3. /\ p \in 1..Len(src) /\ pos' = p /\ line' = LineAt(p)
      /\ col' = p + 1 - LineStart(p) /\ Breaks(p) = Breaks(pos)
  BY <1>1, <1>2, LineGoesOn DEF IInv
<1>4. Begun = pos /\ Begun' = p
  BY <1>1, <1>3 DEF Begun
<1>5. Text(pos, p) \in Seq(Chars) /\ Text(pos, p) = <<c>>
  <2>1. pos \in 0..Len(src) /\ p \in pos..Len(src) /\ p - pos = 1 /\ 1 \in 1..1
    BY <1>1, <1>3, SourceFacts DEF IInv, Typed
  <2>2. Text(pos, p) \in Seq(Chars) /\ Len(Text(pos, p)) = 1 /\ Text(pos, p)[1] = c
    <3>1. Typed
      BY DEF IInv
    <3>2. /\ Text(pos, p) \in Seq(Chars) /\ Len(Text(pos, p)) = p - pos
          /\ \A j \in 1..(p - pos) : Text(pos, p)[j] = src[pos + j]
      BY ONLY <2>1, <3>1, TextFacts
    <3> QED BY <2>1, <3>2
  <2> QED BY <2>2
<1>6. tok \in Tokens
  <2>1. pos \in 0..Len(src) /\ p \in 0..Len(src) /\ line \in Nat /\ col \in Nat /\ 0 \in Int
        /\ c \in Kinds
    BY <1>1, <1>3, SourceFacts DEF IInv, Typed, Kinds
  <2> QED BY <1>5, <2>1 DEF Tokens, Token
<1>7. Spells(tok)
  <2>1. tok.kind = c /\ tok.lexeme = Text(pos, p) /\ tok.from = pos /\ tok.to = p
    BY DEF Token
  <2>2. c \notin {"keyword", "identifier"} /\ c # "int" /\ c # "string"
    BY <1>2 DEF OtherKinds
  <2> HIDE DEF tok, c
  <2> QED BY <1>1, <1>5, <2>1, <2>2 DEF Spells
<1>8. Typed' /\ Scanning' /\ Covered' /\ Ended'
  <2>1. /\ tok.line = line /\ tok.column = Begun + 1 - LineStart(Begun)
        /\ tok.from = Begun /\ tok.to = pos' /\ tok.kind \notin {"eof", "invalid"}
    BY <1>2, <1>3, <1>4 DEF Token, OtherKinds, IInv, Placed
  <2>2. pos' = pos + 1 /\ pos' <= Len(src) /\ line' = line /\ col' \in 1..(pos' + 1)
    BY <1>1, <1>3, SourceFacts DEF Advance, IInv, Typed
  <2>3. has_error' = FALSE
    BY <1>1 DEF IInv, Typed
  <2> HIDE DEF tok, c
  <2> QED BY <1>1, <1>6, <1>7, <2>1, <2>2, <2>3, TokenAccepted
<1>9. Placed'
  BY <1>1, <1>3, <1>4, PlacedAgain
<1>10. Accepted'
  BY <1>1, <1>2, <1>3, CharacterAccepted DEF IInv, Accepted
<1> QED BY <1>8, <1>9, <1>10 DEF IInv

\* A scan function that ends where it is: its token is the text it has read.
LEMMA TextRead ==
  ASSUME IInv, mode \in {"word", "number"}
  PROVE  /\ start \in 0..Len(src) /\ (pos \in (start + 1)..Len(src) \/ pos = start)
         /\ Text(start, pos) \in Seq(Chars) /\ Len(Text(start, pos)) = pos - start
         /\ pos # start => Text(start, pos)[1] = src[start + 1] /\ Text(start, pos) # <<>>
<1>1. start \in 0..Len(src) /\ pos \in start..Len(src) /\ Len(src) \in Nat
  BY SourceFacts DEF IInv, Typed
<1>2. /\ Text(start, pos) \in Seq(Chars) /\ Len(Text(start, pos)) = pos - start
      /\ \A j \in 1..(pos - start) : Text(start, pos)[j] = src[start + j]
  BY <1>1, TextFacts DEF IInv
<1>3. ASSUME pos # start
      PROVE  Text(start, pos)[1] = src[start + 1] /\ Text(start, pos) # <<>>
  <2>1. 1 \in 1..(pos - start) /\ pos - start # 0
    BY <1>1, <1>3
  <2> QED BY <1>2, <2>1, EmptySeq
<1> QED BY <1>1, <1>2, <1>3

LEMMA EndWordIInv ==
  ASSUME IInv, EndWord
  PROVE  IInv'
<1> DEFINE word == Text(start, pos)
           tok == Token(KindOf(word), word, start_col, 0, start, pos)
<1>1. /\ mode = "word" /\ ~has_error /\ ~NextIs(WordChars) /\ mode' = "between"
      /\ tokens' = Append(tokens, tok) /\ has_error' = FALSE
      /\ UNCHANGED <<src, pos, line, col, start, start_col, value>>
  BY DEF IInv, Typed, Scanning, EndWord, Push
<1>2. start < Len(src) /\ src[start + 1] \in Letters /\ Within(WordChars)
  BY <1>1 DEF IInv, Scanning
<1>3. pos # start
  BY <1>1, <1>2 DEF NextIs, AtEnd, WordChars
<1>4. /\ word \in Seq(Chars) /\ word[1] \in Letters /\ Range(word) \subseteq WordChars
  BY <1>1, <1>2, <1>3, TextRead, WithinText DEF IInv
<1>5. Begun = start /\ Begun' = pos
  BY <1>1 DEF Begun
<1>6. KindOf(word) \in {"keyword", "identifier"}
      /\ (KindOf(word) = "keyword" <=> IsKeyword(word))
  BY DEF KindOf
<1>7. tok \in Tokens
  <2>1. start \in 0..Len(src) /\ pos \in 0..Len(src) /\ line \in Nat /\ start_col \in Nat
        /\ 0 \in Int /\ KindOf(word) \in Kinds
    BY <1>6, SourceFacts DEF IInv, Typed, Kinds, OtherKinds
  <2> HIDE DEF word
  <2> QED BY <1>4, <2>1 DEF Tokens, Token
<1>8. Spells(tok)
  <2>1. tok.kind = KindOf(word) /\ tok.lexeme = word /\ tok.from = start /\ tok.to = pos
    BY DEF Token
  <2>2. ~(pos < Len(src) /\ src[pos + 1] \in WordChars)
    BY <1>1, SourceFacts DEF NextIs, AtEnd, IInv, Typed
  <2>3. Head(word) \in Letters
    BY <1>1, <1>3, <1>4, TextRead, HeadTailProperties
  <2>4. tok.kind \notin Punctuation /\ tok.kind # "int" /\ tok.kind # "string"
    BY <1>6, <2>1, KindsAssumption DEF OtherKinds
  <2> HIDE DEF tok, word
  <2> QED BY <1>4, <1>6, <2>1, <2>2, <2>3, <2>4 DEF Spells, word
<1>9. Typed' /\ Scanning' /\ Covered' /\ Ended'
  <2>1. /\ tok.line = line /\ tok.column = Begun + 1 - LineStart(Begun)
        /\ tok.from = Begun /\ tok.to = pos' /\ tok.kind \notin {"eof", "invalid"}
    BY <1>1, <1>5, <1>6 DEF Token, IInv, Placed
  <2>2. pos' = pos /\ pos' <= Len(src) /\ line' = line /\ col' \in 1..(pos' + 1)
    BY <1>1, SourceFacts DEF IInv, Typed
  <2> HIDE DEF tok
  <2> QED BY <1>1, <1>7, <1>8, <2>1, <2>2, TokenAccepted
<1>10. Placed'
  BY <1>1, <1>5, SourceStays DEF IInv, Placed
<1>11. Accepted'
  BY <1>1, SourceStays DEF IInv, Accepted
<1> QED BY <1>9, <1>10, <1>11 DEF IInv

LEMMA EndNumberIInv ==
  ASSUME IInv, EndNumber
  PROVE  IInv'
<1> DEFINE text == Text(start, pos)
           tok == Token("int", text, start_col, value, start, pos)
<1>1. /\ mode = "number" /\ ~has_error /\ ~NextIs(Digits) /\ mode' = "between"
      /\ tokens' = Append(tokens, tok) /\ has_error' = FALSE
      /\ UNCHANGED <<src, pos, line, col, start, start_col, value>>
  BY DEF IInv, Typed, Scanning, EndNumber, Push
<1>2. /\ start < Len(src) /\ src[start + 1] \in Digits /\ Within(Digits)
      /\ Number(text) <= IntMax => value = Number(text)
  BY <1>1 DEF IInv, Scanning
<1>3. pos # start
  BY <1>1, <1>2 DEF NextIs, AtEnd
<1>4. /\ text \in Seq(Chars) /\ text # <<>> /\ Range(text) \subseteq Digits
  BY <1>1, <1>2, <1>3, TextRead, WithinText DEF IInv
<1>5. Begun = start /\ Begun' = pos
  BY <1>1 DEF Begun
<1>6. tok \in Tokens
  <2>1. start \in 0..Len(src) /\ pos \in 0..Len(src) /\ line \in Nat /\ start_col \in Nat
        /\ value \in Int /\ "int" \in Kinds
    BY SourceFacts, DigitsAssumption DEF IInv, Typed, Kinds, OtherKinds
  <2> HIDE DEF text
  <2> QED BY <1>4, <2>1 DEF Tokens, Token
<1>7. Spells(tok)
  <2>1. /\ tok.kind = "int" /\ tok.lexeme = text /\ tok.from = start /\ tok.to = pos
        /\ tok.int_value = value
    BY DEF Token
  <2>2. ~(pos < Len(src) /\ src[pos + 1] \in Digits)
    BY <1>1, SourceFacts DEF NextIs, AtEnd, IInv, Typed
  <2>3. tok.kind \notin Punctuation
    BY <2>1, KindsAssumption DEF OtherKinds
  <2> HIDE DEF tok
  <2> QED BY <1>2, <1>4, <2>1, <2>2, <2>3 DEF Spells
<1>8. Typed' /\ Scanning' /\ Covered' /\ Ended'
  <2>1. /\ tok.line = line /\ tok.column = Begun + 1 - LineStart(Begun)
        /\ tok.from = Begun /\ tok.to = pos' /\ tok.kind \notin {"eof", "invalid"}
    BY <1>1, <1>5 DEF Token, IInv, Placed
  <2>2. pos' = pos /\ pos' <= Len(src) /\ line' = line /\ col' \in 1..(pos' + 1)
    BY <1>1, SourceFacts DEF IInv, Typed
  <2> HIDE DEF tok
  <2> QED BY <1>1, <1>6, <1>7, <2>1, <2>2, TokenAccepted
<1>9. Placed'
  BY <1>1, <1>5, SourceStays DEF IInv, Placed
<1>10. Accepted'
  BY <1>1, SourceStays DEF IInv, Accepted
<1> QED BY <1>8, <1>9, <1>10 DEF IInv

LEMMA EndStringIInv ==
  ASSUME IInv, EndString
  PROVE  IInv'
<1> DEFINE body == Text(start, pos)
           tok == Token("string", body, start_col, 0, start - 1, pos + 1)
<1>1. /\ mode = "string" /\ ~has_error /\ pos < Len(src) /\ src[pos + 1] = Quote
      /\ mode' = "between" /\ tokens' = Append(tokens, tok) /\ has_error' = FALSE
      /\ src' = src /\ start' = start /\ start_col' = start_col /\ value' = value /\ Advance
  BY SourceFacts DEF IInv, Typed, Scanning, EndString, Push, NextIs, AtEnd
<1>2. /\ start > 0 /\ src[start] = Quote /\ \A j \in (start + 1)..pos : src[j] # Quote
  BY <1>1 DEF IInv, Scanning
<1>3. InQuotes(pos) /\ Quote \in Valid /\ Quote # Newline
  BY <1>1, CharactersAssumption DEF IInv, Accepted, Valid
<1> PICK p : p = pos + 1
  OBVIOUS
<1>4. /\ p \in 1..Len(src) /\ pos' = p /\ line' = LineAt(p)
      /\ col' = p + 1 - LineStart(p) /\ Breaks(p) = Breaks(pos)
  BY <1>1, <1>3, LineGoesOn DEF IInv
<1>5. Begun = start - 1 /\ Begun' = p
  BY <1>1, <1>4 DEF Begun
<1>6. /\ start \in 1..Len(src) /\ start - 1 \in 0..Len(src) /\ pos \in start..Len(src)
      /\ start \in 0..Len(src) /\ p \in (start - 1)..Len(src) /\ Len(src) \in Nat
  BY <1>1, <1>2, <1>4, SourceFacts DEF IInv, Typed
<1>7. body \in Seq(Chars) /\ Len(body) = pos - start
      /\ \A j \in 1..(pos - start) : body[j] = src[start + j]
  BY <1>6, TextFacts DEF IInv
<1>8. Quote \notin Range(body)
  <2>1. \A j \in (start + 1)..pos : src[j] \in Chars \ {Quote}
    BY <1>2, <1>6, SourceFacts DEF IInv
  <2>2. Range(body) \subseteq Chars \ {Quote}
    BY <1>6, <2>1, TextFacts DEF IInv
  <2> QED BY <2>2
<1>9. Text(start - 1, p) = <<Quote>> \o body \o <<Quote>>
  <2> DEFINE whole == Text(start - 1, p)
             n == pos - start
  <2>1. n \in Nat /\ p - (start - 1) = n + 2
    BY <1>6
  <2>2. /\ whole \in Seq(Chars) /\ Len(whole) = n + 2
        /\ \A j \in 1..(n + 2) : whole[j] = src[start - 1 + j]
    <3>1. /\ whole \in Seq(Chars) /\ Len(whole) = p - (start - 1)
          /\ \A j \in 1..(p - (start - 1)) : whole[j] = src[start - 1 + j]
      BY <1>6, TextFacts DEF IInv
    <3> QED BY <2>1, <3>1
  <2>3. whole[1] = Quote /\ whole[n + 2] = Quote
    <3>1. 1 \in 1..(n + 2) /\ n + 2 \in 1..(n + 2)
          /\ start - 1 + 1 = start /\ start - 1 + (n + 2) = p
      BY <1>6, <2>1
    <3> QED BY <1>1, <1>2, <2>2, <3>1
  <2>4. \A j \in 1..n : whole[j + 1] = body[j]
    <3> TAKE j \in 1..n
    <3>1. j + 1 \in 1..(n + 2) /\ start - 1 + (j + 1) = start + j
      BY <1>6, <2>1
    <3> QED BY <1>7, <2>2, <3>1
  <2>5. Quote \in Chars /\ <<Quote>> \in Seq(Chars) /\ Len(<<Quote>>) = 1
    BY <1>2, <1>6, SourceFacts DEF IInv
  <2> HIDE DEF whole, body
  <2>6. /\ <<Quote>> \o body \in Seq(Chars) /\ Len(<<Quote>> \o body) = n + 1
        /\ \A j \in 1..(n + 1) : (<<Quote>> \o body)[j] = IF j = 1 THEN Quote ELSE body[j - 1]
    <3>1. /\ <<Quote>> \o body \in Seq(Chars) /\ Len(<<Quote>> \o body) = 1 + Len(body)
          /\ \A j \in 1..(1 + Len(body)) :
               (<<Quote>> \o body)[j] = IF j <= 1 THEN <<Quote>>[j] ELSE body[j - 1]
      BY <1>7, <2>5, ConcatProperties
    <3>2. \A j \in 1..(n + 1) : (j <= 1 <=> j = 1)
      BY <2>1
    <3> QED BY <1>7, <2>1, <3>1, <3>2
  <2> DEFINE left == <<Quote>> \o body
  <2> HIDE DEF left
  <2>7. /\ left \o <<Quote>> \in Seq(Chars) /\ Len(left \o <<Quote>>) = n + 2
        /\ \A j \in 1..(n + 2) : (left \o <<Quote>>)[j] = IF j <= n + 1 THEN left[j] ELSE Quote
    <3>1. left \in Seq(Chars) /\ Len(left) = n + 1
      BY <2>6 DEF left
    <3>2. /\ left \o <<Quote>> \in Seq(Chars) /\ Len(left \o <<Quote>>) = n + 1 + 1
          /\ \A j \in 1..(n + 1 + 1) :
               (left \o <<Quote>>)[j] = IF j <= n + 1 THEN left[j] ELSE <<Quote>>[j - (n + 1)]
      BY <2>5, <3>1, ConcatProperties
    <3>3. n + 1 + 1 = n + 2 /\ \A j \in 1..(n + 2) : j <= n + 1 \/ j - (n + 1) = 1
      BY <2>1
    <3> QED BY <3>2, <3>3
  <2>8. \A j \in 1..(n + 2) : whole[j] = (left \o <<Quote>>)[j]
    <3> TAKE j \in 1..(n + 2)
    <3>1. CASE j = 1
      BY <2>1, <2>3, <2>6, <2>7, <3>1 DEF left
    <3>2. CASE j = n + 2
      BY <2>1, <2>3, <2>7, <3>2
    <3>3. CASE j # 1 /\ j # n + 2
      <4>1. j - 1 \in 1..n /\ j - 1 + 1 = j /\ j \in 1..(n + 1) /\ j <= n + 1
        BY <2>1, <3>3
      <4> QED BY <2>4, <2>6, <2>7, <3>3, <4>1 DEF left
    <3> QED BY <3>1, <3>2, <3>3
  <2>9. whole = left \o <<Quote>>
    BY <2>2, <2>7, <2>8, SeqEqual
  <2> QED BY <2>9 DEF whole, left
<1>10. tok \in Tokens
  <2>1. start - 1 \in 0..Len(src) /\ p \in 0..Len(src) /\ line \in Nat /\ start_col \in Nat
        /\ 0 \in Int /\ "string" \in Kinds
    BY <1>4, <1>6 DEF IInv, Typed, Kinds, OtherKinds
  <2> HIDE DEF body
  <2> QED BY <1>7, <2>1 DEF Tokens, Token
<1>11. Spells(tok)
  <2>1. tok.kind = "string" /\ tok.lexeme = body /\ tok.from = start - 1 /\ tok.to = p
    BY DEF Token
  <2>2. tok.kind \notin Punctuation
    BY <2>1, KindsAssumption DEF OtherKinds
  <2> HIDE DEF tok
  <2> QED BY <1>8, <1>9, <2>1, <2>2 DEF Spells
<1>12. Typed' /\ Scanning' /\ Covered' /\ Ended'
  <2>1. /\ tok.line = line /\ tok.column = Begun + 1 - LineStart(Begun)
        /\ tok.from = Begun /\ tok.to = pos' /\ tok.kind \notin {"eof", "invalid"}
    BY <1>1, <1>4, <1>5 DEF Token, IInv, Placed
  <2>2. pos' = pos + 1 /\ pos' <= Len(src) /\ line' = line /\ col' \in 1..(pos' + 1)
    BY <1>1, <1>4, SourceFacts DEF IInv, Typed, Advance
  <2> HIDE DEF tok
  <2> QED BY <1>1, <1>10, <1>11, <2>1, <2>2, TokenAccepted
<1>13. Placed'
  BY <1>1, <1>4, <1>5, PlacedAgain
<1>14. Accepted'
  BY <1>1, <1>3, <1>4, CharacterAccepted DEF IInv
<1> QED BY <1>12, <1>13, <1>14 DEF IInv

\* An INVALID token, where the text stops being one of the language.
LEMMA TextRefused ==
  ASSUME IInv, src' = src, NEW tok \in Tokens, tokens' = Append(tokens, tok),
         tok.kind = "invalid", tok.lexeme = <<>>, tok.line = line,
         tok.column = Begun + 1 - LineStart(Begun), tok.from = Begun, tok.to = pos',
         Begun = ErrorAt, ErrorAt < Len(src), mode # "done", ~has_error,
         mode' = "between", has_error' = TRUE,
         UNCHANGED <<pos, line, col, start, start_col, value>>
  PROVE  IInv'
<1>1. Spells(tok)
  <2>1. tok.kind \notin Punctuation
    BY KindsAssumption DEF OtherKinds
  <2> QED BY <2>1 DEF Spells
<1>2. /\ Typed' /\ Covered'
      /\ Len(tokens) \in Nat /\ Len(tokens') = Len(tokens) + 1
      /\ tokens'[Len(tokens) + 1] = tok
      /\ \A m \in 1..Len(tokens) : tokens'[m] = tokens[m]
  <2>1. pos' = pos /\ pos' <= Len(src) /\ line' = line /\ col' \in 1..(pos' + 1)
    BY SourceFacts DEF IInv, Typed
  <2> QED BY <1>1, <2>1, TokenMade
<1>3. Scanning' /\ Accepted'
  BY DEF Scanning, Accepted
<1>4. Placed'
  <2>1. Begun' = pos
    BY DEF Begun
  <2> QED BY <2>1, SourceStays DEF IInv, Placed
<1>5. Ended'
  <2>1. ErrorAt' = ErrorAt
    BY SourceStays
  <2>2. ASSUME NEW m \in 1..(Len(tokens) + 1)
        PROVE  /\ tokens'[m].kind # "eof"
               /\ tokens'[m].kind = "invalid" <=> m = Len(tokens) + 1
    <3>1. CASE m = Len(tokens) + 1
      BY <1>2, <3>1
    <3>2. CASE m \in 1..Len(tokens)
      <4>1. tokens[m].kind # "eof" /\ tokens[m].kind # "invalid" /\ m # Len(tokens) + 1
        BY <1>2, <3>2 DEF IInv, Ended
      <4> QED BY <1>2, <3>2, <4>1
    <3> QED BY <1>2, <3>1, <3>2
  <2>3. \A m \in 1..(Len(tokens) + 1) : ~(m > Len(tokens) + 1)
    BY <1>2
  <2>4. Len(tokens) + 1 >= 0 /\ Len(tokens) + 1 > 0
    BY <1>2
  <2> QED BY <1>2, <2>1, <2>2, <2>3, <2>4 DEF Ended
<1> QED BY <1>2, <1>3, <1>4, <1>5 DEF IInv

LEMMA ScanInvalidIInv ==
  ASSUME IInv, ScanInvalid
  PROVE  IInv'
<1> DEFINE tok == Token("invalid", <<>>, col, 0, pos, pos)
<1>1. /\ mode = "between" /\ ~has_error /\ pos < Len(src) /\ src[pos + 1] \notin Valid
      /\ src' = src /\ mode' = "between" /\ has_error' = TRUE
      /\ tokens' = Append(tokens, tok)
      /\ UNCHANGED <<pos, line, col, start, start_col, value>>
  BY SourceFacts DEF IInv, Typed, ScanInvalid, AtEnd, Push
<1>2. Begun = pos /\ pos \in 0..(Len(src) - 1) /\ Len(src) \in Nat
  BY <1>1, SourceFacts DEF Begun, IInv, Typed
<1>3. ErrorAt = pos
  <2>1. pos \in BadCharacters /\ \A j \in BadCharacters : pos <= j
    <3>1. ~InQuotes(pos) /\ \A j \in 0..(pos - 1) : src[j + 1] \in Valid \/ InQuotes(j)
      BY <1>1 DEF IInv, Accepted
    <3>2. pos \in BadCharacters
      BY <1>1, <1>2, <3>1 DEF BadCharacters
    <3>3. ASSUME NEW j \in BadCharacters PROVE pos <= j
      <4>1. j \in 0..(Len(src) - 1) /\ src[j + 1] \notin Valid /\ ~InQuotes(j)
        BY DEF BadCharacters
      <4>2. j \notin 0..(pos - 1)
        BY <3>1, <4>1
      <4> QED BY <1>2, <4>1, <4>2
    <3> QED BY <3>2, <3>3
  <2>2. BadCharacters \in SUBSET Nat
    BY <1>2 DEF BadCharacters
  <2>3. Min(BadCharacters) \in BadCharacters /\ \A j \in BadCharacters : Min(BadCharacters) <= j
    BY <2>1, <2>2, MinFacts
  <2>4. Min(BadCharacters) = pos
    <3>1. /\ Min(BadCharacters) \in Nat /\ pos \in Nat
          /\ Min(BadCharacters) <= pos /\ pos <= Min(BadCharacters)
      BY <2>1, <2>2, <2>3
    <3> QED BY <3>1
  <2> QED BY <2>1, <2>4 DEF ErrorAt
<1>4. tok \in Tokens
  <2>1. pos \in 0..Len(src) /\ line \in Nat /\ col \in Nat /\ 0 \in Int /\ "invalid" \in Kinds
        /\ <<>> \in Seq(Chars)
    BY <1>2, EmptySeq DEF IInv, Typed, Kinds, OtherKinds
  <2> QED BY <2>1 DEF Tokens, Token
<1>5. /\ tok.kind = "invalid" /\ tok.lexeme = <<>> /\ tok.line = line
      /\ tok.column = Begun + 1 - LineStart(Begun) /\ tok.from = Begun /\ tok.to = pos'
  BY <1>1, <1>2 DEF Token, IInv, Placed
<1> HIDE DEF tok
<1> QED BY <1>1, <1>2, <1>3, <1>4, <1>5, TextRefused

LEMMA UnterminatedIInv ==
  ASSUME IInv, Unterminated
  PROVE  IInv'
<1> DEFINE tok == Token("invalid", <<>>, start_col, 0, start - 1, pos)
<1>1. /\ mode = "string" /\ ~has_error /\ pos = Len(src)
      /\ src' = src /\ mode' = "between" /\ has_error' = TRUE
      /\ tokens' = Append(tokens, tok)
      /\ UNCHANGED <<pos, line, col, start, start_col, value>>
  BY DEF IInv, Scanning, Unterminated, AtEnd, Push
<1>2. /\ start > 0 /\ src[start] = Quote /\ \A j \in (start + 1)..pos : src[j] # Quote
      /\ InQuotes(pos) /\ \A j \in 0..(pos - 1) : src[j + 1] \in Valid \/ InQuotes(j)
  BY <1>1 DEF IInv, Scanning, Accepted
<1>3. Begun = start - 1 /\ start \in 1..Len(src) /\ start - 1 \in 0..(Len(src) - 1)
      /\ Len(src) \in Nat
  BY <1>1, <1>2, SourceFacts DEF Begun, IInv, Typed
<1>4. ErrorAt = start - 1
  <2>1. BadCharacters = {}
    BY <1>1, <1>2 DEF BadCharacters
  <2> DEFINE Q == {j \in 0..(Len(src) - 1) : src[j + 1] = Quote}
  <2>2. start - 1 \in Q /\ Q \in SUBSET Nat
    BY <1>2, <1>3
  <2>3. ASSUME NEW j \in Q PROVE j <= start - 1
    <3>1. j + 1 \notin (start + 1)..pos /\ j \in 0..(Len(src) - 1)
      BY <1>2
    <3> QED BY <1>1, <1>3, <3>1
  <2>4. LastQuote = Max(Q)
    BY DEF LastQuote
  <2> HIDE DEF Q
  <2>5. Max(Q) = start - 1
    BY <2>2, <2>3, MaxFacts
  <2> QED BY <1>1, <1>2, <2>1, <2>4, <2>5 DEF ErrorAt
<1>5. tok \in Tokens
  <2>1. start - 1 \in 0..Len(src) /\ pos \in 0..Len(src) /\ line \in Nat /\ start_col \in Nat
        /\ 0 \in Int /\ "invalid" \in Kinds /\ <<>> \in Seq(Chars)
    BY <1>1, <1>3, EmptySeq DEF IInv, Typed, Kinds, OtherKinds
  <2> QED BY <2>1 DEF Tokens, Token
<1>6. /\ tok.kind = "invalid" /\ tok.lexeme = <<>> /\ tok.line = line
      /\ tok.column = Begun + 1 - LineStart(Begun) /\ tok.from = Begun /\ tok.to = pos'
  BY <1>1, <1>3 DEF Token, IInv, Placed
<1>7. ErrorAt < Len(src)
  BY <1>3, <1>4
<1> HIDE DEF tok
<1> QED BY <1>1, <1>3, <1>4, <1>5, <1>6, <1>7, TextRefused

LEMMA EndOfFileIInv ==
  ASSUME IInv, EndOfFile
  PROVE  IInv'
<1> DEFINE tok == Token("eof", <<>>, col, 0, pos, pos)
<1>1. /\ mode = "between" /\ (pos = Len(src) \/ has_error) /\ mode' = "done"
      /\ tokens' = Append(tokens, tok)
      /\ UNCHANGED <<src, pos, line, col, start, start_col, value, has_error>>
  BY DEF EndOfFile, AtEnd, Push
<1>2. Begun = pos /\ Begun' = pos /\ pos \in 0..Len(src) /\ Len(src) \in Nat
  BY <1>1, SourceFacts DEF Begun, IInv, Typed
<1>3. tok \in Tokens
  <2>1. line \in Nat /\ col \in Nat /\ 0 \in Int /\ "eof" \in Kinds /\ <<>> \in Seq(Chars)
    BY <1>2, EmptySeq DEF IInv, Typed, Kinds, OtherKinds
  <2> QED BY <1>2, <2>1 DEF Tokens, Token
<1>4. /\ tok.kind = "eof" /\ tok.lexeme = <<>> /\ tok.line = line
      /\ tok.column = Begun + 1 - LineStart(Begun) /\ tok.from = Begun /\ tok.to = pos'
  BY <1>1, <1>2 DEF Token, IInv, Placed
<1> HIDE DEF tok
<1>5. Spells(tok)
  <2>1. tok.kind \notin Punctuation
    BY <1>4, KindsAssumption DEF OtherKinds
  <2> QED BY <1>4, <2>1 DEF Spells
<1>6. /\ Typed' /\ Covered'
      /\ Len(tokens) \in Nat /\ Len(tokens') = Len(tokens) + 1
      /\ tokens'[Len(tokens) + 1] = tok
      /\ \A m \in 1..Len(tokens) : tokens'[m] = tokens[m]
  <2>1. /\ pos' = pos /\ pos' <= Len(src) /\ line' = line /\ col' \in 1..(pos' + 1)
        /\ has_error' \in BOOLEAN
    BY <1>1, <1>2 DEF IInv, Typed
  <2> QED BY <1>1, <1>3, <1>4, <1>5, <2>1, TokenMade
<1>7. Scanning'
  BY <1>1 DEF Scanning
<1>8. Accepted'
  BY <1>1, SourceStays DEF IInv, Accepted
<1>9. Placed'
  BY <1>1, <1>2, SourceStays DEF IInv, Placed
<1>10. Ended'
  <2> DEFINE n == Len(tokens)
  <2>1. ErrorAt' = ErrorAt /\ Len(tokens') - 1 = n /\ n >= 0
    BY <1>1, <1>6, SourceStays
  <2>2. has_error => /\ ErrorAt < Len(src) /\ n > 0
                     /\ tokens'[n].kind = "invalid" /\ tokens'[n].from = ErrorAt
    <3>1. has_error => /\ ErrorAt < Len(src) /\ n > 0
                       /\ tokens[n].kind = "invalid" /\ tokens[n].from = ErrorAt
      BY <1>1 DEF IInv, Ended
    <3>2. n > 0 => tokens'[n] = tokens[n]
      BY <1>6
    <3> QED BY <3>1, <3>2
  <2>3. ASSUME NEW m \in 1..(n + 1)
        PROVE  /\ tokens'[m].kind = "eof" <=> m > n
               /\ tokens'[m].kind = "invalid" <=> has_error /\ m = n
    <3>1. CASE m = n + 1
      <4>1. m > n /\ m # n
        BY <1>6, <3>1
      <4> QED BY <1>4, <1>6, <3>1, <4>1
    <3>2. CASE m \in 1..n
      <4>1. ~(m > n)
        BY <1>6, <3>2
      <4>2. tokens[m].kind # "eof" /\ (tokens[m].kind = "invalid" <=> has_error /\ m = n)
        BY <1>1, <3>2, <4>1 DEF IInv, Ended
      <4> QED BY <1>6, <3>2, <4>1, <4>2
    <3> QED BY <1>6, <3>1, <3>2
  <2> HIDE DEF n
  <2>4. Len(tokens') = n + 1
    BY <1>6 DEF n
  <2> QED BY <1>1, <2>1, <2>2, <2>3, <2>4 DEF Ended
<1> QED BY <1>6, <1>7, <1>8, <1>9, <1>10 DEF IInv

-----------------------------------------------------------------------------
(***************************************************************************)
(* The theorems                                                            *)
(***************************************************************************)

LEMMA InitIInv == Init => IInv
<1> SUFFICES ASSUME Init PROVE IInv
  OBVIOUS
<1>1. /\ src \in Sources /\ pos = 0 /\ line = 1 /\ col = 1 /\ mode = "between" /\ start = 0
      /\ start_col = 1 /\ value = 0 /\ tokens = <<>> /\ has_error = FALSE
  BY DEF Init
<1>2. src \in Seq(Chars) /\ Len(src) \in Nat
  BY <1>1, SourcesAssumption, LenProperties DEF Chars
<1>3. tokens \in Seq(Tokens) /\ Len(tokens) = 0 /\ DOMAIN tokens = {}
  BY <1>1, EmptySeq
<1>4. Typed
  <2>1. pos \in 0..Len(src) /\ start \in 0..pos
    BY <1>1, <1>2
  <2>2. line \in 1..(pos + 1) /\ col \in 1..(pos + 1) /\ start_col \in 1..(pos + 1)
    BY <1>1
  <2>3. value \in (-IntMax - 1)..IntMax
    BY <1>1, DigitsAssumption
  <2>4. \A n \in 1..Len(tokens) : tokens[n].from <= tokens[n].to /\ tokens[n].to <= pos
    BY <1>3
  <2>5. mode \in {"between", "word", "number", "string", "done"} /\ has_error \in BOOLEAN
    BY <1>1
  <2>6. src \in Sources /\ tokens \in Seq(Tokens)
    BY <1>1, <1>3
  <2> QED BY ONLY <2>1, <2>2, <2>3, <2>4, <2>5, <2>6 DEF Typed
<1>5. Scanning
  BY <1>1 DEF Scanning
<1>6. Placed
  <2>1. LineAt(0) = 1 /\ LineStart(0) = 0
    BY NoQuotesYet, FS_EmptySet DEF LineAt, LineStart
  <2>2. Begun = pos
    BY <1>1 DEF Begun
  <2> QED BY <1>1, <2>1, <2>2 DEF Placed
<1>7. Accepted
  BY <1>1, NoQuotesYet DEF Accepted
<1>8. Covered
  <2>1. LastEnd = 0 /\ Begun = 0
    BY <1>1 DEF LastEnd, Begun
  <2>2. NothingLost
    BY <1>3 DEF NothingLost
  <2> QED BY <2>1, <2>2 DEF Covered
<1>9. Ended
  BY <1>1, <1>3 DEF Ended
<1> QED BY <1>4, <1>5, <1>6, <1>7, <1>8, <1>9 DEF IInv

LEMMA StutterIInv ==
  ASSUME IInv, UNCHANGED vars
  PROVE  IInv'
<1>1. /\ src' = src /\ pos' = pos /\ line' = line /\ col' = col /\ mode' = mode
      /\ start' = start /\ start_col' = start_col /\ value' = value
      /\ tokens' = tokens /\ has_error' = has_error
  BY DEF vars
<1>2. Begun' = Begun
  BY <1>1 DEF Begun
<1>3. Typed'
  BY <1>1, SourceStays DEF IInv, Typed
<1>4. Scanning'
  <2>1. Text(start, pos)' = Text(start, pos)
    BY <1>1, SourceStays
  <2> QED BY <1>1, <2>1 DEF IInv, Scanning, Within
<1>5. Placed'
  BY <1>1, <1>2, SourceStays DEF IInv, Placed
<1>6. Accepted'
  BY <1>1, SourceStays DEF IInv, Accepted
<1>7. Covered'
  BY <1>1, <1>2, CoveredInside DEF IInv
<1>8. Ended'
  BY <1>1, SourceStays DEF IInv, Ended
<1> QED BY <1>3, <1>4, <1>5, <1>6, <1>7, <1>8 DEF IInv

LEMMA Invariance == Spec => []IInv
<1>1. IInv /\ [Next]_vars => IInv'
  <2> SUFFICES ASSUME IInv, [Next]_vars PROVE IInv'
    OBVIOUS
  <2>1. CASE SkipBlank
    BY <2>1, SkipBlankIInv
  <2>2. CASE SkipNewline
    BY <2>2, SkipNewlineIInv
  <2>3. CASE ScanPunctuation
    BY <2>3, ScanPunctuationIInv
  <2>4. CASE BeginWord
    BY <2>4, BeginWordIInv
  <2>5. CASE BeginNumber
    BY <2>5, BeginNumberIInv
  <2>6. CASE BeginString
    BY <2>6, BeginStringIInv
  <2>7. CASE ScanInvalid
    BY <2>7, ScanInvalidIInv
  <2>8. CASE InWord
    BY <2>8, InWordIInv
  <2>9. CASE EndWord
    BY <2>9, EndWordIInv
  <2>10. CASE InNumber
    BY <2>10, InNumberIInv
  <2>11. CASE EndNumber
    BY <2>11, EndNumberIInv
  <2>12. CASE InString
    BY <2>12, InStringIInv
  <2>13. CASE EndString
    BY <2>13, EndStringIInv
  <2>14. CASE Unterminated
    BY <2>14, UnterminatedIInv
  <2>15. CASE EndOfFile
    BY <2>15, EndOfFileIInv
  <2>16. CASE UNCHANGED vars
    BY <2>16, StutterIInv
  <2> QED BY <2>1, <2>2, <2>3, <2>4, <2>5, <2>6, <2>7, <2>8, <2>9, <2>10, <2>11, <2>12,
             <2>13, <2>14, <2>15, <2>16 DEF Next
<1> QED BY <1>1, InitIInv, PTL DEF Spec

\* No scan function reads behind the terminating zero, whatever the text is.
THEOREM TypeCorrect == Spec => []TypeOK
<1>1. IInv => TypeOK
  <2> SUFFICES ASSUME IInv PROVE TypeOK
    OBVIOUS
  <2>1. Len(src) \in Nat /\ pos \in 0..Len(src)
    BY SourceFacts DEF IInv, Typed
  <2>2. ASSUME NEW n \in DOMAIN tokens
        PROVE  /\ tokens[n].kind \in Kinds
               /\ tokens[n].from \in 0..pos /\ tokens[n].to \in tokens[n].from..pos
    <3>1. tokens[n] \in Tokens /\ n \in 1..Len(tokens)
      BY <2>2, LenProperties DEF IInv, Typed
    <3>2. tokens[n].from <= tokens[n].to /\ tokens[n].to <= pos
      BY <3>1 DEF IInv, Typed
    <3>3. /\ tokens[n].kind \in Kinds /\ tokens[n].from \in 0..Len(src)
          /\ tokens[n].to \in 0..Len(src)
      BY <3>1 DEF Tokens
    <3> QED BY <2>1, <3>2, <3>3
  <2>3. /\ start \in 0..pos /\ line \in 1..(Len(src) + 1) /\ col \in 1..(Len(src) + 1)
        /\ start_col \in 1..(Len(src) + 1)
    BY <2>1 DEF IInv, Typed
  <2> QED BY <2>1, <2>2, <2>3 DEF IInv, Typed, TypeOK
<1> QED BY <1>1, Invariance, PTL

\* The tokens spell the whole text, each at its true position and as long as it
\* can be, and a literal that fits an int has its value.
THEOREM TokensSpellText == Spec => []NothingLost
<1>1. IInv => NothingLost
  BY DEF IInv, Covered
<1> QED BY <1>1, Invariance, PTL

\* When tokenize returns it has refused the text just if it is not one of the
\* language, at the place where it stops being one.
JudgedWhenDone == mode = "done" => Judged

THEOREM RefusedRightly == Spec => []JudgedWhenDone
<1>1. IInv => JudgedWhenDone
  <2> SUFFICES ASSUME IInv, mode = "done" PROVE Judged
    BY DEF JudgedWhenDone
  <2> DEFINE n == Len(tokens)
  <2>1. n \in Nat /\ n - 1 >= 0 /\ Len(src) \in Nat
    BY SourceFacts, LenProperties DEF IInv, Typed, Ended
  <2>2. /\ has_error => /\ ErrorAt < Len(src) /\ n - 1 > 0
                        /\ tokens[n - 1].kind = "invalid" /\ tokens[n - 1].from = ErrorAt
        /\ \A m \in 1..n : /\ tokens[m].kind = "eof" <=> m > n - 1
                           /\ tokens[m].kind = "invalid" <=> has_error /\ m = n - 1
    BY DEF IInv, Ended
  <2>3. ASSUME ~has_error PROVE pos = Len(src) /\ ErrorAt = Len(src)
    <3>1. /\ ~InQuotes(pos) /\ pos = Len(src)
          /\ \A j \in 0..(pos - 1) : src[j + 1] \in Valid \/ InQuotes(j)
      BY <2>3 DEF IInv, Accepted
    <3>2. BadCharacters = {}
      BY <3>1 DEF BadCharacters
    <3> QED BY <3>1, <3>2 DEF ErrorAt
  <2>4. \A m \in 1..n : (m > n - 1) <=> (m = n)
    BY <2>1
  <2>5. has_error => n > 1
    BY <2>1, <2>2
  <2>6. has_error <=> ErrorAt < Len(src)
    BY <2>1, <2>2, <2>3
  <2> HIDE DEF n
  <2> QED BY <2>2, <2>3, <2>4, <2>5, <2>6 DEF Judged, n
<1> QED BY <1>1, Invariance, PTL
=============================================================================
