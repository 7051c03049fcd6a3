---------------------------- MODULE ParserProofs ----------------------------
(***************************************************************************)
(* What holds of the parser for any names, literals, lengths of lists and  *)
(* any sequence of tokens: it accepts only what it has read, and refuses   *)
(* no sentence of the grammar.                                             *)
(***************************************************************************)
EXTENDS Parser, SequenceTheorems, WellFoundedInduction, TLAPS

\* Numbers with something in common have a least one: the shortest list, the
\* first string literal.
LEMMA MinFacts ==
  ASSUME NEW S \in SUBSET Nat, S # {}
  PROVE  Min(S) \in S /\ \A x \in S : Min(S) <= x
<1>1. \E x \in S : \A y \in S : x <= y
  <2> DEFINE R == {p \in Nat \X Nat : p[1] < p[2]}
  <2>1. IsWellFoundedOn(R, Nat)
    BY NatLessThanWellFounded, Zenon DEF OpToRel
  <2> HIDE DEF R
  <2>2. PICK x \in S : \A y \in S : <<y, x>> \notin R
    BY <2>1, WFMin
  <2>3. \A y \in S : ~(y < x)
    BY <2>2 DEF R
  <2> QED BY <2>3
<1> QED BY <1>1 DEF Min

-----------------------------------------------------------------------------
(***************************************************************************)
(* Lists with commas                                                       *)
(***************************************************************************)

\* f is the function FlattenSeq computes, up to the n-th part of ss.
Unrolls(f, ss, n) ==
  /\ f = [i \in 1..n |-> f[i]]
  /\ \A i \in 1..n : f[i] = IF i = 1 THEN ss[1] ELSE f[i - 1] \o ss[i]

Flattens(f, ss, n, S) == Unrolls(f, ss, n) /\ \A i \in 1..n : f[i] \in Seq(S)

\* There is such a function: the shortest list without one does not exist.
LEMMA FlattensExist ==
  ASSUME NEW S, NEW ss \in Seq(Seq(S))
  PROVE  \E f : Flattens(f, ss, Len(ss), S)
<1> DEFINE Wrong == {n \in 0..Len(ss) : ~(\E f : Flattens(f, ss, n, S))}
<1>1. Len(ss) \in Nat /\ \A m \in 1..Len(ss) : ss[m] \in Seq(S)
  BY LenProperties, ElementOfSeq
<1>2. Wrong = {}
  <2> SUFFICES ASSUME Wrong # {} PROVE FALSE
    OBVIOUS
  <2>1. PICK n \in Wrong : \A k \in Wrong : n <= k
    <3>1. Wrong \in SUBSET Nat
      BY <1>1
    <3> HIDE DEF Wrong
    <3> QED BY <3>1, MinFacts
  <2>2. n # 0
    <3>1. Flattens([k \in 1..0 |-> <<>>], ss, 0, S)
      BY DEF Flattens, Unrolls
    <3> QED BY <3>1
  <2>3. PICK f : Flattens(f, ss, n - 1, S)
    <3>1. n - 1 \in 0..Len(ss) /\ ~(n <= n - 1)
      BY <1>1, <2>2
    <3> QED BY <2>1, <3>1
  <2>4. n \in 1..Len(ss) /\ ss[n] \in Seq(S) /\ ss[1] \in Seq(S)
    BY <1>1, <2>2
  <2> DEFINE last == IF n = 1 THEN ss[1] ELSE f[n - 1] \o ss[n]
             g == [k \in 1..n |-> IF k < n THEN f[k] ELSE last]
  <2>5. last \in Seq(S)
    <3>1. CASE n # 1
      <4>1. f[n - 1] \in Seq(S)
        <5>1. n - 1 \in 1..(n - 1)
          BY <2>4, <3>1
        <5> QED BY <2>3, <5>1 DEF Flattens, Unrolls
      <4> QED BY <2>4, <3>1, <4>1, ConcatProperties
    <3> QED BY <2>4, <3>1
  <2>6. ASSUME NEW m \in 1..n
        PROVE  g[m] \in Seq(S) /\ g[m] = IF m = 1 THEN ss[1] ELSE g[m - 1] \o ss[m]
    <3>1. CASE m < n
      <4>1. m \in 1..(n - 1) /\ g[m] = f[m]
        BY <2>4, <3>1
      <4>2. m # 1 => m - 1 \in 1..n /\ m - 1 < n
        BY <2>4
      <4>3. m # 1 => g[m - 1] = f[m - 1]
        BY <4>2
      <4> QED BY <2>3, <4>1, <4>3 DEF Flattens, Unrolls
    <3>2. CASE m = n
      <4>1. g[n] = last /\ (n # 1 => n - 1 \in 1..n /\ n - 1 < n)
        BY <2>4
      <4>2. n # 1 => g[n - 1] = f[n - 1]
        BY <4>1
      <4> QED BY <2>5, <3>2, <4>1, <4>2
    <3> QED BY <2>4, <3>1, <3>2
  <2>7. Flattens(g, ss, n, S)
    BY <2>6 DEF Flattens, Unrolls
  <2> QED BY <2>1, <2>7
<1> QED BY <1>1, <1>2

\* And only one.
LEMMA FlattensOnce ==
  ASSUME NEW ss, NEW n \in Nat, NEW f, NEW g, Unrolls(f, ss, n), Unrolls(g, ss, n)
  PROVE  \A i \in 1..n : f[i] = g[i]
<1> DEFINE Wrong == {i \in 1..n : f[i] # g[i]}
<1> SUFFICES ASSUME Wrong # {} PROVE FALSE
  OBVIOUS
<1>1. PICK m \in Wrong : \A k \in Wrong : m <= k
  <2>1. Wrong \in SUBSET Nat
    OBVIOUS
  <2> HIDE DEF Wrong
  <2> QED BY <2>1, MinFacts
<1>2. CASE m = 1
  BY <1>1, <1>2 DEF Flattens, Unrolls
<1>3. CASE m # 1
  <2>1. m - 1 \in 1..n /\ m \in 1..n /\ ~(m <= m - 1)
    BY <1>3
  <2>2. f[m - 1] = g[m - 1]
    BY <1>1, <2>1
  <2>3. f[m] = f[m - 1] \o ss[m] /\ g[m] = g[m - 1] \o ss[m]
    BY <1>3, <2>1 DEF Unrolls
  <2> QED BY <1>1, <2>2, <2>3
<1> QED BY <1>2, <1>3

\* And it is what FlattenSeq computes.
LEMMA FlattenIs ==
  ASSUME NEW S, NEW ss \in Seq(Seq(S)), ss # <<>>, NEW g, Flattens(g, ss, Len(ss), S)
  PROVE  FlattenSeq(ss) = g[Len(ss)]
<1> DEFINE n == Len(ss)
           f == CHOOSE f : f = [i \in 1..n |-> IF i = 1 THEN ss[i] ELSE f[i - 1] \o ss[i]]
<1>1. n \in Nat /\ n # 0
  BY LenProperties, EmptySeq
<1>2. FlattenSeq(ss) = f[n]
  BY <1>1 DEF FlattenSeq
<1>3. g = [i \in 1..n |-> IF i = 1 THEN ss[i] ELSE g[i - 1] \o ss[i]]
  BY DEF Flattens, Unrolls
<1>4. f = [i \in 1..n |-> IF i = 1 THEN ss[i] ELSE f[i - 1] \o ss[i]]
  BY <1>3
<1> HIDE DEF f
<1>5. Unrolls(f, ss, n)
  BY <1>4 DEF Unrolls
<1>6. Unrolls(g, ss, n)
  BY DEF Flattens
<1> HIDE DEF n
<1>7. \A i \in 1..n : f[i] = g[i]
  BY <1>1, <1>5, <1>6, FlattensOnce
<1> QED BY <1>1, <1>2, <1>7 DEF n

\* The parts of a list so far, and one more.
LEMMA FlattenOne ==
  ASSUME NEW S, NEW p \in Seq(S)
  PROVE  FlattenSeq(<<p>>) = p
<1>1. <<p>> \in Seq(Seq(S)) /\ Len(<<p>>) = 1 /\ <<p>> # <<>>
  OBVIOUS
<1>2. Flattens([i \in 1..1 |-> p], <<p>>, 1, S)
  BY DEF Flattens, Unrolls
<1>3. FlattenSeq(<<p>>) = [i \in 1..1 |-> p][1]
  BY <1>1, <1>2, FlattenIs
<1> QED BY <1>3

\* A longer list is the list, and the new part behind it.
LEMMA FlattenAppend ==
  ASSUME NEW S, NEW ss \in Seq(Seq(S)), ss # <<>>, NEW p \in Seq(S)
  PROVE  FlattenSeq(ss) \in Seq(S) /\ FlattenSeq(Append(ss, p)) = FlattenSeq(ss) \o p
<1>1. PICK n : n = Len(ss)
  OBVIOUS
<1>2. PICK t : t = Append(ss, p)
  OBVIOUS
<1>3. /\ n \in Nat /\ n # 0 /\ t \in Seq(Seq(S)) /\ Len(t) = n + 1 /\ t # <<>>
      /\ t[n + 1] = p /\ \A i \in 1..n : t[i] = ss[i]
  BY <1>1, <1>2, LenProperties, EmptySeq, AppendProperties
<1>4. PICK g : Flattens(g, t, n + 1, S)
  BY <1>3, FlattensExist
<1>5. PICK h : h = [i \in 1..n |-> g[i]]
  OBVIOUS
<1>6. Flattens(h, ss, n, S)
  <2>1. ASSUME NEW i \in 1..n
        PROVE  h[i] \in Seq(S) /\ h[i] = IF i = 1 THEN ss[1] ELSE h[i - 1] \o ss[i]
    <3>1. i \in 1..(n + 1) /\ (i # 1 => i - 1 \in 1..n) /\ t[i] = ss[i] /\ t[1] = ss[1]
      BY <1>3
    <3>2. h[i] = g[i] /\ (i # 1 => h[i - 1] = g[i - 1])
      BY <1>5, <3>1
    <3> QED BY <1>4, <3>1, <3>2 DEF Flattens, Unrolls
  <2> QED BY <1>5, <2>1 DEF Flattens, Unrolls
<1>7. FlattenSeq(ss) = h[n] /\ h[n] \in Seq(S)
  BY <1>1, <1>3, <1>6, FlattenIs DEF Flattens
<1>8. FlattenSeq(t) = g[n + 1]
  BY <1>3, <1>4, FlattenIs
<1>9. g[n + 1] = g[n] \o p /\ h[n] = g[n]
  <2>1. n + 1 \in 1..(n + 1) /\ n + 1 # 1 /\ (n + 1) - 1 = n /\ n \in 1..n
    BY <1>3
  <2>2. g[n + 1] = g[n] \o t[n + 1]
    BY <1>4, <2>1 DEF Flattens, Unrolls
  <2> QED BY <1>3, <1>5, <2>1, <2>2
<1> QED BY <1>2, <1>7, <1>8, <1>9

-----------------------------------------------------------------------------
(***************************************************************************)
(* Tokens and texts                                                        *)
(***************************************************************************)

\* The kind of a token tells a keyword from an identifier and a literal.
LEMMA TokenKinds ==
  ASSUME NEW t \in Tokens
  PROVE  /\ \A w \in Words : t.kind = w => t = Word(w)
         /\ t.kind = "id" => \E n \in Names : t = Id(n)
         /\ t.kind \in {"intlit", "strlit"} => t \in Literals
         /\ t.kind \notin {"eof", "missing"}
<1>w. \A w \in Words : w \notin {"id", "intlit", "strlit", "eof", "missing"}
  BY DEF Words
<1>1. CASE t \in {Word(w) : w \in Words}
  <2>1. PICK w \in Words : t = Word(w)
    BY <1>1
  <2>2. t.kind = w /\ t = Word(t.kind)
    BY <2>1 DEF Word
  <2>3. t.kind \notin {"id", "intlit", "strlit", "eof", "missing"}
    BY <1>w, <2>2
  <2> HIDE <1>1
  <2> QED BY <2>2, <2>3
<1>2. CASE t \in {Id(n) : n \in Names}
  <2>1. PICK n \in Names : t = Id(n)
    BY <1>2
  <2>2. t.kind = "id"
    BY <2>1 DEF Id
  <2>3. \A v \in Words : t.kind # v
    BY <1>w, <2>2
  <2> QED BY <2>1, <2>2, <2>3
<1>3. CASE t \in Literals
  <2>1. t.kind \in {"intlit", "strlit"}
    BY <1>3 DEF Literals
  <2>3. \A v \in Words : t.kind # v
    BY <1>w, <2>1
  <2> QED BY <1>3, <2>1, <2>3
<1> QED BY <1>1, <1>2, <1>3 DEF Tokens

\* What the constructors build are tokens.
LEMMA TokenTypes ==
  /\ \A w \in Words : Word(w) \in Tokens
  /\ Word("comma") \in Tokens
  /\ \A n \in Names : Id(n) \in Tokens
  /\ Literals \subseteq Tokens
<1>1. "comma" \in Words
  BY DEF Words
<1> QED BY <1>1 DEF Tokens

\* Words written one after the other.
LEMMA WrittenTwo ==
  ASSUME NEW S, NEW a \in S, NEW b \in S
  PROVE  Append(<<a>>, b) = <<a, b>>
<1>1. PICK t : t = Append(<<a>>, b)
  OBVIOUS
<1>2. PICK u : u = <<a, b>>
  OBVIOUS
<1>3. /\ t \in Seq(S) /\ Len(t) = 2
      /\ t[1] = a /\ t[2] = b
  BY <1>1
<1>4. /\ u \in Seq(S) /\ Len(u) = 2
      /\ u[1] = a /\ u[2] = b
  BY <1>2
<1>5. \A i \in 1..Len(t) : t[i] = u[i]
  BY <1>3, <1>4
<1>6. t = u
  BY <1>3, <1>4, <1>5, SeqEqual
<1> QED BY <1>1, <1>2, <1>6

LEMMA WrittenThree ==
  ASSUME NEW S, NEW a \in S, NEW b \in S, NEW c \in S
  PROVE  Append(<<a, b>>, c) = <<a, b, c>>
<1>1. PICK t : t = Append(<<a, b>>, c)
  OBVIOUS
<1>2. PICK u : u = <<a, b, c>>
  OBVIOUS
<1>3. /\ t \in Seq(S) /\ Len(t) = 3
      /\ t[1] = a /\ t[2] = b /\ t[3] = c
  BY <1>1
<1>4. /\ u \in Seq(S) /\ Len(u) = 3
      /\ u[1] = a /\ u[2] = b /\ u[3] = c
  BY <1>2
<1>5. \A i \in 1..Len(t) : t[i] = u[i]
  BY <1>3, <1>4
<1>6. t = u
  BY <1>3, <1>4, <1>5, SeqEqual
<1> QED BY <1>1, <1>2, <1>6

LEMMA WrittenFour ==
  ASSUME NEW S, NEW a \in S, NEW b \in S, NEW c \in S, NEW d \in S
  PROVE  Append(<<a, b, c>>, d) = <<a, b, c, d>>
<1>1. PICK t : t = Append(<<a, b, c>>, d)
  OBVIOUS
<1>2. PICK u : u = <<a, b, c, d>>
  OBVIOUS
<1>3. /\ t \in Seq(S) /\ Len(t) = 4
      /\ t[1] = a /\ t[2] = b /\ t[3] = c /\ t[4] = d
  BY <1>1
<1>4. /\ u \in Seq(S) /\ Len(u) = 4
      /\ u[1] = a /\ u[2] = b /\ u[3] = c /\ u[4] = d
  BY <1>2
<1>5. \A i \in 1..Len(t) : t[i] = u[i]
  BY <1>3, <1>4
<1>6. t = u
  BY <1>3, <1>4, <1>5, SeqEqual
<1> QED BY <1>1, <1>2, <1>6

LEMMA WrittenFive ==
  ASSUME NEW S, NEW a \in S, NEW b \in S, NEW c \in S, NEW d \in S, NEW e \in S
  PROVE  Append(<<a, b, c, d>>, e) = <<a, b, c, d, e>>
<1>1. PICK t : t = Append(<<a, b, c, d>>, e)
  OBVIOUS
<1>2. PICK u : u = <<a, b, c, d, e>>
  OBVIOUS
<1>3. /\ t \in Seq(S) /\ Len(t) = 5
      /\ t[1] = a /\ t[2] = b /\ t[3] = c /\ t[4] = d /\ t[5] = e
  BY <1>1
<1>4. /\ u \in Seq(S) /\ Len(u) = 5
      /\ u[1] = a /\ u[2] = b /\ u[3] = c /\ u[4] = d /\ u[5] = e
  BY <1>2
<1>5. \A i \in 1..Len(t) : t[i] = u[i]
  BY <1>3, <1>4
<1>6. t = u
  BY <1>3, <1>4, <1>5, SeqEqual
<1> QED BY <1>1, <1>2, <1>6

\* One more word on a text of two parts.
Joined(s, r) == s \o r

LEMMA WrittenAfter ==
  ASSUME NEW s \in Seq(Tokens), NEW r \in Seq(Tokens), NEW e \in Tokens
  PROVE  Append(Joined(s, r), e) = Joined(s, Append(r, e))
<1> DEFINE y == s \o r
<1>1. Append(r, e) = r \o <<e>>
  BY AppendIsConcat
<1>2. y \in Seq(Tokens) /\ <<e>> \in Seq(Tokens)
  BY ConcatProperties
<1>3. Append(y, e) = (s \o r) \o <<e>>
  BY <1>2, AppendIsConcat
<1>4. (s \o r) \o <<e>> = s \o (r \o <<e>>)
  BY <1>2, ConcatAssociative
<1> QED BY <1>1, <1>3, <1>4 DEF Joined

-----------------------------------------------------------------------------
Commas(parts) == [i \in 1..Len(parts) |-> <<Word("comma")>> \o parts[i]]

\* A list up to its next part.
Lead(parts) == IF parts = <<>> THEN <<>> ELSE Append(Listed(parts), Word("comma"))

\* Each part of a list with its comma before it, and one part more.
LEMMA CommasNext ==
  ASSUME NEW parts \in Seq(Seq(Tokens)), NEW p \in Seq(Tokens)
  PROVE  /\ Commas(parts) \in Seq(Seq(Tokens))
         /\ Len(Commas(parts)) = Len(parts)
         /\ <<Word("comma")>> \o p \in Seq(Tokens)
         /\ Commas(Append(parts, p)) = Append(Commas(parts), <<Word("comma")>> \o p)
<1> DEFINE comma == <<Word("comma")>>
<1>1. comma \in Seq(Tokens)
  BY TokenTypes
<1> HIDE DEF comma
<1>2. /\ Len(parts) \in Nat
      /\ \A i \in 1..Len(parts) : parts[i] \in Seq(Tokens)
  BY LenProperties, ElementOfSeq
<1>3. /\ comma \o p \in Seq(Tokens)
      /\ \A i \in 1..Len(parts) : comma \o parts[i] \in Seq(Tokens)
  BY <1>1, <1>2, ConcatProperties
<1> DEFINE e(i) == comma \o parts[i]
<1>4. [i \in 1..Len(parts) |-> e(i)] \in Seq(Seq(Tokens))
  <2>1. \A i \in 1..Len(parts) : e(i) \in Seq(Tokens)
    BY <1>3
  <2> HIDE DEF e
  <2> QED BY <1>2, <2>1, IsASeq
<1> DEFINE q == Commas(parts)
<1>5. q \in Seq(Seq(Tokens)) /\ Len(q) = Len(parts)
  <2>1. q = [i \in 1..Len(parts) |-> e(i)]
    BY DEF Commas, comma
  <2>2. DOMAIN q = 1..Len(parts)
    BY DEF Commas
  <2>3. q \in Seq(Seq(Tokens))
    BY <1>4, <2>1
  <2> HIDE DEF q, e
  <2>4. Len(q) \in Nat /\ DOMAIN q = 1..Len(q)
    BY <2>3, LenProperties
  <2>5. Len(q) = Len(parts)
    BY <1>2, <2>2, <2>4
  <2> QED BY <2>3, <2>5
<1>6. PICK r : r = Append(parts, p)
  OBVIOUS
<1>7. /\ r \in Seq(Seq(Tokens)) /\ Len(r) = Len(parts) + 1
      /\ \A i \in 1..Len(parts) : r[i] = parts[i]
      /\ r[Len(parts) + 1] = p
  BY <1>6, AppendProperties
<1>8. PICK u : u = Append(q, comma \o p)
  OBVIOUS
<1>9. /\ u \in Seq(Seq(Tokens)) /\ Len(u) = Len(parts) + 1
      /\ \A i \in 1..Len(parts) : u[i] = q[i]
      /\ u[Len(parts) + 1] = comma \o p
  <2> HIDE DEF q
  <2> QED BY <1>3, <1>5, <1>8, AppendProperties
<1>10. \A i \in 1..Len(parts) : q[i] = comma \o parts[i]
  BY DEF Commas, comma
<1>11. Commas(r) = [i \in 1..(Len(parts) + 1) |-> comma \o r[i]]
  BY <1>7 DEF Commas, comma
<1>12. u = [i \in 1..(Len(parts) + 1) |-> u[i]]
  BY <1>9, LenProperties
<1>13. \A i \in 1..(Len(parts) + 1) : comma \o r[i] = u[i]
  <2> TAKE i \in 1..(Len(parts) + 1)
  <2>1. i \in 1..Len(parts) \/ i = Len(parts) + 1
    BY <1>2
  <2> HIDE DEF q
  <2> QED BY <1>7, <1>9, <1>10, <2>1
<1>14. Commas(r) = u
  BY <1>11, <1>12, <1>13
<1> QED BY <1>3, <1>5, <1>6, <1>8, <1>14 DEF comma

\* The next part goes behind what leads up to it.
LEMMA ListedNext ==
  ASSUME NEW parts \in Seq(Seq(Tokens)), NEW p \in Seq(Tokens)
  PROVE  /\ Lead(parts) \in Seq(Tokens)
         /\ parts # <<>> => Listed(parts) \in Seq(Tokens)
         /\ Listed(Append(parts, p)) = Lead(parts) \o p
<1> DEFINE q == Commas(parts)
           comma == <<Word("comma")>>
           cp == comma \o p
<1>1. comma \in Seq(Tokens) /\ Word("comma") \in Tokens /\ comma # <<>>
  BY TokenTypes
<1>2. q \in Seq(Seq(Tokens)) /\ Len(q) = Len(parts) /\ cp \in Seq(Tokens)
      /\ Commas(Append(parts, p)) = Append(q, cp)
  BY CommasNext
<1>3. Listed(Append(parts, p)) = Tail(FlattenSeq(Append(q, cp)))
  BY <1>2 DEF Listed, Commas
<1>4. Listed(parts) = Tail(FlattenSeq(q))
  BY DEF Listed, Commas
<1>5. Len(comma) = 1 /\ Tail(cp) = p
  <2>1. Len(comma) = 1
    OBVIOUS
  <2> HIDE DEF comma
  <2>2. /\ Len(cp) = Len(comma) + Len(p)
        /\ \A i \in 1..(Len(comma) + Len(p)) :
             cp[i] = IF i <= Len(comma) THEN comma[i] ELSE p[i - Len(comma)]
    BY <1>1, ConcatProperties
  <2>3. Len(p) \in Nat
    BY LenProperties
  <2> HIDE DEF cp
  <2>4. cp # <<>>
    BY <1>2, <2>1, <2>2, <2>3, EmptySeq
  <2>5. Tail(cp) \in Seq(Tokens) /\ Len(Tail(cp)) = Len(p)
        /\ \A i \in 1..Len(p) : Tail(cp)[i] = cp[i + 1]
    BY <1>2, <2>1, <2>2, <2>3, <2>4, HeadTailProperties
  <2>6. \A i \in 1..Len(p) : Tail(cp)[i] = p[i]
    <3> TAKE i \in 1..Len(p)
    <3>1. i + 1 \in 1..(1 + Len(p)) /\ ~(i + 1 <= 1) /\ (i + 1) - 1 = i
      BY <2>3
    <3>2. cp[i + 1] = p[i]
      BY <2>1, <2>2, <3>1
    <3> QED BY <2>5, <3>2
  <2> QED BY <2>1, <2>5, <2>6, SeqEqual
<1> HIDE DEF q, cp, comma
<1>6. CASE parts = <<>>
  <2>1. q = <<>>
    BY <1>2, <1>6, EmptySeq
  <2>2. Append(q, cp) = <<cp>>
    BY <2>1
  <2>3. FlattenSeq(<<cp>>) = cp
    BY <1>2, FlattenOne
  <2>4. Lead(parts) = <<>>
    BY <1>6 DEF Lead
  <2>5. <<>> \o p = p /\ <<>> \in Seq(Tokens)
    BY ConcatEmptySeq, EmptySeq
  <2> QED BY <1>3, <1>5, <1>6, <2>2, <2>3, <2>4, <2>5
<1>7. CASE parts # <<>>
  <2> DEFINE f == FlattenSeq(q)
  <2>1. q # <<>>
    BY <1>2, <1>7, EmptySeq
  <2>2. f \in Seq(Tokens) /\ FlattenSeq(Append(q, cp)) = f \o cp
    BY <1>2, <2>1, FlattenAppend
  <2>3. f # <<>>
    <3>1. PICK q0 \in Seq(Seq(Tokens)), l \in Seq(Tokens) : q = Append(q0, l)
      BY <1>2, <2>1, SequenceEmptyOrAppend
    <3>2. parts[Len(parts)] \in Seq(Tokens) /\ Len(parts) \in 1..Len(parts)
      <4>1. Len(parts) \in Nat \ {0}
        BY <1>7, EmptySeq
      <4> QED BY <4>1, ElementOfSeq
    <3>3. l = comma \o parts[Len(parts)]
      <4>1. q[Len(q)] = comma \o parts[Len(parts)]
        BY <1>2, <3>2 DEF q, Commas, comma
      <4>2. q[Len(q)] = l
        BY <3>1, AppendProperties
      <4> QED BY <4>1, <4>2
    <3>4. l # <<>>
      BY <1>1, <3>2, <3>3, ConcatEqualIffEmpty
    <3>5. CASE q0 = <<>>
      <4>1. q = <<l>>
        BY <3>1, <3>5
      <4> QED BY <3>4, <4>1, FlattenOne
    <3>6. CASE q0 # <<>>
      <4>1. f = FlattenSeq(q0) \o l /\ FlattenSeq(q0) \in Seq(Tokens)
        BY <3>1, <3>6, FlattenAppend
      <4> HIDE DEF f
      <4> QED BY <3>4, <4>1, ConcatEqualIffEmpty
    <3> QED BY <3>5, <3>6
  <2> HIDE DEF f
  <2>4. Listed(parts) = Tail(f) /\ Tail(f) \in Seq(Tokens)
    BY <1>4, <2>2, <2>3, HeadTailProperties DEF f
  <2>5. Tail(f \o cp) = Tail(f) \o cp
    <3>1. /\ Len(f) \in Nat \ {0} /\ Len(cp) \in Nat
          /\ f \o cp \in Seq(Tokens) /\ Len(f \o cp) = Len(f) + Len(cp)
          /\ \A i \in 1..(Len(f) + Len(cp)) :
               (f \o cp)[i] = IF i <= Len(f) THEN f[i] ELSE cp[i - Len(f)]
      BY <1>2, <2>2, <2>3, EmptySeq, LenProperties, ConcatProperties
    <3>2. /\ Len(Tail(f)) = Len(f) - 1
          /\ \A i \in 1..(Len(f) - 1) : Tail(f)[i] = f[i + 1]
      BY <2>2, <2>3, HeadTailProperties
    <3> DEFINE a == Tail(f) \o cp
               b == Tail(f \o cp)
    <3>3. /\ a \in Seq(Tokens) /\ Len(a) = Len(f) - 1 + Len(cp)
          /\ \A i \in 1..(Len(f) - 1 + Len(cp)) :
               a[i] = IF i <= Len(f) - 1 THEN Tail(f)[i] ELSE cp[i - (Len(f) - 1)]
      BY <1>2, <2>4, <3>2, ConcatProperties
    <3>4. f \o cp # <<>>
      BY <3>1, EmptySeq
    <3>5. /\ b \in Seq(Tokens) /\ Len(b) = Len(f) + Len(cp) - 1
          /\ \A i \in 1..(Len(f) + Len(cp) - 1) : b[i] = (f \o cp)[i + 1]
      BY <3>1, <3>4, HeadTailProperties
    <3> HIDE DEF a, b
    <3>6. ASSUME NEW i \in 1..Len(a) PROVE a[i] = b[i]
      <4>1. i + 1 \in 1..(Len(f) + Len(cp)) /\ i \in 1..(Len(f) - 1 + Len(cp))
            /\ i \in 1..(Len(f) + Len(cp) - 1)
        BY <3>1, <3>3
      <4>2. CASE i <= Len(f) - 1
        <5>1. i \in 1..(Len(f) - 1) /\ i + 1 <= Len(f)
          BY <3>1, <4>1, <4>2
        <5> QED BY <3>1, <3>2, <3>3, <3>5, <4>1, <4>2, <5>1
      <4>3. CASE ~(i <= Len(f) - 1)
        <5>1. ~(i + 1 <= Len(f)) /\ (i + 1) - Len(f) = i - (Len(f) - 1)
          BY <3>1, <4>1, <4>3
        <5>2. a[i] = cp[i - (Len(f) - 1)]
          BY <3>3, <4>1, <4>3
        <5>3. b[i] = cp[(i + 1) - Len(f)]
          BY <3>1, <3>5, <4>1, <5>1
        <5> QED BY <5>1, <5>2, <5>3
      <4> QED BY <4>2, <4>3
    <3>7. Len(a) = Len(b)
      BY <3>1, <3>3, <3>5
    <3>8. a = b
      BY <3>3, <3>5, <3>6, <3>7, SeqEqual
    <3> QED BY <3>8 DEF a, b
  <2>6. Lead(parts) = Append(Tail(f), Word("comma")) /\ Lead(parts) = Tail(f) \o comma
    BY <1>1, <1>7, <2>4, AppendIsConcat DEF Lead, comma
  <2>7. Lead(parts) \in Seq(Tokens)
    BY <1>1, <2>4, <2>6, ConcatProperties
  <2>8. Tail(f) \o (comma \o p) = (Tail(f) \o comma) \o p
    BY <1>1, <2>4, ConcatAssociative, SMTT(30)
  <2> QED BY <1>3, <2>2, <2>4, <2>5, <2>6, <2>7, <2>8 DEF cp
<1> QED BY <1>6, <1>7

-----------------------------------------------------------------------------
(***************************************************************************)
(* What has been read at each point of the grammar                         *)
(***************************************************************************)
Kinds == {"none", "create_database", "drop_database", "use", "create_table", "drop_table",
          "select", "delete", "insert", "update"}

\* A value slot holds a literal, or nothing when there was none to read.
Values == Literals \cup {Missing}

\* Statements in the making.
Partial ==
  [kind : Kinds, name : Names \cup {Empty}, column : Names \cup {Empty, "*"},
   columns : Seq([name : Names, type : {"none", "int", "string"}, primary : BOOLEAN]),
   values : Seq(Values),
   where : [column : Names, op : {"none", "=", "<", ">"}, value : Values] \cup {NoWhere}]

Target(c) == IF c = "*" THEN Word("*") ELSE Id(c)

ColumnTexts(cs) == [i \in 1..Len(cs) |-> ColumnText(cs[i])]
ValueTexts(vs)  == [i \in 1..Len(vs) |-> ValueText(vs[i])]

CreateOpen(n) == <<Word("create"), Word("table"), Id(n), Word("(")>>
InsertOpen(n) == <<Word("insert"), Word("into"), Id(n), Word("values"), Word("(")>>

\* Only words of the statement's kind so far.
Begun(words, k, x, st) == x = words /\ st = Of(k, Empty, Empty, <<>>, <<>>, NoWhere)

\* CREATE TABLE: its name, its columns up to the next one, and within one.
HeardTable(x, st) ==
  \E n \in Names : /\ st = Of("create_table", n, Empty, <<>>, <<>>, NoWhere)
                   /\ x = <<Word("create"), Word("table"), Id(n)>>
HeardColumns(x, st) ==
  \E n \in Names, cs \in Seq(Columns) :
    /\ st = Of("create_table", n, Empty, cs, <<>>, NoWhere)
    /\ x = CreateOpen(n) \o Lead(ColumnTexts(cs))
HeardColumnName(x, st) ==
  \E n \in Names, cs \in Seq(Columns), m \in Names :
    /\ st = Of("create_table", n, Empty,
               Append(cs, [name |-> m, type |-> "none", primary |-> FALSE]), <<>>, NoWhere)
    /\ x = CreateOpen(n) \o (Lead(ColumnTexts(cs)) \o <<Id(m)>>)
HeardColumnType(x, st) ==
  \E n \in Names, cs \in Seq(Columns), m \in Names, y \in {"int", "string"} :
    /\ st = Of("create_table", n, Empty,
               Append(cs, [name |-> m, type |-> y, primary |-> FALSE]), <<>>, NoWhere)
    /\ x = CreateOpen(n) \o (Lead(ColumnTexts(cs)) \o <<Id(m), Word(y)>>)
HeardColumn(x, st) ==
  \E n \in Names, cs \in Seq(Columns) :
    /\ st = Of("create_table", n, Empty, cs, <<>>, NoWhere) /\ cs # <<>>
    /\ x = CreateOpen(n) \o Listed(ColumnTexts(cs))

\* INSERT: its table, and its values up to the next one and behind one.
HeardInto(x, st) ==
  \E n \in Names : /\ st = Of("insert", n, Empty, <<>>, <<>>, NoWhere)
                   /\ x = <<Word("insert"), Word("into"), Id(n)>>
HeardIntoValues(x, st) ==
  \E n \in Names : /\ st = Of("insert", n, Empty, <<>>, <<>>, NoWhere)
                   /\ x = <<Word("insert"), Word("into"), Id(n), Word("values")>>
HeardValues(x, st) ==
  \E n \in Names, vs \in Seq(Values) :
    /\ st = Of("insert", n, Empty, <<>>, vs, NoWhere)
    /\ x = InsertOpen(n) \o Lead(ValueTexts(vs))
HeardValue(x, st) ==
  \E n \in Names, vs \in Seq(Values) :
    /\ st = Of("insert", n, Empty, <<>>, vs, NoWhere) /\ vs # <<>>
    /\ x = InsertOpen(n) \o Listed(ValueTexts(vs))

\* SELECT and UPDATE up to their table and their value.
HeardTarget(x, st) ==
  \E c \in Names \cup {"*"} : /\ st = Of("select", Empty, c, <<>>, <<>>, NoWhere)
                              /\ x = <<Word("select"), Target(c)>>
HeardFrom(x, st) ==
  \E c \in Names \cup {"*"} : /\ st = Of("select", Empty, c, <<>>, <<>>, NoWhere)
                              /\ x = <<Word("select"), Target(c), Word("from")>>
HeardUpdate(x, st) ==
  \E n \in Names : /\ st = Of("update", n, Empty, <<>>, <<>>, NoWhere)
                   /\ x = <<Word("update"), Id(n)>>
HeardUpdateSet(x, st) ==
  \E n \in Names : /\ st = Of("update", n, Empty, <<>>, <<>>, NoWhere)
                   /\ x = <<Word("update"), Id(n), Word("set")>>
HeardSetColumn(x, st) ==
  \E n, c \in Names : /\ st = Of("update", n, c, <<>>, <<>>, NoWhere)
                      /\ x = <<Word("update"), Id(n), Word("set"), Id(c)>>
HeardSet(x, st) ==
  \E n, c \in Names : /\ st = Of("update", n, c, <<>>, <<>>, NoWhere)
                      /\ x = <<Word("update"), Id(n), Word("set"), Id(c), Word("=")>>

\* A statement that may have a WHERE clause, and the clause up to its value.
Tails(k, n, c, vs) ==
  \/ k = "select" /\ n \in Names /\ c \in Names \cup {"*"} /\ vs = <<>>
  \/ k = "delete" /\ n \in Names /\ c = Empty /\ vs = <<>>
  \/ k = "update" /\ n \in Names /\ c \in Names /\ \E v \in Values : vs = <<v>>
Bare(k, n, c, vs) == Render(Of(k, n, c, <<>>, vs, NoWhere))
HeardTail(x, st) ==
  \E k, n, c, vs : /\ Tails(k, n, c, vs) /\ st = Of(k, n, c, <<>>, vs, NoWhere)
                   /\ x = Bare(k, n, c, vs)
HeardWhere(x, st) ==
  \E k, n, c, vs : /\ Tails(k, n, c, vs) /\ st = Of(k, n, c, <<>>, vs, NoWhere)
                   /\ x = Bare(k, n, c, vs) \o <<Word("where")>>
HeardWhereColumn(x, st) ==
  \E k, n, c, vs : \E m \in Names :
    /\ Tails(k, n, c, vs)
    /\ st = Of(k, n, c, <<>>, vs, [column |-> m, op |-> "none", value |-> Missing])
    /\ x = Bare(k, n, c, vs) \o <<Word("where"), Id(m)>>
HeardWhereOp(x, st) ==
  \E k, n, c, vs : \E m \in Names, o \in {"=", "<", ">"} :
    /\ Tails(k, n, c, vs)
    /\ st = Of(k, n, c, <<>>, vs, [column |-> m, op |-> o, value |-> Missing])
    /\ x = Bare(k, n, c, vs) \o <<Word("where"), Id(m), Word(o)>>

\* A whole statement.
HeardAll(x, st) == st \in Partial /\ x = Render(st)
HeardEnd(x, st) == HeardAll(x, st) /\ OneKey(st.columns)
HeardMore(x, st) == st \in Partial /\ Reads(x, st) /\ OneKey(st.columns)

\* x is the text read at point a, st the statement built from it.
Heard(a, x, st) ==
  /\ st \in Partial
  /\ a = "start"           => Begun(<<>>, "none", x, st)
  /\ a = "create"          => Begun(<<Word("create")>>, "none", x, st)
  /\ a = "create_database" => Begun(<<Word("create"), Word("database")>>, a, x, st)
  /\ a = "create_table"    => Begun(<<Word("create"), Word("table")>>, a, x, st)
  /\ a = "columns"         => HeardTable(x, st)
  /\ a = "first_column"    => HeardColumns(x, st)
  /\ a = "column"          => HeardColumns(x, st)
  /\ a = "column_type"     => HeardColumnName(x, st)
  /\ a = "column_key"      => HeardColumnType(x, st)
  /\ a = "column_end"      => HeardColumn(x, st)
  /\ a = "keys"            => HeardAll(x, st)
  /\ a = "drop"            => Begun(<<Word("drop")>>, "none", x, st)
  /\ a = "drop_database"   => Begun(<<Word("drop"), Word("database")>>, a, x, st)
  /\ a = "drop_table"      => Begun(<<Word("drop"), Word("table")>>, a, x, st)
  /\ a = "use"             => Begun(<<Word("use")>>, a, x, st)
  /\ a = "select"          => Begun(<<Word("select")>>, a, x, st)
  /\ a = "select_from"     => HeardTarget(x, st)
  /\ a = "select_table"    => HeardFrom(x, st)
  /\ a = "delete"          => Begun(<<Word("delete")>>, a, x, st)
  /\ a = "delete_table"    => Begun(<<Word("delete"), Word("from")>>, "delete", x, st)
  /\ a = "insert"          => Begun(<<Word("insert")>>, a, x, st)
  /\ a = "insert_table"    => Begun(<<Word("insert"), Word("into")>>, "insert", x, st)
  /\ a = "insert_values"   => HeardInto(x, st)
  /\ a = "insert_list"     => HeardIntoValues(x, st)
  /\ a = "first_value"     => HeardValues(x, st)
  /\ a = "value"           => HeardValues(x, st)
  /\ a = "value_end"       => HeardValue(x, st)
  /\ a = "update"          => Begun(<<Word("update")>>, a, x, st)
  /\ a = "update_set"      => HeardUpdate(x, st)
  /\ a = "update_column"   => HeardUpdateSet(x, st)
  /\ a = "update_eq"       => HeardSetColumn(x, st)
  /\ a = "set_value"       => HeardSet(x, st)
  /\ a = "tail"            => HeardTail(x, st)
  /\ a = "where_column"    => HeardWhere(x, st)
  /\ a = "where_op"        => HeardWhereColumn(x, st)
  /\ a = "where_value"     => HeardWhereOp(x, st)
  /\ a = "end"             => HeardEnd(x, st)
  /\ a = "accepted"        => HeardMore(x, st)

-----------------------------------------------------------------------------
(***************************************************************************)
(* One token more                                                          *)
(***************************************************************************)

\* What Put does to a statement, by where the edge puts its token.
LEMMA PutNothing ==
  ASSUME NEW e, NEW t, NEW k, NEW n, NEW c, NEW cs, NEW vs, NEW w,
         stmt = Of(k, n, c, cs, vs, w), e.put = "nothing", e.to \notin DOMAIN KindOf
  PROVE  Put(e, t) = stmt
  BY DEF Put, Of, KindOf

\* An edge that puts nothing may still tell the kind of statement.
LEMMA PutStart ==
  ASSUME NEW e, NEW t, NEW k, NEW n, NEW c, NEW cs, NEW vs, NEW w,
         stmt = Of(k, n, c, cs, vs, w), e.put = "nothing", e.to \in DOMAIN KindOf
  PROVE  Put(e, t) = Of(e.to, n, c, cs, vs, w)
  BY DEF Put, Of, KindOf

LEMMA PutKind ==
  ASSUME NEW e, NEW t, NEW k, NEW n, NEW c, NEW cs, NEW vs, NEW w,
         stmt = Of(k, n, c, cs, vs, w), e.put = "kind"
  PROVE  Put(e, t) = Of(e.to, n, c, cs, vs, w)
  BY DEF Put, Of

LEMMA PutName ==
  ASSUME NEW e, NEW t, NEW k, NEW n, NEW c, NEW cs, NEW vs, NEW w,
         stmt = Of(k, n, c, cs, vs, w), e.put = "name"
  PROVE  Put(e, t) = Of(k, t.lexeme, c, cs, vs, w)
  BY DEF Put, Of

LEMMA PutTarget ==
  ASSUME NEW e, NEW t, NEW k, NEW n, NEW c, NEW cs, NEW vs, NEW w,
         stmt = Of(k, n, c, cs, vs, w), e.put = "target"
  PROVE  Put(e, t) = Of(k, n, t.lexeme, cs, vs, w)
  BY DEF Put, Of

LEMMA PutValue ==
  ASSUME NEW e, NEW t, NEW k, NEW n, NEW c, NEW cs, NEW vs, NEW w,
         stmt = Of(k, n, c, cs, vs, w), e.put = "value"
  PROVE  Put(e, t) = Of(k, n, c, cs, Append(vs, t), w)
  BY DEF Put, Of

LEMMA PutColumn ==
  ASSUME NEW e, NEW t, NEW k, NEW n, NEW c, NEW cs, NEW vs, NEW w,
         stmt = Of(k, n, c, cs, vs, w), e.put = "column"
  PROVE  Put(e, t) = Of(k, n, c,
              Append(cs, [name |-> t.lexeme, type |-> "none", primary |-> FALSE]), vs, w)
  BY DEF Put, Of

LEMMA PutWhereColumn ==
  ASSUME NEW e, NEW t, NEW k, NEW n, NEW c, NEW cs, NEW vs, NEW w,
         stmt = Of(k, n, c, cs, vs, w), e.put = "where_column"
  PROVE  Put(e, t) = Of(k, n, c, cs, vs,
              [column |-> t.lexeme, op |-> "none", value |-> Missing])
  BY DEF Put, Of

LEMMA PutWhereOp ==
  ASSUME NEW e, NEW t, NEW k, NEW n, NEW c, NEW cs, NEW vs, NEW w,
         stmt = Of(k, n, c, cs, vs, w), e.put = "where_op"
  PROVE  Put(e, t) = Of(k, n, c, cs, vs, [w EXCEPT !.op = t.lexeme])
  BY DEF Put, Of

LEMMA PutWhereValue ==
  ASSUME NEW e, NEW t, NEW k, NEW n, NEW c, NEW cs, NEW vs, NEW w,
         stmt = Of(k, n, c, cs, vs, w), e.put = "where_value"
  PROVE  Put(e, t) = Of(k, n, c, cs, vs, [w EXCEPT !.value = t])
  BY DEF Put, Of

LEMMA PutType ==
  ASSUME NEW e, NEW t, NEW k, NEW n, NEW c, NEW cs, NEW vs, NEW w,
         stmt = Of(k, n, c, cs, vs, w), e.put = "type"
  PROVE  Put(e, t) = Of(k, n, c, [cs EXCEPT ![Len(cs)] = [@ EXCEPT !.type =
           t.lexeme]], vs, w)
  BY DEF Put, Of, LastColumn

LEMMA PutPrimary ==
  ASSUME NEW e, NEW t, NEW k, NEW n, NEW c, NEW cs, NEW vs, NEW w,
         stmt = Of(k, n, c, cs, vs, w), e.put = "primary"
  PROVE  Put(e, t) = Of(k, n, c, [cs EXCEPT ![Len(cs)] = [@ EXCEPT !.primary =
           TRUE]], vs, w)
  BY DEF Put, Of, LastColumn

\* A statement put together from parts of the right types.
LEMMA PartialOf ==
  ASSUME NEW k \in Kinds, NEW n \in Names \cup {Empty}, NEW c \in Names \cup {Empty, "*"},
         NEW vs \in Seq(Values)
  PROVE  /\ Of(k, n, c, <<>>, vs, NoWhere) \in Partial
<1>1. <<>> \in Seq([name : Names, type : {"none", "int", "string"}, primary : BOOLEAN])
  BY EmptySeq
<1> QED BY <1>1 DEF Of, Partial

\* SELECT names a column or the star.
LEMMA TargetTokens ==
  \A c \in Names \cup {"*"} : Target(c) \in Tokens
<1>1. Word("*") \in Tokens
  BY TokenTypes DEF Words
<1> QED BY <1>1, TokenTypes DEF Target

\* A list without columns has no primary key; a list without parts has no text.
LEMMA NoColumns ==
  OneKey(<<>>)
  BY DEF OneKey

LEMMA NoTexts ==
  Lead(ColumnTexts(<<>>)) = <<>> /\ Lead(ValueTexts(<<>>)) = <<>>
<1>1. Len(<<>>) = 0
  OBVIOUS
<1>2. ColumnTexts(<<>>) = <<>>
  BY <1>1 DEF ColumnTexts
<1>3. ValueTexts(<<>>) = <<>>
  BY <1>1 DEF ValueTexts
<1> QED BY <1>2, <1>3 DEF Lead

\* Without its WHERE clause a statement is its words.
LEMMA BareSelect ==
  ASSUME NEW n \in Names, NEW c \in Names \cup {"*"}
  PROVE  Bare("select", n, c, <<>>) = <<Word("select"), Target(c), Word("from"), Id(n)>>
<1> DEFINE s == Of("select", n, c, <<>>, <<>>, NoWhere)
           text == <<Word("select"), Target(c), Word("from"), Id(n)>>
<1>1. s.kind = "select" /\ s.name = n /\ s.column = c /\ s.where = NoWhere
  BY DEF Of
<1>2. text \in Seq(Tokens)
  <2>1. Word("select") \in Tokens /\ Target(c) \in Tokens /\ Word("from") \in Tokens /\
          Id(n) \in Tokens
    BY TokenTypes, TargetTokens DEF Words
  <2> QED BY <2>1
<1>3. WhereText(NoWhere) = <<>>
  BY DEF WhereText
<1> HIDE DEF s
<1>4. Render(s) = text \o WhereText(NoWhere)
  BY <1>1 DEF Render, Target
<1> HIDE DEF text
<1>5. Render(s) = text
  BY <1>2, <1>3, <1>4, ConcatEmptySeq
<1> QED BY <1>5 DEF Bare, s, text

LEMMA BareDelete ==
  ASSUME NEW n \in Names
  PROVE  Bare("delete", n, Empty, <<>>) = <<Word("delete"), Word("from"), Id(n)>>
<1> DEFINE s == Of("delete", n, Empty, <<>>, <<>>, NoWhere)
           text == <<Word("delete"), Word("from"), Id(n)>>
<1>1. s.kind = "delete" /\ s.name = n /\ s.where = NoWhere
  BY DEF Of
<1>2. text \in Seq(Tokens)
  <2>1. Word("delete") \in Tokens /\ Word("from") \in Tokens /\ Id(n) \in Tokens
    BY TokenTypes DEF Words
  <2> QED BY <2>1
<1>3. WhereText(NoWhere) = <<>>
  BY DEF WhereText
<1> HIDE DEF s
<1>4. Render(s) = text \o WhereText(NoWhere)
  BY <1>1 DEF Render
<1> HIDE DEF text
<1>5. Render(s) = text
  BY <1>2, <1>3, <1>4, ConcatEmptySeq
<1> QED BY <1>5 DEF Bare, s, text

-----------------------------------------------------------------------------
\* The columns and values read so far, as texts.
LEMMA OpenTokens ==
  ASSUME NEW n \in Names
  PROVE  CreateOpen(n) \in Seq(Tokens) /\ InsertOpen(n) \in Seq(Tokens)
<1>1. /\ Word("create") \in Tokens /\ Word("table") \in Tokens /\ Word("(") \in Tokens
      /\ Word("insert") \in Tokens /\ Word("into") \in Tokens /\ Word("values") \in Tokens
      /\ Id(n) \in Tokens
  BY TokenTypes DEF Words
<1> QED BY <1>1 DEF CreateOpen, InsertOpen

\* The text of a column, with and without PRIMARY.
LEMMA ColumnTextIs ==
  ASSUME NEW m \in Names, NEW y \in {"int", "string"}, NEW p \in BOOLEAN, NEW c,
         c = [name |-> m, type |-> y, primary |-> p]
  PROVE  /\ c \in Columns
         /\ ColumnText(c) \in Seq(Tokens)
         /\ ~p => ColumnText(c) = <<Id(m), Word(y)>>
         /\ p => ColumnText(c) = <<Id(m), Word(y), Word("primary")>>
<1>1. Id(m) \in Tokens /\ Word(y) \in Tokens /\ Word("primary") \in Tokens
  BY TokenTypes DEF Words
<1>2. c.name = m /\ c.type = y /\ c.primary = p /\ c \in Columns
  BY DEF Columns
<1>3. CASE p
  <2>1. ColumnText(c) = <<Id(m), Word(y)>> \o <<Word("primary")>>
    BY <1>2, <1>3 DEF ColumnText
  <2>2. <<Id(m), Word(y)>> \o <<Word("primary")>> = <<Id(m), Word(y), Word("primary")>>
    <3>1. <<Id(m), Word(y)>> \in Seq(Tokens)
      BY <1>1
    <3>2. Append(<<Id(m), Word(y)>>, Word("primary")) =
            <<Id(m), Word(y)>> \o <<Word("primary")>>
      BY <1>1, <3>1, AppendIsConcat
    <3> QED BY <1>1, <3>2, WrittenThree
  <2>3. <<Id(m), Word(y), Word("primary")>> \in Seq(Tokens)
    BY <1>1
  <2> QED BY <1>2, <1>3, <2>1, <2>2, <2>3
<1>4. CASE ~p
  <2>1. ColumnText(c) = <<Id(m), Word(y)>> \o <<>>
    BY <1>2, <1>4 DEF ColumnText
  <2>2. <<Id(m), Word(y)>> \in Seq(Tokens)
    BY <1>1
  <2>3. <<Id(m), Word(y)>> \o <<>> = <<Id(m), Word(y)>>
    BY <2>2, ConcatEmptySeq
  <2> QED BY <1>2, <1>4, <2>1, <2>2, <2>3
<1> QED BY <1>3, <1>4

LEMMA ColumnTextTokens ==
  ASSUME NEW c \in Columns
  PROVE  ColumnText(c) \in Seq(Tokens)
<1>1. PICK m \in Names, y \in {"int", "string"}, p \in BOOLEAN :
        c = [name |-> m, type |-> y, primary |-> p]
  BY DEF Columns
<1> QED BY <1>1, ColumnTextIs

\* One more column is one more text.
LEMMA ColumnTextsNext ==
  ASSUME NEW cs \in Seq(Columns)
  PROVE  /\ ColumnTexts(cs) \in Seq(Seq(Tokens))
         /\ cs # <<>> => ColumnTexts(cs) # <<>>
         /\ \A c \in Columns :
              ColumnTexts(Append(cs, c)) = Append(ColumnTexts(cs), ColumnText(c))
<1> DEFINE q == ColumnTexts(cs)
           e(i) == ColumnText(cs[i])
<1>1. Len(cs) \in Nat /\ \A i \in 1..Len(cs) : cs[i] \in Columns
  BY LenProperties, ElementOfSeq
<1>2. \A i \in 1..Len(cs) : e(i) \in Seq(Tokens)
  BY <1>1, ColumnTextTokens
<1>3. q = [i \in 1..Len(cs) |-> e(i)] /\ DOMAIN q = 1..Len(cs)
  BY DEF ColumnTexts
<1>4. q \in Seq(Seq(Tokens))
  <2> HIDE DEF e, q
  <2>1. [i \in 1..Len(cs) |-> e(i)] \in Seq(Seq(Tokens))
    BY <1>1, <1>2, IsASeq
  <2> QED BY <1>3, <2>1
<1>5. Len(q) = Len(cs)
  <2> HIDE DEF e, q
  <2>1. Len(q) \in Nat /\ DOMAIN q = 1..Len(q)
    BY <1>4, LenProperties
  <2> QED BY <1>1, <1>3, <2>1
<1>6. ASSUME NEW c \in Columns
      PROVE  ColumnTexts(Append(cs, c)) = Append(q, ColumnText(c))
  <2>1. PICK r : r = Append(cs, c)
    OBVIOUS
  <2>2. /\ Len(r) = Len(cs) + 1 /\ r[Len(cs) + 1] = c
        /\ \A i \in 1..Len(cs) : r[i] = cs[i]
    BY <2>1, AppendProperties
  <2>3. PICK u : u = Append(q, ColumnText(c))
    OBVIOUS
  <2> HIDE DEF q
  <2>4. /\ u \in Seq(Seq(Tokens)) /\ Len(u) = Len(cs) + 1
        /\ u[Len(cs) + 1] = ColumnText(c) /\ \A i \in 1..Len(cs) : u[i] = q[i]
    BY <1>4, <1>5, <2>3, ColumnTextTokens, AppendProperties
  <2>5. ColumnTexts(r) = [i \in 1..(Len(cs) + 1) |-> ColumnText(r[i])]
    BY <2>2 DEF ColumnTexts
  <2>6. u = [i \in 1..(Len(cs) + 1) |-> u[i]]
    BY <2>4, LenProperties
  <2>7. \A i \in 1..(Len(cs) + 1) : ColumnText(r[i]) = u[i]
    <3> TAKE i \in 1..(Len(cs) + 1)
    <3>1. i \in 1..Len(cs) \/ i = Len(cs) + 1
      BY <1>1
    <3>2. i \in 1..Len(cs) => q[i] = ColumnText(cs[i])
      BY DEF q, ColumnTexts
    <3> QED BY <2>2, <2>4, <3>1, <3>2
  <2> QED BY <2>1, <2>3, <2>5, <2>6, <2>7
<1>7. cs # <<>> => q # <<>>
  <2> HIDE DEF q
  <2> QED BY <1>4, <1>5, EmptySeq
<1> QED BY <1>4, <1>6, <1>7

LEMMA ValueTextTokens ==
  ASSUME NEW v \in Values
  PROVE  /\ ValueText(v) \in Seq(Tokens)
         /\ v \in Literals => ValueText(v) = <<v>>
         /\ ValueText(Missing) = <<>>
<1>1. v \in Literals => v # Missing /\ v \in Tokens
  <2>1. \A l \in Literals : l.kind # "missing"
    BY DEF Literals
  <2>2. Missing.kind = "missing"
    BY DEF Missing
  <2> QED BY <2>1, <2>2, TokenTypes
<1> QED BY <1>1 DEF ValueText, Values

\* One more value is one more text.
LEMMA ValueTextsNext ==
  ASSUME NEW vs \in Seq(Values)
  PROVE  /\ ValueTexts(vs) \in Seq(Seq(Tokens))
         /\ vs # <<>> => ValueTexts(vs) # <<>>
         /\ \A v \in Values :
              ValueTexts(Append(vs, v)) = Append(ValueTexts(vs), ValueText(v))
<1> DEFINE q == ValueTexts(vs)
           e(i) == ValueText(vs[i])
<1>1. Len(vs) \in Nat /\ \A i \in 1..Len(vs) : vs[i] \in Values
  BY LenProperties, ElementOfSeq
<1>2. \A i \in 1..Len(vs) : e(i) \in Seq(Tokens)
  BY <1>1, ValueTextTokens
<1>3. q = [i \in 1..Len(vs) |-> e(i)] /\ DOMAIN q = 1..Len(vs)
  BY DEF ValueTexts
<1>4. q \in Seq(Seq(Tokens))
  <2> HIDE DEF e, q
  <2>1. [i \in 1..Len(vs) |-> e(i)] \in Seq(Seq(Tokens))
    BY <1>1, <1>2, IsASeq
  <2> QED BY <1>3, <2>1
<1>5. Len(q) = Len(vs)
  <2> HIDE DEF e, q
  <2>1. Len(q) \in Nat /\ DOMAIN q = 1..Len(q)
    BY <1>4, LenProperties
  <2> QED BY <1>1, <1>3, <2>1
<1>6. ASSUME NEW v \in Values
      PROVE  ValueTexts(Append(vs, v)) = Append(q, ValueText(v))
  <2>1. PICK r : r = Append(vs, v)
    OBVIOUS
  <2>2. /\ Len(r) = Len(vs) + 1 /\ r[Len(vs) + 1] = v
        /\ \A i \in 1..Len(vs) : r[i] = vs[i]
    BY <2>1, AppendProperties
  <2>3. PICK u : u = Append(q, ValueText(v))
    OBVIOUS
  <2> HIDE DEF q
  <2>4. /\ u \in Seq(Seq(Tokens)) /\ Len(u) = Len(vs) + 1
        /\ u[Len(vs) + 1] = ValueText(v) /\ \A i \in 1..Len(vs) : u[i] = q[i]
    BY <1>4, <1>5, <2>3, ValueTextTokens, AppendProperties
  <2>5. ValueTexts(r) = [i \in 1..(Len(vs) + 1) |-> ValueText(r[i])]
    BY <2>2 DEF ValueTexts
  <2>6. u = [i \in 1..(Len(vs) + 1) |-> u[i]]
    BY <2>4, LenProperties
  <2>7. \A i \in 1..(Len(vs) + 1) : ValueText(r[i]) = u[i]
    <3> TAKE i \in 1..(Len(vs) + 1)
    <3>1. i \in 1..Len(vs) \/ i = Len(vs) + 1
      BY <1>1
    <3>2. i \in 1..Len(vs) => q[i] = ValueText(vs[i])
      BY DEF q, ValueTexts
    <3> QED BY <2>2, <2>4, <3>1, <3>2
  <2> QED BY <2>1, <2>3, <2>5, <2>6, <2>7
<1>7. vs # <<>> => q # <<>>
  <2> HIDE DEF q
  <2> QED BY <1>4, <1>5, EmptySeq
<1> QED BY <1>4, <1>6, <1>7

\* The last column under construction is the one PRIMARY and the type are put in.
LEMMA LastExcept ==
  ASSUME NEW S, NEW cs \in Seq(S), NEW c \in S, NEW d \in S, NEW b, b = Append(cs, c)
  PROVE  [b EXCEPT ![Len(b)] = d] = Append(cs, d) /\ b[Len(b)] = c
<1>1. /\ b \in Seq(S) /\ Len(b) = Len(cs) + 1 /\ Len(cs) \in Nat
      /\ b[Len(cs) + 1] = c /\ \A i \in 1..Len(cs) : b[i] = cs[i]
  BY LenProperties, AppendProperties
<1>2. PICK u : u = Append(cs, d)
  OBVIOUS
<1>3. /\ u \in Seq(S) /\ Len(u) = Len(cs) + 1
      /\ u[Len(cs) + 1] = d /\ \A i \in 1..Len(cs) : u[i] = cs[i]
  BY <1>2, AppendProperties
<1>4. PICK n : n = Len(b)
  OBVIOUS
<1>5. b = [i \in 1..n |-> b[i]] /\ u = [i \in 1..n |-> u[i]]
  BY <1>1, <1>3, <1>4, LenProperties
<1>6. [b EXCEPT ![n] = d] = [i \in 1..n |-> IF i = n THEN d ELSE b[i]]
  BY <1>5
<1>7. \A i \in 1..n : u[i] = IF i = n THEN d ELSE b[i]
  <2> TAKE i \in 1..n
  <2>1. i \in 1..Len(cs) \/ i = Len(cs) + 1
    BY <1>1, <1>4
  <2> QED BY <1>1, <1>3, <1>4, <2>1
<1>8. [b EXCEPT ![n] = d] = u
  BY <1>5, <1>6, <1>7
<1> QED BY <1>1, <1>2, <1>4, <1>8

Building == [name : Names, type : {"none", "int", "string"}, primary : BOOLEAN]

\* The columns under construction are columns of a statement under construction.
LEMMA PartialColumns ==
  ASSUME NEW n \in Names, NEW cs \in Seq(Building)
  PROVE  Of("create_table", n, Empty, cs, <<>>, NoWhere) \in Partial
<1>1. <<>> \in Seq(Values)
  BY EmptySeq
<1> QED BY <1>1 DEF Of, Partial, Building, Kinds

LEMMA ColumnsBuild ==
  ASSUME NEW cs \in Seq(Columns)
  PROVE  cs \in Seq(Building)
<1>1. Columns \subseteq Building
  BY DEF Columns, Building
<1> QED BY <1>1, SeqMonotonic

LEMMA PartialWhere ==
  ASSUME NEW k, NEW n, NEW c, NEW vs, Tails(k, n, c, vs),
         NEW w \in [column : Names, op : {"none", "=", "<", ">"}, value : Values]
  PROVE  Of(k, n, c, <<>>, vs, w) \in Partial
<1>1. vs \in Seq(Values)
  <2>1. \A v \in Values : <<v>> \in Seq(Values)
    OBVIOUS
  <2> QED BY <2>1, EmptySeq DEF Tails
<1>2. <<>> \in Seq(Building)
  BY EmptySeq
<1> QED BY <1>1, <1>2 DEF Of, Partial, Building, Kinds, Tails

\* A column is whole when its type, and PRIMARY if it is there, has been read.
LEMMA ColumnWhole ==
  ASSUME NEW x, NEW st, NEW n \in Names, NEW cs \in Seq(Columns), NEW c \in Columns,
         st = Of("create_table", n, Empty, Append(cs, c), <<>>, NoWhere),
         x = CreateOpen(n) \o (Lead(ColumnTexts(cs)) \o ColumnText(c))
  PROVE  HeardColumn(x, st) /\ st \in Partial
<1>1. Append(cs, c) \in Seq(Columns) /\ Append(cs, c) # <<>>
  BY AppendProperties
<1>2. Listed(ColumnTexts(Append(cs, c))) = Lead(ColumnTexts(cs)) \o ColumnText(c)
  BY ColumnTextsNext, ColumnTextTokens, ListedNext
<1>3. st \in Partial
  BY <1>1, PartialColumns, ColumnsBuild
<1> QED BY <1>1, <1>2, <1>3 DEF HeardColumn

LEMMA ValueWhole ==
  ASSUME NEW x, NEW st, NEW n \in Names, NEW vs \in Seq(Values), NEW v \in Values,
         st = Of("insert", n, Empty, <<>>, Append(vs, v), NoWhere),
         x = InsertOpen(n) \o (Lead(ValueTexts(vs)) \o ValueText(v))
  PROVE  HeardValue(x, st) /\ st \in Partial
<1>1. Append(vs, v) \in Seq(Values) /\ Append(vs, v) # <<>>
  BY AppendProperties
<1>2. Listed(ValueTexts(Append(vs, v))) = Lead(ValueTexts(vs)) \o ValueText(v)
  BY ValueTextsNext, ValueTextTokens, ListedNext
<1>3. st \in Partial
  BY <1>1, PartialOf DEF Kinds
<1> QED BY <1>1, <1>2, <1>3 DEF HeardValue

\* UPDATE is its words and its value, before WHERE.
LEMMA BareUpdate ==
  ASSUME NEW n \in Names, NEW c \in Names, NEW v \in Values
  PROVE  /\ Bare("update", n, c, <<v>>) =
              <<Word("update"), Id(n), Word("set"), Id(c), Word("=")>> \o ValueText(v)
         /\ Bare("update", n, c, <<v>>) \in Seq(Tokens)
         /\ Tails("update", n, c, <<v>>)
<1> DEFINE s == Of("update", n, c, <<>>, <<v>>, NoWhere)
           text == <<Word("update"), Id(n), Word("set"), Id(c), Word("=")>>
<1>1. s.kind = "update" /\ s.name = n /\ s.column = c /\ s.values[1] = v /\
        s.where = NoWhere
  BY DEF Of
<1>2. text \in Seq(Tokens)
  <2>1. /\ Word("update") \in Tokens /\ Word("set") \in Tokens /\ Word("=") \in Tokens
        /\ Id(n) \in Tokens /\ Id(c) \in Tokens
    BY TokenTypes DEF Words
  <2> QED BY <2>1
<1>3. WhereText(NoWhere) = <<>> /\ ValueText(v) \in Seq(Tokens)
  BY ValueTextTokens DEF WhereText
<1> HIDE DEF s
<1>4. Render(s) = (text \o ValueText(v)) \o WhereText(NoWhere)
  BY <1>1 DEF Render
<1> HIDE DEF text
<1>5. text \o ValueText(v) \in Seq(Tokens)
  BY <1>2, <1>3, ConcatProperties
<1>6. Render(s) = text \o ValueText(v)
  BY <1>3, <1>4, <1>5, ConcatEmptySeq
<1>7. Tails("update", n, c, <<v>>)
  BY DEF Tails
<1> QED BY <1>5, <1>6, <1>7 DEF Bare, s, text

\* A statement without WHERE is made of tokens.
LEMMA BareTokens ==
  ASSUME NEW k, NEW n, NEW c, NEW vs, Tails(k, n, c, vs)
  PROVE  Bare(k, n, c, vs) \in Seq(Tokens)
<1>1. CASE k = "select" /\ n \in Names /\ c \in Names \cup {"*"} /\ vs = <<>>
  <2>1. Word("select") \in Tokens /\ Target(c) \in Tokens /\ Word("from") \in Tokens /\
          Id(n) \in Tokens
    BY <1>1, TokenTypes, TargetTokens DEF Words
  <2>2. <<Word("select"), Target(c), Word("from"), Id(n)>> \in Seq(Tokens)
    BY <2>1
  <2> QED BY <1>1, <2>2, BareSelect
<1>2. CASE k = "delete" /\ n \in Names /\ c = Empty /\ vs = <<>>
  <2>1. Word("delete") \in Tokens /\ Word("from") \in Tokens /\ Id(n) \in Tokens
    BY <1>2, TokenTypes DEF Words
  <2>2. <<Word("delete"), Word("from"), Id(n)>> \in Seq(Tokens)
    BY <2>1
  <2> QED BY <1>2, <2>2, BareDelete
<1>3. CASE k = "update" /\ n \in Names /\ c \in Names /\ \E v \in Values : vs = <<v>>
  BY <1>3, BareUpdate
<1> QED BY <1>1, <1>2, <1>3 DEF Tails

\* With its WHERE clause, a statement is what it was before and the clause.
LEMMA RenderWhere ==
  ASSUME NEW k, NEW n, NEW c, NEW vs, Tails(k, n, c, vs), NEW w,
           WhereText(w) \in Seq(Tokens)
  PROVE  Render(Of(k, n, c, <<>>, vs, w)) = Bare(k, n, c, vs) \o WhereText(w)
<1> DEFINE s == Of(k, n, c, <<>>, vs, w)
<1>1. s.kind = k /\ s.name = n /\ s.column = c /\ s.values = vs /\ s.where = w
  BY DEF Of
<1> HIDE DEF s
<1>2. CASE k = "select" /\ n \in Names /\ c \in Names \cup {"*"} /\ vs = <<>>
  <2>1. Render(s) = <<Word("select"), Target(c), Word("from"), Id(n)>> \o WhereText(w)
    BY <1>1, <1>2 DEF Render, Target
  <2> QED BY <1>2, <2>1, BareSelect DEF s
<1>3. CASE k = "delete" /\ n \in Names /\ c = Empty /\ vs = <<>>
  <2>1. Render(s) = <<Word("delete"), Word("from"), Id(n)>> \o WhereText(w)
    BY <1>1, <1>3 DEF Render
  <2> QED BY <1>3, <2>1, BareDelete DEF s
<1>4. CASE k = "update" /\ n \in Names /\ c \in Names /\ \E v \in Values : vs = <<v>>
  <2>1. PICK v \in Values : vs = <<v>>
    BY <1>4
  <2>2. s.values[1] = v
    BY <1>1, <2>1
  <2>3. Render(s) = (<<Word("update"), Id(n), Word("set"), Id(c), Word("=")>> \o
          ValueText(v))
                      \o WhereText(w)
    BY <1>1, <1>4, <2>2 DEF Render
  <2> QED BY <1>4, <2>1, <2>3, BareUpdate DEF s
<1> QED BY <1>2, <1>3, <1>4 DEF Tails

\* The end of a WHERE clause ends the statement.
LEMMA WhereWhole ==
  ASSUME NEW k, NEW n, NEW c, NEW vs, Tails(k, n, c, vs),
         NEW m \in Names, NEW o \in {"=", "<", ">"}, NEW v \in Values, NEW x, NEW st,
         st = Of(k, n, c, <<>>, vs, [column |-> m, op |-> o, value |-> v]),
         x = Bare(k, n, c, vs) \o (<<Word("where"), Id(m), Word(o)>> \o ValueText(v))
  PROVE  HeardEnd(x, st)
<1> DEFINE w == [column |-> m, op |-> o, value |-> v]
<1>1. w # NoWhere
  <2>1. w.op # "none" /\ NoWhere.op = "none"
    BY DEF NoWhere
  <2> HIDE DEF w
  <2> QED BY <2>1
<1>2. WhereText(w) = <<Word("where"), Id(m), Word(o)>> \o ValueText(v)
  <2>1. w.column = m /\ w.op = o /\ w.value = v
    OBVIOUS
  <2> HIDE DEF w
  <2> QED BY <1>1, <2>1 DEF WhereText
<1>3. WhereText(w) \in Seq(Tokens)
  <2>1. Word("where") \in Tokens /\ Id(m) \in Tokens /\ Word(o) \in Tokens
    BY TokenTypes DEF Words
  <2>2. <<Word("where"), Id(m), Word(o)>> \in Seq(Tokens)
    BY <2>1
  <2> HIDE DEF w
  <2> QED BY <1>2, <2>2, ValueTextTokens, ConcatProperties
<1>4. w \in [column : Names, op : {"none", "=", "<", ">"}, value : Values]
  OBVIOUS
<1> HIDE DEF w
<1>5. Render(Of(k, n, c, <<>>, vs, w)) = Bare(k, n, c, vs) \o WhereText(w)
  BY <1>3, RenderWhere
<1>6. Of(k, n, c, <<>>, vs, w) \in Partial
  BY <1>4, PartialWhere
<1>7. OneKey(st.columns)
  <2>1. st.columns = <<>>
    BY DEF Of
  <2> QED BY <2>1, NoColumns
<1> QED BY <1>2, <1>5, <1>6, <1>7 DEF HeardEnd, HeardAll, w

\* A list that is not empty has a text of tokens.
LEMMA SomeListed ==
  ASSUME NEW parts \in Seq(Seq(Tokens)), parts # <<>>
  PROVE  Listed(parts) \in Seq(Tokens)
<1>1. <<>> \in Seq(Tokens)
  BY EmptySeq
<1> QED BY <1>1, ListedNext

\* The edges of parse_create up to the column list.
LEMMA CreateStep ==
  ASSUME NEW x \in Seq(Tokens), NEW t \in Tokens, NEW e \in CreateEdges, e.on = t.kind,
         Heard(e.from, x, stmt)
  PROVE  Heard(e.to, Append(x, t), Put(e, t))
<1>1. CASE e = Edge("create", "database", "create_database", "kind")
  <2>1. e.from = "create" /\ e.on = "database" /\ e.to = "create_database" /\ e.put = "kind"
    BY <1>1 DEF Edge
  <2>2. t = Word("database")
    BY <2>1, TokenKinds DEF Words
  <2>3. stmt = Of("none", Empty, Empty, <<>>, <<>>, NoWhere) /\ x = <<Word("create")>>
    BY <2>1 DEF Heard, Begun
  <2>4. Put(e, t) = Of("create_database", Empty, Empty, <<>>, <<>>, NoWhere)
    BY <2>1, <2>3, PutKind
  <2>t. Word("create") \in Tokens /\ Word("database") \in Tokens
    BY TokenTypes DEF Words
  <2>5. Append(x, t) = <<Word("create"), Word("database")>>
    BY <2>2, <2>3, <2>t, WrittenTwo
  <2>6. Begun(<<Word("create"), Word("database")>>, "create_database", Append(x, t),
          Put(e, t))
    BY <2>4, <2>5 DEF Begun
  <2>7. Put(e, t) \in Partial
    BY <2>4, PartialOf, EmptySeq DEF Kinds
  <2> QED BY <2>1, <2>6, <2>7 DEF Heard
<1>2. CASE e = Edge("create_database", "id", "end", "name")
  <2>1. e.from = "create_database" /\ e.on = "id" /\ e.to = "end" /\ e.put = "name"
    BY <1>2 DEF Edge
  <2>2. PICK n \in Names : t = Id(n)
    BY <2>1, TokenKinds
  <2>l. t.lexeme = n
    BY <2>2 DEF Id
  <2>3. 
          /\ stmt = Of("create_database", Empty, Empty, <<>>, <<>>, NoWhere)
          /\ x = <<Word("create"), Word("database")>>
    BY <2>1 DEF Heard, Begun
  <2>4. Put(e, t) = Of("create_database", n, Empty, <<>>, <<>>, NoWhere)
    BY <2>1, <2>l, <2>3, PutName
  <2>t. Word("create") \in Tokens /\ Word("database") \in Tokens /\ Id(n) \in Tokens
    BY TokenTypes DEF Words
  <2>5. Append(x, t) = <<Word("create"), Word("database"), Id(n)>>
    BY <2>2, <2>3, <2>t, WrittenThree
  <2>6. Render(Of("create_database", n, Empty, <<>>, <<>>, NoWhere)) =
          <<Word("create"), Word("database"), Id(n)>>
    BY DEF Render, Of
  <2>7. Put(e, t) \in Partial
    BY <2>4, PartialOf, EmptySeq DEF Kinds
  <2>8. Put(e, t).columns = <<>>
    BY <2>4 DEF Of
  <2>9. HeardEnd(Append(x, t), Put(e, t))
    BY <2>4, <2>5, <2>6, <2>7, <2>8, NoColumns DEF HeardEnd, HeardAll
  <2> QED BY <2>1, <2>7, <2>9 DEF Heard
<1>3. CASE e = Edge("create", "table", "create_table", "kind")
  <2>1. e.from = "create" /\ e.on = "table" /\ e.to = "create_table" /\ e.put = "kind"
    BY <1>3 DEF Edge
  <2>2. t = Word("table")
    BY <2>1, TokenKinds DEF Words
  <2>3. stmt = Of("none", Empty, Empty, <<>>, <<>>, NoWhere) /\ x = <<Word("create")>>
    BY <2>1 DEF Heard, Begun
  <2>4. Put(e, t) = Of("create_table", Empty, Empty, <<>>, <<>>, NoWhere)
    BY <2>1, <2>3, PutKind
  <2>t. Word("create") \in Tokens /\ Word("table") \in Tokens
    BY TokenTypes DEF Words
  <2>5. Append(x, t) = <<Word("create"), Word("table")>>
    BY <2>2, <2>3, <2>t, WrittenTwo
  <2>6. Begun(<<Word("create"), Word("table")>>, "create_table", Append(x, t), Put(e, t))
    BY <2>4, <2>5 DEF Begun
  <2>7. Put(e, t) \in Partial
    BY <2>4, PartialOf, EmptySeq DEF Kinds
  <2> QED BY <2>1, <2>6, <2>7 DEF Heard
<1>4. CASE e = Edge("create_table", "id", "columns", "name")
  <2>1. e.from = "create_table" /\ e.on = "id" /\ e.to = "columns" /\ e.put = "name"
    BY <1>4 DEF Edge
  <2>2. PICK n \in Names : t = Id(n)
    BY <2>1, TokenKinds
  <2>l. t.lexeme = n
    BY <2>2 DEF Id
  <2>3. 
          /\ stmt = Of("create_table", Empty, Empty, <<>>, <<>>, NoWhere)
          /\ x = <<Word("create"), Word("table")>>
    BY <2>1 DEF Heard, Begun
  <2>4. Put(e, t) = Of("create_table", n, Empty, <<>>, <<>>, NoWhere)
    BY <2>1, <2>l, <2>3, PutName
  <2>t. Word("create") \in Tokens /\ Word("table") \in Tokens /\ Id(n) \in Tokens
    BY TokenTypes DEF Words
  <2>5. Append(x, t) = <<Word("create"), Word("table"), Id(n)>>
    BY <2>2, <2>3, <2>t, WrittenThree
  <2>6. HeardTable(Append(x, t), Put(e, t))
    BY <2>4, <2>5 DEF HeardTable
  <2>7. Put(e, t) \in Partial
    BY <2>4, PartialOf, EmptySeq DEF Kinds
  <2> QED BY <2>1, <2>6, <2>7 DEF Heard
<1>5. CASE e = Edge("columns", "(", "first_column", "nothing")
  <2>1. e.from = "columns" /\ e.on = "(" /\ e.to = "first_column" /\ e.put = "nothing"
    BY <1>5 DEF Edge
  <2>2. t = Word("(")
    BY <2>1, TokenKinds DEF Words
  <2>3. PICK n \in Names : 
          /\ stmt = Of("create_table", n, Empty, <<>>, <<>>, NoWhere)
          /\ x = <<Word("create"), Word("table"), Id(n)>>
    BY <2>1 DEF Heard, HeardTable
  <2>4. Put(e, t) = Of("create_table", n, Empty, <<>>, <<>>, NoWhere)
    BY <2>1, <2>3, PutNothing DEF KindOf
  <2>t. 
        /\ Word("create") \in Tokens /\ Word("table") \in Tokens /\ Id(n) \in Tokens /\
             Word("(") \in Tokens
    BY TokenTypes DEF Words
  <2>5. Append(x, t) = <<Word("create"), Word("table"), Id(n), Word("(")>>
    BY <2>2, <2>3, <2>t, WrittenFour
  <2>6. Append(x, t) = CreateOpen(n) /\ CreateOpen(n) \in Seq(Tokens)
    BY <2>5, AppendProperties DEF CreateOpen
  <2>7. Append(x, t) = CreateOpen(n) \o Lead(ColumnTexts(<<>>))
    BY <2>6, NoTexts, ConcatEmptySeq
  <2>8. HeardColumns(Append(x, t), Put(e, t))
    BY <2>4, <2>7, EmptySeq DEF HeardColumns
  <2>9. Put(e, t) \in Partial
    BY <2>4, PartialOf, EmptySeq DEF Kinds
  <2> QED BY <2>1, <2>8, <2>9 DEF Heard
<1>6. CASE e = Edge("column_end", "comma", "column", "nothing")
  <2>1. e.from = "column_end" /\ e.on = "comma" /\ e.to = "column" /\ e.put = "nothing"
    BY <1>6 DEF Edge
  <2>2. t = Word("comma")
    BY <2>1, TokenKinds DEF Words
  <2>3. PICK n \in Names, cs \in Seq(Columns) :
          /\ stmt = Of("create_table", n, Empty, cs, <<>>, NoWhere) /\ cs # <<>>
          /\ x = CreateOpen(n) \o Listed(ColumnTexts(cs))
    BY <2>1 DEF Heard, HeardColumn
  <2>4. Put(e, t) = stmt /\ stmt \in Partial
    BY <2>1, <2>3, PutNothing DEF KindOf, Heard
  <2>5. /\ ColumnTexts(cs) \in Seq(Seq(Tokens)) /\ ColumnTexts(cs) # <<>>
        /\ Listed(ColumnTexts(cs)) \in Seq(Tokens)
    BY <2>3, ColumnTextsNext, SomeListed
  <2>6. Append(x, t) = CreateOpen(n) \o Lead(ColumnTexts(cs))
    <3>1. CreateOpen(n) \in Seq(Tokens)
      BY OpenTokens
    <3>2. Append(x, t) = CreateOpen(n) \o Append(Listed(ColumnTexts(cs)), t)
      <4>1. PICK l \in Seq(Tokens) : l = Listed(ColumnTexts(cs))
        BY <2>5
      <4>2. x = Joined(CreateOpen(n), l)
        BY <2>3, <4>1 DEF Joined
      <4>3. Append(x, t) = Joined(CreateOpen(n), Append(l, t))
        BY <3>1, <4>2, WrittenAfter
      <4> QED BY <4>1, <4>3 DEF Joined
    <3> QED BY <2>2, <2>3, <2>5, <3>2 DEF Lead
  <2>7. HeardColumns(Append(x, t), Put(e, t))
    BY <2>3, <2>4, <2>6 DEF HeardColumns
  <2> QED BY <2>1, <2>4, <2>7 DEF Heard
<1>7. CASE e = Edge("column_end", ")", "keys", "nothing")
  <2>1. e.from = "column_end" /\ e.on = ")" /\ e.to = "keys" /\ e.put = "nothing"
    BY <1>7 DEF Edge
  <2>2. t = Word(")")
    BY <2>1, TokenKinds DEF Words
  <2>3. PICK n \in Names, cs \in Seq(Columns) :
          /\ stmt = Of("create_table", n, Empty, cs, <<>>, NoWhere) /\ cs # <<>>
          /\ x = CreateOpen(n) \o Listed(ColumnTexts(cs))
    BY <2>1 DEF Heard, HeardColumn
  <2>4. Put(e, t) = stmt /\ stmt \in Partial
    BY <2>1, <2>3, PutNothing DEF KindOf, Heard
  <2>5. stmt.kind = "create_table" /\ stmt.name = n /\ stmt.columns = cs
    BY <2>3 DEF Of
  <2>6. Render(stmt) = (CreateOpen(n) \o Listed(ColumnTexts(cs))) \o <<Word(")")>>
    BY <2>5 DEF Render, CreateOpen, ColumnTexts
  <2>7. Append(x, t) = Render(stmt)
    BY <2>2, <2>3, <2>6, AppendIsConcat
  <2>8. HeardAll(Append(x, t), Put(e, t))
    BY <2>4, <2>7 DEF HeardAll
  <2> QED BY <2>1, <2>4, <2>8 DEF Heard
<1> QED BY <1>1, <1>2, <1>3, <1>4, <1>5, <1>6, <1>7 DEF CreateEdges

\* The edges of parse_drop.
LEMMA DropStep ==
  ASSUME NEW x \in Seq(Tokens), NEW t \in Tokens, NEW e \in DropEdges, e.on = t.kind,
         Heard(e.from, x, stmt)
  PROVE  Heard(e.to, Append(x, t), Put(e, t))
<1>1. CASE e = Edge("drop", "database", "drop_database", "kind")
  <2>1. e.from = "drop" /\ e.on = "database" /\ e.to = "drop_database" /\ e.put = "kind"
    BY <1>1 DEF Edge
  <2>2. t = Word("database")
    BY <2>1, TokenKinds DEF Words
  <2>3. stmt = Of("none", Empty, Empty, <<>>, <<>>, NoWhere) /\ x = <<Word("drop")>>
    BY <2>1 DEF Heard, Begun
  <2>4. Put(e, t) = Of("drop_database", Empty, Empty, <<>>, <<>>, NoWhere)
    BY <2>1, <2>3, PutKind
  <2>t. Word("drop") \in Tokens /\ Word("database") \in Tokens
    BY TokenTypes DEF Words
  <2>5. Append(x, t) = <<Word("drop"), Word("database")>>
    BY <2>2, <2>3, <2>t, WrittenTwo
  <2>6. Begun(<<Word("drop"), Word("database")>>, "drop_database", Append(x, t), Put(e, t))
    BY <2>4, <2>5 DEF Begun
  <2>7. Put(e, t) \in Partial
    BY <2>4, PartialOf, EmptySeq DEF Kinds
  <2> QED BY <2>1, <2>6, <2>7 DEF Heard
<1>2. CASE e = Edge("drop_database", "id", "end", "name")
  <2>1. e.from = "drop_database" /\ e.on = "id" /\ e.to = "end" /\ e.put = "name"
    BY <1>2 DEF Edge
  <2>2. PICK n \in Names : t = Id(n)
    BY <2>1, TokenKinds
  <2>l. t.lexeme = n
    BY <2>2 DEF Id
  <2>3. 
          /\ stmt = Of("drop_database", Empty, Empty, <<>>, <<>>, NoWhere)
          /\ x = <<Word("drop"), Word("database")>>
    BY <2>1 DEF Heard, Begun
  <2>4. Put(e, t) = Of("drop_database", n, Empty, <<>>, <<>>, NoWhere)
    BY <2>1, <2>l, <2>3, PutName
  <2>t. Word("drop") \in Tokens /\ Word("database") \in Tokens /\ Id(n) \in Tokens
    BY TokenTypes DEF Words
  <2>5. Append(x, t) = <<Word("drop"), Word("database"), Id(n)>>
    BY <2>2, <2>3, <2>t, WrittenThree
  <2>6. Render(Of("drop_database", n, Empty, <<>>, <<>>, NoWhere)) =
          <<Word("drop"), Word("database"), Id(n)>>
    BY DEF Render, Of
  <2>7. Put(e, t) \in Partial
    BY <2>4, PartialOf, EmptySeq DEF Kinds
  <2>8. Put(e, t).columns = <<>>
    BY <2>4 DEF Of
  <2>9. HeardEnd(Append(x, t), Put(e, t))
    BY <2>4, <2>5, <2>6, <2>7, <2>8, NoColumns DEF HeardEnd, HeardAll
  <2> QED BY <2>1, <2>7, <2>9 DEF Heard
<1>3. CASE e = Edge("drop", "table", "drop_table", "kind")
  <2>1. e.from = "drop" /\ e.on = "table" /\ e.to = "drop_table" /\ e.put = "kind"
    BY <1>3 DEF Edge
  <2>2. t = Word("table")
    BY <2>1, TokenKinds DEF Words
  <2>3. stmt = Of("none", Empty, Empty, <<>>, <<>>, NoWhere) /\ x = <<Word("drop")>>
    BY <2>1 DEF Heard, Begun
  <2>4. Put(e, t) = Of("drop_table", Empty, Empty, <<>>, <<>>, NoWhere)
    BY <2>1, <2>3, PutKind
  <2>t. Word("drop") \in Tokens /\ Word("table") \in Tokens
    BY TokenTypes DEF Words
  <2>5. Append(x, t) = <<Word("drop"), Word("table")>>
    BY <2>2, <2>3, <2>t, WrittenTwo
  <2>6. Begun(<<Word("drop"), Word("table")>>, "drop_table", Append(x, t), Put(e, t))
    BY <2>4, <2>5 DEF Begun
  <2>7. Put(e, t) \in Partial
    BY <2>4, PartialOf, EmptySeq DEF Kinds
  <2> QED BY <2>1, <2>6, <2>7 DEF Heard
<1>4. CASE e = Edge("drop_table", "id", "end", "name")
  <2>1. e.from = "drop_table" /\ e.on = "id" /\ e.to = "end" /\ e.put = "name"
    BY <1>4 DEF Edge
  <2>2. PICK n \in Names : t = Id(n)
    BY <2>1, TokenKinds
  <2>l. t.lexeme = n
    BY <2>2 DEF Id
  <2>3. 
          /\ stmt = Of("drop_table", Empty, Empty, <<>>, <<>>, NoWhere)
          /\ x = <<Word("drop"), Word("table")>>
    BY <2>1 DEF Heard, Begun
  <2>4. Put(e, t) = Of("drop_table", n, Empty, <<>>, <<>>, NoWhere)
    BY <2>1, <2>l, <2>3, PutName
  <2>t. Word("drop") \in Tokens /\ Word("table") \in Tokens /\ Id(n) \in Tokens
    BY TokenTypes DEF Words
  <2>5. Append(x, t) = <<Word("drop"), Word("table"), Id(n)>>
    BY <2>2, <2>3, <2>t, WrittenThree
  <2>6. Render(Of("drop_table", n, Empty, <<>>, <<>>, NoWhere)) =
          <<Word("drop"), Word("table"), Id(n)>>
    BY DEF Render, Of
  <2>7. Put(e, t) \in Partial
    BY <2>4, PartialOf, EmptySeq DEF Kinds
  <2>8. Put(e, t).columns = <<>>
    BY <2>4 DEF Of
  <2>9. HeardEnd(Append(x, t), Put(e, t))
    BY <2>4, <2>5, <2>6, <2>7, <2>8, NoColumns DEF HeardEnd, HeardAll
  <2> QED BY <2>1, <2>7, <2>9 DEF Heard
<1> QED BY <1>1, <1>2, <1>3, <1>4 DEF DropEdges

\* The edge of parse_use.
LEMMA UseStep ==
  ASSUME NEW x \in Seq(Tokens), NEW t \in Tokens, NEW e \in UseEdges, e.on = t.kind,
         Heard(e.from, x, stmt)
  PROVE  Heard(e.to, Append(x, t), Put(e, t))
<1>1. CASE e = Edge("use", "id", "end", "name")
  <2>1. e.from = "use" /\ e.on = "id" /\ e.to = "end" /\ e.put = "name"
    BY <1>1 DEF Edge
  <2>2. PICK n \in Names : t = Id(n)
    BY <2>1, TokenKinds
  <2>l. t.lexeme = n
    BY <2>2 DEF Id
  <2>3. stmt = Of("use", Empty, Empty, <<>>, <<>>, NoWhere) /\ x = <<Word("use")>>
    BY <2>1 DEF Heard, Begun
  <2>4. Put(e, t) = Of("use", n, Empty, <<>>, <<>>, NoWhere)
    BY <2>1, <2>l, <2>3, PutName
  <2>t. Word("use") \in Tokens /\ Id(n) \in Tokens
    BY TokenTypes DEF Words
  <2>5. Append(x, t) = <<Word("use"), Id(n)>>
    BY <2>2, <2>3, <2>t, WrittenTwo
  <2>6. Render(Of("use", n, Empty, <<>>, <<>>, NoWhere)) = <<Word("use"), Id(n)>>
    BY DEF Render, Of
  <2>7. Put(e, t) \in Partial
    BY <2>4, PartialOf, EmptySeq DEF Kinds
  <2>8. Put(e, t).columns = <<>>
    BY <2>4 DEF Of
  <2>9. HeardEnd(Append(x, t), Put(e, t))
    BY <2>4, <2>5, <2>6, <2>7, <2>8, NoColumns DEF HeardEnd, HeardAll
  <2> QED BY <2>1, <2>7, <2>9 DEF Heard
<1> QED BY <1>1 DEF UseEdges

\* The edges of parse_select up to WHERE.
LEMMA SelectStep ==
  ASSUME NEW x \in Seq(Tokens), NEW t \in Tokens, NEW e \in SelectEdges, e.on = t.kind,
         Heard(e.from, x, stmt)
  PROVE  Heard(e.to, Append(x, t), Put(e, t))
<1>1. CASE e = Edge("select", "id", "select_from", "target")
  <2>1. e.from = "select" /\ e.on = "id" /\ e.to = "select_from" /\ e.put = "target"
    BY <1>1 DEF Edge
  <2>2. PICK c \in Names : t = Id(c)
    BY <2>1, TokenKinds
  <2>l. t.lexeme = c
    BY <2>2 DEF Id
  <2>3. stmt = Of("select", Empty, Empty, <<>>, <<>>, NoWhere) /\ x = <<Word("select")>>
    BY <2>1 DEF Heard, Begun
  <2>4. Put(e, t) = Of("select", Empty, c, <<>>, <<>>, NoWhere)
    BY <2>1, <2>l, <2>3, PutTarget
  <2>t. Word("select") \in Tokens /\ Id(c) \in Tokens
    BY TokenTypes DEF Words
  <2>5. Append(x, t) = <<Word("select"), Id(c)>>
    BY <2>2, <2>3, <2>t, WrittenTwo
  <2>c. Target(c) = t
    BY <2>2, NamesAssumption DEF Target
  <2>6. HeardTarget(Append(x, t), Put(e, t))
    BY <2>2, <2>4, <2>5, <2>c DEF HeardTarget
  <2>7. Put(e, t) \in Partial
    BY <2>4, PartialOf, EmptySeq DEF Kinds
  <2> QED BY <2>1, <2>6, <2>7 DEF Heard
<1>2. CASE e = Edge("select", "*", "select_from", "target")
  <2>1. e.from = "select" /\ e.on = "*" /\ e.to = "select_from" /\ e.put = "target"
    BY <1>2 DEF Edge
  <2>2. t = Word("*")
    BY <2>1, TokenKinds DEF Words
  <2>l. t.lexeme = "*"
    BY <2>2 DEF Word
  <2>3. stmt = Of("select", Empty, Empty, <<>>, <<>>, NoWhere) /\ x = <<Word("select")>>
    BY <2>1 DEF Heard, Begun
  <2>4. Put(e, t) = Of("select", Empty, "*", <<>>, <<>>, NoWhere)
    BY <2>1, <2>l, <2>3, PutTarget
  <2>t. Word("select") \in Tokens /\ Word("*") \in Tokens
    BY TokenTypes DEF Words
  <2>5. Append(x, t) = <<Word("select"), Word("*")>>
    BY <2>2, <2>3, <2>t, WrittenTwo
  <2>c. Target("*") = t
    BY <2>2, NamesAssumption DEF Target
  <2>6. HeardTarget(Append(x, t), Put(e, t))
    BY <2>2, <2>4, <2>5, <2>c DEF HeardTarget
  <2>7. Put(e, t) \in Partial
    BY <2>4, PartialOf, EmptySeq DEF Kinds
  <2> QED BY <2>1, <2>6, <2>7 DEF Heard
<1>3. CASE e = Edge("select_from", "from", "select_table", "nothing")
  <2>1. e.from = "select_from" /\ e.on = "from" /\ e.to = "select_table" /\
          e.put = "nothing"
    BY <1>3 DEF Edge
  <2>2. t = Word("from")
    BY <2>1, TokenKinds DEF Words
  <2>3. PICK c \in Names \cup {"*"} :
          stmt = Of("select", Empty, c, <<>>, <<>>, NoWhere) /\
            x = <<Word("select"), Target(c)>>
    BY <2>1 DEF Heard, HeardTarget
  <2>4. Put(e, t) = Of("select", Empty, c, <<>>, <<>>, NoWhere)
    BY <2>1, <2>3, PutNothing DEF KindOf
  <2>t. Word("select") \in Tokens /\ Target(c) \in Tokens /\ Word("from") \in Tokens
    BY TokenTypes, TargetTokens DEF Words
  <2>5. Append(x, t) = <<Word("select"), Target(c), Word("from")>>
    BY <2>2, <2>3, <2>t, WrittenThree
  <2>6. HeardFrom(Append(x, t), Put(e, t))
    BY <2>4, <2>5 DEF HeardFrom
  <2>7. Put(e, t) \in Partial
    BY <2>4, PartialOf, EmptySeq DEF Kinds
  <2> QED BY <2>1, <2>6, <2>7 DEF Heard
<1>4. CASE e = Edge("select_table", "id", "tail", "name")
  <2>1. e.from = "select_table" /\ e.on = "id" /\ e.to = "tail" /\ e.put = "name"
    BY <1>4 DEF Edge
  <2>2. PICK n \in Names : t = Id(n)
    BY <2>1, TokenKinds
  <2>l. t.lexeme = n
    BY <2>2 DEF Id
  <2>3. PICK c \in Names \cup {"*"} : 
          /\ stmt = Of("select", Empty, c, <<>>, <<>>, NoWhere)
          /\ x = <<Word("select"), Target(c), Word("from")>>
    BY <2>1 DEF Heard, HeardFrom
  <2>4. Put(e, t) = Of("select", n, c, <<>>, <<>>, NoWhere)
    BY <2>1, <2>l, <2>3, PutName
  <2>t. 
        /\ Word("select") \in Tokens /\ Target(c) \in Tokens /\
             Word("from") \in Tokens /\ Id(n) \in Tokens
    BY TokenTypes, TargetTokens DEF Words
  <2>5. Append(x, t) = <<Word("select"), Target(c), Word("from"), Id(n)>>
    BY <2>2, <2>3, <2>t, WrittenFour
  <2>6. Bare("select", n, c, <<>>) = <<Word("select"), Target(c), Word("from"), Id(n)>>
    BY <2>t, BareSelect
  <2>7. Put(e, t) \in Partial
    BY <2>4, PartialOf, EmptySeq DEF Kinds
  <2>8. Tails("select", n, c, <<>>)
    BY DEF Tails
  <2>9. HeardTail(Append(x, t), Put(e, t))
    BY <2>4, <2>5, <2>6, <2>8 DEF HeardTail
  <2> QED BY <2>1, <2>7, <2>9 DEF Heard
<1> QED BY <1>1, <1>2, <1>3, <1>4 DEF SelectEdges

\* The edges of parse_delete up to WHERE.
LEMMA DeleteStep ==
  ASSUME NEW x \in Seq(Tokens), NEW t \in Tokens, NEW e \in DeleteEdges, e.on = t.kind,
         Heard(e.from, x, stmt)
  PROVE  Heard(e.to, Append(x, t), Put(e, t))
<1>1. CASE e = Edge("delete", "from", "delete_table", "nothing")
  <2>1. e.from = "delete" /\ e.on = "from" /\ e.to = "delete_table" /\ e.put = "nothing"
    BY <1>1 DEF Edge
  <2>2. t = Word("from")
    BY <2>1, TokenKinds DEF Words
  <2>3. stmt = Of("delete", Empty, Empty, <<>>, <<>>, NoWhere) /\ x = <<Word("delete")>>
    BY <2>1 DEF Heard, Begun
  <2>4. Put(e, t) = Of("delete", Empty, Empty, <<>>, <<>>, NoWhere)
    BY <2>1, <2>3, PutNothing DEF KindOf
  <2>t. Word("delete") \in Tokens /\ Word("from") \in Tokens
    BY TokenTypes DEF Words
  <2>5. Append(x, t) = <<Word("delete"), Word("from")>>
    BY <2>2, <2>3, <2>t, WrittenTwo
  <2>6. Begun(<<Word("delete"), Word("from")>>, "delete", Append(x, t), Put(e, t))
    BY <2>4, <2>5 DEF Begun
  <2>7. Put(e, t) \in Partial
    BY <2>4, PartialOf, EmptySeq DEF Kinds
  <2> QED BY <2>1, <2>6, <2>7 DEF Heard
<1>2. CASE e = Edge("delete_table", "id", "tail", "name")
  <2>1. e.from = "delete_table" /\ e.on = "id" /\ e.to = "tail" /\ e.put = "name"
    BY <1>2 DEF Edge
  <2>2. PICK n \in Names : t = Id(n)
    BY <2>1, TokenKinds
  <2>l. t.lexeme = n
    BY <2>2 DEF Id
  <2>3. 
          /\ stmt = Of("delete", Empty, Empty, <<>>, <<>>, NoWhere)
          /\ x = <<Word("delete"), Word("from")>>
    BY <2>1 DEF Heard, Begun
  <2>4. Put(e, t) = Of("delete", n, Empty, <<>>, <<>>, NoWhere)
    BY <2>1, <2>l, <2>3, PutName
  <2>t. Word("delete") \in Tokens /\ Word("from") \in Tokens /\ Id(n) \in Tokens
    BY TokenTypes DEF Words
  <2>5. Append(x, t) = <<Word("delete"), Word("from"), Id(n)>>
    BY <2>2, <2>3, <2>t, WrittenThree
  <2>6. Bare("delete", n, Empty, <<>>) = <<Word("delete"), Word("from"), Id(n)>>
    BY <2>t, BareDelete
  <2>7. Put(e, t) \in Partial
    BY <2>4, PartialOf, EmptySeq DEF Kinds
  <2>8. Tails("delete", n, Empty, <<>>)
    BY DEF Tails
  <2>9. HeardTail(Append(x, t), Put(e, t))
    BY <2>4, <2>5, <2>6, <2>8 DEF HeardTail
  <2> QED BY <2>1, <2>7, <2>9 DEF Heard
<1> QED BY <1>1, <1>2 DEF DeleteEdges

\* The edges of parse_insert, its values apart.
LEMMA InsertStep ==
  ASSUME NEW x \in Seq(Tokens), NEW t \in Tokens, NEW e \in InsertEdges, e.on = t.kind,
         Heard(e.from, x, stmt)
  PROVE  Heard(e.to, Append(x, t), Put(e, t))
<1>1. CASE e = Edge("insert", "into", "insert_table", "nothing")
  <2>1. e.from = "insert" /\ e.on = "into" /\ e.to = "insert_table" /\ e.put = "nothing"
    BY <1>1 DEF Edge
  <2>2. t = Word("into")
    BY <2>1, TokenKinds DEF Words
  <2>3. stmt = Of("insert", Empty, Empty, <<>>, <<>>, NoWhere) /\ x = <<Word("insert")>>
    BY <2>1 DEF Heard, Begun
  <2>4. Put(e, t) = Of("insert", Empty, Empty, <<>>, <<>>, NoWhere)
    BY <2>1, <2>3, PutNothing DEF KindOf
  <2>t. Word("insert") \in Tokens /\ Word("into") \in Tokens
    BY TokenTypes DEF Words
  <2>5. Append(x, t) = <<Word("insert"), Word("into")>>
    BY <2>2, <2>3, <2>t, WrittenTwo
  <2>6. Begun(<<Word("insert"), Word("into")>>, "insert", Append(x, t), Put(e, t))
    BY <2>4, <2>5 DEF Begun
  <2>7. Put(e, t) \in Partial
    BY <2>4, PartialOf, EmptySeq DEF Kinds
  <2> QED BY <2>1, <2>6, <2>7 DEF Heard
<1>2. CASE e = Edge("insert_table", "id", "insert_values", "name")
  <2>1. e.from = "insert_table" /\ e.on = "id" /\ e.to = "insert_values" /\ e.put = "name"
    BY <1>2 DEF Edge
  <2>2. PICK n \in Names : t = Id(n)
    BY <2>1, TokenKinds
  <2>l. t.lexeme = n
    BY <2>2 DEF Id
  <2>3. 
          /\ stmt = Of("insert", Empty, Empty, <<>>, <<>>, NoWhere)
          /\ x = <<Word("insert"), Word("into")>>
    BY <2>1 DEF Heard, Begun
  <2>4. Put(e, t) = Of("insert", n, Empty, <<>>, <<>>, NoWhere)
    BY <2>1, <2>l, <2>3, PutName
  <2>t. Word("insert") \in Tokens /\ Word("into") \in Tokens /\ Id(n) \in Tokens
    BY TokenTypes DEF Words
  <2>5. Append(x, t) = <<Word("insert"), Word("into"), Id(n)>>
    BY <2>2, <2>3, <2>t, WrittenThree
  <2>6. HeardInto(Append(x, t), Put(e, t))
    BY <2>4, <2>5 DEF HeardInto
  <2>7. Put(e, t) \in Partial
    BY <2>4, PartialOf, EmptySeq DEF Kinds
  <2> QED BY <2>1, <2>6, <2>7 DEF Heard
<1>3. CASE e = Edge("insert_values", "values", "insert_list", "nothing")
  <2>1. e.from = "insert_values" /\ e.on = "values" /\ e.to = "insert_list" /\
          e.put = "nothing"
    BY <1>3 DEF Edge
  <2>2. t = Word("values")
    BY <2>1, TokenKinds DEF Words
  <2>3. PICK n \in Names : 
          /\ stmt = Of("insert", n, Empty, <<>>, <<>>, NoWhere)
          /\ x = <<Word("insert"), Word("into"), Id(n)>>
    BY <2>1 DEF Heard, HeardInto
  <2>4. Put(e, t) = Of("insert", n, Empty, <<>>, <<>>, NoWhere)
    BY <2>1, <2>3, PutNothing DEF KindOf
  <2>t. 
        /\ Word("insert") \in Tokens /\ Word("into") \in Tokens /\ Id(n) \in Tokens /\
             Word("values") \in Tokens
    BY TokenTypes DEF Words
  <2>5. Append(x, t) = <<Word("insert"), Word("into"), Id(n), Word("values")>>
    BY <2>2, <2>3, <2>t, WrittenFour
  <2>6. HeardIntoValues(Append(x, t), Put(e, t))
    BY <2>4, <2>5 DEF HeardIntoValues
  <2>7. Put(e, t) \in Partial
    BY <2>4, PartialOf, EmptySeq DEF Kinds
  <2> QED BY <2>1, <2>6, <2>7 DEF Heard
<1>4. CASE e = Edge("insert_list", "(", "first_value", "nothing")
  <2>1. e.from = "insert_list" /\ e.on = "(" /\ e.to = "first_value" /\ e.put = "nothing"
    BY <1>4 DEF Edge
  <2>2. t = Word("(")
    BY <2>1, TokenKinds DEF Words
  <2>3. PICK n \in Names : 
          /\ stmt = Of("insert", n, Empty, <<>>, <<>>, NoWhere)
          /\ x = <<Word("insert"), Word("into"), Id(n), Word("values")>>
    BY <2>1 DEF Heard, HeardIntoValues
  <2>4. Put(e, t) = Of("insert", n, Empty, <<>>, <<>>, NoWhere)
    BY <2>1, <2>3, PutNothing DEF KindOf
  <2>t. 
        /\ Word("insert") \in Tokens /\ Word("into") \in Tokens /\ Id(n) \in Tokens /\
             Word("values") \in Tokens /\ Word("(") \in Tokens
    BY TokenTypes DEF Words
  <2>5. Append(x, t) = <<Word("insert"), Word("into"), Id(n), Word("values"), Word("(")>>
    BY <2>2, <2>3, <2>t, WrittenFive
  <2>6. Append(x, t) = InsertOpen(n) /\ InsertOpen(n) \in Seq(Tokens)
    BY <2>5, AppendProperties DEF InsertOpen
  <2>7. Append(x, t) = InsertOpen(n) \o Lead(ValueTexts(<<>>))
    BY <2>6, NoTexts, ConcatEmptySeq
  <2>8. HeardValues(Append(x, t), Put(e, t))
    BY <2>4, <2>7, EmptySeq DEF HeardValues
  <2>9. Put(e, t) \in Partial
    BY <2>4, PartialOf, EmptySeq DEF Kinds
  <2> QED BY <2>1, <2>8, <2>9 DEF Heard
<1>5. CASE e = Edge("value_end", "comma", "value", "nothing")
  <2>1. e.from = "value_end" /\ e.on = "comma" /\ e.to = "value" /\ e.put = "nothing"
    BY <1>5 DEF Edge
  <2>2. t = Word("comma")
    BY <2>1, TokenKinds DEF Words
  <2>3. PICK n \in Names, vs \in Seq(Values) :
          /\ stmt = Of("insert", n, Empty, <<>>, vs, NoWhere) /\ vs # <<>>
          /\ x = InsertOpen(n) \o Listed(ValueTexts(vs))
    BY <2>1 DEF Heard, HeardValue
  <2>4. Put(e, t) = stmt /\ stmt \in Partial
    BY <2>1, <2>3, PutNothing DEF KindOf, Heard
  <2>5. /\ ValueTexts(vs) \in Seq(Seq(Tokens)) /\ ValueTexts(vs) # <<>>
        /\ Listed(ValueTexts(vs)) \in Seq(Tokens)
    BY <2>3, ValueTextsNext, SomeListed
  <2>6. Append(x, t) = InsertOpen(n) \o Lead(ValueTexts(vs))
    <3>1. InsertOpen(n) \in Seq(Tokens)
      BY OpenTokens
    <3>2. Append(x, t) = InsertOpen(n) \o Append(Listed(ValueTexts(vs)), t)
      <4>1. PICK l \in Seq(Tokens) : l = Listed(ValueTexts(vs))
        BY <2>5
      <4>2. x = Joined(InsertOpen(n), l)
        BY <2>3, <4>1 DEF Joined
      <4>3. Append(x, t) = Joined(InsertOpen(n), Append(l, t))
        BY <3>1, <4>2, WrittenAfter
      <4> QED BY <4>1, <4>3 DEF Joined
    <3> QED BY <2>2, <2>3, <2>5, <3>2 DEF Lead
  <2>7. HeardValues(Append(x, t), Put(e, t))
    BY <2>3, <2>4, <2>6 DEF HeardValues
  <2> QED BY <2>1, <2>4, <2>7 DEF Heard
<1>6. CASE e = Edge("value_end", ")", "end", "nothing")
  <2>1. e.from = "value_end" /\ e.on = ")" /\ e.to = "end" /\ e.put = "nothing"
    BY <1>6 DEF Edge
  <2>2. t = Word(")")
    BY <2>1, TokenKinds DEF Words
  <2>3. PICK n \in Names, vs \in Seq(Values) :
          /\ stmt = Of("insert", n, Empty, <<>>, vs, NoWhere) /\ vs # <<>>
          /\ x = InsertOpen(n) \o Listed(ValueTexts(vs))
    BY <2>1 DEF Heard, HeardValue
  <2>4. Put(e, t) = stmt /\ stmt \in Partial
    BY <2>1, <2>3, PutNothing DEF KindOf, Heard
  <2>5. stmt.kind = "insert" /\ stmt.name = n /\ stmt.values = vs /\ stmt.columns = <<>>
    BY <2>3 DEF Of
  <2>6. Render(stmt) = (InsertOpen(n) \o Listed(ValueTexts(vs))) \o <<Word(")")>>
    BY <2>5 DEF Render, InsertOpen, ValueTexts
  <2>7. Append(x, t) = Render(stmt)
    BY <2>2, <2>3, <2>6, AppendIsConcat
  <2>8. HeardEnd(Append(x, t), Put(e, t))
    BY <2>4, <2>5, <2>7, NoColumns DEF HeardAll, HeardEnd
  <2> QED BY <2>1, <2>4, <2>8 DEF Heard
<1> QED BY <1>1, <1>2, <1>3, <1>4, <1>5, <1>6 DEF InsertEdges

\* The edges of parse_update, its value apart.
LEMMA UpdateStep ==
  ASSUME NEW x \in Seq(Tokens), NEW t \in Tokens, NEW e \in UpdateEdges, e.on = t.kind,
         Heard(e.from, x, stmt)
  PROVE  Heard(e.to, Append(x, t), Put(e, t))
<1>1. CASE e = Edge("update", "id", "update_set", "name")
  <2>1. e.from = "update" /\ e.on = "id" /\ e.to = "update_set" /\ e.put = "name"
    BY <1>1 DEF Edge
  <2>2. PICK n \in Names : t = Id(n)
    BY <2>1, TokenKinds
  <2>l. t.lexeme = n
    BY <2>2 DEF Id
  <2>3. stmt = Of("update", Empty, Empty, <<>>, <<>>, NoWhere) /\ x = <<Word("update")>>
    BY <2>1 DEF Heard, Begun
  <2>4. Put(e, t) = Of("update", n, Empty, <<>>, <<>>, NoWhere)
    BY <2>1, <2>l, <2>3, PutName
  <2>t. Word("update") \in Tokens /\ Id(n) \in Tokens
    BY TokenTypes DEF Words
  <2>5. Append(x, t) = <<Word("update"), Id(n)>>
    BY <2>2, <2>3, <2>t, WrittenTwo
  <2>6. HeardUpdate(Append(x, t), Put(e, t))
    BY <2>4, <2>5 DEF HeardUpdate
  <2>7. Put(e, t) \in Partial
    BY <2>4, PartialOf, EmptySeq DEF Kinds
  <2> QED BY <2>1, <2>6, <2>7 DEF Heard
<1>2. CASE e = Edge("update_set", "set", "update_column", "nothing")
  <2>1. e.from = "update_set" /\ e.on = "set" /\ e.to = "update_column" /\ e.put = "nothing"
    BY <1>2 DEF Edge
  <2>2. t = Word("set")
    BY <2>1, TokenKinds DEF Words
  <2>3. PICK n \in Names : stmt = Of("update", n, Empty, <<>>, <<>>, NoWhere) /\
          x = <<Word("update"), Id(n)>>
    BY <2>1 DEF Heard, HeardUpdate
  <2>4. Put(e, t) = Of("update", n, Empty, <<>>, <<>>, NoWhere)
    BY <2>1, <2>3, PutNothing DEF KindOf
  <2>t. Word("update") \in Tokens /\ Id(n) \in Tokens /\ Word("set") \in Tokens
    BY TokenTypes DEF Words
  <2>5. Append(x, t) = <<Word("update"), Id(n), Word("set")>>
    BY <2>2, <2>3, <2>t, WrittenThree
  <2>6. HeardUpdateSet(Append(x, t), Put(e, t))
    BY <2>4, <2>5 DEF HeardUpdateSet
  <2>7. Put(e, t) \in Partial
    BY <2>4, PartialOf, EmptySeq DEF Kinds
  <2> QED BY <2>1, <2>6, <2>7 DEF Heard
<1>3. CASE e = Edge("update_column", "id", "update_eq", "target")
  <2>1. e.from = "update_column" /\ e.on = "id" /\ e.to = "update_eq" /\ e.put = "target"
    BY <1>3 DEF Edge
  <2>2. PICK c \in Names : t = Id(c)
    BY <2>1, TokenKinds
  <2>l. t.lexeme = c
    BY <2>2 DEF Id
  <2>3. PICK n \in Names : 
          /\ stmt = Of("update", n, Empty, <<>>, <<>>, NoWhere)
          /\ x = <<Word("update"), Id(n), Word("set")>>
    BY <2>1 DEF Heard, HeardUpdateSet
  <2>4. Put(e, t) = Of("update", n, c, <<>>, <<>>, NoWhere)
    BY <2>1, <2>l, <2>3, PutTarget
  <2>t. 
        /\ Word("update") \in Tokens /\ Id(n) \in Tokens /\ Word("set") \in Tokens /\
             Id(c) \in Tokens
    BY TokenTypes DEF Words
  <2>5. Append(x, t) = <<Word("update"), Id(n), Word("set"), Id(c)>>
    BY <2>2, <2>3, <2>t, WrittenFour
  <2>6. HeardSetColumn(Append(x, t), Put(e, t))
    BY <2>4, <2>5 DEF HeardSetColumn
  <2>7. Put(e, t) \in Partial
    BY <2>4, PartialOf, EmptySeq DEF Kinds
  <2> QED BY <2>1, <2>6, <2>7 DEF Heard
<1>4. CASE e = Edge("update_eq", "=", "set_value", "nothing")
  <2>1. e.from = "update_eq" /\ e.on = "=" /\ e.to = "set_value" /\ e.put = "nothing"
    BY <1>4 DEF Edge
  <2>2. t = Word("=")
    BY <2>1, TokenKinds DEF Words
  <2>3. PICK n \in Names, c \in Names : 
          /\ stmt = Of("update", n, c, <<>>, <<>>, NoWhere)
          /\ x = <<Word("update"), Id(n), Word("set"), Id(c)>>
    BY <2>1 DEF Heard, HeardSetColumn
  <2>4. Put(e, t) = Of("update", n, c, <<>>, <<>>, NoWhere)
    BY <2>1, <2>3, PutNothing DEF KindOf
  <2>t. 
        /\ Word("update") \in Tokens /\ Id(n) \in Tokens /\ Word("set") \in Tokens /\
             Id(c) \in Tokens /\ Word("=") \in Tokens
    BY TokenTypes DEF Words
  <2>5. Append(x, t) = <<Word("update"), Id(n), Word("set"), Id(c), Word("=")>>
    BY <2>2, <2>3, <2>t, WrittenFive
  <2>6. HeardSet(Append(x, t), Put(e, t))
    BY <2>4, <2>5 DEF HeardSet
  <2>7. Put(e, t) \in Partial
    BY <2>4, PartialOf, EmptySeq DEF Kinds
  <2> QED BY <2>1, <2>6, <2>7 DEF Heard
<1> QED BY <1>1, <1>2, <1>3, <1>4 DEF UpdateEdges

\* The first keyword of a statement.
LEMMA StatementStep ==
  ASSUME NEW x \in Seq(Tokens), NEW t \in Tokens, NEW e \in StatementEdges, e.on = t.kind,
         Heard(e.from, x, stmt)
  PROVE  Heard(e.to, Append(x, t), Put(e, t))
<1>1. PICK w \in {"create", "drop", "use", "select", "delete", "insert", "update"} :
        e = Edge("start", w, w, "nothing")
  BY DEF StatementEdges
<1>2. e.from = "start" /\ e.on = w /\ e.to = w /\ e.put = "nothing"
  BY <1>1 DEF Edge
<1>3. t = Word(w)
  BY <1>2, TokenKinds DEF Words
<1>4. stmt = Of("none", Empty, Empty, <<>>, <<>>, NoWhere) /\ x = <<>>
  BY <1>2 DEF Heard, Begun
<1>5. Append(x, t) = <<Word(w)>>
  BY <1>3, <1>4
<1>6. CASE w \in {"create", "drop"}
  <2>1. Put(e, t) = Of("none", Empty, Empty, <<>>, <<>>, NoWhere)
    BY <1>2, <1>4, <1>6, PutNothing DEF KindOf
  <2>2. Begun(<<Word(w)>>, "none", Append(x, t), Put(e, t))
    BY <1>5, <2>1 DEF Begun
  <2>3. Put(e, t) \in Partial
    BY <2>1, PartialOf, EmptySeq DEF Kinds
  <2> QED BY <1>2, <1>6, <2>2, <2>3 DEF Heard
<1>7. CASE w \in {"use", "select", "delete", "insert", "update"}
  <2>1. Put(e, t) = Of(w, Empty, Empty, <<>>, <<>>, NoWhere)
    BY <1>2, <1>4, <1>7, PutStart DEF KindOf
  <2>2. Begun(<<Word(w)>>, w, Append(x, t), Put(e, t))
    BY <1>5, <2>1 DEF Begun
  <2>3. Put(e, t) \in Partial
    BY <1>7, <2>1, PartialOf, EmptySeq DEF Kinds
  <2> QED BY <1>2, <1>7, <2>2, <2>3 DEF Heard
<1> QED BY <1>6, <1>7

\* The edges within the column list of CREATE TABLE.
LEMMA ColumnStep ==
  ASSUME NEW x \in Seq(Tokens), NEW t \in Tokens, NEW e \in ColumnEdges, e.on = t.kind,
         Heard(e.from, x, stmt)
  PROVE  Heard(e.to, Append(x, t), Put(e, t))
<1>1. ASSUME NEW p \in {"first_column", "column"}, e =
               Edge(p, "id", "column_type", "column")
      PROVE  Heard(e.to, Append(x, t), Put(e, t))
  <2>1. e.from = p /\ e.on = "id" /\ e.to = "column_type" /\ e.put = "column"
    BY <1>1 DEF Edge
  <2>2. PICK m \in Names : t = Id(m)
    BY <2>1, TokenKinds
  <2>l. t.lexeme = m
    BY <2>2 DEF Id
  <2>3. PICK n \in Names, cs \in Seq(Columns) :
          /\ stmt = Of("create_table", n, Empty, cs, <<>>, NoWhere)
          /\ x = CreateOpen(n) \o Lead(ColumnTexts(cs))
    BY <2>1 DEF Heard, HeardColumns
  <2> DEFINE c == [name |-> m, type |-> "none", primary |-> FALSE]
  <2>4. Put(e, t) = Of("create_table", n, Empty, Append(cs, c), <<>>, NoWhere)
    BY <2>1, <2>l, <2>3, PutColumn
  <2>5. Lead(ColumnTexts(cs)) \in Seq(Tokens)
    BY ColumnTextsNext, ListedNext, EmptySeq
  <2>6. Append(x, t) = CreateOpen(n) \o (Lead(ColumnTexts(cs)) \o <<Id(m)>>)
    <3>1. CreateOpen(n) \in Seq(Tokens)
      BY OpenTokens
    <3>2. Append(x, t) = CreateOpen(n) \o Append(Lead(ColumnTexts(cs)), t)
      <4>1. x = Joined(CreateOpen(n), Lead(ColumnTexts(cs)))
        BY <2>3 DEF Joined
      <4>2. Append(x, t) = Joined(CreateOpen(n), Append(Lead(ColumnTexts(cs)), t))
        BY <2>5, <3>1, <4>1, WrittenAfter
      <4> QED BY <4>2 DEF Joined
    <3>3. Append(Lead(ColumnTexts(cs)), t) = Lead(ColumnTexts(cs)) \o <<t>>
      BY <2>5, AppendIsConcat
    <3> QED BY <2>2, <3>2, <3>3
  <2>7. HeardColumnName(Append(x, t), Put(e, t))
    BY <2>4, <2>6 DEF HeardColumnName
  <2>8. Append(cs, c) \in Seq(Building)
    <3>1. c \in Building
      BY DEF Building
    <3> HIDE DEF c
    <3> QED BY <3>1, ColumnsBuild, AppendProperties
  <2>9. Put(e, t) \in Partial
    BY <2>4, <2>8, PartialColumns
  <2> QED BY <2>1, <2>7, <2>9 DEF Heard
<1>2. ASSUME NEW y \in {"int", "string"}, e = Edge("column_type", y, "column_key", "type")
      PROVE  Heard(e.to, Append(x, t), Put(e, t))
  <2>1. e.from = "column_type" /\ e.on = y /\ e.to = "column_key" /\ e.put = "type"
    BY <1>2 DEF Edge
  <2>2. t = Word(y)
    BY <2>1, TokenKinds DEF Words
  <2>l. t.lexeme = y
    BY <2>2 DEF Word
  <2>3. PICK n \in Names, cs \in Seq(Columns), m \in Names :
          /\ stmt = Of("create_table", n, Empty,
                       Append(cs, [name |-> m, type |-> "none", primary |-> FALSE]),
                         <<>>, NoWhere)
          /\ x = CreateOpen(n) \o (Lead(ColumnTexts(cs)) \o <<Id(m)>>)
    BY <2>1 DEF Heard, HeardColumnName
  <2> DEFINE c == [name |-> m, type |-> "none", primary |-> FALSE]
             d == [name |-> m, type |-> y, primary |-> FALSE]
             b == Append(cs, c)
  <2>4. Put(e, t) = Of("create_table", n, Empty, [b EXCEPT ![Len(b)] =
          [@ EXCEPT !.type = y]], <<>>, NoWhere)
    <3> HIDE DEF b
    <3>1. stmt = Of("create_table", n, Empty, b, <<>>, NoWhere)
      BY <2>3 DEF b
    <3> QED BY <2>1, <2>l, <3>1, PutType
  <2>5. c \in Building /\ d \in Building /\ cs \in Seq(Building)
    BY ColumnsBuild DEF Building
  <2>6. [b EXCEPT ![Len(b)] = [@ EXCEPT !.type = y]] = Append(cs, d)
    <3>1. d = [c EXCEPT !.type = y]
      <4>1. \A p : [[name |-> m, type |-> "none", primary |-> p] EXCEPT !.type = y] =
                     [name |-> m, type |-> y, primary |-> p]
        OBVIOUS
      <4> QED BY <4>1, Zenon
    <3> HIDE DEF c, d
    <3>2. PICK u : u = b
      OBVIOUS
    <3>3. [u EXCEPT ![Len(u)] = d] = Append(cs, d) /\ u[Len(u)] = c
      BY <2>5, <3>2, LastExcept, SMTT(30)
    <3> HIDE DEF b
    <3> QED BY <3>1, <3>2, <3>3
  <2>7. Put(e, t) = Of("create_table", n, Empty, Append(cs, d), <<>>, NoWhere)
    BY <2>4, <2>6
  <2>8. Lead(ColumnTexts(cs)) \in Seq(Tokens) /\ Id(m) \in Tokens /\ Word(y) \in Tokens
    BY ColumnTextsNext, ListedNext, EmptySeq, TokenTypes DEF Words
  <2>9. Append(x, t) = CreateOpen(n) \o (Lead(ColumnTexts(cs)) \o <<Id(m), Word(y)>>)
    <3>1. <<Id(m)>> \in Seq(Tokens) /\ Append(<<Id(m)>>, t) = <<Id(m), Word(y)>>
      BY <2>2, <2>8, WrittenTwo
    <3>2. Lead(ColumnTexts(cs)) \o <<Id(m)>> \in Seq(Tokens)
      BY <2>8, <3>1, ConcatProperties
    <3>3. Append(x, t) = CreateOpen(n) \o Append(Lead(ColumnTexts(cs)) \o <<Id(m)>>, t)
      <4>1. CreateOpen(n) \in Seq(Tokens)
        BY OpenTokens
      <4>2. Append(x, t) =
              CreateOpen(n) \o Append(Lead(ColumnTexts(cs)) \o <<Id(m)>>, t)
        <5>1. PICK l \in Seq(Tokens) : l = Lead(ColumnTexts(cs)) \o <<Id(m)>>
          BY <3>2
        <5>2. x = Joined(CreateOpen(n), l)
          BY <2>3, <5>1 DEF Joined
        <5>3. Append(x, t) = Joined(CreateOpen(n), Append(l, t))
          BY <4>1, <5>2, WrittenAfter
        <5> QED BY <5>1, <5>3 DEF Joined
      <4> QED BY <4>2
    <3>4. Append(Lead(ColumnTexts(cs)) \o <<Id(m)>>, t) =
            Lead(ColumnTexts(cs)) \o Append(<<Id(m)>>, t)
      <4>1. PICK l \in Seq(Tokens) : l = <<Id(m)>>
        BY <3>1
      <4>2. Append(Joined(Lead(ColumnTexts(cs)), l), t) =
              Joined(Lead(ColumnTexts(cs)), Append(l, t))
        BY <2>8, WrittenAfter
      <4> QED BY <4>1, <4>2 DEF Joined
    <3> QED BY <3>1, <3>3, <3>4
  <2>10. HeardColumnType(Append(x, t), Put(e, t))
    BY <2>7, <2>9 DEF HeardColumnType
  <2>11. Put(e, t) \in Partial
    <3> HIDE DEF d
    <3>1. Append(cs, d) \in Seq(Building)
      BY <2>5, AppendProperties
    <3> QED BY <2>7, <3>1, PartialColumns
  <2> QED BY <2>1, <2>10, <2>11 DEF Heard
<1>3. CASE e = Edge("column_key", "primary", "column_end", "primary")
  <2>1. e.from = "column_key" /\ e.on = "primary" /\ e.to = "column_end" /\
          e.put = "primary"
    BY <1>3 DEF Edge
  <2>2. t = Word("primary")
    BY <2>1, TokenKinds DEF Words
  <2>3. PICK n \in Names, cs \in Seq(Columns), m \in Names, y \in {"int", "string"} :
          /\ stmt = Of("create_table", n, Empty,
                       Append(cs, [name |-> m, type |-> y, primary |-> FALSE]), <<>>,
                         NoWhere)
          /\ x = CreateOpen(n) \o (Lead(ColumnTexts(cs)) \o <<Id(m), Word(y)>>)
    BY <2>1 DEF Heard, HeardColumnType
  <2> DEFINE c == [name |-> m, type |-> y, primary |-> FALSE]
             d == [name |-> m, type |-> y, primary |-> TRUE]
             b == Append(cs, c)
  <2>4. Put(e, t) = Of("create_table", n, Empty, [b EXCEPT ![Len(b)] =
          [@ EXCEPT !.primary = TRUE]], <<>>, NoWhere)
    <3> HIDE DEF b
    <3>1. stmt = Of("create_table", n, Empty, b, <<>>, NoWhere)
      BY <2>3 DEF b
    <3> QED BY <2>1, <3>1, PutPrimary
  <2>5. c \in Columns /\ d \in Columns
    BY DEF Columns
  <2>6. [b EXCEPT ![Len(b)] = [@ EXCEPT !.primary = TRUE]] = Append(cs, d)
    <3>1. d = [c EXCEPT !.primary = TRUE]
      <4>1. \A p, q : [[name |-> m, type |-> y, primary |-> p] EXCEPT !.primary = q] =
                        [name |-> m, type |-> y, primary |-> q]
        OBVIOUS
      <4> QED BY <4>1, Zenon
    <3> HIDE DEF c, d
    <3>2. PICK u : u = b
      OBVIOUS
    <3>3. [u EXCEPT ![Len(u)] = d] = Append(cs, d) /\ u[Len(u)] = c
      BY <2>5, <3>2, LastExcept, SMTT(30)
    <3> HIDE DEF b
    <3> QED BY <3>1, <3>2, <3>3
  <2>7. Put(e, t) = Of("create_table", n, Empty, Append(cs, d), <<>>, NoWhere)
    BY <2>4, <2>6
  <2>8. /\ Lead(ColumnTexts(cs)) \in Seq(Tokens)
        /\ Id(m) \in Tokens /\ Word(y) \in Tokens /\ Word("primary") \in Tokens
    BY ColumnTextsNext, ListedNext, EmptySeq, TokenTypes DEF Words
  <2>9. Append(x, t) = CreateOpen(n) \o (Lead(ColumnTexts(cs)) \o ColumnText(d))
    <3>1. <<Id(m), Word(y)>> \in Seq(Tokens)
      BY <2>8
    <3>2. Append(<<Id(m), Word(y)>>, t) = ColumnText(d)
      <4>1. ColumnText(d) = <<Id(m), Word(y), Word("primary")>>
        BY ColumnTextIs
      <4> QED BY <2>2, <2>8, <4>1, WrittenThree
    <3>3. Lead(ColumnTexts(cs)) \o <<Id(m), Word(y)>> \in Seq(Tokens)
      BY <2>8, <3>1, ConcatProperties
    <3>4. Append(x, t) = CreateOpen(n) \o Append(Lead(ColumnTexts(cs)) \o
            <<Id(m), Word(y)>>, t)
      <4>1. CreateOpen(n) \in Seq(Tokens)
        BY OpenTokens
      <4>2. Append(x, t) =
              CreateOpen(n) \o Append(Lead(ColumnTexts(cs)) \o <<Id(m), Word(y)>>, t)
        <5>1. PICK l \in Seq(Tokens) : l = Lead(ColumnTexts(cs)) \o <<Id(m), Word(y)>>
          BY <3>3
        <5>2. x = Joined(CreateOpen(n), l)
          BY <2>3, <5>1 DEF Joined
        <5>3. Append(x, t) = Joined(CreateOpen(n), Append(l, t))
          BY <4>1, <5>2, WrittenAfter
        <5> QED BY <5>1, <5>3 DEF Joined
      <4> QED BY <4>2
    <3>5. Append(Lead(ColumnTexts(cs)) \o <<Id(m), Word(y)>>, t) =
            Lead(ColumnTexts(cs)) \o Append(<<Id(m), Word(y)>>, t)
      <4>1. PICK l \in Seq(Tokens) : l = <<Id(m), Word(y)>>
        BY <3>1
      <4>2. Append(Joined(Lead(ColumnTexts(cs)), l), t) =
              Joined(Lead(ColumnTexts(cs)), Append(l, t))
        BY <2>8, WrittenAfter
      <4> QED BY <4>1, <4>2 DEF Joined
    <3> QED BY <3>2, <3>4, <3>5
  <2> HIDE DEF d
  <2>10. HeardColumn(Append(x, t), Put(e, t)) /\ Put(e, t) \in Partial
    BY <2>5, <2>7, <2>9, ColumnWhole
  <2> QED BY <2>1, <2>10 DEF Heard
<1> QED BY <1>1, <1>2, <1>3 DEF ColumnEdges

\* The edges of parse_where up to its value.
LEMMA WhereStep ==
  ASSUME NEW x \in Seq(Tokens), NEW t \in Tokens, NEW e \in WhereEdges, e.on = t.kind,
         Heard(e.from, x, stmt)
  PROVE  Heard(e.to, Append(x, t), Put(e, t))
<1>1. CASE e = Edge("tail", "where", "where_column", "nothing")
  <2>1. e.from = "tail" /\ e.on = "where" /\ e.to = "where_column" /\ e.put = "nothing"
    BY <1>1 DEF Edge
  <2>2. t = Word("where")
    BY <2>1, TokenKinds DEF Words
  <2>3. PICK k, n, c, vs :
          /\ Tails(k, n, c, vs) /\ stmt = Of(k, n, c, <<>>, vs, NoWhere)
          /\ x = Bare(k, n, c, vs)
    BY <2>1 DEF Heard, HeardTail
  <2>4. Put(e, t) = stmt /\ stmt \in Partial
    BY <2>1, <2>3, PutNothing DEF KindOf, Heard
  <2>5. Append(x, t) = Bare(k, n, c, vs) \o <<Word("where")>>
    BY <2>2, <2>3, AppendIsConcat
  <2>6. HeardWhere(Append(x, t), Put(e, t))
    BY <2>3, <2>4, <2>5 DEF HeardWhere
  <2> QED BY <2>1, <2>4, <2>6 DEF Heard
<1>2. CASE e = Edge("where_column", "id", "where_op", "where_column")
  <2>1. e.from = "where_column" /\ e.on = "id" /\ e.to = "where_op" /\
          e.put = "where_column"
    BY <1>2 DEF Edge
  <2>2. PICK m \in Names : t = Id(m)
    BY <2>1, TokenKinds
  <2>l. t.lexeme = m
    BY <2>2 DEF Id
  <2>3. PICK k, n, c, vs :
          /\ Tails(k, n, c, vs) /\ stmt = Of(k, n, c, <<>>, vs, NoWhere)
          /\ x = Bare(k, n, c, vs) \o <<Word("where")>>
    BY <2>1 DEF Heard, HeardWhere
  <2> DEFINE w == [column |-> m, op |-> "none", value |-> Missing]
  <2>4. Put(e, t) = Of(k, n, c, <<>>, vs, w)
    BY <2>1, <2>l, <2>3, PutWhereColumn
  <2>5. Append(x, t) = Bare(k, n, c, vs) \o <<Word("where"), Id(m)>>
    <3>1. Word("where") \in Tokens /\ Bare(k, n, c, vs) \in Seq(Tokens)
      BY <2>3, TokenTypes, BareTokens DEF Words
    <3>2. PICK l \in Seq(Tokens) : l = <<Word("where")>>
      <4>1. <<Word("where")>> \in Seq(Tokens)
        BY <3>1
      <4> QED BY <4>1
    <3>3. x = Joined(Bare(k, n, c, vs), l)
      BY <2>3, <3>2 DEF Joined
    <3>4. Append(x, t) = Joined(Bare(k, n, c, vs), Append(l, t))
      BY <3>1, <3>3, WrittenAfter
    <3>5. Append(l, t) = <<Word("where"), Id(m)>>
      BY <2>2, <3>1, <3>2, WrittenTwo
    <3> QED BY <3>4, <3>5 DEF Joined
  <2>6. HeardWhereColumn(Append(x, t), Put(e, t))
    BY <2>3, <2>4, <2>5 DEF HeardWhereColumn
  <2>7. Put(e, t) \in Partial
    <3>1. w \in [column : Names, op : {"none", "=", "<", ">"}, value : Values]
      BY DEF Values
    <3> HIDE DEF w
    <3> QED BY <2>3, <2>4, <3>1, PartialWhere
  <2> QED BY <2>1, <2>6, <2>7 DEF Heard
<1>3. ASSUME NEW o \in {"=", "<", ">"}, e = Edge("where_op", o, "where_value", "where_op")
      PROVE  Heard(e.to, Append(x, t), Put(e, t))
  <2>1. e.from = "where_op" /\ e.on = o /\ e.to = "where_value" /\ e.put = "where_op"
    BY <1>3 DEF Edge
  <2>2. t = Word(o)
    BY <2>1, TokenKinds DEF Words
  <2>l. t.lexeme = o
    BY <2>2 DEF Word
  <2>3. PICK k, n, c, vs : \E m \in Names :
          /\ Tails(k, n, c, vs)
          /\ stmt = Of(k, n, c, <<>>, vs, [column |-> m, op |-> "none", value |-> Missing])
          /\ x = Bare(k, n, c, vs) \o <<Word("where"), Id(m)>>
    BY <2>1 DEF Heard, HeardWhereColumn
  <2>m. PICK m \in Names :
          /\ stmt = Of(k, n, c, <<>>, vs, [column |-> m, op |-> "none", value |-> Missing])
          /\ x = Bare(k, n, c, vs) \o <<Word("where"), Id(m)>>
    BY <2>3
  <2> DEFINE w == [column |-> m, op |-> o, value |-> Missing]
  <2>4. Put(e, t) = Of(k, n, c, <<>>, vs, w)
    <3>1. [[column |-> m, op |-> "none", value |-> Missing] EXCEPT !.op = o] = w
      OBVIOUS
    <3> QED BY <2>1, <2>l, <2>m, <3>1, PutWhereOp
  <2>5. Append(x, t) = Bare(k, n, c, vs) \o <<Word("where"), Id(m), Word(o)>>
    <3>1. Word("where") \in Tokens /\ Id(m) \in Tokens /\ Bare(k, n, c, vs) \in Seq(Tokens)
      BY <2>3, TokenTypes, BareTokens DEF Words
    <3>2. PICK l \in Seq(Tokens) : l = <<Word("where"), Id(m)>>
      <4>1. <<Word("where"), Id(m)>> \in Seq(Tokens)
        BY <3>1
      <4> QED BY <4>1
    <3>3. x = Joined(Bare(k, n, c, vs), l)
      BY <2>m, <3>2 DEF Joined
    <3>4. Append(x, t) = Joined(Bare(k, n, c, vs), Append(l, t))
      BY <3>1, <3>3, WrittenAfter
    <3>5. Append(l, t) = <<Word("where"), Id(m), Word(o)>>
      BY <2>2, <3>1, <3>2, WrittenThree
    <3> QED BY <3>4, <3>5 DEF Joined
  <2>6. HeardWhereOp(Append(x, t), Put(e, t))
    BY <2>3, <2>4, <2>5 DEF HeardWhereOp
  <2>7. Put(e, t) \in Partial
    <3>1. w \in [column : Names, op : {"none", "=", "<", ">"}, value : Values]
      BY DEF Values
    <3> HIDE DEF w
    <3> QED BY <2>3, <2>4, <3>1, PartialWhere
  <2> QED BY <2>1, <2>6, <2>7 DEF Heard
<1> QED BY <1>1, <1>2, <1>3 DEF WhereEdges

\* A value read at one of its points, or found missing there: v is what goes
\* into the statement, y the text read until then.
Valued(p, v) ==
  IF p = "where_value" THEN [stmt EXCEPT !.where.value = v]
  ELSE [stmt EXCEPT !.values = Append(@, v)]

LEMMA ValueHeard ==
  ASSUME NEW x \in Seq(Tokens), NEW p \in ValuePoints, NEW v \in Values,
         Heard(p[1], x, stmt)
  PROVE  Heard(p[2], x \o ValueText(v), Valued(p[1], v))
<1>v. ValueText(v) \in Seq(Tokens)
  BY ValueTextTokens
<1>1. ASSUME NEW a \in {"first_value", "value"}, p = <<a, "value_end">>
      PROVE  Heard(p[2], x \o ValueText(v), Valued(p[1], v))
  <2>1. p[1] = a /\ p[2] = "value_end"
    BY <1>1
  <2>2. PICK n \in Names, vs \in Seq(Values) :
          /\ stmt = Of("insert", n, Empty, <<>>, vs, NoWhere)
          /\ x = InsertOpen(n) \o Lead(ValueTexts(vs))
    BY <2>1 DEF Heard, HeardValues
  <2>3. Valued(p[1], v) = Of("insert", n, Empty, <<>>, Append(vs, v), NoWhere)
    BY <2>1, <2>2 DEF Valued, Of
  <2>4. x \o ValueText(v) = InsertOpen(n) \o (Lead(ValueTexts(vs)) \o ValueText(v))
    <3>1. Lead(ValueTexts(vs)) \in Seq(Tokens) /\ InsertOpen(n) \in Seq(Tokens)
      BY ValueTextsNext, ListedNext, EmptySeq, OpenTokens
    <3> QED BY <1>v, <2>2, <3>1, ConcatAssociative
  <2>5. HeardValue(x \o ValueText(v), Valued(p[1], v)) /\ Valued(p[1], v) \in Partial
    BY <2>3, <2>4, ValueWhole
  <2> QED BY <2>1, <2>5 DEF Heard
<1>2. CASE p = <<"set_value", "tail">>
  <2>1. p[1] = "set_value" /\ p[2] = "tail"
    BY <1>2
  <2>2. PICK n \in Names, c \in Names :
          /\ stmt = Of("update", n, c, <<>>, <<>>, NoWhere)
          /\ x = <<Word("update"), Id(n), Word("set"), Id(c), Word("=")>>
    BY <2>1 DEF Heard, HeardSet
  <2>3. Valued(p[1], v) = Of("update", n, c, <<>>, <<v>>, NoWhere)
    <3>1. Append(<<>>, v) = <<v>>
      OBVIOUS
    <3> QED BY <2>1, <2>2, <3>1 DEF Valued, Of
  <2>4. x \o ValueText(v) = Bare("update", n, c, <<v>>) /\ Tails("update", n, c, <<v>>)
    BY <2>2, BareUpdate
  <2>5. HeardTail(x \o ValueText(v), Valued(p[1], v))
    BY <2>3, <2>4 DEF HeardTail
  <2>6. Valued(p[1], v) \in Partial
    <3>1. <<v>> \in Seq(Values)
      OBVIOUS
    <3> QED BY <2>3, <3>1, PartialOf DEF Kinds
  <2> QED BY <2>1, <2>5, <2>6 DEF Heard
<1>3. CASE p = <<"where_value", "end">>
  <2>1. p[1] = "where_value" /\ p[2] = "end"
    BY <1>3
  <2>2. PICK k, n, c, vs : \E m \in Names, o \in {"=", "<", ">"} :
          /\ Tails(k, n, c, vs)
          /\ stmt = Of(k, n, c, <<>>, vs, [column |-> m, op |-> o, value |-> Missing])
          /\ x = Bare(k, n, c, vs) \o <<Word("where"), Id(m), Word(o)>>
    BY <2>1 DEF Heard, HeardWhereOp
  <2>3. PICK m \in Names, o \in {"=", "<", ">"} :
          /\ stmt = Of(k, n, c, <<>>, vs, [column |-> m, op |-> o, value |-> Missing])
          /\ x = Bare(k, n, c, vs) \o <<Word("where"), Id(m), Word(o)>>
    BY <2>2
  <2>4. Valued(p[1], v) = Of(k, n, c, <<>>, vs, [column |-> m, op |-> o, value |-> v])
    BY <2>1, <2>3 DEF Valued, Of
  <2>5. x \o ValueText(v) = Bare(k, n, c, vs) \o (<<Word("where"), Id(m), Word(o)>> \o
          ValueText(v))
    <3>1. Word("where") \in Tokens /\ Id(m) \in Tokens /\ Word(o) \in Tokens
      BY TokenTypes DEF Words
    <3>2. Bare(k, n, c, vs) \in Seq(Tokens)
      BY <2>2, BareTokens
    <3>3. PICK l \in Seq(Tokens) : l = <<Word("where"), Id(m), Word(o)>>
      <4>1. <<Word("where"), Id(m), Word(o)>> \in Seq(Tokens)
        BY <3>1
      <4> QED BY <4>1
    <3>4. (Bare(k, n, c, vs) \o l) \o ValueText(v) =
            Bare(k, n, c, vs) \o (l \o ValueText(v))
      BY <1>v, <3>2, ConcatAssociative
    <3> QED BY <2>3, <3>3, <3>4
  <2>6. HeardEnd(x \o ValueText(v), Valued(p[1], v))
    BY <2>2, <2>4, <2>5, WhereWhole
  <2> QED BY <2>1, <2>6 DEF Heard, HeardEnd, HeardAll
<1> QED BY <1>1, <1>2, <1>3 DEF ValuePoints

\* The edges that take a literal.
LEMMA ValueStep ==
  ASSUME NEW x \in Seq(Tokens), NEW t \in Tokens, NEW e \in ValueEdges, e.on = t.kind,
         Heard(e.from, x, stmt)
  PROVE  Heard(e.to, Append(x, t), Put(e, t))
<1>1. PICK p \in ValuePoints, k \in {"intlit", "strlit"} :
        e = Edge(p[1], k, p[2], IF p[1] = "where_value" THEN "where_value" ELSE "value")
  BY DEF ValueEdges
<1>2. /\ e.from = p[1] /\ e.on = k /\ e.to = p[2]
      /\ e.put = IF p[1] = "where_value" THEN "where_value" ELSE "value"
  BY <1>1 DEF Edge
<1>3. t \in Literals
  BY <1>2, TokenKinds
<1>4. t \in Values /\ ValueText(t) = <<t>>
  BY <1>3, ValueTextTokens DEF Values
<1>5. Append(x, t) = x \o ValueText(t)
  BY <1>4, AppendIsConcat
<1>6. Put(e, t) = Valued(p[1], t)
  BY <1>2 DEF Put, Valued
<1> QED BY <1>2, <1>4, <1>5, <1>6, ValueHeard

\* The edge that takes the semicolon, if there is one.
LEMMA EndStep ==
  ASSUME NEW x \in Seq(Tokens), NEW t \in Tokens, NEW e \in EndEdges, e.on = t.kind,
         Heard(e.from, x, stmt)
  PROVE  Heard(e.to, Append(x, t), Put(e, t))
<1>1. /\ e.from = "end" /\ e.on = "semicolon" /\ e.to = "accepted" /\ e.put = "nothing"
  BY DEF EndEdges, Edge
<1>2. t = Word("semicolon")
  BY <1>1, TokenKinds DEF Words
<1>3. HeardEnd(x, stmt)
  BY <1>1 DEF Heard
<1>4. Put(e, t) = stmt
  BY <1>1 DEF Put, KindOf
<1>5. HeardMore(Append(x, t), Put(e, t))
  BY <1>2, <1>3, <1>4 DEF HeardEnd, HeardAll, HeardMore, Reads
<1>6. stmt \in Partial
  BY DEF Heard
<1> QED BY <1>1, <1>4, <1>5, <1>6 DEF Heard

\* Whichever edge the token takes.
LEMMA AdvanceHeard ==
  ASSUME NEW x \in Seq(Tokens), NEW t \in Tokens, NEW e \in Edges, e.on = t.kind,
         Heard(e.from, x, stmt)
  PROVE  Heard(e.to, Append(x, t), Put(e, t))
  BY StatementStep, CreateStep, ColumnStep, DropStep, UseStep, SelectStep, DeleteStep,
     InsertStep, UpdateStep, WhereStep, ValueStep, EndStep DEF Edges

-----------------------------------------------------------------------------
(***************************************************************************)
(* The steps that read nothing                                             *)
(***************************************************************************)
LEMMA MissingHeard ==
  ASSUME NEW x \in Seq(Tokens), NEW p \in ValuePoints, Heard(p[1], x, stmt)
  PROVE  Heard(p[2], x, IF p[1] = "where_value" THEN stmt
                        ELSE [stmt EXCEPT !.values = Append(@, Missing)])
<1>1. Missing \in Values /\ ValueText(Missing) = <<>> /\ x \o <<>> = x
  BY ValueTextTokens, ConcatEmptySeq DEF Values
<1>2. Heard(p[2], x, Valued(p[1], Missing))
  BY <1>1, ValueHeard
<1>3. CASE p[1] # "where_value"
  BY <1>2, <1>3 DEF Valued
<1>4. CASE p[1] = "where_value"
  <2>1. PICK k, n, c, vs : \E m \in Names, o \in {"=", "<", ">"} :
          /\ Tails(k, n, c, vs)
          /\ stmt = Of(k, n, c, <<>>, vs, [column |-> m, op |-> o, value |-> Missing])
          /\ x = Bare(k, n, c, vs) \o <<Word("where"), Id(m), Word(o)>>
    BY <1>4 DEF Heard, HeardWhereOp
  <2>2. PICK m \in Names, o \in {"=", "<", ">"} :
          stmt = Of(k, n, c, <<>>, vs, [column |-> m, op |-> o, value |-> Missing])
    BY <2>1
  <2>3. Valued(p[1], Missing) = stmt
    BY <1>4, <2>2 DEF Valued, Of
  <2> QED BY <1>2, <1>4, <2>3
<1> QED BY <1>3, <1>4

\* The code goes on without a token where one may be left out.
LEMMA SkipHeard ==
  ASSUME NEW x \in Seq(Tokens)
  PROVE  /\ Heard("column_key", x, stmt) => Heard("column_end", x, stmt)
         /\ Heard("tail", x, stmt) => Heard("end", x, stmt)
         /\ Heard("end", x, stmt) => Heard("accepted", x, stmt)
         /\ Heard("keys", x, stmt) /\ OneKey(stmt.columns) => Heard("end", x, stmt)
<1>1. ASSUME Heard("column_key", x, stmt)
      PROVE  Heard("column_end", x, stmt)
  <2>1. PICK n \in Names, cs \in Seq(Columns), m \in Names, y \in {"int", "string"} :
          /\ stmt = Of("create_table", n, Empty,
                       Append(cs, [name |-> m, type |-> y, primary |-> FALSE]), <<>>,
                         NoWhere)
          /\ x = CreateOpen(n) \o (Lead(ColumnTexts(cs)) \o <<Id(m), Word(y)>>)
    BY <1>1 DEF Heard, HeardColumnType
  <2>2. PICK c \in Columns : /\ c = [name |-> m, type |-> y, primary |-> FALSE]
                             /\ ColumnText(c) = <<Id(m), Word(y)>>
    BY ColumnTextIs
  <2>3. HeardColumn(x, stmt) /\ stmt \in Partial
    BY <2>1, <2>2, ColumnWhole
  <2> QED BY <2>3 DEF Heard
<1>2. ASSUME Heard("tail", x, stmt)
      PROVE  Heard("end", x, stmt)
  <2>1. PICK k, n, c, vs :
          /\ Tails(k, n, c, vs) /\ stmt = Of(k, n, c, <<>>, vs, NoWhere)
          /\ x = Bare(k, n, c, vs)
    BY <1>2 DEF Heard, HeardTail
  <2>2. stmt \in Partial /\ stmt.columns = <<>>
    BY <1>2, <2>1 DEF Heard, Of
  <2>3. HeardEnd(x, stmt)
    BY <2>1, <2>2, NoColumns DEF HeardEnd, HeardAll, Bare
  <2> QED BY <2>2, <2>3 DEF Heard
<1>3. ASSUME Heard("end", x, stmt)
      PROVE  Heard("accepted", x, stmt)
  BY <1>3 DEF Heard, HeardEnd, HeardAll, HeardMore, Reads
<1>4. ASSUME Heard("keys", x, stmt), OneKey(stmt.columns)
      PROVE  Heard("end", x, stmt)
  BY <1>4 DEF Heard, HeardEnd, HeardAll
<1> QED BY <1>1, <1>2, <1>3, <1>4

\* At an error nothing is claimed of the text, and the statement keeps its types.
LEMMA FailHeard ==
  ASSUME NEW a, NEW x, Heard(a, x, stmt)
  PROVE  Heard("invalid", x, stmt)
  BY DEF Heard

-----------------------------------------------------------------------------
(***************************************************************************)
(* Every state                                                             *)
(***************************************************************************)

\* The points of the grammar.
AllPoints ==
  {"start", "create", "create_database", "create_table", "columns", "column_end",
   "first_column", "column", "column_type", "column_key", "drop", "drop_database",
   "drop_table", "use", "select", "select_from", "select_table", "delete",
   "delete_table", "insert", "insert_table", "insert_values", "insert_list",
   "value_end", "update", "update_set", "update_column", "update_eq", "tail",
   "where_column", "where_op", "first_value", "value", "set_value", "where_value",
   "end", "keys", "accepted", "invalid"}

\* Every edge leads from a point of the grammar to a point of the grammar.
LEMMA PointsAre ==
  /\ AllPoints \subseteq Points
  /\ \A e \in Edges : e.to \in AllPoints
<1>1. /\ \A a \in {"start"} :
         \E e \in StatementEdges : e.from = a
      /\ \A e \in StatementEdges :
           e.to \in {"create", "drop", "use", "select", "delete", "insert", "update"}
  <2>1. Edge("start", "use", "use", "nothing") \in StatementEdges
    BY DEF StatementEdges
  <2>2. \A a \in {"start"} :
           \E e \in StatementEdges : e.from = a
    BY <2>1 DEF Edge
  <2>3. \A e \in StatementEdges :
          e.to \in {"create", "drop", "use", "select", "delete", "insert", "update"}
    BY DEF StatementEdges, Edge
  <2> QED BY <2>2, <2>3
<1>2. /\ \A a \in {"create", "create_database", "create_table", "columns", "column_end"} :
         \E e \in CreateEdges : e.from = a
      /\ \A e \in CreateEdges : e.to \in {"create_database", "end", "create_table",
           "columns", "first_column", "column",
              "keys"}
  BY DEF CreateEdges, Edge
<1>3. /\ \A a \in {"first_column", "column", "column_type", "column_key"} :
         \E e \in ColumnEdges : e.from = a
      /\ \A e \in ColumnEdges : e.to \in {"column_type", "column_key", "column_end"}
  <2>1. Edge("first_column", "id", "column_type", "column") \in ColumnEdges
    BY DEF ColumnEdges
  <2>2. Edge("column", "id", "column_type", "column") \in ColumnEdges
    BY DEF ColumnEdges
  <2>3. Edge("column_type", "int", "column_key", "type") \in ColumnEdges
    BY DEF ColumnEdges
  <2>4. Edge("column_key", "primary", "column_end", "primary") \in ColumnEdges
    BY DEF ColumnEdges
  <2>5. \A a \in {"first_column", "column", "column_type", "column_key"} :
           \E e \in ColumnEdges : e.from = a
    BY <2>1, <2>2, <2>3, <2>4 DEF Edge
  <2>6. \A e \in ColumnEdges : e.to \in {"column_type", "column_key", "column_end"}
    BY DEF ColumnEdges, Edge
  <2> QED BY <2>5, <2>6
<1>4. /\ \A a \in {"drop", "drop_database", "drop_table"} :
         \E e \in DropEdges : e.from = a
      /\ \A e \in DropEdges : e.to \in {"drop_database", "drop_table", "end"}
  BY DEF DropEdges, Edge
<1>5. /\ \A a \in {"use"} :
         \E e \in UseEdges : e.from = a
      /\ \A e \in UseEdges : e.to \in {"end"}
  BY DEF UseEdges, Edge
<1>6. /\ \A a \in {"select", "select_from", "select_table"} :
         \E e \in SelectEdges : e.from = a
      /\ \A e \in SelectEdges : e.to \in {"select_from", "select_table", "tail"}
  <2>1. Edge("select", "id", "select_from", "target") \in SelectEdges
    BY DEF SelectEdges
  <2>2. Edge("select_from", "from", "select_table", "nothing") \in SelectEdges
    BY DEF SelectEdges
  <2>3. Edge("select_table", "id", "tail", "name") \in SelectEdges
    BY DEF SelectEdges
  <2>4. \A a \in {"select", "select_from", "select_table"} :
           \E e \in SelectEdges : e.from = a
    BY <2>1, <2>2, <2>3 DEF Edge
  <2>5. \A e \in SelectEdges : e.to \in {"select_from", "select_table", "tail"}
    BY DEF SelectEdges, Edge
  <2> QED BY <2>4, <2>5
<1>7. /\ \A a \in {"delete", "delete_table"} :
         \E e \in DeleteEdges : e.from = a
      /\ \A e \in DeleteEdges : e.to \in {"delete_table", "tail"}
  BY DEF DeleteEdges, Edge
<1>8. /\ \A a \in {"insert", "insert_table", "insert_values", "insert_list", "value_end"} :
         \E e \in InsertEdges : e.from = a
      /\ \A e \in InsertEdges : e.to \in {"insert_table", "insert_values",
           "insert_list", "first_value", "value", "end"}
  BY DEF InsertEdges, Edge
<1>9. /\ \A a \in {"update", "update_set", "update_column", "update_eq"} :
         \E e \in UpdateEdges : e.from = a
      /\ \A e \in UpdateEdges : e.to \in {"update_set", "update_column", "update_eq",
           "set_value"}
  BY DEF UpdateEdges, Edge
<1>10. /\ \A a \in {"tail", "where_column", "where_op"} :
         \E e \in WhereEdges : e.from = a
      /\ \A e \in WhereEdges : e.to \in {"where_column", "where_op", "where_value"}
  <2>1. Edge("tail", "where", "where_column", "nothing") \in WhereEdges
    BY DEF WhereEdges
  <2>2. Edge("where_column", "id", "where_op", "where_column") \in WhereEdges
    BY DEF WhereEdges
  <2>3. Edge("where_op", "=", "where_value", "where_op") \in WhereEdges
    BY DEF WhereEdges
  <2>4. \A a \in {"tail", "where_column", "where_op"} :
           \E e \in WhereEdges : e.from = a
    BY <2>1, <2>2, <2>3 DEF Edge
  <2>5. \A e \in WhereEdges : e.to \in {"where_column", "where_op", "where_value"}
    BY DEF WhereEdges, Edge
  <2> QED BY <2>4, <2>5
<1>11. /\ \A a \in {"first_value", "value", "set_value", "where_value"} :
         \E e \in ValueEdges : e.from = a
      /\ \A e \in ValueEdges : e.to \in {"value_end", "tail", "end"}
  <2>1. Edge("first_value", "intlit", "value_end", "value") \in ValueEdges
    <3>1. PICK p \in ValuePoints : p[1] = "first_value" /\ p[2] = "value_end"
      BY DEF ValuePoints
    <3> QED BY <3>1 DEF ValueEdges
  <2>2. Edge("value", "intlit", "value_end", "value") \in ValueEdges
    <3>1. PICK p \in ValuePoints : p[1] = "value" /\ p[2] = "value_end"
      BY DEF ValuePoints
    <3> QED BY <3>1 DEF ValueEdges
  <2>3. Edge("set_value", "intlit", "tail", "value") \in ValueEdges
    <3>1. PICK p \in ValuePoints : p[1] = "set_value" /\ p[2] = "tail"
      BY DEF ValuePoints
    <3> QED BY <3>1 DEF ValueEdges
  <2>4. Edge("where_value", "intlit", "end", "where_value") \in ValueEdges
    <3>1. PICK p \in ValuePoints : p[1] = "where_value" /\ p[2] = "end"
      BY DEF ValuePoints
    <3> QED BY <3>1 DEF ValueEdges
  <2>5. \A a \in {"first_value", "value", "set_value", "where_value"} :
           \E e \in ValueEdges : e.from = a
    BY <2>1, <2>2, <2>3, <2>4 DEF Edge
  <2>6. \A e \in ValueEdges : e.to \in {"value_end", "tail", "end"}
    BY DEF ValueEdges, Edge, ValuePoints
  <2> QED BY <2>5, <2>6
<1>12. /\ \A a \in {"end"} :
         \E e \in EndEdges : e.from = a
      /\ \A e \in EndEdges : e.to \in {"accepted"}
  BY DEF EndEdges, Edge
<1> QED BY <1>1, <1>2, <1>3, <1>4, <1>5, <1>6, <1>7, <1>8, <1>9, <1>10, <1>11,
  <1>12 DEF AllPoints, Points, Edges

\* No edge takes the end of the text.
LEMMA EdgesRead ==
  \A e \in Edges : e.on # "eof"
<1>1. \A e \in StatementEdges \cup CreateEdges \cup ColumnEdges : e.on # "eof"
  BY DEF StatementEdges, CreateEdges, ColumnEdges, Edge
<1>2. \A e \in DropEdges \cup UseEdges \cup SelectEdges \cup DeleteEdges : e.on # "eof"
  BY DEF DropEdges, UseEdges, SelectEdges, DeleteEdges, Edge
<1>3. \A e \in InsertEdges \cup UpdateEdges \cup WhereEdges : e.on # "eof"
  BY DEF InsertEdges, UpdateEdges, WhereEdges, Edge
<1>4. \A e \in ValueEdges \cup EndEdges : e.on # "eof"
  BY DEF ValueEdges, EndEdges, Edge
<1> QED BY <1>1, <1>2, <1>3, <1>4 DEF Edges

\* A WHERE clause is made of tokens.
LEMMA WhereTextTokens ==
  ASSUME NEW w \in Wheres
  PROVE  WhereText(w) \in Seq(Tokens)
<1>1. CASE w = NoWhere
  <2>1. <<>> \in Seq(Tokens)
    BY EmptySeq
  <2> QED BY <1>1, <2>1 DEF WhereText
<1>2. CASE w # NoWhere
  <2>1. w.column \in Names /\ w.op \in {"=", "<", ">"} /\ w.value \in Literals
    BY <1>2 DEF Wheres
  <2>2. Word("where") \in Tokens /\ Id(w.column) \in Tokens /\ Word(w.op) \in Tokens
    BY <2>1, TokenTypes DEF Words
  <2>3. <<Word("where"), Id(w.column), Word(w.op)>> \in Seq(Tokens)
    BY <2>2
  <2>4. ValueText(w.value) \in Seq(Tokens)
    BY <2>1, ValueTextTokens DEF Values
  <2> QED BY <1>2, <2>3, <2>4, ConcatProperties DEF WhereText
<1> QED BY <1>1, <1>2

\* The lists of the grammar are sequences that are not empty.
LEMMA ListsAre ==
  ASSUME NEW S, NEW q \in Lists(S)
  PROVE  q \in Seq(S) /\ q # <<>>
<1>1. PICK n \in 1..MaxList : q \in [1..n -> S]
  BY DEF Lists
<1>2. n \in Nat /\ n # 0
  BY <1>1, MaxListAssumption
<1>3. q \in Seq(S)
  BY <1>1, <1>2
<1>4. DOMAIN q = 1..n /\ 1 \in 1..n
  BY <1>1, <1>2
<1>5. DOMAIN q = 1..Len(q) /\ Len(q) \in Nat
  BY <1>3, LenProperties
<1>6. Len(q) # 0
  BY <1>4, <1>5
<1> QED BY <1>3, <1>6, EmptySeq

\* A sentence of the grammar is made of tokens.
LEMMA RenderTokens ==
  ASSUME NEW s \in Statements
  PROVE  Render(s) \in Seq(Tokens)
<1>1. ASSUME NEW n \in Names,
             NEW k \in {"create_database", "drop_database", "use", "drop_table"},
             s = Of(k, n, Empty, <<>>, <<>>, NoWhere)
      PROVE  Render(s) \in Seq(Tokens)
  <2>1. s.kind = k /\ s.name = n
    BY <1>1 DEF Of
  <2>2. /\ Word("create") \in Tokens /\ Word("database") \in Tokens /\
             Word("drop") \in Tokens
        /\ Word("use") \in Tokens /\ Word("table") \in Tokens /\ Id(n) \in Tokens
    BY TokenTypes DEF Words
  <2>3. /\ <<Word("create"), Word("database"), Id(n)>> \in Seq(Tokens)
        /\ <<Word("drop"), Word("database"), Id(n)>> \in Seq(Tokens)
        /\ <<Word("drop"), Word("table"), Id(n)>> \in Seq(Tokens)
        /\ <<Word("use"), Id(n)>> \in Seq(Tokens)
    BY <2>2
  <2> QED BY <2>1, <2>3 DEF Render
<1>2. ASSUME NEW n \in Names, NEW cs \in Lists(Columns),
             s = Of("create_table", n, Empty, cs, <<>>, NoWhere)
      PROVE  Render(s) \in Seq(Tokens)
  <2>1. s.kind = "create_table" /\ s.name = n /\ s.columns = cs
    BY <1>2 DEF Of
  <2>2. Listed(ColumnTexts(cs)) \in Seq(Tokens)
    BY ListsAre, ColumnTextsNext, SomeListed
  <2>3. CreateOpen(n) \o Listed(ColumnTexts(cs)) \in Seq(Tokens)
    BY <2>2, OpenTokens, ConcatProperties
  <2>4. <<Word(")")>> \in Seq(Tokens)
    <3>1. Word(")") \in Tokens
      BY TokenTypes DEF Words
    <3> QED BY <3>1
  <2>5. Render(s) = (CreateOpen(n) \o Listed(ColumnTexts(cs))) \o <<Word(")")>>
    BY <2>1 DEF Render, CreateOpen, ColumnTexts
  <2> QED BY <2>3, <2>4, <2>5, ConcatProperties
<1>3. ASSUME NEW k, NEW n, NEW c, NEW vs, Tails(k, n, c, vs), NEW w \in Wheres,
             s = Of(k, n, c, <<>>, vs, w)
      PROVE  Render(s) \in Seq(Tokens)
  <2>1. WhereText(w) \in Seq(Tokens) /\ Bare(k, n, c, vs) \in Seq(Tokens)
    BY <1>3, WhereTextTokens, BareTokens
  <2>2. Render(s) = Bare(k, n, c, vs) \o WhereText(w)
    BY <1>3, <2>1, RenderWhere
  <2> QED BY <2>1, <2>2, ConcatProperties
<1>4. ASSUME NEW n \in Names, NEW vs \in Lists(Literals),
             s = Of("insert", n, Empty, <<>>, vs, NoWhere)
      PROVE  Render(s) \in Seq(Tokens)
  <2>1. s.kind = "insert" /\ s.name = n /\ s.values = vs
    BY <1>4 DEF Of
  <2>2. vs \in Seq(Values) /\ vs # <<>>
    <3>1. Literals \subseteq Values
      BY DEF Values
    <3> QED BY <3>1, ListsAre, SeqMonotonic
  <2>3. Listed(ValueTexts(vs)) \in Seq(Tokens)
    BY <2>2, ValueTextsNext, SomeListed
  <2>4. InsertOpen(n) \o Listed(ValueTexts(vs)) \in Seq(Tokens)
    BY <2>3, OpenTokens, ConcatProperties
  <2>5. <<Word(")")>> \in Seq(Tokens)
    <3>1. Word(")") \in Tokens
      BY TokenTypes DEF Words
    <3> QED BY <3>1
  <2>6. Render(s) = (InsertOpen(n) \o Listed(ValueTexts(vs))) \o <<Word(")")>>
    BY <2>1 DEF Render, InsertOpen, ValueTexts
  <2> QED BY <2>4, <2>5, <2>6, ConcatProperties
<1>5. CASE s \in {Of(k, n, Empty, <<>>, <<>>, NoWhere) : n \in Names,
                    k \in {"create_database", "drop_database", "use", "drop_table"}}
  BY <1>1, <1>5
<1>6. CASE s \in {Of("create_table", n, Empty, cs, <<>>, NoWhere) :
                    n \in Names, cs \in {cs \in Lists(Columns) : OneKey(cs)}}
  BY <1>2, <1>6
<1>7. CASE s \in {Of("select", n, c, <<>>, <<>>, w) :
                    n \in Names, c \in Names \cup {"*"}, w \in Wheres}
  <2>1. PICK n \in Names, c \in Names \cup {"*"}, w \in Wheres :
          s = Of("select", n, c, <<>>, <<>>, w)
    BY <1>7
  <2>2. Tails("select", n, c, <<>>)
    BY DEF Tails
  <2> QED BY <1>3, <2>1, <2>2
<1>8. CASE s \in {Of("delete", n, Empty, <<>>, <<>>, w) : n \in Names, w \in Wheres}
  <2>1. PICK n \in Names, w \in Wheres : s = Of("delete", n, Empty, <<>>, <<>>, w)
    BY <1>8
  <2>2. Tails("delete", n, Empty, <<>>)
    BY DEF Tails
  <2> QED BY <1>3, <2>1, <2>2
<1>9. CASE s \in {Of("insert", n, Empty, <<>>, vs, NoWhere) :
                    n \in Names, vs \in Lists(Literals)}
  BY <1>4, <1>9
<1>10. CASE s \in {Of("update", n, c, <<>>, <<v>>, w) :
                     n \in Names, c \in Names, v \in Literals, w \in Wheres}
  <2>1. PICK n \in Names, c \in Names, v \in Literals, w \in Wheres :
          s = Of("update", n, c, <<>>, <<v>>, w)
    BY <1>10
  <2>2. Tails("update", n, c, <<v>>)
    BY DEF Tails, Values
  <2> QED BY <1>3, <2>1, <2>2
<1> QED BY <1>5, <1>6, <1>7, <1>8, <1>9, <1>10 DEF Statements

\* What json_get_string takes is the beginning of what was typed.
LEMMA CutTokens ==
  ASSUME NEW text \in Seq(Tokens)
  PROVE  Cut(text) \in Seq(Tokens)
<1> DEFINE I == {i \in 1..Len(text) : text[i].kind = "strlit"}
           q == SelectInSeq(text, LAMBDA t : t.kind = "strlit")
<1>1. Len(text) \in Nat /\ \A i \in 1..Len(text) : text[i] \in Tokens
  BY LenProperties, ElementOfSeq
<1>2. q = IF I # {} THEN Min(I) ELSE 0
  BY DEF SelectInSeq
<1>3. I # {} => Min(I) \in 1..Len(text)
  <2>1. I \in SUBSET Nat /\ I \subseteq 1..Len(text)
    BY <1>1
  <2> HIDE DEF I
  <2> QED BY <2>1, MinFacts
<1>4. Cut(text) = IF q = 0 THEN text ELSE SubSeq(text, 1, q - 1)
  BY DEF Cut
<1> HIDE DEF I, q
<1>5. q # 0 => q \in 1..Len(text)
  BY <1>2, <1>3
<1>6. CASE q # 0
  <2>1. q - 1 \in Int /\ \A i \in 1..(q - 1) : text[i] \in Tokens
    BY <1>1, <1>5, <1>6
  <2>2. SubSeq(text, 1, q - 1) \in Seq(Tokens)
    BY <2>1, SubSeqProperties
  <2> QED BY <1>4, <1>6, <2>2
<1> QED BY <1>4, <1>6

Inv ==
  /\ typed \in Seq(Tokens) /\ input \in Seq(Tokens)
  /\ pos \in 1..(Len(input) + 1)
  /\ at \in AllPoints
  /\ Heard(at, SubSeq(input, 1, pos - 1), stmt)

\* At the prompt nothing is read yet.
LEMMA InitInv ==
  ASSUME Init
  PROVE  Inv
<1>1. Sentences \subseteq Seq(Tokens)
  <2>1. Word("semicolon") \in Tokens
    BY TokenTypes DEF Words
  <2>2. \A s \in Statements : Append(Render(s), Word("semicolon")) \in Seq(Tokens)
    BY <2>1, RenderTokens, AppendProperties
  <2> QED BY <2>2, RenderTokens DEF Sentences
<1>2. typed \in Seq(Tokens)
  BY <1>1, EditsAssumption DEF Init
<1>3. input \in Seq(Tokens)
  BY <1>2, CutTokens DEF Init
<1>4. Len(input) \in Nat /\ pos = 1 /\ at = "start"
  BY <1>3, LenProperties DEF Init
<1>5. SubSeq(input, 1, pos - 1) = <<>>
  BY <1>4, SubSeqEmpty
<1>6. stmt = Of("none", Empty, Empty, <<>>, <<>>, NoWhere)
  BY DEF Init, Blank, Of
<1>7. Begun(<<>>, "none", <<>>, stmt)
  BY <1>6 DEF Begun
<1>8. stmt \in Partial
  BY <1>6, PartialOf, EmptySeq DEF Kinds
<1>9. Heard(at, SubSeq(input, 1, pos - 1), stmt)
  BY <1>4, <1>5, <1>7, <1>8 DEF Heard
<1> QED BY <1>2, <1>3, <1>4, <1>9 DEF Inv, AllPoints

\* No step breaks the invariant.
LEMMA NextInv ==
  ASSUME Inv, [Next]_vars
  PROVE  Inv'
<1> DEFINE x == SubSeq(input, 1, pos - 1)
<1>1. /\ typed \in Seq(Tokens) /\ input \in Seq(Tokens) /\ Len(input) \in Nat
      /\ pos \in 1..(Len(input) + 1) /\ at \in AllPoints /\ Heard(at, x, stmt)
  BY LenProperties DEF Inv
<1>2. x \in Seq(Tokens)
  <2>1. \A i \in 1..(pos - 1) : input[i] \in Tokens
    BY <1>1, ElementOfSeq
  <2> QED BY <1>1, <2>1, SubSeqProperties
<1> HIDE DEF x
<1>3. CASE Advance
  <2>1. PICK e \in Edges : Fits(e) /\ at' = e.to /\ stmt' = Put(e, Peek)
    BY <1>3 DEF Advance
  <2>2. e.from = at /\ e.on = Peek.kind /\ Peek.kind # "eof"
    BY <2>1, EdgesRead DEF Fits
  <2>3. pos <= Len(input) /\ Peek = input[pos]
    BY <2>2 DEF Peek, Eof
  <2>4. pos \in 1..Len(input) /\ Peek \in Tokens
    BY <1>1, <2>3, ElementOfSeq
  <2>5. Heard(at', Append(x, Peek), stmt')
    BY <1>1, <1>2, <2>1, <2>2, <2>4, AdvanceHeard
  <2>6. UNCHANGED <<typed, input>> /\ pos' = pos + 1
    BY <1>3 DEF Advance
  <2>7. SubSeq(input, 1, pos) = Append(x, Peek)
    <3>1. SubSeq(input, 1, pos) = x \o <<input[pos]>>
      <4>1. 1 \in 1..Len(input) /\ pos \in 1..Len(input)
        BY <2>4
      <4> QED BY <1>1, <4>1, SubSeqRecursiveSecond DEF x
    <3>2. Append(x, Peek) = x \o <<Peek>>
      BY <1>2, <2>4, AppendIsConcat
    <3> QED BY <2>3, <3>1, <3>2
  <2>8. pos' - 1 = pos /\ pos' \in 1..(Len(input') + 1)
    BY <1>1, <2>4, <2>6
  <2>9. at' \in AllPoints
    BY <2>1, PointsAre
  <2>10. Heard(at', SubSeq(input', 1, pos' - 1), stmt')
    BY <2>5, <2>6, <2>7, <2>8
  <2> QED BY <1>1, <2>6, <2>8, <2>9, <2>10 DEF Inv
<1>4. ASSUME UNCHANGED <<typed, input, pos>>, at' \in AllPoints, Heard(at', x, stmt')
      PROVE  Inv'
  BY <1>1, <1>4 DEF Inv, x
<1>5. CASE NoValue
  <2>1. PICK p \in ValuePoints :
          /\ at = p[1] /\ at' = p[2]
          /\ stmt' = IF p[1] = "where_value" THEN stmt
                     ELSE [stmt EXCEPT !.values = Append(@, Missing)]
    BY <1>5 DEF NoValue
  <2>2. Heard(at', x, stmt')
    BY <1>1, <1>2, <2>1, MissingHeard
  <2>3. at' \in AllPoints
    BY <2>1 DEF ValuePoints, AllPoints
  <2> QED BY <1>4, <1>5, <2>2, <2>3 DEF NoValue
<1>6. CASE Skip
  <2>1. /\ UNCHANGED <<typed, input, pos>> /\ stmt' = stmt
        /\ \/ at = "column_key" /\ at' = "column_end"
           \/ at = "tail" /\ at' = "end"
           \/ at = "end" /\ at' = "accepted"
    BY <1>6 DEF Skip
  <2>2. Heard(at', x, stmt')
    BY <1>1, <1>2, <2>1, SkipHeard
  <2>3. at' \in AllPoints
    BY <2>1 DEF AllPoints
  <2> QED BY <1>4, <2>1, <2>2, <2>3
<1>7. CASE CountKeys
  <2>1. /\ UNCHANGED <<typed, input, pos>> /\ stmt' = stmt /\ at = "keys"
        /\ at' = IF OneKey(stmt.columns) THEN "end" ELSE "invalid"
    BY <1>7 DEF CountKeys
  <2>2. Heard(at', x, stmt')
    BY <1>1, <1>2, <2>1, SkipHeard, FailHeard
  <2>3. at' \in AllPoints
    BY <2>1 DEF AllPoints
  <2> QED BY <1>4, <2>1, <2>2, <2>3
<1>8. CASE Fail
  <2>1. UNCHANGED <<typed, input, pos>> /\ stmt' = stmt /\ at' = "invalid"
    BY <1>8 DEF Fail
  <2>2. Heard(at', x, stmt')
    BY <1>1, <2>1, FailHeard
  <2>3. at' \in AllPoints
    BY <2>1 DEF AllPoints
  <2> QED BY <1>4, <2>1, <2>2, <2>3
<1>9. CASE UNCHANGED vars
  BY <1>1, <1>4, <1>9 DEF vars
<1> QED BY <1>3, <1>5, <1>6, <1>7, <1>8, <1>9 DEF Next

LEMMA InvAlways == Spec => []Inv
<1>1. Init => Inv
  BY InitInv
<1>2. Inv /\ [Next]_vars => Inv'
  BY NextInv
<1> QED BY <1>1, <1>2, PTL DEF Spec

-----------------------------------------------------------------------------
\* Every variable stays in its range, for any sequence of tokens: _pos never
\* passes the end-of-file token, so what peek and advance read unchecked is there.
THEOREM TypesStay == Spec => []TypeOK
<1>1. Inv => TypeOK
  <2> SUFFICES ASSUME Inv PROVE TypeOK
    OBVIOUS
  <2>1. at \in Points
    BY PointsAre DEF Inv
  <2>2. stmt \in Partial
    BY DEF Inv, Heard
  <2> QED BY <2>1, <2>2 DEF Inv, Partial, TypeOK, Values
<1> QED BY <1>1, InvAlways, PTL

\* Whatever statement the parser accepts, the tokens it has read are exactly
\* that statement's text: none skipped, none read without leaving its part in
\* the statement; and a CREATE TABLE has at most one primary key.
THEOREM AcceptedIsRead == Spec => []ReadsWhatItAccepts
<1>1. Inv => ReadsWhatItAccepts
  <2> SUFFICES ASSUME Inv, at = "accepted"
               PROVE  Reads(SubSeq(input, 1, pos - 1), stmt) /\ OneKey(stmt.columns)
    BY DEF ReadsWhatItAccepts
  <2>1. HeardMore(SubSeq(input, 1, pos - 1), stmt)
    BY DEF Inv, Heard
  <2> QED BY <2>1 DEF HeardMore
<1> QED BY <1>1, InvAlways, PTL

-----------------------------------------------------------------------------
(***************************************************************************)
(* What is still to be read of a sentence                                  *)
(***************************************************************************)

\* The token t, and then r.
Then(t, r) == <<t>> \o r

\* What Then builds: one token more, in front.
LEMMA ThenFacts ==
  ASSUME NEW t \in Tokens, NEW r \in Seq(Tokens)
  PROVE  /\ Then(t, r) \in Seq(Tokens) /\ Then(t, r) # <<>>
         /\ Len(Then(t, r)) = Len(r) + 1 /\ Then(t, r)[1] = t
         /\ \A i \in 1..Len(r) : Then(t, r)[i + 1] = r[i]
<1> DEFINE l == <<t>>
<1>1. l \in Seq(Tokens) /\ Len(l) = 1 /\ l[1] = t /\ Len(r) \in Nat
  BY LenProperties
<1> HIDE DEF l
<1> DEFINE u == l \o r
<1>2. /\ u \in Seq(Tokens) /\ Len(u) = Len(r) + 1
      /\ \A i \in 1..(Len(r) + 1) : u[i] = IF i <= 1 THEN l[i] ELSE r[i - 1]
  BY <1>1, ConcatProperties, SMTT(30)
<1>3. Then(t, r) = u
  BY DEF Then, l
<1> HIDE DEF u
<1>4. u[1] = t /\ u # <<>>
  <2>1. 1 \in 1..(Len(r) + 1)
    BY <1>1
  <2>2. u[1] = l[1]
    BY <1>2, <2>1
  <2>3. Len(u) # 0
    BY <1>1, <1>2
  <2> QED BY <1>1, <1>2, <2>2, <2>3, EmptySeq
<1>5. ASSUME NEW i \in 1..Len(r)
      PROVE  u[i + 1] = r[i]
  <2>1. i + 1 \in 1..(Len(r) + 1) /\ ~(i + 1 <= 1) /\ (i + 1) - 1 = i
    BY <1>1
  <2> QED BY <1>2, <2>1
<1> QED BY <1>2, <1>3, <1>4, <1>5

\* There is one way to read a token.
LEMMA ThenOne ==
  ASSUME NEW t \in Tokens, NEW r \in Seq(Tokens), NEW u \in Tokens, NEW q \in Seq(Tokens),
         Then(t, r) = Then(u, q)
  PROVE  t = u /\ r = q
<1>1. Len(r) \in Nat /\ Len(q) \in Nat
  BY LenProperties
<1>2. PICK a : a = Then(t, r)
  OBVIOUS
<1>3. /\ Len(a) = Len(r) + 1 /\ a[1] = t /\ \A i \in 1..Len(r) : a[i + 1] = r[i]
      /\ Len(a) = Len(q) + 1 /\ a[1] = u /\ \A i \in 1..Len(q) : a[i + 1] = q[i]
  <2>1. /\ Len(a) = Len(r) + 1 /\ a[1] = t
        /\ \A i \in 1..Len(r) : a[i + 1] = r[i]
    BY <1>2, ThenFacts, ZenonT(30)
  <2>2. a = Then(u, q)
    BY <1>2
  <2>3. /\ Len(a) = Len(q) + 1 /\ a[1] = u
        /\ \A i \in 1..Len(q) : a[i + 1] = q[i]
    BY <2>2, ThenFacts, ZenonT(30)
  <2> QED BY <2>1, <2>3
<1>4. Len(r) = Len(q)
  BY <1>1, <1>3
<1>5. \A i \in 1..Len(r) : r[i] = q[i]
  BY <1>3, <1>4
<1> QED BY <1>3, <1>4, <1>5, SeqEqual

\* A text of words and what follows it.
LEMMA ThenMore ==
  ASSUME NEW t \in Tokens, NEW r \in Seq(Tokens), NEW z \in Seq(Tokens)
  PROVE  Then(t, r) \o z = Then(t, r \o z)
<1>1. <<t>> \in Seq(Tokens)
  OBVIOUS
<1>2. (<<t>> \o r) \o z = <<t>> \o (r \o z)
  BY <1>1, ConcatAssociative
<1> QED BY <1>2 DEF Then

\* Words in a row.
LEMMA ThenBefore ==
  ASSUME NEW s \in Seq(Tokens), NEW e \in Tokens, NEW q \in Seq(Tokens)
  PROVE  Append(s, e) \o q = s \o Then(e, q)
<1>1. <<e>> \in Seq(Tokens)
  OBVIOUS
<1>2. Append(s, e) = s \o <<e>>
  BY AppendIsConcat
<1>3. (s \o <<e>>) \o q = s \o (<<e>> \o q)
  BY <1>1, ConcatAssociative
<1> QED BY <1>2, <1>3 DEF Then

\* Two to five words in a row are read one by one.
LEMMA ThenTwo ==
  ASSUME NEW a \in Tokens, NEW b \in Tokens,
         NEW r \in Seq(Tokens)
  PROVE  <<a, b>> \o r = Then(a, Then(b, r))
<1>1. <<a>> \in Seq(Tokens) /\ Then(b, r) \in Seq(Tokens)
  BY ThenFacts
<1>2. Append(<<a>>, b) = <<a, b>>
  BY WrittenTwo
<1>3. Append(<<a>>, b) \o r = <<a>> \o Then(b, r)
  BY <1>1, ThenBefore
<1>4. <<a>> \o Then(b, r) = Then(a, Then(b, r))
  BY <1>1 DEF Then
<1> QED BY <1>2, <1>3, <1>4

LEMMA ThenThree ==
  ASSUME NEW a \in Tokens, NEW b \in Tokens, NEW c \in Tokens,
         NEW r \in Seq(Tokens)
  PROVE  <<a, b, c>> \o r = Then(a, Then(b, Then(c, r)))
<1>1. <<a, b>> \in Seq(Tokens) /\ Then(c, r) \in Seq(Tokens)
  BY ThenFacts
<1>2. Append(<<a, b>>, c) = <<a, b, c>>
  BY WrittenThree
<1>3. Append(<<a, b>>, c) \o r = <<a, b>> \o Then(c, r)
  BY <1>1, ThenBefore
<1>4. <<a, b>> \o Then(c, r) = Then(a, Then(b, Then(c, r)))
  BY <1>1, ThenTwo
<1> QED BY <1>2, <1>3, <1>4

LEMMA ThenFour ==
  ASSUME NEW a \in Tokens, NEW b \in Tokens, NEW c \in Tokens, NEW d \in Tokens,
         NEW r \in Seq(Tokens)
  PROVE  <<a, b, c, d>> \o r = Then(a, Then(b, Then(c, Then(d, r))))
<1>1. <<a, b, c>> \in Seq(Tokens) /\ Then(d, r) \in Seq(Tokens)
  BY ThenFacts
<1>2. Append(<<a, b, c>>, d) = <<a, b, c, d>>
  BY WrittenFour
<1>3. Append(<<a, b, c>>, d) \o r = <<a, b, c>> \o Then(d, r)
  BY <1>1, ThenBefore
<1>4. <<a, b, c>> \o Then(d, r) = Then(a, Then(b, Then(c, Then(d, r))))
  BY <1>1, ThenThree
<1> QED BY <1>2, <1>3, <1>4

LEMMA ThenFive ==
  ASSUME NEW a \in Tokens, NEW b \in Tokens, NEW c \in Tokens, NEW d \in Tokens,
         NEW e \in Tokens,
         NEW r \in Seq(Tokens)
  PROVE  <<a, b, c, d, e>> \o r = Then(a, Then(b, Then(c, Then(d, Then(e, r)))))
<1>1. <<a, b, c, d>> \in Seq(Tokens) /\ Then(e, r) \in Seq(Tokens)
  BY ThenFacts
<1>2. Append(<<a, b, c, d>>, e) = <<a, b, c, d, e>>
  BY WrittenFive
<1>3. Append(<<a, b, c, d>>, e) \o r = <<a, b, c, d>> \o Then(e, r)
  BY <1>1, ThenBefore
<1>4. <<a, b, c, d>> \o Then(e, r) = Then(a, Then(b, Then(c, Then(d, Then(e, r)))))
  BY <1>1, ThenFour
<1> QED BY <1>2, <1>3, <1>4

\* F is the text of a list, G that of a part.
Appends(D, F, G) ==
  /\ F \in [Seq(D) -> Seq(Tokens)] /\ G \in [D -> Seq(Tokens)]
  /\ F[<<>>] = <<>>
  /\ \A ds \in Seq(D), d \in D : F[Append(ds, d)] = F[ds] \o G[d]
Prepends(D, F, G) == \A d \in D, ds \in Seq(D) : F[<<d>> \o ds] = G[d] \o F[ds]

\* What Append does to a text decides what a part in front does to it: the
\* shortest list for which it does not, does not exist.
LEMMA InFront ==
  ASSUME NEW D, NEW F, NEW G, Appends(D, F, G)
  PROVE  Prepends(D, F, G)
<1>0. /\ F \in [Seq(D) -> Seq(Tokens)] /\ G \in [D -> Seq(Tokens)]
      /\ F[<<>>] = <<>>
      /\ \A ds \in Seq(D), d \in D : F[Append(ds, d)] = F[ds] \o G[d]
  BY DEF Appends
<1> SUFFICES ASSUME NEW d \in D
             PROVE  \A ds \in Seq(D) : F[<<d>> \o ds] = G[d] \o F[ds]
  BY DEF Prepends
<1> DEFINE Fits1(ds) == F[<<d>> \o ds] = G[d] \o F[ds]
           Wrong == {n \in Nat : \E ds \in Seq(D) : Len(ds) = n /\ ~Fits1(ds)}
<1>1. Fits1(<<>>)
  <2>1. <<>> \in Seq(D) /\ <<d>> \in Seq(D)
    OBVIOUS
  <2>2. <<d>> \o <<>> = <<d>> /\ Append(<<>>, d) = <<d>>
    BY <2>1, ConcatEmptySeq
  <2>3. F[<<d>>] = <<>> \o G[d]
    BY <1>0, <2>1, <2>2
  <2>4. <<>> \o G[d] = G[d] /\ G[d] \o <<>> = G[d]
    BY <1>0, ConcatEmptySeq
  <2> QED BY <1>0, <2>2, <2>3, <2>4
<1>2. ASSUME NEW q \in Seq(D), NEW l \in D, Fits1(q)
      PROVE  Fits1(Append(q, l))
  <2>1. <<d>> \in Seq(D) /\ <<l>> \in Seq(D)
    OBVIOUS
  <2>2. <<d>> \o q \in Seq(D)
    BY <2>1, ConcatProperties
  <2>3. <<d>> \o Append(q, l) = Append(<<d>> \o q, l)
    <3>1. Append(q, l) = q \o <<l>>
      BY AppendIsConcat
    <3>2. Append(<<d>> \o q, l) = (<<d>> \o q) \o <<l>>
      BY <2>2, AppendIsConcat
    <3>3. (<<d>> \o q) \o <<l>> = <<d>> \o (q \o <<l>>)
      BY <2>1, ConcatAssociative
    <3> QED BY <3>1, <3>2, <3>3
  <2>4. F[Append(<<d>> \o q, l)] = F[<<d>> \o q] \o G[l]
    BY <1>0, <2>2
  <2>5. F[Append(q, l)] = F[q] \o G[l]
    BY <1>0
  <2>6. (G[d] \o F[q]) \o G[l] = G[d] \o (F[q] \o G[l])
    BY <1>0, ConcatAssociative
  <2> QED BY <1>2, <2>3, <2>4, <2>5, <2>6
<1> HIDE DEF Fits1
<1>3. Wrong = {}
  <2> SUFFICES ASSUME Wrong # {} PROVE FALSE
    OBVIOUS
  <2>1. PICK n \in Wrong : \A k \in Wrong : n <= k
    <3>1. Wrong \in SUBSET Nat
      OBVIOUS
    <3> HIDE DEF Wrong
    <3> QED BY <3>1, MinFacts
  <2>2. PICK ds \in Seq(D) : Len(ds) = n /\ ~Fits1(ds)
    OBVIOUS
  <2>3. ds # <<>>
    BY <1>1, <2>2
  <2>4. PICK q \in Seq(D), l \in D : ds = Append(q, l)
    BY <2>3, SequenceEmptyOrAppend
  <2>5. Len(q) \in Nat /\ Len(ds) = Len(q) + 1
    BY <2>4, LenProperties, AppendProperties
  <2>6. ~Fits1(q)
    BY <1>2, <2>2, <2>4
  <2>7. Len(q) \in Wrong
    BY <2>5, <2>6
  <2>8. n = Len(q) + 1 /\ ~(n <= Len(q))
    BY <2>2, <2>5
  <2> HIDE DEF Wrong
  <2> QED BY <2>1, <2>7, <2>8
<1>4. \A ds \in Seq(D) : Fits1(ds)
  BY <1>3, LenProperties
<1> QED BY <1>4 DEF Fits1

\* The rest of a list behind one of its parts.
ColumnsLeft(cs) == FlattenSeq(Commas(ColumnTexts(cs)))
ValuesLeft(vs)  == FlattenSeq(Commas(ValueTexts(vs)))

\* Nothing is left of an empty list.
LEMMA NoneLeft ==
  ColumnsLeft(<<>>) = <<>> /\ ValuesLeft(<<>>) = <<>>
<1>1. Len(<<>>) = 0
  OBVIOUS
<1>2. Commas(ColumnTexts(<<>>)) = <<>> /\ Commas(ValueTexts(<<>>)) = <<>>
  <2>1. ColumnTexts(<<>>) = <<>> /\ ValueTexts(<<>>) = <<>>
    BY <1>1 DEF ColumnTexts, ValueTexts
  <2>2. Commas(<<>>) = <<>>
    BY <1>1 DEF Commas
  <2> QED BY <2>1, <2>2
<1>3. FlattenSeq(<<>>) = <<>>
  BY <1>1 DEF FlattenSeq
<1> QED BY <1>2, <1>3 DEF ColumnsLeft, ValuesLeft

\* What is left of a list and one part more.
LEMMA MoreParts ==
  ASSUME NEW parts \in Seq(Seq(Tokens)), NEW p \in Seq(Tokens)
  PROVE  /\ FlattenSeq(Commas(parts)) \in Seq(Tokens)
         /\ FlattenSeq(Commas(Append(parts, p))) =
              FlattenSeq(Commas(parts)) \o Then(Word("comma"), p)
<1> DEFINE q == Commas(parts)
           cp == <<Word("comma")>> \o p
<1>1. /\ q \in Seq(Seq(Tokens)) /\ cp \in Seq(Tokens)
      /\ Commas(Append(parts, p)) = Append(q, cp)
  BY CommasNext
<1>2. cp = Then(Word("comma"), p)
  BY DEF Then
<1> HIDE DEF q, cp
<1>3. CASE q = <<>>
  <2>1. FlattenSeq(q) = <<>>
    <3>1. Len(<<>>) = 0
      OBVIOUS
    <3> QED BY <1>3, <3>1 DEF FlattenSeq
  <2>2. Append(q, cp) = <<cp>>
    BY <1>3
  <2>3. FlattenSeq(<<cp>>) = cp
    BY <1>1, FlattenOne
  <2>4. <<>> \o cp = cp /\ <<>> \in Seq(Tokens)
    BY <1>1, ConcatEmptySeq, EmptySeq
  <2> QED BY <1>1, <1>2, <2>1, <2>2, <2>3, <2>4 DEF q
<1>4. CASE q # <<>>
  <2>1. FlattenSeq(q) \in Seq(Tokens) /\ FlattenSeq(Append(q, cp)) = FlattenSeq(q) \o cp
    BY <1>1, <1>4, FlattenAppend
  <2> QED BY <1>1, <1>2, <2>1 DEF q
<1> QED BY <1>3, <1>4

\* What is left of a list of columns starts with a comma and its first column.
LEMMA ColumnsInFront ==
  ASSUME NEW c \in Columns, NEW cs \in Seq(Columns)
  PROVE  /\ ColumnsLeft(cs) \in Seq(Tokens)
         /\ ColumnsLeft(<<c>> \o cs) = Then(Word("comma"), ColumnText(c)) \o ColumnsLeft(cs)
<1>1. \A ds \in Seq(Columns) : ColumnsLeft(ds) \in Seq(Tokens)
  <2> TAKE ds \in Seq(Columns)
  <2>1. ColumnTexts(ds) \in Seq(Seq(Tokens))
    BY ColumnTextsNext
  <2>2. <<>> \in Seq(Tokens)
    BY EmptySeq
  <2> QED BY <2>1, <2>2, MoreParts DEF ColumnsLeft
<1>2. \A d \in Columns : /\ ColumnText(d) \in Seq(Tokens)
                         /\ Then(Word("comma"), ColumnText(d)) \in Seq(Tokens)
  BY ColumnTextTokens, TokenTypes, ThenFacts
<1>3. \A ds \in Seq(Columns), d \in Columns :
        ColumnsLeft(Append(ds, d)) = ColumnsLeft(ds) \o Then(Word("comma"), ColumnText(d))
  <2> TAKE ds \in Seq(Columns), d \in Columns
  <2>1. ColumnTexts(ds) \in Seq(Seq(Tokens)) /\
          ColumnTexts(Append(ds, d)) = Append(ColumnTexts(ds), ColumnText(d))
    BY ColumnTextsNext
  <2> QED BY <1>2, <2>1, MoreParts DEF ColumnsLeft
<1> DEFINE F == [ds \in Seq(Columns) |-> ColumnsLeft(ds)]
           G == [d \in Columns |-> Then(Word("comma"), ColumnText(d))]
<1>4. F \in [Seq(Columns) -> Seq(Tokens)] /\ G \in [Columns -> Seq(Tokens)]
  BY <1>1, <1>2
<1>5. F[<<>>] = <<>>
  BY NoneLeft, EmptySeq
<1>6. \A ds \in Seq(Columns), d \in Columns : F[Append(ds, d)] = F[ds] \o G[d]
  BY <1>3, AppendProperties
<1>7. <<c>> \o cs \in Seq(Columns)
  BY ConcatProperties
<1>8. F[<<c>> \o cs] = G[c] \o F[cs]
  <2> HIDE DEF F, G
  <2>1. Appends(Columns, F, G)
    BY <1>4, <1>5, <1>6 DEF Appends
  <2>2. Prepends(Columns, F, G)
    BY <2>1, InFront
  <2> QED BY <2>2 DEF Prepends
<1> QED BY <1>1, <1>7, <1>8

\* And what is left of a list of values, with its first value.
LEMMA ValuesInFront ==
  ASSUME NEW v \in Values, NEW vs \in Seq(Values)
  PROVE  /\ ValuesLeft(vs) \in Seq(Tokens)
         /\ ValuesLeft(<<v>> \o vs) = Then(Word("comma"), ValueText(v)) \o ValuesLeft(vs)
<1>1. \A ds \in Seq(Values) : ValuesLeft(ds) \in Seq(Tokens)
  <2> TAKE ds \in Seq(Values)
  <2>1. ValueTexts(ds) \in Seq(Seq(Tokens))
    BY ValueTextsNext
  <2>2. <<>> \in Seq(Tokens)
    BY EmptySeq
  <2> QED BY <2>1, <2>2, MoreParts DEF ValuesLeft
<1>2. \A d \in Values : /\ ValueText(d) \in Seq(Tokens)
                         /\ Then(Word("comma"), ValueText(d)) \in Seq(Tokens)
  BY ValueTextTokens, TokenTypes, ThenFacts
<1>3. \A ds \in Seq(Values), d \in Values :
        ValuesLeft(Append(ds, d)) = ValuesLeft(ds) \o Then(Word("comma"), ValueText(d))
  <2> TAKE ds \in Seq(Values), d \in Values
  <2>1. ValueTexts(ds) \in Seq(Seq(Tokens)) /\
          ValueTexts(Append(ds, d)) = Append(ValueTexts(ds), ValueText(d))
    BY ValueTextsNext
  <2> QED BY <1>2, <2>1, MoreParts DEF ValuesLeft
<1> DEFINE F == [ds \in Seq(Values) |-> ValuesLeft(ds)]
           G == [d \in Values |-> Then(Word("comma"), ValueText(d))]
<1>4. F \in [Seq(Values) -> Seq(Tokens)] /\ G \in [Values -> Seq(Tokens)]
  BY <1>1, <1>2
<1>5. F[<<>>] = <<>>
  BY NoneLeft, EmptySeq
<1>6. \A ds \in Seq(Values), d \in Values : F[Append(ds, d)] = F[ds] \o G[d]
  BY <1>3, AppendProperties
<1>7. <<v>> \o vs \in Seq(Values)
  BY ConcatProperties
<1>8. F[<<v>> \o vs] = G[v] \o F[vs]
  <2> HIDE DEF F, G
  <2>1. Appends(Values, F, G)
    BY <1>4, <1>5, <1>6 DEF Appends
  <2>2. Prepends(Values, F, G)
    BY <2>1, InFront
  <2> QED BY <2>2 DEF Prepends
<1> QED BY <1>1, <1>7, <1>8

\* What is left to read at each point: a literal translation of the grammar,
\* read from its end.
Endings == {<<>>, <<Word("semicolon")>>}

RestName(r)        == \E n \in Names, z \in Endings : r = Then(Id(n), z)
RestWhereValue(r)  == \E v \in Literals, z \in Endings : r = Then(v, z)
RestWhereOp(r)     == \E o \in {"=", "<", ">"}, z \in Seq(Tokens) :
                        r = Then(Word(o), z) /\ RestWhereValue(z)
RestWhereColumn(r) == \E n \in Names, z \in Seq(Tokens) :
                        r = Then(Id(n), z) /\ RestWhereOp(z)
RestTail(r)        == \/ r \in Endings
                      \/ \E z \in Seq(Tokens) :
                           r = Then(Word("where"), z) /\ RestWhereColumn(z)

RestTable(r)  == \E n \in Names, z \in Seq(Tokens) : r = Then(Id(n), z) /\ RestTail(z)
RestFrom(r)   == \E z \in Seq(Tokens) : r = Then(Word("from"), z) /\ RestTable(z)
RestTarget(r) == \E c \in Names \cup {"*"}, z \in Seq(Tokens) :
                   r = Then(Target(c), z) /\ RestFrom(z)

RestSetValue(r)  == \E v \in Literals, z \in Seq(Tokens) : r = Then(v, z) /\ RestTail(z)
RestSetEq(r)     == \E z \in Seq(Tokens) : r = Then(Word("="), z) /\ RestSetValue(z)
RestSetColumn(r) == \E n \in Names, z \in Seq(Tokens) : r = Then(Id(n), z) /\ RestSetEq(z)
RestSet(r)       == \E z \in Seq(Tokens) : r = Then(Word("set"), z) /\ RestSetColumn(z)
RestUpdate(r)    == \E n \in Names, z \in Seq(Tokens) : r = Then(Id(n), z) /\ RestSet(z)

RestValues(r)    == \E vs \in Seq(Literals), z \in Endings :
                      r = ValuesLeft(vs) \o Then(Word(")"), z)
RestValue(r)     == \E v \in Literals, z \in Seq(Tokens) : r = Then(v, z) /\ RestValues(z)
RestValueList(r) == \E z \in Seq(Tokens) : r = Then(Word("("), z) /\ RestValue(z)
RestValuesOf(r)  == \E z \in Seq(Tokens) : r = Then(Word("values"), z) /\ RestValueList(z)
RestInto(r)      == \E n \in Names, z \in Seq(Tokens) : r = Then(Id(n), z) /\
  RestValuesOf(z)
RestInsert(r)    == \E z \in Seq(Tokens) : r = Then(Word("into"), z) /\ RestInto(z)

\* In the list of columns, cs are those built so far, with the one under
\* construction: no second primary key is ahead.
Typed(cs, y) == [cs EXCEPT ![Len(cs)] = [@ EXCEPT !.type = y]]
Keyed(cs)    == [cs EXCEPT ![Len(cs)] = [@ EXCEPT !.primary = TRUE]]
Started(cs, n) == Append(cs, [name |-> n, type |-> "none", primary |-> FALSE])

RestColumns(r, cs) == \E ds \in Seq(Columns), z \in Endings :
                        r = ColumnsLeft(ds) \o Then(Word(")"), z) /\ OneKey(cs \o ds)
RestKey(r, cs)     == \/ RestColumns(r, cs)
                      \/ \E z \in Seq(Tokens) :
                           r = Then(Word("primary"), z) /\ RestColumns(z, Keyed(cs))
RestType(r, cs)    == \E y \in {"int", "string"}, z \in Seq(Tokens) :
                        r = Then(Word(y), z) /\ RestKey(z, Typed(cs, y))
RestColumn(r, cs)  == \E n \in Names, z \in Seq(Tokens) :
                        r = Then(Id(n), z) /\ RestType(z, Started(cs, n))
RestColumnList(r)  == \E z \in Seq(Tokens) : r = Then(Word("("), z) /\ RestColumn(z, <<>>)
RestTableName(r)   == \E n \in Names, z \in Seq(Tokens) :
                        r = Then(Id(n), z) /\ RestColumnList(z)

RestCreate(r) == \E z \in Seq(Tokens) : \/ r = Then(Word("database"), z) /\ RestName(z)
                                        \/ r = Then(Word("table"), z) /\ RestTableName(z)
RestDrop(r)   == \E k \in {"database", "table"}, z \in Seq(Tokens) :
                   r = Then(Word(k), z) /\ RestName(z)
RestStatement(r) ==
  \E z \in Seq(Tokens) : \/ r = Then(Word("create"), z) /\ RestCreate(z)
                         \/ r = Then(Word("drop"), z) /\ RestDrop(z)
                         \/ r = Then(Word("use"), z) /\ RestName(z)
                         \/ r = Then(Word("select"), z) /\ RestTarget(z)
                         \/ r = Then(Word("delete"), z) /\ RestFrom(z)
                         \/ r = Then(Word("insert"), z) /\ RestInsert(z)
                         \/ r = Then(Word("update"), z) /\ RestUpdate(z)

\* r is what is left of a sentence at point a, where st has been built.
Ahead(a, r, st) ==
  /\ a # "invalid"
  /\ a = "start"  => RestStatement(r)
  /\ a = "create" => RestCreate(r)
  /\ a = "drop"   => RestDrop(r)
  /\ a \in {"create_database", "drop_database", "drop_table", "use"} => RestName(r)
  /\ a = "create_table" => RestTableName(r)
  /\ a = "columns"      => RestColumnList(r)
  /\ a \in {"first_column", "column"} => RestColumn(r, st.columns)
  /\ a = "column_type"  => RestType(r, st.columns)
  /\ a = "column_key"   => RestKey(r, st.columns)
  /\ a = "column_end"   => RestColumns(r, st.columns)
  /\ a = "keys"         => r \in Endings /\ OneKey(st.columns)
  /\ a = "select"       => RestTarget(r)
  /\ a \in {"select_from", "delete"}        => RestFrom(r)
  /\ a \in {"select_table", "delete_table"} => RestTable(r)
  /\ a = "insert"        => RestInsert(r)
  /\ a = "insert_table"  => RestInto(r)
  /\ a = "insert_values" => RestValuesOf(r)
  /\ a = "insert_list"   => RestValueList(r)
  /\ a \in {"first_value", "value"} => RestValue(r)
  /\ a = "value_end"     => RestValues(r)
  /\ a = "update"        => RestUpdate(r)
  /\ a = "update_set"    => RestSet(r)
  /\ a = "update_column" => RestSetColumn(r)
  /\ a = "update_eq"     => RestSetEq(r)
  /\ a = "set_value"     => RestSetValue(r)
  /\ a = "tail"          => RestTail(r)
  /\ a = "where_column"  => RestWhereColumn(r)
  /\ a = "where_op"      => RestWhereOp(r)
  /\ a = "where_value"   => RestWhereValue(r)
  /\ a = "end"           => r \in Endings
  /\ a = "accepted"      => r = <<>>

\* A statement ends with nothing or with a semicolon.
LEMMA EndingsAre ==
  ASSUME NEW z \in Endings
  PROVE  /\ z \in Seq(Tokens)
         /\ Then(Word(")"), z) \in Seq(Tokens)
         /\ z # <<>> => z = Then(Word("semicolon"), <<>>)
<1>1. Word("semicolon") \in Tokens /\ Word(")") \in Tokens
  BY TokenTypes DEF Words
<1>2. <<Word("semicolon")>> \in Seq(Tokens) /\ <<>> \in Seq(Tokens)
  BY <1>1
<1>3. <<Word("semicolon")>> \o <<>> = <<Word("semicolon")>>
  BY <1>2, ConcatEmptySeq
<1>4. z \in Seq(Tokens)
  BY <1>2 DEF Endings
<1> QED BY <1>1, <1>3, <1>4, ThenFacts DEF Endings, Then

\* What a list of columns goes on with: its end, or a comma and a column.
LEMMA ColumnStarts ==
  ASSUME NEW c \in Columns, NEW cs \in Seq(Columns), NEW y \in Seq(Tokens),
         RestColumns(y, Append(cs, c))
  PROVE  /\ ColumnText(c) \o y \in Seq(Tokens)
         /\ RestColumn(ColumnText(c) \o y, cs)
<1>1. PICK n \in Names, w \in {"int", "string"}, p \in BOOLEAN :
        c = [name |-> n, type |-> w, primary |-> p]
  BY DEF Columns
<1>2. /\ ColumnText(c) \in Seq(Tokens)
      /\ ~p => ColumnText(c) = <<Id(n), Word(w)>>
      /\ p => ColumnText(c) = <<Id(n), Word(w), Word("primary")>>
  BY <1>1, ColumnTextIs
<1> DEFINE d == [name |-> n, type |-> "none", primary |-> FALSE]
           e == [name |-> n, type |-> w, primary |-> FALSE]
           g == [name |-> n, type |-> w, primary |-> TRUE]
<1>3. d \in Building /\ e \in Building /\ g \in Building /\ cs \in Seq(Building)
  BY ColumnsBuild DEF Building
<1>4. Typed(Started(cs, n), w) = Append(cs, e)
  <2>1. PICK b : b = Append(cs, d)
    OBVIOUS
  <2>2. \A p1 : [[name |-> n, type |-> "none", primary |-> p1] EXCEPT !.type = w] =
                  [name |-> n, type |-> w, primary |-> p1]
    OBVIOUS
  <2>3. [d EXCEPT !.type = w] = e
    BY <2>2, Zenon
  <2> HIDE DEF d, e
  <2>4. [b EXCEPT ![Len(b)] = e] = Append(cs, e) /\ b[Len(b)] = d
    BY <1>3, <2>1, LastExcept, SMTT(30)
  <2>5. Typed(b, w) = Append(cs, e)
    BY <2>3, <2>4 DEF Typed
  <2> QED BY <2>1, <2>5 DEF Started, d
<1>5. Keyed(Append(cs, e)) = Append(cs, g)
  <2>1. PICK b : b = Append(cs, e)
    OBVIOUS
  <2>2. \A q, s : [[name |-> n, type |-> w, primary |-> q] EXCEPT !.primary = s] =
                    [name |-> n, type |-> w, primary |-> s]
    OBVIOUS
  <2>3. [e EXCEPT !.primary = TRUE] = g
    BY <2>2, Zenon
  <2> HIDE DEF e, g
  <2>4. [b EXCEPT ![Len(b)] = g] = Append(cs, g) /\ b[Len(b)] = e
    BY <1>3, <2>1, LastExcept, SMTT(30)
  <2>5. Keyed(b) = Append(cs, g)
    BY <2>3, <2>4 DEF Keyed
  <2> QED BY <2>1, <2>5
<1>6. (p => c = g) /\ (~p => c = e)
  BY <1>1
<1>7. Id(n) \in Tokens /\ Word(w) \in Tokens /\ Word("primary") \in Tokens
  BY TokenTypes DEF Words
<1> HIDE DEF d, e, g
<1> DEFINE k == IF p THEN Then(Word("primary"), y) ELSE y
<1>8. k \in Seq(Tokens) /\ RestKey(k, Append(cs, e))
  <2>1. CASE p
    <3>1. Then(Word("primary"), y) \in Seq(Tokens)
      BY <1>7, ThenFacts
    <3>2. RestColumns(y, Keyed(Append(cs, e)))
      BY <1>5, <1>6, <2>1
    <3> QED BY <2>1, <3>1, <3>2 DEF RestKey
  <2>2. CASE ~p
    <3>1. RestColumns(y, Append(cs, e))
      BY <1>6, <2>2
    <3> QED BY <2>2, <3>1 DEF RestKey
  <2> QED BY <2>1, <2>2
<1>9. ColumnText(c) \o y = Then(Id(n), Then(Word(w), k))
  <2>1. p => <<Id(n), Word(w), Word("primary")>> \o y =
                Then(Id(n), Then(Word(w), Then(Word("primary"), y)))
    BY <1>7, ThenThree
  <2>2. ~p => <<Id(n), Word(w)>> \o y = Then(Id(n), Then(Word(w), y))
    BY <1>7, ThenTwo
  <2> QED BY <1>2, <2>1, <2>2
<1> HIDE DEF k
<1>10. Then(Word(w), k) \in Seq(Tokens) /\ RestType(Then(Word(w), k), Started(cs, n))
  <2>1. RestKey(k, Typed(Started(cs, n), w))
    BY <1>4, <1>8
  <2> QED BY <1>7, <1>8, <2>1, ThenFacts DEF RestType
<1>11. RestColumn(Then(Id(n), Then(Word(w), k)), cs)
  BY <1>10 DEF RestColumn
<1> QED BY <1>7, <1>9, <1>10, <1>11, ThenFacts

\* A list that is not empty has a first element.
LEMMA FirstOf ==
  ASSUME NEW S, NEW s \in Seq(S), s # <<>>
  PROVE  \E e \in S, q \in Seq(S) : s = <<e>> \o q
<1>1. Len(s) \in Nat \ {0}
  BY EmptySeq
<1>2. s[1] \in S /\ \A i \in 2..Len(s) : s[i] \in S
  BY <1>1, ElementOfSeq
<1>3. SubSeq(s, 2, Len(s)) \in Seq(S)
  BY <1>1, <1>2, SubSeqProperties
<1>4. SubSeq(s, 1, Len(s)) = <<s[1]>> \o SubSeq(s, 1 + 1, Len(s))
  <2>1. 1 \in 1..Len(s) /\ Len(s) \in 1..Len(s)
    BY <1>1
  <2> QED BY <2>1, SubSeqRecursiveFirst
<1>5. SubSeq(s, 1, Len(s)) = s
  BY SubSeqFull
<1>6. s = <<s[1]>> \o SubSeq(s, 2, Len(s))
  BY <1>4, <1>5
<1> QED BY <1>2, <1>3, <1>6

\* An element between two lists belongs to either.
LEMMA Between ==
  ASSUME NEW S, NEW p \in Seq(S), NEW e \in S, NEW q \in Seq(S)
  PROVE  p \o (<<e>> \o q) = Append(p, e) \o q
<1>1. <<e>> \in Seq(S)
  OBVIOUS
<1>2. Append(p, e) = p \o <<e>>
  BY AppendIsConcat
<1>3. (p \o <<e>>) \o q = p \o (<<e>> \o q)
  BY <1>1, ConcatAssociative
<1> QED BY <1>2, <1>3

\* Behind the first token.
LEMMA ThenTail ==
  ASSUME NEW t \in Tokens, NEW r \in Seq(Tokens)
  PROVE  Tail(Then(t, r)) = r
<1>1. PICK a : a = Then(t, r)
  OBVIOUS
<1>2. /\ a \in Seq(Tokens) /\ a # <<>> /\ Len(a) = Len(r) + 1
      /\ \A i \in 1..Len(r) : a[i + 1] = r[i]
  BY <1>1, ThenFacts, Zenon
<1>3. Len(r) \in Nat
  BY LenProperties
<1>4. PICK b : b = Tail(a)
  OBVIOUS
<1>5. /\ b \in Seq(Tokens) /\ Len(b) = Len(a) - 1
      /\ \A i \in 1..Len(b) : b[i] = a[i + 1]
  BY <1>2, <1>4, HeadTailProperties
<1>6. Len(b) = Len(r) /\ \A i \in 1..Len(b) : b[i] = r[i]
  BY <1>2, <1>3, <1>5
<1>7. b = r
  BY <1>5, <1>6, SeqEqual
<1> QED BY <1>1, <1>4, <1>7

\* The list of columns goes on with its end, or with a comma and a column.
LEMMA ColumnsGoOn ==
  ASSUME NEW cs \in Seq(Columns), NEW r, RestColumns(r, cs)
  PROVE  \/ OneKey(cs) /\ \E z \in Endings : r = Then(Word(")"), z)
         \/ \E z \in Seq(Tokens) : r = Then(Word("comma"), z) /\ RestColumn(z, cs)
<1>1. PICK ds \in Seq(Columns), z \in Endings :
        r = ColumnsLeft(ds) \o Then(Word(")"), z) /\ OneKey(cs \o ds)
  BY DEF RestColumns
<1> DEFINE end == Then(Word(")"), z)
<1>2. end \in Seq(Tokens)
  BY EndingsAre
<1> HIDE DEF end
<1>3. CASE ds = <<>>
  <2>1. cs \o ds = cs
    BY <1>3, ConcatEmptySeq
  <2>2. <<>> \o end = end
    BY <1>2, ConcatEmptySeq
  <2>3. r = Then(Word(")"), z)
    BY <1>1, <1>3, <2>2, NoneLeft DEF end
  <2> QED BY <1>1, <2>1, <2>3
<1>4. CASE ds # <<>>
  <2>1. PICK c \in Columns, es \in Seq(Columns) : ds = <<c>> \o es
    BY <1>4, FirstOf
  <2> DEFINE left == ColumnsLeft(es)
             text == ColumnText(c)
             y == left \o end
  <2>2. left \in Seq(Tokens) /\ text \in Seq(Tokens) /\ Word("comma") \in Tokens
    BY ColumnsInFront, ColumnTextTokens, TokenTypes
  <2>3. ColumnsLeft(ds) = Then(Word("comma"), text) \o left
    BY <2>1, ColumnsInFront
  <2> HIDE DEF left, text
  <2>4. y \in Seq(Tokens) /\ Then(Word("comma"), text) \in Seq(Tokens)
    BY <1>2, <2>2, ConcatProperties, ThenFacts
  <2>5. (Then(Word("comma"), text) \o left) \o end = Then(Word("comma"), text) \o y
    BY <1>2, <2>2, <2>4, ConcatAssociative, SMTT(30)
  <2> HIDE DEF y
  <2>6. Then(Word("comma"), text) \o y = Then(Word("comma"), text \o y)
    BY <2>2, <2>4, ThenMore
  <2>7. r = Then(Word("comma"), text \o y)
    BY <1>1, <2>3, <2>5, <2>6 DEF end
  <2>8. RestColumns(y, Append(cs, c))
    <3>1. cs \o ds = Append(cs, c) \o es
      BY <2>1, Between
    <3>2. y = ColumnsLeft(es) \o Then(Word(")"), z)
      BY DEF y, left, end
    <3> QED BY <1>1, <3>1, <3>2 DEF RestColumns
  <2>9. text \o y \in Seq(Tokens) /\ RestColumn(text \o y, cs)
    BY <2>4, <2>8, ColumnStarts DEF text
  <2> QED BY <2>7, <2>9
<1> QED BY <1>3, <1>4

\* And the list of values.
LEMMA ValuesGoOn ==
  ASSUME NEW r, RestValues(r)
  PROVE  \/ \E z \in Endings : r = Then(Word(")"), z)
         \/ \E z \in Seq(Tokens) : r = Then(Word("comma"), z) /\ RestValue(z)
<1>1. PICK vs \in Seq(Literals), z \in Endings : r = ValuesLeft(vs) \o Then(Word(")"), z)
  BY DEF RestValues
<1> DEFINE end == Then(Word(")"), z)
<1>2. end \in Seq(Tokens)
  BY EndingsAre
<1> HIDE DEF end
<1>3. CASE vs = <<>>
  <2>1. <<>> \o end = end
    BY <1>2, ConcatEmptySeq
  <2>2. r = Then(Word(")"), z)
    BY <1>1, <1>3, <2>1, NoneLeft DEF end
  <2> QED BY <2>2
<1>4. CASE vs # <<>>
  <2>1. PICK v \in Literals, us \in Seq(Literals) : vs = <<v>> \o us
    BY <1>4, FirstOf
  <2> DEFINE left == ValuesLeft(us)
             y == left \o end
  <2>2. v \in Values /\ us \in Seq(Values) /\ v \in Tokens /\ Word("comma") \in Tokens
    <3>1. Literals \subseteq Values
      BY DEF Values
    <3> QED BY <3>1, SeqMonotonic, TokenTypes
  <2>3. ValueText(v) = <<v>> /\ <<v>> \in Seq(Tokens)
    BY <2>2, ValueTextTokens
  <2>4. left \in Seq(Tokens) /\ ValuesLeft(vs) = Then(Word("comma"), <<v>>) \o left
    BY <2>1, <2>2, <2>3, ValuesInFront
  <2> HIDE DEF left
  <2>5. y \in Seq(Tokens) /\ Then(Word("comma"), <<v>>) \in Seq(Tokens)
    BY <1>2, <2>2, <2>3, <2>4, ConcatProperties, ThenFacts
  <2>6. (Then(Word("comma"), <<v>>) \o left) \o end = Then(Word("comma"), <<v>>) \o y
    BY <1>2, <2>4, <2>5, ConcatAssociative
  <2>7. RestValues(y)
    BY DEF RestValues, y, left, end
  <2> HIDE DEF y
  <2>8. Then(Word("comma"), <<v>>) \o y = Then(Word("comma"), <<v>> \o y)
    BY <2>2, <2>3, <2>5, ThenMore
  <2>9. <<v>> \o y = Then(v, y) /\ Then(v, y) \in Seq(Tokens)
    BY <2>2, <2>5, ThenFacts DEF Then
  <2>10. r = Then(Word("comma"), Then(v, y))
    BY <1>1, <2>4, <2>6, <2>8, <2>9 DEF end
  <2>11. RestValue(Then(v, y))
    BY <2>5, <2>7 DEF RestValue
  <2> QED BY <2>9, <2>10, <2>11
<1> QED BY <1>3, <1>4

-----------------------------------------------------------------------------
(***************************************************************************)
(* A sentence of the grammar is never refused                              *)
(***************************************************************************)

\* Where the edges of one point lead, and that they are there.
Leads(E, a, k, b, p) ==
  /\ \E e \in E : e.from = a /\ e.on = k
  /\ \A e \in E : e.from = a /\ e.on = k => e.to = b /\ e.put = p

Starts(E, from) == \A e \in E : e.from \in from

\* Where the edges of each parse_ function start.
LEMMA EdgesStart ==
  /\ Starts(StatementEdges, {"start"})
  /\ Starts(CreateEdges, {"create", "create_database", "create_table", "columns",
       "column_end"})
  /\ Starts(ColumnEdges, {"first_column", "column", "column_type", "column_key"})
  /\ Starts(DropEdges, {"drop", "drop_database", "drop_table"})
  /\ Starts(UseEdges, {"use"})
  /\ Starts(SelectEdges, {"select", "select_from", "select_table"})
  /\ Starts(DeleteEdges, {"delete", "delete_table"})
  /\ Starts(InsertEdges, {"insert", "insert_table", "insert_values", "insert_list",
       "value_end"})
  /\ Starts(UpdateEdges, {"update", "update_set", "update_column", "update_eq"})
  /\ Starts(WhereEdges, {"tail", "where_column", "where_op"})
  /\ Starts(ValueEdges, {"first_value", "value", "set_value", "where_value"})
  /\ Starts(EndEdges, {"end"})
<1>1. Starts(StatementEdges, {"start"})
  BY DEF Starts, StatementEdges, Edge
<1>2. Starts(CreateEdges, {"create", "create_database", "create_table", "columns",
        "column_end"})
  BY DEF Starts, CreateEdges, Edge
<1>3. Starts(ColumnEdges, {"first_column", "column", "column_type", "column_key"})
  BY DEF Starts, ColumnEdges, Edge
<1>4. Starts(DropEdges, {"drop", "drop_database", "drop_table"})
  BY DEF Starts, DropEdges, Edge
<1>5. Starts(UseEdges, {"use"})
  BY DEF Starts, UseEdges, Edge
<1>6. Starts(SelectEdges, {"select", "select_from", "select_table"})
  BY DEF Starts, SelectEdges, Edge
<1>7. Starts(DeleteEdges, {"delete", "delete_table"})
  BY DEF Starts, DeleteEdges, Edge
<1>8. Starts(InsertEdges, {"insert", "insert_table", "insert_values", "insert_list",
        "value_end"})
  BY DEF Starts, InsertEdges, Edge
<1>9. Starts(UpdateEdges, {"update", "update_set", "update_column", "update_eq"})
  BY DEF Starts, UpdateEdges, Edge
<1>10. Starts(WhereEdges, {"tail", "where_column", "where_op"})
  BY DEF Starts, WhereEdges, Edge
<1>11. Starts(ValueEdges, {"first_value", "value", "set_value", "where_value"})
  BY DEF Starts, ValueEdges, Edge, ValuePoints
<1>12. Starts(EndEdges, {"end"})
  BY DEF Starts, EndEdges, Edge
<1> QED BY <1>1, <1>2, <1>3, <1>4, <1>5, <1>6, <1>7, <1>8, <1>9, <1>10, <1>11, <1>12

\* The edges of each parse_ function, one by one.
LEMMA StatementLeads ==
  /\ Leads(Edges, "start", "create", "create", "nothing")
  /\ Leads(Edges, "start", "drop", "drop", "nothing")
  /\ Leads(Edges, "start", "use", "use", "nothing")
  /\ Leads(Edges, "start", "select", "select", "nothing")
  /\ Leads(Edges, "start", "delete", "delete", "nothing")
  /\ Leads(Edges, "start", "insert", "insert", "nothing")
  /\ Leads(Edges, "start", "update", "update", "nothing")
<1>1. Leads(StatementEdges, "start", "create", "create", "nothing")
  <2>1. Edge("start", "create", "create", "nothing") \in StatementEdges
    BY DEF StatementEdges
  <2>2. \A e \in StatementEdges : e.from = "start" /\
          e.on = "create" => e.to = "create" /\ e.put = "nothing"
    BY DEF StatementEdges, Edge
  <2> QED BY <2>1, <2>2 DEF Leads, Edge
<1>2. Leads(StatementEdges, "start", "drop", "drop", "nothing")
  <2>1. Edge("start", "drop", "drop", "nothing") \in StatementEdges
    BY DEF StatementEdges
  <2>2. \A e \in StatementEdges : e.from = "start" /\ e.on = "drop" => e.to = "drop" /\
          e.put = "nothing"
    BY DEF StatementEdges, Edge
  <2> QED BY <2>1, <2>2 DEF Leads, Edge
<1>3. Leads(StatementEdges, "start", "use", "use", "nothing")
  <2>1. Edge("start", "use", "use", "nothing") \in StatementEdges
    BY DEF StatementEdges
  <2>2. \A e \in StatementEdges : e.from = "start" /\ e.on = "use" => e.to = "use" /\
          e.put = "nothing"
    BY DEF StatementEdges, Edge
  <2> QED BY <2>1, <2>2 DEF Leads, Edge
<1>4. Leads(StatementEdges, "start", "select", "select", "nothing")
  <2>1. Edge("start", "select", "select", "nothing") \in StatementEdges
    BY DEF StatementEdges
  <2>2. \A e \in StatementEdges : e.from = "start" /\
          e.on = "select" => e.to = "select" /\ e.put = "nothing"
    BY DEF StatementEdges, Edge
  <2> QED BY <2>1, <2>2 DEF Leads, Edge
<1>5. Leads(StatementEdges, "start", "delete", "delete", "nothing")
  <2>1. Edge("start", "delete", "delete", "nothing") \in StatementEdges
    BY DEF StatementEdges
  <2>2. \A e \in StatementEdges : e.from = "start" /\
          e.on = "delete" => e.to = "delete" /\ e.put = "nothing"
    BY DEF StatementEdges, Edge
  <2> QED BY <2>1, <2>2 DEF Leads, Edge
<1>6. Leads(StatementEdges, "start", "insert", "insert", "nothing")
  <2>1. Edge("start", "insert", "insert", "nothing") \in StatementEdges
    BY DEF StatementEdges
  <2>2. \A e \in StatementEdges : e.from = "start" /\
          e.on = "insert" => e.to = "insert" /\ e.put = "nothing"
    BY DEF StatementEdges, Edge
  <2> QED BY <2>1, <2>2 DEF Leads, Edge
<1>7. Leads(StatementEdges, "start", "update", "update", "nothing")
  <2>1. Edge("start", "update", "update", "nothing") \in StatementEdges
    BY DEF StatementEdges
  <2>2. \A e \in StatementEdges : e.from = "start" /\
          e.on = "update" => e.to = "update" /\ e.put = "nothing"
    BY DEF StatementEdges, Edge
  <2> QED BY <2>1, <2>2 DEF Leads, Edge
<1>8. StatementEdges \subseteq Edges
  BY DEF Edges
<1>9. \A e \in Edges : e.from \in {"start"} => e \in StatementEdges
  BY EdgesStart DEF Edges, Starts
<1> QED BY <1>1, <1>2, <1>3, <1>4, <1>5, <1>6, <1>7, <1>8, <1>9 DEF Leads

LEMMA CreateLeads ==
  /\ Leads(Edges, "create", "database", "create_database", "kind")
  /\ Leads(Edges, "create_database", "id", "end", "name")
  /\ Leads(Edges, "create", "table", "create_table", "kind")
  /\ Leads(Edges, "create_table", "id", "columns", "name")
  /\ Leads(Edges, "columns", "(", "first_column", "nothing")
  /\ Leads(Edges, "column_end", "comma", "column", "nothing")
  /\ Leads(Edges, "column_end", ")", "keys", "nothing")
<1>1. Leads(CreateEdges, "create", "database", "create_database", "kind")
  <2>1. Edge("create", "database", "create_database", "kind") \in CreateEdges
    BY DEF CreateEdges
  <2>2. \A e \in CreateEdges : e.from = "create" /\
          e.on = "database" => e.to = "create_database" /\ e.put = "kind"
    BY DEF CreateEdges, Edge
  <2> QED BY <2>1, <2>2 DEF Leads, Edge
<1>2. Leads(CreateEdges, "create_database", "id", "end", "name")
  <2>1. Edge("create_database", "id", "end", "name") \in CreateEdges
    BY DEF CreateEdges
  <2>2. \A e \in CreateEdges : e.from = "create_database" /\
          e.on = "id" => e.to = "end" /\ e.put = "name"
    BY DEF CreateEdges, Edge
  <2> QED BY <2>1, <2>2 DEF Leads, Edge
<1>3. Leads(CreateEdges, "create", "table", "create_table", "kind")
  <2>1. Edge("create", "table", "create_table", "kind") \in CreateEdges
    BY DEF CreateEdges
  <2>2. \A e \in CreateEdges : e.from = "create" /\
          e.on = "table" => e.to = "create_table" /\ e.put = "kind"
    BY DEF CreateEdges, Edge
  <2> QED BY <2>1, <2>2 DEF Leads, Edge
<1>4. Leads(CreateEdges, "create_table", "id", "columns", "name")
  <2>1. Edge("create_table", "id", "columns", "name") \in CreateEdges
    BY DEF CreateEdges
  <2>2. \A e \in CreateEdges : e.from = "create_table" /\
          e.on = "id" => e.to = "columns" /\ e.put = "name"
    BY DEF CreateEdges, Edge
  <2> QED BY <2>1, <2>2 DEF Leads, Edge
<1>5. Leads(CreateEdges, "columns", "(", "first_column", "nothing")
  <2>1. Edge("columns", "(", "first_column", "nothing") \in CreateEdges
    BY DEF CreateEdges
  <2>2. \A e \in CreateEdges : e.from = "columns" /\
          e.on = "(" => e.to = "first_column" /\ e.put = "nothing"
    BY DEF CreateEdges, Edge
  <2> QED BY <2>1, <2>2 DEF Leads, Edge
<1>6. Leads(CreateEdges, "column_end", "comma", "column", "nothing")
  <2>1. Edge("column_end", "comma", "column", "nothing") \in CreateEdges
    BY DEF CreateEdges
  <2>2. \A e \in CreateEdges : e.from = "column_end" /\
          e.on = "comma" => e.to = "column" /\ e.put = "nothing"
    BY DEF CreateEdges, Edge
  <2> QED BY <2>1, <2>2 DEF Leads, Edge
<1>7. Leads(CreateEdges, "column_end", ")", "keys", "nothing")
  <2>1. Edge("column_end", ")", "keys", "nothing") \in CreateEdges
    BY DEF CreateEdges
  <2>2. \A e \in CreateEdges : e.from = "column_end" /\ e.on = ")" => e.to = "keys" /\
          e.put = "nothing"
    BY DEF CreateEdges, Edge
  <2> QED BY <2>1, <2>2 DEF Leads, Edge
<1>8. CreateEdges \subseteq Edges
  BY DEF Edges
<1>9. \A e \in Edges : e.from \in {"create", "create_database", "create_table",
        "columns", "column_end"} => e \in CreateEdges
  BY EdgesStart DEF Edges, Starts
<1> QED BY <1>1, <1>2, <1>3, <1>4, <1>5, <1>6, <1>7, <1>8, <1>9 DEF Leads

LEMMA ColumnLeads ==
  /\ Leads(Edges, "first_column", "id", "column_type", "column")
  /\ Leads(Edges, "column", "id", "column_type", "column")
  /\ Leads(Edges, "column_type", "int", "column_key", "type")
  /\ Leads(Edges, "column_type", "string", "column_key", "type")
  /\ Leads(Edges, "column_key", "primary", "column_end", "primary")
<1>1. Leads(ColumnEdges, "first_column", "id", "column_type", "column")
  <2>1. Edge("first_column", "id", "column_type", "column") \in ColumnEdges
    BY DEF ColumnEdges
  <2>2. \A e \in ColumnEdges : e.from = "first_column" /\
          e.on = "id" => e.to = "column_type" /\ e.put = "column"
    BY DEF ColumnEdges, Edge
  <2> QED BY <2>1, <2>2 DEF Leads, Edge
<1>2. Leads(ColumnEdges, "column", "id", "column_type", "column")
  <2>1. Edge("column", "id", "column_type", "column") \in ColumnEdges
    BY DEF ColumnEdges
  <2>2. \A e \in ColumnEdges : e.from = "column" /\
          e.on = "id" => e.to = "column_type" /\ e.put = "column"
    BY DEF ColumnEdges, Edge
  <2> QED BY <2>1, <2>2 DEF Leads, Edge
<1>3. Leads(ColumnEdges, "column_type", "int", "column_key", "type")
  <2>1. Edge("column_type", "int", "column_key", "type") \in ColumnEdges
    BY DEF ColumnEdges
  <2>2. \A e \in ColumnEdges : e.from = "column_type" /\
          e.on = "int" => e.to = "column_key" /\ e.put = "type"
    BY DEF ColumnEdges, Edge
  <2> QED BY <2>1, <2>2 DEF Leads, Edge
<1>4. Leads(ColumnEdges, "column_type", "string", "column_key", "type")
  <2>1. Edge("column_type", "string", "column_key", "type") \in ColumnEdges
    BY DEF ColumnEdges
  <2>2. \A e \in ColumnEdges : e.from = "column_type" /\
          e.on = "string" => e.to = "column_key" /\ e.put = "type"
    BY DEF ColumnEdges, Edge
  <2> QED BY <2>1, <2>2 DEF Leads, Edge
<1>5. Leads(ColumnEdges, "column_key", "primary", "column_end", "primary")
  <2>1. Edge("column_key", "primary", "column_end", "primary") \in ColumnEdges
    BY DEF ColumnEdges
  <2>2. \A e \in ColumnEdges : e.from = "column_key" /\
          e.on = "primary" => e.to = "column_end" /\ e.put = "primary"
    BY DEF ColumnEdges, Edge
  <2> QED BY <2>1, <2>2 DEF Leads, Edge
<1>6. ColumnEdges \subseteq Edges
  BY DEF Edges
<1>7. \A e \in Edges : e.from \in {"first_column", "column", "column_type",
        "column_key"} => e \in ColumnEdges
  BY EdgesStart DEF Edges, Starts
<1> QED BY <1>1, <1>2, <1>3, <1>4, <1>5, <1>6, <1>7 DEF Leads

LEMMA DropLeads ==
  /\ Leads(Edges, "drop", "database", "drop_database", "kind")
  /\ Leads(Edges, "drop_database", "id", "end", "name")
  /\ Leads(Edges, "drop", "table", "drop_table", "kind")
  /\ Leads(Edges, "drop_table", "id", "end", "name")
<1>1. Leads(DropEdges, "drop", "database", "drop_database", "kind")
  <2>1. Edge("drop", "database", "drop_database", "kind") \in DropEdges
    BY DEF DropEdges
  <2>2. \A e \in DropEdges : e.from = "drop" /\
          e.on = "database" => e.to = "drop_database" /\ e.put = "kind"
    BY DEF DropEdges, Edge
  <2> QED BY <2>1, <2>2 DEF Leads, Edge
<1>2. Leads(DropEdges, "drop_database", "id", "end", "name")
  <2>1. Edge("drop_database", "id", "end", "name") \in DropEdges
    BY DEF DropEdges
  <2>2. \A e \in DropEdges : e.from = "drop_database" /\ e.on = "id" => e.to = "end" /\
          e.put = "name"
    BY DEF DropEdges, Edge
  <2> QED BY <2>1, <2>2 DEF Leads, Edge
<1>3. Leads(DropEdges, "drop", "table", "drop_table", "kind")
  <2>1. Edge("drop", "table", "drop_table", "kind") \in DropEdges
    BY DEF DropEdges
  <2>2. \A e \in DropEdges : e.from = "drop" /\ e.on = "table" => e.to = "drop_table" /\
          e.put = "kind"
    BY DEF DropEdges, Edge
  <2> QED BY <2>1, <2>2 DEF Leads, Edge
<1>4. Leads(DropEdges, "drop_table", "id", "end", "name")
  <2>1. Edge("drop_table", "id", "end", "name") \in DropEdges
    BY DEF DropEdges
  <2>2. \A e \in DropEdges : e.from = "drop_table" /\ e.on = "id" => e.to = "end" /\
          e.put = "name"
    BY DEF DropEdges, Edge
  <2> QED BY <2>1, <2>2 DEF Leads, Edge
<1>5. DropEdges \subseteq Edges
  BY DEF Edges
<1>6. \A e \in Edges : e.from \in {"drop", "drop_database", "drop_table"} => e \in DropEdges
  BY EdgesStart DEF Edges, Starts
<1> QED BY <1>1, <1>2, <1>3, <1>4, <1>5, <1>6 DEF Leads

LEMMA UseLeads ==
  /\ Leads(Edges, "use", "id", "end", "name")
<1>1. Leads(UseEdges, "use", "id", "end", "name")
  <2>1. Edge("use", "id", "end", "name") \in UseEdges
    BY DEF UseEdges
  <2>2. \A e \in UseEdges : e.from = "use" /\ e.on = "id" => e.to = "end" /\ e.put = "name"
    BY DEF UseEdges, Edge
  <2> QED BY <2>1, <2>2 DEF Leads, Edge
<1>2. UseEdges \subseteq Edges
  BY DEF Edges
<1>3. \A e \in Edges : e.from \in {"use"} => e \in UseEdges
  BY EdgesStart DEF Edges, Starts
<1> QED BY <1>1, <1>2, <1>3 DEF Leads

LEMMA SelectLeads ==
  /\ Leads(Edges, "select", "id", "select_from", "target")
  /\ Leads(Edges, "select", "*", "select_from", "target")
  /\ Leads(Edges, "select_from", "from", "select_table", "nothing")
  /\ Leads(Edges, "select_table", "id", "tail", "name")
<1>1. Leads(SelectEdges, "select", "id", "select_from", "target")
  <2>1. Edge("select", "id", "select_from", "target") \in SelectEdges
    BY DEF SelectEdges
  <2>2. \A e \in SelectEdges : e.from = "select" /\
          e.on = "id" => e.to = "select_from" /\ e.put = "target"
    BY DEF SelectEdges, Edge
  <2> QED BY <2>1, <2>2 DEF Leads, Edge
<1>2. Leads(SelectEdges, "select", "*", "select_from", "target")
  <2>1. Edge("select", "*", "select_from", "target") \in SelectEdges
    BY DEF SelectEdges
  <2>2. \A e \in SelectEdges : e.from = "select" /\
          e.on = "*" => e.to = "select_from" /\ e.put = "target"
    BY DEF SelectEdges, Edge
  <2> QED BY <2>1, <2>2 DEF Leads, Edge
<1>3. Leads(SelectEdges, "select_from", "from", "select_table", "nothing")
  <2>1. Edge("select_from", "from", "select_table", "nothing") \in SelectEdges
    BY DEF SelectEdges
  <2>2. \A e \in SelectEdges : e.from = "select_from" /\
          e.on = "from" => e.to = "select_table" /\ e.put = "nothing"
    BY DEF SelectEdges, Edge
  <2> QED BY <2>1, <2>2 DEF Leads, Edge
<1>4. Leads(SelectEdges, "select_table", "id", "tail", "name")
  <2>1. Edge("select_table", "id", "tail", "name") \in SelectEdges
    BY DEF SelectEdges
  <2>2. \A e \in SelectEdges : e.from = "select_table" /\
          e.on = "id" => e.to = "tail" /\ e.put = "name"
    BY DEF SelectEdges, Edge
  <2> QED BY <2>1, <2>2 DEF Leads, Edge
<1>5. SelectEdges \subseteq Edges
  BY DEF Edges
<1>6. \A e \in Edges : e.from \in {"select", "select_from",
        "select_table"} => e \in SelectEdges
  BY EdgesStart DEF Edges, Starts
<1> QED BY <1>1, <1>2, <1>3, <1>4, <1>5, <1>6 DEF Leads

LEMMA DeleteLeads ==
  /\ Leads(Edges, "delete", "from", "delete_table", "nothing")
  /\ Leads(Edges, "delete_table", "id", "tail", "name")
<1>1. Leads(DeleteEdges, "delete", "from", "delete_table", "nothing")
  <2>1. Edge("delete", "from", "delete_table", "nothing") \in DeleteEdges
    BY DEF DeleteEdges
  <2>2. \A e \in DeleteEdges : e.from = "delete" /\
          e.on = "from" => e.to = "delete_table" /\ e.put = "nothing"
    BY DEF DeleteEdges, Edge
  <2> QED BY <2>1, <2>2 DEF Leads, Edge
<1>2. Leads(DeleteEdges, "delete_table", "id", "tail", "name")
  <2>1. Edge("delete_table", "id", "tail", "name") \in DeleteEdges
    BY DEF DeleteEdges
  <2>2. \A e \in DeleteEdges : e.from = "delete_table" /\
          e.on = "id" => e.to = "tail" /\ e.put = "name"
    BY DEF DeleteEdges, Edge
  <2> QED BY <2>1, <2>2 DEF Leads, Edge
<1>3. DeleteEdges \subseteq Edges
  BY DEF Edges
<1>4. \A e \in Edges : e.from \in {"delete", "delete_table"} => e \in DeleteEdges
  BY EdgesStart DEF Edges, Starts
<1> QED BY <1>1, <1>2, <1>3, <1>4 DEF Leads

LEMMA InsertLeads ==
  /\ Leads(Edges, "insert", "into", "insert_table", "nothing")
  /\ Leads(Edges, "insert_table", "id", "insert_values", "name")
  /\ Leads(Edges, "insert_values", "values", "insert_list", "nothing")
  /\ Leads(Edges, "insert_list", "(", "first_value", "nothing")
  /\ Leads(Edges, "value_end", "comma", "value", "nothing")
  /\ Leads(Edges, "value_end", ")", "end", "nothing")
<1>1. Leads(InsertEdges, "insert", "into", "insert_table", "nothing")
  <2>1. Edge("insert", "into", "insert_table", "nothing") \in InsertEdges
    BY DEF InsertEdges
  <2>2. \A e \in InsertEdges : e.from = "insert" /\
          e.on = "into" => e.to = "insert_table" /\ e.put = "nothing"
    BY DEF InsertEdges, Edge
  <2> QED BY <2>1, <2>2 DEF Leads, Edge
<1>2. Leads(InsertEdges, "insert_table", "id", "insert_values", "name")
  <2>1. Edge("insert_table", "id", "insert_values", "name") \in InsertEdges
    BY DEF InsertEdges
  <2>2. \A e \in InsertEdges : e.from = "insert_table" /\
          e.on = "id" => e.to = "insert_values" /\ e.put = "name"
    BY DEF InsertEdges, Edge
  <2> QED BY <2>1, <2>2 DEF Leads, Edge
<1>3. Leads(InsertEdges, "insert_values", "values", "insert_list", "nothing")
  <2>1. Edge("insert_values", "values", "insert_list", "nothing") \in InsertEdges
    BY DEF InsertEdges
  <2>2. \A e \in InsertEdges : e.from = "insert_values" /\
          e.on = "values" => e.to = "insert_list" /\ e.put = "nothing"
    BY DEF InsertEdges, Edge
  <2> QED BY <2>1, <2>2 DEF Leads, Edge
<1>4. Leads(InsertEdges, "insert_list", "(", "first_value", "nothing")
  <2>1. Edge("insert_list", "(", "first_value", "nothing") \in InsertEdges
    BY DEF InsertEdges
  <2>2. \A e \in InsertEdges : e.from = "insert_list" /\
          e.on = "(" => e.to = "first_value" /\ e.put = "nothing"
    BY DEF InsertEdges, Edge
  <2> QED BY <2>1, <2>2 DEF Leads, Edge
<1>5. Leads(InsertEdges, "value_end", "comma", "value", "nothing")
  <2>1. Edge("value_end", "comma", "value", "nothing") \in InsertEdges
    BY DEF InsertEdges
  <2>2. \A e \in InsertEdges : e.from = "value_end" /\
          e.on = "comma" => e.to = "value" /\ e.put = "nothing"
    BY DEF InsertEdges, Edge
  <2> QED BY <2>1, <2>2 DEF Leads, Edge
<1>6. Leads(InsertEdges, "value_end", ")", "end", "nothing")
  <2>1. Edge("value_end", ")", "end", "nothing") \in InsertEdges
    BY DEF InsertEdges
  <2>2. \A e \in InsertEdges : e.from = "value_end" /\ e.on = ")" => e.to = "end" /\
          e.put = "nothing"
    BY DEF InsertEdges, Edge
  <2> QED BY <2>1, <2>2 DEF Leads, Edge
<1>7. InsertEdges \subseteq Edges
  BY DEF Edges
<1>8. \A e \in Edges : e.from \in {"insert", "insert_table", "insert_values",
        "insert_list", "value_end"} => e \in InsertEdges
  BY EdgesStart DEF Edges, Starts
<1> QED BY <1>1, <1>2, <1>3, <1>4, <1>5, <1>6, <1>7, <1>8 DEF Leads

LEMMA UpdateLeads ==
  /\ Leads(Edges, "update", "id", "update_set", "name")
  /\ Leads(Edges, "update_set", "set", "update_column", "nothing")
  /\ Leads(Edges, "update_column", "id", "update_eq", "target")
  /\ Leads(Edges, "update_eq", "=", "set_value", "nothing")
<1>1. Leads(UpdateEdges, "update", "id", "update_set", "name")
  <2>1. Edge("update", "id", "update_set", "name") \in UpdateEdges
    BY DEF UpdateEdges
  <2>2. \A e \in UpdateEdges : e.from = "update" /\
          e.on = "id" => e.to = "update_set" /\ e.put = "name"
    BY DEF UpdateEdges, Edge
  <2> QED BY <2>1, <2>2 DEF Leads, Edge
<1>2. Leads(UpdateEdges, "update_set", "set", "update_column", "nothing")
  <2>1. Edge("update_set", "set", "update_column", "nothing") \in UpdateEdges
    BY DEF UpdateEdges
  <2>2. \A e \in UpdateEdges : e.from = "update_set" /\
          e.on = "set" => e.to = "update_column" /\ e.put = "nothing"
    BY DEF UpdateEdges, Edge
  <2> QED BY <2>1, <2>2 DEF Leads, Edge
<1>3. Leads(UpdateEdges, "update_column", "id", "update_eq", "target")
  <2>1. Edge("update_column", "id", "update_eq", "target") \in UpdateEdges
    BY DEF UpdateEdges
  <2>2. \A e \in UpdateEdges : e.from = "update_column" /\
          e.on = "id" => e.to = "update_eq" /\ e.put = "target"
    BY DEF UpdateEdges, Edge
  <2> QED BY <2>1, <2>2 DEF Leads, Edge
<1>4. Leads(UpdateEdges, "update_eq", "=", "set_value", "nothing")
  <2>1. Edge("update_eq", "=", "set_value", "nothing") \in UpdateEdges
    BY DEF UpdateEdges
  <2>2. \A e \in UpdateEdges : e.from = "update_eq" /\
          e.on = "=" => e.to = "set_value" /\ e.put = "nothing"
    BY DEF UpdateEdges, Edge
  <2> QED BY <2>1, <2>2 DEF Leads, Edge
<1>5. UpdateEdges \subseteq Edges
  BY DEF Edges
<1>6. \A e \in Edges : e.from \in {"update", "update_set", "update_column",
        "update_eq"} => e \in UpdateEdges
  BY EdgesStart DEF Edges, Starts
<1> QED BY <1>1, <1>2, <1>3, <1>4, <1>5, <1>6 DEF Leads

LEMMA WhereLeads ==
  /\ Leads(Edges, "tail", "where", "where_column", "nothing")
  /\ Leads(Edges, "where_column", "id", "where_op", "where_column")
  /\ Leads(Edges, "where_op", "=", "where_value", "where_op")
  /\ Leads(Edges, "where_op", "<", "where_value", "where_op")
  /\ Leads(Edges, "where_op", ">", "where_value", "where_op")
<1>1. Leads(WhereEdges, "tail", "where", "where_column", "nothing")
  <2>1. Edge("tail", "where", "where_column", "nothing") \in WhereEdges
    BY DEF WhereEdges
  <2>2. \A e \in WhereEdges : e.from = "tail" /\
          e.on = "where" => e.to = "where_column" /\ e.put = "nothing"
    BY DEF WhereEdges, Edge
  <2> QED BY <2>1, <2>2 DEF Leads, Edge
<1>2. Leads(WhereEdges, "where_column", "id", "where_op", "where_column")
  <2>1. Edge("where_column", "id", "where_op", "where_column") \in WhereEdges
    BY DEF WhereEdges
  <2>2. \A e \in WhereEdges : e.from = "where_column" /\
          e.on = "id" => e.to = "where_op" /\ e.put = "where_column"
    BY DEF WhereEdges, Edge
  <2> QED BY <2>1, <2>2 DEF Leads, Edge
<1>3. Leads(WhereEdges, "where_op", "=", "where_value", "where_op")
  <2>1. Edge("where_op", "=", "where_value", "where_op") \in WhereEdges
    BY DEF WhereEdges
  <2>2. \A e \in WhereEdges : e.from = "where_op" /\
          e.on = "=" => e.to = "where_value" /\ e.put = "where_op"
    BY DEF WhereEdges, Edge
  <2> QED BY <2>1, <2>2 DEF Leads, Edge
<1>4. Leads(WhereEdges, "where_op", "<", "where_value", "where_op")
  <2>1. Edge("where_op", "<", "where_value", "where_op") \in WhereEdges
    BY DEF WhereEdges
  <2>2. \A e \in WhereEdges : e.from = "where_op" /\
          e.on = "<" => e.to = "where_value" /\ e.put = "where_op"
    BY DEF WhereEdges, Edge
  <2> QED BY <2>1, <2>2 DEF Leads, Edge
<1>5. Leads(WhereEdges, "where_op", ">", "where_value", "where_op")
  <2>1. Edge("where_op", ">", "where_value", "where_op") \in WhereEdges
    BY DEF WhereEdges
  <2>2. \A e \in WhereEdges : e.from = "where_op" /\
          e.on = ">" => e.to = "where_value" /\ e.put = "where_op"
    BY DEF WhereEdges, Edge
  <2> QED BY <2>1, <2>2 DEF Leads, Edge
<1>6. WhereEdges \subseteq Edges
  BY DEF Edges
<1>7. \A e \in Edges : e.from \in {"tail", "where_column", "where_op"} => e \in WhereEdges
  BY EdgesStart DEF Edges, Starts
<1> QED BY <1>1, <1>2, <1>3, <1>4, <1>5, <1>6, <1>7 DEF Leads

LEMMA ValueLeads ==
  /\ Leads(Edges, "first_value", "intlit", "value_end", "value")
  /\ Leads(Edges, "first_value", "strlit", "value_end", "value")
  /\ Leads(Edges, "value", "intlit", "value_end", "value")
  /\ Leads(Edges, "value", "strlit", "value_end", "value")
  /\ Leads(Edges, "set_value", "intlit", "tail", "value")
  /\ Leads(Edges, "set_value", "strlit", "tail", "value")
  /\ Leads(Edges, "where_value", "intlit", "end", "where_value")
  /\ Leads(Edges, "where_value", "strlit", "end", "where_value")
<1>1. Leads(ValueEdges, "first_value", "intlit", "value_end", "value")
  <2>1. PICK p \in ValuePoints : p[1] = "first_value" /\ p[2] = "value_end"
    BY DEF ValuePoints
  <2>2. Edge("first_value", "intlit", "value_end", "value") \in ValueEdges
    BY <2>1 DEF ValueEdges
  <2>3. \A e \in ValueEdges : e.from = "first_value" /\
          e.on = "intlit" => e.to = "value_end" /\ e.put = "value"
    BY DEF ValueEdges, ValuePoints, Edge
  <2> QED BY <2>2, <2>3 DEF Leads, Edge
<1>2. Leads(ValueEdges, "first_value", "strlit", "value_end", "value")
  <2>1. PICK p \in ValuePoints : p[1] = "first_value" /\ p[2] = "value_end"
    BY DEF ValuePoints
  <2>2. Edge("first_value", "strlit", "value_end", "value") \in ValueEdges
    BY <2>1 DEF ValueEdges
  <2>3. \A e \in ValueEdges : e.from = "first_value" /\
          e.on = "strlit" => e.to = "value_end" /\ e.put = "value"
    BY DEF ValueEdges, ValuePoints, Edge
  <2> QED BY <2>2, <2>3 DEF Leads, Edge
<1>3. Leads(ValueEdges, "value", "intlit", "value_end", "value")
  <2>1. PICK p \in ValuePoints : p[1] = "value" /\ p[2] = "value_end"
    BY DEF ValuePoints
  <2>2. Edge("value", "intlit", "value_end", "value") \in ValueEdges
    BY <2>1 DEF ValueEdges
  <2>3. \A e \in ValueEdges : e.from = "value" /\
          e.on = "intlit" => e.to = "value_end" /\ e.put = "value"
    BY DEF ValueEdges, ValuePoints, Edge
  <2> QED BY <2>2, <2>3 DEF Leads, Edge
<1>4. Leads(ValueEdges, "value", "strlit", "value_end", "value")
  <2>1. PICK p \in ValuePoints : p[1] = "value" /\ p[2] = "value_end"
    BY DEF ValuePoints
  <2>2. Edge("value", "strlit", "value_end", "value") \in ValueEdges
    BY <2>1 DEF ValueEdges
  <2>3. \A e \in ValueEdges : e.from = "value" /\
          e.on = "strlit" => e.to = "value_end" /\ e.put = "value"
    BY DEF ValueEdges, ValuePoints, Edge
  <2> QED BY <2>2, <2>3 DEF Leads, Edge
<1>5. Leads(ValueEdges, "set_value", "intlit", "tail", "value")
  <2>1. PICK p \in ValuePoints : p[1] = "set_value" /\ p[2] = "tail"
    BY DEF ValuePoints
  <2>2. Edge("set_value", "intlit", "tail", "value") \in ValueEdges
    BY <2>1 DEF ValueEdges
  <2>3. \A e \in ValueEdges : e.from = "set_value" /\
          e.on = "intlit" => e.to = "tail" /\ e.put = "value"
    BY DEF ValueEdges, ValuePoints, Edge
  <2> QED BY <2>2, <2>3 DEF Leads, Edge
<1>6. Leads(ValueEdges, "set_value", "strlit", "tail", "value")
  <2>1. PICK p \in ValuePoints : p[1] = "set_value" /\ p[2] = "tail"
    BY DEF ValuePoints
  <2>2. Edge("set_value", "strlit", "tail", "value") \in ValueEdges
    BY <2>1 DEF ValueEdges
  <2>3. \A e \in ValueEdges : e.from = "set_value" /\
          e.on = "strlit" => e.to = "tail" /\ e.put = "value"
    BY DEF ValueEdges, ValuePoints, Edge
  <2> QED BY <2>2, <2>3 DEF Leads, Edge
<1>7. Leads(ValueEdges, "where_value", "intlit", "end", "where_value")
  <2>1. PICK p \in ValuePoints : p[1] = "where_value" /\ p[2] = "end"
    BY DEF ValuePoints
  <2>2. Edge("where_value", "intlit", "end", "where_value") \in ValueEdges
    BY <2>1 DEF ValueEdges
  <2>3. \A e \in ValueEdges : e.from = "where_value" /\
          e.on = "intlit" => e.to = "end" /\ e.put = "where_value"
    BY DEF ValueEdges, ValuePoints, Edge
  <2> QED BY <2>2, <2>3 DEF Leads, Edge
<1>8. Leads(ValueEdges, "where_value", "strlit", "end", "where_value")
  <2>1. PICK p \in ValuePoints : p[1] = "where_value" /\ p[2] = "end"
    BY DEF ValuePoints
  <2>2. Edge("where_value", "strlit", "end", "where_value") \in ValueEdges
    BY <2>1 DEF ValueEdges
  <2>3. \A e \in ValueEdges : e.from = "where_value" /\
          e.on = "strlit" => e.to = "end" /\ e.put = "where_value"
    BY DEF ValueEdges, ValuePoints, Edge
  <2> QED BY <2>2, <2>3 DEF Leads, Edge
<1>9. ValueEdges \subseteq Edges
  BY DEF Edges
<1>10. \A e \in Edges : e.from \in {"first_value", "value", "set_value",
         "where_value"} => e \in ValueEdges
  BY EdgesStart DEF Edges, Starts
<1> QED BY <1>1, <1>2, <1>3, <1>4, <1>5, <1>6, <1>7, <1>8, <1>9, <1>10 DEF Leads

LEMMA EndLeads ==
  /\ Leads(Edges, "end", "semicolon", "accepted", "nothing")
<1>1. Leads(EndEdges, "end", "semicolon", "accepted", "nothing")
  <2>1. Edge("end", "semicolon", "accepted", "nothing") \in EndEdges
    BY DEF EndEdges
  <2>2. \A e \in EndEdges : e.from = "end" /\ e.on = "semicolon" => e.to = "accepted" /\
          e.put = "nothing"
    BY DEF EndEdges, Edge
  <2> QED BY <2>1, <2>2 DEF Leads, Edge
<1>2. EndEdges \subseteq Edges
  BY DEF Edges
<1>3. \A e \in Edges : e.from \in {"end"} => e \in EndEdges
  BY EdgesStart DEF Edges, Starts
<1> QED BY <1>1, <1>2, <1>3 DEF Leads

\* From point a, the token t leads on, and z is what is then left to read.
Goes(a, t, z) ==
  /\ \E e \in Edges : e.from = a /\ e.on = t.kind
  /\ \A e \in Edges : e.from = a /\ e.on = t.kind => Ahead(e.to, z, Put(e, t))

Proceeds(a, r) == \E t \in Tokens, z \in Seq(Tokens) : r = Then(t, z) /\ Goes(a, t, z)

\* Off the list of columns, what is left depends on the point alone.
LEMMA Proceed ==
  ASSUME NEW a, NEW t \in Tokens, NEW z \in Seq(Tokens), NEW b, NEW p,
         Leads(Edges, a, t.kind, b, p), \A st : Ahead(b, z, st)
  PROVE  Proceeds(a, Then(t, z)) /\ Goes(a, t, z)
  BY DEF Proceeds, Goes, Leads

\* The token that leads on may be a word, a name or a literal.
LEMMA ProceedWord ==
  ASSUME NEW a, NEW w \in Words, NEW z \in Seq(Tokens), NEW b, NEW p,
         Leads(Edges, a, w, b, p), \A st : Ahead(b, z, st)
  PROVE  Proceeds(a, Then(Word(w), z)) /\ Goes(a, Word(w), z)
<1>1. Word(w) \in Tokens /\ Word(w).kind = w
  BY TokenTypes DEF Word
<1> QED BY <1>1, Proceed

LEMMA ProceedId ==
  ASSUME NEW a, NEW n \in Names, NEW z \in Seq(Tokens), NEW b, NEW p,
         Leads(Edges, a, "id", b, p), \A st : Ahead(b, z, st)
  PROVE  Proceeds(a, Then(Id(n), z)) /\ Goes(a, Id(n), z)
<1>1. Id(n) \in Tokens /\ Id(n).kind = "id"
  BY TokenTypes DEF Id
<1> QED BY <1>1, Proceed

LEMMA ProceedLiteral ==
  ASSUME NEW a, NEW v \in Literals, NEW z \in Seq(Tokens), NEW b, NEW p,
         Leads(Edges, a, "intlit", b, p), Leads(Edges, a, "strlit", b, p),
         \A st : Ahead(b, z, st)
  PROVE  Proceeds(a, Then(v, z)) /\ Goes(a, v, z)
<1>1. v \in Tokens /\ v.kind \in {"intlit", "strlit"}
  BY TokenTypes DEF Literals
<1> QED BY <1>1, Proceed

\* DROP proceeds at each of its points.
LEMMA DropProceeds ==
  ASSUME NEW a \in {"drop", "drop_database", "drop_table"}, NEW r, Ahead(a, r, stmt)
  PROVE  Proceeds(a, r)
<1>1. CASE a = "drop"
  <2>1. PICK k \in {"database", "table"}, z \in Seq(Tokens) :
          r = Then(Word(k), z) /\ RestName(z)
    BY <1>1 DEF Ahead, RestDrop
  <2>2. \A st : Ahead("drop_database", z, st) /\ Ahead("drop_table", z, st)
    BY <2>1 DEF Ahead
  <2>3. k \in Words
    BY DEF Words
  <2> QED BY <1>1, <2>1, <2>2, <2>3, DropLeads, ProceedWord
<1>2. CASE a = "drop_database"
  <2>1. PICK n \in Names, z \in Endings : r = Then(Id(n), z)
    BY <1>2 DEF Ahead, RestName
  <2>2. z \in Seq(Tokens) /\ \A st : Ahead("end", z, st)
    BY EndingsAre DEF Ahead
  <2> QED BY <1>2, <2>1, <2>2, DropLeads, ProceedId
<1>3. CASE a = "drop_table"
  <2>1. PICK n \in Names, z \in Endings : r = Then(Id(n), z)
    BY <1>3 DEF Ahead, RestName
  <2>2. z \in Seq(Tokens) /\ \A st : Ahead("end", z, st)
    BY EndingsAre DEF Ahead
  <2> QED BY <1>3, <2>1, <2>2, DropLeads, ProceedId
<1> QED BY <1>1, <1>2, <1>3

\* USE proceeds at each of its points.
LEMMA UseProceeds ==
  ASSUME NEW a \in {"use"}, NEW r, Ahead(a, r, stmt)
  PROVE  Proceeds(a, r)
<1>1. CASE a = "use"
  <2>1. PICK n \in Names, z \in Endings : r = Then(Id(n), z)
    BY <1>1 DEF Ahead, RestName
  <2>2. z \in Seq(Tokens) /\ \A st : Ahead("end", z, st)
    BY EndingsAre DEF Ahead
  <2> QED BY <1>1, <2>1, <2>2, UseLeads, ProceedId
<1> QED BY <1>1

\* SELECT proceeds at each of its points.
LEMMA SelectProceeds ==
  ASSUME NEW a \in {"select", "select_from", "select_table"}, NEW r, Ahead(a, r, stmt)
  PROVE  Proceeds(a, r)
<1>1. CASE a = "select"
  <2>1. PICK c \in Names \cup {"*"}, z \in Seq(Tokens) :
          r = Then(Target(c), z) /\ RestFrom(z)
    BY <1>1 DEF Ahead, RestTarget
  <2>2. \A st : Ahead("select_from", z, st)
    BY <2>1 DEF Ahead
  <2>3. CASE c = "*"
    <3>1. "*" \in Words /\ Target(c) = Word("*")
      BY <2>3 DEF Words, Target
    <3> QED BY <1>1, <2>1, <2>2, <3>1, SelectLeads, ProceedWord
  <2>4. CASE c # "*"
    <3>1. c \in Names /\ Target(c) = Id(c)
      BY <2>4 DEF Target
    <3> QED BY <1>1, <2>1, <2>2, <3>1, SelectLeads, ProceedId
  <2> QED BY <2>3, <2>4
<1>2. CASE a = "select_from"
  <2>1. PICK z \in Seq(Tokens) : r = Then(Word("from"), z) /\ RestTable(z)
    BY <1>2 DEF Ahead, RestFrom
  <2>2. \A st : Ahead("select_table", z, st)
    BY <2>1 DEF Ahead
  <2>3. "from" \in Words
    BY DEF Words
  <2> QED BY <1>2, <2>1, <2>2, <2>3, SelectLeads, ProceedWord
<1>3. CASE a = "select_table"
  <2>1. PICK n \in Names, z \in Seq(Tokens) : r = Then(Id(n), z) /\ RestTail(z)
    BY <1>3 DEF Ahead, RestTable
  <2>2. \A st : Ahead("tail", z, st)
    BY <2>1 DEF Ahead
  <2> QED BY <1>3, <2>1, <2>2, SelectLeads, ProceedId
<1> QED BY <1>1, <1>2, <1>3

\* DELETE proceeds at each of its points.
LEMMA DeleteProceeds ==
  ASSUME NEW a \in {"delete", "delete_table"}, NEW r, Ahead(a, r, stmt)
  PROVE  Proceeds(a, r)
<1>1. CASE a = "delete"
  <2>1. PICK z \in Seq(Tokens) : r = Then(Word("from"), z) /\ RestTable(z)
    BY <1>1 DEF Ahead, RestFrom
  <2>2. \A st : Ahead("delete_table", z, st)
    BY <2>1 DEF Ahead
  <2>3. "from" \in Words
    BY DEF Words
  <2> QED BY <1>1, <2>1, <2>2, <2>3, DeleteLeads, ProceedWord
<1>2. CASE a = "delete_table"
  <2>1. PICK n \in Names, z \in Seq(Tokens) : r = Then(Id(n), z) /\ RestTail(z)
    BY <1>2 DEF Ahead, RestTable
  <2>2. \A st : Ahead("tail", z, st)
    BY <2>1 DEF Ahead
  <2> QED BY <1>2, <2>1, <2>2, DeleteLeads, ProceedId
<1> QED BY <1>1, <1>2

\* INSERT proceeds at each of its points.
LEMMA InsertProceeds ==
  ASSUME NEW a \in {"insert", "insert_table", "insert_values", "insert_list",
           "value_end"}, NEW r, Ahead(a, r, stmt)
  PROVE  Proceeds(a, r)
<1>1. CASE a = "insert"
  <2>1. PICK z \in Seq(Tokens) : r = Then(Word("into"), z) /\ RestInto(z)
    BY <1>1 DEF Ahead, RestInsert
  <2>2. \A st : Ahead("insert_table", z, st)
    BY <2>1 DEF Ahead
  <2>3. "into" \in Words
    BY DEF Words
  <2> QED BY <1>1, <2>1, <2>2, <2>3, InsertLeads, ProceedWord
<1>2. CASE a = "insert_table"
  <2>1. PICK n \in Names, z \in Seq(Tokens) : r = Then(Id(n), z) /\ RestValuesOf(z)
    BY <1>2 DEF Ahead, RestInto
  <2>2. \A st : Ahead("insert_values", z, st)
    BY <2>1 DEF Ahead
  <2> QED BY <1>2, <2>1, <2>2, InsertLeads, ProceedId
<1>3. CASE a = "insert_values"
  <2>1. PICK z \in Seq(Tokens) : r = Then(Word("values"), z) /\ RestValueList(z)
    BY <1>3 DEF Ahead, RestValuesOf
  <2>2. \A st : Ahead("insert_list", z, st)
    BY <2>1 DEF Ahead
  <2>3. "values" \in Words
    BY DEF Words
  <2> QED BY <1>3, <2>1, <2>2, <2>3, InsertLeads, ProceedWord
<1>4. CASE a = "insert_list"
  <2>1. PICK z \in Seq(Tokens) : r = Then(Word("("), z) /\ RestValue(z)
    BY <1>4 DEF Ahead, RestValueList
  <2>2. \A st : Ahead("first_value", z, st)
    BY <2>1 DEF Ahead
  <2>3. "(" \in Words
    BY DEF Words
  <2> QED BY <1>4, <2>1, <2>2, <2>3, InsertLeads, ProceedWord
<1>5. CASE a = "value_end"
  <2>1. RestValues(r)
    BY <1>5 DEF Ahead
  <2>2. ASSUME NEW z \in Endings, r = Then(Word(")"), z)
        PROVE  Proceeds(a, r)
    <3>1. z \in Seq(Tokens) /\ \A st : Ahead("end", z, st)
      BY EndingsAre DEF Ahead
    <3>2. ")" \in Words
      BY DEF Words
    <3> QED BY <1>5, <2>2, <3>1, <3>2, InsertLeads, ProceedWord
  <2>3. ASSUME NEW z \in Seq(Tokens), r = Then(Word("comma"), z), RestValue(z)
        PROVE  Proceeds(a, r)
    <3>1. \A st : Ahead("value", z, st)
      BY <2>3 DEF Ahead
    <3>2. "comma" \in Words
      BY DEF Words
    <3> QED BY <1>5, <2>3, <3>1, <3>2, InsertLeads, ProceedWord
  <2> QED BY <2>1, <2>2, <2>3, ValuesGoOn
<1> QED BY <1>1, <1>2, <1>3, <1>4, <1>5

\* UPDATE proceeds at each of its points.
LEMMA UpdateProceeds ==
  ASSUME NEW a \in {"update", "update_set", "update_column", "update_eq"}, NEW r,
           Ahead(a, r, stmt)
  PROVE  Proceeds(a, r)
<1>1. CASE a = "update"
  <2>1. PICK n \in Names, z \in Seq(Tokens) : r = Then(Id(n), z) /\ RestSet(z)
    BY <1>1 DEF Ahead, RestUpdate
  <2>2. \A st : Ahead("update_set", z, st)
    BY <2>1 DEF Ahead
  <2> QED BY <1>1, <2>1, <2>2, UpdateLeads, ProceedId
<1>2. CASE a = "update_set"
  <2>1. PICK z \in Seq(Tokens) : r = Then(Word("set"), z) /\ RestSetColumn(z)
    BY <1>2 DEF Ahead, RestSet
  <2>2. \A st : Ahead("update_column", z, st)
    BY <2>1 DEF Ahead
  <2>3. "set" \in Words
    BY DEF Words
  <2> QED BY <1>2, <2>1, <2>2, <2>3, UpdateLeads, ProceedWord
<1>3. CASE a = "update_column"
  <2>1. PICK n \in Names, z \in Seq(Tokens) : r = Then(Id(n), z) /\ RestSetEq(z)
    BY <1>3 DEF Ahead, RestSetColumn
  <2>2. \A st : Ahead("update_eq", z, st)
    BY <2>1 DEF Ahead
  <2> QED BY <1>3, <2>1, <2>2, UpdateLeads, ProceedId
<1>4. CASE a = "update_eq"
  <2>1. PICK z \in Seq(Tokens) : r = Then(Word("="), z) /\ RestSetValue(z)
    BY <1>4 DEF Ahead, RestSetEq
  <2>2. \A st : Ahead("set_value", z, st)
    BY <2>1 DEF Ahead
  <2>3. "=" \in Words
    BY DEF Words
  <2> QED BY <1>4, <2>1, <2>2, <2>3, UpdateLeads, ProceedWord
<1> QED BY <1>1, <1>2, <1>3, <1>4

\* A WHERE clause proceeds at each of its points.
LEMMA WhereProceeds ==
  ASSUME NEW a \in {"where_column", "where_op"}, NEW r, Ahead(a, r, stmt)
  PROVE  Proceeds(a, r)
<1>1. CASE a = "where_column"
  <2>1. PICK n \in Names, z \in Seq(Tokens) : r = Then(Id(n), z) /\ RestWhereOp(z)
    BY <1>1 DEF Ahead, RestWhereColumn
  <2>2. \A st : Ahead("where_op", z, st)
    BY <2>1 DEF Ahead
  <2> QED BY <1>1, <2>1, <2>2, WhereLeads, ProceedId
<1>2. CASE a = "where_op"
  <2>1. PICK o \in {"=", "<", ">"}, z \in Seq(Tokens) :
          r = Then(Word(o), z) /\ RestWhereValue(z)
    BY <1>2 DEF Ahead, RestWhereOp
  <2>2. \A st : Ahead("where_value", z, st)
    BY <2>1 DEF Ahead
  <2>3. o \in Words
    BY DEF Words
  <2> QED BY <1>2, <2>1, <2>2, <2>3, WhereLeads, ProceedWord
<1> QED BY <1>1, <1>2

\* A value proceeds at each of its points.
LEMMA ValueProceeds ==
  ASSUME NEW a \in {"first_value", "value", "set_value", "where_value"}, NEW r, Ahead(a,
           r, stmt)
  PROVE  Proceeds(a, r)
<1>1. CASE a = "first_value"
  <2>1. PICK v \in Literals, z \in Seq(Tokens) : r = Then(v, z) /\ RestValues(z)
    BY <1>1 DEF Ahead, RestValue
  <2>2. \A st : Ahead("value_end", z, st)
    BY <2>1 DEF Ahead
  <2> QED BY <1>1, <2>1, <2>2, ValueLeads, ProceedLiteral
<1>2. CASE a = "value"
  <2>1. PICK v \in Literals, z \in Seq(Tokens) : r = Then(v, z) /\ RestValues(z)
    BY <1>2 DEF Ahead, RestValue
  <2>2. \A st : Ahead("value_end", z, st)
    BY <2>1 DEF Ahead
  <2> QED BY <1>2, <2>1, <2>2, ValueLeads, ProceedLiteral
<1>3. CASE a = "set_value"
  <2>1. PICK v \in Literals, z \in Seq(Tokens) : r = Then(v, z) /\ RestTail(z)
    BY <1>3 DEF Ahead, RestSetValue
  <2>2. \A st : Ahead("tail", z, st)
    BY <2>1 DEF Ahead
  <2> QED BY <1>3, <2>1, <2>2, ValueLeads, ProceedLiteral
<1>4. CASE a = "where_value"
  <2>1. PICK v \in Literals, z \in Endings : r = Then(v, z)
    BY <1>4 DEF Ahead, RestWhereValue
  <2>2. z \in Seq(Tokens) /\ \A st : Ahead("end", z, st)
    BY EndingsAre DEF Ahead
  <2> QED BY <1>4, <2>1, <2>2, ValueLeads, ProceedLiteral
<1> QED BY <1>1, <1>2, <1>3, <1>4

\* The first keyword.
LEMMA StatementProceeds ==
  ASSUME NEW r, Ahead("start", r, stmt)
  PROVE  Proceeds("start", r)
<1>1. PICK z \in Seq(Tokens) :
        \/ r = Then(Word("create"), z) /\ RestCreate(z)
        \/ r = Then(Word("drop"), z) /\ RestDrop(z)
        \/ r = Then(Word("use"), z) /\ RestName(z)
        \/ r = Then(Word("select"), z) /\ RestTarget(z)
        \/ r = Then(Word("delete"), z) /\ RestFrom(z)
        \/ r = Then(Word("insert"), z) /\ RestInsert(z)
        \/ r = Then(Word("update"), z) /\ RestUpdate(z)
  BY DEF Ahead, RestStatement
<1>2. CASE r = Then(Word("create"), z) /\ RestCreate(z)
  <2>1. "create" \in Words /\ \A st : Ahead("create", z, st)
    BY <1>2 DEF Ahead, Words
  <2> QED BY <1>2, <2>1, StatementLeads, ProceedWord
<1>3. CASE r = Then(Word("drop"), z) /\ RestDrop(z)
  <2>1. "drop" \in Words /\ \A st : Ahead("drop", z, st)
    BY <1>3 DEF Ahead, Words
  <2> QED BY <1>3, <2>1, StatementLeads, ProceedWord
<1>4. CASE r = Then(Word("use"), z) /\ RestName(z)
  <2>1. "use" \in Words /\ \A st : Ahead("use", z, st)
    BY <1>4 DEF Ahead, Words
  <2> QED BY <1>4, <2>1, StatementLeads, ProceedWord
<1>5. CASE r = Then(Word("select"), z) /\ RestTarget(z)
  <2>1. "select" \in Words /\ \A st : Ahead("select", z, st)
    BY <1>5 DEF Ahead, Words
  <2> QED BY <1>5, <2>1, StatementLeads, ProceedWord
<1>6. CASE r = Then(Word("delete"), z) /\ RestFrom(z)
  <2>1. "delete" \in Words /\ \A st : Ahead("delete", z, st)
    BY <1>6 DEF Ahead, Words
  <2> QED BY <1>6, <2>1, StatementLeads, ProceedWord
<1>7. CASE r = Then(Word("insert"), z) /\ RestInsert(z)
  <2>1. "insert" \in Words /\ \A st : Ahead("insert", z, st)
    BY <1>7 DEF Ahead, Words
  <2> QED BY <1>7, <2>1, StatementLeads, ProceedWord
<1>8. CASE r = Then(Word("update"), z) /\ RestUpdate(z)
  <2>1. "update" \in Words /\ \A st : Ahead("update", z, st)
    BY <1>8 DEF Ahead, Words
  <2> QED BY <1>8, <2>1, StatementLeads, ProceedWord
<1> QED BY <1>1, <1>2, <1>3, <1>4, <1>5, <1>6, <1>7, <1>8

\* On the list of columns, what is left depends on the columns built so far.
Brings(t, z, b, p) == \A e \in Edges : e.to = b /\ e.put = p => Ahead(b, z, Put(e, t))

LEMMA ProceedAs ==
  ASSUME NEW a, NEW t \in Tokens, NEW z \in Seq(Tokens), NEW b, NEW p,
         Leads(Edges, a, t.kind, b, p),
         Brings(t, z, b, p)
  PROVE  Proceeds(a, Then(t, z)) /\ Goes(a, t, z)
  BY DEF Proceeds, Goes, Leads, Brings

\* CREATE up to its columns.
LEMMA CreateProceeds ==
  ASSUME NEW a \in {"create", "create_database", "create_table", "columns"}, NEW r, NEW x,
         Ahead(a, r, stmt), Heard(a, x, stmt)
  PROVE  Proceeds(a, r)
<1>1. CASE a = "create"
  <2>1. PICK z \in Seq(Tokens) : \/ r = Then(Word("database"), z) /\ RestName(z)
                                 \/ r = Then(Word("table"), z) /\ RestTableName(z)
    BY <1>1 DEF Ahead, RestCreate
  <2>2. "database" \in Words /\ "table" \in Words
    BY DEF Words
  <2>3. CASE r = Then(Word("database"), z) /\ RestName(z)
    <3>1. \A st : Ahead("create_database", z, st)
      BY <2>3 DEF Ahead
    <3> QED BY <1>1, <2>2, <2>3, <3>1, CreateLeads, ProceedWord
  <2>4. CASE r = Then(Word("table"), z) /\ RestTableName(z)
    <3>1. \A st : Ahead("create_table", z, st)
      BY <2>4 DEF Ahead
    <3> QED BY <1>1, <2>2, <2>4, <3>1, CreateLeads, ProceedWord
  <2> QED BY <2>1, <2>3, <2>4
<1>2. CASE a = "create_database"
  <2>1. PICK n \in Names, z \in Endings : r = Then(Id(n), z)
    BY <1>2 DEF Ahead, RestName
  <2>2. z \in Seq(Tokens) /\ \A st : Ahead("end", z, st)
    BY EndingsAre DEF Ahead
  <2> QED BY <1>2, <2>1, <2>2, CreateLeads, ProceedId
<1>3. CASE a = "create_table"
  <2>1. PICK n \in Names, z \in Seq(Tokens) : r = Then(Id(n), z) /\ RestColumnList(z)
    BY <1>3 DEF Ahead, RestTableName
  <2>2. \A st : Ahead("columns", z, st)
    BY <2>1 DEF Ahead
  <2> QED BY <1>3, <2>1, <2>2, CreateLeads, ProceedId
<1>4. CASE a = "columns"
  <2>1. PICK z \in Seq(Tokens) : r = Then(Word("("), z) /\ RestColumn(z, <<>>)
    BY <1>4 DEF Ahead, RestColumnList
  <2>2. PICK n \in Names : stmt = Of("create_table", n, Empty, <<>>, <<>>, NoWhere)
    BY <1>4 DEF Heard, HeardTable
  <2>3. Word("(") \in Tokens /\ Word("(").kind = "("
    BY TokenTypes DEF Words, Word
  <2>4. ASSUME NEW e \in Edges, e.to = "first_column", e.put = "nothing"
        PROVE  Ahead("first_column", z, Put(e, Word("(")))
    <3>1. Put(e, Word("(")) = stmt
      BY <2>2, <2>4, PutNothing DEF KindOf
    <3>2. stmt.columns = <<>>
      BY <2>2 DEF Of
    <3>3. RestColumn(z, stmt.columns)
      BY <2>1, <3>2
    <3> QED BY <3>1, <3>3 DEF Ahead
  <2>8. Brings(Word("("), z, "first_column", "nothing")
    BY <2>4 DEF Brings
  <2>5. Leads(Edges, a, Word("(").kind, "first_column", "nothing")
    BY <1>4, <2>3, CreateLeads
  <2> QED BY <2>1, <2>3, <2>8, <2>5, ProceedAs
<1> QED BY <1>1, <1>2, <1>3, <1>4

\* The name and the type of a column, and the comma or the end behind it.
LEMMA ColumnProceeds ==
  ASSUME NEW a \in {"first_column", "column", "column_type", "column_end"}, NEW r, NEW x,
         Ahead(a, r, stmt), Heard(a, x, stmt)
  PROVE  Proceeds(a, r)
<1>1. CASE a \in {"first_column", "column"}
  <2>1. PICK n \in Names, cs \in Seq(Columns) :
          stmt = Of("create_table", n, Empty, cs, <<>>, NoWhere)
    BY <1>1 DEF Heard, HeardColumns
  <2>2. stmt.columns = cs
    BY <2>1 DEF Of
  <2>3. RestColumn(r, cs)
    BY <1>1, <2>2 DEF Ahead
  <2>4. PICK m \in Names, z \in Seq(Tokens) :
          r = Then(Id(m), z) /\ RestType(z, Started(cs, m))
    BY <2>3 DEF RestColumn
  <2>5. Id(m) \in Tokens /\ Id(m).kind = "id" /\ Id(m).lexeme = m
    BY TokenTypes DEF Id
  <2>6. ASSUME NEW e \in Edges, e.to = "column_type", e.put = "column"
        PROVE  Ahead("column_type", z, Put(e, Id(m)))
    <3>1. Put(e, Id(m)) = Of("create_table", n, Empty, Started(cs, m), <<>>, NoWhere)
      BY <2>1, <2>5, <2>6, PutColumn DEF Started
    <3>2. Put(e, Id(m)).columns = Started(cs, m)
      BY <3>1 DEF Of
    <3>3. RestType(z, Put(e, Id(m)).columns)
      BY <2>4, <3>2
    <3> QED BY <3>3 DEF Ahead
  <2>8. Brings(Id(m), z, "column_type", "column")
    BY <2>6 DEF Brings
  <2>7. Leads(Edges, a, Id(m).kind, "column_type", "column")
    BY <1>1, <2>5, ColumnLeads
  <2> QED BY <2>4, <2>5, <2>8, <2>7, ProceedAs
<1>2. CASE a = "column_type"
  <2>1. PICK n, cs : stmt = Of("create_table", n, Empty, cs, <<>>, NoWhere)
    BY <1>2 DEF Heard, HeardColumnName
  <2>2. stmt.columns = cs
    BY <2>1 DEF Of
  <2>3. RestType(r, cs)
    BY <1>2, <2>2 DEF Ahead
  <2>4. PICK y \in {"int", "string"}, z \in Seq(Tokens) :
          r = Then(Word(y), z) /\ RestKey(z, Typed(cs, y))
    BY <2>3 DEF RestType
  <2>5. Word(y) \in Tokens /\ Word(y).kind = y /\ Word(y).lexeme = y
    BY TokenTypes DEF Word, Words
  <2>6. ASSUME NEW e \in Edges, e.to = "column_key", e.put = "type"
        PROVE  Ahead("column_key", z, Put(e, Word(y)))
    <3>1. Put(e, Word(y)) = Of("create_table", n, Empty, Typed(cs, y), <<>>, NoWhere)
      BY <2>1, <2>5, <2>6, PutType DEF Typed
    <3>2. Put(e, Word(y)).columns = Typed(cs, y)
      BY <3>1 DEF Of
    <3>3. RestKey(z, Put(e, Word(y)).columns)
      BY <2>4, <3>2
    <3> QED BY <3>3 DEF Ahead
  <2>8. Brings(Word(y), z, "column_key", "type")
    BY <2>6 DEF Brings
  <2>7. Leads(Edges, a, Word(y).kind, "column_key", "type")
    BY <1>2, <2>4, <2>5, ColumnLeads
  <2> QED BY <2>4, <2>5, <2>8, <2>7, ProceedAs
<1>3. CASE a = "column_end"
  <2>1. PICK n \in Names, cs \in Seq(Columns) :
          stmt = Of("create_table", n, Empty, cs, <<>>, NoWhere)
    BY <1>3 DEF Heard, HeardColumn
  <2>2. stmt.columns = cs
    BY <2>1 DEF Of
  <2>3. RestColumns(r, cs)
    BY <1>3, <2>2 DEF Ahead
  <2>4. ASSUME NEW z \in Endings, r = Then(Word(")"), z), OneKey(cs)
        PROVE  Proceeds(a, r)
    <3>1. z \in Seq(Tokens)
      BY EndingsAre
    <3>2. Word(")") \in Tokens /\ Word(")").kind = ")"
      BY TokenTypes DEF Word, Words
    <3>3. ASSUME NEW e \in Edges, e.to = "keys", e.put = "nothing"
          PROVE  Ahead("keys", z, Put(e, Word(")")))
      <4>1. Put(e, Word(")")) = stmt
        BY <2>1, <3>3, PutNothing DEF KindOf
      <4>2. OneKey(stmt.columns)
        BY <2>2, <2>4
      <4> QED BY <4>1, <4>2 DEF Ahead
    <3>5. Brings(Word(")"), z, "keys", "nothing")
      BY <3>3 DEF Brings
    <3>4. Leads(Edges, a, Word(")").kind, "keys", "nothing")
      BY <1>3, <3>2, CreateLeads
    <3> QED BY <2>4, <3>1, <3>2, <3>5, <3>4, ProceedAs
  <2>5. ASSUME NEW z \in Seq(Tokens), r = Then(Word("comma"), z), RestColumn(z, cs)
        PROVE  Proceeds(a, r)
    <3>1. Word("comma") \in Tokens /\ Word("comma").kind = "comma"
      BY TokenTypes DEF Word
    <3>2. ASSUME NEW e \in Edges, e.to = "column", e.put = "nothing"
          PROVE  Ahead("column", z, Put(e, Word("comma")))
      <4>1. Put(e, Word("comma")) = stmt
        BY <2>1, <3>2, PutNothing DEF KindOf
      <4>2. RestColumn(z, stmt.columns)
        BY <2>2, <2>5
      <4> QED BY <4>1, <4>2 DEF Ahead
    <3>5. Brings(Word("comma"), z, "column", "nothing")
      BY <3>2 DEF Brings
    <3>3. Leads(Edges, a, Word("comma").kind, "column", "nothing")
      BY <1>3, <3>1, CreateLeads
    <3> QED BY <2>5, <3>1, <3>5, <3>3, ProceedAs
  <2> QED BY <2>3, <2>4, <2>5, ColumnsGoOn
<1> QED BY <1>1, <1>2, <1>3

\* PRIMARY, or what is behind the column.
LEMMA KeyProceeds ==
  ASSUME NEW r, NEW x, Ahead("column_key", r, stmt), Heard("column_key", x, stmt)
  PROVE  \/ \E z \in Seq(Tokens) : /\ r = Then(Word("primary"), z)
                                   /\ Goes("column_key", Word("primary"), z)
         \/ /\ RestColumns(r, stmt.columns)
            /\ \E t \in Tokens, z \in Seq(Tokens) : r = Then(t, z) /\ t.kind # "primary"
<1>1. PICK n \in Names, cs \in Seq(Columns), m \in Names, y \in {"int", "string"} :
        stmt = Of("create_table", n, Empty,
                  Append(cs, [name |-> m, type |-> y, primary |-> FALSE]), <<>>, NoWhere)
  BY DEF Heard, HeardColumnType
<1> DEFINE c == [name |-> m, type |-> y, primary |-> FALSE]
           ds == Append(cs, c)
<1>2. stmt = Of("create_table", n, Empty, ds, <<>>, NoWhere) /\ c \in Columns
  BY <1>1 DEF Columns
<1> HIDE DEF c
<1>3. ds \in Seq(Columns)
  BY <1>2, AppendProperties
<1> HIDE DEF ds
<1>4. stmt.columns = ds
  BY <1>2 DEF Of
<1>5. RestKey(r, ds)
  BY <1>4 DEF Ahead
<1>6. CASE RestColumns(r, ds)
  <2>1. \/ \E z \in Endings : r = Then(Word(")"), z)
        \/ \E z \in Seq(Tokens) : r = Then(Word("comma"), z)
    <3>1. \/ OneKey(ds) /\ \E z \in Endings : r = Then(Word(")"), z)
          \/ \E z \in Seq(Tokens) : r = Then(Word("comma"), z) /\ RestColumn(z, ds)
      BY <1>3, <1>6, ColumnsGoOn
    <3> QED BY <3>1
  <2>2. /\ Word(")") \in Tokens /\ Word(")").kind # "primary"
        /\ Word("comma") \in Tokens /\ Word("comma").kind # "primary"
    BY TokenTypes DEF Words, Word
  <2> QED BY <1>4, <1>6, <2>1, <2>2, EndingsAre
<1>7. CASE \E z \in Seq(Tokens) : r = Then(Word("primary"), z) /\ RestColumns(z, Keyed(ds))
  <2>1. PICK z \in Seq(Tokens) : r = Then(Word("primary"), z) /\ RestColumns(z, Keyed(ds))
    BY <1>7
  <2>2. Word("primary") \in Tokens /\ Word("primary").kind = "primary"
    BY TokenTypes DEF Words, Word
  <2>3. ASSUME NEW e \in Edges, e.to = "column_end", e.put = "primary"
        PROVE  Ahead("column_end", z, Put(e, Word("primary")))
    <3>1. Put(e, Word("primary")) = Of("create_table", n, Empty, Keyed(ds), <<>>, NoWhere)
      BY <1>2, <2>3, PutPrimary DEF Keyed
    <3>2. Put(e, Word("primary")).columns = Keyed(ds)
      BY <3>1 DEF Of
    <3>3. RestColumns(z, Put(e, Word("primary")).columns)
      BY <2>1, <3>2
    <3> QED BY <3>3 DEF Ahead
  <2>8. Brings(Word("primary"), z, "column_end", "primary")
    BY <2>3 DEF Brings
  <2>4. Leads(Edges, "column_key", Word("primary").kind, "column_end", "primary")
    BY <2>2, ColumnLeads
  <2> QED BY <2>1, <2>2, <2>8, <2>4, ProceedAs
<1> QED BY <1>5, <1>6, <1>7 DEF RestKey

\* WHERE and the semicolon, or nothing.
LEMMA TailProceeds ==
  ASSUME NEW r, Ahead("tail", r, stmt)
  PROVE  \/ r \in Endings
         \/ \E z \in Seq(Tokens) : r = Then(Word("where"), z) /\
           Goes("tail", Word("where"), z)
<1>1. RestTail(r)
  BY DEF Ahead
<1>2. ASSUME NEW z \in Seq(Tokens), r = Then(Word("where"), z), RestWhereColumn(z)
      PROVE  Goes("tail", Word("where"), z)
  <2>1. "where" \in Words /\ \A st : Ahead("where_column", z, st)
    BY <1>2 DEF Ahead, Words
  <2> QED BY <1>2, <2>1, WhereLeads, ProceedWord
<1> QED BY <1>1, <1>2 DEF RestTail

\* The semicolon ends the statement.
LEMMA EndProceeds ==
  Goes("end", Word("semicolon"), <<>>) /\ Word("semicolon") \in Tokens
<1>1. "semicolon" \in Words
  BY DEF Words
<1>2. \A st : Ahead("accepted", <<>>, st)
  BY DEF Ahead
<1>3. <<>> \in Seq(Tokens)
  BY EmptySeq
<1> QED BY <1>1, <1>2, <1>3, EndLeads, ProceedWord, TokenTypes

\* Only PRIMARY is taken behind a column, only WHERE behind a statement.
LEMMA KeyEdge ==
  \A e \in Edges : /\ e.from = "column_key" => e.on = "primary"
                   /\ e.from = "tail" => e.on = "where"
<1>1. \A e \in Edges : /\ e.from = "column_key" => e \in ColumnEdges
                       /\ e.from = "tail" => e \in WhereEdges
  BY EdgesStart DEF Edges, Starts
<1>2. \A e \in ColumnEdges : e.from = "column_key" => e.on = "primary"
  BY DEF ColumnEdges, Edge
<1>3. \A e \in WhereEdges : e.from = "tail" => e.on = "where"
  BY DEF WhereEdges, Edge
<1> QED BY <1>1, <1>2, <1>3

\* What is left to read, and its first token.
Left == SubSeq(input, pos, Len(input))

\* What is left is empty at the end-of-file token, and starts with Peek before it.
LEMMA LeftIs ==
  ASSUME Inv
  PROVE  /\ Left \in Seq(Tokens)
         /\ Left = <<>> => Peek = Eof
         /\ Left # <<>> => /\ Peek \in Tokens
                           /\ SubSeq(input, pos + 1, Len(input)) \in Seq(Tokens)
                           /\ Left = Then(Peek, SubSeq(input, pos + 1, Len(input)))
<1>1. /\ input \in Seq(Tokens) /\ Len(input) \in Nat /\ pos \in 1..(Len(input) + 1)
      /\ \A i \in 1..Len(input) : input[i] \in Tokens
  BY LenProperties, ElementOfSeq DEF Inv
<1>2. ASSUME NEW p \in Nat \ {0}
      PROVE  SubSeq(input, p, Len(input)) \in Seq(Tokens)
  <2>1. \A i \in p..Len(input) : input[i] \in Tokens
    BY <1>1
  <2> QED BY <1>1, <2>1, SubSeqProperties
<1>3. CASE pos <= Len(input)
  <2>1. pos \in 1..Len(input) /\ Len(input) \in 1..Len(input) /\ Peek = input[pos]
    BY <1>1, <1>3 DEF Peek
  <2>2. Left = <<Peek>> \o SubSeq(input, pos + 1, Len(input))
    BY <1>1, <1>3, <2>1, SubSeqRecursiveFirst DEF Left
  <2>3. SubSeq(input, pos + 1, Len(input)) \in Seq(Tokens) /\ Peek \in Tokens
    BY <1>1, <1>2, <2>1
  <2>4. Left = Then(Peek, SubSeq(input, pos + 1, Len(input)))
    BY <2>2 DEF Then
  <2> QED BY <2>3, <2>4, ThenFacts
<1>4. CASE ~(pos <= Len(input))
  <2>1. Peek = Eof
    BY <1>4 DEF Peek
  <2>2. Left = <<>>
    BY <1>1, <1>4, SubSeqEmpty DEF Left
  <2> QED BY <2>1, <2>2, EmptySeq
<1> QED BY <1>3, <1>4

\* The parser sees the first token of what is left.
LEMMA LeftThen ==
  ASSUME Inv, NEW t \in Tokens, NEW z \in Seq(Tokens), Left = Then(t, z)
  PROVE  Peek = t /\ SubSeq(input, pos + 1, Len(input)) = z
<1>1. Left # <<>>
  BY ThenFacts
<1>2. /\ Peek \in Tokens /\ SubSeq(input, pos + 1, Len(input)) \in Seq(Tokens)
      /\ Left = Then(Peek, SubSeq(input, pos + 1, Len(input)))
  BY <1>1, LeftIs
<1> DEFINE u == SubSeq(input, pos + 1, Len(input))
<1>3. u \in Seq(Tokens) /\ Peek \in Tokens /\ Then(Peek, u) = Then(t, z)
  BY <1>2
<1> HIDE DEF u
<1>4. Peek = t /\ u = z
  BY <1>3, ThenOne
<1> QED BY <1>4 DEF u

\* At any other point, the next token is there and leads on.
LEMMA ReadOn ==
  ASSUME Inv, Ahead(at, Left, stmt),
         at \notin {"keys", "column_key", "tail", "end", "accepted"}
  PROVE  Proceeds(at, Left)
<1>1. Heard(at, SubSeq(input, 1, pos - 1), stmt) /\ at \in AllPoints /\ at # "invalid"
  BY DEF Inv, Ahead
<1>2. CASE at = "start"
  BY <1>2, StatementProceeds
<1>3. CASE at \in {"create", "create_database", "create_table", "columns"}
  BY <1>1, <1>3, CreateProceeds
<1>4. CASE at \in {"first_column", "column", "column_type", "column_end"}
  BY <1>1, <1>4, ColumnProceeds
<1>5. CASE at \in {"drop", "drop_database", "drop_table"}
  BY <1>5, DropProceeds
<1>6. CASE at = "use"
  BY <1>6, UseProceeds
<1>7. CASE at \in {"select", "select_from", "select_table"}
  BY <1>7, SelectProceeds
<1>8. CASE at \in {"delete", "delete_table"}
  BY <1>8, DeleteProceeds
<1>9. CASE at \in {"insert", "insert_table", "insert_values", "insert_list", "value_end"}
  BY <1>9, InsertProceeds
<1>10. CASE at \in {"update", "update_set", "update_column", "update_eq"}
  BY <1>10, UpdateProceeds
<1>11. CASE at \in {"where_column", "where_op"}
  BY <1>11, WhereProceeds
<1>12. CASE at \in {"first_value", "value", "set_value", "where_value"}
  BY <1>12, ValueProceeds
<1> QED BY <1>1, <1>2, <1>3, <1>4, <1>5, <1>6, <1>7, <1>8, <1>9, <1>10, <1>11, <1>12
  DEF AllPoints

\* Where a value is due, it is there.
LEMMA ValueIsThere ==
  ASSUME Inv, Ahead(at, Left, stmt),
         at \in {"first_value", "value", "set_value", "where_value"}
  PROVE  Peek.kind \in {"intlit", "strlit"}
<1>1. \E v \in Literals, z \in Seq(Tokens) : Left = Then(v, z)
  <2>1. RestValue(Left) \/ RestSetValue(Left) \/ RestWhereValue(Left)
    BY DEF Ahead
  <2> QED BY <2>1, EndingsAre DEF RestValue, RestSetValue, RestWhereValue
<1>2. PICK v \in Literals, z \in Seq(Tokens) : Left = Then(v, z)
  BY <1>1
<1>3. Peek = v
  BY <1>2, TokenTypes, LeftThen
<1> QED BY <1>3 DEF Literals

\* No step leaves the sentence.
LEMMA NextAhead ==
  ASSUME Inv, Ahead(at, Left, stmt), [Next]_vars
  PROVE  Ahead(at', Left', stmt')
<1>1. /\ at \in AllPoints /\ at # "invalid"
      /\ Heard(at, SubSeq(input, 1, pos - 1), stmt)
  BY DEF Inv, Ahead
<1>2. at = "keys" => Left \in Endings /\ OneKey(stmt.columns)
  BY DEF Ahead
<1>3. CASE Advance
  <2>1. PICK e \in Edges : Fits(e) /\ at' = e.to /\ stmt' = Put(e, Peek)
    BY <1>3 DEF Advance
  <2>2. e.from = at /\ e.on = Peek.kind /\ Peek.kind # "eof"
    BY <2>1, EdgesRead DEF Fits
  <2>3. Left # <<>>
    BY <2>2, LeftIs DEF Eof
  <2>4. Left' = SubSeq(input, pos + 1, Len(input))
    BY <1>3 DEF Advance, Left
  <2>5. ASSUME NEW t \in Tokens, NEW z \in Seq(Tokens), Left = Then(t, z), Goes(at, t, z)
        PROVE  Ahead(at', Left', stmt')
    <3>1. Peek = t /\ Left' = z
      BY <2>4, <2>5, LeftThen
    <3> QED BY <2>1, <2>2, <2>5, <3>1 DEF Goes
  <2>6. CASE at \notin {"keys", "column_key", "tail", "end", "accepted"}
    BY <2>5, <2>6, ReadOn DEF Proceeds
  <2>7. CASE at = "column_key"
    <3>1. Word("primary") \in Tokens /\ (Peek.kind = "primary" => Peek = Word("primary"))
      <4>1. "primary" \in Words
        BY DEF Words
      <4> QED BY <2>3, <4>1, LeftIs, TokenKinds, TokenTypes
    <3>2. Peek.kind = "primary"
      BY <2>2, <2>7, EdgesStart, KeyEdge
    <3>3. ASSUME NEW t \in Tokens, NEW z \in Seq(Tokens), Left = Then(t, z),
                 t.kind # "primary"
          PROVE  FALSE
      BY <3>2, <3>3, LeftThen
    <3> QED BY <1>1, <2>5, <2>7, <3>1, <3>3, KeyProceeds
  <2>8. CASE at = "tail"
    <3>1. Word("where") \in Tokens
      BY TokenTypes DEF Words
    <3>2. Peek.kind = "where"
      BY <2>2, <2>8, KeyEdge
    <3>3. Left \notin Endings
      <4>1. Word("semicolon").kind # "where" /\ Word("semicolon") \in Tokens
        BY EndProceeds DEF Word
      <4>2. <<>> \in Seq(Tokens)
        BY EmptySeq
      <4> QED BY <2>3, <3>2, <4>1, <4>2, EndingsAre, LeftThen
    <3> QED BY <2>5, <2>8, <3>1, <3>3, TailProceeds
  <2>9. CASE at = "end"
    <3>1. Left = Then(Word("semicolon"), <<>>)
      <4>1. Left \in Endings
        BY <2>9 DEF Ahead
      <4> QED BY <2>3, <4>1, EndingsAre
    <3>2. <<>> \in Seq(Tokens)
      BY EmptySeq
    <3> QED BY <2>5, <2>9, <3>1, <3>2, EndProceeds
  <2>10. CASE at \in {"keys", "accepted"}
    BY <2>2, <2>10, EdgesStart DEF Edges, Starts
  <2> QED BY <2>6, <2>7, <2>8, <2>9, <2>10
<1>4. ASSUME UNCHANGED <<input, pos>>
      PROVE  Left' = Left
  BY <1>4 DEF Left
<1>5. CASE NoValue
  <2>1. PICK p \in ValuePoints : at = p[1] /\ Peek.kind \notin {"intlit", "strlit"}
    BY <1>5 DEF NoValue
  <2>2. at \in {"first_value", "value", "set_value", "where_value"}
    BY <2>1 DEF ValuePoints
  <2> QED BY <2>1, <2>2, ValueIsThere
<1>6. CASE Skip
  <2>1. Left' = Left /\ stmt' = stmt
    BY <1>4, <1>6 DEF Skip
  <2>2. CASE at = "column_key" /\ Peek.kind # "primary" /\ at' = "column_end"
    <3>1. ASSUME NEW z \in Seq(Tokens), Left = Then(Word("primary"), z)
          PROVE  FALSE
      <4>1. Word("primary") \in Tokens /\ Word("primary").kind = "primary"
        BY TokenTypes DEF Words, Word
      <4>2. Peek = Word("primary")
        BY <3>1, <4>1, LeftThen
      <4> QED BY <2>2, <4>1, <4>2
    <3>2. RestColumns(Left, stmt.columns)
      BY <1>1, <2>2, <3>1, KeyProceeds
    <3> QED BY <2>1, <2>2, <3>2 DEF Ahead
  <2>3. CASE at = "tail" /\ Peek.kind # "where" /\ at' = "end"
    <3>1. ASSUME NEW z \in Seq(Tokens), Left = Then(Word("where"), z)
          PROVE  FALSE
      <4>1. Word("where") \in Tokens /\ Word("where").kind = "where"
        BY TokenTypes DEF Words, Word
      <4>2. Peek = Word("where")
        BY <3>1, <4>1, LeftThen
      <4> QED BY <2>3, <4>1, <4>2
    <3>2. Left \in Endings
      BY <2>3, <3>1, TailProceeds
    <3> QED BY <2>1, <2>3, <3>2 DEF Ahead
  <2>4. CASE at = "end" /\ Peek.kind # "semicolon" /\ at' = "accepted"
    <3>1. Left \in Endings
      BY <2>4 DEF Ahead
    <3>2. Left = <<>>
      <4>1. Word("semicolon") \in Tokens /\ Word("semicolon").kind = "semicolon"
        BY EndProceeds DEF Word
      <4>2. <<>> \in Seq(Tokens)
        BY EmptySeq
      <4>3. ASSUME Left # <<>>
            PROVE  FALSE
        <5>1. Left = Then(Word("semicolon"), <<>>)
          BY <3>1, <4>3, EndingsAre
        <5>2. Peek = Word("semicolon")
          BY <4>1, <4>2, <5>1, LeftThen
        <5> QED BY <2>4, <4>1, <5>2
      <4> QED BY <4>3
    <3> QED BY <2>1, <2>4, <3>2 DEF Ahead
  <2> QED BY <1>6, <2>2, <2>3, <2>4 DEF Skip
<1>7. CASE CountKeys
  <2>1. /\ Left' = Left /\ stmt' = stmt /\ at = "keys"
        /\ at' = IF OneKey(stmt.columns) THEN "end" ELSE "invalid"
    BY <1>4, <1>7 DEF CountKeys
  <2> QED BY <1>2, <2>1 DEF Ahead
<1>8. CASE Fail
  <2>1. CASE at = "first_value" /\ Peek.kind = ")"
    BY <2>1, ValueIsThere
  <2>2. CASE /\ at \notin {"keys", "column_key", "tail", "end", "accepted", "invalid"}
             /\ \A e \in Edges : ~Fits(e)
    <3>1. PICK t \in Tokens, z \in Seq(Tokens) : Left = Then(t, z) /\ Goes(at, t, z)
      BY <2>2, ReadOn DEF Proceeds
    <3>2. Peek = t
      BY <3>1, LeftThen
    <3> QED BY <2>2, <3>1, <3>2 DEF Goes, Fits
  <2> QED BY <1>8, <2>1, <2>2 DEF Fail
<1>9. CASE UNCHANGED vars
  BY <1>4, <1>9 DEF vars
<1> QED BY <1>3, <1>5, <1>6, <1>7, <1>8, <1>9 DEF Next

\* A list is its first part and what is left of it.
LEMMA ColumnsListed ==
  ASSUME NEW c \in Columns, NEW cs \in Seq(Columns), NEW z \in Seq(Tokens)
  PROVE  /\ Listed(ColumnTexts(<<c>> \o cs)) \in Seq(Tokens)
         /\ ColumnsLeft(cs) \o z \in Seq(Tokens)
         /\ Listed(ColumnTexts(<<c>> \o cs)) \o z = ColumnText(c) \o (ColumnsLeft(cs) \o z)
<1> DEFINE left == ColumnsLeft(cs)
           text == ColumnText(c)
<1>1. left \in Seq(Tokens) /\ text \in Seq(Tokens) /\ Word("comma") \in Tokens
  BY ColumnsInFront, ColumnTextTokens, TokenTypes
<1>2. Listed(ColumnTexts(<<c>> \o cs)) = Tail(Then(Word("comma"), text) \o left)
  <2>1. Listed(ColumnTexts(<<c>> \o cs)) = Tail(ColumnsLeft(<<c>> \o cs))
    BY DEF Listed, ColumnsLeft, Commas
  <2>2. ColumnsLeft(<<c>> \o cs) = Then(Word("comma"), text) \o left
    BY ColumnsInFront
  <2> QED BY <2>1, <2>2
<1>3. text \o left \in Seq(Tokens) /\ left \o z \in Seq(Tokens)
  <2> HIDE DEF left, text
  <2> QED BY <1>1, ConcatProperties
<1>4. Then(Word("comma"), text) \o left = Then(Word("comma"), text \o left)
  <2> HIDE DEF left, text
  <2> QED BY <1>1, ThenMore
<1>5. Tail(Then(Word("comma"), text \o left)) = text \o left
  <2> HIDE DEF left, text
  <2> QED BY <1>1, <1>3, ThenTail
<1>6. (text \o left) \o z = text \o (left \o z)
  <2> HIDE DEF left, text
  <2> QED BY <1>1, ConcatAssociative
<1> QED BY <1>2, <1>3, <1>4, <1>5, <1>6

\* The same of a list of values.
LEMMA ValuesListed ==
  ASSUME NEW v \in Values, NEW vs \in Seq(Values), NEW z \in Seq(Tokens)
  PROVE  /\ Listed(ValueTexts(<<v>> \o vs)) \in Seq(Tokens)
         /\ ValuesLeft(vs) \o z \in Seq(Tokens)
         /\ Listed(ValueTexts(<<v>> \o vs)) \o z = ValueText(v) \o (ValuesLeft(vs) \o z)
<1> DEFINE left == ValuesLeft(vs)
           text == ValueText(v)
<1>1. left \in Seq(Tokens) /\ text \in Seq(Tokens) /\ Word("comma") \in Tokens
  BY ValuesInFront, ValueTextTokens, TokenTypes
<1>2. Listed(ValueTexts(<<v>> \o vs)) = Tail(Then(Word("comma"), text) \o left)
  <2>1. Listed(ValueTexts(<<v>> \o vs)) = Tail(ValuesLeft(<<v>> \o vs))
    BY DEF Listed, ValuesLeft, Commas
  <2>2. ValuesLeft(<<v>> \o vs) = Then(Word("comma"), text) \o left
    BY ValuesInFront
  <2> QED BY <2>1, <2>2
<1>3. text \o left \in Seq(Tokens) /\ left \o z \in Seq(Tokens)
  <2> HIDE DEF left, text
  <2> QED BY <1>1, ConcatProperties
<1>4. Then(Word("comma"), text) \o left = Then(Word("comma"), text \o left)
  <2> HIDE DEF left, text
  <2> QED BY <1>1, ThenMore
<1>5. Tail(Then(Word("comma"), text \o left)) = text \o left
  <2> HIDE DEF left, text
  <2> QED BY <1>1, <1>3, ThenTail
<1>6. (text \o left) \o z = text \o (left \o z)
  <2> HIDE DEF left, text
  <2> QED BY <1>1, ConcatAssociative
<1> QED BY <1>2, <1>3, <1>4, <1>5, <1>6

\* A bracketed list behind its opening words.
LEMMA InBrackets ==
  ASSUME NEW open \in Seq(Tokens), NEW list \in Seq(Tokens), NEW z \in Seq(Tokens)
  PROVE  ((open \o list) \o <<Word(")")>>) \o z = open \o (list \o Then(Word(")"), z))
<1> DEFINE close == <<Word(")")>>
<1>1. close \in Seq(Tokens)
  <2>1. Word(")") \in Tokens
    BY TokenTypes DEF Words
  <2> QED BY <2>1
<1>2. close \o z = Then(Word(")"), z)
  BY DEF Then
<1> HIDE DEF close
<1>3. open \o list \in Seq(Tokens) /\ close \o z \in Seq(Tokens)
  BY <1>1, ConcatProperties
<1>4. ((open \o list) \o close) \o z = (open \o list) \o (close \o z)
  BY <1>1, <1>3, ConcatAssociative, SMTT(30)
<1>5. (open \o list) \o (close \o z) = open \o (list \o (close \o z))
  BY <1>3, ConcatAssociative, SMTT(30)
<1> QED BY <1>2, <1>4, <1>5 DEF close

\* A WHERE clause, if there is one, and the end.
LEMMA WhereAhead ==
  ASSUME NEW w \in Wheres, NEW z \in Endings
  PROVE  WhereText(w) \o z \in Seq(Tokens) /\ RestTail(WhereText(w) \o z)
<1>1. z \in Seq(Tokens)
  BY EndingsAre
<1>2. CASE w = NoWhere
  <2>1. WhereText(w) = <<>>
    BY <1>2 DEF WhereText
  <2>2. <<>> \o z = z
    BY <1>1, ConcatEmptySeq
  <2> QED BY <1>1, <2>1, <2>2 DEF RestTail
<1>3. CASE w # NoWhere
  <2>1. w.column \in Names /\ w.op \in {"=", "<", ">"} /\ w.value \in Literals
    BY <1>3 DEF Wheres
  <2>2. /\ Word("where") \in Tokens /\ Id(w.column) \in Tokens /\ Word(w.op) \in Tokens
        /\ w.value \in Tokens
    BY <2>1, TokenTypes DEF Words
  <2>3. ValueText(w.value) = <<w.value>>
    BY <2>1, ValueTextTokens DEF Values
  <2> DEFINE words == <<Word("where"), Id(w.column), Word(w.op)>>
             last == <<w.value>>
             q == Then(w.value, z)
  <2>4. words \in Seq(Tokens) /\ last \in Seq(Tokens)
    BY <2>2
  <2>5. WhereText(w) = words \o last
    BY <1>3, <2>3 DEF WhereText
  <2>6. (words \o last) \o z = words \o (last \o z)
    <3> HIDE DEF words, last, q
    <3> QED BY <1>1, <2>4, ConcatAssociative
  <2>7. q \in Seq(Tokens) /\ RestWhereValue(q)
    BY <1>1, <2>1, <2>2, ThenFacts DEF RestWhereValue
  <2>8. words \o q = Then(Word("where"), Then(Id(w.column), Then(Word(w.op), q)))
    <3> HIDE DEF q
    <3> QED BY <2>2, <2>7, ThenThree
  <2>9. WhereText(w) \o z = Then(Word("where"), Then(Id(w.column), Then(Word(w.op), q)))
    <3>1. last \o z = q
      BY DEF Then
    <3> QED BY <2>5, <2>6, <2>8, <3>1
  <2> HIDE DEF words, last, q
  <2>10. /\ Then(Word(w.op), q) \in Seq(Tokens)
         /\ RestWhereOp(Then(Word(w.op), q))
    BY <2>1, <2>2, <2>7, ThenFacts DEF RestWhereOp
  <2>11. /\ Then(Id(w.column), Then(Word(w.op), q)) \in Seq(Tokens)
         /\ RestWhereColumn(Then(Id(w.column), Then(Word(w.op), q)))
    BY <2>1, <2>2, <2>10, ThenFacts DEF RestWhereColumn
  <2>12. /\ WhereText(w) \o z \in Seq(Tokens)
         /\ RestTail(WhereText(w) \o z)
    BY <2>2, <2>9, <2>11, ThenFacts DEF RestTail
  <2> QED BY <2>12
<1> QED BY <1>2, <1>3

\* The statements that only name something.
LEMMA NamesAhead ==
  ASSUME NEW n \in Names, NEW z \in Endings,
         NEW k \in {"create_database", "drop_database", "use", "drop_table"}, NEW s,
         s = Of(k, n, Empty, <<>>, <<>>, NoWhere)
  PROVE  RestStatement(Render(s) \o z)
<1>1. s.kind = k /\ s.name = n
  BY DEF Of
<1>2. /\ Word("create") \in Tokens /\ Word("database") \in Tokens
      /\ Word("drop") \in Tokens /\ Word("use") \in Tokens /\ Word("table") \in Tokens
      /\ Id(n) \in Tokens /\ z \in Seq(Tokens)
  BY TokenTypes, EndingsAre DEF Words
<1> DEFINE r == Then(Id(n), z)
<1>3. r \in Seq(Tokens) /\ RestName(r)
  BY <1>2, ThenFacts DEF RestName
<1>4. /\ <<Word("use"), Id(n)>> \o z = Then(Word("use"), r)
      /\ <<Word("create"), Word("database"), Id(n)>> \o z =
           Then(Word("create"), Then(Word("database"), r))
      /\ <<Word("drop"), Word("database"), Id(n)>> \o z =
           Then(Word("drop"), Then(Word("database"), r))
      /\ <<Word("drop"), Word("table"), Id(n)>> \o z =
           Then(Word("drop"), Then(Word("table"), r))
  BY <1>2, ThenTwo, ThenThree, SMTT(30)
<1> HIDE DEF r
<1>5. CASE k = "use"
  BY <1>1, <1>3, <1>4, <1>5 DEF Render, RestStatement
<1>6. CASE k = "create_database"
  <2>1. /\ Then(Word("database"), r) \in Seq(Tokens)
        /\ RestCreate(Then(Word("database"), r))
    BY <1>2, <1>3, ThenFacts DEF RestCreate
  <2>2. Render(s) \o z = Then(Word("create"), Then(Word("database"), r))
    BY <1>1, <1>4, <1>6 DEF Render
  <2> QED BY <2>1, <2>2 DEF RestStatement
<1>7. CASE k = "drop_database"
  <2>1. /\ Then(Word("database"), r) \in Seq(Tokens)
        /\ RestDrop(Then(Word("database"), r))
    BY <1>2, <1>3, ThenFacts DEF RestDrop
  <2>2. Render(s) \o z = Then(Word("drop"), Then(Word("database"), r))
    BY <1>1, <1>4, <1>7 DEF Render
  <2> QED BY <2>1, <2>2 DEF RestStatement
<1>8. CASE k = "drop_table"
  <2>1. /\ Then(Word("table"), r) \in Seq(Tokens)
        /\ RestDrop(Then(Word("table"), r))
    BY <1>2, <1>3, ThenFacts DEF RestDrop
  <2>2. Render(s) \o z = Then(Word("drop"), Then(Word("table"), r))
    BY <1>1, <1>4, <1>8 DEF Render
  <2> QED BY <2>1, <2>2 DEF RestStatement
<1> QED BY <1>5, <1>6, <1>7, <1>8

\* CREATE TABLE with its columns.
LEMMA CreateAhead ==
  ASSUME NEW n \in Names, NEW cs \in Lists(Columns), OneKey(cs), NEW z \in Endings, NEW s,
         s = Of("create_table", n, Empty, cs, <<>>, NoWhere)
  PROVE  RestStatement(Render(s) \o z)
<1>1. s.kind = "create_table" /\ s.name = n /\ s.columns = cs
  BY DEF Of
<1>2. PICK c \in Columns, ds \in Seq(Columns) : cs = <<c>> \o ds
  BY ListsAre, FirstOf
<1> DEFINE end == Then(Word(")"), z)
           list == Listed(ColumnTexts(cs))
           y == ColumnsLeft(ds) \o end
           open == CreateOpen(n)
           q == ColumnText(c) \o y
<1>3. z \in Seq(Tokens) /\ end \in Seq(Tokens)
  BY EndingsAre
<1>4. list \in Seq(Tokens) /\ y \in Seq(Tokens) /\ list \o end = q
  <2> HIDE DEF end
  <2> QED BY <1>2, <1>3, ColumnsListed
<1>5. q \in Seq(Tokens) /\ RestColumn(q, <<>>)
  <2>1. <<>> \in Seq(Columns) /\ Append(<<>>, c) = <<c>>
    OBVIOUS
  <2>2. RestColumns(y, <<c>>)
    BY <1>2 DEF RestColumns
  <2> HIDE DEF y
  <2> QED BY <1>4, <2>1, <2>2, ColumnStarts
<1>6. Render(s) = (open \o list) \o <<Word(")")>>
  BY <1>1 DEF Render, CreateOpen, ColumnTexts
<1>7. Render(s) \o z = open \o q
  <2>1. ((open \o list) \o <<Word(")")>>) \o z = open \o (list \o end)
    <3>1. open \in Seq(Tokens)
      BY OpenTokens
    <3> HIDE DEF open, list
    <3> QED BY <1>3, <1>4, <3>1, InBrackets
  <2> HIDE DEF open, list, end, q
  <2> QED BY <1>4, <1>6, <2>1
<1> HIDE DEF q
<1>8. /\ Word("create") \in Tokens /\ Word("table") \in Tokens /\ Word("(") \in Tokens
      /\ Id(n) \in Tokens
  BY TokenTypes DEF Words
<1>9. open \o q = Then(Word("create"), Then(Word("table"), Then(Id(n), Then(Word("("), q))))
  BY <1>5, <1>8, ThenFour DEF CreateOpen
<1>10. Then(Word("("), q) \in Seq(Tokens) /\ RestColumnList(Then(Word("("), q))
  BY <1>5, <1>8, ThenFacts DEF RestColumnList
<1>11. /\ Then(Id(n), Then(Word("("), q)) \in Seq(Tokens)
       /\ RestTableName(Then(Id(n), Then(Word("("), q)))
  BY <1>8, <1>10, ThenFacts DEF RestTableName
<1>12. /\ Then(Word("table"), Then(Id(n), Then(Word("("), q))) \in Seq(Tokens)
       /\ RestCreate(Then(Word("table"), Then(Id(n), Then(Word("("), q))))
  BY <1>8, <1>11, ThenFacts DEF RestCreate
<1> HIDE DEF open
<1> QED BY <1>7, <1>9, <1>12 DEF RestStatement

\* INSERT with its values.
LEMMA InsertAhead ==
  ASSUME NEW n \in Names, NEW vs \in Lists(Literals), NEW z \in Endings, NEW s,
         s = Of("insert", n, Empty, <<>>, vs, NoWhere)
  PROVE  RestStatement(Render(s) \o z)
<1>1. s.kind = "insert" /\ s.name = n /\ s.values = vs
  BY DEF Of
<1>2. PICK v \in Literals, us \in Seq(Literals) : vs = <<v>> \o us
  BY ListsAre, FirstOf
<1> DEFINE end == Then(Word(")"), z)
           list == Listed(ValueTexts(vs))
           y == ValuesLeft(us) \o end
           open == InsertOpen(n)
           q == Then(v, y)
<1>3. z \in Seq(Tokens) /\ end \in Seq(Tokens)
  BY EndingsAre
<1>4. v \in Values /\ us \in Seq(Values) /\ v \in Tokens /\ ValueText(v) = <<v>>
  <2>1. Literals \subseteq Values
    BY DEF Values
  <2> QED BY <2>1, SeqMonotonic, TokenTypes, ValueTextTokens
<1>5. list \in Seq(Tokens) /\ y \in Seq(Tokens) /\ list \o end = <<v>> \o y
  <2> HIDE DEF end
  <2>1. /\ Listed(ValueTexts(<<v>> \o us)) \in Seq(Tokens)
        /\ ValuesLeft(us) \o end \in Seq(Tokens)
        /\ Listed(ValueTexts(<<v>> \o us)) \o end =
             ValueText(v) \o (ValuesLeft(us) \o end)
    BY <1>3, <1>4, ValuesListed, Zenon
  <2> QED BY <1>2, <1>4, <2>1, Zenon
<1>6. q \in Seq(Tokens) /\ RestValue(q)
  <2>1. RestValues(y)
    BY DEF RestValues
  <2> HIDE DEF y
  <2> QED BY <1>4, <1>5, <2>1, ThenFacts DEF RestValue
<1>7. Render(s) = (open \o list) \o <<Word(")")>>
  BY <1>1 DEF Render, InsertOpen, ValueTexts
<1>8. Render(s) \o z = open \o q
  <2>1. ((open \o list) \o <<Word(")")>>) \o z = open \o (list \o end)
    <3>1. open \in Seq(Tokens)
      BY OpenTokens
    <3> HIDE DEF open, list
    <3> QED BY <1>3, <1>5, <3>1, InBrackets
  <2>2. list \o end = q
    BY <1>5 DEF Then
  <2> HIDE DEF open, list, end, q
  <2> QED BY <1>7, <2>1, <2>2
<1> HIDE DEF q
<1>9. /\ Word("insert") \in Tokens /\ Word("into") \in Tokens /\ Word("values") \in Tokens
      /\ Word("(") \in Tokens /\ Id(n) \in Tokens
  BY TokenTypes DEF Words
<1>10. open \o q = Then(Word("insert"), Then(Word("into"),
                     Then(Id(n), Then(Word("values"), Then(Word("("), q)))))
  <2>1. PICK t, u, m, l, p \in Tokens :
          t = Word("insert") /\ u = Word("into") /\ m = Id(n) /\ l = Word("values")
          /\ p = Word("(")
    BY <1>9
  <2>2. <<t, u, m, l, p>> \o q = Then(t, Then(u, Then(m, Then(l, Then(p, q)))))
    BY <1>6, ThenFive, SMTT(60)
  <2> QED BY <2>1, <2>2 DEF InsertOpen
<1> DEFINE a == Then(Word("("), q)
           b == Then(Word("values"), a)
           c == Then(Id(n), b)
           d == Then(Word("into"), c)
<1>11. a \in Seq(Tokens) /\ RestValueList(a)
  BY <1>6, <1>9, ThenFacts DEF RestValueList
<1>12. b \in Seq(Tokens) /\ RestValuesOf(b)
  <2> HIDE DEF a
  <2> QED BY <1>9, <1>11, ThenFacts DEF RestValuesOf
<1>13. c \in Seq(Tokens) /\ RestInto(c)
  <2> HIDE DEF b
  <2> QED BY <1>9, <1>12, ThenFacts DEF RestInto
<1>14. d \in Seq(Tokens) /\ RestInsert(d)
  <2> HIDE DEF c
  <2> QED BY <1>9, <1>13, ThenFacts DEF RestInsert
<1>15. Render(s) \o z = Then(Word("insert"), d)
  <2> HIDE DEF open
  <2> QED BY <1>8, <1>10
<1> HIDE DEF d
<1> QED BY <1>14, <1>15 DEF RestStatement

\* SELECT, DELETE and UPDATE, with or without their WHERE.
LEMMA TailsAhead ==
  ASSUME NEW k, NEW n \in Names, NEW c, NEW vs, Tails(k, n, c, vs),
         k = "update" => \E v \in Literals : vs = <<v>>,
         NEW w \in Wheres, NEW z \in Endings, NEW s, s = Of(k, n, c, <<>>, vs, w)
  PROVE  RestStatement(Render(s) \o z)
<1> DEFINE text == WhereText(w)
           q == text \o z
           bare == Bare(k, n, c, vs)
<1>1. z \in Seq(Tokens) /\ text \in Seq(Tokens) /\ q \in Seq(Tokens) /\ RestTail(q)
  BY EndingsAre, WhereTextTokens, WhereAhead
<1>2. Render(s) = bare \o text /\ bare \in Seq(Tokens)
  BY WhereTextTokens, RenderWhere, BareTokens
<1>3. Render(s) \o z = bare \o q
  <2>1. z \in Seq(Tokens) /\ text \in Seq(Tokens) /\ bare \in Seq(Tokens)
    BY <1>1, <1>2
  <2> HIDE DEF bare, text
  <2>2. (bare \o text) \o z = bare \o (text \o z)
    BY <2>1, ConcatAssociative
  <2> QED BY <1>2, <2>2
<1> HIDE DEF q
<1>4. /\ Word("select") \in Tokens /\ Word("from") \in Tokens /\ Word("delete") \in Tokens
      /\ Word("update") \in Tokens /\ Word("set") \in Tokens /\ Word("=") \in Tokens
      /\ Id(n) \in Tokens
  BY TokenTypes DEF Words
<1>5. Then(Id(n), q) \in Seq(Tokens) /\ RestTable(Then(Id(n), q))
  BY <1>1, <1>4, ThenFacts DEF RestTable
<1> DEFINE f == Then(Word("from"), Then(Id(n), q))
<1>6. f \in Seq(Tokens) /\ RestFrom(f)
  BY <1>4, <1>5, ThenFacts DEF RestFrom
<1>7. CASE k = "select"
  <2>1. c \in Names \cup {"*"} /\ vs = <<>>
    BY <1>7 DEF Tails
  <2>2. Target(c) \in Tokens
    BY <2>1, TargetTokens
  <2>3. bare = <<Word("select"), Target(c), Word("from"), Id(n)>>
    BY <1>7, <2>1, BareSelect
  <2>4. bare \o q = Then(Word("select"), Then(Target(c), f))
    <3>1. PICK t, u, l, m \in Tokens :
            t = Word("select") /\ u = Target(c) /\ l = Word("from") /\ m = Id(n)
      BY <1>4, <2>2
    <3>2. <<t, u, l, m>> \o q = Then(t, Then(u, Then(l, Then(m, q))))
      BY <1>1, ThenFour
    <3> HIDE DEF bare
    <3> QED BY <2>3, <3>1, <3>2
  <2> HIDE DEF f, bare
  <2>5. Then(Target(c), f) \in Seq(Tokens) /\ RestTarget(Then(Target(c), f))
    BY <1>6, <2>1, <2>2, ThenFacts DEF RestTarget
  <2> QED BY <1>3, <2>4, <2>5 DEF RestStatement
<1>8. CASE k = "delete"
  <2>1. bare = <<Word("delete"), Word("from"), Id(n)>>
    BY <1>8, BareDelete DEF Tails
  <2>2. bare \o q = Then(Word("delete"), f)
    <3> HIDE DEF bare
    <3> QED BY <1>1, <1>4, <2>1, ThenThree
  <2> HIDE DEF f, bare
  <2> QED BY <1>3, <1>6, <2>2 DEF RestStatement
<1>9. CASE k = "update"
  <2>1. PICK v \in Literals : vs = <<v>>
    BY <1>9
  <2>2. c \in Names /\ v \in Values /\ v \in Tokens /\ ValueText(v) = <<v>>
    <3>1. v \in Values
      BY DEF Values
    <3> QED BY <1>9, <3>1, ValueTextTokens, TokenTypes DEF Tails
  <2> DEFINE words == <<Word("update"), Id(n), Word("set"), Id(c), Word("=")>>
             last == <<v>>
             y == Then(v, q)
  <2>3. bare = words \o last
    BY <1>9, <2>1, <2>2, BareUpdate
  <2>4. Id(c) \in Tokens
    BY <2>2, TokenTypes
  <2>5. y \in Seq(Tokens) /\ RestSetValue(y)
    BY <1>1, <2>2, ThenFacts DEF RestSetValue
  <2>6. bare \o q = words \o y
    <3>1. words \in Seq(Tokens) /\ last \in Seq(Tokens)
      BY <1>4, <2>2, <2>4
    <3>2. last \o q = y
      BY DEF Then
    <3>3. (words \o last) \o q = words \o (last \o q)
      <4>1. q \in Seq(Tokens)
        BY <1>1
      <4> HIDE DEF words, last
      <4> QED BY <3>1, <4>1, ConcatAssociative
    <3> HIDE DEF words, last, y, bare
    <3> QED BY <2>3, <3>2, <3>3
  <2> HIDE DEF y
  <2>7. words \o y = Then(Word("update"), Then(Id(n),
                       Then(Word("set"), Then(Id(c), Then(Word("="), y)))))
    <3>1. PICK t, m, u, l, p \in Tokens :
            t = Word("update") /\ m = Id(n) /\ u = Word("set") /\ l = Id(c)
            /\ p = Word("=")
      BY <1>4, <2>4
    <3>2. <<t, m, u, l, p>> \o y = Then(t, Then(m, Then(u, Then(l, Then(p, y)))))
      BY <2>5, ThenFive, SMTT(60)
    <3> QED BY <3>1, <3>2
  <2>8. Then(Word("="), y) \in Seq(Tokens) /\ RestSetEq(Then(Word("="), y))
    BY <1>4, <2>5, ThenFacts DEF RestSetEq
  <2> DEFINE e == Then(Word("="), y)
             g == Then(Id(c), e)
             h == Then(Word("set"), g)
             i == Then(Id(n), h)
  <2>9. g \in Seq(Tokens) /\ RestSetColumn(g)
    <3> HIDE DEF e
    <3>1. e \in Seq(Tokens) /\ RestSetEq(e)
      BY <2>8 DEF e
    <3> QED BY <2>2, <2>4, <3>1, ThenFacts DEF RestSetColumn
  <2>10. h \in Seq(Tokens) /\ RestSet(h)
    <3> HIDE DEF g
    <3> QED BY <1>4, <2>9, ThenFacts DEF RestSet
  <2>11. i \in Seq(Tokens) /\ RestUpdate(i)
    <3> HIDE DEF h
    <3> QED BY <1>4, <2>10, ThenFacts DEF RestUpdate
  <2>12. Render(s) \o z = Then(Word("update"), i)
    <3> HIDE DEF words, bare
    <3> QED BY <1>3, <2>6, <2>7
  <2> HIDE DEF i
  <2> QED BY <2>11, <2>12 DEF RestStatement
<1> QED BY <1>7, <1>8, <1>9 DEF Tails

\* The whole grammar.
LEMMA StatementAhead ==
  ASSUME NEW s \in Statements
  PROVE  \A z \in Endings : RestStatement(Render(s) \o z)
<1>1. CASE s \in {Of(k, n, Empty, <<>>, <<>>, NoWhere) : n \in Names,
                    k \in {"create_database", "drop_database", "use", "drop_table"}}
  BY <1>1, NamesAhead
<1>2. CASE s \in {Of("create_table", n, Empty, cs, <<>>, NoWhere) :
                    n \in Names, cs \in {cs \in Lists(Columns) : OneKey(cs)}}
  <2>1. PICK n \in Names, cs \in Lists(Columns) :
          OneKey(cs) /\ s = Of("create_table", n, Empty, cs, <<>>, NoWhere)
    BY <1>2
  <2> QED BY <2>1, CreateAhead
<1>3. CASE s \in {Of("select", n, c, <<>>, <<>>, w) :
                    n \in Names, c \in Names \cup {"*"}, w \in Wheres}
  <2>1. PICK n \in Names, c \in Names \cup {"*"}, w \in Wheres :
          s = Of("select", n, c, <<>>, <<>>, w)
    BY <1>3
  <2>2. Tails("select", n, c, <<>>) /\ "select" # "update"
    BY DEF Tails
  <2> QED BY <2>1, <2>2, TailsAhead
<1>4. CASE s \in {Of("delete", n, Empty, <<>>, <<>>, w) : n \in Names, w \in Wheres}
  <2>1. PICK n \in Names, w \in Wheres : s = Of("delete", n, Empty, <<>>, <<>>, w)
    BY <1>4
  <2>2. Tails("delete", n, Empty, <<>>) /\ "delete" # "update"
    BY DEF Tails
  <2> QED BY <2>1, <2>2, TailsAhead
<1>5. CASE s \in {Of("insert", n, Empty, <<>>, vs, NoWhere) :
                    n \in Names, vs \in Lists(Literals)}
  BY <1>5, InsertAhead
<1>6. CASE s \in {Of("update", n, c, <<>>, <<v>>, w) :
                    n \in Names, c \in Names, v \in Literals, w \in Wheres}
  <2>1. PICK n \in Names, c \in Names, v \in Literals, w \in Wheres :
          s = Of("update", n, c, <<>>, <<v>>, w)
    BY <1>6
  <2>2. Tails("update", n, c, <<v>>)
    BY DEF Tails, Values
  <2> QED BY <2>1, <2>2, TailsAhead
<1> QED BY <1>1, <1>2, <1>3, <1>4, <1>5, <1>6 DEF Statements

\* While a sentence is parsed, the rest of a sentence is ahead.
Onward == input \in Sentences => Ahead(at, Left, stmt)

\* A sentence that is not yet begun is ahead as a whole.
LEMMA InitOnward ==
  ASSUME Init
  PROVE  Onward
<1> SUFFICES ASSUME input \in Sentences PROVE Ahead(at, Left, stmt)
  BY DEF Onward
<1>1. pos = 1 /\ at = "start" /\ input \in Seq(Tokens)
  BY InitInv DEF Init, Inv
<1>2. Left = input
  BY <1>1, SubSeqFull DEF Left
<1>3. PICK s \in Statements : input = Render(s) \/ input =
        Append(Render(s), Word("semicolon"))
  BY DEF Sentences
<1>4. Render(s) \in Seq(Tokens) /\ Word("semicolon") \in Tokens
  BY RenderTokens, EndProceeds
<1>5. \E z \in Endings : input = Render(s) \o z
  <2>1. Render(s) \o <<>> = Render(s)
    BY <1>4, ConcatEmptySeq
  <2>2. Append(Render(s), Word("semicolon")) = Render(s) \o <<Word("semicolon")>>
    BY <1>4, AppendIsConcat
  <2> QED BY <1>3, <2>1, <2>2 DEF Endings
<1>6. RestStatement(Left)
  BY <1>2, <1>5, StatementAhead
<1> QED BY <1>1, <1>6 DEF Ahead

\* Every sentence of the grammar, with any names, literals and lengths of lists,
\* that the parser has done with is accepted, as the statement it is the text of.
THEOREM NoSentenceRefused == Spec => []SentencesParse
<1>1. Init => Inv /\ Onward
  BY InitInv, InitOnward
<1>2. Inv /\ Onward /\ [Next]_vars => (Inv /\ Onward)'
  <2> SUFFICES ASSUME Inv, Onward, [Next]_vars PROVE Inv' /\ Onward'
    OBVIOUS
  <2>1. input' = input
    BY DEF Next, Advance, NoValue, Skip, CountKeys, Fail, vars
  <2> QED BY <2>1, NextInv, NextAhead DEF Onward
<1>3. Inv /\ Onward => SentencesParse
  <2> SUFFICES ASSUME Inv, Onward, Done, input \in Sentences
               PROVE  at = "accepted" /\ Reads(input, stmt)
    BY DEF SentencesParse
  <2>1. at = "accepted" /\ Left = <<>>
    BY DEF Onward, Ahead, Done
  <2>2. pos = Len(input) + 1
    <3>1. Len(input) \in Nat /\ pos \in 1..(Len(input) + 1) /\ input \in Seq(Tokens)
      BY LenProperties DEF Inv
    <3>2. CASE pos <= Len(input)
      <4>1. pos \in 1..Len(input) /\ Len(input) \in 1..Len(input)
        BY <3>1, <3>2
      <4>2. Len(Left) = (Len(input) - pos) + 1
        BY <3>1, <4>1, SubSeqProperties DEF Left
      <4>3. Len(Left) = 0
        BY <2>1
      <4> QED BY <3>1, <3>2, <4>2, <4>3
    <3> QED BY <3>1, <3>2
  <2>3. SubSeq(input, 1, pos - 1) = input
    <3>1. Len(input) \in Nat /\ input \in Seq(Tokens)
      BY LenProperties DEF Inv
    <3>2. pos - 1 = Len(input)
      BY <2>2, <3>1
    <3> QED BY <3>1, <3>2, SubSeqFull
  <2>4. HeardMore(SubSeq(input, 1, pos - 1), stmt)
    BY <2>1 DEF Inv, Heard
  <2> QED BY <2>1, <2>3, <2>4 DEF HeardMore
<1> QED BY <1>1, <1>2, <1>3, PTL DEF Spec
=============================================================================
