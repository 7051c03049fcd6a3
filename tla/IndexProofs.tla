---------------------------- MODULE IndexProofs ----------------------------
(***************************************************************************)
(* Proofs about Index, for any set of integer keys and any row ids: the    *)
(* array stays sorted, the bisection is correct and in bounds, and the     *)
(* array implements the map of IndexMap.                                   *)
(***************************************************************************)
EXTENDS Index, SequenceTheorems, WellFoundedInduction, TLAPS

\* Opening a gap at position i (the shift loop of Index::insert) keeps the
\* elements before i, stores e at i and moves the others up by one.
LEMMA InsertAtFacts ==
  ASSUME NEW S, NEW s \in Seq(S), NEW i \in 1..(Len(s) + 1), NEW e \in S
  PROVE  /\ InsertAt(s, i, e) \in Seq(S)
         /\ Len(InsertAt(s, i, e)) = Len(s) + 1
         /\ \A j \in 1..(Len(s) + 1) :
              InsertAt(s, i, e)[j] =
                IF j < i THEN s[j] ELSE IF j = i THEN e ELSE s[j - 1]
<1> DEFINE a == SubSeq(s, 1, i - 1)
           b == SubSeq(s, i, Len(s))
<1>1. Len(s) \in Nat /\ \A n \in 1..Len(s) : s[n] \in S
  BY LenProperties, ElementOfSeq
<1>2. /\ a \in Seq(S) /\ Len(a) = i - 1
      /\ \A n \in 1..(i - 1) : a[n] = s[n]
  <2>1. \A n \in 1..(i - 1) : s[n] \in S
    BY <1>1
  <2> QED BY <1>1, <2>1, SubSeqProperties
<1>3. /\ b \in Seq(S) /\ Len(b) = Len(s) - i + 1
      /\ \A n \in 1..(Len(s) - i + 1) : b[n] = s[i + n - 1]
  <2>1. \A n \in i..Len(s) : s[n] \in S
    BY <1>1
  <2> QED BY <1>1, <2>1, SubSeqProperties
<1>4. <<e>> \in Seq(S) /\ Len(<<e>>) = 1 /\ <<e>>[1] = e
  OBVIOUS
<1> HIDE DEF a, b
<1> DEFINE c == a \o <<e>>
<1>5. /\ c \in Seq(S) /\ Len(c) = i
      /\ \A n \in 1..i : c[n] = IF n < i THEN s[n] ELSE e
  <2>1. /\ c \in Seq(S)
        /\ Len(c) = Len(a) + Len(<<e>>)
        /\ \A n \in 1..(Len(a) + Len(<<e>>)) :
             c[n] = IF n <= Len(a) THEN a[n] ELSE <<e>>[n - Len(a)]
    BY <1>2, <1>4, ConcatProperties
  <2> QED BY <1>1, <1>2, <1>4, <2>1
<1>6. InsertAt(s, i, e) = c \o b
  BY DEF InsertAt, a, b
<1> HIDE DEF c
<1>7. /\ c \o b \in Seq(S)
      /\ Len(c \o b) = Len(c) + Len(b)
      /\ \A n \in 1..(Len(c) + Len(b)) :
           (c \o b)[n] = IF n <= Len(c) THEN c[n] ELSE b[n - Len(c)]
  BY <1>3, <1>5, ConcatProperties
<1> DEFINE d == c \o b
<1>8. /\ d \in Seq(S) /\ Len(d) = Len(s) + 1
      /\ \A n \in 1..(Len(s) + 1) : d[n] = IF n <= i THEN c[n] ELSE b[n - i]
  <2> HIDE DEF d
  <2> QED BY <1>1, <1>3, <1>5, <1>7 DEF d
<1> HIDE DEF d
<1>9. ASSUME NEW j \in 1..(Len(s) + 1)
      PROVE  d[j] = IF j < i THEN s[j] ELSE IF j = i THEN e ELSE s[j - 1]
  <2>1. CASE j <= i
    BY <1>1, <1>5, <1>8, <2>1
  <2>2. CASE j > i
    <3>1. d[j] = b[j - i] /\ j - i \in 1..(Len(s) - i + 1)
      BY <1>1, <1>8, <2>2
    <3>2. b[j - i] = s[i + (j - i) - 1] /\ i + (j - i) - 1 = j - 1
      BY <1>1, <1>3, <3>1
    <3> QED BY <2>2, <3>1, <3>2
  <2> QED BY <1>1, <2>1, <2>2
<1> QED BY <1>6, <1>8, <1>9 DEF d

\* Closing the gap at position i (the shift-left loop of Index::remove) keeps
\* the elements before i and moves the others down.
LEMMA RemoveAtFacts ==
  ASSUME NEW S, NEW s \in Seq(S), NEW i \in 1..Len(s)
  PROVE  /\ RemoveAt(s, i) \in Seq(S)
         /\ Len(RemoveAt(s, i)) = Len(s) - 1
         /\ \A j \in 1..(Len(s) - 1) :
              RemoveAt(s, i)[j] = IF j < i THEN s[j] ELSE s[j + 1]
<1> DEFINE a == SubSeq(s, 1, i - 1)
           b == SubSeq(s, i + 1, Len(s))
<1>1. Len(s) \in Nat /\ \A n \in 1..Len(s) : s[n] \in S
  BY LenProperties, ElementOfSeq
<1>2. /\ a \in Seq(S) /\ Len(a) = i - 1
      /\ \A n \in 1..(i - 1) : a[n] = s[n]
  <2>1. \A n \in 1..(i - 1) : s[n] \in S
    BY <1>1
  <2> QED BY <1>1, <2>1, SubSeqProperties
<1>3. /\ b \in Seq(S) /\ Len(b) = Len(s) - i
      /\ \A n \in 1..(Len(s) - i) : b[n] = s[i + n]
  <2>1. \A n \in (i + 1)..Len(s) : s[n] \in S
    BY <1>1
  <2>2. /\ b \in Seq(S)
        /\ Len(b) = IF i + 1 <= Len(s) THEN Len(s) - (i + 1) + 1 ELSE 0
        /\ \A n \in 1..(Len(s) - (i + 1) + 1) : b[n] = s[i + 1 + n - 1]
    BY <1>1, <2>1, SubSeqProperties
  <2> QED BY <1>1, <2>2
<1> HIDE DEF a, b
<1>4. /\ a \o b \in Seq(S)
      /\ Len(a \o b) = Len(a) + Len(b)
      /\ \A n \in 1..(Len(a) + Len(b)) :
           (a \o b)[n] = IF n <= Len(a) THEN a[n] ELSE b[n - Len(a)]
  BY <1>2, <1>3, ConcatProperties
<1> DEFINE d == a \o b
<1>5. RemoveAt(s, i) = d
  BY DEF RemoveAt, a, b
<1> HIDE DEF d
<1>6. /\ d \in Seq(S) /\ Len(d) = Len(s) - 1
      /\ \A n \in 1..(Len(s) - 1) :
           d[n] = IF n <= i - 1 THEN a[n] ELSE b[n - (i - 1)]
  BY <1>1, <1>2, <1>3, <1>4 DEF d
<1>7. ASSUME NEW j \in 1..(Len(s) - 1)
      PROVE  d[j] = IF j < i THEN s[j] ELSE s[j + 1]
  <2>1. CASE j < i
    BY <1>1, <1>2, <1>6, <2>1
  <2>2. CASE j >= i
    <3>1. d[j] = b[j - (i - 1)] /\ j - (i - 1) \in 1..(Len(s) - i)
      BY <1>1, <1>6, <2>2
    <3>2. b[j - (i - 1)] = s[i + (j - (i - 1))] /\ i + (j - (i - 1)) = j + 1
      BY <1>1, <1>3, <3>1
    <3> QED BY <2>2, <3>1, <3>2
  <2> QED BY <1>1, <2>1, <2>2
<1> QED BY <1>5, <1>6, <1>7

\* The inductive invariant: sortedness alone is not inductive, because what an
\* insertion does to the order depends on where the search left pos.
IInv == TypeOK /\ Sorted /\ SearchBrackets

-----------------------------------------------------------------------------
\* The probed position lies between lo and hi.
LEMMA MidInRange ==
  ASSUME NEW l \in Int, NEW h \in Int, l <= h
  PROVE  l + (h - l) \div 2 \in l..h
  OBVIOUS

\* Every stored entry has an integer key, and the array has a length.
LEMMA EntriesFacts ==
  ASSUME TypeOK
  PROVE  /\ Len(entries) \in Nat
         /\ \A i \in 1..Len(entries) : entries[i] \in Entry /\ entries[i].key \in Int
<1>1. entries \in Seq(Entry)
  BY DEF TypeOK
<1>2. Len(entries) \in Nat /\ \A i \in 1..Len(entries) : entries[i] \in Entry
  BY <1>1, LenProperties, ElementOfSeq
<1> QED BY <1>2, KeysAssumption DEF Entry

-----------------------------------------------------------------------------
\* An index just constructed.
LEMMA InitIInv == Init => IInv
<1> SUFFICES ASSUME Init PROVE IInv
  OBVIOUS
<1>1. entries = <<>> /\ Len(entries) = 0 /\ entries \in Seq(Entry)
  BY EmptySeq DEF Init
<1>2. TypeOK
  BY <1>1 DEF Init, TypeOK, Void
<1>3. Sorted /\ SearchBrackets
  BY <1>1 DEF Init, Sorted, SearchBrackets
<1> QED BY <1>2, <1>3 DEF IInv

\* The entry of _find_pos brackets the whole array.
LEMMA BeginIInv ==
  ASSUME IInv, NEW c \in Calls, Begin(c)
  PROVE  IInv'
<1>1. Len(entries) \in Nat /\ entries \in Seq(Entry)
  BY EntriesFacts DEF IInv, TypeOK
<1>2. TypeOK'
  BY <1>1 DEF IInv, TypeOK, Begin
<1>3. Sorted'
  BY DEF IInv, Sorted, Begin
<1>4. SearchBrackets'
  <2>1. CASE entries = <<>>
    BY <1>1, <2>1, EmptySeq DEF Begin, SearchBrackets, SplitsAt, BitNot
  <2>2. CASE entries # <<>>
    BY <1>1, <2>2 DEF Begin, SearchBrackets, SplitsAt
  <2> QED BY <2>1, <2>2
<1> QED BY <1>2, <1>3, <1>4 DEF IInv

\* A probe drops only keys on the wrong side of the one it reads: the array is
\* sorted, so they cannot be the searched one.
LEMMA ProbeIInv ==
  ASSUME IInv, Probe
  PROVE  IInv'
<1> DEFINE mid == lo + (hi - lo) \div 2
           k   == entries[mid + 1].key
<1>1. /\ lo \in Int /\ hi \in Int /\ lo >= 0 /\ hi < Len(entries) /\ lo <= hi
      /\ Len(entries) \in Nat /\ call.key \in Int
      /\ \A i \in 1..Len(entries) : entries[i].key \in Int
  BY EntriesFacts, KeysAssumption DEF IInv, TypeOK, Probe, Calls
<1>2. mid \in lo..hi
  BY <1>1, MidInRange
<1>3. mid + 1 \in 1..Len(entries) /\ k \in Int
  <2>1. mid + 1 \in 1..Len(entries)
    BY <1>1, <1>2
  <2> QED BY <1>1, <2>1
<1>4. UNCHANGED <<entries, call, ret>>
  BY DEF Probe
<1>5. \A i, j \in 1..Len(entries) : i < j => entries[i].key < entries[j].key
  BY DEF IInv, Sorted
<1>6. SplitsAt(lo, hi + 1, call.key)
  BY DEF IInv, SearchBrackets, Probe
<1>7. \/ k = call.key /\ pos' = mid /\ pc' = "apply" /\ UNCHANGED <<lo, hi>>
      \/ k < call.key /\ lo' = mid + 1 /\ UNCHANGED <<hi, pos, pc>>
      \/ k > call.key /\ hi' = mid - 1 /\ UNCHANGED <<lo, pos, pc>>
  BY DEF Probe
<1>8. pc = "search"
  BY DEF Probe
<1> HIDE DEF mid, k
<1>9. TypeOK'
  BY <1>1, <1>2, <1>4, <1>7, <1>8 DEF IInv, TypeOK
<1>10. Sorted'
  BY <1>4, <1>5 DEF Sorted
<1>11. SearchBrackets'
  <2>1. CASE k = call.key /\ pos' = mid /\ pc' = "apply" /\ UNCHANGED <<lo, hi>>
    BY <1>1, <1>2, <1>4, <2>1 DEF SearchBrackets, k
  <2>2. CASE k < call.key /\ lo' = mid + 1 /\ UNCHANGED <<hi, pos, pc>>
    <3>1. \A i \in 1..(mid + 1) : entries[i].key < call.key
      <4> SUFFICES ASSUME NEW i \in 1..(mid + 1) PROVE entries[i].key < call.key
        OBVIOUS
      <4>1. i \in 1..Len(entries) /\ (i = mid + 1 \/ i < mid + 1)
        BY <1>1, <1>2
      <4>2. entries[i].key <= k
        BY <1>1, <1>3, <1>5, <4>1 DEF k
      <4> QED BY <1>1, <1>3, <2>2, <4>1, <4>2
    <3> QED BY <1>1, <1>2, <1>4, <1>6, <1>8, <2>2, <3>1 DEF SearchBrackets, SplitsAt
  <2>3. CASE k > call.key /\ hi' = mid - 1 /\ UNCHANGED <<lo, pos, pc>>
    <3>1. \A i \in (mid + 1)..Len(entries) : entries[i].key > call.key
      <4> SUFFICES ASSUME NEW i \in (mid + 1)..Len(entries)
                   PROVE  entries[i].key > call.key
        OBVIOUS
      <4>1. i \in 1..Len(entries) /\ (i = mid + 1 \/ mid + 1 < i)
        BY <1>1, <1>2
      <4>2. k <= entries[i].key
        BY <1>1, <1>3, <1>5, <4>1 DEF k
      <4> QED BY <1>1, <1>3, <2>3, <4>1, <4>2
    <3> QED BY <1>1, <1>2, <1>4, <1>6, <1>8, <2>3, <3>1 DEF SearchBrackets, SplitsAt
  <2> QED BY <1>7, <2>1, <2>2, <2>3
<1> QED BY <1>9, <1>10, <1>11 DEF IInv

\* When the loop ends without a hit, lo is the insertion point.
LEMMA MissIInv ==
  ASSUME IInv, Miss
  PROVE  IInv'
<1>1. /\ lo \in Int /\ hi \in Int /\ lo >= 0 /\ hi < Len(entries)
      /\ Len(entries) \in Nat
  BY EntriesFacts DEF IInv, TypeOK, Miss
<1>2. lo = hi + 1 /\ SplitsAt(lo, hi + 1, call.key)
  BY <1>1 DEF IInv, SearchBrackets, Miss
<1>3. TypeOK'
  BY <1>1 DEF IInv, TypeOK, Miss, BitNot
<1>4. Sorted'
  BY DEF IInv, Sorted, Miss
<1>5. SearchBrackets'
  <2>1. pos' < 0 /\ -(pos') - 1 = lo /\ pc' = "apply" /\ UNCHANGED <<entries, call>>
    BY <1>1 DEF Miss, BitNot
  <2>2. /\ \A i \in 1..lo : entries'[i].key < (call').key
        /\ \A i \in (lo + 1)..Len(entries') : entries'[i].key > (call').key
        /\ lo <= Len(entries')
    BY <1>1, <1>2, <2>1 DEF SplitsAt
  <2>3. ~(pos' >= 0)
    BY <1>1 DEF Miss, BitNot
  <2> QED BY <2>1, <2>2, <2>3 DEF SearchBrackets, SplitsAt, BitNot
<1> QED BY <1>3, <1>4, <1>5 DEF IInv

\* Overwriting a row id moves no key; opening the gap at ~pos puts the new key
\* between the smaller and the larger ones.
LEMMA InsertIInv ==
  ASSUME IInv, ApplyInsert
  PROVE  IInv'
<1> DEFINE n == Len(entries)
           e == [key |-> call.key, row_id |-> call.row_id]
<1>1. /\ n \in Nat /\ entries \in Seq(Entry) /\ pos \in Int /\ e \in Entry
      /\ call.key \in Int
      /\ \A i \in 1..n : entries[i] \in Entry /\ entries[i].key \in Int
  BY EntriesFacts, KeysAssumption DEF IInv, TypeOK, Calls, Entry
<1>2. \A i, j \in 1..n : i < j => entries[i].key < entries[j].key
  BY DEF IInv, Sorted
<1>3. pc = "apply" /\ pc' = "idle" /\ UNCHANGED <<call, lo, hi, pos>>
  BY DEF ApplyInsert
<1>4. SearchBrackets'
  BY <1>3 DEF SearchBrackets
<1>5. CASE pos >= 0
  <2>1. entries' = [entries EXCEPT ![pos + 1].row_id = call.row_id]
    BY <1>5 DEF ApplyInsert
  <2>2. pos + 1 \in 1..n
    BY <1>1, <1>3, <1>5 DEF IInv, SearchBrackets
  <2>3. entries \in [1..n -> Entry] /\ call.row_id \in RowIds
    BY <1>1, LenProperties DEF IInv, TypeOK, Calls
  <2>4. [entries[pos + 1] EXCEPT !.row_id = call.row_id] \in Entry
    BY <1>1, <2>2, <2>3 DEF Entry
  <2>5. /\ entries' \in [1..n -> Entry]
        /\ \A i \in 1..n : entries'[i].key = entries[i].key
    BY <1>1, <2>1, <2>2, <2>3, <2>4 DEF Entry
  <2>6. entries' \in Seq(Entry) /\ Len(entries') = n
    BY <1>1, <2>5
  <2>7. TypeOK'
    BY <1>1, <1>3, <2>6 DEF IInv, TypeOK, ApplyInsert, Void
  <2>8. Sorted'
    BY <1>2, <2>5, <2>6 DEF Sorted
  <2> QED BY <1>4, <2>7, <2>8 DEF IInv
<1>6. CASE ~(pos >= 0)
  <2> DEFINE p == BitNot(pos)
  <2>1. p \in 0..n /\ SplitsAt(p, p, call.key)
    BY <1>1, <1>3, <1>6 DEF IInv, SearchBrackets, BitNot
  <2>2. entries' = InsertAt(entries, p + 1, e)
    BY <1>6 DEF ApplyInsert
  <2>0. p + 1 \in 1..(Len(entries) + 1)
    BY <1>1, <2>1
  <2> HIDE DEF p, e
  <2>3. /\ entries' \in Seq(Entry) /\ Len(entries') = n + 1
        /\ \A j \in 1..(n + 1) :
             entries'[j] = IF j < p + 1 THEN entries[j]
                           ELSE IF j = p + 1 THEN e ELSE entries[j - 1]
    <3>1. entries \in Seq(Entry) /\ e \in Entry
      BY <1>1
    <3> DEFINE at == p + 1
    <3>2. at \in 1..(Len(entries) + 1)
      BY <2>0
    <3> HIDE DEF at
    <3>3. /\ InsertAt(entries, at, e) \in Seq(Entry)
          /\ Len(InsertAt(entries, at, e)) = Len(entries) + 1
          /\ \A j \in 1..(Len(entries) + 1) :
               InsertAt(entries, at, e)[j] =
                 IF j < at THEN entries[j] ELSE IF j = at THEN e ELSE entries[j - 1]
      BY <3>1, <3>2, InsertAtFacts
    <3> QED BY <2>2, <3>3 DEF at
  <2>4. TypeOK'
    BY <1>3, <2>3 DEF IInv, TypeOK, ApplyInsert, Void
  <2>5. ASSUME NEW i \in 1..(n + 1), NEW j \in 1..(n + 1), i < j
        PROVE  entries'[i].key < entries'[j].key
    <3>0. e.key = call.key
      BY DEF e
    <3>1. CASE j < p + 1
      <4>1. i \in 1..n /\ j \in 1..n /\ entries'[i] = entries[i] /\ entries'[j] = entries[j]
        BY <1>1, <2>1, <2>3, <2>5, <3>1
      <4> QED BY <1>2, <2>5, <4>1
    <3>2. CASE j = p + 1
      <4>1. i \in 1..p /\ entries'[i] = entries[i] /\ entries'[j] = e
        BY <1>1, <2>1, <2>3, <2>5, <3>2
      <4> QED BY <2>1, <3>0, <4>1 DEF SplitsAt
    <3>3. CASE j > p + 1
      <4>1. j - 1 \in (p + 1)..n /\ entries'[j] = entries[j - 1]
        BY <1>1, <2>1, <2>3, <3>3
      <4>2. CASE i < p + 1
        <5>1. i \in 1..n /\ i < j - 1 /\ j - 1 \in 1..n /\ entries'[i] = entries[i]
          BY <1>1, <2>1, <2>3, <4>1, <4>2
        <5> QED BY <1>2, <4>1, <5>1
      <4>3. CASE i = p + 1
        <5>1. entries'[i] = e /\ entries[j - 1].key > call.key /\ entries[j - 1].key \in Int
          BY <1>1, <2>1, <2>3, <4>1, <4>3 DEF SplitsAt
        <5> QED BY <1>1, <3>0, <4>1, <5>1
      <4>4. CASE i > p + 1
        <5>1. i - 1 \in 1..n /\ i - 1 < j - 1 /\ j - 1 \in 1..n /\ entries'[i] = entries[i - 1]
          BY <1>1, <2>1, <2>3, <2>5, <4>1, <4>4
        <5> QED BY <1>2, <4>1, <5>1
      <4> QED BY <2>1, <4>2, <4>3, <4>4
    <3> QED BY <2>1, <3>1, <3>2, <3>3
  <2>6. Sorted'
    BY <2>3, <2>5 DEF Sorted
  <2> QED BY <1>4, <2>4, <2>6 DEF IInv
<1> QED BY <1>5, <1>6

\* find reads one entry and changes none.
LEMMA FindIInv ==
  ASSUME IInv, ApplyFind
  PROVE  IInv'
<1>1. pos \in Int /\ \A i \in 1..Len(entries) : entries[i] \in Entry
  BY EntriesFacts DEF IInv, TypeOK
<1>2. pos >= 0 => pos + 1 \in 1..Len(entries)
  BY <1>1, EntriesFacts DEF IInv, SearchBrackets, ApplyFind
<1>3. ret' \in [ok : BOOLEAN, row : RowIds \cup {None}]
  BY <1>1, <1>2 DEF ApplyFind, Entry
<1>4. TypeOK'
  BY <1>3 DEF IInv, TypeOK, ApplyFind
<1> QED BY <1>4 DEF IInv, Sorted, SearchBrackets, ApplyFind

\* Removing an element keeps the order of the others.
LEMMA RemoveIInv ==
  ASSUME IInv, ApplyRemove
  PROVE  IInv'
<1> DEFINE n == Len(entries)
<1>1. n \in Nat /\ entries \in Seq(Entry) /\ pos \in Int
  BY EntriesFacts DEF IInv, TypeOK
<1>2. \A i, j \in 1..n : i < j => entries[i].key < entries[j].key
  BY DEF IInv, Sorted
<1>3. SearchBrackets'
  BY DEF ApplyRemove, SearchBrackets
<1>4. CASE pos < 0
  BY <1>2, <1>3, <1>4 DEF IInv, TypeOK, Sorted, ApplyRemove
<1>5. CASE pos >= 0
  <2>1. pos + 1 \in 1..n /\ entries' = RemoveAt(entries, pos + 1)
    BY <1>1, <1>5 DEF IInv, SearchBrackets, ApplyRemove
  <2>2. /\ entries' \in Seq(Entry) /\ Len(entries') = n - 1
        /\ \A j \in 1..(n - 1) :
             entries'[j] = IF j < pos + 1 THEN entries[j] ELSE entries[j + 1]
    BY <1>1, <2>1, RemoveAtFacts
  <2>3. TypeOK'
    BY <1>1, <2>2 DEF IInv, TypeOK, ApplyRemove
  <2>4. ASSUME NEW i \in 1..(n - 1), NEW j \in 1..(n - 1), i < j
        PROVE  entries'[i].key < entries'[j].key
    <3>1. \E a, b \in 1..n : a < b /\ entries'[i] = entries[a] /\ entries'[j] = entries[b]
      <4>1. CASE j < pos + 1
        BY <1>1, <2>2, <2>4, <4>1
      <4>2. CASE j >= pos + 1
        <5>0. j \in Int /\ pos + 1 \in Int /\ ~(j < pos + 1)
          BY <1>1, <2>4, <4>2
        <5>a. entries'[j] = entries[j + 1]
          BY <2>2, <2>4, <5>0
        <5>b. j + 1 \in 1..n
          BY <1>1, <2>4
        <5>1. entries'[j] = entries[j + 1] /\ j + 1 \in 1..n
          BY <5>a, <5>b
        <5>2. CASE i < pos + 1
          <6>1. entries'[i] = entries[i] /\ i \in 1..n /\ i < j + 1
            BY <1>1, <2>2, <2>4, <5>2
          <6> QED BY <5>1, <6>1
        <5>3. CASE i >= pos + 1
          <6>1. i \in Int /\ j \in Int /\ ~(i < pos + 1)
            BY <1>1, <2>4, <5>3
          <6>2. entries'[i] = entries[i + 1]
            BY <2>2, <2>4, <6>1
          <6>3. i + 1 \in 1..n /\ i + 1 < j + 1
            BY <1>1, <2>4
          <6> QED BY <5>1, <6>2, <6>3
        <5> QED BY <1>1, <5>2, <5>3
      <4> QED BY <1>1, <4>1, <4>2
    <3> QED BY <1>2, <3>1
  <2>5. Sorted'
    BY <2>2, <2>4 DEF Sorted
  <2> QED BY <1>3, <2>3, <2>5 DEF IInv
<1> QED BY <1>1, <1>4, <1>5

\* The empty array satisfies everything.
LEMMA ClearIInv ==
  ASSUME IInv, Clear
  PROVE  IInv'
<1>1. entries' = <<>> /\ entries' \in Seq(Entry) /\ Len(entries') = 0 /\ pc' = "idle"
  BY EmptySeq DEF Clear
<1> QED BY <1>1 DEF IInv, TypeOK, Sorted, SearchBrackets, Clear, Void

\* A step of somebody else.
LEMMA StutterIInv ==
  ASSUME IInv, UNCHANGED vars
  PROVE  IInv'
<1>1. TypeOK'
  BY DEF IInv, TypeOK, vars
<1>2. Sorted' /\ SearchBrackets'
  BY DEF IInv, Sorted, SearchBrackets, SplitsAt, vars
<1> QED BY <1>1, <1>2 DEF IInv

\* Every step of every operation keeps the invariant.
LEMMA NextIInv == IInv /\ [Next]_vars => IInv'
<1> SUFFICES ASSUME IInv, [Next]_vars PROVE IInv'
  OBVIOUS
<1>1. CASE Probe
  BY <1>1, ProbeIInv
<1>2. CASE Miss
  BY <1>2, MissIInv
<1>3. CASE ApplyInsert
  BY <1>3, InsertIInv
<1>4. CASE ApplyFind
  BY <1>4, FindIInv
<1>5. CASE ApplyRemove
  BY <1>5, RemoveIInv
<1>6. CASE Clear
  BY <1>6, ClearIInv
<1>7. CASE \E c \in Calls : Begin(c)
  BY <1>7, BeginIInv
<1>8. CASE UNCHANGED vars
  BY <1>8, StutterIInv
<1> QED BY <1>1, <1>2, <1>3, <1>4, <1>5, <1>6, <1>7, <1>8 DEF Next, Step

\* The invariant holds in every reachable state.
LEMMA Invariance == Spec => []IInv
  BY InitIInv, NextIInv, PTL DEF Spec

-----------------------------------------------------------------------------
\* Every read of _entries in _find_pos, find and insert is in bounds, and every
\* variable has its type, whatever calls are made.
THEOREM TypeCorrect == Spec => []TypeOK
<1>1. IInv => TypeOK
  BY DEF IInv
<1> QED BY <1>1, Invariance, PTL

\* The array _entries is strictly sorted by key after every step of insert,
\* remove and clear: no key is stored twice.
THEOREM AlwaysSorted == Spec => []Sorted
<1>1. IInv => Sorted
  BY DEF IInv
<1> QED BY <1>1, Invariance, PTL

\* _find_pos finds the key if it is there and otherwise returns ~p for the one
\* position p that keeps the array sorted.
THEOREM SearchCorrect == Spec => []SearchBrackets
<1>1. IInv => SearchBrackets
  BY DEF IInv
<1> QED BY <1>1, Invariance, PTL

-----------------------------------------------------------------------------
(***************************************************************************)
(* Refinement: every step of an operation but its last is invisible, and   *)
(* the last has the effect and the answer of the map's operation.          *)
(***************************************************************************)
StrictlySorted(es) ==
  \A i, j \in 1..Len(es) : i < j => es[i].key < es[j].key

\* In a sorted array the key of position i maps to the row id of position i.
LEMMA LookupHit ==
  ASSUME NEW es, Len(es) \in Nat, StrictlySorted(es),
         \A i \in 1..Len(es) : es[i].key \in Int,
         NEW i \in 1..Len(es)
  PROVE  LookupIn(es, es[i].key) = es[i].row_id
<1> DEFINE c == CHOOSE j \in 1..Len(es) : es[j].key = es[i].key
<1>1. c \in 1..Len(es) /\ es[c].key = es[i].key
  OBVIOUS
<1>2. c = i
  BY <1>1 DEF StrictlySorted
<1> QED BY <1>1, <1>2 DEF LookupIn

\* A key of no entry maps to None.
LEMMA LookupMiss ==
  ASSUME NEW es, NEW k, \A i \in 1..Len(es) : es[i].key # k
  PROVE  LookupIn(es, k) = None
BY DEF LookupIn

\* insert changes the map at its key and nowhere else.
LEMMA InsertRefines ==
  ASSUME IInv, IInv', ApplyInsert
  PROVE  \A k \in Keys : LookupIn(entries', k) =
           IF k = call.key THEN call.row_id ELSE LookupIn(entries, k)
<1> DEFINE n == Len(entries)
           e == [key |-> call.key, row_id |-> call.row_id]
<1>1. /\ n \in Nat /\ entries \in Seq(Entry) /\ pos \in Int /\ e \in Entry
      /\ \A i \in 1..n : entries[i] \in Entry /\ entries[i].key \in Int
  BY EntriesFacts DEF IInv, TypeOK, Calls, Entry
<1>2. /\ Len(entries') \in Nat
      /\ \A i \in 1..Len(entries') : entries'[i] \in Entry /\ entries'[i].key \in Int
  <2>1. entries' \in Seq(Entry)
    BY DEF IInv, TypeOK
  <2>2. Len(entries') \in Nat /\ \A i \in 1..Len(entries') : entries'[i] \in Entry
    BY <2>1, LenProperties, ElementOfSeq
  <2> QED BY <2>2, KeysAssumption DEF Entry
<1>3. StrictlySorted(entries) /\ StrictlySorted(entries')
  BY DEF IInv, Sorted, StrictlySorted
<1>4. /\ \E j \in 1..Len(entries') : entries'[j] = e
      /\ \A i \in 1..n : entries[i].key # call.key =>
           \E j \in 1..Len(entries') : entries'[j] = entries[i]
      /\ \A j \in 1..Len(entries') : entries'[j].key # call.key =>
           \E i \in 1..n : entries[i] = entries'[j]
  <2>1. CASE pos >= 0
    <3>1. entries' = [entries EXCEPT ![pos + 1].row_id = call.row_id]
      BY <2>1 DEF ApplyInsert
    <3>2. pos + 1 \in 1..n /\ entries[pos + 1].key = call.key
      BY <1>1, <2>1 DEF IInv, SearchBrackets, ApplyInsert
    <3>3. entries \in [1..n -> Entry] /\ call.row_id \in RowIds
      BY <1>1, LenProperties DEF IInv, TypeOK, Calls
    <3>4. [entries[pos + 1] EXCEPT !.row_id = call.row_id] = e
      BY <1>1, <3>2, <3>3 DEF Entry
    <3>5. /\ entries' \in [1..n -> Entry]
          /\ entries'[pos + 1] = e
          /\ \A i \in 1..n : i # pos + 1 => entries'[i] = entries[i]
      BY <1>1, <3>1, <3>2, <3>3, <3>4
    <3>6. Len(entries') = n
      BY <1>1, <1>2, <3>5, LenProperties
    <3> QED BY <3>2, <3>5, <3>6
  <2>2. CASE ~(pos >= 0)
    <3> DEFINE at == BitNot(pos) + 1
    <3>1. at \in 1..(Len(entries) + 1)
      BY <1>1, <2>2 DEF IInv, SearchBrackets, BitNot, ApplyInsert
    <3>2. entries' = InsertAt(entries, at, e)
      BY <2>2 DEF ApplyInsert
    <3> HIDE DEF at, e
    <3>3. /\ Len(InsertAt(entries, at, e)) = Len(entries) + 1
          /\ \A j \in 1..(Len(entries) + 1) :
               InsertAt(entries, at, e)[j] =
                 IF j < at THEN entries[j] ELSE IF j = at THEN e ELSE entries[j - 1]
      BY <1>1, <3>1, InsertAtFacts
    <3>4. /\ Len(entries') = n + 1
          /\ \A j \in 1..(n + 1) : j < at => entries'[j] = entries[j]
          /\ entries'[at] = e
          /\ \A j \in 1..(n + 1) : j > at => entries'[j] = entries[j - 1]
      BY <1>1, <3>1, <3>2, <3>3
    <3>5. ASSUME NEW i \in 1..n
          PROVE  \E j \in 1..Len(entries') : entries'[j] = entries[i]
      <4>1. CASE i < at
        BY <1>1, <3>4, <4>1
      <4>2. CASE i >= at
        <5>1. i + 1 \in 1..(n + 1) /\ i + 1 > at /\ (i + 1) - 1 = i
          BY <1>1, <3>1, <4>2
        <5> QED BY <3>4, <5>1
      <4> QED BY <1>1, <3>1, <4>1, <4>2
    <3>6. ASSUME NEW j \in 1..Len(entries'), entries'[j].key # call.key
          PROVE  \E i \in 1..n : entries[i] = entries'[j]
      <4>1. CASE j < at
        BY <1>1, <3>1, <3>4, <4>1
      <4>2. CASE j > at
        <5>1. j \in 1..(n + 1) /\ j - 1 \in 1..n
          BY <1>1, <3>1, <3>4, <4>2
        <5> QED BY <3>4, <4>2, <5>1
      <4>3. j # at
        BY <3>4, <3>6 DEF e
      <4> QED BY <1>1, <3>1, <3>4, <4>1, <4>2, <4>3
    <3> QED BY <1>1, <3>1, <3>4, <3>5, <3>6
  <2> QED BY <2>1, <2>2
<1>5. ASSUME NEW k \in Keys
      PROVE  LookupIn(entries', k) =
               IF k = call.key THEN call.row_id ELSE LookupIn(entries, k)
  <2>1. CASE k = call.key
    <3>1. PICK j \in 1..Len(entries') : entries'[j] = e
      BY <1>4
    <3>2. entries'[j].key = k /\ entries'[j].row_id = call.row_id
      BY <2>1, <3>1
    <3> QED BY <1>2, <1>3, <2>1, <3>2, LookupHit
  <2>2. CASE k # call.key
    <3>1. CASE \E i \in 1..n : entries[i].key = k
      <4>1. PICK i \in 1..n : entries[i].key = k
        BY <3>1
      <4>2. PICK j \in 1..Len(entries') : entries'[j] = entries[i]
        BY <1>4, <2>2, <4>1
      <4>3. LookupIn(entries, k) = entries[i].row_id
        BY <1>1, <1>3, <4>1, LookupHit
      <4>4. LookupIn(entries', k) = entries'[j].row_id
        BY <1>2, <1>3, <4>1, <4>2, LookupHit
      <4> QED BY <2>2, <4>2, <4>3, <4>4
    <3>2. CASE ~ \E i \in 1..n : entries[i].key = k
      <4>1. \A j \in 1..Len(entries') : entries'[j].key # k
        BY <1>4, <2>2, <3>2
      <4> QED BY <2>2, <3>2, <4>1, LookupMiss
    <3> QED BY <3>1, <3>2
  <2> QED BY <2>1, <2>2
<1> QED BY <1>5

\* What the position returned by _find_pos says about the map.
LEMMA PosTellsLookup ==
  ASSUME IInv, pc = "apply"
  PROVE  /\ pos >= 0 => /\ LookupIn(entries, call.key) = entries[pos + 1].row_id
                        /\ LookupIn(entries, call.key) \in RowIds
         /\ ~(pos >= 0) => LookupIn(entries, call.key) = None
<1>1. /\ Len(entries) \in Nat /\ pos \in Int /\ call.key \in Int
      /\ \A i \in 1..Len(entries) : entries[i] \in Entry /\ entries[i].key \in Int
  BY EntriesFacts, KeysAssumption DEF IInv, TypeOK, Calls
<1>2. StrictlySorted(entries)
  BY DEF IInv, Sorted, StrictlySorted
<1>3. CASE pos >= 0
  <2>1. pos + 1 \in 1..Len(entries) /\ entries[pos + 1].key = call.key
    BY <1>1, <1>3 DEF IInv, SearchBrackets
  <2>2. entries[pos + 1].row_id \in RowIds
    BY <1>1, <2>1 DEF Entry
  <2> QED BY <1>1, <1>2, <1>3, <2>1, <2>2, LookupHit
<1>4. CASE ~(pos >= 0)
  <2> DEFINE p == BitNot(pos)
  <2>1. p \in 0..Len(entries) /\ SplitsAt(p, p, call.key)
    BY <1>1, <1>4 DEF IInv, SearchBrackets, BitNot
  <2>2. \A i \in 1..Len(entries) : entries[i].key # call.key
    BY <1>1, <2>1 DEF SplitsAt
  <2> QED BY <1>4, <2>2, LookupMiss
<1> QED BY <1>3, <1>4

\* remove takes its key out of the map and no other.
LEMMA RemoveRefines ==
  ASSUME IInv, IInv', ApplyRemove, pos >= 0
  PROVE  \A k \in Keys : LookupIn(entries', k) =
           IF k = call.key THEN None ELSE LookupIn(entries, k)
<1> DEFINE n == Len(entries)
           at == pos + 1
<1>1. /\ n \in Nat /\ entries \in Seq(Entry) /\ pos \in Int
      /\ \A i \in 1..n : entries[i] \in Entry /\ entries[i].key \in Int
  BY EntriesFacts DEF IInv, TypeOK
<1>2. StrictlySorted(entries) /\ StrictlySorted(entries')
  BY DEF IInv, Sorted, StrictlySorted
<1>3. at \in 1..n /\ entries[at].key = call.key /\ entries' = RemoveAt(entries, at)
  BY <1>1 DEF IInv, SearchBrackets, ApplyRemove
<1> HIDE DEF at
<1>4. /\ Len(entries') = n - 1
      /\ \A j \in 1..(n - 1) :
           entries'[j] = IF j < at THEN entries[j] ELSE entries[j + 1]
  BY <1>1, <1>3, RemoveAtFacts
<1>5. \A j \in 1..(n - 1) : \E i \in 1..n : i # at /\ entries'[j] = entries[i]
  <2> SUFFICES ASSUME NEW j \in 1..(n - 1)
               PROVE  \E i \in 1..n : i # at /\ entries'[j] = entries[i]
    OBVIOUS
  <2>1. CASE j < at
    BY <1>1, <1>3, <1>4, <2>1
  <2>2. CASE j >= at
    <3>1. j + 1 \in 1..n /\ j + 1 # at /\ entries'[j] = entries[j + 1]
      BY <1>1, <1>3, <1>4, <2>2
    <3> QED BY <3>1
  <2> QED BY <1>1, <1>3, <2>1, <2>2
<1>6. \A i \in 1..n : i # at => \E j \in 1..(n - 1) : entries'[j] = entries[i]
  <2> SUFFICES ASSUME NEW i \in 1..n, i # at
               PROVE  \E j \in 1..(n - 1) : entries'[j] = entries[i]
    OBVIOUS
  <2>1. CASE i < at
    BY <1>1, <1>3, <1>4, <2>1
  <2>2. CASE i > at
    <3>1. i - 1 \in 1..(n - 1) /\ entries'[i - 1] = entries[i]
      BY <1>1, <1>3, <1>4, <2>2
    <3> QED BY <3>1
  <2> QED BY <1>1, <1>3, <2>1, <2>2
<1>7. \A i \in 1..n : i # at => entries[i].key # call.key
  BY <1>1, <1>2, <1>3 DEF StrictlySorted
<1>8. \A j \in 1..Len(entries') : entries'[j].key \in Int
  BY <1>1, <1>4, <1>5
<1>9. ASSUME NEW k \in Keys
      PROVE  LookupIn(entries', k) =
               IF k = call.key THEN None ELSE LookupIn(entries, k)
  <2>1. CASE k = call.key
    <3>1. \A j \in 1..Len(entries') : entries'[j].key # k
      BY <1>4, <1>5, <1>7, <2>1
    <3> QED BY <2>1, <3>1, LookupMiss
  <2>2. CASE k # call.key
    <3>1. CASE \E i \in 1..n : entries[i].key = k
      <4>1. PICK i \in 1..n : entries[i].key = k
        BY <3>1
      <4>2. PICK j \in 1..Len(entries') : entries'[j] = entries[i]
        BY <1>3, <1>4, <1>6, <2>2, <4>1
      <4>3. LookupIn(entries, k) = entries[i].row_id
        BY <1>1, <1>2, <4>1, LookupHit
      <4>4. Len(entries') \in Nat
        BY <1>1, <1>3, <1>4
      <4>5. LookupIn(entries', k) = entries'[j].row_id
        BY <1>2, <1>8, <4>1, <4>2, <4>4, LookupHit
      <4> QED BY <2>2, <4>2, <4>3, <4>5
    <3>2. CASE ~ \E i \in 1..n : entries[i].key = k
      <4>1. \A j \in 1..Len(entries') : entries'[j].key # k
        BY <1>4, <1>5, <3>2
      <4> QED BY <2>2, <3>2, <4>1, LookupMiss
    <3> QED BY <3>1, <3>2
  <2> QED BY <2>1, <2>2
<1> QED BY <1>9

\* The state of the map that the array stands for.
Map == [k \in Keys |-> LookupIn(entries, k)]

\* The empty array stands for the empty map.
LEMMA InitRefines == Init => Abstract!Init
<1> SUFFICES ASSUME Init PROVE Abstract!Init
  OBVIOUS
<1>1. \A k \in Keys : LookupIn(entries, k) = None
  BY LookupMiss, EmptySeq DEF Init
<1> QED BY <1>1 DEF Init, Abstract!Init, Abstract!Void, Abstract!NoCall, Void, Pending

\* Every step of Index is a step of IndexMap or leaves the map's state alone.
LEMMA StepRefines ==
  ASSUME IInv, IInv', [Next]_vars
  PROVE  [Abstract!Next]_Abstract!vars
<1>1. CASE Probe
  BY <1>1 DEF Probe, Abstract!vars, Pending
<1>2. CASE Miss
  BY <1>2 DEF Miss, Abstract!vars, Pending
<1>3. CASE \E c \in Calls : Begin(c)
  <2>1. PICK c \in Calls : Begin(c)
    BY <1>3
  <2>2. UNCHANGED <<entries, ret>> /\ pc = "idle" /\ pc' # "idle" /\ call' = c
    BY <2>1 DEF Begin
  <2>3. Abstract!Call(c)
    BY <2>2 DEF Abstract!Call, Abstract!NoCall, Pending
  <2>4. c \in Abstract!Calls
    BY DEF Calls, Abstract!Calls
  <2> QED BY <2>3, <2>4 DEF Abstract!Next
<1>4. CASE UNCHANGED vars
  BY <1>4 DEF vars, Abstract!vars, Pending
<1>5. CASE Clear
  <2>1. \A k \in Keys : LookupIn(entries', k) = None
    BY <1>5, LookupMiss, EmptySeq DEF Clear
  <2>2. Abstract!Clear
    BY <1>5, <2>1 DEF Clear, Abstract!Clear, Abstract!Void, Abstract!NoCall, Void, Pending
  <2> QED BY <2>2 DEF Abstract!Next
<1>6. CASE ApplyInsert
  <2>1. call.key \in Keys /\ call.row_id \in RowIds
    BY DEF IInv, TypeOK, Calls
  <2>2. Map' = [Map EXCEPT ![call.key] = call.row_id]
    BY <1>6, <2>1, InsertRefines DEF Map
  <2>3. Abstract!Insert(call.key, call.row_id)
    BY <1>6, <2>2 DEF ApplyInsert, Abstract!Insert, Abstract!Void, Void, Map
  <2>4. Pending = call /\ Pending' = [op |-> "none"] /\ call.op = "insert"
    BY <1>6 DEF ApplyInsert, Pending
  <2>5. Abstract!Serve
    BY <2>3, <2>4 DEF Abstract!Serve, Abstract!NoCall
  <2> QED BY <2>5 DEF Abstract!Next
<1>7. CASE ApplyFind
  <2>1. call.key \in Keys /\ pos \in Int
    BY DEF IInv, TypeOK, Calls
  <2>2. /\ pos >= 0 => Map[call.key] = entries[pos + 1].row_id /\ Map[call.key] # None
        /\ ~(pos >= 0) => Map[call.key] = None
    BY <1>7, <2>1, PosTellsLookup, NoneAssumption DEF Map, ApplyFind
  <2>3. ret' = [ok |-> Map[call.key] # None, row |-> Map[call.key]]
    <3>1. CASE pos >= 0
      <4>1. ret' = [ok |-> TRUE, row |-> entries[pos + 1].row_id]
        BY <1>7, <2>1, <3>1 DEF ApplyFind
      <4>2. (Map[call.key] # None) = TRUE /\ Map[call.key] = entries[pos + 1].row_id
        BY <2>2, <3>1
      <4> QED BY <4>1, <4>2
    <3>2. CASE ~(pos >= 0)
      <4>1. ret' = [ok |-> FALSE, row |-> None]
        BY <1>7, <2>1, <3>2 DEF ApplyFind
      <4>2. (Map[call.key] # None) = FALSE /\ Map[call.key] = None
        BY <2>2, <3>2
      <4> QED BY <4>1, <4>2
    <3> QED BY <3>1, <3>2
  <2>4. Map' = Map
    BY <1>7 DEF ApplyFind, Map
  <2>5. Abstract!Find(call.key)
    BY <2>3, <2>4 DEF Abstract!Find, Map
  <2>6. Pending = call /\ Pending' = [op |-> "none"] /\ call.op = "find"
    BY <1>7 DEF ApplyFind, Pending
  <2>7. Abstract!Serve
    BY <2>5, <2>6 DEF Abstract!Serve, Abstract!NoCall
  <2> QED BY <2>7 DEF Abstract!Next
<1>8. CASE ApplyRemove
  <2>1. call.key \in Keys /\ pos \in Int
    BY DEF IInv, TypeOK, Calls
  <2>2. /\ pos >= 0 => Map[call.key] # None
        /\ ~(pos >= 0) => Map[call.key] = None
    BY <1>8, <2>1, PosTellsLookup, NoneAssumption DEF Map, ApplyRemove
  <2>3. Map' = [Map EXCEPT ![call.key] = None]
    <3>1. CASE pos >= 0
      BY <1>8, <2>1, <3>1, RemoveRefines DEF Map
    <3>2. CASE ~(pos >= 0)
      <4>1. entries' = entries
        BY <1>8, <2>1, <3>2 DEF ApplyRemove
      <4> QED BY <2>1, <2>2, <3>2, <4>1 DEF Map
    <3> QED BY <3>1, <3>2
  <2>4. ret' = [ok |-> Map[call.key] # None, row |-> None]
    <3>1. CASE pos >= 0
      BY <1>8, <2>2, <3>1 DEF ApplyRemove
    <3>2. CASE ~(pos >= 0)
      BY <1>8, <2>2, <3>2 DEF ApplyRemove
    <3> QED BY <3>1, <3>2
  <2>5. Abstract!Remove(call.key)
    BY <2>3, <2>4 DEF Abstract!Remove, Map
  <2>6. Pending = call /\ Pending' = [op |-> "none"] /\ call.op = "remove"
    BY <1>8 DEF ApplyRemove, Pending
  <2>7. Abstract!Serve
    BY <2>5, <2>6 DEF Abstract!Serve, Abstract!NoCall
  <2> QED BY <2>7 DEF Abstract!Next
<1> QED BY <1>1, <1>2, <1>3, <1>4, <1>5, <1>6, <1>7, <1>8 DEF Next, Step

\* The array with its binary search implements the map of the comments in
\* index.hpp: insert overwrites, find and remove answer as the map does.
THEOREM Refinement == Spec => ImplementsMap
<1>1. Init => Abstract!Init
  BY InitRefines
<1>2. IInv /\ IInv' /\ [Next]_vars => [Abstract!Next]_Abstract!vars
  BY StepRefines
<1> QED BY <1>1, <1>2, Invariance, PTL DEF Spec, ImplementsMap, Abstract!Spec
=============================================================================
