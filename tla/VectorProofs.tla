----------------------------- MODULE VectorProofs ----------------------------
(***************************************************************************)
(* What holds of core::Vector (Vector) for every number of vectors and     *)
(* blocks, every first capacity and any elements; that the vectors are     *)
(* lists (Lists) is shown at the end.                                      *)
(***************************************************************************)
EXTENDS Vector, SequenceTheorems, FiniteSetTheorems, WellFoundedInduction, TLAPS

\* Removing the element at position p, as Lists says it (RemoveAt) keeps
\* the elements before p and moves the others down.
LEMMA RemoveAtFacts ==
  ASSUME NEW S, NEW s \in Seq(S), NEW p \in 1..Len(s)
  PROVE  /\ RemoveAt(s, p) \in Seq(S)
         /\ Len(RemoveAt(s, p)) = Len(s) - 1
         /\ \A j \in 1..(Len(s) - 1) :
              RemoveAt(s, p)[j] = IF j < p THEN s[j] ELSE s[j + 1]
<1> DEFINE a == SubSeq(s, 1, p - 1)
           b == SubSeq(s, p + 1, Len(s))
<1>1. Len(s) \in Nat /\ \A n \in 1..Len(s) : s[n] \in S
  BY LenProperties, ElementOfSeq
<1>2. /\ a \in Seq(S) /\ Len(a) = p - 1
      /\ \A n \in 1..(p - 1) : a[n] = s[n]
  <2>1. \A n \in 1..(p - 1) : s[n] \in S
    BY <1>1
  <2> QED BY <1>1, <2>1, SubSeqProperties
<1>3. /\ b \in Seq(S) /\ Len(b) = Len(s) - p
      /\ \A n \in 1..(Len(s) - p) : b[n] = s[p + n]
  <2>1. \A n \in (p + 1)..Len(s) : s[n] \in S
    BY <1>1
  <2>2. /\ b \in Seq(S)
        /\ Len(b) = IF p + 1 <= Len(s) THEN Len(s) - (p + 1) + 1 ELSE 0
        /\ \A n \in 1..(Len(s) - (p + 1) + 1) : b[n] = s[p + 1 + n - 1]
    BY <1>1, <2>1, SubSeqProperties
  <2> QED BY <1>1, <2>2
<1> HIDE DEF a, b
<1>4. /\ a \o b \in Seq(S)
      /\ Len(a \o b) = Len(a) + Len(b)
      /\ \A n \in 1..(Len(a) + Len(b)) :
           (a \o b)[n] = IF n <= Len(a) THEN a[n] ELSE b[n - Len(a)]
  BY <1>2, <1>3, ConcatProperties
<1> DEFINE d == a \o b
<1>5. RemoveAt(s, p) = d
  BY DEF RemoveAt, a, b
<1> HIDE DEF d
<1>6. /\ d \in Seq(S) /\ Len(d) = Len(s) - 1
      /\ \A n \in 1..(Len(s) - 1) :
           d[n] = IF n <= p - 1 THEN a[n] ELSE b[n - (p - 1)]
  BY <1>1, <1>2, <1>3, <1>4 DEF d
<1>7. ASSUME NEW j \in 1..(Len(s) - 1)
      PROVE  d[j] = IF j < p THEN s[j] ELSE s[j + 1]
  <2>1. CASE j < p
    BY <1>1, <1>2, <1>6, <2>1
  <2>2. CASE j >= p
    <3>1. d[j] = b[j - (p - 1)] /\ j - (p - 1) \in 1..(Len(s) - p)
      BY <1>1, <1>6, <2>2
    <3>2. b[j - (p - 1)] = s[p + (j - (p - 1))] /\ p + (j - (p - 1)) = j + 1
      BY <1>1, <1>3, <3>1
    <3> QED BY <2>2, <3>1, <3>2
  <2> QED BY <1>1, <2>1, <2>2
<1> QED BY <1>5, <1>6, <1>7

Objects == {Obj(x) : x \in Values \cup {Default}}
Members == [data : Blocks \cup {Null}, size : Nat, cap : Nat]
Heaps   == {h \in [Blocks \cup {Null} -> [used : {TRUE}, cells : Seq(Cells)] \cup {Freed}] :
              h[Null] = Freed}

(***************************************************************************)
(* The inductive invariant                                                 *)
(***************************************************************************)

Typed ==
  /\ vec \in [Names -> Members \cup {Dead}]
  /\ heap \in Heaps
  /\ pc \in {"idle", "grow", "put", "clear", "release", "allocate", "build", "shift"}
  /\ new \in Blocks \cup {Null}
  /\ new # Null <=> pc = "grow"
  /\ i \in Nat

\* Every live vector with a block is its owner, and its only one; the block that
\* reserve is filling has none.
Owned ==
  /\ \A n \in Names : Live(n) /\ vec[n].data # Null =>
       heap[vec[n].data] # Freed /\ vec[n].data # new
  /\ \A n, m \in Names : Live(n) /\ Live(m) /\ vec[n].data = vec[m].data /\ vec[n].data # Null
       => n = m
  /\ new # Null => heap[new] # Freed
  /\ \A b \in Blocks : heap[b] # Freed =>
       b = new \/ \E n \in Names : Live(n) /\ vec[n].data = b

\* The members m of a vector and its block fit: the block has the capacity.
Fits(m, block) == m.size <= m.cap /\ m.cap = Len(block.cells)

\* The cells from k to l, and only they, hold objects.
Filled(cells, k, l) ==
  \A j \in 1..Len(cells) : IF k <= j /\ j <= l THEN cells[j] \in Objects ELSE cells[j] = Raw

\* A vector no call is working on: its elements are all the objects it has.
Whole(m, block) == Fits(m, block) /\ Filled(block.cells, 1, m.size)

Busy(n) == pc # "idle" /\ n = job.v

Resting == \A n \in Names : Live(n) /\ ~Busy(n) => Whole(vec[n], heap[vec[n].data])

\* What is known of the call that runs.
Called ==
  /\ pc = "idle" => job = NoJob /\ i = 0
  /\ pc # "idle" => job.v \in Names /\ Live(job.v) /\ job.op # "none"
  /\ pc \in {"grow", "put"} => job.op = "push" /\ job.x \in Values
  /\ pc = "clear" => job.op \in {"clear", "destroy", "copy", "move"}
  /\ pc = "release" => job.op \in {"destroy", "copy", "move"}
  /\ pc = "allocate" => job.op = "copy"
  /\ pc = "build" => job.op \in {"sized", "copy"}
  /\ pc = "shift" => job.op \in {"remove", "pop"}
  /\ pc # "idle" /\ job.op \in {"copy", "move"} =>
       job.w \in Names /\ job.w # job.v /\ Live(job.w)

\* And of the vector it works on, between two iterations.
Working ==
  LET cells == heap[me.data].cells
  IN  /\ pc # "idle" => Fits(me, heap[me.data])
      /\ pc = "grow" =>
           /\ i \in 1..(me.size + 1) /\ me.size < Len(heap[new].cells)
           /\ Filled(cells, i, me.size)
           /\ Filled(heap[new].cells, 1, i - 1)
      /\ pc = "put" => me.size < me.cap /\ Filled(cells, 1, me.size)
      /\ pc = "clear" => i \in 1..(me.size + 1) /\ Filled(cells, i, me.size)
      /\ pc = "release" => me.size = 0 /\ Filled(cells, 1, 0)
      /\ pc = "allocate" => me = Empty
      /\ pc = "build" =>
           /\ i \in 1..(me.size + 1) /\ Filled(cells, 1, i - 1)
           /\ job.op = "copy" => me.size = vec[job.w].size
      /\ pc = "shift" =>
           /\ i \in 1..me.size
           /\ \A k \in 1..me.cap :
                /\ k <= me.size /\ k # i => cells[k] \in Objects
                /\ k = i => cells[k] \in Objects \cup {Hollow}
                /\ k > me.size => cells[k] = Raw

IInv == Typed /\ Owned /\ Resting /\ Called /\ Working

-----------------------------------------------------------------------------
(***************************************************************************)
(* Heaps and their cells                                                   *)
(***************************************************************************)

\* What is in a cell tells an object from none, and a vector is not a dead one.
LEMMA Distinct ==
  /\ Raw \notin Objects /\ Hollow \notin Objects /\ Raw # Hollow
  /\ Objects \subseteq Cells /\ Raw \in Cells /\ Hollow \in Cells
  /\ Empty \in Members /\ Dead \notin Members
  /\ Null \notin Blocks
<1>1. Raw \notin Objects /\ Hollow \notin Objects /\ Raw # Hollow
  BY DEF Raw, Hollow, Objects, Obj
<1>2. Objects \subseteq Cells /\ Raw \in Cells /\ Hollow \in Cells
  BY DEF Objects, Cells
<1>3. Empty \in Members
  BY DEF Empty, Members
<1>4. Dead \notin Members
  <2>1. DOMAIN Dead = {"dead"}
    BY DEF Dead
  <2>2. \A m \in Members : DOMAIN m = {"data", "size", "cap"}
    BY DEF Members
  <2> QED BY <2>1, <2>2
<1>5. Null \notin Blocks
  BY DEF Null, Blocks
<1> QED BY <1>1, <1>2, <1>3, <1>4, <1>5

\* A heap has blocks of cells.
LEMMA HeapFacts ==
  ASSUME NEW h \in Heaps, NEW b \in Blocks \cup {Null}
  PROVE  /\ h[b] # Freed => b \in Blocks /\ h[b].cells \in Seq(Cells) /\ h[b].used = TRUE
         /\ h[b] = Freed => Len(h[b].cells) = 0
         /\ Len(h[b].cells) \in Nat
         /\ h[Null] = Freed /\ Len(h[Null].cells) = 0
<1>1. h[Null] = Freed /\ (h[b] = Freed \/ h[b] \in [used : {TRUE}, cells : Seq(Cells)])
  BY DEF Heaps
<1>2. Len(Freed.cells) = 0
  BY DEF Freed
<1>3. h[b] # Freed => b \in Blocks /\ h[b].cells \in Seq(Cells) /\ h[b].used = TRUE
  BY <1>1
<1> QED BY <1>1, <1>2, <1>3, LenProperties

\* g is h with x in cell k of block b, and this is all the difference.
Written(h, g, b, k, x) == g = [h EXCEPT ![b].cells[k] = x]

OneCell(h, g, b, k, x) ==
  /\ g \in Heaps /\ g[b] # Freed
  /\ Len(g[b].cells) = Len(h[b].cells)
  /\ g[b].cells[k] = x
  /\ \A j \in 1..Len(h[b].cells) : j # k => g[b].cells[j] = h[b].cells[j]
  /\ \A c \in Blocks \cup {Null} : c # b => g[c] = h[c]

LEMMA WriteCell ==
  ASSUME NEW h \in Heaps, NEW b \in Blocks, h[b] # Freed,
         NEW k \in 1..Len(h[b].cells), NEW x \in Cells,
         NEW g, Written(h, g, b, k, x)
  PROVE  OneCell(h, g, b, k, x)
<1> DEFINE cells == h[b].cells
           after == [cells EXCEPT ![k] = x]
           block == [h[b] EXCEPT !.cells = after]
<1>1. h[b] \in [used : {TRUE}, cells : Seq(Cells)]
  BY DEF Heaps
<1>2. cells \in Seq(Cells)
  BY <1>1
<1>3. /\ after \in Seq(Cells) /\ Len(after) = Len(cells)
      /\ \A j \in 1..Len(cells) : after[j] = IF j = k THEN x ELSE cells[j]
  BY <1>2, ExceptSeq
<1>4. [h[b] EXCEPT !.cells[k] = x] = block
  OBVIOUS
<1>5. g = [h EXCEPT ![b] = block]
  BY <1>4 DEF Written
<1> HIDE DEF cells, after
<1>6. /\ block \in [used : {TRUE}, cells : Seq(Cells)]
      /\ block.cells = after /\ block.used
  BY <1>1, <1>3
<1> HIDE DEF block
<1>7. block # Freed
  BY <1>6 DEF Freed
<1>8. /\ g[b] = block /\ DOMAIN g = Blocks \cup {Null}
      /\ \A c \in Blocks \cup {Null} : c # b => g[c] = h[c]
  BY <1>5 DEF Heaps
<1>9. g \in Heaps
  <2>1. b # Null /\ h \in [Blocks \cup {Null} -> [used : {TRUE}, cells : Seq(Cells)] \cup {Freed}]
    BY Distinct DEF Heaps
  <2>2. g \in [Blocks \cup {Null} -> [used : {TRUE}, cells : Seq(Cells)] \cup {Freed}]
    BY <1>5, <1>6, <2>1
  <2>3. g[Null] = Freed
    BY <1>8, <2>1 DEF Heaps
  <2> QED BY <2>2, <2>3 DEF Heaps
<1> QED BY <1>3, <1>6, <1>7, <1>8, <1>9 DEF cells, OneCell

\* Freeing a block, or none, changes no other.
LEMMA FreeBlock ==
  ASSUME NEW b \in Blocks \cup {Null}, heap \in Heaps, heap' = [heap EXCEPT ![b] = Freed]
  PROVE  /\ heap' \in Heaps /\ heap'[b] = Freed
         /\ \A c \in Blocks \cup {Null} : c # b => heap'[c] = heap[c]
BY DEF Heaps

\* A block of n cells with no objects.
LEMMA AllocateFacts ==
  ASSUME heap \in Heaps, NEW n \in Nat, NEW b \in Blocks, Allocate(n, b)
  PROVE  /\ heap' \in Heaps /\ heap[b] = Freed /\ heap'[b] # Freed
         /\ Len(heap'[b].cells) = n /\ \A k \in 1..n : heap'[b].cells[k] = Raw
         /\ \A c \in Blocks \cup {Null} : c # b => heap'[c] = heap[c]
<1> DEFINE cells == [k \in 1..n |-> Raw]
           block == [used |-> TRUE, cells |-> cells]
<1>1. heap' = [heap EXCEPT ![b] = block] /\ heap[b] = Freed
  BY DEF Allocate
<1>2. cells \in Seq(Cells) /\ Len(cells) = n /\ \A k \in 1..n : cells[k] = Raw
  BY Distinct
<1> HIDE DEF cells
<1>3. block # Freed /\ block \in [used : {TRUE}, cells : Seq(Cells)]
  BY <1>2 DEF Freed
<1>4. b # Null /\ heap \in [Blocks \cup {Null} -> [used : {TRUE}, cells : Seq(Cells)] \cup {Freed}]
  BY Distinct DEF Heaps
<1>5. /\ heap'[b] = block
      /\ \A c \in Blocks \cup {Null} : c # b => heap'[c] = heap[c]
  BY <1>1, <1>4
<1>6. heap' \in Heaps
  BY <1>1, <1>3, <1>4, <1>5 DEF Heaps
<1> QED BY <1>1, <1>2, <1>3, <1>5, <1>6

\* An object more or less at the end of those a block has.
LEMMA FilledSteps ==
  ASSUME NEW old, NEW now, NEW n \in Nat, Len(old) = n, Len(now) = n, NEW k \in 1..n,
         NEW l \in Nat, \A j \in 1..n : j # k => now[j] = old[j]
  PROVE  /\ Filled(old, k, l) /\ now[k] = Raw => Filled(now, k + 1, l)
         /\ Filled(old, 1, k - 1) /\ now[k] \in Objects => Filled(now, 1, k)
<1>1. ASSUME Filled(old, k, l), now[k] = Raw
      PROVE  Filled(now, k + 1, l)
  <2>1. \A j \in 1..n : IF k <= j /\ j <= l THEN old[j] \in Objects ELSE old[j] = Raw
    BY <1>1 DEF Filled
  <2>2. ASSUME NEW j \in 1..n
        PROVE  IF k + 1 <= j /\ j <= l THEN now[j] \in Objects ELSE now[j] = Raw
    BY <1>1, <2>1
  <2> QED BY <2>2 DEF Filled
<1>2. ASSUME Filled(old, 1, k - 1), now[k] \in Objects
      PROVE  Filled(now, 1, k)
  <2>1. \A j \in 1..n : IF 1 <= j /\ j <= k - 1 THEN old[j] \in Objects ELSE old[j] = Raw
    BY <1>2 DEF Filled
  <2>2. ASSUME NEW j \in 1..n
        PROVE  IF 1 <= j /\ j <= k THEN now[j] \in Objects ELSE now[j] = Raw
    BY <1>2, <2>1
  <2> QED BY <2>2 DEF Filled
<1> QED BY <1>1, <1>2

\* The cells of a vector that is whole, one by one.
LEMMA WholeCells ==
  ASSUME NEW m \in Members, NEW block, Whole(m, block)
  PROVE  /\ m.size <= m.cap /\ m.cap = Len(block.cells)
         /\ \A k \in 1..m.cap : /\ k <= m.size => block.cells[k] \in Objects
                                /\ k > m.size => block.cells[k] = Raw
<1>1. m.size \in Nat /\ m.cap \in Nat
  BY DEF Members
<1>2. m.size <= m.cap /\ m.cap = Len(block.cells)
  BY DEF Whole, Fits
<1>3. \A k \in 1..m.cap : IF 1 <= k /\ k <= m.size THEN block.cells[k] \in Objects
                          ELSE block.cells[k] = Raw
  BY <1>2 DEF Whole, Filled
<1> QED BY <1>1, <1>2, <1>3

-----------------------------------------------------------------------------
(***************************************************************************)
(* What a step leaves alone                                                *)
(***************************************************************************)

\* A step that gives no block away and takes none keeps the owners.
LEMMA SameOwners ==
  ASSUME Owned, new' = new,
         \A n \in Names : (Live(n)' <=> Live(n)) /\ (Live(n) => vec'[n].data = vec[n].data),
         \A n \in Names : vec[n].data \in Blocks \cup {Null} \/ ~Live(n), new \in Blocks \cup {Null},
         \A b \in Blocks \cup {Null} : (heap'[b] = Freed) <=> (heap[b] = Freed)
  PROVE  Owned'
<1>1. \A n \in Names : Live(n) /\ vec[n].data # Null =>
         heap'[vec[n].data] # Freed /\ vec[n].data # new
  BY DEF Owned
<1>2. new # Null => heap'[new] # Freed
  BY DEF Owned
<1>3. \A b \in Blocks : heap'[b] # Freed =>
        b = new \/ \E n \in Names : Live(n) /\ vec[n].data = b
  BY DEF Owned
<1>4. \A n, m \in Names : Live(n) /\ Live(m) /\ vec[n].data = vec[m].data /\ vec[n].data # Null
         => n = m
  BY DEF Owned
<1> QED BY <1>1, <1>2, <1>3, <1>4 DEF Owned

\* The members of a live vector.
LEMMA LiveFacts ==
  ASSUME Typed, NEW n \in Names, Live(n)
  PROVE  /\ vec[n] \in Members /\ vec[n].data \in Blocks \cup {Null}
         /\ vec[n].size \in Nat /\ vec[n].cap \in Nat
BY DEF Typed, Live, Members

\* A step that touches only the block of v, the one reserve fills and free ones
\* leaves every other vector as it was.
LEMMA OthersAlone ==
  ASSUME Typed, Owned, Resting, heap' \in Heaps, NEW v \in Names,
         \A n \in Names \ {v} : vec'[n] = vec[n] /\ ~Busy(n),
         \A c \in Blocks : \/ heap'[c] = heap[c] \/ heap[c] = Freed
                           \/ c = new \/ (Live(v) /\ c = vec[v].data)
  PROVE  \A n \in Names \ {v} :
           /\ Live(n)' <=> Live(n)
           /\ Live(n) => /\ heap'[vec'[n].data] = heap[vec[n].data]
                         /\ Whole(vec'[n], heap'[vec'[n].data])
<1> SUFFICES ASSUME NEW n \in Names \ {v}
             PROVE  /\ Live(n)' <=> Live(n)
                    /\ Live(n) => /\ heap'[vec'[n].data] = heap[vec[n].data]
                                  /\ Whole(vec'[n], heap'[vec'[n].data])
  OBVIOUS
<1>1. Live(n)' <=> Live(n)
  BY DEF Live
<1>2. ASSUME Live(n) PROVE heap'[vec[n].data] = heap[vec[n].data]
  <2>1. vec[n].data \in Blocks \cup {Null}
    BY <1>2, LiveFacts
  <2>2. CASE vec[n].data = Null
    BY <2>2 DEF Typed, Heaps
  <2>3. CASE vec[n].data # Null
    <3>1. /\ vec[n].data \in Blocks /\ heap[vec[n].data] # Freed /\ vec[n].data # new
          /\ Live(v) => vec[n].data # vec[v].data
      BY <1>2, <2>1, <2>3 DEF Owned
    <3> QED BY <3>1
  <2> QED BY <2>2, <2>3
<1>3. Live(n) => Whole(vec[n], heap[vec[n].data])
  BY DEF Resting
<1> QED BY <1>1, <1>2, <1>3

\* The vector a running call works on.
LEMMA MyFacts ==
  ASSUME IInv, pc # "idle", NEW v, v = job.v
  PROVE  /\ v \in Names /\ Live(v) /\ me = vec[v] /\ vec[v] \in Members
         /\ vec[v].data \in Blocks \cup {Null}
         /\ vec[v].size \in Nat /\ vec[v].cap \in Nat /\ vec[v].size <= vec[v].cap
         /\ Len(heap[vec[v].data].cells) = vec[v].cap
         /\ vec[v].cap > 0 => vec[v].data \in Blocks /\ heap[vec[v].data] # Freed
         /\ \A n \in Names : Busy(n) <=> n = v
         /\ heap \in Heaps /\ i \in Nat
<1>1. v \in Names /\ Live(v) /\ me = vec[v] /\ Fits(me, heap[me.data])
  BY DEF IInv, Called, Working, me
<1>2. heap \in Heaps /\ i \in Nat
  BY DEF IInv, Typed
<1>3. /\ vec[v] \in Members /\ vec[v].data \in Blocks \cup {Null}
      /\ vec[v].size \in Nat /\ vec[v].cap \in Nat
  BY <1>1, LiveFacts DEF IInv
<1>4. vec[v].size <= vec[v].cap /\ Len(heap[vec[v].data].cells) = vec[v].cap
  BY <1>1 DEF Fits
<1>5. vec[v].cap > 0 => vec[v].data \in Blocks /\ heap[vec[v].data] # Freed
  <2>1. heap[vec[v].data] = Freed => Len(heap[vec[v].data].cells) = 0
    BY <1>2, <1>3, HeapFacts
  <2>2. heap[vec[v].data] # Freed => vec[v].data \in Blocks
    BY <1>2, <1>3, HeapFacts
  <2> QED BY <1>3, <1>4, <2>1, <2>2
<1>6. \A n \in Names : Busy(n) <=> n = v
  BY DEF Busy
<1> QED BY <1>1, <1>2, <1>3, <1>4, <1>5, <1>6

\* What a step in the blocks of the call's vector v, the one it has and the one
\* reserve fills, leaves as it was.
OthersKept(v) ==
  /\ Owned'
  /\ \A n \in Names \ {v} :
       /\ Live(n)' <=> Live(n)
       /\ Live(n) => /\ heap'[vec[n].data] = heap[vec[n].data]
                     /\ Whole(vec'[n], heap'[vec'[n].data])

LEMMA OnlyMine ==
  ASSUME IInv, pc # "idle", NEW v, v = job.v, heap' \in Heaps, new' = new,
         \A n \in Names \ {v} : vec'[n] = vec[n],
         Live(v)', vec'[v].data = vec[v].data,
         \A c \in Blocks \cup {Null} :
           /\ (heap'[c] = Freed) <=> (heap[c] = Freed)
           /\ c # vec[v].data /\ c # new => heap'[c] = heap[c]
  PROVE  OthersKept(v)
<1>1. /\ v \in Names /\ Live(v)
      /\ \A n \in Names : Busy(n) <=> n = v
  BY MyFacts
<1>2. Owned'
  <2>1. \A n \in Names : (Live(n)' <=> Live(n)) /\ vec'[n].data = vec[n].data
    BY <1>1 DEF Live
  <2>2. \A n \in Names : vec[n].data \in Blocks \cup {Null} \/ ~Live(n)
    BY LiveFacts DEF IInv
  <2> QED BY <2>1, <2>2, SameOwners DEF IInv, Typed
<1>3. \A c \in Blocks : \/ heap'[c] = heap[c] \/ heap[c] = Freed
                        \/ c = new \/ (Live(v) /\ c = vec[v].data)
  BY <1>1
<1>4. \A n \in Names \ {v} :
        /\ Live(n)' <=> Live(n)
        /\ Live(n) => /\ heap'[vec'[n].data] = heap[vec[n].data]
                      /\ Whole(vec'[n], heap'[vec'[n].data])
  BY <1>1, <1>3, OthersAlone DEF IInv
<1> QED BY <1>2, <1>4 DEF OthersKept

\* So does writing a cell of its block.
LEMMA WroteMine ==
  ASSUME IInv, pc # "idle", NEW v, v = job.v, new' = new,
         \A n \in Names \ {v} : vec'[n] = vec[n],
         Live(v)', vec'[v].data = vec[v].data,
         NEW k \in 1..vec[v].cap, NEW x \in Cells,
         Written(heap, heap', vec[v].data, k, x)
  PROVE  /\ OneCell(heap, heap', vec[v].data, k, x)
         /\ OthersKept(v)
<1> DEFINE b == vec[v].data
<1>1. b \in Blocks /\ heap[b] # Freed /\ heap \in Heaps /\ Len(heap[b].cells) = vec[v].cap
  BY MyFacts
<1>2. OneCell(heap, heap', b, k, x)
  BY <1>1, WriteCell
<1>3. /\ heap' \in Heaps
      /\ \A c \in Blocks \cup {Null} :
           /\ (heap'[c] = Freed) <=> (heap[c] = Freed)
           /\ c # b /\ c # new => heap'[c] = heap[c]
  BY <1>1, <1>2 DEF OneCell
<1>4. OthersKept(v)
  BY <1>3, OnlyMine
<1> QED BY <1>2, <1>4

\* A vector that was dead or had no block gets a new one.
LEMMA NewOwner ==
  ASSUME Typed, Owned, new' = new, NEW v \in Names, NEW b \in Blocks, NEW m \in Members,
         Live(v) => vec[v].data = Null,
         heap[b] = Freed, heap'[b] # Freed,
         \A c \in Blocks \cup {Null} : c # b => heap'[c] = heap[c],
         m.data = b, vec' = [vec EXCEPT ![v] = m]
  PROVE  Owned'
<1>1. /\ vec'[v] = m /\ Live(v)' /\ b # Null
      /\ \A n \in Names : n # v => vec'[n] = vec[n] /\ (Live(n)' <=> Live(n))
  BY Distinct DEF Typed, Live
<1>2. \A n \in Names : Live(n) => vec[n].data \in Blocks \cup {Null} /\ vec[n].data # b
  BY <1>1, LiveFacts DEF Owned
<1>3. new # b
  BY <1>1 DEF Owned
<1>4. \A n \in Names : Live(n)' /\ vec'[n].data # Null =>
        heap'[vec'[n].data] # Freed /\ vec'[n].data # new
  BY <1>1, <1>2, <1>3 DEF Owned
<1>5. \A n, k \in Names : Live(n)' /\ Live(k)' /\ vec'[n].data = vec'[k].data /\ vec'[n].data # Null
        => n = k
  BY <1>1, <1>2 DEF Owned
<1>6. new # Null => heap'[new] # Freed
  BY <1>3 DEF Owned, Typed
<1>7. \A c \in Blocks : heap'[c] # Freed =>
        c = new \/ \E n \in Names : Live(n)' /\ vec'[n].data = c
  <2> SUFFICES ASSUME NEW c \in Blocks, heap'[c] # Freed, c # new
               PROVE  \E n \in Names : Live(n)' /\ vec'[n].data = c
    OBVIOUS
  <2>1. CASE c = b
    BY <1>1, <2>1
  <2>2. CASE c # b
    <3>1. PICK n \in Names : Live(n) /\ vec[n].data = c
      BY <2>2 DEF Owned
    <3>2. n # v
      BY <3>1, Distinct
    <3> QED BY <1>1, <3>1, <3>2
  <2> QED BY <2>1, <2>2
<1> QED BY <1>4, <1>5, <1>6, <1>7 DEF Owned

\* v gives its block back, if it has one, and takes w's, which is left with none.
LEMMA HandOver ==
  ASSUME Typed, Owned, new' = new, new = Null, NEW v \in Names, NEW w \in Names, v # w, Live(w),
         Steal(v, w),
         heap' = [heap EXCEPT ![IF Live(v) THEN vec[v].data ELSE Null] = Freed]
  PROVE  Owned'
<1> DEFINE old == IF Live(v) THEN vec[v].data ELSE Null
<1>1. /\ vec'[v] = vec[w] /\ vec'[w] = Empty /\ Live(v)' /\ Live(w)'
      /\ \A n \in Names : n # v /\ n # w => vec'[n] = vec[n] /\ (Live(n)' <=> Live(n))
  BY Distinct DEF Typed, Live, Steal
<1>2. \A n \in Names : Live(n) => vec[n].data \in Blocks \cup {Null}
  BY LiveFacts
<1>3. /\ old \in Blocks \cup {Null}
      /\ \A n \in Names : Live(n) /\ n # v /\ vec[n].data # Null => vec[n].data # old
      /\ \A n \in Names : n # v /\ Live(n) /\ vec[n].data = Null => n # v
  BY <1>2 DEF Owned
<1> HIDE DEF old
<1>4. /\ heap'[old] = Freed
      /\ \A c \in Blocks \cup {Null} : c # old => heap'[c] = heap[c]
  <2>1. heap \in Heaps /\ heap' = [heap EXCEPT ![old] = Freed]
    BY DEF Typed, old
  <2> QED BY <1>3, <2>1, FreeBlock
<1>5. Empty.data = Null
  BY DEF Empty
<1>6. \A n \in Names : Live(n)' /\ vec'[n].data # Null => heap'[vec'[n].data] # Freed /\ vec'[n].data # new
  BY <1>1, <1>2, <1>3, <1>4, <1>5 DEF Owned
<1>7. \A n, k \in Names : Live(n)' /\ Live(k)' /\ vec'[n].data = vec'[k].data /\ vec'[n].data # Null
        => n = k
  BY <1>1, <1>5 DEF Owned
<1>8. \A c \in Blocks : heap'[c] # Freed =>
        c = new \/ \E n \in Names : Live(n)' /\ vec'[n].data = c
  <2> SUFFICES ASSUME NEW c \in Blocks, heap'[c] # Freed
               PROVE  \E n \in Names : Live(n)' /\ vec'[n].data = c
    OBVIOUS
  <2>1. c # old /\ heap[c] # Freed /\ c # Null
    BY <1>4, Distinct
  <2>2. PICK n \in Names : Live(n) /\ vec[n].data = c
    BY <2>1 DEF Owned
  <2>3. n # v
    BY <2>1, <2>2 DEF old
  <2> QED BY <1>1, <2>2, <2>3
<1> QED BY <1>6, <1>7, <1>8 DEF Owned

\* v gives its block back and is left with none, or is not there any more.
LEMMA GivenBack ==
  ASSUME Typed, Owned, new' = new, new = Null, NEW v \in Names, Live(v), NEW m \in {Dead, Empty},
         vec' = [vec EXCEPT ![v] = m],
         heap' = [heap EXCEPT ![vec[v].data] = Freed]
  PROVE  Owned'
<1>1. /\ vec'[v] = m /\ (Live(v)' => vec'[v].data = Null)
      /\ \A n \in Names : n # v => vec'[n] = vec[n] /\ (Live(n)' <=> Live(n))
  BY DEF Typed, Live, Empty
<1>2. \A n \in Names : Live(n) => vec[n].data \in Blocks \cup {Null}
  BY LiveFacts
<1>3. \A n \in Names : Live(n) /\ n # v /\ vec[n].data # Null => vec[n].data # vec[v].data
  BY <1>2 DEF Owned
<1>4. /\ heap'[vec[v].data] = Freed
      /\ \A c \in Blocks \cup {Null} : c # vec[v].data => heap'[c] = heap[c]
  <2>1. heap \in Heaps /\ vec[v].data \in Blocks \cup {Null}
    BY <1>2 DEF Typed
  <2> QED BY <2>1, FreeBlock
<1>5. \A n \in Names : Live(n)' /\ vec'[n].data # Null => heap'[vec'[n].data] # Freed /\ vec'[n].data # new
  BY <1>1, <1>2, <1>3, <1>4 DEF Owned
<1>6. \A n, k \in Names : Live(n)' /\ Live(k)' /\ vec'[n].data = vec'[k].data /\ vec'[n].data # Null
        => n = k
  BY <1>1 DEF Owned
<1>7. \A c \in Blocks : heap'[c] # Freed =>
        c = new \/ \E n \in Names : Live(n)' /\ vec'[n].data = c
  <2> SUFFICES ASSUME NEW c \in Blocks, heap'[c] # Freed
               PROVE  \E n \in Names : Live(n)' /\ vec'[n].data = c
    OBVIOUS
  <2>1. c # vec[v].data /\ heap[c] # Freed /\ c # Null
    BY <1>4, Distinct
  <2>2. PICK n \in Names : Live(n) /\ vec[n].data = c
    BY <2>1 DEF Owned
  <2> QED BY <1>1, <2>1, <2>2
<1> QED BY <1>5, <1>6, <1>7 DEF Owned

-----------------------------------------------------------------------------
(***************************************************************************)
(* The calls keep the invariant                                            *)
(***************************************************************************)

LEMMA InitIInv == Init => IInv
<1> SUFFICES ASSUME Init PROVE IInv
  OBVIOUS
<1>1. Typed
  <2>1. heap \in Heaps
    BY DEF Init, Heaps
  <2> QED BY <2>1 DEF Init, Typed
<1>2. (\A n \in Names : ~Live(n)) /\ \A b \in Blocks : heap[b] = Freed
  BY DEF Init, Live
<1>3. Owned
  BY <1>2 DEF Owned, Init
<1> QED BY <1>1, <1>2, <1>3 DEF IInv, Resting, Called, Working, Init

\* An empty vector without a block is whole.
LEMMA EmptyWhole ==
  ASSUME NEW h \in Heaps
  PROVE  Whole(Empty, h[Empty.data])
<1>1. Len(h[Null].cells) = 0
  BY HeapFacts
<1> QED BY <1>1 DEF Whole, Fits, Filled, Empty

LEMMA CreateIInv ==
  ASSUME IInv, NEW n \in Names, Create(n)
  PROVE  IInv'
<1> USE DEF Create
<1>1. /\ vec'[n] = Empty /\ Live(n)' /\ ~Live(n) /\ heap' = heap /\ heap \in Heaps
      /\ \A k \in Names : k # n => vec'[k] = vec[k] /\ (Live(k)' <=> Live(k))
  BY Distinct DEF IInv, Typed, Live
<1>2. Typed'
  BY Distinct DEF IInv, Typed
<1>3. Owned'
  <2>1. Empty.data = Null
    BY DEF Empty
  <2>2. \A b \in Blocks : heap[b] # Freed =>
          b = new \/ \E k \in Names : k # n /\ Live(k) /\ vec[k].data = b
    BY <1>1 DEF IInv, Owned
  <2> QED BY <1>1, <2>1, <2>2 DEF IInv, Owned
<1>4. Resting'
  BY <1>1, EmptyWhole DEF IInv, Resting, Busy
<1>5. Called' /\ Working'
  BY DEF IInv, Called, Working
<1> QED BY <1>2, <1>3, <1>4, <1>5 DEF IInv

\* v gets members m with a block b of their own, with no object in it yet.
Furnished(v, b, m) ==
  /\ heap' \in Heaps /\ Owned' /\ vec' \in [Names -> Members \cup {Dead}]
  /\ vec'[v] = m /\ Live(v)'
  /\ \A n \in Names \ {v} :
       /\ vec'[n] = vec[n] /\ (Live(n)' <=> Live(n))
       /\ Live(n) => Whole(vec'[n], heap'[vec'[n].data])
  /\ Fits(m, heap'[b]) /\ Filled(heap'[b].cells, 1, 0)

LEMMA Obtained ==
  ASSUME IInv, NEW v \in Names, NEW b \in Blocks, NEW m \in Members,
         m.data = b, m.size <= m.cap,
         Live(v) => vec[v].data = Null,
         \A n \in Names \ {v} : ~Busy(n),
         Allocate(m.cap, b), vec' = [vec EXCEPT ![v] = m], new' = new
  PROVE  Furnished(v, b, m)
<1>1. heap \in Heaps /\ m.cap \in Nat /\ m.size \in Nat
  BY DEF IInv, Typed, Members
<1>2. /\ heap' \in Heaps /\ heap[b] = Freed /\ heap'[b] # Freed
      /\ Len(heap'[b].cells) = m.cap /\ \A k \in 1..m.cap : heap'[b].cells[k] = Raw
      /\ \A c \in Blocks \cup {Null} : c # b => heap'[c] = heap[c]
  BY <1>1, AllocateFacts
<1>3. /\ vec' \in [Names -> Members \cup {Dead}] /\ vec'[v] = m /\ Live(v)'
      /\ \A n \in Names \ {v} : vec'[n] = vec[n] /\ (Live(n)' <=> Live(n))
  BY Distinct DEF IInv, Typed, Live
<1>4. Owned'
  BY <1>2, NewOwner DEF IInv
<1>5. \A n \in Names \ {v} : Live(n) => Whole(vec'[n], heap'[vec'[n].data])
  BY <1>2, <1>3, OthersAlone DEF IInv
<1>6. Fits(m, heap'[b])
  BY <1>2 DEF Fits
<1>7. Filled(heap'[b].cells, 1, 0)
  <2>1. \A j \in 1..Len(heap'[b].cells) : ~(1 <= j /\ j <= 0) /\ heap'[b].cells[j] = Raw
    BY <1>1, <1>2
  <2> QED BY <2>1 DEF Filled
<1> QED BY <1>2, <1>3, <1>4, <1>5, <1>6, <1>7 DEF Furnished

LEMMA CreateSizedIInv ==
  ASSUME IInv, NEW n \in Names, NEW size \in Nat, CreateSized(n, size)
  PROVE  IInv'
<1>1. /\ ~Live(n) /\ pc = "idle" /\ job' = [op |-> "sized", v |-> n, size |-> size]
      /\ pc' = "build" /\ i' = 1 /\ new' = new
  BY DEF CreateSized, Call
<1>2. PICK b \in Blocks : /\ Allocate(size, b)
                          /\ vec' = [vec EXCEPT ![n] = [data |-> b, size |-> size, cap |-> size]]
  BY DEF CreateSized
<1> DEFINE m == [data |-> b, size |-> size, cap |-> size]
<1>3. m \in Members /\ m.data = b /\ m.size = size /\ m.cap = size
  BY DEF Members
<1>4. vec' = [vec EXCEPT ![n] = m]
  BY <1>2
<1> HIDE DEF m
<1>5. \A k \in Names : ~Busy(k)
  BY <1>1 DEF Busy
<1>6. /\ heap' \in Heaps /\ Owned' /\ vec' \in [Names -> Members \cup {Dead}]
      /\ vec'[n] = m /\ Live(n)'
      /\ \A k \in Names \ {n} :
           /\ vec'[k] = vec[k] /\ (Live(k)' <=> Live(k))
           /\ Live(k) => Whole(vec'[k], heap'[vec'[k].data])
      /\ Fits(m, heap'[b]) /\ Filled(heap'[b].cells, 1, 0)
  <2>1. /\ Allocate(m.cap, b) /\ m.size <= m.cap
        /\ Live(n) => vec[n].data = Null
        /\ \A k \in Names \ {n} : ~Busy(k)
    BY <1>1, <1>2, <1>3, <1>5
  <2>2. Furnished(n, b, m)
    BY <1>1, <1>3, <1>4, <2>1, Obtained
  <2> QED BY <2>2 DEF Furnished
<1>7. Typed'
  BY <1>1, <1>6 DEF IInv, Typed
<1>8. Resting'
  BY <1>1, <1>6 DEF Resting, Busy
<1>9. Called'
  BY <1>1, <1>6 DEF Called
<1>10. Working'
  BY <1>1, <1>3, <1>6 DEF Working, me
<1> QED BY <1>6, <1>7, <1>8, <1>9, <1>10 DEF IInv

LEMMA CreateCopyIInv ==
  ASSUME IInv, NEW n \in Names, NEW w \in Names, CreateCopy(n, w)
  PROVE  IInv'
<1>1. /\ ~Live(n) /\ Live(w) /\ n # w /\ pc = "idle" /\ job' = [op |-> "copy", v |-> n, w |-> w]
      /\ pc' = "build" /\ i' = 1 /\ new' = new
  BY DEF CreateCopy, Call
<1>2. PICK b \in Blocks : /\ Allocate(vec[w].cap, b)
                          /\ vec' = [vec EXCEPT ![n] = [vec[w] EXCEPT !.data = b]]
  BY DEF CreateCopy, CopyMembers
<1> DEFINE m == [vec[w] EXCEPT !.data = b]
<1>3. vec[w] \in Members /\ Whole(vec[w], heap[vec[w].data])
  BY <1>1, LiveFacts DEF IInv, Resting, Busy
<1>4. /\ m \in Members /\ m.data = b /\ m.size = vec[w].size /\ m.cap = vec[w].cap
      /\ m.size <= m.cap /\ m.size \in Nat
  BY <1>3 DEF Members, Whole, Fits
<1>5. vec' = [vec EXCEPT ![n] = m]
  BY <1>2
<1> HIDE DEF m
<1>6. \A k \in Names : ~Busy(k)
  BY <1>1 DEF Busy
<1>7. /\ heap' \in Heaps /\ Owned' /\ vec' \in [Names -> Members \cup {Dead}]
      /\ vec'[n] = m /\ Live(n)'
      /\ \A k \in Names \ {n} :
           /\ vec'[k] = vec[k] /\ (Live(k)' <=> Live(k))
           /\ Live(k) => Whole(vec'[k], heap'[vec'[k].data])
      /\ Fits(m, heap'[b]) /\ Filled(heap'[b].cells, 1, 0)
  <2>1. /\ Allocate(m.cap, b) /\ m.size <= m.cap
        /\ Live(n) => vec[n].data = Null
        /\ \A k \in Names \ {n} : ~Busy(k)
    BY <1>1, <1>2, <1>4, <1>6
  <2>2. Furnished(n, b, m)
    BY <1>1, <1>4, <1>5, <2>1, Obtained
  <2> QED BY <2>2 DEF Furnished
<1>8. Typed'
  BY <1>1, <1>7 DEF IInv, Typed
<1>9. Resting'
  BY <1>1, <1>7 DEF Resting, Busy
<1>10. Called'
  BY <1>1, <1>7 DEF Called
<1>11. Working'
  BY <1>1, <1>4, <1>7 DEF Working, me
<1> QED BY <1>7, <1>8, <1>9, <1>10, <1>11 DEF IInv

LEMMA CreateMovedIInv ==
  ASSUME IInv, NEW n \in Names, NEW w \in Names, CreateMoved(n, w)
  PROVE  IInv'
<1>1. /\ ~Live(n) /\ Live(w) /\ n # w /\ pc = "idle" /\ pc' = "idle" /\ Steal(n, w)
      /\ heap' = heap /\ new' = new /\ i' = i /\ job' = job
  BY DEF CreateMoved
<1>2. /\ vec' \in [Names -> Members \cup {Dead}] /\ vec'[n] = vec[w] /\ vec'[w] = Empty
      /\ \A k \in Names : k # n /\ k # w => vec'[k] = vec[k] /\ (Live(k)' <=> Live(k))
  BY <1>1, Distinct DEF IInv, Typed, Live, Steal
<1>3. heap \in Heaps /\ new = Null
  BY <1>1 DEF IInv, Typed
<1>4. heap' = [heap EXCEPT ![IF Live(n) THEN vec[n].data ELSE Null] = Freed]
  BY <1>1, <1>3 DEF Heaps
<1>5. Owned'
  BY <1>1, <1>3, <1>4, HandOver DEF IInv
<1>6. Typed'
  BY <1>1, <1>2 DEF IInv, Typed
<1>7. Resting'
  <2>1. \A k \in Names : Live(k) => Whole(vec[k], heap[vec[k].data])
    BY <1>1 DEF IInv, Resting, Busy
  <2> QED BY <1>1, <1>2, <1>3, <2>1, EmptyWhole DEF Resting
<1>8. Called' /\ Working'
  BY <1>1 DEF IInv, Called, Working
<1> QED BY <1>5, <1>6, <1>7, <1>8 DEF IInv

LEMMA DiscardIInv ==
  ASSUME IInv, NEW n \in Names, NEW j, Discard(n, j),
         j.v = n, j.op \in {"clear", "destroy", "copy", "move"},
         j.op \in {"copy", "move"} => j.w \in Names /\ j.w # n /\ Live(j.w)
  PROVE  IInv'
<1>1. /\ Live(n) /\ pc = "idle" /\ job' = j /\ pc' = "clear" /\ i' = 1
      /\ vec' = vec /\ heap' = heap /\ new' = new
  BY DEF Discard, Call
<1>2. Typed' /\ Owned'
  BY <1>1 DEF IInv, Typed, Owned, Live
<1>3. \A k \in Names : Live(k) => Whole(vec[k], heap[vec[k].data])
  BY <1>1 DEF IInv, Resting, Busy
<1>4. Resting'
  BY <1>1, <1>3 DEF Resting, Live
<1>5. Called'
  BY <1>1 DEF Called, Live
<1>6. Working'
  <2>1. vec[n].size \in Nat
    BY <1>1, LiveFacts DEF IInv
  <2>2. me' = vec[n]
    BY <1>1 DEF me
  <2> QED BY <1>1, <1>3, <2>1, <2>2 DEF Working, Whole
<1> QED BY <1>2, <1>4, <1>5, <1>6 DEF IInv

LEMMA PushBackIInv ==
  ASSUME IInv, First \in Nat \ {0}, NEW n \in Names, NEW x \in Values, PushBack(n, x)
  PROVE  IInv'
<1>1. /\ Live(n) /\ pc = "idle" /\ job' = [op |-> "push", v |-> n, x |-> x]
      /\ pc' = (IF Full(n) THEN "grow" ELSE "put") /\ i' = 1 /\ vec' = vec
  BY DEF PushBack, Call
<1>2. /\ heap \in Heaps /\ new = Null /\ vec[n] \in Members /\ vec[n].data \in Blocks \cup {Null}
      /\ vec[n].size \in Nat /\ vec[n].cap \in Nat
  BY <1>1, LiveFacts DEF IInv, Typed
<1>3. \A k \in Names : Live(k) => Whole(vec[k], heap[vec[k].data])
  BY <1>1 DEF IInv, Resting, Busy
<1>4. /\ me' = vec[n] /\ job'.op = "push" /\ job'.v = n /\ job'.x = x
      /\ \A k \in Names : Live(k)' <=> Live(k)
  BY <1>1 DEF me, Live
<1>5. Called'
  BY <1>1, <1>4 DEF Called
<1>6. CASE ~Full(n)
  <2>1. heap' = heap /\ new' = new /\ pc' = "put"
    BY <1>1, <1>6 DEF PushBack
  <2>2. Typed' /\ Owned'
    BY <1>1, <1>2, <2>1 DEF IInv, Typed, Owned, Live
  <2>3. Resting'
    BY <1>1, <1>3, <2>1 DEF Resting, Live
  <2>4. Working'
    BY <1>1, <1>2, <1>3, <1>4, <1>6, <2>1 DEF Working, Whole, Full
  <2> QED BY <1>5, <2>2, <2>3, <2>4 DEF IInv
<1>7. CASE Full(n)
  <2> DEFINE c == IF vec[n].cap = 0 THEN First ELSE vec[n].cap * 2
  <2>1. c \in Nat /\ c > vec[n].cap
    BY <1>2
  <2>2. PICK b \in Blocks : Allocate(c, b) /\ new' = b
    BY <1>7 DEF PushBack
  <2> HIDE DEF c
  <2>3. /\ heap' \in Heaps /\ heap[b] = Freed /\ heap'[b] # Freed
        /\ Len(heap'[b].cells) = c /\ \A k \in 1..c : heap'[b].cells[k] = Raw
        /\ \A d \in Blocks \cup {Null} : d # b => heap'[d] = heap[d]
    BY <1>2, <2>1, <2>2, AllocateFacts
  <2>4. pc' = "grow" /\ b # Null
    BY <1>1, <1>7, Distinct
  <2>5. \A k \in Names : Live(k) => vec[k].data \in Blocks \cup {Null} /\ vec[k].data # b
    BY <2>3, <2>4, LiveFacts DEF IInv, Owned
  <2>6. Typed'
    BY <1>1, <2>2, <2>3, <2>4 DEF IInv, Typed
  <2>7. Owned'
    <3>1. \A k \in Names : Live(k) /\ vec[k].data # Null =>
            heap'[vec[k].data] # Freed /\ vec[k].data # b
      BY <2>3, <2>5 DEF IInv, Owned
    <3>2. \A k, m \in Names : Live(k) /\ Live(m) /\ vec[k].data = vec[m].data /\ vec[k].data # Null
            => k = m
      BY DEF IInv, Owned
    <3>3. \A d \in Blocks : heap'[d] # Freed =>
            d = b \/ \E k \in Names : Live(k) /\ vec[k].data = d
      <4>1. \A d \in Blocks : heap[d] # Freed => \E k \in Names : Live(k) /\ vec[k].data = d
        BY <1>2, Distinct DEF IInv, Owned
      <4> QED BY <2>3, <4>1
    <3> QED BY <1>1, <1>4, <2>2, <2>3, <3>1, <3>2, <3>3 DEF Owned
  <2>8. Resting'
    BY <1>1, <1>3, <1>4, <2>3, <2>5 DEF Resting
  <2>9. Working'
    <3>1. heap'[vec[n].data] = heap[vec[n].data]
      BY <1>1, <2>3, <2>5
    <3>2. /\ vec[n].size <= vec[n].cap /\ vec[n].size >= vec[n].cap
          /\ Fits(vec[n], heap[vec[n].data]) /\ Filled(heap[vec[n].data].cells, 1, vec[n].size)
      BY <1>1, <1>3, <1>7 DEF Whole, Fits, Full
    <3>3. Filled(heap'[b].cells, 1, 0)
      <4>1. \A j \in 1..Len(heap'[b].cells) : ~(1 <= j /\ j <= 0) /\ heap'[b].cells[j] = Raw
        BY <2>1, <2>3
      <4> QED BY <4>1 DEF Filled
    <3> QED BY <1>1, <1>2, <1>4, <2>1, <2>2, <2>3, <2>4, <3>1, <3>2, <3>3 DEF Working
  <2> QED BY <1>5, <2>6, <2>7, <2>8, <2>9 DEF IInv
<1> QED BY <1>6, <1>7

\* remove_row and pop_back begin alike: at the element that is to go.
LEMMA RemoveIInv ==
  ASSUME IInv, NEW n \in Names, NEW k \in Nat \ {0}, k <= vec[n].size, Live(n),
         NEW j, j.v = n, j.op \in {"remove", "pop"},
         Call(j, "shift", k), UNCHANGED <<vec, heap, new>>
  PROVE  IInv'
<1>1. pc = "idle" /\ job' = j /\ pc' = "shift" /\ i' = k /\ vec' = vec /\ heap' = heap /\ new' = new
  BY DEF Call
<1>2. Typed' /\ Owned'
  BY <1>1 DEF IInv, Typed, Owned, Live
<1>3. \A m \in Names : Live(m) => Whole(vec[m], heap[vec[m].data])
  BY <1>1 DEF IInv, Resting, Busy
<1>4. Resting'
  BY <1>1, <1>3 DEF Resting, Live
<1>5. Called'
  BY <1>1 DEF Called, Live
<1>6. Working'
  <2>1. vec[n].size \in Nat /\ vec[n].cap \in Nat /\ me' = vec[n]
    BY <1>1, LiveFacts DEF IInv, me
  <2>2. /\ Fits(vec[n], heap[vec[n].data])
        /\ \A m \in 1..vec[n].cap : /\ m <= vec[n].size => heap[vec[n].data].cells[m] \in Objects
                                    /\ m > vec[n].size => heap[vec[n].data].cells[m] = Raw
    <3>1. vec[n] \in Members /\ Whole(vec[n], heap[vec[n].data])
      BY <1>3, LiveFacts DEF IInv
    <3> QED BY <2>1, <3>1, WholeCells DEF Fits
  <2> QED BY <1>1, <2>1, <2>2 DEF Working
<1> QED BY <1>2, <1>4, <1>5, <1>6 DEF IInv

-----------------------------------------------------------------------------
(***************************************************************************)
(* The steps of a call keep the invariant                                  *)
(***************************************************************************)

\* An iteration that writes x to cell k of v's block, v being the call's own
\* vector, and goes on.
Iterated(v, k, x) ==
  /\ Typed' /\ Owned' /\ Resting' /\ Called'
  /\ me' = vec[v] /\ Fits(vec[v], heap'[vec[v].data])
  /\ Len(heap'[vec[v].data].cells) = vec[v].cap
  /\ heap'[vec[v].data].cells[k] = x
  /\ \A j \in 1..vec[v].cap : j # k =>
       heap'[vec[v].data].cells[j] = heap[vec[v].data].cells[j]
  /\ \A n \in Names \ {v} : Live(n) => heap'[vec[n].data] = heap[vec[n].data]

LEMMA Iteration ==
  ASSUME IInv, pc # "idle", NEW v, v = job.v, NEW k \in 1..vec[v].cap, NEW x \in Cells,
         Written(heap, heap', vec[v].data, k, x),
         vec' = vec, new' = new, pc' = pc, job' = job, i' \in Nat
  PROVE  Iterated(v, k, x)
<1>1. /\ v \in Names /\ Live(v) /\ vec[v].size <= vec[v].cap
      /\ Len(heap[vec[v].data].cells) = vec[v].cap
      /\ \A n \in Names : Busy(n) <=> n = v
  BY MyFacts
<1>2. /\ heap' \in Heaps /\ Owned'
      /\ Len(heap'[vec[v].data].cells) = vec[v].cap
      /\ heap'[vec[v].data].cells[k] = x
      /\ \A j \in 1..vec[v].cap : j # k =>
           heap'[vec[v].data].cells[j] = heap[vec[v].data].cells[j]
      /\ \A n \in Names \ {v} : Live(n) =>
           /\ heap'[vec[n].data] = heap[vec[n].data]
           /\ Whole(vec'[n], heap'[vec'[n].data])
  <2>1. Live(v)'
    BY <1>1 DEF Live
  <2>2. OneCell(heap, heap', vec[v].data, k, x) /\ OthersKept(v)
    BY <2>1, WroteMine
  <2> QED BY <1>1, <2>2 DEF OneCell, OthersKept
<1>3. Typed'
  BY <1>2 DEF IInv, Typed
<1>4. Called'
  BY DEF IInv, Called, Live
<1>5. Resting'
  BY <1>1, <1>2 DEF Resting, Busy, Live
<1>6. me' = vec[v] /\ Fits(vec[v], heap'[vec[v].data])
  BY <1>1, <1>2 DEF me, Fits
<1> QED BY <1>2, <1>3, <1>4, <1>5, <1>6 DEF Iterated

LEMMA DestroyAllIInv ==
  ASSUME IInv, DestroyAll
  PROVE  IInv'
<1> DEFINE v == job.v
           b == vec[v].data
<1>1. /\ v \in Names /\ Live(v) /\ me = vec[v] /\ vec[v] \in Members
      /\ vec[v].size \in Nat /\ vec[v].cap \in Nat /\ vec[v].size <= vec[v].cap
      /\ Len(heap[b].cells) = vec[v].cap
      /\ \A n \in Names : Busy(n) <=> n = v
      /\ heap \in Heaps /\ i \in Nat /\ pc = "clear"
  BY MyFacts DEF DestroyAll
<1>2. i \in 1..(vec[v].size + 1) /\ Filled(heap[b].cells, i, vec[v].size)
  BY <1>1 DEF IInv, Working
<1>3. job.op \in {"clear", "destroy", "copy", "move"}
  BY <1>1 DEF IInv, Called
<1>4. CASE i <= me.size
  <2>1. /\ Written(heap, heap', b, i, Raw) /\ i' = i + 1
        /\ vec' = vec /\ job' = job /\ pc' = pc /\ new' = new
    BY <1>1, <1>4 DEF DestroyAll, Written
  <2>2. i \in 1..vec[v].cap /\ i' \in Nat
    BY <1>1, <1>2, <1>4, <2>1
  <2>3. /\ Typed' /\ Owned' /\ Resting' /\ Called'
        /\ me' = vec[v] /\ Fits(vec[v], heap'[b])
        /\ Len(heap'[b].cells) = vec[v].cap
        /\ heap'[b].cells[i] = Raw
        /\ \A j \in 1..vec[v].cap : j # i => heap'[b].cells[j] = heap[b].cells[j]
    <3>1. Raw \in Cells /\ pc # "idle"
      BY <1>1, Distinct
    <3>2. Iterated(v, i, Raw)
      BY <2>1, <2>2, <3>1, Iteration
    <3> QED BY <3>2 DEF Iterated
  <2>4. Filled(heap'[b].cells, i + 1, vec[v].size)
    <3> DEFINE n == vec[v].cap
    <3>1. n \in Nat /\ i \in 1..n /\ vec[v].size \in Nat
      BY <1>1, <2>2
    <3> HIDE DEF n
    <3> QED BY <1>1, <1>2, <2>3, <3>1, FilledSteps DEF n
  <2>5. Working'
    <3>1. i' = i + 1 /\ i' \in 1..(vec[v].size + 1) /\ pc' = "clear"
      BY <1>1, <1>2, <1>4, <2>1
    <3> QED BY <2>3, <2>4, <3>1 DEF Working
  <2> QED BY <2>3, <2>5 DEF IInv
<1>5. CASE i > me.size
  <2>1. /\ vec' = [vec EXCEPT ![v].size = 0] /\ heap' = heap /\ new' = new
        /\ IF job.op = "clear" THEN Return ELSE pc' = "release" /\ job' = job /\ i' = i
    BY <1>1, <1>5 DEF DestroyAll
  <2>2. /\ vec' \in [Names -> Members \cup {Dead}]
        /\ vec'[v] = [vec[v] EXCEPT !.size = 0]
        /\ \A n \in Names : n # v => vec'[n] = vec[n]
    BY <1>1, <2>1 DEF IInv, Typed, Members
  <2>3. /\ vec'[v] \in Members /\ vec'[v].data = b /\ vec'[v].size = 0
        /\ vec'[v].cap = vec[v].cap
    BY <1>1, <2>2 DEF Members
  <2>4. \A n \in Names : (Live(n)' <=> Live(n)) /\ (Live(n) => vec'[n].data = vec[n].data)
    BY <1>1, <2>2, <2>3, Distinct DEF Live
  <2>5. Owned'
    <3>1. \A n \in Names : vec[n].data \in Blocks \cup {Null} \/ ~Live(n)
      BY LiveFacts DEF IInv
    <3>2. \A c \in Blocks \cup {Null} : (heap'[c] = Freed) <=> (heap[c] = Freed)
      BY <2>1
    <3> QED BY <2>1, <2>4, <3>1, <3>2, SameOwners DEF IInv, Typed
  <2>6. Typed'
    BY <1>1, <2>1, <2>2 DEF IInv, Typed, Return
  <2>7. Whole(vec'[v], heap'[b]) /\ Filled(heap'[b].cells, 1, 0)
    <3>1. \A j \in 1..vec[v].cap : heap[b].cells[j] = Raw
      BY <1>1, <1>2, <1>5 DEF Filled
    <3>2. \A k, l \in Nat : l < k => Filled(heap'[b].cells, k, l)
      BY <1>1, <2>1, <3>1 DEF Filled
    <3>3. 0 < 1 /\ 0 \in Nat /\ 1 \in Nat
      OBVIOUS
    <3>4. Filled(heap'[b].cells, 1, 0)
      BY <3>2, <3>3
    <3> QED BY <1>1, <2>1, <2>3, <3>4 DEF Whole, Fits
  <2>8. Resting'
    BY <1>1, <2>1, <2>2, <2>3, <2>4, <2>7 DEF IInv, Resting
  <2>9. Called'
    BY <1>1, <1>3, <2>1, <2>4 DEF IInv, Called, Return
  <2>10. Working'
    <3>1. CASE job.op = "clear"
      BY <2>1, <3>1 DEF Working, Return
    <3>2. CASE job.op # "clear"
      <4>1. me' = vec'[v] /\ pc' = "release"
        BY <2>1, <3>2 DEF me
      <4> QED BY <2>3, <2>7, <4>1 DEF Working, Whole
    <3> QED BY <3>1, <3>2
  <2> QED BY <2>5, <2>6, <2>8, <2>9, <2>10 DEF IInv
<1> QED BY <1>1, <1>4, <1>5

\* A call that returns has nothing left to do for any vector.
LEMMA Returned ==
  ASSUME Typed', Owned', Return,
         \A n \in Names : Live(n)' => Whole(vec'[n], heap'[vec'[n].data])
  PROVE  IInv'
<1>1. Resting'
  BY DEF Resting
<1>2. Called' /\ Working'
  BY DEF Called, Working, Return
<1> QED BY <1>1, <1>2 DEF IInv

LEMMA BuildIInv ==
  ASSUME IInv, Build
  PROVE  IInv'
<1> DEFINE v == job.v
           b == vec[v].data
<1>1. /\ v \in Names /\ Live(v) /\ me = vec[v] /\ vec[v] \in Members
      /\ vec[v].size \in Nat /\ vec[v].cap \in Nat /\ vec[v].size <= vec[v].cap
      /\ Len(heap[b].cells) = vec[v].cap
      /\ \A n \in Names : Busy(n) <=> n = v
      /\ heap \in Heaps /\ i \in Nat /\ pc = "build"
  BY MyFacts DEF Build
<1>2. /\ i \in 1..(vec[v].size + 1) /\ Filled(heap[b].cells, 1, i - 1)
      /\ job.op = "copy" => vec[v].size = vec[job.w].size
  BY <1>1 DEF IInv, Working
<1>3. /\ job.op \in {"sized", "copy"}
      /\ job.op = "copy" => job.w \in Names /\ job.w # v /\ Live(job.w)
  BY <1>1 DEF IInv, Called
<1>4. CASE i <= me.size
  <2> DEFINE x == IF job.op = "copy" THEN Cell(vec[job.w].data, i) ELSE Obj(Default)
  <2>1. /\ Written(heap, heap', b, i, x) /\ i' = i + 1
        /\ vec' = vec /\ job' = job /\ pc' = pc /\ new' = new
    BY <1>1, <1>4 DEF Build, Written
  <2>2. x \in Objects
    <3>1. CASE job.op = "copy"
      <4>1. Whole(vec[job.w], heap[vec[job.w].data]) /\ vec[job.w] \in Members
        BY <1>1, <1>3, <3>1, LiveFacts DEF IInv, Resting
      <4>2. vec[job.w].cap \in Nat /\ vec[job.w].size <= vec[job.w].cap
            /\ vec[job.w].size = vec[v].size
        BY <1>2, <3>1, <4>1, WholeCells DEF Members
      <4>3. i \in 1..vec[job.w].cap /\ i <= vec[job.w].size
        BY <1>1, <1>2, <1>4, <4>2
      <4> QED BY <3>1, <4>1, <4>3, WholeCells DEF Cell
    <3>2. CASE job.op # "copy"
      BY <3>2 DEF Objects
    <3> QED BY <3>1, <3>2
  <2> HIDE DEF x
  <2>3. i \in 1..vec[v].cap /\ i' \in Nat /\ x \in Cells
    BY <1>1, <1>2, <1>4, <2>1, <2>2, Distinct
  <2>4. /\ Typed' /\ Owned' /\ Resting' /\ Called'
        /\ me' = vec[v] /\ Fits(vec[v], heap'[b])
        /\ Len(heap'[b].cells) = vec[v].cap
        /\ heap'[b].cells[i] = x
        /\ \A j \in 1..vec[v].cap : j # i => heap'[b].cells[j] = heap[b].cells[j]
    <3>1. Iterated(v, i, x)
      BY <1>1, <2>1, <2>3, Iteration
    <3> QED BY <3>1 DEF Iterated
  <2>5. Filled(heap'[b].cells, 1, i)
    <3> DEFINE n == vec[v].cap
           now == heap'[b].cells
           old == heap[b].cells
    <3>1. n \in Nat /\ i \in 1..n /\ 0 \in Nat /\ Len(old) = n /\ Len(now) = n
      BY <1>1, <2>3, <2>4
    <3>2. /\ \A j \in 1..n : j # i => now[j] = old[j]
          /\ Filled(old, 1, i - 1) /\ now[i] \in Objects
      BY <1>2, <2>2, <2>4
    <3> HIDE DEF n, now, old
    <3>3. Filled(now, 1, i)
      BY <3>1, <3>2, FilledSteps
    <3> QED BY <3>3 DEF now
  <2>6. Working'
    <3>1. i' \in 1..(vec[v].size + 1) /\ i' - 1 = i
      BY <1>1, <1>2, <1>4, <2>1
    <3>2. job'.op = "copy" => vec[v].size = vec'[job'.w].size
      BY <1>2, <2>1
    <3> QED BY <1>1, <2>1, <2>4, <2>5, <3>1, <3>2 DEF Working
  <2> QED BY <2>4, <2>6 DEF IInv
<1>5. CASE i > me.size
  <2>1. vec' = vec /\ heap' = heap /\ new' = new /\ Return
    BY <1>1, <1>5 DEF Build
  <2>2. Typed' /\ Owned'
    BY <1>1, <2>1 DEF IInv, Typed, Owned, Live, Return
  <2>3. Whole(vec[v], heap[b])
    <3>1. i - 1 = vec[v].size
      BY <1>1, <1>2, <1>5
    <3> QED BY <1>1, <1>2, <3>1 DEF Whole, Fits
  <2>4. \A n \in Names : Live(n)' => Whole(vec'[n], heap'[vec'[n].data])
    BY <1>1, <2>1, <2>3 DEF IInv, Resting, Live
  <2> QED BY <2>1, <2>2, <2>4, Returned
<1> QED BY <1>1, <1>4, <1>5

LEMMA ReallocateIInv ==
  ASSUME IInv, Reallocate, new' = new
  PROVE  IInv'
<1> DEFINE v == job.v
           w == job.w
<1>1. /\ v \in Names /\ Live(v) /\ vec[v] = Empty /\ pc = "allocate" /\ job.op = "copy"
      /\ w \in Names /\ w # v /\ Live(w)
      /\ \A n \in Names : Busy(n) <=> n = v
  BY MyFacts DEF Reallocate, IInv, Working, Called
<1>2. pc' = "build" /\ i' = 1 /\ job' = job
  BY DEF Reallocate
<1>3. PICK b \in Blocks : /\ Allocate(vec[w].cap, b)
                          /\ vec' = [vec EXCEPT ![v] = [vec[w] EXCEPT !.data = b]]
  BY DEF Reallocate, CopyMembers
<1> DEFINE m == [vec[w] EXCEPT !.data = b]
<1>4. vec[w] \in Members /\ Whole(vec[w], heap[vec[w].data])
  BY <1>1, LiveFacts DEF IInv, Resting
<1>5. /\ m \in Members /\ m.data = b /\ m.size = vec[w].size /\ m.cap = vec[w].cap
      /\ m.size <= m.cap /\ m.size \in Nat
  BY <1>4 DEF Members, Whole, Fits
<1>6. vec' = [vec EXCEPT ![v] = m]
  BY <1>3
<1> HIDE DEF m
<1>7. /\ heap' \in Heaps /\ Owned' /\ vec' \in [Names -> Members \cup {Dead}]
      /\ vec'[v] = m /\ Live(v)'
      /\ \A k \in Names \ {v} :
           /\ vec'[k] = vec[k] /\ (Live(k)' <=> Live(k))
           /\ Live(k) => Whole(vec'[k], heap'[vec'[k].data])
      /\ Fits(m, heap'[b]) /\ Filled(heap'[b].cells, 1, 0)
  <2>1. /\ Allocate(m.cap, b) /\ m.size <= m.cap
        /\ Live(v) => vec[v].data = Null
        /\ \A k \in Names \ {v} : ~Busy(k)
    BY <1>1, <1>3, <1>5 DEF Empty
  <2>2. v \in Names
    BY <1>1
  <2>3. Furnished(v, b, m)
    <3> HIDE DEF v, w
    <3> QED BY <1>5, <1>6, <2>1, <2>2, Obtained
  <2> QED BY <2>3 DEF Furnished
<1>8. Typed'
  BY <1>1, <1>2, <1>7 DEF IInv, Typed
<1>9. Resting'
  BY <1>2, <1>7 DEF Resting, Busy
<1>10. Called'
  BY <1>1, <1>2, <1>7 DEF IInv, Called
<1>11. Working'
  BY <1>1, <1>2, <1>5, <1>7 DEF Working, me
<1> QED BY <1>7, <1>8, <1>9, <1>10, <1>11 DEF IInv

LEMMA PutIInv ==
  ASSUME IInv, Put
  PROVE  IInv'
<1>0. PICK v : v = job.v
  OBVIOUS
<1> DEFINE b == vec[v].data
           k == vec[v].size + 1
<1>1. /\ v \in Names /\ Live(v) /\ me = vec[v] /\ vec[v] \in Members
      /\ vec[v].size \in Nat /\ vec[v].cap \in Nat /\ vec[v].size <= vec[v].cap
      /\ Len(heap[b].cells) = vec[v].cap
      /\ \A n \in Names : Busy(n) <=> n = v
      /\ heap \in Heaps /\ i \in Nat /\ pc = "put"
  BY <1>0, MyFacts DEF Put
<1>2. vec[v].size < vec[v].cap /\ Filled(heap[b].cells, 1, vec[v].size)
  BY <1>1 DEF IInv, Working
<1>3. Obj(job.x) \in Objects
  BY <1>1 DEF IInv, Called, Objects
<1>4. /\ Written(heap, heap', b, k, Obj(job.x)) /\ vec' = [vec EXCEPT ![v].size = @ + 1]
      /\ Return /\ new' = new
  BY <1>0, <1>1 DEF Put, Written
<1>5. /\ vec' \in [Names -> Members \cup {Dead}]
      /\ vec'[v] = [vec[v] EXCEPT !.size = k]
      /\ \A n \in Names : n # v => vec'[n] = vec[n]
  BY <1>1, <1>4 DEF IInv, Typed, Members
<1>6. /\ vec'[v] \in Members /\ vec'[v].data = b /\ vec'[v].size = k
      /\ vec'[v].cap = vec[v].cap /\ Live(v)'
  BY <1>1, <1>5, Distinct DEF Members, Live
<1>7. k \in 1..vec[v].cap /\ Obj(job.x) \in Cells
  BY <1>1, <1>2, <1>3, Distinct
<1>8. OneCell(heap, heap', b, k, Obj(job.x)) /\ OthersKept(v)
  <2>1. pc # "idle" /\ \A n \in Names \ {v} : vec'[n] = vec[n]
    BY <1>1, <1>5
  <2> HIDE DEF k
  <2> QED BY <1>0, <1>4, <1>6, <1>7, <2>1, WroteMine
<1>9. Typed' /\ Owned'
  BY <1>1, <1>4, <1>5, <1>8 DEF IInv, Typed, Return, OneCell, OthersKept
<1>10. Whole(vec'[v], heap'[b])
  <2> DEFINE old == heap[b].cells
             now == heap'[b].cells
  <2>1. /\ Len(now) = vec[v].cap /\ Len(old) = vec[v].cap /\ now[k] \in Objects
        /\ \A j \in 1..vec[v].cap : j # k => now[j] = old[j]
    BY <1>1, <1>3, <1>8 DEF OneCell
  <2>2. Filled(now, 1, k)
    <3>1. Filled(old, 1, k - 1) /\ 0 \in Nat
      BY <1>1, <1>2
    <3> HIDE DEF old, now, k
    <3> QED BY <1>1, <1>7, <2>1, <3>1, FilledSteps
  <2>3. Len(now) = vec'[v].cap /\ k <= vec'[v].cap
    BY <1>6, <1>7, <2>1
  <2> QED BY <1>6, <2>2, <2>3 DEF Whole, Fits, now
<1>11. \A n \in Names : Live(n)' => Whole(vec'[n], heap'[vec'[n].data])
  BY <1>6, <1>8, <1>10 DEF OthersKept
<1> QED BY <1>4, <1>9, <1>11, Returned

LEMMA ReleaseIInv ==
  ASSUME IInv, Release
  PROVE  IInv'
<1>0. PICK v : v = job.v
  OBVIOUS
<1> DEFINE b == vec[v].data
<1>1. /\ v \in Names /\ Live(v) /\ me = vec[v] /\ b \in Blocks \cup {Null}
      /\ \A n \in Names : Busy(n) <=> n = v
      /\ heap \in Heaps /\ pc = "release" /\ new = Null
  BY <1>0, MyFacts DEF Release, IInv, Typed
<1>2. /\ job.op \in {"destroy", "copy", "move"}
      /\ job.op \in {"copy", "move"} => job.w \in Names /\ job.w # v /\ Live(job.w)
  BY <1>0, <1>1 DEF IInv, Called
<1>3. heap' = [heap EXCEPT ![b] = Freed] /\ new' = new
  BY <1>1 DEF Release
<1>4. /\ heap' \in Heaps /\ heap'[b] = Freed
      /\ \A c \in Blocks \cup {Null} : c # b => heap'[c] = heap[c]
  BY <1>1, <1>3, FreeBlock
<1>5. \A n \in Names \ {v} : Live(n) => Whole(vec[n], heap'[vec[n].data])
  <2> SUFFICES ASSUME NEW n \in Names \ {v}, Live(n)
               PROVE  heap'[vec[n].data] = heap[vec[n].data]
    BY <1>1 DEF IInv, Resting
  <2>1. vec[n].data \in Blocks \cup {Null}
    BY LiveFacts DEF IInv
  <2>2. CASE vec[n].data = Null
    BY <1>1, <1>4, <2>2 DEF Heaps
  <2>3. CASE vec[n].data # Null
    BY <1>1, <1>4, <2>1, <2>3 DEF IInv, Owned
  <2> QED BY <2>2, <2>3
<1>6. CASE job.op = "destroy"
  <2>1. vec' = [vec EXCEPT ![v] = Dead] /\ Return
    BY <1>0, <1>6 DEF Release
  <2>2. Owned'
    BY <1>1, <1>3, <2>1, GivenBack DEF IInv
  <2>3. /\ vec' \in [Names -> Members \cup {Dead}] /\ ~Live(v)'
        /\ \A n \in Names \ {v} : vec'[n] = vec[n] /\ (Live(n)' <=> Live(n))
    BY <1>1, <2>1 DEF IInv, Typed, Live
  <2>4. Typed'
    BY <1>1, <1>3, <1>4, <2>1, <2>3 DEF IInv, Typed, Return
  <2> QED BY <1>5, <2>1, <2>2, <2>3, <2>4, Returned
<1>7. CASE job.op = "move"
  <2> DEFINE w == job.w
  <2>1. Steal(v, w) /\ Return /\ w \in Names /\ w # v /\ Live(w)
    BY <1>0, <1>2, <1>7 DEF Release
  <2>2. Owned'
    <3>1. heap' = [heap EXCEPT ![IF Live(v) THEN vec[v].data ELSE Null] = Freed]
      BY <1>1, <1>3
    <3> HIDE DEF w
    <3> QED BY <1>1, <1>3, <2>1, <3>1, HandOver DEF IInv
  <2>3. /\ vec' \in [Names -> Members \cup {Dead}] /\ vec'[v] = vec[w] /\ vec'[w] = Empty
        /\ \A n \in Names : n # v /\ n # w => vec'[n] = vec[n] /\ (Live(n)' <=> Live(n))
    BY <1>1, <2>1, Distinct DEF IInv, Typed, Live, Steal
  <2>4. Typed'
    BY <1>1, <1>3, <1>4, <2>1, <2>3 DEF IInv, Typed, Return
  <2>5. \A n \in Names : Live(n)' => Whole(vec'[n], heap'[vec'[n].data])
    BY <1>4, <1>5, <2>1, <2>3, EmptyWhole
  <2> QED BY <2>1, <2>2, <2>4, <2>5, Returned
<1>8. CASE job.op = "copy"
  <2>1. /\ vec' = [vec EXCEPT ![v] = Empty] /\ pc' = "allocate" /\ job' = job /\ i' = i
    BY <1>0, <1>8 DEF Release
  <2>2. Owned'
    BY <1>1, <1>3, <2>1, GivenBack DEF IInv
  <2>3. /\ vec' \in [Names -> Members \cup {Dead}] /\ vec'[v] = Empty /\ Live(v)'
        /\ \A n \in Names \ {v} : vec'[n] = vec[n] /\ (Live(n)' <=> Live(n))
    BY <1>1, <2>1, Distinct DEF IInv, Typed, Live
  <2>4. Typed'
    BY <1>1, <1>3, <1>4, <2>1, <2>3 DEF IInv, Typed
  <2>5. Resting'
    BY <1>0, <1>5, <2>1, <2>3 DEF Resting, Busy
  <2>6. Called'
    BY <1>0, <1>1, <1>2, <1>8, <2>1, <2>3 DEF Called
  <2>7. Working'
    <3>1. me' = Empty /\ Whole(Empty, heap'[Empty.data])
      BY <1>0, <1>4, <2>1, <2>3, EmptyWhole DEF me
    <3> QED BY <2>1, <3>1 DEF Working, Whole
  <2> QED BY <2>2, <2>4, <2>5, <2>6, <2>7 DEF IInv
<1> QED BY <1>2, <1>6, <1>7, <1>8

\* An iteration of remove_row: what is in cell i + 1 of v's block moves to cell i.
ElementMovedDown(v) ==
  LET b   == vec[v].data
      old == heap[b].cells
      now == heap'[b].cells
  IN  /\ vec' = vec /\ job' = job /\ pc' = pc /\ i' = i + 1
      /\ i + 1 <= vec[v].size /\ i \in 1..vec[v].cap /\ i + 1 \in 1..vec[v].cap
      /\ old[i + 1] \in Objects
      /\ b \in Blocks /\ heap[b] # Freed
      /\ heap' \in Heaps /\ heap'[b] # Freed /\ Len(now) = vec[v].cap
      /\ now[i] = old[i + 1] /\ now[i + 1] = Hollow
      /\ \A k \in 1..vec[v].cap : k # i /\ k # i + 1 => now[k] = old[k]
      /\ \A c \in Blocks \cup {Null} : c # b => heap'[c] = heap[c]

LEMMA MovedDownFacts ==
  ASSUME IInv, Shift, i < LoopEnd, NEW v, v = job.v
  PROVE  ElementMovedDown(v)
<1> DEFINE b == vec[v].data
           old == heap[b].cells
           now == heap'[b].cells
           x == Cell(b, i + 1)
           h == [heap EXCEPT ![b].cells[i] = x]
<1>1. /\ v \in Names /\ me = vec[v]
      /\ vec[v].size \in Nat /\ vec[v].cap \in Nat /\ vec[v].size <= vec[v].cap
      /\ Len(old) = vec[v].cap
      /\ vec[v].cap > 0 => b \in Blocks /\ heap[b] # Freed
      /\ heap \in Heaps /\ i \in Nat /\ pc = "shift"
  BY MyFacts DEF Shift
<1>2. /\ i \in 1..vec[v].size
      /\ \A k \in 1..vec[v].cap : k <= vec[v].size /\ k # i => old[k] \in Objects
  BY <1>1 DEF IInv, Working
<1>3. b \in Blocks /\ heap[b] # Freed
  BY <1>1, <1>2
<1>4. /\ heap' = [heap EXCEPT ![b].cells[i] = x, ![b].cells[i + 1] = Hollow] /\ i' = i + 1
      /\ vec' = vec /\ job' = job /\ pc' = pc
  <2>1. heap' = MovedDown(i) /\ i' = i + 1 /\ vec' = vec /\ job' = job /\ pc' = pc
    BY <1>1 DEF Shift, LoopEnd
  <2> QED BY <1>1, <2>1 DEF MovedDown
<1>5. i + 1 <= vec[v].size /\ i \in 1..vec[v].cap /\ i + 1 \in 1..vec[v].cap
  BY <1>1, <1>2 DEF LoopEnd
<1>6. x \in Objects /\ x = old[i + 1]
  BY <1>2, <1>5 DEF Cell
<1>7. Written(heap, h, b, i, x) /\ Written(h, heap', b, i + 1, Hollow)
  BY <1>4 DEF Written
<1> HIDE DEF x, h
<1>8. OneCell(heap, h, b, i, x)
  BY <1>1, <1>3, <1>5, <1>6, <1>7, WriteCell, Distinct
<1>9. OneCell(h, heap', b, i + 1, Hollow)
  <2>1. h \in Heaps /\ h[b] # Freed /\ i + 1 \in 1..Len(h[b].cells)
    BY <1>1, <1>5, <1>8 DEF OneCell
  <2> QED BY <1>3, <1>7, <2>1, WriteCell, Distinct
<1>10. /\ heap' \in Heaps /\ heap'[b] # Freed /\ Len(now) = vec[v].cap
       /\ now[i] = x /\ now[i + 1] = Hollow
       /\ \A k \in 1..vec[v].cap : k # i /\ k # i + 1 => now[k] = old[k]
       /\ \A c \in Blocks \cup {Null} : c # b => heap'[c] = heap[c]
  <2>1. /\ Len(h[b].cells) = vec[v].cap /\ h[b].cells[i] = x
        /\ \A k \in 1..vec[v].cap : k # i => h[b].cells[k] = old[k]
        /\ \A c \in Blocks \cup {Null} : c # b => h[c] = heap[c]
    BY <1>1, <1>8 DEF OneCell
  <2>2. /\ heap' \in Heaps /\ heap'[b] # Freed /\ Len(now) = vec[v].cap /\ now[i + 1] = Hollow
        /\ \A k \in 1..vec[v].cap : k # i + 1 => now[k] = h[b].cells[k]
        /\ \A c \in Blocks \cup {Null} : c # b => heap'[c] = h[c]
    BY <1>9, <2>1 DEF OneCell
  <2>3. i # i + 1
    BY <1>1
  <2> HIDE DEF old, now, b
  <2> QED BY <1>5, <2>1, <2>2, <2>3
<1> QED BY <1>3, <1>4, <1>5, <1>6, <1>10 DEF ElementMovedDown

LEMMA ShiftIInv ==
  ASSUME IInv, Shift
  PROVE  IInv'
<1>0. PICK v : v = job.v
  OBVIOUS
<1> DEFINE b == vec[v].data
           old == heap[b].cells
           now == heap'[b].cells
<1>1. /\ v \in Names /\ Live(v) /\ me = vec[v] /\ vec[v] \in Members
      /\ vec[v].size \in Nat /\ vec[v].cap \in Nat /\ vec[v].size <= vec[v].cap
      /\ Len(old) = vec[v].cap
      /\ vec[v].cap > 0 => b \in Blocks /\ heap[b] # Freed
      /\ \A n \in Names : Busy(n) <=> n = v
      /\ heap \in Heaps /\ i \in Nat /\ pc = "shift" /\ new' = new
  BY <1>0, MyFacts DEF Shift
<1>2. /\ i \in 1..vec[v].size
      /\ \A k \in 1..vec[v].cap :
           /\ k <= vec[v].size /\ k # i => old[k] \in Objects
           /\ k = i => old[k] \in Objects \cup {Hollow}
           /\ k > vec[v].size => old[k] = Raw
  BY <1>1 DEF IInv, Working
<1>3. b \in Blocks /\ heap[b] # Freed
  BY <1>1, <1>2
<1>4. CASE i < LoopEnd
  <2> DEFINE x == old[i + 1]
  <2>1. i' = i + 1 /\ vec' = vec /\ job' = job /\ pc' = pc
    BY <1>0, <1>4, MovedDownFacts DEF ElementMovedDown
  <2>2. i + 1 <= vec[v].size /\ i \in 1..vec[v].cap /\ i + 1 \in 1..vec[v].cap
    BY <1>0, <1>4, MovedDownFacts DEF ElementMovedDown
  <2>3. /\ heap' \in Heaps /\ heap'[b] # Freed /\ Len(now) = vec[v].cap
        /\ x \in Objects /\ now[i] = x /\ now[i + 1] = Hollow
        /\ \A k \in 1..vec[v].cap : k # i /\ k # i + 1 => now[k] = old[k]
        /\ \A c \in Blocks \cup {Null} : c # b => heap'[c] = heap[c]
    BY <1>0, <1>4, MovedDownFacts DEF ElementMovedDown
  <2> HIDE DEF x
  <2>4. OthersKept(v)
    <3>1. /\ pc # "idle" /\ Live(v)' /\ vec'[v].data = vec[v].data
          /\ \A c \in Blocks \cup {Null} :
               /\ (heap'[c] = Freed) <=> (heap[c] = Freed)
               /\ c # b /\ c # new => heap'[c] = heap[c]
      BY <1>1, <1>3, <2>1, <2>3 DEF Live
    <3> QED BY <1>0, <1>1, <2>1, <2>3, <3>1, OnlyMine
  <2>5. Typed' /\ Owned' /\ Called'
    BY <1>1, <2>1, <2>3, <2>4 DEF IInv, Typed, Called, Live, OthersKept
  <2>6. Resting'
    BY <1>1, <2>1, <2>4 DEF Resting, Busy, OthersKept
  <2>7. Working'
    <3> HIDE DEF now, old
    <3>1. \A k \in 1..vec[v].cap :
            /\ k <= vec[v].size /\ k # i + 1 => now[k] \in Objects
            /\ k = i + 1 => now[k] = Hollow
            /\ k > vec[v].size => now[k] = Raw
      BY <1>1, <1>2, <2>2, <2>3
    <3>2. me' = vec[v] /\ i + 1 \in 1..vec[v].size
      BY <1>0, <1>1, <2>1, <2>2 DEF me
    <3>3. Fits(vec[v], heap'[b])
      BY <1>1, <2>3 DEF Fits, now
    <3> QED BY <1>1, <2>1, <3>1, <3>2, <3>3 DEF Working, now
  <2> QED BY <2>5, <2>6, <2>7 DEF IInv
<1>5. CASE i >= LoopEnd
  <2> DEFINE k == vec[v].size
  <2>1. Written(heap, heap', b, k, Raw) /\ vec' = [vec EXCEPT ![v].size = @ - 1] /\ Return
    BY <1>0, <1>1, <1>5 DEF Shift, LoopEnd, LastDestroyed, Written
  <2>2. k = i /\ k \in 1..vec[v].cap /\ k - 1 \in Nat
    BY <1>1, <1>2, <1>5 DEF LoopEnd
  <2>3. /\ vec' \in [Names -> Members \cup {Dead}]
        /\ vec'[v] = [vec[v] EXCEPT !.size = k - 1]
        /\ \A n \in Names : n # v => vec'[n] = vec[n]
    BY <1>1, <2>1, <2>2 DEF IInv, Typed, Members
  <2>4. /\ vec'[v] \in Members /\ vec'[v].data = b /\ vec'[v].size = k - 1
        /\ vec'[v].cap = vec[v].cap /\ Live(v)'
    BY <1>1, <2>2, <2>3, Distinct DEF Members, Live
  <2>5. OneCell(heap, heap', b, k, Raw) /\ OthersKept(v)
    <3>1. pc # "idle" /\ Raw \in Cells /\ \A n \in Names \ {v} : vec'[n] = vec[n]
      BY <1>1, <2>3, Distinct
    <3> HIDE DEF k
    <3> QED BY <1>0, <1>1, <2>1, <2>2, <2>4, <3>1, WroteMine
  <2>6. Typed' /\ Owned'
    BY <1>1, <2>1, <2>3, <2>5 DEF IInv, Typed, Return, OneCell, OthersKept
  <2>7. Whole(vec'[v], heap'[b])
    <3>1. /\ Len(now) = vec[v].cap /\ now[k] = Raw
          /\ \A j \in 1..vec[v].cap : j # k => now[j] = old[j]
      BY <1>1, <2>5 DEF OneCell
    <3> HIDE DEF old, now
    <3>2. Filled(now, 1, k - 1)
      BY <1>1, <1>2, <2>2, <3>1 DEF Filled
    <3>3. Len(now) = vec'[v].cap /\ k - 1 <= vec'[v].cap
      BY <1>1, <2>2, <2>4, <3>1
    <3> QED BY <2>4, <3>2, <3>3 DEF Whole, Fits, now
  <2>8. \A n \in Names : Live(n)' => Whole(vec'[n], heap'[vec'[n].data])
    BY <2>4, <2>5, <2>7 DEF OthersKept
  <2> QED BY <2>1, <2>6, <2>8, Returned
<1> QED BY <1>1, <1>2, <1>4, <1>5 DEF LoopEnd

\* An iteration of reserve: the element in cell i of v's block is constructed in
\* the new block, which is raw there, and destroyed in the old one.
ElementMovedOver(v) ==
  LET b     == vec[v].data
      old   == heap[b].cells
      fresh == heap[new].cells
  IN  /\ vec' = vec /\ job' = job /\ pc' = pc /\ new' = new /\ i' = i + 1
      /\ 1 <= i /\ i <= vec[v].size /\ i \in 1..vec[v].cap /\ i \in 1..Len(fresh)
      /\ b \in Blocks /\ heap[b] # Freed /\ new \in Blocks /\ heap[new] # Freed /\ new # b
      /\ old[i] \in Objects /\ fresh[i] = Raw
      /\ heap' \in Heaps /\ heap'[b] # Freed /\ heap'[new] # Freed
      /\ Len(heap'[b].cells) = vec[v].cap /\ Len(heap'[new].cells) = Len(fresh)
      /\ heap'[b].cells[i] = Raw /\ heap'[new].cells[i] = old[i]
      /\ \A k \in 1..vec[v].cap : k # i => heap'[b].cells[k] = old[k]
      /\ \A k \in 1..Len(fresh) : k # i => heap'[new].cells[k] = fresh[k]
      /\ \A c \in Blocks \cup {Null} : c # b /\ c # new => heap'[c] = heap[c]

LEMMA MovedOverFacts ==
  ASSUME IInv, Grow, i <= me.size, NEW v, v = job.v
  PROVE  ElementMovedOver(v)
<1> DEFINE b == vec[v].data
           old == heap[b].cells
           fresh == heap[new].cells
           x == Cell(b, i)
           h == [heap EXCEPT ![new].cells[i] = x]
<1>1. /\ v \in Names /\ Live(v) /\ me = vec[v]
      /\ vec[v].size \in Nat /\ vec[v].cap \in Nat /\ vec[v].size <= vec[v].cap
      /\ b \in Blocks \cup {Null} /\ Len(old) = vec[v].cap
      /\ vec[v].cap > 0 => b \in Blocks /\ heap[b] # Freed
      /\ heap \in Heaps /\ i \in Nat /\ pc = "grow"
  BY MyFacts DEF Grow
<1>2. /\ i \in 1..(vec[v].size + 1) /\ vec[v].size < Len(fresh)
      /\ Filled(old, i, vec[v].size) /\ Filled(fresh, 1, i - 1)
  BY <1>1 DEF IInv, Working
<1>3. new \in Blocks /\ heap[new] # Freed /\ new # b /\ Len(fresh) \in Nat
  <2>1. new \in Blocks /\ heap[new] # Freed
    BY <1>1 DEF IInv, Typed, Owned
  <2>2. new # b
    BY <1>1, <2>1, Distinct DEF IInv, Owned
  <2>3. Len(fresh) \in Nat
    BY <1>1, <2>1, HeapFacts
  <2> QED BY <2>1, <2>2, <2>3
<1>4. /\ heap' = [heap EXCEPT ![new].cells[i] = x, ![b].cells[i] = Raw] /\ i' = i + 1
      /\ vec' = vec /\ job' = job /\ pc' = pc /\ new' = new
  <2>1. /\ heap' = MovedOver(i) /\ i' = i + 1
        /\ vec' = vec /\ job' = job /\ pc' = pc /\ new' = new
    BY <1>1 DEF Grow
  <2> QED BY <1>1, <2>1 DEF MovedOver
<1>5. /\ 1 <= i /\ i <= vec[v].size /\ i \in 1..vec[v].cap /\ i \in 1..Len(fresh)
      /\ b \in Blocks /\ heap[b] # Freed
  BY <1>1, <1>2, <1>3
<1>6. x \in Objects /\ x = old[i] /\ fresh[i] = Raw
  BY <1>1, <1>2, <1>5 DEF Cell, Filled
<1>7. Written(heap, h, new, i, x) /\ Written(h, heap', b, i, Raw)
  BY <1>4 DEF Written
<1> HIDE DEF x, h
<1>8. OneCell(heap, h, new, i, x)
  BY <1>1, <1>3, <1>5, <1>6, <1>7, WriteCell, Distinct
<1>9. OneCell(h, heap', b, i, Raw)
  <2>1. h \in Heaps /\ h[b] # Freed /\ i \in 1..Len(h[b].cells)
    BY <1>1, <1>3, <1>5, <1>8 DEF OneCell
  <2> QED BY <1>5, <1>7, <2>1, WriteCell, Distinct
<1>10. /\ heap' \in Heaps /\ heap'[b] # Freed /\ heap'[new] # Freed
       /\ Len(heap'[b].cells) = vec[v].cap /\ Len(heap'[new].cells) = Len(fresh)
       /\ heap'[b].cells[i] = Raw /\ heap'[new].cells[i] = x
       /\ \A k \in 1..vec[v].cap : k # i => heap'[b].cells[k] = old[k]
       /\ \A k \in 1..Len(fresh) : k # i => heap'[new].cells[k] = fresh[k]
       /\ \A c \in Blocks \cup {Null} : c # b /\ c # new => heap'[c] = heap[c]
  <2>1. /\ h[new] # Freed /\ Len(h[new].cells) = Len(fresh) /\ h[new].cells[i] = x
        /\ \A k \in 1..Len(fresh) : k # i => h[new].cells[k] = fresh[k]
        /\ h[b] = heap[b]
        /\ \A c \in Blocks \cup {Null} : c # new => h[c] = heap[c]
    BY <1>3, <1>5, <1>8 DEF OneCell
  <2>2. /\ heap' \in Heaps /\ heap'[b] # Freed /\ Len(heap'[b].cells) = vec[v].cap
        /\ heap'[b].cells[i] = Raw
        /\ \A k \in 1..vec[v].cap : k # i => heap'[b].cells[k] = old[k]
        /\ heap'[new] = h[new]
        /\ \A c \in Blocks \cup {Null} : c # b => heap'[c] = h[c]
    <3>1. /\ heap' \in Heaps /\ heap'[b] # Freed /\ Len(heap'[b].cells) = Len(h[b].cells)
          /\ heap'[b].cells[i] = Raw
          /\ \A k \in 1..Len(h[b].cells) : k # i => heap'[b].cells[k] = h[b].cells[k]
          /\ \A c \in Blocks \cup {Null} : c # b => heap'[c] = h[c]
      BY <1>9 DEF OneCell
    <3>2. h[b].cells = old /\ new \in Blocks \cup {Null}
      BY <1>3, <2>1
    <3>3. Len(old) = vec[v].cap
      BY <1>1
    <3>4. heap'[new] = h[new]
      BY <1>3, <3>1, <3>2
    <3> HIDE DEF old, b
    <3> QED BY <3>1, <3>2, <3>3, <3>4
  <2> HIDE DEF old, fresh, b
  <2> QED BY <2>1, <2>2
<1> QED BY <1>3, <1>4, <1>5, <1>6, <1>10 DEF ElementMovedOver

LEMMA GrowIInv ==
  ASSUME IInv, Grow
  PROVE  IInv'
<1>0. PICK v : v = job.v
  OBVIOUS
<1> DEFINE b == vec[v].data
           old == heap[b].cells
           fresh == heap[new].cells
<1>1. /\ v \in Names /\ Live(v) /\ me = vec[v] /\ vec[v] \in Members
      /\ vec[v].size \in Nat /\ vec[v].cap \in Nat /\ vec[v].size <= vec[v].cap
      /\ b \in Blocks \cup {Null} /\ Len(old) = vec[v].cap
      /\ vec[v].cap > 0 => b \in Blocks /\ heap[b] # Freed
      /\ \A n \in Names : Busy(n) <=> n = v
      /\ heap \in Heaps /\ i \in Nat /\ pc = "grow"
  BY <1>0, MyFacts DEF Grow
<1>2. /\ i \in 1..(vec[v].size + 1) /\ vec[v].size < Len(fresh)
      /\ Filled(old, i, vec[v].size) /\ Filled(fresh, 1, i - 1)
  BY <1>1 DEF IInv, Working
<1>3. new \in Blocks /\ heap[new] # Freed /\ new # b /\ Len(fresh) \in Nat
  <2>1. new \in Blocks /\ heap[new] # Freed
    BY <1>1 DEF IInv, Typed, Owned
  <2>2. new # b
    BY <1>1, <2>1, Distinct DEF IInv, Owned
  <2>3. Len(fresh) \in Nat
    BY <1>1, <2>1, HeapFacts
  <2> QED BY <2>1, <2>2, <2>3
<1>4. job.op = "push" /\ job.x \in Values
  BY <1>1 DEF IInv, Called
<1>5. CASE i <= me.size
  <2> DEFINE x == old[i]
  <2>1. i' = i + 1 /\ vec' = vec /\ job' = job /\ pc' = pc /\ new' = new
    BY <1>0, <1>5, MovedOverFacts DEF ElementMovedOver
  <2>2. /\ 1 <= i /\ i <= vec[v].size /\ i \in 1..vec[v].cap /\ i \in 1..Len(fresh)
        /\ b \in Blocks /\ heap[b] # Freed
    BY <1>0, <1>5, MovedOverFacts DEF ElementMovedOver
  <2>3. /\ heap' \in Heaps /\ heap'[b] # Freed /\ heap'[new] # Freed
        /\ Len(heap'[b].cells) = vec[v].cap /\ Len(heap'[new].cells) = Len(fresh)
        /\ x \in Objects /\ heap'[b].cells[i] = Raw /\ heap'[new].cells[i] = x
        /\ \A k \in 1..vec[v].cap : k # i => heap'[b].cells[k] = old[k]
        /\ \A k \in 1..Len(fresh) : k # i => heap'[new].cells[k] = fresh[k]
        /\ \A c \in Blocks \cup {Null} : c # b /\ c # new => heap'[c] = heap[c]
    BY <1>0, <1>5, MovedOverFacts, SMTT(30) DEF ElementMovedOver
  <2> HIDE DEF x
  <2>4. OthersKept(v)
    <3>1. /\ pc # "idle" /\ Live(v)' /\ vec'[v].data = vec[v].data
          /\ \A c \in Blocks \cup {Null} :
               /\ (heap'[c] = Freed) <=> (heap[c] = Freed)
               /\ c # b /\ c # new => heap'[c] = heap[c]
      BY <1>1, <1>3, <2>1, <2>2, <2>3 DEF Live
    <3> QED BY <1>0, <1>1, <2>1, <2>3, <3>1, OnlyMine
  <2>5. Typed' /\ Owned' /\ Called'
    BY <1>1, <2>1, <2>3, <2>4 DEF IInv, Typed, Called, Live, OthersKept
  <2>6. Resting'
    BY <1>1, <2>1, <2>4 DEF Resting, Busy, OthersKept
  <2>7. Working'
    <3> DEFINE now == heap'[b].cells
               next == heap'[new].cells
    <3>1. /\ Len(now) = vec[v].cap /\ Len(next) = Len(fresh)
          /\ now[i] = Raw /\ next[i] \in Objects
          /\ \A k \in 1..vec[v].cap : k # i => now[k] = old[k]
          /\ \A k \in 1..Len(fresh) : k # i => next[k] = fresh[k]
      BY <2>3
    <3> HIDE DEF now, next, old, fresh
    <3>2. Filled(now, i + 1, vec[v].size)
      <4>1. \A k \in 1..vec[v].cap :
              IF i <= k /\ k <= vec[v].size THEN old[k] \in Objects ELSE old[k] = Raw
        BY <1>1, <1>2 DEF Filled
      <4>2. \A k \in 1..vec[v].cap :
              IF i + 1 <= k /\ k <= vec[v].size THEN now[k] \in Objects ELSE now[k] = Raw
        BY <1>1, <3>1, <4>1
      <4> QED BY <3>1, <4>2 DEF Filled
    <3>3. Filled(next, 1, i)
      BY <1>2, <1>3, <2>2, <3>1 DEF Filled
    <3>4. me' = vec[v] /\ i' \in 1..(vec[v].size + 1) /\ i' - 1 = i /\ i' = i + 1
      BY <1>0, <1>1, <2>1, <2>2 DEF me
    <3>5. Fits(vec[v], heap'[b])
      BY <1>1, <3>1 DEF Fits, now
    <3>6. vec[v].size < Len(next)
      BY <1>2, <3>1
    <3> QED BY <1>1, <2>1, <3>2, <3>3, <3>4, <3>5, <3>6 DEF Working, now, next
  <2> QED BY <2>5, <2>6, <2>7 DEF IInv
<1>6. CASE i > me.size
  <2> DEFINE m == [vec[v] EXCEPT !.data = new, !.cap = Len(fresh)]
  <2>1. /\ vec' = [vec EXCEPT ![v] = m]
        /\ heap' = [heap EXCEPT ![b] = Freed]
        /\ new' = Null /\ pc' = "put" /\ job' = job /\ i' = i
    <3>1. /\ vec' = [vec EXCEPT ![v].data = new, ![v].cap = Len(fresh)]
          /\ heap' = [heap EXCEPT ![b] = Freed]
          /\ new' = Null /\ pc' = "put" /\ job' = job /\ i' = i
      BY <1>0, <1>1, <1>6 DEF Grow
    <3>2. v \in DOMAIN vec
      BY <1>1 DEF IInv, Typed
    <3> HIDE DEF b, fresh
    <3>3. [vec EXCEPT ![v].data = new, ![v].cap = Len(fresh)]
            = [vec EXCEPT ![v] = [vec[v] EXCEPT !.data = new, !.cap = Len(fresh)]]
      BY <3>2
    <3> QED BY <3>1, <3>3
  <2>2. m \in Members /\ m.data = new /\ m.size = vec[v].size /\ m.cap = Len(fresh)
    BY <1>1, <1>3 DEF Members
  <2> HIDE DEF m
  <2>3. /\ heap' \in Heaps /\ heap'[b] = Freed
        /\ \A c \in Blocks \cup {Null} : c # b => heap'[c] = heap[c]
    BY <1>1, <2>1, FreeBlock
  <2>4. /\ vec' \in [Names -> Members \cup {Dead}] /\ vec'[v] = m /\ Live(v)'
        /\ \A n \in Names \ {v} : vec'[n] = vec[n] /\ (Live(n)' <=> Live(n))
    BY <1>1, <2>1, <2>2, Distinct DEF IInv, Typed, Live
  <2>5. Typed'
    BY <1>1, <2>1, <2>3, <2>4 DEF IInv, Typed
  <2>6. \A n \in Names \ {v} : Live(n) => vec[n].data \in Blocks \cup {Null} /\ vec[n].data # new
    BY <1>3, LiveFacts, Distinct DEF IInv, Owned
  <2>7. \A n \in Names \ {v} : Live(n) => heap'[vec[n].data] = heap[vec[n].data]
    <3> SUFFICES ASSUME NEW n \in Names \ {v}, Live(n)
                 PROVE  heap'[vec[n].data] = heap[vec[n].data]
      OBVIOUS
    <3>1. CASE vec[n].data = Null
      BY <1>1, <2>3, <3>1 DEF Heaps
    <3>2. CASE vec[n].data # Null
      BY <1>1, <2>3, <2>6, <3>2 DEF IInv, Owned
    <3> QED BY <3>1, <3>2
  <2>8. Owned'
    <3>1. heap'[new] = heap[new] /\ new # Null
      BY <1>3, <2>3, Distinct
    <3>2. \A n \in Names : Live(n)' /\ vec'[n].data # Null => heap'[vec'[n].data] # Freed
      BY <1>3, <2>2, <2>4, <2>7, <3>1 DEF IInv, Owned
    <3>3. \A n, k \in Names : Live(n)' /\ Live(k)' /\ vec'[n].data = vec'[k].data /\ vec'[n].data # Null
            => n = k
      BY <2>2, <2>4, <2>6 DEF IInv, Owned
    <3>4. \A c \in Blocks : heap'[c] # Freed => \E n \in Names : Live(n)' /\ vec'[n].data = c
      <4> SUFFICES ASSUME NEW c \in Blocks, heap'[c] # Freed
                   PROVE  \E n \in Names : Live(n)' /\ vec'[n].data = c
        OBVIOUS
      <4>1. c # b /\ heap[c] # Freed /\ c # Null
        BY <2>3, Distinct
      <4>2. CASE c = new
        BY <1>1, <2>2, <2>4, <4>2
      <4>3. CASE c # new
        <5>1. PICK n \in Names : Live(n) /\ vec[n].data = c
          BY <4>1, <4>3 DEF IInv, Owned
        <5> QED BY <2>4, <4>1, <5>1
      <4> QED BY <4>2, <4>3
    <3>5. \A n \in Names : Live(n)' /\ vec'[n].data # Null => vec'[n].data # new'
      BY <2>1
    <3> QED BY <2>1, <3>2, <3>3, <3>4, <3>5 DEF Owned
  <2>9. Resting'
    BY <1>0, <1>1, <2>1, <2>4, <2>7 DEF IInv, Resting, Busy
  <2>10. Called'
    BY <1>0, <1>1, <1>4, <2>1, <2>4 DEF Called
  <2>11. Working'
    <3>1. me' = m /\ heap'[new] = heap[new]
      BY <1>0, <1>3, <2>1, <2>3, <2>4 DEF me
    <3>2. i - 1 = vec[v].size
      BY <1>1, <1>2, <1>6
    <3> QED BY <1>1, <1>2, <1>3, <2>1, <2>2, <3>1, <3>2 DEF Working, Fits
  <2> QED BY <2>5, <2>8, <2>9, <2>10, <2>11 DEF IInv
<1> QED BY <1>1, <1>2, <1>5, <1>6

LEMMA StepIInv ==
  ASSUME IInv, [Next]_vars
  PROVE  IInv'
<1>1. CASE UNCHANGED vars
  BY <1>1 DEF vars, IInv, Typed, Owned, Resting, Called, Working, Live, Busy, me
<1>2. ASSUME NEW n \in Names, Create(n) PROVE IInv'
  BY <1>2, CreateIInv
<1>3. ASSUME NEW n \in Names, NEW j \in {"clear", "destroy"}, Discard(n, [op |-> j, v |-> n])
      PROVE  IInv'
  BY <1>3, DiscardIInv
<1>4. ASSUME NEW n \in Names, NEW m \in Names, n # m, Live(m), NEW j \in {"copy", "move"},
             Discard(n, [op |-> j, v |-> n, w |-> m])
      PROVE  IInv'
  BY <1>4, DiscardIInv
<1>5. ASSUME NEW n \in Names, PopBack(n) PROVE IInv'
  <2> DEFINE j == [op |-> "pop", v |-> n]
             k == vec[n].size
  <2>1. /\ Live(n) /\ k > 0 /\ Call(j, "shift", k) /\ UNCHANGED <<vec, heap, new>>
        /\ j.v = n /\ j.op = "pop"
    BY <1>5 DEF PopBack
  <2>2. k \in Nat \ {0} /\ k <= vec[n].size
    BY <2>1, LiveFacts DEF IInv
  <2> HIDE DEF j, k
  <2> QED BY <2>1, <2>2, RemoveIInv
<1>6. ASSUME NEW n \in Names, NEW size \in Sizes, CreateSized(n, size) PROVE IInv'
  BY <1>6, CreateSizedIInv, SizesAssumption
<1>7. ASSUME NEW n \in Names, NEW x \in Values, PushBack(n, x) PROVE IInv'
  BY <1>7, PushBackIInv, BoundsAssumption
<1>8. ASSUME NEW n \in Names, NEW k \in 1..MaxSize, RemoveRow(n, k) PROVE IInv'
  <2> DEFINE j == [op |-> "remove", v |-> n, k |-> k]
  <2>1. /\ Live(n) /\ k \in 1..vec[n].size /\ Call(j, "shift", k) /\ UNCHANGED <<vec, heap, new>>
        /\ j.v = n /\ j.op = "remove"
    BY <1>8 DEF RemoveRow
  <2>2. k \in Nat \ {0} /\ k <= vec[n].size
    BY <2>1, LiveFacts, BoundsAssumption DEF IInv
  <2> HIDE DEF j
  <2> QED BY <2>1, <2>2, RemoveIInv
<1>9. ASSUME NEW n \in Names, NEW m \in Names, CreateCopy(n, m) PROVE IInv'
  BY <1>9, CreateCopyIInv
<1>10. ASSUME NEW n \in Names, NEW m \in Names, CreateMoved(n, m) PROVE IInv'
  BY <1>10, CreateMovedIInv
<1>11. CASE Step
  BY <1>11, GrowIInv, PutIInv, ShiftIInv, DestroyAllIInv, ReleaseIInv, ReallocateIInv, BuildIInv
     DEF Step, Reallocate
<1>12. ASSUME NEW n \in Names, Clear(n) \/ Destroy(n) PROVE IInv'
  BY <1>3, <1>12 DEF Clear, Destroy
<1>13. ASSUME NEW n \in Names, NEW m \in Names, AssignCopy(n, m) \/ AssignMoved(n, m)
       PROVE  IInv'
  BY <1>4, <1>13 DEF AssignCopy, AssignMoved
<1> QED BY <1>1, <1>2, <1>5, <1>6, <1>7, <1>8, <1>9, <1>10, <1>11, <1>12, <1>13 DEF Next

\* The invariant holds in every behaviour.
LEMMA Invariance == Spec => []IInv
BY InitIInv, StepIInv, PTL DEF Spec

-----------------------------------------------------------------------------
(***************************************************************************)
(* Nothing leaks, nothing is freed twice                                   *)
(***************************************************************************)

LEMMA IInvHeapOK == IInv => HeapOK
<1> SUFFICES ASSUME IInv PROVE HeapOK
  OBVIOUS
<1>1. \A n \in Names : Live(n) => Fits(vec[n], heap[vec[n].data])
  <2> SUFFICES ASSUME NEW n \in Names, Live(n) PROVE Fits(vec[n], heap[vec[n].data])
    OBVIOUS
  <2>1. CASE Busy(n)
    BY <2>1 DEF IInv, Working, Busy, me
  <2>2. CASE ~Busy(n)
    BY <2>2 DEF IInv, Resting, Whole
  <2> QED BY <2>1, <2>2
<1>2. TypeOK
  <2>1. \A b \in Blocks : heap[b] = Freed \/ (heap[b].used /\ heap[b].cells \in Seq(Cells))
    <3> SUFFICES ASSUME NEW b \in Blocks
                 PROVE  heap[b] = Freed \/ (heap[b].used /\ heap[b].cells \in Seq(Cells))
      OBVIOUS
    <3>1. heap \in Heaps
      BY DEF IInv, Typed
    <3> QED BY <3>1, HeapFacts
  <2> QED BY <1>1, <2>1 DEF IInv, Typed, TypeOK, Fits
<1>3. OwnedOnce
  <2> SUFFICES ASSUME NEW b \in Blocks
               PROVE  LET owners == {n \in Names : Live(n) /\ vec[n].data = b}
                      IN  IF heap[b] = Freed THEN owners = {} /\ new # b
                          ELSE Cardinality(owners) + (IF new = b THEN 1 ELSE 0) = 1
    BY DEF OwnedOnce
  <2> DEFINE owners == {n \in Names : Live(n) /\ vec[n].data = b}
  <2>1. b # Null
    BY Distinct
  <2>2. CASE heap[b] = Freed
    BY <2>1, <2>2 DEF IInv, Owned
  <2>3. CASE heap[b] # Freed /\ new = b
    <3>1. owners = {}
      BY <2>1, <2>3 DEF IInv, Owned
    <3>2. Cardinality(owners) = 0
      BY <3>1, FS_EmptySet
    <3> QED BY <2>3, <3>2
  <2>4. CASE heap[b] # Freed /\ new # b
    <3>1. PICK n \in Names : Live(n) /\ vec[n].data = b
      BY <2>4 DEF IInv, Owned
    <3>2. owners = {n}
      BY <2>1, <3>1 DEF IInv, Owned
    <3>3. Cardinality(owners) = 1
      BY <3>2, FS_Singleton
    <3> QED BY <2>4, <3>3
  <2> QED BY <2>2, <2>3, <2>4
<1>4. ElementsOnly
  <2> SUFFICES ASSUME pc = "idle", NEW n \in Names, Live(n), NEW k \in 1..vec[n].cap
               PROVE  IF k <= vec[n].size THEN Cell(vec[n].data, k) \notin {Raw, Hollow}
                      ELSE Cell(vec[n].data, k) = Raw
    BY DEF ElementsOnly
  <2>1. Whole(vec[n], heap[vec[n].data])
    BY DEF IInv, Resting, Busy
  <2>2. vec[n].size \in Nat /\ vec[n].cap \in Nat
    BY LiveFacts DEF IInv
  <2> QED BY <2>1, <2>2, Distinct DEF Whole, Fits, Filled, Cell
<1> QED BY <1>2, <1>3, <1>4 DEF HeapOK

\* Every block in use has one owner, or is the one reserve fills; every vector
\* fits its block, and between calls its elements are all the objects it has.
THEOREM HeapStaysOK == Spec => []HeapOK
BY Invariance, IInvHeapOK, PTL

-----------------------------------------------------------------------------
(***************************************************************************)
(* Every object is constructed in raw memory and destroyed once            *)
(***************************************************************************)

LEMMA OnceAllocated ==
  ASSUME heap \in Heaps, NEW n \in Nat, NEW d \in Blocks, Allocate(n, d), NEW b \in Blocks
  PROVE  DestroyedOnce(b)
<1>1. /\ heap' \in Heaps /\ heap[d] = Freed
      /\ Len(heap'[d].cells) = n /\ \A k \in 1..n : heap'[d].cells[k] = Raw
      /\ heap'[d] # Freed
      /\ \A c \in Blocks \cup {Null} : c # d => heap'[c] = heap[c]
  BY AllocateFacts
<1>2. heap'[d].cells \in Seq(Cells)
  BY <1>1, HeapFacts
<1>3. DOMAIN heap'[d].cells = 1..n
  BY <1>1, <1>2, LenProperties
<1> QED BY <1>1, <1>3 DEF DestroyedOnce

LEMMA OnceFreed ==
  ASSUME heap \in Heaps, NEW d \in Blocks \cup {Null}, heap' = [heap EXCEPT ![d] = Freed],
         Filled(heap[d].cells, 1, 0), NEW b \in Blocks
  PROVE  DestroyedOnce(b)
<1>1. /\ heap'[d] = Freed
      /\ \A c \in Blocks \cup {Null} : c # d => heap'[c] = heap[c]
  BY FreeBlock
<1>2. ASSUME heap[d] # Freed
      PROVE  \A k \in DOMAIN heap[d].cells : heap[d].cells[k] = Raw
  <2>1. heap[d].cells \in Seq(Cells)
    BY <1>2, HeapFacts
  <2>2. DOMAIN heap[d].cells = 1..Len(heap[d].cells) /\ Len(heap[d].cells) \in Nat
    BY <2>1, LenProperties
  <2> QED BY <2>2 DEF Filled
<1> QED BY <1>1, <1>2 DEF DestroyedOnce

LEMMA OnceWritten ==
  ASSUME heap \in Heaps, NEW d \in Blocks, heap[d] # Freed,
         NEW k \in 1..Len(heap[d].cells), NEW x \in Cells, Written(heap, heap', d, k, x),
         (heap[d].cells[k] = Raw) # (x = Raw), NEW b \in Blocks
  PROVE  DestroyedOnce(b)
<1>1. OneCell(heap, heap', d, k, x)
  BY WriteCell
<1>2. heap[d].cells \in Seq(Cells)
  BY HeapFacts
<1>3. DOMAIN heap[d].cells = 1..Len(heap[d].cells)
  BY <1>2, LenProperties
<1> QED BY <1>1, <1>3 DEF DestroyedOnce, OneCell

\* A step that leaves the heap alone, or shifts the elements of a block that
\* stays in use.
LEMMA OnceAlone ==
  ASSUME NEW b \in Blocks,
         heap' = heap \/ (pc = "shift" /\ heap[b] # Freed /\ heap'[b] # Freed)
                      \/ heap'[b] = heap[b]
  PROVE  DestroyedOnce(b)
BY DEF DestroyedOnce

LEMMA CallOnce ==
  ASSUME IInv, ~Step, Next, NEW b \in Blocks
  PROVE  DestroyedOnce(b)
<1>1. heap \in Heaps /\ \A n \in Names : Live(n) => vec[n].cap \in Nat
  BY LiveFacts DEF IInv, Typed
<1>2. ASSUME NEW n \in Names, NEW size \in Sizes, CreateSized(n, size) PROVE DestroyedOnce(b)
  <2>1. PICK d \in Blocks : Allocate(size, d)
    BY <1>2 DEF CreateSized
  <2> QED BY <1>1, <2>1, OnceAllocated, SizesAssumption
<1>3. ASSUME NEW n \in Names, NEW m \in Names, CreateCopy(n, m) PROVE DestroyedOnce(b)
  <2>1. PICK d \in Blocks : Allocate(vec[m].cap, d)
    BY <1>3 DEF CreateCopy, CopyMembers
  <2>2. vec[m].cap \in Nat
    BY <1>1, <1>3 DEF CreateCopy
  <2> QED BY <1>1, <2>1, <2>2, OnceAllocated
<1>4. ASSUME NEW n \in Names, NEW x \in Values, PushBack(n, x) PROVE DestroyedOnce(b)
  <2> DEFINE c == IF vec[n].cap = 0 THEN First ELSE vec[n].cap * 2
  <2>1. Live(n) /\ (heap' = heap \/ \E d \in Blocks : Allocate(c, d))
    BY <1>4 DEF PushBack
  <2>2. c \in Nat
    BY <1>1, <2>1, BoundsAssumption
  <2> HIDE DEF c
  <2> QED BY <1>1, <2>1, <2>2, OnceAllocated, OnceAlone
<1>5. \/ \E n \in Names, size \in Sizes : CreateSized(n, size)
      \/ \E n, m \in Names : CreateCopy(n, m)
      \/ \E n \in Names, x \in Values : PushBack(n, x)
      \/ heap' = heap
  BY DEF Next, Create, Clear, Destroy, PopBack, RemoveRow, CreateMoved, AssignCopy, AssignMoved,
         Discard
<1> QED BY <1>2, <1>3, <1>4, <1>5, OnceAlone

LEMMA GrowOnce ==
  ASSUME IInv, Grow, NEW b \in Blocks
  PROVE  DestroyedOnce(b)
<1>0. PICK v : v = job.v
  OBVIOUS
<1> DEFINE d == vec[v].data
           old == heap[d].cells
           fresh == heap[new].cells
<1>1. /\ me = vec[v] /\ vec[v].size \in Nat /\ vec[v].cap \in Nat /\ vec[v].size <= vec[v].cap
      /\ d \in Blocks \cup {Null} /\ Len(old) = vec[v].cap
      /\ vec[v].cap > 0 => d \in Blocks /\ heap[d] # Freed
      /\ heap \in Heaps /\ i \in Nat /\ pc = "grow"
  BY <1>0, MyFacts DEF Grow
<1>2. /\ i \in 1..(vec[v].size + 1) /\ vec[v].size < Len(fresh)
      /\ Filled(old, i, vec[v].size) /\ Filled(fresh, 1, i - 1)
  BY <1>1 DEF IInv, Working
<1>3. CASE i <= me.size
  <2>1. ElementMovedOver(v)
    BY <1>0, <1>3, MovedOverFacts
  <2>2. old \in Seq(Cells) /\ fresh \in Seq(Cells)
    BY <1>1, <2>1, HeapFacts DEF ElementMovedOver
  <2>3. DOMAIN old = 1..vec[v].cap /\ DOMAIN fresh = 1..Len(fresh)
    BY <1>1, <2>2, LenProperties
  <2>4. old[i] # Raw
    BY <2>1, Distinct DEF ElementMovedOver
  <2> QED BY <2>1, <2>3, <2>4, ZenonT(30) DEF ElementMovedOver, DestroyedOnce
<1>4. CASE i > me.size
  <2>1. heap' = [heap EXCEPT ![d] = Freed]
    BY <1>1, <1>4 DEF Grow
  <2>2. \A k \in 1..Len(old) : old[k] = Raw
    <3>1. \A k \in 1..Len(old) : ~(i <= k /\ k <= vec[v].size)
      BY <1>1, <1>2, <1>4
    <3> QED BY <1>2, <3>1 DEF Filled
  <2>3. Filled(old, 1, 0)
    BY <1>1, <2>2 DEF Filled
  <2> QED BY <1>1, <2>1, <2>3, OnceFreed
<1> QED BY <1>1, <1>2, <1>3, <1>4

LEMMA StepOnce ==
  ASSUME IInv, Step, NEW b \in Blocks
  PROVE  DestroyedOnce(b)
<1>0. PICK v : v = job.v
  OBVIOUS
<1> DEFINE d == vec[v].data
           old == heap[d].cells
<1>1. ASSUME pc # "idle"
      PROVE  /\ me = vec[v] /\ vec[v].size \in Nat /\ vec[v].cap \in Nat
             /\ vec[v].size <= vec[v].cap
             /\ d \in Blocks \cup {Null} /\ Len(old) = vec[v].cap
             /\ vec[v].cap > 0 => d \in Blocks /\ heap[d] # Freed
             /\ heap \in Heaps /\ i \in Nat
  BY <1>0, <1>1, MyFacts
<1>2. CASE Put
  <2> DEFINE k == vec[v].size + 1
             x == Obj(job.x)
  <2>1. /\ pc = "put" /\ Written(heap, heap', d, k, x)
    BY <1>0, <1>1, <1>2 DEF Put, Written
  <2>2. k \in 1..vec[v].cap /\ old[k] = Raw
    BY <1>1, <2>1, SMTT(30) DEF IInv, Working, Filled
  <2>3. x \in Cells /\ x # Raw
    BY <2>1, Distinct DEF IInv, Called, Objects
  <2> HIDE DEF k, x
  <2> QED BY <1>1, <2>1, <2>2, <2>3, OnceWritten
<1>3. CASE DestroyAll
  <2>1. CASE i <= me.size
    <3>1. pc = "clear" /\ Written(heap, heap', d, i, Raw)
      BY <1>0, <1>1, <1>3, <2>1 DEF DestroyAll, Written
    <3>2. i \in 1..vec[v].cap /\ old[i] \in Objects
      BY <1>1, <2>1, <3>1 DEF IInv, Working, Filled
    <3>3. Raw \in Cells /\ old[i] # Raw
      BY <3>2, Distinct
    <3> QED BY <1>1, <3>1, <3>2, <3>3, OnceWritten
  <2>2. CASE ~(i <= me.size)
    BY <1>3, <2>2, OnceAlone DEF DestroyAll
  <2> QED BY <2>1, <2>2
<1>4. CASE Build
  <2>1. CASE i <= me.size
    <3> DEFINE x == IF job.op = "copy" THEN Cell(vec[job.w].data, i) ELSE Obj(Default)
    <3>1. pc = "build" /\ Written(heap, heap', d, i, x)
      BY <1>0, <1>1, <1>4, <2>1 DEF Build, Written
    <3>2. i \in 1..vec[v].cap /\ old[i] = Raw
      BY <1>1, <2>1, <3>1 DEF IInv, Working, Filled
    <3>3. x \in Cells /\ x # Raw
      <4>1. CASE job.op = "copy"
        <5>1. job.w \in Names /\ job.w # v /\ Live(job.w) /\ me.size = vec[job.w].size
          BY <1>0, <3>1, <4>1 DEF IInv, Called, Working
        <5>2. Whole(vec[job.w], heap[vec[job.w].data]) /\ vec[job.w].size \in Nat /\ vec[job.w].cap \in Nat
          BY <1>0, <5>1, LiveFacts DEF IInv, Resting, Busy
        <5>3. vec[job.w] \in Members /\ i \in 1..vec[job.w].cap /\ i <= vec[job.w].size
          <6>1. vec[job.w] \in Members /\ vec[job.w].size <= vec[job.w].cap
            BY <5>1, <5>2, LiveFacts DEF IInv, Fits, Whole
          <6> QED BY <2>1, <3>2, <5>1, <5>2, <6>1
        <5>4. x \in Objects
          BY <4>1, <5>2, <5>3, WholeCells DEF Cell
        <5> QED BY <5>4, Distinct
      <4>2. CASE job.op # "copy"
        <5>1. x \in Objects
          BY <4>2 DEF Objects
        <5> QED BY <5>1, Distinct
      <4> QED BY <4>1, <4>2
    <3> HIDE DEF x
    <3> QED BY <1>1, <3>1, <3>2, <3>3, OnceWritten
  <2>2. CASE ~(i <= me.size)
    BY <1>4, <2>2, OnceAlone DEF Build
  <2> QED BY <2>1, <2>2
<1>5. CASE Release
  <2>1. pc = "release" /\ heap' = [heap EXCEPT ![d] = Freed]
    BY <1>0, <1>1, <1>5 DEF Release
  <2>2. Filled(old, 1, 0)
    BY <1>1, <2>1 DEF IInv, Working
  <2> QED BY <1>1, <2>1, <2>2, OnceFreed
<1>6. CASE Reallocate
  <2>1. pc = "allocate" /\ job.op = "copy" /\ job.w \in Names /\ Live(job.w)
    BY <1>6 DEF Reallocate, IInv, Called
  <2>2. vec[job.w].cap \in Nat
    BY <2>1, LiveFacts DEF IInv
  <2>3. PICK c \in Blocks : Allocate(vec[job.w].cap, c)
    BY <1>6 DEF Reallocate, CopyMembers
  <2> QED BY <1>1, <2>1, <2>2, <2>3, OnceAllocated
<1>7. CASE Shift
  <2>1. pc = "shift" /\ i \in 1..me.size
    BY <1>7 DEF Shift, IInv, Working
  <2>2. d \in Blocks /\ heap[d] # Freed /\ me.size \in 1..vec[v].cap
    BY <1>1, <2>1
  <2>3. heap'[d] # Freed /\ \A c \in Blocks \cup {Null} : c # d => heap'[c] = heap[c]
    <3>1. CASE i < LoopEnd
      BY <1>0, <1>7, <3>1, MovedDownFacts DEF ElementMovedDown
    <3>2. CASE ~(i < LoopEnd)
      <4>1. Written(heap, heap', d, me.size, Raw)
        BY <1>1, <1>7, <2>1, <3>2 DEF Shift, LastDestroyed, LoopEnd, Written
      <4>2. OneCell(heap, heap', d, me.size, Raw)
        BY <1>1, <2>1, <2>2, <4>1, WriteCell, Distinct
      <4> QED BY <4>2 DEF OneCell
    <3> QED BY <3>1, <3>2
  <2> QED BY <2>1, <2>2, <2>3, OnceAlone
<1>8. CASE Grow
  BY <1>8, GrowOnce
<1> QED BY <1>2, <1>3, <1>4, <1>5, <1>6, <1>7, <1>8 DEF Step

LEMMA NextOnce ==
  ASSUME IInv, [Next]_vars
  PROVE  [\A b \in Blocks : DestroyedOnce(b)]_vars
BY CallOnce, StepOnce

\* No block is freed while there is an object in it, no object is constructed on
\* top of another and none is destroyed twice.
THEOREM DestroyedOnceOnly == Spec => EachDestroyedOnce
<1>1. IInv /\ [Next]_vars => [\A b \in Blocks : DestroyedOnce(b)]_vars
  BY NextOnce
<1> QED BY <1>1, Invariance, PTL DEF Spec, EachDestroyedOnce

-----------------------------------------------------------------------------
(***************************************************************************)
(* The vectors are lists: Vector implements Lists, whatever its constants. *)
(* While a call runs, the lists are those of the moment it began (before), *)
(* and Past says how far the cells have come from there.                   *)
(***************************************************************************)

Elems == Values \cup {Default}

\* The elements of a vector, and of the vector as a list.
ValsOf(n)   == [k \in 1..vec[n].size |-> Cell(vec[n].data, k).val]
ListOf(n) == IF Live(n) THEN [live |-> TRUE, elements |-> ValsOf(n)]
             ELSE [live |-> FALSE, elements |-> <<>>]

\* While a call runs, the vectors it does not work on are what they were when
\* it began.
Unchanged ==
  pc # "idle" =>
    /\ before = [n \in Names |-> before[n]]
    /\ \A n \in Names \ {job.v} : before[n] = ListOf(n)

\* And the one it works on is what it was, up to what the call has done so far.
Progressed ==
  LET s     == before[job.v].elements
      cells == heap[me.data].cells
      from  == IF job.op = "pop" THEN Len(s) ELSE job.k
  IN  /\ pc \in {"grow", "put", "shift"} => s \in Seq(Elems) /\ Len(s) = me.size
      /\ pc = "grow" =>
           \A k \in 1..me.size :
             s[k] = IF k < i THEN heap[new].cells[k].val ELSE cells[k].val
      /\ pc = "put" => \A k \in 1..me.size : s[k] = cells[k].val
      /\ pc = "shift" =>
           /\ from \in 1..i
           /\ \A k \in 1..me.size : k # i =>
                cells[k].val = IF from <= k /\ k < i THEN s[k + 1] ELSE s[k]
      /\ pc = "build" /\ job.op = "sized" =>
           me.size = job.size /\ \A k \in 1..(i - 1) : cells[k].val = Default
      /\ pc = "build" /\ job.op = "copy" =>
           \A k \in 1..(i - 1) : cells[k].val = Cell(vec[job.w].data, k).val

Past == Unchanged /\ Progressed

LEMMA ListsAre == AsLists = [n \in Names |-> ListOf(n)] /\ \A n \in Names : AsLists[n] = ListOf(n)
BY DEF AsLists, ListOf, ValsOf

\* The elements of a vector that is whole.
LEMMA WholeList ==
  ASSUME IInv, NEW n \in Names, Live(n), Whole(vec[n], heap[vec[n].data])
  PROVE  /\ ListOf(n) = [live |-> TRUE, elements |-> ValsOf(n)]
         /\ ValsOf(n) \in Seq(Elems) /\ Len(ValsOf(n)) = vec[n].size
         /\ \A k \in 1..vec[n].size : ValsOf(n)[k] = heap[vec[n].data].cells[k].val
<1>1. vec[n].size \in Nat /\ vec[n].cap \in Nat
  BY LiveFacts DEF IInv
<1>2. \A k \in 1..vec[n].size : heap[vec[n].data].cells[k] \in Objects
  BY <1>1 DEF Whole, Fits, Filled
<1>3. \A x \in Objects : x.val \in Elems
  BY DEF Objects, Obj, Elems
<1>4. ListOf(n) = [live |-> TRUE, elements |-> ValsOf(n)]
  BY DEF ListOf
<1>5. \A k \in 1..vec[n].size : Cell(vec[n].data, k).val \in Elems
  BY <1>2, <1>3 DEF Cell
<1>6. ValsOf(n) \in Seq(Elems) /\ Len(ValsOf(n)) = vec[n].size
  BY <1>1, <1>5 DEF ValsOf
<1> QED BY <1>4, <1>6 DEF ValsOf, Cell

\* A vector whose members and block a step leaves alone is the same list.
LEMMA SameList ==
  ASSUME NEW n \in Names, vec'[n] = vec[n],
         Live(n) => heap'[vec[n].data] = heap[vec[n].data]
  PROVE  ListOf(n)' = ListOf(n)
<1>1. Live(n)' <=> Live(n)
  BY DEF Live
<1>2. CASE Live(n)
  <2>1. \A k : Cell(vec[n].data, k)' = Cell(vec[n].data, k)
    BY <1>2 DEF Cell
  <2>2. ValsOf(n)' = ValsOf(n)
    BY <1>2, <2>1 DEF ValsOf, Cell
  <2> QED BY <1>1, <1>2, <2>2 DEF ListOf
<1>3. CASE ~Live(n)
  BY <1>1, <1>3 DEF ListOf
<1> QED BY <1>2, <1>3

\* What a step of a call leaves alone.
LEMMA StepLeaves ==
  ASSUME IInv, Step, heap' \in Heaps, NEW v, v = job.v, NEW n \in Names \ {v}
  PROVE  /\ vec'[n] = vec[n] \/ (Release /\ job.op = "move" /\ n = job.w)
         /\ Live(n) => heap'[vec[n].data] = heap[vec[n].data]
<1>1. pc # "idle"
  BY DEF Step, Grow, Put, Shift, DestroyAll, Release, Reallocate, Build
<1>2. /\ v \in Names /\ me = vec[v] /\ vec[v].data \in Blocks \cup {Null} /\ Live(v)
  BY <1>1, MyFacts
<1>3. vec'[n] = vec[n] \/ (Release /\ job.op = "move" /\ n = job.w)
  <2>1. CASE Release
    BY <1>2, <2>1 DEF Release, Steal, IInv, Typed
  <2>2. CASE ~Release
    BY <1>2, <2>2 DEF Step, Grow, Put, Shift, DestroyAll, Reallocate, CopyMembers, Build, IInv, Typed
  <2> QED BY <2>1, <2>2
<1>4. ASSUME NEW c \in Blocks
      PROVE  heap'[c] = heap[c] \/ heap[c] = Freed \/ c = new \/ c = vec[v].data
  <2>1. heap \in Heaps
    BY DEF IInv, Typed
  <2>2. DOMAIN heap = Blocks \cup {Null}
    BY <2>1 DEF Heaps
  <2>3. CASE Grow
    BY <1>2, <2>2, <2>3 DEF Grow, MovedOver
  <2>4. CASE Put \/ DestroyAll \/ Release \/ Build
    BY <1>2, <2>2, <2>4 DEF Put, DestroyAll, Release, Build
  <2>5. CASE Shift
    BY <1>2, <2>2, <2>5 DEF Shift, MovedDown, LastDestroyed
  <2>6. CASE Reallocate
    BY <1>2, <2>2, <2>6 DEF Reallocate, CopyMembers, Allocate
  <2> QED BY <2>3, <2>4, <2>5, <2>6 DEF Step
<1>5. ASSUME Live(n) PROVE heap'[vec[n].data] = heap[vec[n].data]
  <2>1. vec[n].data \in Blocks \cup {Null}
    BY <1>5, LiveFacts DEF IInv
  <2>2. CASE vec[n].data = Null
    BY <2>2 DEF IInv, Typed, Heaps
  <2>3. CASE vec[n].data # Null
    BY <1>2, <1>4, <1>5, <2>1, <2>3 DEF IInv, Owned
  <2> QED BY <2>1, <2>2, <2>3
<1> QED BY <1>3, <1>5

\* A call that returns has changed the list it works on to what it is now.
LEMMA Finished ==
  ASSUME Past, pc # "idle", pc' = "idle", NEW v \in Names, v = job.v,
         \A n \in Names \ {v} : ListOf(n)' = ListOf(n)
  PROVE  Contents = before /\ Contents' = [before EXCEPT ![v] = ListOf(v)']
<1>1. Contents = before /\ Contents' = AsLists'
  BY DEF Contents
<1>2. AsLists' = [n \in Names |-> ListOf(n)']
  BY DEF AsLists, ListOf, ValsOf
<1>3. before = [n \in Names |-> before[n]] /\ \A n \in Names \ {v} : before[n] = ListOf(n)
  BY DEF Past, Unchanged
<1> QED BY <1>1, <1>2, <1>3

\* Between calls the lists that are live are the vectors that are there.
LEMMA IdleLists ==
  ASSUME pc = "idle"
  PROVE  /\ Contents = AsLists /\ Contents = [n \in Names |-> ListOf(n)]
         /\ \A n \in Names : Contents[n] = ListOf(n) /\ (Contents[n].live <=> Live(n))
<1>1. Contents = AsLists /\ Contents = [n \in Names |-> ListOf(n)]
  BY ListsAre DEF Contents
<1>2. \A n \in Names : Contents[n] = ListOf(n)
  BY <1>1
<1>3. \A n \in Names : ListOf(n).live <=> Live(n)
  BY DEF ListOf
<1> QED BY <1>1, <1>2, <1>3

\* Memory that is allocated is no vector's.
LEMMA AllocateLeaves ==
  ASSUME IInv, NEW c \in Nat, NEW d \in Blocks, Allocate(c, d), NEW n \in Names, Live(n)
  PROVE  heap'[vec[n].data] = heap[vec[n].data]
<1>1. heap \in Heaps /\ vec[n].data \in Blocks \cup {Null}
  BY LiveFacts DEF IInv, Typed
<1>2. heap[d] = Freed /\ \A b \in Blocks \cup {Null} : b # d => heap'[b] = heap[b]
  BY <1>1, AllocateFacts
<1>3. vec[n].data # d
  BY <1>2, Distinct DEF IInv, Owned
<1> QED BY <1>1, <1>2, <1>3

\* A call that begins is announced and leaves the lists alone.
LEMMA Announced ==
  ASSUME IInv, NEW v \in Names, NEW j, NEW first, NEW k, Call(j, first, k), first # "idle",
         j.v = v, j \in Promise!Calls, Promise!Legal(j),
         \A n \in Names \ {v} : vec'[n] = vec[n],
         \A n \in Names \ {v} : Live(n) => heap'[vec[n].data] = heap[vec[n].data]
  PROVE  /\ Promise!Next /\ Unchanged'
         /\ before'[v] = ListOf(v) /\ job' = j /\ pc' = first /\ i' = k /\ pc = "idle"
<1>1. pc = "idle" /\ job' = j /\ pc' = first /\ i' = k /\ before' = AsLists
  BY DEF Call
<1>2. job = NoJob
  BY <1>1 DEF IInv, Called
<1>3. Contents' = Contents
  BY <1>1 DEF Contents
<1>4. Promise!Next
  BY <1>1, <1>2, <1>3 DEF Promise!Next, Promise!NoCall, NoJob
<1>5. AsLists = [n \in Names |-> ListOf(n)] /\ \A n \in Names : AsLists[n] = ListOf(n)
  BY ListsAre
<1>6. \A n \in Names \ {v} : ListOf(n)' = ListOf(n)
  BY SameList
<1>7. before' = [n \in Names |-> before'[n]]
  BY <1>1, <1>5
<1>8. \A n \in Names \ {v} : before'[n] = ListOf(n)'
  BY <1>1, <1>5, <1>6
<1>9. Unchanged'
  BY <1>1, <1>7, <1>8 DEF Unchanged
<1> QED BY <1>1, <1>4, <1>5, <1>9

LEMMA CreateSizedRefines ==
  ASSUME IInv, NEW n \in Names, NEW size \in Sizes, CreateSized(n, size)
  PROVE  Past' /\ Promise!Next
<1> DEFINE j == [op |-> "sized", v |-> n, size |-> size]
<1>1. PICK d \in Blocks : /\ Allocate(size, d)
                          /\ vec' = [vec EXCEPT ![n] = [data |-> d, size |-> size, cap |-> size]]
  BY DEF CreateSized
<1>2. ~Live(n) /\ Call(j, "build", 1)
  BY DEF CreateSized
<1>3. j \in Promise!Calls
  BY DEF Promise!Calls
<1>4. Promise!Legal(j)
  BY <1>2, IdleLists DEF Promise!Legal, Call
<1>5. j.v = n /\ j.size = size /\ j.op = "sized"
  OBVIOUS
<1> HIDE DEF j
<1>6. /\ \A m \in Names \ {n} : vec'[m] = vec[m]
      /\ vec'[n].size = size
  BY <1>1 DEF IInv, Typed
<1>7. \A m \in Names \ {n} : Live(m) => heap'[vec[m].data] = heap[vec[m].data]
  BY <1>1, AllocateLeaves, SizesAssumption
<1>8. Promise!Next /\ Unchanged' /\ job' = j /\ pc' = "build" /\ i' = 1
  BY <1>2, <1>3, <1>4, <1>5, <1>6, <1>7, Announced
<1>9. Progressed'
  BY <1>5, <1>6, <1>8 DEF Progressed, me
<1> QED BY <1>8, <1>9 DEF Past

LEMMA CreateCopyRefines ==
  ASSUME IInv, NEW n \in Names, NEW w \in Names, CreateCopy(n, w)
  PROVE  Past' /\ Promise!Next
<1> DEFINE j == [op |-> "copy", v |-> n, w |-> w]
<1>1. PICK d \in Blocks : /\ Allocate(vec[w].cap, d)
                          /\ vec' = [vec EXCEPT ![n] = [vec[w] EXCEPT !.data = d]]
  BY DEF CreateCopy, CopyMembers
<1>2. ~Live(n) /\ Live(w) /\ n # w /\ Call(j, "build", 1)
  BY DEF CreateCopy
<1>3. j \in Promise!Calls
  BY DEF Promise!Calls
<1>4. Promise!Legal(j)
  BY <1>2, IdleLists DEF Promise!Legal, Call
<1>5. j.v = n /\ j.w = w /\ j.op = "copy"
  OBVIOUS
<1> HIDE DEF j
<1>6. \A m \in Names \ {n} : vec'[m] = vec[m]
  BY <1>1 DEF IInv, Typed
<1>7. \A m \in Names \ {n} : Live(m) => heap'[vec[m].data] = heap[vec[m].data]
  <2>1. vec[w].cap \in Nat
    BY <1>2, LiveFacts DEF IInv
  <2> QED BY <1>1, <2>1, AllocateLeaves
<1>8. Promise!Next /\ Unchanged' /\ job' = j /\ pc' = "build" /\ i' = 1
  BY <1>2, <1>3, <1>4, <1>5, <1>6, <1>7, Announced
<1>9. Progressed'
  BY <1>5, <1>8 DEF Progressed
<1> QED BY <1>8, <1>9 DEF Past

LEMMA DiscardRefines ==
  ASSUME IInv, NEW n \in Names, NEW j, Discard(n, j), j.v = n,
         j \in Promise!Calls, Promise!Legal(j)
  PROVE  Past' /\ Promise!Next
<1>1. Call(j, "clear", 1) /\ vec' = vec /\ heap' = heap
  BY DEF Discard
<1>2. Promise!Next /\ Unchanged' /\ pc' = "clear"
  BY <1>1, Announced
<1>3. Progressed'
  BY <1>2 DEF Progressed
<1> QED BY <1>2, <1>3 DEF Past

LEMMA PushBackRefines ==
  ASSUME IInv, NEW n \in Names, NEW x \in Values, PushBack(n, x)
  PROVE  Past' /\ Promise!Next
<1> DEFINE j == [op |-> "push", v |-> n, x |-> x]
           first == IF Full(n) THEN "grow" ELSE "put"
           c == IF vec[n].cap = 0 THEN First ELSE vec[n].cap * 2
<1>1. Live(n) /\ Call(j, first, 1) /\ vec' = vec
  BY DEF PushBack
<1>2. j \in Promise!Calls
  BY DEF Promise!Calls
<1>3. Promise!Legal(j)
  BY <1>1, IdleLists DEF Promise!Legal, Call
<1>4. j.v = n /\ j.x = x /\ j.op = "push" /\ first \in {"grow", "put"}
  OBVIOUS
<1>5. heap' = heap \/ \E d \in Blocks : Allocate(c, d)
  BY DEF PushBack
<1>6. c \in Nat
  BY <1>1, LiveFacts, BoundsAssumption DEF IInv
<1> HIDE DEF j, first, c
<1>7. \A m \in Names : Live(m) => heap'[vec[m].data] = heap[vec[m].data]
  BY <1>5, <1>6, AllocateLeaves
<1>8. /\ Promise!Next /\ Unchanged' /\ before'[n] = ListOf(n) /\ job' = j /\ pc' = first
      /\ i' = 1 /\ pc = "idle"
  BY <1>1, <1>2, <1>3, <1>4, <1>7, Announced
<1>9. /\ ListOf(n).elements = ValsOf(n)
      /\ ValsOf(n) \in Seq(Elems) /\ Len(ValsOf(n)) = vec[n].size
      /\ \A k \in 1..vec[n].size : ValsOf(n)[k] = heap[vec[n].data].cells[k].val
      /\ vec[n].size \in Nat
  <2>1. Whole(vec[n], heap[vec[n].data])
    BY <1>1, <1>8 DEF IInv, Resting, Busy
  <2> QED BY <1>1, <2>1, WholeList, LiveFacts DEF IInv
<1>10. me' = vec[n] /\ heap'[vec[n].data] = heap[vec[n].data] /\ before'[n].elements = ValsOf(n)
  BY <1>1, <1>4, <1>7, <1>8, <1>9 DEF me
<1>11. \A k \in 1..vec[n].size : ~(k < 1)
  BY <1>9
<1>12. Progressed'
  BY <1>4, <1>8, <1>9, <1>10, <1>11 DEF Progressed
<1> QED BY <1>8, <1>12 DEF Past

LEMMA RemoveRefines ==
  ASSUME IInv, NEW n \in Names, NEW k \in Nat \ {0}, k <= vec[n].size, Live(n),
         NEW j, j.v = n, (j.op = "remove" /\ j.k = k) \/ (j.op = "pop" /\ k = vec[n].size),
         j \in Promise!Calls, Promise!Legal(j),
         Call(j, "shift", k), UNCHANGED <<vec, heap, new>>
  PROVE  Past' /\ Promise!Next
<1>1. /\ Promise!Next /\ Unchanged' /\ before'[n] = ListOf(n) /\ job' = j /\ pc' = "shift"
      /\ i' = k /\ pc = "idle"
  BY Announced
<1>2. /\ ListOf(n).elements = ValsOf(n)
      /\ ValsOf(n) \in Seq(Elems) /\ Len(ValsOf(n)) = vec[n].size
      /\ \A m \in 1..vec[n].size : ValsOf(n)[m] = heap[vec[n].data].cells[m].val
      /\ vec[n].size \in Nat
  <2>1. Whole(vec[n], heap[vec[n].data])
    BY <1>1 DEF IInv, Resting, Busy
  <2> QED BY <2>1, WholeList, LiveFacts DEF IInv
<1>3. me' = vec[n] /\ before'[n].elements = ValsOf(n)
  BY <1>1, <1>2 DEF me
<1>4. \A m \in 1..vec[n].size : ~(k <= m /\ m < k)
  OBVIOUS
<1>5. (IF j.op = "pop" THEN Len(ValsOf(n)) ELSE j.k) = k /\ k \in 1..k
  BY <1>2
<1>6. Progressed'
  BY <1>1, <1>2, <1>3, <1>4, <1>5 DEF Progressed
<1> QED BY <1>1, <1>6 DEF Past

LEMMA CreateRefines ==
  ASSUME IInv, NEW n \in Names, Create(n)
  PROVE  Past' /\ Promise!Next
<1> DEFINE j == [op |-> "sized", v |-> n, size |-> 0]
<1>1. /\ pc = "idle" /\ pc' = "idle" /\ ~Live(n) /\ vec' = [vec EXCEPT ![n] = Empty]
      /\ heap' = heap /\ job' = job
  BY DEF Create
<1>2. job = NoJob
  BY <1>1 DEF IInv, Called
<1>3. j \in Promise!Calls
  BY DEF Promise!Calls
<1>4. Promise!Legal(j)
  BY <1>1, IdleLists DEF Promise!Legal
<1>5. vec'[n] = Empty /\ \A m \in Names \ {n} : vec'[m] = vec[m]
  BY <1>1 DEF IInv, Typed
<1>6. \A m \in Names \ {n} : ListOf(m)' = ListOf(m)
  BY <1>1, <1>5, SameList
<1>7. ListOf(n)' = [live |-> TRUE, elements |-> [k \in 1..0 |-> Default]]
  <2>1. Live(n)' /\ vec'[n].size = 0
    BY <1>5, Distinct DEF Live, Empty
  <2>2. ValsOf(n)' = [k \in 1..0 |-> Default]
    BY <2>1 DEF ValsOf
  <2> QED BY <2>1, <2>2 DEF ListOf
<1>8. Contents' = [Contents EXCEPT ![n] = ListOf(n)']
  <2>1. Contents = [m \in Names |-> ListOf(m)]
    BY <1>1, IdleLists
  <2>2. Contents' = [m \in Names |-> ListOf(m)']
    BY <1>1 DEF Contents, AsLists, ListOf, ValsOf
  <2> QED BY <1>6, <2>1, <2>2
<1>9. Promise!Apply(j)
  BY <1>7, <1>8 DEF Promise!Apply, Promise!Becomes, Promise!Alive
<1>10. Past'
  BY <1>1 DEF Past, Unchanged, Progressed
<1> QED BY <1>1, <1>2, <1>3, <1>4, <1>9, <1>10 DEF Promise!Next, Promise!NoCall, NoJob

LEMMA CreateMovedRefines ==
  ASSUME IInv, NEW n \in Names, NEW w \in Names, CreateMoved(n, w)
  PROVE  Past' /\ Promise!Next
<1> DEFINE j == [op |-> "move", v |-> n, w |-> w]
<1>1. /\ pc = "idle" /\ pc' = "idle" /\ ~Live(n) /\ Live(w) /\ n # w
      /\ vec' = [vec EXCEPT ![n] = vec[w], ![w] = Empty]
      /\ heap' = heap /\ job' = job
  BY DEF CreateMoved, Steal
<1>2. job = NoJob
  BY <1>1 DEF IInv, Called
<1>3. j \in Promise!Calls
  BY DEF Promise!Calls
<1>4. Promise!Legal(j)
  BY <1>1, IdleLists DEF Promise!Legal
<1>5. vec'[n] = vec[w] /\ vec'[w] = Empty /\ \A m \in Names \ {n, w} : vec'[m] = vec[m]
  BY <1>1 DEF IInv, Typed
<1>6. \A m \in Names \ {n, w} : ListOf(m)' = ListOf(m)
  BY <1>1, <1>5, SameList
<1>7. ListOf(w)' = [live |-> TRUE, elements |-> <<>>]
  <2>1. Live(w)' /\ vec'[w].size = 0
    BY <1>5, Distinct DEF Live, Empty
  <2>2. ValsOf(w)' = <<>>
    BY <2>1 DEF ValsOf
  <2> QED BY <2>1, <2>2 DEF ListOf
<1>8. ListOf(n)' = ListOf(w)
  <2>1. Live(n)' /\ vec'[n] = vec[w] /\ heap' = heap
    BY <1>1, <1>5 DEF Live
  <2>2. ValsOf(n)' = ValsOf(w)
    BY <2>1 DEF ValsOf, Cell
  <2> QED BY <1>1, <2>1, <2>2 DEF ListOf
<1>9. Contents' = [Contents EXCEPT ![n] = Contents[w], ![w] = [live |-> TRUE, elements |-> <<>>]]
  <2>1. Contents = [m \in Names |-> ListOf(m)]
    BY <1>1, IdleLists
  <2>2. Contents' = [m \in Names |-> ListOf(m)']
    BY <1>1 DEF Contents, AsLists, ListOf, ValsOf
  <2> QED BY <1>1, <1>6, <1>7, <1>8, <2>1, <2>2
<1>10. Promise!Apply(j)
  BY <1>9 DEF Promise!Apply, Promise!Alive
<1>11. Past'
  BY <1>1 DEF Past, Unchanged, Progressed
<1> QED BY <1>1, <1>2, <1>3, <1>4, <1>10, <1>11 DEF Promise!Next, Promise!NoCall, NoJob

\* A call that goes on has not taken effect.
LEMMA Continues ==
  ASSUME IInv, Past, Step, heap' \in Heaps, pc # "idle", pc' # "idle", job' = job
  PROVE  Unchanged' /\ before' = before /\ UNCHANGED <<Contents, job>>
<1>0. PICK v : v = job.v
  OBVIOUS
<1>1. before' = before
  BY DEF Step
<1>2. before = [n \in Names |-> before[n]] /\ \A n \in Names \ {v} : before[n] = ListOf(n)
  BY <1>0 DEF Past, Unchanged
<1>3. \A n \in Names \ {v} : ListOf(n)' = ListOf(n)
  <2> SUFFICES ASSUME NEW n \in Names \ {v} PROVE ListOf(n)' = ListOf(n)
    OBVIOUS
  <2>1. vec'[n] = vec[n]
    <3>1. ~(Release /\ job.op = "move")
      BY DEF Release, Return
    <3> QED BY <1>0, <3>1, StepLeaves
  <2>2. Live(n) => heap'[vec[n].data] = heap[vec[n].data]
    BY <1>0, StepLeaves
  <2> QED BY <2>1, <2>2, SameList
<1>4. Unchanged'
  BY <1>0, <1>1, <1>2, <1>3 DEF Unchanged
<1>5. UNCHANGED <<Contents, job>>
  BY <1>1 DEF Contents
<1> QED BY <1>1, <1>4, <1>5

\* A call that returns takes effect, once the list it works on is what the
\* operation makes of it.
LEMMA Returns ==
  ASSUME IInv, Past, Step, heap' \in Heaps, pc # "idle", Return,
         NEW v, v = job.v, ~(Release /\ job.op = "move")
  PROVE  /\ Past' /\ Contents = before
         /\ Contents' = [before EXCEPT ![v] = ListOf(v)']
         /\ Promise!Apply(job) => Promise!Next
<1>1. pc' = "idle" /\ job' = NoJob /\ v \in Names /\ job.op # "none"
  BY DEF Return, IInv, Called
<1>2. \A n \in Names \ {v} : ListOf(n)' = ListOf(n)
  <2> SUFFICES ASSUME NEW n \in Names \ {v} PROVE ListOf(n)' = ListOf(n)
    OBVIOUS
  <2>1. vec'[n] = vec[n] /\ (Live(n) => heap'[vec[n].data] = heap[vec[n].data])
    BY StepLeaves
  <2> QED BY <2>1, SameList
<1>3. Contents = before /\ Contents' = [before EXCEPT ![v] = ListOf(v)']
  BY <1>1, <1>2, Finished
<1>4. Past'
  BY <1>1 DEF Past, Unchanged, Progressed
<1>5. job # NoJob
  BY <1>1 DEF NoJob
<1>6. Promise!Apply(job) => Promise!Next
  BY <1>1, <1>5 DEF Promise!Next, Promise!NoCall, NoJob
<1> QED BY <1>3, <1>4, <1>6

LEMMA GrowRefines ==
  ASSUME IInv, IInv', Past, Step, Grow
  PROVE  Past' /\ UNCHANGED <<Contents, job>>
<1>0. PICK v : v = job.v
  OBVIOUS
<1> DEFINE b == vec[v].data
           s == before[v].elements
<1>1. pc = "grow" /\ pc' # "idle" /\ job' = job /\ heap' \in Heaps
  BY DEF Grow, IInv, Typed
<1>2. Unchanged' /\ before' = before /\ UNCHANGED <<Contents, job>>
  BY <1>1, Continues
<1>3. /\ me = vec[v] /\ vec[v].size \in Nat /\ vec[v].cap \in Nat /\ vec[v].size <= vec[v].cap
      /\ v \in Names /\ Live(v) /\ vec[v] \in Members /\ i \in Nat
  BY <1>0, <1>1, MyFacts
<1>4. /\ s \in Seq(Elems) /\ Len(s) = vec[v].size
      /\ \A k \in 1..vec[v].size :
           s[k] = IF k < i THEN heap[new].cells[k].val ELSE heap[b].cells[k].val
  BY <1>0, <1>1, <1>3 DEF Past, Progressed
<1>5. i \in 1..(vec[v].size + 1) /\ vec[v].size < Len(heap[new].cells)
  BY <1>0, <1>1, <1>3 DEF IInv, Working
<1>6. CASE i <= me.size
  <2>1. ElementMovedOver(v)
    BY <1>0, <1>6, MovedOverFacts
  <2>2. me' = vec[v] /\ pc' = "grow" /\ i' = i + 1 /\ new' = new
    BY <1>0, <1>1, <2>1 DEF ElementMovedOver, me
  <2>3. \A k \in 1..vec[v].size :
          s[k] = IF k < i + 1 THEN heap'[new].cells[k].val ELSE heap'[b].cells[k].val
    <3> SUFFICES ASSUME NEW k \in 1..vec[v].size
                 PROVE  s[k] = IF k < i + 1 THEN heap'[new].cells[k].val
                               ELSE heap'[b].cells[k].val
      OBVIOUS
    <3>1. k \in 1..vec[v].cap /\ k \in 1..Len(heap[new].cells)
      BY <1>3, <1>5, <2>1 DEF ElementMovedOver
    <3>2. CASE k = i
      BY <1>3, <1>4, <2>1, <3>1, <3>2 DEF ElementMovedOver
    <3>3. CASE k # i
      <4>1. (k < i + 1) <=> (k < i)
        BY <1>3, <3>3
      <4>2. heap'[new].cells[k] = heap[new].cells[k] /\ heap'[b].cells[k] = heap[b].cells[k]
        BY <2>1, <3>1, <3>3 DEF ElementMovedOver
      <4> QED BY <1>4, <4>1, <4>2
    <3> QED BY <3>2, <3>3
  <2>4. Progressed'
    <3>1. /\ before'[job'.v].elements = s /\ s \in Seq(Elems) /\ Len(s) = me'.size
          /\ me'.size = vec[v].size /\ heap'[me'.data].cells = heap'[b].cells
      BY <1>0, <1>1, <1>2, <1>4, <2>2
    <3> HIDE DEF s, b
    <3> QED BY <2>2, <2>3, <3>1 DEF Progressed
  <2> QED BY <1>2, <2>4 DEF Past
<1>7. CASE i > me.size
  <2>1. /\ vec' = [vec EXCEPT ![v].data = new, ![v].cap = Len(heap[new].cells)]
        /\ heap' = [heap EXCEPT ![b] = Freed] /\ pc' = "put" /\ new \in Blocks
    BY <1>0, <1>1, <1>3, <1>7, Distinct DEF Grow, IInv, Typed
  <2>2. me'.data = new /\ me'.size = vec[v].size
    BY <1>0, <1>1, <1>3, <2>1 DEF me, IInv, Typed, Members
  <2>3. heap'[new] = heap[new]
    <3>1. new # b /\ heap \in Heaps
      BY <1>3, <2>1, Distinct DEF IInv, Owned, Typed
    <3> QED BY <2>1, <3>1 DEF Heaps
  <2>4. \A k \in 1..vec[v].size : k < i
    BY <1>3, <1>5, <1>7
  <2>5. Progressed'
    <3>1. before'[job'.v].elements = s /\ s \in Seq(Elems) /\ Len(s) = me'.size
      BY <1>0, <1>1, <1>2, <1>4, <2>2
    <3>2. \A k \in 1..me'.size : s[k] = heap'[me'.data].cells[k].val
      BY <1>4, <2>2, <2>3, <2>4
    <3> HIDE DEF s
    <3> QED BY <2>1, <3>1, <3>2 DEF Progressed
  <2> QED BY <1>2, <2>5 DEF Past
<1> QED BY <1>3, <1>5, <1>6, <1>7

LEMMA PutRefines ==
  ASSUME IInv, IInv', Past, Step, Put
  PROVE  Past' /\ Promise!Next
<1>0. PICK v : v = job.v
  OBVIOUS
<1> DEFINE b == vec[v].data
           s == before[v].elements
           x == job.x
           n == vec[v].size
<1>1. pc = "put" /\ Return /\ heap' \in Heaps
  BY DEF Put, IInv, Typed
<1>2. /\ me = vec[v] /\ n \in Nat /\ vec[v].cap \in Nat /\ Len(heap[b].cells) = vec[v].cap
      /\ vec[v].cap > 0 => b \in Blocks /\ heap[b] # Freed
      /\ v \in Names /\ Live(v) /\ vec[v] \in Members /\ heap \in Heaps
  BY <1>0, <1>1, MyFacts
<1>3. s \in Seq(Elems) /\ Len(s) = n /\ \A k \in 1..n : s[k] = heap[b].cells[k].val
  BY <1>0, <1>1, <1>2 DEF Past, Progressed
<1>4. n < vec[v].cap /\ job.op = "push" /\ x \in Values /\ Obj(x) \in Objects
  BY <1>0, <1>1, <1>2 DEF IInv, Working, Called, Objects
<1>5. Written(heap, heap', b, n + 1, Obj(x)) /\ vec' = [vec EXCEPT ![v].size = @ + 1]
  BY <1>0, <1>2 DEF Put, Written
<1>6. OneCell(heap, heap', b, n + 1, Obj(x))
  <2>1. /\ n + 1 \in 1..Len(heap[b].cells) /\ b \in Blocks /\ heap[b] # Freed
        /\ Obj(x) \in Cells
    BY <1>2, <1>4, Distinct
  <2> HIDE DEF n, x, b
  <2> QED BY <1>2, <1>5, <2>1, WriteCell
<1>7. /\ heap'[b].cells[n + 1].val = x
      /\ \A k \in 1..n : heap'[b].cells[k].val = s[k]
  <2>1. Obj(x).val = x /\ heap'[b].cells[n + 1] = Obj(x)
    BY <1>6 DEF Obj, OneCell
  <2>2. \A k \in 1..n : k \in 1..Len(heap[b].cells) /\ k # n + 1
    BY <1>2, <1>4
  <2>3. \A k \in 1..n : heap'[b].cells[k] = heap[b].cells[k]
    BY <1>6, <2>2 DEF OneCell
  <2> QED BY <1>3, <2>1, <2>3
<1>8. Live(v)' /\ vec'[v].data = b /\ vec'[v].size = n + 1
  <2>1. vec'[v] = [vec[v] EXCEPT !.size = n + 1]
    BY <1>2, <1>5 DEF IInv, Typed
  <2> QED BY <1>2, <2>1, Distinct DEF Members, Live
<1>9. ListOf(v)' = [live |-> TRUE, elements |-> Append(s, x)]
  <2>1. /\ Append(s, x) \in Seq(Elems) /\ Len(Append(s, x)) = n + 1
        /\ \A k \in 1..(n + 1) : Append(s, x)[k] = IF k <= n THEN s[k] ELSE x
    BY <1>2, <1>3, <1>4, AppendProperties, SMTT(30) DEF Elems
  <2>2. Append(s, x) = [k \in 1..(n + 1) |-> heap'[b].cells[k].val]
    <3>1. \A k \in 1..(n + 1) : Append(s, x)[k] = heap'[b].cells[k].val
      <4>1. \A k \in 1..(n + 1) : k \in 1..n \/ k = n + 1
        BY <1>2
      <4>2. ~(n + 1 <= n)
        BY <1>2
      <4> HIDE DEF n, x, s, b
      <4> QED BY <1>7, <2>1, <4>1, <4>2
    <3>2. Append(s, x) = [k \in 1..(n + 1) |-> Append(s, x)[k]]
      BY <2>1
    <3> HIDE DEF x, s, b, n
    <3> QED BY <3>1, <3>2
  <2>3. ValsOf(v)' = [k \in 1..(n + 1) |-> heap'[b].cells[k].val]
    BY <1>8 DEF ValsOf, Cell
  <2> QED BY <1>8, <2>2, <2>3 DEF ListOf
<1>10. ~(Release /\ job.op = "move")
  BY <1>4
<1>11. /\ Past' /\ Contents = before /\ Contents' = [before EXCEPT ![v] = ListOf(v)']
       /\ Promise!Apply(job) => Promise!Next
  BY <1>0, <1>1, <1>10, Returns
<1>12. Promise!Apply(job)
  BY <1>0, <1>4, <1>9, <1>11 DEF Promise!Apply, Promise!Becomes, Promise!Alive
<1> QED BY <1>11, <1>12

LEMMA DestroyAllRefines ==
  ASSUME IInv, IInv', Past, Step, DestroyAll
  PROVE  Past' /\ (Promise!Next \/ UNCHANGED <<Contents, job>>)
<1>0. PICK v : v = job.v
  OBVIOUS
<1>1. pc = "clear" /\ heap' \in Heaps
  BY DEF DestroyAll, IInv, Typed
<1>2. me = vec[v] /\ v \in Names /\ Live(v) /\ vec[v] \in Members
  BY <1>0, <1>1, MyFacts
<1>3. CASE pc' # "idle"
  <2>1. job' = job /\ pc' \in {"clear", "release"}
    BY <1>1, <1>3 DEF DestroyAll, Return
  <2>2. Unchanged' /\ UNCHANGED <<Contents, job>>
    BY <1>1, <1>3, <2>1, Continues
  <2>3. Progressed'
    BY <2>1 DEF Progressed
  <2> QED BY <2>2, <2>3 DEF Past
<1>4. CASE pc' = "idle"
  <2>1. Return /\ job.op = "clear" /\ vec' = [vec EXCEPT ![v].size = 0]
    BY <1>0, <1>1, <1>4 DEF DestroyAll
  <2>2. Live(v)' /\ vec'[v].size = 0
    <3>1. vec'[v] = [vec[v] EXCEPT !.size = 0]
      BY <1>2, <2>1 DEF IInv, Typed
    <3> QED BY <1>2, <3>1, Distinct DEF Members, Live
  <2>3. ListOf(v)' = [live |-> TRUE, elements |-> <<>>]
    <3>1. ValsOf(v)' = <<>>
      BY <2>2 DEF ValsOf
    <3> QED BY <2>2, <3>1 DEF ListOf
  <2>4. /\ Past' /\ Contents = before /\ Contents' = [before EXCEPT ![v] = ListOf(v)']
        /\ Promise!Apply(job) => Promise!Next
    BY <1>0, <1>1, <2>1, Returns
  <2>5. Promise!Apply(job)
    BY <1>0, <2>1, <2>3, <2>4 DEF Promise!Apply, Promise!Becomes, Promise!Alive
  <2> QED BY <2>4, <2>5
<1> QED BY <1>3, <1>4

LEMMA ReallocateRefines ==
  ASSUME IInv, IInv', Past, Step, Reallocate
  PROVE  Past' /\ UNCHANGED <<Contents, job>>
<1>1. /\ pc = "allocate" /\ heap' \in Heaps /\ pc' = "build" /\ job' = job /\ i' = 1
      /\ job.op = "copy"
  BY DEF Reallocate, IInv, Typed, Called
<1>2. Unchanged' /\ UNCHANGED <<Contents, job>>
  BY <1>1, Continues
<1>3. Progressed'
  BY <1>1 DEF Progressed
<1> QED BY <1>2, <1>3 DEF Past

LEMMA ReleaseRefines ==
  ASSUME IInv, IInv', Past, Step, Release
  PROVE  Past' /\ (Promise!Next \/ UNCHANGED <<Contents, job>>)
<1>0. PICK v : v = job.v
  OBVIOUS
<1>1. pc = "release" /\ heap' \in Heaps
  BY DEF Release, IInv, Typed
<1>2. me = vec[v] /\ v \in Names /\ Live(v) /\ vec[v] \in Members
  BY <1>0, <1>1, MyFacts
<1>3. CASE job.op = "destroy"
  <2>1. Return /\ vec' = [vec EXCEPT ![v] = Dead]
    BY <1>0, <1>3 DEF Release
  <2>2. ~Live(v)'
    BY <1>2, <2>1 DEF IInv, Typed, Live
  <2>3. ListOf(v)' = [live |-> FALSE, elements |-> <<>>]
    BY <2>2 DEF ListOf
  <2>4. /\ Past' /\ Contents = before /\ Contents' = [before EXCEPT ![v] = ListOf(v)']
        /\ Promise!Apply(job) => Promise!Next
    BY <1>0, <1>1, <1>3, <2>1, Returns
  <2>5. Promise!Apply(job)
    BY <1>0, <1>3, <2>3, <2>4 DEF Promise!Apply, Promise!Dead
  <2> QED BY <2>4, <2>5
<1>4. CASE job.op = "copy"
  <2>1. job' = job /\ pc' = "allocate"
    BY <1>4 DEF Release
  <2>2. Unchanged' /\ UNCHANGED <<Contents, job>>
    BY <1>1, <2>1, Continues
  <2>3. Progressed'
    BY <2>1 DEF Progressed
  <2> QED BY <2>2, <2>3 DEF Past
<1>5. CASE job.op = "move"
  <2>0. PICK w : w = job.w
    OBVIOUS
  <2>1. Return /\ vec' = [vec EXCEPT ![v] = vec[w], ![w] = Empty]
    BY <1>0, <1>5, <2>0 DEF Release, Steal
  <2>2. w \in Names /\ w # v /\ Live(w)
    BY <1>0, <1>1, <1>5, <2>0 DEF IInv, Called
  <2>3. vec'[v] = vec[w] /\ vec'[w] = Empty /\ \A n \in Names \ {v, w} : vec'[n] = vec[n]
    BY <1>2, <2>1, <2>2 DEF IInv, Typed
  <2>4. \A n \in Names \ {v} : Live(n) => heap'[vec[n].data] = heap[vec[n].data]
    BY <1>0, <1>1, StepLeaves
  <2>5. \A n \in Names \ {v, w} : ListOf(n)' = ListOf(n)
    BY <2>3, <2>4, SameList
  <2>6. ListOf(w)' = [live |-> TRUE, elements |-> <<>>]
    <3>1. Live(w)' /\ vec'[w].size = 0
      BY <2>3, Distinct DEF Live, Empty
    <3>2. ValsOf(w)' = <<>>
      BY <3>1 DEF ValsOf
    <3> QED BY <3>1, <3>2 DEF ListOf
  <2>7. ListOf(v)' = ListOf(w)
    <3>1. Live(v)' /\ vec'[v] = vec[w] /\ heap'[vec[w].data] = heap[vec[w].data]
      BY <2>2, <2>3, <2>4 DEF Live
    <3>2. ValsOf(v)' = ValsOf(w)
      BY <3>1 DEF ValsOf, Cell
    <3> QED BY <2>2, <3>1, <3>2 DEF ListOf
  <2>8. before = [n \in Names |-> before[n]] /\ \A n \in Names \ {v} : before[n] = ListOf(n)
    BY <1>0, <1>1 DEF Past, Unchanged
  <2>9. Contents' = [before EXCEPT ![v] = before[w], ![w] = [live |-> TRUE, elements |-> <<>>]]
    <3>1. Contents' = [n \in Names |-> ListOf(n)']
      BY <2>1 DEF Return, Contents, AsLists, ListOf, ValsOf
    <3> QED BY <1>2, <2>2, <2>5, <2>6, <2>7, <2>8, <3>1
  <2>10. Promise!Apply(job)
    <3>1. Contents = before
      BY <1>1 DEF Contents
    <3> QED BY <1>0, <1>5, <2>0, <2>9, <3>1 DEF Promise!Apply, Promise!Alive
  <2>11. Promise!Next
    <3>1. job # NoJob /\ job' = NoJob
      BY <1>5, <2>1 DEF NoJob, Return
    <3> QED BY <2>10, <3>1 DEF Promise!Next, Promise!NoCall, NoJob
  <2>12. Past'
    BY <2>1 DEF Past, Unchanged, Progressed, Return
  <2> QED BY <2>11, <2>12
<1> QED BY <1>1, <1>3, <1>4, <1>5 DEF IInv, Called

LEMMA ShiftRefines ==
  ASSUME IInv, IInv', Past, Step, Shift
  PROVE  Past' /\ (Promise!Next \/ UNCHANGED <<Contents, job>>)
<1>0. PICK v : v = job.v
  OBVIOUS
<1> DEFINE b == vec[v].data
           s == before[v].elements
           n == vec[v].size
           from == IF job.op = "pop" THEN Len(s) ELSE job.k
<1>1. pc = "shift" /\ heap' \in Heaps
  BY DEF Shift, IInv, Typed
<1>2. /\ me = vec[v] /\ n \in Nat /\ vec[v].cap \in Nat /\ n <= vec[v].cap
      /\ Len(heap[b].cells) = vec[v].cap
      /\ vec[v].cap > 0 => b \in Blocks /\ heap[b] # Freed
      /\ v \in Names /\ Live(v) /\ vec[v] \in Members /\ heap \in Heaps /\ i \in Nat
  BY <1>0, <1>1, MyFacts
<1>3. /\ s \in Seq(Elems) /\ Len(s) = n /\ from \in 1..i
      /\ \A k \in 1..n : k # i =>
           heap[b].cells[k].val = IF from <= k /\ k < i THEN s[k + 1] ELSE s[k]
  BY <1>0, <1>1, <1>2 DEF Past, Progressed
<1>4. i \in 1..n /\ job.op \in {"remove", "pop"}
  BY <1>1, <1>2 DEF IInv, Working, Called
<1>5. CASE i < LoopEnd
  <2>1. ElementMovedDown(v)
    BY <1>0, <1>5, MovedDownFacts
  <2>2. /\ me' = vec[v] /\ pc' = "shift" /\ i' = i + 1 /\ job' = job
        /\ i + 1 \in 1..n
    <3>1. /\ vec' = vec /\ pc' = pc /\ i' = i + 1 /\ job' = job /\ i + 1 <= n
      BY <2>1 DEF ElementMovedDown
    <3>2. me' = vec[v]
      BY <1>0, <3>1 DEF me
    <3>3. i + 1 \in 1..n
      BY <1>2, <1>4, <3>1
    <3> QED BY <1>1, <3>1, <3>2, <3>3
  <2>3. Unchanged' /\ before' = before /\ UNCHANGED <<Contents, job>>
    BY <1>1, <2>2, Continues
  <2>4. ASSUME NEW k \in 1..n, k # i + 1
        PROVE  heap'[b].cells[k].val = IF from <= k /\ k < i + 1 THEN s[k + 1] ELSE s[k]
    <3>1. k \in 1..vec[v].cap
      BY <1>2
    <3>2. CASE k = i
      <4>1. heap'[b].cells[k] = heap[b].cells[i + 1]
        BY <2>1, <3>2 DEF ElementMovedDown
      <4>2. heap[b].cells[i + 1].val = s[i + 1]
        <5>1. i + 1 # i /\ ~(i + 1 < i)
          BY <1>2
        <5> HIDE DEF from, s, b, n
        <5> QED BY <1>3, <2>2, <5>1
      <4>3. from <= k /\ k < i + 1
        BY <1>2, <1>3, <3>2
      <4> QED BY <3>2, <4>1, <4>2, <4>3
    <3>3. CASE k # i
      <4>1. heap'[b].cells[k] = heap[b].cells[k]
        BY <2>1, <2>4, <3>1, <3>3 DEF ElementMovedDown
      <4>2. (k < i + 1) <=> (k < i)
        BY <1>2, <3>3
      <4> HIDE DEF from, s, b, n
      <4> QED BY <1>3, <3>3, <4>1, <4>2
    <3> QED BY <3>2, <3>3
  <2>5. from \in 1..(i + 1)
    BY <1>2, <1>3
  <2>6. Progressed'
    <3>1. /\ before'[job'.v].elements = s /\ heap'[me'.data].cells = heap'[b].cells
          /\ me'.size = n
          /\ (IF job'.op = "pop" THEN Len(s) ELSE job'.k) = from
      BY <1>0, <2>2, <2>3
    <3>2. \A k \in 1..n : k # i + 1 =>
            heap'[b].cells[k].val = IF from <= k /\ k < i + 1 THEN s[k + 1] ELSE s[k]
      BY <2>4
    <3>3. s \in Seq(Elems) /\ Len(s) = n
      BY <1>3
    <3> HIDE DEF s, b, n, from
    <3> QED BY <2>2, <2>5, <3>1, <3>2, <3>3 DEF Progressed
  <2> QED BY <2>3, <2>6 DEF Past
<1>6. CASE i >= LoopEnd
  <2>1. /\ Written(heap, heap', b, n, Raw) /\ vec' = [vec EXCEPT ![v].size = @ - 1] /\ Return
        /\ i = n
    BY <1>0, <1>2, <1>4, <1>6 DEF Shift, LoopEnd, LastDestroyed, Written
  <2>2. OneCell(heap, heap', b, n, Raw)
    <3>1. n \in 1..Len(heap[b].cells) /\ b \in Blocks /\ heap[b] # Freed
      BY <1>2, <1>4
    <3> HIDE DEF n, b
    <3> QED BY <1>2, <2>1, <3>1, WriteCell, Distinct
  <2>3. Live(v)' /\ vec'[v].data = b /\ vec'[v].size = n - 1
    <3>1. vec'[v] = [vec[v] EXCEPT !.size = n - 1]
      BY <1>2, <2>1 DEF IInv, Typed
    <3>2. n - 1 \in Nat
      BY <1>2, <1>4
    <3> QED BY <1>2, <3>1, <3>2, Distinct DEF Members, Live
  <2>4. ASSUME NEW k \in 1..(n - 1)
        PROVE  heap'[b].cells[k].val = IF k < from THEN s[k] ELSE s[k + 1]
    <3>1. k \in 1..n /\ k # n /\ k \in 1..Len(heap[b].cells) /\ k < i
      BY <1>2, <2>1
    <3>2. heap'[b].cells[k] = heap[b].cells[k]
      BY <2>2, <3>1 DEF OneCell
    <3>3. (k < from) <=> ~(from <= k)
      BY <1>2, <1>3
    <3> HIDE DEF n, b, s, from
    <3> QED BY <1>3, <2>1, <3>1, <3>2, <3>3
  <2> DEFINE t == IF job.op = "pop" THEN Front(s) ELSE RemoveAt(s, from)
  <2>5. /\ t \in Seq(Elems) /\ Len(t) = n - 1
        /\ \A k \in 1..(n - 1) : t[k] = IF k < from THEN s[k] ELSE s[k + 1]
    <3>1. from \in 1..Len(s) /\ n \in Nat \ {0}
      BY <1>2, <1>3, <1>4, <2>1
    <3>2. CASE job.op = "pop"
      <4>1. from = n /\ \A k \in 1..(n - 1) : k < from
        BY <1>2, <1>3, <3>2
      <4>2. \A k \in 1..(n - 1) : s[k] \in Elems
        BY <1>2, <1>3
      <4>3. /\ Front(s) \in Seq(Elems) /\ Len(Front(s)) = n - 1
            /\ \A k \in 1..(n - 1) : Front(s)[k] = s[k]
        <5> HIDE DEF s, n
        <5> QED BY <1>3, <3>1, <4>2, SubSeqProperties DEF Front
      <4> HIDE DEF s, n, from
      <4> QED BY <3>2, <4>1, <4>3
    <3>3. CASE job.op # "pop"
      <4> HIDE DEF s, n, from
      <4> QED BY <1>3, <3>1, <3>3, RemoveAtFacts
    <3> QED BY <3>2, <3>3
  <2>6. ListOf(v)' = [live |-> TRUE, elements |-> t]
    <3>1. ValsOf(v)' = [k \in 1..(n - 1) |-> heap'[b].cells[k].val]
      BY <2>3 DEF ValsOf, Cell
    <3> HIDE DEF t, n, from, s, b
    <3>2. t = [k \in 1..(n - 1) |-> t[k]]
      BY <2>5
    <3>3. \A k \in 1..(n - 1) : t[k] = heap'[b].cells[k].val
      BY <2>4, <2>5
    <3>4. ValsOf(v)' = t
      BY <3>1, <3>2, <3>3
    <3> QED BY <2>3, <3>4 DEF ListOf
  <2>7. /\ Past' /\ Contents = before /\ Contents' = [before EXCEPT ![v] = ListOf(v)']
        /\ Promise!Apply(job) => Promise!Next
    <3>1. ~(Release /\ job.op = "move")
      BY <1>4
    <3> QED BY <1>0, <1>1, <2>1, <3>1, Returns
  <2>8. Contents[job.v].elements = s /\ s # <<>> /\ from \in DOMAIN s
    <3>1. Contents[job.v].elements = s
      BY <1>0, <2>7
    <3>2. n # 0 /\ i <= n
      BY <1>2, <1>4
    <3> HIDE DEF s, n, from
    <3>3. DOMAIN s = 1..n
      BY <1>3, LenProperties
    <3>4. from \in 1..n
      BY <1>2, <1>3, <3>2
    <3>5. s # <<>>
      BY <1>3, <3>2, EmptySeq
    <3> QED BY <3>1, <3>3, <3>4, <3>5
  <2>9. Contents' = [Contents EXCEPT ![job.v] = [live |-> TRUE, elements |-> t]]
    BY <1>0, <2>6, <2>7
  <2>10. Promise!Apply(job)
    <3>1. CASE job.op = "pop"
      <4>1. t = Promise!Front(Contents[job.v].elements)
        BY <2>8, <3>1 DEF Front, Promise!Front
      <4>2. Contents' = [Contents EXCEPT ![job.v] =
                           [live |-> TRUE, elements |-> Promise!Front(Contents[job.v].elements)]]
        BY <2>9, <4>1
      <4> QED BY <2>8, <3>1, <4>2 DEF Promise!Apply, Promise!Becomes, Promise!Alive
    <3>2. CASE job.op = "remove"
      <4>1. from = job.k /\ t = Promise!RemoveAt(Contents[job.v].elements, job.k)
        BY <2>8, <3>2 DEF RemoveAt, Promise!RemoveAt
      <4>2. Contents' = [Contents EXCEPT ![job.v] =
                           [live |-> TRUE,
                            elements |-> Promise!RemoveAt(Contents[job.v].elements, job.k)]]
        BY <2>9, <4>1
      <4> QED BY <2>8, <3>2, <4>1, <4>2 DEF Promise!Apply, Promise!Becomes, Promise!Alive
    <3> QED BY <1>4, <3>1, <3>2
  <2> QED BY <2>7, <2>10
<1> QED BY <1>2, <1>4, <1>5, <1>6 DEF LoopEnd

LEMMA BuildRefines ==
  ASSUME IInv, IInv', Past, Step, Build
  PROVE  Past' /\ (Promise!Next \/ UNCHANGED <<Contents, job>>)
<1>0. PICK v : v = job.v
  OBVIOUS
<1>00. PICK w : w = job.w
  OBVIOUS
<1> DEFINE b == vec[v].data
           n == vec[v].size
<1>1. pc = "build" /\ heap' \in Heaps /\ vec' = vec
  BY DEF Build, IInv, Typed
<1>2. /\ me = vec[v] /\ n \in Nat /\ vec[v].cap \in Nat /\ n <= vec[v].cap
      /\ v \in Names /\ Live(v) /\ i \in Nat /\ i \in 1..(n + 1)
  BY <1>0, <1>1, MyFacts DEF IInv, Working
<1>3. /\ job.op = "sized" => n = job.size /\ \A k \in 1..(i - 1) : heap[b].cells[k].val = Default
      /\ job.op = "copy" =>
           /\ w \in Names /\ w # v /\ Live(w) /\ n = vec[w].size
           /\ \A k \in 1..(i - 1) : heap[b].cells[k].val = Cell(vec[w].data, k).val
      /\ job.op \in {"sized", "copy"}
  BY <1>0, <1>00, <1>1, <1>2 DEF Past, Progressed, IInv, Called, Working
<1>4. job.op = "copy" => heap'[vec[w].data] = heap[vec[w].data]
  BY <1>0, <1>1, <1>3, StepLeaves
<1>5. CASE i <= me.size
  <2> DEFINE x == IF job.op = "copy" THEN Cell(vec[w].data, i) ELSE Obj(Default)
  <2>1. /\ Written(heap, heap', b, i, x) /\ i' = i + 1 /\ job' = job /\ pc' = pc
    BY <1>00, <1>1, <1>2, <1>0, <1>5 DEF Build, Written
  <2>2. Unchanged' /\ before' = before /\ UNCHANGED <<Contents, job>>
    BY <1>1, <2>1, Continues
  <2>3. \A k \in 1..i : heap'[b].cells[k] = IF k = i THEN x ELSE heap[b].cells[k]
    <3>1. heap \in Heaps /\ b \in Blocks /\ heap[b] # Freed /\ Len(heap[b].cells) = vec[v].cap
      BY <1>0, <1>1, <1>2, <1>5, MyFacts
    <3>2. heap[b] \in [used : {TRUE}, cells : Seq(Cells)]
      BY <3>1 DEF Heaps
    <3>3. \A k \in 1..i : k \in 1..vec[v].cap
      BY <1>2, <1>5
    <3>4. b \in DOMAIN heap
      BY <3>1 DEF Heaps
    <3>5. heap[b].cells \in Seq(Cells)
      BY <3>2
    <3>6. \A k \in 1..i : k \in DOMAIN heap[b].cells
      BY <3>1, <3>3, <3>5, LenProperties
    <3> HIDE DEF x, b
    <3>7. heap'[b] = [heap[b] EXCEPT !.cells[i] = x]
      BY <2>1, <3>4 DEF Written
    <3>8. heap'[b].cells = [heap[b].cells EXCEPT ![i] = x]
      BY <3>2, <3>7
    <3> QED BY <3>6, <3>8
  <2>4. \A k \in 1..i : k \in 1..(i - 1) \/ k = i
    BY <1>2
  <2>5. me' = vec[v] /\ i' - 1 = i
    BY <1>0, <1>1, <1>2, <2>1 DEF me
  <2>6. job.op = "sized" => n = job.size /\ \A k \in 1..i : heap'[b].cells[k].val = Default
    <3>1. Obj(Default).val = Default
      BY DEF Obj
    <3> QED BY <1>3, <2>3, <2>4, <3>1
  <2>7. job.op = "copy" => \A k \in 1..i : heap'[b].cells[k].val = Cell(vec[w].data, k).val
    <3> HIDE DEF n, b
    <3> QED BY <1>3, <2>3, <2>4
  <2>8. job.op = "copy" => \A k : Cell(vec[job.w].data, k)' = Cell(vec[w].data, k)
    BY <1>00, <1>1, <1>4, <2>1 DEF Cell
  <2>9. Progressed'
    BY <1>1, <2>1, <2>5, <2>6, <2>7, <2>8 DEF Progressed
  <2> QED BY <2>2, <2>9 DEF Past
<1>6. CASE i > me.size
  <2>1. Return /\ heap' = heap /\ i - 1 = n
    BY <1>1, <1>2, <1>6 DEF Build
  <2>2. ~(Release /\ job.op = "move")
    BY <1>3
  <2>3. /\ Past' /\ Contents = before /\ Contents' = [before EXCEPT ![v] = ListOf(v)']
        /\ Promise!Apply(job) => Promise!Next
    BY <1>0, <1>1, <2>1, <2>2, Returns
  <2>4. Live(v)' /\ ListOf(v)' = [live |-> TRUE, elements |-> [k \in 1..n |-> heap[b].cells[k].val]]
    <3>1. Live(v)'
      BY <1>1, <1>2 DEF Live
    <3>2. ValsOf(v)' = [k \in 1..n |-> heap[b].cells[k].val]
      BY <1>1, <2>1 DEF ValsOf, Cell
    <3> QED BY <3>1, <3>2 DEF ListOf
  <2>5. CASE job.op = "sized"
    <3>1. n = job.size /\ \A k \in 1..n : heap[b].cells[k].val = Default
      BY <1>3, <2>1, <2>5
    <3>2. [k \in 1..n |-> heap[b].cells[k].val] = [k \in 1..n |-> Default]
      BY <3>1
    <3>3. Contents' = [Contents EXCEPT ![v] = [live |-> TRUE, elements |-> [k \in 1..n |-> Default]]]
      BY <2>3, <2>4, <3>2
    <3>4. Promise!Apply(job)
      BY <1>0, <2>5, <3>1, <3>3 DEF Promise!Apply, Promise!Becomes, Promise!Alive
    <3> QED BY <2>3, <3>4
  <2>6. CASE job.op = "copy"
    <3>1. /\ w \in Names /\ w # v /\ Live(w) /\ n = vec[w].size
          /\ \A k \in 1..n : heap[b].cells[k].val = Cell(vec[w].data, k).val
      BY <1>3, <2>1, <2>6
    <3>2. [k \in 1..n |-> heap[b].cells[k].val] = ValsOf(w)
      BY <3>1 DEF ValsOf
    <3>3. ListOf(v)' = ListOf(w)
      BY <2>4, <3>1, <3>2 DEF ListOf
    <3>4. before[w] = ListOf(w)
      BY <1>0, <1>1, <3>1 DEF Past, Unchanged
    <3>5. Promise!Apply(job)
      BY <1>0, <1>00, <2>3, <2>6, <3>3, <3>4 DEF Promise!Apply
    <3> QED BY <2>3, <3>5
  <2> QED BY <1>3, <2>5, <2>6
<1> QED BY <1>2, <1>5, <1>6

LEMMA NextRefines ==
  ASSUME IInv, IInv', Past, [Next]_vars
  PROVE  Past' /\ [Promise!Next]_<<Contents, job>>
<1>1. CASE UNCHANGED vars
  <2>1. UNCHANGED <<Contents, job>>
    BY <1>1 DEF vars, Contents, AsLists, Live, Cell
  <2>2. Past'
    <3>1. /\ vec' = vec /\ heap' = heap /\ job' = job /\ pc' = pc /\ new' = new
          /\ i' = i /\ before' = before
      BY <1>1 DEF vars
    <3>2. \A n : ListOf(n)' = ListOf(n)
      BY <3>1 DEF ListOf, ValsOf, Live, Cell
    <3>3. Unchanged'
      BY <3>1, <3>2 DEF Past, Unchanged
    <3>4. Progressed'
      BY <3>1 DEF Past, Progressed, me, Cell
    <3> QED BY <3>3, <3>4 DEF Past
  <2> QED BY <2>1, <2>2
<1>2. ASSUME NEW n \in Names, Create(n) PROVE Past' /\ Promise!Next
  BY <1>2, CreateRefines
<1>3. ASSUME NEW n \in Names, NEW j \in {"clear", "destroy"}, Discard(n, [op |-> j, v |-> n])
      PROVE  Past' /\ Promise!Next
  <2> DEFINE c == [op |-> j, v |-> n]
  <2>1. c \in Promise!Calls /\ c.v = n
    BY DEF Promise!Calls
  <2>2. Promise!Legal(c)
    BY <1>3, IdleLists DEF Promise!Legal, Discard, Call
  <2> HIDE DEF c
  <2> QED BY <1>3, <2>1, <2>2, DiscardRefines DEF c
<1>4. ASSUME NEW n \in Names, NEW m \in Names, n # m, Live(m), NEW j \in {"copy", "move"},
             Discard(n, [op |-> j, v |-> n, w |-> m])
      PROVE  Past' /\ Promise!Next
  <2> DEFINE c == [op |-> j, v |-> n, w |-> m]
  <2>1. c \in Promise!Calls /\ c.v = n
    BY DEF Promise!Calls
  <2>2. Promise!Legal(c)
    BY <1>4, IdleLists DEF Promise!Legal, Discard, Call
  <2> HIDE DEF c
  <2> QED BY <1>4, <2>1, <2>2, DiscardRefines DEF c
<1>5. ASSUME NEW n \in Names, PopBack(n) PROVE Past' /\ Promise!Next
  <2> DEFINE j == [op |-> "pop", v |-> n]
             k == vec[n].size
  <2>1. /\ Live(n) /\ k > 0 /\ Call(j, "shift", k) /\ UNCHANGED <<vec, heap, new>>
        /\ j.v = n /\ j.op = "pop" /\ pc = "idle"
    BY <1>5 DEF PopBack, Call
  <2>2. k \in Nat \ {0} /\ k <= vec[n].size
    BY <2>1, LiveFacts DEF IInv
  <2>3. j \in Promise!Calls /\ Promise!Legal(j)
    BY <2>1, IdleLists DEF Promise!Calls, Promise!Legal
  <2> HIDE DEF j
  <2> QED BY <2>1, <2>2, <2>3, RemoveRefines
<1>6. ASSUME NEW n \in Names, NEW size \in Sizes, CreateSized(n, size) PROVE Past' /\ Promise!Next
  BY <1>6, CreateSizedRefines
<1>7. ASSUME NEW n \in Names, NEW x \in Values, PushBack(n, x) PROVE Past' /\ Promise!Next
  BY <1>7, PushBackRefines
<1>8. ASSUME NEW n \in Names, NEW k \in 1..MaxSize, RemoveRow(n, k) PROVE Past' /\ Promise!Next
  <2> DEFINE j == [op |-> "remove", v |-> n, k |-> k]
  <2>1. /\ Live(n) /\ k \in 1..vec[n].size /\ Call(j, "shift", k) /\ UNCHANGED <<vec, heap, new>>
        /\ j.v = n /\ j.op = "remove" /\ j.k = k /\ pc = "idle"
    BY <1>8 DEF RemoveRow, Call
  <2>2. k \in Nat \ {0} /\ k <= vec[n].size
    BY <2>1, LiveFacts, BoundsAssumption DEF IInv
  <2>3. j \in Promise!Calls /\ Promise!Legal(j)
    BY <2>1, IdleLists DEF Promise!Calls, Promise!Legal
  <2> HIDE DEF j
  <2> QED BY <2>1, <2>2, <2>3, RemoveRefines
<1>9. ASSUME NEW n \in Names, NEW m \in Names, CreateCopy(n, m) PROVE Past' /\ Promise!Next
  BY <1>9, CreateCopyRefines
<1>10. ASSUME NEW n \in Names, NEW m \in Names, CreateMoved(n, m) PROVE Past' /\ Promise!Next
  BY <1>10, CreateMovedRefines
<1>11. CASE Step
  BY <1>11, GrowRefines, PutRefines, ShiftRefines, DestroyAllRefines, ReleaseRefines,
     ReallocateRefines, BuildRefines DEF Step
<1>12. ASSUME NEW n \in Names, Clear(n) \/ Destroy(n) PROVE Past' /\ Promise!Next
  BY <1>3, <1>12 DEF Clear, Destroy
<1>13. ASSUME NEW n \in Names, NEW m \in Names, AssignCopy(n, m) \/ AssignMoved(n, m)
       PROVE  Past' /\ Promise!Next
  BY <1>4, <1>13 DEF AssignCopy, AssignMoved
<1> QED BY <1>1, <1>2, <1>5, <1>6, <1>7, <1>8, <1>9, <1>10, <1>11, <1>12, <1>13 DEF Next

\* Through growth, copies, moves and removals, one cell at a time, the vectors
\* are the lists the rest of the program takes them for.
THEOREM Refinement == Spec => ActsAsLists
<1>1. Init => Promise!Init /\ Past
  BY DEF Init, Promise!Init, Promise!Dead, Promise!NoCall, NoJob, Contents, AsLists, Live, Past,
     Unchanged, Progressed
<1>2. IInv /\ IInv' /\ Past /\ [Next]_vars => Past' /\ [Promise!Next]_<<Contents, job>>
  BY NextRefines
<1> QED BY <1>1, <1>2, Invariance, PTL DEF Spec, ActsAsLists, Promise!Spec
=============================================================================
