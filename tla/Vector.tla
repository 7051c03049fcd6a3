------------------------------- MODULE Vector -------------------------------
(***************************************************************************)
(* core/vector.hpp: vectors on the heap, one element constructed, moved or *)
(* destroyed per step, and Table::remove_row, which moves the elements     *)
(* behind the removed one down.  The element given to push_back is none of *)
(* the vector's own: growing would free it first, and no caller passes one. *)
(***************************************************************************)
EXTENDS Integers, SequencesExt

CONSTANTS
  Names,     \* the vector objects
  Values,    \* the elements
  Default,   \* what T() makes
  Sizes,     \* the lengths given to Vector(n)
  First,     \* the first capacity
  MaxSize,   \* bound: no push_back into a vector of this size
  MaxBlocks  \* bound: blocks in use at a time

ASSUME SizesAssumption  == Sizes \subseteq Nat
ASSUME BoundsAssumption == First \in Nat \ {0} /\ MaxSize \in Nat /\ MaxBlocks \in Nat

Raw    == [cell |-> "raw"]      \* no object
Hollow == [cell |-> "moved"]    \* an object that was moved from
Obj(x) == [cell |-> "object", val |-> x]

Null   == 0
Blocks == 1..MaxBlocks
Freed  == [used |-> FALSE, cells |-> <<>>]

Dead  == [dead |-> TRUE]
Empty == [data |-> Null, size |-> 0, cap |-> 0]

NoJob   == [op |-> "none"]
NoLists == <<>>

VARIABLES
  vec,    \* per vector object: its three members, or Dead
  heap,   \* per block: its cells, or Freed, which Null is always
  job,    \* the member function that runs, with its arguments
  pc,     \* "idle", "grow", "put", "clear", "release", "allocate", "build", "shift"
  new,    \* new_data of reserve
  i,      \* the loop variable, from 1
  before  \* history: the elements of each vector when the call began

vars == <<vec, heap, job, pc, new, i, before>>

Init ==
  /\ vec = [n \in Names |-> Dead]
  /\ heap = [b \in Blocks \cup {Null} |-> Freed]
  /\ job = NoJob /\ pc = "idle" /\ new = Null /\ i = 0 /\ before = NoLists

Live(n)    == vec[n] # Dead
Cell(b, k) == heap[b].cells[k]

\* The vectors as lists.
AsLists == [n \in Names |->
  IF Live(n) THEN [live |-> TRUE,
                   elements |-> [k \in 1..vec[n].size |-> Cell(vec[n].data, k).val]]
             ELSE [live |-> FALSE, elements |-> <<>>]]

\* operator new; a request for no bytes has an address too.
Allocate(n, b) ==
  /\ b # Null /\ heap[b] = Freed
  /\ heap' = [heap EXCEPT ![b] = [used |-> TRUE, cells |-> [k \in 1..n |-> Raw]]]

Call(j, first, k) == pc = "idle" /\ job' = j /\ pc' = first /\ i' = k /\ before' = AsLists
Return            == pc' = "idle" /\ job' = NoJob /\ i' = 0

-----------------------------------------------------------------------------
(***************************************************************************)
(* The calls                                                               *)
(***************************************************************************)

\* Size, capacity and a block of their own.
CopyMembers(n, m) ==
  \E b \in Blocks : /\ Allocate(vec[m].cap, b)
                    /\ vec' = [vec EXCEPT ![n] = [vec[m] EXCEPT !.data = b]]

\* Mistake: the other keeps its block.
StealShared(n, m) == vec' = [vec EXCEPT ![n] = vec[m]]

\* The members change hands.
Steal(n, m) == vec' = [vec EXCEPT ![n] = vec[m], ![m] = Empty]

Create(n) ==
  /\ pc = "idle" /\ ~Live(n)
  /\ vec' = [vec EXCEPT ![n] = Empty]
  /\ UNCHANGED <<heap, job, pc, new, i, before>>

\* Vector(n): elements made by T().
CreateSized(n, size) ==
  /\ ~Live(n) /\ Call([op |-> "sized", v |-> n, size |-> size], "build", 1)
  /\ \E b \in Blocks :
       /\ Allocate(size, b)
       /\ vec' = [vec EXCEPT ![n] = [data |-> b, size |-> size, cap |-> size]]
  /\ UNCHANGED new

CreateCopy(n, m) ==
  /\ ~Live(n) /\ Live(m) /\ Call([op |-> "copy", v |-> n, w |-> m], "build", 1)
  /\ CopyMembers(n, m)
  /\ UNCHANGED new

CreateMoved(n, m) ==
  /\ pc = "idle" /\ ~Live(n) /\ Live(m)
  /\ Steal(n, m)
  /\ UNCHANGED <<heap, job, pc, new, i, before>>

\* What begins with clear(); assignment to itself is no assignment.
Discard(n, j) == Live(n) /\ Call(j, "clear", 1) /\ UNCHANGED <<vec, heap, new>>

Clear(n)          == Discard(n, [op |-> "clear", v |-> n])
Destroy(n)        == Discard(n, [op |-> "destroy", v |-> n])
AssignCopy(n, m)  == n # m /\ Live(m) /\ Discard(n, [op |-> "copy", v |-> n, w |-> m])
AssignMoved(n, m) == n # m /\ Live(m) /\ Discard(n, [op |-> "move", v |-> n, w |-> m])

\* Mistake: the vector grows when it is past its capacity.
FullTooLate(n) == vec[n].size > vec[n].cap

Full(n) == vec[n].size >= vec[n].cap

PushBack(n, x) ==
  /\ Live(n) /\ vec[n].size < MaxSize
  /\ Call([op |-> "push", v |-> n, x |-> x], IF Full(n) THEN "grow" ELSE "put", 1)
  /\ \/ /\ Full(n)
        /\ \E b \in Blocks :
             Allocate(IF vec[n].cap = 0 THEN First ELSE vec[n].cap * 2, b) /\ new' = b
     \/ ~Full(n) /\ UNCHANGED <<heap, new>>
  /\ UNCHANGED vec

\* remove_row for a position in range, and pop_back, which is its end.
RemoveRow(n, k) ==
  /\ Live(n) /\ k \in 1..vec[n].size
  /\ Call([op |-> "remove", v |-> n, k |-> k], "shift", k)
  /\ UNCHANGED <<vec, heap, new>>

PopBack(n) ==
  /\ Live(n) /\ vec[n].size > 0
  /\ Call([op |-> "pop", v |-> n], "shift", vec[n].size)
  /\ UNCHANGED <<vec, heap, new>>

-----------------------------------------------------------------------------
(***************************************************************************)
(* The steps of the running call                                           *)
(***************************************************************************)
me == vec[job.v]

\* Mistake: the old element is left as it was moved from.
MovedOutOnly(k) ==
  [heap EXCEPT ![new].cells[k] = Cell(me.data, k), ![me.data].cells[k] = Hollow]

\* Constructed in the new block, destroyed in the old one.
MovedOver(k) == [heap EXCEPT ![new].cells[k] = Cell(me.data, k), ![me.data].cells[k] = Raw]

Grow ==
  /\ pc = "grow"
  /\ \/ /\ i <= me.size
        /\ heap' = MovedOver(i) /\ i' = i + 1
        /\ UNCHANGED <<vec, job, pc, new>>
     \/ /\ i > me.size
        /\ vec' = [vec EXCEPT ![job.v].data = new, ![job.v].cap = Len(heap[new].cells)]
        /\ heap' = [heap EXCEPT ![me.data] = Freed]
        /\ new' = Null /\ pc' = "put"
        /\ UNCHANGED <<job, i>>

Put ==
  /\ pc = "put"
  /\ heap' = [heap EXCEPT ![me.data].cells[me.size + 1] = Obj(job.x)]
  /\ vec' = [vec EXCEPT ![job.v].size = @ + 1]
  /\ Return /\ UNCHANGED new

MovedDown(k) ==
  [heap EXCEPT ![me.data].cells[k] = Cell(me.data, k + 1), ![me.data].cells[k + 1] = Hollow]

\* Mistake: the loop ends one element early.
LoopEndEarly == me.size - 1

LoopEnd == me.size

\* Mistake: the last element is not destroyed.
LastKept == heap

LastDestroyed == [heap EXCEPT ![me.data].cells[me.size] = Raw]

Shift ==
  /\ pc = "shift"
  /\ \/ /\ i < LoopEnd
        /\ heap' = MovedDown(i) /\ i' = i + 1
        /\ UNCHANGED <<vec, job, pc>>
     \/ /\ i >= LoopEnd
        /\ heap' = LastDestroyed
        /\ vec' = [vec EXCEPT ![job.v].size = @ - 1]
        /\ Return
  /\ UNCHANGED new

DestroyAll ==
  /\ pc = "clear"
  /\ \/ /\ i <= me.size
        /\ heap' = [heap EXCEPT ![me.data].cells[i] = Raw] /\ i' = i + 1
        /\ UNCHANGED <<vec, job, pc>>
     \/ /\ i > me.size
        /\ vec' = [vec EXCEPT ![job.v].size = 0]
        /\ IF job.op = "clear" THEN Return ELSE pc' = "release" /\ UNCHANGED <<job, i>>
        /\ UNCHANGED heap
  /\ UNCHANGED new

\* The old block is freed, and what is assigned comes in its place.
Release ==
  /\ pc = "release"
  /\ heap' = [heap EXCEPT ![me.data] = Freed]
  /\ \/ job.op = "destroy" /\ vec' = [vec EXCEPT ![job.v] = Dead] /\ Return
     \/ job.op = "move" /\ Steal(job.v, job.w) /\ Return
     \/ /\ job.op = "copy" /\ pc' = "allocate"
        /\ vec' = [vec EXCEPT ![job.v] = Empty]
        /\ UNCHANGED <<job, i>>
  /\ UNCHANGED new

Reallocate ==
  /\ pc = "allocate"
  /\ CopyMembers(job.v, job.w)
  /\ pc' = "build" /\ i' = 1
  /\ UNCHANGED <<job, new>>

\* Elements constructed from the other's, or by T().
Build ==
  /\ pc = "build"
  /\ \/ /\ i <= me.size
        /\ heap' = [heap EXCEPT ![me.data].cells[i] =
             IF job.op = "copy" THEN Cell(vec[job.w].data, i) ELSE Obj(Default)]
        /\ i' = i + 1 /\ UNCHANGED <<job, pc>>
     \/ i > me.size /\ Return /\ UNCHANGED heap
  /\ UNCHANGED <<vec, new>>

Step ==
  /\ Grow \/ Put \/ Shift \/ DestroyAll \/ Release \/ Reallocate \/ Build
  /\ before' = IF pc' = "idle" THEN NoLists ELSE before

Next ==
  \/ \E n \in Names :
       \/ Create(n) \/ Clear(n) \/ Destroy(n) \/ PopBack(n)
       \/ \E size \in Sizes : CreateSized(n, size)
       \/ \E x \in Values : PushBack(n, x)
       \/ \E k \in 1..MaxSize : RemoveRow(n, k)
       \/ \E m \in Names :
            CreateCopy(n, m) \/ CreateMoved(n, m) \/ AssignCopy(n, m) \/ AssignMoved(n, m)
  \/ Step

Spec == Init /\ [][Next]_vars

-----------------------------------------------------------------------------
(***************************************************************************)
(* Properties                                                              *)
(***************************************************************************)
Cells == {Raw, Hollow} \cup {Obj(x) : x \in Values \cup {Default}}

\* Every variable stays in its range; the block of a vector has its capacity,
\* and its elements fit: _data[_size] and the loops stay inside it.
TypeOK ==
  /\ \A b \in Blocks : heap[b] = Freed \/ (heap[b].used /\ heap[b].cells \in Seq(Cells))
  /\ pc \in {"idle", "grow", "put", "clear", "release", "allocate", "build", "shift"}
  /\ new \in Blocks \cup {Null}
  /\ \A n \in Names : Live(n) => /\ vec[n].size <= vec[n].cap
                                 /\ vec[n].cap = Len(heap[vec[n].data].cells)

\* Every block in use is some vector's, or the one reserve is filling, and no
\* block is two vectors': nothing leaks, nothing is freed twice.
OwnedOnce ==
  \A b \in Blocks :
    LET owners == {n \in Names : Live(n) /\ vec[n].data = b}
    IN  IF heap[b] = Freed THEN owners = {} /\ new # b
        ELSE Cardinality(owners) + (IF new = b THEN 1 ELSE 0) = 1

\* Between calls the objects in a vector's block are its elements, none of them
\* moved from, and nothing lies behind them.
ElementsOnly ==
  pc = "idle" =>
    \A n \in Names : Live(n) =>
      \A k \in 1..vec[n].cap :
        IF k <= vec[n].size THEN Cell(vec[n].data, k) \notin {Raw, Hollow}
        ELSE Cell(vec[n].data, k) = Raw

\* The three together: what every operation has to restore.
HeapOK == TypeOK /\ OwnedOnce /\ ElementsOnly

\* No block is freed while there is an object in it, no object is constructed
\* on top of another, and none is destroyed twice; only the assignments of
\* remove_row put one object in the place of another.
DestroyedOnce(b) ==
  LET old == heap[b].cells
      now == heap'[b].cells
  IN  heap'[b] # heap[b] =>
        CASE heap[b] = Freed  -> \A k \in DOMAIN now : now[k] = Raw
          [] heap'[b] = Freed -> \A k \in DOMAIN old : old[k] = Raw
          [] OTHER -> \A k \in DOMAIN old : now[k] # old[k] =>
                        (old[k] = Raw) # (now[k] = Raw) \/ pc = "shift"

EachDestroyedOnce == [][\A b \in Blocks : DestroyedOnce(b)]_vars

\* The lists the rest of the program sees: a call that runs has not taken effect.
Contents == IF pc = "idle" THEN AsLists ELSE before

Promise == INSTANCE Lists WITH list <- Contents, call <- job

\* Through growth, copies and moves the vectors are the lists the rest of the
\* program takes them for: every call does to them what it says and nothing
\* else, and remove_row removes the row it was asked to.
ActsAsLists == Promise!Spec
=============================================================================
