------------------------------- MODULE Index -------------------------------
(***************************************************************************)
(* storage/index.cpp: the primary-key index of a table, a Vector of        *)
(* entries kept sorted by key and searched by bisection.                   *)
(*                                                                         *)
(* Every operation starts with _find_pos, whose loop is modelled one       *)
(* iteration per step; the operation then acts on the position it returned.*)
(* Positions are the code's: 0-based, and a negative result is ~p for the  *)
(* insertion point p (~p = -p-1 in two's complement).  entries itself is a *)
(* TLA+ sequence, so _entries[p] is entries[p + 1].                        *)
(***************************************************************************)
EXTENDS Integers, SequencesExt

CONSTANTS
  Keys,     \* the int keys the callers use
  RowIds,   \* the row ids the callers store
  None      \* "no row"

ASSUME KeysAssumption == Keys \subseteq Int
ASSUME NoneAssumption == None \notin RowIds

VARIABLES
  entries,  \* core::Vector<Entry> _entries
  pc,       \* "idle", "search" (in _find_pos) or "apply" (after it)
  call,     \* the operation being executed and its arguments
  lo, hi,   \* locals of _find_pos
  pos,      \* what _find_pos returned
  ret       \* what the last operation handed back to its caller

vars == <<entries, pc, call, lo, hi, pos, ret>>

Entry == [key : Keys, row_id : RowIds]
Calls == [op : {"insert", "find", "remove"}, key : Keys, row_id : RowIds]
Void  == [ok |-> TRUE, row |-> None]

\* C++ operator~ on an int
BitNot(n) == -n - 1

Init ==
  /\ entries = <<>>
  /\ pc = "idle"
  /\ call \in Calls
  /\ lo = 0 /\ hi = -1 /\ pos = -1
  /\ ret = Void

(***************************************************************************)
(* _find_pos                                                               *)
(***************************************************************************)

\* Mistake: hi starts at the size, not at the last position.
BeginAtSize(c) ==
  /\ pc = "idle"
  /\ call' = c
  /\ lo' = 0
  /\ hi' = Len(entries)
  /\ IF entries = <<>>
     THEN pos' = -1 /\ pc' = "apply"
     ELSE pc' = "search" /\ UNCHANGED pos
  /\ UNCHANGED <<entries, ret>>

\* Entry of insert/find/remove: they call _find_pos, which returns at once
\* when the array is empty.
Begin(c) ==
  /\ pc = "idle"
  /\ call' = c
  /\ lo' = 0
  /\ hi' = Len(entries) - 1
  /\ IF entries = <<>>
     THEN pos' = -1 /\ pc' = "apply"
     ELSE pc' = "search" /\ UNCHANGED pos
  /\ UNCHANGED <<entries, ret>>

\* Mistake: hi keeps the probed position.
ProbeKeepsMid ==
  LET mid == lo + (hi - lo) \div 2
      k   == entries[mid + 1].key
  IN  /\ pc = "search" /\ lo <= hi
      /\ \/ k = call.key /\ pos' = mid /\ pc' = "apply" /\ UNCHANGED <<lo, hi>>
         \/ k < call.key /\ lo' = mid + 1 /\ UNCHANGED <<hi, pos, pc>>
         \/ k > call.key /\ hi' = mid /\ UNCHANGED <<lo, pos, pc>>
      /\ UNCHANGED <<entries, call, ret>>

\* One iteration of the while loop.
Probe ==
  LET mid == lo + (hi - lo) \div 2
      k   == entries[mid + 1].key
  IN  /\ pc = "search" /\ lo <= hi
      /\ \/ k = call.key /\ pos' = mid /\ pc' = "apply" /\ UNCHANGED <<lo, hi>>
         \/ k < call.key /\ lo' = mid + 1 /\ UNCHANGED <<hi, pos, pc>>
         \/ k > call.key /\ hi' = mid - 1 /\ UNCHANGED <<lo, pos, pc>>
      /\ UNCHANGED <<entries, call, ret>>

\* Mistake: -lo instead of ~lo, so an insertion point of 0 reads as a hit.
MissNegated ==
  /\ pc = "search" /\ lo > hi
  /\ pos' = -lo
  /\ pc' = "apply"
  /\ UNCHANGED <<entries, call, lo, hi, ret>>

\* The loop ends without a hit: return ~lo.
Miss ==
  /\ pc = "search" /\ lo > hi
  /\ pos' = BitNot(lo)
  /\ pc' = "apply"
  /\ UNCHANGED <<entries, call, lo, hi, ret>>

(***************************************************************************)
(* The operations, from the return of _find_pos on                         *)
(***************************************************************************)

\* Mistake: a new entry is always pushed at the end.
InsertAtEnd ==
  /\ pc = "apply" /\ call.op = "insert"
  /\ entries' = IF pos >= 0
                THEN [entries EXCEPT ![pos + 1].row_id = call.row_id]
                ELSE Append(entries, [key |-> call.key, row_id |-> call.row_id])
  /\ ret' = Void
  /\ pc' = "idle"
  /\ UNCHANGED <<call, lo, hi, pos>>

\* Mistake: the row id of an existing key is kept.
InsertKeepsOld ==
  /\ pc = "apply" /\ call.op = "insert"
  /\ entries' = IF pos >= 0
                THEN entries
                ELSE InsertAt(entries, BitNot(pos) + 1,
                              [key |-> call.key, row_id |-> call.row_id])
  /\ ret' = Void
  /\ pc' = "idle"
  /\ UNCHANGED <<call, lo, hi, pos>>

\* Overwrite the row id of an existing key, or open a gap at ~pos.
ApplyInsert ==
  /\ pc = "apply" /\ call.op = "insert"
  /\ entries' = IF pos >= 0
                THEN [entries EXCEPT ![pos + 1].row_id = call.row_id]
                ELSE InsertAt(entries, BitNot(pos) + 1,
                              [key |-> call.key, row_id |-> call.row_id])
  /\ ret' = Void
  /\ pc' = "idle"
  /\ UNCHANGED <<call, lo, hi, pos>>

ApplyFind ==
  /\ pc = "apply" /\ call.op = "find"
  /\ ret' = IF pos < 0 THEN [ok |-> FALSE, row |-> None]
                       ELSE [ok |-> TRUE, row |-> entries[pos + 1].row_id]
  /\ pc' = "idle"
  /\ UNCHANGED <<entries, call, lo, hi, pos>>

\* Shift the tail left over the entry and drop the last one.
ApplyRemove ==
  /\ pc = "apply" /\ call.op = "remove"
  /\ entries' = IF pos < 0 THEN entries ELSE RemoveAt(entries, pos + 1)
  /\ ret' = [ok |-> pos >= 0, row |-> None]
  /\ pc' = "idle"
  /\ UNCHANGED <<call, lo, hi, pos>>

Clear ==
  /\ pc = "idle"
  /\ entries' = <<>>
  /\ ret' = Void
  /\ UNCHANGED <<pc, call, lo, hi, pos>>

Step == Probe \/ Miss \/ ApplyInsert \/ ApplyFind \/ ApplyRemove

Next == Step \/ Clear \/ \E c \in Calls : Begin(c)

\* A started operation runs to completion: the caller's thread keeps going.
Fairness == WF_vars(Step)

Spec == Init /\ [][Next]_vars /\ Fairness

(***************************************************************************)
(* Properties                                                              *)
(***************************************************************************)

\* Every variable stays in its range; in particular the bisection's lo and hi
\* never leave the array, so every _entries[mid] read is in bounds.
TypeOK ==
  /\ entries \in Seq(Entry)
  /\ pc \in {"idle", "search", "apply"}
  /\ call \in Calls
  /\ lo \in Int /\ hi \in Int /\ pos \in Int
  /\ pc = "search" => lo >= 0 /\ hi < Len(entries)
  /\ ret \in [ok : BOOLEAN, row : RowIds \cup {None}]

\* The entries are strictly ascending by key after every step, so no key is
\* ever stored twice, whatever sequence of insert, remove and clear ran.
Sorted ==
  \A i, j \in 1..Len(entries) : i < j => entries[i].key < entries[j].key

\* p splits the array at k: keys before position p (0-based) are smaller than
\* k, keys at or after position q are larger.
SplitsAt(p, q, k) ==
  /\ \A i \in 1..p : entries[i].key < k
  /\ \A i \in (q + 1)..Len(entries) : entries[i].key > k

\* _find_pos is correct although it only looks at a logarithmic part of the
\* array: while it runs the key can only be between lo and hi, and it returns
\* the key's position, or ~p for the only p at which inserting keeps the order.
SearchBrackets ==
  /\ pc = "search" => lo <= hi + 1 /\ SplitsAt(lo, hi + 1, call.key)
  /\ pc = "apply" =>
       IF pos >= 0
       THEN pos < Len(entries) /\ entries[pos + 1].key = call.key
       ELSE BitNot(pos) <= Len(entries)
            /\ SplitsAt(BitNot(pos), BitNot(pos), call.key)

\* The map an array stands for.
LookupIn(es, k) ==
  IF \E i \in 1..Len(es) : es[i].key = k
  THEN es[CHOOSE i \in 1..Len(es) : es[i].key = k].row_id
  ELSE None

\* The call whose effect is still to come.
Pending == IF pc = "idle" THEN [op |-> "none"] ELSE call

Abstract == INSTANCE IndexMap WITH
              map <- [k \in Keys |-> LookupIn(entries, k)], req <- Pending

\* The sorted array implements the map that index.hpp's comments describe:
\* every operation's effect and answer is the map's, and the search steps in
\* between are invisible.
ImplementsMap == Abstract!Spec

\* Every operation terminates: the bisection never probes for ever.
Terminates == pc # "idle" ~> pc = "idle"
=============================================================================
