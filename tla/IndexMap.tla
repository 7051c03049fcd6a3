------------------------------ MODULE IndexMap ------------------------------
(***************************************************************************)
(* What the primary-key index promises (the comments of storage/index.hpp): *)
(* a map from int keys to row ids, "overwrites if key already exists",     *)
(* with lookup, removal and clearing.  No ordering, no array, no search:   *)
(* an operation is called, and later takes effect and answers in one step. *)
(***************************************************************************)
CONSTANTS
  Keys,     \* the int keys the callers use
  RowIds,   \* the row ids the callers store
  None      \* "no row": not a row id

VARIABLES
  map,      \* the mapping, None where a key is absent
  ret,      \* what the last operation handed back to its caller
  req       \* the operation called and not yet answered

vars == <<map, ret, req>>

Calls  == [op : {"insert", "find", "remove"}, key : Keys, row_id : RowIds]
NoCall == [op |-> "none"]
Void   == [ok |-> TRUE, row |-> None]

Init ==
  /\ map = [k \in Keys |-> None]
  /\ ret = Void
  /\ req = NoCall

\* void insert(int key, int row_id)
Insert(k, r) ==
  /\ map' = [map EXCEPT ![k] = r]
  /\ ret' = Void

\* bool find(int key, int& row_id) const
Find(k) ==
  /\ ret' = [ok |-> map[k] # None, row |-> map[k]]
  /\ UNCHANGED map

\* bool remove(int key)
Remove(k) ==
  /\ map' = [map EXCEPT ![k] = None]
  /\ ret' = [ok |-> map[k] # None, row |-> None]

\* void clear()
Clear ==
  /\ req = NoCall
  /\ map' = [k \in Keys |-> None]
  /\ ret' = Void
  /\ UNCHANGED req

Call(c) ==
  /\ req = NoCall
  /\ req' = c
  /\ UNCHANGED <<map, ret>>

\* The operation takes effect and answers, exactly as it was called.
Serve ==
  /\ \/ req.op = "insert" /\ Insert(req.key, req.row_id)
     \/ req.op = "find" /\ Find(req.key)
     \/ req.op = "remove" /\ Remove(req.key)
  /\ req' = NoCall

Next == Serve \/ Clear \/ \E c \in Calls : Call(c)

Spec == Init /\ [][Next]_vars
=============================================================================
