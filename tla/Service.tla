------------------------------ MODULE Service ------------------------------
(***************************************************************************)
(* What the server promises its clients: calls are served one at a time,   *)
(* in the order they arrived, each executed at most once and only between  *)
(* the call and its return.  A definite answer is true for good; a caller  *)
(* that is told nothing certain may have been served or not.  Server shows *)
(* that sockets, buffers and lost peers keep this promise.                 *)
(***************************************************************************)
EXTENDS Naturals, Sequences

CONSTANTS
  Clients,
  Calls,     \* pairs of a client and the number of its call
  NoAnswer   \* no call has returned yet

VARIABLES
  phase,     \* per client: "ready", "calling" or "gone"
  number,    \* per client: how many calls it has made
  answer,    \* per client: what it knows of its last call
  queue,     \* the calls that arrived and are not finished, in order
  executed,  \* per call: how often it was executed
  stopped    \* nothing is executed any more

vars == <<phase, number, answer, queue, executed, stopped>>

Answers == {"executed", "refused", "unknown"}

Init ==
  /\ phase = [c \in Clients |-> "ready"]
  /\ number = [c \in Clients |-> 0]
  /\ answer = [c \in Clients |-> NoAnswer]
  /\ queue = <<>>
  /\ executed = [k \in Calls |-> 0]
  /\ stopped = FALSE

Current(c) == <<c, number[c]>>

Call(c) ==
  /\ phase[c] = "ready"
  /\ phase' = [phase EXCEPT ![c] = "calling"]
  /\ number' = [number EXCEPT ![c] = @ + 1]
  /\ answer' = [answer EXCEPT ![c] = NoAnswer]
  /\ Current(c)' \in Calls
  /\ UNCHANGED <<queue, executed, stopped>>

\* A call that has not been executed yet takes the last place.
Arrive(c) ==
  /\ phase[c] = "calling" /\ executed[Current(c)] = 0
  /\ \A i \in DOMAIN queue : queue[i] # Current(c)
  /\ queue' = Append(queue, Current(c))
  /\ UNCHANGED <<phase, number, answer, executed, stopped>>

\* The caller of the first call is waiting for it, or died doing so.
Execute ==
  /\ queue # <<>> /\ ~stopped
  /\ LET k == Head(queue)
     IN  /\ executed[k] = 0
         /\ k = Current(k[1]) /\ phase[k[1]] # "ready"
         /\ executed' = [executed EXCEPT ![k] = 1]
  /\ UNCHANGED <<phase, number, answer, queue, stopped>>

Finish ==
  /\ queue # <<>>
  /\ queue' = Tail(queue)
  /\ UNCHANGED <<phase, number, answer, executed, stopped>>

Return(c, next) ==
  /\ phase[c] = "calling"
  /\ phase' = [phase EXCEPT ![c] = next]
  /\ \E a \in Answers :
       /\ a = "executed" => executed[Current(c)] = 1
       /\ a = "refused" => executed[Current(c)] = 0
       /\ answer' = [answer EXCEPT ![c] = a]
  /\ UNCHANGED <<number, queue, executed, stopped>>

Die(c) ==
  /\ phase' = [phase EXCEPT ![c] = "gone"]
  /\ UNCHANGED <<number, answer, queue, executed, stopped>>

\* The server is told to stop: the calls that wait are not executed.
Stop ==
  /\ stopped' = TRUE
  /\ queue' \in {queue, <<>>}
  /\ UNCHANGED <<phase, number, answer, executed>>

Next ==
  \/ Execute \/ Finish \/ Stop
  \/ \E c \in Clients : Call(c) \/ Arrive(c) \/ Return(c, "ready") \/ Return(c, "gone") \/ Die(c)

Spec == Init /\ [][Next]_vars
=============================================================================
