---------------------------- MODULE ServerProofs ----------------------------
(***************************************************************************)
(* Proofs about Server, for any clients, statements, backlog and number of *)
(* calls: what a client is told is true, and the server keeps the promise  *)
(* of Service.                                                             *)
(***************************************************************************)
EXTENDS Server, SequenceTheorems, TLAPS

-----------------------------------------------------------------------------
(***************************************************************************)
(* The inductive invariant                                                 *)
(***************************************************************************)

\* The client is inside the call that opened its last connection.
Calling(c) == repl[c] \notin {"prompt", "gone"}

Opened(k) == k[2] <= entered[k[1]]

\* The call that opened k has returned to a REPL that goes on.
Past(k) == k[2] < entered[k[1]] \/ repl[k[1]] = "prompt"

\* A connection is waiting to be accepted or being served.
Queued(k) == \E n \in 1..Len(backlog) : backlog[n] = k
Waits(k)  == k = conn \/ Queued(k)

\* A connection that was not opened has no socket; the socket of the others has
\* all its members, and the client hangs it up when the call is over.
SocketOK(k) ==
  /\ ~Opened(k) => sock[k] = NoSocket /\ ~Waits(k)
  /\ Opened(k) =>
       /\ sock[k] \in Socket
       /\ sock[k].hungup <=> (k[2] < entered[k[1]] \/ ~Calling(k[1]))

\* How far the server is with connection k.
ServedOK(k) ==
  Opened(k) =>
    /\ sock[k].read <= sock[k].sent
    /\ sock[k].read > 0 =>
         sock[k].text \in Brimming \/ sock[k].sent = 2 \/ sock[k].hungup
    /\ sock[k].read = 0 => sock[k].answer = "none"
    /\ sock[k].answer = "none" => sock[k].back = 0
    /\ sock[k].answer = "goodbye" => sock[k].text = Exit /\ ~running
    /\ Waits(k) => ~sock[k].closed
    /\ Queued(k) => sock[k].read = 0
    /\ k = conn =>
         /\ srv = "handle" => sock[k].read > 0 /\ sock[k].answer = "none"
         /\ srv = "recv" /\ sock[k].read > 0 => sock[k].answer # "none"
         /\ srv \in {"send", "newline"} => sock[k].answer # "none"
         /\ srv = "send" => sock[k].back = 0

\* The executor ran the statement of k if and only if its answer says so.
ExecutedOK(k) ==
  executed[k] = IF Opened(k) /\ sock[k].answer = "ok" THEN 1 ELSE 0

\* A REPL goes on only after an answer, or when there will be none.
PastOK(k) == Opened(k) /\ Past(k) => ServerGone(k) \/ sock[k].answer # "none"

\* Where a client is in its call, and what its last call returned.
ClientOK(c) ==
  /\ Calling(c) => entered[c] > 0 /\ got[c] = "none"
  /\ repl[c] = "connect" =>
       sock[My(c)].sent = 0 /\ ~Waits(My(c)) /\ ~sock[My(c)].closed
  /\ repl[c] = "body" => sock[My(c)].sent = 0
  /\ repl[c] = "newline" => sock[My(c)].sent = 1
  /\ got[c] # "none" =>
       /\ entered[c] > 0
       /\ got[c] \in {"ok", "cut"} => sock[My(c)].answer = "ok"
       /\ got[c] \in {"invalid", "goodbye"} => sock[My(c)].answer = got[c]
       /\ got[c] = "unreachable" => srv = "down" /\ sock[My(c)].answer = "none"
       /\ got[c] = "unsent" =>
            \/ ServerGone(My(c)) /\ sock[My(c)].answer = "none"
            \/ sock[My(c)].text \in Brimming

\* The accept loop: nobody waits twice, and it goes on until exit.
LoopOK ==
  /\ ~running => srv \in {"send", "newline", "shutdown", "down"}
  /\ srv \in {"shutdown", "down"} => conn = NoConn
  /\ srv = "down" => backlog = <<>>
  /\ \A m, n \in 1..Len(backlog) : backlog[m] = backlog[n] => m = n
  /\ \A n \in 1..Len(backlog) : backlog[n] # conn

IInv ==
  /\ TypeOK
  /\ \A k \in Conns : SocketOK(k) /\ ServedOK(k) /\ ExecutedOK(k) /\ PastOK(k)
  /\ \A c \in Clients : ClientOK(c)
  /\ LoopOK

-----------------------------------------------------------------------------
\* A connection is a client with the number of its call, and NoConn is none.
LEMMA ConnFacts ==
  /\ \A k \in Conns : /\ k[1] \in Clients /\ k[2] \in 1..MaxEntered[k[1]]
                       /\ MaxEntered[k[1]] \in Nat
                       /\ k = <<k[1], k[2]>>
  /\ \A c \in Clients : \A n \in 1..MaxEntered[c] : <<c, n>> \in Conns
  /\ NoConn \notin Conns
<1>1. ASSUME NEW k \in Conns
      PROVE  /\ k[1] \in Clients /\ k[2] \in 1..MaxEntered[k[1]]
             /\ MaxEntered[k[1]] \in Nat /\ k = <<k[1], k[2]>>
  <2>1. PICK c \in Clients : k \in {c} \X (1..MaxEntered[c])
    BY DEF Conns
  <2> QED BY <2>1, BoundsAssumption
<1>2. ASSUME NEW c \in Clients, NEW n \in 1..MaxEntered[c] PROVE <<c, n>> \in Conns
  <2>1. <<c, n>> \in {c} \X (1..MaxEntered[c])
    OBVIOUS
  <2> QED BY <2>1 DEF Conns
<1>3. NoConn[1] = Nobody
  BY DEF NoConn
<1> QED BY <1>1, <1>2, <1>3, ExitAssumption

\* The server before its first connection.
LEMMA InitIInv == Init => IInv
<1> SUFFICES ASSUME Init PROVE IInv
  OBVIOUS
<1> USE DEF Init
<1>1. TypeOK
  BY BoundsAssumption, ConnFacts, EmptySeq DEF TypeOK, Results, Socket, NoSocket
<1>2. ASSUME NEW k \in Conns PROVE SocketOK(k) /\ ServedOK(k) /\ ExecutedOK(k) /\ PastOK(k)
  <2>1. k[1] \in Clients /\ k[2] > 0
    BY ConnFacts
  <2>2. ~Opened(k) /\ ~Waits(k)
    BY <2>1, ConnFacts DEF Opened, Waits, Queued
  <2> QED BY <2>2 DEF SocketOK, ServedOK, ExecutedOK, PastOK
<1>3. ASSUME NEW c \in Clients PROVE ClientOK(c)
  BY DEF ClientOK, Calling
<1>4. LoopOK
  BY DEF LoopOK
<1> QED BY <1>1, <1>2, <1>3, <1>4 DEF IInv

-----------------------------------------------------------------------------
(***************************************************************************)
(* The client's steps                                                      *)
(***************************************************************************)

\* The last connection of a client that made a call, and what is known of it.
LEMMA LastConn ==
  ASSUME IInv, NEW c \in Clients, entered[c] > 0
  PROVE  /\ My(c) \in Conns /\ Opened(My(c)) /\ sock[My(c)] \in Socket
         /\ My(c)[1] = c /\ My(c)[2] = entered[c]
<1>1. entered[c] \in 1..MaxEntered[c]
  BY BoundsAssumption DEF IInv, TypeOK
<1>2. My(c) \in Conns /\ My(c)[1] = c /\ My(c)[2] = entered[c]
  BY <1>1, ConnFacts DEF My
<1>3. Opened(My(c))
  BY <1>1, <1>2 DEF Opened
<1> QED BY <1>2, <1>3 DEF IInv, SocketOK

LEMMA EnterIInv ==
  ASSUME IInv, NEW c \in Clients, NEW s \in Statements \cup {Exit}, Enter(c, s)
  PROVE  IInv'
<1> DEFINE new == <<c, entered[c] + 1>>
<1>1. /\ new \in Conns /\ new[1] = c /\ new[2] = entered[c] + 1
      /\ entered[c] \in Nat /\ entered[c] < MaxEntered[c] /\ repl[c] = "prompt"
      /\ NewSocket(s) \in Socket
  <2>1. entered[c] \in Nat /\ entered[c] < MaxEntered[c] /\ MaxEntered[c] \in Nat
    BY BoundsAssumption DEF IInv, TypeOK, Enter
  <2>2. new \in Conns
    BY <2>1, ConnFacts
  <2> QED BY <2>1, <2>2 DEF Enter, NewSocket, Socket
<1>2. sock[new] = NoSocket /\ ~Waits(new) /\ executed[new] = 0 /\ ~Opened(new)
  BY <1>1 DEF IInv, SocketOK, ExecutedOK, Opened
<1> HIDE DEF new
<1>3. /\ sock' = [sock EXCEPT ![new] = NewSocket(s)]
      /\ repl' = [repl EXCEPT ![c] = "connect"]
      /\ entered' = [entered EXCEPT ![c] = @ + 1]
      /\ got' = [got EXCEPT ![c] = "none"]
      /\ UNCHANGED <<srv, conn, running, backlog, cause, executed>>
  BY DEF Enter, server, new
<1>4. TypeOK'
  <2>1. entered' \in [Clients -> Nat] /\ \A d \in Clients : entered'[d] <= MaxEntered[d]
    <3>1. entered \in [Clients -> Nat] /\ \A d \in Clients : entered[d] <= MaxEntered[d]
      BY DEF IInv, TypeOK
    <3>2. \A d \in Clients : entered'[d] = IF d = c THEN entered[c] + 1 ELSE entered[d]
      BY <1>3, <3>1
    <3>3. MaxEntered[c] \in Nat
      BY BoundsAssumption
    <3> QED BY <1>1, <1>3, <3>1, <3>2, <3>3
  <2>2. sock' \in [Conns -> Socket \cup {NoSocket}]
    BY <1>1, <1>3 DEF IInv, TypeOK
  <2>3. repl' \in [Clients -> {"prompt", "connect", "body", "newline", "receive", "gone"}]
    BY <1>3 DEF IInv, TypeOK
  <2>4. got' \in [Clients -> Results]
    BY <1>3 DEF IInv, TypeOK, Results
  <2> QED BY <1>3, <2>1, <2>2, <2>3, <2>4 DEF IInv, TypeOK
<1>5. ASSUME NEW k \in Conns PROVE SocketOK(k)' /\ ServedOK(k)' /\ ExecutedOK(k)' /\ PastOK(k)'
  <2>1. k[1] \in Clients /\ k[2] \in Nat /\ k = <<k[1], k[2]>>
    BY ConnFacts
  <2>2. CASE k = new
    <3>1. Opened(k)' /\ ~Waits(k)' /\ sock'[k] = NewSocket(s) /\ executed'[k] = 0
      BY <1>1, <1>2, <1>3, <2>2 DEF IInv, TypeOK, Opened, Waits, Queued
    <3>2. k[2] = entered'[k[1]] /\ repl'[k[1]] = "connect"
      BY <1>1, <1>3, <2>2 DEF IInv, TypeOK
    <3> QED BY <1>1, <2>2, <3>1, <3>2
            DEF NewSocket, SocketOK, ServedOK, ExecutedOK, PastOK, Past, Calling, Waits
  <2>3. CASE k # new
    <3>1. sock'[k] = sock[k] /\ executed'[k] = executed[k]
      BY <1>3, <2>3 DEF IInv, TypeOK
    <3>2. (Opened(k)' <=> Opened(k)) /\ (Waits(k)' <=> Waits(k)) /\ (Queued(k)' <=> Queued(k))
      BY <1>1, <1>3, <2>1, <2>3 DEF IInv, TypeOK, Opened, Waits, Queued, new
    <3>3. Opened(k) => /\ ((k[2] < entered[k[1]] \/ ~Calling(k[1]))'
                            <=> (k[2] < entered[k[1]] \/ ~Calling(k[1])))
                       /\ Past(k)' <=> Past(k)
      BY <1>1, <1>3, <2>1, <2>3 DEF IInv, TypeOK, Opened, Past, Calling, new
    <3>4. ServerGone(k)' <=> ServerGone(k)
      BY <1>3, <3>1 DEF ServerGone
    <3>5. SocketOK(k) /\ ServedOK(k) /\ ExecutedOK(k) /\ PastOK(k)
      BY DEF IInv
    <3> QED BY <1>3, <3>1, <3>2, <3>3, <3>4, <3>5
            DEF SocketOK, ServedOK, ExecutedOK, PastOK
  <2> QED BY <2>2, <2>3
<1>6. ASSUME NEW d \in Clients PROVE ClientOK(d)'
  <2>1. CASE d = c
    BY <1>1, <1>2, <1>3, <2>1
       DEF IInv, TypeOK, ClientOK, Calling, My, NewSocket, Waits, Queued, new
  <2>2. CASE d # c
    <3>1. repl'[d] = repl[d] /\ entered'[d] = entered[d] /\ got'[d] = got[d] /\ ClientOK(d)
      BY <1>3, <2>2 DEF IInv, TypeOK
    <3>2. entered[d] > 0 => sock'[My(d)] = sock[My(d)]
      BY <1>1, <1>3, <2>2, LastConn DEF IInv, TypeOK
    <3>3. My(d)' = My(d)
      BY <3>1 DEF My
    <3> QED BY <1>3, <3>1, <3>2, <3>3 DEF IInv, TypeOK, ClientOK, Calling, Waits, Queued, ServerGone
  <2> QED BY <2>1, <2>2
<1>7. LoopOK'
  BY <1>3 DEF IInv, LoopOK
<1> QED BY <1>4, <1>5, <1>6, <1>7 DEF IInv

\* A step of client c that changes its REPL, its result and what it has sent on
\* its connection disturbs nobody else.
LEMMA ClientChangeIInv ==
  ASSUME IInv, NEW c \in Clients, entered[c] > 0,
         UNCHANGED <<server, entered, executed>>,
         NEW s \in Socket, sock' = [sock EXCEPT ![My(c)] = s],
         NEW r \in {"prompt", "body", "newline", "receive", "gone"},
         repl' = [repl EXCEPT ![c] = r],
         NEW g \in Results, got' = [got EXCEPT ![c] = g],
         s.text = sock[My(c)].text, s.read = sock[My(c)].read, s.back = sock[My(c)].back,
         s.answer = sock[My(c)].answer, s.closed = sock[My(c)].closed,
         s.sent >= sock[My(c)].sent, sock[My(c)].hungup => s.hungup,
         s.hungup <=> r \in {"prompt", "gone"},
         r = "prompt" => ServerGone(My(c)) \/ s.answer # "none",
         ClientOK(c)'
  PROVE  IInv'
<1> DEFINE mine == My(c)
<1>1. /\ mine \in Conns /\ Opened(mine) /\ sock[mine] \in Socket
      /\ mine[1] = c /\ mine[2] = entered[c]
  BY LastConn
<1>2. My(c) = mine
  OBVIOUS
<1> HIDE DEF mine
<1>3. /\ sock' = [sock EXCEPT ![mine] = s]
      /\ UNCHANGED <<srv, conn, running, backlog, cause, entered, executed>>
  BY <1>2 DEF server
<1>4. TypeOK'
  <2>1. sock' \in [Conns -> Socket \cup {NoSocket}]
    BY <1>1, <1>3 DEF IInv, TypeOK
  <2>2. repl' \in [Clients -> {"prompt", "connect", "body", "newline", "receive", "gone"}]
    BY DEF IInv, TypeOK
  <2>3. got' \in [Clients -> Results]
    BY DEF IInv, TypeOK
  <2> QED BY <1>3, <2>1, <2>2, <2>3 DEF IInv, TypeOK
<1>5. ASSUME NEW k \in Conns PROVE SocketOK(k)' /\ ServedOK(k)' /\ ExecutedOK(k)' /\ PastOK(k)'
  <2>1. /\ k[1] \in Clients /\ k[2] \in Nat /\ k = <<k[1], k[2]>>
        /\ mine = <<mine[1], mine[2]>>
    BY <1>1, ConnFacts
  <2>2. SocketOK(k) /\ ServedOK(k) /\ ExecutedOK(k) /\ PastOK(k)
    BY DEF IInv
  <2>3. (Opened(k)' <=> Opened(k)) /\ (Waits(k)' <=> Waits(k)) /\ (Queued(k)' <=> Queued(k))
    BY <1>3 DEF Opened, Waits, Queued
  <2>4. CASE k = mine
    <3>1. sock'[k] = s /\ executed'[k] = executed[k] /\ repl'[c] = r
      BY <1>1, <1>3, <2>4 DEF IInv, TypeOK
    <3>2. SocketOK(k)'
      BY <1>1, <1>3, <2>3, <2>4, <3>1 DEF IInv, TypeOK, SocketOK, Calling
    <3>3. ServedOK(k)'
      BY <1>1, <1>2, <1>3, <2>2, <2>3, <2>4, <3>1 DEF ServedOK, Socket
    <3>4. ExecutedOK(k)' /\ PastOK(k)'
      BY <1>1, <1>2, <1>3, <2>2, <2>3, <2>4, <3>1
         DEF IInv, TypeOK, ExecutedOK, PastOK, Past, ServerGone
    <3> QED BY <3>2, <3>3, <3>4
  <2>5. CASE k # mine
    <3>1. sock'[k] = sock[k] /\ executed'[k] = executed[k]
      BY <1>1, <1>3, <2>5 DEF IInv, TypeOK
    <3>2. Opened(k) => /\ (k[2] < entered[k[1]] \/ ~Calling(k[1]))'
                            <=> (k[2] < entered[k[1]] \/ ~Calling(k[1]))
                       /\ Past(k)' <=> Past(k)
      <4>1. CASE k[1] = c
        BY <1>1, <1>3, <2>1, <2>5, <4>1 DEF IInv, TypeOK, Opened, Past
      <4>2. CASE k[1] # c
        BY <1>3, <2>1, <4>2 DEF IInv, TypeOK, Past, Calling
      <4> QED BY <4>1, <4>2
    <3>3. ServerGone(k)' <=> ServerGone(k)
      BY <1>3, <3>1 DEF ServerGone
    <3> QED BY <1>3, <2>2, <2>3, <3>1, <3>2, <3>3
            DEF SocketOK, ServedOK, ExecutedOK, PastOK
  <2> QED BY <2>4, <2>5
<1>6. ASSUME NEW d \in Clients, d # c PROVE ClientOK(d)'
  <2>1. repl'[d] = repl[d] /\ entered'[d] = entered[d] /\ got'[d] = got[d] /\ ClientOK(d)
    BY <1>3, <1>6 DEF IInv, TypeOK
  <2>2. entered[d] > 0 => sock'[My(d)] = sock[My(d)]
    BY <1>1, <1>3, <1>6, LastConn DEF IInv, TypeOK
  <2>3. My(d)' = My(d) /\ entered[d] \in Nat
    BY <2>1 DEF My, IInv, TypeOK
  <2> QED BY <1>3, <2>1, <2>2, <2>3 DEF ClientOK, Calling, Waits, Queued, ServerGone
<1>7. LoopOK'
  BY <1>3 DEF IInv, LoopOK
<1> QED BY <1>4, <1>5, <1>6, <1>7 DEF IInv

\* The call is over: its result has to be true of its connection.
LEMMA ReturnIInv ==
  ASSUME IInv, NEW c \in Clients, Calling(c), UNCHANGED <<server, executed>>,
         NEW r \in Results \ {"none"}, Return(c, r),
         r # "nothing" => ServerGone(My(c)) \/ sock[My(c)].answer # "none",
         r \in {"ok", "cut"} => sock[My(c)].answer = "ok",
         r \in {"invalid", "goodbye"} => sock[My(c)].answer = r,
         r = "unreachable" => srv = "down" /\ sock[My(c)].answer = "none",
         r = "unsent" => \/ ServerGone(My(c)) /\ sock[My(c)].answer = "none"
                         \/ sock[My(c)].text \in Brimming
  PROVE  IInv'
<1> DEFINE s == [sock[My(c)] EXCEPT !.hungup = TRUE]
           next == IF sock[My(c)].text = Exit \/ r = "nothing" THEN "gone" ELSE "prompt"
<1>1. /\ My(c) \in Conns /\ sock[My(c)] \in Socket /\ entered[c] > 0
  BY LastConn DEF IInv, ClientOK
<1>2. /\ s \in Socket /\ s.hungup /\ s.text = sock[My(c)].text /\ s.read = sock[My(c)].read
      /\ s.back = sock[My(c)].back /\ s.answer = sock[My(c)].answer
      /\ s.closed = sock[My(c)].closed /\ s.sent = sock[My(c)].sent /\ s.sent \in 0..2
  BY <1>1 DEF Socket
<1>3. sock' = [sock EXCEPT ![My(c)] = s]
  BY <1>1 DEF Return, IInv, TypeOK
<1>4. /\ repl' = [repl EXCEPT ![c] = next] /\ next \in {"prompt", "gone"}
      /\ got' = [got EXCEPT ![c] = r] /\ entered' = entered
      /\ next = "prompt" => r # "nothing"
  BY DEF Return
<1> HIDE DEF s, next
<1>5. ClientOK(c)'
  <2>1. /\ repl'[c] = next /\ got'[c] = r /\ My(c)' = My(c) /\ sock'[My(c)] = s
        /\ srv' = srv
    BY <1>1, <1>3, <1>4 DEF IInv, TypeOK, My, server
  <2>2. r # "none" /\ ~Calling(c)' /\ entered'[c] > 0
    BY <1>1, <1>4, <2>1 DEF Calling
  <2>3. ServerGone(My(c))' <=> ServerGone(My(c))
    BY <1>2, <2>1 DEF ServerGone
  <2> QED BY <1>2, <1>4, <2>1, <2>2, <2>3 DEF ClientOK
<1>6. /\ next \in {"prompt", "body", "newline", "receive", "gone"}
      /\ s.hungup <=> next \in {"prompt", "gone"}
      /\ sock[My(c)].hungup => s.hungup
      /\ next = "prompt" => ServerGone(My(c)) \/ s.answer # "none"
      /\ s.sent >= sock[My(c)].sent
      /\ UNCHANGED <<server, entered, executed>>
      /\ r \in Results
  BY <1>2, <1>4
<1> QED BY <1>1, <1>2, <1>3, <1>4, <1>5, <1>6, ClientChangeIInv

\* connect: the connection takes the last place, or nobody listens.
LEMMA ConnectIInv ==
  ASSUME IInv, NEW c \in Clients, Connect(c)
  PROVE  IInv'
<1> DEFINE mine == My(c)
<1>1. /\ mine \in Conns /\ Opened(mine) /\ sock[mine] \in Socket /\ Calling(c)
      /\ mine[1] = c /\ mine[2] = entered[c] /\ entered[c] > 0
  BY LastConn DEF IInv, ClientOK, Calling, Connect
<1>2. /\ sock[mine].sent = 0 /\ sock[mine].read = 0 /\ sock[mine].answer = "none"
      /\ sock[mine].back = 0 /\ ~Waits(mine) /\ ~sock[mine].closed
  BY <1>1 DEF IInv, ClientOK, ServedOK, Connect, Socket
<1>3. CASE srv = "down" /\ Return(c, "unreachable") /\ UNCHANGED backlog
  <2>1. UNCHANGED <<server, executed>> /\ "unreachable" \in Results \ {"none"}
    BY <1>3 DEF Connect, server, Results
  <2>2. ServerGone(My(c))
    BY <1>3 DEF ServerGone
  <2> QED BY <1>1, <1>2, <1>3, <2>1, <2>2, ReturnIInv
<1>4. CASE /\ srv # "down" /\ Len(backlog) < Backlog
           /\ backlog' = Append(backlog, mine)
           /\ repl' = [repl EXCEPT ![c] = "body"]
           /\ UNCHANGED <<entered, got, sock>>
  <2>1. UNCHANGED <<srv, conn, running, cause, entered, got, sock, executed>>
    BY <1>4 DEF Connect
  <2>2. /\ backlog' \in Seq(Conns) /\ Len(backlog) \in Nat /\ Len(backlog') = Len(backlog) + 1
        /\ \A n \in 1..Len(backlog) : backlog'[n] = backlog[n]
        /\ backlog'[Len(backlog) + 1] = mine
    BY <1>1, <1>4, AppendProperties, LenProperties DEF IInv, TypeOK
  <2> HIDE DEF mine
  <2>3. TypeOK'
    BY <1>4, <2>1, <2>2, BoundsAssumption DEF IInv, TypeOK
  <2>4. \A k : /\ Queued(k)' <=> Queued(k) \/ k = mine
               /\ Waits(k)' <=> Waits(k) \/ k = mine
    BY <2>1, <2>2 DEF Queued, Waits
  <2>5. ASSUME NEW k \in Conns PROVE SocketOK(k)' /\ ServedOK(k)' /\ ExecutedOK(k)' /\ PastOK(k)'
    <3>1. SocketOK(k) /\ ServedOK(k) /\ ExecutedOK(k) /\ PastOK(k) /\ k[1] \in Clients
      BY ConnFacts DEF IInv
    <3>2. (Opened(k)' <=> Opened(k)) /\ (ServerGone(k)' <=> ServerGone(k))
      BY <2>1 DEF Opened, ServerGone
    <3>3. (Calling(k[1])' <=> Calling(k[1])) /\ (Past(k)' => Past(k))
      BY <1>4, <2>1, <3>1 DEF Calling, Past, Connect, IInv, TypeOK
    <3>4. SocketOK(k)' /\ ExecutedOK(k)' /\ PastOK(k)'
      BY <1>1, <2>1, <2>4, <3>1, <3>2, <3>3 DEF SocketOK, ExecutedOK, PastOK
    <3>5. ServedOK(k)'
      BY <1>1, <1>2, <2>1, <2>4, <3>1, <3>2 DEF ServedOK, Waits
    <3> QED BY <3>4, <3>5
  <2>6. ASSUME NEW d \in Clients PROVE ClientOK(d)'
    <3>1. My(d)' = My(d) /\ ClientOK(d) /\ (ServerGone(My(d))' <=> ServerGone(My(d)))
      BY <2>1 DEF IInv, My, ServerGone
    <3>2. CASE d = c
      BY <1>1, <1>2, <1>4, <2>1, <3>1, <3>2 DEF ClientOK, Calling, IInv, TypeOK, mine
    <3>3. CASE d # c
      <4>1. repl'[d] = repl[d]
        BY <1>4, <3>3 DEF IInv, TypeOK
      <4>2. entered[d] > 0 => My(d) # mine
        BY <1>1, <3>3, LastConn
      <4> QED BY <2>1, <2>4, <3>1, <4>1, <4>2 DEF ClientOK, Calling
    <3> QED BY <3>2, <3>3
  <2>7. LoopOK'
    <3>1. \A n \in 1..Len(backlog) : backlog[n] # mine
      BY <1>2 DEF Waits, Queued, mine
    <3>2. conn # mine
      BY <1>2 DEF Waits, mine
    <3> QED BY <1>4, <2>1, <2>2, <3>1, <3>2 DEF IInv, LoopOK
  <2> QED BY <2>3, <2>5, <2>6, <2>7 DEF IInv
<1> QED BY <1>3, <1>4 DEF Connect

\* A write that arrives moves the client on; one that fails ends the call.
LEMMA WriteIInv ==
  ASSUME IInv, NEW c \in Clients, NEW n \in 1..2,
         NEW next \in {"newline", "receive"},
         repl[c] \in {"body", "newline"}, n >= sock[My(c)].sent,
         next = "newline" => n = 1,
         sock[My(c)].sent < 2,
         Write(c, n, next), UNCHANGED <<server, executed>>
  PROVE  IInv'
<1>1. /\ My(c) \in Conns /\ Opened(My(c)) /\ sock[My(c)] \in Socket /\ Calling(c)
      /\ entered[c] > 0
  BY LastConn DEF IInv, ClientOK, Calling
<1>2. ~sock[My(c)].hungup /\ ServedOK(My(c)) /\ ClientOK(c)
  <2>1. My(c)[1] = c /\ My(c)[2] = entered[c] /\ entered[c] \in Nat
    BY <1>1, LastConn DEF IInv, TypeOK
  <2>2. SocketOK(My(c)) /\ ServedOK(My(c)) /\ ClientOK(c)
    BY <1>1 DEF IInv
  <2> QED BY <1>1, <2>1, <2>2 DEF SocketOK
<1>3. CASE /\ ServerGone(My(c))
           /\ Return(c, IF sock[My(c)].text = Exit THEN "nothing" ELSE "unsent")
  <2>1. sock[My(c)].answer = "none" \/ sock[My(c)].text \in Brimming
    BY <1>1, <1>2 DEF ServedOK, Socket
  <2> QED BY <1>1, <1>3, <2>1, ReturnIInv DEF Results
<1>4. CASE /\ sock' = [sock EXCEPT ![My(c)].sent = n]
           /\ repl' = [repl EXCEPT ![c] = next]
           /\ UNCHANGED <<entered, got>>
  <2> DEFINE s == [sock[My(c)] EXCEPT !.sent = n]
  <2>1. /\ s \in Socket /\ ~s.hungup /\ s.text = sock[My(c)].text /\ s.read = sock[My(c)].read
        /\ s.back = sock[My(c)].back /\ s.answer = sock[My(c)].answer
        /\ s.closed = sock[My(c)].closed /\ s.sent = n
    BY <1>1, <1>2 DEF Socket
  <2>2. sock' = [sock EXCEPT ![My(c)] = s]
    BY <1>1, <1>4 DEF IInv, TypeOK
  <2> HIDE DEF s
  <2>3. got' = [got EXCEPT ![c] = "none"] /\ got[c] = "none"
    BY <1>1, <1>2, <1>4 DEF IInv, TypeOK, ClientOK
  <2>4. ClientOK(c)'
    <3>1. repl'[c] = next /\ got'[c] = "none" /\ My(c)' = My(c) /\ sock'[My(c)] = s /\ entered' = entered
      BY <1>1, <1>4, <2>2, <2>3 DEF IInv, TypeOK, My
    <3> QED BY <1>1, <2>1, <3>1 DEF ClientOK
  <2> QED BY <1>1, <1>2, <1>4, <2>1, <2>2, <2>3, <2>4, ClientChangeIInv DEF Results
<1> QED BY <1>3, <1>4 DEF Write

\* The client's process ends, wherever it is.
LEMMA DieIInv ==
  ASSUME IInv, NEW c \in Clients, Die(c), UNCHANGED <<server, executed>>
  PROVE  IInv'

<1>1. CASE entered[c] > 0
  <2> DEFINE s == [sock[My(c)] EXCEPT !.hungup = TRUE]
  <2>1. My(c) \in Conns /\ sock[My(c)] \in Socket
    BY <1>1, LastConn
  <2>2. /\ s \in Socket /\ s.hungup /\ s.text = sock[My(c)].text /\ s.read = sock[My(c)].read
        /\ s.back = sock[My(c)].back /\ s.answer = sock[My(c)].answer
        /\ s.closed = sock[My(c)].closed /\ s.sent = sock[My(c)].sent /\ s.sent \in 0..2
    BY <2>1 DEF Socket
  <2>3. sock' = [sock EXCEPT ![My(c)] = s]
    BY <1>1, <2>1 DEF Die, IInv, TypeOK
  <2> HIDE DEF s
  <2>4. /\ repl' = [repl EXCEPT ![c] = "gone"] /\ UNCHANGED <<entered, got>>
        /\ got' = [got EXCEPT ![c] = got[c]] /\ got[c] \in Results
    BY DEF Die, IInv, TypeOK
  <2>5. ClientOK(c)'
    <3>1. /\ repl'[c] = "gone" /\ My(c)' = My(c) /\ sock'[My(c)] = s /\ srv' = srv
      BY <2>1, <2>3, <2>4 DEF IInv, TypeOK, My, server
    <3>2. ServerGone(My(c))' <=> ServerGone(My(c))
      BY <2>2, <3>1 DEF ServerGone
    <3>3. ClientOK(c)
      BY DEF IInv
    <3> QED BY <2>2, <2>4, <3>1, <3>2, <3>3 DEF ClientOK, Calling
  <2>6. s.sent >= sock[My(c)].sent
    BY <2>2
  <2> QED BY <1>1, <2>2, <2>3, <2>4, <2>5, <2>6, ClientChangeIInv
<1>2. CASE ~(entered[c] > 0)
  <2>1. /\ sock' = sock /\ repl' = [repl EXCEPT ![c] = "gone"]
        /\ UNCHANGED <<srv, conn, running, backlog, cause, entered, got, executed>>
    BY <1>2 DEF Die, server
  <2>2. TypeOK'
    BY <2>1 DEF IInv, TypeOK
  <2>3. ASSUME NEW k \in Conns PROVE SocketOK(k)' /\ ServedOK(k)' /\ ExecutedOK(k)' /\ PastOK(k)'
    <3>1. SocketOK(k) /\ ServedOK(k) /\ ExecutedOK(k) /\ PastOK(k)
      BY DEF IInv
    <3>2. (Opened(k)' <=> Opened(k)) /\ (Waits(k)' <=> Waits(k)) /\ (Queued(k)' <=> Queued(k))
      BY <2>1 DEF Opened, Waits, Queued
    <3>3. k[1] \in Clients /\ k[2] > 0 /\ (Opened(k) => k[1] # c)
      BY <1>2, ConnFacts DEF Opened, IInv, TypeOK
    <3>4. Opened(k) => repl'[k[1]] = repl[k[1]]
      BY <2>1, <3>3 DEF IInv, TypeOK
    <3> QED BY <2>1, <3>1, <3>2, <3>4
            DEF SocketOK, ServedOK, ExecutedOK, PastOK, Past, Calling, ServerGone
  <2>4. ASSUME NEW d \in Clients PROVE ClientOK(d)'
    <3>1. ClientOK(d) /\ My(d)' = My(d) /\ (ServerGone(My(d))' <=> ServerGone(My(d)))
      BY <2>1 DEF IInv, My, ServerGone
    <3>2. repl'[d] \in {repl[d], "gone"}
      BY <2>1 DEF IInv, TypeOK
    <3> QED BY <2>1, <3>1, <3>2 DEF ClientOK, Calling, Waits, Queued
  <2>5. LoopOK'
    BY <2>1 DEF IInv, LoopOK
  <2> QED BY <2>2, <2>3, <2>4, <2>5 DEF IInv
<1> QED BY <1>1, <1>2

LEMMA ClientStepIInv ==
  ASSUME IInv, NEW c \in Clients, ClientStep(c)
  PROVE  IInv'
<1>1. CASE Connect(c)
  BY <1>1, ConnectIInv
<1>2. CASE SendBody(c)
  <2>1. sock[My(c)].sent = 0
    BY <1>2 DEF IInv, ClientOK, SendBody
  <2> QED BY <1>2, <2>1, WriteIInv DEF SendBody
<1>3. CASE SendNewline(c)
  <2>1. sock[My(c)].sent = 1
    BY <1>3 DEF IInv, ClientOK, SendNewline
  <2> QED BY <1>3, <2>1, WriteIInv, DieIInv DEF SendNewline
<1>4. CASE Receive(c)
  <2> DEFINE k == My(c)
             r == IF sock[k].back = 0 THEN "nothing"
                  ELSE IF Overlong(k) THEN "cut" ELSE sock[k].answer
  <2>1. /\ k \in Conns /\ Opened(k) /\ sock[k] \in Socket /\ Calling(c)
    BY <1>4, LastConn DEF IInv, ClientOK, Calling, Receive
  <2>2. sock[k].answer = "none" => sock[k].back = 0
    BY <2>1 DEF IInv, ServedOK
  <2>3. r \in Results \ {"none"}
    BY <2>1, <2>2 DEF Results, Socket
  <2>4. /\ r # "nothing" => sock[k].answer # "none"
        /\ r \in {"ok", "cut"} => sock[k].answer = "ok"
        /\ r \in {"invalid", "goodbye"} => sock[k].answer = r
        /\ r # "unreachable" /\ r # "unsent"
    BY <2>1, <2>2 DEF Overlong, Socket
  <2>5. Return(c, r) /\ UNCHANGED <<server, executed>>
    BY <1>4 DEF Receive
  <2> HIDE DEF r, k
  <2> QED BY <2>1, <2>3, <2>4, <2>5, ReturnIInv DEF k
<1> QED BY <1>1, <1>2, <1>3, <1>4 DEF ClientStep

-----------------------------------------------------------------------------
(***************************************************************************)
(* The server's steps                                                      *)
(***************************************************************************)

\* The connection being served was opened and not closed.
LEMMA ServedConn ==
  ASSUME IInv, conn # NoConn
  PROVE  /\ conn \in Conns /\ Opened(conn) /\ sock[conn] \in Socket /\ ~sock[conn].closed
         /\ ~Queued(conn) /\ srv \in {"recv", "handle", "send", "newline"}
<1>1. conn \in Conns /\ srv \in {"recv", "handle", "send", "newline"}
  BY DEF IInv, TypeOK
<1>2. SocketOK(conn) /\ ServedOK(conn) /\ LoopOK
  BY <1>1 DEF IInv
<1> QED BY <1>1, <1>2 DEF SocketOK, ServedOK, LoopOK, Waits, Queued

\* A step of the server that serves connection k changes nothing of the others,
\* takes back no answer, and executes the statement only in answering it.
LEMMA ServeIInv ==
  ASSUME IInv, NEW k \in Conns, k = conn,
         UNCHANGED <<clients, backlog, cause>>,
         NEW s \in Socket, sock' = [sock EXCEPT ![k] = s],
         s.text = sock[k].text, s.sent = sock[k].sent, s.hungup <=> sock[k].hungup,
         sock[k].answer # "none" => s.answer = sock[k].answer,
         executed' = [executed EXCEPT ![k] = IF s.answer = "ok" THEN 1 ELSE 0],
         conn' \in {k, NoConn},
         srv' \in {"accept", "recv", "handle", "send", "newline", "shutdown"},
         conn' = NoConn <=> srv' \in {"accept", "shutdown"},
         running' \in BOOLEAN, running' => running,
         ~running' => srv' \in {"send", "newline", "shutdown"},
         s.closed => conn' = NoConn,
         ServedOK(k)'
  PROVE  IInv'
<1>1. /\ Opened(k) /\ sock[k] \in Socket /\ ~sock[k].closed /\ ~Queued(k) /\ k # NoConn
      /\ srv \in {"recv", "handle", "send", "newline"} /\ Waits(k)
  BY ServedConn, ConnFacts DEF Waits
<1>2. UNCHANGED <<repl, entered, got, backlog, cause>>
  BY DEF clients
<1>3. \A j \in Conns \ {k} : sock'[j] = sock[j] /\ executed'[j] = executed[j]
  BY DEF IInv, TypeOK
<1>4. sock'[k] = s /\ executed'[k] = IF s.answer = "ok" THEN 1 ELSE 0
  BY DEF IInv, TypeOK
<1>5. TypeOK'
  <2>1. sock' \in [Conns -> Socket \cup {NoSocket}]
    BY DEF IInv, TypeOK
  <2>2. executed' \in [Conns -> Nat]
    BY DEF IInv, TypeOK
  <2>3. conn' \in Conns \cup {NoConn}
    OBVIOUS
  <2>4. conn' # NoConn <=> srv' \in {"recv", "handle", "send", "newline"}
    OBVIOUS
  <2> QED BY <1>2, <2>1, <2>2, <2>3, <2>4 DEF IInv, TypeOK
<1>6. ASSUME NEW j \in Conns PROVE SocketOK(j)' /\ ServedOK(j)' /\ ExecutedOK(j)' /\ PastOK(j)'
  <2>1. SocketOK(j) /\ ServedOK(j) /\ ExecutedOK(j) /\ PastOK(j)
    BY DEF IInv
  <2>2. /\ Opened(j)' <=> Opened(j)
        /\ Queued(j)' <=> Queued(j)
        /\ Calling(j[1])' <=> Calling(j[1])
        /\ Past(j)' <=> Past(j)
        /\ Waits(j)' => Waits(j)
    BY <1>2, ConnFacts DEF Opened, Queued, Calling, Past, Waits
  <2>3. CASE j = k
    <3>1. SocketOK(j)' /\ ExecutedOK(j)'
      BY <1>1, <1>2, <1>4, <2>1, <2>2, <2>3 DEF SocketOK, ExecutedOK
    <3>2. PastOK(j)'
      BY <1>1, <1>4, <2>1, <2>2, <2>3 DEF PastOK, ServerGone
    <3> QED BY <2>3, <3>1, <3>2
  <2>4. CASE j # k
    <3>1. sock'[j] = sock[j] /\ executed'[j] = executed[j] /\ j # conn' /\ j # conn
      BY <1>3, <2>4, ConnFacts
    <3>2. SocketOK(j)' /\ ExecutedOK(j)'
      BY <1>2, <2>1, <2>2, <3>1 DEF SocketOK, ExecutedOK
    <3>3. PastOK(j)'
      BY <1>1, <2>1, <2>2, <3>1 DEF PastOK, ServerGone
    <3>4. ServedOK(j)'
      BY <2>1, <2>2, <3>1 DEF ServedOK
    <3> QED BY <3>2, <3>3, <3>4
  <2> QED BY <2>3, <2>4
<1>7. ASSUME NEW c \in Clients PROVE ClientOK(c)'
  <2>1. ClientOK(c) /\ My(c)' = My(c)
    BY <1>2 DEF IInv, My
  <2>2. CASE My(c) = k
    BY <1>1, <1>2, <1>4, <2>1, <2>2 DEF ClientOK, Calling, ServerGone
  <2>3. CASE My(c) # k
    <3>1. entered[c] > 0 => My(c) \in Conns /\ sock'[My(c)] = sock[My(c)]
      BY <1>3, <2>3, LastConn
    <3>2. Waits(My(c))' => Waits(My(c))
      <4>1. My(c) # conn' \/ My(c)[1] = Nobody
        BY <2>3 DEF NoConn
      <4> QED BY <1>2, <2>1, <4>1, ExitAssumption DEF Waits, Queued, My
    <3> QED BY <1>1, <1>2, <2>1, <3>1, <3>2 DEF ClientOK, Calling, ServerGone
  <2> QED BY <2>2, <2>3
<1>8. LoopOK'
  <2>1. \A n \in 1..Len(backlog) : backlog[n] # NoConn
    BY ConnFacts, ElementOfSeq DEF IInv, TypeOK
  <2> QED BY <1>1, <1>2, <2>1 DEF IInv, LoopOK
<1> QED BY <1>5, <1>6, <1>7, <1>8 DEF IInv

\* The process ends, by exit, by a signal or by the operator.
LEMMA DownIInv ==
  ASSUME IInv, NEW why \in {"exit", "interrupt", "SIGPIPE"}, Down(why),
         UNCHANGED <<running, clients, sock, executed>>
  PROVE  IInv'
<1>1. /\ srv' = "down" /\ cause' = why /\ conn' = NoConn /\ backlog' = <<>>
      /\ UNCHANGED <<running, repl, entered, got, sock, executed>>
  BY DEF Down, clients
<1>2. TypeOK'
  BY <1>1, BoundsAssumption, EmptySeq DEF IInv, TypeOK
<1>3. ASSUME NEW k \in Conns PROVE SocketOK(k)' /\ ServedOK(k)' /\ ExecutedOK(k)' /\ PastOK(k)'
  <2>1. SocketOK(k) /\ ServedOK(k) /\ ExecutedOK(k) /\ PastOK(k)
    BY DEF IInv
  <2>2. (Opened(k)' <=> Opened(k)) /\ ~Queued(k)' /\ ~Waits(k)' /\ k # conn'
    BY <1>1, ConnFacts DEF Opened, Queued, Waits
  <2>3. ServerGone(k)'
    BY <1>1 DEF ServerGone
  <2> QED BY <1>1, <2>1, <2>2, <2>3
          DEF SocketOK, ServedOK, ExecutedOK, PastOK, Calling
<1>4. ASSUME NEW c \in Clients PROVE ClientOK(c)'
  <2>1. My(c)' = My(c) /\ ClientOK(c) /\ (ServerGone(My(c)) => ServerGone(My(c))')
    BY <1>1 DEF IInv, My, ServerGone
  <2>2. ~Waits(My(c))'
    <3>1. My(c)[1] = c /\ NoConn[1] = Nobody
      BY DEF My, NoConn
    <3> QED BY <1>1, <2>1, <3>1, ExitAssumption DEF Waits, Queued
  <2> QED BY <1>1, <2>1, <2>2 DEF ClientOK, Calling
<1>5. LoopOK'
  BY <1>1 DEF IInv, LoopOK
<1> QED BY <1>2, <1>3, <1>4, <1>5 DEF IInv

\* accept: the first of the backlog is served next.
LEMMA AcceptIInv ==
  ASSUME IInv, Accept
  PROVE  IInv'
<1>1. /\ srv = "accept" /\ srv' = "recv" /\ conn' = Head(backlog) /\ backlog' = Tail(backlog)
      /\ UNCHANGED <<running, cause, repl, entered, got, sock, executed>>
  BY DEF Accept, clients
<1>2. /\ backlog \in Seq(Conns) /\ Len(backlog) \in Nat /\ Len(backlog) > 0
      /\ Head(backlog) = backlog[1] /\ Head(backlog) \in Conns
      /\ Tail(backlog) \in Seq(Conns) /\ Len(Tail(backlog)) = Len(backlog) - 1
      /\ \A n \in 1..(Len(backlog) - 1) : Tail(backlog)[n] = backlog[n + 1]
      /\ conn = NoConn
  BY HeadTailProperties, LenProperties, EmptySeq DEF Accept, IInv, TypeOK
<1>3. TypeOK'
  BY <1>1, <1>2, BoundsAssumption, ConnFacts DEF IInv, TypeOK
<1>4. \A m, n \in 1..Len(backlog) : backlog[m] = backlog[n] => m = n
  BY DEF IInv, LoopOK
<1>5. /\ \A k : (Queued(k)' => Queued(k)) /\ (k = conn' => Queued(k))
      /\ \A k : Waits(k)' => Waits(k)
  <2>1. ASSUME NEW k, Queued(k)' PROVE Queued(k)
    <3>1. PICK n \in 1..(Len(backlog) - 1) : backlog[n + 1] = k
      BY <1>1, <1>2, <2>1 DEF Queued
    <3>2. n + 1 \in 1..Len(backlog)
      BY <1>2
    <3> QED BY <3>1, <3>2 DEF Queued
  <2>2. ASSUME NEW k, k = conn' PROVE Queued(k)
    BY <1>1, <1>2, <2>2 DEF Queued
  <2> QED BY <2>1, <2>2 DEF Waits
<1>6. ASSUME NEW k \in Conns PROVE SocketOK(k)' /\ ServedOK(k)' /\ ExecutedOK(k)' /\ PastOK(k)'
  <2>1. SocketOK(k) /\ ServedOK(k) /\ ExecutedOK(k) /\ PastOK(k)
    BY DEF IInv
  <2>2. /\ Opened(k)' <=> Opened(k)
        /\ ServerGone(k)' <=> ServerGone(k)
        /\ Calling(k[1])' <=> Calling(k[1])
        /\ Past(k)' <=> Past(k)
    BY <1>1 DEF Opened, ServerGone, Calling, Past
  <2>3. SocketOK(k)' /\ ExecutedOK(k)' /\ PastOK(k)'
    BY <1>1, <1>5, <2>1, <2>2 DEF SocketOK, ExecutedOK, PastOK
  <2>4. ServedOK(k)'
    BY <1>1, <1>5, <2>1, <2>2 DEF ServedOK
  <2> QED BY <2>3, <2>4
<1>7. ASSUME NEW c \in Clients PROVE ClientOK(c)'
  <2>1. My(c)' = My(c) /\ ClientOK(c) /\ (ServerGone(My(c))' <=> ServerGone(My(c)))
    BY <1>1 DEF IInv, My, ServerGone
  <2> QED BY <1>1, <1>5, <2>1 DEF ClientOK, Calling
<1>8. LoopOK'
  <2>1. \A n \in 1..(Len(backlog) - 1) : n + 1 \in 1..Len(backlog) /\ n + 1 # 1
    BY <1>2
  <2> QED BY <1>1, <1>2, <1>4, <2>1 DEF IInv, LoopOK
<1> QED BY <1>3, <1>6, <1>7, <1>8 DEF IInv

LEMMA RecvRequestIInv ==
  ASSUME IInv, RecvRequest
  PROVE  IInv'
<1> DEFINE k == conn
           n == IF sock[k].text \in Brimming THEN 1 ELSE sock[k].sent
           s == [sock[k] EXCEPT !.read = n]
<1>1. /\ k \in Conns /\ Opened(k) /\ sock[k] \in Socket /\ ~sock[k].closed /\ ~Queued(k)
      /\ conn # NoConn
  <2>1. conn # NoConn
    BY DEF IInv, TypeOK, RecvRequest
  <2> QED BY <2>1, ServedConn
<1>2. /\ sock[k].sent > 0 /\ sock[k].read = 0 /\ n \in 1..2 /\ n <= sock[k].sent
      /\ n > 0 => \/ sock[k].text \in Brimming
                  \/ sock[k].sent = 2 \/ sock[k].hungup
  BY <1>1 DEF RecvRequest, Socket
<1>3. /\ s \in Socket /\ s.read = n /\ s.text = sock[k].text /\ s.sent = sock[k].sent
      /\ s.back = sock[k].back /\ s.answer = sock[k].answer
      /\ s.hungup = sock[k].hungup /\ s.closed = sock[k].closed
  BY <1>1, <1>2 DEF Socket
<1>4. sock' = [sock EXCEPT ![k] = s]
  BY <1>1 DEF RecvRequest, IInv, TypeOK
<1>5. ServedOK(k) /\ ExecutedOK(k) /\ sock[k].answer = "none" /\ sock[k].back = 0
  BY <1>1, <1>2 DEF IInv, ServedOK
<1>6. /\ srv = "recv" /\ srv' = "handle" /\ executed' = executed /\ executed[k] = 0
      /\ UNCHANGED <<conn, running, backlog, cause, clients>>
  BY <1>1, <1>5 DEF RecvRequest, ExecutedOK
<1> HIDE DEF s, n
<1>7. executed' = [executed EXCEPT ![k] = IF s.answer = "ok" THEN 1 ELSE 0]
  BY <1>3, <1>5, <1>6 DEF IInv, TypeOK
<1>8. ServedOK(k)'
  <2>1. sock'[k] = s
    BY <1>1, <1>4 DEF IInv, TypeOK
  <2>2. (Opened(k)' <=> Opened(k)) /\ ~Queued(k)'
    BY <1>1, <1>6 DEF Opened, Queued, clients
  <2> QED BY <1>1, <1>2, <1>3, <1>5, <1>6, <2>1, <2>2 DEF ServedOK
<1>9. running' => running
  BY <1>6
<1>10. running' \in BOOLEAN /\ (~running' => FALSE)
  BY <1>6 DEF IInv, TypeOK, LoopOK
<1> QED BY <1>1, <1>3, <1>4, <1>5, <1>6, <1>7, <1>8, <1>9, <1>10, ServeIInv

\* Closing the connection that is served.
LEMMA CloseIInv ==
  ASSUME IInv, conn # NoConn, CloseConn,
         UNCHANGED <<running, backlog, cause, clients, executed>>
  PROVE  IInv'
<1>0. PICK k \in Conns : k = conn
  BY ServedConn
<1> DEFINE s == [sock[k] EXCEPT !.closed = TRUE]
<1>1. /\ Opened(k) /\ sock[k] \in Socket /\ ~sock[k].closed /\ ~Queued(k)
      /\ ServedOK(k) /\ ExecutedOK(k)
  BY <1>0, ServedConn DEF IInv
<1>2. /\ s \in Socket /\ s.read = sock[k].read /\ s.text = sock[k].text
      /\ s.sent = sock[k].sent /\ s.back = sock[k].back /\ s.answer = sock[k].answer
      /\ s.hungup = sock[k].hungup
  BY <1>1 DEF Socket
<1>3. sock' = [sock EXCEPT ![k] = s]
  BY <1>0, <1>1 DEF CloseConn, IInv, TypeOK
<1>4. /\ conn' = NoConn /\ srv' \in {"accept", "shutdown"}
      /\ running => srv' = "accept"
      /\ ~running => srv' = "shutdown"
  BY DEF CloseConn
<1> HIDE DEF s
<1>5. executed' = [executed EXCEPT ![k] = IF s.answer = "ok" THEN 1 ELSE 0]
  BY <1>1, <1>2 DEF ExecutedOK, IInv, TypeOK
<1>6. ServedOK(k)'
  <2>1. sock'[k] = s
    BY <1>1, <1>3 DEF IInv, TypeOK
  <2>2. (Opened(k)' <=> Opened(k)) /\ ~Queued(k)' /\ k # conn'
    BY <1>1, <1>4, ConnFacts DEF Opened, Queued, clients
  <2>3. running' = running
    OBVIOUS
  <2> QED BY <1>1, <1>2, <2>1, <2>2, <2>3 DEF ServedOK, Waits
<1>7. running' \in BOOLEAN
  BY DEF IInv, TypeOK
<1> QED BY <1>0, <1>1, <1>2, <1>3, <1>4, <1>5, <1>6, <1>7, ServeIInv

\* A statement is executed here and nowhere else, and answered at once.
LEMMA HandleIInv ==
  ASSUME IInv, Handle
  PROVE  IInv'
<1>0. conn # NoConn
  BY DEF IInv, TypeOK, Handle
<1>1. PICK k \in Conns : k = conn
  BY <1>0, ServedConn
<1>2. /\ Opened(k) /\ sock[k] \in Socket /\ ~sock[k].closed /\ ~Queued(k)
      /\ ServedOK(k) /\ ExecutedOK(k)
  BY <1>0, <1>1, ServedConn DEF IInv
<1>3. /\ srv = "handle" /\ srv' = "send" /\ sock[k].read > 0 /\ sock[k].answer = "none"
      /\ sock[k].back = 0 /\ executed[k] = 0 /\ running
      /\ UNCHANGED <<conn, backlog, cause, clients>>
  BY <1>1, <1>2 DEF Handle, ServedOK, ExecutedOK, IInv, TypeOK, LoopOK
<1>4. PICK a \in {"ok", "invalid", "goodbye"} :
        /\ sock' = [sock EXCEPT ![k].answer = a]
        /\ a = "goodbye" => sock[k].text = Exit /\ running' = FALSE
        /\ a # "goodbye" => running' = running
        /\ a = "ok" => executed' = [executed EXCEPT ![k] = 1]
        /\ a # "ok" => executed' = executed
  <2>1. CASE sock[k].text = Exit /\ Reply("goodbye") /\ running' = FALSE /\ UNCHANGED executed
    BY <1>1, <2>1 DEF Reply
  <2>2. CASE sock[k].text \in Refused /\ Reply("invalid") /\ UNCHANGED <<running, executed>>
    BY <1>1, <2>2 DEF Reply
  <2>3. CASE /\ sock[k].text \notin Refused \cup {Exit} /\ Reply("ok")
             /\ executed' = [executed EXCEPT ![k] = @ + 1]
             /\ UNCHANGED running
    <3>1. executed' = [executed EXCEPT ![k] = 1]
      BY <1>3, <2>3 DEF IInv, TypeOK
    <3> QED BY <1>1, <2>3, <3>1 DEF Reply
  <2> QED BY <1>1, <2>1, <2>2, <2>3 DEF Handle
<1> DEFINE s == [sock[k] EXCEPT !.answer = a]
<1>5. /\ s \in Socket /\ s.read = sock[k].read /\ s.text = sock[k].text
      /\ s.sent = sock[k].sent /\ s.back = sock[k].back /\ s.answer = a
      /\ s.hungup = sock[k].hungup /\ s.closed = sock[k].closed
  BY <1>2 DEF Socket
<1>6. sock' = [sock EXCEPT ![k] = s]
  BY <1>2, <1>4 DEF IInv, TypeOK
<1> HIDE DEF s
<1>7. executed' = [executed EXCEPT ![k] = IF s.answer = "ok" THEN 1 ELSE 0]
  BY <1>3, <1>4, <1>5 DEF IInv, TypeOK
<1>8. ServedOK(k)'
  <2>1. sock'[k] = s
    BY <1>2, <1>6 DEF IInv, TypeOK
  <2>2. (Opened(k)' <=> Opened(k)) /\ ~Queued(k)'
    BY <1>2, <1>3 DEF Opened, Queued, clients
  <2> QED BY <1>2, <1>3, <1>4, <1>5, <2>1, <2>2 DEF ServedOK
<1>9. running' \in BOOLEAN /\ (running' => running)
  BY <1>3, <1>4 DEF IInv, TypeOK
<1> QED BY <1>0, <1>1, <1>2, <1>3, <1>5, <1>6, <1>7, <1>8, <1>9, ServeIInv

\* A part of the answer goes to the peer, or is lost with it.
LEMMA DeliverIInv ==
  ASSUME IInv, conn # NoConn, NEW n \in 1..2,
         \/ /\ srv = "send" \/ (srv = "newline" /\ running)
            /\ sock' = Deliver(n)
            /\ conn' = conn
            /\ srv' \in {"newline", "recv"} /\ (~running => srv' = "newline")
         \/ /\ srv = "newline" /\ ~running
            /\ sock' = [Deliver(n) EXCEPT ![conn].closed = TRUE]
            /\ conn' = NoConn
            /\ srv' = "shutdown",
         UNCHANGED <<running, backlog, cause, clients, executed>>
  PROVE  IInv'
<1> DEFINE end == srv = "newline" /\ ~running
           back == IF sock[conn].hungup THEN sock[conn].back ELSE n
<1>0. /\ end \in BOOLEAN /\ srv \in {"send", "newline"}
      /\ end => /\ sock' = [Deliver(n) EXCEPT ![conn].closed = TRUE]
                /\ conn' = NoConn /\ srv' = "shutdown"
      /\ ~end => /\ sock' = Deliver(n) /\ conn' = conn /\ srv' \in {"newline", "recv"}
                 /\ ~running => srv' = "newline"
  OBVIOUS
<1>1. PICK k \in Conns : k = conn
  BY ServedConn
<1>2. /\ Opened(k) /\ sock[k] \in Socket /\ ~sock[k].closed /\ ~Queued(k)
      /\ ServedOK(k) /\ ExecutedOK(k) /\ sock[k].answer # "none" /\ running \in BOOLEAN
      /\ back \in 0..2
  BY <1>0, <1>1, ServedConn DEF IInv, TypeOK, ServedOK, Socket
<1> HIDE DEF end
<1> DEFINE s == [sock[k] EXCEPT !.back = back, !.closed = end]
<1>3. /\ s \in Socket /\ s.read = sock[k].read /\ s.text = sock[k].text
      /\ s.sent = sock[k].sent /\ s.answer = sock[k].answer
      /\ s.hungup = sock[k].hungup /\ (s.closed <=> end)
  BY <1>0, <1>2 DEF Socket
<1>4. sock' = [sock EXCEPT ![k] = s]
  <2>1. sock \in [Conns -> Socket \cup {NoSocket}]
    BY DEF IInv, TypeOK
  <2>2. CASE sock[k].hungup
    <3>1. s = [sock[k] EXCEPT !.closed = end]
      BY <1>1, <1>2, <2>2 DEF Socket
    <3>2. CASE end
      BY <1>0, <1>1, <1>2, <2>1, <2>2, <3>1, <3>2 DEF Deliver
    <3>3. CASE ~end
      <4>1. s = sock[k]
        <5>1. end = FALSE /\ sock[k].closed = FALSE
          BY <1>0, <1>2, <3>3 DEF Socket
        <5> QED BY <1>2, <3>1, <5>1 DEF Socket
      <4> QED BY <1>0, <1>1, <2>1, <2>2, <3>3, <4>1 DEF Deliver
    <3> QED BY <3>2, <3>3
  <2>3. CASE ~sock[k].hungup
    <3>1. s = [sock[k] EXCEPT !.back = n, !.closed = end]
      BY <1>1, <2>3
    <3>2. CASE end
      BY <1>0, <1>1, <1>2, <2>1, <2>3, <3>1, <3>2 DEF Deliver
    <3>3. CASE ~end
      <4>1. s = [sock[k] EXCEPT !.back = n]
        <5>1. end = FALSE /\ sock[k].closed = FALSE
          BY <1>0, <1>2, <3>3 DEF Socket
        <5> QED BY <1>2, <3>1, <5>1 DEF Socket
      <4> QED BY <1>0, <1>1, <2>1, <2>3, <3>3, <4>1 DEF Deliver
    <3> QED BY <3>2, <3>3
  <2> QED BY <2>2, <2>3
<1> HIDE DEF s
<1>5. executed' = [executed EXCEPT ![k] = IF s.answer = "ok" THEN 1 ELSE 0]
  BY <1>2, <1>3 DEF ExecutedOK, IInv, TypeOK
<1>6. ServedOK(k)'
  <2>1. sock'[k] = s
    BY <1>2, <1>4 DEF IInv, TypeOK
  <2>2. /\ (Opened(k)' <=> Opened(k)) /\ ~Queued(k)'
        /\ k = conn' => ~end
        /\ conn' = k \/ end
    BY <1>0, <1>1, <1>2, ConnFacts DEF Opened, Queued, clients
  <2>3. srv' \notin {"handle", "send"} /\ running' = running
    BY <1>0
  <2>4. end => ~Waits(k)'
    BY <1>1, <2>2 DEF Waits
  <2> QED BY <1>2, <1>3, <2>1, <2>2, <2>3, <2>4 DEF ServedOK
<1>7. running' \in BOOLEAN /\ (running' => running) /\ (~running' => srv' \in {"send", "newline", "shutdown"})
  BY <1>0, <1>2 DEF end
<1>8. conn' \in {k, NoConn} /\ (s.closed => conn' = NoConn)
      /\ (conn' = NoConn <=> srv' \in {"accept", "shutdown"})
      /\ srv' \in {"accept", "recv", "handle", "send", "newline", "shutdown"}
  BY <1>0, <1>1, <1>3, ConnFacts
<1> QED BY <1>1, <1>2, <1>3, <1>4, <1>5, <1>6, <1>7, <1>8, ServeIInv

LEMMA SendIInv ==
  ASSUME IInv, SendAnswer \/ SendAnswerNewline
  PROVE  IInv'
<1>1. conn # NoConn /\ srv \in {"send", "newline"}
  BY DEF IInv, TypeOK, SendAnswer, SendAnswerNewline
<1>2. CASE SendAnswer
  <2>1. CASE sock' = Deliver(1) /\ srv' = "newline" /\ UNCHANGED conn
    BY <1>1, <1>2, <2>1, DeliverIInv DEF SendAnswer
  <2>2. CASE sock[conn].hungup /\ CloseConn
    BY <1>1, <1>2, <2>2, CloseIInv DEF SendAnswer
  <2> QED BY <1>2, <2>1, <2>2 DEF SendAnswer
<1>3. CASE SendAnswerNewline
  <2>1. CASE /\ running /\ sock' = Deliver(2) /\ srv' = "recv"
             /\ UNCHANGED <<conn, backlog, cause>>
    BY <1>1, <1>3, <2>1, DeliverIInv DEF SendAnswerNewline
  <2>2. CASE /\ ~running /\ sock' = [Deliver(2) EXCEPT ![conn].closed = TRUE]
             /\ conn' = NoConn /\ srv' = "shutdown" /\ UNCHANGED <<backlog, cause>>
    BY <1>1, <1>3, <2>2, DeliverIInv DEF SendAnswerNewline
  <2>3. CASE sock[conn].hungup /\ CloseConn /\ UNCHANGED <<backlog, cause>>
    BY <1>1, <1>3, <2>3, CloseIInv DEF SendAnswerNewline
  <2>4. CASE Reset /\ Down("SIGPIPE") /\ UNCHANGED sock
    BY <1>3, <2>4, DownIInv DEF SendAnswerNewline
  <2> QED BY <1>3, <2>1, <2>2, <2>3, <2>4 DEF SendAnswerNewline
<1> QED BY <1>2, <1>3

-----------------------------------------------------------------------------
LEMMA StepIInv == IInv /\ [Next]_vars => IInv'
<1> SUFFICES ASSUME IInv, [Next]_vars PROVE IInv'
  OBVIOUS
<1>1. CASE RecvEmpty
  <2>1. conn # NoConn
    BY <1>1 DEF IInv, TypeOK, RecvEmpty
  <2> QED BY <1>1, <2>1, CloseIInv DEF RecvEmpty
<1>2. CASE Shutdown \/ Interrupt
  BY <1>2, DownIInv DEF Shutdown, Interrupt
<1>3. CASE ServerStep
  BY <1>1, <1>2, <1>3, AcceptIInv, RecvRequestIInv, HandleIInv, SendIInv DEF ServerStep
<1>4. ASSUME NEW c \in Clients, ClientStep(c) \/ Kill(c) PROVE IInv'
  BY <1>4, ClientStepIInv, DieIInv DEF Kill
<1>5. ASSUME NEW c \in Clients, NEW s \in Statements \cup {Exit}, Enter(c, s) PROVE IInv'
  BY <1>5, EnterIInv
<1>6. CASE UNCHANGED vars
  <2>1. UNCHANGED <<srv, conn, running, backlog, cause, repl, entered, got, sock, executed>>
    BY <1>6 DEF vars, server, clients
  <2>2. TypeOK' /\ LoopOK'
    BY <2>1 DEF IInv, TypeOK, LoopOK
  <2>3. ASSUME NEW k \in Conns PROVE SocketOK(k)' /\ ServedOK(k)' /\ ExecutedOK(k)' /\ PastOK(k)'
    <3>1. SocketOK(k) /\ ServedOK(k) /\ ExecutedOK(k) /\ PastOK(k)
      BY DEF IInv
    <3> QED BY <2>1, <3>1 DEF SocketOK, ServedOK, ExecutedOK, PastOK, Opened, Past,
                              Waits, Queued, Calling, ServerGone
  <2>4. ASSUME NEW c \in Clients PROVE ClientOK(c)'
    BY <2>1 DEF IInv, ClientOK, Calling, My, Waits, Queued, ServerGone
  <2> QED BY <2>2, <2>3, <2>4 DEF IInv
<1> QED BY <1>2, <1>3, <1>4, <1>5, <1>6 DEF Next

LEMMA Invariance == Spec => []IInv
  BY InitIInv, StepIInv, PTL DEF Spec

\* Every variable of the server, its clients and their connections stays in
\* its range, and a connection is served exactly between accept and
\* closesocket, whatever peers die or hang up.
THEOREM TypeCorrect == Spec => []TypeOK
<1>1. IInv => TypeOK
  BY DEF IInv
<1> QED BY <1>1, Invariance, PTL

LEMMA IInvTruth == IInv => ToldTheTruth
<1> SUFFICES ASSUME IInv PROVE ToldTheTruth
  OBVIOUS
<1>1. ASSUME NEW k \in Conns PROVE executed[k] <= 1
  <2>1. ExecutedOK(k)
    BY DEF IInv
  <2> QED BY <2>1 DEF ExecutedOK
<1>2. ASSUME NEW c \in Clients, got[c] # "none"
      PROVE  /\ got[c] \in {"ok", "cut"} => executed[My(c)] = 1
             /\ got[c] \in {"invalid", "goodbye", "unreachable"} => executed[My(c)] = 0
             /\ got[c] = "unsent" => executed[My(c)] = 0 \/ sock[My(c)].text \in Brimming
             /\ got[c] = "goodbye" => sock[My(c)].text = Exit /\ ~running
  <2>1. ClientOK(c)
    BY DEF IInv
  <2>2. My(c) \in Conns /\ Opened(My(c))
    BY <1>2, <2>1, LastConn DEF ClientOK
  <2>3. ExecutedOK(My(c)) /\ ServedOK(My(c))
    BY <2>2 DEF IInv
  <2> QED BY <1>2, <2>1, <2>2, <2>3 DEF ClientOK, ExecutedOK, ServedOK
<1> QED BY <1>1, <1>2 DEF ToldTheTruth

\* A client is never told that a statement was executed or refused when it was
\* not, and no statement is executed twice, for any mix of long, refused and cut
\* messages, dead peers and interruptions.
THEOREM AnswersAreTrue == Spec => []ToldTheTruth
  BY Invariance, IInvTruth, PTL

-----------------------------------------------------------------------------
(***************************************************************************)
(* The server implements Service                                           *)
(***************************************************************************)

\* Calls wait in one queue: the one being served, then the backlog.
LEMMA WaitingFacts ==
  ASSUME IInv
  PROVE  /\ Waiting \in Seq(Conns)
         /\ conn # NoConn => Waiting # <<>> /\ Head(Waiting) = conn /\ Tail(Waiting) = backlog
         /\ conn = NoConn => Waiting = backlog
         /\ \A n \in DOMAIN Waiting : Waits(Waiting[n])
<1>1. backlog \in Seq(Conns) /\ Len(backlog) \in Nat
  BY LenProperties DEF IInv, TypeOK
<1>2. CASE conn = NoConn
  BY <1>1, <1>2 DEF Waiting, Waits, Queued
<1>3. CASE conn # NoConn
  <2>1. conn \in Conns /\ Waiting = <<conn>> \o backlog
    BY <1>3 DEF IInv, TypeOK, Waiting
  <2>2. <<conn>> \in Seq(Conns) /\ Len(<<conn>>) = 1 /\ <<conn>>[1] = conn
    BY <2>1
  <2>3. /\ Waiting \in Seq(Conns) /\ Len(Waiting) = Len(backlog) + 1
        /\ \A n \in 1..(Len(backlog) + 1) :
             Waiting[n] = IF n = 1 THEN conn ELSE backlog[n - 1]
    BY <1>1, <2>1, <2>2, ConcatProperties
  <2>4. /\ Waiting # <<>> /\ Head(Waiting) = conn
        /\ Tail(Waiting) \in Seq(Conns) /\ Len(Tail(Waiting)) = Len(backlog)
        /\ \A n \in 1..Len(backlog) : Tail(Waiting)[n] = backlog[n]
    BY <1>1, <2>3, HeadTailProperties, EmptySeq
  <2>5. Tail(Waiting) = backlog
    BY <1>1, <2>4, SeqEqual
  <2>6. \A n \in DOMAIN Waiting : Waits(Waiting[n])
    <3>1. ASSUME NEW n \in 1..(Len(backlog) + 1) PROVE Waits(Waiting[n])
      <4>1. n = 1 \/ n - 1 \in 1..Len(backlog)
        BY <1>1
      <4> QED BY <1>1, <2>3, <4>1 DEF Waits, Queued
    <3> QED BY <1>1, <2>3, <3>1
  <2> QED BY <1>3, <2>3, <2>4, <2>5, <2>6
<1> QED BY <1>2, <1>3

\* Service's queue, its stop and its counters stand still while these do.
LEMMA ViewUnchanged ==
  /\ UNCHANGED <<conn, backlog>> => Waiting' = Waiting
  /\ UNCHANGED repl => Phase' = Phase
  /\ UNCHANGED got => Answer' = Answer
  BY DEF Waiting, Phase, Answer

\* Service is told to stop exactly when the accept loop is.
StopsWithLoop == Stopped \in BOOLEAN /\ (Stopped <=> ~running \/ srv = "down")

LEMMA StoppedFacts == IInv => StopsWithLoop
<1> SUFFICES ASSUME IInv PROVE StopsWithLoop
  OBVIOUS
<1>1. ASSUME NEW k \in Conns, sock[k] # NoSocket, sock[k].answer = "goodbye" PROVE ~running
  <2>1. SocketOK(k) /\ ServedOK(k)
    BY DEF IInv
  <2> QED BY <1>1, <2>1 DEF SocketOK, ServedOK
<1> QED BY <1>1 DEF Stopped, StopsWithLoop

LEMMA InitRefines == Init => Promise!Init
<1> SUFFICES ASSUME Init PROVE Promise!Init
  OBVIOUS
<1>1. Phase = [c \in Clients |-> "ready"]
  BY DEF Init, Phase
<1>2. Answer = [c \in Clients |-> "none"]
  BY DEF Init, Answer, Told
<1>3. Waiting = <<>>
  BY DEF Init, Waiting
<1>4. Stopped = FALSE
  BY DEF Init, Stopped
<1> QED BY <1>1, <1>2, <1>3, <1>4 DEF Init, Promise!Init

LEMMA StoppedUnchanged ==
  ASSUME IInv, IInv', (~running \/ srv = "down")' <=> (~running \/ srv = "down")
  PROVE  Stopped' = Stopped
<1>1. StopsWithLoop'
  BY StoppedFacts, PTL
<1> QED BY <1>1, StoppedFacts DEF StopsWithLoop

\* Nothing is executed, nobody arrives and the server goes on.
Still == UNCHANGED <<executed, Waiting, Stopped>>

\* The client's view of its own steps.
LEMMA ReturnRefines ==
  ASSUME IInv, IInv', NEW c \in Clients, Calling(c), Still,
         NEW r \in Results \ {"none"}, Return(c, r)
  PROVE  Promise!Next
<1> DEFINE next == IF sock[My(c)].text = Exit \/ r = "nothing" THEN "gone" ELSE "prompt"
           ready == IF next = "gone" THEN "gone" ELSE "ready"
<1>1. /\ repl' = [repl EXCEPT ![c] = next] /\ got' = [got EXCEPT ![c] = r]
      /\ entered' = entered /\ next \in {"prompt", "gone"}
  BY DEF Return
<1>2. Phase[c] = "calling" /\ Phase' = [Phase EXCEPT ![c] = ready] /\ ready \in {"ready", "gone"}
  BY <1>1 DEF Phase, Calling, IInv, TypeOK
<1>3. Answer' = [Answer EXCEPT ![c] = Told(r)] /\ Told(r) \in Promise!Answers
  <2>1. Told(r) \in Promise!Answers
    BY DEF Told, Promise!Answers, Results
  <2>2. \A d \in Clients : got'[d] = IF d = c THEN r ELSE got[d]
    BY <1>1 DEF IInv, TypeOK
  <2> HIDE DEF next
  <2> QED BY <2>1, <2>2 DEF Answer
<1>4. /\ Told(r) = "executed" => executed[My(c)] = 1
      /\ Told(r) = "refused" => executed[My(c)] = 0
  <2>1. ToldTheTruth'
    BY IInvTruth, PTL
  <2>2. got'[c] = r /\ My(c)' = My(c) /\ executed' = executed
    BY <1>1 DEF My, Still, IInv, TypeOK
  <2> QED BY <2>1, <2>2 DEF ToldTheTruth, Told, Results
<1>5. Promise!Return(c, ready)
  BY <1>1, <1>2, <1>3, <1>4 DEF Still, Promise!Return, Promise!Current, My
<1> QED BY <1>2, <1>5 DEF Promise!Next

LEMMA DieRefines ==
  ASSUME IInv, NEW c \in Clients, Die(c), Still
  PROVE  Promise!Next
<1>1. repl' = [repl EXCEPT ![c] = "gone"] /\ UNCHANGED <<entered, got>>
  BY DEF Die
<1>2. Phase' = [Phase EXCEPT ![c] = "gone"]
  BY <1>1 DEF Phase, IInv, TypeOK
<1>3. Answer' = Answer
  BY <1>1, ViewUnchanged
<1>4. Promise!Die(c)
  BY <1>1, <1>2, <1>3 DEF Still, Promise!Die
<1> QED BY <1>4 DEF Promise!Next

\* A step that Service does not see.
LEMMA StutterRefines ==
  ASSUME UNCHANGED <<Phase, entered, got>>, Still
  PROVE  UNCHANGED Promise!vars
  BY ViewUnchanged DEF Still, Promise!vars

LEMMA EnterRefines ==
  ASSUME IInv, IInv', NEW c \in Clients, NEW s \in Statements \cup {Exit}, Enter(c, s)
  PROVE  Promise!Next
<1>1. /\ repl[c] = "prompt" /\ repl' = [repl EXCEPT ![c] = "connect"]
      /\ entered' = [entered EXCEPT ![c] = @ + 1] /\ got' = [got EXCEPT ![c] = "none"]
      /\ UNCHANGED <<srv, conn, running, backlog, executed>>
  BY DEF Enter, server
<1>2. Phase[c] = "ready" /\ Phase' = [Phase EXCEPT ![c] = "calling"]
  BY <1>1 DEF Phase, IInv, TypeOK
<1>3. Answer' = [Answer EXCEPT ![c] = "none"]
  <2>1. \A d \in Clients : got'[d] = IF d = c THEN "none" ELSE got[d]
    BY <1>1 DEF IInv, TypeOK
  <2>2. Told("none") = "none"
    BY DEF Told
  <2> QED BY <2>1, <2>2 DEF Answer
<1>4. Promise!Current(c)' \in Conns
  <2>1. entered'[c] > 0
    BY <1>1 DEF IInv, TypeOK
  <2>2. \A d \in Clients : entered'[d] > 0 => <<d, entered'[d]>> \in Conns
    BY BoundsAssumption, ConnFacts DEF IInv, TypeOK
  <2> QED BY <2>1, <2>2 DEF Promise!Current
<1>5. Waiting' = Waiting
  BY <1>1, ViewUnchanged
<1>6. Stopped' = Stopped
  BY <1>1, StoppedUnchanged
<1>7. Promise!Call(c)
  BY <1>1, <1>2, <1>3, <1>4, <1>5, <1>6 DEF Promise!Call
<1> QED BY <1>7 DEF Promise!Next

LEMMA ConnectRefines ==
  ASSUME IInv, IInv', NEW c \in Clients, Connect(c)
  PROVE  Promise!Next
<1>1. /\ My(c) \in Conns /\ Opened(My(c)) /\ sock[My(c)] \in Socket /\ Calling(c)
      /\ ~Waits(My(c)) /\ executed[My(c)] = 0
  <2>1. Calling(c) /\ ClientOK(c)
    BY DEF IInv, Calling, Connect
  <2>2. My(c) \in Conns /\ Opened(My(c)) /\ sock[My(c)] \in Socket
    BY <2>1, LastConn DEF ClientOK
  <2>3. ExecutedOK(My(c)) /\ ServedOK(My(c))
    BY <2>2 DEF IInv
  <2> QED BY <2>1, <2>2, <2>3 DEF Connect, ClientOK, ExecutedOK, ServedOK, Socket
<1>2. CASE srv = "down" /\ Return(c, "unreachable") /\ UNCHANGED backlog
  <2>1. UNCHANGED <<srv, conn, running, backlog, executed>>
    BY <1>2 DEF Connect
  <2>2. Still
    BY <2>1, ViewUnchanged, StoppedUnchanged DEF Still
  <2> QED BY <1>1, <1>2, <2>2, ReturnRefines DEF Results
<1>3. CASE /\ srv # "down" /\ Len(backlog) < Backlog
           /\ backlog' = Append(backlog, My(c))
           /\ repl' = [repl EXCEPT ![c] = "body"]
           /\ UNCHANGED <<entered, got, sock>>
  <2>1. UNCHANGED <<srv, conn, running, executed, entered, got>>
    BY <1>3 DEF Connect
  <2>2. Phase' = Phase /\ Phase[c] = "calling"
    BY <1>1, <1>3 DEF Phase, Calling, Connect, IInv, TypeOK
  <2>3. Stopped' = Stopped /\ Answer' = Answer
    BY <2>1, StoppedUnchanged, ViewUnchanged
  <2>4. Waiting' = Append(Waiting, My(c))
    <3>1. backlog \in Seq(Conns)
      BY DEF IInv, TypeOK
    <3>2. CASE conn = NoConn
      BY <1>3, <2>1, <3>2 DEF Waiting
    <3>3. CASE conn # NoConn
      <4>1. /\ conn \in Conns /\ Waiting = <<conn>> \o backlog
            /\ Waiting' = <<conn>> \o Append(backlog, My(c))
        BY <1>3, <2>1, <3>3 DEF Waiting, IInv, TypeOK
      <4>2. <<conn>> \o Append(backlog, My(c)) = Append(<<conn>> \o backlog, My(c))
        BY <1>1, <3>1, <4>1
      <4> QED BY <4>1, <4>2
    <3> QED BY <3>2, <3>3
  <2>5. \A n \in DOMAIN Waiting : Waiting[n] # My(c)
    BY <1>1, WaitingFacts
  <2>6. Promise!Current(c) = My(c)
    BY DEF Promise!Current, My
  <2>7. Promise!Arrive(c)
    BY <1>1, <2>1, <2>2, <2>3, <2>4, <2>5, <2>6 DEF Promise!Arrive
  <2> QED BY <2>7 DEF Promise!Next
<1> QED BY <1>2, <1>3 DEF Connect

LEMMA ClientStepRefines ==
  ASSUME IInv, IInv', NEW c \in Clients, ClientStep(c) \/ Kill(c)
  PROVE  Promise!Next \/ UNCHANGED Promise!vars
<1>1. CASE Connect(c)
  BY <1>1, ConnectRefines
<1>2. CASE SendBody(c) \/ SendNewline(c) \/ Receive(c) \/ Kill(c)
  <2>1. UNCHANGED <<srv, conn, running, backlog, executed>>
    BY <1>2 DEF SendBody, SendNewline, Receive, Kill, server
  <2>2. Still
    BY <2>1, ViewUnchanged, StoppedUnchanged DEF Still
  <2>3. CASE Die(c)
    BY <2>2, <2>3, DieRefines
  <2>4. ASSUME NEW r \in Results \ {"none"}, Return(c, r), Calling(c)
        PROVE  Promise!Next
    BY <2>2, <2>4, ReturnRefines
  <2>5. ASSUME NEW n, NEW next \in {"newline", "receive"}, Write(c, n, next), Calling(c)
        PROVE  Promise!Next \/ UNCHANGED Promise!vars
    <3>1. CASE /\ repl' = [repl EXCEPT ![c] = next]
               /\ UNCHANGED <<entered, got>>
      <4>1. Phase' = Phase
        BY <2>5, <3>1 DEF Phase, Calling, IInv, TypeOK
      <4> QED BY <2>2, <3>1, <4>1, StutterRefines
    <3>2. CASE Return(c, IF sock[My(c)].text = Exit THEN "nothing" ELSE "unsent")
      BY <2>4, <2>5, <3>2 DEF Results
    <3> QED BY <2>5, <3>1, <3>2 DEF Write
  <2>6. CASE SendBody(c) \/ SendNewline(c)
    <3>1. Calling(c)
      BY <2>6 DEF SendBody, SendNewline, Calling
    <3> QED BY <2>3, <2>5, <2>6, <3>1 DEF SendBody, SendNewline
  <2>7. CASE Receive(c)
    <3> DEFINE k == My(c)
               r == IF sock[k].back = 0 THEN "nothing"
                    ELSE IF Overlong(k) THEN "cut" ELSE sock[k].answer
    <3>1. Calling(c) /\ ClientOK(c)
      BY <2>7 DEF IInv, Receive, Calling
    <3>2. k \in Conns /\ Opened(k) /\ sock[k] \in Socket
      BY <3>1, LastConn DEF ClientOK
    <3>3. ServedOK(k)
      BY <3>2 DEF IInv
    <3>4. r \in Results \ {"none"}
      BY <3>2, <3>3 DEF ServedOK, Results, Socket
    <3>5. Return(c, r)
      BY <2>7 DEF Receive
    <3> HIDE DEF r
    <3> QED BY <2>4, <3>1, <3>4, <3>5
  <2> QED BY <1>2, <2>3, <2>6, <2>7 DEF Kill
<1> QED BY <1>1, <1>2 DEF ClientStep

\* Service's Finish: the first call leaves the queue.
LEMMA FinishRefines ==
  ASSUME IInv, IInv', conn # NoConn, conn' = NoConn,
         UNCHANGED <<running, backlog, clients, executed>>, srv # "down", srv' # "down"
  PROVE  Promise!Next
<1>1. UNCHANGED <<repl, entered, got>>
  BY DEF clients
<1>2. Waiting # <<>> /\ Waiting' = Tail(Waiting)
  <2>1. Waiting # <<>> /\ Tail(Waiting) = backlog
    BY WaitingFacts
  <2> QED BY <2>1 DEF Waiting
<1>3. Stopped' = Stopped
  BY StoppedUnchanged
<1>4. Promise!Finish
  BY <1>1, <1>2, <1>3, ViewUnchanged DEF Promise!Finish
<1> QED BY <1>4 DEF Promise!Next

\* Service's Stop: the process is down and nobody waits any more.
LEMMA DownRefines ==
  ASSUME IInv, IInv', NEW why, Down(why), UNCHANGED <<running, clients, sock, executed>>
  PROVE  Promise!Next
<1>1. UNCHANGED <<repl, entered, got>> /\ conn' = NoConn /\ backlog' = <<>> /\ srv' = "down"
  BY DEF clients, Down
<1>2. Waiting' = <<>>
  BY <1>1 DEF Waiting
<1>3. Stopped' = TRUE
  <2>1. StopsWithLoop'
    BY StoppedFacts, PTL
  <2> QED BY <1>1, <2>1 DEF StopsWithLoop
<1>4. Promise!Stop
  BY <1>1, <1>2, <1>3, ViewUnchanged DEF Promise!Stop
<1> QED BY <1>4 DEF Promise!Next

\* Service's Execute: the statement's caller is waiting for it, or died so.
LEMMA HandleRefines ==
  ASSUME IInv, IInv', Handle
  PROVE  Promise!Next \/ UNCHANGED Promise!vars
<1>1. PICK k \in Conns : k = conn
  BY ServedConn DEF IInv, TypeOK, Handle
<1>2. /\ conn # NoConn /\ Opened(k) /\ ~sock[k].closed /\ sock[k].answer = "none"
      /\ executed[k] = 0 /\ srv = "handle" /\ running
  <2>1. conn # NoConn /\ ServedOK(k) /\ ExecutedOK(k) /\ LoopOK
    BY <1>1, ConnFacts DEF IInv
  <2> QED BY <1>1, <2>1, ServedConn DEF ServedOK, ExecutedOK, LoopOK, Handle
<1>3. UNCHANGED <<conn, backlog, repl, entered, got>> /\ srv' = "send"
  BY DEF Handle, clients
<1>4. Phase' = Phase /\ Answer' = Answer /\ Waiting' = Waiting
  BY <1>3, ViewUnchanged
<1>5. CASE sock[k].text = Exit /\ running' = FALSE /\ UNCHANGED executed
  <2>1. Stopped' = TRUE
    <3>1. StopsWithLoop'
      BY StoppedFacts, PTL
    <3> QED BY <1>5, <3>1 DEF StopsWithLoop
  <2>2. Promise!Stop
    BY <1>3, <1>4, <1>5, <2>1 DEF Promise!Stop
  <2> QED BY <2>2 DEF Promise!Next
<1>6. CASE UNCHANGED <<running, executed>>
  <2>1. Stopped' = Stopped
    BY <1>2, <1>3, <1>6, StoppedUnchanged
  <2> QED BY <1>3, <1>4, <1>6, <2>1, StutterRefines DEF Still
<1>7. CASE executed' = [executed EXCEPT ![k] = @ + 1] /\ UNCHANGED running
  <2>1. Stopped' = Stopped /\ Stopped = FALSE
    <3>1. Stopped' = Stopped
      BY <1>2, <1>3, <1>7, StoppedUnchanged
    <3> QED BY <1>2, <3>1, StoppedFacts DEF StopsWithLoop
  <2>2. Waiting # <<>> /\ Head(Waiting) = k
    BY <1>1, <1>2, WaitingFacts
  <2>3. executed' = [executed EXCEPT ![k] = 1]
    BY <1>2, <1>7 DEF IInv, TypeOK
  <2>4. ~Past(k)
    BY <1>2 DEF IInv, PastOK, ServerGone
  <2>5. k[1] \in Clients /\ k = <<k[1], k[2]>> /\ k[2] \in Nat /\ entered[k[1]] \in Nat
    BY ConnFacts DEF IInv, TypeOK
  <2>6. k = Promise!Current(k[1])
    BY <1>2, <2>4, <2>5 DEF Past, Opened, Promise!Current
  <2>7. Phase[k[1]] # "ready"
    BY <2>4, <2>5 DEF Past, Phase
  <2>8. Promise!Execute
    BY <1>2, <1>3, <1>4, <2>1, <2>2, <2>3, <2>6, <2>7 DEF Promise!Execute
  <2> QED BY <2>8 DEF Promise!Next
<1> QED BY <1>1, <1>5, <1>6, <1>7 DEF Handle

LEMMA ServerStepRefines ==
  ASSUME IInv, IInv', ServerStep \/ Interrupt
  PROVE  Promise!Next \/ UNCHANGED Promise!vars
<1>1. CASE Accept
  <2>1. /\ srv = "accept" /\ srv' = "recv" /\ conn' = Head(backlog) /\ backlog' = Tail(backlog)
        /\ backlog # <<>>
        /\ UNCHANGED <<running, repl, entered, got, executed>>
    BY <1>1 DEF Accept, clients
  <2>2. conn = NoConn /\ conn' # NoConn
    BY <2>1 DEF IInv, TypeOK
  <2>3. Waiting' = Waiting
    <3>1. backlog \in Seq(Conns)
      BY DEF IInv, TypeOK
    <3>2. <<Head(backlog)>> \o Tail(backlog) = backlog
      BY <2>1, <3>1
    <3> QED BY <2>1, <2>2, <3>2 DEF Waiting
  <2>4. Stopped' = Stopped
    BY <2>1, StoppedUnchanged
  <2> QED BY <2>1, <2>3, <2>4, ViewUnchanged, StutterRefines DEF Still
<1>2. CASE RecvRequest
  <2>1. /\ srv = "recv" /\ srv' = "handle"
        /\ UNCHANGED <<conn, backlog, running, repl, entered, got, executed>>
    BY <1>2 DEF RecvRequest, clients
  <2>2. Stopped' = Stopped
    BY <2>1, StoppedUnchanged
  <2> QED BY <2>1, <2>2, ViewUnchanged, StutterRefines DEF Still
<1>3. CASE conn # NoConn /\ CloseConn /\ UNCHANGED <<running, backlog, clients, executed>>
  <2>1. conn' = NoConn /\ srv # "down" /\ srv' # "down"
    BY <1>3 DEF CloseConn, IInv, TypeOK
  <2> QED BY <1>3, <2>1, FinishRefines
<1>4. CASE RecvEmpty
  BY <1>3, <1>4 DEF RecvEmpty, IInv, TypeOK
<1>5. CASE SendAnswer \/ SendAnswerNewline
  <2>1. /\ conn # NoConn /\ srv \in {"send", "newline"}
        /\ UNCHANGED <<running, clients, executed>>
    BY <1>5 DEF SendAnswer, SendAnswerNewline, IInv, TypeOK
  <2>2. CASE srv' \in {"newline", "recv"} /\ UNCHANGED <<conn, backlog>>
    <3>1. Stopped' = Stopped
      BY <2>1, <2>2, StoppedUnchanged
    <3> QED BY <2>1, <2>2, <3>1, ViewUnchanged, StutterRefines DEF Still, clients
  <2>3. CASE srv' = "shutdown" /\ conn' = NoConn /\ UNCHANGED backlog
    BY <2>1, <2>3, FinishRefines
  <2>4. CASE Down("SIGPIPE") /\ UNCHANGED sock
    BY <2>1, <2>4, DownRefines
  <2> QED BY <1>3, <1>5, <2>1, <2>2, <2>3, <2>4 DEF SendAnswer, SendAnswerNewline
<1>6. CASE Shutdown \/ Interrupt
  BY <1>6, DownRefines DEF Shutdown, Interrupt
<1> QED BY <1>1, <1>2, <1>4, <1>5, <1>6, HandleRefines DEF ServerStep

LEMMA StepRefines ==
  IInv /\ IInv' /\ [Next]_vars => [Promise!Next]_Promise!vars
<1> SUFFICES ASSUME IInv, IInv', [Next]_vars PROVE Promise!Next \/ UNCHANGED Promise!vars
  OBVIOUS
<1>1. CASE ServerStep \/ Interrupt
  BY <1>1, ServerStepRefines
<1>2. ASSUME NEW c \in Clients, ClientStep(c) \/ Kill(c)
      PROVE  Promise!Next \/ UNCHANGED Promise!vars
  BY <1>2, ClientStepRefines
<1>3. ASSUME NEW c \in Clients, NEW s \in Statements \cup {Exit}, Enter(c, s)
      PROVE  Promise!Next
  BY <1>3, EnterRefines
<1>4. CASE UNCHANGED vars
  <2>1. UNCHANGED <<srv, conn, running, backlog, repl, entered, got, executed>>
    BY <1>4 DEF vars, server, clients
  <2>2. Stopped' = Stopped
    BY <2>1, StoppedUnchanged
  <2> QED BY <2>1, <2>2, ViewUnchanged, StutterRefines DEF Still
<1> QED BY <1>1, <1>2, <1>3, <1>4 DEF Next

\* The server with its sockets, buffers and lost peers does what Service says:
\* one call at a time, in the order of arrival, each executed at most once,
\* only while its caller waits for it or after it died, and never after exit.
THEOREM Refinement == Spec => KeepsPromise
  BY InitRefines, StepRefines, Invariance, PTL DEF Spec, KeepsPromise, Promise!Spec
=============================================================================
