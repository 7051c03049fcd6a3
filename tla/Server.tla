------------------------------- MODULE Server -------------------------------
(***************************************************************************)
(* network/server.cpp, network/client.cpp and the REPL of                  *)
(* cli/client_main.cpp: one server thread that serves one connection at a  *)
(* time, and clients that open a connection for every statement.  A        *)
(* message and its newline are two writes, and either peer may be gone     *)
(* between them.                                                           *)
(*                                                                         *)
(* What a statement does is left to Dml and Catalog: here it is executed   *)
(* or not.  Sockets are external: a write to a peer that closed may still  *)
(* succeed, may fail, or, once the peer has answered an earlier write with *)
(* a reset, may raise SIGPIPE, which neither program handles.              *)
(***************************************************************************)
EXTENDS Integers, Sequences

CONSTANTS
  Clients,     \* the REPLs
  Nobody,      \* no client
  Statements,  \* what their users type
  Brimming,    \* the statements whose request fills MAX_MSG - 1 or more
  Refused,     \* the statements that are not executed: the closing quote of
               \* the request is beyond the buffer, or the parser refuses them
  LongAnswer,  \* the statements whose answer exceeds MAX_MSG - 1
  Exit,        \* the exit command
  Backlog,     \* how many connections wait to be accepted
  MaxEntered   \* bound: per client, the statements typed into its REPL

ASSUME StatementsAssumption == Brimming \cup Refused \cup LongAnswer \subseteq Statements
ASSUME ExitAssumption       == Exit \notin Statements /\ Nobody \notin Clients
ASSUME BoundsAssumption     == Backlog \in Nat \ {0} /\ MaxEntered \in [Clients -> Nat]

VARIABLES
  \* the server
  srv,       \* "accept", "recv", "handle", "send", "newline", "shutdown", "down"
  conn,      \* client_sock: the connection being served
  running,   \* the flag of the accept loop
  backlog,   \* connections the kernel has completed and accept has not returned
  cause,     \* history: why the server is down
  \* the clients
  repl,      \* per client: "prompt", "connect", "body", "newline", "receive", "gone"
  entered,   \* per client: how many statements it was given
  got,       \* per client: what its last call returned
  \* the connections
  sock,      \* per connection: its two streams
  executed   \* history: how often the executor ran the connection's statement

server  == <<srv, conn, running, backlog, cause>>
clients == <<repl, entered, got>>
vars    == <<server, clients, sock, executed>>

\* A client's n-th call opens its n-th connection.
Conns   == UNION {{c} \X (1..MaxEntered[c]) : c \in Clients}
NoConn  == <<Nobody, 0>>
My(c)   == <<c, entered[c]>>

\* sent and back count the two writes of each side, read the ones the server
\* has consumed.
Socket == [text : Statements \cup {Exit}, sent : 0..2, read : 0..2, back : 0..2,
           answer : {"none", "ok", "invalid", "goodbye"},
           hungup : BOOLEAN, closed : BOOLEAN]
NoSocket == [text |-> Nobody]

NewSocket(s) == [text |-> s, sent |-> 0, read |-> 0, back |-> 0,
                 answer |-> "none", hungup |-> FALSE, closed |-> FALSE]

Init ==
  /\ srv = "accept" /\ conn = NoConn /\ running = TRUE
  /\ backlog = <<>> /\ cause = "none"
  /\ repl = [c \in Clients |-> "prompt"]
  /\ entered = [c \in Clients |-> 0]
  /\ got = [c \in Clients |-> "none"]
  /\ sock = [k \in Conns |-> NoSocket]
  /\ executed = [k \in Conns |-> 0]

-----------------------------------------------------------------------------
(***************************************************************************)
(* The client                                                              *)
(***************************************************************************)

\* The server's end of a connection is closed, by it or with its process.
ServerGone(k) == srv = "down" \/ sock[k].closed

\* The user types a line at the prompt.
Enter(c, s) ==
  /\ repl[c] = "prompt" /\ entered[c] < MaxEntered[c]
  /\ repl' = [repl EXCEPT ![c] = "connect"]
  /\ entered' = [entered EXCEPT ![c] = @ + 1]
  /\ got' = [got EXCEPT ![c] = "none"]
  /\ sock' = [sock EXCEPT ![<<c, entered[c] + 1>>] = NewSocket(s)]
  /\ UNCHANGED <<server, executed>>

\* The call is over.  After exit and after an empty response the REPL ends.
Return(c, r) ==
  /\ got' = [got EXCEPT ![c] = r]
  /\ repl' = [repl EXCEPT ![c] =
                IF sock[My(c)].text = Exit \/ r = "nothing" THEN "gone" ELSE "prompt"]
  /\ sock' = [sock EXCEPT ![My(c)].hungup = TRUE]
  /\ UNCHANGED entered

\* SIGPIPE, or the user's Ctrl-C: the kernel closes the socket.
Die(c) ==
  /\ repl' = [repl EXCEPT ![c] = "gone"]
  /\ sock' = IF entered[c] > 0 THEN [sock EXCEPT ![My(c)].hungup = TRUE] ELSE sock
  /\ UNCHANGED <<entered, got>>

\* connect: refused when nobody listens, waits while the backlog is full.
Connect(c) ==
  /\ repl[c] = "connect"
  /\ \/ /\ srv # "down" /\ Len(backlog) < Backlog
        /\ backlog' = Append(backlog, My(c))
        /\ repl' = [repl EXCEPT ![c] = "body"]
        /\ UNCHANGED <<entered, got, sock>>
     \/ srv = "down" /\ Return(c, "unreachable") /\ UNCHANGED backlog
  /\ UNCHANGED <<srv, conn, running, cause, executed>>

\* One write of send_line.  send_exit ignores its failure and goes on to
\* recv_line, which finds nothing.
Write(c, n, next) ==
  \/ /\ sock' = [sock EXCEPT ![My(c)].sent = n]
     /\ repl' = [repl EXCEPT ![c] = next]
     /\ UNCHANGED <<entered, got>>
  \/ /\ ServerGone(My(c))
     /\ Return(c, IF sock[My(c)].text = Exit THEN "nothing" ELSE "unsent")

SendBody(c) ==
  /\ repl[c] = "body"
  /\ Write(c, 1, "newline")
  /\ UNCHANGED <<server, executed>>

SendNewline(c) ==
  /\ repl[c] = "newline"
  /\ Write(c, 2, "receive") \/ (ServerGone(My(c)) /\ Die(c))
  /\ UNCHANGED <<server, executed>>

\* The answer does not fit the client's buffer.
Overlong(k) == sock[k].text \in LongAnswer /\ sock[k].answer = "ok"

\* Mistake: the client does not wait for the answer.
ReceiveAtOnce(c) ==
  /\ repl[c] = "receive"
  /\ LET k == My(c)
     IN  Return(c, IF sock[k].back = 0 THEN "unsent"
                   ELSE IF Overlong(k) THEN "cut" ELSE sock[k].answer)
  /\ UNCHANGED <<server, executed>>

\* recv_line returns at the newline, at the end of the stream, or with its
\* buffer full.
Receive(c) ==
  /\ repl[c] = "receive"
  /\ LET k == My(c)
     IN  /\ sock[k].back = 2 \/ ServerGone(k) \/ (sock[k].back = 1 /\ Overlong(k))
         /\ Return(c, IF sock[k].back = 0 THEN "nothing"
                      ELSE IF Overlong(k) THEN "cut" ELSE sock[k].answer)
  /\ UNCHANGED <<server, executed>>

\* The client's process is killed.
Kill(c) ==
  /\ repl[c] # "gone"
  /\ Die(c)
  /\ UNCHANGED <<server, executed>>

ClientStep(c) == Connect(c) \/ SendBody(c) \/ SendNewline(c) \/ Receive(c)

-----------------------------------------------------------------------------
(***************************************************************************)
(* The server                                                              *)
(***************************************************************************)
Accept ==
  /\ srv = "accept" /\ backlog # <<>>
  /\ conn' = Head(backlog) /\ backlog' = Tail(backlog)
  /\ srv' = "recv"
  /\ UNCHANGED <<running, cause, clients, sock, executed>>

\* Mistake: the closed socket is kept as the one being served.
CloseConnKeepsSocket ==
  /\ sock' = [sock EXCEPT ![conn].closed = TRUE]
  /\ UNCHANGED conn
  /\ srv' = IF running THEN "accept" ELSE "shutdown"

\* closesocket(client_sock), and the next round of the accept loop.
CloseConn ==
  /\ sock' = [sock EXCEPT ![conn].closed = TRUE]
  /\ conn' = NoConn
  /\ srv' = IF running THEN "accept" ELSE "shutdown"

\* Mistake: what a request left in the stream is taken for the next one.
RecvRest ==
  /\ srv = "recv"
  /\ \/ /\ sock[conn].text \in Brimming
        /\ sock[conn].sent > sock[conn].read
        /\ sock' = [sock EXCEPT ![conn].read = @ + 1]
     \/ /\ sock[conn].text \notin Brimming
        /\ sock[conn].sent = 2 \/ sock[conn].hungup
        /\ sock[conn].sent > sock[conn].read
        /\ sock' = [sock EXCEPT ![conn].read = sock[conn].sent]
  /\ srv' = "handle"
  /\ UNCHANGED <<conn, running, backlog, cause, clients, executed>>

\* recv_line has a request: a whole line, the part of one before the end of
\* the stream, or a full buffer, which leaves the newline unread.
RecvRequest ==
  /\ srv = "recv"
  /\ sock[conn].sent > 0 /\ sock[conn].read = 0
  /\ \/ /\ sock[conn].text \in Brimming
        /\ sock' = [sock EXCEPT ![conn].read = 1]
     \/ /\ sock[conn].text \notin Brimming
        /\ sock[conn].sent = 2 \/ sock[conn].hungup
        /\ sock' = [sock EXCEPT ![conn].read = sock[conn].sent]
  /\ srv' = "handle"
  /\ UNCHANGED <<conn, running, backlog, cause, clients, executed>>

\* The next recv_line returns an empty string.
EmptyLine ==
  \/ sock[conn].sent = sock[conn].read /\ sock[conn].hungup
  \/ sock[conn].sent = 2 /\ sock[conn].read = 1

\* Mistake: only the left-over newline ends the connection, not its end.
RecvIgnoresEnd ==
  /\ srv = "recv" /\ sock[conn].sent = 2 /\ sock[conn].read = 1
  /\ CloseConn
  /\ UNCHANGED <<running, backlog, cause, clients, executed>>

RecvEmpty ==
  /\ srv = "recv" /\ EmptyLine
  /\ CloseConn
  /\ UNCHANGED <<running, backlog, cause, clients, executed>>

Reply(a) == sock' = [sock EXCEPT ![conn].answer = a]

\* Mistake: a refused statement is executed all the same.
HandleRefused ==
  /\ srv = "handle"
  /\ LET s == sock[conn].text
     IN  \/ s = Exit /\ Reply("goodbye") /\ running' = FALSE /\ UNCHANGED executed
         \/ /\ s \in Refused /\ Reply("invalid")
            /\ executed' = [executed EXCEPT ![conn] = @ + 1]
            /\ UNCHANGED running
         \/ /\ s \notin Refused \cup {Exit} /\ Reply("ok")
            /\ executed' = [executed EXCEPT ![conn] = @ + 1]
            /\ UNCHANGED running
  /\ srv' = "send"
  /\ UNCHANGED <<conn, backlog, cause, clients>>

\* Mistake: exit ends the connection, not the accept loop.
HandleForgetsExit ==
  /\ srv = "handle"
  /\ LET s == sock[conn].text
     IN  \/ s = Exit /\ Reply("goodbye") /\ UNCHANGED <<running, executed>>
         \/ s \in Refused /\ Reply("invalid") /\ UNCHANGED <<running, executed>>
         \/ /\ s \notin Refused \cup {Exit} /\ Reply("ok")
            /\ executed' = [executed EXCEPT ![conn] = @ + 1]
            /\ UNCHANGED running
  /\ srv' = "send"
  /\ UNCHANGED <<conn, backlog, cause, clients>>

\* Exit, a request without a closing quote, a parse error, or the executor.
Handle ==
  /\ srv = "handle"
  /\ LET s == sock[conn].text
     IN  \/ s = Exit /\ Reply("goodbye") /\ running' = FALSE /\ UNCHANGED executed
         \/ s \in Refused /\ Reply("invalid") /\ UNCHANGED <<running, executed>>
         \/ /\ s \notin Refused \cup {Exit} /\ Reply("ok")
            /\ executed' = [executed EXCEPT ![conn] = @ + 1]
            /\ UNCHANGED running
  /\ srv' = "send"
  /\ UNCHANGED <<conn, backlog, cause, clients>>

\* The process ends.  The kernel resets every connection it had.
Down(why) == srv' = "down" /\ cause' = why /\ conn' = NoConn /\ backlog' = <<>>

\* A write to a peer that hung up does not arrive.
Deliver(n) == IF sock[conn].hungup THEN sock ELSE [sock EXCEPT ![conn].back = n]

\* First write of send_line.
SendAnswer ==
  /\ srv = "send"
  /\ \/ /\ sock' = Deliver(1)
        /\ srv' = "newline"
        /\ UNCHANGED conn
     \/ sock[conn].hungup /\ CloseConn
  /\ UNCHANGED <<running, backlog, cause, clients, executed>>

\* The peer answered the first write with a reset: it was closed before the
\* answer, or the overlong part of the answer, reached it.
Reset == sock[conn].hungup /\ (sock[conn].back = 0 \/ Overlong(conn))

\* Second write: to a closed peer it may fail or kill the process.  Afterwards
\* the loop reads the next request, unless this one was exit.
SendAnswerNewline ==
  /\ srv = "newline"
  /\ \/ /\ running
        /\ sock' = Deliver(2)
        /\ srv' = "recv"
        /\ UNCHANGED <<conn, backlog, cause>>
     \/ /\ ~running
        /\ sock' = [Deliver(2) EXCEPT ![conn].closed = TRUE]
        /\ conn' = NoConn /\ srv' = "shutdown"
        /\ UNCHANGED <<backlog, cause>>
     \/ sock[conn].hungup /\ CloseConn /\ UNCHANGED <<backlog, cause>>
     \/ Reset /\ Down("SIGPIPE") /\ UNCHANGED sock
  /\ UNCHANGED <<running, clients, executed>>

\* executor.shutdown() and closesocket(listen_sock).
Shutdown ==
  /\ srv = "shutdown"
  /\ Down("exit")
  /\ UNCHANGED <<running, clients, sock, executed>>

\* The operator stops the process.
Interrupt ==
  /\ srv # "down"
  /\ Down("interrupt")
  /\ UNCHANGED <<running, clients, sock, executed>>

ServerStep == Accept \/ RecvRequest \/ RecvEmpty \/ Handle
                \/ SendAnswer \/ SendAnswerNewline \/ Shutdown

Next ==
  \/ ServerStep \/ Interrupt
  \/ \E c \in Clients : ClientStep(c) \/ Kill(c)
  \/ \E c \in Clients, s \in Statements \cup {Exit} : Enter(c, s)

\* The server's thread and every live client keep running; nobody has to type,
\* to kill or to interrupt.
Fairness == WF_vars(ServerStep) /\ \A c \in Clients : WF_vars(ClientStep(c))

Spec == Init /\ [][Next]_vars /\ Fairness

-----------------------------------------------------------------------------
(***************************************************************************)
(* Properties                                                              *)
(***************************************************************************)
Results == {"none", "ok", "cut", "invalid", "goodbye", "unreachable", "unsent",
            "nothing"}

\* Every variable stays in its range; a connection is being served exactly in
\* the states between accept and closesocket.
TypeOK ==
  /\ srv \in {"accept", "recv", "handle", "send", "newline", "shutdown", "down"}
  /\ conn \in Conns \cup {NoConn}
  /\ conn # NoConn <=> srv \in {"recv", "handle", "send", "newline"}
  /\ running \in BOOLEAN
  /\ backlog \in Seq(Conns) /\ Len(backlog) <= Backlog
  /\ cause \in {"none", "exit", "interrupt", "SIGPIPE"}
  /\ repl \in [Clients -> {"prompt", "connect", "body", "newline", "receive", "gone"}]
  /\ entered \in [Clients -> Nat] /\ \A c \in Clients : entered[c] <= MaxEntered[c]
  /\ got \in [Clients -> Results]
  /\ sock \in [Conns -> Socket \cup {NoSocket}]
  /\ executed \in [Conns -> Nat]

\* What a client is told is what happened to the statement it sent: an answer
\* of the executor means executed exactly once, an error that it was never
\* executed and never will be.  "No response" leaves it open, and so does
\* "Failed to send request" for a statement that fills the server's buffer and
\* is executed before its newline was written.  No statement is executed twice,
\* although a connection is read again after every answer.
ToldTheTruth ==
  /\ \A k \in Conns : executed[k] <= 1
  /\ \A c \in Clients : got[c] # "none" =>
       /\ got[c] \in {"ok", "cut"} => executed[My(c)] = 1
       /\ got[c] \in {"invalid", "goodbye", "unreachable"} => executed[My(c)] = 0
       /\ got[c] = "unsent" => executed[My(c)] = 0 \/ sock[My(c)].text \in Brimming
       /\ got[c] = "goodbye" => sock[My(c)].text = Exit /\ ~running

\* Every call returns: a client that is cut off, dies or sends too much does
\* not leave the server waiting for it, nor another client for the server.
CallsReturn ==
  \A c \in Clients : repl[c] \notin {"prompt", "gone"} ~> repl[c] \in {"prompt", "gone"}

-----------------------------------------------------------------------------
(***************************************************************************)
(* The promise of Service                                                  *)
(***************************************************************************)
\* The connection being served is the first of those that arrived.
Waiting == IF conn = NoConn THEN backlog ELSE <<conn>> \o backlog

\* What a call's result tells its caller.
Told(r) ==
  CASE r = "none"                                      -> "none"
    [] r \in {"ok", "cut"}                             -> "executed"
    [] r \in {"invalid", "goodbye", "unreachable"}     -> "refused"
    [] r \in {"unsent", "nothing"}                     -> "unknown"

\* The server has said goodbye to somebody, or is down.
Stopped == \/ ~running \/ srv = "down"
           \/ \E k \in Conns : sock[k] # NoSocket /\ sock[k].answer = "goodbye"

Phase == [c \in Clients |-> CASE repl[c] = "prompt" -> "ready"
                              [] repl[c] = "gone"   -> "gone"
                              [] OTHER              -> "calling"]

Answer == [c \in Clients |-> Told(got[c])]

Promise == INSTANCE Service WITH
  Calls    <- Conns,
  NoAnswer <- "none",
  phase    <- Phase,
  number   <- entered,
  answer   <- Answer,
  queue    <- Waiting,
  stopped  <- Stopped

\* The server with its sockets implements Service: connections are served in
\* the order the kernel completed them, a statement is executed only while its
\* call is open, at most once, never after a goodbye, and what a client is told
\* stays true.
KeepsPromise == Promise!Spec

-----------------------------------------------------------------------------
(***************************************************************************)
(* What the headers say of the program, and the code does not do.          *)
(***************************************************************************)

\* "Runs until an exit command is received or interrupted." (server.hpp:9)
StopsOnlyWhenTold == srv = "down" => cause \in {"exit", "interrupt"}
=============================================================================
