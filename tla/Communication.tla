---------------------------- MODULE Communication ----------------------------
(***************************************************************************)
(* The request pipeline of the server (handle/src/communication.cpp): an   *)
(* accepting thread, receiving threads, disposing threads and one sending  *)
(* thread, joined by the lists accept_all_sockfd, all_user_info and        *)
(* send_tcp_info.  Every access to a list happens under its mutex, so each *)
(* critical section is one step here.                                      *)
(*                                                                         *)
(* A request is named by the client that sent it: a text is the sequence   *)
(* of the clients whose requests it is made of, and request[c] is the      *)
(* number in front of the '#' of c's request (NoCode: there is no '#').    *)
(* Each client is one connection, used for at most one request.            *)
(***************************************************************************)
EXTENDS Protocol, Sequences, FiniteSets

CONSTANTS
  Clients,     \* connections that clients may open
  Receivers,   \* threads running Communication::recieve_data
  Disposers,   \* threads running Communication::dispose_data
  acceptor,    \* the thread running Communication::net_TCP_operate
  sender,      \* the thread of the pool send_message
  MaxFds,      \* file descriptors the process may have open for clients
  ProNums,     \* numbers the clients put in front of the '#', or NoCode
  SendCalls,   \* tasks running tcp_send_data that were appended (main.cpp: 0)
  Resetting,   \* clients that may reset their connection
  NoClient, NoHandle, NoCode, Unsent

Workers == Receivers \union Disposers \union {sender}
Threads == Workers \union {acceptor}
Fds     == 1 .. MaxFds
Queues  == {"accept_all_sockfd", "all_user_info", "send_tcp_info"}

ASSUME ThreadsAssumption ==
  /\ IsFiniteSet(Receivers) /\ IsFiniteSet(Disposers)
  /\ Receivers \intersect Disposers = {}
  /\ sender \notin Receivers \union Disposers
  /\ acceptor \notin Workers

ASSUME ValuesAssumption ==
  /\ MaxFds \in Nat /\ SendCalls \in Nat
  /\ ProNums \subseteq Int \union {NoCode}
  /\ Unsent \notin ProNums
  /\ Resetting \subseteq Clients /\ NoClient \notin Clients

Texts   == Seq(Clients)
Handles == [sockfd : Fds, remote : Clients, info : Texts]

ASSUME HandleAssumption == NoHandle \notin Handles

VARIABLES
  peer,      \* the client's side of each connection
  request,   \* the number each client sent
  unread,    \* the clients whose request is in the socket's buffer, unread
  backlog,   \* connections the kernel has established, not yet accepted
  fds,       \* the connection behind each open descriptor
  queue,     \* the three lists
  waiting,   \* threads blocked in condition_variable::wait
  pc, hold,  \* where each thread is, and the list element it works on
  parsed,    \* what a disposing thread has appended to pro and content so far
  outbox,    \* the texts whose replies were written to each connection
  abandoned, \* descriptors no thread and no list knows any more, still open
  calls,     \* tcp_send_data tasks the sending thread has left
  alive      \* FALSE once SIGPIPE has killed the process

clientVars == <<peer, request, unread, backlog>>
queueVars  == <<queue, waiting>>
vars == <<clientVars, fds, queueVars, pc, hold, parsed, outbox, abandoned, calls, alive>>

Steps == {"accept", "take", "recv", "handle", "reply", "send", "push", "close", "done"}

TypeOK ==
  /\ peer \in [Clients -> {"new", "connected", "closed", "reset"}]
  /\ request \in [Clients -> ProNums \union {Unsent}]
  /\ unread \in SUBSET Clients
  /\ backlog \in Seq(Clients)
  /\ fds \in [Fds -> Clients \union {NoClient}]
  /\ queue \in [Queues -> Seq(Handles)]
  /\ waiting \in SUBSET Workers
  /\ pc \in [Threads -> Steps]
  /\ hold \in [Threads -> Handles \union {NoHandle}]
  /\ parsed \in [Disposers -> Texts]
  /\ outbox \in [Clients -> Seq(Texts)]
  /\ abandoned \in SUBSET Fds
  /\ calls \in 0 .. SendCalls
  /\ alive \in BOOLEAN

Init ==
  /\ peer = [c \in Clients |-> "new"]
  /\ request = [c \in Clients |-> Unsent]
  /\ unread = {}
  /\ backlog = <<>>
  /\ fds = [f \in Fds |-> NoClient]
  /\ queue = [q \in Queues |-> <<>>]
  /\ waiting = {}
  /\ pc = [t \in Threads |-> IF t = acceptor THEN "accept"
                             ELSE IF t = sender /\ SendCalls = 0 THEN "done"
                             ELSE "take"]
  /\ hold = [t \in Threads |-> NoHandle]
  /\ parsed = [d \in Disposers |-> <<>>]
  /\ outbox = [c \in Clients |-> <<>>]
  /\ abandoned = {}
  /\ calls = SendCalls
  /\ alive = TRUE

-----------------------------------------------------------------------------
(* The clients: connect, send one request, close or reset. *)

serverVars == <<fds, queueVars, pc, hold, parsed, outbox, abandoned, calls, alive>>

Connect(c) ==
  /\ peer[c] = "new"
  /\ peer' = [peer EXCEPT ![c] = "connected"]
  /\ backlog' = Append(backlog, c)
  /\ UNCHANGED <<request, unread, serverVars>>

SendRequest(c) ==
  /\ peer[c] = "connected"
  /\ request[c] = Unsent
  /\ \E n \in ProNums : request' = [request EXCEPT ![c] = n]
  /\ unread' = unread \union {c}
  /\ UNCHANGED <<peer, backlog, serverVars>>

\* Leaving without a request.  A client that closes after its request changes
\* nothing for the server, whose recv and send still succeed.
Close(c) ==
  /\ peer[c] = "connected"
  /\ request[c] = Unsent
  /\ peer' = [peer EXCEPT ![c] = "closed"]
  /\ UNCHANGED <<request, unread, backlog, serverVars>>

\* A reset discards what the server has not read.
Reset(c) ==
  /\ c \in Resetting
  /\ peer[c] = "connected"
  /\ peer' = [peer EXCEPT ![c] = "reset"]
  /\ unread' = unread \ {c}
  /\ UNCHANGED <<request, backlog, serverVars>>

\* A connected client does not keep silent for ever.
Speak(c) == SendRequest(c) \/ Close(c)

ClientNext == \E c \in Clients : Connect(c) \/ SendRequest(c) \/ Close(c) \/ Reset(c)

-----------------------------------------------------------------------------
(* The lists and their condition variables. *)

\* The list a worker takes its elements from.
Input(t) == IF t \in Receivers THEN "accept_all_sockfd"
            ELSE IF t \in Disposers THEN "all_user_info"
            ELSE "send_tcp_info"

Sleeping(q) == {t \in waiting : Input(t) = q}

\* Mutant of Push: notify_one only when the list was empty, the way
\* Cpp11Thread::append notifies.
Push_onlyWhenEmpty(q, h) ==
  /\ queue' = [queue EXCEPT ![q] = Append(@, h)]
  /\ \/ (Sleeping(q) = {} \/ queue[q] # <<>>) /\ waiting' = waiting
     \/ queue[q] = <<>> /\ \E t \in Sleeping(q) : waiting' = waiting \ {t}

\* Mutant of Push: no notify_one.
Push_silent(q, h) ==
  /\ queue' = [queue EXCEPT ![q] = Append(@, h)]
  /\ waiting' = waiting

\* push_back and notify_one, under the list's mutex.
Push(q, h) ==
  /\ queue' = [queue EXCEPT ![q] = Append(@, h)]
  /\ \/ Sleeping(q) = {} /\ waiting' = waiting
     \/ \E t \in Sleeping(q) : waiting' = waiting \ {t}

Goto(t, step) == pc' = [pc EXCEPT ![t] = step]
Drop(t)       == hold' = [hold EXCEPT ![t] = NoHandle]

\* The step a worker goes to with the element it took.
AfterTake(t) == IF t \in Receivers THEN "recv"
                ELSE IF t \in Disposers THEN "handle"
                ELSE "send"

Take(t) ==
  /\ pc[t] = "take" /\ t \notin waiting
  /\ queue[Input(t)] # <<>>
  /\ hold' = [hold EXCEPT ![t] = Head(queue[Input(t)])]
  /\ queue' = [queue EXCEPT ![Input(t)] = Tail(@)]
  /\ Goto(t, AfterTake(t))
  /\ UNCHANGED <<clientVars, fds, waiting, parsed, outbox, abandoned, calls, alive>>

\* The predicate of wait() is false: the thread blocks.
Sleep(t) ==
  /\ pc[t] = "take" /\ t \notin waiting
  /\ queue[Input(t)] = <<>>
  /\ waiting' = waiting \union {t}
  /\ UNCHANGED <<clientVars, fds, queue, pc, hold, parsed, outbox, abandoned, calls, alive>>

\* wait() may also wake without a notification; it tests its predicate again.
SpuriousWake(t) ==
  /\ t \in waiting
  /\ waiting' = waiting \ {t}
  /\ UNCHANGED <<clientVars, fds, queue, pc, hold, parsed, outbox, abandoned, calls, alive>>

-----------------------------------------------------------------------------
(* net_TCP_operate: accept gives the lowest free descriptor.  When all are  *)
(* in use accept fails and the loop tries again, which changes nothing.     *)

FreeFds == {f \in Fds : fds[f] = NoClient}
IsLowest(f, S) == f \in S /\ \A g \in S : f <= g

Accept ==
  /\ pc[acceptor] = "accept"
  /\ backlog # <<>>
  /\ \E f \in Fds :
       /\ IsLowest(f, FreeFds)
       /\ fds' = [fds EXCEPT ![f] = Head(backlog)]
       /\ hold' = [hold EXCEPT ![acceptor] =
                      [sockfd |-> f, remote |-> Head(backlog), info |-> <<>>]]
  /\ backlog' = Tail(backlog)
  /\ Goto(acceptor, "push")
  /\ UNCHANGED <<peer, request, unread, queueVars, parsed, outbox, abandoned, calls, alive>>

PushSock ==
  /\ pc[acceptor] = "push"
  /\ Push("accept_all_sockfd", hold[acceptor])
  /\ Drop(acceptor)
  /\ Goto(acceptor, "accept")
  /\ UNCHANGED <<clientVars, fds, parsed, outbox, abandoned, calls, alive>>

-----------------------------------------------------------------------------
(* recieve_data: recv blocks until there is data, the end of the stream or  *)
(* an error; the last two give the empty text.                              *)

Readable(f) == fds[f] = NoClient \/ fds[f] \in unread \/ peer[fds[f]] # "connected"
TextOn(f)   == IF fds[f] \in unread THEN <<fds[f]>> ELSE <<>>

\* Mutant of Recv: a connection that ends without a text is closed at once.
Recv_hangsUp(t) ==
  /\ pc[t] = "recv"
  /\ LET f == hold[t].sockfd
         ends == TextOn(f) = <<>> IN
       /\ Readable(f)
       /\ hold' = [hold EXCEPT ![t] = IF ends THEN NoHandle ELSE [@ EXCEPT !.info = TextOn(f)]]
       /\ fds' = IF ends THEN [fds EXCEPT ![f] = NoClient] ELSE fds
       /\ unread' = unread \ {fds[f]}
       /\ Goto(t, IF ends THEN "take" ELSE "push")
  /\ UNCHANGED <<peer, request, backlog, queueVars, parsed, outbox, abandoned, calls, alive>>

Recv(t) ==
  /\ pc[t] = "recv"
  /\ LET f == hold[t].sockfd IN
       /\ Readable(f)
       /\ hold' = [hold EXCEPT ![t].info = TextOn(f)]
       /\ unread' = unread \ {fds[f]}
  /\ Goto(t, "push")
  /\ UNCHANGED <<peer, request, backlog, fds, queueVars, parsed, outbox, abandoned, calls, alive>>

\* Mutant of PushInfo: the commented-out close (communication.cpp:51) is back.
PushInfo_closes(t) ==
  /\ pc[t] = "push"
  /\ Push("all_user_info", hold[t])
  /\ fds' = [fds EXCEPT ![hold[t].sockfd] = NoClient]
  /\ Drop(t)
  /\ Goto(t, "take")
  /\ UNCHANGED <<clientVars, parsed, outbox, abandoned, calls, alive>>

PushInfo(t) ==
  /\ pc[t] = "push"
  /\ Push("all_user_info", hold[t])
  /\ Drop(t)
  /\ Goto(t, "take")
  /\ UNCHANGED <<clientVars, fds, parsed, outbox, abandoned, calls, alive>>

-----------------------------------------------------------------------------
(* dispose_data.  pro and get_protocol.content are declared outside the     *)
(* loop and only ever appended to, so a thread parses all it has seen.      *)
(* A text without '#' is content only: match_pos is unsigned, so that       *)
(* match_pos + 1 of find's npos is 0 and nothing is appended to pro.        *)

\* atoi reads the first number that was appended to pro; without one pro is
\* empty and atoi gives 0.
Coded(text) == {i \in 1 .. Len(text) : request[text[i]] # NoCode}
ProNum(text) == IF Coded(text) = {} THEN 0
                ELSE request[text[CHOOSE i \in Coded(text) : IsLowest(i, Coded(text))]]

\* Mutant of Dispose: the reply is made of what was parsed before this request.
Dispose_staleReply(t) ==
  /\ pc[t] = "handle"
  /\ LET n == ProNum(parsed[t] \o hold[t].info) IN
       /\ parsed' = [parsed EXCEPT ![t] = @ \o hold[t].info]
       /\ \/ IsAck(n) \/ IsRefused(n) \/ IsView(n)
          \/ IsIgnored(n)
       /\ Goto(t, "reply")
       /\ hold' = [hold EXCEPT ![t].info = parsed[t]]
  /\ UNCHANGED <<clientVars, fds, queueVars, outbox, abandoned, calls, alive>>

\* A view operation pushes its result unless it is empty; everything else
\* that is answered is answered by this thread.  An ignored module leaves the
\* switch with the descriptor open.
Dispose(t) ==
  /\ pc[t] = "handle"
  /\ LET text == parsed[t] \o hold[t].info
         n    == ProNum(text)
     IN  /\ parsed' = [parsed EXCEPT ![t] = text]
         /\ \/ /\ IsAck(n) \/ IsRefused(n) \/ IsView(n)
               /\ Goto(t, "reply")
               /\ hold' = [hold EXCEPT ![t].info = text]
               /\ UNCHANGED abandoned
            \/ /\ IsView(n)
               /\ Goto(t, "push")
               /\ hold' = [hold EXCEPT ![t].info = text]
               /\ UNCHANGED abandoned
            \/ /\ IsIgnored(n)
               /\ Goto(t, "take")
               /\ Drop(t)
               /\ abandoned' = abandoned \union {hold[t].sockfd}
  /\ UNCHANGED <<clientVars, fds, queueVars, outbox, calls, alive>>

PushReply(t) ==
  /\ pc[t] = "push"
  /\ Push("send_tcp_info", hold[t])
  /\ Drop(t)
  /\ Goto(t, "take")
  /\ UNCHANGED <<clientVars, fds, parsed, outbox, abandoned, calls, alive>>

-----------------------------------------------------------------------------
(* Tsocket::send_data, called by the disposing threads and by the sender.   *)

Broken(f) == fds[f] = NoClient \/ peer[fds[f]] = "reset"

\* Mutant of SendOk: tcp_send_data takes the 0 of a successful send for failure.
SendOk_pushesBack(t) ==
  /\ pc[t] \in {"reply", "send"}
  /\ LET f == hold[t].sockfd IN
       /\ ~Broken(f)
       /\ outbox' = [outbox EXCEPT ![fds[f]] = Append(@, hold[t].info)]
  /\ Goto(t, IF t = sender THEN "push" ELSE "close")
  /\ UNCHANGED <<clientVars, fds, queueVars, hold, parsed, abandoned, calls, alive>>

SendOk(t) ==
  /\ pc[t] \in {"reply", "send"}
  /\ LET f == hold[t].sockfd IN
       /\ ~Broken(f)
       /\ outbox' = [outbox EXCEPT ![fds[f]] = Append(@, hold[t].info)]
  /\ Goto(t, "close")
  /\ UNCHANGED <<clientVars, fds, queueVars, hold, parsed, abandoned, calls, alive>>

\* send returns -1: dispose_data ignores it and closes, tcp_send_data pushes
\* the element back.
SendFails(t) ==
  /\ pc[t] \in {"reply", "send"}
  /\ Broken(hold[t].sockfd)
  /\ Goto(t, IF t = sender THEN "push" ELSE "close")
  /\ UNCHANGED <<clientVars, fds, queueVars, hold, parsed, outbox, abandoned, calls, alive>>

\* send on a connection that was reset may raise SIGPIPE, which nothing
\* handles and no MSG_NOSIGNAL suppresses.
SendKills(t) ==
  /\ pc[t] \in {"reply", "send"}
  /\ fds[hold[t].sockfd] # NoClient /\ Broken(hold[t].sockfd)
  /\ alive' = FALSE
  /\ UNCHANGED <<clientVars, fds, queueVars, pc, hold, parsed, outbox, abandoned, calls>>

CloseSock(t) ==
  /\ fds' = [fds EXCEPT ![hold[t].sockfd] = NoClient]
  /\ Drop(t)

\* Mutant of CloseReplied: the branch forgets its close.
CloseReplied_keepsFd(t) ==
  /\ pc[t] = "close"
  /\ Drop(t)
  /\ Goto(t, "take")
  /\ UNCHANGED <<clientVars, fds, queueVars, parsed, outbox, abandoned, calls, alive>>

CloseReplied(t) ==
  /\ pc[t] = "close"
  /\ CloseSock(t)
  /\ Goto(t, "take")
  /\ UNCHANGED <<clientVars, queueVars, parsed, outbox, abandoned, calls, alive>>

\* Mutant of SendReturns: one task too many.
SendReturns_late ==
  /\ calls' = calls - 1
  /\ Goto(sender, IF calls = 0 THEN "done" ELSE "take")

\* tcp_send_data returns after one element; its worker runs the next task.
SendReturns ==
  /\ calls' = calls - 1
  /\ Goto(sender, IF calls = 1 THEN "done" ELSE "take")

SenderClose ==
  /\ pc[sender] = "close"
  /\ CloseSock(sender)
  /\ SendReturns
  /\ UNCHANGED <<clientVars, queueVars, parsed, outbox, abandoned, alive>>

SenderRetry ==
  /\ pc[sender] = "push"
  /\ Push("send_tcp_info", hold[sender])
  /\ Drop(sender)
  /\ SendReturns
  /\ UNCHANGED <<clientVars, fds, parsed, outbox, abandoned, alive>>

-----------------------------------------------------------------------------
Reply(t)    == SendOk(t) \/ SendFails(t) \/ SendKills(t)
Wait(t)     == Take(t) \/ Sleep(t)
Net         == alive /\ (Accept \/ PushSock)
Receive(t)  == alive /\ (Wait(t) \/ Recv(t) \/ PushInfo(t))
Handle(t)   == alive /\ (Wait(t) \/ Dispose(t) \/ PushReply(t) \/ Reply(t) \/ CloseReplied(t))
SendTcp     == alive /\ (Wait(sender) \/ Reply(sender) \/ SenderClose \/ SenderRetry)
Wakes       == alive /\ \E t \in Workers : SpuriousWake(t)

Next == \/ ClientNext
        \/ Net
        \/ \E t \in Receivers : Receive(t)
        \/ \E t \in Disposers : Handle(t)
        \/ SendTcp
        \/ Wakes

Spec == Init /\ [][Next]_vars

\* Every thread runs whenever it can, and clients do not keep silent.
Fairness == /\ WF_vars(Net)
            /\ \A t \in Receivers : WF_vars(Receive(t))
            /\ \A t \in Disposers : WF_vars(Handle(t))
            /\ WF_vars(SendTcp)
            /\ \A c \in Clients : WF_vars(Speak(c))

FairSpec == Spec /\ Fairness
-----------------------------------------------------------------------------
(* Who knows a descriptor: a position of a list, or a thread. *)

Slots == UNION {{q} \X (1 .. Len(queue[q])) : q \in Queues}
At(x) == queue[x[1]][x[2]]
Busy  == {t \in Threads : hold[t] # NoHandle}

Owners(f) == {x \in Slots : At(x).sockfd = f} \union {t \in Busy : hold[t].sockfd = f}

\* Across the four kinds of thread and the three lists an open descriptor has
\* exactly one owner (none, if an ignored module abandoned it), and a closed
\* one has none: nobody closes twice, uses a closed socket or leaks one.
OneOwner ==
  \A f \in Fds :
    Cardinality(Owners(f)) = IF fds[f] = NoClient \/ f \in abandoned THEN 0 ELSE 1

Known == {hold[t] : t \in Busy} \union {At(x) : x \in Slots}

\* The address copied at accept time (remoteIP, remote_port) and the connection
\* behind the descriptor stay the same client's, although descriptor numbers
\* are reused as soon as they are closed.
HandleLive == \A h \in Known : fds[h.sockfd] = h.remote

\* A reply written to a client's connection was made from its own request last,
\* whatever the threads interleave.  (A request lost to a reset is never read;
\* such a client may be sent a reply made of older texts.)
ReplyToRequester ==
  \A c \in Clients : \A i \in 1 .. Len(outbox[c]) :
    request[c] # Unsent /\ peer[c] # "reset"
      => outbox[c][i] # <<>> /\ outbox[c][i][Len(outbox[c][i])] = c

\* Takers(q): threads that will test list q again without being notified.
Takers(q) == {t \in Workers : Input(t) = q /\ pc[t] = "take"} \ waiting

\* No lost wake-up: while a thread sleeps on a list, every element of that list
\* has a thread of its own that is awake and about to look.  One notify_one per
\* push_back is enough only because each is issued under the list's mutex.
NoLostWakeup ==
  \A q \in Queues :
    Sleeping(q) # {} => Len(queue[q]) <= Cardinality(Takers(q))

\* A dispose thread answers a request from that request alone.
OwnRequestOnly ==
  \A c \in Clients : \A i \in 1 .. Len(outbox[c]) :
    \A j \in 1 .. Len(outbox[c][i]) : outbox[c][i][j] = c

-----------------------------------------------------------------------------
(* The refinement: what a client sees of its connection. *)

Open(c) == \E f \in Fds : fds[f] = c
Abandoned(c) == \E f \in abandoned : fds[f] = c
Accepted(c) == peer[c] # "new" /\ \A i \in 1 .. Len(backlog) : backlog[i] # c

StageOf(c) ==
  IF ~Accepted(c) THEN "out"
  ELSE IF ~Open(c) THEN "closed"
  ELSE IF Abandoned(c) THEN "abandoned"
  ELSE IF Len(outbox[c]) = 0 THEN "open"
  ELSE IF Len(outbox[c]) = 1 THEN "answered"
  ELSE "answered again"

stage == [c \in Clients |-> StageOf(c)]

Life == INSTANCE RequestLife

\* The pipeline implements the life of a request: taken up once, answered at
\* most once, closed only after that or after a failed send, never reopened.
LifeOfRequest == Life!Spec

-----------------------------------------------------------------------------
(* What closing and liveness owe a client. *)

\* A connection that was taken up and is closed again was answered, unless its client
\* reset it: no branch of a handler, no retry and no late result closes it before,
\* and a client that left without a request is answered too.
ClosedAnswered ==
  \A c \in Clients : Accepted(c) /\ ~Open(c) => outbox[c] # <<>> \/ peer[c] = "reset"

\* The leak of dispose_data: a number of no operation, of this client or of one the same
\* thread served before, may be neither answered nor its connection closed.
Ignored(c) == /\ Abandoned(c)
              /\ \E b \in Clients : request[b] \notin Operations \union {Unsent, NoCode}

\* Whoever sent a request gets a reply, but for what the server ignores; and once ignored
\* numbers have used up its descriptors, it answers nobody.
RequestAnswered ==
  \A c \in Clients :
    (request[c] # Unsent) ~> (outbox[c] # <<>> \/ Ignored(c) \/ abandoned = Fds)

\* Every accepted connection's descriptor is given back, but for those of ignored numbers,
\* which are never.
SocketReclaimed ==
  \A c \in Clients : Open(c) ~> (~Open(c) \/ Ignored(c))
=============================================================================
