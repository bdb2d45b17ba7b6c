----------------------- MODULE CommunicationLife_proofs -----------------------
(***************************************************************************)
(* What a client of the request pipeline sees: a reply was made from its   *)
(* own request last, and the pipeline implements the life of a request,    *)
(* for any number of clients, threads and descriptors.                     *)
(***************************************************************************)
EXTENDS Communication_proofs

\* The request of c, if there is one to answer, is still to be read.
Asks(c)  == request[c] # Unsent /\ peer[c] # "reset"
Fresh(c) == Asks(c) => c \in unread

\* c has said all it will say, and if that is a request the text ends with it.
Settled(c)     == peer[c] # "new" /\ (request[c] = Unsent => peer[c] # "connected")
Ready(text, c) == Settled(c) /\ (Asks(c) => text # <<>> /\ text[Len(text)] = c)

\* How far the request has come, by the list or the thread its handle is with.
ListAge(q) == IF q = "accept_all_sockfd" THEN "early" ELSE "late"
HandAge(t) == IF t = acceptor \/ pc[t] = "recv" THEN "early"
              ELSE IF pc[t] = "close" THEN "replied" ELSE "late"

HandleOK(h, age) ==
  /\ age # "replied" => outbox[h.remote] = <<>>
  /\ Len(outbox[h.remote]) <= 1
  /\ age = "early" => Fresh(h.remote)
  /\ age # "early" => Ready(h.info, h.remote)

HandlesOK ==
  /\ \A q \in Queues : \A k \in 1 .. Len(queue[q]) : HandleOK(queue[q][k], ListAge(q))
  /\ \A t \in Threads : hold[t] # NoHandle => HandleOK(hold[t], HandAge(t))

\* Connections wait once each to be accepted, and are open once each after that.
BacklogOK ==
  /\ \A i, j \in 1 .. Len(backlog) : backlog[i] = backlog[j] => i = j
  /\ \A i \in 1 .. Len(backlog) : peer[backlog[i]] # "new"
  /\ \A c \in Clients : ~Accepted(c) => outbox[c] = <<>> /\ ~Open(c) /\ Fresh(c)
  /\ \A f, g \in Fds : fds[f] = fds[g] /\ fds[f] # NoClient => f = g

RepliesOK ==
  /\ \A c \in Clients : \A i \in 1 .. Len(outbox[c]) : Ready(outbox[c][i], c)
  /\ \A c \in unread : request[c] # Unsent

PathInv == OwnInv /\ HandlesOK /\ BacklogOK /\ RepliesOK

-----------------------------------------------------------------------------
LEMMA HandTypesIn ==
  ASSUME PathInv, NEW t \in Threads, hold[t] # NoHandle
  PROVE  /\ hold[t] \in Handles /\ hold[t].sockfd \in Fds /\ hold[t].remote \in Clients
         /\ fds[hold[t].sockfd] = hold[t].remote /\ hold[t].sockfd \notin abandoned
         /\ Open(hold[t].remote) /\ Accepted(hold[t].remote)
<1>1. hold[t] \in Handles /\ hold[t].sockfd \in Fds /\ hold[t].remote \in Clients
  BY DEF PathInv, OwnInv, IInv, TypeOK, Handles
<1>2. fds[hold[t].sockfd] = hold[t].remote
  BY DEF PathInv, OwnInv, AllLive, Live
<1>3. Held(hold[t].sockfd)
  BY DEF Held, InHand
<1>4. hold[t].sockfd \notin abandoned
  BY <1>1, <1>3 DEF PathInv, OwnInv, Owned
<1>5. Open(hold[t].remote)
  BY <1>1, <1>2 DEF Open
<1> QED
  BY <1>1, <1>2, <1>4, <1>5 DEF PathInv, BacklogOK

\* No two handles are of one connection.
LEMMA OtherRemotes ==
  ASSUME PathInv, NEW t \in Threads, hold[t] # NoHandle
  PROVE  /\ \A u \in Threads : u # t /\ hold[u] # NoHandle => hold[u].remote # hold[t].remote
         /\ \A q \in Queues : \A k \in 1 .. Len(queue[q]) :
              queue[q][k] \in Handles /\ queue[q][k].remote # hold[t].remote
<1>1. hold[t].sockfd \in Fds /\ fds[hold[t].sockfd] = hold[t].remote /\ hold[t].remote # NoClient
  BY HandTypesIn, ValuesAssumption
<1>2. ASSUME NEW u \in Threads, u # t, hold[u] # NoHandle PROVE hold[u].remote # hold[t].remote
  <2>1. hold[u].sockfd \in Fds /\ fds[hold[u].sockfd] = hold[u].remote
    BY <1>2, HandTypesIn
  <2>2. hold[u].sockfd # hold[t].sockfd
    BY <1>1, <1>2 DEF PathInv, OwnInv, Owned, OneHand, InHand
  <2> QED
    BY <1>1, <2>1, <2>2 DEF PathInv, BacklogOK
<1>3. ASSUME NEW q \in Queues, NEW k \in 1 .. Len(queue[q])
      PROVE  queue[q][k] \in Handles /\ queue[q][k].remote # hold[t].remote
  <2>1. queue[q][k] \in Handles /\ queue[q][k].sockfd \in Fds /\ k \in Nat
    BY QueueTypes DEF PathInv, OwnInv, Handles
  <2>2. fds[queue[q][k].sockfd] = queue[q][k].remote
    BY DEF PathInv, OwnInv, AllLive, Live
  <2>3. Listed(queue[q][k].sockfd)
    BY <2>1 DEF Listed, InList
  <2>4. Held(hold[t].sockfd)
    BY DEF Held, InHand
  <2>5. queue[q][k].sockfd # hold[t].sockfd
    BY <1>1, <2>3, <2>4 DEF PathInv, OwnInv, Owned
  <2> QED
    BY <1>1, <2>1, <2>2, <2>5 DEF PathInv, BacklogOK
<1> QED
  BY <1>2, <1>3

-----------------------------------------------------------------------------
(* The clients *)

LEMMA ClientPath ==
  ASSUME PathInv, ClientNext
  PROVE  /\ HandlesOK' /\ BacklogOK' /\ RepliesOK'
         /\ \A c \in Clients : Accepted(c)' <=> Accepted(c)
<1>1. UNCHANGED <<fds, queue, pc, hold, outbox>>
  BY DEF ClientNext, Connect, SendRequest, Close, Reset, serverVars, queueVars
<1>2. PICK c \in Clients : Connect(c) \/ SendRequest(c) \/ Close(c) \/ Reset(c)
  BY DEF ClientNext
<1>3. /\ peer \in [Clients -> {"new", "connected", "closed", "reset"}] /\ unread \subseteq Clients
      /\ request \in [Clients -> ProNums \union {Unsent}] /\ backlog \in Seq(Clients)
      /\ Unsent \notin ProNums
  BY ValuesAssumption DEF PathInv, OwnInv, IInv, TypeOK
<1>4. \A d \in Clients : Fresh(d) => Fresh(d)'
  BY <1>2, <1>3 DEF Fresh, Asks, Connect, SendRequest, Close, Reset
<1>5. \A d \in Clients : \A x : Ready(x, d) => Ready(x, d)'
  BY <1>2, <1>3 DEF Ready, Settled, Asks, Connect, SendRequest, Close, Reset
<1>6. HandlesOK'
  <2>1. \A q \in Queues : \A k \in 1 .. Len(queue[q]) : queue[q][k].remote \in Clients
    BY QueueTypes DEF PathInv, OwnInv, Handles
  <2>2. \A t \in Threads : hold[t] # NoHandle => hold[t].remote \in Clients
    BY HandTypesIn
  <2>3. ASSUME NEW h, NEW age, h.remote \in Clients, HandleOK(h, age) PROVE HandleOK(h, age)'
    BY <1>1, <1>4, <1>5, <2>3 DEF HandleOK
  <2>4. \A t : HandAge(t)' = HandAge(t)
    BY <1>1 DEF HandAge
  <2>5. \A q \in Queues : \A k \in 1 .. Len(queue'[q]) : HandleOK(queue[q][k], ListAge(q))'
    BY <1>1, <2>1, <2>3 DEF PathInv, HandlesOK
  <2>6. \A t \in Threads : hold'[t] # NoHandle => HandleOK(hold[t], HandAge(t))'
    BY <1>1, <2>2, <2>3, <2>4 DEF PathInv, HandlesOK
  <2> QED
    BY <2>5, <2>6 DEF HandlesOK
<1>7. RepliesOK'
  <2>1. \A d \in Clients : \A i \in 1 .. Len(outbox'[d]) : Ready(outbox[d][i], d)'
    BY <1>1, <1>5 DEF PathInv, RepliesOK
  <2>2. \A d \in unread' : request'[d] # Unsent
    BY <1>2, <1>3 DEF PathInv, RepliesOK, Connect, SendRequest, Close, Reset
  <2> QED
    BY <2>1, <2>2 DEF RepliesOK
<1>8. BacklogOK' /\ \A d \in Clients : Accepted(d)' <=> Accepted(d)
  <2>1. CASE Connect(c)
    <3>1. /\ Len(backlog) \in Nat /\ backlog' = Append(backlog, c)
          /\ Len(backlog') = Len(backlog) + 1 /\ backlog'[Len(backlog) + 1] = c
          /\ \A i \in 1 .. Len(backlog) : backlog'[i] = backlog[i]
      BY <1>3, <2>1, AppendProperties, LenProperties DEF Connect
    <3>2. 1 .. Len(backlog') = (1 .. Len(backlog)) \union {Len(backlog) + 1}
      BY <3>1
    <3>3. /\ peer[c] = "new" /\ peer'[c] = "connected"
          /\ \A d \in Clients : d # c => peer'[d] = peer[d]
      BY <1>3, <2>1 DEF Connect
    <3>4. \A i \in 1 .. Len(backlog) : backlog[i] # c /\ backlog[i] \in Clients
      BY <1>3, <3>3, ElementOfSeq DEF PathInv, BacklogOK
    <3>5. \A d \in Clients : Accepted(d)' <=> Accepted(d)
      BY <3>1, <3>2, <3>3 DEF Accepted
    <3>6. \A i, j \in 1 .. Len(backlog') : backlog'[i] = backlog'[j] => i = j
      BY <3>1, <3>2, <3>4 DEF PathInv, BacklogOK
    <3>7. \A i \in 1 .. Len(backlog') : peer'[backlog'[i]] # "new"
      BY <3>1, <3>2, <3>3, <3>4 DEF PathInv, BacklogOK
    <3> QED
      BY <1>1, <1>4, <3>5, <3>6, <3>7 DEF PathInv, BacklogOK, Open
  <2>2. CASE SendRequest(c) \/ Close(c) \/ Reset(c)
    <3>1. /\ backlog' = backlog /\ \A d \in Clients : peer'[d] = "new" <=> peer[d] = "new"
      BY <1>3, <2>2 DEF SendRequest, Close, Reset
    <3>2. \A d \in Clients : Accepted(d)' <=> Accepted(d)
      BY <3>1 DEF Accepted
    <3>3. \A i \in 1 .. Len(backlog) : backlog[i] \in Clients
      BY <1>3, ElementOfSeq
    <3> QED
      BY <1>1, <1>4, <3>1, <3>2, <3>3 DEF PathInv, BacklogOK, Open
  <2> QED
    BY <1>2, <2>1, <2>2
<1> QED
  BY <1>6, <1>7, <1>8

-----------------------------------------------------------------------------
(* Steps that move a handle between lists and threads *)

\* Nothing a handle says changes while clients and replies stay as they are.
LEMMA SameWorld ==
  ASSUME UNCHANGED <<clientVars, outbox>>
  PROVE  /\ \A h, age : HandleOK(h, age)' <=> HandleOK(h, age)
         /\ \A c : Accepted(c)' <=> Accepted(c)
         /\ \A c : Fresh(c)' <=> Fresh(c)
         /\ RepliesOK' <=> RepliesOK
BY DEF clientVars, HandleOK, Accepted, Fresh, Asks, Ready, Settled, RepliesOK

LEMMA SameBacklog ==
  ASSUME BacklogOK, UNCHANGED <<clientVars, outbox, fds>>
  PROVE  BacklogOK'
<1>1. \A c \in Clients : Open(c)' <=> Open(c)
  BY DEF Open
<1>2. UNCHANGED <<peer, backlog>>
  BY DEF clientVars
<1> QED
  BY <1>1, <1>2, SameWorld DEF BacklogOK

LEMMA TakePath ==
  ASSUME PathInv, NEW t \in Workers, Take(t)
  PROVE  HandlesOK' /\ BacklogOK' /\ RepliesOK'
<1> DEFINE q == Input(t)
<1>1. /\ q \in Queues /\ t \in Threads /\ t # acceptor /\ queue[q] # <<>>
      /\ q = "accept_all_sockfd" <=> t \in Receivers
  BY InputIsAQueue, KindsOfThreads DEF Take, Input
<1>2. /\ UNCHANGED <<clientVars, fds, outbox>>
      /\ hold' = [hold EXCEPT ![t] = Head(queue[q])]
      /\ queue' = [queue EXCEPT ![q] = Tail(@)]
      /\ pc' = [pc EXCEPT ![t] = AfterTake(t)]
  BY DEF Take, Goto
<1> HIDE DEF q
<1>3. /\ queue[q] \in Seq(Handles) /\ Len(queue[q]) \in Nat /\ Len(queue[q]) >= 1
      /\ Head(queue[q]) = queue[q][1] /\ Len(Tail(queue[q])) = Len(queue[q]) - 1
      /\ \A k \in 1 .. Len(Tail(queue[q])) : Tail(queue[q])[k] = queue[q][k + 1]
  BY <1>1, HeadTailProperties, EmptySeq, LenProperties, QueueTypes DEF PathInv, OwnInv
<1>4. /\ queue'[q] = Tail(queue[q]) /\ \A r \in Queues : r # q => queue'[r] = queue[r]
      /\ hold'[t] = queue[q][1] /\ pc'[t] = AfterTake(t)
      /\ \A u \in Threads : u # t => hold'[u] = hold[u] /\ pc'[u] = pc[u]
  BY <1>1, <1>2, <1>3 DEF PathInv, OwnInv, IInv, TypeOK
<1>5. HandAge(t)' = ListAge(q)
  BY <1>1, <1>4 DEF HandAge, ListAge, AfterTake
<1>6. \A u \in Threads : u # t => HandAge(u)' = HandAge(u)
  BY <1>4 DEF HandAge
<1>7. \A r \in Queues : \A k \in 1 .. Len(queue'[r]) : HandleOK(queue'[r][k], ListAge(r))
  <2>1. ASSUME NEW k \in 1 .. Len(queue'[q]) PROVE HandleOK(queue'[q][k], ListAge(q))
    <3>1. k + 1 \in 1 .. Len(queue[q]) /\ queue'[q][k] = queue[q][k + 1]
      BY <1>3, <1>4
    <3> QED
      BY <1>1, <3>1 DEF PathInv, HandlesOK
  <2>2. ASSUME NEW r \in Queues, r # q, NEW k \in 1 .. Len(queue'[r])
        PROVE  HandleOK(queue'[r][k], ListAge(r))
    BY <1>4, <2>2 DEF PathInv, HandlesOK
  <2> QED
    BY <2>1, <2>2
<1>8. \A u \in Threads : hold'[u] # NoHandle => HandleOK(hold'[u], HandAge(u)')
  <2>1. HandleOK(queue[q][1], ListAge(q))
    BY <1>1, <1>3 DEF PathInv, HandlesOK
  <2> QED
    BY <1>4, <1>5, <1>6, <2>1 DEF PathInv, HandlesOK
<1>9. HandlesOK'
  BY <1>2, <1>7, <1>8, SameWorld DEF HandlesOK, ListAge
<1> QED
  BY <1>2, <1>9, SameWorld, SameBacklog DEF PathInv

\* A handle's age is that of the list it is appended to.
LEMMA PushPath ==
  ASSUME PathInv, NEW t \in Threads, NEW q \in Queues, hold[t] # NoHandle,
         ListAge(q) = HandAge(t), Push(q, hold[t]), Drop(t),
         \A u \in Threads : u # t => pc'[u] = pc[u],
         UNCHANGED <<clientVars, fds, outbox>>
  PROVE  HandlesOK' /\ BacklogOK' /\ RepliesOK'
<1> DEFINE l == Append(queue[q], hold[t])
           n == Len(queue[q]) + 1
<1>1. /\ queue[q] \in Seq(Handles) /\ hold[t] \in Handles /\ Len(queue[q]) \in Nat
  BY QueueTypes, HandTypes DEF PathInv, OwnInv
<1>2. /\ Len(l) = n /\ l[n] = hold[t] /\ \A k \in 1 .. Len(queue[q]) : l[k] = queue[q][k]
      /\ 1 .. n = (1 .. Len(queue[q])) \union {n}
  BY <1>1, AppendProperties
<1>3. /\ queue'[q] = l /\ \A r \in Queues : r # q => queue'[r] = queue[r]
      /\ hold'[t] = NoHandle /\ \A u \in Threads : u # t => hold'[u] = hold[u]
  BY DEF Push, Drop, PathInv, OwnInv, IInv, TypeOK
<1> HIDE DEF l, n
<1>4. HandleOK(hold[t], ListAge(q))
  BY DEF PathInv, HandlesOK
<1>5. \A r \in Queues : \A k \in 1 .. Len(queue'[r]) : HandleOK(queue'[r][k], ListAge(r))
  <2>1. \A k \in 1 .. Len(queue'[q]) : HandleOK(queue'[q][k], ListAge(q))
    BY <1>2, <1>3, <1>4 DEF PathInv, HandlesOK
  <2> QED
    BY <1>3, <2>1 DEF PathInv, HandlesOK
<1>6. \A u \in Threads : u # t => HandAge(u)' = HandAge(u)
  BY DEF HandAge
<1>7. \A u \in Threads : hold'[u] # NoHandle => HandleOK(hold'[u], HandAge(u)')
  BY <1>3, <1>6 DEF PathInv, HandlesOK
<1>8. HandlesOK'
  BY <1>5, <1>7, SameWorld DEF HandlesOK, ListAge
<1> QED
  BY <1>8, SameWorld, SameBacklog DEF PathInv

\* A thread that goes on with the same handle makes it older, if anything.
LEMMA StayPath ==
  ASSUME PathInv, NEW t \in Threads,
         HandAge(t)' \in {HandAge(t), "replied"}, HandAge(t) = "early" => HandAge(t)' = "early",
         \A u \in Threads : u # t => pc'[u] = pc[u],
         UNCHANGED <<clientVars, fds, outbox, queue, hold>>
  PROVE  HandlesOK' /\ BacklogOK' /\ RepliesOK'
<1>1. \A u \in Threads : u # t => HandAge(u)' = HandAge(u)
  BY DEF HandAge
<1>2. \A h : HandleOK(h, "late") => HandleOK(h, "replied")
  BY DEF HandleOK
<1>3. HandAge(t) \in {"early", "late", "replied"}
  BY DEF HandAge
<1>4. \A u \in Threads : hold'[u] # NoHandle => HandleOK(hold'[u], HandAge(u)')
  BY <1>1, <1>2, <1>3 DEF PathInv, HandlesOK
<1>5. \A r \in Queues : \A k \in 1 .. Len(queue'[r]) : HandleOK(queue'[r][k], ListAge(r))
  BY DEF PathInv, HandlesOK
<1>6. HandlesOK'
  BY <1>4, <1>5, SameWorld DEF HandlesOK, ListAge
<1> QED
  BY <1>6, SameWorld, SameBacklog DEF PathInv

\* Closing a descriptor, or forgetting it, ends its handle.
LEMMA EndPath ==
  ASSUME PathInv, NEW t \in Threads, hold[t] # NoHandle, Drop(t),
         UNCHANGED fds \/ fds' = [fds EXCEPT ![hold[t].sockfd] = NoClient],
         \A u \in Threads : u # t => pc'[u] = pc[u],
         UNCHANGED <<clientVars, outbox, queue>>
  PROVE  HandlesOK' /\ BacklogOK' /\ RepliesOK'
<1>1. hold'[t] = NoHandle /\ \A u \in Threads : u # t => hold'[u] = hold[u]
  BY DEF Drop, PathInv, OwnInv, IInv, TypeOK
<1>2. \A u \in Threads : u # t => HandAge(u)' = HandAge(u)
  BY DEF HandAge
<1>3. \A u \in Threads : hold'[u] # NoHandle => HandleOK(hold'[u], HandAge(u)')
  BY <1>1, <1>2 DEF PathInv, HandlesOK
<1>4. \A r \in Queues : \A k \in 1 .. Len(queue'[r]) : HandleOK(queue'[r][k], ListAge(r))
  BY DEF PathInv, HandlesOK
<1>5. HandlesOK'
  BY <1>3, <1>4, SameWorld DEF HandlesOK, ListAge
<1>6. \A f \in Fds : fds'[f] = fds[f] \/ fds'[f] = NoClient
  BY DEF PathInv, OwnInv, IInv, TypeOK
<1>7. BacklogOK'
  <2>1. \A c \in Clients : Open(c)' => Open(c)
    BY <1>6, ValuesAssumption DEF Open
  <2>2. UNCHANGED <<peer, backlog>>
    BY DEF clientVars
  <2> QED
    BY <1>6, <2>1, <2>2, SameWorld DEF BacklogOK, PathInv
<1> QED
  BY <1>5, <1>7, SameWorld DEF PathInv

-----------------------------------------------------------------------------
(* Steps on the connection behind a handle *)

LEMMA RecvPath ==
  ASSUME PathInv, NEW t \in Receivers, Recv(t)
  PROVE  HandlesOK' /\ BacklogOK' /\ RepliesOK'
<1> DEFINE f == hold[t].sockfd
           c == hold[t].remote
           h == [hold[t] EXCEPT !.info = TextOn(f)]
<1>1. t \in Threads /\ t # acceptor /\ pc[t] = "recv" /\ hold[t] # NoHandle
  BY KindsOfThreads DEF Recv, PathInv, OwnInv, IInv, Holding
<1>2. /\ hold[t] \in Handles /\ c \in Clients /\ fds[f] = c /\ Accepted(c)
  BY <1>1, HandTypesIn
<1>3. /\ Readable(f) /\ hold' = [hold EXCEPT ![t] = h] /\ unread' = unread \ {c}
      /\ pc' = [pc EXCEPT ![t] = "push"] /\ UNCHANGED <<peer, request, backlog, fds, queue, outbox>>
  BY <1>2 DEF Recv, Goto, queueVars
<1>4. h.remote = c /\ h.info = TextOn(f)
  BY <1>2 DEF Handles
<1>5. /\ hold'[t] = h /\ pc'[t] = "push"
      /\ \A u \in Threads : u # t => hold'[u] = hold[u] /\ pc'[u] = pc[u]
  BY <1>1, <1>3 DEF PathInv, OwnInv, IInv, TypeOK
<1>6. HandleOK(hold[t], "early") /\ HandAge(t)' = "late"
  BY <1>1, <1>5 DEF PathInv, HandlesOK, HandAge
<1>7. Ready(TextOn(f), c)
  <2>1. peer[c] # "new" /\ c # NoClient
    BY <1>2, ValuesAssumption DEF Accepted
  <2>2. c \in unread => request[c] # Unsent
    BY DEF PathInv, RepliesOK
  <2>3. Settled(c)
    BY <1>2, <1>3, <2>1, <2>2 DEF Settled, Readable
  <2>4. Asks(c) => TextOn(f) = <<c>>
    BY <1>2, <1>6 DEF HandleOK, Fresh, TextOn
  <2>5. Asks(c) => TextOn(f) # <<>> /\ Len(TextOn(f)) = 1 /\ TextOn(f)[1] = c
    BY <2>4
  <2> HIDE DEF f, c
  <2> QED
    BY <2>3, <2>5 DEF Ready
<1> HIDE DEF f, c, h
<1>8. \A d : d # c => (Fresh(d)' <=> Fresh(d))
  BY <1>3 DEF Fresh, Asks
<1>9. \A d, x : Ready(x, d)' <=> Ready(x, d)
  BY <1>3 DEF Ready, Settled, Asks
<1>10. ASSUME NEW g, NEW age, g.remote # c, HandleOK(g, age) PROVE HandleOK(g, age)'
  BY <1>3, <1>8, <1>9, <1>10 DEF HandleOK
<1>11. /\ \A u \in Threads : u # t /\ hold[u] # NoHandle => hold[u].remote # c
       /\ \A q \in Queues : \A k \in 1 .. Len(queue[q]) : queue[q][k].remote # c
  BY <1>1, OtherRemotes DEF c
<1>12. HandlesOK'
  <2>1. \A u \in Threads : u # t => HandAge(u)' = HandAge(u)
    BY <1>5 DEF HandAge
  <2>2. \A u \in Threads : u # t /\ hold'[u] # NoHandle => HandleOK(hold[u], HandAge(u))'
    BY <1>5, <1>10, <1>11, <2>1 DEF PathInv, HandlesOK
  <2>3. outbox[c] = <<>>
    BY <1>6 DEF HandleOK, c
  <2>4. HandleOK(hold[t], HandAge(t))'
    BY <1>3, <1>4, <1>5, <1>6, <1>7, <1>9, <2>3 DEF HandleOK
  <2>5. \A q \in Queues : \A k \in 1 .. Len(queue'[q]) : HandleOK(queue[q][k], ListAge(q))'
    BY <1>3, <1>10, <1>11 DEF PathInv, HandlesOK, ListAge
  <2> QED
    BY <2>2, <2>4, <2>5 DEF HandlesOK
<1>13. BacklogOK'
  <2>1. \A d \in Clients : (Accepted(d)' <=> Accepted(d)) /\ (Open(d)' <=> Open(d))
    BY <1>3 DEF Accepted, Open
  <2> QED
    BY <1>2, <1>3, <1>8, <2>1 DEF PathInv, BacklogOK
<1>14. RepliesOK'
  BY <1>3, <1>9 DEF PathInv, RepliesOK
<1> QED
  BY <1>12, <1>13, <1>14

LEMMA LastOfConcat ==
  ASSUME NEW S, NEW p \in Seq(S), NEW s \in Seq(S), s # <<>>
  PROVE  p \o s # <<>> /\ (p \o s)[Len(p \o s)] = s[Len(s)]
<1>1. Len(p) \in Nat /\ Len(s) \in Nat /\ Len(s) # 0
  BY LenProperties, EmptySeq
<1>2. Len(p \o s) = Len(p) + Len(s) /\ p \o s \in Seq(S)
  BY ConcatProperties
<1>3. Len(p) + Len(s) \in 1 .. Len(p) + Len(s) /\ ~(Len(p) + Len(s) <= Len(p))
  BY <1>1
<1>4. (p \o s)[Len(p) + Len(s)] = s[Len(p) + Len(s) - Len(p)]
  BY <1>3, ConcatProperties
<1>5. Len(p) + Len(s) - Len(p) = Len(s)
  BY <1>1
<1>6. p \o s # <<>>
  BY <1>1, <1>2, EmptySeq
<1> QED
  BY <1>2, <1>4, <1>5, <1>6

\* The text of a request ends with the request, whatever was parsed before it.
LEMMA DisposePath ==
  ASSUME PathInv, NEW t \in Disposers, Dispose(t)
  PROVE  HandlesOK' /\ BacklogOK' /\ RepliesOK'
<1> DEFINE c == hold[t].remote
           text == parsed[t] \o hold[t].info
           h == [hold[t] EXCEPT !.info = text]
<1>1. /\ t \in Threads /\ t # acceptor /\ pc[t] = "handle" /\ hold[t] # NoHandle
  BY KindsOfThreads DEF Dispose, PathInv, OwnInv, IInv, Holding
<1>2. hold[t] \in Handles /\ c \in Clients /\ hold[t].info \in Seq(Clients) /\ parsed[t] \in Seq(Clients)
  BY <1>1, HandTypesIn DEF Handles, Texts, PathInv, OwnInv, IInv, TypeOK
<1>3. /\ UNCHANGED <<clientVars, fds, queue, outbox>>
      /\ \/ /\ hold' = [hold EXCEPT ![t] = h]
            /\ pc' = [pc EXCEPT ![t] = "reply"] \/ pc' = [pc EXCEPT ![t] = "push"]
         \/ Drop(t) /\ pc' = [pc EXCEPT ![t] = "take"]
  BY DEF Dispose, Goto, queueVars
<1>4. h.remote = c /\ h.info = text
  BY <1>2 DEF Handles
<1>5. HandleOK(hold[t], "late")
  BY <1>1 DEF PathInv, HandlesOK, HandAge
<1>6. Ready(text, c)
  <2>2. hold[t].info # <<>> => text # <<>> /\ text[Len(text)] = hold[t].info[Len(hold[t].info)]
    BY <1>2, LastOfConcat
  <2>3. Ready(hold[t].info, c)
    BY <1>5 DEF HandleOK
  <2> QED
    BY <2>2, <2>3 DEF Ready, Settled, Asks
<1> HIDE DEF h, c, text
<1>7. CASE Drop(t) /\ pc' = [pc EXCEPT ![t] = "take"]
  <2>1. \A u \in Threads : u # t => pc'[u] = pc[u]
    BY <1>7 DEF PathInv, OwnInv, IInv, TypeOK
  <2> QED
    BY <1>1, <1>3, <1>7, <2>1, EndPath
<1>8. CASE /\ hold' = [hold EXCEPT ![t] = h]
           /\ pc' = [pc EXCEPT ![t] = "reply"] \/ pc' = [pc EXCEPT ![t] = "push"]
  <2>1. /\ hold'[t] = h /\ pc'[t] \in {"reply", "push"}
        /\ \A u \in Threads : u # t => hold'[u] = hold[u] /\ pc'[u] = pc[u]
    BY <1>1, <1>8 DEF PathInv, OwnInv, IInv, TypeOK
  <2>2. HandAge(t)' = "late" /\ \A u \in Threads : u # t => HandAge(u)' = HandAge(u)
    BY <1>1, <2>1 DEF HandAge
  <2>3. HandleOK(h, "late")
    BY <1>4, <1>5, <1>6 DEF HandleOK, c
  <2>4. \A u \in Threads : hold'[u] # NoHandle => HandleOK(hold'[u], HandAge(u)')
    BY <2>1, <2>2, <2>3 DEF PathInv, HandlesOK
  <2>5. \A r \in Queues : \A k \in 1 .. Len(queue'[r]) : HandleOK(queue'[r][k], ListAge(r))
    BY <1>3 DEF PathInv, HandlesOK
  <2>6. HandlesOK'
    BY <1>3, <2>4, <2>5, SameWorld DEF HandlesOK, ListAge
  <2> QED
    BY <1>3, <2>6, SameWorld, SameBacklog DEF PathInv
<1> QED
  BY <1>3, <1>7, <1>8

\* The first reply to a connection, made of the text in hand.
LEMMA SendOkPath ==
  ASSUME PathInv, NEW t \in Workers, SendOk(t)
  PROVE  HandlesOK' /\ BacklogOK' /\ RepliesOK'
<1> DEFINE c == hold[t].remote
           text == hold[t].info
<1>1. /\ t \in Threads /\ t # acceptor /\ pc[t] \in {"reply", "send"} /\ hold[t] # NoHandle
  BY KindsOfThreads DEF SendOk, PathInv, OwnInv, IInv, Holding
<1>2. c \in Clients /\ fds[hold[t].sockfd] = c /\ Accepted(c)
  BY <1>1, HandTypesIn
<1>3. HandleOK(hold[t], "late")
  BY <1>1 DEF PathInv, HandlesOK, HandAge
<1>4. outbox[c] = <<>> /\ Ready(text, c)
  BY <1>3 DEF HandleOK
<1>5. /\ UNCHANGED <<clientVars, fds, queue, hold>>
      /\ outbox' = [outbox EXCEPT ![c] = Append(@, text)]
      /\ pc' = [pc EXCEPT ![t] = "close"]
  BY <1>2 DEF SendOk, Goto, queueVars
<1>6. /\ outbox'[c] = <<text>> /\ \A d \in Clients : d # c => outbox'[d] = outbox[d]
      /\ pc'[t] = "close" /\ \A u \in Threads : u # t => pc'[u] = pc[u]
  BY <1>1, <1>2, <1>4, <1>5 DEF PathInv, OwnInv, IInv, TypeOK
<1>7. Len(outbox'[c]) = 1 /\ outbox'[c][1] = text
  BY <1>6
<1> HIDE DEF c, text
<1>8. \A d : \A x : (Ready(x, d)' <=> Ready(x, d)) /\ (Fresh(d)' <=> Fresh(d)) /\ (Accepted(d)' <=> Accepted(d))
  BY <1>5 DEF Ready, Settled, Asks, Fresh, Accepted, clientVars
<1>9. ASSUME NEW g, NEW age, g.remote \in Clients, g.remote # c, HandleOK(g, age) PROVE HandleOK(g, age)'
  BY <1>6, <1>8, <1>9 DEF HandleOK
<1>10. /\ \A u \in Threads : u # t /\ hold[u] # NoHandle => hold[u].remote # c
       /\ \A q \in Queues : \A k \in 1 .. Len(queue[q]) : queue[q][k].remote # c
  BY <1>1, OtherRemotes DEF c
<1>11. /\ \A u \in Threads : hold[u] # NoHandle => hold[u].remote \in Clients
       /\ \A q \in Queues : \A k \in 1 .. Len(queue[q]) : queue[q][k].remote \in Clients
  BY HandTypesIn, QueueTypes DEF PathInv, OwnInv, Handles
<1>12. HandlesOK'
  <2>1. HandAge(t)' = "replied" /\ \A u \in Threads : u # t => HandAge(u)' = HandAge(u)
    BY <1>1, <1>6 DEF HandAge
  <2>2. \A u \in Threads : u # t /\ hold'[u] # NoHandle => HandleOK(hold[u], HandAge(u))'
    BY <1>5, <1>9, <1>10, <1>11, <2>1 DEF PathInv, HandlesOK
  <2>3. HandleOK(hold[t], HandAge(t))'
    BY <1>4, <1>5, <1>7, <1>8, <2>1 DEF HandleOK, c, text
  <2>4. \A q \in Queues : \A k \in 1 .. Len(queue'[q]) : HandleOK(queue[q][k], ListAge(q))'
    BY <1>5, <1>9, <1>10, <1>11 DEF PathInv, HandlesOK, ListAge
  <2> QED
    BY <2>2, <2>3, <2>4 DEF HandlesOK
<1>13. BacklogOK'
  <2>1. \A d \in Clients : Open(d)' <=> Open(d)
    BY <1>5 DEF Open
  <2>2. UNCHANGED <<peer, backlog, fds>>
    BY <1>5 DEF clientVars
  <2> QED
    BY <1>2, <1>6, <1>8, <2>1, <2>2 DEF PathInv, BacklogOK
<1>14. RepliesOK'
  <2>1. \A d \in Clients : \A i \in 1 .. Len(outbox'[d]) : Ready(outbox'[d][i], d)
    BY <1>4, <1>6, <1>7 DEF PathInv, RepliesOK
  <2>2. UNCHANGED <<unread, request>>
    BY <1>5 DEF clientVars
  <2> QED
    BY <1>8, <2>1, <2>2 DEF PathInv, RepliesOK
<1> QED
  BY <1>12, <1>13, <1>14

\* Connection c becomes an accepted one, on descriptor f.
Accepts(c, f) == /\ ~Accepted(c) /\ Accepted(c)'
                 /\ \A d \in Clients : d # c => (Accepted(d)' <=> Accepted(d))
                 /\ fds[f] = NoClient /\ fds' = [fds EXCEPT ![f] = c]
                 /\ UNCHANGED <<abandoned, outbox>>

\* The connection that has waited longest is taken up; it is in no handle yet.
LEMMA AcceptPath ==
  ASSUME PathInv, Accept
  PROVE  /\ HandlesOK' /\ BacklogOK' /\ RepliesOK'
         /\ \E c \in Clients, f \in Fds : Accepts(c, f)
<1> DEFINE n == Len(backlog)
<1>s. /\ backlog \in Seq(Clients) /\ n \in Nat /\ n >= 1 /\ backlog[1] \in Clients
  BY EmptySeq, LenProperties, ElementOfSeq DEF Accept, PathInv, OwnInv, IInv, TypeOK
<1>w. PICK c \in Clients : c = backlog[1]
  BY <1>s
<1>1. /\ backlog \in Seq(Clients) /\ n \in Nat /\ n >= 1 /\ c = backlog[1] /\ Head(backlog) = c
      /\ Len(Tail(backlog)) = n - 1
      /\ \A i \in 1 .. Len(Tail(backlog)) : Tail(backlog)[i] = backlog[i + 1]
  BY <1>s, <1>w, HeadTailProperties DEF Accept
<1>2. PICK f \in Fds : /\ f \in FreeFds
                       /\ fds' = [fds EXCEPT ![f] = c]
                       /\ hold' = [hold EXCEPT ![acceptor] =
                                      [sockfd |-> f, remote |-> c, info |-> <<>>]]
  BY <1>1 DEF Accept, IsLowest
<1>3. /\ backlog' = Tail(backlog) /\ pc' = [pc EXCEPT ![acceptor] = "push"]
      /\ UNCHANGED <<peer, request, unread, queue, outbox>>
  BY DEF Accept, Goto, queueVars
<1> DEFINE h == [sockfd |-> f, remote |-> c, info |-> <<>>]
<1>4. /\ h.remote = c /\ hold'[acceptor] = h /\ fds'[f] = c
      /\ \A g \in Fds : g # f => fds'[g] = fds[g]
      /\ \A u \in Threads : u # acceptor => hold'[u] = hold[u] /\ pc'[u] = pc[u]
  BY <1>2, <1>3, KindsOfThreads DEF PathInv, OwnInv, IInv, TypeOK
<1>5. ~Accepted(c)
  BY <1>1 DEF Accepted
<1>6. outbox[c] = <<>> /\ ~Open(c) /\ Fresh(c) /\ peer[c] # "new"
  BY <1>1, <1>5 DEF PathInv, BacklogOK
<1> HIDE DEF h
<1>7. /\ \A g, age : HandleOK(g, age)' <=> HandleOK(g, age)
      /\ \A d : Fresh(d)' <=> Fresh(d)
      /\ \A d : \A x : Ready(x, d)' <=> Ready(x, d)
  BY <1>3 DEF HandleOK, Fresh, Asks, Ready, Settled
<1>8. HandlesOK'
  <2>1. HandAge(acceptor)' = "early" /\ \A u \in Threads : u # acceptor => HandAge(u)' = HandAge(u)
    BY <1>4 DEF HandAge
  <2>2. HandleOK(h, "early")
    BY <1>4, <1>6 DEF HandleOK
  <2>3. \A u \in Threads : hold'[u] # NoHandle => HandleOK(hold'[u], HandAge(u)')
    BY <1>4, <2>1, <2>2 DEF PathInv, HandlesOK
  <2>4. \A q \in Queues : \A k \in 1 .. Len(queue'[q]) : HandleOK(queue'[q][k], ListAge(q))
    BY <1>3 DEF PathInv, HandlesOK
  <2> QED
    BY <1>7, <2>3, <2>4 DEF HandlesOK, ListAge
<1>9. \A i \in 1 .. Len(backlog') : i + 1 \in 1 .. n /\ i + 1 # 1 /\ backlog'[i] = backlog[i + 1]
  BY <1>1, <1>3
<1>10. \A i \in 1 .. Len(backlog') : peer'[backlog'[i]] # "new" /\ backlog'[i] # c
  BY <1>1, <1>3, <1>9 DEF PathInv, BacklogOK
<1>11. Accepts(c, f)
  <2>1. Accepted(c)'
    BY <1>3, <1>6, <1>10 DEF Accepted
  <2>2. ASSUME NEW d \in Clients, d # c, ~Accepted(d)' PROVE ~Accepted(d)
    <3>1. peer'[d] = "new" \/ \E i \in 1 .. Len(backlog') : backlog'[i] = d
      BY <2>2 DEF Accepted
    <3> QED
      BY <1>3, <1>9, <3>1 DEF Accepted
  <2>3. ASSUME NEW d \in Clients, d # c, ~Accepted(d) PROVE ~Accepted(d)'
    <3>1. peer[d] = "new" \/ \E i \in 1 .. n : backlog[i] = d
      BY <2>3 DEF Accepted
    <3>2. \A i \in 1 .. n : i # 1 => i - 1 \in 1 .. Len(backlog') /\ backlog'[i - 1] = backlog[i]
      BY <1>1, <1>3, <1>9
    <3> QED
      BY <1>1, <1>3, <2>3, <3>1, <3>2 DEF Accepted
  <2> QED
    BY <1>2, <1>3, <1>5, <2>1, <2>2, <2>3 DEF Accepts, FreeFds, Accept
<1>12. BacklogOK'
  <2>1. \A i, j \in 1 .. Len(backlog') : backlog'[i] = backlog'[j] => i = j
    BY <1>1, <1>3, <1>9 DEF PathInv, BacklogOK
  <2>2. \A d \in Clients : d # c => (Open(d)' <=> Open(d))
    BY <1>2, <1>4, ValuesAssumption DEF Open, FreeFds
  <2>3. \A g, k \in Fds : fds'[g] = fds'[k] /\ fds'[g] # NoClient => g = k
    BY <1>4, <1>6 DEF Open, PathInv, BacklogOK
  <2>4. \A d \in Clients : ~Accepted(d)' => outbox'[d] = <<>> /\ ~Open(d)' /\ Fresh(d)'
    BY <1>3, <1>7, <1>11, <2>2 DEF PathInv, BacklogOK, Accepts
  <2> QED
    BY <1>10, <2>1, <2>3, <2>4 DEF BacklogOK
<1>13. RepliesOK'
  BY <1>3, <1>7 DEF PathInv, RepliesOK
<1> QED
  BY <1>8, <1>11, <1>12, <1>13

-----------------------------------------------------------------------------
LEMMA InitPath == ASSUME Init PROVE PathInv
<1>1. OwnInv
  BY InitOwns
<1>2. HandlesOK /\ RepliesOK
  BY DEF Init, HandlesOK, RepliesOK
<1>3. BacklogOK
  BY ValuesAssumption DEF Init, BacklogOK, Open, Fresh, Asks
<1> QED
  BY <1>1, <1>2, <1>3 DEF PathInv

LEMMA WaitPath ==
  ASSUME PathInv, NEW t \in Workers, Wait(t) \/ SpuriousWake(t)
  PROVE  HandlesOK' /\ BacklogOK' /\ RepliesOK'
<1>1. CASE Sleep(t) \/ SpuriousWake(t)
  <2>1. UNCHANGED <<clientVars, fds, outbox, queue, hold, pc>> /\ t \in Threads
    BY <1>1, KindsOfThreads DEF Sleep, SpuriousWake
  <2>2. HandAge(t)' = HandAge(t)
    BY <2>1 DEF HandAge
  <2> QED
    BY <2>1, <2>2, StayPath
<1> QED
  BY <1>1, TakePath DEF Wait

LEMMA ReplyPath ==
  ASSUME PathInv, NEW t \in Workers, Reply(t)
  PROVE  HandlesOK' /\ BacklogOK' /\ RepliesOK'
<1>1. t \in Threads /\ t # acceptor
  BY KindsOfThreads
<1>2. CASE SendFails(t) \/ SendKills(t)
  <2>1. /\ UNCHANGED <<clientVars, fds, outbox, queue, hold>> /\ pc[t] \in {"reply", "send"}
        /\ pc' = pc \/ pc' = [pc EXCEPT ![t] = "push"] \/ pc' = [pc EXCEPT ![t] = "close"]
    BY <1>2 DEF SendFails, SendKills, Goto, queueVars
  <2>2. pc'[t] \in {"reply", "send", "push", "close"} /\ \A u \in Threads : u # t => pc'[u] = pc[u]
    BY <1>1, <2>1 DEF PathInv, OwnInv, IInv, TypeOK
  <2>3. HandAge(t) = "late" /\ HandAge(t)' \in {"late", "replied"}
    BY <1>1, <2>1, <2>2 DEF HandAge
  <2> QED
    BY <1>1, <2>1, <2>2, <2>3, StayPath
<1> QED
  BY <1>2, SendOkPath DEF Reply

LEMMA NextPath == ASSUME PathInv, [Next]_vars PROVE PathInv'
<1> USE DEF OwnInv, IInv
<1>1. OwnInv'
  BY NextOwns DEF PathInv
<1>2. /\ pc \in [Threads -> Steps]
      /\ \A t \in Threads : pc[t] \notin {"accept", "take", "done"} => hold[t] # NoHandle
  BY DEF PathInv, TypeOK, Holding
<1>3. {"accept_all_sockfd", "all_user_info", "send_tcp_info"} = Queues
  BY DEF Queues
<1> SUFFICES HandlesOK' /\ BacklogOK' /\ RepliesOK'
  BY <1>1 DEF PathInv
<1>4. CASE UNCHANGED vars
  <2>1. UNCHANGED <<clientVars, fds, outbox, queue, hold, pc>> /\ acceptor \in Threads
    BY <1>4, KindsOfThreads DEF vars, queueVars
  <2>2. HandAge(acceptor)' = HandAge(acceptor)
    BY <2>1 DEF HandAge
  <2> QED
    BY <2>1, <2>2, StayPath
<1>5. CASE Net
  <2>1. CASE PushSock
    <3>1. /\ Push("accept_all_sockfd", hold[acceptor]) /\ Drop(acceptor)
          /\ hold[acceptor] # NoHandle /\ UNCHANGED <<clientVars, fds, outbox>>
          /\ \A u \in Threads : u # acceptor => pc'[u] = pc[u]
      BY <1>2, <2>1, KindsOfThreads DEF PushSock, Goto
    <3>2. ListAge("accept_all_sockfd") = HandAge(acceptor)
      BY DEF ListAge, HandAge
    <3> QED
      BY <1>3, <3>1, <3>2, KindsOfThreads, PushPath
  <2> QED
    BY <1>5, <2>1, AcceptPath DEF Net
<1>6. ASSUME NEW t \in Receivers, Receive(t) PROVE HandlesOK' /\ BacklogOK' /\ RepliesOK'
  <2>1. CASE PushInfo(t)
    <3>1. /\ Push("all_user_info", hold[t]) /\ Drop(t) /\ pc[t] = "push"
          /\ hold[t] # NoHandle /\ UNCHANGED <<clientVars, fds, outbox>>
          /\ \A u \in Threads : u # t => pc'[u] = pc[u]
      BY <1>2, <2>1, KindsOfThreads DEF PushInfo, Goto
    <3>2. ListAge("all_user_info") = HandAge(t)
      BY <3>1, KindsOfThreads DEF ListAge, HandAge
    <3> QED
      BY <1>3, <3>1, <3>2, KindsOfThreads, PushPath
  <2> QED
    BY <1>6, <2>1, KindsOfThreads, WaitPath, RecvPath DEF Receive
<1>7. ASSUME NEW t \in Disposers, Handle(t) PROVE HandlesOK' /\ BacklogOK' /\ RepliesOK'
  <2>1. CASE PushReply(t)
    <3>1. /\ Push("send_tcp_info", hold[t]) /\ Drop(t) /\ pc[t] = "push"
          /\ hold[t] # NoHandle /\ UNCHANGED <<clientVars, fds, outbox>>
          /\ \A u \in Threads : u # t => pc'[u] = pc[u]
      BY <1>2, <2>1, KindsOfThreads DEF PushReply, Goto
    <3>2. ListAge("send_tcp_info") = HandAge(t)
      BY <3>1, KindsOfThreads DEF ListAge, HandAge
    <3> QED
      BY <1>3, <3>1, <3>2, KindsOfThreads, PushPath
  <2>2. CASE CloseReplied(t)
    <3>1. /\ fds' = [fds EXCEPT ![hold[t].sockfd] = NoClient] /\ Drop(t)
          /\ hold[t] # NoHandle /\ UNCHANGED <<clientVars, outbox, queue>>
          /\ \A u \in Threads : u # t => pc'[u] = pc[u]
      BY <1>2, <2>2, KindsOfThreads DEF CloseReplied, CloseSock, Goto, queueVars
    <3> QED
      BY <3>1, KindsOfThreads, EndPath
  <2> QED
    BY <1>7, <2>1, <2>2, KindsOfThreads, WaitPath, ReplyPath, DisposePath DEF Handle
<1>8. CASE SendTcp
  <2>1. CASE SenderRetry
    <3>1. /\ Push("send_tcp_info", hold[sender]) /\ Drop(sender) /\ pc[sender] = "push"
          /\ hold[sender] # NoHandle /\ UNCHANGED <<clientVars, fds, outbox>>
          /\ \A u \in Threads : u # sender => pc'[u] = pc[u]
      BY <1>2, <2>1, KindsOfThreads DEF SenderRetry, SendReturns, Goto
    <3>2. ListAge("send_tcp_info") = HandAge(sender)
      BY <3>1, KindsOfThreads DEF ListAge, HandAge
    <3> QED
      BY <1>3, <3>1, <3>2, KindsOfThreads, PushPath
  <2>2. CASE SenderClose
    <3>1. /\ fds' = [fds EXCEPT ![hold[sender].sockfd] = NoClient] /\ Drop(sender)
          /\ hold[sender] # NoHandle /\ UNCHANGED <<clientVars, outbox, queue>>
          /\ \A u \in Threads : u # sender => pc'[u] = pc[u]
      BY <1>2, <2>2, KindsOfThreads DEF SenderClose, SendReturns, CloseSock, Goto, queueVars
    <3> QED
      BY <3>1, KindsOfThreads, EndPath
  <2> QED
    BY <1>8, <2>1, <2>2, KindsOfThreads, WaitPath, ReplyPath DEF SendTcp
<1> QED
  BY <1>4, <1>5, <1>6, <1>7, <1>8, ClientPath, WaitPath DEF Next, Wakes

LEMMA PathInvariance == Spec => []PathInv
  BY InitPath, NextPath, PTL DEF Spec

\* A reply written to a connection was made from a text that ends with the request of that
\* connection's client, whatever the threads interleave.
THEOREM RepliesAreOwn == Spec => []ReplyToRequester
<1>1. PathInv => ReplyToRequester
  BY DEF PathInv, RepliesOK, Ready, Asks, ReplyToRequester
<1> QED
  BY <1>1, PathInvariance, PTL

-----------------------------------------------------------------------------
(* The refinement, by what a step does to the stage of a connection *)

LEMMA StageAt ==
  /\ stage = [c \in Clients |-> StageOf(c)]
  /\ stage' = [c \in Clients |-> StageOf(c)']
BY DEF stage

\* The parts of the state the stage of c is made of.
SameStage(c) == /\ Accepted(c)' <=> Accepted(c)
                /\ Open(c)' <=> Open(c)
                /\ Abandoned(c)' <=> Abandoned(c)
                /\ outbox'[c] = outbox[c]

LEMMA StageStays ==
  ASSUME \A c \in Clients : SameStage(c)
  PROVE  UNCHANGED stage
<1>1. \A c \in Clients : StageOf(c)' = StageOf(c)
  BY DEF SameStage, StageOf
<1> QED
  BY <1>1, StageAt

LEMMA StageMoves ==
  ASSUME NEW c \in Clients, \A d \in Clients : d # c => SameStage(d),
         NEW a, NEW b, stage[c] = a, stage'[c] = b
  PROVE  Life!Move(c, a, b)
<1>1. \A d \in Clients : d # c => StageOf(d)' = StageOf(d)
  BY DEF SameStage, StageOf
<1> QED
  BY <1>1, StageAt DEF Life!Move

\* The descriptor of a handle is the only one of its connection.
LEMMA OneFd ==
  ASSUME PathInv, NEW t \in Threads, hold[t] # NoHandle
  PROVE  /\ \A f \in Fds : fds[f] = hold[t].remote <=> f = hold[t].sockfd
         /\ ~Abandoned(hold[t].remote) /\ abandoned \subseteq Fds
<1>1. \A f \in Fds : fds[f] = hold[t].remote <=> f = hold[t].sockfd
  BY HandTypesIn, ValuesAssumption DEF PathInv, BacklogOK
<1>2. abandoned \subseteq Fds
  BY DEF PathInv, OwnInv, IInv, TypeOK
<1> QED
  BY <1>1, <1>2, HandTypesIn DEF Abandoned

LEMMA AcceptsLife ==
  ASSUME PathInv, PathInv', NEW c \in Clients, NEW f \in Fds, Accepts(c, f)
  PROVE  Life!TakeUp(c)
<1>1. /\ fds \in [Fds -> Clients \union {NoClient}] /\ abandoned \subseteq Fds /\ c # NoClient
      /\ fds[f] = NoClient /\ f \notin abandoned
  BY ValuesAssumption DEF PathInv, OwnInv, IInv, TypeOK, Accepts, Owned
<1>2. fds'[f] = c /\ \A g \in Fds : g # f => fds'[g] = fds[g]
  BY <1>1 DEF Accepts
<1>3. /\ ~Accepted(c) /\ outbox[c] = <<>> /\ ~Open(c) /\ Accepted(c)'
      /\ abandoned' = abandoned /\ outbox' = outbox
  BY DEF PathInv, BacklogOK, Accepts
<1>4. Open(c)' /\ ~Abandoned(c)'
  BY <1>1, <1>2, <1>3 DEF Open, Abandoned
<1>5. ASSUME NEW d \in Clients, d # c PROVE SameStage(d)
  <2>1. (Open(d)' <=> Open(d)) /\ (Abandoned(d)' <=> Abandoned(d))
    BY <1>1, <1>2, <1>3, <1>5, ValuesAssumption DEF Open, Abandoned
  <2> QED
    BY <1>3, <1>5, <2>1 DEF SameStage, Accepts
<1>6. stage[c] = "out" /\ stage'[c] = "open"
  <2>1. Len(outbox'[c]) = 0
    BY <1>3
  <2> QED
    BY <1>3, <1>4, <2>1, StageAt DEF StageOf
<1> QED
  BY <1>5, <1>6, StageMoves DEF Life!TakeUp

LEMMA SendOkLife ==
  ASSUME PathInv, NEW t \in Workers, SendOk(t)
  PROVE  \E c \in Clients : Life!Answer(c)
<1>1. t \in Threads /\ t # acceptor /\ pc[t] \in {"reply", "send"} /\ hold[t] # NoHandle
  BY KindsOfThreads DEF SendOk, PathInv, OwnInv, IInv, Holding
<1>2. PICK c \in Clients : c = hold[t].remote
  BY <1>1, HandTypesIn
<1>3. fds[hold[t].sockfd] = c /\ Accepted(c) /\ Open(c) /\ ~Abandoned(c)
  BY <1>1, <1>2, HandTypesIn, OneFd
<1>4. outbox[c] = <<>>
  BY <1>1, <1>2 DEF PathInv, HandlesOK, HandAge, HandleOK
<1>5. /\ UNCHANGED <<clientVars, fds, abandoned>>
      /\ outbox' = [outbox EXCEPT ![c] = Append(@, hold[t].info)]
  BY <1>3 DEF SendOk
<1>6. outbox'[c] = <<hold[t].info>> /\ \A d \in Clients : d # c => outbox'[d] = outbox[d]
  BY <1>4, <1>5 DEF PathInv, OwnInv, IInv, TypeOK
<1>7. \A d : (Accepted(d)' <=> Accepted(d)) /\ (Open(d)' <=> Open(d)) /\ (Abandoned(d)' <=> Abandoned(d))
  BY <1>5 DEF clientVars, Accepted, Open, Abandoned
<1>8. Len(outbox[c]) = 0 /\ Len(outbox'[c]) = 1
  BY <1>4, <1>6
<1>9. Accepted(c)' /\ Open(c)' /\ ~Abandoned(c)'
  BY <1>3, <1>7
<1>10. stage[c] = "open" /\ stage'[c] = "answered"
  <2>1. StageOf(c) = "open"
    BY <1>3, <1>8 DEF StageOf
  <2>2. StageOf(c)' = "answered"
    BY <1>8, <1>9 DEF StageOf
  <2> QED
    BY <2>1, <2>2, StageAt
<1> QED
  BY <1>6, <1>7, <1>10, StageMoves DEF SameStage, Life!Answer

LEMMA ClosesLife ==
  ASSUME PathInv, NEW t \in Threads, Closes(t), UNCHANGED <<peer, backlog, outbox>>
  PROVE  \E c \in Clients : Life!Finish(c) \/ Life!GiveUp(c)
<1>1. hold[t] # NoHandle
  BY DEF Closes
<1>2. PICK c \in Clients, f \in Fds : c = hold[t].remote /\ f = hold[t].sockfd
  BY <1>1, HandTypesIn
<1>3. /\ Accepted(c) /\ Open(c) /\ ~Abandoned(c) /\ c # NoClient /\ abandoned \subseteq Fds
      /\ \A g \in Fds : fds[g] = c <=> g = f
  BY <1>1, <1>2, HandTypesIn, OneFd, ValuesAssumption
<1>4. /\ fds'[f] = NoClient /\ \A g \in Fds : g # f => fds'[g] = fds[g]
      /\ abandoned' = abandoned
  BY <1>2 DEF Closes, PathInv, OwnInv, IInv, TypeOK
<1>5. \A d : Accepted(d)' <=> Accepted(d)
  BY DEF Accepted
<1>6. ~Open(c)'
  BY <1>3, <1>4 DEF Open
<1>7. ASSUME NEW d \in Clients, d # c PROVE SameStage(d)
  <2>1. \A g \in Fds : fds'[g] = d <=> fds[g] = d
    BY <1>2, <1>3, <1>4, <1>7, ValuesAssumption
  <2> QED
    BY <1>3, <1>4, <1>5, <2>1 DEF SameStage, Open, Abandoned
<1>8. Len(outbox[c]) \in {0, 1}
  <2>1. Len(outbox[c]) <= 1 /\ outbox[c] \in Seq(Texts)
    BY <1>1, <1>2 DEF PathInv, HandlesOK, HandleOK, OwnInv, IInv, TypeOK
  <2>2. Len(outbox[c]) \in Nat
    BY <2>1, LenProperties
  <2>3. \A n \in Nat : n <= 1 => n \in {0, 1}
    OBVIOUS
  <2> QED
    BY <2>1, <2>2, <2>3
<1>9. stage[c] \in {"open", "answered"} /\ stage'[c] = "closed"
  BY <1>3, <1>5, <1>6, <1>8, StageAt DEF StageOf
<1> QED
  BY <1>7, <1>9, StageMoves DEF Life!Finish, Life!GiveUp

LEMMA ForgetsLife ==
  ASSUME PathInv, NEW t \in Disposers, pc[t] = "handle", Forgets(t),
         UNCHANGED <<peer, backlog, outbox>>
  PROVE  \E c \in Clients : Life!Abandon(c)
<1>1. hold[t] # NoHandle /\ t \in Threads /\ t # acceptor
  BY KindsOfThreads DEF Forgets
<1>2. PICK c \in Clients, f \in Fds : c = hold[t].remote /\ f = hold[t].sockfd
  BY <1>1, HandTypesIn
<1>3. /\ Accepted(c) /\ Open(c) /\ ~Abandoned(c)
      /\ abandoned \subseteq Fds /\ \A g \in Fds : fds[g] = c <=> g = f
  BY <1>1, <1>2, HandTypesIn, OneFd
<1>4. outbox[c] = <<>>
  BY <1>1, <1>2 DEF PathInv, HandlesOK, HandAge, HandleOK
<1>5. fds' = fds /\ abandoned' = abandoned \union {f}
  BY <1>2 DEF Forgets
<1>6. \A d : (Accepted(d)' <=> Accepted(d)) /\ (Open(d)' <=> Open(d))
  BY <1>5 DEF Accepted, Open
<1>7. Abandoned(c)' /\ \A d : d # c => (Abandoned(d)' <=> Abandoned(d))
  BY <1>3, <1>5 DEF Abandoned
<1>8. stage[c] = "open" /\ stage'[c] = "abandoned"
  <2>1. Len(outbox[c]) = 0
    BY <1>4
  <2> QED
    BY <1>3, <1>6, <1>7, <2>1, StageAt DEF StageOf
<1> QED
  BY <1>6, <1>7, <1>8, StageMoves DEF SameStage, Life!Abandon

\* A step that touches neither descriptors nor replies leaves every stage as it is.
LEMMA QuietLife ==
  ASSUME UNCHANGED <<fds, abandoned, outbox>>, \A c \in Clients : Accepted(c)' <=> Accepted(c)
  PROVE  UNCHANGED stage
BY StageStays DEF SameStage, Open, Abandoned

LEMMA QuietBacklog ==
  ASSUME UNCHANGED <<fds, abandoned, outbox>>, UNCHANGED <<peer, backlog>>
  PROVE  UNCHANGED stage
BY QuietLife DEF Accepted

LEMMA InitLife == ASSUME Init PROVE Life!Init
<1>1. \A c \in Clients : ~Accepted(c)
  BY DEF Init, Accepted
<1> QED
  BY <1>1, StageAt DEF StageOf, Life!Init

LEMMA NextLife ==
  ASSUME PathInv, PathInv', [Next]_vars
  PROVE  [Life!Next]_(Life!vars)
<1> USE DEF OwnInv, IInv
<1> SUFFICES Life!Next \/ UNCHANGED stage
  BY DEF Life!vars
<1>1. \A c \in Clients :
        Life!TakeUp(c) \/ Life!Answer(c) \/ Life!Finish(c) \/ Life!GiveUp(c) \/ Life!Abandon(c)
          => Life!Next
  BY DEF Life!Next
<1>2. \A t \in Threads : pc[t] \notin {"accept", "take", "done"} => hold[t] # NoHandle
  BY DEF PathInv, Holding
<1>3. ASSUME NEW t \in Workers, Wait(t) \/ SpuriousWake(t) PROVE UNCHANGED stage
  BY <1>3, QuietBacklog DEF Wait, Take, Sleep, SpuriousWake, clientVars
<1>4. ASSUME NEW t \in Workers, Reply(t) PROVE Life!Next \/ UNCHANGED stage
  <2>1. CASE SendFails(t) \/ SendKills(t)
    BY <2>1, QuietBacklog DEF SendFails, SendKills, clientVars
  <2> QED
    BY <1>1, <1>4, <2>1, SendOkLife DEF Reply
<1>5. CASE ClientNext
  BY <1>5, ClientPath, QuietLife
  DEF ClientNext, Connect, SendRequest, Close, Reset, serverVars
<1>6. CASE UNCHANGED vars
  BY <1>6, QuietBacklog DEF vars, clientVars
<1>7. CASE Net
  <2>1. CASE PushSock
    BY <2>1, QuietBacklog DEF PushSock, clientVars
  <2> QED
    BY <1>1, <1>7, <2>1, AcceptPath, AcceptsLife DEF Net
<1>8. ASSUME NEW t \in Receivers, Receive(t) PROVE UNCHANGED stage
  BY <1>3, <1>8, KindsOfThreads, QuietBacklog DEF Receive, Recv, PushInfo, clientVars
<1>9. ASSUME NEW t \in Disposers, Handle(t) PROVE Life!Next \/ UNCHANGED stage
  <2>1. CASE PushReply(t)
    BY <2>1, QuietBacklog DEF PushReply, clientVars
  <2>2. CASE CloseReplied(t)
    <3>1. Closes(t) /\ UNCHANGED <<peer, backlog, outbox>> /\ t \in Threads
      BY <1>2, <2>2, KindsOfThreads DEF CloseReplied, CloseSock, Drop, Closes, clientVars, queueVars
    <3> QED
      BY <1>1, <3>1, ClosesLife
  <2>3. CASE Dispose(t)
    <3>1. /\ pc[t] = "handle" /\ hold[t] # NoHandle /\ UNCHANGED <<peer, backlog, outbox, fds, queue>>
          /\ \/ UNCHANGED abandoned
             \/ Drop(t) /\ abandoned' = abandoned \union {hold[t].sockfd}
      BY <1>2, <2>3, KindsOfThreads DEF Dispose, clientVars, queueVars
    <3> QED
      BY <1>1, <3>1, ForgetsLife, QuietBacklog DEF Forgets, Drop
  <2> QED
    BY <1>3, <1>4, <1>9, <2>1, <2>2, <2>3, KindsOfThreads DEF Handle
<1>10. CASE SendTcp
  <2>1. CASE SenderRetry
    BY <2>1, QuietBacklog DEF SenderRetry, clientVars
  <2>2. CASE SenderClose
    <3>1. Closes(sender) /\ UNCHANGED <<peer, backlog, outbox>> /\ sender \in Threads
      BY <1>2, <2>2, KindsOfThreads DEF SenderClose, CloseSock, Drop, Closes, clientVars, queueVars
    <3> QED
      BY <1>1, <3>1, ClosesLife
  <2> QED
    BY <1>3, <1>4, <1>10, <2>1, <2>2, KindsOfThreads DEF SendTcp
<1> QED
  BY <1>3, <1>5, <1>6, <1>7, <1>8, <1>9, <1>10 DEF Next, Wakes

\* The pipeline implements the life of a request: a connection is taken up once, gets one
\* answer at most and is closed or forgotten once, however the threads interleave.
THEOREM ImplementsRequestLife == Spec => LifeOfRequest
<1>1. Init => Life!Init
  BY InitLife
<1>2. PathInv /\ PathInv' /\ [Next]_vars => [Life!Next]_(Life!vars)
  BY NextLife
<1> QED
  BY <1>1, <1>2, PathInvariance, PTL DEF Spec, LifeOfRequest, Life!Spec
-----------------------------------------------------------------------------
(* A connection that is closed was answered. *)

Served(c) == outbox[c] # <<>> \/ peer[c] = "reset"

\* Whoever is about to close a descriptor has answered its client, or the send failed.
Closing == \A t \in Threads : pc[t] = "close" => Served(hold[t].remote)

\* The steps, by what they do to those that close: clients and sleepers, nothing; a
\* thread that comes to another step than the close; a thread that closes.
Only(t)  == \A u \in Threads : u # t => pc'[u] = pc[u] /\ hold'[u] = hold[u]
Quiet    == /\ UNCHANGED <<pc, hold, fds, outbox>>
            /\ \A c \in Clients : /\ Accepted(c)' <=> Accepted(c)
                                  /\ peer[c] = "reset" => peer'[c] = "reset"
Still(t) == Only(t) /\ pc'[t] # "close" /\ UNCHANGED <<fds, outbox, peer, backlog>>
Shuts(t) == /\ Only(t) /\ pc[t] = "close" /\ pc'[t] # "close" /\ hold[t] # NoHandle
            /\ fds' = [fds EXCEPT ![hold[t].sockfd] = NoClient]
            /\ UNCHANGED <<outbox, peer, backlog>>

AnswerStep == \/ Quiet \/ Accept
              \/ \E t \in Threads : Still(t) \/ Shuts(t)
              \/ \E t \in Workers : SendOk(t) \/ SendFails(t)

LEMMA StepsOfAnswers == ASSUME PathInv, [Next]_vars PROVE AnswerStep
<1> USE DEF OwnInv, IInv
<1>1. /\ pc \in [Threads -> Steps] /\ hold \in [Threads -> Handles \union {NoHandle}]
      /\ \A t \in Threads : pc[t] \notin {"accept", "take", "done"} => hold[t] # NoHandle
  BY DEF PathInv, TypeOK, Holding
<1>2. ASSUME NEW t \in Workers, Wait(t) \/ SpuriousWake(t) PROVE AnswerStep
  <2>1. CASE Take(t)
    <3>1. Still(t)
      BY <1>1, <2>1, KindsOfThreads DEF Take, Goto, AfterTake, Still, Only, clientVars
    <3> QED
      BY <3>1, KindsOfThreads DEF AnswerStep
  <2>2. CASE Sleep(t) \/ SpuriousWake(t)
    BY <2>2 DEF Sleep, SpuriousWake, AnswerStep, Quiet, Accepted, clientVars
  <2> QED
    BY <1>2, <2>1, <2>2 DEF Wait
<1>3. ASSUME NEW t \in Workers, Reply(t) PROVE AnswerStep
  BY <1>3 DEF Reply, SendKills, AnswerStep, Quiet, Accepted, clientVars
<1>4. CASE ClientNext
  <2>1. UNCHANGED <<pc, hold, fds, outbox>>
    BY <1>4 DEF ClientNext, Connect, SendRequest, Close, Reset, serverVars
  <2>2. \A c \in Clients : peer[c] = "reset" => peer'[c] = "reset"
    BY <1>4 DEF ClientNext, Connect, SendRequest, Close, Reset, PathInv, TypeOK
  <2> QED
    BY <1>4, <2>1, <2>2, ClientPath DEF AnswerStep, Quiet
<1>5. CASE UNCHANGED vars
  BY <1>5 DEF vars, clientVars, AnswerStep, Quiet, Accepted
<1>6. CASE Net
  <2>1. CASE PushSock
    <3>1. Still(acceptor)
      BY <1>1, <2>1, KindsOfThreads DEF PushSock, Drop, Goto, Still, Only, clientVars
    <3> QED
      BY <3>1, KindsOfThreads DEF AnswerStep
  <2> QED
    BY <1>6, <2>1 DEF Net, AnswerStep
<1>7. ASSUME NEW t \in Receivers, Receive(t) PROVE AnswerStep
  <2>1. CASE Recv(t) \/ PushInfo(t)
    <3>1. Still(t)
      BY <1>1, <2>1, KindsOfThreads DEF Recv, PushInfo, Drop, Goto, Still, Only, clientVars
    <3> QED
      BY <3>1, KindsOfThreads DEF AnswerStep
  <2> QED
    BY <1>2, <1>7, <2>1, KindsOfThreads DEF Receive
<1>8. ASSUME NEW t \in Disposers, Handle(t) PROVE AnswerStep
  <2>1. CASE Dispose(t) \/ PushReply(t)
    <3>1. Still(t)
      BY <1>1, <2>1, KindsOfThreads DEF Dispose, PushReply, Drop, Goto, Still, Only, clientVars
    <3> QED
      BY <3>1, KindsOfThreads DEF AnswerStep
  <2>2. CASE CloseReplied(t)
    <3>1. Shuts(t)
      BY <1>1, <2>2, KindsOfThreads DEF CloseReplied, CloseSock, Drop, Goto, Shuts, Only, clientVars
    <3> QED
      BY <3>1, KindsOfThreads DEF AnswerStep
  <2> QED
    BY <1>2, <1>3, <1>8, <2>1, <2>2, KindsOfThreads DEF Handle
<1>9. CASE SendTcp
  <2>1. CASE SenderRetry
    <3>1. Still(sender)
      BY <1>1, <2>1, KindsOfThreads
      DEF SenderRetry, SendReturns, Drop, Goto, Still, Only, clientVars
    <3> QED
      BY <3>1, KindsOfThreads DEF AnswerStep
  <2>2. CASE SenderClose
    <3>1. Shuts(sender)
      BY <1>1, <2>2, KindsOfThreads
      DEF SenderClose, SendReturns, CloseSock, Drop, Goto, Shuts, Only, clientVars
    <3> QED
      BY <3>1, KindsOfThreads DEF AnswerStep
  <2> QED
    BY <1>2, <1>3, <1>9, <2>1, <2>2, KindsOfThreads DEF SendTcp
<1> QED
  BY <1>2, <1>4, <1>5, <1>6, <1>7, <1>8, <1>9 DEF Next, Wakes

\* A step that neither answers nor closes keeps what was served.
LEMMA StaysServed ==
  ASSUME PathInv, Closing, ClosedAnswered, NEW t \in Threads, Only(t), pc'[t] # "close",
         UNCHANGED <<fds, outbox, peer, backlog>>
  PROVE  Closing' /\ ClosedAnswered'
<1>1. Closing'
  BY DEF Only, Closing, Served
<1>2. \A c \in Clients : (Accepted(c)' <=> Accepted(c)) /\ (Open(c)' <=> Open(c))
  BY DEF Accepted, Open
<1> QED
  BY <1>1, <1>2 DEF ClosedAnswered

\* The send that answers a client, or finds that it has reset, makes it served.
LEMMA SendServes ==
  ASSUME PathInv, Closing, ClosedAnswered, NEW t \in Workers, SendOk(t) \/ SendFails(t)
  PROVE  Closing' /\ ClosedAnswered'
<1>1. /\ t \in Threads /\ hold[t] # NoHandle
      /\ UNCHANGED <<peer, backlog, fds, hold>>
  BY KindsOfThreads DEF SendOk, SendFails, PathInv, OwnInv, IInv, Holding, clientVars
<1>2. PICK c \in Clients : c = hold[t].remote
  BY <1>1, HandTypesIn
<1>3. fds[hold[t].sockfd] = c /\ c # NoClient
  BY <1>1, <1>2, HandTypesIn, ValuesAssumption
<1>4. \A u \in Threads : u # t => pc'[u] = pc[u]
  BY DEF SendOk, SendFails, Goto, PathInv, OwnInv, IInv, TypeOK
<1>5. Served(c)' /\ \A d \in Clients : Served(d) => Served(d)'
  <2>1. CASE SendOk(t)
    <3>1. outbox' = [outbox EXCEPT ![c] = Append(@, hold[t].info)]
      BY <1>3, <2>1 DEF SendOk
    <3>2. outbox[c] \in Seq(Texts)
      BY DEF PathInv, OwnInv, IInv, TypeOK
    <3>3. hold[t].info \in Texts
      BY <1>1, HandTypesIn DEF Handles
    <3>4. Append(outbox[c], hold[t].info) # <<>>
      BY <3>2, <3>3, AppendProperties
    <3> QED
      BY <1>1, <3>1, <3>4 DEF Served, PathInv, OwnInv, IInv, TypeOK
  <2>2. CASE SendFails(t)
    BY <1>1, <1>3, <2>2 DEF SendFails, Broken, Served
  <2> QED
    BY <2>1, <2>2
<1>6. Closing'
  <2> SUFFICES ASSUME NEW u \in Threads, pc'[u] = "close" PROVE Served(hold[u].remote)'
    BY DEF Closing
  <2>1. CASE u = t
    BY <1>1, <1>2, <1>5, <2>1
  <2>2. CASE u # t
    <3>1. pc[u] = "close" /\ hold[u] # NoHandle
      BY <1>4, <2>2 DEF PathInv, OwnInv, IInv, Holding
    <3>2. PICK d \in Clients : d = hold[u].remote
      BY <3>1, HandTypesIn
    <3>3. Served(d)'
      BY <1>5, <3>1, <3>2 DEF Closing
    <3> QED
      BY <1>1, <3>2, <3>3
  <2> QED
    BY <2>1, <2>2
<1>7. \A d \in Clients : (Accepted(d)' <=> Accepted(d)) /\ (Open(d)' <=> Open(d))
  BY <1>1 DEF Accepted, Open
<1> QED
  BY <1>5, <1>6, <1>7 DEF ClosedAnswered, Served

LEMMA NextServed ==
  ASSUME PathInv, Closing, ClosedAnswered, [Next]_vars
  PROVE  Closing' /\ ClosedAnswered'
<1>1. CASE Quiet
  <2>1. \A c \in Clients : Served(c) => Served(c)'
    BY <1>1 DEF Quiet, Served
  <2>2. \A t \in Threads : pc[t] = "close" => hold[t].remote \in Clients
    BY HandTypesIn DEF PathInv, OwnInv, IInv, Holding
  <2>3. Closing'
    BY <1>1, <2>1, <2>2 DEF Quiet, Closing, Served
  <2>4. \A c \in Clients : (Accepted(c)' <=> Accepted(c)) /\ (Open(c)' <=> Open(c))
    BY <1>1 DEF Quiet, Open
  <2> QED
    BY <2>1, <2>3, <2>4 DEF ClosedAnswered, Served
<1>2. CASE Accept
  <2>1. PICK c \in Clients, f \in Fds : Accepts(c, f)
    BY <1>2, AcceptPath
  <2>2. /\ Only(acceptor) /\ pc'[acceptor] # "close" /\ UNCHANGED <<outbox, peer>>
    BY <1>2, KindsOfThreads DEF Accept, Goto, Only, PathInv, OwnInv, IInv, TypeOK
  <2>3. Closing'
    BY <2>2 DEF Only, Closing, Served
  <2>4. Open(c)' /\ \A d \in Clients : Open(d) => Open(d)'
    BY <2>1, ValuesAssumption DEF Accepts, Open, PathInv, OwnInv, IInv, TypeOK
  <2> QED
    BY <2>1, <2>2, <2>3, <2>4 DEF Accepts, ClosedAnswered
<1>3. ASSUME NEW t \in Threads, Still(t) PROVE Closing' /\ ClosedAnswered'
  BY <1>3, StaysServed DEF Still
<1>4. ASSUME NEW t \in Threads, Shuts(t) PROVE Closing' /\ ClosedAnswered'
  <2>1. PICK c \in Clients : c = hold[t].remote
    BY <1>4, HandTypesIn DEF Shuts
  <2>2. Served(c) /\ UNCHANGED <<outbox, peer, backlog>>
    BY <1>4, <2>1 DEF Shuts, Closing
  <2>3. Closing'
    BY <1>4 DEF Shuts, Only, Closing, Served
  <2>4. \A d \in Clients : Accepted(d)' <=> Accepted(d)
    BY <2>2 DEF Accepted
  <2>5. \A d \in Clients : d # c /\ Open(d) => Open(d)'
    <3>1. fds[hold[t].sockfd] = c /\ hold[t].sockfd \in Fds
      BY <1>4, <2>1, HandTypesIn DEF Shuts
    <3> QED
      BY <1>4, <3>1 DEF Shuts, Open, PathInv, OwnInv, IInv, TypeOK
  <2> QED
    BY <2>2, <2>3, <2>4, <2>5 DEF ClosedAnswered, Served
<1> QED
  BY <1>1, <1>2, <1>3, <1>4, SendServes, StepsOfAnswers DEF AnswerStep

\* A connection the server has taken up and closed was answered, unless its client reset
\* it: no retry, failed send or late result of the pipeline closes it before.
THEOREM ClosesAnswered == Spec => []ClosedAnswered
<1>1. Init => Closing /\ ClosedAnswered
  <2> SUFFICES ASSUME Init PROVE Closing /\ ClosedAnswered
    OBVIOUS
  <2>1. \A c \in Clients : ~Accepted(c)
    BY DEF Init, Accepted
  <2>2. \A t \in Threads : pc[t] # "close"
    BY DEF Init
  <2> QED
    BY <2>1, <2>2 DEF Closing, ClosedAnswered
<1>2. PathInv /\ Closing /\ ClosedAnswered /\ [Next]_vars => Closing' /\ ClosedAnswered'
  BY NextServed
<1> QED
  BY <1>1, <1>2, PathInvariance, PTL DEF Spec
=============================================================================
