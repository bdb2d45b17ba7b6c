------------------------ MODULE Communication_proofs ------------------------
(***************************************************************************)
(* The request pipeline, for any number of clients, threads and            *)
(* descriptors: type correctness; no wake-up is lost; each open descriptor *)
(* has one owner, a list or a thread, whose copy of the address is that of *)
(* the connection behind it.                                               *)
(***************************************************************************)
EXTENDS Communication, FiniteSetTheorems, SequenceTheorems, TLAPS

\* A thread works on a list element exactly while it is past its take.
Holding == \A t \in Threads :
             pc[t] \in {"accept", "take", "done"} <=> hold[t] = NoHandle

\* Only threads at the head of their loop are blocked.
SleepersTake == \A t \in waiting : pc[t] = "take"

\* The sending thread runs only while it has a task.
Budget == pc[sender] # "done" => calls > 0

IInv == TypeOK /\ Holding /\ SleepersTake /\ Budget

-----------------------------------------------------------------------------
LEMMA KindsOfThreads ==
  /\ Receivers \subseteq Workers /\ Disposers \subseteq Workers
  /\ Workers \subseteq Threads
  /\ sender \in Workers /\ acceptor \in Threads
  /\ acceptor \notin Workers /\ sender # acceptor
  /\ sender \notin Receivers /\ sender \notin Disposers
BY ThreadsAssumption DEF Workers, Threads

\* Every thread has one of the three lists as its input.
LEMMA InputIsAQueue == \A t : Input(t) \in Queues
BY DEF Input, Queues

LEMMA InitInv == Init => IInv
<1> SUFFICES ASSUME Init PROVE IInv
  OBVIOUS
<1>1. TypeOK
  BY ValuesAssumption, KindsOfThreads
  DEF Init, TypeOK, Steps, Texts
<1>2. Holding /\ SleepersTake /\ Budget
  BY ValuesAssumption, KindsOfThreads DEF Init, Holding, SleepersTake, Budget
<1> QED
  BY <1>1, <1>2 DEF IInv

\* push_back with notify_one keeps the lists' and the sleepers' types.
LEMMA PushType ==
  ASSUME TypeOK, NEW q \in Queues, NEW h \in Handles, Push(q, h)
  PROVE  /\ queue' \in [Queues -> Seq(Handles)]
         /\ waiting' \in SUBSET Workers
         /\ waiting' \subseteq waiting
<1>1. queue' \in [Queues -> Seq(Handles)]
  BY AppendProperties DEF Push, TypeOK
<1>2. waiting' \subseteq waiting
  BY DEF Push
<1> QED
  BY <1>1, <1>2 DEF TypeOK

LEMMA ClientInv == ASSUME IInv, ClientNext PROVE IInv'
<1> USE DEF IInv
<1>1. UNCHANGED serverVars
  BY DEF ClientNext, Connect, SendRequest, Close, Reset, serverVars
<1>2. peer' \in [Clients -> {"new", "connected", "closed", "reset"}]
  BY DEF ClientNext, Connect, SendRequest, Close, Reset, TypeOK
<1>3. request' \in [Clients -> ProNums \union {Unsent}]
  BY DEF ClientNext, Connect, SendRequest, Close, Reset, TypeOK
<1>4. unread' \in SUBSET Clients
  BY DEF ClientNext, Connect, SendRequest, Close, Reset, TypeOK
<1>5. backlog' \in Seq(Clients)
  <2>1. backlog' = backlog \/ \E c \in Clients : backlog' = Append(backlog, c)
    BY DEF ClientNext, Connect, SendRequest, Close, Reset
  <2>2. backlog \in Seq(Clients)
    BY DEF TypeOK
  <2> QED
    BY <2>1, <2>2, AppendProperties
<1> QED
  BY <1>1, <1>2, <1>3, <1>4, <1>5
  DEF serverVars, queueVars, TypeOK, Holding, SleepersTake, Budget

LEMMA TakeInv == ASSUME IInv, NEW t \in Workers, Take(t) PROVE IInv'
<1> USE DEF IInv
<1> DEFINE q == Input(t)
<1>1. q \in Queues /\ t \in Threads
  BY InputIsAQueue, KindsOfThreads
<1>2. Head(queue[q]) \in Handles /\ Tail(queue[q]) \in Seq(Handles)
  BY <1>1, HeadTailProperties DEF Take, TypeOK
<1>3. /\ queue' = [queue EXCEPT ![q] = Tail(queue[q])]
      /\ hold' = [hold EXCEPT ![t] = Head(queue[q])]
      /\ pc' = [pc EXCEPT ![t] = AfterTake(t)]
      /\ AfterTake(t) \in {"recv", "handle", "send"}
      /\ pc[t] = "take" /\ t \notin waiting
      /\ UNCHANGED <<clientVars, fds, waiting, parsed, outbox, abandoned, calls, alive>>
  BY DEF Take, Goto, AfterTake
<1> HIDE DEF q
<1>4. queue' \in [Queues -> Seq(Handles)]
  BY <1>1, <1>2, <1>3 DEF TypeOK
<1>5. hold' \in [Threads -> Handles \union {NoHandle}] /\ pc' \in [Threads -> Steps]
  BY <1>1, <1>2, <1>3 DEF TypeOK, Steps
<1>6. Holding'
  BY <1>1, <1>2, <1>3, HandleAssumption DEF TypeOK, Holding
<1>7. SleepersTake' /\ Budget'
  BY <1>1, <1>3, KindsOfThreads DEF TypeOK, SleepersTake, Budget
<1> QED
  BY <1>3, <1>4, <1>5, <1>6, <1>7 DEF TypeOK, clientVars

LEMMA SleepInv == ASSUME IInv, NEW t \in Workers, Sleep(t) \/ SpuriousWake(t) PROVE IInv'
BY DEF IInv, Sleep, SpuriousWake, TypeOK, Holding, SleepersTake, Budget, clientVars

LEMMA AcceptInv == ASSUME IInv, Accept PROVE IInv'
<1> USE DEF IInv
<1>1. Head(backlog) \in Clients /\ Tail(backlog) \in Seq(Clients)
  BY HeadTailProperties DEF Accept, TypeOK
<1>2. PICK f \in Fds :
        /\ fds' = [fds EXCEPT ![f] = Head(backlog)]
        /\ hold' = [hold EXCEPT ![acceptor] =
                      [sockfd |-> f, remote |-> Head(backlog), info |-> <<>>]]
  BY DEF Accept
<1>3. [sockfd |-> f, remote |-> Head(backlog), info |-> <<>>] \in Handles
  BY <1>1 DEF Handles, Texts
<1>4. /\ fds' \in [Fds -> Clients \union {NoClient}]
      /\ hold' \in [Threads -> Handles \union {NoHandle}]
      /\ backlog' \in Seq(Clients)
      /\ pc' = [pc EXCEPT ![acceptor] = "push"]
      /\ pc' \in [Threads -> Steps]
  BY <1>1, <1>2, <1>3, KindsOfThreads DEF Accept, Goto, TypeOK, Steps
<1>5. Holding'
  BY <1>2, <1>3, <1>4, KindsOfThreads, HandleAssumption DEF TypeOK, Holding
<1>6. SleepersTake' /\ Budget'
  BY <1>4, KindsOfThreads DEF Accept, TypeOK, SleepersTake, Budget, queueVars
<1> QED
  BY <1>4, <1>5, <1>6 DEF Accept, TypeOK, queueVars

LEMMA PushSockInv == ASSUME IInv, PushSock PROVE IInv'
<1> USE DEF IInv
<1>1. hold[acceptor] \in Handles
  BY KindsOfThreads DEF PushSock, TypeOK, Holding
<1>2. /\ queue' \in [Queues -> Seq(Handles)]
      /\ waiting' \in SUBSET Workers /\ waiting' \subseteq waiting
  BY <1>1, PushType DEF PushSock, Queues
<1> QED
  BY <1>2, KindsOfThreads
  DEF PushSock, Goto, Drop, TypeOK, Steps, Holding, SleepersTake, Budget, clientVars

LEMMA RecvInv == ASSUME IInv, NEW t \in Receivers, Recv(t) PROVE IInv'
<1> USE DEF IInv
<1>1. hold[t] \in Handles /\ t \in Threads
  BY KindsOfThreads DEF Recv, TypeOK, Holding
<1>2. TextOn(hold[t].sockfd) \in Texts
  BY <1>1 DEF TextOn, Texts, TypeOK
<1>3. [hold[t] EXCEPT !.info = TextOn(hold[t].sockfd)] \in Handles
  BY <1>1, <1>2 DEF Handles
<1>4. /\ hold' = [hold EXCEPT ![t] = [hold[t] EXCEPT !.info = TextOn(hold[t].sockfd)]]
      /\ unread' \in SUBSET Clients
      /\ pc' = [pc EXCEPT ![t] = "push"]
      /\ pc[t] = "recv"
      /\ UNCHANGED <<peer, request, backlog, fds, queueVars, parsed, outbox, abandoned, calls, alive>>
  BY DEF Recv, Goto, TypeOK
<1>5. TypeOK'
  BY <1>1, <1>3, <1>4 DEF TypeOK, queueVars, Steps
<1>6. Holding'
  BY <1>1, <1>3, <1>4, HandleAssumption DEF TypeOK, Holding
<1> QED
  BY <1>1, <1>4, <1>5, <1>6, KindsOfThreads DEF TypeOK, SleepersTake, Budget, queueVars

LEMMA PushInfoInv == ASSUME IInv, NEW t \in Receivers, PushInfo(t) PROVE IInv'
<1> USE DEF IInv
<1>1. hold[t] \in Handles /\ t \in Threads /\ t # sender
  BY KindsOfThreads DEF PushInfo, TypeOK, Holding
<1>2. /\ queue' \in [Queues -> Seq(Handles)]
      /\ waiting' \in SUBSET Workers /\ waiting' \subseteq waiting
  BY <1>1, PushType DEF PushInfo, Queues
<1> QED
  BY <1>1, <1>2
  DEF PushInfo, Goto, Drop, TypeOK, Steps, Holding, SleepersTake, Budget, clientVars

LEMMA PushReplyInv == ASSUME IInv, NEW t \in Disposers, PushReply(t) PROVE IInv'
<1> USE DEF IInv
<1>1. hold[t] \in Handles /\ t \in Threads /\ t # sender
  BY KindsOfThreads DEF PushReply, TypeOK, Holding
<1>2. /\ queue' \in [Queues -> Seq(Handles)]
      /\ waiting' \in SUBSET Workers /\ waiting' \subseteq waiting
  BY <1>1, PushType DEF PushReply, Queues
<1> QED
  BY <1>1, <1>2
  DEF PushReply, Goto, Drop, TypeOK, Steps, Holding, SleepersTake, Budget, clientVars

LEMMA DisposeInv == ASSUME IInv, NEW t \in Disposers, Dispose(t) PROVE IInv'
<1> USE DEF IInv
<1> DEFINE text == parsed[t] \o hold[t].info
<1>1. hold[t] \in Handles /\ t \in Threads /\ t # sender
  BY KindsOfThreads DEF Dispose, TypeOK, Holding
<1>2. text \in Texts
  BY <1>1, ConcatProperties DEF TypeOK, Handles, Texts
<1>3. [hold[t] EXCEPT !.info = text] \in Handles
  BY <1>1, <1>2 DEF Handles
<1>4. /\ parsed' = [parsed EXCEPT ![t] = text]
      /\ \/ /\ pc' = [pc EXCEPT ![t] = "reply"] \/ pc' = [pc EXCEPT ![t] = "push"]
            /\ hold' = [hold EXCEPT ![t] = [hold[t] EXCEPT !.info = text]]
            /\ UNCHANGED abandoned
         \/ /\ pc' = [pc EXCEPT ![t] = "take"]
            /\ hold' = [hold EXCEPT ![t] = NoHandle]
            /\ abandoned' = abandoned \union {hold[t].sockfd}
      /\ pc[t] = "handle"
      /\ UNCHANGED <<clientVars, fds, queueVars, outbox, calls, alive>>
  BY DEF Dispose, Goto, Drop
<1>5. hold[t].sockfd \in Fds
  BY <1>1 DEF Handles
<1> HIDE DEF text
<1>6. TypeOK'
  BY <1>1, <1>2, <1>3, <1>4, <1>5 DEF TypeOK, queueVars, clientVars, Steps
<1>7. Holding'
  BY <1>1, <1>3, <1>4, HandleAssumption DEF TypeOK, Holding
<1>8. SleepersTake'
  <2>1. waiting' = waiting /\ t \notin waiting /\ waiting \subseteq Threads
    BY <1>4, KindsOfThreads DEF queueVars, SleepersTake, TypeOK
  <2>2. \A u \in Threads : u # t => pc'[u] = pc[u]
    BY <1>1, <1>4 DEF TypeOK
  <2> QED
    BY <2>1, <2>2 DEF SleepersTake
<1>9. Budget'
  BY <1>1, <1>4, KindsOfThreads DEF TypeOK, Budget
<1> QED
  BY <1>6, <1>7, <1>8, <1>9

\* Replying, for a disposing thread and for the sender.
LEMMA ReplyInv == ASSUME IInv, NEW t \in Workers, Reply(t) PROVE IInv'
<1> USE DEF IInv
<1>1. t \in Threads /\ hold[t] \in Handles
  BY KindsOfThreads DEF Reply, SendOk, SendFails, SendKills, TypeOK, Holding
<1>2. CASE SendOk(t)
  <2> DEFINE c == fds[hold[t].sockfd]
  <2>1. c \in Clients /\ hold[t].info \in Texts
    BY <1>1, <1>2 DEF SendOk, Broken, Handles, TypeOK
  <2>2. /\ outbox' = [outbox EXCEPT ![c] = Append(outbox[c], hold[t].info)]
        /\ pc' = [pc EXCEPT ![t] = "close"]
        /\ pc[t] \in {"reply", "send"}
        /\ UNCHANGED <<clientVars, fds, queueVars, hold, parsed, abandoned, calls, alive>>
    BY <1>2 DEF SendOk, Goto
  <2> HIDE DEF c
  <2>3. outbox' \in [Clients -> Seq(Texts)]
    BY <2>1, <2>2, AppendProperties DEF TypeOK
  <2> QED
    BY <1>1, <2>2, <2>3
    DEF TypeOK, Steps, Holding, SleepersTake, Budget, queueVars, clientVars
<1>3. CASE SendFails(t)
  BY <1>1, <1>3
  DEF SendFails, Goto, TypeOK, Steps, Holding, SleepersTake, Budget, queueVars, clientVars
<1>4. CASE SendKills(t)
  BY <1>1, <1>4
  DEF SendKills, TypeOK, Holding, SleepersTake, Budget, queueVars, clientVars
<1> QED
  BY <1>2, <1>3, <1>4 DEF Reply

LEMMA CloseInv == ASSUME IInv, NEW t \in Disposers, CloseReplied(t) PROVE IInv'
<1> USE DEF IInv
<1>1. t \in Threads /\ t # sender /\ hold[t] \in Handles
  BY KindsOfThreads DEF CloseReplied, TypeOK, Holding
<1>2. hold[t].sockfd \in Fds
  BY <1>1 DEF Handles
<1>3. /\ fds' = [fds EXCEPT ![hold[t].sockfd] = NoClient]
      /\ hold' = [hold EXCEPT ![t] = NoHandle]
      /\ pc' = [pc EXCEPT ![t] = "take"]
      /\ pc[t] = "close"
      /\ UNCHANGED <<clientVars, queueVars, parsed, outbox, abandoned, calls, alive>>
  BY DEF CloseReplied, CloseSock, Goto, Drop
<1>4. TypeOK'
  BY <1>1, <1>2, <1>3 DEF TypeOK, Steps, queueVars, clientVars
<1>5. Holding' /\ SleepersTake' /\ Budget'
  BY <1>1, <1>3 DEF TypeOK, Holding, SleepersTake, Budget, queueVars
<1> QED
  BY <1>4, <1>5

LEMMA SenderInv == ASSUME IInv, SenderClose \/ SenderRetry PROVE IInv'
<1> USE DEF IInv
<1>1. hold[sender] \in Handles /\ sender \in Threads /\ pc[sender] \in {"close", "push"}
  BY KindsOfThreads DEF SenderClose, SenderRetry, TypeOK, Holding
<1>2. /\ calls' \in 0 .. SendCalls
      /\ pc' = [pc EXCEPT ![sender] = IF calls = 1 THEN "done" ELSE "take"]
      /\ pc' \in [Threads -> Steps]
      /\ Budget'
  <2>1. /\ calls' = calls - 1
        /\ pc' = [pc EXCEPT ![sender] = IF calls = 1 THEN "done" ELSE "take"]
    BY DEF SenderClose, SenderRetry, SendReturns, Goto
  <2>2. calls \in Nat /\ calls <= SendCalls /\ calls > 0
    BY <1>1, ValuesAssumption DEF TypeOK, Budget
  <2>3. pc' \in [Threads -> Steps]
    BY <2>1 DEF TypeOK, Steps
  <2>4. pc'[sender] # "done" => calls' > 0
    BY <1>1, <2>1, <2>2 DEF TypeOK
  <2>5. calls' \in 0 .. SendCalls
    BY <2>1, <2>2, ValuesAssumption
  <2> QED
    BY <2>1, <2>3, <2>4, <2>5 DEF Budget
<1>3. hold' = [hold EXCEPT ![sender] = NoHandle]
  BY DEF SenderClose, SenderRetry, CloseSock, Drop
<1>4. Holding'
  BY <1>1, <1>2, <1>3 DEF TypeOK, Holding
<1>5. CASE SenderClose
  <2>1. hold[sender].sockfd \in Fds
    BY <1>1 DEF Handles
  <2>2. fds' \in [Fds -> Clients \union {NoClient}]
    BY <1>5, <2>1 DEF SenderClose, CloseSock, TypeOK
  <2>3. UNCHANGED <<clientVars, queueVars, parsed, outbox, abandoned, alive>>
    BY <1>5 DEF SenderClose
  <2>4. TypeOK'
    BY <1>1, <1>2, <1>3, <2>2, <2>3 DEF TypeOK, queueVars, clientVars
  <2>5. SleepersTake'
    BY <1>1, <1>2, <2>3 DEF TypeOK, SleepersTake, queueVars
  <2> QED
    BY <1>2, <1>4, <2>4, <2>5
<1>6. CASE SenderRetry
  <2>1. /\ queue' \in [Queues -> Seq(Handles)]
        /\ waiting' \in SUBSET Workers /\ waiting' \subseteq waiting
    BY <1>1, <1>6, PushType DEF SenderRetry, Queues
  <2> QED
    BY <1>1, <1>2, <1>3, <1>4, <1>6, <2>1
    DEF SenderRetry, TypeOK, SleepersTake, clientVars
<1> QED
  BY <1>5, <1>6

\* The steps a worker can take on a list element or on its list.
LEMMA NextInv == ASSUME IInv, [Next]_vars PROVE IInv'
<1>1. CASE ClientNext
  BY <1>1, ClientInv
<1>2. CASE Net
  BY <1>2, AcceptInv, PushSockInv DEF Net
<1>3. CASE \E t \in Receivers : Receive(t)
  BY <1>3, TakeInv, SleepInv, RecvInv, PushInfoInv, KindsOfThreads DEF Receive, Wait
<1>4. CASE \E t \in Disposers : Handle(t)
  BY <1>4, TakeInv, SleepInv, DisposeInv, PushReplyInv, ReplyInv, CloseInv, KindsOfThreads
  DEF Handle, Wait
<1>5. CASE SendTcp
  BY <1>5, TakeInv, SleepInv, ReplyInv, SenderInv, KindsOfThreads DEF SendTcp, Wait
<1>6. CASE Wakes
  BY <1>6, SleepInv DEF Wakes
<1>7. CASE UNCHANGED vars
  BY <1>7 DEF vars, clientVars, queueVars, IInv, TypeOK, Holding, SleepersTake, Budget
<1> QED
  BY <1>1, <1>2, <1>3, <1>4, <1>5, <1>6, <1>7 DEF Next

LEMMA Invariance == Spec => []IInv
  BY InitInv, NextInv, PTL DEF Spec

\* Type correctness of the pipeline.
THEOREM TypeCorrect == Spec => []TypeOK
<1>1. IInv => TypeOK
  BY DEF IInv
<1> QED
  BY <1>1, Invariance, PTL

-----------------------------------------------------------------------------
(***************************************************************************)
(* No lost wake-ups.  Per list: a step either leaves the list's length     *)
(* alone and takes no thread out of Takers (QuietAt), or it is a push      *)
(* (which adds one element and one awake thread, if any thread slept), or  *)
(* a take (which removes one of each).                                     *)
(***************************************************************************)
WakeAt(q) == Sleeping(q) # {} => Len(queue[q]) <= Cardinality(Takers(q))

LEMMA TakersFinite ==
  \A q : /\ IsFiniteSet(Takers(q)) /\ Cardinality(Takers(q)) \in Nat
        /\ IsFiniteSet(Takers(q)') /\ Cardinality(Takers(q)') \in Nat
<1>1. IsFiniteSet(Workers)
  BY ThreadsAssumption, FS_Union, FS_Singleton DEF Workers
<1>2. \A q : Takers(q) \in SUBSET Workers /\ Takers(q)' \in SUBSET Workers
  BY DEF Takers
<1> QED
  BY <1>1, <1>2, FS_Subset, FS_CardinalityType

LEMMA LengthsAreNat ==
  ASSUME TypeOK, NEW q \in Queues PROVE queue[q] \in Seq(Handles) /\ Len(queue[q]) \in Nat
BY LenProperties DEF TypeOK

LEMMA QuietAt ==
  ASSUME TypeOK, TypeOK', NEW q \in Queues, WakeAt(q),
         Sleeping(q)' \subseteq Sleeping(q),
         Takers(q) \subseteq Takers(q)',
         queue'[q] = queue[q]
  PROVE  WakeAt(q)'
<1>1. Cardinality(Takers(q)) <= Cardinality(Takers(q)')
  BY TakersFinite, FS_Subset
<1>2. Len(queue[q]) \in Nat
  BY LengthsAreNat
<1> QED
  BY <1>1, <1>2, TakersFinite DEF WakeAt

\* A step that touches no list, wakes nobody and takes nobody from its take.
LEMMA QuietStep ==
  ASSUME IInv, IInv', NoLostWakeup, UNCHANGED queueVars,
         \A t \in Workers : pc[t] = "take" => pc'[t] = "take"
  PROVE  NoLostWakeup'
<1> SUFFICES ASSUME NEW q \in Queues PROVE WakeAt(q)'
  BY DEF NoLostWakeup, WakeAt
<1>1. WakeAt(q)
  BY DEF NoLostWakeup, WakeAt
<1>2. Sleeping(q)' = Sleeping(q) /\ queue'[q] = queue[q]
  BY DEF queueVars, Sleeping
<1>3. Takers(q) \subseteq Takers(q)'
  BY DEF queueVars, Takers
<1> QED
  BY <1>1, <1>2, <1>3, QuietAt DEF IInv

LEMMA TakeWakes ==
  ASSUME IInv, IInv', NoLostWakeup, NEW t \in Workers, Take(t) PROVE NoLostWakeup'
<1> SUFFICES ASSUME NEW q \in Queues PROVE WakeAt(q)'
  BY DEF NoLostWakeup, WakeAt
<1> USE DEF IInv
<1>1. WakeAt(q)
  BY DEF NoLostWakeup, WakeAt
<1>2. /\ pc[t] = "take" /\ t \notin waiting /\ waiting' = waiting
      /\ pc' = [pc EXCEPT ![t] = AfterTake(t)] /\ AfterTake(t) # "take"
      /\ queue' = [queue EXCEPT ![Input(t)] = Tail(queue[Input(t)])]
      /\ queue[Input(t)] # <<>>
      /\ pc \in [Threads -> Steps] /\ t \in Threads /\ Workers \subseteq Threads
  BY KindsOfThreads DEF Take, Goto, AfterTake, TypeOK
<1>3. Sleeping(q)' = Sleeping(q)
  BY <1>2 DEF Sleeping
<1>4. CASE q # Input(t)
  <2>1. queue'[q] = queue[q]
    BY <1>2, <1>4 DEF TypeOK
  <2>2. Takers(q) \subseteq Takers(q)'
    BY <1>2, <1>4 DEF Takers
  <2> QED
    BY <1>1, <1>3, <2>1, <2>2, QuietAt
<1>5. CASE q = Input(t)
  <2>1. Takers(q)' = Takers(q) \ {t} /\ t \in Takers(q)
    BY <1>2, <1>5 DEF Takers
  <2>2. Cardinality(Takers(q)') = Cardinality(Takers(q)) - 1
    BY <2>1, TakersFinite, FS_RemoveElement
  <2>3. Len(queue'[q]) = Len(queue[q]) - 1
    BY <1>2, <1>5, LengthsAreNat, HeadTailProperties DEF TypeOK
  <2>4. Len(queue[q]) \in Nat
    BY LengthsAreNat
  <2> QED
    BY <1>1, <1>3, <2>2, <2>3, <2>4, TakersFinite DEF WakeAt
<1> QED
  BY <1>4, <1>5

LEMMA SleepWakes ==
  ASSUME IInv, IInv', NoLostWakeup, NEW t \in Workers, Sleep(t) \/ SpuriousWake(t)
  PROVE  NoLostWakeup'
<1> SUFFICES ASSUME NEW q \in Queues PROVE WakeAt(q)'
  BY DEF NoLostWakeup, WakeAt
<1> USE DEF IInv
<1>1. WakeAt(q)
  BY DEF NoLostWakeup, WakeAt
<1>2. CASE Sleep(t) /\ q = Input(t)
  <2>1. Len(queue'[q]) = 0
    BY <1>2, EmptySeq DEF Sleep
  <2> QED
    BY <2>1, TakersFinite DEF WakeAt
<1>3. CASE Sleep(t) /\ q # Input(t)
  <2>1. Sleeping(q)' = Sleeping(q) /\ queue'[q] = queue[q] /\ Takers(q)' = Takers(q)
    BY <1>3 DEF Sleep, Sleeping, Takers
  <2> QED
    BY <1>1, <2>1, QuietAt
<1>4. CASE SpuriousWake(t)
  <2>1. Sleeping(q)' \subseteq Sleeping(q) /\ queue'[q] = queue[q] /\ Takers(q) \subseteq Takers(q)'
    BY <1>4 DEF SpuriousWake, Sleeping, Takers
  <2> QED
    BY <1>1, <2>1, QuietAt
<1> QED
  BY <1>2, <1>3, <1>4

\* The heart of the argument: push_back with notify_one.
LEMMA PushWakes ==
  ASSUME IInv, IInv', NoLostWakeup, NEW r \in Queues, NEW h \in Handles, Push(r, h),
         \A t \in Workers : pc[t] = "take" => pc'[t] = "take"
  PROVE  NoLostWakeup'
<1> SUFFICES ASSUME NEW q \in Queues PROVE WakeAt(q)'
  BY DEF NoLostWakeup, WakeAt
<1> USE DEF IInv
<1>1. WakeAt(q)
  BY DEF NoLostWakeup, WakeAt
<1>2. waiting' \subseteq waiting /\ queue' = [queue EXCEPT ![r] = Append(queue[r], h)]
  BY DEF Push
<1>3. Sleeping(q)' \subseteq Sleeping(q) /\ Takers(q) \subseteq Takers(q)'
  BY <1>2 DEF Sleeping, Takers
<1>4. CASE q # r
  BY <1>1, <1>2, <1>3, <1>4, QuietAt DEF TypeOK
<1>5. CASE q = r /\ Sleeping(r) = {}
  BY <1>3, <1>5 DEF WakeAt
<1>6. CASE q = r /\ Sleeping(r) # {}
  <2>1. PICK t \in Sleeping(r) : waiting' = waiting \ {t}
    BY <1>6 DEF Push
  <2>2. t \notin Takers(q) /\ t \in Takers(q)'
    BY <1>6, <2>1 DEF Sleeping, Takers, SleepersTake, TypeOK
  <2>3. Takers(q) \union {t} \in SUBSET Takers(q)'
    BY <1>3, <2>2
  <2>4. Cardinality(Takers(q)) + 1 <= Cardinality(Takers(q)')
    <3>1. Cardinality(Takers(q) \union {t}) = Cardinality(Takers(q)) + 1
      BY <2>2, TakersFinite, FS_AddElement
    <3> QED
      BY <2>3, <3>1, TakersFinite, FS_Subset
  <2>5. Len(queue[q]) \in Nat /\ Len(queue'[q]) = Len(queue[q]) + 1
    BY <1>2, <1>6, LengthsAreNat, AppendProperties DEF TypeOK
  <2> QED
    BY <1>1, <1>6, <2>4, <2>5, TakersFinite DEF WakeAt
<1> QED
  BY <1>4, <1>5, <1>6

\* The four places that push.
LEMMA PushersWake ==
  ASSUME IInv, IInv', NoLostWakeup,
         \/ PushSock \/ SenderRetry
         \/ \E t \in Receivers : PushInfo(t)
         \/ \E t \in Disposers : PushReply(t)
  PROVE  NoLostWakeup'
<1> USE DEF IInv
<1>1. PICK t \in Threads : \E q \in Queues :
        /\ Push(q, hold[t]) /\ pc[t] = "push"
        /\ \E s : pc' = [pc EXCEPT ![t] = s]
  BY KindsOfThreads
  DEF PushSock, SenderRetry, SendReturns, PushInfo, PushReply, Goto, Queues
<1>2. hold[t] \in Handles
  BY <1>1 DEF TypeOK, Holding
<1>3. \A u \in Workers : pc[u] = "take" => pc'[u] = "take"
  BY <1>1, KindsOfThreads DEF TypeOK
<1> QED
  BY <1>1, <1>2, <1>3, PushWakes

\* The steps that touch no list.
LEMMA OthersWake ==
  ASSUME IInv, IInv', NoLostWakeup,
         \/ ClientNext \/ Accept \/ SenderClose \/ UNCHANGED vars
         \/ \E t \in Receivers : Recv(t)
         \/ \E t \in Disposers : Dispose(t) \/ CloseReplied(t)
         \/ \E t \in Workers : Reply(t)
  PROVE  NoLostWakeup'
<1>1. UNCHANGED queueVars
  BY DEF ClientNext, Connect, SendRequest, Close, Reset, serverVars, Accept, SenderClose,
         vars, Recv, Dispose, CloseReplied, Reply, SendOk, SendFails, SendKills
<1>2. \/ UNCHANGED pc
      \/ \E t \in Threads : pc[t] # "take" /\ \E s : pc' = [pc EXCEPT ![t] = s]
  BY KindsOfThreads
  DEF ClientNext, Connect, SendRequest, Close, Reset, serverVars, Accept, SenderClose,
      SendReturns, vars, Recv, Dispose, CloseReplied, Reply, SendOk, SendFails, SendKills, Goto
<1>3. \A u \in Workers : pc[u] = "take" => pc'[u] = "take"
  BY <1>2, KindsOfThreads DEF IInv, TypeOK
<1> QED
  BY <1>1, <1>3, QuietStep

LEMMA NextWakes == ASSUME IInv, IInv', NoLostWakeup, [Next]_vars PROVE NoLostWakeup'
BY TakeWakes, SleepWakes, PushersWake, OthersWake, KindsOfThreads
DEF Next, Net, Receive, Handle, SendTcp, Wakes, Wait

\* While a thread sleeps on one of the three lists, each element of the list has
\* an awake thread of its own.
THEOREM NoWakeupIsLost == Spec => []NoLostWakeup
<1>1. Init => NoLostWakeup
  BY DEF Init, NoLostWakeup, Sleeping
<1>2. IInv /\ NoLostWakeup /\ [Next]_vars => NoLostWakeup'
  BY NextInv, NextWakes
<1> QED
  BY <1>1, <1>2, Invariance, PTL DEF Spec

-----------------------------------------------------------------------------
(* Who owns a descriptor. *)

\* Descriptor f is at position k of list q, or in the hands of thread t.
InList(f, q, k) == k \in 1 .. Len(queue[q]) /\ queue[q][k].sockfd = f
InHand(f, t)    == hold[t] # NoHandle /\ hold[t].sockfd = f

Listed(f) == \E q \in Queues, k \in Nat : InList(f, q, k)
Held(f)   == \E t \in Threads : InHand(f, t)

OneList(f) == \A q, r \in Queues, j, k \in Nat :
                InList(f, q, j) /\ InList(f, r, k) => q = r /\ j = k
OneHand(f) == \A t, u \in Threads : InHand(f, t) /\ InHand(f, u) => t = u

\* The owner of f, if it has one, is the only one; f has one exactly while it is
\* open and not abandoned; an abandoned descriptor stays open.
Owned(f) ==
  /\ OneList(f) /\ OneHand(f) /\ ~(Listed(f) /\ Held(f))
  /\ Listed(f) \/ Held(f) <=> fds[f] # NoClient /\ f \notin abandoned
  /\ f \in abandoned => fds[f] # NoClient

\* What the owner of a descriptor remembers of its client is true.
Live(h) == fds[h.sockfd] = h.remote
AllLive == /\ \A q \in Queues : \A k \in 1 .. Len(queue[q]) : Live(queue[q][k])
           /\ \A t \in Threads : hold[t] # NoHandle => Live(hold[t])

OwnInv == IInv /\ (\A f \in Fds : Owned(f)) /\ AllLive

-----------------------------------------------------------------------------
(* The steps, by what they do to the owners. *)

\* Nothing.
Same == /\ UNCHANGED <<queue, fds, abandoned>>
        /\ \A t \in Threads :
             \/ hold'[t] = hold[t]
             \/ /\ hold[t] # NoHandle /\ hold'[t] # NoHandle
                /\ hold'[t].sockfd = hold[t].sockfd
                /\ hold'[t].remote = hold[t].remote

\* A thread appends what it holds to a list.
Hands(t, q) == /\ hold[t] # NoHandle /\ hold' = [hold EXCEPT ![t] = NoHandle]
               /\ queue' = [queue EXCEPT ![q] = Append(@, hold[t])]
               /\ UNCHANGED <<fds, abandoned>>

\* A thread takes the head of a list.
Takes(t, q) == /\ hold[t] = NoHandle /\ queue[q] # <<>>
               /\ hold' = [hold EXCEPT ![t] = Head(queue[q])]
               /\ queue' = [queue EXCEPT ![q] = Tail(@)]
               /\ UNCHANGED <<fds, abandoned>>

\* A connection is opened on a free descriptor.
Opens(t, f, c) == /\ fds[f] = NoClient /\ hold[t] = NoHandle
                  /\ fds' = [fds EXCEPT ![f] = c]
                  /\ hold' = [hold EXCEPT ![t] = [sockfd |-> f, remote |-> c, info |-> <<>>]]
                  /\ UNCHANGED <<queue, abandoned>>

\* The owner closes the descriptor, or forgets it.
Closes(t) == /\ hold[t] # NoHandle /\ hold' = [hold EXCEPT ![t] = NoHandle]
             /\ fds' = [fds EXCEPT ![hold[t].sockfd] = NoClient]
             /\ UNCHANGED <<queue, abandoned>>

Forgets(t) == /\ hold[t] # NoHandle /\ hold' = [hold EXCEPT ![t] = NoHandle]
              /\ abandoned' = abandoned \union {hold[t].sockfd}
              /\ UNCHANGED <<queue, fds>>

LEMMA SendersStep ==
  ASSUME IInv, NEW t \in Workers, Reply(t)
  PROVE  Same
BY DEF Reply, SendOk, SendFails, SendKills, Same, queueVars

LEMMA WaitsStep ==
  ASSUME IInv, NEW t \in Workers, Wait(t) \/ SpuriousWake(t)
  PROVE  Same \/ Takes(t, Input(t))
<1>1. CASE Take(t)
  <2>1. hold[t] = NoHandle
    BY <1>1, KindsOfThreads DEF Take, IInv, Holding
  <2> QED
    BY <1>1, <2>1 DEF Take, Takes
<1>2. CASE Sleep(t) \/ SpuriousWake(t)
  BY <1>2 DEF Sleep, SpuriousWake, Same
<1> QED
  BY <1>1, <1>2 DEF Wait

LEMMA AcceptorStep ==
  ASSUME IInv, Net
  PROVE  \/ Hands(acceptor, "accept_all_sockfd")
         \/ \E f \in Fds, c \in Clients : Opens(acceptor, f, c)
<1>1. CASE Accept
  <2>1. hold[acceptor] = NoHandle
    BY <1>1, KindsOfThreads DEF Accept, IInv, Holding
  <2>2. Head(backlog) \in Clients
    BY <1>1, HeadTailProperties DEF Accept, IInv, TypeOK
  <2> QED
    BY <1>1, <2>1, <2>2 DEF Accept, Opens, FreeFds, IsLowest, queueVars
<1>2. CASE PushSock
  <2>1. hold[acceptor] # NoHandle
    BY <1>2, KindsOfThreads DEF PushSock, IInv, Holding
  <2> QED
    BY <1>2, <2>1 DEF PushSock, Hands, Push, Drop
<1> QED
  BY <1>1, <1>2 DEF Net

LEMMA ReceiverStep ==
  ASSUME IInv, NEW t \in Receivers, Receive(t)
  PROVE  Same \/ Takes(t, Input(t)) \/ Hands(t, "all_user_info")
<1>1. CASE Recv(t)
  <2>1. hold[t] # NoHandle /\ hold[t] \in Handles
    BY <1>1, KindsOfThreads DEF Recv, IInv, TypeOK, Holding
  <2> DEFINE h == [hold[t] EXCEPT !.info = TextOn(hold[t].sockfd)]
  <2>2. h.sockfd = hold[t].sockfd /\ h.remote = hold[t].remote
    BY <2>1 DEF Handles
  <2>3. TextOn(hold[t].sockfd) \in Texts
    BY <2>1 DEF TextOn, Texts, IInv, TypeOK, Handles
  <2>4. h \in Handles
    BY <2>1, <2>3 DEF Handles
  <2>5. hold' = [hold EXCEPT ![t] = h] /\ UNCHANGED <<queue, fds, abandoned>>
    BY <1>1 DEF Recv, queueVars
  <2> HIDE DEF h
  <2> QED
    BY <2>1, <2>2, <2>4, <2>5, HandleAssumption, KindsOfThreads DEF Same, IInv, TypeOK
<1>2. CASE PushInfo(t)
  <2>1. hold[t] # NoHandle
    BY <1>2, KindsOfThreads DEF PushInfo, IInv, Holding
  <2> QED
    BY <1>2, <2>1 DEF PushInfo, Hands, Push, Drop
<1> QED
  BY <1>1, <1>2, WaitsStep, KindsOfThreads DEF Receive

LEMMA DisposerStep ==
  ASSUME IInv, NEW t \in Disposers, Handle(t)
  PROVE  \/ Same \/ Takes(t, Input(t)) \/ Hands(t, "send_tcp_info")
         \/ Closes(t) \/ Forgets(t)
<1>1. CASE Dispose(t)
  <2>1. hold[t] # NoHandle /\ hold[t] \in Handles
    BY <1>1, KindsOfThreads DEF Dispose, IInv, TypeOK, Holding
  <2> DEFINE h == [hold[t] EXCEPT !.info = parsed[t] \o hold[t].info]
  <2>2. h.sockfd = hold[t].sockfd /\ h.remote = hold[t].remote
    BY <2>1 DEF Handles
  <2>3. parsed[t] \o hold[t].info \in Texts
    BY <2>1, ConcatProperties DEF IInv, TypeOK, Handles, Texts
  <2>4. h \in Handles
    BY <2>1, <2>3 DEF Handles
  <2>5. /\ UNCHANGED <<queue, fds>>
        /\ \/ hold' = [hold EXCEPT ![t] = h] /\ UNCHANGED abandoned
           \/ hold' = [hold EXCEPT ![t] = NoHandle]
              /\ abandoned' = abandoned \union {hold[t].sockfd}
    BY <1>1 DEF Dispose, queueVars, Drop
  <2> HIDE DEF h
  <2>6. CASE hold' = [hold EXCEPT ![t] = h] /\ UNCHANGED abandoned
    BY <2>1, <2>2, <2>4, <2>5, <2>6, HandleAssumption, KindsOfThreads DEF Same, IInv, TypeOK
  <2> QED
    BY <2>1, <2>5, <2>6 DEF Forgets
<1>2. CASE PushReply(t)
  <2>1. hold[t] # NoHandle
    BY <1>2, KindsOfThreads DEF PushReply, IInv, Holding
  <2> QED
    BY <1>2, <2>1 DEF PushReply, Hands, Push, Drop
<1>3. CASE CloseReplied(t)
  <2>1. hold[t] # NoHandle
    BY <1>3, KindsOfThreads DEF CloseReplied, IInv, Holding
  <2> QED
    BY <1>3, <2>1 DEF CloseReplied, CloseSock, Closes, Drop, queueVars
<1> QED
  BY <1>1, <1>2, <1>3, WaitsStep, SendersStep, KindsOfThreads DEF Handle

LEMMA SenderStep ==
  ASSUME IInv, SendTcp
  PROVE  Same \/ Takes(sender, Input(sender)) \/ Hands(sender, "send_tcp_info") \/ Closes(sender)
<1>1. CASE SenderClose \/ SenderRetry
  <2>1. hold[sender] # NoHandle
    BY <1>1, KindsOfThreads DEF SenderClose, SenderRetry, IInv, Holding
  <2> QED
    BY <1>1, <2>1 DEF SenderClose, SenderRetry, CloseSock, Closes, Hands, Push, Drop, queueVars
<1> QED
  BY <1>1, WaitsStep, SendersStep, KindsOfThreads DEF SendTcp

\* Every step is one of those.
OwnerStep ==
  \/ Same
  \/ \E t \in Threads :
       \/ \E q \in Queues : Hands(t, q) \/ Takes(t, q)
       \/ \E f \in Fds, c \in Clients : Opens(t, f, c)
       \/ Closes(t) \/ Forgets(t)

LEMMA StepsOfOwners == ASSUME IInv, [Next]_vars PROVE OwnerStep
<1>1. CASE ClientNext \/ UNCHANGED vars
  BY <1>1 DEF ClientNext, Connect, SendRequest, Close, Reset, serverVars, vars, queueVars,
              Same, OwnerStep
<1>2. {"accept_all_sockfd", "all_user_info", "send_tcp_info"} = Queues
  BY DEF Queues
<1>3. CASE Net
  BY <1>2, <1>3, AcceptorStep, KindsOfThreads DEF OwnerStep
<1>4. ASSUME NEW t \in Receivers, Receive(t) PROVE OwnerStep
  BY <1>2, <1>4, ReceiverStep, InputIsAQueue, KindsOfThreads DEF OwnerStep
<1>5. ASSUME NEW t \in Disposers, Handle(t) PROVE OwnerStep
  BY <1>2, <1>5, DisposerStep, InputIsAQueue, KindsOfThreads DEF OwnerStep
<1>6. CASE SendTcp
  BY <1>2, <1>6, SenderStep, InputIsAQueue, KindsOfThreads DEF OwnerStep
<1>7. CASE Wakes
  BY <1>7, WaitsStep, InputIsAQueue, KindsOfThreads DEF Wakes, OwnerStep
<1> QED
  BY <1>1, <1>3, <1>4, <1>5, <1>6, <1>7 DEF Next

-----------------------------------------------------------------------------
(* What each kind of step does to one descriptor. *)

LEMMA QueueTypes ==
  ASSUME IInv, NEW q \in Queues
  PROVE  /\ queue[q] \in Seq(Handles) /\ Len(queue[q]) \in Nat
         /\ \A k \in 1 .. Len(queue[q]) : queue[q][k] \in Handles
<1>1. queue[q] \in Seq(Handles)
  BY DEF IInv, TypeOK
<1> QED
  BY <1>1, LenProperties, ElementOfSeq

LEMMA HandTypes ==
  ASSUME IInv, NEW t \in Threads, hold[t] # NoHandle
  PROVE  hold[t] \in Handles /\ hold[t].sockfd \in Fds
BY DEF IInv, TypeOK, Handles

LEMMA SameOwns ==
  ASSUME OwnInv, Same
  PROVE  (\A f \in Fds : Owned(f)') /\ AllLive'
<1>1. \A f, q, k : InList(f, q, k)' <=> InList(f, q, k)
  BY DEF Same, InList
<1>2. \A f : \A t \in Threads : InHand(f, t)' <=> InHand(f, t)
  BY DEF Same, InHand
<1>3. ASSUME NEW f \in Fds PROVE Owned(f)'
  <2>1. /\ Owned(f) /\ fds' = fds /\ abandoned' = abandoned
    BY DEF OwnInv, Same
  <2> QED
    BY <1>1, <1>2, <2>1 DEF Owned, OneList, OneHand, Listed, Held
<1>4. AllLive'
  BY DEF OwnInv, AllLive, Live, Same
<1> QED
  BY <1>3, <1>4

LEMMA TakesOwns ==
  ASSUME OwnInv, NEW t \in Threads, NEW q \in Queues, Takes(t, q)
  PROVE  (\A f \in Fds : Owned(f)') /\ AllLive'
<1>1. IInv /\ queue[q] \in Seq(Handles) /\ queue[q] # <<>> /\ UNCHANGED <<fds, abandoned>>
  BY QueueTypes DEF OwnInv, Takes
<1>2. /\ Len(queue[q]) \in Nat /\ Len(queue[q]) >= 1 /\ Head(queue[q]) = queue[q][1]
      /\ queue[q][1] \in Handles
      /\ Tail(queue[q]) \in Seq(Handles) /\ Len(Tail(queue[q])) = Len(queue[q]) - 1
      /\ \A k \in 1 .. Len(Tail(queue[q])) : Tail(queue[q])[k] = queue[q][k + 1]
  BY <1>1, HeadTailProperties, EmptySeq, LenProperties, QueueTypes
<1>3. /\ queue'[q] = Tail(queue[q]) /\ \A r \in Queues : r # q => queue'[r] = queue[r]
      /\ hold'[t] = queue[q][1] /\ \A u \in Threads : u # t => hold'[u] = hold[u]
      /\ hold[t] = NoHandle /\ queue[q][1] # NoHandle
  BY <1>1, <1>2, HandleAssumption DEF Takes, IInv, TypeOK
<1>4. \A f : \A k \in Nat : InList(f, q, k)' <=> k >= 1 /\ InList(f, q, k + 1)
  BY <1>2, <1>3 DEF InList
<1>5. \A f, k : \A r \in Queues : r # q => (InList(f, r, k)' <=> InList(f, r, k))
  BY <1>3 DEF InList
<1>6. \A f : \A u \in Threads : InHand(f, u)' <=> IF u = t THEN InList(f, q, 1) ELSE InHand(f, u)
  BY <1>2, <1>3 DEF InList, InHand
<1>7. ASSUME NEW f \in Fds PROVE Owned(f)'
  <2>1. Owned(f)
    BY DEF OwnInv
  <2>2. \A u \in Threads : InHand(f, u)' /\ u # t => ~InList(f, q, 1)
    BY <1>6, <2>1 DEF Owned, Listed, Held
  <2>3. OneHand(f)'
    BY <1>6, <2>1, <2>2 DEF Owned, OneHand
  <2>4. OneList(f)'
    <3> SUFFICES ASSUME NEW a \in Queues, NEW b \in Queues, NEW j \in Nat, NEW k \in Nat,
                        InList(f, a, j)', InList(f, b, k)'
                 PROVE  a = b /\ j = k
      BY DEF OneList
    <3> DEFINE before(r, n) == IF r = q THEN n + 1 ELSE n
    <3>1. InList(f, a, before(a, j)) /\ InList(f, b, before(b, k))
      BY <1>4, <1>5
    <3>2. before(a, j) \in Nat /\ before(b, k) \in Nat
      OBVIOUS
    <3>3. a = b /\ before(a, j) = before(b, k)
      BY <2>1, <3>1, <3>2 DEF Owned, OneList
    <3> QED
      BY <3>3
  <2>5. Listed(f)' => Listed(f) /\ ~InList(f, q, 1)
    <3> SUFFICES ASSUME NEW a \in Queues, NEW j \in Nat, InList(f, a, j)'
                 PROVE  Listed(f) /\ ~InList(f, q, 1)
      BY DEF Listed
    <3>1. CASE a = q
      <4>1. InList(f, q, j + 1) /\ j + 1 \in Nat /\ j + 1 # 1
        BY <1>4, <3>1
      <4> QED
        BY <2>1, <4>1 DEF Owned, OneList, Listed
    <3>2. CASE a # q
      BY <1>5, <2>1, <3>2 DEF Owned, OneList, Listed
    <3> QED
      BY <3>1, <3>2
  <2>6. Listed(f) => Listed(f)' \/ InList(f, q, 1)
    <3> SUFFICES ASSUME NEW a \in Queues, NEW j \in Nat, InList(f, a, j), ~InList(f, q, 1)
                 PROVE  Listed(f)'
      BY DEF Listed
    <3>1. CASE a = q
      <4>1. j # 1 /\ j \in 1 .. Len(queue[q])
        BY <3>1 DEF InList
      <4>2. j - 1 \in Nat /\ j - 1 >= 1 /\ (j - 1) + 1 = j
        BY <1>2, <4>1
      <4>3. InList(f, q, j - 1)'
        BY <1>4, <3>1, <4>2
      <4> QED
        BY <4>2, <4>3 DEF Listed
    <3>2. CASE a # q
      BY <1>5, <3>2 DEF Listed
    <3> QED
      BY <3>1, <3>2
  <2>7. Held(f)' <=> Held(f) \/ InList(f, q, 1)
    <3>1. ~InHand(f, t)
      BY <1>3 DEF InHand
    <3> QED
      BY <1>6, <3>1 DEF Held
  <2>8. InList(f, q, 1) => Listed(f)
    BY DEF Listed
  <2> QED
    BY <1>1, <2>1, <2>3, <2>4, <2>5, <2>6, <2>7, <2>8 DEF Owned
<1>8. AllLive'
  <2>1. ASSUME NEW k \in 1 .. Len(queue'[q]) PROVE Live(queue'[q][k])
    <3>1. k + 1 \in 1 .. Len(queue[q]) /\ queue'[q][k] = queue[q][k + 1]
      BY <1>2, <1>3
    <3> QED
      BY <3>1 DEF OwnInv, AllLive
  <2>2. \A r \in Queues : \A k \in 1 .. Len(queue'[r]) : Live(queue'[r][k])
    <3>1. ASSUME NEW r \in Queues, r # q, NEW k \in 1 .. Len(queue'[r]) PROVE Live(queue'[r][k])
      BY <1>3, <3>1 DEF OwnInv, AllLive
    <3> QED
      BY <2>1, <3>1
  <2>3. 1 \in 1 .. Len(queue[q])
    BY <1>2
  <2>4. \A u \in Threads : hold'[u] # NoHandle => Live(hold'[u])
    BY <1>3, <2>3 DEF OwnInv, AllLive
  <2> QED
    BY <1>1, <2>2, <2>4 DEF AllLive, Live
<1> QED
  BY <1>7, <1>8

LEMMA HandsOwns ==
  ASSUME OwnInv, NEW t \in Threads, NEW q \in Queues, Hands(t, q)
  PROVE  (\A f \in Fds : Owned(f)') /\ AllLive'
<1>1. /\ IInv /\ queue[q] \in Seq(Handles) /\ Len(queue[q]) \in Nat
      /\ hold[t] \in Handles /\ hold[t] # NoHandle /\ UNCHANGED <<fds, abandoned>>
  BY QueueTypes, HandTypes DEF OwnInv, Hands
<1> DEFINE l == Append(queue[q], hold[t])
           n == Len(queue[q]) + 1
<1>2. /\ l \in Seq(Handles) /\ Len(l) = n /\ n \in Nat
      /\ l[n] = hold[t] /\ \A k \in 1 .. Len(queue[q]) : l[k] = queue[q][k]
  BY <1>1, AppendProperties
<1>3. /\ queue'[q] = l /\ \A r \in Queues : r # q => queue'[r] = queue[r]
      /\ hold'[t] = NoHandle /\ \A u \in Threads : u # t => hold'[u] = hold[u]
  BY <1>1 DEF Hands, IInv, TypeOK
<1>4. 1 .. n = (1 .. Len(queue[q])) \union {n} /\ n \notin 1 .. Len(queue[q])
  BY <1>1
<1> HIDE DEF l
<1>5. \A f, k : InList(f, q, k)' <=> InList(f, q, k) \/ (k = n /\ InHand(f, t))
  BY <1>1, <1>2, <1>3, <1>4 DEF InList, InHand
<1>6. \A f, k : \A r \in Queues : r # q => (InList(f, r, k)' <=> InList(f, r, k))
  BY <1>3 DEF InList
<1>7. \A f : \A u \in Threads : InHand(f, u)' <=> u # t /\ InHand(f, u)
  BY <1>3 DEF InHand
<1>8. ASSUME NEW f \in Fds PROVE Owned(f)'
  <2>1. Owned(f)
    BY DEF OwnInv
  <2>2. Listed(f)' <=> Listed(f) \/ InHand(f, t)
    BY <1>2, <1>5, <1>6 DEF Listed
  <2>3. Held(f)' <=> \E u \in Threads : u # t /\ InHand(f, u)
    BY <1>7 DEF Held
  <2>4. OneList(f)'
    BY <1>5, <1>6, <2>1 DEF Owned, OneList, Listed, Held
  <2>5. OneHand(f)'
    BY <1>7, <2>1 DEF Owned, OneHand
  <2> QED
    BY <1>1, <2>1, <2>2, <2>3, <2>4, <2>5 DEF Owned, OneHand, Held
<1>9. AllLive'
  <2>1. \A r \in Queues : \A k \in 1 .. Len(queue'[r]) : Live(queue'[r][k])
    <3>1. \A k \in 1 .. Len(queue'[q]) : Live(queue'[q][k])
      BY <1>1, <1>2, <1>3, <1>4 DEF OwnInv, AllLive
    <3> QED
      BY <1>3, <3>1 DEF OwnInv, AllLive
  <2> QED
    BY <1>1, <1>3, <2>1 DEF OwnInv, AllLive, Live
<1> QED
  BY <1>8, <1>9

LEMMA OpensOwns ==
  ASSUME OwnInv, NEW t \in Threads, NEW f \in Fds, NEW c \in Clients, Opens(t, f, c)
  PROVE  (\A g \in Fds : Owned(g)') /\ AllLive'
<1>1. /\ IInv /\ fds[f] = NoClient /\ UNCHANGED <<queue, abandoned>> /\ hold[t] = NoHandle
      /\ c # NoClient
  BY ValuesAssumption DEF OwnInv, Opens
<1> DEFINE h == [sockfd |-> f, remote |-> c, info |-> <<>>]
<1>2. h \in Handles /\ h.sockfd = f /\ h.remote = c
  BY DEF Handles, Texts
<1>3. /\ fds'[f] = c /\ \A g \in Fds : g # f => fds'[g] = fds[g]
      /\ hold'[t] = h /\ h # NoHandle /\ \A u \in Threads : u # t => hold'[u] = hold[u]
  BY <1>1, <1>2, HandleAssumption DEF Opens, IInv, TypeOK
<1> HIDE DEF h
<1>4. \A g, q, k : InList(g, q, k)' <=> InList(g, q, k)
  BY <1>1 DEF InList
<1>5. \A g : \A u \in Threads : InHand(g, u)' <=> IF u = t THEN g = f ELSE InHand(g, u)
  BY <1>2, <1>3 DEF InHand
<1>6. ASSUME NEW g \in Fds PROVE Owned(g)'
  <2>1. Owned(g) /\ ~InHand(g, t)
    BY <1>1 DEF OwnInv, InHand
  <2>2. Listed(g)' <=> Listed(g)
    BY <1>4 DEF Listed
  <2>3. Held(g)' <=> g = f \/ Held(g)
    BY <1>5, <2>1 DEF Held
  <2>4. OneList(g)'
    BY <1>4, <2>1 DEF Owned, OneList
  <2>5. OneHand(g)'
    BY <1>1, <1>5, <2>1 DEF Owned, OneHand, Held
  <2> QED
    BY <1>1, <1>3, <2>1, <2>2, <2>3, <2>4, <2>5 DEF Owned
<1>7. AllLive'
  <2>1. ASSUME NEW q \in Queues, NEW k \in 1 .. Len(queue[q])
        PROVE  queue[q][k].sockfd \in Fds /\ queue[q][k].sockfd # f
    <3>1. queue[q][k].sockfd \in Fds /\ k \in Nat
      BY <1>1, QueueTypes DEF Handles
    <3>2. Listed(queue[q][k].sockfd)
      BY <3>1 DEF Listed, InList
    <3> QED
      BY <1>1, <3>1, <3>2 DEF OwnInv, Owned
  <2>2. ASSUME NEW u \in Threads, hold[u] # NoHandle
        PROVE  hold[u].sockfd \in Fds /\ hold[u].sockfd # f
    <3>1. hold[u].sockfd \in Fds /\ Held(hold[u].sockfd)
      BY <1>1, <2>2, HandTypes DEF Held, InHand
    <3> QED
      BY <1>1, <3>1 DEF OwnInv, Owned
  <2> QED
    BY <1>1, <1>2, <1>3, <2>1, <2>2 DEF OwnInv, AllLive, Live
<1> QED
  BY <1>6, <1>7

LEMMA EndsOwns ==
  ASSUME OwnInv, NEW t \in Threads, Closes(t) \/ Forgets(t)
  PROVE  (\A g \in Fds : Owned(g)') /\ AllLive'
<1> DEFINE f == hold[t].sockfd
<1>1. /\ IInv /\ f \in Fds /\ InHand(f, t) /\ UNCHANGED queue
      /\ \/ fds' = [fds EXCEPT ![f] = NoClient] /\ UNCHANGED abandoned
         \/ abandoned' = abandoned \union {f} /\ UNCHANGED fds
  BY HandTypes DEF OwnInv, Closes, Forgets, InHand
<1>2. hold'[t] = NoHandle /\ \A u \in Threads : u # t => hold'[u] = hold[u]
  BY <1>1 DEF Closes, Forgets, IInv, TypeOK
<1> HIDE DEF f
<1>3. \A g, q, k : InList(g, q, k)' <=> InList(g, q, k)
  BY <1>1 DEF InList
<1>4. \A g : \A u \in Threads : InHand(g, u)' <=> u # t /\ InHand(g, u)
  BY <1>2 DEF InHand
<1>5. ASSUME NEW g \in Fds PROVE Owned(g)'
  <2>1. Owned(g) /\ (InHand(g, t) <=> g = f)
    BY <1>1 DEF OwnInv, InHand
  <2>2. Listed(g)' <=> Listed(g)
    BY <1>3 DEF Listed
  <2>3. Held(g)' <=> g # f /\ Held(g)
    BY <1>4, <2>1 DEF Held, Owned, OneHand
  <2>4. OneList(g)' /\ OneHand(g)'
    BY <1>3, <1>4, <2>1 DEF Owned, OneList, OneHand
  <2>5. g = f => Held(g)
    BY <2>1 DEF Held
  <2>6. g # f => fds'[g] = fds[g] /\ (g \in abandoned' <=> g \in abandoned)
    BY <1>1 DEF IInv, TypeOK
  <2>7. g = f => \/ fds'[g] = NoClient /\ abandoned' = abandoned
                 \/ fds'[g] = fds[g] /\ g \in abandoned'
    BY <1>1 DEF IInv, TypeOK
  <2> QED
    BY <2>1, <2>2, <2>3, <2>4, <2>5, <2>6, <2>7 DEF Owned
<1>6. AllLive'
  <2>1. ASSUME NEW q \in Queues, NEW k \in 1 .. Len(queue[q])
        PROVE  queue[q][k].sockfd \in Fds /\ queue[q][k].sockfd # f
    <3>1. queue[q][k].sockfd \in Fds /\ k \in Nat
      BY <1>1, QueueTypes DEF Handles
    <3>2. Listed(queue[q][k].sockfd)
      BY <3>1 DEF Listed, InList
    <3> QED
      BY <1>1, <3>1, <3>2 DEF OwnInv, Owned, Held
  <2>2. ASSUME NEW u \in Threads, u # t, hold[u] # NoHandle
        PROVE  hold[u].sockfd \in Fds /\ hold[u].sockfd # f
    <3>1. hold[u].sockfd \in Fds /\ InHand(hold[u].sockfd, u)
      BY <1>1, <2>2, HandTypes DEF InHand
    <3> QED
      BY <1>1, <2>2, <3>1 DEF OwnInv, Owned, OneHand
  <2>3. \A g \in Fds : g # f => fds'[g] = fds[g]
    BY <1>1 DEF IInv, TypeOK
  <2> QED
    BY <1>1, <1>2, <2>1, <2>2, <2>3 DEF OwnInv, AllLive, Live
<1> QED
  BY <1>5, <1>6

-----------------------------------------------------------------------------
LEMMA InitOwns == ASSUME Init PROVE OwnInv
<1>1. IInv
  BY InitInv
<1>2. \A f \in Fds : ~Listed(f) /\ ~Held(f)
  BY DEF Init, Listed, Held, InList, InHand
<1>3. \A f \in Fds : Owned(f)
  BY <1>2 DEF Init, Owned, OneList, OneHand, Listed, Held
<1>4. AllLive
  BY DEF Init, AllLive
<1> QED
  BY <1>1, <1>3, <1>4 DEF OwnInv

LEMMA NextOwns == ASSUME OwnInv, [Next]_vars PROVE OwnInv'
<1>1. IInv' /\ OwnerStep
  BY NextInv, StepsOfOwners DEF OwnInv
<1> QED
  BY <1>1, SameOwns, TakesOwns, HandsOwns, OpensOwns, EndsOwns DEF OwnerStep, OwnInv

LEMMA OwnInvariance == Spec => []OwnInv
  BY InitOwns, NextOwns, PTL DEF Spec

\* An open descriptor has one owner among lists and threads until it is closed, unless an
\* ignored request abandoned it: none is lost, closed twice or used after its close.
THEOREM OneOwnerAtATime == Spec => []OneOwner
<1>1. ASSUME OwnInv, NEW f \in Fds
      PROVE  Cardinality(Owners(f)) = IF fds[f] = NoClient \/ f \in abandoned THEN 0 ELSE 1
  <2>1. Owned(f)
    BY <1>1 DEF OwnInv
  <2>2. \A x \in Slots : \E q \in Queues : \E k \in 1 .. Len(queue[q]) : x = <<q, k>>
    BY DEF Slots
  <2>3. \A q \in Queues : \A k \in 1 .. Len(queue[q]) : <<q, k>> \in Slots /\ At(<<q, k>>) = queue[q][k]
    BY DEF Slots, At
  <2>4. \A t \in Threads : t \in Busy /\ hold[t].sockfd = f <=> InHand(f, t)
    BY DEF Busy, InHand
  <2>5. CASE fds[f] = NoClient \/ f \in abandoned
    <3>1. ~Listed(f) /\ ~Held(f)
      BY <2>1, <2>5 DEF Owned
    <3>2. Owners(f) = {}
      BY <2>2, <2>3, <2>4, <3>1 DEF Owners, Listed, Held, InList, Busy
    <3> QED
      BY <2>5, <3>2, FS_EmptySet
  <2>6. CASE ~(fds[f] = NoClient \/ f \in abandoned)
    <3>1. \E x : Owners(f) = {x}
      <4>1. CASE Listed(f)
        <5>1. PICK q \in Queues, k \in Nat : InList(f, q, k)
          BY <4>1 DEF Listed
        <5>2. Owners(f) = {<<q, k>>}
          BY <2>1, <2>2, <2>3, <2>4, <4>1, <5>1 DEF Owners, Owned, OneList, Held, InList, Busy
        <5> QED
          BY <5>2
      <4>2. CASE Held(f)
        <5>1. PICK t \in Threads : InHand(f, t)
          BY <4>2 DEF Held
        <5>2. Owners(f) = {t}
          BY <2>1, <2>2, <2>3, <2>4, <4>2, <5>1 DEF Owners, Owned, OneHand, Listed, InList, Busy
        <5> QED
          BY <5>2
      <4> QED
        BY <2>1, <2>6, <4>1, <4>2 DEF Owned
    <3> QED
      BY <2>6, <3>1, FS_Singleton
  <2> QED
    BY <2>5, <2>6
<1>2. OwnInv => OneOwner
  BY <1>1 DEF OneOwner
<1> QED
  BY <1>2, OwnInvariance, PTL

\* The address and the descriptor a list or a thread keeps are of one connection, although
\* numbers are reused as soon as they are closed.
THEOREM HandlesAreLive == Spec => []HandleLive
<1>1. ASSUME OwnInv PROVE HandleLive
  <2>1. \A x \in Slots : \E q \in Queues : \E k \in 1 .. Len(queue[q]) : At(x) = queue[q][k]
    BY DEF Slots, At
  <2> QED
    BY <1>1, <2>1 DEF HandleLive, Known, Busy, OwnInv, AllLive, Live
<1> QED
  BY <1>1, OwnInvariance, PTL
=============================================================================
