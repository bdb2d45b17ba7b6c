-------------------------- MODULE ThreadPool_proofs --------------------------
(***************************************************************************)
(* The list of a thread and its current task agree whatever main does, and *)
(* wait_for_idle returns only when every task has run.                     *)
(***************************************************************************)
EXTENDS ThreadPool, FiniteSetTheorems, SequenceTheorems, TLAPS

Scanning == {"compare", "reread", "hire", "push"}
Leaving  == {"terminate", "join", "rejoin", "joining", "joined"}

\* Where main is in its program; the scan of append always finds a thread,
\* because the first load is below NoMin.
MainInv ==
  /\ main \in Scanning <=> sent < ntasks
  /\ main = "compare" /\ idx = 0 => i = 1 /\ min = NoMin
  /\ main \in {"reread", "terminate"} => i >= 1
  /\ main = "reread" => i <= NThreads
  /\ main \in {"hire", "push"} => idx \in Threads
  /\ main = "joining" => i <= NThreads

InList(t, w) == \E k \in 1 .. Len(list[w]) : list[w][k] = t

\* Every task main has appended has run or is in a list, and no other is.
TasksInv ==
  /\ \A w \in Threads : Len(list[w]) <= sent
  /\ \A w \in Threads : \A k \in 1 .. Len(list[w]) : list[w][k] <= sent
  /\ \A t \in ran : t <= sent
  /\ \A t \in 1 .. sent : t \in ran \/ \E w \in Threads : InList(t, w)

PopInv == \A w \in Threads : pc[w] = "pop" => curr[w] \in ran

\* What the loop of wait_for_idle knows: only main fills a list.
IdleInv ==
  /\ main = "count" /\ sum = 0 => \A w \in Threads : w < i => list[w] = <<>>
  /\ main \in Leaving => \A w \in Threads : list[w] = <<>>

IInv == TypeOK /\ HeadIsCurrent /\ MainInv /\ TasksInv /\ PopInv /\ IdleInv

-----------------------------------------------------------------------------
LEMMA InitInv == Init => IInv
<1> SUFFICES ASSUME Init PROVE IInv
  OBVIOUS
<1> USE PoolAssumption DEF Init
<1>1. TypeOK
  BY DEF TypeOK, Threads, Tasks, NoMin
<1>2. HeadIsCurrent /\ PopInv
  BY DEF HeadIsCurrent, PopInv
<1>3. MainInv
  BY DEF MainInv, Scanning, NoMin
<1>4. TasksInv /\ IdleInv
  BY DEF TasksInv, IdleInv, InList, Leaving, Threads
<1> QED
  BY <1>1, <1>2, <1>3, <1>4 DEF IInv

-----------------------------------------------------------------------------
(* The steps of main. *)

\* A step of main that touches no list and no thread's task.
LEMMA ListsStay ==
  ASSUME IInv, UNCHANGED <<list, curr, sent, ran>>,
         \A w \in Threads : pc'[w] \in {"run", "pop"} => pc'[w] = pc[w]
  PROVE  HeadIsCurrent' /\ TasksInv' /\ PopInv'
<1>1. HeadIsCurrent' /\ PopInv'
  BY DEF IInv, HeadIsCurrent, PopInv
<1>2. TasksInv'
  BY DEF IInv, TasksInv, InList
<1> QED
  BY <1>1, <1>2

LEMMA ScanInv == ASSUME IInv, Compare \/ Reread \/ Chosen PROVE IInv'
<1> USE PoolAssumption
<1>1. UNCHANGED <<list, pc, curr, finish, sent, ntasks, ran, sum>>
  BY DEF Compare, Reread, Chosen, threadVars, scanVars
<1>2. \A w \in Threads : Load(w) \in Nat /\ Load(w) <= sent /\ Load(w) < NoMin
  BY DEF IInv, TypeOK, TasksInv, Load, NoMin
<1>3. TypeOK' /\ MainInv'
  <2>1. CASE Compare
    <3>1. /\ main = "compare" /\ i \in Threads
          /\ UNCHANGED <<min, idx>>
          /\ \/ main' = "reread" /\ i' = i
             \/ main' = "compare" /\ i' = i + 1 /\ ~(Load(i) < min)
      BY <2>1 DEF Compare, IInv, TypeOK, Threads
    <3>2. main' = "compare" => idx # 0
      BY <1>2, <3>1 DEF IInv, MainInv
    <3>3. i \in Nat /\ i' \in 1 .. NThreads + 1
      BY <3>1 DEF Threads
    <3>4. TypeOK'
      BY <1>1, <3>1, <3>3 DEF IInv, TypeOK
    <3>5. MainInv'
      BY <1>1, <3>1, <3>2, <3>3 DEF IInv, MainInv, Scanning, Threads
    <3> QED
      BY <3>4, <3>5
  <2>2. CASE Reread
    <3>1. /\ main = "reread" /\ main' = "compare"
          /\ min' = Load(i) /\ idx' = i /\ i' = i + 1
      BY <2>2 DEF Reread
    <3>2. i \in Threads
      BY <3>1 DEF IInv, TypeOK, MainInv, Threads
    <3>3. min' \in 0 .. NoMin /\ idx' \in 0 .. NThreads /\ idx' # 0 /\ i' \in 1 .. NThreads + 1
      BY <1>2, <3>1, <3>2 DEF NoMin, Threads
    <3>4. TypeOK'
      BY <1>1, <3>1, <3>3 DEF IInv, TypeOK
    <3>5. MainInv'
      BY <1>1, <3>1, <3>3 DEF IInv, MainInv, Scanning
    <3> QED
      BY <3>4, <3>5
  <2>3. CASE Chosen
    <3>1. /\ main = "compare" /\ main' \in {"hire", "push"}
          /\ i > NThreads /\ UNCHANGED <<i, min, idx>>
      BY <2>3 DEF Chosen, scanVars
    <3>2. idx \in Threads
      BY <3>1 DEF IInv, TypeOK, MainInv, Threads
    <3>3. TypeOK'
      BY <1>1, <3>1 DEF IInv, TypeOK
    <3>4. MainInv'
      BY <1>1, <3>1, <3>2 DEF IInv, MainInv, Scanning
    <3> QED
      BY <3>3, <3>4
  <2> QED
    BY <2>1, <2>2, <2>3
<1>4. HeadIsCurrent' /\ TasksInv' /\ PopInv'
  BY <1>1, ListsStay
<1>5. IdleInv'
  BY DEF Compare, Reread, Chosen, IdleInv, Leaving
<1> QED
  BY <1>3, <1>4, <1>5 DEF IInv

LEMMA HireInv == ASSUME IInv, Hire PROVE IInv'
<1>1. TypeOK' /\ MainInv'
  BY DEF Hire, IInv, TypeOK, MainInv, Scanning, scanVars
<1>2. HeadIsCurrent' /\ TasksInv' /\ PopInv'
  BY ListsStay DEF Hire, IInv, TypeOK
<1>3. IdleInv'
  BY DEF Hire, IdleInv, Leaving
<1> QED
  BY <1>1, <1>2, <1>3 DEF IInv

LEMMA PushInv == ASSUME IInv, Push PROVE IInv'
<1> USE PoolAssumption
<1>1. /\ idx \in Threads /\ sent \in Nat /\ ntasks \in 0 .. MaxTasks
      /\ sent < ntasks /\ sent' = sent + 1 /\ sent' \in Tasks
      /\ UNCHANGED <<curr, finish, ntasks, ran>>
      /\ StartsScan
  BY DEF Push, IInv, TypeOK, MainInv, Scanning, Tasks
<1>2. list[idx] \in Seq(Tasks)
  BY <1>1 DEF IInv, TypeOK
<1> DEFINE l == Append(list[idx], sent')
<1>3. /\ l \in Seq(Tasks) /\ Len(list[idx]) \in Nat /\ Len(l) = Len(list[idx]) + 1
      /\ \A k \in 1 .. Len(list[idx]) : l[k] = list[idx][k]
      /\ l[Len(l)] = sent'
  BY <1>1, <1>2, AppendProperties, LenProperties
<1>4. list' = [list EXCEPT ![idx] = l]
  BY <1>1 DEF Push
<1> HIDE DEF l
<1>5. list' \in [Threads -> Seq(Tasks)] /\ list'[idx] = l
      /\ \A w \in Threads : w # idx => list'[w] = list[w]
  BY <1>1, <1>3, <1>4 DEF IInv, TypeOK
<1>6. pc' = pc \/ (pc[idx] = "waiting" /\ pc' = [pc EXCEPT ![idx] = "top"])
  BY DEF Push, Notified
<1>7. TypeOK'
  <2>1. pc' \in [Threads -> {"none", "top", "run", "pop", "check", "about", "waiting", "exit"}]
    BY <1>6 DEF IInv, TypeOK
  <2>2. sent' \in 0 .. ntasks
    BY <1>1
  <2>3. /\ main' \in {"compare", "count"} /\ i' \in 1 .. NThreads + 1
        /\ min' \in 0 .. NoMin /\ idx' \in 0 .. NThreads /\ sum' \in Nat
    BY <1>1 DEF StartsScan, NoMin
  <2> QED
    BY <1>1, <1>5, <2>1, <2>2, <2>3 DEF IInv, TypeOK
<1>8. MainInv'
  BY <1>1 DEF MainInv, StartsScan, Scanning, NoMin
<1>9. HeadIsCurrent'
  <2> SUFFICES ASSUME NEW w \in Threads, pc'[w] \in {"run", "pop"}
               PROVE  list'[w] # <<>> /\ Head(list'[w]) = curr'[w]
    BY DEF HeadIsCurrent
  <2>1. pc[w] = pc'[w] /\ list[w] # <<>> /\ Head(list[w]) = curr[w]
    BY <1>1, <1>6 DEF IInv, HeadIsCurrent, TypeOK
  <2>2. CASE w # idx
    BY <1>1, <1>5, <2>1, <2>2
  <2>3. CASE w = idx
    <3>1. Len(list[idx]) >= 1 /\ Head(list[idx]) = list[idx][1]
      BY <1>2, <2>1, <2>3, EmptySeq, LenProperties, HeadTailProperties
    <3>2. l # <<>> /\ Head(l) = l[1] /\ l[1] = list[idx][1]
      BY <1>3, <3>1, EmptySeq, HeadTailProperties
    <3> QED
      BY <1>1, <1>5, <2>1, <2>3, <3>1, <3>2
  <2> QED
    BY <2>2, <2>3
<1>10. TasksInv'
  <2>1. \A w \in Threads : Len(list'[w]) <= sent'
    BY <1>1, <1>3, <1>5 DEF IInv, TasksInv, TypeOK
  <2>2. \A w \in Threads : \A k \in 1 .. Len(list'[w]) : list'[w][k] <= sent'
    <3> SUFFICES ASSUME NEW w \in Threads, NEW k \in 1 .. Len(list'[w])
                 PROVE  list'[w][k] <= sent'
      OBVIOUS
    <3>1. CASE w # idx
      BY <1>1, <1>5, <3>1 DEF IInv, TasksInv, TypeOK, Tasks
    <3>2. CASE w = idx /\ k = Len(l)
      BY <1>1, <1>3, <1>5, <3>2
    <3>3. CASE w = idx /\ k # Len(l)
      <4>1. k \in 1 .. Len(list[idx]) /\ list'[w][k] = list[idx][k]
        BY <1>3, <1>5, <3>3
      <4>2. list[idx][k] <= sent /\ list[idx][k] \in Nat
        BY <1>1, <1>2, <4>1, ElementOfSeq DEF IInv, TasksInv, Tasks
      <4> QED
        BY <1>1, <4>1, <4>2
    <3> QED
      BY <3>1, <3>2, <3>3
  <2>3. \A t \in ran' : t <= sent'
    BY <1>1 DEF IInv, TasksInv, TypeOK, Tasks
  <2>4. ASSUME NEW t \in 1 .. sent' PROVE t \in ran' \/ \E w \in Threads : InList(t, w)'
    <3>1. CASE t = sent'
      <4>1. Len(l) \in 1 .. Len(list'[idx]) /\ list'[idx][Len(l)] = t
        BY <1>3, <1>5, <3>1
      <4> QED
        BY <1>1, <4>1 DEF InList
    <3>2. CASE t \in 1 .. sent
      <4>1. CASE t \in ran
        BY <1>1, <4>1
      <4>2. ASSUME NEW w \in Threads, InList(t, w) PROVE InList(t, w)'
        BY <1>3, <1>5, <4>2 DEF InList
      <4> QED
        BY <3>2, <4>1, <4>2 DEF IInv, TasksInv
    <3> QED
      BY <1>1, <2>4, <3>1, <3>2
  <2> QED
    BY <2>1, <2>2, <2>3, <2>4 DEF TasksInv
<1>11. PopInv'
  BY <1>1, <1>6 DEF IInv, PopInv, TypeOK
<1>12. IdleInv'
  BY DEF StartsScan, Push, IdleInv, Leaving, Threads
<1> QED
  BY <1>7, <1>8, <1>9, <1>10, <1>11, <1>12 DEF IInv

LEMMA CountInv == ASSUME IInv, Count \/ Counted PROVE IInv'
<1> USE PoolAssumption
<1>1. /\ UNCHANGED <<list, pc, curr, finish, sent, ntasks, ran, min, idx>>
      /\ main = "count"
  BY DEF Count, Counted, threadVars
<1>2. HeadIsCurrent' /\ TasksInv' /\ PopInv'
  BY <1>1, ListsStay
<1>3. CASE Count
  <2>1. /\ i \in Threads /\ i' = i + 1 /\ main' = main
        /\ sum' = sum + Load(i) /\ sum \in Nat
        /\ list[i] \in Seq(Tasks) /\ Load(i) \in Nat
    BY <1>3 DEF Count, IInv, TypeOK, Threads, Load
  <2>2. sum' = 0 => sum = 0 /\ list[i] = <<>>
    BY <2>1, EmptySeq DEF Load
  <2>3. IdleInv'
    <3>1. \A w \in Threads : w < i' => w < i \/ w = i
      BY <2>1 DEF Threads
    <3>2. main' = "count" /\ UNCHANGED list
      BY <1>1, <2>1
    <3>3. sum' = 0 => \A w \in Threads : w < i => list[w] = <<>>
      BY <1>1, <2>2 DEF IInv, IdleInv
    <3>4. main' \notin Leaving
      BY <3>2 DEF Leaving
    <3>5. sum' = 0 => \A w \in Threads : w < i' => list'[w] = <<>>
      BY <2>2, <3>1, <3>2, <3>3
    <3> QED
      BY <3>4, <3>5 DEF IdleInv
  <2>4. sum' \in Nat /\ i' \in 1 .. NThreads + 1
    BY <2>1 DEF Threads
  <2>5. TypeOK' /\ MainInv'
    BY <1>1, <2>1, <2>4 DEF IInv, TypeOK, MainInv, Scanning
  <2> QED
    BY <1>2, <2>3, <2>5 DEF IInv
<1>4. CASE Counted
  <2>1. /\ i > NThreads /\ i' = 1 /\ sum' = 0
        /\ main' = IF sum = 0 THEN "terminate" ELSE "count"
    BY <1>4 DEF Counted
  <2>2. TypeOK' /\ MainInv'
    BY <1>1, <2>1 DEF IInv, TypeOK, MainInv, Scanning
  <2>3. IdleInv'
    BY <1>1, <2>1 DEF IInv, TypeOK, IdleInv, Leaving, Threads
  <2> QED
    BY <1>2, <2>2, <2>3 DEF IInv
<1> QED
  BY <1>3, <1>4 DEF Count, Counted

LEMMA LeaveInv ==
  ASSUME IInv, Terminate \/ StartsJoin \/ JoinTerminates \/ Join \/ Joined PROVE IInv'
<1> USE PoolAssumption
<1>1. /\ UNCHANGED <<list, curr, sent, ntasks, ran, min, idx, sum>>
      /\ main \in Leaving /\ (main' \in Leaving \ {"terminate"} \/ main' = main)
      /\ main' = "terminate" => i' >= 1
      /\ main' = "joining" => i' <= NThreads
      /\ i' \in 1 .. NThreads + 1
  BY DEF Terminate, StartsJoin, JoinTerminates, Join, Joined, threadVars, scanVars, Leaving,
         IInv, TypeOK, MainInv
<1>2. pc' = pc \/ \E w \in Threads : pc[w] = "waiting" /\ pc' = [pc EXCEPT ![w] = "top"]
  BY DEF Terminate, StartsJoin, JoinTerminates, Join, Joined, Terminated, Notified, threadVars,
         IInv, TypeOK, Threads
<1>3. finish' \in [Threads -> BOOLEAN]
  BY DEF Terminate, StartsJoin, JoinTerminates, Join, Joined, Terminated, IInv, TypeOK
<1>4. TypeOK'
  BY <1>1, <1>2, <1>3 DEF IInv, TypeOK, Leaving
<1>5. MainInv' /\ IdleInv'
  BY <1>1 DEF IInv, MainInv, IdleInv, Leaving, Scanning
<1>6. HeadIsCurrent' /\ TasksInv' /\ PopInv'
  BY <1>1, <1>2, ListsStay DEF IInv, TypeOK
<1> QED
  BY <1>4, <1>5, <1>6 DEF IInv

-----------------------------------------------------------------------------
(* The steps of a thread. *)

\* main's part of the invariant survives a step of a thread that fills no list.
LEMMA MainStays ==
  ASSUME IInv, UNCHANGED <<finish, ntasks, main, sent, scanVars>>,
         \A w \in Threads : list[w] = <<>> => list'[w] = <<>>
  PROVE  MainInv' /\ IdleInv'
<1>1. UNCHANGED <<main, sent, ntasks, i, min, idx, sum>>
  BY DEF scanVars
<1> QED
  BY <1>1 DEF IInv, MainInv, IdleInv

LEMMA QuietInv ==
  ASSUME IInv, NEW w \in Threads, TakeNone(w) \/ Check(w) \/ Wait(w) \/ Timeout(w)
  PROVE  IInv'
<1>1. /\ UNCHANGED <<list, curr, ran, finish, ntasks, main, sent, scanVars>>
      /\ \E p \in {"top", "check", "about", "waiting", "exit"} : pc' = [pc EXCEPT ![w] = p]
  BY DEF TakeNone, Check, Wait, Timeout, Goes
<1>2. TypeOK'
  BY <1>1 DEF IInv, TypeOK, scanVars
<1>3. HeadIsCurrent' /\ TasksInv' /\ PopInv'
  BY <1>1, ListsStay DEF IInv, TypeOK
<1>4. MainInv' /\ IdleInv'
  BY <1>1, MainStays
<1> QED
  BY <1>2, <1>3, <1>4 DEF IInv

LEMMA TakeInv == ASSUME IInv, NEW w \in Threads, Take(w) PROVE IInv'
<1>1. /\ UNCHANGED <<list, ran, finish, ntasks, main, sent, scanVars>>
      /\ pc' = [pc EXCEPT ![w] = "run"] /\ list[w] # <<>>
      /\ curr' = [curr EXCEPT ![w] = Head(list[w])]
  BY DEF Take, Goes
<1>2. Head(list[w]) \in Tasks
  BY <1>1, HeadTailProperties DEF IInv, TypeOK
<1>3. TypeOK'
  BY <1>1, <1>2 DEF IInv, TypeOK, scanVars
<1>4. HeadIsCurrent' /\ PopInv'
  BY <1>1 DEF IInv, TypeOK, HeadIsCurrent, PopInv
<1>5. TasksInv'
  BY <1>1 DEF IInv, TasksInv, InList
<1>6. MainInv' /\ IdleInv'
  BY <1>1, MainStays
<1> QED
  BY <1>3, <1>4, <1>5, <1>6 DEF IInv

LEMMA RunInv == ASSUME IInv, NEW w \in Threads, Run(w) PROVE IInv'
<1>1. /\ UNCHANGED <<list, curr, finish, ntasks, main, sent, scanVars>>
      /\ pc[w] = "run" /\ pc' = [pc EXCEPT ![w] = "pop"]
      /\ ran' = ran \union {curr[w]}
  BY DEF Run, Goes
<1>2. list[w] # <<>> /\ Head(list[w]) = curr[w] /\ list[w] \in Seq(Tasks)
  BY <1>1 DEF IInv, HeadIsCurrent, TypeOK
<1>3. 1 \in 1 .. Len(list[w]) /\ list[w][1] = curr[w] /\ curr[w] \in Tasks
  BY <1>2, HeadTailProperties, EmptySeq, LenProperties
<1>4. curr[w] <= sent
  BY <1>3 DEF IInv, TasksInv
<1>5. TypeOK'
  BY <1>1, <1>3 DEF IInv, TypeOK, scanVars
<1>6. HeadIsCurrent' /\ PopInv'
  BY <1>1 DEF IInv, TypeOK, HeadIsCurrent, PopInv
<1>7. TasksInv'
  BY <1>1, <1>4 DEF IInv, TasksInv, InList
<1>8. MainInv' /\ IdleInv'
  BY <1>1, MainStays
<1> QED
  BY <1>5, <1>6, <1>7, <1>8 DEF IInv

LEMMA PopStepInv == ASSUME IInv, NEW w \in Threads, Pop(w) PROVE IInv'
<1>1. /\ UNCHANGED <<curr, ran, finish, ntasks, main, sent, scanVars>>
      /\ pc[w] = "pop" /\ pc' = [pc EXCEPT ![w] = "check"]
      /\ list' = [list EXCEPT ![w] = Tail(list[w])]
  BY DEF Pop, Goes
<1>2. /\ list[w] # <<>> /\ Head(list[w]) = curr[w] /\ list[w] \in Seq(Tasks)
      /\ curr[w] \in ran
  BY <1>1 DEF IInv, HeadIsCurrent, PopInv, TypeOK
<1> DEFINE r == Tail(list[w])
<1>3. /\ r \in Seq(Tasks) /\ Len(list[w]) \in Nat /\ Len(r) = Len(list[w]) - 1
      /\ Len(list[w]) >= 1 /\ list[w][1] = curr[w]
      /\ \A k \in 1 .. Len(r) : r[k] = list[w][k + 1]
  BY <1>2, HeadTailProperties, EmptySeq, LenProperties
<1>4. list' = [list EXCEPT ![w] = r]
  BY <1>1
<1> HIDE DEF r
<1>5. /\ list' \in [Threads -> Seq(Tasks)] /\ list'[w] = r
      /\ \A v \in Threads : v # w => list'[v] = list[v]
  BY <1>3, <1>4 DEF IInv, TypeOK
<1>6. TypeOK'
  BY <1>1, <1>5 DEF IInv, TypeOK, scanVars
<1>7. HeadIsCurrent' /\ PopInv'
  BY <1>1, <1>5 DEF IInv, TypeOK, HeadIsCurrent, PopInv
<1>8. TasksInv'
  <2>1. \A v \in Threads : Len(list'[v]) <= sent'
    BY <1>1, <1>3, <1>5 DEF IInv, TasksInv, TypeOK
  <2>2. \A v \in Threads : \A k \in 1 .. Len(list'[v]) : list'[v][k] <= sent'
    <3>1. \A k \in 1 .. Len(r) : k + 1 \in 1 .. Len(list[w])
      BY <1>3
    <3> QED
      BY <1>1, <1>3, <1>5, <3>1 DEF IInv, TasksInv
  <2>3. ASSUME NEW t \in 1 .. sent', t \notin ran' PROVE \E v \in Threads : InList(t, v)'
    <3>1. PICK v \in Threads : InList(t, v)
      BY <1>1, <2>3 DEF IInv, TasksInv
    <3>2. CASE v # w
      BY <1>5, <3>1, <3>2 DEF InList
    <3>3. CASE v = w
      <4>1. PICK k \in 1 .. Len(list[w]) : list[w][k] = t
        BY <3>1, <3>3 DEF InList
      <4>2. k # 1
        BY <1>1, <1>2, <1>3, <2>3, <4>1
      <4>3. k - 1 \in 1 .. Len(r) /\ r[k - 1] = t
        BY <1>3, <4>1, <4>2
      <4> QED
        BY <1>5, <3>3, <4>3 DEF InList
    <3> QED
      BY <3>2, <3>3
  <2>4. \A t \in ran' : t <= sent'
    BY <1>1 DEF IInv, TasksInv
  <2> QED
    BY <2>1, <2>2, <2>3, <2>4 DEF TasksInv
<1>9. \A v \in Threads : list[v] = <<>> => list'[v] = <<>>
  BY <1>2, <1>5
<1>10. MainInv' /\ IdleInv'
  BY <1>1, <1>9, MainStays
<1> QED
  BY <1>6, <1>7, <1>8, <1>10 DEF IInv

LEMMA StutterInv == ASSUME IInv, UNCHANGED vars PROVE IInv'
<1>1. UNCHANGED <<list, pc, curr, finish, ntasks, main, sent, scanVars, ran>>
  BY DEF vars, threadVars
<1>2. TypeOK'
  BY <1>1 DEF IInv, TypeOK, scanVars
<1>3. HeadIsCurrent' /\ TasksInv' /\ PopInv'
  BY <1>1, ListsStay
<1>4. MainInv' /\ IdleInv'
  BY <1>1, MainStays
<1> QED
  BY <1>2, <1>3, <1>4 DEF IInv

LEMMA NextInv == ASSUME IInv, [Next]_vars PROVE IInv'
<1>1. CASE Main
  BY <1>1, ScanInv, HireInv, PushInv, CountInv, LeaveInv DEF Main
<1>2. ASSUME NEW w \in Threads, Loops(w) \/ Run(w) PROVE IInv'
  BY <1>2, QuietInv, TakeInv, RunInv, PopStepInv DEF Loops
<1>3. CASE UNCHANGED vars
  BY <1>3, StutterInv
<1> QED
  BY <1>1, <1>2, <1>3 DEF Next

LEMMA Invariance == Spec => []IInv
  BY InitInv, NextInv, PTL DEF Spec

-----------------------------------------------------------------------------
\* Types, for every number of threads and tasks.
THEOREM TypeCorrect == Spec => []TypeOK
<1>1. IInv => TypeOK
  BY DEF IInv
<1> QED
  BY <1>1, Invariance, PTL

\* pop_front always removes the task that has just run.
THEOREM PopsWhatRan == Spec => []HeadIsCurrent
<1>1. IInv => HeadIsCurrent
  BY DEF IInv
<1> QED
  BY <1>1, Invariance, PTL

\* wait_for_idle returns only when all tasks have run.
THEOREM IdleIsDone == Spec => []IdleMeansDone
<1>1. ASSUME IInv PROVE IdleMeansDone
  <2> SUFFICES ASSUME main \in Leaving PROVE ran = 1 .. ntasks
    BY DEF IdleMeansDone, Leaving
  <2>1. sent = ntasks /\ sent \in Nat
    BY <1>1 DEF IInv, TypeOK, MainInv, Scanning, Leaving
  <2>2. \A t \in 1 .. sent : t \in ran
    <3>1. \A w \in Threads, t \in 1 .. sent : ~InList(t, w)
      BY <1>1 DEF IInv, IdleInv, InList
    <3> QED
      BY <1>1, <3>1 DEF IInv, TasksInv
  <2>3. \A t \in ran : t \in 1 .. sent
    BY <1>1, <2>1 DEF IInv, TypeOK, TasksInv, Tasks
  <2> QED
    BY <2>1, <2>2, <2>3
<1> QED
  BY <1>1, Invariance, PTL
-----------------------------------------------------------------------------
(* Loops of their own: the scan of append finds an empty list if a thread was never *)
(* hired, and every thread that was has been given a task. *)

Hired == {w \in Threads : pc[w] # "none"}

OwnInv ==
  /\ \A w \in Threads : pc[w] = "none" => list[w] = <<>>
  /\ Cardinality(Hired) <= sent + 1
  /\ main # "push" => Cardinality(Hired) <= sent
  /\ main = "push" => pc[idx] # "none"
  /\ main = "reread" => min # 0
  /\ main \in {"compare", "reread"} /\ min = 0 => idx \in Threads /\ list[idx] = <<>>
  /\ main \in {"compare", "reread"} /\ min # 0 =>
       \A w \in Threads : w < i => pc[w] # "none"
  /\ main \in {"hire", "push"} /\ ntasks <= NThreads => list[idx] = <<>>
  /\ OwnThread

LEMMA HiredCounts == IsFiniteSet(Hired) /\ Cardinality(Hired) \in Nat
<1>1. IsFiniteSet(Threads)
  BY FS_Interval, PoolAssumption DEF Threads
<1> QED
  BY <1>1, FS_Subset, FS_CardinalityType DEF Hired

\* Without a thread that was never hired there are as many hired as threads.
LEMMA AllHired ==
  ASSUME \A w \in Threads : pc[w] # "none"
  PROVE  Cardinality(Hired) = NThreads
<1>1. Hired = 1 .. NThreads
  BY DEF Hired, Threads
<1>2. 1 \in Int /\ NThreads \in Int /\ ~(1 > NThreads) /\ NThreads - 1 + 1 = NThreads
  BY PoolAssumption
<1> QED
  BY <1>1, <1>2, FS_Interval

LEMMA OwnInit == Init => OwnInv
<1> SUFFICES ASSUME Init PROVE OwnInv
  OBVIOUS
<1>1. Hired = {}
  BY DEF Init, Hired
<1>2. NoMin # 0 /\ 0 \notin Threads
  BY PoolAssumption DEF NoMin, Threads
<1>3. \A w \in Threads : ~(w < 1)
  BY DEF Threads
<1> QED
  BY <1>1, <1>2, <1>3, FS_EmptySet DEF Init, OwnInv, OwnThread

\* Steps that fill no list, hire no thread and leave the scan as it is.
LEMMA OwnStays ==
  ASSUME IInv, OwnInv, UNCHANGED <<sent, ntasks>>,
         main' \in Scanning => UNCHANGED <<main, i, min, idx>>,
         main = "push" => main' = "push",
         \A w \in Threads : pc'[w] = "none" <=> pc[w] = "none",
         \A w \in Threads : \/ list'[w] = list[w]
                            \/ list'[w] \in Seq(Tasks) /\ Len(list'[w]) < Len(list[w])
  PROVE  OwnInv'
<1>1. Hired' = Hired
  BY DEF Hired
<1>2. \A w \in Threads : list[w] = <<>> => list'[w] = <<>>
  BY LenProperties
<1>3. OwnThread'
  <2> SUFFICES ASSUME ntasks <= NThreads, NEW w \in Threads PROVE Len(list'[w]) <= 1
    BY DEF OwnThread
  <2>1. list[w] \in Seq(Tasks) /\ Len(list[w]) <= 1
    BY DEF IInv, TypeOK, OwnInv, OwnThread
  <2> QED
    BY <2>1, LenProperties
<1>4. \A w \in Threads : pc'[w] = "none" => list'[w] = <<>>
  BY <1>2 DEF OwnInv
<1>5. /\ Cardinality(Hired') <= sent' + 1
      /\ main' # "push" => Cardinality(Hired') <= sent'
  BY <1>1 DEF OwnInv
<1>6. main' \in {"hire", "push"} => main = main' /\ idx' = idx /\ idx \in Threads
  BY DEF Scanning, IInv, MainInv
<1>7. /\ main' = "push" => pc'[idx'] # "none"
      /\ main' \in {"hire", "push"} /\ ntasks' <= NThreads => list'[idx'] = <<>>
  BY <1>2, <1>6 DEF OwnInv
<1>8. /\ main' = "reread" => min' # 0
      /\ main' \in {"compare", "reread"} /\ min' = 0 => idx' \in Threads /\ list'[idx'] = <<>>
      /\ main' \in {"compare", "reread"} /\ min' # 0 =>
           \A w \in Threads : w < i' => pc'[w] # "none"
  BY <1>2 DEF OwnInv, Scanning
<1> QED
  BY <1>3, <1>4, <1>5, <1>7, <1>8 DEF OwnInv

LEMMA OwnScan == ASSUME IInv, OwnInv, Compare \/ Reread \/ Chosen PROVE OwnInv'
<1> USE PoolAssumption
<1>1. /\ UNCHANGED <<list, pc, sent, ntasks>>
      /\ Hired' = Hired /\ OwnThread'
      /\ \A w \in Threads : Load(w) \in Nat /\ (Load(w) = 0 <=> list[w] = <<>>)
  <2>1. UNCHANGED <<list, pc, sent, ntasks>>
    BY DEF Compare, Reread, Chosen, threadVars
  <2>2. \A w \in Threads : Load(w) \in Nat /\ (Load(w) = 0 <=> list[w] = <<>>)
    BY EmptySeq, LenProperties DEF IInv, TypeOK, Load
  <2> QED
    BY <2>1, <2>2 DEF Hired, OwnInv, OwnThread
<1>2. CASE Compare
  <2>1. /\ main = "compare" /\ i \in Threads /\ UNCHANGED <<min, idx>>
        /\ \/ main' = "reread" /\ i' = i /\ Load(i) < min
           \/ main' = "compare" /\ i' = i + 1 /\ ~(Load(i) < min)
    BY <1>2 DEF Compare, IInv, TypeOK, Threads
  <2>2. main' = "reread" => min' # 0
    BY <1>1, <2>1
  <2>3. min # 0 => \A w \in Threads : w < i' => pc'[w] # "none"
    <3> SUFFICES ASSUME min # 0, NEW w \in Threads, w < i' PROVE pc[w] # "none"
      BY <1>1
    <3>1. CASE w < i
      BY <2>1, <3>1 DEF OwnInv
    <3>2. CASE ~(w < i)
      <4>1. w = i /\ ~(Load(i) < min)
        BY <2>1, <3>2 DEF Threads
      <4>2. min \in Nat
        BY DEF IInv, TypeOK, NoMin
      <4>3. Load(i) # 0
        BY <1>1, <2>1, <4>1, <4>2
      <4> QED
        BY <1>1, <2>1, <4>1, <4>3 DEF OwnInv
    <3> QED
      BY <3>1, <3>2
  <2> QED
    BY <1>1, <2>1, <2>2, <2>3 DEF OwnInv
<1>3. CASE Reread
  <2>1. /\ main = "reread" /\ main' = "compare" /\ i \in Threads
        /\ min' = Load(i) /\ idx' = i /\ i' = i + 1
    BY <1>3 DEF Reread, IInv, TypeOK, MainInv, Threads
  <2>2. min' = 0 => idx' \in Threads /\ list'[idx'] = <<>>
    BY <1>1, <2>1
  <2>3. min' # 0 => \A w \in Threads : w < i' => pc'[w] # "none"
    <3> SUFFICES ASSUME min' # 0, NEW w \in Threads, w < i' PROVE pc[w] # "none"
      BY <1>1
    <3>1. CASE w < i
      BY <2>1, <3>1 DEF OwnInv
    <3>2. CASE ~(w < i)
      BY <1>1, <2>1, <3>2 DEF OwnInv, Threads
    <3> QED
      BY <3>1, <3>2
  <2> QED
    BY <1>1, <2>1, <2>2, <2>3 DEF OwnInv
<1>4. CASE Chosen
  <2>1. /\ main = "compare" /\ i > NThreads /\ idx \in Threads
        /\ main' = IF pc[idx] = "none" THEN "hire" ELSE "push"
        /\ UNCHANGED <<i, min, idx>>
    BY <1>4 DEF Chosen, scanVars, IInv, TypeOK, MainInv, Threads
  <2>2. ntasks <= NThreads => min = 0
    <3> SUFFICES ASSUME ntasks <= NThreads, min # 0 PROVE FALSE
      OBVIOUS
    <3>1. \A w \in Threads : w < i
      BY <2>1 DEF Threads, IInv, TypeOK
    <3>2. Cardinality(Hired) = NThreads
      BY <2>1, <3>1, AllHired DEF OwnInv
    <3>3. Cardinality(Hired) <= sent /\ sent < ntasks
      BY <2>1 DEF OwnInv, IInv, MainInv, Scanning
    <3>4. sent \in Nat /\ ntasks \in Nat
      BY DEF IInv, TypeOK
    <3> QED
      BY <3>2, <3>3, <3>4
  <2>3. ntasks' <= NThreads => list'[idx'] = <<>>
    BY <1>1, <2>1, <2>2 DEF OwnInv
  <2>4. Cardinality(Hired') <= sent'
    BY <1>1, <2>1 DEF OwnInv
  <2>5. Cardinality(Hired') <= sent' + 1
    BY <1>1 DEF OwnInv
  <2> QED
    BY <1>1, <2>1, <2>3, <2>4, <2>5 DEF OwnInv
<1> QED
  BY <1>2, <1>3, <1>4

LEMMA OwnHire == ASSUME IInv, OwnInv, Hire PROVE OwnInv'
<1>1. /\ idx \in Threads /\ main = "hire" /\ main' = "push"
      /\ pc' = [pc EXCEPT ![idx] = "top"]
      /\ UNCHANGED <<list, sent, ntasks, i, min, idx>>
  BY DEF Hire, IInv, MainInv, scanVars
<1>2. pc'[idx] = "top" /\ \A w \in Threads : w # idx => pc'[w] = pc[w]
  BY <1>1 DEF IInv, TypeOK
<1>3. Hired' = Hired \union {idx}
  BY <1>1, <1>2 DEF Hired
<1>4. Cardinality(Hired') <= sent' + 1
  <2>1. Cardinality(Hired') <= Cardinality(Hired) + 1
    BY <1>3, HiredCounts, FS_AddElement
  <2>2. Cardinality(Hired) <= sent /\ sent \in Nat
    BY <1>1 DEF OwnInv, IInv, TypeOK
  <2>3. Cardinality(Hired') \in Nat
    BY <1>3, HiredCounts, FS_AddElement
  <2> QED
    BY <1>1, <2>1, <2>2, <2>3, HiredCounts
<1> QED
  BY <1>1, <1>2, <1>4 DEF OwnInv, OwnThread

LEMMA OwnPush == ASSUME IInv, OwnInv, Push PROVE OwnInv'
<1> USE PoolAssumption
<1>1. /\ idx \in Threads /\ main = "push" /\ sent \in Nat /\ sent' = sent + 1
      /\ list' = [list EXCEPT ![idx] = Append(@, sent')]
      /\ UNCHANGED ntasks /\ StartsScan
  BY DEF Push, IInv, TypeOK, MainInv
<1>2. pc' = pc \/ (pc[idx] = "waiting" /\ pc' = [pc EXCEPT ![idx] = "top"])
  BY DEF Push, Notified
<1>3. \A w \in Threads : pc'[w] = "none" <=> pc[w] = "none"
  BY <1>1, <1>2 DEF IInv, TypeOK
<1>4. Hired' = Hired
  BY <1>3 DEF Hired
<1>5. /\ list[idx] \in Seq(Tasks) /\ list'[idx] = Append(list[idx], sent')
      /\ \A w \in Threads : w # idx => list'[w] = list[w]
  BY <1>1 DEF IInv, TypeOK
<1>6. sent' \in Tasks
  BY <1>1 DEF IInv, TypeOK, MainInv, Scanning, Tasks
<1>7. OwnThread'
  <2> SUFFICES ASSUME ntasks <= NThreads PROVE \A w \in Threads : Len(list'[w]) <= 1
    BY <1>1 DEF OwnThread
  <2>1. list[idx] = <<>>
    BY <1>1 DEF OwnInv
  <2>2. list'[idx] = <<sent'>>
    BY <1>5, <2>1
  <2>3. Len(list'[idx]) = 1
    BY <2>2
  <2> QED
    BY <1>5, <2>3 DEF OwnInv, OwnThread
<1>8. \A w \in Threads : pc'[w] = "none" => list'[w] = <<>>
  BY <1>1, <1>3, <1>5 DEF OwnInv
<1>9. Cardinality(Hired') <= sent' /\ Cardinality(Hired') <= sent' + 1
  BY <1>1, <1>4, HiredCounts DEF OwnInv
<1>10. main' \in {"compare", "count"} /\ i' = 1 /\ min' # 0 /\ \A w \in Threads : ~(w < 1)
  BY <1>1 DEF StartsScan, NoMin, Threads
<1> QED
  BY <1>7, <1>8, <1>9, <1>10 DEF OwnInv

LEMMA OwnNext == ASSUME IInv, OwnInv, [Next]_vars PROVE OwnInv'
<1>1. CASE Count \/ Counted
  <2>1. /\ UNCHANGED <<list, pc, sent, ntasks>> /\ main = "count"
        /\ main' \in {"count", "terminate"}
    BY <1>1 DEF Count, Counted, threadVars
  <2> QED
    BY <2>1, OwnStays DEF Scanning
<1>2. CASE Terminate \/ StartsJoin \/ JoinTerminates \/ Join \/ Joined
  <2>1. /\ UNCHANGED <<list, sent, ntasks>> /\ main # "push" /\ main' \notin Scanning
    BY <1>2 DEF Terminate, StartsJoin, JoinTerminates, Join, Joined, threadVars, Scanning
  <2>2. pc' = pc \/ \E w \in Threads : pc[w] = "waiting" /\ pc' = [pc EXCEPT ![w] = "top"]
    BY <1>2, PoolAssumption
    DEF Terminate, StartsJoin, JoinTerminates, Join, Joined, Terminated, Notified, threadVars,
        IInv, TypeOK, Threads
  <2>3. \A w \in Threads : pc'[w] = "none" <=> pc[w] = "none"
    BY <2>2 DEF IInv, TypeOK
  <2> QED
    BY <2>1, <2>3, OwnStays
<1>3. ASSUME NEW w \in Threads, Loops(w) \/ Run(w) PROVE OwnInv'
  <2>1. /\ UNCHANGED <<sent, ntasks, main, i, min, idx>>
        /\ \E p \in {"top", "run", "pop", "check", "about", "waiting", "exit"} :
             pc' = [pc EXCEPT ![w] = p]
        /\ pc[w] # "none"
    BY <1>3 DEF Loops, Take, TakeNone, Run, Pop, Check, Wait, Timeout, Goes, scanVars
  <2>2. \A v \in Threads : pc'[v] = "none" <=> pc[v] = "none"
    BY <2>1 DEF IInv, TypeOK
  <2>3. \A v \in Threads : \/ list'[v] = list[v]
                           \/ list'[v] \in Seq(Tasks) /\ Len(list'[v]) < Len(list[v])
    <3>1. CASE Pop(w)
      <4>1. /\ list[w] # <<>> /\ list[w] \in Seq(Tasks)
            /\ list' = [list EXCEPT ![w] = Tail(list[w])]
        BY <3>1 DEF Pop, Goes, IInv, HeadIsCurrent, TypeOK
      <4>2. Tail(list[w]) \in Seq(Tasks) /\ Len(Tail(list[w])) < Len(list[w])
        BY <4>1, HeadTailProperties, EmptySeq, LenProperties
      <4> QED
        BY <4>1, <4>2 DEF IInv, TypeOK
    <3>2. CASE UNCHANGED list
      BY <3>2
    <3> QED
      BY <1>3, <3>1, <3>2 DEF Loops, Take, TakeNone, Run, Check, Wait, Timeout
  <2> QED
    BY <2>1, <2>2, <2>3, OwnStays
<1>4. CASE UNCHANGED vars
  BY <1>4, OwnStays DEF vars, threadVars, scanVars
<1> QED
  BY <1>1, <1>2, <1>3, <1>4, OwnScan, OwnHire, OwnPush DEF Next, Main

\* With at most as many tasks as threads each has its own, however many there are: the
\* server's loops never wait behind one another.
THEOREM LoopsHaveThreads == Spec => []OwnThread
<1>1. OwnInv => OwnThread
  BY DEF OwnInv
<1> QED
  BY <1>1, OwnInit, OwnNext, InitInv, NextInv, PTL DEF Spec

-----------------------------------------------------------------------------
(* The refinement: a task is in one list at most, lists are in the order of *)
(* handing out, and a task that has run is only still there to be popped.   *)

OrderInv ==
  /\ \A w \in Threads : \A j, k \in 1 .. Len(list[w]) : j < k => list[w][j] < list[w][k]
  /\ \A v, w \in Threads : v # w =>
       \A j \in 1 .. Len(list[v]) : \A k \in 1 .. Len(list[w]) : list[v][j] # list[w][k]
  /\ \A w \in Threads : \A k \in 1 .. Len(list[w]) :
       list[w][k] \in ran => k = 1 /\ pc[w] = "pop"

LEMMA ListTypes ==
  ASSUME IInv, NEW w \in Threads
  PROVE  /\ list[w] \in Seq(Tasks) /\ Len(list[w]) \in Nat
         /\ \A k \in 1 .. Len(list[w]) : list[w][k] \in Tasks /\ list[w][k] \in Nat
                                          /\ list[w][k] <= sent
<1>1. list[w] \in Seq(Tasks)
  BY DEF IInv, TypeOK
<1>2. \A k \in 1 .. Len(list[w]) : list[w][k] \in Tasks
  BY <1>1, ElementOfSeq
<1> QED
  BY <1>1, <1>2, LenProperties DEF IInv, TasksInv, Tasks

LEMMA OrderInit == ASSUME Init PROVE OrderInv
BY DEF Init, OrderInv

LEMMA OrderPush == ASSUME IInv, OrderInv, Push PROVE OrderInv'
<1> DEFINE l == Append(list[idx], sent + 1)
           n == Len(list[idx]) + 1
<1>1. idx \in Threads /\ sent \in Nat /\ sent + 1 \in Tasks /\ ran' = ran
  <2>1. idx \in Threads /\ sent < ntasks
    BY DEF Push, IInv, MainInv, Scanning
  <2> QED
    BY <2>1, PoolAssumption DEF IInv, TypeOK, Tasks, Push
<1>2. /\ Len(l) = n /\ Len(list[idx]) \in Nat /\ l[n] = sent + 1
      /\ \A k \in 1 .. Len(list[idx]) : l[k] = list[idx][k]
      /\ 1 .. n = (1 .. Len(list[idx])) \union {n}
  BY <1>1, ListTypes, AppendProperties
<1>3. list'[idx] = l /\ \A w \in Threads : w # idx => list'[w] = list[w]
  BY <1>1 DEF Push, IInv, TypeOK
<1> HIDE DEF l, n
<1>4. \A w \in Threads : pc[w] = "pop" => pc'[w] = "pop"
  BY DEF Push, Notified, IInv, TypeOK
<1>5. sent + 1 \notin ran
  BY <1>1 DEF IInv, TasksInv
<1>6. \A w \in Threads : \A k \in 1 .. Len(list[w]) : list[w][k] < sent + 1 /\ list[w][k] \in Nat
  BY <1>1, ListTypes
<1>7. \A j, k \in 1 .. n : j < k => l[j] < l[k]
  <2>1. \A j \in 1 .. Len(list[idx]) : j < n /\ j # n
    BY <1>2 DEF n
  <2>2. \A k \in 1 .. Len(list[idx]) : ~(n < k)
    BY <1>2 DEF n
  <2>3. ~(n < n)
    BY <1>2 DEF n
  <2> QED
    BY <1>1, <1>2, <1>6, <2>1, <2>2, <2>3 DEF OrderInv
<1>8. \A w \in Threads : w # idx =>
        \A j \in 1 .. n : \A k \in 1 .. Len(list[w]) : l[j] # list[w][k]
  BY <1>1, <1>2, <1>6 DEF OrderInv
<1>9. \A k \in 1 .. n : l[k] \in ran => k = 1 /\ pc'[idx] = "pop"
  BY <1>1, <1>2, <1>4, <1>5 DEF OrderInv
<1>10. \A w \in Threads : \A j, k \in 1 .. Len(list'[w]) : j < k => list'[w][j] < list'[w][k]
  BY <1>2, <1>3, <1>7 DEF OrderInv
<1>11. \A v, w \in Threads : v # w =>
         \A j \in 1 .. Len(list'[v]) : \A k \in 1 .. Len(list'[w]) : list'[v][j] # list'[w][k]
  BY <1>2, <1>3, <1>8 DEF OrderInv
<1>12. \A w \in Threads : \A k \in 1 .. Len(list'[w]) :
         list'[w][k] \in ran' => k = 1 /\ pc'[w] = "pop"
  BY <1>1, <1>2, <1>3, <1>4, <1>9 DEF OrderInv
<1> QED
  BY <1>10, <1>11, <1>12 DEF OrderInv

LEMMA OrderRun == ASSUME IInv, OrderInv, NEW w \in Threads, Run(w) PROVE OrderInv'
<1>1. /\ pc[w] = "run" /\ pc' = [pc EXCEPT ![w] = "pop"] /\ list' = list
      /\ ran' = ran \union {curr[w]}
  BY DEF Run, Goes
<1>2. pc'[w] = "pop" /\ \A v \in Threads : v # w => pc'[v] = pc[v]
  BY <1>1 DEF IInv, TypeOK
<1>3. Len(list[w]) >= 1 /\ list[w][1] = curr[w] /\ Len(list[w]) \in Nat
  <2>1. list[w] # <<>> /\ Head(list[w]) = curr[w]
    BY <1>1 DEF IInv, HeadIsCurrent
  <2> QED
    BY <2>1, ListTypes, EmptySeq, HeadTailProperties
<1>4. ASSUME NEW v \in Threads, NEW k \in 1 .. Len(list[v]), list[v][k] \in ran'
      PROVE  k = 1 /\ pc'[v] = "pop"
  <2>1. CASE list[v][k] \in ran
    BY <1>1, <1>2, <2>1 DEF OrderInv
  <2>2. CASE list[v][k] = list[w][1]
    <3>1. v = w
      BY <1>3, <2>2 DEF OrderInv
    <3>2. ~(list[w][1] < list[w][k])
      BY <2>2, <3>1, ListTypes
    <3>3. ~(1 < k)
      BY <1>3, <3>1, <3>2 DEF OrderInv
    <3> QED
      BY <1>2, <3>1, <3>3
  <2> QED
    BY <1>1, <1>3, <1>4, <2>1, <2>2
<1> QED
  BY <1>1, <1>4 DEF OrderInv

LEMMA OrderPop == ASSUME IInv, OrderInv, NEW w \in Threads, Pop(w) PROVE OrderInv'
<1>1. /\ pc[w] = "pop" /\ pc' = [pc EXCEPT ![w] = "check"] /\ ran' = ran
      /\ list' = [list EXCEPT ![w] = Tail(@)]
  BY DEF Pop, Goes
<1>2. list[w] # <<>>
  BY <1>1 DEF IInv, HeadIsCurrent
<1>3. /\ list'[w] = Tail(list[w]) /\ Len(list[w]) \in Nat /\ Len(list'[w]) = Len(list[w]) - 1
      /\ \A k \in 1 .. Len(list'[w]) : k + 1 \in 1 .. Len(list[w]) /\ k + 1 # 1
                                        /\ list'[w][k] = list[w][k + 1]
      /\ \A v \in Threads : v # w => list'[v] = list[v] /\ pc'[v] = pc[v]
  <2>1. list'[w] = Tail(list[w]) /\ \A v \in Threads : v # w => list'[v] = list[v] /\ pc'[v] = pc[v]
    BY <1>1 DEF IInv, TypeOK
  <2>2. /\ Len(list[w]) \in Nat /\ Len(Tail(list[w])) = Len(list[w]) - 1
        /\ \A k \in 1 .. Len(Tail(list[w])) : Tail(list[w])[k] = list[w][k + 1]
    BY <1>2, ListTypes, HeadTailProperties
  <2> QED
    BY <2>1, <2>2
<1>4. \A j, k \in 1 .. Len(list'[w]) : j < k => list'[w][j] < list'[w][k]
  BY <1>3 DEF OrderInv
<1>5. \A v \in Threads : v # w =>
        \A j \in 1 .. Len(list'[w]) : \A k \in 1 .. Len(list[v]) : list'[w][j] # list[v][k]
  BY <1>3 DEF OrderInv
<1>6. \A k \in 1 .. Len(list'[w]) : list'[w][k] \notin ran
  BY <1>3 DEF OrderInv
<1>7. \A v \in Threads : \A j, k \in 1 .. Len(list'[v]) : j < k => list'[v][j] < list'[v][k]
  BY <1>3, <1>4 DEF OrderInv
<1>8. \A u, v \in Threads : u # v =>
        \A j \in 1 .. Len(list'[u]) : \A k \in 1 .. Len(list'[v]) : list'[u][j] # list'[v][k]
  <2> SUFFICES ASSUME NEW u \in Threads, NEW v \in Threads, u # v,
                      NEW j \in 1 .. Len(list'[u]), NEW k \in 1 .. Len(list'[v])
               PROVE  list'[u][j] # list'[v][k]
    OBVIOUS
  <2>1. CASE u = w
    <3>1. list'[w][j] # list[v][k]
      BY <1>3, <1>5, <2>1
    <3> QED
      BY <1>3, <2>1, <3>1
  <2>2. CASE v = w
    <3>1. list'[w][k] # list[u][j]
      BY <1>3, <1>5, <2>2
    <3> QED
      BY <1>3, <2>2, <3>1
  <2>3. CASE u # w /\ v # w
    BY <1>3, <2>3 DEF OrderInv
  <2> QED
    BY <2>1, <2>2, <2>3
<1>9. \A v \in Threads : \A k \in 1 .. Len(list'[v]) :
        list'[v][k] \in ran' => k = 1 /\ pc'[v] = "pop"
  BY <1>1, <1>3, <1>6 DEF OrderInv
<1> QED
  BY <1>7, <1>8, <1>9 DEF OrderInv

\* A step that leaves the lists and what has run, and no thread enters or leaves
\* a pop.
LEMMA OrderStays ==
  ASSUME OrderInv, UNCHANGED <<list, ran>>, \A w \in Threads : pc[w] = "pop" => pc'[w] = "pop"
  PROVE  OrderInv'
BY DEF OrderInv

\* append starts a thread that was not started: no other step starts one.
Unhired == main = "hire" => pc[idx] = "none"

LEMMA UnhiredNext == ASSUME IInv, Unhired, [Next]_vars PROVE Unhired'
<1>1. pc \in [Threads -> {"none", "top", "run", "pop", "check", "about", "waiting", "exit"}]
  BY DEF IInv, TypeOK
<1>2. CASE UNCHANGED vars
  BY <1>2 DEF vars, threadVars, scanVars, Unhired
<1>3. CASE Chosen
  BY <1>3 DEF Chosen, threadVars, scanVars, Unhired
<1>4. CASE Main /\ ~Chosen
  BY <1>4 DEF Main, Compare, Reread, Hire, Push, StartsScan, Count, Counted, Terminate, StartsJoin,
              JoinTerminates, Join, Joined, Unhired
<1>5. ASSUME NEW w \in Threads, Loops(w) \/ Run(w) PROVE Unhired'
  <2>1. pc[w] # "none" /\ UNCHANGED <<main, idx>> /\ \E to : pc' = [pc EXCEPT ![w] = to]
    BY <1>5 DEF Loops, Take, TakeNone, Run, Pop, Check, Wait, Timeout, Goes, scanVars
  <2>2. main = "hire" => idx \in Threads
    BY DEF IInv, MainInv
  <2> QED
    BY <1>1, <2>1, <2>2 DEF Unhired
<1> QED
  BY <1>2, <1>3, <1>4, <1>5 DEF Next

\* Every step is a Push, a Take, a Run, a Pop, or leaves the tasks alone.
Still == /\ UNCHANGED <<list, curr, ran, sent>>
         /\ \A w \in Threads : /\ pc'[w] = "run" <=> pc[w] = "run"
                               /\ pc'[w] = "pop" <=> pc[w] = "pop"

LEMMA Kinds ==
  ASSUME IInv, Unhired, [Next]_vars
  PROVE  Push \/ (\E w \in Threads : Take(w) \/ Run(w) \/ Pop(w)) \/ Still
<1>1. pc \in [Threads -> {"none", "top", "run", "pop", "check", "about", "waiting", "exit"}]
  BY DEF IInv, TypeOK
<1>2. CASE UNCHANGED vars
  BY <1>2 DEF vars, threadVars, Still
<1>3. CASE Compare \/ Reread \/ Chosen \/ Count \/ Counted \/ StartsJoin \/ Join \/ Joined
  BY <1>3 DEF Compare, Reread, Chosen, Count, Counted, StartsJoin, Join, Joined, threadVars, Still
<1>4. CASE Hire
  <2>1. idx \in Threads /\ pc[idx] \notin {"run", "pop"} /\ pc' = [pc EXCEPT ![idx] = "top"]
        /\ UNCHANGED <<list, curr, ran, sent>>
    BY <1>4 DEF Hire, IInv, MainInv, Unhired
  <2> QED
    BY <1>1, <2>1 DEF Still
<1>5. CASE Terminate \/ JoinTerminates
  <2>1. UNCHANGED <<list, curr, ran, sent>> /\ \E w \in Threads : pc' = Notified(w)
    BY <1>5, PoolAssumption DEF Terminate, JoinTerminates, Terminated, scanVars, IInv, TypeOK, Threads
  <2> QED
    BY <1>1, <2>1 DEF Still, Notified
<1>6. ASSUME NEW w \in Threads, TakeNone(w) \/ Check(w) \/ Wait(w) \/ Timeout(w)
      PROVE  Still
  <2>1. UNCHANGED <<list, curr, ran, sent>>
    BY <1>6 DEF TakeNone, Check, Wait, Timeout, Goes
  <2>2. pc[w] \notin {"run", "pop"}
        /\ \E to \in {"top", "exit", "check", "about", "waiting"} : pc' = [pc EXCEPT ![w] = to]
    BY <1>6 DEF TakeNone, Check, Wait, Timeout, Goes
  <2> QED
    BY <1>1, <2>1, <2>2 DEF Still
<1> QED
  BY <1>2, <1>3, <1>4, <1>5, <1>6 DEF Next, Main, Loops

LEMMA OrderNext == ASSUME IInv, OrderInv, Unhired, [Next]_vars PROVE OrderInv'
<1>1. ASSUME NEW w \in Threads, Take(w) PROVE OrderInv'
  <2>1. UNCHANGED <<list, ran>> /\ pc[w] = "top" /\ pc' = [pc EXCEPT ![w] = "run"]
    BY <1>1 DEF Take, Goes
  <2>2. \A v \in Threads : pc[v] = "pop" => pc'[v] = "pop"
    BY <2>1 DEF IInv, TypeOK
  <2> QED
    BY <2>1, <2>2, OrderStays
<1>2. CASE Still
  BY <1>2, OrderStays DEF Still
<1> QED
  BY <1>1, <1>2, Kinds, OrderPush, OrderRun, OrderPop

\* What the mapping says of a task, from the lists.
LEMMA ThreadIs ==
  ASSUME OrderInv, NEW t \in Tasks, t \notin ran, NEW w \in Threads, InList(t, w)
  PROVE  ThreadOf(t) = w
<1>1. ListOf(t) = {w}
  BY DEF OrderInv, InList, ListOf
<1> QED
  BY <1>1 DEF ThreadOf

LEMMA RunningHead ==
  ASSUME IInv, OrderInv, NEW t \in Tasks, NEW w \in Threads, pc[w] = "run", curr[w] = t
  PROVE  /\ Len(list[w]) >= 1 /\ list[w][1] = t /\ InList(t, w)
         /\ t \notin ran /\ t <= sent
<1>1. Len(list[w]) >= 1 /\ list[w][1] = t /\ Len(list[w]) \in Nat
  <2>1. list[w] # <<>> /\ Head(list[w]) = t
    BY DEF IInv, HeadIsCurrent
  <2> QED
    BY <2>1, ListTypes, EmptySeq, HeadTailProperties
<1>2. InList(t, w) /\ t \notin ran /\ t <= sent
  BY <1>1, ListTypes DEF InList, OrderInv
<1> QED
  BY <1>1, <1>2

\* A thread takes the head of its list.
LEMMA TakeHead ==
  ASSUME IInv, NEW w \in Threads, list[w] # <<>>
  PROVE  /\ Head(list[w]) \in Tasks /\ InList(Head(list[w]), w)
         /\ list[w][1] = Head(list[w]) /\ Len(list[w]) >= 1 /\ Len(list[w]) \in Nat
<1>1. Head(list[w]) = list[w][1] /\ Len(list[w]) >= 1 /\ Len(list[w]) \in Nat
  BY ListTypes, EmptySeq, HeadTailProperties
<1> QED
  BY <1>1, ListTypes DEF InList

\* The lists decide where a task is.
LEMMA ThreadStays ==
  ASSUME NEW t \in Tasks, t \in ran' <=> t \in ran,
         t \notin ran => \A w \in Threads : InList(t, w)' <=> InList(t, w)
  PROVE  ThreadOf(t)' = ThreadOf(t)
<1>1. t \notin ran => ListOf(t)' = ListOf(t)
  BY DEF ListOf, InList
<1>2. CASE t \in ran
  BY <1>2 DEF ThreadOf
<1>3. CASE t \notin ran
  <2> DEFINE C(S) == CHOOSE w \in S : TRUE
  <2>1. /\ ThreadOf(t) = IF ListOf(t) = {} THEN 0 ELSE C(ListOf(t))
        /\ ThreadOf(t)' = IF ListOf(t)' = {} THEN 0 ELSE C(ListOf(t)')
    BY <1>3 DEF ThreadOf
  <2> HIDE DEF C
  <2> QED
    BY <1>1, <1>3, <2>1
<1> QED
  BY <1>2, <1>3

LEMMA StateStays ==
  ASSUME NEW t \in Tasks, t \in ran' <=> t \in ran, Running(t)' <=> Running(t),
         t > sent' <=> t > sent
  PROVE  StateOf(t)' = StateOf(t)
BY DEF StateOf

LEMMA StateMoves ==
  ASSUME NEW t \in Tasks, NEW v, StateOf(t)' = v,
         \A u \in Tasks : u # t => StateOf(u)' = StateOf(u)
  PROVE  taskState' = [taskState EXCEPT ![t] = v]
BY DEF taskState

LEMMA ThreadMoves ==
  ASSUME NEW t \in Tasks, NEW v, ThreadOf(t)' = v,
         \A u \in Tasks : u # t => ThreadOf(u)' = ThreadOf(u)
  PROVE  taskThread' = [taskThread EXCEPT ![t] = v]
BY DEF taskThread

LEMMA AllStay ==
  /\ (\A u \in Tasks : StateOf(u)' = StateOf(u)) => taskState' = taskState
  /\ (\A u \in Tasks : ThreadOf(u)' = ThreadOf(u)) => taskThread' = taskThread
BY DEF taskState, taskThread

\* append hands a new task out.
LEMMA PushGives == ASSUME IInv, OrderInv, Push PROVE Pool!Next
<1>1. /\ idx \in Threads /\ sent \in Nat /\ sent + 1 \in Tasks
      /\ UNCHANGED <<ran, curr>> /\ sent' = sent + 1
      /\ list' = [list EXCEPT ![idx] = Append(@, sent + 1)]
  <2>1. idx \in Threads /\ sent < ntasks
    BY DEF Push, IInv, MainInv, Scanning
  <2> QED
    BY <2>1, PoolAssumption DEF IInv, TypeOK, Tasks, Push
<1>2. PICK t \in Tasks : t = sent + 1
  BY <1>1
<1>3. PICK w \in Threads : w = idx
  BY <1>1
<1>4. /\ list'[w] = Append(list[w], t) /\ \A v \in Threads : v # w => list'[v] = list[v]
  BY <1>1, <1>2, <1>3 DEF IInv, TypeOK
<1>5. /\ Len(list[w]) \in Nat /\ Len(list'[w]) = Len(list[w]) + 1
      /\ list'[w][Len(list[w]) + 1] = t
      /\ \A k \in 1 .. Len(list[w]) : list'[w][k] = list[w][k]
  BY <1>4, ListTypes, AppendProperties
<1>6. \A u \in Tasks : Running(u)' <=> Running(u)
  <2>1. \A v \in Threads : pc'[v] = "run" <=> pc[v] = "run"
    BY DEF Push, Notified, IInv, TypeOK
  <2> QED
    BY <1>1, <2>1 DEF Running
<1>7. ~Running(t) /\ t \notin ran /\ \A v \in Threads : ~InList(t, v)
  <2>1. ~(t <= sent)
    BY <1>1, <1>2
  <2> QED
    BY <1>2, <2>1, RunningHead DEF Running, IInv, TasksInv, InList
<1>8. \A u \in Tasks : u # t => \A v \in Threads : InList(u, v)' <=> InList(u, v)
  <2> SUFFICES ASSUME NEW u \in Tasks, u # t PROVE InList(u, w)' <=> InList(u, w)
    BY <1>4 DEF InList
  <2> QED
    BY <1>5 DEF InList
<1>9. InList(t, w)' /\ \A v \in Threads : v # w => ~InList(t, v)'
  <2>1. Len(list[w]) + 1 \in 1 .. Len(list'[w])
    BY <1>5
  <2> QED
    BY <1>4, <1>5, <1>7, <2>1 DEF InList
<1>10. StateOf(t)' = "queued"
  <2>1. ~(t > sent')
    BY <1>1, <1>2
  <2> QED
    BY <1>1, <1>6, <1>7, <2>1 DEF StateOf
<1>11. ThreadOf(t)' = w
  <2>1. ListOf(t)' = {w}
    BY <1>9 DEF ListOf, InList
  <2> QED
    BY <1>1, <1>7, <2>1 DEF ThreadOf
<1>12. \A u \in Tasks : u # t => StateOf(u)' = StateOf(u) /\ ThreadOf(u)' = ThreadOf(u)
  <2> SUFFICES ASSUME NEW u \in Tasks, u # t
               PROVE  StateOf(u)' = StateOf(u) /\ ThreadOf(u)' = ThreadOf(u)
    OBVIOUS
  <2>1. u > sent' <=> u > sent
    BY <1>1, <1>2 DEF Tasks
  <2> QED
    BY <1>1, <1>6, <1>8, <2>1, StateStays, ThreadStays
<1>13. taskState[t] = "new"
  <2>1. t > sent
    BY <1>1, <1>2
  <2> QED
    BY <1>7, <2>1 DEF taskState, StateOf
<1>14. \A u \in Tasks : u < t => taskState[u] # "new"
  <2>1. \A u \in Tasks : u < t => ~(u > sent)
    BY <1>1, <1>2 DEF Tasks
  <2> QED
    BY <2>1 DEF taskState, StateOf
<1>15. /\ taskState' = [taskState EXCEPT ![t] = "queued"]
       /\ taskThread' = [taskThread EXCEPT ![t] = w]
  BY <1>10, <1>11, <1>12, StateMoves, ThreadMoves
<1> QED
  BY <1>13, <1>14, <1>15 DEF Pool!Next, Pool!Give

\* A thread starts the oldest of its tasks.
LEMMA TakeStarts ==
  ASSUME IInv, OrderInv, NEW w \in Threads, Take(w)
  PROVE  Pool!Next
<1>1. /\ list[w] # <<>> /\ pc[w] = "top" /\ pc' = [pc EXCEPT ![w] = "run"]
      /\ curr' = [curr EXCEPT ![w] = Head(list[w])]
      /\ UNCHANGED <<list, ran, sent>>
  BY DEF Take, Goes
<1>2. PICK t \in Tasks : t = Head(list[w])
  BY <1>1, TakeHead
<1>3. InList(t, w) /\ list[w][1] = t /\ Len(list[w]) >= 1 /\ Len(list[w]) \in Nat
  BY <1>1, <1>2, TakeHead
<1>4. /\ pc'[w] = "run" /\ curr'[w] = t
      /\ \A v \in Threads : v # w => pc'[v] = pc[v] /\ curr'[v] = curr[v]
  BY <1>1, <1>2 DEF IInv, TypeOK
<1>5. t \notin ran /\ ~(t > sent)
  <2>1. t \notin ran
    BY <1>1, <1>3 DEF OrderInv
  <2>2. t <= sent
    BY <1>3, ListTypes
  <2> QED
    BY <2>1, <2>2 DEF Tasks, IInv, TypeOK
<1>6. ~Running(t)
  <2> SUFFICES ASSUME NEW v \in Threads, pc[v] = "run", curr[v] = t PROVE FALSE
    BY DEF Running
  <2>1. InList(t, v)
    BY RunningHead
  <2>2. v = w
    BY <1>3, <2>1 DEF OrderInv, InList
  <2> QED
    BY <1>1, <2>2
<1>7. Running(t)' /\ \A u \in Tasks : u # t => (Running(u)' <=> Running(u))
  BY <1>1, <1>4 DEF Running
<1>8. StateOf(t)' = "running"
  BY <1>7 DEF StateOf
<1>9. \A u \in Tasks : u # t => StateOf(u)' = StateOf(u)
  BY <1>1, <1>7, StateStays
<1>10. \A u \in Tasks : ThreadOf(u)' = ThreadOf(u)
  BY <1>1, ThreadStays DEF InList
<1>11. taskState[t] = "queued"
  BY <1>5, <1>6 DEF taskState, StateOf
<1>12. ThreadOf(t) = w
  BY <1>3, <1>5, ThreadIs
<1>13. \A u \in Tasks : u < t => ThreadOf(u) # w
  <2> SUFFICES ASSUME NEW u \in Tasks, u < t, ThreadOf(u) = w PROVE FALSE
    OBVIOUS
  <2>1. w # 0
    BY DEF Threads
  <2>2. w \in ListOf(u)
    BY <2>1 DEF ThreadOf
  <2>3. PICK k \in 1 .. Len(list[w]) : list[w][k] = u
    BY <2>2 DEF ListOf
  <2>4. k = 1 \/ 1 < k
    BY <1>3
  <2>5. ~(t < u) /\ u # t
    BY DEF Tasks
  <2> QED
    BY <1>3, <2>3, <2>4, <2>5 DEF OrderInv
<1>14. \A u \in Tasks : u < t => taskThread[u] # taskThread[t]
  BY <1>12, <1>13 DEF taskThread
<1>15. taskState' = [taskState EXCEPT ![t] = "running"] /\ taskThread' = taskThread
  BY <1>8, <1>9, <1>10, StateMoves, AllStay
<1> QED
  BY <1>11, <1>14, <1>15 DEF Pool!Next, Pool!Start

\* A task's function returns.
LEMMA RunFinishes ==
  ASSUME IInv, OrderInv, NEW w \in Threads, Run(w)
  PROVE  Pool!Next
<1>1. /\ pc[w] = "run" /\ pc' = [pc EXCEPT ![w] = "pop"] /\ ran' = ran \union {curr[w]}
      /\ UNCHANGED <<list, curr, sent>>
  BY DEF Run, Goes
<1>2. PICK t \in Tasks : t = curr[w]
  <2>1. list[w] # <<>> /\ Head(list[w]) = curr[w]
    BY <1>1 DEF IInv, HeadIsCurrent
  <2> QED
    BY <2>1, TakeHead
<1>3. InList(t, w) /\ t <= sent
  BY <1>1, <1>2, RunningHead
<1>4. pc'[w] = "pop" /\ \A v \in Threads : v # w => pc'[v] = pc[v]
  BY <1>1 DEF IInv, TypeOK
<1>5. \A v \in Threads : v # w => ~(pc[v] = "run" /\ curr[v] = t)
  <2> SUFFICES ASSUME NEW v \in Threads, v # w, pc[v] = "run", curr[v] = t PROVE FALSE
    OBVIOUS
  <2>1. InList(t, v)
    BY RunningHead
  <2> QED
    BY <1>3, <2>1 DEF OrderInv, InList
<1>6. Running(t) /\ ~Running(t)' /\ \A u \in Tasks : u # t => (Running(u)' <=> Running(u))
  BY <1>1, <1>2, <1>4, <1>5 DEF Running
<1>7. StateOf(t)' = "done"
  <2>1. ~(t > sent) /\ t \in ran'
    BY <1>1, <1>2, <1>3 DEF Tasks, IInv, TypeOK
  <2> QED
    BY <1>1, <1>6, <2>1 DEF StateOf
<1>8. ThreadOf(t)' = 0
  BY <1>1, <1>2 DEF ThreadOf
<1>9. \A u \in Tasks : u # t => StateOf(u)' = StateOf(u) /\ ThreadOf(u)' = ThreadOf(u)
  <2> SUFFICES ASSUME NEW u \in Tasks, u # t
               PROVE  StateOf(u)' = StateOf(u) /\ ThreadOf(u)' = ThreadOf(u)
    OBVIOUS
  <2>1. u \in ran' <=> u \in ran
    BY <1>1, <1>2
  <2> QED
    BY <1>1, <1>6, <2>1, StateStays, ThreadStays DEF InList
<1>10. taskState[t] = "running"
  BY <1>6 DEF taskState, StateOf
<1>11. /\ taskState' = [taskState EXCEPT ![t] = "done"]
       /\ taskThread' = [taskThread EXCEPT ![t] = 0]
  BY <1>7, <1>8, <1>9, StateMoves, ThreadMoves
<1> QED
  BY <1>10, <1>11 DEF Pool!Next, Pool!Finish

\* What pop_front removes has run.
LEMMA PopIsQuiet ==
  ASSUME IInv, OrderInv, NEW w \in Threads, Pop(w)
  PROVE  UNCHANGED <<taskState, taskThread>>
<1>1. /\ pc[w] = "pop" /\ pc' = [pc EXCEPT ![w] = "check"] /\ UNCHANGED <<ran, curr, sent>>
      /\ list' = [list EXCEPT ![w] = Tail(@)]
  BY DEF Pop, Goes
<1>2. list[w] # <<>> /\ Head(list[w]) = curr[w] /\ curr[w] \in ran
  BY <1>1 DEF IInv, HeadIsCurrent, PopInv
<1>3. list'[w] = Tail(list[w]) /\ \A v \in Threads : v # w => list'[v] = list[v]
  BY <1>1 DEF IInv, TypeOK
<1>4. /\ Len(list[w]) \in Nat /\ Len(list'[w]) = Len(list[w]) - 1 /\ list[w][1] \in ran
      /\ \A k \in 1 .. Len(list'[w]) : list'[w][k] = list[w][k + 1]
  BY <1>2, <1>3, TakeHead, ListTypes, HeadTailProperties
<1>5. \A u \in Tasks : u \notin ran => (InList(u, w)' <=> InList(u, w))
  <2> SUFFICES ASSUME NEW u \in Tasks, u \notin ran PROVE InList(u, w)' <=> InList(u, w)
    OBVIOUS
  <2>1. ASSUME NEW k \in 1 .. Len(list[w]), list[w][k] = u
        PROVE  k - 1 \in 1 .. Len(list'[w]) /\ (k - 1) + 1 = k
    BY <1>4, <2>1
  <2>2. \A k \in 1 .. Len(list'[w]) : k + 1 \in 1 .. Len(list[w])
    BY <1>4
  <2>3. InList(u, w) => InList(u, w)'
    BY <1>4, <2>1 DEF InList
  <2>4. InList(u, w)' => InList(u, w)
    BY <1>4, <2>2 DEF InList
  <2> QED
    BY <2>3, <2>4
<1>6. \A v \in Threads : pc'[v] = "run" <=> pc[v] = "run"
  BY <1>1 DEF IInv, TypeOK
<1>7. \A u \in Tasks : Running(u)' <=> Running(u)
  BY <1>1, <1>6 DEF Running
<1>8. \A u \in Tasks : u \notin ran => \A v \in Threads : InList(u, v)' <=> InList(u, v)
  BY <1>3, <1>5 DEF InList
<1>9. \A u \in Tasks : StateOf(u)' = StateOf(u) /\ ThreadOf(u)' = ThreadOf(u)
  BY <1>1, <1>7, <1>8, StateStays, ThreadStays
<1> QED
  BY <1>9, AllStay

LEMMA StillIsQuiet == ASSUME Still PROVE UNCHANGED <<taskState, taskThread>>
<1>1. \A u \in Tasks : (Running(u)' <=> Running(u)) /\ \A v \in Threads : InList(u, v)' <=> InList(u, v)
  BY DEF Still, Running, InList
<1>2. \A u \in Tasks : StateOf(u)' = StateOf(u) /\ ThreadOf(u)' = ThreadOf(u)
  BY <1>1, StateStays, ThreadStays DEF Still
<1> QED
  BY <1>2, AllStay

LEMMA InitPool == ASSUME Init PROVE Pool!Init
<1>1. \A t \in Tasks : ~Running(t) /\ ListOf(t) = {}
  BY DEF Init, Running, ListOf
<1>2. \A t \in Tasks : t > sent
  BY DEF Init, Tasks
<1> QED
  BY <1>1, <1>2 DEF Pool!Init, taskState, taskThread, StateOf, ThreadOf

\* The lists of the threads implement a pool: every task is run once, by the thread it was
\* handed to, after those handed to it before, for any number of threads and tasks.
THEOREM ImplementsTaskPool == Spec => RunsEachOnce
<1>1. Init => OrderInv /\ Unhired
  BY OrderInit DEF Init, Unhired
<1>2. IInv /\ OrderInv /\ Unhired /\ [Next]_vars => OrderInv' /\ Unhired'
  BY OrderNext, UnhiredNext
<1>3. IInv /\ OrderInv /\ Unhired /\ [Next]_vars => [Pool!Next]_(Pool!vars)
  BY Kinds, PushGives, TakeStarts, RunFinishes, PopIsQuiet, StillIsQuiet DEF Pool!vars
<1> QED
  BY <1>1, <1>2, <1>3, InitPool, Invariance, PTL DEF Spec, RunsEachOnce, Pool!Spec
=============================================================================
