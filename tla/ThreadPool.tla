------------------------------ MODULE ThreadPool ------------------------------
(***************************************************************************)
(* ThreadPool (include/threadpool.h) over Cpp11Thread                      *)
(* (include/cpp11thread.h), and the one thread that uses a pool: main      *)
(* appends tasks, waits until no thread has any, terminates and joins.     *)
(*                                                                         *)
(* A thread's list is guarded by m_list_tasks_mutex, whose every section   *)
(* is one step here.  The thread waits under m_cond_mutex, which append    *)
(* does not take: a notification between the check of the list and the     *)
(* wait is lost.                                                           *)
(***************************************************************************)
EXTENDS Naturals, Sequences

CONSTANTS
  NThreads, \* m_n_threads
  MaxTasks  \* bound on the tasks main appends

ASSUME PoolAssumption ==
  /\ NThreads \in 1 .. 512   \* the constructor's assert
  /\ MaxTasks \in Nat

Threads == 1 .. NThreads
Tasks   == 1 .. MaxTasks

VARIABLES
  list,     \* m_list_tasks of each thread
  pc,       \* where each thread is in run
  curr,     \* curr_task of each thread; 0 before the first
  finish,   \* m_b_is_finish
  ntasks,   \* how many tasks main appends: none to send_message, for instance
  main,     \* where main is
  sent,     \* how many tasks main has appended, in order 1, 2, ...
  i,        \* main's loop variable
  min, idx, \* nMinLoad and nIdx of append
  sum,      \* n_tasks of wait_for_idle
  ran       \* the tasks whose function has returned (history)

threadVars == <<list, pc, curr>>
scanVars == <<i, min, idx, sum>>
vars == <<threadVars, finish, ntasks, main, sent, scanVars, ran>>

\* nMinLoad starts at the largest unsigned int: above every load.
NoMin == MaxTasks + 1

TypeOK ==
  /\ list \in [Threads -> Seq(Tasks)]
  /\ pc \in [Threads -> {"none", "top", "run", "pop", "check", "about", "waiting", "exit"}]
  /\ curr \in [Threads -> Tasks \union {0}]
  /\ finish \in [Threads -> BOOLEAN]
  /\ main \in {"compare", "reread", "hire", "push", "count", "terminate", "join",
              "rejoin", "joining", "joined"}
  /\ ntasks \in 0 .. MaxTasks
  /\ sent \in 0 .. ntasks
  /\ i \in 1 .. NThreads + 1
  /\ min \in 0 .. NoMin
  /\ idx \in 0 .. NThreads
  /\ sum \in Nat
  /\ ran \in SUBSET Tasks

\* Mutant of Load: the running task is not counted.
Load_queuedOnly(w) == IF pc[w] = "run" THEN Len(list[w]) - 1 ELSE Len(list[w])

Load(w) == Len(list[w])

\* Mutant of StartsScan: main's loop has one round too many.
StartsScan_oneMore ==
  /\ main' = IF sent' <= ntasks THEN "compare" ELSE "count"
  /\ i' = 1 /\ min' = NoMin /\ idx' = 0 /\ sum' = 0

\* append begins its scan, or main goes on to wait_for_idle.
StartsScan ==
  /\ main' = IF sent' < ntasks THEN "compare" ELSE "count"
  /\ i' = 1 /\ min' = NoMin /\ idx' = 0 /\ sum' = 0

Init ==
  /\ list = [w \in Threads |-> <<>>]
  /\ pc = [w \in Threads |-> "none"]
  /\ curr = [w \in Threads |-> 0]
  /\ finish = [w \in Threads |-> FALSE]
  /\ ntasks \in 0 .. MaxTasks
  /\ main = IF ntasks = 0 THEN "count" ELSE "compare"
  /\ sent = 0
  /\ i = 1 /\ min = NoMin /\ idx = 0 /\ sum = 0
  /\ ran = {}

-----------------------------------------------------------------------------
(* ThreadPool::append.  The load that is compared and the load that is     *)
(* kept are read one after the other.                                      *)

Compare ==
  /\ main = "compare" /\ i <= NThreads
  /\ IF Load(i) < min THEN main' = "reread" /\ UNCHANGED i
                      ELSE i' = i + 1 /\ UNCHANGED main
  /\ UNCHANGED <<threadVars, finish, sent, min, idx, sum, ntasks, ran>>

\* Mutant of Reread: nMinLoad is left alone.
Reread_keepsMin ==
  /\ main = "reread"
  /\ idx' = i
  /\ i' = i + 1
  /\ main' = "compare"
  /\ UNCHANGED <<threadVars, finish, sent, min, sum, ntasks, ran>>

Reread ==
  /\ main = "reread"
  /\ min' = Load(i) /\ idx' = i
  /\ i' = i + 1
  /\ main' = "compare"
  /\ UNCHANGED <<threadVars, finish, sent, sum, ntasks, ran>>

Chosen ==
  /\ main = "compare" /\ i > NThreads
  /\ main' = IF pc[idx] = "none" THEN "hire" ELSE "push"
  /\ UNCHANGED <<threadVars, finish, sent, scanVars, ntasks, ran>>

(* Cpp11Thread::append: the thread starts with the first task. *)

Hire ==
  /\ main = "hire"
  /\ pc' = [pc EXCEPT ![idx] = "top"]
  /\ main' = "push"
  /\ UNCHANGED <<list, curr, finish, sent, scanVars, ntasks, ran>>

\* notify_one: of use to a thread that already waits, and to no other.
Notified(w) == IF pc[w] = "waiting" THEN [pc EXCEPT ![w] = "top"] ELSE pc

\* Mutant of Push: the new task goes first.
Push_front ==
  /\ main = "push"
  /\ sent' = sent + 1
  /\ list' = [list EXCEPT ![idx] = <<sent + 1>> \o @]
  /\ pc' = IF Len(list'[idx]) = 1 THEN Notified(idx) ELSE pc
  /\ StartsScan
  /\ UNCHANGED <<curr, finish, ntasks, ran>>

Push ==
  /\ main = "push"
  /\ sent' = sent + 1
  /\ list' = [list EXCEPT ![idx] = Append(@, sent + 1)]
  /\ pc' = IF Len(list'[idx]) = 1 THEN Notified(idx) ELSE pc
  /\ StartsScan
  /\ UNCHANGED <<curr, finish, ntasks, ran>>

-----------------------------------------------------------------------------
(* wait_for_idle, terminate and join *)

Count ==
  /\ main = "count" /\ i <= NThreads
  /\ sum' = sum + Load(i)
  /\ i' = i + 1
  /\ UNCHANGED <<threadVars, finish, main, sent, min, idx, ntasks, ran>>

\* Another round, 200 ms later, or every load was 0.
Counted ==
  /\ main = "count" /\ i > NThreads
  /\ main' = IF sum = 0 THEN "terminate" ELSE "count"
  /\ i' = 1 /\ sum' = 0
  /\ UNCHANGED <<threadVars, finish, sent, min, idx, ntasks, ran>>

\* terminate assigns false.
Terminated(w) == /\ finish' = [finish EXCEPT ![w] = FALSE]
                 /\ pc' = Notified(w)

Terminate ==
  /\ main = "terminate" /\ i <= NThreads
  /\ Terminated(i)
  /\ i' = i + 1
  /\ UNCHANGED <<list, curr, main, sent, min, idx, sum, ntasks, ran>>

StartsJoin ==
  /\ main = "terminate" /\ i > NThreads
  /\ main' = "join" /\ i' = 1
  /\ UNCHANGED <<threadVars, finish, sent, min, idx, sum, ntasks, ran>>

\* Each thread is terminated twice more, by either join, and then joined,
\* unless it never started.
JoinTerminates ==
  /\ main \in {"join", "rejoin"} /\ i <= NThreads
  /\ Terminated(i)
  /\ main' = IF main = "join" THEN "rejoin" ELSE "joining"
  /\ UNCHANGED <<list, curr, sent, scanVars, ntasks, ran>>

Join ==
  /\ main = "joining"
  /\ pc[i] \in {"none", "exit"}
  /\ main' = "join" /\ i' = i + 1
  /\ UNCHANGED <<threadVars, finish, sent, min, idx, sum, ntasks, ran>>

Joined ==
  /\ main = "join" /\ i > NThreads
  /\ main' = "joined"
  /\ UNCHANGED <<threadVars, finish, sent, scanVars, ntasks, ran>>

-----------------------------------------------------------------------------
(* Cpp11Thread::run *)

Goes(w, from, to) == /\ pc[w] = from
                     /\ pc' = [pc EXCEPT ![w] = to]
                     /\ UNCHANGED <<finish, ntasks, main, sent, scanVars>>

\* The head is copied and stays in the list while it runs.
Take(w) ==
  /\ ~finish[w] /\ list[w] # <<>>
  /\ Goes(w, "top", "run")
  /\ curr' = [curr EXCEPT ![w] = Head(list[w])]
  /\ UNCHANGED <<list, ran>>

TakeNone(w) ==
  /\ finish[w] \/ list[w] = <<>>
  /\ Goes(w, "top", IF finish[w] THEN "exit" ELSE "check")
  /\ UNCHANGED <<list, curr, ran>>

\* The task's function returns, which it need not do: the server's loops never
\* end.
Run(w) ==
  /\ Goes(w, "run", "pop")
  /\ ran' = ran \union {curr[w]}
  /\ UNCHANGED <<list, curr>>

Pop(w) ==
  /\ Goes(w, "pop", "check")
  /\ list' = [list EXCEPT ![w] = Tail(@)]
  /\ UNCHANGED <<curr, ran>>

\* load(): more to do, or off to the wait.
Check(w) ==
  /\ Goes(w, "check", IF Load(w) = 0 THEN "about" ELSE "top")
  /\ UNCHANGED <<list, curr, ran>>

Wait(w) ==
  /\ Goes(w, "about", "waiting")
  /\ UNCHANGED <<list, curr, ran>>

\* Mutant of Timeout: the wait without a limit that the code has commented out.
Timeout_never(w) == pc[w] = "waiting" /\ UNCHANGED vars

\* wait_for ends after five seconds, or for no reason.
Timeout(w) ==
  /\ Goes(w, "waiting", "top")
  /\ UNCHANGED <<list, curr, ran>>

-----------------------------------------------------------------------------
Main == Compare \/ Reread \/ Chosen \/ Hire \/ Push \/ Count \/ Counted
        \/ Terminate \/ StartsJoin \/ JoinTerminates \/ Join \/ Joined
Loops(w) == Take(w) \/ TakeNone(w) \/ Pop(w) \/ Check(w) \/ Wait(w) \/ Timeout(w)

Next == Main \/ \E w \in Threads : Loops(w) \/ Run(w)

Spec == Init /\ [][Next]_vars

\* Every thread gets the processor and wait_for has its limit.  No task is
\* assumed to end.
FairSpec == Spec /\ WF_vars(Main) /\ \A w \in Threads : WF_vars(Loops(w))

-----------------------------------------------------------------------------
\* While a task runs, and until it is popped, it is the head of its thread's
\* list, whatever main appends meanwhile: pop_front removes the task that ran.
HeadIsCurrent ==
  \A w \in Threads : pc[w] \in {"run", "pop"} => list[w] # <<>> /\ Head(list[w]) = curr[w]

\* When wait_for_idle returns every task has run to its end, although the loads
\* are read one after the other and a task may be running when its thread's is.
IdleMeansDone ==
  main \in {"terminate", "join", "rejoin", "joining", "joined"} => ran = 1 .. ntasks

\* With as many threads as tasks no task is queued behind another, although
\* append chooses by loads that change while it scans: each of the server's ten
\* endless loops has a thread to itself.
OwnThread == ntasks <= NThreads => \A w \in Threads : Len(list[w]) <= 1

\* A thread that was given a task gets to run one, also when the notification
\* came between its check of the list and the wait, and whichever tasks of the
\* other threads never end.
WorkStarts ==
  \A w \in Threads, t \in Tasks :
    t \notin ran /\ (\E k \in 1 .. Len(list[w]) : list[w][k] = t) ~> pc[w] = "run"

\* join returns once the pool was found idle and its threads were terminated.
JoinReturns == main = "join" ~> main = "joined"

-----------------------------------------------------------------------------
Running(t) == \E w \in Threads : pc[w] = "run" /\ curr[w] = t
ListOf(t)  == {w \in Threads : \E k \in 1 .. Len(list[w]) : list[w][k] = t}

StateOf(t) == IF Running(t) THEN "running"
              ELSE IF t > sent THEN "new"
              ELSE IF t \in ran THEN "done"
              ELSE "queued"

ThreadOf(t) == IF t \in ran \/ ListOf(t) = {} THEN 0
               ELSE CHOOSE w \in ListOf(t) : TRUE

taskState  == [t \in Tasks |-> StateOf(t)]
taskThread == [t \in Tasks |-> ThreadOf(t)]

Pool == INSTANCE TaskPool
          WITH NoThread <- 0, state <- taskState, thread <- taskThread

\* The lists implement a pool in which each task is run once, by the thread it
\* was handed to, in the order of handing out.
RunsEachOnce == Pool!Spec
=============================================================================
