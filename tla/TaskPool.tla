------------------------------- MODULE TaskPool -------------------------------
(***************************************************************************)
(* What a pool of threads promises: a task handed to a thread is run by    *)
(* that thread, once, after the tasks handed to it before.                 *)
(***************************************************************************)
EXTENDS Naturals

CONSTANTS Tasks, Threads, NoThread

VARIABLES
  state,    \* "new", "queued", "running" or "done"
  thread    \* whose task it is, from the time it is handed out until it is done

vars == <<state, thread>>

Init == /\ state = [t \in Tasks |-> "new"]
        /\ thread = [t \in Tasks |-> NoThread]

\* Tasks are handed out in the order of their numbers.
Give(t, w) == /\ state[t] = "new"
              /\ \A u \in Tasks : u < t => state[u] # "new"
              /\ state' = [state EXCEPT ![t] = "queued"]
              /\ thread' = [thread EXCEPT ![t] = w]

\* The oldest task of a thread starts.
Start(t) == /\ state[t] = "queued"
            /\ \A u \in Tasks : u < t => thread[u] # thread[t]
            /\ state' = [state EXCEPT ![t] = "running"]
            /\ UNCHANGED thread

Finish(t) == /\ state[t] = "running"
             /\ state' = [state EXCEPT ![t] = "done"]
             /\ thread' = [thread EXCEPT ![t] = NoThread]

Next == \E t \in Tasks : Start(t) \/ Finish(t) \/ \E w \in Threads : Give(t, w)

Spec == Init /\ [][Next]_vars
=============================================================================
