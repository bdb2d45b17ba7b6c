--------------------------- MODULE ConnectionPool ---------------------------
(***************************************************************************)
(* The pool of MySQL connections (pool/src/connectpool.cpp) as the         *)
(* database interface uses it: an operation gets a connection, runs its    *)
(* queries on it and releases it, or returns on a path that does not.      *)
(* get_connection and release_connection hold mtx from end to end, so each *)
(* is one step.  A session stands for a MysqlOperation object; its link is *)
(* the connection to the server and its result the pair result/res.        *)
(***************************************************************************)
EXTENDS Integers, Sequences, FiniteSets

CONSTANTS
  Workers,     \* threads that run database operations
  Sessions,    \* MysqlOperation objects
  MaxSize, InitialSize,
  Leaky,       \* operations with a path that never releases are used
  ShutsDown,   \* the pool's destructor may run
  NoSession    \* NULL

ASSUME SizeAssumption == MaxSize \in Nat /\ InitialSize \in 0 .. MaxSize

ASSUME SessionAssumption ==
  /\ IsFiniteSet(Sessions) /\ IsFiniteSet(Workers)
  /\ NoSession \notin Sessions
  /\ Leaky \in BOOLEAN /\ ShutsDown \in BOOLEAN

VARIABLES
  idle,     \* connection_list
  curSize,
  lock,     \* who keeps mtx between two steps
  main,     \* the thread that destroys the pool
  pc, held, \* each worker's operation and its connection
  lost,     \* connections whose last reference an operation dropped
  link, result,
  up,       \* the database server accepts connections
  crash     \* what has killed the process, if anything

poolVars == <<idle, curSize>>
vars == <<poolVars, lock, main, pc, held, lost, link, result, up, crash>>

TypeOK ==
  /\ idle \in Seq(Sessions)
  /\ curSize \in Int
  /\ lock \in {"free", "destroyer"}
  /\ main \in {"running", "destroying", "relocking", "destroyed"}
  /\ pc \in [Workers -> {"out", "got", "done"}]
  /\ held \in [Workers -> Sessions \union {NoSession}]
  /\ lost \in SUBSET Sessions
  /\ link \in [Sessions -> {"none", "open", "broken"}]
  /\ result \in [Sessions -> {"none", "live", "freed"}]
  /\ up \in BOOLEAN
  /\ crash \in {"no", "NULL dereferenced", "freed twice"}

NoRepeats(s) == \A i, j \in 1 .. Len(s) : s[i] = s[j] => i = j

\* The constructor: init_connection keeps the connections it could create.
Init ==
  /\ \E n \in 0 .. InitialSize : idle \in [1 .. n -> Sessions] /\ NoRepeats(idle)
  /\ curSize = Len(idle)
  /\ lock = "free" /\ main = "running"
  /\ pc = [w \in Workers |-> "out"]
  /\ held = [w \in Workers |-> NoSession]
  /\ lost = {}
  /\ link = [s \in Sessions |-> IF \E i \in 1 .. Len(idle) : idle[i] = s THEN "open" ELSE "none"]
  /\ result = [s \in Sessions |-> "none"]
  /\ up \in BOOLEAN
  /\ crash = "no"

-----------------------------------------------------------------------------
(* get_connection *)

Got(w, s) == /\ held' = [held EXCEPT ![w] = s]
             /\ pc' = [pc EXCEPT ![w] = "got"]

Asks(w) == pc[w] = "out" /\ lock = "free"

\* A new object has no result yet.
Connect(s) == /\ link' = [link EXCEPT ![s] = "open"]
              /\ result' = [result EXCEPT ![s] = "none"]

\* Mutant of GetIdle: no pop_front.
GetIdle_noPop(w) ==
  /\ Asks(w)
  /\ idle # <<>> /\ link[Head(idle)] = "open"
  /\ Got(w, Head(idle))
  /\ UNCHANGED <<poolVars, lock, main, lost, link, result, up, crash>>

GetIdle(w) ==
  /\ Asks(w)
  /\ idle # <<>> /\ link[Head(idle)] = "open"
  /\ idle' = Tail(idle)
  /\ Got(w, Head(idle))
  /\ UNCHANGED <<curSize, lock, main, lost, link, result, up, crash>>

\* The ping failed: the object is deleted and a new one takes its place.
GetReplaced(w) ==
  /\ Asks(w)
  /\ idle # <<>> /\ link[Head(idle)] = "broken"
  /\ up
  /\ \E t \in Sessions :
       /\ link[t] = "none" \/ t = Head(idle)
       /\ link' = [link EXCEPT ![Head(idle)] = "none", ![t] = "open"]
       /\ result' = [result EXCEPT ![t] = "none"]
       /\ Got(w, t)
  /\ idle' = Tail(idle)
  /\ UNCHANGED <<curSize, lock, main, lost, up, crash>>

\* Mutant of GetDropped: no --curSize.
GetDropped_stillCounted(w) ==
  /\ Asks(w)
  /\ idle # <<>> /\ link[Head(idle)] = "broken"
  /\ ~up
  /\ link' = [link EXCEPT ![Head(idle)] = "none"]
  /\ idle' = Tail(idle)
  /\ Got(w, NoSession)
  /\ UNCHANGED <<curSize, lock, main, lost, result, up, crash>>

\* Mutant of GetDropped: a connection is replaced in its place in the list, and the NULL
\* of a failed one stays there.
GetDropped_keepsNull(w) ==
  /\ Asks(w)
  /\ idle # <<>> /\ link[Head(idle)] = "broken"
  /\ ~up
  /\ link' = [link EXCEPT ![Head(idle)] = "none"]
  /\ idle' = <<NoSession>> \o Tail(idle)
  /\ curSize' = curSize - 1
  /\ Got(w, NoSession)
  /\ UNCHANGED <<lock, main, lost, result, up, crash>>

\* The ping failed and so did the new connection: the pool shrinks.
GetDropped(w) ==
  /\ Asks(w)
  /\ idle # <<>> /\ link[Head(idle)] = "broken"
  /\ ~up
  /\ link' = [link EXCEPT ![Head(idle)] = "none"]
  /\ idle' = Tail(idle)
  /\ curSize' = curSize - 1
  /\ Got(w, NoSession)
  /\ UNCHANGED <<lock, main, lost, result, up, crash>>

\* delete closes the session, which frees its last result a second time if the
\* operation that fetched it had called free_result: undefined behaviour, which
\* may kill the process or go unnoticed (GetReplaced, GetDropped).
GetCrashes(w) ==
  /\ Asks(w)
  /\ idle # <<>> /\ link[Head(idle)] = "broken"
  /\ result[Head(idle)] = "freed"
  /\ crash' = "freed twice"
  /\ UNCHANGED <<poolVars, lock, main, pc, held, lost, link, result, up>>

GetCreated(w) ==
  /\ Asks(w)
  /\ idle = <<>> /\ curSize < MaxSize
  /\ up
  /\ \E s \in Sessions : link[s] = "none" /\ Connect(s) /\ Got(w, s)
  /\ curSize' = curSize + 1
  /\ UNCHANGED <<idle, lock, main, lost, up, crash>>

\* NULL: the limit is reached, or the server refuses a new connection.
GetNull(w) ==
  /\ Asks(w)
  /\ idle = <<>> /\ (curSize >= MaxSize \/ ~up)
  /\ Got(w, NoSession)
  /\ UNCHANGED <<poolVars, lock, main, lost, link, result, up, crash>>

-----------------------------------------------------------------------------
(* The operations of homework_interface.cpp.  None checks for NULL.        *)

UseNull(w) ==
  /\ pc[w] = "got" /\ held[w] = NoSession
  /\ crash' = "NULL dereferenced"
  /\ UNCHANGED <<poolVars, lock, main, pc, held, lost, link, result, up>>

\* An operation selects and frees, selects and keeps the result, or leaves the
\* last result alone; on a broken link its first query fails.
Use(w) ==
  /\ pc[w] = "got" /\ held[w] # NoSession
  /\ \/ UNCHANGED result
     \/ /\ link[held[w]] = "open"
        /\ \E r \in {"live", "freed"} : result' = [result EXCEPT ![held[w]] = r]
  /\ pc' = [pc EXCEPT ![w] = "done"]
  /\ UNCHANGED <<poolVars, lock, main, held, lost, link, up, crash>>

\* Mutant of Ends: the operation goes on using what it has released, as
\* GetStandardAnswer does with the result.
Ends_keeps(w) == /\ pc[w] = "done"
                 /\ pc' = [pc EXCEPT ![w] = "out"]
                 /\ UNCHANGED held

Ends(w) == /\ pc[w] = "done"
           /\ pc' = [pc EXCEPT ![w] = "out"]
           /\ held' = [held EXCEPT ![w] = NoSession]

\* Mutant of Release: a dead connection is deleted and curSize kept.
Release_deletesDead(w) ==
  /\ Ends(w)
  /\ IF held[w] = NoSession THEN UNCHANGED <<idle, link>>
     ELSE /\ lock = "free"
          /\ IF link[held[w]] = "open"
             THEN idle' = Append(idle, held[w]) /\ UNCHANGED link
             ELSE link' = [link EXCEPT ![held[w]] = "none"] /\ UNCHANGED idle
  /\ UNCHANGED <<curSize, lock, main, lost, result, up, crash>>

\* NULL is not taken back, and mtx not locked for it.
Release(w) ==
  /\ Ends(w)
  /\ IF held[w] = NoSession THEN UNCHANGED idle
     ELSE lock = "free" /\ idle' = Append(idle, held[w])
  /\ UNCHANGED <<curSize, lock, main, lost, link, result, up, crash>>

\* The paths that return with the connection in hand.
Leak(w) ==
  /\ Leaky
  /\ Ends(w)
  /\ lost' = lost \union {held[w]}
  /\ UNCHANGED <<poolVars, lock, main, link, result, up, crash>>

-----------------------------------------------------------------------------
(* The database server (external). *)

\* One connection is dropped, after wait_timeout for instance.
BreakLink(s) ==
  /\ link[s] = "open"
  /\ link' = [link EXCEPT ![s] = "broken"]
  /\ UNCHANGED <<poolVars, lock, main, pc, held, lost, result, up, crash>>

ServerStops ==
  /\ up
  /\ up' = FALSE
  /\ link' = [s \in Sessions |-> IF link[s] = "open" THEN "broken" ELSE link[s]]
  /\ UNCHANGED <<poolVars, lock, main, pc, held, lost, result, crash>>

ServerStarts ==
  /\ ~up
  /\ up' = TRUE
  /\ UNCHANGED <<poolVars, lock, main, pc, held, lost, link, result, crash>>

-----------------------------------------------------------------------------
(* destory_connPool *)

\* mtx.lock() of destory_connPool, and that of destory_connection in its loop.
DestroyLocks ==
  /\ ShutsDown
  /\ main \in {"running", "relocking"} /\ lock = "free"
  /\ lock' = "destroyer"
  /\ main' = IF main = "running" THEN "destroying" ELSE "closing"
  /\ UNCHANGED <<poolVars, pc, held, lost, link, result, up, crash>>

\* The loop calls destory_connection for the first session of the list.
DestroyEnters ==
  /\ main = "destroying" /\ idle # <<>>
  /\ main' = "relocking"
  /\ UNCHANGED <<poolVars, lock, pc, held, lost, link, result, up, crash>>

\* The loop ends when it has no session left, which an empty list has not.  What would
\* follow "closing" is left out: no state is there (TypeOK).
DestroyEnds ==
  /\ main = "destroying" /\ idle = <<>>
  /\ curSize' = 0
  /\ main' = "destroyed" /\ lock' = "free"
  /\ UNCHANGED <<idle, pc, held, lost, link, result, up, crash>>

-----------------------------------------------------------------------------
Get(w) == GetIdle(w) \/ GetReplaced(w) \/ GetDropped(w) \/ GetCrashes(w)
          \/ GetCreated(w) \/ GetNull(w)
Work(w) == Get(w) \/ UseNull(w) \/ Use(w) \/ Release(w) \/ Leak(w)
Destroy == DestroyLocks \/ DestroyEnters \/ DestroyEnds
Server  == (\E s \in Sessions : BreakLink(s)) \/ ServerStops \/ ServerStarts

Next == crash = "no" /\ ((\E w \in Workers : Work(w)) \/ Destroy \/ Server)

Spec == Init /\ [][Next]_vars

\* The thread that destroys the pool goes on while it can.
FairSpec == Spec /\ WF_vars(crash = "no" /\ Destroy)

-----------------------------------------------------------------------------
Listed   == {idle[i] : i \in 1 .. Len(idle)}
Borrowed == {held[w] : w \in Workers} \ {NoSession}
Existing == {s \in Sessions : link[s] # "none"}

\* curSize is the number of connections there are: those in the list, those
\* operations hold and those operations lost, through every failed ping, failed
\* reconnection and early return; so MaxSize bounds them.
SizeIsSessions ==
  main # "destroyed" =>
    /\ Existing = Listed \union Borrowed \union lost
    /\ curSize = Cardinality(Existing)
    /\ curSize <= MaxSize

\* A connection is in the list once, or in one worker's hands, or lost.
Exclusive ==
  /\ NoRepeats(idle)
  /\ \A v, w \in Workers : held[v] = held[w] /\ held[v] # NoSession => v = w
  /\ Listed \intersect Borrowed = {}
  /\ lost \intersect (Listed \union Borrowed) = {}

\* With a worker per connection at most, and as long as no operation has lost one and
\* the destructor has not run, an operation gets NULL only while the database server
\* is down: failed pings and reconnections never use up the places of curSize.
LendWhenUp ==
  [][\A w \in Workers :
       lost = {} /\ main = "running" /\ pc[w] = "out" /\ pc'[w] = "got" /\ held'[w] = NoSession
       => ~up]_vars

\* The same of every operation, whatever others have lost.
LendAlways ==
  [][\A w \in Workers :
       pc[w] = "out" /\ pc'[w] = "got" /\ held'[w] = NoSession => ~up]_vars

\* A destructor that has begun closes the pool's connections and ends.
PoolDestroyed == main = "destroying" ~> main = "destroyed" \/ crash # "no"

\* No result is freed twice when its connection is replaced.
ResultFreedOnce == crash # "freed twice"

-----------------------------------------------------------------------------
(* The list and the counter implement leases of sessions. *)

CONSTANTS AbsentMark, IdleMark, LostMark

ASSUME MarkAssumption ==
  /\ {AbsentMark, IdleMark, LostMark} \intersect Workers = {}
  /\ AbsentMark # IdleMark /\ AbsentMark # LostMark /\ IdleMark # LostMark

OwnerOf(s) ==
  IF link[s] = "none" THEN AbsentMark
  ELSE IF s \in Listed THEN IdleMark
  ELSE IF s \in lost THEN LostMark
  ELSE CHOOSE w \in Workers : held[w] = s

owner == [s \in Sessions |-> OwnerOf(s)]

Lease == INSTANCE SessionLease
           WITH Borrowers <- Workers, Absent <- AbsentMark, Idle <- IdleMark, Lost <- LostMark,
                bounded <- main # "destroyed"

\* The pool lends a session to one borrower at a time, creates at most MaxSize
\* of them until its destructor has reset curSize, and a session never leaves a
\* borrower but by its return or loss.
LeasesSessions == Lease!Spec
=============================================================================
