---------------------------- MODULE SessionLease ----------------------------
(***************************************************************************)
(* What a pool of database sessions promises.  A session is absent, idle,  *)
(* leased to one borrower, or lost to a borrower that never returned it;   *)
(* at most MaxSize sessions exist at a time, until the pool is shut down,  *)
(* which forgets how many there are.                                       *)
(***************************************************************************)
EXTENDS FiniteSets, Naturals

CONSTANTS Sessions, Borrowers, MaxSize, Absent, Idle, Lost

VARIABLES owner, bounded

vars == <<owner, bounded>>

TypeOK == /\ owner \in [Sessions -> Borrowers \union {Absent, Idle, Lost}]
          /\ bounded \in BOOLEAN

Existing  == {s \in Sessions : owner[s] # Absent}
Leases(b) == {s \in Sessions : owner[s] = b}

Init == /\ owner \in [Sessions -> {Absent, Idle}]
        /\ Cardinality(Existing) <= MaxSize
        /\ bounded = TRUE

Give(s, b) == /\ Leases(b) = {}
              /\ owner' = [owner EXCEPT ![s] = b]
              /\ UNCHANGED bounded

Lend(s, b)   == owner[s] = Idle /\ Give(s, b)
Create(s, b) == /\ owner[s] = Absent
                /\ bounded => Cardinality(Existing) < MaxSize
                /\ Give(s, b)

\* A dead idle session is replaced by a new one, or by none.
Replace(s, t, b) == /\ owner[s] = Idle /\ (owner[t] = Absent \/ t = s)
                    /\ Leases(b) = {}
                    /\ owner' = [owner EXCEPT ![s] = Absent, ![t] = b]
                    /\ UNCHANGED bounded

Moves(s, from, to) == /\ owner[s] = from
                      /\ owner' = [owner EXCEPT ![s] = to]
                      /\ UNCHANGED bounded

Retire(s)    == Moves(s, Idle, Absent)
Return(s, b) == Moves(s, b, Idle)
Lose(s, b)   == Moves(s, b, Lost)

ShutDown == bounded' = FALSE /\ UNCHANGED owner

Next == \/ \E s \in Sessions : Retire(s)
        \/ \E s \in Sessions, b \in Borrowers :
             Lend(s, b) \/ Create(s, b) \/ Return(s, b) \/ Lose(s, b)
        \/ \E s, t \in Sessions, b \in Borrowers : Replace(s, t, b)
        \/ ShutDown

Spec == Init /\ [][Next]_vars
=============================================================================
