----------------------------- MODULE RequestLife ----------------------------
(***************************************************************************)
(* What the server promises a client, thread by thread detail left out.    *)
(* A connection is taken up at most once, gets at most one answer, and is  *)
(* closed afterwards; it may also be closed without an answer (the send    *)
(* failed) or be abandoned: never answered and never closed.               *)
(***************************************************************************)
CONSTANT Clients

VARIABLE stage

vars == stage

Stages == {"out", "open", "answered", "closed", "abandoned"}

TypeOK == stage \in [Clients -> Stages]

Init == stage = [c \in Clients |-> "out"]

Move(c, from, to) == stage[c] = from /\ stage' = [stage EXCEPT ![c] = to]

TakeUp(c)  == Move(c, "out", "open")
Answer(c)  == Move(c, "open", "answered")
Finish(c)  == Move(c, "answered", "closed")
GiveUp(c)  == Move(c, "open", "closed")
Abandon(c) == Move(c, "open", "abandoned")

Next == \E c \in Clients :
          TakeUp(c) \/ Answer(c) \/ Finish(c) \/ GiveUp(c) \/ Abandon(c)

Spec == Init /\ [][Next]_vars
=============================================================================
