---------------------------- MODULE HomeworkLife ----------------------------
(***************************************************************************)
(* The life of published homework, as its tables promise it.  A homework   *)
(* is sent to a class, given to all of its students at once or to none,    *)
(* and from then on neither taken back nor moved; only a student who has   *)
(* it is scored for it, and once closed it stays closed.                   *)
(***************************************************************************)
CONSTANTS Homeworks, Classes, Students, Members

VARIABLES
  sent,      \* publications: pairs of a homework and a class
  given,     \* who has which homework, from which publication
  scored,    \* of which homework of whom there is a score
  closed, reported

vars == <<sent, given, scored, closed, reported>>

Pubs == Homeworks \X Classes

Init == sent = {} /\ given = {} /\ scored = {} /\ closed = {} /\ reported = {}

GivenTo(p)   == {s \in Students : <<p[1], s, p[2]>> \in given}
Has(h, s)    == \E c \in Classes : <<h, s, c>> \in given

Send(p) == /\ p \notin sent
           /\ sent' = sent \union {p}
           /\ UNCHANGED <<given, scored, closed, reported>>

Give(p) == /\ p \in sent
           /\ \A s \in Members[p[2]] : ~Has(p[1], s)
           /\ given' = given \union {<<p[1], s, p[2]>> : s \in Members[p[2]]}
           /\ UNCHANGED <<sent, scored, closed, reported>>

\* What is said of p is said of q from now on.
Rename(S, p, q) == IF p \in S THEN (S \ {p}) \union {q} ELSE S

Move(p, q) == /\ p \in sent /\ q \notin sent /\ q[1] = p[1]
              /\ GivenTo(p) = {}
              /\ sent' = Rename(sent, p, q)
              /\ closed' = Rename(closed, p, q)
              /\ reported' = Rename(reported, p, q)
              /\ UNCHANGED <<given, scored>>

Withdraw(p) == /\ p \in sent /\ GivenTo(p) = {}
               /\ sent' = sent \ {p}
               /\ closed' = closed \ {p} /\ reported' = reported \ {p}
               /\ UNCHANGED <<given, scored>>

Score(h, s) == /\ Has(h, s)
               /\ scored' = scored \union {<<h, s>>}
               /\ UNCHANGED <<sent, given, closed, reported>>

Close(p) == /\ p \in sent
            /\ closed' = closed \union {p}
            /\ UNCHANGED <<sent, given, scored, reported>>

Report(p) == /\ p \in sent
             /\ reported' = reported \union {p}
             /\ UNCHANGED <<sent, given, scored, closed>>

Next == \/ \E p \in Pubs : Send(p) \/ Give(p) \/ Withdraw(p) \/ Close(p) \/ Report(p)
        \/ \E p, q \in Pubs : Move(p, q)
        \/ \E h \in Homeworks, s \in Students : Score(h, s)

Spec == Init /\ [][Next]_vars
=============================================================================
