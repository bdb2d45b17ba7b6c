----------------------------- MODULE MCHomework -----------------------------
EXTENDS HomeworkData, TLC

\* Homework "1" named "1x" and homework "11" named "x" make the same table name.
MCTableOf(h, n, c) == IF h = "11" /\ n = "x" THEN <<"1", "1x", c>> ELSE <<h, n, c>>
MCTables  == Homeworks \X Names \X Classes
MCMembers == [c \in Classes |-> IF c = "a" THEN Students ELSE {"ann"}]
Text(n)   == [path |-> "p", name |-> n]
Both      == [h \in Homeworks |-> Text(IF h = "1" THEN "1x" ELSE "x")]
One       == [h \in Homeworks |-> IF h = "1" THEN Text("x") ELSE Absent]
MCStored  == {Both, One}

\* The scenarios: with both homework, requests racing for tables and counters; with one
\* of them missing, for scores, reports and texts.
Asks(s, a, d, p, m, u, i, k) ==
  [o \in Operations |->
     CASE o = "submit" -> s [] o = "amend" -> a [] o = "drop" -> d [] o = "publish" -> p
       [] o = "move" -> m [] o = "withdraw" -> u [] o = "handIn" -> i [] o = "score" -> k]
MCBudgets == [d \in MCStored |->
  IF d = Both THEN {Asks(0, 0, 0, 2, 1, 1, 0, 0), Asks(0, 0, 0, 1, 0, 0, 2, 0),
                    Asks(0, 0, 0, 1, 0, 1, 1, 0), Asks(0, 2, 0, 0, 0, 0, 0, 0),
                    Asks(0, 0, 1, 1, 0, 0, 0, 0)}
  ELSE {Asks(0, 0, 0, 1, 0, 0, 1, 1), Asks(0, 0, 0, 1, 0, 1, 0, 1),
        Asks(1, 1, 1, 0, 0, 0, 0, 0), Asks(0, 0, 1, 1, 0, 0, 0, 0)}]

\* A class of two hands in, and some of its students are scored.
MCCloseBudgets == [d \in MCStored |-> {Asks(0, 0, 0, 1, 0, 0, 2, 1)}]

Symmetry == Permutations(Workers)
=============================================================================
