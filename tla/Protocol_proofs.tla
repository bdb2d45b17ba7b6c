--------------------------- MODULE Protocol_proofs ---------------------------
(***************************************************************************)
(* The dispatch, for every number atoi can return.                         *)
(***************************************************************************)
EXTENDS Protocol, TLAPS

\* The operations of main.h, as numbers.
LEMMA OperationCodes ==
  /\ Operations = {8513, 16705, 24897, 8769, 16961, 25153, 9025, 17217, 25409, 9281, 17473,
                   9793, 17985, 9537, 10049, 18241, 26433, 34625, 42817}
  /\ \A n \in Operations : n \in Int
<1>1. \A n : n \in 1 .. 3 <=> n \in {1, 2, 3}
  OBVIOUS
<1>2. \A n : n \in 1 .. 2 <=> n \in {1, 2}
  OBVIOUS
<1>3. \A n : n \in 1 .. 5 <=> n \in {1, 2, 3, 4, 5}
  OBVIOUS
<1>4. 1 .. 3 = {1, 2, 3} /\ 1 .. 2 = {1, 2} /\ 1 .. 5 = {1, 2, 3, 4, 5}
  BY <1>1, <1>2, <1>3
<1>5. Operations =
         {Op(321, k) : k \in {1, 2, 3}} \union {Op(577, k) : k \in {1, 2, 3}}
         \union {Op(833, k) : k \in {1, 2, 3}} \union {Op(1089, k) : k \in {1, 2}}
         \union {Op(1601, k) : k \in {1, 2}} \union {Op(1345, 1)}
         \union {Op(1857, k) : k \in {1, 2, 3, 4, 5}}
  BY <1>4 DEF Operations, BASIC_HOMEWORK, SEND_HOMEWORK, TEACHER_VIEW, CHECK_HOMEWORK, STUDENT_VIEW,
     STUDENT_TEST, VIEW_HOMEWORK
<1> QED
  BY <1>5 DEF Op

\* The masks and switches accept exactly the operations of main.h: no defined operation ends
\* in another module's chain or is ignored, and no other integer, negative ones included,
\* reaches a handler.
THEOREM DispatchIsExact == \A n \in Int : IsAck(n) \/ IsView(n) <=> n \in Operations
<1> USE DEF BASIC_HOMEWORK, SEND_HOMEWORK, TEACHER_VIEW, CHECK_HOMEWORK, STUDENT_VIEW, STUDENT_TEST,
            VIEW_HOMEWORK, BasicAcks, SendAcks, TeacherViews, CheckViews, CheckAcks, StudentViews,
            TestViews, TestAcks, SituationViews
<1>1. ASSUME NEW n \in Int, IsAck(n) \/ IsView(n) PROVE n \in Operations
  BY <1>1, OperationCodes DEF IsAck, IsView, AckOps, ViewOps
<1>2. ASSUME NEW n \in Operations PROVE IsAck(n) \/ IsView(n)
  <2>1. n \in Int /\ message_type(n) = 1 /\ subsystem(n) = HOMEWORK
    BY OperationCodes DEF message_type, subsystem, HOMEWORK
  <2>2. CASE n \in {8513, 16705, 24897, 8769, 16961, 25153, 9025, 17217, 25409}
    <3>1. CASE n \in BasicAcks
      BY <2>1, <3>1 DEF IsAck, InModule, module, Modules, AckOps
    <3>2. CASE n \in SendAcks
      BY <2>1, <3>2 DEF IsAck, InModule, module, Modules, AckOps
    <3>3. CASE n \in TeacherViews
      BY <2>1, <3>3 DEF IsView, InModule, module, Modules, ViewOps
    <3> QED
      BY <2>2, <3>1, <3>2, <3>3
  <2>3. CASE n \in {9281, 17473, 9793, 17985, 9537}
    <3>1. CASE n \in {17473, 17985}
      BY <2>1, <3>1 DEF IsAck, InModule, module, Modules, AckOps
    <3>2. CASE n \in {9281, 9793, 9537}
      BY <2>1, <3>2 DEF IsView, InModule, module, Modules, ViewOps
    <3> QED
      BY <2>3, <3>1, <3>2
  <2>4. CASE n \in SituationViews
    BY <2>1, <2>4 DEF IsView, InModule, module, Modules, ViewOps
  <2> QED
    BY <1>2, <2>2, <2>3, <2>4, OperationCodes
<1> QED
  BY <1>1, <1>2
=============================================================================
