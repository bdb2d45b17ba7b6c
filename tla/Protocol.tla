------------------------------ MODULE Protocol ------------------------------
(***************************************************************************)
(* The request codes of the homework subsystem (src/include/main.h) and    *)
(* the dispatch of Communication::dispose_data on the number atoi reads    *)
(* in front of the first '#'.                                              *)
(*                                                                         *)
(* The code masks the number three times (& 0xf, & 0xff, & 0x1fff) and     *)
(* compares the whole number at the last level.  For a number of either    *)
(* sign n & (2^k - 1) is n % 2^k, which is how the masks appear here.      *)
(***************************************************************************)
EXTENDS Integers

HOMEWORK == 65 \* 0x41

BASIC_HOMEWORK == 321  \* 0x141
SEND_HOMEWORK  == 577  \* 0x241
TEACHER_VIEW   == 833  \* 0x341
CHECK_HOMEWORK == 1089 \* 0x441
STUDENT_VIEW   == 1345 \* 0x541
STUDENT_TEST   == 1601 \* 0x641
VIEW_HOMEWORK  == 1857 \* 0x741

\* An operation code is its module's code plus k * 0x2000.
Op(module, k) == module + k * 8192

\* The operations main.h defines, module by module.
Operations ==
    {Op(m, k) : m \in {BASIC_HOMEWORK, SEND_HOMEWORK, TEACHER_VIEW}, k \in 1 .. 3}
  \union {Op(m, k) : m \in {CHECK_HOMEWORK, STUDENT_TEST}, k \in 1 .. 2}
  \union {Op(STUDENT_VIEW, 1)}
  \union {Op(VIEW_HOMEWORK, k) : k \in 1 .. 5}

-----------------------------------------------------------------------------
message_type(n) == n % 16
subsystem(n)    == n % 256

\* Mutant of module: the mask is one bit too wide.
module_wide(n) == n % 16384

module(n) == n % 8192

(* The if/else-if chain of each case of the inner switch.  The operations  *)
(* of an Acks chain are answered "code#1" or "code#0" by the handling      *)
(* thread itself; the result of those of a Views chain, when there is one, *)
(* goes to send_tcp_info.                                                  *)

BasicAcks    == {8513, 16705, 24897}  \* SUBMIT, AMEND, DROP
SendAcks     == {8769, 16961, 25153}  \* SEND, AMEND, DELETE
TeacherViews == {9025, 17217, 25409}  \* SUBMIT, SEND, CONTENT
CheckViews   == {9281}                \* CHECK_HOMEWORK_SUBJECT
CheckAcks    == {17473}               \* SET_SUBJECT_SCORE
StudentViews == {9537}                \* STUDENT_VIEW_HOMEWORK_LIST
TestViews    == {9793}                \* GET_HOMEWORK_CONTENT
TestAcks     == {17985}               \* HANDIN_HOMEWORK_REPORT
SituationViews == {10049, 18241, 26433, 34625, 42817} \* hand-ins, ranks, report

AckOps(m) ==
  CASE m = BASIC_HOMEWORK -> BasicAcks
    [] m = SEND_HOMEWORK  -> SendAcks
    [] m = CHECK_HOMEWORK -> CheckAcks
    [] m = STUDENT_TEST   -> TestAcks
    [] OTHER              -> {}

ViewOps(m) ==
  CASE m = TEACHER_VIEW   -> TeacherViews
    [] m = CHECK_HOMEWORK -> CheckViews
    [] m = STUDENT_VIEW   -> StudentViews
    [] m = STUDENT_TEST   -> TestViews
    [] m = VIEW_HOMEWORK  -> SituationViews
    [] OTHER              -> {}

\* The cases of the inner switch; it has no default.
Modules == {BASIC_HOMEWORK, SEND_HOMEWORK, TEACHER_VIEW, CHECK_HOMEWORK,
            STUDENT_VIEW, STUDENT_TEST, VIEW_HOMEWORK}

-----------------------------------------------------------------------------
\* The five things dispose_data can do with a number.  The two plain replies
\* differ in their text only ("message", "message error").

\* A subsystem or a module the switches do not list: no reply and no close.
IsIgnored(n) == /\ message_type(n) = 1
                /\ subsystem(n) # HOMEWORK \/ module(n) \notin Modules

\* The innermost chain is entered with the module the masks gave.
InModule(n) == /\ message_type(n) = 1
               /\ subsystem(n) = HOMEWORK
               /\ module(n) \in Modules

IsAck(n)  == InModule(n) /\ n \in AckOps(module(n))
IsView(n) == InModule(n) /\ n \in ViewOps(module(n))

\* "message" for type 0, "message error" for the other types and for an
\* operation its module does not know.
IsRefused(n) == \/ message_type(n) # 1
                \/ InModule(n) /\ n \notin AckOps(module(n)) \union ViewOps(module(n))
=============================================================================
