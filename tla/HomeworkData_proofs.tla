------------------------ MODULE HomeworkData_proofs ------------------------
(***************************************************************************)
(* Theorems about the data of the homework subsystem, for every number of  *)
(* threads, homework, classes, students, titles and requests: types; that  *)
(* no publication loses or shares its feedback table; that a report is     *)
(* complete when its path is stored; that a homework is closed only after  *)
(* every student named has a score, and a total has no other student's     *)
(* choice score in it.  What an operation may rely on at each of its       *)
(* statements is Fits; the invariant of each theorem adds what a thread    *)
(* knows in its part.                                                      *)
(***************************************************************************)
EXTENDS HomeworkData, FiniteSetTheorems, SequenceTheorems, TLAPS

(* What the variables of an operation hold at each of its statements *)

OfClass == {"titles", "create", "read", "fill", "enrol", "move", "table", "dropTable",
            "unsend", "standard", "answer", "counters", "count", "choice", "score", "close",
            "header", "rows"}
OfTable == {"read", "fill", "dropTable", "count", "rows"}

Fits(l, j) ==
  /\ l \in {"write", "insert", "rename", "rewrite", "rm"} => j.text \in Texts
  /\ l \notin {"idle", "write", "insert"} => j.h \in Homeworks
  /\ l \in {"rename", "renamed"} => "name" \in j.change
  /\ l = "repath" => "path" \in j.change
  /\ "name" \in j.change => j.n \in Names
  /\ "path" \in j.change => j.d \in Paths
  /\ l \in OfClass => j.c \in Classes
  /\ l \in {"titles", "create"} => j.n \in Names
  /\ l \in OfTable => j.table \in Tables
  /\ l = "move" => j.to \in Classes
  /\ l \in {"standard", "answer", "score"} => j.s \in Students
  /\ l = "answer" => j.score \in Nat
  /\ l = "count" => j.i > 0

JobsOK ==
  /\ pc \in [Workers -> Labels]
  /\ job \in [Workers -> Jobs]
  /\ \A w \in Workers : Fits(pc[w], job[w])

DataOK ==
  /\ homework \in [Homeworks -> Opt(Texts)]
  /\ used \subseteq Homeworks
  /\ sent \in [Homeworks \X Classes -> Opt(Sent)]
  /\ student \in [Homeworks \X Students -> Opt(Answered)]
  /\ feedback \in [Tables -> Opt(Seq(Nat))]
  /\ files \subseteq Texts /\ astray \subseteq Texts
  /\ report \in [Tables -> Nat]
  /\ left \in [Operations -> Nat]
  /\ crash \in BOOLEAN
  /\ dropped \subseteq Tables /\ repathed \subseteq Homeworks
  /\ misread \subseteq Homeworks \X Students

Typed == JobsOK /\ DataOK

-----------------------------------------------------------------------------
LEMMA TitlesCount == Titles \in Nat
  BY DataAssumption

LEMMA TableNames ==
  ASSUME NEW h \in Homeworks, NEW n \in Names, NEW c \in Classes
  PROVE  TableOf(h, n, c) \in Tables
  BY DataAssumption

LEMMA NoJobFits == NoJob \in Jobs /\ Fits("idle", NoJob)
  BY DEF NoJob, Jobs, Opt, Changes, Fits, OfClass, OfTable

\* A step of an operation keeps the jobs in shape if its own next one is.
LEMMA GotoFits ==
  ASSUME JobsOK, NEW w \in Workers, NEW l \in Labels, NEW j \in Jobs,
         Fits(l, j), Goto(w, l, j)
  PROVE  JobsOK'
  BY DEF JobsOK, Goto

LEMMA EndFits ==
  ASSUME JobsOK, NEW w \in Workers, End(w)
  PROVE  JobsOK'
<1>1. "idle" \in Labels
  BY DEF Labels
<1> QED
  BY <1>1, NoJobFits, GotoFits DEF End

LEMMA RequestFits ==
  ASSUME JobsOK, NEW w \in Workers, NEW op, NEW l \in Labels, NEW j \in Jobs,
         Fits(l, j), Request(w, op, l, j)
  PROVE  JobsOK'
  BY DEF JobsOK, Request

LEMMA FailsFits ==
  ASSUME JobsOK, NEW w \in Workers, Fails(w) \/ ReadsNothing(w)
  PROVE  JobsOK'
<1>1. CASE Fails(w)
  BY <1>1, EndFits DEF Fails
<1>2. CASE UNCHANGED <<pc, job>>
  BY <1>2 DEF JobsOK
<1> QED
  BY <1>1, <1>2 DEF ReadsNothing

\* The label a thread is at, and its job.
LEMMA AtWork ==
  ASSUME JobsOK, NEW w \in Workers
  PROVE  pc[w] \in Labels /\ job[w] \in Jobs /\ Fits(pc[w], job[w])
  BY DEF JobsOK

LEMMA SubmitFits ==
  ASSUME Typed, NEW w \in Workers, Submit(w)
  PROVE  JobsOK'
<1>1. JobsOK /\ job[w] \in Jobs /\ Fits(pc[w], job[w])
  BY AtWork DEF Typed
<1>2. CASE AskSubmit(w)
  <2>1. PICK f \in Texts : Request(w, "submit", "write", [NoJob EXCEPT !.text = f])
    BY <1>2 DEF AskSubmit
  <2>2. [NoJob EXCEPT !.text = f] \in Jobs /\ Fits("write", [NoJob EXCEPT !.text = f])
    BY NoJobFits DEF NoJob, Jobs, Opt, Fits, OfClass, OfTable
  <2>3. "write" \in Labels
    BY DEF Labels
  <2> QED
    BY <1>1, <2>1, <2>2, <2>3, RequestFits
<1>3. CASE WriteText(w)
  <2>1. Fits("insert", job[w]) /\ "insert" \in Labels
    BY <1>1, <1>3 DEF WriteText, Fits, Labels, OfClass, OfTable
  <2> QED
    BY <1>1, <1>3, <2>1, GotoFits, EndFits DEF WriteText, Step
<1>4. CASE InsertHomework(w)
  BY <1>1, <1>4, EndFits DEF InsertHomework
<1> QED
  BY <1>1, <1>2, <1>3, <1>4, FailsFits DEF Submit

LEMMA AmendFits ==
  ASSUME Typed, NEW w \in Workers, Amend(w)
  PROVE  JobsOK'
<1>1. JobsOK /\ job[w] \in Jobs /\ Fits(pc[w], job[w]) /\ DataOK
  BY AtWork DEF Typed
<1>2. {"name", "rename", "renamed", "content", "rewrite", "path", "repath"} \subseteq Labels
  BY DEF Labels
<1>3. CASE AskAmend(w)
  <2>1. PICK h \in Homeworks, ch \in Changes, n \in Opt(Names), d \in Opt(Paths) :
          /\ "name" \in ch => n \in Names
          /\ "path" \in ch => d \in Paths
          /\ Request(w, "amend", "name", [NoJob EXCEPT !.h = h, !.change = ch, !.n = n, !.d = d])
    BY <1>3 DEF AskAmend, Opt
  <2> DEFINE j == [NoJob EXCEPT !.h = h, !.change = ch, !.n = n, !.d = d]
  <2>2. j \in Jobs
    BY DEF NoJob, Jobs, Opt, Changes
  <2>3. j.h = h /\ j.change = ch /\ j.n = n /\ j.d = d
    BY DEF NoJob
  <2>4. Fits("name", j)
    BY <2>1, <2>3 DEF Fits, OfClass, OfTable
  <2> QED
    BY <1>1, <1>2, <2>1, <2>2, <2>4, RequestFits
<1>4. CASE Skip(w)
  <2>1. CASE pc[w] = "name" /\ Step(w, "content")
    BY <1>1, <1>2, <2>1, GotoFits DEF Step, Fits, OfClass, OfTable
  <2>2. CASE pc[w] = "content" /\ Step(w, "path")
    BY <1>1, <1>2, <2>2, GotoFits DEF Step, Fits, OfClass, OfTable
  <2> QED
    BY <1>1, <1>4, <2>1, <2>2, EndFits DEF Skip
<1>5. ASSUME NEW ch \in {"name", "content", "path"}, NEW l,
             <<ch, l>> \in {<<"name", "rename">>, <<"content", "rewrite">>, <<"path", "repath">>},
             SelectText(w, ch, l)
      PROVE  JobsOK'
  <2>1. CASE ReadsNothing(w)
    BY <1>1, <2>1, FailsFits
  <2>2. CASE homework[job[w].h] # Absent
    <3> DEFINE j == [job[w] EXCEPT !.text = homework[job[w].h]]
    <3>1. pc[w] = ch /\ ch \in job[w].change /\ Goto(w, l, j)
      BY <1>5, <2>2 DEF SelectText, Wants
    <3>2. homework[job[w].h] \in Texts
      BY <1>1, <1>5, <2>2, <3>1 DEF DataOK, Opt, Fits
    <3>3. j \in Jobs
      BY <1>1, <3>2 DEF Jobs, Opt
    <3>4. j.text = homework[job[w].h] /\ j.h = job[w].h /\ j.change = job[w].change
          /\ j.n = job[w].n /\ j.d = job[w].d
      BY <1>1 DEF Jobs
    <3>5. Fits(l, j)
      BY <1>1, <1>5, <3>1, <3>2, <3>4 DEF Fits, OfClass, OfTable
    <3> QED
      BY <1>1, <1>2, <1>5, <3>1, <3>3, <3>5, GotoFits
  <2> QED
    BY <1>5, <2>1, <2>2 DEF SelectText
<1>6. CASE Rename(w)
  BY <1>1, <1>2, <1>6, GotoFits DEF Rename, Step, Fits, OfClass, OfTable
<1>7. CASE UpdateName(w)
  BY <1>1, <1>2, <1>7, GotoFits DEF UpdateName, Step, Fits, OfClass, OfTable
<1>8. CASE Rewrite(w)
  BY <1>1, <1>2, <1>8, GotoFits DEF Rewrite, Step, Fits, OfClass, OfTable
<1>9. CASE UpdatePath(w)
  BY <1>1, <1>9, EndFits DEF UpdatePath
<1> QED
  BY <1>1, <1>3, <1>4, <1>5, <1>6, <1>7, <1>8, <1>9, FailsFits DEF Amend

LEMMA DropFits ==
  ASSUME Typed, NEW w \in Workers, Drop(w)
  PROVE  JobsOK'
<1>1. JobsOK /\ job[w] \in Jobs /\ Fits(pc[w], job[w]) /\ DataOK
  BY AtWork DEF Typed
<1>2. {"text", "rm", "dropRow"} \subseteq Labels
  BY DEF Labels
<1>3. CASE AskDrop(w)
  <2>1. PICK h \in Homeworks : Request(w, "drop", "text", [NoJob EXCEPT !.h = h])
    BY <1>3 DEF AskDrop
  <2>2. [NoJob EXCEPT !.h = h] \in Jobs /\ Fits("text", [NoJob EXCEPT !.h = h])
    BY NoJobFits DEF NoJob, Jobs, Opt, Fits, OfClass, OfTable
  <2> QED
    BY <1>1, <1>2, <2>1, <2>2, RequestFits
<1>4. CASE FindText(w) /\ homework[job[w].h] # Absent
  <2> DEFINE j == [job[w] EXCEPT !.text = homework[job[w].h]]
  <2>1. homework[job[w].h] \in Texts
    BY <1>1, <1>4 DEF FindText, DataOK, Opt, Fits
  <2>2. j \in Jobs
    BY <1>1, <2>1 DEF Jobs, Opt
  <2>3. Fits("rm", j)
    BY <1>1, <1>4, <2>1 DEF FindText, Fits, Jobs, OfClass, OfTable
  <2> QED
    BY <1>1, <1>2, <1>4, <2>2, <2>3, GotoFits DEF FindText
<1>5. CASE RemoveText(w)
  BY <1>1, <1>2, <1>5, GotoFits DEF RemoveText, Step, Fits, OfClass, OfTable
<1>6. CASE DropRow(w)
  BY <1>1, <1>6, EndFits DEF DropRow
<1> QED
  BY <1>1, <1>3, <1>4, <1>5, <1>6, FailsFits DEF Drop, FindText

LEMMA PublishFits ==
  ASSUME Typed, NEW w \in Workers, Publish(w)
  PROVE  JobsOK'
<1>1. JobsOK /\ job[w] \in Jobs /\ Fits(pc[w], job[w])
  BY AtWork DEF Typed
<1>2. {"titles", "create", "read", "fill", "enrol"} \subseteq Labels
  BY DEF Labels
<1>3. CASE AskPublish(w)
  <2>1. PICK h \in Homeworks, c \in Classes, n \in Names :
          Request(w, "publish", "titles", [NoJob EXCEPT !.h = h, !.c = c, !.n = n])
    BY <1>3 DEF AskPublish
  <2> DEFINE j == [NoJob EXCEPT !.h = h, !.c = c, !.n = n]
  <2>2. j \in Jobs
    BY DEF NoJob, Jobs, Opt, Changes
  <2>3. Fits("titles", j)
    BY DEF NoJob, Fits, OfClass, OfTable
  <2> QED
    BY <1>1, <1>2, <2>1, <2>2, <2>3, RequestFits
<1>4. CASE SelectTitles(w)
  <2> DEFINE k == IF homework[job[w].h] = Absent THEN Absent ELSE Titles
             j == [job[w] EXCEPT !.titles = k]
  <2>1. k \in Opt(Nat)
    BY TitlesCount DEF Opt
  <2>2. j \in Jobs
    BY <1>1, <2>1 DEF Jobs
  <2>3. Fits("create", j)
    BY <1>1, <1>4 DEF SelectTitles, Fits, OfClass, OfTable, Jobs
  <2> QED
    BY <1>1, <1>2, <1>4, <2>2, <2>3, GotoFits DEF SelectTitles
<1>5. CASE CreateTable(w)
  <2> DEFINE t == TableOf(job[w].h, job[w].n, job[w].c)
             j == [job[w] EXCEPT !.table = t]
  <2>1. t \in Tables
    BY <1>1, <1>5, TableNames DEF CreateTable, Fits, OfClass
  <2>2. j \in Jobs
    BY <1>1, <2>1 DEF Jobs, Opt
  <2>3. Fits("read", j) /\ Fits("fill", j)
    BY <1>1, <1>5, <2>1 DEF CreateTable, Fits, Jobs, OfClass, OfTable
  <2> QED
    BY <1>1, <1>2, <1>5, <2>2, <2>3, GotoFits DEF CreateTable
<1>9. CASE ReadTitles(w)
  <2>1. CASE ReadsNothing(w)
    BY <1>1, <2>1, FailsFits
  <2>2. ASSUME NEW k \in 0 .. Titles, Goto(w, "fill", [job[w] EXCEPT !.titles = k])
        PROVE  JobsOK'
    <3>1. [job[w] EXCEPT !.titles = k] \in Jobs
      BY <1>1, TitlesCount DEF Jobs, Opt
    <3>2. Fits("fill", [job[w] EXCEPT !.titles = k])
      BY <1>1, <1>9 DEF ReadTitles, Fits, OfClass, OfTable, Jobs
    <3> QED
      BY <1>1, <1>2, <2>2, <3>1, <3>2, GotoFits
  <2> QED
    BY <1>9, <2>1, <2>2 DEF ReadTitles
<1>6. CASE FillTable(w)
  <2> DEFINE j == [job[w] EXCEPT !.i = @ + 1]
  <2>1. j \in Jobs
    BY <1>1 DEF Jobs
  <2>2. Fits("fill", j)
    BY <1>1, <1>6 DEF FillTable, Fits, Jobs, OfClass, OfTable
  <2> QED
    BY <1>1, <1>2, <1>6, <2>1, <2>2, GotoFits DEF FillTable
<1>7. CASE InsertSent(w)
  BY <1>1, <1>2, <1>7, GotoFits DEF InsertSent, Step, Fits, OfClass, OfTable
<1>8. CASE Enrol(w)
  BY <1>1, <1>8, EndFits DEF Enrol
<1> QED
  BY <1>1, <1>3, <1>4, <1>5, <1>6, <1>7, <1>8, <1>9, FailsFits DEF Publish

LEMMA MoveFits ==
  ASSUME Typed, NEW w \in Workers, Move(w)
  PROVE  JobsOK'
<1>1. JobsOK /\ job[w] \in Jobs /\ Fits(pc[w], job[w])
  BY AtWork DEF Typed
<1>2. CASE AskMove(w)
  <2>1. PICK p \in Homeworks \X Classes, c \in Classes :
          Request(w, "move", "move", [NoJob EXCEPT !.h = p[1], !.c = p[2], !.to = c])
    BY <1>2 DEF AskMove
  <2> DEFINE j == [NoJob EXCEPT !.h = p[1], !.c = p[2], !.to = c]
  <2>2. j \in Jobs /\ "move" \in Labels
    BY DEF NoJob, Jobs, Opt, Changes, Labels
  <2>3. Fits("move", j)
    BY DEF NoJob, Fits, OfClass, OfTable
  <2> QED
    BY <1>1, <2>1, <2>2, <2>3, RequestFits
<1>3. CASE MoveSent(w)
  BY <1>1, <1>3, EndFits DEF MoveSent
<1> QED
  BY <1>1, <1>2, <1>3, FailsFits DEF Move

LEMMA WithdrawFits ==
  ASSUME Typed, NEW w \in Workers, Withdraw(w)
  PROVE  JobsOK'
<1>1. JobsOK /\ job[w] \in Jobs /\ Fits(pc[w], job[w]) /\ DataOK
  BY AtWork DEF Typed
<1>2. {"table", "dropTable", "unsend"} \subseteq Labels
  BY DEF Labels
<1>3. CASE AskWithdraw(w)
  <2>1. PICK p \in Homeworks \X Classes :
          Request(w, "withdraw", "table", [NoJob EXCEPT !.h = p[1], !.c = p[2]])
    BY <1>3 DEF AskWithdraw
  <2> DEFINE j == [NoJob EXCEPT !.h = p[1], !.c = p[2]]
  <2>2. j \in Jobs /\ Fits("table", j)
    BY DEF NoJob, Jobs, Opt, Changes, Fits, OfClass, OfTable
  <2> QED
    BY <1>1, <1>2, <2>1, <2>2, RequestFits
<1>4. CASE FindTable(w) /\ sent[Pub(w)] # Absent
  <2> DEFINE j == [job[w] EXCEPT !.table = sent[Pub(w)].table]
  <2>1. sent[Pub(w)].table \in Tables
    BY <1>1, <1>4 DEF FindTable, DataOK, Pub, Fits, OfClass, Opt, Sent
  <2>2. j \in Jobs
    BY <1>1, <2>1 DEF Jobs, Opt
  <2>3. Fits("dropTable", j)
    BY <1>1, <1>4, <2>1 DEF FindTable, Fits, Jobs, OfClass, OfTable
  <2> QED
    BY <1>1, <1>2, <1>4, <2>2, <2>3, GotoFits DEF FindTable
<1>5. CASE DropTable(w)
  BY <1>1, <1>2, <1>5, GotoFits DEF DropTable, Step, Fits, OfClass, OfTable
<1>6. CASE DeleteSent(w)
  BY <1>1, <1>6, EndFits DEF DeleteSent
<1> QED
  BY <1>1, <1>3, <1>4, <1>5, <1>6, FailsFits DEF Withdraw, FindTable

LEMMA HandInFits ==
  ASSUME Typed, NEW w \in Workers, HandIn(w)
  PROVE  JobsOK'
<1>1. JobsOK /\ job[w] \in Jobs /\ Fits(pc[w], job[w]) /\ DataOK
  BY AtWork DEF Typed
<1>2. {"standard", "answer", "counters", "count"} \subseteq Labels
  BY DEF Labels
<1>3. CASE AskHandIn(w)
  <2>1. PICK r \in Homeworks \X Students, c \in Classes :
          Request(w, "handIn", "standard", [NoJob EXCEPT !.h = r[1], !.s = r[2], !.c = c])
    BY <1>3 DEF AskHandIn
  <2> DEFINE j == [NoJob EXCEPT !.h = r[1], !.s = r[2], !.c = c]
  <2>2. j \in Jobs
    BY DEF NoJob, Jobs, Opt, Changes
  <2>3. j.h = r[1] /\ j.s = r[2] /\ j.c = c /\ j.change = {}
    BY DEF NoJob
  <2>4. Fits("standard", j)
    BY <2>3 DEF Fits, OfClass, OfTable
  <2> QED
    BY <1>1, <1>2, <2>1, <2>2, <2>4, RequestFits
<1>7. CASE FindStandard(w) /\ homework[job[w].h] # Absent
  <2>1. PICK k \in Scores : Goto(w, "answer", [job[w] EXCEPT !.score = k])
    BY <1>7 DEF FindStandard
  <2> DEFINE j == [job[w] EXCEPT !.score = k]
  <2>2. k \in Nat
    BY DataAssumption
  <2>3. j \in Jobs
    BY <1>1, <2>2 DEF Jobs, Opt
  <2>4. Fits("answer", j)
    BY <1>1, <1>7, <2>2 DEF FindStandard, Fits, Jobs, OfClass, OfTable
  <2> QED
    BY <1>1, <1>2, <2>1, <2>3, <2>4, GotoFits
<1>4. CASE SaveAnswer(w)
  BY <1>1, <1>2, <1>4, GotoFits DEF SaveAnswer, Step, Fits, OfClass, OfTable
<1>5. CASE FindCounters(w) /\ sent[Pub(w)] # Absent
  <2> DEFINE j == [job[w] EXCEPT !.table = sent[Pub(w)].table, !.i = 1]
  <2>1. sent[Pub(w)].table \in Tables
    BY <1>1, <1>5 DEF FindCounters, DataOK, Pub, Fits, OfClass, Opt, Sent
  <2>2. j \in Jobs
    BY <1>1, <2>1 DEF Jobs, Opt
  <2>3. Fits("count", j)
    BY <1>1, <1>5, <2>1 DEF FindCounters, Fits, Jobs, OfClass, OfTable
  <2> QED
    BY <1>1, <1>2, <1>5, <2>2, <2>3, GotoFits DEF FindCounters
<1>6. CASE Count(w)
  <2> DEFINE j == [job[w] EXCEPT !.i = @ + 1]
  <2>1. j \in Jobs
    BY <1>1 DEF Jobs
  <2>2. Fits("count", j)
    BY <1>1, <1>6 DEF Count, Fits, Jobs, OfClass, OfTable
  <2> QED
    BY <1>1, <1>2, <1>6, <2>1, <2>2, GotoFits DEF Count
<1> QED
  BY <1>1, <1>3, <1>4, <1>5, <1>6, <1>7, FailsFits DEF HandIn, FindStandard, FindCounters

LEMMA ChoiceType ==
  ASSUME DataOK, NEW r \in Homeworks \X Students, NEW k \in ChoiceRead(r)
  PROVE  k \in Opt(Nat)
<1>1. CASE student[r] = Absent
  BY <1>1, DataAssumption DEF ChoiceRead, Opt
<1>2. CASE student[r] # Absent
  BY <1>2 DEF ChoiceRead, DataOK, Opt, Answered
<1> QED
  BY <1>1, <1>2

LEMMA CheckFits ==
  ASSUME Typed, NEW w \in Workers, Check(w)
  PROVE  JobsOK'
<1>1. JobsOK /\ job[w] \in Jobs /\ Fits(pc[w], job[w]) /\ DataOK
  BY AtWork DEF Typed
<1>2. {"choice", "score", "close", "header", "rows"} \subseteq Labels
  BY DEF Labels
<1>3. CASE AskScores(w)
  <2>1. PICK p \in Homeworks \X Classes, S \in SUBSET Students :
          Request(w, "score", "choice",
             [NoJob EXCEPT !.h = p[1], !.c = p[2], !.named = S, !.todo = S])
    BY <1>3 DEF AskScores
  <2> DEFINE j == [NoJob EXCEPT !.h = p[1], !.c = p[2], !.named = S, !.todo = S]
  <2>2. j \in Jobs
    BY DEF NoJob, Jobs, Opt, Changes
  <2>3. j.h = p[1] /\ j.c = p[2] /\ j.change = {}
    BY DEF NoJob
  <2>4. Fits("choice", j)
    BY <2>3 DEF Fits, OfClass, OfTable
  <2> QED
    BY <1>1, <1>2, <2>1, <2>2, <2>4, RequestFits
<1>4. CASE SelectChoice(w)
  <2>1. ASSUME NEW s \in job[w].todo, NEW k \in ChoiceRead(<<job[w].h, s>>),
               Goto(w, "score", [job[w] EXCEPT !.s = s, !.todo = @ \ {s}, !.score = k])
        PROVE  JobsOK'
    <3> DEFINE j == [job[w] EXCEPT !.s = s, !.todo = @ \ {s}, !.score = k]
    <3>1. pc[w] = "choice" /\ s \in Students /\ job[w].h \in Homeworks
      BY <1>1, <1>4 DEF SelectChoice, Jobs, Fits
    <3>2. k \in Opt(Nat)
      BY <1>1, <3>1, ChoiceType
    <3>3. j \in Jobs
      BY <1>1, <3>1, <3>2 DEF Jobs, Opt
    <3>4. Fits("score", j)
      BY <1>1, <3>1 DEF Fits, Jobs, OfClass, OfTable
    <3> QED
      BY <1>1, <1>2, <2>1, <3>3, <3>4, GotoFits
  <2>2. CASE ReadsNothing(w)
    BY <1>1, <2>2, FailsFits
  <2> QED
    BY <1>4, <2>1, <2>2, Zenon DEF SelectChoice
<1>5. CASE SaveScore(w)
  BY <1>1, <1>2, <1>5, GotoFits DEF SaveScore, Step, Fits, OfClass, OfTable
<1>6. CASE CheckCount(w)
  <2>1. pc[w] = "choice" /\ (Step(w, "close") \/ End(w) \/ ReadsNothing(w))
    BY <1>6 DEF CheckCount
  <2>2. Fits("close", job[w])
    BY <1>1, <2>1 DEF Fits, OfClass, OfTable
  <2> QED
    BY <1>1, <1>2, <2>1, <2>2, GotoFits, EndFits, FailsFits DEF Step
<1>7. CASE Close(w)
  BY <1>1, <1>2, <1>7, GotoFits DEF Close, Step, Fits, OfClass, OfTable
<1>8. CASE Header(w) /\ sent[Pub(w)] # Absent
  <2> DEFINE j == [job[w] EXCEPT !.table = sent[Pub(w)].table, !.i = 1]
  <2>1. sent[Pub(w)].table \in Tables
    BY <1>1, <1>8 DEF Header, DataOK, Pub, Fits, OfClass, Opt, Sent
  <2>2. j \in Jobs
    BY <1>1, <2>1 DEF Jobs, Opt
  <2>3. Fits("rows", j)
    BY <1>1, <1>8, <2>1 DEF Header, Fits, Jobs, OfClass, OfTable
  <2> QED
    BY <1>1, <1>2, <1>8, <2>2, <2>3, GotoFits DEF Header
<1>9. CASE WriteRow(w)
  <2> DEFINE j == [job[w] EXCEPT !.i = @ + 1]
  <2>1. j \in Jobs
    BY <1>1 DEF Jobs
  <2>2. Fits("rows", j)
    BY <1>1, <1>9 DEF WriteRow, Fits, Jobs, OfClass, OfTable
  <2>3. ReadsNothing(w) \/ Goto(w, "rows", j)
    BY <1>9 DEF WriteRow
  <2> QED
    BY <1>1, <1>2, <2>1, <2>2, <2>3, GotoFits, FailsFits
<1>10. CASE SavePath(w)
  BY <1>1, <1>10, EndFits DEF SavePath
<1> QED
  BY <1>1, <1>3, <1>4, <1>5, <1>6, <1>7, <1>8, <1>9, <1>10, FailsFits DEF Check, Header

LEMMA NextFits ==
  ASSUME Typed, [Next]_vars
  PROVE  JobsOK'
<1>1. ASSUME NEW r \in Homeworks \X Students, Mark(r) PROVE JobsOK'
  BY <1>1 DEF Mark, Typed, JobsOK
<1>2. CASE UNCHANGED vars
  BY <1>2 DEF vars, Typed, JobsOK
<1> QED
  BY <1>1, <1>2, SubmitFits, AmendFits, DropFits, PublishFits, MoveFits, WithdrawFits,
     HandInFits, CheckFits DEF Next, Operation

-----------------------------------------------------------------------------
(* The tables and files *)

LEMMA RequestData ==
  ASSUME DataOK, NEW w \in Workers, NEW op \in Operations, NEW l, NEW j, Request(w, op, l, j)
  PROVE  DataOK'
<1>1. left' \in [Operations -> Nat]
  BY DEF DataOK, Request
<1> QED
  BY <1>1 DEF DataOK, Request, tables, history

\* The feedback tables after a change of one of them.
LEMMA ChangeTable ==
  ASSUME feedback \in [Tables -> Opt(Seq(Nat))], NEW t, NEW new \in Opt(Seq(Nat)),
         feedback' = [feedback EXCEPT ![t] = new]
  PROVE  feedback' \in [Tables -> Opt(Seq(Nat))]
OBVIOUS

LEMMA PlusOneCounts ==
  ASSUME NEW s \in Seq(Nat), NEW i \in Nat, i > 0
  PROVE  PlusOne(s, i) \in Seq(Nat)
<1>1. CASE i <= Len(s)
  <2>1. i \in 1 .. Len(s)
    BY <1>1
  <2>2. s[i] + 1 \in Nat
    BY <2>1, ElementOfSeq
  <2>3. [s EXCEPT ![i] = s[i] + 1] \in Seq(Nat)
    BY <2>1, <2>2, ExceptSeq
  <2> QED
    BY <1>1, <2>3 DEF PlusOne
<1> QED
  BY <1>1 DEF PlusOne

LEMMA FailsData ==
  ASSUME DataOK, NEW w \in Workers, Fails(w) \/ ReadsNothing(w)
  PROVE  DataOK'
BY DEF DataOK, Fails, ReadsNothing, End, Goto, tables, history

\* What a step of an operation leaves alone.
Aside == UNCHANGED <<left, crash>>

LEMMA GotoAside ==
  ASSUME NEW w \in Workers, NEW l, NEW j, Goto(w, l, j) \/ Step(w, l) \/ End(w)
  PROVE  Aside
BY DEF Goto, Step, End, Aside

LEMMA SubmitData ==
  ASSUME Typed, NEW w \in Workers, Submit(w)
  PROVE  DataOK'
<1>1. DataOK /\ Fits(pc[w], job[w])
  BY AtWork DEF Typed
<1>2. CASE AskSubmit(w)
  BY <1>1, <1>2, RequestData DEF AskSubmit, Operations
<1>3. CASE WriteText(w)
  <2>1. Aside
    BY <1>3, GotoAside DEF WriteText
  <2>2. job[w].text \in Texts
    BY <1>1, <1>3 DEF WriteText, Fits
  <2> QED
    BY <1>1, <1>3, <2>1, <2>2 DEF WriteText, DataOK, Aside, tables, history
<1>4. CASE InsertHomework(w)
  <2>1. Aside
    BY <1>4, GotoAside DEF InsertHomework
  <2>2. job[w].text \in Texts
    BY <1>1, <1>4 DEF InsertHomework, Fits
  <2>3. homework' \in [Homeworks -> Opt(Texts)] /\ used' \subseteq Homeworks
    BY <1>1, <1>4, <2>2 DEF InsertHomework, DataOK, Opt
  <2> QED
    BY <1>1, <1>4, <2>1, <2>3 DEF InsertHomework, DataOK, Aside, history
<1> QED
  BY <1>1, <1>2, <1>3, <1>4, FailsData DEF Submit

LEMMA AmendData ==
  ASSUME Typed, NEW w \in Workers, Amend(w)
  PROVE  DataOK'
<1>1. DataOK /\ Fits(pc[w], job[w]) /\ job[w] \in Jobs
  BY AtWork DEF Typed
<1>2. CASE AskAmend(w)
  BY <1>1, <1>2, RequestData DEF AskAmend, Operations
<1>3. CASE Skip(w)
  <2>1. Aside
    BY <1>3, GotoAside DEF Skip
  <2> QED
    BY <1>1, <1>3, <2>1 DEF Skip, DataOK, Aside, tables, history
<1>4. ASSUME NEW ch, NEW l, SelectText(w, ch, l) PROVE DataOK'
  <2>1. CASE ReadsNothing(w)
    BY <1>1, <2>1, FailsData
  <2>2. CASE ~ReadsNothing(w)
    <3>1. Aside /\ UNCHANGED <<tables, files, report, history>>
      BY <1>4, <2>2, GotoAside DEF SelectText
    <3> QED
      BY <1>1, <3>1 DEF DataOK, Aside, tables, history
  <2> QED
    BY <2>1, <2>2
<1>5. CASE Rename(w)
  <2> DEFINE old == job[w].text
             new == [old EXCEPT !.name = job[w].n]
  <2>1. Aside
    BY <1>5, GotoAside DEF Rename
  <2>2. old \in Texts /\ job[w].n \in Names
    BY <1>1, <1>5 DEF Rename, Fits
  <2>3. new \in Texts
    BY <2>2 DEF Texts
  <2>4. files' \subseteq Texts /\ astray' \subseteq Texts
    BY <1>1, <1>5, <2>2, <2>3 DEF Rename, DataOK
  <2> QED
    BY <1>1, <1>5, <2>1, <2>4 DEF Rename, DataOK, Aside, tables
<1>6. CASE UpdateName(w)
  <2>1. Aside
    BY <1>6, GotoAside DEF UpdateName
  <2>2. job[w].h \in Homeworks /\ job[w].n \in Names
    BY <1>1, <1>6 DEF UpdateName, Fits
  <2>3. homework' \in [Homeworks -> Opt(Texts)]
    <3>1. ASSUME homework[job[w].h] # Absent
          PROVE  [homework[job[w].h] EXCEPT !.name = job[w].n] \in Texts
      BY <1>1, <2>2, <3>1 DEF DataOK, Opt, Texts
    <3> QED
      BY <1>1, <1>6, <2>2, <3>1 DEF UpdateName, DataOK, Opt
  <2> QED
    BY <1>1, <1>6, <2>1, <2>3 DEF UpdateName, DataOK, Aside, history
<1>7. CASE Rewrite(w)
  <2>1. Aside
    BY <1>7, GotoAside DEF Rewrite
  <2>2. job[w].text \in Texts
    BY <1>1, <1>7 DEF Rewrite, Fits
  <2> QED
    BY <1>1, <1>7, <2>1, <2>2 DEF Rewrite, DataOK, Aside, tables, history
<1>8. CASE UpdatePath(w)
  <2>1. Aside
    BY <1>8, GotoAside DEF UpdatePath
  <2>2. job[w].h \in Homeworks /\ job[w].d \in Paths
    BY <1>1, <1>8 DEF UpdatePath, Fits
  <2>3. homework' \in [Homeworks -> Opt(Texts)]
    <3>1. ASSUME homework[job[w].h] # Absent
          PROVE  [homework[job[w].h] EXCEPT !.path = job[w].d] \in Texts
      BY <1>1, <2>2, <3>1 DEF DataOK, Opt, Texts
    <3> QED
      BY <1>1, <1>8, <2>2, <3>1 DEF UpdatePath, DataOK, Opt
  <2> QED
    BY <1>1, <1>8, <2>1, <2>2, <2>3 DEF UpdatePath, DataOK, Aside
<1> QED
  BY <1>1, <1>2, <1>3, <1>4, <1>5, <1>6, <1>7, <1>8, FailsData DEF Amend

LEMMA DropData ==
  ASSUME Typed, NEW w \in Workers, Drop(w)
  PROVE  DataOK'
<1>1. DataOK /\ Fits(pc[w], job[w])
  BY AtWork DEF Typed
<1>2. CASE AskDrop(w)
  BY <1>1, <1>2, RequestData DEF AskDrop, Operations
<1>3. CASE FindText(w) /\ ~ReadsNothing(w)
  <2>1. Aside /\ UNCHANGED <<tables, files, report, history>>
    BY <1>3, GotoAside DEF FindText
  <2> QED
    BY <1>1, <2>1 DEF DataOK, Aside, tables, history
<1>4. CASE RemoveText(w)
  <2>1. Aside
    BY <1>4, GotoAside DEF RemoveText
  <2>2. files' \subseteq Texts /\ astray' \subseteq Texts
    BY <1>1, <1>4 DEF RemoveText, DataOK
  <2> QED
    BY <1>1, <1>4, <2>1, <2>2 DEF RemoveText, DataOK, Aside, tables
<1>5. CASE DropRow(w)
  <2>1. Aside
    BY <1>5, GotoAside DEF DropRow
  <2>2. homework' \in [Homeworks -> Opt(Texts)]
    BY <1>1, <1>5 DEF DropRow, DataOK, Opt
  <2> QED
    BY <1>1, <1>5, <2>1, <2>2 DEF DropRow, DataOK, Aside, history
<1> QED
  BY <1>1, <1>2, <1>3, <1>4, <1>5, FailsData DEF Drop

LEMMA PublishData ==
  ASSUME Typed, NEW w \in Workers, Publish(w)
  PROVE  DataOK'
<1>1. DataOK /\ Fits(pc[w], job[w])
  BY AtWork DEF Typed
<1>2. CASE AskPublish(w)
  BY <1>1, <1>2, RequestData DEF AskPublish, Operations
<1>3. CASE SelectTitles(w) \/ (ReadTitles(w) /\ ~ReadsNothing(w))
  <2>1. Aside /\ UNCHANGED <<tables, files, report, history>>
    BY <1>3, GotoAside DEF SelectTitles, ReadTitles
  <2> QED
    BY <1>1, <2>1 DEF DataOK, Aside, tables, history
<1>4. CASE CreateTable(w)
  <2>1. Aside
    BY <1>4, GotoAside DEF CreateTable
  <2>2. PICK t : feedback' = [feedback EXCEPT ![t] = <<>>]
    BY <1>4, Zenon DEF CreateTable
  <2>3. <<>> \in Opt(Seq(Nat))
    BY DEF Opt
  <2>4. feedback' \in [Tables -> Opt(Seq(Nat))]
    BY <1>1, <2>2, <2>3, ChangeTable DEF DataOK
  <2> QED
    BY <1>1, <1>4, <2>1, <2>4 DEF CreateTable, DataOK, Aside, history
<1>5. CASE FillTable(w)
  <2> DEFINE t == job[w].table
  <2>1. Aside
    BY <1>5, GotoAside DEF FillTable
  <2>2. t \in Tables /\ feedback[t] \in Seq(Nat)
    BY <1>1, <1>5 DEF FillTable, Fits, OfTable, DataOK, Opt
  <2>3. Append(feedback[t], 0) \in Seq(Nat)
    BY <2>2
  <2>4. feedback' \in [Tables -> Opt(Seq(Nat))]
    BY <1>1, <1>5, <2>3 DEF FillTable, DataOK, Opt
  <2> QED
    BY <1>1, <1>5, <2>1, <2>4 DEF FillTable, DataOK, Aside, history
<1>6. CASE InsertSent(w)
  <2>1. Aside
    BY <1>6, GotoAside DEF InsertSent
  <2>2. [table |-> job[w].table, closed |-> FALSE, report |-> Absent] \in Sent
    BY <1>1, <1>6 DEF InsertSent, Fits, OfTable, Sent, Opt
  <2>3. sent' \in [Homeworks \X Classes -> Opt(Sent)]
    BY <1>1, <1>6, <2>2 DEF InsertSent, DataOK, Opt
  <2> QED
    BY <1>1, <1>6, <2>1, <2>3 DEF InsertSent, DataOK, Aside, history
<1>7. CASE Enrol(w)
  <2>1. Aside
    BY <1>7, GotoAside DEF Enrol
  <2>2. [class |-> job[w].c, marked |-> FALSE, choice |-> Absent,
         scored |-> FALSE, counted |-> Absent] \in Answered
    BY <1>1, <1>7 DEF Enrol, Fits, OfClass, Answered, Opt
  <2>3. student' \in [Homeworks \X Students -> Opt(Answered)]
    BY <1>1, <1>7, <2>2 DEF Enrol, DataOK, Opt
  <2> QED
    BY <1>1, <1>7, <2>1, <2>3 DEF Enrol, DataOK, Aside, history
<1> QED
  BY <1>1, <1>2, <1>3, <1>4, <1>5, <1>6, <1>7, FailsData DEF Publish

LEMMA MoveData ==
  ASSUME Typed, NEW w \in Workers, Move(w)
  PROVE  DataOK'
<1>1. DataOK /\ Fits(pc[w], job[w])
  BY AtWork DEF Typed
<1>2. CASE AskMove(w)
  BY <1>1, <1>2, RequestData DEF AskMove, Operations
<1>3. CASE MoveSent(w)
  <2>1. Aside
    BY <1>3, GotoAside DEF MoveSent
  <2>2. Pub(w) \in Homeworks \X Classes
    BY <1>1, <1>3 DEF MoveSent, Fits, OfClass, Pub
  <2>3. sent' \in [Homeworks \X Classes -> Opt(Sent)]
    BY <1>1, <1>3, <2>2 DEF MoveSent, DataOK, Opt
  <2> QED
    BY <1>1, <1>3, <2>1, <2>3 DEF MoveSent, DataOK, Aside, history
<1> QED
  BY <1>1, <1>2, <1>3, FailsData DEF Move

LEMMA WithdrawData ==
  ASSUME Typed, NEW w \in Workers, Withdraw(w)
  PROVE  DataOK'
<1>1. DataOK /\ Fits(pc[w], job[w])
  BY AtWork DEF Typed
<1>2. CASE AskWithdraw(w)
  BY <1>1, <1>2, RequestData DEF AskWithdraw, Operations
<1>3. CASE FindTable(w) /\ ~ReadsNothing(w)
  <2>1. Aside /\ UNCHANGED <<tables, files, report, history>>
    BY <1>3, GotoAside DEF FindTable
  <2> QED
    BY <1>1, <2>1 DEF DataOK, Aside, tables, history
<1>4. CASE DropTable(w)
  <2>1. Aside
    BY <1>4, GotoAside DEF DropTable
  <2>2. job[w].table \in Tables
    BY <1>1, <1>4 DEF DropTable, Fits, OfTable
  <2>3. feedback' \in [Tables -> Opt(Seq(Nat))] /\ dropped' \subseteq Tables
    BY <1>1, <1>4, <2>2 DEF DropTable, DataOK, Opt
  <2> QED
    BY <1>1, <1>4, <2>1, <2>3 DEF DropTable, DataOK, Aside
<1>5. CASE DeleteSent(w)
  <2>1. Aside
    BY <1>5, GotoAside DEF DeleteSent
  <2>2. sent' \in [Homeworks \X Classes -> Opt(Sent)]
    BY <1>1, <1>5 DEF DeleteSent, DataOK, Opt
  <2> QED
    BY <1>1, <1>5, <2>1, <2>2 DEF DeleteSent, DataOK, Aside, history
<1> QED
  BY <1>1, <1>2, <1>3, <1>4, <1>5, FailsData DEF Withdraw

LEMMA HandInData ==
  ASSUME Typed, NEW w \in Workers, HandIn(w)
  PROVE  DataOK'
<1>1. DataOK /\ Fits(pc[w], job[w]) /\ job[w] \in Jobs
  BY AtWork DEF Typed
<1>2. CASE AskHandIn(w)
  BY <1>1, <1>2, RequestData DEF AskHandIn, Operations
<1>3. CASE SaveAnswer(w)
  <2>1. Aside
    BY <1>3, GotoAside DEF SaveAnswer
  <2>2. Row(w) \in Homeworks \X Students /\ job[w].score \in Nat
    BY <1>1, <1>3 DEF SaveAnswer, Fits, Row
  <2> DEFINE new == IF student[Row(w)] = Absent THEN Absent
                    ELSE [student[Row(w)] EXCEPT !.choice = job[w].score]
  <2>3. new \in Opt(Answered)
    <3>1. ASSUME student[Row(w)] # Absent
          PROVE  [student[Row(w)] EXCEPT !.choice = job[w].score] \in Answered
      BY <1>1, <2>2, <3>1 DEF DataOK, Answered, Opt
    <3> QED
      BY <3>1 DEF Opt
  <2>4. student' = [student EXCEPT ![Row(w)] = new]
    BY <1>3 DEF SaveAnswer
  <2> HIDE DEF new
  <2>5. student' \in [Homeworks \X Students -> Opt(Answered)]
    BY <1>1, <2>3, <2>4 DEF DataOK
  <2> QED
    BY <1>1, <1>3, <2>1, <2>5 DEF SaveAnswer, DataOK, Aside, history
<1>4. CASE (FindStandard(w) \/ FindCounters(w)) /\ ~ReadsNothing(w)
  <2>1. Aside /\ UNCHANGED <<tables, files, report, history>>
    BY <1>4, GotoAside DEF FindStandard, FindCounters
  <2> QED
    BY <1>1, <2>1 DEF DataOK, Aside, tables, history
<1>5. CASE Count(w)
  <2> DEFINE t == job[w].table
             i == job[w].i
  <2>1. Aside
    BY <1>5, GotoAside DEF Count
  <2>2. feedback[t] \in Seq(Nat) /\ i \in Nat /\ i > 0
    BY <1>1, <1>5 DEF Count, Fits, OfTable, DataOK, Opt, Jobs
  <2>3. PlusOne(feedback[t], i) \in Opt(Seq(Nat))
    BY <2>2, PlusOneCounts DEF Opt
  <2>4. feedback' = [feedback EXCEPT ![t] = PlusOne(feedback[t], i)]
    BY <1>5 DEF Count
  <2>5. feedback' \in [Tables -> Opt(Seq(Nat))]
    BY <1>1, <2>3, <2>4, ChangeTable DEF DataOK
  <2> QED
    BY <1>1, <1>5, <2>1, <2>5 DEF Count, DataOK, Aside, history
<1> QED
  BY <1>1, <1>2, <1>3, <1>4, <1>5, FailsData DEF HandIn

\* What the score update makes of a row.
LEMMA ScoredType ==
  ASSUME NEW row \in Opt(Answered), NEW k \in Opt(Nat)
  PROVE  /\ Scored(row, k) \in Opt(Answered)
         /\ row = Absent => Scored(row, k) = Absent
         /\ row # Absent => LET new == Scored(row, k) IN
              /\ new \in Answered /\ new.class = row.class /\ new.choice = row.choice
              /\ new.scored /\ new.counted = k
<1>1. CASE row = Absent
  BY <1>1 DEF Scored
<1>2. CASE row # Absent
  <2>1. row \in Answered
    BY <1>2 DEF Opt
  <2>2. Scored(row, k) = [row EXCEPT !.scored = TRUE, !.counted = k]
    BY <1>2 DEF Scored
  <2> QED
    BY <1>2, <2>1, <2>2 DEF Answered, Opt
<1> QED
  BY <1>1, <1>2

LEMMA CheckData ==
  ASSUME Typed, NEW w \in Workers, Check(w)
  PROVE  DataOK'
<1>1. DataOK /\ Fits(pc[w], job[w]) /\ job[w] \in Jobs
  BY AtWork DEF Typed
<1>2. CASE AskScores(w)
  BY <1>1, <1>2, RequestData DEF AskScores, Operations
<1>3. CASE CheckCount(w) /\ ~ReadsNothing(w)
  <2>1. Aside /\ UNCHANGED <<tables, files, report, history>>
    BY <1>3, GotoAside DEF CheckCount
  <2> QED
    BY <1>1, <2>1 DEF DataOK, Aside, tables, history
<1>11. CASE SelectChoice(w) /\ ~ReadsNothing(w)
  <2>1. PICK s \in job[w].todo :
          /\ \E k : Goto(w, "score", [job[w] EXCEPT !.s = s, !.todo = @ \ {s}, !.score = k])
          /\ misread' = misread \union (IF student[<<job[w].h, s>>] = Absent
                                        THEN {<<job[w].h, s>>} ELSE {})
          /\ UNCHANGED <<tables, files, report, dropped, astray, repathed>>
    BY <1>11, Zenon DEF SelectChoice
  <2>2. Aside
    BY <2>1, GotoAside
  <2>3. <<job[w].h, s>> \in Homeworks \X Students
    BY <1>1, <1>11, <2>1 DEF SelectChoice, Fits, Jobs
  <2> QED
    BY <1>1, <2>1, <2>2, <2>3 DEF DataOK, Aside, tables
<1>4. CASE SaveScore(w)
  <2>1. Aside
    BY <1>4, GotoAside DEF SaveScore
  <2>2. Row(w) \in Homeworks \X Students /\ job[w].score \in Opt(Nat)
    BY <1>1, <1>4 DEF SaveScore, Fits, Row, Jobs
  <2>3. Scored(student[Row(w)], job[w].score) \in Opt(Answered)
    BY <1>1, <2>2, ScoredType DEF DataOK
  <2>4. student' = [student EXCEPT ![Row(w)] = Scored(student[Row(w)], job[w].score)]
    BY <1>4 DEF SaveScore
  <2>5. student' \in [Homeworks \X Students -> Opt(Answered)]
    BY <1>1, <2>3, <2>4 DEF DataOK
  <2> QED
    BY <1>1, <1>4, <2>1, <2>5 DEF SaveScore, DataOK, Aside, history
<1>5. ASSUME NEW new \in Opt(Sent), sent' = [sent EXCEPT ![Pub(w)] = new],
             UNCHANGED <<homework, used, student, feedback, files, report, history>>, Aside
      PROVE  DataOK'
  <2>1. sent' \in [Homeworks \X Classes -> Opt(Sent)]
    BY <1>1, <1>5 DEF DataOK
  <2> QED
    BY <1>1, <1>5, <2>1 DEF DataOK, Aside, history
<1>6. sent[Pub(w)] \in Opt(Sent) \/ Pub(w) \notin DOMAIN sent
  BY <1>1 DEF DataOK
<1>7. CASE Close(w)
  <2>1. Aside
    BY <1>7, GotoAside DEF Close
  <2>2. Pub(w) \in Homeworks \X Classes
    BY <1>1, <1>7 DEF Close, Fits, OfClass, Pub
  <2> DEFINE new == IF sent[Pub(w)] = Absent THEN Absent ELSE [sent[Pub(w)] EXCEPT !.closed = TRUE]
  <2>3. new \in Opt(Sent)
    <3>1. CASE sent[Pub(w)] = Absent
      BY <3>1 DEF Opt
    <3>2. CASE sent[Pub(w)] # Absent
      <4>1. sent[Pub(w)] \in Sent
        BY <1>1, <2>2, <3>2 DEF DataOK, Opt
      <4>2. [sent[Pub(w)] EXCEPT !.closed = TRUE] \in Sent
        BY <2>2, <4>1 DEF Sent, Opt
      <4> QED
        BY <3>2, <4>2 DEF Opt
    <3> QED
      BY <3>1, <3>2
  <2>4. sent' = [sent EXCEPT ![Pub(w)] = new]
    BY <1>7 DEF Close
  <2> QED
    BY <1>5, <1>7, <2>1, <2>3, <2>4 DEF Close
<1>8. CASE Header(w) /\ ~ReadsNothing(w)
  <2>1. Aside
    BY <1>8, GotoAside DEF Header
  <2>2. report' \in [Tables -> Nat]
    BY <1>1, <1>8 DEF Header, DataOK
  <2>3. UNCHANGED <<tables, files, history>>
    BY <1>8 DEF Header
  <2> QED
    BY <1>1, <2>1, <2>2, <2>3 DEF DataOK, Aside, tables, history
<1>9. CASE WriteRow(w) /\ ~ReadsNothing(w)
  <2>1. Aside
    BY <1>9, GotoAside DEF WriteRow
  <2>2. report' \in [Tables -> Nat]
    BY <1>1, <1>9 DEF WriteRow, DataOK
  <2>3. UNCHANGED <<tables, files, history>>
    BY <1>9 DEF WriteRow
  <2> QED
    BY <1>1, <2>1, <2>2, <2>3 DEF DataOK, Aside, tables, history
<1>10. CASE SavePath(w)
  <2>1. Aside
    BY <1>10, GotoAside DEF SavePath
  <2>2. Pub(w) \in Homeworks \X Classes /\ job[w].table \in Tables
    BY <1>1, <1>10 DEF SavePath, Fits, OfClass, OfTable, Pub
  <2> DEFINE new == IF sent[Pub(w)] = Absent THEN Absent
                    ELSE [sent[Pub(w)] EXCEPT !.report = job[w].table]
  <2>3. new \in Opt(Sent)
    <3>1. CASE sent[Pub(w)] = Absent
      BY <3>1 DEF Opt
    <3>2. CASE sent[Pub(w)] # Absent
      <4>1. sent[Pub(w)] \in Sent
        BY <1>1, <2>2, <3>2 DEF DataOK, Opt
      <4>2. [sent[Pub(w)] EXCEPT !.report = job[w].table] \in Sent
        BY <2>2, <4>1 DEF Sent, Opt
      <4> QED
        BY <3>2, <4>2 DEF Opt
    <3> QED
      BY <3>1, <3>2
  <2>4. sent' = [sent EXCEPT ![Pub(w)] = new]
    BY <1>10 DEF SavePath
  <2> QED
    BY <1>5, <1>10, <2>1, <2>3, <2>4 DEF SavePath
<1> QED
  BY <1>1, <1>2, <1>3, <1>4, <1>7, <1>8, <1>9, <1>10, <1>11, FailsData DEF Check

LEMMA NextData ==
  ASSUME Typed, [Next]_vars
  PROVE  DataOK'
<1>1. DataOK
  BY DEF Typed
<1>2. ASSUME NEW r \in Homeworks \X Students, Mark(r) PROVE DataOK'
  <2>1. student[r] \in Answered
    BY <1>1, <1>2 DEF Mark, DataOK, Opt
  <2>2. [student[r] EXCEPT !.marked = TRUE] \in Answered
    BY <2>1 DEF Answered
  <2>3. student' = [student EXCEPT ![r] = [student[r] EXCEPT !.marked = TRUE]]
    BY <1>2 DEF Mark
  <2>4. student' \in [Homeworks \X Students -> Opt(Answered)]
    BY <1>1, <2>2, <2>3 DEF DataOK, Opt
  <2> QED
    BY <1>1, <1>2, <2>4 DEF Mark, DataOK, history
<1>3. CASE UNCHANGED vars
  BY <1>1, <1>3 DEF vars, DataOK, tables, history
<1> QED
  BY <1>2, <1>3, SubmitData, AmendData, DropData, PublishData, MoveData, WithdrawData,
     HandInData, CheckData DEF Next, Operation

-----------------------------------------------------------------------------
(* Who moves, and what a step leaves alone *)

Others(w)   == \A v \in Workers \ {w} : pc'[v] = pc[v] /\ job'[v] = job[v]
At(w, l, j) == pc'[w] = l /\ job'[w] = j
Stays(w)    == pc'[w] = pc[w] /\ job'[w] = job[w]

Watched     == <<sent, student, feedback, report, dropped, misread>>

LEMMA GotoAt ==
  ASSUME JobsOK, NEW w \in Workers, NEW l, NEW j, Goto(w, l, j)
  PROVE  Others(w) /\ At(w, l, j)
BY DEF JobsOK, Goto, Others, At

LEMMA RequestAt ==
  ASSUME JobsOK, NEW w \in Workers, NEW op, NEW l, NEW j, Request(w, op, l, j)
  PROVE  Others(w) /\ At(w, l, j) /\ UNCHANGED Watched
BY DEF JobsOK, Request, Others, At, Watched, tables, history

\* A step after which the acting thread is at no statement that relies on the tables and
\* which changes none of those the theorems are about.
Relying  == {"read", "fill", "rows", "count", "choice", "score", "close", "header"}
Quiet(w) == Others(w) /\ (Stays(w) \/ pc'[w] \notin Relying) /\ UNCHANGED Watched

LEMMA GotoQuiet ==
  ASSUME JobsOK, NEW w \in Workers, NEW l, l \notin Relying, NEW j,
         Goto(w, l, j), UNCHANGED Watched
  PROVE  Quiet(w)
BY GotoAt DEF Quiet, At

LEMMA EndQuiet ==
  ASSUME JobsOK, NEW w \in Workers, End(w), UNCHANGED Watched
  PROVE  Quiet(w)
BY GotoQuiet DEF End, Relying

LEMMA RequestQuiet ==
  ASSUME JobsOK, NEW w \in Workers, NEW op, NEW l, l \notin Relying, NEW j, Request(w, op, l, j)
  PROVE  Quiet(w)
BY RequestAt DEF Quiet, At

LEMMA FailsQuiet ==
  ASSUME JobsOK, NEW w \in Workers, Fails(w) \/ ReadsNothing(w)
  PROVE  Quiet(w)
<1>1. UNCHANGED Watched
  BY DEF Fails, ReadsNothing, Watched, tables, history
<1>2. CASE End(w)
  BY <1>1, <1>2, EndQuiet
<1>3. CASE UNCHANGED <<pc, job>>
  BY <1>1, <1>3 DEF Quiet, Others, Stays
<1> QED
  BY <1>2, <1>3 DEF Fails, ReadsNothing

\* Homework is submitted, amended and dropped apart from its publications.
LEMMA HomeworkQuiet ==
  ASSUME JobsOK, NEW w \in Workers, Submit(w) \/ Amend(w) \/ Drop(w)
  PROVE  Quiet(w)
<1>1. {"write", "insert", "name", "rename", "renamed", "content", "rewrite", "path", "repath",
       "text", "rm", "dropRow", "idle"} \intersect Relying = {}
  BY DEF Relying
<1>2. CASE AskSubmit(w) \/ AskAmend(w) \/ AskDrop(w)
  BY <1>1, <1>2, RequestQuiet DEF AskSubmit, AskAmend, AskDrop
<1>3. CASE WriteText(w) \/ InsertHomework(w)
  BY <1>1, <1>3, GotoQuiet, EndQuiet DEF WriteText, InsertHomework, Step, Watched, tables, history
<1>4. CASE Skip(w)
  BY <1>1, <1>4, GotoQuiet, EndQuiet DEF Skip, Step, Watched, tables, history
<1>5. ASSUME NEW ch, NEW l \in {"rename", "rewrite", "repath"}, SelectText(w, ch, l)
      PROVE  Quiet(w)
  BY <1>1, <1>5, GotoQuiet, FailsQuiet DEF SelectText, Watched, tables, history
<1>6. CASE Rename(w) \/ UpdateName(w) \/ Rewrite(w) \/ UpdatePath(w)
  BY <1>1, <1>6, GotoQuiet, EndQuiet DEF Rename, UpdateName, Rewrite, UpdatePath, Step, Watched, tables, history
<1>7. CASE FindText(w)
  BY <1>1, <1>7, GotoQuiet, FailsQuiet DEF FindText, Watched, tables, history
<1>8. CASE RemoveText(w) \/ DropRow(w)
  BY <1>1, <1>8, GotoQuiet, EndQuiet DEF RemoveText, DropRow, Step, Watched, tables, history
<1> QED
  BY <1>2, <1>3, <1>4, <1>5, <1>6, <1>7, <1>8, FailsQuiet DEF Submit, Amend, Drop

LEMMA PublishSteps ==
  ASSUME JobsOK, NEW w \in Workers, Publish(w)
  PROVE  \/ Quiet(w) \/ CreateTable(w) \/ FillTable(w) \/ InsertSent(w) \/ Enrol(w)
         \/ ReadTitles(w) /\ ~Quiet(w)
<1>1. {"titles", "create"} \intersect Relying = {}
  BY DEF Relying
<1>2. CASE AskPublish(w)
  BY <1>1, <1>2, RequestQuiet DEF AskPublish
<1>3. CASE SelectTitles(w)
  BY <1>1, <1>3, GotoQuiet DEF SelectTitles, Watched, tables, history
<1> QED
  BY <1>2, <1>3, FailsQuiet DEF Publish

LEMMA MoveSteps ==
  ASSUME JobsOK, NEW w \in Workers, Move(w)
  PROVE  Quiet(w) \/ MoveSent(w)
<1>1. "move" \notin Relying
  BY DEF Relying
<1> QED
  BY <1>1, RequestQuiet, FailsQuiet DEF Move, AskMove

LEMMA WithdrawSteps ==
  ASSUME JobsOK, NEW w \in Workers, Withdraw(w)
  PROVE  Quiet(w) \/ DropTable(w) \/ DeleteSent(w)
<1>1. {"table", "dropTable"} \intersect Relying = {}
  BY DEF Relying
<1>2. CASE AskWithdraw(w)
  BY <1>1, <1>2, RequestQuiet DEF AskWithdraw
<1>3. CASE FindTable(w)
  BY <1>1, <1>3, GotoQuiet, FailsQuiet DEF FindTable, Watched, tables, history
<1> QED
  BY <1>2, <1>3, FailsQuiet DEF Withdraw

LEMMA HandInSteps ==
  ASSUME JobsOK, NEW w \in Workers, HandIn(w)
  PROVE  Quiet(w) \/ SaveAnswer(w) \/ (FindCounters(w) /\ ~Quiet(w)) \/ Count(w)
<1>1. {"standard", "answer"} \intersect Relying = {}
  BY DEF Relying
<1>2. CASE AskHandIn(w)
  BY <1>1, <1>2, RequestQuiet DEF AskHandIn
<1>3. CASE FindStandard(w)
  BY <1>1, <1>3, GotoQuiet, FailsQuiet DEF FindStandard, Watched, tables, history
<1> QED
  BY <1>2, <1>3, FailsQuiet DEF HandIn

\* Passing a count that is not there is a failure.
LEMMA CheckSteps ==
  ASSUME JobsOK, NEW w \in Workers, Check(w)
  PROVE  \/ Quiet(w) \/ AskScores(w) \/ (SelectChoice(w) /\ ~Quiet(w)) \/ SaveScore(w)
         \/ CheckCount(w) /\ At(w, "close", job[w]) /\ Others(w)
         \/ Close(w)
         \/ Header(w)   /\ ~Quiet(w)
         \/ WriteRow(w) /\ ~Quiet(w)
         \/ SavePath(w)
<1>1. CASE CheckCount(w)
  <2>1. CASE Step(w, "close")
    BY <1>1, <2>1, GotoAt DEF Step
  <2>2. CASE End(w)
    BY <1>1, <2>2, EndQuiet DEF CheckCount, Watched, tables, history
  <2> QED
    BY <1>1, <2>1, <2>2, FailsQuiet DEF CheckCount
<1> QED
  BY <1>1, FailsQuiet DEF Check

\* Every step, by what it does to the tables the theorems are about.
Busy(w) ==
  \/ CreateTable(w) \/ (ReadTitles(w) /\ ~Quiet(w)) \/ FillTable(w) \/ InsertSent(w) \/ Enrol(w)
  \/ MoveSent(w) \/ DropTable(w) \/ DeleteSent(w)
  \/ SaveAnswer(w) \/ (FindCounters(w) /\ ~Quiet(w)) \/ Count(w)
  \/ AskScores(w) \/ (SelectChoice(w) /\ ~Quiet(w)) \/ SaveScore(w)
  \/ CheckCount(w) /\ At(w, "close", job[w]) /\ Others(w)
  \/ Close(w) \/ (Header(w) /\ ~Quiet(w)) \/ (WriteRow(w) /\ ~Quiet(w)) \/ SavePath(w)

\* What the steps that may also read nothing do when they do not.
LEMMA ReadMoves ==
  ASSUME JobsOK, NEW w \in Workers, ~Quiet(w)
  PROVE  /\ ReadTitles(w) => /\ UNCHANGED Watched /\ pc[w] = "read"
                             /\ \E k : Goto(w, "fill", [job[w] EXCEPT !.titles = k])
         /\ FindCounters(w) =>
              /\ UNCHANGED Watched /\ pc[w] = "counters" /\ sent[Pub(w)] # Absent
              /\ Goto(w, "count", [job[w] EXCEPT !.table = sent[Pub(w)].table, !.i = 1])
         /\ SelectChoice(w) =>
              /\ UNCHANGED <<tables, files, report, dropped, astray, repathed>> /\ pc[w] = "choice"
              /\ \E s \in job[w].todo : \E k \in ChoiceRead(<<job[w].h, s>>) :
                   /\ Goto(w, "score", [job[w] EXCEPT !.s = s, !.todo = @ \ {s}, !.score = k])
                   /\ misread' = misread \union (IF student[<<job[w].h, s>>] = Absent
                                                 THEN {<<job[w].h, s>>} ELSE {})
<1>1. ~ReadsNothing(w)
  BY FailsQuiet
<1>2. ReadTitles(w) => /\ UNCHANGED Watched /\ pc[w] = "read"
                       /\ \E k : Goto(w, "fill", [job[w] EXCEPT !.titles = k])
  BY <1>1 DEF ReadTitles, Watched, tables, history
<1>3. FindCounters(w) =>
        /\ UNCHANGED Watched /\ pc[w] = "counters" /\ sent[Pub(w)] # Absent
        /\ Goto(w, "count", [job[w] EXCEPT !.table = sent[Pub(w)].table, !.i = 1])
  BY <1>1 DEF FindCounters, Watched, tables, history
<1>4. ASSUME SelectChoice(w)
      PROVE  \E s \in job[w].todo :
               /\ UNCHANGED <<tables, files, report, dropped, astray, repathed>> /\ pc[w] = "choice"
               /\ \E k \in ChoiceRead(<<job[w].h, s>>) :
                    Goto(w, "score", [job[w] EXCEPT !.s = s, !.todo = @ \ {s}, !.score = k])
               /\ misread' = misread \union (IF student[<<job[w].h, s>>] = Absent
                                             THEN {<<job[w].h, s>>} ELSE {})
  BY <1>1, <1>4, Zenon DEF SelectChoice
<1> QED
  BY <1>2, <1>3, <1>4, Zenon

LEMMA StepCases ==
  ASSUME JobsOK, [Next]_vars
  PROVE  \/ \E w \in Workers : Quiet(w) \/ Busy(w)
         \/ \E r \in Homeworks \X Students : Mark(r)
         \/ UNCHANGED vars
BY HomeworkQuiet, PublishSteps, MoveSteps, WithdrawSteps, HandInSteps, CheckSteps
   DEF Next, Operation, Busy

-----------------------------------------------------------------------------
(* The rows of StudentHomework *)

\* A row stays, with its class, its choice score once there is one, and scored once it is.
RowStays(r) ==
  student[r] # Absent =>
    /\ student'[r] # Absent /\ student'[r].class = student[r].class
    /\ student[r].scored => student'[r].scored
    /\ student[r].choice # Absent => student'[r].choice # Absent

LEMMA AbsentIsNone == Absent \notin Answered /\ Absent \notin Nat
  BY DataAssumption

\* One row, if it is there, changes to another row.
LEMMA RowsAfterUpdate ==
  ASSUME DataOK, NEW r \in Homeworks \X Students, NEW new,
         student' = [student EXCEPT ![r] = new],
         student[r] # Absent =>
           /\ new \in Answered /\ new.class = student[r].class
           /\ student[r].scored => new.scored
           /\ student[r].choice # Absent => new.choice # Absent
  PROVE  \A x \in Homeworks \X Students : RowStays(x)
BY AbsentIsNone DEF DataOK, RowStays

LEMMA StudentSteps ==
  ASSUME JobsOK, [Next]_vars
  PROVE  \/ UNCHANGED student
         \/ \E w \in Workers : Enrol(w) \/ SaveAnswer(w) \/ SaveScore(w)
         \/ \E r \in Homeworks \X Students : Mark(r)
<1>1. ASSUME NEW w \in Workers, Quiet(w) \/ Busy(w)
      PROVE  Enrol(w) \/ SaveAnswer(w) \/ SaveScore(w) \/ UNCHANGED student
  BY <1>1, ReadMoves DEF Quiet, Busy, Watched, CreateTable, FillTable, InsertSent, MoveSent,
     DropTable, DeleteSent, Count, AskScores, CheckCount, Close, Header, WriteRow, ReadsNothing,
     Fails, SavePath, Request, tables
<1> QED
  BY <1>1, StepCases DEF vars, tables

LEMMA RowsStay ==
  ASSUME Typed, [Next]_vars
  PROVE  \A r \in Homeworks \X Students : RowStays(r)
<1>1. JobsOK /\ DataOK
  BY DEF Typed
<1>2. CASE UNCHANGED student
  BY <1>2 DEF RowStays
<1>3. ASSUME NEW w \in Workers, Enrol(w)
      PROVE  \A r \in Homeworks \X Students : RowStays(r)
  BY <1>1, <1>3 DEF Enrol, DataOK, RowStays
<1>4. ASSUME NEW w \in Workers, SaveAnswer(w)
      PROVE  \A r \in Homeworks \X Students : RowStays(r)
  <2>1. Row(w) \in Homeworks \X Students /\ job[w].score \in Nat
    BY <1>1, <1>4, AtWork DEF SaveAnswer, Fits, Row
  <2> DEFINE new == IF student[Row(w)] = Absent THEN Absent
                    ELSE [student[Row(w)] EXCEPT !.choice = job[w].score]
  <2>2. ASSUME student[Row(w)] # Absent
        PROVE  /\ new \in Answered /\ new.class = student[Row(w)].class
               /\ new.scored = student[Row(w)].scored /\ new.choice = job[w].score
    <3>1. student[Row(w)] \in Answered
      BY <1>1, <2>1, <2>2 DEF DataOK, Opt
    <3> QED
      BY <2>1, <2>2, <3>1 DEF Answered, Opt
  <2>3. student' = [student EXCEPT ![Row(w)] = new]
    BY <1>4 DEF SaveAnswer
  <2>4. job[w].score # Absent
    BY <2>1, AbsentIsNone
  <2> HIDE DEF new
  <2> QED
    BY <1>1, <2>1, <2>2, <2>3, <2>4, RowsAfterUpdate
<1>5. ASSUME NEW w \in Workers, SaveScore(w)
      PROVE  \A r \in Homeworks \X Students : RowStays(r)
  <2> DEFINE new == Scored(student[Row(w)], job[w].score)
  <2>1. Row(w) \in Homeworks \X Students /\ job[w].score \in Opt(Nat)
    BY <1>1, <1>5, AtWork DEF SaveScore, Fits, Row, Jobs
  <2>2. student[Row(w)] \in Opt(Answered)
    BY <1>1, <2>1 DEF DataOK
  <2>3. student' = [student EXCEPT ![Row(w)] = new]
    BY <1>5 DEF SaveScore
  <2> HIDE DEF new
  <2>4. student[Row(w)] # Absent =>
          /\ new \in Answered /\ new.class = student[Row(w)].class
          /\ new.scored /\ new.choice = student[Row(w)].choice
    BY <2>1, <2>2, ScoredType DEF new
  <2> QED
    BY <1>1, <2>1, <2>3, <2>4, RowsAfterUpdate
<1>6. ASSUME NEW r \in Homeworks \X Students, Mark(r)
      PROVE  \A x \in Homeworks \X Students : RowStays(x)
  <2> DEFINE new == [student[r] EXCEPT !.marked = TRUE]
  <2>1. student[r] \in Answered /\ student[r] # Absent
    BY <1>1, <1>6 DEF Mark, DataOK, Opt
  <2>2. new \in Answered /\ new.class = student[r].class /\ new.scored = student[r].scored /\ new.choice = student[r].choice
    BY <2>1 DEF Answered
  <2>3. student' = [student EXCEPT ![r] = new]
    BY <1>6 DEF Mark
  <2> HIDE DEF new
  <2> QED
    BY <1>1, <2>1, <2>2, <2>3, RowsAfterUpdate
<1> QED
  BY <1>1, <1>2, <1>3, <1>4, <1>5, <1>6, StudentSteps

\* A thread comes to a statement that relies on the tables by its own steps only.
LEMMA OwnSteps ==
  ASSUME JobsOK, [Next]_vars, NEW v \in Workers
  PROVE  \/ Stays(v) \/ pc'[v] \notin Relying
         \/ CreateTable(v) \/ (ReadTitles(v) /\ ~Quiet(v)) \/ FillTable(v)
         \/ AskScores(v) \/ (SelectChoice(v) /\ ~Quiet(v)) \/ SaveScore(v)
         \/ ((FindCounters(v) /\ ~Quiet(v)) \/ Count(v)) /\ pc'[v] = "count"
         \/ CheckCount(v) /\ At(v, "close", job[v])
         \/ Close(v) /\ At(v, "header", job[v])
         \/ (Header(v) \/ WriteRow(v)) /\ ~Quiet(v)
<1>1. ASSUME NEW w \in Workers, Busy(w), w # v PROVE Stays(v)
  <2>1. CASE AskScores(w)
    BY <1>1, <2>1, RequestAt DEF AskScores, Others, Stays
  <2>2. CASE CheckCount(w) /\ At(w, "close", job[w]) /\ Others(w)
    BY <1>1, <2>2 DEF Others, Stays
  <2>3. CASE \E l, j : Goto(w, l, j)
    BY <1>1, <2>3, GotoAt DEF Others, Stays
  <2>4. CASE (Header(w) \/ WriteRow(w)) /\ ~Quiet(w)
    BY <2>3, <2>4, FailsQuiet DEF Header, WriteRow
  <2>5. CASE (ReadTitles(w) \/ FindCounters(w) \/ SelectChoice(w)) /\ ~Quiet(w)
    <3>1. \E l, j : Goto(w, l, j)
      BY <2>5, ReadMoves
    <3> QED
      BY <2>3, <3>1
  <2>6. CASE CreateTable(w) \/ FillTable(w) \/ InsertSent(w) \/ Enrol(w) \/ MoveSent(w)
             \/ DropTable(w) \/ DeleteSent(w) \/ SaveAnswer(w) \/ Count(w)
             \/ SaveScore(w) \/ Close(w) \/ SavePath(w)
    BY <2>3, <2>6 DEF CreateTable, FillTable, InsertSent, Enrol, MoveSent, DropTable, DeleteSent,
       SaveAnswer, Count, SaveScore, Close, SavePath, Step, End
  <2> QED
    BY <1>1, <2>1, <2>2, <2>4, <2>5, <2>6 DEF Busy
<1>2. CASE InsertSent(v) \/ Enrol(v) \/ MoveSent(v) \/ DropTable(v) \/ DeleteSent(v)
           \/ SaveAnswer(v) \/ SavePath(v)
  <2>1. PICK l \in Labels \ Relying : \E j : Goto(v, l, j)
    BY <1>2 DEF InsertSent, Enrol, MoveSent, DropTable, DeleteSent, SaveAnswer,
       SavePath, Step, End, Labels, Relying
  <2> QED
    BY <2>1, GotoAt DEF At
<1>3. ASSUME NEW w \in Workers, Quiet(w) PROVE Stays(v) \/ pc'[v] \notin Relying
  BY <1>3 DEF Quiet, Others, Stays
<1>4. CASE (\E r \in Homeworks \X Students : Mark(r)) \/ UNCHANGED vars
  BY <1>4 DEF Mark, vars, Stays
<1>5. CASE Close(v)
  BY <1>5, GotoAt DEF Close, Step
<1>6. CASE (FindCounters(v) /\ ~Quiet(v)) \/ Count(v)
  <2>1. \E j : Goto(v, "count", j)
    BY <1>6, ReadMoves DEF Count
  <2> QED
    BY <1>6, <2>1, GotoAt DEF At
<1> QED
  BY <1>1, <1>2, <1>3, <1>4, <1>5, <1>6, StepCases DEF Busy

LEMMA TypedNext ==
  ASSUME Typed, [Next]_vars
  PROVE  Typed'
BY NextFits, NextData DEF Typed

LEMMA InitTyped ==
  ASSUME Init
  PROVE  Typed
<1>1. "idle" \in Labels
  BY DEF Labels
<1>2. JobsOK
  BY <1>1, NoJobFits DEF Init, JobsOK
<1>3. DataOK
  <2>1. homework \in [Homeworks -> Opt(Texts)]
    BY DataAssumption DEF Init
  <2>2. left \in [Operations -> Nat]
    <3>1. homework \in Stored /\ left \in Budgets[homework]
      BY DEF Init
    <3>2. Budgets[homework] \subseteq [Operations -> Nat]
      BY <3>1, DataAssumption
    <3> QED
      BY <3>1, <3>2
  <2>3. files \subseteq Texts
    BY <2>1 DEF Init, Opt
  <2> QED
    BY <2>1, <2>2, <2>3 DEF Init, DataOK, Opt
<1> QED
  BY <1>2, <1>3 DEF Typed

\* Every variable keeps its type: no operation reads a job's variable before it sets it,
\* and an update of a row that is not there leaves none behind, whatever other operations
\* do meanwhile.
THEOREM TypeCorrect == Spec => []TypeOK
<1>1. Typed => TypeOK
  BY DEF Typed, JobsOK, DataOK, TypeOK
<1> QED
  BY <1>1, InitTyped, TypedNext, PTL DEF Spec

-----------------------------------------------------------------------------
(* Scores: what the thread that stores them knows *)

Done(h, s) == <<h, s>> \in misread \/ (student[<<h, s>>] # Absent /\ student[<<h, s>>].scored)

\* Every student of the request is still to come, in hand or done; the one in hand has the
\* choice score that was read, or had no row when it was.
Scoring(w) ==
  /\ pc[w] \in {"choice", "score", "close", "header", "rows"} =>
       \A s \in job[w].named :
         s \in job[w].todo \/ (pc[w] = "score" /\ s = job[w].s) \/ Done(job[w].h, s)
  /\ pc[w] \in {"close", "header", "rows"} => job[w].todo = {}
  /\ pc[w] = "score" =>
       \/ Row(w) \in misread
       \/ /\ student[Row(w)] # Absent
          /\ job[w].score # Absent => student[Row(w)].choice # Absent

ScoresInv == Typed /\ (\A w \in Workers : Scoring(w)) /\ TotalIsOwn

LEMMA MisreadGrows ==
  ASSUME Typed, [Next]_vars
  PROVE  misread \subseteq misread'
<1>1. JobsOK
  BY DEF Typed
<1>2. ASSUME NEW w \in Workers, Quiet(w) \/ Busy(w)
      PROVE  misread \subseteq misread'
  BY <1>1, <1>2, ReadMoves, FailsQuiet DEF Quiet, Busy, Watched, CreateTable, FillTable,
     InsertSent, Enrol, MoveSent, DropTable, DeleteSent, SaveAnswer, Count, AskScores, SaveScore,
     CheckCount, Close, Header, WriteRow, ReadsNothing, Fails, SavePath, Request, history
<1> QED
  BY <1>1, <1>2, StepCases DEF Mark, vars, history

LEMMA DoneStays ==
  ASSUME Typed, [Next]_vars, NEW h \in Homeworks, NEW s \in Students, Done(h, s)
  PROVE  Done(h, s)'
BY RowsStay, MisreadGrows DEF Done, RowStays

\* A thread that knows as much of its request as before.
LEMMA ScoringKept ==
  ASSUME Typed, [Next]_vars, NEW v \in Workers, Scoring(v),
         pc[v] \in {"choice", "close", "header", "rows"},
         pc'[v] \in {"choice", "close", "header", "rows"},
         job'[v].h = job[v].h, job'[v].named = job[v].named, job'[v].todo = job[v].todo,
         pc'[v] # "choice" => job[v].todo = {}
  PROVE  Scoring(v)'
<1>1. job[v].h \in Homeworks /\ job[v].named \subseteq Students
  BY AtWork DEF Typed, Fits, Jobs
<1>2. \A s \in job[v].named : s \in job[v].todo \/ Done(job[v].h, s)'
  BY <1>1, DoneStays DEF Scoring
<1> QED
  BY <1>2 DEF Scoring, Done

LEMMA ScoringNext ==
  ASSUME Typed, [Next]_vars, NEW v \in Workers, Scoring(v)
  PROVE  Scoring(v)'
<1>1. JobsOK /\ DataOK /\ job[v] \in Jobs /\ Fits(pc[v], job[v])
  BY AtWork DEF Typed
<1>2. CASE Stays(v)
  <2>1. CASE pc[v] = "score"
    <3>1. /\ job[v].h \in Homeworks /\ job[v].named \subseteq Students
          /\ Row(v) \in Homeworks \X Students
      BY <1>1, <2>1 DEF Fits, Jobs, Row
    <3>2. \A s \in job[v].named :
            s \in job[v].todo \/ s = job[v].s \/ Done(job[v].h, s)'
      BY <1>2, <2>1, <3>1, DoneStays DEF Scoring, Stays
    <3>3. \/ Row(v) \in misread'
          \/ /\ student'[Row(v)] # Absent
             /\ job[v].score # Absent => student'[Row(v)].choice # Absent
      BY <2>1, <3>1, RowsStay, MisreadGrows DEF Scoring, RowStays
    <3> QED
      BY <1>2, <2>1, <3>2, <3>3 DEF Scoring, Stays, Done, Row
  <2>2. CASE pc[v] \in {"choice", "close", "header", "rows"}
    BY <1>2, <2>2, ScoringKept DEF Stays, Scoring
  <2> QED
    BY <1>2, <2>1, <2>2 DEF Scoring, Stays
<1>3. CASE pc'[v] \notin {"choice", "close", "header", "rows", "score"}
  BY <1>3 DEF Scoring
<1>4. CASE AskScores(v)
  <2>1. PICK p \in Homeworks \X Classes, S \in SUBSET Students :
          Request(v, "score", "choice",
             [NoJob EXCEPT !.h = p[1], !.c = p[2], !.named = S, !.todo = S])
    BY <1>4 DEF AskScores
  <2> DEFINE j == [NoJob EXCEPT !.h = p[1], !.c = p[2], !.named = S, !.todo = S]
  <2>2. At(v, "choice", j)
    BY <1>1, <2>1, RequestAt
  <2>3. j.named = S /\ j.todo = S
    BY DEF NoJob
  <2> QED
    BY <2>2, <2>3 DEF Scoring, At
<1>5. CASE SelectChoice(v) /\ ~Quiet(v)
  <2>0. PICK s \in job[v].todo : \E k \in ChoiceRead(<<job[v].h, s>>) :
          /\ UNCHANGED <<tables, files, report, dropped, astray, repathed>> /\ pc[v] = "choice"
          /\ Goto(v, "score", [job[v] EXCEPT !.s = s, !.todo = @ \ {s}, !.score = k])
          /\ misread' = misread \union (IF student[<<job[v].h, s>>] = Absent
                                        THEN {<<job[v].h, s>>} ELSE {})
    BY <1>1, <1>5, ReadMoves
  <2>1. PICK k \in ChoiceRead(<<job[v].h, s>>) :
          /\ UNCHANGED <<tables, files, report, dropped, astray, repathed>> /\ pc[v] = "choice"
          /\ Goto(v, "score", [job[v] EXCEPT !.s = s, !.todo = @ \ {s}, !.score = k])
          /\ misread' = misread \union (IF student[<<job[v].h, s>>] = Absent
                                        THEN {<<job[v].h, s>>} ELSE {})
    BY <2>0
  <2> DEFINE j == [job[v] EXCEPT !.s = s, !.todo = @ \ {s}, !.score = k]
  <2>2. At(v, "score", j)
    BY <1>1, <2>1, GotoAt
  <2>3. /\ j.h = job[v].h /\ j.s = s /\ j.score = k
        /\ j.named = job[v].named /\ j.todo = job[v].todo \ {s}
    BY <1>1 DEF Jobs
  <2>4. student' = student
    BY <2>1 DEF tables
  <2>5. job[v].h \in Homeworks /\ job[v].named \subseteq Students
    BY <1>1, <2>1 DEF Fits, Jobs
  <2>8. PICK h \in Homeworks : h = job[v].h
    BY <2>5
  <2>6. \A x \in job[v].named : x \in job[v].todo \/ Done(h, x)'
    BY <2>1, <2>5, <2>8, DoneStays DEF Scoring
  <2>7. \/ <<job[v].h, s>> \in misread'
        \/ student[<<job[v].h, s>>] # Absent /\ k = student[<<job[v].h, s>>].choice
    BY <2>1 DEF ChoiceRead
  <2> HIDE DEF j
  <2> QED
    BY <2>2, <2>3, <2>4, <2>6, <2>7, <2>8 DEF Scoring, Row, At, Done
<1>6. CASE SaveScore(v)
  <2>1. At(v, "choice", job[v]) /\ pc[v] = "score"
    BY <1>1, <1>6, GotoAt DEF SaveScore, Step
  <2>2. /\ Row(v) \in Homeworks \X Students /\ job[v].score \in Opt(Nat)
        /\ job[v].h \in Homeworks /\ job[v].named \subseteq Students
    BY <1>1, <2>1 DEF Fits, Row, Jobs
  <2>5. PICK h \in Homeworks : h = job[v].h
    BY <2>2
  <2>3. Done(h, job[v].s)'
    <3>1. CASE Row(v) \in misread
      BY <2>1, <2>5, <3>1, MisreadGrows DEF Done, Row, At
    <3>2. CASE student[Row(v)] # Absent
      <4>1. student'[Row(v)] = Scored(student[Row(v)], job[v].score)
        BY <1>1, <1>6, <2>2 DEF SaveScore, DataOK
      <4>2. student[Row(v)] \in Opt(Answered)
        BY <1>1, <2>2 DEF DataOK
      <4>3. student'[Row(v)] \in Answered /\ student'[Row(v)].scored
        BY <2>2, <3>2, <4>1, <4>2, ScoredType
      <4> QED
        BY <2>1, <2>5, <4>3, AbsentIsNone DEF Done, Row, At
    <3> QED
      BY <2>1, <3>1, <3>2 DEF Scoring
  <2>4. \A x \in job[v].named : x \in job[v].todo \/ Done(h, x)'
    BY <2>1, <2>2, <2>3, <2>5, DoneStays DEF Scoring, At
  <2> QED
    BY <2>1, <2>4, <2>5 DEF Scoring, At, Done
<1>7. CASE CheckCount(v) /\ At(v, "close", job[v])
  BY <1>7, ScoringKept DEF CheckCount, At
<1>8. CASE CreateTable(v) \/ FillTable(v) \/ (ReadTitles(v) /\ ~Quiet(v))
  <2>1. PICK l \in {"read", "fill"} : \E j : Goto(v, l, j)
    BY <1>1, <1>8, ReadMoves DEF CreateTable, FillTable
  <2> QED
    BY <1>1, <1>3, <2>1, GotoAt DEF At
<1>10. CASE Close(v) /\ At(v, "header", job[v])
  BY <1>10, ScoringKept DEF Close, At, Scoring
<1>11. CASE (Header(v) \/ WriteRow(v)) /\ ~Quiet(v)
  <2>1. CASE Header(v)
    <3>1. PICK t : Goto(v, "rows", [job[v] EXCEPT !.table = t, !.i = 1]) /\ pc[v] = "header"
      BY <1>1, <1>11, <2>1, FailsQuiet DEF Header
    <3>2. At(v, "rows", [job[v] EXCEPT !.table = t, !.i = 1])
      BY <1>1, <3>1, GotoAt
    <3>3. /\ pc'[v] = "rows" /\ job'[v].h = job[v].h
          /\ job'[v].named = job[v].named /\ job'[v].todo = job[v].todo
      BY <1>1, <3>2 DEF At, Jobs
    <3> QED
      BY <3>1, <3>3, ScoringKept DEF Scoring
  <2>2. CASE WriteRow(v)
    <3>1. Goto(v, "rows", [job[v] EXCEPT !.i = @ + 1]) /\ pc[v] = "rows"
      BY <1>1, <1>11, <2>2, FailsQuiet DEF WriteRow
    <3>2. At(v, "rows", [job[v] EXCEPT !.i = @ + 1])
      BY <1>1, <3>1, GotoAt
    <3>3. /\ pc'[v] = "rows" /\ job'[v].h = job[v].h
          /\ job'[v].named = job[v].named /\ job'[v].todo = job[v].todo
      BY <1>1, <3>2 DEF At, Jobs
    <3> QED
      BY <3>1, <3>3, ScoringKept DEF Scoring
  <2> QED
    BY <1>11, <2>1, <2>2
<1> QED
  BY <1>1, <1>2, <1>3, <1>4, <1>5, <1>6, <1>7, <1>8, <1>10, <1>11, OwnSteps DEF Relying

\* What a step does to the publications, the table a row keeps apart.
LEMMA SentSteps ==
  ASSUME JobsOK, [Next]_vars
  PROVE  \/ UNCHANGED sent
         \/ \E w \in Workers :
              InsertSent(w) \/ MoveSent(w) \/ DeleteSent(w) \/ Close(w) \/ SavePath(w)
<1>1. ASSUME NEW w \in Workers, Quiet(w) \/ Busy(w)
      PROVE  UNCHANGED sent \/ InsertSent(w) \/ MoveSent(w) \/ DeleteSent(w) \/ Close(w) \/ SavePath(w)
  BY <1>1, ReadMoves DEF Quiet, Busy, Watched, CreateTable, FillTable, Enrol, DropTable,
     SaveAnswer, Count, AskScores, SaveScore, CheckCount, Header, WriteRow, ReadsNothing, Fails,
     Request, tables
<1> QED
  BY <1>1, StepCases DEF Mark, vars, tables

\* What a row has of TotalIsOwn.
OwnTotal(row) == row # Absent /\ row.counted # Absent => row.choice # Absent

LEMMA TotalNext ==
  ASSUME Typed, [Next]_vars, \A w \in Workers : Scoring(w), TotalIsOwn
  PROVE  TotalIsOwn'
<1>1. JobsOK /\ DataOK
  BY DEF Typed
<1>2. SUFFICES ASSUME NEW r \in Homeworks \X Students, r \notin misread
               PROVE  OwnTotal(student'[r])
  <2>1. DOMAIN student' = Homeworks \X Students
    BY TypedNext DEF Typed, DataOK
  <2> QED
    BY <1>2, <2>1, MisreadGrows DEF TotalIsOwn, OwnTotal
<1>3. OwnTotal(student[r])
  BY <1>1, <1>2 DEF TotalIsOwn, OwnTotal, DataOK
<1>4. ASSUME NEW w \in Workers, Enrol(w) PROVE OwnTotal(student'[r])
  BY <1>1, <1>3, <1>4 DEF Enrol, OwnTotal, DataOK
<1>5. ASSUME NEW w \in Workers, SaveAnswer(w) PROVE OwnTotal(student'[r])
  <2>1. CASE r = Row(w) /\ student[r] # Absent
    <3>1. job[w].score \in Nat /\ student[r] \in Answered
      BY <1>1, <1>5, <2>1, AtWork DEF SaveAnswer, Fits, DataOK, Opt
    <3>2. student'[r].choice = job[w].score
      BY <1>1, <1>5, <2>1, <3>1 DEF SaveAnswer, DataOK, Answered
    <3> QED
      BY <3>1, <3>2, AbsentIsNone DEF OwnTotal
  <2> QED
    BY <1>1, <1>3, <1>5, <2>1 DEF SaveAnswer, DataOK
<1>6. ASSUME NEW w \in Workers, SaveScore(w) PROVE OwnTotal(student'[r])
  <2>1. CASE r = Row(w) /\ student[r] # Absent
    <3>1. student[r] \in Opt(Answered) /\ pc[w] = "score" /\ job[w].score \in Opt(Nat)
      BY <1>1, <1>6, <2>1, AtWork DEF SaveScore, DataOK, Jobs
    <3>2. student'[r] = Scored(student[r], job[w].score)
      BY <1>1, <1>6, <2>1 DEF SaveScore, DataOK
    <3>3. student'[r].choice = student[r].choice /\ student'[r].counted = job[w].score
      BY <2>1, <3>1, <3>2, ScoredType
    <3> QED
      BY <1>2, <2>1, <3>1, <3>3 DEF OwnTotal, Scoring
  <2>2. CASE r = Row(w) /\ student[r] = Absent
    <3>1. student'[r] = Absent
      BY <1>1, <1>6, <2>2 DEF SaveScore, DataOK, Scored
    <3> QED
      BY <3>1 DEF OwnTotal
  <2> QED
    BY <1>1, <1>3, <1>6, <2>1, <2>2 DEF SaveScore, DataOK
<1>7. ASSUME NEW x \in Homeworks \X Students, Mark(x) PROVE OwnTotal(student'[r])
  <2>1. CASE r = x
    <3>1. student[r] \in Answered /\ student[r] # Absent
      BY <1>1, <1>7, <2>1 DEF Mark, DataOK, Opt
    <3>2. student'[r].choice = student[r].choice /\ student'[r].counted = student[r].counted
      BY <1>1, <1>7, <2>1, <3>1 DEF Mark, DataOK, Answered
    <3> QED
      BY <1>3, <3>1, <3>2 DEF OwnTotal
  <2> QED
    BY <1>1, <1>3, <1>7, <2>1 DEF Mark, DataOK
<1> QED
  BY <1>1, <1>3, <1>4, <1>5, <1>6, <1>7, StudentSteps

LEMMA InitScores ==
  ASSUME Init
  PROVE  ScoresInv
BY InitTyped DEF Init, ScoresInv, Scoring, TotalIsOwn

LEMMA ScoresNext ==
  ASSUME ScoresInv, [Next]_vars
  PROVE  ScoresInv'
BY TypedNext, ScoringNext, TotalNext DEF ScoresInv

\* A homework is closed and reported on only when every student the request named has a
\* score, whoever enrols, hands in, scores or withdraws meanwhile, but for those who did
\* not have the homework when their choice score was read.
THEOREM ScoresBeforeClose == Spec => []ScoredBeforeClose
<1>1. ScoresInv => ScoredBeforeClose
  BY DEF ScoresInv, Scoring, ScoredBeforeClose, Done
<1> QED
  BY <1>1, InitScores, ScoresNext, PTL DEF Spec

\* No total has a choice score in it that its student cannot have, although one variable
\* serves for all the students of a request.
THEOREM TotalsAreOwn == Spec => []TotalIsOwn
<1>1. ScoresInv => TotalIsOwn
  BY DEF ScoresInv
<1> QED
  BY <1>1, InitScores, ScoresNext, PTL DEF Spec

-----------------------------------------------------------------------------
(* Reports *)

\* The thread that writes a report knows how many rows are in it at least: another may
\* write to the same file.
Reporting(w) == pc[w] = "rows" => report[job[w].table] >= job[w].i

ReportsInv == Typed /\ (\A w \in Workers : Reporting(w)) /\ ReportComplete

LEMMA ReportGrows ==
  ASSUME Typed, [Next]_vars, NEW t \in Tables
  PROVE  report[t] \in Nat /\ report'[t] \in Nat /\ report'[t] >= report[t]
<1>1. JobsOK /\ DataOK /\ DataOK'
  BY TypedNext DEF Typed
<1>2. report[t] \in Nat /\ report'[t] \in Nat
  BY <1>1 DEF DataOK
<1>3. CASE UNCHANGED report
  BY <1>2, <1>3
<1>4. ASSUME NEW u, report' = [report EXCEPT ![u] = report[u] + 1] PROVE report'[t] >= report[t]
  BY <1>1, <1>2, <1>4 DEF DataOK
<1>5. ASSUME NEW w \in Workers, Header(w) \/ WriteRow(w) PROVE report'[t] >= report[t]
  <2>1. UNCHANGED report \/ \E u : report' = [report EXCEPT ![u] = report[u] + 1]
    BY <1>5, Zenon DEF Header, WriteRow, ReadsNothing, Fails
  <2> QED
    BY <1>2, <1>3, <1>4, <2>1
<1>6. ASSUME NEW w \in Workers, Quiet(w) \/ Busy(w)
      PROVE  UNCHANGED report \/ Header(w) \/ WriteRow(w)
  BY <1>1, <1>6, ReadMoves DEF Quiet, Busy, Watched, CreateTable, FillTable, InsertSent, Enrol,
     MoveSent, DropTable, DeleteSent, SaveAnswer, Count, AskScores, SaveScore, CheckCount,
     ReadsNothing, Fails, Close, SavePath, Request
<1> QED
  BY <1>1, <1>2, <1>3, <1>5, <1>6, StepCases DEF Mark, vars

LEMMA ReportingNext ==
  ASSUME Typed, [Next]_vars, NEW v \in Workers, Reporting(v)
  PROVE  Reporting(v)'
<1>1. JobsOK /\ DataOK /\ job[v] \in Jobs /\ Fits(pc[v], job[v])
  BY AtWork DEF Typed
<1>2. CASE Stays(v)
  <2>1. CASE pc[v] = "rows"
    <3>1. job[v].table \in Tables /\ job[v].i \in Nat
      BY <1>1, <2>1 DEF Fits, OfTable, Jobs
    <3> QED
      BY <1>2, <2>1, <3>1, ReportGrows DEF Reporting, Stays
  <2> QED
    BY <1>2, <2>1 DEF Reporting, Stays
<1>3. CASE pc'[v] # "rows"
  BY <1>3 DEF Reporting
<1>4. CASE Header(v) /\ ~Quiet(v)
  <2> DEFINE t == sent[Pub(v)].table
             j == [job[v] EXCEPT !.table = t, !.i = 1]
  <2>1. /\ sent[Pub(v)] # Absent /\ pc[v] = "header"
        /\ report' = [report EXCEPT ![t] = report[t] + 1]
        /\ Goto(v, "rows", j)
    BY <1>1, <1>4, FailsQuiet DEF Header
  <2>2. t \in Tables
    BY <1>1, <2>1 DEF DataOK, Pub, Fits, OfClass, Opt, Sent
  <2>3. At(v, "rows", j) /\ j.table = t /\ j.i = 1
    BY <1>1, <2>1, GotoAt DEF Jobs
  <2>4. report'[t] = report[t] + 1 /\ report[t] \in Nat
    BY <1>1, <2>1, <2>2 DEF DataOK
  <2> QED
    BY <2>3, <2>4 DEF Reporting, At
<1>5. CASE WriteRow(v) /\ ~Quiet(v)
  <2> DEFINE t == job[v].table
             j == [job[v] EXCEPT !.i = @ + 1]
  <2>1. /\ report' = [report EXCEPT ![t] = report[t] + 1] /\ pc[v] = "rows"
        /\ Goto(v, "rows", j)
    BY <1>1, <1>5, FailsQuiet DEF WriteRow
  <2>2. t \in Tables /\ job[v].i \in Nat
    BY <1>1, <2>1 DEF Fits, OfTable, Jobs
  <2>3. At(v, "rows", j) /\ j.table = t /\ j.i = job[v].i + 1
    BY <1>1, <2>1, GotoAt DEF Jobs
  <2>4. report'[t] = report[t] + 1 /\ report[t] \in Nat
    BY <1>1, <2>1, <2>2 DEF DataOK
  <2> QED
    BY <2>1, <2>2, <2>3, <2>4 DEF Reporting, At
<1>6. CASE \/ CreateTable(v) \/ FillTable(v) \/ SaveScore(v)
           \/ (ReadTitles(v) \/ SelectChoice(v)) /\ ~Quiet(v)
  <2>1. PICK l \in {"read", "fill", "choice", "score"} : \E j : Goto(v, l, j)
    BY <1>1, <1>6, ReadMoves DEF CreateTable, FillTable, SaveScore, Step
  <2> QED
    BY <1>1, <1>3, <2>1, GotoAt DEF At
<1>7. CASE AskScores(v)
  BY <1>1, <1>3, <1>7, RequestAt DEF AskScores, At
<1>8. CASE At(v, "close", job[v]) \/ At(v, "header", job[v])
  BY <1>3, <1>8 DEF At
<1> QED
  BY <1>1, <1>2, <1>3, <1>4, <1>5, <1>6, <1>7, <1>8, OwnSteps DEF Relying

LEMMA ReportCompleteNext ==
  ASSUME Typed, [Next]_vars, \A w \in Workers : Reporting(w), ReportComplete
  PROVE  ReportComplete'
<1>1. JobsOK /\ DataOK
  BY DEF Typed
<1> DEFINE Complete(row) == row.report # Absent => report[row.report] > Titles
<1>2. SUFFICES ASSUME NEW p \in Homeworks \X Classes, sent'[p] # Absent
               PROVE  Complete(sent'[p])
  <2>1. DataOK'
    BY TypedNext DEF Typed
  <2>2. ASSUME NEW q \in Homeworks \X Classes, sent'[q] # Absent, sent'[q].report # Absent
        PROVE  report'[sent'[q].report] > Titles
    <3>1. sent'[q].report \in Tables
      BY <2>1, <2>2 DEF DataOK, Opt, Sent
    <3> QED
      BY <1>2, <2>2, <3>1, ReportGrows, TitlesCount
  <2>3. DOMAIN sent' = Homeworks \X Classes
    BY <2>1 DEF DataOK
  <2> QED
    BY <2>2, <2>3 DEF ReportComplete
<1>3. \A q \in Homeworks \X Classes : sent[q] # Absent => Complete(sent[q]) /\ sent[q] \in Sent
  BY <1>1 DEF ReportComplete, DataOK, Opt
<1>4. CASE UNCHANGED sent
  BY <1>2, <1>3, <1>4
<1>5. ASSUME NEW w \in Workers, InsertSent(w) PROVE Complete(sent'[p])
  BY <1>1, <1>2, <1>3, <1>5 DEF InsertSent, DataOK
<1>6. ASSUME NEW w \in Workers, MoveSent(w) PROVE Complete(sent'[p])
  <2>1. Pub(w) \in Homeworks \X Classes
    BY <1>1, <1>6, AtWork DEF MoveSent, Fits, OfClass, Pub
  <2>2. sent'[p] = sent[p] \/ sent'[p] = sent[Pub(w)]
    BY <1>1, <1>2, <1>6, <2>1 DEF MoveSent, DataOK
  <2> QED
    BY <1>2, <1>3, <2>1, <2>2
<1>7. ASSUME NEW w \in Workers, DeleteSent(w) PROVE Complete(sent'[p])
  BY <1>1, <1>2, <1>3, <1>7 DEF DeleteSent, DataOK
<1>8. ASSUME NEW w \in Workers, Close(w) \/ SavePath(w) PROVE Complete(sent'[p])
  <2>1. CASE sent'[p] = sent[p]
    BY <1>2, <1>3, <2>1
  <2>2. CASE Close(w) /\ p = Pub(w)
    <3>1. sent[p] # Absent /\ sent'[p] = [sent[p] EXCEPT !.closed = TRUE]
      BY <1>1, <1>2, <2>2, Zenon DEF Close, DataOK
    <3>2. sent'[p].report = sent[p].report
      BY <1>3, <3>1 DEF Sent
    <3> QED
      BY <1>3, <3>1, <3>2
  <2>3. CASE SavePath(w) /\ p = Pub(w)
    <3>1. sent[p] # Absent /\ sent'[p] = [sent[p] EXCEPT !.report = job[w].table]
      BY <1>1, <1>2, <2>3, Zenon DEF SavePath, DataOK
    <3>2. sent'[p].report = job[w].table
      BY <1>3, <3>1 DEF Sent
    <3>3. /\ pc[w] = "rows" /\ job[w].i > Titles
          /\ job[w].i \in Nat /\ job[w].table \in Tables
      BY <1>1, <2>3, AtWork DEF SavePath, Fits, OfTable, Jobs
    <3>4. report[job[w].table] >= job[w].i /\ report[job[w].table] \in Nat
      BY <1>1, <3>3 DEF Reporting, DataOK
    <3> QED
      BY <3>2, <3>3, <3>4, TitlesCount
  <2> QED
    BY <1>1, <1>8, <2>1, <2>2, <2>3 DEF Close, SavePath, DataOK
<1> QED
  BY <1>1, <1>4, <1>5, <1>6, <1>7, <1>8, SentSteps

LEMMA InitReports ==
  ASSUME Init
  PROVE  ReportsInv
BY InitTyped DEF Init, ReportsInv, Reporting, ReportComplete

LEMMA ReportsNext ==
  ASSUME ReportsInv, [Next]_vars
  PROVE  ReportsInv'
BY TypedNext, ReportingNext, ReportCompleteNext DEF ReportsInv

\* A report SendHomework points to has its header and a row per title, although the
\* operation can fail at every row and two may write to one file.
THEOREM ReportsAreComplete == Spec => []ReportComplete
<1>1. ReportsInv => ReportComplete
  BY DEF ReportsInv
<1> QED
  BY <1>1, InitReports, ReportsNext, PTL DEF Spec

-----------------------------------------------------------------------------
(* Feedback tables: one owner each, which is a publication or a thread that is about *)
(* to insert one *)

HasTable(p, t) == sent[p] # Absent /\ sent[p].table = t
Filling(w, t)  == pc[w] \in {"read", "fill"} /\ job[w].table = t

\* Table t has at most one owner, and exists if it has one.
Owned(t) ==
  /\ \A p \in Homeworks \X Classes : HasTable(p, t) => feedback[t] # Absent
  /\ \A w \in Workers : Filling(w, t) => feedback[t] # Absent
  /\ \A p, q \in Homeworks \X Classes : HasTable(p, t) /\ HasTable(q, t) => p = q
  /\ \A v, w \in Workers : Filling(v, t) /\ Filling(w, t) => v = w
  /\ \A p \in Homeworks \X Classes, w \in Workers : ~(HasTable(p, t) /\ Filling(w, t))

TablesInv == Typed /\ \A t \in Tables \ dropped : Owned(t)

LEMMA AbsentIsNoTable == Absent \notin Seq(Nat) /\ Absent \notin Sent
  BY DataAssumption

\* A step that gives t to nobody and does not drop it.
LEMMA NoNewOwner ==
  ASSUME NEW t \in Tables, Owned(t),
         \A p \in Homeworks \X Classes : HasTable(p, t)' => HasTable(p, t),
         \A w \in Workers : Filling(w, t)' => Filling(w, t),
         feedback[t] # Absent => feedback'[t] # Absent
  PROVE  Owned(t)'
BY DEF Owned

\* A table no statement drops stays, whatever is appended or counted.
LEMMA TableStays ==
  ASSUME Typed, [Next]_vars, NEW t \in Tables, t \notin dropped'
  PROVE  t \notin dropped /\ (feedback[t] # Absent => feedback'[t] # Absent)
<1>1. JobsOK /\ DataOK /\ DataOK'
  BY TypedNext DEF Typed
<1>2. CASE UNCHANGED <<feedback, dropped>>
  BY <1>2
<1>3. ASSUME NEW w \in Workers, CreateTable(w)
      PROVE  t \notin dropped /\ (feedback[t] # Absent => feedback'[t] # Absent)
  <2>1. PICK u : feedback[u] = Absent /\ feedback' = [feedback EXCEPT ![u] = <<>>]
    BY <1>3, Zenon DEF CreateTable
  <2> QED
    BY <1>1, <1>3, <2>1 DEF CreateTable, DataOK, history
<1>4. ASSUME NEW w \in Workers, FillTable(w)
      PROVE  t \notin dropped /\ (feedback[t] # Absent => feedback'[t] # Absent)
  <2>1. t = job[w].table => feedback'[t] = Append(feedback[t], 0) /\ feedback[t] \in Seq(Nat)
    BY <1>1, <1>4 DEF FillTable, DataOK, Opt
  <2>2. t # job[w].table => feedback'[t] = feedback[t]
    BY <1>1, <1>4 DEF FillTable, DataOK
  <2>3. \A s \in Seq(Nat) : Append(s, 0) # Absent
    BY AbsentIsNoTable
  <2> QED
    BY <1>4, <2>1, <2>2, <2>3 DEF FillTable, history
<1>5. ASSUME NEW w \in Workers, Count(w)
      PROVE  t \notin dropped /\ (feedback[t] # Absent => feedback'[t] # Absent)
  <2>1. t = job[w].table =>
          feedback'[t] = PlusOne(feedback[t], job[w].i) /\ feedback[t] \in Seq(Nat)
    BY <1>1, <1>5 DEF Count, DataOK, Opt
  <2>2. t # job[w].table => feedback'[t] = feedback[t]
    BY <1>1, <1>5 DEF Count, DataOK
  <2>3. job[w].i \in Nat /\ job[w].i > 0
    BY <1>1, <1>5, AtWork DEF Count, Fits, Jobs
  <2>4. \A s \in Seq(Nat) : PlusOne(s, job[w].i) # Absent
    BY <2>3, PlusOneCounts, AbsentIsNoTable
  <2> QED
    BY <1>5, <2>1, <2>2, <2>4 DEF Count, history
<1>6. ASSUME NEW w \in Workers, DropTable(w)
      PROVE  t \notin dropped /\ (feedback[t] # Absent => feedback'[t] # Absent)
  BY <1>1, <1>6 DEF DropTable, DataOK
<1>7. ASSUME NEW w \in Workers, Quiet(w) \/ Busy(w)
      PROVE  CreateTable(w) \/ FillTable(w) \/ Count(w) \/ DropTable(w) \/ UNCHANGED <<feedback, dropped>>
  BY <1>1, <1>7, ReadMoves DEF Quiet, Busy, Watched, InsertSent, Enrol, MoveSent, DeleteSent,
     SaveAnswer, AskScores, SaveScore, CheckCount, ReadsNothing, Fails, Close, Header, WriteRow,
     SavePath, Request, tables, history
<1> QED
  BY <1>1, <1>2, <1>3, <1>4, <1>5, <1>6, <1>7, StepCases DEF Mark, vars, tables, history

\* A thread fills a table it has just created or was filling.
LEMMA FillingSteps ==
  ASSUME Typed, [Next]_vars, NEW v \in Workers, NEW t \in Tables, Filling(v, t)'
  PROVE  \/ Filling(v, t)
         \/ CreateTable(v) /\ feedback[t] = Absent /\ feedback'[t] = <<>>
<1>1. JobsOK /\ DataOK /\ job[v] \in Jobs /\ pc'[v] \in {"read", "fill"}
  BY AtWork DEF Typed, Filling
<1>2. CASE Stays(v)
  BY <1>2 DEF Stays, Filling
<1>3. CASE FillTable(v)
  <2>1. At(v, "fill", [job[v] EXCEPT !.i = @ + 1]) /\ pc[v] = "fill"
    BY <1>1, <1>3, GotoAt DEF FillTable
  <2> QED
    BY <1>1, <2>1 DEF At, Filling, Jobs
<1>4. CASE CreateTable(v)
  <2>1. PICK u : /\ feedback[u] = Absent /\ feedback' = [feedback EXCEPT ![u] = <<>>]
                 /\ \E l : Goto(v, l, [job[v] EXCEPT !.table = u])
    BY <1>4, Zenon DEF CreateTable
  <2>2. job'[v] = [job[v] EXCEPT !.table = u]
    BY <1>1, <2>1, GotoAt DEF At
  <2>3. u = t
    BY <1>1, <2>2 DEF Filling, Jobs
  <2> QED
    BY <1>1, <1>4, <2>1, <2>3 DEF DataOK
<1>5. CASE ReadTitles(v) /\ ~Quiet(v)
  <2>1. PICK k : Goto(v, "fill", [job[v] EXCEPT !.titles = k]) /\ pc[v] = "read"
    BY <1>1, <1>5, ReadMoves
  <2>2. At(v, "fill", [job[v] EXCEPT !.titles = k])
    BY <1>1, <2>1, GotoAt
  <2> QED
    BY <1>1, <2>1, <2>2 DEF At, Filling, Jobs
<1>6. CASE AskScores(v)
  BY <1>1, <1>6, RequestAt DEF AskScores, At
<1>7. CASE SaveScore(v) \/ ((SelectChoice(v) \/ Header(v) \/ WriteRow(v)) /\ ~Quiet(v))
  <2>1. PICK l \in {"score", "choice", "rows"} : \E j : Goto(v, l, j)
    BY <1>1, <1>7, ReadMoves, FailsQuiet DEF SaveScore, Header, WriteRow, Step
  <2> QED
    BY <1>1, <2>1, GotoAt DEF At
<1>8. CASE At(v, "close", job[v]) \/ At(v, "header", job[v])
  BY <1>1, <1>8 DEF At
<1> QED
  BY <1>1, <1>2, <1>3, <1>4, <1>5, <1>6, <1>7, <1>8, OwnSteps DEF Relying

\* The table of a new publication is the one the thread has filled.
LEMMA InsertOwned ==
  ASSUME Typed, [Next]_vars, NEW w \in Workers, InsertSent(w), NEW t \in Tables, t \notin dropped',
         Owned(t)
  PROVE  Owned(t)'
<1>1. JobsOK /\ DataOK
  BY DEF Typed
<1>2. t \notin dropped /\ (feedback[t] # Absent => feedback'[t] # Absent)
  BY TableStays
<1>3. /\ pc[w] = "fill" /\ Others(w) /\ At(w, "enrol", job[w])
      /\ feedback' = feedback /\ Pub(w) \in Homeworks \X Classes
  BY <1>1, GotoAt, AtWork DEF InsertSent, Step, Fits, OfClass, Pub
<1>4. \A v \in Workers : Filling(v, t)' => v # w /\ Filling(v, t)
  BY <1>3 DEF Others, At, Filling
<1>5. \A p \in Homeworks \X Classes : HasTable(p, t)' /\ p # Pub(w) => HasTable(p, t)
  BY <1>1 DEF InsertSent, HasTable, DataOK
<1>6. \A p \in Homeworks \X Classes : HasTable(p, t)' /\ p = Pub(w) => Filling(w, t)
  <2>1. sent'[Pub(w)].table = job[w].table
    BY <1>1, <1>3 DEF InsertSent, DataOK
  <2> QED
    BY <1>3, <2>1 DEF HasTable, Filling
<1>7. CASE Filling(w, t)
  BY <1>2, <1>4, <1>5, <1>7 DEF Owned
<1>8. CASE ~Filling(w, t)
  <2>1. \A p \in Homeworks \X Classes : HasTable(p, t)' => HasTable(p, t)
    BY <1>3, <1>5, <1>6, <1>8
  <2> QED
    BY <1>2, <1>4, <2>1, NoNewOwner
<1> QED
  BY <1>7, <1>8

\* A moved publication takes its table with it.
LEMMA MoveOwned ==
  ASSUME Typed, [Next]_vars, NEW w \in Workers, MoveSent(w), NEW t \in Tables, t \notin dropped',
         Owned(t)
  PROVE  Owned(t)'
<1>1. JobsOK /\ DataOK
  BY DEF Typed
<1>2. t \notin dropped /\ (feedback[t] # Absent => feedback'[t] # Absent)
  BY TableStays
<1> DEFINE q == <<job[w].h, job[w].to>>
<1>3. /\ Others(w) /\ At(w, "idle", NoJob)
      /\ Pub(w) \in Homeworks \X Classes /\ q \in Homeworks \X Classes
  BY <1>1, GotoAt, AtWork DEF MoveSent, End, Fits, OfClass, Pub
<1>4. \A v \in Workers : Filling(v, t)' => Filling(v, t)
  BY <1>3 DEF Others, At, Filling
<1>5. \A p \in Homeworks \X Classes : HasTable(p, t)' /\ p # q => HasTable(p, t) /\ p # Pub(w)
  BY <1>1, <1>3 DEF MoveSent, HasTable, DataOK
<1>6. \A p \in Homeworks \X Classes : HasTable(p, t)' /\ p = q => HasTable(Pub(w), t)
  <2>1. sent'[q] = sent[Pub(w)]
    BY <1>1, <1>3 DEF MoveSent, DataOK
  <2> QED
    BY <2>1 DEF HasTable
<1>7. CASE HasTable(Pub(w), t)
  BY <1>2, <1>3, <1>4, <1>5, <1>7 DEF Owned
<1>8. CASE ~HasTable(Pub(w), t)
  <2>1. \A p \in Homeworks \X Classes : HasTable(p, t)' => HasTable(p, t)
    BY <1>3, <1>5, <1>6, <1>8
  <2> QED
    BY <1>2, <1>4, <2>1, NoNewOwner
<1> QED
  BY <1>7, <1>8

LEMMA TablesNext ==
  ASSUME TablesInv, [Next]_vars
  PROVE  TablesInv'
<1>1. Typed /\ JobsOK /\ DataOK /\ Typed'
  BY TypedNext DEF TablesInv, Typed
<1>2. SUFFICES ASSUME NEW t \in Tables, t \notin dropped' PROVE Owned(t)'
  BY <1>1 DEF TablesInv
<1>3. t \notin dropped /\ (feedback[t] # Absent => feedback'[t] # Absent)
  BY <1>1, <1>2, TableStays
<1>4. Owned(t)
  BY <1>3 DEF TablesInv
<1>5. CASE \E w \in Workers : InsertSent(w) \/ MoveSent(w)
  BY <1>1, <1>2, <1>4, <1>5, InsertOwned, MoveOwned
<1>6. CASE ~\E w \in Workers : InsertSent(w) \/ MoveSent(w)
  <2>1. \A p \in Homeworks \X Classes : HasTable(p, t)' => HasTable(p, t)
    <3>1. CASE UNCHANGED sent
      BY <3>1 DEF HasTable
    <3>2. ASSUME NEW w \in Workers, DeleteSent(w),
                 NEW p \in Homeworks \X Classes, HasTable(p, t)'
          PROVE  HasTable(p, t)
      BY <1>1, <3>2 DEF DeleteSent, HasTable, DataOK
    <3>3. ASSUME NEW w \in Workers, Close(w) \/ SavePath(w),
                 NEW p \in Homeworks \X Classes, HasTable(p, t)'
          PROVE  HasTable(p, t)
      <4>1. CASE sent'[p] = sent[p]
        BY <3>3, <4>1 DEF HasTable
      <4>2. CASE sent'[p] # sent[p]
        <5>1. sent'[p] \in {[sent[p] EXCEPT !.closed = TRUE],
                            [sent[p] EXCEPT !.report = job[w].table]} /\ sent[p] # Absent
          <6>1. CASE Close(w)
            BY <1>1, <3>3, <4>2, <6>1, Zenon DEF Close, DataOK
          <6>2. CASE SavePath(w)
            BY <1>1, <3>3, <4>2, <6>2, Zenon DEF SavePath, DataOK
          <6> QED
            BY <3>3, <6>1, <6>2
        <5>2. sent[p] \in Sent
          BY <1>1, <5>1 DEF DataOK, Opt
        <5>3. sent'[p].table = sent[p].table
          BY <5>1, <5>2 DEF Sent
        <5> QED
          BY <3>3, <5>1, <5>3 DEF HasTable
      <4> QED
        BY <4>1, <4>2
    <3> QED
      BY <1>1, <1>6, <3>1, <3>2, <3>3, SentSteps
  <2>2. CASE \E v \in Workers : CreateTable(v) /\ feedback[t] = Absent /\ feedback'[t] = <<>>
    <3>1. PICK v \in Workers : CreateTable(v) /\ feedback[t] = Absent /\ feedback'[t] = <<>>
      BY <2>2
    <3>2. Others(v)
      BY <1>1, <3>1, GotoAt DEF CreateTable
    <3>3. \A p \in Homeworks \X Classes : ~HasTable(p, t)'
      BY <1>4, <2>1, <3>1 DEF Owned
    <3>4. \A x \in Workers : Filling(x, t)' => x = v
      <4>1. \A x \in Workers \ {v} : Filling(x, t)' => Filling(x, t)
        BY <3>2 DEF Others, Filling
      <4> QED
        BY <1>4, <3>1, <4>1 DEF Owned
    <3>5. feedback'[t] # Absent
      <4>1. <<>> \in Seq(Nat)
        OBVIOUS
      <4> QED
        BY <3>1, <4>1, AbsentIsNoTable
    <3> QED
      BY <3>3, <3>4, <3>5 DEF Owned
  <2>3. CASE ~\E v \in Workers : CreateTable(v) /\ feedback[t] = Absent /\ feedback'[t] = <<>>
    <3>1. \A v \in Workers : Filling(v, t)' => Filling(v, t)
      BY <1>1, <2>3, FillingSteps
    <3> QED
      BY <1>3, <1>4, <2>1, <3>1, NoNewOwner
  <2> QED
    BY <2>2, <2>3
<1> QED
  BY <1>5, <1>6

LEMMA InitTables ==
  ASSUME Init
  PROVE  TablesInv
BY InitTyped DEF Init, TablesInv, Owned, HasTable, Filling

\* The feedback table of a publication exists until DeletePublishHomework drops it,
\* whatever is published, moved or fails between its statements.
THEOREM TablesAreKept == Spec => []TableKept
<1>1. ASSUME TablesInv PROVE TableKept
  <2>1. DataOK
    BY <1>1 DEF TablesInv, Typed
  <2>2. ASSUME NEW p \in Homeworks \X Classes, sent[p] # Absent PROVE sent[p].table \in Tables
    BY <2>1, <2>2 DEF DataOK, Opt, Sent
  <2> QED
    BY <1>1, <2>1, <2>2 DEF TablesInv, Owned, HasTable, TableKept, DataOK
<1> QED
  BY <1>1, InitTables, TablesNext, PTL DEF Spec

\* Two publications never count in one table that has not been dropped, nor does a thread
\* fill the table of another: create table refuses the name of a table there is.
THEOREM TablesAreUnshared == Spec => []TableUnshared
<1>1. ASSUME TablesInv PROVE TableUnshared
  <2>1. DataOK
    BY <1>1 DEF TablesInv, Typed
  <2>2. ASSUME NEW p \in Homeworks \X Classes, sent[p] # Absent PROVE sent[p].table \in Tables
    BY <2>1, <2>2 DEF DataOK, Opt, Sent
  <2>3. ASSUME NEW p \in Homeworks \X Classes, NEW q \in Homeworks \X Classes,
               sent[p] # Absent, sent[q] # Absent, sent[p].table = sent[q].table,
               sent[p].table \notin dropped
        PROVE  p = q
    BY <1>1, <2>2, <2>3 DEF TablesInv, Owned, HasTable
  <2>4. ASSUME NEW w \in Workers, NEW p \in Homeworks \X Classes,
               pc[w] \in {"read", "fill"}, sent[p] # Absent, sent[p].table = job[w].table
        PROVE  job[w].table \in dropped
    BY <1>1, <2>2, <2>4 DEF TablesInv, Owned, HasTable, Filling
  <2>5. DOMAIN sent = Homeworks \X Classes
    BY <2>1 DEF DataOK
  <2> QED
    BY <2>3, <2>4, <2>5 DEF TableUnshared
<1> QED
  BY <1>1, InitTables, TablesNext, PTL DEF Spec

-----------------------------------------------------------------------------
(* Counts: between two titles lie the hand-ins that have counted the first and not yet *)
(* the second; those that failed there stay counted *)

Counting(w, t)   == pc[w] = "count" /\ job[w].table = t
Counters(t)      == {w \in Workers : Counting(w, t)}
Between(t, k, l) == {w \in Counters(t) : k < job[w].i /\ job[w].i <= l}

Gaps(t) ==
  feedback[t] # Absent =>
    \A k, l \in 1 .. Len(feedback[t]) :
      k < l => feedback[t][k] >= feedback[t][l] + Cardinality(Between(t, k, l))

\* Nobody fills a table that is counted in.
Counted(t) ==
  /\ IsFiniteSet(Counters(t))
  /\ \A w \in Workers : Counting(w, t) => feedback[t] # Absent /\ \A v \in Workers : ~Filling(v, t)
  /\ Gaps(t)

CountsInv == TablesInv /\ \A t \in Tables \ dropped : Counted(t)

LEMMA BetweenFinite ==
  ASSUME NEW t, IsFiniteSet(Counters(t)), NEW k, NEW l
  PROVE  IsFiniteSet(Between(t, k, l)) /\ Cardinality(Between(t, k, l)) \in Nat
BY FS_Subset, FS_CardinalityType DEF Between

\* A thread comes to count by FindCounters and goes on by Count.
LEMMA CountingSteps ==
  ASSUME Typed, [Next]_vars, NEW v \in Workers, pc'[v] = "count"
  PROVE  Stays(v) \/ (FindCounters(v) /\ ~Quiet(v)) \/ Count(v)
<1>1. JobsOK
  BY DEF Typed
<1>2. CASE \/ CreateTable(v) \/ FillTable(v) \/ SaveScore(v)
           \/ (ReadTitles(v) \/ SelectChoice(v) \/ Header(v) \/ WriteRow(v)) /\ ~Quiet(v)
  <2>1. PICK l \in {"read", "fill", "score", "choice", "rows"} : \E j : Goto(v, l, j)
    BY <1>1, <1>2, ReadMoves, FailsQuiet DEF CreateTable, FillTable, SaveScore, Header, WriteRow, Step
  <2> QED
    BY <1>1, <2>1, GotoAt DEF At
<1>3. CASE AskScores(v)
  BY <1>1, <1>3, RequestAt DEF AskScores, At
<1>4. CASE At(v, "close", job[v]) \/ At(v, "header", job[v])
  BY <1>4 DEF At
<1> QED
  BY <1>1, <1>2, <1>3, <1>4, OwnSteps DEF Relying

\* A step that neither fills nor counts in a table leaves it as it is or drops it, unless
\* it creates it.
LEMMA TableSteps ==
  ASSUME Typed, [Next]_vars, NEW t \in Tables, t \notin dropped'
  PROVE  \/ feedback'[t] = feedback[t]
         \/ \E w \in Workers : CreateTable(w) /\ feedback[t] = Absent /\ feedback'[t] = <<>>
         \/ \E w \in Workers : FillTable(w) /\ Filling(w, t) /\ feedback'[t] = Append(feedback[t], 0)
         \/ \E w \in Workers : Count(w) /\ Counting(w, t)
<1>1. JobsOK /\ DataOK
  BY DEF Typed
<1>2. ASSUME NEW w \in Workers, CreateTable(w)
      PROVE  feedback'[t] = feedback[t] \/ (feedback[t] = Absent /\ feedback'[t] = <<>>)
  <2>1. PICK u : feedback[u] = Absent /\ feedback' = [feedback EXCEPT ![u] = <<>>]
    BY <1>2, Zenon DEF CreateTable
  <2> QED
    BY <1>1, <2>1 DEF DataOK
<1>3. ASSUME NEW w \in Workers, FillTable(w)
      PROVE  feedback'[t] = feedback[t] \/ (Filling(w, t) /\ feedback'[t] = Append(feedback[t], 0))
  BY <1>1, <1>3 DEF FillTable, DataOK, Filling
<1>4. ASSUME NEW w \in Workers, Count(w)
      PROVE  feedback'[t] = feedback[t] \/ Counting(w, t)
  BY <1>1, <1>4 DEF Count, DataOK, Counting
<1>5. ASSUME NEW w \in Workers, DropTable(w)
      PROVE  feedback'[t] = feedback[t]
  BY <1>1, <1>5 DEF DropTable, DataOK
<1>6. ASSUME NEW w \in Workers, Quiet(w) \/ Busy(w)
      PROVE  CreateTable(w) \/ FillTable(w) \/ Count(w) \/ DropTable(w) \/ UNCHANGED feedback
  BY <1>1, <1>6, ReadMoves DEF Quiet, Busy, Watched, InsertSent, Enrol, MoveSent, DeleteSent,
     SaveAnswer, AskScores, SaveScore, CheckCount, ReadsNothing, Fails, Close, Header, WriteRow,
     SavePath, Request, tables, history
<1> QED
  BY <1>1, <1>2, <1>3, <1>4, <1>5, <1>6, StepCases DEF Mark, vars, tables

\* Hand-ins that leave make the gaps no wider.
LEMMA GapsStay ==
  ASSUME NEW t \in Tables, DataOK, Counted(t), feedback'[t] = feedback[t],
         \A k, l \in Nat : k > 0 => Between(t, k, l)' \subseteq Between(t, k, l)
  PROVE  Gaps(t)'
<1> SUFFICES ASSUME feedback[t] # Absent,
                    NEW k \in 1 .. Len(feedback[t]), NEW l \in 1 .. Len(feedback[t]), k < l
             PROVE  feedback[t][k] >= feedback[t][l] + Cardinality(Between(t, k, l)')
  BY DEF Gaps
<1>1. feedback[t] \in Seq(Nat)
  BY DEF DataOK, Opt
<1>2. feedback[t][k] \in Nat /\ feedback[t][l] \in Nat
  BY <1>1, ElementOfSeq
<1>3. IsFiniteSet(Between(t, k, l)) /\ Cardinality(Between(t, k, l)) \in Nat
  BY BetweenFinite DEF Counted
<1>4. Between(t, k, l)' \subseteq Between(t, k, l)
  OBVIOUS
<1>5. /\ Cardinality(Between(t, k, l)') \in Nat
      /\ Cardinality(Between(t, k, l)') <= Cardinality(Between(t, k, l))
  BY <1>3, <1>4, FS_Subset, FS_CardinalityType
<1> QED
  BY <1>2, <1>3, <1>5 DEF Counted, Gaps

\* A thread that counts goes on to the next title.
LEMMA CountMoves ==
  ASSUME Typed, NEW w \in Workers, Count(w)
  PROVE  /\ Others(w) /\ pc[w] = "count" /\ pc'[w] = "count"
         /\ job'[w].table = job[w].table /\ job'[w].i = job[w].i + 1
         /\ job[w].i \in Nat /\ job[w].i > 0 /\ job[w].table \in Tables
<1>1. JobsOK
  BY DEF Typed
<1>2. pc[w] = "count" /\ Others(w) /\ At(w, "count", [job[w] EXCEPT !.i = @ + 1])
  BY <1>1, GotoAt DEF Count
<1>3. job[w] \in Jobs /\ job[w].i \in Nat /\ job[w].i > 0 /\ job[w].table \in Tables
  BY <1>1, <1>2, AtWork DEF Fits, OfTable, Jobs
<1> QED
  BY <1>2, <1>3 DEF At, Jobs

\* One that begins to count is at the first title of a publication's table.
LEMMA FindMoves ==
  ASSUME Typed, NEW w \in Workers, FindCounters(w), ~Quiet(w)
  PROVE  /\ Others(w) /\ pc'[w] = "count" /\ job'[w].i = 1 /\ UNCHANGED feedback
         /\ \E p \in Homeworks \X Classes : HasTable(p, job'[w].table)
<1>1. JobsOK
  BY DEF Typed
<1>2. /\ pc[w] = "counters" /\ Others(w) /\ sent[Pub(w)] # Absent /\ UNCHANGED feedback
      /\ At(w, "count", [job[w] EXCEPT !.table = sent[Pub(w)].table, !.i = 1])
  BY <1>1, ReadMoves, GotoAt DEF Watched
<1>3. job[w] \in Jobs /\ Pub(w) \in Homeworks \X Classes
  BY <1>1, <1>2, AtWork DEF Fits, OfClass, Pub
<1>4. job'[w].table = sent[Pub(w)].table /\ job'[w].i = 1
  BY <1>2, <1>3 DEF At, Jobs
<1> QED
  BY <1>2, <1>3, <1>4 DEF At, HasTable

\* The table of a thread that will count exists and is filled.
LEMMA CountersFilled ==
  ASSUME Typed, [Next]_vars, NEW t \in Tables, Owned(t), Counted(t), NEW w \in Workers, Counting(w, t)'
  PROVE  feedback[t] # Absent /\ \A v \in Workers : ~Filling(v, t)
<1>1. CASE Counting(w, t)
  BY <1>1 DEF Counted
<1>2. CASE FindCounters(w) /\ ~Quiet(w)
  BY <1>2, FindMoves DEF Counting, Owned
<1>3. CASE Stays(w) \/ Count(w)
  BY <1>1, <1>3, CountMoves DEF Counting, Stays
<1> QED
  BY <1>2, <1>3, CountingSteps DEF Counting

LEMMA CountersStayFinite ==
  ASSUME Typed, [Next]_vars, NEW t \in Tables, IsFiniteSet(Counters(t))
  PROVE  IsFiniteSet(Counters(t)')
<1>1. CASE \E v \in Workers : FindCounters(v) /\ ~Quiet(v)
  <2>1. PICK v \in Workers : FindCounters(v) /\ ~Quiet(v)
    BY <1>1
  <2>2. Counters(t)' \subseteq Counters(t) \union {v}
    BY <2>1, FindMoves DEF Counters, Counting, Others
  <2> QED
    BY <2>2, FS_AddElement, FS_Subset
<1>2. CASE ~\E v \in Workers : FindCounters(v) /\ ~Quiet(v)
  <2>1. Counters(t)' \subseteq Counters(t)
    BY <1>2, CountingSteps, CountMoves DEF Counters, Counting, Stays
  <2> QED
    BY <2>1, FS_Subset
<1> QED
  BY <1>1, <1>2

\* Counting a title widens the gap after it and narrows the one before it by the thread
\* that passes from one to the other.
LEMMA CountGaps ==
  ASSUME Typed, [Next]_vars, NEW t \in Tables, Counted(t),
         NEW w \in Workers, Count(w), Counting(w, t)
  PROVE  Gaps(t)'
<1> DEFINE f == feedback[t]
           m == job[w].i
<1>1. /\ Others(w) /\ pc'[w] = "count" /\ pc[w] = "count" /\ job[w].table = t /\ job'[w].table = t
      /\ m \in Nat /\ m > 0 /\ job'[w].i = m + 1
  BY CountMoves DEF Counting
<1>2. f # Absent /\ f \in Seq(Nat) /\ Len(f) \in Nat /\ feedback'[t] = PlusOne(f, m)
  <2>1. DataOK
    BY DEF Typed
  <2>2. f # Absent
    BY <1>1 DEF Count
  <2> QED
    BY <1>1, <2>1, <2>2, LenProperties DEF Count, DataOK, Opt
<1>3. \A k \in 1 .. Len(f) : f[k] \in Nat
  BY <1>2, ElementOfSeq
<1>4. /\ Len(feedback'[t]) = Len(f)
      /\ \A k \in 1 .. Len(f) : feedback'[t][k] = IF k = m THEN f[k] + 1 ELSE f[k]
  <2>1. CASE m <= Len(f)
    <3>1. m \in 1 .. Len(f)
      BY <1>1, <1>2, <2>1
    <3>2. f[m] + 1 \in Nat
      BY <1>3, <3>1
    <3>3. feedback'[t] = [f EXCEPT ![m] = f[m] + 1]
      BY <1>2, <2>1 DEF PlusOne
    <3> HIDE DEF f, m
    <3> QED
      BY <1>2, <3>1, <3>2, <3>3, ExceptSeq
  <2>2. CASE ~(m <= Len(f))
    BY <1>1, <1>2, <2>2 DEF PlusOne
  <2> QED
    BY <2>1, <2>2
<1> HIDE DEF f
<1>5. SUFFICES ASSUME NEW k \in 1 .. Len(f), NEW l \in 1 .. Len(f), k < l
               PROVE  feedback'[t][k] >= feedback'[t][l] + Cardinality(Between(t, k, l)')
  BY <1>4 DEF Gaps
<1>6. f[k] >= f[l] + Cardinality(Between(t, k, l))
  BY <1>2, <1>5 DEF Counted, Gaps, f
<1>7. IsFiniteSet(Between(t, k, l)) /\ Cardinality(Between(t, k, l)) \in Nat
  BY BetweenFinite DEF Counted
<1>8. /\ \A v \in Workers \ {w} : v \in Between(t, k, l)' <=> v \in Between(t, k, l)
      /\ w \in Between(t, k, l)' <=> k < m + 1 /\ m + 1 <= l
      /\ w \in Between(t, k, l) <=> k < m /\ m <= l
      /\ Between(t, k, l) \subseteq Workers /\ Between(t, k, l)' \subseteq Workers
  BY <1>1 DEF Between, Counters, Counting, Others
<1> HIDE DEF m
<1>9. CASE m = k
  <2>1. w \notin Between(t, k, l) /\ Between(t, k, l)' = Between(t, k, l) \union {w}
    <3>1. w \notin Between(t, k, l) /\ w \in Between(t, k, l)'
      BY <1>5, <1>8, <1>9
    <3> QED
      BY <1>8, <3>1
  <2>2. Cardinality(Between(t, k, l)') = Cardinality(Between(t, k, l)) + 1
    BY <1>7, <2>1, FS_AddElement
  <2> QED
    BY <1>3, <1>4, <1>5, <1>6, <1>7, <1>9, <2>2
<1>10. CASE m = l
  <2>1. w \in Between(t, k, l) /\ Between(t, k, l)' = Between(t, k, l) \ {w}
    <3>1. w \in Between(t, k, l) /\ w \notin Between(t, k, l)'
      BY <1>5, <1>8, <1>10
    <3> QED
      BY <1>8, <3>1
  <2>2. Cardinality(Between(t, k, l)') = Cardinality(Between(t, k, l)) - 1
    BY <1>7, <2>1, FS_RemoveElement
  <2> QED
    BY <1>3, <1>4, <1>5, <1>6, <1>7, <1>10, <2>2
<1>11. CASE m # k /\ m # l
  <2>1. Between(t, k, l)' = Between(t, k, l)
    <3>1. w \in Between(t, k, l)' <=> w \in Between(t, k, l)
      BY <1>1, <1>5, <1>8, <1>11
    <3> QED
      BY <1>8, <3>1
  <2> QED
    BY <1>4, <1>5, <1>6, <1>11, <2>1
<1> QED
  BY <1>9, <1>10, <1>11

LEMMA GapsNext ==
  ASSUME Typed, [Next]_vars, NEW t \in Tables, t \notin dropped', Owned(t), Counted(t)
  PROVE  Gaps(t)'
<1>1. JobsOK /\ DataOK
  BY DEF Typed
<1>2. CASE \E w \in Workers : Count(w) /\ Counting(w, t)
  BY <1>2, CountGaps
<1>3. ASSUME ~\E w \in Workers : Count(w) /\ Counting(w, t), feedback'[t] = feedback[t]
      PROVE  Gaps(t)'
  <2>1. ASSUME NEW k \in Nat, NEW l \in Nat, k > 0, NEW v \in Workers, v \in Between(t, k, l)'
        PROVE  v \in Between(t, k, l)
    <3>1. Counting(v, t)' /\ k < job'[v].i /\ job'[v].i <= l
      BY <2>1 DEF Between, Counters
    <3>2. CASE Stays(v)
      BY <3>1, <3>2 DEF Stays, Between, Counters, Counting
    <3>3. ~(FindCounters(v) /\ ~Quiet(v))
      BY <2>1, <3>1, FindMoves
    <3>4. ~Count(v)
      BY <1>3, <3>1, CountMoves DEF Counting
    <3> QED
      BY <3>1, <3>2, <3>3, <3>4, CountingSteps DEF Counting
  <2>2. \A k, l \in Nat : k > 0 => Between(t, k, l)' \subseteq Between(t, k, l)
    BY <2>1 DEF Between, Counters
  <2> QED
    BY <1>1, <1>3, <2>2, GapsStay
<1>4. CASE feedback'[t] = <<>>
  BY <1>4 DEF Gaps
<1>5. ASSUME NEW w \in Workers, Filling(w, t), FillTable(w), feedback'[t] = Append(feedback[t], 0)
      PROVE  Gaps(t)'
  <2>1. \A k, l \in Nat : Between(t, k, l)' = {} /\ Between(t, k, l) = {}
    <3>1. \A v \in Workers : ~Counting(v, t)' /\ ~Counting(v, t)
      BY <1>5, CountersFilled DEF Counted
    <3> QED
      BY <3>1 DEF Between, Counters
  <2>2. feedback[t] # Absent /\ feedback[t] \in Seq(Nat)
    <3>1. feedback[t] # Absent
      BY <1>5 DEF Owned
    <3> QED
      BY <1>1, <3>1 DEF DataOK, Opt
  <2> DEFINE n == Len(feedback[t])
  <2>3. /\ n \in Nat /\ Len(feedback'[t]) = n + 1 /\ feedback'[t][n + 1] = 0
        /\ \A k \in 1 .. n : feedback'[t][k] = feedback[t][k] /\ feedback[t][k] \in Nat
    <3>1. n \in Nat /\ \A k \in 1 .. n : feedback[t][k] \in Nat
      BY <2>2, LenProperties, ElementOfSeq
    <3>2. /\ Len(feedback'[t]) = n + 1 /\ feedback'[t][n + 1] = 0
          /\ \A k \in 1 .. n : feedback'[t][k] = feedback[t][k]
      BY <1>5, <2>2, AppendProperties
    <3> QED
      BY <3>1, <3>2
  <2>4. SUFFICES ASSUME NEW k \in 1 .. n + 1, NEW l \in 1 .. n + 1, k < l
                 PROVE  feedback'[t][k] >= feedback'[t][l] + 0
    <3>1. \A k, l \in 1 .. n + 1 : Cardinality(Between(t, k, l)') = 0
      <4>1. 1 .. n + 1 \subseteq Nat
        BY <2>3
      <4> QED
        BY <2>1, <4>1, FS_EmptySet
    <3> QED
      BY <2>3, <3>1 DEF Gaps
  <2>5. k \in 1 .. n
    BY <2>3, <2>4
  <2>6. CASE l = n + 1
    BY <2>3, <2>5, <2>6
  <2>7. CASE l \in 1 .. n
    <3>1. feedback[t][k] >= feedback[t][l] + Cardinality(Between(t, k, l))
      BY <2>2, <2>4, <2>5, <2>7 DEF Counted, Gaps
    <3>2. Cardinality(Between(t, k, l)) = 0
      <4>1. k \in Nat /\ l \in Nat
        BY <2>3, <2>5, <2>7
      <4> QED
        BY <2>1, <4>1, FS_EmptySet
    <3> QED
      BY <2>3, <2>5, <2>7, <3>1, <3>2
  <2> QED
    BY <2>3, <2>6, <2>7
<1> QED
  BY <1>2, <1>3, <1>4, <1>5, TableSteps

LEMMA CountsNext ==
  ASSUME CountsInv, [Next]_vars
  PROVE  CountsInv'
<1>1. TablesInv /\ TablesInv' /\ Typed
  BY TablesNext DEF CountsInv, TablesInv
<1>2. SUFFICES ASSUME NEW t \in Tables, t \notin dropped' PROVE Counted(t)'
  BY <1>1 DEF CountsInv
<1>3. t \notin dropped /\ (feedback[t] # Absent => feedback'[t] # Absent)
  BY <1>1, <1>2, TableStays
<1>4. Owned(t) /\ Counted(t)
  BY <1>3 DEF CountsInv, TablesInv
<1>5. IsFiniteSet(Counters(t)')
  BY <1>1, <1>4, CountersStayFinite DEF Counted
<1>6. ASSUME NEW w \in Workers, Counting(w, t)'
      PROVE  feedback'[t] # Absent /\ \A v \in Workers : ~Filling(v, t)'
  <2>1. feedback[t] # Absent /\ \A v \in Workers : ~Filling(v, t)
    BY <1>1, <1>4, <1>6, CountersFilled
  <2> QED
    BY <1>1, <1>3, <2>1, FillingSteps
<1>7. Gaps(t)'
  BY <1>1, <1>2, <1>4, GapsNext
<1> QED
  BY <1>5, <1>6, <1>7 DEF Counted

LEMMA InitCounts ==
  ASSUME Init
  PROVE  CountsInv
<1>1. \A t \in Tables : Counters(t) = {} /\ feedback[t] = Absent
  BY DEF Init, Counters, Counting
<1> QED
  BY <1>1, InitTables, FS_EmptySet DEF CountsInv, Counted, Gaps, Counters

\* A title never has fewer answers than those after it, whichever hand-ins are half done
\* or failed and however many count in one table at once.
THEOREM CountsGoDown == Spec => []CountsDescend
<1>1. ASSUME CountsInv PROVE CountsDescend
  <2> SUFFICES ASSUME NEW t \in Tables, t \notin dropped, feedback[t] # Absent,
                      NEW k \in 1 .. Len(feedback[t]), NEW l \in 1 .. Len(feedback[t]), k < l
               PROVE  feedback[t][k] >= feedback[t][l]
    BY DEF CountsDescend
  <2>1. Counted(t) /\ feedback[t] \in Seq(Nat)
    BY <1>1 DEF CountsInv, TablesInv, Typed, DataOK, Opt
  <2>2. feedback[t][k] \in Nat /\ feedback[t][l] \in Nat
    BY <2>1, ElementOfSeq
  <2>3. Cardinality(Between(t, k, l)) \in Nat
    BY <2>1, BetweenFinite DEF Counted
  <2>4. feedback[t][k] >= feedback[t][l] + Cardinality(Between(t, k, l))
    BY <2>1 DEF Counted, Gaps
  <2> QED
    BY <2>2, <2>3, <2>4
<1> QED
  BY <1>1, InitCounts, CountsNext, PTL DEF Spec
=============================================================================
