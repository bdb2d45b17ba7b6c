---------------------------- MODULE HomeworkData ----------------------------
(***************************************************************************)
(* The data of the homework subsystem: the tables Homework, SendHomework   *)
(* and StudentHomework, a feedback table per publication, the texts of the *)
(* homework and the reports, as database_interface/src/                    *)
(* homework_interface.cpp and homework/src change them.  An operation is a *)
(* sequence of SQL statements and file commands without a transaction:     *)
(* each is one step, each may fail, and several threads run operations at  *)
(* once.  Where an operation stops after a failure is where a crash of the *)
(* server would leave it.                                                  *)
(***************************************************************************)
EXTENDS Integers, Sequences, FiniteSets

CONSTANTS
  Workers,              \* the disposing threads
  Homeworks, Classes, Students, Names, Paths, Tables,
  Members,              \* the students of each class
  TableOf(_, _, _),     \* digits of the id, name, digits of the class
  NoName,               \* the empty name
  Titles,               \* titlenum of every homework
  Scores,               \* choice scores an answer can get
  Stored,               \* table Homework when the server starts
  Budgets,              \* bound: how often each operation is requested, by Stored
  Absent                \* no row, no value, no argument

Opt(S) == S \union {Absent}
Texts  == [path : Paths, name : Names]
Operations == {"submit", "amend", "drop", "publish", "move", "withdraw", "handIn", "score"}

VARIABLES
  homework,   \* table Homework: where the text of each is
  used,       \* ids it has given out
  sent,       \* table SendHomework
  student,    \* table StudentHomework
  feedback,   \* the feedback tables: answers counted per title
  files,      \* the texts that exist
  report,     \* rows written to the report of each feedback table
  pc, job,    \* the statement each thread is at, and its operation's variables
  left,       \* requests still to come
  crash,      \* a result without rows was read and the process died
  dropped,    \* history: feedback tables some operation has dropped
  astray,     \* history: texts some operation took away or failed to make
  repathed,   \* history: homework whose path some operation changed
  misread     \* history: rows whose choice score was read before there was one

tables  == <<homework, used, sent, student, feedback>>
history == <<dropped, astray, repathed, misread>>
vars == <<tables, files, report, pc, job, left, crash, history>>

Sent     == [table : Tables, closed : BOOLEAN, report : Opt(Tables)]
Answered == [class : Classes, marked : BOOLEAN, choice : Opt(Nat),
             scored : BOOLEAN, counted : Opt(Nat)]
Changes  == SUBSET {"name", "content", "path"}
Labels   == {"idle", "write", "insert", "name", "rename", "renamed", "content", "rewrite",
             "path", "repath", "text", "rm", "dropRow", "titles", "create", "read",
             "fill", "enrol", "move", "table", "dropTable", "unsend", "standard", "answer",
             "counters", "count", "choice", "score", "close", "header", "rows"}
Jobs     == [h : Opt(Homeworks), c : Opt(Classes), n : Opt(Names), d : Opt(Paths),
             s : Opt(Students), to : Opt(Classes), change : Changes, named : SUBSET Students,
             todo : SUBSET Students, text : Opt(Texts), table : Opt(Tables), i : Nat,
             titles : Opt(Nat), score : Opt(Nat)]

ASSUME DataAssumption ==
  /\ Members \in [Classes -> SUBSET Students]
  /\ \A h \in Homeworks, n \in Names, c \in Classes : TableOf(h, n, c) \in Tables
  /\ IsFiniteSet(Students)
  /\ Titles \in Nat /\ Scores \subseteq Nat
  /\ Absent \notin Texts \union Tables \union Sent \union Answered \union Nat \union Seq(Nat)
  /\ Stored \subseteq [Homeworks -> Opt(Texts)]
  /\ Budgets \in [Stored -> SUBSET [Operations -> Nat]]

TypeOK ==
  /\ homework \in [Homeworks -> Opt(Texts)]
  /\ used \subseteq Homeworks
  /\ sent \in [Homeworks \X Classes -> Opt(Sent)]
  /\ student \in [Homeworks \X Students -> Opt(Answered)]
  /\ feedback \in [Tables -> Opt(Seq(Nat))]
  /\ files \subseteq Texts /\ astray \subseteq Texts
  /\ report \in [Tables -> Nat]
  /\ pc \in [Workers -> Labels] /\ job \in [Workers -> Jobs]
  /\ left \in [Operations -> Nat]
  /\ crash \in BOOLEAN
  /\ dropped \subseteq Tables /\ repathed \subseteq Homeworks
  /\ misread \subseteq Homeworks \X Students

NoJob == [h |-> Absent, c |-> Absent, n |-> Absent, d |-> Absent, s |-> Absent,
          to |-> Absent, change |-> {}, named |-> {}, todo |-> {}, text |-> Absent,
          table |-> Absent, i |-> 0, titles |-> 0, score |-> Absent]

\* The server starts on a database that may hold homework submitted before.
Init ==
  /\ homework \in Stored
  /\ used = {h \in Homeworks : homework[h] # Absent}
  /\ files = {homework[h] : h \in Homeworks} \ {Absent}
  /\ sent = [p \in Homeworks \X Classes |-> Absent]
  /\ student = [r \in Homeworks \X Students |-> Absent]
  /\ feedback = [t \in Tables |-> Absent]
  /\ report = [t \in Tables |-> 0]
  /\ pc = [w \in Workers |-> "idle"]
  /\ job = [w \in Workers |-> NoJob]
  /\ left \in Budgets[homework]
  /\ crash = FALSE
  /\ dropped = {} /\ astray = {} /\ repathed = {} /\ misread = {}

-----------------------------------------------------------------------------
(* Steps of an operation *)

Pub(w) == <<job[w].h, job[w].c>>   \* keys of SendHomework and StudentHomework
Row(w) == <<job[w].h, job[w].s>>

Goto(w, label, j) ==
  /\ pc'  = [pc EXCEPT ![w] = label]
  /\ job' = [job EXCEPT ![w] = j]
  /\ UNCHANGED <<left, crash>>

Step(w, label) == Goto(w, label, job[w])
End(w) == Goto(w, "idle", NoJob)

Request(w, op, label, j) ==
  /\ pc[w] = "idle" /\ left[op] > 0
  /\ left' = [left EXCEPT ![op] = @ - 1]
  /\ pc'  = [pc EXCEPT ![w] = label]
  /\ job' = [job EXCEPT ![w] = j]
  /\ UNCHANGED <<tables, files, report, crash, history>>

\* A statement or file command fails, or the database refuses it: the operation
\* returns.
Fails(w) == End(w) /\ UNCHANGED <<tables, files, report, history>>

\* The first field of a result without rows is read: the process may die, and if
\* it does not, the statements made from what was read change no row.
ReadsNothing(w) ==
  \/ /\ crash' = TRUE
     /\ UNCHANGED <<tables, files, report, pc, job, left, history>>
  \/ Fails(w)

\* The foreign keys of the schema: the row another table refers to stays as it is.
Enrolled(p)  == \E s \in Students : /\ student[<<p[1], s>>] # Absent
                                    /\ student[<<p[1], s>>].class = p[2]
Published(h) == \E c \in Classes : sent[<<h, c>>] # Absent

-----------------------------------------------------------------------------
(* SubmitHomework::save_homework and AddBasicHomework *)

AskSubmit(w) == \E f \in Texts :
  f.name # NoName /\ Request(w, "submit", "write", [NoJob EXCEPT !.text = f])

\* Mutant of WriteText: a file that cannot be opened or written is no reason to stop.
WriteText_goesOn(w) ==
  /\ pc[w] = "write"
  /\ files' \in {files, files \union {job[w].text}}
  /\ Step(w, "insert")
  /\ UNCHANGED <<tables, report, history>>

\* Opening the file creates it; the write may still fail.
WriteText(w) ==
  /\ pc[w] = "write"
  /\ files' = files \union {job[w].text}
  /\ Step(w, "insert") \/ End(w)
  /\ UNCHANGED <<tables, report, history>>

\* The insert names no id, so the table numbers its rows itself and never reuses a
\* number (mysql.sql lags behind: it has no titlenum either).
InsertHomework(w) ==
  /\ pc[w] = "insert"
  /\ \E h \in Homeworks \ used : /\ homework' = [homework EXCEPT ![h] = job[w].text]
                                 /\ used' = used \union {h}
  /\ End(w)
  /\ UNCHANGED <<sent, student, feedback, files, report, history>>

Submit(w) == \/ AskSubmit(w) \/ WriteText(w) \/ InsertHomework(w)
             \/ pc[w] \in {"write", "insert"} /\ Fails(w)

-----------------------------------------------------------------------------
(* AmendBasicHomework: name, content, path, in this order; the answer is data. *)

AskAmend(w) == \E h \in Homeworks, ch \in Changes \ {{}} :
  \E n \in IF "name" \in ch THEN Names \ {NoName} ELSE {Absent},
     d \in IF "path" \in ch THEN Paths ELSE {Absent} :
    Request(w, "amend", "name", [NoJob EXCEPT !.h = h, !.change = ch, !.n = n, !.d = d])

Wants(w, change) == pc[w] = change /\ change \in job[w].change

\* A change not asked for is skipped.
Skip(w) ==
  /\ \/ pc[w] = "name"    /\ "name"    \notin job[w].change /\ Step(w, "content")
     \/ pc[w] = "content" /\ "content" \notin job[w].change /\ Step(w, "path")
     \/ pc[w] = "path"    /\ "path"    \notin job[w].change /\ End(w)
  /\ UNCHANGED <<tables, files, report, history>>

\* The select of each change; only its row's text is kept.
SelectText(w, change, next) ==
  /\ Wants(w, change)
  /\ IF homework[job[w].h] = Absent THEN ReadsNothing(w)
     ELSE /\ Goto(w, next, [job[w] EXCEPT !.text = homework[job[w].h]])
          /\ UNCHANGED <<tables, files, report, history>>

\* mv to the new name, or touch if there is nothing to move.  Whether the command
\* worked is not looked at.
Rename(w) ==
  /\ pc[w] = "rename"
  /\ LET old == job[w].text
         new == [old EXCEPT !.name = job[w].n] IN
     \/ /\ files' = (files \ {old}) \union {new}
        /\ astray' = astray \union ({old} \ {new})
     \/ /\ astray' = astray \union ({new} \ files)
        /\ UNCHANGED files
  /\ Step(w, "renamed")
  /\ UNCHANGED <<tables, report, dropped, repathed, misread>>

UpdateName(w) ==
  /\ pc[w] = "renamed"
  /\ homework' = [homework EXCEPT ![job[w].h] =
                    IF @ = Absent THEN @ ELSE [@ EXCEPT !.name = job[w].n]]
  /\ Step(w, "content")
  /\ UNCHANGED <<used, sent, student, feedback, files, report, history>>

\* The path is appended to what the change of the name left in the variable: after
\* one, the text is written to a path that does not exist.
Rewrite(w) ==
  /\ pc[w] = "rewrite"
  /\ files' \in {files, IF "name" \in job[w].change THEN files ELSE files \union {job[w].text}}
  /\ Step(w, "path")
  /\ UNCHANGED <<tables, report, history>>

\* Mutant of UpdatePath: replace into instead of update.
UpdatePath_replaces(w) ==
  /\ pc[w] = "repath"
  /\ homework' = [homework EXCEPT ![job[w].h] =
                    [path |-> job[w].d, name |-> IF @ = Absent THEN Absent ELSE @.name]]
  /\ repathed' = repathed \union {job[w].h}
  /\ End(w)
  /\ UNCHANGED <<used, sent, student, feedback, files, report, dropped, astray, misread>>

\* "mv ... -r" is refused by mv: the text stays where it is, whatever the path.
UpdatePath(w) ==
  /\ pc[w] = "repath"
  /\ homework' = [homework EXCEPT ![job[w].h] =
                    IF @ = Absent THEN @ ELSE [@ EXCEPT !.path = job[w].d]]
  /\ repathed' = repathed \union {job[w].h}
  /\ End(w)
  /\ UNCHANGED <<used, sent, student, feedback, files, report, dropped, astray, misread>>

Amend(w) == \/ AskAmend(w) \/ Skip(w)
            \/ SelectText(w, "name", "rename") \/ Rename(w) \/ UpdateName(w)
            \/ SelectText(w, "content", "rewrite") \/ Rewrite(w)
            \/ SelectText(w, "path", "repath") \/ UpdatePath(w)
            \/ pc[w] \in {"name", "renamed", "content", "path", "repath"} /\ Fails(w)

-----------------------------------------------------------------------------
(* DeleteBasicHomework *)

AskDrop(w) == \E h \in Homeworks : Request(w, "drop", "text", [NoJob EXCEPT !.h = h])

FindText(w) ==
  /\ pc[w] = "text"
  /\ IF homework[job[w].h] = Absent THEN ReadsNothing(w)
     ELSE /\ Goto(w, "rm", [job[w] EXCEPT !.text = homework[job[w].h]])
          /\ UNCHANGED <<tables, files, report, history>>

RemoveText(w) ==
  /\ pc[w] = "rm"
  /\ files' = files \ {job[w].text}
  /\ astray' = astray \union ({job[w].text} \intersect files)
  /\ Step(w, "dropRow")
  /\ UNCHANGED <<tables, report, dropped, repathed, misread>>

DropRow(w) ==
  /\ pc[w] = "dropRow" /\ ~Published(job[w].h)
  /\ homework' = [homework EXCEPT ![job[w].h] = Absent]
  /\ End(w)
  /\ UNCHANGED <<used, sent, student, feedback, files, report, history>>

Drop(w) == \/ AskDrop(w) \/ FindText(w) \/ RemoveText(w) \/ DropRow(w)
           \/ pc[w] \in {"text", "rm", "dropRow"} /\ Fails(w)

-----------------------------------------------------------------------------
(* AddPublishHomework *)

AskPublish(w) == \E h \in Homeworks, c \in Classes, n \in Names :
  Request(w, "publish", "titles", [NoJob EXCEPT !.h = h, !.c = c, !.n = n])

\* The result is kept; its first field is read after the table is made.
SelectTitles(w) ==
  /\ pc[w] = "titles"
  /\ Goto(w, "create", [job[w] EXCEPT !.titles =
       IF homework[job[w].h] = Absent THEN Absent ELSE Titles])
  /\ UNCHANGED <<tables, files, report, history>>

\* Mutant of CreateTable: create table if not exists.
CreateTable_ifNotExists(w) ==
  /\ pc[w] = "create" /\ job[w].n # NoName
  /\ LET t == TableOf(job[w].h, job[w].n, job[w].c) IN
     /\ feedback' = [feedback EXCEPT ![t] = IF @ = Absent THEN <<>> ELSE @]
     /\ Goto(w, IF job[w].titles = Absent THEN "read" ELSE "fill",
             [job[w] EXCEPT !.table = t])
  /\ UNCHANGED <<homework, used, sent, student, files, report, history>>

\* A name of digits only is no table name, and no two tables have one name.
CreateTable(w) ==
  /\ pc[w] = "create" /\ job[w].n # NoName
  /\ LET t == TableOf(job[w].h, job[w].n, job[w].c) IN
     /\ feedback[t] = Absent
     /\ feedback' = [feedback EXCEPT ![t] = <<>>]
     /\ Goto(w, IF job[w].titles = Absent THEN "read" ELSE "fill",
             [job[w] EXCEPT !.table = t])
  /\ UNCHANGED <<homework, used, sent, student, files, report, history>>

\* Without the homework, the process dies over its titlenum or fills in any number.
ReadTitles(w) ==
  /\ pc[w] = "read"
  /\ \/ /\ \E k \in 0 .. Titles : Goto(w, "fill", [job[w] EXCEPT !.titles = k])
        /\ UNCHANGED <<tables, files, report, history>>
     \/ ReadsNothing(w)

FillTable(w) ==
  /\ pc[w] = "fill" /\ job[w].i < job[w].titles
  /\ feedback[job[w].table] # Absent
  /\ feedback' = [feedback EXCEPT ![job[w].table] = Append(@, 0)]
  /\ Goto(w, "fill", [job[w] EXCEPT !.i = @ + 1])
  /\ UNCHANGED <<homework, used, sent, student, files, report, history>>

InsertSent(w) ==
  /\ pc[w] = "fill" /\ job[w].i = job[w].titles
  /\ homework[job[w].h] # Absent /\ sent[Pub(w)] = Absent
  /\ sent' = [sent EXCEPT ![Pub(w)] =
                [table |-> job[w].table, closed |-> FALSE, report |-> Absent]]
  /\ Step(w, "enrol")
  /\ UNCHANGED <<homework, used, student, feedback, files, report, history>>

\* Mutants of Enrol: insert ignore; a refused enrolment takes the table back.
Enrol_ignores(w) ==
  /\ pc[w] = "enrol"
  /\ LET new == IF sent[Pub(w)] = Absent THEN {} ELSE {job[w].h} \X Members[job[w].c] IN
     student' = [r \in DOMAIN student |->
        IF r \in new /\ student[r] = Absent
        THEN [class |-> job[w].c, marked |-> FALSE, choice |-> Absent,
              scored |-> FALSE, counted |-> Absent]
        ELSE student[r]]
  /\ End(w)
  /\ UNCHANGED <<homework, used, sent, feedback, files, report, history>>

Enrol_takesBack(w) ==
  /\ pc[w] = "enrol"
  /\ LET new == IF sent[Pub(w)] = Absent THEN {} ELSE {job[w].h} \X Members[job[w].c]
         refused == \E r \in new : student[r] # Absent IN
     /\ feedback' = IF refused THEN [feedback EXCEPT ![job[w].table] = Absent] ELSE feedback
     /\ student' = [r \in DOMAIN student |->
          IF r \in new /\ ~refused
          THEN [class |-> job[w].c, marked |-> FALSE, choice |-> Absent,
                scored |-> FALSE, counted |-> Absent]
          ELSE student[r]]
  /\ End(w)
  /\ UNCHANGED <<homework, used, sent, files, report, history>>

\* insert ... select: a row for every student of the class, or none because one of
\* them has the homework already.
Enrol(w) ==
  /\ pc[w] = "enrol"
  /\ LET new == IF sent[Pub(w)] = Absent THEN {} ELSE {job[w].h} \X Members[job[w].c] IN
     /\ \A r \in new : student[r] = Absent
     /\ student' = [r \in DOMAIN student |->
          IF r \in new THEN [class |-> job[w].c, marked |-> FALSE, choice |-> Absent,
                             scored |-> FALSE, counted |-> Absent]
                       ELSE student[r]]
  /\ End(w)
  /\ UNCHANGED <<homework, used, sent, feedback, files, report, history>>

Publish(w) == \/ AskPublish(w) \/ SelectTitles(w) \/ CreateTable(w) \/ ReadTitles(w)
              \/ FillTable(w) \/ InsertSent(w) \/ Enrol(w)
              \/ pc[w] \in {"titles", "create", "fill", "enrol"} /\ Fails(w)

-----------------------------------------------------------------------------
(* AmendPublishHomework: the name and the deadline are data. *)

AskMove(w) == \E p \in Homeworks \X Classes, c \in Classes :
  Request(w, "move", "move", [NoJob EXCEPT !.h = p[1], !.c = p[2], !.to = c])

\* The row keeps its feedback table, which has the name of the former class.
MoveSent(w) ==
  /\ pc[w] = "move"
  /\ LET q == <<job[w].h, job[w].to>> IN
     /\ sent[Pub(w)] # Absent /\ ~Enrolled(Pub(w))
     /\ sent[q] = Absent
     /\ sent' = [sent EXCEPT ![q] = sent[Pub(w)], ![Pub(w)] = Absent]
  /\ End(w)
  /\ UNCHANGED <<homework, used, student, feedback, files, report, history>>

Move(w) == AskMove(w) \/ MoveSent(w) \/ (pc[w] = "move" /\ Fails(w))

-----------------------------------------------------------------------------
(* DeletePublishHomework *)

AskWithdraw(w) == \E p \in Homeworks \X Classes :
  Request(w, "withdraw", "table", [NoJob EXCEPT !.h = p[1], !.c = p[2]])

FindTable(w) ==
  /\ pc[w] = "table"
  /\ IF sent[Pub(w)] = Absent THEN ReadsNothing(w)
     ELSE /\ Goto(w, "dropTable", [job[w] EXCEPT !.table = sent[Pub(w)].table])
          /\ UNCHANGED <<tables, files, report, history>>

DropTable(w) ==
  /\ pc[w] = "dropTable" /\ feedback[job[w].table] # Absent
  /\ feedback' = [feedback EXCEPT ![job[w].table] = Absent]
  /\ dropped' = dropped \union {job[w].table}
  /\ Step(w, "unsend")
  /\ UNCHANGED <<homework, used, sent, student, files, report, astray, repathed, misread>>

DeleteSent(w) ==
  /\ pc[w] = "unsend" /\ ~Enrolled(Pub(w))
  /\ sent' = [sent EXCEPT ![Pub(w)] = Absent]
  /\ End(w)
  /\ UNCHANGED <<homework, used, student, feedback, files, report, history>>

Withdraw(w) == \/ AskWithdraw(w) \/ FindTable(w) \/ DropTable(w) \/ DeleteSent(w)
               \/ pc[w] \in {"table", "dropTable", "unsend"} /\ Fails(w)

-----------------------------------------------------------------------------
(* DoHomework::hand_in_homework and SetStudentAnswer *)

\* Homework, student and class are the client's, and nothing checks that they belong
\* together.
AskHandIn(w) == \E r \in Homeworks \X Students, c \in Classes :
  Request(w, "handIn", "standard", [NoJob EXCEPT !.h = r[1], !.s = r[2], !.c = c])

\* The choice score is what comparing the answers with the standard answer gives.
FindStandard(w) ==
  /\ pc[w] = "standard"
  /\ IF homework[job[w].h] = Absent THEN ReadsNothing(w)
     ELSE /\ \E k \in Scores : Goto(w, "answer", [job[w] EXCEPT !.score = k])
          /\ UNCHANGED <<tables, files, report, history>>

\* An update of no row is no error.
SaveAnswer(w) ==
  /\ pc[w] = "answer"
  /\ student' = [student EXCEPT ![Row(w)] =
                   IF @ = Absent THEN @ ELSE [@ EXCEPT !.choice = job[w].score]]
  /\ Step(w, "counters")
  /\ UNCHANGED <<homework, used, sent, feedback, files, report, history>>

FindCounters(w) ==
  /\ pc[w] = "counters"
  /\ IF sent[Pub(w)] = Absent THEN ReadsNothing(w)
     ELSE /\ Goto(w, "count", [job[w] EXCEPT !.table = sent[Pub(w)].table, !.i = 1])
          /\ UNCHANGED <<tables, files, report, history>>

\* An update counts one answer; a row the table lacks is no error.
PlusOne(counts, i) == IF i <= Len(counts) THEN [counts EXCEPT ![i] = @ + 1] ELSE counts

\* Mutant of Count: an update that fails is passed over.
Count_goesOn(w) ==
  /\ pc[w] = "count" /\ job[w].i <= Titles
  /\ LET t == job[w].table IN
     feedback' \in {feedback, [feedback EXCEPT ![t] =
                                 IF @ = Absent THEN @ ELSE PlusOne(@, job[w].i)]}
  /\ Goto(w, "count", [job[w] EXCEPT !.i = @ + 1])
  /\ UNCHANGED <<homework, used, sent, student, files, report, history>>

Count(w) ==
  /\ pc[w] = "count" /\ job[w].i <= Titles
  /\ feedback[job[w].table] # Absent
  /\ feedback' = [feedback EXCEPT ![job[w].table] = PlusOne(@, job[w].i)]
  /\ Goto(w, "count", [job[w] EXCEPT !.i = @ + 1])
  /\ UNCHANGED <<homework, used, sent, student, files, report, history>>

\* After the last answer, the operation ends as it does after a failure.
HandIn(w) == \/ AskHandIn(w) \/ FindStandard(w) \/ SaveAnswer(w) \/ FindCounters(w)
             \/ Count(w)
             \/ pc[w] \in {"standard", "answer", "counters", "count"} /\ Fails(w)

-----------------------------------------------------------------------------
(* CheckHomework::set_subject_score, SetStudentSubjectScore, CheckStudentCount *)

\* The students are the client's, whether they have the homework or not; the class is
\* what an earlier request left.
AskScores(w) == \E p \in Homeworks \X Classes, S \in SUBSET Students :
  Request(w, "score", "choice", [NoJob EXCEPT !.h = p[1], !.c = p[2], !.named = S, !.todo = S])

\* What the select of a row's choice score leaves: without the row, NULL or any number.
ChoiceRead(r) == IF student[r] = Absent THEN Opt(Scores) ELSE {student[r].choice}

\* Mutant of SelectChoice: a NULL leaves the score of the student before.
SelectChoice_keeps(w) ==
  /\ pc[w] = "choice"
  /\ \E s \in job[w].todo : LET r == <<job[w].h, s>> IN
       \/ /\ \E k \in ChoiceRead(r) :
               Goto(w, "score", [job[w] EXCEPT !.s = s, !.todo = @ \ {s},
                                               !.score = IF k = Absent THEN @ ELSE k])
          /\ misread' = misread \union (IF student[r] = Absent THEN {r} ELSE {})
          /\ UNCHANGED <<tables, files, report, dropped, astray, repathed>>
       \/ student[r] = Absent /\ ReadsNothing(w)

SelectChoice(w) ==
  /\ pc[w] = "choice"
  /\ \E s \in job[w].todo : LET r == <<job[w].h, s>> IN
       \/ /\ \E k \in ChoiceRead(r) :
               Goto(w, "score", [job[w] EXCEPT !.s = s, !.todo = @ \ {s}, !.score = k])
          /\ misread' = misread \union (IF student[r] = Absent THEN {r} ELSE {})
          /\ UNCHANGED <<tables, files, report, dropped, astray, repathed>>
       \/ student[r] = Absent /\ ReadsNothing(w)

\* totalscore is the score given plus the choice score read before; counted is the
\* latter.  An update of no row is no error.
Scored(row, k) == IF row = Absent THEN row ELSE [row EXCEPT !.scored = TRUE, !.counted = k]

\* Mutant of SaveScore: an update that fails is passed over.
SaveScore_goesOn(w) ==
  /\ pc[w] = "score"
  /\ student' \in {student, [student EXCEPT ![Row(w)] = Scored(@, job[w].score)]}
  /\ Step(w, "choice")
  /\ UNCHANGED <<homework, used, sent, feedback, files, report, history>>

SaveScore(w) ==
  /\ pc[w] = "score"
  /\ student' = [student EXCEPT ![Row(w)] = Scored(@, job[w].score)]
  /\ Step(w, "choice")
  /\ UNCHANGED <<homework, used, sent, feedback, files, report, history>>

\* count(studentID) ... group by studentID: a row with 1 for each student whose
\* homeworkstate is 1, of which the first is read; without such a student, anything.
HandInsRead(p) ==
  IF \E s \in Students : LET r == student[<<p[1], s>>]
                         IN  r # Absent /\ r.class = p[2] /\ r.marked
  THEN {1} ELSE {0, Cardinality(Students) + 1}

CheckCount(w) ==
  /\ pc[w] = "choice" /\ job[w].todo = {}
  /\ \/ \E num \in HandInsRead(Pub(w)) :
          IF num - Cardinality(job[w].named) <= 0 THEN Step(w, "close") ELSE End(w)
     \/ HandInsRead(Pub(w)) # {1} /\ ReadsNothing(w)
  /\ UNCHANGED <<tables, files, report, history>>

Close(w) ==
  /\ pc[w] = "close"
  /\ sent' = [sent EXCEPT ![Pub(w)] = IF @ = Absent THEN @ ELSE [@ EXCEPT !.closed = TRUE]]
  /\ Step(w, "header")
  /\ UNCHANGED <<homework, used, student, feedback, files, report, history>>

Header(w) ==
  /\ pc[w] = "header"
  /\ IF sent[Pub(w)] = Absent THEN ReadsNothing(w)
     ELSE LET t == sent[Pub(w)].table IN
          /\ report' = [report EXCEPT ![t] = @ + 1]
          /\ Goto(w, "rows", [job[w] EXCEPT !.table = t, !.i = 1])
          /\ UNCHANGED <<tables, files, history>>

WriteRow(w) ==
  /\ pc[w] = "rows" /\ job[w].i <= Titles
  /\ feedback[job[w].table] # Absent
  /\ IF job[w].i > Len(feedback[job[w].table]) THEN ReadsNothing(w)
     ELSE /\ report' = [report EXCEPT ![job[w].table] = @ + 1]
          /\ Goto(w, "rows", [job[w] EXCEPT !.i = @ + 1])
          /\ UNCHANGED <<tables, files, history>>

\* Mutant of SavePath: the loop over the titles ends one title early.
SavePath_early(w) ==
  /\ pc[w] = "rows" /\ job[w].i >= Titles
  /\ sent' = [sent EXCEPT ![Pub(w)] =
                IF @ = Absent THEN @ ELSE [@ EXCEPT !.report = job[w].table]]
  /\ End(w)
  /\ UNCHANGED <<homework, used, student, feedback, files, report, history>>

SavePath(w) ==
  /\ pc[w] = "rows" /\ job[w].i > Titles
  /\ sent' = [sent EXCEPT ![Pub(w)] =
                IF @ = Absent THEN @ ELSE [@ EXCEPT !.report = job[w].table]]
  /\ End(w)
  /\ UNCHANGED <<homework, used, student, feedback, files, report, history>>

Check(w) == \/ AskScores(w) \/ SelectChoice(w) \/ SaveScore(w) \/ CheckCount(w)
            \/ Close(w) \/ Header(w) \/ WriteRow(w) \/ SavePath(w)
            \/ pc[w] \in {"choice", "score", "close", "header", "rows"} /\ Fails(w)

-----------------------------------------------------------------------------
\* homeworkstate of a student's row is read here and set by nothing in the
\* repository (external).
Mark(r) ==
  /\ student[r] # Absent /\ student[r].choice # Absent /\ ~student[r].marked
  /\ student' = [student EXCEPT ![r].marked = TRUE]
  /\ UNCHANGED <<homework, used, sent, feedback, files, report, pc, job, left, crash, history>>

Operation(w) == Submit(w) \/ Amend(w) \/ Drop(w) \/ Publish(w) \/ Move(w)
                \/ Withdraw(w) \/ HandIn(w) \/ Check(w)

Next == /\ ~crash
        /\ (\E w \in Workers : Operation(w)) \/ (\E r \in Homeworks \X Students : Mark(r))

Spec == Init /\ [][Next]_vars

-----------------------------------------------------------------------------
\* The feedback table of a publication exists, unless DeletePublishHomework has
\* dropped it: create table, its rows, SendHomework and StudentHomework are separate
\* statements, and publications are moved while others are made.
TableKept == \A p \in DOMAIN sent :
  sent[p] # Absent /\ sent[p].table \notin dropped => feedback[sent[p].table] # Absent

\* Until then no other publication counts in it, nor does a thread that publishes
\* take it for its own, although names and numbers can run together in its name and a
\* moved publication keeps the name of its former class.
TableUnshared ==
  /\ \A p, q \in DOMAIN sent :
       sent[p] # Absent /\ sent[q] # Absent /\ sent[p].table = sent[q].table
       /\ sent[p].table \notin dropped => p = q
  /\ \A w \in Workers, p \in DOMAIN sent :
       pc[w] \in {"read", "fill"} /\ sent[p] # Absent /\ sent[p].table = job[w].table
       => job[w].table \in dropped

\* Every hand-in counts its answers from the first title on, so whatever is half
\* done or failed, a title has at least the answers of the titles after it.
CountsDescend == \A t \in Tables \ dropped :
  feedback[t] # Absent =>
    \A i, j \in 1 .. Len(feedback[t]) : i < j => feedback[t][i] >= feedback[t][j]

\* A report that SendHomework points to is complete: header and a row per title.
ReportComplete == \A p \in DOMAIN sent :
  sent[p] # Absent /\ sent[p].report # Absent => report[sent[p].report] > Titles

\* A homework is closed and reported on only when every student the request named has a
\* score, but for those who did not have the homework when their choice score was read.
ScoredBeforeClose == \A w \in Workers : pc[w] \in {"close", "header", "rows"} =>
  \A s \in job[w].named : LET r == <<job[w].h, s>> IN
    r \in misread \/ (student[r] # Absent /\ student[r].scored)

\* A homework's text is there, unless an operation removed or renamed a text of that
\* name, a rename failed, or the homework's path was changed.
TextBehindRow == \A h \in Homeworks \ repathed :
  homework[h] # Absent => homework[h] \in files \union astray

\* No total has a choice score in it that its student cannot have: the students of a
\* request are scored in one loop, those who have not handed in among the others.  A
\* student who gets the homework between the two statements is the exception.
TotalIsOwn == \A r \in DOMAIN student \ misread :
  student[r] # Absent /\ student[r].counted # Absent => student[r].choice # Absent

\* CheckStudentCount finds the checking finished only when it is: if all who have a
\* score have handed in, then all who have handed in have a score.
ClosesWhenChecked ==
  [][\A w \in Workers : pc[w] = "choice" /\ pc'[w] = "close" =>
       LET Given(P(_)) == {s \in Students : /\ student[<<job[w].h, s>>] # Absent
                                           /\ student[<<job[w].h, s>>].class = job[w].c
                                           /\ P(student[<<job[w].h, s>>])}
           HandedIn == Given(LAMBDA r : r.marked)
           HasScore == Given(LAMBDA r : r.scored)
       IN  HasScore \subseteq HandedIn => HandedIn \subseteq HasScore]_vars

-----------------------------------------------------------------------------
(* The tables implement the life of homework. *)

Rows(P(_)) == {r \in DOMAIN student : student[r] # Absent /\ P(student[r])}
Pubs(P(_)) == {p \in DOMAIN sent : sent[p] # Absent /\ P(sent[p])}

Life == INSTANCE HomeworkLife
          WITH sent     <- Pubs(LAMBDA p : TRUE),
               given    <- {<<r[1], r[2], student[r].class>> : r \in Rows(LAMBDA r : TRUE)},
               scored   <- Rows(LAMBDA r : r.scored),
               closed   <- Pubs(LAMBDA p : p.closed),
               reported <- Pubs(LAMBDA p : p.report # Absent)

\* Operations that interleave and fail anywhere keep to it: the enrolment of a class is
\* all or nothing and final, only who has a homework gets a score for it, and what was
\* closed is not opened again.
LifeOfHomework == Life!Spec
=============================================================================
