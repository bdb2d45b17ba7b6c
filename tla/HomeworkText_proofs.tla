------------------------- MODULE HomeworkText_proofs -------------------------
(***************************************************************************)
(* The texts behind the rows of Homework: what a thread that submits or    *)
(* renames relies on between a file command and the statement that records *)
(* it, for every number of threads, homework, names and paths.             *)
(***************************************************************************)
EXTENDS HomeworkData_proofs

\* A step after which the acting thread relies on no text, and which changes no row and
\* no text.
Texting  == {"insert", "rename", "renamed"}
Apart(w) == /\ Others(w) /\ (Stays(w) \/ pc'[w] \notin Texting)
            /\ UNCHANGED <<homework, used, files, astray, repathed>>

LEMMA GotoApart ==
  ASSUME JobsOK, NEW w \in Workers, NEW l, l \notin Texting, NEW j,
         Goto(w, l, j) \/ Step(w, l), UNCHANGED <<homework, used, files, astray, repathed>>
  PROVE  Apart(w)
BY GotoAt DEF Apart, At, Step

LEMMA EndApart ==
  ASSUME JobsOK, NEW w \in Workers,
         End(w), UNCHANGED <<homework, used, files, astray, repathed>>
  PROVE  Apart(w)
BY GotoApart DEF End, Texting

LEMMA RequestApart ==
  ASSUME JobsOK, NEW w \in Workers, NEW op, NEW l, l \notin Texting, NEW j, Request(w, op, l, j)
  PROVE  Apart(w)
BY RequestAt DEF Apart, At, Request, tables, history

LEMMA FailsApart ==
  ASSUME JobsOK, NEW w \in Workers, Fails(w) \/ ReadsNothing(w)
  PROVE  Apart(w)
<1>1. UNCHANGED <<homework, used, files, astray, repathed>>
  BY DEF Fails, ReadsNothing, tables, history
<1>2. CASE End(w)
  BY <1>1, <1>2, EndApart
<1>3. CASE UNCHANGED <<pc, job>>
  BY <1>1, <1>3 DEF Apart, Others, Stays
<1> QED
  BY <1>2, <1>3 DEF Fails, ReadsNothing

\* Publications are made, moved, withdrawn, answered and scored apart from the texts.
LEMMA PublicationApart ==
  ASSUME JobsOK, NEW w \in Workers, Publish(w) \/ Move(w) \/ Withdraw(w) \/ HandIn(w) \/ Check(w)
  PROVE  Apart(w)
<1>1. (OfClass \union {"idle"}) \intersect Texting = {}
  BY DEF Texting, OfClass
<1>2. CASE AskPublish(w) \/ AskMove(w) \/ AskWithdraw(w) \/ AskHandIn(w) \/ AskScores(w)
  <2>1. {"titles", "move", "table", "standard", "choice"} \intersect Texting = {}
    BY DEF Texting
  <2>2. CASE AskPublish(w) \/ AskMove(w)
    BY <2>1, <2>2, RequestApart DEF AskPublish, AskMove
  <2>3. CASE AskWithdraw(w) \/ AskHandIn(w)
    BY <2>1, <2>3, RequestApart DEF AskWithdraw, AskHandIn
  <2>4. CASE AskScores(w)
    BY <2>1, <2>4, RequestApart DEF AskScores
  <2> QED
    BY <1>2, <2>2, <2>3, <2>4
<1>3. CASE Fails(w) \/ ReadsNothing(w)
  BY <1>3, FailsApart
<1>4. CASE SelectTitles(w) \/ CreateTable(w) \/ ReadTitles(w) \/ FillTable(w) \/ InsertSent(w)
           \/ Enrol(w)
  <2>1. \/ ReadsNothing(w)
        \/ \E l \in OfClass : \E j : Goto(w, l, j)
        \/ End(w)
    BY <1>4, Zenon DEF SelectTitles, CreateTable, ReadTitles, FillTable, InsertSent, Enrol, Step,
       OfClass
  <2>2. ReadsNothing(w) \/ UNCHANGED <<homework, used, files, astray, repathed>>
    BY <1>4 DEF SelectTitles, CreateTable, ReadTitles, FillTable, InsertSent, Enrol, tables, history
  <2> QED
    BY <1>1, <2>1, <2>2, GotoApart, EndApart, FailsApart
<1>5. CASE MoveSent(w) \/ FindTable(w) \/ DropTable(w) \/ DeleteSent(w)
  <2>1. \/ ReadsNothing(w)
        \/ \E l \in OfClass : \E j : Goto(w, l, j)
        \/ End(w)
    BY <1>5 DEF MoveSent, FindTable, DropTable, DeleteSent, Step, OfClass
  <2>2. ReadsNothing(w) \/ UNCHANGED <<homework, used, files, astray, repathed>>
    BY <1>5 DEF MoveSent, FindTable, DropTable, DeleteSent, tables, history
  <2> QED
    BY <1>1, <2>1, <2>2, GotoApart, EndApart, FailsApart
<1>6. CASE FindStandard(w) \/ SaveAnswer(w) \/ FindCounters(w) \/ Count(w) \/ SaveScore(w)
  <2>1. ReadsNothing(w) \/ \E l \in OfClass : \E j : Goto(w, l, j)
    BY <1>6 DEF FindStandard, SaveAnswer, FindCounters, Count, SaveScore, Step, OfClass
  <2>2. ReadsNothing(w) \/ UNCHANGED <<homework, used, files, astray, repathed>>
    BY <1>6 DEF FindStandard, SaveAnswer, FindCounters, Count, SaveScore, tables, history
  <2> QED
    BY <1>1, <2>1, <2>2, GotoApart, FailsApart
<1>8. CASE SelectChoice(w) /\ ~ReadsNothing(w)
  <2>1. /\ \E j : Goto(w, "score", j)
        /\ UNCHANGED <<tables, files, report, dropped, astray, repathed>>
    BY <1>8, Zenon DEF SelectChoice
  <2>2. "score" \notin Texting
    BY DEF Texting
  <2> QED
    BY <2>1, <2>2, GotoApart DEF tables
<1>7. CASE CheckCount(w) \/ Close(w) \/ Header(w) \/ WriteRow(w) \/ SavePath(w)
  <2>1. \/ ReadsNothing(w)
        \/ \E l \in OfClass : \E j : Goto(w, l, j)
        \/ End(w)
    BY <1>7 DEF CheckCount, Close, Header, WriteRow, SavePath, Step, OfClass
  <2>2. ReadsNothing(w) \/ UNCHANGED <<homework, used, files, astray, repathed>>
    BY <1>7 DEF CheckCount, Close, Header, WriteRow, SavePath, tables, history
  <2> QED
    BY <1>1, <2>1, <2>2, GotoApart, EndApart, FailsApart
<1> QED
  BY <1>2, <1>3, <1>4, <1>5, <1>6, <1>7, <1>8 DEF Publish, Move, Withdraw, HandIn, Check

Touches(w) ==
  \/ WriteText(w) \/ InsertHomework(w)
  \/ SelectText(w, "name", "rename") /\ ~Apart(w)
  \/ Rename(w) \/ UpdateName(w) \/ Rewrite(w) \/ UpdatePath(w)
  \/ RemoveText(w) \/ DropRow(w)

LEMMA TextCases ==
  ASSUME JobsOK, [Next]_vars
  PROVE  \/ \E w \in Workers : Apart(w) \/ Touches(w)
         \/ \E r \in Homeworks \X Students : Mark(r)
         \/ UNCHANGED vars
<1>1. {"write", "name", "content", "rewrite", "path", "repath", "text", "rm", "idle"}
      \intersect Texting = {}
  BY DEF Texting
<1>2. ASSUME NEW w \in Workers, AskSubmit(w) \/ AskAmend(w) \/ AskDrop(w) PROVE Apart(w)
  BY <1>1, <1>2, RequestApart DEF AskSubmit, AskAmend, AskDrop
<1>3. ASSUME NEW w \in Workers, Skip(w) PROVE Apart(w)
  BY <1>1, <1>3, GotoApart, EndApart DEF Skip, tables, history
<1>4. ASSUME NEW w \in Workers, NEW l \in {"rewrite", "repath"}, NEW ch, SelectText(w, ch, l)
      PROVE  Apart(w)
  BY <1>1, <1>4, GotoApart, FailsApart DEF SelectText, tables, history
<1>5. ASSUME NEW w \in Workers, FindText(w) PROVE Apart(w)
  BY <1>1, <1>5, GotoApart, FailsApart DEF FindText, tables, history
<1>6. ASSUME NEW w \in Workers, Submit(w) \/ Amend(w) \/ Drop(w) PROVE Apart(w) \/ Touches(w)
  BY <1>2, <1>3, <1>4, <1>5, <1>6, FailsApart DEF Submit, Amend, Drop, Touches
<1> QED
  BY <1>6, PublicationApart DEF Next, Operation

-----------------------------------------------------------------------------
\* A text that is there, or that an operation is known to have taken away.
TextKnown(x) == x \in files \/ x \in astray

Renamed(w) == [job[w].text EXCEPT !.name = job[w].n]

\* The thread's row is as old as the text it read, or has another path on record.
SamePath(w) ==
  /\ job[w].h \in used
  /\ \/ job[w].h \in repathed \/ homework[job[w].h] = Absent
     \/ homework[job[w].h].path = job[w].text.path

Recording(w) ==
  /\ pc[w] = "insert" => TextKnown(job[w].text)
  /\ pc[w] \in {"rename", "renamed"} => job[w].text \in Texts /\ SamePath(w)
  /\ pc[w] = "renamed" => TextKnown(Renamed(w))

TextsInv ==
  /\ Typed /\ (\A w \in Workers : Recording(w)) /\ TextBehindRow
  /\ \A h \in Homeworks : homework[h] # Absent => h \in used

LEMMA AbsentIsNoText == Absent \notin Texts
  BY DataAssumption

\* No text is forgotten.
LEMMA TextStays ==
  ASSUME Typed, [Next]_vars, NEW x, TextKnown(x)
  PROVE  TextKnown(x)'
<1>1. ASSUME NEW w \in Workers, Touches(w) PROVE TextKnown(x)'
  <2>1. CASE Rename(w)
    <3>1. PICK old, new : \/ /\ files' = (files \ {old}) \union {new}
                             /\ astray' = astray \union ({old} \ {new})
                          \/ files' = files /\ astray \subseteq astray'
      BY <2>1, Zenon DEF Rename
    <3> QED
      BY <3>1 DEF TextKnown
  <2>2. CASE RemoveText(w)
    BY <2>2 DEF RemoveText, TextKnown
  <2>3. CASE ~Rename(w) /\ ~RemoveText(w)
    BY <1>1, <2>3 DEF Touches, WriteText, InsertHomework, SelectText, ReadsNothing, Fails, UpdateName,
       Rewrite, UpdatePath, DropRow, history, TextKnown
  <2> QED
    BY <2>1, <2>2, <2>3
<1> QED
  BY <1>1, TextCases DEF Typed, Apart, Mark, vars, history, TextKnown

\* What a step does to the row of a homework.
LEMMA RowSteps ==
  ASSUME Typed, [Next]_vars, NEW h \in Homeworks
  PROVE  /\ used \subseteq used' /\ repathed \subseteq repathed'
         /\ \/ UNCHANGED homework[h]
            \/ homework'[h] = Absent
            \/ h \in repathed' /\ homework[h] # Absent
            \/ h \in used' \ used
               /\ \E w \in Workers : pc[w] = "insert" /\ homework'[h] = job[w].text
            \/ homework[h] # Absent
               /\ \E w \in Workers : /\ pc[w] = "renamed" /\ job[w].h = h
                                     /\ homework'[h] = [homework[h] EXCEPT !.name = job[w].n]
<1>1. DataOK /\ JobsOK
  BY DEF Typed
<1>2. CASE UNCHANGED <<homework, used, repathed>>
  BY <1>2
<1>3. ASSUME NEW w \in Workers, InsertHomework(w)
      PROVE  /\ used \subseteq used' /\ UNCHANGED repathed
             /\ \/ UNCHANGED homework[h]
                \/ h \in used' \ used /\ pc[w] = "insert" /\ homework'[h] = job[w].text
  BY <1>1, <1>3 DEF InsertHomework, DataOK, history
<1>4. ASSUME NEW w \in Workers, UpdateName(w)
      PROVE  /\ UNCHANGED <<used, repathed>>
             /\ \/ UNCHANGED homework[h]
                \/ /\ homework[h] # Absent /\ pc[w] = "renamed" /\ job[w].h = h
                   /\ homework'[h] = [homework[h] EXCEPT !.name = job[w].n]
  BY <1>1, <1>4, Zenon DEF UpdateName, DataOK, history
<1>5. ASSUME NEW w \in Workers, UpdatePath(w)
      PROVE  /\ UNCHANGED used /\ repathed \subseteq repathed'
             /\ UNCHANGED homework[h] \/ (h \in repathed' /\ homework[h] # Absent)
  <2>1. CASE h = job[w].h
    BY <1>1, <1>5, <2>1, Zenon DEF UpdatePath, DataOK
  <2>2. CASE h # job[w].h
    BY <1>1, <1>5, <2>2 DEF UpdatePath, DataOK
  <2> QED
    BY <2>1, <2>2
<1>6. ASSUME NEW w \in Workers, DropRow(w)
      PROVE  UNCHANGED <<used, repathed>> /\ (UNCHANGED homework[h] \/ homework'[h] = Absent)
  BY <1>1, <1>6 DEF DropRow, DataOK, history
<1>7. ASSUME NEW w \in Workers, Touches(w)
      PROVE  \/ UNCHANGED <<homework, used, repathed>>
             \/ InsertHomework(w) \/ UpdateName(w) \/ UpdatePath(w) \/ DropRow(w)
  BY <1>7 DEF Touches, WriteText, SelectText, ReadsNothing, Fails, Rename, Rewrite, RemoveText,
     tables, history
<1>8. CASE \E w \in Workers : InsertHomework(w) \/ UpdateName(w) \/ UpdatePath(w) \/ DropRow(w)
  BY <1>3, <1>4, <1>5, <1>6, <1>8
<1> QED
  BY <1>1, <1>2, <1>7, <1>8, TextCases DEF Apart, Mark, vars, tables, history

LEMMA OwnTextSteps ==
  ASSUME Typed, [Next]_vars, NEW v \in Workers
  PROVE  \/ Stays(v) \/ pc'[v] \notin Texting
         \/ WriteText(v) /\ At(v, "insert", job[v])
         \/ Rename(v) /\ At(v, "renamed", job[v])
         \/ SelectText(v, "name", "rename") /\ ~Apart(v)
<1>1. DataOK /\ JobsOK
  BY DEF Typed
<1>2. ASSUME NEW w \in Workers, Touches(w), w # v PROVE Stays(v)
  <2>1. \E l, j : Goto(w, l, j)
    BY <1>1, <1>2, FailsApart DEF Touches, WriteText, InsertHomework, SelectText, Rename, UpdateName,
       Rewrite, UpdatePath, RemoveText, DropRow, Step, End
  <2> QED
    BY <1>1, <1>2, <2>1, GotoAt DEF Others, Stays
<1>3. CASE WriteText(v) \/ Rename(v)
  BY <1>1, <1>3, GotoAt DEF WriteText, Rename, Step, End, At, Texting
<1>4. CASE InsertHomework(v) \/ UpdateName(v) \/ Rewrite(v) \/ UpdatePath(v) \/ RemoveText(v) \/ DropRow(v)
  <2>1. \E l \in Labels \ Texting : \E j : Goto(v, l, j)
    BY <1>4 DEF InsertHomework, UpdateName, Rewrite, UpdatePath, RemoveText, DropRow, Step, End,
       Labels, Texting
  <2> QED
    BY <1>1, <2>1, GotoAt DEF At
<1>5. ASSUME NEW w \in Workers, Apart(w) PROVE Stays(v) \/ pc'[v] \notin Texting
  BY <1>5 DEF Apart, Others, Stays
<1>6. CASE (\E r \in Homeworks \X Students : Mark(r)) \/ UNCHANGED vars
  BY <1>6 DEF Mark, vars, Stays
<1> QED
  BY <1>1, <1>2, <1>3, <1>4, <1>5, <1>6, TextCases DEF Touches

LEMMA SamePathStays ==
  ASSUME Typed, [Next]_vars, NEW v \in Workers, Stays(v), job[v].h \in Homeworks, SamePath(v)
  PROVE  SamePath(v)'
<1>1. PICK h \in Homeworks : h = job[v].h
  OBVIOUS
<1>2. homework[h] # Absent => homework[h] \in Texts
  BY DEF Typed, DataOK, Opt
<1>3. \A n : homework[h] \in Texts => [homework[h] EXCEPT !.name = n].path = homework[h].path
  BY DEF Texts
<1>4. h \in used /\ (h \in repathed \/ homework[h] = Absent \/ homework[h].path = job[v].text.path)
  BY <1>1 DEF SamePath
<1>5. h \in used' /\ (h \in repathed' \/ homework'[h] = Absent \/ homework'[h].path = job[v].text.path)
  <2>1. used \subseteq used' /\ repathed \subseteq repathed'
    BY RowSteps
  <2>2. CASE \E w \in Workers : homework[h] # Absent /\ homework'[h] = [homework[h] EXCEPT !.name = job[w].n]
    BY <1>2, <1>3, <1>4, <2>1, <2>2
  <2>3. CASE UNCHANGED homework[h]
    BY <1>4, <2>1, <2>3
  <2> QED
    BY <1>4, <2>1, <2>2, <2>3, RowSteps
<1> QED
  BY <1>1, <1>5 DEF SamePath, Stays

LEMMA RecordingNext ==
  ASSUME TextsInv, [Next]_vars, NEW v \in Workers
  PROVE  Recording(v)'
<1>1. Typed /\ DataOK /\ JobsOK /\ Recording(v) /\ job[v] \in Jobs /\ Fits(pc[v], job[v])
  BY AtWork DEF TextsInv, Typed
<1>2. CASE Stays(v)
  <2>1. ASSUME pc[v] \in {"rename", "renamed"} PROVE SamePath(v)'
    BY <1>1, <1>2, <2>1, SamePathStays DEF Recording, Fits
  <2>2. ASSUME pc[v] = "insert" PROVE TextKnown(job[v].text)'
    BY <1>1, <1>2, <2>2, TextStays DEF Recording, TextKnown, Stays
  <2>3. ASSUME pc[v] = "renamed" PROVE TextKnown(Renamed(v))'
    BY <1>1, <1>2, <2>3, TextStays DEF Recording, TextKnown, Renamed, Stays
  <2> QED
    BY <1>1, <1>2, <2>1, <2>2, <2>3 DEF Recording, Stays
<1>3. CASE pc'[v] \notin Texting
  BY <1>3 DEF Recording, Texting
<1>4. CASE WriteText(v) /\ At(v, "insert", job[v])
  BY <1>4 DEF WriteText, At, Recording, TextKnown
<1>5. CASE Rename(v) /\ At(v, "renamed", job[v])
  <2>1. pc[v] = "rename" /\ job[v].h \in Homeworks
    BY <1>1, <1>5 DEF Rename, Fits
  <2>2. SamePath(v) /\ job[v].text \in Texts
    BY <1>1, <2>1 DEF Recording
  <2>3. UNCHANGED <<homework, used, repathed>>
    BY <1>5 DEF Rename, tables
  <2>4. Renamed(v) \in files' \/ Renamed(v) \in astray'
    BY <1>5, Zenon DEF Rename, Renamed
  <2> QED
    BY <1>5, <2>2, <2>3, <2>4 DEF Recording, SamePath, Renamed, TextKnown, At
<1>6. CASE SelectText(v, "name", "rename") /\ ~Apart(v)
  <2> DEFINE j == [job[v] EXCEPT !.text = homework[job[v].h]]
  <2>1. /\ homework[job[v].h] # Absent /\ pc[v] = "name" /\ job[v].h \in Homeworks
        /\ Goto(v, "rename", j) /\ UNCHANGED <<tables, history>>
    BY <1>1, <1>6, FailsApart DEF SelectText, Wants, Fits
  <2>2. At(v, "rename", j) /\ j.h = job[v].h /\ j.text = homework[job[v].h]
    BY <1>1, <2>1, GotoAt DEF Jobs
  <2>3. homework[job[v].h] \in Texts /\ job[v].h \in used
    BY <1>1, <2>1 DEF DataOK, Opt, TextsInv
  <2> QED
    BY <2>1, <2>2, <2>3 DEF Recording, SamePath, At, tables, history
<1> QED
  BY <1>1, <1>2, <1>3, <1>4, <1>5, <1>6, OwnTextSteps

LEMMA TextsNext ==
  ASSUME TextsInv, [Next]_vars
  PROVE  TextsInv'
<1>1. Typed /\ DataOK /\ JobsOK /\ Typed'
  BY TypedNext DEF TextsInv, Typed
<1>2. ASSUME NEW h \in Homeworks, h \notin repathed', homework'[h] # Absent
      PROVE  TextKnown(homework[h])' /\ h \in used'
  <2>1. h \notin repathed /\ used \subseteq used'
    BY <1>1, <1>2, RowSteps
  <2>2. CASE UNCHANGED homework[h]
    <3>1. TextKnown(homework[h]) /\ h \in used
      BY <1>2, <2>1, <2>2 DEF TextsInv, TextBehindRow, TextKnown
    <3> QED
      BY <1>1, <2>1, <2>2, <3>1, TextStays DEF TextKnown
  <2>3. CASE \E w \in Workers : pc[w] = "insert" /\ h \in used' /\ homework'[h] = job[w].text
    <3>1. PICK w \in Workers : pc[w] = "insert" /\ h \in used' /\ homework'[h] = job[w].text
      BY <2>3
    <3>2. TextKnown(job[w].text)
      BY <3>1 DEF TextsInv, Recording
    <3> QED
      BY <1>1, <3>1, <3>2, TextStays DEF TextKnown
  <2>4. CASE homework[h] # Absent
             /\ \E w \in Workers : /\ pc[w] = "renamed" /\ job[w].h = h
                                   /\ homework'[h] = [homework[h] EXCEPT !.name = job[w].n]
    <3>1. PICK w \in Workers : /\ pc[w] = "renamed" /\ job[w].h = h
                               /\ homework'[h] = [homework[h] EXCEPT !.name = job[w].n]
      BY <2>4
    <3>2. /\ TextKnown(Renamed(w)) /\ job[w].text \in Texts
          /\ homework[h].path = job[w].text.path
      BY <2>1, <2>4, <3>1 DEF TextsInv, Recording, SamePath
    <3>3. homework[h] \in Texts
      BY <1>1, <2>4 DEF DataOK, Opt
    <3>4. homework'[h] = Renamed(w)
      BY <3>1, <3>2, <3>3 DEF Renamed, Texts
    <3>5. h \in used'
      BY <2>1, <2>4 DEF TextsInv
    <3> QED
      BY <1>1, <3>2, <3>4, <3>5, TextStays DEF TextKnown
  <2> QED
    BY <1>1, <1>2, <2>2, <2>3, <2>4, RowSteps
<1>3. TextBehindRow'
  BY <1>2 DEF TextBehindRow, TextKnown
<1>4. ASSUME NEW h \in Homeworks, homework'[h] # Absent PROVE h \in used'
  BY <1>1, <1>4, RowSteps DEF TextsInv
<1> QED
  BY <1>1, <1>3, <1>4, RecordingNext DEF TextsInv

LEMMA InitTexts ==
  ASSUME Init
  PROVE  TextsInv
BY InitTyped DEF Init, TextsInv, Recording, TextBehindRow

\* A homework's text is there, unless an operation removed or renamed a text of that
\* name, a rename failed, or the homework's path was changed: two threads that rename one
\* homework, or rename it while it is dropped, lose nothing else.
THEOREM TextsAreBehindRows == Spec => []TextBehindRow
<1>1. TextsInv => TextBehindRow
  BY DEF TextsInv
<1> QED
  BY <1>1, InitTexts, TextsNext, PTL DEF Spec

=============================================================================
