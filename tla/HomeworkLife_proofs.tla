------------------------- MODULE HomeworkLife_proofs -------------------------
(***************************************************************************)
(* The tables of HomeworkData implement the life of homework: every        *)
(* statement of every operation is a step of HomeworkLife or changes       *)
(* nothing that HomeworkLife tells apart, for every value of the constants.*)
(***************************************************************************)
EXTENDS HomeworkData_proofs

LifeSent     == Pubs(LAMBDA p : TRUE)
LifeClosed   == Pubs(LAMBDA p : p.closed)
LifeReported == Pubs(LAMBDA p : p.report # Absent)
LifeScored   == Rows(LAMBDA r : r.scored)
LifeGiven    == {<<r[1], r[2], student[r].class>> : r \in Rows(LAMBDA r : TRUE)}

LEMMA LifeInit ==
  ASSUME Init
  PROVE  Life!Init
BY DEF Init, Life!Init, Pubs, Rows

LEMMA LifeStutter ==
  ASSUME UNCHANGED <<sent, student>>
  PROVE  UNCHANGED Life!vars
BY DEF Life!vars, Pubs, Rows

\* What the tables say of the life of homework.
SentLife ==
  /\ LifeSent     = {p \in Homeworks \X Classes : sent[p] # Absent}
  /\ LifeClosed   = {p \in Homeworks \X Classes : sent[p] # Absent /\ sent[p].closed}
  /\ LifeReported = {p \in Homeworks \X Classes : sent[p] # Absent /\ sent[p].report # Absent}

StudentLife ==
  /\ LifeScored = {r \in Homeworks \X Students : student[r] # Absent /\ student[r].scored}
  /\ LifeGiven  = {<<r[1], r[2], student[r].class>> :
                     r \in {x \in Homeworks \X Students : student[x] # Absent}}

LEMMA TablesLife ==
  ASSUME Typed, [Next]_vars
  PROVE  SentLife /\ StudentLife /\ SentLife' /\ StudentLife'
<1>1. DataOK /\ DataOK'
  BY TypedNext DEF Typed
<1>2. SentLife /\ SentLife'
  BY <1>1 DEF DataOK, SentLife, LifeSent, LifeClosed, LifeReported, Pubs
<1>3. StudentLife /\ StudentLife'
  BY <1>1 DEF DataOK, StudentLife, LifeScored, LifeGiven, Rows
<1> QED
  BY <1>2, <1>3

LEMMA SameStudents ==
  ASSUME UNCHANGED student
  PROVE  LifeGiven' = LifeGiven /\ LifeScored' = LifeScored
BY DEF LifeGiven, LifeScored, Rows

LEMMA SameSent ==
  ASSUME UNCHANGED sent
  PROVE  LifeSent' = LifeSent /\ LifeClosed' = LifeClosed /\ LifeReported' = LifeReported
BY DEF LifeSent, LifeClosed, LifeReported, Pubs

LEMMA InsertIsSend ==
  ASSUME Typed, [Next]_vars, NEW w \in Workers, InsertSent(w),
         NEW p \in Homeworks \X Classes, p = Pub(w)
  PROVE  Life!Send(p)
<1>1. DataOK /\ DataOK'
  BY TypedNext DEF Typed
<1> DEFINE new == [table |-> job[w].table, closed |-> FALSE, report |-> Absent]
<1>2. sent[p] = Absent /\ sent' = [sent EXCEPT ![p] = new] /\ UNCHANGED student
  BY DEF InsertSent
<1>3. new # Absent
  <2>1. Fits(pc[w], job[w]) /\ pc[w] = "fill"
    BY AtWork DEF Typed, InsertSent
  <2>2. new \in Sent
    BY <2>1 DEF Fits, OfTable, Sent, Opt
  <2> QED
    BY <2>2, AbsentIsNoTable
<1>4. ~new.closed /\ new.report = Absent
  OBVIOUS
<1> HIDE DEF new
<1>5. \A q \in Homeworks \X Classes : sent'[q] = IF q = p THEN new ELSE sent[q]
  BY <1>1, <1>2 DEF DataOK
<1>6. p \notin LifeSent /\ LifeSent' = LifeSent \union {p}
  BY <1>1, <1>2, <1>3, <1>5, TablesLife DEF SentLife
<1>7. LifeClosed' = LifeClosed /\ LifeReported' = LifeReported
  <2>1. \A q \in Homeworks \X Classes :
          /\ sent'[q] # Absent /\ sent'[q].closed <=> sent[q] # Absent /\ sent[q].closed
          /\ sent'[q] # Absent /\ sent'[q].report # Absent
             <=> sent[q] # Absent /\ sent[q].report # Absent
    BY <1>2, <1>4, <1>5
  <2> QED
    BY <2>1, TablesLife DEF SentLife
<1>8. LifeGiven' = LifeGiven /\ LifeScored' = LifeScored
  BY <1>2, SameStudents
<1> QED
  BY <1>6, <1>7, <1>8 DEF Life!Send, LifeSent, LifeClosed, LifeReported, LifeGiven, LifeScored

LEMMA DeleteIsWithdraw ==
  ASSUME Typed, [Next]_vars, NEW w \in Workers, DeleteSent(w), sent[Pub(w)] # Absent,
         NEW p \in Homeworks \X Classes, p = Pub(w)
  PROVE  Life!Withdraw(p)
<1>1. DataOK /\ DataOK'
  BY TypedNext DEF Typed
<1>2. sent[p] # Absent /\ sent' = [sent EXCEPT ![p] = Absent] /\ UNCHANGED student /\ ~Enrolled(p)
  BY DEF DeleteSent
<1>3. \A q \in Homeworks \X Classes : sent'[q] = IF q = p THEN Absent ELSE sent[q]
  BY <1>1, <1>2 DEF DataOK
<1>4. p \in LifeSent /\ LifeSent' = LifeSent \ {p}
  BY <1>1, <1>2, <1>3, TablesLife DEF SentLife
<1>5. LifeClosed' = LifeClosed \ {p} /\ LifeReported' = LifeReported \ {p}
  BY <1>1, <1>2, <1>3, TablesLife DEF SentLife
<1>6. LifeGiven' = LifeGiven /\ LifeScored' = LifeScored
  BY <1>2, SameStudents
<1>7. Life!GivenTo(p) = {}
  <2>1. ASSUME NEW s \in Students, <<p[1], s, p[2]>> \in LifeGiven PROVE FALSE
    BY <1>1, <1>2, <2>1, TablesLife DEF StudentLife, Enrolled
  <2> QED
    BY <2>1 DEF Life!GivenTo, LifeGiven
<1> QED
  BY <1>4, <1>5, <1>6, <1>7
  DEF Life!Withdraw, LifeSent, LifeClosed, LifeReported, LifeGiven, LifeScored

LEMMA MoveIsMove ==
  ASSUME Typed, [Next]_vars, NEW w \in Workers, MoveSent(w),
         NEW p \in Homeworks \X Classes, p = Pub(w),
         NEW q \in Homeworks \X Classes, q = <<job[w].h, job[w].to>>
  PROVE  Life!Move(p, q)
<1>1. DataOK
  BY DEF Typed
<1>2. /\ sent[p] # Absent /\ sent[q] = Absent /\ p # q /\ q[1] = p[1]
      /\ sent' = [sent EXCEPT ![q] = sent[p], ![p] = Absent]
      /\ UNCHANGED student /\ ~Enrolled(p)
  BY DEF MoveSent, Pub
<1>3. \A x \in Homeworks \X Classes :
        sent'[x] = IF x = q THEN sent[p] ELSE IF x = p THEN Absent ELSE sent[x]
  BY <1>1, <1>2 DEF DataOK
<1>4. p \in LifeSent /\ q \notin LifeSent
  BY <1>2, TablesLife DEF SentLife
<1>5. LifeSent' = IF p \in LifeSent THEN (LifeSent \ {p}) \union {q} ELSE LifeSent
  <2>1. \A x \in Homeworks \X Classes :
          sent'[x] # Absent <=>
            IF x = q THEN sent[p] # Absent ELSE x # p /\ sent[x] # Absent
    BY <1>2, <1>3
  <2>2. /\ LifeSent = {x \in Homeworks \X Classes : sent[x] # Absent}
        /\ LifeSent' = {x \in Homeworks \X Classes : sent'[x] # Absent}
    BY TablesLife DEF SentLife
  <2>3. \A x \in Homeworks \X Classes :
          x \in LifeSent' <=> IF x = q THEN p \in LifeSent ELSE x # p /\ x \in LifeSent
    BY <2>1, <2>2
  <2>4. /\ q \notin LifeSent
        /\ LifeSent \subseteq Homeworks \X Classes /\ LifeSent' \subseteq Homeworks \X Classes
    BY <1>2, <2>2
  <2>5. CASE p \in LifeSent
    BY <1>2, <2>3, <2>4, <2>5
  <2>6. CASE p \notin LifeSent
    BY <2>3, <2>4, <2>6
  <2> QED
    BY <2>5, <2>6
<1>6. LifeClosed' = IF p \in LifeClosed THEN (LifeClosed \ {p}) \union {q} ELSE LifeClosed
  <2>1. \A x \in Homeworks \X Classes :
          sent'[x] # Absent /\ sent'[x].closed <=>
            IF x = q THEN sent[p] # Absent /\ sent[p].closed
            ELSE x # p /\ sent[x] # Absent /\ sent[x].closed
    BY <1>2, <1>3
  <2>2. /\ LifeClosed = {x \in Homeworks \X Classes : sent[x] # Absent /\ sent[x].closed}
        /\ LifeClosed' = {x \in Homeworks \X Classes : sent'[x] # Absent /\ sent'[x].closed}
    BY TablesLife DEF SentLife
  <2>3. \A x \in Homeworks \X Classes :
          x \in LifeClosed' <=> IF x = q THEN p \in LifeClosed ELSE x # p /\ x \in LifeClosed
    BY <2>1, <2>2
  <2>4. /\ q \notin LifeClosed
        /\ LifeClosed \subseteq Homeworks \X Classes /\ LifeClosed' \subseteq Homeworks \X Classes
    BY <1>2, <2>2
  <2>5. CASE p \in LifeClosed
    BY <1>2, <2>3, <2>4, <2>5
  <2>6. CASE p \notin LifeClosed
    BY <2>3, <2>4, <2>6
  <2> QED
    BY <2>5, <2>6
<1>7. LifeReported' = IF p \in LifeReported THEN (LifeReported \ {p}) \union {q} ELSE LifeReported
  <2>1. \A x \in Homeworks \X Classes :
          sent'[x] # Absent /\ sent'[x].report # Absent <=>
            IF x = q THEN sent[p] # Absent /\ sent[p].report # Absent
            ELSE x # p /\ sent[x] # Absent /\ sent[x].report # Absent
    BY <1>2, <1>3
  <2>2. /\ LifeReported = {x \in Homeworks \X Classes : sent[x] # Absent /\ sent[x].report # Absent}
        /\ LifeReported' = {x \in Homeworks \X Classes : sent'[x] # Absent /\ sent'[x].report # Absent}
    BY TablesLife DEF SentLife
  <2>3. \A x \in Homeworks \X Classes :
          x \in LifeReported' <=> IF x = q THEN p \in LifeReported ELSE x # p /\ x \in LifeReported
    BY <2>1, <2>2
  <2>4. /\ q \notin LifeReported
        /\ LifeReported \subseteq Homeworks \X Classes /\ LifeReported' \subseteq Homeworks \X Classes
    BY <1>2, <2>2
  <2>5. CASE p \in LifeReported
    BY <1>2, <2>3, <2>4, <2>5
  <2>6. CASE p \notin LifeReported
    BY <2>3, <2>4, <2>6
  <2> QED
    BY <2>5, <2>6
<1>8. LifeGiven' = LifeGiven /\ LifeScored' = LifeScored
  BY <1>2, SameStudents
<1>9. Life!GivenTo(p) = {}
  <2>1. ASSUME NEW s \in Students, <<p[1], s, p[2]>> \in LifeGiven PROVE FALSE
    BY <1>2, <2>1, TablesLife DEF StudentLife, Enrolled
  <2> QED
    BY <2>1 DEF Life!GivenTo, LifeGiven
<1> QED
  BY <1>2, <1>4, <1>5, <1>6, <1>7, <1>8, <1>9
  DEF Life!Move, Life!Rename, LifeSent, LifeClosed, LifeReported, LifeGiven, LifeScored

LEMMA CloseIsClose ==
  ASSUME Typed, [Next]_vars, NEW w \in Workers, Close(w), sent[Pub(w)] # Absent,
         NEW p \in Homeworks \X Classes, p = Pub(w)
  PROVE  Life!Close(p)
<1>1. DataOK
  BY DEF Typed
<1> DEFINE new == [sent[p] EXCEPT !.closed = TRUE]
<1>2. sent[p] \in Sent /\ sent[p] # Absent
  BY <1>1 DEF DataOK, Opt
<1>3. new.closed /\ new.report = sent[p].report /\ new \in Sent
  BY <1>2 DEF Sent
<1>4. sent' = [sent EXCEPT ![p] = new] /\ UNCHANGED student
  BY <1>1 DEF Close, DataOK
<1> HIDE DEF new
<1>5. \A x \in Homeworks \X Classes : sent'[x] = IF x = p THEN new ELSE sent[x]
  BY <1>1, <1>4 DEF DataOK
<1>6. new # Absent
  BY <1>3, AbsentIsNoTable
<1>7. LifeSent' = LifeSent /\ p \in LifeSent
  BY <1>1, <1>2, <1>5, <1>6, TablesLife DEF SentLife
<1>8. LifeReported' = LifeReported
  <2>1. \A x \in Homeworks \X Classes :
          sent'[x] # Absent /\ sent'[x].report # Absent <=> sent[x] # Absent /\ sent[x].report # Absent
    BY <1>2, <1>3, <1>5, <1>6
  <2> QED
    BY <1>1, <2>1, TablesLife DEF SentLife
<1>9. LifeClosed' = LifeClosed \union {p}
  <2>1. \A x \in Homeworks \X Classes :
          sent'[x] # Absent /\ sent'[x].closed <=> x = p \/ (sent[x] # Absent /\ sent[x].closed)
    BY <1>3, <1>5, <1>6
  <2> QED
    BY <1>1, <2>1, TablesLife DEF SentLife
<1>10. LifeGiven' = LifeGiven /\ LifeScored' = LifeScored
  BY <1>4, SameStudents
<1> QED
  BY <1>7, <1>8, <1>9, <1>10
  DEF Life!Close, LifeSent, LifeClosed, LifeReported, LifeGiven, LifeScored

LEMMA SavePathIsReport ==
  ASSUME Typed, [Next]_vars, NEW w \in Workers, SavePath(w), sent[Pub(w)] # Absent,
         NEW p \in Homeworks \X Classes, p = Pub(w)
  PROVE  Life!Report(p)
<1>1. DataOK
  BY DEF Typed
<1> DEFINE new == [sent[p] EXCEPT !.report = job[w].table]
<1>2. sent[p] \in Sent /\ sent[p] # Absent
  BY <1>1 DEF DataOK, Opt
<1>3. job[w].table \in Tables
  BY <1>1, AtWork DEF Typed, SavePath, Fits, OfTable
<1>4. new.closed = sent[p].closed /\ new.report # Absent /\ new \in Sent
  BY <1>2, <1>3, DataAssumption DEF Sent, Opt
<1>5. sent' = [sent EXCEPT ![p] = new] /\ UNCHANGED student
  BY <1>1 DEF SavePath, DataOK
<1> HIDE DEF new
<1>6. \A x \in Homeworks \X Classes : sent'[x] = IF x = p THEN new ELSE sent[x]
  BY <1>1, <1>5 DEF DataOK
<1>7. new # Absent
  BY <1>4, AbsentIsNoTable
<1>8. LifeSent' = LifeSent /\ p \in LifeSent
  BY <1>1, <1>2, <1>6, <1>7, TablesLife DEF SentLife
<1>9. LifeClosed' = LifeClosed
  <2>1. \A x \in Homeworks \X Classes :
          sent'[x] # Absent /\ sent'[x].closed <=> sent[x] # Absent /\ sent[x].closed
    BY <1>2, <1>4, <1>6, <1>7
  <2> QED
    BY <1>1, <2>1, TablesLife DEF SentLife
<1>10. LifeReported' = LifeReported \union {p}
  BY <1>1, <1>2, <1>4, <1>6, <1>7, TablesLife DEF SentLife
<1>11. LifeGiven' = LifeGiven /\ LifeScored' = LifeScored
  BY <1>5, SameStudents
<1> QED
  BY <1>8, <1>9, <1>10, <1>11
  DEF Life!Report, LifeSent, LifeClosed, LifeReported, LifeGiven, LifeScored

-----------------------------------------------------------------------------
(* Steps of the rows of StudentHomework *)

\* One row changes and keeps its class.
LEMMA RowLife ==
  ASSUME Typed, [Next]_vars, NEW r \in Homeworks \X Students, student[r] # Absent,
         NEW new, new # Absent, new.class = student[r].class,
         student' = [student EXCEPT ![r] = new]
  PROVE  LifeGiven' = LifeGiven
<1>1. \A x \in Homeworks \X Students :
        /\ student'[x] # Absent <=> student[x] # Absent
        /\ student[x] # Absent => student'[x].class = student[x].class
  BY DEF Typed, DataOK
<1>2. ASSUME NEW g \in LifeGiven PROVE g \in LifeGiven'
  <2>1. PICK x \in Homeworks \X Students :
          student[x] # Absent /\ g = <<x[1], x[2], student[x].class>>
    BY <1>2, TablesLife DEF StudentLife
  <2> QED
    BY <1>1, <2>1, TablesLife DEF StudentLife
<1>3. ASSUME NEW g \in LifeGiven' PROVE g \in LifeGiven
  <2>1. PICK x \in Homeworks \X Students :
          student'[x] # Absent /\ g = <<x[1], x[2], student'[x].class>>
    BY <1>3, TablesLife DEF StudentLife
  <2> QED
    BY <1>1, <2>1, TablesLife DEF StudentLife
<1> QED
  BY <1>2, <1>3

LEMMA AnswerIsStutter ==
  ASSUME Typed, [Next]_vars, NEW r \in Homeworks \X Students, student[r] # Absent,
         NEW new \in Answered, new.class = student[r].class, new.scored = student[r].scored,
         student' = [student EXCEPT ![r] = new], UNCHANGED sent
  PROVE  UNCHANGED Life!vars
<1>1. new # Absent
  BY AbsentIsNone
<1>2. LifeGiven' = LifeGiven
  BY <1>1, RowLife
<1>3. LifeScored' = LifeScored
  <2>1. \A x \in Homeworks \X Students :
          student'[x] # Absent /\ student'[x].scored <=> student[x] # Absent /\ student[x].scored
    BY <1>1 DEF Typed, DataOK
  <2> QED
    BY <2>1, TablesLife DEF StudentLife
<1> QED
  BY <1>2, <1>3, SameSent
  DEF Life!vars, LifeSent, LifeClosed, LifeReported, LifeGiven, LifeScored

LEMMA SaveScoreIsScore ==
  ASSUME Typed, [Next]_vars, NEW w \in Workers, SaveScore(w),
         NEW h \in Homeworks, NEW s \in Students, Row(w) = <<h, s>>, student[Row(w)] # Absent
  PROVE  Life!Score(h, s)
<1> DEFINE r   == <<h, s>>
           new == Scored(student[r], job[w].score)
<1>1. DataOK
  BY DEF Typed
<1>2. student[r] # Absent /\ job[w].score \in Opt(Nat)
  BY AtWork DEF SaveScore, Typed, Jobs
<1>3. student[r] \in Answered /\ student[r] # Absent
  BY <1>1, <1>2 DEF DataOK, Opt
<1>4. new \in Answered /\ new.class = student[r].class /\ new.scored
  BY <1>2, <1>3, ScoredType DEF Opt
<1>5. student' = [student EXCEPT ![r] = new] /\ UNCHANGED sent
  BY DEF SaveScore
<1> HIDE DEF new
<1>6. new # Absent
  BY <1>4, AbsentIsNone
<1>7. LifeGiven' = LifeGiven
  BY <1>3, <1>4, <1>5, <1>6, RowLife
<1>8. LifeScored' = LifeScored \union {r}
  <2>1. \A x \in Homeworks \X Students :
          student'[x] # Absent /\ student'[x].scored
          <=> x = r \/ (student[x] # Absent /\ student[x].scored)
    BY <1>1, <1>4, <1>5, <1>6 DEF DataOK
  <2> QED
    BY <2>1, TablesLife DEF StudentLife
<1>9. Life!Has(h, s)
  <2>1. <<h, s, student[r].class>> \in LifeGiven
    BY <1>3, TablesLife DEF StudentLife
  <2>2. student[r].class \in Classes
    BY <1>3 DEF Answered
  <2> QED
    BY <2>1, <2>2 DEF Life!Has, LifeGiven
<1>10. LifeSent' = LifeSent /\ LifeClosed' = LifeClosed /\ LifeReported' = LifeReported
  BY <1>5, SameSent
<1> QED
  BY <1>7, <1>8, <1>9, <1>10
  DEF Life!Score, LifeSent, LifeClosed, LifeReported, LifeGiven, LifeScored

LEMMA EnrolIsGive ==
  ASSUME Typed, [Next]_vars, NEW w \in Workers, Enrol(w), sent[Pub(w)] # Absent,
         NEW h \in Homeworks, NEW c \in Classes, h = job[w].h, c = job[w].c
  PROVE  Life!Give(<<h, c>>)
<1> DEFINE rows == {h} \X Members[c]
           new  == [class |-> c, marked |-> FALSE, choice |-> Absent, scored |-> FALSE,
                    counted |-> Absent]
<1>1. DataOK /\ rows \subseteq Homeworks \X Students /\ Pub(w) = <<h, c>>
  BY DataAssumption DEF Typed, Pub
<1>2. /\ \A r \in rows : student[r] = Absent
      /\ student' = [r \in DOMAIN student |-> IF r \in rows THEN new ELSE student[r]]
      /\ UNCHANGED sent
  BY <1>1 DEF Enrol, Pub
<1>3. new # Absent /\ new.class = c /\ ~new.scored
  <2>1. new \in Answered
    BY DEF Answered, Opt
  <2> QED
    BY <2>1, AbsentIsNone
<1> HIDE DEF new
<1>4. \A r \in Homeworks \X Students : student'[r] = IF r \in rows THEN new ELSE student[r]
  BY <1>1, <1>2 DEF DataOK
<1>5. LifeScored' = LifeScored
  <2>1. \A r \in Homeworks \X Students :
          student'[r] # Absent /\ student'[r].scored <=> student[r] # Absent /\ student[r].scored
    BY <1>2, <1>3, <1>4
  <2> QED
    BY <2>1, TablesLife DEF StudentLife
<1>6. LifeGiven' = LifeGiven \union {<<h, s, c>> : s \in Members[c]}
  <2>1. ASSUME NEW g \in LifeGiven' PROVE g \in LifeGiven \/ \E s \in Members[c] : g = <<h, s, c>>
    <3>1. PICK r \in Homeworks \X Students :
            student'[r] # Absent /\ g = <<r[1], r[2], student'[r].class>>
      BY <2>1, TablesLife DEF StudentLife
    <3>2. CASE r \in rows
      BY <1>3, <1>4, <3>1, <3>2
    <3>3. CASE r \notin rows
      BY <1>4, <3>1, <3>3, TablesLife DEF StudentLife
    <3> QED
      BY <3>2, <3>3
  <2>2. ASSUME NEW g \in LifeGiven PROVE g \in LifeGiven'
    <3>1. PICK r \in Homeworks \X Students :
            student[r] # Absent /\ g = <<r[1], r[2], student[r].class>>
      BY <2>2, TablesLife DEF StudentLife
    <3>2. student'[r] = student[r]
      BY <1>2, <1>4, <3>1
    <3> QED
      BY <3>1, <3>2, TablesLife DEF StudentLife
  <2>3. ASSUME NEW s \in Members[c] PROVE <<h, s, c>> \in LifeGiven'
    <3>1. <<h, s>> \in rows /\ <<h, s>> \in Homeworks \X Students
      BY <1>1
    <3>2. student'[<<h, s>>] # Absent /\ student'[<<h, s>>].class = c
      BY <1>3, <1>4, <3>1
    <3> QED
      BY <3>1, <3>2, TablesLife DEF StudentLife
  <2> QED
    BY <2>1, <2>2, <2>3
<1>7. \A s \in Members[c] : ~Life!Has(h, s)
  <2>1. ASSUME NEW s \in Members[c], NEW d \in Classes, <<h, s, d>> \in LifeGiven PROVE FALSE
    <3>1. <<h, s>> \in rows /\ student[<<h, s>>] # Absent
      BY <2>1, TablesLife DEF StudentLife
    <3> QED
      BY <1>2, <3>1
  <2> QED
    BY <2>1 DEF Life!Has, LifeGiven
<1>8. <<h, c>> \in LifeSent
  BY <1>1, TablesLife DEF SentLife
<1>9. LifeSent' = LifeSent /\ LifeClosed' = LifeClosed /\ LifeReported' = LifeReported
  BY <1>2, SameSent
<1> QED
  BY <1>5, <1>6, <1>7, <1>8, <1>9
  DEF Life!Give, LifeSent, LifeClosed, LifeReported, LifeGiven, LifeScored

-----------------------------------------------------------------------------
LEMMA SentStep ==
  ASSUME Typed, [Next]_vars, NEW w \in Workers,
         InsertSent(w) \/ MoveSent(w) \/ DeleteSent(w) \/ Close(w) \/ SavePath(w)
  PROVE  [Life!Next]_(Life!vars)
<1>1. Typed /\ DataOK /\ Fits(pc[w], job[w]) /\ job[w] \in Jobs
  BY AtWork DEF Typed
<1>2. Pub(w) \in Homeworks \X Classes
  BY <1>1 DEF InsertSent, MoveSent, DeleteSent, Close, SavePath, Fits, OfClass, Pub
<1>3. PICK p \in Homeworks \X Classes : p = Pub(w)
  BY <1>2
<1>4. p \in Life!Pubs
  BY DEF Life!Pubs
<1>5. CASE InsertSent(w)
  BY <1>1, <1>3, <1>4, <1>5, InsertIsSend DEF Life!Next
<1>6. CASE MoveSent(w)
  <2>1. PICK q \in Homeworks \X Classes : q = <<job[w].h, job[w].to>>
    BY <1>1, <1>6 DEF MoveSent, Fits
  <2> QED
    BY <1>1, <1>3, <1>4, <1>6, <2>1, MoveIsMove DEF Life!Next, Life!Pubs
<1>7. CASE sent[p] = Absent /\ (DeleteSent(w) \/ Close(w) \/ SavePath(w))
  <2>1. UNCHANGED <<sent, student>>
    BY <1>1, <1>3, <1>7 DEF DeleteSent, Close, SavePath, DataOK
  <2> QED
    BY <2>1, LifeStutter
<1>8. CASE sent[p] # Absent /\ DeleteSent(w)
  BY <1>1, <1>3, <1>4, <1>8, DeleteIsWithdraw DEF Life!Next
<1>9. CASE sent[p] # Absent /\ Close(w)
  BY <1>3, <1>4, <1>9, CloseIsClose DEF Life!Next
<1>10. CASE sent[p] # Absent /\ SavePath(w)
  BY <1>3, <1>4, <1>10, SavePathIsReport DEF Life!Next
<1> QED
  BY <1>5, <1>6, <1>7, <1>8, <1>9, <1>10

LEMMA StudentStep ==
  ASSUME Typed, [Next]_vars,
         \/ \E w \in Workers : Enrol(w) \/ SaveAnswer(w) \/ SaveScore(w)
         \/ \E r \in Homeworks \X Students : Mark(r)
  PROVE  [Life!Next]_(Life!vars)
<1>1. Typed /\ DataOK /\ JobsOK
  BY DEF Typed
<1>2. ASSUME NEW w \in Workers, Enrol(w) PROVE [Life!Next]_(Life!vars)
  <2>1. CASE sent[Pub(w)] = Absent
    <3>1. UNCHANGED <<sent, student>>
      BY <1>1, <1>2, <2>1 DEF Enrol, DataOK
    <3> QED
      BY <3>1, LifeStutter
  <2>2. CASE sent[Pub(w)] # Absent
    <3>1. PICK h \in Homeworks, c \in Classes : h = job[w].h /\ c = job[w].c
      BY <1>1, <1>2, AtWork DEF Enrol, Fits, OfClass
    <3>2. <<h, c>> \in Life!Pubs
      BY DEF Life!Pubs
    <3> QED
      BY <1>1, <1>2, <2>2, <3>1, <3>2, EnrolIsGive DEF Life!Next
  <2> QED
    BY <2>1, <2>2
<1>3. ASSUME NEW w \in Workers, SaveAnswer(w) PROVE [Life!Next]_(Life!vars)
  <2>1. PICK r \in Homeworks \X Students : r = Row(w)
    BY <1>1, <1>3, AtWork DEF SaveAnswer, Fits, Row
  <2>2. CASE student[r] = Absent
    <3>1. UNCHANGED <<sent, student>>
      BY <1>1, <1>3, <2>1, <2>2 DEF SaveAnswer, DataOK
    <3> QED
      BY <3>1, LifeStutter
  <2>3. CASE student[r] # Absent
    <3> DEFINE new == [student[r] EXCEPT !.choice = job[w].score]
    <3>1. student[r] \in Answered /\ job[w].score \in Nat
      BY <1>1, <1>3, <2>3, AtWork DEF SaveAnswer, Fits, DataOK, Opt
    <3>2. new \in Answered /\ new.class = student[r].class /\ new.scored = student[r].scored
      BY <3>1 DEF Answered, Opt
    <3>3. student' = [student EXCEPT ![r] = new] /\ UNCHANGED sent
      BY <1>3, <2>1, <2>3 DEF SaveAnswer
    <3> HIDE DEF new
    <3> QED
      BY <1>1, <2>3, <3>2, <3>3, AnswerIsStutter
  <2> QED
    BY <2>2, <2>3
<1>4. ASSUME NEW w \in Workers, SaveScore(w) PROVE [Life!Next]_(Life!vars)
  <2>1. PICK h \in Homeworks, s \in Students : Row(w) = <<h, s>>
    BY <1>1, <1>4, AtWork DEF SaveScore, Fits, Row
  <2>2. CASE student[Row(w)] = Absent
    <3>1. UNCHANGED <<sent, student>>
      BY <1>1, <1>4, <2>1, <2>2 DEF SaveScore, Scored, DataOK
    <3> QED
      BY <3>1, LifeStutter
  <2>3. CASE student[Row(w)] # Absent
    BY <1>1, <1>4, <2>1, <2>3, SaveScoreIsScore DEF Life!Next
  <2> QED
    BY <2>2, <2>3
<1>5. ASSUME NEW r \in Homeworks \X Students, Mark(r) PROVE [Life!Next]_(Life!vars)
  <2> DEFINE new == [student[r] EXCEPT !.marked = TRUE]
  <2>1. student[r] \in Answered /\ student[r] # Absent
    BY <1>1, <1>5 DEF Mark, DataOK, Opt
  <2>2. new \in Answered /\ new.class = student[r].class /\ new.scored = student[r].scored
    BY <2>1 DEF Answered
  <2>3. student' = [student EXCEPT ![r] = new] /\ UNCHANGED sent
    BY <1>5 DEF Mark
  <2> HIDE DEF new
  <2> QED
    BY <1>1, <2>1, <2>2, <2>3, AnswerIsStutter
<1> QED
  BY <1>2, <1>3, <1>4, <1>5

\* Operations that interleave and fail anywhere keep to the life of homework: the
\* enrolment of a class is all or nothing and final, only a student who has a homework
\* gets a score for it, and what was closed is not opened again.
THEOREM ImplementsLife == Spec => LifeOfHomework
<1>1. ASSUME Typed, [Next]_vars PROVE [Life!Next]_(Life!vars)
  <2>1. JobsOK
    BY <1>1 DEF Typed
  <2> QED
    BY <1>1, <2>1, SentSteps, StudentSteps, SentStep, StudentStep, LifeStutter
<1> QED
  BY <1>1, LifeInit, InitTyped, TypedNext, PTL DEF Spec, LifeOfHomework, Life!Spec
=============================================================================
