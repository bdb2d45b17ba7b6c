# SmatClass server: specifications

TLA+ modules for the server of SmatClass: what it does with a client's
request, what its operations do to tables and files, how it shares database
connections, and how it runs its threads. TLC checks the modules on small instances;
TLAPS proves every safety property of the passing runs, the four refinements
included, for every value of the constants. Seven further runs each show a promise of a comment
that the code does not keep.

Paths below are relative to the repository. `communication.cpp` is
`handle/src/communication.cpp`, `homework_interface.cpp` is
`database_interface/src/homework_interface.cpp`, and so on.

## 1. Inventory

### The parts

The server is one process, started by `main/src/main.cpp`. A text of the form
`number#content` comes in over TCP, a thread chooses a handler by the number,
the handler runs SQL on a pooled connection, and a text goes back.

| Part | State it keeps | Operations | What makes it correct |
|---|---|---|---|
| **Request protocol** (`include/main.h`, the switches of `communication.cpp`) | none | decoding a number to a handler | exactly the operations `main.h` defines reach a handler of their module |
| **Pipeline** (`communication.cpp`) | lists `accept_all_sockfd`, `all_user_info`, `send_tcp_info`, each with a mutex and a condition variable; per disposing thread `pro` and `content` | `net_TCP_operate`, `recieve_data`, `dispose_data`, `tcp_send_data` (and `udp_send_data`, never called) | a descriptor has one owner until it is closed; a reply goes to the client that asked; every request is answered once; no thread sleeps while its list holds work nobody will take |
| **Sockets** (`tsocket.cpp`) | `socketfd`, `net_state`, addresses | create, bind, listen, accept, send, receive, close on destruction | as above; a request is read whole; a copy's destructor closes nothing that is in use |
| **Connection pool** (`connectpool.cpp`) | `connection_list`, `curSize`, `mtx` | `get_connection`, `release_connection`, `destory_connPool` | `curSize` is the number of connections; a connection is in one place; a connection is refused only when the database is down |
| **MySQL session** (`mysqloperation.cpp`) | `mysql`, `result`, `res`, `line_num` | connect, select, insert, update, drop, `free_result`, close, `is_closed` | a stored result is freed once and not read afterwards |
| **Threads** (`cpp11thread.h`, `threadpool.h`) | `m_list_tasks`, `m_b_is_finish`, two mutexes, a condition variable | append, load, run, `wait_for_idle`, terminate, join | a task runs once, on the thread it was given to; an idle pool has done its work; loops do not block each other; join returns |
| **Database interface** (`homework_interface.cpp`) | the tables of `database/mysql.sql`, one feedback table per published homework, text files | 23 operations: submit, amend, delete, publish, hand in, check, view | a homework is published completely or not at all; a hand-in counts once; a homework is closed when all of its hand-ins are checked; every operation gives its connection back |
| **Business layer** (`homework/src`) | fields of the classes in `homework.h` | one method per request | writes a homework's text before its row; scores all students of a request |
| **Helpers** (`handle.cpp`, `file.cpp`) | none, an `fstream` | split, format; read, write | - |

The repository's `README.md` also names member, class, test, evaluation,
student-wall, course, data and message modules. There is no code for them; at most
their tables are in the schema. `test.cpp`, `test1.cpp` and `test_tcp/` are
stand-alone experiments.

### How they interact

- `main` owns two pools of ten threads and one of one, and appends one endless loop
  per thread: ten `recieve_data`, ten `dispose_data`. `net_TCP_operate` has a
  thread of its own. The append of `tcp_send_data` is commented out
  (`main.cpp:102-105`).
- The threads share the three lists and pass descriptors, as plain ints, from one
  to the next. Whoever finishes a request closes its descriptor; the kernel then gives the
  number to the next connection.
- A disposing thread calls the business layer, which calls the database interface.
  Each of its operations gets a connection from `homework_cpool` and
  releases it, or forgets to.
- `main` then calls `wait_for_idle`, `terminate` and `join` on each pool.

### What is hard

- *Concurrency*: three producer/consumer lists with `notify_one`; `append` scanning
  loads that change; `append` notifying under another mutex than the one the thread
  waits under; `wait_for_idle` adding up loads read one after the other.
- *Reuse*: descriptor numbers, addresses and texts that outlive the
  connection they belong to; parse buffers that outlive the request.
- *Failure*: resets and SIGPIPE; the ping that fails and the reconnection that fails
  too; early returns; SQL sequences without a transaction.
- *Limits*: descriptors, twenty connections, NULL that no caller tests.

`PROJECT.json` lists these as hazards, each at its line.

## 2. Modules

| Module | Models | Kind |
|---|---|---|
| `Protocol` | the codes and the dispatch | operators |
| `Communication` | the pipeline, its clients and its sockets | detailed spec |
| `RequestLife` | what a client is promised | abstract spec of `Communication` |
| `ConnectionPool` | pool, sessions, the operations' use of them, the database server | detailed spec |
| `SessionLease` | who has which session | abstract spec of `ConnectionPool` |
| `HomeworkData` | the operations that change tables, feedback tables, texts and reports | detailed spec |
| `HomeworkLife` | the life of a published homework | abstract spec of `HomeworkData` |
| `ThreadPool` | pool, threads, and `main` as the pool's user | detailed spec |
| `TaskPool` | a task is given, started, finished | abstract spec of `ThreadPool` |
| `MCCommunication`, `MCConnectionPool`, `MCHomework`, `MCThreadPool` | symmetry sets, small instances | for TLC |
| `*_proofs` | the theorems | for TLAPS |

`Communication` EXTENDS `Protocol`: its `Dispose` decides with the very operators that
`DispatchIsExact` is about. The four detailed modules meet only through what a step of one leaves to
the other. A task that never ends in `ThreadPool` is a loop of `Communication`; a
handler's success or failure in `Communication` is what `ConnectionPool` and
`HomeworkData` decide; a worker of `HomeworkData` is a disposing thread.

### Communication

| Model | Code |
|---|---|
| `queue[q]`, `waiting` | the three lists; the threads blocked in `condition_variable::wait` |
| `Push` | `push_back` and `notify_one` in one critical section: it wakes one sleeper of that list, any one |
| `Take`, `Sleep`, `SpuriousWake` | the wait with its predicate, `front` and `pop_front` |
| `Accept`, `PushSock` | `accept_socket` (lowest free descriptor) and the push of `net_TCP_operate` |
| `Recv`, `PushInfo` | `recieve_data` of the socket, blocking until there is data, an end or an error; the push of the copied `UserInfo` |
| `Dispose` | appending to `pro` and `content`, `atoi`, the switches, up to the reply, the push or the ignored case |
| `PushReply`, `SendOk`, `SendFails`, `SendKills`, `CloseReplied` | the ends of each branch: a push to `send_tcp_info`, or `send_data` and `close` |
| `SenderRetry`, `SenderClose`, `SendReturns` | `tcp_send_data`, which handles one element and returns |
| `fds`, `backlog`, `unread`, `peer` | the kernel's side and the clients |
| `outbox`, `abandoned`, `parsed` | the texts each reply was made from; descriptors nobody knows any more; what a thread has appended so far |

A text is the sequence of the clients whose requests it is made of, which is all that
the properties tell apart. A handler's database work is a choice of its result: an
operation of the "ack" kind replies whatever the result is, an operation of the "view" kind
pushes a result or replies when it is empty.

A text without `#` is content only: `find` returns `npos`, `match_pos` is an `unsigned`, so
`match_pos + 1` wraps to 0 on every build and nothing is appended to `pro`. The object files in
the repository are 32-bit. On a 64-bit build the iterator made from `match_pos` for `content` would
also lie outside the text, which is undefined behaviour and not modelled.

A number of a subsystem or module that the switches do not list is neither answered nor is its
connection closed (`communication.cpp:794-795`): `Dispose` forgets the descriptor, and `abandoned`
remembers it. That is a leak, and a server that has met as many such numbers as it has descriptors
accepts nobody any more. No text of the repository says what should become of such a
number, so there is no comment to refute with a run; instead the two liveness properties
name it as their exception (`Ignored`).

### ConnectionPool

`get_connection` is one step, as it holds `mtx` from end to end, with one action per outcome:
`GetIdle`, `GetReplaced` (ping failed, new connection), `GetDropped` (both
failed, `--curSize`), `GetCreated`, `GetNull`, and `GetCrashes` for the `delete` of a session
whose result was already freed: that is undefined behaviour, so the process may die or go on.
An operation is `Get`, then `Use` (it leaves a result, or has freed it, or
neither) or `UseNull` (no operation tests for NULL), then `Release`, which takes no NULL back, or
`Leak`. `BreakLink`, `ServerStops` and `ServerStarts` are the database server.

The destructor is three actions on `main` and `lock`. `DestroyLocks` is `mtx.lock()`, both that of
`destory_connPool` and that of `destory_connection`; `DestroyEnters` is the loop's call of the latter for a session
of the list; `DestroyEnds` leaves the loop and unlocks. That the second lock never
succeeds is not written into a guard but follows: `lock` is the destructor's own.
What would come after it (`conn->close()`) is left out, and `TypeOK` says that no state gets there.

`SessionLease` bounds the sessions by `MaxSize` only until the destructor: that sets `curSize` to 0
while workers may still hold connections, and `get_connection` tests nothing but the list and the
counter, so a pool that is used after it counts from zero again.

### HomeworkData

An operation is a sequence of SQL statements and shell or file commands, in the order of the
source, without a transaction. Each is one step of the worker (`pc`, with the operation's
variables in `job`), so those of other workers come in between, and each may fail
(`Fails`: the operation returns and leaves what it has done). A crash of the server leaves
the same states.

| Model | Code |
|---|---|
| `homework`, `sent`, `student`, `feedback` | `Homework`, `SendHomework`, `StudentHomework` and the feedback tables, reduced to the columns that a later statement depends on |
| `files`, `report` | the texts that exist; how many rows the report of a feedback table has |
| `Submit` | `SubmitHomework::save_homework`, `AddBasicHomework` |
| `Amend` | `AmendBasicHomework`: name, content, path, each if asked for |
| `Drop` | `DeleteBasicHomework` |
| `Publish`, `Move`, `Withdraw` | `AddPublishHomework`, `AmendPublishHomework`, `DeletePublishHomework` |
| `HandIn` | `DoHomework::hand_in_homework`, `SetStudentAnswer` |
| `Check` | `CheckHomework::set_subject_score`, `SetStudentSubjectScore`, `CheckStudentCount` |
| `Mark` | external: `homeworkstate` of `StudentHomework`, which the code reads and never sets |
| `ReadsNothing`, `crash` | `res[0]` of a result without rows |
| `Enrolled`, `Published` and the guards of `DropRow`, `MoveSent`, `DeleteSent` | the foreign keys of `database/mysql.sql`: restrict, as none says otherwise |
| `dropped`, `astray`, `repathed`, `misread` | history: feedback tables that were dropped, texts that were taken away or not made, homework whose path was changed, students' rows that were read before they were there |

Details of the code that the model keeps because they decide what can go wrong:
`mv ... -r` is refused, so a change of path moves no text; the path is appended to what the
change of the name left in the variable, so after one the text is written nowhere; the
name of a feedback table is digits, name and digits run together (`TableOf`), and keeps
the class it was made for when the publication moves; two homework with one path and name
share a text; `group by studentID` makes the number of hand-ins 1 (`HandInsRead`).

What a request names is the client's and nothing checks it, so the model restricts it as little as the code
does. `AskHandIn` takes any homework, any student and any class; `AskScores` any set of
students, the empty one included, and any class, since `communication.cpp` never parses one for
`SET_SUBJECT_SCORE`. Where `res[0]` is then read of a result without rows the process may die, or
the operation goes on with whatever was there: `ReadTitles` (after the table was made, as in the code),
`FindStandard`, `FindCounters`, `SelectChoice` (`ChoiceRead`), `CheckCount`, `Header`. An update
of a row that is not there changes nothing and is no error. `misread` remembers the rows
whose choice score was read before there was a row.

The arguments of the other operations are those the interface accepts, which is more than
the parsing lets through today: its change bits come from the operation's code, so a client can only
change names.

The schema in `database/mysql.sql` lags behind the code: the ids of `Homework` do not count
themselves up there, and `titlenum` and `checknum` are missing. The model follows the statements.

### ThreadPool

`Compare` and `Reread` are the two calls of `load` in `append`; between them, and between
the rounds, the threads move on. `Hire` and `Push` are `Cpp11Thread::append`. `Take`, `Run`,
`Pop`, `Check`, `Wait` and `Timeout` are `run`: the head is copied, run, and popped in three
critical sections. `Notified` wakes a thread only if it already waits. `main` follows
`main.cpp`: append all, `wait_for_idle`, `terminate`, `join` (which terminates
twice more).

## 3. What is checked

| Run | Question | Answer |
|---|---|---|
| `comm_sender` | two descriptors for two clients, one of which resets, two threads of each kind and two sending tasks: does the hand-over of descriptors and wake-ups stand every interleaving? | `TypeOK`, `OneOwner`, `HandleLive`, `ReplyToRequester`, `NoLostWakeup` hold, and `ClosedAnswered`: no connection is closed unanswered, except on a client that reset it; the pipeline implements `RequestLife` |
| `comm_live` | is everybody answered and every descriptor closed, if the sender runs? | everybody but those with an ignored number, who never are (`RequestAnswered`, `SocketReclaimed`); and when ignored numbers hold every descriptor, nobody is |
| `comm_no_sender` | and without it? | no: view results are never sent |
| `comm_stale` | is a request answered from its own text? | no: a thread's parse buffers are never cleared |
| `pool_leases` | failing pings, a database that goes and comes, operations that lose connections, and the destructor | `TypeOK`, `SizeIsSessions`, `Exclusive` hold; `LendWhenUp`: until a connection is lost or the destructor runs, one is refused only while the database is down; the pool implements `SessionLease` |
| `pool_leak` | is a connection always refused only when the database is down (`LendAlways`)? | no: the paths that do not release use the pool up (and only they: `OnlyLeaksRefuse`, below) |
| `pool_result` | is a result freed once? | no: twice, when a connection whose last user freed it is replaced |
| `pool_destroy` | does the destructor return (`PoolDestroyed`)? | no, with a connection in the list: it locks `mtx` twice |
| `homework` | two workers, any statement failing: do tables, feedback tables, reports and texts keep together? | `TypeOK`, `TableKept`, `TableUnshared`, `CountsDescend`, `ReportComplete`, `ScoredBeforeClose`, `TotalIsOwn`, `TextBehindRow` hold; the tables implement `HomeworkLife` |
| `homework_close` | is a homework closed only when its checking is finished? | no: after the first student scored |
| `threads` | interleavings of `append`, `run` and `wait_for_idle` | `TypeOK`, `HeadIsCurrent`, `IdleMeansDone`, `OwnThread`, `RunsEachOnce` (the lists implement `TaskPool`), `WorkStarts` hold |
| `threads_join` | does `join` return once the pool is idle? | no: `terminate` assigns the wrong value |

Some properties make an exception, and say so. `ScoredBeforeClose` and `TotalIsOwn` leave out a
student who had no row when the choice score was read (`misread`): a homework can be closed over
a student named by mistake. `TextBehindRow` leaves out texts that an operation removed, renamed
or failed to make (`astray`) and homework whose path was changed (`repathed`), so it shows only that a row is
never recorded before its text is there and that nothing else takes a text away; it does not
cover the two hazards of `DeleteBasicHomework` and `AmendBasicHomework` that make such texts.
`TableKept` and its like leave out tables a withdrawal has dropped. `LendWhenUp` ends with the first
lost connection.

The properties are stated and explained in their modules. Every property of a passing run has a
mutant in its module or in one it extends: a changed definition, such as a forgotten `close`, a
`notify_one` only for an empty list, a missing `--curSize`, a mask one bit too wide, a pop left out or an `insert
ignore`, for which TLC finds the property violated.

### Bounds, and why they are enough

- *Clients 2, descriptors 1-2*: with one descriptor its number is closed and reused for the next
  client; with two, a number is reused while the other client still holds its own. Each client sends one request, as each connection
  serves one.
- *Receivers 2, disposers 2* for safety: the least with two threads racing for one
  list and two sleepers for one notification. The liveness run has one receiver and two disposers,
  the violations one of each.
- *ProNums*: one number per kind of outcome: 8513 (ack), 9025 (view), 81 (no such subsystem:
  ignored), `NoCode` (no `#`: "message"). Numbers that are refused behave
  as `NoCode` does. The liveness run has the ignored number too. `DispatchIsExact` covers the others.
- *SendCalls 2*: a failed send, its retry, and a second element. `main.cpp` has 0,
  which is the value of `comm_no_sender` and `comm_stale`.
- *Workers 3, sessions 4, MaxSize 3* (`pool_leases`): the pool grows to its limit, there is a session
  more with which it could exceed it, and after a lost connection a worker is refused. That
  curSize respects any larger limit is theorem `PoolCounts`. `MaxSize` and `InitialSize` are equal in the program (20); the pool starts
  with any number of connections up to `InitialSize`, as some may fail.
- *Homework "1" and "11", names "x", "1x" and the empty one, classes "a" (both students) and "b"
  (one of them)*: the least with two publications of one homework, an enrolment that another
  class's has made impossible, and two table names that run together ("1"+"1x", "11"+"x").
  *Titles 2*: a count or a report may stop half-way.
- *Budgets*: how often each operation is requested. The nine mixes of `homework` are the
  pairs and triples that meet in some row, table or file: publications with moves and
  withdrawals, hand-ins and scores with both, submits with amendments and deletions. One scoring request
  runs at a time: two at once, with any students each, take TLC more than its time. The
  theorems cover any number of requests of any kind. *Stored*: homework in the
  tables when the server starts, once with both ids taken and once with one free.
- *Worker 1, session 1* (`pool_result`, `pool_destroy`): the violations need no more.
- *Threads 2, tasks 0 to 4*: tasks queue behind others, threads are chosen by loads that
  change, and both a full and an unused pool are joined (`send_message` has no
  task). Three threads give the same results in a longer run.
- `OwnThread` and `WorkStarts` do not assume that any task ends, so they cover the server's endless
  loops.
- Symmetry is used among threads of a kind, workers and sessions, in runs without
  liveness properties only.
- Deadlock is not checked: clients may be done, SIGPIPE or a NULL may have ended the
  process, `main` may have joined its pool.

### Fairness

Weak fairness per thread: the operating system schedules every thread that can run, and
mutexes are held only for the length of a step. In `Communication` a connected client
also speaks or leaves eventually, as `recv` has no timeout and a silent client holds a
receiver for ever; this is assumed of clients, not of the code. Resets are
excluded in the liveness run, as a SIGPIPE ends the server. In `ThreadPool` the wait has its
five-second limit, which is what makes `WorkStarts` hold; no fairness is assumed of `Run`,
a task's return. In `ConnectionPool` only the thread that destroys the pool is fair
(`pool_destroy`): its counterexample must be one in which it cannot go on, not one in which it does not.

## 4. What is proved

TLAPS proves, for every value of the constants that satisfies the modules' assumptions:

| Theorem | States |
|---|---|
| `Communication_proofs!TypeCorrect` | `Spec => []TypeOK` |
| `Communication_proofs!NoWakeupIsLost` | `Spec => []NoLostWakeup` |
| `Protocol_proofs!DispatchIsExact` | of all integers, exactly those of `Operations` reach a handler |
| `Communication_proofs!OneOwnerAtATime` | `Spec => []OneOwner` |
| `Communication_proofs!HandlesAreLive` | `Spec => []HandleLive` |
| `CommunicationLife_proofs!RepliesAreOwn` | `Spec => []ReplyToRequester` |
| `CommunicationLife_proofs!ClosesAnswered` | `Spec => []ClosedAnswered` |
| `CommunicationLife_proofs!ImplementsRequestLife` | `Spec => LifeOfRequest`, the whole refinement |
| `ConnectionPool_proofs!TypeCorrect` | `Spec => []TypeOK` |
| `ConnectionPool_proofs!PoolCounts` | `Spec => []SizeIsSessions` |
| `ConnectionPool_proofs!NoSharing` | `Spec => []Exclusive` |
| `ConnectionPool_proofs!NeverRefused` | with at most `MaxSize` workers, `Spec => LendWhenUp` |
| `ConnectionPool_proofs!OnlyLeaksRefuse` | with at most `MaxSize` workers and every operation releasing (`~Leaky`), `Spec => LendAlways` |
| `ConnectionPool_proofs!ImplementsLeases` | `Spec => LeasesSessions`, the whole refinement |
| `HomeworkData_proofs!TypeCorrect` | `Spec => []TypeOK` |
| `HomeworkData_proofs!TablesAreKept` | `Spec => []TableKept` |
| `HomeworkData_proofs!TablesAreUnshared` | `Spec => []TableUnshared` |
| `HomeworkData_proofs!ReportsAreComplete` | `Spec => []ReportComplete` |
| `HomeworkData_proofs!ScoresBeforeClose` | `Spec => []ScoredBeforeClose` |
| `HomeworkData_proofs!TotalsAreOwn` | `Spec => []TotalIsOwn` |
| `HomeworkData_proofs!CountsGoDown` | `Spec => []CountsDescend` |
| `HomeworkText_proofs!TextsAreBehindRows` | `Spec => []TextBehindRow` |
| `HomeworkLife_proofs!ImplementsLife` | `Spec => LifeOfHomework`, the whole refinement |
| `ThreadPool_proofs!TypeCorrect` | `Spec => []TypeOK` |
| `ThreadPool_proofs!PopsWhatRan` | `Spec => []HeadIsCurrent` |
| `ThreadPool_proofs!IdleIsDone` | `Spec => []IdleMeansDone` |
| `ThreadPool_proofs!LoopsHaveThreads` | `Spec => []OwnThread` |
| `ThreadPool_proofs!ImplementsTaskPool` | `Spec => RunsEachOnce`, the whole refinement |

**Pipeline.** `TypeOK` is not inductive: a thread that is to use its element must have one. `IInv`
adds which thread holds an element at which step. For `NoLostWakeup`, a push adds one element
and either wakes a sleeper (one more taker) or finds no sleeper; a take removes one
element and one taker; a thread falls asleep only when the list is empty. The lemmas count the
takers before and after, using the finiteness of the sets of threads
(`ThreadsAssumption`).

`OneOwner` is proved without counting. `Owned` says of each descriptor that it is at one place of one
list, or in one thread's hands, exactly while it is open and not abandoned, and `AllLive` that
whoever has it remembers the right client. As far as owners go a step is one of six
kinds (`OwnerStep`): nothing moves, a thread hands over, takes, opens, closes or
forgets. The acceptor may reuse a number because a closed descriptor has no owner left.

`ReplyToRequester` follows the request along its path (`PathInv`): a handle in `accept_all_sockfd` or
with a thread before its `recv` is *early* and its request unread; later its text ends with
the request, and after the reply there is nothing but the close. For this a client must not be
in the backlog twice, and it must have said all it will say. The same
invariant gives the guards of the steps of `RequestLife`.

`ClosedAnswered` needs that whoever is about to close has answered, or has found the
connection reset (`Closing`): three branches close, at the end of a reply, of a retry and of a
result sent late.

**Connections.** `IInv` divides the existing sessions into listed, borrowed and lost
ones, pairwise disjoint, with no repetition in the list, and says that the counter is the
cardinality of their union. Every outcome of `get_connection` moves one session from one part to
another, adds one or removes one. `NeverRefused` adds a counting argument: with nothing lost, an empty
list means that every existing session is in some worker's hands; the asking worker has
none, so fewer than `Cardinality(Workers) <= MaxSize` exist, and `get_connection` may
create one. `Cardinality(Workers) <= MaxSize` is the theorem's only assumption: whether operations lose connections
does not matter until one has. `OnlyLeaksRefuse` is the complement of the run `pool_leak`: if no
operation loses a connection, none is ever refused while the database is up, the destructor's
reset of `curSize` included, as the counter then only falls behind the sessions (`NoneLost`).
For `ImplementsLeases` every session has exactly one owner
(`EachHasOne`), and a step of the pool moves one session, or in `GetReplaced` two, while
each of the others `Keeps` its own.

**Homework data.** What an operation's variables hold at each statement is `Fits`. With it
the types are inductive (`Typed`): no operation reads a variable it has not set. The other theorems add what one part
of the code relies on between its statements:

- `ScoresBeforeClose`, `TotalsAreOwn`: `Scoring` says that each student named is still to be scored, being
  scored, or done, where done is scored or misread; and that a choice score read is one the student
  has, or the row is misread. No operation takes a score back or removes a row, so done stays done
  (`DoneStays`), whatever other threads do.
- `ReportsAreComplete`: `Reporting` says that the report has at least as many rows as the writer has
  passed, whoever else writes to the same file.
- `TablesAreKept`, `TablesAreUnshared`: `Owned` says that a table not yet dropped has at most one owner,
  a publication or a thread about to insert one, and exists if it has. `create table` fails for
  an existing table, which makes the new owner the only one; a move keeps the owner.
- `TextsAreBehindRows`: `Recording` says that a text about to be recorded is there or known to be gone, and
  `SamePath` that the row a rename will update has the path of the text renamed, or a changed one.
- `CountsGoDown`: between two titles lie the hand-ins that have counted the one and not yet the
  other. `Gaps` says that the counts of the two differ by at least their number, and `Counted` that
  nobody fills a table that is counted in; a hand-in that fails stays counted where it
  got to.
- `ImplementsLife`: each statement maps to one step of `HomeworkLife`, or changes neither `SendHomework`
  nor the columns of `StudentHomework` it maps. The foreign keys give the guards of the steps that
  move and withdraw. Of closing and reporting `HomeworkLife` asks only that the homework is
  published: the code does either with no score stored, for students without the homework or for none.

Steps that concern none of this are dealt with together: `StepCases` says that a step of an
operation is one of those named for it or a quiet one, which leaves tables and reports as they are.

**Threads.** That the head of a list is the running task holds because `append` only
appends and only the thread pops. `IdleMeansDone` needs more. While `wait_for_idle` adds up the loads, `main`
appends nothing, so a list seen empty stays empty: the invariant says that the lists before the
loop variable are empty if the sum is still 0, and that each appended task has run
or is in a list, where it stays while it runs. `TypeCorrect` includes that
the index `append` chose is a thread's, which is the assertion of `threadpool.h:87`.

`OwnThread` depends on the minimum `append` computes (`OwnInv`). A load of 0 seen in the scan stays 0,
as only `main` adds to lists. If the scan has found none, every thread it has passed was
hired, and at the end all were. But at most as many are hired as tasks were sent, which are
fewer than `ntasks <= NThreads`; so with no more tasks than threads `append` finds an empty list.
`ImplementsTaskPool` needs that a task is in one list only, that lists are in the order of handing
out, and that a task that has run is in a list only as the head its thread is about to pop
(`OrderInv`).

Only model-checked: the liveness properties (`RequestAnswered`, `SocketReclaimed`, `WorkStarts`), which are
beyond the prover.

## 5. What is not modelled

- The View and Get functions: they change nothing. Those reads on which a later statement depends
  are part of the operations. `GetStandardAnswer`, which reads `mysql->res` after it has freed it and
  released the connection, is listed as a hazard.
- Homework as data: questions, answers, deadlines, `checknum`, and the replies, among them the -2 that an
  `if` takes for true.
- How totals are wrong when a hand-in falls between the select of the choice score and the update
  (`SetStudentSubjectScore`): a total is not compared with the later choice score, as the code never
  updates it either.
- Start-up: `create_socket`, `bind_socket`, `server_configure`, and the destructors of
  `Tsocket` copies that close descriptor 0 (planned, below).
- Requests that arrive in several segments, and the rule that ends a request at the first
  segment shorter than 1000 bytes: the model delivers a request whole.
- The UDP branches and `udp_send_data`, which nothing calls.
- The parsing of a request's fields, `Handle`, the contents of files: data, not control.
- The other tables of the schema, whose modules have no code.
- Memory errors in handlers, such as a NULL result or a short buffer in `int_to_string`.

## 6. Plan

Done, in this order: `Protocol`, `Communication` with `RequestLife`, `ConnectionPool` with
`SessionLease`, `ThreadPool` with `TaskPool`, `HomeworkData` with `HomeworkLife`, and their proofs.

Next:

1. `ServerStart`: the copies of `Tsocket` that `main` makes, their destructors, and the
   accepting thread, on a table of descriptors that begins with 0.
