---------------------- MODULE RunFileUploadTasksProofs ----------------------
(***************************************************************************)
(* Theorems about the run-file-upload-tasks job, for any tasks, files,     *)
(* batch sizes, channel capacities and processes.                          *)
(***************************************************************************)
EXTENDS RunFileUploadTasks, FiniteSetTheorems, TLAPS

-----------------------------------------------------------------------------
(* Lemmas on the sizes of a file and on the sets of rows.                  *)

\* The size a task is given is the number of its data rows, except that an empty
\* file, without even a header, wraps around to the largest uint64.
LEMMA SizeOfFile ==
  ASSUME NEW f \in File
  PROVE  /\ RowCount(f) \in Nat
         /\ RowCount(f) <= MaxRows
         /\ SizeOf(f) = IF f.lines = 0 THEN Wrap - 1 ELSE RowCount(f)
         /\ SizeOf(f) \in Nat
         /\ RowCount(f) <= SizeOf(f)
<1> DEFINE n == f.lines
<1>1. n \in Nat /\ n <= MaxRows + 1 /\ MaxRows \in Nat /\ Wrap \in Nat /\ Wrap > MaxRows + 1
  BY BoundsAssumption DEF File
<1> HIDE DEF n
<1>2. \A a, w \in Nat : w > 0 /\ a < w => a % w = a /\ (a + w) % w = a
  OBVIOUS
<1>3. CASE n = 0
  <2>1. (n + Wrap - 1) % Wrap = Wrap - 1
    <3>1. n + Wrap - 1 = Wrap - 1 /\ Wrap - 1 \in Nat /\ Wrap - 1 < Wrap
      BY <1>1, <1>3
    <3>2. QED
      BY <1>1, <1>2, <3>1
  <2>2. QED
    BY <1>1, <1>3, <2>1 DEF SizeOf, RowCount, n
<1>4. CASE n > 0
  <2>1. (n + Wrap - 1) % Wrap = n - 1
    <3>1. n + Wrap - 1 = (n - 1) + Wrap /\ n - 1 \in Nat /\ n - 1 < Wrap
      BY <1>1, <1>4
    <3>2. QED
      BY <1>1, <1>2, <3>1
  <2>2. QED
    BY <1>1, <1>4, <2>1 DEF SizeOf, RowCount, n
<1>5. QED
  BY <1>1, <1>3, <1>4

\* The percentage the job computes is rounded down, so it never claims more than
\* the rows it counts.
LEMMA PercentRoundsDown ==
  ASSUME NEW count \in Nat, NEW size \in Nat \ {0}, NEW rows \in 0..size
  PROVE  /\ (count * 100) \div size \in Nat
         /\ ((count * 100) \div size) * rows <= 100 * count
<1> DEFINE q == (count * 100) \div size
<1>1. \A a \in Nat, b \in Nat \ {0} : a \div b \in Nat /\ (a \div b) * b <= a
  OBVIOUS
<1>2. q \in Nat /\ q * size <= count * 100
  BY <1>1
<1> HIDE DEF q
<1>3. \A x, y, z \in Nat : y <= z => x * y <= x * z
  OBVIOUS
<1>4. rows \in Nat /\ rows <= size
  OBVIOUS
<1>5. q * rows <= q * size
  BY <1>2, <1>3, <1>4
<1>6. QED
  <2>1. q * rows \in Int /\ q * size \in Int
    BY <1>2, <1>4
  <2>2. q * rows <= count * 100
    BY <1>2, <1>5, <2>1
  <2>3. QED
    BY <1>2, <2>2 DEF q

-----------------------------------------------------------------------------
(* Type correctness.                                                       *)

\* Before anything runs the rows, workers and status goroutines are well typed.
LEMMA IdleTyped ==
  /\ NewRow \in Row
  /\ Idle \in Worker
  /\ [Idle EXCEPT !.pc = "queued"] \in Worker
  /\ IdleStatus \in StatusGoroutine
<1>1. NewRow \in Row
  BY DEF NewRow, Row, Statuses
<1>2. Idle \in Worker
  BY <1>1 DEF Idle, Worker, WorkerPC
<1>3. [Idle EXCEPT !.pc = "queued"] \in Worker
  BY <1>2 DEF Worker, WorkerPC
<1>4. (CHOOSE t \in Tasks : TRUE) \in Tasks
  BY BoundsAssumption
<1>5. IdleStatus \in StatusGoroutine
  BY <1>1, <1>4 DEF IdleStatus, StatusGoroutine
<1>6. QED
  BY <1>1, <1>2, <1>3, <1>5

\* Writing one field of a row keeps it a row.
LEMMA RowTyped ==
  ASSUME NEW row \in Row, NEW status \in Statuses, NEW n \in Nat
  PROVE  /\ [row EXCEPT !.status = status] \in Row
         /\ [row EXCEPT !.progress = n] \in Row
BY DEF Row

\* The groups of fields that a worker step writes together keep the
\* worker well typed.
LEMMA WorkerUpdates ==
  ASSUME NEW w \in Worker, NEW pc \in WorkerPC, NEW n \in Nat, NEW m \in Nat,
         NEW rows \in SUBSET Nat, NEW row \in Row
  PROVE  /\ [w EXCEPT !.pc = pc] \in Worker
         /\ [w EXCEPT !.snap = row, !.pc = pc] \in Worker
         /\ [w EXCEPT !.ok = n, !.count = m, !.pc = pc] \in Worker
         /\ [w EXCEPT !.err = n, !.count = m, !.pc = pc] \in Worker
         /\ [w EXCEPT !.next = n, !.flying = rows, !.pc = pc] \in Worker
BY DEF Worker

\* The fields of a worker.
LEMMA WorkerFields ==
  ASSUME NEW w \in Worker
  PROVE  /\ w.pc \in WorkerPC
         /\ w.next \in Nat /\ w.ok \in Nat /\ w.err \in Nat /\ w.count \in Nat
         /\ w.flying \in SUBSET Nat /\ w.lost \in SUBSET Nat
         /\ w.snap \in Row
BY DEF Worker

\* A step of a worker that leaves a well-typed worker behind.
LEMMA SetWorkerTyped ==
  ASSUME TypeOK, NEW j \in Jobs, NEW t \in Tasks, NEW w \in Worker,
         SetWorker(j, t, w)
  PROVE  work' \in [Jobs -> [Tasks -> Worker]]
BY DEF TypeOK, SetWorker

\* A worker that only moves to another place of its code.
LEMMA GotoTyped ==
  ASSUME TypeOK, NEW j \in Jobs, NEW t \in Tasks, NEW pc \in WorkerPC,
         Goto(j, t, pc)
  PROVE  work' \in [Jobs -> [Tasks -> Worker]]
<1>1. work[j][t] \in Worker
  BY DEF TypeOK
<1>2. [work[j][t] EXCEPT !.pc = pc] \in Worker
  BY <1>1 DEF Worker
<1>3. QED
  BY <1>2, SetWorkerTyped DEF Goto

\* A step that writes the shared object of a task.
LEMMA SetMemTyped ==
  ASSUME TypeOK, NEW j \in Jobs, NEW t \in Tasks, NEW row \in Row, SetMem(j, t, row)
  PROVE  mem' \in [Jobs -> [Tasks -> Row]]
BY DEF TypeOK, SetMem

\* Before any process of the job runs, the state is well typed.
LEMMA InitTypeOK == Init => TypeOK
BY IdleTyped DEF Init, TypeOK

\* Starting, ending and killing a process, and its status goroutine, preserve the
\* types.
LEMMA ProcessTypeOK ==
  ASSUME TypeOK, NEW j \in Jobs,
         \/ StartJob(j) \/ StartFails(j) \/ TasksDone(j) \/ Die(j)
         \/ StatusStep(j)
  PROVE  TypeOK'
<1>1. CASE StartJob(j)
  BY <1>1, IdleTyped DEF StartJob, TypeOK
<1>2. CASE StartFails(j)
  BY <1>2 DEF StartFails, TypeOK
<1>3. CASE TasksDone(j)
  BY <1>3 DEF TasksDone, TypeOK
<1>4. CASE Die(j)
  <2>1. indexed' \in [Tasks -> SUBSET Nat]
    <3>1. indexed' \in [Tasks -> SUBSET (1..MaxRows)]
      BY <1>4 DEF Die
    <3>2. 1..MaxRows \subseteq Nat
      BY BoundsAssumption
    <3>3. QED
      BY <3>1, <3>2
  <2>2. /\ work' = [work EXCEPT ![j] = [t \in Tasks |-> Idle]]
        /\ mem' = [mem EXCEPT ![j] = [t \in Tasks |-> NewRow]]
        /\ job' = [job EXCEPT ![j] = "crashed"]
        /\ chan' = [chan EXCEPT ![j] = <<>>]
        /\ sg' = [sg EXCEPT ![j] = IdleStatus]
        /\ UNCHANGED <<file, db>>
    BY <1>4 DEF Die
  <2>3. QED
    BY <2>1, <2>2, IdleTyped DEF TypeOK
<1>5. CASE Receive(j)
  <2> DEFINE m   == Head(chan[j])
             row == [mem[j][m.t] EXCEPT !.status = m.status]
             g   == [pc |-> "copy", t |-> m.t, snap |-> NewRow]
  <2>1. m \in Message /\ Tail(chan[j]) \in Seq(Message)
    BY <1>5 DEF Receive, TypeOK
  <2>2. m.t \in Tasks /\ m.status \in Statuses
    BY <2>1 DEF Message, Statuses
  <2>3. mem[j][m.t] \in Row
    BY <2>2 DEF TypeOK
  <2>4. row \in Row
    BY <2>2, <2>3 DEF Row
  <2>5. g \in StatusGoroutine
    BY <2>2, IdleTyped DEF StatusGoroutine
  <2>6. /\ SetMem(j, m.t, row)
        /\ sg' = [sg EXCEPT ![j] = g]
        /\ chan' = [chan EXCEPT ![j] = Tail(chan[j])]
        /\ UNCHANGED <<file, db, job, work, indexed>>
    BY <1>5 DEF Receive
  <2> HIDE DEF m, row, g
  <2>7. mem' \in [Jobs -> [Tasks -> Row]]
    BY <2>2, <2>4, <2>6, SetMemTyped
  <2>8. QED
    BY <2>1, <2>5, <2>6, <2>7 DEF TypeOK
<1>6. CASE CopyStatus(j)
  <2> DEFINE g == [pc |-> "write", t |-> sg[j].t, snap |-> mem[j][sg[j].t]]
  <2>1. sg[j].t \in Tasks
    BY DEF TypeOK, StatusGoroutine
  <2>2. g \in StatusGoroutine
    BY <2>1 DEF TypeOK, StatusGoroutine
  <2>3. QED
    BY <1>6, <2>2 DEF CopyStatus, TypeOK
<1>7. CASE WriteStatus(j)
  <2>1. sg[j].t \in Tasks /\ sg[j].snap \in Row
    BY DEF TypeOK, StatusGoroutine
  <2>2. QED
    BY <1>7, <2>1, IdleTyped DEF WriteStatus, TypeOK
<1>8. CASE StopStatus(j)
  BY <1>8 DEF StopStatus, TypeOK
<1>9. QED
  BY <1>1, <1>2, <1>3, <1>4, <1>5, <1>6, <1>7, <1>8 DEF StatusStep

\* Launching a worker, every step of a worker and the ticker preserve the types.
LEMMA WorkerTypeOK ==
  ASSUME TypeOK, NEW j \in Jobs, NEW t \in Tasks,
         Launch(j, t) \/ WorkerStep(j, t) \/ Tick(j, t)
  PROVE  TypeOK'
<1> DEFINE w == work[j][t]
<1>w. /\ w \in Worker
      /\ w.pc \in WorkerPC
      /\ w.next \in Nat /\ w.ok \in Nat /\ w.err \in Nat /\ w.count \in Nat
      /\ w.flying \in SUBSET Nat /\ w.lost \in SUBSET Nat
      /\ w.snap \in Row
  BY WorkerFields DEF TypeOK
<1>m. mem[j][t] \in Row /\ file[t] \in File
  BY DEF TypeOK
<1>1. CASE Launch(j, t)
  BY <1>1, GotoTyped DEF Launch, TypeOK, WorkerPC
<1>2. CASE Prepare(j, t)
  BY <1>2, GotoTyped DEF Prepare, TypeOK, WorkerPC, ReportPC
<1>3. CASE SetRunning(j, t)
  <2>1. [mem[j][t] EXCEPT !.status = "Running"] \in Row
    BY <1>m DEF Row, Statuses
  <2>2. work' \in [Jobs -> [Tasks -> Worker]]
    BY <1>3, GotoTyped DEF SetRunning, WorkerPC
  <2>3. mem' \in [Jobs -> [Tasks -> Row]]
    BY <1>3, <2>1, SetMemTyped DEF SetRunning
  <2>4. QED
    BY <1>3, <2>2, <2>3 DEF SetRunning, TypeOK
<1>4. CASE Split(j, t)
  <2>1. SplitOutcome(file[t]) \in WorkerPC
    BY DEF SplitOutcome, WorkerPC, ReportPC
  <2>2. QED
    BY <1>4, <2>1, GotoTyped DEF Split, TypeOK
<1>d. CASE SplitPanics(j, t)
  BY <1>d, ProcessTypeOK DEF SplitPanics
<1>5. CASE CopyRow(j, t)
  <2> DEFINE target == CASE w.pc = "copyRunning"  -> "writeRunning"
                         [] w.pc = "copyProgress" -> "writeProgress"
                         [] OTHER                 -> "writeSuccess"
  <2>1. target \in WorkerPC
    BY DEF WorkerPC, WritePC
  <2>2. SetWorker(j, t, [w EXCEPT !.snap = mem[j][t], !.pc = target])
    BY <1>5 DEF CopyRow
  <2> HIDE DEF target
  <2>3. [w EXCEPT !.snap = mem[j][t], !.pc = target] \in Worker
    BY <1>w, <1>m, <2>1, WorkerUpdates
  <2>4. QED
    BY <1>5, <2>2, <2>3, SetWorkerTyped DEF CopyRow, TypeOK
<1>6. CASE WriteSucceeds(j, t)
  <2>1. AfterWrite(w.pc) \in WorkerPC
    BY DEF AfterWrite, WorkerPC
  <2>2. [w EXCEPT !.snap = NewRow, !.pc = AfterWrite(w.pc)] \in Worker
    BY <1>w, <2>1, IdleTyped, WorkerUpdates
  <2>3. SetWorker(j, t, [w EXCEPT !.snap = NewRow, !.pc = AfterWrite(w.pc)])
    BY <1>6 DEF WriteSucceeds
  <2>4. QED
    BY <1>6, <1>w, <2>2, <2>3, SetWorkerTyped DEF WriteSucceeds, TypeOK
<1>7. CASE WriteFails(j, t)
  <2> DEFINE pc == IF w.pc = "writeProgress" THEN "reportProgress" ELSE "reportFailed"
  <2>1. pc \in WorkerPC
    BY DEF WorkerPC, ReportPC
  <2>2. SetWorker(j, t, [w EXCEPT !.snap = NewRow, !.pc = pc])
    BY <1>7 DEF WriteFails
  <2> HIDE DEF pc
  <2>3. [w EXCEPT !.snap = NewRow, !.pc = pc] \in Worker
    BY <1>w, <2>1, IdleTyped, WorkerUpdates
  <2>4. db' \in [Tasks -> Row]
    BY <1>7, <1>w DEF WriteFails, TypeOK
  <2>5. QED
    BY <1>7, <2>2, <2>3, <2>4, SetWorkerTyped DEF WriteFails, TypeOK
<1>a. AddOrSelect(j, t, w) \in WorkerPC
  BY DEF AddOrSelect, WorkerPC
<1>8. CASE TakeSuccess(j, t)
  <2>1. w.ok - 1 \in Nat /\ w.count + 1 \in Nat
    BY <1>8, <1>w DEF TakeSuccess
  <2>2. SetWorker(j, t, [w EXCEPT !.ok = w.ok - 1, !.count = w.count + 1,
                                  !.pc = AddOrSelect(j, t, w)])
    BY <1>8 DEF TakeSuccess
  <2>3. [w EXCEPT !.ok = w.ok - 1, !.count = w.count + 1, !.pc = AddOrSelect(j, t, w)]
          \in Worker
    BY <1>w, <1>a, <2>1, WorkerUpdates
  <2>4. QED
    BY <1>8, <2>2, <2>3, SetWorkerTyped DEF TakeSuccess, TypeOK
<1>9. CASE TakeError(j, t)
  <2>1. w.err - 1 \in Nat /\ w.count + 1 \in Nat /\ "reportFailed" \in WorkerPC
    BY <1>9, <1>w DEF TakeError, WorkerPC, ReportPC
  <2>2. SetWorker(j, t, [w EXCEPT !.err = w.err - 1, !.count = w.count + 1,
                                  !.pc = "reportFailed"])
    BY <1>9 DEF TakeError
  <2>3. [w EXCEPT !.err = w.err - 1, !.count = w.count + 1, !.pc = "reportFailed"]
          \in Worker
    BY <1>w, <2>1, WorkerUpdates
  <2>4. QED
    BY <1>9, <2>2, <2>3, SetWorkerTyped DEF TakeError, TypeOK
<1>10. CASE NothingReady(j, t)
  BY <1>10, GotoTyped DEF NothingReady, TypeOK, WorkerPC
<1>11. CASE Tick(j, t)
  <2> DEFINE row == [mem[j][t] EXCEPT !.progress = Progress(w, file[t])]
  <2>1. Progress(w, file[t]) \in Nat
    <3>1. SizeOf(file[t]) \in Nat \ {0}
      BY <1>11, <1>m, SizeOfFile DEF Tick
    <3>2. \A a \in Nat, b \in Nat \ {0} : (a * 100) \div b \in Nat
      OBVIOUS
    <3>3. QED
      BY <1>w, <3>1, <3>2 DEF Progress, WrittenRows
  <2>2. row \in Row
    BY <1>m, <2>1 DEF Row
  <2>3. SetMem(j, t, row)
    BY <1>11 DEF Tick
  <2>4. work' \in [Jobs -> [Tasks -> Worker]]
    BY <1>11, GotoTyped DEF Tick, WorkerPC
  <2>5. QED
    BY <1>11, <2>2, <2>3, <2>4, SetMemTyped DEF Tick, TypeOK
<1>12. CASE Complete(j, t)
  <2>1. [status |-> "Success", progress |-> 100] \in Row
    BY DEF Row, Statuses
  <2>2. work' \in [Jobs -> [Tasks -> Worker]]
    BY <1>12, GotoTyped DEF Complete, WorkerPC
  <2>3. mem' \in [Jobs -> [Tasks -> Row]]
    BY <1>12, <2>1, SetMemTyped DEF Complete
  <2>4. QED
    BY <1>12, <2>2, <2>3 DEF Complete, TypeOK
<1>13. CASE Continue(j, t)
  BY <1>13, <1>a, GotoTyped DEF Continue, TypeOK
<1>14. CASE AddRow(j, t)
  <2> DEFINE last == (w.next + 1) % BatchSize = 0 \/ w.next + 1 = RowCount(file[t])
             pc   == IF last THEN "select" ELSE "add"
             rows == w.flying \cup {w.next + 1}
  <2>1. pc \in WorkerPC
    BY DEF WorkerPC
  <2>2. w.next + 1 \in Nat /\ rows \in SUBSET Nat
    BY <1>w
  <2>3. SetWorker(j, t, [w EXCEPT !.next = w.next + 1, !.flying = rows, !.pc = pc])
    BY <1>14 DEF AddRow
  <2> HIDE DEF rows, pc
  <2>4. [w EXCEPT !.next = w.next + 1, !.flying = rows, !.pc = pc] \in Worker
    BY <1>w, <2>1, <2>2, WorkerUpdates
  <2>5. QED
    BY <1>14, <2>3, <2>4, SetWorkerTyped DEF AddRow, TypeOK
<1>15. CASE AddFails(j, t)
  BY <1>15, GotoTyped DEF AddFails, TypeOK, WorkerPC, ReportPC
<1>16. CASE Report(j, t)
  <2>1. (IF w.pc = "reportFailed" THEN "failed" ELSE "afterTick") \in WorkerPC
    BY DEF WorkerPC
  <2>2. [t |-> t, status |-> ReportedStatus(w.pc)] \in Message
    BY DEF Message, ReportedStatus
  <2>3. chan' \in [Jobs -> Seq(Message)]
    BY <1>16, <2>2 DEF Report, TypeOK
  <2>4. QED
    BY <1>16, <2>1, <2>3, GotoTyped DEF Report, TypeOK
<1>17. QED
  BY <1>1, <1>2, <1>3, <1>4, <1>d, <1>5, <1>6, <1>7, <1>8, <1>9, <1>10, <1>11,
     <1>12, <1>13, <1>14, <1>15, <1>16 DEF WorkerStep

\* Whatever its result, an answer takes a row out of flight and leaves the rest of
\* the worker as the callback wrote it.
LEMMA AnswerTyped ==
  ASSUME TypeOK, NEW j \in Jobs, NEW t \in Tasks, NEW r, NEW w \in Worker,
         Answer(j, t, r, w)
  PROVE  /\ work' \in [Jobs -> [Tasks -> Worker]]
         /\ r \in Nat
<1>1. w.flying \ {r} \in SUBSET Nat
  BY WorkerFields
<1>2. [w EXCEPT !.flying = w.flying \ {r}] \in Worker
  BY <1>1 DEF Worker
<1>3. SetWorker(j, t, [w EXCEPT !.flying = w.flying \ {r}])
  BY DEF Answer
<1>4. work[j][t].flying \in SUBSET Nat
  BY WorkerFields DEF TypeOK
<1>5. QED
  BY <1>2, <1>3, <1>4, SetWorkerTyped DEF Answer

\* The callbacks of the bulk indexer preserve the types.
LEMMA IndexerTypeOK ==
  ASSUME TypeOK, NEW j \in Jobs, NEW t \in Tasks, IndexerStep(j, t)
  PROVE  TypeOK'
<1> DEFINE w == work[j][t]
<1>w. /\ w \in Worker
      /\ w.ok \in Nat /\ w.err \in Nat
      /\ w.flying \in SUBSET Nat /\ w.lost \in SUBSET Nat
  BY WorkerFields DEF TypeOK
<1>1. PICK r \in w.flying : RowWritten(j, t, r) \/ RowRefused(j, t, r) \/ FlushFails(j, t, r)
  BY DEF IndexerStep
<1>2. r \in Nat
  BY <1>w, <1>1
<1>3. /\ [w EXCEPT !.ok = w.ok + 1] \in Worker
      /\ [w EXCEPT !.err = w.err + 1] \in Worker
      /\ [w EXCEPT !.lost = w.lost \cup {r}] \in Worker
  <2>1. w.ok + 1 \in Nat /\ w.err + 1 \in Nat /\ w.lost \cup {r} \in SUBSET Nat
    BY <1>w, <1>2
  <2>2. QED
    BY <1>w, <2>1 DEF Worker
<1>4. PICK v \in Worker : Answer(j, t, r, v)
  <2>1. CASE RowWritten(j, t, r)
    BY <2>1, <1>3 DEF RowWritten
  <2>2. CASE RowRefused(j, t, r)
    BY <2>2, <1>3 DEF RowRefused
  <2>3. CASE FlushFails(j, t, r)
    BY <2>3, <1>3 DEF FlushFails
  <2>4. QED
    BY <1>1, <2>1, <2>2, <2>3
<1>5. indexed' \in [Tasks -> SUBSET Nat]
  BY <1>1, <1>2 DEF RowWritten, RowRefused, FlushFails, TypeOK
<1>6. QED
  BY <1>4, <1>5, AnswerTyped DEF Answer, TypeOK

\* Every step of the job, stuttering included, preserves the types.
LEMMA StepTypeOK == TypeOK /\ [Next]_vars => TypeOK'
<1>1. TypeOK /\ Next => TypeOK'
  BY ProcessTypeOK, WorkerTypeOK, IndexerTypeOK DEF Next, Crash
<1>2. TypeOK /\ UNCHANGED vars => TypeOK'
  BY DEF TypeOK, vars
<1>3. QED
  BY <1>1, <1>2

\* In every reachable state the rows, workers, channels and the index have the
\* shape of the Go structures and of the documents they stand for.
THEOREM TypeCorrect == Spec => []TypeOK
<1>1. QED
  BY InitTypeOK, StepTypeOK, PTL DEF Spec

-----------------------------------------------------------------------------
(* Lemmas on what Elasticsearch confirms and on what a row claims.         *)

\* The rows confirmed for a worker are among those it has handed out; when they are
\* as many, they are all of them.
LEMMA ConfirmedSize ==
  ASSUME NEW ix, NEW w \in Worker
  PROVE  /\ IsFiniteSet(Confirmed(ix, w))
         /\ Cardinality(Confirmed(ix, w)) \in Nat
         /\ Cardinality(Confirmed(ix, w)) <= w.next
         /\ Confirmed(ix, w) \subseteq ix
         /\ Cardinality(Confirmed(ix, w)) = w.next => 1..w.next \subseteq ix
<1> DEFINE n == w.next
           C == Confirmed(ix, w)
<1>1. n \in Nat
  BY WorkerFields
<1>2. C \in SUBSET (1..n) /\ C \subseteq ix
  BY DEF Confirmed
<1> HIDE DEF n, C
<1>3. IsFiniteSet(1..n) /\ Cardinality(1..n) = n
  BY <1>1, FS_Interval
<1>4. IsFiniteSet(C) /\ Cardinality(C) <= n /\ (n = Cardinality(C) => 1..n = C)
  BY <1>2, <1>3, FS_Subset
<1>5. Cardinality(C) \in Nat
  BY <1>4, FS_CardinalityType
<1>6. QED
  BY <1>2, <1>4, <1>5 DEF n, C

\* The index of a task is a finite set of rows of its file.
LEMMA IndexFinite ==
  ASSUME NEW f \in File, NEW ix, IndexTrue(f, ix)
  PROVE  /\ IsFiniteSet(ix)
         /\ Cardinality(ix) \in Nat
<1>1. RowCount(f) \in Nat
  BY SizeOfFile
<1>2. IsFiniteSet(1..RowCount(f))
  BY <1>1, FS_Interval
<1>3. ix \in SUBSET (1..RowCount(f))
  BY DEF IndexTrue
<1>4. IsFiniteSet(ix)
  BY <1>2, <1>3, FS_Subset
<1>5. QED
  BY <1>4, FS_CardinalityType

\* A row that claims nothing is true of any index.
LEMMA NewRowTrue ==
  ASSUME NEW f \in File, NEW ix, IndexTrue(f, ix)
  PROVE  RowTrue(f, ix, NewRow)
<1>1. RowCount(f) \in Nat /\ Cardinality(ix) \in Nat
  BY SizeOfFile, IndexFinite
<1>2. QED
  BY <1>1 DEF RowTrue, NewRow

\* What a row claims stays true while the index grows.
LEMMA RowStaysTrue ==
  ASSUME NEW f \in File, NEW ix, NEW more, IndexTrue(f, more), ix \subseteq more,
         NEW row \in Row, RowTrue(f, ix, row)
  PROVE  RowTrue(f, more, row)
<1>1. IsFiniteSet(more) /\ Cardinality(more) \in Nat
  BY IndexFinite
<1>2. IsFiniteSet(ix) /\ Cardinality(ix) <= Cardinality(more)
  BY <1>1, FS_Subset
<1>3. Cardinality(ix) \in Nat
  BY <1>2, FS_CardinalityType
<1>4. row.progress * RowCount(f) \in Nat
  BY SizeOfFile DEF Row
<1>5. row.progress * RowCount(f) <= 100 * Cardinality(more)
  BY <1>1, <1>2, <1>3, <1>4 DEF RowTrue
<1>6. QED
  BY <1>5 DEF RowTrue

\* What a worker counts stays confirmed while the index grows.
LEMMA WorkerStaysTrue ==
  ASSUME NEW f \in File, NEW ix, NEW more, ix \subseteq more,
         NEW w \in Worker, WorkerInv(f, ix, w)
  PROVE  WorkerInv(f, more, w)
<1>1. IsFiniteSet(Confirmed(more, w)) /\ Cardinality(Confirmed(more, w)) \in Nat
  BY ConfirmedSize
<1>2. Confirmed(ix, w) \in SUBSET Confirmed(more, w)
  BY DEF Confirmed
<1>3. Cardinality(Confirmed(ix, w)) <= Cardinality(Confirmed(more, w))
  BY <1>1, <1>2, FS_Subset
<1>4. Cardinality(Confirmed(ix, w)) \in Nat /\ w.count \in Nat /\ w.ok \in Nat
  BY ConfirmedSize, WorkerFields
<1>5. w.pc \notin GaveUp => w.count + w.ok <= Cardinality(Confirmed(more, w))
  BY <1>1, <1>3, <1>4 DEF WorkerInv
<1>6. QED
  BY <1>5 DEF WorkerInv

\* A worker that has not started has handed out and counted nothing.
LEMMA IdleTrue ==
  ASSUME NEW f \in File, NEW ix, NEW w \in {Idle, [Idle EXCEPT !.pc = "queued"]}
  PROVE  WorkerInv(f, ix, w)
<1>1. /\ w.next = 0 /\ w.flying = {} /\ w.lost = {} /\ w.ok = 0 /\ w.count = 0
      /\ w.pc \in {"none", "queued"}
  BY DEF Idle
<1>2. Cardinality(Confirmed(ix, w)) \in Nat
  BY IdleTyped, ConfirmedSize
<1>3. RowCount(f) \in Nat
  BY SizeOfFile
<1>4. QED
  BY <1>1, <1>2, <1>3 DEF WorkerInv, AfterSplit

\* A worker that moves on, without counting, between two places of its code keeps
\* WorkerInv if the new place is one its file allows.
LEMMA MoveTrue ==
  ASSUME NEW f, NEW ix, NEW w \in Worker, NEW v \in Worker, WorkerInv(f, ix, w),
         v.next = w.next, v.flying = w.flying, v.lost = w.lost,
         \/ v.pc \in GaveUp
         \/ v.count + v.ok = w.count + w.ok /\ w.pc \notin GaveUp,
         v.pc = "add" => w.next < RowCount(f),
         v.pc \in AfterSplit => Valid(f) \/ RowCount(f) = 0 \/ w.pc \in AfterSplit,
         RowCount(f) \in Nat
  PROVE  WorkerInv(f, ix, v)
<1>1. Confirmed(ix, v) = Confirmed(ix, w)
  BY DEF Confirmed
<1>2. QED
  BY <1>1 DEF WorkerInv

\* One more row in flight confirms as much as before.
LEMMA AddTrue ==
  ASSUME NEW f, NEW ix, NEW w \in Worker, NEW v \in Worker, WorkerInv(f, ix, w),
         RowCount(f) \in Nat, w.pc = "add",
         v.next = w.next + 1, v.flying = w.flying \cup {w.next + 1}, v.lost = w.lost,
         v.count = w.count, v.ok = w.ok,
         v.pc \in {"add", "select"}, v.pc = "add" => v.next # RowCount(f)
  PROVE  WorkerInv(f, ix, v)
<1>1. w.next \in Nat /\ w.next < RowCount(f) /\ w.flying \cup w.lost \subseteq 1..w.next
  BY WorkerFields DEF WorkerInv
<1>2. v.next <= RowCount(f) /\ (v.pc = "add" => v.next < RowCount(f))
  BY <1>1
<1>3. v.flying \cup v.lost \subseteq 1..v.next /\ v.flying \cap v.lost = {}
  <2>1. 1..w.next \subseteq 1..v.next /\ w.next + 1 \in 1..v.next /\ w.next + 1 \notin 1..w.next
    BY <1>1
  <2>2. QED
    BY <1>1, <2>1 DEF WorkerInv
<1>4. Confirmed(ix, v) = Confirmed(ix, w)
  <2>1. 1..v.next = 1..w.next \cup {w.next + 1}
    BY <1>1
  <2>2. w.next + 1 \notin 1..w.next
    BY <1>1
  <2>3. QED
    BY <2>1, <2>2 DEF Confirmed
<1>5. Valid(f) \/ RowCount(f) = 0
  BY <1>1 DEF WorkerInv, AfterSplit
<1>6. w.pc \notin GaveUp
  BY DEF GaveUp
<1>7. QED
  BY <1>2, <1>3, <1>4, <1>5, <1>6 DEF WorkerInv

\* An answered row is confirmed when its success is counted.
LEMMA AnswerTrue ==
  ASSUME NEW f, NEW ix, NEW more, NEW w \in Worker, NEW v \in Worker, NEW r \in w.flying,
         WorkerInv(f, ix, w), ix \subseteq more,
         v.next = w.next, v.pc = w.pc, v.count = w.count, v.flying = w.flying \ {r},
         \/ v.ok = w.ok /\ v.lost \in {w.lost, w.lost \cup {r}}
         \/ v.ok = w.ok + 1 /\ v.lost = w.lost /\ r \in more
  PROVE  WorkerInv(f, more, v)
<1> DEFINE C == Confirmed(ix, w)
           D == Confirmed(more, v)
<1>1. /\ IsFiniteSet(C) /\ Cardinality(C) \in Nat
      /\ IsFiniteSet(D) /\ Cardinality(D) \in Nat
  BY ConfirmedSize
<1>2. w.count \in Nat /\ w.ok \in Nat
  BY WorkerFields
<1>3. r \in 1..w.next /\ r \notin w.lost
  BY DEF WorkerInv
<1>4. C \subseteq D
  BY DEF Confirmed
<1>5. v.flying \cup v.lost \subseteq 1..v.next /\ v.flying \cap v.lost = {}
  BY <1>3 DEF WorkerInv
<1>6. w.pc \notin GaveUp => v.count + v.ok <= Cardinality(D)
  <2>1. CASE v.ok = w.ok
    <3>1. C \in SUBSET D
      BY <1>4
    <3>2. Cardinality(C) <= Cardinality(D)
      BY <1>1, <3>1, FS_Subset
    <3>3. QED
      BY <1>1, <1>2, <2>1, <3>2 DEF WorkerInv
  <2>2. CASE v.ok = w.ok + 1 /\ v.lost = w.lost /\ r \in more
    <3>1. r \notin C /\ r \in D
      BY <1>3, <2>2 DEF Confirmed
    <3>2. C \cup {r} \in SUBSET D
      BY <1>4, <3>1
    <3>3. Cardinality(C \cup {r}) <= Cardinality(D)
      BY <1>1, <3>2, FS_Subset
    <3>4. Cardinality(C \cup {r}) = Cardinality(C) + 1
      BY <1>1, <3>1, FS_AddElement
    <3>5. QED
      <4>1. w.pc \notin GaveUp => w.count + w.ok <= Cardinality(C)
        BY DEF WorkerInv
      <4> HIDE DEF C, D
      <4>2. QED
        BY <1>1, <1>2, <2>2, <3>3, <3>4, <4>1
  <2>3. QED
    BY <2>1, <2>2
<1>7. QED
  BY <1>5, <1>6 DEF WorkerInv

\* A worker whose count has reached the size of its file is right to say Success:
\* the size of an empty file, which wraps around, is never reached by a row.
LEMMA DoneIsIndexed ==
  ASSUME NEW f \in File, NEW ix, IndexTrue(f, ix), NEW w \in Worker,
         WorkerInv(f, ix, w), w.pc \notin GaveUp, IsDone(w, f)
  PROVE  RowTrue(f, ix, [status |-> "Success", progress |-> 100])
<1> DEFINE rows == RowCount(f)
           C    == Confirmed(ix, w)
<1>1. rows \in Nat /\ SizeOf(f) \in Nat /\ rows <= SizeOf(f)
  BY SizeOfFile
<1>2. /\ w.count \in Nat /\ w.ok \in Nat /\ w.next \in Nat
      /\ w.next <= rows /\ w.count + w.ok <= Cardinality(C)
  BY WorkerFields DEF WorkerInv
<1>3. /\ Cardinality(C) \in Nat /\ Cardinality(C) <= w.next
      /\ Cardinality(C) = w.next => 1..w.next \subseteq ix
  BY ConfirmedSize
<1>4. SizeOf(f) = 0 \/ w.count = SizeOf(f)
  BY DEF IsDone, WrittenRows
<1> HIDE DEF rows, C
<1>5. 1..rows \subseteq ix
  <2>1. CASE SizeOf(f) = 0
    BY <1>1, <2>1
  <2>2. CASE w.count = SizeOf(f)
    <3>1. Cardinality(C) = w.next /\ w.next = rows
      BY <1>1, <1>2, <1>3, <2>2
    <3>2. QED
      BY <1>3, <3>1
  <2>3. QED
    BY <1>4, <2>1, <2>2
<1>6. 100 * rows <= 100 * Cardinality(ix)
  <2>1. IsFiniteSet(ix) /\ Cardinality(ix) \in Nat
    BY IndexFinite
  <2>2. Cardinality(1..rows) = rows
    BY <1>1, FS_Interval
  <2>3. Cardinality(1..rows) <= Cardinality(ix)
    BY <1>5, <2>1, FS_Subset
  <2>4. QED
    BY <1>1, <2>1, <2>2, <2>3
<1>7. QED
  BY <1>5, <1>6 DEF RowTrue, rows

\* The percentage of a tick is true of the index.
LEMMA TickIsTrue ==
  ASSUME NEW f \in File, NEW ix, IndexTrue(f, ix), NEW w \in Worker,
         WorkerInv(f, ix, w), w.pc \notin GaveUp, SizeOf(f) > 0
  PROVE  Progress(w, f) * RowCount(f) <= 100 * Cardinality(ix)
<1> DEFINE rows == RowCount(f)
           size == SizeOf(f)
           C    == Confirmed(ix, w)
<1>1. rows \in Nat /\ size \in Nat /\ rows <= size /\ size > 0
  BY SizeOfFile
<1>2. w.count \in Nat /\ w.ok \in Nat /\ w.count + w.ok <= Cardinality(C)
  BY WorkerFields DEF WorkerInv
<1>3. IsFiniteSet(ix) /\ Cardinality(ix) \in Nat
  BY IndexFinite
<1>4. Cardinality(C) \in Nat /\ C \in SUBSET ix
  BY ConfirmedSize
<1>5. Cardinality(C) <= Cardinality(ix)
  BY <1>3, <1>4, FS_Subset
<1> HIDE DEF rows, size, C
<1>6. /\ (w.count * 100) \div size \in Nat
      /\ ((w.count * 100) \div size) * rows <= 100 * w.count
  <2>1. size \in Nat \ {0} /\ rows \in 0..size
    BY <1>1
  <2>2. QED
    BY <1>2, <2>1, PercentRoundsDown
<1> DEFINE q == (w.count * 100) \div size
<1>7. q * rows \in Nat
  BY <1>1, <1>6
<1>8. q * rows <= 100 * Cardinality(ix)
  <2>1. q * rows <= 100 * w.count
    BY <1>6
  <2> HIDE DEF q
  <2>2. QED
    BY <1>2, <1>3, <1>4, <1>5, <1>7, <2>1
<1>9. QED
  BY <1>8 DEF Progress, WrittenRows, rows, size

-----------------------------------------------------------------------------
(* UploadInv is inductive.                                                 *)

\* A step preserves UploadInv if the index grows within the files, every worker is
\* right about the new index, and every copy of a row is right about the old one.
LEMMA FrameTrue ==
  ASSUME TypeOK, TypeOK', file' = file,
         \A t \in Tasks : indexed[t] \subseteq indexed'[t] /\ IndexTrue(file[t], indexed'[t]),
         \A j \in Jobs, t \in Tasks : WorkerInv(file[t], indexed'[t], work'[j][t]),
         \A t \in Tasks : RowTrue(file[t], indexed[t], db'[t]),
         \A j \in Jobs, t \in Tasks :
           /\ RowTrue(file[t], indexed[t], mem'[j][t])
           /\ RowTrue(file[t], indexed[t], work'[j][t].snap),
         \A j \in Jobs : RowTrue(file[sg'[j].t], indexed[sg'[j].t], sg'[j].snap)
  PROVE  UploadInv'
<1>1. ASSUME NEW t \in Tasks, NEW row \in Row, RowTrue(file[t], indexed[t], row)
      PROVE  RowTrue(file[t], indexed'[t], row)
  <2>1. file[t] \in File
    BY DEF TypeOK
  <2>2. QED
    BY <1>1, <2>1, RowStaysTrue
<1>2. ASSUME NEW t \in Tasks
      PROVE  RowTrue(file[t], indexed'[t], db'[t])
  BY <1>1 DEF TypeOK
<1>3. ASSUME NEW j \in Jobs, NEW t \in Tasks
      PROVE  /\ RowTrue(file[t], indexed'[t], mem'[j][t])
             /\ RowTrue(file[t], indexed'[t], work'[j][t].snap)
  <2>1. mem'[j][t] \in Row /\ work'[j][t] \in Worker
    BY DEF TypeOK
  <2>2. work'[j][t].snap \in Row
    BY <2>1, WorkerFields
  <2>3. QED
    BY <1>1, <2>1, <2>2
<1>4. ASSUME NEW j \in Jobs
      PROVE  RowTrue(file[sg'[j].t], indexed'[sg'[j].t], sg'[j].snap)
  <2>1. sg'[j].t \in Tasks /\ sg'[j].snap \in Row
    BY DEF TypeOK, StatusGoroutine
  <2>2. QED
    BY <1>1, <2>1
<1>5. CopiesTrue'
  BY <1>2, <1>3, <1>4 DEF CopiesTrue
<1>6. QED
  BY <1>5 DEF UploadInv

\* A step that leaves the index alone preserves UploadInv if each worker and each
\* copy of a row it writes is right about it.
LEMMA SameIndexTrue ==
  ASSUME TypeOK, TypeOK', UploadInv, UNCHANGED <<file, indexed>>,
         \A j \in Jobs, t \in Tasks :
           \/ work'[j][t] = work[j][t]
           \/ /\ WorkerInv(file[t], indexed[t], work'[j][t])
              /\ RowTrue(file[t], indexed[t], work'[j][t].snap),
         \A t \in Tasks : RowTrue(file[t], indexed[t], db'[t]),
         \A j \in Jobs, t \in Tasks : RowTrue(file[t], indexed[t], mem'[j][t]),
         \A j \in Jobs : RowTrue(file[sg'[j].t], indexed[sg'[j].t], sg'[j].snap)
  PROVE  UploadInv'
<1>1. \A j \in Jobs, t \in Tasks :
        /\ WorkerInv(file[t], indexed[t], work'[j][t])
        /\ RowTrue(file[t], indexed[t], work'[j][t].snap)
  BY DEF UploadInv, CopiesTrue
<1>2. \A t \in Tasks : indexed[t] \subseteq indexed'[t] /\ IndexTrue(file[t], indexed'[t])
  BY DEF UploadInv
<1>3. QED
  BY <1>1, <1>2, FrameTrue

\* A step of a worker that writes at most its own row and its own shared object.
LEMMA WorkerFrame ==
  ASSUME TypeOK, TypeOK', UploadInv, NEW j \in Jobs, NEW t \in Tasks, NEW v \in Worker,
         SetWorker(j, t, v), UNCHANGED <<file, sg, indexed>>,
         WorkerInv(file[t], indexed[t], v), RowTrue(file[t], indexed[t], v.snap),
         \A s \in Tasks : RowTrue(file[s], indexed[s], db'[s]),
         \A i \in Jobs, s \in Tasks : RowTrue(file[s], indexed[s], mem'[i][s])
  PROVE  UploadInv'
<1>1. ASSUME NEW i \in Jobs, NEW s \in Tasks
      PROVE  work'[i][s] = IF i = j /\ s = t THEN v ELSE work[i][s]
  BY DEF SetWorker, TypeOK
<1>2. \A i \in Jobs, s \in Tasks :
        \/ work'[i][s] = work[i][s]
        \/ /\ WorkerInv(file[s], indexed[s], work'[i][s])
           /\ RowTrue(file[s], indexed[s], work'[i][s].snap)
  BY <1>1
<1>3. \A i \in Jobs : RowTrue(file[sg'[i].t], indexed[sg'[i].t], sg'[i].snap)
  BY DEF UploadInv, CopiesTrue
<1>4. QED
  BY <1>2, <1>3, SameIndexTrue

\* A worker that only moves to another place of its code.
LEMMA GotoFrame ==
  ASSUME TypeOK, TypeOK', UploadInv, NEW j \in Jobs, NEW t \in Tasks, NEW pc \in WorkerPC,
         Goto(j, t, pc), UNCHANGED <<file, db, sg, indexed>>,
         pc \in GaveUp \/ work[j][t].pc \notin GaveUp,
         pc = "add" => work[j][t].next < RowCount(file[t]),
         pc \in AfterSplit =>
           Valid(file[t]) \/ RowCount(file[t]) = 0 \/ work[j][t].pc \in AfterSplit,
         \A i \in Jobs, s \in Tasks : RowTrue(file[s], indexed[s], mem'[i][s])
  PROVE  UploadInv'
<1> DEFINE w == work[j][t]
           v == [w EXCEPT !.pc = pc]
<1>1. w \in Worker /\ file[t] \in File
  BY DEF TypeOK
<1>2. v \in Worker
  BY <1>1 DEF Worker
<1>3. /\ v.pc = pc /\ v.next = w.next /\ v.flying = w.flying /\ v.lost = w.lost
      /\ v.count = w.count /\ v.ok = w.ok /\ v.snap = w.snap
  BY <1>1 DEF Worker
<1>4. WorkerInv(file[t], indexed[t], w) /\ RowTrue(file[t], indexed[t], w.snap)
  BY DEF UploadInv, CopiesTrue
<1>5. RowCount(file[t]) \in Nat
  BY <1>1, SizeOfFile
<1>6. SetWorker(j, t, v)
  BY DEF Goto
<1>7. \A s \in Tasks : RowTrue(file[s], indexed[s], db'[s])
  BY DEF UploadInv, CopiesTrue
<1> HIDE DEF v
<1>8. WorkerInv(file[t], indexed[t], v)
  <2>1. \/ v.pc \in GaveUp
        \/ v.count + v.ok = w.count + w.ok /\ w.pc \notin GaveUp
    BY <1>3
  <2>2. QED
    BY <1>1, <1>2, <1>3, <1>4, <1>5, <2>1, MoveTrue
<1>9. QED
  BY <1>2, <1>3, <1>4, <1>6, <1>7, <1>8, WorkerFrame

\* Initially the index is empty and nothing claims anything.
LEMMA InitUploadInv == Init => UploadInv
<1> SUFFICES ASSUME Init PROVE UploadInv
  OBVIOUS
<1>1. TypeOK
  BY InitTypeOK
<1>2. ASSUME NEW t \in Tasks
      PROVE  IndexTrue(file[t], indexed[t])
  BY DEF Init, IndexTrue
<1>3. ASSUME NEW t \in Tasks
      PROVE  RowTrue(file[t], indexed[t], NewRow)
  BY <1>1, <1>2, NewRowTrue DEF TypeOK
<1>4. ASSUME NEW j \in Jobs, NEW t \in Tasks
      PROVE  WorkerInv(file[t], indexed[t], work[j][t])
  <2>1. work[j][t] = Idle /\ file[t] \in File
    BY DEF Init
  <2>2. QED
    BY <2>1, IdleTrue
<1>5. CopiesTrue
  <2>1. \A t \in Tasks : db[t] = NewRow
    BY DEF Init
  <2>2. \A j \in Jobs, t \in Tasks : mem[j][t] = NewRow /\ work[j][t].snap = NewRow
    BY DEF Init, Idle
  <2>3. \A j \in Jobs : sg[j].t \in Tasks /\ sg[j].snap = NewRow
    BY IdleTyped DEF Init, IdleStatus, StatusGoroutine
  <2>4. QED
    BY <1>3, <2>1, <2>2, <2>3 DEF CopiesTrue
<1>6. QED
  BY <1>2, <1>4, <1>5 DEF UploadInv

\* Rows in flight may still be written: the index stays within the file.
LEMMA FlightIsOfFile ==
  ASSUME TypeOK, UploadInv, NEW j \in Jobs, NEW t \in Tasks,
         NEW more \in SUBSET (indexed[t] \cup work[j][t].flying)
  PROVE  IndexTrue(file[t], more)
<1> DEFINE w == work[j][t]
<1>1. IndexTrue(file[t], indexed[t]) /\ WorkerInv(file[t], indexed[t], w)
  BY DEF UploadInv
<1>2. w.next \in Nat /\ RowCount(file[t]) \in Nat
  BY WorkerFields, SizeOfFile DEF TypeOK
<1>3. 1..w.next \subseteq 1..RowCount(file[t])
  BY <1>1, <1>2 DEF WorkerInv
<1>4. ~Valid(file[t]) /\ RowCount(file[t]) > 0 => w.flying = {}
  BY <1>1 DEF WorkerInv
<1>5. QED
  BY <1>1, <1>3, <1>4 DEF IndexTrue, WorkerInv

\* The copies of the rows, one by one.
LEMMA CopyFacts ==
  ASSUME TypeOK, UploadInv, NEW j \in Jobs, NEW t \in Tasks
  PROVE  /\ RowTrue(file[t], indexed[t], db[t])
         /\ RowTrue(file[t], indexed[t], mem[j][t])
         /\ RowTrue(file[t], indexed[t], work[j][t].snap)
         /\ RowTrue(file[t], indexed[t], NewRow)
         /\ RowTrue(file[sg[j].t], indexed[sg[j].t], sg[j].snap)
<1>1. RowTrue(file[t], indexed[t], NewRow)
  BY NewRowTrue DEF TypeOK, UploadInv
<1>2. QED
  BY <1>1 DEF UploadInv, CopiesTrue

\* A process that starts takes copies of rows that are true; one that is killed may
\* leave rows behind that are written after its death.
LEMMA ProcessUploadInv ==
  ASSUME TypeOK, TypeOK', UploadInv, NEW j \in Jobs,
         StartJob(j) \/ StartFails(j) \/ TasksDone(j) \/ Die(j)
  PROVE  UploadInv'
<1>1. CASE StartJob(j)
  <2>1. UNCHANGED <<file, indexed, db, sg>>
    BY <1>1 DEF StartJob
  <2>2. ASSUME NEW i \in Jobs, NEW t \in Tasks
        PROVE  mem'[i][t] \in {db[t], mem[i][t]}
    BY <1>1 DEF StartJob, TypeOK
  <2>3. ASSUME NEW i \in Jobs, NEW t \in Tasks
        PROVE  \/ work'[i][t] = work[i][t]
               \/ /\ WorkerInv(file[t], indexed[t], work'[i][t])
                  /\ RowTrue(file[t], indexed[t], work'[i][t].snap)
    <3>1. work'[i][t] = work[i][t] \/ work'[i][t] \in {Idle, [Idle EXCEPT !.pc = "queued"]}
      BY <1>1 DEF StartJob, TypeOK
    <3>2. Idle.snap = NewRow /\ [Idle EXCEPT !.pc = "queued"].snap = NewRow
      BY DEF Idle
    <3>3. file[t] \in File
      BY DEF TypeOK
    <3>4. QED
      BY <3>1, <3>2, <3>3, IdleTrue, CopyFacts
  <2>4. \A i \in Jobs, t \in Tasks : RowTrue(file[t], indexed[t], mem'[i][t])
    BY <2>2, CopyFacts
  <2>5. \A t \in Tasks : RowTrue(file[t], indexed[t], db'[t])
    BY <2>1, CopyFacts
  <2>6. \A i \in Jobs : RowTrue(file[sg'[i].t], indexed[sg'[i].t], sg'[i].snap)
    BY <2>1 DEF UploadInv, CopiesTrue
  <2>7. QED
    BY <2>1, <2>3, <2>4, <2>5, <2>6, SameIndexTrue
<1>2. CASE StartFails(j) \/ TasksDone(j)
  <2>1. UNCHANGED <<file, indexed, db, mem, work, sg>>
    BY <1>2 DEF StartFails, TasksDone
  <2>2. QED
    BY <2>1 DEF UploadInv, CopiesTrue
<1>3. CASE Die(j)
  <2>1. /\ file' = file /\ db' = db
        /\ work' = [work EXCEPT ![j] = [t \in Tasks |-> Idle]]
        /\ mem' = [mem EXCEPT ![j] = [t \in Tasks |-> NewRow]]
        /\ sg' = [sg EXCEPT ![j] = IdleStatus]
        /\ \A t \in Tasks :
             indexed[t] \subseteq indexed'[t]
               /\ indexed'[t] \subseteq indexed[t] \cup work[j][t].flying
    BY <1>3 DEF Die
  <2>2. \A t \in Tasks : IndexTrue(file[t], indexed'[t])
    BY <2>1, FlightIsOfFile
  <2>3. ASSUME NEW i \in Jobs, NEW t \in Tasks
        PROVE  WorkerInv(file[t], indexed'[t], work'[i][t])
    <3>1. CASE i = j
      <4>1. work'[i][t] = Idle /\ file[t] \in File
        BY <2>1, <3>1 DEF TypeOK
      <4>2. QED
        BY <4>1, IdleTrue
    <3>2. CASE i # j
      <4>1. work'[i][t] = work[i][t] /\ work[i][t] \in Worker /\ file[t] \in File
        BY <2>1, <3>2 DEF TypeOK
      <4>2. WorkerInv(file[t], indexed[t], work[i][t]) /\ indexed[t] \subseteq indexed'[t]
        BY <2>1 DEF UploadInv
      <4>3. QED
        BY <4>1, <4>2, WorkerStaysTrue
    <3>3. QED
      BY <3>1, <3>2
  <2>4. ASSUME NEW i \in Jobs, NEW t \in Tasks
        PROVE  /\ RowTrue(file[t], indexed[t], mem'[i][t])
               /\ RowTrue(file[t], indexed[t], work'[i][t].snap)
    <3>1. mem'[i][t] \in {NewRow, mem[i][t]}
      BY <2>1 DEF TypeOK
    <3>2. work'[i][t] \in {Idle, work[i][t]} /\ Idle.snap = NewRow
      BY <2>1 DEF TypeOK, Idle
    <3>3. QED
      BY <3>1, <3>2, CopyFacts
  <2>5. ASSUME NEW i \in Jobs
        PROVE  RowTrue(file[sg'[i].t], indexed[sg'[i].t], sg'[i].snap)
    <3>1. sg'[i] = IdleStatus \/ sg'[i] = sg[i]
      BY <2>1 DEF TypeOK
    <3>2. IdleStatus.t \in Tasks /\ IdleStatus.snap = NewRow
      BY IdleTyped DEF IdleStatus, StatusGoroutine
    <3>3. RowTrue(file[IdleStatus.t], indexed[IdleStatus.t], IdleStatus.snap)
      BY <3>2, CopyFacts
    <3>4. RowTrue(file[sg[i].t], indexed[sg[i].t], sg[i].snap)
      BY DEF UploadInv, CopiesTrue
    <3>5. QED
      BY <3>1, <3>3, <3>4
  <2>6. \A t \in Tasks : RowTrue(file[t], indexed[t], db'[t])
    BY <2>1, CopyFacts
  <2>7. QED
    BY <2>1, <2>2, <2>3, <2>4, <2>5, <2>6, FrameTrue
<1>4. QED
  BY <1>1, <1>2, <1>3

\* The status goroutine sets Running or Failed, which claims nothing, and writes
\* whole rows it copied.
LEMMA StatusUploadInv ==
  ASSUME TypeOK, TypeOK', UploadInv, NEW j \in Jobs, StatusStep(j)
  PROVE  UploadInv'
<1>s. \A i \in Jobs : sg[i].t \in Tasks /\ sg[i].snap \in Row
  BY DEF TypeOK, StatusGoroutine
<1>c. \A i \in Jobs : RowTrue(file[sg[i].t], indexed[sg[i].t], sg[i].snap)
  BY DEF UploadInv, CopiesTrue
<1>1. CASE Receive(j)
  <2> DEFINE m   == Head(chan[j])
             row == [mem[j][m.t] EXCEPT !.status = m.status]
  <2>1. m \in Message
    BY <1>1 DEF Receive, TypeOK
  <2>2. m.t \in Tasks /\ m.status \in {"Running", "Failed"}
    BY <2>1 DEF Message
  <2>3. mem[j][m.t] \in Row /\ RowTrue(file[m.t], indexed[m.t], mem[j][m.t])
    BY <2>2, CopyFacts DEF TypeOK
  <2>4. RowTrue(file[m.t], indexed[m.t], row)
    BY <2>2, <2>3 DEF RowTrue, Row
  <2>5. /\ SetMem(j, m.t, row)
        /\ sg' = [sg EXCEPT ![j] = [pc |-> "copy", t |-> m.t, snap |-> NewRow]]
        /\ UNCHANGED <<file, db, work, indexed>>
    BY <1>1 DEF Receive
  <2> HIDE DEF m, row
  <2>6. ASSUME NEW i \in Jobs, NEW t \in Tasks
        PROVE  mem'[i][t] = mem[i][t] \/ (t = m.t /\ mem'[i][t] = row)
    BY <2>5 DEF SetMem, TypeOK
  <2>7. \A i \in Jobs, t \in Tasks : RowTrue(file[t], indexed[t], mem'[i][t])
    BY <2>4, <2>6, CopyFacts
  <2>8. ASSUME NEW i \in Jobs
        PROVE  RowTrue(file[sg'[i].t], indexed[sg'[i].t], sg'[i].snap)
    <3>1. sg'[i] = sg[i] \/ (sg'[i].t = m.t /\ sg'[i].snap = NewRow)
      BY <2>5 DEF TypeOK
    <3>2. QED
      BY <1>c, <2>2, <3>1, CopyFacts
  <2>9. \A t \in Tasks : RowTrue(file[t], indexed[t], db'[t])
    BY <2>5, CopyFacts
  <2>10. QED
    BY <2>5, <2>7, <2>8, <2>9, SameIndexTrue
<1>2. CASE CopyStatus(j)
  <2>1. /\ sg' = [sg EXCEPT ![j] = [pc |-> "write", t |-> sg[j].t, snap |-> mem[j][sg[j].t]]]
        /\ UNCHANGED <<file, db, mem, work, indexed>>
    BY <1>2 DEF CopyStatus
  <2>2. ASSUME NEW i \in Jobs
        PROVE  RowTrue(file[sg'[i].t], indexed[sg'[i].t], sg'[i].snap)
    <3>1. \/ sg'[i] = sg[i]
          \/ sg'[i].t = sg[j].t /\ sg'[i].snap = mem[j][sg[j].t]
      BY <2>1 DEF TypeOK
    <3>2. RowTrue(file[sg[j].t], indexed[sg[j].t], mem[j][sg[j].t])
      BY <1>s, CopyFacts
    <3>3. QED
      BY <1>c, <3>1, <3>2
  <2>3. QED
    BY <2>1, <2>2, CopyFacts, SameIndexTrue
<1>3. CASE WriteStatus(j)
  <2>1. /\ db' \in {db, [db EXCEPT ![sg[j].t] = sg[j].snap]}
        /\ sg' = [sg EXCEPT ![j] = IdleStatus]
        /\ UNCHANGED <<file, mem, work, indexed>>
    BY <1>3 DEF WriteStatus
  <2>2. ASSUME NEW t \in Tasks
        PROVE  RowTrue(file[t], indexed[t], db'[t])
    <3>1. db'[t] = db[t] \/ (t = sg[j].t /\ db'[t] = sg[j].snap)
      BY <2>1 DEF TypeOK
    <3>2. QED
      BY <1>c, <3>1, CopyFacts
  <2>3. ASSUME NEW i \in Jobs
        PROVE  RowTrue(file[sg'[i].t], indexed[sg'[i].t], sg'[i].snap)
    <3>1. sg'[i] = IdleStatus \/ sg'[i] = sg[i]
      BY <2>1 DEF TypeOK
    <3>2. IdleStatus.t \in Tasks /\ IdleStatus.snap = NewRow
      BY IdleTyped DEF IdleStatus, StatusGoroutine
    <3>3. RowTrue(file[IdleStatus.t], indexed[IdleStatus.t], IdleStatus.snap)
      BY <3>2, CopyFacts
    <3>4. QED
      BY <1>c, <3>1, <3>3
  <2>4. QED
    BY <2>1, <2>2, <2>3, CopyFacts, SameIndexTrue
<1>4. CASE StopStatus(j)
  <2>1. UNCHANGED <<file, indexed, db, mem, work, sg>>
    BY <1>4 DEF StopStatus
  <2>2. QED
    BY <2>1 DEF UploadInv, CopiesTrue
<1>5. QED
  BY <1>1, <1>2, <1>3, <1>4 DEF StatusStep

\* A worker that writes its shared object writes a row that is true.
LEMMA MemTrue ==
  ASSUME TypeOK, UploadInv, NEW j \in Jobs, NEW t \in Tasks, NEW row,
         RowTrue(file[t], indexed[t], row), SetMem(j, t, row)
  PROVE  \A i \in Jobs, s \in Tasks : RowTrue(file[s], indexed[s], mem'[i][s])
<1>1. ASSUME NEW i \in Jobs, NEW s \in Tasks
      PROVE  mem'[i][s] = mem[i][s] \/ (s = t /\ mem'[i][s] = row)
  BY DEF SetMem, TypeOK
<1>2. QED
  BY <1>1, CopyFacts

\* Every step of a worker and of its ticker preserves UploadInv.
LEMMA WorkerUploadInv ==
  ASSUME TypeOK, TypeOK', UploadInv, NEW j \in Jobs, NEW t \in Tasks,
         Launch(j, t) \/ WorkerStep(j, t) \/ Tick(j, t)
  PROVE  UploadInv'
<1> DEFINE w == work[j][t]
           f == file[t]
           ix == indexed[t]
<1>w. /\ w \in Worker /\ f \in File
      /\ w.next \in Nat /\ w.ok \in Nat /\ w.err \in Nat /\ w.count \in Nat
      /\ w.flying \in SUBSET Nat /\ w.lost \in SUBSET Nat
      /\ w.snap \in Row
  BY WorkerFields DEF TypeOK
<1>r. RowCount(f) \in Nat
  BY <1>w, SizeOfFile
<1>i. WorkerInv(f, ix, w) /\ IndexTrue(f, ix)
  BY DEF UploadInv
<1>c. /\ RowTrue(f, ix, db[t]) /\ RowTrue(f, ix, mem[j][t])
      /\ RowTrue(f, ix, w.snap) /\ RowTrue(f, ix, NewRow)
  BY CopyFacts
<1>m. /\ mem' = mem => \A i \in Jobs, s \in Tasks : RowTrue(file[s], indexed[s], mem'[i][s])
      /\ db' = db => \A s \in Tasks : RowTrue(file[s], indexed[s], db'[s])
  BY CopyFacts
<1>1. CASE Launch(j, t)
  <2>1. Goto(j, t, "prepare") /\ w.pc = "queued" /\ UNCHANGED <<file, db, mem, sg, indexed>>
    BY <1>1 DEF Launch, At
  <2>2. "prepare" \in WorkerPC /\ "prepare" \notin AfterSplit /\ "queued" \notin GaveUp
    BY DEF WorkerPC, AfterSplit, GaveUp
  <2>3. QED
    BY <1>m, <2>1, <2>2, GotoFrame
<1>2. CASE Prepare(j, t)
  <2>1. PICK pc \in {"setRunning", "reportFailed"} : Goto(j, t, pc)
    BY <1>2 DEF Prepare
  <2>2. w.pc = "prepare" /\ UNCHANGED <<file, db, mem, sg, indexed>>
    BY <1>2 DEF Prepare, At
  <2>3. pc \in WorkerPC /\ pc \notin AfterSplit /\ "prepare" \notin GaveUp /\ pc # "add"
    BY DEF WorkerPC, ReportPC, AfterSplit, GaveUp
  <2>4. QED
    BY <1>m, <2>1, <2>2, <2>3, GotoFrame
<1>3. CASE SetRunning(j, t)
  <2> DEFINE row == [mem[j][t] EXCEPT !.status = "Running"]
  <2>1. /\ SetMem(j, t, row) /\ Goto(j, t, "copyRunning") /\ w.pc = "setRunning"
        /\ UNCHANGED <<file, db, sg, indexed>>
    BY <1>3 DEF SetRunning, At
  <2>2. mem[j][t] \in Row
    BY DEF TypeOK
  <2>3. RowTrue(f, ix, row)
    BY <1>c, <2>2 DEF RowTrue, Row
  <2> HIDE DEF row
  <2>4. \A i \in Jobs, s \in Tasks : RowTrue(file[s], indexed[s], mem'[i][s])
    BY <2>1, <2>3, MemTrue
  <2>5. "copyRunning" \in WorkerPC /\ "copyRunning" \notin AfterSplit /\ "setRunning" \notin GaveUp
    BY DEF WorkerPC, AfterSplit, GaveUp
  <2>6. QED
    BY <2>1, <2>4, <2>5, GotoFrame
<1>4. CASE Split(j, t)
  <2>1. Goto(j, t, SplitOutcome(f)) /\ w.pc = "split" /\ UNCHANGED <<file, db, mem, sg, indexed>>
    BY <1>4 DEF Split, At
  <2>2. SplitOutcome(f) \in WorkerPC /\ SplitOutcome(f) # "add" /\ "split" \notin GaveUp
    BY DEF SplitOutcome, WorkerPC, ReportPC, GaveUp
  <2>3. SplitOutcome(f) \in AfterSplit => Valid(f) \/ RowCount(f) = 0
    BY DEF SplitOutcome, AfterSplit
  <2>4. QED
    BY <1>m, <2>1, <2>2, <2>3, GotoFrame
<1>d. CASE SplitPanics(j, t)
  BY <1>d, ProcessUploadInv DEF SplitPanics
<1>5. CASE CopyRow(j, t)
  <2> DEFINE target == CASE w.pc = "copyRunning"  -> "writeRunning"
                         [] w.pc = "copyProgress" -> "writeProgress"
                         [] OTHER                 -> "writeSuccess"
             v      == [w EXCEPT !.snap = mem[j][t], !.pc = target]
  <2>1. /\ SetWorker(j, t, v) /\ w.pc \in {"copyRunning", "copyProgress", "copySuccess"}
        /\ UNCHANGED <<file, db, mem, sg, indexed>>
    BY <1>5 DEF CopyRow, At
  <2>2. /\ target \in WorkerPC /\ w.pc \notin GaveUp /\ target # "add"
        /\ target \in AfterSplit => w.pc \in AfterSplit
    BY <2>1 DEF WorkerPC, WritePC, GaveUp, AfterSplit
  <2> HIDE DEF target
  <2>3. mem[j][t] \in Row
    BY DEF TypeOK
  <2>4. v \in Worker
    BY <1>w, <2>2, <2>3, WorkerUpdates
  <2>5. /\ v.pc = target /\ v.next = w.next /\ v.flying = w.flying /\ v.lost = w.lost
        /\ v.count = w.count /\ v.ok = w.ok /\ v.snap = mem[j][t]
    BY <1>w DEF Worker
  <2> HIDE DEF v
  <2>6. WorkerInv(f, ix, v)
    BY <1>w, <1>r, <1>i, <2>2, <2>4, <2>5, MoveTrue
  <2>7. QED
    BY <1>c, <1>m, <2>1, <2>4, <2>5, <2>6, WorkerFrame
<1>6. CASE WriteSucceeds(j, t) \/ WriteFails(j, t)
  <2>1. PICK pc : SetWorker(j, t, [w EXCEPT !.snap = NewRow, !.pc = pc])
                  /\ \/ pc = AfterWrite(w.pc)
                     \/ pc = IF w.pc = "writeProgress" THEN "reportProgress" ELSE "reportFailed"
    BY <1>6 DEF WriteSucceeds, WriteFails
  <2>2. w.pc \in WritePC /\ UNCHANGED <<file, mem, sg, indexed>>
    BY <1>6 DEF WriteSucceeds, WriteFails, At
  <2>3. /\ pc \in WorkerPC /\ w.pc \notin GaveUp /\ pc # "add"
        /\ pc \in AfterSplit => w.pc \in AfterSplit
    BY <2>1, <2>2 DEF AfterWrite, WorkerPC, WritePC, ReportPC, GaveUp, AfterSplit
  <2> DEFINE v == [w EXCEPT !.snap = NewRow, !.pc = pc]
  <2>4. v \in Worker
    BY <1>w, <2>3, IdleTyped, WorkerUpdates
  <2>5. /\ v.pc = pc /\ v.next = w.next /\ v.flying = w.flying /\ v.lost = w.lost
        /\ v.count = w.count /\ v.ok = w.ok /\ v.snap = NewRow
    BY <1>w DEF Worker
  <2>6. SetWorker(j, t, v)
    BY <2>1
  <2> HIDE DEF v
  <2>7. WorkerInv(f, ix, v)
    BY <1>w, <1>r, <1>i, <2>3, <2>4, <2>5, MoveTrue
  <2>8. ASSUME NEW s \in Tasks
        PROVE  RowTrue(file[s], indexed[s], db'[s])
    <3>1. db'[s] = db[s] \/ (s = t /\ db'[s] = w.snap)
      BY <1>6 DEF WriteSucceeds, WriteFails, TypeOK
    <3>2. QED
      BY <1>c, <3>1, CopyFacts
  <2>9. QED
    BY <1>c, <1>m, <2>2, <2>4, <2>5, <2>6, <2>7, <2>8, WorkerFrame
<1>a. /\ AddOrSelect(j, t, w) \in WorkerPC
      /\ AddOrSelect(j, t, w) = "add" => w.next < RowCount(f)
  BY DEF AddOrSelect, WorkerPC
<1>s. w.pc = "select" => w.pc \notin GaveUp /\ w.pc \in AfterSplit
  BY DEF GaveUp, AfterSplit
<1>7. CASE TakeSuccess(j, t)
  <2> DEFINE pc == AddOrSelect(j, t, w)
             v == [w EXCEPT !.ok = w.ok - 1, !.count = w.count + 1, !.pc = pc]
  <2>1. SetWorker(j, t, v) /\ w.pc = "select" /\ w.ok > 0 /\ UNCHANGED <<file, db, mem, sg, indexed>>
    BY <1>7 DEF TakeSuccess, At
  <2> HIDE DEF pc
  <2>2. v \in Worker
    <3>1. w.ok - 1 \in Nat /\ w.count + 1 \in Nat
      BY <1>w, <2>1
    <3>2. QED
      BY <1>w, <1>a, <3>1, WorkerUpdates DEF pc
  <2>3. /\ v.pc = pc /\ v.next = w.next /\ v.flying = w.flying /\ v.lost = w.lost
        /\ v.count = w.count + 1 /\ v.ok = w.ok - 1 /\ v.snap = w.snap
    BY <1>w DEF Worker
  <2>4. v.count + v.ok = w.count + w.ok
    BY <1>w, <2>3
  <2> HIDE DEF v
  <2>5. WorkerInv(f, ix, v)
    BY <1>w, <1>r, <1>i, <1>a, <1>s, <2>1, <2>2, <2>3, <2>4, MoveTrue DEF pc
  <2>6. QED
    BY <1>c, <1>m, <2>1, <2>2, <2>3, <2>5, WorkerFrame
<1>8. CASE TakeError(j, t)
  <2> DEFINE v == [w EXCEPT !.err = w.err - 1, !.count = w.count + 1, !.pc = "reportFailed"]
  <2>1. SetWorker(j, t, v) /\ w.err > 0 /\ UNCHANGED <<file, db, mem, sg, indexed>>
    BY <1>8 DEF TakeError
  <2>2. "reportFailed" \in WorkerPC /\ "reportFailed" \in GaveUp /\ "reportFailed" \notin AfterSplit
    BY DEF WorkerPC, ReportPC, GaveUp, AfterSplit
  <2>3. v \in Worker
    <3>1. w.err - 1 \in Nat /\ w.count + 1 \in Nat
      BY <1>w, <2>1
    <3>2. QED
      BY <1>w, <2>2, <3>1, WorkerUpdates
  <2>4. /\ v.pc = "reportFailed" /\ v.next = w.next /\ v.flying = w.flying
        /\ v.lost = w.lost /\ v.snap = w.snap
    BY <1>w DEF Worker
  <2> HIDE DEF v
  <2>5. WorkerInv(f, ix, v)
    BY <1>w, <1>r, <1>i, <2>2, <2>3, <2>4, MoveTrue
  <2>6. QED
    BY <1>c, <1>m, <2>1, <2>3, <2>4, <2>5, WorkerFrame
<1>9. CASE NothingReady(j, t)
  <2>1. /\ Goto(j, t, "add") /\ w.pc = "select" /\ w.next < RowCount(f)
        /\ UNCHANGED <<file, db, mem, sg, indexed>>
    BY <1>9 DEF NothingReady, At
  <2>2. "add" \in WorkerPC
    BY DEF WorkerPC
  <2>3. QED
    BY <1>m, <1>s, <2>1, <2>2, GotoFrame
<1>10. CASE Tick(j, t)
  <2> DEFINE row == [mem[j][t] EXCEPT !.progress = Progress(w, f)]
  <2>1. /\ SetMem(j, t, row) /\ Goto(j, t, "copyProgress") /\ w.pc = "select"
        /\ SizeOf(f) > 0 /\ UNCHANGED <<file, db, sg, indexed>>
    BY <1>10 DEF Tick, At
  <2>2. mem[j][t] \in Row
    BY DEF TypeOK
  <2>3. Progress(w, f) * RowCount(f) <= 100 * Cardinality(ix)
    BY <1>w, <1>i, <1>s, <2>1, TickIsTrue
  <2>4. RowTrue(f, ix, row)
    BY <1>c, <2>2, <2>3 DEF RowTrue, Row
  <2> HIDE DEF row
  <2>5. \A i \in Jobs, s \in Tasks : RowTrue(file[s], indexed[s], mem'[i][s])
    BY <2>1, <2>4, MemTrue
  <2>6. "copyProgress" \in WorkerPC
    BY DEF WorkerPC
  <2>7. QED
    BY <1>s, <2>1, <2>5, <2>6, GotoFrame
<1>11. CASE Complete(j, t)
  <2> DEFINE row == [status |-> "Success", progress |-> 100]
  <2>1. /\ SetMem(j, t, row) /\ Goto(j, t, "copySuccess") /\ w.pc \in {"afterTick", "select"}
        /\ IsDone(w, f) /\ UNCHANGED <<file, db, sg, indexed>>
    BY <1>11 DEF Complete, At
  <2>2. w.pc \notin GaveUp /\ w.pc \in AfterSplit
    BY <2>1 DEF GaveUp, AfterSplit
  <2>3. RowTrue(f, ix, row)
    BY <1>w, <1>i, <2>1, <2>2, DoneIsIndexed
  <2> HIDE DEF row
  <2>4. \A i \in Jobs, s \in Tasks : RowTrue(file[s], indexed[s], mem'[i][s])
    BY <2>1, <2>3, MemTrue
  <2>5. "copySuccess" \in WorkerPC
    BY DEF WorkerPC
  <2>6. QED
    BY <2>1, <2>2, <2>4, <2>5, GotoFrame
<1>12. CASE Continue(j, t)
  <2>1. /\ Goto(j, t, AddOrSelect(j, t, w)) /\ w.pc = "afterTick"
        /\ UNCHANGED <<file, db, mem, sg, indexed>>
    BY <1>12 DEF Continue, At
  <2>2. w.pc \notin GaveUp /\ w.pc \in AfterSplit
    BY <2>1 DEF GaveUp, AfterSplit
  <2>3. QED
    BY <1>a, <1>m, <2>1, <2>2, GotoFrame
<1>13. CASE AddRow(j, t)
  <2> DEFINE last == (w.next + 1) % BatchSize = 0 \/ w.next + 1 = RowCount(f)
             pc   == IF last THEN "select" ELSE "add"
             rows == w.flying \cup {w.next + 1}
             v    == [w EXCEPT !.next = w.next + 1, !.flying = rows, !.pc = pc]
  <2>1. SetWorker(j, t, v) /\ w.pc = "add" /\ UNCHANGED <<file, db, mem, sg, indexed>>
    BY <1>13 DEF AddRow, At
  <2>2. /\ pc \in WorkerPC /\ pc \in {"add", "select"}
        /\ pc = "add" => w.next + 1 # RowCount(f)
    BY DEF WorkerPC
  <2>3. w.next + 1 \in Nat /\ rows \in SUBSET Nat
    BY <1>w
  <2> HIDE DEF pc
  <2>4. v \in Worker
    BY <1>w, <2>2, <2>3, WorkerUpdates
  <2>5. /\ v.pc = pc /\ v.next = w.next + 1 /\ v.flying = w.flying \cup {w.next + 1}
        /\ v.lost = w.lost /\ v.count = w.count /\ v.ok = w.ok /\ v.snap = w.snap
    BY <1>w DEF Worker
  <2> HIDE DEF v
  <2>6. WorkerInv(f, ix, v)
    BY <1>w, <1>r, <1>i, <2>1, <2>2, <2>4, <2>5, AddTrue
  <2>7. QED
    BY <1>c, <1>m, <2>1, <2>4, <2>5, <2>6, WorkerFrame
<1>14. CASE AddFails(j, t)
  <2>1. Goto(j, t, "reportFailed") /\ UNCHANGED <<file, db, mem, sg, indexed>>
    BY <1>14 DEF AddFails
  <2>2. /\ "reportFailed" \in WorkerPC /\ "reportFailed" \in GaveUp
        /\ "reportFailed" \notin AfterSplit
    BY DEF WorkerPC, ReportPC, GaveUp, AfterSplit
  <2>3. QED
    BY <1>m, <2>1, <2>2, GotoFrame
<1>15. CASE Report(j, t)
  <2> DEFINE pc == IF w.pc = "reportFailed" THEN "failed" ELSE "afterTick"
  <2>1. Goto(j, t, pc) /\ w.pc \in ReportPC /\ UNCHANGED <<file, db, mem, sg, indexed>>
    BY <1>15 DEF Report, At
  <2>2. /\ pc \in WorkerPC /\ pc # "add"
        /\ pc \in GaveUp \/ w.pc \notin GaveUp
        /\ pc \in AfterSplit => w.pc \in AfterSplit
    BY <2>1 DEF WorkerPC, ReportPC, GaveUp, AfterSplit
  <2> HIDE DEF pc
  <2>3. QED
    BY <1>m, <2>1, <2>2, GotoFrame
<1>16. QED
  BY <1>1, <1>2, <1>3, <1>4, <1>d, <1>5, <1>6, <1>7, <1>8, <1>9, <1>10, <1>11,
     <1>12, <1>13, <1>14, <1>15 DEF WorkerStep

\* Whatever the indexer answers, and whatever becomes of the answer, UploadInv holds.
LEMMA IndexerUploadInv ==
  ASSUME TypeOK, TypeOK', UploadInv, NEW j \in Jobs, NEW t \in Tasks, IndexerStep(j, t)
  PROVE  UploadInv'
<1> DEFINE w == work[j][t]
           f == file[t]
           ix == indexed[t]
           more == indexed'[t]
<1>w. /\ w \in Worker /\ w.ok \in Nat /\ w.err \in Nat
      /\ w.flying \in SUBSET Nat /\ w.lost \in SUBSET Nat
  BY WorkerFields DEF TypeOK
<1>i. WorkerInv(f, ix, w)
  BY DEF UploadInv
<1>1. PICK r \in w.flying : RowWritten(j, t, r) \/ RowRefused(j, t, r) \/ FlushFails(j, t, r)
  BY DEF IndexerStep
<1>2. /\ indexed' \in {indexed, [indexed EXCEPT ![t] = indexed[t] \cup {r}]}
      /\ RowWritten(j, t, r) => indexed' = [indexed EXCEPT ![t] = indexed[t] \cup {r}]
  BY <1>1 DEF RowWritten, RowRefused, FlushFails
<1>3. /\ \A s \in Tasks : indexed[s] \subseteq indexed'[s]
      /\ \A s \in Tasks : s # t => indexed'[s] = indexed[s]
      /\ more \subseteq ix \cup w.flying
      /\ RowWritten(j, t, r) => r \in more
  <2>1. indexed' = indexed \/ indexed' = [indexed EXCEPT ![t] = indexed[t] \cup {r}]
    BY <1>2
  <2>2. more = ix \/ more = ix \cup {r}
    BY <2>1 DEF TypeOK
  <2>3. \A s \in Tasks : s # t => indexed'[s] = indexed[s]
    BY <2>1 DEF TypeOK
  <2>4. RowWritten(j, t, r) => more = ix \cup {r}
    BY <1>2 DEF TypeOK
  <2>5. QED
    BY <2>2, <2>3, <2>4
<1>4. PICK u :
        /\ Answer(j, t, r, u)
        /\ \/ u = [w EXCEPT !.ok = w.ok + 1] /\ r \in more
           \/ u = [w EXCEPT !.err = w.err + 1]
           \/ u = [w EXCEPT !.lost = w.lost \cup {r}]
  <2>1. CASE RowWritten(j, t, r)
    BY <1>3, <2>1 DEF RowWritten
  <2>2. CASE RowRefused(j, t, r)
    BY <2>2 DEF RowRefused
  <2>3. CASE FlushFails(j, t, r)
    BY <2>3 DEF FlushFails
  <2>4. QED
    BY <1>1, <2>1, <2>2, <2>3
<1>5. /\ u \in Worker
      /\ u.next = w.next /\ u.pc = w.pc /\ u.count = w.count /\ u.snap = w.snap
      /\ u.flying = w.flying
      /\ \/ u.ok = w.ok /\ u.lost \in {w.lost, w.lost \cup {r}}
         \/ u.ok = w.ok + 1 /\ u.lost = w.lost /\ r \in more
  <2>1. CASE u = [w EXCEPT !.ok = w.ok + 1] /\ r \in more
    BY <1>w, <2>1 DEF Worker
  <2>2. CASE u = [w EXCEPT !.err = w.err + 1]
    BY <1>w, <2>2 DEF Worker
  <2>3. CASE u = [w EXCEPT !.lost = w.lost \cup {r}]
    <3>1. w.lost \cup {r} \in SUBSET Nat
      BY <1>w
    <3>2. QED
      BY <1>w, <2>3, <3>1 DEF Worker
  <2>4. QED
    BY <1>4, <2>1, <2>2, <2>3
<1> DEFINE v == [u EXCEPT !.flying = u.flying \ {r}]
<1>6. SetWorker(j, t, v) /\ UNCHANGED <<file, db, mem, sg>>
  BY <1>4 DEF Answer
<1>7. /\ v \in Worker
      /\ v.next = w.next /\ v.pc = w.pc /\ v.count = w.count /\ v.snap = w.snap
      /\ v.flying = w.flying \ {r}
      /\ \/ v.ok = w.ok /\ v.lost \in {w.lost, w.lost \cup {r}}
         \/ v.ok = w.ok + 1 /\ v.lost = w.lost /\ r \in more
  <2>1. u.flying \ {r} \in SUBSET Nat
    BY <1>5, WorkerFields
  <2>2. v \in Worker
    BY <1>5, <2>1 DEF Worker
  <2>3. /\ v.next = u.next /\ v.pc = u.pc /\ v.count = u.count /\ v.snap = u.snap
        /\ v.flying = u.flying \ {r} /\ v.ok = u.ok /\ v.lost = u.lost
    BY <1>5 DEF Worker
  <2> HIDE DEF v
  <2>4. QED
    BY <1>5, <2>2, <2>3
<1> HIDE DEF v
<1>8. WorkerInv(f, more, v)
  BY <1>w, <1>i, <1>3, <1>7, AnswerTrue
<1>9. ASSUME NEW i \in Jobs, NEW s \in Tasks
      PROVE  /\ WorkerInv(file[s], indexed'[s], work'[i][s])
             /\ RowTrue(file[s], indexed[s], work'[i][s].snap)
  <2>1. work'[i][s] = IF i = j /\ s = t THEN v ELSE work[i][s]
    BY <1>6 DEF SetWorker, TypeOK
  <2>2. CASE i = j /\ s = t
    BY <1>7, <1>8, <2>1, <2>2, CopyFacts
  <2>3. CASE ~(i = j /\ s = t)
    <3>1. work[i][s] \in Worker /\ file[s] \in File
      BY DEF TypeOK
    <3>2. WorkerInv(file[s], indexed[s], work[i][s])
      BY DEF UploadInv
    <3>3. WorkerInv(file[s], indexed'[s], work[i][s])
      BY <1>3, <3>1, <3>2, WorkerStaysTrue
    <3>4. QED
      BY <2>1, <2>3, <3>3, CopyFacts
  <2>4. QED
    BY <2>2, <2>3
<1>10. ASSUME NEW s \in Tasks
       PROVE  IndexTrue(file[s], indexed'[s])
  <2>1. CASE s = t
    BY <1>3, <2>1, FlightIsOfFile
  <2>2. CASE s # t
    BY <1>3, <2>2 DEF UploadInv
  <2>3. QED
    BY <2>1, <2>2
<1>11. /\ \A s \in Tasks : RowTrue(file[s], indexed[s], db'[s])
       /\ \A i \in Jobs, s \in Tasks : RowTrue(file[s], indexed[s], mem'[i][s])
       /\ \A i \in Jobs : RowTrue(file[sg'[i].t], indexed[sg'[i].t], sg'[i].snap)
  BY <1>6 DEF UploadInv, CopiesTrue
<1>12. QED
  BY <1>3, <1>6, <1>9, <1>10, <1>11, FrameTrue

\* Every step of the job, stuttering included, preserves UploadInv.
LEMMA StepUploadInv == TypeOK /\ TypeOK' /\ UploadInv /\ [Next]_vars => UploadInv'
<1>1. TypeOK /\ TypeOK' /\ UploadInv /\ Next => UploadInv'
  BY ProcessUploadInv, StatusUploadInv, WorkerUploadInv, IndexerUploadInv DEF Next, Crash
<1>2. UploadInv /\ UNCHANGED vars => UploadInv'
  BY DEF UploadInv, CopiesTrue, vars
<1>3. QED
  BY <1>1, <1>2

-----------------------------------------------------------------------------
(* The theorems.                                                           *)

\* In every reachable state every copy of a row, whichever process, goroutine or
\* UPDATE in flight holds it, is true of Elasticsearch, and no worker that may
\* still succeed counts more successes than Elasticsearch confirms.
THEOREM UploadInvariant == Spec => []UploadInv
<1>1. QED
  BY InitUploadInv, StepUploadInv, TypeCorrect, PTL DEF Spec

\* Whatever results are dropped, flushes fail and processes overlap or crash, a
\* task that says Success has every row of its file in Elasticsearch.
THEOREM SuccessHolds == Spec => []SuccessMeansIndexed
<1>1. UploadInv => SuccessMeansIndexed
  BY DEF UploadInv, CopiesTrue, RowTrue, SuccessMeansIndexed
<1>2. QED
  BY <1>1, UploadInvariant, PTL

\* The progress a task shows is never ahead of Elasticsearch.
THEOREM ProgressHolds == Spec => []ProgressHonest
<1>1. UploadInv => ProgressHonest
  BY DEF UploadInv, CopiesTrue, RowTrue, ProgressHonest
<1>2. QED
  BY <1>1, UploadInvariant, PTL

\* Nothing of a file with a row that cannot be used gets into Elasticsearch.
THEOREM InvalidHolds == Spec => []InvalidWritesNothing
<1>1. UploadInv => InvalidWritesNothing
  BY DEF UploadInv, IndexTrue, InvalidWritesNothing
<1>2. QED
  BY <1>1, UploadInvariant, PTL

=============================================================================
