------------------------- MODULE RunFileUploadTasks -------------------------
(***************************************************************************)
(* The run-file-upload-tasks job (src/job/run_file_upload_tasks/job.go):   *)
(* each Pending task gets a worker that reads its file, formats all rows,  *)
(* feeds them to the Elasticsearch bulk indexer batch by batch, and counts *)
(* the results the indexer's callbacks put into a bounded channel.  A      *)
(* ticker makes the worker persist its progress; the task is Success when  *)
(* as many results have come as the task has rows.                         *)
(*                                                                         *)
(* As in the run-campaigns job a status goroutine writes the same rows as  *)
(* the workers, whole, from the shared *entity.Task.  Processes of the job *)
(* may overlap and crash.                                                  *)
(***************************************************************************)
EXTENDS Integers, Sequences, FiniteSets

CONSTANTS
  Tasks,        \* task rows
  Jobs,         \* processes of the job
  MaxRows,      \* bound on the data rows of a file
  Wrap,         \* 2^64, the number of values of a uint64
  BatchSize,    \* rows of one BatchUpsert
  ResultSlots,  \* capacity of upsertResChan
  MaxWorkers,   \* capacity of the semaphore channel ch
  StatusSlots   \* capacity of statusChan per task of the process

ASSUME BoundsAssumption ==
  /\ Tasks # {}
  /\ MaxRows \in Nat
  /\ Wrap \in Nat /\ Wrap > MaxRows + 1
  /\ BatchSize \in Nat \ {0}
  /\ ResultSlots \in Nat \ {0}
  /\ MaxWorkers \in Nat \ {0}
  /\ StatusSlots \in Nat \ {0}

\* A file: its lines, the header included, and what is wrong with the first row that
\* cannot be used, its number of columns or its value.
File == [lines : 0..(MaxRows + 1), bad : {"none", "columns", "value"}]

Valid(f) == f.bad = "none"

\* len(rows): DownloadFile skips the header.
RowCount(f) == IF f.lines = 0 THEN 0 ELSE f.lines - 1

\* countRows less the header, as a uint64.
SizeOf(f) == (f.lines + Wrap - 1) % Wrap

Statuses == {"Pending", "Running", "Success", "Failed"}
Row == [status : Statuses, progress : Nat]
NewRow == [status |-> "Pending", progress |-> 0]

WritePC == {"writeRunning", "writeProgress", "writeSuccess"}
ReportPC == {"reportFailed", "reportProgress"}
WorkerPC ==
  {"none", "queued", "prepare", "setRunning", "copyRunning", "split", "select",
   "add", "copyProgress", "afterTick", "copySuccess", "finished", "failed"}
  \cup WritePC \cup ReportPC

Returned == {"none", "finished", "failed"}

Worker ==
  [pc : WorkerPC,
   next : Nat,              \* rows handed to the bulk indexer
   flying : SUBSET Nat,     \* those the indexer has not answered yet
   ok : Nat, err : Nat,     \* results waiting in upsertResChan
   lost : SUBSET Nat,       \* rows whose result never got into it
   count : Nat,
   snap : Row]              \* model of the row an UPDATE in flight writes

Idle ==
  [pc |-> "none", next |-> 0, flying |-> {}, ok |-> 0, err |-> 0,
   lost |-> {}, count |-> 0, snap |-> NewRow]

Message == [t : Tasks, status : {"Running", "Failed"}]

VARIABLES
  file,     \* file[t]: the uploaded file, fixed
  db,       \* db[t]: row of task t in MySQL
  job,      \* job[j]: off, running, draining (at doneChan), ended, crashed
  mem,      \* mem[j][t]: the *entity.Task of t in process j
  work,     \* work[j][t]: locals of the worker of t in process j
  chan,     \* chan[j]: statusChan
  sg,       \* sg[j]: the status goroutine
  indexed   \* indexed[t]: rows of t that are in Elasticsearch

vars == <<file, db, job, mem, work, chan, sg, indexed>>

StatusGoroutine == [pc : {"select", "copy", "write"}, t : Tasks, snap : Row]
IdleStatus == [pc |-> "select", t |-> CHOOSE t \in Tasks : TRUE, snap |-> NewRow]

Init ==
  /\ file \in [Tasks -> File]
  /\ db = [t \in Tasks |-> NewRow]
  /\ job = [j \in Jobs |-> "off"]
  /\ mem = [j \in Jobs |-> [t \in Tasks |-> NewRow]]
  /\ work = [j \in Jobs |-> [t \in Tasks |-> Idle]]
  /\ chan = [j \in Jobs |-> <<>>]
  /\ sg = [j \in Jobs |-> IdleStatus]
  /\ indexed = [t \in Tasks |-> {}]

-----------------------------------------------------------------------------
(* The process.                                                            *)

Alive(j) == job[j] \in {"running", "draining"}

\* GetPendingFileUploadTasks; nothing marks the tasks as taken.
StartJob(j) ==
  /\ job[j] = "off"
  /\ job' = [job EXCEPT ![j] = "running"]
  /\ mem' = [mem EXCEPT ![j] = db]
  /\ work' = [work EXCEPT ![j] = [t \in Tasks |->
       IF db[t].status = "Pending" THEN [Idle EXCEPT !.pc = "queued"] ELSE Idle]]
  /\ UNCHANGED <<file, db, chan, sg, indexed>>

StartFails(j) ==
  /\ job[j] = "off"
  /\ job' = [job EXCEPT ![j] = "ended"]
  /\ UNCHANGED <<file, db, mem, work, chan, sg, indexed>>

TasksDone(j) ==
  /\ job[j] = "running"
  /\ \A t \in Tasks : work[j][t].pc \in Returned
  /\ job' = [job EXCEPT ![j] = "draining"]
  /\ UNCHANGED <<file, db, mem, work, chan, sg, indexed>>

\* The memory of the process is lost; requests under way may still be executed.
Die(j) ==
  /\ job' = [job EXCEPT ![j] = "crashed"]
  /\ mem' = [mem EXCEPT ![j] = [t \in Tasks |-> NewRow]]
  /\ work' = [work EXCEPT ![j] = [t \in Tasks |-> Idle]]
  /\ chan' = [chan EXCEPT ![j] = <<>>]
  /\ sg' = [sg EXCEPT ![j] = IdleStatus]
  /\ indexed' \in {f \in [Tasks -> SUBSET (1..MaxRows)] : \A t \in Tasks :
       indexed[t] \subseteq f[t] /\ f[t] \subseteq indexed[t] \cup work[j][t].flying}
  /\ UNCHANGED <<file, db>>

Crash(j) == Alive(j) /\ Die(j)

-----------------------------------------------------------------------------
(* The worker of a task, up to its loop.                                   *)

At(j, t, pcs) == job[j] = "running" /\ work[j][t].pc \in pcs

SetWorker(j, t, w) == work' = [work EXCEPT ![j][t] = w]

Goto(j, t, pc) == SetWorker(j, t, [work[j][t] EXCEPT !.pc = pc])

SetMem(j, t, row) == mem' = [mem EXCEPT ![j][t] = row]

InFlight(j) == {t \in Tasks : work[j][t].pc \notin Returned \cup {"queued"}}

Launch(j, t) ==
  /\ At(j, t, {"queued"})
  /\ Cardinality(InFlight(j)) < MaxWorkers
  /\ Goto(j, t, "prepare")
  /\ UNCHANGED <<file, db, job, mem, chan, sg, indexed>>

\* The tenant, the tag and the file; each of the calls may fail.
Prepare(j, t) ==
  /\ At(j, t, {"prepare"})
  /\ \E pc \in {"setRunning", "reportFailed"} : Goto(j, t, pc)
  /\ UNCHANGED <<file, db, job, mem, chan, sg, indexed>>

SetRunning(j, t) ==
  /\ At(j, t, {"setRunning"})
  /\ SetMem(j, t, [mem[j][t] EXCEPT !.status = "Running"])
  /\ Goto(j, t, "copyRunning")
  /\ UNCHANGED <<file, db, job, chan, sg, indexed>>

\* Rows put into batches until one that cannot be used turns up.
PartialSplit(f) == "select"

\* Every row is formatted before the first is written.
SplitOutcome(f) == IF Valid(f) \/ RowCount(f) = 0 THEN "select" ELSE "reportFailed"

\* The message about a value that cannot be formatted shows rows[1], the second row,
\* whichever row it is about.
NoSecondRow(f) == f.bad = "value" /\ RowCount(f) = 1

Split(j, t) ==
  /\ At(j, t, {"split"})
  /\ ~NoSecondRow(file[t])
  /\ Goto(j, t, SplitOutcome(file[t]))
  /\ UNCHANGED <<file, db, job, mem, chan, sg, indexed>>

\* Index out of range, which is not recovered and takes the process down.
SplitPanics(j, t) == At(j, t, {"split"}) /\ NoSecondRow(file[t]) /\ Die(j)

-----------------------------------------------------------------------------
(* Writing the row: ToTaskModel copies the shared task, then the UPDATE.   *)

CopyRow(j, t) ==
  LET w == work[j][t]
      target == CASE w.pc = "copyRunning"  -> "writeRunning"
                  [] w.pc = "copyProgress" -> "writeProgress"
                  [] OTHER                 -> "writeSuccess"
  IN
  /\ At(j, t, {"copyRunning", "copyProgress", "copySuccess"})
  /\ SetWorker(j, t, [w EXCEPT !.snap = mem[j][t], !.pc = target])
  /\ UNCHANGED <<file, db, job, mem, chan, sg, indexed>>

AfterWrite(pc) ==
  CASE pc = "writeRunning"  -> "split"
    [] pc = "writeProgress" -> "afterTick"
    [] OTHER                -> "finished"

WriteSucceeds(j, t) ==
  /\ At(j, t, WritePC)
  /\ db' = [db EXCEPT ![t] = work[j][t].snap]
  /\ SetWorker(j, t, [work[j][t] EXCEPT !.snap = NewRow, !.pc = AfterWrite(@)])
  /\ UNCHANGED <<file, job, mem, chan, sg, indexed>>

\* An UPDATE that returns an error may have been executed.
WriteFails(j, t) ==
  /\ At(j, t, WritePC)
  /\ db' \in {db, [db EXCEPT ![t] = work[j][t].snap]}
  /\ SetWorker(j, t, [work[j][t] EXCEPT
       !.snap = NewRow,
       !.pc = IF @ = "writeProgress" THEN "reportProgress" ELSE "reportFailed"])
  /\ UNCHANGED <<file, job, mem, chan, sg, indexed>>

-----------------------------------------------------------------------------
(* The loop: one result, one tick or neither, then one batch.              *)

\* Where a round of the loop goes after its select.
AddOrSelect(j, t, w) == IF w.next < RowCount(file[t]) THEN "add" ELSE "select"

TakeSuccess(j, t) ==
  LET w == work[j][t]
  IN
  /\ At(j, t, {"select"})
  /\ w.ok > 0
  /\ SetWorker(j, t, [w EXCEPT
       !.ok = @ - 1, !.count = @ + 1, !.pc = AddOrSelect(j, t, w)])
  /\ UNCHANGED <<file, db, job, mem, chan, sg, indexed>>

TakeError(j, t) ==
  LET w == work[j][t]
  IN
  /\ At(j, t, {"select"})
  /\ w.err > 0
  /\ SetWorker(j, t, [w EXCEPT !.err = @ - 1, !.count = @ + 1, !.pc = "reportFailed"])
  /\ UNCHANGED <<file, db, job, mem, chan, sg, indexed>>

\* default of the select: no result is ready.  With no batch left either, the
\* round changes nothing.
NothingReady(j, t) ==
  LET w == work[j][t]
  IN
  /\ At(j, t, {"select"})
  /\ w.ok = 0 /\ w.err = 0
  /\ w.next < RowCount(file[t])
  /\ Goto(j, t, "add")
  /\ UNCHANGED <<file, db, job, mem, chan, sg, indexed>>

\* The rows sent, whether or not the indexer has answered.
SentRows(w) == w.next

\* The rows whose success the indexer has reported.
WrittenRows(w) == w.count

Progress(w, f) == (WrittenRows(w) * 100) \div SizeOf(f)

\* progressTicker fires on a task with rows.
Tick(j, t) ==
  /\ At(j, t, {"select"})
  /\ SizeOf(file[t]) > 0
  /\ SetMem(j, t, [mem[j][t] EXCEPT !.progress = Progress(work[j][t], file[t])])
  /\ Goto(j, t, "copyProgress")
  /\ UNCHANGED <<file, db, job, chan, sg, indexed>>

\* The same without the case of a task that has no rows.
IsCounted(w, f) == SizeOf(f) > 0 /\ WrittenRows(w) = SizeOf(f)

\* isDone: as many results as rows, or a task without rows.
IsDone(w, f) == SizeOf(f) = 0 \/ WrittenRows(w) = SizeOf(f)

Complete(j, t) ==
  /\ At(j, t, IF SizeOf(file[t]) > 0 THEN {"afterTick"} ELSE {"select"})
  /\ IsDone(work[j][t], file[t])
  /\ SetMem(j, t, [status |-> "Success", progress |-> 100])
  /\ Goto(j, t, "copySuccess")
  /\ UNCHANGED <<file, db, job, chan, sg, indexed>>

Continue(j, t) ==
  /\ At(j, t, {"afterTick"})
  /\ ~IsDone(work[j][t], file[t])
  /\ Goto(j, t, AddOrSelect(j, t, work[j][t]))
  /\ UNCHANGED <<file, db, job, mem, chan, sg, indexed>>

\* BatchUpsert hands the rows of the batch to the indexer one after the other.
AddRow(j, t) ==
  LET w == work[j][t]
      last == (w.next + 1) % BatchSize = 0 \/ w.next + 1 = RowCount(file[t])
  IN
  /\ At(j, t, {"add"})
  /\ SetWorker(j, t, [w EXCEPT
       !.next = @ + 1, !.flying = @ \cup {w.next + 1},
       !.pc = IF last THEN "select" ELSE "add"])
  /\ UNCHANGED <<file, db, job, mem, chan, sg, indexed>>

AddFails(j, t) ==
  /\ At(j, t, {"add"})
  /\ Goto(j, t, "reportFailed")
  /\ UNCHANGED <<file, db, job, mem, chan, sg, indexed>>

-----------------------------------------------------------------------------
(* The bulk indexer and its callbacks, which never wait for room.          *)

HasRoom(w) == w.ok + w.err < ResultSlots

Answer(j, t, r, w) ==
  /\ job[j] # "crashed"
  /\ r \in work[j][t].flying
  /\ SetWorker(j, t, [w EXCEPT !.flying = @ \ {r}])
  /\ UNCHANGED <<file, db, job, mem, chan, sg>>

\* OnSuccess: the row is written; its result is dropped when there is no room.
RowWritten(j, t, r) ==
  LET w == work[j][t]
  IN  /\ Answer(j, t, r, IF HasRoom(w) THEN [w EXCEPT !.ok = @ + 1]
                                       ELSE [w EXCEPT !.lost = @ \cup {r}])
      /\ indexed' = [indexed EXCEPT ![t] = @ \cup {r}]

\* OnFailure: the row was refused.
RowRefused(j, t, r) ==
  LET w == work[j][t]
  IN  /\ Answer(j, t, r, IF HasRoom(w) THEN [w EXCEPT !.err = @ + 1]
                                       ELSE [w EXCEPT !.lost = @ \cup {r}])
      /\ UNCHANGED indexed

\* The request with the row fails as a whole: no callback runs, and
\* Elasticsearch may have written the row.
FlushFails(j, t, r) ==
  /\ Answer(j, t, r, [work[j][t] EXCEPT !.lost = @ \cup {r}])
  /\ indexed' \in {indexed, [indexed EXCEPT ![t] = @ \cup {r}]}

-----------------------------------------------------------------------------
(* Reporting a status, and the goroutine that persists the reports.        *)

\* A task that met an error handed back for another run.
RequeuedStatus(pc) == IF pc = "reportFailed" THEN "Failed" ELSE "Pending"

ReportedStatus(pc) == IF pc = "reportFailed" THEN "Failed" ELSE "Running"

\* updateTaskStatus blocks while statusChan is full.
Report(j, t) ==
  /\ At(j, t, ReportPC)
  /\ Len(chan[j]) < StatusSlots * Cardinality({s \in Tasks : work[j][s].pc # "none"})
  /\ chan' = [chan EXCEPT ![j] =
       Append(@, [t |-> t, status |-> ReportedStatus(work[j][t].pc)])]
  /\ Goto(j, t, IF work[j][t].pc = "reportFailed" THEN "failed" ELSE "afterTick")
  /\ UNCHANGED <<file, db, job, mem, sg, indexed>>

Receive(j) ==
  LET m == Head(chan[j])
  IN
  /\ Alive(j)
  /\ sg[j].pc = "select"
  /\ chan[j] # <<>>
  /\ SetMem(j, m.t, [mem[j][m.t] EXCEPT !.status = m.status])
  /\ sg' = [sg EXCEPT ![j] = [pc |-> "copy", t |-> m.t, snap |-> NewRow]]
  /\ chan' = [chan EXCEPT ![j] = Tail(@)]
  /\ UNCHANGED <<file, db, job, work, indexed>>

CopyStatus(j) ==
  /\ Alive(j)
  /\ sg[j].pc = "copy"
  /\ sg' = [sg EXCEPT ![j] = [pc |-> "write", t |-> sg[j].t, snap |-> mem[j][sg[j].t]]]
  /\ UNCHANGED <<file, db, job, mem, work, chan, indexed>>

WriteStatus(j) ==
  /\ Alive(j)
  /\ sg[j].pc = "write"
  /\ db' \in {db, [db EXCEPT ![sg[j].t] = sg[j].snap]}
  /\ sg' = [sg EXCEPT ![j] = IdleStatus]
  /\ UNCHANGED <<file, job, mem, work, chan, indexed>>

\* doneChan has no buffer: Run and the status goroutine meet here.
StopStatus(j) ==
  /\ job[j] = "draining"
  /\ sg[j].pc = "select"
  /\ job' = [job EXCEPT ![j] = "ended"]
  /\ UNCHANGED <<file, db, mem, work, chan, sg, indexed>>

-----------------------------------------------------------------------------

WorkerStep(j, t) ==
  \/ Prepare(j, t)
  \/ SetRunning(j, t)
  \/ Split(j, t)
  \/ SplitPanics(j, t)
  \/ CopyRow(j, t)
  \/ WriteSucceeds(j, t)
  \/ WriteFails(j, t)
  \/ TakeSuccess(j, t)
  \/ TakeError(j, t)
  \/ NothingReady(j, t)
  \/ Complete(j, t)
  \/ Continue(j, t)
  \/ AddRow(j, t)
  \/ AddFails(j, t)
  \/ Report(j, t)

IndexerStep(j, t) ==
  \E r \in work[j][t].flying : RowWritten(j, t, r) \/ RowRefused(j, t, r) \/ FlushFails(j, t, r)

StatusStep(j) == Receive(j) \/ CopyStatus(j) \/ WriteStatus(j) \/ StopStatus(j)

Next ==
  \E j \in Jobs :
    \/ StartJob(j)
    \/ StartFails(j)
    \/ TasksDone(j)
    \/ Crash(j)
    \/ StatusStep(j)
    \/ \E t \in Tasks : Launch(j, t) \/ WorkerStep(j, t) \/ Tick(j, t) \/ IndexerStep(j, t)

\* Every goroutine that can run does, and a select that can receive a result
\* does so sooner or later, whatever the ticker does; the ticker fires again and
\* again; the indexer flushes every few seconds.  Nothing starts a process.
Fairness ==
  \A j \in Jobs :
    /\ WF_vars(StatusStep(j))
    /\ WF_vars(TasksDone(j))
    /\ WF_vars(\E t \in Tasks : Launch(j, t))
    /\ \A t \in Tasks :
         /\ WF_vars(WorkerStep(j, t))
         /\ SF_vars(TakeSuccess(j, t) \/ TakeError(j, t))
         /\ WF_vars(Tick(j, t))
         /\ WF_vars(IndexerStep(j, t))

Spec == Init /\ [][Next]_vars
FairSpec == Spec /\ Fairness

-----------------------------------------------------------------------------
(* Properties.                                                             *)

\* The state has the shape of the Go structures it stands for.
TypeOK ==
  /\ file \in [Tasks -> File]
  /\ db \in [Tasks -> Row]
  /\ job \in [Jobs -> {"off", "running", "draining", "ended", "crashed"}]
  /\ mem \in [Jobs -> [Tasks -> Row]]
  /\ work \in [Jobs -> [Tasks -> Worker]]
  /\ chan \in [Jobs -> Seq(Message)]
  /\ sg \in [Jobs -> StatusGoroutine]
  /\ indexed \in [Tasks -> SUBSET Nat]

\* A row says Success only when every row of its file is in Elasticsearch,
\* whatever results were dropped, flushes failed and other processes did.
SuccessMeansIndexed ==
  \A t \in Tasks :
    db[t].status = "Success" => 1..RowCount(file[t]) \subseteq indexed[t]

\* The progress a row shows is never ahead of Elasticsearch.
ProgressHonest ==
  \A t \in Tasks :
    db[t].progress * RowCount(file[t]) <= 100 * Cardinality(indexed[t])

\* A file with a row that cannot be used is refused as a whole.
InvalidWritesNothing ==
  \A t \in Tasks : ~Valid(file[t]) /\ RowCount(file[t]) > 0 => indexed[t] = {}

\* A result that will never come: its callback found the channel full or never
\* ran, or the size of an empty file wrapped around.
Unanswerable(j, t) ==
  /\ work[j][t].pc \notin Returned
  /\ work[j][t].lost # {} \/ SizeOf(file[t]) # RowCount(file[t])

\* A process that is not killed ends, unless one of its workers waits for a
\* result that will never come: nothing else keeps it from ending.
EndsOrUnanswerable ==
  \A j \in Jobs :
    job[j] = "running" ~> ~Alive(j) \/ \E t \in Tasks : Unanswerable(j, t)

\* "let the next update to correct the error" (job.go:212): once a worker has
\* written Success without an error, an earlier failed update of the progress
\* no longer shows when the process ends.
SuccessKept ==
  \A j \in Jobs, t \in Tasks :
    job[j] = "ended" /\ work[j][t].pc = "finished" => db[t].status = "Success"

-----------------------------------------------------------------------------
(* The inductive invariant behind SuccessMeansIndexed, ProgressHonest and  *)
(* InvalidWritesNothing.                                                   *)

\* Places of a worker that has not given up, and those it reaches once every
\* row of its file has been formatted.
GaveUp == {"reportFailed", "failed"}
AfterSplit ==
  {"select", "add", "copyProgress", "writeProgress", "reportProgress", "afterTick",
   "copySuccess", "writeSuccess", "finished"}

\* The rows of a worker the indexer has answered and the index ix holds.
Confirmed(ix, w) == {r \in 1..w.next : r \notin w.flying \cup w.lost /\ r \in ix}

\* A worker of a file f hands out rows of f only, loses a result once, counts no
\* more successes than the index confirms, and hands out nothing of a file with a
\* row that cannot be used.
WorkerInv(f, ix, w) ==
  /\ w.next <= RowCount(f)
  /\ w.pc = "add" => w.next < RowCount(f)
  /\ w.flying \cup w.lost \subseteq 1..w.next
  /\ w.flying \cap w.lost = {}
  /\ w.pc \notin GaveUp => w.count + w.ok <= Cardinality(Confirmed(ix, w))
  /\ ~Valid(f) /\ RowCount(f) > 0 => w.pc \notin AfterSplit /\ w.next = 0

\* What a copy of the row of a task with the file f claims is true of its index ix.
RowTrue(f, ix, row) ==
  /\ row.status = "Success" => 1..RowCount(f) \subseteq ix
  /\ row.progress * RowCount(f) <= 100 * Cardinality(ix)

\* Only rows of the file get into the index, and none of a file that is refused.
IndexTrue(f, ix) ==
  /\ ix \subseteq 1..RowCount(f)
  /\ ~Valid(f) /\ RowCount(f) > 0 => ix = {}

\* Every copy of a row may become the row in the database, whatever process holds
\* it: the shared object, the snapshot of an UPDATE, a report being written.
CopiesTrue ==
  /\ \A t \in Tasks : RowTrue(file[t], indexed[t], db[t])
  /\ \A j \in Jobs, t \in Tasks :
       /\ RowTrue(file[t], indexed[t], mem[j][t])
       /\ RowTrue(file[t], indexed[t], work[j][t].snap)
  /\ \A j \in Jobs : RowTrue(file[sg[j].t], indexed[sg[j].t], sg[j].snap)

UploadInv ==
  /\ \A t \in Tasks : IndexTrue(file[t], indexed[t])
  /\ \A j \in Jobs, t \in Tasks : WorkerInv(file[t], indexed[t], work[j][t])
  /\ CopiesTrue

=============================================================================
