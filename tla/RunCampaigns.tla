---------------------------- MODULE RunCampaigns ----------------------------
(***************************************************************************)
(* The run-campaigns job (src/job/run_campaigns/job.go): a batch process   *)
(* that reads the Pending campaigns, sends each of them from a worker      *)
(* goroutine, and persists the status changes its workers report from one  *)
(* status goroutine.                                                       *)
(*                                                                         *)
(* Two goroutines write the row of one campaign: its worker (segment size, *)
(* Running, progress) and the status goroutine (Failed, Running).  Both    *)
(* change the same *entity.Campaign and then write the WHOLE row, so a     *)
(* write is three steps: change the object, copy it, execute the UPDATE.   *)
(* Several processes of the job may exist, one after the other or, when    *)
(* AllowOverlap, at the same time; any of them may crash at any point.     *)
(***************************************************************************)
EXTENDS Integers, Sequences, FiniteSets

CONSTANTS
  Campaigns,     \* campaign rows
  Jobs,          \* processes of the job
  Ratios,        \* Ratios[c][i]: percentage of the segment that gets email i
  MaxSegment,    \* bound on the users of a segment
  PageLimit,     \* handler.DefaultMaxLimit, the size of a full page
  BatchSize,     \* dep.MaxRecipientsPerSend
  MaxWorkers,    \* capacity of the semaphore channel ch
  StatusSlots,   \* capacity of statusChan per campaign of the process
  AllowOverlap   \* whether a process may start while another one is alive

MaxEmails == 4

RatioOf(c, i) == IF i \in DOMAIN Ratios[c] THEN Ratios[c][i] ELSE 0

\* Sum of the first i ratios of c; no campaign has more than MaxEmails emails.
RatioPrefix(c, i) ==
  (IF i >= 1 THEN RatioOf(c, 1) ELSE 0) + (IF i >= 2 THEN RatioOf(c, 2) ELSE 0)
  + (IF i >= 3 THEN RatioOf(c, 3) ELSE 0) + (IF i >= 4 THEN RatioOf(c, 4) ELSE 0)

ASSUME RatiosAssumption ==
  \A c \in Campaigns :
    /\ Ratios[c] \in Seq(Nat)
    /\ Len(Ratios[c]) \in 1..MaxEmails
    /\ RatioPrefix(c, MaxEmails) = 100

ASSUME BoundsAssumption ==
  /\ Campaigns # {}
  /\ MaxSegment \in Nat
  /\ PageLimit \in Nat \ {0}
  /\ BatchSize \in Nat \ {0}
  /\ MaxWorkers \in Nat \ {0}
  /\ StatusSlots \in Nat \ {0}
  /\ AllowOverlap \in BOOLEAN

Recipients == 0..(MaxSegment - 1)

Statuses == {"Pending", "Running", "Failed"}
Row == [status : Statuses, size : Nat, progress : Nat]
NewRow == [status |-> "Pending", size |-> 0, progress |-> 0]

Bucket == [lo : Nat, hi : Nat]

WorkerPC ==
  {"none", "queued", "resolve", "search", "scroll", "setRunning",
   "writeRunning", "group", "batch", "post", "writeProgress", "writeFinal",
   "reportFailed", "reportSend", "reportProgress", "finished", "failed"}

\* A worker that stops on an error without giving its slot back.
ReturnedUnlessFailed == {"none", "finished"}

\* The worker function has returned: its deferred call has freed its slot.
Returned == {"none", "finished", "failed"}

Worker ==
  [pc : WorkerPC,
   n : Nat,                 \* len(uds)
   pos : Nat,
   buckets : Seq(Bucket),   \* emailBuckets, as slices of uds
   b : Nat \ {0},           \* bucket being sent
   at : Nat,                \* next recipient to post
   stop : Nat,              \* end of the batch being sent
   count : Nat,
   snap : Row]              \* model of the row an UPDATE in flight writes

Idle ==
  [pc |-> "none", n |-> 0, pos |-> 0, buckets |-> <<>>, b |-> 1, at |-> 0,
   stop |-> 0, count |-> 0, snap |-> NewRow]

Message == [c : Campaigns, status : {"Running", "Failed"}]

VARIABLES
  db,         \* db[c]: row of campaign c in MySQL
  job,        \* job[j]: off, running, draining (doneChan sent), ended, crashed
  mem,        \* mem[j][c]: the *entity.Campaign of c in process j
  work,       \* work[j][c]: locals of the worker of c in process j
  chan,       \* chan[j]: statusChan
  sg,         \* sg[j]: the status goroutine
  delivered,  \* delivered[c][u]: messages of c the email service took for u
  missed      \* missed[c]: recipients the call for whom returned an error

procVars == <<job, mem, work, chan, sg>>
vars == <<db, job, mem, work, chan, sg, delivered, missed>>

\* The status goroutine waits in its select, has changed the status of the
\* shared campaign c ("copy"), or has the copy of the row to write ("write").
StatusGoroutine ==
  [pc : {"select", "copy", "write"}, c : Campaigns, snap : Row]
IdleStatus ==
  [pc |-> "select", c |-> CHOOSE c \in Campaigns : TRUE, snap |-> NewRow]

IdleProcess(j) ==
  /\ mem' = [mem EXCEPT ![j] = [c \in Campaigns |-> NewRow]]
  /\ work' = [work EXCEPT ![j] = [c \in Campaigns |-> Idle]]
  /\ chan' = [chan EXCEPT ![j] = <<>>]
  /\ sg' = [sg EXCEPT ![j] = IdleStatus]

Init ==
  /\ db = [c \in Campaigns |-> NewRow]
  /\ job = [j \in Jobs |-> "off"]
  /\ mem = [j \in Jobs |-> [c \in Campaigns |-> NewRow]]
  /\ work = [j \in Jobs |-> [c \in Campaigns |-> Idle]]
  /\ chan = [j \in Jobs |-> <<>>]
  /\ sg = [j \in Jobs |-> IdleStatus]
  /\ delivered = [c \in Campaigns |-> [u \in Recipients |-> 0]]
  /\ missed = [c \in Campaigns |-> {}]

-----------------------------------------------------------------------------
(* The process.                                                            *)

Alive(j) == job[j] \in {"running", "draining"}

PendingRows == {c \in Campaigns : db[c].status = "Pending"}

\* GetPendingCampaigns: the Pending rows whose schedule has come.  Nothing
\* marks them as taken.  Every one of them gets a worker.
StartJob(j) ==
  /\ job[j] = "off"
  /\ AllowOverlap \/ \A i \in Jobs : ~Alive(i)
  /\ \E due \in SUBSET PendingRows :
       /\ job' = [job EXCEPT ![j] = "running"]
       /\ mem' = [mem EXCEPT ![j] = db]
       /\ work' = [work EXCEPT ![j] =
            [c \in Campaigns |->
               IF c \in due THEN [Idle EXCEPT !.pc = "queued"] ELSE Idle]]
  /\ UNCHANGED <<db, chan, sg, delivered, missed>>

\* The query of GetPendingCampaigns fails: Run returns.
StartFails(j) ==
  /\ job[j] = "off"
  /\ job' = [job EXCEPT ![j] = "ended"]
  /\ UNCHANGED <<db, mem, work, chan, sg, delivered, missed>>

\* taskG.Wait returns once every worker has; doneChan has room.
TasksDone(j) ==
  /\ job[j] = "running"
  /\ \A c \in Campaigns : work[j][c].pc \in Returned
  /\ job' = [job EXCEPT ![j] = "draining"]
  /\ UNCHANGED <<db, mem, work, chan, sg, delivered, missed>>

\* The process dies with all its memory; rows and messages sent remain.
Die(j) ==
  /\ job' = [job EXCEPT ![j] = "crashed"]
  /\ IdleProcess(j)
  /\ UNCHANGED <<db, delivered, missed>>

Crash(j) == Alive(j) /\ Die(j)
-----------------------------------------------------------------------------
(* The worker of a campaign.                                               *)

At(j, c, pcs) == job[j] = "running" /\ work[j][c].pc \in pcs

SetWorker(j, c, w) == work' = [work EXCEPT ![j][c] = w]

Goto(j, c, pc) == SetWorker(j, c, [work[j][c] EXCEPT !.pc = pc])

InFlight(j) == {c \in Campaigns : work[j][c].pc \notin Returned \cup {"queued"}}

\* A slot of the semaphore is taken before the goroutine starts.
Launch(j, c) ==
  /\ At(j, c, {"queued"})
  /\ Cardinality(InFlight(j)) < MaxWorkers
  /\ Goto(j, c, "resolve")
  /\ UNCHANGED <<db, job, mem, chan, sg, delivered, missed>>

\* tenantRepo.GetByID and senderRepo.GetByID.
Resolve(j, c) ==
  /\ At(j, c, {"resolve"})
  /\ \E pc \in {"search", "reportFailed"} : Goto(j, c, pc)
  /\ UNCHANGED <<db, job, mem, chan, sg, delivered, missed>>

\* A page of k users; Download returns a cursor exactly when the page is full.
DownloadPage(j, c) ==
  /\ At(j, c, {"search", "scroll"})
  /\ \E k \in 0..PageLimit :
       /\ work[j][c].n + k <= MaxSegment
       /\ SetWorker(j, c, [work[j][c] EXCEPT
            !.n  = @ + k,
            !.pc = IF k = PageLimit THEN "scroll" ELSE "setRunning"])
  /\ UNCHANGED <<db, job, mem, chan, sg, delivered, missed>>

DownloadFails(j, c) ==
  /\ At(j, c, {"search", "scroll"})
  /\ Goto(j, c, "reportFailed")
  /\ UNCHANGED <<db, job, mem, chan, sg, delivered, missed>>

\* The Search of the first page fails: its error is assigned to a variable of
\* the else block, the check after it sees nil, and the body of a nil response
\* is read.  The panic is not recovered and takes the process down.
SearchPanics(j, c) == At(j, c, {"search"}) /\ Die(j)

\* The segment size alone, the status left for the status goroutine to set.
SizeOnlyRow(j, c) == [mem[j][c] EXCEPT !.size = work[j][c].n]

\* campaign.Update and ToCampaignModel, before the UPDATE itself.
RunningRow(j, c) ==
  [mem[j][c] EXCEPT !.status = "Running", !.size = work[j][c].n]

SetRunning(j, c) ==
  /\ At(j, c, {"setRunning"})
  /\ mem' = [mem EXCEPT ![j][c] = RunningRow(j, c)]
  /\ SetWorker(j, c, [work[j][c] EXCEPT
       !.snap = RunningRow(j, c), !.pc = "writeRunning"])
  /\ UNCHANGED <<db, job, chan, sg, delivered, missed>>

WritePC == {"writeRunning", "writeProgress", "writeFinal"}

AfterWrite(pc) ==
  CASE pc = "writeRunning"  -> "group"
    [] pc = "writeProgress" -> "batch"
    [] OTHER                -> "finished"

AfterFailedWrite(pc) ==
  IF pc = "writeProgress" THEN "reportProgress" ELSE "reportFailed"

\* The UPDATE of the worker; when it returns an error MySQL may still have
\* executed it.
WriteSucceeds(j, c) ==
  /\ At(j, c, WritePC)
  /\ db' = [db EXCEPT ![c] = work[j][c].snap]
  /\ SetWorker(j, c, [work[j][c] EXCEPT
       !.snap = NewRow, !.pc = AfterWrite(@)])
  /\ UNCHANGED <<job, mem, chan, sg, delivered, missed>>

WriteFails(j, c) ==
  /\ At(j, c, WritePC)
  /\ db' \in {db, [db EXCEPT ![c] = work[j][c].snap]}
  /\ SetWorker(j, c, [work[j][c] EXCEPT
       !.snap = NewRow, !.pc = AfterFailedWrite(@)])
  /\ UNCHANGED <<job, mem, chan, sg, delivered, missed>>

-----------------------------------------------------------------------------
(* Grouping the users into buckets, one per email.                         *)

\* The share rounded down instead of up.
FloorCount(n, ratio) == (n * ratio) \div 100

\* int(math.Ceil(n * ratio / 100))
BucketCount(n, ratio) == (n * ratio + 99) \div 100

\* The next bucket starting on the last user of this one.
OverlappingPos(pos, count) == IF count > 0 THEN pos + count - 1 ELSE pos

NextPos(pos, count) == pos + count

BucketEnd(n, pos, count) == IF pos + count <= n THEN pos + count ELSE n

MoreEmails(j, c) == Len(work[j][c].buckets) < Len(Ratios[c])

\* One round of the loop over the emails of the campaign: cut the bucket,
\* then fetch and decode the HTML, which may fail.
Group(j, c) ==
  LET w     == work[j][c]
      count == BucketCount(w.n, RatioOf(c, Len(w.buckets) + 1))
      bucket == [lo |-> w.pos, hi |-> BucketEnd(w.n, w.pos, count)]
  IN
  /\ At(j, c, {"group"})
  /\ MoreEmails(j, c)
  /\ w.pos <= bucket.hi
  /\ \E pc \in {"group", "reportFailed"} :
       SetWorker(j, c, [w EXCEPT !.buckets = Append(w.buckets, bucket),
                                 !.pos = NextPos(w.pos, count),
                                 !.pc = pc])
  /\ UNCHANGED <<db, job, mem, chan, sg, delivered, missed>>

\* uds[pos:end] with end < pos: a slice-bounds panic, which is not recovered.
SliceOutOfRange(j, c) ==
  LET w == work[j][c]
  IN  /\ At(j, c, {"group"})
      /\ MoreEmails(j, c)
      /\ w.pos > BucketEnd(w.n, w.pos, BucketCount(w.n, RatioOf(c, Len(w.buckets) + 1)))

GroupPanics(j, c) == SliceOutOfRange(j, c) /\ Die(j)

GroupsDone(j, c) ==
  /\ At(j, c, {"group"})
  /\ ~MoreEmails(j, c)
  /\ SetWorker(j, c, [work[j][c] EXCEPT
       !.b = 1, !.at = work[j][c].buckets[1].lo, !.count = 0, !.pc = "batch"])
  /\ UNCHANGED <<db, job, mem, chan, sg, delivered, missed>>

-----------------------------------------------------------------------------
(* Sending, bucket by bucket and batch by batch.                           *)

Sending(j, c) ==
  At(j, c, {"batch"}) /\ work[j][c].b <= Len(work[j][c].buckets)

StartBatch(j, c) ==
  LET w    == work[j][c]
      hi   == w.buckets[w.b].hi
      stop == IF w.at + BatchSize <= hi THEN w.at + BatchSize ELSE hi
  IN
  /\ Sending(j, c)
  /\ w.at < hi
  /\ SetWorker(j, c, [w EXCEPT
       !.stop = stop, !.count = @ + (stop - w.at), !.pc = "post"])
  /\ UNCHANGED <<db, job, mem, chan, sg, delivered, missed>>

NextBucket(j, c) ==
  LET w == work[j][c]
  IN
  /\ Sending(j, c)
  /\ w.at >= w.buckets[w.b].hi
  /\ SetWorker(j, c, [w EXCEPT
       !.b = @ + 1,
       !.at = IF w.b < Len(w.buckets) THEN w.buckets[w.b + 1].lo ELSE w.at,
       !.count = 0])
  /\ UNCHANGED <<db, job, mem, chan, sg, delivered, missed>>

\* SendEmail posts one request per recipient of the batch.
PostSucceeds(j, c) ==
  LET w == work[j][c]
  IN
  /\ At(j, c, {"post"})
  /\ w.at < w.stop
  /\ delivered' = [delivered EXCEPT ![c][w.at] = @ + 1]
  /\ SetWorker(j, c, [w EXCEPT !.at = @ + 1])
  /\ UNCHANGED <<db, job, mem, chan, sg, missed>>

\* The first error ends SendEmail: the rest of the batch is skipped and never
\* retried.  The service may have taken the message whose answer was lost.
PostFails(j, c) ==
  LET w == work[j][c]
  IN
  /\ At(j, c, {"post"})
  /\ w.at < w.stop
  /\ delivered' \in {delivered, [delivered EXCEPT ![c][w.at] = @ + 1]}
  /\ missed' = [missed EXCEPT ![c] = @ \cup {w.at}]
  /\ SetWorker(j, c, [w EXCEPT !.at = w.stop, !.pc = "reportSend"])
  /\ UNCHANGED <<db, job, mem, chan, sg>>

Progress(j, c) ==
  IF mem[j][c].size > 0
  THEN (work[j][c].count * 100) \div mem[j][c].size ELSE 0

SetProgress(j, c) ==
  LET row == [mem[j][c] EXCEPT !.progress = Progress(j, c)]
  IN
  /\ At(j, c, {"post"})
  /\ work[j][c].at = work[j][c].stop
  /\ mem' = [mem EXCEPT ![j][c] = row]
  /\ SetWorker(j, c, [work[j][c] EXCEPT !.snap = row, !.pc = "writeProgress"])
  /\ UNCHANGED <<db, job, chan, sg, delivered, missed>>

\* Send emails done: 100 percent.
SetComplete(j, c) ==
  LET row == [mem[j][c] EXCEPT !.progress = 100]
  IN
  /\ At(j, c, {"batch"})
  /\ work[j][c].b > Len(work[j][c].buckets)
  /\ mem' = [mem EXCEPT ![j][c] = row]
  /\ SetWorker(j, c, [work[j][c] EXCEPT !.snap = row, !.pc = "writeFinal"])
  /\ UNCHANGED <<db, job, chan, sg, delivered, missed>>

-----------------------------------------------------------------------------
(* Reporting a status, and the goroutine that persists the reports.        *)

\* A campaign whose sending met an error handed back for another run.
RequeuedStatus(pc) == IF pc = "reportFailed" THEN "Failed" ELSE "Pending"

ReportedStatus(pc) == IF pc = "reportFailed" THEN "Failed" ELSE "Running"

AfterReport(pc) ==
  CASE pc = "reportFailed" -> "failed"
    [] pc = "reportSend"   -> "post"
    [] OTHER               -> "batch"

\* updateCampaignStatus blocks while statusChan is full.
Report(j, c) ==
  /\ At(j, c, {"reportFailed", "reportSend", "reportProgress"})
  /\ Len(chan[j]) < StatusSlots * Cardinality({d \in Campaigns : work[j][d].pc # "none"})
  /\ chan' = [chan EXCEPT ![j] =
       Append(@, [c |-> c, status |-> ReportedStatus(work[j][c].pc)])]
  /\ Goto(j, c, AfterReport(work[j][c].pc))
  /\ UNCHANGED <<db, job, mem, sg, delivered, missed>>

Receive(j) ==
  /\ Alive(j)
  /\ sg[j].pc = "select"
  /\ chan[j] # <<>>
  /\ LET m == Head(chan[j])
     IN  /\ mem' = [mem EXCEPT ![j][m.c] = [@ EXCEPT !.status = m.status]]
         /\ sg' = [sg EXCEPT ![j] =
                     [pc |-> "copy", c |-> m.c, snap |-> NewRow]]
  /\ chan' = [chan EXCEPT ![j] = Tail(@)]
  /\ UNCHANGED <<db, job, work, delivered, missed>>

CopyRow(j) ==
  /\ Alive(j)
  /\ sg[j].pc = "copy"
  /\ sg' = [sg EXCEPT ![j] =
              [pc |-> "write", c |-> sg[j].c, snap |-> mem[j][sg[j].c]]]
  /\ UNCHANGED <<db, job, mem, work, chan, delivered, missed>>

\* The UPDATE of the status goroutine; an error is only logged.
WriteStatus(j) ==
  /\ Alive(j)
  /\ sg[j].pc = "write"
  /\ db' \in {db, [db EXCEPT ![sg[j].c] = sg[j].snap]}
  /\ sg' = [sg EXCEPT ![j] = IdleStatus]
  /\ UNCHANGED <<job, mem, work, chan, delivered, missed>>

\* select takes doneChan although statusChan may hold reports: they are lost
\* with the rest of the memory when Run returns and the process exits.
StopStatus(j) ==
  /\ job[j] = "draining"
  /\ sg[j].pc = "select"
  /\ job' = [job EXCEPT ![j] = "ended"]
  /\ IdleProcess(j)
  /\ UNCHANGED <<db, delivered, missed>>

-----------------------------------------------------------------------------

WorkerStep(j, c) ==
  \/ Resolve(j, c)
  \/ DownloadPage(j, c)
  \/ DownloadFails(j, c)
  \/ SearchPanics(j, c)
  \/ SetRunning(j, c)
  \/ WriteSucceeds(j, c)
  \/ WriteFails(j, c)
  \/ Group(j, c)
  \/ GroupPanics(j, c)
  \/ GroupsDone(j, c)
  \/ StartBatch(j, c)
  \/ NextBucket(j, c)
  \/ PostSucceeds(j, c)
  \/ PostFails(j, c)
  \/ SetProgress(j, c)
  \/ SetComplete(j, c)
  \/ Report(j, c)

StatusStep(j) == Receive(j) \/ CopyRow(j) \/ WriteStatus(j) \/ StopStatus(j)

Next ==
  \E j \in Jobs :
    \/ StartJob(j)
    \/ StartFails(j)
    \/ TasksDone(j)
    \/ Crash(j)
    \/ StatusStep(j)
    \/ \E c \in Campaigns : Launch(j, c) \/ WorkerStep(j, c)

\* The Go scheduler runs every goroutine that can run; nothing starts a
\* process of the job and nothing makes one crash.
Fairness ==
  \A j \in Jobs :
    /\ WF_vars(StatusStep(j))
    /\ WF_vars(TasksDone(j))
    /\ WF_vars(\E c \in Campaigns : Launch(j, c))
    /\ \A c \in Campaigns : WF_vars(WorkerStep(j, c))

Spec == Init /\ [][Next]_vars
FairSpec == Spec /\ Fairness

-----------------------------------------------------------------------------
(* Properties.                                                             *)

\* The state has the shape of the Go structures it stands for.
TypeOK ==
  /\ db \in [Campaigns -> Row]
  /\ job \in [Jobs -> {"off", "running", "draining", "ended", "crashed"}]
  /\ mem \in [Jobs -> [Campaigns -> Row]]
  /\ work \in [Jobs -> [Campaigns -> Worker]]
  /\ chan \in [Jobs -> Seq(Message)]
  /\ sg \in [Jobs -> StatusGoroutine]
  /\ delivered \in [Campaigns -> [Recipients -> Nat]]
  /\ missed \in [Campaigns -> SUBSET Nat]

\* A row that says Pending, which the next process of the job will pick up,
\* belongs to a campaign none of whose messages has left: whatever the two
\* writers of the row, the failed writes, the crashes and the other processes
\* did, sending never starts before the row has durably left Pending.
PendingMeansUnsent ==
  \A c \in Campaigns :
    db[c].status = "Pending" => \A u \in Recipients : delivered[c][u] = 0

\* No recipient gets two messages of one campaign: the buckets and batches do
\* not overlap, and neither an error nor a crash makes a later process send
\* the campaign again.  Processes must not overlap for this.
AtMostOnce ==
  ~AllowOverlap => \A c \in Campaigns, u \in Recipients : delivered[c][u] <= 1

\* Recipient u of c has a message, or a call returned an error for u or for one
\* close enough before u to have shared a batch with it.
Tried(c, u) ==
  \/ delivered[c][u] > 0
  \/ \E f \in missed[c] : f <= u /\ u < f + BatchSize

\* A row shows progress 100 only when every user of the segment was tried: an
\* error leaves out the user it was returned for and at most the rest of that
\* batch, and nobody else is without a message.
CompleteMeansAttempted ==
  \A c \in Campaigns :
    db[c].progress = 100 => \A u \in 0..(db[c].size - 1) : Tried(c, u)

\* No write, however stale the copy it writes, brings a row back to Pending,
\* where another process would take the campaign again.
NeverPendingAgain ==
  [][\A c \in Campaigns :
       db[c].status # "Pending" => db'[c].status # "Pending"]_vars

\* The job as its recipients see it: a claim of each campaign, then at most
\* one message for each recipient.
Delivery == INSTANCE CampaignDelivery
  WITH claimed <- [c \in Campaigns |-> db[c].status # "Pending"]

DeliverySpec == Delivery!Spec

\* A process that is not killed ends: the semaphore, the bounded statusChan and
\* doneChan never leave its goroutines waiting on each other.
RunEnds == \A j \in Jobs : job[j] = "running" ~> ~Alive(j)

\* "group emails into buckets" (job.go:167) works for every campaign whose
\* ratios add up to 100, the only ones CreateCampaign accepts.
GroupingTotal == \A j \in Jobs, c \in Campaigns : ~SliceOutOfRange(j, c)

-----------------------------------------------------------------------------
(* The inductive invariant behind PendingMeansUnsent, NeverPendingAgain,   *)
(* AtMostOnce and the refinement.                                          *)

\* Places of a worker before and after its first successful UPDATE.
BeforeClaim == {"queued", "resolve", "search", "scroll", "setRunning", "writeRunning"}
SendPC == {"batch", "post", "reportSend", "writeProgress", "reportProgress"}
AfterClaim == SendPC \cup {"group", "writeFinal"}

\* Whatever may still write the row of a campaign writes a claimed status, and
\* a worker that may send is one whose campaign is claimed in the database.
ClaimInv ==
  /\ \A j \in Jobs : job[j] = "off" => sg[j].pc = "select"
  /\ \A j \in Jobs : Alive(j) =>
       /\ sg[j].pc = "copy" => mem[j][sg[j].c].status # "Pending"
       /\ sg[j].pc = "write" => sg[j].snap.status # "Pending"
  /\ \A j \in Jobs, c \in Campaigns :
       /\ At(j, c, WritePC) => work[j][c].snap.status # "Pending"
       /\ At(j, c, AfterClaim \cup {"writeRunning"}) => mem[j][c].status # "Pending"
       /\ At(j, c, AfterClaim) => db[c].status # "Pending"

\* The buckets of a worker are consecutive slices of the segment, and a worker
\* that sends is inside the current one.
Layout(w) ==
  /\ w.n <= MaxSegment
  /\ \A k \in 1..Len(w.buckets) :
       /\ w.buckets[k].lo <= w.buckets[k].hi
       /\ w.buckets[k].hi <= MaxSegment
       /\ w.buckets[k].hi <= w.pos
       /\ k > 1 => w.buckets[k - 1].hi <= w.buckets[k].lo
  /\ w.pc \in SendPC /\ w.b <= Len(w.buckets) => w.at <= w.buckets[w.b].hi
  /\ w.pc \in {"post", "reportSend"} =>
       /\ w.b <= Len(w.buckets)
       /\ w.at <= w.stop
       /\ w.stop <= w.buckets[w.b].hi
       /\ w.stop <= w.at + BatchSize

LayoutInv == \A j \in Jobs, c \in Campaigns : Layout(work[j][c])

\* Nobody at or past the cursor of the only worker of a campaign has a message.
FreshInv ==
  /\ \A i, j \in Jobs : Alive(i) /\ Alive(j) => i = j
  /\ \A j \in Jobs, c \in Campaigns :
       /\ At(j, c, BeforeClaim \cup {"group"}) =>
            \A u \in Recipients : delivered[c][u] = 0
       /\ At(j, c, SendPC) =>
            \A u \in Recipients : u >= work[j][c].at => delivered[c][u] = 0
  /\ \A c \in Campaigns, u \in Recipients : delivered[c][u] <= 1

-----------------------------------------------------------------------------
(* The inductive invariant behind CompleteMeansAttempted.                  *)

Attempted(c) == {u \in Recipients : Tried(c, u)}

\* Among users got already, a row that shows 100 percent is not ahead of them.
RowTrue(row, got) == row.progress = 100 => 0..(row.size - 1) \subseteq got

\* Every bucket starts where the one before it ends, the first one at 0, and
\* together they hold the share of the segment that their ratios add up to.
Consecutive(c, n, pos, buckets) ==
  /\ Len(buckets) <= Len(Ratios[c])
  /\ n * RatioPrefix(c, Len(buckets)) <= 100 * pos
  /\ IF Len(buckets) = 0 THEN pos = 0 ELSE buckets[1].lo = 0
  /\ \A k \in 1..Len(buckets) :
       buckets[k].hi = IF k < Len(buckets) THEN buckets[k + 1].lo
                       ELSE IF pos <= n THEN pos ELSE n

\* Worker w of campaign c, whose shared row is m, has tried everybody before its
\* cursor; its count of a bucket is never ahead of the cursor, and past
\* the last bucket the cursor is at the end of the segment.
Covers(c, w, m, got) ==
  /\ RowTrue(w.snap, got)
  /\ w.pc \in BeforeClaim => w.buckets = <<>> /\ w.pos = 0
  /\ w.pc \in BeforeClaim \ {"writeRunning"} => m.progress = 0
  /\ w.pc \in AfterClaim \cup {"writeRunning"} => m.size = w.n
  /\ w.pc \in AfterClaim => Consecutive(c, w.n, w.pos, w.buckets)
  /\ w.pc \in SendPC =>
       /\ Len(w.buckets) = Len(Ratios[c])
       /\ 0..(w.at - 1) \subseteq got
       /\ w.b > Len(w.buckets) => w.at >= w.n
       /\ w.count <= IF w.pc = "batch" THEN w.at ELSE w.stop
  /\ w.pc \in {"writeProgress", "reportProgress"} => w.at = w.stop

CompleteInv ==
  /\ \A c \in Campaigns : /\ RowTrue(db[c], Attempted(c))
                          /\ db[c].status = "Pending" => db[c].progress = 0
  /\ \A j \in Jobs : RowTrue(sg[j].snap, Attempted(sg[j].c))
  /\ \A j \in Jobs, c \in Campaigns :
       /\ RowTrue(mem[j][c], Attempted(c))
       /\ Covers(c, work[j][c], mem[j][c], Attempted(c))

=============================================================================
