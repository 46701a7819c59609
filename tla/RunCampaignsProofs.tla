------------------------- MODULE RunCampaignsProofs -------------------------
(***************************************************************************)
(* Theorems about the run-campaigns job, for any campaigns, ratios,        *)
(* segment sizes, page and batch sizes, worker counts and processes: its   *)
(* types, who may write a row, that a row shows 100 percent only when the  *)
(* whole segment was tried, and, when the processes do not overlap, that   *)
(* no recipient gets two messages and that the job implements              *)
(* CampaignDelivery.                                                       *)
(***************************************************************************)
EXTENDS RunCampaigns, TLAPS

-----------------------------------------------------------------------------
(* Lemmas on the helpers of the grouping loop.                             *)

\* A bucket holds whole users, and rounding up never loses one.
LEMMA BucketCountNat ==
  ASSUME NEW n \in Nat, NEW r \in Nat
  PROVE  BucketCount(n, r) \in Nat /\ 100 * BucketCount(n, r) >= n * r
<1> DEFINE p == n * r
<1>1. p \in Nat
  OBVIOUS
<1> HIDE DEF p
<1>2. (p + 99) \div 100 \in Nat /\ 100 * ((p + 99) \div 100) >= p
  BY <1>1
<1>3. QED
  BY <1>2 DEF BucketCount, p

\* The ratio of an email is a natural number, 0 past the last email.
LEMMA RatioNat ==
  ASSUME NEW c \in Campaigns, NEW i
  PROVE  RatioOf(c, i) \in Nat
BY RatiosAssumption DEF RatioOf

-----------------------------------------------------------------------------
(* Type correctness.                                                       *)

\* Before anything runs the rows, workers and status goroutines are well typed.
LEMMA IdleTyped ==
  /\ NewRow \in Row
  /\ Idle \in Worker
  /\ IdleStatus \in StatusGoroutine
<1>1. NewRow \in Row
  BY DEF NewRow, Row, Statuses
<1>2. Idle \in Worker
  BY <1>1 DEF Idle, Worker, WorkerPC
<1>3. (CHOOSE c \in Campaigns : TRUE) \in Campaigns
  BY BoundsAssumption
<1>4. IdleStatus \in StatusGoroutine
  BY <1>1, <1>3 DEF IdleStatus, StatusGoroutine
<1>5. QED
  BY <1>1, <1>2, <1>4

\* Writing one field of a row keeps it a row.
LEMMA RowTyped ==
  ASSUME NEW row \in Row, NEW status \in Statuses, NEW n \in Nat
  PROVE  /\ [row EXCEPT !.status = status] \in Row
         /\ [row EXCEPT !.status = status, !.size = n] \in Row
         /\ [row EXCEPT !.progress = n] \in Row
BY DEF Row

\* The fields of a worker, and the groups of them its steps write.
LEMMA WorkerFields ==
  ASSUME NEW w \in Worker
  PROVE  /\ w.pc \in WorkerPC
         /\ w.n \in Nat /\ w.pos \in Nat /\ w.at \in Nat
         /\ w.stop \in Nat /\ w.count \in Nat
         /\ w.b \in Nat \ {0}
         /\ w.buckets \in Seq(Bucket)
         /\ w.snap \in Row
BY DEF Worker

\* Each group of fields that a worker step writes together keeps the worker typed.
LEMMA WorkerUpdates ==
  ASSUME NEW w \in Worker, NEW pc \in WorkerPC, NEW n \in Nat, NEW m \in Nat,
         NEW bs \in Seq(Bucket), NEW b \in Nat \ {0}, NEW row \in Row
  PROVE  /\ [w EXCEPT !.pc = pc] \in Worker
         /\ [w EXCEPT !.n = n, !.pc = pc] \in Worker
         /\ [w EXCEPT !.snap = row, !.pc = pc] \in Worker
         /\ [w EXCEPT !.buckets = bs, !.pos = n, !.pc = pc] \in Worker
         /\ [w EXCEPT !.b = b, !.at = n, !.count = m, !.pc = pc] \in Worker
         /\ [w EXCEPT !.b = b, !.at = n, !.count = m] \in Worker
         /\ [w EXCEPT !.stop = n, !.count = m, !.pc = pc] \in Worker
         /\ [w EXCEPT !.at = n] \in Worker
         /\ [w EXCEPT !.at = n, !.pc = pc] \in Worker
BY DEF Worker

\* One more message for a user, who need not be one the model counts.
LEMMA DeliverTyped ==
  ASSUME TypeOK, NEW c \in Campaigns, NEW u
  PROVE  [delivered EXCEPT ![c][u] = @ + 1] \in [Campaigns -> [Recipients -> Nat]]
<1> DEFINE d == delivered[c]
<1>1. d \in [Recipients -> Nat]
  BY DEF TypeOK
<1>2. [d EXCEPT ![u] = @ + 1] \in [Recipients -> Nat]
  <2> HIDE DEF d
  <2>1. CASE u \in Recipients
    BY <1>1, <2>1
  <2>2. CASE u \notin Recipients
    BY <1>1, <2>2
  <2>3. QED
    BY <2>1, <2>2
<1>3. [delivered EXCEPT ![c] = [d EXCEPT ![u] = @ + 1]]
        \in [Campaigns -> [Recipients -> Nat]]
  <2> HIDE DEF d
  <2>1. QED
    BY <1>2 DEF TypeOK
<1>4. QED
  BY <1>3

\* The initial state, before any process of the job runs, is well typed.
LEMMA InitTypeOK == Init => TypeOK
BY IdleTyped DEF Init, TypeOK, Recipients

\* A process that dies (a panic or a kill) leaves a well-typed state behind.
LEMMA DieTypeOK ==
  ASSUME TypeOK, NEW j \in Jobs, Die(j)
  PROVE  TypeOK'
BY IdleTyped DEF TypeOK, Die, IdleProcess

\* Starting and ending a process, and its status goroutine, preserve the types.
LEMMA ProcessTypeOK ==
  ASSUME TypeOK, NEW j \in Jobs,
         \/ StartJob(j) \/ StartFails(j) \/ TasksDone(j) \/ Crash(j)
         \/ StatusStep(j)
  PROVE  TypeOK'
<1>1. CASE StartJob(j)
  <2>1. [Idle EXCEPT !.pc = "queued"] \in Worker
    BY IdleTyped DEF Worker, WorkerPC
  <2>2. QED
    BY <1>1, <2>1, IdleTyped DEF StartJob, TypeOK
<1>2. CASE StartFails(j)
  BY <1>2 DEF StartFails, TypeOK
<1>3. CASE TasksDone(j)
  BY <1>3 DEF TasksDone, TypeOK
<1>4. CASE Crash(j)
  BY <1>4, DieTypeOK DEF Crash
<1>5. CASE Receive(j)
  <2> DEFINE m   == Head(chan[j])
             row == [mem[j][m.c] EXCEPT !.status = m.status]
             g   == [pc |-> "copy", c |-> m.c, snap |-> NewRow]
  <2>1. m \in Message /\ Tail(chan[j]) \in Seq(Message)
    BY <1>5 DEF Receive, TypeOK
  <2>2. m.c \in Campaigns /\ m.status \in Statuses
    BY <2>1 DEF Message, Statuses
  <2>3. mem[j][m.c] \in Row
    BY <2>2 DEF TypeOK
  <2>4. row \in Row
    BY <2>2, <2>3, RowTyped
  <2>5. g \in StatusGoroutine
    BY <2>2, IdleTyped DEF StatusGoroutine
  <2>6. /\ mem' = [mem EXCEPT ![j][m.c] = row]
        /\ sg' = [sg EXCEPT ![j] = g]
        /\ chan' = [chan EXCEPT ![j] = Tail(chan[j])]
        /\ UNCHANGED <<db, job, work, delivered, missed>>
    BY <1>5 DEF Receive
  <2> HIDE DEF m, row, g
  <2>7. QED
    BY <2>1, <2>2, <2>4, <2>5, <2>6 DEF TypeOK
<1>6. CASE CopyRow(j)
  <2> DEFINE g == [pc |-> "write", c |-> sg[j].c, snap |-> mem[j][sg[j].c]]
  <2>1. sg[j].c \in Campaigns
    BY DEF TypeOK, StatusGoroutine
  <2>2. g \in StatusGoroutine
    BY <2>1 DEF TypeOK, StatusGoroutine
  <2>3. QED
    BY <1>6, <2>2 DEF CopyRow, TypeOK
<1>7. CASE WriteStatus(j)
  <2>1. sg[j].c \in Campaigns /\ sg[j].snap \in Row
    BY DEF TypeOK, StatusGoroutine
  <2>2. QED
    BY <1>7, <2>1, IdleTyped DEF WriteStatus, TypeOK
<1>8. CASE StopStatus(j)
  BY <1>8, IdleTyped DEF StopStatus, IdleProcess, TypeOK
<1>9. QED
  BY <1>1, <1>2, <1>3, <1>4, <1>5, <1>6, <1>7, <1>8 DEF StatusStep

\* A step of a worker that leaves a well-typed worker behind.
LEMMA SetWorkerTyped ==
  ASSUME TypeOK, NEW j \in Jobs, NEW c \in Campaigns, NEW w \in Worker,
         SetWorker(j, c, w)
  PROVE  work' \in [Jobs -> [Campaigns -> Worker]]
BY DEF TypeOK, SetWorker

\* A worker that only moves to another place of its code.
LEMMA GotoTyped ==
  ASSUME TypeOK, NEW j \in Jobs, NEW c \in Campaigns, NEW pc \in WorkerPC,
         Goto(j, c, pc)
  PROVE  work' \in [Jobs -> [Campaigns -> Worker]]
<1>1. work[j][c] \in Worker
  BY DEF TypeOK
<1>2. [work[j][c] EXCEPT !.pc = pc] \in Worker
  BY <1>1 DEF Worker
<1>3. QED
  BY <1>2, SetWorkerTyped DEF Goto

\* Launching a worker and every step of a worker preserve the types.
LEMMA WorkerTypeOK ==
  ASSUME TypeOK, NEW j \in Jobs, NEW c \in Campaigns,
         Launch(j, c) \/ WorkerStep(j, c)
  PROVE  TypeOK'
<1> DEFINE w == work[j][c]
<1>w. /\ w \in Worker
      /\ w.pc \in WorkerPC
      /\ w.n \in Nat /\ w.pos \in Nat /\ w.at \in Nat
      /\ w.stop \in Nat /\ w.count \in Nat
      /\ w.b \in Nat \ {0}
      /\ w.buckets \in Seq(Bucket)
      /\ w.snap \in Row
  BY WorkerFields DEF TypeOK
<1>m. mem[j][c] \in Row
  BY DEF TypeOK
<1>1. CASE Launch(j, c)
  BY <1>1, GotoTyped DEF Launch, TypeOK, WorkerPC
<1>2. CASE Resolve(j, c)
  BY <1>2, GotoTyped DEF Resolve, TypeOK, WorkerPC
<1>3. CASE DownloadPage(j, c)
  <2>1. PICK k \in 0..PageLimit :
          SetWorker(j, c, [w EXCEPT !.n = w.n + k,
            !.pc = IF k = PageLimit THEN "scroll" ELSE "setRunning"])
    BY <1>3 DEF DownloadPage
  <2>2. w.n + k \in Nat
    <3>1. k \in Nat
      BY BoundsAssumption
    <3>2. w.n \in Nat
      BY <1>w
    <3> HIDE DEF w
    <3>3. QED
      BY <3>1, <3>2
  <2>3. (IF k = PageLimit THEN "scroll" ELSE "setRunning") \in WorkerPC
    BY DEF WorkerPC
  <2>4. [w EXCEPT !.n = w.n + k,
           !.pc = IF k = PageLimit THEN "scroll" ELSE "setRunning"] \in Worker
    BY <1>w, <2>2, <2>3, WorkerUpdates
  <2>5. QED
    BY <1>3, <2>1, <2>4, SetWorkerTyped DEF DownloadPage, TypeOK
<1>4. CASE DownloadFails(j, c)
  BY <1>4, GotoTyped DEF DownloadFails, TypeOK, WorkerPC
<1>5. CASE SearchPanics(j, c) \/ GroupPanics(j, c)
  BY <1>5, DieTypeOK DEF SearchPanics, GroupPanics
<1>6. CASE SetRunning(j, c)
  <2>1. RunningRow(j, c) \in Row
    BY <1>w, <1>m, RowTyped DEF RunningRow, Statuses
  <2>2. "writeRunning" \in WorkerPC
    BY DEF WorkerPC
  <2>3. [w EXCEPT !.snap = RunningRow(j, c), !.pc = "writeRunning"] \in Worker
    BY <1>w, <2>1, <2>2, WorkerUpdates
  <2>4. QED
    BY <1>6, <2>1, <2>3, SetWorkerTyped DEF SetRunning, TypeOK
<1>7. CASE WriteSucceeds(j, c)
  <2>1. AfterWrite(w.pc) \in WorkerPC
    BY DEF AfterWrite, WorkerPC
  <2>2. [w EXCEPT !.snap = NewRow, !.pc = AfterWrite(w.pc)] \in Worker
    BY <1>w, <2>1, IdleTyped, WorkerUpdates
  <2>3. SetWorker(j, c, [w EXCEPT !.snap = NewRow, !.pc = AfterWrite(w.pc)])
    BY <1>7 DEF WriteSucceeds
  <2>4. QED
    BY <1>7, <1>w, <2>2, <2>3, SetWorkerTyped DEF WriteSucceeds, TypeOK
<1>8. CASE WriteFails(j, c)
  <2>1. AfterFailedWrite(w.pc) \in WorkerPC
    BY DEF AfterFailedWrite, WorkerPC
  <2>2. [w EXCEPT !.snap = NewRow, !.pc = AfterFailedWrite(w.pc)] \in Worker
    BY <1>w, <2>1, IdleTyped, WorkerUpdates
  <2>3. SetWorker(j, c, [w EXCEPT !.snap = NewRow, !.pc = AfterFailedWrite(w.pc)])
    BY <1>8 DEF WriteFails
  <2>4. QED
    BY <1>8, <1>w, <2>2, <2>3, SetWorkerTyped DEF WriteFails, TypeOK
<1>9. CASE Group(j, c)
  <2> DEFINE count == BucketCount(w.n, RatioOf(c, Len(w.buckets) + 1))
             bucket == [lo |-> w.pos, hi |-> BucketEnd(w.n, w.pos, count)]
  <2>1. count \in Nat
    BY <1>w, BucketCountNat, RatioNat
  <2>2. BucketEnd(w.n, w.pos, count) \in Nat /\ NextPos(w.pos, count) \in Nat
    <3> HIDE DEF count
    <3>1. QED
      BY <1>w, <2>1 DEF BucketEnd, NextPos
  <2>3. Append(w.buckets, bucket) \in Seq(Bucket)
    BY <1>w, <2>2 DEF Bucket
  <2>4. PICK pc \in {"group", "reportFailed"} :
          SetWorker(j, c, [w EXCEPT !.buckets = Append(w.buckets, bucket),
                             !.pos = NextPos(w.pos, count), !.pc = pc])
    BY <1>9 DEF Group
  <2>5. pc \in WorkerPC
    BY DEF WorkerPC
  <2>6. [w EXCEPT !.buckets = Append(w.buckets, bucket),
                  !.pos = NextPos(w.pos, count), !.pc = pc] \in Worker
    <3> HIDE DEF bucket, count
    <3>1. QED
      BY <1>w, <2>2, <2>3, <2>5, WorkerUpdates
  <2>7. QED
    <3> HIDE DEF bucket, count
    <3>1. QED
      BY <1>9, <2>4, <2>6, SetWorkerTyped DEF Group, TypeOK
<1>10. CASE GroupsDone(j, c)
  <2>1. Len(w.buckets) >= 1
    BY <1>10, <1>w, RatiosAssumption DEF GroupsDone, MoreEmails
  <2> DEFINE lo == w.buckets[1].lo
  <2>2. w.buckets[1] \in Bucket
    BY <1>w, <2>1
  <2>3. lo \in Nat
    BY <2>2 DEF Bucket
  <2>4. "batch" \in WorkerPC /\ 1 \in Nat \ {0} /\ 0 \in Nat
    BY DEF WorkerPC
  <2>5. SetWorker(j, c, [w EXCEPT !.b = 1, !.at = lo, !.count = 0, !.pc = "batch"])
    BY <1>10 DEF GroupsDone
  <2> HIDE DEF lo
  <2>6. [w EXCEPT !.b = 1, !.at = lo, !.count = 0, !.pc = "batch"] \in Worker
    BY <1>w, <2>3, <2>4, WorkerUpdates
  <2>7. QED
    BY <1>10, <2>5, <2>6, SetWorkerTyped DEF GroupsDone, TypeOK
<1>11. CASE StartBatch(j, c)
  <2> DEFINE hi   == w.buckets[w.b].hi
             stop == IF w.at + BatchSize <= hi THEN w.at + BatchSize ELSE hi
  <2>1. w.b <= Len(w.buckets) /\ w.at < hi
    BY <1>11 DEF StartBatch, Sending
  <2>2. hi \in Nat
    <3>1. w.buckets[w.b] \in Bucket
      BY <1>w, <2>1
    <3>2. QED
      BY <3>1 DEF Bucket
  <2>3. stop \in Nat /\ w.count + (stop - w.at) \in Nat
    <3> DEFINE at == w.at
               n  == w.count
    <3>1. at \in Nat /\ n \in Nat /\ at < hi
      BY <1>w, <2>1
    <3> HIDE DEF hi, at, n, w
    <3>2. stop \in Nat /\ stop - at \in Nat
      BY <2>2, <3>1, BoundsAssumption DEF at
    <3> HIDE DEF stop
    <3>3. n + (stop - at) \in Nat
      BY <3>1, <3>2
    <3>4. QED
      BY <3>2, <3>3 DEF at, n
  <2>4. "post" \in WorkerPC
    BY DEF WorkerPC
  <2>5. SetWorker(j, c, [w EXCEPT !.stop = stop,
                           !.count = w.count + (stop - w.at), !.pc = "post"])
    BY <1>11 DEF StartBatch
  <2>6. [w EXCEPT !.stop = stop, !.count = w.count + (stop - w.at), !.pc = "post"]
          \in Worker
    <3> HIDE DEF stop
    <3>1. QED
      BY <1>w, <2>3, <2>4, WorkerUpdates
  <2>7. QED
    <3> HIDE DEF stop
    <3>1. QED
      BY <1>11, <2>5, <2>6, SetWorkerTyped DEF StartBatch, TypeOK
<1>12. CASE NextBucket(j, c)
  <2> DEFINE at == IF w.b < Len(w.buckets) THEN w.buckets[w.b + 1].lo ELSE w.at
  <2>1. at \in Nat
    <3>1. CASE w.b < Len(w.buckets)
      <4>1. w.buckets[w.b + 1] \in Bucket
        BY <1>w, <3>1
      <4>2. QED
        BY <4>1, <1>w DEF Bucket
    <3>2. CASE ~(w.b < Len(w.buckets))
      BY <3>2, <1>w
    <3>3. QED
      BY <3>1, <3>2
  <2>2. w.b + 1 \in Nat \ {0}
    BY <1>w
  <2>3. SetWorker(j, c, [w EXCEPT !.b = w.b + 1, !.at = at, !.count = 0])
    BY <1>12 DEF NextBucket
  <2>4. [w EXCEPT !.b = w.b + 1, !.at = at, !.count = 0] \in Worker
    <3> HIDE DEF at
    <3>1. QED
      BY <1>w, <2>1, <2>2, WorkerUpdates
  <2>5. QED
    <3> HIDE DEF at
    <3>1. QED
      BY <1>12, <2>3, <2>4, SetWorkerTyped DEF NextBucket, TypeOK
<1>13. CASE PostSucceeds(j, c)
  <2>1. [w EXCEPT !.at = w.at + 1] \in Worker
    <3>1. w.at + 1 \in Nat
      BY <1>w
    <3>2. QED
      BY <1>w, <3>1, WorkerUpdates
  <2>2. SetWorker(j, c, [w EXCEPT !.at = w.at + 1])
    BY <1>13 DEF PostSucceeds
  <2>3. delivered' \in [Campaigns -> [Recipients -> Nat]]
    BY <1>13, DeliverTyped DEF PostSucceeds
  <2>4. QED
    BY <1>13, <2>1, <2>2, <2>3, SetWorkerTyped DEF PostSucceeds, TypeOK
<1>14. CASE PostFails(j, c)
  <2>1. "reportSend" \in WorkerPC
    BY DEF WorkerPC
  <2>2. [w EXCEPT !.at = w.stop, !.pc = "reportSend"] \in Worker
    BY <1>w, <2>1, WorkerUpdates
  <2>3. delivered' \in [Campaigns -> [Recipients -> Nat]]
    <3>1. delivered' \in {delivered, [delivered EXCEPT ![c][w.at] = @ + 1]}
      BY <1>14 DEF PostFails
    <3>2. [delivered EXCEPT ![c][w.at] = @ + 1] \in [Campaigns -> [Recipients -> Nat]]
      BY DeliverTyped
    <3>3. delivered \in [Campaigns -> [Recipients -> Nat]]
      BY DEF TypeOK
    <3>4. QED
      BY <3>1, <3>2, <3>3
  <2>4. missed[c] \cup {w.at} \in SUBSET Nat
    BY <1>w DEF TypeOK
  <2>5. missed' = [missed EXCEPT ![c] = missed[c] \cup {w.at}]
    BY <1>14 DEF PostFails
  <2>6. missed' \in [Campaigns -> SUBSET Nat]
    BY <2>4, <2>5 DEF TypeOK
  <2>7. QED
    BY <1>14, <2>2, <2>3, <2>6, SetWorkerTyped DEF PostFails, TypeOK
<1>15. CASE SetProgress(j, c)
  <2> DEFINE row == [mem[j][c] EXCEPT !.progress = Progress(j, c)]
  <2>1. Progress(j, c) \in Nat
    <3>1. mem[j][c].size \in Nat
      BY <1>m DEF Row
    <3>2. \A a, b \in Nat : b > 0 => (a * 100) \div b \in Nat
      OBVIOUS
    <3>3. QED
      BY <1>w, <3>1, <3>2 DEF Progress
  <2>2. row \in Row
    BY <1>m, <2>1, RowTyped DEF Statuses
  <2>3. "writeProgress" \in WorkerPC
    BY DEF WorkerPC
  <2>4. [w EXCEPT !.snap = row, !.pc = "writeProgress"] \in Worker
    <3> HIDE DEF row
    <3>1. QED
      BY <1>w, <2>2, <2>3, WorkerUpdates
  <2>5. QED
    BY <1>15, <2>2, <2>4, SetWorkerTyped DEF SetProgress, TypeOK
<1>16. CASE SetComplete(j, c)
  <2> DEFINE row == [mem[j][c] EXCEPT !.progress = 100]
  <2>1. row \in Row
    BY <1>m, RowTyped DEF Statuses
  <2>2. "writeFinal" \in WorkerPC
    BY DEF WorkerPC
  <2>3. [w EXCEPT !.snap = row, !.pc = "writeFinal"] \in Worker
    <3> HIDE DEF row
    <3>1. QED
      BY <1>w, <2>1, <2>2, WorkerUpdates
  <2>4. QED
    BY <1>16, <2>1, <2>3, SetWorkerTyped DEF SetComplete, TypeOK
<1>17. CASE Report(j, c)
  <2>1. AfterReport(w.pc) \in WorkerPC
    BY DEF AfterReport, WorkerPC
  <2>2. [c |-> c, status |-> ReportedStatus(w.pc)] \in Message
    BY DEF Message, ReportedStatus
  <2>3. chan' \in [Jobs -> Seq(Message)]
    BY <1>17, <2>2 DEF Report, TypeOK
  <2>4. QED
    BY <1>17, <2>1, <2>3, GotoTyped DEF Report, TypeOK
<1>18. QED
  BY <1>1, <1>2, <1>3, <1>4, <1>5, <1>6, <1>7, <1>8, <1>9, <1>10, <1>11,
     <1>12, <1>13, <1>14, <1>15, <1>16, <1>17 DEF WorkerStep

\* Every step of the job, stuttering included, preserves the types.
LEMMA StepTypeOK == TypeOK /\ [Next]_vars => TypeOK'
<1>1. TypeOK /\ Next => TypeOK'
  BY ProcessTypeOK, WorkerTypeOK DEF Next
<1>2. TypeOK /\ UNCHANGED vars => TypeOK'
  BY DEF TypeOK, vars
<1>3. QED
  BY <1>1, <1>2

\* The state keeps its shape in every reachable state.
THEOREM TypeCorrect == Spec => []TypeOK
<1>1. QED
  BY InitTypeOK, StepTypeOK, PTL DEF Spec

-----------------------------------------------------------------------------
(* Claims: rows that have left Pending stay out of it, and nothing is sent *)
(* before.                                                                 *)

\* The part of ClaimInv about one worker.
WorkerClaim(j, c) ==
  /\ At(j, c, WritePC) => work[j][c].snap.status # "Pending"
  /\ At(j, c, AfterClaim \cup {"writeRunning"}) => mem[j][c].status # "Pending"
  /\ At(j, c, AfterClaim) => db[c].status # "Pending"

\* The part of ClaimInv about one status goroutine.
StatusClaim(j) ==
  /\ job[j] = "off" => sg[j].pc = "select"
  /\ Alive(j) =>
       /\ sg[j].pc = "copy" => mem[j][sg[j].c].status # "Pending"
       /\ sg[j].pc = "write" => sg[j].snap.status # "Pending"

\* ClaimInv is the claims of each status goroutine and of each worker.
LEMMA ClaimParts ==
  ClaimInv <=> /\ \A j \in Jobs : StatusClaim(j)
               /\ \A j \in Jobs, c \in Campaigns : WorkerClaim(j, c)
BY DEF ClaimInv, WorkerClaim, StatusClaim

\* Before any process runs nobody is about to write a row and nothing was sent.
LEMMA InitClaimInv == Init => ClaimInv /\ PendingMeansUnsent
<1>1. Init => PendingMeansUnsent
  BY DEF Init, PendingMeansUnsent, Recipients
<1>2. Init => ClaimInv
  BY DEF Init, ClaimInv, At, Alive, IdleStatus
<1>3. QED
  BY <1>1, <1>2

\* A process that dies or exits stops writing; the others and the rows are
\* untouched.
LEMMA DieClaimInv ==
  ASSUME TypeOK, ClaimInv, NEW j \in Jobs, Die(j) \/ StopStatus(j)
  PROVE  ClaimInv' /\ UNCHANGED db
<1>1. CASE Die(j)
  BY <1>1 DEF TypeOK, ClaimInv, Die, IdleProcess, IdleStatus, At, Alive
<1>2. CASE StopStatus(j)
  BY <1>2 DEF TypeOK, ClaimInv, StopStatus, IdleProcess, IdleStatus, At, Alive
<1>3. QED
  BY <1>1, <1>2

\* Rows and shared campaigns that only move away from Pending keep the claims
\* of every worker and status goroutine that does not move itself.
LEMMA ClaimFrame ==
  ASSUME TypeOK, ClaimInv,
         \A c \in Campaigns : db[c].status # "Pending" => db'[c].status # "Pending",
         \A j \in Jobs, c \in Campaigns :
           mem[j][c].status # "Pending" => mem'[j][c].status # "Pending",
         UNCHANGED job
  PROVE  /\ \A j \in Jobs : sg'[j] = sg[j] => StatusClaim(j)'
         /\ \A j \in Jobs, c \in Campaigns : work'[j][c] = work[j][c] => WorkerClaim(j, c)'
<1>1. ASSUME NEW j \in Jobs, sg'[j] = sg[j]
      PROVE  StatusClaim(j)'
  <2>1. StatusClaim(j)
    BY ClaimParts
  <2>2. sg[j].c \in Campaigns
    BY DEF TypeOK, StatusGoroutine
  <2>3. QED
    BY <1>1, <2>1, <2>2 DEF StatusClaim, Alive
<1>2. ASSUME NEW j \in Jobs, NEW c \in Campaigns, work'[j][c] = work[j][c]
      PROVE  WorkerClaim(j, c)'
  <2>1. WorkerClaim(j, c)
    BY ClaimParts
  <2>2. QED
    BY <1>2, <2>1 DEF WorkerClaim, At
<1>3. QED
  BY <1>1, <1>2

\* A worker step, given that the worker it leaves behind keeps its own claims.
LEMMA ClaimWorkerStep ==
  ASSUME TypeOK, ClaimInv, NEW j \in Jobs, NEW c \in Campaigns, NEW v,
         SetWorker(j, c, v),
         \A d \in Campaigns : db[d].status # "Pending" => db'[d].status # "Pending",
         \A i \in Jobs, d \in Campaigns :
           mem[i][d].status # "Pending" => mem'[i][d].status # "Pending",
         UNCHANGED <<job, sg>>,
         v.pc \in WritePC => v.snap.status # "Pending",
         v.pc \in AfterClaim \cup {"writeRunning"} => mem'[j][c].status # "Pending",
         v.pc \in AfterClaim => db'[c].status # "Pending"
  PROVE  ClaimInv'
<1>1. work'[j][c] = v
  BY DEF SetWorker, TypeOK
<1>2. \A i \in Jobs, d \in Campaigns : ~(i = j /\ d = c) => work'[i][d] = work[i][d]
  BY DEF SetWorker, TypeOK
<1>3. WorkerClaim(j, c)'
  BY <1>1 DEF WorkerClaim, At
<1>4. \A i \in Jobs : StatusClaim(i)'
  BY ClaimFrame
<1>5. \A i \in Jobs, d \in Campaigns : WorkerClaim(i, d)'
  BY <1>2, <1>3, ClaimFrame
<1>6. QED
  BY <1>4, <1>5 DEF ClaimInv, WorkerClaim, StatusClaim

\* Starting and ending a process, and its status goroutine, preserve ClaimInv and
\* never bring a row back to Pending.
LEMMA ProcessClaimInv ==
  ASSUME TypeOK, ClaimInv, NEW j \in Jobs,
         \/ StartJob(j) \/ StartFails(j) \/ TasksDone(j) \/ Crash(j)
         \/ StatusStep(j)
  PROVE  /\ ClaimInv'
         /\ \A c \in Campaigns : db[c].status # "Pending" => db'[c].status # "Pending"
<1>1. CASE StartJob(j)
  <2>1. \A c \in Campaigns : work'[j][c].pc \in {"none", "queued"}
    BY <1>1 DEF StartJob, TypeOK, Idle
  <2>2. \A i \in Jobs : i # j =>
          work'[i] = work[i] /\ mem'[i] = mem[i] /\ job'[i] = job[i]
    BY <1>1 DEF StartJob, TypeOK
  <2>3. sg[j].pc = "select" /\ UNCHANGED <<db, sg>> /\ job'[j] = "running"
    BY <1>1 DEF StartJob, ClaimInv, TypeOK
  <2>4. \A i \in Jobs : StatusClaim(i)'
    BY <2>2, <2>3 DEF ClaimInv, StatusClaim, Alive
  <2>5. \A i \in Jobs, c \in Campaigns : WorkerClaim(i, c)'
    BY <2>1, <2>2, <2>3
       DEF ClaimInv, WorkerClaim, At, WritePC, AfterClaim, SendPC
  <2>6. QED
    BY <2>3, <2>4, <2>5 DEF ClaimInv, WorkerClaim, StatusClaim
<1>2. CASE StartFails(j) \/ TasksDone(j)
  BY <1>2 DEF StartFails, TasksDone, TypeOK, ClaimInv, At, Alive
<1>3. CASE Crash(j)
  BY <1>3, DieClaimInv DEF Crash, Die
<1>s. CASE StopStatus(j)
  BY <1>s, DieClaimInv DEF StopStatus
<1>4. CASE Receive(j)
  <2> DEFINE m == Head(chan[j])
  <2>1. m \in Message
    BY <1>4 DEF Receive, TypeOK
  <2>2. m.c \in Campaigns /\ m.status # "Pending"
    BY <2>1 DEF Message
  <2>3. mem[j][m.c] \in Row
    BY <2>2 DEF TypeOK
  <2>4. mem'[j][m.c].status = m.status
    BY <1>4, <2>2, <2>3 DEF Receive, TypeOK, Row
  <2>5. \A i \in Jobs, c \in Campaigns :
          ~(i = j /\ c = m.c) => mem'[i][c] = mem[i][c]
    BY <1>4, <2>2 DEF Receive, TypeOK
  <2>6. \A i \in Jobs, c \in Campaigns :
          mem[i][c].status # "Pending" => mem'[i][c].status # "Pending"
    BY <2>2, <2>4, <2>5
  <2>7. sg'[j].pc = "copy" /\ sg'[j].c = m.c /\ \A i \in Jobs : i # j => sg'[i] = sg[i]
    BY <1>4 DEF Receive, TypeOK
  <2>8. UNCHANGED <<db, job, work>> /\ Alive(j)
    BY <1>4 DEF Receive
  <2>9. StatusClaim(j)'
    BY <2>2, <2>4, <2>7, <2>8 DEF StatusClaim, Alive
  <2>10. QED
    BY <2>6, <2>7, <2>8, <2>9, ClaimFrame DEF ClaimInv, WorkerClaim, StatusClaim
<1>5. CASE CopyRow(j)
  <2>1. UNCHANGED <<db, job, mem, work>> /\ Alive(j) /\ sg[j].pc = "copy"
    BY <1>5 DEF CopyRow
  <2>2. /\ sg'[j].pc = "write" /\ sg'[j].snap = mem[j][sg[j].c]
        /\ \A i \in Jobs : i # j => sg'[i] = sg[i]
    BY <1>5 DEF CopyRow, TypeOK
  <2>3. StatusClaim(j)'
    BY <2>1, <2>2 DEF StatusClaim, ClaimInv, Alive
  <2>4. QED
    BY <2>1, <2>2, <2>3, ClaimFrame DEF ClaimInv, WorkerClaim, StatusClaim
<1>6. CASE WriteStatus(j)
  <2>1. UNCHANGED <<job, mem, work>> /\ Alive(j) /\ sg[j].pc = "write"
    BY <1>6 DEF WriteStatus
  <2>2. sg'[j].pc = "select" /\ \A i \in Jobs : i # j => sg'[i] = sg[i]
    BY <1>6 DEF WriteStatus, TypeOK, IdleStatus
  <2>3. sg[j].snap.status # "Pending"
    BY <2>1 DEF ClaimInv
  <2>4. \A c \in Campaigns : db[c].status # "Pending" => db'[c].status # "Pending"
    BY <1>6, <2>3 DEF WriteStatus, TypeOK
  <2>5. StatusClaim(j)'
    BY <2>2 DEF StatusClaim
  <2>6. QED
    BY <2>1, <2>2, <2>4, <2>5, ClaimFrame DEF ClaimInv, WorkerClaim, StatusClaim
<1>7. QED
  BY <1>1, <1>2, <1>3, <1>s, <1>4, <1>5, <1>6 DEF StatusStep, StartFails, TasksDone

\* A worker that moves without writing anything: it keeps the claim it had.
LEMMA ClaimGoto ==
  ASSUME TypeOK, ClaimInv, NEW j \in Jobs, NEW c \in Campaigns, NEW v,
         SetWorker(j, c, v), UNCHANGED <<db, job, mem, sg>>,
         v.pc \notin WritePC,
         v.pc \in AfterClaim => At(j, c, AfterClaim)
  PROVE  /\ ClaimInv'
         /\ \A d \in Campaigns : db[d].status # "Pending" => db'[d].status # "Pending"
<1>1. v.pc \in AfterClaim \cup {"writeRunning"} =>
        mem[j][c].status # "Pending" /\ db[c].status # "Pending"
  BY DEF ClaimInv, At, WritePC
<1>2. QED
  BY <1>1, ClaimWorkerStep DEF WritePC

\* Launching a worker and every step of a worker preserve ClaimInv and never
\* bring a row back to Pending.
LEMMA WorkerClaimInv ==
  ASSUME TypeOK, ClaimInv, NEW j \in Jobs, NEW c \in Campaigns,
         Launch(j, c) \/ WorkerStep(j, c)
  PROVE  /\ ClaimInv'
         /\ \A d \in Campaigns : db[d].status # "Pending" => db'[d].status # "Pending"
<1> DEFINE w == work[j][c]
           old == mem[j][c]
<1>w. w \in Worker
  BY DEF TypeOK
<1>m. old \in Row
  BY DEF TypeOK
<1>1. CASE Launch(j, c) \/ Resolve(j, c) \/ DownloadFails(j, c)
  <2>1. PICK pc \in {"resolve", "search", "reportFailed"} :
          SetWorker(j, c, [w EXCEPT !.pc = pc])
    BY <1>1 DEF Launch, Resolve, DownloadFails, Goto
  <2>2. [w EXCEPT !.pc = pc].pc = pc
    BY <1>w DEF Worker
  <2>3. UNCHANGED <<db, job, mem, sg>>
    BY <1>1 DEF Launch, Resolve, DownloadFails
  <2>4. QED
    BY <2>1, <2>2, <2>3, ClaimGoto DEF WritePC, AfterClaim, SendPC
<1>2. CASE DownloadPage(j, c)
  <2>1. PICK k \in 0..PageLimit :
          SetWorker(j, c, [w EXCEPT !.n = w.n + k,
            !.pc = IF k = PageLimit THEN "scroll" ELSE "setRunning"])
    BY <1>2 DEF DownloadPage
  <2> DEFINE v == [w EXCEPT !.n = w.n + k,
                     !.pc = IF k = PageLimit THEN "scroll" ELSE "setRunning"]
  <2>2. v.pc \in {"scroll", "setRunning"}
    BY <1>w DEF Worker
  <2>3. UNCHANGED <<db, job, mem, sg>>
    BY <1>2 DEF DownloadPage
  <2> HIDE DEF v
  <2>4. SetWorker(j, c, v)
    BY <2>1 DEF v
  <2>5. QED
    BY <2>2, <2>3, <2>4, ClaimGoto DEF WritePC, AfterClaim, SendPC
<1>3. CASE SearchPanics(j, c) \/ GroupPanics(j, c)
  BY <1>3, DieClaimInv DEF SearchPanics, GroupPanics, Die
<1>4. CASE SetRunning(j, c)
  <2> DEFINE v == [w EXCEPT !.snap = RunningRow(j, c), !.pc = "writeRunning"]
  <2>1. RunningRow(j, c).status = "Running"
    BY <1>m DEF RunningRow, Row
  <2>2. v.pc = "writeRunning" /\ v.snap = RunningRow(j, c)
    BY <1>w DEF Worker
  <2>3. mem'[j][c] = RunningRow(j, c)
    BY <1>4 DEF SetRunning, TypeOK
  <2>4. \A i \in Jobs, d \in Campaigns :
          ~(i = j /\ d = c) => mem'[i][d] = mem[i][d]
    BY <1>4 DEF SetRunning, TypeOK
  <2>5. \A i \in Jobs, d \in Campaigns :
          mem[i][d].status # "Pending" => mem'[i][d].status # "Pending"
    BY <2>1, <2>3, <2>4
  <2>6. SetWorker(j, c, v) /\ UNCHANGED <<db, job, sg>>
    BY <1>4 DEF SetRunning
  <2> HIDE DEF v
  <2>7. QED
    BY <2>1, <2>2, <2>3, <2>5, <2>6, ClaimWorkerStep DEF WritePC, AfterClaim, SendPC
<1>5. CASE WriteSucceeds(j, c)
  <2> DEFINE v == [w EXCEPT !.snap = NewRow, !.pc = AfterWrite(w.pc)]
  <2>1. w.pc \in WritePC /\ w.snap.status # "Pending" /\ old.status # "Pending"
    BY <1>5 DEF WriteSucceeds, ClaimInv, At, WritePC, AfterClaim, SendPC
  <2>2. v.pc = AfterWrite(w.pc)
    BY <1>w DEF Worker
  <2>3. v.pc \notin WritePC
    BY <2>1, <2>2 DEF AfterWrite, WritePC
  <2>4. db' = [db EXCEPT ![c] = w.snap] /\ UNCHANGED <<job, mem, sg>>
    BY <1>5 DEF WriteSucceeds
  <2>5. \A d \in Campaigns : db[d].status # "Pending" => db'[d].status # "Pending"
    BY <2>1, <2>4 DEF TypeOK
  <2>6. db'[c].status # "Pending"
    BY <2>1, <2>4 DEF TypeOK
  <2>7. SetWorker(j, c, v)
    BY <1>5 DEF WriteSucceeds
  <2> HIDE DEF v
  <2>8. QED
    BY <2>1, <2>3, <2>4, <2>5, <2>6, <2>7, ClaimWorkerStep
<1>6. CASE WriteFails(j, c)
  <2> DEFINE v == [w EXCEPT !.snap = NewRow, !.pc = AfterFailedWrite(w.pc)]
  <2>1. w.pc \in WritePC /\ w.snap.status # "Pending" /\ old.status # "Pending"
    BY <1>6 DEF WriteFails, ClaimInv, At, WritePC, AfterClaim, SendPC
  <2>2. v.pc = AfterFailedWrite(w.pc)
    BY <1>w DEF Worker
  <2>3. v.pc \notin WritePC /\ (v.pc \in AfterClaim => w.pc = "writeProgress")
    BY <2>1, <2>2 DEF AfterFailedWrite, WritePC, AfterClaim, SendPC
  <2>4. db' \in {db, [db EXCEPT ![c] = w.snap]} /\ UNCHANGED <<job, mem, sg>>
    BY <1>6 DEF WriteFails
  <2>5. \A d \in Campaigns : db[d].status # "Pending" => db'[d].status # "Pending"
    BY <2>1, <2>4 DEF TypeOK
  <2>6. w.pc = "writeProgress" => db[c].status # "Pending"
    BY <1>6 DEF WriteFails, ClaimInv, At, AfterClaim, SendPC
  <2>7. SetWorker(j, c, v)
    BY <1>6 DEF WriteFails
  <2> HIDE DEF v
  <2>8. QED
    BY <2>1, <2>3, <2>4, <2>5, <2>6, <2>7, ClaimWorkerStep
<1>7. CASE \/ Group(j, c) \/ GroupsDone(j, c) \/ StartBatch(j, c) \/ NextBucket(j, c)
           \/ PostSucceeds(j, c) \/ PostFails(j, c) \/ Report(j, c)
  <2>1. PICK v : /\ SetWorker(j, c, v)
                 /\ v.pc \notin WritePC
                 /\ v.pc \in AfterClaim => At(j, c, AfterClaim)
    <3>1. CASE Group(j, c)
      BY <3>1, <1>w DEF Group, Worker, At, WritePC, AfterClaim, SendPC
    <3>2. CASE GroupsDone(j, c)
      BY <3>2, <1>w DEF GroupsDone, Worker, At, WritePC, AfterClaim, SendPC
    <3>3. CASE StartBatch(j, c)
      BY <3>3, <1>w DEF StartBatch, Sending, Worker, At, WritePC, AfterClaim, SendPC
    <3>4. CASE NextBucket(j, c)
      BY <3>4, <1>w DEF NextBucket, Sending, Worker, At, WritePC, AfterClaim, SendPC
    <3>5. CASE PostSucceeds(j, c)
      BY <3>5, <1>w DEF PostSucceeds, Worker, At, WritePC, AfterClaim, SendPC
    <3>6. CASE PostFails(j, c)
      BY <3>6, <1>w DEF PostFails, Worker, At, WritePC, AfterClaim, SendPC
    <3>7. CASE Report(j, c)
      BY <3>7, <1>w DEF Report, Goto, AfterReport, Worker, At, WritePC, AfterClaim, SendPC
    <3>8. QED
      BY <1>7, <3>1, <3>2, <3>3, <3>4, <3>5, <3>6, <3>7
  <2>2. UNCHANGED <<db, job, mem, sg>>
    BY <1>7 DEF Group, GroupsDone, StartBatch, NextBucket, PostSucceeds, PostFails, Report
  <2>3. QED
    BY <2>1, <2>2, ClaimGoto
<1>8. CASE SetProgress(j, c) \/ SetComplete(j, c)
  <2>1. PICK p, pc :
          /\ mem' = [mem EXCEPT ![j][c] = [old EXCEPT !.progress = p]]
          /\ SetWorker(j, c, [w EXCEPT !.snap = [old EXCEPT !.progress = p], !.pc = pc])
    BY <1>8 DEF SetProgress, SetComplete
  <2> DEFINE row == [old EXCEPT !.progress = p]
             v   == [w EXCEPT !.snap = row, !.pc = pc]
  <2>2. row.status = old.status
    BY <1>m DEF Row
  <2>3. At(j, c, {"post", "batch"}) /\ UNCHANGED <<db, job, sg>>
    BY <1>8 DEF SetProgress, SetComplete, At
  <2>4. old.status # "Pending" /\ db[c].status # "Pending"
    BY <2>3 DEF ClaimInv, At, AfterClaim, SendPC
  <2>5. v.snap = row
    BY <1>w DEF Worker
  <2>6. SetWorker(j, c, v) /\ mem' = [mem EXCEPT ![j][c] = row]
    BY <2>1
  <2> HIDE DEF v, row
  <2>7. \A i \in Jobs, d \in Campaigns :
          mem'[i][d] = IF i = j /\ d = c THEN row ELSE mem[i][d]
    BY <2>6 DEF TypeOK
  <2>8. QED
    BY <2>2, <2>3, <2>4, <2>5, <2>6, <2>7, ClaimWorkerStep
<1>9. QED
  BY <1>1, <1>2, <1>3, <1>4, <1>5, <1>6, <1>7, <1>8 DEF WorkerStep

\* Every step of the job preserves ClaimInv and never brings a row back to Pending.
LEMMA StepClaimInv ==
  TypeOK /\ ClaimInv /\ [Next]_vars =>
    /\ ClaimInv'
    /\ \A c \in Campaigns : db[c].status # "Pending" => db'[c].status # "Pending"
<1>1. TypeOK /\ ClaimInv /\ Next =>
        /\ ClaimInv'
        /\ \A c \in Campaigns : db[c].status # "Pending" => db'[c].status # "Pending"
  BY ProcessClaimInv, WorkerClaimInv DEF Next
<1>2. TypeOK /\ ClaimInv /\ UNCHANGED vars =>
        /\ ClaimInv'
        /\ \A c \in Campaigns : db[c].status # "Pending" => db'[c].status # "Pending"
  BY DEF ClaimInv, At, Alive, vars
<1>3. QED
  BY <1>1, <1>2

\* Posting is the only step that reaches a recipient, or skips one.
LEMMA OnlyPostsDeliver ==
  [Next]_vars =>
    \/ UNCHANGED <<delivered, missed>>
    \/ \E j \in Jobs, c \in Campaigns : PostSucceeds(j, c) \/ PostFails(j, c)
<1>1. ASSUME NEW j \in Jobs,
             \/ StartJob(j) \/ StartFails(j) \/ TasksDone(j) \/ Crash(j)
             \/ StatusStep(j)
      PROVE  UNCHANGED <<delivered, missed>>
  BY <1>1 DEF StartJob, StartFails, TasksDone, Crash, Die, StatusStep, Receive,
              CopyRow, WriteStatus, StopStatus
<1>2. ASSUME NEW j \in Jobs, NEW c \in Campaigns, Launch(j, c) \/ WorkerStep(j, c)
      PROVE  UNCHANGED <<delivered, missed>> \/ PostSucceeds(j, c) \/ PostFails(j, c)
  BY <1>2 DEF WorkerStep, Launch, Resolve, DownloadPage, DownloadFails, SearchPanics,
              GroupPanics, Die, SetRunning, WriteSucceeds, WriteFails, Group, GroupsDone,
              StartBatch, NextBucket, SetProgress, SetComplete, Report
<1>3. UNCHANGED vars => UNCHANGED <<delivered, missed>>
  BY DEF vars
<1>4. QED
  BY <1>1, <1>2, <1>3 DEF Next

\* A message is only posted for a campaign that is claimed in the database.
LEMMA StepPendingMeansUnsent ==
  TypeOK /\ ClaimInv /\ PendingMeansUnsent /\ [Next]_vars => PendingMeansUnsent'
<1> SUFFICES ASSUME TypeOK, ClaimInv, PendingMeansUnsent, [Next]_vars
             PROVE  PendingMeansUnsent'
  OBVIOUS
<1>1. \A c \in Campaigns : db[c].status # "Pending" => db'[c].status # "Pending"
  BY StepClaimInv
<1>2. CASE UNCHANGED delivered
  BY <1>1, <1>2 DEF PendingMeansUnsent
<1>3. ASSUME NEW j \in Jobs, NEW c \in Campaigns, PostSucceeds(j, c) \/ PostFails(j, c)
      PROVE  PendingMeansUnsent'
  <2>1. db[c].status # "Pending"
    BY <1>3 DEF PostSucceeds, PostFails, ClaimInv, At, AfterClaim, SendPC
  <2>2. \A d \in Campaigns : d # c => delivered'[d] = delivered[d]
    BY <1>3 DEF PostSucceeds, PostFails, TypeOK
  <2>3. QED
    BY <1>1, <2>1, <2>2 DEF PendingMeansUnsent
<1>4. UNCHANGED delivered
        \/ \E j \in Jobs, c \in Campaigns : PostSucceeds(j, c) \/ PostFails(j, c)
  BY OnlyPostsDeliver
<1>5. QED
  BY <1>2, <1>3, <1>4

\* Whatever may still write a row writes a claimed status, and a worker that may
\* send is one whose campaign has durably left Pending.
THEOREM ClaimInvariant == Spec => []ClaimInv
<1>1. QED
  BY InitClaimInv, StepClaimInv, TypeCorrect, PTL DEF Spec

\* Whatever processes overlap, crash or fail, no campaign whose row says Pending
\* has sent anything.
THEOREM PendingUnsent == Spec => []PendingMeansUnsent
<1>1. QED
  BY InitClaimInv, StepPendingMeansUnsent, ClaimInvariant, TypeCorrect, PTL DEF Spec

\* No write brings a row back to Pending.
THEOREM PendingIsLeftForGood == Spec => NeverPendingAgain
<1>1. TypeOK /\ ClaimInv /\ [Next]_vars =>
        [\A c \in Campaigns :
           db[c].status # "Pending" => db'[c].status # "Pending"]_vars
  BY StepClaimInv
<1>2. QED
  BY <1>1, ClaimInvariant, TypeCorrect, PTL DEF Spec, NeverPendingAgain

-----------------------------------------------------------------------------
(* How far a step of a worker may take it.                                 *)

\* Places of a worker before its first message.
Unsent == BeforeClaim \cup {"group"}

\* A worker that becomes v out of w keeps its buckets in order, does not go back
\* to where nothing was sent, and moves its cursor forward only.
Advances(w, v) ==
  /\ Layout(v)
  /\ v.pc \in Unsent => w.pc \in Unsent
  /\ v.pc \in SendPC => w.pc = "group" \/ (w.pc \in SendPC /\ w.at <= v.at)

\* A worker that moves to another place, with the same buckets and cursor.
LEMMA MoveAdvances ==
  ASSUME NEW w \in Worker, Layout(w), NEW v \in Worker,
         v.n \in Nat, v.n <= MaxSegment,
         v.pos = w.pos, v.buckets = w.buckets, v.b = w.b, v.at = w.at, v.stop = w.stop,
         v.pc \in Unsent => w.pc \in Unsent,
         v.pc \in SendPC => w.pc \in SendPC,
         v.pc \in {"post", "reportSend"} => w.pc \in {"post", "reportSend"}
  PROVE  Advances(w, v)
<1>1. w.at \in Nat
  BY WorkerFields
<1>2. QED
  BY <1>1 DEF Advances, Layout

\* The new bucket of the grouping loop starts where the one before it ended or later.
LEMMA GroupAdvances ==
  ASSUME NEW w \in Worker, Layout(w), w.pc = "group",
         NEW count \in Nat, NEW bucket \in Bucket, NEW pc \in {"group", "reportFailed"},
         bucket = [lo |-> w.pos, hi |-> BucketEnd(w.n, w.pos, count)],
         w.pos <= bucket.hi
  PROVE  Advances(w, [w EXCEPT !.buckets = Append(w.buckets, bucket),
                               !.pos = NextPos(w.pos, count), !.pc = pc])
<1> DEFINE bs == Append(w.buckets, bucket)
           v == [w EXCEPT !.buckets = bs, !.pos = NextPos(w.pos, count), !.pc = pc]
<1>1. /\ v.n = w.n /\ v.buckets = bs /\ v.pos = NextPos(w.pos, count) /\ v.pc = pc
  BY DEF Worker
<1>2. /\ w.n \in Nat /\ w.pos \in Nat /\ w.buckets \in Seq(Bucket)
      /\ bucket.lo = w.pos /\ bucket.hi \in Nat /\ w.n <= MaxSegment
  BY WorkerFields DEF Bucket, Layout
<1>3. /\ bucket.hi <= NextPos(w.pos, count) /\ w.pos <= NextPos(w.pos, count)
      /\ bucket.hi <= MaxSegment
  <2>1. bucket.hi = BucketEnd(w.n, w.pos, count)
    OBVIOUS
  <2>2. QED
    BY <1>2, <2>1, BoundsAssumption DEF BucketEnd, NextPos
<1>4. /\ Len(bs) = Len(w.buckets) + 1
      /\ \A k \in 1..Len(w.buckets) : bs[k] = w.buckets[k]
      /\ bs[Len(w.buckets) + 1] = bucket
  BY <1>2
<1>5. NextPos(w.pos, count) \in Nat
  BY <1>2 DEF NextPos
<1> DEFINE np == NextPos(w.pos, count)
<1>6. ASSUME NEW k \in 1..Len(bs)
      PROVE  /\ bs[k].lo <= bs[k].hi
             /\ bs[k].hi <= MaxSegment
             /\ bs[k].hi <= np
             /\ k > 1 => bs[k - 1].hi <= bs[k].lo
  <2>1. CASE k = Len(w.buckets) + 1
    <3>1. bs[k] = bucket
      BY <1>4, <2>1
    <3>2. k > 1 => bs[k - 1] = w.buckets[k - 1] /\ w.buckets[k - 1].hi <= w.pos
      <4>1. k > 1 => k - 1 \in 1..Len(w.buckets)
        BY <1>2, <2>1
      <4>2. QED
        BY <1>4, <4>1 DEF Layout
    <3> HIDE DEF bs, np
    <3>3. bs[k].lo <= bs[k].hi /\ bs[k].hi <= MaxSegment /\ bs[k].hi <= np
      BY <1>2, <1>3, <3>1 DEF np
    <3>4. k > 1 => bs[k - 1].hi <= bs[k].lo
      BY <1>2, <3>1, <3>2
    <3>5. QED
      BY <3>3, <3>4
  <2>2. CASE k # Len(w.buckets) + 1
    <3>1. k \in 1..Len(w.buckets)
      BY <1>2, <1>4, <2>2
    <3>2. k > 1 => k - 1 \in 1..Len(w.buckets)
      BY <1>2, <3>1
    <3>3. bs[k] = w.buckets[k] /\ (k > 1 => bs[k - 1] = w.buckets[k - 1])
      BY <1>4, <3>1, <3>2
    <3>4. w.buckets[k].hi \in Nat
      <4>1. w.buckets[k] \in Bucket
        BY <1>2, <3>1
      <4>2. QED
        BY <4>1 DEF Bucket
    <3>5. /\ w.buckets[k].lo <= w.buckets[k].hi
          /\ w.buckets[k].hi <= MaxSegment
          /\ w.buckets[k].hi <= w.pos
          /\ k > 1 => w.buckets[k - 1].hi <= w.buckets[k].lo
      BY <3>1 DEF Layout
    <3> HIDE DEF bs, np
    <3>6. w.buckets[k].hi <= np
      <4> DEFINE h == w.buckets[k].hi
                 p == w.pos
      <4>1. h \in Nat /\ p \in Nat /\ np \in Nat /\ h <= p /\ p <= np
        BY <1>2, <1>3, <1>5, <3>4, <3>5 DEF np
      <4> HIDE DEF h, p
      <4>2. h <= np
        BY <4>1
      <4>3. QED
        BY <4>2 DEF h
    <3>7. QED
      BY <3>3, <3>5, <3>6
  <2>3. QED
    BY <2>1, <2>2
<1>7. pc \notin SendPC /\ pc \notin {"post", "reportSend"} /\ w.pc \in Unsent
  BY DEF SendPC, Unsent
<1> HIDE DEF v, bs, np
<1>8. Layout(v)
  BY <1>1, <1>2, <1>6, <1>7 DEF Layout, np
<1>9. QED
  BY <1>1, <1>7, <1>8 DEF Advances, v, bs

\* The first bucket is entered at its start.
LEMMA GroupsDoneAdvances ==
  ASSUME NEW w \in Worker, Layout(w), w.pc = "group", Len(w.buckets) >= 1,
         NEW v \in Worker, v.pc = "batch", v.b = 1, v.at = w.buckets[1].lo,
         v.n = w.n, v.pos = w.pos, v.buckets = w.buckets
  PROVE  Advances(w, v)
<1>1. 1 \in 1..Len(w.buckets)
  BY WorkerFields
<1>2. w.buckets[1].lo <= w.buckets[1].hi
  BY <1>1 DEF Layout
<1>3. "batch" \in SendPC /\ "batch" \notin Unsent
  BY DEF SendPC, Unsent, BeforeClaim
<1>4. QED
  BY <1>2, <1>3 DEF Advances, Layout

\* A batch ends inside the current bucket.
LEMMA StartBatchAdvances ==
  ASSUME NEW w \in Worker, Layout(w), w.pc = "batch", w.b <= Len(w.buckets),
         w.at < w.buckets[w.b].hi,
         NEW v \in Worker, v.pc = "post", v.b = w.b, v.at = w.at,
         v.stop = (IF w.at + BatchSize <= w.buckets[w.b].hi
                   THEN w.at + BatchSize ELSE w.buckets[w.b].hi),
         v.n = w.n, v.pos = w.pos, v.buckets = w.buckets
  PROVE  Advances(w, v)
<1> DEFINE hi == w.buckets[w.b].hi
<1>1. hi \in Nat
  <2>1. w.buckets[w.b] \in Bucket
    BY WorkerFields
  <2>2. QED
    BY <2>1 DEF Bucket
<1>2. w.at \in Nat
  BY WorkerFields
<1> HIDE DEF hi
<1>3. /\ w.at <= v.stop /\ v.stop <= hi /\ w.at <= hi /\ w.at <= w.at
      /\ v.stop <= w.at + BatchSize
  BY <1>1, <1>2, BoundsAssumption DEF hi
<1>4. "batch" \in SendPC /\ "post" \notin Unsent
  BY DEF SendPC, Unsent, BeforeClaim
<1>5. QED
  BY <1>3, <1>4 DEF Advances, Layout, hi

\* The next bucket starts at the end of this one or later.
LEMMA NextBucketAdvances ==
  ASSUME NEW w \in Worker, Layout(w), w.pc = "batch", w.b <= Len(w.buckets),
         w.at >= w.buckets[w.b].hi,
         NEW v \in Worker, v.pc = "batch", v.b = w.b + 1,
         v.at = (IF w.b < Len(w.buckets) THEN w.buckets[w.b + 1].lo ELSE w.at),
         v.n = w.n, v.pos = w.pos, v.buckets = w.buckets
  PROVE  Advances(w, v)
<1>1. w.at \in Nat /\ w.b \in Nat \ {0} /\ w.buckets \in Seq(Bucket)
  BY WorkerFields
<1>2. "batch" \in SendPC /\ "batch" \notin Unsent
  BY DEF SendPC, Unsent, BeforeClaim
<1>3. CASE w.b < Len(w.buckets)
  <2> DEFINE hi == w.buckets[w.b].hi
             lo == w.buckets[w.b + 1].lo
  <2>1. w.b \in 1..Len(w.buckets) /\ w.b + 1 \in 1..Len(w.buckets) /\ w.b + 1 > 1
    BY <1>1, <1>3
  <2>2. hi \in Nat /\ lo \in Nat
    <3>1. w.buckets[w.b] \in Bucket /\ w.buckets[w.b + 1] \in Bucket
      BY <1>1, <2>1
    <3>2. QED
      BY <3>1 DEF Bucket
  <2>3. hi <= lo /\ lo <= w.buckets[w.b + 1].hi
    <3>1. w.buckets[(w.b + 1) - 1].hi <= lo /\ lo <= w.buckets[w.b + 1].hi
      BY <2>1 DEF Layout
    <3>2. (w.b + 1) - 1 = w.b
      BY <1>1
    <3>3. QED
      BY <3>1, <3>2
  <2>4. w.at <= hi
    BY <1>2 DEF Layout
  <2>5. v.at = lo
    BY <1>3
  <2> HIDE DEF hi, lo
  <2>6. w.at <= v.at
    BY <1>1, <2>2, <2>3, <2>4, <2>5
  <2>7. v.at <= w.buckets[w.b + 1].hi
    BY <2>3, <2>5
  <2>8. QED
    BY <1>2, <2>6, <2>7 DEF Advances, Layout
<1>4. CASE ~(w.b < Len(w.buckets))
  <2>1. v.at = w.at /\ w.at <= v.at /\ ~(v.b <= Len(w.buckets))
    BY <1>1, <1>4
  <2>2. QED
    BY <1>2, <2>1 DEF Advances, Layout
<1>5. QED
  BY <1>3, <1>4

\* A post moves the cursor inside the batch.
LEMMA PostAdvances ==
  ASSUME NEW w \in Worker, Layout(w), w.pc = "post",
         NEW v \in Worker, v.pc \in {"post", "reportSend"},
         w.at <= v.at, v.at <= w.stop, v.stop = w.stop, v.b = w.b,
         v.n = w.n, v.pos = w.pos, v.buckets = w.buckets
  PROVE  Advances(w, v)
<1>1. w.b <= Len(w.buckets) /\ w.stop <= w.buckets[w.b].hi /\ w.stop <= w.at + BatchSize
  BY DEF Layout
<1>2. w.buckets[w.b].hi \in Nat
  <2>1. w.buckets[w.b] \in Bucket
    BY <1>1, WorkerFields
  <2>2. QED
    BY <2>1 DEF Bucket
<1> DEFINE hi == w.buckets[w.b].hi
<1>3. v.at \in Nat /\ w.at \in Nat /\ w.stop \in Nat
  BY WorkerFields
<1> HIDE DEF hi
<1>r. v.stop <= v.at + BatchSize
  BY <1>1, <1>3, BoundsAssumption
<1>4. v.at <= hi
  BY <1>1, <1>2, <1>3 DEF hi
<1>5. "post" \in SendPC /\ "post" \notin Unsent /\ "reportSend" \notin Unsent
  BY DEF SendPC, Unsent, BeforeClaim
<1>6. QED
  BY <1>1, <1>4, <1>r, <1>5 DEF Advances, Layout, hi
-----------------------------------------------------------------------------
(* Every step of a worker advances it.                                     *)

\* Launching a worker and every step of a worker either end its process or take
\* it to a worker it advances to.
LEMMA WorkerAdvances ==
  ASSUME TypeOK, LayoutInv, NEW j \in Jobs, NEW c \in Campaigns,
         Launch(j, c) \/ WorkerStep(j, c)
  PROVE  \/ Die(j)
         \/ /\ job[j] = "running"
            /\ UNCHANGED job
            /\ \E v : SetWorker(j, c, v) /\ Advances(work[j][c], v)
<1> DEFINE w == work[j][c]
<1>w. /\ w \in Worker /\ Layout(w)
      /\ w.pc \in WorkerPC
      /\ w.n \in Nat /\ w.pos \in Nat /\ w.at \in Nat
      /\ w.stop \in Nat /\ w.count \in Nat
      /\ w.b \in Nat \ {0}
      /\ w.buckets \in Seq(Bucket)
      /\ w.snap \in Row
  BY WorkerFields DEF TypeOK, LayoutInv
<1>n. w.n <= MaxSegment
  BY <1>w DEF Layout
<1>m. mem[j][c] \in Row
  BY DEF TypeOK
<1>goto. ASSUME NEW pc \in WorkerPC,
                pc \in Unsent => w.pc \in Unsent,
                pc \in SendPC => w.pc \in SendPC,
                pc \in {"post", "reportSend"} => w.pc \in {"post", "reportSend"}
         PROVE  Advances(w, [w EXCEPT !.pc = pc])
  <2> DEFINE v == [w EXCEPT !.pc = pc]
  <2>1. v \in Worker /\ v.pc = pc /\ v.n = w.n /\ v.pos = w.pos /\ v.buckets = w.buckets
        /\ v.b = w.b /\ v.at = w.at /\ v.stop = w.stop
    BY <1>w DEF Worker
  <2> HIDE DEF v, w
  <2>2. QED
    BY <1>w, <1>n, <1>goto, <2>1, MoveAdvances DEF v
<1>snap. ASSUME NEW pc \in WorkerPC, NEW row \in Row,
                pc \in Unsent => w.pc \in Unsent,
                pc \in SendPC => w.pc \in SendPC,
                pc \notin {"post", "reportSend"}
         PROVE  Advances(w, [w EXCEPT !.snap = row, !.pc = pc])
  <2> DEFINE v == [w EXCEPT !.snap = row, !.pc = pc]
  <2>1. v \in Worker /\ v.pc = pc /\ v.n = w.n /\ v.pos = w.pos /\ v.buckets = w.buckets
        /\ v.b = w.b /\ v.at = w.at /\ v.stop = w.stop
    BY <1>w DEF Worker
  <2> HIDE DEF v, w
  <2>2. QED
    BY <1>w, <1>n, <1>snap, <2>1, MoveAdvances DEF v
<1> USE DEF Unsent, BeforeClaim, SendPC
<1>1. CASE Launch(j, c) \/ Resolve(j, c) \/ DownloadFails(j, c)
  <2>1. PICK pc \in {"resolve", "search", "reportFailed"} :
          SetWorker(j, c, [w EXCEPT !.pc = pc])
    BY <1>1 DEF Launch, Resolve, DownloadFails, Goto
  <2>2. At(j, c, {"queued", "resolve", "search", "scroll"}) /\ UNCHANGED job
    BY <1>1 DEF Launch, Resolve, DownloadFails, At
  <2>3. pc \in WorkerPC
    BY DEF WorkerPC
  <2>4. Advances(w, [w EXCEPT !.pc = pc])
    BY <1>goto, <2>2, <2>3 DEF At
  <2>5. QED
    BY <1>w, <2>1, <2>2, <2>4 DEF At
<1>2. CASE DownloadPage(j, c)
  <2>1. PICK k \in 0..PageLimit :
          /\ w.n + k <= MaxSegment
          /\ SetWorker(j, c, [w EXCEPT !.n = w.n + k,
               !.pc = IF k = PageLimit THEN "scroll" ELSE "setRunning"])
    BY <1>2 DEF DownloadPage
  <2> DEFINE pc == IF k = PageLimit THEN "scroll" ELSE "setRunning"
             n  == w.n + k
             v  == [w EXCEPT !.n = n, !.pc = pc]
  <2>2. n \in Nat
    <3>1. k \in Nat
      BY BoundsAssumption
    <3> HIDE DEF w
    <3>2. QED
      BY <3>1, <1>w
  <2>3. pc \in WorkerPC /\ pc \in {"scroll", "setRunning"}
    BY DEF WorkerPC
  <2> HIDE DEF pc
  <2>4. v \in Worker /\ v.pc = pc /\ v.n = n /\ v.pos = w.pos /\ v.buckets = w.buckets
        /\ v.b = w.b /\ v.at = w.at /\ v.stop = w.stop
    <3> HIDE DEF n
    <3>1. QED
      BY <1>w, <2>2, <2>3 DEF Worker
  <2>5. At(j, c, {"search", "scroll"}) /\ UNCHANGED job
    BY <1>2 DEF DownloadPage
  <2>6. n <= MaxSegment
    BY <2>1
  <2>7. SetWorker(j, c, v)
    BY <2>1 DEF pc
  <2> HIDE DEF v, n
  <2>8. Advances(w, v)
    BY <1>w, <2>2, <2>3, <2>4, <2>5, <2>6, MoveAdvances DEF At
  <2>9. QED
    BY <1>w, <2>5, <2>7, <2>8 DEF At
<1>3. CASE SearchPanics(j, c) \/ GroupPanics(j, c)
  BY <1>3 DEF SearchPanics, GroupPanics
<1>4. CASE SetRunning(j, c)
  <2>1. RunningRow(j, c) \in Row /\ "writeRunning" \in WorkerPC
    BY <1>w, <1>m, RowTyped DEF RunningRow, Statuses, WorkerPC
  <2>2. /\ At(j, c, {"setRunning"}) /\ UNCHANGED job
        /\ SetWorker(j, c, [w EXCEPT !.snap = RunningRow(j, c), !.pc = "writeRunning"])
    BY <1>4 DEF SetRunning
  <2>3. Advances(w, [w EXCEPT !.snap = RunningRow(j, c), !.pc = "writeRunning"])
    BY <1>snap, <2>1, <2>2 DEF At
  <2>4. QED
    BY <1>w, <2>2, <2>3 DEF At
<1>5. CASE WriteSucceeds(j, c)
  <2>1. /\ At(j, c, WritePC) /\ UNCHANGED job
        /\ SetWorker(j, c, [w EXCEPT !.snap = NewRow, !.pc = AfterWrite(w.pc)])
    BY <1>5 DEF WriteSucceeds
  <2> DEFINE pc == AfterWrite(w.pc)
  <2>2. /\ pc \in WorkerPC /\ pc \notin {"post", "reportSend"}
        /\ pc \in Unsent => w.pc \in Unsent
        /\ pc \in SendPC => w.pc \in SendPC
    BY <2>1 DEF AfterWrite, WorkerPC, At, WritePC
  <2> HIDE DEF pc
  <2>3. Advances(w, [w EXCEPT !.snap = NewRow, !.pc = pc])
    BY <1>snap, <2>2, IdleTyped
  <2>4. QED
    BY <1>w, <2>1, <2>3 DEF At, pc
<1>6. CASE WriteFails(j, c)
  <2>1. /\ At(j, c, WritePC) /\ UNCHANGED job
        /\ SetWorker(j, c, [w EXCEPT !.snap = NewRow, !.pc = AfterFailedWrite(w.pc)])
    BY <1>6 DEF WriteFails
  <2> DEFINE pc == AfterFailedWrite(w.pc)
  <2>2. /\ pc \in WorkerPC /\ pc \notin {"post", "reportSend"}
        /\ pc \in Unsent => w.pc \in Unsent
        /\ pc \in SendPC => w.pc \in SendPC
    BY <2>1 DEF AfterFailedWrite, WorkerPC, At, WritePC
  <2> HIDE DEF pc
  <2>3. Advances(w, [w EXCEPT !.snap = NewRow, !.pc = pc])
    BY <1>snap, <2>2, IdleTyped
  <2>4. QED
    BY <1>w, <2>1, <2>3 DEF At, pc
<1>7. CASE Group(j, c)
  <2> DEFINE count == BucketCount(w.n, RatioOf(c, Len(w.buckets) + 1))
             bucket == [lo |-> w.pos, hi |-> BucketEnd(w.n, w.pos, count)]
  <2>1. count \in Nat
    BY <1>w, BucketCountNat, RatioNat
  <2>2. bucket \in Bucket
    <3> HIDE DEF count, w
    <3>1. BucketEnd(w.n, w.pos, count) \in Nat
      BY <1>w, <2>1 DEF BucketEnd
    <3>2. QED
      BY <1>w, <3>1 DEF Bucket
  <2>3. PICK pc \in {"group", "reportFailed"} :
          SetWorker(j, c, [w EXCEPT !.buckets = Append(w.buckets, bucket),
                             !.pos = NextPos(w.pos, count), !.pc = pc])
    BY <1>7 DEF Group
  <2>4. w.pc = "group" /\ w.pos <= bucket.hi /\ At(j, c, {"group"}) /\ UNCHANGED job
    BY <1>7 DEF Group, At
  <2> HIDE DEF count
  <2>5. bucket = [lo |-> w.pos, hi |-> BucketEnd(w.n, w.pos, count)]
    OBVIOUS
  <2> HIDE DEF bucket
  <2>6. Advances(w, [w EXCEPT !.buckets = Append(w.buckets, bucket),
                              !.pos = NextPos(w.pos, count), !.pc = pc])
    <3> HIDE DEF w
    <3>1. QED
      BY <1>w, <2>1, <2>2, <2>4, <2>5, GroupAdvances
  <2>7. QED
    BY <1>w, <2>3, <2>4, <2>6 DEF At
<1>8. CASE GroupsDone(j, c)
  <2> DEFINE lo == w.buckets[1].lo
             v  == [w EXCEPT !.b = 1, !.at = lo, !.count = 0, !.pc = "batch"]
  <2>1. At(j, c, {"group"}) /\ w.pc = "group" /\ UNCHANGED job /\ SetWorker(j, c, v)
    BY <1>8 DEF GroupsDone, At
  <2>2. Len(w.buckets) >= 1
    BY <1>8, <1>w, RatiosAssumption DEF GroupsDone, MoreEmails
  <2>3. lo \in Nat
    <3>1. w.buckets[1] \in Bucket
      BY <1>w, <2>2
    <3>2. QED
      BY <3>1 DEF Bucket
  <2>4. v \in Worker
    <3>1. "batch" \in WorkerPC /\ 1 \in Nat \ {0} /\ 0 \in Nat
      BY DEF WorkerPC
    <3> HIDE DEF lo, w
    <3>2. QED
      BY <1>w, <2>3, <3>1, WorkerUpdates
  <2>5. v.pc = "batch" /\ v.b = 1 /\ v.at = lo /\ v.n = w.n /\ v.pos = w.pos
        /\ v.buckets = w.buckets
    <3> HIDE DEF lo
    <3>1. QED
      BY <1>w DEF Worker
  <2> HIDE DEF v
  <2>6. Advances(w, v)
    BY <1>w, <2>1, <2>2, <2>4, <2>5, GroupsDoneAdvances
  <2>7. QED
    BY <1>w, <2>1, <2>6 DEF At
<1>9. CASE StartBatch(j, c)
  <2> DEFINE hi   == w.buckets[w.b].hi
             stop == IF w.at + BatchSize <= hi THEN w.at + BatchSize ELSE hi
             cnt  == w.count + (stop - w.at)
             v    == [w EXCEPT !.stop = stop, !.count = cnt, !.pc = "post"]
  <2>1. /\ At(j, c, {"batch"}) /\ w.pc = "batch" /\ UNCHANGED job
        /\ w.b <= Len(w.buckets) /\ w.at < hi
        /\ SetWorker(j, c, v)
    BY <1>9 DEF StartBatch, Sending, At
  <2>2. hi \in Nat
    <3>1. w.buckets[w.b] \in Bucket
      BY <1>w, <2>1
    <3>2. QED
      BY <3>1 DEF Bucket
  <2>3. stop \in Nat /\ cnt \in Nat
    <3> DEFINE at == w.at
               n  == w.count
    <3>1. at \in Nat /\ n \in Nat /\ at < hi
      BY <1>w, <2>1
    <3> HIDE DEF hi, at, n, w
    <3>2. stop \in Nat /\ stop - at \in Nat
      BY <2>2, <3>1, BoundsAssumption DEF at
    <3> HIDE DEF stop
    <3>3. n + (stop - at) \in Nat
      BY <3>1, <3>2
    <3>4. QED
      BY <3>2, <3>3 DEF at, n
  <2>4. v \in Worker
    <3>1. "post" \in WorkerPC
      BY DEF WorkerPC
    <3> HIDE DEF stop, cnt, w
    <3>2. QED
      BY <1>w, <2>3, <3>1, WorkerUpdates
  <2>5. v.pc = "post" /\ v.b = w.b /\ v.at = w.at /\ v.stop = stop /\ v.n = w.n
        /\ v.pos = w.pos /\ v.buckets = w.buckets
    <3> HIDE DEF stop, cnt
    <3>1. QED
      BY <1>w DEF Worker
  <2> HIDE DEF v
  <2>6. Advances(w, v)
    BY <1>w, <2>1, <2>4, <2>5, StartBatchAdvances
  <2>7. QED
    BY <1>w, <2>1, <2>6 DEF At
<1>10. CASE NextBucket(j, c)
  <2> DEFINE at == IF w.b < Len(w.buckets) THEN w.buckets[w.b + 1].lo ELSE w.at
             v  == [w EXCEPT !.b = w.b + 1, !.at = at, !.count = 0]
  <2>1. /\ At(j, c, {"batch"}) /\ w.pc = "batch" /\ UNCHANGED job
        /\ w.b <= Len(w.buckets) /\ w.at >= w.buckets[w.b].hi
        /\ SetWorker(j, c, v)
    BY <1>10 DEF NextBucket, Sending, At
  <2>2. at \in Nat
    <3>1. CASE w.b < Len(w.buckets)
      <4>1. w.buckets[w.b + 1] \in Bucket
        BY <1>w, <3>1
      <4>2. QED
        BY <3>1, <4>1 DEF Bucket
    <3>2. CASE ~(w.b < Len(w.buckets))
      BY <1>w, <3>2
    <3>3. QED
      BY <3>1, <3>2
  <2>3. v \in Worker
    <3> DEFINE b == w.b
    <3>1. b \in Nat \ {0}
      BY <1>w
    <3> HIDE DEF at, b
    <3>2. b + 1 \in Nat \ {0} /\ 0 \in Nat
      BY <3>1
    <3>3. w.b + 1 \in Nat \ {0}
      BY <3>2 DEF b
    <3> HIDE DEF w
    <3>4. QED
      BY <1>w, <2>2, <3>2, <3>3, WorkerUpdates
  <2>4. v.pc = w.pc /\ v.b = w.b + 1 /\ v.at = at /\ v.n = w.n
        /\ v.pos = w.pos /\ v.buckets = w.buckets
    <3> HIDE DEF at
    <3>1. QED
      BY <1>w DEF Worker
  <2> HIDE DEF v
  <2>5. Advances(w, v)
    BY <1>w, <2>1, <2>3, <2>4, NextBucketAdvances
  <2>6. QED
    BY <1>w, <2>1, <2>5 DEF At
<1>11. CASE PostSucceeds(j, c)
  <2> DEFINE at == w.at + 1
             v  == [w EXCEPT !.at = at]
  <2>1. /\ At(j, c, {"post"}) /\ w.pc = "post" /\ UNCHANGED job
        /\ w.at < w.stop /\ SetWorker(j, c, v)
    BY <1>11 DEF PostSucceeds, At
  <2>2. at \in Nat /\ w.at <= at /\ at <= w.stop
    <3> HIDE DEF w
    <3>1. QED
      BY <1>w, <2>1
  <2> HIDE DEF at
  <2>3. v \in Worker /\ v.pc = w.pc /\ v.b = w.b /\ v.at = at /\ v.stop = w.stop
        /\ v.n = w.n /\ v.pos = w.pos /\ v.buckets = w.buckets
    BY <1>w, <2>2 DEF Worker
  <2> HIDE DEF v
  <2>4. Advances(w, v)
    BY <1>w, <2>1, <2>2, <2>3, PostAdvances
  <2>5. QED
    BY <1>w, <2>1, <2>4 DEF At
<1>12. CASE PostFails(j, c)
  <2> DEFINE v == [w EXCEPT !.at = w.stop, !.pc = "reportSend"]
  <2>1. /\ At(j, c, {"post"}) /\ w.pc = "post" /\ UNCHANGED job
        /\ w.at < w.stop /\ SetWorker(j, c, v)
    BY <1>12 DEF PostFails, At
  <2>2. w.at <= w.stop /\ w.stop <= w.stop
    <3> HIDE DEF w
    <3>1. QED
      BY <1>w, <2>1
  <2>3. v \in Worker /\ v.pc = "reportSend" /\ v.b = w.b /\ v.at = w.stop
        /\ v.stop = w.stop /\ v.n = w.n /\ v.pos = w.pos /\ v.buckets = w.buckets
    <3>1. "reportSend" \in WorkerPC
      BY DEF WorkerPC
    <3>2. QED
      BY <1>w, <3>1 DEF Worker
  <2> HIDE DEF v
  <2>4. Advances(w, v)
    BY <1>w, <2>1, <2>2, <2>3, PostAdvances
  <2>5. QED
    BY <1>w, <2>1, <2>4 DEF At
<1>13. CASE SetProgress(j, c) \/ SetComplete(j, c)
  <2>1. PICK row \in Row, pc \in {"writeProgress", "writeFinal"} :
          SetWorker(j, c, [w EXCEPT !.snap = row, !.pc = pc])
    <3>1. ASSUME NEW p \in Nat
          PROVE  [mem[j][c] EXCEPT !.progress = p] \in Row
      BY <1>m, RowTyped DEF Statuses
    <3>2. Progress(j, c) \in Nat
      <4>1. mem[j][c].size \in Nat
        BY <1>m DEF Row
      <4>2. \A a, b \in Nat : b > 0 => (a * 100) \div b \in Nat
        OBVIOUS
      <4>3. QED
        BY <1>w, <4>1, <4>2 DEF Progress
    <3>3. QED
      BY <1>13, <3>1, <3>2 DEF SetProgress, SetComplete
  <2>2. At(j, c, {"post", "batch"}) /\ UNCHANGED job
    BY <1>13 DEF SetProgress, SetComplete, At
  <2>3. pc \in WorkerPC
    BY DEF WorkerPC
  <2>4. Advances(w, [w EXCEPT !.snap = row, !.pc = pc])
    BY <1>snap, <2>2, <2>3 DEF At
  <2>5. QED
    BY <1>w, <2>1, <2>2, <2>4 DEF At
<1>14. CASE Report(j, c)
  <2>1. /\ At(j, c, {"reportFailed", "reportSend", "reportProgress"}) /\ UNCHANGED job
        /\ SetWorker(j, c, [w EXCEPT !.pc = AfterReport(w.pc)])
    BY <1>14 DEF Report, Goto
  <2> DEFINE pc == AfterReport(w.pc)
  <2>2. /\ pc \in WorkerPC
        /\ pc \in Unsent => w.pc \in Unsent
        /\ pc \in SendPC => w.pc \in SendPC
        /\ pc \in {"post", "reportSend"} => w.pc \in {"post", "reportSend"}
    BY <2>1 DEF AfterReport, WorkerPC, At
  <2> HIDE DEF pc
  <2>3. Advances(w, [w EXCEPT !.pc = pc])
    BY <1>goto, <2>2
  <2>4. QED
    BY <1>w, <2>1, <2>3 DEF At, pc
<1>15. QED
  BY <1>1, <1>2, <1>3, <1>4, <1>5, <1>6, <1>7, <1>8, <1>9, <1>10, <1>11, <1>12,
     <1>13, <1>14 DEF WorkerStep

-----------------------------------------------------------------------------
(* One process at a time.                                                  *)

\* What the steps of the processes themselves leave alone.
LEMMA ProcessFrame ==
  ASSUME TypeOK, NEW j \in Jobs,
         \/ StartFails(j) \/ TasksDone(j)
         \/ Receive(j) \/ CopyRow(j) \/ WriteStatus(j)
  PROVE  /\ UNCHANGED <<work, delivered>>
         /\ \A i \in Jobs : Alive(i)' => Alive(i)
         /\ \A i \in Jobs : job'[i] = "running" => job[i] = "running"
<1>1. CASE StartFails(j) \/ TasksDone(j)
  BY <1>1 DEF StartFails, TasksDone, Alive, TypeOK
<1>2. CASE Receive(j) \/ CopyRow(j) \/ WriteStatus(j)
  BY <1>2 DEF Receive, CopyRow, WriteStatus, Alive
<1>3. QED
  BY <1>1, <1>2

\* A process that dies or exits runs no worker any more.
LEMMA DieFrame ==
  ASSUME TypeOK, NEW j \in Jobs, Die(j) \/ StopStatus(j)
  PROVE  /\ UNCHANGED delivered
         /\ \A i \in Jobs : Alive(i)' => Alive(i)
         /\ \A i \in Jobs : job'[i] = "running" => job[i] = "running" /\ i # j
         /\ \A i \in Jobs : i # j => work'[i] = work[i]
         /\ \A c \in Campaigns : work'[j][c] = Idle
BY DEF Die, StopStatus, IdleProcess, Alive, TypeOK

\* Before any process runs no worker has a bucket.
LEMMA IdleLayout == Layout(Idle)
BY BoundsAssumption DEF Layout, Idle, SendPC

\* The layout holds initially and every step preserves it.
LEMMA StepLayoutInv ==
  /\ Init => LayoutInv
  /\ TypeOK /\ LayoutInv /\ [Next]_vars => LayoutInv'
<1>1. Init => LayoutInv
  BY IdleLayout DEF Init, LayoutInv
<1>2. ASSUME TypeOK, LayoutInv, NEW j \in Jobs,
             \/ StartFails(j) \/ TasksDone(j)
             \/ Receive(j) \/ CopyRow(j) \/ WriteStatus(j)
      PROVE  LayoutInv'
  <2>1. work' = work
    BY <1>2, ProcessFrame
  <2>2. \A i \in Jobs, c \in Campaigns : Layout(work'[i][c])
    BY <1>2, <2>1 DEF LayoutInv
  <2>3. QED
    BY <2>2 DEF LayoutInv, Layout
<1>3. ASSUME TypeOK, LayoutInv, NEW j \in Jobs, Die(j) \/ StopStatus(j)
      PROVE  LayoutInv'
  <2>1. \A i \in Jobs, c \in Campaigns : Layout(work'[i][c])
    BY <1>3, DieFrame, IdleLayout DEF LayoutInv
  <2>2. QED
    BY <2>1 DEF LayoutInv, Layout
<1>4. ASSUME TypeOK, LayoutInv, NEW j \in Jobs, StartJob(j)
      PROVE  LayoutInv'
  <2>1. Layout([Idle EXCEPT !.pc = "queued"])
    BY BoundsAssumption DEF Layout, Idle, SendPC
  <2>2. \A c \in Campaigns : work'[j][c] \in {Idle, [Idle EXCEPT !.pc = "queued"]}
    BY <1>4 DEF StartJob, TypeOK
  <2>3. \A i \in Jobs : i # j => work'[i] = work[i]
    BY <1>4 DEF StartJob, TypeOK
  <2>4. \A i \in Jobs, c \in Campaigns : Layout(work'[i][c])
    BY <1>4, <2>1, <2>2, <2>3, IdleLayout DEF LayoutInv
  <2>5. QED
    BY <2>4 DEF LayoutInv, Layout
<1>5. ASSUME TypeOK, LayoutInv, NEW j \in Jobs, NEW c \in Campaigns,
             Launch(j, c) \/ WorkerStep(j, c)
      PROVE  LayoutInv'
  <2>1. CASE Die(j)
    BY <1>3, <1>5, <2>1
  <2>2. ASSUME NEW v, SetWorker(j, c, v), Advances(work[j][c], v)
        PROVE  LayoutInv'
    <3>1. \A i \in Jobs, d \in Campaigns :
            work'[i][d] = IF i = j /\ d = c THEN v ELSE work[i][d]
      BY <1>5, <2>2 DEF SetWorker, TypeOK
    <3>2. \A i \in Jobs, d \in Campaigns : Layout(work'[i][d])
      BY <1>5, <2>2, <3>1 DEF LayoutInv, Advances
    <3>3. QED
      BY <3>2 DEF LayoutInv, Layout
  <2>3. QED
    BY <1>5, <2>1, <2>2, WorkerAdvances
<1>6. TypeOK /\ LayoutInv /\ UNCHANGED vars => LayoutInv'
  BY DEF LayoutInv, Layout, vars
<1>7. QED
  BY <1>1, <1>2, <1>3, <1>4, <1>5, <1>6 DEF Next, Crash, StatusStep

\* A post reaches at most the recipient at the cursor of its worker, and moves
\* the cursor past it.
LEMMA PostReaches ==
  ASSUME TypeOK, LayoutInv, NEW j \in Jobs, NEW c \in Campaigns,
         PostSucceeds(j, c) \/ PostFails(j, c)
  PROVE  /\ At(j, c, {"post"})
         /\ work[j][c].at \in Recipients
         /\ delivered' \in {delivered, [delivered EXCEPT ![c][work[j][c].at] = @ + 1]}
         /\ UNCHANGED <<db, job>>
         /\ work[j][c].at < work'[j][c].at
         /\ work'[j][c].pc \in SendPC
         /\ \A i \in Jobs, d \in Campaigns : ~(i = j /\ d = c) => work'[i][d] = work[i][d]
<1> DEFINE w == work[j][c]
<1>w. w \in Worker /\ Layout(w) /\ w.at \in Nat /\ w.stop \in Nat /\ w.pc = "post"
  BY WorkerFields DEF TypeOK, LayoutInv, PostSucceeds, PostFails, At
<1>1. /\ At(j, c, {"post"}) /\ UNCHANGED <<db, job>> /\ w.at < w.stop
      /\ delivered' \in {delivered, [delivered EXCEPT ![c][w.at] = @ + 1]}
  BY DEF PostSucceeds, PostFails
<1>2. w.at \in Recipients
  <2>1. w.b <= Len(w.buckets) /\ w.stop <= w.buckets[w.b].hi
    BY <1>w DEF Layout
  <2>2. w.b \in 1..Len(w.buckets)
    BY <1>w, <2>1, WorkerFields
  <2>3. w.buckets[w.b].hi <= MaxSegment
    BY <1>w, <2>2 DEF Layout
  <2>4. w.buckets[w.b].hi \in Nat
    <3>1. w.buckets[w.b] \in Bucket
      BY <1>w, <2>2, WorkerFields
    <3>2. QED
      BY <3>1 DEF Bucket
  <2> DEFINE hi == w.buckets[w.b].hi
             at == w.at
             stop == w.stop
  <2>5. hi \in Nat /\ at \in Nat /\ stop \in Nat /\ at < stop /\ stop <= hi
        /\ hi <= MaxSegment
    BY <1>w, <1>1, <2>1, <2>3, <2>4
  <2> HIDE DEF hi, at, stop
  <2>6. at \in Recipients
    BY <2>5, BoundsAssumption DEF Recipients
  <2>7. QED
    BY <2>6 DEF at
<1>3. PICK v : SetWorker(j, c, v) /\ v.at \in {w.at + 1, w.stop} /\ v.pc \in SendPC
  <2>1. CASE PostSucceeds(j, c)
    BY <1>w, <2>1 DEF PostSucceeds, Worker, SendPC
  <2>2. CASE PostFails(j, c)
    <3> DEFINE v == [w EXCEPT !.at = w.stop, !.pc = "reportSend"]
    <3>1. SetWorker(j, c, v)
      BY <2>2 DEF PostFails
    <3>2. v.at = w.stop /\ v.pc = "reportSend"
      BY <1>w DEF Worker
    <3> HIDE DEF v
    <3>3. QED
      BY <3>1, <3>2 DEF SendPC
  <2>3. QED
    BY <2>1, <2>2
<1>4. \A i \in Jobs, d \in Campaigns :
        work'[i][d] = IF i = j /\ d = c THEN v ELSE work[i][d]
  BY <1>3 DEF SetWorker, TypeOK
<1>5. w.at < v.at
  <2> DEFINE at == w.at
             stop == w.stop
             to == v.at
  <2>1. at \in Nat /\ stop \in Nat /\ at < stop /\ to \in {at + 1, stop}
    BY <1>w, <1>1, <1>3
  <2> HIDE DEF at, stop, to
  <2>2. at < to
    BY <2>1
  <2>3. QED
    BY <2>2 DEF at, to
<1>6. QED
  BY <1>1, <1>2, <1>3, <1>4, <1>5

\* The part of FreshInv about one worker.
WorkerFresh(j, c) ==
  /\ At(j, c, Unsent) => \A u \in Recipients : delivered[c][u] = 0
  /\ At(j, c, SendPC) =>
       \A u \in Recipients : u >= work[j][c].at => delivered[c][u] = 0

OneProcess == \A i, j \in Jobs : Alive(i) /\ Alive(j) => i = j

AtMostOneMessage == \A c \in Campaigns, u \in Recipients : delivered[c][u] <= 1

\* FreshInv is one process at a time, fresh workers, and no second message.
LEMMA FreshParts ==
  FreshInv <=> /\ OneProcess
               /\ \A j \in Jobs, c \in Campaigns : WorkerFresh(j, c)
               /\ AtMostOneMessage
BY DEF FreshInv, OneProcess, WorkerFresh, AtMostOneMessage, Unsent

\* A worker that did not move, or advanced, stays fresh when nothing is sent.
LEMMA AdvanceFresh ==
  ASSUME TypeOK, FreshInv, UNCHANGED delivered, NEW j \in Jobs, NEW c \in Campaigns,
         job'[j] = "running" => job[j] = "running",
         work'[j][c] \in Worker,
         work'[j][c] = work[j][c] \/ Advances(work[j][c], work'[j][c])
  PROVE  WorkerFresh(j, c)'
<1> DEFINE w == work[j][c]
           v == work'[j][c]
<1>1. WorkerFresh(j, c)
  BY FreshParts
<1>2. w.at \in Nat /\ v.at \in Nat
  BY WorkerFields DEF TypeOK
<1>3. v.pc \in Unsent => w.pc \in Unsent
  BY DEF Advances
<1>4. v.pc \in SendPC => w.pc \in Unsent \/ (w.pc \in SendPC /\ w.at <= v.at)
  BY <1>2 DEF Advances, Unsent
<1>5. ASSUME At(j, c, SendPC)', NEW u \in Recipients, u >= v.at
      PROVE  delivered[c][u] = 0
  <2>1. u \in Int
    BY DEF Recipients
  <2>2. job[j] = "running" /\ v.pc \in SendPC
    BY <1>5 DEF At
  <2>3. CASE w.pc \in Unsent
    BY <1>1, <2>2, <2>3 DEF WorkerFresh, At
  <2>4. CASE w.pc \in SendPC /\ w.at <= v.at
    <3>1. u >= w.at
      BY <1>2, <1>5, <2>1, <2>4
    <3>2. QED
      BY <1>1, <2>2, <2>4, <3>1 DEF WorkerFresh, At
  <2>5. QED
    BY <1>4, <2>2, <2>3, <2>4
<1>6. ASSUME At(j, c, Unsent)', NEW u \in Recipients
      PROVE  delivered[c][u] = 0
  BY <1>1, <1>3, <1>6 DEF WorkerFresh, At
<1>7. Recipients' = Recipients
  BY DEF Recipients
<1>8. QED
  BY <1>5, <1>6, <1>7 DEF WorkerFresh

\* A process starts with the campaigns that are Pending, and so unsent.
LEMMA StartFresh ==
  ASSUME TypeOK, FreshInv, PendingMeansUnsent, ~AllowOverlap,
         NEW j \in Jobs, StartJob(j)
  PROVE  FreshInv'
<1>1. UNCHANGED delivered
  BY DEF StartJob
<1>2. \A i \in Jobs : (Alive(i)' => i = j) /\ (job'[i] = "running" => i = j)
  BY DEF StartJob, Alive, TypeOK
<1>3. ASSUME NEW c \in Campaigns
      PROVE  /\ work'[j][c].pc \in {"none", "queued"}
             /\ work'[j][c].pc = "queued" => db[c].status = "Pending"
  BY DEF StartJob, TypeOK, Idle, PendingRows
<1>4. OneProcess'
  BY <1>2 DEF OneProcess
<1>5. ASSUME NEW i \in Jobs, NEW c \in Campaigns
      PROVE  WorkerFresh(i, c)'
  BY <1>1, <1>2, <1>3 DEF WorkerFresh, At, Unsent, BeforeClaim, SendPC, PendingMeansUnsent, Recipients
<1>6. AtMostOneMessage'
  BY <1>1, FreshParts DEF AtMostOneMessage, Recipients
<1>7. QED
  BY <1>4, <1>5, <1>6 DEF FreshInv, OneProcess, WorkerFresh, AtMostOneMessage, Unsent

\* A post by the only process goes to a recipient without a message.
LEMMA PostFresh ==
  ASSUME TypeOK, LayoutInv, FreshInv, NEW j \in Jobs, NEW c \in Campaigns,
         PostSucceeds(j, c) \/ PostFails(j, c), TypeOK'
  PROVE  /\ FreshInv'
         /\ work[j][c].at \in Recipients
         /\ delivered[c][work[j][c].at] = 0
<1> DEFINE at == work[j][c].at
<1>1. /\ At(j, c, {"post"})
      /\ at \in Recipients
      /\ delivered' \in {delivered, [delivered EXCEPT ![c][at] = @ + 1]}
      /\ UNCHANGED job
      /\ at < work'[j][c].at
      /\ work'[j][c].pc \in SendPC
      /\ \A i \in Jobs, d \in Campaigns : ~(i = j /\ d = c) => work'[i][d] = work[i][d]
  BY PostReaches
<1>2. at \in Nat /\ work'[j][c].at \in Nat
  BY WorkerFields DEF TypeOK
<1>3. WorkerFresh(j, c) /\ At(j, c, SendPC)
  BY <1>1, FreshParts DEF At, SendPC
<1>4. delivered[c][at] = 0
  BY <1>1, <1>2, <1>3 DEF WorkerFresh
<1>5. ASSUME NEW d \in Campaigns, NEW u \in Recipients
      PROVE  /\ delivered'[d][u] \in {delivered[d][u], 0 + 1}
             /\ ~(d = c /\ u = at) => delivered'[d][u] = delivered[d][u]
  BY <1>1, <1>4 DEF TypeOK
<1>6. \A i \in Jobs : job[i] = "running" => i = j
  BY <1>1, FreshParts DEF OneProcess, Alive, At
<1>7. ASSUME NEW u \in Recipients, u >= work'[j][c].at
      PROVE  delivered'[c][u] = 0
  <2>1. u \in Int
    BY DEF Recipients
  <2> HIDE DEF at
  <2>2. u # at /\ u >= at
    BY <1>1, <1>2, <1>7, <2>1
  <2>3. delivered[c][u] = 0
    BY <1>3, <2>2 DEF WorkerFresh, at
  <2>4. QED
    BY <1>5, <2>2, <2>3
<1>8. WorkerFresh(j, c)'
  BY <1>1, <1>7 DEF WorkerFresh, At, SendPC, Unsent, BeforeClaim, Recipients
<1>9. ASSUME NEW i \in Jobs, NEW d \in Campaigns, ~(i = j /\ d = c)
      PROVE  WorkerFresh(i, d)'
  <2>1. WorkerFresh(i, d)
    BY FreshParts
  <2>2. job'[i] = "running" => d # c
    BY <1>1, <1>6, <1>9
  <2>3. work'[i][d] = work[i][d]
    BY <1>1, <1>9
  <2>4. QED
    BY <1>1, <1>5, <2>1, <2>2, <2>3 DEF WorkerFresh, At, Recipients
<1>10. OneProcess'
  BY <1>1, FreshParts DEF OneProcess, Alive
<1>11. AtMostOneMessage'
  <2>1. AtMostOneMessage
    BY FreshParts
  <2>2. QED
    BY <1>5, <2>1 DEF AtMostOneMessage, Recipients
<1>12. FreshInv'
  BY <1>8, <1>9, <1>10, <1>11 DEF FreshInv, OneProcess, WorkerFresh, AtMostOneMessage, Unsent
<1>13. QED
  BY <1>1, <1>4, <1>12

\* When processes do not overlap, every step keeps recipients past the cursor
\* of a worker, and everybody else, at one message or none.
LEMMA StepFreshInv ==
  ASSUME TypeOK, TypeOK', LayoutInv, PendingMeansUnsent, FreshInv, ~AllowOverlap, [Next]_vars
  PROVE  FreshInv'
<1>1. ASSUME UNCHANGED delivered,
             \A i \in Jobs : Alive(i)' => Alive(i),
             \A i \in Jobs, c \in Campaigns : WorkerFresh(i, c)'
      PROVE  FreshInv'
  <2>1. OneProcess'
    BY <1>1, FreshParts DEF OneProcess
  <2>2. AtMostOneMessage'
    BY <1>1, FreshParts DEF AtMostOneMessage, Recipients
  <2>3. QED
    BY <1>1, <2>1, <2>2 DEF FreshInv, OneProcess, WorkerFresh, AtMostOneMessage, Unsent
<1>t. \A i \in Jobs, c \in Campaigns : work'[i][c] \in Worker
  BY DEF TypeOK
<1>2. ASSUME NEW j \in Jobs,
             \/ StartFails(j) \/ TasksDone(j)
             \/ Receive(j) \/ CopyRow(j) \/ WriteStatus(j)
      PROVE  FreshInv'
  <2>1. /\ UNCHANGED <<work, delivered>>
        /\ \A i \in Jobs : Alive(i)' => Alive(i)
        /\ \A i \in Jobs : job'[i] = "running" => job[i] = "running"
    BY <1>2, ProcessFrame
  <2>2. \A i \in Jobs, c \in Campaigns : WorkerFresh(i, c)'
    BY <1>t, <2>1, AdvanceFresh
  <2>3. QED
    BY <1>1, <2>1, <2>2
<1>3. ASSUME NEW j \in Jobs, Die(j) \/ StopStatus(j)
      PROVE  FreshInv'
  <2>1. /\ UNCHANGED delivered
        /\ \A i \in Jobs : Alive(i)' => Alive(i)
        /\ \A i \in Jobs : job'[i] = "running" => job[i] = "running" /\ i # j
        /\ \A i \in Jobs : i # j => work'[i] = work[i]
    BY <1>3, DieFrame
  <2>2. \A c \in Campaigns : WorkerFresh(j, c)'
    BY <2>1 DEF WorkerFresh, At
  <2>3. \A i \in Jobs, c \in Campaigns : i # j => WorkerFresh(i, c)'
    BY <1>t, <2>1, AdvanceFresh
  <2>4. QED
    BY <1>1, <2>1, <2>2, <2>3
<1>4. ASSUME NEW j \in Jobs, NEW c \in Campaigns, Launch(j, c) \/ WorkerStep(j, c),
             ~(PostSucceeds(j, c) \/ PostFails(j, c)), ~Die(j)
      PROVE  FreshInv'
  <2>1. UNCHANGED delivered
    BY <1>4 DEF WorkerStep, Launch, Resolve, DownloadPage, DownloadFails, SearchPanics,
                GroupPanics, SetRunning, WriteSucceeds, WriteFails, Group, GroupsDone,
                StartBatch, NextBucket, SetProgress, SetComplete, Report
  <2>2. PICK v : SetWorker(j, c, v) /\ Advances(work[j][c], v) /\ UNCHANGED job
    BY <1>4, WorkerAdvances
  <2>3. \A i \in Jobs, d \in Campaigns :
          work'[i][d] = IF i = j /\ d = c THEN v ELSE work[i][d]
    BY <2>2 DEF SetWorker, TypeOK
  <2>4. \A i \in Jobs, d \in Campaigns :
          work'[i][d] = work[i][d] \/ Advances(work[i][d], work'[i][d])
    BY <2>2, <2>3
  <2>5. \A i \in Jobs, d \in Campaigns : WorkerFresh(i, d)'
    BY <1>t, <2>1, <2>2, <2>4, AdvanceFresh
  <2>6. QED
    BY <1>1, <2>1, <2>2, <2>5 DEF Alive
<1>5. CASE UNCHANGED vars
  <2>1. UNCHANGED <<work, job, delivered>>
    BY <1>5 DEF vars
  <2>2. \A i \in Jobs, c \in Campaigns : WorkerFresh(i, c)'
    BY <1>t, <2>1, AdvanceFresh
  <2>3. QED
    BY <1>1, <2>1, <2>2 DEF Alive
<1>6. CASE Next
  <2>1. PICK j \in Jobs :
          \/ StartJob(j) \/ StartFails(j) \/ TasksDone(j) \/ Crash(j) \/ StatusStep(j)
          \/ \E c \in Campaigns : Launch(j, c) \/ WorkerStep(j, c)
    BY <1>6 DEF Next
  <2>2. CASE StartJob(j)
    BY <2>2, StartFresh
  <2>3. CASE StartFails(j) \/ TasksDone(j) \/ StatusStep(j)
    BY <1>2, <1>3, <2>3 DEF StatusStep
  <2>4. CASE Crash(j)
    BY <1>3, <2>4 DEF Crash
  <2>5. CASE \E c \in Campaigns : Launch(j, c) \/ WorkerStep(j, c)
    BY <1>3, <1>4, <2>5, PostFresh
  <2>6. QED
    BY <2>1, <2>2, <2>3, <2>4, <2>5
<1>7. QED
  BY <1>5, <1>6

\* The buckets of every worker are consecutive slices of the segment, and a
\* worker that sends is inside one.
THEOREM LayoutInvariant == Spec => []LayoutInv
<1>1. QED
  BY StepLayoutInv, TypeCorrect, StepTypeOK, PTL DEF Spec

\* When processes do not overlap, no recipient at or past the cursor of a worker
\* has a message.
THEOREM FreshInvariant == Spec => [](~AllowOverlap => FreshInv)
<1>1. Init => FreshInv
  BY DEF Init, FreshInv, At, Alive, Recipients
<1>2. TypeOK /\ TypeOK' /\ LayoutInv /\ PendingMeansUnsent
        /\ (~AllowOverlap => FreshInv) /\ [Next]_vars
        => (~AllowOverlap => FreshInv)'
  BY StepFreshInv
<1>3. QED
  BY <1>1, <1>2, TypeCorrect, LayoutInvariant, PendingUnsent, PTL DEF Spec

\* No recipient gets two messages of one campaign, whatever crashes and fails.
THEOREM MailedOnce == Spec => []AtMostOnce
<1>1. (~AllowOverlap => FreshInv) => AtMostOnce
  BY DEF FreshInv, AtMostOnce
<1>2. QED
  BY <1>1, FreshInvariant, PTL

-----------------------------------------------------------------------------
(* The job implements CampaignDelivery.                                    *)

\* A step changes the row of one campaign, or what is delivered, never both.
LEMMA OneCampaignChanges ==
  ASSUME TypeOK, [Next]_vars
  PROVE  \/ UNCHANGED db
         \/ /\ UNCHANGED delivered
            /\ \E c \in Campaigns : \A d \in Campaigns : d # c => db'[d] = db[d]
<1>1. ASSUME NEW j \in Jobs,
             \/ StartJob(j) \/ StartFails(j) \/ TasksDone(j) \/ Crash(j)
             \/ Receive(j) \/ CopyRow(j) \/ StopStatus(j)
      PROVE  UNCHANGED db
  BY <1>1 DEF StartJob, StartFails, TasksDone, Crash, Die, Receive, CopyRow, StopStatus
<1>2. ASSUME NEW j \in Jobs, WriteStatus(j)
      PROVE  UNCHANGED delivered
             /\ \E c \in Campaigns : \A d \in Campaigns : d # c => db'[d] = db[d]
  <2>1. sg[j].c \in Campaigns
    BY DEF TypeOK, StatusGoroutine
  <2>2. QED
    BY <1>2, <2>1 DEF WriteStatus, TypeOK
<1>3. ASSUME NEW j \in Jobs, NEW c \in Campaigns, WriteSucceeds(j, c) \/ WriteFails(j, c)
      PROVE  UNCHANGED delivered /\ \A d \in Campaigns : d # c => db'[d] = db[d]
  BY <1>3 DEF WriteSucceeds, WriteFails, TypeOK
<1>4. ASSUME NEW j \in Jobs, NEW c \in Campaigns, Launch(j, c) \/ WorkerStep(j, c),
             ~(WriteSucceeds(j, c) \/ WriteFails(j, c))
      PROVE  UNCHANGED db
  BY <1>4 DEF WorkerStep, Launch, Resolve, DownloadPage, DownloadFails, SearchPanics,
              GroupPanics, Die, SetRunning, Group, GroupsDone, StartBatch, NextBucket,
              PostSucceeds, PostFails, SetProgress, SetComplete, Report
<1>5. UNCHANGED vars => UNCHANGED db
  BY DEF vars
<1>6. QED
  BY <1>1, <1>2, <1>3, <1>4, <1>5 DEF Next, StatusStep

\* The claims as the abstract specification sees them.
Claimed == [c \in Campaigns |-> db[c].status # "Pending"]

\* A row that leaves Pending is a claim; a post is a delivery to somebody new.
LEMMA StepDelivery ==
  ASSUME TypeOK, TypeOK', ClaimInv, LayoutInv, FreshInv, [Next]_vars
  PROVE  [Delivery!Next]_(Delivery!vars)
<1>1. CASE UNCHANGED delivered
  <2>1. PICK c \in Campaigns : \A d \in Campaigns : d # c => db'[d] = db[d]
    BY OneCampaignChanges, BoundsAssumption
  <2>2. CASE db[c].status = "Pending" /\ db'[c].status # "Pending"
    <3>1. Claimed' = [Claimed EXCEPT ![c] = TRUE] /\ ~Claimed[c]
      BY <2>1, <2>2 DEF Claimed
    <3>2. Delivery!Claim(c)
      BY <1>1, <3>1 DEF Delivery!Claim, Claimed
    <3>3. QED
      BY <3>2 DEF Delivery!Next
  <2>3. CASE ~(db[c].status = "Pending" /\ db'[c].status # "Pending")
    <3>1. db[c].status # "Pending" => db'[c].status # "Pending"
      BY StepClaimInv
    <3>2. Claimed' = Claimed
      BY <2>1, <2>3, <3>1 DEF Claimed
    <3>3. QED
      BY <1>1, <3>2 DEF Delivery!vars, Claimed
  <2>4. QED
    BY <2>2, <2>3
<1>2. ASSUME NEW j \in Jobs, NEW c \in Campaigns, PostSucceeds(j, c) \/ PostFails(j, c),
             delivered' # delivered
      PROVE  Delivery!Next
  <2> DEFINE at == work[j][c].at
  <2>1. /\ At(j, c, {"post"}) /\ at \in Recipients /\ UNCHANGED db
        /\ delivered' = [delivered EXCEPT ![c][at] = @ + 1]
    BY <1>2, PostReaches
  <2>2. delivered[c][at] = 0
    BY <1>2, PostFresh
  <2>3. db[c].status # "Pending"
    BY <2>1 DEF ClaimInv, At, AfterClaim, SendPC
  <2> HIDE DEF at
  <2>4. delivered' = [delivered EXCEPT ![c][at] = 1]
    BY <2>1, <2>2 DEF TypeOK
  <2>5. Claimed[c] /\ Claimed' = Claimed
    BY <2>1, <2>3 DEF Claimed
  <2>6. Delivery!Deliver(c, at)
    BY <2>2, <2>4, <2>5 DEF Delivery!Deliver, Claimed
  <2>7. QED
    BY <2>1, <2>6 DEF Delivery!Next
<1>3. QED
  BY <1>1, <1>2, OnlyPostsDeliver

\* When processes do not overlap, the job implements the abstract delivery.
THEOREM ImplementsDelivery == ~AllowOverlap => (Spec => DeliverySpec)
<1> SUFFICES ASSUME ~AllowOverlap
             PROVE  Spec => Delivery!Spec
  BY DEF DeliverySpec
<1>1. Init => Delivery!Init
  <2>1. Init => Claimed = [c \in Campaigns |-> FALSE]
    <3>1. NewRow.status = "Pending"
      BY DEF NewRow
    <3>2. QED
      BY <3>1 DEF Init, Claimed
  <2>2. QED
    BY <2>1 DEF Init, Delivery!Init, Claimed
<1>2. TypeOK /\ TypeOK' /\ ClaimInv /\ LayoutInv /\ (~AllowOverlap => FreshInv) /\ [Next]_vars
        => [Delivery!Next]_(Delivery!vars)
  BY StepDelivery
<1>3. QED
  BY <1>1, <1>2, TypeCorrect, ClaimInvariant, LayoutInvariant, FreshInvariant, PTL
     DEF Spec, Delivery!Spec

-----------------------------------------------------------------------------
(* Complete: whoever is before the cursor of a worker has been tried, and  *)
(* past the last bucket the cursor is at the end of the segment.           *)

\* What is tried stays tried.
LEMMA RowTrueGrows ==
  ASSUME NEW row, NEW got, NEW more, got \subseteq more, RowTrue(row, got)
  PROVE  RowTrue(row, more)
BY DEF RowTrue

\* A worker that does not move still covers what it covered when more is tried
\* and when the status of its row changes.
LEMMA CoversGrows ==
  ASSUME NEW c, NEW w, NEW m, NEW row, NEW got, NEW more, Covers(c, w, m, got),
         got \subseteq more, row.size = m.size, row.progress = m.progress
  PROVE  Covers(c, w, row, more)
BY DEF Covers, RowTrue

\* The share of one email more.
LEMMA PrefixStep ==
  ASSUME NEW c \in Campaigns, NEW i \in 0..3
  PROVE  /\ RatioPrefix(c, i) \in Nat /\ RatioOf(c, i + 1) \in Nat
         /\ RatioPrefix(c, i + 1) = RatioPrefix(c, i) + RatioOf(c, i + 1)
<1>1. PICK r1 \in Nat, r2 \in Nat, r3 \in Nat, r4 \in Nat :
        r1 = RatioOf(c, 1) /\ r2 = RatioOf(c, 2) /\ r3 = RatioOf(c, 3) /\ r4 = RatioOf(c, 4)
  BY RatioNat
<1>2. \A k : RatioPrefix(c, k) = (IF k >= 1 THEN r1 ELSE 0) + (IF k >= 2 THEN r2 ELSE 0)
                                 + (IF k >= 3 THEN r3 ELSE 0) + (IF k >= 4 THEN r4 ELSE 0)
  BY <1>1 DEF RatioPrefix
<1>3. CASE i = 0
  BY <1>1, <1>2, <1>3
<1>4. CASE i = 1
  BY <1>1, <1>2, <1>4
<1>5. CASE i = 2
  BY <1>1, <1>2, <1>5
<1>6. CASE i = 3
  BY <1>1, <1>2, <1>6
<1>7. QED
  BY <1>3, <1>4, <1>5, <1>6

\* The emails of a campaign have the whole segment between them.
LEMMA PrefixWhole ==
  ASSUME NEW c \in Campaigns
  PROVE  /\ Len(Ratios[c]) \in 1..4
         /\ RatioPrefix(c, Len(Ratios[c])) = 100 /\ RatioPrefix(c, 0) = 0
<1>1. Ratios[c] \in Seq(Nat) /\ Len(Ratios[c]) \in 1..4 /\ RatioPrefix(c, 4) = 100
  BY RatiosAssumption DEF MaxEmails
<1>2. \A i \in 1..4 : i > Len(Ratios[c]) => RatioOf(c, i) = 0
  BY <1>1 DEF RatioOf
<1>3. PICK r1 \in Nat, r2 \in Nat, r3 \in Nat, r4 \in Nat :
        r1 = RatioOf(c, 1) /\ r2 = RatioOf(c, 2) /\ r3 = RatioOf(c, 3) /\ r4 = RatioOf(c, 4)
  BY RatioNat
<1>4. \A k : RatioPrefix(c, k) = (IF k >= 1 THEN r1 ELSE 0) + (IF k >= 2 THEN r2 ELSE 0)
                                 + (IF k >= 3 THEN r3 ELSE 0) + (IF k >= 4 THEN r4 ELSE 0)
  BY <1>3 DEF RatioPrefix
<1>5. PICK n \in 1..4 : n = Len(Ratios[c])
  BY <1>1
<1>6. (2 > n => r2 = 0) /\ (3 > n => r3 = 0) /\ (4 > n => r4 = 0)
  BY <1>2, <1>3, <1>5
<1>7. RatioPrefix(c, n) = RatioPrefix(c, 4)
  BY <1>4, <1>6
<1>8. RatioPrefix(c, 0) = 0
  BY <1>4
<1>9. QED
  BY <1>1, <1>5, <1>7, <1>8

\* A bucket more is consecutive to the others, and holds the share of its email.
LEMMA GroupConsecutive ==
  ASSUME NEW c \in Campaigns, NEW n \in Nat, NEW pos \in Nat, NEW bs \in Seq(Bucket),
         Consecutive(c, n, pos, bs), Len(bs) < Len(Ratios[c]),
         NEW count \in Nat, 100 * count >= n * RatioOf(c, Len(bs) + 1),
         NEW bucket \in Bucket, bucket.lo = pos, bucket.hi = BucketEnd(n, pos, count),
         pos <= bucket.hi
  PROVE  Consecutive(c, n, NextPos(pos, count), Append(bs, bucket))
<1>1. PICK k \in 0..3 : k = Len(bs)
  <2>1. Len(bs) \in Nat
    OBVIOUS
  <2>2. PICK m \in 1..4 : m = Len(Ratios[c])
    BY PrefixWhole
  <2>3. PICK l \in Nat : l = Len(bs)
    BY <2>1
  <2>4. l < m
    BY <2>2, <2>3
  <2>5. l \in 0..3
    BY <2>4
  <2>6. QED
    BY <2>3, <2>5
<1>2. PICK more, np : more = Append(bs, bucket) /\ np = NextPos(pos, count)
  OBVIOUS
<1>3. /\ np \in Nat /\ more \in Seq(Bucket) /\ Len(more) = k + 1 /\ more[k + 1] = bucket
      /\ \A i \in 1..k : more[i] = bs[i]
      /\ np = pos + count /\ Len(more) # 0
  BY <1>1, <1>2 DEF NextPos
<1>4. k + 1 <= Len(Ratios[c])
  BY <1>1, PrefixWhole
<1>5. n * RatioPrefix(c, k + 1) <= 100 * np
  <2>s. /\ RatioPrefix(c, k) \in Nat /\ RatioOf(c, k + 1) \in Nat
        /\ RatioPrefix(c, k + 1) = RatioPrefix(c, k) + RatioOf(c, k + 1)
    BY PrefixStep, Zenon
  <2>1. PICK p \in Nat, r \in Nat : /\ p = RatioPrefix(c, k) /\ r = RatioOf(c, k + 1)
                                    /\ RatioPrefix(c, k + 1) = p + r
    BY <2>s, Zenon
  <2>p. n * p \in Nat /\ n * r \in Nat /\ n * (p + r) = n * p + n * r
    OBVIOUS
  <2>2. PICK np1 \in Nat, nr \in Nat : np1 = n * p /\ nr = n * r
    BY <2>p, Zenon
  <2>3. n * (p + r) = np1 + nr
    BY <2>p, <2>2, Zenon
  <2>4. np1 <= 100 * pos
    BY <1>1, <2>1, <2>2 DEF Consecutive
  <2>5. nr <= 100 * count
    BY <1>1, <2>1, <2>2
  <2>6. n * RatioPrefix(c, k + 1) = np1 + nr
    BY <2>1, <2>3
  <2>7. np1 + nr <= 100 * np
    <3>1. np = pos + count
      BY <1>3
    <3>2. QED
      BY <2>2, <2>4, <2>5, <3>1
  <2>8. QED
    BY <2>6, <2>7
<1>6. more[1].lo = 0
  <2>1. CASE k = 0
    <3>1. pos = 0
      BY <1>1, <2>1 DEF Consecutive
    <3>2. QED
      BY <1>3, <2>1, <3>1
  <2>2. CASE k > 0
    <3>1. Len(bs) # 0 /\ 1 \in 1..k
      BY <1>1, <2>2
    <3>2. bs[1].lo = 0
      BY <3>1 DEF Consecutive
    <3>3. QED
      BY <1>3, <3>1, <3>2
  <2>3. QED
    BY <2>1, <2>2
<1>7. bucket.hi = IF np <= n THEN np ELSE n
  BY <1>3 DEF BucketEnd
<1>8. pos <= n
  BY <1>3, <1>7
<1>9. ASSUME NEW i \in 1..(k + 1)
      PROVE  more[i].hi = IF i < k + 1 THEN more[i + 1].lo ELSE IF np <= n THEN np ELSE n
  <2>1. CASE i = k + 1
    BY <1>3, <1>7, <2>1
  <2>2. CASE i = k
    <3>1. i \in 1..Len(bs) /\ ~(i < Len(bs))
      BY <1>1, <1>9, <2>2
    <3>2. bs[i].hi = IF pos <= n THEN pos ELSE n
      BY <3>1 DEF Consecutive
    <3>3. bs[i].hi = pos /\ more[i] = bs[i] /\ more[i + 1].lo = pos /\ i < k + 1
      BY <1>1, <1>3, <1>8, <2>2, <3>1, <3>2
    <3>4. QED
      BY <3>3
  <2>3. CASE i < k
    <3>1. i \in 1..Len(bs) /\ i < Len(bs) /\ i \in 1..k /\ i + 1 \in 1..k
      BY <1>1, <1>9, <2>3
    <3>2. bs[i].hi = bs[i + 1].lo
      BY <3>1 DEF Consecutive
    <3>3. QED
      BY <1>3, <2>3, <3>1, <3>2
  <2>4. QED
    BY <1>9, <2>1, <2>2, <2>3
<1>10. Consecutive(c, n, np, more)
  BY <1>3, <1>4, <1>5, <1>6, <1>9 DEF Consecutive
<1>11. QED
  BY <1>2, <1>10

\* The last bucket ends where the segment does.
LEMMA LastBucketEnds ==
  ASSUME NEW c \in Campaigns, NEW n \in Nat, NEW pos \in Nat, NEW bs \in Seq(Bucket),
         Consecutive(c, n, pos, bs), Len(bs) = Len(Ratios[c])
  PROVE  Len(bs) \in 1..4 /\ bs[1].lo = 0 /\ bs[Len(bs)].hi = n
<1>1. PICK k \in 1..4 : k = Len(bs)
  BY PrefixWhole
<1>2. n * 100 <= 100 * pos
  <2>1. RatioPrefix(c, Len(bs)) = 100
    BY PrefixWhole
  <2>2. QED
    BY <2>1 DEF Consecutive
<1>3. n <= pos
  BY <1>2
<1>4. Len(bs) # 0 /\ k \in 1..Len(bs) /\ ~(k < Len(bs))
  <2>1. k # 0 /\ k \in 1..k /\ ~(k < k)
    OBVIOUS
  <2>2. QED
    BY <1>1, <2>1, Zenon
<1>5. bs[k].hi = IF pos <= n THEN pos ELSE n
  BY <1>1, <1>4 DEF Consecutive
<1>6. bs[k].hi = n
  BY <1>3, <1>5
<1>7. QED
  BY <1>1, <1>4, <1>6 DEF Consecutive

\* Places of a worker with the places it may go on to without touching its row,
\* its buckets or its cursor.
Moves ==
  {<<"queued", "resolve">>, <<"resolve", "search">>, <<"resolve", "reportFailed">>,
   <<"search", "reportFailed">>, <<"scroll", "reportFailed">>,
   <<"search", "scroll">>, <<"search", "setRunning">>,
   <<"scroll", "scroll">>, <<"scroll", "setRunning">>,
   <<"writeRunning", "group">>, <<"writeRunning", "reportFailed">>,
   <<"writeProgress", "batch">>, <<"writeProgress", "reportProgress">>,
   <<"writeFinal", "finished">>, <<"writeFinal", "reportFailed">>,
   <<"reportFailed", "failed">>, <<"reportSend", "post">>, <<"reportProgress", "batch">>}

\* No buckets are consecutive.
LEMMA NoBuckets ==
  ASSUME NEW c \in Campaigns, NEW n \in Nat
  PROVE  Consecutive(c, n, 0, <<>>)
<1>1. Len(<<>>) = 0 /\ DOMAIN <<>> = {}
  OBVIOUS
<1>2. n * RatioPrefix(c, 0) <= 100 * 0 /\ 0 <= Len(Ratios[c])
  BY PrefixWhole
<1>3. QED
  BY <1>1, <1>2 DEF Consecutive

\* Such a move keeps what the worker covers.
LEMMA MoveCovers ==
  ASSUME NEW c \in Campaigns, NEW w \in Worker, NEW v \in Worker, NEW m, NEW got,
         Covers(c, w, m, got), <<w.pc, v.pc>> \in Moves,
         v.pos = w.pos, v.buckets = w.buckets, v.b = w.b, v.at = w.at, v.stop = w.stop,
         v.count = w.count, v.snap \in {w.snap, NewRow},
         v.n = w.n \/ w.pc \in {"search", "scroll"}
  PROVE  Covers(c, v, m, got)
<1> USE DEF BeforeClaim, AfterClaim, SendPC
<1>1. RowTrue(v.snap, got)
  BY DEF Covers, RowTrue, NewRow
<1>2. w.n \in Nat /\ v.n \in Nat
  BY WorkerFields
<1>3. CASE w.pc \in {"queued", "resolve", "search", "scroll"}
  BY <1>1, <1>3 DEF Covers, Moves
<1>4. CASE w.pc = "writeRunning"
  <2>1. v.pc \in {"group", "reportFailed"} /\ v.n = w.n /\ m.size = w.n
        /\ w.buckets = <<>> /\ w.pos = 0
    BY <1>4 DEF Covers, Moves
  <2>2. Consecutive(c, v.n, v.pos, v.buckets)
    BY <1>2, <2>1, NoBuckets
  <2>3. QED
    BY <1>1, <2>1, <2>2 DEF Covers
<1>5. CASE w.pc \in {"writeProgress", "reportProgress"}
  <2>1. v.pc \in {"batch", "reportProgress"} /\ v.n = w.n
    BY <1>5 DEF Moves
  <2>2. w.at = w.stop /\ m.size = w.n /\ Consecutive(c, w.n, w.pos, w.buckets)
        /\ Len(w.buckets) = Len(Ratios[c]) /\ 0..(w.at - 1) \subseteq got
        /\ (w.b > Len(w.buckets) => w.at >= w.n) /\ w.count <= w.stop
    BY <1>5 DEF Covers
  <2>3. QED
    BY <1>1, <2>1, <2>2 DEF Covers
<1>6. CASE w.pc = "reportSend"
  <2>1. v.pc = "post" /\ v.n = w.n
    BY <1>6 DEF Moves
  <2>2. m.size = w.n /\ Consecutive(c, w.n, w.pos, w.buckets)
        /\ Len(w.buckets) = Len(Ratios[c]) /\ 0..(w.at - 1) \subseteq got
        /\ (w.b > Len(w.buckets) => w.at >= w.n) /\ w.count <= w.stop
    BY <1>6 DEF Covers
  <2>3. QED
    BY <1>1, <2>1, <2>2 DEF Covers
<1>7. CASE w.pc \in {"writeFinal", "reportFailed"}
  BY <1>1, <1>7 DEF Covers, Moves
<1>8. QED
  BY <1>3, <1>4, <1>5, <1>6, <1>7 DEF Moves

\* The row a worker claims its campaign with shows no progress.
LEMMA RunningCovers ==
  ASSUME NEW c \in Campaigns, NEW w \in Worker, NEW v \in Worker, NEW m, NEW row, NEW got,
         Covers(c, w, m, got), w.pc = "setRunning", v.pc = "writeRunning",
         v.n = w.n, v.pos = w.pos, v.buckets = w.buckets, v.snap = row,
         row.size = w.n, row.progress = m.progress
  PROVE  Covers(c, v, row, got) /\ RowTrue(row, got)
<1>1. m.progress = 0 /\ w.buckets = <<>> /\ w.pos = 0
  BY DEF Covers, BeforeClaim
<1>2. RowTrue(row, got)
  BY <1>1 DEF RowTrue
<1>3. QED
  BY <1>1, <1>2 DEF Covers, BeforeClaim, AfterClaim, SendPC

\* The grouping loop.
LEMMA GroupCovers ==
  ASSUME NEW c \in Campaigns, NEW w \in Worker, NEW v \in Worker, NEW m, NEW got,
         Covers(c, w, m, got), w.pc = "group", v.pc \in {"group", "reportFailed"},
         v.n = w.n, v.snap = w.snap,
         Consecutive(c, v.n, v.pos, v.buckets)
  PROVE  Covers(c, v, m, got)
BY DEF Covers, BeforeClaim, AfterClaim, SendPC

\* Sending begins at the start of the segment.
LEMMA GroupsDoneCovers ==
  ASSUME NEW c \in Campaigns, NEW w \in Worker, NEW v \in Worker, NEW m, NEW got,
         Covers(c, w, m, got), w.pc = "group", Len(w.buckets) = Len(Ratios[c]),
         v.pc = "batch", v.n = w.n, v.pos = w.pos, v.buckets = w.buckets, v.snap = w.snap,
         v.b = 1, v.at = w.buckets[1].lo, v.count = 0
  PROVE  Covers(c, v, m, got)
<1>1. Consecutive(c, w.n, w.pos, w.buckets) /\ m.size = w.n /\ RowTrue(w.snap, got)
  BY DEF Covers, AfterClaim
<1>2. w.n \in Nat /\ w.pos \in Nat /\ w.buckets \in Seq(Bucket)
  BY WorkerFields
<1>3. w.buckets[1].lo = 0 /\ Len(w.buckets) \in 1..4
  BY <1>1, <1>2, LastBucketEnds
<1>4. 0..(v.at - 1) \subseteq got /\ ~(v.b > Len(v.buckets)) /\ v.count <= v.at
  BY <1>3
<1>5. QED
  BY <1>1, <1>4 DEF Covers, BeforeClaim, AfterClaim, SendPC

\* A batch counts the users up to its end.
LEMMA StartBatchCovers ==
  ASSUME NEW c \in Campaigns, NEW w \in Worker, NEW v \in Worker, NEW m, NEW got,
         Covers(c, w, m, got), w.pc = "batch", w.b <= Len(w.buckets),
         v.pc = "post", v.n = w.n, v.pos = w.pos, v.buckets = w.buckets, v.b = w.b,
         v.at = w.at, v.snap = w.snap, v.count = w.count + (v.stop - w.at)
  PROVE  Covers(c, v, m, got)
<1>1. /\ Consecutive(c, w.n, w.pos, w.buckets) /\ m.size = w.n /\ RowTrue(w.snap, got)
      /\ Len(w.buckets) = Len(Ratios[c]) /\ 0..(w.at - 1) \subseteq got
      /\ w.count <= w.at
  BY DEF Covers, AfterClaim, SendPC
<1>2. PICK at \in Nat, count \in Nat, stop \in Nat, b \in Nat, k \in Nat :
        /\ at = w.at /\ count = w.count /\ stop = v.stop /\ b = w.b /\ k = Len(w.buckets)
  BY WorkerFields
<1>3. count + (stop - at) <= stop
  <2>1. count <= at
    BY <1>1, <1>2
  <2>2. QED
    BY <2>1
<1>4. v.count <= v.stop /\ ~(v.b > Len(v.buckets))
  BY <1>2, <1>3
<1>5. QED
  BY <1>1, <1>4 DEF Covers, BeforeClaim, AfterClaim, SendPC

\* The next bucket starts at the cursor, and past the last one the cursor is at
\* the end of the segment.
LEMMA NextBucketCovers ==
  ASSUME NEW c \in Campaigns, NEW w \in Worker, NEW v \in Worker, NEW m, NEW got,
         Covers(c, w, m, got), Layout(w), w.pc = "batch", w.b <= Len(w.buckets),
         w.at >= w.buckets[w.b].hi,
         v.pc = "batch", v.n = w.n, v.pos = w.pos, v.buckets = w.buckets, v.b = w.b + 1,
         v.at = (IF w.b < Len(w.buckets) THEN w.buckets[w.b + 1].lo ELSE w.at),
         v.snap = w.snap, v.count = 0
  PROVE  Covers(c, v, m, got)
<1>1. /\ Consecutive(c, w.n, w.pos, w.buckets) /\ m.size = w.n /\ RowTrue(w.snap, got)
      /\ Len(w.buckets) = Len(Ratios[c]) /\ 0..(w.at - 1) \subseteq got
  BY DEF Covers, AfterClaim, SendPC
<1>2. /\ w.n \in Nat /\ w.pos \in Nat /\ w.buckets \in Seq(Bucket) /\ w.at \in Nat
      /\ w.b \in Nat \ {0}
  BY WorkerFields
<1>3. PICK k \in 1..4 : k = Len(w.buckets)
  BY <1>1, <1>2, LastBucketEnds
<1>4. w.buckets[k].hi = w.n
  BY <1>1, <1>2, <1>3, LastBucketEnds
<1>5. PICK b \in 1..k : b = w.b
  BY <1>2, <1>3
<1>6. w.at <= w.buckets[b].hi
  BY <1>5 DEF Layout, SendPC
<1>7. w.buckets[b].hi \in Nat
  <2>1. w.buckets[b] \in Bucket
    BY <1>2, <1>3, <1>5
  <2>2. QED
    BY <2>1 DEF Bucket
<1>8. w.buckets[b].hi = w.at
  <2>1. PICK at \in Nat, hi \in Nat : at = w.at /\ hi = w.buckets[b].hi
    BY <1>2, <1>7
  <2>2. at <= hi /\ hi <= at
    <3>1. w.at >= w.buckets[b].hi
      BY <1>5
    <3>2. QED
      BY <1>6, <2>1, <3>1
  <2>3. QED
    BY <2>1, <2>2
<1>9. CASE b < k
  <2>1. w.buckets[b].hi = w.buckets[b + 1].lo
    BY <1>1, <1>3, <1>5, <1>9 DEF Consecutive
  <2>2. v.at = w.at
    BY <1>3, <1>5, <1>8, <1>9, <2>1
  <2>3. ~(v.b > Len(v.buckets)) /\ v.count <= v.at
    <3>1. v.b = b + 1 /\ Len(v.buckets) = k /\ ~(b + 1 > k)
      BY <1>3, <1>5, <1>9
    <3>2. v.count = 0 /\ v.at \in Nat
      BY <1>2, <2>2
    <3>3. QED
      BY <3>1, <3>2
  <2>4. QED
    BY <1>1, <2>2, <2>3 DEF Covers, BeforeClaim, AfterClaim, SendPC
<1>10. CASE b = k
  <2>1. v.at = w.at /\ v.at = v.n
    <3>1. ~(b < k)
      BY <1>10
    <3>2. v.at = w.at
      BY <1>3, <1>5, <3>1
    <3>3. w.at = w.n
      BY <1>4, <1>8, <1>10
    <3>4. QED
      BY <3>2, <3>3
  <2>2. v.at >= v.n /\ v.count <= v.at
    <3>1. v.at \in Nat /\ v.n = v.at /\ v.count = 0
      BY <1>2, <2>1
    <3>2. QED
      BY <3>1
  <2>3. QED
    BY <1>1, <2>1, <2>2 DEF Covers, BeforeClaim, AfterClaim, SendPC
<1>11. QED
  BY <1>5, <1>9, <1>10

\* A post covers the users it moves the cursor past, posted or skipped.
LEMMA PostCovers ==
  ASSUME NEW c \in Campaigns, NEW w \in Worker, NEW v \in Worker, NEW m, NEW got, NEW more,
         Covers(c, w, m, got), Layout(w), w.pc = "post",
         v.pc \in {"post", "reportSend"}, v.n = w.n, v.pos = w.pos, v.buckets = w.buckets,
         v.b = w.b, v.stop = w.stop, v.count = w.count, v.snap = w.snap,
         got \subseteq more, w.at..(v.at - 1) \subseteq more
  PROVE  Covers(c, v, m, more)
<1>1. /\ Consecutive(c, w.n, w.pos, w.buckets) /\ m.size = w.n /\ RowTrue(w.snap, got)
      /\ Len(w.buckets) = Len(Ratios[c]) /\ 0..(w.at - 1) \subseteq got
      /\ w.count <= w.stop
  BY DEF Covers, AfterClaim, SendPC
<1>2. RowTrue(v.snap, more)
  BY <1>1 DEF RowTrue
<1>3. 0..(v.at - 1) \subseteq more
  <2>1. PICK at \in Nat, to \in Nat : at = w.at /\ to = v.at
    BY WorkerFields
  <2>2. ASSUME NEW u \in 0..(to - 1)
        PROVE  u \in 0..(at - 1) \/ u \in at..(to - 1)
    BY <2>1
  <2>3. QED
    BY <1>1, <2>1, <2>2
<1>4. ~(v.b > Len(v.buckets))
  <2>1. PICK b \in Nat, k \in Nat : b = w.b /\ k = Len(w.buckets)
    BY WorkerFields
  <2>2. b <= k
    BY <2>1 DEF Layout
  <2>3. QED
    BY <2>1, <2>2
<1>5. QED
  BY <1>1, <1>2, <1>3, <1>4 DEF Covers, BeforeClaim, AfterClaim, SendPC

\* A share of the segment is 100 percent only when it holds all of it.
LEMMA FullShare ==
  ASSUME NEW count \in Nat, NEW size \in Nat, size > 0, (count * 100) \div size = 100
  PROVE  count >= size
<1>1. SUFFICES ASSUME count < size PROVE FALSE
  OBVIOUS
<1>2. PICK p \in Nat, q \in Nat : p = count * 100 /\ q = size * 100 /\ p < q
  BY <1>1
<1>3. p = size * (p \div size) + (p % size) /\ p % size >= 0
  BY <1>2
<1>4. p >= size * 100
  <2>1. p \div size = 100
    BY <1>2
  <2>2. PICK r \in Int : r = p % size /\ r >= 0
    BY <1>2
  <2>3. p = size * 100 + r
    BY <1>3, <2>1, <2>2
  <2>4. QED
    BY <1>2, <2>2, <2>3
<1>5. QED
  BY <1>2, <1>4

\* The progress after a batch is 100 only when the batch ends the segment.
LEMMA ProgressCovers ==
  ASSUME NEW c \in Campaigns, NEW w \in Worker, NEW v \in Worker, NEW m, NEW row, NEW got,
         Covers(c, w, m, got), Layout(w), w.pc = "post", w.at = w.stop,
         v.pc = "writeProgress", v.n = w.n, v.pos = w.pos, v.buckets = w.buckets,
         v.b = w.b, v.at = w.at, v.stop = w.stop, v.count = w.count, v.snap = row,
         row.size = m.size,
         row.progress = IF m.size > 0 THEN (w.count * 100) \div m.size ELSE 0
  PROVE  Covers(c, v, row, got) /\ RowTrue(row, got)
<1>1. /\ Consecutive(c, w.n, w.pos, w.buckets) /\ m.size = w.n
      /\ Len(w.buckets) = Len(Ratios[c]) /\ 0..(w.at - 1) \subseteq got
      /\ w.count <= w.stop /\ (w.b > Len(w.buckets) => w.at >= w.n)
  BY DEF Covers, AfterClaim, SendPC
<1>2. RowTrue(row, got)
  <2>1. SUFFICES ASSUME row.progress = 100 PROVE 0..(row.size - 1) \subseteq got
    BY DEF RowTrue
  <2>2. PICK n \in Nat, at \in Nat, count \in Nat :
          n = w.n /\ at = w.at /\ count = w.count
    BY WorkerFields
  <2>3. n > 0 /\ (count * 100) \div n = 100
    BY <1>1, <2>1, <2>2
  <2>4. count >= n
    BY <2>2, <2>3, FullShare
  <2>5. n <= at
    BY <1>1, <2>2, <2>4
  <2>6. \A u \in 0..(n - 1) : u \in 0..(at - 1)
    BY <2>2, <2>5
  <2>7. QED
    BY <1>1, <2>2, <2>6
<1>3. QED
  BY <1>1, <1>2 DEF Covers, BeforeClaim, AfterClaim, SendPC

\* Past the last bucket the whole segment has been tried.
LEMMA CompleteCovers ==
  ASSUME NEW c \in Campaigns, NEW w \in Worker, NEW v \in Worker, NEW m, NEW row, NEW got,
         Covers(c, w, m, got), w.pc = "batch", w.b > Len(w.buckets),
         v.pc = "writeFinal", v.n = w.n, v.pos = w.pos, v.buckets = w.buckets, v.snap = row,
         row.size = m.size
  PROVE  Covers(c, v, row, got) /\ RowTrue(row, got)
<1>1. /\ Consecutive(c, w.n, w.pos, w.buckets) /\ m.size = w.n
      /\ 0..(w.at - 1) \subseteq got /\ w.at >= w.n
  BY DEF Covers, AfterClaim, SendPC
<1>2. PICK n \in Nat, at \in Nat : n = w.n /\ at = w.at
  BY WorkerFields
<1>3. \A u \in 0..(n - 1) : u \in 0..(at - 1)
  BY <1>1, <1>2
<1>4. RowTrue(row, got)
  BY <1>1, <1>2, <1>3 DEF RowTrue
<1>5. QED
  BY <1>1, <1>4 DEF Covers, BeforeClaim, AfterClaim, SendPC

-----------------------------------------------------------------------------
(* The steps of the job, and what they leave covered.                      *)

\* The batch of a worker is inside the segment.
LEMMA BatchInSegment ==
  ASSUME NEW w \in Worker, Layout(w), w.pc = "post"
  PROVE  w.at..(w.stop - 1) \subseteq Recipients
<1>1. w.b <= Len(w.buckets) /\ w.stop <= w.buckets[w.b].hi
  BY DEF Layout
<1>2. w.b \in 1..Len(w.buckets)
  BY <1>1, WorkerFields
<1>3. w.buckets[w.b].hi <= MaxSegment
  BY <1>2 DEF Layout
<1>4. w.buckets[w.b].hi \in Nat
  <2>1. w.buckets[w.b] \in Bucket
    BY <1>2, WorkerFields
  <2>2. QED
    BY <2>1 DEF Bucket
<1>5. PICK at \in Nat, stop \in Nat, hi \in Nat :
        at = w.at /\ stop = w.stop /\ hi = w.buckets[w.b].hi
  BY <1>4, WorkerFields
<1>6. stop <= hi /\ hi <= MaxSegment
  BY <1>1, <1>3, <1>5
<1>7. at..(stop - 1) \subseteq Recipients
  BY <1>5, <1>6, BoundsAssumption DEF Recipients
<1>8. QED
  BY <1>5, <1>7

\* A post counts the user at the cursor as tried, or the rest of the batch.
LEMMA PostTries ==
  ASSUME TypeOK, LayoutInv, NEW j \in Jobs, NEW c \in Campaigns,
         PostSucceeds(j, c) \/ PostFails(j, c)
  PROVE  /\ \A d \in Campaigns : Attempted(d) \subseteq Attempted(d)'
         /\ PostSucceeds(j, c) => work[j][c].at \in Attempted(c)'
         /\ PostFails(j, c) =>
              work[j][c].at..(work[j][c].stop - 1) \subseteq Attempted(c)'
<1> DEFINE at == work[j][c].at
           rest == work[j][c].at..(work[j][c].stop - 1)
<1>1. /\ delivered' \in {delivered, [delivered EXCEPT ![c][at] = @ + 1]}
      /\ missed' \in {missed, [missed EXCEPT ![c] = @ \cup {at}]}
      /\ PostSucceeds(j, c) => delivered' = [delivered EXCEPT ![c][at] = @ + 1]
      /\ PostFails(j, c) => missed' = [missed EXCEPT ![c] = @ \cup {at}]
  BY DEF PostSucceeds, PostFails
<1>2. /\ at \in Recipients /\ rest \subseteq Recipients
      /\ \A u \in rest : at <= u /\ u < at + BatchSize
  <2>1. work[j][c].pc = "post" /\ work[j][c] \in Worker /\ Layout(work[j][c])
    BY DEF PostSucceeds, PostFails, At, TypeOK, LayoutInv
  <2>2. at \in Recipients /\ rest \subseteq Recipients
    BY <2>1, PostReaches, BatchInSegment
  <2>3. PICK first \in Nat, stop \in Nat : first = at /\ stop = work[j][c].stop
    BY <2>1, WorkerFields
  <2>4. stop <= first + BatchSize
    BY <2>1, <2>3 DEF Layout
  <2>5. \A u \in first..(stop - 1) : first <= u /\ u < first + BatchSize
    BY <2>4, BoundsAssumption
  <2>6. QED
    BY <2>2, <2>3, <2>5
<1> HIDE DEF at, rest
<1>3. ASSUME NEW d \in Campaigns, NEW u \in Recipients
      PROVE  /\ delivered[d][u] > 0 => delivered'[d][u] > 0
             /\ missed[d] \subseteq missed'[d]
  <2>1. delivered[d][u] \in Nat
    BY DEF TypeOK
  <2>2. delivered'[d][u] \in {delivered[d][u], delivered[d][u] + 1}
    BY <1>1, <1>2 DEF TypeOK
  <2>3. missed[d] \subseteq missed'[d]
    <3>1. missed'[d] \in {missed[d], missed[d] \cup {at}}
      BY <1>1 DEF TypeOK
    <3>2. QED
      BY <3>1
  <2>4. QED
    BY <2>1, <2>2, <2>3
<1>4. \A d \in Campaigns : Attempted(d) \subseteq Attempted(d)'
  BY <1>3 DEF Attempted, Tried, Recipients
<1>5. PostSucceeds(j, c) => at \in Attempted(c)'
  <2>1. delivered[c][at] \in Nat
    BY <1>2 DEF TypeOK
  <2>2. PostSucceeds(j, c) => delivered'[c][at] = delivered[c][at] + 1
    BY <1>1, <1>2 DEF TypeOK
  <2>3. PostSucceeds(j, c) => delivered'[c][at] > 0
    BY <2>1, <2>2
  <2>4. QED
    BY <1>2, <2>3 DEF Attempted, Tried, Recipients
<1>6. PostFails(j, c) => rest \subseteq Attempted(c)'
  <2>1. PostFails(j, c) => at \in missed'[c]
    BY <1>1 DEF TypeOK
  <2>2. QED
    BY <1>2, <2>1 DEF Attempted, Tried, Recipients
<1>7. QED
  BY <1>4, <1>5, <1>6 DEF at, rest

\* Whoever has been tried stays tried.
LEMMA AttemptedGrows ==
  ASSUME TypeOK, LayoutInv, [Next]_vars
  PROVE  \A d \in Campaigns : Attempted(d) \subseteq Attempted(d)'
<1>1. CASE UNCHANGED <<delivered, missed>>
  BY <1>1 DEF Attempted, Tried, Recipients
<1>2. ASSUME NEW j \in Jobs, NEW c \in Campaigns, PostSucceeds(j, c) \/ PostFails(j, c)
      PROVE  \A d \in Campaigns : Attempted(d) \subseteq Attempted(d)'
  BY <1>2, PostTries
<1>3. QED
  BY <1>1, <1>2, OnlyPostsDeliver

\* The parts of CompleteInv about one row, one status goroutine and one worker.
RowComplete(c) ==
  RowTrue(db[c], Attempted(c)) /\ (db[c].status = "Pending" => db[c].progress = 0)

StatusComplete(j) == RowTrue(sg[j].snap, Attempted(sg[j].c))

WorkerComplete(j, c) ==
  RowTrue(mem[j][c], Attempted(c)) /\ Covers(c, work[j][c], mem[j][c], Attempted(c))

\* CompleteInv is these parts.
LEMMA CompleteParts ==
  CompleteInv <=> /\ \A c \in Campaigns : RowComplete(c)
                  /\ \A j \in Jobs : StatusComplete(j)
                  /\ \A j \in Jobs, c \in Campaigns : WorkerComplete(j, c)
BY DEF CompleteInv, RowComplete, StatusComplete, WorkerComplete

\* What a step does not touch stays complete when more is tried, and so does a
\* worker whose row changes its status only.
LEMMA CompleteFrame ==
  ASSUME CompleteInv, TypeOK,
         \A d \in Campaigns : Attempted(d) \subseteq Attempted(d)'
  PROVE  /\ \A c \in Campaigns : db'[c] = db[c] => RowComplete(c)'
         /\ \A j \in Jobs : sg'[j] = sg[j] => StatusComplete(j)'
         /\ \A j \in Jobs, c \in Campaigns :
              /\ work'[j][c] = work[j][c]
              /\ mem'[j][c].size = mem[j][c].size
              /\ mem'[j][c].progress = mem[j][c].progress
              => WorkerComplete(j, c)'
<1>1. ASSUME NEW c \in Campaigns, db'[c] = db[c]
      PROVE  RowComplete(c)'
  <2>1. RowComplete(c)
    BY CompleteParts
  <2>2. RowTrue(db'[c], Attempted(c)')
    BY <1>1, <2>1, RowTrueGrows DEF RowComplete
  <2>3. QED
    BY <1>1, <2>1, <2>2 DEF RowComplete, RowTrue
<1>2. ASSUME NEW j \in Jobs, sg'[j] = sg[j]
      PROVE  StatusComplete(j)'
  <2>1. StatusComplete(j)
    BY CompleteParts
  <2>2. PICK c \in Campaigns : c = sg[j].c
    BY DEF TypeOK, StatusGoroutine
  <2>3. RowTrue(sg'[j].snap, Attempted(c)')
    BY <1>2, <2>1, <2>2, RowTrueGrows DEF StatusComplete
  <2>4. QED
    BY <1>2, <2>2, <2>3 DEF StatusComplete, RowTrue, Attempted, Tried
<1>3. ASSUME NEW j \in Jobs, NEW c \in Campaigns, work'[j][c] = work[j][c],
             mem'[j][c].size = mem[j][c].size,
             mem'[j][c].progress = mem[j][c].progress
      PROVE  WorkerComplete(j, c)'
  <2>1. WorkerComplete(j, c)
    BY CompleteParts
  <2>2. RowTrue(mem'[j][c], Attempted(c)')
    BY <1>3, <2>1 DEF WorkerComplete, RowTrue
  <2>3. Covers(c, work'[j][c], mem'[j][c], Attempted(c)')
    BY <1>3, <2>1, CoversGrows DEF WorkerComplete
  <2>4. QED
    BY <2>2, <2>3 DEF WorkerComplete, RowTrue, Covers, Consecutive
<1>4. QED
  BY <1>1, <1>2, <1>3

\* A step of a worker that takes it to v and leaves its row at row.
WorkerTo(j, c, v, row) == SetWorker(j, c, v) /\ mem' = [mem EXCEPT ![j][c] = row]

\* Launching a worker and every step of a worker that does not post either end its
\* process or keep what it covers.
LEMMA QuietCovers ==
  ASSUME TypeOK, LayoutInv, NEW j \in Jobs, NEW c \in Campaigns, NEW got,
         Covers(c, work[j][c], mem[j][c], got), RowTrue(mem[j][c], got),
         Launch(j, c) \/ WorkerStep(j, c), ~PostSucceeds(j, c), ~PostFails(j, c)
  PROVE  \/ Die(j)
         \/ \E v, row : WorkerTo(j, c, v, row) /\ Covers(c, v, row, got) /\ RowTrue(row, got)
<1> DEFINE w == work[j][c]
           m == mem[j][c]
<1>w. /\ w \in Worker /\ Layout(w)
      /\ w.pc \in WorkerPC
      /\ w.n \in Nat /\ w.pos \in Nat /\ w.at \in Nat
      /\ w.stop \in Nat /\ w.count \in Nat
      /\ w.b \in Nat \ {0}
      /\ w.buckets \in Seq(Bucket)
      /\ w.snap \in Row
  BY WorkerFields DEF TypeOK, LayoutInv
<1>m. m \in Row
  BY DEF TypeOK
<1>same. ASSUME NEW v, SetWorker(j, c, v), UNCHANGED mem, Covers(c, v, m, got)
         PROVE  \E x, row : WorkerTo(j, c, x, row) /\ Covers(c, x, row, got) /\ RowTrue(row, got)
  <2>1. mem' = [mem EXCEPT ![j][c] = m]
    BY <1>same DEF TypeOK
  <2>2. WorkerTo(j, c, v, m)
    BY <1>same, <2>1 DEF WorkerTo
  <2>3. RowTrue(m, got)
    OBVIOUS
  <2>4. QED
    BY <1>same, <2>2, <2>3
<1>goto. ASSUME NEW pc \in WorkerPC, <<w.pc, pc>> \in Moves,
                SetWorker(j, c, [w EXCEPT !.pc = pc]), UNCHANGED mem
         PROVE  \E x, row : WorkerTo(j, c, x, row) /\ Covers(c, x, row, got) /\ RowTrue(row, got)
  <2> DEFINE v == [w EXCEPT !.pc = pc]
  <2>1. v \in Worker /\ v.pc = pc /\ v.n = w.n /\ v.pos = w.pos /\ v.buckets = w.buckets
        /\ v.b = w.b /\ v.at = w.at /\ v.stop = w.stop /\ v.count = w.count /\ v.snap = w.snap
    BY <1>w DEF Worker
  <2>2. SetWorker(j, c, v)
    BY <1>goto
  <2> HIDE DEF v
  <2>3. Covers(c, v, m, got)
    BY <1>w, <1>goto, <2>1, MoveCovers
  <2>4. QED
    BY <1>goto, <1>same, <2>2, <2>3
<1>drop. ASSUME NEW pc \in WorkerPC, <<w.pc, pc>> \in Moves,
                SetWorker(j, c, [w EXCEPT !.snap = NewRow, !.pc = pc]), UNCHANGED mem
         PROVE  \E x, row : WorkerTo(j, c, x, row) /\ Covers(c, x, row, got) /\ RowTrue(row, got)
  <2> DEFINE v == [w EXCEPT !.snap = NewRow, !.pc = pc]
  <2>1. v \in Worker /\ v.pc = pc /\ v.n = w.n /\ v.pos = w.pos /\ v.buckets = w.buckets
        /\ v.b = w.b /\ v.at = w.at /\ v.stop = w.stop /\ v.count = w.count /\ v.snap = NewRow
    BY <1>w, IdleTyped DEF Worker
  <2>2. SetWorker(j, c, v)
    BY <1>drop
  <2> HIDE DEF v
  <2>3. Covers(c, v, m, got)
    BY <1>w, <1>drop, <2>1, MoveCovers
  <2>4. QED
    BY <1>drop, <1>same, <2>2, <2>3
<1>1. CASE Launch(j, c) \/ Resolve(j, c) \/ DownloadFails(j, c)
  <2>1. PICK pc \in {"resolve", "search", "reportFailed"} :
          SetWorker(j, c, [w EXCEPT !.pc = pc]) /\ <<w.pc, pc>> \in Moves /\ UNCHANGED mem
    BY <1>1 DEF Launch, Resolve, DownloadFails, Goto, At, Moves
  <2>2. pc \in WorkerPC
    BY DEF WorkerPC
  <2>3. QED
    BY <1>goto, <2>1, <2>2
<1>2. CASE DownloadPage(j, c)
  <2>1. PICK k \in 0..PageLimit :
          SetWorker(j, c, [w EXCEPT !.n = w.n + k,
            !.pc = IF k = PageLimit THEN "scroll" ELSE "setRunning"])
    BY <1>2 DEF DownloadPage
  <2> DEFINE pc == IF k = PageLimit THEN "scroll" ELSE "setRunning"
             n  == w.n + k
             v  == [w EXCEPT !.n = n, !.pc = pc]
  <2>2. n \in Nat
    <3>1. k \in Nat
      BY BoundsAssumption
    <3> HIDE DEF w
    <3>2. QED
      BY <3>1, <1>w
  <2>3. pc \in WorkerPC /\ pc \in {"scroll", "setRunning"}
    BY DEF WorkerPC
  <2>4. SetWorker(j, c, v)
    BY <2>1
  <2>5. w.pc \in {"search", "scroll"} /\ UNCHANGED mem
    BY <1>2 DEF DownloadPage, At
  <2>6. <<w.pc, pc>> \in Moves
    BY <2>3, <2>5 DEF Moves
  <2> HIDE DEF pc, n
  <2>7. v \in Worker /\ v.pc = pc /\ v.pos = w.pos /\ v.buckets = w.buckets
        /\ v.b = w.b /\ v.at = w.at /\ v.stop = w.stop /\ v.count = w.count /\ v.snap = w.snap
    BY <1>w, <2>2, <2>3 DEF Worker
  <2> HIDE DEF v
  <2>8. Covers(c, v, m, got)
    BY <1>w, <2>5, <2>6, <2>7, MoveCovers
  <2>9. QED
    BY <1>same, <2>4, <2>5, <2>8
<1>3. CASE SearchPanics(j, c) \/ GroupPanics(j, c)
  BY <1>3 DEF SearchPanics, GroupPanics
<1>4. CASE SetRunning(j, c)
  <2> DEFINE row == RunningRow(j, c)
             v   == [w EXCEPT !.snap = row, !.pc = "writeRunning"]
  <2>1. row \in Row /\ row.size = w.n /\ row.progress = m.progress
    BY <1>w, <1>m DEF RunningRow, Row, Statuses
  <2>2. /\ w.pc = "setRunning" /\ SetWorker(j, c, v) /\ mem' = [mem EXCEPT ![j][c] = row]
    BY <1>4 DEF SetRunning, At
  <2> HIDE DEF row
  <2>3. "writeRunning" \in WorkerPC
    BY DEF WorkerPC
  <2>4. v \in Worker /\ v.pc = "writeRunning" /\ v.n = w.n /\ v.pos = w.pos
        /\ v.buckets = w.buckets /\ v.snap = row
    BY <1>w, <2>1, <2>3 DEF Worker
  <2> HIDE DEF v
  <2>5. Covers(c, v, row, got) /\ RowTrue(row, got)
    BY <1>w, <2>1, <2>2, <2>4, RunningCovers
  <2>6. QED
    BY <2>2, <2>5 DEF WorkerTo
<1>5. CASE WriteSucceeds(j, c) \/ WriteFails(j, c)
  <2>1. PICK pc \in {AfterWrite(w.pc), AfterFailedWrite(w.pc)} :
          /\ SetWorker(j, c, [w EXCEPT !.snap = NewRow, !.pc = pc])
          /\ w.pc \in WritePC /\ UNCHANGED mem
    BY <1>5 DEF WriteSucceeds, WriteFails, At
  <2>2. pc \in WorkerPC /\ <<w.pc, pc>> \in Moves
    BY <2>1 DEF AfterWrite, AfterFailedWrite, WorkerPC, WritePC, Moves
  <2>3. QED
    BY <1>drop, <2>1, <2>2
<1>6. CASE Group(j, c)
  <2> DEFINE count == BucketCount(w.n, RatioOf(c, Len(w.buckets) + 1))
             bucket == [lo |-> w.pos, hi |-> BucketEnd(w.n, w.pos, count)]
             bs == Append(w.buckets, bucket)
             np == NextPos(w.pos, count)
  <2>1. count \in Nat
    BY <1>w, BucketCountNat, RatioNat
  <2>c. 100 * count >= w.n * RatioOf(c, Len(w.buckets) + 1)
    BY <1>w, BucketCountNat, RatioNat
  <2> HIDE DEF count
  <2>2. bucket \in Bucket /\ bucket.lo = w.pos /\ bucket.hi = BucketEnd(w.n, w.pos, count)
    <3> HIDE DEF w
    <3>1. BucketEnd(w.n, w.pos, count) \in Nat
      BY <1>w, <2>1 DEF BucketEnd
    <3>2. QED
      BY <1>w, <3>1 DEF Bucket
  <2>3. PICK pc \in {"group", "reportFailed"} :
          SetWorker(j, c, [w EXCEPT !.buckets = bs, !.pos = np, !.pc = pc])
    BY <1>6 DEF Group, count
  <2>4. w.pc = "group" /\ w.pos <= bucket.hi /\ Len(w.buckets) < Len(Ratios[c])
        /\ UNCHANGED mem
    BY <1>6 DEF Group, At, MoreEmails, count
  <2>5. Consecutive(c, w.n, w.pos, w.buckets)
    BY <2>4 DEF Covers, AfterClaim
  <2> HIDE DEF bucket
  <2>6. Consecutive(c, w.n, np, bs)
    <3> HIDE DEF w
    <3>1. QED
      BY <1>w, <2>1, <2>c, <2>2, <2>4, <2>5, GroupConsecutive
  <2>7. np \in Nat /\ bs \in Seq(Bucket) /\ pc \in WorkerPC
    <3> HIDE DEF w
    <3>1. np \in Nat
      BY <1>w, <2>1 DEF NextPos
    <3>2. QED
      BY <1>w, <2>2, <3>1 DEF WorkerPC
  <2> HIDE DEF bs, np
  <2> DEFINE v == [w EXCEPT !.buckets = bs, !.pos = np, !.pc = pc]
  <2>8. v \in Worker /\ v.pc = pc /\ v.n = w.n /\ v.pos = np /\ v.buckets = bs
        /\ v.snap = w.snap
    BY <1>w, <2>7 DEF Worker
  <2>9. SetWorker(j, c, v)
    BY <2>3
  <2> HIDE DEF v
  <2>10. Covers(c, v, m, got)
    BY <1>w, <2>4, <2>6, <2>8, GroupCovers
  <2>11. QED
    BY <1>same, <2>4, <2>9, <2>10
<1>7. CASE GroupsDone(j, c)
  <2> DEFINE lo == w.buckets[1].lo
             v  == [w EXCEPT !.b = 1, !.at = lo, !.count = 0, !.pc = "batch"]
  <2>1. w.pc = "group" /\ ~(Len(w.buckets) < Len(Ratios[c])) /\ UNCHANGED mem
        /\ SetWorker(j, c, v)
    BY <1>7 DEF GroupsDone, At, MoreEmails
  <2>2. Consecutive(c, w.n, w.pos, w.buckets)
    BY <2>1 DEF Covers, AfterClaim
  <2>3. Len(w.buckets) = Len(Ratios[c])
    <3>1. Len(w.buckets) <= Len(Ratios[c])
      BY <2>2 DEF Consecutive
    <3>2. PICK k \in Nat, e \in Nat : k = Len(w.buckets) /\ e = Len(Ratios[c])
      BY <1>w, PrefixWhole
    <3>3. k <= e /\ ~(k < e)
      BY <2>1, <3>1, <3>2
    <3>4. k = e
      BY <3>3
    <3>5. QED
      BY <3>2, <3>4
  <2>4. lo \in Nat
    <3>1. w.buckets[1].lo = 0
      BY <1>w, <2>2, <2>3, LastBucketEnds
    <3>2. QED
      BY <3>1
  <2>5. v \in Worker
    <3>1. "batch" \in WorkerPC /\ 1 \in Nat \ {0} /\ 0 \in Nat
      BY DEF WorkerPC
    <3> HIDE DEF lo, w
    <3>2. QED
      BY <1>w, <2>4, <3>1, WorkerUpdates
  <2>6. v.pc = "batch" /\ v.b = 1 /\ v.at = lo /\ v.count = 0 /\ v.n = w.n /\ v.pos = w.pos
        /\ v.buckets = w.buckets /\ v.snap = w.snap
    <3> HIDE DEF lo
    <3>1. QED
      BY <1>w DEF Worker
  <2> HIDE DEF v
  <2>7. Covers(c, v, m, got)
    BY <1>w, <2>1, <2>3, <2>5, <2>6, GroupsDoneCovers
  <2>8. QED
    BY <1>same, <2>1, <2>7
<1>8. CASE StartBatch(j, c)
  <2> DEFINE hi   == w.buckets[w.b].hi
             stop == IF w.at + BatchSize <= hi THEN w.at + BatchSize ELSE hi
             cnt  == w.count + (stop - w.at)
             v    == [w EXCEPT !.stop = stop, !.count = cnt, !.pc = "post"]
  <2>1. /\ w.pc = "batch" /\ UNCHANGED mem
        /\ w.b <= Len(w.buckets) /\ w.at < hi
        /\ SetWorker(j, c, v)
    BY <1>8 DEF StartBatch, Sending, At
  <2>2. hi \in Nat
    <3>1. w.buckets[w.b] \in Bucket
      BY <1>w, <2>1
    <3>2. QED
      BY <3>1 DEF Bucket
  <2>3. stop \in Nat /\ cnt \in Nat
    <3> DEFINE at == w.at
               n  == w.count
    <3>1. at \in Nat /\ n \in Nat /\ at < hi
      BY <1>w, <2>1
    <3> HIDE DEF hi, at, n, w
    <3>2. stop \in Nat /\ stop - at \in Nat
      BY <2>2, <3>1, BoundsAssumption DEF at
    <3> HIDE DEF stop
    <3>3. n + (stop - at) \in Nat
      BY <3>1, <3>2
    <3>4. QED
      BY <3>2, <3>3 DEF at, n
  <2>4. v \in Worker
    <3>1. "post" \in WorkerPC
      BY DEF WorkerPC
    <3> HIDE DEF stop, cnt, w
    <3>2. QED
      BY <1>w, <2>3, <3>1, WorkerUpdates
  <2> HIDE DEF stop
  <2>5. v.pc = "post" /\ v.b = w.b /\ v.at = w.at /\ v.stop = stop /\ v.n = w.n
        /\ v.pos = w.pos /\ v.buckets = w.buckets /\ v.snap = w.snap /\ v.count = cnt
    <3> HIDE DEF cnt
    <3>1. QED
      BY <1>w DEF Worker
  <2>6. v.count = w.count + (v.stop - w.at)
    <3> HIDE DEF v
    <3>1. QED
      BY <2>5
  <2> HIDE DEF v, cnt
  <2>7. Covers(c, v, m, got)
    BY <1>w, <2>1, <2>4, <2>5, <2>6, StartBatchCovers
  <2>8. QED
    BY <1>same, <2>1, <2>7
<1>9. CASE NextBucket(j, c)
  <2> DEFINE at == IF w.b < Len(w.buckets) THEN w.buckets[w.b + 1].lo ELSE w.at
             v  == [w EXCEPT !.b = w.b + 1, !.at = at, !.count = 0]
  <2>1. /\ w.pc = "batch" /\ UNCHANGED mem
        /\ w.b <= Len(w.buckets) /\ w.at >= w.buckets[w.b].hi
        /\ SetWorker(j, c, v)
    BY <1>9 DEF NextBucket, Sending, At
  <2>2. at \in Nat
    <3>1. CASE w.b < Len(w.buckets)
      <4>1. w.buckets[w.b + 1] \in Bucket
        BY <1>w, <3>1
      <4>2. QED
        BY <3>1, <4>1 DEF Bucket
    <3>2. CASE ~(w.b < Len(w.buckets))
      BY <1>w, <3>2
    <3>3. QED
      BY <3>1, <3>2
  <2>3. v \in Worker
    <3> DEFINE b == w.b
    <3>1. b \in Nat \ {0}
      BY <1>w
    <3> HIDE DEF at, b
    <3>2. b + 1 \in Nat \ {0} /\ 0 \in Nat
      BY <3>1
    <3>3. w.b + 1 \in Nat \ {0}
      BY <3>2 DEF b
    <3> HIDE DEF w
    <3>4. QED
      BY <1>w, <2>2, <3>2, <3>3, WorkerUpdates
  <2>4. v.pc = w.pc /\ v.b = w.b + 1 /\ v.at = at /\ v.n = w.n /\ v.count = 0
        /\ v.pos = w.pos /\ v.buckets = w.buckets /\ v.snap = w.snap
    <3> HIDE DEF at
    <3>1. QED
      BY <1>w DEF Worker
  <2> HIDE DEF v
  <2>5. Covers(c, v, m, got)
    BY <1>w, <2>1, <2>3, <2>4, NextBucketCovers
  <2>6. QED
    BY <1>same, <2>1, <2>5
<1>10. ASSUME NEW pc \in {"writeProgress", "writeFinal"}, NEW p \in Nat,
              SetWorker(j, c, [w EXCEPT !.snap = [m EXCEPT !.progress = p], !.pc = pc]),
              mem' = [mem EXCEPT ![j][c] = [m EXCEPT !.progress = p]]
       PROVE  \E v, row :
                /\ v \in Worker /\ v.pc = pc /\ v.n = w.n /\ v.pos = w.pos
                /\ v.buckets = w.buckets /\ v.snap = row /\ v.b = w.b /\ v.at = w.at
                /\ v.stop = w.stop /\ v.count = w.count
                /\ row.size = m.size /\ row.progress = p
                /\ WorkerTo(j, c, v, row)
  <2> DEFINE row == [m EXCEPT !.progress = p]
             v   == [w EXCEPT !.snap = row, !.pc = pc]
  <2>1. row \in Row /\ row.size = m.size /\ row.progress = p
    BY <1>m DEF Row
  <2>2. pc \in WorkerPC
    BY DEF WorkerPC
  <2>3. SetWorker(j, c, v) /\ mem' = [mem EXCEPT ![j][c] = row]
    BY <1>10
  <2> HIDE DEF row
  <2>4. /\ v \in Worker /\ v.pc = pc /\ v.n = w.n /\ v.pos = w.pos
        /\ v.buckets = w.buckets /\ v.snap = row /\ v.b = w.b /\ v.at = w.at
        /\ v.stop = w.stop /\ v.count = w.count
    BY <1>w, <2>1, <2>2 DEF Worker
  <2> HIDE DEF v
  <2>5. WorkerTo(j, c, v, row)
    BY <2>3 DEF WorkerTo
  <2>6. QED
    BY <2>1, <2>4, <2>5
<1>11. CASE SetProgress(j, c)
  <2> DEFINE p == Progress(j, c)
  <2>1. w.pc = "post" /\ w.at = w.stop
        /\ SetWorker(j, c, [w EXCEPT !.snap = [m EXCEPT !.progress = p], !.pc = "writeProgress"])
        /\ mem' = [mem EXCEPT ![j][c] = [m EXCEPT !.progress = p]]
    BY <1>11 DEF SetProgress, At
  <2>2. p = IF m.size > 0 THEN (w.count * 100) \div m.size ELSE 0
    BY DEF Progress
  <2>3. p \in Nat
    <3>1. m.size \in Nat
      BY <1>m DEF Row
    <3>2. \A a, b \in Nat : b > 0 => (a * 100) \div b \in Nat
      OBVIOUS
    <3>3. QED
      BY <1>w, <3>1, <3>2 DEF Progress
  <2> HIDE DEF p
  <2>4. PICK v, row :
          /\ v \in Worker /\ v.pc = "writeProgress" /\ v.n = w.n /\ v.pos = w.pos
          /\ v.buckets = w.buckets /\ v.snap = row /\ v.b = w.b /\ v.at = w.at
          /\ v.stop = w.stop /\ v.count = w.count
          /\ row.size = m.size /\ row.progress = p
          /\ WorkerTo(j, c, v, row)
    BY <1>10, <2>1, <2>3
  <2>5. row.progress = IF m.size > 0 THEN (w.count * 100) \div m.size ELSE 0
    BY <2>2, <2>4
  <2>6. Covers(c, v, row, got) /\ RowTrue(row, got)
    BY <1>w, <2>1, <2>4, <2>5, ProgressCovers
  <2>7. QED
    BY <2>4, <2>6
<1>12. CASE SetComplete(j, c)
  <2>1. w.pc = "batch" /\ w.b > Len(w.buckets)
        /\ SetWorker(j, c, [w EXCEPT !.snap = [m EXCEPT !.progress = 100], !.pc = "writeFinal"])
        /\ mem' = [mem EXCEPT ![j][c] = [m EXCEPT !.progress = 100]]
    BY <1>12 DEF SetComplete, At
  <2>2. PICK v, row :
          /\ v \in Worker /\ v.pc = "writeFinal" /\ v.n = w.n /\ v.pos = w.pos
          /\ v.buckets = w.buckets /\ v.snap = row
          /\ row.size = m.size
          /\ WorkerTo(j, c, v, row)
    BY <1>10, <2>1
  <2>3. Covers(c, v, row, got) /\ RowTrue(row, got)
    BY <1>w, <2>1, <2>2, CompleteCovers
  <2>4. QED
    BY <2>2, <2>3
<1>13. CASE Report(j, c)
  <2>1. /\ w.pc \in {"reportFailed", "reportSend", "reportProgress"} /\ UNCHANGED mem
        /\ SetWorker(j, c, [w EXCEPT !.pc = AfterReport(w.pc)])
    BY <1>13 DEF Report, Goto, At
  <2> DEFINE pc == AfterReport(w.pc)
  <2>2. pc \in WorkerPC /\ <<w.pc, pc>> \in Moves
    BY <2>1 DEF AfterReport, WorkerPC, Moves
  <2> HIDE DEF pc
  <2>3. SetWorker(j, c, [w EXCEPT !.pc = pc])
    BY <2>1 DEF pc
  <2>4. QED
    BY <1>goto, <2>1, <2>2, <2>3
<1>14. QED
  BY <1>1, <1>2, <1>3, <1>4, <1>5, <1>6, <1>7, <1>8, <1>9, <1>11, <1>12, <1>13 DEF WorkerStep

\* A post, whether it succeeds, keeps what the worker covers.
LEMMA PostKeepsCovers ==
  ASSUME TypeOK, LayoutInv, NEW j \in Jobs, NEW c \in Campaigns,
         Covers(c, work[j][c], mem[j][c], Attempted(c)),
         PostSucceeds(j, c) \/ PostFails(j, c)
  PROVE  \E v : /\ SetWorker(j, c, v) /\ UNCHANGED mem
                /\ Covers(c, v, mem[j][c], Attempted(c)')
<1> DEFINE w == work[j][c]
           m == mem[j][c]
<1>w. w \in Worker /\ Layout(w) /\ w.at \in Nat /\ w.stop \in Nat
  BY WorkerFields DEF TypeOK, LayoutInv
<1>1. PICK got, more : got = Attempted(c) /\ more = Attempted(c)'
  OBVIOUS
<1>2. /\ got \subseteq more
      /\ PostSucceeds(j, c) => w.at \in more
      /\ PostFails(j, c) => w.at..(w.stop - 1) \subseteq more
  BY <1>1, PostTries
<1>3. Covers(c, w, m, got) /\ w.pc = "post" /\ UNCHANGED mem
  BY <1>1 DEF PostSucceeds, PostFails, At
<1>4. CASE PostSucceeds(j, c)
  <2> DEFINE v == [w EXCEPT !.at = w.at + 1]
  <2>1. w.at + 1 \in Nat /\ w.at..((w.at + 1) - 1) \subseteq {w.at}
    <3>1. PICK at \in Nat : at = w.at
      BY <1>w
    <3>2. at + 1 \in Nat /\ at..((at + 1) - 1) \subseteq {at}
      OBVIOUS
    <3>3. QED
      BY <3>1, <3>2
  <2>2. SetWorker(j, c, v)
    BY <1>4 DEF PostSucceeds
  <2>3. v \in Worker /\ v.pc = w.pc /\ v.b = w.b /\ v.at = w.at + 1 /\ v.stop = w.stop
        /\ v.n = w.n /\ v.pos = w.pos /\ v.buckets = w.buckets /\ v.count = w.count
        /\ v.snap = w.snap
    BY <1>w, <2>1 DEF Worker
  <2> HIDE DEF v
  <2>4. w.at..(v.at - 1) \subseteq more
    BY <1>2, <1>4, <2>1, <2>3
  <2>5. Covers(c, v, m, more)
    BY <1>w, <1>2, <1>3, <2>3, <2>4, PostCovers
  <2>6. QED
    BY <1>1, <1>3, <2>2, <2>5
<1>5. CASE PostFails(j, c)
  <2> DEFINE v == [w EXCEPT !.at = w.stop, !.pc = "reportSend"]
  <2>1. SetWorker(j, c, v)
    BY <1>5 DEF PostFails
  <2>2. "reportSend" \in WorkerPC
    BY DEF WorkerPC
  <2>3. v \in Worker /\ v.pc = "reportSend" /\ v.b = w.b /\ v.at = w.stop /\ v.stop = w.stop
        /\ v.n = w.n /\ v.pos = w.pos /\ v.buckets = w.buckets /\ v.count = w.count
        /\ v.snap = w.snap
    BY <1>w, <2>2 DEF Worker
  <2> HIDE DEF v
  <2>4. w.at..(v.at - 1) \subseteq more
    BY <1>2, <1>5, <2>3
  <2>5. Covers(c, v, m, more)
    BY <1>w, <1>2, <1>3, <2>3, <2>4, PostCovers
  <2>6. QED
    BY <1>1, <1>3, <2>1, <2>5
<1>6. QED
  BY <1>4, <1>5

\* Every step of a worker, and its launch, keeps CompleteInv.
LEMMA WorkerCompleteInv ==
  ASSUME TypeOK, LayoutInv, ClaimInv, CompleteInv, NEW j \in Jobs, NEW c \in Campaigns,
         Launch(j, c) \/ WorkerStep(j, c), ~Die(j),
         \A d \in Campaigns : Attempted(d) \subseteq Attempted(d)'
  PROVE  CompleteInv'
<1>1. WorkerComplete(j, c)
  BY CompleteParts
<1>2. PICK got, more : got = Attempted(c) /\ more = Attempted(c)'
  OBVIOUS
<1>3. got \subseteq more
  BY <1>2
<1>4. PICK v, row : WorkerTo(j, c, v, row) /\ Covers(c, v, row, more) /\ RowTrue(row, more)
  <2>1. CASE PostSucceeds(j, c) \/ PostFails(j, c)
    <3>1. PICK v : SetWorker(j, c, v) /\ UNCHANGED mem /\ Covers(c, v, mem[j][c], more)
      BY <1>1, <1>2, <2>1, PostKeepsCovers DEF WorkerComplete
    <3>2. mem' = [mem EXCEPT ![j][c] = mem[j][c]]
      BY <3>1 DEF TypeOK
    <3>3. WorkerTo(j, c, v, mem[j][c])
      BY <3>1, <3>2 DEF WorkerTo
    <3>4. RowTrue(mem[j][c], more)
      BY <1>1, <1>2, <1>3, RowTrueGrows DEF WorkerComplete
    <3>5. QED
      BY <3>1, <3>3, <3>4
  <2>2. CASE ~PostSucceeds(j, c) /\ ~PostFails(j, c)
    <3>1. PICK v, row : WorkerTo(j, c, v, row) /\ Covers(c, v, row, got) /\ RowTrue(row, got)
      BY <1>1, <1>2, <2>2, QuietCovers DEF WorkerComplete
    <3>2. Covers(c, v, row, more) /\ RowTrue(row, more)
      BY <1>3, <3>1, CoversGrows, RowTrueGrows
    <3>3. QED
      BY <3>1, <3>2
  <2>3. QED
    BY <2>1, <2>2
<1>5. /\ work'[j][c] = v /\ mem'[j][c] = row
      /\ \A i \in Jobs, d \in Campaigns : ~(i = j /\ d = c) =>
           work'[i][d] = work[i][d] /\ mem'[i][d] = mem[i][d]
  BY <1>4 DEF WorkerTo, SetWorker, TypeOK
<1>6. WorkerComplete(j, c)'
  <2>1. Covers(c, work'[j][c], mem'[j][c], Attempted(c)') /\ RowTrue(mem'[j][c], Attempted(c)')
    BY <1>2, <1>4, <1>5
  <2>2. QED
    BY <2>1 DEF WorkerComplete, Covers, RowTrue, Consecutive
<1>7. \A i \in Jobs, d \in Campaigns : WorkerComplete(i, d)'
  BY <1>5, <1>6, CompleteFrame
<1>8. UNCHANGED sg
  BY DEF WorkerStep, Launch, Resolve, DownloadPage, DownloadFails, SearchPanics,
         GroupPanics, SetRunning, WriteSucceeds, WriteFails, Group, GroupsDone,
         StartBatch, NextBucket, PostSucceeds, PostFails, SetProgress, SetComplete, Report
<1>9. \A i \in Jobs : StatusComplete(i)'
  BY <1>8, CompleteFrame
<1>10. db' \in {db, [db EXCEPT ![c] = work[j][c].snap]}
       /\ (db' # db => At(j, c, WritePC))
  BY DEF WorkerStep, Launch, Resolve, DownloadPage, DownloadFails, SearchPanics,
         GroupPanics, SetRunning, WriteSucceeds, WriteFails, Group, GroupsDone,
         StartBatch, NextBucket, PostSucceeds, PostFails, SetProgress, SetComplete, Report
<1>11. CASE db' = db
  <2>1. \A d \in Campaigns : RowComplete(d)'
    BY <1>11, CompleteFrame
  <2>2. QED
    BY <1>7, <1>9, <2>1 DEF CompleteInv, RowComplete, StatusComplete, WorkerComplete
<1>12. CASE db' # db
  <2>1. db' = [db EXCEPT ![c] = work[j][c].snap] /\ At(j, c, WritePC)
    BY <1>10, <1>12
  <2>2. work[j][c].snap.status # "Pending"
    BY <2>1 DEF ClaimInv
  <2>3. db'[c] = work[j][c].snap /\ \A d \in Campaigns : d # c => db'[d] = db[d]
    BY <2>1 DEF TypeOK
  <2>4. RowTrue(work[j][c].snap, got)
    BY <1>1, <1>2 DEF WorkerComplete, Covers
  <2>5. RowTrue(db'[c], Attempted(c)')
    BY <1>2, <1>3, <2>3, <2>4, RowTrueGrows
  <2>6. RowComplete(c)'
    BY <2>2, <2>3, <2>5 DEF RowComplete, RowTrue
  <2>7. \A d \in Campaigns : RowComplete(d)'
    BY <2>3, <2>6, CompleteFrame
  <2>8. QED
    BY <1>7, <1>9, <2>7 DEF CompleteInv, RowComplete, StatusComplete, WorkerComplete
<1>13. QED
  BY <1>11, <1>12

\* A worker that is not running, or has only been created, has nothing to cover.
LEMMA IdleCovers ==
  ASSUME NEW c \in Campaigns, NEW m, NEW got
  PROVE  /\ RowTrue(NewRow, got)
         /\ Covers(c, Idle, m, got)
         /\ m.progress = 0 => Covers(c, [Idle EXCEPT !.pc = "queued"], m, got)
<1>1. RowTrue(NewRow, got)
  BY DEF RowTrue, NewRow
<1>2. Covers(c, Idle, m, got)
  BY <1>1 DEF Covers, Idle, BeforeClaim, AfterClaim, SendPC
<1>3. m.progress = 0 => Covers(c, [Idle EXCEPT !.pc = "queued"], m, got)
  BY <1>1 DEF Covers, Idle, BeforeClaim, AfterClaim, SendPC
<1>4. QED
  BY <1>1, <1>2, <1>3

\* Starting and ending a process, and its status goroutine, keep CompleteInv.
LEMMA ProcessCompleteInv ==
  ASSUME TypeOK, ClaimInv, CompleteInv, NEW j \in Jobs,
         \/ StartJob(j) \/ StartFails(j) \/ TasksDone(j) \/ Die(j) \/ StatusStep(j),
         \A d \in Campaigns : Attempted(d) \subseteq Attempted(d)'
  PROVE  CompleteInv'
<1>p. ASSUME \A c \in Campaigns : RowComplete(c)',
             \A i \in Jobs : StatusComplete(i)',
             \A i \in Jobs, c \in Campaigns : WorkerComplete(i, c)'
      PROVE  CompleteInv'
  BY <1>p DEF CompleteInv, RowComplete, StatusComplete, WorkerComplete
<1>1. CASE StartJob(j)
  <2>1. PICK due \in SUBSET PendingRows :
          /\ mem' = [mem EXCEPT ![j] = db]
          /\ work' = [work EXCEPT ![j] = [c \in Campaigns |->
               IF c \in due THEN [Idle EXCEPT !.pc = "queued"] ELSE Idle]]
    BY <1>1 DEF StartJob
  <2>2. UNCHANGED <<db, sg>>
    BY <1>1 DEF StartJob
  <2>3. \A i \in Jobs : i # j => work'[i] = work[i] /\ mem'[i] = mem[i]
    BY <2>1 DEF TypeOK
  <2>4. ASSUME NEW c \in Campaigns
        PROVE  WorkerComplete(j, c)'
    <3>1. mem'[j][c] = db[c]
          /\ work'[j][c] = IF c \in due THEN [Idle EXCEPT !.pc = "queued"] ELSE Idle
      BY <2>1 DEF TypeOK
    <3>2. RowComplete(c)
      BY CompleteParts
    <3>3. c \in due => db[c].progress = 0
      BY <3>2 DEF RowComplete, PendingRows
    <3>4. PICK more : more = Attempted(c)'
      OBVIOUS
    <3>5. Covers(c, work'[j][c], mem'[j][c], more)
      BY <3>1, <3>3, IdleCovers
    <3>6. RowTrue(mem'[j][c], more)
      BY <3>1, <3>2, <3>4, RowTrueGrows DEF RowComplete
    <3>7. QED
      BY <3>4, <3>5, <3>6 DEF WorkerComplete, Covers, RowTrue, Consecutive
  <2>5. QED
    BY <1>p, <2>2, <2>3, <2>4, CompleteFrame
<1>2. CASE StartFails(j) \/ TasksDone(j)
  <2>1. UNCHANGED <<db, mem, work, sg>>
    BY <1>2 DEF StartFails, TasksDone
  <2>2. QED
    BY <1>p, <2>1, CompleteFrame
<1>3. CASE Die(j) \/ StopStatus(j)
  <2>1. /\ UNCHANGED db
        /\ \A i \in Jobs : i # j => work'[i] = work[i] /\ mem'[i] = mem[i] /\ sg'[i] = sg[i]
        /\ sg'[j] = IdleStatus
        /\ \A c \in Campaigns : work'[j][c] = Idle /\ mem'[j][c] = NewRow
    BY <1>3 DEF Die, StopStatus, IdleProcess, TypeOK
  <2>2. ASSUME NEW c \in Campaigns
        PROVE  WorkerComplete(j, c)'
    <3>1. PICK more : more = Attempted(c)'
      OBVIOUS
    <3>2. Covers(c, work'[j][c], mem'[j][c], more) /\ RowTrue(mem'[j][c], more)
      BY <2>1, IdleCovers
    <3>3. QED
      BY <3>1, <3>2 DEF WorkerComplete, Covers, RowTrue, Consecutive
  <2>3. StatusComplete(j)'
    BY <2>1 DEF StatusComplete, RowTrue, IdleStatus, NewRow
  <2>4. QED
    BY <1>p, <2>1, <2>2, <2>3, CompleteFrame
<1>4. CASE Receive(j)
  <2> DEFINE r == Head(chan[j])
  <2>1. r \in Message
    BY <1>4 DEF Receive, TypeOK
  <2>2. r.c \in Campaigns
    BY <2>1 DEF Message
  <2>3. mem[j][r.c] \in Row
    BY <2>2 DEF TypeOK
  <2>4. /\ UNCHANGED <<db, work>>
        /\ mem' = [mem EXCEPT ![j][r.c] = [mem[j][r.c] EXCEPT !.status = r.status]]
        /\ sg'[j].snap = NewRow
        /\ \A i \in Jobs : i # j => sg'[i] = sg[i]
    BY <1>4 DEF Receive, TypeOK
  <2> HIDE DEF r
  <2>5. \A i \in Jobs, c \in Campaigns :
          mem'[i][c].size = mem[i][c].size /\ mem'[i][c].progress = mem[i][c].progress
    <3>1. \A i \in Jobs, c \in Campaigns :
            mem'[i][c] = IF i = j /\ c = r.c THEN [mem[j][r.c] EXCEPT !.status = r.status]
                         ELSE mem[i][c]
      BY <2>2, <2>4 DEF TypeOK
    <3>2. LET new == [mem[j][r.c] EXCEPT !.status = r.status]
          IN  new.size = mem[j][r.c].size /\ new.progress = mem[j][r.c].progress
      BY <2>3 DEF Row
    <3>3. QED
      BY <3>1, <3>2
  <2>6. StatusComplete(j)'
    BY <2>4 DEF StatusComplete, RowTrue, NewRow
  <2>7. QED
    BY <1>p, <2>4, <2>5, <2>6, CompleteFrame
<1>5. CASE CopyRow(j)
  <2>1. /\ UNCHANGED <<db, mem, work>>
        /\ sg'[j].c = sg[j].c /\ sg'[j].snap = mem[j][sg[j].c]
        /\ \A i \in Jobs : i # j => sg'[i] = sg[i]
    BY <1>5 DEF CopyRow, TypeOK
  <2>2. PICK c \in Campaigns : c = sg[j].c
    BY DEF TypeOK, StatusGoroutine
  <2>3. WorkerComplete(j, c)
    BY CompleteParts
  <2>4. RowTrue(sg'[j].snap, Attempted(c)')
    BY <2>1, <2>2, <2>3, RowTrueGrows DEF WorkerComplete
  <2>5. StatusComplete(j)'
    BY <2>1, <2>2, <2>4 DEF StatusComplete, RowTrue, Attempted, Tried
  <2>6. QED
    BY <1>p, <2>1, <2>5, CompleteFrame
<1>6. CASE WriteStatus(j)
  <2>1. /\ UNCHANGED <<mem, work>>
        /\ db' \in {db, [db EXCEPT ![sg[j].c] = sg[j].snap]}
        /\ sg'[j] = IdleStatus
        /\ \A i \in Jobs : i # j => sg'[i] = sg[i]
    BY <1>6 DEF WriteStatus, TypeOK
  <2>2. PICK c \in Campaigns : c = sg[j].c
    BY DEF TypeOK, StatusGoroutine
  <2>3. sg[j].snap.status # "Pending"
    BY <1>6 DEF WriteStatus, ClaimInv
  <2>4. StatusComplete(j)
    BY CompleteParts
  <2>5. ASSUME NEW d \in Campaigns
        PROVE  RowComplete(d)'
    <3>1. CASE db'[d] = db[d]
      BY <3>1, CompleteFrame
    <3>2. CASE db'[d] # db[d]
      <4>1. d = c /\ db'[c] = sg[j].snap
        BY <2>1, <2>2, <3>2 DEF TypeOK
      <4>2. RowTrue(db'[c], Attempted(c)')
        BY <2>2, <2>4, <4>1, RowTrueGrows DEF StatusComplete
      <4>3. QED
        BY <2>3, <4>1, <4>2 DEF RowComplete, RowTrue
    <3>3. QED
      BY <3>1, <3>2
  <2>6. StatusComplete(j)'
    BY <2>1 DEF StatusComplete, RowTrue, IdleStatus, NewRow
  <2>7. QED
    BY <1>p, <2>1, <2>5, <2>6, CompleteFrame
<1>7. QED
  BY <1>1, <1>2, <1>3, <1>4, <1>5, <1>6 DEF StatusStep

\* Every step of the job keeps CompleteInv.
LEMMA StepCompleteInv ==
  TypeOK /\ LayoutInv /\ ClaimInv /\ CompleteInv /\ [Next]_vars => CompleteInv'
<1> SUFFICES ASSUME TypeOK, LayoutInv, ClaimInv, CompleteInv, [Next]_vars
             PROVE  CompleteInv'
  OBVIOUS
<1>1. \A d \in Campaigns : Attempted(d) \subseteq Attempted(d)'
  BY AttemptedGrows
<1>2. CASE UNCHANGED vars
  <2>1. UNCHANGED <<db, mem, work, sg>>
    BY <1>2 DEF vars
  <2>2. QED
    BY <1>1, <2>1, CompleteFrame DEF CompleteInv, RowComplete, StatusComplete, WorkerComplete
<1>3. CASE Next
  <2>1. PICK j \in Jobs :
          \/ StartJob(j) \/ StartFails(j) \/ TasksDone(j) \/ Crash(j) \/ StatusStep(j)
          \/ \E c \in Campaigns : Launch(j, c) \/ WorkerStep(j, c)
    BY <1>3 DEF Next
  <2>2. CASE \/ StartJob(j) \/ StartFails(j) \/ TasksDone(j) \/ Die(j) \/ StatusStep(j)
    BY <1>1, <2>2, ProcessCompleteInv
  <2>3. CASE ~Die(j) /\ \E c \in Campaigns : Launch(j, c) \/ WorkerStep(j, c)
    BY <1>1, <2>3, WorkerCompleteInv
  <2>4. QED
    BY <2>1, <2>2, <2>3 DEF Crash
<1>4. QED
  BY <1>2, <1>3

\* A worker has tried everybody before its cursor, and whatever shows or may
\* yet write 100 percent belongs to a segment that was tried to its end.
THEOREM CompleteInvariant == Spec => []CompleteInv
<1>1. Init => CompleteInv
  <2>1. ASSUME Init, NEW c \in Campaigns, NEW j \in Jobs
        PROVE  RowComplete(c) /\ StatusComplete(j) /\ WorkerComplete(j, c)
    <3>1. db[c] = NewRow /\ mem[j][c] = NewRow /\ work[j][c] = Idle /\ sg[j].snap = NewRow
      BY <2>1 DEF Init, IdleStatus
    <3>2. RowComplete(c)
      BY <3>1 DEF RowComplete, RowTrue, NewRow
    <3>3. StatusComplete(j)
      BY <3>1 DEF StatusComplete, RowTrue, NewRow
    <3>4. WorkerComplete(j, c)
      BY <3>1, IdleCovers DEF WorkerComplete
    <3>5. QED
      BY <3>2, <3>3, <3>4
  <2>2. ASSUME Init, NEW c \in Campaigns
        PROVE  RowComplete(c)
    <3>1. db[c] = NewRow
      BY <2>2 DEF Init
    <3>2. QED
      BY <3>1 DEF RowComplete, RowTrue, NewRow
  <2>3. ASSUME Init, NEW j \in Jobs
        PROVE  StatusComplete(j)
    BY <2>1, <2>3, BoundsAssumption
  <2>4. QED
    BY <2>1, <2>2, <2>3, CompleteParts
<1>2. QED
  BY <1>1, StepCompleteInv, TypeCorrect, LayoutInvariant, ClaimInvariant, PTL DEF Spec

\* A row shows 100 percent only when the call for every user of its segment was
\* made, whatever processes overlap, crash or fail to write.
THEOREM CompleteIsAttempted == Spec => []CompleteMeansAttempted
<1>1. CompleteInv => CompleteMeansAttempted
  <2>1. SUFFICES ASSUME CompleteInv, NEW c \in Campaigns, db[c].progress = 100,
                        NEW u \in 0..(db[c].size - 1)
                 PROVE  Tried(c, u)
    BY DEF CompleteMeansAttempted
  <2>2. u \in Attempted(c)
    BY <2>1 DEF CompleteInv, RowTrue
  <2>3. QED
    BY <2>2 DEF Attempted
<1>2. QED
  BY <1>1, CompleteInvariant, PTL
=============================================================================
