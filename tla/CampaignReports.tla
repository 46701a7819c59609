-------------------------- MODULE CampaignReports --------------------------
(***************************************************************************)
(* What becomes of the messages of a campaign: the recipients open them    *)
(* and click their links, the email service calls OnEmailAction for every  *)
(* such event, the handler adds a row to campaign_log_tab, and GetCampaign *)
(* counts the rows for its report (src/handler/campaign.go,                *)
(* src/repo/campaign_log.go).                                              *)
(*                                                                         *)
(* The module composes these handlers with the run-campaigns job: both     *)
(* work on the campaign row, and a message carries the campaign email it   *)
(* was sent for as its tag.  A report is several queries without a         *)
(* transaction, so the job and the service may act between any two.        *)
(***************************************************************************)
EXTENDS RunCampaigns

CONSTANTS
  Links,             \* links in the emails
  NoLink,            \* the link of an event that has none
  Readers, Clickers, \* recipients who open messages, and who click links
  OpenTimes,         \* OpenTimes[u]: when recipient u opens a message
  ClickTime,         \* when links are clicked
  MaxEvents,         \* bound on the events of the recipients
  MaxRows,           \* bound on the rows of campaign_log_tab
  ReportsDuringRuns, \* whether events and reports fall into a run of the job
  EmptyRuns          \* whether a process starts when no campaign is Pending

ASSUME ReportsAssumption ==
  /\ NoLink \notin Links
  /\ Readers \cup Clickers \subseteq Recipients
  /\ OpenTimes \in [Recipients -> Nat \ {0}]
  /\ ClickTime \in Nat \ {0}
  /\ MaxEvents \in Nat
  /\ MaxRows \in Nat
  /\ {ReportsDuringRuns, EmptyRuns} \subseteq BOOLEAN

EmailIds == 1..MaxEmails
EmailsOf(c) == DOMAIN Ratios[c]

\* A message, with the campaign email that SendEmail passes as its only tag.
Tagged == [c : Campaigns, e : EmailIds, to : Recipients]

\* The events of SupportedEvents.  A call for any other one, or without a tag,
\* is answered and leaves no trace.
EventsOf(m) ==
  {[m |-> m, event |-> "unique_opened", link |-> NoLink]}
  \cup {[m |-> m, event |-> "click", link |-> l] : l \in Links}

EmailEvents == UNION {EventsOf(m) : m \in Tagged}

EventTime(x) ==
  IF x.event = "unique_opened" THEN OpenTimes[x.m.to] ELSE ClickTime

\* CampaignResult: opens, clicks by link and average open time of one email.
CampaignResult == [opens : Nat, links : [Links -> Nat], avg : Nat]
NoClicks == [l \in Links |-> 0]
NoResult == [opens |-> 0, links |-> NoClicks, avg |-> 0]

ReportPC == {"idle", "opens", "clicks", "avg", "answer"}

VARIABLES
  inbox,     \* messages the service took, and so delivers
  happened,  \* events of the recipients
  calls,     \* events the service has yet to report, or to report again
  log,       \* rows of campaign_log_tab, by id
  report     \* the GetCampaign request being handled

reportVars == <<inbox, happened, calls, log, report>>
allVars == <<vars, reportVars>>

\* A report under way: its campaign, the email whose rows are counted, the
\* results, and how many rows there were when it began.
Report_ ==
  [pc : ReportPC, c : Campaigns, k : EmailIds,
   results : [EmailIds -> CampaignResult], since : Nat]
IdleReport ==
  [pc |-> "idle", c |-> CHOOSE c \in Campaigns : TRUE, k |-> 1,
   results |-> [e \in EmailIds |-> NoResult], since |-> 0]

ReportsInit ==
  /\ Init
  /\ inbox = {}
  /\ happened = {}
  /\ calls = {}
  /\ log = <<>>
  /\ report = IdleReport

-----------------------------------------------------------------------------
(* The job, and the messages that leave with its steps.                    *)

Sent ==
  {m \in Tagged :
     /\ delivered'[m.c][m.to] # delivered[m.c][m.to]
     /\ \E j \in Jobs :
          /\ work[j][m.c].b = m.e
          /\ work'[j][m.c] # work[j][m.c]}

\* A process that finds no Pending campaign touches nothing the service or a
\* report sees.
WorthStarting ==
  EmptyRuns \/ PendingRows # {} \/ \A j \in Jobs : job[j] = "off" => job'[j] = "off"

JobStep ==
  /\ Next
  /\ WorthStarting
  /\ inbox' = inbox \cup Sent
  /\ UNCHANGED <<happened, calls, log, report>>

-----------------------------------------------------------------------------
(* Events, and the calls of the email service.                             *)

Now == ReportsDuringRuns \/ \A j \in Jobs : ~Alive(j)

Acts(x) == x.m.to \in IF x.event = "click" THEN Clickers ELSE Readers

Happens(x) ==
  /\ Now
  /\ Acts(x)
  /\ x \notin happened
  /\ Cardinality(happened) < MaxEvents
  /\ happened' = happened \cup {x}
  /\ calls' = calls \cup {x}
  /\ UNCHANGED <<vars, inbox, log, report>>

\* The event is inserted with a key of its own, whether or not it has
\* been logged before.
LogEvent(x) ==
  /\ Now
  /\ x \in calls
  /\ Len(log) < MaxRows
  /\ log' = Append(log, x)
  /\ calls' = calls \ {x}
  /\ UNCHANGED <<vars, inbox, happened, report>>

\* The handler answering as if the row had been inserted.
Swallowed(x) == calls \ {x}

\* An error is answered: the service will call again.
CalledAgain(x) == calls

\* The insertion fails, or it succeeds and its answer or the handler's is lost.
LogEventFails(x) ==
  /\ Now
  /\ x \in calls
  /\ Len(log) < MaxRows
  /\ log' \in {log, Append(log, x)}
  /\ calls' = CalledAgain(x)
  /\ UNCHANGED <<vars, inbox, happened, report>>

-----------------------------------------------------------------------------
(* GetCampaign.                                                            *)

\* The filter on the event lost, or the one on the campaign email.
AllEvents(rows, c, e, event) ==
  {i \in DOMAIN rows : rows[i].m.c = c /\ rows[i].m.e = e}
AllEmails(rows, c, e, event) == {i \in DOMAIN rows : rows[i].event = event}

\* The rows a filter on campaign email and event selects.
Rows(rows, c, e, event) ==
  {i \in DOMAIN rows :
     rows[i].m.c = c /\ rows[i].m.e = e /\ rows[i].event = event}

LinksIn(rows, ids) == {rows[i].link : i \in ids}

ClicksOn(rows, ids, l) == Cardinality({i \in ids : rows[i].link = l})

Count(c, e, event) == Cardinality(Rows(log, c, e, event))

\* The sum of the event times of these rows, in the order of the table.
TotalTime(rows, ids) ==
  LET total[i \in 0..Len(rows)] ==
        IF i = 0 THEN 0
        ELSE total[i - 1] + (IF i \in ids THEN EventTime(rows[i]) ELSE 0)
  IN  total[Len(rows)]

\* Avg, rounded half up; 0 when there is no row.
AvgTime(rows, ids) ==
  IF ids = {} THEN 0
  ELSE (2 * TotalTime(rows, ids) + Cardinality(ids)) \div (2 * Cardinality(ids))

\* The campaign and its emails, then segment and sender, none of which the
\* results depend on.
GetCampaign(c) ==
  /\ Now
  /\ report.pc = "idle"
  /\ report' = [IdleReport EXCEPT
       !.pc = "opens", !.c = c, !.since = Len(log)]
  /\ UNCHANGED <<vars, inbox, happened, calls, log>>

CountTotalUniqueOpen ==
  /\ Now
  /\ report.pc = "opens"
  /\ report' = [report EXCEPT
       !.results[report.k].opens = Count(report.c, report.k, "unique_opened"),
       !.pc = "clicks"]
  /\ UNCHANGED <<vars, inbox, happened, calls, log>>

\* GroupBy scans every group into the same LinkCount and returns that one
\* pointer once per group: the group scanned last, added up as often as there
\* are groups.  No order is asked for.
CountClicksByLink ==
  LET ids    == Rows(log, report.c, report.k, "click")
      groups == LinksIn(log, ids)
  IN
  /\ Now
  /\ report.pc = "clicks"
  /\ \/ /\ groups = {}
        /\ report' = [report EXCEPT !.pc = "avg"]
     \/ \E last \in groups \cap Links :
          report' = [report EXCEPT
            !.results[report.k].links[last] =
               Cardinality(groups) * ClicksOn(log, ids, last),
            !.pc = "avg"]
  /\ UNCHANGED <<vars, inbox, happened, calls, log>>

\* The loop going one round too far.
PastLast(c, k) == k > Len(Ratios[c])

LastEmail(c, k) == k = Len(Ratios[c])

\* The last query for an email; the loop goes on to the next one.
GetAvgOpenTime ==
  /\ Now
  /\ report.pc = "avg"
  /\ report' = [report EXCEPT
       !.results[report.k].avg =
          AvgTime(log, Rows(log, report.c, report.k, "unique_opened")),
       !.k = IF LastEmail(report.c, @) THEN @ ELSE @ + 1,
       !.pc = IF LastEmail(report.c, report.k) THEN "answer" ELSE "opens"]
  /\ UNCHANGED <<vars, inbox, happened, calls, log>>

\* The report is answered, or one of its queries failed.
EndReport ==
  /\ Now
  /\ report.pc # "idle"
  /\ report' = IdleReport
  /\ UNCHANGED <<vars, inbox, happened, calls, log>>

-----------------------------------------------------------------------------

EventStep(x) == LogEvent(x) \/ LogEventFails(x)

ReportStep ==
  \/ \E c \in Campaigns : GetCampaign(c)
  \/ CountTotalUniqueOpen
  \/ CountClicksByLink
  \/ GetAvgOpenTime
  \/ EndReport

ReportsNext ==
  \/ JobStep
  \/ \E m \in inbox : \E x \in EventsOf(m) : Happens(x)
  \/ \E x \in calls : EventStep(x)
  \/ ReportStep

ReportsSpec == ReportsInit /\ [][ReportsNext]_allVars

-----------------------------------------------------------------------------
(* Properties.                                                             *)

\* The state has the shape of the rows, calls and requests it stands for.
ReportsTypeOK ==
  /\ inbox \subseteq Tagged
  /\ happened \subseteq EmailEvents
  /\ calls \subseteq happened
  /\ log \in Seq(EmailEvents)
  /\ report \in Report_
  /\ report.k \in EmailsOf(report.c)

\* OnEmailAction loses no event: whatever calls and insertions fail, an event
\* it supports is logged or the service still has to report it.
NoEventLost ==
  \A x \in happened :
    x \in calls \/ \E i \in DOMAIN log : log[i] = x

\* A report that shows any result is one of a campaign that has left Pending for
\* good: the job claims the row before the first message, and neither its two
\* writers nor a later process hand the campaign back.
ResultsOfClaimed ==
  \A e \in EmailIds :
    report.results[e] # NoResult => db[report.c].status # "Pending"

\* The emails of the report whose clicks, or whose averages, have been read.
AvgRead == {e \in EmailsOf(report.c) : e < report.k \/ report.pc = "answer"}
ClicksRead == AvgRead \cup (IF report.pc = "avg" THEN {report.k} ELSE {})

Before == SubSeq(log, 1, report.since)

\* A report under way shows no open that was not logged when it is answered
\* and misses none that was when it began, and where it shows an open it shows
\* an average that lies between the times of the opens logged: it counts
\* before it averages, and nothing is ever removed from the log.
OpensReported ==
  report.pc # "idle" =>
    \A e \in AvgRead :
      LET opens(rows) ==
            {i \in DOMAIN rows :
               rows[i].m.c = report.c /\ rows[i].m.e = e
               /\ rows[i].event = "unique_opened"}
          r == report.results[e]
      IN  /\ Cardinality(opens(Before)) <= r.opens
          /\ r.opens <= Cardinality(opens(log))
          /\ (r.opens > 0) =>
               /\ \E i \in opens(log) : EventTime(log[i]) <= r.avg
               /\ \E i \in opens(log) : r.avg <= EventTime(log[i])

\* The clicks of a report are right as far as a scan into one shared LinkCount
\* goes: a link it shows was clicked in that email, an email clicked before
\* the report began shows a click, and as long as one link only has been
\* clicked its clicks are counted exactly.
ClicksReported ==
  report.pc # "idle" =>
    \A e \in ClicksRead :
      LET clicks(rows, l) ==
            Cardinality({i \in DOMAIN rows :
               rows[i].m.c = report.c /\ rows[i].m.e = e /\ rows[i].link = l})
          shown == report.results[e].links
          clicked(rows) == {l \in Links : clicks(rows, l) > 0}
      IN  /\ \A l \in Links : shown[l] > 0 => l \in clicked(log)
          /\ clicked(Before) # {} => \E l \in Links : shown[l] > 0
          /\ \A l \in Links :
               clicked(log) = {l} =>
                 /\ clicks(Before, l) <= shown[l]
                 /\ shown[l] <= clicks(log, l)

-----------------------------------------------------------------------------
(* The inductive invariant behind the properties, on top of the job's.     *)

\* Events are logged only after they happened, to messages that were sent, of
\* campaigns that had been claimed.
EventsKnown ==
  /\ \A m \in inbox : db[m.c].status # "Pending"
  /\ \A x \in happened : x.m \in inbox
  /\ \A i \in DOMAIN log : log[i] \in happened

\* The emails whose opens have been counted.
OpensRead == AvgRead \cup (IF report.pc \in {"clicks", "avg"} THEN {report.k} ELSE {})

OpensIn(rows, e) ==
  {i \in DOMAIN rows : /\ rows[i].m.c = report.c /\ rows[i].m.e = e
                       /\ rows[i].event = "unique_opened"}

\* Opens counted stay between those of the beginning and those of now; what has
\* not been read is empty, and what is shown comes from some row of the log.
ReportGrows ==
  /\ report.since <= Len(log)
  /\ \A e \in EmailIds :
       report.results[e] # NoResult => \E i \in DOMAIN log : log[i].m.c = report.c
  /\ report.pc = "idle" => \A e \in EmailIds : report.results[e] = NoResult
  /\ \A e \in EmailIds \ ClicksRead : report.results[e].links = NoClicks
  /\ report.pc # "idle" =>
       \A e \in OpensRead : /\ Cardinality(OpensIn(Before, e)) <= report.results[e].opens
                            /\ report.results[e].opens <= Cardinality(OpensIn(log, e))

ReportsInv ==
  /\ ReportsTypeOK /\ NoEventLost /\ EventsKnown
  /\ ReportGrows /\ OpensReported /\ ClicksReported

=============================================================================
