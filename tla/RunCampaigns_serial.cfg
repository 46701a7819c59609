\* One campaign, two processes that do not overlap, segments of 0 to 3 users;
\* two events of the recipients, two rows of the log, one report at a time.
SPECIFICATION ReportsSpec
CONSTANTS
  c1 = c1
  j1 = j1
  j2 = j2
  l1 = l1
  l2 = l2
  NoLink = NoLink
  Campaigns = {c1}
  Jobs = {j1, j2}
  Ratios <- LargeFirst
  MaxSegment = 3
  PageLimit = 2
  BatchSize = 2
  MaxWorkers = 1
  StatusSlots = 2
  AllowOverlap = FALSE
  Links = {l1, l2}
  Readers = {0, 1}
  Clickers = {0}
  OpenTimes <- Times
  ClickTime = 20
  MaxEvents = 2
  MaxRows = 2
  ReportsDuringRuns = FALSE
  EmptyRuns = FALSE
SYMMETRY JobAndLinkSymmetry
INVARIANTS TypeOK AtMostOnce CompleteMeansAttempted
INVARIANTS ReportsTypeOK NoEventLost ResultsOfClaimed OpensReported ClicksReported
PROPERTIES DeliverySpec
CHECK_DEADLOCK FALSE
