\* Two campaigns that share one slot of the semaphore, one process; the second
\* one's segment of one user ends the process.
SPECIFICATION FairSpec
CONSTANTS
  c1 = c1
  c2 = c2
  j1 = j1
  j2 = j2
  Campaigns = {c1, c2}
  Jobs = {j1}
  Ratios <- HalvesAndThirds
  MaxSegment = 1
  PageLimit = 1
  BatchSize = 1
  MaxWorkers = 1
  StatusSlots = 1
  AllowOverlap = FALSE
INVARIANTS PendingMeansUnsent
PROPERTIES NeverPendingAgain RunEnds
CHECK_DEADLOCK FALSE
