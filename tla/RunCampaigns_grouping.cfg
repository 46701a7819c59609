\* A segment of one user and three emails.
SPECIFICATION Spec
CONSTANTS
  c1 = c1
  c2 = c2
  j1 = j1
  j2 = j2
  Campaigns = {c1}
  Jobs = {j1}
  Ratios <- ThreeThirds
  MaxSegment = 1
  PageLimit = 1
  BatchSize = 1
  MaxWorkers = 1
  StatusSlots = 1
  AllowOverlap = FALSE
INVARIANTS GroupingTotal
CHECK_DEADLOCK FALSE
