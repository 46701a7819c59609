\* One task of 0 to 3 rows, one process, fewer result slots than rows.
SPECIFICATION FairSpec
CONSTANTS
  t1 = t1
  t2 = t2
  j1 = j1
  j2 = j2
  Tasks = {t1}
  Jobs = {j1}
  MaxRows = 3
  Wrap = 16
  BatchSize = 2
  ResultSlots = 2
  MaxWorkers = 1
  StatusSlots = 1
PROPERTIES EndsOrUnanswerable
CHECK_DEADLOCK FALSE
