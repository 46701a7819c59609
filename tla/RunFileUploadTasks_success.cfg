\* A status written after the final one.
SPECIFICATION Spec
CONSTANTS
  t1 = t1
  t2 = t2
  j1 = j1
  j2 = j2
  Tasks = {t1}
  Jobs = {j1}
  MaxRows = 1
  Wrap = 16
  BatchSize = 1
  ResultSlots = 1
  MaxWorkers = 1
  StatusSlots = 1
INVARIANTS SuccessKept
CHECK_DEADLOCK FALSE
