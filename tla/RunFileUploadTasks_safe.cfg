\* One task, two processes that may overlap, files of 0 to 2 rows, one result slot.
SPECIFICATION Spec
CONSTANTS
  t1 = t1
  t2 = t2
  j1 = j1
  j2 = j2
  Tasks = {t1}
  Jobs = {j1, j2}
  MaxRows = 2
  Wrap = 16
  BatchSize = 1
  ResultSlots = 1
  MaxWorkers = 1
  StatusSlots = 1
SYMMETRY JobSymmetry
INVARIANTS TypeOK SuccessMeansIndexed ProgressHonest InvalidWritesNothing
CHECK_DEADLOCK FALSE
