SPECIFICATION Spec
CONSTANTS
  Tenants = {t1}
  TagNames = {n1, n2}
  SegmentNames = {m1}
  ValueTypes <- IntOrStr
  Uds = {u1, u2}
  Values <- TwoAndTen
  Words <- OneWord
  TextOrder <- AsText
  Requests = {r1, r2}
  Criteria <- SomeCriteria
  Queries <- SomeQueries
  Limits <- OneOrTwo
  MaxQueryDepth = 2
  MaxBuckets = 1
  Million = 10
  MaxTags = 2
  MaxSegments = 2
  MaxRepeats = 1
  Absent = Absent
SYMMETRY AllSymmetry
INVARIANTS TypeOK OneRowPerName CountIsMeaning DownloadComplete DistinctWasStored
