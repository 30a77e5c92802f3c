SPECIFICATION RegionSpec
CONSTANTS
  t1 = t1
  t2 = t2
  t3 = t3
  s1 = s1
  s2 = s2
  s3 = s3
  NULL = NULL
  Threads = {t1, t2, t3}
  Readers = {}
  Writers = {t1, t2, t3}
  BatchSize = 2
  MaxTx <- AllocatorTwice
  Segs = {s1, s2, s3}
  Allocators = {t1}
  Freers = {t2, t3}
  Failing = {t1, t2}
  MaxOps <- FreerOnce
  CharRange = 256
SYMMETRY Symmetry
INVARIANTS SegTypeOK NothingLeaks FreedIsReadOnce LinkedWhileUp NothingLost CreatorsAreCurrent OneFreer UniqueIds
CHECK_DEADLOCK FALSE
