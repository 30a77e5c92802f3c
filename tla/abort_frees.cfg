SPECIFICATION SegSpec
CONSTANTS
  t1 = t1
  t2 = t2
  s1 = s1
  s2 = s2
  s3 = s3
  NULL = NULL
  Threads = {t1, t2}
  Readers = {}
  Writers = {t1, t2}
  BatchSize = 2
  MaxTx <- Twice
  Segs = {s1, s2, s3}
  Allocators = {t1}
  Freers = {t2}
  Failing = {t2}
  MaxOps <- Twice
  CharRange = 256
SYMMETRY Symmetry
INVARIANTS AbortedFreesNothing
CHECK_DEADLOCK FALSE
