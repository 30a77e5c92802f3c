SPECIFICATION DualSpec
CONSTANTS
  t1 = t1
  t2 = t2
  NoValue = NoValue
  Threads = {t1, t2}
  Readers = {t1}
  Writers = {t1, t2}
  BatchSize = 2
  MaxTx <- Once
  NumWords = 2
  Values = {1, 2}
  Spans <- AnySpans
  CharRange = 256
  MaxOps = 3
INVARIANTS WritesKept MarksHaveOwners ReadOnlySnapshot
CHECK_DEADLOCK FALSE
