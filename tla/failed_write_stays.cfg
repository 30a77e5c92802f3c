SPECIFICATION DualSpec
CONSTANTS
  t1 = t1
  t2 = t2
  NoValue = NoValue
  Threads = {t1, t2}
  Readers = {}
  Writers = {t1, t2}
  BatchSize = 2
  MaxTx <- Once
  NumWords = 2
  Values = {1, 2}
  Spans <- SomeSpans
  CharRange = 256
  MaxOps = 3
SYMMETRY Symmetry
INVARIANTS FreeWordsClean
CHECK_DEADLOCK FALSE
