SPECIFICATION DualSpec
CONSTANTS
  t1 = t1
  t2 = t2
  t3 = t3
  NoValue = NoValue
  Threads = {t1, t2, t3}
  Readers = {t3}
  Writers = {t1, t2}
  BatchSize = 2
  MaxTx <- Once
  NumWords = 1
  Values = {1, 2}
  Spans <- OneWord
  CharRange = 256
  MaxOps = 2
SYMMETRY Symmetry
PROPERTIES CommitsSerially
CHECK_DEADLOCK FALSE
