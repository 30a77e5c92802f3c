SPECIFICATION FairSpec
CONSTANTS
  t1 = t1
  t2 = t2
  t3 = t3
  Threads = {t1, t2, t3}
  Readers = {t1, t2, t3}
  Writers = {t1, t2, t3}
  BatchSize = 2
  MaxTx <- Once
PROPERTIES EndReturns
CHECK_DEADLOCK FALSE
