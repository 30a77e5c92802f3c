SPECIFICATION DualSpec
CONSTANTS
  t1 = t1
  t2 = t2
  NoValue = NoValue
  Threads = {t1, t2}
  Readers = {t1}
  Writers = {t1, t2}
  BatchSize = 2
  MaxTx <- ReaderOnce
  NumWords = 2
  Values = {1, 2}
  Spans <- SingleWords
  CharRange = 256
  MaxOps = 2
INVARIANTS DualTypeOK FreeWordsClean
PROPERTIES Serialisable
CHECK_DEADLOCK FALSE
