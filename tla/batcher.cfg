SPECIFICATION FairSpec
CONSTANTS
  t1 = t1
  t2 = t2
  t3 = t3
  Threads = {t1, t2, t3}
  Readers = {t1}
  Writers = {t1, t2, t3}
  BatchSize = 2
  MaxTx <- ReaderOnce
INVARIANTS TypeOK TurnExclusive CommitAlone InsideThisEpoch SlotsConserved WritingMeansWriters
PROPERTIES ReturnsCommitted TurnComes EpochEnds
CHECK_DEADLOCK FALSE
