SPECIFICATION FairGraderSpec
CONSTANTS
  w1 = w1
  w2 = w2
  w3 = w3
  Workers = {w1, w2, w3}
  First = w1
  Rounds = 3
  NbTx = 1
  SizeRange = 16
INVARIANTS GraderTypeOK TogetherInRound VerdictRight NothingUnreachable NobodyPassesEarly NoFalseAlarm LossFound UnloadIdle
PROPERTIES MeasureEnds
CHECK_DEADLOCK FALSE
