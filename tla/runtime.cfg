SPECIFICATION RuntimeSpec
CONSTANTS
  Workers = {w1, w2}
  Rounds = 3
  TickRange = 64
  MaxTime = 3
INVARIANTS RuntimeOfRound
CHECK_DEADLOCK FALSE
