SPECIFICATION FairBankSpec
CONSTANTS
  Workers = {w1, w2}
  nbaccounts = 2
  init_balance = 1
  nbtxperwrk = 2
  Triggers = {0, 3}
  MaxFails = 1
INVARIANTS BankTypeOK MoneyConserved NeverAccused SegmentsPacked EndedOnce
PROPERTIES RunEnds
CHECK_DEADLOCK FALSE
