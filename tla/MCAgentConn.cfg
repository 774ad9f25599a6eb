SPECIFICATION FairSpec
CONSTANTS
  Reports = {r1, r2}
  Conns = {1, 2, 3}
  MaxOpen = 1
  ReadTime = 1
  Nobody = Nobody
  Garbage = Garbage
CHECK_DEADLOCK FALSE
INVARIANTS
  OneOwner
  AnswersOfReport
  OutcomeTold
PROPERTIES
  OnlyPingForgets
  SendsEnd
