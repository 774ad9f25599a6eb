SPECIFICATION Spec
CONSTANTS
  Act = Act
  Ref = Ref
  Keys = {Act, Ref}
  NoKey = NoKey
  Threads = {t1, t2}
  Refer <- ReferToRef
  ReportPeriod = 1
  HeartBeat = 1
  Threshold = 1
  QuotaArrayNum = 2
  Expire = 1
  EraseEvery = 7
  Start = 6
  Totals = {4}
  Answers <- TwoAnswers
  NumPerMin = 2
  NumPerIndex = 1
  MaxCalls = 5
  MaxTime = 8
CHECK_DEADLOCK FALSE
INVARIANTS
  KeyPassesWithinQuota
  SetPassesWithinLimit
  SlotsCountRequests
  ReferTotalPositive
PROPERTY
  ReportsSpaced
SYMMETRY ThreadSymmetry
