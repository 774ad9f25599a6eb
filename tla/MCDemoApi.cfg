SPECIFICATION FairSpec
CONSTANTS
  Callers = {c1, c2}
  Keys = {k1, k2}
  Preset = k1
  Second = 1
  Interval = 2
  Refreshed = 3
  MinQuota = 0
  DefaultQuota = 1
  SetQuota = 1
  QuotaArrayNum = 2
  ChanCap = 2
  NumPerMin = 1
  NumPerIndex = 2
  Answers <- MCAnswers
  Start = 4
  MaxTime = 6
  MaxCalls = 3
CHECK_DEADLOCK FALSE
INVARIANTS
  TypeOK
  PassesWithinQuota
  
PROPERTIES
  CallsReturn
