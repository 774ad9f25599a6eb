SPECIFICATION Spec
CONSTANTS
  Workers = {w1, w2}
  ReportPeriod = 1
  HeartBeat = 1
  FloatPercent = 10
  Floor = 1
  NoQuota = 1
  TotalQuota = 3
  QuotaArrayNum = 2
  CleanAfter = 3
  CleanTimes = {7}
  NumPerMin = 2
  NumPerIndex = 1
  MaxStall = 1
  Answers <- TwoAnswers
  Start = 6
  MaxTime = 8
  MaxCalls = 3
  MaxDeaths = 1
CHECK_DEADLOCK FALSE
INVARIANTS
  LockExclusive
  PassesWithinQuota
  SlotsNeverOvercount
PROPERTIES
  ReportsShrinkOnlyByRace
SYMMETRY WorkerSymmetry
