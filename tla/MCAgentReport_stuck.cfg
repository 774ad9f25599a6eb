SPECIFICATION Spec
CONSTANTS
  Keys = {k1}
  Garbled = Garbled
  NumPerMin = 1
  NumPerIndex = 50
  ReportPeriod = 5
  LateAfter = 3
  RetryAfter = 4
  QuotaArrayNum = 2
  DrainMax = 1
  WorkerCap = 1
  QuotaCap = 1
  RspCap = 2
  Answers <- OneAnswer
  Start = 50
  MaxTime = 63
  MaxOffers = 4
CHECK_DEADLOCK FALSE
PROPERTIES
  OverdueReportRenewed
