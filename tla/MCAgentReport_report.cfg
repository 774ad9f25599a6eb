SPECIFICATION Spec
CONSTANTS
  Keys = {k1}
  Garbled = Garbled
  NumPerMin = 2
  NumPerIndex = 2
  ReportPeriod = 2
  LateAfter = 1
  RetryAfter = 1
  QuotaArrayNum = 2
  DrainMax = 2
  WorkerCap = 1
  QuotaCap = 2
  RspCap = 2
  Answers <- MCQuotas
  Start = 4
  MaxTime = 10
  MaxOffers = 4
CHECK_DEADLOCK FALSE
INVARIANTS
  QuotasInOrder
  StuckOnlyByLate
PROPERTIES
  ReportsCumulative
  SendsSpaced
  RenewedUnlessLate
  ImplementsLease
