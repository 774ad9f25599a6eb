SPECIFICATION FairWorkerSpec
CONSTANTS
  Keys = {k1}
  HeartBeat = 0
  PurgePeriod = 0
  IdleAfter = 0
  DrainMax = 1
  MasterCap = 1
  WorkerCap = 1
  QuotaCap = 2
  Quotas <- MCQuotas
  Start = 5
  MaxTime = 6
  MaxRequests = 4
CHECK_DEADLOCK FALSE
INVARIANTS
  PassesWithinLimit
  RefusedOnlyAtLimit
  SetPassesWithinLimit
PROPERTIES
  QuotaViewAdvances
  RequestsJudged
