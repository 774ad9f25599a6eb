SPECIFICATION Spec
CONSTANTS
  Keys = {k1}
  Procs = {p1, p2}
  SetProcs = {p1}
  Grouped = {p1}
  ActQuota = 10
  Width = 10
  NumPerMin = 1
  NumPerIndex = 2
  FineInterval = 2
  AllocMin = 1
  ActiveWithin = 2
  ProveFor = 0
  WarmUp = 1
  CleanAt = 5
  ClearAt = 5
  CleanAfter = 5
  ProcMax = 0
  Expire = 2
  EraseEvery = 6
  Start = 4
  MaxTime = 7
  MaxReports = 3
  MaxNet = 2
  MaxRestarts = 1
  ProcQuotas = {5}
  Batches <- OneEach
  Ip <- OwnHost
CHECK_DEADLOCK FALSE
INVARIANTS
  ActSumsCover
  OvercountOnlyByDisorder
  SetCallExclusive
PROPERTIES
  SetTimesAdvance
