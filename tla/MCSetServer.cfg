SPECIFICATION SetSpec
CONSTANTS
  Keys = {k1}
  Procs = {p1, p2}
  SetProcs = {p1, p2}
  Grouped = {p1, p2}
  ActQuota = 10
  SetQuota = 8
  WorkerNum = 4
  Width = 10
  NumPerMin = 2
  NumPerIndex = 1
  FineInterval = 1
  AllocMin = 0
  ActiveWithin = 4
  ProveFor = 0
  WarmUp = 9
  CleanAt = 1
  ClearAt = 2
  CleanAfter = 2
  ProcMax = 5
  Expire = 0
  EraseEvery = 5
  Start = 4
  MaxTime = 6
  MaxReports = 3
  MaxNet = 1
  MaxRestarts = 1
  ProcQuotas <- AllQuotas
  Batches <- Threes
  Ip <- OneHost
CHECK_DEADLOCK FALSE
INVARIANTS
  SetOvercountOnlyByDisorder
PROPERTIES
  WithinSetOnSameTimes
SYMMETRY ProcSymmetry
