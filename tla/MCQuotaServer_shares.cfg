SPECIFICATION Spec
CONSTANTS
  Keys = {k1}
  Procs = {p1, p2}
  SetProcs = {}
  Grouped = {}
  ActQuota = 10
  Width = 10
  NumPerMin = 3
  NumPerIndex = 1
  FineInterval = 1
  AllocMin = 1
  ActiveWithin = 4
  ProveFor = 1
  WarmUp = 1
  CleanAt = 1
  ClearAt = 2
  CleanAfter = 2
  ProcMax = 5
  Expire = 9
  EraseEvery = 9
  Start = 4
  MaxTime = 8
  MaxReports = 4
  MaxNet = 1
  MaxRestarts = 0
  ProcQuotas = {5}
  Batches <- OneOrThree
  Ip <- OneHost
CHECK_DEADLOCK FALSE
INVARIANTS
  ShareWithinQuota
  QuotaOnlyToSteady
SYMMETRY ProcSymmetry
