SPECIFICATION Spec
CONSTANTS
  PastTime = 3
  WinLen = 2
  Threshold = 1
  FlowThreshold = 20
  RatioCheck = 100
  QosCap = 1
  RetCap = 1
  MaxInflight = 1
  Start = 4
  MaxTime = 8
  MaxSends = 6
CHECK_DEADLOCK FALSE
INVARIANTS
  VerdictCountsWindow
  NoFalseAlarm
  RefusalsBounded
