SPECIFICATION RunnerLiveSpec
CONSTANTS
  Timeout = 3
  MinTimeout = 1
  Slice = 2
  Grace = 2
  KillWait = 2
  MaxLines = 2
INVARIANTS
  NoChildLeft
  ReturnsInTime
  ResultIsTold
PROPERTIES
  CallEnds
CHECK_DEADLOCK FALSE
