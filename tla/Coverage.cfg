SPECIFICATION Spec
CONSTANTS
  numProcs = 2
  GoRoutines = {1, 2}
  TimerProcs = {2}
  Blocks = {"b1", "b2"}
  maxDepth = 1
  MaxActions = 4
  MaxCount = 1
  MaxSeed = 1
INVARIANTS
  StatsExact
  TotalsBounded
  RunIsBounded
CHECK_DEADLOCK FALSE
