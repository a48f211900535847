SPECIFICATION FairSpec
CONSTANTS
  N = 2
  GoRoutines = {1, 2}
  Programs = {"local", "distributed"}
  NetProcs = {1, 2}
  TimerProcs = {1}
  SleepProcs = {1}
  MAX_EXPLORE_RUNS = 2
  maxDepth = 2
  MaxSlices = 2
INVARIANTS
  LockDiscipline
  SerialExplore
  TakenInOrder
PROPERTIES
  LeavesForGood
  ExploresSerially
  ExplorationEnds
CHECK_DEADLOCK FALSE
