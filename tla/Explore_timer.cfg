SPECIFICATION Spec
CONSTANTS
  N = 2
  GoRoutines = {1, 2}
  Programs = {"distributed"}
  NetProcs = {}
  TimerProcs = {1}
  SleepProcs = {}
  MAX_EXPLORE_RUNS = 1
  maxDepth = 3
  MaxSlices = 2
INVARIANTS
  ActionOnItsProcess
CHECK_DEADLOCK FALSE
