SPECIFICATION LCFairSpec
CONSTANTS
  MAX_EXPLORE_RUNS = 5
INVARIANTS
  LaunchedAsAsked
PROPERTIES
  FinishesUnlessLate
  RunGetsProgram
CHECK_DEADLOCK FALSE
