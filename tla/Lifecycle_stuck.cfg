SPECIFICATION LCFairSpec
CONSTANTS
  MAX_EXPLORE_RUNS = 5
PROPERTIES
  Finishes
CHECK_DEADLOCK FALSE
