SPECIFICATION FairSpec
CONSTANTS
  N = 2
  n = 1
  MaxTries = 2
  MaxLost = 1
INVARIANTS
  SticksConserved
  NeighboursExclude
  LeavesWhenNotNeeded
PROPERTIES
  DinnerEnds
CHECK_DEADLOCK FALSE
