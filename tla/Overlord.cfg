SPECIFICATION FairSpec
CONSTANTS
  NUM_ITERATIONS = 2
INVARIANTS
  OwnFiles
  MeasuredAsLabelled
PROPERTIES
  OverlordEnds
CHECK_DEADLOCK FALSE
