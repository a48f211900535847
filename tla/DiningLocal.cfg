SPECIFICATION LocalFairSpec
CONSTANTS
  N = 3
  MaxTries = 3
INVARIANTS
  LocalSticksConserved
  PanicOnReturn
PROPERTIES
  LocalDinnerEnds
CHECK_DEADLOCK FALSE
