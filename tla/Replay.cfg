SPECIFICATION FairSpec
CONSTANTS
  N = 2
  GoRoutines = {1, 2, 3}
  Timer = 3
  MaxTurns = 3
  MaxEvents = 2
  MaxBatch = 2
  Schedules <- MCSchedules
INVARIANTS
  SerialReplay
  Faithful
PROPERTIES
  ReplaysSerially
  ReplayEnds
CHECK_DEADLOCK FALSE
