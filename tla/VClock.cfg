SPECIFICATION FairSpec
CONSTANTS
  MaxUint64 = 9
  GoRoutines = {"g1", "g2"}
  Timers = {"t1"}
  MaxDelay = 2
  Horizon = 4
  MaxEvents = 3
INVARIANTS
  SleepersHaveAlarms
  NothingOverdue
PROPERTIES
  FiresEarliest
  SleepEnds
CHECK_DEADLOCK FALSE
