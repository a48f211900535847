SPECIFICATION FairSpec
CONSTANTS
  N = 3
  NetProcs = {1,2}
  EventTypes = {"LOG_EVENT","DELETEVAR_EVENT"}
  RECORDLEN = 5
  MaxSlices = 3
  MaxBatch = 2
  MaxReports = 3
INVARIANTS
  SerialExecution
  RecordedInOrder
  CoverageOfBatch
  DeadIsFinal
  CheckedInContext
PROPERTIES
  RefinesSerial
  RecordingStops
