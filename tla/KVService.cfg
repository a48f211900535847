SPECIFICATION FairSpec
CONSTANTS
  numClients = 2
  numReplicas = 2
  Readers = {1}
  MaxPutClock = 1
  MayStop = {1}
INVARIANTS
  OrderedUnlessLate
  ReadsOwnWrite
PROPERTIES
  Served
CHECK_DEADLOCK FALSE
