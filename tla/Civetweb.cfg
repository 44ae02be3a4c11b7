CONSTANTS
  NumWorkers = 3
  QueueSize = 2
  MaxConnections = 6
SPECIFICATION FairSpec
CHECK_DEADLOCK FALSE
INVARIANTS TypeOK FreedMeansAlone
PROPERTIES ImplementsPool ConnectionServed StopReturns
