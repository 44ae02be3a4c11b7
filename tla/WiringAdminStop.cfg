SPECIFICATION FairSpec
CONSTANTS
  None = None
  k1 = k1 k2 = k2
  Worker = {k1}
  Method = {"POST"}
  MaxWire = 1
  MaxServer = 1
PROPERTY MgStopReturns
\* the admin may have been destroyed
CHECK_DEADLOCK FALSE
