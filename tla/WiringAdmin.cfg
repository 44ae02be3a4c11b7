SPECIFICATION FairSpec
CONSTANTS
  None = None
  k1 = k1 k2 = k2
  Worker = {k1, k2}
  Method = {"POST", "GET"}
  MaxWire = 3
  MaxServer = 2
INVARIANTS
  TypeOK ListedExact ServerExact
PROPERTY LockReleased
\* the admin may have been destroyed
CHECK_DEADLOCK FALSE
