SPECIFICATION Spec
CONSTANTS
  i1 = i1 w1 = w1
  None = None
  Import = {e1, e2}
  Interface = {i1}
  Wire = {w1}
  InterfaceOf <- MCInterfaceOf
  WireOf <- MCWireOf
  Wtm = {v1, v2}
  Early = {v2}
  SendService = {x1}
  SendWire <- MCSendWire
  Caller = {"user"}
SYMMETRY MCSymmetry
INVARIANTS
  TypeOK  NoLostImport NoLockCycle SendAlive
\* undefined behaviour ends a behaviour
CHECK_DEADLOCK FALSE
