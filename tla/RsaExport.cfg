SPECIFICATION Spec
CONSTANTS
  s1 = s1 r1 = r1 v1 = v1 v2 = v2
  None = None
  Service = {s1}
  Reg = {r1}
  ServiceOf <- MCServiceOf
  Wtm = {v1, v2}
  Early = {v2}
  Listener = {"discovery"}
  Worker = {"http"}
  MaxWire = 2
  Refused = {2}
INVARIANTS
  TypeOK NoLostRequest AnnouncedExact StaleOnlyEarly
\* undefined behaviour ends a behaviour
CHECK_DEADLOCK FALSE
