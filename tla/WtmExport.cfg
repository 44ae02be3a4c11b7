SPECIFICATION Spec
CONSTANTS
  s1 = s1 s2 = s2 s3 = s3 p1 = p1 p2 = p2 w1 = w1 w2 = w2
  None = None
  WA = {w1, w2}
  Listener = {"nd"}
  Flaky = {w2}
  PropsOf <- MCPropsOf
  Capable <- MCCapable
  Service = {s1, s2, s3}
  Props = {p1, p2}
  MaxEndpoint = 7
SYMMETRY MCSymmetry
INVARIANTS
  TypeOK WiresExact ListenersExact NoLostExport
\* undefined behaviour ends a behaviour
CHECK_DEADLOCK FALSE
