SPECIFICATION Spec
CONSTANTS
  r1 = r1 r2 = r2 r3 = r3 e1 = e1 e2 = e2 w1 = w1 w2 = w2
  Endpoint = {e1, e2}
  WA = {w1, w2}
  Matches <- MCMatches
  Request = {r1, r2, r3}
  Unnamed = {r2}
  ConfigOf <- MCOneConfig
SYMMETRY MCSymmetry
INVARIANTS
  TypeOK ListedExact RequestsExact StopClean
PROPERTY LostOnlyByRace
\* undefined behaviour ends a behaviour
CHECK_DEADLOCK FALSE
