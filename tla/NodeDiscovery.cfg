SPECIFICATION Spec
CONSTANTS
  None = None
  w1 = w1 w2 = w2 l1 = l1 l2 = l2
  Wire = {w1, w2}
  Listener = {l1, l2}
  MaxDescr = 3
SYMMETRY MCSymmetry
INVARIANTS
  TypeOK DescriptionsExact
