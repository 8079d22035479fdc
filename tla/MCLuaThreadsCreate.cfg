SPECIFICATION Spec
CONSTANTS
  Child = {c1, c2, c3, c4}
  MAXREF = 6
  Careless = {"create"}
SYMMETRY ChildSymmetry
INVARIANT NotCollected
CHECK_DEADLOCK FALSE
