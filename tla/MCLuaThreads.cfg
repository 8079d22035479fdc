SPECIFICATION Spec
CONSTANTS
  Child = {c1, c2, c3}
  MAXREF = 6
  Careless = {}
SYMMETRY ChildSymmetry
INVARIANTS
  TypeOK
  NotCollected
  ListWhole
  OwnerCanRelease
