SPECIFICATION Spec
CONSTANTS
  Names = {a, b}
  FILES = 2
  BLOCKS = 2
  PAYLOAD = 2
  Units = {"x", "y"}
  Writes <- MCWrites
  Handles = {h}
  Careless = {}
SYMMETRY MCNames
INVARIANTS
  TypeOK
  NoCrossLink
PROPERTIES
  NoLeak
  Implements
