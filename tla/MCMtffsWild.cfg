SPECIFICATION Spec
CONSTANTS
  Names = {a, b}
  FILES = 2
  BLOCKS = 2
  PAYLOAD = 1
  Units = {"x"}
  Writes <- MCBlockWrites
  Handles = {h}
  Careless = {"hole", "tear"}
SYMMETRY MCNames
INVARIANTS
  ChainsEnd
PROPERTIES
  NoLeak
