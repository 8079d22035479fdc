SPECIFICATION FairSpec
CONSTANTS
  ME_X = 0
  ME_Y = 0
  PRESET = 5
  Strokes <- MCStrokes
  PowerUp <- MCPowerUp
  Waits = TRUE
INVARIANTS
  TypeOK
  ShownAsDrawn
PROPERTIES
  Implements
  FlipShown
