SPECIFICATION FairSpec
CONSTANTS
  BITS = 8
  GAP = 6
  Polled = TRUE
  ME_X = 0
  ME_Y = 0
  PRESET = 5
  Strokes <- MCStrokes
  PowerUp <- MCPowerUp
  Garbled <- MCGarbled
INVARIANTS
  TypeOK
  NoTornByte
  Delivered
PROPERTIES
  Implements
  AllDelivered
