SPECIFICATION Spec
CONSTANTS
  PAGE = 2
  SECTOR = 2
  SECTORS = 3
  COUNT_FOR_A_SECOND = 1
  Bits <- MCBits
  Data <- MCData
  PIXEL = 2
  Concurrent = TRUE
INVARIANT FpgaIgnoresFlash
