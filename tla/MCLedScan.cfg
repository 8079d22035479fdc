SPECIFICATION FairSpec
CONSTANTS
  WORDS = 2
  ROWS = 2
  LEVELS = 4
  BLANK = 12
  PIXELS = 6
  RATIO = 2
  Shows = {0, 1}
INVARIANTS
  TypeOK
  LineWhole
  NoGhost
PROPERTIES
  StepsInOrder
  Refreshed
  FlipHappens
