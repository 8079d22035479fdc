CONSTANTS
  BYTE = 256
  TRIES = 3
  MAXRETRANS = 3
  EOTTRIES = 3
  srcsz = 200
  fsize = 200
  Faults = 2
SPECIFICATION FairSpec
INVARIANTS
  TypeOK
  SenderRight
PROPERTIES
  Implements
  Ends
\* Both programs return.
CHECK_DEADLOCK FALSE
