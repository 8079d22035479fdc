CONSTANTS
  BYTE = 4
  TRIES = 3
  MAXRETRANS = 3
  EOTTRIES = 3
  srcsz = 300
  fsize = 300
  Faults = 0
SPECIFICATION Spec
PROPERTIES
  RepeatsAccepted
\* Both programs return.
CHECK_DEADLOCK FALSE
