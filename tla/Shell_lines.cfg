SPECIFICATION Spec
CHECK_DEADLOCK FALSE
CONSTANTS
  MAXARGS = 3
  NPROC = 6
  MaxLen = 4
  Lines <- MCLines
INVARIANTS
  ProcessesSound
  ParsesRight
  ForegroundDone
PROPERTIES
  ListOrder
  EveryoneEnds
