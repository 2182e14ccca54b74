SPECIFICATION Spec
CONSTANTS
  Procs = {p1, p2}
  NoProc = NoProc
  INPUT_BUF = 2
  WORD = 4
  ReadSizes = {3}
  TICKS = 3
  SleepArgs = {2}
INVARIANT
  DevicesSound
PROPERTIES
  LinesInOrder
  SleepsLongEnough
  KilledLeaves
