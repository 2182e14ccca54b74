SPECIFICATION MCSpec
CONSTANTS
  p1 = p1
  p2 = p2
  p3 = p3
  Procs = {p1, p2, p3}
  NBLOCKS = 3
  Vals = {0, 1}
  NLOG = 4
  LOGSIZE = 4
  MAXOPBLOCKS = 2
  OpBlocks = 1
  MaxCrash = 2
INVARIANT
  LogSound
PROPERTIES
  AtomicDurable
  SleeperWoken
