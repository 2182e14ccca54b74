SPECIFICATION MCSpec
CONSTANTS
  p1 = p1
  p2 = p2
  p3 = p3
  Procs = {p1, p2, p3}
  NoProc = NoProc
  Blocks = {k1, k2, k3, k4}
  LogBlocks = {k1}
  Indirect = {k2}
  Written = {k2}
  NoBlock = NoBlock
  NBUF = 2
  Garbage = Garbage
  Vals = {0, 1}
  MaxDirty = 1
INVARIANTS
  BuffersSound
  NoLostUpdate
  EnoughBuffers
PROPERTY
  SleepersWoken
