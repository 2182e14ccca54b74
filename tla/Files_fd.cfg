SPECIFICATION Spec
SYMMETRY Perms
CHECK_DEADLOCK FALSE
CONSTANTS
  Procs = {p1, p2}
  NoProc = NoProc
  Inums = {i1, i2}
  NoInode = NoInode
  NBLOCKS = 4
  NDIRECT = 1
  BSIZE = 2
  Garbage = Garbage
  NFILE = 3
  NOFILE = 2
  Pipes = {q1}
  WriteSizes = {6}
  ReadSizes = {2}
  MAXWRITE = 3
  Mixes = {{"open", "unlink", "dup", "close", "fork", "exit", "pipe"}, {"open", "fork", "read", "write"}, {"open", "unlink", "exit", "write"}}
  OpenModes = {TRUE}
INVARIANTS
  CountsExact
  BlocksOwned
  FileContents
