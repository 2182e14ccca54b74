SPECIFICATION MCSpec
CONSTANTS
  Procs = {p1, p2}
  NoProc = NoProc
  NINODES = 3
  NINODE = 3
  Names = {"a", "b"}
  Calls <- MCCalls
SYMMETRY Perms
CHECK_DEADLOCK FALSE
INVARIANTS
  InodesSound
  NoDangling
  NoPanic
  OnlyPutCycles
