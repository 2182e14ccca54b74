SPECIFICATION FairSpec
CONSTANTS
  CPUs = {c1, c2}
  NoCpu = NoCpu
  NPROC = 2
  NLINKS = 3
  NCHAN = 1
  Prios = {0}
  MaxPid = 3
  MinAcc = 0
  MaxAcc = 5
INVARIANTS
  QueuesOK
  OneCpuPerProc
  HeldRunning
PROPERTIES
  NoSilentLoss
  LockReleased
