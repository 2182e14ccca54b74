SPECIFICATION Spec
CONSTANTS
  CPUs = {c1, c2, c3}
  NoCpu = NoCpu
  NPROC = 3
  NLINKS = 6
  NCHAN = 1
  Prios = {}
  MaxPid = 5
  MinAcc = 0
  MaxAcc = 0
SYMMETRY CpuSymmetry
INVARIANTS
  PidUnique
  ParentAlive
  ZombieNoticed
  KilledNotInWait
  EmbryoOwned
