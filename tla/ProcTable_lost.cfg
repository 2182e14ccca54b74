SPECIFICATION Spec
CONSTANTS
  CPUs = {c1}
  NoCpu = NoCpu
  NPROC = 2
  NLINKS = 4
  NCHAN = 0
  Prios = {}
  MaxPid = 2
  MinAcc = 0
  MaxAcc = 15
INVARIANT
  RunnableQueued
