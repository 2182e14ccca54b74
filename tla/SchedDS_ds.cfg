SPECIFICATION Spec
CONSTANTS
  Procs = {1, 2}
  Keys = {0, 1, 2}
  Links = {k1, k2, k3}
  Nodes = {d1, d2, d3}
  Null = Null
  RR = RR
  RP = RP
SYMMETRY HeapSymmetry
INVARIANT
  HeapSound
PROPERTY
  ImplementsQueues
