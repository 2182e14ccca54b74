SPECIFICATION Spec
CONSTANTS
  Procs = {p1, p2, p3}
  Readers = {p1, p2}
  Writers = {p2, p3}
  NoProc = NoProc
  Bytes = {0, 1}
  PIPESIZE = 2
  WRAP = 4
  MaxN = 3
CHECK_DEADLOCK FALSE
INVARIANT
  PipeSound
PROPERTIES
  FifoQueue
  EofMeansClosed
