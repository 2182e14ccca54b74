SPECIFICATION Spec
CONSTANTS
  Procs = {p1, p2}
  InitProc = p1
  NPAGES = 12
  PGSIZE = 2
  NPTE = 2
  KERNBASE = 12
  WORD = 24
  Grows = {3}
  Shrinks = {2, 3}
  ExecSizes = {1, 3, 13}
INVARIANTS
  SpacesSound
  PagesConserved
