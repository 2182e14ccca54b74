----------------------------- MODULE MCSchedDS -----------------------------
EXTENDS SchedDS, TLC
\* Links and MapNodes are interchangeable.
HeapSymmetry == Permutations(Links) \cup Permutations(Nodes)
============================================================================
