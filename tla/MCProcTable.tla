---------------------------- MODULE MCProcTable ----------------------------
EXTENDS ProcTable, TLC
CpuSymmetry == Permutations(CPUs)
============================================================================
