------------------------------ MODULE MCFiles -------------------------------
(* Files for TLC: processes and inodes are interchangeable. *)
EXTENDS Files, TLC

Perms == Permutations(Procs) \union Permutations(Inums)
============================================================================
