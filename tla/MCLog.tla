------------------------------- MODULE MCLog --------------------------------
(* Log with a bound on what the processes of a behaviour do: two of them     *)
(* write any block and the machine crashes twice, or three compete for room  *)
(* in the log, write one block, and it crashes once.                         *)
EXTENDS Log

CONSTANTS p1, p2, p3

VARIABLE load   \* the processes that run, the blocks they write, the crashes

Loads == {[procs |-> {p1, p2}, blocks |-> Home, crashes |-> 2],
          [procs |-> {p1, p2, p3}, blocks |-> {NLOG}, crashes |-> 1]}

MCInit == Init /\ load \in Loads

MCNext ==
  /\ Next /\ UNCHANGED load
  /\ crashes' <= load.crashes
  /\ \A p \in Procs : (pc'[p] = "idle" \/ p \in load.procs) /\ wrote'[p] \subseteq load.blocks

MCSpec == MCInit /\ [][MCNext]_<<vars, load>> /\ Fairness
=============================================================================
