----------------------------- MODULE MCBuffers ------------------------------
(* Buffers with a bound on what the processes of a behaviour do: two of them *)
(* read and write, and reads may fail, or three only read.                   *)
EXTENDS Buffers

CONSTANTS p1, p2, p3

VARIABLE load   \* the processes that run, and the blocks they change

Loads == {[procs |-> {p1, p2}, written |-> Written], [procs |-> {p1, p2, p3}, written |-> {}]}

MCInit == Init /\ load \in Loads

MCNext ==
  /\ Next /\ UNCHANGED load
  /\ \A p \in Procs : pc'[p] = "idle" \/ p \in load.procs
  /\ \A b \in Bufs : dirty'[b] \/ data'[b] = Garbage => blockno'[b] \in load.written

MCSpec == MCInit /\ [][MCNext]_<<vars, load>> /\ Fairness
=============================================================================
