------------------------------ MODULE PipeAbs ------------------------------
(***************************************************************************)
(* What a pipe promises: a bounded FIFO of bytes that keeps working until  *)
(* both ends are closed.                                                   *)
(***************************************************************************)
EXTENDS Naturals, Sequences

CONSTANTS Bytes, PIPESIZE

VARIABLES
  q,       \* the bytes written and not yet read
  out      \* the byte a reader got last

AbsInit == q = <<>> /\ out \in Bytes

Put == /\ Len(q) < PIPESIZE
       /\ \E b \in Bytes : q' = Append(q, b)
       /\ UNCHANGED out

Get == q # <<>> /\ out' = Head(q) /\ q' = Tail(q)

AbsSpec == AbsInit /\ [][Put \/ Get]_<<q, out>>
============================================================================
