------------------------------ MODULE LineAbs -------------------------------
(***************************************************************************)
(* What the console promises of its input: a line under edit, that is      *)
(* handed over as a whole when it is ended or the buffer is full, and      *)
(* typed characters that readers take in order.                            *)
(***************************************************************************)
EXTENDS Sequences, Integers

CONSTANTS Size, Chars, Enders

VARIABLES edit, ready

Init == edit = <<>> /\ ready = <<>>

Type(c) ==
  /\ Len(edit) + Len(ready) < Size
  /\ IF c \in Enders \/ Len(edit) + Len(ready) + 1 = Size
     THEN ready' = ready \o Append(edit, c) /\ edit' = <<>>
     ELSE edit' = Append(edit, c) /\ UNCHANGED ready

Erase == edit # <<>> /\ edit' = SubSeq(edit, 1, Len(edit) - 1) /\ UNCHANGED ready

KillLine == edit' = <<>> /\ UNCHANGED ready

Take == ready # <<>> /\ ready' = Tail(ready) /\ UNCHANGED edit

Next == (\E c \in Chars : Type(c)) \/ Erase \/ KillLine \/ Take

Spec == Init /\ [][Next]_<<edit, ready>>
============================================================================
