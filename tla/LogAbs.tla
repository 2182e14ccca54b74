------------------------------- MODULE LogAbs -------------------------------
(***************************************************************************)
(* What log.c promises to the file system: system calls are grouped into   *)
(* transactions, a transaction becomes durable all at once and only while  *)
(* no system call is in the middle of its updates, and a crash brings back *)
(* exactly the durable blocks.                                             *)
(***************************************************************************)
CONSTANTS Procs, Home, Vals

VARIABLES
  durable,   \* the blocks a reboot would find
  volatile,  \* the blocks the running system sees
  active     \* the processes inside a file system call

absvars == <<durable, volatile, active>>

AbsInit == durable \in [Home -> Vals] /\ volatile = durable /\ active = {}

Begin(p) ==
  /\ p \notin active /\ active' = active \cup {p}
  /\ UNCHANGED <<durable, volatile>>

Write(p) ==
  /\ p \in active
  /\ \E b \in Home, v \in Vals : volatile' = [volatile EXCEPT ![b] = v]
  /\ UNCHANGED <<durable, active>>

End(p) ==
  /\ p \in active /\ active' = active \ {p}
  /\ UNCHANGED <<durable, volatile>>

Commit == active = {} /\ durable' = volatile /\ UNCHANGED <<volatile, active>>

Crash == volatile' = durable /\ active' = {} /\ UNCHANGED durable

AbsNext ==
  Commit \/ Crash \/ \E p \in Procs : Begin(p) \/ Write(p) \/ End(p)

AbsSpec == AbsInit /\ [][AbsNext]_absvars
============================================================================
