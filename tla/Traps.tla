------------------------------- MODULE Traps --------------------------------
(***************************************************************************)
(* trap.c around a system call: where the user processes are, which of     *)
(* them have been killed, and what kill and the return to user mode do.    *)
(* Console and Clock add the system calls that sleep.                      *)
(***************************************************************************)
EXTENDS Integers, Sequences

CONSTANTS Procs

VARIABLES
  pc, killed,
  missed   \* history: who was killed between the test of killed and the sleep

traps == <<killed, missed>>

(* "user" in user mode; "reading" in consoleread (with or waiting for        *)
(* cons.lock), "readgap" past the test of killed and about to sleep,         *)
(* "readsleep" asleep; "ticking" in sys_sleep's loop, "tickgap" past the     *)
(* test, "ticksleep" asleep.                                                 *)
PCs == {"user", "reading", "readgap", "readsleep", "ticking", "tickgap", "ticksleep"}

TrapsInit ==
  pc = [p \in Procs |-> "user"] /\ killed = [p \in Procs |-> FALSE] /\ missed = {}

\* trap: a killed process does not get into a system call.
MayCall(p) == pc[p] = "user" /\ ~killed[p]

Awake(x) == CASE x = "readsleep" -> "reading" [] x = "ticksleep" -> "ticking" [] OTHER -> x

\* wakeup: every process asleep at x goes on.
Wakeup(x) == [p \in Procs |-> IF pc[p] = x THEN Awake(x) ELSE pc[p]]

\* kill: the flag, and a sleeper is made runnable.  It takes ptable.lock only, so
\* it may come while p, with cons.lock or tickslock, is between the test and sleep.
Kill(p) ==
  /\ ~killed[p]
  /\ killed' = [killed EXCEPT ![p] = TRUE]
  /\ missed' = IF pc[p] \in {"readgap", "tickgap"} THEN missed \union {p} ELSE missed
  /\ pc' = [pc EXCEPT ![p] = Awake(@)]

\* trap: exit before user code runs again; a new process takes the slot.
ExitKilled(p) ==
  /\ pc[p] = "user" /\ killed[p]
  /\ killed' = [killed EXCEPT ![p] = FALSE] /\ missed' = missed \ {p}
  /\ UNCHANGED pc
============================================================================
