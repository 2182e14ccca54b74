------------------------------- MODULE Clock --------------------------------
(***************************************************************************)
(* The clock interrupt of trap.c and sys_sleep of sysproc.c.  ticks wraps  *)
(* at TICKS and the comparison with n is unsigned, so a negative argument  *)
(* is a large one.                                                         *)
(***************************************************************************)
EXTENDS Traps

CONSTANTS
  TICKS,      \* ticks counts modulo this (2^32)
  SleepArgs   \* n as an unsigned number

ASSUME ClockAssumption == TICKS \in Nat \ {0} /\ SleepArgs \subseteq 0..(TICKS - 1)

VARIABLES
  ticks, ticks0, dur,
  passed   \* history: ticks since the call, which do not wrap

clock == <<ticks, ticks0, dur, passed>>

ClockInit ==
  /\ ticks = 0 /\ ticks0 = [p \in Procs |-> 0] /\ dur = [p \in Procs |-> 0]
  /\ passed = [p \in Procs |-> 0]

Sleeping(p) == pc[p] \in {"ticking", "tickgap", "ticksleep"}

\* Nobody holds tickslock from its test to its sleep.
TicksFree == \A p \in Procs : pc[p] # "tickgap"

TickWakes == Wakeup("ticksleep")

(* The clock interrupt on cpu 0.  Bound: a process whose time is over runs   *)
(* again before ticks has gone round once more.                              *)
Tick ==
  /\ TicksFree
  /\ \A p \in Procs : Sleeping(p) => passed[p] < TICKS - 1
  /\ ticks' = (ticks + 1) % TICKS
  /\ passed' = [p \in Procs |-> IF Sleeping(p) THEN passed[p] + 1 ELSE 0]
  /\ pc' = TickWakes
  /\ UNCHANGED <<ticks0, dur, traps>>

SleepCall(p) ==
  /\ MayCall(p) /\ TicksFree
  /\ \E k \in SleepArgs : dur' = [dur EXCEPT ![p] = k]
  /\ ticks0' = [ticks0 EXCEPT ![p] = ticks]
  /\ pc' = [pc EXCEPT ![p] = "ticking"]
  /\ UNCHANGED <<ticks, passed, traps>>

\* Mutant of TooEarly: the deadline is computed first, and wraps.
TooEarlyDeadline(p) == ticks < (ticks0[p] + dur[p]) % TICKS

\* ticks - ticks0 < n
TooEarly(p) == (ticks - ticks0[p]) % TICKS < dur[p]

\* sys_sleep's loop: return 0, return -1, or go on to sleep.
SleepLoop(p) ==
  /\ pc[p] = "ticking" /\ TicksFree
  /\ IF TooEarly(p) /\ ~killed[p]
     THEN pc' = [pc EXCEPT ![p] = "tickgap"] /\ UNCHANGED <<ticks0, dur, passed>>
     ELSE /\ pc' = [pc EXCEPT ![p] = "user"]
          /\ ticks0' = [ticks0 EXCEPT ![p] = 0] /\ dur' = [dur EXCEPT ![p] = 0]
          /\ passed' = [passed EXCEPT ![p] = 0]
  /\ UNCHANGED <<ticks, traps>>

\* sleep(&ticks, &tickslock)
SleepSleep(p) ==
  /\ pc[p] = "tickgap"
  /\ pc' = [pc EXCEPT ![p] = "ticksleep"]
  /\ UNCHANGED <<clock, traps>>

ClockNext == Tick \/ \E p \in Procs : SleepCall(p) \/ SleepLoop(p) \/ SleepSleep(p)

----------------------------------------------------------------------------
(* Properties *)

\* sleep(n) returns after n ticks have passed, never earlier, wherever in its
\* range ticks was when the call began - unless the process was killed.
SleepsLongEnough ==
  [][\A p \in Procs : pc[p] = "ticking" /\ pc'[p] = "user" /\ ~killed[p] => passed[p] >= dur[p]]_
    <<pc, traps, clock>>

\* A process sleeps in sys_sleep only while its time is not over: a tick never
\* goes by without waking it; and a killed one only until the next tick, when
\* the kill came between its test and its sleep.
SleeperNotOverdue ==
  \A p \in Procs : pc[p] = "ticksleep" => passed[p] < dur[p] /\ (killed[p] => p \in missed)

============================================================================
