------------------------------ MODULE Devices -------------------------------
(***************************************************************************)
(* Console and Clock together: processes read lines, sleep and are killed  *)
(* while characters and clock ticks interrupt.                             *)
(***************************************************************************)
EXTENDS Console, Clock

vars == <<pc, traps, console, clock>>

Init == TrapsInit /\ ConsoleInit /\ ClockInit

Trapped == \E p \in Procs : Kill(p) \/ ExitKilled(p)

Next ==
  \/ ConsoleNext /\ UNCHANGED clock
  \/ ClockNext /\ UNCHANGED console
  \/ Trapped /\ UNCHANGED <<console, clock>>

(* Whoever wants a spinlock gets it in the end: the clock ticks, and a process *)
(* in the kernel or on its way out runs.                                     *)
Runs(p) ==
  \/ Read(p) /\ UNCHANGED clock
  \/ (SleepLoop(p) \/ SleepSleep(p)) /\ UNCHANGED console
  \/ ExitKilled(p) /\ UNCHANGED <<console, clock>>

Fairness == SF_vars(Tick /\ UNCHANGED console) /\ \A p \in Procs : SF_vars(Runs(p))

Spec == Init /\ [][Next]_vars /\ Fairness

----------------------------------------------------------------------------

\* The indices of the ring stay in the order r, w, e, at most INPUT_BUF apart
\* over the wrap; and the shapes of the rest.
TypeOK ==
  /\ pc \in [Procs -> PCs] /\ killed \in [Procs -> BOOLEAN] /\ missed \subseteq Procs
  /\ {rd, wr, ed} \subseteq 0..(WORD - 1) /\ ring \in [0..(INPUT_BUF - 1) -> Chars]
  /\ Sub(wr, rd) <= Sub(ed, rd) /\ Sub(ed, rd) <= INPUT_BUF
  /\ conslock \in Procs \union {NoProc} /\ ticks \in 0..(TICKS - 1)
  /\ \A p \in Procs : n[p] <= target[p] /\ passed[p] < TICKS

\* p was killed just before it fell asleep in consoleread, and no line has come.
Overlooked(p) == p \in missed /\ pc[p] \in {"readgap", "readsleep"}

\* A killed process leaves the console and the clock and exits, asleep or not;
\* one whose kill fell between the test and the sleep of consoleread
\* (console.c:251) does so once a line has woken it.
KilledLeaves == \A p \in Procs : killed[p] /\ ~Overlooked(p) ~> ~killed[p]

\* The indices of the ring are in order, and nobody sleeps past a line, a
\* deadline or a kill that came when it slept.
DevicesSound == TypeOK /\ ReaderSleepsOnEmpty /\ SleeperNotOverdue
============================================================================
