----------------------------- MODULE ProcTable -----------------------------
(***************************************************************************)
(* The process table of proc.c: fork, exit, wait, kill, sleep and wakeup,  *)
(* detach, priority, and the priority scheduler that multiplexes the CPUs, *)
(* with the trap-time checks of trap.c that make a killed process exit.    *)
(*                                                                         *)
(* Every critical section of ptable.lock is one step, except the two that  *)
(* loop over the table waking sleepers (wakeup1) and handing over children *)
(* (exit): those take a step per process with `lock' held, because every   *)
(* woken process changes what get_min returns for the next.  fork is three *)
(* steps, since allocproc releases the lock before the child is complete.  *)
(*                                                                         *)
(* Null pointers are 0, a process is its slot in ptable.proc, and a sleep  *)
(* channel is a slot (wait sleeps on curproc) or one of Chans (the other   *)
(* kernel objects processes sleep on: &ticks, buffers, pipes, the log).    *)
(***************************************************************************)
EXTENDS SchedQueues

CONSTANTS
  CPUs,        \* the processors; each runs scheduler() for ever
  NoCpu,       \* ptable.lock is free
  NPROC,       \* slots of the process table
  NLINKS,      \* Links in the pool of ass1ds.cpp (NPROCLIST)
  NCHAN,       \* number of kernel sleep channels other than processes
  Prios,       \* the arguments processes pass to priority()
  MaxPid,      \* bound: no fork once nextpid exceeds it
  MinAcc, MaxAcc  \* bound: the accumulators explored

ASSUME ProcTableAssumption ==
  /\ NoCpu \notin CPUs
  /\ NPROC \in Nat \ {0} /\ NLINKS \in Nat \ {0} /\ NCHAN \in Nat
  /\ Prios \subseteq Int
  /\ MaxPid \in Nat \ {0}
  /\ MinAcc \in Int /\ MaxAcc \in Int /\ MinAcc <= 0 /\ 0 <= MaxAcc

Procs == 1..NPROC
Chans == (NPROC + 1)..(NPROC + NCHAN)
Accs == MinAcc..MaxAcc
initproc == 1
DefaultPriority == 5

VARIABLES
  state, pid, parent, chan, killed, prio, acc,   \* fields of struct proc
  nextpid,
  lock,      \* the CPU that holds ptable.lock, or NoCpu
  cpu,       \* cpus[c].proc
  sq,        \* pq, rrq, rpholder and the link pool: see SchedQueues
  waking,    \* the channel of the wakeup1 loop in progress, or 0
  pc,        \* where the process is, see PCs
  np         \* fork's local variable np

vars == <<state, pid, parent, chan, killed, prio, acc, nextpid, lock, cpu, sq,
          waking, pc, np>>

States == {"UNUSED", "EMBRYO", "SLEEPING", "RUNNABLE", "RUNNING", "ZOMBIE"}

(* "user"    in user mode;                                                  *)
(* "kern"    in a system call, before it has done its work;                 *)
(* "fork"    in fork, np allocated and the lock released;                   *)
(* "wait"    in wait: holding the lock, or asleep on itself;                *)
(* "ret"     at the end of a system call, before trap's last killed check;  *)
(* "exiting" in exit, closing files; the lock not yet taken;                *)
(* "exit"    in exit, holding the lock;                                     *)
(* "dead"    no code to run: a slot that was never used or has exited.      *)
PCs == {"user", "kern", "fork", "wait", "ret", "exiting", "exit", "dead"}

Init ==
  /\ state = [p \in Procs |-> IF p = initproc THEN "RUNNABLE" ELSE "UNUSED"]
  /\ pid = [p \in Procs |-> IF p = initproc THEN 1 ELSE 0]
  /\ parent = [p \in Procs |-> 0]
  /\ chan = [p \in Procs |-> 0]
  /\ killed = [p \in Procs |-> FALSE]
  /\ prio = [p \in Procs |-> IF p = initproc THEN DefaultPriority ELSE 0]
  /\ acc = [p \in Procs |-> 0]
  /\ nextpid = 2
  /\ lock = NoCpu
  /\ cpu = [c \in CPUs |-> 0]
  /\ sq = Put(InitSchedDS(NLINKS), initproc, 0)
  /\ waking = 0
  /\ pc = [p \in Procs |-> IF p = initproc THEN "user" ELSE "dead"]
  /\ np = [p \in Procs |-> 0]

\* CPU c executes process p, at pc l.  (While an interrupt handler on c holds
\* the lock, lock = c and the process it interrupted does not move.)
At(c, p, l) == cpu[c] = p /\ pc[p] = l

\* A process becomes ready to run: the accumulator is set to get_min and pq.put
\* is called.  Its return value is ignored.
MakeReady(p) ==
  /\ state' = [state EXCEPT ![p] = "RUNNABLE"]
  /\ acc' = [acc EXCEPT ![p] = GetMin(sq, acc)]
  /\ sq' = Put(sq, p, GetMin(sq, acc))

----------------------------------------------------------------------------
(* The scheduler. *)

\* Mutant of Dispatch: the state of the extracted process is not looked at.
DispatchUnchecked(c) ==
  /\ lock = NoCpu /\ cpu[c] = 0 /\ sq.pq # <<>>
  /\ LET p == MinEntry(sq).proc IN
     /\ cpu' = [cpu EXCEPT ![c] = p]
     /\ state' = [state EXCEPT ![p] = "RUNNING"]
     /\ sq' = AddHeld(ExtractMin(sq), p)
     /\ chan' = [chan EXCEPT ![p] = 0]
     /\ lock' = IF pc[p] = "wait" THEN c ELSE NoCpu
  /\ UNCHANGED <<pid, parent, killed, prio, acc, nextpid, waking, pc, np>>

\* Priority_Scheduler takes the first entry; its process is RUNNABLE.  swtch
\* resumes it where it gave up the CPU: in yield, in sleep, in forkret (these
\* release the lock), or in wait's loop, which goes on scanning under the lock.
Dispatch(c) ==
  /\ lock = NoCpu /\ cpu[c] = 0 /\ sq.pq # <<>>
  /\ LET p == MinEntry(sq).proc IN
     /\ state[p] = "RUNNABLE"
     /\ cpu' = [cpu EXCEPT ![c] = p]
     /\ state' = [state EXCEPT ![p] = "RUNNING"]
     /\ sq' = AddHeld(ExtractMin(sq), p)
     /\ chan' = [chan EXCEPT ![p] = 0]
     /\ lock' = IF pc[p] = "wait" THEN c ELSE NoCpu
  /\ UNCHANGED <<pid, parent, killed, prio, acc, nextpid, waking, pc, np>>

\* Mutant of DropStale: the entry of a RUNNABLE process is dropped too.
DropAny(c) ==
  /\ lock = NoCpu /\ cpu[c] = 0 /\ sq.pq # <<>>
  /\ sq' = ExtractMin(sq)
  /\ UNCHANGED <<state, pid, parent, chan, killed, prio, acc, nextpid, lock,
                 cpu, waking, pc, np>>

\* The entry is stale: its process is not RUNNABLE now.
DropStale(c) ==
  /\ lock = NoCpu /\ cpu[c] = 0 /\ sq.pq # <<>>
  /\ state[MinEntry(sq).proc] # "RUNNABLE"
  /\ sq' = ExtractMin(sq)
  /\ UNCHANGED <<state, pid, parent, chan, killed, prio, acc, nextpid, lock,
                 cpu, waking, pc, np>>

\* A timer interrupt calls yield, in user mode or in kernel mode with
\* interrupts on.  yield puts the process, and after sched() Priority_Scheduler
\* adds the priority to the accumulator and puts it again.  Both call
\* rpholder.remove; the second call finds the process gone.
Yield(c) ==
  /\ lock = NoCpu
  /\ \E p \in Procs :
       /\ cpu[c] = p /\ state[p] = "RUNNING"
       /\ acc[p] + prio[p] \in Accs
       /\ state' = [state EXCEPT ![p] = "RUNNABLE"]
       /\ acc' = [acc EXCEPT ![p] = @ + prio[p]]
       /\ sq' = Put(Put(RemoveHeld(sq, p), p, acc[p]), p, acc[p] + prio[p])
  /\ cpu' = [cpu EXCEPT ![c] = 0]
  /\ UNCHANGED <<pid, parent, chan, killed, prio, nextpid, lock, waking, pc, np>>

----------------------------------------------------------------------------
(* trap: entering and leaving the kernel. *)

\* A system call enters the kernel if the process is not killed.
Syscall(c) ==
  /\ lock # c
  /\ \E p \in Procs : /\ At(c, p, "user") /\ ~killed[p]
                      /\ pc' = [pc EXCEPT ![p] = "kern"]
  /\ UNCHANGED <<state, pid, parent, chan, killed, prio, acc, nextpid, lock, cpu,
                 sq, waking, np>>

\* The system call returns to user mode if the process is not killed.
Sysret(c) ==
  /\ lock # c
  /\ \E p \in Procs : /\ At(c, p, "kern") \/ At(c, p, "ret")
                      /\ ~killed[p]
                      /\ pc' = [pc EXCEPT ![p] = "user"]
  /\ UNCHANGED <<state, pid, parent, chan, killed, prio, acc, nextpid, lock, cpu,
                 sq, waking, np>>

\* A fault in user mode marks the process killed; trap then makes it exit.
\* init.c does not fault.
Fault(c) ==
  /\ lock # c
  /\ \E p \in Procs \ {initproc} :
       /\ At(c, p, "user")
       /\ killed' = [killed EXCEPT ![p] = TRUE]
       /\ pc' = [pc EXCEPT ![p] = "exiting"]
  /\ UNCHANGED <<state, pid, parent, chan, prio, acc, nextpid, lock, cpu, sq,
                 waking, np>>

----------------------------------------------------------------------------
(* fork *)

\* Mutant of Unused: allocproc takes a slot that another fork is building.
UnusedOrEmbryo == {p \in Procs : state[p] \in {"UNUSED", "EMBRYO"}}

Unused == {p \in Procs : state[p] = "UNUSED"}

\* Mutant of AllocProc: nextpid is read and not incremented.
AllocProcSamePid(c) ==
  /\ lock = NoCpu /\ nextpid <= MaxPid
  /\ \E p \in Procs, q \in Unused :
       /\ At(c, p, "kern")
       /\ \A r \in Unused : q <= r
       /\ state' = [state EXCEPT ![q] = "EMBRYO"]
       /\ pid' = [pid EXCEPT ![q] = nextpid]
       /\ np' = [np EXCEPT ![p] = q]
       /\ pc' = [pc EXCEPT ![p] = "fork"]
  /\ UNCHANGED <<parent, chan, killed, prio, acc, nextpid, lock, cpu, sq, waking>>

\* allocproc claims the first UNUSED slot.  Nothing clears the slot's killed.
AllocProc(c) ==
  /\ lock = NoCpu /\ nextpid <= MaxPid
  /\ \E p \in Procs, q \in Unused :
       /\ At(c, p, "kern")
       /\ \A r \in Unused : q <= r
       /\ state' = [state EXCEPT ![q] = "EMBRYO"]
       /\ pid' = [pid EXCEPT ![q] = nextpid]
       /\ np' = [np EXCEPT ![p] = q]
       /\ pc' = [pc EXCEPT ![p] = "fork"]
  /\ nextpid' = nextpid + 1
  /\ UNCHANGED <<parent, chan, killed, prio, acc, lock, cpu, sq, waking>>

\* The table is full and fork returns -1.
AllocFull(c) ==
  /\ lock = NoCpu /\ Unused = {}
  /\ \E p \in Procs : At(c, p, "kern") /\ pc' = [pc EXCEPT ![p] = "ret"]
  /\ UNCHANGED <<state, pid, parent, chan, killed, prio, acc, nextpid, lock, cpu,
                 sq, waking, np>>

\* kalloc or copyuvm finds no memory: the slot is given back without the lock,
\* and keeps its pid (and its killed, if somebody killed that pid meanwhile).
ForkFail(c) ==
  /\ lock # c
  /\ \E p \in Procs :
       /\ At(c, p, "fork")
       /\ state' = [state EXCEPT ![np[p]] = "UNUSED"]
       /\ pc' = [pc EXCEPT ![p] = "ret"]
       /\ np' = [np EXCEPT ![p] = 0]
  /\ UNCHANGED <<pid, parent, chan, killed, prio, acc, nextpid, lock, cpu, sq,
                 waking>>

\* The child is complete and joins the queue.
ForkFinish(c) ==
  /\ lock = NoCpu
  /\ \E p \in Procs :
       /\ At(c, p, "fork")
       /\ parent' = [parent EXCEPT ![np[p]] = p]
       /\ prio' = [prio EXCEPT ![np[p]] = DefaultPriority]
       /\ MakeReady(np[p])
       /\ pc' = [pc EXCEPT ![p] = "ret", ![np[p]] = "user"]
       /\ np' = [np EXCEPT ![p] = 0]
  /\ UNCHANGED <<pid, chan, killed, nextpid, lock, cpu, waking>>

----------------------------------------------------------------------------
(* wait *)

\* Mutant of Children: a child that has exited is not counted.
ChildrenAlive(p) == {q \in Procs : parent[q] = p /\ state[q] # "ZOMBIE"}

Children(p) == {q \in Procs : parent[q] = p}
Zombies(p) == {q \in Children(p) : state[q] = "ZOMBIE"}

WaitEnter(c) ==
  /\ lock = NoCpu
  /\ \E p \in Procs : At(c, p, "kern") /\ pc' = [pc EXCEPT ![p] = "wait"]
  /\ lock' = c
  /\ UNCHANGED <<state, pid, parent, chan, killed, prio, acc, nextpid, cpu, sq,
                 waking, np>>

\* The first ZOMBIE child in table order is freed.
WaitReap(c) ==
  /\ lock = c
  /\ \E p \in Procs : \E q \in Zombies(p) :
       /\ At(c, p, "wait")
       /\ \A r \in Zombies(p) : q <= r
       /\ pid' = [pid EXCEPT ![q] = 0]
       /\ parent' = [parent EXCEPT ![q] = 0]
       /\ killed' = [killed EXCEPT ![q] = FALSE]
       /\ state' = [state EXCEPT ![q] = "UNUSED"]
       /\ pc' = [pc EXCEPT ![p] = "ret"]
  /\ lock' = NoCpu
  /\ UNCHANGED <<chan, prio, acc, nextpid, cpu, sq, waking, np>>

\* No children, or killed: -1.
WaitReturn(c) ==
  /\ lock = c
  /\ \E p \in Procs : /\ At(c, p, "wait") /\ Zombies(p) = {}
                      /\ Children(p) = {} \/ killed[p]
                      /\ pc' = [pc EXCEPT ![p] = "ret"]
  /\ lock' = NoCpu
  /\ UNCHANGED <<state, pid, parent, chan, killed, prio, acc, nextpid, cpu, sq,
                 waking, np>>

\* sleep and sched: the lock passes to the scheduler, which releases it.  (Its
\* rpholder.remove repeats the one in sleep and finds nothing.)
GoToSleep(c, p, ch) ==
  /\ chan' = [chan EXCEPT ![p] = ch]
  /\ state' = [state EXCEPT ![p] = "SLEEPING"]
  /\ sq' = RemoveHeld(sq, p)
  /\ cpu' = [cpu EXCEPT ![c] = 0]
  /\ lock' = NoCpu

\* Mutant of WaitSleep: wait goes round its loop again, with the lock, instead of
\* sleeping, which would release it.
WaitSleepSpins(c) ==
  /\ lock = c
  /\ \E p \in Procs : /\ At(c, p, "wait") /\ Zombies(p) = {}
                      /\ Children(p) # {} /\ ~killed[p]
  /\ UNCHANGED vars

\* Mutant of WaitSleep: wait sleeps without looking at killed.
WaitSleepDeaf(c) ==
  /\ lock = c
  /\ \E p \in Procs : /\ At(c, p, "wait") /\ Zombies(p) = {}
                      /\ Children(p) # {}
                      /\ GoToSleep(c, p, p)
  /\ UNCHANGED <<pid, parent, killed, prio, acc, nextpid, waking, pc, np>>

WaitSleep(c) ==
  /\ lock = c
  /\ \E p \in Procs : /\ At(c, p, "wait") /\ Zombies(p) = {}
                      /\ Children(p) # {} /\ ~killed[p]
                      /\ GoToSleep(c, p, p)
  /\ UNCHANGED <<pid, parent, killed, prio, acc, nextpid, waking, pc, np>>

----------------------------------------------------------------------------
(* sleep and wakeup on other channels *)

\* A system call, or exit closing files, sleeps on a kernel object.
SleepOn(c) ==
  /\ lock = NoCpu
  /\ \E p \in Procs, ch \in Chans : /\ At(c, p, "kern") \/ At(c, p, "exiting")
                                    /\ GoToSleep(c, p, ch)
  /\ UNCHANGED <<pid, parent, killed, prio, acc, nextpid, waking, pc, np>>

\* wakeup, called by a process in the kernel or by an interrupt handler on any
\* CPU, idle or not.
Wakeup(c) ==
  /\ lock = NoCpu
  /\ lock' = c
  /\ waking' \in Chans
  /\ UNCHANGED <<state, pid, parent, chan, killed, prio, acc, nextpid, cpu, sq,
                 pc, np>>

Sleepers(ch) == {p \in Procs : state[p] = "SLEEPING" /\ chan[p] = ch}

\* wakeup1: the next sleeper in table order.
WakeOne(c) ==
  /\ lock = c /\ waking # 0
  /\ \E p \in Sleepers(waking) : /\ \A r \in Sleepers(waking) : p <= r
                                 /\ MakeReady(p)
  /\ UNCHANGED <<pid, parent, chan, killed, prio, nextpid, lock, cpu, waking, pc,
                 np>>

\* The loop ends; wakeup releases the lock, exit keeps it.
InExit(c) == cpu[c] # 0 /\ pc[cpu[c]] = "exit"

WakeDone(c) ==
  /\ lock = c /\ waking # 0 /\ Sleepers(waking) = {}
  /\ waking' = 0
  /\ lock' = IF InExit(c) THEN c ELSE NoCpu
  /\ UNCHANGED <<state, pid, parent, chan, killed, prio, acc, nextpid, cpu, sq,
                 pc, np>>

----------------------------------------------------------------------------
(* exit *)

\* sys_exit, or trap finds the process killed.  (exit panics for init.)
ExitBegin(c) ==
  /\ lock # c
  /\ \E p \in Procs \ {initproc} :
       /\ \/ At(c, p, "kern")
          \/ (At(c, p, "user") \/ At(c, p, "ret")) /\ killed[p]
       /\ pc' = [pc EXCEPT ![p] = "exiting"]
  /\ UNCHANGED <<state, pid, parent, chan, killed, prio, acc, nextpid, lock, cpu,
                 sq, waking, np>>

\* Mutant of ExitLock: the parent is not woken.
ExitLockSilent(c) ==
  /\ lock = NoCpu
  /\ \E p \in Procs : At(c, p, "exiting") /\ pc' = [pc EXCEPT ![p] = "exit"]
  /\ lock' = c
  /\ UNCHANGED <<state, pid, parent, chan, killed, prio, acc, nextpid, cpu, sq,
                 waking, np>>

\* The lock is taken and wakeup1(curproc->parent) starts.
ExitLock(c) ==
  /\ lock = NoCpu
  /\ \E p \in Procs : /\ At(c, p, "exiting")
                      /\ pc' = [pc EXCEPT ![p] = "exit"]
                      /\ waking' = parent[p]
  /\ lock' = c
  /\ UNCHANGED <<state, pid, parent, chan, killed, prio, acc, nextpid, cpu, sq,
                 np>>

\* The next child in table order goes to init, which is woken if it is ZOMBIE.
ExitReparent(c) ==
  /\ lock = c /\ waking = 0
  /\ \E p \in Procs : \E q \in Children(p) :
       /\ At(c, p, "exit")
       /\ \A r \in Children(p) : q <= r
       /\ parent' = [parent EXCEPT ![q] = initproc]
       /\ waking' = IF state[q] = "ZOMBIE" THEN initproc ELSE 0
  /\ UNCHANGED <<state, pid, chan, killed, prio, acc, nextpid, lock, cpu, sq, pc,
                 np>>

\* ZOMBIE, and into the scheduler for the last time.
ExitZombie(c) ==
  /\ lock = c /\ waking = 0
  /\ \E p \in Procs : /\ At(c, p, "exit") /\ Children(p) = {}
                      /\ state' = [state EXCEPT ![p] = "ZOMBIE"]
                      /\ sq' = RemoveHeld(sq, p)
                      /\ pc' = [pc EXCEPT ![p] = "dead"]
  /\ cpu' = [cpu EXCEPT ![c] = 0]
  /\ lock' = NoCpu
  /\ UNCHANGED <<pid, parent, chan, killed, prio, acc, nextpid, waking, np>>

----------------------------------------------------------------------------
(* kill, detach, priority *)

\* The slots kill(n) could hit, in any state; it hits the first one.
Matching(n) == {p \in Procs : pid[p] = n}

\* Killing init makes exit panic, so init's pid is not an input.
Kill(c) ==
  /\ lock = NoCpu
  /\ \E p \in Procs, q \in Procs \ {initproc} :
       /\ At(c, p, "kern")
       /\ \A r \in Matching(pid[q]) : q <= r
       /\ killed' = [killed EXCEPT ![q] = TRUE]
       /\ IF state[q] = "SLEEPING"
          THEN MakeReady(q)
          ELSE UNCHANGED <<state, acc, sq>>
       /\ pc' = [pc EXCEPT ![p] = "ret"]
  /\ UNCHANGED <<pid, parent, chan, prio, nextpid, lock, cpu, waking, np>>

\* detach(pid) of a child: init becomes its parent.  Nobody is woken.
Detach(c) ==
  /\ lock = NoCpu
  /\ \E p \in Procs : \E q \in Children(p) :
       /\ At(c, p, "kern")
       /\ parent' = [parent EXCEPT ![q] = initproc]
       /\ pc' = [pc EXCEPT ![p] = "ret"]
  /\ UNCHANGED <<state, pid, chan, killed, prio, acc, nextpid, lock, cpu, sq,
                 waking, np>>

\* priority(n): stored as it is.
Priority(c) ==
  /\ lock = NoCpu
  /\ \E p \in Procs, n \in Prios : /\ At(c, p, "kern")
                                   /\ prio' = [prio EXCEPT ![p] = n]
                                   /\ pc' = [pc EXCEPT ![p] = "ret"]
  /\ UNCHANGED <<state, pid, parent, chan, killed, acc, nextpid, lock, cpu, sq,
                 waking, np>>

Next ==
  \E c \in CPUs :
    \/ Dispatch(c) \/ DropStale(c) \/ Yield(c)
    \/ Syscall(c) \/ Sysret(c) \/ Fault(c)
    \/ AllocProc(c) \/ AllocFull(c) \/ ForkFail(c) \/ ForkFinish(c)
    \/ WaitEnter(c) \/ WaitReap(c) \/ WaitReturn(c) \/ WaitSleep(c)
    \/ SleepOn(c) \/ Wakeup(c) \/ WakeOne(c) \/ WakeDone(c)
    \/ ExitBegin(c) \/ ExitLock(c) \/ ExitReparent(c) \/ ExitZombie(c)
    \/ Kill(c) \/ Detach(c) \/ Priority(c)

Spec == Init /\ [][Next]_vars

(* A CPU that holds the lock has interrupts off and runs kernel code that    *)
(* neither sleeps nor waits, so it goes on: the loops of wakeup1, exit and   *)
(* wait are executed to their end.                                           *)
LockedStep(c) ==
  \/ WaitReap(c) \/ WaitReturn(c) \/ WaitSleep(c)
  \/ WakeOne(c) \/ WakeDone(c) \/ ExitReparent(c) \/ ExitZombie(c)

FairSpec == Spec /\ \A c \in CPUs : WF_vars(LockedStep(c))

----------------------------------------------------------------------------
(* Properties. *)

\* The type invariant.
TypeOK ==
  /\ state \in [Procs -> States]
  /\ pid \in [Procs -> 0..MaxPid]
  /\ parent \in [Procs -> Procs \cup {0}]
  /\ chan \in [Procs -> Procs \cup Chans \cup {0}]
  /\ killed \in [Procs -> BOOLEAN]
  /\ prio \in [Procs -> Int]
  /\ acc \in [Procs -> Accs]
  /\ nextpid \in 2..(MaxPid + 1)
  /\ lock \in CPUs \cup {NoCpu}
  /\ cpu \in [CPUs -> Procs \cup {0}]
  /\ sq \in SchedSet(Procs, MinAcc, MaxAcc)
  /\ sq.free <= NLINKS /\ sq.rrq = <<>>
  /\ waking \in Procs \cup Chans \cup {0}
  /\ pc \in [Procs -> PCs]
  /\ np \in [Procs -> Procs \cup {0}]

\* Although yield leaves two entries of one process in pq, no process is ever on
\* two CPUs, and the RUNNING processes are exactly those on a CPU: the state
\* check of Priority_Scheduler catches every stale entry.
OneCpuPerProc ==
  /\ \A c, d \in CPUs : cpu[c] # 0 /\ cpu[c] = cpu[d] => c = d
  /\ \A p \in Procs : state[p] = "RUNNING" <=> \E c \in CPUs : cpu[c] = p

\* "This structure holds the RUNNING processes": rpholder holds every RUNNING
\* process once and no other, although its add may fail for want of a link.
HeldRunning ==
  /\ NoDuplicate(sq.rp)
  /\ Held(sq) = {p \in Procs : state[p] = "RUNNING"}

\* No sequence of puts, extractions, adds and removes leaks or duplicates a
\* Link of the pool the structures share.
LinkPool == LinksConserved(sq, NLINKS)

\* extractMin always finds the smallest key first.
QueueSorted == Sorted(sq)

\* The state is well typed, the pool of links is conserved and pq is ordered by
\* key, after any sequence of puts, failed puts, stale entries and extractions.
QueuesOK == TypeOK /\ LinkPool /\ QueueSorted

\* pids name processes: no two slots carry the same nonzero pid, not even one
\* left behind in a slot that a failed fork gave back; every slot in use has one.
PidUnique ==
  /\ \A p, q \in Procs : p # q /\ pid[p] = pid[q] => pid[p] = 0
  /\ \A p \in Procs : state[p] # "UNUSED" => pid[p] # 0

\* No orphans: a process that has been born and not reaped has a parent that has
\* not exited, so somebody is there to wait for it.  exit hands over the
\* children, one by one, before it becomes a ZOMBIE.
ParentAlive ==
  \A p \in Procs \ {initproc} :
    state[p] \notin {"UNUSED", "EMBRYO"} =>
      /\ parent[p] \in Procs
      /\ state[parent[p]] \in {"SLEEPING", "RUNNABLE", "RUNNING"}

\* No lost wakeup between wait and exit: nobody (init aside) is asleep in wait
\* while one of its children is a ZOMBIE.
ZombieNoticed ==
  \A p \in Procs \ {initproc} : Zombies(p) # {} => p \notin Sleepers(p)

\* No lost kill: a killed process is never asleep in wait, whatever the order
\* of the kill and of wait's last look at killed.
KilledNotInWait == \A p \in Procs : killed[p] => p \notin Sleepers(p)

\* A slot being built by fork, without the lock, belongs to one forking process.
EmbryoOwned ==
  /\ \A p \in Procs : pc[p] = "fork" <=> np[p] # 0
  /\ \A p, q \in Procs : np[p] # 0 /\ np[p] = np[q] => p = q
  /\ \A q \in Procs : state[q] = "EMBRYO" <=> \E p \in Procs : np[p] = q

\* A step leaves a process RUNNABLE and without an entry in pq only by a put that
\* found the link pool empty: dropping stale entries and dispatching never do it.
NoSilentLoss ==
  [][\A p \in Procs :
       /\ state'[p] = "RUNNABLE" /\ p \notin Queued(sq')
       /\ ~(state[p] = "RUNNABLE" /\ p \notin Queued(sq))
       => sq.free = 0]_vars

\* Every critical section of ptable.lock ends.
LockReleased == lock # NoCpu ~> lock = NoCpu

----------------------------------------------------------------------------
(* What a comment says and the code does not do. *)

\* schedulinginterface.h: pq "holds the RUNNABLE processes".
RunnableQueued == \A p \in Procs : state[p] = "RUNNABLE" => p \in Queued(sq)
============================================================================
