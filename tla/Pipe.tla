-------------------------------- MODULE Pipe --------------------------------
(***************************************************************************)
(* pipe.c: one pipe, the processes that read and write it, and kill.       *)
(*                                                                         *)
(* p->lock is held from the start of a call to its end except in sleep, so *)
(* a step with the lock held is invisible to the other processes; only     *)
(* killed, which kill sets without the pipe's lock, is seen in between.    *)
(* nread and nwrite are unsigned and wrap, here at WRAP.                   *)
(***************************************************************************)
EXTENDS Integers, Sequences, FiniteSets

CONSTANTS
  Procs, Readers, Writers,  \* the processes, and who has which end open at first
  NoProc,                   \* p->lock is free
  Bytes, PIPESIZE, WRAP,
  MaxN                      \* bound: the largest n of a read or write call

ASSUME PipeAssumption ==
  /\ Readers \subseteq Procs /\ Readers # {}
  /\ Writers \subseteq Procs /\ Writers # {}
  /\ NoProc \notin Procs /\ Bytes # {}
  /\ PIPESIZE \in Nat \ {0} /\ MaxN \in Nat
  /\ WRAP \in Nat /\ PIPESIZE < WRAP /\ WRAP % PIPESIZE = 0

VARIABLES
  data, nread, nwrite,
  readopen, writeopen,
  rfd, wfd,   \* the processes that have the read, the write end open
  freed,      \* kfree has been called
  lock,       \* the holder of p->lock
  pc,         \* where each process is, see PCs
  n, i,       \* the argument and the loop variable of its call
  out,        \* the byte piperead copied last
  killed

vars == <<data, nread, nwrite, readopen, writeopen, rfd, wfd, freed, lock, pc, n,
          i, out, killed>>
ends == <<readopen, writeopen, rfd, wfd, freed>>

(* "idle"; "wloop" in pipewrite's loop; "wtest" past the test of readopen and *)
(* killed, about to sleep; "wsleep" asleep on &nwrite; "wwoken" about to take *)
(* the lock again; the same for piperead, and "rcopy" in its copying loop.    *)
PCs == {"idle", "wloop", "wtest", "wsleep", "wwoken",
        "rloop", "rtest", "rsleep", "rwoken", "rcopy"}

\* Mutant of Full: one byte too many fits.
FullTooLate == nwrite = (nread + PIPESIZE + 1) % WRAP

Full == nwrite = (nread + PIPESIZE) % WRAP
Empty == nread = nwrite

\* pipealloc has succeeded.
Init ==
  /\ data \in [0..(PIPESIZE - 1) -> Bytes]    \* kalloc does not clear the page
  /\ nread = 0 /\ nwrite = 0
  /\ readopen = TRUE /\ writeopen = TRUE /\ rfd = Readers /\ wfd = Writers
  /\ freed = FALSE /\ lock = NoProc
  /\ pc = [p \in Procs |-> "idle"]
  /\ n = [p \in Procs |-> 0] /\ i = [p \in Procs |-> 0]
  /\ out \in Bytes
  /\ killed = [p \in Procs |-> FALSE]

Goto(p, l) == pc' = [pc EXCEPT ![p] = l]

\* wakeup of everybody at pc l, while p goes to pc m.
WakeAndGoto(p, m, l, woken) ==
  pc' = [q \in Procs |-> IF q = p THEN m ELSE IF pc[q] = l THEN woken ELSE pc[q]]

WakeReaders(p, m) == WakeAndGoto(p, m, "rsleep", "rwoken")
WakeWriters(p, m) == WakeAndGoto(p, m, "wsleep", "wwoken")

\* A call starts: a process that is not killed, with the end open, takes the lock.
Call(p, l) ==
  /\ pc[p] = "idle" /\ ~killed[p] /\ lock = NoProc
  /\ Goto(p, l) /\ lock' = p
  /\ n' \in {[n EXCEPT ![p] = k] : k \in 0..MaxN}
  /\ i' = [i EXCEPT ![p] = 0]
  /\ UNCHANGED <<data, nread, nwrite, ends, out, killed>>

\* A call returns: the lock is released and the local variables are gone.
Return(p) ==
  /\ lock' = NoProc
  /\ n' = [n EXCEPT ![p] = 0] /\ i' = [i EXCEPT ![p] = 0]
  /\ UNCHANGED <<data, nread, nwrite, ends, out, killed>>

\* sleep gives up the lock; the way back from it takes the lock.
Sleep(p, l, m) ==
  /\ lock = p /\ pc[p] = l
  /\ Goto(p, m) /\ lock' = NoProc
  /\ UNCHANGED <<data, nread, nwrite, ends, n, i, out, killed>>

Resume(p, l, m) ==
  /\ lock = NoProc /\ pc[p] = l
  /\ Goto(p, m) /\ lock' = p
  /\ UNCHANGED <<data, nread, nwrite, ends, n, i, out, killed>>

----------------------------------------------------------------------------
(* pipewrite *)

WriteStart(p) == p \in wfd /\ Call(p, "wloop")

WriteByte(p) ==
  /\ lock = p /\ pc[p] = "wloop" /\ i[p] < n[p] /\ ~Full
  /\ \E b \in Bytes : data' = [data EXCEPT ![nwrite % PIPESIZE] = b]
  /\ nwrite' = (nwrite + 1) % WRAP
  /\ i' = [i EXCEPT ![p] = @ + 1]
  /\ UNCHANGED <<nread, ends, lock, pc, n, out, killed>>

\* The pipe is full: -1 if nobody can read it or the process is killed...
WriteFail(p) ==
  /\ lock = p /\ pc[p] = "wloop" /\ i[p] < n[p] /\ Full
  /\ ~readopen \/ killed[p]
  /\ Goto(p, "idle") /\ Return(p)

\* ... else wake the readers and sleep.
WriteTest(p) ==
  /\ lock = p /\ pc[p] = "wloop" /\ i[p] < n[p] /\ Full
  /\ readopen /\ ~killed[p]
  /\ WakeReaders(p, "wtest")
  /\ UNCHANGED <<data, nread, nwrite, ends, lock, n, i, out, killed>>

WriteSleep(p) == Sleep(p, "wtest", "wsleep")
WriteResume(p) == Resume(p, "wwoken", "wloop")

WriteDone(p) ==
  /\ lock = p /\ pc[p] = "wloop" /\ i[p] = n[p]
  /\ WakeReaders(p, "idle") /\ Return(p)

----------------------------------------------------------------------------
(* piperead *)

ReadStart(p) == p \in rfd /\ Call(p, "rloop")

ReadFail(p) ==
  /\ lock = p /\ pc[p] = "rloop" /\ Empty /\ writeopen /\ killed[p]
  /\ Goto(p, "idle") /\ Return(p)

ReadTest(p) ==
  /\ lock = p /\ pc[p] = "rloop" /\ Empty /\ writeopen /\ ~killed[p]
  /\ Goto(p, "rtest")
  /\ UNCHANGED <<data, nread, nwrite, ends, lock, n, i, out, killed>>

ReadSleep(p) == Sleep(p, "rtest", "rsleep")
\* Mutant of ReadResume: piperead does not look again after it has slept.
ReadResumeBlind(p) == Resume(p, "rwoken", "rcopy")

ReadResume(p) == Resume(p, "rwoken", "rloop")

ReadReady(p) ==
  /\ lock = p /\ pc[p] = "rloop" /\ ~(Empty /\ writeopen)
  /\ Goto(p, "rcopy")
  /\ UNCHANGED <<data, nread, nwrite, ends, lock, n, i, out, killed>>

ReadByte(p) ==
  /\ lock = p /\ pc[p] = "rcopy" /\ i[p] < n[p] /\ ~Empty
  /\ out' = data[nread % PIPESIZE]
  /\ nread' = (nread + 1) % WRAP
  /\ i' = [i EXCEPT ![p] = @ + 1]
  /\ UNCHANGED <<data, nwrite, ends, lock, pc, n, killed>>

\* Mutant of ReadDone: the writers are not woken.
ReadDoneSilent(p) ==
  /\ lock = p /\ pc[p] = "rcopy" /\ (i[p] = n[p] \/ Empty)
  /\ Goto(p, "idle") /\ Return(p)

ReadDone(p) ==
  /\ lock = p /\ pc[p] = "rcopy" /\ (i[p] = n[p] \/ Empty)
  /\ WakeWriters(p, "idle") /\ Return(p)

----------------------------------------------------------------------------
(* close and kill *)

\* fileclose; the last descriptor of an end calls pipeclose, which frees the
\* pipe if the other end is closed too.
CloseWrite(p) ==
  /\ lock = NoProc /\ pc[p] = "idle" /\ p \in wfd
  /\ wfd' = wfd \ {p}
  /\ writeopen' = (wfd' # {})
  /\ IF writeopen' THEN UNCHANGED pc ELSE WakeReaders(p, "idle")
  /\ freed' = ~(readopen \/ writeopen')
  /\ UNCHANGED <<data, nread, nwrite, readopen, rfd, lock, n, i, out, killed>>

CloseRead(p) ==
  /\ lock = NoProc /\ pc[p] = "idle" /\ p \in rfd
  /\ rfd' = rfd \ {p}
  /\ readopen' = (rfd' # {})
  /\ IF readopen' THEN UNCHANGED pc ELSE WakeWriters(p, "idle")
  /\ freed' = ~(readopen' \/ writeopen)
  /\ UNCHANGED <<data, nread, nwrite, writeopen, wfd, lock, n, i, out, killed>>

\* kill needs ptable.lock only: it comes between any two steps of a call.
Kill(p) ==
  /\ ~killed[p]
  /\ killed' = [killed EXCEPT ![p] = TRUE]
  /\ Goto(p, CASE pc[p] = "wsleep" -> "wwoken"
               [] pc[p] = "rsleep" -> "rwoken"
               [] OTHER -> pc[p])
  /\ UNCHANGED <<data, nread, nwrite, ends, lock, n, i, out>>

Step(p) ==
  \/ WriteByte(p) \/ WriteFail(p) \/ WriteTest(p) \/ WriteSleep(p)
  \/ WriteResume(p) \/ WriteDone(p)
  \/ ReadFail(p) \/ ReadTest(p) \/ ReadSleep(p) \/ ReadResume(p)
  \/ ReadReady(p) \/ ReadByte(p) \/ ReadDone(p)

Next ==
  \E p \in Procs : \/ WriteStart(p) \/ ReadStart(p) \/ Step(p)
                   \/ CloseWrite(p) \/ CloseRead(p) \/ Kill(p)

Spec == Init /\ [][Next]_vars

----------------------------------------------------------------------------
(* Properties. *)

\* The type invariant.
TypeOK ==
  /\ data \in [0..(PIPESIZE - 1) -> Bytes]
  /\ nread \in 0..(WRAP - 1) /\ nwrite \in 0..(WRAP - 1)
  /\ readopen \in BOOLEAN /\ writeopen \in BOOLEAN /\ freed \in BOOLEAN
  /\ rfd \subseteq Procs /\ wfd \subseteq Procs
  /\ lock \in Procs \cup {NoProc}
  /\ pc \in [Procs -> PCs]
  /\ n \in [Procs -> 0..MaxN] /\ i \in [Procs -> 0..MaxN]
  /\ out \in Bytes /\ killed \in [Procs -> BOOLEAN]

\* The ring buffer implements a bounded FIFO: no byte is lost, duplicated,
\* reordered or overwritten, also when the counters wrap around.
Queue ==
  [k \in 1..((nwrite - nread) % WRAP) |-> data[(nread + k - 1) % PIPESIZE]]
Abs == INSTANCE PipeAbs WITH q <- Queue
FifoQueue == Abs!AbsSpec

\* No lost wakeup: whenever the lock is free, whoever sleeps has a reason to. A
\* writer sleeps only on a full pipe that can still be read, a reader only on an
\* empty pipe that can still be written, whatever the order of the calls; but a
\* killed writer that finds the pipe full (pipe.c:85) leaves without waking the
\* readers, and they may sleep on what it wrote.
SleepJustified ==
  lock = NoProc =>
    \A p \in Procs : /\ pc[p] = "wsleep" => Full /\ readopen
                     /\ pc[p] = "rsleep" => /\ writeopen
                                            /\ Empty \/ \E w \in Writers : killed[w]

\* End of file is told only at the end: a read that returns 0 although it asked
\* for more does so on an empty pipe that nobody can write any more.
EofMeansClosed ==
  [][\A p \in Procs :
       ReadDone(p) /\ i[p] = 0 /\ n[p] > 0 => Empty /\ ~writeopen]_vars

\* kfree comes after the last use: no process is in a call, not even asleep in
\* one, when the page is given back, and it is given back when both ends are shut.
FreedUnused ==
  freed <=> /\ ~readopen /\ ~writeopen
            /\ \A p \in Procs : pc[p] = "idle" /\ p \notin rfd \cup wfd

\* Nobody sleeps past a wakeup, and the page is freed once, after the last use.
PipeSound == TypeOK /\ SleepJustified /\ FreedUnused
============================================================================
