-------------------------------- MODULE Log --------------------------------
(***************************************************************************)
(* log.c: the redo log between the file system and the disk, with crashes  *)
(* at any disk write and recovery at boot.                                 *)
(*                                                                         *)
(* Blocks are numbered from log.start: 0 is the header, 1..NLOG-1 the      *)
(* blocks of the log, and the blocks of the file system (Home) begin right *)
(* behind them, at NLOG, as mkfs.c lays them out.  One bwrite is one step: *)
(* BSIZE is a disk sector, written entirely or not at all.                 *)
(*                                                                         *)
(* The buffer cache of bio.c appears as what bread returns for every block *)
(* and the set of blocks that are B_DIRTY; bget may recycle (Evict) every  *)
(* buffer that is neither dirty nor locked.                                *)
(***************************************************************************)
EXTENDS Integers, Sequences, FiniteSets, SequencesExt

CONSTANTS
  Procs,        \* processes that make file system calls
  NBLOCKS,      \* blocks behind the log
  Vals,         \* contents of a block
  NLOG,         \* log.size: header and data blocks
  LOGSIZE,      \* entries of struct logheader
  MAXOPBLOCKS,  \* log entries begin_op reserves for a system call
  OpBlocks,     \* different blocks a system call really writes
  MaxCrash      \* bound: crashes explored

ASSUME LogAssumption ==
  /\ IsFiniteSet(Procs) /\ NBLOCKS \in Nat \ {0} /\ NLOG \in Nat \ {0, 1} /\ LOGSIZE \in Nat
  /\ MAXOPBLOCKS \in Nat \ {0} /\ OpBlocks \in 0..MAXOPBLOCKS
  /\ MAXOPBLOCKS <= LOGSIZE /\ LOGSIZE < NLOG + NBLOCKS
  /\ MaxCrash \in Nat /\ Vals # {}

\* A call writes fewer blocks than begin_op reserves (filewrite in file.c cuts long
\* writes for that), and mkfs makes the log as long as its header.
ASSUME RoomAssumption == OpBlocks < MAXOPBLOCKS /\ MAXOPBLOCKS < LOGSIZE /\ LOGSIZE <= NLOG

Home == NLOG..(NLOG + NBLOCKS - 1)
Blocks == 1..(NLOG + NBLOCKS - 1)

VARIABLES
  disk, hdr,    \* what is on the disk: the blocks, and the header's list
  cache, dirty, \* what bread returns, and the buffers marked B_DIRTY
  lh,           \* log.lh: the block numbers of this transaction
  outstanding, committing,
  phase, tail,  \* where commit or recover_from_log is, and its loop variable
  pc, held,     \* where each process is, and the buffer it has locked (or 0)
  wrote,        \* the blocks its system call has written
  boot,         \* "recover", "run" or "panic"
  crashes

vars == <<disk, hdr, cache, dirty, lh, outstanding, committing, phase, tail, pc,
          held, wrote, boot, crashes>>
memory == <<cache, dirty, lh, outstanding, committing, phase, tail>>
calls == <<pc, held, wrote>>

(* "idle" outside the file system; "begin" awake in begin_op's loop; "asleep" *)
(* on &log; "in" a system call; "dirtied" a buffer and about to log_write it; *)
(* "checked" past log_write's size test; "commit" in end_op, committing.      *)
PCs == {"idle", "begin", "asleep", "in", "dirtied", "checked", "commit"}
Active == {p \in Procs : pc[p] \in {"in", "dirtied", "checked"}}
Locked == {held[p] : p \in Procs} \ {0}

\* mkfs has written the file system; the machine boots into initlog.
Init ==
  /\ \E v \in Vals : disk = [b \in Blocks |-> v]
  /\ hdr = <<>> /\ cache = disk /\ dirty = {}
  /\ lh = <<>> /\ outstanding = 0 /\ committing = FALSE
  /\ phase = "read" /\ tail = 0
  /\ pc = [p \in Procs |-> "idle"] /\ held = [p \in Procs |-> 0]
  /\ wrote = [p \in Procs |-> {}]
  /\ boot = "recover" /\ crashes = 0

----------------------------------------------------------------------------
(* The disk work shared by commit and recovery. *)

\* One iteration of install_trans: log block tail to its home.
InstallTrans ==
  /\ phase = "install" /\ tail < Len(lh)
  /\ LET b == lh[tail + 1] IN
     /\ cache' = [cache EXCEPT ![b] = cache[tail + 1]]
     /\ disk' = [disk EXCEPT ![b] = cache[tail + 1]]
     /\ dirty' = dirty \ {b}
  /\ tail' = tail + 1
  /\ UNCHANGED <<hdr, lh, outstanding, committing, phase, calls, boot, crashes>>

\* After the loop: log.lh.n = 0 and write_head erases the transaction.
ClearHead ==
  /\ phase = "install" /\ tail = Len(lh)
  /\ lh' = <<>> /\ hdr' = <<>> /\ tail' = 0
  /\ phase' = IF boot = "recover" THEN "none" ELSE "done"
  /\ boot' = "run"
  /\ UNCHANGED <<disk, cache, dirty, outstanding, committing, calls, crashes>>

\* recover_from_log: read_head.
ReadHead ==
  /\ phase = "read"
  /\ lh' = hdr /\ phase' = "install"
  /\ UNCHANGED <<disk, hdr, cache, dirty, outstanding, committing, tail, calls,
                 boot, crashes>>

\* Mutant of WriteLog: the blocks are installed before write_head.
WriteLogNoHead ==
  /\ phase = "write"
  /\ LET v == cache[lh[tail + 1]] IN
     /\ cache' = [cache EXCEPT ![tail + 1] = v]
     /\ disk' = [disk EXCEPT ![tail + 1] = v]
     /\ dirty' = dirty \ {tail + 1}
  /\ tail' = (tail + 1) % Len(lh)
  /\ phase' = IF tail + 1 = Len(lh) THEN "install" ELSE "write"
  /\ UNCHANGED <<hdr, lh, outstanding, committing, calls, boot, crashes>>

\* One iteration of write_log: cache block to log block tail.
WriteLog ==
  /\ phase = "write"
  /\ LET v == cache[lh[tail + 1]] IN
     /\ cache' = [cache EXCEPT ![tail + 1] = v]
     /\ disk' = [disk EXCEPT ![tail + 1] = v]
     /\ dirty' = dirty \ {tail + 1}
  /\ tail' = (tail + 1) % Len(lh)
  /\ phase' = IF tail + 1 = Len(lh) THEN "head" ELSE "write"
  /\ UNCHANGED <<hdr, lh, outstanding, committing, calls, boot, crashes>>

\* write_head: the commit point.
WriteHead ==
  /\ phase = "head"
  /\ hdr' = lh /\ phase' = "install"
  /\ UNCHANGED <<disk, cache, dirty, lh, outstanding, committing, tail, calls,
                 boot, crashes>>

----------------------------------------------------------------------------
(* begin_op, end_op *)

Awake(p) == boot = "run" /\ pc[p] \in {"idle", "begin"}

\* Mutant of NoSpace: what the transaction already holds is not counted.
NoSpaceUncounted == (outstanding + 1) * MAXOPBLOCKS > LOGSIZE

NoSpace == Len(lh) + (outstanding + 1) * MAXOPBLOCKS > LOGSIZE

BeginOp(p) ==
  /\ Awake(p) /\ ~committing /\ ~NoSpace
  /\ outstanding' = outstanding + 1
  /\ pc' = [pc EXCEPT ![p] = "in"]
  /\ UNCHANGED <<disk, hdr, cache, dirty, lh, committing, phase, tail, held, wrote,
                 boot, crashes>>

BeginSleep(p) ==
  /\ Awake(p)
  /\ committing \/ NoSpace
  /\ pc' = [pc EXCEPT ![p] = "asleep"]
  /\ UNCHANGED <<disk, hdr, memory, held, wrote, boot, crashes>>

\* wakeup(&log), after the pcs have become f.
Woken(f) == [p \in Procs |-> IF f[p] = "asleep" THEN "begin" ELSE f[p]]

\* Mutant of EndOp: nobody is woken, for the commit will do it.
EndOpSilent(p) ==
  /\ boot = "run" /\ pc[p] = "in" /\ outstanding > 1
  /\ outstanding' = outstanding - 1
  /\ pc' = [pc EXCEPT ![p] = "idle"]
  /\ wrote' = [wrote EXCEPT ![p] = {}]
  /\ boot' = IF committing THEN "panic" ELSE boot
  /\ UNCHANGED <<disk, hdr, cache, dirty, lh, committing, phase, tail, held,
                 crashes>>

\* end_op while other calls are outstanding; it panics when it meets a commit.
EndOp(p) ==
  /\ boot = "run" /\ pc[p] = "in" /\ outstanding > 1
  /\ outstanding' = outstanding - 1
  /\ pc' = Woken([pc EXCEPT ![p] = "idle"])
  /\ wrote' = [wrote EXCEPT ![p] = {}]
  /\ boot' = IF committing THEN "panic" ELSE boot
  /\ UNCHANGED <<disk, hdr, cache, dirty, lh, committing, phase, tail, held,
                 crashes>>

\* end_op of the last outstanding call starts the commit, which does nothing if
\* the transaction is empty.
EndOpCommit(p) ==
  /\ boot = "run" /\ pc[p] = "in" /\ outstanding = 1
  /\ outstanding' = 0 /\ committing' = TRUE
  /\ phase' = IF lh # <<>> THEN "write" ELSE "done"
  /\ pc' = [pc EXCEPT ![p] = "commit"]
  /\ wrote' = [wrote EXCEPT ![p] = {}]
  /\ boot' = IF committing THEN "panic" ELSE boot
  /\ UNCHANGED <<disk, hdr, cache, dirty, lh, tail, held, crashes>>

\* commit has returned.
CommitDone(p) ==
  /\ pc[p] = "commit" /\ phase = "done"
  /\ committing' = FALSE /\ phase' = "none"
  /\ pc' = Woken([pc EXCEPT ![p] = "idle"])
  /\ UNCHANGED <<disk, hdr, cache, dirty, lh, outstanding, tail, held, wrote, boot,
                 crashes>>

----------------------------------------------------------------------------
(* log_write and its caller *)

\* The caller has the buffer from bread and changes its data.
Modify(p) ==
  /\ boot = "run" /\ pc[p] = "in"
  /\ \E b \in Home \ Locked, v \in Vals :
       /\ v # cache[b]
       /\ Cardinality(wrote[p] \cup {b}) <= OpBlocks
       /\ cache' = [cache EXCEPT ![b] = v]
       /\ held' = [held EXCEPT ![p] = b]
       /\ wrote' = [wrote EXCEPT ![p] = @ \cup {b}]
  /\ pc' = [pc EXCEPT ![p] = "dirtied"]
  /\ UNCHANGED <<disk, hdr, dirty, lh, outstanding, committing, phase, tail, boot,
                 crashes>>

TooBig == Len(lh) >= LOGSIZE \/ Len(lh) >= NLOG - 1

\* log_write's tests, made before log.lock is taken.
LogCheck(p) ==
  /\ boot = "run" /\ pc[p] = "dirtied"
  /\ IF TooBig \/ outstanding < 1
     THEN boot' = "panic" /\ UNCHANGED pc
     ELSE pc' = [pc EXCEPT ![p] = "checked"] /\ UNCHANGED boot
  /\ UNCHANGED <<disk, hdr, memory, held, wrote, crashes>>

\* The rest of log_write, with log absorption, and the caller's brelse.
LogWrite(p) ==
  /\ boot = "run" /\ pc[p] = "checked"
  /\ lh' = IF Contains(lh, held[p]) THEN lh ELSE Append(lh, held[p])
  /\ dirty' = dirty \cup {held[p]}
  /\ held' = [held EXCEPT ![p] = 0]
  /\ pc' = [pc EXCEPT ![p] = "in"]
  /\ UNCHANGED <<disk, hdr, cache, outstanding, committing, phase, tail, wrote, boot,
                 crashes>>

----------------------------------------------------------------------------

\* bget recycles the buffer of b; the next bread gets b from the disk.
Evict(b) ==
  /\ b \notin dirty \cup Locked
  /\ cache' = [cache EXCEPT ![b] = disk[b]]
  /\ UNCHANGED <<disk, hdr, dirty, lh, outstanding, committing, phase, tail, calls,
                 boot, crashes>>

\* The machine stops, also after a panic, and boots: only the disk survives.
CrashReboot ==
  /\ crashes < MaxCrash /\ crashes' = crashes + 1
  /\ boot' = "recover" /\ phase' = "read" /\ tail' = 0
  /\ cache' = disk /\ dirty' = {}
  /\ lh' = <<>> /\ outstanding' = 0 /\ committing' = FALSE
  /\ pc' = [p \in Procs |-> "idle"] /\ held' = [p \in Procs |-> 0]
  /\ wrote' = [p \in Procs |-> {}]
  /\ UNCHANGED <<disk, hdr>>

Next ==
  \/ ReadHead \/ WriteLog \/ WriteHead \/ InstallTrans \/ ClearHead
  \/ \E p \in Procs : \/ BeginOp(p) \/ BeginSleep(p) \/ EndOp(p) \/ EndOpCommit(p)
                      \/ CommitDone(p) \/ Modify(p) \/ LogCheck(p) \/ LogWrite(p)
  \/ \E b \in Blocks : Evict(b)
  \/ CrashReboot

Spec == Init /\ [][Next]_vars

(* The committer and recovery go on, since bwrite returns; a file system call *)
(* makes finitely many updates and then calls end_op.                         *)
Fairness ==
  /\ WF_vars(ReadHead \/ WriteLog \/ WriteHead \/ InstallTrans \/ ClearHead)
  /\ \A p \in Procs :
       /\ WF_vars(CommitDone(p)) /\ WF_vars(LogCheck(p)) /\ WF_vars(LogWrite(p))
       /\ SF_vars(EndOp(p) \/ EndOpCommit(p))

----------------------------------------------------------------------------
(* Properties. *)

\* The type invariant.
TypeOK ==
  /\ disk \in [Blocks -> Vals] /\ cache \in [Blocks -> Vals]
  /\ hdr \in Seq(Home) /\ lh \in Seq(Home)
  /\ dirty \subseteq Home
  /\ outstanding \in Nat /\ committing \in BOOLEAN
  /\ phase \in {"none", "read", "write", "head", "install", "done"}
  /\ tail \in Nat
  /\ pc \in [Procs -> PCs] /\ held \in [Procs -> Home \cup {0}]
  /\ wrote \in [Procs -> SUBSET Home]
  /\ boot \in {"recover", "run", "panic"} /\ crashes \in 0..MaxCrash

\* log_write never finds the transaction too big: what begin_op reserved for the
\* outstanding calls is enough; and no call ends while another commits.
NoPanic == boot # "panic"

\* bget may recycle any buffer that is neither dirty nor locked: it never holds
\* an update that the disk does not have.
CleanOnDisk == \A b \in Blocks \ (dirty \cup Locked) : cache[b] = disk[b]

\* The blocks that recover_from_log would leave on the disk.
Recovered ==
  [b \in Home |-> IF \E i \in 1..Len(hdr) : hdr[i] = b
                  THEN disk[CHOOSE i \in 1..Len(hdr) : hdr[i] = b]
                  ELSE disk[b]]

\* log.c implements LogAbs: at every step, a crash would bring back exactly the
\* transactions committed so far, whole, also when it hits the commit, the
\* installation or a recovery that an earlier crash interrupted.
Abs ==
  INSTANCE LogAbs WITH
    durable <- Recovered,
    volatile <- IF boot = "recover" THEN Recovered
                ELSE [b \in Home |-> cache[b]],
    active <- Active

AtomicDurable == Abs!AbsSpec

\* Whoever sleeps in begin_op is woken: by the end of another call, by the end of
\* the commit, or by a reboot.
SleeperWoken == \A p \in Procs : pc[p] = "asleep" ~> pc[p] # "asleep"

\* The reservation of begin_op suffices, so that log_write never panics, and the
\* only copy of an update is never in a buffer that bget may recycle.
LogSound == TypeOK /\ NoPanic /\ CleanOnDisk
============================================================================
