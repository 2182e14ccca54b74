------------------------------ MODULE Buffers -------------------------------
(***************************************************************************)
(* bio.c over ide.c, with the sleep locks of sleeplock.c: the cache of     *)
(* disk blocks, its LRU list, and the queue of requests that the disk      *)
(* interrupt serves.                                                       *)
(*                                                                         *)
(* A step is one critical section of bcache.lock, of a sleep lock's spin   *)
(* lock or of idelock.  The users of the cache are the file system and the *)
(* log: they bread a block, may change it and bwrite it or log_write it    *)
(* (which pins it with B_DIRTY, at most MaxDirty blocks), and brelse it.   *)
(* A process that has a buffer locked may bread a second one: write_log    *)
(* and install_trans a home block after a log block, bmap and itrunc (in   *)
(* balloc and bfree) a bitmap or data block after an indirect block.       *)
(***************************************************************************)
EXTENDS Integers, Sequences, FiniteSets, SequencesExt

CONSTANTS
  Procs, NoProc,
  Blocks,    \* block numbers of the disk
  LogBlocks, Indirect,  \* those of the log, and those of pointers to blocks
  Written,   \* bound: the blocks that are written, and whose reads may fail
  NoBlock,   \* what a buffer holds at boot
  NBUF,      \* buffers
  Vals,      \* contents of a block
  Garbage,   \* what a buffer holds when its read failed
  MaxDirty   \* blocks log.c pins between two commits

Bufs == 1..NBUF

ASSUME BuffersAssumption ==
  /\ IsFiniteSet(Procs) /\ NBUF \in Nat \ {0} /\ MaxDirty \in Nat /\ Vals # {} /\ Garbage \notin Vals
  /\ NoProc \notin Procs /\ NoBlock \notin Blocks
  /\ Written \subseteq Blocks /\ LogBlocks \subseteq Blocks /\ Indirect \subseteq Blocks

VARIABLES
  blockno, refcnt, valid, dirty, data,  \* the fields of each struct buf
  lru,      \* bcache's list from head.next (most recently used) on
  lock,     \* who holds the sleep lock of each buffer
  idequeue, \* the requests, the first is at the disk
  disk,     \* the blocks on disk
  pc, buf,  \* where each process is, and the buffer it works on
  other,    \* the other buffer it keeps locked meanwhile, 0 if none
  latest    \* history: what was last stored in each block

vars == <<blockno, refcnt, valid, dirty, data, lru, lock, idequeue, disk, pc, buf,
          other, latest>>
bufs == <<blockno, refcnt, valid, dirty, data, lru>>

(* "idle" outside the cache; "lock" in acquiresleep, "asleep" sleeping there; *)
(* "iderw" about to queue its buffer; "iosleep" sleeping on it, "iowake"      *)
(* woken; "have" a locked valid buffer; "unlocked" in brelse after            *)
(* releasesleep; "panic" in bget's panic, with bcache.lock.                   *)
PCs == {"idle", "lock", "asleep", "iderw", "iosleep", "iowake", "have", "unlocked", "panic"}

\* binit, and the disk mkfs wrote.
Init ==
  /\ blockno = [b \in Bufs |-> NoBlock] /\ refcnt = [b \in Bufs |-> 0]
  /\ valid = [b \in Bufs |-> FALSE] /\ dirty = [b \in Bufs |-> FALSE]
  /\ data = [b \in Bufs |-> CHOOSE v \in Vals : TRUE]
  /\ disk = [k \in Blocks |-> CHOOSE v \in Vals : TRUE]
  /\ lru = [i \in Bufs |-> NBUF + 1 - i]
  /\ lock = [b \in Bufs |-> NoProc] /\ idequeue = <<>>
  /\ pc = [p \in Procs |-> "idle"] /\ buf = [p \in Procs |-> 0] /\ other = [p \in Procs |-> 0]
  /\ latest = disk

----------------------------------------------------------------------------
(* bget *)

Caching(k) == {b \in Bufs : blockno[b] = k}

\* The order in which the callers take two buffers.
Rank(k) == IF k \in LogBlocks THEN 0 ELSE IF k \in Indirect THEN 1 ELSE 2

\* p, which has no buffer or one, calls bread for k and gets bcache.lock.
Bread(p, k) ==
  /\ \/ pc[p] = "idle"
     \/ pc[p] = "have" /\ other[p] = 0 /\ Rank(blockno[buf[p]]) < Rank(k)
  /\ \A q \in Procs : pc[q] # "panic"

\* The buffer that p had is its other one, and it waits for b.
Takes(p, b) ==
  /\ buf' = [buf EXCEPT ![p] = b] /\ other' = [other EXCEPT ![p] = buf[p]]
  /\ pc' = [pc EXCEPT ![p] = "lock"]

\* Mutant of Recyclable: a buffer log.c has pinned may be taken.
RecyclableDirty(b) == refcnt[b] = 0

\* Mutant of Recyclable: B_VALID is tested instead of B_DIRTY.
RecyclableInvalid(b) == refcnt[b] = 0 /\ ~valid[b]

Recyclable(b) == refcnt[b] = 0 /\ ~dirty[b]

\* The block is cached.
BgetHit(p, k) ==
  /\ Bread(p, k)
  /\ \E b \in Caching(k) : refcnt' = [refcnt EXCEPT ![b] = @ + 1] /\ Takes(p, b)
  /\ UNCHANGED <<blockno, valid, dirty, data, lru, lock, idequeue, disk, latest>>

\* b is the least recently used free buffer: the first one from the end of the list.
FirstFree(b) ==
  \E i \in Bufs : /\ lru[i] = b /\ Recyclable(b)
                  /\ \A j \in Bufs : j > i => ~Recyclable(lru[j])

\* It is not: the least recently used free buffer becomes its own.
BgetRecycle(p, k) ==
  /\ Bread(p, k) /\ Caching(k) = {}
  /\ \E b \in Bufs :
       /\ FirstFree(b)
       /\ blockno' = [blockno EXCEPT ![b] = k] /\ refcnt' = [refcnt EXCEPT ![b] = 1]
       /\ valid' = [valid EXCEPT ![b] = FALSE] /\ dirty' = [dirty EXCEPT ![b] = FALSE]
       /\ Takes(p, b)
  /\ UNCHANGED <<data, lru, lock, idequeue, disk, latest>>

\* Neither: panic("bget: no buffers").
BgetPanic(p, k) ==
  /\ Bread(p, k) /\ Caching(k) = {} /\ \A b \in Bufs : ~Recyclable(b)
  /\ pc' = [pc EXCEPT ![p] = "panic"]
  /\ UNCHANGED <<bufs, lock, idequeue, disk, buf, other, latest>>

Bget(p) == \E k \in Blocks : BgetHit(p, k) \/ BgetRecycle(p, k) \/ BgetPanic(p, k)

\* panic's last loop.
Spin(p) == pc[p] = "panic" /\ UNCHANGED vars

----------------------------------------------------------------------------
(* sleeplock.c *)

\* Mutant of AcquireSleep: the lock is taken without looking.
AcquireSleepBlind(p) ==
  /\ pc[p] = "lock"
  /\ lock' = [lock EXCEPT ![buf[p]] = p]
  /\ pc' = [pc EXCEPT ![p] = IF valid[buf[p]] THEN "have" ELSE "iderw"]
  /\ UNCHANGED <<bufs, idequeue, disk, buf, other, latest>>

\* Two processes that find the block at the same time meet here.
AcquireSleep(p) ==
  LET b == buf[p] IN
  /\ pc[p] = "lock"
  /\ IF lock[b] # NoProc THEN pc' = [pc EXCEPT ![p] = "asleep"] /\ UNCHANGED lock
     ELSE /\ lock' = [lock EXCEPT ![b] = p]
          /\ pc' = [pc EXCEPT ![p] = IF valid[b] THEN "have" ELSE "iderw"]
  /\ UNCHANGED <<bufs, idequeue, disk, buf, other, latest>>

\* wakeup(&b->lock) or wakeup(b): the processes at from on b go to to.
Woken(f, b, from, to) == [p \in Procs |-> IF f[p] = from /\ buf[p] = b THEN to ELSE f[p]]

\* Mutant of ReleaseSleep: the sleepers are not woken.
ReleaseSleepQuiet(p) ==
  /\ pc[p] = "have"
  /\ lock' = [lock EXCEPT ![buf[p]] = NoProc]
  /\ pc' = [pc EXCEPT ![p] = "unlocked"]
  /\ UNCHANGED <<bufs, idequeue, disk, buf, other, latest>>

\* brelse: releasesleep(&b->lock).
ReleaseSleep(p) ==
  /\ pc[p] = "have"
  /\ lock' = [lock EXCEPT ![buf[p]] = NoProc]
  /\ pc' = Woken([pc EXCEPT ![p] = "unlocked"], buf[p], "asleep", "lock")
  /\ UNCHANGED <<bufs, idequeue, disk, buf, other, latest>>

\* The list with b moved to its front.
MoveToFront(b) ==
  LET i == CHOOSE i \in Bufs : lru[i] = b IN
  [j \in Bufs |-> IF j = 1 THEN b ELSE IF j <= i THEN lru[j - 1] ELSE lru[j]]

\* The rest of brelse: refcnt--, and the list.  The process is left with the
\* other buffer, if it has one.
Brelse(p) ==
  LET b == buf[p] IN
  /\ pc[p] = "unlocked" /\ \A q \in Procs : pc[q] # "panic"
  /\ refcnt' = [refcnt EXCEPT ![b] = @ - 1]
  /\ lru' = IF refcnt[b] = 1 THEN MoveToFront(b) ELSE lru
  /\ pc' = [pc EXCEPT ![p] = IF other[p] = 0 THEN "idle" ELSE "have"]
  /\ buf' = [buf EXCEPT ![p] = other[p]] /\ other' = [other EXCEPT ![p] = 0]
  /\ UNCHANGED <<blockno, valid, dirty, data, lock, idequeue, disk, latest>>

----------------------------------------------------------------------------
(* ide.c *)

\* idestart of the first request of q: a write hands the data to the disk.
IdeStart(q) ==
  IF q # <<>> /\ dirty[Head(q)]
  THEN disk' = [disk EXCEPT ![blockno[Head(q)]] = data[Head(q)]] ELSE UNCHANGED disk

\* iderw: append b, start the disk if it was idle, sleep on b.
Iderw(p) ==
  /\ pc[p] = "iderw"
  /\ idequeue' = Append(idequeue, buf[p])
  /\ IF idequeue = <<>> THEN IdeStart(idequeue') ELSE UNCHANGED disk
  /\ pc' = [pc EXCEPT ![p] = "iosleep"]
  /\ UNCHANGED <<bufs, lock, buf, other, latest>>

Synced(b) == valid[b] /\ ~dirty[b]

\* iderw's loop: return, or sleep again.
IoWake(p) ==
  /\ pc[p] = "iowake"
  /\ pc' = [pc EXCEPT ![p] = CASE ~Synced(buf[p]) -> "iosleep" [] OTHER -> "have"]
  /\ UNCHANGED <<bufs, lock, idequeue, disk, buf, other, latest>>

\* ideintr: the first request is finished (a read may have failed: ok is what
\* idewait(1) says), its process is woken and the next request started.
IdeIntr(ok) ==
  LET b == Head(idequeue) IN
  /\ idequeue # <<>> /\ (ok \/ blockno[b] \in Written)
  /\ idequeue' = Tail(idequeue)
  /\ data' = [data EXCEPT ![b] = IF dirty[b] THEN @ ELSE IF ok THEN disk[blockno[b]] ELSE Garbage]
  /\ valid' = [valid EXCEPT ![b] = TRUE] /\ dirty' = [dirty EXCEPT ![b] = FALSE]
  /\ pc' = Woken(pc, b, "iosleep", "iowake")
  /\ IdeStart(Tail(idequeue))
  /\ UNCHANGED <<blockno, refcnt, lru, lock, buf, other, latest>>

----------------------------------------------------------------------------
(* What the holder of a buffer does with it. *)

\* It goes on with the other one.
Turn(p) ==
  /\ pc[p] = "have" /\ other[p] # 0
  /\ buf' = [buf EXCEPT ![p] = other[p]] /\ other' = [other EXCEPT ![p] = buf[p]]
  /\ UNCHANGED <<bufs, lock, idequeue, disk, pc, latest>>

Store(p, v) ==
  /\ pc[p] = "have" /\ blockno[buf[p]] \in Written
  /\ data' = [data EXCEPT ![buf[p]] = v]
  /\ latest' = [latest EXCEPT ![blockno[buf[p]]] = v]
  /\ dirty' = [dirty EXCEPT ![buf[p]] = TRUE]
  /\ UNCHANGED <<blockno, refcnt, valid, lru, lock, idequeue, disk, buf, other>>

\* bwrite: B_DIRTY, then iderw.
Bwrite(p) ==
  /\ \E v \in Vals : Store(p, v)
  /\ pc' = [pc EXCEPT ![p] = "iderw"]

\* The dirty buffers that nobody is writing.
Pinned == {b \in Bufs : dirty[b] /\ \A p \in Procs : buf[p] = b => pc[p] \notin {"iderw", "iosleep"}}

\* log_write (log.c): the block is pinned until the commit writes it.
LogWrite(p) ==
  /\ pc[p] = "have" /\ (dirty[buf[p]] \/ Cardinality(Pinned) < MaxDirty)
  /\ \E v \in Vals : Store(p, v)
  /\ UNCHANGED pc

Use(p) == AcquireSleep(p) \/ Iderw(p) \/ IoWake(p) \/ ReleaseSleep(p) \/ Brelse(p)

Next ==
  \/ \E p \in Procs : Bget(p) \/ Use(p) \/ Turn(p) \/ Bwrite(p) \/ LogWrite(p) \/ Spin(p)
  \/ \E ok \in BOOLEAN : IdeIntr(ok)

\* p gets the sleep lock it wants, or gives one back.
Passes(p) == (AcquireSleep(p) /\ lock[buf[p]] = NoProc) \/ ReleaseSleep(p)

(* A process that is not asleep runs on, and the disk answers.  A holder       *)
(* writes, and takes second buffers, a bounded number of times (the loops of   *)
(* log.c, balloc and itrunc end): it comes to the brelse of a buffer, and to   *)
(* the brelse of the last one.  Who finds a sleep lock free again and again    *)
(* gets it, although sleeplock.c keeps no queue.                               *)
Fairness ==
  /\ \A p \in Procs : /\ WF_vars(Use(p)) /\ SF_vars(Passes(p))
                       /\ SF_vars(ReleaseSleep(p) /\ other[p] = 0)
  /\ WF_vars(\E ok \in BOOLEAN : IdeIntr(ok))

Spec == Init /\ [][Next]_vars /\ Fairness

----------------------------------------------------------------------------
(* Properties *)

\* Shapes of the buffers, the list, the request queue and the processes.
TypeOK ==
  /\ blockno \in [Bufs -> Blocks \union {NoBlock}] /\ refcnt \in [Bufs -> Nat]
  /\ valid \in [Bufs -> BOOLEAN] /\ dirty \in [Bufs -> BOOLEAN] /\ data \in [Bufs -> Vals \union {Garbage}]
  /\ lru \in [Bufs -> Bufs] /\ ToSet(lru) = Bufs
  /\ lock \in [Bufs -> Procs \union {NoProc}] /\ ToSet(idequeue) \subseteq Bufs
  /\ disk \in [Blocks -> Vals] /\ latest \in [Blocks -> Vals] /\ pc \in [Procs -> PCs] /\ buf \in [Procs -> 0..NBUF]
  /\ other \in [Procs -> 0..NBUF]

\* A block has at most one buffer, and refcnt counts the processes between
\* bget and the end of brelse: bget cannot recycle what somebody waits for.
OneBuffer ==
  /\ \A k \in Blocks : Cardinality(Caching(k)) <= 1
  /\ \A b \in Bufs : refcnt[b] = Cardinality({p \in Procs : b \in {buf[p], other[p]}})

\* What was last stored in a block is never lost: it is in the block's valid
\* buffer (unless reading that failed, which ideintr ignores) and, once the
\* buffer is clean, invalid or recycled, on the disk.
NoLostUpdate ==
  \A k \in Blocks :
    /\ (\A b \in Caching(k) : ~dirty[b]) => disk[k] = latest[k]
    /\ \A b \in Caching(k) : valid[b] /\ data[b] # Garbage => data[b] = latest[k]

\* A process sleeps on its buffer exactly while the buffer is queued for the
\* disk once, locked by that process and not yet synced; so every interrupt
\* finds the request it answers and no sleeper has missed its wakeup.
RequestsSound ==
  /\ \A b \in ToSet(idequeue) : ~Synced(b) /\ \E p \in Procs : lock[b] = p /\ buf[p] = b /\ pc[p] = "iosleep"
  /\ IsInjective(idequeue)
  /\ \A p \in Procs : pc[p] = "iosleep" => buf[p] \in ToSet(idequeue) /\ lock[buf[p]] = p

\* The buffers that processes have or wait for.
InHand == {b \in Bufs : \E p \in Procs : b \in {buf[p], other[p]}}

\* bget panics only when all buffers but those of the blocks the log may pin
\* are in the hands of processes: no buffer stays referenced after its last
\* brelse or dirty after its commit, although NBUF = LOGSIZE leaves bget
\* hardly a buffer that is not pinned.
EnoughBuffers ==
  (\E p \in Procs : pc[p] = "panic") => NBUF <= Cardinality(InHand) + MaxDirty

\* Nobody sleeps for ever, unless bget panics: every disk request is answered
\* and iderw's sleeper woken, and releasesleep wakes who sleeps in
\* acquiresleep, also when the holder of the lock itself waits there for a
\* second buffer.
SleepersWoken ==
  \A p \in Procs : []<>(pc[p] \notin {"asleep", "iosleep"} \/ \E q \in Procs : pc[q] = "panic")

\* One buffer per block with exact counts, and one request per sleeping reader.
BuffersSound == TypeOK /\ OneBuffer /\ RequestsSound
============================================================================
