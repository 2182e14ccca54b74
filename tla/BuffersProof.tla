---------------------------- MODULE BuffersProof -----------------------------
(***************************************************************************)
(* Proofs about Buffers: for any number of processes, blocks and buffers,  *)
(* a block has one buffer, its count is exact, every request is answered   *)
(* once, no update is lost, and bget panics only when all buffers but as   *)
(* many as the log may pin are in the hands of processes.                  *)
(***************************************************************************)
EXTENDS Buffers, RingProof, FiniteSetTheorems

----------------------------------------------------------------------------
(* The inductive invariant *)

Types ==
  /\ blockno \in [Bufs -> Blocks \union {NoBlock}] /\ refcnt \in [Bufs -> Nat]
  /\ valid \in [Bufs -> BOOLEAN] /\ dirty \in [Bufs -> BOOLEAN]
  /\ data \in [Bufs -> Vals \union {Garbage}]
  /\ lock \in [Bufs -> Procs \union {NoProc}] /\ idequeue \in Seq(Bufs)
  /\ disk \in [Blocks -> Vals] /\ latest \in [Blocks -> Vals]
  /\ pc \in [Procs -> PCs] /\ buf \in [Procs -> 0..NBUF] /\ other \in [Procs -> 0..NBUF]

OnList == lru \in [Bufs -> Bufs] /\ ToSet(lru) = Bufs

\* A process has a buffer from bget to the end of brelse, and perhaps another.
Using ==
  \A p \in Procs : /\ pc[p] = "idle" => buf[p] = 0
                   /\ buf[p] = 0 => pc[p] \in {"idle", "panic"} /\ other[p] = 0
                   /\ buf[p] # 0 => blockno[buf[p]] # NoBlock
                   /\ other[p] # 0 => other[p] # buf[p] /\ blockno[other[p]] # NoBlock

UsersOf(b) == {p \in Procs : b \in {buf[p], other[p]}}

Refs == \A b \in Bufs : refcnt[b] = Cardinality(UsersOf(b))

OneBlock == \A b, c \in Bufs : blockno[b] = blockno[c] /\ blockno[b] # NoBlock => b = c

Holds(l) == l \in {"iderw", "iosleep", "iowake", "have", "panic"}

\* p is between acquiresleep and releasesleep of b.
Has(p, b) == (buf[p] = b /\ Holds(pc[p])) \/ other[p] = b

Locks == \A b \in Bufs, p \in Procs : lock[b] = p <=> Has(p, b)

Flags ==
  \A p \in Procs : /\ pc[p] = "have" => valid[buf[p]]
                   /\ other[p] # 0 => valid[other[p]]
                   /\ pc[p] = "iowake" => Synced(buf[p])
                   /\ pc[p] = "iderw" => ~Synced(buf[p]) /\ buf[p] \notin ToSet(idequeue)

Requests ==
  /\ IsInjective(idequeue)
  /\ \A b \in ToSet(idequeue) : ~Synced(b) /\ \E p \in Procs : buf[p] = b /\ pc[p] = "iosleep"
  /\ \A p \in Procs : pc[p] = "iosleep" => buf[p] \in ToSet(idequeue)

\* A dirty buffer is what its block should be, and the disk has it from the
\* moment the write is started.
Contents ==
  /\ NoLostUpdate
  /\ \A b \in Bufs : dirty[b] => /\ valid[b] /\ blockno[b] \in Blocks
                                 /\ data[b] = latest[blockno[b]]
  /\ idequeue # <<>> /\ dirty[Head(idequeue)] =>
       disk[blockno[Head(idequeue)]] = data[Head(idequeue)]

PinBound == Cardinality(Pinned) <= MaxDirty

BuffersInv ==
  /\ Types /\ OnList /\ Using /\ Refs /\ OneBlock /\ Locks /\ Flags /\ Requests
  /\ Contents /\ PinBound

----------------------------------------------------------------------------
(* Counts and exclusion *)

LEMMA BufsFinite ==
  ASSUME NEW S \in SUBSET Bufs, NEW T \in SUBSET S
  PROVE  /\ IsFiniteSet(S) /\ Cardinality(S) \in Nat /\ Cardinality(S) <= NBUF
         /\ Cardinality(T) \in Nat /\ Cardinality(T) <= Cardinality(S)
<1>1. NBUF \in Nat \ {0}
  BY BuffersAssumption
<1>2. IsFiniteSet(Bufs) /\ Cardinality(Bufs) = NBUF
  BY <1>1, FS_Interval DEF Bufs
<1>3. IsFiniteSet(S) /\ Cardinality(S) <= NBUF
  BY <1>2, FS_Subset
<1>4. IsFiniteSet(T) /\ Cardinality(T) <= Cardinality(S)
  BY <1>3, FS_Subset
<1> QED BY <1>3, <1>4, FS_CardinalityType

\* A step that pins nothing.
LEMMA NoMorePinned ==
  ASSUME PinBound, Pinned' \subseteq Pinned
  PROVE  PinBound'
<1>1. Pinned \in SUBSET Bufs /\ Pinned' \in SUBSET Pinned
  BY DEF Pinned
<1>2. /\ Cardinality(Pinned) \in Nat /\ Cardinality(Pinned') \in Nat
      /\ Cardinality(Pinned') <= Cardinality(Pinned)
  BY <1>1, BufsFinite
<1>3. MaxDirty \in Nat
  BY BuffersAssumption
<1> QED BY <1>2, <1>3 DEF PinBound

\* A buffer has one holder.
LEMMA OneHolder ==
  ASSUME Locks, NEW b \in Bufs, NEW p \in Procs, NEW q \in Procs, Has(p, b), Has(q, b)
  PROVE  p = q
BY DEF Locks

\* A process in the kernel has a buffer that holds a block.
LEMMA HasBuffer ==
  ASSUME Types, Using, NEW p \in Procs, pc[p] \notin {"idle", "panic"}
  PROVE  buf[p] \in Bufs /\ buf[p] # 0 /\ blockno[buf[p]] \in Blocks
BY DEF Types, Using, Bufs

\* What a process works on is nobody else's, and nobody's other buffer.
LEMMA Alone ==
  ASSUME Types, Using, Locks, NEW p \in Procs, Holds(pc[p]), pc[p] # "panic", NEW q \in Procs
  PROVE  /\ buf[q] = buf[p] /\ Holds(pc[q]) => q = p
         /\ other[q] # buf[p]
<1>1. buf[p] \in Bufs /\ buf[p] # 0
  BY HasBuffer DEF Holds
<1>2. Has(p, buf[p])
  BY DEF Has
<1>3. buf[q] = buf[p] /\ Holds(pc[q]) => q = p
  BY <1>1, <1>2, OneHolder DEF Has
<1>4. other[q] = buf[p] => q = p
  BY <1>1, <1>2, OneHolder DEF Has
<1> QED BY <1>1, <1>3, <1>4 DEF Using

\* Steps that only move processes and pass the sleep lock on.
LEMMA QuietStep ==
  ASSUME BuffersInv, UNCHANGED <<bufs, idequeue, disk, buf, other, latest>>,
         pc' \in [Procs -> PCs], lock' \in [Bufs -> Procs \union {NoProc}], Locks',
         \A p \in Procs :
           /\ pc'[p] = "idle" => buf[p] = 0
           /\ buf[p] = 0 => pc'[p] \in {"idle", "panic"}
           /\ pc'[p] = "iosleep" <=> pc[p] = "iosleep"
           /\ pc[p] = "iderw" => pc'[p] = "iderw"
           /\ pc'[p] = "iderw" => ~Synced(buf[p]) /\ buf[p] \notin ToSet(idequeue)
           /\ pc'[p] = "have" => valid[buf[p]]
           /\ pc'[p] = "iowake" => Synced(buf[p])
  PROVE  BuffersInv'
<1>1. Types' /\ OnList' /\ Using'
  BY DEF BuffersInv, Types, OnList, Using, bufs
<1>2. Refs' /\ OneBlock'
  BY DEF BuffersInv, Refs, UsersOf, OneBlock, bufs
<1>3. Flags'
  BY DEF BuffersInv, Flags, Synced, bufs
<1>4. Requests'
  BY DEF BuffersInv, Requests, Synced, bufs
<1>5. Contents'
  BY DEF BuffersInv, Contents, NoLostUpdate, Caching, bufs
<1>6. PinBound'
  <2>1. Pinned' \subseteq Pinned
    BY DEF Pinned, bufs
  <2> QED BY <2>1, NoMorePinned DEF BuffersInv
<1> QED BY <1>1, <1>2, <1>3, <1>4, <1>5, <1>6 DEF BuffersInv

LEMMA AcquireSleepInv ==
  ASSUME BuffersInv, NEW p \in Procs, AcquireSleep(p)
  PROVE  BuffersInv'
<1>1. Types /\ Using /\ Locks /\ Flags /\ Requests
  BY DEF BuffersInv
<1>2. /\ pc[p] = "lock" /\ UNCHANGED <<bufs, idequeue, disk, buf, other, latest>>
      /\ pc \in [Procs -> PCs] /\ lock \in [Bufs -> Procs \union {NoProc}]
  BY <1>1 DEF AcquireSleep, Types
<1>3. buf[p] \in Bufs /\ buf[p] # 0
  BY <1>1, <1>2, HasBuffer
<1>4. CASE lock[buf[p]] # NoProc
  <2>1. pc' = [pc EXCEPT ![p] = "asleep"] /\ lock' = lock
    BY <1>4 DEF AcquireSleep
  <2>2. /\ pc' \in [Procs -> PCs] /\ pc'[p] = "asleep"
        /\ \A q \in Procs \ {p} : pc'[q] = pc[q]
    BY <1>2, <2>1 DEF PCs
  <2>3. Locks'
    BY <1>1, <1>2, <2>1, <2>2 DEF Locks, Has, Holds
  <2>4. \A q \in Procs :
           /\ pc'[q] = "idle" => buf[q] = 0
           /\ buf[q] = 0 => pc'[q] \in {"idle", "panic"}
           /\ pc'[q] = "iosleep" <=> pc[q] = "iosleep"
           /\ pc[q] = "iderw" => pc'[q] = "iderw"
           /\ pc'[q] = "iderw" => ~Synced(buf[q]) /\ buf[q] \notin ToSet(idequeue)
           /\ pc'[q] = "have" => valid[buf[q]]
           /\ pc'[q] = "iowake" => Synced(buf[q])
    BY <1>1, <1>2, <1>3, <2>2 DEF Flags, Using
  <2> QED BY <1>2, <2>1, <2>2, <2>3, <2>4, QuietStep
<1>5. CASE lock[buf[p]] = NoProc
  <2>1. /\ lock' = [lock EXCEPT ![buf[p]] = p]
        /\ pc' = [pc EXCEPT ![p] = IF valid[buf[p]] THEN "have" ELSE "iderw"]
    BY <1>5 DEF AcquireSleep
  <2>2. pc' \in [Procs -> PCs] /\ lock' \in [Bufs -> Procs \union {NoProc}]
    BY <1>2, <2>1 DEF PCs
  <2>3. /\ \A q \in Procs \ {p} : pc'[q] = pc[q]
        /\ pc'[p] \in {"have", "iderw"}
        /\ pc'[p] = "have" => valid[buf[p]]
        /\ pc'[p] = "iderw" => ~valid[buf[p]]
    BY <1>2, <2>1
  <2>4. ASSUME NEW q \in Procs PROVE ~Has(q, buf[p])
    BY <1>1, <1>3, <1>5, BuffersAssumption DEF Locks
  <2>5. Locks'
    <3> SUFFICES ASSUME NEW b \in Bufs, NEW q \in Procs PROVE lock'[b] = q <=> Has(q, b)'
      BY DEF Locks
    <3>1. CASE b = buf[p]
      <4>1. lock'[b] = p
        BY <1>2, <1>3, <2>1, <3>1
      <4>2. CASE q = p
        BY <1>2, <2>3, <3>1, <4>1, <4>2 DEF Has, Holds
      <4>3. CASE q # p
        BY <1>2, <2>3, <2>4, <3>1, <4>1, <4>3 DEF Has
      <4> QED BY <4>2, <4>3
    <3>2. CASE b # buf[p]
      <4>1. lock'[b] = lock[b]
        BY <1>2, <2>1, <3>2
      <4>2. Has(q, b)' <=> Has(q, b)
        BY <1>2, <2>3, <3>2 DEF Has
      <4> QED BY <1>1, <4>1, <4>2 DEF Locks
    <3> QED BY <3>1, <3>2
  <2>6. buf[p] \notin ToSet(idequeue)
    BY <1>1, <2>4 DEF Requests, Has, Holds
  <2>7. \A q \in Procs :
           /\ pc'[q] = "idle" => buf[q] = 0
           /\ buf[q] = 0 => pc'[q] \in {"idle", "panic"}
           /\ pc'[q] = "iosleep" <=> pc[q] = "iosleep"
           /\ pc[q] = "iderw" => pc'[q] = "iderw"
           /\ pc'[q] = "iderw" => ~Synced(buf[q]) /\ buf[q] \notin ToSet(idequeue)
           /\ pc'[q] = "have" => valid[buf[q]]
           /\ pc'[q] = "iowake" => Synced(buf[q])
    BY <1>1, <1>2, <1>3, <2>3, <2>6 DEF Flags, Synced, Using
  <2> QED BY <1>2, <2>2, <2>5, <2>7, QuietStep
<1> QED BY <1>4, <1>5

LEMMA ReleaseSleepInv ==
  ASSUME BuffersInv, NEW p \in Procs, ReleaseSleep(p)
  PROVE  BuffersInv'
<1>1. Types /\ Using /\ Locks /\ Flags
  BY DEF BuffersInv
<1>2. /\ pc[p] = "have" /\ UNCHANGED <<bufs, idequeue, disk, buf, other, latest>>
      /\ lock' = [lock EXCEPT ![buf[p]] = NoProc]
      /\ pc \in [Procs -> PCs] /\ lock \in [Bufs -> Procs \union {NoProc}]
  BY <1>1 DEF ReleaseSleep, Types
<1>3. buf[p] \in Bufs /\ buf[p] # 0
  BY <1>1, <1>2, HasBuffer
<1>4. /\ pc'[p] = "unlocked" /\ pc' \in [Procs -> PCs]
      /\ \A q \in Procs \ {p} : pc'[q] = pc[q] \/ (pc[q] = "asleep" /\ pc'[q] = "lock")
  BY <1>2 DEF ReleaseSleep, Woken, PCs
<1>5. lock' \in [Bufs -> Procs \union {NoProc}]
  BY <1>2
<1>6. Locks'
  <2> SUFFICES ASSUME NEW b \in Bufs, NEW q \in Procs PROVE lock'[b] = q <=> Has(q, b)'
    BY DEF Locks
  <2>1. CASE b = buf[p]
    <3>1. lock'[b] = NoProc /\ q # NoProc
      BY <1>2, <1>3, <2>1, BuffersAssumption
    <3>2. (buf[q] = b /\ Holds(pc[q]) => q = p) /\ other[q] # b
      BY <1>1, <1>2, <2>1, Alone DEF Holds
    <3> QED BY <1>2, <1>4, <3>1, <3>2 DEF Has, Holds
  <2>2. CASE b # buf[p]
    <3>1. lock'[b] = lock[b]
      BY <1>2, <2>2
    <3>2. Has(q, b)' <=> Has(q, b)
      BY <1>2, <1>4, <2>2 DEF Has, Holds
    <3> QED BY <1>1, <3>1, <3>2 DEF Locks
  <2> QED BY <2>1, <2>2
<1>7. \A q \in Procs :
         /\ pc'[q] = "idle" => buf[q] = 0
         /\ buf[q] = 0 => pc'[q] \in {"idle", "panic"}
         /\ pc'[q] = "iosleep" <=> pc[q] = "iosleep"
         /\ pc[q] = "iderw" => pc'[q] = "iderw"
         /\ pc'[q] = "iderw" => ~Synced(buf[q]) /\ buf[q] \notin ToSet(idequeue)
         /\ pc'[q] = "have" => valid[buf[q]]
         /\ pc'[q] = "iowake" => Synced(buf[q])
  BY <1>1, <1>2, <1>3, <1>4 DEF Flags, Using
<1> QED BY <1>2, <1>4, <1>5, <1>6, <1>7, QuietStep

LEMMA IoWakeInv ==
  ASSUME BuffersInv, NEW p \in Procs, IoWake(p)
  PROVE  BuffersInv'
<1>1. Types /\ Using /\ Locks /\ Flags
  BY DEF BuffersInv
<1>2. /\ pc[p] = "iowake" /\ UNCHANGED <<bufs, lock, idequeue, disk, buf, other, latest>>
      /\ pc \in [Procs -> PCs] /\ lock \in [Bufs -> Procs \union {NoProc}]
  BY <1>1 DEF IoWake, Types
<1>3. Synced(buf[p])
  BY <1>1, <1>2 DEF Flags
<1>4. pc' = [pc EXCEPT ![p] = "have"]
  BY <1>3 DEF IoWake
<1>5. pc' \in [Procs -> PCs] /\ pc'[p] = "have" /\ \A q \in Procs \ {p} : pc'[q] = pc[q]
  BY <1>2, <1>4 DEF PCs
<1>6. Locks'
  BY <1>1, <1>2, <1>5 DEF Locks, Has, Holds
<1>7. \A q \in Procs :
         /\ pc'[q] = "idle" => buf[q] = 0
         /\ buf[q] = 0 => pc'[q] \in {"idle", "panic"}
         /\ pc'[q] = "iosleep" <=> pc[q] = "iosleep"
         /\ pc[q] = "iderw" => pc'[q] = "iderw"
         /\ pc'[q] = "iderw" => ~Synced(buf[q]) /\ buf[q] \notin ToSet(idequeue)
         /\ pc'[q] = "have" => valid[buf[q]]
         /\ pc'[q] = "iowake" => Synced(buf[q])
  BY <1>1, <1>2, <1>3, <1>5 DEF Flags, Synced, Using
<1> QED BY <1>2, <1>5, <1>6, <1>7, QuietStep

\* The process that finds no buffer keeps the one it has.
LEMMA BgetPanicInv ==
  ASSUME BuffersInv, NEW p \in Procs, NEW k \in Blocks, BgetPanic(p, k)
  PROVE  BuffersInv'
<1>1. Types /\ Using /\ Locks /\ Flags
  BY DEF BuffersInv
<1>2. /\ pc[p] \in {"idle", "have"} /\ pc' = [pc EXCEPT ![p] = "panic"]
      /\ UNCHANGED <<bufs, lock, idequeue, disk, buf, other, latest>>
      /\ pc \in [Procs -> PCs] /\ lock \in [Bufs -> Procs \union {NoProc}]
  BY <1>1 DEF BgetPanic, Bread, Types
<1>3. pc' \in [Procs -> PCs] /\ pc'[p] = "panic" /\ \A q \in Procs \ {p} : pc'[q] = pc[q]
  BY <1>2 DEF PCs
<1>4. Locks'
  <2> SUFFICES ASSUME NEW b \in Bufs, NEW q \in Procs PROVE Has(q, b)' <=> Has(q, b)
    BY <1>1, <1>2 DEF Locks
  <2>1. pc[p] = "idle" => buf[p] # b
    BY <1>1 DEF Using, Bufs
  <2> QED BY <1>2, <1>3, <2>1 DEF Has, Holds
<1>5. \A q \in Procs :
         /\ pc'[q] = "idle" => buf[q] = 0
         /\ buf[q] = 0 => pc'[q] \in {"idle", "panic"}
         /\ pc'[q] = "iosleep" <=> pc[q] = "iosleep"
         /\ pc[q] = "iderw" => pc'[q] = "iderw"
         /\ pc'[q] = "iderw" => ~Synced(buf[q]) /\ buf[q] \notin ToSet(idequeue)
         /\ pc'[q] = "have" => valid[buf[q]]
         /\ pc'[q] = "iowake" => Synced(buf[q])
  BY <1>1, <1>2, <1>3 DEF Flags, Using
<1> QED BY <1>2, <1>3, <1>4, <1>5, QuietStep

----------------------------------------------------------------------------
(* bget and brelse *)

\* A process takes a buffer, gives one back or turns to its other one: it is
\* at l with the buffers b and c, and the sleep locks stay as they are.
LEMMA EnterStep ==
  ASSUME BuffersInv, UNCHANGED <<blockno, valid, dirty, data, lock, idequeue, disk, latest>>,
         NEW p \in Procs, NEW l \in PCs, NEW b \in 0..NBUF, NEW c \in 0..NBUF,
         pc[p] \notin {"iderw", "iosleep", "iowake"}, l \notin {"iderw", "iosleep", "iowake"},
         \A d \in Bufs : (b = d /\ Holds(l)) \/ c = d <=> Has(p, d),
         l = "idle" => b = 0, b = 0 => l = "idle" /\ c = 0, b # 0 => blockno[b] # NoBlock,
         c # 0 => c # b /\ blockno[c] # NoBlock /\ valid[c], l = "have" => valid[b],
         pc' = [pc EXCEPT ![p] = l], buf' = [buf EXCEPT ![p] = b], other' = [other EXCEPT ![p] = c]
  PROVE  /\ pc' \in [Procs -> PCs] /\ buf' \in [Procs -> 0..NBUF] /\ other' \in [Procs -> 0..NBUF]
         /\ Using' /\ OneBlock' /\ Locks' /\ Flags' /\ Requests' /\ Contents' /\ PinBound'
<1>1. Types /\ Using /\ Locks /\ Flags /\ Requests
  BY DEF BuffersInv
<1>2. pc \in [Procs -> PCs] /\ buf \in [Procs -> 0..NBUF] /\ other \in [Procs -> 0..NBUF]
  BY <1>1 DEF Types
<1>3. /\ pc' \in [Procs -> PCs] /\ buf' \in [Procs -> 0..NBUF] /\ other' \in [Procs -> 0..NBUF]
      /\ pc'[p] = l /\ buf'[p] = b /\ other'[p] = c
      /\ \A q \in Procs \ {p} : pc'[q] = pc[q] /\ buf'[q] = buf[q] /\ other'[q] = other[q]
  BY <1>2
<1>4. Using'
  BY <1>1, <1>3 DEF Using
<1>5. OneBlock' /\ Contents'
  BY DEF BuffersInv, OneBlock, Contents, NoLostUpdate, Caching
<1>6. Locks'
  <2> SUFFICES ASSUME NEW d \in Bufs, NEW q \in Procs PROVE Has(q, d)' <=> Has(q, d)
    BY <1>1 DEF Locks
  <2>1. CASE q = p
    BY <1>3, <2>1 DEF Has
  <2>2. CASE q # p
    BY <1>3, <2>2 DEF Has
  <2> QED BY <2>1, <2>2
<1>7. Flags'
  BY <1>1, <1>3 DEF Flags, Synced
<1>8. Requests'
  BY <1>1, <1>3 DEF Requests, Synced
<1>9. PinBound'
  <2>1. Pinned' \subseteq Pinned
    BY <1>3 DEF Pinned
  <2> QED BY <2>1, NoMorePinned DEF BuffersInv
<1> QED BY <1>3, <1>4, <1>5, <1>6, <1>7, <1>8, <1>9

LEMMA UsersFinite ==
  ASSUME NEW b
  PROVE  IsFiniteSet(UsersOf(b)) /\ Cardinality(UsersOf(b)) \in Nat
<1>1. IsFiniteSet(Procs) /\ UsersOf(b) \in SUBSET Procs
  BY BuffersAssumption DEF UsersOf
<1> QED BY <1>1, FS_Subset, FS_CardinalityType

\* Who may call bread has no buffer, or one that is locked and valid.
LEMMA Reader ==
  ASSUME BuffersInv, NEW p \in Procs, NEW k \in Blocks, Bread(p, k)
  PROVE  /\ pc[p] \in {"idle", "have"} /\ other[p] = 0 /\ buf[p] \in 0..NBUF
         /\ buf[p] # 0 => blockno[buf[p]] # NoBlock /\ blockno[buf[p]] # k /\ valid[buf[p]]
         /\ \A d \in Bufs : buf[p] = d <=> Has(p, d)
<1>1. Types /\ Using /\ Flags
  BY DEF BuffersInv
<1>2. pc[p] \in {"idle", "have"} /\ other[p] = 0 /\ buf[p] \in 0..NBUF
  BY <1>1 DEF Bread, Using, Types
<1>3. pc[p] = "have" => blockno[buf[p]] # k
  BY DEF Bread, Rank
<1>4. ASSUME NEW d \in Bufs PROVE buf[p] = d <=> Has(p, d)
  BY <1>1, <1>2 DEF Has, Holds, Using, Bufs
<1> QED BY <1>1, <1>2, <1>3, <1>4 DEF Using, Flags

LEMMA BgetHitInv ==
  ASSUME BuffersInv, NEW p \in Procs, NEW k \in Blocks, BgetHit(p, k)
  PROVE  BuffersInv'
<1>1. Types /\ Using /\ Refs /\ OnList
  BY DEF BuffersInv
<1>2. PICK b \in Caching(k) : refcnt' = [refcnt EXCEPT ![b] = @ + 1] /\ Takes(p, b)
  BY DEF BgetHit
<1>3. /\ buf' = [buf EXCEPT ![p] = b] /\ other' = [other EXCEPT ![p] = buf[p]]
      /\ pc' = [pc EXCEPT ![p] = "lock"]
      /\ UNCHANGED <<blockno, valid, dirty, data, lru, lock, idequeue, disk, latest>>
  BY <1>2 DEF BgetHit, Takes
<1>4. b \in Bufs /\ blockno[b] = k /\ blockno[b] # NoBlock /\ b # 0 /\ b \in 0..NBUF
  BY <1>2, BuffersAssumption DEF Caching, Bufs
<1>5. /\ pc[p] \in {"idle", "have"} /\ other[p] = 0 /\ buf[p] \in 0..NBUF
      /\ buf[p] # 0 => blockno[buf[p]] # NoBlock /\ blockno[buf[p]] # k /\ valid[buf[p]]
      /\ \A d \in Bufs : buf[p] = d <=> Has(p, d)
  BY Reader DEF BgetHit
<1>6. ~Holds("lock") /\ "lock" \in PCs
  BY DEF Holds, PCs
<1>7. /\ pc' \in [Procs -> PCs] /\ buf' \in [Procs -> 0..NBUF] /\ other' \in [Procs -> 0..NBUF]
      /\ Using' /\ OneBlock' /\ Locks' /\ Flags' /\ Requests' /\ Contents' /\ PinBound'
  <2>1. buf[p] # 0 => buf[p] # b /\ blockno[buf[p]] # NoBlock /\ valid[buf[p]]
    BY <1>4, <1>5
  <2>2. \A d \in Bufs : (b = d /\ Holds("lock")) \/ buf[p] = d <=> Has(p, d)
    BY <1>5, <1>6
  <2>3. pc[p] \notin {"iderw", "iosleep", "iowake"} /\ buf[p] \in 0..NBUF
    BY <1>5
  <2> QED BY <1>3, <1>4, <1>6, <2>1, <2>2, <2>3, EnterStep
<1>8. Types' /\ OnList'
  BY <1>1, <1>2, <1>3, <1>4, <1>7 DEF Types, OnList
<1>9. Refs'
  <2> SUFFICES ASSUME NEW c \in Bufs PROVE refcnt'[c] = Cardinality(UsersOf(c)')
    BY DEF Refs
  <2>1. /\ buf \in [Procs -> 0..NBUF] /\ other \in [Procs -> 0..NBUF] /\ refcnt \in [Bufs -> Nat]
        /\ c # 0 /\ buf[p] # b
    BY <1>1, <1>4, <1>5 DEF Types, Bufs
  <2>2. /\ buf'[p] = b /\ other'[p] = buf[p]
        /\ \A q \in Procs \ {p} : buf'[q] = buf[q] /\ other'[q] = other[q]
    BY <1>3, <2>1
  <2>3. CASE c = b
    <3>1. UsersOf(c)' = UsersOf(c) \union {p} /\ p \notin UsersOf(c)
      BY <1>5, <2>1, <2>2, <2>3 DEF UsersOf
    <3>2. Cardinality(UsersOf(c) \union {p}) = Cardinality(UsersOf(c)) + 1
      BY <3>1, UsersFinite, FS_AddElement
    <3> QED BY <1>1, <1>2, <1>4, <2>1, <2>3, <3>1, <3>2 DEF Refs
  <2>4. CASE c # b
    <3>1. UsersOf(c)' = UsersOf(c)
      BY <1>5, <2>1, <2>2, <2>4 DEF UsersOf
    <3> QED BY <1>1, <1>2, <1>4, <2>1, <2>4, <3>1 DEF Refs
  <2> QED BY <2>3, <2>4
<1> QED BY <1>7, <1>8, <1>9 DEF BuffersInv

LEMMA TurnInv ==
  ASSUME BuffersInv, NEW p \in Procs, Turn(p)
  PROVE  BuffersInv'
<1>1. Types /\ Using /\ Refs /\ OnList /\ Flags
  BY DEF BuffersInv
<1>2. /\ pc[p] = "have" /\ other[p] # 0 /\ pc' = pc
      /\ buf' = [buf EXCEPT ![p] = other[p]] /\ other' = [other EXCEPT ![p] = buf[p]]
      /\ UNCHANGED <<blockno, refcnt, valid, dirty, data, lru, lock, idequeue, disk, latest>>
  BY DEF Turn, bufs
<1>3. /\ buf[p] \in 0..NBUF /\ other[p] \in 0..NBUF /\ buf[p] # 0 /\ other[p] # buf[p]
      /\ blockno[buf[p]] # NoBlock /\ blockno[other[p]] # NoBlock
      /\ valid[buf[p]] /\ valid[other[p]] /\ pc' = [pc EXCEPT ![p] = "have"]
      /\ buf \in [Procs -> 0..NBUF] /\ other \in [Procs -> 0..NBUF]
  BY <1>1, <1>2 DEF Types, Using, Flags
<1>4. /\ "have" \in PCs
      /\ \A d \in Bufs : (other[p] = d /\ Holds("have")) \/ buf[p] = d <=> Has(p, d)
  BY <1>2 DEF Holds, PCs, Has
<1>5. /\ pc' \in [Procs -> PCs] /\ buf' \in [Procs -> 0..NBUF] /\ other' \in [Procs -> 0..NBUF]
      /\ Using' /\ OneBlock' /\ Locks' /\ Flags' /\ Requests' /\ Contents' /\ PinBound'
  <2>1. PICK b \in 0..NBUF : b = other[p]
    BY <1>3
  <2>2. PICK c \in 0..NBUF : c = buf[p]
    BY <1>3
  <2>3. PICK l \in PCs : l = "have"
    BY <1>4
  <2>4. \A d \in Bufs : (b = d /\ Holds(l)) \/ c = d <=> Has(p, d)
    BY <1>4, <2>1, <2>2, <2>3
  <2>5. /\ pc' = [pc EXCEPT ![p] = l] /\ buf' = [buf EXCEPT ![p] = b]
        /\ other' = [other EXCEPT ![p] = c]
        /\ UNCHANGED <<blockno, valid, dirty, data, lock, idequeue, disk, latest>>
    BY <1>2, <1>3, <2>1, <2>2, <2>3
  <2>6. /\ pc[p] \notin {"iderw", "iosleep", "iowake"} /\ l \notin {"iderw", "iosleep", "iowake"}
        /\ l # "idle" /\ b # 0 /\ c # 0 /\ c # b
        /\ blockno[b] # NoBlock /\ blockno[c] # NoBlock /\ valid[b] /\ valid[c]
    BY <1>2, <1>3, <2>1, <2>2, <2>3
  <2>7. l \in PCs /\ b \in 0..NBUF /\ c \in 0..NBUF
    BY <2>1, <2>2, <2>3
  <2> QED BY <2>4, <2>5, <2>6, <2>7, EnterStep
<1>6. Types' /\ OnList'
  BY <1>1, <1>2, <1>5 DEF Types, OnList
<1>7. Refs'
  <2>1. ASSUME NEW c \in Bufs PROVE UsersOf(c)' = UsersOf(c)
    BY <1>2, <1>3 DEF UsersOf
  <2> QED BY <1>1, <1>2, <2>1 DEF Refs
<1> QED BY <1>5, <1>6, <1>7 DEF BuffersInv

LEMMA MoveToFrontOnto ==
  ASSUME OnList, NEW b \in Bufs
  PROVE  MoveToFront(b) \in [Bufs -> Bufs] /\ ToSet(MoveToFront(b)) = Bufs
<1> DEFINE i == CHOOSE i \in Bufs : lru[i] = b
           f == MoveToFront(b)
<1>1. /\ NBUF \in Nat \ {0} /\ lru \in [Bufs -> Bufs]
      /\ \A c \in Bufs : \E j \in Bufs : lru[j] = c
  BY BuffersAssumption DEF OnList, ToSet
<1>2. i \in Bufs /\ lru[i] = b
  BY <1>1
<1>3. f = [j \in Bufs |-> IF j = 1 THEN b ELSE IF j <= i THEN lru[j - 1] ELSE lru[j]]
  BY DEF MoveToFront
<1> HIDE DEF i, f
<1>4. f \in [Bufs -> Bufs]
  <2>1. ASSUME NEW j \in Bufs
        PROVE  (IF j = 1 THEN b ELSE IF j <= i THEN lru[j - 1] ELSE lru[j]) \in Bufs
    <3>1. j # 1 => j - 1 \in Bufs
      BY <1>1 DEF Bufs
    <3> QED BY <1>1, <3>1
  <2> QED BY <1>3, <2>1
<1>5. ASSUME NEW c \in Bufs PROVE \E j \in Bufs : f[j] = c
  <2>1. CASE c = b
    BY <1>1, <1>3, <2>1 DEF Bufs
  <2>2. CASE c # b
    <3>1. PICK j \in Bufs : lru[j] = c
      BY <1>1
    <3>2. CASE j < i
      <4>1. j + 1 \in Bufs /\ f[j + 1] = lru[j]
        BY <1>1, <1>2, <1>3, <3>2 DEF Bufs
      <4> QED BY <3>1, <4>1
    <3>3. CASE j > i
      <4>1. f[j] = lru[j]
        BY <1>1, <1>2, <1>3, <3>3 DEF Bufs
      <4> QED BY <3>1, <4>1
    <3> QED BY <1>2, <2>2, <3>1, <3>2, <3>3 DEF Bufs
  <2> QED BY <2>1, <2>2
<1> QED BY <1>4, <1>5 DEF ToSet, f

LEMMA BrelseInv ==
  ASSUME BuffersInv, NEW p \in Procs, Brelse(p)
  PROVE  BuffersInv'
<1>1. Types /\ Using /\ Refs /\ OnList /\ Flags
  BY DEF BuffersInv
<1> DEFINE l == IF other[p] = 0 THEN "idle" ELSE "have"
<1>2. /\ pc[p] = "unlocked" /\ pc' = [pc EXCEPT ![p] = l]
      /\ buf' = [buf EXCEPT ![p] = other[p]] /\ other' = [other EXCEPT ![p] = 0]
      /\ refcnt' = [refcnt EXCEPT ![buf[p]] = @ - 1]
      /\ lru' = lru \/ lru' = MoveToFront(buf[p])
      /\ UNCHANGED <<blockno, valid, dirty, data, lock, idequeue, disk, latest>>
  BY DEF Brelse
<1>3. /\ buf[p] \in Bufs /\ buf[p] # 0 /\ 0 \in 0..NBUF /\ other[p] \in 0..NBUF
      /\ other[p] # buf[p] /\ (other[p] # 0 => blockno[other[p]] # NoBlock /\ valid[other[p]])
  BY <1>1, <1>2, HasBuffer, BuffersAssumption DEF Types, Using, Flags
<1>4. /\ l \in PCs /\ l \in {"idle", "have"} /\ (l = "idle" <=> other[p] = 0)
      /\ \A d \in Bufs : (other[p] = d /\ Holds(l)) \/ 0 = d <=> Has(p, d)
  BY <1>2 DEF Holds, PCs, Has, Bufs
<1> HIDE DEF l
<1>5. /\ pc' \in [Procs -> PCs] /\ buf' \in [Procs -> 0..NBUF] /\ other' \in [Procs -> 0..NBUF]
      /\ Using' /\ OneBlock' /\ Locks' /\ Flags' /\ Requests' /\ Contents' /\ PinBound'
  BY <1>2, <1>3, <1>4, EnterStep
<1>6. OnList'
  BY <1>1, <1>2, <1>3, MoveToFrontOnto DEF OnList
<1>7. ASSUME NEW c \in Bufs
      PROVE  refcnt'[c] = Cardinality(UsersOf(c)') /\ refcnt'[c] \in Nat
  <2>1. refcnt \in [Bufs -> Nat] /\ c # 0
    BY <1>1 DEF Types, Bufs
  <2>4. /\ buf'[p] = other[p] /\ other'[p] = 0
        /\ \A q \in Procs \ {p} : buf'[q] = buf[q] /\ other'[q] = other[q]
    BY <1>1, <1>2 DEF Types
  <2>2. CASE c = buf[p]
    <3>1. UsersOf(c)' = UsersOf(c) \ {p} /\ p \in UsersOf(c)
      BY <1>3, <2>1, <2>2, <2>4 DEF UsersOf
    <3>2. /\ Cardinality(UsersOf(c) \ {p}) = Cardinality(UsersOf(c)) - 1
          /\ IsFiniteSet(UsersOf(c) \ {p})
      BY <3>1, UsersFinite, FS_RemoveElement
    <3>3. Cardinality(UsersOf(c) \ {p}) \in Nat
      BY <3>2, FS_CardinalityType
    <3> QED BY <1>1, <1>2, <1>3, <2>1, <2>2, <3>1, <3>2, <3>3 DEF Refs
  <2>3. CASE c # buf[p]
    <3>1. UsersOf(c)' = UsersOf(c)
      BY <2>1, <2>3, <2>4 DEF UsersOf
    <3> QED BY <1>1, <1>2, <1>3, <2>1, <2>3, <3>1 DEF Refs
  <2> QED BY <2>2, <2>3
<1>8. Refs'
  BY <1>7 DEF Refs
<1>9. refcnt' \in [Bufs -> Nat]
  BY <1>1, <1>2, <1>7 DEF Types
<1>10. Types'
  BY <1>1, <1>2, <1>5, <1>9 DEF Types
<1> QED BY <1>5, <1>6, <1>8, <1>10 DEF BuffersInv

LEMMA BgetRecycleInv ==
  ASSUME BuffersInv, NEW p \in Procs, NEW k \in Blocks, BgetRecycle(p, k)
  PROVE  BuffersInv'
<1>1. /\ Types /\ Using /\ Refs /\ OnList /\ OneBlock /\ Locks /\ Flags /\ Requests
      /\ Contents /\ PinBound
  BY DEF BuffersInv
<1>2. PICK b \in Bufs :
        /\ FirstFree(b)
        /\ blockno' = [blockno EXCEPT ![b] = k] /\ refcnt' = [refcnt EXCEPT ![b] = 1]
        /\ valid' = [valid EXCEPT ![b] = FALSE] /\ dirty' = [dirty EXCEPT ![b] = FALSE]
        /\ Takes(p, b)
  BY DEF BgetRecycle
<1>3. /\ Bread(p, k) /\ Caching(k) = {} /\ pc' = [pc EXCEPT ![p] = "lock"]
      /\ buf' = [buf EXCEPT ![p] = b] /\ other' = [other EXCEPT ![p] = buf[p]]
      /\ UNCHANGED <<data, lru, lock, idequeue, disk, latest>>
      /\ refcnt[b] = 0 /\ ~dirty[b]
  BY <1>2 DEF BgetRecycle, FirstFree, Recyclable, Takes
<1>4. k # NoBlock /\ b # 0 /\ b \in 0..NBUF /\ \A c \in Bufs : blockno[c] # k
  BY <1>3, BuffersAssumption DEF Caching, Bufs
<1>5. pc[p] \in {"idle", "have"} /\ other[p] = 0 /\ buf[p] \in 0..NBUF
  BY <1>3, Reader
<1>6. \A d \in Bufs : buf[p] = d <=> Has(p, d)
  BY <1>3, Reader
<1>7. buf[p] # 0 => blockno[buf[p]] # NoBlock /\ valid[buf[p]]
  BY <1>3, Reader
<1>8. \A q \in Procs : buf[q] # b /\ other[q] # b
  <2>1. Cardinality(UsersOf(b)) = 0
    BY <1>1, <1>3 DEF Refs
  <2>2. UsersOf(b) = {}
    BY <2>1, UsersFinite, FS_EmptySet
  <2> QED BY <2>2 DEF UsersOf
<1>9. Types'
  <2>1. "lock" \in PCs
    BY DEF PCs
  <2> QED BY <1>1, <1>2, <1>3, <1>4, <1>5, <2>1 DEF Types
<1>10. /\ \A c \in Bufs \ {b} : /\ blockno'[c] = blockno[c] /\ refcnt'[c] = refcnt[c]
                              /\ valid'[c] = valid[c] /\ dirty'[c] = dirty[c]
      /\ blockno'[b] = k /\ refcnt'[b] = 1 /\ ~valid'[b] /\ ~dirty'[b]
  BY <1>1, <1>2, <1>3 DEF Types
<1>11. /\ pc'[p] = "lock" /\ buf'[p] = b /\ other'[p] = buf[p]
       /\ \A q \in Procs \ {p} : pc'[q] = pc[q] /\ buf'[q] = buf[q] /\ other'[q] = other[q]
  BY <1>1, <1>3 DEF Types
<1>12. \A q \in Procs : /\ buf[q] \in 0..NBUF /\ (buf[q] # 0 => buf[q] \in Bufs \ {b})
                       /\ other[q] \in 0..NBUF /\ (other[q] # 0 => other[q] \in Bufs \ {b})
  BY <1>1, <1>8 DEF Types, Bufs
<1>13. OnList' /\ Using' /\ OneBlock'
  <2>1. OnList'
    BY <1>1, <1>3 DEF OnList
  <2>2. Using'
    BY <1>1, <1>4, <1>5, <1>8, <1>10, <1>12, <1>7, <1>11 DEF Using
  <2>3. OneBlock'
    <3> SUFFICES ASSUME NEW c \in Bufs, NEW d \in Bufs, blockno'[c] = blockno'[d],
                        blockno'[c] # NoBlock
                 PROVE  c = d
      BY DEF OneBlock
    <3>1. CASE c = b \/ d = b
      BY <1>4, <1>10, <3>1
    <3>2. CASE c # b /\ d # b
      BY <1>1, <1>10, <3>2 DEF OneBlock
    <3> QED BY <3>1, <3>2
  <2> QED BY <2>1, <2>2, <2>3
<1>14. Refs'
  <2> SUFFICES ASSUME NEW c \in Bufs PROVE refcnt'[c] = Cardinality(UsersOf(c)')
    BY DEF Refs
  <2>1. c # 0
    BY DEF Bufs
  <2>2. CASE c = b
    <3>1. UsersOf(c)' = {p}
      BY <1>8, <1>11, <2>2 DEF UsersOf
    <3>2. Cardinality({p}) = 1
      BY FS_Singleton
    <3> QED BY <1>10, <2>2, <3>1, <3>2
  <2>3. CASE c # b
    <3>1. UsersOf(c)' = UsersOf(c)
      BY <1>5, <1>11, <2>1, <2>3 DEF UsersOf
    <3> QED BY <1>1, <1>10, <2>3, <3>1 DEF Refs
  <2> QED BY <2>2, <2>3
<1>15. Locks'
  <2> SUFFICES ASSUME NEW d \in Bufs, NEW q \in Procs PROVE Has(q, d)' <=> Has(q, d)
    BY <1>1, <1>3 DEF Locks
  <2>1. CASE q = p
    BY <1>6, <1>11, <2>1 DEF Has, Holds
  <2>2. CASE q # p
    BY <1>11, <2>2 DEF Has
  <2> QED BY <2>1, <2>2
<1>16. Flags'
  <2> SUFFICES ASSUME NEW q \in Procs
               PROVE  /\ pc'[q] = "have" => valid'[buf'[q]]
                      /\ other'[q] # 0 => valid'[other'[q]]
                      /\ pc'[q] = "iowake" => Synced(buf[q])'
                      /\ pc'[q] = "iderw" => ~Synced(buf[q])' /\ buf'[q] \notin ToSet(idequeue)
    BY <1>3 DEF Flags
  <2>1. CASE q = p
    BY <1>10, <1>12, <1>7, <1>11, <2>1
  <2>2. CASE q # p
    <3>1. pc[q] \notin {"idle", "panic"} => buf[q] \in Bufs \ {b}
      BY <1>1, <1>12 DEF Using
    <3> QED BY <1>1, <1>10, <1>12, <1>11, <2>2, <3>1 DEF Flags, Synced
  <2> QED BY <2>1, <2>2
<1>17. b \notin ToSet(idequeue) /\ ToSet(idequeue) \subseteq Bufs
       /\ (idequeue # <<>> => Head(idequeue) \in ToSet(idequeue))
  BY <1>1, <1>8, QueueMembers DEF Requests, Types
<1>18. Requests'
  <2>1. \A c \in ToSet(idequeue) : ~Synced(c)' /\ \E q \in Procs : buf'[q] = c /\ pc'[q] = "iosleep"
    <3> SUFFICES ASSUME NEW c \in ToSet(idequeue)
                 PROVE  /\ ~(valid'[c] /\ ~dirty'[c])
                        /\ \E q \in Procs : buf'[q] = c /\ pc'[q] = "iosleep"
      BY DEF Synced
    <3>1. c \in Bufs \ {b} /\ ~Synced(c)
      BY <1>1, <1>17 DEF Requests
    <3>2. PICK q \in Procs : buf[q] = c /\ pc[q] = "iosleep"
      BY <1>1 DEF Requests
    <3>3. buf'[q] = c /\ pc'[q] = "iosleep"
      BY <1>5, <1>11, <3>2
    <3> QED BY <1>10, <3>1, <3>3 DEF Synced
  <2>2. \A q \in Procs : pc'[q] = "iosleep" => buf'[q] \in ToSet(idequeue)
    BY <1>1, <1>11 DEF Requests
  <2> QED BY <1>1, <1>3, <2>1, <2>2 DEF Requests
<1>19. Contents'
  <2>1. NoLostUpdate'
    <3> SUFFICES ASSUME NEW m \in Blocks
                 PROVE  /\ (\A c \in Bufs : blockno'[c] = m => ~dirty'[c]) => disk[m] = latest[m]
                        /\ \A c \in Bufs : blockno'[c] = m /\ valid'[c] /\ data[c] # Garbage
                                             => data[c] = latest[m]
      BY <1>3 DEF NoLostUpdate, Caching
    <3>1. /\ (\A c \in Bufs : blockno[c] = m => ~dirty[c]) => disk[m] = latest[m]
          /\ \A c \in Bufs : blockno[c] = m /\ valid[c] /\ data[c] # Garbage
                               => data[c] = latest[m]
      BY <1>1 DEF Contents, NoLostUpdate, Caching
    <3>2. CASE m = k
      BY <1>4, <1>10, <3>1, <3>2
    <3>3. CASE m # k
      BY <1>3, <1>10, <3>1, <3>3
    <3> QED BY <3>2, <3>3
  <2>2. \A c \in Bufs : dirty'[c] => /\ valid'[c] /\ blockno'[c] \in Blocks
                                     /\ data[c] = latest[blockno'[c]]
    BY <1>1, <1>10 DEF Contents
  <2>3. idequeue # <<>> /\ dirty'[Head(idequeue)] =>
          disk[blockno'[Head(idequeue)]] = data[Head(idequeue)]
    BY <1>1, <1>10, <1>17 DEF Contents
  <2> QED BY <1>3, <2>1, <2>2, <2>3 DEF Contents
<1>20. PinBound'
  <2>1. Pinned' \subseteq Pinned
    BY <1>5, <1>10, <1>11 DEF Pinned
  <2> QED BY <1>1, <2>1, NoMorePinned
<1> QED BY <1>9, <1>13, <1>14, <1>15, <1>16, <1>18, <1>19, <1>20 DEF BuffersInv

----------------------------------------------------------------------------
(* The disk, and who writes *)

\* Starting a request writes at most what its block should be.
LEMMA IdeStartWrites ==
  ASSUME Types, Contents, NEW q, q # <<>> => Head(q) \in Bufs, IdeStart(q)
  PROVE  /\ disk' \in [Blocks -> Vals]
         /\ \A k \in Blocks : disk'[k] = disk[k] \/ disk'[k] = latest[k]
         /\ q # <<>> /\ dirty[Head(q)] => disk'[blockno[Head(q)]] = data[Head(q)]
<1>1. disk \in [Blocks -> Vals] /\ latest \in [Blocks -> Vals]
  BY DEF Types
<1>2. CASE q # <<>> /\ dirty[Head(q)]
  <2>1. /\ blockno[Head(q)] \in Blocks /\ data[Head(q)] = latest[blockno[Head(q)]]
        /\ disk' = [disk EXCEPT ![blockno[Head(q)]] = data[Head(q)]]
    BY <1>2 DEF Contents, IdeStart
  <2> QED BY <1>1, <2>1
<1>3. CASE ~(q # <<>> /\ dirty[Head(q)])
  BY <1>1, <1>3 DEF IdeStart
<1> QED BY <1>2, <1>3

LEMMA IderwInv ==
  ASSUME BuffersInv, NEW p \in Procs, Iderw(p)
  PROVE  BuffersInv'
<1>1. /\ Types /\ Using /\ Locks /\ Flags /\ Requests /\ Contents /\ PinBound
  BY DEF BuffersInv
<1> DEFINE b == buf[p]
<1>2. /\ pc[p] = "iderw" /\ idequeue' = Append(idequeue, b)
      /\ pc' = [pc EXCEPT ![p] = "iosleep"]
      /\ UNCHANGED <<bufs, lock, buf, other, latest>>
  BY DEF Iderw
<1>3. b \in Bufs /\ blockno[b] \in Blocks
  BY <1>1, <1>2, HasBuffer
<1>4. /\ ~Synced(b) /\ b \notin ToSet(idequeue)
  BY <1>1, <1>2 DEF Flags
<1>5. /\ idequeue \in Seq(Bufs) /\ IsInjective(idequeue)
  BY <1>1 DEF Types, Requests
<1>6. /\ idequeue' \in Seq(Bufs) /\ idequeue' # <<>>
      /\ ToSet(idequeue') = ToSet(idequeue) \union {b}
      /\ IsInjective(idequeue')
      /\ idequeue = <<>> => Head(idequeue') = b
      /\ idequeue # <<>> => Head(idequeue') = Head(idequeue)
  BY <1>2, <1>3, <1>4, <1>5, QueueAppend
<1>7. /\ disk' \in [Blocks -> Vals]
      /\ \A k \in Blocks : disk'[k] = disk[k] \/ disk'[k] = latest[k]
      /\ dirty[Head(idequeue')] => disk'[blockno[Head(idequeue')]] = data[Head(idequeue')]
  <2>1. CASE idequeue = <<>>
    <3>1. IdeStart(idequeue') /\ Head(idequeue') \in Bufs
      BY <1>3, <1>6, <2>1 DEF Iderw
    <3> QED BY <1>1, <1>6, <3>1, IdeStartWrites
  <2>2. CASE idequeue # <<>>
    BY <1>1, <1>6, <2>2 DEF Iderw, Types, Contents
  <2> QED BY <2>1, <2>2
<1> HIDE DEF b
<1>8. /\ pc'[p] = "iosleep" /\ pc' \in [Procs -> PCs]
      /\ \A q \in Procs \ {p} : pc'[q] = pc[q]
  BY <1>1, <1>2 DEF Types, PCs
<1>9. Types' /\ OnList' /\ Using'
  BY <1>1, <1>2, <1>6, <1>7, <1>8 DEF BuffersInv, Types, OnList, Using, bufs
<1>10. Refs' /\ OneBlock'
  BY <1>2 DEF BuffersInv, Refs, UsersOf, OneBlock, bufs
<1>11. Locks'
  BY <1>1, <1>2, <1>8 DEF Locks, Has, Holds
<1>12. Flags'
  <2>1. ASSUME NEW q \in Procs, q # p, pc[q] = "iderw" PROVE buf[q] # b
    BY <1>1, <1>2, <2>1, Alone DEF b, Holds
  <2> QED BY <1>1, <1>2, <1>6, <1>8, <2>1 DEF Flags, Synced, bufs
<1>13. Requests'
  <2>1. \A c \in ToSet(idequeue') : ~Synced(c)' /\ \E q \in Procs : buf'[q] = c /\ pc'[q] = "iosleep"
    <3> SUFFICES ASSUME NEW c \in ToSet(idequeue')
                 PROVE  ~Synced(c) /\ \E q \in Procs : buf[q] = c /\ pc'[q] = "iosleep"
      BY <1>2 DEF Synced, bufs
    <3>1. CASE c = b
      BY <1>4, <1>8, <3>1 DEF b
    <3>2. CASE c \in ToSet(idequeue)
      BY <1>1, <1>2, <1>8, <3>2 DEF Requests
    <3> QED BY <1>6, <3>1, <3>2
  <2>2. \A q \in Procs : pc'[q] = "iosleep" => buf'[q] \in ToSet(idequeue')
    BY <1>1, <1>2, <1>6, <1>8 DEF Requests, b
  <2> QED BY <1>6, <2>1, <2>2 DEF Requests
<1>14. Contents'
  <2>1. NoLostUpdate'
    BY <1>1, <1>2, <1>7 DEF Contents, NoLostUpdate, Caching, bufs
  <2>2. /\ \A c \in Bufs : dirty'[c] => /\ valid'[c] /\ blockno'[c] \in Blocks
                                        /\ data'[c] = latest'[blockno'[c]]
    BY <1>1, <1>2 DEF Contents, bufs
  <2>3. dirty'[Head(idequeue')] => disk'[blockno'[Head(idequeue')]] = data'[Head(idequeue')]
    BY <1>2, <1>7 DEF bufs
  <2> QED BY <2>1, <2>2, <2>3 DEF Contents
<1>15. PinBound'
  <2>1. Pinned' \subseteq Pinned
    BY <1>2, <1>8 DEF Pinned, bufs
  <2> QED BY <1>1, <2>1, NoMorePinned
<1> QED BY <1>9, <1>10, <1>11, <1>12, <1>13, <1>14, <1>15 DEF BuffersInv

LEMMA IdeIntrInv ==
  ASSUME BuffersInv, NEW ok \in BOOLEAN, IdeIntr(ok)
  PROVE  BuffersInv'
<1>1. /\ Types /\ Using /\ OneBlock /\ Locks /\ Flags /\ Requests /\ Contents /\ PinBound
  BY DEF BuffersInv
<1> DEFINE b == Head(idequeue)
           rest == Tail(idequeue)
<1>2. /\ idequeue # <<>> /\ idequeue' = rest
      /\ data' = [data EXCEPT ![b] = IF dirty[b] THEN @
                                     ELSE IF ok THEN disk[blockno[b]] ELSE Garbage]
      /\ valid' = [valid EXCEPT ![b] = TRUE] /\ dirty' = [dirty EXCEPT ![b] = FALSE]
      /\ pc' = [q \in Procs |-> IF pc[q] = "iosleep" /\ buf[q] = b THEN "iowake" ELSE pc[q]]
      /\ IdeStart(rest)
      /\ UNCHANGED <<blockno, refcnt, lru, lock, buf, other, latest>>
  BY DEF IdeIntr, Woken
<1>3. /\ rest \in Seq(Bufs) /\ b \in ToSet(idequeue) /\ b \in Bufs
      /\ ToSet(rest) = ToSet(idequeue) \ {b} /\ IsInjective(rest)
      /\ rest # <<>> => Head(rest) \in ToSet(rest)
  BY <1>1, <1>2, QueueTail DEF Types, Requests
<1>4. ToSet(idequeue) \subseteq Bufs
  BY <1>1, QueueMembers DEF Types
<1>5. /\ disk' \in [Blocks -> Vals]
      /\ \A k \in Blocks : disk'[k] = disk[k] \/ disk'[k] = latest[k]
      /\ rest # <<>> /\ dirty[Head(rest)] => disk'[blockno[Head(rest)]] = data[Head(rest)]
  <2>1. rest # <<>> => Head(rest) \in Bufs
    BY <1>3, <1>4
  <2> QED BY <1>1, <1>2, <2>1, IdeStartWrites
<1> DEFINE old == IF dirty[b] THEN data[b] ELSE IF ok THEN disk[blockno[b]] ELSE Garbage
<1>6. PICK u \in Procs : buf[u] = b /\ pc[u] = "iosleep"
  BY <1>1, <1>3 DEF Requests
<1>7. blockno[b] \in Blocks
  BY <1>1, <1>6, HasBuffer
<1>8. dirty[b] => disk[blockno[b]] = data[b] /\ data[b] = latest[blockno[b]]
  BY <1>1, <1>2, <1>3 DEF Contents
<1> HIDE DEF b, rest
<1>9. /\ data'[b] = old /\ valid'[b] /\ ~dirty'[b]
      /\ \A c \in Bufs \ {b} : data'[c] = data[c] /\ valid'[c] = valid[c] /\ dirty'[c] = dirty[c]
  BY <1>1, <1>2, <1>3 DEF Types
<1>10. Types'
  <2>1. old \in Vals \union {Garbage}
    BY <1>1, <1>3, <1>7 DEF Types
  <2>2. data' \in [Bufs -> Vals \union {Garbage}]
    BY <1>1, <1>2, <1>3, <1>9, <2>1 DEF Types
  <2>3. valid' \in [Bufs -> BOOLEAN] /\ dirty' \in [Bufs -> BOOLEAN]
    BY <1>1, <1>2 DEF Types
  <2>4. pc' \in [Procs -> PCs]
    BY <1>1, <1>2 DEF Types, PCs
  <2> QED BY <1>1, <1>2, <1>3, <1>5, <2>2, <2>3, <2>4 DEF Types
<1>11. \A q \in Procs : /\ pc[q] = "iosleep" /\ buf[q] = b => pc'[q] = "iowake"
                        /\ ~(pc[q] = "iosleep" /\ buf[q] = b) => pc'[q] = pc[q]
  BY <1>2
<1>12. \A q \in Procs : (buf[q] = b /\ Holds(pc[q]) => q = u) /\ other[q] # b
  BY <1>1, <1>6, Alone DEF Holds
<1>13. OnList' /\ Using' /\ Refs' /\ OneBlock'
  <2>1. OnList' /\ Refs' /\ OneBlock'
    BY <1>2 DEF BuffersInv, OnList, Refs, UsersOf, OneBlock
  <2>2. Using'
    BY <1>1, <1>2, <1>11 DEF Using
  <2> QED BY <2>1, <2>2
<1>14. Locks'
  BY <1>1, <1>2, <1>11 DEF Locks, Has, Holds
<1>15. Flags'
  <2> SUFFICES ASSUME NEW q \in Procs
               PROVE  /\ pc'[q] = "have" => valid'[buf[q]]
                      /\ other[q] # 0 => valid'[other[q]]
                      /\ pc'[q] = "iowake" => valid'[buf[q]] /\ ~dirty'[buf[q]]
                      /\ pc'[q] = "iderw" => /\ ~(valid'[buf[q]] /\ ~dirty'[buf[q]])
                                             /\ buf[q] \notin ToSet(rest)
    BY <1>2 DEF Flags, Synced
  <2>3. other[q] # 0 => valid'[other[q]]
    <3>1. other[q] # 0 => other[q] \in Bufs \ {b} /\ valid[other[q]]
      BY <1>1, <1>12 DEF Types, Flags, Bufs
    <3> QED BY <1>9, <3>1
  <2>1. CASE pc[q] = "iosleep" /\ buf[q] = b
    BY <1>9, <1>11, <2>1, <2>3
  <2>2. CASE ~(pc[q] = "iosleep" /\ buf[q] = b)
    <3>1. pc'[q] = pc[q]
      BY <1>11, <2>2
    <3>2. pc[q] \in {"iderw", "iowake", "have"} => buf[q] \in Bufs \ {b}
      BY <1>1, <1>6, <1>12, <2>2, HasBuffer DEF Holds
    <3> QED BY <1>1, <1>3, <1>9, <2>3, <3>1, <3>2 DEF Flags, Synced
  <2> QED BY <2>1, <2>2
<1>16. Requests'
  <2>1. ASSUME NEW c \in ToSet(rest)
        PROVE  ~(valid'[c] /\ ~dirty'[c]) /\ \E q \in Procs : buf[q] = c /\ pc'[q] = "iosleep"
    <3>1. c \in ToSet(idequeue) /\ c \in Bufs \ {b}
      BY <1>3, <1>4
    <3>2. PICK q \in Procs : buf[q] = c /\ pc[q] = "iosleep"
      BY <1>1, <3>1 DEF Requests
    <3> QED BY <1>1, <1>9, <1>11, <3>1, <3>2 DEF Requests, Synced
  <2>2. \A q \in Procs : pc'[q] = "iosleep" => buf[q] \in ToSet(rest)
    BY <1>1, <1>3, <1>11 DEF Requests
  <2> QED BY <1>2, <1>3, <2>1, <2>2 DEF Requests, Synced
<1>17. Contents'
  <2>1. NoLostUpdate'
    <3> SUFFICES ASSUME NEW m \in Blocks
                 PROVE  /\ (\A c \in Bufs : blockno[c] = m => ~dirty'[c]) => disk'[m] = latest[m]
                        /\ \A c \in Bufs : blockno[c] = m /\ valid'[c] /\ data'[c] # Garbage
                                             => data'[c] = latest[m]
      BY <1>2 DEF NoLostUpdate, Caching
    <3>1. /\ (\A c \in Bufs : blockno[c] = m => ~dirty[c]) => disk[m] = latest[m]
          /\ \A c \in Bufs : blockno[c] = m /\ valid[c] /\ data[c] # Garbage
                               => data[c] = latest[m]
      BY <1>1 DEF Contents, NoLostUpdate, Caching
    <3>2. CASE m = blockno[b]
      <4>1. \A c \in Bufs : blockno[c] = m => c = b
        BY <1>1, <1>3, <1>7, <3>2, BuffersAssumption DEF OneBlock
      <4>2. disk[m] = latest[m]
        BY <1>3, <1>8, <3>1, <3>2, <4>1
      <4> QED BY <1>3, <1>5, <1>8, <1>9, <3>1, <3>2, <4>1, <4>2
    <3>3. CASE m # blockno[b]
      BY <1>5, <1>9, <3>1, <3>3
    <3> QED BY <3>2, <3>3
  <2>2. \A c \in Bufs : dirty'[c] => /\ valid'[c] /\ blockno[c] \in Blocks
                                     /\ data'[c] = latest[blockno[c]]
    BY <1>1, <1>9 DEF Contents
  <2>3. rest # <<>> /\ dirty'[Head(rest)] => disk'[blockno[Head(rest)]] = data'[Head(rest)]
    BY <1>3, <1>4, <1>5, <1>9
  <2> QED BY <1>2, <2>1, <2>2, <2>3 DEF Contents
<1>18. PinBound'
  <2>1. Pinned' \subseteq Pinned
    BY <1>2, <1>9, <1>11 DEF Pinned
  <2> QED BY <1>1, <2>1, NoMorePinned
<1> QED BY <1>10, <1>13, <1>14, <1>15, <1>16, <1>17, <1>18 DEF BuffersInv

\* The holder of a buffer changes it; it goes on to iderw or keeps the buffer.
LEMMA StoreStep ==
  ASSUME BuffersInv, NEW p \in Procs, NEW v \in Vals, Store(p, v), NEW l \in {"iderw", "have"},
         pc' = [pc EXCEPT ![p] = l]
  PROVE  /\ Types' /\ OnList' /\ Using' /\ Refs' /\ OneBlock' /\ Locks' /\ Flags' /\ Requests'
         /\ Contents'
         /\ Pinned' \subseteq Pinned \union {buf[p]} /\ (l = "iderw" => buf[p] \notin Pinned')
         /\ buf[p] \in Bufs /\ (dirty[buf[p]] => buf[p] \in Pinned)
<1>1. /\ Types /\ Using /\ OneBlock /\ Locks /\ Flags /\ Requests /\ Contents
  BY DEF BuffersInv
<1> DEFINE b == buf[p]
           k == blockno[b]
<1>2. /\ pc[p] = "have"
      /\ data' = [data EXCEPT ![b] = v] /\ latest' = [latest EXCEPT ![k] = v]
      /\ dirty' = [dirty EXCEPT ![b] = TRUE]
      /\ UNCHANGED <<blockno, refcnt, valid, lru, lock, idequeue, disk, buf, other>>
  BY DEF Store
<1>3. b \in Bufs /\ k \in Blocks /\ k # NoBlock /\ valid[b]
  BY <1>1, <1>2, HasBuffer, BuffersAssumption DEF Flags
<1>4. \A q \in Procs : (buf[q] = b /\ Holds(pc[q]) => q = p) /\ other[q] # b
  BY <1>1, <1>2, Alone DEF Holds
<1>5. /\ ToSet(idequeue) \subseteq Bufs /\ b \notin ToSet(idequeue)
      /\ idequeue # <<>> => Head(idequeue) \in ToSet(idequeue)
  BY <1>1, <1>2, <1>4, QueueMembers DEF Requests, Types, Holds
<1>6. buf[p] = b
  OBVIOUS
<1> HIDE DEF b, k
<1>7. /\ data'[b] = v /\ dirty'[b] /\ latest'[k] = v
      /\ \A c \in Bufs \ {b} : data'[c] = data[c] /\ dirty'[c] = dirty[c]
      /\ \A m \in Blocks \ {k} : latest'[m] = latest[m]
      /\ pc'[p] = l /\ \A q \in Procs \ {p} : pc'[q] = pc[q]
  BY <1>1, <1>2, <1>3 DEF Types
<1>8. \A c \in Bufs : blockno[c] = k => c = b
  BY <1>1, <1>3 DEF OneBlock, k
<1>9. Types'
  <2>1. pc' \in [Procs -> PCs]
    BY <1>1 DEF Types, PCs
  <2> QED BY <1>1, <1>2, <1>3, <2>1 DEF Types
<1>10. OnList' /\ Using' /\ Refs' /\ OneBlock'
  <2>1. OnList' /\ Refs' /\ OneBlock'
    BY <1>2 DEF BuffersInv, OnList, Refs, UsersOf, OneBlock
  <2>2. Using'
    BY <1>1, <1>2, <1>7 DEF Using
  <2> QED BY <2>1, <2>2
<1>11. Locks'
  BY <1>1, <1>2, <1>7 DEF Locks, Has, Holds
<1>12. Flags'
  <2> SUFFICES ASSUME NEW q \in Procs
               PROVE  /\ pc'[q] = "have" => valid[buf[q]]
                      /\ other[q] # 0 => valid[other[q]]
                      /\ pc'[q] = "iowake" => valid[buf[q]] /\ ~dirty'[buf[q]]
                      /\ pc'[q] = "iderw" => /\ ~(valid[buf[q]] /\ ~dirty'[buf[q]])
                                             /\ buf[q] \notin ToSet(idequeue)
    BY <1>2 DEF Flags, Synced
  <2>1. CASE q = p
    BY <1>1, <1>3, <1>5, <1>6, <1>7, <2>1 DEF Flags
  <2>2. CASE q # p
    <3>1. pc[q] \in {"iderw", "iowake", "have"} => buf[q] \in Bufs \ {b}
      BY <1>1, <1>4, <2>2, HasBuffer DEF Holds
    <3> QED BY <1>1, <1>7, <2>2, <3>1 DEF Flags, Synced
  <2> QED BY <2>1, <2>2
<1>13. Requests'
  <2>1. ASSUME NEW c \in ToSet(idequeue)
        PROVE  ~(valid[c] /\ ~dirty'[c]) /\ \E q \in Procs : buf[q] = c /\ pc'[q] = "iosleep"
    BY <1>1, <1>2, <1>5, <1>7 DEF Requests, Synced
  <2>2. \A q \in Procs : pc'[q] = "iosleep" => buf[q] \in ToSet(idequeue)
    BY <1>1, <1>7 DEF Requests
  <2> QED BY <1>1, <1>2, <2>1, <2>2 DEF Requests, Synced
<1>14. Contents'
  <2>1. NoLostUpdate'
    <3> SUFFICES ASSUME NEW m \in Blocks
                 PROVE  /\ (\A c \in Bufs : blockno[c] = m => ~dirty'[c]) => disk[m] = latest'[m]
                        /\ \A c \in Bufs : blockno[c] = m /\ valid[c] /\ data'[c] # Garbage
                                             => data'[c] = latest'[m]
      BY <1>2 DEF NoLostUpdate, Caching
    <3>1. /\ (\A c \in Bufs : blockno[c] = m => ~dirty[c]) => disk[m] = latest[m]
          /\ \A c \in Bufs : blockno[c] = m /\ valid[c] /\ data[c] # Garbage
                               => data[c] = latest[m]
      BY <1>1 DEF Contents, NoLostUpdate, Caching
    <3>2. CASE m = k
      <4>1. blockno[b] = m
        BY <3>2 DEF k
      <4> QED BY <1>3, <1>7, <1>8, <3>2, <4>1
    <3>3. CASE m # k
      <4>1. \A c \in Bufs : blockno[c] = m => c # b
        BY <3>3 DEF k
      <4> QED BY <1>7, <3>1, <3>3, <4>1
    <3> QED BY <3>2, <3>3
  <2>2. ASSUME NEW c \in Bufs, dirty'[c]
        PROVE  valid[c] /\ blockno[c] \in Blocks /\ data'[c] = latest'[blockno[c]]
    <3>1. CASE c = b
      BY <1>3, <1>7, <3>1 DEF k
    <3>2. CASE c # b
      <4>1. dirty[c] /\ data'[c] = data[c]
        BY <1>7, <2>2, <3>2
      <4>2. valid[c] /\ blockno[c] \in Blocks /\ data[c] = latest[blockno[c]]
        BY <1>1, <4>1 DEF Contents
      <4> QED BY <1>7, <1>8, <3>2, <4>1, <4>2
    <3> QED BY <3>1, <3>2
  <2>3. idequeue # <<>> /\ dirty'[Head(idequeue)] =>
          disk[blockno[Head(idequeue)]] = data'[Head(idequeue)]
    BY <1>1, <1>5, <1>7 DEF Contents
  <2> QED BY <1>2, <2>1, <2>2, <2>3 DEF Contents
<1>15. Pinned' \subseteq Pinned \union {b}
  BY <1>2, <1>7 DEF Pinned
<1>16. l = "iderw" => b \notin Pinned'
  BY <1>2, <1>6, <1>7 DEF Pinned
<1>17. dirty[b] => b \in Pinned
  BY <1>2, <1>3, <1>4 DEF Pinned, Holds
<1> QED BY <1>3, <1>6, <1>9, <1>10, <1>11, <1>12, <1>13, <1>14, <1>15, <1>16, <1>17

LEMMA BwriteInv ==
  ASSUME BuffersInv, NEW p \in Procs, Bwrite(p)
  PROVE  BuffersInv'
<1>1. PICK v \in Vals : Store(p, v)
  BY DEF Bwrite
<1>2. pc' = [pc EXCEPT ![p] = "iderw"]
  BY DEF Bwrite
<1>3. /\ Types' /\ OnList' /\ Using' /\ Refs' /\ OneBlock' /\ Locks' /\ Flags' /\ Requests'
      /\ Contents' /\ Pinned' \subseteq Pinned
  BY <1>1, <1>2, StoreStep
<1>4. PinBound'
  BY <1>3, NoMorePinned DEF BuffersInv
<1> QED BY <1>3, <1>4 DEF BuffersInv

LEMMA LogWriteInv ==
  ASSUME BuffersInv, NEW p \in Procs, LogWrite(p)
  PROVE  BuffersInv'
<1>1. PICK v \in Vals : Store(p, v)
  BY DEF LogWrite
<1>2. /\ pc' = [pc EXCEPT ![p] = "have"]
      /\ dirty[buf[p]] \/ Cardinality(Pinned) < MaxDirty
  BY DEF LogWrite, BuffersInv, Types
<1>3. /\ Types' /\ OnList' /\ Using' /\ Refs' /\ OneBlock' /\ Locks' /\ Flags' /\ Requests'
      /\ Contents' /\ Pinned' \subseteq Pinned \union {buf[p]}
      /\ buf[p] \in Bufs /\ (dirty[buf[p]] => buf[p] \in Pinned)
  BY <1>1, <1>2, StoreStep
<1>4. PinBound'
  <2>1. CASE dirty[buf[p]]
    <3>1. Pinned' \subseteq Pinned
      BY <1>3, <2>1
    <3> QED BY <3>1, NoMorePinned DEF BuffersInv
  <2>2. CASE Cardinality(Pinned) < MaxDirty
    <3> DEFINE more == Pinned \union {buf[p]}
    <3>1. Pinned \in SUBSET Bufs /\ more \in SUBSET Bufs /\ Pinned' \in SUBSET more
      BY <1>3 DEF Pinned
    <3>2. IsFiniteSet(Pinned) /\ Cardinality(Pinned) \in Nat /\ MaxDirty \in Nat
      BY <3>1, BufsFinite, BuffersAssumption
    <3>3. Cardinality(more) <= Cardinality(Pinned) + 1
      BY <3>2, FS_AddElement
    <3> HIDE DEF more
    <3>4. /\ Cardinality(Pinned') \in Nat /\ Cardinality(more) \in Nat
          /\ Cardinality(Pinned') <= Cardinality(more)
      BY <3>1, BufsFinite
    <3> QED BY <2>2, <3>2, <3>3, <3>4 DEF PinBound
  <2> QED BY <1>2, <2>1, <2>2
<1> QED BY <1>3, <1>4 DEF BuffersInv

----------------------------------------------------------------------------

LEMMA BuffersInit == Init => BuffersInv
<1> SUFFICES ASSUME Init PROVE BuffersInv
  OBVIOUS
<1>1. NBUF \in Nat \ {0} /\ MaxDirty \in Nat /\ (CHOOSE v \in Vals : TRUE) \in Vals
  BY BuffersAssumption
<1>2. Types
  BY <1>1 DEF Init, Types, PCs
<1>3. OnList
  <2>1. lru = [i \in Bufs |-> NBUF + 1 - i]
    BY DEF Init
  <2>2. \A i \in Bufs : NBUF + 1 - i \in Bufs
    BY <1>1 DEF Bufs
  <2>3. ASSUME NEW c \in Bufs PROVE lru[NBUF + 1 - c] = c
    BY <1>1, <2>1, <2>2 DEF Bufs
  <2> QED BY <2>1, <2>2, <2>3 DEF OnList, ToSet
<1>4. Using /\ OneBlock /\ Locks /\ Flags
  BY <1>1, BuffersAssumption DEF Init, Using, OneBlock, Locks, Flags, Has, Holds, Bufs
<1>5. Refs
  <2> SUFFICES ASSUME NEW b \in Bufs PROVE refcnt[b] = Cardinality(UsersOf(b))
    BY DEF Refs
  <2>1. UsersOf(b) = {}
    BY <1>1 DEF Init, UsersOf, Bufs
  <2> QED BY <2>1, FS_EmptySet DEF Init
<1>6. Requests
  BY DEF Init, Requests, ToSet, IsInjective
<1>7. Contents
  <2>1. /\ \A b \in Bufs : ~dirty[b] /\ ~valid[b]
        /\ idequeue = <<>> /\ disk = latest
    BY DEF Init
  <2> QED BY <2>1 DEF Contents, NoLostUpdate, Caching
<1>8. PinBound
  <2>1. Pinned = {}
    BY DEF Init, Pinned
  <2> QED BY <1>1, <2>1, FS_EmptySet DEF PinBound
<1> QED BY <1>2, <1>3, <1>4, <1>5, <1>6, <1>7, <1>8 DEF BuffersInv

LEMMA BuffersStep == BuffersInv /\ [Next]_vars => BuffersInv'
<1> SUFFICES ASSUME BuffersInv, [Next]_vars PROVE BuffersInv'
  OBVIOUS
<1>1. ASSUME NEW p \in Procs, Bget(p) PROVE BuffersInv'
  BY <1>1, BgetHitInv, BgetRecycleInv, BgetPanicInv DEF Bget
<1>2. ASSUME NEW p \in Procs, Use(p) PROVE BuffersInv'
  BY <1>2, AcquireSleepInv, IderwInv, IoWakeInv, ReleaseSleepInv, BrelseInv DEF Use
<1>3. CASE UNCHANGED vars
  <2>1. Types' /\ OnList' /\ Using' /\ Refs' /\ OneBlock'
    BY <1>3 DEF vars, BuffersInv, Types, OnList, Using, Refs, UsersOf, OneBlock
  <2>2. Locks' /\ Flags' /\ Requests'
    BY <1>3 DEF vars, BuffersInv, Locks, Has, Flags, Requests, Synced
  <2>3. Contents' /\ PinBound'
    BY <1>3 DEF vars, BuffersInv, Contents, NoLostUpdate, Caching, PinBound, Pinned
  <2> QED BY <2>1, <2>2, <2>3 DEF BuffersInv
<1>4. ASSUME NEW p \in Procs, Spin(p) PROVE BuffersInv'
  BY <1>3, <1>4 DEF Spin
<1> QED BY <1>1, <1>2, <1>3, <1>4, TurnInv, BwriteInv, LogWriteInv, IdeIntrInv DEF Next

THEOREM BuffersInvariant == Spec => []BuffersInv
BY BuffersInit, BuffersStep, PTL DEF Spec

\* Whatever processes meet in bget, acquiresleep and iderw (bio.c:61, sleeplock.c:22,
\* ide.c:137): a block never has two buffers, refcnt is the number of processes that
\* have the buffer, and a process sleeps in iderw exactly while its request is queued.
THEOREM BuffersSafety == Spec => []BuffersSound
<1>1. BuffersInv => BuffersSound
  <2> SUFFICES ASSUME BuffersInv PROVE BuffersSound
    OBVIOUS
  <2>1. ToSet(idequeue) \subseteq Bufs
    BY QueueMembers DEF BuffersInv, Types
  <2>2. TypeOK
    BY <2>1 DEF BuffersInv, Types, OnList, TypeOK
  <2>3. OneBuffer
    <3>1. ASSUME NEW k \in Blocks PROVE Cardinality(Caching(k)) <= 1
      <4>1. CASE Caching(k) = {}
        BY <4>1, FS_EmptySet
      <4>2. CASE Caching(k) # {}
        <5>1. PICK b \in Bufs : b \in Caching(k)
          BY <4>2 DEF Caching
        <5>2. Caching(k) = {b}
          BY <5>1, BuffersAssumption DEF BuffersInv, OneBlock, Caching
        <5>3. Cardinality({b}) = 1
          BY FS_Singleton
        <5> QED BY <5>2, <5>3
      <4> QED BY <4>1, <4>2
    <3> QED BY <3>1 DEF BuffersInv, Refs, UsersOf, OneBuffer
  <2>4. RequestsSound
    <3>1. ASSUME NEW p \in Procs, pc[p] = "iosleep" PROVE lock[buf[p]] = p
      <4>1. Has(p, buf[p]) /\ buf[p] \in Bufs
        BY <3>1, HasBuffer DEF BuffersInv, Has, Holds
      <4> QED BY <4>1 DEF BuffersInv, Locks
    <3> QED BY <2>1, <3>1 DEF BuffersInv, RequestsSound, Requests
  <2> QED BY <2>2, <2>3, <2>4 DEF BuffersSound
<1> QED BY <1>1, BuffersInvariant, PTL

\* What was last stored in a block is in its valid buffer and, once that buffer is
\* clean or recycled (bio.c:78-91), on the disk; a failed read is the only exception.
THEOREM UpdatesKept == Spec => []NoLostUpdate
<1>1. BuffersInv => NoLostUpdate
  BY DEF BuffersInv, Contents
<1> QED BY <1>1, BuffersInvariant, PTL

----------------------------------------------------------------------------
(* How much room bget needs *)

LEMMA TwoSets ==
  ASSUME NEW S \in SUBSET Bufs, NEW T \in SUBSET Bufs
  PROVE  /\ Cardinality(S) \in Nat /\ Cardinality(T) \in Nat /\ Cardinality(S \union T) \in Nat
         /\ Cardinality(S \union T) <= Cardinality(S) + Cardinality(T)
<1>1. /\ IsFiniteSet(S) /\ Cardinality(S) \in Nat /\ IsFiniteSet(T) /\ Cardinality(T) \in Nat
  BY BufsFinite
<1>2. /\ S \union T \in SUBSET Bufs /\ S \cap T \in SUBSET Bufs
      /\ Cardinality(S \union T) = Cardinality(S) + Cardinality(T) - Cardinality(S \cap T)
  BY <1>1, FS_Union
<1>3. Cardinality(S \union T) \in Nat /\ Cardinality(S \cap T) \in Nat
  BY <1>2, BufsFinite
<1> QED BY <1>1, <1>2, <1>3

\* bget that finds no buffer: each one is in somebody's hands or pinned.
LEMMA NoRoom ==
  ASSUME BuffersInv, \A b \in Bufs : ~Recyclable(b)
  PROVE  NBUF <= Cardinality(InHand) + MaxDirty
<1>1. Bufs \subseteq InHand \union Pinned
  <2> SUFFICES ASSUME NEW b \in Bufs, b \notin InHand PROVE b \in Pinned
    OBVIOUS
  <2>1. \A q \in Procs : buf[q] # b /\ other[q] # b
    BY DEF InHand
  <2>2. UsersOf(b) = {}
    BY <2>1 DEF UsersOf
  <2>3. refcnt[b] = 0
    BY <2>2, FS_EmptySet DEF BuffersInv, Refs
  <2> QED BY <2>1, <2>3 DEF Recyclable, Pinned
<1>2. InHand \in SUBSET Bufs /\ Pinned \in SUBSET Bufs
  BY DEF InHand, Pinned
<1>3. Bufs = InHand \union Pinned
  BY <1>1, <1>2
<1>4. NBUF \in Nat /\ MaxDirty \in Nat /\ Cardinality(Bufs) = NBUF
  BY BuffersAssumption, FS_Interval DEF Bufs
<1>5. /\ Cardinality(InHand) \in Nat /\ Cardinality(Pinned) \in Nat
      /\ Cardinality(InHand \union Pinned) <= Cardinality(InHand) + Cardinality(Pinned)
  BY <1>2, TwoSets
<1>6. Cardinality(Pinned) <= MaxDirty
  BY DEF BuffersInv, PinBound
<1>7. NBUF <= Cardinality(InHand) + Cardinality(Pinned)
  BY <1>3, <1>4, <1>5
<1> QED BY <1>4, <1>5, <1>6, <1>7

\* Only bget's panic makes a process panic.
LEMMA WhoPanics ==
  ASSUME BuffersInv, Next, NEW p \in Procs, pc[p] # "panic", pc'[p] = "panic"
  PROVE  \E k \in Blocks : BgetPanic(p, k)
<1>1. pc \in [Procs -> PCs]
  BY DEF BuffersInv, Types
<1>2. ASSUME NEW q \in Procs, NEW k \in Blocks, BgetHit(q, k) \/ BgetRecycle(q, k) PROVE FALSE
  <2>1. pc' = [pc EXCEPT ![q] = "lock"]
    BY <1>2 DEF BgetHit, BgetRecycle, Takes
  <2> QED BY <1>1, <2>1
<1>3. ASSUME NEW q \in Procs, NEW k \in Blocks, BgetPanic(q, k) PROVE BgetPanic(p, k)
  <2>1. pc' = [pc EXCEPT ![q] = "panic"]
    BY <1>3 DEF BgetPanic
  <2>2. q = p
    BY <1>1, <2>1
  <2> QED BY <1>3, <2>2
<1>4. ASSUME NEW q \in Procs, AcquireSleep(q) PROVE FALSE
  BY <1>1, <1>4 DEF AcquireSleep
<1>5. ASSUME NEW q \in Procs, ReleaseSleep(q) PROVE FALSE
  BY <1>1, <1>5 DEF ReleaseSleep, Woken
<1>6. ASSUME NEW q \in Procs, Brelse(q) PROVE FALSE
  BY <1>1, <1>6 DEF Brelse
<1>7. ASSUME NEW q \in Procs, Iderw(q) PROVE FALSE
  BY <1>1, <1>7 DEF Iderw
<1>8. ASSUME NEW q \in Procs, IoWake(q) PROVE FALSE
  BY <1>1, <1>8 DEF IoWake
<1>9. ASSUME NEW q \in Procs, Turn(q) \/ LogWrite(q) \/ Spin(q) PROVE FALSE
  BY <1>9 DEF Turn, LogWrite, Spin, vars
<1>10. ASSUME NEW q \in Procs, Bwrite(q) PROVE FALSE
  BY <1>1, <1>10 DEF Bwrite
<1>11. ASSUME NEW ok \in BOOLEAN, IdeIntr(ok) PROVE FALSE
  BY <1>1, <1>11 DEF IdeIntr, Woken
<1> QED BY <1>2, <1>3, <1>4, <1>5, <1>6, <1>7, <1>8, <1>9, <1>10, <1>11 DEF Next, Bget, Use

\* Once bget has panicked no buffer is taken or given back: bcache.lock is held.
LEMMA HandsStay ==
  ASSUME BuffersInv, [Next]_vars, NEW r \in Procs, pc[r] = "panic"
  PROVE  InHand' = InHand
<1>1. ASSUME UNCHANGED <<buf, other>> PROVE InHand' = InHand
  BY <1>1 DEF InHand
<1>2. ASSUME NEW q \in Procs, Bget(q) PROVE FALSE
  BY <1>2 DEF Bget, BgetHit, BgetRecycle, BgetPanic, Bread
<1>3. ASSUME NEW q \in Procs, Use(q) PROVE UNCHANGED <<buf, other>>
  BY <1>3 DEF Use, AcquireSleep, Iderw, IoWake, ReleaseSleep, Brelse
<1>4. ASSUME NEW q \in Procs, Turn(q) PROVE InHand' = InHand
  <2>1. /\ buf' = [buf EXCEPT ![q] = other[q]] /\ other' = [other EXCEPT ![q] = buf[q]]
        /\ buf \in [Procs -> 0..NBUF] /\ other \in [Procs -> 0..NBUF]
    BY <1>4 DEF Turn, BuffersInv, Types
  <2>2. \A o \in Procs : {buf'[o], other'[o]} = {buf[o], other[o]}
    BY <2>1
  <2> QED BY <2>2 DEF InHand
<1>5. ASSUME NEW q \in Procs, Bwrite(q) \/ LogWrite(q) PROVE UNCHANGED <<buf, other>>
  BY <1>5 DEF Bwrite, LogWrite, Store
<1>6. ASSUME NEW ok \in BOOLEAN, IdeIntr(ok) PROVE UNCHANGED <<buf, other>>
  BY <1>6 DEF IdeIntr
<1>7. ASSUME NEW q \in Procs, Spin(q) PROVE UNCHANGED <<buf, other>>
  BY <1>7 DEF Spin, vars
<1>8. CASE UNCHANGED vars
  BY <1>1, <1>8 DEF vars
<1> QED BY <1>1, <1>2, <1>3, <1>4, <1>5, <1>6, <1>7, <1>8 DEF Next

LEMMA EnoughStep == BuffersInv /\ EnoughBuffers /\ [Next]_vars => EnoughBuffers'
<1> SUFFICES ASSUME BuffersInv, EnoughBuffers, [Next]_vars, NEW p \in Procs, pc'[p] = "panic"
             PROVE  NBUF <= Cardinality(InHand') + MaxDirty
  BY DEF EnoughBuffers
<1>1. CASE \E r \in Procs : pc[r] = "panic"
  <2>1. NBUF <= Cardinality(InHand) + MaxDirty
    BY <1>1 DEF EnoughBuffers
  <2>2. InHand' = InHand
    BY <1>1, HandsStay
  <2> QED BY <2>1, <2>2
<1>2. CASE \A r \in Procs : pc[r] # "panic"
  <2>1. Next
    BY <1>2 DEF vars
  <2>2. PICK k \in Blocks : BgetPanic(p, k)
    BY <1>2, <2>1, WhoPanics
  <2>3. (\A b \in Bufs : ~Recyclable(b)) /\ UNCHANGED <<buf, other>>
    BY <2>2 DEF BgetPanic
  <2>4. InHand' = InHand
    BY <2>3 DEF InHand
  <2>5. NBUF <= Cardinality(InHand) + MaxDirty
    BY <2>3, NoRoom
  <2> QED BY <2>4, <2>5
<1> QED BY <1>1, <1>2

\* bget panics (bio.c:92) only when all buffers, but as many as the log may pin, are
\* in the hands of processes: no reference and no pin outlives its use, whatever the
\* processes did before.
THEOREM BgetFinds == Spec => []EnoughBuffers
<1>1. Init => EnoughBuffers
  BY DEF Init, EnoughBuffers
<1> QED BY <1>1, EnoughStep, BuffersInvariant, PTL DEF Spec

\* The processes that have something in f.
LEMMA OneEach ==
  ASSUME NEW f \in [Procs -> 0..NBUF]
  PROVE  Cardinality({b \in Bufs : \E p \in Procs : b = f[p]}) <= Cardinality(Procs)
<1> DEFINE live == {p \in Procs : f[p] # 0}
           used == {b \in Bufs : \E p \in Procs : b = f[p]}
           g == [p \in live |-> f[p]]
<1>1. IsFiniteSet(live) /\ Cardinality(live) <= Cardinality(Procs)
  BY BuffersAssumption, FS_Subset
<1>2. \A p \in live : f[p] \in used
  BY DEF Bufs
<1>3. g \in Surjection(live, used)
  BY <1>2 DEF Surjection, Bufs
<1>4. IsFiniteSet(used) /\ Cardinality(used) <= Cardinality(live)
  BY <1>1, <1>3, FS_Surjection
<1>5. Cardinality(used) \in Nat /\ Cardinality(live) \in Nat /\ Cardinality(Procs) \in Nat
  BY <1>1, <1>4, BuffersAssumption, FS_CardinalityType
<1> HIDE DEF live, used
<1>6. Cardinality(used) <= Cardinality(Procs)
  BY <1>1, <1>4, <1>5
<1> QED BY <1>6 DEF used

\* So bget never panics (bio.c:92) when there are two buffers for each process that
\* may be in the file system, besides those of the blocks the log may pin.
THEOREM BgetNeverPanics ==
  ASSUME NBUF > 2 * Cardinality(Procs) + MaxDirty
  PROVE  Spec => [](\A p \in Procs : pc[p] # "panic")
<1>1. BuffersInv /\ EnoughBuffers => \A p \in Procs : pc[p] # "panic"
  <2> SUFFICES ASSUME BuffersInv, EnoughBuffers, NEW p \in Procs, pc[p] = "panic" PROVE FALSE
    OBVIOUS
  <2> DEFINE first == {b \in Bufs : \E q \in Procs : b = buf[q]}
             second == {b \in Bufs : \E q \in Procs : b = other[q]}
  <2>1. Cardinality(first) <= Cardinality(Procs) /\ Cardinality(second) <= Cardinality(Procs)
    BY OneEach DEF BuffersInv, Types
  <2>2. InHand = first \union second /\ first \in SUBSET Bufs /\ second \in SUBSET Bufs
    BY DEF InHand
  <2> HIDE DEF first, second
  <2>3. /\ Cardinality(first) \in Nat /\ Cardinality(second) \in Nat /\ Cardinality(InHand) \in Nat
        /\ Cardinality(InHand) <= Cardinality(first) + Cardinality(second)
    BY <2>2, TwoSets
  <2>4. /\ NBUF \in Nat /\ MaxDirty \in Nat /\ Cardinality(Procs) \in Nat
        /\ NBUF <= Cardinality(InHand) + MaxDirty
    BY BuffersAssumption, FS_CardinalityType DEF EnoughBuffers
  <2> QED BY <2>1, <2>3, <2>4
<1> QED BY <1>1, BgetFinds, BuffersInvariant, PTL
==============================================================================
