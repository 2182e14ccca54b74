------------------------------ MODULE LogProof -------------------------------
(***************************************************************************)
(* Proofs about Log: for any number of processes, blocks and crashes, the  *)
(* reservation of begin_op suffices, no update is only in a buffer that    *)
(* may be recycled, and log.c implements the transactions of LogAbs.       *)
(***************************************************************************)
EXTENDS Log, RingProof, FiniteSetTheorems

----------------------------------------------------------------------------
(* The inductive invariant *)

InCall(l) == l \in {"in", "dirtied", "checked"}

\* Both headers fit in the log and name no block twice.
Distinct ==
  /\ IsInjective(lh) /\ Len(lh) <= NLOG - 1
  /\ IsInjective(hdr) /\ Len(hdr) <= NLOG - 1

Recovering ==
  boot = "recover" =>
    /\ phase \in {"read", "install"} /\ dirty = {} /\ ~committing
    /\ \A p \in Procs : pc[p] = "idle"
    /\ phase = "read" => lh = <<>>

\* The header on disk is empty but while a transaction is installed; the pinned
\* buffers are those of the transaction that are not home yet.
Running ==
  boot = "run" =>
    /\ phase \in {"none", "write", "head", "install", "done"}
    /\ phase = "none" <=> ~committing
    /\ phase # "none" => Active = {}
    /\ phase \in {"none", "write", "head"} => hdr = <<>> /\ dirty = ToSet(lh)
    /\ phase = "done" => hdr = <<>> /\ lh = <<>> /\ dirty = {}
    /\ phase = "install" => dirty = {lh[i] : i \in (tail + 1)..Len(lh)}
    /\ phase = "none" /\ Active = {} => lh = <<>>

Loops ==
  /\ phase = "install" => hdr = lh /\ tail <= Len(lh)
  /\ phase = "write" => tail < Len(lh)
  /\ phase \notin {"write", "install"} => tail = 0

\* A call has logged what it wrote, but for the buffer it still has locked.
CallOK(p) ==
  /\ held[p] # 0 <=> pc[p] \in {"dirtied", "checked"}
  /\ held[p] # 0 => held[p] \in wrote[p]
  /\ wrote[p] # {} => InCall(pc[p])
  /\ Cardinality(wrote[p]) <= OpBlocks
  /\ wrote[p] \ {held[p]} \subseteq ToSet(lh)

Calls ==
  /\ outstanding = Cardinality(Active)
  /\ \A p \in Procs : CallOK(p)
  /\ \A p, q \in Procs : held[p] = held[q] /\ held[p] # 0 => p = q

\* The log entries reserved for the calls in A that they have not used: w is
\* what each has written, l the transaction.
Slots(A, w, l) ==
  {x \in A \X (1..MAXOPBLOCKS) : x[2] > Cardinality(w[x[1]] \intersect ToSet(l))}

\* The transaction and the reservations fit in the log; and one entry more is
\* left over unless the only call there is made the whole transaction.
Reserved(A, w, l) ==
  \A p \in A :
    /\ Len(l) + Cardinality(Slots(A, w, l)) <= LOGSIZE
    /\ \/ \E q \in A : q # p
       \/ Len(l) + Cardinality(Slots(A, w, l)) < LOGSIZE
       \/ ToSet(l) \subseteq w[p]

Reserve == Reserved(Active, wrote, lh)

\* What the log blocks hold while the transaction is written and installed.
Copied ==
  /\ phase = "write" => \A i \in 1..tail : disk[i] = cache[lh[i]]
  /\ phase = "head" \/ (phase = "install" /\ boot = "run")
       => \A i \in 1..Len(lh) : disk[i] = cache[lh[i]]
  /\ phase = "install" => \A i \in 1..tail : disk[lh[i]] = disk[i]

LogInv ==
  /\ TypeOK /\ NoPanic /\ Distinct /\ Recovering /\ Running /\ Loops /\ Calls /\ Reserve
  /\ CleanOnDisk /\ Copied

----------------------------------------------------------------------------
(* Blocks, lists and reservations *)

LEMMA Geometry ==
  /\ Home \subseteq Blocks /\ 0 \notin Home /\ IsFiniteSet(Home)
  /\ \A i \in 1..(NLOG - 1) : i \in Blocks /\ i \notin Home
<1>1. NLOG \in Nat \ {0, 1} /\ NBLOCKS \in Nat \ {0}
  BY LogAssumption
<1>2. IsFiniteSet(Home)
  BY <1>1, FS_Interval DEF Home
<1> QED BY <1>1, <1>2 DEF Home, Blocks

LEMMA Listed ==
  ASSUME NEW S, NEW l \in Seq(S)
  PROVE  /\ Len(l) \in Nat /\ \A i \in 1..Len(l) : l[i] \in S /\ l[i] \in ToSet(l)
         /\ ToSet(l) = {l[i] : i \in 1..Len(l)} /\ ToSet(l) \subseteq S
         /\ l = <<>> <=> Len(l) = 0
<1>1. DOMAIN l = 1..Len(l) /\ Len(l) \in Nat /\ \A i \in 1..Len(l) : l[i] \in S
  OBVIOUS
<1>2. l = <<>> <=> Len(l) = 0
  OBVIOUS
<1> QED BY <1>1, <1>2 DEF ToSet

\* A list without duplicates is no longer than a set that contains it.
LEMMA ListBound ==
  ASSUME NEW S, NEW l \in Seq(S), IsInjective(l), NEW T, ToSet(l) \subseteq T, IsFiniteSet(T)
  PROVE  Len(l) <= Cardinality(T)
<1>1. Len(l) \in Nat /\ DOMAIN l = 1..Len(l) /\ l \in [1..Len(l) -> S]
  OBVIOUS
<1>2. \A i \in 1..Len(l) : l[i] \in T
  BY <1>1 DEF ToSet
<1>3. l \in [1..Len(l) -> T]
  BY <1>1, <1>2
<1>4. l \in Injection(1..Len(l), T)
  BY <1>1, <1>3 DEF Injection, IsInjective
<1>5. Cardinality(1..Len(l)) <= Cardinality(T)
  BY <1>4, FS_Injection
<1>6. Cardinality(1..Len(l)) = Len(l)
  BY <1>1, FS_Interval
<1> QED BY <1>5, <1>6

LEMMA PairCardinality ==
  ASSUME NEW x, NEW y, x # y
  PROVE  Cardinality({x} \union {y}) = 2
<1>1. IsFiniteSet({x}) /\ Cardinality({x}) = 1 /\ y \notin {x}
  BY FS_Singleton
<1>2. Cardinality({x} \union {y}) = Cardinality({x}) + 1
  BY <1>1, FS_AddElement
<1> QED BY <1>1, <1>2

LEMMA SlotsFinite ==
  ASSUME NEW A \in SUBSET Procs, NEW w, NEW l
  PROVE  /\ IsFiniteSet(Slots(A, w, l)) /\ Cardinality(Slots(A, w, l)) \in Nat
         /\ Cardinality(Slots(A, w, l)) <= Cardinality(A) * MAXOPBLOCKS
<1>1. MAXOPBLOCKS \in Nat \ {0} /\ IsFiniteSet(Procs)
  BY LogAssumption
<1>2. IsFiniteSet(A)
  BY <1>1, FS_Subset
<1>3. IsFiniteSet(1..MAXOPBLOCKS) /\ Cardinality(1..MAXOPBLOCKS) = MAXOPBLOCKS
  <2>1. 1 \in Int /\ MAXOPBLOCKS \in Int
    BY <1>1
  <2> QED BY <1>1, <2>1, FS_Interval
<1>4. /\ IsFiniteSet(A \X (1..MAXOPBLOCKS))
      /\ Cardinality(A \X (1..MAXOPBLOCKS)) = Cardinality(A) * MAXOPBLOCKS
  BY <1>2, <1>3, FS_Product
<1>5. Slots(A, w, l) \in SUBSET (A \X (1..MAXOPBLOCKS))
  BY DEF Slots
<1> QED BY <1>4, <1>5, FS_Subset, FS_CardinalityType

\* How many entries a call has used.
LEMMA UsedSlots ==
  ASSUME NEW w \in SUBSET Home, NEW T, Cardinality(w) <= OpBlocks
  PROVE  /\ IsFiniteSet(w) /\ IsFiniteSet(w \intersect T)
         /\ Cardinality(w) \in Nat /\ Cardinality(w \intersect T) \in 0..(MAXOPBLOCKS - 1)
<1>1. IsFiniteSet(w) /\ Cardinality(w) \in Nat
  BY Geometry, FS_Subset, FS_CardinalityType
<1>2. w \intersect T \in SUBSET w
  OBVIOUS
<1>3. /\ IsFiniteSet(w \intersect T) /\ Cardinality(w \intersect T) <= Cardinality(w)
      /\ Cardinality(w \intersect T) \in Nat
  BY <1>1, <1>2, FS_Subset, FS_CardinalityType
<1>4. OpBlocks \in Nat /\ MAXOPBLOCKS \in Nat /\ OpBlocks < MAXOPBLOCKS
  BY LogAssumption, RoomAssumption
<1> QED BY <1>1, <1>3, <1>4

\* Entries are used, and calls end: no new reservation.
LEMMA SlotsShrink ==
  ASSUME NEW A \in SUBSET Procs, NEW w \in [Procs -> SUBSET Home], NEW l,
         NEW A2 \in SUBSET A, NEW w2 \in [Procs -> SUBSET Home], NEW l2,
         \A p \in A2 : w[p] \intersect ToSet(l) \subseteq w2[p] \intersect ToSet(l2)
  PROVE  Slots(A2, w2, l2) \subseteq Slots(A, w, l)
<1> SUFFICES ASSUME NEW p \in A2, NEW i \in 1..MAXOPBLOCKS,
                    i > Cardinality(w2[p] \intersect ToSet(l2))
             PROVE  i > Cardinality(w[p] \intersect ToSet(l))
  BY DEF Slots
<1> DEFINE u == w[p] \intersect ToSet(l)
           u2 == w2[p] \intersect ToSet(l2)
<1>1. u \in SUBSET u2 /\ u2 \in SUBSET Home
  OBVIOUS
<1>2. IsFiniteSet(u2) /\ Cardinality(u2) \in Nat
  BY <1>1, Geometry, FS_Subset, FS_CardinalityType
<1>3. Cardinality(u) <= Cardinality(u2) /\ Cardinality(u) \in Nat
  BY <1>1, <1>2, FS_Subset, FS_CardinalityType
<1> QED BY <1>2, <1>3

\* Each call has an entry left, so there is room for the buffer it may still write.
LEMMA RoomLeft ==
  ASSUME NEW A \in SUBSET Procs, NEW w \in [Procs -> SUBSET Home], NEW l \in Seq(Home),
         IsInjective(l), \A p \in A : Cardinality(w[p]) <= OpBlocks,
         Reserved(A, w, l), A # {}
  PROVE  Len(l) + 2 <= LOGSIZE
<1>1. /\ MAXOPBLOCKS \in Nat \ {0} /\ OpBlocks \in Nat /\ OpBlocks < MAXOPBLOCKS
      /\ MAXOPBLOCKS < LOGSIZE /\ LOGSIZE \in Nat /\ Len(l) \in Nat /\ IsFiniteSet(Procs)
  BY LogAssumption, RoomAssumption
<1> DEFINE S == Slots(A, w, l)
<1>2. IsFiniteSet(S) /\ Cardinality(S) \in Nat
  BY SlotsFinite
<1>3. ASSUME NEW p \in A PROVE <<p, MAXOPBLOCKS>> \in S /\ IsFiniteSet(w[p])
  <2>1. w[p] \in SUBSET Home /\ Cardinality(w[p]) <= OpBlocks
    OBVIOUS
  <2>2. IsFiniteSet(w[p]) /\ Cardinality(w[p] \intersect ToSet(l)) \in 0..(MAXOPBLOCKS - 1)
    BY <2>1, UsedSlots
  <2>3. <<p, MAXOPBLOCKS>> \in A \X (1..MAXOPBLOCKS)
    BY <1>1
  <2>4. MAXOPBLOCKS > Cardinality(w[p] \intersect ToSet(l))
    BY <1>1, <2>2
  <2> QED BY <2>2, <2>3, <2>4 DEF Slots
<1> HIDE DEF S
<1>4. PICK p \in A : TRUE
  OBVIOUS
<1>5. Cardinality(S) >= 1
  <2>1. {<<p, MAXOPBLOCKS>>} \in SUBSET S
    BY <1>3, <1>4
  <2>2. Cardinality({<<p, MAXOPBLOCKS>>}) = 1
    BY FS_Singleton
  <2>3. Cardinality({<<p, MAXOPBLOCKS>>}) <= Cardinality(S)
    BY <1>2, <2>1, FS_Subset
  <2> QED BY <1>2, <2>2, <2>3
<1>6. Len(l) + Cardinality(S) <= LOGSIZE
  BY <1>4 DEF Reserved, S
<1>7. CASE \E q \in A : q # p
  <2>1. PICK q \in A : q # p
    BY <1>7
  <2>2. {<<q, MAXOPBLOCKS>>} \union {<<p, MAXOPBLOCKS>>} \in SUBSET S
    BY <1>3, <1>4, <2>1
  <2>3. Cardinality({<<q, MAXOPBLOCKS>>} \union {<<p, MAXOPBLOCKS>>}) = 2
    <3>1. <<q, MAXOPBLOCKS>> # <<p, MAXOPBLOCKS>>
      BY <2>1
    <3> QED BY <3>1, PairCardinality
  <2>4. Cardinality({<<q, MAXOPBLOCKS>>} \union {<<p, MAXOPBLOCKS>>}) <= Cardinality(S)
    BY <1>2, <2>2, FS_Subset
  <2> QED BY <1>1, <1>2, <1>6, <2>3, <2>4
<1>8. CASE Len(l) + Cardinality(S) < LOGSIZE
  BY <1>1, <1>2, <1>5, <1>8
<1>9. CASE ToSet(l) \subseteq w[p]
  <2>1. Len(l) <= Cardinality(w[p])
    BY <1>3, <1>4, <1>9, ListBound
  <2>2. Cardinality(w[p]) <= OpBlocks /\ Cardinality(w[p]) \in Nat
    BY <1>3, <1>4, FS_CardinalityType
  <2> QED BY <1>1, <2>1, <2>2
<1> QED BY <1>4, <1>7, <1>8, <1>9 DEF Reserved, S

----------------------------------------------------------------------------
(* The disk work of commit and recovery *)

\* No call is under way while a transaction is written, installed or recovered.
LEMMA DiskWork ==
  ASSUME LogInv, phase # "none"
  PROVE  /\ Active = {} /\ Locked = {} /\ \A p \in Procs : held[p] = 0 /\ wrote[p] = {}
         /\ boot \in {"recover", "run"}
<1>1. TypeOK /\ NoPanic /\ Recovering /\ Running /\ Calls
  BY DEF LogInv
<1>2. boot \in {"recover", "run"}
  BY <1>1 DEF TypeOK, NoPanic
<1>3. \A p \in Procs : ~InCall(pc[p])
  BY <1>1, <1>2 DEF Recovering, Running, Active, InCall
<1>4. \A p \in Procs : held[p] = 0 /\ wrote[p] = {}
  BY <1>1, <1>3 DEF Calls, CallOK, InCall
<1> QED BY <1>2, <1>3, <1>4 DEF Active, Locked, InCall

LEMMA DiskWorkCalls ==
  ASSUME LogInv, phase # "none", UNCHANGED <<calls, outstanding>>
  PROVE  Calls' /\ Reserve' /\ Active' = {} /\ Locked' = {}
<1>1. /\ Active = {} /\ Locked = {} /\ \A p \in Procs : held[p] = 0 /\ wrote[p] = {}
  BY DiskWork
<1>2. Active' = Active /\ Locked' = Locked
  BY DEF calls, Active, Locked
<1>3. Reserve'
  BY <1>1, <1>2 DEF Reserve, Reserved
<1>4. Calls'
  <2>1. \A p \in Procs : CallOK(p)'
    BY <1>1 DEF LogInv, Calls, CallOK, calls
  <2>2. outstanding' = Cardinality(Active')
    BY <1>2 DEF LogInv, Calls
  <2> QED BY <1>1, <2>1, <2>2 DEF Calls, calls
<1> QED BY <1>1, <1>2, <1>3, <1>4

LEMMA ReadHeadInv ==
  ASSUME LogInv, ReadHead
  PROVE  LogInv'
<1>1. /\ TypeOK /\ NoPanic /\ Distinct /\ Recovering /\ Running /\ Loops /\ CleanOnDisk
  BY DEF LogInv
<1>2. /\ phase = "read" /\ lh' = hdr /\ phase' = "install"
      /\ UNCHANGED <<disk, hdr, cache, dirty, outstanding, committing, tail, calls, boot, crashes>>
  BY DEF ReadHead
<1>3. boot = "recover" /\ tail = 0 /\ dirty = {} /\ ~committing
  BY <1>1, <1>2 DEF TypeOK, NoPanic, Running, Recovering, Loops
<1>4. Calls' /\ Reserve' /\ Active' = {} /\ Locked' = {}
  BY <1>2, DiskWorkCalls
<1>5. TypeOK'
  BY <1>1, <1>2 DEF TypeOK, calls
<1>6. NoPanic' /\ Distinct' /\ Running' /\ Recovering'
  BY <1>1, <1>2, <1>3 DEF NoPanic, Distinct, Running, Recovering, calls
<1>7. Loops'
  <2>1. Len(hdr) \in Nat
    BY <1>1 DEF TypeOK
  <2> QED BY <1>2, <1>3, <2>1 DEF Loops
<1>8. CleanOnDisk'
  BY <1>1, <1>2 DEF CleanOnDisk, Locked, calls
<1>9. Copied'
  BY <1>2, <1>3 DEF Copied
<1> QED BY <1>4, <1>5, <1>6, <1>7, <1>8, <1>9 DEF LogInv

LEMMA WriteLogInv ==
  ASSUME LogInv, WriteLog
  PROVE  LogInv'
<1>1. /\ TypeOK /\ NoPanic /\ Distinct /\ Recovering /\ Running /\ Loops /\ CleanOnDisk /\ Copied
  BY DEF LogInv
<1> DEFINE t == tail + 1
           v == cache[lh[t]]
<1>2. /\ phase = "write" /\ cache' = [cache EXCEPT ![t] = v] /\ disk' = [disk EXCEPT ![t] = v]
      /\ dirty' = dirty \ {t} /\ tail' = t % Len(lh)
      /\ phase' = IF t = Len(lh) THEN "head" ELSE "write"
      /\ UNCHANGED <<hdr, lh, outstanding, committing, calls, boot, crashes>>
  BY DEF WriteLog
<1>3. /\ Len(lh) \in Nat /\ tail \in Nat /\ tail < Len(lh) /\ t \in 1..Len(lh)
      /\ t \in 1..(NLOG - 1) /\ NLOG \in Nat
      /\ \A i \in 1..Len(lh) : lh[i] \in Home /\ lh[i] # t /\ i \in 1..(NLOG - 1)
  <2>1. Len(lh) \in Nat /\ tail \in Nat /\ \A i \in 1..Len(lh) : lh[i] \in Home
    BY <1>1, Listed DEF TypeOK
  <2>2. tail < Len(lh) /\ Len(lh) <= NLOG - 1 /\ NLOG \in Nat
    BY <1>1, <1>2, LogAssumption DEF Loops, Distinct
  <2> QED BY <2>1, <2>2, Geometry
<1>4. t \in Blocks /\ t \notin Home /\ v \in Vals
  BY <1>1, <1>3, Geometry DEF TypeOK
<1>5. boot = "run" /\ dirty = ToSet(lh) /\ hdr = <<>> /\ committing
  BY <1>1, <1>2 DEF TypeOK, NoPanic, Recovering, Running
<1>6. t = Len(lh) => tail' = 0
  BY <1>2, <1>3, ModUnique
<1>7. t # Len(lh) => tail' = t
  <2>1. t # Len(lh) => t \in 0..(Len(lh) - 1) /\ Len(lh) \in Nat \ {0}
    BY <1>3
  <2> QED BY <1>2, <2>1, ModSmall
<1>8. dirty' = dirty
  BY <1>1, <1>2, <1>4 DEF TypeOK
<1> HIDE DEF t, v
<1>9. /\ \A b \in Blocks \ {t} : cache'[b] = cache[b] /\ disk'[b] = disk[b]
      /\ cache'[t] = v /\ disk'[t] = v
  BY <1>1, <1>2, <1>4 DEF TypeOK
<1>10. Calls' /\ Reserve' /\ Active' = {} /\ Locked' = {}
  BY <1>2, DiskWorkCalls
<1>11. tail' \in Nat
  BY <1>3, <1>6, <1>7
<1>12. TypeOK'
  <2>1. disk' \in [Blocks -> Vals] /\ cache' \in [Blocks -> Vals]
    BY <1>1, <1>2, <1>4 DEF TypeOK
  <2> QED BY <1>1, <1>2, <1>8, <1>11, <2>1 DEF TypeOK, calls
<1>13. NoPanic' /\ Distinct' /\ Recovering'
  BY <1>1, <1>2, <1>5 DEF NoPanic, Distinct, Recovering
<1>14. Running'
  BY <1>2, <1>5, <1>8, <1>10 DEF Running
<1>15. Loops'
  BY <1>2, <1>3, <1>6, <1>7 DEF Loops, t
<1>16. CleanOnDisk'
  <2>1. Locked = {}
    BY <1>2, DiskWork
  <2> QED BY <1>1, <1>8, <1>9, <1>10, <2>1 DEF CleanOnDisk
<1>17. Copied'
  <2>1. \A i \in 1..Len(lh) : cache'[lh[i]] = cache[lh[i]]
    BY <1>3, <1>9, Geometry
  <2>2. \A i \in 1..t : disk'[i] = cache'[lh[i]]
    <3> SUFFICES ASSUME NEW i \in 1..t PROVE disk'[i] = cache'[lh[i]]
      OBVIOUS
    <3>1. i \in 1..Len(lh) /\ i \in Blocks
      BY <1>3, Geometry
    <3>2. CASE i = t
      BY <1>9, <2>1, <3>1, <3>2 DEF v
    <3>3. CASE i # t
      <4>1. i \in 1..tail
        BY <1>3, <3>3 DEF t
      <4> QED BY <1>1, <1>2, <1>9, <2>1, <3>1, <3>3, <4>1 DEF Copied
    <3> QED BY <3>2, <3>3
  <2> QED BY <1>2, <1>6, <1>7, <2>2 DEF Copied
<1> QED BY <1>10, <1>12, <1>13, <1>14, <1>15, <1>16, <1>17 DEF LogInv

LEMMA WriteHeadInv ==
  ASSUME LogInv, WriteHead
  PROVE  LogInv'
<1>1. /\ TypeOK /\ NoPanic /\ Distinct /\ Recovering /\ Running /\ Loops /\ CleanOnDisk /\ Copied
  BY DEF LogInv
<1>2. /\ phase = "head" /\ hdr' = lh /\ phase' = "install"
      /\ UNCHANGED <<disk, cache, dirty, lh, outstanding, committing, tail, calls, boot, crashes>>
  BY DEF WriteHead
<1>3. boot = "run" /\ dirty = ToSet(lh) /\ committing /\ tail = 0
  BY <1>1, <1>2 DEF TypeOK, NoPanic, Recovering, Running, Loops
<1>4. Calls' /\ Reserve' /\ Active' = {} /\ Locked' = {}
  BY <1>2, DiskWorkCalls
<1>5. TypeOK'
  BY <1>1, <1>2 DEF TypeOK, calls
<1>6. NoPanic' /\ Distinct' /\ Recovering'
  BY <1>1, <1>2, <1>3 DEF NoPanic, Distinct, Recovering
<1>7. Len(lh) \in Nat /\ ToSet(lh) = {lh[i] : i \in 1..Len(lh)}
  BY <1>1, Listed DEF TypeOK
<1>8. Running'
  <2>1. dirty = {lh[i] : i \in (tail + 1)..Len(lh)}
    BY <1>3, <1>7
  <2> QED BY <1>2, <1>3, <1>4, <2>1 DEF Running
<1>9. Loops'
  BY <1>2, <1>3, <1>7 DEF Loops
<1>10. CleanOnDisk'
  BY <1>1, <1>2 DEF CleanOnDisk, Locked, calls
<1>11. Copied'
  BY <1>1, <1>2, <1>3 DEF Copied
<1> QED BY <1>4, <1>5, <1>6, <1>8, <1>9, <1>10, <1>11 DEF LogInv

LEMMA InstallTransInv ==
  ASSUME LogInv, InstallTrans
  PROVE  LogInv'
<1>1. /\ TypeOK /\ NoPanic /\ Distinct /\ Recovering /\ Running /\ Loops /\ CleanOnDisk /\ Copied
  BY DEF LogInv
<1> DEFINE t == tail + 1
           b == lh[t]
           v == cache[t]
<1>2. /\ phase = "install" /\ tail < Len(lh)
      /\ cache' = [cache EXCEPT ![b] = v] /\ disk' = [disk EXCEPT ![b] = v]
      /\ dirty' = dirty \ {b} /\ tail' = t
      /\ UNCHANGED <<hdr, lh, outstanding, committing, phase, calls, boot, crashes>>
  BY DEF InstallTrans
<1>3. /\ Len(lh) \in Nat /\ tail \in Nat /\ t \in 1..Len(lh) /\ NLOG \in Nat
      /\ \A i \in 1..Len(lh) : /\ lh[i] \in Home /\ lh[i] \in Blocks
                               /\ i \in 1..(NLOG - 1) /\ i \in Blocks /\ i \notin Home
  <2>1. Len(lh) \in Nat /\ tail \in Nat /\ \A i \in 1..Len(lh) : lh[i] \in Home
    BY <1>1, Listed DEF TypeOK
  <2>2. Len(lh) <= NLOG - 1 /\ NLOG \in Nat
    BY <1>1, LogAssumption DEF Distinct
  <2>3. \A i \in 1..Len(lh) : i \in 1..(NLOG - 1)
    BY <2>1, <2>2
  <2> QED BY <1>2, <2>1, <2>2, <2>3, Geometry
<1>4. b \in Home /\ b \in Blocks /\ t \in Blocks /\ v \in Vals
  BY <1>1, <1>3 DEF TypeOK
<1>5. Locked = {} /\ boot \in {"recover", "run"}
  BY <1>2, DiskWork
<1>6. \A i \in 1..Len(lh) : cache[i] = disk[i]
  BY <1>1, <1>3, <1>5 DEF CleanOnDisk, TypeOK
<1>7. \A i, j \in 1..Len(lh) : lh[i] = lh[j] => i = j
  BY <1>1 DEF Distinct, IsInjective, TypeOK
<1>8. lh[t] = b /\ cache[t] = v /\ t = tail + 1
  OBVIOUS
<1> HIDE DEF t, b, v
<1>9. /\ \A c \in Blocks \ {b} : cache'[c] = cache[c] /\ disk'[c] = disk[c]
      /\ cache'[b] = v /\ disk'[b] = v
  BY <1>1, <1>2, <1>4 DEF TypeOK
<1>10. Calls' /\ Reserve' /\ Active' = {} /\ Locked' = {}
  BY <1>2, DiskWorkCalls
<1>11. TypeOK'
  <2>1. disk' \in [Blocks -> Vals] /\ cache' \in [Blocks -> Vals]
    BY <1>1, <1>2, <1>4 DEF TypeOK
  <2>2. tail' \in Nat /\ dirty' \subseteq Home
    BY <1>1, <1>2, <1>3, <1>8 DEF TypeOK
  <2> QED BY <1>1, <1>2, <2>1, <2>2 DEF TypeOK, calls
<1>12. NoPanic' /\ Distinct' /\ Recovering'
  BY <1>1, <1>2 DEF NoPanic, Distinct, Recovering, calls
<1>13. Running'
  <2>1. ASSUME boot = "run" PROVE dirty' = {lh[i] : i \in (tail' + 1)..Len(lh)}
    <3>1. dirty = {lh[i] : i \in (tail + 1)..Len(lh)}
      BY <1>1, <1>2, <2>1 DEF Running
    <3>2. \A i \in (tail + 1)..Len(lh) : i \in 1..Len(lh) /\ (i = t \/ i \in (t + 1)..Len(lh))
      BY <1>3, <1>8
    <3>3. \A i \in (t + 1)..Len(lh) : i \in (tail + 1)..Len(lh) /\ i \in 1..Len(lh) /\ i # t
      BY <1>3, <1>8
    <3>4. \A i \in (t + 1)..Len(lh) : lh[i] # b
      BY <1>3, <1>7, <1>8, <3>3
    <3> QED BY <1>2, <1>8, <3>1, <3>2, <3>3, <3>4
  <2> QED BY <1>1, <1>2, <1>10, <2>1 DEF Running
<1>14. Loops'
  BY <1>1, <1>2, <1>3, <1>8 DEF Loops
<1>15. CleanOnDisk'
  BY <1>1, <1>2, <1>4, <1>5, <1>9, <1>10 DEF CleanOnDisk
<1>16. Copied'
  <2>1. \A i \in 1..Len(lh) : disk'[i] = disk[i] /\ i # b
    BY <1>3, <1>4, <1>9
  <2>2. ASSUME boot = "run", NEW i \in 1..Len(lh) PROVE disk'[i] = cache'[lh[i]]
    <3>1. disk[i] = cache[lh[i]]
      BY <1>1, <1>2, <2>2 DEF Copied
    <3>2. CASE lh[i] = b
      <4>1. i = t
        BY <1>3, <1>7, <1>8, <3>2
      <4> QED BY <1>6, <1>8, <1>9, <2>1, <3>2, <4>1
    <3>3. CASE lh[i] # b
      BY <1>3, <1>9, <2>1, <3>1, <3>3
    <3> QED BY <3>2, <3>3
  <2>3. ASSUME NEW i \in 1..t PROVE disk'[lh[i]] = disk'[i]
    <3>1. i \in 1..Len(lh)
      BY <1>3
    <3>2. CASE i = t
      BY <1>3, <1>6, <1>8, <1>9, <2>1, <3>2
    <3>3. CASE i # t
      <4>1. i \in 1..tail /\ lh[i] # b
        BY <1>3, <1>7, <1>8, <3>1, <3>3
      <4>2. disk[lh[i]] = disk[i]
        BY <1>1, <1>2, <4>1 DEF Copied
      <4> QED BY <1>3, <1>9, <2>1, <3>1, <4>1, <4>2
    <3> QED BY <3>2, <3>3
  <2> QED BY <1>2, <2>2, <2>3 DEF Copied
<1> QED BY <1>10, <1>11, <1>12, <1>13, <1>14, <1>15, <1>16 DEF LogInv

LEMMA EmptyList == <<>> \in Seq(Home) /\ Len(<<>>) = 0 /\ IsInjective(<<>>) /\ ToSet(<<>>) = {}
BY DEF IsInjective, ToSet

LEMMA ClearHeadInv ==
  ASSUME LogInv, ClearHead
  PROVE  LogInv'
<1>1. /\ TypeOK /\ NoPanic /\ Distinct /\ Recovering /\ Running /\ Loops /\ CleanOnDisk
  BY DEF LogInv
<1>2. /\ phase = "install" /\ tail = Len(lh) /\ lh' = <<>> /\ hdr' = <<>> /\ tail' = 0
      /\ phase' = IF boot = "recover" THEN "none" ELSE "done"
      /\ boot' = "run"
      /\ UNCHANGED <<disk, cache, dirty, outstanding, committing, calls, crashes>>
  BY DEF ClearHead
<1>3. boot \in {"recover", "run"}
  BY <1>2, DiskWork
<1>4. dirty = {} /\ (boot = "recover" => ~committing) /\ (boot = "run" => committing)
  <2>1. boot = "run" => dirty = {lh[i] : i \in (tail + 1)..Len(lh)} /\ committing
    BY <1>1, <1>2 DEF Running, TypeOK
  <2>2. Len(lh) \in Nat
    BY <1>1 DEF TypeOK
  <2>3. (tail + 1)..Len(lh) = {}
    BY <1>2, <2>2
  <2> QED BY <1>1, <1>3, <2>1, <2>3 DEF Recovering
<1>5. Calls' /\ Reserve' /\ Active' = {} /\ Locked' = {}
  BY <1>2, DiskWorkCalls
<1>6. TypeOK'
  BY <1>1, <1>2, EmptyList DEF TypeOK, calls
<1>7. NoPanic' /\ Distinct' /\ Recovering'
  BY <1>2, EmptyList, LogAssumption DEF NoPanic, Distinct, Recovering
<1>8. Running'
  BY <1>2, <1>3, <1>4, <1>5, EmptyList DEF Running
<1>9. Loops'
  BY <1>2, <1>3 DEF Loops
<1>10. CleanOnDisk'
  BY <1>1, <1>2 DEF CleanOnDisk, Locked, calls
<1>11. Copied'
  BY <1>2 DEF Copied
<1> QED BY <1>5, <1>6, <1>7, <1>8, <1>9, <1>10, <1>11 DEF LogInv

----------------------------------------------------------------------------
(* begin_op and end_op *)

LEMMA ActiveDef == Active \in SUBSET Procs /\ \A p \in Procs : p \in Active <=> InCall(pc[p])
BY DEF Active, InCall

LEMMA ActiveFinite == IsFiniteSet(Active) /\ Cardinality(Active) \in Nat
BY LogAssumption, ActiveDef, FS_Subset, FS_CardinalityType

\* A call runs only between transactions.
LEMMA CallRuns ==
  ASSUME LogInv, NEW p \in Procs, InCall(pc[p])
  PROVE  /\ boot = "run" /\ phase = "none" /\ ~committing /\ tail = 0 /\ p \in Active
         /\ hdr = <<>> /\ dirty = ToSet(lh)
<1>1. /\ TypeOK /\ NoPanic /\ Recovering /\ Running /\ Loops
  BY DEF LogInv
<1>2. p \in Active
  BY ActiveDef
<1>3. boot = "run"
  BY <1>1 DEF TypeOK, NoPanic, Recovering, InCall
<1>4. phase = "none"
  BY <1>1, <1>2, <1>3 DEF Running
<1> QED BY <1>1, <1>2, <1>3, <1>4 DEF Running, Loops

\* Steps of calls that touch neither the disk, the cache nor the transaction.
LEMMA CallFrame ==
  ASSUME LogInv, boot = "run",
         UNCHANGED <<disk, hdr, cache, dirty, lh, committing, phase, tail, held, boot, crashes>>,
         pc' \in [Procs -> PCs], wrote' \in [Procs -> SUBSET Home], outstanding' \in Nat,
         Calls', Reserve', phase # "none" => Active' = {}, Active' = {} => lh = <<>> \/ phase # "none"
  PROVE  LogInv'
<1>1. TypeOK'
  BY DEF LogInv, TypeOK
<1>2. NoPanic' /\ Distinct' /\ Recovering' /\ Loops'
  BY DEF LogInv, NoPanic, Distinct, Recovering, Loops
<1>3. Running'
  BY DEF LogInv, Running
<1>4. CleanOnDisk'
  BY DEF LogInv, CleanOnDisk, Locked
<1>5. Copied'
  BY DEF LogInv, Copied
<1> QED BY <1>1, <1>2, <1>3, <1>4, <1>5 DEF LogInv

LEMMA BeginOpInv ==
  ASSUME LogInv, NEW p \in Procs, BeginOp(p)
  PROVE  LogInv'
<1>1. TypeOK /\ Running /\ Calls
  BY DEF LogInv
<1>2. /\ boot = "run" /\ pc[p] \in {"idle", "begin"} /\ ~committing /\ ~NoSpace
      /\ outstanding' = outstanding + 1 /\ pc' = [pc EXCEPT ![p] = "in"]
      /\ UNCHANGED <<disk, hdr, cache, dirty, lh, committing, phase, tail, held, wrote, boot, crashes>>
  BY DEF BeginOp, Awake
<1>3. /\ pc \in [Procs -> PCs] /\ wrote \in [Procs -> SUBSET Home] /\ outstanding \in Nat
      /\ lh \in Seq(Home) /\ Len(lh) \in Nat
  BY <1>1 DEF TypeOK
<1>4. pc' \in [Procs -> PCs] /\ pc'[p] = "in" /\ \A q \in Procs \ {p} : pc'[q] = pc[q]
  BY <1>2, <1>3 DEF PCs
<1>5. Active' = Active \union {p} /\ p \notin Active
  BY <1>2, <1>4 DEF Active
<1>6. outstanding' = Cardinality(Active')
  BY <1>1, <1>2, <1>5, ActiveFinite, FS_AddElement DEF Calls
<1>7. ASSUME NEW q \in Procs PROVE CallOK(q)'
  BY <1>1, <1>2, <1>4 DEF Calls, CallOK, InCall
<1>8. Calls'
  BY <1>1, <1>2, <1>6, <1>7 DEF Calls
<1>9. Reserve'
  <2>1. Active' \in SUBSET Procs
    BY <1>5, ActiveDef
  <2>2. \A A \in SUBSET Procs : /\ Cardinality(Slots(A, wrote, lh)) \in Nat
                                /\ Cardinality(Slots(A, wrote, lh)) <= Cardinality(A) * MAXOPBLOCKS
    BY SlotsFinite
  <2> DEFINE n == Cardinality(Slots(Active', wrote, lh))
             m == (outstanding + 1) * MAXOPBLOCKS
  <2>3. n \in Nat /\ n <= m
    BY <1>2, <1>6, <2>1, <2>2
  <2>4. Len(lh) + m <= LOGSIZE
    <3>1. m \in Int /\ LOGSIZE \in Int
      BY <1>3, LogAssumption
    <3>2. ~(Len(lh) + m > LOGSIZE)
      BY <1>2 DEF NoSpace
    <3> HIDE DEF m
    <3> QED BY <1>3, <3>1, <3>2
  <2>5. m \in Int
    BY <1>3, LogAssumption
  <2>6. Len(lh) + n <= LOGSIZE
    <3> HIDE DEF n, m
    <3> QED BY <1>3, <2>3, <2>4, <2>5, LogAssumption
  <2>7. ASSUME NEW q \in Active'
        PROVE  (\E r2 \in Active' : r2 # q) \/ ToSet(lh) \subseteq wrote[q]
    <3>1. CASE Active = {}
      <4>1. lh = <<>>
        BY <1>1, <1>2, <3>1 DEF Running
      <4> QED BY <4>1, EmptyList
    <3>2. CASE Active # {}
      BY <1>5, <3>2
    <3> QED BY <3>1, <3>2
  <2>8. Reserved(Active', wrote, lh)
    BY <2>6, <2>7 DEF Reserved
  <2> QED BY <1>2, <2>8 DEF Reserve
<1>10. phase = "none"
  BY <1>1, <1>2 DEF Running
<1> QED BY <1>2, <1>3, <1>4, <1>5, <1>8, <1>9, <1>10, CallFrame

\* A process goes between sleep and wake: no call is touched.
LEMMA WaitersInv ==
  ASSUME LogInv, boot = "run",
         UNCHANGED <<disk, hdr, cache, dirty, lh, committing, phase, tail, held, boot, crashes,
                     wrote, outstanding>>,
         pc' \in [Procs -> PCs],
         \A q \in Procs : /\ InCall(pc'[q]) <=> InCall(pc[q])
                          /\ pc'[q] \in {"dirtied", "checked"} <=> pc[q] \in {"dirtied", "checked"}
  PROVE  LogInv'
<1>1. Active' = Active
  BY DEF Active, InCall
<1>2. ASSUME NEW q \in Procs PROVE CallOK(q)'
  BY DEF LogInv, Calls, CallOK
<1>3. Calls'
  BY <1>1, <1>2 DEF LogInv, Calls
<1>4. Reserve'
  BY <1>1 DEF LogInv, Reserve
<1>5. wrote \in [Procs -> SUBSET Home] /\ outstanding \in Nat
  BY DEF LogInv, TypeOK
<1>6. (phase # "none" => Active = {}) /\ (Active = {} => lh = <<>> \/ phase # "none")
  BY DEF LogInv, Running
<1> QED BY <1>1, <1>3, <1>4, <1>5, <1>6, CallFrame

LEMMA BeginSleepInv ==
  ASSUME LogInv, NEW p \in Procs, BeginSleep(p)
  PROVE  LogInv'
<1>1. /\ boot = "run" /\ pc[p] \in {"idle", "begin"} /\ pc' = [pc EXCEPT ![p] = "asleep"]
      /\ UNCHANGED <<disk, hdr, cache, dirty, lh, committing, phase, tail, held, boot, crashes,
                     wrote, outstanding>>
  BY DEF BeginSleep, Awake, memory
<1>2. pc \in [Procs -> PCs]
  BY DEF LogInv, TypeOK
<1>3. pc' \in [Procs -> PCs] /\ pc'[p] = "asleep" /\ \A q \in Procs \ {p} : pc'[q] = pc[q]
  BY <1>1, <1>2 DEF PCs
<1>4. \A q \in Procs :
         /\ InCall(pc'[q]) <=> InCall(pc[q])
         /\ pc'[q] \in {"dirtied", "checked"} <=> pc[q] \in {"dirtied", "checked"}
  BY <1>1, <1>3 DEF InCall
<1> QED BY <1>1, <1>3, <1>4, WaitersInv

LEMMA EndOpInv ==
  ASSUME LogInv, NEW p \in Procs, EndOp(p)
  PROVE  LogInv'
<1>0. ~committing
  BY CallRuns DEF EndOp, InCall
<1>1. TypeOK /\ Calls /\ Reserve
  BY DEF LogInv
<1>2. /\ boot = "run" /\ pc[p] = "in" /\ outstanding > 1 /\ outstanding' = outstanding - 1
      /\ pc' = Woken([pc EXCEPT ![p] = "idle"]) /\ wrote' = [wrote EXCEPT ![p] = {}]
      /\ UNCHANGED <<disk, hdr, cache, dirty, lh, committing, phase, tail, held, boot, crashes>>
  BY <1>0 DEF EndOp
<1>3. /\ pc \in [Procs -> PCs] /\ wrote \in [Procs -> SUBSET Home] /\ outstanding \in Nat
      /\ lh \in Seq(Home) /\ Len(lh) \in Nat /\ LOGSIZE \in Nat
      /\ MAXOPBLOCKS \in Nat \ {0} /\ OpBlocks \in Nat
  BY <1>1, LogAssumption DEF TypeOK
<1>4. /\ pc' \in [Procs -> PCs] /\ pc'[p] = "idle"
      /\ \A q \in Procs \ {p} : pc'[q] = pc[q] \/ (pc[q] = "asleep" /\ pc'[q] = "begin")
  BY <1>2, <1>3 DEF PCs, Woken
<1>5. /\ wrote' \in [Procs -> SUBSET Home] /\ wrote'[p] = {}
      /\ \A q \in Procs \ {p} : wrote'[q] = wrote[q]
  BY <1>2, <1>3
<1>6. Active' = Active \ {p} /\ p \in Active
  BY <1>2, <1>4 DEF Active
<1>7. outstanding' = Cardinality(Active') /\ Active' # {}
  <2>1. Cardinality(Active \ {p}) = Cardinality(Active) - 1
    BY <1>6, ActiveFinite, FS_RemoveElement
  <2>2. outstanding' = Cardinality(Active')
    BY <1>1, <1>2, <1>6, <2>1 DEF Calls
  <2>3. outstanding' # 0 /\ Cardinality({}) = 0
    BY <1>2, <1>3, FS_EmptySet
  <2> QED BY <2>2, <2>3
<1>8. ASSUME NEW q \in Procs PROVE CallOK(q)'
  <2>1. CASE q = p
    <3>1. held'[p] = 0 /\ Cardinality({}) = 0
      BY <1>1, <1>2, FS_EmptySet DEF Calls, CallOK
    <3>2. Cardinality(wrote'[p]) <= OpBlocks
      BY <1>3, <1>5, <3>1
    <3> QED BY <1>4, <1>5, <2>1, <3>1, <3>2 DEF CallOK
  <2>2. CASE q # p
    BY <1>1, <1>2, <1>4, <1>5, <2>2 DEF Calls, CallOK, InCall
  <2> QED BY <2>1, <2>2
<1>9. Calls'
  BY <1>1, <1>2, <1>7, <1>8 DEF Calls
<1>10. Reserve'
  <2> DEFINE S == Slots(Active, wrote, lh)
             S2 == Slots(Active', wrote', lh)
             x == <<p, MAXOPBLOCKS>>
  <2>1. Active \in SUBSET Procs /\ Active' \in SUBSET Active /\ Active' \in SUBSET Procs
    BY <1>6, ActiveDef
  <2>2. IsFiniteSet(S) /\ Cardinality(S) \in Nat /\ Cardinality(S2) \in Nat
    BY <2>1, SlotsFinite
  <2>3. S2 \subseteq S
    <3>1. \A q \in Active' : wrote[q] \intersect ToSet(lh) \subseteq wrote'[q] \intersect ToSet(lh)
      BY <1>5, <1>6, <2>1
    <3> QED BY <1>3, <1>5, <2>1, <3>1, SlotsShrink
  <2>4. x \notin S2
    BY <1>6 DEF Slots
  <2>5. x \in S
    <3>1. wrote[p] \in SUBSET Home /\ Cardinality(wrote[p]) <= OpBlocks
      BY <1>1, <1>3 DEF Calls, CallOK
    <3>2. Cardinality(wrote[p] \intersect ToSet(lh)) \in 0..(MAXOPBLOCKS - 1)
      BY <3>1, UsedSlots
    <3>3. x \in Active \X (1..MAXOPBLOCKS)
      BY <1>3, <1>6
    <3>4. MAXOPBLOCKS > Cardinality(wrote[p] \intersect ToSet(lh))
      BY <1>3, <3>2
    <3> QED BY <3>3, <3>4 DEF Slots
  <2> HIDE DEF S, S2, x
  <2>6. IsFiniteSet(S \ {x}) /\ Cardinality(S \ {x}) = Cardinality(S) - 1
    BY <2>2, <2>5, FS_RemoveElement
  <2>7. Cardinality(S2) <= Cardinality(S \ {x})
    <3>1. S2 \in SUBSET (S \ {x})
      BY <2>3, <2>4
    <3> QED BY <2>6, <3>1, FS_Subset
  <2>8. Len(lh) + Cardinality(S) <= LOGSIZE
    BY <1>1, <1>6 DEF Reserve, Reserved, S
  <2>9. Len(lh) + Cardinality(S2) < LOGSIZE
    BY <1>3, <2>2, <2>6, <2>7, <2>8
  <2>10. Len(lh) + Cardinality(S2) <= LOGSIZE
    BY <1>3, <2>2, <2>9
  <2>11. Reserved(Active', wrote', lh)
    BY <2>9, <2>10 DEF Reserved, S2
  <2> QED BY <1>2, <2>11 DEF Reserve
<1>11. phase = "none"
  BY <1>2, CallRuns DEF InCall
<1>12. outstanding' \in Nat
  BY <1>2, <1>3
<1> QED BY <1>2, <1>4, <1>5, <1>7, <1>9, <1>10, <1>11, <1>12, CallFrame

LEMMA EndOpCommitInv ==
  ASSUME LogInv, NEW p \in Procs, EndOpCommit(p)
  PROVE  LogInv'
<1>0. ~committing
  BY CallRuns DEF EndOpCommit, InCall
<1>1. TypeOK /\ NoPanic /\ Distinct /\ Running /\ Calls /\ CleanOnDisk
  BY DEF LogInv
<1>2. /\ boot = "run" /\ pc[p] = "in" /\ outstanding = 1 /\ outstanding' = 0 /\ committing' = TRUE
      /\ phase' = IF lh # <<>> THEN "write" ELSE "done"
      /\ pc' = [pc EXCEPT ![p] = "commit"] /\ wrote' = [wrote EXCEPT ![p] = {}]
      /\ UNCHANGED <<disk, hdr, cache, dirty, lh, tail, held, boot, crashes>>
  BY <1>0 DEF EndOpCommit
<1>3. /\ phase = "none" /\ tail = 0 /\ hdr = <<>> /\ dirty = ToSet(lh) /\ p \in Active
  BY <1>2, CallRuns DEF InCall
<1>4. /\ pc \in [Procs -> PCs] /\ wrote \in [Procs -> SUBSET Home] /\ lh \in Seq(Home)
      /\ OpBlocks \in Nat
  BY <1>1, LogAssumption DEF TypeOK
<1>5. /\ pc' \in [Procs -> PCs] /\ pc'[p] = "commit" /\ \A q \in Procs \ {p} : pc'[q] = pc[q]
      /\ wrote' \in [Procs -> SUBSET Home] /\ wrote'[p] = {}
      /\ \A q \in Procs \ {p} : wrote'[q] = wrote[q]
  BY <1>2, <1>4 DEF PCs
<1>6. Active = {p}
  <2>1. Cardinality(Active) = 1
    BY <1>1, <1>2 DEF Calls
  <2>2. PICK x : Active = {x}
    BY <2>1, ActiveFinite, FS_Singleton
  <2> QED BY <1>3, <2>2
<1>7. Active' = {}
  BY <1>5, <1>6 DEF Active
<1>8. ASSUME NEW q \in Procs PROVE CallOK(q)'
  <2>1. CASE q = p
    <3>1. held'[p] = 0 /\ Cardinality({}) = 0
      BY <1>1, <1>2, FS_EmptySet DEF Calls, CallOK
    <3>2. Cardinality(wrote'[p]) <= OpBlocks
      BY <1>4, <1>5, <3>1
    <3> QED BY <1>5, <2>1, <3>1, <3>2 DEF CallOK
  <2>2. CASE q # p
    BY <1>1, <1>2, <1>5, <2>2 DEF Calls, CallOK
  <2> QED BY <2>1, <2>2
<1>9. Calls'
  <2>1. Cardinality(Active') = 0
    BY <1>7, FS_EmptySet
  <2> QED BY <1>1, <1>2, <1>8, <2>1 DEF Calls
<1>10. Reserve'
  BY <1>7 DEF Reserve, Reserved
<1>11. TypeOK'
  BY <1>1, <1>2, <1>5 DEF TypeOK
<1>12. NoPanic' /\ Distinct' /\ Recovering'
  BY <1>1, <1>2 DEF NoPanic, Distinct, Recovering
<1>13. Running'
  BY <1>2, <1>3, <1>7, EmptyList DEF Running
<1>14. Loops'
  BY <1>2, <1>3, <1>4 DEF Loops
<1>15. CleanOnDisk'
  BY <1>1, <1>2 DEF CleanOnDisk, Locked
<1>16. Copied'
  BY <1>2, <1>3 DEF Copied
<1> QED BY <1>9, <1>10, <1>11, <1>12, <1>13, <1>14, <1>15, <1>16 DEF LogInv

LEMMA CommitDoneInv ==
  ASSUME LogInv, NEW p \in Procs, CommitDone(p)
  PROVE  LogInv'
<1>1. TypeOK /\ NoPanic /\ Distinct /\ Recovering /\ Running /\ Loops /\ Calls /\ CleanOnDisk
  BY DEF LogInv
<1>2. /\ pc[p] = "commit" /\ phase = "done" /\ committing' = FALSE /\ phase' = "none"
      /\ pc' = Woken([pc EXCEPT ![p] = "idle"])
      /\ UNCHANGED <<disk, hdr, cache, dirty, lh, outstanding, tail, held, wrote, boot, crashes>>
  BY DEF CommitDone
<1>3. boot = "run" /\ hdr = <<>> /\ lh = <<>> /\ dirty = {} /\ tail = 0 /\ Active = {}
  BY <1>1, <1>2 DEF TypeOK, NoPanic, Recovering, Running, Loops
<1>4. pc \in [Procs -> PCs]
  BY <1>1 DEF TypeOK
<1>5. /\ pc' \in [Procs -> PCs] /\ pc'[p] = "idle"
      /\ \A q \in Procs \ {p} : pc'[q] = pc[q] \/ (pc[q] = "asleep" /\ pc'[q] = "begin")
  BY <1>2, <1>4 DEF PCs, Woken
<1>6. Active' = Active
  BY <1>2, <1>5 DEF Active
<1>7. ASSUME NEW q \in Procs PROVE CallOK(q)'
  BY <1>1, <1>2, <1>5 DEF Calls, CallOK, InCall
<1>8. Calls' /\ Reserve'
  BY <1>1, <1>2, <1>3, <1>6, <1>7 DEF Calls, Reserve, Reserved
<1>9. TypeOK'
  BY <1>1, <1>2, <1>5 DEF TypeOK
<1>10. NoPanic' /\ Distinct' /\ Recovering' /\ Loops' /\ Copied'
  BY <1>1, <1>2, <1>3 DEF NoPanic, Distinct, Recovering, Loops, Copied
<1>11. Running'
  BY <1>2, <1>3, <1>6, EmptyList DEF Running
<1>12. CleanOnDisk'
  BY <1>1, <1>2 DEF CleanOnDisk, Locked
<1> QED BY <1>8, <1>9, <1>10, <1>11, <1>12 DEF LogInv

----------------------------------------------------------------------------
(* log_write and its caller *)

LEMMA ModifyInv ==
  ASSUME LogInv, NEW p \in Procs, Modify(p)
  PROVE  LogInv'
<1>1. TypeOK /\ NoPanic /\ Distinct /\ Running /\ Loops /\ Calls /\ Reserve /\ CleanOnDisk
  BY DEF LogInv
<1>2. PICK b \in Home \ Locked, v \in Vals :
        /\ Cardinality(wrote[p] \union {b}) <= OpBlocks
        /\ cache' = [cache EXCEPT ![b] = v] /\ held' = [held EXCEPT ![p] = b]
        /\ wrote' = [wrote EXCEPT ![p] = @ \union {b}]
  BY DEF Modify
<1>3. /\ pc[p] = "in" /\ pc' = [pc EXCEPT ![p] = "dirtied"]
      /\ UNCHANGED <<disk, hdr, dirty, lh, outstanding, committing, phase, tail, boot, crashes>>
  BY DEF Modify
<1>4. boot = "run" /\ phase = "none" /\ p \in Active
  BY <1>3, CallRuns DEF InCall
<1>5. /\ pc \in [Procs -> PCs] /\ wrote \in [Procs -> SUBSET Home]
      /\ held \in [Procs -> Home \union {0}] /\ cache \in [Blocks -> Vals]
  BY <1>1 DEF TypeOK
<1>6. /\ pc'[p] = "dirtied" /\ held'[p] = b /\ wrote'[p] = wrote[p] \union {b}
      /\ \A q \in Procs \ {p} : pc'[q] = pc[q] /\ held'[q] = held[q] /\ wrote'[q] = wrote[q]
      /\ pc' \in [Procs -> PCs] /\ wrote' \in [Procs -> SUBSET Home]
      /\ held' \in [Procs -> Home \union {0}] /\ cache' \in [Blocks -> Vals]
      /\ \A c \in Blocks \ {b} : cache'[c] = cache[c]
  BY <1>2, <1>3, <1>5 DEF PCs
<1>7. b # 0 /\ held[p] = 0 /\ 0 \notin wrote[p]
  BY <1>1, <1>2, <1>3, <1>5, Geometry DEF Calls, CallOK
<1>8. Active' = Active
  BY <1>3, <1>6 DEF Active
<1>9. ASSUME NEW q \in Procs PROVE CallOK(q)'
  <2>1. CASE q = p
    <3>1. wrote'[p] \ {held'[p]} \subseteq ToSet(lh')
      BY <1>1, <1>3, <1>6, <1>7 DEF Calls, CallOK
    <3>2. Cardinality(wrote'[p]) <= OpBlocks
      BY <1>2, <1>6
    <3> QED BY <1>6, <1>7, <2>1, <3>1, <3>2 DEF CallOK, InCall
  <2>2. CASE q # p
    BY <1>1, <1>3, <1>6, <2>2 DEF Calls, CallOK
  <2> QED BY <2>1, <2>2
<1>10. Calls'
  <2>1. \A q \in Procs : held[q] # 0 => held[q] \in Locked
    BY DEF Locked
  <2>2. \A q, r \in Procs : held'[q] = held'[r] /\ held'[q] # 0 => q = r
    BY <1>1, <1>2, <1>6, <2>1 DEF Calls
  <2> QED BY <1>1, <1>3, <1>8, <1>9, <2>2 DEF Calls
<1>11. Reserve'
  <2> DEFINE S == Slots(Active, wrote, lh)
             S2 == Slots(Active, wrote', lh)
  <2>1. S2 \in SUBSET S
    <3>1. \A q \in Active : wrote[q] \intersect ToSet(lh) \subseteq wrote'[q] \intersect ToSet(lh)
      BY <1>6, ActiveDef
    <3>2. Active \in SUBSET Procs /\ Active \in SUBSET Active
      BY ActiveDef
    <3> QED BY <1>5, <1>6, <3>1, <3>2, SlotsShrink
  <2>2. IsFiniteSet(S) /\ Cardinality(S) \in Nat /\ Cardinality(S2) \in Nat
    BY ActiveDef, SlotsFinite
  <2> HIDE DEF S, S2
  <2>3. Cardinality(S2) <= Cardinality(S)
    BY <2>1, <2>2, FS_Subset
  <2>4. Len(lh) \in Nat /\ LOGSIZE \in Nat
    BY <1>1, LogAssumption DEF TypeOK
  <2>5. ASSUME NEW q \in Active
        PROVE  /\ Len(lh) + Cardinality(S2) <= LOGSIZE
               /\ \/ \E r \in Active : r # q
                  \/ Len(lh) + Cardinality(S2) < LOGSIZE
                  \/ ToSet(lh) \subseteq wrote'[q]
    <3>1. /\ Len(lh) + Cardinality(S) <= LOGSIZE
          /\ \/ \E r \in Active : r # q
             \/ Len(lh) + Cardinality(S) < LOGSIZE
             \/ ToSet(lh) \subseteq wrote[q]
      BY <1>1 DEF Reserve, Reserved, S
    <3>2. wrote[q] \subseteq wrote'[q]
      BY <1>6, ActiveDef
    <3>3. Len(lh) + Cardinality(S2) <= LOGSIZE
      BY <2>2, <2>3, <2>4, <3>1
    <3>4. Len(lh) + Cardinality(S) < LOGSIZE => Len(lh) + Cardinality(S2) < LOGSIZE
      BY <2>2, <2>3, <2>4
    <3> QED BY <3>1, <3>2, <3>3, <3>4
  <2>6. Reserved(Active, wrote', lh)
    BY <2>5 DEF Reserved, S2
  <2> QED BY <1>3, <1>8, <2>6 DEF Reserve
<1>12. TypeOK'
  BY <1>1, <1>3, <1>6 DEF TypeOK
<1>13. NoPanic' /\ Distinct' /\ Recovering' /\ Loops' /\ Copied'
  BY <1>1, <1>3, <1>4 DEF NoPanic, Distinct, Recovering, Loops, Copied
<1>14. Running'
  BY <1>1, <1>3, <1>4, <1>8 DEF Running
<1>15. CleanOnDisk'
  <2>1. Locked \union {b} \subseteq Locked'
    BY <1>6, <1>7 DEF Locked
  <2> QED BY <1>1, <1>3, <1>6, <2>1 DEF CleanOnDisk
<1> QED BY <1>10, <1>11, <1>12, <1>13, <1>14, <1>15 DEF LogInv

\* The reservations leave room for what log_write is about to append.
LEMMA CallHasRoom ==
  ASSUME LogInv, NEW p \in Procs, InCall(pc[p])
  PROVE  /\ Len(lh) \in Nat /\ Len(lh) + 2 <= LOGSIZE /\ LOGSIZE \in Nat /\ NLOG \in Nat
         /\ LOGSIZE <= NLOG /\ ~TooBig /\ ~(outstanding < 1)
<1>1. /\ wrote \in [Procs -> SUBSET Home] /\ lh \in Seq(Home) /\ IsInjective(lh) /\ Calls
      /\ Reserved(Active, wrote, lh) /\ Active \in SUBSET Procs /\ p \in Active
  BY ActiveDef DEF LogInv, TypeOK, Distinct, Reserve
<1>2. /\ \A q \in Active : Cardinality(wrote[q]) <= OpBlocks
      /\ Active # {}
  BY <1>1 DEF Calls, CallOK
<1>3. Len(lh) + 2 <= LOGSIZE
  BY <1>1, <1>2, RoomLeft
<1>4. Len(lh) \in Nat /\ LOGSIZE \in Nat /\ NLOG \in Nat /\ LOGSIZE <= NLOG
  BY <1>1, LogAssumption, RoomAssumption
<1>5. outstanding # 0 /\ outstanding \in Nat
  <2>1. Cardinality(Active) # 0
    BY <1>2, ActiveFinite, FS_EmptySet
  <2> QED BY <1>1, <2>1, ActiveFinite DEF Calls
<1> QED BY <1>3, <1>4, <1>5 DEF TooBig

LEMMA LogCheckInv ==
  ASSUME LogInv, NEW p \in Procs, LogCheck(p)
  PROVE  LogInv'
<1>1. boot = "run" /\ pc[p] = "dirtied"
  BY DEF LogCheck
<1>2. ~TooBig /\ ~(outstanding < 1)
  BY <1>1, CallHasRoom DEF InCall
<1>3. /\ pc' = [pc EXCEPT ![p] = "checked"]
      /\ UNCHANGED <<disk, hdr, cache, dirty, lh, committing, phase, tail, held, boot, crashes,
                     wrote, outstanding>>
  BY <1>2 DEF LogCheck, memory
<1>4. pc \in [Procs -> PCs]
  BY DEF LogInv, TypeOK
<1>5. pc' \in [Procs -> PCs] /\ pc'[p] = "checked" /\ \A q \in Procs \ {p} : pc'[q] = pc[q]
  BY <1>3, <1>4 DEF PCs
<1>6. \A q \in Procs :
         /\ InCall(pc'[q]) <=> InCall(pc[q])
         /\ pc'[q] \in {"dirtied", "checked"} <=> pc[q] \in {"dirtied", "checked"}
  BY <1>1, <1>5 DEF InCall
<1> QED BY <1>1, <1>3, <1>5, <1>6, WaitersInv

\* An append uses one of the entries reserved for the call, so the sum stays.
LEMMA AppendReserved ==
  ASSUME NEW A \in SUBSET Procs, NEW w \in [Procs -> SUBSET Home], NEW l \in Seq(Home),
         \A q \in A : Cardinality(w[q]) <= OpBlocks,
         Reserved(A, w, l), NEW p \in A, NEW b \in w[p], b \notin ToSet(l)
  PROVE  Reserved(A, w, Append(l, b))
<1> DEFINE l2 == Append(l, b)
           S == Slots(A, w, l)
           S2 == Slots(A, w, l2)
           u == w[p] \intersect ToSet(l)
           x == <<p, Cardinality(u) + 1>>
<1>1. Len(l) \in Nat /\ Len(l2) = Len(l) + 1 /\ LOGSIZE \in Nat /\ MAXOPBLOCKS \in Nat
  BY LogAssumption
<1>2. ToSet(l2) = ToSet(l) \union {b}
  BY QueueAppend
<1>3. IsFiniteSet(S) /\ Cardinality(S) \in Nat /\ IsFiniteSet(S2) /\ Cardinality(S2) \in Nat
  BY SlotsFinite
<1>4. S2 \subseteq S
  <2>1. \A q \in A : w[q] \intersect ToSet(l) \subseteq w[q] \intersect ToSet(l2)
    BY <1>2
  <2> HIDE DEF l2
  <2> QED BY <2>1, SlotsShrink
<1>5. IsFiniteSet(u) /\ Cardinality(u) \in 0..(MAXOPBLOCKS - 1)
  <2>1. w[p] \in SUBSET Home /\ Cardinality(w[p]) <= OpBlocks
    OBVIOUS
  <2> QED BY <2>1, UsedSlots
<1>6. Cardinality(w[p] \intersect ToSet(l2)) = Cardinality(u) + 1
  <2>1. w[p] \intersect ToSet(l2) = u \union {b} /\ b \notin u
    BY <1>2
  <2> QED BY <1>5, <2>1, FS_AddElement
<1>7. x \in S
  <2>1. x \in A \X (1..MAXOPBLOCKS)
    BY <1>1, <1>5
  <2>2. Cardinality(u) + 1 > Cardinality(u)
    BY <1>5
  <2> QED BY <2>1, <2>2 DEF Slots
<1>8. x \notin S2
  <2>1. ~(Cardinality(u) + 1 > Cardinality(w[p] \intersect ToSet(l2)))
    BY <1>5, <1>6
  <2> QED BY <2>1 DEF Slots
<1>9. ToSet(l) \subseteq w[p] => ToSet(l2) \subseteq w[p]
  BY <1>2
<1> HIDE DEF l2, S, S2, u, x
<1>10. Cardinality(S \ {x}) = Cardinality(S) - 1 /\ IsFiniteSet(S \ {x})
  BY <1>3, <1>7, FS_RemoveElement
<1>11. Cardinality(S2) <= Cardinality(S \ {x})
  <2>1. S2 \in SUBSET (S \ {x})
    BY <1>4, <1>8
  <2> QED BY <1>10, <2>1, FS_Subset
<1>12. /\ Len(l) + Cardinality(S) <= LOGSIZE => Len(l2) + Cardinality(S2) <= LOGSIZE
       /\ Len(l) + Cardinality(S) < LOGSIZE => Len(l2) + Cardinality(S2) < LOGSIZE
  BY <1>1, <1>3, <1>10, <1>11
<1>13. ASSUME NEW r \in A
       PROVE  /\ Len(l) + Cardinality(S) <= LOGSIZE
              /\ \/ \E q \in A : q # r
                 \/ Len(l) + Cardinality(S) < LOGSIZE
                 \/ ToSet(l) \subseteq w[r]
  BY Zenon DEF Reserved, S
<1>14. ASSUME NEW r \in A
       PROVE  /\ Len(l2) + Cardinality(S2) <= LOGSIZE
              /\ \/ \E q \in A : q # r
                 \/ Len(l2) + Cardinality(S2) < LOGSIZE
                 \/ ToSet(l2) \subseteq w[r]
  <2>1. CASE r = p
    BY <1>9, <1>12, <1>13, <2>1
  <2>2. CASE r # p
    BY <1>12, <1>13, <2>2
  <2> QED BY <2>1, <2>2
<1> QED BY <1>14, Zenon DEF Reserved, S2, l2

LEMMA LogWriteInv ==
  ASSUME LogInv, NEW p \in Procs, LogWrite(p)
  PROVE  LogInv'
<1>1. TypeOK /\ NoPanic /\ Distinct /\ Running /\ Loops /\ Calls /\ Reserve /\ CleanOnDisk
  BY DEF LogInv
<1> DEFINE b == held[p]
<1>2. /\ pc[p] = "checked" /\ pc' = [pc EXCEPT ![p] = "in"] /\ held' = [held EXCEPT ![p] = 0]
      /\ lh' = IF Contains(lh, b) THEN lh ELSE Append(lh, b)
      /\ dirty' = dirty \union {b}
      /\ UNCHANGED <<disk, hdr, cache, outstanding, committing, phase, tail, wrote, boot, crashes>>
  BY DEF LogWrite
<1>3. /\ boot = "run" /\ phase = "none" /\ ~committing /\ p \in Active /\ hdr = <<>>
      /\ dirty = ToSet(lh) /\ tail = 0
  BY <1>2, CallRuns DEF InCall
<1>4. /\ pc \in [Procs -> PCs] /\ held \in [Procs -> Home \union {0}] /\ lh \in Seq(Home)
      /\ wrote \in [Procs -> SUBSET Home] /\ Active \in SUBSET Procs
  BY <1>1, ActiveDef DEF TypeOK
<1>5. /\ pc'[p] = "in" /\ held'[p] = 0 /\ pc' \in [Procs -> PCs]
      /\ held' \in [Procs -> Home \union {0}]
      /\ \A q \in Procs \ {p} : pc'[q] = pc[q] /\ held'[q] = held[q]
  BY <1>2, <1>4 DEF PCs
<1>6. b # 0 /\ b \in Home /\ b \in wrote[p]
  BY <1>1, <1>2, <1>4 DEF Calls, CallOK
<1> HIDE DEF b
<1>7. Contains(lh, b) <=> b \in ToSet(lh)
  BY <1>4 DEF Contains, ToSet
<1>8. /\ lh' \in Seq(Home) /\ IsInjective(lh') /\ ToSet(lh') = ToSet(lh) \union {b}
      /\ Len(lh') <= NLOG - 1
  <2>1. CASE b \in ToSet(lh)
    BY <1>1, <1>2, <1>4, <1>7, <2>1 DEF Distinct
  <2>2. CASE b \notin ToSet(lh)
    <3>1. lh' = Append(lh, b)
      BY <1>2, <1>7, <2>2
    <3>2. lh' \in Seq(Home) /\ IsInjective(lh') /\ ToSet(lh') = ToSet(lh) \union {b}
      BY <1>1, <1>4, <1>6, <2>2, <3>1, QueueAppend DEF Distinct
    <3>3. /\ Len(lh) \in Nat /\ Len(lh) + 2 <= LOGSIZE /\ LOGSIZE \in Nat /\ NLOG \in Nat
          /\ LOGSIZE <= NLOG
      BY <1>2, CallHasRoom DEF InCall
    <3>4. Len(lh') = Len(lh) + 1
      BY <1>4, <3>1
    <3> QED BY <3>2, <3>3, <3>4
  <2> QED BY <2>1, <2>2
<1>9. Active' = Active
  BY <1>2, <1>5 DEF Active
<1>10. ASSUME NEW q \in Procs PROVE CallOK(q)'
  <2>1. CallOK(q)
    BY <1>1 DEF Calls
  <2>2. CASE q = p
    <3>1. wrote[p] \ {0} \subseteq ToSet(lh')
      BY <1>8, <2>1, <2>2 DEF CallOK, b
    <3>2. wrote'[p] \ {held'[p]} \subseteq ToSet(lh')
      BY <1>2, <1>5, <3>1
    <3> QED BY <1>2, <1>5, <2>1, <2>2, <3>2 DEF CallOK, InCall
  <2>3. CASE q # p
    BY <1>2, <1>5, <1>8, <2>1, <2>3 DEF CallOK
  <2> QED BY <2>2, <2>3
<1>11. Calls'
  <2>1. \A q, r \in Procs : held'[q] = held'[r] /\ held'[q] # 0 => q = r
    BY <1>1, <1>5 DEF Calls
  <2>2. outstanding' = Cardinality(Active')
    BY <1>1, <1>2, <1>9 DEF Calls
  <2> QED BY <1>10, <2>1, <2>2 DEF Calls
<1>12. Reserve'
  <2>1. Reserved(Active, wrote, lh) /\ \A q \in Active : Cardinality(wrote[q]) <= OpBlocks
    BY <1>1, <1>4 DEF Reserve, Calls, CallOK
  <2>2. CASE b \in ToSet(lh)
    BY <1>2, <1>7, <1>9, <2>1, <2>2 DEF Reserve
  <2>3. CASE b \notin ToSet(lh)
    <3>1. lh' = Append(lh, b)
      BY <1>2, <1>7, <2>3
    <3>2. Reserved(Active, wrote, Append(lh, b))
      BY <1>3, <1>4, <1>6, <2>1, <2>3, AppendReserved
    <3> QED BY <1>2, <1>9, <3>1, <3>2 DEF Reserve
  <2> QED BY <2>2, <2>3
<1>13. TypeOK'
  <2>1. dirty' \subseteq Home
    BY <1>1, <1>2, <1>6 DEF TypeOK
  <2> QED BY <1>1, <1>2, <1>5, <1>8, <2>1 DEF TypeOK
<1>14. NoPanic' /\ Distinct' /\ Recovering' /\ Loops' /\ Copied'
  BY <1>1, <1>2, <1>3, <1>8 DEF NoPanic, Distinct, Recovering, Loops, Copied
<1>15. Running'
  BY <1>2, <1>3, <1>8, <1>9 DEF Running
<1>16. CleanOnDisk'
  <2>1. Locked \subseteq Locked' \union {b}
    BY <1>5 DEF Locked, b
  <2>2. dirty' \union Locked' = dirty \union {b} \union Locked'
    BY <1>2
  <2> QED BY <1>1, <1>2, <2>1, <2>2 DEF CleanOnDisk
<1> QED BY <1>11, <1>12, <1>13, <1>14, <1>15, <1>16 DEF LogInv

----------------------------------------------------------------------------
(* Recycled buffers, crashes, and the theorem *)

\* What bget recycles is on the disk, so that bread brings back the same.
LEMMA EvictSame ==
  ASSUME LogInv, NEW b \in Blocks, Evict(b)
  PROVE  UNCHANGED vars
<1>1. cache \in [Blocks -> Vals] /\ cache[b] = disk[b]
  BY DEF LogInv, TypeOK, CleanOnDisk, Evict
<1>2. cache' = [cache EXCEPT ![b] = cache[b]]
  BY <1>1 DEF Evict
<1>3. cache' = cache
  BY <1>1, <1>2
<1> QED BY <1>3 DEF Evict, calls, vars

LEMMA StutterInv ==
  ASSUME LogInv, UNCHANGED vars
  PROVE  LogInv'
BY DEF LogInv, TypeOK, NoPanic, Distinct, Recovering, Running, Loops, Calls, CallOK, Reserve,
       CleanOnDisk, Copied, Active, Locked, vars

\* No process is in the file system yet.
LEMMA BootCalls ==
  ASSUME pc = [p \in Procs |-> "idle"], held = [p \in Procs |-> 0],
         wrote = [p \in Procs |-> {}], outstanding = 0
  PROVE  /\ Calls /\ Reserve /\ Active = {} /\ Locked = {}
         /\ \A p \in Procs : pc[p] = "idle"
         /\ pc \in [Procs -> PCs] /\ held \in [Procs -> Home \union {0}]
         /\ wrote \in [Procs -> SUBSET Home]
<1>1. Active = {} /\ Locked = {}
  BY DEF Active, Locked
<1>2. Cardinality({}) = 0 /\ OpBlocks \in Nat
  BY FS_EmptySet, LogAssumption
<1>3. ASSUME NEW p \in Procs PROVE CallOK(p)
  BY <1>2 DEF CallOK
<1>4. Calls
  BY <1>1, <1>2, <1>3 DEF Calls
<1>5. Reserve
  BY <1>1 DEF Reserve, Reserved
<1> QED BY <1>1, <1>4, <1>5 DEF PCs

\* A boot forgets everything but the disk.
Booted ==
  /\ disk \in [Blocks -> Vals] /\ hdr \in Seq(Home) /\ IsInjective(hdr) /\ Len(hdr) <= NLOG - 1
  /\ cache = disk /\ dirty = {} /\ lh = <<>> /\ outstanding = 0 /\ committing = FALSE
  /\ phase = "read" /\ tail = 0 /\ boot = "recover" /\ crashes \in 0..MaxCrash
  /\ pc = [p \in Procs |-> "idle"] /\ held = [p \in Procs |-> 0]
  /\ wrote = [p \in Procs |-> {}]

LEMMA BootInv == Booted => LogInv
<1> SUFFICES ASSUME Booted PROVE LogInv
  OBVIOUS
<1>1. /\ Calls /\ Reserve /\ Active = {} /\ Locked = {}
      /\ \A p \in Procs : pc[p] = "idle"
      /\ pc \in [Procs -> PCs] /\ held \in [Procs -> Home \union {0}]
      /\ wrote \in [Procs -> SUBSET Home]
  BY BootCalls DEF Booted
<1>2. TypeOK
  BY <1>1, EmptyList DEF TypeOK, Booted
<1>3. Distinct
  BY EmptyList, LogAssumption DEF Distinct, Booted
<1>4. NoPanic /\ Recovering /\ Running /\ Loops /\ Copied
  BY <1>1 DEF NoPanic, Recovering, Running, Loops, Copied, Booted
<1>5. CleanOnDisk
  BY DEF CleanOnDisk, Booted
<1> QED BY <1>1, <1>2, <1>3, <1>4, <1>5 DEF LogInv

LEMMA InitInv == Init => LogInv
<1> SUFFICES ASSUME Init PROVE LogInv
  OBVIOUS
<1>1. PICK v \in Vals : disk = [b \in Blocks |-> v]
  BY DEF Init
<1>2. disk \in [Blocks -> Vals]
  BY <1>1
<1>3. hdr = <<>> /\ <<>> \in Seq(Home) /\ Len(hdr) <= NLOG - 1 /\ IsInjective(hdr)
  BY EmptyList, LogAssumption DEF Init
<1>4. crashes \in 0..MaxCrash
  BY LogAssumption DEF Init
<1> QED BY <1>2, <1>3, <1>4, BootInv DEF Init, Booted

LEMMA CrashInv ==
  ASSUME LogInv, CrashReboot
  PROVE  LogInv'
<1>1. TypeOK /\ Distinct
  BY DEF LogInv
<1>2. crashes' \in 0..MaxCrash
  BY <1>1, LogAssumption DEF TypeOK, CrashReboot
<1>3. Booted'
  BY <1>1, <1>2 DEF TypeOK, Distinct, CrashReboot, Booted
<1>4. Booted' => LogInv'
  BY BootInv, PTL
<1> QED BY <1>3, <1>4

\* Every step keeps the invariant.
LEMMA StepInv ==
  ASSUME LogInv, [Next]_vars
  PROVE  LogInv'
<1>1. CASE ReadHead \/ WriteLog \/ WriteHead \/ InstallTrans \/ ClearHead
  BY <1>1, ReadHeadInv, WriteLogInv, WriteHeadInv, InstallTransInv, ClearHeadInv
<1>2. ASSUME NEW p \in Procs, BeginOp(p) \/ BeginSleep(p) \/ EndOp(p) \/ EndOpCommit(p)
      PROVE  LogInv'
  BY <1>2, BeginOpInv, BeginSleepInv, EndOpInv, EndOpCommitInv
<1>3. ASSUME NEW p \in Procs, CommitDone(p) \/ Modify(p) \/ LogCheck(p) \/ LogWrite(p)
      PROVE  LogInv'
  BY <1>3, CommitDoneInv, ModifyInv, LogCheckInv, LogWriteInv
<1>4. ASSUME NEW b \in Blocks, Evict(b) PROVE LogInv'
  BY <1>4, EvictSame, StutterInv
<1>5. CASE CrashReboot
  BY <1>5, CrashInv
<1>6. CASE UNCHANGED vars
  BY <1>6, StutterInv
<1> QED BY <1>1, <1>2, <1>3, <1>4, <1>5, <1>6 DEF Next

\* The inductive invariant holds in every reachable state.
THEOREM LogInvariant == Spec => []LogInv
BY InitInv, StepInv, PTL DEF Spec

\* For any number of processes, blocks and crashes: log_write never panics, because
\* begin_op has reserved enough, and bget never recycles the only copy of an update.
THEOREM LogSafety == Spec => []LogSound
<1>1. LogInv => LogSound
  BY DEF LogInv, LogSound
<1> QED BY <1>1, LogInvariant, PTL

----------------------------------------------------------------------------
(* log.c implements LogAbs *)

\* What the running system sees, as the refinement mapping has it.
Volatile == IF boot = "recover" THEN Recovered ELSE [b \in Home |-> cache[b]]

\* Recovery copies log block i to the home of the i-th block of the header.
Recovery ==
  /\ Recovered \in [Home -> Vals]
  /\ \A i \in 1..Len(hdr) : hdr[i] \in Home /\ Recovered[hdr[i]] = disk[i]
  /\ \A b \in Home \ ToSet(hdr) : Recovered[b] = disk[b]

LEMMA RecoveryWorks == LogInv => Recovery
<1> SUFFICES ASSUME LogInv PROVE Recovery
  OBVIOUS
<1>1. /\ disk \in [Blocks -> Vals] /\ hdr \in Seq(Home) /\ IsInjective(hdr)
      /\ Len(hdr) <= NLOG - 1 /\ NLOG \in Nat
  BY LogAssumption DEF LogInv, TypeOK, Distinct
<1>2. Len(hdr) \in Nat /\ \A i \in 1..Len(hdr) : hdr[i] \in Home /\ hdr[i] \in ToSet(hdr)
  BY <1>1, Listed
<1>3. \A i, j \in 1..Len(hdr) : hdr[i] = hdr[j] => i = j
  BY <1>1 DEF IsInjective
<1>4. \A i \in 1..Len(hdr) : i \in Blocks
  <2>1. \A i \in 1..Len(hdr) : i \in 1..(NLOG - 1)
    BY <1>1, <1>2
  <2> QED BY <2>1, Geometry
<1>5. ASSUME NEW i \in 1..Len(hdr)
      PROVE  Recovered[hdr[i]] = disk[i] /\ Recovered[hdr[i]] \in Vals
  <2>1. (CHOOSE j \in 1..Len(hdr) : hdr[j] = hdr[i]) = i
    BY <1>3
  <2>2. Recovered[hdr[i]] = disk[i]
    BY <1>2, <2>1 DEF Recovered
  <2> QED BY <1>1, <1>4, <2>2
<1>6. ASSUME NEW b \in Home, b \notin ToSet(hdr)
      PROVE  Recovered[b] = disk[b] /\ Recovered[b] \in Vals
  <2>1. ~ \E i \in 1..Len(hdr) : hdr[i] = b
    BY <1>2, <1>6
  <2>2. Recovered[b] = disk[b]
    BY <2>1 DEF Recovered
  <2> QED BY <1>1, <2>2, Geometry
<1>7. \A b \in Home : Recovered[b] \in Vals
  <2>1. \A b \in ToSet(hdr) : \E i \in 1..Len(hdr) : b = hdr[i]
    BY <1>1, Listed
  <2> QED BY <1>5, <1>6, <2>1
<1>8. Recovered = [b \in Home |-> Recovered[b]]
  BY DEF Recovered
<1>9. Recovered \in [Home -> Vals]
  BY <1>7, <1>8
<1> QED BY <1>2, <1>5, <1>6, <1>9 DEF Recovery

\* An empty header: recovery finds the blocks as they are.
LEMMA NothingToRecover ==
  ASSUME Recovery, hdr = <<>>
  PROVE  \A b \in Home : Recovered[b] = disk[b]
BY EmptyList DEF Recovery

\* Two images of the disk are equal when their blocks are.
LEMMA SameImage ==
  ASSUME NEW f \in [Home -> Vals], NEW g \in [Home -> Vals], \A b \in Home : f[b] = g[b]
  PROVE  f = g
OBVIOUS

\* Reading the header, and writing the blocks of the log, change nothing yet.
LEMMA PrepareStutters ==
  ASSUME LogInv, Recovery, Recovery', ReadHead \/ WriteLog
  PROVE  UNCHANGED <<Recovered, Volatile, Active>>
<1>1. CASE ReadHead
  BY <1>1 DEF ReadHead, Recovered, Volatile, Active, calls
<1>2. CASE WriteLog
  <2>1. TypeOK /\ Distinct /\ Recovering /\ Running /\ Loops /\ NoPanic
    BY DEF LogInv
  <2>2. /\ phase = "write" /\ hdr' = hdr /\ boot' = boot /\ Active' = Active /\ boot = "run"
        /\ hdr = <<>>
    BY <1>2, <2>1 DEF WriteLog, calls, Active, TypeOK, NoPanic, Recovering, Running
  <2>3. tail + 1 \in 1..(NLOG - 1)
    <3>1. Len(lh) \in Nat /\ tail \in Nat /\ NLOG \in Nat
      BY <2>1, LogAssumption DEF TypeOK
    <3> QED BY <2>1, <2>2, <3>1 DEF Loops, Distinct
  <2>4. \A b \in Home : b \in Blocks /\ b # tail + 1
    BY <2>3, Geometry
  <2>5. \A b \in Home : cache'[b] = cache[b] /\ disk'[b] = disk[b]
    BY <1>2, <2>1, <2>4 DEF WriteLog, TypeOK
  <2>6. Recovered' = Recovered
    <3>1. \A b \in Home : Recovered[b] = disk[b]
      BY <2>2, NothingToRecover
    <3>2. \A b \in Home : Recovered'[b] = disk'[b]
      BY <2>2, EmptyList DEF Recovery
    <3>3. Recovered \in [Home -> Vals] /\ Recovered' \in [Home -> Vals]
      BY DEF Recovery
    <3> QED BY <2>5, <3>1, <3>2, <3>3, SameImage
  <2>7. Volatile' = Volatile
    BY <2>2, <2>5 DEF Volatile
  <2> QED BY <2>2, <2>6, <2>7
<1> QED BY <1>1, <1>2

\* install_trans writes what recovery would write.
LEMMA InstallStutters ==
  ASSUME LogInv, Recovery, Recovery', InstallTrans
  PROVE  UNCHANGED <<Recovered, Volatile, Active>>
<1>1. TypeOK /\ Distinct /\ Running /\ Loops /\ Copied /\ CleanOnDisk
  BY DEF LogInv
<1> DEFINE t == tail + 1
           b == lh[t]
<1>2. /\ phase = "install" /\ tail < Len(lh) /\ cache' = [cache EXCEPT ![b] = cache[t]]
      /\ disk' = [disk EXCEPT ![b] = cache[t]] /\ hdr' = hdr /\ lh' = lh /\ boot' = boot
      /\ Active' = Active
  BY DEF InstallTrans, calls, Active
<1>3. hdr = lh
  BY <1>1, <1>2 DEF Loops
<1>4. /\ Len(lh) \in Nat /\ t \in 1..Len(lh) /\ \A i \in 1..Len(lh) : i \in 1..(NLOG - 1)
  <2>1. Len(lh) \in Nat /\ tail \in Nat /\ NLOG \in Nat /\ Len(lh) <= NLOG - 1
    BY <1>1, LogAssumption DEF TypeOK, Distinct
  <2> QED BY <1>2, <2>1
<1>5. \A i \in 1..Len(lh) : /\ i \in Blocks /\ i \notin Home
                            /\ lh[i] \in Home /\ lh[i] \in Blocks /\ lh[i] \in ToSet(lh)
  BY <1>1, <1>4, Geometry, Listed DEF TypeOK
<1>6. b \in Home /\ b \in Blocks /\ b \in ToSet(lh) /\ t \in Blocks /\ t \notin Home
  BY <1>4, <1>5
<1>7. cache[t] = disk[t]
  <2>1. Locked = {}
    BY <1>2, DiskWork
  <2> QED BY <1>1, <1>6, <2>1 DEF CleanOnDisk, TypeOK
<1>8. boot = "run" => cache[t] = cache[b]
  BY <1>1, <1>2, <1>4, <1>7 DEF Copied
<1> HIDE DEF t, b
<1>9. /\ \A c \in Blocks \ {b} : disk'[c] = disk[c] /\ cache'[c] = cache[c]
      /\ cache'[b] = cache[t]
  BY <1>1, <1>2, <1>6 DEF TypeOK
<1>10. Recovered' = Recovered
  <2>1. Recovered \in [Home -> Vals] /\ Recovered' \in [Home -> Vals]
    BY DEF Recovery
  <2>2. \A i \in 1..Len(lh) : Recovered[lh[i]] = disk[i] /\ Recovered'[lh[i]] = disk'[i]
    BY <1>2, <1>3 DEF Recovery
  <2>3. \A i \in 1..Len(lh) : disk'[i] = disk[i]
    BY <1>5, <1>6, <1>9
  <2>4. \A c \in Home \ ToSet(lh) : Recovered[c] = disk[c] /\ Recovered'[c] = disk'[c]
    BY <1>2, <1>3 DEF Recovery
  <2>5. \A c \in Home \ ToSet(lh) : disk'[c] = disk[c]
    BY <1>6, <1>9, Geometry
  <2>6. \A c \in ToSet(lh) : \E i \in 1..Len(lh) : c = lh[i]
    BY <1>1, Listed DEF TypeOK
  <2>7. \A c \in Home : Recovered'[c] = Recovered[c]
    BY <2>2, <2>3, <2>4, <2>5, <2>6
  <2> QED BY <2>1, <2>7, SameImage
<1>11. Volatile' = Volatile
  <2>1. boot = "run" => \A c \in Home : cache'[c] = cache[c]
    BY <1>8, <1>9, Geometry
  <2>2. boot \in {"run", "recover"}
    BY <1>2, DiskWork
  <2> QED BY <1>2, <1>10, <2>1, <2>2 DEF Volatile
<1> QED BY <1>2, <1>10, <1>11

\* The transaction is home: the empty header brings back the same blocks.
LEMMA ClearStutters ==
  ASSUME LogInv, Recovery, Recovery', ClearHead
  PROVE  UNCHANGED <<Recovered, Volatile, Active>>
<1>1. TypeOK /\ Recovering /\ Loops /\ Copied /\ CleanOnDisk
  BY DEF LogInv
<1>2. /\ phase = "install" /\ tail = Len(lh) /\ hdr' = <<>> /\ boot' = "run"
      /\ disk' = disk /\ cache' = cache /\ Active' = Active
  BY DEF ClearHead, calls, Active
<1>3. hdr = lh /\ boot \in {"run", "recover"} /\ Locked = {}
  BY <1>1, <1>2, DiskWork DEF Loops
<1>4. \A b \in Home : Recovered[b] = disk[b]
  <2>1. \A i \in 1..Len(lh) : Recovered[lh[i]] = disk[lh[i]]
    BY <1>1, <1>2, <1>3 DEF Recovery, Copied
  <2>2. \A b \in Home \ ToSet(lh) : Recovered[b] = disk[b]
    BY <1>3 DEF Recovery
  <2>3. \A b \in ToSet(lh) : \E i \in 1..Len(lh) : b = lh[i]
    BY <1>1, Listed DEF TypeOK
  <2> QED BY <2>1, <2>2, <2>3
<1>5. \A b \in Home : Recovered'[b] = disk[b]
  BY <1>2, EmptyList DEF Recovery
<1>6. Recovered \in [Home -> Vals] /\ Recovered' \in [Home -> Vals]
  BY DEF Recovery
<1>7. Recovered' = Recovered
  BY <1>4, <1>5, <1>6, SameImage
<1>8. Volatile' = Volatile
  <2>1. CASE boot = "run"
    BY <1>2, <2>1 DEF Volatile
  <2>2. CASE boot = "recover"
    <3>1. \A b \in Home : cache[b] = disk[b]
      BY <1>1, <1>3, <2>2, Geometry DEF Recovering, CleanOnDisk
    <3>2. Volatile' = [b \in Home |-> cache[b]]
      BY <1>2 DEF Volatile
    <3>3. Volatile = [b \in Home |-> Recovered[b]]
      BY <1>6, <2>2 DEF Volatile
    <3> QED BY <1>4, <3>1, <3>2, <3>3
  <2> QED BY <1>3, <2>1, <2>2
<1> QED BY <1>2, <1>7, <1>8

\* write_head is the commit point: the log holds all of the transaction.
LEMMA WriteHeadCommits ==
  ASSUME LogInv, Recovery, Recovery', WriteHead
  PROVE  Active = {} /\ Recovered' = Volatile /\ UNCHANGED <<Volatile, Active>>
<1>1. TypeOK /\ NoPanic /\ Recovering /\ Running /\ Copied /\ CleanOnDisk
  BY DEF LogInv
<1>2. /\ phase = "head" /\ hdr' = lh /\ lh' = lh /\ boot' = boot /\ disk' = disk
      /\ cache' = cache /\ Active' = Active
  BY DEF WriteHead, calls, Active
<1>3. /\ boot = "run" /\ dirty = ToSet(lh) /\ Active = {} /\ Locked = {}
  BY <1>1, <1>2, DiskWork DEF TypeOK, NoPanic, Recovering, Running
<1>4. \A b \in Home : Recovered'[b] = cache[b]
  <2>1. \A i \in 1..Len(lh) : Recovered'[lh[i]] = cache[lh[i]]
    BY <1>1, <1>2 DEF Recovery, Copied
  <2>2. \A b \in Home \ ToSet(lh) : Recovered'[b] = disk[b]
    BY <1>2 DEF Recovery
  <2>3. \A b \in Home \ ToSet(lh) : disk[b] = cache[b]
    BY <1>1, <1>3, Geometry DEF CleanOnDisk
  <2>4. \A b \in ToSet(lh) : \E i \in 1..Len(lh) : b = lh[i]
    BY <1>1, Listed DEF TypeOK
  <2> QED BY <2>1, <2>2, <2>3, <2>4
<1>5. Recovered' = [b \in Home |-> Recovered'[b]]
  BY DEF Recovery
<1>6. Volatile = [b \in Home |-> cache[b]] /\ Volatile' = [b \in Home |-> cache[b]]
  BY <1>2, <1>3 DEF Volatile
<1> QED BY <1>2, <1>3, <1>4, <1>5, <1>6

\* The abstract step of each step of a process.
LEMMA CallSteps ==
  ASSUME LogInv, NEW p \in Procs,
         \/ BeginOp(p) \/ BeginSleep(p) \/ EndOp(p) \/ EndOpCommit(p)
         \/ CommitDone(p) \/ LogCheck(p) \/ LogWrite(p)
  PROVE  /\ UNCHANGED <<Recovered, Volatile>>
         /\ \/ Active' = Active
            \/ p \notin Active /\ Active' = Active \union {p}
            \/ p \in Active /\ Active' = Active \ {p}
<1>1. pc \in [Procs -> PCs]
  BY DEF LogInv, TypeOK
<1>2. LogCheck(p) => ~TooBig /\ ~(outstanding < 1)
  BY CallHasRoom DEF LogCheck, InCall
<1>9. EndOp(p) \/ EndOpCommit(p) => ~committing
  BY CallRuns DEF EndOp, EndOpCommit, InCall
<1>3. UNCHANGED <<disk, hdr, cache, boot>>
  BY <1>2, <1>9 DEF BeginOp, BeginSleep, EndOp, EndOpCommit, CommitDone, LogCheck, LogWrite, memory
<1>4. UNCHANGED <<Recovered, Volatile>>
  BY <1>3 DEF Recovered, Volatile
<1>5. CASE BeginOp(p)
  <2>1. p \notin Active /\ pc'[p] = "in" /\ \A q \in Procs \ {p} : pc'[q] = pc[q]
    BY <1>1, <1>5 DEF BeginOp, Awake, Active
  <2>2. Active' = Active \union {p}
    BY <2>1 DEF Active
  <2> QED BY <1>4, <2>1, <2>2
<1>6. CASE EndOp(p) \/ EndOpCommit(p)
  <2>1. /\ p \in Active /\ pc'[p] \in {"idle", "commit"}
        /\ \A q \in Procs \ {p} : pc'[q] = pc[q] \/ (pc[q] = "asleep" /\ pc'[q] = "begin")
    BY <1>1, <1>6 DEF EndOp, EndOpCommit, Woken, Active
  <2>2. Active' = Active \ {p}
    BY <2>1 DEF Active
  <2> QED BY <1>4, <2>1, <2>2
<1>7. CASE BeginSleep(p) \/ CommitDone(p) \/ LogCheck(p) \/ LogWrite(p)
  <2>1. CASE BeginSleep(p)
    <3>1. /\ pc[p] \in {"idle", "begin"} /\ pc'[p] = "asleep"
          /\ \A q \in Procs \ {p} : pc'[q] = pc[q]
      BY <1>1, <2>1 DEF BeginSleep, Awake
    <3> QED BY <3>1, <1>4 DEF Active
  <2>2. CASE CommitDone(p)
    <3>1. /\ pc[p] = "commit" /\ pc'[p] = "idle"
          /\ \A q \in Procs \ {p} : pc'[q] = pc[q] \/ (pc[q] = "asleep" /\ pc'[q] = "begin")
      BY <1>1, <2>2 DEF CommitDone, Woken
    <3> QED BY <3>1, <1>4 DEF Active
  <2>3. CASE LogCheck(p) \/ LogWrite(p)
    <3>1. /\ pc[p] \in {"dirtied", "checked"} /\ pc'[p] \in {"in", "checked"}
          /\ \A q \in Procs \ {p} : pc'[q] = pc[q]
      BY <1>1, <1>2, <2>3 DEF LogCheck, LogWrite
    <3> QED BY <3>1, <1>4 DEF Active
  <2> QED BY <1>7, <2>1, <2>2, <2>3
<1> QED BY <1>5, <1>6, <1>7

\* A call changes one block of what the system sees, and nothing that would survive.
LEMMA ModifyWrites ==
  ASSUME LogInv, NEW p \in Procs, Modify(p)
  PROVE  /\ p \in Active /\ UNCHANGED <<Recovered, Active>>
         /\ \E b \in Home, v \in Vals : Volatile' = [Volatile EXCEPT ![b] = v]
<1>1. pc \in [Procs -> PCs] /\ cache \in [Blocks -> Vals]
  BY DEF LogInv, TypeOK
<1>2. PICK b \in Home, v \in Vals : cache' = [cache EXCEPT ![b] = v]
  BY DEF Modify
<1>3. /\ boot = "run" /\ boot' = "run" /\ disk' = disk /\ hdr' = hdr /\ pc[p] = "in"
      /\ pc'[p] = "dirtied" /\ \A q \in Procs \ {p} : pc'[q] = pc[q]
  BY <1>1 DEF Modify
<1>4. p \in Active /\ Active' = Active
  BY <1>3 DEF Active
<1>5. Recovered' = Recovered
  BY <1>3 DEF Recovered
<1>6. Volatile' = [Volatile EXCEPT ![b] = v]
  BY <1>1, <1>2, <1>3, Geometry DEF Volatile
<1> QED BY <1>4, <1>5, <1>6

\* What survives a crash is what recovery brings back.
LEMMA CrashKeeps ==
  ASSUME CrashReboot
  PROVE  Recovered' = Recovered /\ Volatile' = Recovered /\ Active' = {}
BY DEF CrashReboot, Recovered, Volatile, Active

\* Every step of log.c is a step of LogAbs, or changes nothing of what it sees.
LEMMA LogAbsStep ==
  ASSUME LogInv, Recovery, Recovery', [Next]_vars
  PROVE  [Abs!AbsNext]_<<Recovered, Volatile, Active>>
<1>1. CASE ReadHead \/ WriteLog \/ InstallTrans \/ ClearHead
  BY <1>1, PrepareStutters, InstallStutters, ClearStutters
<1>2. CASE WriteHead
  BY <1>2, WriteHeadCommits DEF Abs!AbsNext, Abs!Commit, Volatile
<1>3. ASSUME NEW p \in Procs,
             \/ BeginOp(p) \/ BeginSleep(p) \/ EndOp(p) \/ EndOpCommit(p)
             \/ CommitDone(p) \/ LogCheck(p) \/ LogWrite(p)
      PROVE  [Abs!AbsNext]_<<Recovered, Volatile, Active>>
  <2>1. /\ UNCHANGED <<Recovered, Volatile>>
        /\ \/ Active' = Active
           \/ p \notin Active /\ Active' = Active \union {p}
           \/ p \in Active /\ Active' = Active \ {p}
    BY <1>3, CallSteps
  <2> QED BY <2>1 DEF Abs!AbsNext, Abs!Begin, Abs!End, Volatile
<1>4. ASSUME NEW p \in Procs, Modify(p) PROVE Abs!AbsNext
  BY <1>4, ModifyWrites DEF Abs!AbsNext, Abs!Write, Volatile
<1>5. ASSUME NEW b \in Blocks, Evict(b) PROVE UNCHANGED <<Recovered, Volatile, Active>>
  BY <1>5, EvictSame DEF vars, Recovered, Volatile, Active
<1>6. CASE CrashReboot
  BY <1>6, CrashKeeps DEF Abs!AbsNext, Abs!Crash, Volatile
<1>7. CASE UNCHANGED vars
  BY <1>7 DEF vars, Recovered, Volatile, Active
<1> QED BY <1>1, <1>2, <1>3, <1>4, <1>5, <1>6, <1>7 DEF Next

\* log.c implements the atomic transactions of LogAbs, for any number of processes,
\* blocks and crashes: whenever the machine stops, also while it commits, installs
\* or recovers, a reboot finds exactly the committed transactions, whole.
THEOREM LogIsAtomic == Spec => AtomicDurable
<1>1. Init => Abs!AbsInit
  <2> SUFFICES ASSUME Init PROVE Abs!AbsInit
    OBVIOUS
  <2>1. Recovered \in [Home -> Vals]
    BY InitInv, RecoveryWorks DEF Recovery
  <2>2. boot = "recover" /\ Active = {}
    BY DEF Init, Active
  <2> QED BY <2>1, <2>2 DEF Abs!AbsInit
<1>2. LogInv /\ LogInv' /\ [Next]_vars => [Abs!AbsNext]_<<Recovered, Volatile, Active>>
  <2>1. LogInv => Recovery
    BY RecoveryWorks
  <2>2. LogInv' => Recovery'
    BY RecoveryWorks, PTL
  <2> QED BY <2>1, <2>2, LogAbsStep
<1>3. LogInv /\ LogInv' /\ [Next]_vars => [Abs!AbsNext]_Abs!absvars
  BY <1>2 DEF Abs!absvars, Volatile
<1> QED BY <1>1, <1>3, LogInvariant, PTL DEF Spec, AtomicDurable, Abs!AbsSpec
==============================================================================
