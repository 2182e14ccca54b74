-------------------------- MODULE ProcTableProof --------------------------
(***************************************************************************)
(* Safety of the process table and its scheduler, for any number of CPUs,  *)
(* slots, links, channels and any priorities.                              *)
(***************************************************************************)
EXTENDS ProcTable, SequenceTheorems, WellFoundedInduction, TLAPS

----------------------------------------------------------------------------
(* The operators of SchedQueues, for every set of processes, every range   *)
(* of accumulators and every pool size                                     *)

\* A set of naturals that is not empty has a least element.
LEMMA NatMin ==
  ASSUME NEW T, T \subseteq Nat, T # {}
  PROVE  \E x \in T : \A y \in T : x <= y
<1>1. PICK x \in T : \A y \in T : ~ (<<y, x>> \in OpToRel(<, Nat))
  BY NatLessThanWellFounded, WFMin
<1>2. ASSUME NEW y \in T PROVE x <= y
  <2>1. ~(y < x)
    BY <1>1 DEF OpToRel
  <2> QED BY <2>1
<1> QED BY <1>2

\* So has a set of integers with a lower bound.
LEMMA IntMin ==
  ASSUME NEW T, NEW lo \in Int, T \subseteq Int, T # {}, \A x \in T : lo <= x
  PROVE  \E x \in T : \A y \in T : x <= y
<1> DEFINE U == {x - lo : x \in T}
<1>1. U \subseteq Nat /\ U # {}
  <2>1. ASSUME NEW x \in T PROVE x - lo \in Nat
    OBVIOUS
  <2> QED BY <2>1
<1> HIDE DEF U
<1>2. PICK u \in U : \A v \in U : u <= v
  BY <1>1, NatMin
<1>3. PICK x \in T : u = x - lo
  BY <1>2 DEF U
<1>4. ASSUME NEW y \in T PROVE x <= y
  <2>1. y - lo \in U
    BY DEF U
  <2>2. u <= y - lo
    BY <2>1, <1>2
  <2> QED BY <2>2, <1>3
<1> QED BY <1>4

\* Where put places a new entry: all keys before it are at most k, and the next
\* one, if any, is larger.
LEMMA PutPosSpec ==
  ASSUME NEW P, NEW q \in Seq([proc : P, key : Int]), NEW k \in Int
  PROVE  /\ PutPos(q, k) \in 1..(Len(q) + 1)
         /\ PutPos(q, k) <= Len(q) => q[PutPos(q, k)].key > k
         /\ \A j \in 1..(PutPos(q, k) - 1) : q[j].key <= k
<1> DEFINE T == {i \in 1..(Len(q) + 1) : i <= Len(q) => q[i].key > k}
<1>1. T \subseteq Nat /\ T # {}
  <2>1. Len(q) + 1 \in T
    OBVIOUS
  <2> QED BY <2>1
<1> HIDE DEF T
<1>2. PICK i \in T : \A j \in T : i <= j
  BY <1>1, NatMin
<1>3. i \in 1..(Len(q) + 1) /\ (i <= Len(q) => q[i].key > k)
  BY <1>2 DEF T
<1>4. ASSUME NEW j \in 1..(i - 1) PROVE q[j].key <= k
  <2>1. j \notin T /\ j \in 1..Len(q)
    BY <1>2, <1>3
  <2>2. ~(q[j].key > k)
    BY <2>1 DEF T
  <2>3. q[j].key \in Int
    <3>1. q[j] \in [proc : P, key : Int]
      BY <2>1, ElementOfSeq
    <3> QED BY <3>1
  <2> QED BY <2>2, <2>3
<1> QED BY <1>3, <1>4 DEF PutPos

\* The elements of a sequence after an insertion.
LEMMA InsertAtSpec ==
  ASSUME NEW S, NEW q \in Seq(S), NEW i \in 1..(Len(q) + 1), NEW e \in S
  PROVE  /\ InsertAt(q, i, e) \in Seq(S)
         /\ Len(InsertAt(q, i, e)) = Len(q) + 1
         /\ \A j \in 1..(Len(q) + 1) :
              InsertAt(q, i, e)[j] = IF j < i THEN q[j]
                                     ELSE IF j = i THEN e ELSE q[j - 1]
<1> DEFINE a == SubSeq(q, 1, i - 1)
           b == SubSeq(q, i, Len(q))
<1>1. /\ a \in Seq(S) /\ Len(a) = i - 1
      /\ \A j \in 1..(i - 1) : a[j] = q[j]
  OBVIOUS
<1>2. /\ b \in Seq(S) /\ Len(b) = Len(q) + 1 - i
      /\ \A j \in 1..(Len(q) + 1 - i) : b[j] = q[j + i - 1]
  OBVIOUS
<1> HIDE DEF a, b
<1> DEFINE d == a \o <<e>>
<1>3. /\ d \in Seq(S) /\ Len(d) = i
      /\ \A j \in 1..i : d[j] = IF j < i THEN q[j] ELSE e
  BY <1>1
<1> HIDE DEF d
<1>4. /\ d \o b \in Seq(S) /\ Len(d \o b) = Len(q) + 1
      /\ \A j \in 1..(Len(q) + 1) :
           (d \o b)[j] = IF j <= i THEN d[j] ELSE b[j - i]
  <2>1. /\ d \o b \in Seq(S) /\ Len(d \o b) = Len(d) + Len(b)
        /\ \A j \in 1..(Len(d) + Len(b)) :
             (d \o b)[j] = IF j <= Len(d) THEN d[j] ELSE b[j - Len(d)]
    <3>1. d \in Seq(S) /\ b \in Seq(S)
      BY <1>2, <1>3
    <3> QED BY ONLY <3>1, ConcatProperties
  <2>2. Len(d) + Len(b) = Len(q) + 1 /\ Len(d) = i
    BY <1>2, <1>3
  <2> QED BY <2>1, <2>2
<1>5. InsertAt(q, i, e) = d \o b
  BY DEF InsertAt, d, a, b
<1>6. ASSUME NEW j \in 1..(Len(q) + 1), j > i PROVE b[j - i] = q[j - 1]
  <2>1. j - i \in 1..(Len(q) + 1 - i) /\ (j - i) + i - 1 = j - 1
    BY <1>6
  <2> QED BY <2>1, <1>2
<1> QED BY <1>3, <1>4, <1>5, <1>6

\* The elements of a sequence after a removal.
LEMMA RemoveAtSpec ==
  ASSUME NEW S, NEW q \in Seq(S), NEW i \in 1..Len(q)
  PROVE  /\ RemoveAt(q, i) \in Seq(S)
         /\ Len(RemoveAt(q, i)) = Len(q) - 1
         /\ \A j \in 1..(Len(q) - 1) :
              RemoveAt(q, i)[j] = IF j < i THEN q[j] ELSE q[j + 1]
<1> DEFINE a == SubSeq(q, 1, i - 1)
           b == SubSeq(q, i + 1, Len(q))
<1>1. /\ a \in Seq(S) /\ Len(a) = i - 1
      /\ \A j \in 1..(i - 1) : a[j] = q[j]
  OBVIOUS
<1>2. /\ b \in Seq(S) /\ Len(b) = Len(q) - i
      /\ \A j \in 1..(Len(q) - i) : b[j] = q[j + i]
  OBVIOUS
<1> HIDE DEF a, b
<1>3. /\ a \o b \in Seq(S) /\ Len(a \o b) = Len(q) - 1
      /\ \A j \in 1..(Len(q) - 1) :
           (a \o b)[j] = IF j < i THEN a[j] ELSE b[j - (i - 1)]
  <2>1. /\ a \o b \in Seq(S) /\ Len(a \o b) = Len(a) + Len(b)
        /\ \A j \in 1..(Len(a) + Len(b)) :
             (a \o b)[j] = IF j <= Len(a) THEN a[j] ELSE b[j - Len(a)]
    <3>1. a \in Seq(S) /\ b \in Seq(S)
      BY <1>1, <1>2
    <3> QED BY ONLY <3>1, ConcatProperties
  <2>2. Len(a) + Len(b) = Len(q) - 1 /\ Len(a) = i - 1
    BY <1>1, <1>2
  <2>3. \A j \in 1..(Len(q) - 1) : j <= i - 1 <=> j < i
    OBVIOUS
  <2> QED BY <2>1, <2>2, <2>3
<1>4. ASSUME NEW j \in 1..(Len(q) - 1), ~(j < i)
      PROVE  b[j - (i - 1)] = q[j + 1]
  <2>1. j - (i - 1) \in 1..(Len(q) - i) /\ (j - (i - 1)) + i = j + 1
    BY <1>4
  <2> QED BY <2>1, <1>2
<1>5. ASSUME NEW j \in 1..(Len(q) - 1), j < i PROVE a[j] = q[j]
  BY <1>1, <1>5
<1> QED BY <1>3, <1>4, <1>5 DEF RemoveAt, a, b

----------------------------------------------------------------------------

\* pq.put with a link left: p gains an entry, the order is kept.
LEMMA PutSpec ==
  ASSUME NEW P, NEW lo \in Int, NEW hi \in Int,
         NEW s \in SchedSet(P, lo, hi), NEW p \in P, NEW k \in lo..hi,
         CanPut(s)
  PROVE  /\ Put(s, p, k) \in SchedSet(P, lo, hi)
         /\ Put(s, p, k).rp = s.rp /\ Put(s, p, k).rrq = s.rrq
         /\ Put(s, p, k).free = s.free - 1
         /\ Len(Put(s, p, k).pq) = Len(s.pq) + 1
         /\ Queued(Put(s, p, k)) = Queued(s) \cup {p}
         /\ Sorted(s) => Sorted(Put(s, p, k))
<1> DEFINE S == [proc : P, key : lo..hi]
           q == s.pq
           e == Entry(p, k)
           i == PutPos(q, k)
           r == InsertAt(q, i, e)
           t == Put(s, p, k)
<1>1. q \in Seq(S) /\ s.free \in Nat /\ s.free > 0 /\ e \in S
  BY DEF SchedSet, CanPut, Entry
<1>2. q \in Seq([proc : P, key : Int]) /\ k \in Int
  <2> DEFINE T == [proc : P, key : Int]
  <2>1. S \subseteq T
    OBVIOUS
  <2> HIDE DEF S, T, q
  <2>2. q \in Seq(T)
    BY ONLY <1>1, <2>1, SeqMonotonic
  <2> QED BY <2>2 DEF T
<1>3. /\ i \in 1..(Len(q) + 1)
      /\ i <= Len(q) => q[i].key > k
      /\ \A j \in 1..(i - 1) : q[j].key <= k
  <2> HIDE DEF q
  <2> QED BY <1>2, PutPosSpec
<1>4. /\ r \in Seq(S)
      /\ Len(r) = Len(q) + 1
      /\ \A j \in 1..(Len(q) + 1) :
           r[j] = IF j < i THEN q[j] ELSE IF j = i THEN e ELSE q[j - 1]
  <2> HIDE DEF S, q, i, e
  <2> QED BY <1>1, <1>3, InsertAtSpec
<1>5. t = [pq |-> r, rrq |-> s.rrq, rp |-> s.rp, free |-> s.free - 1]
  BY DEF Put, CanPut
<1>6. /\ t.pq = r /\ t.free = s.free - 1 /\ t.rp = s.rp /\ t.rrq = s.rrq
      /\ t \in SchedSet(P, lo, hi)
  <2>1. r \in Seq([proc : P, key : lo..hi]) /\ s.free - 1 \in Nat
    BY <1>1, <1>4
  <2> HIDE DEF r, t
  <2> QED BY <2>1, <1>5 DEF SchedSet
<1>7. \A j \in 1..Len(q) : q[j] \in S
  <2> HIDE DEF S, q
  <2> QED BY <1>1, ElementOfSeq
<1>8. Len(q) \in Nat
  <2> HIDE DEF S, q
  <2> QED BY <1>1, LenProperties
<1>9. e.proc = p /\ e.key = k
  BY DEF Entry
<1> HIDE DEF r, t, i, e, S, q
<1>10. Queued(t) = Queued(s) \cup {p}
  <2>1. ASSUME NEW j \in 1..Len(r) PROVE r[j].proc \in Queued(s) \cup {p}
    <3>1. CASE j < i
      <4>1. j \in 1..Len(q) /\ r[j] = q[j]
        BY <3>1, <1>3, <1>4, <1>8
      <4> QED BY <4>1 DEF Queued, q
    <3>2. CASE j = i
      BY <3>2, <1>4, <1>9
    <3>3. CASE j > i
      <4>1. j - 1 \in 1..Len(q) /\ r[j] = q[j - 1]
        BY <3>3, <1>3, <1>4, <1>8
      <4> QED BY <4>1 DEF Queued, q
    <3> QED BY <3>1, <3>2, <3>3, <1>3, <1>4, <1>8
  <2>2. ASSUME NEW j \in 1..Len(q) PROVE q[j].proc \in Queued(t)
    <3>1. CASE j < i
      <4>1. j \in 1..Len(r) /\ r[j] = q[j]
        BY <3>1, <1>3, <1>4, <1>8
      <4> QED BY <4>1, <1>6 DEF Queued
    <3>2. CASE j >= i
      <4>1. j + 1 \in 1..Len(r) /\ (j + 1) - 1 = j /\ ~(j + 1 < i) /\ j + 1 # i
        BY <3>2, <1>3, <1>4, <1>8
      <4>2. r[j + 1] = q[j]
        BY <4>1, <1>4
      <4> QED BY <4>1, <4>2, <1>6 DEF Queued
    <3> QED BY <3>1, <3>2, <1>3, <1>8
  <2>3. p \in Queued(t)
    <3>1. i \in 1..Len(r) /\ r[i] = e
      BY <1>3, <1>4, <1>8
    <3> QED BY <3>1, <1>6, <1>9 DEF Queued
  <2>4. Queued(t) \subseteq Queued(s) \cup {p}
    BY <2>1, <1>6 DEF Queued
  <2>5. Queued(s) \subseteq Queued(t)
    BY <2>2 DEF Queued, q
  <2> QED BY <2>3, <2>4, <2>5
<1>11. ASSUME Sorted(s) PROVE Sorted(t)
  <2>1. \A j \in 1..Len(q) : q[j].key \in Int
    BY <1>7 DEF S
  <2>2. \A a, b \in 1..Len(q) : a < b => q[a].key <= q[b].key
    BY <1>11 DEF Sorted, q
  <2>3. \A b \in i..Len(q) : q[b].key > k
    <3> TAKE b \in i..Len(q)
    <3>1. i \in 1..Len(q) /\ b \in 1..Len(q) /\ q[i].key > k
      BY <1>3, <1>8
    <3>2. q[i].key <= q[b].key
      BY <3>1, <2>1, <2>2
    <3> QED BY <3>1, <3>2, <2>1
  <2>4. ASSUME NEW a \in 1..Len(r), NEW b \in 1..Len(r), a < b
        PROVE  r[a].key <= r[b].key
    <3>1. CASE b < i
      <4>1. a \in 1..Len(q) /\ b \in 1..Len(q) /\ r[a] = q[a] /\ r[b] = q[b]
        BY <3>1, <2>4, <1>3, <1>4, <1>8
      <4> QED BY <4>1, <2>2, <2>4
    <3>2. CASE b = i
      <4>1. a \in 1..(i - 1) /\ r[a] = q[a] /\ r[b] = e
        BY <3>2, <2>4, <1>3, <1>4, <1>8
      <4> QED BY <4>1, <1>3, <1>9
    <3>3. CASE b > i /\ a < i
      <4>1. a \in 1..(i - 1) /\ a \in 1..Len(q) /\ b - 1 \in i..Len(q)
            /\ b - 1 \in 1..Len(q) /\ r[a] = q[a] /\ r[b] = q[b - 1]
        BY <3>3, <2>4, <1>3, <1>4, <1>8
      <4>2. q[a].key <= k /\ q[b - 1].key > k
        BY <4>1, <1>3, <2>3
      <4> QED BY <4>1, <4>2, <2>1
    <3>4. CASE b > i /\ a = i
      <4>1. b - 1 \in i..Len(q) /\ b - 1 \in 1..Len(q) /\ r[a] = e
            /\ r[b] = q[b - 1]
        BY <3>4, <2>4, <1>3, <1>4, <1>8
      <4> QED BY <4>1, <2>1, <2>3, <1>9
    <3>5. CASE b > i /\ a > i
      <4>1. a - 1 \in 1..Len(q) /\ b - 1 \in 1..Len(q) /\ a - 1 < b - 1
            /\ r[a] = q[a - 1] /\ r[b] = q[b - 1]
        BY <3>5, <2>4, <1>3, <1>4, <1>8
      <4> QED BY <4>1, <2>2
    <3> QED BY <3>1, <3>2, <3>3, <3>4, <3>5, <1>3, <1>4, <1>8
  <2> QED BY <2>4, <1>6 DEF Sorted
<1> QED BY <1>4, <1>6, <1>10, <1>11 DEF t, q

\* Links only move between the free list, pq and rpholder: the pool is conserved.
LEMMA FreeBound ==
  ASSUME NEW P, NEW lo \in Int, NEW hi \in Int, NEW n \in Nat,
         NEW s \in SchedSet(P, lo, hi), LinksConserved(s, n)
  PROVE  s.free <= n
BY DEF SchedSet, LinksConserved

LEMMA LinksMove ==
  ASSUME NEW P, NEW lo \in Int, NEW hi \in Int, NEW n \in Nat,
         NEW s \in SchedSet(P, lo, hi), NEW t \in SchedSet(P, lo, hi),
         LinksConserved(s, n), t.rrq = s.rrq,
         \/ t.free = s.free - 1 /\ Len(t.pq) = Len(s.pq) + 1 /\ t.rp = s.rp
         \/ t.free = s.free + 1 /\ Len(t.pq) = Len(s.pq) - 1 /\ t.rp = s.rp
         \/ t.free = s.free - 1 /\ Len(t.rp) = Len(s.rp) + 1 /\ t.pq = s.pq
         \/ t.free = s.free + 1 /\ Len(t.rp) = Len(s.rp) - 1 /\ t.pq = s.pq
  PROVE  LinksConserved(t, n) /\ t.free <= n
<1> DEFINE F(x) == x.free
           A(x) == Len(x.pq)
           B(x) == Len(x.rrq)
           C(x) == Len(x.rp)
<1>1. F(s) \in Nat /\ A(s) \in Nat /\ B(s) \in Nat /\ C(s) \in Nat
  BY DEF SchedSet
<1>2. F(s) + A(s) + B(s) + C(s) = n /\ B(t) = B(s)
  BY DEF LinksConserved
<1>3. \/ F(t) = F(s) - 1 /\ A(t) = A(s) + 1 /\ C(t) = C(s)
      \/ F(t) = F(s) + 1 /\ A(t) = A(s) - 1 /\ C(t) = C(s)
      \/ F(t) = F(s) - 1 /\ C(t) = C(s) + 1 /\ A(t) = A(s)
      \/ F(t) = F(s) + 1 /\ C(t) = C(s) - 1 /\ A(t) = A(s)
  BY Zenon
<1>4. SUFFICES F(t) + A(t) + B(t) + C(t) = n
  BY FreeBound DEF LinksConserved
<1> HIDE DEF F, A, B, C
<1> QED BY <1>1, <1>2, <1>3

\* pq.put without a link: nothing changes.
LEMMA PutFails ==
  ASSUME NEW s, NEW p, NEW k, ~CanPut(s)
  PROVE  Put(s, p, k) = s
BY DEF Put

\* pq.put keeps the structures sound whether or not it finds a link.
LEMMA PutSound ==
  ASSUME NEW P, NEW lo \in Int, NEW hi \in Int, NEW n \in Nat,
         NEW s \in SchedSet(P, lo, hi), NEW p \in P, NEW k \in lo..hi,
         LinksConserved(s, n), Sorted(s)
  PROVE  /\ Put(s, p, k) \in SchedSet(P, lo, hi)
         /\ LinksConserved(Put(s, p, k), n) /\ Put(s, p, k).free <= n
         /\ Put(s, p, k).rp = s.rp /\ Put(s, p, k).rrq = s.rrq
         /\ Sorted(Put(s, p, k))
         /\ Queued(s) \subseteq Queued(Put(s, p, k))
         /\ Queued(Put(s, p, k)) \subseteq Queued(s) \cup {p}
         /\ CanPut(s) => p \in Queued(Put(s, p, k))
<1>1. CASE CanPut(s)
  <2> DEFINE t == Put(s, p, k)
  <2>1. /\ t \in SchedSet(P, lo, hi)
        /\ t.rp = s.rp /\ t.rrq = s.rrq /\ t.free = s.free - 1
        /\ Len(t.pq) = Len(s.pq) + 1
        /\ Queued(t) = Queued(s) \cup {p} /\ Sorted(t)
    BY <1>1, PutSpec
  <2> HIDE DEF t
  <2>2. LinksConserved(t, n) /\ t.free <= n
    BY <2>1, LinksMove
  <2> QED BY <2>1, <2>2 DEF t
<1>2. CASE ~CanPut(s)
  BY <1>2, PutFails, FreeBound
<1> QED BY <1>1, <1>2

\* pq.extractMin on a queue that is not empty: the first entry goes, no other
\* process loses its last entry, the order is kept.
LEMMA ExtractMinSpec ==
  ASSUME NEW P, NEW lo \in Int, NEW hi \in Int,
         NEW s \in SchedSet(P, lo, hi), s.pq # <<>>
  PROVE  /\ MinEntry(s).proc \in P /\ MinEntry(s).key \in lo..hi
         /\ MinEntry(s).proc \in Queued(s)
         /\ ExtractMin(s) \in SchedSet(P, lo, hi)
         /\ ExtractMin(s).rp = s.rp /\ ExtractMin(s).rrq = s.rrq
         /\ ExtractMin(s).free = s.free + 1
         /\ Len(ExtractMin(s).pq) = Len(s.pq) - 1
         /\ Queued(s) \subseteq Queued(ExtractMin(s)) \cup {MinEntry(s).proc}
         /\ Queued(ExtractMin(s)) \subseteq Queued(s)
         /\ Sorted(s) => Sorted(ExtractMin(s))
<1> DEFINE S == [proc : P, key : lo..hi]
           q == s.pq
           r == Tail(q)
           t == ExtractMin(s)
<1>1. q \in Seq(S) /\ s.free \in Nat /\ q # <<>>
  BY DEF SchedSet
<1>2. /\ Head(q) \in S /\ r \in Seq(S) /\ Len(r) = Len(q) - 1
      /\ \A i \in 1..Len(r) : r[i] = q[i + 1]
  <2> HIDE DEF S, q
  <2> QED BY <1>1, HeadTailProperties
<1>3. Len(q) \in Nat /\ Len(q) >= 1 /\ Head(q) = q[1]
  <2> HIDE DEF S, q
  <2> QED BY <1>1, EmptySeq, LenProperties
<1>4. t = [pq |-> r, rrq |-> s.rrq, rp |-> s.rp, free |-> s.free + 1]
  BY DEF ExtractMin
<1>5. /\ t.pq = r /\ t.free = s.free + 1 /\ t.rp = s.rp /\ t.rrq = s.rrq
      /\ t \in SchedSet(P, lo, hi)
  <2>1. r \in Seq([proc : P, key : lo..hi]) /\ s.free + 1 \in Nat
    BY <1>1, <1>2
  <2> HIDE DEF r, t
  <2> QED BY <2>1, <1>4 DEF SchedSet
<1>6. MinEntry(s) = q[1]
  BY <1>3 DEF MinEntry
<1>7. MinEntry(s).proc \in P /\ MinEntry(s).key \in lo..hi
  BY <1>2 DEF MinEntry
<1> HIDE DEF S, q, r, t
<1>8. MinEntry(s).proc \in Queued(s)
  BY <1>3, <1>6 DEF Queued, q
<1>9. Queued(t) \subseteq Queued(s)
  <2>1. ASSUME NEW i \in 1..Len(r) PROVE r[i].proc \in Queued(s)
    <3>1. i + 1 \in 1..Len(q) /\ r[i] = q[i + 1]
      BY <1>2, <1>3
    <3> QED BY <3>1 DEF Queued, q
  <2> QED BY <2>1, <1>5 DEF Queued
<1>10. Queued(s) \subseteq Queued(t) \cup {MinEntry(s).proc}
  <2>1. ASSUME NEW i \in 1..Len(q), i # 1 PROVE q[i].proc \in Queued(t)
    <3>1. i - 1 \in 1..Len(r) /\ (i - 1) + 1 = i
      BY <2>1, <1>2, <1>3
    <3>2. r[i - 1] = q[i]
      BY <3>1, <1>2
    <3> QED BY <3>1, <3>2, <1>5 DEF Queued
  <2> QED BY <2>1, <1>6 DEF Queued, q
<1>11. ASSUME Sorted(s) PROVE Sorted(t)
  <2>1. ASSUME NEW a \in 1..Len(r), NEW b \in 1..Len(r), a < b
        PROVE  r[a].key <= r[b].key
    <3>1. a + 1 \in 1..Len(q) /\ b + 1 \in 1..Len(q) /\ a + 1 < b + 1
      BY <2>1, <1>2, <1>3
    <3>2. r[a] = q[a + 1] /\ r[b] = q[b + 1]
      BY <1>2
    <3> QED BY <3>1, <3>2, <1>11 DEF Sorted, q
  <2> QED BY <2>1, <1>5 DEF Sorted
<1> QED BY <1>2, <1>5, <1>7, <1>8, <1>9, <1>10, <1>11 DEF t, q

\* rpholder.add with a link left.
LEMMA AddHeldSpec ==
  ASSUME NEW P, NEW lo \in Int, NEW hi \in Int,
         NEW s \in SchedSet(P, lo, hi), NEW p \in P, CanPut(s)
  PROVE  /\ AddHeld(s, p) \in SchedSet(P, lo, hi)
         /\ AddHeld(s, p).pq = s.pq /\ AddHeld(s, p).rrq = s.rrq
         /\ AddHeld(s, p).free = s.free - 1
         /\ Len(AddHeld(s, p).rp) = Len(s.rp) + 1
         /\ Held(AddHeld(s, p)) = Held(s) \cup {p}
         /\ NoDuplicate(s.rp) /\ p \notin Held(s) => NoDuplicate(AddHeld(s, p).rp)
<1> DEFINE h == s.rp
           r == Append(h, p)
           t == AddHeld(s, p)
<1>1. h \in Seq(P) /\ s.free \in Nat /\ s.free > 0
  BY DEF SchedSet, CanPut
<1>2. /\ r \in Seq(P) /\ Len(r) = Len(h) + 1
      /\ \A i \in 1..Len(h) : r[i] = h[i]
      /\ r[Len(h) + 1] = p
  <2> HIDE DEF h
  <2> QED BY <1>1, AppendProperties
<1>3. Len(h) \in Nat
  <2> HIDE DEF h
  <2> QED BY <1>1, LenProperties
<1>4. t = [pq |-> s.pq, rrq |-> s.rrq, rp |-> r, free |-> s.free - 1]
  BY DEF AddHeld
<1>5. /\ t.rp = r /\ t.free = s.free - 1 /\ t.pq = s.pq /\ t.rrq = s.rrq
      /\ t \in SchedSet(P, lo, hi)
  <2>1. r \in Seq(P) /\ s.free - 1 \in Nat
    BY <1>1, <1>2
  <2> HIDE DEF r, t
  <2> QED BY <2>1, <1>4 DEF SchedSet
<1> HIDE DEF h, r, t
<1>6. \A i \in 1..Len(r) : i \in 1..Len(h) \/ i = Len(h) + 1
  BY <1>2, <1>3
<1>7. Held(t) = Held(s) \cup {p}
  <2>1. Held(t) \subseteq Held(s) \cup {p}
    BY <1>2, <1>5, <1>6 DEF Held, h
  <2>2. \A i \in 1..Len(h) : i \in 1..Len(r)
    BY <1>2, <1>3
  <2>3. Held(s) \subseteq Held(t)
    BY <2>2, <1>2, <1>5 DEF Held, h
  <2>4. p \in Held(t)
    <3>1. Len(h) + 1 \in 1..Len(r)
      BY <1>2, <1>3
    <3> QED BY <3>1, <1>2, <1>5 DEF Held
  <2> QED BY <2>1, <2>3, <2>4
<1>8. ASSUME NoDuplicate(h), p \notin Held(s) PROVE NoDuplicate(r)
  <2>1. \A i \in 1..Len(h) : h[i] # p
    BY <1>8 DEF Held, h
  <2> QED BY <2>1, <1>2, <1>6, <1>8 DEF NoDuplicate
<1> QED BY <1>2, <1>5, <1>7, <1>8 DEF t, h

\* rpholder.remove of a process that is there once.
LEMMA RemoveHeldSpec ==
  ASSUME NEW P, NEW lo \in Int, NEW hi \in Int,
         NEW s \in SchedSet(P, lo, hi), NEW p \in Held(s), NoDuplicate(s.rp)
  PROVE  /\ RemoveHeld(s, p) \in SchedSet(P, lo, hi)
         /\ RemoveHeld(s, p).pq = s.pq /\ RemoveHeld(s, p).rrq = s.rrq
         /\ RemoveHeld(s, p).free = s.free + 1
         /\ Len(RemoveHeld(s, p).rp) = Len(s.rp) - 1
         /\ Held(RemoveHeld(s, p)) = Held(s) \ {p}
         /\ NoDuplicate(RemoveHeld(s, p).rp)
<1> DEFINE h == s.rp
           i == FirstOf(h, p)
           r == RemoveAt(h, i)
           t == RemoveHeld(s, p)
<1>1. h \in Seq(P) /\ s.free \in Nat
  BY DEF SchedSet
<1>2. PICK n \in 1..Len(h) : h[n] = p
  BY DEF Held
<1>3. Len(h) \in Nat
  <2> HIDE DEF h
  <2> QED BY <1>1, LenProperties
<1>4. \A j \in 1..(n - 1) : h[j] # p
  BY <1>2, <1>3 DEF NoDuplicate
<1>5. i \in 1..Len(h) /\ h[i] = p
  <2> HIDE DEF h
  <2> QED BY <1>2, <1>4 DEF FirstOf
<1>6. /\ r \in Seq(P) /\ Len(r) = Len(h) - 1
      /\ \A j \in 1..(Len(h) - 1) : r[j] = IF j < i THEN h[j] ELSE h[j + 1]
  <2> HIDE DEF h, i
  <2> QED BY <1>1, <1>5, RemoveAtSpec
<1>7. t = [pq |-> s.pq, rrq |-> s.rrq, rp |-> r, free |-> s.free + 1]
  BY <1>2 DEF RemoveHeld
<1>8. /\ t.rp = r /\ t.free = s.free + 1 /\ t.pq = s.pq /\ t.rrq = s.rrq
      /\ t \in SchedSet(P, lo, hi)
  <2>1. r \in Seq(P) /\ s.free + 1 \in Nat
    BY <1>1, <1>6
  <2> HIDE DEF r, t
  <2> QED BY <2>1, <1>7 DEF SchedSet
<1> HIDE DEF h, i, r, t
<1>9. NoDuplicate(h)
  BY DEF h
<1>10. ASSUME NEW j \in 1..Len(r)
       PROVE  \E m \in 1..Len(h) : /\ r[j] = h[m] /\ m # i
                                   /\ m = IF j < i THEN j ELSE j + 1
  <2>1. CASE j < i
    BY <2>1, <1>3, <1>5, <1>6
  <2>2. CASE ~(j < i)
    <3>1. j + 1 \in 1..Len(h) /\ j + 1 # i /\ r[j] = h[j + 1]
      BY <2>2, <1>3, <1>5, <1>6
    <3> QED BY <3>1, <2>2
  <2> QED BY <2>1, <2>2
<1>11. ASSUME NEW m \in 1..Len(h), m # i PROVE h[m] \in Held(t)
  <2>1. CASE m < i
    <3>1. m \in 1..Len(r) /\ r[m] = h[m]
      BY <2>1, <1>3, <1>5, <1>6
    <3> QED BY <3>1, <1>8 DEF Held
  <2>2. CASE m > i
    <3>1. m - 1 \in 1..Len(r) /\ ~(m - 1 < i) /\ (m - 1) + 1 = m
      BY <2>2, <1>3, <1>5, <1>6
    <3>2. r[m - 1] = h[m]
      BY <3>1, <1>6
    <3> QED BY <3>1, <3>2, <1>8 DEF Held
  <2> QED BY <2>1, <2>2, <1>11, <1>5
<1>12. Held(t) = Held(s) \ {p}
  <2>1. Held(t) \subseteq Held(s) \ {p}
    <3>1. ASSUME NEW j \in 1..Len(r) PROVE r[j] \in Held(s) /\ r[j] # p
      <4>1. PICK m \in 1..Len(h) : r[j] = h[m] /\ m # i
        BY <1>10
      <4>2. h[m] # p
        BY <4>1, <1>5, <1>9 DEF NoDuplicate
      <4> QED BY <4>1, <4>2 DEF Held, h
    <3> QED BY <3>1, <1>8 DEF Held
  <2>2. Held(s) \ {p} \subseteq Held(t)
    <3>1. ASSUME NEW m \in 1..Len(h), h[m] # p PROVE h[m] \in Held(t)
      BY <3>1, <1>5, <1>11
    <3> QED BY <3>1 DEF Held, h
  <2> QED BY <2>1, <2>2
<1>13. NoDuplicate(r)
  <2>1. ASSUME NEW a \in 1..Len(r), NEW b \in 1..Len(r), r[a] = r[b]
        PROVE  a = b
    <3>1. PICK m \in 1..Len(h) : r[a] = h[m] /\ m = IF a < i THEN a ELSE a + 1
      BY <1>10
    <3>2. PICK k \in 1..Len(h) : r[b] = h[k] /\ k = IF b < i THEN b ELSE b + 1
      BY <1>10
    <3>3. m = k
      BY <3>1, <3>2, <2>1, <1>9 DEF NoDuplicate
    <3> QED BY <3>1, <3>2, <3>3, <1>5, <1>6, <1>3
  <2> QED BY <2>1 DEF NoDuplicate
<1> QED BY <1>6, <1>8, <1>12, <1>13 DEF t, h

\* get_min returns an accumulator of the range explored.
LEMMA GetMinType ==
  ASSUME NEW P, NEW lo \in Int, NEW hi \in Int, lo <= 0, 0 <= hi,
         NEW s \in SchedSet(P, lo, hi), NEW ac \in [P -> lo..hi]
  PROVE  GetMin(s, ac) \in lo..hi
<1>1. CASE s.pq = <<>>
  BY <1>1 DEF GetMin
<1>2. CASE s.pq # <<>> /\ s.rp = <<>>
  <2>1. MinEntry(s).key \in lo..hi
    BY <1>2, ExtractMinSpec
  <2> QED BY <1>2, <2>1 DEF GetMin
<1>3. CASE s.pq # <<>> /\ s.rp # <<>>
  <2> DEFINE h == s.rp
             T == {ac[h[i]] : i \in 1..Len(h)}
  <2>1. MinEntry(s).key \in lo..hi
    BY <1>3, ExtractMinSpec
  <2>2. h \in Seq(P) /\ h # <<>>
    BY <1>3 DEF SchedSet
  <2>3. \A i \in 1..Len(h) : ac[h[i]] \in lo..hi
    <3> HIDE DEF h
    <3> QED BY <2>2, ElementOfSeq
  <2>4. 1 \in 1..Len(h)
    <3> HIDE DEF h
    <3> QED BY <2>2, EmptySeq
  <2>5. T # {} /\ T \subseteq Int /\ \A x \in T : lo <= x
    <3> HIDE DEF h
    <3> QED BY <2>3, <2>4
  <2>6. PICK x \in T : \A y \in T : x <= y
    <3> HIDE DEF T
    <3> QED BY <2>5, IntMin
  <2>7. x \in T /\ \A i \in 1..Len(h) : x <= ac[h[i]]
    <3> HIDE DEF h
    <3> QED BY <2>6
  <2>8. MinHeld(s, ac) \in T
    BY <2>7 DEF MinHeld
  <2>9. MinHeld(s, ac) \in lo..hi
    <3> HIDE DEF h
    <3> QED BY <2>3, <2>8
  <2> QED BY <1>3, <2>1, <2>9 DEF GetMin
<1> QED BY <1>1, <1>2, <1>3

----------------------------------------------------------------------------
(* The process table *)

\* A process has code to run exactly when its slot is past fork and before
\* exit's last step.
DeadPc ==
  \A p \in Procs : pc[p] = "dead" <=> state[p] \in {"UNUSED", "EMBRYO", "ZOMBIE"}

\* The inductive invariant.  HeldRunning is what makes rpholder.add succeed and
\* rpholder.remove find its process; OneCpuPerProc keeps it, and rests on
\* EmbryoOwned, because fork writes the state of its np without the lock.
SchedInv ==
  /\ TypeOK
  /\ LinkPool
  /\ QueueSorted
  /\ HeldRunning
  /\ OneCpuPerProc
  /\ EmbryoOwned
  /\ DeadPc

LEMMA InitSchedInv == Init => SchedInv
<1> SUFFICES ASSUME Init PROVE SchedInv
  OBVIOUS
<1> USE ProcTableAssumption
<1> DEFINE s0 == InitSchedDS(NLINKS)
<1>1. /\ s0 \in SchedSet(Procs, MinAcc, MaxAcc)
      /\ s0.pq = <<>> /\ s0.rp = <<>> /\ s0.rrq = <<>> /\ s0.free = NLINKS
  BY DEF InitSchedDS, SchedSet
<1>2. CanPut(s0) /\ Sorted(s0) /\ 0 \in MinAcc..MaxAcc /\ initproc \in Procs
  BY <1>1 DEF CanPut, Sorted, Procs, initproc
<1> HIDE DEF s0
<1>3. /\ sq \in SchedSet(Procs, MinAcc, MaxAcc)
      /\ sq.rp = <<>> /\ sq.rrq = <<>> /\ sq.free = NLINKS - 1
      /\ Len(sq.pq) = 1 /\ Sorted(sq)
  <2>1. sq = Put(s0, initproc, 0)
    BY DEF Init, s0
  <2>2. /\ sq \in SchedSet(Procs, MinAcc, MaxAcc)
        /\ sq.rp = s0.rp /\ sq.rrq = s0.rrq /\ sq.free = s0.free - 1
        /\ Len(sq.pq) = Len(s0.pq) + 1 /\ Sorted(sq)
    <3>1. MinAcc \in Int /\ MaxAcc \in Int
      OBVIOUS
    <3>2. initproc \in Procs /\ 0 \in MinAcc..MaxAcc /\ CanPut(s0) /\ Sorted(s0)
      BY <1>2
    <3> DEFINE k == 0
    <3> HIDE DEF k
    <3>3. k \in MinAcc..MaxAcc /\ sq = Put(s0, initproc, k)
      BY <2>1, <3>2 DEF k
    <3>4. s0 \in SchedSet(Procs, MinAcc, MaxAcc)
      BY <1>1
    <3> QED BY ONLY <3>1, <3>2, <3>3, <3>4, PutSpec
  <2>3. Len(s0.pq) = 0
    BY <1>1
  <2> QED BY <2>2, <2>3, <1>1
<1>4. TypeOK
  BY <1>3 DEF Init, TypeOK, Procs, Chans, Accs, States, PCs, initproc,
     DefaultPriority
<1>5. LinkPool /\ QueueSorted
  BY <1>3 DEF LinkPool, LinksConserved, QueueSorted
<1>6. HeldRunning
  BY <1>3 DEF Init, HeldRunning, NoDuplicate, Held
<1>7. OneCpuPerProc /\ EmbryoOwned /\ DeadPc
  BY DEF Init, OneCpuPerProc, EmbryoOwned, DeadPc, Procs
<1> QED BY <1>4, <1>5, <1>6, <1>7 DEF SchedInv

\* A step that leaves the states, the CPUs and the queues alone, and no process
\* enters or leaves fork, is born or dies.
Quiet ==
  /\ state' = state /\ cpu' = cpu /\ sq' = sq /\ np' = np
  /\ \A p \in Procs :
       /\ pc'[p] = "dead" <=> pc[p] = "dead"
       /\ pc'[p] = "fork" <=> pc[p] = "fork"

LEMMA QuietStep ==
  ASSUME SchedInv, TypeOK', Quiet
  PROVE  SchedInv'
BY DEF Quiet, SchedInv, LinkPool, LinksConserved, QueueSorted, Sorted, HeldRunning,
   NoDuplicate, Held, OneCpuPerProc, EmbryoOwned, DeadPc

\* A process that is not RUNNING becomes ready: whether or not the put succeeds,
\* the structures stay sound and rpholder is as before.
LEMMA MakeReadySpec ==
  ASSUME SchedInv, NEW p \in Procs, MakeReady(p)
  PROVE  /\ sq' \in SchedSet(Procs, MinAcc, MaxAcc)
         /\ sq'.free <= NLINKS /\ sq'.rrq = <<>>
         /\ acc' \in [Procs -> Accs] /\ state' \in [Procs -> States]
         /\ LinkPool' /\ QueueSorted'
         /\ sq'.rp = sq.rp
<1> USE ProcTableAssumption
<1> DEFINE k == GetMin(sq, acc)
<1>1. /\ sq \in SchedSet(Procs, MinAcc, MaxAcc)
      /\ sq.free <= NLINKS /\ sq.rrq = <<>> /\ Sorted(sq)
      /\ LinksConserved(sq, NLINKS)
      /\ acc \in [Procs -> MinAcc..MaxAcc] /\ state \in [Procs -> States]
  BY DEF SchedInv, TypeOK, QueueSorted, LinkPool, Accs
<1>2. k \in MinAcc..MaxAcc
  BY <1>1, GetMinType
<1> HIDE DEF k
<1>3. /\ acc' = [acc EXCEPT ![p] = k]
      /\ state' = [state EXCEPT ![p] = "RUNNABLE"]
      /\ sq' = Put(sq, p, k)
  BY DEF MakeReady, k
<1>4. acc' \in [Procs -> Accs] /\ state' \in [Procs -> States]
  BY <1>1, <1>2, <1>3 DEF Accs, States
<1>5. /\ sq' \in SchedSet(Procs, MinAcc, MaxAcc)
      /\ LinksConserved(sq', NLINKS) /\ sq'.free <= NLINKS
      /\ sq'.rp = sq.rp /\ sq'.rrq = sq.rrq /\ Sorted(sq')
  BY <1>1, <1>2, <1>3, PutSound
<1> QED BY <1>1, <1>4, <1>5 DEF LinkPool, QueueSorted

\* A RUNNING process leaves the CPU: rpholder finds it and gives its link back.
LEMMA LeaveSpec ==
  ASSUME SchedInv, NEW p \in Procs, state[p] = "RUNNING"
  PROVE  LET t == RemoveHeld(sq, p) IN
         /\ t \in SchedSet(Procs, MinAcc, MaxAcc)
         /\ t.free = sq.free + 1 /\ t.free <= NLINKS /\ t.rrq = <<>>
         /\ t.pq = sq.pq /\ Sorted(t) /\ Queued(t) = Queued(sq)
         /\ LinksConserved(t, NLINKS)
         /\ NoDuplicate(t.rp) /\ Held(t) = Held(sq) \ {p}
<1> USE ProcTableAssumption
<1> DEFINE t == RemoveHeld(sq, p)
<1>1. /\ sq \in SchedSet(Procs, MinAcc, MaxAcc)
      /\ sq.free <= NLINKS /\ sq.rrq = <<>> /\ Sorted(sq)
      /\ LinksConserved(sq, NLINKS)
      /\ NoDuplicate(sq.rp) /\ p \in Held(sq)
  BY DEF SchedInv, TypeOK, QueueSorted, LinkPool, HeldRunning
<1>2. /\ t \in SchedSet(Procs, MinAcc, MaxAcc)
      /\ t.pq = sq.pq /\ t.rrq = sq.rrq /\ t.free = sq.free + 1
      /\ Len(t.rp) = Len(sq.rp) - 1 /\ Held(t) = Held(sq) \ {p}
      /\ NoDuplicate(t.rp)
  <2>1. MinAcc \in Int /\ MaxAcc \in Int
    OBVIOUS
  <2> QED BY ONLY <2>1, <1>1, RemoveHeldSpec
<1>3. /\ sq.free \in Nat /\ Len(sq.pq) \in Nat /\ Len(sq.rp) \in Nat
  BY <1>1, <1>2 DEF SchedSet
<1> HIDE DEF t
<1>4. LinksConserved(t, NLINKS) /\ t.free <= NLINKS
  BY <1>1, <1>2, LinksMove
<1>5. Sorted(t) /\ Queued(t) = Queued(sq)
  BY <1>1, <1>2 DEF Sorted, Queued
<1> QED BY <1>1, <1>2, <1>4, <1>5 DEF t

\* Every step keeps the invariant.
LEMMA NextSchedInv == SchedInv /\ [Next]_vars => SchedInv'
<1> SUFFICES ASSUME SchedInv, [Next]_vars PROVE SchedInv'
  OBVIOUS
<1> USE ProcTableAssumption
<1>0. TypeOK /\ initproc \in Procs /\ 0 \notin Procs
  BY DEF SchedInv, initproc, Procs
<1>1. CASE UNCHANGED vars
  <2>1. TypeOK'
    BY <1>0, <1>1 DEF TypeOK, vars
  <2>2. Quiet
    BY <1>1 DEF Quiet, vars
  <2> QED BY <2>1, <2>2, QuietStep
<1>2. SUFFICES ASSUME NEW c \in CPUs,
                      \/ Dispatch(c) \/ DropStale(c) \/ Yield(c)
                      \/ Syscall(c) \/ Sysret(c) \/ Fault(c)
                      \/ AllocProc(c) \/ AllocFull(c) \/ ForkFail(c)
                      \/ ForkFinish(c)
                      \/ WaitEnter(c) \/ WaitReap(c) \/ WaitReturn(c)
                      \/ WaitSleep(c)
                      \/ SleepOn(c) \/ Wakeup(c) \/ WakeOne(c) \/ WakeDone(c)
                      \/ ExitBegin(c) \/ ExitLock(c) \/ ExitReparent(c)
                      \/ ExitZombie(c)
                      \/ Kill(c) \/ Detach(c) \/ Priority(c)
               PROVE  SchedInv'
  BY <1>1 DEF Next
<1>3. CASE Syscall(c)
  <2>1. TypeOK'
    BY <1>0, <1>3 DEF TypeOK, PCs, Syscall, At
  <2>2. Quiet
    BY <1>0, <1>3 DEF TypeOK, Quiet, Syscall, At
  <2> QED BY <2>1, <2>2, QuietStep
<1>4. CASE Sysret(c)
  <2>1. TypeOK'
    BY <1>0, <1>4 DEF TypeOK, PCs, Sysret, At
  <2>2. Quiet
    BY <1>0, <1>4 DEF TypeOK, Quiet, Sysret, At
  <2> QED BY <2>1, <2>2, QuietStep
<1>5. CASE Fault(c)
  <2>1. TypeOK'
    BY <1>0, <1>5 DEF TypeOK, PCs, Fault, At
  <2>2. Quiet
    BY <1>0, <1>5 DEF TypeOK, Quiet, Fault, At
  <2> QED BY <2>1, <2>2, QuietStep
<1>6. CASE AllocFull(c)
  <2>1. TypeOK'
    BY <1>0, <1>6 DEF TypeOK, PCs, AllocFull, At, Unused
  <2>2. Quiet
    BY <1>0, <1>6 DEF TypeOK, Quiet, AllocFull, At, Unused
  <2> QED BY <2>1, <2>2, QuietStep
<1>7. CASE WaitEnter(c)
  <2>1. TypeOK'
    BY <1>0, <1>7 DEF TypeOK, PCs, WaitEnter, At
  <2>2. Quiet
    BY <1>0, <1>7 DEF TypeOK, Quiet, WaitEnter, At
  <2> QED BY <2>1, <2>2, QuietStep
<1>8. CASE WaitReturn(c)
  <2>1. TypeOK'
    BY <1>0, <1>8 DEF TypeOK, PCs, WaitReturn, At, Children, Zombies
  <2>2. Quiet
    BY <1>0, <1>8 DEF TypeOK, Quiet, WaitReturn, At, Children, Zombies
  <2> QED BY <2>1, <2>2, QuietStep
<1>9. CASE Wakeup(c)
  <2>1. TypeOK'
    BY <1>0, <1>9 DEF TypeOK, PCs, Wakeup, Chans
  <2>2. Quiet
    BY <1>0, <1>9 DEF TypeOK, Quiet, Wakeup, Chans
  <2> QED BY <2>1, <2>2, QuietStep
<1>10. CASE WakeDone(c)
  <2>1. TypeOK'
    BY <1>0, <1>10 DEF TypeOK, PCs, WakeDone, Sleepers, InExit
  <2>2. Quiet
    BY <1>0, <1>10 DEF TypeOK, Quiet, WakeDone, Sleepers, InExit
  <2> QED BY <2>1, <2>2, QuietStep
<1>11. CASE ExitBegin(c)
  <2>1. TypeOK'
    BY <1>0, <1>11, SMTT(30) DEF TypeOK, PCs, ExitBegin, At
  <2>2. Quiet
    BY <1>0, <1>11 DEF TypeOK, Quiet, ExitBegin, At
  <2> QED BY <2>1, <2>2, QuietStep
<1>12. CASE ExitLock(c)
  <2>1. TypeOK'
    BY <1>0, <1>12 DEF TypeOK, PCs, ExitLock, At
  <2>2. Quiet
    BY <1>0, <1>12 DEF TypeOK, Quiet, ExitLock, At
  <2> QED BY <2>1, <2>2, QuietStep
<1>13. CASE ExitReparent(c)
  <2>1. TypeOK'
    <3>1. PICK q \in Procs :
            /\ parent' = [parent EXCEPT ![q] = initproc]
            /\ waking' = IF state[q] = "ZOMBIE" THEN initproc ELSE 0
      BY <1>13 DEF ExitReparent, Children
    <3> QED BY <3>1, <1>0, <1>13 DEF TypeOK, ExitReparent
  <2>2. Quiet
    BY <1>0, <1>13 DEF TypeOK, Quiet, ExitReparent, At, Children
  <2> QED BY <2>1, <2>2, QuietStep
<1>14. CASE Detach(c)
  <2>1. TypeOK'
    BY <1>0, <1>14 DEF TypeOK, PCs, Detach, At, Children
  <2>2. Quiet
    BY <1>0, <1>14 DEF TypeOK, Quiet, Detach, At, Children
  <2> QED BY <2>1, <2>2, QuietStep
<1>15. CASE Priority(c)
  <2>1. TypeOK'
    BY <1>0, <1>15 DEF TypeOK, PCs, Priority, At
  <2>2. Quiet
    BY <1>0, <1>15 DEF TypeOK, Quiet, Priority, At
  <2> QED BY <2>1, <2>2, QuietStep
<1>16. CASE Dispatch(c)
  <2> DEFINE p == MinEntry(sq).proc
             t == ExtractMin(sq)
  <2>1. /\ sq \in SchedSet(Procs, MinAcc, MaxAcc) /\ sq.pq # <<>>
        /\ sq.free <= NLINKS /\ sq.rrq = <<>> /\ Sorted(sq)
        /\ LinksConserved(sq, NLINKS) /\ NoDuplicate(sq.rp)
        /\ Held(sq) = {q \in Procs : state[q] = "RUNNING"}
    BY <1>0, <1>16 DEF SchedInv, TypeOK, QueueSorted, LinkPool, HeldRunning, Dispatch
  <2>2. /\ p \in Procs /\ t \in SchedSet(Procs, MinAcc, MaxAcc)
        /\ t.rp = sq.rp /\ t.rrq = sq.rrq /\ t.free = sq.free + 1
        /\ Len(t.pq) = Len(sq.pq) - 1 /\ Sorted(t)
    BY <2>1, ExtractMinSpec
  <2>3. /\ cpu[c] = 0 /\ state[p] = "RUNNABLE"
        /\ cpu' = [cpu EXCEPT ![c] = p]
        /\ state' = [state EXCEPT ![p] = "RUNNING"]
        /\ sq' = AddHeld(t, p)
        /\ chan' = [chan EXCEPT ![p] = 0]
        /\ lock' = IF pc[p] = "wait" THEN c ELSE NoCpu
        /\ UNCHANGED <<pid, parent, killed, prio, acc, nextpid, waking, pc, np>>
    BY <1>16 DEF Dispatch
  <2> HIDE DEF p, t
  <2>4. LinksConserved(t, NLINKS) /\ CanPut(t)
    <3>1. LinksConserved(t, NLINKS)
      BY <2>1, <2>2, LinksMove
    <3>2. sq.free \in Nat
      BY <2>1 DEF SchedSet
    <3> QED BY <3>1, <3>2, <2>2 DEF CanPut
  <2>5. Held(t) = Held(sq) /\ NoDuplicate(t.rp) /\ p \notin Held(t)
    <3>1. Held(t) = Held(sq) /\ NoDuplicate(t.rp)
      BY <2>1, <2>2 DEF Held
    <3> QED BY <3>1, <2>1, <2>3
  <2>6. /\ sq' \in SchedSet(Procs, MinAcc, MaxAcc)
        /\ sq'.pq = t.pq /\ sq'.rrq = t.rrq /\ sq'.free = t.free - 1
        /\ Len(sq'.rp) = Len(t.rp) + 1 /\ Held(sq') = Held(t) \cup {p}
        /\ NoDuplicate(sq'.rp)
    BY <2>2, <2>3, <2>4, <2>5, AddHeldSpec
  <2>7. LinksConserved(sq', NLINKS) /\ sq'.free <= NLINKS
    BY <2>2, <2>4, <2>6, LinksMove
  <2>8. TypeOK'
    BY <1>0, <2>1, <2>2, <2>3, <2>6, <2>7 DEF TypeOK, States
  <2>9. Sorted(sq')
    BY <2>2, <2>6 DEF Sorted
  <2>10. HeldRunning'
    <3>1. Held(sq') = {q \in Procs : state'[q] = "RUNNING"}
      BY <1>0, <2>1, <2>2, <2>3, <2>5, <2>6, SMTT(30) DEF TypeOK
    <3> QED BY <3>1, <2>6 DEF HeldRunning
  <2>11. OneCpuPerProc'
    <3>1. \A d \in CPUs : cpu[d] # p
      BY <2>2, <2>3 DEF SchedInv, OneCpuPerProc
    <3> QED BY <3>1, <1>0, <2>2, <2>3 DEF TypeOK, SchedInv, OneCpuPerProc, Procs
  <2>12. EmbryoOwned' /\ DeadPc'
    <3>1. EmbryoOwned'
      BY <1>0, <2>2, <2>3 DEF TypeOK, SchedInv, EmbryoOwned
    <3>2. DeadPc'
      BY <1>0, <2>2, <2>3 DEF TypeOK, SchedInv, DeadPc
    <3> QED BY <3>1, <3>2
  <2> QED BY <2>7, <2>8, <2>9, <2>10, <2>11, <2>12
          DEF SchedInv, LinkPool, QueueSorted
<1>17. CASE DropStale(c)
  <2> DEFINE t == ExtractMin(sq)
  <2>1. /\ sq \in SchedSet(Procs, MinAcc, MaxAcc) /\ sq.pq # <<>>
        /\ sq.rrq = <<>> /\ Sorted(sq) /\ LinksConserved(sq, NLINKS)
    BY <1>0, <1>17 DEF SchedInv, TypeOK, QueueSorted, LinkPool, DropStale
  <2>2. /\ t \in SchedSet(Procs, MinAcc, MaxAcc)
        /\ t.rp = sq.rp /\ t.rrq = sq.rrq /\ t.free = sq.free + 1
        /\ Len(t.pq) = Len(sq.pq) - 1 /\ Sorted(t)
    BY <2>1, ExtractMinSpec
  <2>3. /\ sq' = t
        /\ UNCHANGED <<state, pid, parent, chan, killed, prio, acc, nextpid, lock,
                       cpu, waking, pc, np>>
    BY <1>17 DEF DropStale
  <2> HIDE DEF t
  <2>4. LinksConserved(t, NLINKS) /\ t.free <= NLINKS
    BY <2>1, <2>2, LinksMove
  <2>5. TypeOK'
    BY <1>0, <2>1, <2>2, <2>3, <2>4 DEF TypeOK
  <2>6. HeldRunning'
    BY <2>2, <2>3 DEF SchedInv, HeldRunning, Held
  <2>7. OneCpuPerProc' /\ EmbryoOwned' /\ DeadPc'
    BY <2>3 DEF SchedInv, OneCpuPerProc, EmbryoOwned, DeadPc
  <2> QED BY <2>2, <2>3, <2>4, <2>5, <2>6, <2>7 DEF SchedInv, LinkPool, QueueSorted
<1>18. CASE Yield(c)
  <2>1. PICK p \in Procs :
          /\ cpu[c] = p /\ state[p] = "RUNNING" /\ acc[p] + prio[p] \in Accs
          /\ state' = [state EXCEPT ![p] = "RUNNABLE"]
          /\ acc' = [acc EXCEPT ![p] = acc[p] + prio[p]]
          /\ sq' = Put(Put(RemoveHeld(sq, p), p, acc[p]), p, acc[p] + prio[p])
    BY <1>18 DEF Yield
  <2>2. /\ cpu' = [cpu EXCEPT ![c] = 0]
        /\ UNCHANGED <<pid, parent, chan, killed, prio, nextpid, lock, waking, pc,
                       np>>
    BY <1>18 DEF Yield
  <2> DEFINE t == RemoveHeld(sq, p)
             u == Put(t, p, acc[p])
  <2>3. /\ t \in SchedSet(Procs, MinAcc, MaxAcc)
        /\ t.rrq = <<>> /\ Sorted(t) /\ LinksConserved(t, NLINKS)
        /\ NoDuplicate(t.rp) /\ Held(t) = Held(sq) \ {p}
    BY <2>1, LeaveSpec
  <2>4. acc[p] \in MinAcc..MaxAcc /\ acc[p] + prio[p] \in MinAcc..MaxAcc
    BY <1>0, <2>1 DEF TypeOK, Accs
  <2> HIDE DEF t
  <2>5. /\ u \in SchedSet(Procs, MinAcc, MaxAcc)
        /\ LinksConserved(u, NLINKS) /\ Sorted(u) /\ u.rp = t.rp /\ u.rrq = t.rrq
    BY <2>3, <2>4, PutSound
  <2> HIDE DEF u
  <2>6. /\ sq' \in SchedSet(Procs, MinAcc, MaxAcc)
        /\ LinksConserved(sq', NLINKS) /\ sq'.free <= NLINKS /\ Sorted(sq')
        /\ sq'.rp = u.rp /\ sq'.rrq = u.rrq
    <3>1. sq' = Put(u, p, acc[p] + prio[p])
      BY <2>1 DEF u, t
    <3> QED BY <3>1, <2>4, <2>5, PutSound
  <2>7. TypeOK'
    BY <1>0, <2>1, <2>2, <2>3, <2>5, <2>6 DEF TypeOK, States
  <2>8. HeldRunning'
    <3>1. Held(sq') = Held(sq) \ {p} /\ NoDuplicate(sq'.rp)
      BY <2>3, <2>5, <2>6 DEF Held
    <3> QED BY <3>1, <1>0, <2>1 DEF TypeOK, SchedInv, HeldRunning
  <2>9. OneCpuPerProc'
    BY <1>0, <2>1, <2>2 DEF TypeOK, SchedInv, OneCpuPerProc, Procs
  <2>10. EmbryoOwned' /\ DeadPc'
    <3>1. EmbryoOwned'
      BY <1>0, <2>1, <2>2 DEF TypeOK, SchedInv, EmbryoOwned
    <3>2. DeadPc'
      BY <1>0, <2>1, <2>2 DEF TypeOK, SchedInv, DeadPc
    <3> QED BY <3>1, <3>2
  <2> QED BY <2>6, <2>7, <2>8, <2>9, <2>10 DEF SchedInv, LinkPool, QueueSorted
<1>19. CASE AllocProc(c)
  <2>1. PICK p \in Procs, q \in Procs :
          /\ cpu[c] = p /\ pc[p] = "kern" /\ state[q] = "UNUSED"
          /\ state' = [state EXCEPT ![q] = "EMBRYO"]
          /\ pid' = [pid EXCEPT ![q] = nextpid]
          /\ np' = [np EXCEPT ![p] = q]
          /\ pc' = [pc EXCEPT ![p] = "fork"]
    BY <1>19 DEF AllocProc, At, Unused
  <2>2. /\ nextpid <= MaxPid /\ nextpid' = nextpid + 1
        /\ UNCHANGED <<parent, chan, killed, prio, acc, lock, cpu, sq, waking>>
    BY <1>19 DEF AllocProc
  <2>3. TypeOK'
    <3>1. nextpid \in 0..MaxPid /\ nextpid' \in 2..(MaxPid + 1)
      BY <1>0, <2>2 DEF TypeOK
    <3>2. pid' \in [Procs -> 0..MaxPid]
      BY <3>1, <1>0, <2>1 DEF TypeOK
    <3>3. /\ state' \in [Procs -> States] /\ pc' \in [Procs -> PCs]
          /\ np' \in [Procs -> Procs \cup {0}]
      BY <1>0, <2>1 DEF TypeOK, States, PCs
    <3> QED BY <3>1, <3>2, <3>3, <1>0, <2>2 DEF TypeOK
  <2>4. LinkPool' /\ QueueSorted'
    BY <2>2 DEF SchedInv, LinkPool, QueueSorted
  <2>5. HeldRunning' /\ OneCpuPerProc'
    <3>1. HeldRunning'
      BY <1>0, <2>1, <2>2 DEF TypeOK, SchedInv, HeldRunning
    <3>2. OneCpuPerProc'
      BY <1>0, <2>1, <2>2 DEF TypeOK, SchedInv, OneCpuPerProc
    <3> QED BY <3>1, <3>2
  <2>6. EmbryoOwned'
    <3>1. np[p] = 0 /\ \A r \in Procs : np[r] # q
      BY <1>0, <2>1 DEF TypeOK, SchedInv, EmbryoOwned
    <3>2. \A r \in Procs : np'[r] = IF r = p THEN q ELSE np[r]
      BY <1>0, <2>1 DEF TypeOK
    <3>3. \A r \in Procs : pc'[r] = "fork" <=> np'[r] # 0
      BY <3>2, <1>0, <2>1 DEF TypeOK, SchedInv, EmbryoOwned
    <3>4. \A r, v \in Procs : np'[r] # 0 /\ np'[r] = np'[v] => r = v
      BY <3>1, <3>2 DEF SchedInv, EmbryoOwned
    <3>5. ASSUME NEW v \in Procs
          PROVE  state'[v] = "EMBRYO" <=> \E r \in Procs : np'[r] = v
      <4>1. CASE v = q
        BY <4>1, <3>2, <1>0, <2>1 DEF TypeOK
      <4>2. CASE v # q
        <5>1. state'[v] = state[v]
          BY <4>2, <1>0, <2>1 DEF TypeOK
        <5>2. (\E r \in Procs : np'[r] = v) <=> (\E r \in Procs : np[r] = v)
          BY <4>2, <3>1, <3>2, <1>0
        <5> QED BY <5>1, <5>2 DEF SchedInv, EmbryoOwned
      <4> QED BY <4>1, <4>2
    <3> QED BY <3>3, <3>4, <3>5 DEF EmbryoOwned
  <2>7. DeadPc'
    BY <1>0, <2>1, <2>2 DEF TypeOK, SchedInv, DeadPc
  <2> QED BY <2>3, <2>4, <2>5, <2>6, <2>7 DEF SchedInv
<1>20. CASE ForkFail(c)
  <2>1. PICK p \in Procs :
          /\ cpu[c] = p /\ pc[p] = "fork"
          /\ state' = [state EXCEPT ![np[p]] = "UNUSED"]
          /\ pc' = [pc EXCEPT ![p] = "ret"]
          /\ np' = [np EXCEPT ![p] = 0]
    BY <1>20 DEF ForkFail, At
  <2>2. UNCHANGED <<pid, parent, chan, killed, prio, acc, nextpid, lock, cpu, sq,
                    waking>>
    BY <1>20 DEF ForkFail
  <2>3. np[p] \in Procs /\ state[np[p]] = "EMBRYO"
    BY <1>0, <2>1 DEF TypeOK, SchedInv, EmbryoOwned
  <2>4. TypeOK'
    BY <1>0, <2>1, <2>2, <2>3 DEF TypeOK, States, PCs
  <2>5. LinkPool' /\ QueueSorted'
    BY <2>2 DEF SchedInv, LinkPool, QueueSorted
  <2>6. HeldRunning' /\ OneCpuPerProc'
    <3>1. HeldRunning'
      BY <1>0, <2>1, <2>2, <2>3 DEF TypeOK, SchedInv, HeldRunning
    <3>2. OneCpuPerProc'
      BY <1>0, <2>1, <2>2, <2>3 DEF TypeOK, SchedInv, OneCpuPerProc
    <3> QED BY <3>1, <3>2
  <2>7. EmbryoOwned'
    BY <1>0, <2>1, <2>2, <2>3, SMTT(30) DEF TypeOK, SchedInv, EmbryoOwned, Procs
  <2>8. DeadPc'
    BY <1>0, <2>1, <2>2, <2>3 DEF TypeOK, SchedInv, DeadPc
  <2> QED BY <2>4, <2>5, <2>6, <2>7, <2>8 DEF SchedInv
<1>21. CASE ForkFinish(c)
  <2>1. PICK p \in Procs :
          /\ cpu[c] = p /\ pc[p] = "fork"
          /\ parent' = [parent EXCEPT ![np[p]] = p]
          /\ prio' = [prio EXCEPT ![np[p]] = DefaultPriority]
          /\ MakeReady(np[p])
          /\ pc' = [pc EXCEPT ![p] = "ret", ![np[p]] = "user"]
          /\ np' = [np EXCEPT ![p] = 0]
    BY <1>21 DEF ForkFinish, At
  <2>2. UNCHANGED <<pid, chan, killed, nextpid, lock, cpu, waking>>
    BY <1>21 DEF ForkFinish
  <2> DEFINE q == np[p]
  <2>3. q \in Procs /\ state[q] = "EMBRYO" /\ pc[q] = "dead" /\ p # q
    BY <1>0, <2>1 DEF TypeOK, SchedInv, EmbryoOwned, DeadPc
  <2>4. state' = [state EXCEPT ![q] = "RUNNABLE"]
    BY <2>1 DEF MakeReady
  <2>5. /\ sq' \in SchedSet(Procs, MinAcc, MaxAcc)
        /\ sq'.free <= NLINKS /\ sq'.rrq = <<>>
        /\ acc' \in [Procs -> Accs] /\ state' \in [Procs -> States]
        /\ LinkPool' /\ QueueSorted' /\ sq'.rp = sq.rp
    BY <2>1, <2>3, MakeReadySpec
  <2>6. TypeOK'
    <3>1. pc' \in [Procs -> PCs]
      BY <1>0, <2>1, <2>3 DEF TypeOK, PCs
    <3>2. prio' \in [Procs -> Int]
      BY <1>0, <2>1, <2>3 DEF TypeOK, DefaultPriority
    <3>3. /\ parent' \in [Procs -> Procs \cup {0}]
          /\ np' \in [Procs -> Procs \cup {0}]
      BY <1>0, <2>1, <2>3 DEF TypeOK
    <3> QED BY <3>1, <3>2, <3>3, <1>0, <2>2, <2>5 DEF TypeOK
  <2>7. HeldRunning'
    <3>1. Held(sq') = Held(sq) /\ NoDuplicate(sq'.rp)
      BY <2>5 DEF Held, SchedInv, HeldRunning
    <3> QED BY <3>1, <1>0, <2>3, <2>4 DEF TypeOK, SchedInv, HeldRunning
  <2>8. OneCpuPerProc'
    BY <1>0, <2>2, <2>3, <2>4 DEF TypeOK, SchedInv, OneCpuPerProc
  <2>9. EmbryoOwned' /\ DeadPc'
    <3>1. /\ pc'[p] = "ret" /\ pc'[q] = "user"
          /\ \A r \in Procs : r # p /\ r # q => pc'[r] = pc[r]
      BY <1>0, <2>1, <2>3 DEF TypeOK
    <3>2. DeadPc'
      BY <3>1, <1>0, <2>1, <2>3, <2>4 DEF TypeOK, SchedInv, DeadPc, OneCpuPerProc
    <3>3. np[q] = 0
      BY <1>0, <2>3 DEF TypeOK, SchedInv, EmbryoOwned
    <3>4. \A r \in Procs : pc'[r] = "fork" <=> np'[r] # 0
      BY <3>1, <3>3, <1>0, <2>1, <2>3 DEF TypeOK, SchedInv, EmbryoOwned
    <3>5. \A r \in Procs : np'[r] = IF r = p THEN 0 ELSE np[r]
      BY <1>0, <2>1 DEF TypeOK
    <3>6. \A r, v \in Procs : np'[r] # 0 /\ np'[r] = np'[v] => r = v
      BY <3>5 DEF SchedInv, EmbryoOwned
    <3>7. ASSUME NEW v \in Procs
          PROVE  state'[v] = "EMBRYO" <=> \E r \in Procs : np'[r] = v
      <4>1. CASE v = q
        <5>1. \A r \in Procs : np[r] = q => r = p
          BY <2>3, <1>0 DEF SchedInv, EmbryoOwned
        <5>2. \A r \in Procs : np'[r] # q
          BY <5>1, <3>5, <1>0, <2>3
        <5> QED BY <4>1, <5>2, <1>0, <2>3, <2>4 DEF TypeOK
      <4>2. CASE v # q
        <5>1. state'[v] = state[v]
          BY <4>2, <1>0, <2>3, <2>4 DEF TypeOK
        <5>2. (\E r \in Procs : np'[r] = v) <=> (\E r \in Procs : np[r] = v)
          BY <4>2, <3>5, <1>0
        <5> QED BY <5>1, <5>2 DEF SchedInv, EmbryoOwned
      <4> QED BY <4>1, <4>2
    <3> QED BY <3>2, <3>4, <3>6, <3>7 DEF EmbryoOwned
  <2> QED BY <2>5, <2>6, <2>7, <2>8, <2>9 DEF SchedInv
<1>22. CASE WaitReap(c)
  <2>1. PICK p \in Procs, q \in Procs :
          /\ cpu[c] = p /\ pc[p] = "wait" /\ state[q] = "ZOMBIE"
          /\ pid' = [pid EXCEPT ![q] = 0]
          /\ parent' = [parent EXCEPT ![q] = 0]
          /\ killed' = [killed EXCEPT ![q] = FALSE]
          /\ state' = [state EXCEPT ![q] = "UNUSED"]
          /\ pc' = [pc EXCEPT ![p] = "ret"]
    BY <1>22 DEF WaitReap, At, Zombies, Children
  <2>2. lock' = NoCpu /\ UNCHANGED <<chan, prio, acc, nextpid, cpu, sq, waking, np>>
    BY <1>22 DEF WaitReap
  <2>3. TypeOK'
    BY <1>0, <2>1, <2>2 DEF TypeOK, States, PCs
  <2>4. LinkPool' /\ QueueSorted'
    BY <2>2 DEF SchedInv, LinkPool, QueueSorted
  <2>5. HeldRunning' /\ OneCpuPerProc'
    <3>1. HeldRunning'
      BY <1>0, <2>1, <2>2 DEF TypeOK, SchedInv, HeldRunning
    <3>2. OneCpuPerProc'
      BY <1>0, <2>1, <2>2 DEF TypeOK, SchedInv, OneCpuPerProc
    <3> QED BY <3>1, <3>2
  <2>6. EmbryoOwned' /\ DeadPc'
    <3>1. EmbryoOwned'
      BY <1>0, <2>1, <2>2 DEF TypeOK, SchedInv, EmbryoOwned
    <3>2. DeadPc'
      BY <1>0, <2>1, <2>2 DEF TypeOK, SchedInv, DeadPc
    <3> QED BY <3>1, <3>2
  <2> QED BY <2>3, <2>4, <2>5, <2>6 DEF SchedInv
<1>23. ASSUME NEW p \in Procs, NEW ch \in Procs \cup Chans, cpu[c] = p,
              GoToSleep(c, p, ch),
              UNCHANGED <<pid, parent, killed, prio, acc, nextpid, waking, pc, np>>
       PROVE  SchedInv'
  <2>1. state[p] = "RUNNING"
    BY <1>23 DEF SchedInv, OneCpuPerProc
  <2>2. /\ sq' \in SchedSet(Procs, MinAcc, MaxAcc)
        /\ sq'.free <= NLINKS /\ sq'.rrq = <<>> /\ Sorted(sq')
        /\ LinksConserved(sq', NLINKS)
        /\ NoDuplicate(sq'.rp) /\ Held(sq') = Held(sq) \ {p}
    BY <1>23, <2>1, LeaveSpec DEF GoToSleep
  <2>3. /\ chan' = [chan EXCEPT ![p] = ch]
        /\ state' = [state EXCEPT ![p] = "SLEEPING"]
        /\ cpu' = [cpu EXCEPT ![c] = 0] /\ lock' = NoCpu
    BY <1>23 DEF GoToSleep
  <2>4. TypeOK'
    BY <1>0, <1>23, <2>2, <2>3 DEF TypeOK, States
  <2>5. HeldRunning'
    BY <1>0, <2>2, <2>3 DEF TypeOK, SchedInv, HeldRunning
  <2>6. OneCpuPerProc'
    BY <1>0, <1>23, <2>3, SMTT(30) DEF TypeOK, SchedInv, OneCpuPerProc, Procs
  <2>7. EmbryoOwned' /\ DeadPc'
    <3>1. EmbryoOwned'
      BY <1>0, <1>23, <2>1, <2>3 DEF TypeOK, SchedInv, EmbryoOwned
    <3>2. DeadPc'
      BY <1>0, <1>23, <2>1, <2>3 DEF TypeOK, SchedInv, DeadPc
    <3> QED BY <3>1, <3>2
  <2> QED BY <2>2, <2>4, <2>5, <2>6, <2>7 DEF SchedInv, LinkPool, QueueSorted
<1>24. CASE WaitSleep(c)
  BY <1>24, <1>23 DEF WaitSleep, At
<1>25. CASE SleepOn(c)
  BY <1>25, <1>23 DEF SleepOn, At
<1>26. ASSUME NEW p \in Procs, state[p] = "SLEEPING", MakeReady(p), TypeOK',
              cpu' = cpu, np' = np,
              \A q \in Procs : /\ pc'[q] = "dead" <=> pc[q] = "dead"
                               /\ pc'[q] = "fork" <=> pc[q] = "fork"
       PROVE  SchedInv'
  <2>1. LinkPool' /\ QueueSorted' /\ sq'.rp = sq.rp
    BY <1>26, MakeReadySpec
  <2>2. state' = [state EXCEPT ![p] = "RUNNABLE"]
    BY <1>26 DEF MakeReady
  <2>3. HeldRunning'
    <3>1. Held(sq') = Held(sq) /\ NoDuplicate(sq'.rp)
      BY <2>1 DEF Held, SchedInv, HeldRunning
    <3> QED BY <3>1, <1>0, <1>26, <2>2 DEF TypeOK, SchedInv, HeldRunning
  <2>4. OneCpuPerProc'
    BY <1>0, <1>26, <2>2, SMTT(30) DEF TypeOK, SchedInv, OneCpuPerProc
  <2>5. EmbryoOwned'
    <3>1. \A q \in Procs : state'[q] = "EMBRYO" <=> state[q] = "EMBRYO"
      BY <1>0, <1>26, <2>2 DEF TypeOK
    <3> QED BY <3>1, <1>26 DEF SchedInv, EmbryoOwned
  <2>6. DeadPc'
    BY <1>0, <1>26, <2>2 DEF TypeOK, SchedInv, DeadPc
  <2> QED BY <1>26, <2>1, <2>3, <2>4, <2>5, <2>6 DEF SchedInv
<1>27. CASE WakeOne(c)
  <2>1. PICK p \in Procs : state[p] = "SLEEPING" /\ MakeReady(p)
    BY <1>27 DEF WakeOne, Sleepers
  <2>2. UNCHANGED <<pid, parent, chan, killed, prio, nextpid, lock, cpu, waking, pc,
                    np>>
    BY <1>27 DEF WakeOne
  <2>3. TypeOK'
    <3>1. /\ sq' \in SchedSet(Procs, MinAcc, MaxAcc)
          /\ sq'.free <= NLINKS /\ sq'.rrq = <<>>
          /\ acc' \in [Procs -> Accs] /\ state' \in [Procs -> States]
      BY <2>1, MakeReadySpec
    <3> QED BY <3>1, <1>0, <2>2 DEF TypeOK
  <2> QED BY <2>1, <2>2, <2>3, <1>26
<1>28. CASE ExitZombie(c)
  <2>1. PICK p \in Procs :
          /\ cpu[c] = p /\ pc[p] = "exit"
          /\ state' = [state EXCEPT ![p] = "ZOMBIE"]
          /\ sq' = RemoveHeld(sq, p)
          /\ pc' = [pc EXCEPT ![p] = "dead"]
    BY <1>28 DEF ExitZombie, At
  <2>2. /\ cpu' = [cpu EXCEPT ![c] = 0] /\ lock' = NoCpu
        /\ UNCHANGED <<pid, parent, chan, killed, prio, acc, nextpid, waking, np>>
    BY <1>28 DEF ExitZombie
  <2>3. state[p] = "RUNNING"
    BY <2>1 DEF SchedInv, OneCpuPerProc
  <2>4. /\ sq' \in SchedSet(Procs, MinAcc, MaxAcc)
        /\ sq'.free <= NLINKS /\ sq'.rrq = <<>> /\ Sorted(sq')
        /\ LinksConserved(sq', NLINKS)
        /\ NoDuplicate(sq'.rp) /\ Held(sq') = Held(sq) \ {p}
    BY <2>1, <2>3, LeaveSpec
  <2>5. TypeOK'
    BY <1>0, <2>1, <2>2, <2>4 DEF TypeOK, States, PCs
  <2>6. HeldRunning'
    BY <1>0, <2>1, <2>4 DEF TypeOK, SchedInv, HeldRunning
  <2>7. OneCpuPerProc'
    BY <1>0, <2>1, <2>2, SMTT(30) DEF TypeOK, SchedInv, OneCpuPerProc
  <2>8. EmbryoOwned' /\ DeadPc'
    <3>1. EmbryoOwned'
      BY <1>0, <2>1, <2>2, <2>3 DEF TypeOK, SchedInv, EmbryoOwned
    <3>2. DeadPc'
      BY <1>0, <2>1, <2>2, <2>3 DEF TypeOK, SchedInv, DeadPc
    <3> QED BY <3>1, <3>2
  <2> QED BY <2>4, <2>5, <2>6, <2>7, <2>8 DEF SchedInv, LinkPool, QueueSorted
<1>29. CASE Kill(c)
  <2>1. PICK p \in Procs, q \in Procs :
          /\ cpu[c] = p /\ pc[p] = "kern"
          /\ killed' = [killed EXCEPT ![q] = TRUE]
          /\ IF state[q] = "SLEEPING" THEN MakeReady(q) ELSE UNCHANGED <<state, acc, sq>>
          /\ pc' = [pc EXCEPT ![p] = "ret"]
    BY <1>29 DEF Kill, At
  <2>2. UNCHANGED <<pid, parent, chan, prio, nextpid, lock, cpu, waking, np>>
    BY <1>29 DEF Kill
  <2>3. \A r \in Procs : /\ pc'[r] = "dead" <=> pc[r] = "dead"
                         /\ pc'[r] = "fork" <=> pc[r] = "fork"
    BY <1>0, <2>1 DEF TypeOK
  <2>4. /\ killed' \in [Procs -> BOOLEAN] /\ pc' \in [Procs -> PCs]
    BY <1>0, <2>1 DEF TypeOK, PCs
  <2>5. CASE state[q] = "SLEEPING"
    <3>1. MakeReady(q)
      BY <2>1, <2>5
    <3>2. TypeOK'
      <4>1. /\ sq' \in SchedSet(Procs, MinAcc, MaxAcc)
            /\ sq'.free <= NLINKS /\ sq'.rrq = <<>>
            /\ acc' \in [Procs -> Accs] /\ state' \in [Procs -> States]
        BY <3>1, MakeReadySpec
      <4> QED BY <4>1, <1>0, <2>2, <2>4 DEF TypeOK
    <3> QED BY <3>1, <3>2, <2>2, <2>3, <2>5, <1>26
  <2>6. CASE state[q] # "SLEEPING"
    <3>1. UNCHANGED <<state, acc, sq>>
      BY <2>1, <2>6
    <3>2. TypeOK'
      BY <3>1, <1>0, <2>2, <2>4 DEF TypeOK
    <3>3. Quiet
      BY <3>1, <2>2, <2>3 DEF Quiet
    <3> QED BY <3>2, <3>3, QuietStep
  <2> QED BY <2>5, <2>6
<1> QED BY <1>2, <1>3, <1>4, <1>5, <1>6, <1>7, <1>8, <1>9, <1>10, <1>11, <1>12,
           <1>13, <1>14, <1>15, <1>16, <1>17, <1>18, <1>19, <1>20, <1>21, <1>22,
           <1>24, <1>25, <1>27, <1>28, <1>29

\* The invariant holds in every reachable state.
THEOREM SchedSafety == Spec => []SchedInv
BY InitSchedInv, NextSchedInv, PTL DEF Spec

\* Type correctness.
THEOREM TypeCorrect == Spec => []TypeOK
<1>1. SchedInv => TypeOK
  BY DEF SchedInv
<1> QED BY <1>1, SchedSafety, PTL

\* No process is ever on two CPUs, whatever stale entries pq holds: the check of
\* the state in Priority_Scheduler suffices, for any number of CPUs.
THEOREM NoDoubleRun == Spec => []OneCpuPerProc
<1>1. SchedInv => OneCpuPerProc
  BY DEF SchedInv
<1> QED BY <1>1, SchedSafety, PTL

\* rpholder holds exactly the RUNNING processes: rpholder.add in
\* Priority_Scheduler never fails, although pq.put may.
THEOREM HolderExact == Spec => []HeldRunning
<1>1. SchedInv => HeldRunning
  BY DEF SchedInv
<1> QED BY <1>1, SchedSafety, PTL

\* The links of the pool are neither leaked nor duplicated, and pq is sorted.
THEOREM QueuesSound == Spec => []QueuesOK
<1>1. SchedInv => QueuesOK
  BY DEF SchedInv, QueuesOK
<1> QED BY <1>1, SchedSafety, PTL

\* A slot under construction belongs to exactly one forking process.
THEOREM EmbryoSafe == Spec => []EmbryoOwned
<1>1. SchedInv => EmbryoOwned
  BY DEF SchedInv
<1> QED BY <1>1, SchedSafety, PTL

----------------------------------------------------------------------------

\* A step leaves a process RUNNABLE without an entry only by a put that found no
\* link.
LostOnlyByPut ==
  \A p \in Procs :
    /\ state'[p] = "RUNNABLE" /\ p \notin Queued(sq')
    /\ ~(state[p] = "RUNNABLE" /\ p \notin Queued(sq))
    => sq.free = 0

LEMMA MakeReadyQueued ==
  ASSUME SchedInv, NEW q \in Procs, MakeReady(q)
  PROVE  LostOnlyByPut
<1> USE ProcTableAssumption
<1> DEFINE k == GetMin(sq, acc)
<1>1. /\ sq \in SchedSet(Procs, MinAcc, MaxAcc)
      /\ Sorted(sq) /\ LinksConserved(sq, NLINKS)
      /\ acc \in [Procs -> MinAcc..MaxAcc] /\ state \in [Procs -> States]
  BY DEF SchedInv, TypeOK, QueueSorted, LinkPool, Accs
<1>2. k \in MinAcc..MaxAcc
  BY <1>1, GetMinType
<1>3. state' = [state EXCEPT ![q] = "RUNNABLE"] /\ sq' = Put(sq, q, k)
  BY DEF MakeReady
<1> HIDE DEF k
<1>4. Queued(sq) \subseteq Queued(sq') /\ (CanPut(sq) => q \in Queued(sq'))
  BY <1>1, <1>2, <1>3, PutSound
<1>5. ~CanPut(sq) => sq.free = 0
  <2>1. sq.free \in Nat
    BY <1>1 DEF SchedSet
  <2> QED BY <2>1 DEF CanPut
<1> QED BY <1>1, <1>3, <1>4, <1>5 DEF LostOnlyByPut

\* The step lemma: dispatching takes an entry only from the process it runs,
\* dropping only from one that is not RUNNABLE, and a yielding process always
\* gets the link that rpholder gave back.
LEMMA NextLoss == SchedInv /\ [Next]_vars => [LostOnlyByPut]_vars
<1> SUFFICES ASSUME SchedInv, Next PROVE LostOnlyByPut
  BY DEF vars
<1> USE ProcTableAssumption
<1>0. /\ sq \in SchedSet(Procs, MinAcc, MaxAcc)
      /\ Sorted(sq) /\ LinksConserved(sq, NLINKS)
      /\ state \in [Procs -> States] /\ acc \in [Procs -> MinAcc..MaxAcc]
  BY DEF SchedInv, TypeOK, QueueSorted, LinkPool, Accs
<1>1. PICK c \in CPUs :
        \/ Dispatch(c) \/ DropStale(c) \/ Yield(c)
        \/ Syscall(c) \/ Sysret(c) \/ Fault(c)
        \/ AllocProc(c) \/ AllocFull(c) \/ ForkFail(c) \/ ForkFinish(c)
        \/ WaitEnter(c) \/ WaitReap(c) \/ WaitReturn(c) \/ WaitSleep(c)
        \/ SleepOn(c) \/ Wakeup(c) \/ WakeOne(c) \/ WakeDone(c)
        \/ ExitBegin(c) \/ ExitLock(c) \/ ExitReparent(c) \/ ExitZombie(c)
        \/ Kill(c) \/ Detach(c) \/ Priority(c)
  BY DEF Next
<1>2. CASE Dispatch(c)
  <2> DEFINE p == MinEntry(sq).proc
             t == ExtractMin(sq)
  <2>1. /\ sq.pq # <<>> /\ state' = [state EXCEPT ![p] = "RUNNING"]
        /\ sq' = AddHeld(t, p)
    BY <1>2 DEF Dispatch
  <2>2. /\ p \in Procs /\ t \in SchedSet(Procs, MinAcc, MaxAcc)
        /\ Queued(sq) \subseteq Queued(t) \cup {p}
    BY <1>0, <2>1, ExtractMinSpec
  <2> HIDE DEF p, t
  <2>3. sq'.pq = t.pq
    BY <2>1 DEF AddHeld
  <2>4. Queued(sq') = Queued(t)
    BY <2>3 DEF Queued
  <2> QED BY <1>0, <2>1, <2>2, <2>4 DEF LostOnlyByPut
<1>3. CASE DropStale(c)
  <2> DEFINE p == MinEntry(sq).proc
             t == ExtractMin(sq)
  <2>1. sq.pq # <<>> /\ state[p] # "RUNNABLE" /\ sq' = t /\ state' = state
    BY <1>3 DEF DropStale
  <2>2. Queued(sq) \subseteq Queued(t) \cup {p}
    BY <1>0, <2>1, ExtractMinSpec
  <2> QED BY <2>1, <2>2 DEF LostOnlyByPut
<1>4. CASE Yield(c)
  <2>1. PICK p \in Procs :
          /\ cpu[c] = p /\ state[p] = "RUNNING" /\ acc[p] + prio[p] \in Accs
          /\ state' = [state EXCEPT ![p] = "RUNNABLE"]
          /\ sq' = Put(Put(RemoveHeld(sq, p), p, acc[p]), p, acc[p] + prio[p])
    BY <1>4 DEF Yield
  <2> DEFINE t == RemoveHeld(sq, p)
             u == Put(t, p, acc[p])
  <2>2. /\ t \in SchedSet(Procs, MinAcc, MaxAcc)
        /\ t.free = sq.free + 1 /\ Sorted(t) /\ LinksConserved(t, NLINKS)
        /\ Queued(t) = Queued(sq)
    BY <2>1, LeaveSpec
  <2>3. acc[p] \in MinAcc..MaxAcc /\ acc[p] + prio[p] \in MinAcc..MaxAcc
    BY <1>0, <2>1 DEF Accs
  <2>4. CanPut(t)
    <3>1. sq.free \in Nat
      BY <1>0 DEF SchedSet
    <3> QED BY <3>1, <2>2 DEF CanPut
  <2> HIDE DEF t
  <2>5. /\ u \in SchedSet(Procs, MinAcc, MaxAcc)
        /\ Sorted(u) /\ LinksConserved(u, NLINKS)
        /\ Queued(t) \subseteq Queued(u) /\ p \in Queued(u)
    <3>1. MinAcc \in Int /\ MaxAcc \in Int /\ NLINKS \in Nat
      OBVIOUS
    <3> DEFINE k == acc[p]
    <3>2. k \in MinAcc..MaxAcc /\ u = Put(t, p, k)
      BY <2>3
    <3> HIDE DEF k, u
    <3> QED BY ONLY <2>1, <2>2, <2>4, <3>1, <3>2, PutSound
  <2> HIDE DEF u
  <2>6. sq' = Put(u, p, acc[p] + prio[p])
    BY <2>1 DEF u, t
  <2>7. Queued(u) \subseteq Queued(sq')
    BY <2>3, <2>5, <2>6, PutSound
  <2> QED BY <1>0, <2>1, <2>2, <2>5, <2>7 DEF LostOnlyByPut
<1>5. CASE ForkFinish(c)
  <2>1. PICK p \in Procs : pc[p] = "fork" /\ MakeReady(np[p])
    BY <1>5 DEF ForkFinish, At
  <2>2. np[p] \in Procs
    BY <2>1 DEF SchedInv, TypeOK, EmbryoOwned
  <2> QED BY <2>1, <2>2, MakeReadyQueued
<1>6. CASE WakeOne(c)
  <2>1. PICK p \in Procs : MakeReady(p)
    BY <1>6 DEF WakeOne, Sleepers
  <2> QED BY <2>1, MakeReadyQueued
<1>7. CASE Kill(c)
  <2>1. PICK q \in Procs :
          IF state[q] = "SLEEPING" THEN MakeReady(q) ELSE UNCHANGED <<state, acc, sq>>
    BY <1>7 DEF Kill
  <2>2. CASE state[q] = "SLEEPING"
    BY <2>1, <2>2, MakeReadyQueued
  <2>3. CASE state[q] # "SLEEPING"
    <3>1. state' = state /\ sq' = sq
      BY <2>1, <2>3
    <3> QED BY <3>1 DEF LostOnlyByPut
  <2> QED BY <2>2, <2>3
<1>8. CASE WaitSleep(c) \/ SleepOn(c) \/ ExitZombie(c)
  <2>1. PICK p \in Procs :
          /\ cpu[c] = p /\ sq' = RemoveHeld(sq, p)
          /\ \/ state' = [state EXCEPT ![p] = "SLEEPING"]
             \/ state' = [state EXCEPT ![p] = "ZOMBIE"]
    BY <1>8 DEF WaitSleep, SleepOn, ExitZombie, GoToSleep, At
  <2>2. state[p] = "RUNNING"
    BY <2>1 DEF SchedInv, OneCpuPerProc
  <2>3. Queued(sq') = Queued(sq)
    BY <2>1, <2>2, LeaveSpec
  <2> QED BY <1>0, <2>1, <2>3 DEF LostOnlyByPut
<1>9. CASE AllocProc(c) \/ ForkFail(c) \/ WaitReap(c)
  <2>1. PICK x, v : state' = [state EXCEPT ![x] = v] /\ v # "RUNNABLE" /\ sq' = sq
    <3>1. CASE AllocProc(c)
      BY <3>1 DEF AllocProc
    <3>2. CASE ForkFail(c)
      BY <3>2 DEF ForkFail
    <3>3. CASE WaitReap(c)
      BY <3>3 DEF WaitReap
    <3> QED BY <1>9, <3>1, <3>2, <3>3
  <2> QED BY <1>0, <2>1 DEF LostOnlyByPut
<1>10. CASE \/ Syscall(c) \/ Sysret(c) \/ Fault(c) \/ AllocFull(c)
            \/ WaitEnter(c) \/ WaitReturn(c) \/ Wakeup(c) \/ WakeDone(c)
            \/ ExitBegin(c) \/ ExitLock(c) \/ ExitReparent(c)
            \/ Detach(c) \/ Priority(c)
  <2>1. state' = state /\ sq' = sq
    BY <1>10 DEF Syscall, Sysret, Fault, AllocFull, WaitEnter, WaitReturn, Wakeup,
       WakeDone, ExitBegin, ExitLock, ExitReparent, Detach, Priority
  <2> QED BY <2>1 DEF LostOnlyByPut
<1> QED BY <1>1, <1>2, <1>3, <1>4, <1>5, <1>6, <1>7, <1>8, <1>9, <1>10

\* The scheduler itself loses nobody: a RUNNABLE process is missing from pq only
\* because fork, wakeup1 or kill ignored a put that returned false.
THEOREM LossOnlyByPut == Spec => NoSilentLoss
<1>1. NoSilentLoss <=> [][LostOnlyByPut]_vars
  BY DEF NoSilentLoss, LostOnlyByPut
<1> QED BY <1>1, SchedSafety, NextLoss, PTL DEF Spec

----------------------------------------------------------------------------

\* The strengthening of PidUnique: pids are handed out in increasing order.
PidInv == PidUnique /\ \A p \in Procs : pid[p] < nextpid

LEMMA NextPidInv == SchedInv /\ PidInv /\ [Next]_vars => PidInv'
<1> SUFFICES ASSUME SchedInv, PidInv, [Next]_vars PROVE PidInv'
  OBVIOUS
<1>0. /\ pid \in [Procs -> 0..MaxPid] /\ state \in [Procs -> States]
      /\ nextpid \in 2..(MaxPid + 1) /\ MaxPid \in Nat
  BY ProcTableAssumption DEF SchedInv, TypeOK
<1>1. ASSUME pid' = pid, nextpid' = nextpid,
             \A p \in Procs : state'[p] # "UNUSED" => state[p] # "UNUSED"
      PROVE  PidInv'
  BY <1>1 DEF PidInv, PidUnique
<1>2. CASE UNCHANGED vars
  BY <1>1, <1>2 DEF vars
<1>3. ASSUME NEW c \in CPUs, AllocProc(c) PROVE PidInv'
  <2>1. PICK q \in Procs : /\ state' = [state EXCEPT ![q] = "EMBRYO"]
                           /\ pid' = [pid EXCEPT ![q] = nextpid]
    BY <1>3 DEF AllocProc, Unused
  <2>2. nextpid' = nextpid + 1
    BY <1>3 DEF AllocProc
  <2>3. \A p \in Procs : pid'[p] = IF p = q THEN nextpid ELSE pid[p]
    BY <1>0, <2>1
  <2>4. \A p \in Procs : pid'[p] < nextpid'
    BY <1>0, <2>2, <2>3 DEF PidInv
  <2>5. \A p, r \in Procs : p # r /\ pid'[p] = pid'[r] => pid'[p] = 0
    BY <1>0, <2>3 DEF PidInv, PidUnique
  <2>6. \A p \in Procs : state'[p] # "UNUSED" => pid'[p] # 0
    BY <1>0, <2>1, <2>3 DEF PidInv, PidUnique
  <2> QED BY <2>4, <2>5, <2>6 DEF PidInv, PidUnique
<1>4. ASSUME NEW c \in CPUs, WaitReap(c) PROVE PidInv'
  <2>1. PICK q \in Procs : /\ state' = [state EXCEPT ![q] = "UNUSED"]
                           /\ pid' = [pid EXCEPT ![q] = 0]
    BY <1>4 DEF WaitReap, Zombies, Children
  <2>2. nextpid' = nextpid
    BY <1>4 DEF WaitReap
  <2>3. \A p \in Procs : pid'[p] = IF p = q THEN 0 ELSE pid[p]
    BY <1>0, <2>1
  <2>4. \A p \in Procs : state'[p] = IF p = q THEN "UNUSED" ELSE state[p]
    BY <1>0, <2>1
  <2> QED BY <1>0, <2>2, <2>3, <2>4 DEF PidInv, PidUnique
<1>5. ASSUME NEW c \in CPUs,
             \/ Dispatch(c) \/ DropStale(c) \/ Yield(c)
             \/ Syscall(c) \/ Sysret(c) \/ Fault(c)
             \/ AllocFull(c) \/ ForkFail(c) \/ ForkFinish(c)
             \/ WaitEnter(c) \/ WaitReturn(c) \/ WaitSleep(c)
             \/ SleepOn(c) \/ Wakeup(c) \/ WakeOne(c) \/ WakeDone(c)
             \/ ExitBegin(c) \/ ExitLock(c) \/ ExitReparent(c) \/ ExitZombie(c)
             \/ Kill(c) \/ Detach(c) \/ Priority(c)
      PROVE  PidInv'
  <2>1. pid' = pid /\ nextpid' = nextpid
    BY <1>5 DEF Dispatch, DropStale, Yield, Syscall, Sysret, Fault, AllocFull,
       ForkFail, ForkFinish, WaitEnter, WaitReturn, WaitSleep, SleepOn, Wakeup,
       WakeOne, WakeDone, ExitBegin, ExitLock, ExitReparent, ExitZombie, Kill,
       Detach, Priority
  <2>2. CASE Dispatch(c)
    <3>1. state[MinEntry(sq).proc] = "RUNNABLE"
          /\ state' = [state EXCEPT ![MinEntry(sq).proc] = "RUNNING"]
      BY <2>2 DEF Dispatch
    <3> QED BY <3>1, <2>1, <1>0, <1>1
  <2>3. CASE Yield(c)
    <3>1. PICK p \in Procs : /\ state[p] = "RUNNING"
                             /\ state' = [state EXCEPT ![p] = "RUNNABLE"]
      BY <2>3 DEF Yield
    <3> QED BY <3>1, <2>1, <1>0, <1>1
  <2>4. CASE ForkFail(c)
    <3>1. PICK x : state' = [state EXCEPT ![x] = "UNUSED"]
      BY <2>4 DEF ForkFail
    <3> QED BY <3>1, <2>1, <1>0, <1>1
  <2>5. CASE ForkFinish(c)
    <3>1. PICK p \in Procs : /\ pc[p] = "fork"
                             /\ state' = [state EXCEPT ![np[p]] = "RUNNABLE"]
      BY <2>5 DEF ForkFinish, MakeReady, At
    <3>2. np[p] \in Procs /\ state[np[p]] = "EMBRYO"
      BY <3>1 DEF TypeOK, SchedInv, EmbryoOwned
    <3> QED BY <3>1, <3>2, <2>1, <1>0, <1>1
  <2>6. CASE WaitSleep(c) \/ SleepOn(c) \/ ExitZombie(c)
    <3>1. PICK p \in Procs : /\ cpu[c] = p
                             /\ \/ state' = [state EXCEPT ![p] = "SLEEPING"]
                                \/ state' = [state EXCEPT ![p] = "ZOMBIE"]
      BY <2>6 DEF WaitSleep, SleepOn, ExitZombie, GoToSleep, At
    <3>2. state[p] = "RUNNING"
      BY <3>1 DEF SchedInv, OneCpuPerProc
    <3> QED BY <3>1, <3>2, <2>1, <1>0, <1>1
  <2>7. CASE WakeOne(c) \/ Kill(c)
    <3>1. \/ state' = state
          \/ \E p \in Procs : /\ state[p] = "SLEEPING"
                              /\ state' = [state EXCEPT ![p] = "RUNNABLE"]
      BY <2>7 DEF WakeOne, Kill, Sleepers, MakeReady
    <3> QED BY <3>1, <2>1, <1>0, <1>1
  <2>8. CASE \/ DropStale(c) \/ Syscall(c) \/ Sysret(c) \/ Fault(c) \/ AllocFull(c)
             \/ WaitEnter(c) \/ WaitReturn(c) \/ Wakeup(c) \/ WakeDone(c)
             \/ ExitBegin(c) \/ ExitLock(c) \/ ExitReparent(c)
             \/ Detach(c) \/ Priority(c)
    <3>1. state' = state
      BY <2>8 DEF DropStale, Syscall, Sysret, Fault, AllocFull, WaitEnter,
         WaitReturn, Wakeup, WakeDone, ExitBegin, ExitLock, ExitReparent, Detach,
         Priority
    <3> QED BY <3>1, <2>1, <1>1
  <2> QED BY <1>5, <2>2, <2>3, <2>4, <2>5, <2>6, <2>7, <2>8
<1> QED BY <1>2, <1>3, <1>4, <1>5 DEF Next

\* kill(pid) and detach(pid) mean one process: no two slots ever carry the same
\* pid, although a failed fork leaves a pid behind in a free slot.
THEOREM PidsUnique == Spec => []PidUnique
<1>1. Init => PidInv
  BY DEF Init, PidInv, PidUnique, initproc
<1>2. PidInv => PidUnique
  BY DEF PidInv
<1> QED BY <1>1, <1>2, SchedSafety, NextPidInv, PTL DEF Spec

----------------------------------------------------------------------------
(* Parents, children and the wakeups between them *)

Alive == {"SLEEPING", "RUNNABLE", "RUNNING"}

\* init never exits.
InitAlive == pc[initproc] \notin {"exiting", "exit", "dead"}

\* exit keeps the lock from wakeup1(parent) to its last step.
ExitHolds == \A q \in Procs : pc[q] = "exit" => \E c \in CPUs : lock = c /\ cpu[c] = q

\* By the time exit goes on to the children, the parent is not asleep in wait.
ExitWoke ==
  \A q \in Procs : pc[q] = "exit" => \/ waking = parent[q] \/ parent[q] = initproc
                                     \/ parent[q] \notin Sleepers(parent[q])

\* The inductive invariant of the process tree, on top of SchedInv.
FamilyInv ==
  /\ ParentAlive /\ ZombieNoticed /\ KilledNotInWait
  /\ InitAlive /\ ExitHolds /\ ExitWoke

\* A step by which nobody is born, falls asleep, exits, or gets another parent,
\* and which does not disturb an exit in progress.
FamilyFrame ==
  /\ parent' = parent
  /\ \A p \in Procs :
       /\ state'[p] = "SLEEPING" => /\ state[p] = "SLEEPING" /\ chan'[p] = chan[p]
                                    /\ killed'[p] = killed[p]
       /\ state'[p] = "ZOMBIE" => state[p] = "ZOMBIE"
       /\ state[p] \in Alive => state'[p] \in Alive
       /\ state[p] \in {"UNUSED", "EMBRYO"} => state'[p] \in {"UNUSED", "EMBRYO"}
       /\ pc'[p] = "exit" => /\ pc[p] = "exit" /\ lock' = lock /\ cpu' = cpu
                             /\ waking' = waking
  /\ pc'[initproc] \notin {"exiting", "exit", "dead"}

LEMMA FamilyFramed ==
  ASSUME FamilyInv, SchedInv, SchedInv', FamilyFrame
  PROVE  FamilyInv'
<1>1. /\ state \in [Procs -> States] /\ state' \in [Procs -> States]
      /\ parent \in [Procs -> Procs \cup {0}]
  BY DEF SchedInv, TypeOK
<1>2. ParentAlive'
  BY <1>1 DEF FamilyFrame, FamilyInv, ParentAlive, Alive, States
<1>3. ZombieNoticed'
  BY <1>1 DEF FamilyFrame, FamilyInv, ZombieNoticed, Zombies, Children, Sleepers
<1>4. KilledNotInWait'
  BY <1>1 DEF FamilyFrame, FamilyInv, KilledNotInWait, Sleepers
<1>5. InitAlive' /\ ExitHolds'
  BY DEF FamilyFrame, FamilyInv, InitAlive, ExitHolds
<1>6. ExitWoke'
  BY <1>1 DEF FamilyFrame, FamilyInv, ExitWoke, Sleepers
<1> QED BY <1>2, <1>3, <1>4, <1>5, <1>6 DEF FamilyInv

LEMMA FamilyInit == Init => FamilyInv
BY ProcTableAssumption DEF Init, FamilyInv, ParentAlive, ZombieNoticed, Zombies, Children,
   Sleepers, KilledNotInWait, InitAlive, ExitHolds, ExitWoke, initproc, Procs

LEMMA FamilyNext == SchedInv /\ SchedInv' /\ FamilyInv /\ [Next]_vars => FamilyInv'
<1> SUFFICES ASSUME SchedInv, SchedInv', FamilyInv, [Next]_vars PROVE FamilyInv'
  OBVIOUS
<1>1. /\ state \in [Procs -> States] /\ parent \in [Procs -> Procs \cup {0}]
      /\ chan \in [Procs -> Procs \cup Chans \cup {0}] /\ killed \in [Procs -> BOOLEAN]
      /\ lock \in CPUs \cup {NoCpu} /\ cpu \in [CPUs -> Procs \cup {0}]
      /\ waking \in Procs \cup Chans \cup {0} /\ pc \in [Procs -> PCs]
      /\ np \in [Procs -> Procs \cup {0}] /\ NoCpu \notin CPUs
      /\ initproc \in Procs /\ 0 \notin Procs
  <2>1. initproc \in Procs /\ 0 \notin Procs /\ NoCpu \notin CPUs
    BY ProcTableAssumption DEF initproc, Procs
  <2> QED BY <2>1 DEF SchedInv, TypeOK
<1>2. /\ \A c \in CPUs : cpu[c] # 0 => state[cpu[c]] = "RUNNING"
      /\ \A p \in Procs : pc[p] = "fork" => np[p] \in Procs /\ state[np[p]] = "EMBRYO"
      /\ \A p \in Procs : pc[p] = "dead" <=> state[p] \in {"UNUSED", "EMBRYO", "ZOMBIE"}
  BY <1>1 DEF SchedInv, OneCpuPerProc, EmbryoOwned, DeadPc
<1>3. InitAlive /\ (lock = NoCpu => \A p \in Procs : pc[p] # "exit")
  BY <1>1 DEF FamilyInv, ExitHolds
<1>4. state[initproc] \in Alive
  BY <1>1, <1>2, <1>3 DEF InitAlive, Alive, States
<1>5. CASE UNCHANGED vars
  BY <1>3, <1>5, FamilyFramed DEF vars, FamilyFrame, InitAlive
<1>6. ASSUME NEW c \in CPUs, Dispatch(c) PROVE FamilyInv'
  <2>1. PICK p \in Procs : /\ state[p] = "RUNNABLE" /\ lock = NoCpu
                           /\ state' = [state EXCEPT ![p] = "RUNNING"]
                           /\ chan' = [chan EXCEPT ![p] = 0]
                           /\ UNCHANGED <<parent, killed, pc>>
    <3>1. state[MinEntry(sq).proc] = "RUNNABLE" /\ sq.pq # <<>>
      BY <1>6 DEF Dispatch
    <3>2. MinEntry(sq).proc \in Procs
      <4>1. sq \in SchedSet(Procs, MinAcc, MaxAcc) /\ MinAcc \in Int /\ MaxAcc \in Int
        BY ProcTableAssumption DEF SchedInv, TypeOK
      <4> QED BY <3>1, <4>1, ExtractMinSpec
    <3> QED BY <1>6, <3>1, <3>2 DEF Dispatch
  <2> QED BY <1>1, <1>3, <2>1, FamilyFramed DEF FamilyFrame, InitAlive, Alive
<1>7. ASSUME NEW c \in CPUs, Yield(c) PROVE FamilyInv'
  BY <1>1, <1>3, <1>7, FamilyFramed DEF Yield, FamilyFrame, InitAlive, Alive
<1>8. ASSUME NEW c \in CPUs, \/ DropStale(c) \/ Syscall(c) \/ Sysret(c) \/ AllocFull(c)
                             \/ WaitEnter(c) \/ Wakeup(c) \/ Priority(c)
      PROVE  FamilyInv'
  <2>1. /\ UNCHANGED <<state, parent, chan, killed, cpu>>
        /\ lock = NoCpu \/ UNCHANGED <<lock, waking>>
        /\ \/ pc' = pc
           \/ \E p \in Procs, l \in {"kern", "user", "ret", "wait"} :
                pc' = [pc EXCEPT ![p] = l]
    BY <1>8 DEF DropStale, Syscall, Sysret, AllocFull, WaitEnter, Wakeup, Priority
  <2> QED BY <1>1, <1>3, <2>1, FamilyFramed DEF FamilyFrame, InitAlive
<1>9. ASSUME NEW c \in CPUs, Fault(c) \/ ExitBegin(c) PROVE FamilyInv'
  <2>1. PICK p \in Procs \ {initproc} :
          /\ cpu[c] = p /\ pc' = [pc EXCEPT ![p] = "exiting"]
          /\ killed' = killed \/ killed' = [killed EXCEPT ![p] = TRUE]
          /\ UNCHANGED <<state, parent, chan, lock, cpu, waking>>
    BY <1>9 DEF Fault, ExitBegin, At
  <2>2. state[p] = "RUNNING"
    BY <1>1, <1>2, <2>1
  <2> QED BY <1>1, <1>3, <2>1, <2>2, FamilyFramed DEF FamilyFrame, InitAlive
<1>10. ASSUME NEW c \in CPUs, AllocProc(c) PROVE FamilyInv'
  <2>1. PICK p \in Procs, q \in Procs :
          /\ state[q] = "UNUSED" /\ state' = [state EXCEPT ![q] = "EMBRYO"]
          /\ pc' = [pc EXCEPT ![p] = "fork"] /\ lock = NoCpu
          /\ UNCHANGED <<parent, chan, killed>>
    BY <1>10 DEF AllocProc, Unused
  <2> QED BY <1>1, <1>3, <2>1, FamilyFramed DEF FamilyFrame, InitAlive, Alive
<1>11. ASSUME NEW c \in CPUs, ForkFail(c) PROVE FamilyInv'
  <2>1. PICK p \in Procs :
          /\ pc[p] = "fork" /\ state' = [state EXCEPT ![np[p]] = "UNUSED"]
          /\ pc' = [pc EXCEPT ![p] = "ret"]
          /\ UNCHANGED <<parent, chan, killed, lock, cpu, waking>>
    BY <1>11 DEF ForkFail, At
  <2> QED BY <1>1, <1>2, <1>3, <2>1, FamilyFramed DEF FamilyFrame, InitAlive, Alive
<1>12. ASSUME NEW c \in CPUs, ForkFinish(c) PROVE FamilyInv'
  <2>1. PICK p \in Procs :
          /\ cpu[c] = p /\ pc[p] = "fork" /\ lock = NoCpu
          /\ parent' = [parent EXCEPT ![np[p]] = p]
          /\ state' = [state EXCEPT ![np[p]] = "RUNNABLE"]
          /\ pc' = [pc EXCEPT ![p] = "ret", ![np[p]] = "user"]
          /\ UNCHANGED <<chan, killed, lock>>
    BY <1>12 DEF ForkFinish, MakeReady, At
  <2>2. state[p] = "RUNNING" /\ np[p] \in Procs /\ state[np[p]] = "EMBRYO"
    BY <1>1, <1>2, <2>1
  <2>3. ParentAlive'
    BY <1>1, <2>1, <2>2 DEF FamilyInv, ParentAlive
  <2>4. ZombieNoticed'
    BY <1>1, <2>1, <2>2 DEF FamilyInv, ZombieNoticed, Zombies, Children, Sleepers
  <2>5. KilledNotInWait'
    BY <1>1, <2>1, <2>2 DEF FamilyInv, KilledNotInWait, Sleepers
  <2>6. InitAlive' /\ ExitHolds' /\ ExitWoke'
    BY <1>1, <1>3, <2>1, <2>2 DEF InitAlive, ExitHolds, ExitWoke
  <2> QED BY <2>3, <2>4, <2>5, <2>6 DEF FamilyInv
<1>13. ASSUME NEW c \in CPUs, WaitReap(c) PROVE FamilyInv'
  <2>1. PICK p \in Procs, q \in Procs :
          /\ cpu[c] = p /\ pc[p] = "wait" /\ lock = c /\ state[q] = "ZOMBIE"
          /\ parent' = [parent EXCEPT ![q] = 0]
          /\ killed' = [killed EXCEPT ![q] = FALSE]
          /\ state' = [state EXCEPT ![q] = "UNUSED"]
          /\ pc' = [pc EXCEPT ![p] = "ret"] /\ chan' = chan
    BY <1>13 DEF WaitReap, Zombies, Children, At
  <2>2. \A r \in Procs : pc[r] # "exit"
    BY <1>1, <2>1 DEF FamilyInv, ExitHolds
  <2>3. ParentAlive'
    BY <1>1, <2>1 DEF FamilyInv, ParentAlive
  <2>4. ZombieNoticed'
    BY <1>1, <2>1 DEF FamilyInv, ZombieNoticed, Zombies, Children, Sleepers
  <2>5. KilledNotInWait'
    BY <1>1, <2>1 DEF FamilyInv, KilledNotInWait, Sleepers
  <2>6. InitAlive' /\ ExitHolds' /\ ExitWoke'
    BY <1>1, <1>3, <2>1, <2>2 DEF InitAlive, ExitHolds, ExitWoke
  <2> QED BY <2>3, <2>4, <2>5, <2>6 DEF FamilyInv
<1>14. ASSUME NEW c \in CPUs, WaitReturn(c) PROVE FamilyInv'
  <2>1. PICK p \in Procs :
          /\ cpu[c] = p /\ pc[p] = "wait" /\ lock = c
          /\ pc' = [pc EXCEPT ![p] = "ret"]
          /\ UNCHANGED <<state, parent, chan, killed>>
    BY <1>14 DEF WaitReturn, At
  <2>2. \A r \in Procs : pc[r] # "exit"
    BY <1>1, <2>1 DEF FamilyInv, ExitHolds
  <2> QED BY <1>1, <1>3, <2>1, <2>2, FamilyFramed DEF FamilyFrame, InitAlive
<1>15. ASSUME NEW c \in CPUs, WaitSleep(c) \/ SleepOn(c) PROVE FamilyInv'
  <2>1. PICK p \in Procs, ch \in Procs \cup Chans :
          /\ cpu[c] = p /\ pc[p] # "exit" /\ lock \in {c, NoCpu}
          /\ ch = p => Zombies(p) = {} /\ ~killed[p]
          /\ chan' = [chan EXCEPT ![p] = ch]
          /\ state' = [state EXCEPT ![p] = "SLEEPING"]
          /\ UNCHANGED <<parent, killed, pc>>
    <3>1. \A ch \in Chans : ch \notin Procs
      BY ProcTableAssumption DEF Chans, Procs
    <3> QED BY <1>15, <3>1 DEF WaitSleep, SleepOn, GoToSleep, At
  <2>2. state[p] = "RUNNING" /\ \A r \in Procs : pc[r] # "exit"
    BY <1>1, <1>2, <2>1 DEF FamilyInv, ExitHolds
  <2>3. ParentAlive'
    BY <1>1, <2>1, <2>2 DEF FamilyInv, ParentAlive
  <2>4. ZombieNoticed'
    BY <1>1, <2>1, <2>2 DEF FamilyInv, ZombieNoticed, Zombies, Children, Sleepers
  <2>5. KilledNotInWait'
    BY <1>1, <2>1, <2>2 DEF FamilyInv, KilledNotInWait, Sleepers
  <2>6. InitAlive' /\ ExitHolds' /\ ExitWoke'
    BY <1>1, <1>3, <2>1, <2>2 DEF InitAlive, ExitHolds, ExitWoke
  <2> QED BY <2>3, <2>4, <2>5, <2>6 DEF FamilyInv
<1>16. ASSUME NEW c \in CPUs, WakeOne(c) PROVE FamilyInv'
  <2>1. PICK p \in Procs : /\ state[p] = "SLEEPING"
                           /\ state' = [state EXCEPT ![p] = "RUNNABLE"]
                           /\ UNCHANGED <<parent, chan, killed, lock, cpu, waking, pc>>
    BY <1>16 DEF WakeOne, Sleepers, MakeReady
  <2> QED BY <1>1, <1>3, <2>1, FamilyFramed DEF FamilyFrame, InitAlive, Alive
<1>17. ASSUME NEW c \in CPUs, WakeDone(c) PROVE FamilyInv'
  <2>1. /\ lock = c /\ Sleepers(waking) = {}
        /\ lock' = IF InExit(c) THEN c ELSE NoCpu
        /\ UNCHANGED <<state, parent, chan, killed, cpu, pc>>
    BY <1>17 DEF WakeDone
  <2>2. ParentAlive' /\ ZombieNoticed' /\ KilledNotInWait' /\ InitAlive'
    BY <2>1 DEF FamilyInv, ParentAlive, ZombieNoticed, Zombies, Children, Sleepers,
       KilledNotInWait, InitAlive
  <2>3. ExitHolds'
    BY <1>1, <2>1 DEF FamilyInv, ExitHolds, InExit
  <2>4. ExitWoke'
    BY <1>1, <2>1 DEF FamilyInv, ExitWoke, Sleepers
  <2> QED BY <2>2, <2>3, <2>4 DEF FamilyInv
<1>18. ASSUME NEW c \in CPUs, ExitLock(c) PROVE FamilyInv'
  <2>1. PICK p \in Procs :
          /\ cpu[c] = p /\ pc[p] = "exiting" /\ lock = NoCpu
          /\ pc' = [pc EXCEPT ![p] = "exit"] /\ waking' = parent[p] /\ lock' = c
          /\ UNCHANGED <<state, parent, chan, killed, cpu>>
    BY <1>18 DEF ExitLock, At
  <2>2. ParentAlive' /\ ZombieNoticed' /\ KilledNotInWait'
    BY <2>1 DEF FamilyInv, ParentAlive, ZombieNoticed, Zombies, Children, Sleepers,
       KilledNotInWait
  <2>3. InitAlive' /\ ExitHolds' /\ ExitWoke'
    BY <1>1, <1>3, <2>1 DEF InitAlive, ExitHolds, ExitWoke
  <2> QED BY <2>2, <2>3 DEF FamilyInv
<1>19. ASSUME NEW c \in CPUs, ExitReparent(c) \/ Detach(c) PROVE FamilyInv'
  <2>1. PICK p \in Procs, q \in Procs :
          /\ cpu[c] = p /\ parent' = [parent EXCEPT ![q] = initproc]
          /\ \/ lock = NoCpu /\ pc' = [pc EXCEPT ![p] = "ret"]
             \/ lock = c /\ pc' = pc /\ pc[p] = "exit" /\ waking = 0
          /\ UNCHANGED <<state, chan, killed, lock, cpu>>
    BY <1>19 DEF ExitReparent, Detach, Children, At
  <2>2. ParentAlive'
    BY <1>1, <1>4, <2>1 DEF FamilyInv, ParentAlive, Alive
  <2>3. ZombieNoticed' /\ KilledNotInWait'
    BY <1>1, <2>1 DEF FamilyInv, ZombieNoticed, Zombies, Children, Sleepers, KilledNotInWait
  <2>4. InitAlive' /\ ExitHolds'
    BY <1>1, <1>3, <2>1 DEF FamilyInv, InitAlive, ExitHolds
  <2>5. ExitWoke'
    BY <1>1, <1>3, <2>1 DEF FamilyInv, ExitWoke, Sleepers
  <2> QED BY <2>2, <2>3, <2>4, <2>5 DEF FamilyInv
<1>20. ASSUME NEW c \in CPUs, ExitZombie(c) PROVE FamilyInv'
  <2>1. PICK p \in Procs :
          /\ cpu[c] = p /\ pc[p] = "exit" /\ lock = c /\ waking = 0
          /\ \A q \in Procs : parent[q] # p
          /\ state' = [state EXCEPT ![p] = "ZOMBIE"]
          /\ pc' = [pc EXCEPT ![p] = "dead"]
          /\ UNCHANGED <<parent, chan, killed>>
    BY <1>20 DEF ExitZombie, Children, At
  <2>2. p # initproc /\ \A r \in Procs : pc'[r] # "exit"
    BY <1>1, <1>3, <2>1 DEF FamilyInv, ExitHolds, InitAlive
  <2>3. state[p] = "RUNNING"
    BY <1>1, <1>2, <2>1
  <2>4. ParentAlive'
    BY <1>1, <2>1, <2>2, <2>3 DEF FamilyInv, ParentAlive
  <2>5. ZombieNoticed'
    BY <1>1, <2>1, <2>2, <2>3
    DEF FamilyInv, ZombieNoticed, ExitWoke, ParentAlive, Zombies, Children, Sleepers
  <2>6. KilledNotInWait'
    BY <1>1, <2>1 DEF FamilyInv, KilledNotInWait, Sleepers
  <2>7. InitAlive' /\ ExitHolds' /\ ExitWoke'
    BY <1>1, <1>3, <2>1, <2>2 DEF InitAlive, ExitHolds, ExitWoke
  <2> QED BY <2>4, <2>5, <2>6, <2>7 DEF FamilyInv
<1>21. ASSUME NEW c \in CPUs, Kill(c) PROVE FamilyInv'
  <2>1. PICK p \in Procs, q \in Procs :
          /\ lock = NoCpu /\ killed' = [killed EXCEPT ![q] = TRUE]
          /\ IF state[q] = "SLEEPING" THEN state' = [state EXCEPT ![q] = "RUNNABLE"]
             ELSE state' = state
          /\ pc' = [pc EXCEPT ![p] = "ret"]
          /\ UNCHANGED <<parent, chan>>
    BY <1>21 DEF Kill, MakeReady
  <2> QED BY <1>1, <1>3, <2>1, FamilyFramed DEF FamilyFrame, InitAlive, Alive
<1> QED
  BY <1>5, <1>6, <1>7, <1>8, <1>9, <1>10, <1>11, <1>12, <1>13, <1>14, <1>15, <1>16, <1>17,
     <1>18, <1>19, <1>20, <1>21 DEF Next

THEOREM FamilySafety == Spec => []FamilyInv
BY FamilyInit, FamilyNext, SchedSafety, PTL DEF Spec

\* No orphans: a process that has been born and not reaped has a parent that has
\* not exited; exit (proc.c:290-303) hands the children over before its last step.
THEOREM NoOrphans == Spec => []ParentAlive
<1>1. FamilyInv => ParentAlive
  BY DEF FamilyInv
<1> QED BY <1>1, FamilySafety, PTL

\* No lost wakeup between exit's wakeup1 (proc.c:288) and wait's sleep
\* (proc.c:347): nobody, init aside, is asleep in wait with a ZOMBIE child.
THEOREM ZombiesNoticed == Spec => []ZombieNoticed
<1>1. FamilyInv => ZombieNoticed
  BY DEF FamilyInv
<1> QED BY <1>1, FamilySafety, PTL

\* No lost kill: a killed process is never asleep in wait, whatever the order
\* of kill (proc.c:588-612) and of wait's last look at killed (proc.c:341).
THEOREM KillsNoticed == Spec => []KilledNotInWait
<1>1. FamilyInv => KilledNotInWait
  BY DEF FamilyInv
<1> QED BY <1>1, FamilySafety, PTL
============================================================================
