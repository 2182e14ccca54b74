------------------------------ MODULE RingProof ------------------------------
(***************************************************************************)
(* Arithmetic of the two rings of the kernel, pipe.c's and console.c's:    *)
(* counters that wrap at w (2^32 in the code) address a buffer of s cells, *)
(* where s divides w.  At the end, queues without duplicates.              *)
(***************************************************************************)
EXTENDS Integers, Sequences, SequencesExt, SequenceTheorems, TLAPS

\* x % m is the remainder.
LEMMA ModDef ==
  ASSUME NEW m \in Nat \ {0}, NEW x \in Int
  PROVE  x % m \in 0..(m - 1) /\ x \div m \in Int /\ x = m * (x \div m) + (x % m)
BY Z3

\* ... and is determined by that.
LEMMA ModUnique ==
  ASSUME NEW m \in Nat \ {0}, NEW q \in Int, NEW r \in 0..(m - 1)
  PROVE  (m * q + r) % m = r
BY Z3

LEMMA ModSmall ==
  ASSUME NEW m \in Nat \ {0}, NEW x \in 0..(m - 1)
  PROVE  x % m = x
BY Z3

\* Incrementing a counter.
LEMMA WrapInc ==
  ASSUME NEW w \in Nat \ {0}, NEW x \in 0..(w - 1)
  PROVE  (x + 1) % w = IF x + 1 = w THEN 0 ELSE x + 1
BY Z3

\* The distance between two counters.
LEMMA WrapSub ==
  ASSUME NEW w \in Nat \ {0}, NEW x \in 0..(w - 1), NEW y \in 0..(w - 1)
  PROVE  (y - x) % w = IF y >= x THEN y - x ELSE y - x + w
BY Z3

\* Adding less than a whole turn.
LEMMA WrapAdd ==
  ASSUME NEW w \in Nat \ {0}, NEW x \in 0..(w - 1), NEW k \in 0..(w - 1)
  PROVE  (x + k) % w = IF x + k >= w THEN x + k - w ELSE x + k
BY Z3

\* One counter moves: the distance to the other grows or shrinks by one.
LEMMA DistUp ==
  ASSUME NEW w \in Nat \ {0}, NEW x \in 0..(w - 1), NEW y \in 0..(w - 1),
         ((y - x) % w) < w - 1
  PROVE  /\ (y + 1) % w \in 0..(w - 1)
         /\ (((y + 1) % w) - x) % w = ((y - x) % w) + 1
BY Z3

LEMMA DistDown ==
  ASSUME NEW w \in Nat \ {0}, NEW x \in 0..(w - 1), NEW y \in 0..(w - 1), x # y
  PROVE  /\ (x + 1) % w \in 0..(w - 1) /\ (y - 1) % w \in 0..(w - 1)
         /\ (y - ((x + 1) % w)) % w = ((y - x) % w) - 1
         /\ (((y - 1) % w) - x) % w = ((y - x) % w) - 1
BY Z3

\* Three counters in a row.
LEMMA DistSum ==
  ASSUME NEW w \in Nat \ {0}, NEW x \in 0..(w - 1), NEW y \in 0..(w - 1),
         NEW z \in 0..(w - 1), (y - x) % w <= (z - x) % w
  PROVE  /\ (z - y) % w = ((z - x) % w) - ((y - x) % w)
         /\ (y - x) % w \in 0..(w - 1) /\ (z - x) % w \in 0..(w - 1)
         /\ (z - y) % w \in 0..(w - 1)
         /\ (y - x) % w = 0 <=> x = y
         /\ (z - y) % w = 0 <=> y = z
BY Z3

\* The buffer index does not change when its counter wraps.
LEMMA WrapIndex ==
  ASSUME NEW s \in Nat \ {0}, NEW w \in Nat, w % s = 0, NEW x \in Int
  PROVE  (x + w) % s = x % s /\ (x - w) % s = x % s
<1> DEFINE c == w \div s
           q == x \div s
           r == x % s
<1>1. c \in Int /\ w = s * c
  BY ModDef
<1>2. q \in Int /\ r \in 0..(s - 1) /\ x = s * q + r
  BY ModDef
<1>3. q + c \in Int /\ q - c \in Int /\ x + w = s * (q + c) + r /\ x - w = s * (q - c) + r
  <2> HIDE DEF c, q, r
  <2> QED BY <1>1, <1>2, Z3
<1>4. (s * (q + c) + r) % s = r /\ (s * (q - c) + r) % s = r
  <2> HIDE DEF c, q, r
  <2> QED BY <1>2, <1>3, ModUnique
<1> QED BY <1>3, <1>4

\* ... and the distance leads from one index to the other.
LEMMA IndexOf ==
  ASSUME NEW s \in Nat \ {0}, NEW w \in Nat \ {0}, w % s = 0,
         NEW x \in 0..(w - 1), NEW y \in 0..(w - 1)
  PROVE  y % s = (x + ((y - x) % w)) % s
<1>1. (y - x) % w = IF y >= x THEN y - x ELSE y - x + w
  BY WrapSub
<1>2. x + ((y - x) % w) = y \/ x + ((y - x) % w) = y + w
  BY <1>1
<1>3. (y + w) % s = y % s
  <2>1. y \in Int /\ w \in Nat
    OBVIOUS
  <2> QED BY <2>1, WrapIndex, Zenon
<1> QED BY <1>2, <1>3

LEMMA IndexWrap ==
  ASSUME NEW s \in Nat \ {0}, NEW w \in Nat \ {0}, w % s = 0,
         NEW x \in 0..(w - 1), NEW k \in 0..(w - 1)
  PROVE  ((x + k) % w) % s = (x + k) % s
<1>1. (x + k) % w = x + k \/ (x + k) % w = (x + k) - w
  <2>1. (x + k) % w = IF x + k >= w THEN x + k - w ELSE x + k
    BY WrapAdd
  <2>2. x + k - w = (x + k) - w
    OBVIOUS
  <2> QED BY <2>1, <2>2
<1>2. ((x + k) - w) % s = (x + k) % s
  <2>1. x + k \in Int /\ w \in Nat
    OBVIOUS
  <2> QED BY <2>1, WrapIndex, Zenon
<1> QED BY <1>1, <1>2

\* Counters less than s apart address different cells.
LEMMA IndexDistinct ==
  ASSUME NEW s \in Nat \ {0}, NEW x \in Int, NEW y \in Int, x < y, y < x + s
  PROVE  x % s # y % s
<1> SUFFICES ASSUME x % s = y % s PROVE FALSE
  OBVIOUS
<1>1. x = s * (x \div s) + (x % s) /\ y = s * (y \div s) + (x % s)
      /\ x \div s \in Int /\ y \div s \in Int /\ x % s \in Int
  BY ModDef
<1> DEFINE d == (y \div s) - (x \div s)
<1>2. d \in Int /\ y - x = s * d
  BY <1>1, Z3
<1> HIDE DEF d
<1> QED BY <1>2, Z3

----------------------------------------------------------------------------
(* The contents of a ring *)

\* A buffer of s cells.
Cells(s, B) == [0..(s - 1) -> B]

SetCell(d, j, b) == [d EXCEPT ![j] = b]

\* The c cells from counter r on, oldest first.
Ring(d, r, c, s) == [k \in 1..c |-> d[(r + k - 1) % s]]

LEMMA RingType ==
  ASSUME NEW B, NEW s \in Nat \ {0}, NEW d \in Cells(s, B),
         NEW r \in Int, NEW c \in Nat
  PROVE  Ring(d, r, c, s) \in Seq(B)
<1>1. \A k \in 1..c : (r + k - 1) % s \in 0..(s - 1)
  BY ModDef
<1>2. Ring(d, r, c, s) \in [1..c -> B]
  BY <1>1 DEF Ring, Cells
<1> QED BY <1>2, SeqDef

LEMMA RingLen ==
  ASSUME NEW B, NEW s, NEW d, NEW r, NEW c \in Nat, Ring(d, r, c, s) \in Seq(B)
  PROVE  Len(Ring(d, r, c, s)) = c
<1>1. DOMAIN Ring(d, r, c, s) = 1..c
  BY DEF Ring
<1> HIDE DEF Ring
<1>2. Len(Ring(d, r, c, s)) \in Nat /\ DOMAIN Ring(d, r, c, s) = 1..Len(Ring(d, r, c, s))
  BY LenProperties
<1> QED BY <1>1, <1>2

\* A counter that has wrapped still addresses the same cells.
LEMMA RingWrap ==
  ASSUME NEW s \in Nat \ {0}, NEW w \in Nat, w % s = 0, NEW d,
         NEW r \in Int, NEW c \in Nat
  PROVE  Ring(d, r - w, c, s) = Ring(d, r, c, s)
<1>1. ASSUME NEW k \in 1..c PROVE (r - w + k - 1) % s = (r + k - 1) % s
  <2>1. r + k - 1 \in Int /\ (r + k - 1) - w = r - w + k - 1
    OBVIOUS
  <2>2. ((r + k - 1) - w) % s = (r + k - 1) % s
    BY <2>1, WrapIndex
  <2> QED BY <2>1, <2>2
<1> QED BY <1>1, Zenon DEF Ring

\* A cell written behind the last one appends its value and disturbs no other.
LEMMA RingAppend ==
  ASSUME NEW B, NEW s \in Nat \ {0}, NEW d \in Cells(s, B),
         NEW r \in Int, NEW c \in 0..(s - 1), NEW b \in B
  PROVE  Ring(SetCell(d, (r + c) % s, b), r, c + 1, s) = Append(Ring(d, r, c, s), b)
<1> DEFINE e == SetCell(d, (r + c) % s, b)
           u == Ring(e, r, c + 1, s)
           v == Ring(d, r, c, s)
<1>0. \A x \in Cells(s, B), j \in Int, m \in Nat :
        /\ Ring(x, j, m, s) \in Seq(B) /\ Len(Ring(x, j, m, s)) = m
        /\ \A k \in 1..m : Ring(x, j, m, s)[k] = x[(j + k - 1) % s]
  <2> TAKE x \in Cells(s, B), j \in Int, m \in Nat
  <2>1. \A k \in 1..m : Ring(x, j, m, s)[k] = x[(j + k - 1) % s]
    BY DEF Ring
  <2>2. Ring(x, j, m, s) \in Seq(B)
    BY RingType, Zenon
  <2>3. Len(Ring(x, j, m, s)) = m
    BY <2>2, RingLen
  <2> QED BY <2>1, <2>2, <2>3
<1>1. (r + c) % s \in 0..(s - 1) /\ r + c \in Int /\ c \in Nat /\ c + 1 \in Nat
  BY ModDef
<1>2. e \in Cells(s, B) /\ e[(r + c) % s] = b
  BY <1>1 DEF Cells, SetCell
<1>3. /\ u \in Seq(B) /\ Len(u) = c + 1
      /\ \A k \in 1..(c + 1) : u[k] = e[(r + k - 1) % s]
  <2> HIDE DEF e
  <2> QED BY <1>0, <1>1, <1>2
<1>4. /\ v \in Seq(B) /\ Len(v) = c
      /\ \A k \in 1..c : v[k] = d[(r + k - 1) % s]
  BY <1>0, <1>1
<1>5. ASSUME NEW k \in 1..c PROVE e[(r + k - 1) % s] = d[(r + k - 1) % s]
  <2>1. r + k - 1 \in Int /\ r + k - 1 < r + c /\ r + c < r + k - 1 + s
    OBVIOUS
  <2>2. (r + k - 1) % s # (r + c) % s
    BY <1>1, <2>1, IndexDistinct
  <2>3. (r + k - 1) % s \in 0..(s - 1)
    BY <2>1, ModDef
  <2> QED BY <2>2, <2>3 DEF Cells, SetCell
<1>6. u[c + 1] = b
  <2>1. r + (c + 1) - 1 = r + c /\ c + 1 \in 1..(c + 1)
    OBVIOUS
  <2> HIDE DEF u, e
  <2> QED BY <1>2, <1>3, <2>1
<1> HIDE DEF u, v, e
<1>7. /\ Append(v, b) \in Seq(B) /\ Len(Append(v, b)) = c + 1
      /\ \A k \in 1..c : Append(v, b)[k] = v[k]
      /\ Append(v, b)[c + 1] = b
  BY <1>4, AppendProperties
<1>8. \A k \in 1..(c + 1) : u[k] = Append(v, b)[k]
  <2> TAKE k \in 1..(c + 1)
  <2>1. CASE k = c + 1
    BY <1>6, <1>7, <2>1
  <2>2. CASE k # c + 1
    <3>1. k \in 1..c
      BY <2>2
    <3> QED BY <1>3, <1>4, <1>5, <1>7, <3>1
  <2> QED BY <2>1, <2>2
<1> QED BY <1>3, <1>7, <1>8, SeqEqual DEF u, v, e

\* The cell at the head is the oldest one, and going past it leaves the others.
LEMMA RingTail ==
  ASSUME NEW B, NEW s \in Nat \ {0}, NEW d \in Cells(s, B),
         NEW r \in Int, NEW c \in Nat \ {0}
  PROVE  /\ Ring(d, r, c, s) # <<>>
         /\ Head(Ring(d, r, c, s)) = d[r % s]
         /\ Tail(Ring(d, r, c, s)) = Ring(d, r + 1, c - 1, s)
<1> DEFINE u == Ring(d, r, c, s)
           v == Ring(d, r + 1, c - 1, s)
<1>0. \A x \in Cells(s, B), j \in Int, m \in Nat :
        /\ Ring(x, j, m, s) \in Seq(B) /\ Len(Ring(x, j, m, s)) = m
        /\ \A k \in 1..m : Ring(x, j, m, s)[k] = x[(j + k - 1) % s]
  <2> TAKE x \in Cells(s, B), j \in Int, m \in Nat
  <2>1. \A k \in 1..m : Ring(x, j, m, s)[k] = x[(j + k - 1) % s]
    BY DEF Ring
  <2>2. Ring(x, j, m, s) \in Seq(B)
    BY RingType, Zenon
  <2>3. Len(Ring(x, j, m, s)) = m
    BY <2>2, RingLen
  <2> QED BY <2>1, <2>2, <2>3
<1>1. /\ u \in Seq(B) /\ Len(u) = c
      /\ \A k \in 1..c : u[k] = d[(r + k - 1) % s]
  BY <1>0
<1>2. /\ v \in Seq(B) /\ Len(v) = c - 1
      /\ \A k \in 1..(c - 1) : v[k] = d[((r + 1) + k - 1) % s]
  <2>1. r + 1 \in Int /\ c - 1 \in Nat
    OBVIOUS
  <2> QED BY <1>0, <2>1
<1> HIDE DEF u, v
<1>3. u # <<>>
  BY <1>1, EmptySeq
<1>4. u[1] = d[r % s]
  <2>1. 1 \in 1..c /\ r + 1 - 1 = r
    OBVIOUS
  <2> QED BY <1>1, <2>1
<1>5. Head(u) = u[1]
  BY <1>1, <1>3
<1>6. /\ Tail(u) \in Seq(B) /\ Len(Tail(u)) = c - 1
      /\ \A k \in 1..(c - 1) : Tail(u)[k] = u[k + 1]
  BY <1>1, <1>3, HeadTailProperties
<1>7. ASSUME NEW k \in 1..(c - 1) PROVE Tail(u)[k] = v[k]
  <2>1. k + 1 \in 1..c /\ r + (k + 1) - 1 = (r + 1) + k - 1
    OBVIOUS
  <2> QED BY <1>1, <1>2, <1>6, <2>1
<1>8. Tail(u) = v
  BY <1>2, <1>6, <1>7, SeqEqual
<1> QED BY <1>3, <1>4, <1>5, <1>8 DEF u, v

\* ... and leaves every stretch before it alone.
LEMMA RingKeep ==
  ASSUME NEW B, NEW s \in Nat \ {0}, NEW d \in Cells(s, B), NEW b
  PROVE  \A r \in Int : \A c \in 0..(s - 1) : \A a \in 0..c :
           Ring(SetCell(d, (r + c) % s, b), r, a, s) = Ring(d, r, a, s)
<1> SUFFICES ASSUME NEW r \in Int, NEW c \in 0..(s - 1), NEW a \in 0..c
             PROVE  Ring(SetCell(d, (r + c) % s, b), r, a, s) = Ring(d, r, a, s)
  OBVIOUS
<1>1. ASSUME NEW k \in 1..a
      PROVE  SetCell(d, (r + c) % s, b)[(r + k - 1) % s] = d[(r + k - 1) % s]
  <2>1. r + k - 1 \in Int /\ r + c \in Int /\ r + k - 1 < r + c /\ r + c < r + k - 1 + s
    OBVIOUS
  <2>2. (r + k - 1) % s # (r + c) % s
    BY <2>1, IndexDistinct
  <2>3. (r + k - 1) % s \in 0..(s - 1)
    BY <2>1, ModDef
  <2> QED BY <2>2, <2>3 DEF Cells, SetCell
<1> QED BY <1>1, Zenon DEF Ring

\* A stretch of the ring is a prefix and the rest.
LEMMA RingConcat ==
  ASSUME NEW B, NEW s \in Nat \ {0}, NEW d \in Cells(s, B), NEW r \in Int,
         NEW a \in Nat, NEW c \in Nat
  PROVE  Ring(d, r, a + c, s) = Ring(d, r, a, s) \o Ring(d, r + a, c, s)
<1> DEFINE u == Ring(d, r, a + c, s)
           v == Ring(d, r, a, s)
           t == Ring(d, r + a, c, s)
<1>0. r + a \in Int /\ a + c \in Nat
  OBVIOUS
<1>1. u \in Seq(B) /\ v \in Seq(B) /\ t \in Seq(B)
  BY <1>0, RingType
<1>2. Len(u) = a + c /\ Len(v) = a /\ Len(t) = c
  BY <1>0, <1>1, RingLen
<1>3. /\ \A k \in 1..(a + c) : u[k] = d[(r + k - 1) % s]
      /\ \A k \in 1..a : v[k] = d[(r + k - 1) % s]
      /\ \A k \in 1..c : t[k] = d[((r + a) + k - 1) % s]
  BY DEF Ring
<1> HIDE DEF u, v, t
<1>4. /\ v \o t \in Seq(B) /\ Len(v \o t) = a + c
      /\ \A k \in 1..(a + c) : (v \o t)[k] = IF k <= a THEN v[k] ELSE t[k - a]
  BY <1>1, <1>2, ConcatProperties
<1>5. ASSUME NEW k \in 1..(a + c) PROVE u[k] = (v \o t)[k]
  <2>1. CASE k <= a
    BY <1>3, <1>4, <2>1
  <2>2. CASE k > a
    <3>1. k - a \in 1..c /\ (r + a) + (k - a) - 1 = r + k - 1
      BY <2>2
    <3> QED BY <1>3, <1>4, <2>2, <3>1
  <2>3. k <= a \/ k > a
    OBVIOUS
  <2> QED BY <2>1, <2>2, <2>3, Zenon
<1> QED BY <1>1, <1>2, <1>4, <1>5, SeqEqual DEF u, v, t

\* Without its last cell.
LEMMA RingFront ==
  ASSUME NEW B, NEW s \in Nat \ {0}, NEW d \in Cells(s, B), NEW r \in Int,
         NEW c \in Nat \ {0}
  PROVE  /\ Ring(d, r, c, s) # <<>>
         /\ Ring(d, r, c - 1, s) = SubSeq(Ring(d, r, c, s), 1, c - 1)
<1> DEFINE u == Ring(d, r, c, s)
           v == Ring(d, r, c - 1, s)
<1>0. c \in Nat /\ c - 1 \in Nat
  OBVIOUS
<1>1. u \in Seq(B) /\ v \in Seq(B)
  BY <1>0, RingType
<1>2. Len(u) = c /\ Len(v) = c - 1
  BY <1>0, <1>1, RingLen
<1>3. /\ \A k \in 1..c : u[k] = d[(r + k - 1) % s]
      /\ \A k \in 1..(c - 1) : v[k] = d[(r + k - 1) % s]
  BY DEF Ring
<1> HIDE DEF u, v
<1>4. u # <<>>
  BY <1>2, EmptySeq
<1>5. /\ SubSeq(u, 1, c - 1) \in Seq(B) /\ Len(SubSeq(u, 1, c - 1)) = c - 1
      /\ \A k \in 1..(c - 1) : SubSeq(u, 1, c - 1)[k] = u[k]
  BY <1>1, <1>2
<1>6. \A k \in 1..(c - 1) : v[k] = SubSeq(u, 1, c - 1)[k]
  BY <1>3, <1>5
<1>7. v = SubSeq(u, 1, c - 1)
  BY <1>1, <1>2, <1>5, <1>6, SeqEqual
<1> QED BY <1>4, <1>7 DEF u, v

----------------------------------------------------------------------------
(* Queues without duplicates *)

LEMMA QueueAppend ==
  ASSUME NEW S, NEW q \in Seq(S), NEW b \in S
  PROVE  /\ Append(q, b) \in Seq(S) /\ Append(q, b) # <<>>
         /\ ToSet(Append(q, b)) = ToSet(q) \union {b}
         /\ IsInjective(q) /\ b \notin ToSet(q) => IsInjective(Append(q, b))
         /\ q = <<>> => Head(Append(q, b)) = b
         /\ q # <<>> => Head(Append(q, b)) = Head(q)
<1> DEFINE r == Append(q, b)
<1>1. /\ r \in Seq(S) /\ Len(r) = Len(q) + 1 /\ Len(q) \in Nat /\ DOMAIN r = 1..Len(r)
      /\ DOMAIN q = 1..Len(q)
      /\ \A i \in 1..Len(q) : r[i] = q[i]
      /\ r[Len(q) + 1] = b
  OBVIOUS
<1> HIDE DEF r
<1>2. ToSet(r) = ToSet(q) \union {b}
  BY <1>1 DEF ToSet
<1>3. ASSUME IsInjective(q), b \notin ToSet(q) PROVE IsInjective(r)
  BY <1>1, <1>3 DEF ToSet, IsInjective
<1>4. Head(r) = r[1] /\ r # <<>>
  BY <1>1
<1>5. q = <<>> => Len(q) = 0
  OBVIOUS
<1>6. q # <<>> => Len(q) > 0 /\ Head(q) = q[1]
  OBVIOUS
<1> QED BY <1>1, <1>2, <1>3, <1>4, <1>5, <1>6 DEF r

LEMMA QueueTail ==
  ASSUME NEW S, NEW q \in Seq(S), q # <<>>, IsInjective(q)
  PROVE  /\ Tail(q) \in Seq(S) /\ Head(q) \in ToSet(q) /\ Head(q) \in S
         /\ ToSet(Tail(q)) = ToSet(q) \ {Head(q)} /\ IsInjective(Tail(q))
         /\ Tail(q) # <<>> => Head(Tail(q)) \in ToSet(Tail(q))
<1> DEFINE r == Tail(q)
<1>1. /\ r \in Seq(S) /\ Len(q) \in Nat \ {0} /\ Len(r) = Len(q) - 1
      /\ DOMAIN r = 1..Len(r) /\ DOMAIN q = 1..Len(q) /\ Head(q) = q[1] /\ q[1] \in S
      /\ \A i \in 1..(Len(q) - 1) : r[i] = q[i + 1]
  OBVIOUS
<1>2. r # <<>> => Len(r) > 0 /\ Head(r) = r[1]
  OBVIOUS
<1> HIDE DEF r
<1>3. IsInjective(r)
  <2> SUFFICES ASSUME NEW i \in DOMAIN r, NEW j \in DOMAIN r, r[i] = r[j] PROVE i = j
    BY Zenon DEF IsInjective
  <2>1. i + 1 \in DOMAIN q /\ j + 1 \in DOMAIN q /\ q[i + 1] = q[j + 1] /\ i \in Nat /\ j \in Nat
    BY <1>1
  <2>2. \A k, l \in DOMAIN q : q[k] = q[l] => k = l
    BY Zenon DEF IsInjective
  <2>3. i + 1 = j + 1
    BY <2>1, <2>2, Zenon
  <2> QED BY <2>1, <2>3
<1>4. ToSet(r) = ToSet(q) \ {q[1]}
  <2>1. ASSUME NEW i \in DOMAIN r PROVE r[i] \in ToSet(q) /\ r[i] # q[1]
    BY <1>1 DEF ToSet, IsInjective
  <2>2. ASSUME NEW i \in DOMAIN q, q[i] # q[1] PROVE q[i] \in ToSet(r)
    <3>1. i - 1 \in DOMAIN r /\ r[i - 1] = q[i]
      BY <1>1, <2>2
    <3> QED BY <3>1 DEF ToSet
  <2> QED BY <2>1, <2>2 DEF ToSet
<1>5. q[1] \in ToSet(q)
  BY <1>1 DEF ToSet
<1>6. Len(r) > 0 => r[1] \in ToSet(r)
  BY <1>1 DEF ToSet
<1> QED BY <1>1, <1>2, <1>3, <1>4, <1>5, <1>6 DEF r

\* The head of a queue, and the buffers in it.
LEMMA QueueMembers ==
  ASSUME NEW S, NEW q \in Seq(S)
  PROVE  ToSet(q) \subseteq S /\ (q = <<>> <=> ToSet(q) = {})
         /\ (q # <<>> => Head(q) \in ToSet(q))
<1>1. DOMAIN q = 1..Len(q) /\ Len(q) \in Nat /\ \A i \in 1..Len(q) : q[i] \in S
  OBVIOUS
<1>2. q # <<>> => Len(q) > 0 /\ Head(q) = q[1]
  OBVIOUS
<1>3. q = <<>> => Len(q) = 0
  OBVIOUS
<1>4. ToSet(q) \subseteq S
  BY <1>1 DEF ToSet
<1>5. Len(q) > 0 => q[1] \in ToSet(q)
  BY <1>1 DEF ToSet
<1>6. Len(q) = 0 => ToSet(q) = {}
  BY <1>1 DEF ToSet
<1> QED BY <1>2, <1>3, <1>4, <1>5, <1>6
=============================================================================
