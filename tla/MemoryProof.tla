----------------------------- MODULE MemoryProof ------------------------------
(***************************************************************************)
(* Proofs about Memory: for any number of processes and pages, and any     *)
(* sizes, every page of physical memory is free or held in one place, and  *)
(* the pages mapped for a process are those below its size.                *)
(***************************************************************************)
EXTENDS Memory, RingProof, FiniteSetTheorems

----------------------------------------------------------------------------
(* Who holds which page *)

Keys == Procs \X Kinds

\* What is in slot x of the k-th page table of p, when the page tables are S.
Cell(S, p, k, x) == At(S[<<p, k>>], x)

\* The pages in F are free, and each of the others is in one cell.
NotFree(S, F) == \A p \in Procs, k \in Kinds, x \in Slots : Cell(S, p, k, x) \notin F

Once(S) ==
  \A p, q \in Procs, k, l \in Kinds, x, y \in Slots :
    Cell(S, p, k, x) = Cell(S, q, l, y) /\ Cell(S, p, k, x) # 0 => p = q /\ k = l /\ x = y

Covered(S, F) ==
  \A g \in Pages \ F : \E p \in Procs, k \in Kinds, x \in Slots : Cell(S, p, k, x) = g

Own(S, F) == NotFree(S, F) /\ Once(S) /\ Covered(S, F)

\* Only the k-th page table of p changes.
Frame(S, S2, p, k) ==
  \A q \in Procs, l \in Kinds : q # p \/ l # k => S2[<<q, l>>] = S[<<q, l>>]

\* Only slot x of page table s changes.
SlotFrame(s, s2, x) == \A y \in Slots : y # x => At(s2, y) = At(s, y)

LEMMA PagesPositive == \A g \in Pages : g # 0 /\ g \in 0..NPAGES
BY MemoryAssumption DEF Pages

\* kalloc fills an empty slot.
LEMMA TakeSlot ==
  ASSUME NEW S, NEW S2, NEW F \in SUBSET Pages, Own(S, F),
         NEW p \in Procs, NEW k \in Kinds, NEW x \in Slots, NEW g \in F,
         Frame(S, S2, p, k), SlotFrame(S[<<p, k>>], S2[<<p, k>>], x),
         At(S[<<p, k>>], x) = 0, At(S2[<<p, k>>], x) = g
  PROVE  Own(S2, F \ {g})
<1>1. /\ Cell(S, p, k, x) = 0 /\ Cell(S2, p, k, x) = g
      /\ \A q \in Procs, l \in Kinds, y \in Slots :
            q # p \/ l # k \/ y # x => Cell(S2, q, l, y) = Cell(S, q, l, y)
  BY DEF Cell, Frame, SlotFrame
<1>2. g # 0 /\ g \in Pages
  BY PagesPositive
<1>3. \A q \in Procs, l \in Kinds, y \in Slots : Cell(S2, q, l, y) \notin F \ {g}
  BY <1>1 DEF Own, NotFree
<1>4. ASSUME NEW q \in Procs, NEW r \in Procs, NEW l \in Kinds, NEW m \in Kinds,
             NEW y \in Slots, NEW z \in Slots,
             Cell(S2, q, l, y) = Cell(S2, r, m, z), Cell(S2, q, l, y) # 0
      PROVE  q = r /\ l = m /\ y = z
  <2>1. ASSUME NEW a \in Procs, NEW b \in Kinds, NEW c \in Slots, a # p \/ b # k \/ c # x
        PROVE  Cell(S2, a, b, c) # g
    BY <1>1, <2>1 DEF Own, NotFree, Once
  <2>2. CASE q = p /\ l = k /\ y = x
    BY <1>1, <1>4, <2>1, <2>2
  <2>3. CASE r = p /\ m = k /\ z = x
    BY <1>1, <1>4, <2>1, <2>3
  <2>4. CASE (q # p \/ l # k \/ y # x) /\ (r # p \/ m # k \/ z # x)
    BY <1>1, <1>4, <2>4 DEF Own, Once
  <2> QED BY <2>2, <2>3, <2>4
<1>5. ASSUME NEW h \in Pages \ (F \ {g})
      PROVE  \E q \in Procs, l \in Kinds, y \in Slots : Cell(S2, q, l, y) = h
  <2>1. CASE h = g
    BY <1>1, <2>1
  <2>2. CASE h # g
    <3>1. PICK q \in Procs, l \in Kinds, y \in Slots : Cell(S, q, l, y) = h
      BY <1>5, <2>2 DEF Own, NotFree, Once, Covered
    <3>2. h # 0
      BY PagesPositive
    <3> QED BY <1>1, <3>1, <3>2
  <2> QED BY <2>1, <2>2
<1>6. Once(S2)
  BY <1>4 DEF Once
<1> QED BY <1>3, <1>5, <1>6 DEF Own, NotFree, Covered

\* kfree of the slots X of a page table; what they held becomes free.
LEMMA ReleaseSlots ==
  ASSUME NEW S, NEW S2, NEW F \in SUBSET Pages, Own(S, F),
         NEW p \in Procs, NEW k \in Kinds, NEW X \in SUBSET Slots,
         Frame(S, S2, p, k), \A y \in Slots \ X : At(S2[<<p, k>>], y) = At(S[<<p, k>>], y),
         \A y \in X : At(S2[<<p, k>>], y) = 0
  PROVE  Own(S2, F \union ({At(S[<<p, k>>], y) : y \in X} \ {0}))
<1> DEFINE D == {At(S[<<p, k>>], y) : y \in X} \ {0}
<1>1. /\ \A y \in X : Cell(S2, p, k, y) = 0
      /\ \A q \in Procs, l \in Kinds, y \in Slots :
            q # p \/ l # k \/ y \notin X => Cell(S2, q, l, y) = Cell(S, q, l, y)
  BY DEF Cell, Frame
<1>2. D = {Cell(S, p, k, y) : y \in X} \ {0}
  BY DEF Cell
<1>3. 0 \notin D
  OBVIOUS
<1> HIDE DEF D
<1>4. 0 \notin F
  BY PagesPositive
<1>5. ASSUME NEW q \in Procs, NEW l \in Kinds, NEW y \in Slots
      PROVE  Cell(S2, q, l, y) \notin F \union D
  <2>1. CASE q = p /\ l = k /\ y \in X
    BY <1>1, <1>3, <1>4, <2>1
  <2>2. CASE q # p \/ l # k \/ y \notin X
    <3>1. Cell(S2, q, l, y) = Cell(S, q, l, y) /\ Cell(S, q, l, y) \notin F
      BY <1>1, <2>2 DEF Own, NotFree, Once, Covered
    <3>2. Cell(S, q, l, y) \notin D
      BY <1>2, <2>2 DEF Own, NotFree, Once, Covered
    <3> QED BY <3>1, <3>2
  <2> QED BY <2>1, <2>2
<1>6. ASSUME NEW q \in Procs, NEW r \in Procs, NEW l \in Kinds, NEW m \in Kinds,
             NEW y \in Slots, NEW z \in Slots,
             Cell(S2, q, l, y) = Cell(S2, r, m, z), Cell(S2, q, l, y) # 0
      PROVE  q = r /\ l = m /\ y = z
  <2>1. Cell(S2, q, l, y) = Cell(S, q, l, y) /\ Cell(S2, r, m, z) = Cell(S, r, m, z)
    BY <1>1, <1>6
  <2>2. Cell(S, q, l, y) = Cell(S, r, m, z) /\ Cell(S, q, l, y) # 0
    BY <1>6, <2>1
  <2> QED BY <2>2 DEF Own, Once
<1>7. ASSUME NEW h \in Pages \ (F \union D)
      PROVE  \E q \in Procs, l \in Kinds, y \in Slots : Cell(S2, q, l, y) = h
  <2>1. PICK q \in Procs, l \in Kinds, y \in Slots : Cell(S, q, l, y) = h
    BY <1>7 DEF Own, Covered
  <2>2. h # 0
    BY PagesPositive
  <2>3. ~(q = p /\ l = k /\ y \in X)
    BY <1>2, <1>7, <2>1, <2>2
  <2> QED BY <1>1, <2>1, <2>3
<1>8. NotFree(S2, F \union D) /\ Covered(S2, F \union D)
  BY <1>5, <1>7 DEF NotFree, Covered
<1>9. Once(S2)
  BY <1>6 DEF Once
<1> QED BY <1>8, <1>9 DEF Own, D

\* kfree of one slot.
LEMMA ReleaseSlot ==
  ASSUME NEW S, NEW S2, NEW F \in SUBSET Pages, Own(S, F),
         NEW p \in Procs, NEW k \in Kinds, NEW x \in Slots,
         Frame(S, S2, p, k), SlotFrame(S[<<p, k>>], S2[<<p, k>>], x),
         At(S2[<<p, k>>], x) = 0
  PROVE  Own(S2, F \union ({At(S[<<p, k>>], x)} \ {0}))
<1>1. {At(S[<<p, k>>], y) : y \in {x}} = {At(S[<<p, k>>], x)}
  OBVIOUS
<1>2. {x} \in SUBSET Slots /\ \A y \in {x} : At(S2[<<p, k>>], y) = 0
  OBVIOUS
<1>3. \A y \in Slots \ {x} : At(S2[<<p, k>>], y) = At(S[<<p, k>>], y)
  BY DEF SlotFrame
<1>4. \A X \in SUBSET Slots :
         (\A y \in Slots \ X : At(S2[<<p, k>>], y) = At(S[<<p, k>>], y))
           /\ (\A y \in X : At(S2[<<p, k>>], y) = 0)
         => Own(S2, F \union ({At(S[<<p, k>>], y) : y \in X} \ {0}))
  BY ReleaseSlots
<1>5. Own(S2, F \union ({At(S[<<p, k>>], y) : y \in {x}} \ {0}))
  BY <1>2, <1>3, <1>4, Zenon
<1> QED BY <1>1, <1>5

\* Two page tables change places.
LEMMA SwapSpaces ==
  ASSUME NEW S, NEW S2, NEW F \in SUBSET Pages, Own(S, F),
         NEW p \in Procs, NEW k \in Kinds, NEW q \in Procs, NEW l \in Kinds, p # q \/ k # l,
         \A r \in Procs, m \in Kinds :
           (r # p \/ m # k) /\ (r # q \/ m # l) => S2[<<r, m>>] = S[<<r, m>>],
         \A x \in Slots : /\ At(S2[<<p, k>>], x) = At(S[<<q, l>>], x)
                          /\ At(S2[<<q, l>>], x) = At(S[<<p, k>>], x)
  PROVE  Own(S2, F)
<1>1. /\ \A r \in Procs, m \in Kinds, x \in Slots :
           (r # p \/ m # k) /\ (r # q \/ m # l) => Cell(S2, r, m, x) = Cell(S, r, m, x)
      /\ \A x \in Slots : /\ Cell(S2, p, k, x) = Cell(S, q, l, x)
                          /\ Cell(S2, q, l, x) = Cell(S, p, k, x)
  BY DEF Cell
<1>2. \A r \in Procs, m \in Kinds, x \in Slots : Cell(S2, r, m, x) \notin F
  BY <1>1 DEF Own, NotFree
<1> DEFINE from(r, m) == IF r = p /\ m = k THEN <<q, l>> ELSE IF r = q /\ m = l THEN <<p, k>>
                         ELSE <<r, m>>
<1>3. ASSUME NEW r \in Procs, NEW m \in Kinds
      PROVE  \E a \in Procs, b \in Kinds :
                /\ from(r, m) = <<a, b>>
                /\ \A x \in Slots : Cell(S2, r, m, x) = Cell(S, a, b, x)
  <2>1. CASE r = p /\ m = k
    BY <1>1, <2>1
  <2>2. CASE ~(r = p /\ m = k) /\ r = q /\ m = l
    BY <1>1, <2>2
  <2>3. CASE ~(r = p /\ m = k) /\ ~(r = q /\ m = l)
    <3>1. from(r, m) = <<r, m>>
      BY <2>3
    <3>2. \A x \in Slots : Cell(S2, r, m, x) = Cell(S, r, m, x)
      BY <1>1, <2>3
    <3> QED BY <3>1, <3>2
  <2> QED BY <2>1, <2>2, <2>3
<1>4. ASSUME NEW r \in Procs, NEW m \in Kinds, NEW a \in Procs, NEW b \in Kinds,
             from(r, m) = from(a, b)
      PROVE  r = a /\ m = b
  BY <1>4
<1> HIDE DEF from
<1>5. ASSUME NEW r \in Procs, NEW a \in Procs, NEW m \in Kinds, NEW b \in Kinds,
             NEW x \in Slots, NEW y \in Slots,
             Cell(S2, r, m, x) = Cell(S2, a, b, y), Cell(S2, r, m, x) # 0
      PROVE  r = a /\ m = b /\ x = y
  <2>1. PICK r1 \in Procs, m1 \in Kinds :
           from(r, m) = <<r1, m1>> /\ Cell(S2, r, m, x) = Cell(S, r1, m1, x)
    BY <1>3
  <2>2. PICK a1 \in Procs, b1 \in Kinds :
           from(a, b) = <<a1, b1>> /\ Cell(S2, a, b, y) = Cell(S, a1, b1, y)
    BY <1>3
  <2>3. Cell(S, r1, m1, x) = Cell(S, a1, b1, y) /\ Cell(S, r1, m1, x) # 0
    BY <1>5, <2>1, <2>2
  <2>4. r1 = a1 /\ m1 = b1 /\ x = y
    BY <2>3 DEF Own, Once
  <2> QED BY <1>4, <2>1, <2>2, <2>4
<1>6. ASSUME NEW g \in Pages \ F
      PROVE  \E r \in Procs, m \in Kinds, x \in Slots : Cell(S2, r, m, x) = g
  <2>1. PICK r \in Procs, m \in Kinds, x \in Slots : Cell(S, r, m, x) = g
    BY DEF Own, Covered
  <2>2. CASE r = p /\ m = k
    BY <1>1, <2>1, <2>2
  <2>3. CASE r = q /\ m = l
    BY <1>1, <2>1, <2>3
  <2>4. CASE (r # p \/ m # k) /\ (r # q \/ m # l)
    BY <1>1, <2>1, <2>4
  <2> QED BY <2>2, <2>3, <2>4
<1>7. Once(S2)
  BY <1>5 DEF Once
<1> QED BY <1>2, <1>6, <1>7 DEF Own, NotFree, Covered

----------------------------------------------------------------------------
(* Sizes and pages *)

LEMMA MulMono ==
  ASSUME NEW m \in Nat, NEW i \in Int, NEW j \in Int, i <= j
  PROVE  i * m <= j * m
<1>1. j - i \in Nat
  OBVIOUS
<1>2. (j - i) * m \in Nat
  BY <1>1
<1>3. (j - i) * m = j * m - i * m
  BY Z3
<1>4. i * m \in Int /\ j * m \in Int
  OBVIOUS
<1> QED BY <1>2, <1>3, <1>4

\* PGROUNDUP(x) is the first page that begins at or after x.
LEMMA RoundUp ==
  ASSUME NEW x \in Nat
  PROVE  /\ PGROUNDUP(x) \in Nat
         /\ \A a \in Nat : a * PGSIZE < x <=> a < PGROUNDUP(x)
<1> DEFINE y == x + PGSIZE - 1
           q == y \div PGSIZE
           m == y % PGSIZE
<1>1. PGSIZE \in Nat \ {0} /\ y \in Nat
  BY MemoryAssumption
<1>2. m \in 0..(PGSIZE - 1) /\ q \in Int /\ y = PGSIZE * q + m
  BY <1>1, ModDef
<1>3. PGROUNDUP(x) = q /\ y = x + PGSIZE - 1
  BY DEF PGROUNDUP
<1> HIDE DEF y, q, m
<1>4. PGSIZE * q = q * PGSIZE /\ q * PGSIZE \in Int /\ (q - 1) * PGSIZE = q * PGSIZE - PGSIZE
  BY <1>1, <1>2, Z3
<1>5. q \in Nat
  <2> SUFFICES ASSUME q <= -1 PROVE FALSE
    BY <1>2
  <2>1. q * PGSIZE <= (-1) * PGSIZE
    BY <1>1, <1>2, MulMono
  <2>2. (-1) * PGSIZE = -PGSIZE
    BY <1>1, Z3
  <2> QED BY <1>1, <1>2, <1>4, <2>1, <2>2
<1>6. ASSUME NEW a \in Nat, a < q PROVE a * PGSIZE < x
  <2>1. a <= q - 1 /\ q - 1 \in Int /\ a \in Int /\ a * PGSIZE \in Int
    BY <1>1, <1>5, <1>6
  <2>2. a * PGSIZE <= (q - 1) * PGSIZE
    BY <1>1, <2>1, MulMono
  <2> QED BY <1>1, <1>2, <1>3, <1>4, <2>1, <2>2
<1>7. ASSUME NEW a \in Nat, q <= a PROVE ~(a * PGSIZE < x)
  <2>1. a \in Int /\ a * PGSIZE \in Int
    BY <1>1
  <2>2. q * PGSIZE <= a * PGSIZE
    BY <1>1, <1>2, <1>7, <2>1, MulMono
  <2> QED BY <1>1, <1>2, <1>3, <1>4, <2>1, <2>2
<1> QED BY <1>3, <1>5, <1>6, <1>7

LEMMA RoundUpMono ==
  ASSUME NEW x \in Nat, NEW y \in Nat, x <= y
  PROVE  PGROUNDUP(x) <= PGROUNDUP(y)
<1> DEFINE a == PGROUNDUP(y)
<1>1. a \in Nat /\ PGROUNDUP(x) \in Nat /\ ~(a * PGSIZE < y)
  BY RoundUp
<1>2. PGSIZE \in Nat
  BY MemoryAssumption
<1> HIDE DEF a
<1>3. a * PGSIZE \in Nat
  BY <1>1, <1>2
<1>4. ~(a * PGSIZE < x)
  BY <1>1, <1>3
<1>5. ~(a < PGROUNDUP(x))
  BY <1>1, <1>4, RoundUp
<1> QED BY <1>1, <1>5 DEF a

LEMMA RoundUpZero == PGROUNDUP(0) = 0 /\ \A x \in Nat \ {0} : 0 < PGROUNDUP(x)
<1>1. PGSIZE \in Nat \ {0} /\ 0 * PGSIZE = 0
  BY MemoryAssumption, Z3
<1>2. PGROUNDUP(0) \in Nat /\ ~(0 < PGROUNDUP(0))
  BY <1>1, RoundUp
<1>3. ASSUME NEW x \in Nat \ {0} PROVE 0 < PGROUNDUP(x)
  BY <1>1, <1>3, RoundUp
<1> QED BY <1>2, <1>3

\* How the user's part of the address space is divided.
LEMMA Division ==
  /\ KERNBASE \div PGSIZE \in Nat \ {0} /\ NTAB \in Nat
  /\ (KERNBASE \div PGSIZE) * PGSIZE = KERNBASE
  /\ KERNBASE \div PGSIZE = NTAB * NPTE
<1> DEFINE m == PGSIZE * NPTE
           n == KERNBASE \div PGSIZE
<1>1. PGSIZE \in Nat \ {0} /\ NPTE \in Nat \ {0} /\ KERNBASE \in Nat \ {0} /\ KERNBASE % m = 0
  BY MemoryAssumption
<1>2. m \in Nat \ {0}
  BY <1>1, Z3
<1>3. NTAB = KERNBASE \div m /\ NTAB \in Int /\ KERNBASE = m * NTAB
  <2>1. KERNBASE \div m \in Int /\ KERNBASE = m * (KERNBASE \div m) + (KERNBASE % m)
    <3> HIDE DEF m
    <3>1. KERNBASE \in Int /\ m \in Nat \ {0}
      BY <1>1, <1>2
    <3> QED BY <3>1, ModDef
  <2>2. m * (KERNBASE \div m) \in Int
    BY <1>2, <2>1
  <2> QED BY <1>1, <2>1, <2>2 DEF NTAB
<1>4. KERNBASE = PGSIZE * (NPTE * NTAB) /\ NPTE * NTAB \in Int
  BY <1>1, <1>3, Z3
<1>5. n = NPTE * NTAB
  <2> DEFINE k == NPTE * NTAB
  <2>1. n \in Int /\ KERNBASE % PGSIZE \in 0..(PGSIZE - 1)
        /\ KERNBASE = PGSIZE * n + (KERNBASE % PGSIZE)
    BY <1>1, ModDef
  <2>2. k \in Int /\ KERNBASE = PGSIZE * k + 0 /\ 0 \in 0..(PGSIZE - 1)
    BY <1>1, <1>4
  <2> HIDE DEF n, k
  <2>3. KERNBASE % PGSIZE = 0
    <3>1. (PGSIZE * k + 0) % PGSIZE = 0
      BY <1>1, <2>2, ModUnique
    <3> QED BY <2>2, <3>1, Zenon
  <2>4. PGSIZE * n = PGSIZE * k
    BY <1>1, <2>1, <2>2, <2>3
  <2>5. n = k
    BY <1>1, <2>1, <2>2, <2>4, Z3
  <2> QED BY <2>5 DEF k
<1>6. n * PGSIZE = KERNBASE /\ n \in Int
  BY <1>1, <1>4, <1>5, Z3
<1>7. n \in Nat \ {0}
  <2> HIDE DEF n
  <2> SUFFICES ASSUME n <= 0 PROVE FALSE
    BY <1>6
  <2>1. n * PGSIZE <= 0 * PGSIZE /\ 0 * PGSIZE = 0
    BY <1>1, <1>6, MulMono
  <2> QED BY <1>1, <1>6, <2>1
<1>8. NTAB \in Nat
  <2> SUFFICES ASSUME NTAB <= -1 PROVE FALSE
    BY <1>3
  <2>1. NTAB * NPTE <= (-1) * NPTE /\ (-1) * NPTE = -NPTE /\ NTAB * NPTE = NPTE * NTAB
    BY <1>1, <1>3, MulMono
  <2> QED BY <1>1, <1>5, <1>7, <2>1
<1>9. NTAB * NPTE = NPTE * NTAB
  BY <1>1, <1>3
<1> QED BY <1>5, <1>6, <1>7, <1>8, <1>9

LEMMA UserPageFacts ==
  /\ 0 \in UserPages /\ UserPages \subseteq Nat /\ NTAB \in Tables /\ 0 \in Tables
  /\ \A a \in UserPages : a \div NPTE \in Tables
  /\ \A x \in 0..KERNBASE, a \in Nat : a < PGROUNDUP(x) => a \in UserPages
<1> DEFINE n == KERNBASE \div PGSIZE
<1>1. n \in Nat \ {0} /\ NTAB \in Nat /\ n * PGSIZE = KERNBASE /\ n = NTAB * NPTE
  BY Division
<1>2. UserPages = 0..(n - 1) /\ Tables = 0..NTAB
  BY DEF UserPages, Tables
<1> HIDE DEF n
<1>3. NPTE \in Nat \ {0} /\ KERNBASE \in Nat
  BY MemoryAssumption
<1>4. ASSUME NEW a \in UserPages PROVE a \div NPTE \in Tables
  <2> DEFINE t == a \div NPTE
  <2>1. a \in Nat /\ a < n
    BY <1>1, <1>2
  <2>2. t \in Int /\ a % NPTE \in 0..(NPTE - 1) /\ a = NPTE * t + (a % NPTE)
    BY <1>3, <2>1, ModDef
  <2> HIDE DEF t
  <2>3. NPTE * t = t * NPTE /\ t * NPTE \in Int
    BY <1>3, <2>2, Z3
  <2>4. t >= 0
    <3> SUFFICES ASSUME t <= -1 PROVE FALSE
      BY <2>2
    <3>1. t * NPTE <= (-1) * NPTE /\ (-1) * NPTE = -NPTE
      BY <1>3, <2>2, MulMono
    <3> QED BY <1>3, <2>1, <2>2, <2>3, <3>1
  <2>5. t <= NTAB
    <3> SUFFICES ASSUME NTAB <= t PROVE t <= NTAB
      BY <1>1, <2>2
    <3>1. NTAB * NPTE <= t * NPTE
      BY <1>1, <1>3, <2>2, MulMono
    <3> QED BY <1>1, <2>1, <2>2, <2>3, <3>1
  <2> QED BY <1>1, <1>2, <2>2, <2>4, <2>5 DEF t
<1>5. ASSUME NEW x \in 0..KERNBASE, NEW a \in Nat, a < PGROUNDUP(x) PROVE a \in UserPages
  <2>1. x \in Nat /\ PGROUNDUP(x) \in Nat /\ ~(n * PGSIZE < x)
    BY <1>1, <1>3, RoundUp
  <2>2. ~(n < PGROUNDUP(x))
    BY <1>1, <2>1, RoundUp
  <2> QED BY <1>1, <1>2, <1>5, <2>1, <2>2
<1> QED BY <1>1, <1>2, <1>4, <1>5

\* The guard page lies below the stack, within what exec has mapped.
LEMMA GuardPage ==
  ASSUME NEW x \in Nat, 2 * PGSIZE <= x
  PROVE  x \div PGSIZE - 2 \in Nat /\ x \div PGSIZE - 2 < PGROUNDUP(x)
<1> DEFINE q == x \div PGSIZE
<1>1. PGSIZE \in Nat \ {0}
  BY MemoryAssumption
<1>2. q \in Int /\ x % PGSIZE \in 0..(PGSIZE - 1) /\ x = PGSIZE * q + (x % PGSIZE)
  BY <1>1, ModDef
<1> HIDE DEF q
<1>3. PGSIZE * q = q * PGSIZE /\ q * PGSIZE \in Int
      /\ (q - 2) * PGSIZE = q * PGSIZE - 2 * PGSIZE
  BY <1>1, <1>2, Z3
<1>4. q >= 2
  <2> SUFFICES ASSUME q <= 1 PROVE FALSE
    BY <1>2
  <2>1. q * PGSIZE <= 1 * PGSIZE /\ 1 * PGSIZE = PGSIZE
    BY <1>1, <1>2, MulMono
  <2> QED BY <1>1, <1>2, <1>3, <2>1
<1>5. q - 2 \in Nat /\ (q - 2) * PGSIZE < x
  BY <1>1, <1>2, <1>3, <1>4
<1>6. q - 2 < PGROUNDUP(x)
  BY <1>5, RoundUp
<1> QED BY <1>5, <1>6 DEF q

----------------------------------------------------------------------------
(* The slots of a page table *)

DirSlot == <<"dir", 0>>

LEMMA SlotFacts ==
  /\ DirSlot \in Slots /\ \A t \in Tables : <<"tab", t>> \in Slots
  /\ \A a \in UserPages : <<"map", a>> \in Slots
  /\ \A x \in Slots : \/ x = DirSlot
                      \/ \E t \in Tables : x = <<"tab", t>>
                      \/ \E a \in UserPages : x = <<"map", a>>
  /\ \A s : /\ At(s, DirSlot) = s.dir
            /\ \A t : At(s, <<"tab", t>>) = s.tab[t]
            /\ \A a : At(s, <<"map", a>>) = s.map[a]
BY DEF Slots, DirSlot, At

\* Page tables that differ in one place.
LEMMA SlotSame ==
  ASSUME NEW s, NEW s2, s2.dir = s.dir, s2.tab = s.tab, s2.map = s.map
  PROVE  \A x \in Slots : At(s2, x) = At(s, x)
BY DEF At

LEMMA DirFrame ==
  ASSUME NEW s, NEW s2, s2.tab = s.tab, s2.map = s.map
  PROVE  SlotFrame(s, s2, DirSlot)
<1> SUFFICES ASSUME NEW x \in Slots, x # DirSlot PROVE At(s2, x) = At(s, x)
  BY DEF SlotFrame
<1> QED BY SlotFacts

LEMMA TabFrame ==
  ASSUME NEW s, NEW s2, NEW t \in Tables, s2.dir = s.dir, s2.map = s.map,
         \A u \in Tables : u # t => s2.tab[u] = s.tab[u]
  PROVE  SlotFrame(s, s2, <<"tab", t>>)
<1> SUFFICES ASSUME NEW x \in Slots, x # <<"tab", t>> PROVE At(s2, x) = At(s, x)
  BY DEF SlotFrame
<1> QED BY SlotFacts

LEMMA MapFrame ==
  ASSUME NEW s, NEW s2, NEW a \in UserPages, s2.dir = s.dir, s2.tab = s.tab,
         \A b \in UserPages : b # a => s2.map[b] = s.map[b]
  PROVE  SlotFrame(s, s2, <<"map", a>>)
<1> SUFFICES ASSUME NEW x \in Slots, x # <<"map", a>> PROVE At(s2, x) = At(s, x)
  BY DEF SlotFrame
<1> QED BY SlotFacts

\* The page table with a directory only, which stands for a single page.
Only(g) == [NoSpace EXCEPT !.dir = g]

LEMMA OnlyFacts ==
  /\ NoSpace \in Spaces /\ Mapped(NoSpace) = {} /\ NoSpace.guard = {}
  /\ NoSpace.dir = 0 /\ \A t \in Tables : NoSpace.tab[t] = 0
  /\ \A x \in Slots : At(NoSpace, x) = 0
  /\ \A g : /\ At(Only(g), DirSlot) = g
            /\ \A h : SlotFrame(Only(g), Only(h), DirSlot)
<1>1. /\ NoSpace.dir = 0 /\ NoSpace.tab = [t \in Tables |-> 0] /\ NoSpace.guard = {}
      /\ NoSpace.map = [a \in UserPages |-> 0]
  BY DEF NoSpace
<1>2. 0 \in 0..NPAGES
  BY MemoryAssumption
<1>3. NoSpace \in Spaces
  BY <1>2 DEF NoSpace, Spaces
<1>4. Mapped(NoSpace) = {}
  BY <1>1 DEF Mapped
<1>5. \A x \in Slots : At(NoSpace, x) = 0
  BY <1>1, SlotFacts
<1>6. \A g : Only(g).dir = g /\ Only(g).tab = NoSpace.tab /\ Only(g).map = NoSpace.map
  BY DEF Only, NoSpace
<1>7. \A g : At(Only(g), DirSlot) = g
  BY <1>6, SlotFacts
<1>8. \A g, h : SlotFrame(Only(g), Only(h), DirSlot)
  BY <1>6, DirFrame
<1> QED BY <1>1, <1>3, <1>4, <1>5, <1>7, <1>8

\* The page tables of all processes, those of Space.
Bundle(C, T, K) ==
  [c \in Keys |-> CASE c[2] = "cur" -> C[c[1]]
                    [] c[2] = "new" -> T[c[1]].new
                    [] c[2] = "dead" -> T[c[1]].dead
                    [] c[2] = "kstack" -> Only(K[c[1]])
                    [] c[2] = "mem" -> Only(T[c[1]].mem)]

IsBundle(S, C, T, K) ==
  \A p \in Procs : /\ S[<<p, "cur">>] = C[p]
                   /\ S[<<p, "new">>] = T[p].new
                   /\ S[<<p, "dead">>] = T[p].dead
                   /\ S[<<p, "kstack">>] = Only(K[p])
                   /\ S[<<p, "mem">>] = Only(T[p].mem)

LEMMA BundleFacts ==
  ASSUME NEW C, NEW T, NEW K
  PROVE  IsBundle(Bundle(C, T, K), C, T, K)
BY DEF Bundle, IsBundle, Keys, Kinds

LEMMA FrameBy ==
  ASSUME NEW C, NEW T, NEW K, NEW C2, NEW T2, NEW K2, NEW p \in Procs, NEW k \in Kinds,
         \A q \in Procs : /\ q # p \/ k # "cur" => C2[q] = C[q]
                          /\ q # p \/ k # "new" => T2[q].new = T[q].new
                          /\ q # p \/ k # "dead" => T2[q].dead = T[q].dead
                          /\ q # p \/ k # "kstack" => K2[q] = K[q]
                          /\ q # p \/ k # "mem" => T2[q].mem = T[q].mem
  PROVE  Frame(Bundle(C, T, K), Bundle(C2, T2, K2), p, k)
<1> DEFINE S == Bundle(C, T, K)
           S2 == Bundle(C2, T2, K2)
<1> SUFFICES ASSUME NEW q \in Procs, NEW l \in Kinds, q # p \/ l # k
             PROVE  S2[<<q, l>>] = S[<<q, l>>]
  BY DEF Frame
<1>a. IsBundle(S, C, T, K) /\ IsBundle(S2, C2, T2, K2)
  BY BundleFacts
<1> HIDE DEF S, S2
<1>1. CASE l = "cur"
  BY <1>a, <1>1 DEF IsBundle
<1>2. CASE l = "new"
  BY <1>a, <1>2 DEF IsBundle
<1>3. CASE l = "dead"
  BY <1>a, <1>3 DEF IsBundle
<1>4. CASE l = "kstack"
  <2>1. K2[q] = K[q]
    BY <1>4
  <2>2. S[<<q, "kstack">>] = Only(K[q]) /\ S2[<<q, "kstack">>] = Only(K2[q])
    BY <1>a DEF IsBundle
  <2>3. Only(K2[q]) = Only(K[q])
    BY <2>1, Zenon
  <2> QED BY <1>4, <2>2, <2>3
<1>5. CASE l = "mem"
  <2>1. T2[q].mem = T[q].mem
    BY <1>5
  <2>2. S[<<q, "mem">>] = Only(T[q].mem) /\ S2[<<q, "mem">>] = Only(T2[q].mem)
    BY <1>a DEF IsBundle
  <2>3. Only(T2[q].mem) = Only(T[q].mem)
    BY <2>1, Zenon
  <2> QED BY <1>5, <2>2, <2>3
<1> QED BY <1>1, <1>2, <1>3, <1>4, <1>5 DEF Kinds

\* A page moves from one slot to another.
LEMMA MoveSlot ==
  ASSUME NEW S, NEW S2, NEW F \in SUBSET Pages, Own(S, F),
         NEW p \in Procs, NEW k \in Kinds, NEW x \in Slots,
         NEW q \in Procs, NEW l \in Kinds, NEW y \in Slots, p # q \/ k # l,
         \A r \in Procs, m \in Kinds :
           (r # p \/ m # k) /\ (r # q \/ m # l) => S2[<<r, m>>] = S[<<r, m>>],
         SlotFrame(S[<<p, k>>], S2[<<p, k>>], x), SlotFrame(S[<<q, l>>], S2[<<q, l>>], y),
         At(S[<<p, k>>], x) \in Pages, At(S2[<<p, k>>], x) = 0,
         At(S[<<q, l>>], y) = 0, At(S2[<<q, l>>], y) = At(S[<<p, k>>], x)
  PROVE  Own(S2, F)
<1> DEFINE S1 == [c \in Keys |-> IF c = <<p, k>> THEN S2[c] ELSE S[c]]
           g == At(S[<<p, k>>], x)
<1>1. /\ S1[<<p, k>>] = S2[<<p, k>>]
      /\ \A r \in Procs, m \in Kinds : r # p \/ m # k => S1[<<r, m>>] = S[<<r, m>>]
  BY DEF Keys
<1> HIDE DEF S1
<1>2. g \in Pages /\ g # 0 /\ g \notin F
  <2>1. Cell(S, p, k, x) = g
    BY DEF Cell
  <2> QED BY <2>1, PagesPositive DEF Own, NotFree
<1>3. Own(S1, F \union ({g} \ {0}))
  BY <1>1, ReleaseSlot DEF Frame
<1>4. F \union ({g} \ {0}) = F \union {g} /\ (F \union {g}) \ {g} = F
      /\ F \union {g} \in SUBSET Pages
  BY <1>2
<1>5. Own(S1, F \union {g}) /\ g \in F \union {g}
  BY <1>3, <1>4
<1>6. Frame(S1, S2, q, l)
  BY <1>1 DEF Frame
<1>7. S1[<<q, l>>] = S[<<q, l>>]
  BY <1>1
<1> HIDE DEF g
<1>8. At(S2[<<q, l>>], y) = g
  BY DEF g
<1>9. Own(S2, (F \union {g}) \ {g})
  BY <1>4, <1>5, <1>6, <1>7, <1>8, TakeSlot
<1> QED BY <1>4, <1>9

----------------------------------------------------------------------------
(* The inductive invariant *)

Below(n) == {a \in UserPages : a < n}

\* What a system call holds at each of its steps.
Shape(r) ==
  /\ r.pc = "user" => r = Idle
  /\ r.op = "none" => r.pc = "user"
  /\ r.pc = "dealloc" => r.op = "sbrk"
  /\ r.pc \in {"setupkvm", "kmap"} => r.op \in {"exec", "fork"}
  /\ r.op = "sbrk" => r.pc \in {"alloc", "map", "dealloc"}
  /\ r.op = "wait" => r.pc = "freevm"
  /\ r.dead # NoSpace => r.pc = "freevm" /\ r.dead.dir # 0
  /\ r.new # NoSpace => r.pc \in {"kmap", "alloc", "map"} /\ r.op # "sbrk"
  /\ r.pc = "kmap" => r.new.dir # 0 /\ r.new.tab[NTAB] = 0
  /\ r.pc \in {"alloc", "map"} /\ r.op # "sbrk" => r.new.dir # 0
  /\ r.mem # 0 => r.pc \in {"map", "dealloc"}
  /\ r.pc = "map" => r.mem # 0 /\ r.a * PGSIZE < r.lim /\ (r.op = "exec" => r.lim < KERNBASE)

\* The pages without PTE_U are mapped.
Guarded(m, r) == m.guard \subseteq Mapped(m) /\ r.new.guard \subseteq Mapped(r.new)

\* Outside sbrk the pages below the size z are mapped, or none.
Settled(m, z, r) == r.op # "sbrk" => Mapped(m) = {} \/ Mapped(m) = Below(PGROUNDUP(z))

\* sbrk has mapped the pages up to a.
Growing(m, z, r) ==
  r.op = "sbrk" /\ r.pc # "dealloc" =>
    /\ Mapped(m) = Below(r.a) /\ PGROUNDUP(z) <= r.a /\ r.a <= PGROUNDUP(r.lim)
    /\ r.lim = r.nsz /\ z <= r.lim /\ r.lim <= KERNBASE

\* deallocuvm has unmapped those from its start to a, either to shrink the
\* process or to undo what a failed allocuvm has done.
Unmapping(m, z, r) ==
  r.op = "sbrk" /\ r.pc = "dealloc" =>
    /\ r.lim <= KERNBASE /\ z <= r.lim /\ Mapped(m) \subseteq Below(PGROUNDUP(r.lim))
    /\ \/ /\ r.lim = z /\ r.nsz <= z /\ PGROUNDUP(r.nsz) <= r.a
          /\ Mapped(m) \intersect Below(r.a) = Below(PGROUNDUP(r.nsz))
       \/ /\ r.nsz = 0 /\ PGROUNDUP(z) <= r.a
          /\ Mapped(m) \intersect Below(r.a) = Below(PGROUNDUP(z))

\* exec and fork build a page table that is mapped up to a.
Building(z, r) ==
  /\ r.pc \in {"setupkvm", "kmap"} => Mapped(r.new) = {} /\ (r.op = "fork" => r.nsz = z)
  /\ r.pc \in {"alloc", "map"} /\ r.op # "sbrk" =>
       /\ Mapped(r.new) = Below(r.a) /\ r.a <= PGROUNDUP(r.lim) /\ r.nsz = r.lim
       /\ r.op = "fork" => r.lim = z
       /\ r.op = "execstack" => r.lim < KERNBASE /\ 2 * PGSIZE <= r.lim

Fits(m, z, r) ==
  Guarded(m, r) /\ Settled(m, z, r) /\ Growing(m, z, r) /\ Unmapping(m, z, r) /\ Building(z, r)

Sound(p) == Shape(st[p]) /\ Fits(cur[p], sz[p], st[p])

WithChild(p) == st[p].op \in {"fork", "wait"}

\* Who has a page table, and who is whose embryo.
Family ==
  /\ \A p \in Procs :
       /\ state[p] # "live" => st[p] = Idle
       /\ state[p] \in {"unused", "embryo"} => cur[p] = NoSpace
       /\ state[p] = "unused" => kstack[p] = 0
       /\ state[p] \in {"live", "zombie"} => cur[p].dir # 0
       /\ WithChild(p) => state[st[p].child] = "embryo"
  /\ \A p, q \in Procs : WithChild(p) /\ WithChild(q) /\ st[p].child = st[q].child => p = q

Owned == Own(Bundle(cur, st, kstack), free)

MemoryInv == TypeOK /\ (\A p \in Procs : Sound(p)) /\ Family /\ Owned

LEMMA BelowNext ==
  ASSUME NEW a \in UserPages
  PROVE  Below(a + 1) = Below(a) \union {a} /\ a \notin Below(a)
<1>1. a \in Nat /\ \A b \in UserPages : b \in Nat
  BY UserPageFacts
<1>2. \A b \in UserPages : b < a + 1 <=> b < a \/ b = a
  BY <1>1
<1>3. ~(a < a)
  BY <1>1
<1> QED BY <1>2, <1>3 DEF Below

LEMMA BelowZero == Below(0) = {}
<1>1. \A b \in UserPages : ~(b < 0)
  BY UserPageFacts
<1> QED BY <1>1 DEF Below

LEMMA IdleFacts ==
  /\ Idle \in Calls /\ Shape(Idle) /\ Idle.op = "none" /\ Idle.pc = "user" /\ Idle.a = 0
  /\ Idle.new = NoSpace /\ Idle.dead = NoSpace /\ Idle.mem = 0 /\ Idle.child = InitProc
  /\ Idle.lim = 0 /\ Idle.nsz = 0
<1>1. /\ Idle.op = "none" /\ Idle.pc = "user" /\ Idle.a = 0
      /\ Idle.new = NoSpace /\ Idle.dead = NoSpace /\ Idle.mem = 0 /\ Idle.child = InitProc
      /\ Idle.lim = 0 /\ Idle.nsz = 0
  BY DEF Idle
<1>2. InitProc \in Procs /\ 0 \in 0..NPAGES /\ NoSpace \in Spaces
  BY MemoryAssumption, OnlyFacts
<1>3. Idle \in Calls
  BY <1>2 DEF Idle, Calls, PCs
<1>4. Shape(Idle)
  BY <1>1 DEF Shape
<1> QED BY <1>1, <1>3, <1>4

----------------------------------------------------------------------------
(* Steps that change one call *)

LEMMA Unpack ==
  ASSUME MemoryInv, NEW p \in Procs
  PROVE  /\ st[p] \in Calls /\ cur[p] \in Spaces /\ sz[p] \in 0..KERNBASE
         /\ kstack[p] \in 0..NPAGES /\ free \in SUBSET Pages /\ Owned
         /\ Shape(st[p]) /\ Fits(cur[p], sz[p], st[p])
         /\ st[p].pc # "user" => state[p] = "live"
         /\ state[p] = "live" => cur[p].dir # 0
<1>1. /\ st[p] \in Calls /\ cur[p] \in Spaces /\ sz[p] \in 0..KERNBASE
      /\ kstack[p] \in 0..NPAGES /\ free \in SUBSET Pages
  BY DEF MemoryInv, TypeOK
<1>2. Shape(st[p]) /\ Fits(cur[p], sz[p], st[p])
  BY DEF MemoryInv, Sound
<1>3. st[p].pc # "user" => state[p] = "live"
  BY IdleFacts DEF MemoryInv, Family
<1>4. state[p] = "live" => cur[p].dir # 0
  BY DEF MemoryInv, Family
<1> QED BY <1>1, <1>2, <1>3, <1>4 DEF MemoryInv

LEMMA CallFacts ==
  ASSUME NEW r \in Calls
  PROVE  /\ r.pc \in PCs /\ r.op \in {"none", "sbrk", "exec", "execstack", "fork", "wait"}
         /\ r.new \in Spaces /\ r.dead \in Spaces /\ r.a \in Nat /\ r.lim \in Nat /\ r.nsz \in Nat
         /\ r.mem \in 0..NPAGES /\ r.child \in Procs
BY DEF Calls

LEMMA LocalStep ==
  ASSUME MemoryInv, NEW p \in Procs, NEW m \in Spaces, NEW z \in 0..KERNBASE, NEW r \in Calls,
         cur' = [cur EXCEPT ![p] = m], sz' = [sz EXCEPT ![p] = z], st' = [st EXCEPT ![p] = r],
         UNCHANGED <<state, parent, kstack>>, free' \in SUBSET Pages,
         state[p] = "live", m.dir # 0, Shape(r), Fits(m, z, r),
         r.op \in {"fork", "wait"} => WithChild(p) /\ r.child = st[p].child
  PROVE  TypeOK' /\ (\A q \in Procs : Sound(q)') /\ Family'
<1>1. /\ cur \in [Procs -> Spaces] /\ sz \in [Procs -> 0..KERNBASE] /\ st \in [Procs -> Calls]
      /\ state \in [Procs -> {"unused", "embryo", "live", "zombie"}]
      /\ parent \in [Procs -> Procs] /\ kstack \in [Procs -> 0..NPAGES]
  BY DEF MemoryInv, TypeOK
<1>2. /\ cur'[p] = m /\ sz'[p] = z /\ st'[p] = r
      /\ \A q \in Procs : q # p => cur'[q] = cur[q] /\ sz'[q] = sz[q] /\ st'[q] = st[q]
  BY <1>1
<1>3. TypeOK'
  <2>1. cur' \in [Procs -> Spaces]
    BY <1>1
  <2>2. sz' \in [Procs -> 0..KERNBASE] /\ st' \in [Procs -> Calls]
    BY <1>1
  <2> QED BY <1>1, <2>1, <2>2 DEF TypeOK
<1>4. ASSUME NEW q \in Procs PROVE Sound(q)'
  <2>1. CASE q = p
    BY <1>2, <2>1 DEF Sound
  <2>2. CASE q # p
    BY <1>2, <2>2 DEF Sound, MemoryInv
  <2> QED BY <2>1, <2>2
<1>5. ASSUME NEW q \in Procs
      PROVE  /\ WithChild(q)' => WithChild(q) /\ st'[q].child = st[q].child
             /\ state'[q] = state[q] /\ kstack'[q] = kstack[q]
  <2>1. CASE q = p
    BY <1>2, <2>1 DEF WithChild
  <2>2. CASE q # p
    BY <1>2, <2>2 DEF WithChild
  <2> QED BY <2>1, <2>2
<1>6. ASSUME NEW q \in Procs
      PROVE  /\ state'[q] # "live" => st'[q] = Idle
             /\ state'[q] \in {"unused", "embryo"} => cur'[q] = NoSpace
             /\ state'[q] = "unused" => kstack'[q] = 0
             /\ state'[q] \in {"live", "zombie"} => cur'[q].dir # 0
             /\ WithChild(q)' => state'[st'[q].child] = "embryo"
  <2>1. CASE q = p
    BY <1>2, <1>5, <2>1 DEF MemoryInv, Family
  <2>2. CASE q # p
    BY <1>2, <1>5, <2>2 DEF MemoryInv, Family
  <2> QED BY <2>1, <2>2
<1>7. \A q, u \in Procs : WithChild(q)' /\ WithChild(u)' /\ st'[q].child = st'[u].child => q = u
  BY <1>5 DEF MemoryInv, Family
<1> QED BY <1>3, <1>4, <1>6, <1>7 DEF Family

\* A page table that stays as it is.
LEMMA Keep ==
  ASSUME MemoryInv, NEW p \in Procs
  PROVE  /\ cur = [cur EXCEPT ![p] = cur[p]] /\ sz = [sz EXCEPT ![p] = sz[p]]
         /\ cur \in [Procs -> Spaces] /\ st \in [Procs -> Calls]
         /\ kstack \in [Procs -> 0..NPAGES]
<1>1. /\ cur \in [Procs -> Spaces] /\ sz \in [Procs -> 0..KERNBASE] /\ st \in [Procs -> Calls]
      /\ kstack \in [Procs -> 0..NPAGES]
  BY DEF MemoryInv, TypeOK
<1> QED BY <1>1

\* A step after which the call holds the same pages.
LEMMA SamePages ==
  ASSUME MemoryInv, NEW p \in Procs, NEW r \in Calls, st' = [st EXCEPT ![p] = r],
         r.new = st[p].new, r.dead = st[p].dead, r.mem = st[p].mem,
         UNCHANGED <<free, cur, kstack>>
  PROVE  Owned'
<1>1. st \in [Procs -> Calls]
  BY Keep
<1>2. \A q \in Procs : /\ st'[q].new = st[q].new /\ st'[q].dead = st[q].dead
                       /\ st'[q].mem = st[q].mem
  BY <1>1
<1>3. Bundle(cur', st', kstack') = Bundle(cur, st, kstack)
  BY <1>2 DEF Bundle, Keys
<1> QED BY <1>3 DEF Owned, MemoryInv

----------------------------------------------------------------------------
(* What a call does with the pages it holds.  C, T and K stand for cur, st   *)
(* and kstack, F for the free pages; T2 is T after the step.                 *)

OnlyMem(T, T2, p) ==
  \A q \in Procs : /\ T2[q].new = T[q].new /\ T2[q].dead = T[q].dead
                   /\ q # p => T2[q].mem = T[q].mem

LEMMA MemFrame ==
  ASSUME NEW C, NEW T, NEW T2, NEW K, NEW p \in Procs, OnlyMem(T, T2, p)
  PROVE  /\ Frame(Bundle(C, T, K), Bundle(C, T2, K), p, "mem")
         /\ Bundle(C, T, K)[<<p, "mem">>] = Only(T[p].mem)
         /\ Bundle(C, T2, K)[<<p, "mem">>] = Only(T2[p].mem)
<1> DEFINE S == Bundle(C, T, K)
           S2 == Bundle(C, T2, K)
<1>1. \A q \in Procs : /\ q # p \/ "mem" # "cur" => C[q] = C[q]
                       /\ q # p \/ "mem" # "new" => T2[q].new = T[q].new
                       /\ q # p \/ "mem" # "dead" => T2[q].dead = T[q].dead
                       /\ q # p \/ "mem" # "kstack" => K[q] = K[q]
                       /\ q # p \/ "mem" # "mem" => T2[q].mem = T[q].mem
  BY DEF OnlyMem
<1>2. Frame(S, S2, p, "mem")
  BY <1>1, FrameBy DEF Kinds
<1>3. IsBundle(S, C, T, K) /\ IsBundle(S2, C, T2, K)
  BY BundleFacts
<1> HIDE DEF S, S2
<1>4. S[<<p, "mem">>] = Only(T[p].mem) /\ S2[<<p, "mem">>] = Only(T2[p].mem)
  BY <1>3 DEF IsBundle
<1> QED BY <1>2, <1>4 DEF S, S2

\* kfree(mem).
LEMMA MemRelease ==
  ASSUME NEW C, NEW T, NEW T2, NEW K, NEW F \in SUBSET Pages, Own(Bundle(C, T, K), F),
         NEW p \in Procs, OnlyMem(T, T2, p), T2[p].mem = 0
  PROVE  Own(Bundle(C, T2, K), F \union ({T[p].mem} \ {0}))
<1> DEFINE S == Bundle(C, T, K)
           S2 == Bundle(C, T2, K)
<1>1. Frame(S, S2, p, "mem") /\ S[<<p, "mem">>] = Only(T[p].mem)
      /\ S2[<<p, "mem">>] = Only(T2[p].mem)
  BY MemFrame
<1>2. /\ SlotFrame(Only(T[p].mem), Only(T2[p].mem), DirSlot) /\ DirSlot \in Slots
      /\ At(Only(T[p].mem), DirSlot) = T[p].mem /\ At(Only(T2[p].mem), DirSlot) = 0
  BY OnlyFacts, SlotFacts
<1> HIDE DEF S, S2
<1>3. Own(S, F)
  BY DEF S
<1>4. Own(S2, F \union ({At(S[<<p, "mem">>], DirSlot)} \ {0}))
  BY <1>1, <1>2, <1>3, ReleaseSlot DEF Kinds
<1> QED BY <1>1, <1>2, <1>4 DEF S2

\* mem = kalloc().
LEMMA MemTake ==
  ASSUME NEW C, NEW T, NEW T2, NEW K, NEW F \in SUBSET Pages, Own(Bundle(C, T, K), F),
         NEW p \in Procs, OnlyMem(T, T2, p), T[p].mem = 0, NEW g \in F, T2[p].mem = g
  PROVE  Own(Bundle(C, T2, K), F \ {g})
<1> DEFINE S == Bundle(C, T, K)
           S2 == Bundle(C, T2, K)
<1>1. Frame(S, S2, p, "mem") /\ S[<<p, "mem">>] = Only(T[p].mem)
      /\ S2[<<p, "mem">>] = Only(T2[p].mem)
  BY MemFrame
<1>2. /\ SlotFrame(Only(T[p].mem), Only(T2[p].mem), DirSlot) /\ DirSlot \in Slots
      /\ At(Only(T[p].mem), DirSlot) = 0 /\ At(Only(T2[p].mem), DirSlot) = g
  BY OnlyFacts, SlotFacts
<1> HIDE DEF S, S2
<1>3. Own(S, F)
  BY DEF S
<1>4. Own(S2, F \ {g})
  BY <1>1, <1>2, <1>3, TakeSlot DEF Kinds
<1> QED BY <1>4 DEF S2

\* The page table a call builds, and the one it takes apart.
OnlySpaces(T, T2, p) ==
  \A q \in Procs : /\ T2[q].mem = T[q].mem
                   /\ q # p => T2[q].new = T[q].new /\ T2[q].dead = T[q].dead

\* Abandon: the page table being built is to be freed.
LEMMA GiveUp ==
  ASSUME NEW C, NEW T, NEW T2, NEW K, NEW F \in SUBSET Pages, Own(Bundle(C, T, K), F),
         NEW p \in Procs, OnlySpaces(T, T2, p), T[p].dead = NoSpace, T2[p].new = NoSpace,
         T2[p].dead = T[p].new
  PROVE  Own(Bundle(C, T2, K), F)
<1> DEFINE S == Bundle(C, T, K)
           S2 == Bundle(C, T2, K)
<1>1. IsBundle(S, C, T, K) /\ IsBundle(S2, C, T2, K)
  BY BundleFacts
<1> HIDE DEF S, S2
<1>2. S2[<<p, "new">>] = S[<<p, "dead">>] /\ S2[<<p, "dead">>] = S[<<p, "new">>]
  BY <1>1 DEF IsBundle
<1>3. ASSUME NEW q \in Procs, NEW m \in Kinds, q # p \/ m # "new", q # p \/ m # "dead"
      PROVE  S2[<<q, m>>] = S[<<q, m>>]
  <2>1. CASE m = "cur"
    BY <1>1, <2>1 DEF IsBundle
  <2>2. CASE m = "new"
    BY <1>1, <1>3, <2>2 DEF IsBundle, OnlySpaces
  <2>3. CASE m = "dead"
    BY <1>1, <1>3, <2>3 DEF IsBundle, OnlySpaces
  <2>4. CASE m = "kstack"
    <3>1. S[<<q, "kstack">>] = Only(K[q]) /\ S2[<<q, "kstack">>] = Only(K[q])
      BY <1>1 DEF IsBundle
    <3> QED BY <2>4, <3>1
  <2>5. CASE m = "mem"
    <3>1. S[<<q, "mem">>] = Only(T[q].mem) /\ S2[<<q, "mem">>] = Only(T2[q].mem)
      BY <1>1 DEF IsBundle
    <3>2. T2[q].mem = T[q].mem
      BY DEF OnlySpaces
    <3>3. Only(T2[q].mem) = Only(T[q].mem)
      BY <3>2, Zenon
    <3> QED BY <2>5, <3>1, <3>3
  <2> QED BY <2>1, <2>2, <2>3, <2>4, <2>5 DEF Kinds
<1>4. Own(S, F) /\ "new" \in Kinds /\ "dead" \in Kinds /\ "new" # "dead"
  BY DEF S, Kinds
<1>5. Own(S2, F)
  BY <1>2, <1>3, <1>4, SwapSpaces
<1> QED BY <1>5 DEF S2

----------------------------------------------------------------------------
(* sbrk *)

\* A process in user mode has no call, and the pages below its size.
LEMMA UserFacts ==
  ASSUME MemoryInv, NEW p \in Procs, InUser(p)
  PROVE  /\ st[p] = Idle /\ state[p] = "live" /\ cur[p].guard \subseteq Mapped(cur[p])
         /\ Mapped(cur[p]) = Below(PGROUNDUP(sz[p]))
<1>1. Shape(st[p]) /\ Fits(cur[p], sz[p], st[p])
  BY Unpack
<1>2. st[p] = Idle /\ state[p] = "live"
  BY <1>1 DEF Shape, InUser
<1>3. st[p].op = "none"
  BY <1>2, IdleFacts
<1>4. 0 \in Mapped(cur[p])
  BY UserPageFacts DEF InUser, Mapped
<1>5. Mapped(cur[p]) = {} \/ Mapped(cur[p]) = Below(PGROUNDUP(sz[p]))
  BY <1>1, <1>3 DEF Fits, Settled
<1>6. cur[p].guard \subseteq Mapped(cur[p])
  BY <1>1 DEF Fits, Guarded
<1> QED BY <1>2, <1>4, <1>5, <1>6

LEMMA GrowInv ==
  ASSUME MemoryInv, NEW p \in Procs, Grow(p)
  PROVE  MemoryInv'
<1> DEFINE newsz(n) == (sz[p] + n) % WORD
           call(n) == AllocUvm([Idle EXCEPT !.op = "sbrk", !.nsz = newsz(n)], sz[p], newsz(n))
<1>1. PICK n \in Grows : /\ InUser(p) /\ newsz(n) < KERNBASE /\ newsz(n) >= sz[p]
                         /\ st' = [st EXCEPT ![p] = call(n)]
                         /\ UNCHANGED <<free, state, parent, kstack, cur, sz>>
  BY DEF Grow, Go
<1> DEFINE v == newsz(n)
           r == call(n)
<1>2. /\ sz[p] \in Nat /\ sz[p] \in 0..KERNBASE /\ cur[p] \in Spaces /\ cur[p].dir # 0
      /\ free \in SUBSET Pages
  BY <1>1, Unpack, UserFacts, MemoryAssumption
<1>3. v \in Nat
  <2>1. n \in Nat /\ WORD \in Nat \ {0}
    BY MemoryAssumption
  <2>2. sz[p] + n \in Int
    BY <1>2, <2>1
  <2> QED BY <2>1, <2>2, ModDef
<1>4. v < KERNBASE /\ v >= sz[p]
  BY <1>1
<1>5. PGROUNDUP(sz[p]) \in Nat /\ PGROUNDUP(sz[p]) <= PGROUNDUP(v)
  <2> HIDE DEF v
  <2> QED BY <1>2, <1>3, <1>4, RoundUp, RoundUpMono
<1> HIDE DEF newsz
<1>6. /\ r.pc = "alloc" /\ r.op = "sbrk" /\ r.a = PGROUNDUP(sz[p]) /\ r.lim = v /\ r.nsz = v
      /\ r.new = NoSpace /\ r.dead = NoSpace /\ r.mem = 0 /\ r.child = InitProc /\ r \in Calls
  <2> HIDE DEF v
  <2>1. r = AllocUvm([Idle EXCEPT !.op = "sbrk", !.nsz = v], sz[p], v)
    BY DEF v
  <2> HIDE DEF r
  <2> QED BY <1>3, <1>5, <2>1, IdleFacts DEF AllocUvm, Calls, Idle, PCs
<1> HIDE DEF v, r
<1>7. Shape(r)
  BY <1>6 DEF Shape
<1>8. Fits(cur[p], sz[p], r)
  <2>1. Mapped(cur[p]) = Below(PGROUNDUP(sz[p])) /\ cur[p].guard \subseteq Mapped(cur[p])
    BY <1>1, UserFacts
  <2>2. Guarded(cur[p], r)
    BY <1>6, <2>1, OnlyFacts DEF Guarded
  <2>3. Growing(cur[p], sz[p], r)
    BY <1>2, <1>3, <1>4, <1>5, <1>6, <2>1, MemoryAssumption DEF Growing
  <2>4. Settled(cur[p], sz[p], r) /\ Unmapping(cur[p], sz[p], r) /\ Building(sz[p], r)
    BY <1>6 DEF Settled, Unmapping, Building
  <2> QED BY <2>2, <2>3, <2>4 DEF Fits
<1>9. st' = [st EXCEPT ![p] = r] /\ st[p] = Idle /\ state[p] = "live"
  BY <1>1, UserFacts DEF r
<1>10. /\ cur' = [cur EXCEPT ![p] = cur[p]] /\ sz' = [sz EXCEPT ![p] = sz[p]]
       /\ UNCHANGED <<state, parent, kstack>> /\ free' \in SUBSET Pages
  BY <1>1, <1>2, Keep
<1>11. r.op \notin {"fork", "wait"}
  BY <1>6
<1>12. TypeOK' /\ (\A q \in Procs : Sound(q)') /\ Family'
  BY <1>2, <1>6, <1>7, <1>8, <1>9, <1>10, <1>11, LocalStep
<1>13. Owned'
  <2>1. r.new = st[p].new /\ r.dead = st[p].dead /\ r.mem = st[p].mem
    BY <1>6, <1>9, IdleFacts
  <2>2. UNCHANGED <<free, cur, kstack>>
    BY <1>1
  <2> QED BY <1>6, <1>9, <2>1, <2>2, SamePages
<1> QED BY <1>12, <1>13 DEF MemoryInv

LEMMA BelowMono ==
  ASSUME NEW i \in Nat, NEW j \in Nat, i <= j
  PROVE  Below(i) \subseteq Below(j)
<1>1. \A b \in UserPages : b < i => b < j
  BY UserPageFacts
<1> QED BY <1>1 DEF Below

\* A loop over pages has ended.
LEMMA LoopEnd ==
  ASSUME NEW a \in Nat, NEW x \in Nat, a * PGSIZE >= x
  PROVE  PGROUNDUP(x) \in Nat /\ PGROUNDUP(x) <= a
<1>1. PGSIZE \in Nat
  BY MemoryAssumption
<1>2. a * PGSIZE \in Nat
  BY <1>1
<1>3. ~(a * PGSIZE < x)
  BY <1>2
<1>4. PGROUNDUP(x) \in Nat /\ ~(a < PGROUNDUP(x))
  BY <1>3, RoundUp
<1> QED BY <1>4

LEMMA FitsIdle ==
  ASSUME NEW m, NEW z, m.guard \subseteq Mapped(m),
         Mapped(m) = {} \/ Mapped(m) = Below(PGROUNDUP(z))
  PROVE  Fits(m, z, Idle)
<1>1. Guarded(m, Idle)
  BY IdleFacts, OnlyFacts DEF Guarded
<1>2. Settled(m, z, Idle)
  BY DEF Settled
<1>3. Growing(m, z, Idle) /\ Unmapping(m, z, Idle) /\ Building(z, Idle)
  BY IdleFacts DEF Growing, Unmapping, Building
<1> QED BY <1>1, <1>2, <1>3 DEF Fits

LEMMA ShrinkInv ==
  ASSUME MemoryInv, NEW p \in Procs, Shrink(p)
  PROVE  MemoryInv'
<1> DEFINE newsz(n) == (sz[p] - n) % WORD
           call(n) == [Idle EXCEPT !.pc = "dealloc", !.op = "sbrk", !.a = PGROUNDUP(newsz(n)),
                                   !.lim = sz[p], !.nsz = newsz(n)]
<1>1. PICK n \in Shrinks : /\ InUser(p) /\ newsz(n) < sz[p] /\ st' = [st EXCEPT ![p] = call(n)]
                           /\ UNCHANGED <<free, state, parent, kstack, cur, sz>>
  BY DEF Shrink, Go
<1> DEFINE v == newsz(n)
           r == call(n)
<1>2. /\ sz[p] \in Nat /\ sz[p] \in 0..KERNBASE /\ cur[p] \in Spaces /\ cur[p].dir # 0
      /\ free \in SUBSET Pages
  BY <1>1, Unpack, UserFacts, MemoryAssumption
<1>3. v \in Nat
  <2>1. n \in Nat /\ WORD \in Nat \ {0}
    BY MemoryAssumption
  <2>2. sz[p] - n \in Int
    BY <1>2, <2>1
  <2> QED BY <2>1, <2>2, ModDef
<1>4. v < sz[p]
  BY <1>1
<1>5. PGROUNDUP(v) \in Nat /\ PGROUNDUP(sz[p]) \in Nat /\ PGROUNDUP(v) <= PGROUNDUP(sz[p])
  <2> HIDE DEF v
  <2>1. v <= sz[p]
    BY <1>2, <1>3, <1>4
  <2> QED BY <1>2, <1>3, <2>1, RoundUp, RoundUpMono
<1> HIDE DEF newsz
<1>6. /\ r.pc = "dealloc" /\ r.op = "sbrk" /\ r.a = PGROUNDUP(v) /\ r.lim = sz[p] /\ r.nsz = v
      /\ r.new = NoSpace /\ r.dead = NoSpace /\ r.mem = 0 /\ r.child = InitProc /\ r \in Calls
  <2> HIDE DEF v
  <2>1. r = [Idle EXCEPT !.pc = "dealloc", !.op = "sbrk", !.a = PGROUNDUP(v),
                         !.lim = sz[p], !.nsz = v]
    BY DEF v
  <2> HIDE DEF r
  <2> QED BY <1>2, <1>3, <1>5, <2>1, IdleFacts DEF Calls, Idle, PCs
<1> HIDE DEF v, r
<1>7. Shape(r)
  BY <1>6 DEF Shape
<1>8. Fits(cur[p], sz[p], r)
  <2>1. Mapped(cur[p]) = Below(PGROUNDUP(sz[p])) /\ cur[p].guard \subseteq Mapped(cur[p])
    BY <1>1, UserFacts
  <2>2. Guarded(cur[p], r)
    BY <1>6, <2>1, OnlyFacts DEF Guarded
  <2>3. Below(PGROUNDUP(v)) \subseteq Below(PGROUNDUP(sz[p]))
    BY <1>5, BelowMono
  <2>4. sz[p] <= KERNBASE /\ sz[p] <= sz[p] /\ v <= sz[p] /\ PGROUNDUP(v) <= PGROUNDUP(v)
    BY <1>2, <1>3, <1>4, <1>5, MemoryAssumption
  <2>5. Mapped(cur[p]) \intersect Below(PGROUNDUP(v)) = Below(PGROUNDUP(v))
    BY <2>1, <2>3
  <2>6. Unmapping(cur[p], sz[p], r)
    BY <1>6, <2>1, <2>4, <2>5 DEF Unmapping
  <2>7. Settled(cur[p], sz[p], r) /\ Growing(cur[p], sz[p], r) /\ Building(sz[p], r)
    BY <1>6 DEF Settled, Growing, Building
  <2> QED BY <2>2, <2>6, <2>7 DEF Fits
<1>9. st' = [st EXCEPT ![p] = r] /\ st[p] = Idle /\ state[p] = "live"
  BY <1>1, UserFacts DEF r
<1>10. /\ cur' = [cur EXCEPT ![p] = cur[p]] /\ sz' = [sz EXCEPT ![p] = sz[p]]
       /\ UNCHANGED <<state, parent, kstack>> /\ free' \in SUBSET Pages
  BY <1>1, <1>2, Keep
<1>11. r.op \notin {"fork", "wait"}
  BY <1>6
<1>12. TypeOK' /\ (\A q \in Procs : Sound(q)') /\ Family'
  BY <1>2, <1>6, <1>7, <1>8, <1>9, <1>10, <1>11, LocalStep
<1>13. Owned'
  <2>1. r.new = st[p].new /\ r.dead = st[p].dead /\ r.mem = st[p].mem
    BY <1>6, <1>9, IdleFacts
  <2>2. UNCHANGED <<free, cur, kstack>>
    BY <1>1
  <2> QED BY <1>6, <1>9, <2>1, <2>2, SamePages
<1> QED BY <1>12, <1>13 DEF MemoryInv

LEMMA ExecInv ==
  ASSUME MemoryInv, NEW p \in Procs, Exec(p)
  PROVE  MemoryInv'
<1> DEFINE call(n) == [Idle EXCEPT !.pc = "setupkvm", !.op = "exec", !.nsz = n]
<1>1. PICK n \in ExecSizes : InUser(p) /\ st' = [st EXCEPT ![p] = call(n)]
  BY DEF Exec, Go
<1>2. UNCHANGED <<free, state, parent, kstack, cur, sz>>
  BY DEF Exec
<1> DEFINE r == call(n)
<1>3. /\ sz[p] \in 0..KERNBASE /\ cur[p] \in Spaces /\ cur[p].dir # 0 /\ free \in SUBSET Pages
  BY <1>1, Unpack, UserFacts
<1>4. n \in Nat
  BY MemoryAssumption
<1>5. /\ r.pc = "setupkvm" /\ r.op = "exec" /\ r.new = NoSpace /\ r.dead = NoSpace /\ r.mem = 0
      /\ r \in Calls
  <2>1. r = [Idle EXCEPT !.pc = "setupkvm", !.op = "exec", !.nsz = n]
    OBVIOUS
  <2> HIDE DEF r
  <2> QED BY <1>4, <2>1, IdleFacts DEF Calls, Idle, PCs
<1> HIDE DEF r
<1>6. Shape(r)
  BY <1>5 DEF Shape
<1>7. Fits(cur[p], sz[p], r)
  <2>1. Mapped(cur[p]) = Below(PGROUNDUP(sz[p])) /\ cur[p].guard \subseteq Mapped(cur[p])
    BY <1>1, UserFacts
  <2>2. Guarded(cur[p], r) /\ Building(sz[p], r)
    BY <1>5, <2>1, OnlyFacts DEF Guarded, Building
  <2>3. Settled(cur[p], sz[p], r) /\ Growing(cur[p], sz[p], r) /\ Unmapping(cur[p], sz[p], r)
    BY <1>5, <2>1 DEF Settled, Growing, Unmapping
  <2> QED BY <2>2, <2>3 DEF Fits
<1>8. st' = [st EXCEPT ![p] = r] /\ st[p] = Idle /\ state[p] = "live"
  BY <1>1, UserFacts DEF r
<1>9. /\ cur' = [cur EXCEPT ![p] = cur[p]] /\ sz' = [sz EXCEPT ![p] = sz[p]]
      /\ UNCHANGED <<state, parent, kstack>> /\ free' \in SUBSET Pages
  BY <1>2, <1>3, Keep
<1>10. r.op \notin {"fork", "wait"}
  BY <1>5
<1>11. TypeOK' /\ (\A q \in Procs : Sound(q)') /\ Family'
  BY <1>3, <1>5, <1>6, <1>7, <1>8, <1>9, <1>10, LocalStep
<1>12. Owned'
  <2>1. r.new = st[p].new /\ r.dead = st[p].dead /\ r.mem = st[p].mem
    BY <1>5, <1>8, IdleFacts
  <2>2. UNCHANGED <<free, cur, kstack>>
    BY <1>2
  <2> QED BY <1>5, <1>8, <2>1, <2>2, SamePages
<1> QED BY <1>11, <1>12 DEF MemoryInv

LEMMA GrowEndInv ==
  ASSUME MemoryInv, NEW p \in Procs, GrowEnd(p)
  PROVE  MemoryInv'
<1> DEFINE r == st[p]
<1>1. /\ r.pc = "alloc" /\ r.op = "sbrk" /\ r.a * PGSIZE >= r.lim
      /\ sz' = [sz EXCEPT ![p] = r.nsz] /\ st' = [st EXCEPT ![p] = Idle]
      /\ UNCHANGED <<free, state, parent, kstack, cur>>
  BY DEF GrowEnd, Go
<1>2. /\ r \in Calls /\ Shape(r) /\ Fits(cur[p], sz[p], r) /\ sz[p] \in 0..KERNBASE
      /\ cur[p] \in Spaces /\ cur[p].dir # 0 /\ free \in SUBSET Pages /\ state[p] = "live"
  BY <1>1, Unpack
<1> HIDE DEF r
<1>3. r.a \in Nat /\ r.lim \in Nat /\ r.nsz \in Nat
  BY <1>2, CallFacts
<1>4. /\ Mapped(cur[p]) = Below(r.a) /\ r.a <= PGROUNDUP(r.lim) /\ r.lim = r.nsz
      /\ r.lim <= KERNBASE
  BY <1>1, <1>2 DEF Fits, Growing
<1>5. r.a = PGROUNDUP(r.nsz)
  <2>1. PGROUNDUP(r.lim) \in Nat /\ PGROUNDUP(r.lim) <= r.a
    BY <1>1, <1>3, LoopEnd
  <2> QED BY <1>3, <1>4, <2>1
<1>6. cur[p].guard \subseteq Mapped(cur[p])
  BY <1>2 DEF Fits, Guarded
<1>7. Fits(cur[p], r.nsz, Idle)
  BY <1>4, <1>5, <1>6, FitsIdle
<1>8. r.nsz \in 0..KERNBASE
  BY <1>3, <1>4, MemoryAssumption
<1>9. /\ cur' = [cur EXCEPT ![p] = cur[p]]
      /\ UNCHANGED <<state, parent, kstack>> /\ free' \in SUBSET Pages
  BY <1>1, <1>2, Keep
<1>10. TypeOK' /\ (\A q \in Procs : Sound(q)') /\ Family'
  BY <1>1, <1>2, <1>7, <1>8, <1>9, IdleFacts, LocalStep
<1>11. Owned'
  <2>1. r.new = NoSpace /\ r.dead = NoSpace /\ r.mem = 0
    BY <1>1, <1>2 DEF Shape
  <2>2. Idle.new = st[p].new /\ Idle.dead = st[p].dead /\ Idle.mem = st[p].mem
    BY <2>1, IdleFacts DEF r
  <2>3. UNCHANGED <<free, cur, kstack>>
    BY <1>1
  <2> QED BY <1>1, <2>2, <2>3, IdleFacts, SamePages
<1> QED BY <1>10, <1>11 DEF MemoryInv

LEMMA ExitInv ==
  ASSUME MemoryInv, NEW p \in Procs, Exit(p)
  PROVE  MemoryInv'
<1>1. /\ state[p] = "live" /\ st[p].pc = "user" /\ state' = [state EXCEPT ![p] = "zombie"]
      /\ parent' = [q \in Procs |-> IF parent[q] = p THEN InitProc ELSE parent[q]]
      /\ UNCHANGED <<free, kstack, cur, sz, st>>
  BY DEF Exit
<1>2. TypeOK'
  <2>1. state' \in [Procs -> {"unused", "embryo", "live", "zombie"}]
    BY <1>1 DEF MemoryInv, TypeOK
  <2>2. parent' \in [Procs -> Procs]
    BY <1>1, MemoryAssumption DEF MemoryInv, TypeOK
  <2>3. /\ free' \subseteq Pages /\ kstack' \in [Procs -> 0..NPAGES] /\ cur' \in [Procs -> Spaces]
        /\ sz' \in [Procs -> 0..KERNBASE] /\ st' \in [Procs -> Calls]
    BY <1>1 DEF MemoryInv, TypeOK
  <2> QED BY <2>1, <2>2, <2>3 DEF TypeOK
<1>3. \A q \in Procs : Sound(q)'
  BY <1>1 DEF MemoryInv, Sound
<1>4. state'[p] = "zombie" /\ \A q \in Procs : q # p => state'[q] = state[q]
  BY <1>1 DEF MemoryInv, TypeOK
<1>5. st[p] = Idle
  BY <1>1, Unpack DEF Shape
<1>6. \A q \in Procs : WithChild(q) => st[q].child # p /\ st[q].child \in Procs
  <2>1. \A q \in Procs : st[q].child \in Procs
    BY CallFacts DEF MemoryInv, TypeOK
  <2> QED BY <1>1, <2>1 DEF MemoryInv, Family
<1>7. Family'
  <2>1. ASSUME NEW q \in Procs
        PROVE  /\ state'[q] # "live" => st'[q] = Idle
               /\ state'[q] \in {"unused", "embryo"} => cur'[q] = NoSpace
               /\ state'[q] = "unused" => kstack'[q] = 0
               /\ state'[q] \in {"live", "zombie"} => cur'[q].dir # 0
    <3>1. CASE q = p
      BY <1>1, <1>4, <1>5, <3>1 DEF MemoryInv, Family
    <3>2. CASE q # p
      BY <1>1, <1>4, <3>2 DEF MemoryInv, Family
    <3> QED BY <3>1, <3>2
  <2>2. \A q \in Procs : WithChild(q)' => state'[st'[q].child] = "embryo"
    BY <1>1, <1>4, <1>6 DEF MemoryInv, Family, WithChild
  <2>3. \A q, u \in Procs : WithChild(q)' /\ WithChild(u)' /\ st'[q].child = st'[u].child => q = u
    BY <1>1 DEF MemoryInv, Family, WithChild
  <2> QED BY <2>1, <2>2, <2>3 DEF Family
<1>8. Owned'
  BY <1>1 DEF MemoryInv, Owned
<1> QED BY <1>2, <1>3, <1>7, <1>8 DEF MemoryInv

LEMMA DeallocInv ==
  ASSUME MemoryInv, NEW p \in Procs, Dealloc(p)
  PROVE  MemoryInv'
<1> DEFINE r == st[p]
           s == cur[p]
           a == r.a
           m == [s EXCEPT !.map[a] = 0, !.guard = @ \ {a}]
           r2 == [r EXCEPT !.a = @ + 1]
<1>1. /\ r.pc = "dealloc" /\ a * PGSIZE < r.lim
      /\ free' = free \union ({s.map[a]} \ {0})
      /\ st' = [st EXCEPT ![p] = r2]
      /\ UNCHANGED <<state, parent, kstack, sz>>
  BY DEF Dealloc, Go, Kfree
<1>2. /\ r \in Calls /\ Shape(r) /\ Fits(s, sz[p], r) /\ sz[p] \in 0..KERNBASE
      /\ s \in Spaces /\ s.dir # 0 /\ free \in SUBSET Pages /\ state[p] = "live"
  BY <1>1, Unpack
<1>3. cur' = [cur EXCEPT ![p] = m]
  BY Keep DEF Dealloc
<1> HIDE DEF r, s, m, r2
<1>4. r.a \in Nat /\ r.lim \in Nat /\ r.nsz \in Nat /\ r.op = "sbrk"
  BY <1>1, <1>2, CallFacts DEF Shape
<1>5. /\ r.lim <= KERNBASE /\ sz[p] <= r.lim /\ Mapped(s) \subseteq Below(PGROUNDUP(r.lim))
      /\ \/ /\ r.lim = sz[p] /\ r.nsz <= sz[p] /\ PGROUNDUP(r.nsz) <= r.a
            /\ Mapped(s) \intersect Below(r.a) = Below(PGROUNDUP(r.nsz))
         \/ /\ r.nsz = 0 /\ PGROUNDUP(sz[p]) <= r.a
            /\ Mapped(s) \intersect Below(r.a) = Below(PGROUNDUP(sz[p]))
  BY <1>1, <1>2, <1>4 DEF Fits, Unmapping
<1>6. a \in UserPages /\ a \in Nat
  <2>1. a < PGROUNDUP(r.lim) /\ r.lim \in 0..KERNBASE
    BY <1>1, <1>4, <1>5, RoundUp, MemoryAssumption
  <2> QED BY <1>4, <2>1, UserPageFacts
<1>7. /\ m \in Spaces /\ m.dir = s.dir /\ m.tab = s.tab /\ m.guard = s.guard \ {a}
      /\ m.map = [s.map EXCEPT ![a] = 0] /\ m.map[a] = 0
      /\ \A b \in UserPages : b # a => m.map[b] = s.map[b]
  BY <1>2, <1>6, OnlyFacts DEF m, Spaces
<1>8. /\ r2 \in Calls /\ r2.pc = "dealloc" /\ r2.op = "sbrk" /\ r2.a = a + 1 /\ r2.lim = r.lim
      /\ r2.nsz = r.nsz /\ r2.new = r.new /\ r2.dead = r.dead /\ r2.mem = r.mem
      /\ r2.child = r.child
  BY <1>1, <1>2, <1>4 DEF r2, Calls
<1>9. r.new = NoSpace /\ r.dead = NoSpace
  BY <1>1, <1>2 DEF Shape
<1>10. Shape(r2)
  BY <1>8, <1>9 DEF Shape
<1>11. Fits(m, sz[p], r2)
  <2>1. Mapped(m) = Mapped(s) \ {a}
    BY <1>6, <1>7 DEF Mapped
  <2>2. Below(a + 1) = Below(a) \union {a} /\ a \notin Below(a)
    BY <1>6, BelowNext
  <2>3. Mapped(m) \intersect Below(a + 1) = Mapped(s) \intersect Below(a)
    BY <2>1, <2>2
  <2>4. PGROUNDUP(r.nsz) \in Nat /\ PGROUNDUP(sz[p]) \in Nat
    <3>1. sz[p] \in Nat
      BY <1>2, MemoryAssumption
    <3> QED BY <1>4, <3>1, RoundUp
  <2>5. Unmapping(m, sz[p], r2)
    <3>1. Mapped(m) \subseteq Below(PGROUNDUP(r.lim))
      BY <1>5, <2>1
    <3>2. /\ PGROUNDUP(r.nsz) <= r.a => PGROUNDUP(r.nsz) <= a + 1
          /\ PGROUNDUP(sz[p]) <= r.a => PGROUNDUP(sz[p]) <= a + 1
      BY <1>6, <2>4
    <3> QED BY <1>5, <1>8, <2>3, <3>1, <3>2 DEF Unmapping
  <2>6. Guarded(m, r2)
    <3>1. s.guard \subseteq Mapped(s)
      BY <1>2 DEF Fits, Guarded
    <3> QED BY <1>7, <1>8, <1>9, <2>1, <3>1, OnlyFacts DEF Guarded
  <2>7. Settled(m, sz[p], r2) /\ Growing(m, sz[p], r2) /\ Building(sz[p], r2)
    BY <1>8 DEF Settled, Growing, Building
  <2> QED BY <2>5, <2>6, <2>7 DEF Fits
<1>12. s.map[a] \in 0..NPAGES
  BY <1>2, <1>6 DEF Spaces
<1>13. free' \in SUBSET Pages
  <2>1. {s.map[a]} \ {0} \subseteq Pages
    BY <1>12, MemoryAssumption DEF Pages
  <2> QED BY <1>1, <1>2, <2>1
<1>14. sz' = [sz EXCEPT ![p] = sz[p]] /\ UNCHANGED <<state, parent, kstack>>
  BY <1>1, Keep
<1>15. r2.op \notin {"fork", "wait"} /\ m.dir # 0
  BY <1>2, <1>7, <1>8
<1>16. TypeOK' /\ (\A q \in Procs : Sound(q)') /\ Family'
  BY <1>1, <1>2, <1>3, <1>7, <1>8, <1>10, <1>11, <1>13, <1>14, <1>15, LocalStep
<1>17. Owned'
  <2> DEFINE S == Bundle(cur, st, kstack)
             S2 == Bundle(cur', st', kstack')
             x == <<"map", a>>
  <2>1. /\ cur'[p] = m /\ st'[p] = r2 /\ cur[p] = s /\ st[p] = r
        /\ \A q \in Procs : q # p => cur'[q] = cur[q] /\ st'[q] = st[q]
    BY <1>1, <1>3, Keep DEF s, r
  <2>2. \A q \in Procs : /\ q # p \/ "cur" # "cur" => cur'[q] = cur[q]
                         /\ q # p \/ "cur" # "new" => st'[q].new = st[q].new
                         /\ q # p \/ "cur" # "dead" => st'[q].dead = st[q].dead
                         /\ q # p \/ "cur" # "kstack" => kstack'[q] = kstack[q]
                         /\ q # p \/ "cur" # "mem" => st'[q].mem = st[q].mem
    BY <1>1, <1>8, <2>1
  <2>3. Frame(S, S2, p, "cur")
    BY <2>2, FrameBy DEF Kinds
  <2>4. S[<<p, "cur">>] = s /\ S2[<<p, "cur">>] = m
    <3>1. IsBundle(S, cur, st, kstack) /\ IsBundle(S2, cur', st', kstack')
      BY BundleFacts
    <3> HIDE DEF S, S2
    <3> QED BY <2>1, <3>1 DEF IsBundle
  <2>5. SlotFrame(s, m, x) /\ x \in Slots /\ At(m, x) = 0 /\ At(s, x) = s.map[a]
    <3>1. SlotFrame(s, m, x)
      BY <1>6, <1>7, MapFrame
    <3>2. x \in Slots /\ At(m, x) = m.map[a] /\ At(s, x) = s.map[a]
      BY <1>6, SlotFacts
    <3> QED BY <1>7, <3>1, <3>2
  <2> HIDE DEF S, S2, x
  <2>6. Own(S, free)
    BY DEF MemoryInv, Owned, S
  <2>7. Own(S2, free \union ({At(S[<<p, "cur">>], x)} \ {0}))
    BY <1>2, <2>3, <2>4, <2>5, <2>6, ReleaseSlot DEF Kinds
  <2> QED BY <1>1, <2>4, <2>5, <2>7 DEF Owned, S2
<1> QED BY <1>16, <1>17 DEF MemoryInv

LEMMA DeallocEndInv ==
  ASSUME MemoryInv, NEW p \in Procs, DeallocEnd(p)
  PROVE  MemoryInv'
<1> DEFINE r == st[p]
           z == IF r.nsz = 0 THEN sz[p] ELSE r.nsz
<1>1. /\ r.pc = "dealloc" /\ r.a * PGSIZE >= r.lim
      /\ free' = free \union ({r.mem} \ {0})
      /\ st' = [st EXCEPT ![p] = Idle] /\ sz' = [sz EXCEPT ![p] = z]
      /\ UNCHANGED <<state, parent, kstack, cur>>
  BY DEF DeallocEnd, Go, Kfree
<1>2. /\ r \in Calls /\ Shape(r) /\ Fits(cur[p], sz[p], r) /\ sz[p] \in 0..KERNBASE
      /\ cur[p] \in Spaces /\ cur[p].dir # 0 /\ free \in SUBSET Pages /\ state[p] = "live"
  BY <1>1, Unpack
<1> HIDE DEF r
<1>3. /\ r.a \in Nat /\ r.lim \in Nat /\ r.nsz \in Nat /\ r.mem \in 0..NPAGES /\ r.op = "sbrk"
      /\ sz[p] \in Nat
  BY <1>1, <1>2, CallFacts, MemoryAssumption DEF Shape
<1>4. /\ r.lim <= KERNBASE /\ sz[p] <= r.lim /\ Mapped(cur[p]) \subseteq Below(PGROUNDUP(r.lim))
      /\ \/ /\ r.lim = sz[p] /\ r.nsz <= sz[p] /\ PGROUNDUP(r.nsz) <= r.a
            /\ Mapped(cur[p]) \intersect Below(r.a) = Below(PGROUNDUP(r.nsz))
         \/ /\ r.nsz = 0 /\ PGROUNDUP(sz[p]) <= r.a
            /\ Mapped(cur[p]) \intersect Below(r.a) = Below(PGROUNDUP(sz[p]))
  BY <1>1, <1>2, <1>3 DEF Fits, Unmapping
<1>5. Mapped(cur[p]) \intersect Below(r.a) = Mapped(cur[p])
  <2>1. PGROUNDUP(r.lim) \in Nat /\ PGROUNDUP(r.lim) <= r.a
    BY <1>1, <1>3, LoopEnd
  <2>2. Below(PGROUNDUP(r.lim)) \subseteq Below(r.a)
    BY <1>3, <2>1, BelowMono
  <2> QED BY <1>4, <2>2
<1>6. z \in 0..KERNBASE
  BY <1>2, <1>3, <1>4, MemoryAssumption
<1>7. Mapped(cur[p]) = {} \/ Mapped(cur[p]) = Below(PGROUNDUP(z))
  <2>1. CASE r.nsz = 0
    BY <1>4, <1>5, <2>1, RoundUpZero, BelowZero
  <2>2. CASE r.nsz # 0
    BY <1>4, <1>5, <2>2
  <2> QED BY <2>1, <2>2
<1>8. Fits(cur[p], z, Idle)
  <2>1. cur[p].guard \subseteq Mapped(cur[p])
    BY <1>2 DEF Fits, Guarded
  <2> QED BY <1>7, <2>1, FitsIdle
<1> HIDE DEF z
<1>9. free' \in SUBSET Pages
  <2>1. {r.mem} \ {0} \subseteq Pages
    BY <1>3, MemoryAssumption DEF Pages
  <2> QED BY <1>1, <1>2, <2>1
<1>10. cur' = [cur EXCEPT ![p] = cur[p]] /\ UNCHANGED <<state, parent, kstack>>
  BY <1>1, Keep
<1>11. TypeOK' /\ (\A q \in Procs : Sound(q)') /\ Family'
  BY <1>1, <1>2, <1>6, <1>8, <1>9, <1>10, IdleFacts, LocalStep
<1>12. Owned'
  <2>1. r.new = NoSpace /\ r.dead = NoSpace
    BY <1>1, <1>2, <1>3 DEF Shape
  <2>2. st'[p] = Idle /\ st[p] = r /\ \A q \in Procs : q # p => st'[q] = st[q]
    BY <1>1, Keep DEF r
  <2>3. OnlyMem(st, st', p) /\ st'[p].mem = 0
    BY <2>1, <2>2, IdleFacts DEF OnlyMem
  <2>4. Own(Bundle(cur, st, kstack), free)
    BY DEF MemoryInv, Owned
  <2>5. Own(Bundle(cur, st', kstack), free \union ({st[p].mem} \ {0}))
    BY <1>2, <2>3, <2>4, MemRelease
  <2> QED BY <1>1, <2>2, <2>5 DEF Owned
<1> QED BY <1>11, <1>12 DEF MemoryInv

----------------------------------------------------------------------------
(* exec and fork build a page table *)

\* A call that gives up is left with the page table to free.
LEMMA AbandonFits ==
  ASSUME NEW m, NEW z, NEW r \in Calls, r.op \in {"exec", "execstack", "fork"}, r.mem = 0,
         r.dead = NoSpace, r.new = NoSpace \/ r.new.dir # 0,
         m.guard \subseteq Mapped(m), Settled(m, z, r)
  PROVE  /\ Abandon(r) \in Calls /\ Shape(Abandon(r)) /\ Fits(m, z, Abandon(r))
         /\ Abandon(r).new = NoSpace /\ Abandon(r).dead = r.new /\ Abandon(r).mem = r.mem
         /\ Abandon(r).op = r.op /\ Abandon(r).child = r.child
<1> DEFINE r2 == Abandon(r)
<1>1. /\ r2.new = NoSpace /\ r2.dead = r.new /\ r2.mem = r.mem /\ r2.op = r.op
      /\ r2.child = r.child /\ r2.pc = "freevm"
  BY DEF Abandon, Calls
<1>2. r2 \in Calls
  <2>1. r.new \in Spaces /\ NoSpace \in Spaces /\ "freevm" \in PCs
    BY OnlyFacts, CallFacts DEF PCs
  <2> QED BY <2>1 DEF Abandon, Calls
<1> HIDE DEF r2
<1>3. Shape(r2)
  BY <1>1 DEF Shape
<1>4. Fits(m, z, r2)
  <2>1. Guarded(m, r2) /\ Settled(m, z, r2)
    BY <1>1, OnlyFacts DEF Guarded, Settled
  <2>2. Growing(m, z, r2) /\ Unmapping(m, z, r2) /\ Building(z, r2)
    BY <1>1 DEF Growing, Unmapping, Building
  <2> QED BY <2>1, <2>2 DEF Fits
<1> QED BY <1>1, <1>2, <1>3, <1>4 DEF r2

LEMMA AbandonInv ==
  ASSUME MemoryInv, NEW p \in Procs, st[p].pc \in {"setupkvm", "kmap", "alloc"},
         st[p].op # "sbrk", st' = [st EXCEPT ![p] = Abandon(st[p])],
         UNCHANGED <<free, state, parent, kstack, cur, sz>>
  PROVE  MemoryInv'
<1> DEFINE r == st[p]
           r2 == Abandon(r)
<1>1. /\ r \in Calls /\ Shape(r) /\ Fits(cur[p], sz[p], r) /\ sz[p] \in 0..KERNBASE
      /\ cur[p] \in Spaces /\ cur[p].dir # 0 /\ free \in SUBSET Pages /\ state[p] = "live"
  BY Unpack
<1> HIDE DEF r
<1>2. r.pc \in {"setupkvm", "kmap", "alloc"} /\ r.op # "sbrk"
  BY DEF r
<1>3. /\ r.op \in {"exec", "execstack", "fork"} /\ r.mem = 0 /\ r.dead = NoSpace
      /\ r.new = NoSpace \/ r.new.dir # 0
  BY <1>1, <1>2, CallFacts DEF Shape
<1>4. cur[p].guard \subseteq Mapped(cur[p]) /\ Settled(cur[p], sz[p], r)
  BY <1>1 DEF Fits, Guarded
<1>5. /\ r2 \in Calls /\ Shape(r2) /\ Fits(cur[p], sz[p], r2)
      /\ r2.new = NoSpace /\ r2.dead = r.new /\ r2.mem = r.mem
      /\ r2.op = r.op /\ r2.child = r.child
  BY <1>1, <1>3, <1>4, AbandonFits
<1> HIDE DEF r2
<1>6. st' = [st EXCEPT ![p] = r2] /\ st[p] = r
  BY DEF r2, r
<1>7. r2.op \in {"fork", "wait"} => WithChild(p) /\ r2.child = st[p].child
  BY <1>5, <1>6 DEF WithChild
<1>8. /\ cur' = [cur EXCEPT ![p] = cur[p]] /\ sz' = [sz EXCEPT ![p] = sz[p]]
      /\ UNCHANGED <<state, parent, kstack>> /\ free' \in SUBSET Pages
  BY <1>1, Keep
<1>9. TypeOK' /\ (\A q \in Procs : Sound(q)') /\ Family'
  BY <1>1, <1>5, <1>6, <1>7, <1>8, LocalStep
<1>10. Owned'
  <2>1. st'[p] = r2 /\ \A q \in Procs : q # p => st'[q] = st[q]
    BY <1>6, Keep
  <2>2. OnlySpaces(st, st', p) /\ st[p].dead = NoSpace /\ st'[p].new = NoSpace
        /\ st'[p].dead = st[p].new
    BY <1>3, <1>5, <1>6, <2>1 DEF OnlySpaces
  <2>3. Own(Bundle(cur, st, kstack), free)
    BY DEF MemoryInv, Owned
  <2>4. Own(Bundle(cur, st', kstack), free)
    BY <1>1, <2>2, <2>3, GiveUp
  <2> QED BY <2>4 DEF Owned
<1> QED BY <1>9, <1>10 DEF MemoryInv

\* allocuvm undoes what it has done.
LEMMA UndoInv ==
  ASSUME MemoryInv, NEW p \in Procs, st[p].pc \in {"alloc", "map"}, st[p].op = "sbrk",
         st' = [st EXCEPT ![p] = [st[p] EXCEPT !.pc = "dealloc", !.a = PGROUNDUP(sz[p]), !.nsz = 0]],
         UNCHANGED <<free, state, parent, kstack, cur, sz>>
  PROVE  MemoryInv'
<1> DEFINE r == st[p]
           r2 == [r EXCEPT !.pc = "dealloc", !.a = PGROUNDUP(sz[p]), !.nsz = 0]
<1>1. /\ r \in Calls /\ Shape(r) /\ Fits(cur[p], sz[p], r) /\ sz[p] \in 0..KERNBASE
      /\ cur[p] \in Spaces /\ cur[p].dir # 0 /\ free \in SUBSET Pages /\ state[p] = "live"
  BY Unpack
<1> HIDE DEF r
<1>2. r.pc \in {"alloc", "map"} /\ r.op = "sbrk"
  BY DEF r
<1>3. sz[p] \in Nat /\ r.a \in Nat /\ r.lim \in Nat
  BY <1>1, CallFacts, MemoryAssumption
<1>4. PGROUNDUP(sz[p]) \in Nat /\ PGROUNDUP(r.lim) \in Nat
  BY <1>3, RoundUp
<1>5. /\ r2 \in Calls /\ r2.pc = "dealloc" /\ r2.op = "sbrk" /\ r2.a = PGROUNDUP(sz[p])
      /\ r2.lim = r.lim /\ r2.nsz = 0 /\ r2.new = r.new /\ r2.dead = r.dead /\ r2.mem = r.mem
  BY <1>1, <1>2, <1>4 DEF Calls, PCs
<1> HIDE DEF r2
<1>6. r.new = NoSpace /\ r.dead = NoSpace
  BY <1>1, <1>2 DEF Shape
<1>7. Shape(r2)
  BY <1>5, <1>6 DEF Shape
<1>8. Fits(cur[p], sz[p], r2)
  <2>1. /\ Mapped(cur[p]) = Below(r.a) /\ PGROUNDUP(sz[p]) <= r.a /\ r.a <= PGROUNDUP(r.lim)
        /\ sz[p] <= r.lim /\ r.lim <= KERNBASE
    BY <1>1, <1>2 DEF Fits, Growing
  <2>2. Below(PGROUNDUP(sz[p])) \subseteq Below(r.a)
    BY <1>3, <1>4, <2>1, BelowMono
  <2>3. Below(r.a) \subseteq Below(PGROUNDUP(r.lim))
    BY <1>3, <1>4, <2>1, BelowMono
  <2>4. Mapped(cur[p]) \intersect Below(PGROUNDUP(sz[p])) = Below(PGROUNDUP(sz[p]))
    BY <2>1, <2>2
  <2>5. PGROUNDUP(sz[p]) <= PGROUNDUP(sz[p])
    BY <1>4
  <2>6. Unmapping(cur[p], sz[p], r2)
    BY <1>5, <2>1, <2>3, <2>4, <2>5 DEF Unmapping
  <2>7. cur[p].guard \subseteq Mapped(cur[p])
    BY <1>1 DEF Fits, Guarded
  <2>8. Guarded(cur[p], r2)
    BY <1>5, <1>6, <2>7, OnlyFacts DEF Guarded
  <2>9. Settled(cur[p], sz[p], r2) /\ Growing(cur[p], sz[p], r2) /\ Building(sz[p], r2)
    BY <1>5 DEF Settled, Growing, Building
  <2> QED BY <2>6, <2>8, <2>9 DEF Fits
<1>9. st' = [st EXCEPT ![p] = r2] /\ st[p] = r
  BY DEF r2, r
<1>10. /\ cur' = [cur EXCEPT ![p] = cur[p]] /\ sz' = [sz EXCEPT ![p] = sz[p]]
       /\ UNCHANGED <<state, parent, kstack>> /\ free' \in SUBSET Pages
  BY <1>1, Keep
<1>11. r2.op \notin {"fork", "wait"}
  BY <1>5
<1>12. TypeOK' /\ (\A q \in Procs : Sound(q)') /\ Family'
  BY <1>1, <1>5, <1>7, <1>8, <1>9, <1>10, <1>11, LocalStep
<1>13. Owned'
  <2>1. r2.new = st[p].new /\ r2.dead = st[p].dead /\ r2.mem = st[p].mem
    BY <1>5, <1>9
  <2> QED BY <1>5, <1>9, <2>1, SamePages
<1> QED BY <1>12, <1>13 DEF MemoryInv

OnlyNew(T, T2, p) ==
  \A q \in Procs : /\ T2[q].mem = T[q].mem /\ T2[q].dead = T[q].dead
                   /\ q # p => T2[q].new = T[q].new

\* A page for the page table being built.
LEMMA NewTake ==
  ASSUME NEW C, NEW T, NEW T2, NEW K, NEW F \in SUBSET Pages, Own(Bundle(C, T, K), F),
         NEW p \in Procs, NEW x \in Slots, OnlyNew(T, T2, p), SlotFrame(T[p].new, T2[p].new, x),
         At(T[p].new, x) = 0, NEW g \in F, At(T2[p].new, x) = g
  PROVE  Own(Bundle(C, T2, K), F \ {g})
<1> DEFINE S == Bundle(C, T, K)
           S2 == Bundle(C, T2, K)
<1>1. \A q \in Procs : /\ q # p \/ "new" # "cur" => C[q] = C[q]
                       /\ q # p \/ "new" # "new" => T2[q].new = T[q].new
                       /\ q # p \/ "new" # "dead" => T2[q].dead = T[q].dead
                       /\ q # p \/ "new" # "kstack" => K[q] = K[q]
                       /\ q # p \/ "new" # "mem" => T2[q].mem = T[q].mem
  BY DEF OnlyNew
<1>2. Frame(S, S2, p, "new")
  BY <1>1, FrameBy DEF Kinds
<1>3. IsBundle(S, C, T, K) /\ IsBundle(S2, C, T2, K)
  BY BundleFacts
<1> HIDE DEF S, S2
<1>4. S[<<p, "new">>] = T[p].new /\ S2[<<p, "new">>] = T2[p].new
  BY <1>3 DEF IsBundle
<1>5. Own(S, F)
  BY DEF S
<1>6. Own(S2, F \ {g})
  BY <1>2, <1>4, <1>5, TakeSlot DEF Kinds
<1> QED BY <1>6 DEF S2

LEMMA KallocFree ==
  ASSUME free # {}
  PROVE  Kalloc \in free
BY DEF Kalloc

LEMMA SetupKvmInv ==
  ASSUME MemoryInv, NEW p \in Procs, SetupKvm(p)
  PROVE  MemoryInv'
<1> DEFINE r == st[p]
           g == Kalloc
           m == [r.new EXCEPT !.dir = g]
           r2 == [r EXCEPT !.new.dir = g, !.pc = "kmap"]
<1>1. r.pc = "setupkvm" /\ UNCHANGED <<state, parent, kstack, cur, sz>>
  BY DEF SetupKvm
<1>2. /\ r \in Calls /\ Shape(r) /\ Fits(cur[p], sz[p], r) /\ sz[p] \in 0..KERNBASE
      /\ cur[p] \in Spaces /\ cur[p].dir # 0 /\ free \in SUBSET Pages /\ state[p] = "live"
  BY <1>1, Unpack
<1>3. CASE free = {}
  <2>1. st' = [st EXCEPT ![p] = Abandon(st[p])] /\ UNCHANGED free
    BY <1>3 DEF SetupKvm, Go
  <2>2. st[p].pc \in {"setupkvm", "kmap", "alloc"} /\ st[p].op # "sbrk"
    BY <1>1, <1>2 DEF Shape
  <2>3. UNCHANGED <<free, state, parent, kstack, cur, sz>>
    BY <1>1, <2>1
  <2> QED BY <2>1, <2>2, <2>3, AbandonInv
<1>4. CASE free # {}
  <2>1. st' = [st EXCEPT ![p] = r2] /\ free' = free \ {g} /\ g \in free /\ st[p] = r
    BY <1>4, KallocFree DEF SetupKvm, Go, Take
  <2> HIDE DEF r, g
  <2>2. g \in Pages /\ g # 0 /\ g \in 0..NPAGES
    BY <1>2, <2>1, PagesPositive
  <2>3. /\ r.op \in {"exec", "fork"} /\ r.new = NoSpace /\ r.dead = NoSpace /\ r.mem = 0
        /\ Mapped(r.new) = {} /\ (r.op = "fork" => r.nsz = sz[p]) /\ r.new \in Spaces
    BY <1>1, <1>2, CallFacts DEF Shape, Fits, Building
  <2>4. /\ m \in Spaces /\ m.dir = g /\ m.tab = r.new.tab /\ m.map = r.new.map
        /\ m.guard = r.new.guard
    BY <2>2, <2>3 DEF Spaces
  <2>5. r2 = [r EXCEPT !.new = m, !.pc = "kmap"]
    BY <1>2 DEF Calls
  <2> HIDE DEF m, r2
  <2>6. /\ r2 \in Calls /\ r2.pc = "kmap" /\ r2.op = r.op /\ r2.new = m /\ r2.dead = r.dead
        /\ r2.mem = r.mem /\ r2.nsz = r.nsz /\ r2.child = r.child
    BY <1>2, <2>4, <2>5 DEF Calls, PCs
  <2>7. m.tab[NTAB] = 0
    BY <2>3, <2>4, OnlyFacts, UserPageFacts
  <2>8. Shape(r2)
    BY <2>2, <2>3, <2>4, <2>6, <2>7 DEF Shape
  <2>9. Fits(cur[p], sz[p], r2)
    <3>1. Mapped(m) = {} /\ m.guard = {}
      BY <2>3, <2>4, OnlyFacts DEF Mapped
    <3>2. cur[p].guard \subseteq Mapped(cur[p]) /\ Settled(cur[p], sz[p], r)
      BY <1>2 DEF Fits, Guarded
    <3>3. Guarded(cur[p], r2) /\ Settled(cur[p], sz[p], r2)
      BY <2>6, <3>1, <3>2 DEF Guarded, Settled
    <3>4. Growing(cur[p], sz[p], r2) /\ Unmapping(cur[p], sz[p], r2) /\ Building(sz[p], r2)
      BY <2>3, <2>6, <3>1 DEF Growing, Unmapping, Building
    <3> QED BY <3>3, <3>4 DEF Fits
  <2>10. r2.op \in {"fork", "wait"} => WithChild(p) /\ r2.child = st[p].child
    BY <2>1, <2>6 DEF WithChild
  <2>11. /\ cur' = [cur EXCEPT ![p] = cur[p]] /\ sz' = [sz EXCEPT ![p] = sz[p]]
         /\ UNCHANGED <<state, parent, kstack>> /\ free' \in SUBSET Pages
    BY <1>1, <1>2, <2>1, Keep
  <2>12. TypeOK' /\ (\A q \in Procs : Sound(q)') /\ Family'
    BY <1>2, <2>1, <2>6, <2>8, <2>9, <2>10, <2>11, LocalStep
  <2>13. Owned'
    <3>1. st'[p] = r2 /\ \A q \in Procs : q # p => st'[q] = st[q]
      BY <2>1, Keep
    <3>2. OnlyNew(st, st', p)
      BY <2>1, <2>6, <3>1 DEF OnlyNew
    <3>3. /\ SlotFrame(r.new, m, DirSlot) /\ DirSlot \in Slots
          /\ At(r.new, DirSlot) = 0 /\ At(m, DirSlot) = g
      <4>1. SlotFrame(r.new, m, DirSlot)
        BY <2>4, DirFrame
      <4>2. At(r.new, DirSlot) = r.new.dir /\ At(m, DirSlot) = m.dir /\ DirSlot \in Slots
        BY SlotFacts
      <4> QED BY <2>3, <2>4, <4>1, <4>2, OnlyFacts
    <3>4. st[p].new = r.new /\ st'[p].new = m
      BY <2>1, <2>6, <3>1
    <3>5. Own(Bundle(cur, st, kstack), free)
      BY DEF MemoryInv, Owned
    <3>6. Own(Bundle(cur, st', kstack), free \ {g})
      BY <1>2, <2>1, <3>2, <3>3, <3>4, <3>5, NewTake
    <3> QED BY <1>1, <2>1, <3>6 DEF Owned
  <2> QED BY <2>12, <2>13 DEF MemoryInv
<1> QED BY <1>3, <1>4

LEMMA KmapInv ==
  ASSUME MemoryInv, NEW p \in Procs, Kmap(p)
  PROVE  MemoryInv'
<1> DEFINE r == st[p]
           g == Kalloc
           m == [r.new EXCEPT !.tab[NTAB] = g]
           r2 == AllocUvm([r EXCEPT !.new.tab[NTAB] = g], 0, r.nsz)
<1>1. r.pc = "kmap" /\ UNCHANGED <<state, parent, kstack, cur, sz>>
  BY DEF Kmap
<1>2. /\ r \in Calls /\ Shape(r) /\ Fits(cur[p], sz[p], r) /\ sz[p] \in 0..KERNBASE
      /\ cur[p] \in Spaces /\ cur[p].dir # 0 /\ free \in SUBSET Pages /\ state[p] = "live"
  BY <1>1, Unpack
<1>3. CASE free = {}
  <2>1. st' = [st EXCEPT ![p] = Abandon(st[p])] /\ UNCHANGED free
    BY <1>3 DEF Kmap, Go
  <2>2. st[p].pc \in {"setupkvm", "kmap", "alloc"} /\ st[p].op # "sbrk"
    BY <1>1, <1>2 DEF Shape
  <2>3. UNCHANGED <<free, state, parent, kstack, cur, sz>>
    BY <1>1, <2>1
  <2> QED BY <2>1, <2>2, <2>3, AbandonInv
<1>4. CASE free # {}
  <2>1. st' = [st EXCEPT ![p] = r2] /\ free' = free \ {g} /\ g \in free /\ st[p] = r
    BY <1>4, KallocFree DEF Kmap, Go, Take
  <2> HIDE DEF r, g
  <2>2. g \in Pages /\ g # 0 /\ g \in 0..NPAGES
    BY <1>2, <2>1, PagesPositive
  <2>3. /\ r.op \in {"exec", "fork"} /\ r.dead = NoSpace /\ r.mem = 0 /\ r.new.dir # 0
        /\ Mapped(r.new) = {} /\ (r.op = "fork" => r.nsz = sz[p]) /\ r.new \in Spaces
        /\ r.new.tab[NTAB] = 0 /\ r.nsz \in Nat
    BY <1>1, <1>2, CallFacts DEF Shape, Fits, Building
  <2>4. NTAB \in Tables
    BY UserPageFacts
  <2>5. /\ m \in Spaces /\ m.dir = r.new.dir /\ m.map = r.new.map /\ m.guard = r.new.guard
        /\ m.tab[NTAB] = g /\ \A u \in Tables : u # NTAB => m.tab[u] = r.new.tab[u]
    BY <2>2, <2>3, <2>4 DEF Spaces
  <2>6. PGROUNDUP(0) = 0
    BY RoundUpZero
  <2>7. r2 = [r EXCEPT !.new = m, !.pc = "alloc", !.a = 0, !.lim = r.nsz]
    BY <1>2, <2>6 DEF Calls, AllocUvm
  <2> HIDE DEF m, r2
  <2>8. /\ r2 \in Calls /\ r2.pc = "alloc" /\ r2.op = r.op /\ r2.new = m /\ r2.dead = r.dead
        /\ r2.mem = r.mem /\ r2.nsz = r.nsz /\ r2.child = r.child /\ r2.a = 0 /\ r2.lim = r.nsz
    <3>1. r.nsz \in Nat /\ m \in Spaces /\ 0 \in Nat
      BY <2>3, <2>5
    <3>2. r2 \in Calls
      BY <1>2, <2>7, <3>1 DEF Calls, PCs
    <3> QED BY <1>2, <2>7, <3>2 DEF Calls
  <2>9. Shape(r2)
    BY <2>3, <2>5, <2>8 DEF Shape
  <2>10. Fits(cur[p], sz[p], r2)
    <3>1. Mapped(m) = {}
      BY <2>3, <2>5 DEF Mapped
    <3>2. cur[p].guard \subseteq Mapped(cur[p]) /\ Settled(cur[p], sz[p], r) /\ m.guard = {}
      BY <1>2, <2>3, <2>5 DEF Fits, Guarded
    <3>3. Guarded(cur[p], r2) /\ Settled(cur[p], sz[p], r2)
      BY <2>8, <3>1, <3>2 DEF Guarded, Settled
    <3>4. 0 <= PGROUNDUP(r.nsz)
      BY <2>3, RoundUp
    <3>5. Growing(cur[p], sz[p], r2) /\ Unmapping(cur[p], sz[p], r2) /\ Building(sz[p], r2)
      BY <2>3, <2>8, <3>1, <3>4, BelowZero DEF Growing, Unmapping, Building
    <3> QED BY <3>3, <3>5 DEF Fits
  <2>11. r2.op \in {"fork", "wait"} => WithChild(p) /\ r2.child = st[p].child
    BY <2>1, <2>8 DEF WithChild
  <2>12. /\ cur' = [cur EXCEPT ![p] = cur[p]] /\ sz' = [sz EXCEPT ![p] = sz[p]]
         /\ UNCHANGED <<state, parent, kstack>> /\ free' \in SUBSET Pages
    BY <1>1, <1>2, <2>1, Keep
  <2>13. TypeOK' /\ (\A q \in Procs : Sound(q)') /\ Family'
    BY <1>2, <2>1, <2>8, <2>9, <2>10, <2>11, <2>12, LocalStep
  <2>14. Owned'
    <3> DEFINE x == <<"tab", NTAB>>
    <3>1. st'[p] = r2 /\ \A q \in Procs : q # p => st'[q] = st[q]
      BY <2>1, Keep
    <3>2. OnlyNew(st, st', p)
      BY <2>1, <2>8, <3>1 DEF OnlyNew
    <3>3. SlotFrame(r.new, m, x) /\ x \in Slots /\ At(r.new, x) = 0 /\ At(m, x) = g
      <4>1. SlotFrame(r.new, m, x)
        BY <2>4, <2>5, TabFrame
      <4>2. At(r.new, x) = r.new.tab[NTAB] /\ At(m, x) = m.tab[NTAB] /\ x \in Slots
        BY <2>4, SlotFacts
      <4> QED BY <2>3, <2>5, <4>1, <4>2
    <3>4. st[p].new = r.new /\ st'[p].new = m
      BY <2>1, <2>8, <3>1
    <3>5. Own(Bundle(cur, st, kstack), free)
      BY DEF MemoryInv, Owned
    <3> HIDE DEF x
    <3>6. Own(Bundle(cur, st', kstack), free \ {g})
      BY <1>2, <2>1, <3>2, <3>3, <3>4, <3>5, NewTake
    <3> QED BY <1>1, <2>1, <3>6 DEF Owned
  <2> QED BY <2>13, <2>14 DEF MemoryInv
<1> QED BY <1>3, <1>4

LEMMA AllocInv ==
  ASSUME MemoryInv, NEW p \in Procs, Alloc(p)
  PROVE  MemoryInv'
<1> DEFINE r == st[p]
           g == Kalloc
           r2 == [r EXCEPT !.mem = g, !.pc = "map"]
           fail == free = {} \/ (r.op = "exec" /\ r.lim >= KERNBASE)
<1>1. /\ r.pc = "alloc" /\ r.a * PGSIZE < r.lim /\ UNCHANGED <<state, parent, kstack, cur, sz>>
      /\ IF fail THEN NoMemory(p) /\ UNCHANGED free
         ELSE st' = [st EXCEPT ![p] = r2] /\ free' = free \ {g}
  BY DEF Alloc, Go, Take
<1>2. /\ r \in Calls /\ Shape(r) /\ Fits(cur[p], sz[p], r) /\ sz[p] \in 0..KERNBASE
      /\ cur[p] \in Spaces /\ cur[p].dir # 0 /\ free \in SUBSET Pages /\ state[p] = "live"
  BY <1>1, Unpack
<1>3. CASE fail
  <2>1. NoMemory(p) /\ UNCHANGED <<free, state, parent, kstack, cur, sz>>
    BY <1>1, <1>3
  <2>2. CASE st[p].op = "sbrk"
    <3>1. st' = [st EXCEPT ![p] = [st[p] EXCEPT !.pc = "dealloc", !.a = PGROUNDUP(sz[p]), !.nsz = 0]]
      BY <2>1, <2>2 DEF NoMemory, Go
    <3>2. st[p].pc \in {"alloc", "map"}
      BY <1>1
    <3> QED BY <2>1, <2>2, <3>1, <3>2, UndoInv
  <2>3. CASE st[p].op # "sbrk"
    <3>1. st' = [st EXCEPT ![p] = Abandon(st[p])]
      BY <2>1, <2>3 DEF NoMemory, Go
    <3>2. st[p].pc \in {"setupkvm", "kmap", "alloc"}
      BY <1>1
    <3> QED BY <2>1, <2>3, <3>1, <3>2, AbandonInv
  <2> QED BY <2>2, <2>3
<1>4. CASE ~fail
  <2>1. st' = [st EXCEPT ![p] = r2] /\ free' = free \ {g} /\ g \in free /\ st[p] = r
        /\ ~(r.op = "exec" /\ r.lim >= KERNBASE)
    BY <1>1, <1>4, KallocFree
  <2> HIDE DEF r, g, fail
  <2>2. g \in Pages /\ g # 0 /\ g \in 0..NPAGES
    BY <1>2, <2>1, PagesPositive
  <2>3. r.lim \in Nat /\ r.mem = 0 /\ r.dead = NoSpace
    BY <1>1, <1>2, CallFacts DEF Shape
  <2>4. /\ r2 \in Calls /\ r2.pc = "map" /\ r2.op = r.op /\ r2.new = r.new /\ r2.dead = r.dead
        /\ r2.mem = g /\ r2.nsz = r.nsz /\ r2.child = r.child /\ r2.a = r.a /\ r2.lim = r.lim
    <3>1. r2 \in Calls
      BY <1>2, <2>2 DEF Calls, PCs
    <3> QED BY <1>2, <3>1 DEF Calls
  <2> HIDE DEF r2
  <2>5. Shape(r2)
    <3>1. r2.op = "exec" => r2.lim < KERNBASE
      BY <2>1, <2>3, <2>4, MemoryAssumption
    <3>2. r2.a * PGSIZE < r2.lim
      BY <1>1, <2>4
    <3> QED BY <1>1, <1>2, <2>2, <2>3, <2>4, <3>1, <3>2 DEF Shape
  <2>6. Fits(cur[p], sz[p], r2)
    BY <1>1, <1>2, <2>4 DEF Fits, Guarded, Settled, Growing, Unmapping, Building
  <2>7. r2.op \in {"fork", "wait"} => WithChild(p) /\ r2.child = st[p].child
    BY <2>1, <2>4 DEF WithChild
  <2>8. /\ cur' = [cur EXCEPT ![p] = cur[p]] /\ sz' = [sz EXCEPT ![p] = sz[p]]
        /\ UNCHANGED <<state, parent, kstack>> /\ free' \in SUBSET Pages
    BY <1>1, <1>2, <2>1, Keep
  <2>9. TypeOK' /\ (\A q \in Procs : Sound(q)') /\ Family'
    BY <1>2, <2>1, <2>4, <2>5, <2>6, <2>7, <2>8, LocalStep
  <2>10. Owned'
    <3>1. st'[p] = r2 /\ \A q \in Procs : q # p => st'[q] = st[q]
      BY <2>1, Keep
    <3>2. OnlyMem(st, st', p) /\ st[p].mem = 0 /\ st'[p].mem = g
      BY <2>1, <2>3, <2>4, <3>1 DEF OnlyMem
    <3>3. Own(Bundle(cur, st, kstack), free)
      BY DEF MemoryInv, Owned
    <3>4. Own(Bundle(cur, st', kstack), free \ {g})
      BY <1>2, <2>1, <3>2, <3>3, MemTake
    <3> QED BY <1>1, <2>1, <3>4 DEF Owned
  <2> QED BY <2>9, <2>10 DEF MemoryInv
<1> QED BY <1>3, <1>4

\* mappages puts mem in its place: in the page table of the process ...
LEMMA MemToCur ==
  ASSUME NEW C, NEW C2, NEW T, NEW T2, NEW K, NEW F \in SUBSET Pages, Own(Bundle(C, T, K), F),
         NEW p \in Procs, NEW x \in Slots, OnlyMem(T, T2, p), T[p].mem \in Pages, T2[p].mem = 0,
         \A q \in Procs : q # p => C2[q] = C[q],
         SlotFrame(C[p], C2[p], x), At(C[p], x) = 0, At(C2[p], x) = T[p].mem
  PROVE  Own(Bundle(C2, T2, K), F)
<1> DEFINE S == Bundle(C, T, K)
           S2 == Bundle(C2, T2, K)
<1>1. IsBundle(S, C, T, K) /\ IsBundle(S2, C2, T2, K)
  BY BundleFacts
<1> HIDE DEF S, S2
<1>2. /\ S[<<p, "cur">>] = C[p] /\ S2[<<p, "cur">>] = C2[p]
      /\ S[<<p, "mem">>] = Only(T[p].mem) /\ S2[<<p, "mem">>] = Only(T2[p].mem)
  BY <1>1 DEF IsBundle
<1>3. /\ SlotFrame(Only(T[p].mem), Only(T2[p].mem), DirSlot) /\ DirSlot \in Slots
      /\ At(Only(T[p].mem), DirSlot) = T[p].mem /\ At(Only(T2[p].mem), DirSlot) = 0
  BY OnlyFacts, SlotFacts
<1>4. ASSUME NEW q \in Procs, NEW m \in Kinds, q # p \/ m # "mem", q # p \/ m # "cur"
      PROVE  S2[<<q, m>>] = S[<<q, m>>]
  <2>1. CASE m = "cur"
    BY <1>1, <1>4, <2>1 DEF IsBundle
  <2>2. CASE m = "new"
    BY <1>1, <2>2 DEF IsBundle, OnlyMem
  <2>3. CASE m = "dead"
    BY <1>1, <2>3 DEF IsBundle, OnlyMem
  <2>4. CASE m = "kstack"
    <3>1. S[<<q, "kstack">>] = Only(K[q]) /\ S2[<<q, "kstack">>] = Only(K[q])
      BY <1>1 DEF IsBundle
    <3> QED BY <2>4, <3>1
  <2>5. CASE m = "mem"
    <3>1. S[<<q, "mem">>] = Only(T[q].mem) /\ S2[<<q, "mem">>] = Only(T2[q].mem)
      BY <1>1 DEF IsBundle
    <3>2. T2[q].mem = T[q].mem
      BY <1>4, <2>5 DEF OnlyMem
    <3>3. Only(T2[q].mem) = Only(T[q].mem)
      BY <3>2, Zenon
    <3> QED BY <2>5, <3>1, <3>3
  <2> QED BY <2>1, <2>2, <2>3, <2>4, <2>5 DEF Kinds
<1>5. Own(S, F) /\ "mem" \in Kinds /\ "cur" \in Kinds /\ "mem" # "cur"
  BY DEF S, Kinds
<1>6. Own(S2, F)
  BY <1>2, <1>3, <1>4, <1>5, MoveSlot
<1> QED BY <1>6 DEF S2

\* ... or in the one being built.
LEMMA MemToNew ==
  ASSUME NEW C, NEW T, NEW T2, NEW K, NEW F \in SUBSET Pages, Own(Bundle(C, T, K), F),
         NEW p \in Procs, NEW x \in Slots, T[p].mem \in Pages, T2[p].mem = 0,
         T2[p].dead = T[p].dead,
         \A q \in Procs : q # p => /\ T2[q].new = T[q].new /\ T2[q].dead = T[q].dead
                                   /\ T2[q].mem = T[q].mem,
         SlotFrame(T[p].new, T2[p].new, x), At(T[p].new, x) = 0, At(T2[p].new, x) = T[p].mem
  PROVE  Own(Bundle(C, T2, K), F)
<1> DEFINE S == Bundle(C, T, K)
           S2 == Bundle(C, T2, K)
<1>1. IsBundle(S, C, T, K) /\ IsBundle(S2, C, T2, K)
  BY BundleFacts
<1> HIDE DEF S, S2
<1>2. /\ S[<<p, "new">>] = T[p].new /\ S2[<<p, "new">>] = T2[p].new
      /\ S[<<p, "mem">>] = Only(T[p].mem) /\ S2[<<p, "mem">>] = Only(T2[p].mem)
  BY <1>1 DEF IsBundle
<1>3. /\ SlotFrame(Only(T[p].mem), Only(T2[p].mem), DirSlot) /\ DirSlot \in Slots
      /\ At(Only(T[p].mem), DirSlot) = T[p].mem /\ At(Only(T2[p].mem), DirSlot) = 0
  BY OnlyFacts, SlotFacts
<1>4. ASSUME NEW q \in Procs, NEW m \in Kinds, q # p \/ m # "mem", q # p \/ m # "new"
      PROVE  S2[<<q, m>>] = S[<<q, m>>]
  <2>1. CASE m = "cur"
    BY <1>1, <2>1 DEF IsBundle
  <2>2. CASE m = "new"
    BY <1>1, <1>4, <2>2 DEF IsBundle
  <2>3. CASE m = "dead"
    BY <1>1, <2>3 DEF IsBundle
  <2>4. CASE m = "kstack"
    <3>1. S[<<q, "kstack">>] = Only(K[q]) /\ S2[<<q, "kstack">>] = Only(K[q])
      BY <1>1 DEF IsBundle
    <3> QED BY <2>4, <3>1
  <2>5. CASE m = "mem"
    <3>1. S[<<q, "mem">>] = Only(T[q].mem) /\ S2[<<q, "mem">>] = Only(T2[q].mem)
      BY <1>1 DEF IsBundle
    <3>2. T2[q].mem = T[q].mem
      BY <1>4, <2>5
    <3>3. Only(T2[q].mem) = Only(T[q].mem)
      BY <3>2, Zenon
    <3> QED BY <2>5, <3>1, <3>3
  <2> QED BY <2>1, <2>2, <2>3, <2>4, <2>5 DEF Kinds
<1>5. Own(S, F) /\ "mem" \in Kinds /\ "new" \in Kinds /\ "mem" # "new"
  BY DEF S, Kinds
<1>6. Own(S2, F)
  BY <1>2, <1>3, <1>4, <1>5, MoveSlot
<1> QED BY <1>6 DEF S2

\* A page table for the process.
LEMMA CurTake ==
  ASSUME NEW C, NEW C2, NEW T, NEW K, NEW F \in SUBSET Pages, Own(Bundle(C, T, K), F),
         NEW p \in Procs, NEW x \in Slots, \A q \in Procs : q # p => C2[q] = C[q],
         SlotFrame(C[p], C2[p], x), At(C[p], x) = 0, NEW g \in F, At(C2[p], x) = g
  PROVE  Own(Bundle(C2, T, K), F \ {g})
<1> DEFINE S == Bundle(C, T, K)
           S2 == Bundle(C2, T, K)
<1>1. \A q \in Procs : /\ q # p \/ "cur" # "cur" => C2[q] = C[q]
                       /\ q # p \/ "cur" # "new" => T[q].new = T[q].new
                       /\ q # p \/ "cur" # "dead" => T[q].dead = T[q].dead
                       /\ q # p \/ "cur" # "kstack" => K[q] = K[q]
                       /\ q # p \/ "cur" # "mem" => T[q].mem = T[q].mem
  OBVIOUS
<1>2. Frame(S, S2, p, "cur")
  BY <1>1, FrameBy DEF Kinds
<1>3. IsBundle(S, C, T, K) /\ IsBundle(S2, C2, T, K)
  BY BundleFacts
<1> HIDE DEF S, S2
<1>4. S[<<p, "cur">>] = C[p] /\ S2[<<p, "cur">>] = C2[p]
  BY <1>3 DEF IsBundle
<1>5. Own(S, F)
  BY DEF S
<1>6. Own(S2, F \ {g})
  BY <1>2, <1>4, <1>5, TakeSlot DEF Kinds
<1> QED BY <1>6 DEF S2

\* mappages has mapped page a of page table s: what is known of the result m.
MapsPage(s, m, a, g, G) ==
  /\ m \in Spaces /\ m.dir = s.dir /\ m.guard = s.guard \union G
  /\ m.map[a] = g /\ \A b \in UserPages : b # a => m.map[b] = s.map[b]

LEMMA MapsPageFacts ==
  ASSUME NEW s, NEW m, NEW a \in UserPages, NEW g \in Pages, NEW G \in SUBSET {a},
         MapsPage(s, m, a, g, G), s.guard \subseteq Mapped(s), Mapped(s) = Below(a)
  PROVE  Mapped(m) = Below(a + 1) /\ m.guard \subseteq Mapped(m) /\ s.map[a] = 0
<1>1. g # 0
  BY PagesPositive
<1>2. Mapped(m) = Mapped(s) \union {a}
  BY <1>1 DEF Mapped, MapsPage
<1>3. Below(a + 1) = Below(a) \union {a} /\ a \notin Below(a)
  BY BelowNext
<1>4. m.guard \subseteq Mapped(m)
  BY <1>2 DEF MapsPage
<1>5. s.map[a] = 0
  BY <1>3 DEF Mapped
<1> QED BY <1>2, <1>3, <1>4, <1>5

\* The call after mappages.
Mapped1(r) == [r EXCEPT !.mem = 0, !.a = @ + 1, !.pc = "alloc"]

LEMMA MapRange ==
  ASSUME MemoryInv, NEW p \in Procs, st[p].pc = "map"
  PROVE  /\ st[p].a \in UserPages /\ st[p].a \div NPTE \in Tables /\ st[p].mem \in Pages
         /\ st[p].a + 1 <= PGROUNDUP(st[p].lim) /\ st[p].a \in Nat
<1> DEFINE r == st[p]
<1>1. /\ r \in Calls /\ Shape(r) /\ Fits(cur[p], sz[p], r) /\ sz[p] \in 0..KERNBASE
  BY Unpack
<1> HIDE DEF r
<1>2. /\ r.op \in {"none", "sbrk", "exec", "execstack", "fork", "wait"} /\ r.a \in Nat
      /\ r.lim \in Nat /\ r.mem \in 0..NPAGES
  BY <1>1, CallFacts
<1>3. r.pc = "map"
  BY DEF r
<1>4. r.mem # 0 /\ r.a * PGSIZE < r.lim /\ (r.op = "exec" => r.lim < KERNBASE)
      /\ r.op \notin {"none", "wait"}
  BY <1>1, <1>3 DEF Shape
<1>5. r.lim <= KERNBASE
  <2>1. CASE r.op = "sbrk"
    BY <1>1, <1>3, <2>1 DEF Fits, Growing
  <2>2. CASE r.op = "fork"
    BY <1>1, <1>3, <2>2, MemoryAssumption DEF Fits, Building
  <2>3. CASE r.op = "exec"
    BY <1>2, <1>4, <2>3, MemoryAssumption
  <2>4. CASE r.op = "execstack"
    <3>1. r.lim < KERNBASE
      BY <1>1, <1>3, <2>4 DEF Fits, Building
    <3> QED BY <1>2, <3>1, MemoryAssumption
  <2> QED BY <1>2, <1>4, <2>1, <2>2, <2>3, <2>4
<1>6. r.a < PGROUNDUP(r.lim) /\ PGROUNDUP(r.lim) \in Nat
  BY <1>2, <1>4, RoundUp
<1>7. r.lim \in 0..KERNBASE
  BY <1>2, <1>5, MemoryAssumption
<1>8. r.a \in UserPages
  BY <1>2, <1>6, <1>7, UserPageFacts
<1>9. r.a \div NPTE \in Tables
  BY <1>8, UserPageFacts
<1>10. r.mem \in Pages
  BY <1>2, <1>4, MemoryAssumption DEF Pages
<1>11. r.a + 1 <= PGROUNDUP(r.lim)
  BY <1>2, <1>6
<1> QED BY <1>2, <1>8, <1>9, <1>10, <1>11 DEF r

LEMMA Mapped1Facts ==
  ASSUME NEW r \in Calls
  PROVE  /\ Mapped1(r) \in Calls /\ Mapped1(r).pc = "alloc" /\ Mapped1(r).op = r.op
         /\ Mapped1(r).new = r.new /\ Mapped1(r).dead = r.dead /\ Mapped1(r).mem = 0
         /\ Mapped1(r).nsz = r.nsz /\ Mapped1(r).child = r.child /\ Mapped1(r).a = r.a + 1
         /\ Mapped1(r).lim = r.lim
         /\ \A m \in Spaces : LET r2 == [Mapped1(r) EXCEPT !.new = m] IN
              /\ r2 \in Calls /\ r2.pc = "alloc" /\ r2.op = r.op
              /\ r2.new = m /\ r2.dead = r.dead /\ r2.mem = 0
              /\ r2.nsz = r.nsz /\ r2.child = r.child /\ r2.a = r.a + 1 /\ r2.lim = r.lim
<1>1. 0 \in 0..NPAGES /\ "alloc" \in PCs /\ r.a + 1 \in Nat
  BY CallFacts, MemoryAssumption DEF PCs
<1>2. Mapped1(r) \in Calls
  BY <1>1 DEF Calls, Mapped1
<1>3. /\ Mapped1(r).pc = "alloc" /\ Mapped1(r).op = r.op
      /\ Mapped1(r).new = r.new /\ Mapped1(r).dead = r.dead /\ Mapped1(r).mem = 0
      /\ Mapped1(r).nsz = r.nsz /\ Mapped1(r).child = r.child /\ Mapped1(r).a = r.a + 1
      /\ Mapped1(r).lim = r.lim
  BY DEF Calls, Mapped1
<1>4. ASSUME NEW m \in Spaces, NEW r2, r2 = [Mapped1(r) EXCEPT !.new = m]
      PROVE  /\ r2 \in Calls /\ r2.pc = "alloc" /\ r2.op = r.op
             /\ r2.new = m /\ r2.dead = r.dead /\ r2.mem = 0
             /\ r2.nsz = r.nsz /\ r2.child = r.child /\ r2.a = r.a + 1 /\ r2.lim = r.lim
  BY <1>2, <1>3, <1>4 DEF Calls
<1> QED BY <1>2, <1>3, <1>4

\* sbrk: the page is mapped in the page table of the process.
LEMMA MapSbrk ==
  ASSUME MemoryInv, NEW p \in Procs, st[p].pc = "map", st[p].op = "sbrk", NEW m,
         MapsPage(cur[p], m, st[p].a, st[p].mem, {}),
         cur' = [cur EXCEPT ![p] = m], st' = [st EXCEPT ![p] = Mapped1(st[p])],
         UNCHANGED <<state, parent, kstack, sz>>, free' \in SUBSET Pages
  PROVE  /\ TypeOK' /\ (\A q \in Procs : Sound(q)') /\ Family'
         /\ cur[p].map[st[p].a] = 0
<1> DEFINE r == st[p]
           r2 == Mapped1(r)
<1>1. /\ r \in Calls /\ Shape(r) /\ Fits(cur[p], sz[p], r) /\ sz[p] \in 0..KERNBASE
      /\ cur[p] \in Spaces /\ cur[p].dir # 0 /\ state[p] = "live"
  BY Unpack
<1>2. r.a \in UserPages /\ r.mem \in Pages /\ r.a + 1 <= PGROUNDUP(r.lim) /\ r.a \in Nat
  BY MapRange
<1>3. r.op = "sbrk" /\ r.pc = "map" /\ MapsPage(cur[p], m, r.a, r.mem, {})
  OBVIOUS
<1>4. /\ r2 \in Calls /\ r2.pc = "alloc" /\ r2.op = r.op /\ r2.new = r.new /\ r2.dead = r.dead
      /\ r2.mem = 0 /\ r2.nsz = r.nsz /\ r2.a = r.a + 1 /\ r2.lim = r.lim
  BY <1>1, Mapped1Facts
<1>5. st' = [st EXCEPT ![p] = r2]
  OBVIOUS
<1> HIDE DEF r, r2
<1>6. r.new = NoSpace /\ r.dead = NoSpace
  BY <1>1, <1>3 DEF Shape
<1>7. Shape(r2)
  BY <1>3, <1>4, <1>6 DEF Shape
<1>8. /\ Mapped(cur[p]) = Below(r.a) /\ PGROUNDUP(sz[p]) <= r.a
      /\ r.lim = r.nsz /\ sz[p] <= r.lim /\ r.lim <= KERNBASE
  BY <1>1, <1>3 DEF Fits, Growing
<1>9. Mapped(m) = Below(r.a + 1) /\ m.guard \subseteq Mapped(m) /\ cur[p].map[r.a] = 0
  <2>1. cur[p].guard \subseteq Mapped(cur[p]) /\ {} \in SUBSET {r.a}
    BY <1>1 DEF Fits, Guarded
  <2> QED BY <1>2, <1>3, <1>8, <2>1, MapsPageFacts
<1>10. Fits(m, sz[p], r2)
  <2>1. Guarded(m, r2)
    BY <1>4, <1>6, <1>9, OnlyFacts DEF Guarded
  <2>2. PGROUNDUP(sz[p]) <= r.a + 1
    <3>1. sz[p] \in Nat
      BY <1>1, MemoryAssumption
    <3>2. PGROUNDUP(sz[p]) \in Nat
      BY <3>1, RoundUp
    <3> QED BY <1>2, <1>8, <3>2
  <2>3. Growing(m, sz[p], r2)
    BY <1>2, <1>4, <1>8, <1>9, <2>2 DEF Growing
  <2>4. Settled(m, sz[p], r2) /\ Unmapping(m, sz[p], r2) /\ Building(sz[p], r2)
    BY <1>3, <1>4 DEF Settled, Unmapping, Building
  <2> QED BY <2>1, <2>3, <2>4 DEF Fits
<1>11. sz' = [sz EXCEPT ![p] = sz[p]] /\ UNCHANGED <<state, parent, kstack>>
  BY Keep
<1>12. r2.op \notin {"fork", "wait"} /\ m \in Spaces /\ m.dir # 0
  BY <1>1, <1>3, <1>4 DEF MapsPage
<1>13. TypeOK' /\ (\A q \in Procs : Sound(q)') /\ Family'
  BY <1>1, <1>4, <1>5, <1>7, <1>10, <1>11, <1>12, LocalStep
<1> QED BY <1>9, <1>13 DEF r

\* exec and fork: in the page table being built.
LEMMA MapNew ==
  ASSUME MemoryInv, NEW p \in Procs, st[p].pc = "map", st[p].op # "sbrk", NEW m,
         NEW G \in SUBSET {st[p].a}, MapsPage(st[p].new, m, st[p].a, st[p].mem, G),
         st' = [st EXCEPT ![p] = [Mapped1(st[p]) EXCEPT !.new = m]],
         UNCHANGED <<state, parent, kstack, cur, sz>>, free' \in SUBSET Pages
  PROVE  /\ TypeOK' /\ (\A q \in Procs : Sound(q)') /\ Family'
         /\ st[p].new.map[st[p].a] = 0
<1> DEFINE r == st[p]
           r2 == [Mapped1(r) EXCEPT !.new = m]
<1>1. /\ r \in Calls /\ Shape(r) /\ Fits(cur[p], sz[p], r) /\ sz[p] \in 0..KERNBASE
      /\ cur[p] \in Spaces /\ cur[p].dir # 0 /\ state[p] = "live"
  BY Unpack
<1>2. r.a \in UserPages /\ r.mem \in Pages /\ r.a + 1 <= PGROUNDUP(r.lim) /\ r.a \in Nat
  BY MapRange
<1>3. r.op # "sbrk" /\ r.pc = "map" /\ MapsPage(r.new, m, r.a, r.mem, G) /\ G \in SUBSET {r.a}
      /\ m \in Spaces
  BY DEF MapsPage
<1>4. /\ r2 \in Calls /\ r2.pc = "alloc" /\ r2.op = r.op /\ r2.new = m /\ r2.dead = r.dead
      /\ r2.mem = 0 /\ r2.nsz = r.nsz /\ r2.a = r.a + 1 /\ r2.lim = r.lim /\ r2.child = r.child
  BY <1>1, <1>3, Mapped1Facts
<1>5. st' = [st EXCEPT ![p] = r2] /\ st[p] = r
  OBVIOUS
<1> HIDE DEF r, r2
<1>6. r.dead = NoSpace /\ r.new.dir # 0 /\ r.op \notin {"none", "wait"}
  BY <1>1, <1>3 DEF Shape
<1>7. m.dir # 0
  BY <1>3, <1>6 DEF MapsPage
<1>8. Shape(r2)
  BY <1>3, <1>4, <1>6, <1>7 DEF Shape
<1>9. /\ Mapped(r.new) = Below(r.a) /\ r.nsz = r.lim
      /\ r.op = "fork" => r.lim = sz[p]
      /\ r.op = "execstack" => r.lim < KERNBASE /\ 2 * PGSIZE <= r.lim
  BY <1>1, <1>3 DEF Fits, Building
<1>10. Mapped(m) = Below(r.a + 1) /\ m.guard \subseteq Mapped(m) /\ r.new.map[r.a] = 0
  <2>1. r.new.guard \subseteq Mapped(r.new)
    BY <1>1 DEF Fits, Guarded
  <2> QED BY <1>2, <1>3, <1>9, <2>1, MapsPageFacts
<1>11. Fits(cur[p], sz[p], r2)
  <2>1. Guarded(cur[p], r2) /\ Settled(cur[p], sz[p], r2)
    BY <1>1, <1>4, <1>10 DEF Fits, Guarded, Settled
  <2>2. Building(sz[p], r2)
    BY <1>2, <1>4, <1>9, <1>10 DEF Building
  <2>3. Growing(cur[p], sz[p], r2) /\ Unmapping(cur[p], sz[p], r2)
    BY <1>3, <1>4 DEF Growing, Unmapping
  <2> QED BY <2>1, <2>2, <2>3 DEF Fits
<1>12. /\ cur' = [cur EXCEPT ![p] = cur[p]] /\ sz' = [sz EXCEPT ![p] = sz[p]]
       /\ UNCHANGED <<state, parent, kstack>>
  BY Keep
<1>13. r2.op \in {"fork", "wait"} => WithChild(p) /\ r2.child = st[p].child
  BY <1>4, <1>5 DEF WithChild
<1>14. TypeOK' /\ (\A q \in Procs : Sound(q)') /\ Family'
  BY <1>1, <1>4, <1>5, <1>8, <1>11, <1>12, <1>13, LocalStep
<1> QED BY <1>10, <1>14 DEF r

\* mappages fills the slot of its page, and perhaps that of a page table.
LEMMA MapSlots ==
  ASSUME NEW s, NEW m, NEW a \in UserPages, NEW h, NEW G, MapsPage(s, m, a, h, G),
         m.tab = s.tab, s.map[a] = 0
  PROVE  LET x == <<"map", a>> IN
         x \in Slots /\ SlotFrame(s, m, x) /\ At(s, x) = 0 /\ At(m, x) = h
<1> DEFINE x == <<"map", a>>
<1>1. /\ m.dir = s.dir /\ m.map[a] = h /\ \A b \in UserPages : b # a => m.map[b] = s.map[b]
  BY DEF MapsPage
<1>2. SlotFrame(s, m, x)
  BY <1>1, MapFrame
<1>3. x \in Slots /\ At(s, x) = s.map[a] /\ At(m, x) = m.map[a]
  BY SlotFacts
<1> QED BY <1>1, <1>2, <1>3

LEMMA TabSlots ==
  ASSUME NEW s, NEW m, NEW t \in Tables, NEW g, m.dir = s.dir, m.map = s.map, s.tab[t] = 0,
         m.tab[t] = g, \A u \in Tables : u # t => m.tab[u] = s.tab[u]
  PROVE  LET y == <<"tab", t>> IN
         y \in Slots /\ SlotFrame(s, m, y) /\ At(s, y) = 0 /\ At(m, y) = g
<1> DEFINE y == <<"tab", t>>
<1>1. SlotFrame(s, m, y)
  BY TabFrame
<1>2. y \in Slots /\ At(s, y) = s.tab[t] /\ At(m, y) = m.tab[t]
  BY SlotFacts
<1> QED BY <1>1, <1>2

LEMMA MapInv ==
  ASSUME MemoryInv, NEW p \in Procs, Map(p)
  PROVE  MemoryInv'
<1> DEFINE r == st[p]
           s == Target(p)
           a == r.a
           t == a \div NPTE
           h == r.mem
           G == IF r.op = "fork" /\ a \in cur[p].guard THEN {a} ELSE {}
           m == [s EXCEPT !.map[a] = h, !.guard = @ \union G]
           g == Kalloc
           m2 == [m EXCEPT !.tab[t] = g]
           next == Mapped1(r)
<1>1. /\ r.pc = "map" /\ UNCHANGED <<state, parent, kstack, sz>>
      /\ \/ s.tab[t] # 0 /\ SetTarget(p, next, m) /\ UNCHANGED free
         \/ s.tab[t] = 0 /\ free # {} /\ SetTarget(p, next, m2) /\ Take
         \/ s.tab[t] = 0 /\ free = {} /\ r.op = "sbrk" /\ NoMemory(p) /\ UNCHANGED <<free, cur>>
         \/ /\ s.tab[t] = 0 /\ free = {} /\ r.op # "sbrk" /\ Go(p, Abandon([r EXCEPT !.mem = 0]))
            /\ Kfree(h) /\ UNCHANGED cur
  BY DEF Map, Mapped1
<1>2. /\ r \in Calls /\ Shape(r) /\ Fits(cur[p], sz[p], r) /\ sz[p] \in 0..KERNBASE
      /\ cur[p] \in Spaces /\ cur[p].dir # 0 /\ free \in SUBSET Pages /\ state[p] = "live"
      /\ Own(Bundle(cur, st, kstack), free)
  BY <1>1, Unpack DEF Owned
<1>3. a \in UserPages /\ t \in Tables /\ h \in Pages
  BY <1>1, MapRange
<1>4. s \in Spaces /\ s = IF r.op = "sbrk" THEN cur[p] ELSE r.new
  BY <1>2, CallFacts DEF Target
<1>5. next \in Calls /\ next.op = r.op
  BY <1>2, Mapped1Facts
<1>6. G \in SUBSET {a} /\ (r.op = "sbrk" => G = {})
  OBVIOUS
<1>7. /\ MapsPage(s, m, a, h, G) /\ m.tab = s.tab
      /\ g \in Pages => /\ MapsPage(s, m2, a, h, G) /\ m2.dir = m.dir /\ m2.map = m.map
                        /\ m2.tab[t] = g /\ \A u \in Tables : u # t => m2.tab[u] = m.tab[u]
  <2>1. m = [s EXCEPT !.map[a] = h, !.guard = @ \union G]
    OBVIOUS
  <2>2. m2 = [m EXCEPT !.tab[t] = g]
    OBVIOUS
  <2> HIDE DEF s, a, t, h, G, m, g, m2
  <2>3. h \in 0..NPAGES /\ G \in SUBSET UserPages
    BY <1>3, <1>6, PagesPositive
  <2>4. /\ m \in Spaces /\ m.dir = s.dir /\ m.tab = s.tab /\ m.guard = s.guard \union G
        /\ m.map[a] = h /\ \A b \in UserPages : b # a => m.map[b] = s.map[b]
    BY <1>3, <1>4, <2>1, <2>3 DEF Spaces
  <2>5. ASSUME g \in Pages
        PROVE  /\ m2 \in Spaces /\ m2.dir = m.dir /\ m2.map = m.map /\ m2.guard = m.guard
               /\ m2.tab[t] = g /\ \A u \in Tables : u # t => m2.tab[u] = m.tab[u]
    <3>1. g \in 0..NPAGES
      BY <2>5, PagesPositive
    <3>2. m2 \in Spaces /\ m2.dir = m.dir /\ m2.map = m.map /\ m2.guard = m.guard
      BY <1>3, <2>2, <2>4, <3>1 DEF Spaces
    <3>3. m2.tab[t] = g /\ \A u \in Tables : u # t => m2.tab[u] = m.tab[u]
      BY <1>3, <2>2, <2>4 DEF Spaces
    <3> QED BY <3>2, <3>3
  <2> QED BY <2>4, <2>5 DEF MapsPage
<1> HIDE DEF s, t, G, m, g, m2, next
<1>a. CASE s.tab[t] # 0 /\ SetTarget(p, next, m) /\ UNCHANGED free
  <2>1. CASE r.op = "sbrk"
    <3>1. s = cur[p] /\ cur' = [cur EXCEPT ![p] = m] /\ st' = [st EXCEPT ![p] = next]
      BY <1>4, <1>5, <1>a, <2>1 DEF SetTarget, Go
    <3>2. MapsPage(cur[p], m, st[p].a, st[p].mem, {}) /\ st' = [st EXCEPT ![p] = Mapped1(st[p])]
      BY <1>6, <1>7, <2>1, <3>1 DEF next
    <3>3. free' \in SUBSET Pages
      BY <1>2, <1>a
    <3>4. TypeOK' /\ (\A q \in Procs : Sound(q)') /\ Family' /\ cur[p].map[a] = 0
      BY <1>1, <2>1, <3>1, <3>2, <3>3, MapSbrk
    <3>5. Own(Bundle(cur', st', kstack), free)
      <4>1. /\ cur'[p] = m /\ st'[p] = next /\ \A q \in Procs : q # p => cur'[q] = cur[q]
            /\ \A q \in Procs : q # p => st'[q] = st[q]
        BY <3>1, Keep
      <4>2. next.new = r.new /\ next.dead = r.dead /\ next.mem = 0
        BY <1>2, Mapped1Facts DEF next
      <4>3. OnlyMem(st, st', p) /\ st'[p].mem = 0
        BY <4>1, <4>2 DEF OnlyMem
      <4> DEFINE x == <<"map", a>>
      <4>4. x \in Slots /\ SlotFrame(cur[p], m, x) /\ At(cur[p], x) = 0 /\ At(m, x) = h
        BY <1>3, <1>7, <3>1, <3>4, MapSlots
      <4> HIDE DEF x
      <4> QED BY <1>2, <1>3, <4>1, <4>3, <4>4, MemToCur
    <3>6. Owned'
      BY <1>1, <1>a, <3>5 DEF Owned
    <3> QED BY <3>4, <3>6 DEF MemoryInv
  <2>2. CASE r.op # "sbrk"
    <3>1. s = r.new /\ UNCHANGED cur /\ st' = [st EXCEPT ![p] = [Mapped1(st[p]) EXCEPT !.new = m]]
      BY <1>4, <1>5, <1>a, <2>2 DEF SetTarget, Go, next
    <3>2. MapsPage(st[p].new, m, st[p].a, st[p].mem, G) /\ G \in SUBSET {st[p].a}
      BY <1>6, <1>7, <3>1
    <3>3. free' \in SUBSET Pages
      BY <1>2, <1>a
    <3>4. TypeOK' /\ (\A q \in Procs : Sound(q)') /\ Family' /\ r.new.map[a] = 0
      BY <1>1, <2>2, <3>1, <3>2, <3>3, MapNew
    <3>5. Own(Bundle(cur, st', kstack), free)
      <4>1. /\ st'[p] = [Mapped1(r) EXCEPT !.new = m]
            /\ \A q \in Procs : q # p => st'[q] = st[q]
        BY <3>1, Keep
      <4>2. m \in Spaces
        BY <1>7 DEF MapsPage
      <4>3. st'[p].new = m /\ st'[p].dead = r.dead /\ st'[p].mem = 0
        BY <1>2, <4>1, <4>2, Mapped1Facts
      <4> DEFINE x == <<"map", a>>
      <4>4. x \in Slots /\ SlotFrame(r.new, m, x) /\ At(r.new, x) = 0 /\ At(m, x) = h
        BY <1>3, <1>7, <3>1, <3>4, MapSlots
      <4> HIDE DEF x
      <4>5. \A q \in Procs : q # p => /\ st'[q].new = st[q].new /\ st'[q].dead = st[q].dead
                                       /\ st'[q].mem = st[q].mem
        BY <4>1
      <4> QED BY <1>2, <1>3, <4>3, <4>4, <4>5, MemToNew
    <3>6. Owned'
      BY <1>1, <1>a, <3>1, <3>5 DEF Owned
    <3> QED BY <3>4, <3>6 DEF MemoryInv
  <2> QED BY <2>1, <2>2
<1>b. CASE s.tab[t] = 0 /\ free # {} /\ SetTarget(p, next, m2) /\ Take
  <2>0. free' = free \ {g} /\ g \in free /\ g \in Pages /\ free' \in SUBSET Pages
    BY <1>2, <1>b, KallocFree DEF Take, g
  <2>f. /\ MapsPage(s, m2, a, h, G) /\ m2.dir = m.dir /\ m2.map = m.map
        /\ m2.tab[t] = g /\ \A u \in Tables : u # t => m2.tab[u] = m.tab[u]
    BY <1>7, <2>0
  <2> DEFINE x == <<"map", a>>
             y == <<"tab", t>>
  <2>y. y \in Slots /\ SlotFrame(m, m2, y) /\ At(m, y) = 0 /\ At(m2, y) = g
    <3>1. m.tab[t] = 0
      BY <1>7, <1>b
    <3> QED BY <1>3, <2>f, <3>1, TabSlots
  <2> HIDE DEF y
  <2>1. CASE r.op = "sbrk"
    <3>1. s = cur[p] /\ cur' = [cur EXCEPT ![p] = m2] /\ st' = [st EXCEPT ![p] = next]
      BY <1>4, <1>5, <1>b, <2>1 DEF SetTarget, Go
    <3>2. MapsPage(cur[p], m2, st[p].a, st[p].mem, {}) /\ st' = [st EXCEPT ![p] = Mapped1(st[p])]
      BY <1>6, <2>1, <2>f, <3>1 DEF next
    <3>3. TypeOK' /\ (\A q \in Procs : Sound(q)') /\ Family' /\ cur[p].map[a] = 0
      BY <1>1, <2>0, <2>1, <3>1, <3>2, MapSbrk
    <3>4. Own(Bundle(cur', st', kstack), free \ {g})
      <4> DEFINE C == [cur EXCEPT ![p] = m]
      <4>1. /\ cur'[p] = m2 /\ st'[p] = next /\ C[p] = m
            /\ \A q \in Procs : q # p => C[q] = cur[q] /\ cur'[q] = C[q]
            /\ \A q \in Procs : q # p => st'[q] = st[q]
        BY <3>1, Keep
      <4> HIDE DEF C
      <4>2. next.new = r.new /\ next.dead = r.dead /\ next.mem = 0
        BY <1>2, Mapped1Facts DEF next
      <4>3. OnlyMem(st, st', p) /\ st'[p].mem = 0
        BY <4>1, <4>2 DEF OnlyMem
      <4>4. x \in Slots /\ SlotFrame(cur[p], m, x) /\ At(cur[p], x) = 0 /\ At(m, x) = h
        BY <1>3, <1>7, <3>1, <3>3, MapSlots
      <4> HIDE DEF x
      <4>5. Own(Bundle(C, st', kstack), free)
        BY <1>2, <1>3, <4>1, <4>3, <4>4, MemToCur
      <4> QED BY <1>2, <2>0, <2>y, <4>1, <4>5, CurTake
    <3>5. Owned'
      BY <1>1, <2>0, <3>4 DEF Owned
    <3> QED BY <3>3, <3>5 DEF MemoryInv
  <2>2. CASE r.op # "sbrk"
    <3>1. s = r.new /\ UNCHANGED cur /\ st' = [st EXCEPT ![p] = [Mapped1(st[p]) EXCEPT !.new = m2]]
      BY <1>4, <1>5, <1>b, <2>2 DEF SetTarget, Go, next
    <3>2. MapsPage(st[p].new, m2, st[p].a, st[p].mem, G) /\ G \in SUBSET {st[p].a}
      BY <1>6, <2>f, <3>1
    <3>3. TypeOK' /\ (\A q \in Procs : Sound(q)') /\ Family' /\ r.new.map[a] = 0
      BY <1>1, <2>0, <2>2, <3>1, <3>2, MapNew
    <3>4. Own(Bundle(cur, st', kstack), free \ {g})
      <4> DEFINE T == [st EXCEPT ![p] = [Mapped1(r) EXCEPT !.new = m]]
      <4>1. /\ T[p] = [Mapped1(r) EXCEPT !.new = m] /\ st'[p] = [Mapped1(r) EXCEPT !.new = m2]
            /\ \A q \in Procs : q # p => T[q] = st[q] /\ st'[q] = st[q]
        BY <3>1, Keep
      <4> HIDE DEF T
      <4>2. m \in Spaces /\ m2 \in Spaces
        BY <1>7, <2>f DEF MapsPage
      <4>3. T[p].new = m /\ T[p].dead = r.dead /\ T[p].mem = 0
        BY <1>2, <4>1, <4>2, Mapped1Facts
      <4>4. st'[p].new = m2 /\ st'[p].dead = r.dead /\ st'[p].mem = 0
        BY <1>2, <4>1, <4>2, Mapped1Facts
      <4>5. x \in Slots /\ SlotFrame(r.new, m, x) /\ At(r.new, x) = 0 /\ At(m, x) = h
        BY <1>3, <1>7, <3>1, <3>3, MapSlots
      <4> HIDE DEF x
      <4>6. Own(Bundle(cur, T, kstack), free)
        <5>1. \A q \in Procs : q # p => /\ T[q].new = st[q].new /\ T[q].dead = st[q].dead
                                         /\ T[q].mem = st[q].mem
          BY <4>1
        <5> QED BY <1>2, <1>3, <4>3, <4>5, <5>1, MemToNew
      <4>7. OnlyNew(T, st', p)
        BY <4>1, <4>3, <4>4 DEF OnlyNew
      <4> QED BY <1>2, <2>0, <2>y, <4>3, <4>4, <4>6, <4>7, NewTake
    <3>5. Owned'
      BY <1>1, <2>0, <3>1, <3>4 DEF Owned
    <3> QED BY <3>3, <3>5 DEF MemoryInv
  <2> QED BY <2>1, <2>2
<1>c. CASE s.tab[t] = 0 /\ free = {} /\ r.op = "sbrk" /\ NoMemory(p) /\ UNCHANGED <<free, cur>>
  <2>1. st' = [st EXCEPT ![p] = [st[p] EXCEPT !.pc = "dealloc", !.a = PGROUNDUP(sz[p]), !.nsz = 0]]
    BY <1>c DEF NoMemory, Go
  <2>2. st[p].pc \in {"alloc", "map"} /\ st[p].op = "sbrk"
    BY <1>1, <1>c
  <2>3. UNCHANGED <<free, state, parent, kstack, cur, sz>>
    BY <1>1, <1>c
  <2> QED BY <2>1, <2>2, <2>3, UndoInv
<1>d. CASE /\ s.tab[t] = 0 /\ free = {} /\ r.op # "sbrk" /\ Go(p, Abandon([r EXCEPT !.mem = 0]))
           /\ Kfree(h) /\ UNCHANGED cur
  <2> DEFINE r0 == [r EXCEPT !.mem = 0]
             r2 == Abandon(r0)
  <2>1. st' = [st EXCEPT ![p] = r2] /\ free' = free \union ({h} \ {0})
    BY <1>d DEF Go, Kfree
  <2>2. free' \in SUBSET Pages
    BY <1>2, <1>3, <2>1
  <2>3. /\ r0 \in Calls /\ r0.op = r.op /\ r0.new = r.new /\ r0.dead = r.dead /\ r0.mem = 0
        /\ r0.child = r.child
    <3>1. 0 \in 0..NPAGES
      BY MemoryAssumption
    <3> QED BY <1>2, <3>1 DEF Calls
  <2> HIDE DEF r0
  <2>4. r.op \in {"exec", "execstack", "fork"} /\ r.dead = NoSpace /\ r.new.dir # 0
    BY <1>1, <1>2, <1>d, CallFacts DEF Shape
  <2>5. cur[p].guard \subseteq Mapped(cur[p]) /\ Settled(cur[p], sz[p], r0)
    BY <1>2, <2>3 DEF Fits, Guarded, Settled
  <2>6. /\ r2 \in Calls /\ Shape(r2) /\ Fits(cur[p], sz[p], r2)
        /\ r2.new = NoSpace /\ r2.dead = r0.new /\ r2.mem = r0.mem
        /\ r2.op = r0.op /\ r2.child = r0.child
    BY <2>3, <2>4, <2>5, AbandonFits
  <2> HIDE DEF r2
  <2>7. r2.op \in {"fork", "wait"} => WithChild(p) /\ r2.child = st[p].child
    BY <2>3, <2>6 DEF WithChild
  <2>8. /\ cur' = [cur EXCEPT ![p] = cur[p]] /\ sz' = [sz EXCEPT ![p] = sz[p]]
        /\ UNCHANGED <<state, parent, kstack>>
    BY <1>1, <1>d, Keep
  <2>9. TypeOK' /\ (\A q \in Procs : Sound(q)') /\ Family'
    BY <1>2, <2>1, <2>2, <2>6, <2>7, <2>8, LocalStep
  <2>10. Owned'
    <3> DEFINE T == [st EXCEPT ![p] = r0]
    <3>1. /\ T[p] = r0 /\ st'[p] = r2
          /\ \A q \in Procs : q # p => T[q] = st[q] /\ st'[q] = st[q]
      BY <2>1, Keep
    <3> HIDE DEF T
    <3>2. OnlyMem(st, T, p) /\ T[p].mem = 0
      BY <2>3, <3>1 DEF OnlyMem
    <3>3. Own(Bundle(cur, T, kstack), free \union ({st[p].mem} \ {0}))
      BY <1>2, <3>2, MemRelease
    <3>4. Own(Bundle(cur, T, kstack), free')
      BY <2>1, <3>3
    <3>5. OnlySpaces(T, st', p) /\ T[p].dead = NoSpace /\ st'[p].new = NoSpace
          /\ st'[p].dead = T[p].new
      BY <2>3, <2>4, <2>6, <3>1 DEF OnlySpaces
    <3>6. Own(Bundle(cur, st', kstack), free')
      BY <2>2, <3>4, <3>5, GiveUp
    <3> QED BY <1>1, <1>d, <3>6 DEF Owned
  <2> QED BY <2>9, <2>10 DEF MemoryInv
<1> QED BY <1>1, <1>a, <1>b, <1>c, <1>d

----------------------------------------------------------------------------
(* Steps of a process p with its child c *)

\* Function f changes to f2 at x only, where it becomes v.
Sets(f, f2, x, v) == f2 = [f EXCEPT ![x] = v]

\* The call of p becomes r; c gets page table m, size z, kernel stack k and
\* state w.
PairChange(p, c, m, z, r, k, w) ==
  /\ m \in Spaces /\ z \in 0..KERNBASE /\ r \in Calls /\ k \in 0..NPAGES
  /\ w \in {"unused", "embryo", "live", "zombie"}
  /\ Sets(cur, cur', c, m) /\ Sets(sz, sz', c, z) /\ Sets(st, st', p, r)
  /\ Sets(state, state', c, w) /\ Sets(kstack, kstack', c, k)
  /\ parent' \in [Procs -> Procs] /\ free' \in SUBSET Pages
  /\ state[p] = "live" /\ state[c] # "live"
  /\ Shape(r) /\ Fits(cur[p], sz[p], r) /\ Fits(m, z, Idle)
  /\ w \in {"unused", "embryo"} => m = NoSpace
  /\ w = "unused" => k = 0
  /\ w \in {"live", "zombie"} => m.dir # 0
  /\ r.op \in {"fork", "wait"} => r.child = c /\ w = "embryo"
  /\ \A q \in Procs : q # p /\ WithChild(q) => st[q].child # c

LEMMA PairStep ==
  ASSUME MemoryInv, NEW p \in Procs, NEW c \in Procs, NEW m, NEW z, NEW r, NEW k, NEW w,
         PairChange(p, c, m, z, r, k, w)
  PROVE  TypeOK' /\ (\A q \in Procs : Sound(q)') /\ Family'
<1> USE DEF PairChange
<1>1. /\ cur \in [Procs -> Spaces] /\ sz \in [Procs -> 0..KERNBASE] /\ st \in [Procs -> Calls]
      /\ state \in [Procs -> {"unused", "embryo", "live", "zombie"}]
      /\ kstack \in [Procs -> 0..NPAGES]
  BY DEF MemoryInv, TypeOK
<1>2. /\ cur'[c] = m /\ sz'[c] = z /\ state'[c] = w /\ kstack'[c] = k /\ st'[p] = r
      /\ \A q \in Procs : q # c => /\ cur'[q] = cur[q] /\ sz'[q] = sz[q]
                                   /\ state'[q] = state[q] /\ kstack'[q] = kstack[q]
      /\ \A q \in Procs : q # p => st'[q] = st[q]
  BY <1>1 DEF Sets
<1>3. st[c] = Idle /\ st'[c] = Idle
  BY <1>2 DEF MemoryInv, Family
<1>4. TypeOK'
  <2>1. cur' \in [Procs -> Spaces]
    BY <1>1 DEF Sets
  <2>2. sz' \in [Procs -> 0..KERNBASE] /\ st' \in [Procs -> Calls]
    BY <1>1 DEF Sets
  <2>3. state' \in [Procs -> {"unused", "embryo", "live", "zombie"}]
    BY <1>1 DEF Sets
  <2>4. kstack' \in [Procs -> 0..NPAGES]
    BY <1>1 DEF Sets
  <2> QED BY <2>1, <2>2, <2>3, <2>4 DEF TypeOK
<1>5. ASSUME NEW q \in Procs PROVE Sound(q)'
  <2>1. CASE q = p
    BY <1>2, <2>1 DEF Sound
  <2>2. CASE q = c
    BY <1>2, <1>3, <2>2, IdleFacts DEF Sound
  <2>3. CASE q # p /\ q # c
    BY <1>2, <2>3 DEF Sound, MemoryInv
  <2> QED BY <2>1, <2>2, <2>3
<1>6. ASSUME NEW q \in Procs
      PROVE  /\ state'[q] # "live" => st'[q] = Idle
             /\ state'[q] \in {"unused", "embryo"} => cur'[q] = NoSpace
             /\ state'[q] = "unused" => kstack'[q] = 0
             /\ state'[q] \in {"live", "zombie"} => cur'[q].dir # 0
  <2>1. CASE q = p
    BY <1>2, <2>1 DEF MemoryInv, Family
  <2>2. CASE q = c
    BY <1>2, <1>3, <2>2
  <2>3. CASE q # p /\ q # c
    BY <1>2, <2>3 DEF MemoryInv, Family
  <2> QED BY <2>1, <2>2, <2>3
<1>7. ASSUME NEW q \in Procs, WithChild(q)'
      PROVE  /\ state'[st'[q].child] = "embryo"
             /\ q = p => st'[q].child = c
             /\ q # p => WithChild(q) /\ st'[q].child = st[q].child /\ st[q].child # c
  <2>1. CASE q = p
    BY <1>2, <1>7, <2>1 DEF WithChild
  <2>2. CASE q # p
    <3>1. WithChild(q) /\ st'[q].child = st[q].child /\ st[q].child # c
      BY <1>2, <1>7, <2>2 DEF WithChild
    <3>2. st[q].child \in Procs
      BY <1>1, CallFacts
    <3>3. state[st[q].child] = "embryo"
      BY <3>1 DEF MemoryInv, Family
    <3> QED BY <1>2, <2>2, <3>1, <3>2, <3>3
  <2> QED BY <2>1, <2>2
<1>8. \A q, u \in Procs : WithChild(q)' /\ WithChild(u)' /\ st'[q].child = st'[u].child => q = u
  BY <1>7 DEF MemoryInv, Family
<1> QED BY <1>4, <1>5, <1>6, <1>7, <1>8 DEF Family

\* The kernel stack of c, the only page that changes hands.
OnlyStack(T, T2, K, K2, c) ==
  \A q \in Procs : /\ T2[q].new = T[q].new /\ T2[q].dead = T[q].dead /\ T2[q].mem = T[q].mem
                   /\ q # c => K2[q] = K[q]

LEMMA StackFrame ==
  ASSUME NEW C, NEW T, NEW T2, NEW K, NEW K2, NEW c \in Procs, OnlyStack(T, T2, K, K2, c)
  PROVE  /\ Frame(Bundle(C, T, K), Bundle(C, T2, K2), c, "kstack")
         /\ Bundle(C, T, K)[<<c, "kstack">>] = Only(K[c])
         /\ Bundle(C, T2, K2)[<<c, "kstack">>] = Only(K2[c])
<1> DEFINE S == Bundle(C, T, K)
           S2 == Bundle(C, T2, K2)
<1>1. \A q \in Procs : /\ q # c \/ "kstack" # "cur" => C[q] = C[q]
                       /\ q # c \/ "kstack" # "new" => T2[q].new = T[q].new
                       /\ q # c \/ "kstack" # "dead" => T2[q].dead = T[q].dead
                       /\ q # c \/ "kstack" # "kstack" => K2[q] = K[q]
                       /\ q # c \/ "kstack" # "mem" => T2[q].mem = T[q].mem
  BY DEF OnlyStack
<1>2. Frame(S, S2, c, "kstack")
  BY <1>1, FrameBy DEF Kinds
<1>3. IsBundle(S, C, T, K) /\ IsBundle(S2, C, T2, K2)
  BY BundleFacts
<1> HIDE DEF S, S2
<1>4. S[<<c, "kstack">>] = Only(K[c]) /\ S2[<<c, "kstack">>] = Only(K2[c])
  BY <1>3 DEF IsBundle
<1> QED BY <1>2, <1>4 DEF S, S2

LEMMA StackTake ==
  ASSUME NEW C, NEW T, NEW T2, NEW K, NEW K2, NEW F \in SUBSET Pages, Own(Bundle(C, T, K), F),
         NEW c \in Procs, OnlyStack(T, T2, K, K2, c), K[c] = 0, NEW g \in F, K2[c] = g
  PROVE  Own(Bundle(C, T2, K2), F \ {g})
<1> DEFINE S == Bundle(C, T, K)
           S2 == Bundle(C, T2, K2)
<1>1. Frame(S, S2, c, "kstack") /\ S[<<c, "kstack">>] = Only(K[c])
      /\ S2[<<c, "kstack">>] = Only(K2[c])
  BY StackFrame
<1>2. /\ SlotFrame(Only(K[c]), Only(K2[c]), DirSlot) /\ DirSlot \in Slots
      /\ At(Only(K[c]), DirSlot) = 0 /\ At(Only(K2[c]), DirSlot) = g
  BY OnlyFacts, SlotFacts
<1> HIDE DEF S, S2
<1>3. Own(S, F)
  BY DEF S
<1>4. Own(S2, F \ {g})
  BY <1>1, <1>2, <1>3, TakeSlot DEF Kinds
<1> QED BY <1>4 DEF S2

LEMMA StackRelease ==
  ASSUME NEW C, NEW T, NEW T2, NEW K, NEW K2, NEW F \in SUBSET Pages, Own(Bundle(C, T, K), F),
         NEW c \in Procs, OnlyStack(T, T2, K, K2, c), K2[c] = 0
  PROVE  Own(Bundle(C, T2, K2), F \union ({K[c]} \ {0}))
<1> DEFINE S == Bundle(C, T, K)
           S2 == Bundle(C, T2, K2)
<1>1. Frame(S, S2, c, "kstack") /\ S[<<c, "kstack">>] = Only(K[c])
      /\ S2[<<c, "kstack">>] = Only(K2[c])
  BY StackFrame
<1>2. /\ SlotFrame(Only(K[c]), Only(K2[c]), DirSlot) /\ DirSlot \in Slots
      /\ At(Only(K[c]), DirSlot) = K[c] /\ At(Only(K2[c]), DirSlot) = 0
  BY OnlyFacts, SlotFacts
<1> HIDE DEF S, S2
<1>3. Own(S, F)
  BY DEF S
<1>4. Own(S2, F \union ({At(S[<<c, "kstack">>], DirSlot)} \ {0}))
  BY <1>1, <1>2, <1>3, ReleaseSlot DEF Kinds
<1> QED BY <1>1, <1>2, <1>4 DEF S2

\* The page table of c changes places with the one that the call of p builds
\* (k = "new") or takes apart (k = "dead").
LEMMA Exchange ==
  ASSUME NEW C, NEW C2, NEW T, NEW T2, NEW K, NEW F \in SUBSET Pages, Own(Bundle(C, T, K), F),
         NEW p \in Procs, NEW c \in Procs, NEW k \in {"new", "dead"},
         \A q \in Procs : q # c => C2[q] = C[q],
         \A q \in Procs : T2[q].mem = T[q].mem,
         \A q \in Procs : q # p \/ k # "new" => T2[q].new = T[q].new,
         \A q \in Procs : q # p \/ k # "dead" => T2[q].dead = T[q].dead,
         k = "new" => /\ \A x \in Slots : At(T2[p].new, x) = At(C[c], x)
                      /\ \A x \in Slots : At(C2[c], x) = At(T[p].new, x),
         k = "dead" => /\ \A x \in Slots : At(T2[p].dead, x) = At(C[c], x)
                       /\ \A x \in Slots : At(C2[c], x) = At(T[p].dead, x)
  PROVE  Own(Bundle(C2, T2, K), F)
<1> DEFINE S == Bundle(C, T, K)
           S2 == Bundle(C2, T2, K)
<1>1. IsBundle(S, C, T, K) /\ IsBundle(S2, C2, T2, K)
  BY BundleFacts
<1> HIDE DEF S, S2
<1>2. ASSUME NEW x \in Slots
      PROVE  /\ At(S2[<<p, k>>], x) = At(S[<<c, "cur">>], x)
             /\ At(S2[<<c, "cur">>], x) = At(S[<<p, k>>], x)
  <2>1. CASE k = "new"
    <3>1. /\ S[<<p, k>>] = T[p].new /\ S2[<<p, k>>] = T2[p].new
          /\ S[<<c, "cur">>] = C[c] /\ S2[<<c, "cur">>] = C2[c]
      BY <1>1, <2>1 DEF IsBundle
    <3> QED BY <2>1, <3>1
  <2>2. CASE k = "dead"
    <3>1. /\ S[<<p, k>>] = T[p].dead /\ S2[<<p, k>>] = T2[p].dead
          /\ S[<<c, "cur">>] = C[c] /\ S2[<<c, "cur">>] = C2[c]
      BY <1>1, <2>2 DEF IsBundle
    <3> QED BY <2>2, <3>1
  <2> QED BY <2>1, <2>2
<1>3. ASSUME NEW q \in Procs, NEW m \in Kinds, q # p \/ m # k, q # c \/ m # "cur"
      PROVE  S2[<<q, m>>] = S[<<q, m>>]
  <2>1. CASE m = "cur"
    BY <1>1, <1>3, <2>1 DEF IsBundle
  <2>2. CASE m = "new"
    BY <1>1, <1>3, <2>2 DEF IsBundle
  <2>3. CASE m = "dead"
    BY <1>1, <1>3, <2>3 DEF IsBundle
  <2>4. CASE m = "kstack"
    <3>1. S[<<q, "kstack">>] = Only(K[q]) /\ S2[<<q, "kstack">>] = Only(K[q])
      BY <1>1 DEF IsBundle
    <3> QED BY <2>4, <3>1
  <2>5. CASE m = "mem"
    <3>1. S[<<q, "mem">>] = Only(T[q].mem) /\ S2[<<q, "mem">>] = Only(T2[q].mem)
      BY <1>1 DEF IsBundle
    <3>2. T2[q].mem = T[q].mem
      OBVIOUS
    <3>3. Only(T2[q].mem) = Only(T[q].mem)
      BY <3>2, Zenon
    <3> QED BY <2>5, <3>1, <3>3
  <2> QED BY <2>1, <2>2, <2>3, <2>4, <2>5 DEF Kinds
<1>4. Own(S, F) /\ k \in Kinds /\ "cur" \in Kinds /\ k # "cur"
  BY DEF S, Kinds
<1>5. Own(S2, F)
  BY <1>2, <1>3, <1>4, SwapSpaces
<1> QED BY <1>5 DEF S2

LEMMA ForkInv ==
  ASSUME MemoryInv, NEW p \in Procs, Fork(p)
  PROVE  MemoryInv'
<1> DEFINE g == Kalloc
           call(c) == [Idle EXCEPT !.pc = "setupkvm", !.op = "fork", !.nsz = sz[p], !.child = c]
<1>1. PICK c \in Procs : /\ state[c] = "unused" /\ state' = [state EXCEPT ![c] = "embryo"]
                         /\ kstack' = [kstack EXCEPT ![c] = g]
                         /\ st' = [st EXCEPT ![p] = call(c)]
  BY DEF Fork, Go
<1>2. InUser(p) /\ free' = free \ {g} /\ g \in free /\ UNCHANGED <<parent, cur, sz>>
  BY KallocFree DEF Fork, Take
<1> DEFINE r == call(c)
<1>3. /\ sz[p] \in 0..KERNBASE /\ sz[p] \in Nat /\ cur[p] \in Spaces /\ free \in SUBSET Pages
      /\ cur[c] \in Spaces /\ sz[c] \in 0..KERNBASE
  BY <1>1, Unpack, MemoryAssumption
<1>4. st[p] = Idle /\ state[p] = "live" /\ p # c
  BY <1>1, <1>2, UserFacts
<1>5. /\ r.pc = "setupkvm" /\ r.op = "fork" /\ r.new = NoSpace /\ r.dead = NoSpace /\ r.mem = 0
      /\ r.nsz = sz[p] /\ r.child = c /\ r \in Calls
  <2>1. r = [Idle EXCEPT !.pc = "setupkvm", !.op = "fork", !.nsz = sz[p], !.child = c]
    OBVIOUS
  <2> HIDE DEF r
  <2> QED BY <1>3, <2>1, IdleFacts DEF Calls, Idle, PCs
<1>6. st' = [st EXCEPT ![p] = r]
  BY <1>1
<1> HIDE DEF r, g
<1>7. Shape(r)
  BY <1>5 DEF Shape
<1>8. Fits(cur[p], sz[p], r)
  <2>1. Mapped(cur[p]) = Below(PGROUNDUP(sz[p])) /\ cur[p].guard \subseteq Mapped(cur[p])
    BY <1>2, UserFacts
  <2>2. Guarded(cur[p], r) /\ Building(sz[p], r)
    BY <1>5, <2>1, OnlyFacts DEF Guarded, Building
  <2>3. Settled(cur[p], sz[p], r) /\ Growing(cur[p], sz[p], r) /\ Unmapping(cur[p], sz[p], r)
    BY <1>5, <2>1 DEF Settled, Growing, Unmapping
  <2> QED BY <2>2, <2>3 DEF Fits
<1>9. st[c] = Idle /\ cur[c] = NoSpace /\ kstack[c] = 0
  BY <1>1 DEF MemoryInv, Family
<1>10. Fits(cur[c], sz[c], Idle)
  BY <1>9, Unpack
<1>11. \A q \in Procs : q # p /\ WithChild(q) => st[q].child # c
  BY <1>1 DEF MemoryInv, Family
<1>12. g \in Pages /\ g \in 0..NPAGES /\ g # 0
  BY <1>2, <1>3, PagesPositive
<1>13. /\ cur' = [cur EXCEPT ![c] = cur[c]] /\ sz' = [sz EXCEPT ![c] = sz[c]]
       /\ free' \in SUBSET Pages
  BY <1>2, <1>3, Keep
<1>14. parent' \in [Procs -> Procs]
  BY <1>2 DEF MemoryInv, TypeOK
<1>15. /\ "embryo" \in {"unused", "embryo", "live", "zombie"} /\ state[c] # "live"
       /\ "embryo" # "unused" /\ "embryo" \notin {"live", "zombie"}
  BY <1>1
<1>16. TypeOK' /\ (\A q \in Procs : Sound(q)') /\ Family'
  <2>1. /\ Sets(cur, cur', c, cur[c]) /\ Sets(sz, sz', c, sz[c]) /\ Sets(st, st', p, r)
        /\ Sets(state, state', c, "embryo") /\ Sets(kstack, kstack', c, g)
    BY <1>1, <1>6, <1>13 DEF Sets
  <2>2. PairChange(p, c, cur[c], sz[c], r, g, "embryo")
    BY <1>3, <1>4, <1>5, <1>7, <1>8, <1>9, <1>10, <1>11, <1>12, <1>13, <1>14, <1>15, <2>1
       DEF PairChange
  <2> QED BY <2>2, PairStep
<1>17. Owned'
  <2>1. /\ st'[p] = r /\ kstack'[c] = g /\ \A q \in Procs : q # p => st'[q] = st[q]
        /\ \A q \in Procs : q # c => kstack'[q] = kstack[q]
    BY <1>1, <1>6, Keep
  <2>2. OnlyStack(st, st', kstack, kstack', c)
    BY <1>4, <1>5, <2>1, IdleFacts DEF OnlyStack
  <2>3. Own(Bundle(cur, st, kstack), free)
    BY DEF MemoryInv, Owned
  <2>4. Own(Bundle(cur, st', kstack'), free \ {g})
    BY <1>2, <1>3, <1>9, <2>1, <2>2, <2>3, StackTake
  <2> QED BY <1>2, <2>4 DEF Owned
<1> QED BY <1>16, <1>17 DEF MemoryInv

LEMMA ForkEndInv ==
  ASSUME MemoryInv, NEW p \in Procs, ForkEnd(p)
  PROVE  MemoryInv'
<1> DEFINE r == st[p]
           c == r.child
           m == r.new
<1>1. /\ r.pc = "alloc" /\ r.op = "fork" /\ r.a * PGSIZE >= r.lim
      /\ cur' = [cur EXCEPT ![c] = m] /\ sz' = [sz EXCEPT ![c] = sz[p]]
      /\ parent' = [parent EXCEPT ![c] = p] /\ state' = [state EXCEPT ![c] = "live"]
      /\ st' = [st EXCEPT ![p] = Idle] /\ UNCHANGED <<free, kstack>>
  BY DEF ForkEnd, Go
<1>2. /\ r \in Calls /\ Shape(r) /\ Fits(cur[p], sz[p], r) /\ sz[p] \in 0..KERNBASE
      /\ cur[p] \in Spaces /\ free \in SUBSET Pages /\ state[p] = "live"
  BY <1>1, Unpack
<1>3. WithChild(p) /\ state[c] = "embryo" /\ \A q \in Procs : q # p /\ WithChild(q) => st[q].child # c
  BY <1>1 DEF MemoryInv, Family, WithChild
<1>4. st[p] = r
  OBVIOUS
<1> HIDE DEF r
<1>5. m \in Spaces /\ c \in Procs /\ r.a \in Nat /\ r.lim \in Nat
  BY <1>2, CallFacts
<1>6. m.dir # 0 /\ r.dead = NoSpace /\ r.mem = 0
  BY <1>1, <1>2 DEF Shape
<1>7. p # c
  BY <1>2, <1>3
<1>8. Fits(m, sz[p], Idle)
  <2>1. /\ Mapped(m) = Below(r.a) /\ r.a <= PGROUNDUP(r.lim) /\ r.lim = sz[p]
        /\ m.guard \subseteq Mapped(m)
    BY <1>1, <1>2 DEF Fits, Building, Guarded
  <2>2. PGROUNDUP(r.lim) \in Nat /\ PGROUNDUP(r.lim) <= r.a
    BY <1>1, <1>5, LoopEnd
  <2>3. r.a = PGROUNDUP(sz[p])
    BY <1>5, <2>1, <2>2
  <2> QED BY <2>1, <2>3, FitsIdle
<1>9. Fits(cur[p], sz[p], Idle)
  <2>1. /\ cur[p].guard \subseteq Mapped(cur[p])
        /\ Mapped(cur[p]) = {} \/ Mapped(cur[p]) = Below(PGROUNDUP(sz[p]))
    BY <1>1, <1>2 DEF Fits, Guarded, Settled
  <2> QED BY <2>1, FitsIdle
<1>10. st[c] = Idle /\ cur[c] = NoSpace
  BY <1>3, <1>5 DEF MemoryInv, Family
<1>11. kstack' = [kstack EXCEPT ![c] = kstack[c]] /\ kstack[c] \in 0..NPAGES
       /\ free' \in SUBSET Pages
  <2>1. kstack \in [Procs -> 0..NPAGES]
    BY Keep
  <2> QED BY <1>1, <1>2, <1>5, <2>1
<1>12. parent' \in [Procs -> Procs]
  BY <1>1 DEF MemoryInv, TypeOK
<1>13. "live" \in {"unused", "embryo", "live", "zombie"} /\ "live" \notin {"unused", "embryo"}
       /\ state[c] # "live" /\ "live" # "unused"
  BY <1>3
<1>i. Idle \in Calls /\ Shape(Idle) /\ Idle.op \notin {"fork", "wait"}
  BY IdleFacts
<1> HIDE DEF c, m
<1>14. TypeOK' /\ (\A q \in Procs : Sound(q)') /\ Family'
  <2>1. /\ Sets(cur, cur', c, m) /\ Sets(sz, sz', c, sz[p]) /\ Sets(st, st', p, Idle)
        /\ Sets(state, state', c, "live") /\ Sets(kstack, kstack', c, kstack[c])
    BY <1>1, <1>11 DEF Sets
  <2>2. PairChange(p, c, m, sz[p], Idle, kstack[c], "live")
    BY <1>2, <1>3, <1>5, <1>6, <1>8, <1>9, <1>11, <1>12, <1>13, <1>i, <2>1 DEF PairChange
  <2> QED BY <1>5, <2>2, PairStep
<1>15. Owned'
  <2>1. /\ st'[p] = Idle /\ cur'[c] = m /\ \A q \in Procs : q # p => st'[q] = st[q]
        /\ \A q \in Procs : q # c => cur'[q] = cur[q]
    BY <1>1, <1>5, Keep
  <2>2. st[p].new = m /\ st[p].dead = NoSpace /\ st[p].mem = 0
    BY <1>4, <1>6 DEF m
  <2>3. \A q \in Procs : st'[q].mem = st[q].mem
    BY <2>1, <2>2, IdleFacts
  <2>4. \A q \in Procs : q # p \/ "new" # "new" => st'[q].new = st[q].new
    BY <2>1
  <2>5. \A q \in Procs : q # p \/ "new" # "dead" => st'[q].dead = st[q].dead
    BY <2>1, <2>2, IdleFacts
  <2>6. /\ \A x \in Slots : At(st'[p].new, x) = At(cur[c], x)
        /\ \A x \in Slots : At(cur'[c], x) = At(st[p].new, x)
    BY <1>10, <2>1, <2>2, IdleFacts
  <2>7. Own(Bundle(cur, st, kstack), free)
    BY DEF MemoryInv, Owned
  <2>8. Own(Bundle(cur', st', kstack), free)
    BY <1>2, <1>5, <2>1, <2>3, <2>4, <2>5, <2>6, <2>7, Exchange
  <2> QED BY <1>1, <2>8 DEF Owned
<1> QED BY <1>14, <1>15 DEF MemoryInv

LEMMA ExecStackInv ==
  ASSUME MemoryInv, NEW p \in Procs, ExecStack(p)
  PROVE  MemoryInv'
<1> DEFINE r == st[p]
           newsz == PGROUNDUP(r.nsz) * PGSIZE + 2 * PGSIZE
           r2 == AllocUvm([r EXCEPT !.op = "execstack", !.nsz = newsz], r.nsz, newsz)
<1>1. /\ r.pc = "alloc" /\ r.op = "exec" /\ r.a * PGSIZE >= r.lim
      /\ \/ st' = [st EXCEPT ![p] = Abandon(r)]
         \/ newsz < KERNBASE /\ st' = [st EXCEPT ![p] = r2]
      /\ UNCHANGED <<free, state, parent, kstack, cur, sz>>
  BY DEF ExecStack, Go
<1>2. /\ r \in Calls /\ Shape(r) /\ Fits(cur[p], sz[p], r) /\ sz[p] \in 0..KERNBASE
      /\ cur[p] \in Spaces /\ cur[p].dir # 0 /\ free \in SUBSET Pages /\ state[p] = "live"
  BY <1>1, Unpack
<1>3. CASE st' = [st EXCEPT ![p] = Abandon(r)]
  <2>1. st[p].pc \in {"setupkvm", "kmap", "alloc"} /\ st[p].op # "sbrk"
    BY <1>1
  <2> QED BY <1>1, <1>3, <2>1, AbandonInv
<1>4. CASE newsz < KERNBASE /\ st' = [st EXCEPT ![p] = r2]
  <2>1. st[p] = r /\ newsz = PGROUNDUP(r.nsz) * PGSIZE + 2 * PGSIZE
    OBVIOUS
  <2> HIDE DEF r
  <2>2. r.a \in Nat /\ r.lim \in Nat /\ r.nsz \in Nat
    BY <1>2, CallFacts
  <2>3. PGROUNDUP(r.nsz) \in Nat /\ PGROUNDUP(r.nsz) * PGSIZE >= r.nsz /\ PGSIZE \in Nat
        /\ PGROUNDUP(r.nsz) * PGSIZE \in Nat
    <3>1. PGROUNDUP(r.nsz) \in Nat /\ ~(PGROUNDUP(r.nsz) < PGROUNDUP(r.nsz)) /\ PGSIZE \in Nat
      BY <2>2, RoundUp, MemoryAssumption
    <3>2. ~(PGROUNDUP(r.nsz) * PGSIZE < r.nsz)
      BY <2>2, <3>1, RoundUp
    <3>3. PGROUNDUP(r.nsz) * PGSIZE \in Nat
      BY <3>1
    <3> QED BY <2>2, <3>1, <3>2, <3>3
  <2>4. newsz \in Nat /\ 2 * PGSIZE <= newsz /\ r.nsz <= newsz
    <3>1. 2 * PGSIZE \in Nat
      BY <2>3
    <3> QED BY <2>2, <2>3, <3>1
  <2> HIDE DEF newsz
  <2>5. PGROUNDUP(r.nsz) <= PGROUNDUP(newsz)
    BY <2>2, <2>4, RoundUpMono
  <2>6. /\ r2 \in Calls /\ r2.pc = "alloc" /\ r2.op = "execstack" /\ r2.new = r.new
        /\ r2.dead = r.dead /\ r2.mem = r.mem /\ r2.nsz = newsz /\ r2.lim = newsz
        /\ r2.a = PGROUNDUP(r.nsz)
    <3>1. r2 = [r EXCEPT !.op = "execstack", !.nsz = newsz, !.pc = "alloc", !.a = PGROUNDUP(r.nsz),
                         !.lim = newsz]
      BY <1>2 DEF AllocUvm, Calls
    <3> HIDE DEF r2
    <3>2. r2 \in Calls
      BY <1>2, <2>3, <2>4, <3>1 DEF Calls, PCs
    <3> QED BY <1>2, <3>1, <3>2 DEF Calls
  <2> HIDE DEF r2
  <2>7. Shape(r2)
    BY <1>1, <1>2, <2>6 DEF Shape
  <2>8. Fits(cur[p], sz[p], r2)
    <3>1. Mapped(r.new) = Below(r.a) /\ r.a <= PGROUNDUP(r.lim) /\ r.nsz = r.lim
      BY <1>1, <1>2 DEF Fits, Building
    <3>2. PGROUNDUP(r.lim) \in Nat /\ PGROUNDUP(r.lim) <= r.a
      BY <1>1, <2>2, LoopEnd
    <3>3. r.a = PGROUNDUP(r.nsz)
      BY <2>2, <3>1, <3>2
    <3>4. Building(sz[p], r2)
      BY <1>4, <2>4, <2>5, <2>6, <3>1, <3>3 DEF Building
    <3>5. Guarded(cur[p], r2) /\ Settled(cur[p], sz[p], r2)
      BY <1>1, <1>2, <2>6 DEF Fits, Guarded, Settled
    <3>6. Growing(cur[p], sz[p], r2) /\ Unmapping(cur[p], sz[p], r2)
      BY <2>6 DEF Growing, Unmapping
    <3> QED BY <3>4, <3>5, <3>6 DEF Fits
  <2>9. /\ cur' = [cur EXCEPT ![p] = cur[p]] /\ sz' = [sz EXCEPT ![p] = sz[p]]
        /\ UNCHANGED <<state, parent, kstack>> /\ free' \in SUBSET Pages
    BY <1>1, <1>2, Keep
  <2>10. r2.op \notin {"fork", "wait"}
    BY <2>6
  <2>11. TypeOK' /\ (\A q \in Procs : Sound(q)') /\ Family'
    BY <1>2, <1>4, <2>6, <2>7, <2>8, <2>9, <2>10, LocalStep
  <2>12. Owned'
    <3>1. r2.new = st[p].new /\ r2.dead = st[p].dead /\ r2.mem = st[p].mem
      BY <2>1, <2>6
    <3> QED BY <1>1, <1>4, <2>6, <3>1, SamePages
  <2> QED BY <2>11, <2>12 DEF MemoryInv
<1> QED BY <1>1, <1>3, <1>4

LEMMA ExecCommitInv ==
  ASSUME MemoryInv, NEW p \in Procs, ExecCommit(p)
  PROVE  MemoryInv'
<1> DEFINE r == st[p]
           b == r.lim \div PGSIZE - 2
           m == [r.new EXCEPT !.guard = {b}]
           r2 == [r EXCEPT !.pc = "freevm", !.dead = cur[p], !.new = NoSpace]
<1>1. /\ r.pc = "alloc" /\ r.op = "execstack" /\ r.a * PGSIZE >= r.lim
      /\ UNCHANGED <<free, state, parent, kstack>>
      /\ \/ st' = [st EXCEPT ![p] = Abandon(r)] /\ UNCHANGED <<cur, sz>>
         \/ /\ cur' = [cur EXCEPT ![p] = m] /\ sz' = [sz EXCEPT ![p] = r.nsz]
            /\ st' = [st EXCEPT ![p] = r2]
  BY DEF ExecCommit, Go
<1>2. /\ r \in Calls /\ Shape(r) /\ Fits(cur[p], sz[p], r) /\ sz[p] \in 0..KERNBASE
      /\ cur[p] \in Spaces /\ cur[p].dir # 0 /\ free \in SUBSET Pages /\ state[p] = "live"
  BY <1>1, Unpack
<1>3. CASE st' = [st EXCEPT ![p] = Abandon(r)] /\ UNCHANGED <<cur, sz>>
  <2>1. st[p].pc \in {"setupkvm", "kmap", "alloc"} /\ st[p].op # "sbrk"
    BY <1>1
  <2> QED BY <1>1, <1>3, <2>1, AbandonInv
<1>4. CASE /\ cur' = [cur EXCEPT ![p] = m] /\ sz' = [sz EXCEPT ![p] = r.nsz]
           /\ st' = [st EXCEPT ![p] = r2]
  <2>1. st[p] = r
    OBVIOUS
  <2> HIDE DEF r
  <2>2. r.a \in Nat /\ r.lim \in Nat /\ r.nsz \in Nat /\ r.new \in Spaces
    BY <1>2, CallFacts
  <2>3. r.new.dir # 0 /\ r.dead = NoSpace /\ r.mem = 0
    BY <1>1, <1>2 DEF Shape
  <2>4. /\ Mapped(r.new) = Below(r.a) /\ r.a <= PGROUNDUP(r.lim) /\ r.nsz = r.lim
        /\ r.lim < KERNBASE /\ 2 * PGSIZE <= r.lim
    BY <1>1, <1>2 DEF Fits, Building
  <2>5. r.a = PGROUNDUP(r.lim)
    <3>1. PGROUNDUP(r.lim) \in Nat /\ PGROUNDUP(r.lim) <= r.a
      BY <1>1, <2>2, LoopEnd
    <3> QED BY <2>2, <2>4, <3>1
  <2>6. b \in UserPages /\ b \in Below(r.a)
    <3>1. b \in Nat /\ b < PGROUNDUP(r.lim)
      BY <2>2, <2>4, GuardPage
    <3>2. r.lim \in 0..KERNBASE
      BY <2>2, <2>4, MemoryAssumption
    <3> HIDE DEF b
    <3>3. b \in UserPages
      BY <3>1, <3>2, UserPageFacts
    <3> QED BY <2>5, <3>1, <3>3 DEF Below
  <2> HIDE DEF b
  <2>7. /\ m \in Spaces /\ m.dir = r.new.dir /\ m.tab = r.new.tab /\ m.map = r.new.map
        /\ m.guard = {b}
    BY <2>2, <2>6 DEF Spaces
  <2>8. /\ r2 \in Calls /\ r2.pc = "freevm" /\ r2.op = "execstack" /\ r2.new = NoSpace
        /\ r2.dead = cur[p] /\ r2.mem = 0
    <3>1. NoSpace \in Spaces
      BY OnlyFacts
    <3>2. r2 \in Calls
      BY <1>2, <3>1 DEF Calls, PCs
    <3> QED BY <1>1, <1>2, <2>3, <3>2 DEF Calls
  <2> HIDE DEF m, r2
  <2>9. Shape(r2)
    BY <1>2, <2>8 DEF Shape
  <2>10. Fits(m, r.nsz, r2)
    <3>1. Mapped(m) = Below(PGROUNDUP(r.nsz))
      BY <2>4, <2>5, <2>7 DEF Mapped
    <3>2. m.guard \subseteq Mapped(m)
      BY <2>4, <2>5, <2>6, <2>7, <3>1
    <3>3. Guarded(m, r2) /\ Settled(m, r.nsz, r2)
      BY <2>8, <3>1, <3>2, OnlyFacts DEF Guarded, Settled
    <3>4. Growing(m, r.nsz, r2) /\ Unmapping(m, r.nsz, r2) /\ Building(r.nsz, r2)
      BY <2>8 DEF Growing, Unmapping, Building
    <3> QED BY <3>3, <3>4 DEF Fits
  <2>11. r.nsz \in 0..KERNBASE /\ m.dir # 0 /\ r2.op \notin {"fork", "wait"}
    BY <2>2, <2>3, <2>4, <2>7, <2>8, MemoryAssumption
  <2>12. UNCHANGED <<state, parent, kstack>> /\ free' \in SUBSET Pages
    BY <1>1, <1>2
  <2>13. TypeOK' /\ (\A q \in Procs : Sound(q)') /\ Family'
    BY <1>2, <1>4, <2>7, <2>8, <2>9, <2>10, <2>11, <2>12, LocalStep
  <2>14. Owned'
    <3> DEFINE T == [st EXCEPT ![p] = [r EXCEPT !.dead = r.new, !.new = NoSpace]]
    <3>1. /\ T[p] = [r EXCEPT !.dead = r.new, !.new = NoSpace] /\ st'[p] = r2 /\ cur'[p] = m
          /\ \A q \in Procs : q # p => T[q] = st[q] /\ st'[q] = st[q] /\ cur'[q] = cur[q]
      BY <1>4, Keep
    <3> HIDE DEF T
    <3>2. T[p].new = NoSpace /\ T[p].dead = r.new /\ T[p].mem = 0
      BY <1>2, <2>3, <3>1 DEF Calls
    <3>3. OnlySpaces(st, T, p) /\ st[p].dead = NoSpace /\ T[p].dead = st[p].new
      BY <2>1, <2>3, <3>1, <3>2 DEF OnlySpaces
    <3>4. Own(Bundle(cur, st, kstack), free)
      BY DEF MemoryInv, Owned
    <3>5. Own(Bundle(cur, T, kstack), free)
      BY <1>2, <3>2, <3>3, <3>4, GiveUp
    <3>6. \A q \in Procs : q # p => cur'[q] = cur[q]
      BY <3>1
    <3>7. \A q \in Procs : st'[q].mem = T[q].mem
      BY <2>8, <3>1, <3>2
    <3>8. \A q \in Procs : q # p \/ "dead" # "new" => st'[q].new = T[q].new
      BY <2>8, <3>1, <3>2
    <3>9. \A q \in Procs : q # p \/ "dead" # "dead" => st'[q].dead = T[q].dead
      BY <3>1
    <3>10. /\ \A x \in Slots : At(st'[p].dead, x) = At(cur[p], x)
           /\ \A x \in Slots : At(cur'[p], x) = At(T[p].dead, x)
      <4>1. \A x \in Slots : At(m, x) = At(r.new, x)
        BY <2>7, SlotSame
      <4> QED BY <2>8, <3>1, <3>2, <4>1
    <3>11. Own(Bundle(cur', st', kstack), free)
      BY <1>2, <3>5, <3>6, <3>7, <3>8, <3>9, <3>10, Exchange
    <3> QED BY <1>1, <3>11 DEF Owned
  <2> QED BY <2>13, <2>14 DEF MemoryInv
<1> QED BY <1>1, <1>3, <1>4

----------------------------------------------------------------------------
(* freevm and wait *)

OnlyDead(T, T2, p) ==
  \A q \in Procs : /\ T2[q].mem = T[q].mem /\ T2[q].new = T[q].new
                   /\ q # p => T2[q].dead = T[q].dead

LEMMA DeadRelease ==
  ASSUME NEW C, NEW T, NEW T2, NEW K, NEW F \in SUBSET Pages, Own(Bundle(C, T, K), F),
         NEW p \in Procs, NEW X \in SUBSET Slots, OnlyDead(T, T2, p),
         \A y \in Slots \ X : At(T2[p].dead, y) = At(T[p].dead, y),
         \A y \in X : At(T2[p].dead, y) = 0
  PROVE  Own(Bundle(C, T2, K), F \union ({At(T[p].dead, y) : y \in X} \ {0}))
<1> DEFINE S == Bundle(C, T, K)
           S2 == Bundle(C, T2, K)
<1>1. \A q \in Procs : /\ q # p \/ "dead" # "cur" => C[q] = C[q]
                       /\ q # p \/ "dead" # "new" => T2[q].new = T[q].new
                       /\ q # p \/ "dead" # "dead" => T2[q].dead = T[q].dead
                       /\ q # p \/ "dead" # "kstack" => K[q] = K[q]
                       /\ q # p \/ "dead" # "mem" => T2[q].mem = T[q].mem
  BY DEF OnlyDead
<1>2. Frame(S, S2, p, "dead")
  BY <1>1, FrameBy DEF Kinds
<1>3. IsBundle(S, C, T, K) /\ IsBundle(S2, C, T2, K)
  BY BundleFacts
<1> HIDE DEF S, S2
<1>4. S[<<p, "dead">>] = T[p].dead /\ S2[<<p, "dead">>] = T2[p].dead
  BY <1>3 DEF IsBundle
<1>5. Own(S, F) /\ "dead" \in Kinds
  BY DEF S, Kinds
<1>6. Own(S2, F \union ({At(S[<<p, "dead">>], y) : y \in X} \ {0}))
  BY <1>2, <1>4, <1>5, ReleaseSlots
<1>7. {At(S[<<p, "dead">>], y) : y \in X} = {At(T[p].dead, y) : y \in X}
  BY <1>4
<1> QED BY <1>6, <1>7 DEF S2

\* A step that only changes the page table being freed.
LEMMA DeadStep ==
  ASSUME MemoryInv, NEW p \in Procs, st[p].pc = "freevm", NEW s \in Spaces,
         s = NoSpace \/ s.dir # 0, st' = [st EXCEPT ![p] = [st[p] EXCEPT !.dead = s]],
         UNCHANGED <<state, parent, kstack, cur, sz>>, free' \in SUBSET Pages
  PROVE  /\ TypeOK' /\ (\A q \in Procs : Sound(q)') /\ Family'
         /\ OnlyDead(st, st', p) /\ st'[p].dead = s
<1> DEFINE r == st[p]
           r2 == [r EXCEPT !.dead = s]
<1>1. /\ r \in Calls /\ Shape(r) /\ Fits(cur[p], sz[p], r) /\ sz[p] \in 0..KERNBASE
      /\ cur[p] \in Spaces /\ cur[p].dir # 0 /\ state[p] = "live"
  BY Unpack
<1>2. st[p] = r /\ st' = [st EXCEPT ![p] = r2] /\ r.pc = "freevm"
  OBVIOUS
<1> HIDE DEF r
<1>3. /\ r2 \in Calls /\ r2.pc = r.pc /\ r2.op = r.op /\ r2.new = r.new /\ r2.dead = s
      /\ r2.mem = r.mem /\ r2.nsz = r.nsz /\ r2.lim = r.lim /\ r2.a = r.a /\ r2.child = r.child
  <2>1. r2 \in Calls
    BY <1>1 DEF Calls
  <2> QED BY <1>1, <2>1 DEF Calls
<1> HIDE DEF r2
<1>4. Shape(r2)
  BY <1>1, <1>2, <1>3 DEF Shape
<1>5. Fits(cur[p], sz[p], r2)
  BY <1>1, <1>2, <1>3 DEF Fits, Guarded, Settled, Growing, Unmapping, Building
<1>6. r2.op \in {"fork", "wait"} => WithChild(p) /\ r2.child = st[p].child
  BY <1>2, <1>3 DEF WithChild
<1>7. /\ cur' = [cur EXCEPT ![p] = cur[p]] /\ sz' = [sz EXCEPT ![p] = sz[p]]
      /\ UNCHANGED <<state, parent, kstack>>
  BY Keep
<1>8. TypeOK' /\ (\A q \in Procs : Sound(q)') /\ Family'
  BY <1>1, <1>2, <1>3, <1>4, <1>5, <1>6, <1>7, LocalStep
<1>9. st'[p] = r2 /\ \A q \in Procs : q # p => st'[q] = st[q]
  BY <1>2, Keep
<1>10. OnlyDead(st, st', p) /\ st'[p].dead = s
  BY <1>2, <1>3, <1>9 DEF OnlyDead
<1> QED BY <1>8, <1>10

LEMMA FreeVmInv ==
  ASSUME MemoryInv, NEW p \in Procs, FreeVm(p)
  PROVE  MemoryInv'
<1> DEFINE r == st[p]
           s == r.dead
<1>1. /\ r.pc = "freevm" /\ s # NoSpace /\ UNCHANGED <<state, parent, kstack, cur, sz>>
      /\ \/ \E a \in Mapped(s) : /\ free' = free \union ({s.map[a]} \ {0})
                                 /\ st' = [st EXCEPT ![p] = [r EXCEPT !.dead.map[a] = 0]]
         \/ /\ Mapped(s) = {}
            /\ free' = free \union ({s.tab[t] : t \in Tables} \ {0}) \union {s.dir}
            /\ st' = [st EXCEPT ![p] = [r EXCEPT !.dead = NoSpace]]
  BY DEF FreeVm, Go, Kfree
<1>2. r \in Calls /\ Shape(r) /\ free \in SUBSET Pages /\ Own(Bundle(cur, st, kstack), free)
  BY Unpack DEF Owned
<1>3. s \in Spaces /\ s.dir # 0 /\ s.dir \in 0..NPAGES
  <2>1. s \in Spaces /\ s.dir # 0
    BY <1>1, <1>2, CallFacts DEF Shape
  <2> QED BY <2>1 DEF Spaces
<1>4. CASE \E a \in Mapped(s) : /\ free' = free \union ({s.map[a]} \ {0})
                                /\ st' = [st EXCEPT ![p] = [r EXCEPT !.dead.map[a] = 0]]
  <2>1. PICK a \in Mapped(s) : /\ free' = free \union ({s.map[a]} \ {0})
                               /\ st' = [st EXCEPT ![p] = [r EXCEPT !.dead.map[a] = 0]]
    BY <1>4
  <2> DEFINE s2 == [s EXCEPT !.map[a] = 0]
             x == <<"map", a>>
  <2>2. a \in UserPages /\ 0 \in 0..NPAGES
    BY MemoryAssumption DEF Mapped
  <2>3. st' = [st EXCEPT ![p] = [st[p] EXCEPT !.dead = s2]]
    BY <1>2, <2>1 DEF Calls
  <2> HIDE DEF s
  <2>4. /\ s2 \in Spaces /\ s2.dir = s.dir /\ s2.tab = s.tab /\ s2.map[a] = 0
        /\ \A b \in UserPages : b # a => s2.map[b] = s.map[b]
    BY <1>3, <2>2 DEF Spaces
  <2> HIDE DEF s2
  <2>5. s2.dir # 0
    BY <1>3, <2>4
  <2>6. s.map[a] \in 0..NPAGES
    BY <1>3, <2>2 DEF Spaces
  <2>7. free' \in SUBSET Pages
    <3>1. {s.map[a]} \ {0} \subseteq Pages
      BY <2>6, MemoryAssumption DEF Pages
    <3> QED BY <1>2, <2>1, <3>1
  <2>8. /\ TypeOK' /\ (\A q \in Procs : Sound(q)') /\ Family'
        /\ OnlyDead(st, st', p) /\ st'[p].dead = s2
    BY <1>1, <2>3, <2>4, <2>5, <2>7, DeadStep
  <2>9. /\ SlotFrame(s, s2, x) /\ {x} \in SUBSET Slots /\ At(s2, x) = 0 /\ At(s, x) = s.map[a]
    <3>1. SlotFrame(s, s2, x)
      BY <2>2, <2>4, MapFrame
    <3>2. x \in Slots /\ At(s2, x) = s2.map[a] /\ At(s, x) = s.map[a]
      BY <2>2, SlotFacts
    <3> QED BY <2>4, <3>1, <3>2
  <2>10. st[p].dead = s
    BY DEF s
  <2> HIDE DEF x
  <2>11. /\ \A y \in Slots \ {x} : At(st'[p].dead, y) = At(st[p].dead, y)
         /\ \A y \in {x} : At(st'[p].dead, y) = 0
    BY <2>8, <2>9, <2>10 DEF SlotFrame
  <2>12. Own(Bundle(cur, st', kstack), free \union ({At(st[p].dead, y) : y \in {x}} \ {0}))
    <3>1. \A X \in SUBSET Slots :
             (\A y \in Slots \ X : At(st'[p].dead, y) = At(st[p].dead, y))
               /\ (\A y \in X : At(st'[p].dead, y) = 0)
             => Own(Bundle(cur, st', kstack), free \union ({At(st[p].dead, y) : y \in X} \ {0}))
      BY <1>2, <2>8, DeadRelease
    <3> QED BY <2>9, <2>11, <3>1, Zenon
  <2>13. {At(st[p].dead, y) : y \in {x}} = {s.map[a]}
    BY <2>9, <2>10
  <2>14. Owned'
    BY <1>1, <2>1, <2>12, <2>13 DEF Owned
  <2> QED BY <2>8, <2>14 DEF MemoryInv
<1>5. CASE /\ Mapped(s) = {}
           /\ free' = free \union ({s.tab[t] : t \in Tables} \ {0}) \union {s.dir}
           /\ st' = [st EXCEPT ![p] = [r EXCEPT !.dead = NoSpace]]
  <2>1. st[p].dead = s
    OBVIOUS
  <2> HIDE DEF s
  <2>2. NoSpace \in Spaces /\ NoSpace = NoSpace
    BY OnlyFacts
  <2>3. {At(s, y) : y \in Slots} \ {0} = ({s.tab[t] : t \in Tables} \ {0}) \union {s.dir}
    <3>1. \A a \in UserPages : s.map[a] = 0
      BY <1>5 DEF Mapped
    <3>2. ASSUME NEW y \in Slots, At(s, y) # 0
          PROVE  At(s, y) = s.dir \/ \E t \in Tables : At(s, y) = s.tab[t]
      <4>1. CASE y = DirSlot
        BY <4>1, SlotFacts
      <4>2. CASE \E t \in Tables : y = <<"tab", t>>
        BY <4>2, SlotFacts
      <4>3. CASE \E a \in UserPages : y = <<"map", a>>
        BY <3>1, <3>2, <4>3, SlotFacts
      <4> QED BY <4>1, <4>2, <4>3, SlotFacts
    <3>3. \A t \in Tables : \E y \in Slots : At(s, y) = s.tab[t]
      BY SlotFacts
    <3>4. \E y \in Slots : At(s, y) = s.dir
      BY SlotFacts
    <3> QED BY <1>3, <3>2, <3>3, <3>4
  <2>4. {At(s, y) : y \in Slots} \ {0} \subseteq Pages
    <3>1. \A t \in Tables : s.tab[t] \in 0..NPAGES
      BY <1>3 DEF Spaces
    <3>2. \A g \in 0..NPAGES : g # 0 => g \in Pages
      BY MemoryAssumption DEF Pages
    <3> QED BY <1>3, <2>3, <3>1, <3>2
  <2>5. free' = free \union ({At(s, y) : y \in Slots} \ {0})
    BY <1>5, <2>3
  <2>6. free' \in SUBSET Pages
    BY <1>2, <2>4, <2>5
  <2>7. /\ TypeOK' /\ (\A q \in Procs : Sound(q)') /\ Family'
        /\ OnlyDead(st, st', p) /\ st'[p].dead = NoSpace
    BY <1>1, <1>5, <2>2, <2>6, DeadStep
  <2>8. /\ \A y \in Slots \ Slots : At(st'[p].dead, y) = At(st[p].dead, y)
        /\ \A y \in Slots : At(st'[p].dead, y) = 0
    BY <2>7, OnlyFacts
  <2>9. Own(Bundle(cur, st', kstack), free \union ({At(st[p].dead, y) : y \in Slots} \ {0}))
    <3>1. \A X \in SUBSET Slots :
             (\A y \in Slots \ X : At(st'[p].dead, y) = At(st[p].dead, y))
               /\ (\A y \in X : At(st'[p].dead, y) = 0)
             => Own(Bundle(cur, st', kstack), free \union ({At(st[p].dead, y) : y \in X} \ {0}))
      BY <1>2, <2>7, DeadRelease
    <3>2. Slots \in SUBSET Slots
      OBVIOUS
    <3> QED BY <2>8, <3>1, <3>2, Zenon
  <2>10. Owned'
    BY <1>1, <2>1, <2>5, <2>9 DEF Owned
  <2> QED BY <2>7, <2>10 DEF MemoryInv
<1> QED BY <1>1, <1>4, <1>5

LEMMA FreeVmEndInv ==
  ASSUME MemoryInv, NEW p \in Procs, FreeVmEnd(p)
  PROVE  MemoryInv'
<1> DEFINE r == st[p]
           c == r.child
<1>1. /\ r.pc = "freevm" /\ r.dead = NoSpace /\ st' = [st EXCEPT ![p] = Idle]
      /\ UNCHANGED <<parent, cur, sz>>
      /\ IF r.op \in {"fork", "wait"}
         THEN /\ free' = free \union ({kstack[c]} \ {0})
              /\ kstack' = [kstack EXCEPT ![c] = 0] /\ state' = [state EXCEPT ![c] = "unused"]
         ELSE UNCHANGED <<free, kstack, state>>
  BY DEF FreeVmEnd, Go, Kfree
<1>2. /\ r \in Calls /\ Shape(r) /\ Fits(cur[p], sz[p], r) /\ sz[p] \in 0..KERNBASE
      /\ cur[p] \in Spaces /\ cur[p].dir # 0 /\ free \in SUBSET Pages /\ state[p] = "live"
      /\ Own(Bundle(cur, st, kstack), free)
  BY <1>1, Unpack DEF Owned
<1>3. st[p] = r
  OBVIOUS
<1>4. r.op \in {"fork", "wait"} =>
        /\ state[c] = "embryo" /\ \A q \in Procs : q # p /\ WithChild(q) => st[q].child # c
  BY DEF MemoryInv, Family, WithChild
<1> HIDE DEF r
<1>5. r.new = NoSpace /\ r.mem = 0 /\ r.op # "sbrk" /\ c \in Procs
  BY <1>1, <1>2, CallFacts DEF Shape
<1>6. Fits(cur[p], sz[p], Idle)
  <2>1. /\ cur[p].guard \subseteq Mapped(cur[p])
        /\ Mapped(cur[p]) = {} \/ Mapped(cur[p]) = Below(PGROUNDUP(sz[p]))
    BY <1>2, <1>5 DEF Fits, Guarded, Settled
  <2> QED BY <2>1, FitsIdle
<1>7. Idle \in Calls /\ Shape(Idle) /\ Idle.op \notin {"fork", "wait"}
  BY IdleFacts
<1>8. Idle.new = st[p].new /\ Idle.dead = st[p].dead /\ Idle.mem = st[p].mem
  BY <1>1, <1>3, <1>5, IdleFacts
<1> HIDE DEF c
<1>9. CASE r.op \in {"fork", "wait"}
  <2>1. /\ free' = free \union ({kstack[c]} \ {0}) /\ state[c] = "embryo"
        /\ kstack' = [kstack EXCEPT ![c] = 0] /\ state' = [state EXCEPT ![c] = "unused"]
    BY <1>1, <1>4, <1>9
  <2>2. cur[c] = NoSpace /\ st[c] = Idle
    BY <1>5, <2>1 DEF MemoryInv, Family
  <2>3. /\ cur[c] \in Spaces /\ sz[c] \in 0..KERNBASE /\ kstack[c] \in 0..NPAGES
        /\ Fits(cur[c], sz[c], Idle)
    BY <1>5, <2>2, Unpack
  <2>4. free' \in SUBSET Pages
    <3>1. {kstack[c]} \ {0} \subseteq Pages
      BY <2>3, MemoryAssumption DEF Pages
    <3> QED BY <1>2, <2>1, <3>1
  <2>5. /\ Sets(cur, cur', c, cur[c]) /\ Sets(sz, sz', c, sz[c]) /\ Sets(st, st', p, Idle)
        /\ Sets(state, state', c, "unused") /\ Sets(kstack, kstack', c, 0)
    BY <1>1, <1>5, <2>1, Keep DEF Sets
  <2>6. parent' \in [Procs -> Procs]
    BY <1>1 DEF MemoryInv, TypeOK
  <2>7. 0 \in 0..NPAGES
    BY MemoryAssumption
  <2>8. PairChange(p, c, cur[c], sz[c], Idle, 0, "unused")
    BY <1>2, <1>4, <1>6, <1>7, <1>9, <2>1, <2>2, <2>3, <2>4, <2>5, <2>6, <2>7 DEF PairChange
  <2>9. TypeOK' /\ (\A q \in Procs : Sound(q)') /\ Family'
    BY <1>5, <2>8, PairStep
  <2>10. Owned'
    <3>1. /\ st'[p] = Idle /\ kstack'[c] = 0 /\ \A q \in Procs : q # p => st'[q] = st[q]
          /\ \A q \in Procs : q # c => kstack'[q] = kstack[q]
      BY <1>1, <1>5, <2>1, Keep
    <3>2. OnlyStack(st, st', kstack, kstack', c)
      BY <1>8, <3>1 DEF OnlyStack
    <3>3. Own(Bundle(cur, st', kstack'), free \union ({kstack[c]} \ {0}))
      BY <1>2, <1>5, <3>1, <3>2, StackRelease
    <3> QED BY <1>1, <2>1, <3>3 DEF Owned
  <2> QED BY <2>9, <2>10 DEF MemoryInv
<1>10. CASE r.op \notin {"fork", "wait"}
  <2>1. UNCHANGED <<free, kstack, state, parent, cur, sz>>
    BY <1>1, <1>10
  <2>2. /\ cur' = [cur EXCEPT ![p] = cur[p]] /\ sz' = [sz EXCEPT ![p] = sz[p]]
        /\ UNCHANGED <<state, parent, kstack>> /\ free' \in SUBSET Pages
    BY <1>2, <2>1, Keep
  <2>3. TypeOK' /\ (\A q \in Procs : Sound(q)') /\ Family'
    BY <1>1, <1>2, <1>6, <1>7, <2>2, LocalStep
  <2>4. Owned'
    BY <1>1, <1>7, <1>8, <2>1, SamePages
  <2> QED BY <2>3, <2>4 DEF MemoryInv
<1> QED BY <1>9, <1>10

LEMMA WaitInv ==
  ASSUME MemoryInv, NEW p \in Procs, Wait(p)
  PROVE  MemoryInv'
<1> DEFINE call(c) == [Idle EXCEPT !.pc = "freevm", !.op = "wait", !.dead = cur[c], !.child = c]
<1>1. PICK c \in Procs :
        /\ state[c] = "zombie" /\ c # p /\ st' = [st EXCEPT ![p] = call(c)]
        /\ cur' = [cur EXCEPT ![c] = NoSpace] /\ sz' = [sz EXCEPT ![c] = 0]
        /\ state' = [state EXCEPT ![c] = "embryo"]
        /\ free' = free \union ({kstack[c]} \ {0}) /\ kstack' = [kstack EXCEPT ![c] = 0]
  BY DEF Wait, Go, Kfree
<1>2. InUser(p) /\ UNCHANGED parent
  BY DEF Wait
<1> DEFINE r == call(c)
<1>3. /\ sz[p] \in 0..KERNBASE /\ cur[p] \in Spaces /\ free \in SUBSET Pages
      /\ cur[c] \in Spaces /\ kstack[c] \in 0..NPAGES /\ Own(Bundle(cur, st, kstack), free)
  BY <1>1, Unpack DEF Owned
<1>4. st[p] = Idle /\ state[p] = "live" /\ cur[c].dir # 0
  BY <1>1, <1>2, UserFacts DEF MemoryInv, Family
<1>5. /\ r.pc = "freevm" /\ r.op = "wait" /\ r.new = NoSpace /\ r.dead = cur[c] /\ r.mem = 0
      /\ r.child = c /\ r \in Calls
  <2>1. r = [Idle EXCEPT !.pc = "freevm", !.op = "wait", !.dead = cur[c], !.child = c]
    OBVIOUS
  <2> HIDE DEF r
  <2> QED BY <1>3, <2>1, IdleFacts DEF Calls, Idle, PCs
<1>6. st' = [st EXCEPT ![p] = r]
  BY <1>1
<1> HIDE DEF r
<1>7. Shape(r)
  BY <1>4, <1>5 DEF Shape
<1>8. Fits(cur[p], sz[p], r)
  <2>1. Mapped(cur[p]) = Below(PGROUNDUP(sz[p])) /\ cur[p].guard \subseteq Mapped(cur[p])
    BY <1>2, UserFacts
  <2>2. Guarded(cur[p], r) /\ Building(sz[p], r)
    BY <1>5, <2>1, OnlyFacts DEF Guarded, Building
  <2>3. Settled(cur[p], sz[p], r) /\ Growing(cur[p], sz[p], r) /\ Unmapping(cur[p], sz[p], r)
    BY <1>5, <2>1 DEF Settled, Growing, Unmapping
  <2> QED BY <2>2, <2>3 DEF Fits
<1>9. Fits(NoSpace, 0, Idle)
  BY OnlyFacts, FitsIdle
<1>10. \A q \in Procs : q # p /\ WithChild(q) => st[q].child # c
  BY <1>1 DEF MemoryInv, Family
<1>11. free' \in SUBSET Pages
  <2>1. {kstack[c]} \ {0} \subseteq Pages
    BY <1>3, MemoryAssumption DEF Pages
  <2> QED BY <1>1, <1>3, <2>1
<1>12. /\ Sets(cur, cur', c, NoSpace) /\ Sets(sz, sz', c, 0) /\ Sets(st, st', p, r)
       /\ Sets(state, state', c, "embryo") /\ Sets(kstack, kstack', c, 0)
  BY <1>1, <1>6 DEF Sets
<1>13. parent' \in [Procs -> Procs] /\ NoSpace \in Spaces /\ 0 \in 0..NPAGES /\ 0 \in 0..KERNBASE
  BY <1>2, OnlyFacts, MemoryAssumption DEF MemoryInv, TypeOK
<1>14. PairChange(p, c, NoSpace, 0, r, 0, "embryo")
  BY <1>1, <1>4, <1>5, <1>7, <1>8, <1>9, <1>10, <1>11, <1>12, <1>13 DEF PairChange
<1>15. TypeOK' /\ (\A q \in Procs : Sound(q)') /\ Family'
  BY <1>14, PairStep
<1>16. Owned'
  <2>1. /\ st'[p] = r /\ cur'[c] = NoSpace /\ kstack'[c] = 0
        /\ \A q \in Procs : q # p => st'[q] = st[q]
        /\ \A q \in Procs : q # c => cur'[q] = cur[q] /\ kstack'[q] = kstack[q]
    BY <1>1, <1>6, Keep
  <2>2. st[p].new = NoSpace /\ st[p].dead = NoSpace /\ st[p].mem = 0
    BY <1>4, IdleFacts
  <2>3. \A q \in Procs : st'[q].mem = st[q].mem
    BY <1>5, <2>1, <2>2
  <2>4. \A q \in Procs : q # p \/ "dead" # "new" => st'[q].new = st[q].new
    BY <1>5, <2>1, <2>2
  <2>5. \A q \in Procs : q # p \/ "dead" # "dead" => st'[q].dead = st[q].dead
    BY <2>1
  <2>6. /\ \A x \in Slots : At(st'[p].dead, x) = At(cur[c], x)
        /\ \A x \in Slots : At(cur'[c], x) = At(st[p].dead, x)
    BY <1>5, <2>1, <2>2
  <2>7. \A q \in Procs : q # c => cur'[q] = cur[q]
    BY <2>1
  <2>8. Own(Bundle(cur', st', kstack), free)
    BY <1>3, <2>3, <2>4, <2>5, <2>6, <2>7, Exchange
  <2>9. OnlyStack(st', st', kstack, kstack', c)
    BY <2>1 DEF OnlyStack
  <2>10. Own(Bundle(cur', st', kstack'), free \union ({kstack[c]} \ {0}))
    BY <1>3, <2>1, <2>8, <2>9, StackRelease
  <2> QED BY <1>1, <2>10 DEF Owned
<1> QED BY <1>15, <1>16 DEF MemoryInv

----------------------------------------------------------------------------
(* The theorems *)

LEMMA InitMemoryInv ==
  ASSUME Init
  PROVE  MemoryInv
<1> DEFINE C0 == [NoSpace EXCEPT !.dir = 2, !.tab = [@ EXCEPT ![NTAB] = 3, ![0] = 4],
                                 !.map = [@ EXCEPT ![0] = 5]]
<1>1. InitProc \in Procs /\ 0 \in 0..NPAGES /\ \A n \in 1..5 : n \in Pages /\ n \in 0..NPAGES
  BY MemoryAssumption DEF Pages
<1>2. /\ 0 \in UserPages /\ 0 \in Tables /\ NTAB \in Tables
  BY UserPageFacts
<1>3. NTAB # 0
  <2>1. KERNBASE \div PGSIZE \in Nat \ {0} /\ KERNBASE \div PGSIZE = NTAB * NPTE
    BY Division
  <2>2. 0 * NPTE = 0
    BY MemoryAssumption
  <2> QED BY <2>1, <2>2
<1>4. /\ NoSpace.dir = 0 /\ NoSpace.tab = [t \in Tables |-> 0]
      /\ NoSpace.map = [a \in UserPages |-> 0] /\ NoSpace.guard = {} /\ NoSpace \in Spaces
  BY OnlyFacts DEF NoSpace
<1>5. /\ C0.dir = 2 /\ C0.guard = {} /\ C0.map[0] = 5 /\ C0.tab[NTAB] = 3 /\ C0.tab[0] = 4
      /\ \A t \in Tables : t # 0 /\ t # NTAB => C0.tab[t] = 0
      /\ \A a \in UserPages : a # 0 => C0.map[a] = 0
      /\ C0 \in Spaces
  <2>1. C0.dir = 2 /\ C0.guard = {}
    BY <1>4 DEF NoSpace
  <2>2. C0.map = [a \in UserPages |-> IF a = 0 THEN 5 ELSE 0]
    BY <1>2, <1>4 DEF NoSpace
  <2>3. C0.tab = [t \in Tables |-> IF t = NTAB THEN 3 ELSE IF t = 0 THEN 4 ELSE 0]
    BY <1>2, <1>3, <1>4 DEF NoSpace
  <2>4. /\ 5 \in 0..NPAGES /\ 4 \in 0..NPAGES /\ 3 \in 0..NPAGES /\ 2 \in 0..NPAGES
    BY <1>1
  <2>5. /\ NoSpace \in Spaces /\ NoSpace.tab \in [Tables -> 0..NPAGES]
        /\ NoSpace.map \in [UserPages -> 0..NPAGES]
    BY <1>4 DEF Spaces
  <2>6. /\ [NoSpace.tab EXCEPT ![NTAB] = 3, ![0] = 4] \in [Tables -> 0..NPAGES]
        /\ [NoSpace.map EXCEPT ![0] = 5] \in [UserPages -> 0..NPAGES]
    BY <2>4, <2>5
  <2>7. \A u \in [Tables -> 0..NPAGES], m \in [UserPages -> 0..NPAGES] :
          [NoSpace EXCEPT !.dir = 2, !.tab = u, !.map = m] \in Spaces
    BY <2>4, <2>5 DEF Spaces
  <2>8. C0 \in Spaces
    BY <2>6, <2>7
  <2> QED BY <1>2, <1>3, <2>1, <2>2, <2>3, <2>8
<1>6. /\ free = Pages \ 1..5
      /\ state = [p \in Procs |-> IF p = InitProc THEN "live" ELSE "unused"]
      /\ parent = [p \in Procs |-> InitProc]
      /\ kstack = [p \in Procs |-> IF p = InitProc THEN 1 ELSE 0]
      /\ cur = [p \in Procs |-> IF p # InitProc THEN NoSpace ELSE C0]
      /\ sz = [p \in Procs |-> IF p = InitProc THEN PGSIZE ELSE 0]
      /\ st = [p \in Procs |-> Idle]
  BY DEF Init
<1> HIDE DEF C0
<1>7. PGSIZE \in 1..KERNBASE /\ PGROUNDUP(PGSIZE) = 1
  <2>1. PGSIZE \in Nat \ {0} /\ KERNBASE \in Nat /\ 1 * PGSIZE = PGSIZE /\ 0 * PGSIZE = 0
    BY MemoryAssumption
  <2>2. KERNBASE \div PGSIZE \in Nat \ {0} /\ (KERNBASE \div PGSIZE) * PGSIZE = KERNBASE
    BY Division
  <2>3. 1 * PGSIZE <= (KERNBASE \div PGSIZE) * PGSIZE
    <3> DEFINE n == KERNBASE \div PGSIZE
    <3>1. n \in Int /\ 1 <= n
      BY <2>2
    <3> HIDE DEF n
    <3> QED BY <2>1, <3>1, MulMono DEF n
  <2>4. PGROUNDUP(PGSIZE) \in Nat /\ ~(1 * PGSIZE < PGSIZE) /\ 0 * PGSIZE < PGSIZE
    BY <2>1, RoundUp
  <2>5. ~(1 < PGROUNDUP(PGSIZE)) /\ 0 < PGROUNDUP(PGSIZE)
    BY <2>1, <2>4, RoundUp
  <2> QED BY <2>1, <2>2, <2>3, <2>4, <2>5
<1>8. TypeOK
  <2>1. free \subseteq Pages /\ parent \in [Procs -> Procs] /\ st \in [Procs -> Calls]
    BY <1>1, <1>6, IdleFacts
  <2>2. state \in [Procs -> {"unused", "embryo", "live", "zombie"}]
    BY <1>6
  <2>3. kstack \in [Procs -> 0..NPAGES]
    BY <1>1, <1>6
  <2>4. cur \in [Procs -> Spaces]
    BY <1>4, <1>5, <1>6
  <2>5. sz \in [Procs -> 0..KERNBASE]
    BY <1>6, <1>7, MemoryAssumption
  <2> QED BY <2>1, <2>2, <2>3, <2>4, <2>5 DEF TypeOK
<1>9. ASSUME NEW p \in Procs PROVE Sound(p)
  <2>1. st[p] = Idle
    BY <1>6
  <2>2. CASE p = InitProc
    <3>1. cur[p] = C0 /\ sz[p] = PGSIZE
      BY <1>6, <2>2
    <3>2. Below(1) = {0}
      <4>1. \A a \in UserPages : a < 1 <=> a = 0
        BY UserPageFacts
      <4> QED BY <1>2, <4>1 DEF Below
    <3>3. Mapped(C0) = {0}
      BY <1>2, <1>5 DEF Mapped
    <3>4. Mapped(cur[p]) = Below(PGROUNDUP(sz[p])) /\ cur[p].guard \subseteq Mapped(cur[p])
      BY <1>5, <1>7, <3>1, <3>2, <3>3
    <3> QED BY <2>1, <3>4, FitsIdle, IdleFacts DEF Sound
  <2>3. CASE p # InitProc
    <3>1. cur[p] = NoSpace
      BY <1>6, <2>3
    <3>2. Mapped(cur[p]) = {} /\ cur[p].guard \subseteq Mapped(cur[p])
      BY <3>1, OnlyFacts
    <3> QED BY <2>1, <3>2, FitsIdle, IdleFacts DEF Sound
  <2> QED BY <2>2, <2>3
<1>10. Family
  <2>1. \A p \in Procs : ~WithChild(p)
    BY <1>6, IdleFacts DEF WithChild
  <2>2. \A p \in Procs :
          /\ state[p] # "live" => st[p] = Idle
          /\ state[p] \in {"unused", "embryo"} => cur[p] = NoSpace
          /\ state[p] = "unused" => kstack[p] = 0
          /\ state[p] \in {"live", "zombie"} => cur[p].dir # 0
    BY <1>5, <1>6
  <2> QED BY <2>1, <2>2 DEF Family
<1>11. Owned
  <2> DEFINE S == Bundle(cur, st, kstack)
             where(n) == CASE n = 1 -> <<"kstack", DirSlot>> [] n = 2 -> <<"cur", DirSlot>>
                           [] n = 3 -> <<"cur", <<"tab", NTAB>>>> [] n = 4 -> <<"cur", <<"tab", 0>>>>
                           [] n = 5 -> <<"cur", <<"map", 0>>>>
  <2>1. IsBundle(S, cur, st, kstack)
    BY BundleFacts
  <2> HIDE DEF S
  <2>2. ASSUME NEW p \in Procs
        PROVE  /\ S[<<p, "cur">>] = IF p = InitProc THEN C0 ELSE NoSpace
               /\ S[<<p, "new">>] = NoSpace /\ S[<<p, "dead">>] = NoSpace
               /\ S[<<p, "mem">>] = NoSpace
               /\ S[<<p, "kstack">>] = IF p = InitProc THEN Only(1) ELSE NoSpace
    <3>1. Only(0) = NoSpace
      BY <1>4 DEF Only, NoSpace
    <3>2. st[p].new = NoSpace /\ st[p].dead = NoSpace /\ st[p].mem = 0
      BY <1>6, IdleFacts
    <3>3. kstack[p] = IF p = InitProc THEN 1 ELSE 0
      BY <1>6
    <3>4. cur[p] = IF p = InitProc THEN C0 ELSE NoSpace
      BY <1>6
    <3>5. /\ S[<<p, "cur">>] = cur[p] /\ S[<<p, "new">>] = st[p].new
          /\ S[<<p, "dead">>] = st[p].dead /\ S[<<p, "kstack">>] = Only(kstack[p])
          /\ S[<<p, "mem">>] = Only(st[p].mem)
      BY <2>1 DEF IsBundle
    <3> QED BY <3>1, <3>2, <3>3, <3>4, <3>5
  <2>3. /\ At(Only(1), DirSlot) = 1 /\ \A x \in Slots : x # DirSlot => At(Only(1), x) = 0
    <3>1. SlotFrame(Only(0), Only(1), DirSlot) /\ Only(0) = NoSpace
      BY <1>4, OnlyFacts DEF Only, NoSpace
    <3> QED BY <3>1, OnlyFacts DEF SlotFrame
  <2>4. ASSUME NEW p \in Procs, NEW k \in Kinds, NEW x \in Slots, Cell(S, p, k, x) # 0
        PROVE  p = InitProc /\ Cell(S, p, k, x) \in 1..5 /\ where(Cell(S, p, k, x)) = <<k, x>>
    <3>1. CASE p # InitProc \/ k \in {"new", "dead", "mem"}
      <4>1. S[<<p, k>>] = NoSpace
        BY <2>2, <3>1 DEF Kinds
      <4> QED BY <2>4, <4>1, OnlyFacts DEF Cell
    <3>2. CASE p = InitProc /\ k = "kstack"
      <4>1. Cell(S, p, k, x) = At(Only(1), x)
        BY <2>2, <3>2 DEF Cell
      <4>2. x = DirSlot /\ Cell(S, p, k, x) = 1
        BY <2>3, <2>4, <4>1
      <4> QED BY <3>2, <4>2
    <3>3. CASE p = InitProc /\ k = "cur"
      <4>1. Cell(S, p, k, x) = At(C0, x)
        BY <2>2, <3>3 DEF Cell
      <4>2. CASE x = DirSlot
        <5>1. Cell(S, p, k, x) = 2
          BY <1>5, <4>1, <4>2, SlotFacts
        <5> QED BY <3>3, <4>2, <5>1
      <4>3. CASE \E t \in Tables : x = <<"tab", t>>
        <5>1. PICK t \in Tables : x = <<"tab", t>>
          BY <4>3
        <5>2. Cell(S, p, k, x) = C0.tab[t]
          BY <4>1, <5>1, SlotFacts
        <5>3. (t = NTAB /\ Cell(S, p, k, x) = 3) \/ (t = 0 /\ Cell(S, p, k, x) = 4)
          BY <1>5, <2>4, <5>2
        <5> QED BY <3>3, <5>1, <5>3
      <4>4. CASE \E a \in UserPages : x = <<"map", a>>
        <5>1. PICK a \in UserPages : x = <<"map", a>>
          BY <4>4
        <5>2. Cell(S, p, k, x) = C0.map[a]
          BY <4>1, <5>1, SlotFacts
        <5>3. a = 0 /\ Cell(S, p, k, x) = 5
          BY <1>5, <2>4, <5>2
        <5> QED BY <3>3, <5>1, <5>3
      <4> QED BY <4>2, <4>3, <4>4, SlotFacts
    <3> QED BY <3>1, <3>2, <3>3 DEF Kinds
  <2>5. /\ Cell(S, InitProc, "kstack", DirSlot) = 1 /\ Cell(S, InitProc, "cur", DirSlot) = 2
        /\ Cell(S, InitProc, "cur", <<"tab", NTAB>>) = 3
        /\ Cell(S, InitProc, "cur", <<"tab", 0>>) = 4
        /\ Cell(S, InitProc, "cur", <<"map", 0>>) = 5
    <3>1. S[<<InitProc, "kstack">>] = Only(1) /\ S[<<InitProc, "cur">>] = C0
      BY <1>1, <2>2
    <3>2. /\ Cell(S, InitProc, "kstack", DirSlot) = At(Only(1), DirSlot)
          /\ \A x : Cell(S, InitProc, "cur", x) = At(C0, x)
      BY <3>1 DEF Cell
    <3> QED BY <1>5, <2>3, <3>2, SlotFacts
  <2> HIDE DEF where
  <2>6. NotFree(S, free)
    <3> SUFFICES ASSUME NEW p \in Procs, NEW k \in Kinds, NEW x \in Slots
                 PROVE  Cell(S, p, k, x) \notin free
      BY DEF NotFree
    <3>1. CASE Cell(S, p, k, x) = 0
      BY <1>6, <3>1, PagesPositive
    <3>2. CASE Cell(S, p, k, x) # 0
      <4>1. Cell(S, p, k, x) \in 1..5
        BY <2>4, <3>2
      <4> QED BY <1>6, <4>1
    <3> QED BY <3>1, <3>2
  <2>7. Once(S)
    <3> SUFFICES ASSUME NEW p \in Procs, NEW q \in Procs, NEW k \in Kinds, NEW l \in Kinds,
                        NEW x \in Slots, NEW y \in Slots,
                        Cell(S, p, k, x) = Cell(S, q, l, y), Cell(S, p, k, x) # 0
                 PROVE  p = q /\ k = l /\ x = y
      BY DEF Once
    <3>1. p = InitProc /\ where(Cell(S, p, k, x)) = <<k, x>>
      BY <2>4
    <3>2. q = InitProc /\ where(Cell(S, q, l, y)) = <<l, y>>
      BY <2>4
    <3>3. <<k, x>> = <<l, y>>
      BY <3>1, <3>2
    <3> QED BY <3>1, <3>2, <3>3
  <2>8. Covered(S, free)
    <3> SUFFICES ASSUME NEW g \in Pages \ free
                 PROVE  \E p \in Procs, k \in Kinds, x \in Slots : Cell(S, p, k, x) = g
      BY DEF Covered
    <3>1. g \in 1..5
      BY <1>6
    <3>2. g = 1 \/ g = 2 \/ g = 3 \/ g = 4 \/ g = 5
      BY <3>1
    <3>3. /\ DirSlot \in Slots /\ <<"tab", NTAB>> \in Slots /\ <<"tab", 0>> \in Slots
          /\ <<"map", 0>> \in Slots /\ "cur" \in Kinds /\ "kstack" \in Kinds
      BY <1>2, SlotFacts DEF Kinds
    <3> QED BY <1>1, <2>5, <3>2, <3>3
  <2> QED BY <2>6, <2>7, <2>8 DEF Own, Owned, S
<1> QED BY <1>8, <1>9, <1>10, <1>11 DEF MemoryInv

----------------------------------------------------------------------------
(* The results *)

LEMMA NextMemoryInv ==
  ASSUME MemoryInv, [Next]_vars
  PROVE  MemoryInv'
<1>1. ASSUME NEW p \in Procs, Step(p)
      PROVE  MemoryInv'
  BY <1>1, DeallocInv, DeallocEndInv, SetupKvmInv, KmapInv, AllocInv, MapInv, GrowEndInv,
     ForkEndInv, ExecStackInv, ExecCommitInv, FreeVmInv, FreeVmEndInv DEF Step
<1>2. ASSUME NEW p \in Procs, Call(p)
      PROVE  MemoryInv'
  BY <1>2, GrowInv, ShrinkInv, ExecInv, ForkInv, WaitInv, ExitInv DEF Call
<1>3. CASE UNCHANGED vars
  <2>1. /\ free' = free /\ state' = state /\ parent' = parent /\ kstack' = kstack
        /\ cur' = cur /\ sz' = sz /\ st' = st
    BY <1>3 DEF vars
  <2>2. TypeOK'
    BY <2>1 DEF MemoryInv, TypeOK
  <2>3. (\A p \in Procs : Sound(p))'
    BY <2>1 DEF MemoryInv, Sound
  <2>4. Family'
    BY <2>1 DEF MemoryInv, Family, WithChild
  <2>5. Owned'
    BY <2>1 DEF MemoryInv, Owned
  <2> QED BY <2>2, <2>3, <2>4, <2>5 DEF MemoryInv
<1> QED BY <1>1, <1>2, <1>3 DEF Next

\* What each system call holds at each of its steps, who is whose embryo and
\* that no page is in two places are an inductive invariant of kalloc.c, vm.c,
\* exec and the memory side of fork, wait, exit and growproc.
THEOREM MemoryInvariant == Spec => []MemoryInv
<1>1. Init => MemoryInv
  BY InitMemoryInv
<1>2. MemoryInv /\ [Next]_vars => MemoryInv'
  BY NextMemoryInv
<1> QED BY <1>1, <1>2, PTL DEF Spec

LEMMA InvSpacesSound ==
  ASSUME MemoryInv
  PROVE  SpacesSound
<1>1. TypeOK
  BY DEF MemoryInv
<1>2. ASSUME NEW p \in Procs, st[p].pc # "user" => st[p].op # "sbrk"
      PROVE  /\ Mapped(cur[p]) = {} \/ Mapped(cur[p]) = {a \in UserPages : a < PGROUNDUP(sz[p])}
             /\ cur[p].guard \subseteq Mapped(cur[p])
  <2>1. Shape(st[p]) /\ Fits(cur[p], sz[p], st[p])
    BY Unpack
  <2>2. st[p].op # "sbrk"
    BY <1>2, <2>1, IdleFacts DEF Shape
  <2>3. Settled(cur[p], sz[p], st[p]) /\ Guarded(cur[p], st[p])
    BY <2>1 DEF Fits
  <2>4. Mapped(cur[p]) = {} \/ Mapped(cur[p]) = Below(PGROUNDUP(sz[p]))
    BY <2>2, <2>3 DEF Settled
  <2> QED BY <2>3, <2>4 DEF Guarded, Below
<1> QED BY <1>1, <1>2 DEF SpacesSound, SizeCovered

LEMMA InvPagesConserved ==
  ASSUME MemoryInv
  PROVE  PagesConserved
<1> DEFINE S == Bundle(cur, st, kstack)
<1>1. NotFree(S, free) /\ Once(S) /\ Covered(S, free)
  BY DEF MemoryInv, Owned, Own
<1>2. IsBundle(S, cur, st, kstack)
  BY BundleFacts
<1> HIDE DEF S
<1>3. \A p \in Procs, k \in Kinds, x \in Slots : At(Space(p, k), x) = Cell(S, p, k, x)
  <2> SUFFICES ASSUME NEW p \in Procs, NEW k \in Kinds
               PROVE  Space(p, k) = S[<<p, k>>]
    BY DEF Cell
  <2>1. /\ S[<<p, "cur">>] = cur[p] /\ S[<<p, "new">>] = st[p].new
        /\ S[<<p, "dead">>] = st[p].dead /\ S[<<p, "kstack">>] = Only(kstack[p])
        /\ S[<<p, "mem">>] = Only(st[p].mem)
    BY <1>2 DEF IsBundle
  <2>2. /\ Space(p, "cur") = cur[p] /\ Space(p, "new") = st[p].new
        /\ Space(p, "dead") = st[p].dead /\ Space(p, "kstack") = Only(kstack[p])
        /\ Space(p, "mem") = Only(st[p].mem)
    BY DEF Space, Only
  <2>3. k = "cur" \/ k = "new" \/ k = "dead" \/ k = "kstack" \/ k = "mem"
    BY DEF Kinds
  <2> QED BY <2>1, <2>2, <2>3
<1>4. ASSUME NEW g \in Pages
      PROVE  \A c : c \in Owners(g) <=> \E p \in Procs, k \in Kinds, x \in Slots :
                                          c = <<p, k, x>> /\ Cell(S, p, k, x) = g
  <2>1. ASSUME NEW c \in Owners(g)
        PROVE  \E p \in Procs, k \in Kinds, x \in Slots : c = <<p, k, x>> /\ Cell(S, p, k, x) = g
    <3>1. c \in Places /\ At(Space(c[1], c[2]), c[3]) = g
      BY DEF Owners
    <3>2. PICK p \in Procs, k \in Kinds, x \in Slots : c = <<p, k, x>>
      BY <3>1 DEF Places
    <3>3. Cell(S, p, k, x) = g
      BY <1>3, <3>1, <3>2
    <3> QED BY <3>2, <3>3
  <2>2. ASSUME NEW p \in Procs, NEW k \in Kinds, NEW x \in Slots, Cell(S, p, k, x) = g
        PROVE  <<p, k, x>> \in Owners(g)
    <3>1. <<p, k, x>> \in Places /\ At(Space(p, k), x) = g
      BY <1>3, <2>2 DEF Places
    <3> QED BY <3>1 DEF Owners
  <2> QED BY <2>1, <2>2
<1>5. ASSUME NEW g \in Pages
      PROVE  Cardinality(Owners(g)) = IF g \in free THEN 0 ELSE 1
  <2>1. CASE g \in free
    <3>1. Owners(g) = {}
      BY <1>1, <1>4, <2>1 DEF NotFree
    <3> QED BY <2>1, <3>1, FS_EmptySet
  <2>2. CASE g \notin free
    <3>1. PICK p \in Procs, k \in Kinds, x \in Slots : Cell(S, p, k, x) = g
      BY <1>1, <2>2 DEF Covered
    <3>2. g # 0
      BY PagesPositive
    <3>3. Owners(g) = {<<p, k, x>>}
      BY <1>1, <1>4, <3>1, <3>2 DEF Once
    <3> QED BY <2>2, <3>3, FS_Singleton
  <2> QED BY <2>1, <2>2
<1> QED BY <1>5 DEF PagesConserved

\* Sizes and mappings agree in every process, whatever sbrk, exec, fork and
\* wait of any other are doing and wherever kalloc fails.
THEOREM MemorySafety == Spec => []SpacesSound
<1>1. MemoryInv => SpacesSound
  BY InvSpacesSound
<1> QED BY <1>1, MemoryInvariant, PTL

\* No page of physical memory is lost, freed twice or mapped in two places,
\* on any path of allocuvm, copyuvm, exec, fork, wait and freevm.
THEOREM PagesKept == Spec => []PagesConserved
<1>1. MemoryInv => PagesConserved
  BY InvPagesConserved
<1> QED BY <1>1, MemoryInvariant, PTL
===============================================================================
