----------------------------- MODULE FilesProof -------------------------------
(***************************************************************************)
(* Proofs about Files and FileBlocks: for any number of processes, files,  *)
(* inodes and blocks, the references to files, inodes and pipe ends are    *)
(* counted exactly, a block in use has one owner, and a file holds what    *)
(* was written to it.                                                      *)
(***************************************************************************)
EXTENDS Files, RingProof, FiniteSetTheorems, WellFoundedInduction

----------------------------------------------------------------------------
(* Counting, and the least element of a set *)

\* Sets that differ in one element.
LEMMA CountOne ==
  ASSUME NEW A, NEW B, NEW x, IsFiniteSet(A), \A y : y # x => (y \in A <=> y \in B)
  PROVE  /\ IsFiniteSet(B) /\ Cardinality(A) \in Nat /\ Cardinality(B) \in Nat
         /\ x \in A /\ x \notin B => Cardinality(B) = Cardinality(A) - 1
         /\ x \notin A /\ x \in B => Cardinality(B) = Cardinality(A) + 1
         /\ (x \in A <=> x \in B) => Cardinality(B) = Cardinality(A)
<1>1. Cardinality(A) \in Nat
  BY FS_CardinalityType
<1>2. CASE x \in A <=> x \in B
  <2>1. A = B
    BY <1>2
  <2> QED BY <1>1, <1>2, <2>1
<1>3. CASE x \in A /\ x \notin B
  <2>1. B = A \ {x}
    BY <1>3
  <2>2. IsFiniteSet(B) /\ Cardinality(B) = Cardinality(A) - 1
    BY <1>3, <2>1, FS_RemoveElement
  <2>3. Cardinality(B) \in Nat
    BY <2>2, FS_CardinalityType
  <2> QED BY <1>1, <1>3, <2>2, <2>3
<1>4. CASE x \notin A /\ x \in B
  <2>1. B = A \union {x}
    BY <1>4
  <2>2. IsFiniteSet(B) /\ Cardinality(B) = Cardinality(A) + 1
    BY <1>4, <2>1, FS_AddElement
  <2>3. Cardinality(B) \in Nat
    BY <2>2, FS_CardinalityType
  <2> QED BY <1>1, <1>4, <2>2, <2>3
<1> QED BY <1>2, <1>3, <1>4

In(x, S) == IF x \in S THEN 1 ELSE 0

LEMMA CountIn ==
  ASSUME NEW A, NEW B, NEW x, IsFiniteSet(A), \A y : y # x => (y \in A <=> y \in B)
  PROVE  /\ IsFiniteSet(B) /\ Cardinality(A) \in Nat /\ Cardinality(B) \in Nat
         /\ Cardinality(B) = Cardinality(A) + In(x, B) - In(x, A)
BY CountOne DEF In

\* Sets that differ in three.
LEMMA CountThree ==
  ASSUME NEW A, NEW B, NEW x, NEW y, NEW z, x # y, x # z, y # z, IsFiniteSet(A),
         \A c : c # x /\ c # y /\ c # z => (c \in A <=> c \in B)
  PROVE  /\ IsFiniteSet(B) /\ Cardinality(A) \in Nat /\ Cardinality(B) \in Nat
         /\ Cardinality(B) = Cardinality(A) + In(x, B) + In(y, B) + In(z, B)
                               - (In(x, A) + In(y, A) + In(z, A))
<1> DEFINE C == IF x \in B THEN A \union {x} ELSE A \ {x}
           D == IF y \in B THEN C \union {y} ELSE C \ {y}
<1>1. /\ \A c : c # x => (c \in A <=> c \in C)
      /\ x \in C <=> x \in B
      /\ y \in C <=> y \in A
      /\ z \in C <=> z \in A
      /\ \A c : c # y /\ c # z => (c \in C <=> c \in B)
  OBVIOUS
<1> HIDE DEF C
<1>2. /\ \A c : c # y => (c \in C <=> c \in D)
      /\ y \in D <=> y \in B
      /\ z \in D <=> z \in A
      /\ \A c : c # z => (c \in D <=> c \in B)
  BY <1>1
<1> HIDE DEF D
<1>3. /\ IsFiniteSet(C) /\ Cardinality(A) \in Nat /\ Cardinality(C) \in Nat
      /\ Cardinality(C) = Cardinality(A) + In(x, C) - In(x, A)
  BY <1>1, CountIn
<1>4. /\ IsFiniteSet(D) /\ Cardinality(D) \in Nat
      /\ Cardinality(D) = Cardinality(C) + In(y, D) - In(y, C)
  BY <1>2, <1>3, CountIn
<1>5. /\ IsFiniteSet(B) /\ Cardinality(B) \in Nat
      /\ Cardinality(B) = Cardinality(D) + In(z, B) - In(z, D)
  BY <1>2, <1>4, CountIn
<1>6. In(x, C) = In(x, B) /\ In(y, D) = In(y, B) /\ In(y, C) = In(y, A) /\ In(z, D) = In(z, A)
  BY <1>1, <1>2 DEF In
<1>7. \A b1, b2 : In(b1, b2) \in 0..1
  BY DEF In
<1> QED BY <1>3, <1>4, <1>5, <1>6, <1>7

\* A set with one element, or with two.
LEMMA CountMembers ==
  ASSUME NEW A, IsFiniteSet(A)
  PROVE  /\ Cardinality(A) \in Nat
         /\ \A x : x \in A => Cardinality(A) >= 1
         /\ \A x, y : x \in A /\ y \in A /\ x # y => Cardinality(A) >= 2
<1>1. Cardinality(A) \in Nat
  BY FS_CardinalityType
<1>2. ASSUME NEW x, x \in A
      PROVE  /\ IsFiniteSet(A \ {x}) /\ Cardinality(A \ {x}) \in Nat
             /\ Cardinality(A \ {x}) = Cardinality(A) - 1
  <2>1. IsFiniteSet(A \ {x}) /\ Cardinality(A \ {x}) = Cardinality(A) - 1
    BY <1>2, FS_RemoveElement
  <2> QED BY <2>1, FS_CardinalityType
<1>3. ASSUME NEW x, x \in A
      PROVE  Cardinality(A) >= 1
  <2>1. Cardinality(A \ {x}) \in Nat /\ Cardinality(A \ {x}) = Cardinality(A) - 1
    BY <1>2, <1>3
  <2> QED BY <1>1, <2>1
<1>4. ASSUME NEW x, NEW y, x \in A, y \in A, x # y
      PROVE  Cardinality(A) >= 2
  <2>1. /\ IsFiniteSet(A \ {x}) /\ Cardinality(A \ {x}) \in Nat
        /\ Cardinality(A \ {x}) = Cardinality(A) - 1
    BY <1>2, <1>4
  <2>2. y \in A \ {x}
    BY <1>4
  <2>3. Cardinality(A \ {x}) # 0
    BY <2>1, <2>2, FS_EmptySet
  <2> QED BY <1>1, <2>1, <2>3
<1> QED BY <1>1, <1>3, <1>4

LEMMA MinNat ==
  ASSUME NEW S \in SUBSET Nat, S # {}
  PROVE  Min(S) \in S /\ \A y \in S : Min(S) <= y
<1> DEFINE R == OpToRel(<, Nat)
<1>1. IsWellFoundedOn(R, Nat)
  BY NatLessThanWellFounded
<1>2. \A x, y \in Nat : x < y => <<x, y>> \in R
  BY DEF OpToRel
<1> HIDE DEF R
<1>3. PICK x \in S : \A y \in S : ~(<<y, x>> \in R)
  BY <1>1, WFMin
<1>4. ASSUME NEW y \in S PROVE x <= y
  <2>1. x \in Nat /\ y \in Nat /\ ~(y < x)
    BY <1>2, <1>3
  <2> QED BY <2>1
<1> QED BY <1>4 DEF Min

LEMMA MinTwo ==
  ASSUME NEW a \in Int, NEW b \in Int
  PROVE  /\ Min({a, b}) = IF a <= b THEN a ELSE b
         /\ Max({a, b}) = IF a <= b THEN b ELSE a
<1>1. CASE a <= b
  <2>1. \A x \in {a, b} : (\A y \in {a, b} : x <= y) => x = a
    BY <1>1
  <2>2. \A x \in {a, b} : (\A y \in {a, b} : x >= y) => x = b
    BY <1>1
  <2>3. (\A y \in {a, b} : a <= y) /\ (\A y \in {a, b} : b >= y)
    BY <1>1
  <2> QED BY <1>1, <2>1, <2>2, <2>3 DEF Min, Max
<1>2. CASE ~(a <= b)
  <2>1. \A x \in {a, b} : (\A y \in {a, b} : x <= y) => x = b
    BY <1>2
  <2>2. \A x \in {a, b} : (\A y \in {a, b} : x >= y) => x = a
    BY <1>2
  <2>3. (\A y \in {a, b} : b <= y) /\ (\A y \in {a, b} : a >= y)
    BY <1>2
  <2> QED BY <1>2, <2>1, <2>2, <2>3 DEF Min, Max
<1> QED BY <1>1, <1>2

----------------------------------------------------------------------------
(* The inductive invariant *)

Items == ({"close"} \X FIds) \union ({"put", "drop"} \X Inums) \union ({"rend", "wend"} \X Pipes)

\* A call has at most two things to give back.
Todos == {<<>>} \union {<<x>> : x \in Items} \union {<<x, y>> : x \in Items, y \in Items}

IsData(D) == D = [b \in Blocks |-> [c \in 0..(BSIZE - 1) |-> D[b][c]]]

Typed ==
  /\ TypeOK /\ todo \in [Procs -> Todos] /\ ends \in [Pipes -> SUBSET BOOLEAN] /\ IsData(data)
  /\ \A i \in Inums : addrs[i][NDIRECT] # 0 =>
       \A j \in 0..(NINDIRECT - 1) : Indirect(i)[j] \in 0..NBLOCKS

\* itrunc works on inode i.
Truncating(i) == lock[i] # NoProc /\ todo[lock[i]] # <<>>

\* The file a write goes to stays open.
Writing(p) ==
  /\ cur[p].f \in FIds /\ cur[p].n > 0 /\ file[cur[p].f].type = "inode"
  /\ \E fd \in FDs : ofile[p][fd] = cur[p].f

Piece(p) == Min({cur[p].n, MAXWRITE})

\* What a call holds at each of its steps.
Shape(p) ==
  /\ pc[p] \notin {"leaving", "exiting"} => todo[p] = <<>>
  /\ pc[p] \in {"unused", "user"} => cur[p] = Idle
  /\ pc[p] = "unused" => \A fd \in FDs : ofile[p][fd] = 0
  /\ pc[p] = "opening" => cur[p].ip \in used
  /\ pc[p] = "piping" => cur[p].f \in FIds /\ file[cur[p].f] = [NoFile EXCEPT !.ref = 1]
  /\ pc[p] \in {"write", "writei"} => Writing(p)
  /\ pc[p] = "writei" =>
       /\ cur[p].ip = file[cur[p].f].ip /\ lock[cur[p].ip] = p
       /\ cur[p].off + cur[p].left = file[cur[p].f].off + Piece(p)
       /\ cur[p].off + cur[p].left <= MAXFILE * BSIZE
  /\ pc[p] \in {"leaving", "exiting"} =>
       /\ cur[p] = [Idle EXCEPT !.left = cur[p].left]
       /\ cur[p].left = 0 \/ (todo[p] # <<>> /\ Head(todo[p])[1] = "put"
                              /\ lock[Head(todo[p])[2]] = p)
  /\ \A k \in 1..2 : Item(p, k)[1] = "put" => Item(p, k)[2] \in used

\* A lock is held by a writer, or by the iput that frees the inode.
Locked(i) ==
  lock[i] # NoProc =>
    \/ pc[lock[i]] = "writei" /\ cur[lock[i]].ip = i
    \/ todo[lock[i]] # <<>> /\ Head(todo[lock[i]]) = <<"put", i>> /\ Unused(i)

FileSound(f) ==
  /\ file[f].ref = 0 => file[f] = NoFile
  /\ file[f].type = "inode" => file[f].ip \in used
  /\ file[f].type = "pipe" => file[f].ip \in Pipes

\* Who has end wr of pipe q: a file structure, or a call about to close it.
FileHas(f, q, wr) == file[f].type = "pipe" /\ file[f].ip = q /\ file[f].writable = wr
CallHas(p, k, q, wr) == Item(p, k) = <<EndOp(wr), q>>

\* The open ends are those that somebody has, and nobody else has them.
EndsHeld ==
  \A q \in Pipes, wr \in BOOLEAN :
    /\ \A f \in FIds : FileHas(f, q, wr) => wr \in ends[q]
    /\ \A p \in Procs, k \in 1..2 : CallHas(p, k, q, wr) => wr \in ends[q]
    /\ wr \in ends[q] => \/ \E f \in FIds : FileHas(f, q, wr)
                         \/ \E p \in Procs, k \in 1..2 : CallHas(p, k, q, wr)
    /\ \A f, g \in FIds : FileHas(f, q, wr) /\ FileHas(g, q, wr) => f = g
    /\ \A p, o \in Procs, k, l \in 1..2 :
         CallHas(p, k, q, wr) /\ CallHas(o, l, q, wr) => p = o /\ k = l
    /\ \A f \in FIds, p \in Procs, k \in 1..2 : ~(FileHas(f, q, wr) /\ CallHas(p, k, q, wr))

FreeInode(i) == i \notin used => nlink[i] = 0 /\ size[i] = 0 /\ Truncated(i)

\* The block that pointer x of inode i leads to, and who owns which block.
Ptr(i, x) == PointsTo(i, x, From(i))

Owned ==
  /\ \A i \in Inums, x \in Pointers : Ptr(i, x) # 0 => Ptr(i, x) \in bitmap
  /\ \A i, j \in Inums, x, y \in Pointers :
       Ptr(i, x) = Ptr(j, y) /\ Ptr(i, x) # 0 => i = j /\ x = y
  /\ \A b \in bitmap : \E i \in Inums, x \in Pointers : Ptr(i, x) = b

Right(i, k) == Bmap(i, k \div BSIZE) # 0 /\ Byte(i, k) = <<i, k>>

Contents ==
  /\ \A i \in Inums : ~Truncating(i) =>
       size[i] = grown[i] /\ \A k \in 0..(size[i] - 1) : Right(i, k)
  /\ \A p \in Procs : pc[p] = "writei" => \A k \in 0..(cur[p].off - 1) : Right(cur[p].ip, k)

FilesInv ==
  /\ Typed /\ (\A p \in Procs : Shape(p)) /\ (\A i \in Inums : Locked(i) /\ FreeInode(i))
  /\ (\A f \in FIds : FileSound(f)) /\ EndsHeld /\ FilesCounted /\ InodesCounted
  /\ Owned /\ Contents

----------------------------------------------------------------------------
(* Lists of at most two items *)

\* The k-th item of t from its end.
ItemOf(t, k) == IF k <= Len(t) THEN t[Len(t) + 1 - k] ELSE <<"none", 0>>

LEMMA ItemIs == \A p, k : Item(p, k) = ItemOf(todo[p], k)
BY DEF Item, ItemOf

LEMMA NoItems == Len(<<>>) = 0 /\ \A k \in 1..2 : ItemOf(<<>>, k) = <<"none", 0>>
BY DEF ItemOf

LEMMA OneItem ==
  ASSUME NEW x
  PROVE  /\ <<x>> # <<>> /\ Len(<<x>>) = 1 /\ Head(<<x>>) = x /\ Tail(<<x>>) = <<>>
         /\ ItemOf(<<x>>, 1) = x /\ ItemOf(<<x>>, 2) = <<"none", 0>>
         /\ \A z : <<z>> \o Tail(<<x>>) = <<z>>
<1>1. <<x>> # <<>> /\ Len(<<x>>) = 1 /\ Head(<<x>>) = x /\ Tail(<<x>>) = <<>>
  OBVIOUS
<1>2. ItemOf(<<x>>, 1) = x /\ ItemOf(<<x>>, 2) = <<"none", 0>>
  BY <1>1 DEF ItemOf
<1>3. \A z : <<z>> \o <<>> = <<z>>
  OBVIOUS
<1> QED BY <1>1, <1>2, <1>3

LEMMA PairConcat ==
  ASSUME NEW z, NEW y
  PROVE  <<z>> \o <<y>> = <<z, y>>
<1> DEFINE s == <<z>> \o <<y>>
           t == <<z, y>>
<1>1. <<z>> \in Seq({z, y}) /\ <<y>> \in Seq({z, y})
  OBVIOUS
<1>2. s \in Seq({z, y}) /\ Len(s) = 2 /\ s[1] = z /\ s[2] = y
  BY <1>1
<1>3. t \in Seq({z, y}) /\ Len(t) = 2 /\ t[1] = z /\ t[2] = y
  OBVIOUS
<1> HIDE DEF s, t
<1>4. Len(s) = Len(t) /\ \A i \in 1..Len(s) : s[i] = t[i]
  BY <1>2, <1>3
<1> QED BY <1>2, <1>3, <1>4, SeqEqual DEF s, t

LEMMA TwoItems ==
  ASSUME NEW x, NEW y
  PROVE  /\ <<x, y>> # <<>> /\ Len(<<x, y>>) = 2 /\ Head(<<x, y>>) = x /\ Tail(<<x, y>>) = <<y>>
         /\ ItemOf(<<x, y>>, 1) = y /\ ItemOf(<<x, y>>, 2) = x
         /\ \A z : <<z>> \o Tail(<<x, y>>) = <<z, y>>
<1>1. <<x, y>> # <<>> /\ Len(<<x, y>>) = 2 /\ Head(<<x, y>>) = x /\ Tail(<<x, y>>) = <<y>>
  OBVIOUS
<1>2. ItemOf(<<x, y>>, 1) = y /\ ItemOf(<<x, y>>, 2) = x
  BY <1>1 DEF ItemOf
<1>3. \A z : <<z>> \o <<y>> = <<z, y>>
  BY PairConcat
<1> QED BY <1>1, <1>2, <1>3

LEMMA TodoFacts ==
  ASSUME NEW t \in Todos, t # <<>>
  PROVE  /\ Len(t) \in 1..2 /\ Head(t) = ItemOf(t, Len(t)) /\ Head(t) \in Items
         /\ Tail(t) \in Todos
         /\ \A k \in 1..2 : ItemOf(Tail(t), k) = IF k = Len(t) THEN <<"none", 0>> ELSE ItemOf(t, k)
         /\ \A z \in Items :
              /\ <<z>> \o Tail(t) \in Todos /\ <<z>> \o Tail(t) # <<>> /\ Head(<<z>> \o Tail(t)) = z
              /\ \A k \in 1..2 :
                   ItemOf(<<z>> \o Tail(t), k) = IF k = Len(t) THEN z ELSE ItemOf(t, k)
<1>1. CASE \E x \in Items : t = <<x>>
  <2>1. PICK x \in Items : t = <<x>>
    BY <1>1
  <2>2. <<>> \in Todos /\ \A z \in Items : <<z>> \in Todos
    BY DEF Todos
  <2> QED BY <2>1, <2>2, NoItems, OneItem
<1>2. CASE \E x, y \in Items : t = <<x, y>>
  <2>1. PICK x \in Items, y \in Items : t = <<x, y>>
    BY <1>2
  <2>2. <<y>> \in Todos /\ \A z \in Items : <<z, y>> \in Todos
    BY DEF Todos
  <2> QED BY <2>1, <2>2, OneItem, TwoItems
<1> QED BY <1>1, <1>2 DEF Todos

LEMMA ItemType ==
  ASSUME NEW t \in Todos, NEW k \in 1..2
  PROVE  ItemOf(t, k) \in Items \/ ItemOf(t, k) = <<"none", 0>>
<1>1. CASE t = <<>>
  BY <1>1, NoItems
<1>2. CASE \E x \in Items : t = <<x>>
  BY <1>2, OneItem
<1>3. CASE \E x, y \in Items : t = <<x, y>>
  <2>1. PICK x \in Items, y \in Items : t = <<x, y>>
    BY <1>3
  <2>2. ItemOf(t, 1) = y /\ ItemOf(t, 2) = x
    BY <2>1, TwoItems
  <2>3. k = 1 \/ k = 2
    OBVIOUS
  <2> QED BY <2>2, <2>3
<1> QED BY <1>1, <1>2, <1>3 DEF Todos

----------------------------------------------------------------------------
(* Who has which file structure, and who has which inode *)

Holders(f) == {c \in Procs \X FilePlaces : FileAt(c[1], c[2]) = f}
OpenOn(i) == {f \in FIds : file[f].type = "inode" /\ file[f].ip = i}
Callers(i) == {c \in Procs \X InodePlaces : InodeAt(c[1], c[2]) = i}

Closes(x) == IF x[1] = "close" THEN x[2] ELSE 0
Puts(x) == IF x[1] \in {"put", "drop"} THEN x[2] ELSE NoInode
Ends(x) == IF x[1] \in {"rend", "wend"} THEN x ELSE <<"none", 0>>

LEMMA Constants ==
  /\ FDs \subseteq Nat /\ FIds \subseteq Nat /\ 0 \notin FIds /\ IsFiniteSet(FDs) /\ IsFiniteSet(FIds)
  /\ \A f \in 0..NFILE : f # 0 => f \in FIds
  /\ IsFiniteSet(Procs) /\ NoProc \notin Procs /\ NoInode \notin Inums
<1>1. NOFILE - 1 \in Int /\ NFILE \in Int
  BY FilesAssumption
<1>2. IsFiniteSet(FDs) /\ IsFiniteSet(FIds)
  BY <1>1, FS_Interval DEF FDs, FIds
<1>3. FDs \subseteq Nat /\ FIds \subseteq Nat /\ 0 \notin FIds
  BY <1>1 DEF FDs, FIds
<1>4. \A f \in 0..NFILE : f # 0 => f \in FIds
  BY <1>1 DEF FIds
<1> QED BY <1>2, <1>3, <1>4, FilesAssumption

LEMMA PlaceFacts ==
  /\ \A d \in FDs : <<"fd", d>> \in FilePlaces
  /\ \A k \in 1..2 : <<"todo", k>> \in FilePlaces /\ <<"todo", k>> \in InodePlaces
  /\ <<"pipe", 0>> \in FilePlaces /\ <<"open", 0>> \in InodePlaces
  /\ \A x \in FilePlaces : \/ \E d \in FDs : x = <<"fd", d>>
                           \/ \E k \in 1..2 : x = <<"todo", k>>
                           \/ x = <<"pipe", 0>>
  /\ \A x \in InodePlaces : (\E k \in 1..2 : x = <<"todo", k>>) \/ x = <<"open", 0>>
BY DEF FilePlaces, InodePlaces

LEMMA PlacesFinite == IsFiniteSet(Procs \X FilePlaces) /\ IsFiniteSet(Procs \X InodePlaces)
<1>1. /\ IsFiniteSet({"fd"}) /\ IsFiniteSet({"todo"}) /\ IsFiniteSet({<<"pipe", 0>>})
      /\ IsFiniteSet({<<"open", 0>>}) /\ IsFiniteSet(1..2)
  <2>1. \A x : IsFiniteSet({x})
    BY FS_Singleton
  <2>2. 1 \in Int /\ 2 \in Int
    OBVIOUS
  <2>3. IsFiniteSet(1..2)
    BY <2>2, FS_Interval, Zenon
  <2> QED BY <2>1, <2>3
<1>2. IsFiniteSet({"fd"} \X FDs) /\ IsFiniteSet({"todo"} \X (1..2))
  BY <1>1, Constants, FS_Product
<1>3. IsFiniteSet(({"fd"} \X FDs) \union ({"todo"} \X (1..2)))
  BY <1>2, FS_Union
<1>4. IsFiniteSet(FilePlaces) /\ IsFiniteSet(InodePlaces)
  BY <1>1, <1>2, <1>3, FS_Union DEF FilePlaces, InodePlaces
<1> QED BY <1>4, Constants, FS_Product

LEMMA FileAtFacts ==
  ASSUME NEW p
  PROVE  /\ \A d : FileAt(p, <<"fd", d>>) = ofile[p][d]
         /\ \A k : FileAt(p, <<"todo", k>>) = Closes(ItemOf(todo[p], k))
         /\ FileAt(p, <<"pipe", 0>>) = IF pc[p] = "piping" THEN cur[p].f ELSE 0
         /\ \A k : InodeAt(p, <<"todo", k>>) = Puts(ItemOf(todo[p], k))
         /\ InodeAt(p, <<"open", 0>>) = IF pc[p] = "opening" THEN cur[p].ip ELSE NoInode
BY ItemIs DEF FileAt, InodeAt, Closes, Puts

\* The same in the next state.
LEMMA FileAtFacts2 ==
  ASSUME NEW p
  PROVE  /\ \A d : FileAt(p, <<"fd", d>>)' = ofile'[p][d]
         /\ \A k : FileAt(p, <<"todo", k>>)' = Closes(ItemOf(todo'[p], k))
         /\ FileAt(p, <<"pipe", 0>>)' = IF pc'[p] = "piping" THEN cur'[p].f ELSE 0
         /\ \A k : InodeAt(p, <<"todo", k>>)' = Puts(ItemOf(todo'[p], k))
         /\ InodeAt(p, <<"open", 0>>)' = IF pc'[p] = "opening" THEN cur'[p].ip ELSE NoInode
<1>1. \A k : Item(p, k)' = ItemOf(todo'[p], k)
  BY DEF Item, ItemOf
<1> QED BY <1>1 DEF FileAt, InodeAt, Closes, Puts

LEMMA HoldersFinite ==
  /\ \A f : IsFiniteSet(Holders(f))
  /\ \A i : IsFiniteSet(OpenOn(i)) /\ IsFiniteSet(Callers(i))
<1>1. \A f : Holders(f) \in SUBSET (Procs \X FilePlaces)
  BY DEF Holders
<1>2. \A i : OpenOn(i) \in SUBSET FIds /\ Callers(i) \in SUBSET (Procs \X InodePlaces)
  BY DEF OpenOn, Callers
<1>3. \A f : IsFiniteSet(Holders(f))
  BY <1>1, PlacesFinite, FS_Subset
<1>4. \A i : IsFiniteSet(OpenOn(i)) /\ IsFiniteSet(Callers(i))
  BY <1>2, PlacesFinite, Constants, FS_Subset
<1> QED BY <1>3, <1>4

LEMMA HoldersIn ==
  ASSUME NEW p \in Procs
  PROVE  /\ \A x \in FilePlaces : \A f : <<p, x>> \in Holders(f) <=> FileAt(p, x) = f
         /\ \A x \in FilePlaces : \A f : <<p, x>> \in Holders(f)' <=> FileAt(p, x)' = f
         /\ \A x \in InodePlaces : \A i : <<p, x>> \in Callers(i) <=> InodeAt(p, x) = i
         /\ \A x \in InodePlaces : \A i : <<p, x>> \in Callers(i)' <=> InodeAt(p, x)' = i
BY DEF Holders, Callers

Same(a, b) == IF a = b THEN 1 ELSE 0

\* A step changes what process p has, at most at three places.
AtMost(p, x, y, z) ==
  \A q \in Procs, w \in FilePlaces :
    q # p \/ (w # x /\ w # y /\ w # z) => FileAt(q, w)' = FileAt(q, w)

LEMMA HoldersThree ==
  ASSUME NEW p \in Procs, NEW x \in FilePlaces, NEW y \in FilePlaces, NEW z \in FilePlaces,
         x # y, x # z, y # z, AtMost(p, x, y, z), NEW f
  PROVE  /\ Cardinality(Holders(f)) \in Nat
         /\ Cardinality(Holders(f)') =
              Cardinality(Holders(f)) + Same(FileAt(p, x)', f) + Same(FileAt(p, y)', f)
                + Same(FileAt(p, z)', f)
                - (Same(FileAt(p, x), f) + Same(FileAt(p, y), f) + Same(FileAt(p, z), f))
<1> DEFINE A == Holders(f)
           B == Holders(f)'
           a == <<p, x>>
           b == <<p, y>>
           d == <<p, z>>
<1>1. A \subseteq Procs \X FilePlaces /\ B \subseteq Procs \X FilePlaces
  BY DEF Holders
<1>2. ASSUME NEW c \in Procs \X FilePlaces, c # a, c # b, c # d
      PROVE  c \in A <=> c \in B
  <2>1. PICK q \in Procs, w \in FilePlaces : c = <<q, w>>
    OBVIOUS
  <2>2. FileAt(q, w)' = FileAt(q, w)
    BY <1>2, <2>1 DEF AtMost
  <2> QED BY <2>1, <2>2, HoldersIn
<1>3. /\ a \in A <=> FileAt(p, x) = f
      /\ a \in B <=> FileAt(p, x)' = f
      /\ b \in A <=> FileAt(p, y) = f
      /\ b \in B <=> FileAt(p, y)' = f
      /\ d \in A <=> FileAt(p, z) = f
      /\ d \in B <=> FileAt(p, z)' = f
  BY HoldersIn
<1>4. IsFiniteSet(A)
  BY HoldersFinite
<1> HIDE DEF A, B
<1>5. a # b /\ a # d /\ b # d
  OBVIOUS
<1> HIDE DEF a, b, d
<1>6. \A c : c # a /\ c # b /\ c # d => (c \in A <=> c \in B)
  BY <1>1, <1>2
<1>7. /\ Cardinality(A) \in Nat
      /\ Cardinality(B) = Cardinality(A) + In(a, B) + In(b, B) + In(d, B)
                            - (In(a, A) + In(b, A) + In(d, A))
  BY <1>4, <1>5, <1>6, CountThree
<1>8. /\ In(a, A) = Same(FileAt(p, x), f) /\ In(a, B) = Same(FileAt(p, x)', f)
      /\ In(b, A) = Same(FileAt(p, y), f) /\ In(b, B) = Same(FileAt(p, y)', f)
      /\ In(d, A) = Same(FileAt(p, z), f) /\ In(d, B) = Same(FileAt(p, z)', f)
  BY <1>3 DEF In, Same
<1> QED BY <1>7, <1>8 DEF A, B

\* A step that changes what one process has of inodes.
LEMMA CallersThree ==
  ASSUME NEW p \in Procs, NEW i,
         \A q \in Procs : q # p => \A w \in InodePlaces : InodeAt(q, w)' = InodeAt(q, w)
  PROVE  /\ Cardinality(Callers(i)) \in Nat
         /\ Cardinality(Callers(i)') =
              Cardinality(Callers(i)) + Same(InodeAt(p, <<"todo", 1>>)', i)
                + Same(InodeAt(p, <<"todo", 2>>)', i) + Same(InodeAt(p, <<"open", 0>>)', i)
                - (Same(InodeAt(p, <<"todo", 1>>), i) + Same(InodeAt(p, <<"todo", 2>>), i)
                     + Same(InodeAt(p, <<"open", 0>>), i))
<1> DEFINE A == Callers(i)
           B == Callers(i)'
           x == <<"todo", 1>>
           y == <<"todo", 2>>
           z == <<"open", 0>>
           a == <<p, x>>
           b == <<p, y>>
           d == <<p, z>>
<1>1. A \subseteq Procs \X InodePlaces /\ B \subseteq Procs \X InodePlaces
  BY DEF Callers
<1>2. /\ x \in InodePlaces /\ y \in InodePlaces /\ z \in InodePlaces /\ x # y /\ x # z /\ y # z
      /\ \A w \in InodePlaces : w = x \/ w = y \/ w = z
  BY DEF InodePlaces
<1> HIDE DEF x, y, z
<1>3. ASSUME NEW c \in Procs \X InodePlaces, c # a, c # b, c # d
      PROVE  c \in A <=> c \in B
  <2>1. PICK q \in Procs, w \in InodePlaces : c = <<q, w>>
    OBVIOUS
  <2>2. q # p
    BY <1>2, <1>3, <2>1
  <2>3. InodeAt(q, w)' = InodeAt(q, w)
    BY <2>2
  <2> QED BY <2>1, <2>3, HoldersIn
<1>4. /\ a \in A <=> InodeAt(p, x) = i
      /\ a \in B <=> InodeAt(p, x)' = i
      /\ b \in A <=> InodeAt(p, y) = i
      /\ b \in B <=> InodeAt(p, y)' = i
      /\ d \in A <=> InodeAt(p, z) = i
      /\ d \in B <=> InodeAt(p, z)' = i
  BY <1>2, HoldersIn
<1>5. IsFiniteSet(A)
  BY HoldersFinite
<1> HIDE DEF A, B
<1>6. a # b /\ a # d /\ b # d
  BY <1>2
<1> HIDE DEF a, b, d
<1>7. \A c : c # a /\ c # b /\ c # d => (c \in A <=> c \in B)
  BY <1>1, <1>3
<1>8. /\ Cardinality(A) \in Nat
      /\ Cardinality(B) = Cardinality(A) + In(a, B) + In(b, B) + In(d, B)
                            - (In(a, A) + In(b, A) + In(d, A))
  BY <1>5, <1>6, <1>7, CountThree
<1>9. /\ In(a, A) = Same(InodeAt(p, x), i) /\ In(a, B) = Same(InodeAt(p, x)', i)
      /\ In(b, A) = Same(InodeAt(p, y), i) /\ In(b, B) = Same(InodeAt(p, y)', i)
      /\ In(d, A) = Same(InodeAt(p, z), i) /\ In(d, B) = Same(InodeAt(p, z)', i)
  BY <1>4 DEF In, Same
<1> QED BY <1>8, <1>9 DEF A, B, x, y, z

\* A step that changes one file structure.
LEMMA OpenOnOne ==
  ASSUME NEW f \in FIds, NEW i, \A g \in FIds : g # f => file'[g] = file[g]
  PROVE  /\ Cardinality(OpenOn(i)) \in Nat
         /\ Cardinality(OpenOn(i)') = Cardinality(OpenOn(i)) + In(f, OpenOn(i)') - In(f, OpenOn(i))
<1> DEFINE A == OpenOn(i)
           B == OpenOn(i)'
<1>1. \A g : g # f => (g \in A <=> g \in B)
  BY DEF OpenOn
<1>2. IsFiniteSet(A)
  BY HoldersFinite
<1> HIDE DEF A, B
<1>3. Cardinality(A) \in Nat /\ Cardinality(B) = Cardinality(A) + In(f, B) - In(f, A)
  BY <1>1, <1>2, CountIn
<1> QED BY <1>3 DEF A, B

\* What is held is counted; what is held twice is counted twice.
LEMMA Held ==
  ASSUME FilesCounted,
         NEW p \in Procs, NEW x \in FilePlaces, NEW f \in FIds, FileAt(p, x) = f
  PROVE  /\ file[f].ref >= 1
         /\ \A q \in Procs, y \in FilePlaces :
              (q # p \/ y # x) /\ FileAt(q, y) = f => file[f].ref >= 2
<1>1. file[f].ref = Cardinality(Holders(f)) /\ IsFiniteSet(Holders(f))
  BY HoldersFinite DEF FilesCounted, Holders
<1>2. <<p, x>> \in Holders(f)
  BY HoldersIn
<1>3. ASSUME NEW q \in Procs, NEW y \in FilePlaces, q # p \/ y # x, FileAt(q, y) = f
      PROVE  file[f].ref >= 2
  <2>1. <<q, y>> \in Holders(f) /\ <<q, y>> # <<p, x>>
    BY <1>3, HoldersIn
  <2> QED BY <1>1, <1>2, <2>1, CountMembers
<1> QED BY <1>1, <1>2, <1>3, CountMembers

LEMMA NotHeld ==
  ASSUME FilesCounted, NEW f \in FIds, file[f].ref = 0
  PROVE  \A q \in Procs, y \in FilePlaces : FileAt(q, y) # f
BY Held

LEMMA Referred ==
  ASSUME InodesCounted, NEW i \in Inums
  PROVE  /\ \A p \in Procs, x \in InodePlaces : InodeAt(p, x) = i => iref[i] >= 1
         /\ \A p, q \in Procs, x, y \in InodePlaces :
              (q # p \/ y # x) /\ InodeAt(p, x) = i /\ InodeAt(q, y) = i => iref[i] >= 2
         /\ \A p \in Procs, x \in InodePlaces, f \in FIds :
              InodeAt(p, x) = i /\ file[f].type = "inode" /\ file[f].ip = i => iref[i] >= 2
<1>1. iref[i] = Cardinality(OpenOn(i)) + Cardinality(Callers(i))
  BY DEF InodesCounted, OpenOn, Callers
<1>2. IsFiniteSet(OpenOn(i)) /\ IsFiniteSet(Callers(i))
  BY HoldersFinite
<1>3. Cardinality(OpenOn(i)) \in Nat /\ Cardinality(Callers(i)) \in Nat
  BY <1>2, CountMembers
<1>4. ASSUME NEW p \in Procs, NEW x \in InodePlaces, InodeAt(p, x) = i
      PROVE  Cardinality(Callers(i)) >= 1
  <2>1. <<p, x>> \in Callers(i)
    BY <1>4, HoldersIn
  <2> QED BY <1>2, <2>1, CountMembers
<1>5. ASSUME NEW p \in Procs, NEW q \in Procs, NEW x \in InodePlaces, NEW y \in InodePlaces,
             q # p \/ y # x, InodeAt(p, x) = i, InodeAt(q, y) = i
      PROVE  Cardinality(Callers(i)) >= 2
  <2>1. <<p, x>> \in Callers(i) /\ <<q, y>> \in Callers(i) /\ <<p, x>> # <<q, y>>
    BY <1>5, HoldersIn
  <2> QED BY <1>2, <2>1, CountMembers
<1>6. ASSUME NEW f \in FIds, file[f].type = "inode" /\ file[f].ip = i
      PROVE  Cardinality(OpenOn(i)) >= 1
  <2>1. f \in OpenOn(i)
    BY <1>6 DEF OpenOn
  <2> QED BY <1>2, <2>1, CountMembers
<1> QED BY <1>1, <1>3, <1>4, <1>5, <1>6

LEMMA Uncounted ==
  ASSUME FilesCounted, InodesCounted, file' = file, iref' = iref,
         \A p \in Procs : /\ \A x \in FilePlaces : FileAt(p, x)' = FileAt(p, x)
                          /\ \A x \in InodePlaces : InodeAt(p, x)' = InodeAt(p, x)
  PROVE  FilesCounted' /\ InodesCounted'
<1>1. \A f : Holders(f)' = Holders(f)
  BY DEF Holders
<1>2. \A i : Callers(i)' = Callers(i)
  BY DEF Callers
<1>3. FilesCounted'
  BY <1>1 DEF FilesCounted, Holders
<1>4. InodesCounted'
  BY <1>2 DEF InodesCounted, Callers
<1> QED BY <1>3, <1>4

LEMMA NoEnds ==
  /\ Ends(<<"none", 0>>) = <<"none", 0>>
  /\ \A x : /\ Ends(<<"close", x>>) = <<"none", 0>> /\ Ends(<<"put", x>>) = <<"none", 0>>
           /\ Ends(<<"drop", x>>) = <<"none", 0>>
BY DEF Ends

\* Lists of items that are no ends.
LEMMA NewItems ==
  ASSUME NEW x, NEW y, Ends(x) = <<"none", 0>>, Ends(y) = <<"none", 0>>, NEW k \in 1..2
  PROVE  /\ Ends(ItemOf(<<>>, k)) = <<"none", 0>> /\ Ends(ItemOf(<<x>>, k)) = <<"none", 0>>
         /\ Ends(ItemOf(<<x, y>>, k)) = <<"none", 0>>
<1>1. CASE k = 1
  BY <1>1, NoItems, OneItem, TwoItems, NoEnds
<1>2. CASE k = 2
  BY <1>2, NoItems, OneItem, TwoItems, NoEnds
<1> QED BY <1>1, <1>2

\* A step that gives and takes no pipe end.
LEMMA EndsKeep ==
  ASSUME EndsHeld, ends' = ends,
         \A f \in FIds : file[f].type = "pipe" \/ file'[f].type = "pipe" =>
           /\ file'[f].type = file[f].type /\ file'[f].ip = file[f].ip
           /\ file'[f].writable = file[f].writable,
         \A p \in Procs, k \in 1..2 : Ends(ItemOf(todo'[p], k)) = Ends(ItemOf(todo[p], k))
  PROVE  EndsHeld'
<1>1. ASSUME NEW f \in FIds, NEW q, NEW wr PROVE FileHas(f, q, wr)' <=> FileHas(f, q, wr)
  BY DEF FileHas
<1>2. ASSUME NEW p \in Procs, NEW k \in 1..2, NEW q, NEW wr
      PROVE  CallHas(p, k, q, wr)' <=> CallHas(p, k, q, wr)
  <2>1. Item(p, k) = ItemOf(todo[p], k) /\ Item(p, k)' = ItemOf(todo'[p], k)
    BY DEF Item, ItemOf
  <2>2. EndOp(wr) \in {"rend", "wend"}
    BY DEF EndOp
  <2>3. \A x : Ends(x) = <<EndOp(wr), q>> <=> x = <<EndOp(wr), q>>
    BY <2>2 DEF Ends
  <2> QED BY <2>1, <2>3 DEF CallHas
<1> HIDE DEF FileHas, CallHas
<1> QED BY <1>1, <1>2 DEF EndsHeld

----------------------------------------------------------------------------
(* What a step of one process leaves to the others *)

LEMMA Types ==
  ASSUME Typed, NEW p \in Procs
  PROVE  /\ todo[p] \in Todos
         /\ cur[p] \in Locals /\ cur[p].f \in 0..NFILE /\ cur[p].ip \in Inums \union {NoInode}
         /\ cur[p].n \in Nat /\ cur[p].off \in Nat /\ cur[p].left \in Nat
         /\ \A d \in FDs : ofile[p][d] \in 0..NFILE
<1>1. todo[p] \in Todos /\ \A d \in FDs : ofile[p][d] \in 0..NFILE
  <2>1. todo \in [Procs -> Todos] /\ ofile \in [Procs -> [FDs -> 0..NFILE]]
    BY DEF Typed, TypeOK
  <2> QED BY <2>1
<1>2. cur[p] \in Locals
  BY DEF Typed, TypeOK
<1> QED BY <1>1, <1>2 DEF Locals

LEMMA ShapeFacts ==
  ASSUME FilesInv, NEW p \in Procs
  PROVE  /\ todo[p] # <<>> => pc[p] \in {"leaving", "exiting"}
         /\ pc[p] = "piping" => cur[p].f \in FIds
         /\ pc[p] = "opening" => cur[p].ip \in used /\ cur[p].ip \in Inums
         /\ pc[p] \in {"write", "writei"} =>
              /\ cur[p].f \in FIds /\ file[cur[p].f].type = "inode"
              /\ file[cur[p].f].ip \in Inums /\ file[cur[p].f].ip \in used
         /\ pc[p] = "writei" => cur[p].ip \in Inums /\ lock[cur[p].ip] = p
<1>1. Shape(p) /\ Typed /\ \A f \in FIds : FileSound(f)
  BY DEF FilesInv
<1>2. used \subseteq Inums
  BY <1>1 DEF Typed, TypeOK
<1>3. pc[p] \in {"write", "writei"} => Writing(p)
  BY <1>1 DEF Shape
<1>4. pc[p] \in {"write", "writei"} =>
              /\ cur[p].f \in FIds /\ file[cur[p].f].type = "inode"
              /\ file[cur[p].f].ip \in Inums /\ file[cur[p].f].ip \in used
  BY <1>1, <1>2, <1>3 DEF Writing, FileSound
<1>5. pc[p] = "writei" => cur[p].ip \in Inums /\ lock[cur[p].ip] = p
  BY <1>1, <1>4 DEF Shape
<1>6. /\ todo[p] # <<>> => pc[p] \in {"leaving", "exiting"}
      /\ pc[p] = "piping" => cur[p].f \in FIds
      /\ pc[p] = "opening" => cur[p].ip \in used
  BY <1>1 DEF Shape
<1> QED BY <1>2, <1>4, <1>5, <1>6

\* Only the writer and the iput that frees hold a lock.
NoLock(p) == \A i \in Inums : lock[i] # p

LEMMA NoLockAt ==
  ASSUME FilesInv, NEW p \in Procs, NEW l, At(p, l), l # "writei"
  PROVE  NoLock(p)
BY Constants DEF FilesInv, Locked, At, NoLock

LEMMA NoLockDoing ==
  ASSUME FilesInv, NEW p \in Procs, NEW op, Doing(p, op),
         op = "put" => lock[Head(todo[p])[2]] = NoProc
  PROVE  NoLock(p)
<1>1. pc[p] # "writei"
  BY ShapeFacts DEF Doing
<1>2. ASSUME NEW i \in Inums, lock[i] = p PROVE FALSE
  <2>1. Locked(i) /\ p # NoProc
    BY Constants DEF FilesInv
  <2>2. Head(todo[p]) = <<"put", i>>
    BY <1>1, <1>2, <2>1 DEF Locked
  <2>3. op = "put" /\ Head(todo[p])[2] = i
    BY <2>2 DEF Doing
  <2> QED BY <1>2, <2>1, <2>3
<1> QED BY <1>2 DEF NoLock

Only(p) ==
  \A q \in Procs : q # p =>
    pc'[q] = pc[q] /\ cur'[q] = cur[q] /\ todo'[q] = todo[q] /\ ofile'[q] = ofile[q]

\* A step that leaves the blocks and whoever holds a lock alone.
Calm ==
  /\ bitmap' = bitmap /\ data' = data /\ addrs' = addrs /\ size' = size /\ grown' = grown
  /\ lock' = lock
  /\ \A i \in Inums : lock[i] # NoProc =>
       /\ pc'[lock[i]] = pc[lock[i]] /\ cur'[lock[i]] = cur[lock[i]]
       /\ todo'[lock[i]] = todo[lock[i]]
  /\ \A i \in Inums : Truncating(i) => iref'[i] = iref[i] /\ nlink'[i] = nlink[i]
  /\ \A q \in Procs : pc'[q] = "writei" => pc[q] = "writei"
  /\ used \subseteq used' /\ \A i \in Inums : i \notin used' => nlink'[i] = nlink[i]

LEMMA CalmKeeps ==
  ASSUME FilesInv, Calm
  PROVE  Owned' /\ Contents' /\ \A i \in Inums : Locked(i)' /\ FreeInode(i)'
<1>1. lock \in [Inums -> Procs \union {NoProc}]
  BY DEF FilesInv, Typed, TypeOK
<1>2. ASSUME NEW i \in Inums PROVE (Truncating(i)' <=> Truncating(i)) /\ From(i)' = From(i)
  BY DEF Calm, Truncating, From
<1>3. ASSUME NEW i \in Inums, NEW x PROVE Ptr(i, x)' = Ptr(i, x)
  BY <1>2 DEF Calm, Ptr, PointsTo, Entries, Indirect
<1>4. Owned'
  <2>1. \A i \in Inums, x \in Pointers : Ptr(i, x)' = Ptr(i, x)
    BY <1>3
  <2>2. bitmap' = bitmap /\ Owned
    BY DEF Calm, FilesInv
  <2> QED BY <2>1, <2>2 DEF Owned
<1>5. ASSUME NEW i, NEW k PROVE Right(i, k)' <=> Right(i, k)
  BY DEF Calm, Right, Bmap, Byte, Indirect
<1>6. ASSUME NEW q \in Procs, pc'[q] = "writei"
      PROVE  pc[q] = "writei" /\ cur'[q] = cur[q]
  <2>1. pc[q] = "writei"
    BY <1>6 DEF Calm
  <2>2. cur[q].ip \in Inums /\ lock[cur[q].ip] = q
    BY <2>1, ShapeFacts
  <2>3. q # NoProc
    BY Constants
  <2> QED BY <2>1, <2>2, <2>3 DEF Calm
<1>7. Contents'
  <2>1. Contents /\ size' = size /\ grown' = grown
    BY DEF FilesInv, Calm
  <2>2. \A i \in Inums : ~Truncating(i)' =>
          size'[i] = grown'[i] /\ \A k \in 0..(size'[i] - 1) : Right(i, k)'
    BY <1>2, <1>5, <2>1 DEF Contents
  <2>3. ASSUME NEW q \in Procs, pc'[q] = "writei", NEW k \in 0..(cur'[q].off - 1)
        PROVE  Right(cur[q].ip, k)'
    <3>1. pc[q] = "writei" /\ cur'[q] = cur[q] /\ k \in 0..(cur[q].off - 1)
      BY <1>6, <2>3
    <3>2. Right(cur[q].ip, k)
      BY <2>1, <3>1 DEF Contents
    <3> QED BY <3>1, <3>2 DEF Calm, Right, Bmap, Byte, Indirect
  <2> QED BY <2>2, <2>3 DEF Contents
<1>8. ASSUME NEW i \in Inums PROVE Locked(i)'
  <2>1. Locked(i)
    BY DEF FilesInv
  <2>2. CASE lock[i] = NoProc
    BY <2>2 DEF Locked, Calm
  <2>3. CASE lock[i] # NoProc
    <3>1. /\ lock'[i] = lock[i] /\ pc'[lock[i]] = pc[lock[i]] /\ cur'[lock[i]] = cur[lock[i]]
          /\ todo'[lock[i]] = todo[lock[i]]
          /\ Truncating(i) => iref'[i] = iref[i] /\ nlink'[i] = nlink[i]
      BY <2>3 DEF Calm
    <3> QED BY <2>1, <2>3, <3>1 DEF Locked, Unused, Truncating
  <2> QED BY <2>2, <2>3
<1>9. ASSUME NEW i \in Inums PROVE FreeInode(i)'
  BY DEF FilesInv, FreeInode, Calm, Truncated
<1> QED BY <1>4, <1>7, <1>8, <1>9

\* A step of p that leaves the calls of the others what they have.
Apart(p) ==
  /\ Only(p)
  /\ \A q \in Procs : q # p =>
       /\ pc[q] = "piping" => file'[cur[q].f] = file[cur[q].f]
       /\ pc[q] \in {"write", "writei"} =>
            file'[cur[q].f].type = file[cur[q].f].type /\ file'[cur[q].f].ip = file[cur[q].f].ip
       /\ pc[q] = "writei" => file'[cur[q].f].off = file[cur[q].f].off
       /\ pc[q] = "opening" => cur[q].ip \in used'
       /\ \A k \in 1..2 : ItemOf(todo[q], k)[1] = "put" => ItemOf(todo[q], k)[2] \in used'
       /\ \A i \in Inums : lock[i] = q => lock'[i] = q

LEMMA OthersKeep ==
  ASSUME FilesInv, NEW p \in Procs, Apart(p), NEW q \in Procs, q # p
  PROVE  Shape(q)'
<1>1. Shape(q) /\ todo[q] \in Todos
  BY Types DEF FilesInv
<1>2. pc'[q] = pc[q] /\ cur'[q] = cur[q] /\ todo'[q] = todo[q] /\ ofile'[q] = ofile[q]
  BY DEF Apart, Only
<1>3. \A k \in 1..2 : Item(q, k)' = ItemOf(todo[q], k)
  BY <1>2 DEF Item, ItemOf
<1>4. /\ pc'[q] \notin {"leaving", "exiting"} => todo'[q] = <<>>
      /\ pc'[q] \in {"unused", "user"} => cur'[q] = Idle
      /\ pc'[q] = "unused" => \A fd \in FDs : ofile'[q][fd] = 0
  BY <1>1, <1>2 DEF Shape
<1>5. pc'[q] = "opening" => cur'[q].ip \in used'
  BY <1>1, <1>2 DEF Apart
<1>6. pc'[q] = "piping" => cur'[q].f \in FIds /\ file'[cur'[q].f] = [NoFile EXCEPT !.ref = 1]
  BY <1>1, <1>2 DEF Apart, Shape
<1>7. pc'[q] \in {"write", "writei"} => Writing(q)'
  <2>1. pc[q] \in {"write", "writei"} =>
          file'[cur[q].f].type = file[cur[q].f].type /\ Writing(q)
    BY <1>1 DEF Apart, Shape
  <2> QED BY <1>2, <2>1 DEF Writing
<1>8. pc'[q] = "writei" =>
        /\ cur'[q].ip = file'[cur'[q].f].ip /\ lock'[cur'[q].ip] = q
        /\ cur'[q].off + cur'[q].left = file'[cur'[q].f].off + Piece(q)'
        /\ cur'[q].off + cur'[q].left <= MAXFILE * BSIZE
  <2>1. Piece(q)' = Piece(q)
    BY <1>2 DEF Piece
  <2>2. pc[q] = "writei" => /\ file'[cur[q].f].ip = file[cur[q].f].ip
                            /\ file'[cur[q].f].off = file[cur[q].f].off
                            /\ cur[q].ip \in Inums /\ lock[cur[q].ip] = q
    BY ShapeFacts DEF Apart
  <2>3. pc[q] = "writei" => lock'[cur[q].ip] = q
    BY <2>2 DEF Apart
  <2> HIDE DEF Piece
  <2> QED BY <1>1, <1>2, <2>1, <2>2, <2>3 DEF Shape
<1>9. pc'[q] \in {"leaving", "exiting"} =>
        /\ cur'[q] = [Idle EXCEPT !.left = cur'[q].left]
        /\ cur'[q].left = 0 \/ (todo'[q] # <<>> /\ Head(todo'[q])[1] = "put"
                              /\ lock'[Head(todo'[q])[2]] = q)
  <2>1. todo[q] # <<>> /\ Head(todo[q])[1] = "put" => Head(todo[q])[2] \in Inums
    <3>1. todo[q] # <<>> => Head(todo[q]) \in Items
      BY <1>1, TodoFacts
    <3> QED BY <3>1 DEF Items
  <2>2. Head(todo[q])[2] \in Inums => (lock[Head(todo[q])[2]] = q => lock'[Head(todo[q])[2]] = q)
    BY DEF Apart
  <2> QED BY <1>1, <1>2, <2>1, <2>2 DEF Shape
<1>10. \A k \in 1..2 : Item(q, k)'[1] = "put" => Item(q, k)'[2] \in used'
  BY <1>3 DEF Apart
<1> QED BY <1>4, <1>5, <1>6, <1>7, <1>8, <1>9, <1>10 DEF Shape

\* The file structures of the others' calls: nobody else has the one of a
\* pipe call, and the one that is written is open in the writer.
LEMMA OthersFiles ==
  ASSUME FilesInv, NEW p \in Procs, NEW x \in FilePlaces, NEW q \in Procs, q # p
  PROVE  /\ pc[q] = "piping" => /\ cur[q].f \in FIds /\ file[cur[q].f].ref = 1
                                /\ FileAt(p, x) # cur[q].f
         /\ pc[q] \in {"write", "writei"} =>
              /\ cur[q].f \in FIds /\ file[cur[q].f].ref >= 1
              /\ FileAt(p, x) = cur[q].f => file[cur[q].f].ref >= 2
<1>1. Shape(q) /\ FilesCounted
  BY DEF FilesInv
<1>2. ASSUME pc[q] = "piping"
      PROVE  /\ cur[q].f \in FIds /\ file[cur[q].f].ref = 1
             /\ FileAt(p, x) # cur[q].f
  <2>1. cur[q].f \in FIds /\ file[cur[q].f].ref = 1
    BY <1>1, <1>2 DEF Shape, NoFile
  <2>2. FileAt(q, <<"pipe", 0>>) = cur[q].f /\ <<"pipe", 0>> \in FilePlaces
    BY <1>2, FileAtFacts, PlaceFacts
  <2>3. FileAt(p, x) = cur[q].f => file[cur[q].f].ref >= 2
    BY <1>1, <2>1, <2>2, Held
  <2> QED BY <2>1, <2>3
<1>3. ASSUME pc[q] \in {"write", "writei"}
      PROVE  /\ cur[q].f \in FIds /\ file[cur[q].f].ref >= 1
             /\ FileAt(p, x) = cur[q].f => file[cur[q].f].ref >= 2
  <2>1. PICK d \in FDs : ofile[q][d] = cur[q].f
    BY <1>1, <1>3 DEF Shape, Writing
  <2>2. FileAt(q, <<"fd", d>>) = cur[q].f /\ <<"fd", d>> \in FilePlaces /\ cur[q].f \in FIds
    BY <1>3, <2>1, FileAtFacts, PlaceFacts, ShapeFacts
  <2> QED BY <1>1, <2>2, Held
<1> QED BY <1>2, <1>3

----------------------------------------------------------------------------
(* Steps that only change where a call is *)

Labels == {"unused", "user", "opening", "piping", "write", "writei", "leaving", "exiting"}

LEMMA LabelsType == Typed => pc \in [Procs -> Labels]
BY DEF Typed, TypeOK, Labels

\* p has no lock, and leaves inodes and blocks alone.
LEMMA NoLockCalm ==
  ASSUME Typed, NEW p \in Procs, Only(p), NoLock(p), pc'[p] # "writei",
         bitmap' = bitmap, data' = data, addrs' = addrs, size' = size, grown' = grown,
         used' = used, iref' = iref, nlink' = nlink, lock' = lock
  PROVE  Calm
<1>1. ASSUME NEW i \in Inums, lock[i] # NoProc
      PROVE  /\ pc'[lock[i]] = pc[lock[i]] /\ cur'[lock[i]] = cur[lock[i]]
             /\ todo'[lock[i]] = todo[lock[i]]
  <2>1. lock[i] \in Procs /\ lock[i] # p
    BY <1>1 DEF Typed, TypeOK, NoLock
  <2> QED BY <2>1 DEF Only
<1>2. \A q \in Procs : pc'[q] = "writei" => pc[q] = "writei"
  BY DEF Only
<1> QED BY <1>1, <1>2 DEF Calm

\* p moves on, with what it had.
Moves(p) ==
  /\ UNCHANGED <<blockvars, filevars, inodevars, panic, grown>> /\ Only(p) /\ NoLock(p)
  /\ pc' \in [Procs -> Labels] /\ cur' \in [Procs -> Locals] /\ todo' \in [Procs -> Todos]
  /\ pc'[p] # "writei"
  /\ \A k \in 1..2 : /\ Closes(ItemOf(todo'[p], k)) = Closes(ItemOf(todo[p], k))
                     /\ Puts(ItemOf(todo'[p], k)) = Puts(ItemOf(todo[p], k))
                     /\ Ends(ItemOf(todo'[p], k)) = Ends(ItemOf(todo[p], k))
  /\ pc[p] \notin {"piping", "opening"} /\ pc'[p] \notin {"piping", "opening"}

LEMMA MovesKeeps ==
  ASSUME FilesInv, NEW p \in Procs, Moves(p), Shape(p)'
  PROVE  FilesInv'
<1>1. /\ bitmap' = bitmap /\ data' = data /\ addrs' = addrs /\ size' = size /\ grown' = grown
      /\ ofile' = ofile /\ file' = file /\ ends' = ends /\ panic' = panic
      /\ used' = used /\ iref' = iref /\ nlink' = nlink /\ lock' = lock
  BY DEF Moves, blockvars, filevars, inodevars
<1>2. Typed'
  BY <1>1, LabelsType DEF FilesInv, Typed, TypeOK, Moves, Labels, Indirect, IsData
<1>3. Apart(p)
  <2>1. ASSUME NEW q \in Procs, NEW k \in 1..2
        PROVE  ItemOf(todo[q], k)[1] = "put" => ItemOf(todo[q], k)[2] \in used
    BY ItemIs DEF FilesInv, Shape
  <2>2. ASSUME NEW q \in Procs PROVE pc[q] = "opening" => cur[q].ip \in used
    BY ShapeFacts
  <2> QED BY <1>1, <2>1, <2>2 DEF Apart, Moves
<1>4. \A q \in Procs : Shape(q)'
  BY <1>3, OthersKeep
<1>5. Calm
  <2>1. Typed /\ Only(p) /\ NoLock(p) /\ pc'[p] # "writei"
    BY DEF FilesInv, Moves
  <2> QED BY <1>1, <2>1, NoLockCalm
<1>6. Owned' /\ Contents' /\ \A i \in Inums : Locked(i)' /\ FreeInode(i)'
  BY <1>5, CalmKeeps
<1>7. (\A f \in FIds : FileSound(f)') /\ EndsHeld'
  <2>1. \A q \in Procs, k \in 1..2 : Ends(ItemOf(todo'[q], k)) = Ends(ItemOf(todo[q], k))
    BY DEF Moves, Only
  <2>2. EndsHeld'
    BY <1>1, <2>1, EndsKeep DEF FilesInv
  <2> QED BY <1>1, <2>2 DEF FilesInv, FileSound
<1>8. ASSUME NEW q \in Procs, NEW x \in FilePlaces PROVE FileAt(q, x)' = FileAt(q, x)
  <2>1. \A k \in 1..2 : Closes(ItemOf(todo'[q], k)) = Closes(ItemOf(todo[q], k))
    BY DEF Moves, Only
  <2>2. (pc[q] = "piping" <=> pc'[q] = "piping") /\ (pc[q] = "piping" => cur'[q] = cur[q])
    BY DEF Moves, Only
  <2>3. CASE \E d \in FDs : x = <<"fd", d>>
    BY <1>1, <2>3, FileAtFacts, FileAtFacts2
  <2>4. CASE \E k \in 1..2 : x = <<"todo", k>>
    BY <2>1, <2>4, FileAtFacts, FileAtFacts2
  <2>5. CASE x = <<"pipe", 0>>
    BY <2>2, <2>5, FileAtFacts, FileAtFacts2
  <2> QED BY <2>3, <2>4, <2>5, PlaceFacts
<1>9. ASSUME NEW q \in Procs, NEW x \in InodePlaces PROVE InodeAt(q, x)' = InodeAt(q, x)
  <2>1. \A k \in 1..2 : Puts(ItemOf(todo'[q], k)) = Puts(ItemOf(todo[q], k))
    BY DEF Moves, Only
  <2>2. (pc[q] = "opening" <=> pc'[q] = "opening") /\ (pc[q] = "opening" => cur'[q] = cur[q])
    BY DEF Moves, Only
  <2>4. CASE \E k \in 1..2 : x = <<"todo", k>>
    BY <2>1, <2>4, FileAtFacts, FileAtFacts2
  <2>5. CASE x = <<"open", 0>>
    BY <2>2, <2>5, FileAtFacts, FileAtFacts2
  <2> QED BY <2>4, <2>5, PlaceFacts
<1>10. FilesCounted' /\ InodesCounted'
  BY <1>1, <1>8, <1>9, Uncounted DEF FilesInv
<1> QED BY <1>2, <1>4, <1>6, <1>7, <1>10 DEF FilesInv

\* The shapes of a process outside a call, and of a call about to return.
LEMMA ShapeUser ==
  ASSUME NEW p \in Procs, pc'[p] \in {"user", "unused"}, todo'[p] = <<>>, cur'[p] = Idle,
         pc'[p] = "unused" => \A fd \in FDs : ofile'[p][fd] = 0
  PROVE  Shape(p)'
<1>1. \A k \in 1..2 : Item(p, k)' = <<"none", 0>>
  BY NoItems DEF Item, ItemOf
<1> QED BY <1>1 DEF Shape

LEMMA ShapeLeaving ==
  ASSUME NEW p \in Procs, pc'[p] \in {"leaving", "exiting"}, cur'[p] = Idle,
         \A k \in 1..2 : ItemOf(todo'[p], k)[1] = "put" => ItemOf(todo'[p], k)[2] \in used'
  PROVE  Shape(p)'
<1>1. \A k \in 1..2 : Item(p, k)' = ItemOf(todo'[p], k)
  BY DEF Item, ItemOf
<1>2. Idle = [Idle EXCEPT !.left = Idle.left] /\ Idle.left = 0
  BY DEF Idle
<1> QED BY <1>1, <1>2 DEF Shape

LEMMA CurIdle ==
  ASSUME FilesInv, NEW p \in Procs, todo[p] = <<>>, pc[p] \in {"user", "unused", "leaving", "exiting"}
  PROVE  cur[p] = Idle
<1>1. Shape(p)
  BY DEF FilesInv
<1>2. [Idle EXCEPT !.left = 0] = Idle
  BY DEF Idle
<1> QED BY <1>1, <1>2 DEF Shape

LEMMA IdleType == Idle \in Locals
BY FilesAssumption DEF Idle, Locals

LEMMA ItemsDistinct ==
  /\ <<>> \in Todos
  /\ \A t \in Todos, k \in 1..2 : t = <<>> => ItemOf(t, k) = <<"none", 0>>
  /\ Closes(<<"none", 0>>) = 0 /\ Puts(<<"none", 0>>) = NoInode
BY NoItems DEF Todos, Closes, Puts

LEMMA FinishKeeps ==
  ASSUME FilesInv, NEW p \in Procs, Finish(p)
  PROVE  FilesInv'
<1>1. pc[p] \in {"leaving", "exiting"} /\ todo[p] = <<>> /\ NoLock(p) /\ todo' = todo /\ cur' = cur
  BY NoLockAt DEF Finish, At
<1>2. pc' \in [Procs -> Labels] /\ pc'[p] \in {"user", "unused"} /\ \A q \in Procs : q # p => pc'[q] = pc[q]
  <2>1. pc \in [Procs -> Labels]
    BY LabelsType DEF FilesInv
  <2> QED BY <2>1 DEF Finish, Goto, Labels
<1>3. cur[p] = Idle
  BY <1>1, CurIdle
<1>4. pc'[p] = "unused" => \A fd \in FDs : ofile'[p][fd] = 0
  <2>1. pc \in [Procs -> Labels]
    BY LabelsType DEF FilesInv
  <2> QED BY <2>1 DEF Finish, Goto, FreeFds, filevars
<1>5. Shape(p)'
  BY <1>1, <1>2, <1>3, <1>4, ShapeUser
<1>6. Moves(p)
  BY <1>1, <1>2 DEF Moves, Finish, Only, filevars, FilesInv, Typed, TypeOK
<1> QED BY <1>5, <1>6, MovesKeeps

LEMMA ExitKeeps ==
  ASSUME FilesInv, NEW p \in Procs, Exit(p)
  PROVE  FilesInv'
<1>1. pc[p] = "user" /\ todo[p] = <<>> /\ NoLock(p) /\ todo' = todo /\ cur' = cur
  BY NoLockAt DEF Exit, Call, At
<1>2. pc' \in [Procs -> Labels] /\ pc'[p] = "exiting" /\ \A q \in Procs : q # p => pc'[q] = pc[q]
  <2>1. pc \in [Procs -> Labels]
    BY LabelsType DEF FilesInv
  <2> QED BY <2>1 DEF Exit, Goto, Labels
<1>3. cur[p] = Idle
  BY <1>1, CurIdle
<1>4. \A k \in 1..2 : ItemOf(todo'[p], k)[1] # "put"
  BY <1>1, ItemsDistinct
<1>5. Shape(p)'
  BY <1>1, <1>2, <1>3, <1>4, ShapeLeaving
<1>6. Moves(p)
  BY <1>1, <1>2 DEF Moves, Exit, Only, filevars, FilesInv, Typed, TypeOK
<1> QED BY <1>5, <1>6, MovesKeeps

LEMMA WriteKeeps ==
  ASSUME FilesInv, NEW p \in Procs, Write(p)
  PROVE  FilesInv'
<1>1. pc[p] = "user" /\ todo[p] = <<>> /\ NoLock(p) /\ todo' = todo
  BY NoLockAt DEF Write, Call, At
<1>2. pc' \in [Procs -> Labels] /\ pc'[p] = "write" /\ \A q \in Procs : q # p => pc'[q] = pc[q]
  <2>1. pc \in [Procs -> Labels]
    BY LabelsType DEF FilesInv
  <2> QED BY <2>1 DEF Write, Goto, Labels
<1>3. PICK fd \in FDs \ FreeFds(p), n \in WriteSizes :
         /\ file[ofile[p][fd]].writable /\ file[ofile[p][fd]].type = "inode"
         /\ cur' = [cur EXCEPT ![p].f = ofile[p][fd], ![p].n = n]
  BY DEF Write
<1>4. n \in Nat /\ n > 0 /\ ofile[p][fd] \in 0..NFILE /\ ofile[p][fd] \in FIds
  <2>1. n \in Nat /\ n > 0
    BY FilesAssumption
  <2>2. ofile[p][fd] \in 0..NFILE /\ ofile[p][fd] # 0
    BY Types DEF FilesInv, FreeFds
  <2> QED BY <2>1, <2>2, Constants
<1>5. cur \in [Procs -> Locals]
  BY DEF FilesInv, Typed, TypeOK
<1>6. cur' \in [Procs -> Locals] /\ \A q \in Procs : q # p => cur'[q] = cur[q]
  BY <1>3, <1>4, <1>5 DEF Locals
<1>7. cur'[p].f = ofile[p][fd] /\ cur'[p].n = n
  BY <1>3, <1>5 DEF Locals
<1>8. file' = file /\ ofile' = ofile /\ used' = used
  BY DEF Write, filevars, inodevars
<1>9. Shape(p)'
  <2>1. \A k \in 1..2 : Item(p, k)' = <<"none", 0>>
    BY <1>1, NoItems DEF Item, ItemOf
  <2>2. Writing(p)'
    BY <1>3, <1>4, <1>7, <1>8 DEF Writing
  <2> QED BY <1>1, <1>2, <2>1, <2>2 DEF Shape
<1>10. Moves(p)
  BY <1>1, <1>2, <1>6 DEF Moves, Write, Only, filevars, FilesInv, Typed
<1> QED BY <1>9, <1>10, MovesKeeps

----------------------------------------------------------------------------
(* fileclose and iput *)

LEMMA DoingFacts ==
  ASSUME FilesInv, NEW p \in Procs, NEW op \in {"close", "put", "drop", "rend", "wend"}, Doing(p, op)
  PROVE  LET n == Len(todo[p])  x == Head(todo[p])[2] IN
         /\ todo[p] \in Todos /\ todo[p] # <<>> /\ n \in 1..2
         /\ Head(todo[p]) = <<op, x>> /\ ItemOf(todo[p], n) = <<op, x>>
         /\ op = "close" => x \in FIds /\ FileAt(p, <<"todo", n>>) = x
         /\ op \in {"put", "drop"} => x \in Inums /\ InodeAt(p, <<"todo", n>>) = x
         /\ op \in {"rend", "wend"} => x \in Pipes
         /\ op = "put" => x \in used
         /\ pc[p] \in {"leaving", "exiting"}
<1> DEFINE n == Len(todo[p])
           x == Head(todo[p])[2]
<1>1. todo[p] \in Todos /\ todo[p] # <<>> /\ Head(todo[p])[1] = op /\ pc[p] \in {"leaving", "exiting"}
  BY Types, ShapeFacts DEF FilesInv, Doing
<1>2. n \in 1..2 /\ Head(todo[p]) = ItemOf(todo[p], n) /\ Head(todo[p]) \in Items
  BY <1>1, TodoFacts
<1>3. Head(todo[p]) = <<op, x>>
  BY <1>1, <1>2 DEF Items
<1>4. /\ op = "close" => x \in FIds
      /\ op \in {"put", "drop"} => x \in Inums
      /\ op \in {"rend", "wend"} => x \in Pipes
  BY <1>1, <1>2 DEF Items
<1>5. op = "close" => FileAt(p, <<"todo", n>>) = x
  BY <1>2, <1>3, FileAtFacts DEF Closes
<1>6. op \in {"put", "drop"} => InodeAt(p, <<"todo", n>>) = x
  BY <1>2, <1>3, FileAtFacts DEF Puts
<1>7. op = "put" => x \in used
  <2>1. \A k \in 1..2 : ItemOf(todo[p], k)[1] = "put" => ItemOf(todo[p], k)[2] \in used
    BY ItemIs DEF FilesInv, Shape
  <2>2. ItemOf(todo[p], n)[1] = op /\ ItemOf(todo[p], n)[2] = x
    BY <1>1, <1>2
  <2> QED BY <1>2, <2>1, <2>2
<1> QED BY <1>1, <1>2, <1>3, <1>4, <1>5, <1>6, <1>7

LEMMA PutsInUsed ==
  ASSUME FilesInv, NEW q \in Procs
  PROVE  /\ \A k \in 1..2 : ItemOf(todo[q], k)[1] = "put" => ItemOf(todo[q], k)[2] \in used
         /\ pc[q] = "opening" => cur[q].ip \in used
BY ItemIs, ShapeFacts DEF FilesInv, Shape

LEMMA IputKeeps ==
  ASSUME FilesInv, NEW p \in Procs, Iput(p)
  PROVE  FilesInv'
<1> DEFINE n == Len(todo[p])
           i == Head(todo[p])[2]
<1>1. Doing(p, "put") /\ lock[i] = NoProc
  BY DEF Iput
<1>2. /\ todo[p] \in Todos /\ todo[p] # <<>> /\ n \in 1..2
      /\ Head(todo[p]) = <<"put", i>> /\ ItemOf(todo[p], n) = <<"put", i>>
      /\ i \in Inums /\ i \in used /\ pc[p] \in {"leaving", "exiting"}
  BY <1>1, DoingFacts
<1>3. NoLock(p)
  BY <1>1, NoLockDoing
<1>4. /\ bitmap' = bitmap /\ data' = data /\ addrs' = addrs /\ size' = size /\ grown' = grown
      /\ ofile' = ofile /\ file' = file /\ ends' = ends /\ panic' = panic
      /\ used' = used /\ iref' = iref /\ nlink' = nlink /\ pc' = pc /\ cur' = cur
  BY DEF Iput, blockvars, filevars
<1>5. cur[p] = Idle
  <2>1. Shape(p) /\ p # NoProc
    BY Constants DEF FilesInv
  <2>2. cur[p].left = 0 /\ cur[p] = [Idle EXCEPT !.left = cur[p].left]
    BY <1>1, <1>2, <2>1 DEF Shape
  <2> QED BY <2>2 DEF Idle
<1>6. CASE lock' = lock /\ todo' = [todo EXCEPT ![p] = <<<<"drop", i>>>> \o Tail(todo[p])]
  <2>1. <<"drop", i>> \in Items
    BY <1>2 DEF Items
  <2>2. todo \in [Procs -> Todos]
    BY DEF FilesInv, Typed
  <2>3. /\ todo' \in [Procs -> Todos] /\ \A q \in Procs : q # p => todo'[q] = todo[q]
        /\ \A k \in 1..2 : ItemOf(todo'[p], k) = IF k = n THEN <<"drop", i>> ELSE ItemOf(todo[p], k)
    BY <1>2, <1>6, <2>1, <2>2, TodoFacts
  <2>4. Shape(p)'
    <3>1. \A k \in 1..2 : ItemOf(todo'[p], k)[1] = "put" => ItemOf(todo'[p], k)[2] \in used'
      BY <1>4, <2>3, PutsInUsed
    <3> QED BY <1>2, <1>4, <1>5, <3>1, ShapeLeaving
  <2>5. \A k \in 1..2 : /\ Closes(ItemOf(todo'[p], k)) = Closes(ItemOf(todo[p], k))
                        /\ Puts(ItemOf(todo'[p], k)) = Puts(ItemOf(todo[p], k))
                        /\ Ends(ItemOf(todo'[p], k)) = Ends(ItemOf(todo[p], k))
    <3>1. /\ Closes(<<"put", i>>) = Closes(<<"drop", i>>)
          /\ Puts(<<"put", i>>) = Puts(<<"drop", i>>)
          /\ Ends(<<"put", i>>) = Ends(<<"drop", i>>)
      BY NoEnds DEF Closes, Puts
    <3> QED BY <1>2, <2>3, <3>1
  <2>6. pc' \in [Procs -> Labels] /\ cur' \in [Procs -> Locals]
    BY <1>4, LabelsType DEF FilesInv, Typed, TypeOK
  <2>7. Moves(p)
    BY <1>2, <1>3, <1>4, <1>6, <2>3, <2>5, <2>6 DEF Moves, Only, blockvars, filevars, inodevars
  <2> QED BY <2>4, <2>7, MovesKeeps
<1>7. CASE lock' = [lock EXCEPT ![i] = p] /\ todo' = todo /\ Unused(i)
  <2>0. lock \in [Inums -> Procs \union {NoProc}]
    BY DEF FilesInv, Typed, TypeOK
  <2>1. /\ lock' \in [Inums -> Procs \union {NoProc}] /\ lock'[i] = p
        /\ \A j \in Inums : j # i => lock'[j] = lock[j]
    BY <1>2, <1>7, <2>0
  <2>2. Typed'
    <3>1. Typed
      BY DEF FilesInv
    <3>2. TypeOK'
      BY <1>4, <2>1, <3>1 DEF Typed, TypeOK
    <3> QED BY <1>4, <1>7, <3>1, <3>2 DEF Typed, Indirect, IsData
  <2>3. Apart(p)
    BY <1>1, <1>4, <1>7, <2>1, PutsInUsed, Constants DEF Apart, Only
  <2>4. Shape(p)'
    <3>1. \A k \in 1..2 : ItemOf(todo'[p], k)[1] = "put" => ItemOf(todo'[p], k)[2] \in used'
      BY <1>4, <1>7, PutsInUsed
    <3> QED BY <1>2, <1>4, <1>5, <3>1, ShapeLeaving
  <2>5. \A q \in Procs : Shape(q)'
    BY <2>3, <2>4, OthersKeep
  <2>6. ASSUME NEW j \in Inums PROVE From(j)' = From(j)
    <3>1. CASE j # i
      BY <1>4, <1>7, <2>1, <3>1 DEF From
    <3>2. CASE j = i
      <4>1. cur[p].left = 0 /\ From(j) = 0
        BY <1>1, <1>5, <3>2 DEF From, Idle
      <4> QED BY <1>4, <1>7, <2>1, <3>2, <4>1 DEF From
    <3> QED BY <3>1, <3>2
  <2>7. ASSUME NEW j \in Inums, NEW x PROVE Ptr(j, x)' = Ptr(j, x)
    BY <1>4, <2>6 DEF Ptr, PointsTo, Entries, Indirect
  <2>8. Owned'
    <3>1. \A j \in Inums, x \in Pointers : Ptr(j, x)' = Ptr(j, x)
      BY <2>7
    <3> QED BY <1>4, <3>1 DEF Owned, FilesInv
  <2>9. Contents'
    <3>1. \A j \in Inums : Truncating(j) => Truncating(j)'
      BY <1>1, <1>7, <2>1 DEF Truncating
    <3>2. \A j, k : Right(j, k)' <=> Right(j, k)
      BY <1>4 DEF Right, Bmap, Byte, Indirect
    <3>3. \A q \in Procs : \A k : Right(cur[q].ip, k)' <=> Right(cur[q].ip, k)
      BY <1>4 DEF Right, Bmap, Byte, Indirect
    <3> QED BY <1>4, <3>1, <3>2, <3>3 DEF FilesInv, Contents
  <2>10. ASSUME NEW j \in Inums PROVE Locked(j)' /\ FreeInode(j)'
    <3>1. Locked(j) /\ FreeInode(j)
      BY DEF FilesInv
    <3>2. FreeInode(j)'
      BY <1>4, <3>1 DEF FreeInode, Truncated
    <3>3. CASE j # i
      BY <1>4, <1>7, <2>1, <3>1, <3>2, <3>3 DEF Locked, Unused
    <3>4. CASE j = i
      BY <1>2, <1>4, <1>7, <2>1, <3>2, <3>4 DEF Locked, Unused
    <3> QED BY <3>3, <3>4
  <2>11. (\A f \in FIds : FileSound(f)') /\ EndsHeld'
    <3>1. todo' = todo
      BY <1>7
    <3>2. EndsHeld'
      BY <1>4, <3>1, EndsKeep DEF FilesInv
    <3> QED BY <1>4, <3>2 DEF FilesInv, FileSound
  <2>12. FilesCounted' /\ InodesCounted'
    <3>1. ASSUME NEW q \in Procs
          PROVE  /\ \A x \in FilePlaces : FileAt(q, x)' = FileAt(q, x)
                 /\ \A x \in InodePlaces : InodeAt(q, x)' = InodeAt(q, x)
      BY <1>4, <1>7 DEF FileAt, InodeAt, Item
    <3> QED BY <1>4, <3>1, Uncounted DEF FilesInv
  <2> QED BY <2>2, <2>5, <2>8, <2>9, <2>10, <2>11, <2>12 DEF FilesInv
<1> QED BY <1>6, <1>7 DEF Iput, DoNext

\* An inode that is being freed has no name and nobody else refers to it.
LEMMA TruncatingFacts ==
  ASSUME FilesInv, NEW i \in Inums, Truncating(i)
  PROVE  /\ lock[i] \in Procs /\ Head(todo[lock[i]]) = <<"put", i>>
         /\ pc[lock[i]] \in {"leaving", "exiting"} /\ Len(todo[lock[i]]) \in 1..2
         /\ ItemOf(todo[lock[i]], Len(todo[lock[i]])) = <<"put", i>>
         /\ iref[i] = 1 /\ nlink[i] = 0 /\ i \in used
         /\ \A p \in Procs, x \in InodePlaces :
              InodeAt(p, x) = i => p = lock[i] /\ x = <<"todo", Len(todo[lock[i]])>>
         /\ \A f \in FIds : file[f].type = "inode" => file[f].ip # i
<1> DEFINE q == lock[i]
           n == Len(todo[q])
<1>1. q \in Procs /\ Locked(i) /\ todo[q] # <<>> /\ q # NoProc /\ InodesCounted
  BY Constants DEF FilesInv, Typed, TypeOK, Truncating
<1>2. pc[q] \in {"leaving", "exiting"} /\ todo[q] \in Todos
  BY <1>1, ShapeFacts, Types DEF FilesInv
<1>3. Head(todo[q]) = <<"put", i>> /\ Unused(i)
  BY <1>1, <1>2 DEF Locked
<1>4. n \in 1..2 /\ ItemOf(todo[q], n) = <<"put", i>>
  BY <1>1, <1>2, <1>3, TodoFacts
<1>5. InodeAt(q, <<"todo", n>>) = i /\ <<"todo", n>> \in InodePlaces
  <2>1. Puts(<<"put", i>>) = i
    BY DEF Puts
  <2>2. InodeAt(q, <<"todo", n>>) = Puts(ItemOf(todo[q], n))
    BY FileAtFacts
  <2> QED BY <1>4, <2>1, <2>2, PlaceFacts
<1>6. i \in used
  <2>1. \A k \in 1..2 : ItemOf(todo[q], k)[1] = "put" => ItemOf(todo[q], k)[2] \in used
    BY <1>1, PutsInUsed
  <2>2. ItemOf(todo[q], n)[1] = "put" /\ ItemOf(todo[q], n)[2] = i
    BY <1>4
  <2> QED BY <1>4, <2>1, <2>2
<1>7. iref[i] = 1 /\ nlink[i] = 0
  BY <1>3 DEF Unused
<1>8. ASSUME NEW p \in Procs, NEW x \in InodePlaces, InodeAt(p, x) = i
      PROVE  p = q /\ x = <<"todo", n>>
  BY <1>1, <1>5, <1>7, <1>8, Referred
<1>9. ASSUME NEW f \in FIds, file[f].type = "inode", file[f].ip = i PROVE FALSE
  BY <1>1, <1>5, <1>7, <1>9, Referred
<1> QED BY <1>1, <1>2, <1>3, <1>4, <1>6, <1>7, <1>8, <1>9

LEMMA IputDropKeeps ==
  ASSUME FilesInv, NEW p \in Procs, IputDrop(p)
  PROVE  FilesInv'
<1> DEFINE n == Len(todo[p])
           i == Head(todo[p])[2]
<1>1. Doing(p, "drop")
  BY DEF IputDrop
<1>2. /\ todo[p] \in Todos /\ todo[p] # <<>> /\ n \in 1..2 /\ ItemOf(todo[p], n) = <<"drop", i>>
      /\ Head(todo[p]) = <<"drop", i>>
      /\ i \in Inums /\ InodeAt(p, <<"todo", n>>) = i /\ pc[p] \in {"leaving", "exiting"}
  BY <1>1, DoingFacts
<1>3. NoLock(p)
  BY <1>1, NoLockDoing
<1>4. /\ bitmap' = bitmap /\ data' = data /\ addrs' = addrs /\ size' = size /\ grown' = grown
      /\ ofile' = ofile /\ file' = file /\ ends' = ends /\ panic' = panic /\ lock' = lock
      /\ used' = used /\ nlink' = nlink /\ pc' = pc /\ cur' = cur
  BY DEF IputDrop, blockvars, filevars
<1>5. cur[p] = Idle
  <2>1. Shape(p)
    BY DEF FilesInv
  <2>2. cur[p].left = 0 /\ cur[p] = [Idle EXCEPT !.left = cur[p].left]
    BY <1>2, <2>1 DEF Shape
  <2> QED BY <2>2 DEF Idle
<1>6. /\ todo' \in [Procs -> Todos] /\ \A q \in Procs : q # p => todo'[q] = todo[q]
      /\ \A k \in 1..2 : ItemOf(todo'[p], k) = IF k = n THEN <<"none", 0>> ELSE ItemOf(todo[p], k)
  <2>1. todo \in [Procs -> Todos]
    BY DEF FilesInv, Typed
  <2>2. todo' = [todo EXCEPT ![p] = Tail(todo[p])]
    BY DEF IputDrop, Done
  <2> QED BY <1>2, <2>1, <2>2, TodoFacts
<1>7. <<"todo", n>> \in InodePlaces
  BY <1>2, PlaceFacts
<1>8. iref[i] >= 1
  BY <1>2, <1>7, Referred DEF FilesInv
<1>9. iref' \in [Inums -> Nat] /\ iref'[i] = iref[i] - 1 /\ \A j \in Inums : j # i => iref'[j] = iref[j]
  <2>1. iref \in [Inums -> Nat]
    BY DEF FilesInv, Typed, TypeOK
  <2> QED BY <1>2, <1>8, <2>1 DEF IputDrop
<1>10. Typed'
  BY <1>4, <1>6, <1>9 DEF FilesInv, Typed, TypeOK, Indirect, IsData
<1>11. Apart(p)
  BY <1>4, <1>6, PutsInUsed DEF Apart, Only
<1>12. Shape(p)'
  <2>1. \A k \in 1..2 : ItemOf(todo'[p], k)[1] = "put" => ItemOf(todo'[p], k)[2] \in used'
    BY <1>4, <1>6, PutsInUsed
  <2> QED BY <1>2, <1>4, <1>5, <2>1, ShapeLeaving
<1>13. \A q \in Procs : Shape(q)'
  BY <1>11, <1>12, OthersKeep
<1>14. ASSUME NEW j \in Inums, Truncating(j) PROVE iref'[j] = iref[j]
  <2>1. lock[j] # p
    BY <1>3 DEF NoLock
  <2>2. j # i
    BY <1>2, <1>7, <1>14, <2>1, TruncatingFacts
  <2> QED BY <1>9, <2>2
<1>15. Calm
  BY <1>3, <1>4, <1>6, <1>14 DEF NoLock, Calm, FilesInv, Typed, TypeOK
<1>16. Owned' /\ Contents' /\ \A j \in Inums : Locked(j)' /\ FreeInode(j)'
  BY <1>15, CalmKeeps
<1>17. (\A f \in FIds : FileSound(f)') /\ EndsHeld'
  <2>1. \A q \in Procs, k \in 1..2 : Ends(ItemOf(todo'[q], k)) = Ends(ItemOf(todo[q], k))
    BY <1>2, <1>6, NoEnds
  <2>2. EndsHeld'
    BY <1>4, <2>1, EndsKeep DEF FilesInv
  <2> QED BY <1>4, <2>2 DEF FilesInv, FileSound
<1>18. ASSUME NEW q \in Procs
       PROVE  /\ \A x \in FilePlaces : FileAt(q, x)' = FileAt(q, x)
              /\ q # p => \A x \in InodePlaces : InodeAt(q, x)' = InodeAt(q, x)
  <2>1. Closes(<<"drop", i>>) = Closes(<<"none", 0>>)
    BY DEF Closes
  <2>2. \A k \in 1..2 : Closes(ItemOf(todo'[q], k)) = Closes(ItemOf(todo[q], k))
    BY <1>2, <1>6, <2>1
  <2>3. \A x \in FilePlaces : FileAt(q, x)' = FileAt(q, x)
    BY <1>4, <2>2, FileAtFacts, FileAtFacts2, PlaceFacts
  <2>4. q # p => \A x \in InodePlaces : InodeAt(q, x)' = InodeAt(q, x)
    BY <1>4, <1>6, FileAtFacts, FileAtFacts2, PlaceFacts
  <2> QED BY <2>3, <2>4
<1>19. FilesCounted'
  <2>1. \A f : Holders(f)' = Holders(f)
    BY <1>18 DEF Holders
  <2> QED BY <1>4, <2>1 DEF FilesInv, FilesCounted, Holders
<1>20. InodesCounted'
  <2>1. ASSUME NEW j \in Inums
        PROVE  Cardinality(Callers(j)') = Cardinality(Callers(j)) - Same(i, j) /\ Cardinality(Callers(j)) \in Nat
    <3>1. ASSUME NEW k \in 1..2
          PROVE  InodeAt(p, <<"todo", k>>)' = IF k = n THEN NoInode ELSE InodeAt(p, <<"todo", k>>)
      <4>1. InodeAt(p, <<"todo", k>>)' = Puts(ItemOf(todo'[p], k))
        BY FileAtFacts2
      <4>2. InodeAt(p, <<"todo", k>>) = Puts(ItemOf(todo[p], k))
        BY FileAtFacts
      <4> QED BY <1>6, <4>1, <4>2, ItemsDistinct
    <3>2. InodeAt(p, <<"open", 0>>)' = InodeAt(p, <<"open", 0>>)
      BY <1>4, FileAtFacts, FileAtFacts2
    <3>3. NoInode # j
      BY Constants
    <3>4. /\ Cardinality(Callers(j)) \in Nat
          /\ Cardinality(Callers(j)') =
              Cardinality(Callers(j)) + Same(InodeAt(p, <<"todo", 1>>)', j)
                + Same(InodeAt(p, <<"todo", 2>>)', j) + Same(InodeAt(p, <<"open", 0>>)', j)
                - (Same(InodeAt(p, <<"todo", 1>>), j) + Same(InodeAt(p, <<"todo", 2>>), j)
                     + Same(InodeAt(p, <<"open", 0>>), j))
      BY <1>18, CallersThree
    <3>5. \A a, b : Same(a, b) \in 0..1
      BY DEF Same
    <3>6. Same(NoInode, j) = 0
      BY <3>3 DEF Same
    <3>7. CASE n = 1
      BY <1>2, <3>1, <3>2, <3>4, <3>5, <3>6, <3>7
    <3>8. CASE n = 2
      BY <1>2, <3>1, <3>2, <3>4, <3>5, <3>6, <3>8
    <3> QED BY <1>2, <3>7, <3>8
  <2>2. \A j \in Inums : OpenOn(j)' = OpenOn(j)
    BY <1>4 DEF OpenOn
  <2>3. ASSUME NEW j \in Inums
        PROVE  iref'[j] = Cardinality(OpenOn(j)') + Cardinality(Callers(j)')
    <3>1. iref[j] = Cardinality(OpenOn(j)) + Cardinality(Callers(j))
      BY DEF FilesInv, InodesCounted, OpenOn, Callers
    <3>2. Cardinality(OpenOn(j)) \in Nat
      BY HoldersFinite, CountMembers
    <3> QED BY <1>9, <2>1, <2>2, <3>1, <3>2 DEF Same
  <2>4. InodesCounted
    BY DEF FilesInv
  <2> QED BY <1>4, <2>3, <2>4 DEF InodesCounted, OpenOn, Callers
<1> QED BY <1>10, <1>13, <1>16, <1>17, <1>19, <1>20 DEF FilesInv

LEMMA FileType ==
  ASSUME Typed
  PROVE  /\ \A f \in FIds : /\ file[f] \in FileRecs /\ file[f].ref \in Nat /\ file[f].off \in Nat
                            /\ file[f].writable \in BOOLEAN
                            /\ file[f].type \in {"none", "inode", "pipe"}
         /\ NoFile \in FileRecs /\ NoFile.ref = 0 /\ NoFile.type = "none"
<1>1. file \in [FIds -> FileRecs]
  BY DEF Typed, TypeOK
<1> QED BY <1>1 DEF FileRecs, NoFile

\* Every process but p has what it had, and p has it at all its descriptors
\* and in its pipe call.
LEMMA TodoChange ==
  ASSUME NEW p \in Procs, Only(p), ofile'[p] = ofile[p],
         pc'[p] \notin {"piping", "opening"}, pc[p] \notin {"piping", "opening"}
  PROVE  /\ AtMost(p, <<"todo", 1>>, <<"todo", 2>>, <<"pipe", 0>>)
         /\ FileAt(p, <<"pipe", 0>>) = 0 /\ FileAt(p, <<"pipe", 0>>)' = 0
         /\ \A q \in Procs : q # p => \A x \in InodePlaces : InodeAt(q, x)' = InodeAt(q, x)
         /\ InodeAt(p, <<"open", 0>>) = NoInode /\ InodeAt(p, <<"open", 0>>)' = NoInode
<1>1. ASSUME NEW q \in Procs, q # p
      PROVE  /\ \A x \in FilePlaces : FileAt(q, x)' = FileAt(q, x)
             /\ \A x \in InodePlaces : InodeAt(q, x)' = InodeAt(q, x)
  BY <1>1 DEF Only, FileAt, InodeAt, Item
<1>2. ASSUME NEW d \in FDs PROVE FileAt(p, <<"fd", d>>)' = FileAt(p, <<"fd", d>>)
  <2>1. FileAt(p, <<"fd", d>>)' = ofile'[p][d]
    BY FileAtFacts2
  <2>2. FileAt(p, <<"fd", d>>) = ofile[p][d]
    BY FileAtFacts
  <2> QED BY <2>1, <2>2
<1>3. /\ FileAt(p, <<"pipe", 0>>) = 0 /\ FileAt(p, <<"pipe", 0>>)' = 0
      /\ InodeAt(p, <<"open", 0>>) = NoInode /\ InodeAt(p, <<"open", 0>>)' = NoInode
  BY FileAtFacts, FileAtFacts2
<1>4. AtMost(p, <<"todo", 1>>, <<"todo", 2>>, <<"pipe", 0>>)
  <2>1. \A x \in FilePlaces : x # <<"todo", 1>> /\ x # <<"todo", 2>> /\ x # <<"pipe", 0>>
                              => FileAt(p, x)' = FileAt(p, x)
    BY <1>2, PlaceFacts
  <2> QED BY <1>1, <2>1 DEF AtMost
<1> QED BY <1>1, <1>3, <1>4

LEMMA SameType == \A a, b : Same(a, b) \in 0..1 /\ Same(a, a) = 1 /\ (a # b => Same(a, b) = 0)
BY DEF Same

LEMMA InType == \A a, S : In(a, S) \in 0..1
BY DEF In

\* One item of todo becomes another.
ItemBecomes(p, n, z) ==
  /\ Only(p) /\ ofile'[p] = ofile[p]
  /\ pc'[p] \notin {"piping", "opening"} /\ pc[p] \notin {"piping", "opening"}
  /\ \A k \in 1..2 : ItemOf(todo'[p], k) = IF k = n THEN z ELSE ItemOf(todo[p], k)

LEMMA ItemChange ==
  ASSUME NEW p \in Procs, NEW n \in 1..2, NEW z, ItemBecomes(p, n, z)
  PROVE  /\ \A f : /\ Cardinality(Holders(f)) \in Nat
                   /\ Cardinality(Holders(f)') = Cardinality(Holders(f)) + Same(Closes(z), f)
                                                   - Same(Closes(ItemOf(todo[p], n)), f)
         /\ \A i : /\ Cardinality(Callers(i)) \in Nat
                   /\ Cardinality(Callers(i)') = Cardinality(Callers(i)) + Same(Puts(z), i)
                                                   - Same(Puts(ItemOf(todo[p], n)), i)
<1>1. /\ AtMost(p, <<"todo", 1>>, <<"todo", 2>>, <<"pipe", 0>>)
      /\ FileAt(p, <<"pipe", 0>>) = 0 /\ FileAt(p, <<"pipe", 0>>)' = 0
      /\ \A q \in Procs : q # p => \A x \in InodePlaces : InodeAt(q, x)' = InodeAt(q, x)
      /\ InodeAt(p, <<"open", 0>>) = NoInode /\ InodeAt(p, <<"open", 0>>)' = NoInode
  BY TodoChange DEF ItemBecomes
<1>2. ASSUME NEW k \in 1..2
      PROVE  /\ FileAt(p, <<"todo", k>>) = Closes(ItemOf(todo[p], k))
             /\ FileAt(p, <<"todo", k>>)' = IF k = n THEN Closes(z) ELSE FileAt(p, <<"todo", k>>)
             /\ InodeAt(p, <<"todo", k>>) = Puts(ItemOf(todo[p], k))
             /\ InodeAt(p, <<"todo", k>>)' = IF k = n THEN Puts(z) ELSE InodeAt(p, <<"todo", k>>)
  <2>1. /\ FileAt(p, <<"todo", k>>)' = Closes(ItemOf(todo'[p], k))
        /\ InodeAt(p, <<"todo", k>>)' = Puts(ItemOf(todo'[p], k))
    BY FileAtFacts2
  <2>2. /\ FileAt(p, <<"todo", k>>) = Closes(ItemOf(todo[p], k))
        /\ InodeAt(p, <<"todo", k>>) = Puts(ItemOf(todo[p], k))
    BY FileAtFacts
  <2> QED BY <2>1, <2>2 DEF ItemBecomes
<1>3. /\ <<"todo", 1>> \in FilePlaces /\ <<"todo", 2>> \in FilePlaces /\ <<"pipe", 0>> \in FilePlaces
      /\ <<"todo", 1>> # <<"todo", 2>> /\ <<"todo", 1>> # <<"pipe", 0>> /\ <<"todo", 2>> # <<"pipe", 0>>
  BY PlaceFacts
<1>4. ASSUME NEW f
      PROVE  /\ Cardinality(Holders(f)) \in Nat
             /\ Cardinality(Holders(f)') = Cardinality(Holders(f)) + Same(Closes(z), f)
                                             - Same(Closes(ItemOf(todo[p], n)), f)
  <2>1. /\ Cardinality(Holders(f)) \in Nat
        /\ Cardinality(Holders(f)') =
             Cardinality(Holders(f)) + Same(FileAt(p, <<"todo", 1>>)', f) + Same(FileAt(p, <<"todo", 2>>)', f)
               + Same(FileAt(p, <<"pipe", 0>>)', f)
               - (Same(FileAt(p, <<"todo", 1>>), f) + Same(FileAt(p, <<"todo", 2>>), f)
                    + Same(FileAt(p, <<"pipe", 0>>), f))
    BY <1>1, <1>3, HoldersThree
  <2>2. CASE n = 1
    BY <1>1, <1>2, <2>1, <2>2, SameType
  <2>3. CASE n = 2
    BY <1>1, <1>2, <2>1, <2>3, SameType
  <2> QED BY <2>2, <2>3
<1>5. ASSUME NEW i
      PROVE  /\ Cardinality(Callers(i)) \in Nat
             /\ Cardinality(Callers(i)') = Cardinality(Callers(i)) + Same(Puts(z), i)
                                             - Same(Puts(ItemOf(todo[p], n)), i)
  <2>1. /\ Cardinality(Callers(i)) \in Nat
        /\ Cardinality(Callers(i)') =
             Cardinality(Callers(i)) + Same(InodeAt(p, <<"todo", 1>>)', i)
               + Same(InodeAt(p, <<"todo", 2>>)', i) + Same(InodeAt(p, <<"open", 0>>)', i)
               - (Same(InodeAt(p, <<"todo", 1>>), i) + Same(InodeAt(p, <<"todo", 2>>), i)
                    + Same(InodeAt(p, <<"open", 0>>), i))
    BY <1>1, CallersThree
  <2>2. CASE n = 1
    BY <1>1, <1>2, <2>1, <2>2, SameType
  <2>3. CASE n = 2
    BY <1>1, <1>2, <2>1, <2>3, SameType
  <2> QED BY <2>2, <2>3
<1> QED BY <1>4, <1>5

LEMMA CountedAs ==
  /\ FilesCounted <=> \A f \in FIds : file[f].ref = Cardinality(Holders(f))
  /\ FilesCounted' <=> \A f \in FIds : file'[f].ref = Cardinality(Holders(f)')
BY DEF FilesCounted, Holders

LEMMA InodesAs ==
  /\ InodesCounted <=>
       \A i \in Inums : iref[i] = Cardinality(OpenOn(i)) + Cardinality(Callers(i))
  /\ InodesCounted' <=>
       \A i \in Inums : iref'[i] = Cardinality(OpenOn(i)') + Cardinality(Callers(i)')
BY DEF InodesCounted, OpenOn, Callers

LEMMA FileCloseKeeps ==
  ASSUME FilesInv, NEW p \in Procs, FileClose(p)
  PROVE  FilesInv'
<1> DEFINE n == Len(todo[p])
           f == Head(todo[p])[2]
           last == file[f].ref = 1
           more == last /\ file[f].type # "none"
           z == IF more THEN GivesBack(file[f]) ELSE <<"none", 0>>
<1>0. Typed /\ FilesCounted /\ InodesCounted /\ EndsHeld /\ \A g \in FIds : FileSound(g)
  BY DEF FilesInv
<1>1. Doing(p, "close")
  BY DEF FileClose
<1>2. /\ todo[p] \in Todos /\ todo[p] # <<>> /\ n \in 1..2 /\ ItemOf(todo[p], n) = <<"close", f>>
      /\ Head(todo[p]) = <<"close", f>>
      /\ f \in FIds /\ FileAt(p, <<"todo", n>>) = f /\ pc[p] \in {"leaving", "exiting"}
  BY <1>1, DoingFacts
<1>3. NoLock(p)
  BY <1>1, NoLockDoing
<1>4. /\ bitmap' = bitmap /\ data' = data /\ addrs' = addrs /\ size' = size /\ grown' = grown
      /\ ofile' = ofile /\ lock' = lock /\ ends' = ends
      /\ used' = used /\ iref' = iref /\ nlink' = nlink /\ pc' = pc /\ cur' = cur
  BY DEF FileClose, blockvars, inodevars
<1>5. <<"todo", n>> \in FilePlaces
  BY <1>2, PlaceFacts
<1>6. file[f].ref >= 1 /\ file[f].ref \in Nat /\ file[f] \in FileRecs
  BY <1>0, <1>2, <1>5, Held, FileType
<1>7. panic' = panic
  BY <1>6 DEF FileClose
<1>8. file \in [FIds -> FileRecs] /\ NoFile \in FileRecs
  BY <1>0, FileType DEF Typed, TypeOK
<1>9. /\ file' \in [FIds -> FileRecs] /\ \A g \in FIds : g # f => file'[g] = file[g]
      /\ last => file'[f] = NoFile
      /\ ~last => /\ file'[f].type = file[f].type /\ file'[f].ip = file[f].ip
                  /\ file'[f].off = file[f].off /\ file'[f].writable = file[f].writable
      /\ file'[f].ref = file[f].ref - 1
  <2>1. CASE last
    <3>1. file' = [file EXCEPT ![f] = NoFile]
      BY <2>1 DEF FileClose, Closed
    <3> QED BY <1>2, <1>8, <2>1, <3>1, FileType DEF NoFile
  <2>2. CASE ~last
    <3>1. file' = [file EXCEPT ![f].ref = file[f].ref - 1] /\ file[f].ref - 1 \in Nat
      BY <1>6, <2>2 DEF FileClose, Closed
    <3> QED BY <1>2, <1>6, <1>8, <2>2, <3>1 DEF FileRecs
  <2> QED BY <2>1, <2>2
<1>10. /\ more => z \in Items /\ z[2] = file[f].ip
       /\ more /\ file[f].type = "inode" => z[1] = "put" /\ file[f].ip \in used /\ file[f].ip \in Inums
       /\ more /\ file[f].type = "pipe" => z = <<EndOp(file[f].writable), file[f].ip>>
  <2>1. file[f].type \in {"none", "inode", "pipe"} /\ used \subseteq Inums /\ FileSound(f)
    BY <1>0, <1>2, FileType DEF Typed, TypeOK
  <2> QED BY <2>1 DEF GivesBack, EndOp, FileSound, Items
<1>11. /\ todo' \in [Procs -> Todos] /\ \A q \in Procs : q # p => todo'[q] = todo[q]
       /\ \A k \in 1..2 : ItemOf(todo'[p], k) = IF k = n THEN z ELSE ItemOf(todo[p], k)
  <2>1. todo \in [Procs -> Todos]
    BY <1>0 DEF Typed
  <2>2. CASE more
    <3>1. todo' = [todo EXCEPT ![p] = <<z>> \o Tail(todo[p])]
      BY <2>2 DEF FileClose, DoNext
    <3> HIDE DEF z, more
    <3> QED BY <1>2, <1>10, <2>1, <2>2, <3>1, TodoFacts
  <2>3. CASE ~more
    <3>1. todo' = [todo EXCEPT ![p] = Tail(todo[p])] /\ z = <<"none", 0>>
      BY <2>3 DEF FileClose, Done
    <3> HIDE DEF z, more
    <3> QED BY <1>2, <2>1, <3>1, TodoFacts
  <2> QED BY <2>2, <2>3
<1>12. /\ Closes(z) = 0 /\ Closes(<<"close", f>>) = f /\ Puts(<<"close", f>>) = NoInode
       /\ Puts(z) = IF last /\ file[f].type = "inode" THEN file[f].ip ELSE NoInode
       /\ ~(last /\ file[f].type = "pipe") => Ends(z) = <<"none", 0>>
  <2>1. file[f].type \in {"none", "inode", "pipe"}
    BY <1>0, <1>2, FileType
  <2> QED BY <2>1 DEF Closes, Puts, Ends, GivesBack, EndOp
<1>13. Only(p)
  BY <1>4, <1>11 DEF Only
<1>14. cur[p] = Idle
  <2>1. Shape(p)
    BY DEF FilesInv
  <2>2. cur[p].left = 0 /\ cur[p] = [Idle EXCEPT !.left = cur[p].left]
    BY <1>2, <2>1 DEF Shape
  <2> QED BY <2>2 DEF Idle
<1> HIDE DEF z, more
<1>15. /\ \A g : /\ Cardinality(Holders(g)) \in Nat
                 /\ Cardinality(Holders(g)') = Cardinality(Holders(g)) + Same(0, g) - Same(f, g)
       /\ \A i : /\ Cardinality(Callers(i)) \in Nat
                 /\ Cardinality(Callers(i)') = Cardinality(Callers(i)) + Same(Puts(z), i) - Same(NoInode, i)
  <2>1. /\ pc'[p] \notin {"piping", "opening"} /\ pc[p] \notin {"piping", "opening"}
        /\ ofile'[p] = ofile[p]
    BY <1>2, <1>4
  <2>2. /\ \A g : /\ Cardinality(Holders(g)) \in Nat
                  /\ Cardinality(Holders(g)') = Cardinality(Holders(g)) + Same(Closes(z), g)
                                                  - Same(Closes(ItemOf(todo[p], n)), g)
        /\ \A i : /\ Cardinality(Callers(i)) \in Nat
                  /\ Cardinality(Callers(i)') = Cardinality(Callers(i)) + Same(Puts(z), i)
                                                  - Same(Puts(ItemOf(todo[p], n)), i)
    <3>1. ItemBecomes(p, n, z)
      BY <1>11, <1>13, <2>1 DEF ItemBecomes
    <3> QED BY <1>2, <3>1, ItemChange
  <2> QED BY <1>2, <1>12, <2>2
<1>16. FilesCounted'
  <2>1. ASSUME NEW g \in FIds PROVE file'[g].ref = Cardinality(Holders(g)')
    <3>1. file[g].ref = Cardinality(Holders(g)) /\ Same(0, g) = 0
      BY <1>0, CountedAs, SameType, Constants
    <3>2. file'[g].ref = file[g].ref - Same(f, g)
      BY <1>9, <3>1, <1>15 DEF Same
    <3> QED BY <1>15, <3>1, <3>2, SameType
  <2> QED BY <2>1, CountedAs
<1>17. ASSUME NEW i \in Inums PROVE iref'[i] = Cardinality(OpenOn(i)') + Cardinality(Callers(i)')
  <2>1. iref[i] = Cardinality(OpenOn(i)) + Cardinality(Callers(i)) /\ Same(NoInode, i) = 0
    BY <1>0, InodesAs, SameType, Constants
  <2>2. /\ Cardinality(OpenOn(i)) \in Nat
        /\ Cardinality(OpenOn(i)') = Cardinality(OpenOn(i)) + In(f, OpenOn(i)') - In(f, OpenOn(i))
    BY <1>2, <1>9, OpenOnOne
  <2>3. In(f, OpenOn(i)') + Same(Puts(z), i) = In(f, OpenOn(i))
    <3>1. CASE last
      <4>1. f \notin OpenOn(i)'
        BY <1>9, <3>1 DEF OpenOn, NoFile
      <4>2. f \in OpenOn(i) <=> file[f].type = "inode" /\ file[f].ip = i
        BY <1>2 DEF OpenOn
      <4>3. CASE file[f].type = "inode"
        BY <1>12, <3>1, <4>1, <4>2, <4>3 DEF In, Same
      <4>4. CASE file[f].type # "inode"
        BY <1>12, <2>1, <3>1, <4>1, <4>2, <4>4 DEF In
      <4> QED BY <4>3, <4>4
    <3>2. CASE ~last
      <4>1. f \in OpenOn(i)' <=> f \in OpenOn(i)
        BY <1>2, <1>9, <3>2 DEF OpenOn
      <4> QED BY <1>12, <2>1, <3>2, <4>1, InType DEF In
    <3> QED BY <3>1, <3>2
  <2> QED BY <1>4, <1>15, <2>1, <2>2, <2>3, SameType, InType
<1>19. InodesCounted'
  BY <1>17, InodesAs
<1>21. Typed'
  <2>1. \A g \in FIds : file'[g].type = "inode" => file'[g].off <= size'[file'[g].ip]
    BY <1>0, <1>2, <1>4, <1>9, FileType DEF Typed, TypeOK
  <2> QED BY <1>0, <1>4, <1>7, <1>9, <1>11, <2>1 DEF Typed, TypeOK, Indirect, IsData
<1>22. Apart(p)
  <2>1. ASSUME NEW q \in Procs, q # p
        PROVE  /\ pc[q] = "piping" => file'[cur[q].f] = file[cur[q].f]
               /\ pc[q] \in {"write", "writei"} =>
                    /\ file'[cur[q].f].type = file[cur[q].f].type
                    /\ file'[cur[q].f].ip = file[cur[q].f].ip
                    /\ file'[cur[q].f].off = file[cur[q].f].off
    <3>1. /\ pc[q] = "piping" => cur[q].f \in FIds /\ f # cur[q].f
          /\ pc[q] \in {"write", "writei"} =>
               cur[q].f \in FIds /\ (f = cur[q].f => file[cur[q].f].ref >= 2)
      BY <1>2, <1>5, <2>1, OthersFiles
    <3>2. pc[q] = "piping" => file'[cur[q].f] = file[cur[q].f]
      BY <1>9, <3>1
    <3>3. ASSUME pc[q] \in {"write", "writei"}, f = cur[q].f
          PROVE  ~last
      BY <3>1, <3>3
    <3> QED BY <1>9, <3>1, <3>2, <3>3
  <2> QED BY <1>4, <1>13, <2>1, PutsInUsed DEF Apart
<1>23. Shape(p)'
  <2>1. \A k \in 1..2 : ItemOf(todo'[p], k)[1] = "put" => ItemOf(todo'[p], k)[2] \in used'
    <3>1. z[1] = "put" => z[2] \in used
      <4>1. file[f].type \in {"none", "inode", "pipe"}
        BY <1>0, <1>2, FileType
      <4> QED BY <1>10, <4>1 DEF z, more, EndOp
    <3> QED BY <1>4, <1>11, <3>1, PutsInUsed
  <2> QED BY <1>2, <1>4, <1>14, <2>1, ShapeLeaving
<1>24. \A q \in Procs : Shape(q)'
  BY <1>22, <1>23, OthersKeep
<1>25. Calm
  BY <1>0, <1>3, <1>4, <1>11 DEF NoLock, Calm, Typed, TypeOK
<1>26. Owned' /\ Contents' /\ \A j \in Inums : Locked(j)' /\ FreeInode(j)'
  BY <1>25, CalmKeeps
<1>27. ASSUME NEW g \in FIds PROVE FileSound(g)'
  <2>1. FileSound(g) /\ file[g].ref \in Nat
    BY <1>0, FileType
  <2>2. CASE g # f
    BY <1>4, <1>9, <2>1, <2>2 DEF FileSound
  <2>3. CASE g = f /\ last
    BY <1>9, <2>3 DEF FileSound, NoFile
  <2>4. CASE g = f /\ ~last
    BY <1>4, <1>6, <1>9, <2>1, <2>4 DEF FileSound
  <2> QED BY <2>2, <2>3, <2>4
<1>28. EndsHeld'
  <2>1. \A k \in 1..2 : Item(p, k)' = IF k = n THEN z ELSE Item(p, k)
    BY <1>11 DEF Item, ItemOf
  <2>2. \A q \in Procs, k \in 1..2 : q # p => Item(q, k)' = Item(q, k)
    BY <1>11 DEF Item
  <2>3. CASE last /\ file[f].type = "pipe"
    <3>0. /\ file[f].ip \in Pipes /\ file[f].writable \in BOOLEAN
          /\ FileHas(f, file[f].ip, file[f].writable)
          /\ z = <<EndOp(file[f].writable), file[f].ip>> /\ Item(p, n) = <<"close", f>>
      BY <1>0, <1>2, <1>10, <2>3, FileType, ItemIs DEF FileSound, FileHas, more
    <3>1. PICK a \in Pipes, b \in BOOLEAN :
            FileHas(f, a, b) /\ z = <<EndOp(b), a>> /\ Item(p, n) = <<"close", f>>
      BY <3>0
    <3>2. ASSUME NEW g \in FIds, NEW q, NEW wr
          PROVE  FileHas(g, q, wr)' <=> FileHas(g, q, wr) /\ g # f
      BY <1>9, <2>3 DEF FileHas, NoFile
    <3>3. ASSUME NEW q \in Pipes, NEW wr \in BOOLEAN, q # a \/ wr # b
          PROVE  ~FileHas(f, q, wr)
      BY <3>1, <3>3 DEF FileHas
    <3>4. ASSUME NEW o \in Procs, NEW k \in 1..2, NEW q \in Pipes, NEW wr \in BOOLEAN
          PROVE  CallHas(o, k, q, wr)' <=> \/ CallHas(o, k, q, wr)
                                           \/ o = p /\ k = n /\ q = a /\ wr = b
      <4>1. ~CallHas(p, n, q, wr)
        BY <3>1 DEF CallHas, EndOp
      <4>2. z = <<EndOp(wr), q>> <=> q = a /\ wr = b
        BY <3>1 DEF EndOp
      <4>3. CASE o = p /\ k = n
        BY <1>2, <2>1, <4>1, <4>2, <4>3 DEF CallHas
      <4>4. CASE ~(o = p /\ k = n)
        BY <2>1, <2>2, <4>4 DEF CallHas
      <4> QED BY <4>3, <4>4
    <3>5. ASSUME NEW q \in Pipes, NEW wr \in BOOLEAN, q # a \/ wr # b
          PROVE  /\ \A g \in FIds : FileHas(g, q, wr)' <=> FileHas(g, q, wr)
                 /\ \A o \in Procs, k \in 1..2 : CallHas(o, k, q, wr)' <=> CallHas(o, k, q, wr)
      BY <3>2, <3>3, <3>4, <3>5
    <3>6. /\ b \in ends[a] /\ \A g \in FIds : ~FileHas(g, a, b)'
          /\ \A o \in Procs, k \in 1..2 : CallHas(o, k, a, b)' <=> o = p /\ k = n
      BY <1>0, <1>2, <3>1, <3>2, <3>4 DEF EndsHeld
    <3> QED BY <1>0, <1>2, <1>4, <3>1, <3>5, <3>6 DEF EndsHeld
  <2>4. CASE ~(last /\ file[f].type = "pipe")
    <3>1. \A q \in Procs, k \in 1..2 : Ends(ItemOf(todo'[q], k)) = Ends(ItemOf(todo[q], k))
      BY <1>2, <1>11, <1>12, <2>4, NoEnds
    <3>2. \A g \in FIds : file[g].type = "pipe" \/ file'[g].type = "pipe" =>
            /\ file'[g].type = file[g].type /\ file'[g].ip = file[g].ip
            /\ file'[g].writable = file[g].writable
      <4>1. NoFile.type # "pipe"
        BY DEF NoFile
      <4> QED BY <1>9, <2>4, <4>1
    <3> QED BY <1>0, <1>4, <3>1, <3>2, EndsKeep
  <2> QED BY <2>3, <2>4
<1> QED BY <1>16, <1>19, <1>21, <1>24, <1>26, <1>27, <1>28 DEF FilesInv

LEMMA PipeCloseKeeps ==
  ASSUME FilesInv, NEW p \in Procs, PipeClose(p)
  PROVE  FilesInv'
<1> DEFINE n == Len(todo[p])
           a == Head(todo[p])[2]
           b == Head(todo[p])[1] = "wend"
<1>0. Typed /\ FilesCounted /\ InodesCounted /\ EndsHeld /\ \A g \in FIds : FileSound(g)
  BY DEF FilesInv
<1>1. PICK op \in {"rend", "wend"} : Doing(p, op)
  BY DEF PipeClose
<1>2. /\ todo[p] \in Todos /\ todo[p] # <<>> /\ n \in 1..2 /\ ItemOf(todo[p], n) = <<op, a>>
      /\ Head(todo[p]) = <<op, a>> /\ a \in Pipes /\ pc[p] \in {"leaving", "exiting"}
      /\ b \in BOOLEAN /\ op = EndOp(b)
  <2>1. /\ todo[p] \in Todos /\ todo[p] # <<>> /\ n \in 1..2 /\ ItemOf(todo[p], n) = <<op, a>>
        /\ Head(todo[p]) = <<op, a>> /\ a \in Pipes /\ pc[p] \in {"leaving", "exiting"}
    BY <1>1, DoingFacts
  <2> QED BY <2>1 DEF EndOp
<1>3. NoLock(p)
  BY <1>1, NoLockDoing
<1>4. /\ bitmap' = bitmap /\ data' = data /\ addrs' = addrs /\ size' = size /\ grown' = grown
      /\ ofile' = ofile /\ file' = file /\ panic' = panic /\ lock' = lock
      /\ used' = used /\ iref' = iref /\ nlink' = nlink /\ pc' = pc /\ cur' = cur
      /\ ends' = [ends EXCEPT ![a] = @ \ {b}] /\ todo' = [todo EXCEPT ![p] = Tail(todo[p])]
  BY DEF PipeClose, blockvars, inodevars, Done
<1> HIDE DEF a, b
<1>5. cur[p] = Idle
  <2>1. Shape(p)
    BY DEF FilesInv
  <2>2. cur[p].left = 0 /\ cur[p] = [Idle EXCEPT !.left = cur[p].left]
    BY <1>2, <2>1 DEF Shape
  <2> QED BY <2>2 DEF Idle
<1>6. /\ todo' \in [Procs -> Todos] /\ \A q \in Procs : q # p => todo'[q] = todo[q]
      /\ \A k \in 1..2 : ItemOf(todo'[p], k) = IF k = n THEN <<"none", 0>> ELSE ItemOf(todo[p], k)
  <2>1. todo \in [Procs -> Todos]
    BY <1>0 DEF Typed
  <2> QED BY <1>2, <1>4, <2>1, TodoFacts
<1>7. /\ ends' \in [Pipes -> SUBSET BOOLEAN] /\ ends'[a] = ends[a] \ {b}
      /\ \A q \in Pipes : q # a => ends'[q] = ends[q]
  BY <1>0, <1>2, <1>4 DEF Typed
<1>8. Typed'
  BY <1>0, <1>4, <1>6, <1>7 DEF Typed, TypeOK, Indirect, IsData
<1>9. Only(p) /\ Apart(p)
  BY <1>4, <1>6, PutsInUsed DEF Apart, Only
<1>10. Shape(p)'
  <2>1. \A k \in 1..2 : ItemOf(todo'[p], k)[1] = "put" => ItemOf(todo'[p], k)[2] \in used'
    BY <1>4, <1>6, PutsInUsed
  <2> QED BY <1>2, <1>4, <1>5, <2>1, ShapeLeaving
<1>11. \A q \in Procs : Shape(q)'
  BY <1>9, <1>10, OthersKeep
<1>12. Calm
  BY <1>0, <1>2, <1>3, <1>4, <1>9, NoLockCalm
<1>13. Owned' /\ Contents' /\ \A j \in Inums : Locked(j)' /\ FreeInode(j)'
  BY <1>12, CalmKeeps
<1>14. FilesCounted' /\ InodesCounted'
  <2>1. /\ Closes(<<op, a>>) = Closes(<<"none", 0>>) /\ Puts(<<op, a>>) = Puts(<<"none", 0>>)
    BY DEF Closes, Puts
  <2>2. \A q \in Procs, k \in 1..2 : /\ Closes(ItemOf(todo'[q], k)) = Closes(ItemOf(todo[q], k))
                                    /\ Puts(ItemOf(todo'[q], k)) = Puts(ItemOf(todo[q], k))
    BY <1>2, <1>6, <2>1
  <2>3. ASSUME NEW q \in Procs
        PROVE  /\ \A x \in FilePlaces : FileAt(q, x)' = FileAt(q, x)
               /\ \A x \in InodePlaces : InodeAt(q, x)' = InodeAt(q, x)
    BY <1>4, <2>2, FileAtFacts, FileAtFacts2, PlaceFacts
  <2> QED BY <1>0, <1>4, <2>3, Uncounted
<1>15. EndsHeld'
  <2>1. ASSUME NEW g \in FIds, NEW q, NEW wr PROVE FileHas(g, q, wr)' <=> FileHas(g, q, wr)
    BY <1>4 DEF FileHas
  <2>0. PICK c \in Pipes, d \in BOOLEAN : c = a /\ d = b
    BY <1>2
  <2>2. /\ \A k \in 1..2 : Item(p, k)' = IF k = n THEN <<"none", 0>> ELSE Item(p, k)
        /\ \A q \in Procs, k \in 1..2 : q # p => Item(q, k)' = Item(q, k)
        /\ Item(p, n) = <<EndOp(d), c>>
    BY <1>2, <1>6, <2>0 DEF Item, ItemOf
  <2>3. CallHas(p, n, c, d)
    BY <2>2 DEF CallHas
  <2>4. ASSUME NEW o \in Procs, NEW k \in 1..2, NEW q \in Pipes, NEW wr \in BOOLEAN
        PROVE  CallHas(o, k, q, wr)' <=> CallHas(o, k, q, wr) /\ ~(o = p /\ k = n)
    <3>1. <<"none", 0>> # <<EndOp(wr), q>>
      BY DEF EndOp
    <3>2. CASE o = p /\ k = n
      BY <2>2, <3>1, <3>2 DEF CallHas
    <3>3. CASE o # p \/ k # n
      BY <2>2, <3>3 DEF CallHas
    <3> QED BY <3>2, <3>3
  <2>5. ASSUME NEW q \in Pipes, NEW wr \in BOOLEAN, q # c \/ wr # d
        PROVE  ~CallHas(p, n, q, wr) /\ (wr \in ends'[q] <=> wr \in ends[q])
    BY <1>2, <1>7, <2>0, <2>2, <2>5 DEF CallHas, EndOp
  <2>6. /\ d \notin ends'[c] /\ \A g \in FIds : ~FileHas(g, c, d)
        /\ \A o \in Procs, k \in 1..2 : ~CallHas(o, k, c, d)'
    <3>1. c \in Pipes /\ d \in BOOLEAN /\ n \in 1..2 /\ d \notin ends'[c]
      BY <1>2, <1>7, <2>0
    <3>2. \A g \in FIds : ~FileHas(g, c, d)
      <4>1. \A g \in FIds, x \in Procs, u \in 1..2 : ~(FileHas(g, c, d) /\ CallHas(x, u, c, d))
        BY <1>0, <3>1 DEF EndsHeld
      <4> QED BY <2>3, <3>1, <4>1
    <3>3. ASSUME NEW o \in Procs, NEW k \in 1..2, CallHas(o, k, c, d) PROVE o = p /\ k = n
      <4>1. \A x, y \in Procs, u, v \in 1..2 :
              CallHas(x, u, c, d) /\ CallHas(y, v, c, d) => x = y /\ u = v
        BY <1>0, <3>1 DEF EndsHeld
      <4> QED BY <2>3, <3>1, <3>3, <4>1
    <3> QED BY <2>4, <3>1, <3>2, <3>3
  <2>7. ASSUME NEW q \in Pipes, NEW wr \in BOOLEAN, q # c \/ wr # d
        PROVE  \A o \in Procs, k \in 1..2 : CallHas(o, k, q, wr)' <=> CallHas(o, k, q, wr)
    BY <2>4, <2>5, <2>7
  <2> QED BY <1>0, <1>2, <2>1, <2>5, <2>6, <2>7 DEF EndsHeld
<1>16. \A g \in FIds : FileSound(g)'
  BY <1>0, <1>4 DEF FileSound
<1> QED BY <1>8, <1>11, <1>13, <1>14, <1>15, <1>16 DEF FilesInv

----------------------------------------------------------------------------
(* open and unlink *)

LEMMA OpenKeeps ==
  ASSUME FilesInv, NEW p \in Procs, Open(p)
  PROVE  FilesInv'
<1>0. Typed /\ FilesCounted /\ InodesCounted /\ EndsHeld /\ \A g \in FIds : FileSound(g)
  BY DEF FilesInv
<1>1. PICK i \in Inums :
        /\ nlink[i] = 1 \/ i \notin used
        /\ used' = used \union {i}
        /\ iref' = [iref EXCEPT ![i] = @ + 1] /\ nlink' = [nlink EXCEPT ![i] = 1]
        /\ cur' = [cur EXCEPT ![p].ip = i]
  BY DEF Open
<1>2. pc[p] = "user" /\ todo[p] = <<>> /\ NoLock(p)
  BY NoLockAt DEF Open, Call, At
<1>3. /\ bitmap' = bitmap /\ data' = data /\ addrs' = addrs /\ size' = size /\ grown' = grown
      /\ ofile' = ofile /\ file' = file /\ ends' = ends /\ panic' = panic /\ lock' = lock
      /\ todo' = todo
  BY DEF Open, blockvars, filevars
<1>4. pc' \in [Procs -> Labels] /\ pc'[p] = "opening" /\ \A q \in Procs : q # p => pc'[q] = pc[q]
  BY <1>0, LabelsType DEF Open, Goto, Labels
<1>5. /\ cur' \in [Procs -> Locals] /\ cur'[p].ip = i /\ \A q \in Procs : q # p => cur'[q] = cur[q]
  <2>1. cur \in [Procs -> Locals]
    BY <1>0 DEF Typed, TypeOK
  <2> QED BY <1>1, <2>1 DEF Locals
<1>6. /\ iref' \in [Inums -> Nat] /\ iref'[i] = iref[i] + 1 /\ \A j \in Inums : j # i => iref'[j] = iref[j]
      /\ nlink' \in [Inums -> 0..1] /\ \A j \in Inums : j # i => nlink'[j] = nlink[j]
      /\ used' \subseteq Inums
  <2>1. iref \in [Inums -> Nat] /\ nlink \in [Inums -> 0..1] /\ used \subseteq Inums
    BY <1>0 DEF Typed, TypeOK
  <2> QED BY <1>1, <2>1
<1>7. Typed'
  BY <1>0, <1>3, <1>4, <1>5, <1>6 DEF Typed, TypeOK, Labels, Indirect, IsData
<1>8. Apart(p)
  BY <1>1, <1>3, <1>4, <1>5, PutsInUsed DEF Apart, Only
<1>9. Shape(p)'
  <2>1. \A k \in 1..2 : Item(p, k)' = <<"none", 0>>
    BY <1>2, <1>3, NoItems DEF Item, ItemOf
  <2> QED BY <1>1, <1>2, <1>3, <1>4, <1>5, <2>1 DEF Shape
<1>10. \A q \in Procs : Shape(q)'
  BY <1>8, <1>9, OthersKeep
<1>11. ASSUME NEW j \in Inums, Truncating(j) PROVE j # i
  BY <1>1, <1>11, TruncatingFacts
<1>12. Calm
  <2>1. lock \in [Inums -> Procs \union {NoProc}]
    BY <1>0 DEF Typed, TypeOK
  <2>2. used \subseteq used' /\ \A j \in Inums : j \notin used' => nlink'[j] = nlink[j]
    BY <1>1, <1>6
  <2>3. \A j \in Inums : Truncating(j) => iref'[j] = iref[j] /\ nlink'[j] = nlink[j]
    BY <1>6, <1>11
  <2>4. \A q \in Procs : pc'[q] = "writei" => pc[q] = "writei"
    BY <1>4
  <2> QED BY <1>2, <1>3, <1>4, <1>5, <2>1, <2>2, <2>3, <2>4 DEF NoLock, Calm
<1>13. Owned' /\ Contents' /\ \A j \in Inums : Locked(j)' /\ FreeInode(j)'
  BY <1>12, CalmKeeps
<1>14. (\A f \in FIds : FileSound(f)') /\ EndsHeld'
  BY <1>0, <1>1, <1>3, EndsKeep DEF FileSound
<1>15. ASSUME NEW q \in Procs
       PROVE  /\ \A x \in FilePlaces : FileAt(q, x)' = FileAt(q, x)
              /\ q # p => \A x \in InodePlaces : InodeAt(q, x)' = InodeAt(q, x)
              /\ q = p => \A k \in 1..2 : InodeAt(q, <<"todo", k>>)' = InodeAt(q, <<"todo", k>>)
  <2>1. \A x \in FilePlaces : FileAt(q, x)' = FileAt(q, x)
    BY <1>2, <1>3, <1>4, <1>5 DEF FileAt, Item, FilePlaces
  <2>2. q # p => \A x \in InodePlaces : InodeAt(q, x)' = InodeAt(q, x)
    BY <1>3, <1>4, <1>5 DEF InodeAt, Item
  <2>3. \A k \in 1..2 : InodeAt(q, <<"todo", k>>)' = InodeAt(q, <<"todo", k>>)
    BY <1>3 DEF InodeAt, Item
  <2> QED BY <2>1, <2>2, <2>3
<1>16. FilesCounted'
  <2>1. \A f : Holders(f)' = Holders(f)
    BY <1>15 DEF Holders
  <2> QED BY <1>0, <1>3, <2>1, CountedAs
<1>17. ASSUME NEW j \in Inums PROVE iref'[j] = Cardinality(OpenOn(j)') + Cardinality(Callers(j)')
  <2>1. iref[j] = Cardinality(OpenOn(j)) + Cardinality(Callers(j)) /\ Same(NoInode, j) = 0
    BY <1>0, InodesAs, SameType, Constants
  <2>2. OpenOn(j)' = OpenOn(j) /\ Cardinality(OpenOn(j)) \in Nat
    BY <1>3, HoldersFinite, CountMembers DEF OpenOn
  <2>3. /\ Cardinality(Callers(j)) \in Nat
        /\ Cardinality(Callers(j)') =
             Cardinality(Callers(j)) + Same(InodeAt(p, <<"todo", 1>>)', j)
               + Same(InodeAt(p, <<"todo", 2>>)', j) + Same(InodeAt(p, <<"open", 0>>)', j)
               - (Same(InodeAt(p, <<"todo", 1>>), j) + Same(InodeAt(p, <<"todo", 2>>), j)
                    + Same(InodeAt(p, <<"open", 0>>), j))
    BY <1>15, CallersThree
  <2>4. InodeAt(p, <<"open", 0>>) = NoInode /\ InodeAt(p, <<"open", 0>>)' = i
    BY <1>2, <1>4, <1>5, FileAtFacts, FileAtFacts2
  <2>5. /\ InodeAt(p, <<"todo", 1>>)' = InodeAt(p, <<"todo", 1>>)
        /\ InodeAt(p, <<"todo", 2>>)' = InodeAt(p, <<"todo", 2>>)
    BY <1>15
  <2>6. Cardinality(Callers(j)') = Cardinality(Callers(j)) + Same(i, j)
    BY <2>1, <2>3, <2>4, <2>5, SameType
  <2>7. iref'[j] = iref[j] + Same(i, j)
    BY <1>6, <2>1, <2>2, <2>3 DEF Same
  <2> QED BY <2>1, <2>2, <2>3, <2>6, <2>7, SameType
<1>18. InodesCounted'
  BY <1>17, InodesAs
<1> QED BY <1>7, <1>10, <1>13, <1>14, <1>16, <1>18 DEF FilesInv

LEMMA UnlinkKeeps ==
  ASSUME FilesInv, NEW p \in Procs, Unlink(p)
  PROVE  FilesInv'
<1>0. Typed /\ FilesCounted /\ InodesCounted /\ EndsHeld /\ \A g \in FIds : FileSound(g)
  BY DEF FilesInv
<1>1. PICK i \in Inums :
        /\ nlink[i] = 1
        /\ nlink' = [nlink EXCEPT ![i] = 0] /\ iref' = [iref EXCEPT ![i] = @ + 1]
        /\ Leave(p, "leaving", <<<<"put", i>>>>)
  BY DEF Unlink
<1> DEFINE z == <<"put", i>>
<1>2. pc[p] = "user" /\ todo[p] = <<>> /\ NoLock(p) /\ cur[p] = Idle
  BY NoLockAt, CurIdle DEF Unlink, Call, At
<1>3. /\ bitmap' = bitmap /\ data' = data /\ addrs' = addrs /\ size' = size /\ grown' = grown
      /\ ofile' = ofile /\ file' = file /\ ends' = ends /\ panic' = panic /\ lock' = lock
      /\ used' = used /\ cur' = cur
  BY DEF Unlink, blockvars, filevars
<1>4. pc' \in [Procs -> Labels] /\ pc'[p] = "leaving" /\ \A q \in Procs : q # p => pc'[q] = pc[q]
  BY <1>0, <1>1, LabelsType DEF Leave, Goto, Labels
<1>5. /\ iref' \in [Inums -> Nat] /\ iref'[i] = iref[i] + 1 /\ \A j \in Inums : j # i => iref'[j] = iref[j]
      /\ nlink' \in [Inums -> 0..1] /\ \A j \in Inums : j # i => nlink'[j] = nlink[j]
      /\ i \in used
  <2>1. FreeInode(i)
    BY DEF FilesInv
  <2>2. iref \in [Inums -> Nat] /\ nlink \in [Inums -> 0..1]
    BY <1>0 DEF Typed, TypeOK
  <2> QED BY <1>1, <2>1, <2>2 DEF FreeInode
<1>6. z \in Items /\ Closes(z) = 0 /\ Puts(z) = i
  BY DEF Items, Closes, Puts
<1>7. /\ todo' \in [Procs -> Todos] /\ todo'[p] = <<z>> /\ \A q \in Procs : q # p => todo'[q] = todo[q]
  <2>1. todo \in [Procs -> Todos] /\ <<z>> \in Todos
    BY <1>0, <1>6 DEF Typed, Todos
  <2>2. todo' = [todo EXCEPT ![p] = <<z>>]
    BY <1>1 DEF Leave
  <2> HIDE DEF z
  <2> QED BY <2>1, <2>2
<1> HIDE DEF z
<1>8. ItemBecomes(p, 1, z)
  <2>1. ASSUME NEW k \in 1..2 PROVE ItemOf(todo'[p], k) = IF k = 1 THEN z ELSE ItemOf(todo[p], k)
    BY <1>2, <1>7, NoItems, OneItem
  <2> QED BY <1>2, <1>3, <1>4, <1>7, <2>1 DEF ItemBecomes, Only
<1>9. Typed'
  BY <1>0, <1>3, <1>4, <1>5, <1>7 DEF Typed, TypeOK, Labels, Indirect, IsData
<1>10. Apart(p)
  BY <1>1, <1>3, <1>4, <1>7, PutsInUsed DEF Apart, Only
<1>11. Shape(p)'
  <2>1. z[1] = "put" => z[2] \in used
    BY <1>5 DEF z
  <2>2. \A k \in 1..2 : ItemOf(todo'[p], k)[1] = "put" => ItemOf(todo'[p], k)[2] \in used'
    BY <1>3, <1>8, <2>1, PutsInUsed DEF ItemBecomes
  <2> QED BY <1>2, <1>3, <1>4, <2>2, ShapeLeaving
<1>12. \A q \in Procs : Shape(q)'
  BY <1>10, <1>11, OthersKeep
<1>13. ASSUME NEW j \in Inums, Truncating(j) PROVE j # i
  BY <1>1, <1>13, TruncatingFacts
<1>14. Calm
  BY <1>0, <1>2, <1>3, <1>4, <1>5, <1>7, <1>13 DEF NoLock, Calm, Typed, TypeOK
<1>15. Owned' /\ Contents' /\ \A j \in Inums : Locked(j)' /\ FreeInode(j)'
  BY <1>14, CalmKeeps
<1>16. (\A f \in FIds : FileSound(f)') /\ EndsHeld'
  <2>1. \A k \in 1..2 : Ends(ItemOf(todo'[p], k)) = Ends(ItemOf(todo[p], k))
    <3>1. Ends(z) = <<"none", 0>>
      BY NoEnds DEF z
    <3> QED BY <1>2, <1>7, <3>1, NewItems
  <2>2. EndsHeld'
    BY <1>0, <1>3, <1>7, <2>1, EndsKeep
  <2> QED BY <1>0, <1>3, <2>2 DEF FileSound
<1>17. /\ \A g : /\ Cardinality(Holders(g)) \in Nat
                 /\ Cardinality(Holders(g)') = Cardinality(Holders(g)) + Same(0, g) - Same(0, g)
       /\ \A j : /\ Cardinality(Callers(j)) \in Nat
                 /\ Cardinality(Callers(j)') = Cardinality(Callers(j)) + Same(i, j) - Same(NoInode, j)
  <2>1. Closes(ItemOf(todo[p], 1)) = 0 /\ Puts(ItemOf(todo[p], 1)) = NoInode
    BY <1>2, NoItems, ItemsDistinct
  <2>2. /\ \A f : /\ Cardinality(Holders(f)) \in Nat
                   /\ Cardinality(Holders(f)') = Cardinality(Holders(f)) + Same(Closes(z), f)
                                                   - Same(Closes(ItemOf(todo[p], 1)), f)
         /\ \A j : /\ Cardinality(Callers(j)) \in Nat
                   /\ Cardinality(Callers(j)') = Cardinality(Callers(j)) + Same(Puts(z), j)
                                                   - Same(Puts(ItemOf(todo[p], 1)), j)
    BY <1>8, ItemChange
  <2> QED BY <1>6, <2>1, <2>2
<1>18. FilesCounted'
  BY <1>0, <1>3, <1>17, CountedAs, SameType
<1>19. ASSUME NEW j \in Inums PROVE iref'[j] = Cardinality(OpenOn(j)') + Cardinality(Callers(j)')
  <2>1. iref[j] = Cardinality(OpenOn(j)) + Cardinality(Callers(j)) /\ Same(NoInode, j) = 0
    BY <1>0, InodesAs, SameType, Constants
  <2>2. OpenOn(j)' = OpenOn(j) /\ Cardinality(OpenOn(j)) \in Nat
    BY <1>3, HoldersFinite, CountMembers DEF OpenOn
  <2>3. iref'[j] = iref[j] + Same(i, j)
    BY <1>5, <1>17, <2>1, <2>2 DEF Same
  <2> QED BY <1>17, <2>1, <2>2, <2>3, SameType
<1>20. InodesCounted'
  BY <1>19, InodesAs
<1> QED BY <1>9, <1>12, <1>15, <1>16, <1>18, <1>20 DEF FilesInv

----------------------------------------------------------------------------
(* Calls that pass references to file structures on *)

LEMMA OnlyAt ==
  ASSUME NEW p \in Procs, Only(p), NEW q \in Procs, q # p
  PROVE  /\ \A x \in FilePlaces : FileAt(q, x)' = FileAt(q, x)
         /\ \A x \in InodePlaces : InodeAt(q, x)' = InodeAt(q, x)
<1>1. pc'[q] = pc[q] /\ cur'[q] = cur[q] /\ todo'[q] = todo[q] /\ ofile'[q] = ofile[q]
  BY DEF Only
<1>2. ASSUME NEW x PROVE FileAt(q, x)' = FileAt(q, x)
  BY <1>1 DEF FileAt, Item
<1>3. ASSUME NEW x PROVE InodeAt(q, x)' = InodeAt(q, x)
  BY <1>1 DEF InodeAt, Item
<1> QED BY <1>2, <1>3

\* A step of p that changes no more of the file structures than ref.
Passes(p) ==
  /\ UNCHANGED <<blockvars, ends, inodevars, panic, grown>> /\ Only(p) /\ NoLock(p)
  /\ pc' \in [Procs -> Labels] /\ cur' \in [Procs -> Locals] /\ todo' \in [Procs -> Todos]
  /\ ofile' \in [Procs -> [FDs -> 0..NFILE]] /\ file' \in [FIds -> FileRecs]
  /\ pc'[p] # "writei"
  /\ \A k \in 1..2 : Ends(ItemOf(todo'[p], k)) = Ends(ItemOf(todo[p], k))
  /\ \A g \in FIds : /\ file'[g].type = file[g].type /\ file'[g].ip = file[g].ip
                     /\ file'[g].off = file[g].off /\ file'[g].writable = file[g].writable
                     /\ file'[g].ref = 0 => file'[g] = NoFile
  /\ \A q \in Procs : q # p /\ pc[q] = "piping" => file'[cur[q].f] = file[cur[q].f]
  /\ \A g \in FIds : file'[g].ref - file[g].ref = Cardinality(Holders(g)') - Cardinality(Holders(g))
  /\ \A i \in Inums : Cardinality(Callers(i)') = Cardinality(Callers(i))

LEMMA PassesKeeps ==
  ASSUME FilesInv, NEW p \in Procs, Passes(p), Shape(p)'
  PROVE  FilesInv'
<1>0. Typed /\ FilesCounted /\ InodesCounted /\ EndsHeld /\ \A g \in FIds : FileSound(g)
  BY DEF FilesInv
<1>1. /\ bitmap' = bitmap /\ data' = data /\ addrs' = addrs /\ size' = size /\ grown' = grown
      /\ ends' = ends /\ panic' = panic
      /\ used' = used /\ iref' = iref /\ nlink' = nlink /\ lock' = lock
  BY DEF Passes, blockvars, inodevars
<1>2. Typed'
  <2>1. \A g \in FIds : file'[g].type = "inode" => file'[g].off <= size'[file'[g].ip]
    <3>1. \A g \in FIds : file[g].type = "inode" => file[g].off <= size[file[g].ip]
      BY <1>0 DEF Typed, TypeOK
    <3> QED BY <1>1, <3>1 DEF Passes
  <2> QED BY <1>0, <1>1, <2>1 DEF Typed, TypeOK, Passes, Labels, Indirect, IsData
<1>3. Apart(p)
  <2>1. ASSUME NEW q \in Procs, q # p, pc[q] \in {"write", "writei"}
        PROVE  /\ file'[cur[q].f].type = file[cur[q].f].type
               /\ file'[cur[q].f].ip = file[cur[q].f].ip
               /\ file'[cur[q].f].off = file[cur[q].f].off
    BY <2>1, ShapeFacts DEF Passes
  <2>2. \A q \in Procs : q # p /\ pc[q] = "piping" => file'[cur[q].f] = file[cur[q].f]
    BY DEF Passes
  <2>3. Only(p)
    BY DEF Passes
  <2> QED BY <1>1, <2>1, <2>2, <2>3, PutsInUsed DEF Apart
<1>4. \A q \in Procs : Shape(q)'
  BY <1>3, OthersKeep
<1>5. Calm
  <2>1. Only(p) /\ NoLock(p) /\ pc'[p] # "writei"
    BY DEF Passes
  <2> QED BY <1>0, <1>1, <2>1, NoLockCalm
<1>6. Owned' /\ Contents' /\ \A i \in Inums : Locked(i)' /\ FreeInode(i)'
  BY <1>5, CalmKeeps
<1>7. (\A f \in FIds : FileSound(f)') /\ EndsHeld'
  <2>1. \A g \in FIds : /\ file'[g].type = file[g].type /\ file'[g].ip = file[g].ip
                        /\ file'[g].writable = file[g].writable
                        /\ file'[g].ref = 0 => file'[g] = NoFile
    BY DEF Passes
  <2>2. \A q \in Procs, k \in 1..2 : Ends(ItemOf(todo'[q], k)) = Ends(ItemOf(todo[q], k))
    BY DEF Passes, Only
  <2>3. EndsHeld'
    BY <1>0, <1>1, <2>1, <2>2, EndsKeep
  <2> QED BY <1>0, <1>1, <2>1, <2>3 DEF FileSound
<1>8. FilesCounted'
  <2>1. ASSUME NEW g \in FIds PROVE file'[g].ref = Cardinality(Holders(g)')
    <3>1. file[g].ref = Cardinality(Holders(g)) /\ file'[g].ref \in Nat
      BY <1>0, CountedAs DEF Passes, FileRecs
    <3>2. Holders(g)' \subseteq Procs \X FilePlaces /\ IsFiniteSet(Holders(g))
      BY HoldersFinite DEF Holders
    <3>3. IsFiniteSet(Holders(g)')
      BY <3>2, PlacesFinite, FS_Subset
    <3>4. Cardinality(Holders(g)) \in Nat /\ Cardinality(Holders(g)') \in Nat
      BY <3>2, <3>3, FS_CardinalityType
    <3>5. file'[g].ref - file[g].ref = Cardinality(Holders(g)') - Cardinality(Holders(g))
      BY DEF Passes
    <3> QED BY <3>1, <3>4, <3>5
  <2> QED BY <2>1, CountedAs
<1>9. InodesCounted'
  <2>2. \A i : OpenOn(i)' = OpenOn(i)
    BY DEF OpenOn, Passes
  <2>3. \A i \in Inums : Cardinality(Callers(i)') = Cardinality(Callers(i))
    BY DEF Passes
  <2> QED BY <1>0, <1>1, <2>2, <2>3, InodesAs
<1> QED BY <1>2, <1>4, <1>6, <1>7, <1>8, <1>9 DEF FilesInv

\* close, and one turn of exit's loop: the descriptor's reference is now the
\* call's.
ClosesFd(p, d) ==
  /\ UNCHANGED <<blockvars, file, ends, inodevars, cur, panic, grown>>
  /\ d \in FDs /\ ofile[p][d] # 0 /\ ofile' = [ofile EXCEPT ![p][d] = 0]
  /\ pc[p] \in {"user", "exiting"} /\ todo[p] = <<>> /\ NoLock(p)
  /\ \E l \in {"leaving", "exiting"} : pc' = [pc EXCEPT ![p] = l]
  /\ todo' = [todo EXCEPT ![p] = <<<<"close", ofile[p][d]>>>>]

LEMMA ClosesFdKeeps ==
  ASSUME FilesInv, NEW p \in Procs, NEW d, ClosesFd(p, d)
  PROVE  FilesInv'
<1> DEFINE f == ofile[p][d]
           z == <<"close", f>>
<1>0. Typed
  BY DEF FilesInv
<1>1. f \in FIds /\ d \in FDs
  BY <1>0, Types, Constants DEF ClosesFd
<1>2. pc[p] \in {"user", "exiting"} /\ todo[p] = <<>> /\ NoLock(p) /\ cur[p] = Idle
  BY CurIdle DEF ClosesFd
<1>3. pc' \in [Procs -> Labels] /\ pc'[p] \in {"leaving", "exiting"} /\ \A q \in Procs : q # p => pc'[q] = pc[q]
  BY <1>0, LabelsType DEF ClosesFd, Labels
<1>4. z \in Items /\ Closes(z) = f /\ Puts(z) = NoInode
  BY <1>1 DEF Items, Closes, Puts
<1>5. /\ todo' \in [Procs -> Todos] /\ todo'[p] = <<z>> /\ \A q \in Procs : q # p => todo'[q] = todo[q]
  <2>1. todo \in [Procs -> Todos] /\ <<z>> \in Todos
    BY <1>0, <1>4 DEF Typed, Todos
  <2>2. todo' = [todo EXCEPT ![p] = <<z>>]
    BY DEF ClosesFd
  <2> HIDE DEF z
  <2> QED BY <2>1, <2>2
<1>6. /\ ofile' \in [Procs -> [FDs -> 0..NFILE]] /\ ofile'[p][d] = 0
      /\ \A e \in FDs : e # d => ofile'[p][e] = ofile[p][e]
      /\ \A q \in Procs : q # p => ofile'[q] = ofile[q]
  <2>0. 0 \in 0..NFILE
    BY FilesAssumption
  <2>1. ofile \in [Procs -> [FDs -> 0..NFILE]]
    BY <1>0 DEF Typed, TypeOK
  <2>2. ofile' = [ofile EXCEPT ![p][d] = 0]
    BY DEF ClosesFd
  <2> QED BY <1>1, <2>0, <2>1, <2>2
<1>7. file' = file /\ cur' = cur /\ used' = used
  BY DEF ClosesFd, inodevars
<1>8. Only(p)
  BY <1>3, <1>5, <1>6, <1>7 DEF Only
<1> HIDE DEF z
<1>9. /\ FileAt(p, <<"fd", d>>) = f /\ FileAt(p, <<"fd", d>>)' = 0
      /\ \A e \in FDs : e # d => FileAt(p, <<"fd", e>>)' = FileAt(p, <<"fd", e>>)
  <2>1. \A e : FileAt(p, <<"fd", e>>) = ofile[p][e]
    BY FileAtFacts
  <2>2. \A e : FileAt(p, <<"fd", e>>)' = ofile'[p][e]
    BY FileAtFacts2
  <2> QED BY <1>6, <2>1, <2>2
<1>10. /\ FileAt(p, <<"todo", 1>>) = 0 /\ FileAt(p, <<"todo", 1>>)' = f
       /\ FileAt(p, <<"todo", 2>>) = 0 /\ FileAt(p, <<"todo", 2>>)' = 0
       /\ InodeAt(p, <<"todo", 1>>) = NoInode /\ InodeAt(p, <<"todo", 1>>)' = NoInode
       /\ InodeAt(p, <<"todo", 2>>) = NoInode /\ InodeAt(p, <<"todo", 2>>)' = NoInode
  <2>1. ASSUME NEW k \in 1..2
        PROVE  FileAt(p, <<"todo", k>>) = 0 /\ InodeAt(p, <<"todo", k>>) = NoInode
    <3>1. /\ FileAt(p, <<"todo", k>>) = Closes(ItemOf(todo[p], k))
          /\ InodeAt(p, <<"todo", k>>) = Puts(ItemOf(todo[p], k))
      BY FileAtFacts
    <3> QED BY <1>2, <3>1, NoItems, ItemsDistinct
  <2>2. \A k \in 1..2 : /\ FileAt(p, <<"todo", k>>)' = Closes(ItemOf(<<z>>, k))
                        /\ InodeAt(p, <<"todo", k>>)' = Puts(ItemOf(<<z>>, k))
    BY <1>5, FileAtFacts2
  <2>3. ItemOf(<<z>>, 1) = z /\ ItemOf(<<z>>, 2) = <<"none", 0>>
    BY OneItem
  <2> QED BY <1>4, <2>1, <2>2, <2>3, ItemsDistinct
<1>11. /\ FileAt(p, <<"pipe", 0>>) = 0 /\ FileAt(p, <<"pipe", 0>>)' = 0
       /\ InodeAt(p, <<"open", 0>>) = NoInode /\ InodeAt(p, <<"open", 0>>)' = NoInode
  BY <1>2, <1>3, FileAtFacts, FileAtFacts2
<1>12. AtMost(p, <<"fd", d>>, <<"todo", 1>>, <<"todo", 2>>)
  <2>1. \A w \in FilePlaces : w # <<"fd", d>> /\ w # <<"todo", 1>> /\ w # <<"todo", 2>>
                              => FileAt(p, w)' = FileAt(p, w)
    BY <1>9, <1>11, PlaceFacts
  <2> QED BY <1>8, <2>1, OnlyAt DEF AtMost
<1>13. /\ <<"fd", d>> \in FilePlaces /\ <<"todo", 1>> \in FilePlaces /\ <<"todo", 2>> \in FilePlaces
       /\ <<"fd", d>> # <<"todo", 1>> /\ <<"fd", d>> # <<"todo", 2>> /\ <<"todo", 1>> # <<"todo", 2>>
  BY <1>1, PlaceFacts
<1>14. ASSUME NEW g PROVE Cardinality(Holders(g)') - Cardinality(Holders(g)) = 0
  <2>1. /\ Cardinality(Holders(g)) \in Nat
        /\ Cardinality(Holders(g)') =
              Cardinality(Holders(g)) + Same(FileAt(p, <<"fd", d>>)', g) + Same(FileAt(p, <<"todo", 1>>)', g)
                + Same(FileAt(p, <<"todo", 2>>)', g)
                - (Same(FileAt(p, <<"fd", d>>), g) + Same(FileAt(p, <<"todo", 1>>), g)
                     + Same(FileAt(p, <<"todo", 2>>), g))
    BY <1>12, <1>13, HoldersThree
  <2> QED BY <1>9, <1>10, <2>1, SameType
<1>15. ASSUME NEW i PROVE Cardinality(Callers(i)') = Cardinality(Callers(i))
  <2>1. \A w \in InodePlaces : InodeAt(p, w)' = InodeAt(p, w)
    BY <1>10, <1>11 DEF InodePlaces
  <2>2. Callers(i)' = Callers(i)
    BY <1>8, <2>1, OnlyAt DEF Callers
  <2> QED BY <2>2
<1>16. Shape(p)'
  <2>1. z[1] # "put"
    BY DEF z
  <2>2. \A k \in 1..2 : ItemOf(todo'[p], k)[1] = "put" => ItemOf(todo'[p], k)[2] \in used'
    BY <1>5, <2>1, OneItem
  <2> QED BY <1>2, <1>3, <1>7, <2>2, ShapeLeaving
<1>17. Passes(p)
  <2>1. \A g \in FIds : file[g].ref \in Nat /\ (file[g].ref = 0 => file[g] = NoFile)
    BY <1>0, FileType DEF FilesInv, FileSound
  <2>2. \A g \in FIds : file'[g].ref - file[g].ref = Cardinality(Holders(g)') - Cardinality(Holders(g))
    BY <1>7, <1>14, <2>1
  <2>3. file' \in [FIds -> FileRecs] /\ cur' \in [Procs -> Locals]
    BY <1>0, <1>7 DEF Typed, TypeOK
  <2>4. UNCHANGED <<blockvars, ends, inodevars, panic, grown>>
    BY DEF ClosesFd
  <2>5. \A k \in 1..2 : Ends(ItemOf(todo'[p], k)) = Ends(ItemOf(todo[p], k))
    <3>1. Ends(z) = <<"none", 0>>
      BY NoEnds DEF z
    <3> QED BY <1>2, <1>5, <3>1, NewItems
  <2> QED BY <1>2, <1>3, <1>5, <1>6, <1>7, <1>8, <1>15, <2>1, <2>2, <2>3, <2>4, <2>5 DEF Passes
<1> QED BY <1>16, <1>17, PassesKeeps

LEMMA CloseKeeps ==
  ASSUME FilesInv, NEW p \in Procs, Close(p) \/ ExitClose(p)
  PROVE  FilesInv'
<1>1. NoLock(p)
  BY NoLockAt DEF Close, ExitClose, Call, At
<1>2. PICK d \in FDs \ FreeFds(p) : ClosesFd(p, d)
  BY <1>1 DEF Close, ExitClose, Call, At, Leave, Goto, ClosesFd, FreeFds
<1> QED BY <1>2, ClosesFdKeeps

LEMMA EmptyAt ==
  ASSUME NEW p, todo[p] = <<>>
  PROVE  /\ FileAt(p, <<"todo", 1>>) = 0 /\ FileAt(p, <<"todo", 2>>) = 0
         /\ InodeAt(p, <<"todo", 1>>) = NoInode /\ InodeAt(p, <<"todo", 2>>) = NoInode
<1>1. ASSUME NEW k \in 1..2
      PROVE  FileAt(p, <<"todo", k>>) = 0 /\ InodeAt(p, <<"todo", k>>) = NoInode
  <2>1. /\ FileAt(p, <<"todo", k>>) = Closes(ItemOf(todo[p], k))
        /\ InodeAt(p, <<"todo", k>>) = Puts(ItemOf(todo[p], k))
    BY FileAtFacts
  <2> QED BY <2>1, NoItems, ItemsDistinct
<1> QED BY <1>1

LEMMA EmptyAt2 ==
  ASSUME NEW p, todo'[p] = <<>>
  PROVE  /\ FileAt(p, <<"todo", 1>>)' = 0 /\ FileAt(p, <<"todo", 2>>)' = 0
         /\ InodeAt(p, <<"todo", 1>>)' = NoInode /\ InodeAt(p, <<"todo", 2>>)' = NoInode
<1>1. ASSUME NEW k \in 1..2
      PROVE  FileAt(p, <<"todo", k>>)' = 0 /\ InodeAt(p, <<"todo", k>>)' = NoInode
  <2>1. /\ FileAt(p, <<"todo", k>>)' = Closes(ItemOf(todo'[p], k))
        /\ InodeAt(p, <<"todo", k>>)' = Puts(ItemOf(todo'[p], k))
    BY FileAtFacts2
  <2> QED BY <2>1, NoItems, ItemsDistinct
<1> QED BY <1>1

LEMMA OneAt2 ==
  ASSUME NEW p, NEW z, todo'[p] = <<z>>
  PROVE  /\ FileAt(p, <<"todo", 1>>)' = Closes(z) /\ FileAt(p, <<"todo", 2>>)' = 0
         /\ InodeAt(p, <<"todo", 1>>)' = Puts(z) /\ InodeAt(p, <<"todo", 2>>)' = NoInode
         /\ \A k \in 1..2 : ItemOf(todo'[p], k) \in {z, <<"none", 0>>}
<1>1. ASSUME NEW k \in 1..2
      PROVE  /\ FileAt(p, <<"todo", k>>)' = Closes(ItemOf(<<z>>, k))
             /\ InodeAt(p, <<"todo", k>>)' = Puts(ItemOf(<<z>>, k))
  BY FileAtFacts2
<1>2. ItemOf(<<z>>, 1) = z /\ ItemOf(<<z>>, 2) = <<"none", 0>>
  BY OneItem
<1>3. \A k \in 1..2 : ItemOf(todo'[p], k) \in {z, <<"none", 0>>}
  BY <1>2
<1> QED BY <1>1, <1>2, <1>3, ItemsDistinct

LEMMA TwoAt2 ==
  ASSUME NEW p, NEW y, NEW z, todo'[p] = <<y, z>>
  PROVE  /\ FileAt(p, <<"todo", 1>>)' = Closes(z) /\ FileAt(p, <<"todo", 2>>)' = Closes(y)
         /\ InodeAt(p, <<"todo", 1>>)' = Puts(z) /\ InodeAt(p, <<"todo", 2>>)' = Puts(y)
         /\ \A k \in 1..2 : ItemOf(todo'[p], k) \in {y, z}
<1>1. ASSUME NEW k \in 1..2
      PROVE  /\ FileAt(p, <<"todo", k>>)' = Closes(ItemOf(<<y, z>>, k))
             /\ InodeAt(p, <<"todo", k>>)' = Puts(ItemOf(<<y, z>>, k))
  BY FileAtFacts2
<1>2. ItemOf(<<y, z>>, 1) = z /\ ItemOf(<<y, z>>, 2) = y
  BY TwoItems
<1>3. \A k \in 1..2 : ItemOf(todo'[p], k) \in {y, z}
  BY <1>2
<1> QED BY <1>1, <1>2, <1>3

\* filealloc and fdalloc take what is free.
LEMMA FreeMin ==
  ASSUME FilesInv
  PROVE  /\ FreeFiles # {} => /\ Min(FreeFiles) \in FIds /\ file[Min(FreeFiles)] = NoFile
                              /\ file[Min(FreeFiles)].ref = 0
         /\ \A p \in Procs : FreeFds(p) # {} => /\ Min(FreeFds(p)) \in FDs
                                               /\ ofile[p][Min(FreeFds(p))] = 0
<1>1. FreeFiles \in SUBSET Nat
  BY Constants DEF FreeFiles
<1>2. FreeFiles # {} => Min(FreeFiles) \in FreeFiles
  BY <1>1, MinNat
<1>3. \A p : FreeFds(p) \in SUBSET Nat
  BY Constants DEF FreeFds
<1>4. \A p : FreeFds(p) # {} => Min(FreeFds(p)) \in FreeFds(p)
  BY <1>3, MinNat
<1>5. \A f \in FIds : file[f].ref = 0 => file[f] = NoFile
  BY DEF FilesInv, FileSound
<1> QED BY <1>2, <1>4, <1>5 DEF FreeFiles, FreeFds

\* The file structure of another's pipe call.
LEMMA PipingKept ==
  ASSUME FilesInv, NEW p \in Procs, NEW f \in FIds,
         \A g \in FIds : g # f => file'[g] = file[g],
         file[f].ref = 0 \/ \E x \in FilePlaces : FileAt(p, x) = f
  PROVE  \A q \in Procs : q # p /\ pc[q] = "piping" => file'[cur[q].f] = file[cur[q].f]
<1>1. ASSUME NEW q \in Procs, q # p, pc[q] = "piping" PROVE cur[q].f \in FIds /\ cur[q].f # f
  <2>1. <<"pipe", 0>> \in FilePlaces
    BY PlaceFacts
  <2> QED BY <1>1, <2>1, OthersFiles
<1> QED BY <1>1

LEMMA DupKeeps ==
  ASSUME FilesInv, NEW p \in Procs, Dup(p)
  PROVE  FilesInv'
<1>0. Typed /\ FilesCounted
  BY DEF FilesInv
<1>1. pc[p] = "user" /\ todo[p] = <<>> /\ NoLock(p) /\ cur[p] = Idle
  BY NoLockAt, CurIdle DEF Dup, Call, At
<1>2. PICK d \in FDs : d = Min(FreeFds(p)) /\ ofile[p][d] = 0
  BY FreeMin DEF Dup
<1>3. PICK e \in FDs \ FreeFds(p) :
        /\ ofile' = [ofile EXCEPT ![p][d] = ofile[p][e]]
        /\ panic' = IF file[ofile[p][e]].ref < 1 THEN "filedup" ELSE panic
        /\ file' = [file EXCEPT ![ofile[p][e]].ref = @ + 1]
  BY <1>2 DEF Dup
<1> DEFINE f == ofile[p][e]
<1>4. f \in FIds /\ f \in 0..NFILE
  BY <1>0, Types, Constants DEF FreeFds
<1>5. FileAt(p, <<"fd", e>>) = f /\ <<"fd", e>> \in FilePlaces
  BY FileAtFacts, PlaceFacts
<1>6. file[f].ref >= 1
  BY <1>0, <1>4, <1>5, Held
<1>7. /\ pc' = pc /\ cur' = cur /\ todo' = todo /\ panic' = panic /\ used' = used
      /\ UNCHANGED <<blockvars, ends, inodevars, panic, grown>>
  <2>1. panic' = panic
    BY <1>0, <1>3, <1>4, <1>6, FileType
  <2> QED BY <2>1 DEF Dup, inodevars
<1>8. /\ ofile' \in [Procs -> [FDs -> 0..NFILE]] /\ ofile'[p][d] = f
      /\ \A c \in FDs : c # d => ofile'[p][c] = ofile[p][c]
      /\ \A q \in Procs : q # p => ofile'[q] = ofile[q]
  <2>1. ofile \in [Procs -> [FDs -> 0..NFILE]]
    BY <1>0 DEF Typed, TypeOK
  <2> QED BY <1>2, <1>3, <1>4, <2>1
<1>9. /\ file' \in [FIds -> FileRecs] /\ (\A g \in FIds : g # f => file'[g] = file[g])
      /\ file'[f].ref = file[f].ref + 1
      /\ \A g \in FIds : /\ file'[g].type = file[g].type /\ file'[g].ip = file[g].ip
                         /\ file'[g].off = file[g].off /\ file'[g].writable = file[g].writable
  <2>1. file \in [FIds -> FileRecs]
    BY <1>0 DEF Typed, TypeOK
  <2> QED BY <1>3, <1>4, <2>1 DEF FileRecs
<1> HIDE DEF f
<1>10. Only(p)
  BY <1>7, <1>8 DEF Only
<1>11. /\ FileAt(p, <<"fd", d>>) = 0 /\ FileAt(p, <<"fd", d>>)' = f
       /\ \A c \in FDs : c # d => FileAt(p, <<"fd", c>>)' = FileAt(p, <<"fd", c>>)
  <2>1. \A c : FileAt(p, <<"fd", c>>) = ofile[p][c]
    BY FileAtFacts
  <2>2. \A c : FileAt(p, <<"fd", c>>)' = ofile'[p][c]
    BY FileAtFacts2
  <2> QED BY <1>2, <1>8, <2>1, <2>2
<1>12. /\ FileAt(p, <<"todo", 1>>)' = FileAt(p, <<"todo", 1>>)
       /\ FileAt(p, <<"todo", 2>>)' = FileAt(p, <<"todo", 2>>)
       /\ FileAt(p, <<"pipe", 0>>)' = FileAt(p, <<"pipe", 0>>)
       /\ \A x \in InodePlaces : InodeAt(p, x)' = InodeAt(p, x)
  BY <1>7 DEF FileAt, InodeAt, Item
<1>13. AtMost(p, <<"fd", d>>, <<"todo", 1>>, <<"todo", 2>>)
  <2>1. \A w \in FilePlaces : w # <<"fd", d>> /\ w # <<"todo", 1>> /\ w # <<"todo", 2>>
                              => FileAt(p, w)' = FileAt(p, w)
    BY <1>11, <1>12, PlaceFacts
  <2> QED BY <1>10, <2>1, OnlyAt DEF AtMost
<1>14. /\ <<"fd", d>> \in FilePlaces /\ <<"todo", 1>> \in FilePlaces /\ <<"todo", 2>> \in FilePlaces
       /\ <<"fd", d>> # <<"todo", 1>> /\ <<"fd", d>> # <<"todo", 2>> /\ <<"todo", 1>> # <<"todo", 2>>
  BY <1>2, PlaceFacts
<1>15. ASSUME NEW g \in FIds
       PROVE  file'[g].ref - file[g].ref = Cardinality(Holders(g)') - Cardinality(Holders(g))
  <2>1. /\ Cardinality(Holders(g)) \in Nat
        /\ Cardinality(Holders(g)') =
              Cardinality(Holders(g)) + Same(FileAt(p, <<"fd", d>>)', g) + Same(FileAt(p, <<"todo", 1>>)', g)
                + Same(FileAt(p, <<"todo", 2>>)', g)
                - (Same(FileAt(p, <<"fd", d>>), g) + Same(FileAt(p, <<"todo", 1>>), g)
                     + Same(FileAt(p, <<"todo", 2>>), g))
    BY <1>13, <1>14, HoldersThree
  <2>2. Same(0, g) = 0
    BY SameType, Constants
  <2>3. Cardinality(Holders(g)') = Cardinality(Holders(g)) + Same(f, g)
    BY <1>11, <1>12, <2>1, <2>2, SameType
  <2>4. file[g].ref \in Nat
    BY <1>0, FileType
  <2>5. file'[g].ref = file[g].ref + Same(f, g)
    BY <1>9, <2>4 DEF Same
  <2> QED BY <2>1, <2>3, <2>4, <2>5, SameType
<1>16. ASSUME NEW i PROVE Cardinality(Callers(i)') = Cardinality(Callers(i))
  <2>1. Callers(i)' = Callers(i)
    BY <1>10, <1>12, OnlyAt DEF Callers
  <2> QED BY <2>1
<1>17. Shape(p)'
  BY <1>1, <1>7, ShapeUser
<1>18. Passes(p)
  <2>1. \A g \in FIds : file'[g].ref = 0 => file'[g] = NoFile
    <3>1. \A g \in FIds : file[g].ref \in Nat /\ (file[g].ref = 0 => file[g] = NoFile)
      BY <1>0, FileType DEF FilesInv, FileSound
    <3> QED BY <1>9, <3>1
  <2>2. pc' \in [Procs -> Labels] /\ cur' \in [Procs -> Locals] /\ todo' \in [Procs -> Todos]
    BY <1>0, <1>7, LabelsType DEF Typed, TypeOK
  <2>3. \A q \in Procs : q # p /\ pc[q] = "piping" => file'[cur[q].f] = file[cur[q].f]
    BY <1>4, <1>5, <1>9, PipingKept
  <2> QED BY <1>1, <1>7, <1>8, <1>9, <1>10, <1>15, <1>16, <2>1, <2>2, <2>3 DEF Passes
<1> QED BY <1>17, <1>18, PassesKeeps

LEMMA TakenFile ==
  ASSUME FilesInv, NEW f \in FIds, file[f] = NoFile, file' = [file EXCEPT ![f].ref = 1]
  PROVE  /\ file' \in [FIds -> FileRecs] /\ (\A g \in FIds : g # f => file'[g] = file[g])
         /\ file'[f] = [NoFile EXCEPT !.ref = 1] /\ file'[f].ref = 1 /\ file[f].ref = 0
         /\ \A g \in FIds : /\ file'[g].type = file[g].type /\ file'[g].ip = file[g].ip
                            /\ file'[g].off = file[g].off /\ file'[g].writable = file[g].writable
                            /\ file'[g].ref = 0 => file'[g] = NoFile
                            /\ file'[g].ref = file[g].ref + Same(f, g) /\ file[g].ref \in Nat
<1>1. file \in [FIds -> FileRecs] /\ \A g \in FIds : file[g].ref = 0 => file[g] = NoFile
  BY DEF FilesInv, Typed, TypeOK, FileSound
<1>2. /\ file' \in [FIds -> FileRecs] /\ (\A g \in FIds : g # f => file'[g] = file[g])
      /\ file'[f] = [NoFile EXCEPT !.ref = 1] /\ file'[f].ref = 1 /\ file[f].ref = 0
  <2>1. file'[f] = [file[f] EXCEPT !.ref = 1] /\ (\A g \in FIds : g # f => file'[g] = file[g])
        /\ file' = [g \in FIds |-> file'[g]]
    BY <1>1
  <2>2. [NoFile EXCEPT !.ref = 1] \in FileRecs /\ [NoFile EXCEPT !.ref = 1].ref = 1 /\ NoFile.ref = 0
    BY DEF FileRecs, NoFile
  <2>3. \A g \in FIds : file'[g] \in FileRecs
    BY <1>1, <2>1, <2>2
  <2> QED BY <2>1, <2>2, <2>3
<1>3. \A g \in FIds : /\ file'[g].type = file[g].type /\ file'[g].ip = file[g].ip
                      /\ file'[g].off = file[g].off /\ file'[g].writable = file[g].writable
                      /\ file'[g].ref = 0 => file'[g] = NoFile
  BY <1>1, <1>2 DEF FileRecs
<1>4. ASSUME NEW g \in FIds PROVE file'[g].ref = file[g].ref + Same(f, g) /\ file[g].ref \in Nat
  <2>1. file[g].ref \in Nat
    BY FileType DEF FilesInv
  <2> QED BY <1>2, <2>1 DEF Same
<1> QED BY <1>2, <1>3, <1>4

LEMMA PipeAllocKeeps ==
  ASSUME FilesInv, NEW p \in Procs, PipeAlloc(p)
  PROVE  FilesInv'
<1>0. Typed
  BY DEF FilesInv
<1>1. pc[p] = "user" /\ todo[p] = <<>> /\ NoLock(p) /\ cur[p] = Idle
  BY NoLockAt, CurIdle DEF PipeAlloc, Call, At
<1>2. PICK f \in FIds : f = Min(FreeFiles) /\ file[f] = NoFile
  BY FreeMin DEF PipeAlloc
<1>3. file' = [file EXCEPT ![f].ref = 1] /\ cur' = [cur EXCEPT ![p].f = f]
  BY <1>2 DEF PipeAlloc
<1>4. /\ file' \in [FIds -> FileRecs] /\ (\A g \in FIds : g # f => file'[g] = file[g])
      /\ file'[f] = [NoFile EXCEPT !.ref = 1] /\ file'[f].ref = 1 /\ file[f].ref = 0
      /\ \A g \in FIds : /\ file'[g].type = file[g].type /\ file'[g].ip = file[g].ip
                         /\ file'[g].off = file[g].off /\ file'[g].writable = file[g].writable
                         /\ file'[g].ref = 0 => file'[g] = NoFile
                         /\ file'[g].ref = file[g].ref + Same(f, g) /\ file[g].ref \in Nat
  BY <1>2, <1>3, TakenFile
<1>5. f \in 0..NFILE
  BY DEF FIds
<1>6. /\ cur' \in [Procs -> Locals] /\ cur'[p].f = f /\ \A q \in Procs : q # p => cur'[q] = cur[q]
  <2>1. cur \in [Procs -> Locals]
    BY <1>0 DEF Typed, TypeOK
  <2> QED BY <1>3, <1>5, <2>1 DEF Locals
<1>7. pc' \in [Procs -> Labels] /\ pc'[p] = "piping" /\ \A q \in Procs : q # p => pc'[q] = pc[q]
  BY <1>0, LabelsType DEF PipeAlloc, Goto, Labels
<1>8. /\ ofile' = ofile /\ todo' = todo /\ used' = used
      /\ UNCHANGED <<blockvars, ends, inodevars, panic, grown>>
  BY DEF PipeAlloc, inodevars
<1>9. Only(p)
  BY <1>6, <1>7, <1>8 DEF Only
<1>10. /\ FileAt(p, <<"pipe", 0>>) = 0 /\ FileAt(p, <<"pipe", 0>>)' = f
       /\ InodeAt(p, <<"open", 0>>) = NoInode /\ InodeAt(p, <<"open", 0>>)' = NoInode
  BY <1>1, <1>6, <1>7, FileAtFacts, FileAtFacts2
<1>11. /\ \A d \in FDs : FileAt(p, <<"fd", d>>)' = FileAt(p, <<"fd", d>>)
       /\ \A k \in 1..2 : FileAt(p, <<"todo", k>>)' = FileAt(p, <<"todo", k>>)
       /\ \A k \in 1..2 : InodeAt(p, <<"todo", k>>)' = InodeAt(p, <<"todo", k>>)
  BY <1>8 DEF FileAt, InodeAt, Item
<1>12. AtMost(p, <<"pipe", 0>>, <<"todo", 1>>, <<"todo", 2>>)
  <2>1. \A w \in FilePlaces : w # <<"pipe", 0>> /\ w # <<"todo", 1>> /\ w # <<"todo", 2>>
                              => FileAt(p, w)' = FileAt(p, w)
    BY <1>11, PlaceFacts
  <2> QED BY <1>9, <2>1, OnlyAt DEF AtMost
<1>13. /\ <<"pipe", 0>> \in FilePlaces /\ <<"todo", 1>> \in FilePlaces /\ <<"todo", 2>> \in FilePlaces
       /\ <<"pipe", 0>> # <<"todo", 1>> /\ <<"pipe", 0>> # <<"todo", 2>> /\ <<"todo", 1>> # <<"todo", 2>>
  BY PlaceFacts
<1>14. ASSUME NEW g \in FIds
       PROVE  file'[g].ref - file[g].ref = Cardinality(Holders(g)') - Cardinality(Holders(g))
  <2>1. /\ Cardinality(Holders(g)) \in Nat
        /\ Cardinality(Holders(g)') =
              Cardinality(Holders(g)) + Same(FileAt(p, <<"pipe", 0>>)', g) + Same(FileAt(p, <<"todo", 1>>)', g)
                + Same(FileAt(p, <<"todo", 2>>)', g)
                - (Same(FileAt(p, <<"pipe", 0>>), g) + Same(FileAt(p, <<"todo", 1>>), g)
                     + Same(FileAt(p, <<"todo", 2>>), g))
    BY <1>12, <1>13, HoldersThree
  <2>2. Same(0, g) = 0
    BY SameType, Constants
  <2>3. Cardinality(Holders(g)') = Cardinality(Holders(g)) + Same(f, g)
    BY <1>10, <1>11, <2>1, <2>2, SameType
  <2> QED BY <1>4, <2>1, <2>3, SameType
<1>15. ASSUME NEW i PROVE Cardinality(Callers(i)') = Cardinality(Callers(i))
  <2>0. \A x \in InodePlaces : InodeAt(p, x)' = InodeAt(p, x)
    BY <1>10, <1>11, PlaceFacts
  <2>1. Callers(i)' = Callers(i)
    BY <1>9, <2>0, OnlyAt DEF Callers
  <2> QED BY <2>1
<1>16. Shape(p)'
  <2>1. \A k \in 1..2 : Item(p, k)' = <<"none", 0>>
    BY <1>1, <1>8, NoItems DEF Item, ItemOf
  <2> QED BY <1>1, <1>4, <1>6, <1>7, <1>8, <2>1 DEF Shape
<1>17. Passes(p)
  <2>1. todo' \in [Procs -> Todos] /\ ofile' \in [Procs -> [FDs -> 0..NFILE]]
    BY <1>0, <1>8 DEF Typed, TypeOK
  <2>2. \A q \in Procs : q # p /\ pc[q] = "piping" => file'[cur[q].f] = file[cur[q].f]
    BY <1>4, PipingKept
  <2> QED BY <1>1, <1>4, <1>6, <1>7, <1>8, <1>9, <1>14, <1>15, <2>1, <2>2 DEF Passes
<1> QED BY <1>16, <1>17, PassesKeeps

----------------------------------------------------------------------------
(* The second half of open *)

\* What all three ways out of open have in common.
OpenEnds(p, i) ==
  /\ pc[p] = "opening" /\ todo[p] = <<>> /\ NoLock(p) /\ i = cur[p].ip /\ i \in used /\ i \in Inums
  /\ UNCHANGED <<blockvars, ends, inodevars, panic, grown>>
  /\ cur' \in [Procs -> Locals] /\ cur'[p] = Idle /\ \A q \in Procs : q # p => cur'[q] = cur[q]

LEMMA OpenEndsAt ==
  ASSUME FilesInv, NEW p \in Procs, NEW i, OpenEnds(p, i), pc'[p] \in {"user", "leaving"}
  PROVE  /\ FileAt(p, <<"pipe", 0>>) = 0 /\ FileAt(p, <<"pipe", 0>>)' = 0
         /\ InodeAt(p, <<"open", 0>>) = i /\ InodeAt(p, <<"open", 0>>)' = NoInode
         /\ FileAt(p, <<"todo", 1>>) = 0 /\ FileAt(p, <<"todo", 2>>) = 0
         /\ InodeAt(p, <<"todo", 1>>) = NoInode /\ InodeAt(p, <<"todo", 2>>) = NoInode
BY FileAtFacts, FileAtFacts2, EmptyAt DEF OpenEnds

\* open gives up, with or without a file structure f.
OpenFails(p, i, f) ==
  /\ OpenEnds(p, i) /\ ofile' = ofile /\ pc' = [pc EXCEPT ![p] = "leaving"]
  /\ \/ f = 0 /\ file' = file /\ todo' = [todo EXCEPT ![p] = <<<<"put", i>>>>]
     \/ /\ f \in FIds /\ file[f] = NoFile /\ file' = [file EXCEPT ![f].ref = 1]
        /\ todo' = [todo EXCEPT ![p] = <<<<"close", f>>, <<"put", i>>>>]

LEMMA OpenFailsKeeps ==
  ASSUME FilesInv, NEW p \in Procs, NEW i, NEW f, OpenFails(p, i, f)
  PROVE  FilesInv'
<1>0. Typed
  BY DEF FilesInv
<1>1. OpenEnds(p, i) /\ ofile' = ofile /\ used' = used /\ i \in used /\ i \in Inums /\ NoLock(p)
  BY DEF OpenFails, OpenEnds, inodevars
<1>2. pc' \in [Procs -> Labels] /\ pc'[p] = "leaving" /\ \A q \in Procs : q # p => pc'[q] = pc[q]
  BY <1>0, LabelsType DEF OpenFails, Labels
<1>3. /\ <<"put", i>> \in Items /\ Closes(<<"put", i>>) = 0 /\ Puts(<<"put", i>>) = i
      /\ f \in FIds => <<"close", f>> \in Items
      /\ Closes(<<"close", f>>) = f /\ Puts(<<"close", f>>) = NoInode
  BY <1>1 DEF Items, Closes, Puts
<1>4. todo \in [Procs -> Todos] /\ ofile' \in [Procs -> [FDs -> 0..NFILE]]
  BY <1>0, <1>1 DEF Typed, TypeOK
<1>5. /\ todo' \in [Procs -> Todos] /\ \A q \in Procs : q # p => todo'[q] = todo[q]
      /\ f = 0 => todo'[p] = <<<<"put", i>>>>
      /\ f # 0 => todo'[p] = <<<<"close", f>>, <<"put", i>>>>
  <2>1. /\ <<<<"put", i>>>> \in Todos
        /\ f \in FIds => <<<<"close", f>>, <<"put", i>>>> \in Todos
    BY <1>3 DEF Todos
  <2>2. \/ f = 0 /\ todo' = [todo EXCEPT ![p] = <<<<"put", i>>>>]
        \/ f # 0 /\ f \in FIds /\ todo' = [todo EXCEPT ![p] = <<<<"close", f>>, <<"put", i>>>>]
    BY Constants DEF OpenFails
  <2> DEFINE a == <<<<"put", i>>>>
             b == <<<<"close", f>>, <<"put", i>>>>
  <2> HIDE DEF a, b
  <2>3. /\ a \in Todos /\ (f \in FIds => b \in Todos)
        /\ \/ f = 0 /\ todo' = [todo EXCEPT ![p] = a]
           \/ f # 0 /\ f \in FIds /\ todo' = [todo EXCEPT ![p] = b]
    BY <2>1, <2>2 DEF a, b
  <2>4. /\ todo' \in [Procs -> Todos] /\ \A q \in Procs : q # p => todo'[q] = todo[q]
        /\ f = 0 => todo'[p] = a
        /\ f # 0 => todo'[p] = b
    BY <1>4, <2>3
  <2> QED BY <2>4 DEF a, b
<1>6. /\ FileAt(p, <<"todo", 1>>)' = 0 /\ FileAt(p, <<"todo", 2>>)' = f
      /\ InodeAt(p, <<"todo", 1>>)' = i /\ InodeAt(p, <<"todo", 2>>)' = NoInode
      /\ \A k \in 1..2 : ItemOf(todo'[p], k) \in {<<"put", i>>, <<"close", f>>, <<"none", 0>>}
  <2>1. CASE f = 0
    BY <1>3, <1>5, <2>1, OneAt2
  <2>2. CASE f # 0
    BY <1>3, <1>5, <2>2, TwoAt2
  <2> QED BY <2>1, <2>2
<1>7. /\ FileAt(p, <<"pipe", 0>>) = 0 /\ FileAt(p, <<"pipe", 0>>)' = 0
      /\ InodeAt(p, <<"open", 0>>) = i /\ InodeAt(p, <<"open", 0>>)' = NoInode
      /\ FileAt(p, <<"todo", 1>>) = 0 /\ FileAt(p, <<"todo", 2>>) = 0
      /\ InodeAt(p, <<"todo", 1>>) = NoInode /\ InodeAt(p, <<"todo", 2>>) = NoInode
  BY <1>1, <1>2, OpenEndsAt
<1>8. /\ file' \in [FIds -> FileRecs]
      /\ \A g \in FIds : /\ file'[g].type = file[g].type /\ file'[g].ip = file[g].ip
                         /\ file'[g].off = file[g].off /\ file'[g].writable = file[g].writable
                         /\ file'[g].ref = 0 => file'[g] = NoFile
                         /\ file'[g].ref = file[g].ref + Same(f, g) /\ file[g].ref \in Nat
      /\ \A q \in Procs : q # p /\ pc[q] = "piping" => file'[cur[q].f] = file[cur[q].f]
  <2>1. CASE f = 0
    <3>1. file' = file /\ \A g \in FIds : Same(f, g) = 0
      BY <2>1, Constants, SameType DEF OpenFails
    <3>2. file \in [FIds -> FileRecs] /\ \A g \in FIds : file[g].ref \in Nat /\ (file[g].ref = 0 => file[g] = NoFile)
      BY <1>0, FileType DEF FilesInv, FileSound, Typed, TypeOK
    <3> QED BY <3>1, <3>2
  <2>2. CASE f # 0
    <3>1. f \in FIds /\ file[f] = NoFile /\ file' = [file EXCEPT ![f].ref = 1]
      BY <2>2 DEF OpenFails
    <3> QED BY <3>1, TakenFile, PipingKept
  <2> QED BY <2>1, <2>2
<1>9. Only(p)
  BY <1>1, <1>2, <1>5 DEF Only, OpenEnds
<1>10. \A d \in FDs : FileAt(p, <<"fd", d>>)' = FileAt(p, <<"fd", d>>)
  BY <1>1 DEF FileAt
<1>11. AtMost(p, <<"pipe", 0>>, <<"todo", 1>>, <<"todo", 2>>)
  <2>1. \A w \in FilePlaces : w # <<"pipe", 0>> /\ w # <<"todo", 1>> /\ w # <<"todo", 2>>
                              => FileAt(p, w)' = FileAt(p, w)
    BY <1>10, PlaceFacts
  <2> QED BY <1>9, <2>1, OnlyAt DEF AtMost
<1>12. /\ <<"pipe", 0>> \in FilePlaces /\ <<"todo", 1>> \in FilePlaces /\ <<"todo", 2>> \in FilePlaces
       /\ <<"pipe", 0>> # <<"todo", 1>> /\ <<"pipe", 0>> # <<"todo", 2>> /\ <<"todo", 1>> # <<"todo", 2>>
  BY PlaceFacts
<1>13. ASSUME NEW g \in FIds
       PROVE  file'[g].ref - file[g].ref = Cardinality(Holders(g)') - Cardinality(Holders(g))
  <2>1. /\ Cardinality(Holders(g)) \in Nat
        /\ Cardinality(Holders(g)') =
              Cardinality(Holders(g)) + Same(FileAt(p, <<"pipe", 0>>)', g) + Same(FileAt(p, <<"todo", 1>>)', g)
                + Same(FileAt(p, <<"todo", 2>>)', g)
                - (Same(FileAt(p, <<"pipe", 0>>), g) + Same(FileAt(p, <<"todo", 1>>), g)
                     + Same(FileAt(p, <<"todo", 2>>), g))
    BY <1>11, <1>12, HoldersThree
  <2>2. Same(0, g) = 0
    BY SameType, Constants
  <2>3. Cardinality(Holders(g)') = Cardinality(Holders(g)) + Same(f, g)
    BY <1>6, <1>7, <2>1, <2>2, SameType
  <2> QED BY <1>8, <2>1, <2>3, SameType
<1>14. ASSUME NEW j \in Inums PROVE Cardinality(Callers(j)') = Cardinality(Callers(j))
  <2>1. /\ Cardinality(Callers(j)) \in Nat
        /\ Cardinality(Callers(j)') =
             Cardinality(Callers(j)) + Same(InodeAt(p, <<"todo", 1>>)', j)
               + Same(InodeAt(p, <<"todo", 2>>)', j) + Same(InodeAt(p, <<"open", 0>>)', j)
               - (Same(InodeAt(p, <<"todo", 1>>), j) + Same(InodeAt(p, <<"todo", 2>>), j)
                    + Same(InodeAt(p, <<"open", 0>>), j))
    BY <1>9, OnlyAt, CallersThree
  <2> QED BY <1>6, <1>7, <2>1, SameType
<1>15. Shape(p)'
  <2>1. \A k \in 1..2 : ItemOf(todo'[p], k)[1] = "put" => ItemOf(todo'[p], k)[2] \in used'
    BY <1>1, <1>6
  <2>2. cur'[p] = Idle
    BY <1>1 DEF OpenEnds
  <2> QED BY <1>2, <2>1, <2>2, ShapeLeaving
<1>16. \A k \in 1..2 : Ends(ItemOf(todo'[p], k)) = Ends(ItemOf(todo[p], k))
  <2>1. todo[p] = <<>>
    BY <1>1 DEF OpenEnds
  <2> QED BY <1>6, <2>1, NoItems, NoEnds
<1>17. Passes(p)
  BY <1>1, <1>2, <1>4, <1>5, <1>8, <1>9, <1>13, <1>14, <1>16 DEF Passes, OpenEnds
<1> QED BY <1>15, <1>17, PassesKeeps

\* open returns descriptor d.
OpenSucceeds(p, i, f, d, wr) ==
  /\ OpenEnds(p, i) /\ pc' = [pc EXCEPT ![p] = "user"] /\ todo' = todo
  /\ f \in FIds /\ file[f] = NoFile /\ d \in FDs /\ ofile[p][d] = 0 /\ wr \in BOOLEAN
  /\ file' = [file EXCEPT ![f] = [ref |-> 1, type |-> "inode", ip |-> i, off |-> 0,
                                  readable |-> TRUE, writable |-> wr]]
  /\ ofile' = [ofile EXCEPT ![p][d] = f]

LEMMA OpenSucceedsKeeps ==
  ASSUME FilesInv, NEW p \in Procs, NEW i, NEW f, NEW d, NEW wr, OpenSucceeds(p, i, f, d, wr)
  PROVE  FilesInv'
<1>0. Typed /\ FilesCounted /\ InodesCounted /\ EndsHeld /\ \A g \in FIds : FileSound(g)
  BY DEF FilesInv
<1>1. /\ bitmap' = bitmap /\ data' = data /\ addrs' = addrs /\ size' = size /\ grown' = grown
      /\ ends' = ends /\ panic' = panic
      /\ used' = used /\ iref' = iref /\ nlink' = nlink /\ lock' = lock /\ todo' = todo
  BY DEF OpenSucceeds, OpenEnds, blockvars, inodevars
<1>2. /\ OpenEnds(p, i) /\ todo[p] = <<>> /\ NoLock(p) /\ i \in used /\ i \in Inums
      /\ cur' \in [Procs -> Locals] /\ cur'[p] = Idle /\ \A q \in Procs : q # p => cur'[q] = cur[q]
  BY DEF OpenSucceeds, OpenEnds
<1>3. f \in FIds /\ file[f] = NoFile /\ file[f].ref = 0 /\ d \in FDs /\ ofile[p][d] = 0
  BY FileType, <1>0 DEF OpenSucceeds
<1>4. pc' \in [Procs -> Labels] /\ pc'[p] = "user" /\ \A q \in Procs : q # p => pc'[q] = pc[q]
  BY <1>0, LabelsType DEF OpenSucceeds, Labels
<1>5. /\ ofile' \in [Procs -> [FDs -> 0..NFILE]] /\ ofile'[p][d] = f
      /\ \A c \in FDs : c # d => ofile'[p][c] = ofile[p][c]
      /\ \A q \in Procs : q # p => ofile'[q] = ofile[q]
  <2>1. ofile \in [Procs -> [FDs -> 0..NFILE]] /\ ofile' = [ofile EXCEPT ![p][d] = f]
    BY <1>0 DEF Typed, TypeOK, OpenSucceeds
  <2>2. f \in 0..NFILE
    BY <1>3 DEF FIds
  <2> QED BY <1>3, <2>1, <2>2
<1>6. /\ file' \in [FIds -> FileRecs] /\ (\A g \in FIds : g # f => file'[g] = file[g])
      /\ file'[f].ref = 1 /\ file'[f].type = "inode" /\ file'[f].ip = i /\ file'[f].off = 0
  <2> DEFINE r == [ref |-> 1, type |-> "inode", ip |-> i, off |-> 0, readable |-> TRUE, writable |-> wr]
  <2>1. r \in FileRecs /\ r.ref = 1 /\ r.type = "inode" /\ r.ip = i /\ r.off = 0
    BY <1>2 DEF FileRecs, OpenSucceeds
  <2>2. file' = [file EXCEPT ![f] = r]
    BY DEF OpenSucceeds
  <2>3. file \in [FIds -> FileRecs]
    BY <1>0 DEF Typed, TypeOK
  <2> HIDE DEF r
  <2> QED BY <1>3, <2>1, <2>2, <2>3
<1>7. Only(p)
  BY <1>1, <1>2, <1>4, <1>5 DEF Only
<1>8. Typed'
  <2>1. \A g \in FIds : file'[g].type = "inode" => file'[g].off <= size'[file'[g].ip]
    <3>1. \A g \in FIds : file[g].type = "inode" => file[g].off <= size[file[g].ip]
      BY <1>0 DEF Typed, TypeOK
    <3>2. size \in [Inums -> 0..(MAXFILE * BSIZE)]
      BY <1>0 DEF Typed, TypeOK
    <3>3. size[i] >= 0
      BY <1>2, <3>2
    <3> QED BY <1>1, <1>6, <3>1, <3>3
  <2>2. TypeOK'
    BY <1>0, <1>1, <1>2, <1>4, <1>5, <1>6, <2>1 DEF Typed, TypeOK, Labels
  <2> QED BY <1>0, <1>1, <1>4, <2>2 DEF Typed, Indirect, IsData
<1>9. Apart(p)
  <2>1. ASSUME NEW q \in Procs, q # p
        PROVE  pc[q] \in {"piping", "write", "writei"} => cur[q].f \in FIds /\ cur[q].f # f
    <3>1. <<"pipe", 0>> \in FilePlaces
      BY PlaceFacts
    <3> QED BY <1>3, <2>1, <3>1, OthersFiles
  <2> QED BY <1>1, <1>6, <1>7, <2>1, PutsInUsed DEF Apart
<1>10. Shape(p)'
  BY <1>1, <1>2, <1>4, ShapeUser
<1>11. \A q \in Procs : Shape(q)'
  BY <1>9, <1>10, OthersKeep
<1>12. Calm
  BY <1>0, <1>1, <1>2, <1>4, <1>7, NoLockCalm
<1>13. Owned' /\ Contents' /\ \A j \in Inums : Locked(j)' /\ FreeInode(j)'
  BY <1>12, CalmKeeps
<1>14. ASSUME NEW g \in FIds PROVE FileSound(g)'
  <2>1. CASE g = f
    BY <1>1, <1>2, <1>6, <2>1 DEF FileSound
  <2>2. CASE g # f
    BY <1>0, <1>1, <1>6, <2>2 DEF FileSound
  <2> QED BY <2>1, <2>2
<1>15. EndsHeld'
  <2>1. \A g \in FIds : file[g].type = "pipe" \/ file'[g].type = "pipe" => file'[g] = file[g]
    BY <1>3, <1>6 DEF NoFile
  <2> QED BY <1>0, <1>1, <2>1, EndsKeep
<1>16. /\ FileAt(p, <<"pipe", 0>>) = 0 /\ FileAt(p, <<"pipe", 0>>)' = 0
       /\ InodeAt(p, <<"open", 0>>) = i /\ InodeAt(p, <<"open", 0>>)' = NoInode
       /\ FileAt(p, <<"todo", 1>>) = 0 /\ FileAt(p, <<"todo", 2>>) = 0
       /\ InodeAt(p, <<"todo", 1>>) = NoInode /\ InodeAt(p, <<"todo", 2>>) = NoInode
  BY <1>2, <1>4, OpenEndsAt
<1>17. /\ FileAt(p, <<"todo", 1>>)' = 0 /\ FileAt(p, <<"todo", 2>>)' = 0
       /\ InodeAt(p, <<"todo", 1>>)' = NoInode /\ InodeAt(p, <<"todo", 2>>)' = NoInode
  BY <1>1, <1>2, EmptyAt2
<1>18. /\ FileAt(p, <<"fd", d>>) = 0 /\ FileAt(p, <<"fd", d>>)' = f
       /\ \A c \in FDs : c # d => FileAt(p, <<"fd", c>>)' = FileAt(p, <<"fd", c>>)
  <2>1. \A c : FileAt(p, <<"fd", c>>) = ofile[p][c]
    BY FileAtFacts
  <2>2. \A c : FileAt(p, <<"fd", c>>)' = ofile'[p][c]
    BY FileAtFacts2
  <2> QED BY <1>3, <1>5, <2>1, <2>2
<1>19. AtMost(p, <<"fd", d>>, <<"todo", 1>>, <<"todo", 2>>)
  <2>1. \A w \in FilePlaces : w # <<"fd", d>> /\ w # <<"todo", 1>> /\ w # <<"todo", 2>>
                              => FileAt(p, w)' = FileAt(p, w)
    BY <1>16, <1>18, PlaceFacts
  <2> QED BY <1>7, <2>1, OnlyAt DEF AtMost
<1>20. /\ <<"fd", d>> \in FilePlaces /\ <<"todo", 1>> \in FilePlaces /\ <<"todo", 2>> \in FilePlaces
       /\ <<"fd", d>> # <<"todo", 1>> /\ <<"fd", d>> # <<"todo", 2>> /\ <<"todo", 1>> # <<"todo", 2>>
  BY <1>3, PlaceFacts
<1>21. FilesCounted'
  <2>1. ASSUME NEW g \in FIds PROVE file'[g].ref = Cardinality(Holders(g)')
    <3>1. /\ Cardinality(Holders(g)) \in Nat
          /\ Cardinality(Holders(g)') =
                Cardinality(Holders(g)) + Same(FileAt(p, <<"fd", d>>)', g) + Same(FileAt(p, <<"todo", 1>>)', g)
                  + Same(FileAt(p, <<"todo", 2>>)', g)
                  - (Same(FileAt(p, <<"fd", d>>), g) + Same(FileAt(p, <<"todo", 1>>), g)
                       + Same(FileAt(p, <<"todo", 2>>), g))
      BY <1>19, <1>20, HoldersThree
    <3>2. Same(0, g) = 0 /\ file[g].ref = Cardinality(Holders(g))
      BY <1>0, SameType, Constants, CountedAs
    <3>3. Cardinality(Holders(g)') = Cardinality(Holders(g)) + Same(f, g)
      BY <1>16, <1>17, <1>18, <3>1, <3>2, SameType
    <3> QED BY <1>3, <1>6, <3>1, <3>2, <3>3 DEF Same
  <2> QED BY <2>1, CountedAs
<1>22. ASSUME NEW j \in Inums PROVE iref'[j] = Cardinality(OpenOn(j)') + Cardinality(Callers(j)')
  <2>1. iref[j] = Cardinality(OpenOn(j)) + Cardinality(Callers(j)) /\ Same(NoInode, j) = 0
    BY <1>0, InodesAs, SameType, Constants
  <2>2. /\ Cardinality(OpenOn(j)) \in Nat
        /\ Cardinality(OpenOn(j)') = Cardinality(OpenOn(j)) + In(f, OpenOn(j)') - In(f, OpenOn(j))
    BY <1>3, <1>6, OpenOnOne
  <2>3. In(f, OpenOn(j)') = Same(i, j) /\ In(f, OpenOn(j)) = 0
    BY <1>3, <1>6 DEF In, OpenOn, Same, NoFile
  <2>4. /\ Cardinality(Callers(j)) \in Nat
        /\ Cardinality(Callers(j)') =
             Cardinality(Callers(j)) + Same(InodeAt(p, <<"todo", 1>>)', j)
               + Same(InodeAt(p, <<"todo", 2>>)', j) + Same(InodeAt(p, <<"open", 0>>)', j)
               - (Same(InodeAt(p, <<"todo", 1>>), j) + Same(InodeAt(p, <<"todo", 2>>), j)
                    + Same(InodeAt(p, <<"open", 0>>), j))
    BY <1>7, OnlyAt, CallersThree
  <2>5. Cardinality(Callers(j)') = Cardinality(Callers(j)) - Same(i, j)
    BY <1>16, <1>17, <2>1, <2>4, SameType
  <2> QED BY <1>1, <2>1, <2>2, <2>3, <2>4, <2>5, SameType
<1>23. InodesCounted'
  BY <1>22, InodesAs
<1> QED BY <1>8, <1>11, <1>13, <1>14, <1>15, <1>21, <1>23 DEF FilesInv

LEMMA OpenFileKeeps ==
  ASSUME FilesInv, NEW p \in Procs, OpenFile(p)
  PROVE  FilesInv'
<1>1. At(p, "opening") /\ NoLock(p)
  BY NoLockAt DEF OpenFile
<1>2. PICK i : i = cur[p].ip
  OBVIOUS
<1>3. PICK f : f = Min(FreeFiles)
  OBVIOUS
<1>4. OpenEnds(p, i)
  <2>1. cur \in [Procs -> Locals] /\ cur' = [cur EXCEPT ![p] = Idle] /\ Idle \in Locals
    BY IdleType DEF OpenFile, FilesInv, Typed, TypeOK
  <2>2. cur' \in [Procs -> Locals] /\ cur'[p] = Idle /\ \A q \in Procs : q # p => cur'[q] = cur[q]
    BY <2>1
  <2>3. i \in used /\ i \in Inums
    BY <1>1, <1>2, ShapeFacts DEF At
  <2>4. UNCHANGED <<blockvars, ends, inodevars, panic, grown>>
    BY DEF OpenFile, filevars
  <2> QED BY <1>1, <1>2, <2>2, <2>3, <2>4 DEF OpenEnds, At
<1>5. CASE FreeFiles = {} /\ Leave(p, "leaving", <<<<"put", cur[p].ip>>>>) /\ UNCHANGED filevars
  <2>1. OpenFails(p, i, 0)
    BY <1>2, <1>4, <1>5 DEF OpenFails, Leave, Goto, filevars
  <2> QED BY <2>1, OpenFailsKeeps
<1>6. CASE /\ FreeFiles # {} /\ FreeFds(p) = {}
           /\ file' = [file EXCEPT ![Min(FreeFiles)].ref = 1]
           /\ Leave(p, "leaving", <<<<"close", Min(FreeFiles)>>, <<"put", cur[p].ip>>>>)
           /\ UNCHANGED <<ofile, ends>>
  <2>1. f \in FIds /\ file[f] = NoFile
    BY <1>3, <1>6, FreeMin
  <2>2. OpenFails(p, i, f)
    BY <1>2, <1>3, <1>4, <1>6, <2>1 DEF OpenFails, Leave, Goto
  <2> QED BY <2>2, OpenFailsKeeps
<1>7. CASE /\ FreeFiles # {} /\ FreeFds(p) # {}
           /\ \E wr \in OpenModes :
                file' = [file EXCEPT ![Min(FreeFiles)] =
                           [ref |-> 1, type |-> "inode", ip |-> cur[p].ip, off |-> 0,
                            readable |-> TRUE, writable |-> wr]]
           /\ ofile' = [ofile EXCEPT ![p][Min(FreeFds(p))] = Min(FreeFiles)]
           /\ Goto(p, "user") /\ UNCHANGED <<ends, todo>>
  <2>1. f \in FIds /\ file[f] = NoFile
    BY <1>3, <1>7, FreeMin
  <2>2. PICK d \in FDs : d = Min(FreeFds(p)) /\ ofile[p][d] = 0
    BY <1>7, FreeMin
  <2>3. PICK wr \in OpenModes :
           file' = [file EXCEPT ![f] = [ref |-> 1, type |-> "inode", ip |-> i, off |-> 0,
                                        readable |-> TRUE, writable |-> wr]]
    BY <1>2, <1>3, <1>7
  <2>4. wr \in BOOLEAN
    BY FilesAssumption
  <2>5. OpenSucceeds(p, i, f, d, wr)
    BY <1>3, <1>4, <1>7, <2>1, <2>2, <2>3, <2>4 DEF OpenSucceeds, Goto
  <2> QED BY <2>5, OpenSucceedsKeeps
<1> QED BY <1>5, <1>6, <1>7 DEF OpenFile

----------------------------------------------------------------------------
(* read *)

LEMMA ReadKeeps ==
  ASSUME FilesInv, NEW p \in Procs, Read(p)
  PROVE  FilesInv'
<1>0. Typed /\ FilesCounted /\ InodesCounted /\ EndsHeld /\ \A g \in FIds : FileSound(g)
  BY DEF FilesInv
<1>1. pc[p] = "user" /\ todo[p] = <<>> /\ NoLock(p) /\ cur[p] = Idle
  BY NoLockAt, CurIdle DEF Read, Call, At
<1>2. /\ bitmap' = bitmap /\ data' = data /\ addrs' = addrs /\ size' = size /\ grown' = grown
      /\ ofile' = ofile /\ ends' = ends /\ panic' = panic /\ lock' = lock
      /\ used' = used /\ iref' = iref /\ nlink' = nlink /\ pc' = pc /\ cur' = cur /\ todo' = todo
  BY DEF Read, blockvars, inodevars
<1>3. PICK fd \in FDs \ FreeFds(p), n \in ReadSizes :
        LET f == ofile[p][fd]  i == file[f].ip IN
        /\ file[f].readable /\ file[f].type = "inode" /\ lock[i] = NoProc
        /\ Readi(i, file[f].off, n) > 0
        /\ file' = [file EXCEPT ![f].off = @ + Readi(i, file[f].off, n)]
  BY DEF Read
<1>4. PICK f \in FIds : f = ofile[p][fd]
  BY <1>0, Types, Constants DEF FreeFds
<1>5. PICK i \in Inums : i = file[f].ip /\ file[f].type = "inode" /\ lock[i] = NoProc
  <2>1. file[f].type = "inode" /\ lock[file[f].ip] = NoProc
    BY <1>3, <1>4
  <2>2. file[f].ip \in Inums
    BY <1>0, <2>1 DEF FileSound, Typed, TypeOK
  <2> QED BY <2>1, <2>2
<1>6. PICK o : o = file[f].off + Readi(i, file[f].off, n)
  OBVIOUS
<1>7. o \in Nat /\ o <= size[i]
  <2>1. size \in [Inums -> 0..(MAXFILE * BSIZE)] /\ file[f].off <= size[file[f].ip]
    BY <1>0, <1>5 DEF Typed, TypeOK
  <2>2. file[f].off \in Nat /\ n \in Nat
    BY <1>0, FileType, FilesAssumption
  <2>3. MAXFILE * BSIZE \in Int
    BY BlocksAssumption DEF MAXFILE, NINDIRECT
  <2>4. size[i] \in Nat
    BY <2>1, <2>3
  <2> QED BY <1>5, <1>6, <2>1, <2>2, <2>4 DEF Readi
<1>8. /\ file' \in [FIds -> FileRecs] /\ (\A g \in FIds : g # f => file'[g] = file[g])
      /\ file'[f].off = o
      /\ \A g \in FIds : /\ file'[g].type = file[g].type /\ file'[g].ip = file[g].ip
                         /\ file'[g].ref = file[g].ref /\ file'[g].writable = file[g].writable
  <2>1. file \in [FIds -> FileRecs]
    BY <1>0 DEF Typed, TypeOK
  <2>2. file' = [file EXCEPT ![f].off = o]
    BY <1>3, <1>4, <1>5, <1>6
  <2> QED BY <1>7, <2>1, <2>2 DEF FileRecs
<1>9. Typed'
  <2>1. \A g \in FIds : file'[g].type = "inode" => file'[g].off <= size'[file'[g].ip]
    <3>1. \A g \in FIds : file[g].type = "inode" => file[g].off <= size[file[g].ip]
      BY <1>0 DEF Typed, TypeOK
    <3> QED BY <1>2, <1>5, <1>7, <1>8, <3>1
  <2> QED BY <1>0, <1>2, <1>8, <2>1 DEF Typed, TypeOK, Indirect, IsData
<1>10. FileAt(p, <<"fd", fd>>) = f /\ <<"fd", fd>> \in FilePlaces
  BY <1>4, FileAtFacts, PlaceFacts
<1>11. Apart(p)
  <2>1. ASSUME NEW q \in Procs, q # p
        PROVE  /\ pc[q] = "piping" => file'[cur[q].f] = file[cur[q].f]
               /\ pc[q] \in {"write", "writei"} =>
                    /\ file'[cur[q].f].type = file[cur[q].f].type
                    /\ file'[cur[q].f].ip = file[cur[q].f].ip
               /\ pc[q] = "writei" => file'[cur[q].f].off = file[cur[q].f].off
    <3>1. /\ pc[q] = "piping" => cur[q].f \in FIds /\ f # cur[q].f
          /\ pc[q] \in {"write", "writei"} => cur[q].f \in FIds
      BY <1>10, <2>1, OthersFiles
    <3>2. ASSUME pc[q] = "writei" PROVE cur[q].f # f
      <4>1. Shape(q) /\ q # NoProc
        BY Constants DEF FilesInv
      <4>2. lock[file[cur[q].f].ip] = q
        BY <3>2, <4>1 DEF Shape
      <4> QED BY <1>5, <4>1, <4>2
    <3> QED BY <1>8, <3>1, <3>2
  <2> QED BY <1>2, <2>1, PutsInUsed DEF Apart, Only
<1>12. Shape(p)'
  BY <1>1, <1>2, ShapeUser
<1>13. \A q \in Procs : Shape(q)'
  BY <1>11, <1>12, OthersKeep
<1>14. Calm
  BY <1>0, <1>2 DEF Calm, Typed, TypeOK
<1>15. Owned' /\ Contents' /\ \A j \in Inums : Locked(j)' /\ FreeInode(j)'
  BY <1>14, CalmKeeps
<1>16. (\A g \in FIds : FileSound(g)') /\ EndsHeld'
  <2>1. f \in FIds /\ file[f].ref # 0
    BY <1>0, <1>5 DEF FileSound, NoFile
  <2> QED BY <1>0, <1>2, <1>8, <2>1, EndsKeep DEF FileSound
<1>17. FilesCounted'
  <2>1. \A g : Holders(g)' = Holders(g)
    BY <1>2 DEF Holders, FileAt, Item
  <2> QED BY <1>0, <1>8, <2>1, CountedAs
<1>18. InodesCounted'
  <2>1. \A j : Callers(j)' = Callers(j)
    BY <1>2 DEF Callers, InodeAt, Item
  <2>2. \A j : OpenOn(j)' = OpenOn(j)
    BY <1>8 DEF OpenOn
  <2> QED BY <1>0, <1>2, <2>1, <2>2, InodesAs
<1> QED BY <1>9, <1>13, <1>15, <1>16, <1>17, <1>18 DEF FilesInv

----------------------------------------------------------------------------
(* fork *)

LEMMA ForkKeeps ==
  ASSUME FilesInv, NEW p \in Procs, NEW q \in Procs, Fork(p, q)
  PROVE  FilesInv'
<1> DEFINE D(g) == {d \in FDs : ofile[p][d] = g}
           N(g) == {<<q, <<"fd", d>>>> : d \in D(g)}
<1>0. Typed /\ FilesCounted
  BY DEF FilesInv
<1>1. /\ pc[p] = "user" /\ pc[q] = "unused" /\ todo[q] = <<>> /\ NoLock(q) /\ cur[q] = Idle /\ p # q
      /\ \A d \in FDs : ofile[q][d] = 0
  <2>1. Shape(q) /\ pc[p] = "user" /\ At(q, "unused")
    BY DEF FilesInv, Fork, Call, At
  <2>2. NoLock(q)
    BY <2>1, NoLockAt
  <2> QED BY <2>1, <2>2 DEF Shape, At
<1>2. /\ cur' = cur /\ todo' = todo /\ UNCHANGED <<blockvars, ends, inodevars, panic, grown>>
      /\ pc' \in [Procs -> Labels] /\ pc'[q] = "user" /\ \A r \in Procs : r # q => pc'[r] = pc[r]
  BY <1>0, LabelsType DEF Fork, Goto, Labels
<1>3. /\ ofile' \in [Procs -> [FDs -> 0..NFILE]] /\ ofile'[q] = ofile[p]
      /\ \A r \in Procs : r # q => ofile'[r] = ofile[r]
  BY <1>0 DEF Typed, TypeOK, Fork
<1>4. Only(q)
  BY <1>2, <1>3 DEF Only
<1>5. ASSUME NEW g PROVE IsFiniteSet(D(g)) /\ Cardinality(D(g)) \in Nat
  <2>1. IsFiniteSet(D(g))
    BY Constants, FS_Subset
  <2> QED BY <2>1, FS_CardinalityType
<1>6. ASSUME NEW g \in FIds PROVE Cardinality(Holders(g)') = Cardinality(Holders(g)) + Cardinality(D(g))
  <2> DEFINE h == [d \in D(g) |-> <<q, <<"fd", d>>>>]
  <2>1. h \in Bijection(D(g), N(g))
    BY DEF Bijection, Injection, Surjection, IsInjective
  <2> HIDE DEF h
  <2>2. IsFiniteSet(N(g)) /\ Cardinality(N(g)) = Cardinality(D(g))
    <3>1. ExistsBijection(D(g), N(g))
      BY <2>1 DEF ExistsBijection
    <3> HIDE DEF N, D
    <3> QED BY <1>5, <3>1, FS_Bijection
  <2>3. Holders(g)' = Holders(g) \union N(g)
    <3>1. ASSUME NEW r \in Procs, NEW x \in FilePlaces, r # q PROVE FileAt(r, x)' = FileAt(r, x)
      BY <1>4, <3>1, OnlyAt
    <3>2. ASSUME NEW d \in FDs PROVE FileAt(q, <<"fd", d>>) # g /\ (FileAt(q, <<"fd", d>>)' = g <=> d \in D(g))
      <4>1. FileAt(q, <<"fd", d>>) = ofile[q][d]
        BY FileAtFacts
      <4>2. FileAt(q, <<"fd", d>>)' = ofile'[q][d]
        BY FileAtFacts2
      <4> QED BY <1>1, <1>3, <4>1, <4>2, Constants
    <3>3. ASSUME NEW x \in FilePlaces, ~\E d \in FDs : x = <<"fd", d>>
          PROVE  FileAt(q, x)' # g /\ FileAt(q, x) # g
      <4>1. /\ FileAt(q, <<"todo", 1>>) = 0 /\ FileAt(q, <<"todo", 2>>) = 0
            /\ FileAt(q, <<"todo", 1>>)' = 0 /\ FileAt(q, <<"todo", 2>>)' = 0
        BY <1>1, <1>2, EmptyAt, EmptyAt2
      <4>2. FileAt(q, <<"pipe", 0>>) = 0 /\ FileAt(q, <<"pipe", 0>>)' = 0
        BY <1>1, <1>2, FileAtFacts, FileAtFacts2
      <4>3. x = <<"todo", 1>> \/ x = <<"todo", 2>> \/ x = <<"pipe", 0>>
        BY <3>3, PlaceFacts
      <4> QED BY <4>1, <4>2, <4>3, Constants
    <3>4. Holders(g)' \subseteq Procs \X FilePlaces /\ Holders(g) \subseteq Procs \X FilePlaces
          /\ N(g) \subseteq Procs \X FilePlaces
      BY PlaceFacts DEF Holders
    <3>5. ASSUME NEW r \in Procs, NEW x \in FilePlaces
          PROVE  <<r, x>> \in Holders(g)' <=> <<r, x>> \in Holders(g) \/ <<r, x>> \in N(g)
      <4>1. /\ <<r, x>> \in Holders(g)' <=> FileAt(r, x)' = g
            /\ <<r, x>> \in Holders(g) <=> FileAt(r, x) = g
        BY HoldersIn
      <4>2. <<r, x>> \in N(g) <=> r = q /\ \E d \in D(g) : x = <<"fd", d>>
        OBVIOUS
      <4>3. CASE r # q
        BY <3>1, <4>1, <4>2, <4>3
      <4>4. CASE r = q /\ \E d \in FDs : x = <<"fd", d>>
        BY <3>2, <4>1, <4>2, <4>4
      <4>5. CASE r = q /\ ~\E d \in FDs : x = <<"fd", d>>
        BY <3>3, <4>1, <4>2, <4>5
      <4> QED BY <4>3, <4>4, <4>5
    <3> HIDE DEF N
    <3> QED BY <3>4, <3>5
  <2>4. Holders(g) \intersect N(g) = {}
    <3>1. ASSUME NEW d \in FDs PROVE <<q, <<"fd", d>>>> \notin Holders(g)
      <4>1. FileAt(q, <<"fd", d>>) = ofile[q][d] /\ <<"fd", d>> \in FilePlaces
        BY FileAtFacts, PlaceFacts
      <4> QED BY <1>1, <4>1, HoldersIn, Constants
    <3> QED BY <3>1
  <2>5. IsFiniteSet(Holders(g)) /\ Cardinality(Holders(g)) \in Nat
    BY HoldersFinite, FS_CardinalityType
  <2> HIDE DEF N, D
  <2>6. Cardinality(Holders(g) \union N(g)) =
          Cardinality(Holders(g)) + Cardinality(N(g)) - Cardinality(Holders(g) \intersect N(g))
    BY <2>2, <2>5, FS_Union
  <2>7. Cardinality(Holders(g) \intersect N(g)) = 0 /\ Cardinality(D(g)) \in Nat
    BY <1>5, <2>4, FS_EmptySet
  <2> QED BY <2>2, <2>3, <2>5, <2>6, <2>7
<1>7. /\ file' \in [FIds -> FileRecs]
      /\ \A g \in FIds : /\ file'[g].type = file[g].type /\ file'[g].ip = file[g].ip
                         /\ file'[g].off = file[g].off /\ file'[g].writable = file[g].writable
                         /\ file'[g].ref = file[g].ref + Cardinality(D(g)) /\ file[g].ref \in Nat
                         /\ Cardinality(D(g)) = 0 => file'[g] = file[g]
  <2>1. file \in [FIds -> FileRecs]
    BY <1>0 DEF Typed, TypeOK
  <2>2. file' = [g \in FIds |-> [file[g] EXCEPT !.ref = @ + Cardinality(D(g))]]
    BY DEF Fork
  <2> HIDE DEF D
  <2>3. ASSUME NEW g \in FIds
        PROVE  /\ file'[g] = [file[g] EXCEPT !.ref = file[g].ref + Cardinality(D(g))]
               /\ file[g] \in FileRecs /\ Cardinality(D(g)) \in Nat
    BY <1>5, <2>1, <2>2
  <2>4. ASSUME NEW g \in FIds
        PROVE  /\ file'[g] \in FileRecs
               /\ file'[g].type = file[g].type /\ file'[g].ip = file[g].ip
               /\ file'[g].off = file[g].off /\ file'[g].writable = file[g].writable
               /\ file'[g].ref = file[g].ref + Cardinality(D(g)) /\ file[g].ref \in Nat
    <3>1. file[g] \in FileRecs /\ file[g].ref \in Nat
      BY <2>3 DEF FileRecs
    <3>a. Cardinality(D(g)) \in Nat
      BY <1>5
    <3>b. file[g].ref + Cardinality(D(g)) \in Nat
      BY <3>1, <3>a
    <3>2. PICK m \in Nat : m = file[g].ref + Cardinality(D(g))
      BY <3>b
    <3>3. file'[g] = [file[g] EXCEPT !.ref = m]
      BY <2>3, <3>2
    <3> QED BY <3>1, <3>2, <3>3 DEF FileRecs
  <2>5. ASSUME NEW g \in FIds, Cardinality(D(g)) = 0 PROVE file'[g] = file[g]
    <3>1. file[g] \in FileRecs /\ file[g].ref \in Nat
      BY <2>3 DEF FileRecs
    <3>2. file'[g] = [file[g] EXCEPT !.ref = file[g].ref]
      BY <2>3, <2>5, <3>1
    <3> QED BY <3>1, <3>2 DEF FileRecs
  <2>6. file' \in [FIds -> FileRecs]
    BY <2>2, <2>4
  <2> QED BY <2>4, <2>5, <2>6
<1>8. ASSUME NEW r \in Procs, r # q, pc[r] = "piping" PROVE file'[cur[r].f] = file[cur[r].f]
  <2>1. r # p /\ cur[r].f \in FIds
    BY <1>1, <1>8, ShapeFacts
  <2>2. ASSUME NEW d \in FDs PROVE ofile[p][d] # cur[r].f
    <3>1. FileAt(p, <<"fd", d>>) = ofile[p][d] /\ <<"fd", d>> \in FilePlaces
      BY FileAtFacts, PlaceFacts
    <3> QED BY <1>8, <2>1, <3>1, OthersFiles
  <2>3. D(cur[r].f) = {}
    BY <2>2
  <2>4. Cardinality(D(cur[r].f)) = 0
    BY <2>3, FS_EmptySet
  <2> HIDE DEF D
  <2> QED BY <1>7, <2>1, <2>4
<1>9. \A i : Cardinality(Callers(i)') = Cardinality(Callers(i))
  <2>1. /\ InodeAt(q, <<"todo", 1>>)' = InodeAt(q, <<"todo", 1>>)
        /\ InodeAt(q, <<"todo", 2>>)' = InodeAt(q, <<"todo", 2>>)
    BY <1>1, <1>2, EmptyAt, EmptyAt2
  <2>2. InodeAt(q, <<"open", 0>>)' = InodeAt(q, <<"open", 0>>)
    BY <1>1, <1>2, FileAtFacts, FileAtFacts2
  <2>3. \A x \in InodePlaces : InodeAt(q, x)' = InodeAt(q, x)
    BY <2>1, <2>2 DEF InodePlaces
  <2>4. \A i : Callers(i)' = Callers(i)
    BY <1>4, <2>3, OnlyAt DEF Callers
  <2> QED BY <2>4
<1> HIDE DEF D, N
<1>10. ASSUME NEW g \in FIds
       PROVE  /\ file'[g].ref - file[g].ref = Cardinality(Holders(g)') - Cardinality(Holders(g))
              /\ file'[g].ref = 0 => file'[g] = NoFile
  <2>1. Cardinality(Holders(g)) \in Nat
    BY HoldersFinite, FS_CardinalityType
  <2>2. file[g].ref = 0 => file[g] = NoFile
    BY DEF FilesInv, FileSound
  <2>3. /\ file'[g].ref = file[g].ref + Cardinality(D(g)) /\ file[g].ref \in Nat
        /\ Cardinality(D(g)) \in Nat
        /\ Cardinality(Holders(g)') = Cardinality(Holders(g)) + Cardinality(D(g))
        /\ Cardinality(D(g)) = 0 => file'[g] = file[g]
    BY <1>5, <1>6, <1>7
  <2>4. file'[g].ref - file[g].ref = Cardinality(Holders(g)') - Cardinality(Holders(g))
    BY <2>1, <2>3
  <2>5. file'[g].ref = 0 => file[g].ref = 0 /\ Cardinality(D(g)) = 0
    BY <2>3
  <2> QED BY <2>2, <2>3, <2>4, <2>5
<1>11. Shape(q)'
  BY <1>1, <1>2, ShapeUser
<1>12. Passes(q)
  <2>1. cur' \in [Procs -> Locals] /\ todo' \in [Procs -> Todos]
    BY <1>0, <1>2 DEF Typed, TypeOK
  <2> QED BY <1>1, <1>2, <1>3, <1>4, <1>7, <1>8, <1>9, <1>10, <2>1 DEF Passes
<1> QED BY <1>11, <1>12, PassesKeeps

----------------------------------------------------------------------------
(* The second half of pipe *)

\* What all ways out of pipe have in common; r is the first file.
PipeEnds(p, r) ==
  /\ pc[p] = "piping" /\ todo[p] = <<>> /\ NoLock(p) /\ r = cur[p].f
  /\ r \in FIds /\ file[r] = [NoFile EXCEPT !.ref = 1]
  /\ UNCHANGED <<blockvars, inodevars, panic, grown>>
  /\ cur' \in [Procs -> Locals] /\ cur'[p] = Idle /\ \A q \in Procs : q # p => cur'[q] = cur[q]

LEMMA PipeEndsAt ==
  ASSUME FilesInv, NEW p \in Procs, NEW r, PipeEnds(p, r), pc'[p] \in {"user", "leaving"}
  PROVE  /\ FileAt(p, <<"pipe", 0>>) = r /\ FileAt(p, <<"pipe", 0>>)' = 0
         /\ InodeAt(p, <<"open", 0>>) = NoInode /\ InodeAt(p, <<"open", 0>>)' = NoInode
         /\ FileAt(p, <<"todo", 1>>) = 0 /\ FileAt(p, <<"todo", 2>>) = 0
         /\ InodeAt(p, <<"todo", 1>>) = NoInode /\ InodeAt(p, <<"todo", 2>>) = NoInode
BY FileAtFacts, FileAtFacts2, EmptyAt DEF PipeEnds

\* pipe gives up: the call has to close the files it got.
PipeLeaves(p, r, w) ==
  /\ PipeEnds(p, r) /\ ofile' = ofile /\ pc' = [pc EXCEPT ![p] = "leaving"]
  /\ \/ w = 0 /\ todo' = [todo EXCEPT ![p] = <<<<"close", r>>>>]
     \/ w \in FIds /\ todo' = [todo EXCEPT ![p] = <<<<"close", r>>, <<"close", w>>>>]

LEMMA PipeLeavesFacts ==
  ASSUME FilesInv, NEW p \in Procs, NEW r, NEW w, PipeLeaves(p, r, w)
  PROVE  /\ todo' \in [Procs -> Todos] /\ Only(p) /\ Shape(p)'
         /\ pc' \in [Procs -> Labels] /\ pc'[p] = "leaving"
         /\ \A g \in FIds : /\ Cardinality(Holders(g)) \in Nat
                            /\ Cardinality(Holders(g)') = Cardinality(Holders(g)) + Same(w, g)
         /\ \A i : Cardinality(Callers(i)') = Cardinality(Callers(i))
         /\ \A k \in 1..2 : Ends(ItemOf(todo'[p], k)) = Ends(ItemOf(todo[p], k))
<1>0. Typed /\ PipeEnds(p, r) /\ ofile' = ofile
  BY DEF FilesInv, PipeLeaves
<1>1. r \in FIds /\ cur'[p] = Idle /\ \A q \in Procs : q # p => cur'[q] = cur[q]
  BY <1>0 DEF PipeEnds
<1>2. pc' \in [Procs -> Labels] /\ pc'[p] = "leaving" /\ \A q \in Procs : q # p => pc'[q] = pc[q]
  BY <1>0, LabelsType DEF PipeLeaves, Labels
<1>3. /\ <<"close", r>> \in Items /\ Closes(<<"close", r>>) = r /\ Puts(<<"close", r>>) = NoInode
      /\ w \in FIds => <<"close", w>> \in Items
      /\ Closes(<<"close", w>>) = w /\ Puts(<<"close", w>>) = NoInode
  BY <1>1 DEF Items, Closes, Puts
<1>4. /\ todo' \in [Procs -> Todos] /\ \A q \in Procs : q # p => todo'[q] = todo[q]
      /\ w = 0 => todo'[p] = <<<<"close", r>>>>
      /\ w # 0 => todo'[p] = <<<<"close", r>>, <<"close", w>>>>
  <2>1. /\ <<<<"close", r>>>> \in Todos
        /\ w \in FIds => <<<<"close", r>>, <<"close", w>>>> \in Todos
    BY <1>3 DEF Todos
  <2>2. \/ w = 0 /\ todo' = [todo EXCEPT ![p] = <<<<"close", r>>>>]
        \/ w # 0 /\ w \in FIds /\ todo' = [todo EXCEPT ![p] = <<<<"close", r>>, <<"close", w>>>>]
    BY Constants DEF PipeLeaves
  <2> DEFINE a == <<<<"close", r>>>>
             b == <<<<"close", r>>, <<"close", w>>>>
  <2> HIDE DEF a, b
  <2>3. /\ a \in Todos /\ (w \in FIds => b \in Todos)
        /\ \/ w = 0 /\ todo' = [todo EXCEPT ![p] = a]
           \/ w # 0 /\ w \in FIds /\ todo' = [todo EXCEPT ![p] = b]
    BY <2>1, <2>2 DEF a, b
  <2>4. todo \in [Procs -> Todos]
    BY <1>0 DEF Typed
  <2>5. /\ todo' \in [Procs -> Todos] /\ \A q \in Procs : q # p => todo'[q] = todo[q]
        /\ w = 0 => todo'[p] = a
        /\ w # 0 => todo'[p] = b
    BY <2>3, <2>4
  <2> QED BY <2>5 DEF a, b
<1>5. Only(p)
  BY <1>0, <1>1, <1>2, <1>4 DEF Only
<1>6. /\ InodeAt(p, <<"todo", 1>>)' = NoInode /\ InodeAt(p, <<"todo", 2>>)' = NoInode
      /\ \A k \in 1..2 : ItemOf(todo'[p], k) \in {<<"close", r>>, <<"close", w>>, <<"none", 0>>}
      /\ \A g \in FIds : Same(FileAt(p, <<"todo", 1>>)', g) + Same(FileAt(p, <<"todo", 2>>)', g) = Same(r, g) + Same(w, g)
  <2>1. CASE w = 0
    <3>1. FileAt(p, <<"todo", 1>>)' = r /\ FileAt(p, <<"todo", 2>>)' = 0
      BY <1>3, <1>4, <2>1, OneAt2
    <3> QED BY <1>3, <1>4, <2>1, <3>1, OneAt2
  <2>2. CASE w # 0
    <3>1. FileAt(p, <<"todo", 1>>)' = w /\ FileAt(p, <<"todo", 2>>)' = r
      BY <1>3, <1>4, <2>2, TwoAt2
    <3>2. \A g : Same(w, g) + Same(r, g) = Same(r, g) + Same(w, g)
      BY SameType
    <3> QED BY <1>3, <1>4, <2>2, <3>1, <3>2, TwoAt2
  <2> QED BY <2>1, <2>2
<1>7. Shape(p)'
  <2>1. \A k \in 1..2 : ItemOf(todo'[p], k)[1] # "put"
    BY <1>6
  <2> QED BY <1>1, <1>2, <2>1, ShapeLeaving
<1>8. /\ FileAt(p, <<"pipe", 0>>) = r /\ FileAt(p, <<"pipe", 0>>)' = 0
      /\ InodeAt(p, <<"open", 0>>) = NoInode /\ InodeAt(p, <<"open", 0>>)' = NoInode
      /\ FileAt(p, <<"todo", 1>>) = 0 /\ FileAt(p, <<"todo", 2>>) = 0
      /\ InodeAt(p, <<"todo", 1>>) = NoInode /\ InodeAt(p, <<"todo", 2>>) = NoInode
  BY <1>0, <1>2, PipeEndsAt
<1>9. \A d \in FDs : FileAt(p, <<"fd", d>>)' = FileAt(p, <<"fd", d>>)
  BY <1>0 DEF FileAt
<1>10. AtMost(p, <<"pipe", 0>>, <<"todo", 1>>, <<"todo", 2>>)
  <2>1. \A x \in FilePlaces : x # <<"pipe", 0>> /\ x # <<"todo", 1>> /\ x # <<"todo", 2>>
                              => FileAt(p, x)' = FileAt(p, x)
    BY <1>9, PlaceFacts
  <2> QED BY <1>5, <2>1, OnlyAt DEF AtMost
<1>11. /\ <<"pipe", 0>> \in FilePlaces /\ <<"todo", 1>> \in FilePlaces /\ <<"todo", 2>> \in FilePlaces
       /\ <<"pipe", 0>> # <<"todo", 1>> /\ <<"pipe", 0>> # <<"todo", 2>> /\ <<"todo", 1>> # <<"todo", 2>>
  BY PlaceFacts
<1>12. ASSUME NEW g \in FIds
       PROVE  /\ Cardinality(Holders(g)) \in Nat
              /\ Cardinality(Holders(g)') = Cardinality(Holders(g)) + Same(w, g)
  <2>1. /\ Cardinality(Holders(g)) \in Nat
        /\ Cardinality(Holders(g)') =
              Cardinality(Holders(g)) + Same(FileAt(p, <<"pipe", 0>>)', g) + Same(FileAt(p, <<"todo", 1>>)', g)
                + Same(FileAt(p, <<"todo", 2>>)', g)
                - (Same(FileAt(p, <<"pipe", 0>>), g) + Same(FileAt(p, <<"todo", 1>>), g)
                     + Same(FileAt(p, <<"todo", 2>>), g))
    BY <1>10, <1>11, HoldersThree
  <2>2. Same(0, g) = 0
    BY SameType, Constants
  <2>3. Same(FileAt(p, <<"todo", 1>>)', g) + Same(FileAt(p, <<"todo", 2>>)', g) = Same(r, g) + Same(w, g)
    BY <1>6
  <2> QED BY <1>8, <2>1, <2>2, <2>3, SameType
<1>13. \A i : Cardinality(Callers(i)') = Cardinality(Callers(i))
  <2>1. \A x \in InodePlaces : InodeAt(p, x)' = InodeAt(p, x)
    BY <1>6, <1>8 DEF InodePlaces
  <2>2. \A i : Callers(i)' = Callers(i)
    BY <1>5, <2>1, OnlyAt DEF Callers
  <2> QED BY <2>2
<1>14. ASSUME NEW k \in 1..2 PROVE Ends(ItemOf(todo'[p], k)) = Ends(ItemOf(todo[p], k))
  <2>1. todo[p] = <<>> /\ Ends(<<"close", r>>) = <<"none", 0>> /\ Ends(<<"close", w>>) = <<"none", 0>>
    BY <1>0, NoEnds DEF PipeEnds
  <2>2. Ends(ItemOf(<<>>, k)) = <<"none", 0>>
    BY <2>1, NewItems
  <2>3. Ends(ItemOf(todo'[p], k)) = <<"none", 0>>
    <3>1. CASE w = 0
      BY <1>4, <2>1, <3>1, NewItems
    <3>2. CASE w # 0
      BY <1>4, <2>1, <3>2, NewItems
    <3> QED BY <3>1, <3>2
  <2> QED BY <2>1, <2>2, <2>3
<1> QED BY <1>2, <1>4, <1>5, <1>7, <1>12, <1>13, <1>14

\* No second file, or no page.
PipeFails(p, r, w) ==
  /\ PipeLeaves(p, r, w) /\ ends' = ends
  /\ \/ w = 0 /\ file' = file
     \/ w \in FIds /\ file[w] = NoFile /\ file' = [file EXCEPT ![w].ref = 1]

LEMMA PipeFailsKeeps ==
  ASSUME FilesInv, NEW p \in Procs, NEW r, NEW w, PipeFails(p, r, w)
  PROVE  FilesInv'
<1>0. Typed /\ PipeLeaves(p, r, w) /\ ends' = ends
  BY DEF FilesInv, PipeFails
<1>1. /\ todo' \in [Procs -> Todos] /\ Only(p) /\ Shape(p)'
      /\ pc' \in [Procs -> Labels] /\ pc'[p] = "leaving"
      /\ \A g \in FIds : /\ Cardinality(Holders(g)) \in Nat
                         /\ Cardinality(Holders(g)') = Cardinality(Holders(g)) + Same(w, g)
      /\ \A i : Cardinality(Callers(i)') = Cardinality(Callers(i))
      /\ \A k \in 1..2 : Ends(ItemOf(todo'[p], k)) = Ends(ItemOf(todo[p], k))
  BY <1>0, PipeLeavesFacts
<1>2. /\ file' \in [FIds -> FileRecs]
      /\ \A g \in FIds : /\ file'[g].type = file[g].type /\ file'[g].ip = file[g].ip
                         /\ file'[g].off = file[g].off /\ file'[g].writable = file[g].writable
                         /\ file'[g].ref = 0 => file'[g] = NoFile
                         /\ file'[g].ref = file[g].ref + Same(w, g) /\ file[g].ref \in Nat
      /\ \A q \in Procs : q # p /\ pc[q] = "piping" => file'[cur[q].f] = file[cur[q].f]
  <2>1. CASE w = 0
    <3>1. file' = file /\ \A g \in FIds : Same(w, g) = 0
      BY <2>1, Constants, SameType DEF PipeFails
    <3>2. file \in [FIds -> FileRecs] /\ \A g \in FIds : file[g].ref \in Nat /\ (file[g].ref = 0 => file[g] = NoFile)
      BY <1>0, FileType DEF FilesInv, FileSound, Typed, TypeOK
    <3> QED BY <3>1, <3>2
  <2>2. CASE w # 0
    <3>1. w \in FIds /\ file[w] = NoFile /\ file' = [file EXCEPT ![w].ref = 1]
      BY <2>2 DEF PipeFails
    <3> QED BY <3>1, TakenFile, PipingKept
  <2> QED BY <2>1, <2>2
<1>3. ASSUME NEW g \in FIds
      PROVE  file'[g].ref - file[g].ref = Cardinality(Holders(g)') - Cardinality(Holders(g))
  BY <1>1, <1>2, SameType
<1>4. /\ UNCHANGED <<blockvars, ends, inodevars, panic, grown>> /\ NoLock(p)
      /\ cur' \in [Procs -> Locals] /\ ofile' \in [Procs -> [FDs -> 0..NFILE]]
  BY <1>0 DEF PipeLeaves, PipeEnds, Typed, TypeOK
<1>5. Passes(p)
  BY <1>1, <1>2, <1>3, <1>4 DEF Passes
<1> QED BY <1>1, <1>5, PassesKeeps

\* The pipe is made: r and w are its ends, and counted.
PipeMade(p, r, w, x) ==
  /\ PipeEnds(p, r) /\ w \in FIds /\ file[w] = NoFile /\ x \in Pipes /\ ends[x] = {}
  /\ file' = [file EXCEPT ![r] = PipeEnd(x, FALSE), ![w] = PipeEnd(x, TRUE)]
  /\ ends' = [ends EXCEPT ![x] = BOOLEAN]
  /\ todo' \in [Procs -> Todos] /\ ofile' \in [Procs -> [FDs -> 0..NFILE]] /\ Only(p)
  /\ pc' \in [Procs -> Labels] /\ pc'[p] # "writei"
  /\ \A k \in 1..2 : Ends(ItemOf(todo'[p], k)) = Ends(ItemOf(todo[p], k))
  /\ \A g \in FIds : /\ Cardinality(Holders(g)) \in Nat
                     /\ Cardinality(Holders(g)') = Cardinality(Holders(g)) + Same(w, g)
  /\ \A i : Cardinality(Callers(i)') = Cardinality(Callers(i))

LEMMA PipeMadeKeeps ==
  ASSUME FilesInv, NEW p \in Procs, NEW r, NEW w, NEW x, PipeMade(p, r, w, x), Shape(p)'
  PROVE  FilesInv'
<1>0. Typed /\ FilesCounted /\ InodesCounted /\ EndsHeld /\ \A g \in FIds : FileSound(g)
  BY DEF FilesInv
<1>1. /\ bitmap' = bitmap /\ data' = data /\ addrs' = addrs /\ size' = size /\ grown' = grown
      /\ panic' = panic /\ used' = used /\ iref' = iref /\ nlink' = nlink /\ lock' = lock
  BY DEF PipeMade, PipeEnds, blockvars, inodevars
<1>2. /\ PipeEnds(p, r) /\ pc[p] = "piping" /\ NoLock(p) /\ r = cur[p].f /\ r \in FIds /\ w \in FIds
      /\ x \in Pipes /\ ends[x] = {} /\ Only(p) /\ cur' \in [Procs -> Locals]
      /\ file[r].ref = 1 /\ file[r].type = "none" /\ file[w].ref = 0 /\ file[w].type = "none"
  BY DEF PipeMade, PipeEnds, NoFile
<1>3. r # w
  BY <1>2
<1>4. /\ file' \in [FIds -> FileRecs] /\ (\A g \in FIds : g # r /\ g # w => file'[g] = file[g])
      /\ file'[r].ref = 1 /\ file'[r].type = "pipe" /\ file'[r].ip = x /\ file'[r].writable = FALSE
      /\ file'[w].ref = 1 /\ file'[w].type = "pipe" /\ file'[w].ip = x /\ file'[w].writable = TRUE
  <2> DEFINE a == PipeEnd(x, FALSE)
             b == PipeEnd(x, TRUE)
  <2>1. /\ a \in FileRecs /\ a.ref = 1 /\ a.type = "pipe" /\ a.ip = x /\ a.writable = FALSE
        /\ b \in FileRecs /\ b.ref = 1 /\ b.type = "pipe" /\ b.ip = x /\ b.writable = TRUE
    BY <1>2 DEF PipeEnd, FileRecs
  <2>2. file' = [file EXCEPT ![r] = a, ![w] = b] /\ file \in [FIds -> FileRecs]
    BY <1>0 DEF PipeMade, Typed, TypeOK
  <2> HIDE DEF a, b
  <2> QED BY <1>2, <1>3, <2>1, <2>2
<1>5. /\ ends' \in [Pipes -> SUBSET BOOLEAN] /\ ends'[x] = BOOLEAN
      /\ \A y \in Pipes : y # x => ends'[y] = ends[y]
  BY <1>0, <1>2 DEF PipeMade, Typed
<1>6. ASSUME NEW g \in FIds, file[g].type = "pipe" PROVE file[g].ip # x /\ file'[g] = file[g]
  <2>1. file[g].ip = x => FileHas(g, x, file[g].writable) /\ file[g].writable \in BOOLEAN
    BY <1>0, <1>6, FileType DEF FileHas
  <2>2. file[g].ip # x
    BY <1>0, <1>2, <2>1 DEF EndsHeld
  <2> QED BY <1>2, <1>4, <1>6, <2>2
<1>7. Typed'
  <2>1. \A g \in FIds : file'[g].type = "inode" => file'[g].off <= size'[file'[g].ip]
    <3>1. \A g \in FIds : file[g].type = "inode" => file[g].off <= size[file[g].ip]
      BY <1>0 DEF Typed, TypeOK
    <3>2. \A g \in FIds : file'[g].type = "inode" => file'[g] = file[g]
      BY <1>4
    <3> QED BY <1>1, <3>1, <3>2
  <2>2. /\ todo' \in [Procs -> Todos] /\ ofile' \in [Procs -> [FDs -> 0..NFILE]]
        /\ pc' \in [Procs -> Labels]
    BY DEF PipeMade
  <2>3. Typed
    BY <1>0
  <2>4. cur' \in [Procs -> Locals] /\ file' \in [FIds -> FileRecs] /\ ends' \in [Pipes -> SUBSET BOOLEAN]
    BY <1>2, <1>4, <1>5
  <2>5. TypeOK'
    BY <1>1, <2>1, <2>2, <2>3, <2>4 DEF Typed, TypeOK, Labels
  <2> QED BY <1>1, <2>2, <2>3, <2>4, <2>5 DEF Typed, Indirect, IsData
<1>8. Apart(p)
  <2>1. ASSUME NEW q \in Procs, q # p, pc[q] \in {"piping", "write", "writei"}
        PROVE  cur[q].f \in FIds /\ cur[q].f # r /\ cur[q].f # w
    <3>1. <<"pipe", 0>> \in FilePlaces /\ FileAt(p, <<"pipe", 0>>) = r
      BY <1>2, PlaceFacts, FileAtFacts
    <3>2. /\ pc[q] = "piping" => /\ cur[q].f \in FIds /\ file[cur[q].f].ref = 1
                                 /\ FileAt(p, <<"pipe", 0>>) # cur[q].f
          /\ pc[q] \in {"write", "writei"} =>
              /\ cur[q].f \in FIds /\ file[cur[q].f].ref >= 1
              /\ FileAt(p, <<"pipe", 0>>) = cur[q].f => file[cur[q].f].ref >= 2
      BY <2>1, <3>1, OthersFiles
    <3> QED BY <1>2, <2>1, <3>1, <3>2
  <2> QED BY <1>1, <1>2, <1>4, <2>1, PutsInUsed DEF Apart
<1>9. \A q \in Procs : Shape(q)'
  BY <1>8, OthersKeep
<1>10. Calm
  <2>1. Only(p) /\ pc'[p] # "writei"
    BY DEF PipeMade
  <2> QED BY <1>0, <1>1, <1>2, <2>1, NoLockCalm
<1>11. Owned' /\ Contents' /\ \A j \in Inums : Locked(j)' /\ FreeInode(j)'
  BY <1>10, CalmKeeps
<1>12. ASSUME NEW g \in FIds PROVE FileSound(g)'
  <2>1. CASE g = r \/ g = w
    BY <1>2, <1>4, <2>1 DEF FileSound
  <2>2. CASE g # r /\ g # w
    BY <1>0, <1>1, <1>4, <2>2 DEF FileSound
  <2> QED BY <2>1, <2>2
<1>13. EndsHeld'
  <2>1. ASSUME NEW g \in FIds, NEW q \in Pipes, NEW wr \in BOOLEAN
        PROVE  FileHas(g, q, wr)' <=> \/ q # x /\ FileHas(g, q, wr)
                                      \/ q = x /\ g = IF wr THEN w ELSE r
    <3>1. CASE g = r \/ g = w
      BY <1>2, <1>3, <1>4, <3>1 DEF FileHas
    <3>2. CASE g # r /\ g # w
      BY <1>4, <1>6, <3>2 DEF FileHas
    <3> QED BY <3>1, <3>2
  <2>2. ASSUME NEW o \in Procs, NEW k \in 1..2, NEW q, NEW wr
        PROVE  CallHas(o, k, q, wr)' <=> CallHas(o, k, q, wr)
    <3>1. Item(o, k) = ItemOf(todo[o], k) /\ Item(o, k)' = ItemOf(todo'[o], k)
      BY DEF Item, ItemOf
    <3>2. Ends(ItemOf(todo'[o], k)) = Ends(ItemOf(todo[o], k))
      BY DEF PipeMade, Only
    <3>3. \A y : Ends(y) = <<EndOp(wr), q>> <=> y = <<EndOp(wr), q>>
      BY DEF Ends, EndOp
    <3> QED BY <3>1, <3>2, <3>3 DEF CallHas
  <2>3. \A o \in Procs, k \in 1..2, wr \in BOOLEAN : ~CallHas(o, k, x, wr)
    BY <1>0, <1>2 DEF EndsHeld
  <2> QED BY <1>0, <1>2, <1>3, <1>5, <2>1, <2>2, <2>3 DEF EndsHeld
<1>14. FilesCounted'
  <2>1. ASSUME NEW g \in FIds PROVE file'[g].ref = Cardinality(Holders(g)')
    <3>1. file[g].ref = Cardinality(Holders(g))
      BY <1>0, CountedAs
    <3>2. /\ Cardinality(Holders(g)) \in Nat
          /\ Cardinality(Holders(g)') = Cardinality(Holders(g)) + Same(w, g)
      BY DEF PipeMade
    <3> QED BY <1>2, <1>3, <1>4, <3>1, <3>2 DEF Same
  <2> QED BY <2>1, CountedAs
<1>15. \A i \in Inums : iref'[i] = Cardinality(OpenOn(i)') + Cardinality(Callers(i)')
  <2>1. \A i : OpenOn(i)' = OpenOn(i)
    BY <1>2, <1>4 DEF OpenOn
  <2>2. \A i : Cardinality(Callers(i)') = Cardinality(Callers(i))
    BY DEF PipeMade
  <2> QED BY <1>0, <1>1, <2>1, <2>2, InodesAs
<1>17. InodesCounted'
  BY <1>15, InodesAs
<1> QED BY <1>7, <1>9, <1>11, <1>12, <1>13, <1>14, <1>17 DEF FilesInv

\* Two descriptors take the files over.
LEMMA PipeReturnsFacts ==
  ASSUME FilesInv, NEW p \in Procs, NEW r, NEW w \in FIds, PipeEnds(p, r),
         NEW d \in FDs, NEW e \in FDs, d # e, ofile[p][d] = 0, ofile[p][e] = 0,
         ofile' = [ofile EXCEPT ![p][d] = r, ![p][e] = w],
         pc' = [pc EXCEPT ![p] = "user"], todo' = todo
  PROVE  /\ todo' \in [Procs -> Todos] /\ ofile' \in [Procs -> [FDs -> 0..NFILE]] /\ Only(p)
         /\ Shape(p)' /\ pc' \in [Procs -> Labels] /\ pc'[p] = "user"
         /\ \A g \in FIds : /\ Cardinality(Holders(g)) \in Nat
                            /\ Cardinality(Holders(g)') = Cardinality(Holders(g)) + Same(w, g)
         /\ \A i : Cardinality(Callers(i)') = Cardinality(Callers(i))
<1>0. Typed
  BY DEF FilesInv
<1>1. /\ r \in FIds /\ todo[p] = <<>> /\ cur'[p] = Idle /\ \A q \in Procs : q # p => cur'[q] = cur[q]
  BY DEF PipeEnds
<1>2. pc' \in [Procs -> Labels] /\ pc'[p] = "user" /\ \A q \in Procs : q # p => pc'[q] = pc[q]
  BY <1>0, LabelsType DEF Labels
<1>3. /\ ofile' \in [Procs -> [FDs -> 0..NFILE]] /\ ofile'[p][d] = r /\ ofile'[p][e] = w
      /\ \A c \in FDs : c # d /\ c # e => ofile'[p][c] = ofile[p][c]
      /\ \A q \in Procs : q # p => ofile'[q] = ofile[q]
  <2>1. ofile \in [Procs -> [FDs -> 0..NFILE]]
    BY <1>0 DEF Typed, TypeOK
  <2>2. r \in 0..NFILE /\ w \in 0..NFILE
    BY <1>1 DEF FIds
  <2> QED BY <2>1, <2>2
<1>4. Only(p) /\ todo' \in [Procs -> Todos]
  BY <1>0, <1>1, <1>2, <1>3 DEF Only, Typed
<1>5. Shape(p)'
  BY <1>1, <1>2, ShapeUser
<1>6. /\ FileAt(p, <<"pipe", 0>>) = r /\ FileAt(p, <<"pipe", 0>>)' = 0
      /\ InodeAt(p, <<"open", 0>>) = NoInode /\ InodeAt(p, <<"open", 0>>)' = NoInode
      /\ FileAt(p, <<"todo", 1>>) = 0 /\ FileAt(p, <<"todo", 2>>) = 0
      /\ InodeAt(p, <<"todo", 1>>) = NoInode /\ InodeAt(p, <<"todo", 2>>) = NoInode
  BY <1>2, PipeEndsAt
<1>7. /\ FileAt(p, <<"todo", 1>>)' = 0 /\ FileAt(p, <<"todo", 2>>)' = 0
      /\ InodeAt(p, <<"todo", 1>>)' = NoInode /\ InodeAt(p, <<"todo", 2>>)' = NoInode
  BY <1>1, EmptyAt2
<1>8. /\ FileAt(p, <<"fd", d>>) = 0 /\ FileAt(p, <<"fd", d>>)' = r
      /\ FileAt(p, <<"fd", e>>) = 0 /\ FileAt(p, <<"fd", e>>)' = w
      /\ \A c \in FDs : c # d /\ c # e => FileAt(p, <<"fd", c>>)' = FileAt(p, <<"fd", c>>)
  <2>1. \A c : FileAt(p, <<"fd", c>>) = ofile[p][c]
    BY FileAtFacts
  <2>2. \A c : FileAt(p, <<"fd", c>>)' = ofile'[p][c]
    BY FileAtFacts2
  <2> QED BY <1>3, <2>1, <2>2
<1>9. AtMost(p, <<"pipe", 0>>, <<"fd", d>>, <<"fd", e>>)
  <2>1. \A c \in FilePlaces : c # <<"pipe", 0>> /\ c # <<"fd", d>> /\ c # <<"fd", e>>
                              => FileAt(p, c)' = FileAt(p, c)
    <3>1. \A k \in 1..2 : FileAt(p, <<"todo", k>>)' = FileAt(p, <<"todo", k>>)
      BY <1>6, <1>7
    <3> QED BY <1>8, <3>1, PlaceFacts
  <2> QED BY <1>4, <2>1, OnlyAt DEF AtMost
<1>10. /\ <<"pipe", 0>> \in FilePlaces /\ <<"fd", d>> \in FilePlaces /\ <<"fd", e>> \in FilePlaces
       /\ <<"pipe", 0>> # <<"fd", d>> /\ <<"pipe", 0>> # <<"fd", e>> /\ <<"fd", d>> # <<"fd", e>>
  BY PlaceFacts
<1>11. ASSUME NEW g \in FIds
       PROVE  /\ Cardinality(Holders(g)) \in Nat
              /\ Cardinality(Holders(g)') = Cardinality(Holders(g)) + Same(w, g)
  <2>1. /\ Cardinality(Holders(g)) \in Nat
        /\ Cardinality(Holders(g)') =
              Cardinality(Holders(g)) + Same(FileAt(p, <<"pipe", 0>>)', g) + Same(FileAt(p, <<"fd", d>>)', g)
                + Same(FileAt(p, <<"fd", e>>)', g)
                - (Same(FileAt(p, <<"pipe", 0>>), g) + Same(FileAt(p, <<"fd", d>>), g)
                     + Same(FileAt(p, <<"fd", e>>), g))
    BY <1>9, <1>10, HoldersThree
  <2>2. Same(0, g) = 0
    BY SameType, Constants
  <2> QED BY <1>6, <1>8, <2>1, <2>2, SameType
<1>12. \A i : Cardinality(Callers(i)') = Cardinality(Callers(i))
  <2>1. \A c \in InodePlaces : InodeAt(p, c)' = InodeAt(p, c)
    BY <1>6, <1>7 DEF InodePlaces
  <2>2. \A i : Callers(i)' = Callers(i)
    BY <1>4, <2>1, OnlyAt DEF Callers
  <2> QED BY <2>2
<1> QED BY <1>2, <1>3, <1>4, <1>5, <1>11, <1>12

\* With two free descriptors, fdalloc finds two different ones.
LEMMA FreeTwo ==
  ASSUME FilesInv, NEW p \in Procs, ~(Cardinality(FreeFds(p)) < 2)
  PROVE  \E d, e \in FDs : /\ d = Min(FreeFds(p)) /\ e = Min(FreeFds(p) \ {Min(FreeFds(p))})
                           /\ d # e /\ ofile[p][d] = 0 /\ ofile[p][e] = 0
<1> DEFINE S == FreeFds(p)
           d == Min(S)
           T == S \ {d}
<1>1. S \in SUBSET FDs /\ S \in SUBSET Nat /\ IsFiniteSet(FDs) /\ \A y \in S : ofile[p][y] = 0
  BY Constants DEF FreeFds
<1>2. IsFiniteSet(S)
  BY <1>1, FS_Subset
<1>3. Cardinality({}) = 0 /\ Cardinality(S) \in Nat
  BY <1>2, FS_EmptySet, FS_CardinalityType
<1> HIDE DEF S
<1>4. S # {}
  BY <1>3 DEF S
<1>5. d \in S
  BY <1>1, <1>4, MinNat
<1> HIDE DEF d
<1>6. Cardinality(T) = Cardinality(S) - 1
  BY <1>2, <1>5, FS_RemoveElement
<1>7. T # {} /\ T \in SUBSET Nat
  <2>1. Cardinality(S) >= 2
    BY <1>3 DEF S
  <2>2. Cardinality(T) # 0
    BY <1>3, <1>6, <2>1
  <2> QED BY <1>1, <1>3, <2>2
<1>8. Min(T) \in T
  BY <1>7, MinNat
<1>9. d \in FDs /\ Min(T) \in FDs /\ d # Min(T) /\ ofile[p][d] = 0 /\ ofile[p][Min(T)] = 0
  BY <1>1, <1>5, <1>8
<1> QED BY <1>9 DEF d, S

LEMMA PipeFilesKeeps ==
  ASSUME FilesInv, NEW p \in Procs, PipeFiles(p)
  PROVE  FilesInv'
<1> DEFINE free == {y \in Pipes : ends[y] = {}}
<1>1. At(p, "piping") /\ NoLock(p)
  BY NoLockAt DEF PipeFiles
<1>2. PICK r : r = cur[p].f
  OBVIOUS
<1>3. PICK w : w = Min(FreeFiles)
  OBVIOUS
<1>4. PICK x : x = CHOOSE y \in free : TRUE
  OBVIOUS
<1>5. PipeEnds(p, r)
  <2>1. cur \in [Procs -> Locals] /\ cur' = [cur EXCEPT ![p] = Idle] /\ Idle \in Locals
    BY IdleType DEF PipeFiles, FilesInv, Typed, TypeOK
  <2>2. cur' \in [Procs -> Locals] /\ cur'[p] = Idle /\ \A q \in Procs : q # p => cur'[q] = cur[q]
    BY <2>1
  <2>3. r \in FIds /\ file[r] = [NoFile EXCEPT !.ref = 1]
    BY <1>1, <1>2 DEF At, FilesInv, Shape
  <2>4. UNCHANGED <<blockvars, inodevars, panic, grown>>
    BY DEF PipeFiles
  <2> QED BY <1>1, <1>2, <2>2, <2>3, <2>4 DEF PipeEnds, At
<1>6. FreeFiles # {} => w \in FIds /\ file[w] = NoFile
  BY <1>3, FreeMin
<1>7. free # {} => x \in Pipes /\ ends[x] = {}
  BY <1>4
<1> DEFINE Both == Leave(p, "leaving", <<<<"close", cur[p].f>>, <<"close", Min(FreeFiles)>>>>)
           Pair == /\ file' = [file EXCEPT ![r] = PipeEnd(x, FALSE), ![w] = PipeEnd(x, TRUE)]
                   /\ ends' = [ends EXCEPT ![x] = BOOLEAN]
<1>8. \/ FreeFiles = {} /\ Leave(p, "leaving", <<<<"close", cur[p].f>>>>) /\ UNCHANGED filevars
      \/ /\ FreeFiles # {} /\ free = {} /\ Both /\ UNCHANGED <<ofile, ends>>
         /\ file' = [file EXCEPT ![Min(FreeFiles)].ref = 1]
      \/ FreeFiles # {} /\ free # {} /\ Pair /\ Both /\ UNCHANGED ofile
      \/ /\ FreeFiles # {} /\ free # {} /\ Pair /\ ~(Cardinality(FreeFds(p)) < 2)
         /\ ofile' = [ofile EXCEPT ![p][Min(FreeFds(p))] = r,
                                   ![p][Min(FreeFds(p) \ {Min(FreeFds(p))})] = w]
         /\ Goto(p, "user") /\ UNCHANGED todo
  BY <1>2, <1>3, <1>4 DEF PipeFiles
<1> HIDE DEF free
<1>9. CASE FreeFiles = {} /\ Leave(p, "leaving", <<<<"close", cur[p].f>>>>) /\ UNCHANGED filevars
  <2>1. PipeFails(p, r, 0)
    BY <1>2, <1>5, <1>9 DEF PipeFails, PipeLeaves, Leave, Goto, filevars
  <2> QED BY <2>1, PipeFailsKeeps
<1>10. CASE /\ FreeFiles # {} /\ free = {} /\ Both /\ UNCHANGED <<ofile, ends>>
            /\ file' = [file EXCEPT ![Min(FreeFiles)].ref = 1]
  <2>1. PipeFails(p, r, w)
    BY <1>2, <1>3, <1>5, <1>6, <1>10 DEF PipeFails, PipeLeaves, Leave, Goto
  <2> QED BY <2>1, PipeFailsKeeps
<1>11. CASE FreeFiles # {} /\ free # {} /\ Pair /\ Both /\ UNCHANGED ofile
  <2>1. PipeLeaves(p, r, w)
    BY <1>2, <1>3, <1>5, <1>6, <1>11 DEF PipeLeaves, Leave, Goto
  <2>2. ofile' \in [Procs -> [FDs -> 0..NFILE]]
    BY <1>11 DEF FilesInv, Typed, TypeOK
  <2>3. PipeMade(p, r, w, x) /\ Shape(p)'
    BY <1>5, <1>6, <1>7, <1>11, <2>1, <2>2, PipeLeavesFacts DEF PipeMade
  <2> QED BY <2>3, PipeMadeKeeps
<1>12. CASE /\ FreeFiles # {} /\ free # {} /\ Pair /\ ~(Cardinality(FreeFds(p)) < 2)
            /\ ofile' = [ofile EXCEPT ![p][Min(FreeFds(p))] = r,
                                      ![p][Min(FreeFds(p) \ {Min(FreeFds(p))})] = w]
            /\ Goto(p, "user") /\ UNCHANGED todo
  <2>1. PICK d \in FDs, e \in FDs : /\ d = Min(FreeFds(p)) /\ e = Min(FreeFds(p) \ {Min(FreeFds(p))})
                                    /\ d # e /\ ofile[p][d] = 0 /\ ofile[p][e] = 0
    BY <1>12, FreeTwo
  <2>2. /\ ofile' = [ofile EXCEPT ![p][d] = r, ![p][e] = w]
        /\ pc' = [pc EXCEPT ![p] = "user"] /\ todo' = todo /\ w \in FIds
    BY <1>6, <1>12, <2>1 DEF Goto
  <2>3. /\ todo' \in [Procs -> Todos] /\ ofile' \in [Procs -> [FDs -> 0..NFILE]] /\ Only(p)
        /\ Shape(p)' /\ pc' \in [Procs -> Labels] /\ pc'[p] = "user"
        /\ \A g \in FIds : /\ Cardinality(Holders(g)) \in Nat
                           /\ Cardinality(Holders(g)') = Cardinality(Holders(g)) + Same(w, g)
        /\ \A i : Cardinality(Callers(i)') = Cardinality(Callers(i))
    BY <1>5, <2>1, <2>2, PipeReturnsFacts
  <2>4. PipeMade(p, r, w, x)
    BY <1>5, <1>6, <1>7, <1>12, <2>3 DEF PipeMade
  <2> QED BY <2>3, <2>4, PipeMadeKeeps
<1> QED BY <1>8, <1>9, <1>10, <1>11, <1>12


----------------------------------------------------------------------------
(* Blocks: who points to them *)

LEMMA BlockConstants ==
  /\ NDIRECT \in Nat /\ NDIRECT \in 0..NDIRECT /\ BSIZE \in Nat \ {0} /\ NINDIRECT = BSIZE
  /\ MAXFILE = NDIRECT + BSIZE /\ MAXFILE * BSIZE \in Nat
  /\ 0 \notin Blocks /\ Blocks \subseteq 0..NBLOCKS /\ Blocks \subseteq Nat
  /\ \A b \in 0..NBLOCKS : b # 0 => b \in Blocks
BY BlocksAssumption DEF NINDIRECT, MAXFILE, Blocks

LEMMA PointerFacts ==
  /\ \A k \in 0..NDIRECT : <<"addr", k>> \in Pointers
  /\ \A j \in 0..(NINDIRECT - 1) : <<"entry", j>> \in Pointers
  /\ \A x \in Pointers : \/ \E k \in 0..NDIRECT : x = <<"addr", k>>
                         \/ \E j \in 0..(NINDIRECT - 1) : x = <<"entry", j>>
BY DEF Pointers

LEMMA PtrFacts ==
  ASSUME Typed, NEW i \in Inums
  PROVE  /\ From(i) \in Nat
         /\ \A k : Ptr(i, <<"addr", k>>) = addrs[i][k]
         /\ \A j \in 0..(NINDIRECT - 1) : Ptr(i, <<"entry", j>>) =
              IF addrs[i][NDIRECT] # 0 /\ From(i) <= j THEN data[addrs[i][NDIRECT]][j] ELSE 0
<1>1. lock[i] \in Procs \union {NoProc}
  BY DEF Typed, TypeOK
<1>2. From(i) \in Nat
  BY <1>1, Types DEF From
<1>3. NINDIRECT \in Nat
  BY BlockConstants
<1> QED BY <1>2, <1>3 DEF Ptr, PointsTo, Entries, Indirect

\* The same in the state after a step.
LEMMA PtrFacts2 ==
  ASSUME Typed', NEW i \in Inums
  PROVE  /\ From(i)' \in Nat
         /\ \A k : Ptr(i, <<"addr", k>>)' = addrs'[i][k]
         /\ \A j \in 0..(NINDIRECT - 1) : Ptr(i, <<"entry", j>>)' =
              IF addrs'[i][NDIRECT] # 0 /\ From(i)' <= j THEN data'[addrs'[i][NDIRECT]][j] ELSE 0
<1>1. /\ lock'[i] \in Procs \union {NoProc}
      /\ lock'[i] \in Procs => cur'[lock'[i]] \in Locals
  BY DEF Typed, TypeOK
<1>2. From(i)' \in Nat
  BY <1>1 DEF From, Locals
<1>3. NINDIRECT \in Nat
  BY BlockConstants
<1> QED BY <1>2, <1>3 DEF Ptr, PointsTo, Entries, Indirect

\* Every pointer is 0 or a block.
LEMMA PtrType ==
  ASSUME Typed, NEW i \in Inums, NEW x \in Pointers, Ptr(i, x) # 0
  PROVE  Ptr(i, x) \in Blocks
<1>1. addrs \in [Inums -> [0..NDIRECT -> 0..NBLOCKS]]
  BY DEF Typed, TypeOK
<1>2. addrs[i][NDIRECT] # 0 => \A j \in 0..(NINDIRECT - 1) : data[addrs[i][NDIRECT]][j] \in 0..NBLOCKS
  BY DEF Typed, Indirect
<1>3. Ptr(i, x) \in 0..NBLOCKS
  <2>1. CASE \E k \in 0..NDIRECT : x = <<"addr", k>>
    <3>1. PICK k \in 0..NDIRECT : x = <<"addr", k>>
      BY <2>1
    <3>2. Ptr(i, x) = addrs[i][k]
      BY <3>1, PtrFacts
    <3> QED BY <1>1, <3>2
  <2>2. CASE \E j \in 0..(NINDIRECT - 1) : x = <<"entry", j>>
    BY <1>2, <2>2, PtrFacts
  <2> QED BY <2>1, <2>2, PointerFacts
<1> QED BY <1>3, BlockConstants

\* All pointers but pointer x of inode i are as they were.
OthersPoint(i, x) ==
  \A j \in Inums, y \in Pointers : j # i \/ y # x => Ptr(j, y)' = Ptr(j, y)

LEMMA OwnedSame ==
  ASSUME Owned, bitmap' = bitmap, \A j \in Inums, y \in Pointers : Ptr(j, y)' = Ptr(j, y)
  PROVE  Owned'
BY DEF Owned

\* A free block gets its first owner.
LEMMA OwnedTake ==
  ASSUME Owned, NEW i \in Inums, NEW x \in Pointers, NEW b, b # 0, b \notin bitmap, 0 \notin bitmap,
         bitmap' = bitmap \union {b}, Ptr(i, x) = 0, Ptr(i, x)' = b, OthersPoint(i, x)
  PROVE  Owned'
<1>1. ASSUME NEW j \in Inums, NEW y \in Pointers
      PROVE  \/ j = i /\ y = x /\ Ptr(j, y)' = b
             \/ Ptr(j, y)' = Ptr(j, y) /\ Ptr(j, y) # b /\ (Ptr(j, y) # 0 => Ptr(j, y) \in bitmap)
  BY DEF OthersPoint, Owned
<1>2. \A j \in Inums, y \in Pointers : Ptr(j, y)' # 0 => Ptr(j, y)' \in bitmap'
  BY <1>1
<1>3. ASSUME NEW j \in Inums, NEW k \in Inums, NEW y \in Pointers, NEW z \in Pointers,
             Ptr(j, y)' = Ptr(k, z)', Ptr(j, y)' # 0
      PROVE  j = k /\ y = z
  <2>1. \/ j = i /\ y = x /\ Ptr(j, y)' = b
        \/ Ptr(j, y)' = Ptr(j, y) /\ Ptr(j, y) # b
    BY <1>1
  <2>2. \/ k = i /\ z = x /\ Ptr(k, z)' = b
        \/ Ptr(k, z)' = Ptr(k, z) /\ Ptr(k, z) # b
    BY <1>1
  <2> QED BY <1>3, <2>1, <2>2 DEF Owned
<1>4. ASSUME NEW c \in bitmap' PROVE \E j \in Inums, y \in Pointers : Ptr(j, y)' = c
  <2>1. CASE c = b
    BY <2>1
  <2>2. CASE c # b
    <3>1. PICK j \in Inums, y \in Pointers : Ptr(j, y) = c
      BY <2>2 DEF Owned
    <3>2. Ptr(j, y)' = c
      <4>1. c # 0 \/ j # i \/ y # x
        BY <2>2, <3>1, <1>4 DEF Owned
      <4> QED BY <3>1, <4>1 DEF OthersPoint
    <3> QED BY <3>2
  <2> QED BY <2>1, <2>2
<1> QED BY <1>2, <1>3, <1>4 DEF Owned

\* A block loses its owner and is free.
LEMMA OwnedRelease ==
  ASSUME Owned, NEW i \in Inums, NEW x \in Pointers, NEW b, b # 0, Ptr(i, x) = b,
         bitmap' = bitmap \ {b}, Ptr(i, x)' = 0, OthersPoint(i, x)
  PROVE  Owned'
<1>1. ASSUME NEW j \in Inums, NEW y \in Pointers
      PROVE  \/ j = i /\ y = x /\ Ptr(j, y)' = 0
             \/ Ptr(j, y)' = Ptr(j, y) /\ Ptr(j, y) # b /\ (Ptr(j, y) # 0 => Ptr(j, y) \in bitmap)
  BY DEF OthersPoint, Owned
<1>2. \A j \in Inums, y \in Pointers : Ptr(j, y)' # 0 => Ptr(j, y)' \in bitmap'
  BY <1>1
<1>3. ASSUME NEW j \in Inums, NEW k \in Inums, NEW y \in Pointers, NEW z \in Pointers,
             Ptr(j, y)' = Ptr(k, z)', Ptr(j, y)' # 0
      PROVE  j = k /\ y = z
  <2>1. Ptr(j, y)' = Ptr(j, y) /\ Ptr(k, z)' = Ptr(k, z)
    BY <1>1, <1>3
  <2>2. Ptr(j, y) = Ptr(k, z) /\ Ptr(j, y) # 0
    BY <1>3, <2>1
  <2> QED BY <2>2 DEF Owned
<1>4. ASSUME NEW c \in bitmap' PROVE \E j \in Inums, y \in Pointers : Ptr(j, y)' = c
  <2>1. PICK j \in Inums, y \in Pointers : Ptr(j, y) = c
    BY DEF Owned
  <2>2. Ptr(j, y)' = c
    BY <2>1 DEF OthersPoint
  <2> QED BY <2>2
<1> QED BY <1>2, <1>3, <1>4 DEF Owned

----------------------------------------------------------------------------
(* The bytes of a file *)

\* The pointer that leads to block n of a file.
Slot(n) == IF n < NDIRECT THEN <<"addr", n>> ELSE <<"entry", n - NDIRECT>>

LEMMA SlotFacts ==
  ASSUME NEW n \in 0..(MAXFILE - 1)
  PROVE  /\ Slot(n) \in Pointers /\ Slot(n) # <<"addr", NDIRECT>>
         /\ \A m \in 0..(MAXFILE - 1) : Slot(m) = Slot(n) => m = n
<1>1. n \in Int /\ NDIRECT \in Nat
  BY BlockConstants
<1>2. CASE n < NDIRECT
  <2>1. Slot(n) = <<"addr", n>> /\ n \in 0..NDIRECT /\ n # NDIRECT
    BY <1>1, <1>2 DEF Slot
  <2> QED BY <2>1, PointerFacts DEF Slot
<1>3. CASE ~(n < NDIRECT)
  <2>1. Slot(n) = <<"entry", n - NDIRECT>> /\ n - NDIRECT \in 0..(NINDIRECT - 1)
    BY <1>1, <1>3, BlockConstants DEF Slot
  <2>2. \A m \in 0..(MAXFILE - 1) : Slot(m) = Slot(n) => m - NDIRECT = n - NDIRECT
    BY <2>1 DEF Slot
  <2> QED BY <1>1, <2>1, <2>2, PointerFacts
<1> QED BY <1>2, <1>3

\* Where an offset lies.
LEMMA Offset ==
  ASSUME NEW k \in 0..(MAXFILE * BSIZE - 1)
  PROVE  /\ k \div BSIZE \in 0..(MAXFILE - 1) /\ k % BSIZE \in 0..(BSIZE - 1)
         /\ k = BSIZE * (k \div BSIZE) + (k % BSIZE)
<1>1. BSIZE \in Nat \ {0} /\ MAXFILE \in Nat /\ k \in Int /\ MAXFILE * BSIZE \in Nat
  BY BlockConstants
<1>2. /\ k % BSIZE \in 0..(BSIZE - 1) /\ k \div BSIZE \in Int
      /\ k = BSIZE * (k \div BSIZE) + (k % BSIZE)
  BY <1>1, ModDef
<1>3. PICK n \in Int, r \in 0..(BSIZE - 1) : n = k \div BSIZE /\ r = k % BSIZE
  BY <1>2
<1>4. n >= 0
  <2>1. n <= -1 => BSIZE * n <= -BSIZE
    BY <1>1
  <2> QED BY <1>1, <1>2, <1>3, <2>1
<1>5. n < MAXFILE
  <2>1. n >= MAXFILE => BSIZE * n >= MAXFILE * BSIZE
    BY <1>1
  <2> QED BY <1>1, <1>2, <1>3, <2>1
<1> QED BY <1>1, <1>2, <1>3, <1>4, <1>5

LEMMA SameOffset ==
  ASSUME NEW n \in Int, NEW r \in 0..(BSIZE - 1)
  PROVE  (BSIZE * n + r) \div BSIZE = n /\ (BSIZE * n + r) % BSIZE = r
<1>1. BSIZE \in Nat \ {0}
  BY BlockConstants
<1>2. (BSIZE * n + r) % BSIZE = r
  BY <1>1, ModUnique
<1>3. (BSIZE * n + r) \div BSIZE = n
  BY <1>1, Z3
<1> QED BY <1>2, <1>3

\* The block bmap finds, while nobody truncates the file.
LEMMA BmapIs ==
  ASSUME Typed, NEW i \in Inums, From(i) = 0, NEW n \in 0..(MAXFILE - 1)
  PROVE  Bmap(i, n) = Ptr(i, Slot(n))
<1>1. CASE n < NDIRECT
  BY <1>1, PtrFacts DEF Slot, Bmap
<1>2. CASE ~(n < NDIRECT)
  <2>1. n - NDIRECT \in 0..(NINDIRECT - 1) /\ 0 <= n - NDIRECT
    BY <1>2, BlockConstants
  <2>2. Ptr(i, <<"entry", n - NDIRECT>>) =
          IF addrs[i][NDIRECT] # 0 THEN data[addrs[i][NDIRECT]][n - NDIRECT] ELSE 0
    BY <2>1, PtrFacts
  <2> QED BY <1>2, <2>2 DEF Slot, Bmap, Indirect
<1> QED BY <1>1, <1>2

\* A byte is right when its block is there and holds it.
LEMMA RightIs ==
  ASSUME Typed, NEW i \in Inums, From(i) = 0, NEW k \in 0..(MAXFILE * BSIZE - 1)
  PROVE  Right(i, k) <=> /\ Ptr(i, Slot(k \div BSIZE)) # 0
                         /\ data[Ptr(i, Slot(k \div BSIZE))][k % BSIZE] = <<i, k>>
<1>1. PICK n \in 0..(MAXFILE - 1) : n = k \div BSIZE
  BY Offset
<1>2. Bmap(i, n) = Ptr(i, Slot(n))
  BY BmapIs
<1> QED BY <1>1, <1>2 DEF Right, Byte

LEMMA RightIs2 ==
  ASSUME Typed', NEW i \in Inums, From(i)' = 0, NEW k \in 0..(MAXFILE * BSIZE - 1)
  PROVE  Right(i, k)' <=> /\ Ptr(i, Slot(k \div BSIZE))' # 0
                          /\ data'[Ptr(i, Slot(k \div BSIZE))'][k % BSIZE] = <<i, k>>
<1>1. PICK n \in 0..(MAXFILE - 1) : n = k \div BSIZE
  BY Offset
<1>2. Bmap(i, n)' = Ptr(i, Slot(n))'
  <2>1. CASE n < NDIRECT
    BY <2>1, PtrFacts2 DEF Slot, Bmap
  <2>2. CASE ~(n < NDIRECT)
    <3>1. n - NDIRECT \in 0..(NINDIRECT - 1) /\ 0 <= n - NDIRECT
      BY <2>2, BlockConstants
    <3>2. Ptr(i, <<"entry", n - NDIRECT>>)' =
            IF addrs'[i][NDIRECT] # 0 THEN data'[addrs'[i][NDIRECT]][n - NDIRECT] ELSE 0
      BY <3>1, PtrFacts2
    <3> QED BY <2>2, <3>2 DEF Slot, Bmap, Indirect
  <2> QED BY <2>1, <2>2
<1> QED BY <1>1, <1>2 DEF Right, Byte

\* Overwriting one block.
IsCells(F) == F = [c \in 0..(BSIZE - 1) |-> F[c]]
Overwrites(D, b, F, E) == IsData(D) /\ b \in Blocks /\ IsCells(F) /\ E = [D EXCEPT ![b] = F]

LEMMA DataExcept ==
  ASSUME NEW D, NEW b, NEW F, NEW E, Overwrites(D, b, F, E)
  PROVE  IsData(E) /\ E[b] = F /\ \A c \in Blocks : c # b => E[c] = D[c]
<1>0. IsData(D) /\ b \in Blocks /\ IsCells(F) /\ E = [D EXCEPT ![b] = F]
  BY DEF Overwrites
<1>1. DOMAIN D = Blocks
  BY <1>0 DEF IsData
<1>2. E[b] = F /\ \A c \in Blocks : c # b => E[c] = D[c]
  BY <1>0, <1>1
<1>3. \A c \in Blocks : D[c] = [d \in 0..(BSIZE - 1) |-> D[c][d]]
  BY <1>0 DEF IsData
<1>4. \A c \in Blocks : E[c] = [d \in 0..(BSIZE - 1) |-> E[c][d]]
  BY <1>0, <1>2, <1>3 DEF IsCells
<1>5. E = [c \in Blocks |-> E[c]]
  BY <1>0, <1>1
<1> QED BY <1>2, <1>4, <1>5 DEF IsData

\* Who holds what, when a call only changes its own locals.
LEMMA PlacesSame ==
  ASSUME NEW p \in Procs, Only(p), ofile' = ofile,
         \A k \in 1..2 : /\ Closes(ItemOf(todo'[p], k)) = Closes(ItemOf(todo[p], k))
                         /\ Puts(ItemOf(todo'[p], k)) = Puts(ItemOf(todo[p], k)),
         pc[p] \notin {"piping", "opening"}, pc'[p] \notin {"piping", "opening"}
  PROVE  \A q \in Procs : /\ \A x \in FilePlaces : FileAt(q, x)' = FileAt(q, x)
                          /\ \A x \in InodePlaces : InodeAt(q, x)' = InodeAt(q, x)
<1>1. ASSUME NEW q \in Procs, NEW x \in FilePlaces PROVE FileAt(q, x)' = FileAt(q, x)
  <2>1. \A k \in 1..2 : Closes(ItemOf(todo'[q], k)) = Closes(ItemOf(todo[q], k))
    BY DEF Only
  <2>2. (pc[q] = "piping" <=> pc'[q] = "piping") /\ (pc[q] = "piping" => cur'[q] = cur[q])
    BY DEF Only
  <2>3. CASE \E d \in FDs : x = <<"fd", d>>
    <3>1. PICK d \in FDs : x = <<"fd", d>>
      BY <2>3
    <3>2. FileAt(q, <<"fd", d>>) = ofile[q][d]
      BY FileAtFacts
    <3>3. FileAt(q, <<"fd", d>>)' = ofile'[q][d]
      BY FileAtFacts2
    <3> QED BY <3>1, <3>2, <3>3
  <2>4. CASE \E k \in 1..2 : x = <<"todo", k>>
    BY <2>1, <2>4, FileAtFacts, FileAtFacts2
  <2>5. CASE x = <<"pipe", 0>>
    BY <2>2, <2>5, FileAtFacts, FileAtFacts2
  <2> QED BY <2>3, <2>4, <2>5, PlaceFacts
<1>2. ASSUME NEW q \in Procs, NEW x \in InodePlaces PROVE InodeAt(q, x)' = InodeAt(q, x)
  <2>1. \A k \in 1..2 : Puts(ItemOf(todo'[q], k)) = Puts(ItemOf(todo[q], k))
    BY DEF Only
  <2>2. (pc[q] = "opening" <=> pc'[q] = "opening") /\ (pc[q] = "opening" => cur'[q] = cur[q])
    BY DEF Only
  <2>4. CASE \E k \in 1..2 : x = <<"todo", k>>
    BY <2>1, <2>4, FileAtFacts, FileAtFacts2
  <2>5. CASE x = <<"open", 0>>
    BY <2>2, <2>5, FileAtFacts, FileAtFacts2
  <2> QED BY <2>4, <2>5, PlaceFacts
<1> QED BY <1>1, <1>2

----------------------------------------------------------------------------
(* write *)

\* What a writer knows between two of its steps.
LEMMA WriterFacts ==
  ASSUME FilesInv, NEW p \in Procs, pc[p] \in {"write", "writei"}
  PROVE  /\ todo[p] = <<>> /\ cur[p].f \in FIds /\ file[cur[p].f].type = "inode"
         /\ file[cur[p].f].ip \in Inums /\ file[cur[p].f].ip \in used /\ file[cur[p].f].ref # 0
         /\ cur[p].n \in Nat /\ cur[p].n > 0 /\ cur[p].off \in Nat /\ cur[p].left \in Nat
         /\ file[cur[p].f].off \in Nat /\ file[cur[p].f].off <= size[file[cur[p].f].ip]
         /\ Piece(p) \in Nat /\ Piece(p) > 0 /\ Piece(p) <= cur[p].n
         /\ pc[p] = "writei" =>
              /\ cur[p].ip = file[cur[p].f].ip /\ lock[cur[p].ip] = p /\ From(cur[p].ip) = 0
              /\ cur[p].off + cur[p].left = file[cur[p].f].off + Piece(p)
              /\ cur[p].off + cur[p].left <= MAXFILE * BSIZE
              /\ \A i \in Inums : lock[i] = p => i = cur[p].ip
<1>0. Typed /\ Shape(p) /\ \A g \in FIds : FileSound(g)
  BY DEF FilesInv
<1>1. /\ todo[p] = <<>> /\ cur[p].f \in FIds /\ file[cur[p].f].type = "inode"
      /\ file[cur[p].f].ip \in Inums /\ file[cur[p].f].ip \in used /\ cur[p].n > 0
  BY <1>0, ShapeFacts DEF Shape, Writing
<1>2. cur[p].n \in Nat /\ cur[p].off \in Nat /\ cur[p].left \in Nat
  BY <1>0, Types
<1>3. /\ file[cur[p].f].off \in Nat /\ file[cur[p].f].off <= size[file[cur[p].f].ip]
      /\ file[cur[p].f].ref # 0
  <2>1. file[cur[p].f].ref # 0
    BY <1>0, <1>1 DEF FileSound, NoFile
  <2>2. file[cur[p].f].off <= size[file[cur[p].f].ip]
    BY <1>0, <1>1 DEF Typed, TypeOK
  <2> QED BY <1>0, <1>1, <2>1, <2>2, FileType
<1>4. Piece(p) \in Nat /\ Piece(p) > 0 /\ Piece(p) <= cur[p].n
  <2>1. MAXWRITE \in Nat \ {0}
    BY FilesAssumption
  <2>2. Piece(p) = IF cur[p].n <= MAXWRITE THEN cur[p].n ELSE MAXWRITE
    BY <1>2, <2>1, MinTwo DEF Piece
  <2> QED BY <1>1, <1>2, <2>1, <2>2
<1>5. ASSUME pc[p] = "writei"
      PROVE  /\ cur[p].ip = file[cur[p].f].ip /\ lock[cur[p].ip] = p /\ From(cur[p].ip) = 0
             /\ cur[p].off + cur[p].left = file[cur[p].f].off + Piece(p)
             /\ cur[p].off + cur[p].left <= MAXFILE * BSIZE
             /\ \A i \in Inums : lock[i] = p => i = cur[p].ip
  <2>1. /\ cur[p].ip = file[cur[p].f].ip /\ lock[cur[p].ip] = p
        /\ cur[p].off + cur[p].left = file[cur[p].f].off + Piece(p)
        /\ cur[p].off + cur[p].left <= MAXFILE * BSIZE
    BY <1>0, <1>5 DEF Shape
  <2>2. From(cur[p].ip) = 0
    BY <1>1, <2>1 DEF From
  <2>3. ASSUME NEW i \in Inums, lock[i] = p PROVE i = cur[p].ip
    <3>1. Locked(i) /\ p # NoProc
      BY Constants DEF FilesInv
    <3> QED BY <1>1, <2>3, <3>1 DEF Locked
  <2> QED BY <2>1, <2>2, <2>3
<1> QED BY <1>1, <1>2, <1>3, <1>4, <1>5

LEMMA ShapeWriting ==
  ASSUME NEW p \in Procs, pc'[p] \in {"write", "writei"}, todo'[p] = <<>>, Writing(p)',
         pc'[p] = "writei" =>
           /\ cur'[p].ip = file'[cur'[p].f].ip /\ lock'[cur'[p].ip] = p
           /\ cur'[p].off + cur'[p].left = file'[cur'[p].f].off + Piece(p)'
           /\ cur'[p].off + cur'[p].left <= MAXFILE * BSIZE
  PROVE  Shape(p)'
<1>1. \A k \in 1..2 : Item(p, k)' = <<"none", 0>>
  BY NoItems DEF Item, ItemOf
<1> QED BY <1>1 DEF Shape

LEMMA NoneBetween == \A n \in Nat : \A k \in n..(n - 1) : FALSE
OBVIOUS

LEMMA SizeType ==
  ASSUME Typed, NEW i \in Inums
  PROVE  size[i] \in Nat /\ size[i] <= MAXFILE * BSIZE /\ grown[i] \in Nat
<1>1. size \in [Inums -> 0..(MAXFILE * BSIZE)] /\ grown \in [Inums -> Nat]
  BY DEF Typed, TypeOK
<1> QED BY <1>1, BlockConstants

LEMMA ContentsAs ==
  ASSUME \A j \in Inums : ~Truncating(j)' =>
           size'[j] = grown'[j] /\ \A k \in 0..(size'[j] - 1) : Right(j, k)',
         \A q \in Procs : pc'[q] = "writei" =>
           \A j : j = cur'[q].ip => \A k \in 0..(cur'[q].off - 1) : Right(j, k)'
  PROVE  Contents'
<1>1. ASSUME NEW q \in Procs, pc'[q] = "writei", NEW k \in 0..(cur'[q].off - 1)
      PROVE  Right(cur[q].ip, k)'
  <2>1. PICK j : j = cur'[q].ip
    OBVIOUS
  <2>2. Right(j, k)'
    BY <1>1, <2>1
  <2> QED BY <2>1, <2>2 DEF Right, Bmap, Byte, Indirect
<1> QED BY <1>1 DEF Contents

LEMMA WriteStartKeeps ==
  ASSUME FilesInv, NEW p \in Procs, WriteStart(p)
  PROVE  FilesInv'
<1>0. Typed /\ Contents
  BY DEF FilesInv
<1>1. pc[p] = "write" /\ todo[p] = <<>> /\ NoLock(p) /\ todo' = todo
  BY NoLockAt DEF WriteStart, At
<1>2. PICK f \in FIds, i \in Inums :
        /\ f = cur[p].f /\ i = file[f].ip /\ i \in used /\ file[f].type = "inode"
        /\ file[f].off \in Nat /\ lock[i] = NoProc
  BY <1>1, WriterFacts DEF WriteStart
<1>3. /\ bitmap' = bitmap /\ data' = data /\ addrs' = addrs /\ size' = size /\ grown' = grown
      /\ ofile' = ofile /\ file' = file /\ ends' = ends /\ panic' = panic
      /\ used' = used /\ iref' = iref /\ nlink' = nlink
  BY DEF WriteStart, blockvars, filevars
<1>4. CASE Return(p) /\ UNCHANGED lock
  <2>1. cur \in [Procs -> Locals] /\ cur' = [cur EXCEPT ![p] = Idle] /\ Idle \in Locals
    BY <1>0, <1>4, IdleType DEF Return, Typed, TypeOK
  <2>2. cur' \in [Procs -> Locals] /\ cur'[p] = Idle /\ \A q \in Procs : q # p => cur'[q] = cur[q]
    BY <2>1
  <2>3. pc' \in [Procs -> Labels] /\ pc'[p] = "user" /\ \A q \in Procs : q # p => pc'[q] = pc[q]
    BY <1>0, <1>4, LabelsType DEF Return, Goto, Labels
  <2>4. Moves(p)
    BY <1>0, <1>1, <1>3, <1>4, <2>2, <2>3 DEF Moves, Only, Typed, blockvars, filevars, inodevars
  <2> QED BY <1>1, <2>2, <2>3, <2>4, ShapeUser, MovesKeeps
<1>5. CASE /\ ~WriteiFails(i, file[f].off, Piece(p)) /\ lock' = [lock EXCEPT ![i] = p]
           /\ cur' = [cur EXCEPT ![p].ip = i, ![p].off = file[f].off, ![p].left = Piece(p)]
           /\ Goto(p, "writei")
  <2>1. PICK n \in Nat : n = Piece(p) /\ n > 0
    BY <1>1, WriterFacts
  <2>2. PICK o \in Nat : o = file[f].off /\ o <= size[i] /\ o + n <= MAXFILE * BSIZE
    <3>1. file[f].off <= size[i]
      BY <1>1, <1>2, WriterFacts
    <3>2. ~(file[f].off + n > MAXFILE * BSIZE)
      BY <1>5, <2>1 DEF WriteiFails
    <3> QED BY <1>2, <2>1, <3>1, <3>2, BlockConstants
  <2>3. /\ cur' \in [Procs -> Locals] /\ \A q \in Procs : q # p => cur'[q] = cur[q]
        /\ cur'[p].ip = i /\ cur'[p].off = o /\ cur'[p].left = n
        /\ cur'[p].f = f /\ cur'[p].n = cur[p].n
    <3>1. cur \in [Procs -> Locals] /\ cur' = [cur EXCEPT ![p].ip = i, ![p].off = o, ![p].left = n]
      BY <1>0, <1>5, <2>1, <2>2 DEF Typed, TypeOK
    <3>2. cur[p] \in Locals /\ \A q \in Procs : q # p => cur'[q] = cur[q]
      BY <3>1
    <3>3. cur'[p] = [cur[p] EXCEPT !.ip = i, !.off = o, !.left = n]
      BY <3>1
    <3>4. /\ cur'[p] \in Locals /\ cur'[p].ip = i /\ cur'[p].off = o /\ cur'[p].left = n
          /\ cur'[p].f = cur[p].f /\ cur'[p].n = cur[p].n
      BY <1>2, <3>2, <3>3 DEF Locals
    <3>5. cur' \in [Procs -> Locals]
      BY <3>1, <3>2, <3>4
    <3> QED BY <1>2, <3>2, <3>4, <3>5
  <2>4. pc' \in [Procs -> Labels] /\ pc'[p] = "writei" /\ \A q \in Procs : q # p => pc'[q] = pc[q]
    BY <1>0, <1>5, LabelsType DEF Goto, Labels
  <2>5. /\ lock' \in [Inums -> Procs \union {NoProc}] /\ lock'[i] = p
        /\ \A j \in Inums : j # i => lock'[j] = lock[j]
    <3>1. lock \in [Inums -> Procs \union {NoProc}]
      BY <1>0 DEF Typed, TypeOK
    <3> QED BY <1>5, <3>1
  <2>6. Typed'
    BY <1>0, <1>1, <1>3, <2>3, <2>4, <2>5 DEF Typed, TypeOK, Labels, Indirect, IsData
  <2>7. Only(p)
    BY <1>1, <1>3, <2>3, <2>4 DEF Only
  <2>8. Apart(p)
    BY <1>2, <1>3, <2>5, <2>7, PutsInUsed, Constants DEF Apart
  <2>9. Shape(p)'
    <3>1. Writing(p)
      BY <1>1 DEF FilesInv, Shape
    <3>2. Writing(p)' /\ Piece(p)' = Piece(p)
      BY <1>2, <1>3, <2>3, <3>1 DEF Writing, Piece
    <3>3. /\ cur'[p].ip = file'[cur'[p].f].ip /\ lock'[cur'[p].ip] = p
          /\ cur'[p].off + cur'[p].left = file'[cur'[p].f].off + Piece(p)'
          /\ cur'[p].off + cur'[p].left <= MAXFILE * BSIZE
      BY <1>2, <1>3, <2>1, <2>2, <2>3, <2>5, <3>2
    <3> QED BY <1>1, <2>4, <3>2, <3>3, ShapeWriting
  <2>10. \A q \in Procs : Shape(q)'
    BY <2>8, <2>9, OthersKeep
  <2>11. ASSUME NEW j \in Inums
         PROVE  From(j)' = From(j) /\ (Truncating(j)' <=> Truncating(j))
    <3>1. CASE j # i
      <4>1. lock'[j] = lock[j] /\ lock[j] # p /\ lock[j] \in Procs \union {NoProc}
        BY <1>0, <1>1, <2>5, <3>1 DEF NoLock, Typed, TypeOK
      <4> QED BY <1>1, <2>3, <4>1 DEF From, Truncating
    <3>2. CASE j = i
      BY <1>1, <1>2, <2>5, <3>2 DEF From, Truncating
    <3> QED BY <3>1, <3>2
  <2>12. Owned'
    <3>1. ASSUME NEW j \in Inums, NEW x PROVE Ptr(j, x)' = Ptr(j, x)
      BY <1>3, <2>11 DEF Ptr, PointsTo, Entries, Indirect
    <3> QED BY <1>3, <3>1, OwnedSame DEF FilesInv
  <2>13. Contents'
    <3>1. \A j, k : Right(j, k)' <=> Right(j, k)
      BY <1>3 DEF Right, Bmap, Byte, Indirect
    <3>2. \A j \in Inums : ~Truncating(j)' =>
            size'[j] = grown'[j] /\ \A k \in 0..(size'[j] - 1) : Right(j, k)'
      BY <1>0, <1>3, <2>11, <3>1 DEF Contents
    <3>3. ASSUME NEW q \in Procs, pc'[q] = "writei", NEW j, j = cur'[q].ip, NEW k \in 0..(cur'[q].off - 1)
          PROVE  Right(j, k)
      <4>1. CASE q = p
        <5>1. ~Truncating(i) /\ size[i] \in Int
          BY <1>0, <1>2, SizeType DEF Truncating
        <5>2. j = i /\ k \in 0..(size[i] - 1)
          BY <2>2, <2>3, <3>3, <4>1, <5>1
        <5> QED BY <1>0, <5>1, <5>2 DEF Contents
      <4>2. CASE q # p
        BY <1>0, <2>3, <2>4, <3>3, <4>2 DEF Contents
      <4> QED BY <4>1, <4>2
    <3> QED BY <3>1, <3>2, <3>3, ContentsAs
  <2>14. ASSUME NEW j \in Inums PROVE Locked(j)' /\ FreeInode(j)'
    <3>1. Locked(j) /\ FreeInode(j)
      BY DEF FilesInv
    <3>2. FreeInode(j)'
      BY <1>3, <3>1 DEF FreeInode, Truncated
    <3>3. CASE j # i
      <4>1. lock'[j] = lock[j] /\ lock[j] # p /\ lock[j] \in Procs \union {NoProc}
        BY <1>0, <1>1, <2>5, <3>3 DEF NoLock, Typed, TypeOK
      <4> QED BY <1>1, <1>3, <2>3, <2>4, <3>1, <3>2, <4>1 DEF Locked, Unused
    <3>4. CASE j = i
      BY <2>3, <2>4, <2>5, <3>2, <3>4 DEF Locked
    <3> QED BY <3>3, <3>4
  <2>15. (\A g \in FIds : FileSound(g)') /\ EndsHeld'
    <3>1. todo' = todo
      BY <1>1
    <3>2. EndsHeld'
      BY <1>3, <3>1, EndsKeep DEF FilesInv
    <3> QED BY <1>3, <3>2 DEF FilesInv, FileSound
  <2>16. FilesCounted' /\ InodesCounted'
    <3>1. \A q \in Procs : /\ \A x \in FilePlaces : FileAt(q, x)' = FileAt(q, x)
                           /\ \A x \in InodePlaces : InodeAt(q, x)' = InodeAt(q, x)
      BY <1>1, <1>3, <2>4, <2>7, PlacesSame
    <3> QED BY <1>3, <3>1, Uncounted DEF FilesInv
  <2> QED BY <2>6, <2>10, <2>12, <2>13, <2>14, <2>15, <2>16 DEF FilesInv
<1>6. \/ Return(p) /\ UNCHANGED lock
      \/ /\ ~WriteiFails(i, file[f].off, Piece(p)) /\ lock' = [lock EXCEPT ![i] = p]
         /\ cur' = [cur EXCEPT ![p].ip = i, ![p].off = file[f].off, ![p].left = Piece(p)]
         /\ Goto(p, "writei")
  BY <1>2 DEF WriteStart, Piece
<1> QED BY <1>4, <1>5, <1>6

\* A step of writei: it may take a block for its inode and fill cells.
Grows(p) ==
  /\ pc[p] = "writei" /\ UNCHANGED <<size, filevars, inodevars, todo, grown, pc>>
  /\ panic' \in {"none", "balloc: out of blocks"}
  /\ cur' \in [Procs -> Locals] /\ \A q \in Procs : q # p => cur'[q] = cur[q]
  /\ cur'[p].f = cur[p].f /\ cur'[p].ip = cur[p].ip /\ cur'[p].n = cur[p].n
  /\ cur'[p].off + cur'[p].left = cur[p].off + cur[p].left
  /\ bitmap' \subseteq Blocks /\ addrs' \in [Inums -> [0..NDIRECT -> 0..NBLOCKS]] /\ IsData(data')
  /\ \A j \in Inums : addrs'[j][NDIRECT] # 0 =>
       \A k \in 0..(NINDIRECT - 1) : data'[addrs'[j][NDIRECT]][k] \in 0..NBLOCKS
  /\ \A j \in Inums : j # cur[p].ip => addrs'[j] = addrs[j]

LEMMA GrowsFacts ==
  ASSUME FilesInv, NEW p \in Procs, Grows(p)
  PROVE  /\ Typed' /\ Only(p)
         /\ \A j \in Inums : /\ From(j)' = From(j) /\ (Truncating(j)' <=> Truncating(j))
                             /\ ~Truncating(j) => From(j) = 0
<1>0. Typed
  BY DEF FilesInv
<1>1. /\ size' = size /\ grown' = grown /\ ofile' = ofile /\ file' = file /\ ends' = ends /\ pc' = pc
      /\ used' = used /\ iref' = iref /\ nlink' = nlink /\ lock' = lock /\ todo' = todo
  BY DEF Grows, filevars, inodevars
<1>2. Only(p)
  BY <1>1 DEF Grows, Only
<1>3. Typed'
  <2>1. /\ cur' \in [Procs -> Locals] /\ panic' \in {"none", "balloc: out of blocks"}
        /\ bitmap' \subseteq Blocks /\ addrs' \in [Inums -> [0..NDIRECT -> 0..NBLOCKS]] /\ IsData(data')
        /\ \A j \in Inums : addrs'[j][NDIRECT] # 0 =>
             \A k \in 0..(NINDIRECT - 1) : data'[addrs'[j][NDIRECT]][k] \in 0..NBLOCKS
    BY DEF Grows
  <2>2. TypeOK'
    BY <1>0, <1>1, <2>1 DEF Typed, TypeOK
  <2> QED BY <1>0, <1>1, <2>1, <2>2 DEF Typed, IsData, Indirect
<1>4. ASSUME NEW j \in Inums
      PROVE  /\ From(j)' = From(j) /\ (Truncating(j)' <=> Truncating(j))
             /\ ~Truncating(j) => From(j) = 0
  <2>1. todo[p] = <<>> /\ lock[j] \in Procs \union {NoProc}
    BY <1>0, WriterFacts DEF Grows, Typed, TypeOK
  <2> QED BY <1>1, <1>2, <2>1 DEF Only, From, Truncating
<1> QED BY <1>2, <1>3, <1>4

LEMMA GrowsKeeps ==
  ASSUME FilesInv, NEW p \in Procs, Grows(p), Owned',
         \A j \in Inums : From(j) = 0 =>
           \A k \in 0..(MAXFILE * BSIZE - 1) : Right(j, k) => Right(j, k)',
         \A j \in Inums : j = cur[p].ip => \A k \in (cur[p].off)..(cur'[p].off - 1) : Right(j, k)'
  PROVE  FilesInv'
<1>0. Typed /\ Contents
  BY DEF FilesInv
<1>1. /\ size' = size /\ grown' = grown /\ ofile' = ofile /\ file' = file /\ ends' = ends /\ pc' = pc
      /\ used' = used /\ iref' = iref /\ nlink' = nlink /\ lock' = lock /\ todo' = todo
  BY DEF Grows, filevars, inodevars
<1>2. /\ Typed' /\ Only(p)
      /\ \A j \in Inums : /\ From(j)' = From(j) /\ (Truncating(j)' <=> Truncating(j))
                          /\ ~Truncating(j) => From(j) = 0
  BY GrowsFacts
<1>3. /\ pc[p] = "writei" /\ todo[p] = <<>> /\ cur[p].ip \in Inums /\ cur[p].ip \in used
      /\ cur[p].off \in Nat /\ cur[p].left \in Nat
      /\ cur[p].off + cur[p].left <= MAXFILE * BSIZE
      /\ cur'[p].f = cur[p].f /\ cur'[p].ip = cur[p].ip /\ cur'[p].n = cur[p].n
      /\ cur'[p].off + cur'[p].left = cur[p].off + cur[p].left
      /\ \A q \in Procs : q # p => cur'[q] = cur[q]
  BY WriterFacts DEF Grows
<1>4. cur'[p].off \in Nat /\ cur'[p].left \in Nat
  BY DEF Grows, Locals
<1>5. Apart(p)
  BY <1>1, <1>2, PutsInUsed DEF Apart
<1>6. Shape(p)'
  <2>1. Shape(p) /\ Writing(p) /\ Piece(p)' = Piece(p)
    BY <1>3 DEF FilesInv, Shape, Piece
  <2>2. Writing(p)'
    BY <1>1, <1>3, <2>1 DEF Writing
  <2> HIDE DEF Piece
  <2>3. /\ cur[p].ip = file[cur[p].f].ip /\ lock[cur[p].ip] = p
        /\ cur[p].off + cur[p].left = file[cur[p].f].off + Piece(p)
    BY <1>3, <2>1 DEF Shape
  <2> QED BY <1>1, <1>3, <2>1, <2>2, <2>3, ShapeWriting
<1>7. \A q \in Procs : Shape(q)'
  BY <1>5, <1>6, OthersKeep
<1>8. Contents'
  <2>1. ASSUME NEW j \in Inums, ~Truncating(j)'
        PROVE  size'[j] = grown'[j] /\ \A k \in 0..(size'[j] - 1) : Right(j, k)'
    <3>1. /\ ~Truncating(j) /\ From(j) = 0
          /\ size[j] = grown[j] /\ \A k \in 0..(size[j] - 1) : Right(j, k)
      BY <1>0, <1>2, <2>1 DEF Contents
    <3>2. 0..(size[j] - 1) \subseteq 0..(MAXFILE * BSIZE - 1)
      BY <1>0, SizeType, BlockConstants
    <3> QED BY <1>1, <3>1, <3>2
  <2>2. ASSUME NEW q \in Procs, pc'[q] = "writei", NEW j, j = cur'[q].ip, NEW k \in 0..(cur'[q].off - 1)
        PROVE  Right(j, k)'
    <3>1. /\ pc[q] = "writei" /\ j = cur[q].ip /\ j \in Inums /\ From(j) = 0
          /\ cur[q].off \in Nat /\ cur[q].left \in Nat /\ cur[q].off + cur[q].left <= MAXFILE * BSIZE
      <4>1. pc[q] = "writei" /\ j = cur[q].ip
        BY <1>1, <1>3, <2>2
      <4> QED BY <4>1, WriterFacts
    <3>2. \A m \in 0..(cur[q].off - 1) : Right(j, m)
      BY <1>0, <3>1 DEF Contents
    <3>3. 0..(cur[q].off - 1) \subseteq 0..(MAXFILE * BSIZE - 1)
      BY <3>1, BlockConstants
    <3>4. CASE k \in 0..(cur[q].off - 1)
      BY <3>1, <3>2, <3>3, <3>4
    <3>5. CASE k \notin 0..(cur[q].off - 1)
      <4>1. q = p
        BY <1>3, <2>2, <3>5
      <4>2. k \in (cur[p].off)..(cur'[p].off - 1)
        BY <1>3, <1>4, <2>2, <3>5, <4>1
      <4> QED BY <3>1, <4>1, <4>2
    <3> QED BY <3>4, <3>5
  <2> QED BY <2>1, <2>2, ContentsAs
<1>9. ASSUME NEW j \in Inums PROVE Locked(j)' /\ FreeInode(j)'
  <2>1. Locked(j) /\ FreeInode(j) /\ lock[j] \in Procs \union {NoProc}
    BY <1>0 DEF FilesInv, Typed, TypeOK
  <2>2. Locked(j)'
    BY <1>1, <1>3, <2>1 DEF Locked, Unused
  <2>3. j \notin used => addrs'[j] = addrs[j]
    BY <1>3 DEF Grows
  <2> QED BY <1>1, <2>1, <2>2, <2>3 DEF FreeInode, Truncated
<1>10. (\A g \in FIds : FileSound(g)') /\ EndsHeld'
  BY <1>1, EndsKeep DEF FilesInv, FileSound
<1>11. FilesCounted' /\ InodesCounted'
  <2>1. \A q \in Procs : /\ \A x \in FilePlaces : FileAt(q, x)' = FileAt(q, x)
                         /\ \A x \in InodePlaces : InodeAt(q, x)' = InodeAt(q, x)
    BY <1>1, <1>2, <1>3, PlacesSame
  <2> QED BY <1>1, <2>1, Uncounted DEF FilesInv
<1> QED BY <1>2, <1>7, <1>8, <1>9, <1>10, <1>11 DEF FilesInv

\* The disk is full.
LEMMA WriteiFullKeeps ==
  ASSUME FilesInv, NEW p \in Procs, pc[p] = "writei", panic' = "balloc: out of blocks",
         UNCHANGED <<blockvars, filevars, inodevars, todo, grown, pc, cur>>
  PROVE  FilesInv'
<1>0. Typed
  BY DEF FilesInv
<1>1. /\ bitmap' = bitmap /\ data' = data /\ addrs' = addrs /\ size' = size /\ cur' = cur /\ pc' = pc
      /\ UNCHANGED <<size, filevars, inodevars, todo, grown>>
  BY DEF blockvars
<1>2. Grows(p)
  <2>1. /\ cur \in [Procs -> Locals] /\ bitmap \subseteq Blocks
        /\ addrs \in [Inums -> [0..NDIRECT -> 0..NBLOCKS]] /\ IsData(data)
        /\ \A j \in Inums : addrs[j][NDIRECT] # 0 =>
             \A k \in 0..(NINDIRECT - 1) : data[addrs[j][NDIRECT]][k] \in 0..NBLOCKS
    BY <1>0 DEF Typed, TypeOK, Indirect
  <2> QED BY <1>1, <2>1 DEF Grows
<1>3. \A j \in Inums : From(j)' = From(j)
  BY <1>2, GrowsFacts
<1>4. ASSUME NEW j \in Inums, NEW x PROVE Ptr(j, x)' = Ptr(j, x)
  BY <1>1, <1>3 DEF Ptr, PointsTo, Entries, Indirect
<1>5. Owned'
  BY <1>1, <1>4, OwnedSame DEF FilesInv
<1>6. \A j, k : Right(j, k) => Right(j, k)'
  BY <1>1 DEF Right, Bmap, Byte, Indirect
<1>7. \A j \in Inums : j = cur[p].ip => \A k \in (cur[p].off)..(cur'[p].off - 1) : Right(j, k)'
  <2>1. cur[p].off \in Nat /\ cur'[p].off = cur[p].off
    BY <1>0, <1>1, Types
  <2>2. PICK o \in Nat : cur[p].off = o /\ cur'[p].off = o
    BY <2>1
  <2>3. \A k \in o..(o - 1) : FALSE
    BY NoneBetween
  <2> QED BY <2>2, <2>3
<1> QED BY <1>2, <1>5, <1>6, <1>7, GrowsKeeps

\* Who points to a block that is not an indirect block.
LEMMA NotIndirect ==
  ASSUME FilesInv, NEW i \in Inums, NEW x \in Pointers, x # <<"addr", NDIRECT>>, Ptr(i, x) # 0
  PROVE  \A j \in Inums : addrs[j][NDIRECT] # Ptr(i, x)
<1>1. Typed /\ Owned
  BY DEF FilesInv
<1>2. ASSUME NEW j \in Inums, addrs[j][NDIRECT] = Ptr(i, x) PROVE FALSE
  <2>1. <<"addr", NDIRECT>> \in Pointers /\ Ptr(j, <<"addr", NDIRECT>>) = addrs[j][NDIRECT]
    BY <1>1, PtrFacts, PointerFacts, BlockConstants
  <2>2. <<"addr", NDIRECT>> = x
    BY <1>1, <1>2, <2>1 DEF Owned
  <2> QED BY <2>2
<1> QED BY <1>2

\* The bytes of one block are copied.
Copies(p, i, o, l) ==
  /\ pc[p] = "writei" /\ i = cur[p].ip /\ o = cur[p].off /\ l = cur[p].left /\ l > 0
  /\ Bmap(i, o \div BSIZE) # 0 /\ WriteCells(i, o, l)
  /\ cur' = [cur EXCEPT ![p].off = o + InBlock(o, l), ![p].left = l - InBlock(o, l)]
  /\ UNCHANGED <<bitmap, addrs, size, filevars, inodevars, todo, grown, pc, panic>>

LEMMA WriteiCopyKeeps ==
  ASSUME FilesInv, NEW p \in Procs, NEW i, NEW o, NEW l, Copies(p, i, o, l)
  PROVE  FilesInv'
<1>0. Typed /\ Owned
  BY DEF FilesInv
<1>1. /\ i \in Inums /\ i \in used /\ From(i) = 0 /\ o \in Nat /\ l \in Nat /\ l > 0
      /\ o + l <= MAXFILE * BSIZE
  BY WriterFacts DEF Copies
<1>2. o \in 0..(MAXFILE * BSIZE - 1)
  BY <1>1, BlockConstants
<1>3. PICK n \in 0..(MAXFILE - 1), r \in 0..(BSIZE - 1) :
        n = o \div BSIZE /\ r = o % BSIZE /\ o = BSIZE * n + r
  BY <1>2, Offset
<1>4. PICK m \in Nat : m = InBlock(o, l) /\ m > 0 /\ m <= l /\ r + m <= BSIZE
  <2>1. BSIZE \in Nat /\ r \in Int /\ r < BSIZE /\ BSIZE - r \in Int
    BY BlockConstants
  <2>2. InBlock(o, l) = IF l <= BSIZE - r THEN l ELSE BSIZE - r
    BY <1>1, <1>3, <2>1, MinTwo DEF InBlock
  <2>3. /\ InBlock(o, l) \in Nat /\ InBlock(o, l) > 0 /\ InBlock(o, l) <= l
        /\ r + InBlock(o, l) <= BSIZE
    <3> HIDE DEF InBlock
    <3> QED BY <1>1, <2>1, <2>2
  <2> QED BY <2>3
<1>5. PICK b \in Blocks : b = Bmap(i, n) /\ b = Ptr(i, Slot(n)) /\ b # 0
  <2>1. Bmap(i, n) = Ptr(i, Slot(n)) /\ Slot(n) \in Pointers
    BY <1>0, <1>1, BmapIs, SlotFacts
  <2> QED BY <1>0, <1>1, <1>3, <2>1, PtrType DEF Copies
<1>6. /\ IsData(data') /\ (\A c \in Blocks : c # b => data'[c] = data[c])
      /\ \A c \in 0..(BSIZE - 1) :
           data'[b][c] = IF c \in r..(r + m - 1) THEN <<i, o + c - r>> ELSE data[b][c]
  <2>1. IsData(data)
    BY <1>0 DEF Typed
  <2>2. data' = [data EXCEPT ![b] =
                   [c \in DOMAIN data[b] |-> IF c \in r..(r + m - 1) THEN <<i, o + c - r>> ELSE data[b][c]]]
    BY <1>3, <1>4, <1>5 DEF WriteCells, Copies
  <2>3. DOMAIN data[b] = 0..(BSIZE - 1)
    BY <2>1 DEF IsData
  <2> DEFINE F == [c \in 0..(BSIZE - 1) |-> IF c \in r..(r + m - 1) THEN <<i, o + c - r>> ELSE data[b][c]]
  <2>4. IsCells(F) /\ data' = [data EXCEPT ![b] = F]
    BY <2>2, <2>3 DEF IsCells
  <2>5. \A c \in 0..(BSIZE - 1) : F[c] = IF c \in r..(r + m - 1) THEN <<i, o + c - r>> ELSE data[b][c]
    OBVIOUS
  <2> HIDE DEF F
  <2>6. IsData(data') /\ data'[b] = F /\ \A c \in Blocks : c # b => data'[c] = data[c]
    <3>1. Overwrites(data, b, F, data')
      BY <2>1, <2>4 DEF Overwrites
    <3> QED BY <3>1, DataExcept
  <2> QED BY <2>5, <2>6
<1>7. \A j \in Inums : /\ addrs[j][NDIRECT] # b /\ addrs[j][NDIRECT] \in 0..NBLOCKS
                       /\ addrs[j][NDIRECT] # 0 => data'[addrs[j][NDIRECT]] = data[addrs[j][NDIRECT]]
  <2>1. \A j \in Inums : addrs[j][NDIRECT] # b
    BY <1>1, <1>5, SlotFacts, NotIndirect
  <2>2. \A j \in Inums : addrs[j][NDIRECT] \in 0..NBLOCKS
    <3>1. addrs \in [Inums -> [0..NDIRECT -> 0..NBLOCKS]] /\ NDIRECT \in 0..NDIRECT
      BY <1>0, BlockConstants DEF Typed, TypeOK
    <3> QED BY <3>1
  <2> QED BY <1>6, <2>1, <2>2, BlockConstants
<1>8. Grows(p)
  <2>1. PICK d \in Nat : d = l - m
    BY <1>1, <1>4
  <2>2. PICK e \in Nat : e = o + m
    BY <1>1, <1>4
  <2>3. cur \in [Procs -> Locals] /\ cur' = [cur EXCEPT ![p].off = e, ![p].left = d]
    BY <1>0, <1>4, <2>1, <2>2 DEF Typed, TypeOK, Copies
  <2>4. /\ cur' \in [Procs -> Locals] /\ \A q \in Procs : q # p => cur'[q] = cur[q]
        /\ cur'[p].f = cur[p].f /\ cur'[p].ip = cur[p].ip /\ cur'[p].n = cur[p].n
        /\ cur'[p].off = e /\ cur'[p].left = d
    BY <2>3 DEF Locals
  <2>5. cur'[p].off + cur'[p].left = cur[p].off + cur[p].left
    <3>1. cur[p].off = o /\ cur[p].left = l
      BY DEF Copies
    <3> QED BY <1>1, <1>4, <2>1, <2>2, <2>4, <3>1
  <2>6. /\ bitmap' \subseteq Blocks /\ addrs' \in [Inums -> [0..NDIRECT -> 0..NBLOCKS]]
        /\ panic' \in {"none", "balloc: out of blocks"}
    BY <1>0 DEF Typed, TypeOK, Copies
  <2>7. \A j \in Inums : addrs'[j][NDIRECT] # 0 =>
          \A k \in 0..(NINDIRECT - 1) : data'[addrs'[j][NDIRECT]][k] \in 0..NBLOCKS
    <3>1. addrs' = addrs
      BY DEF Copies
    <3> QED BY <1>0, <1>7, <3>1 DEF Typed, Indirect
  <2>8. /\ addrs' = addrs /\ pc[p] = "writei"
        /\ UNCHANGED <<size, filevars, inodevars, todo, grown, pc>>
    BY DEF Copies
  <2> QED BY <1>6, <2>4, <2>5, <2>6, <2>7, <2>8 DEF Grows
<1>9. Typed' /\ \A j \in Inums : From(j)' = From(j)
  BY <1>8, GrowsFacts
<1>10. \A j \in Inums, x \in Pointers : Ptr(j, x)' = Ptr(j, x)
  <2>1. ASSUME NEW j \in Inums, NEW x PROVE Ptr(j, x)' = Ptr(j, x)
    <3>1. addrs' = addrs /\ From(j)' = From(j)
          /\ (addrs[j][NDIRECT] # 0 => data'[addrs[j][NDIRECT]] = data[addrs[j][NDIRECT]])
      BY <1>7, <1>9 DEF Copies
    <3> QED BY <3>1 DEF Ptr, PointsTo, Entries, Indirect
  <2> QED BY <2>1
<1>11. Owned'
  BY <1>0, <1>10, OwnedSame DEF Copies
<1>12. ASSUME NEW j \in Inums, From(j) = 0, NEW k \in 0..(MAXFILE * BSIZE - 1), Right(j, k)
       PROVE  Right(j, k)'
  <2>1. PICK d \in 0..(MAXFILE - 1), c \in 0..(BSIZE - 1) :
          d = k \div BSIZE /\ c = k % BSIZE /\ k = BSIZE * d + c
    BY Offset
  <2>2. Slot(d) \in Pointers
    BY SlotFacts
  <2>3. Ptr(j, Slot(d)) # 0 /\ data[Ptr(j, Slot(d))][c] = <<j, k>>
    BY <1>0, <1>12, <2>1, RightIs
  <2>4. Ptr(j, Slot(d))' = Ptr(j, Slot(d)) /\ Ptr(j, Slot(d)) \in Blocks
    BY <1>0, <1>10, <2>2, <2>3, PtrType
  <2>5. data'[Ptr(j, Slot(d))][c] = <<j, k>>
    <3>1. CASE Ptr(j, Slot(d)) # b
      BY <1>6, <2>3, <2>4, <3>1
    <3>2. CASE Ptr(j, Slot(d)) = b
      <4>1. j = i /\ d = n
        <5>1. j = i /\ Slot(d) = Slot(n)
          BY <1>0, <1>1, <1>5, <2>2, <3>2, SlotFacts DEF Owned
        <5> QED BY <5>1, SlotFacts
      <4>2. o + c - r = k
        <5>1. PICK z \in Int : z = BSIZE * n
          BY BlockConstants
        <5>2. o = z + r
          BY <1>3, <5>1
        <5>3. k = z + c
          BY <2>1, <4>1, <5>1
        <5> QED BY <5>2, <5>3
      <4> QED BY <1>6, <2>3, <3>2, <4>1, <4>2
    <3> QED BY <3>1, <3>2
  <2> QED BY <1>9, <1>12, <2>1, <2>3, <2>4, <2>5, RightIs2
<1>13. ASSUME NEW k \in o..(o + m - 1)
       PROVE  Right(i, k)'
  <2>1. PICK z \in Int : z = BSIZE * n
    BY BlockConstants
  <2>2. PICK c \in 0..(BSIZE - 1) : k = z + c /\ c \in r..(r + m - 1) /\ o + c - r = k
    <3>1. k - z \in 0..(BSIZE - 1) /\ k - z \in r..(r + m - 1) /\ o + (k - z) - r = k /\ k = z + (k - z)
      <4>1. o = z + r /\ r \in Int /\ r >= 0 /\ r + m <= BSIZE /\ m \in Nat /\ BSIZE \in Nat /\ k \in Int
            /\ o <= k /\ k <= o + m - 1 /\ o \in Nat
        BY <1>1, <1>3, <1>4, <2>1, BlockConstants
      <4> QED BY <4>1
    <3> QED BY <3>1
  <2>3. k \div BSIZE = n /\ k % BSIZE = c
    BY <2>1, <2>2, SameOffset
  <2>4. k \in 0..(MAXFILE * BSIZE - 1)
    BY <1>1, <1>4, BlockConstants
  <2>5. Slot(n) \in Pointers /\ Ptr(i, Slot(n))' = b
    BY <1>1, <1>5, <1>10, SlotFacts
  <2>6. data'[b][c] = <<i, k>>
    BY <1>6, <2>2
  <2> QED BY <1>1, <1>5, <1>9, <2>3, <2>4, <2>5, <2>6, RightIs2
<1>14. \A j \in Inums : j = cur[p].ip => \A k \in (cur[p].off)..(cur'[p].off - 1) : Right(j, k)'
  <2>1. PICK e \in Nat : e = o + m
    BY <1>1, <1>4
  <2>2. cur \in [Procs -> Locals] /\ cur' = [cur EXCEPT ![p].off = e, ![p].left = l - m]
    BY <1>0, <1>4, <2>1 DEF Typed, TypeOK, Copies
  <2>3. cur'[p].off = e
    BY <2>2 DEF Locals
  <2>4. cur[p].off = o /\ cur[p].ip = i
    BY DEF Copies
  <2>5. ASSUME NEW k \in o..(e - 1) PROVE Right(i, k)'
    <3>1. k \in o..(o + m - 1)
      BY <1>1, <2>1
    <3> QED BY <1>13, <3>1
  <2> QED BY <2>3, <2>4, <2>5
<1> QED BY <1>8, <1>11, <1>12, <1>14, GrowsKeeps

\* What a pointer leads to is in use.
LEMMA InUse ==
  ASSUME FilesInv, NEW j \in Inums
  PROVE  /\ \A x \in Pointers : Ptr(j, x) # 0 => Ptr(j, x) \in bitmap
         /\ addrs[j][NDIRECT] # 0 => addrs[j][NDIRECT] \in bitmap
         /\ \A k \in 0..NDIRECT : addrs[j][k] \in 0..NBLOCKS
         /\ bitmap \subseteq Blocks
<1>1. Typed /\ Owned
  BY DEF FilesInv
<1>2. \A x \in Pointers : Ptr(j, x) # 0 => Ptr(j, x) \in bitmap
  BY <1>1 DEF Owned
<1>3. <<"addr", NDIRECT>> \in Pointers /\ Ptr(j, <<"addr", NDIRECT>>) = addrs[j][NDIRECT]
  BY <1>1, PtrFacts, PointerFacts, BlockConstants
<1>4. addrs \in [Inums -> [0..NDIRECT -> 0..NBLOCKS]] /\ bitmap \subseteq Blocks
  BY <1>1 DEF Typed, TypeOK
<1> QED BY <1>2, <1>3, <1>4

\* The free block b is attached to pointer x of inode i; of the blocks in use
\* only indirect ones change.
Attaches(i, x, b) ==
  /\ i \in Inums /\ x \in Pointers /\ Ptr(i, x) = 0 /\ Ptr(i, x)' = b /\ OthersPoint(i, x)
  /\ b \in Blocks \ bitmap /\ bitmap' = bitmap \union {b}
  /\ \A c \in bitmap : (\A j \in Inums : addrs[j][NDIRECT] # c) => data'[c] = data[c]

LEMMA AttachKeeps ==
  ASSUME FilesInv, NEW p \in Procs, Grows(p), cur' = cur, NEW i, NEW x, NEW b, Attaches(i, x, b)
  PROVE  FilesInv'
<1>0. Typed /\ Owned
  BY DEF FilesInv
<1>1. Owned'
  <2>1. 0 \notin bitmap /\ b # 0
    BY <1>0, BlockConstants DEF Typed, TypeOK, Attaches
  <2> QED BY <1>0, <2>1, OwnedTake DEF Attaches
<1>2. Typed' /\ \A j \in Inums : From(j)' = From(j)
  BY GrowsFacts
<1>3. ASSUME NEW j \in Inums, From(j) = 0, NEW k \in 0..(MAXFILE * BSIZE - 1), Right(j, k)
      PROVE  Right(j, k)'
  <2>1. PICK d \in 0..(MAXFILE - 1), c \in 0..(BSIZE - 1) : d = k \div BSIZE /\ c = k % BSIZE
    BY Offset
  <2>2. Slot(d) \in Pointers /\ Slot(d) # <<"addr", NDIRECT>>
    BY SlotFacts
  <2>3. Ptr(j, Slot(d)) # 0 /\ data[Ptr(j, Slot(d))][c] = <<j, k>>
    BY <1>0, <1>3, <2>1, RightIs
  <2>4. Ptr(j, Slot(d))' = Ptr(j, Slot(d))
    BY <2>2, <2>3 DEF Attaches, OthersPoint
  <2>5. data'[Ptr(j, Slot(d))] = data[Ptr(j, Slot(d))]
    <3>1. \A h \in Inums : addrs[h][NDIRECT] # Ptr(j, Slot(d))
      BY <2>2, <2>3, NotIndirect
    <3>2. Ptr(j, Slot(d)) \in bitmap
      BY <2>2, <2>3, InUse
    <3> QED BY <3>1, <3>2 DEF Attaches
  <2> QED BY <1>2, <1>3, <2>1, <2>3, <2>4, <2>5, RightIs2
<1>4. \A j \in Inums : j = cur[p].ip => \A k \in (cur[p].off)..(cur'[p].off - 1) : Right(j, k)'
  <2>1. PICK o \in Nat : cur[p].off = o /\ cur'[p].off = o
    BY <1>0, Types
  <2> QED BY <2>1, NoneBetween
<1> QED BY <1>1, <1>3, <1>4, GrowsKeeps

\* bmap allocates block n of the file, or the indirect block it needs first.
Takes(p, i, n, b) ==
  /\ pc[p] = "writei" /\ i = cur[p].ip /\ i \in Inums /\ n \in 0..(MAXFILE - 1) /\ From(i) = 0
  /\ Bmap(i, n) = 0 /\ b \in Blocks \ bitmap /\ bitmap' = bitmap \union {b}
  /\ UNCHANGED <<size, filevars, inodevars, todo, grown, pc, cur, panic>>

LEMMA FilledFacts ==
  ASSUME NEW v
  PROVE  IsCells(Filled(v)) /\ \A c \in 0..(BSIZE - 1) : Filled(v)[c] = v
BY DEF IsCells, Filled

LEMMA TakesGrows ==
  ASSUME FilesInv, NEW p \in Procs, NEW i, NEW n, NEW b, Takes(p, i, n, b), IsData(data'),
         addrs' \in [Inums -> [0..NDIRECT -> 0..NBLOCKS]],
         \A j \in Inums : j # i => addrs'[j] = addrs[j],
         \A j \in Inums : addrs'[j][NDIRECT] # 0 =>
           \A k \in 0..(NINDIRECT - 1) : data'[addrs'[j][NDIRECT]][k] \in 0..NBLOCKS
  PROVE  Grows(p)
<1>0. Typed
  BY DEF FilesInv
<1>1. /\ cur' = cur /\ cur \in [Procs -> Locals] /\ panic' = panic
      /\ panic \in {"none", "balloc: out of blocks"} /\ bitmap \subseteq Blocks
  BY <1>0 DEF Takes, Typed, TypeOK
<1>2. /\ pc[p] = "writei" /\ i = cur[p].ip /\ bitmap' \subseteq Blocks
      /\ UNCHANGED <<size, filevars, inodevars, todo, grown, pc>>
  BY <1>1 DEF Takes
<1> QED BY <1>1, <1>2 DEF Grows

\* The block becomes entry k of addrs.
Hangs(i, k, b) ==
  /\ addrs[i][k] = 0 /\ addrs' = [addrs EXCEPT ![i][k] = b]
  /\ data' = [data EXCEPT ![b] = Filled(0)]

LEMMA TakeDirect ==
  ASSUME FilesInv, NEW p \in Procs, NEW i, NEW n, NEW b, Takes(p, i, n, b),
         NEW k \in 0..NDIRECT, Hangs(i, k, b)
  PROVE  FilesInv'
<1>0. Typed /\ Owned
  BY DEF FilesInv
<1>1. /\ i \in Inums /\ b \in Blocks /\ b \notin bitmap /\ b # 0 /\ b \in 0..NBLOCKS /\ 0 \in 0..NBLOCKS
      /\ addrs[i][k] = 0
  BY BlockConstants, BlocksAssumption DEF Takes, Hangs
<1>2. /\ addrs' \in [Inums -> [0..NDIRECT -> 0..NBLOCKS]] /\ addrs'[i][k] = b
      /\ (\A j \in Inums : j # i => addrs'[j] = addrs[j])
      /\ \A h \in 0..NDIRECT : h # k => addrs'[i][h] = addrs[i][h]
  <2>1. addrs \in [Inums -> [0..NDIRECT -> 0..NBLOCKS]]
    BY <1>0 DEF Typed, TypeOK
  <2> QED BY <1>1, <2>1 DEF Hangs
<1>3. IsData(data') /\ data'[b] = Filled(0) /\ \A c \in Blocks : c # b => data'[c] = data[c]
  <2>1. Overwrites(data, b, Filled(0), data')
    BY <1>0, <1>1, FilledFacts DEF Overwrites, Typed, Hangs
  <2> QED BY <2>1, DataExcept
<1>4. ASSUME NEW j \in Inums
      PROVE  \/ /\ addrs'[j][NDIRECT] = addrs[j][NDIRECT] /\ (j = i => k # NDIRECT)
                /\ addrs[j][NDIRECT] # 0 => data'[addrs[j][NDIRECT]] = data[addrs[j][NDIRECT]]
             \/ /\ j = i /\ k = NDIRECT /\ addrs[j][NDIRECT] = 0 /\ addrs'[j][NDIRECT] = b
                /\ \A h \in 0..(BSIZE - 1) : data'[b][h] = 0
  <2>1. CASE j = i /\ k = NDIRECT
    BY <1>1, <1>2, <1>3, <2>1, FilledFacts
  <2>2. CASE ~(j = i /\ k = NDIRECT)
    <3>1. addrs'[j][NDIRECT] = addrs[j][NDIRECT]
      BY <1>2, <2>2, BlockConstants
    <3>2. addrs[j][NDIRECT] # 0 => addrs[j][NDIRECT] \in Blocks /\ addrs[j][NDIRECT] # b
      BY <1>1, InUse
    <3> QED BY <1>3, <2>2, <3>1, <3>2
  <2> QED BY <2>1, <2>2
<1>5. \A j \in Inums : addrs'[j][NDIRECT] # 0 =>
        \A h \in 0..(NINDIRECT - 1) : data'[addrs'[j][NDIRECT]][h] \in 0..NBLOCKS
  <2>1. \A j \in Inums : addrs[j][NDIRECT] # 0 =>
          \A h \in 0..(NINDIRECT - 1) : data[addrs[j][NDIRECT]][h] \in 0..NBLOCKS
    BY <1>0 DEF Typed, Indirect
  <2> QED BY <1>1, <1>4, <2>1, BlockConstants
<1>6. Grows(p)
  BY <1>2, <1>3, <1>5, TakesGrows
<1>7. Typed' /\ \A j \in Inums : From(j)' = From(j)
  BY <1>6, GrowsFacts
<1>8. <<"addr", k>> \in Pointers /\ Ptr(i, <<"addr", k>>) = 0 /\ Ptr(i, <<"addr", k>>)' = b
  BY <1>0, <1>1, <1>2, <1>7, PtrFacts, PtrFacts2, PointerFacts
<1>9. ASSUME NEW j \in Inums, NEW y \in Pointers, j # i \/ y # <<"addr", k>>
      PROVE  Ptr(j, y)' = Ptr(j, y)
  <2>1. CASE \E h \in 0..NDIRECT : y = <<"addr", h>>
    <3>1. PICK h \in 0..NDIRECT : y = <<"addr", h>>
      BY <2>1
    <3>2. addrs'[j][h] = addrs[j][h]
      BY <1>2, <1>9, <3>1
    <3> QED BY <1>0, <1>7, <3>1, <3>2, PtrFacts, PtrFacts2
  <2>2. CASE \E h \in 0..(NINDIRECT - 1) : y = <<"entry", h>>
    <3>1. PICK h \in 0..(NINDIRECT - 1) : y = <<"entry", h>>
      BY <2>2
    <3>2. Ptr(j, y) = IF addrs[j][NDIRECT] # 0 /\ From(j) <= h THEN data[addrs[j][NDIRECT]][h] ELSE 0
      BY <1>0, <3>1, PtrFacts
    <3>3. Ptr(j, y)' = IF addrs'[j][NDIRECT] # 0 /\ From(j)' <= h THEN data'[addrs'[j][NDIRECT]][h] ELSE 0
      BY <1>7, <3>1, PtrFacts2
    <3>4. h \in 0..(BSIZE - 1) /\ From(j)' = From(j)
      BY <1>7, BlockConstants
    <3> QED BY <1>4, <3>2, <3>3, <3>4
  <2> QED BY <2>1, <2>2, PointerFacts
<1>10. Attaches(i, <<"addr", k>>, b)
  <2>1. \A c \in bitmap : data'[c] = data[c]
    BY <1>1, <1>3, InUse
  <2> QED BY <1>1, <1>8, <1>9, <2>1 DEF Attaches, OthersPoint, Takes
<1>11. cur' = cur
  BY DEF Takes
<1> QED BY <1>6, <1>10, <1>11, AttachKeeps

\* The block becomes entry e of the indirect block.
HangsBelow(i, e, b) ==
  /\ addrs[i][NDIRECT] # 0 /\ data[addrs[i][NDIRECT]][e] = 0 /\ addrs' = addrs
  /\ data' = [data EXCEPT ![b] = Filled(0), ![addrs[i][NDIRECT]][e] = b]

LEMMA TakeBelow ==
  ASSUME FilesInv, NEW p \in Procs, NEW i, NEW n, NEW b, Takes(p, i, n, b),
         NEW e \in 0..(NINDIRECT - 1), HangsBelow(i, e, b)
  PROVE  FilesInv'
<1>0. Typed /\ Owned
  BY DEF FilesInv
<1>1. /\ i \in Inums /\ b \in Blocks /\ b \notin bitmap /\ b # 0 /\ b \in 0..NBLOCKS /\ 0 \in 0..NBLOCKS
      /\ From(i) = 0
  BY BlockConstants, BlocksAssumption DEF Takes
<1>2. PICK a \in Blocks : a = addrs[i][NDIRECT] /\ a # 0 /\ a \in bitmap /\ a # b /\ data[a][e] = 0
  BY <1>1, InUse DEF HangsBelow
<1>3. /\ IsData(data') /\ (\A c \in Blocks : c # b /\ c # a => data'[c] = data[c])
      /\ data'[a][e] = b /\ \A c \in 0..(BSIZE - 1) : c # e => data'[a][c] = data[a][c]
  <2> DEFINE D == [data EXCEPT ![b] = Filled(0)]
             F == [D[a] EXCEPT ![e] = b]
  <2>1. Overwrites(data, b, Filled(0), D)
    BY <1>0, <1>1, FilledFacts DEF Overwrites, Typed
  <2>2. data' = [D EXCEPT ![a] = F]
    BY <1>2 DEF HangsBelow
  <2> HIDE DEF D
  <2>3. IsData(D) /\ \A c \in Blocks : c # b => D[c] = data[c]
    BY <2>1, DataExcept
  <2>4. e \in 0..(BSIZE - 1) /\ D[a] = [c \in 0..(BSIZE - 1) |-> D[a][c]]
    BY <2>3, BlockConstants DEF IsData
  <2>5. IsCells(F) /\ F[e] = b /\ \A c \in 0..(BSIZE - 1) : c # e => F[c] = D[a][c]
    BY <2>4 DEF IsCells
  <2> HIDE DEF F
  <2>6. Overwrites(D, a, F, data')
    BY <2>2, <2>3, <2>5 DEF Overwrites
  <2>7. IsData(data') /\ data'[a] = F /\ \A c \in Blocks : c # a => data'[c] = D[c]
    BY <2>6, DataExcept
  <2> QED BY <1>2, <2>3, <2>5, <2>7
<1>4. addrs' = addrs /\ addrs \in [Inums -> [0..NDIRECT -> 0..NBLOCKS]]
  BY <1>0 DEF HangsBelow, Typed, TypeOK
<1>5. ASSUME NEW j \in Inums, j # i, addrs[j][NDIRECT] # 0
      PROVE  data'[addrs[j][NDIRECT]] = data[addrs[j][NDIRECT]]
  <2>1. addrs[j][NDIRECT] \in Blocks /\ addrs[j][NDIRECT] # b
    BY <1>1, <1>5, InUse
  <2>2. addrs[j][NDIRECT] # a
    <3>1. /\ <<"addr", NDIRECT>> \in Pointers /\ Ptr(j, <<"addr", NDIRECT>>) = addrs[j][NDIRECT]
          /\ Ptr(i, <<"addr", NDIRECT>>) = addrs[i][NDIRECT]
      BY <1>0, <1>1, PtrFacts, PointerFacts, BlockConstants
    <3> QED BY <1>0, <1>1, <1>2, <1>5, <3>1 DEF Owned
  <2> QED BY <1>3, <2>1, <2>2
<1>6. \A j \in Inums : addrs'[j][NDIRECT] # 0 =>
        \A h \in 0..(NINDIRECT - 1) : data'[addrs'[j][NDIRECT]][h] \in 0..NBLOCKS
  <2>1. \A j \in Inums : addrs[j][NDIRECT] # 0 =>
          \A h \in 0..(NINDIRECT - 1) : data[addrs[j][NDIRECT]][h] \in 0..NBLOCKS
    BY <1>0 DEF Typed, Indirect
  <2>2. \A h \in 0..(NINDIRECT - 1) : data'[a][h] \in 0..NBLOCKS
    BY <1>1, <1>2, <1>3, <2>1, BlockConstants
  <2> QED BY <1>2, <1>4, <1>5, <2>1, <2>2
<1>7. Grows(p)
  BY <1>3, <1>4, <1>6, TakesGrows
<1>8. Typed' /\ \A j \in Inums : From(j)' = From(j)
  BY <1>7, GrowsFacts
<1>9. /\ <<"entry", e>> \in Pointers /\ Ptr(i, <<"entry", e>>) = 0
      /\ Ptr(i, <<"entry", e>>)' = b
  <2>1. Ptr(i, <<"entry", e>>) = 0
    BY <1>0, <1>1, <1>2, PtrFacts
  <2>2. Ptr(i, <<"entry", e>>)' =
          IF addrs'[i][NDIRECT] # 0 /\ From(i)' <= e THEN data'[addrs'[i][NDIRECT]][e] ELSE 0
    BY <1>1, <1>8, PtrFacts2
  <2>3. addrs'[i][NDIRECT] = a /\ From(i)' = 0 /\ 0 <= e
    BY <1>1, <1>2, <1>4, <1>8, BlockConstants
  <2> QED BY <1>2, <1>3, <2>1, <2>2, <2>3, PointerFacts
<1>10. ASSUME NEW j \in Inums, NEW y \in Pointers, j # i \/ y # <<"entry", e>>
       PROVE  Ptr(j, y)' = Ptr(j, y)
  <2>1. CASE \E h \in 0..NDIRECT : y = <<"addr", h>>
    BY <1>0, <1>4, <1>8, <2>1, PtrFacts, PtrFacts2
  <2>2. CASE \E h \in 0..(NINDIRECT - 1) : y = <<"entry", h>>
    <3>1. PICK h \in 0..(NINDIRECT - 1) : y = <<"entry", h>>
      BY <2>2
    <3>2. Ptr(j, y) = IF addrs[j][NDIRECT] # 0 /\ From(j) <= h THEN data[addrs[j][NDIRECT]][h] ELSE 0
      BY <1>0, <3>1, PtrFacts
    <3>3. Ptr(j, y)' = IF addrs'[j][NDIRECT] # 0 /\ From(j)' <= h THEN data'[addrs'[j][NDIRECT]][h] ELSE 0
      BY <1>8, <3>1, PtrFacts2
    <3>4. h \in 0..(BSIZE - 1) /\ From(j)' = From(j) /\ (j = i => h # e)
      BY <1>8, <1>10, <3>1, BlockConstants
    <3>5. CASE j = i
      BY <1>2, <1>3, <1>4, <3>2, <3>3, <3>4, <3>5
    <3>6. CASE j # i
      BY <1>4, <1>5, <3>2, <3>3, <3>4, <3>6
    <3> QED BY <3>5, <3>6
  <2> QED BY <2>1, <2>2, PointerFacts
<1>11. Attaches(i, <<"entry", e>>, b)
  <2>1. \A c \in bitmap : (\A j \in Inums : addrs[j][NDIRECT] # c) => data'[c] = data[c]
    <3>1. \A c \in bitmap : c \in Blocks /\ c # b
      BY <1>1, InUse
    <3> QED BY <1>1, <1>2, <1>3, <3>1
  <2> QED BY <1>1, <1>9, <1>10, <2>1 DEF Attaches, OthersPoint, Takes
<1>12. cur' = cur
  BY DEF Takes
<1> QED BY <1>7, <1>11, <1>12, AttachKeeps

LEMMA WriteiKeeps ==
  ASSUME FilesInv, NEW p \in Procs, Writei(p)
  PROVE  FilesInv'
<1>0. Typed
  BY DEF FilesInv
<1>1. /\ pc[p] = "writei" /\ cur[p].left > 0
      /\ UNCHANGED <<size, filevars, inodevars, todo, grown>>
  BY DEF Writei, At
<1>2. PICK i, o, l : i = cur[p].ip /\ o = cur[p].off /\ l = cur[p].left
  OBVIOUS
<1>3. CASE /\ Bmap(i, o \div BSIZE) # 0 /\ WriteCells(i, o, l)
           /\ cur' = [cur EXCEPT ![p].off = o + InBlock(o, l), ![p].left = @ - InBlock(o, l)]
           /\ UNCHANGED <<bitmap, addrs, pc, panic>>
  <2>1. Copies(p, i, o, l)
    <3>1. cur \in [Procs -> Locals]
      BY <1>0 DEF Typed, TypeOK
    <3> QED BY <1>1, <1>2, <1>3, <3>1 DEF Copies
  <2> QED BY <2>1, WriteiCopyKeeps
<1>4. CASE panic' = "balloc: out of blocks" /\ UNCHANGED <<bitmap, data, addrs, pc, cur>>
  BY <1>1, <1>4, WriteiFullKeeps DEF blockvars
<1>5. CASE /\ Bmap(i, o \div BSIZE) = 0 /\ ~DiskFull
           /\ \E b \in Blocks : Balloc(b) /\ Install(i, o \div BSIZE, b)
           /\ UNCHANGED <<pc, cur, panic>>
  <2>1. PICK n : n = o \div BSIZE
    OBVIOUS
  <2>2. i \in Inums /\ n \in 0..(MAXFILE - 1) /\ From(i) = 0
    <3>1. i \in Inums /\ From(i) = 0 /\ o \in Nat /\ l \in Nat /\ l > 0 /\ o + l <= MAXFILE * BSIZE
      BY <1>1, <1>2, WriterFacts
    <3>2. o \in 0..(MAXFILE * BSIZE - 1)
      BY <3>1, BlockConstants
    <3> QED BY <2>1, <3>1, <3>2, Offset
  <2>3. PICK b \in Blocks : Balloc(b) /\ Install(i, n, b)
    BY <1>5, <2>1
  <2>4. b \notin bitmap
    <3>1. Blocks \ bitmap \in SUBSET Nat /\ Blocks \ bitmap # {}
      <4>1. bitmap \subseteq Blocks
        BY <1>0 DEF Typed, TypeOK
      <4> QED BY <1>5, <4>1, BlockConstants DEF DiskFull
    <3>2. b = Min(Blocks \ bitmap)
      BY <2>3 DEF Balloc
    <3> QED BY <3>1, <3>2, MinNat
  <2>5. Takes(p, i, n, b)
    BY <1>1, <1>2, <1>5, <2>1, <2>2, <2>3, <2>4 DEF Takes, Balloc
  <2>6. PICK k \in 0..NDIRECT : k = IF n < NDIRECT THEN n ELSE NDIRECT
    BY <2>2, BlockConstants
  <2>7. CASE addrs[i][k] = 0
    <3>1. Hangs(i, k, b)
      BY <2>3, <2>6, <2>7 DEF Install, Hangs
    <3> QED BY <2>5, <3>1, TakeDirect
  <2>8. CASE addrs[i][k] # 0
    <3>1. Bmap(i, n) = 0
      BY <1>5, <2>1
    <3>2. ~(n < NDIRECT) /\ k = NDIRECT
      BY <2>6, <2>8, <3>1 DEF Bmap
    <3>3. PICK e \in 0..(NINDIRECT - 1) : e = n - NDIRECT
      BY <2>2, <3>2, BlockConstants
    <3>4. data[addrs[i][NDIRECT]][e] = 0
      BY <2>8, <3>1, <3>2, <3>3 DEF Bmap, Indirect
    <3>5. HangsBelow(i, e, b)
      BY <2>3, <2>6, <2>8, <3>2, <3>3, <3>4 DEF Install, HangsBelow
    <3> QED BY <2>5, <3>5, TakeBelow
  <2> QED BY <2>7, <2>8
<1> QED BY <1>2, <1>3, <1>4, <1>5 DEF Writei

\* The file has grown to the end of the write, whose bytes are all there.
LEMMA WriteEndKeeps ==
  ASSUME FilesInv, NEW p \in Procs, WriteEnd(p)
  PROVE  FilesInv'
<1>0. Typed /\ FilesCounted /\ InodesCounted /\ EndsHeld /\ Contents /\ \A g \in FIds : FileSound(g)
  BY DEF FilesInv
<1>1. pc[p] = "writei" /\ cur[p].left = 0
  BY DEF WriteEnd, At
<1>2. PICK i \in Inums, f \in FIds, n \in Nat, o \in Nat, e \in Nat :
        /\ i = cur[p].ip /\ f = cur[p].f /\ i = file[f].ip /\ n = Piece(p) /\ o = cur[p].off
        /\ e = file[f].off /\ o = e + n /\ o <= MAXFILE * BSIZE /\ n > 0 /\ n <= cur[p].n
        /\ lock[i] = p /\ i \in used /\ todo[p] = <<>> /\ cur[p].n \in Nat
        /\ file[f].type = "inode" /\ file[f].ref # 0
        /\ \A j \in Inums : lock[j] = p => j = i
  BY <1>1, WriterFacts
<1>3. PICK s \in Nat : s = size[i] /\ s = grown[i] /\ s <= MAXFILE * BSIZE /\ ~Truncating(i)
  <2>1. ~Truncating(i)
    BY <1>2 DEF Truncating
  <2>2. size[i] = grown[i]
    BY <1>0, <2>1 DEF Contents
  <2> QED BY <1>0, <2>1, <2>2, SizeType
<1>4. PICK z \in Nat : z = (IF s <= o THEN o ELSE s)
  OBVIOUS
<1>5. /\ bitmap' = bitmap /\ data' = data /\ addrs' = addrs /\ ofile' = ofile /\ ends' = ends
      /\ used' = used /\ iref' = iref /\ nlink' = nlink /\ todo' = todo /\ panic' = panic
  BY DEF WriteEnd
<1>6. /\ size' \in [Inums -> 0..(MAXFILE * BSIZE)] /\ size'[i] = z
      /\ grown' \in [Inums -> Nat] /\ grown'[i] = z
      /\ \A j \in Inums : j # i => size'[j] = size[j] /\ grown'[j] = grown[j]
  <2>1. size \in [Inums -> 0..(MAXFILE * BSIZE)] /\ grown \in [Inums -> Nat]
    BY <1>0 DEF Typed, TypeOK
  <2>2. Max({s, o}) = z
    BY <1>4, MinTwo
  <2>3. size' = [size EXCEPT ![i] = z]
    BY <1>2, <1>3, <2>2 DEF WriteEnd
  <2>4. grown' = [grown EXCEPT ![i] = z]
    BY <1>2, <1>3, <2>2 DEF WriteEnd, Piece
  <2>5. z \in 0..(MAXFILE * BSIZE)
    BY <1>2, <1>3, <1>4, BlockConstants
  <2> QED BY <2>1, <2>3, <2>4, <2>5
<1>7. /\ file' \in [FIds -> FileRecs] /\ (\A g \in FIds : g # f => file'[g] = file[g])
      /\ file'[f].off = o
      /\ \A g \in FIds : /\ file'[g].type = file[g].type /\ file'[g].ip = file[g].ip
                         /\ file'[g].ref = file[g].ref /\ file'[g].writable = file[g].writable
  <2>1. file \in [FIds -> FileRecs]
    BY <1>0 DEF Typed, TypeOK
  <2>2. file' = [file EXCEPT ![f].off = o]
    BY <1>2 DEF WriteEnd, Piece
  <2> QED BY <2>1, <2>2 DEF FileRecs
<1>8. /\ lock' \in [Inums -> Procs \union {NoProc}] /\ lock'[i] = NoProc
      /\ \A j \in Inums : j # i => lock'[j] = lock[j]
  <2>1. lock \in [Inums -> Procs \union {NoProc}] /\ lock' = [lock EXCEPT ![i] = NoProc]
    BY <1>0, <1>2 DEF Typed, TypeOK, WriteEnd
  <2> QED BY <2>1
<1>9. /\ pc' \in [Procs -> Labels] /\ cur' \in [Procs -> Locals]
      /\ \A q \in Procs : q # p => pc'[q] = pc[q] /\ cur'[q] = cur[q]
      /\ \/ pc'[p] = "user" /\ cur'[p] = Idle
         \/ pc'[p] = "write" /\ cur'[p].f = f /\ cur'[p].n > 0
  <2>1. pc \in [Procs -> Labels] /\ cur \in [Procs -> Locals] /\ Idle \in Locals
    BY <1>0, LabelsType, IdleType DEF Typed, TypeOK
  <2>2. CASE cur[p].n = n
    <3>1. pc' = [pc EXCEPT ![p] = "user"] /\ cur' = [cur EXCEPT ![p] = Idle]
      BY <1>2, <2>2 DEF WriteEnd, Piece, Return, Goto
    <3> QED BY <2>1, <3>1 DEF Labels
  <2>3. CASE cur[p].n # n
    <3>1. PICK m \in Nat : m = cur[p].n - n /\ m > 0
      BY <1>2, <2>3
    <3>2. PICK c : c = [Idle EXCEPT !.f = f, !.n = m]
      OBVIOUS
    <3>3. f \in 0..NFILE
      BY DEF FIds
    <3>4. c \in Locals /\ c.f = f /\ c.n = m
      BY <2>1, <3>2, <3>3 DEF Idle, Locals
    <3>5. pc' = [pc EXCEPT ![p] = "write"] /\ cur' = [cur EXCEPT ![p] = c]
      BY <1>2, <2>3, <3>1, <3>2 DEF WriteEnd, Piece, Goto
    <3>6. cur' \in [Procs -> Locals] /\ cur'[p] = c /\ \A q \in Procs : q # p => cur'[q] = cur[q]
      BY <2>1, <3>4, <3>5
    <3>7. pc' \in [Procs -> Labels] /\ pc'[p] = "write" /\ \A q \in Procs : q # p => pc'[q] = pc[q]
      BY <2>1, <3>5 DEF Labels
    <3> QED BY <3>1, <3>4, <3>6, <3>7
  <2> QED BY <2>2, <2>3
<1>10. Typed'
  <2>1. \A g \in FIds : file'[g].type = "inode" => file'[g].off <= size'[file'[g].ip]
    <3>1. ASSUME NEW g \in FIds, file'[g].type = "inode" PROVE file'[g].off <= size'[file'[g].ip]
      <4>1. /\ file[g].type = "inode" /\ file[g].ip \in Inums /\ file'[g].ip = file[g].ip
            /\ file[g].off <= size[file[g].ip] /\ file[g].off \in Nat
        <5>1. file[g].type = "inode" /\ file'[g].ip = file[g].ip
          BY <1>7, <3>1
        <5>2. file[g].ip \in Inums /\ file[g].off <= size[file[g].ip]
          BY <1>0, <5>1 DEF FileSound, Typed, TypeOK
        <5> QED BY <1>0, <5>1, <5>2, FileType
      <4>2. CASE g = f
        BY <1>2, <1>4, <1>6, <1>7, <4>1, <4>2
      <4>3. CASE g # f /\ file[g].ip = i
        <5>1. file'[g].off = file[g].off /\ size'[file'[g].ip] = z /\ size[file[g].ip] = s
          BY <1>3, <1>6, <1>7, <4>1, <4>3
        <5>2. PICK d \in Nat : d = file[g].off /\ d <= s
          BY <4>1, <5>1
        <5>3. d <= z
          BY <1>4, <5>2
        <5> QED BY <5>1, <5>2, <5>3
      <4>4. CASE g # f /\ file[g].ip # i
        BY <1>6, <1>7, <4>1, <4>4
      <4> QED BY <4>2, <4>3, <4>4
    <3> QED BY <3>1
  <2>2. TypeOK'
    <3>1. TypeOK
      BY <1>0 DEF Typed
    <3> QED BY <1>5, <1>6, <1>7, <1>8, <1>9, <2>1, <3>1 DEF TypeOK, Labels
  <2> QED BY <1>0, <1>5, <2>2 DEF Typed, Indirect, IsData
<1>11. Only(p)
  BY <1>5, <1>9 DEF Only
<1>12. Apart(p)
  <2>1. ASSUME NEW q \in Procs, q # p
        PROVE  /\ pc[q] = "piping" => file'[cur[q].f] = file[cur[q].f]
               /\ pc[q] \in {"write", "writei"} =>
                    /\ file'[cur[q].f].type = file[cur[q].f].type
                    /\ file'[cur[q].f].ip = file[cur[q].f].ip
               /\ pc[q] = "writei" => file'[cur[q].f].off = file[cur[q].f].off
    <3>1. ASSUME pc[q] = "piping" PROVE cur[q].f \in FIds /\ cur[q].f # f
      <4>1. cur[q].f \in FIds /\ file[cur[q].f].type = "none"
        BY <3>1 DEF FilesInv, Shape, NoFile
      <4> QED BY <1>2, <4>1
    <3>2. ASSUME pc[q] \in {"write", "writei"} PROVE cur[q].f \in FIds
      BY <3>2, ShapeFacts
    <3>3. ASSUME pc[q] = "writei" PROVE cur[q].f # f
      <4>1. lock[file[cur[q].f].ip] = q
        BY <3>3 DEF FilesInv, Shape
      <4> QED BY <1>2, <2>1, <4>1
    <3> QED BY <1>7, <3>1, <3>2, <3>3
  <2>2. \A q \in Procs : q # p => \A j \in Inums : lock[j] = q => lock'[j] = q
    BY <1>2, <1>8
  <2> QED BY <1>5, <1>11, <2>1, <2>2, PutsInUsed DEF Apart
<1>13. Shape(p)'
  <2>1. CASE pc'[p] = "user" /\ cur'[p] = Idle
    BY <1>2, <1>5, <2>1, ShapeUser
  <2>2. CASE pc'[p] = "write" /\ cur'[p].f = f /\ cur'[p].n > 0
    <3>1. \E fd \in FDs : ofile[p][fd] = f
      BY <1>1, <1>2 DEF FilesInv, Shape, Writing
    <3>2. Writing(p)'
      BY <1>2, <1>5, <1>7, <2>2, <3>1 DEF Writing
    <3> QED BY <1>2, <1>5, <2>2, <3>2, ShapeWriting
  <2> QED BY <1>9, <2>1, <2>2
<1>14. \A q \in Procs : Shape(q)'
  BY <1>12, <1>13, OthersKeep
<1>15. ASSUME NEW j \in Inums
       PROVE  From(j)' = From(j) /\ (Truncating(j)' <=> Truncating(j))
  <2>1. CASE j # i
    <3>1. lock'[j] = lock[j] /\ lock[j] # p /\ lock[j] \in Procs \union {NoProc}
      BY <1>0, <1>2, <1>8, <2>1 DEF Typed, TypeOK
    <3> QED BY <1>5, <1>9, <3>1 DEF From, Truncating
  <2>2. CASE j = i
    BY <1>2, <1>8, <2>2 DEF From, Truncating
  <2> QED BY <2>1, <2>2
<1>16. Owned'
  <2>1. ASSUME NEW j \in Inums, NEW x PROVE Ptr(j, x)' = Ptr(j, x)
    BY <1>5, <1>15 DEF Ptr, PointsTo, Entries, Indirect
  <2> QED BY <1>5, <2>1, OwnedSame DEF FilesInv
<1>17. Contents'
  <2>1. \A j, k : Right(j, k)' <=> Right(j, k)
    BY <1>5 DEF Right, Bmap, Byte, Indirect
  <2>2. ASSUME NEW j \in Inums, ~Truncating(j)'
        PROVE  size'[j] = grown'[j] /\ \A k \in 0..(size'[j] - 1) : Right(j, k)'
    <3>1. CASE j # i
      BY <1>0, <1>6, <1>15, <2>1, <2>2, <3>1 DEF Contents
    <3>2. CASE j = i
      <4>1. \A k \in 0..(s - 1) : Right(i, k)
        BY <1>0, <1>3 DEF Contents
      <4>2. \A k \in 0..(o - 1) : Right(i, k)
        <5>1. \A k \in 0..(cur[p].off - 1) : Right(cur[p].ip, k)
          BY <1>0, <1>1 DEF Contents
        <5>2. cur[p].off = o /\ cur[p].ip = i
          BY <1>2
        <5> QED BY <5>1, <5>2
      <4>3. \A k \in 0..(z - 1) : Right(i, k)
        BY <1>4, <4>1, <4>2
      <4> QED BY <1>6, <2>1, <3>2, <4>3
    <3> QED BY <3>1, <3>2
  <2>3. ASSUME NEW q \in Procs, pc'[q] = "writei", NEW j, j = cur'[q].ip, NEW k \in 0..(cur'[q].off - 1)
        PROVE  Right(j, k)'
    <3>1. pc[q] = "writei" /\ cur'[q] = cur[q]
      BY <1>9, <2>3
    <3> QED BY <1>0, <2>1, <2>3, <3>1 DEF Contents
  <2> QED BY <2>2, <2>3, ContentsAs
<1>18. ASSUME NEW j \in Inums PROVE Locked(j)' /\ FreeInode(j)'
  <2>1. Locked(j) /\ FreeInode(j)
    BY DEF FilesInv
  <2>2. FreeInode(j)'
    BY <1>2, <1>5, <1>6, <2>1 DEF FreeInode, Truncated
  <2>3. CASE j # i
    <3>1. lock'[j] = lock[j] /\ lock[j] # p /\ lock[j] \in Procs \union {NoProc}
      BY <1>0, <1>2, <1>8, <2>3 DEF Typed, TypeOK
    <3> QED BY <1>5, <1>9, <2>1, <2>2, <3>1 DEF Locked, Unused
  <2>4. CASE j = i
    BY <1>8, <2>2, <2>4 DEF Locked
  <2> QED BY <2>3, <2>4
<1>19. (\A g \in FIds : FileSound(g)') /\ EndsHeld'
  BY <1>0, <1>2, <1>5, <1>7, EndsKeep DEF FileSound
<1>20. \A q \in Procs : /\ \A x \in FilePlaces : FileAt(q, x)' = FileAt(q, x)
                        /\ \A x \in InodePlaces : InodeAt(q, x)' = InodeAt(q, x)
  BY <1>1, <1>5, <1>9, <1>11, PlacesSame
<1>21. FilesCounted'
  <2>1. \A g : Holders(g)' = Holders(g)
    BY <1>20 DEF Holders
  <2> QED BY <1>0, <1>7, <2>1, CountedAs
<1>22. InodesCounted'
  <2>1. \A j : Callers(j)' = Callers(j)
    BY <1>20 DEF Callers
  <2>2. \A j : OpenOn(j)' = OpenOn(j)
    BY <1>7 DEF OpenOn
  <2> QED BY <1>0, <1>5, <2>1, <2>2, InodesAs
<1> QED BY <1>10, <1>14, <1>16, <1>17, <1>18, <1>19, <1>21, <1>22 DEF FilesInv

----------------------------------------------------------------------------
(* itrunc *)

\* p is in itrunc of inode i.
Truncates(p, i) == Doing(p, "put") /\ i = Head(todo[p])[2] /\ lock[i] = p

LEMMA TruncFacts ==
  ASSUME FilesInv, NEW p \in Procs, NEW i, Truncates(p, i)
  PROVE  /\ i \in Inums /\ i \in used /\ Truncating(i) /\ From(i) = cur[p].left /\ cur[p].left \in Nat
         /\ todo[p] \in Todos /\ todo[p] # <<>> /\ Len(todo[p]) \in 1..2
         /\ Head(todo[p]) = <<"put", i>> /\ ItemOf(todo[p], Len(todo[p])) = <<"put", i>>
         /\ pc[p] \in {"leaving", "exiting"} /\ cur[p] = [Idle EXCEPT !.left = cur[p].left]
         /\ nlink[i] = 0 /\ panic = "none"
         /\ \A j \in Inums : lock[j] = p => j = i
         /\ \A q \in Procs, x \in InodePlaces :
              InodeAt(q, x) = i => q = p /\ x = <<"todo", Len(todo[p])>>
         /\ \A g \in FIds : file[g].type = "inode" => file[g].ip # i
<1>1. /\ todo[p] \in Todos /\ todo[p] # <<>> /\ Len(todo[p]) \in 1..2
      /\ Head(todo[p]) = <<"put", i>> /\ ItemOf(todo[p], Len(todo[p])) = <<"put", i>>
      /\ i \in Inums /\ i \in used /\ pc[p] \in {"leaving", "exiting"}
  BY DoingFacts DEF Truncates
<1>2. p # NoProc /\ Typed /\ lock[i] = p
  BY Constants DEF FilesInv, Truncates
<1>3. Truncating(i) /\ From(i) = cur[p].left /\ cur[p].left \in Nat
  BY <1>1, <1>2, Types DEF Truncating, From
<1>4. cur[p] = [Idle EXCEPT !.left = cur[p].left] /\ panic = "none"
  BY <1>1 DEF FilesInv, Shape, Doing, Truncates
<1>5. ASSUME NEW j \in Inums, lock[j] = p PROVE j = i
  <2>1. Locked(j) /\ pc[p] # "writei"
    BY <1>1 DEF FilesInv
  <2>2. Head(todo[p]) = <<"put", j>>
    BY <1>2, <1>5, <2>1 DEF Locked
  <2> QED BY <1>1, <2>2
<1>6. /\ nlink[i] = 0
      /\ \A q \in Procs, x \in InodePlaces :
           InodeAt(q, x) = i => q = p /\ x = <<"todo", Len(todo[p])>>
      /\ \A g \in FIds : file[g].type = "inode" => file[g].ip # i
  BY <1>1, <1>2, <1>3, TruncatingFacts
<1> QED BY <1>1, <1>3, <1>4, <1>5, <1>6

\* The inode is free.
Frees(p, i) ==
  /\ Truncates(p, i) /\ Truncated(i)
  /\ size' = [size EXCEPT ![i] = 0] /\ grown' = [grown EXCEPT ![i] = 0]
  /\ used' = used \ {i} /\ lock' = [lock EXCEPT ![i] = NoProc]
  /\ todo' = [todo EXCEPT ![p] = <<<<"drop", i>>>> \o Tail(todo[p])]
  /\ cur' = [cur EXCEPT ![p].left = 0]
  /\ UNCHANGED <<bitmap, data, addrs, panic, pc, filevars, iref, nlink>>

LEMMA FreesKeeps ==
  ASSUME FilesInv, NEW p \in Procs, NEW i, Frees(p, i)
  PROVE  FilesInv'
<1>0. Typed /\ Contents
  BY DEF FilesInv
<1>1. /\ i \in Inums /\ i \in used /\ Truncating(i)
      /\ todo[p] \in Todos /\ todo[p] # <<>> /\ Len(todo[p]) \in 1..2
      /\ ItemOf(todo[p], Len(todo[p])) = <<"put", i>>
      /\ pc[p] \in {"leaving", "exiting"} /\ cur[p] = [Idle EXCEPT !.left = cur[p].left]
      /\ nlink[i] = 0 /\ lock[i] = p
      /\ \A j \in Inums : lock[j] = p => j = i
      /\ \A q \in Procs, x \in InodePlaces :
           InodeAt(q, x) = i => q = p /\ x = <<"todo", Len(todo[p])>>
      /\ \A g \in FIds : file[g].type = "inode" => file[g].ip # i
  <2>1. Truncates(p, i) /\ lock[i] = p
    BY DEF Frees, Truncates
  <2> QED BY <2>1, TruncFacts
<1>2. /\ bitmap' = bitmap /\ data' = data /\ addrs' = addrs /\ panic' = panic /\ pc' = pc
      /\ ofile' = ofile /\ file' = file /\ ends' = ends /\ iref' = iref /\ nlink' = nlink
      /\ used' = used \ {i}
  BY DEF Frees, filevars
<1>3. /\ size' \in [Inums -> 0..(MAXFILE * BSIZE)] /\ size'[i] = 0
      /\ grown' \in [Inums -> Nat] /\ grown'[i] = 0
      /\ \A j \in Inums : j # i => size'[j] = size[j] /\ grown'[j] = grown[j]
  <2>1. size \in [Inums -> 0..(MAXFILE * BSIZE)] /\ grown \in [Inums -> Nat]
    BY <1>0 DEF Typed, TypeOK
  <2>2. 0 \in 0..(MAXFILE * BSIZE)
    BY BlockConstants
  <2>3. size' = [size EXCEPT ![i] = 0] /\ grown' = [grown EXCEPT ![i] = 0]
    BY DEF Frees
  <2> QED BY <1>1, <2>1, <2>2, <2>3
<1>4. /\ lock' \in [Inums -> Procs \union {NoProc}] /\ lock'[i] = NoProc
      /\ \A j \in Inums : j # i => lock'[j] = lock[j]
  <2>1. lock \in [Inums -> Procs \union {NoProc}] /\ lock' = [lock EXCEPT ![i] = NoProc]
    BY <1>0 DEF Typed, TypeOK, Frees
  <2> QED BY <1>1, <2>1
<1>5. /\ todo' \in [Procs -> Todos] /\ \A q \in Procs : q # p => todo'[q] = todo[q]
      /\ \A k \in 1..2 : ItemOf(todo'[p], k) =
           IF k = Len(todo[p]) THEN <<"drop", i>> ELSE ItemOf(todo[p], k)
  <2>1. <<"drop", i>> \in Items
    BY <1>1 DEF Items
  <2>2. todo \in [Procs -> Todos] /\ todo' = [todo EXCEPT ![p] = <<<<"drop", i>>>> \o Tail(todo[p])]
    BY <1>0 DEF Typed, Frees
  <2>3. todo[p] \in Todos /\ todo[p] # <<>>
    BY <1>1
  <2>4. /\ <<<<"drop", i>>>> \o Tail(todo[p]) \in Todos
        /\ \A k \in 1..2 : ItemOf(<<<<"drop", i>>>> \o Tail(todo[p]), k) =
             IF k = Len(todo[p]) THEN <<"drop", i>> ELSE ItemOf(todo[p], k)
    BY <2>1, <2>3, TodoFacts
  <2>5. PICK t : t = <<<<"drop", i>>>> \o Tail(todo[p])
    OBVIOUS
  <2>6. t \in Todos /\ \A k \in 1..2 : ItemOf(t, k) =
          IF k = Len(todo[p]) THEN <<"drop", i>> ELSE ItemOf(todo[p], k)
    BY <2>4, <2>5
  <2>7. todo' = [todo EXCEPT ![p] = t]
    BY <2>2, <2>5
  <2>8. todo'[p] = t /\ todo' \in [Procs -> Todos] /\ \A q \in Procs : q # p => todo'[q] = todo[q]
    BY <2>2, <2>6, <2>7
  <2> QED BY <2>6, <2>8
<1>6. /\ cur' \in [Procs -> Locals] /\ cur'[p] = Idle /\ \A q \in Procs : q # p => cur'[q] = cur[q]
  <2>1. cur \in [Procs -> Locals] /\ cur' = [cur EXCEPT ![p].left = 0] /\ Idle \in Locals
    BY <1>0, IdleType DEF Typed, TypeOK, Frees
  <2>2. cur'[p] = [cur[p] EXCEPT !.left = 0]
    BY <2>1
  <2>3. PICK l : cur[p] = [Idle EXCEPT !.left = l]
    BY <1>1
  <2>4. cur'[p] = Idle
    BY <2>2, <2>3 DEF Idle
  <2> QED BY <2>1, <2>4
<1>7. Typed'
  <2>1. ASSUME NEW g \in FIds, file'[g].type = "inode" PROVE file'[g].off <= size'[file'[g].ip]
    <3>1. file[g].type = "inode" /\ file[g].ip # i
      BY <1>1, <1>2, <2>1
    <3>2. file[g].ip \in Inums /\ file[g].off <= size[file[g].ip]
      BY <1>0, <3>1 DEF FilesInv, FileSound, Typed, TypeOK
    <3> QED BY <1>2, <1>3, <3>1, <3>2
  <2>2. TypeOK'
    <3>1. TypeOK
      BY <1>0 DEF Typed
    <3> QED BY <1>2, <1>3, <1>4, <1>6, <2>1, <3>1 DEF TypeOK
  <2> QED BY <1>0, <1>2, <1>5, <2>2 DEF Typed, Indirect, IsData
<1>8. Only(p)
  BY <1>2, <1>5, <1>6 DEF Only
<1>9. ASSUME NEW q \in Procs
      PROVE  /\ pc[q] = "opening" => cur[q].ip \in used'
             /\ \A k \in 1..2 : ItemOf(todo[q], k)[1] = "put" /\ (q # p \/ k # Len(todo[p]))
                                => ItemOf(todo[q], k)[2] \in used'
  <2>1. ASSUME pc[q] = "opening" PROVE cur[q].ip \in used'
    <3>1. cur[q].ip \in used
      BY <2>1, PutsInUsed
    <3>2. InodeAt(q, <<"open", 0>>) = cur[q].ip
      BY <2>1, FileAtFacts
    <3>3. cur[q].ip # i
      BY <1>1, <3>2, PlaceFacts
    <3> QED BY <1>2, <3>1, <3>3
  <2>2. ASSUME NEW k \in 1..2, ItemOf(todo[q], k)[1] = "put", q # p \/ k # Len(todo[p])
        PROVE  ItemOf(todo[q], k)[2] \in used'
    <3>1. ItemOf(todo[q], k)[2] \in used
      BY <2>2, PutsInUsed
    <3>2. InodeAt(q, <<"todo", k>>) = ItemOf(todo[q], k)[2]
      BY <2>2, FileAtFacts DEF Puts
    <3>3. <<"todo", k>> \in InodePlaces
      BY PlaceFacts
    <3>4. ItemOf(todo[q], k)[2] # i
      BY <1>1, <2>2, <3>2, <3>3
    <3> QED BY <1>2, <3>1, <3>4
  <2> QED BY <2>1, <2>2
<1>10. Apart(p)
  BY <1>1, <1>2, <1>4, <1>8, <1>9 DEF Apart
<1>11. Shape(p)'
  <2>1. \A k \in 1..2 : ItemOf(todo'[p], k)[1] = "put" => ItemOf(todo'[p], k)[2] \in used'
    BY <1>5, <1>9
  <2> QED BY <1>1, <1>2, <1>6, <2>1, ShapeLeaving
<1>12. \A q \in Procs : Shape(q)'
  BY <1>10, <1>11, OthersKeep
<1>13. ASSUME NEW j \in Inums, j # i
       PROVE  /\ lock'[j] = lock[j] /\ lock[j] # p /\ lock[j] \in Procs \union {NoProc}
              /\ From(j)' = From(j) /\ (Truncating(j)' <=> Truncating(j))
  <2>1. lock'[j] = lock[j] /\ lock[j] # p /\ lock[j] \in Procs \union {NoProc}
    BY <1>0, <1>1, <1>4, <1>13 DEF Typed, TypeOK
  <2> QED BY <1>5, <1>6, <2>1 DEF From, Truncating
<1>14. Owned'
  <2>1. ASSUME NEW j \in Inums, NEW y \in Pointers PROVE Ptr(j, y)' = Ptr(j, y)
    <3>1. CASE j # i
      BY <1>2, <1>13, <3>1 DEF Ptr, PointsTo, Entries, Indirect
    <3>2. CASE j = i
      <4>1. \A k \in 0..NDIRECT : addrs[i][k] = 0 /\ addrs'[i][k] = 0
        BY <1>2 DEF Frees, Truncated
      <4>2. addrs[i][NDIRECT] = 0 /\ addrs'[i][NDIRECT] = 0
        BY <4>1, BlockConstants
      <4>3. Ptr(i, y) = 0
        BY <1>0, <1>1, <4>1, <4>2, PtrFacts, PointerFacts
      <4>4. Ptr(i, y)' = 0
        BY <1>1, <1>7, <4>1, <4>2, PtrFacts2, PointerFacts
      <4> QED BY <3>2, <4>3, <4>4
    <3> QED BY <3>1, <3>2
  <2> QED BY <1>2, <2>1, OwnedSame DEF FilesInv
<1>15. Contents'
  <2>1. \A j, k : Right(j, k)' <=> Right(j, k)
    BY <1>2 DEF Right, Bmap, Byte, Indirect
  <2>2. ASSUME NEW j \in Inums, ~Truncating(j)'
        PROVE  size'[j] = grown'[j] /\ \A k \in 0..(size'[j] - 1) : Right(j, k)'
    <3>1. CASE j # i
      BY <1>0, <1>3, <1>13, <2>1, <2>2, <3>1 DEF Contents
    <3>2. CASE j = i
      BY <1>3, <3>2, NoneBetween
    <3> QED BY <3>1, <3>2
  <2>3. ASSUME NEW q \in Procs, pc'[q] = "writei", NEW j, j = cur'[q].ip, NEW k \in 0..(cur'[q].off - 1)
        PROVE  Right(j, k)'
    <3>1. pc[q] = "writei" /\ cur'[q] = cur[q]
      BY <1>1, <1>2, <1>6, <2>3
    <3> QED BY <1>0, <2>1, <2>3, <3>1 DEF Contents
  <2> QED BY <2>2, <2>3, ContentsAs
<1>16. ASSUME NEW j \in Inums PROVE Locked(j)' /\ FreeInode(j)'
  <2>1. Locked(j) /\ FreeInode(j)
    BY DEF FilesInv
  <2>2. CASE j # i
    BY <1>2, <1>3, <1>5, <1>6, <1>13, <2>1, <2>2 DEF Locked, Unused, FreeInode, Truncated
  <2>3. CASE j = i
    <3>1. Locked(j)'
      BY <1>4, <2>3 DEF Locked
    <3> QED BY <1>1, <1>2, <1>3, <2>3, <3>1 DEF FreeInode, Frees, Truncated
  <2> QED BY <2>2, <2>3
<1>17. (\A g \in FIds : FileSound(g)') /\ EndsHeld'
  <2>1. \A k \in 1..2 : Ends(ItemOf(todo'[p], k)) = Ends(ItemOf(todo[p], k))
    <3>1. Ends(<<"drop", i>>) = Ends(<<"put", i>>)
      BY NoEnds
    <3> QED BY <1>1, <1>5, <3>1
  <2>2. \A q \in Procs, k \in 1..2 : Ends(ItemOf(todo'[q], k)) = Ends(ItemOf(todo[q], k))
    BY <1>1, <1>5, <2>1
  <2>3. EndsHeld'
    BY <1>2, <2>2, EndsKeep DEF FilesInv
  <2> QED BY <1>1, <1>2, <2>3 DEF FilesInv, FileSound
<1>18. FilesCounted' /\ InodesCounted'
  <2>1. /\ Closes(<<"put", i>>) = Closes(<<"drop", i>>)
        /\ Puts(<<"put", i>>) = Puts(<<"drop", i>>)
    BY DEF Closes, Puts
  <2>2. \A k \in 1..2 : /\ Closes(ItemOf(todo'[p], k)) = Closes(ItemOf(todo[p], k))
                        /\ Puts(ItemOf(todo'[p], k)) = Puts(ItemOf(todo[p], k))
    BY <1>1, <1>5, <2>1
  <2>3. \A q \in Procs : /\ \A x \in FilePlaces : FileAt(q, x)' = FileAt(q, x)
                         /\ \A x \in InodePlaces : InodeAt(q, x)' = InodeAt(q, x)
    BY <1>1, <1>2, <1>8, <2>2, PlacesSame
  <2> QED BY <1>2, <2>3, Uncounted DEF FilesInv
<1> QED BY <1>7, <1>12, <1>14, <1>15, <1>16, <1>17, <1>18 DEF FilesInv

\* Block b of inode i is freed; l is where itrunc goes on in the indirect block.
Shrinks(p, i, b, l) ==
  /\ Truncates(p, i) /\ b \in bitmap /\ l \in Nat
  /\ bitmap' = bitmap \ {b} /\ data' = [data EXCEPT ![b] = Filled(Garbage)]
  /\ cur' = [cur EXCEPT ![p].left = l] /\ panic' = panic
  /\ UNCHANGED <<size, used, lock, todo, grown, pc, filevars, iref, nlink>>
  /\ addrs' \in [Inums -> [0..NDIRECT -> 0..NBLOCKS]]
  /\ \A j \in Inums : j # i => addrs'[j] = addrs[j]
  /\ \A j \in Inums : addrs'[j][NDIRECT] # 0 =>
       addrs'[j][NDIRECT] = addrs[j][NDIRECT] /\ addrs[j][NDIRECT] # b

LEMMA ShrinksHolds ==
  ASSUME FilesInv, NEW p \in Procs, NEW i, NEW b, NEW l, Shrinks(p, i, b, l)
  PROVE  /\ i \in Inums /\ i \in used /\ Truncating(i) /\ todo[p] # <<>>
         /\ Head(todo[p]) = <<"put", i>> /\ lock[i] = p /\ pc[p] \in {"leaving", "exiting"}
         /\ \A j \in Inums : lock[j] = p => j = i
<1>1. Truncates(p, i) /\ lock[i] = p
  BY DEF Shrinks, Truncates
<1>2. i \in Inums /\ i \in used /\ Truncating(i) /\ pc[p] \in {"leaving", "exiting"}
  BY <1>1, TruncFacts
<1>3. todo[p] # <<>> /\ Head(todo[p]) = <<"put", i>>
  BY <1>1, DoingFacts DEF Truncates
<1>4. ASSUME NEW j \in Inums, lock[j] = p PROVE j = i
  <2>1. Locked(j) /\ pc[p] # "writei" /\ p # NoProc
    BY <1>2, Constants DEF FilesInv
  <2>2. Head(todo[p]) = <<"put", j>>
    BY <1>4, <2>1 DEF Locked
  <2> QED BY <1>3, <2>2
<1> QED BY <1>1, <1>2, <1>3, <1>4

\* What that leaves alone.
Shrunk(p, i, b, l) ==
  /\ Typed' /\ Only(p) /\ b \in Blocks
  /\ \A c \in Blocks : c # b => data'[c] = data[c]
  /\ cur'[p] = [Idle EXCEPT !.left = l] /\ cur'[p].left = l /\ From(i)' = l
  /\ \A j \in Inums : /\ Truncating(j)' <=> Truncating(j)
                      /\ j # i => From(j)' = From(j)
  /\ \A j \in Inums : j # i /\ addrs[j][NDIRECT] # 0 =>
       data'[addrs[j][NDIRECT]] = data[addrs[j][NDIRECT]]

LEMMA ShrinksFacts ==
  ASSUME FilesInv, NEW p \in Procs, NEW i, NEW b, NEW l, Shrinks(p, i, b, l)
  PROVE  Shrunk(p, i, b, l)
<1>0. Typed
  BY DEF FilesInv
<1>1. /\ i \in Inums /\ Truncating(i) /\ From(i) = cur[p].left /\ todo[p] # <<>>
      /\ pc[p] \in {"leaving", "exiting"} /\ cur[p] = [Idle EXCEPT !.left = cur[p].left]
      /\ lock[i] = p /\ \A j \in Inums : lock[j] = p => j = i
  <2>1. Truncates(p, i) /\ lock[i] = p
    BY DEF Shrinks, Truncates
  <2> QED BY <2>1, TruncFacts
<1>2. /\ size' = size /\ used' = used /\ lock' = lock /\ todo' = todo /\ grown' = grown /\ pc' = pc
      /\ ofile' = ofile /\ file' = file /\ ends' = ends /\ iref' = iref /\ nlink' = nlink
      /\ panic' = panic /\ bitmap' = bitmap \ {b} /\ b \in bitmap /\ l \in Nat
  BY DEF Shrinks, filevars
<1>3. b \in Blocks /\ bitmap \subseteq Blocks
  BY <1>0, <1>2 DEF Typed, TypeOK
<1>4. IsData(data') /\ data'[b] = Filled(Garbage) /\ \A c \in Blocks : c # b => data'[c] = data[c]
  <2>1. Overwrites(data, b, Filled(Garbage), data')
    BY <1>0, <1>3, FilledFacts DEF Overwrites, Typed, Shrinks
  <2> QED BY <2>1, DataExcept
<1>5. /\ cur' \in [Procs -> Locals] /\ cur'[p] = [Idle EXCEPT !.left = l] /\ cur'[p].left = l
      /\ \A q \in Procs : q # p => cur'[q] = cur[q]
  <2>1. cur \in [Procs -> Locals] /\ cur' = [cur EXCEPT ![p].left = l]
    BY <1>0 DEF Typed, TypeOK, Shrinks
  <2>2. cur'[p] = [cur[p] EXCEPT !.left = l]
    BY <2>1
  <2>3. PICK d : cur[p] = [Idle EXCEPT !.left = d]
    BY <1>1
  <2>4. cur'[p] = [Idle EXCEPT !.left = l] /\ cur'[p].left = l
    BY <2>2, <2>3 DEF Idle
  <2>5. cur' \in [Procs -> Locals] /\ \A q \in Procs : q # p => cur'[q] = cur[q]
    BY <1>2, <2>1 DEF Locals
  <2> QED BY <2>4, <2>5
<1>6. ASSUME NEW j \in Inums, addrs[j][NDIRECT] # 0
      PROVE  addrs[j][NDIRECT] \in Blocks
  BY <1>3, <1>6, InUse
<1>7. addrs' \in [Inums -> [0..NDIRECT -> 0..NBLOCKS]]
  BY DEF Shrinks
<1>8. Typed'
  <2>1. TypeOK'
    <3>1. TypeOK /\ bitmap' \subseteq Blocks
      BY <1>0, <1>2, <1>3 DEF Typed
    <3> QED BY <1>2, <1>5, <1>7, <3>1 DEF TypeOK
  <2>2. ASSUME NEW j \in Inums, addrs'[j][NDIRECT] # 0, NEW k \in 0..(NINDIRECT - 1)
        PROVE  data'[addrs'[j][NDIRECT]][k] \in 0..NBLOCKS
    <3>1. addrs'[j][NDIRECT] = addrs[j][NDIRECT] /\ addrs[j][NDIRECT] # b /\ addrs[j][NDIRECT] # 0
      BY <2>2 DEF Shrinks
    <3>2. data[addrs[j][NDIRECT]][k] \in 0..NBLOCKS
      BY <1>0, <3>1 DEF Typed, Indirect
    <3> QED BY <1>4, <1>6, <3>1, <3>2
  <2>3. todo' \in [Procs -> Todos] /\ ends' \in [Pipes -> SUBSET BOOLEAN] /\ IsData(data')
    BY <1>0, <1>2, <1>4 DEF Typed
  <2> QED BY <2>1, <2>2, <2>3 DEF Typed, Indirect
<1>9. Only(p)
  BY <1>2, <1>5 DEF Only
<1>10. ASSUME NEW j \in Inums
       PROVE  (Truncating(j)' <=> Truncating(j)) /\ (j # i => From(j)' = From(j))
  <2>1. lock[j] \in Procs \union {NoProc} /\ (j # i => lock[j] # p)
    BY <1>0, <1>1 DEF Typed, TypeOK
  <2> QED BY <1>2, <1>5, <2>1 DEF Truncating, From
<1>11. From(i)' = l
  <2>1. p # NoProc
    BY Constants
  <2> QED BY <1>1, <1>2, <1>5, <2>1 DEF From
<1>12. ASSUME NEW j \in Inums, j # i, addrs[j][NDIRECT] # 0
       PROVE  data'[addrs[j][NDIRECT]] = data[addrs[j][NDIRECT]]
  <2>1. addrs[j][NDIRECT] # b
    BY <1>12 DEF Shrinks
  <2> QED BY <1>4, <1>6, <1>12, <2>1
<1> QED BY <1>3, <1>4, <1>5, <1>8, <1>9, <1>10, <1>11, <1>12 DEF Shrunk

\* Of the pointers of inode i only the one to b is cleared.
Detaches(i, x, b) ==
  /\ x \in Pointers /\ Ptr(i, x) = b /\ Ptr(i, x)' = 0
  /\ \A y \in Pointers : y # x => Ptr(i, y)' = Ptr(i, y)

LEMMA ShrinksKeeps ==
  ASSUME FilesInv, NEW p \in Procs, NEW i, NEW b, NEW l, Shrinks(p, i, b, l),
         NEW x, Detaches(i, x, b)
  PROVE  FilesInv'
<1>0. Typed /\ Contents /\ Owned
  BY DEF FilesInv
<1>1. /\ i \in Inums /\ i \in used /\ Truncating(i) /\ todo[p] # <<>>
      /\ Head(todo[p]) = <<"put", i>> /\ lock[i] = p /\ pc[p] \in {"leaving", "exiting"}
      /\ \A j \in Inums : lock[j] = p => j = i
  BY ShrinksHolds
<1>2. /\ size' = size /\ used' = used /\ lock' = lock /\ todo' = todo /\ grown' = grown /\ pc' = pc
      /\ ofile' = ofile /\ file' = file /\ ends' = ends /\ iref' = iref /\ nlink' = nlink
      /\ bitmap' = bitmap \ {b} /\ \A j \in Inums : j # i => addrs'[j] = addrs[j]
  BY DEF Shrinks, filevars
<1>3. /\ Typed' /\ Only(p) /\ b \in Blocks
      /\ (\A c \in Blocks : c # b => data'[c] = data[c])
      /\ cur'[p] = [Idle EXCEPT !.left = l] /\ cur'[p].left = l
      /\ \A j \in Inums : /\ Truncating(j)' <=> Truncating(j)
                          /\ j # i => From(j)' = From(j)
      /\ \A j \in Inums : j # i /\ addrs[j][NDIRECT] # 0 =>
           data'[addrs[j][NDIRECT]] = data[addrs[j][NDIRECT]]
  BY ShrinksFacts DEF Shrunk
<1>4. ASSUME NEW j \in Inums, j # i, NEW y PROVE Ptr(j, y)' = Ptr(j, y)
  <2>1. /\ addrs'[j] = addrs[j] /\ From(j)' = From(j)
        /\ addrs[j][NDIRECT] # 0 => data'[addrs[j][NDIRECT]] = data[addrs[j][NDIRECT]]
    BY <1>2, <1>3, <1>4
  <2> QED BY <2>1 DEF Ptr, PointsTo, Entries, Indirect
<1>5. Owned'
  <2>1. OthersPoint(i, x)
    BY <1>4 DEF OthersPoint, Detaches
  <2>2. b # 0
    BY <1>3, BlockConstants
  <2>3. x \in Pointers /\ Ptr(i, x) = b /\ Ptr(i, x)' = 0
    BY DEF Detaches
  <2> QED BY <1>0, <1>1, <1>2, <2>1, <2>2, <2>3, OwnedRelease
<1>6. ASSUME NEW j \in Inums, j # i, From(j) = 0, NEW k \in 0..(MAXFILE * BSIZE - 1), Right(j, k)
      PROVE  Right(j, k)'
  <2>1. PICK d \in 0..(MAXFILE - 1), c \in 0..(BSIZE - 1) : d = k \div BSIZE /\ c = k % BSIZE
    BY Offset
  <2>2. Slot(d) \in Pointers
    BY SlotFacts
  <2>3. Ptr(j, Slot(d)) # 0 /\ data[Ptr(j, Slot(d))][c] = <<j, k>>
    BY <1>0, <1>6, <2>1, RightIs
  <2>4. Ptr(j, Slot(d))' = Ptr(j, Slot(d)) /\ From(j)' = 0
    BY <1>3, <1>4, <1>6
  <2>5. data'[Ptr(j, Slot(d))] = data[Ptr(j, Slot(d))]
    <3>1. Ptr(j, Slot(d)) # b
      <4>1. x \in Pointers /\ Ptr(i, x) = b
        BY DEF Detaches
      <4> QED BY <1>0, <1>1, <1>6, <2>2, <2>3, <4>1 DEF Owned
    <3>2. Ptr(j, Slot(d)) \in Blocks
      BY <1>0, <2>2, <2>3, PtrType
    <3> QED BY <1>3, <3>1, <3>2
  <2> QED BY <1>3, <2>1, <2>3, <2>4, <2>5, RightIs2
<1>7. Contents'
  <2>1. ASSUME NEW j \in Inums, ~Truncating(j)'
        PROVE  size'[j] = grown'[j] /\ \A k \in 0..(size'[j] - 1) : Right(j, k)'
    <3>1. j # i /\ ~Truncating(j) /\ From(j) = 0
      BY <1>1, <1>3, <2>1 DEF Truncating, From
    <3>2. size[j] = grown[j] /\ \A k \in 0..(size[j] - 1) : Right(j, k)
      BY <1>0, <3>1 DEF Contents
    <3>3. 0..(size[j] - 1) \subseteq 0..(MAXFILE * BSIZE - 1)
      BY <1>0, SizeType, BlockConstants
    <3> QED BY <1>2, <1>6, <3>1, <3>2, <3>3
  <2>2. ASSUME NEW q \in Procs, pc'[q] = "writei", NEW j, j = cur'[q].ip, NEW k \in 0..(cur'[q].off - 1)
        PROVE  Right(j, k)'
    <3>1. pc[q] = "writei" /\ q # p /\ cur'[q] = cur[q]
      BY <1>1, <1>2, <1>3, <2>2 DEF Only
    <3>2. /\ j \in Inums /\ From(j) = 0 /\ lock[j] = q /\ cur[q].off \in Nat /\ cur[q].left \in Nat
          /\ cur[q].off + cur[q].left <= MAXFILE * BSIZE
      BY <2>2, <3>1, WriterFacts
    <3>3. k \in 0..(cur[q].off - 1) /\ k \in 0..(MAXFILE * BSIZE - 1)
      BY <2>2, <3>1, <3>2, BlockConstants
    <3>4. Right(j, k)
      BY <1>0, <2>2, <3>1, <3>3 DEF Contents
    <3> QED BY <1>1, <1>6, <3>1, <3>2, <3>3, <3>4
  <2> QED BY <2>1, <2>2, ContentsAs
<1>8. Apart(p)
  BY <1>2, <1>3, PutsInUsed DEF Apart
<1>9. Shape(p)'
  <2>1. \A k \in 1..2 : Item(p, k)'[1] = "put" => Item(p, k)'[2] \in used'
    <3>1. \A k \in 1..2 : Item(p, k)' = ItemOf(todo[p], k)
      BY <1>2 DEF Item, ItemOf
    <3> QED BY <1>2, <3>1, PutsInUsed
  <2>2. Head(todo[p])[1] = "put" /\ Head(todo[p])[2] = i
    BY <1>1
  <2> QED BY <1>1, <1>2, <1>3, <2>1, <2>2 DEF Shape
<1>10. \A q \in Procs : Shape(q)'
  BY <1>8, <1>9, OthersKeep
<1>11. ASSUME NEW j \in Inums PROVE Locked(j)' /\ FreeInode(j)'
  <2>1. Locked(j) /\ FreeInode(j) /\ lock[j] \in Procs \union {NoProc}
    BY <1>0 DEF FilesInv, Typed, TypeOK
  <2>2. CASE j # i
    <3>1. lock[j] # p /\ addrs'[j] = addrs[j]
      BY <1>1, <1>2, <2>2
    <3> QED BY <1>2, <1>3, <2>1, <3>1 DEF Locked, Unused, FreeInode, Truncated, Only
  <2>3. CASE j = i
    <3>1. FreeInode(j)'
      BY <1>1, <1>2, <2>3 DEF FreeInode
    <3>2. Unused(i)
      BY <1>1, TruncatingFacts DEF Unused
    <3> QED BY <1>1, <1>2, <2>3, <3>1, <3>2 DEF Locked, Unused
  <2> QED BY <2>2, <2>3
<1>12. (\A g \in FIds : FileSound(g)') /\ EndsHeld'
  BY <1>2, EndsKeep DEF FilesInv, FileSound
<1>13. FilesCounted' /\ InodesCounted'
  <2>1. \A q \in Procs : /\ \A y \in FilePlaces : FileAt(q, y)' = FileAt(q, y)
                         /\ \A y \in InodePlaces : InodeAt(q, y)' = InodeAt(q, y)
    BY <1>1, <1>2, <1>3, PlacesSame
  <2> QED BY <1>2, <2>1, Uncounted DEF FilesInv
<1> QED BY <1>3, <1>5, <1>7, <1>10, <1>11, <1>12, <1>13 DEF FilesInv

\* itrunc frees the block that entry k of addrs names.
ClearsAddr(p, i, k, b) ==
  /\ Truncates(p, i) /\ k \in 0..NDIRECT /\ b = addrs[i][k] /\ b # 0
  /\ k = NDIRECT => Entries(i, cur[p].left) = {}
  /\ Bfree(b) /\ addrs' = [addrs EXCEPT ![i][k] = 0] /\ panic' = panic
  /\ cur' = [cur EXCEPT ![p].left = cur[p].left]
  /\ UNCHANGED <<size, used, lock, todo, grown, pc, filevars, iref, nlink>>

LEMMA ClearsAddrKeeps ==
  ASSUME FilesInv, NEW p \in Procs, NEW i, NEW k, NEW b, ClearsAddr(p, i, k, b)
  PROVE  FilesInv'
<1>0. Typed /\ Owned
  BY DEF FilesInv
<1>1. i \in Inums /\ From(i) = cur[p].left /\ cur[p].left \in Nat
  <2>1. Truncates(p, i)
    BY DEF ClearsAddr
  <2> QED BY <2>1, TruncFacts
<1>2. PICK l \in Nat : l = cur[p].left
  BY <1>1
<1>3. /\ k \in 0..NDIRECT /\ b = addrs[i][k] /\ b # 0 /\ (k = NDIRECT => Entries(i, From(i)) = {})
      /\ <<"addr", k>> \in Pointers /\ Ptr(i, <<"addr", k>>) = b
  BY <1>0, <1>1, PtrFacts, PointerFacts DEF ClearsAddr
<1>4. b \in bitmap
  BY <1>1, <1>3, InUse
<1>5. /\ addrs' \in [Inums -> [0..NDIRECT -> 0..NBLOCKS]] /\ addrs'[i][k] = 0
      /\ \A h \in 0..NDIRECT : h # k => addrs'[i][h] = addrs[i][h]
      /\ \A j \in Inums : j # i => addrs'[j] = addrs[j]
  <2>1. addrs \in [Inums -> [0..NDIRECT -> 0..NBLOCKS]] /\ addrs' = [addrs EXCEPT ![i][k] = 0]
    BY <1>0 DEF Typed, TypeOK, ClearsAddr
  <2>2. 0 \in 0..NBLOCKS
    BY BlocksAssumption
  <2> QED BY <1>1, <1>3, <2>1, <2>2
<1>6. ASSUME NEW j \in Inums, addrs'[j][NDIRECT] # 0
      PROVE  addrs'[j][NDIRECT] = addrs[j][NDIRECT] /\ addrs[j][NDIRECT] # b
  <2>1. addrs'[j][NDIRECT] = addrs[j][NDIRECT] /\ (j # i \/ k # NDIRECT)
    BY <1>5, <1>6, BlockConstants
  <2>2. ASSUME addrs[j][NDIRECT] = b PROVE FALSE
    <3>1. <<"addr", NDIRECT>> \in Pointers /\ Ptr(j, <<"addr", NDIRECT>>) = addrs[j][NDIRECT]
      BY <1>0, PtrFacts, PointerFacts, BlockConstants
    <3>2. j = i /\ <<"addr", NDIRECT>> = <<"addr", k>>
      BY <1>0, <1>1, <1>3, <2>2, <3>1 DEF Owned
    <3> QED BY <2>1, <3>2
  <2> QED BY <2>1, <2>2
<1>7. Shrinks(p, i, b, l)
  BY <1>2, <1>4, <1>5, <1>6 DEF Shrinks, ClearsAddr, Bfree
<1>8. /\ Typed' /\ From(i)' = From(i) /\ b \in Blocks
      /\ \A c \in Blocks : c # b => data'[c] = data[c]
  <2>1. Shrunk(p, i, b, l)
    BY <1>7, ShrinksFacts
  <2> QED BY <1>1, <1>2, <2>1 DEF Shrunk
<1>9. Ptr(i, <<"addr", k>>)' = 0
  BY <1>1, <1>5, <1>8, PtrFacts2
<1>10. ASSUME NEW y \in Pointers, y # <<"addr", k>> PROVE Ptr(i, y)' = Ptr(i, y)
  <2>1. CASE \E h \in 0..NDIRECT : y = <<"addr", h>>
    BY <1>0, <1>1, <1>5, <1>8, <1>10, <2>1, PtrFacts, PtrFacts2
  <2>2. CASE \E h \in 0..(NINDIRECT - 1) : y = <<"entry", h>>
    <3>1. PICK h \in 0..(NINDIRECT - 1) : y = <<"entry", h>>
      BY <2>2
    <3>2. Ptr(i, y) = IF addrs[i][NDIRECT] # 0 /\ From(i) <= h THEN data[addrs[i][NDIRECT]][h] ELSE 0
      BY <1>0, <1>1, <3>1, PtrFacts
    <3>3. Ptr(i, y)' = IF addrs'[i][NDIRECT] # 0 /\ From(i)' <= h THEN data'[addrs'[i][NDIRECT]][h] ELSE 0
      BY <1>1, <1>8, <3>1, PtrFacts2
    <3>4. CASE k = NDIRECT
      <4>1. Ptr(i, y) = 0
        BY <1>3, <3>1, <3>4 DEF Ptr, PointsTo
      <4> QED BY <1>5, <3>3, <3>4, <4>1
    <3>5. CASE k # NDIRECT
      <4>1. addrs'[i][NDIRECT] = addrs[i][NDIRECT]
        BY <1>5, <3>5, BlockConstants
      <4>2. addrs[i][NDIRECT] # 0 => data'[addrs[i][NDIRECT]] = data[addrs[i][NDIRECT]]
        <5>1. ASSUME addrs[i][NDIRECT] # 0
              PROVE  addrs[i][NDIRECT] \in Blocks /\ addrs[i][NDIRECT] # b
          BY <1>1, <1>6, <4>1, <5>1, InUse
        <5> QED BY <1>8, <5>1
      <4> QED BY <1>8, <3>2, <3>3, <4>1, <4>2
    <3> QED BY <3>4, <3>5
  <2> QED BY <2>1, <2>2, PointerFacts
<1>11. Detaches(i, <<"addr", k>>, b)
  BY <1>3, <1>9, <1>10 DEF Detaches
<1> QED BY <1>7, <1>11, ShrinksKeeps

\* itrunc frees the block that entry e of the indirect block names.
ClearsEntry(p, i, e, b) ==
  /\ Truncates(p, i) /\ e \in Entries(i, cur[p].left) /\ b = Indirect(i)[e]
  /\ \A h \in Entries(i, cur[p].left) : e <= h
  /\ Bfree(b) /\ addrs' = addrs /\ panic' = panic
  /\ cur' = [cur EXCEPT ![p].left = e + 1]
  /\ UNCHANGED <<size, used, lock, todo, grown, pc, filevars, iref, nlink>>

LEMMA ClearsEntryKeeps ==
  ASSUME FilesInv, NEW p \in Procs, NEW i, NEW e, NEW b, ClearsEntry(p, i, e, b)
  PROVE  FilesInv'
<1>0. Typed /\ Owned
  BY DEF FilesInv
<1>1. i \in Inums /\ From(i) = cur[p].left /\ cur[p].left \in Nat
  <2>1. Truncates(p, i)
    BY DEF ClearsEntry
  <2> QED BY <2>1, TruncFacts
<1>2. PICK f \in Nat : f = From(i) /\ f = cur[p].left
  BY <1>1
<1>3. /\ e \in f..(NINDIRECT - 1) /\ e \in 0..(NINDIRECT - 1) /\ addrs[i][NDIRECT] # 0
      /\ b = data[addrs[i][NDIRECT]][e] /\ b # 0
      /\ \A h \in f..(NINDIRECT - 1) : h < e => data[addrs[i][NDIRECT]][h] = 0
  <2>1. e \in Entries(i, f) /\ b = Indirect(i)[e] /\ \A h \in Entries(i, f) : e <= h
    BY <1>2 DEF ClearsEntry
  <2>2. /\ e \in f..(NINDIRECT - 1) /\ addrs[i][NDIRECT] # 0
        /\ b = data[addrs[i][NDIRECT]][e] /\ b # 0
    BY <2>1 DEF Entries, Indirect
  <2>3. e \in 0..(NINDIRECT - 1)
    BY <2>2, BlockConstants
  <2>4. ASSUME NEW h \in f..(NINDIRECT - 1), h < e PROVE data[addrs[i][NDIRECT]][h] = 0
    <3>1. ~(e <= h)
      BY <2>3, <2>4, BlockConstants
    <3> QED BY <2>1, <2>2, <2>4, <3>1 DEF Entries, Indirect
  <2> QED BY <2>2, <2>3, <2>4
<1>4. <<"entry", e>> \in Pointers /\ Ptr(i, <<"entry", e>>) = b
  <2>1. f <= e
    BY <1>3, BlockConstants
  <2> QED BY <1>0, <1>1, <1>2, <1>3, <2>1, PtrFacts, PointerFacts
<1>5. b \in bitmap
  BY <1>1, <1>3, <1>4, InUse
<1>6. addrs' = addrs /\ addrs \in [Inums -> [0..NDIRECT -> 0..NBLOCKS]]
  BY <1>0 DEF Typed, TypeOK, ClearsEntry
<1>7. \A j \in Inums : addrs[j][NDIRECT] # b
  <2>1. <<"entry", e>> # <<"addr", NDIRECT>>
    OBVIOUS
  <2> QED BY <1>1, <1>3, <1>4, <2>1, NotIndirect
<1>8. PICK l \in Nat : l = e + 1
  BY <1>3, BlockConstants
<1>9. Shrinks(p, i, b, l)
  BY <1>5, <1>6, <1>7, <1>8 DEF Shrinks, ClearsEntry, Bfree
<1>10. /\ Typed' /\ From(i)' = l
       /\ \A c \in Blocks : c # b => data'[c] = data[c]
  <2>1. Shrunk(p, i, b, l)
    BY <1>9, ShrinksFacts
  <2> QED BY <2>1 DEF Shrunk
<1>11. data'[addrs[i][NDIRECT]] = data[addrs[i][NDIRECT]]
  <2>1. addrs[i][NDIRECT] \in Blocks
    BY <1>1, <1>3, InUse
  <2> QED BY <1>1, <1>7, <1>10, <2>1
<1>12. ASSUME NEW h \in 0..(NINDIRECT - 1)
       PROVE  Ptr(i, <<"entry", h>>)' = IF h = e THEN 0 ELSE Ptr(i, <<"entry", h>>)
  <2>1. Ptr(i, <<"entry", h>>) = IF f <= h THEN data[addrs[i][NDIRECT]][h] ELSE 0
    BY <1>0, <1>1, <1>2, <1>3, PtrFacts
  <2>2. Ptr(i, <<"entry", h>>)' = IF l <= h THEN data[addrs[i][NDIRECT]][h] ELSE 0
    BY <1>1, <1>3, <1>6, <1>10, <1>11, PtrFacts2
  <2>3. h \in Nat /\ e \in Nat /\ f <= e /\ (f <= h => h \in f..(NINDIRECT - 1))
    BY <1>3, BlockConstants
  <2>4. CASE h < e
    BY <1>3, <1>8, <2>1, <2>2, <2>3, <2>4
  <2>5. CASE h >= e
    BY <1>8, <2>1, <2>2, <2>3, <2>5
  <2> QED BY <2>3, <2>4, <2>5
<1>13. ASSUME NEW y \in Pointers, y # <<"entry", e>> PROVE Ptr(i, y)' = Ptr(i, y)
  <2>1. CASE \E h \in 0..NDIRECT : y = <<"addr", h>>
    BY <1>0, <1>1, <1>6, <1>10, <2>1, PtrFacts, PtrFacts2
  <2>2. CASE \E h \in 0..(NINDIRECT - 1) : y = <<"entry", h>>
    BY <1>12, <1>13, <2>2
  <2> QED BY <2>1, <2>2, PointerFacts
<1>14. Detaches(i, <<"entry", e>>, b)
  BY <1>3, <1>4, <1>12, <1>13 DEF Detaches
<1> QED BY <1>9, <1>14, ShrinksKeeps

LEMMA ItruncKeeps ==
  ASSUME FilesInv, NEW p \in Procs, Itrunc(p)
  PROVE  FilesInv'
<1>0. Typed
  BY DEF FilesInv
<1>1. PICK i, f : i = Head(todo[p])[2] /\ f = cur[p].left
  OBVIOUS
<1>2. Truncates(p, i)
  BY <1>1 DEF Itrunc, Truncates
<1>3. i \in Inums /\ f \in Nat /\ From(i) = f
  BY <1>1, <1>2, TruncFacts
<1>4. CASE Truncated(i)
  <2>1. todo \in [Procs -> Todos]
    BY <1>0 DEF Typed
  <2>2. Frees(p, i)
    BY <1>1, <1>2, <1>4, <2>1 DEF Itrunc, Frees, DoNext
  <2> QED BY <2>2, FreesKeeps
<1>5. CASE ~Truncated(i)
  <2> DEFINE t == TruncFrees(i, f)
  <2>1. /\ Bfree(t[1]) /\ (addrs' = IF t[2] >= 0 THEN [addrs EXCEPT ![i][t[2]] = 0] ELSE addrs)
        /\ (panic' = IF t[1] \notin bitmap THEN "freeing free block" ELSE panic)
        /\ cur' = [cur EXCEPT ![p].left = t[3]]
        /\ UNCHANGED <<size, used, lock, todo, grown, pc, filevars, iref, nlink>>
    BY <1>1, <1>5 DEF Itrunc, ItruncStep
  <2> HIDE DEF t
  <2>2. ASSUME NEW k \in 0..NDIRECT, t = <<addrs[i][k], k, f>>, addrs[i][k] # 0,
               k = NDIRECT => Entries(i, f) = {}
        PROVE  FilesInv'
    <3>1. PICK b : b = addrs[i][k]
      OBVIOUS
    <3>2. b \in bitmap
      <4>1. <<"addr", k>> \in Pointers /\ Ptr(i, <<"addr", k>>) = b
        BY <1>0, <1>3, <3>1, PtrFacts, PointerFacts
      <4> QED BY <1>3, <2>2, <3>1, <4>1, InUse
    <3>3. t[1] = b /\ t[2] = k /\ t[3] = f /\ k >= 0
      BY <2>2, <3>1, BlockConstants
    <3>4. ClearsAddr(p, i, k, b)
      BY <1>1, <1>2, <2>1, <2>2, <3>1, <3>2, <3>3 DEF ClearsAddr
    <3> QED BY <3>4, ClearsAddrKeeps
  <2>3. CASE Direct(i) # {}
    <3>1. PICK k : k = Min(Direct(i))
      OBVIOUS
    <3>2. Direct(i) \in SUBSET Nat
      BY BlockConstants DEF Direct
    <3>3. k \in Direct(i)
      BY <2>3, <3>1, <3>2, MinNat
    <3>4. k \in 0..NDIRECT /\ k # NDIRECT /\ addrs[i][k] # 0
      BY <3>3, BlockConstants DEF Direct
    <3>5. t = <<addrs[i][k], k, f>>
      BY <2>3, <3>1 DEF t, TruncFrees
    <3> QED BY <2>2, <3>4, <3>5
  <2>4. CASE Direct(i) = {} /\ Entries(i, f) # {}
    <3>1. PICK e : e = Min(Entries(i, f))
      OBVIOUS
    <3>2. Entries(i, f) \in SUBSET Nat
      BY <1>3, BlockConstants DEF Entries
    <3>3. e \in Entries(i, f) /\ \A h \in Entries(i, f) : e <= h
      BY <2>4, <3>1, <3>2, MinNat
    <3>4. PICK b : b = Indirect(i)[e]
      OBVIOUS
    <3>5. t[1] = b /\ t[2] = -1 /\ t[3] = e + 1
      BY <2>4, <3>1, <3>4 DEF t, TruncFrees
    <3>6. b \in bitmap
      <4>1. e \in 0..(NINDIRECT - 1) /\ b # 0
        BY <1>3, <3>3, <3>4, BlockConstants DEF Entries
      <4>2. Ptr(i, <<"entry", e>>) = b
        BY <1>3, <3>3, <3>4 DEF Ptr, PointsTo
      <4> QED BY <1>3, <4>1, <4>2, InUse, PointerFacts
    <3>7. ClearsEntry(p, i, e, b)
      <4>1. addrs' = addrs /\ panic' = panic /\ Bfree(b)
        BY <2>1, <3>5, <3>6
      <4>2. cur' = [cur EXCEPT ![p].left = e + 1]
        BY <2>1, <3>5
      <4>3. UNCHANGED <<size, used, lock, todo, grown, pc, filevars, iref, nlink>>
        BY <2>1
      <4>4. e \in Entries(i, cur[p].left) /\ \A h \in Entries(i, cur[p].left) : e <= h
        BY <1>1, <3>3
      <4> QED BY <1>2, <3>4, <4>1, <4>2, <4>3, <4>4 DEF ClearsEntry
    <3> QED BY <3>7, ClearsEntryKeeps
  <2>5. CASE Direct(i) = {} /\ Entries(i, f) = {}
    <3>1. addrs[i][NDIRECT] # 0
      <4>1. PICK k \in 0..NDIRECT : addrs[i][k] # 0
        BY <1>5 DEF Truncated
      <4>2. k = NDIRECT
        BY <2>5, <4>1, BlockConstants DEF Direct
      <4> QED BY <4>1, <4>2
    <3>2. t = <<addrs[i][NDIRECT], NDIRECT, f>>
      BY <2>5 DEF t, TruncFrees
    <3> QED BY <2>2, <2>5, <3>1, <3>2, BlockConstants
  <2> QED BY <2>3, <2>4, <2>5
<1> QED BY <1>4, <1>5

----------------------------------------------------------------------------
(* The invariant *)

LEMMA FilesInit == Init => FilesInv
<1> SUFFICES ASSUME Init PROVE FilesInv
  OBVIOUS
<1>1. /\ bitmap = {} /\ used = {} /\ panic = "none"
      /\ pc \in [Procs -> {"user", "unused"}]
      /\ ofile = [p \in Procs |-> [fd \in FDs |-> 0]] /\ file = [f \in FIds |-> NoFile]
      /\ ends = [q \in Pipes |-> {}] /\ todo = [p \in Procs |-> <<>>]
      /\ cur = [p \in Procs |-> Idle] /\ iref = [i \in Inums |-> 0] /\ nlink = [i \in Inums |-> 0]
      /\ lock = [i \in Inums |-> NoProc] /\ grown = [i \in Inums |-> 0]
      /\ size = [i \in Inums |-> 0] /\ addrs = [i \in Inums |-> [k \in 0..NDIRECT |-> 0]]
  BY DEF Init, BlocksInit
<1>2. NoFile \in FileRecs /\ NoFile.type = "none" /\ NoFile.ref = 0
  BY DEF NoFile, FileRecs
<1>3. Typed
  <2>1. TypeOK
    <3>1. 0 \in 0..(MAXFILE * BSIZE) /\ 0 \in 0..NBLOCKS /\ 0 \in 0..NFILE
      BY BlockConstants, BlocksAssumption, FilesAssumption
    <3>2. /\ file \in [FIds -> FileRecs] /\ cur \in [Procs -> Locals]
          /\ \A f \in FIds : file[f].type # "inode"
      BY <1>1, <1>2, IdleType
    <3>3. /\ ofile \in [Procs -> [FDs -> 0..NFILE]] /\ addrs \in [Inums -> [0..NDIRECT -> 0..NBLOCKS]]
          /\ lock \in [Inums -> Procs \union {NoProc}]
      BY <1>1, <3>1
    <3>4. /\ size \in [Inums -> 0..(MAXFILE * BSIZE)] /\ grown \in [Inums -> Nat]
          /\ iref \in [Inums -> Nat] /\ nlink \in [Inums -> 0..1]
      BY <1>1, <3>1
    <3>5. pc \in [Procs -> {"unused", "user", "opening", "piping", "write", "writei", "leaving", "exiting"}]
      BY <1>1
    <3> QED BY <1>1, <3>2, <3>3, <3>4, <3>5 DEF TypeOK
  <2>2. IsData(data)
    <3>1. data = [b \in Blocks |-> Filled(Garbage)]
      BY DEF Init, BlocksInit
    <3> QED BY <3>1 DEF IsData, Filled
  <2>3. \A i \in Inums : addrs[i][NDIRECT] = 0
    BY <1>1, BlockConstants
  <2>4. <<>> \in Todos
    BY DEF Todos
  <2> QED BY <1>1, <2>1, <2>2, <2>3, <2>4 DEF Typed
<1>4. ASSUME NEW p \in Procs PROVE Shape(p)
  <2>1. pc[p] \in {"user", "unused"} /\ todo[p] = <<>> /\ cur[p] = Idle /\ \A fd \in FDs : ofile[p][fd] = 0
    BY <1>1
  <2>2. \A k \in 1..2 : Item(p, k) = <<"none", 0>>
    BY <2>1, NoItems, ItemIs
  <2> QED BY <2>1, <2>2 DEF Shape
<1>5. ASSUME NEW i \in Inums PROVE Locked(i) /\ FreeInode(i) /\ ~Truncating(i)
  BY <1>1 DEF Locked, FreeInode, Truncated, Truncating
<1>6. (\A f \in FIds : FileSound(f)) /\ EndsHeld
  <2>1. \A f \in FIds : \A q, wr : ~FileHas(f, q, wr)
    BY <1>1, <1>2 DEF FileHas
  <2>2. ASSUME NEW p \in Procs, NEW k \in 1..2, NEW q, NEW wr PROVE ~CallHas(p, k, q, wr)
    <3>1. Item(p, k) = <<"none", 0>>
      BY <1>1, NoItems, ItemIs
    <3> QED BY <3>1 DEF CallHas, EndOp
  <2>3. EndsHeld
    BY <1>1, <2>1, <2>2 DEF EndsHeld
  <2> QED BY <1>1, <1>2, <2>3 DEF FileSound
<1>7. Owned
  <2>1. ASSUME NEW i \in Inums, NEW x \in Pointers PROVE Ptr(i, x) = 0
    <3>1. \A k \in 0..NDIRECT : addrs[i][k] = 0
      BY <1>1
    <3> QED BY <1>3, <3>1, PtrFacts, PointerFacts, BlockConstants
  <2> QED BY <1>1, <2>1 DEF Owned
<1>8. Contents
  <2>1. \A i \in Inums : size[i] = 0 /\ grown[i] = 0
    BY <1>1
  <2>2. \A p \in Procs : pc[p] # "writei"
    BY <1>1
  <2> QED BY <2>1, <2>2, NoneBetween DEF Contents
<1>9. ASSUME NEW p \in Procs
      PROVE  /\ \A x \in FilePlaces : FileAt(p, x) = 0
             /\ \A x \in InodePlaces : InodeAt(p, x) = NoInode
  <2>1. pc[p] \in {"user", "unused"} /\ todo[p] = <<>> /\ \A fd \in FDs : ofile[p][fd] = 0
    BY <1>1
  <2>2. \A k \in 1..2 : ItemOf(todo[p], k) = <<"none", 0>>
    BY <2>1, NoItems
  <2>3. Closes(<<"none", 0>>) = 0 /\ Puts(<<"none", 0>>) = NoInode
    BY DEF Closes, Puts
  <2> QED BY <2>1, <2>2, <2>3, FileAtFacts, PlaceFacts
<1>10. FilesCounted
  <2>1. ASSUME NEW f \in FIds PROVE file[f].ref = Cardinality(Holders(f))
    <3>1. f # 0
      BY DEF FIds
    <3>2. Holders(f) = {}
      BY <1>9, <3>1 DEF Holders
    <3> QED BY <1>1, <1>2, <3>2, FS_EmptySet
  <2> QED BY <2>1 DEF FilesCounted, Holders
<1>11. InodesCounted
  <2>1. ASSUME NEW i \in Inums
        PROVE  iref[i] = Cardinality(OpenOn(i)) + Cardinality(Callers(i))
    <3>1. OpenOn(i) = {}
      BY <1>1, <1>2 DEF OpenOn
    <3>2. Callers(i) = {}
      BY <1>9, FilesAssumption DEF Callers
    <3> QED BY <1>1, <3>1, <3>2, FS_EmptySet
  <2> QED BY <2>1 DEF InodesCounted, OpenOn, Callers
<1> QED BY <1>3, <1>4, <1>5, <1>6, <1>7, <1>8, <1>10, <1>11 DEF FilesInv

LEMMA FilesStutters ==
  ASSUME FilesInv, UNCHANGED vars
  PROVE  FilesInv'
<1>1. /\ bitmap' = bitmap /\ data' = data /\ addrs' = addrs /\ size' = size /\ pc' = pc
      /\ ofile' = ofile /\ file' = file /\ ends' = ends /\ used' = used /\ iref' = iref
      /\ nlink' = nlink /\ lock' = lock /\ todo' = todo /\ cur' = cur /\ panic' = panic
      /\ grown' = grown
  BY DEF vars, blockvars, filevars, inodevars
<1>2. Typed'
  BY <1>1 DEF FilesInv, Typed, TypeOK, IsData, Indirect
<1>3. \A p \in Procs : Shape(p)'
  <2> SUFFICES ASSUME NEW p \in Procs PROVE Shape(p)'
    OBVIOUS
  <2>1. Shape(p)
    BY DEF FilesInv
  <2>2. (Writing(p)' <=> Writing(p)) /\ Piece(p)' = Piece(p) /\ \A k : Item(p, k)' = Item(p, k)
    BY <1>1 DEF Writing, Piece, Item
  <2> QED BY <1>1, <2>1, <2>2 DEF Shape
<1>4. Calm
  BY <1>1 DEF Calm
<1>5. Owned' /\ Contents' /\ \A i \in Inums : Locked(i)' /\ FreeInode(i)'
  BY <1>4, CalmKeeps
<1>6. (\A f \in FIds : FileSound(f)') /\ EndsHeld'
  BY <1>1, EndsKeep DEF FilesInv, FileSound
<1>7. FilesCounted' /\ InodesCounted'
  <2>1. \A p \in Procs : /\ \A x \in FilePlaces : FileAt(p, x)' = FileAt(p, x)
                         /\ \A x \in InodePlaces : InodeAt(p, x)' = InodeAt(p, x)
    BY <1>1 DEF FileAt, InodeAt, Item
  <2> QED BY <1>1, <2>1, Uncounted DEF FilesInv
<1> QED BY <1>2, <1>3, <1>5, <1>6, <1>7 DEF FilesInv

LEMMA FilesStep ==
  ASSUME FilesInv, Next
  PROVE  FilesInv'
<1>1. PICK p \in Procs : Calls(p) \/ Steps(p) \/ \E q \in Procs : Fork(p, q)
  BY DEF Next
<1>2. CASE Calls(p)
  BY <1>2, OpenKeeps, UnlinkKeeps, DupKeeps, CloseKeeps, ExitKeeps, PipeAllocKeeps, ReadKeeps,
     WriteKeeps DEF Calls
<1>3. CASE Steps(p)
  BY <1>3, FileCloseKeeps, PipeCloseKeeps, IputKeeps, ItruncKeeps, IputDropKeeps, FinishKeeps,
     CloseKeeps, OpenFileKeeps, PipeFilesKeeps, WriteStartKeeps, WriteiKeeps, WriteEndKeeps DEF Steps
<1>4. CASE \E q \in Procs : Fork(p, q)
  BY <1>4, ForkKeeps
<1> QED BY <1>1, <1>2, <1>3, <1>4

\* The inductive invariant: what each call holds, who owns each lock and
\* block, and what every file holds.
THEOREM FilesInvariant == Spec => []FilesInv
<1>1. Init => FilesInv
  BY FilesInit
<1>2. FilesInv /\ [Next /\ UNCHANGED mix]_vars => FilesInv'
  BY FilesStep, FilesStutters
<1> QED BY <1>1, <1>2, PTL DEF Spec

\* Exactly one holder for each open end.
LEMMA InvEndsCounted ==
  ASSUME FilesInv, NEW q \in Pipes, NEW wr \in BOOLEAN
  PROVE  Cardinality({f \in FIds : FileHas(f, q, wr)})
           + Cardinality({c \in Procs \X (1..2) : CallHas(c[1], c[2], q, wr)})
           = IF wr \in ends[q] THEN 1 ELSE 0
<1> DEFINE S == {f \in FIds : FileHas(f, q, wr)}
           T == {c \in Procs \X (1..2) : CallHas(c[1], c[2], q, wr)}
<1>1. EndsHeld
  BY DEF FilesInv
<1>2. \A c : c \in T <=> \E p \in Procs, k \in 1..2 : c = <<p, k>> /\ CallHas(p, k, q, wr)
  OBVIOUS
<1>3. CASE \E f \in FIds : FileHas(f, q, wr)
  <2>1. PICK f \in FIds : FileHas(f, q, wr)
    BY <1>3
  <2>2. S = {f} /\ wr \in ends[q]
    BY <1>1, <2>1 DEF EndsHeld
  <2>3. T = {}
    BY <1>1, <1>2, <2>1 DEF EndsHeld
  <2>4. Cardinality(S) = 1 /\ Cardinality(T) = 0
    BY <2>2, <2>3, FS_Singleton, FS_EmptySet
  <2> QED BY <2>2, <2>4
<1>4. CASE ~\E f \in FIds : FileHas(f, q, wr)
  <2>1. S = {}
    BY <1>4
  <2>2. CASE wr \in ends[q]
    <3>1. PICK p \in Procs, k \in 1..2 : CallHas(p, k, q, wr)
      BY <1>1, <1>4, <2>2 DEF EndsHeld
    <3>2. T = {<<p, k>>}
      BY <1>1, <1>2, <3>1 DEF EndsHeld
    <3>3. Cardinality(S) = 0 /\ Cardinality(T) = 1
      BY <2>1, <3>2, FS_Singleton, FS_EmptySet
    <3> QED BY <2>2, <3>3
  <2>3. CASE wr \notin ends[q]
    <3>1. T = {}
      BY <1>1, <1>2, <2>3 DEF EndsHeld
    <3>2. Cardinality(S) = 0 /\ Cardinality(T) = 0
      BY <2>1, <3>1, FS_EmptySet
    <3> QED BY <2>3, <3>2
  <2> QED BY <2>2, <2>3
<1> QED BY <1>3, <1>4

\* A file structure, an inode and a pipe end are given back exactly when their
\* last user closes them, on every path of open, pipe, dup, fork, close and
\* exit, also while fileclose has freed the structure and has still to close the
\* end (file.c:71-74); no offset lies behind the end of its file, and of the
\* panics only the one of the full disk happens.
THEOREM FilesCountsExact == Spec => []CountsExact
<1>1. FilesInv => EndsCounted
  BY InvEndsCounted DEF EndsCounted, FileHas, CallHas
<1>2. FilesInv => CountsExact
  BY <1>1 DEF FilesInv, Typed, CountsExact, ObjectsCounted
<1> QED BY <1>2, FilesInvariant, PTL

LEMMA InvBlocksOwned ==
  ASSUME FilesInv
  PROVE  BlocksOwned
<1> DEFINE Owners(b) == {c \in Inums \X Pointers : PointsTo(c[1], c[2], From(c[1])) = b}
<1>1. Owned /\ 0 \notin Blocks
  BY BlockConstants DEF FilesInv
<1>2. \A b, c : c \in Owners(b) <=> \E i \in Inums, x \in Pointers : c = <<i, x>> /\ Ptr(i, x) = b
  BY DEF Ptr
<1> HIDE DEF Owners
<1>3. ASSUME NEW b \in Blocks PROVE Cardinality(Owners(b)) = IF b \in bitmap THEN 1 ELSE 0
  <2>1. CASE b \in bitmap
    <3>1. PICK i \in Inums, x \in Pointers : Ptr(i, x) = b
      BY <1>1, <2>1 DEF Owned
    <3>2. b # 0
      BY <1>1
    <3>3. Owners(b) = {<<i, x>>}
      BY <1>1, <1>2, <3>1, <3>2 DEF Owned
    <3> QED BY <2>1, <3>3, FS_Singleton
  <2>2. CASE b \notin bitmap
    <3>1. Owners(b) = {}
      BY <1>1, <1>2, <2>2 DEF Owned
    <3> QED BY <2>2, <3>1, FS_EmptySet
  <2> QED BY <2>1, <2>2
<1> QED BY <1>3 DEF BlocksOwned, Owners

\* balloc and bfree keep the bitmap right: every block in use has one owner,
\* every free one none, while any number of writes and itruncs interleave.
THEOREM BlocksKept == Spec => []BlocksOwned
<1>1. FilesInv => BlocksOwned
  BY InvBlocksOwned
<1> QED BY <1>1, FilesInvariant, PTL

\* Every byte of an unlocked file is the one last written at its offset: no
\* write or read on a shared descriptor skips or overwrites, no block is seen
\* in two files or before it is zeroed.
THEOREM ContentsRight == Spec => []FileContents
<1>1. FilesInv => FileContents
  BY DEF FilesInv, Contents, FileContents, Truncating, Right
<1> QED BY <1>1, FilesInvariant, PTL
==============================================================================
