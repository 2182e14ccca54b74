----------------------------- MODULE FileBlocks -----------------------------
(***************************************************************************)
(* fs.c below the inode: the bitmap of free blocks, the block numbers of   *)
(* an inode, direct and through one indirect block, and the bytes in the   *)
(* blocks.  Everything here is done under the inode's sleep lock, except   *)
(* the bitmap, which all inodes share.                                     *)
(***************************************************************************)
EXTENDS Integers, Sequences, FiniteSets, FiniteSetsExt

CONSTANTS
  Inums,
  NBLOCKS,   \* data blocks of the disk
  NDIRECT, BSIZE,
  Garbage    \* what a free block holds: nobody may see it

ASSUME BlocksAssumption == NBLOCKS \in Nat \ {0} /\ NDIRECT \in Nat \ {0} /\ BSIZE \in Nat \ {0}

VARIABLES
  bitmap,   \* the blocks marked in use
  data,     \* the cells of each block: bytes, or block numbers
  addrs,    \* addrs[ip][0..NDIRECT], 0 is no block
  size

blockvars == <<bitmap, data, addrs, size>>

NINDIRECT == BSIZE
MAXFILE == NDIRECT + NINDIRECT
Blocks == 1..NBLOCKS
Filled(v) == [c \in 0..(BSIZE - 1) |-> v]

BlocksInit ==
  /\ bitmap = {} /\ data = [b \in Blocks |-> Filled(Garbage)]
  /\ addrs = [i \in Inums |-> [k \in 0..NDIRECT |-> 0]]
  /\ size = [i \in Inums |-> 0]

----------------------------------------------------------------------------
(* balloc, bfree and bmap *)

DiskFull == bitmap = Blocks

\* balloc's search, under the lock of the bitmap's buffer.
Balloc(b) == b = Min(Blocks \ bitmap) /\ bitmap' = bitmap \union {b}

Indirect(ip) == data[addrs[ip][NDIRECT]]

\* The block bmap finds for bn, 0 when it has to allocate one.
Bmap(ip, bn) ==
  IF bn < NDIRECT THEN addrs[ip][bn]
  ELSE IF addrs[ip][NDIRECT] = 0 THEN 0 ELSE Indirect(ip)[bn - NDIRECT]

\* bzero of the block, which nobody else can name, and bmap's use of it: as
\* block bn, or as the indirect block that has to be there first.
Install(ip, bn, b) ==
  LET k == IF bn < NDIRECT THEN bn ELSE NDIRECT IN
  IF addrs[ip][k] = 0
  THEN addrs' = [addrs EXCEPT ![ip][k] = b] /\ data' = [data EXCEPT ![b] = Filled(0)]
  ELSE /\ data' = [data EXCEPT ![b] = Filled(0), ![addrs[ip][NDIRECT]][bn - NDIRECT] = b]
       /\ UNCHANGED addrs

Bfree(b) == bitmap' = bitmap \ {b} /\ data' = [data EXCEPT ![b] = Filled(Garbage)]

----------------------------------------------------------------------------
(* itrunc, one bfree a step; from is the next entry of the indirect block *)

Direct(ip) == {k \in 0..(NDIRECT - 1) : addrs[ip][k] # 0}
Entries(ip, from) ==
  IF addrs[ip][NDIRECT] = 0 THEN {}
  ELSE {j \in from..(NINDIRECT - 1) : Indirect(ip)[j] # 0}

\* Mutant of TruncFrees: the entries of the indirect block are forgotten.
TruncFreesShallow(ip, from) ==
  IF Direct(ip) # {} THEN <<addrs[ip][Min(Direct(ip))], Min(Direct(ip)), from>>
  ELSE <<addrs[ip][NDIRECT], NDIRECT, from>>

\* The block itrunc frees next, the entry of addrs it clears (-1: none), and
\* the next entry of the indirect block.
TruncFrees(ip, from) ==
  IF Direct(ip) # {} THEN <<addrs[ip][Min(Direct(ip))], Min(Direct(ip)), from>>
  ELSE IF Entries(ip, from) # {}
       THEN LET j == Min(Entries(ip, from)) IN <<Indirect(ip)[j], -1, j + 1>>
       ELSE <<addrs[ip][NDIRECT], NDIRECT, from>>

Truncated(ip) == \A k \in 0..NDIRECT : addrs[ip][k] = 0

ItruncStep(ip, from) ==
  LET t == TruncFrees(ip, from) IN
  /\ Bfree(t[1])
  /\ addrs' = IF t[2] >= 0 THEN [addrs EXCEPT ![ip][t[2]] = 0] ELSE addrs
  /\ UNCHANGED size

----------------------------------------------------------------------------
(* readi and writei, one block a step *)

\* The bytes readi copies from offset off; -1 past the end.
Readi(ip, off, n) ==
  IF off > size[ip] THEN -1 ELSE IF off + n > size[ip] THEN size[ip] - off ELSE n

WriteiFails(ip, off, n) == off > size[ip] \/ off + n > MAXFILE * BSIZE

\* The bytes of a write that go into the block of off.
InBlock(off, n) == Min({n, BSIZE - (off % BSIZE)})

\* Mutant of WriteCells: the copy starts at the block's first byte.
WriteCellsAligned(ip, off, n) ==
  data' = [data EXCEPT ![Bmap(ip, off \div BSIZE)] =
             [c \in DOMAIN @ |-> IF c < InBlock(off, n) THEN <<ip, off + c>> ELSE @[c]]]

\* The bytes themselves say which file and offset they were written to.
WriteCells(ip, off, n) ==
  LET first == off % BSIZE IN
  data' = [data EXCEPT ![Bmap(ip, off \div BSIZE)] =
             [c \in DOMAIN @ |-> IF c \in first..(first + InBlock(off, n) - 1)
                                 THEN <<ip, off + c - first>> ELSE @[c]]]

----------------------------------------------------------------------------

\* The byte at offset off of a file, as readi finds it.
Byte(ip, off) == data[Bmap(ip, off \div BSIZE)][off % BSIZE]

\* The pointers of an inode to blocks, direct ones and those in the indirect
\* block; itrunc has already freed the entries of that block below from.
Pointers == ({"addr"} \X (0..NDIRECT)) \union ({"entry"} \X (0..(NINDIRECT - 1)))
PointsTo(ip, x, from) ==
  IF x[1] = "addr" THEN addrs[ip][x[2]]
  ELSE IF x[2] \in Entries(ip, from) THEN Indirect(ip)[x[2]] ELSE 0
============================================================================
