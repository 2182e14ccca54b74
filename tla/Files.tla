------------------------------- MODULE Files --------------------------------
(***************************************************************************)
(* file.c and the descriptor calls of sysfile.c over FileBlocks: open,     *)
(* dup, close, read, write, pipe, and the descriptor part of fork and      *)
(* exit.  Names are left to Inodes: here an inode has one name or none.    *)
(*                                                                         *)
(* A call that still has references to give back holds them in todo: the   *)
(* filecloses, pipecloses and iputs it makes in that order.  "rend" and    *)
(* "wend" are the pipeclose of a read and of a write end; "drop" is the    *)
(* end of iput (ref--), after it has released the inode's lock.            *)
(***************************************************************************)
EXTENDS FileBlocks

CONSTANTS
  Procs, NoProc,
  NFILE, NOFILE,
  Pipes,        \* pages for pipes
  WriteSizes, ReadSizes,
  OpenModes,    \* writable or not
  Mixes,        \* sets of calls: the programs of a behaviour make those of one
  MAXWRITE,     \* max of filewrite, in bytes
  NoInode

ASSUME FilesAssumption ==
  /\ NFILE \in Nat \ {0} /\ NOFILE \in Nat \ {0} /\ MAXWRITE \in Nat \ {0}
  /\ IsFiniteSet(Procs) /\ NoProc \notin Procs /\ NoInode \notin Inums
  /\ WriteSizes \subseteq Nat \ {0} /\ ReadSizes \subseteq Nat /\ OpenModes \subseteq BOOLEAN

VARIABLES
  pc,        \* where each process is
  ofile,     \* ofile[p][fd], 0 is closed
  file,      \* ftable.file
  ends,      \* ends[q]: the ends of pipe q that are open
  used,      \* the inodes that have a type
  iref, nlink, lock,   \* of each inode
  todo,      \* what the call still closes and puts
  cur,       \* the call's local variables
  panic, mix,
  grown      \* history: how long the writes to each file have made it

filevars == <<ofile, file, ends>>
inodevars == <<used, iref, nlink, lock>>
vars == <<blockvars, pc, filevars, inodevars, todo, cur, panic, mix, grown>>

FDs == 0..(NOFILE - 1)
FIds == 1..NFILE
NoFile == [ref |-> 0, type |-> "none", ip |-> NoInode, off |-> 0, readable |-> FALSE, writable |-> FALSE]
Idle == [f |-> 0, ip |-> NoInode, n |-> 0, off |-> 0, left |-> 0]

Init ==
  /\ BlocksInit
  /\ pc \in [Procs -> {"user", "unused"}] /\ \E p \in Procs : pc[p] = "user"
  /\ ofile = [p \in Procs |-> [fd \in FDs |-> 0]]
  /\ file = [f \in FIds |-> NoFile]
  /\ ends = [q \in Pipes |-> {}]
  /\ used = {} /\ iref = [i \in Inums |-> 0] /\ nlink = [i \in Inums |-> 0] /\ lock = [i \in Inums |-> NoProc]
  /\ todo = [p \in Procs |-> <<>>] /\ cur = [p \in Procs |-> Idle]
  /\ panic = "none" /\ mix \in Mixes /\ grown = [i \in Inums |-> 0]

At(p, l) == pc[p] = l /\ todo[p] = <<>> /\ panic = "none"
Goto(p, l) == pc' = [pc EXCEPT ![p] = l]
\* A system call begins.
Call(p, c) == At(p, "user") /\ c \in mix
Return(p) == Goto(p, "user") /\ cur' = [cur EXCEPT ![p] = Idle]

FreeFiles == {f \in FIds : file[f].ref = 0}
FreeFds(p) == {fd \in FDs : ofile[p][fd] = 0}

----------------------------------------------------------------------------
(* fileclose and iput: the steps of todo *)

\* The first of todo is done, or followed by item.
Done(p) == todo' = [todo EXCEPT ![p] = Tail(@)]
DoNext(p, item) == todo' = [todo EXCEPT ![p] = <<item>> \o Tail(@)]
Doing(p, op) == panic = "none" /\ todo[p] # <<>> /\ Head(todo[p])[1] = op

\* Mutant of Closed: type is left as it was.
ClosedTyped(f) ==
  IF file[f].ref > 1 THEN [file EXCEPT ![f].ref = @ - 1]
  ELSE [file EXCEPT ![f] = [NoFile EXCEPT !.ip = file[f].ip, !.type = file[f].type]]

\* fileclose under ftable.lock.  The type becomes FD_NONE; the other fields of
\* a free structure, which the code keeps but never reads before it has set
\* them, are cleared here.
Closed(f) ==
  IF file[f].ref > 1 THEN [file EXCEPT ![f].ref = @ - 1] ELSE [file EXCEPT ![f] = NoFile]

\* What fileclose does with ff, its copy of the last reference's structure,
\* after it has released ftable.lock: pipeclose or iput.
EndOp(wr) == IF wr THEN "wend" ELSE "rend"
GivesBack(ff) == <<IF ff.type = "pipe" THEN EndOp(ff.writable) ELSE "put", ff.ip>>

\* fileclose under ftable.lock.
FileClose(p) ==
  LET f == Head(todo[p])[2] IN
  /\ Doing(p, "close")
  /\ panic' = IF file[f].ref < 1 THEN "fileclose" ELSE panic
  /\ file' = Closed(f)
  /\ IF file[f].ref = 1 /\ file[f].type # "none" THEN DoNext(p, GivesBack(file[f])) ELSE Done(p)
  /\ UNCHANGED <<blockvars, pc, ofile, ends, inodevars, cur, grown>>

\* pipeclose: the end is closed; a pipe without ends is a free page.
PipeClose(p) ==
  LET x == Head(todo[p]) IN
  /\ Doing(p, "rend") \/ Doing(p, "wend")
  /\ ends' = [ends EXCEPT ![x[2]] = @ \ {x[1] = "wend"}]
  /\ Done(p)
  /\ UNCHANGED <<blockvars, pc, ofile, file, inodevars, cur, panic, grown>>

\* The last reference to a file without a name.
Unused(i) == iref[i] = 1 /\ nlink[i] = 0

\* iput under the inode's lock: whether to free the inode.
Iput(p) ==
  LET i == Head(todo[p])[2] IN
  /\ Doing(p, "put") /\ lock[i] = NoProc
  /\ IF Unused(i) THEN lock' = [lock EXCEPT ![i] = p] /\ UNCHANGED todo
     ELSE DoNext(p, <<"drop", i>>) /\ UNCHANGED lock
  /\ UNCHANGED <<blockvars, pc, filevars, used, iref, nlink, cur, panic, grown>>

\* iput: one bfree of itrunc, and after the last the inode is free.
Itrunc(p) ==
  LET i == Head(todo[p])[2]  t == TruncFrees(i, cur[p].left) IN
  /\ Doing(p, "put") /\ lock[i] = p
  /\ IF Truncated(i)
     THEN /\ size' = [size EXCEPT ![i] = 0] /\ grown' = [grown EXCEPT ![i] = 0]
          /\ used' = used \ {i} /\ lock' = [lock EXCEPT ![i] = NoProc]
          /\ DoNext(p, <<"drop", i>>)
          /\ cur' = [cur EXCEPT ![p].left = 0]
          /\ UNCHANGED <<bitmap, data, addrs, panic>>
     ELSE /\ ItruncStep(i, cur[p].left)
          /\ panic' = IF t[1] \notin bitmap THEN "freeing free block" ELSE panic
          /\ cur' = [cur EXCEPT ![p].left = t[3]]
          /\ UNCHANGED <<used, lock, todo, grown>>
  /\ UNCHANGED <<pc, filevars, iref, nlink>>

\* iput, after the lock is released.
IputDrop(p) ==
  /\ Doing(p, "drop")
  /\ iref' = [iref EXCEPT ![Head(todo[p])[2]] = @ - 1]
  /\ Done(p)
  /\ UNCHANGED <<blockvars, pc, filevars, used, nlink, lock, cur, panic, grown>>

Finish(p) ==
  /\ \/ At(p, "leaving") /\ Goto(p, "user")
     \/ At(p, "exiting") /\ FreeFds(p) = FDs /\ Goto(p, "unused")
  /\ UNCHANGED <<blockvars, filevars, inodevars, todo, cur, panic, grown>>

\* The call gives back what items name and returns.
Leave(p, l, items) == Goto(p, l) /\ todo' = [todo EXCEPT ![p] = items]

----------------------------------------------------------------------------
(* sys_open, sys_unlink, sys_dup, sys_close, fork and exit *)

\* namei or create: the inode of an existing file, or a fresh one.
Open(p) ==
  /\ Call(p, "open")
  /\ \E i \in Inums :
       /\ nlink[i] = 1 \/ i \notin used
       /\ used' = used \union {i}
       /\ iref' = [iref EXCEPT ![i] = @ + 1] /\ nlink' = [nlink EXCEPT ![i] = 1]
       /\ cur' = [cur EXCEPT ![p].ip = i]
  /\ Goto(p, "opening")
  /\ UNCHANGED <<blockvars, filevars, lock, todo, panic, grown>>

\* filealloc and fdalloc, and the way back when one of them fails.
OpenFile(p) ==
  LET i == cur[p].ip  f == Min(FreeFiles) IN
  /\ At(p, "opening") /\ lock[i] = NoProc
  /\ \/ /\ FreeFiles = {}
        /\ Leave(p, "leaving", <<<<"put", i>>>>) /\ UNCHANGED filevars
     \/ /\ FreeFiles # {} /\ FreeFds(p) = {}
        /\ file' = [file EXCEPT ![f].ref = 1]
        /\ Leave(p, "leaving", <<<<"close", f>>, <<"put", i>>>>) /\ UNCHANGED <<ofile, ends>>
     \/ /\ FreeFiles # {} /\ FreeFds(p) # {}
        /\ \E wr \in OpenModes :
             file' = [file EXCEPT ![f] = [ref |-> 1, type |-> "inode", ip |-> i, off |-> 0,
                                          readable |-> TRUE, writable |-> wr]]
        /\ ofile' = [ofile EXCEPT ![p][Min(FreeFds(p))] = f]
        /\ Goto(p, "user") /\ UNCHANGED <<ends, todo>>
  /\ cur' = [cur EXCEPT ![p] = Idle]
  /\ UNCHANGED <<blockvars, inodevars, panic, grown>>

\* The name goes; the reference namei took is put back.
Unlink(p) ==
  /\ Call(p, "unlink")
  /\ \E i \in Inums :
       /\ nlink[i] = 1 /\ lock[i] = NoProc
       /\ nlink' = [nlink EXCEPT ![i] = 0] /\ iref' = [iref EXCEPT ![i] = @ + 1]
       /\ Leave(p, "leaving", <<<<"put", i>>>>)
  /\ UNCHANGED <<blockvars, filevars, used, lock, cur, panic, grown>>

Dup(p) ==
  /\ Call(p, "dup") /\ FreeFds(p) # {}
  /\ \E fd \in FDs \ FreeFds(p) :
       LET f == ofile[p][fd] IN
       /\ ofile' = [ofile EXCEPT ![p][Min(FreeFds(p))] = f]
       /\ panic' = IF file[f].ref < 1 THEN "filedup" ELSE panic
       /\ file' = [file EXCEPT ![f].ref = @ + 1]
  /\ UNCHANGED <<blockvars, pc, ends, inodevars, todo, cur, grown>>

Close(p) ==
  /\ Call(p, "close")
  /\ \E fd \in FDs \ FreeFds(p) :
       /\ ofile' = [ofile EXCEPT ![p][fd] = 0]
       /\ Leave(p, "leaving", <<<<"close", ofile[p][fd]>>>>)
  /\ UNCHANGED <<blockvars, file, ends, inodevars, cur, panic, grown>>

\* Every descriptor of the parent is a reference of the child.
Fork(p, q) ==
  /\ Call(p, "fork") /\ At(q, "unused")
  /\ ofile' = [ofile EXCEPT ![q] = ofile[p]]
  /\ file' = [f \in FIds |-> [file[f] EXCEPT !.ref = @ + Cardinality({fd \in FDs : ofile[p][fd] = f})]]
  /\ Goto(q, "user")
  /\ UNCHANGED <<blockvars, ends, inodevars, todo, cur, panic, grown>>

Exit(p) ==
  /\ Call(p, "exit")
  /\ \E q \in Procs \ {p} : pc[q] # "unused"
  /\ Goto(p, "exiting")
  /\ UNCHANGED <<blockvars, filevars, inodevars, todo, cur, panic, grown>>

\* exit closes its files one by one.  It clears ofile[fd], which only the
\* process itself reads, after fileclose; here, as close does, before.
ExitClose(p) ==
  /\ At(p, "exiting")
  /\ \E fd \in FDs \ FreeFds(p) :
       /\ \A d \in FDs \ FreeFds(p) : fd <= d
       /\ ofile' = [ofile EXCEPT ![p][fd] = 0]
       /\ Leave(p, "exiting", <<<<"close", ofile[p][fd]>>>>)
  /\ UNCHANGED <<blockvars, file, ends, inodevars, cur, panic, grown>>

----------------------------------------------------------------------------
(* sys_pipe *)

\* pipealloc: the first file.
PipeAlloc(p) ==
  /\ Call(p, "pipe") /\ FreeFiles # {}
  /\ file' = [file EXCEPT ![Min(FreeFiles)].ref = 1]
  /\ cur' = [cur EXCEPT ![p].f = Min(FreeFiles)]
  /\ Goto(p, "piping")
  /\ UNCHANGED <<blockvars, ofile, ends, inodevars, todo, panic, grown>>

PipeEnd(q, wr) ==
  [ref |-> 1, type |-> "pipe", ip |-> q, off |-> 0, readable |-> ~wr, writable |-> wr]

\* The second file, the page, the descriptors, or the way back.
PipeFiles(p) ==
  LET rf == cur[p].f  wf == Min(FreeFiles)  free == {q \in Pipes : ends[q] = {}}
      q == CHOOSE x \in free : TRUE IN
  /\ At(p, "piping")
  /\ \/ /\ FreeFiles = {}
        /\ Leave(p, "leaving", <<<<"close", rf>>>>) /\ UNCHANGED filevars
     \/ /\ FreeFiles # {} /\ free = {}
        /\ file' = [file EXCEPT ![wf].ref = 1]
        /\ Leave(p, "leaving", <<<<"close", rf>>, <<"close", wf>>>>) /\ UNCHANGED <<ofile, ends>>
     \/ /\ FreeFiles # {} /\ free # {}
        /\ file' = [file EXCEPT ![rf] = PipeEnd(q, FALSE), ![wf] = PipeEnd(q, TRUE)]
        /\ ends' = [ends EXCEPT ![q] = BOOLEAN]
        /\ IF Cardinality(FreeFds(p)) < 2
           THEN Leave(p, "leaving", <<<<"close", rf>>, <<"close", wf>>>>) /\ UNCHANGED ofile
           ELSE LET d == Min(FreeFds(p))  e == Min(FreeFds(p) \ {d}) IN
                /\ ofile' = [ofile EXCEPT ![p][d] = rf, ![p][e] = wf]
                /\ Goto(p, "user") /\ UNCHANGED todo
  /\ cur' = [cur EXCEPT ![p] = Idle]
  /\ UNCHANGED <<blockvars, inodevars, panic, grown>>

----------------------------------------------------------------------------
(* fileread and filewrite of an inode *)

Read(p) ==
  /\ Call(p, "read")
  /\ \E fd \in FDs \ FreeFds(p), n \in ReadSizes :
       LET f == ofile[p][fd]  i == file[f].ip IN
       /\ file[f].readable /\ file[f].type = "inode" /\ lock[i] = NoProc
       /\ Readi(i, file[f].off, n) > 0
       /\ file' = [file EXCEPT ![f].off = @ + Readi(i, file[f].off, n)]
  /\ UNCHANGED <<blockvars, pc, ofile, ends, inodevars, todo, cur, panic, grown>>

Write(p) ==
  /\ Call(p, "write")
  /\ \E fd \in FDs \ FreeFds(p), n \in WriteSizes :
       /\ file[ofile[p][fd]].writable /\ file[ofile[p][fd]].type = "inode"
       /\ cur' = [cur EXCEPT ![p].f = ofile[p][fd], ![p].n = n]
  /\ Goto(p, "write")
  /\ UNCHANGED <<blockvars, filevars, inodevars, todo, panic, grown>>

\* One round of filewrite's loop: writei refuses, or starts under the lock.
WriteStart(p) ==
  LET f == cur[p].f  i == file[f].ip  n1 == Min({cur[p].n, MAXWRITE})  off == file[f].off IN
  /\ At(p, "write") /\ lock[i] = NoProc
  /\ IF WriteiFails(i, off, n1)
     THEN Return(p) /\ UNCHANGED lock
     ELSE /\ lock' = [lock EXCEPT ![i] = p]
          /\ cur' = [cur EXCEPT ![p].ip = i, ![p].off = off, ![p].left = n1]
          /\ Goto(p, "writei")
  /\ UNCHANGED <<blockvars, filevars, used, iref, nlink, todo, panic, grown>>

\* One block of writei: bmap finds it and the bytes are copied, or bmap
\* allocates it first.
Writei(p) ==
  LET i == cur[p].ip  off == cur[p].off  m == InBlock(off, cur[p].left) IN
  /\ At(p, "writei") /\ cur[p].left > 0
  /\ \/ /\ Bmap(i, off \div BSIZE) # 0
        /\ WriteCells(i, off, cur[p].left)
        /\ cur' = [cur EXCEPT ![p].off = off + m, ![p].left = @ - m]
        /\ UNCHANGED <<bitmap, addrs, pc, panic>>
     \/ /\ Bmap(i, off \div BSIZE) = 0 /\ DiskFull
        /\ panic' = "balloc: out of blocks" /\ UNCHANGED <<bitmap, data, addrs, pc, cur>>
     \/ /\ Bmap(i, off \div BSIZE) = 0 /\ ~DiskFull
        /\ \E b \in Blocks : Balloc(b) /\ Install(i, off \div BSIZE, b)
        /\ UNCHANGED <<pc, cur, panic>>
  /\ UNCHANGED <<size, filevars, inodevars, todo, grown>>

\* writei grows the file, filewrite moves the offset and unlocks.
WriteEnd(p) ==
  LET i == cur[p].ip  f == cur[p].f  n1 == Min({cur[p].n, MAXWRITE}) IN
  /\ At(p, "writei") /\ cur[p].left = 0
  /\ size' = [size EXCEPT ![i] = Max({@, cur[p].off})]
  /\ file' = [file EXCEPT ![f].off = @ + n1]
  /\ grown' = [grown EXCEPT ![i] = Max({@, file[f].off + n1})]
  /\ lock' = [lock EXCEPT ![i] = NoProc]
  /\ IF cur[p].n = n1 THEN Return(p)
     ELSE cur' = [cur EXCEPT ![p] = [Idle EXCEPT !.f = f, !.n = cur[p].n - n1]] /\ Goto(p, "write")
  /\ UNCHANGED <<bitmap, data, addrs, ofile, ends, used, iref, nlink, todo, panic>>

----------------------------------------------------------------------------

Calls(p) == Open(p) \/ Unlink(p) \/ Dup(p) \/ Close(p) \/ Exit(p) \/ PipeAlloc(p) \/ Read(p) \/ Write(p)
Steps(p) ==
  \/ FileClose(p) \/ PipeClose(p) \/ Iput(p) \/ Itrunc(p) \/ IputDrop(p) \/ Finish(p) \/ ExitClose(p)
  \/ OpenFile(p) \/ PipeFiles(p)
  \/ WriteStart(p) \/ Writei(p) \/ WriteEnd(p)

Next == \E p \in Procs : Calls(p) \/ Steps(p) \/ \E q \in Procs : Fork(p, q)

Spec == Init /\ [][Next /\ UNCHANGED mix]_vars

----------------------------------------------------------------------------
(* Properties *)

FileRecs == [ref : Nat, type : {"none", "inode", "pipe"}, ip : Inums \union Pipes \union {NoInode},
             off : Nat, readable : BOOLEAN, writable : BOOLEAN]
Locals == [f : 0..NFILE, ip : Inums \union {NoInode}, n : Nat, off : Nat, left : Nat]

\* Shapes; an offset never lies behind the end of its file, so that filewrite
\* never finds off > size; and of the panics only the full disk happens.
TypeOK ==
  /\ panic \in {"none", "balloc: out of blocks"}
  /\ pc \in [Procs -> {"unused", "user", "opening", "piping", "write", "writei", "leaving", "exiting"}]
  /\ ofile \in [Procs -> [FDs -> 0..NFILE]] /\ lock \in [Inums -> Procs \union {NoProc}]
  /\ file \in [FIds -> FileRecs] /\ cur \in [Procs -> Locals]
  /\ bitmap \subseteq Blocks /\ addrs \in [Inums -> [0..NDIRECT -> 0..NBLOCKS]]
  /\ used \subseteq Inums /\ iref \in [Inums -> Nat] /\ nlink \in [Inums -> 0..1]
  /\ size \in [Inums -> 0..(MAXFILE * BSIZE)] /\ grown \in [Inums -> Nat]
  /\ \A f \in FIds : file[f].type = "inode" => file[f].off <= size[file[f].ip]

\* The k-th item of todo, counted from its end.
Item(p, k) ==
  IF k <= Len(todo[p]) THEN todo[p][Len(todo[p]) + 1 - k] ELSE <<"none", 0>>

\* Where a process can have a file structure: in a descriptor, about to close
\* it, or half-way through pipe.
FilePlaces == ({"fd"} \X FDs) \union ({"todo"} \X (1..2)) \union {<<"pipe", 0>>}
FileAt(p, x) ==
  CASE x[1] = "fd" -> ofile[p][x[2]]
    [] x[1] = "todo" -> IF Item(p, x[2])[1] = "close" THEN Item(p, x[2])[2] ELSE 0
    [] x[1] = "pipe" -> IF pc[p] = "piping" THEN cur[p].f ELSE 0

\* A file structure is counted by its descriptors, and by the calls that made
\* it or are about to close it: it is freed neither under a descriptor (nor
\* handed to another open) nor never, also when open or pipe fails half-way.
FilesCounted ==
  \A f \in FIds :
    file[f].ref = Cardinality({c \in Procs \X FilePlaces : FileAt(c[1], c[2]) = f})

\* Where a call has an inode: about to put it, or in open.
InodePlaces == ({"todo"} \X (1..2)) \union {<<"open", 0>>}
InodeAt(p, x) ==
  IF x[1] = "todo" THEN (IF Item(p, x[2])[1] \in {"put", "drop"} THEN Item(p, x[2])[2] ELSE NoInode)
  ELSE IF pc[p] = "opening" THEN cur[p].ip ELSE NoInode

\* The references of an inode are the files open on it and the calls that have it.
InodesCounted ==
  \A i \in Inums : iref[i] =
    Cardinality({f \in FIds : file[f].type = "inode" /\ file[f].ip = i}) +
    Cardinality({c \in Procs \X InodePlaces : InodeAt(c[1], c[2]) = i})

\* A pipe end is open exactly while one file structure stands for it, or one
\* fileclose that has freed the structure and has still to call pipeclose, while
\* another open or pipe may already have taken the structure.
EndsCounted ==
  \A q \in Pipes, wr \in BOOLEAN :
    Cardinality({f \in FIds : file[f].type = "pipe" /\ file[f].ip = q /\ file[f].writable = wr})
      + Cardinality({c \in Procs \X (1..2) : Item(c[1], c[2]) = <<EndOp(wr), q>>})
      = IF wr \in ends[q] THEN 1 ELSE 0

\* Closing the last descriptor gives the inode or the end back once, and a
\* structure taken anew gives back nothing.
ObjectsCounted == InodesCounted /\ EndsCounted

\* How far itrunc of i has come in the indirect block.
From(i) == IF lock[i] # NoProc /\ todo[lock[i]] # <<>> THEN cur[lock[i]].left ELSE 0

\* The bitmap is right: a block in use has one owner - an inode or an
\* indirect block - and a free one has none, while
\* files grow, are truncated and take each other's freed blocks.
BlocksOwned ==
  \A b \in Blocks :
    Cardinality({c \in Inums \X Pointers : PointsTo(c[1], c[2], From(c[1])) = b})
      = IF b \in bitmap THEN 1 ELSE 0

\* A file that is not being written holds at every offset below its size the
\* byte that was written there, and is as long as the writes, each at the
\* offset it left in the open file, have made it: writers and readers that
\* share an open file do not overwrite or skip, and new blocks show no old
\* bytes.
FileContents ==
  \A i \in Inums : lock[i] = NoProc =>
    /\ size[i] = grown[i]
    /\ \A k \in 0..(size[i] - 1) : Bmap(i, k \div BSIZE) # 0 /\ Byte(i, k) = <<i, k>>

\* Descriptors, file structures, inodes and pipe ends are counted exactly, and
\* no offset lies behind the end of its file.
CountsExact == TypeOK /\ FilesCounted /\ ObjectsCounted
============================================================================
