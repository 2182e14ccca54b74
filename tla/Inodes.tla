------------------------------- MODULE Inodes -------------------------------
(***************************************************************************)
(* fs.c and sysfile.c: inodes on disk, the inode cache with its reference  *)
(* counts and sleep locks, directories, path lookup, and the system calls  *)
(* that change the tree, run by several processes at once.                 *)
(*                                                                         *)
(* A step runs from one ilock (or acquire of icache.lock) to the next:     *)
(* between them a process only touches what its sleep locks protect.  iput *)
(* is three steps, as other processes see it: the test of ref and nlink    *)
(* under the lock, the freeing, and the decrement of ref.                  *)
(* The contents of files (bmap, readi, writei) are in FileBlocks.          *)
(***************************************************************************)
EXTENDS Integers, Sequences, FiniteSets, FiniteSetsExt

CONSTANTS
  Procs, NoProc,
  NINODES,   \* inodes on the disk: 1..NINODES, the root is ROOTINO
  NINODE,    \* slots of icache
  Names,     \* what a directory entry can be called, without "." and ".."
  Calls      \* the system calls explored: records [op, path, new]

Dots == {".", ".."}
ROOTINO == 1
Inums == 1..NINODES
Slots == 1..NINODE
Types == {"free", "file", "dir", "dev"}
Creating == {"create", "mkdir", "mknod"}
Ops == Creating \union {"open", "openrw", "unlink", "link", "chdir"}

ASSUME InodesAssumption ==
  /\ NINODES \in Nat \ {0} /\ NINODE \in Nat \ {0} /\ NoProc \notin Procs
  /\ \A c \in Calls : c.op \in Ops /\ c.path.abs \in BOOLEAN /\ c.new.abs \in BOOLEAN
                      /\ c.path.names \in Seq(Names \union Dots)
                      /\ c.new.names \in Seq(Names \union Dots)

VARIABLES
  dinode,  \* on disk: type and nlink of every inode
  dir,     \* the entries of every directory: name -> inum, 0 is no entry
  icache,  \* the slots: inum, ref, valid, and the cached type and nlink
  lock,    \* who holds the sleep lock of each slot
  st,      \* per process: where it is and its local pointers
  panic    \* the message the kernel stopped with, or "none"

vars == <<dinode, dir, icache, lock, st, panic>>

(* st[p]: pc is where p is, call the system call; at, rest and parent the   *)
(* pointer, remaining path and flag of namex; ip, dp, put the inode         *)
(* pointers of the call and the argument of iput, after which pc is ret;    *)
(* cwd and fd the current directory and an open file.  0 is a null pointer. *)
PCs == {"user", "namex", "open", "create", "exists", "fill", "made", "unlink",
        "unlink2", "unlinked", "link", "linked", "link2", "bad", "chdir", "iput",
        "free", "drop"}

Pointers == {"at", "ip", "dp", "put", "cwd", "fd"}

NoEntries == [n \in Names \union Dots |-> 0]

EmptySlot == [inum |-> 0, ref |-> 0, valid |-> FALSE, type |-> "free", nlink |-> 0]
NoPath == [abs |-> TRUE, names |-> <<>>]
NoCall == [op |-> "open", path |-> NoPath, new |-> NoPath]

\* mkfs: a root directory; every process starts in it (userinit, fork).
Init ==
  /\ dinode = [i \in Inums |-> IF i = ROOTINO THEN [type |-> "dir", nlink |-> 1]
                                              ELSE [type |-> "free", nlink |-> 0]]
  /\ dir = [i \in Inums |-> IF i = ROOTINO
              THEN [n \in Names \union Dots |-> IF n \in Dots THEN ROOTINO ELSE 0]
              ELSE NoEntries]
  /\ icache = [s \in Slots |-> IF s = 1
       THEN [EmptySlot EXCEPT !.inum = ROOTINO, !.ref = Cardinality(Procs)] ELSE EmptySlot]
  /\ lock = [s \in Slots |-> NoProc]
  /\ st = [p \in Procs |-> [pc |-> "user", call |-> NoCall,
            rest |-> <<>>, parent |-> FALSE, at |-> 0, ip |-> 0, dp |-> 0, put |-> 0,
            ret |-> "user", cwd |-> 1, fd |-> 0]]
  /\ panic = "none"

----------------------------------------------------------------------------
(* The inode cache. *)

FreeInums == {i \in Inums : dinode[i].type = "free"}
Cached(i) == {s \in Slots : icache[s].ref > 0 /\ icache[s].inum = i}
EmptySlots == {s \in Slots : icache[s].ref = 0}

\* The slot iget returns, when it does not panic.
IgetSlot(i) == IF Cached(i) # {} THEN Min(Cached(i)) ELSE Min(EmptySlots)
IgetFails(i) == Cached(i) = {} /\ EmptySlots = {}

\* The slot after iget.
IgetRef(i) ==
  IF Cached(i) # {} THEN [icache[IgetSlot(i)] EXCEPT !.ref = @ + 1]
  ELSE [EmptySlot EXCEPT !.inum = i, !.ref = 1]

\* ilock's reading of the inode, once it has the lock.
Loaded(s) ==
  IF icache[s].valid THEN icache[s]
  ELSE [icache[s] EXCEPT !.valid = TRUE, !.type = dinode[icache[s].inum].type,
                         !.nlink = dinode[icache[s].inum].nlink]
NoType(s) == ~icache[s].valid /\ dinode[icache[s].inum].type = "free"

\* The cache after ilock(s) and iget of inode i.
LoadedGot(s, i) ==
  [[icache EXCEPT ![IgetSlot(i)] = IgetRef(i)] EXCEPT
     ![s] = [Loaded(s) EXCEPT !.ref = IF IgetSlot(i) = s THEN @ + 1 ELSE @]]

\* iupdate: the disk inode of a slot that becomes c.
Updated(c) == [type |-> c.type, nlink |-> c.nlink]

Running == panic = "none"
Go(p, r) == st' = [st EXCEPT ![p] = r]

\* The inode p's next step locks.
Wants(p) ==
  CASE st[p].pc = "namex" -> st[p].at
    [] st[p].pc \in {"open", "exists", "fill", "unlink2", "link", "bad", "chdir"} -> st[p].ip
    [] st[p].pc \in {"create", "unlink", "link2"} -> st[p].dp
    [] st[p].pc = "iput" -> st[p].put
    [] OTHER -> 0

\* ilock(s) returns at this step: the lock is free and the inode has a type.
Ilock(p, pc, s) ==
  /\ Running /\ st[p].pc = pc /\ lock[s] = NoProc
  /\ ~NoType(s)

\* r, about to iput the inode in its register f and then to go to next.
Put(r, f, next) == [r EXCEPT !.put = r[f], ![f] = 0, !.pc = "iput", !.ret = next]

\* Mutant of Unused: the references of other processes are ignored.
UnusedAnyRef(s) == icache[s].valid /\ icache[s].nlink = 0

\* iput: nobody can reach the inode any more.
Unused(s) == icache[s].valid /\ icache[s].nlink = 0 /\ icache[s].ref = 1

IputLock(p) ==
  LET s == st[p].put IN
  /\ Running /\ st[p].pc = "iput" /\ lock[s] = NoProc
  /\ lock' = [lock EXCEPT ![s] = IF Unused(s) THEN p ELSE NoProc]
  /\ Go(p, [st[p] EXCEPT !.pc = IF Unused(s) THEN "free" ELSE "drop"])
  /\ UNCHANGED <<dinode, dir, icache, panic>>

\* itrunc, type = 0, iupdate, valid = 0, releasesleep.
IputFree(p) ==
  LET s == st[p].put
      i == icache[s].inum IN
  /\ Running /\ st[p].pc = "free"
  /\ dir' = [dir EXCEPT ![i] = NoEntries]
  /\ dinode' = [dinode EXCEPT ![i].type = "free"]
  /\ icache' = [icache EXCEPT ![s].type = "free", ![s].valid = FALSE]
  /\ lock' = [lock EXCEPT ![s] = NoProc]
  /\ Go(p, [st[p] EXCEPT !.pc = "drop"])
  /\ UNCHANGED panic

\* The system call returns.
Return(r) == [r EXCEPT !.pc = "user", !.call = NoCall, !.rest = <<>>, !.parent = FALSE,
                       !.ret = "user"]

\* ref--; nothing reads what an entry with ref = 0 still holds.
Dropped(c) == IF c.ref = 1 THEN EmptySlot ELSE [c EXCEPT !.ref = @ - 1]

\* iput's last step, and the iunlockput(dp) or iput(ip) that may follow it.
IputDrop(p) ==
  LET r == [st[p] EXCEPT !.put = 0] IN
  /\ Running /\ st[p].pc = "drop"
  /\ icache' = [icache EXCEPT ![st[p].put] = Dropped(@)]
  /\ IF r.ret = "put dp"
     THEN /\ lock' = [lock EXCEPT ![r.dp] = NoProc]
          /\ Go(p, Put(r, "dp", IF r.call.op = "link" THEN "bad" ELSE "user"))
     ELSE /\ UNCHANGED lock
          /\ Go(p, CASE r.ret = "put ip" -> Put(r, "ip", "user")
                     [] r.ret = "user" -> Return(r)
                     [] OTHER -> [r EXCEPT !.pc = r.ret])
  /\ UNCHANGED <<dinode, dir, panic>>

----------------------------------------------------------------------------
(* namex *)

\* Where a failing namex leaves the call: link has to undo nlink++.
Failed(r) == IF r.ip # 0 THEN "bad" ELSE "user"

\* namex returns r.at to the call.
Found(r) ==
  IF r.parent
  THEN [r EXCEPT !.dp = r.at, !.at = 0,
          !.pc = CASE r.call.op \in Creating -> "create"
                   [] r.call.op = "unlink" -> "unlink"
                   [] OTHER -> "link2"]
  ELSE [r EXCEPT !.ip = r.at, !.at = 0,
          !.pc = IF r.call.op \in {"link", "chdir"} THEN r.call.op ELSE "open"]

\* The test of the while loop.
LoopTest(r) ==
  CASE r.rest # <<>> -> [r EXCEPT !.pc = "namex"]
    [] r.rest = <<>> /\ r.parent -> Put(r, "at", Failed(r))
    [] OTHER -> Found(r)

\* iget(ROOTDEV, ROOTINO) or idup(cwd), up to the first ilock.
NamexStart(p, r, path, parent) ==
  LET s == IF path.abs THEN IgetSlot(ROOTINO) ELSE r.cwd IN
  /\ path.abs => ~IgetFails(ROOTINO)
  /\ icache' = [icache EXCEPT ![s] = IF path.abs THEN IgetRef(ROOTINO)
                                     ELSE [@ EXCEPT !.ref = @ + 1]]
  /\ Go(p, LoopTest([r EXCEPT !.at = s, !.rest = path.names, !.parent = parent]))
  /\ UNCHANGED <<dinode, dir, lock, panic>>

\* Mutant of NextDir: the entry is read, but its inode is not referenced.
NextDirNoRef(p, i) ==
  LET s == st[p].at IN
  /\ ~IgetFails(i)
  /\ icache' = [icache EXCEPT ![s] = Loaded(s)]
  /\ LET r == LoopTest([st[p] EXCEPT !.at = IgetSlot(i), !.rest = Tail(@)]) IN
     Go(p, [r EXCEPT !.put = s, !.pc = "iput", !.ret = r.pc])
  /\ UNCHANGED <<dinode, dir, lock, panic>>

\* dirlookup found inode i: iunlockput(ip), ip = next.
NextDir(p, i) ==
  LET s == st[p].at IN
  /\ ~IgetFails(i)
  /\ icache' = LoadedGot(s, i)
  /\ LET r == LoopTest([st[p] EXCEPT !.at = IgetSlot(i), !.rest = Tail(@)]) IN
     Go(p, [r EXCEPT !.put = s, !.pc = "iput", !.ret = r.pc])
  /\ UNCHANGED <<dinode, dir, lock, panic>>

\* One round of the loop: ilock(ip), and iunlock in each of its ways out.
Namex(p) ==
  LET r == st[p]
      s == r.at
      entry == dir[icache[s].inum][Head(r.rest)]
      last == r.parent /\ Len(r.rest) = 1
      isdir == Loaded(s).type = "dir" IN
  /\ Ilock(p, "namex", s)
  /\ \/ /\ ~isdir \/ (~last /\ entry = 0)
        /\ icache' = [icache EXCEPT ![s] = Loaded(s)]
        /\ Go(p, Put(r, "at", Failed(r)))
        /\ UNCHANGED <<dinode, dir, lock, panic>>
     \/ /\ isdir /\ last
        /\ icache' = [icache EXCEPT ![s] = Loaded(s)]
        /\ Go(p, Found(r))
        /\ UNCHANGED <<dinode, dir, lock, panic>>
     \/ /\ isdir /\ ~last /\ entry # 0
        /\ NextDir(p, entry)

----------------------------------------------------------------------------
(* The system calls. *)

\* The call's path goes to namei or nameiparent.
Start(p) ==
  /\ Running /\ st[p].pc = "user"
  /\ \E c \in Calls :
       NamexStart(p, [st[p] EXCEPT !.call = c], c.path, c.op \in Creating \union {"unlink"})

\* fileclose of the last reference.
Close(p) ==
  /\ Running /\ st[p].pc = "user" /\ st[p].fd # 0
  /\ Go(p, Put(st[p], "fd", "user"))
  /\ UNCHANGED <<dinode, dir, icache, lock, panic>>

\* sys_open from filealloc on: the tables may be full; ip is unlocked.
Opened(r) ==
  {Put(r, "ip", "user")} \union
  (IF r.fd = 0 THEN {Return([r EXCEPT !.fd = r.ip, !.ip = 0])} ELSE {})

\* open without O_CREATE: ilock(ip) and the rest.
Open(p) ==
  LET s == st[p].ip IN
  /\ Ilock(p, "open", s)
  /\ icache' = [icache EXCEPT ![s] = Loaded(s)]
  /\ \E r \in IF st[p].call.op = "openrw" /\ Loaded(s).type = "dir"
              THEN {Put(st[p], "ip", "user")} ELSE Opened(st[p]) : Go(p, r)
  /\ UNCHANGED <<dinode, dir, lock, panic>>

NewType(op) == CASE op = "mkdir" -> "dir" [] op = "mknod" -> "dev" [] OTHER -> "file"

\* create: ilock(dp), and the entry exists, or ialloc and iget of the new inode.
Create(p) ==
  LET r == st[p]
      d == r.dp
      entry == dir[icache[d].inum][Head(r.rest)] IN
  /\ Ilock(p, "create", d)
  /\ \/ /\ entry # 0 /\ ~IgetFails(entry)
        /\ icache' = LoadedGot(d, entry)
        /\ Go(p, Put([r EXCEPT !.ip = IgetSlot(entry)], "dp", "exists"))
        /\ UNCHANGED <<dinode, dir, lock, panic>>
     \/ /\ entry = 0
        /\ \E i \in FreeInums :
             /\ ~IgetFails(i)
             /\ dinode' = [dinode EXCEPT ![i] = [type |-> NewType(r.call.op), nlink |-> 0]]
             /\ icache' = LoadedGot(d, i)
             /\ lock' = [lock EXCEPT ![d] = p]
             /\ Go(p, [r EXCEPT !.ip = IgetSlot(i), !.pc = "fill"])
             /\ UNCHANGED <<dir, panic>>

\* The name existed: open takes it if it is a file.
Exists(p) ==
  LET s == st[p].ip IN
  /\ Ilock(p, "exists", s)
  /\ icache' = [icache EXCEPT ![s] = Loaded(s)]
  /\ \E r \in IF st[p].call.op = "create" /\ Loaded(s).type = "file"
              THEN Opened(st[p]) ELSE {Put(st[p], "ip", "user")} : Go(p, r)
  /\ UNCHANGED <<dinode, dir, lock, panic>>

\* ilock(ip) of the new inode, its entries and links, dirlink, iunlockput(dp).
Fill(p) ==
  LET r == st[p]
      c == [Loaded(r.ip) EXCEPT !.nlink = 1]
      isdir == r.call.op = "mkdir"
      d == IF isdir THEN [icache[r.dp] EXCEPT !.nlink = @ + 1] ELSE icache[r.dp] IN
  /\ Ilock(p, "fill", r.ip)
  /\ icache' = [icache EXCEPT ![r.ip] = c, ![r.dp] = d]
  /\ dinode' = [dinode EXCEPT ![c.inum] = Updated(c), ![d.inum] = Updated(d)]
  /\ dir' = [dir EXCEPT ![d.inum][Head(r.rest)] = c.inum,
                        ![c.inum] = IF isdir THEN [@ EXCEPT !["."] = c.inum, ![".."] = d.inum]
                                    ELSE @]
  /\ lock' = [lock EXCEPT ![r.ip] = p, ![r.dp] = NoProc]
  /\ Go(p, Put(r, "dp", "made"))
  /\ UNCHANGED panic

\* create returned ip locked: the end of open, mkdir or mknod.
Made(p) ==
  /\ Running /\ st[p].pc = "made"
  /\ lock' = [lock EXCEPT ![st[p].ip] = NoProc]
  /\ \E r \in IF st[p].call.op = "create" THEN Opened(st[p])
              ELSE {Put(st[p], "ip", "user")} : Go(p, r)
  /\ UNCHANGED <<dinode, dir, icache, panic>>

\* Mutant of Unlink: goto bad leaves dp locked.
UnlinkLocked(p) ==
  LET r == st[p]
      d == r.dp
      entry == dir[icache[d].inum][Head(r.rest)] IN
  /\ Ilock(p, "unlink", d)
  /\ lock' = [lock EXCEPT ![d] = p]
  /\ IF Head(r.rest) \in Dots \/ entry = 0
     THEN /\ icache' = [icache EXCEPT ![d] = Loaded(d)]
          /\ Go(p, Put(r, "dp", "user"))
     ELSE /\ ~IgetFails(entry)
          /\ icache' = LoadedGot(d, entry)
          /\ Go(p, [r EXCEPT !.ip = IgetSlot(entry), !.pc = "unlink2"])
  /\ UNCHANGED <<dinode, dir, panic>>

\* sys_unlink: ilock(dp), dirlookup.
Unlink(p) ==
  LET r == st[p]
      d == r.dp
      entry == dir[icache[d].inum][Head(r.rest)] IN
  /\ Ilock(p, "unlink", d)
  /\ \/ /\ Head(r.rest) \in Dots \/ entry = 0
        /\ icache' = [icache EXCEPT ![d] = Loaded(d)]
        /\ Go(p, Put(r, "dp", "user"))
        /\ UNCHANGED <<dinode, dir, lock, panic>>
     \/ /\ Head(r.rest) \notin Dots /\ entry # 0
        /\ ~IgetFails(entry)
        /\ icache' = LoadedGot(d, entry)
        /\ lock' = [lock EXCEPT ![d] = p]
        /\ Go(p, [r EXCEPT !.ip = IgetSlot(entry), !.pc = "unlink2"])
        /\ UNCHANGED <<dinode, dir, panic>>

\* isdirempty
IsDirEmpty(i) == \A n \in Names : dir[i][n] = 0

\* ilock(ip), the checks, the erased entry, iunlockput(dp) with ip still locked.
Unlink2(p) ==
  LET r == st[p]
      c == Loaded(r.ip)
      isdir == c.type = "dir"
      d == IF isdir THEN [icache[r.dp] EXCEPT !.nlink = @ - 1] ELSE icache[r.dp] IN
  /\ Ilock(p, "unlink2", r.ip)
  /\ c.nlink >= 1
  /\ \/ /\ isdir /\ ~IsDirEmpty(c.inum)
        /\ icache' = [icache EXCEPT ![r.ip] = c]
        /\ Go(p, Put(r, "ip", "put dp"))
        /\ UNCHANGED <<dinode, dir, lock, panic>>
     \/ /\ isdir => IsDirEmpty(c.inum)
        /\ icache' = [icache EXCEPT ![r.ip] = c, ![r.dp] = d]
        /\ dinode' = [dinode EXCEPT ![d.inum] = Updated(d)]
        /\ dir' = [dir EXCEPT ![d.inum][Head(r.rest)] = 0]
        /\ lock' = [lock EXCEPT ![r.ip] = p, ![r.dp] = NoProc]
        /\ Go(p, Put(r, "dp", "unlinked"))
        /\ UNCHANGED panic

\* ip->nlink = n, iupdate(ip), for p's locked inode, whose slot is c.
SetLinks(p, c, n) ==
  /\ icache' = [icache EXCEPT ![st[p].ip] = [c EXCEPT !.nlink = n]]
  /\ dinode' = [dinode EXCEPT ![c.inum] = [type |-> c.type, nlink |-> n]]

Unlinked(p) ==
  LET c == icache[st[p].ip] IN
  /\ Running /\ st[p].pc = "unlinked"
  /\ SetLinks(p, c, c.nlink - 1)
  /\ lock' = [lock EXCEPT ![st[p].ip] = NoProc]
  /\ Go(p, Put(st[p], "ip", "user"))
  /\ UNCHANGED <<dir, panic>>

\* Mutant of Link: nlink++ is left to the end, which never comes.
LinkUncounted(p) ==
  LET c == Loaded(st[p].ip) IN
  /\ Ilock(p, "link", st[p].ip)
  /\ icache' = [icache EXCEPT ![st[p].ip] = c]
  /\ Go(p, IF c.type = "dir" THEN Put(st[p], "ip", "user")
            ELSE [st[p] EXCEPT !.pc = "linked"])
  /\ UNCHANGED <<dinode, dir, lock, panic>>

\* sys_link: ilock(ip), nlink++.
Link(p) ==
  LET c == Loaded(st[p].ip) IN
  /\ Ilock(p, "link", st[p].ip)
  /\ IF c.type = "dir"
     THEN /\ icache' = [icache EXCEPT ![st[p].ip] = c]
          /\ Go(p, Put(st[p], "ip", "user"))
          /\ UNCHANGED dinode
     ELSE /\ SetLinks(p, c, c.nlink + 1)
          /\ Go(p, [st[p] EXCEPT !.pc = "linked"])
  /\ UNCHANGED <<dir, lock, panic>>

\* nameiparent(new)
LinkParent(p) ==
  /\ Running /\ st[p].pc = "linked"
  /\ NamexStart(p, st[p], st[p].call.new, TRUE)

\* ilock(dp), dirlink: the name exists and is put back, or becomes an entry.
Link2(p) ==
  LET r == st[p]
      d == r.dp
      n == Head(r.rest)
      entry == dir[icache[d].inum][n] IN
  /\ Ilock(p, "link2", d)
  /\ \/ /\ entry # 0 /\ ~IgetFails(entry)
        /\ icache' = LoadedGot(d, entry)
        /\ lock' = [lock EXCEPT ![d] = p]
        /\ Go(p, [r EXCEPT !.put = IgetSlot(entry), !.pc = "iput", !.ret = "put dp"])
        /\ UNCHANGED <<dinode, dir, panic>>
     \/ /\ entry = 0
        /\ icache' = [icache EXCEPT ![d] = Loaded(d)]
        /\ dir' = [dir EXCEPT ![icache[d].inum][n] = icache[r.ip].inum]
        /\ Go(p, Put(r, "dp", "put ip"))
        /\ UNCHANGED <<dinode, lock, panic>>

\* sys_link's bad: nlink-- and iunlockput(ip).
Bad(p) ==
  LET c == Loaded(st[p].ip) IN
  /\ Ilock(p, "bad", st[p].ip)
  /\ SetLinks(p, c, c.nlink - 1)
  /\ Go(p, Put(st[p], "ip", "user"))
  /\ UNCHANGED <<dir, lock, panic>>

\* sys_chdir: ilock(ip), the check, iput(cwd), cwd = ip.
Chdir(p) ==
  LET r == st[p] IN
  /\ Ilock(p, "chdir", r.ip)
  /\ icache' = [icache EXCEPT ![r.ip] = Loaded(r.ip)]
  /\ Go(p, IF Loaded(r.ip).type # "dir" THEN Put(r, "ip", "user")
            ELSE [Put(r, "cwd", "user") EXCEPT !.cwd = r.ip, !.ip = 0])
  /\ UNCHANGED <<dinode, dir, lock, panic>>

\* The inodes the next step of p may look up with iget, 0 for none.
Gets(p) ==
  LET r == st[p]
      s == Wants(p)
      entry == dir[icache[s].inum][Head(r.rest)] IN
  CASE r.pc = "user" -> {ROOTINO}
    [] r.pc = "linked" -> IF r.call.new.abs THEN {ROOTINO} ELSE {}
    [] r.pc = "namex" -> IF Loaded(s).type # "dir" \/ (r.parent /\ Len(r.rest) = 1)
                         THEN {} ELSE {entry}
    [] r.pc = "create" /\ entry = 0 -> FreeInums
    [] r.pc \in {"create", "unlink", "link2"} -> {entry}
    [] OTHER -> {}

\* The panics p's next step can run into.
Fatal(p) ==
  LET s == Wants(p)
      locks == s # 0 /\ st[p].pc # "iput" /\ lock[s] = NoProc
      inDir == locks /\ st[p].pc \in {"create", "unlink", "link2"}
      full == \E i \in Gets(p) \ {0} : IgetFails(i) IN
  (IF locks /\ NoType(s) THEN {"ilock: no type"} ELSE {}) \union
  (IF inDir /\ Loaded(s).type # "dir" THEN {"dirlookup not DIR"} ELSE {}) \union
  (IF locks /\ st[p].pc = "unlink2" /\ Loaded(s).nlink < 1 THEN {"unlink: nlink < 1"}
   ELSE {}) \union
  (IF (locks \/ s = 0) /\ full THEN {"iget: no inodes"} ELSE {}) \union
  (IF locks /\ st[p].pc = "create" /\ FreeInums = {} /\ Gets(p) = {}
   THEN {"ialloc: no inodes"} ELSE {})

Panic(p) ==
  /\ Running
  /\ panic' \in Fatal(p)
  /\ UNCHANGED <<dinode, dir, icache, lock, st>>

Step(p) ==
  \/ Panic(p) \/ IputLock(p) \/ IputFree(p) \/ IputDrop(p)
  \/ Start(p) \/ Namex(p) \/ Close(p) \/ Open(p)
  \/ Create(p) \/ Exists(p) \/ Fill(p) \/ Made(p)
  \/ Unlink(p) \/ Unlink2(p) \/ Unlinked(p)
  \/ Link(p) \/ LinkParent(p) \/ Link2(p) \/ Bad(p) \/ Chdir(p)

Next == \E p \in Procs : Step(p)

Spec == Init /\ [][Next]_vars

----------------------------------------------------------------------------
(* Properties *)

\* Shapes of the inode table, the cache, the locks and the process pointers.
TypeOK ==
  /\ dinode \in [Inums -> [type : Types, nlink : Nat]]
  /\ dir \in [Inums -> [Names \union Dots -> 0..NINODES]]
  /\ \A s \in Slots : icache[s].inum \in 0..NINODES /\ icache[s].ref \in Nat
                       /\ icache[s].nlink \in Nat /\ icache[s].type \in Types
  /\ lock \in [Slots -> Procs \union {NoProc}]
  /\ \A p \in Procs : st[p].pc \in PCs /\ \A f \in Pointers : st[p][f] \in 0..NINODE

\* ip->ref is exactly the number of pointers to the slot in all processes: no
\* path through namex, iput and the error exits leaks or loses a reference
\* (iget, idup, iput; fs.c:125 "ip->ref tracks the number of in-memory pointers").
RefCounts ==
  \A s \in Slots :
    icache[s].ref = Cardinality({<<p, f>> \in Procs \X Pointers : st[p][f] = s})

\* An inode has at most one entry of the cache in use, and a valid entry agrees
\* with the disk whenever nobody is changing it: ilock never shows a stale
\* inode, also when the number was freed and allocated again meanwhile.
CacheCoherent ==
  /\ \A i \in Inums : Cardinality(Cached(i)) <= 1
  /\ \A s \in Slots : icache[s].ref > 0 /\ icache[s].valid =>
       Updated(icache[s]) = dinode[icache[s].inum]

Entries(i) == {<<d, n>> \in Inums \X Names : dinode[d].type = "dir" /\ dir[d][n] = i}

\* A directory entry always names an allocated inode, whose link count is at
\* least the number of such entries: unlink, a failing link and the freeing in
\* iput never leave an entry behind that names a freed or reused inode.
NoDangling ==
  \A i \in Inums : Entries(i) # {} =>
    dinode[i].type # "free" /\ Cardinality(Entries(i)) <= dinode[i].nlink

\* The calls never reach a panic but the two that mean a full table.
\* This is for paths that do not go through the ".." of a removed directory,
\* which may name a freed parent (fs.c:311).
NoPanic == panic \in {"none", "iget: no inodes", "ialloc: no inodes"}

\* Every process of C waits for a lock that a process of C holds.
Circle(C) == C # {} /\ \A p \in C : Wants(p) # 0 /\ lock[Wants(p)] \in C

\* create and unlink in iput(dp), with the child still locked.
PutsParent(p) == st[p].pc = "iput" /\ st[p].ret \in {"made", "unlinked"}

\* link whose new name is "." or "..": dirlink finds it and puts the directory
\* itself or its parent with the directory locked.
PutsDot(p) ==
  /\ st[p].pc = "iput" /\ st[p].ret = "put dp"
  /\ st[p].call.op = "link" /\ Head(st[p].rest) \in Dots

\* Processes wait for each other's inodes in a circle, or one for itself, only
\* when one of them is in such an iput.  Lookups, open, chdir and the other waits
\* of create, link and unlink close no circle: they go from a directory to its
\* entry, or wait with nothing locked.
OnlyPutCycles ==
  \A C \in SUBSET Procs : Circle(C) => \E p \in C : PutsParent(p) \/ PutsDot(p)

\* The cache is exact: references are counted, an inode is cached once, and what
\* is cached is what the disk has.
InodesSound == TypeOK /\ RefCounts /\ CacheCoherent
============================================================================
