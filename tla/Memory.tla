------------------------------- MODULE Memory -------------------------------
(***************************************************************************)
(* kalloc.c, vm.c, exec.c and the memory side of fork, wait and growproc   *)
(* in proc.c: who owns each page of physical memory, with several          *)
(* processes allocating until kalloc returns 0 at any of their steps.      *)
(*                                                                         *)
(* A step is one kalloc or kfree with what its process does until the next *)
(* one.  Addresses are numbers below WORD, where they wrap as a uint does; *)
(* a page has PGSIZE addresses, a page table covers NPTE pages.  The       *)
(* mapping of the kernel needs one page table (index NTAB).  The free list *)
(* is a set: which free page kalloc returns makes no difference.           *)
(***************************************************************************)
EXTENDS Integers, FiniteSets

CONSTANTS
  Procs, InitProc,
  NPAGES,      \* pages of physical memory
  PGSIZE, NPTE, KERNBASE, WORD,
  Grows, Shrinks,  \* arguments n and -n of sbrk
  ExecSizes    \* vaddr + memsz of the segments exec loads

Pages == 1..NPAGES
UserPages == 0..(KERNBASE \div PGSIZE - 1)
NTAB == KERNBASE \div (PGSIZE * NPTE)
Tables == 0..NTAB

ASSUME MemoryAssumption ==
  /\ InitProc \in Procs /\ NPAGES \in Nat /\ NPAGES > 5
  /\ PGSIZE \in Nat \ {0} /\ NPTE \in Nat \ {0} /\ KERNBASE \in Nat \ {0} /\ WORD \in Nat
  /\ KERNBASE % (PGSIZE * NPTE) = 0 /\ 2 * KERNBASE <= WORD
  /\ Grows \subseteq 1..WORD /\ Shrinks \subseteq 1..WORD /\ ExecSizes \subseteq 1..(WORD - 1)

VARIABLES
  free,    \* kmem.freelist
  state,   \* "unused", "embryo", "live" or "zombie"
  parent,
  kstack,  \* each process's kernel stack
  cur, sz, \* its page table and size
  st       \* its system call: see Idle

vars == <<free, state, parent, kstack, cur, sz, st>>

(* A page table: the page directory, the page tables, the user pages mapped  *)
(* (0: not present) and those of them that lack PTE_U.                       *)
NoSpace == [dir |-> 0, tab |-> [t \in Tables |-> 0], map |-> [a \in UserPages |-> 0],
            guard |-> {}]

(* A system call: pc is its next step, op which call; new the page table it  *)
(* builds, dead the one freevm takes apart; a, lim and nsz the loop's page,  *)
(* its bound and the size to return; mem a page that is not mapped yet;      *)
(* child the process fork makes or wait reaps.                               *)
Idle == [pc |-> "user", op |-> "none", new |-> NoSpace, dead |-> NoSpace, a |-> 0, lim |-> 0,
         nsz |-> 0, mem |-> 0, child |-> InitProc]

PCs == {"user", "setupkvm", "kmap", "alloc", "map", "dealloc", "freevm"}

PGROUNDUP(x) == (x + PGSIZE - 1) \div PGSIZE   \* as a page number

\* userinit: setupkvm and inituvm, with a kernel stack.
Init ==
  /\ free = Pages \ 1..5
  /\ state = [p \in Procs |-> IF p = InitProc THEN "live" ELSE "unused"]
  /\ parent = [p \in Procs |-> InitProc]
  /\ kstack = [p \in Procs |-> IF p = InitProc THEN 1 ELSE 0]
  /\ cur = [p \in Procs |-> IF p # InitProc THEN NoSpace
       ELSE [NoSpace EXCEPT !.dir = 2, !.tab = [@ EXCEPT ![NTAB] = 3, ![0] = 4],
                            !.map = [@ EXCEPT ![0] = 5]]]
  /\ sz = [p \in Procs |-> IF p = InitProc THEN PGSIZE ELSE 0]
  /\ st = [p \in Procs |-> Idle]

----------------------------------------------------------------------------

Go(p, r) == st' = [st EXCEPT ![p] = r]
Kalloc == CHOOSE pg \in free : TRUE
Take == free' = free \ {Kalloc}
Kfree(pg) == free' = free \union ({pg} \ {0})

\* A process whose first page is gone faults in user mode; it can only exit.
InUser(p) == state[p] = "live" /\ st[p].pc = "user" /\ cur[p].map[0] # 0

\* The page table a call's allocations go to.
Target(p) == IF st[p].op = "sbrk" THEN cur[p] ELSE st[p].new
SetTarget(p, r, s) ==
  IF r.op = "sbrk" THEN cur' = [cur EXCEPT ![p] = s] /\ Go(p, r)
  ELSE UNCHANGED cur /\ Go(p, [r EXCEPT !.new = s])

\* The call gives up what it was building: freevm(new).
Abandon(r) == [r EXCEPT !.pc = "freevm", !.dead = r.new, !.new = NoSpace]

\* allocuvm(pgdir, oldsz, newsz): what remains to do, or its immediate result.
AllocUvm(r, oldsz, newsz) == [r EXCEPT !.pc = "alloc", !.a = PGROUNDUP(oldsz), !.lim = newsz]

(* sbrk *)

Grow(p) ==
  \E n \in Grows :
    LET newsz == (sz[p] + n) % WORD IN
    /\ InUser(p) /\ newsz < KERNBASE /\ newsz >= sz[p]
    /\ Go(p, AllocUvm([Idle EXCEPT !.op = "sbrk", !.nsz = newsz], sz[p], newsz))
    /\ UNCHANGED <<free, state, parent, kstack, cur, sz>>

\* deallocuvm(pgdir, oldsz, newsz); a size below 0 wraps and frees nothing.
\* (init never frees its own code.)
Shrink(p) ==
  \E n \in Shrinks :
    LET newsz == (sz[p] - n) % WORD IN
    /\ InUser(p) /\ newsz < sz[p] /\ (p = InitProc => newsz # 0)
    /\ Go(p, [Idle EXCEPT !.pc = "dealloc", !.op = "sbrk", !.a = PGROUNDUP(newsz), !.lim = sz[p],
                          !.nsz = newsz])
    /\ UNCHANGED <<free, state, parent, kstack, cur, sz>>

\* One round of deallocuvm's loop.
Dealloc(p) ==
  LET r == st[p]
      pg == cur[p].map[r.a] IN
  /\ r.pc = "dealloc" /\ r.a * PGSIZE < r.lim
  /\ Kfree(pg)
  /\ cur' = [cur EXCEPT ![p].map[r.a] = 0, ![p].guard = @ \ {r.a}]
  /\ Go(p, [r EXCEPT !.a = @ + 1])
  /\ UNCHANGED <<state, parent, kstack, sz>>

\* Its end: a failed allocuvm frees mem; growproc takes a size 0 for an error.
DeallocEnd(p) ==
  LET r == st[p] IN
  /\ r.pc = "dealloc" /\ r.a * PGSIZE >= r.lim
  /\ Kfree(r.mem)
  /\ sz' = [sz EXCEPT ![p] = IF r.nsz = 0 THEN @ ELSE r.nsz]
  /\ Go(p, Idle)
  /\ UNCHANGED <<state, parent, kstack, cur>>

(* exec and fork *)

\* exec, after the ELF header; the sum of vaddr and memsz is its argument.
Exec(p) ==
  /\ InUser(p)
  /\ \E n \in ExecSizes : Go(p, [Idle EXCEPT !.pc = "setupkvm", !.op = "exec", !.nsz = n])
  /\ UNCHANGED <<free, state, parent, kstack, cur, sz>>

\* allocproc's kernel stack, then copyuvm.
Fork(p) ==
  /\ InUser(p) /\ free # {}
  /\ \E c \in Procs :
       /\ state[c] = "unused"
       /\ state' = [state EXCEPT ![c] = "embryo"]
       /\ kstack' = [kstack EXCEPT ![c] = Kalloc]
       /\ Go(p, [Idle EXCEPT !.pc = "setupkvm", !.op = "fork", !.nsz = sz[p], !.child = c])
  /\ Take
  /\ UNCHANGED <<parent, cur, sz>>

\* setupkvm: the page directory.
SetupKvm(p) ==
  LET r == st[p] IN
  /\ r.pc = "setupkvm"
  /\ IF free = {} THEN Go(p, Abandon(r)) /\ UNCHANGED free
     ELSE Go(p, [r EXCEPT !.new.dir = Kalloc, !.pc = "kmap"]) /\ Take
  /\ UNCHANGED <<state, parent, kstack, cur, sz>>

\* setupkvm: mappages of the kernel, or freevm(pgdir).
Kmap(p) ==
  LET r == st[p] IN
  /\ r.pc = "kmap"
  /\ IF free = {} THEN Go(p, Abandon(r)) /\ UNCHANGED free
     ELSE Go(p, AllocUvm([r EXCEPT !.new.tab[NTAB] = Kalloc], 0, r.nsz)) /\ Take
  /\ UNCHANGED <<state, parent, kstack, cur, sz>>

\* Mutant of NoMemory: growproc fails without deallocuvm.
NoMemoryKeeps(p) ==
  IF st[p].op = "sbrk" THEN Go(p, [st[p] EXCEPT !.pc = "dealloc", !.a = PGROUNDUP(st[p].lim), !.nsz = 0])
  ELSE Go(p, Abandon(st[p]))

\* allocuvm or copyuvm cannot go on: growproc unmaps what it mapped, exec and
\* fork free the page table they build.
NoMemory(p) ==
  LET r == st[p] IN
  IF r.op = "sbrk"
  THEN Go(p, [r EXCEPT !.pc = "dealloc", !.a = PGROUNDUP(sz[p]), !.nsz = 0])
  ELSE Go(p, Abandon(r))

\* allocuvm's and copyuvm's loop, unless exec asks allocuvm for too much: a page ...
Alloc(p) ==
  LET r == st[p] IN
  /\ r.pc = "alloc" /\ r.a * PGSIZE < r.lim
  /\ IF free = {} \/ (r.op = "exec" /\ r.lim >= KERNBASE) THEN NoMemory(p) /\ UNCHANGED free
     ELSE Go(p, [r EXCEPT !.mem = Kalloc, !.pc = "map"]) /\ Take
  /\ UNCHANGED <<state, parent, kstack, cur, sz>>

\* ... and mappages, which may need a page table (walkpgdir); when there is
\* none, kfree(mem), which in allocuvm comes after deallocuvm.
Map(p) ==
  LET r == st[p]
      s == Target(p)
      t == r.a \div NPTE
      g == IF r.op = "fork" /\ r.a \in cur[p].guard THEN {r.a} ELSE {}
      mapped == [s EXCEPT !.map[r.a] = r.mem, !.guard = @ \union g]
      next == [r EXCEPT !.mem = 0, !.a = @ + 1, !.pc = "alloc"] IN
  /\ r.pc = "map"
  /\ \/ /\ s.tab[t] # 0
        /\ SetTarget(p, next, mapped) /\ UNCHANGED free
     \/ /\ s.tab[t] = 0 /\ free # {}
        /\ SetTarget(p, next, [mapped EXCEPT !.tab[t] = Kalloc]) /\ Take
     \/ /\ s.tab[t] = 0 /\ free = {} /\ r.op = "sbrk"
        /\ NoMemory(p) /\ UNCHANGED <<free, cur>>
     \/ /\ s.tab[t] = 0 /\ free = {} /\ r.op # "sbrk"
        /\ Go(p, Abandon([r EXCEPT !.mem = 0]))
        /\ Kfree(r.mem) /\ UNCHANGED cur
  /\ UNCHANGED <<state, parent, kstack, sz>>

\* The loop has ended: growproc returns,
GrowEnd(p) ==
  /\ st[p].pc = "alloc" /\ st[p].op = "sbrk" /\ st[p].a * PGSIZE >= st[p].lim
  /\ sz' = [sz EXCEPT ![p] = st[p].nsz]
  /\ Go(p, Idle)
  /\ UNCHANGED <<free, state, parent, kstack, cur>>

\* fork has its child,
ForkEnd(p) ==
  LET c == st[p].child IN
  /\ st[p].pc = "alloc" /\ st[p].op = "fork" /\ st[p].a * PGSIZE >= st[p].lim
  /\ cur' = [cur EXCEPT ![c] = st[p].new] /\ sz' = [sz EXCEPT ![c] = sz[p]]
  /\ parent' = [parent EXCEPT ![c] = p] /\ state' = [state EXCEPT ![c] = "live"]
  /\ Go(p, Idle)
  /\ UNCHANGED <<free, kstack>>

\* exec has loaded the program (or loaduvm failed) and allocates two pages,
ExecStack(p) ==
  LET r == st[p]
      newsz == PGROUNDUP(r.nsz) * PGSIZE + 2 * PGSIZE IN
  /\ r.pc = "alloc" /\ r.op = "exec" /\ r.a * PGSIZE >= r.lim
  /\ \/ Go(p, Abandon(r))
     \/ /\ newsz < KERNBASE
        /\ Go(p, AllocUvm([r EXCEPT !.op = "execstack", !.nsz = newsz], r.nsz, newsz))
  /\ UNCHANGED <<free, state, parent, kstack, cur, sz>>

\* Mutant of ExecCommit: the old page table is not freed.
ExecCommitLeaks(p) ==
  LET r == st[p] IN
  /\ r.pc = "alloc" /\ r.op = "execstack" /\ r.a * PGSIZE >= r.lim
  /\ cur' = [cur EXCEPT ![p] = [r.new EXCEPT !.guard = {r.lim \div PGSIZE - 2}]]
  /\ sz' = [sz EXCEPT ![p] = r.nsz]
  /\ Go(p, Idle)
  /\ UNCHANGED <<free, state, parent, kstack>>

\* and commits: clearpteu, the new page table, freevm(oldpgdir) - or copyout
\* of the arguments failed.
ExecCommit(p) ==
  LET r == st[p] IN
  /\ r.pc = "alloc" /\ r.op = "execstack" /\ r.a * PGSIZE >= r.lim
  /\ \/ Go(p, Abandon(r)) /\ UNCHANGED <<cur, sz>>
     \/ /\ cur' = [cur EXCEPT ![p] = [r.new EXCEPT !.guard = {r.lim \div PGSIZE - 2}]]
        /\ sz' = [sz EXCEPT ![p] = r.nsz]
        /\ Go(p, [r EXCEPT !.pc = "freevm", !.dead = cur[p], !.new = NoSpace])
  /\ UNCHANGED <<free, state, parent, kstack>>

----------------------------------------------------------------------------
(* freevm, and those who call it *)

Mapped(s) == {a \in UserPages : s.map[a] # 0}

\* One kfree of freevm: a user page, and at the end the page tables and the
\* directory.
FreeVm(p) ==
  LET r == st[p]
      s == r.dead IN
  /\ r.pc = "freevm" /\ s # NoSpace
  /\ \/ \E first \in Mapped(s) :
          /\ \A a \in Mapped(s) : first <= a
          /\ Kfree(s.map[first])
          /\ Go(p, [r EXCEPT !.dead.map[first] = 0])
     \/ /\ Mapped(s) = {}
        /\ free' = free \union ({s.tab[t] : t \in Tables} \ {0}) \union {s.dir}
        /\ Go(p, [r EXCEPT !.dead = NoSpace])
  /\ UNCHANGED <<state, parent, kstack, cur, sz>>

\* Its return: copyuvm has failed (kfree(np->kstack)), or wait has reaped its
\* child, or exec ends.
FreeVmEnd(p) ==
  LET r == st[p]
      c == r.child IN
  /\ r.pc = "freevm" /\ r.dead = NoSpace
  /\ IF r.op \in {"fork", "wait"}
     THEN /\ Kfree(kstack[c])
          /\ kstack' = [kstack EXCEPT ![c] = 0]
          /\ state' = [state EXCEPT ![c] = "unused"]
     ELSE UNCHANGED <<free, kstack, state>>
  /\ Go(p, Idle)
  /\ UNCHANGED <<parent, cur, sz>>

\* wait: a zombie child's kernel stack is freed, then its page table.
Wait(p) ==
  /\ InUser(p)
  /\ \E c \in Procs :
       /\ state[c] = "zombie" /\ parent[c] = p /\ c # p
       /\ Go(p, [Idle EXCEPT !.pc = "freevm", !.op = "wait", !.dead = cur[c], !.child = c])
       /\ cur' = [cur EXCEPT ![c] = NoSpace] /\ sz' = [sz EXCEPT ![c] = 0]
       /\ state' = [state EXCEPT ![c] = "embryo"]
       /\ Kfree(kstack[c]) /\ kstack' = [kstack EXCEPT ![c] = 0]
  /\ UNCHANGED parent

\* exit: the children pass to initproc.
Exit(p) ==
  /\ state[p] = "live" /\ st[p].pc = "user" /\ p # InitProc
  /\ state' = [state EXCEPT ![p] = "zombie"]
  /\ parent' = [q \in Procs |-> IF parent[q] = p THEN InitProc ELSE parent[q]]
  /\ UNCHANGED <<free, kstack, cur, sz, st>>

Step(p) ==
  \/ Dealloc(p) \/ DeallocEnd(p) \/ SetupKvm(p) \/ Kmap(p) \/ Alloc(p) \/ Map(p)
  \/ GrowEnd(p) \/ ForkEnd(p) \/ ExecStack(p) \/ ExecCommit(p) \/ FreeVm(p) \/ FreeVmEnd(p)

Call(p) == Grow(p) \/ Shrink(p) \/ Exec(p) \/ Fork(p) \/ Wait(p) \/ Exit(p)

Next == \E p \in Procs : Step(p) \/ Call(p)

Spec == Init /\ [][Next]_vars

----------------------------------------------------------------------------
(* Properties *)

\* Shapes of the free list, the process table, the page tables and the calls.
Spaces == [dir : 0..NPAGES, tab : [Tables -> 0..NPAGES], map : [UserPages -> 0..NPAGES],
           guard : SUBSET UserPages]
Calls == [pc : PCs, op : {"none", "sbrk", "exec", "execstack", "fork", "wait"},
          new : Spaces, dead : Spaces, a : Nat, lim : Nat, nsz : Nat,
          mem : 0..NPAGES, child : Procs]
TypeOK ==
  /\ free \subseteq Pages
  /\ state \in [Procs -> {"unused", "embryo", "live", "zombie"}]
  /\ parent \in [Procs -> Procs] /\ kstack \in [Procs -> 0..NPAGES]
  /\ cur \in [Procs -> Spaces] /\ sz \in [Procs -> 0..KERNBASE]
  /\ st \in [Procs -> Calls]

(* The places that hold a page: five for each process, each seen as a page   *)
(* table (the kernel stack and mem are one with a directory only).           *)
Kinds == {"cur", "new", "dead", "kstack", "mem"}
Slots == {<<"dir", 0>>} \union ({"tab"} \X Tables) \union ({"map"} \X UserPages)
Places == Procs \X Kinds \X Slots
Space(p, k) ==
  CASE k = "cur" -> cur[p]
    [] k = "new" -> st[p].new
    [] k = "dead" -> st[p].dead
    [] k = "kstack" -> [NoSpace EXCEPT !.dir = kstack[p]]
    [] k = "mem" -> [NoSpace EXCEPT !.dir = st[p].mem]
At(s, x) ==
  IF x[1] = "dir" THEN s.dir ELSE IF x[1] = "tab" THEN s.tab[x[2]] ELSE s.map[x[2]]
Owners(pg) == {c \in Places : At(Space(c[1], c[2]), c[3]) = pg}

\* Every page is free or has exactly one owner: no error path of allocuvm,
\* copyuvm, exec, fork or wait loses a page, frees one twice or shares one.
PagesConserved ==
  \A pg \in Pages : Cardinality(Owners(pg)) = IF pg \in free THEN 0 ELSE 1

\* The pages mapped for a process are those below its size, whatever exec,
\* fork and sbrk of any process are doing; only a sbrk that takes the size to
\* 0 leaves the size of the process and no page (growproc, proc.c:204).  A
\* page without PTE_U is exec's guard page, never one that sbrk added later.
SizeCovered ==
  \A p \in Procs : state[p] \in {"live", "zombie"} /\ (st[p].pc # "user" => st[p].op # "sbrk") =>
    /\ Mapped(cur[p]) = {} \/ Mapped(cur[p]) = {a \in UserPages : a < PGROUNDUP(sz[p])}
    /\ cur[p].guard \subseteq Mapped(cur[p])

\* Sizes and mappings agree over well-typed page tables.
SpacesSound == TypeOK /\ SizeCovered
============================================================================
