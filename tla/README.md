# Verification of the xv6 kernel with priority scheduling

The repository is an xv6 (x86, multiprocessor) whose round-robin scheduler has
been replaced by a priority scheduler: every process has a *priority*, every
quantum adds the priority to the process's *accumulator*, and the process with
the least accumulator runs next.  The queues the scheduler uses are written in
C++ (`ass1ds.cpp`) and are reached from C through `schedulinginterface.h`.  The
system calls `detach` and `priority` were added, and `exit` and `wait` carry a
status.

This directory holds TLA+ models of the kernel's subsystems and of the shell, TLC
configurations that check them on small instances, and TLAPS proofs.

    tlc -workers 2 -config ProcTable_sched.cfg MCProcTable    # a run
    tlapm ProcTableProof.tla                                  # a proof

`PROJECT.json` lists the runs, the source lines every definition stands for, the
hazards the properties are aimed at, and for each property a mutant, a small
change of the code's behaviour (defined next to the original) that the property
catches.

## 1. Inventory

| Component | State | Operations | Hard behaviour | What makes it correct |
|---|---|---|---|---|
| Process table (`proc.c`, `sysproc.c`, `trap.c`) | `ptable.proc[NPROC]`: state, pid, parent, chan, killed, priority, accumulator; `nextpid`; `ptable.lock` | fork, exit, wait, kill, sleep, wakeup, detach, yield, trap-time exit of killed processes | several CPUs; the lock passes from scheduler to process; fork builds a slot without the lock; wakeups and kills that may get lost | unique pids, no orphans, every exited child is noticed, killed processes do not wait, the lock is always released |
| Priority scheduler (`proc.c`) | `pq`, `rpholder`, `cpu->proc`, accumulators | Priority_Scheduler, sched, yield, get_min, priority | stale entries in `pq`; puts that fail because the link pool is empty | nobody runs on two CPUs; `rpholder` is the set of running processes; nobody RUNNABLE drops out of `pq` |
| Scheduling structures (`ass1ds.cpp`) | links and tree nodes from two fixed pools, a list per key, the round-robin list, the holder's list | put, extractMin, extractProc, getMinAccumulator, enqueue, dequeue, add, remove, switches of policy | pointer surgery, nodes recycled with stale fields, failure between two allocations | pools conserved, tree ordered, `last` right, behaves as ordered queues |
| Log (`log.c`) | in-memory header, outstanding, committing; log and home blocks on disk | begin_op, log_write, end_op, commit, recovery | a crash at any write, recovery that crashes, space reservation, tests made without the lock | committed transactions are atomic and durable; no overflow; begin_op's sleepers are woken |
| Pipes (`pipe.c`, `file.c`) | ring buffer, nread, nwrite, two open flags | pipewrite, piperead, pipeclose | wrap-around, several readers and writers, close and kill during a sleep | FIFO, no lost wakeup, EOF only at the end, freed after the last use |
| Buffer cache, disk driver, sleep locks (`bio.c`, `ide.c`, `sleeplock.c`) | buffers with refcnt and flags in LRU order, request queue | bread, bwrite, brelse, iderw, ideintr | interrupt handler against processes; NBUF buffers for LOGSIZE dirty ones | one buffer per block; every request completes |
| Spin locks (`spinlock.c`) | locked, cpu, ncli, intena | acquire, release, pushcli, popcli | interrupts and nesting | mutual exclusion; interrupts restored exactly at the outermost release |
| Inodes, directories, block bitmap (`fs.c`) | inode cache with ref, nlink, valid; bitmap | iget, ilock, iput, bmap, balloc, itrunc, dirlink, namex | last iput against iget; link counts | one cache entry per inode; freed when nobody refers to it |
| File table (`file.c`, `sysfile.c`) | `ftable` with ref counts; descriptors | open, dup, close, read, write, link, unlink | counts over fork and exit; unwinding of failed calls | freed exactly at the last close |
| Memory (`kalloc.c`, `vm.c`), exec | free page list; page tables | kalloc, kfree, allocuvm, copyuvm, exec | failure half way | pages neither leaked nor freed twice |
| Console (`console.c`, `kbd.c`, `uart.c`) | input ring with r, w, e | consoleintr, consoleread, consolewrite | interrupt against reader; full ring | lines delivered once, in order |
| Clock (`trap.c`, `sysproc.c`) | ticks | timer interrupt, sys_sleep | wrap-around, unsigned comparison | nobody sleeps too short or for ever |
| Shell and init (`sh.c`, `init.c`) | the command tree, a tree of processes with descriptors 0 and 1 and pipe ends | parsecmd, runcmd, fork1, the main loop; init's loop for orphans | who holds which pipe end, waits that take any child, fork that fails half way | a line means what the grammar says; lists run in order; no line hangs |
| Boot, interrupt controllers, trap entry, context switch | hardware registers | run once, or register level assembly | | not modelled |
| Other user programs (`umalloc.c`, ...) | free list of malloc | | | clients of the system calls; not modelled |

Interactions.  Every subsystem sleeps and wakes through `proc.c`.  `proc.c` calls
the queues only with `ptable.lock` held (an exception is `userinit`, before
the other CPUs run), so a queue operation is one step of the kernel.  The
file system calls `begin_op`/`end_op` around each system call and `log_write`
instead of `bwrite`; the log calls the buffer cache.  `exit` closes files, which
may close a pipe or commit a transaction.

Dead or foreign parts: `Round_Robin_Scheduler`, `rrq`, the policy switches and
`extractProc` are compiled but not called from `proc.c` (the data structure
model covers them all the same); `__moddi3` is there for the compiler and nothing
calls it; `update_fields`, called by `trap.c`, is defined
nowhere in the repository; `test.c` is an old copy of `proc.c`; `*.asm`, `*.o`,
`*.d`, `*.rej` and `zoharit.patch` are build products and leftovers.

## 2. Plan

Done:

1. `SchedQueues`, the queues as sequences, a library of operators.
2. `ProcTable`, process table and scheduler over `SchedQueues`, and the proofs about both
   (`ProcTableProof`).
3. `SchedDS` with `SchedAbs`: the pointer structures implement `SchedQueues`.
4. `Log` with `LogAbs`, and its proofs (`LogProof`).
5. `Pipe` with `PipeAbs`, and its proofs (`PipeProof`, over the arithmetic of rings and the lemmas on
   queues in `RingProof`).
6. `Inodes`: the inode cache, directories and the calls with paths.
7. `Buffers`: buffer cache, sleep locks and disk driver, and its proofs (`BuffersProof`).
8. `Memory`: pages, address spaces, sbrk, fork, exec, wait, and its proofs (`MemoryProof`).
9. `Devices`, the composition of `Console` (which implements `LineAbs`) and `Clock` over
   `Traps`, and its proofs (`DevicesProof`).
10. `Files` over `FileBlocks`: descriptors, the file table, blocks and bytes, and its proofs (`FilesProof`).
11. `Shell` over `ShellParse`.

Left, in this order:

12. Proofs about `Inodes` (`InodesSound`, `NoDangling`).
13. Composition of `Inodes` with `Files` and `Log`: a crash between the steps
    of a path call.
14. Spin locks and interrupt nesting; the exit status in `ProcTable`; `umalloc`.

## 3. The modules

### SchedQueues

`pq`, `rrq` and `rpholder` as a record: `pq` is a sequence of entries
(process, key) ordered by key and, for one key, by arrival; `rp` and `rrq` are sequences
of processes; `free` counts the links left in the pool that all three share.
A tree node is taken only together with the first link of its key, and there are
as many nodes as links, so the node pool is never the scarce one.  `GetMin` is
`get_min` of `proc.c`, the accumulator a new or woken process starts with.  The
lemmas say what each operator does to the type, the pool, the order and the
set of processes.

### ProcTable, ProcTableProof, MCProcTable

One CPU of the model is one CPU of the machine; a process is a slot of
`ptable.proc` and slot 1 is init.  Variables are the fields of `struct proc` that
control anything, `cpu[c]` (the process on CPU c or 0), the lock's
holder, the queues `sq`, and two pieces of control state: `pc[p]`, where a
process is in the kernel, and `np[p]`, the slot that its fork is building.
`waking` is the channel of a wakeup whose loop is running.

| Code | Actions |
|---|---|
| `Priority_Scheduler` | `Dispatch`, `DropStale` (an entry whose process is not RUNNABLE) |
| `yield`, from the timer at any time outside a critical section | `Yield` |
| `trap`'s tests of `killed`, exceptions | `Syscall`, `Sysret`, `Fault` |
| `allocproc`, `fork` | `AllocProc`, `AllocFull`, `ForkFail`, `ForkFinish`: the slot is built between two critical sections |
| `wait` | `WaitEnter`, `WaitReap`, `WaitReturn`, `WaitSleep` |
| `sleep`, `wakeup`, `wakeup1` | `SleepOn`, `Wakeup`, `WakeOne`, `WakeDone`: the loop wakes one process per step, in slot order, under the lock |
| `exit` | `ExitBegin`, `ExitLock`, `ExitReparent`, `ExitZombie` |
| `kill`, `detach`, `priority` | `Kill`, `Detach`, `Priority` |

`rpholder.remove` is called twice on some paths; the second call is a no-op
and part of the same action.  A put that finds the pool empty returns false and
is ignored, as in the code.  The memory of a process is in `Memory` and
its descriptors are in `Files`; the exit status and `procdump` are left out.  Killing init is left out, as its exit panics.
Data written without the lock by `allocproc` and `fork` is modelled with
the interleavings between its critical sections, which are the only points where
another CPU can see the difference.

### SchedAbs, SchedDS, MCSchedDS

`SchedDS` models `ass1ds.cpp` pointer by pointer: `Link.next`, the first and last
pointers of every list, the nodes with key, list, parent, left and right, and
the two free lists.  Each function of the interface is an action, with its return
value in `ret`.  The refinement to `SchedAbs`, in which the same functions work on the
sequences of `SchedQueues`, is what allows `ProcTable` to use the sequences.
The accumulators of the processes change between the calls (`SetAcc`), as the
scheduler does it.  A freed link or node keeps its old process or key in the
code; nothing reads these before they are overwritten, and the model clears them.

### LogAbs, Log, LogProof, MCLog

Block numbers count from `log.start`: 0 is the header, `1..NLOG-1` the log, and
the file system's blocks follow immediately, as `mkfs` lays them out, so that a
transaction that outgrows the log writes into them.  One `bwrite` is one step and
atomic (a block is a disk sector).  The buffer cache is the function of what `bread` returns, and
the set of dirty blocks; `Evict` may recycle any buffer that is neither dirty nor locked.
`CrashReboot` may come at any step, also during recovery or after a panic, and
keeps the disk only.  `log_write` is two actions, because it tests the size of
the transaction before it takes the lock.  `OpBlocks` is the number of
blocks that a system call really writes.  It is less than the `MAXOPBLOCKS` reserved for the call: `filewrite`
cuts long writes, and with one bitmap block none comes near 10.  This is part of `RoomAssumption`, together with
`LOGSIZE <= NLOG`, since `mkfs` makes the log as long as its header (`nlog = LOGSIZE`) and so leaves one block less
for data than `LOGSIZE`.  Without the difference, a call that has used its whole
reservation and logs a block a second time would find the log full and panic, because `log_write` tests the size before it looks for
the block.
The abstract `LogAbs` has durable and volatile blocks, and a commit that is a single step.

### PipeAbs, Pipe, PipeProof

The steps of `pipewrite` and `piperead` are one per byte, with the spin lock as
a variable; the test of `killed` and the call of `sleep` are two steps, since `kill` needs only
`ptable.lock`.  Sleepers are woken to the point after `sleep` and compete for the
lock.  `WRAP` stands for 2^32 and PIPESIZE divides it, as in the code.  Descriptors are sets of processes; a
process may have both ends.  A process is not in two calls at a time, so it
closes only when idle.  `PipeAbs` is a bounded FIFO.

### Inodes, MCInodes

`dinode` and `dir` are the disk: type and link count of every inode, and for a
directory the function from names to inode numbers (0: no entry), which stands for
the array of `struct dirent`.  `icache` has the slots with `ref`, `valid` and the cached
fields, `lock` the sleep lock of each slot, and `st[p]` the local variables of the
call a process is in: each pointer to an inode is a field, so that
`RefCounts` can compare `ref` with the pointers there are.

A step runs from one `ilock`, or one acquisition of `icache.lock`, to the next.
`Namex` is one round of the loop in `namex`; `Create`, `Exists`, `Fill` and `Made` are the
parts of `create` (and so of open with O_CREATE, mkdir and mknod); `Unlink` and
`Unlinked`, `Link`, `LinkParent` and `Bad`, `Open`, `Chdir` and `Close` are the
others.  `iput` is three steps, `IputLock`, `IputFree` and `IputDrop`, because it gives up
`icache.lock` between the test of `ref` and the freeing.  A panic of the code is `Panic`, after
which nothing moves.  A call that waits for a lock it holds itself waits for ever.  Names are short and never truncated; the device number is always that of the
root disk; transactions are in `Log`.  A process has at most one open file here.  The run explores calls on
a directory `a`, the file `a/b`, a second name for it, and links to the names `a/.` and `a/..`, which `dirlink` finds; `mknod` is `create` with another type and
is not among them.

### Buffers, BuffersProof, MCBuffers

The fields of `struct buf` as functions, `lru` the list of `bcache` from `head.next` on, `lock` the sleep lock of
each buffer, `idequeue`, and the disk.  `BgetHit`, `BgetRecycle` and `BgetPanic` are `bget` under `bcache.lock`,
which ends before `acquiresleep`; `FirstFree` is the buffer at which the loop from `head.prev`
stops, `MoveToFront` what `brelse` does to the list; `AcquireSleep` either takes the lock or goes to
sleep; `Iderw` appends and starts the disk; `IdeIntr` answers the head and starts the next,
and reads of the blocks in `Written` may fail, which `ideintr` ignores; writes do not fail.  `Store`, in
`Bwrite` and `LogWrite`, is the caller that changes the data; `LogWrite` pins the
buffer as `log_write` does, at most `MaxDirty` blocks at a time.  `latest` is history.

A process has up to two buffers locked: `buf[p]` is the one it works on, or waits for, and `other[p]` the one it
keeps meanwhile; `Turn` exchanges them.  `Bread` is when it may call `bread`.  The second
block comes after the first in the order of `Rank`, which is the order the callers keep: `write_log` and `install_trans` read a
home block with a log block locked (`log.c:75`, `log.c:183`), `bmap` (in `balloc` and its `bzero`) and `itrunc` (in `bfree`) a bitmap or data
block with an indirect block locked (`fs.c:390`, `fs.c:423`).  No caller locks three.  A block's rank is constant here; in the code a
block becomes an indirect block, or ceases to be one, only while nobody has it locked.  A panic of `bget` keeps
`bcache.lock`, so nobody takes a buffer or gives one back afterwards; processes that have one may still work with it.

### Memory, MemoryProof

Every page has a number, `free` is the free list, and an address space is its page
directory, its page tables, the user pages they map and the set of those without PTE_U.
A step is one `kalloc` or one `kfree`, so that every other process can take the last page in between.
`SetupKvm` and `Kmap` are `setupkvm`, `Alloc`, `Map` and `NoMemory` the loops of `allocuvm` and `copyuvm` with
their `mappages`, `Dealloc` is `deallocuvm`, `FreeVm` `freevm`; `ExecStack` and `ExecCommit` the rest of
`exec`, `ForkEnd` and `GrowEnd` of their callers.  `NoMemory` goes where the code goes: `deallocuvm` for
`allocuvm`, `freevm` of the child's pages for `copyuvm`, `freevm` of the new page table for `exec`, which
also ends there when its segment reaches `KERNBASE`.  A program has one segment; the bytes in pages
are not modelled.  Addresses wrap at `WORD`.  A process whose pages are gone does not come back to
user mode, so it makes no more calls.

### Traps, Console, Clock, Devices, LineAbs, DevicesProof

`Traps` has what a blocking system call needs of `trap.c` and `proc.c`: where each process is, `killed`, kill,
wakeup and the exit on the way to user mode.  As in `Pipe`, the test of `killed` and the sleep are two steps, in `consoleread`
(`ReadEmpty`, `ReadSleep`) and in `sys_sleep` (`SleepLoop`, `SleepSleep`): the reader keeps `cons.lock` and the sleeper `tickslock` in
between, but `kill` takes neither.  `missed` is history: the processes whose kill came in that gap.  `Console` adds the ring with its three
indices modulo `WORD`.  `ConsoleIntr` is one character of `consoleintr`, whole;
`consoleread` is one step per character and keeps `cons.lock` in between.  `Clock` adds `ticks`
modulo `TICKS` and `sys_sleep`.  `Devices` is both together over the same
processes.  `LineAbs` is a line editor and a queue of finished lines without a ring.
`^P`, output and the translation of scan codes are left out; `passed` is history.

### FileBlocks, Files, MCFiles

`FileBlocks` is the part of `fs.c` that works below an inode lock: bitmap, direct and
indirect block numbers, `bmap`, `itrunc`, `readi`, `writei`.  A byte written to a
file is the pair of the file and the offset where it belongs, so that `FileContents`
needs no second copy; a freed block holds `Garbage`.  `itrunc` frees one block per step,
`writei` writes one block per step, and other inodes' steps come in between.

`Files` adds the file table, the descriptors and the calls.  `todo[p]` is what a call still has
to `fileclose`, `pipeclose` and `iput`, in the code's order: `fileclose` (`FileClose`) frees the structure in one
step, under `ftable.lock`, and closes the end of the pipe (`PipeClose`) or puts the inode (`Iput`) in later ones, from the copy it
made (`GivesBack`).  In between the end is open although no file has it, and the structure may be in use again.  Failing
`filealloc`, `fdalloc` and `pipealloc` go through the same list.  `iput` has three parts, as in the code: the test
under the inode's lock (`Iput`), the blocks it frees under that lock (`Itrunc`), and the decrement of `ref` after it has released
the lock (`IputDrop`).  `used` is the set of inodes whose type is not 0; `exit` closes one file after the other.  An inode has one name or
none: paths are in `Inodes`.  `Open` does not hold the inode lock between its steps, which
allows more interleavings than the code has.  The data of pipes is in `Pipe`.

### ShellParse, Shell, MCShell

`ShellParse` has the functions of the parser with their names, over tokens instead of
characters (`>` stands for `>>` as well), and, independent of them, `Meaning`:
the set of trees that the grammar gives a line.  `Shell` runs one line: `proc` is the
tree of processes with their descriptors 0 and 1 and the ends `p[0]`, `p[1]` they hold.  Each branch of
`runcmd` is an action, split at every system call that others can see; `Fork1`
may fail at any time, for want of a slot or of memory, and then panics; exec, open and pipe may fail at any time.  `halved` is history: the
second fork of a pipe has failed.  Programs read
their input to its end when it is a pipe, and exit.  `cd`, end of input and `nulterminate`
are left out.

## 4. The runs

| Run | Instance | Checks |
|---|---|---|
| `proctable_life` | 3 CPUs, 3 slots, 6 links, one sleep channel, pids to 5 | `PidUnique`, `ParentAlive`, `ZombieNoticed`, `KilledNotInWait`, `EmbryoOwned` |
| `proctable_sched` | 2 CPUs, 2 slots, 3 links, one sleep channel, accumulators to 5, priorities 0 and 5 | `QueuesOK` (types, link pool, order), `OneCpuPerProc`, `HeldRunning`, `NoSilentLoss`, `LockReleased` |
| `schedds` | 2 processes, 3 keys, 3 links, 3 nodes | `HeapSound` (`LinksDisjoint`, `TreeShape`, `LastLink`), `ImplementsQueues` |
| `log_safe` | log of 4 blocks, 3 home blocks; 2 processes that write any of them, 2 crashes, or 3 processes that write one of them, 1 crash | `LogSound` (`NoPanic`, `CleanOnDisk`), `AtomicDurable`, `SleeperWoken` |
| `pipe_safe` | 3 processes (a reader, a writer, one with both ends), 2 byte values, ring of 2, counters modulo 4, calls of up to 3 bytes | `PipeSound` (`SleepJustified`, `FreedUnused`), `FifoQueue`, `EofMeansClosed` |
| `inodes_tree` | 2 processes, 3 inodes, 3 cache slots, 2 names; the processes of a behaviour make 6 calls around `chdir` or 9 around `link` | `InodesSound` (`RefCounts`, `CacheCoherent`), `NoDangling`, `NoPanic`, `OnlyPutCycles` |
| `buffers_disk` | 4 blocks (one of the log, one indirect, two others), 2 buffers, 1 pinned block; 2 processes that read and write one block of 2 values, with failing reads, or 3 that read | `BuffersSound` (`OneBuffer`, `RequestsSound`), `NoLostUpdate`, `EnoughBuffers`, `SleepersWoken` |
| `memory_pages` | 2 processes, 12 pages of 2 addresses, 2 pages per page table, 6 user pages | `SpacesSound` (`SizeCovered`), `PagesConserved` |
| `devices_run` | 2 processes, ring of 2 with indices modulo 4, reads of 3, ticks modulo 3, sleeps of 2 | `DevicesSound` (`ReaderSleepsOnEmpty`, `SleeperNotOverdue`), `LinesInOrder`, `SleepsLongEnough`, `KilledLeaves` |
| `files_fd` | 2 processes, 2 inodes, 3 files, 2 descriptors, 4 blocks of 2 bytes, 1 direct block, writes of 6 in pieces of 3, one pipe | `CountsExact` (`FilesCounted`, `ObjectsCounted`), `BlocksOwned`, `FileContents` |
| `shell_lines` | every line of up to 4 tokens and 9 longer ones, 6 processes, MAXARGS 3 | `ProcessesSound` (`Wired`), `ParsesRight`, `ForegroundDone`, `ListOrder`, `EveryoneEnds` |
| `proctable_lost` | 1 CPU, 2 slots, 4 links | `RunnableQueued`, which is violated |

`proctable_lost` ends in a counterexample to what a comment says of `pq`, "This structure holds the RUNNABLE
processes".  `yield` puts a process into `pq` and `Priority_Scheduler` puts it once
more.  Stale entries use up the links; the ignored failure of a later put leaves a
RUNNABLE process in no queue.

The models show some more behaviour that a reader of the code may not expect.  No
property excludes it, and the properties are stated so that they say exactly what remains true:

* An entry of `pq` keeps the accumulator of the time of its put, so a process may run before one with a
  smaller accumulator, against `schedulinginterface.h:29` (`proc.c:415`).
* `detach` of a child that has already exited does not wake init, which may sleep in `wait` with an
  exited child (`proc.c:659`); `ZombieNoticed` excepts init.
* `kill` of a pid that an UNUSED slot carries, 0 for instance, marks the slot, and `allocproc` does not clear the
  mark (`proc.c:597`).
* Two `log_write`s may pass the size test together, before `log.lock` (`log.c:218`).  This matters only for
  calls that write all they reserve, which those of this file system do not (`OpBlocks`).
* A kill between the test of `killed` and `sleep` wakes nobody: in a pipe call (`pipe.c:85`), and in `consoleread` (`console.c:246-251`), where
  the killed reader sleeps until somebody finishes a line.  `DevicesSound` and `KilledLeaves` except such a process (`missed`).  In `sys_sleep` the next tick wakes it.
* A killed writer that finds the pipe full leaves without waking the readers (`pipe.c:85`), who may be
  asleep since before it wrote; `SleepJustified` excepts readers when a writer has been killed.
* `create` and `unlink` put the parent with the child locked and wait for the parent's
  lock in `iput`, while a lookup waits the other way round (`sysfile.c:281`, `sysfile.c:225`).  `link(x, "d/..")` finds the
  entry, and `dirlink` puts the parent of `d` with `d` locked (`fs.c:560`, from `sysfile.c:146`), while `unlink("d")` has the parent and waits
  for `d`; `link(x, "d/.")` waits for a lock of its own process.  `OnlyPutCycles` shows that every circle contains one of these `iput`s.
* `create` and `link` may enter a name into a directory that has been removed since
  it was looked up; the inode is never freed (`sysfile.c:250`).
* The `..` of a removed directory keeps naming its parent, which is not counted (`sysfile.c:222`).  A process whose
  current directory and then whose parent are unlinked reaches the freed parent by `..` and
  `ilock` panics (`fs.c:311`).  `NoPanic` holds for the paths of `inodes_tree`, which do not go through such
  a `..`; it is not claimed for all paths.
* Two `iput`s of an inode without a name may both read `ref` as 2 before either decrements it; then neither frees the
  inode, although "that was the last reference" (`fs.c:328`) holds of the second (`fs.c:338`).  The counts stay exact, which is
  what `ObjectsCounted` says.
* `sbrk` by minus the whole size frees the pages, and `growproc` takes the new size 0 for an error
  (`proc.c:204`); `SizeCovered` excepts this.
* A failed disk read is not reported (`ide.c:118`); `NoLostUpdate` excepts such a buffer.
* `NBUF` equals `LOGSIZE` (`param.h:13-14`): a transaction may pin 29 of the 30 buffers, and a process may need two at once; then
  `bget` panics (`bio.c:92`).  The run reaches the panic.  `EnoughBuffers` shows that it happens only when all
  buffers but `MaxDirty` are in the hands of processes, so never because a reference or a pin was forgotten; `BgetNeverPanics` has the number that would always do.
* When the second fork of a pipe fails, the shell's child exits and leaves the left side behind (`sh.c:135`): nobody
  waits for it, and in `a | b ; c` the program `c` may start while `a` runs.
  `ForegroundDone` and `ListOrder` except lines on which this happened (`halved`), and no other failure.

Bounds.  The counters that would make a model infinite are bounded by constants:
`MaxPid` (fork is not taken when no pid is left), `MinAcc`/`MaxAcc`
(a yield that would leave the interval is not taken), `MaxCrash` (crashes), `MaxN` (bytes
per call), `MaxDirty` (pinned buffers), `Written` (blocks that change), and `Calls`, `Mixes` and `Lines` (which calls and lines
are explored).  They are chosen so that the interesting cases happen: a slot is used again
after its process was reaped, with stale entries of the old one in `pq`; a parent exits with
a child of each state; the link pool runs empty; every shape of a tree of three nodes occurs,
with the minimum at and below the root and with and without a right subtree; a second crash falls
into the recovery from the first; the pipe's counters wrap several times and two processes
sleep on the same side; an inode is unlinked, freed and its number and slot are used again while another process
holds a path through it; blocks compete for buffers that are locked or pinned, a process waits in `acquiresleep` with another buffer locked,
and `bget` finds none; one process sleeps in `begin_op` while two calls are under way and one of them ends; memory runs out at every
`kalloc` of fork, exec and sbrk; the input ring is full within a line; files reach into their indirect block
and the disk is full; the tables of files and descriptors are full at each step of open and pipe; a shell line needs more
processes than there are, and any of its forks fails.  `MCLog` and `MCBuffers` choose between two workloads at the start, many processes
that do little and fewer that do more; a run explores both.  In `proctable_life` no accumulator may grow, so nobody is preempted; instead
every process has a CPU of its own, which gives every interleaving of their steps.  Preemption, with the
stale entries it leaves, is in `proctable_sched`, which has one link less than
the code's two per slot so that the pool is empty early and often; `proctable_lost` has the code's
number.  The CPUs are interchangeable (symmetry in `proctable_life`), and so are
the links and nodes, because the initial states contain the free lists in every order.  No
symmetry is used where liveness is checked.

Deadlock is checked except in `Pipe` (all processes may have closed their ends), `Inodes` (the
circle named above, and a panic), `Files` (the panic on a full disk) and `Shell` (the line
is over).

Fairness.
* `ProcTable`: weak fairness of the steps inside a critical section of `ptable.lock`.
  Its holder runs with interrupts off and cannot be descheduled.  Nothing is assumed about
  the scheduling of processes.
* `Log`: weak fairness of the disk steps of commit and recovery (the disk answers) and of the steps of `log_write`;
  strong fairness of a call's `end_op`, because a system call makes finitely many
  updates.  Strong, since a call may go on with another update instead at each
  point.  Nothing is assumed about `begin_op`.
* `Buffers`: weak fairness of a process's steps and of the disk interrupt (the disk answers).  Strong fairness of `releasesleep`, and of that of a
  process's last buffer, since a holder writes, and reads second blocks, a bounded number of times (the loops of
  `log.c`, `balloc` and `itrunc` end); a holder that waits for a second buffer does not release the first, so this does not assume the deadlock
  away.  Strong fairness of taking a sleep lock: `sleeplock.c` keeps no queue, and a process could find the lock taken
  each time it looks; that it gets the lock in the end is an assumption about the scheduling of the competitors.
* `Devices`: strong fairness of the clock and of a process inside the kernel or on its way out, which is
  scheduled again and again; strong, because `cons.lock` or `tickslock` may be taken in between, and whoever wants a spin lock gets it in the end.  `Tick` has a bound: a process whose
  time is over runs before `ticks` has gone round once more.
* `Shell`: weak fairness of every process of the line, of the shell and of init.
* None in `Pipe`, `Inodes`, `Memory`, `Files` and `SchedDS`, where only safety is checked.

## 5. The theorems

Every theorem is about all values of the constants that satisfy the assumptions of the module; the runs of section 4
evaluate these assumptions on their instances.

| Module | Theorem | States |
|---|---|---|
| `ProcTableProof` | `SchedSafety` | the inductive invariant `SchedInv` |
| | `TypeCorrect` | `TypeOK` |
| | `NoDoubleRun` | `OneCpuPerProc` |
| | `HolderExact` | `HeldRunning` |
| | `QueuesSound` | `QueuesOK`: types, `LinkPool` and `QueueSorted` |
| | `EmbryoSafe` | `EmbryoOwned` |
| | `LossOnlyByPut` | `NoSilentLoss` |
| | `PidsUnique` | `PidUnique` |
| | `FamilySafety` | the inductive invariant `FamilyInv` |
| | `NoOrphans`, `ZombiesNoticed`, `KillsNoticed` | `ParentAlive`, `ZombieNoticed`, `KilledNotInWait` |
| `PipeProof` | `PipeInvariant`, `PipeSafety` | the inductive invariant `PipeInv`, and `PipeSound` |
| | `PipeEof` | `EofMeansClosed` |
| | `PipeIsFifo` | `FifoQueue`: `Pipe` implements `PipeAbs` |
| `DevicesProof` | `DevicesInvariant`, `DevicesSafety` | the inductive invariant `DevicesInv`, and `DevicesSound` |
| | `SleepTakesItsTime` | `SleepsLongEnough` |
| | `InputIsLines` | `LinesInOrder`: `Console` implements `LineAbs` |
| `BuffersProof` | `BuffersInvariant`, `BuffersSafety` | the inductive invariant `BuffersInv`, and `BuffersSound` |
| | `UpdatesKept`, `BgetFinds` | `NoLostUpdate`, `EnoughBuffers` |
| | `BgetNeverPanics` | no panic of `bget` when there are more buffers than `MaxDirty` and two for each process |
| `LogProof` | `LogInvariant`, `LogSafety` | the inductive invariant `LogInv`, and `LogSound` |
| | `LogIsAtomic` | `AtomicDurable`: `Log` implements `LogAbs` |
| `MemoryProof` | `MemoryInvariant`, `MemorySafety` | the inductive invariant `MemoryInv`, and `SpacesSound` |
| | `PagesKept` | `PagesConserved` |
| `FilesProof` | `FilesInvariant`, `FilesCountsExact` | the inductive invariant `FilesInv`, and `CountsExact` |
| | `BlocksKept`, `ContentsRight` | `BlocksOwned`, `FileContents` |

**Process table** (`ProcTableAssumption`: at least one slot, one link and one pid, integer
priorities, an accumulator range around 0, and `NoCpu` is not a CPU).
`SchedInv` is the conjunction of `TypeOK`, `LinkPool`, `QueueSorted`, `HeldRunning`,
`OneCpuPerProc`, `EmbryoOwned` and `DeadPc`.  None of the interesting parts is
inductive alone.  That `Dispatch` does not run a process twice needs the
equality of RUNNING and "on a CPU"; that `rpholder.add` never fails needs that
`extractMin` has just given a link back (`LinkPool`); that
removing from `rpholder` makes the process disappear from it needs that it was there once only;
that a slot in `pq` that is reused by fork does no harm needs `EmbryoOwned`, which
in turn needs that a process in fork is alive (`DeadPc`).  `PidsUnique` has an
invariant of its own (`PidInv`: all pids are below `nextpid`).  `FamilyInv` adds to the three properties of parents and
children that init does not exit, that a process between its first step of
`exit` under the lock and its last keeps the lock, and that its parent is
no longer asleep when the wakeup is over.  The first part of the module has the lemmas on the queue operators: type, pool
conservation, order, and the set of queued processes after a put, an extraction, an add or a remove.

**Pipe** (`PipeAssumption`: the size divides the range of the counters).  Full and empty are comparisons of counters
that wrap; `RingProof` has the arithmetic: the distance of two counters
modulo `WRAP`, and that the cell of a counter modulo `PIPESIZE` is the same before and after the wrap.  The invariant says who
holds `p->lock`, that the flags follow the descriptors, that the distance is at most `PIPESIZE`, and that
a sleeper has a reason or the holder of the lock is about to wake it.  The refinement
maps the ring to the sequence of its cells between the counters.

**Devices** (`INPUT_BUF` divides `WORD`; a sleep is shorter than the range of `ticks`).  The invariant orders the three
indices, keeps newlines out of the line under edit (so that `^U` stops where the line begins), and
relates `ticks - ticks0` to the number of ticks since the call.  It says who holds `cons.lock` between a test of `killed` and the sleep,
so that no line is finished in between.

**Buffers** (finitely many processes, at least one buffer).  `BuffersInv` says that each buffer's count is the
number of processes that have it, that its lock belongs to the process between `acquiresleep` and `releasesleep`, that a
process asleep in `iderw` is exactly one whose buffer is queued and not synced, and that a dirty buffer holds the latest value,
which the disk has from the moment its write has started.  A process has two buffers (`Has`), and a buffer that one process works on is nobody
else's, also not as the other one (`Alone`).  `BgetFinds` adds what happens at a panic: a buffer that cannot be recycled has a
user or is pinned (`NoRoom`), and afterwards nobody takes a buffer or gives one back (`HandsStay`).

**Log** (`LogAssumption`, and `RoomAssumption`, explained in section 3).  The part of `LogInv` that keeps `log_write` from panicking is
`Reserve`: the entries in the transaction and the entries reserved and not yet used by the calls under way
fit in `LOGSIZE`.  An entry counts as used when the block the call wrote is in the transaction, so that absorption only helps.  The other parts
say what each phase of the commit has written so far (`Copied`), that the header on disk is empty outside of
an installation, and that a call has logged all it wrote but the buffer it holds.  In the
refinement a crash would leave `Recovered`; `WriteHead` is the one step that changes it, and makes it equal to what the
running system sees, because the log blocks have the transaction and everything else is clean.

**Memory** (`MemoryAssumption`: positive sizes, the kernel begins where a page table ends, user addresses are at most
half of the address range, as in `memlayout.h`, and a segment of `exec` ends within the range).  A page can be in five places of each
process: its page table, the one a call builds, the one `freevm` takes apart, the
kernel stack, and the page a loop has allocated and not mapped yet; a slot of one of these is a cell.  `MemoryInv` has four parts.  `Owned` says that
each page is free or in one cell; its lemmas take a page, release some, move one and exchange two page tables, and each action is
one or two of them.  `Shape` says what a call may hold at each step, so that overwriting a field loses no page.
`Fits` says how far each loop has come: the pages mapped are those below
`a`, which is why the cell a loop fills is empty, why `deallocuvm` after a failure frees what was
added and no more, and why `ExecCommit`'s guard page is mapped.  `Family` says that the embryo of a `fork` or a `wait` is nobody
else's and has no page table, so that `ForkEnd` overwrites none.

**Files** (`BlocksAssumption`, `FilesAssumption`: positive sizes, finitely many processes, every write has a byte).  `FilesInv` has
five parts.  `FilesCounted` and `ObjectsCounted` count places: a descriptor, an item of `todo`, a half-made `pipe` or `open`.  An
end of a pipe is open for one file, one half-made `pipe`, or one `fileclose` between `ftable.lock` and `pipeclose`;
every action changes at most three places of one process (`fork` all descriptors of a fresh one), and the lemmas `HoldersThree`, `CallersThree` and
`ForkKeeps` turn that into arithmetic on `ref`.  `Shape` says what a call holds at each step, `Locked` that an inode's lock belongs to a
writer or to the `iput` that saw the last reference of a nameless inode: nobody else can then reach the inode, so that `itrunc` takes no
block from under a reader.  `Owned` says that different pointers lead to different blocks and that these are the bitmap;
`itrunc` forgets the entries of the indirect block it has freed (`From`) although the block still lists them.  `OwnedTake` and
`OwnedRelease` give a block its first owner or take it away.  `Contents` has the bytes: those below
`size`, and, of a file being written, those the write has copied so far.  A copy changes one block, which no other pointer leads to; a
new block changes nobody's bytes because it was free.  That `size` is what the writes made it needs that the offset of an open file stays
where it is while a write of it holds the lock, and never passes the size.

The finiteness of the sets of processes is assumed where a count needs it.

Only model-checked:

* every liveness property (`SleeperWoken`, `SleepersWoken`, `KilledLeaves`, `LockReleased`, `EveryoneEnds`), as the prover has no
  rule for fairness;
* everything about `SchedDS`, `ShellParse` and `Shell`, whose lists, trees and parsers are recursive operators;
* `Inodes` (planned, see section 2).

## 6. Not modelled

* Boot, multiprocessor start, interrupt controllers, `swtch.S` and trap entry: register-level code
  with no state of its own; `ProcTable` models its effect.
* Spin locks and interrupt nesting: the modules take for granted that a spin lock excludes, and make a
  critical section one step.
* Failing disk writes: `ideintr` ignores them, and the block is then lost.
* `memide.c` (a RAM disk used by one make target) and the polling of the disk's registers.
* Console output, keyboard scan codes and the serial port.
* The contents of ELF files and of pages, the layout of arguments on a new stack, `fstat`, and the fetching of
  system call arguments.
* The exit status that `exit` hands to `wait`; `procdump`.
* Scheduling fairness between different priorities: the repository promises none
  (a process of priority 0 may starve the others).  Between equal priorities the accumulators grow without
  bound, which leaves fairness to a proof.
* User programs other than the shell and init, `umalloc` among them.
