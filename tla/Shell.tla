------------------------------- MODULE Shell --------------------------------
(***************************************************************************)
(* sh.c and init.c: the shell reads one line, a child parses and runs it,  *)
(* with a process for every side of a pipe, for a list's left side and for *)
(* a background command.  fork fails when the process table is full and,   *)
(* for want of memory, at any time; so do pipe, open and exec.  Programs   *)
(* read their input to its end, when that is a pipe, and exit.             *)
(***************************************************************************)
EXTENDS ShellParse, FiniteSets, FiniteSetsExt

CONSTANTS
  NPROC,   \* process table: 1 is the shell, init is outside
  Lines    \* the lines explored: sequences of tokens

INIT == 0
SH == 1
Pids == 1..NPROC
CONSOLE == 0
FILE == -1

VARIABLES
  proc,       \* the process table
  line,       \* the tokens in buf
  tree,       \* what parsecmd makes of them
  begun,      \* history: the words that were started as a program
  halved      \* history: the second fork of a pipe failed

vars == <<proc, line, tree, begun, halved>>

(* in and out are descriptors 0 and 1: the console, a file or the pipe made  *)
(* for the "|" at that position.  held are p[0] and p[1] of runcmd.          *)
Free == [st |-> "free", cmd |-> Syntax, parent |-> INIT, in |-> CONSOLE, out |-> CONSOLE,
         held |-> {}, bg |-> FALSE]

Numbered(s) == [k \in 1..Len(s) |-> <<s[k], k>>]

Init ==
  /\ line \in Lines /\ tree = parsecmd(Numbered(line))
  /\ proc = [p \in Pids |-> IF p = SH THEN [Free EXCEPT !.st = "prompt"] ELSE Free]
  /\ begun = {} /\ halved = FALSE

----------------------------------------------------------------------------
(* The system calls the shell uses *)

Live(p) == proc[p].st \notin {"free", "zombie"}
Slots == {p \in Pids : proc[p].st = "free"}

\* exit: descriptors are closed, the children go to init.
Exited(t, p) ==
  [q \in Pids |->
     IF q = p THEN [Free EXCEPT !.st = "zombie", !.parent = t[p].parent]
     ELSE IF t[q].parent = p THEN [t[q] EXCEPT !.parent = INIT] ELSE t[q]]

Exit(p) == proc' = Exited(proc, p) /\ UNCHANGED <<line, tree, begun, halved>>

\* fork1: a child that inherits the descriptors and goes on as st with cmd, while
\* p goes on as mine; or panic, and p exits.
Fork1(p, mine, st, cmd, bg) ==
  /\ \/ /\ proc' = Exited(proc, p)
        /\ halved' = (halved \/ proc[p].st = "half")
     \/ /\ Slots # {}
        /\ proc' = [proc EXCEPT ![p].st = mine,
             ![Min(Slots)] = [proc[p] EXCEPT !.st = st, !.cmd = cmd, !.parent = p, !.bg = bg]]
        /\ UNCHANGED halved
  /\ UNCHANGED <<line, tree, begun>>

Kids(p) == {q \in Pids : proc[q].st # "free" /\ proc[q].parent = p}
Zombies(p) == {q \in Kids(p) : proc[q].st = "zombie"}

\* wait: a child has exited and is freed, or there is none; p goes on as mine.
Waited(p, mine, cmd) ==
  LET t == [proc EXCEPT ![p].st = mine, ![p].cmd = cmd] IN
  /\ proc' \in IF Kids(p) = {} THEN {t} ELSE {[t EXCEPT ![q] = Free] : q \in Zombies(p)}
  /\ UNCHANGED <<line, tree, begun, halved>>

\* init.c: the loop that waits for orphans.
InitReaps ==
  \E q \in Zombies(INIT) : proc' = [proc EXCEPT ![q] = Free] /\ UNCHANGED <<line, tree, begun, halved>>

----------------------------------------------------------------------------
(* main and runcmd *)

Main ==
  \/ proc[SH].st = "prompt" /\ Fork1(SH, "main", "parse", Syntax, FALSE)
  \/ proc[SH].st = "main" /\ Waited(SH, "back", Syntax)

\* parsecmd in the child; a panic exits.
Parse(p) ==
  /\ proc[p].st = "parse"
  /\ \/ tree = Syntax /\ Exit(p)
     \/ /\ tree # Syntax
        /\ proc' = [proc EXCEPT ![p].st = "run", ![p].cmd = tree] /\ UNCHANGED <<line, tree, begun, halved>>

Running(p, type) == proc[p].st = "run" /\ proc[p].cmd.type = type

\* exec, by name and along /path; the program, or exit when there is none.
RunExec(p) ==
  LET argv == proc[p].cmd.argv IN
  /\ Running(p, "EXEC")
  /\ \/ Exit(p)
     \/ /\ argv # <<>>
        /\ proc' = [proc EXCEPT ![p].st = "prog"] /\ begun' = begun \union {argv[1]}
        /\ UNCHANGED <<line, tree, halved>>

\* close, and open in its place; or exit when open fails.
RunRedir(p) ==
  LET c == proc[p].cmd IN
  /\ Running(p, "REDIR")
  /\ \/ Exit(p)
     \/ /\ proc' = [proc EXCEPT ![p].cmd = c.cmd, ![p].in = IF c.fd = 0 THEN FILE ELSE @,
                                ![p].out = IF c.fd = 1 THEN FILE ELSE @]
        /\ UNCHANGED <<line, tree, begun, halved>>

\* Mutant of RunList: the child takes the right side.
RunListSwapped(p) ==
  \/ Running(p, "LIST") /\ Fork1(p, "list", "run", proc[p].cmd.right, proc[p].bg)
  \/ proc[p].st = "list" /\ Waited(p, "run", proc[p].cmd.left)

RunList(p) ==
  \/ Running(p, "LIST") /\ Fork1(p, "list", "run", proc[p].cmd.left, proc[p].bg)
  \/ proc[p].st = "list" /\ Waited(p, "run", proc[p].cmd.right)

\* The background command gets a process that nobody waits for.
RunBack(p) ==
  \/ Running(p, "BACK") /\ Fork1(p, "quit", "run", proc[p].cmd.cmd, TRUE)
  \/ proc[p].st = "quit" /\ Exit(p)

Both(k) == {<<k, "r">>, <<k, "w">>}

\* Mutant of RightChild: p[1] stays open.
RightChildKeeps(p) ==
  LET c == proc[p].cmd IN
  /\ proc[p].st = "right"
  /\ proc' = [proc EXCEPT ![p].st = "run", ![p].cmd = c.right, ![p].in = c.pipe,
                          ![p].held = @ \ {<<c.pipe, "r">>}]
  /\ UNCHANGED <<line, tree, begun, halved>>

\* close(0), dup(p[0]), close(p[0]), close(p[1])
RightChild(p) ==
  LET c == proc[p].cmd IN
  /\ proc[p].st = "right"
  /\ proc' = [proc EXCEPT ![p].st = "run", ![p].cmd = c.right, ![p].in = c.pipe, ![p].held = @ \ Both(c.pipe)]
  /\ UNCHANGED <<line, tree, begun, halved>>

\* Mutant of LeftChild: dup comes before close(1), and gives another number.
LeftChildLate(p) ==
  LET c == proc[p].cmd IN
  /\ proc[p].st = "left"
  /\ proc' = [proc EXCEPT ![p].st = "run", ![p].cmd = c.left, ![p].held = @ \ Both(c.pipe)]
  /\ UNCHANGED <<line, tree, begun, halved>>

LeftChild(p) ==
  LET c == proc[p].cmd IN
  /\ proc[p].st = "left"
  /\ proc' = [proc EXCEPT ![p].st = "run", ![p].cmd = c.left, ![p].out = c.pipe, ![p].held = @ \ Both(c.pipe)]
  /\ UNCHANGED <<line, tree, begun, halved>>

\* Mutant of PipeWaits: one wait instead of two.
PipeWaitsOnce(p) == proc[p].st = "wait2" /\ Waited(p, "quit", Syntax)

\* The two waits, for whichever side ends first.
PipeWaits(p) ==
  \/ proc[p].st = "wait2" /\ Waited(p, "wait1", Syntax)
  \/ proc[p].st = "wait1" /\ Waited(p, "quit", Syntax)

\* pipe, or panic; the two children; the parent closes its ends.
RunPipe(p) ==
  LET c == proc[p].cmd IN
  \/ Running(p, "PIPE") /\ Exit(p)
  \/ /\ Running(p, "PIPE")
     /\ proc' = [proc EXCEPT ![p].st = "piped", ![p].held = @ \union Both(c.pipe)]
     /\ UNCHANGED <<line, tree, begun, halved>>
  \/ proc[p].st = "piped" /\ Fork1(p, "half", "left", c, proc[p].bg)
  \/ proc[p].st = "half" /\ Fork1(p, "full", "right", c, proc[p].bg)
  \/ /\ proc[p].st = "full"
     /\ proc' = [proc EXCEPT ![p].st = "wait2", ![p].held = @ \ Both(c.pipe)]
     /\ UNCHANGED <<line, tree, begun, halved>>

Writers(k) == {p \in Pids : Live(p) /\ (proc[p].out = k \/ <<k, "w">> \in proc[p].held)}

\* A program ends; not before its input does, when that is a pipe.
ProgramEnds(p) ==
  /\ proc[p].st = "prog" /\ (proc[p].in > 0 => Writers(proc[p].in) = {})
  /\ Exit(p)

Step(p) ==
  \/ Parse(p) \/ RunExec(p) \/ RunRedir(p) \/ RunList(p) \/ RunBack(p)
  \/ RunPipe(p) \/ LeftChild(p) \/ RightChild(p) \/ PipeWaits(p) \/ ProgramEnds(p)

Next == Main \/ InitReaps \/ \E p \in Pids : Step(p)

Spec == Init /\ [][Next]_vars /\ WF_vars(Main) /\ WF_vars(InitReaps) /\ \A p \in Pids : WF_vars(Step(p))

----------------------------------------------------------------------------
(* What a command means: the words it starts, where their input and output *)
(* go, and which must have ended before which starts.                      *)

RECURSIVE Wiring(_, _, _)
Wiring(c, in, out) ==
  CASE c.type = "EXEC" -> {<<c.argv[k], in, out>> : k \in {1} \cap DOMAIN c.argv}
    [] c.type = "REDIR" -> Wiring(c.cmd, IF c.fd = 0 THEN FILE ELSE in, IF c.fd = 1 THEN FILE ELSE out)
    [] c.type = "PIPE" -> Wiring(c.left, in, c.pipe) \union Wiring(c.right, c.pipe, out)
    [] c.type = "LIST" -> Wiring(c.left, in, out) \union Wiring(c.right, in, out)
    [] c.type = "BACK" -> Wiring(c.cmd, in, out)
    [] OTHER -> {}

WordsOf(c) == {w[1] : w \in Wiring(c, CONSOLE, CONSOLE)}

\* The words that a list waits for: none in the background.
RECURSIVE Foreground(_)
Foreground(c) ==
  CASE c.type = "BACK" -> {}
    [] c.type = "REDIR" -> Foreground(c.cmd)
    [] c.type \in {"PIPE", "LIST"} -> Foreground(c.left) \union Foreground(c.right)
    [] OTHER -> WordsOf(c)

RECURSIVE Order(_)
Order(c) ==
  CASE c.type = "LIST" -> (Foreground(c.left) \X WordsOf(c.right)) \union Order(c.left) \union Order(c.right)
    [] c.type = "PIPE" -> Order(c.left) \union Order(c.right)
    [] c.type \in {"REDIR", "BACK"} -> Order(c.cmd)
    [] OTHER -> {}

----------------------------------------------------------------------------
(* Properties *)

\* Programs in flight: the word, its input and output.
Programs == {<<proc[p].cmd.argv[1], proc[p].in, proc[p].out>> : p \in {q \in Pids : proc[q].st = "prog"}}

\* The table is a tree of processes under live parents or init, and at most
\* one process has yet to parse the line.
TypeOK ==
  /\ \A p \in Pids : proc[p].st # "free" /\ proc[p].parent # INIT => Live(proc[p].parent)
  /\ \A p \in Pids : proc[p].held \subseteq (1..Len(line)) \X {"r", "w"}
  /\ Cardinality({p \in Pids : proc[p].st = "parse"}) <= 1

\* The parser and the grammar agree on every line: it is read in exactly one
\* way, or refused when there is none.
ParsesRight == proc[SH].st = "prompt" => Meaning(Numbered(line)) = {tree}

\* Every program has the input and output its place in the line gives it,
\* through nested pipes, lists and redirections.
Wired == Programs \subseteq Wiring(tree, CONSOLE, CONSOLE)

\* When the shell is back, only background commands are left, also when forks
\* failed - but for the second fork of a pipe (sh.c:135), which leaves the
\* pipe's left side alone.
ForegroundDone ==
  proc[SH].st = "back" /\ ~halved => \A p \in Pids \ {SH} : Live(p) => proc[p].bg

\* Commands of a list run in order: a word starts when those it follows have
\* ended, and none of them starts afterwards; also when forks fail, with the
\* same exception, for the list goes on when the half-built pipe is gone.
ListOrder ==
  [][~halved =>
       \A <<i, j>> \in Order(tree) :
        /\ j \in begun' \ begun => i \notin {w[1] : w \in Programs}
        /\ i \in begun' \ begun => j \notin begun]_vars

\* Every line comes to an end: the shell is back at its prompt or, when its
\* own fork fails, gone, and no process of the line is left, for nobody holds
\* on to the end of a pipe that another waits for.
EveryoneEnds == <>(proc[SH].st \in {"back", "zombie"} /\ \A p \in Pids \ {SH} : proc[p].st = "free")

\* The processes of the line form a tree, and each program is wired as written.
ProcessesSound == TypeOK /\ Wired
============================================================================
