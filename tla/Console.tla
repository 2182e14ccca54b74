------------------------------ MODULE Console -------------------------------
(***************************************************************************)
(* console.c: the ring of typed characters between consoleintr and         *)
(* consoleread.  rd, wr and ed, the fields r, w and e, count modulo WORD,  *)
(* as uint does, and address the ring modulo INPUT_BUF.  consoleread keeps *)
(* cons.lock from its first character to its return or sleep.              *)
(***************************************************************************)
EXTENDS Traps, FiniteSetsExt

CONSTANTS INPUT_BUF, WORD, ReadSizes, NoProc

ASSUME ConsoleAssumption ==
  /\ INPUT_BUF \in Nat \ {0} /\ WORD \in Nat /\ WORD > INPUT_BUF /\ WORD % INPUT_BUF = 0
  /\ ReadSizes \subseteq Nat \ {0} /\ NoProc \notin Procs

VARIABLES
  rd, wr, ed, ring,  \* struct input
  conslock,          \* the process that holds cons.lock between steps
  n, target          \* of each consoleread

console == <<rd, wr, ed, ring, conslock, n, target>>

Chars == {"x", "nl", "^D"}
Keys == {"x", "cr", "^D", "^H", "^U"}

Sub(x, y) == (x - y) % WORD
Add(x, y) == (x + y) % WORD
At(i) == ring[i % INPUT_BUF]

ConsoleInit ==
  /\ rd = 0 /\ wr = 0 /\ ed = 0 /\ ring = [i \in 0..(INPUT_BUF - 1) |-> "x"]
  /\ conslock = NoProc
  /\ n = [p \in Procs |-> 0] /\ target = [p \in Procs |-> 0]

----------------------------------------------------------------------------
(* consoleintr, one character *)

RingFull == Sub(ed, rd) >= INPUT_BUF

\* Mutant of EndsLine: a full ring does not end the line.
EndsLineOnly(c) == c \in {"nl", "^D"}

EndsLine(c) == c \in {"nl", "^D"} \/ Add(ed, 1) = Add(rd, INPUT_BUF)

\* Mutant of LineWakes: only a reader that has read nothing yet is woken.
LineWakesFresh ==
  [p \in Procs |-> IF pc[p] = "readsleep" /\ n[p] = target[p] THEN "reading" ELSE pc[p]]

LineWakes == Wakeup("readsleep")

\* default: echo, store, and hand the line over.
Typed(c) ==
  /\ ~RingFull
  /\ ring' = [ring EXCEPT ![ed % INPUT_BUF] = c]
  /\ ed' = Add(ed, 1)
  /\ IF EndsLine(c) THEN wr' = ed' /\ pc' = LineWakes ELSE UNCHANGED <<wr, pc>>

\* The characters ^U takes back.
LineLength ==
  Min({k \in 0..Sub(ed, wr) : k = Sub(ed, wr) \/ At(Sub(ed, k + 1)) = "nl"})

ConsoleIntr(c) ==
  /\ conslock = NoProc
  /\ \/ c \in {"x", "^D"} /\ Typed(c)
     \/ c = "cr" /\ Typed("nl")
     \/ c = "^H" /\ ed # wr /\ ed' = Sub(ed, 1) /\ UNCHANGED <<wr, ring, pc>>
     \/ c = "^U" /\ ed' = Sub(ed, LineLength) /\ UNCHANGED <<wr, ring, pc>>
  /\ UNCHANGED <<rd, conslock, n, target, traps>>

----------------------------------------------------------------------------
(* consoleread *)

ReadCall(p) ==
  /\ MayCall(p)
  /\ \E k \in ReadSizes : n' = [n EXCEPT ![p] = k] /\ target' = [target EXCEPT ![p] = k]
  /\ pc' = [pc EXCEPT ![p] = "reading"]
  /\ UNCHANGED <<rd, wr, ed, ring, conslock, traps>>

\* Return: the lock is released, target - n characters were read.
ReadReturn(p) ==
  /\ pc' = [pc EXCEPT ![p] = "user"] /\ conslock' = NoProc
  /\ n' = [n EXCEPT ![p] = 0] /\ target' = [target EXCEPT ![p] = 0]

\* Mutant of ReadEmpty: a killed process does not sleep, but stays in the loop.
ReadEmptySpins(p) ==
  /\ pc[p] = "reading" /\ conslock \in {p, NoProc} /\ n[p] > 0 /\ rd = wr
  /\ ~killed[p]
  /\ pc' = [pc EXCEPT ![p] = "readgap"] /\ conslock' = p
  /\ UNCHANGED <<rd, wr, ed, ring, traps, n, target>>

\* The ring is empty: a killed process leaves, another is going to sleep.
ReadEmpty(p) ==
  /\ pc[p] = "reading" /\ conslock \in {p, NoProc} /\ n[p] > 0 /\ rd = wr
  /\ IF killed[p] THEN ReadReturn(p)
     ELSE /\ pc' = [pc EXCEPT ![p] = "readgap"] /\ conslock' = p
          /\ UNCHANGED <<n, target>>
  /\ UNCHANGED <<rd, wr, ed, ring, traps>>

\* sleep(&input.r, &cons.lock)
ReadSleep(p) ==
  /\ pc[p] = "readgap"
  /\ pc' = [pc EXCEPT ![p] = "readsleep"] /\ conslock' = NoProc
  /\ UNCHANGED <<rd, wr, ed, ring, traps, n, target>>

\* One character: ^D ends the read, and stays for the next read if this one
\* has data; a newline or the last byte ends it too.
ReadChar(p) ==
  LET c == At(rd) IN
  /\ pc[p] = "reading" /\ conslock \in {p, NoProc} /\ n[p] > 0 /\ rd # wr
  /\ rd' = IF c = "^D" /\ n[p] < target[p] THEN rd ELSE Add(rd, 1)
  /\ IF c \in {"^D", "nl"} \/ n[p] = 1 THEN ReadReturn(p)
     ELSE n' = [n EXCEPT ![p] = @ - 1] /\ conslock' = p /\ UNCHANGED <<pc, target>>
  /\ UNCHANGED <<wr, ed, ring, traps>>

Read(p) == ReadEmpty(p) \/ ReadSleep(p) \/ ReadChar(p)

ConsoleNext == (\E c \in Keys : ConsoleIntr(c)) \/ \E p \in Procs : ReadCall(p) \/ Read(p)

----------------------------------------------------------------------------
(* Properties *)

\* The characters between two indices of the ring.
Between(i, j) == [k \in 1..Sub(j, i) |-> At(Add(i, k - 1))]

Lines == INSTANCE LineAbs WITH Size <- INPUT_BUF, Enders <- {"nl", "^D"},
                               edit <- Between(wr, ed), ready <- Between(rd, wr)

\* The ring with its wrapping indices is a line editor and a queue: no typed
\* character is lost, overwritten or read twice, backspace and ^U never reach
\* a line that was handed over, and ^D is pushed back without moving others.
LinesInOrder == Lines!Spec

\* A reader sleeps only while no line is waiting: consoleintr has woken the
\* readers of every line, also of one ended by ^D or by a full ring; and a killed
\* one sleeps only if the kill came between its test and its sleep.
ReaderSleepsOnEmpty ==
  \A p \in Procs : pc[p] = "readsleep" => rd = wr /\ (killed[p] => p \in missed)

============================================================================
