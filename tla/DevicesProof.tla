----------------------------- MODULE DevicesProof -----------------------------
(***************************************************************************)
(* Proofs about Devices, for any number of processes, any size of the      *)
(* input buffer and any range of the counters: nobody sleeps past a line,  *)
(* a deadline or a kill that found it asleep, sleep(n) takes n ticks, and  *)
(* the input ring is a line editor and a queue.                            *)
(***************************************************************************)
EXTENDS Devices, RingProof

ConsoleTypes ==
  /\ pc \in [Procs -> PCs] /\ killed \in [Procs -> BOOLEAN] /\ missed \subseteq Procs
  /\ rd \in 0..(WORD - 1) /\ wr \in 0..(WORD - 1) /\ ed \in 0..(WORD - 1)
  /\ ring \in [0..(INPUT_BUF - 1) -> Chars]
  /\ conslock \in Procs \cup {NoProc}
  /\ n \in [Procs -> Nat] /\ target \in [Procs -> Nat]
  /\ \A p \in Procs : n[p] <= target[p]

ClockTypes ==
  /\ ticks \in 0..(TICKS - 1) /\ ticks0 \in [Procs -> 0..(TICKS - 1)]
  /\ dur \in [Procs -> 0..(TICKS - 1)] /\ passed \in [Procs -> 0..(TICKS - 1)]

\* r, w and e are in this order, at most INPUT_BUF apart.
RingOrder == Sub(wr, rd) <= Sub(ed, rd) /\ Sub(ed, rd) <= INPUT_BUF

\* The line under edit has no newline yet: ^U takes back all of it.
Unfinished == \A j \in 0..(Sub(ed, wr) - 1) : ring[(wr + j) % INPUT_BUF] # "nl"

\* ticks - ticks0 is the time since the call, although ticks wraps.
Elapsed ==
  \A p \in Procs : /\ Sleeping(p) => passed[p] = (ticks - ticks0[p]) % TICKS
                   /\ ~Sleeping(p) => passed[p] = 0

\* Who is about to sleep in consoleread still holds cons.lock and found the ring
\* empty; a kill it has not seen came after its test.
ReaderGap ==
  \A p \in Procs : pc[p] = "readgap" => conslock = p /\ rd = wr /\ (killed[p] => p \in missed)

\* The same in sys_sleep, before its time is over.
TickGap ==
  \A p \in Procs : pc[p] = "tickgap" => passed[p] < dur[p] /\ (killed[p] => p \in missed)

\* The inductive invariant.
DevicesInv ==
  /\ ConsoleTypes /\ ClockTypes /\ RingOrder /\ Unfinished /\ Elapsed
  /\ ReaderGap /\ TickGap /\ ReaderSleepsOnEmpty /\ SleeperNotOverdue

----------------------------------------------------------------------------
(* The counters of the ring *)

\* The distances between the three counters.
LEMMA Distances ==
  ASSUME ConsoleTypes, RingOrder
  PROVE  /\ Sub(ed, wr) = Sub(ed, rd) - Sub(wr, rd)
         /\ Sub(wr, rd) \in Nat /\ Sub(ed, rd) \in Nat /\ Sub(ed, wr) \in Nat
         /\ Sub(ed, rd) < WORD
         /\ Sub(wr, rd) = 0 <=> rd = wr
         /\ Sub(ed, wr) = 0 <=> wr = ed
<1>1. /\ WORD \in Nat \ {0} /\ rd \in 0..(WORD - 1) /\ wr \in 0..(WORD - 1)
      /\ ed \in 0..(WORD - 1) /\ (wr - rd) % WORD <= (ed - rd) % WORD
  BY ConsoleAssumption DEF ConsoleTypes, RingOrder, Sub
<1>2. /\ (ed - wr) % WORD = ((ed - rd) % WORD) - ((wr - rd) % WORD)
      /\ (wr - rd) % WORD \in 0..(WORD - 1) /\ (ed - rd) % WORD \in 0..(WORD - 1)
      /\ (ed - wr) % WORD \in 0..(WORD - 1)
      /\ (wr - rd) % WORD = 0 <=> rd = wr
      /\ (ed - wr) % WORD = 0 <=> wr = ed
  BY <1>1, DistSum
<1> QED BY <1>1, <1>2 DEF Sub

\* A character is stored.
LEMMA StoreDistances ==
  ASSUME ConsoleTypes, RingOrder, ~RingFull, ed' = Add(ed, 1), rd' = rd
  PROVE  /\ ed' \in 0..(WORD - 1) /\ Sub(ed', rd) = Sub(ed, rd) + 1
         /\ Sub(ed', wr) = Sub(ed, wr) + 1
         /\ Sub(ed, rd) < INPUT_BUF
         /\ Add(ed, 1) = Add(rd, INPUT_BUF) <=> Sub(ed, rd) + 1 = INPUT_BUF
<1>1. /\ WORD \in Nat \ {0} /\ rd \in 0..(WORD - 1) /\ wr \in 0..(WORD - 1)
      /\ ed \in 0..(WORD - 1) /\ INPUT_BUF \in 0..(WORD - 1)
  BY ConsoleAssumption DEF ConsoleTypes
<1>2. /\ Sub(ed, wr) = Sub(ed, rd) - Sub(wr, rd)
      /\ Sub(wr, rd) \in Nat /\ Sub(ed, rd) \in Nat
  BY Distances
<1>3. Sub(ed, rd) < INPUT_BUF
  BY <1>1, <1>2 DEF RingFull
<1>4. (ed - rd) % WORD < WORD - 1 /\ (ed - wr) % WORD < WORD - 1
  BY <1>1, <1>2, <1>3 DEF Sub
<1>5. /\ (ed + 1) % WORD \in 0..(WORD - 1)
      /\ (((ed + 1) % WORD) - rd) % WORD = ((ed - rd) % WORD) + 1
      /\ (((ed + 1) % WORD) - wr) % WORD = ((ed - wr) % WORD) + 1
  BY <1>1, <1>4, DistUp
<1>6. (ed + 1) % WORD = (rd + INPUT_BUF) % WORD <=> ((ed - rd) % WORD) + 1 = INPUT_BUF
  <2>1. (ed + 1) % WORD = IF ed + 1 = WORD THEN 0 ELSE ed + 1
    BY <1>1, WrapInc
  <2>2. (rd + INPUT_BUF) % WORD
          = IF rd + INPUT_BUF >= WORD THEN rd + INPUT_BUF - WORD ELSE rd + INPUT_BUF
    BY <1>1, WrapAdd
  <2>3. (ed - rd) % WORD = IF ed >= rd THEN ed - rd ELSE ed - rd + WORD
    BY <1>1, WrapSub
  <2> QED BY <1>1, <1>3, <2>1, <2>2, <2>3 DEF Sub
<1> QED BY <1>3, <1>5, <1>6 DEF Sub, Add

\* ^U goes back to the start of the line.
LEMMA KillLineLength ==
  ASSUME ConsoleTypes, RingOrder, Unfinished
  PROVE  LineLength = Sub(ed, wr) /\ Sub(ed, LineLength) = wr
<1>1. /\ WORD \in Nat \ {0} /\ rd \in 0..(WORD - 1) /\ wr \in 0..(WORD - 1)
      /\ ed \in 0..(WORD - 1) /\ INPUT_BUF \in Nat \ {0} /\ WORD % INPUT_BUF = 0
  BY ConsoleAssumption DEF ConsoleTypes
<1> DEFINE f == Sub(ed, wr)
<1>2. f = IF ed >= wr THEN ed - wr ELSE ed - wr + WORD
  BY <1>1, WrapSub DEF Sub
<1>3. f \in 0..(WORD - 1)
  BY <1>1, <1>2
<1>4. ASSUME NEW k \in 0..f, k # f PROVE At(Sub(ed, k + 1)) # "nl"
  <2>1. k + 1 \in 0..(WORD - 1) /\ (f - k) - 1 \in 0..(f - 1)
    BY <1>1, <1>3, <1>4
  <2>2. Sub(ed, k + 1) = IF ed >= k + 1 THEN ed - (k + 1) ELSE ed - (k + 1) + WORD
    BY <1>1, <2>1, WrapSub DEF Sub
  <2>3. \/ wr + ((f - k) - 1) = Sub(ed, k + 1)
        \/ wr + ((f - k) - 1) = Sub(ed, k + 1) + WORD
    BY <1>1, <1>2, <1>3, <2>1, <2>2
  <2>4. Sub(ed, k + 1) \in Int /\ WORD \in Nat
    BY <1>1, <2>1, <2>2
  <2>5. (Sub(ed, k + 1) + WORD) % INPUT_BUF = Sub(ed, k + 1) % INPUT_BUF
    BY <1>1, <2>4, WrapIndex, Zenon
  <2>6. (wr + ((f - k) - 1)) % INPUT_BUF = Sub(ed, k + 1) % INPUT_BUF
    BY <2>3, <2>5
  <2> QED BY <2>1, <2>6 DEF Unfinished, At
<1>5. {k \in 0..f : k = f \/ At(Sub(ed, k + 1)) = "nl"} = {f}
  BY <1>3, <1>4
<1>6. LineLength = f
  <2>1. LineLength = Min({f})
    BY <1>5 DEF LineLength
  <2> HIDE DEF f
  <2> QED BY <1>3, <2>1 DEF Min
<1>7. Sub(ed, f) = wr
  <2>1. Sub(ed, f) = IF ed >= f THEN ed - f ELSE ed - f + WORD
    BY <1>1, <1>3, WrapSub DEF Sub
  <2> QED BY <1>1, <1>2, <2>1
<1> QED BY <1>6, <1>7

----------------------------------------------------------------------------
(* The inductive invariant *)

LEMMA DevicesInit == Init => DevicesInv
<1> SUFFICES ASSUME Init PROVE DevicesInv
  OBVIOUS
<1>1. /\ INPUT_BUF \in Nat \ {0} /\ WORD \in Nat \ {0} /\ TICKS \in Nat \ {0}
  BY ConsoleAssumption, ClockAssumption
<1>2. ConsoleTypes
  BY <1>1 DEF Init, TrapsInit, ConsoleInit, ConsoleTypes, PCs, Chars
<1>3. ClockTypes
  BY <1>1 DEF Init, ClockInit, ClockTypes
<1>4. Sub(wr, rd) = 0 /\ Sub(ed, rd) = 0 /\ Sub(ed, wr) = 0
  <2>1. rd = 0 /\ wr = 0 /\ ed = 0 /\ 0 \in 0..(WORD - 1)
    BY <1>1 DEF Init, ConsoleInit
  <2>2. (0 - 0) % WORD = 0
    BY <1>1, ModSmall
  <2> QED BY <2>1, <2>2 DEF Sub
<1>5. RingOrder /\ Unfinished
  BY <1>1, <1>4 DEF RingOrder, Unfinished
<1>6. Elapsed /\ ReaderGap /\ TickGap /\ ReaderSleepsOnEmpty /\ SleeperNotOverdue
  BY DEF Init, TrapsInit, ClockInit, Elapsed, Sleeping, ReaderGap, TickGap,
     ReaderSleepsOnEmpty, SleeperNotOverdue
<1> QED BY <1>2, <1>3, <1>5, <1>6 DEF DevicesInv

\* A console step does not touch who is in sys_sleep.
LEMMA ClockFrame ==
  ASSUME DevicesInv, UNCHANGED <<traps, clock>>,
         \A p \in Procs : \/ pc'[p] = pc[p]
                          \/ {pc[p], pc'[p]} \subseteq {"user", "reading", "readgap", "readsleep"}
  PROVE  ClockTypes' /\ Elapsed' /\ TickGap' /\ SleeperNotOverdue'
BY DEF DevicesInv, traps, clock, ClockTypes, Elapsed, Sleeping, TickGap, SleeperNotOverdue

\* A clock step does not touch the ring and who is in consoleread.
LEMMA ConsoleFrame ==
  ASSUME DevicesInv, UNCHANGED console, pc' \in [Procs -> PCs],
         killed' \in [Procs -> BOOLEAN], missed' \subseteq Procs,
         \A p \in Procs : pc'[p] \in {"readgap", "readsleep"} =>
           /\ pc'[p] = pc[p]
           /\ killed'[p] => p \in missed' \/ (killed[p] /\ (p \in missed => p \in missed'))
  PROVE  ConsoleTypes' /\ RingOrder' /\ Unfinished' /\ ReaderGap' /\ ReaderSleepsOnEmpty'
BY DEF DevicesInv, console, ConsoleTypes, RingOrder, Unfinished, ReaderGap,
       ReaderSleepsOnEmpty, Sub

LEMMA TypedInv ==
  ASSUME DevicesInv, NEW c \in Chars, conslock = NoProc, Typed(c),
         UNCHANGED <<rd, conslock, n, target, traps, clock>>
  PROVE  DevicesInv'
<1>1. ConsoleTypes /\ RingOrder /\ Unfinished /\ ReaderGap /\ ReaderSleepsOnEmpty
  BY DEF DevicesInv
<1>2. /\ WORD \in Nat \ {0} /\ rd \in 0..(WORD - 1) /\ wr \in 0..(WORD - 1)
      /\ ed \in 0..(WORD - 1) /\ INPUT_BUF \in Nat \ {0} /\ WORD % INPUT_BUF = 0
  BY <1>1, ConsoleAssumption DEF ConsoleTypes
<1>3. /\ ring' = [ring EXCEPT ![ed % INPUT_BUF] = c] /\ ed' = Add(ed, 1) /\ ~RingFull
      /\ IF EndsLine(c) THEN wr' = ed' /\ pc' = LineWakes ELSE UNCHANGED <<wr, pc>>
      /\ rd' = rd
  BY DEF Typed
<1>4. /\ ed' \in 0..(WORD - 1) /\ Sub(ed', rd) = Sub(ed, rd) + 1
      /\ Sub(ed', wr) = Sub(ed, wr) + 1 /\ Sub(ed, rd) < INPUT_BUF
  BY <1>1, <1>3, StoreDistances
<1>5. /\ Sub(ed, wr) = Sub(ed, rd) - Sub(wr, rd)
      /\ Sub(wr, rd) \in Nat /\ Sub(ed, rd) \in Nat /\ Sub(ed, wr) \in Nat
  BY <1>1, Distances
<1>6. pc' \in [Procs -> PCs] /\ \A p \in Procs :
        /\ \/ pc'[p] = pc[p]
           \/ {pc[p], pc'[p]} \subseteq {"user", "reading", "readgap", "readsleep"}
        /\ pc'[p] = "readsleep" => pc[p] = "readsleep" /\ ~EndsLine(c)
        /\ pc'[p] = "readgap" => pc[p] = "readgap"
  BY <1>1, <1>3 DEF LineWakes, Wakeup, Awake, ConsoleTypes, PCs
<1>7. ClockTypes' /\ Elapsed' /\ TickGap' /\ SleeperNotOverdue'
  BY <1>6, ClockFrame
<1>8. ConsoleTypes'
  BY <1>1, <1>2, <1>3, <1>4, <1>6 DEF ConsoleTypes, traps
<1>9. RingOrder'
  <2>1. CASE EndsLine(c)
    BY <1>2, <1>3, <1>4, <1>5, <2>1 DEF RingOrder
  <2>2. CASE ~EndsLine(c)
    BY <1>1, <1>2, <1>3, <1>4, <1>5, <2>2 DEF RingOrder
  <2> QED BY <2>1, <2>2
<1>10. Unfinished'
  <2>1. CASE EndsLine(c)
    <3>1. Sub(ed', wr') = 0
      BY <1>2, <1>3, <1>4, <2>1, WrapSub DEF Sub
    <3> QED BY <3>1 DEF Unfinished
  <2>2. CASE ~EndsLine(c)
    <3> DEFINE f == Sub(ed, wr)
    <3>1. ed % INPUT_BUF = (wr + f) % INPUT_BUF
      <4>1. ed % INPUT_BUF = (wr + ((ed - wr) % WORD)) % INPUT_BUF
        <5>1. \A x, y \in 0..(WORD - 1) :
                y % INPUT_BUF = (x + ((y - x) % WORD)) % INPUT_BUF
          BY <1>2, IndexOf
        <5> QED BY <1>2, <5>1
      <4> QED BY <4>1 DEF Sub
    <3>2. c # "nl" /\ wr' = wr /\ f \in Nat /\ f < INPUT_BUF
      BY <1>2, <1>3, <1>4, <1>5, <2>2 DEF EndsLine
    <3> HIDE DEF f
    <3>3. ASSUME NEW j \in 0..f PROVE ring'[(wr + j) % INPUT_BUF] # "nl"
      <4>1. (wr + j) % INPUT_BUF \in 0..(INPUT_BUF - 1)
        BY <1>2, <3>2, ModDef
      <4>2. CASE j = f
        BY <1>1, <1>3, <3>1, <3>2, <4>1, <4>2 DEF ConsoleTypes
      <4>3. CASE j # f
        <5>1. wr + j \in Int /\ wr + f \in Int /\ wr + j < wr + f /\ wr + f < wr + j + INPUT_BUF
          BY <1>2, <3>2, <4>3
        <5>2. (wr + j) % INPUT_BUF # (wr + f) % INPUT_BUF
          BY <1>2, <5>1, IndexDistinct
        <5>3. ring[(wr + j) % INPUT_BUF] # "nl"
          <6>1. j \in 0..(Sub(ed, wr) - 1)
            BY <3>2, <4>3 DEF f
          <6> QED BY <1>1, <6>1 DEF Unfinished
        <5> QED BY <1>1, <1>3, <3>1, <4>1, <5>2, <5>3 DEF ConsoleTypes
      <4> QED BY <4>2, <4>3
    <3>4. Sub(ed', wr') - 1 = f
      BY <1>4, <1>5, <3>2 DEF f
    <3> QED BY <3>2, <3>3, <3>4 DEF Unfinished
  <2> QED BY <2>1, <2>2
<1>11. ReaderGap' /\ ReaderSleepsOnEmpty'
  BY <1>1, <1>3, <1>6, ConsoleAssumption DEF ReaderSleepsOnEmpty, ReaderGap, traps
<1> QED BY <1>7, <1>8, <1>9, <1>10, <1>11 DEF DevicesInv

LEMMA EraseInv ==
  ASSUME DevicesInv,
         \/ ed # wr /\ ed' = Sub(ed, 1)
         \/ ed' = Sub(ed, LineLength),
         UNCHANGED <<wr, ring, pc, rd, conslock, n, target, traps, clock>>
  PROVE  DevicesInv'
<1>1. ConsoleTypes /\ RingOrder /\ Unfinished /\ ReaderGap /\ ReaderSleepsOnEmpty
  BY DEF DevicesInv
<1>2. /\ WORD \in Nat \ {0} /\ rd \in 0..(WORD - 1) /\ wr \in 0..(WORD - 1)
      /\ ed \in 0..(WORD - 1)
  BY <1>1, ConsoleAssumption DEF ConsoleTypes
<1>3. /\ Sub(ed, wr) = Sub(ed, rd) - Sub(wr, rd) /\ Sub(ed, rd) <= INPUT_BUF
      /\ Sub(wr, rd) \in Nat /\ Sub(ed, rd) \in Nat /\ Sub(ed, wr) \in Nat
      /\ Sub(ed, wr) = 0 <=> wr = ed
      /\ INPUT_BUF \in Nat
  BY <1>1, Distances, ConsoleAssumption DEF RingOrder
<1>4. /\ ed' \in 0..(WORD - 1) /\ Sub(wr, rd) <= Sub(ed', rd) /\ Sub(ed', rd) <= INPUT_BUF
      /\ Sub(ed', wr) \in Nat /\ Sub(ed', wr) <= Sub(ed, wr)
  <2>1. CASE ed # wr /\ ed' = Sub(ed, 1)
    <3>1. ed # rd
      <4>1. (rd - rd) % WORD = 0
        BY <1>2, WrapSub
      <4>2. Sub(wr, rd) = 0 <=> rd = wr
        BY <1>1, Distances
      <4> QED BY <1>1, <1>3, <2>1, <4>1, <4>2 DEF Sub, RingOrder
    <3>2. /\ (ed - 1) % WORD \in 0..(WORD - 1)
          /\ (((ed - 1) % WORD) - rd) % WORD = ((ed - rd) % WORD) - 1
          /\ (((ed - 1) % WORD) - wr) % WORD = ((ed - wr) % WORD) - 1
      BY <1>2, <2>1, <3>1, DistDown
    <3>3. Sub(ed', rd) = Sub(ed, rd) - 1 /\ Sub(ed', wr) = Sub(ed, wr) - 1
      BY <2>1, <3>2 DEF Sub
    <3>4. Sub(ed, wr) # 0
      BY <1>3, <2>1
    <3> QED BY <1>2, <1>3, <2>1, <3>2, <3>3, <3>4 DEF Sub
  <2>2. CASE ed' = Sub(ed, LineLength)
    <3>1. ed' = wr
      BY <1>1, <2>2, KillLineLength
    <3>2. Sub(wr, wr) = 0
      BY <1>2, WrapSub DEF Sub
    <3> QED BY <1>1, <1>2, <1>3, <3>1, <3>2 DEF RingOrder
  <2> QED BY <2>1, <2>2
<1>5. ClockTypes' /\ Elapsed' /\ TickGap' /\ SleeperNotOverdue'
  BY ClockFrame
<1>6. ConsoleTypes' /\ RingOrder' /\ ReaderGap' /\ ReaderSleepsOnEmpty'
  BY <1>1, <1>4 DEF ConsoleTypes, RingOrder, ReaderGap, ReaderSleepsOnEmpty, traps
<1>7. Unfinished'
  BY <1>1, <1>3, <1>4 DEF Unfinished
<1> QED BY <1>5, <1>6, <1>7 DEF DevicesInv

LEMMA ReadInv ==
  ASSUME DevicesInv, NEW p \in Procs, ReadCall(p) \/ Read(p), UNCHANGED clock
  PROVE  DevicesInv'
<1>1. ConsoleTypes /\ RingOrder /\ Unfinished /\ ReaderGap /\ ReaderSleepsOnEmpty
  BY DEF DevicesInv
<1>2. UNCHANGED <<wr, ed, ring, traps>>
  BY DEF ReadCall, Read, ReadEmpty, ReadSleep, ReadChar
<1>3. /\ pc' \in [Procs -> PCs] /\ \A q \in Procs :
           \/ pc'[q] = pc[q]
           \/ {pc[q], pc'[q]} \subseteq {"user", "reading", "readgap", "readsleep"}
      /\ \A q \in Procs : pc'[q] = "readsleep" => pc[q] \in {"readsleep", "readgap"}
      /\ \A q \in Procs : pc'[q] = "readgap" =>
           \/ pc[q] = "readgap" /\ conslock' = conslock /\ rd' = rd
           \/ rd = wr /\ rd' = rd /\ ~killed[q] /\ conslock' = q
  <2>1. ASSUME NEW q \in Procs, pc[q] = "readgap" PROVE conslock = q /\ q # NoProc
    BY <1>1, <2>1, ConsoleAssumption DEF ReaderGap
  <2>2. CASE ReadCall(p)
    BY <1>1, <2>2 DEF ReadCall, MayCall, ConsoleTypes, PCs
  <2>3. CASE ReadEmpty(p)
    BY <1>1, <2>1, <2>3 DEF ReadEmpty, ReadReturn, ConsoleTypes, PCs
  <2>4. CASE ReadSleep(p)
    BY <1>1, <2>1, <2>4 DEF ReadSleep, ConsoleTypes, PCs
  <2>5. CASE ReadChar(p)
    BY <1>1, <2>1, <2>5 DEF ReadChar, ReadReturn, ConsoleTypes, PCs
  <2> QED BY <2>2, <2>3, <2>4, <2>5 DEF Read
<1>4. ClockTypes' /\ Elapsed' /\ TickGap' /\ SleeperNotOverdue'
  BY <1>2, <1>3, ClockFrame
<1>5. /\ conslock' \in Procs \cup {NoProc}
      /\ n' \in [Procs -> Nat] /\ target' \in [Procs -> Nat]
      /\ \A q \in Procs : n'[q] <= target'[q]
  <2>0. /\ n \in [Procs -> Nat] /\ target \in [Procs -> Nat]
        /\ \A q \in Procs : n[q] <= target[q]
    BY <1>1 DEF ConsoleTypes
  <2>1. CASE ReadCall(p)
    BY <1>1, <2>1, ConsoleAssumption DEF ReadCall, ConsoleTypes
  <2>2. CASE ReadEmpty(p)
    <3>1. /\ conslock' \in {p, NoProc}
          /\ \/ UNCHANGED <<n, target>>
             \/ n' = [n EXCEPT ![p] = 0] /\ target' = [target EXCEPT ![p] = 0]
      BY <2>2, Zenon DEF ReadEmpty, ReadReturn
    <3> QED BY <2>0, <3>1
  <2>3. CASE ReadChar(p)
    <3>1. /\ conslock' \in {p, NoProc} /\ n[p] > 0
          /\ \/ n' = [n EXCEPT ![p] = @ - 1] /\ UNCHANGED target
             \/ n' = [n EXCEPT ![p] = 0] /\ target' = [target EXCEPT ![p] = 0]
      BY <2>3, Zenon DEF ReadChar, ReadReturn
    <3> QED BY <2>0, <3>1
  <2>4. CASE ReadSleep(p)
    BY <2>0, <2>4 DEF ReadSleep
  <2> QED BY <2>1, <2>2, <2>3, <2>4 DEF Read
<1>6. /\ rd' \in 0..(WORD - 1) /\ RingOrder'
      /\ rd' = rd \/ rd # wr
  <2>1. rd' = rd \/ (rd # wr /\ rd' = Add(rd, 1))
    <3>1. ReadCall(p) => rd' = rd
      BY DEF ReadCall
    <3>2. ReadEmpty(p) => rd' = rd
      BY DEF ReadEmpty
    <3>3. ReadChar(p) => rd # wr /\ (rd' = rd \/ rd' = Add(rd, 1))
      BY Zenon DEF ReadChar
    <3>4. ReadSleep(p) => rd' = rd
      BY DEF ReadSleep
    <3> QED BY <3>1, <3>2, <3>3, <3>4 DEF Read
  <2>2. CASE rd' = rd
    BY <1>1, <1>2, <2>2 DEF ConsoleTypes, RingOrder, Sub
  <2>3. CASE rd # wr /\ rd' = Add(rd, 1)
    <3>1. /\ WORD \in Nat \ {0} /\ rd \in 0..(WORD - 1) /\ wr \in 0..(WORD - 1)
          /\ ed \in 0..(WORD - 1)
      BY <1>1, ConsoleAssumption DEF ConsoleTypes
    <3>2. rd # ed
      <4>1. Sub(wr, rd) # 0 /\ Sub(wr, rd) <= Sub(ed, rd) /\ Sub(wr, rd) \in Nat
        BY <1>1, <2>3, Distances DEF RingOrder
      <4>2. (rd - rd) % WORD = 0
        BY <3>1, WrapSub
      <4> QED BY <4>1, <4>2 DEF Sub
    <3>3. /\ (rd + 1) % WORD \in 0..(WORD - 1)
          /\ (wr - ((rd + 1) % WORD)) % WORD = ((wr - rd) % WORD) - 1
          /\ (ed - ((rd + 1) % WORD)) % WORD = ((ed - rd) % WORD) - 1
      BY <2>3, <3>1, <3>2, DistDown
    <3>4. Sub(wr, rd') = Sub(wr, rd) - 1 /\ Sub(ed, rd') = Sub(ed, rd) - 1
      BY <2>3, <3>3 DEF Sub, Add
    <3>5. Sub(wr, rd) \in Nat /\ Sub(ed, rd) \in Nat /\ INPUT_BUF \in Nat
      BY <1>1, Distances, ConsoleAssumption
    <3> QED BY <1>1, <1>2, <2>3, <3>3, <3>4, <3>5 DEF RingOrder, Add
  <2> QED BY <2>1, <2>2, <2>3
<1>7. ConsoleTypes' /\ Unfinished'
  BY <1>1, <1>2, <1>3, <1>5, <1>6 DEF ConsoleTypes, Unfinished, traps
<1>8. ReaderGap' /\ ReaderSleepsOnEmpty'
  BY <1>1, <1>2, <1>3, <1>6 DEF ReaderSleepsOnEmpty, ReaderGap, traps
<1> QED BY <1>4, <1>6, <1>7, <1>8 DEF DevicesInv

\* A tick: who is in sys_sleep gets one tick older and is woken.
LEMMA TickInv ==
  ASSUME DevicesInv, Tick, UNCHANGED console
  PROVE  DevicesInv'
<1>1. ClockTypes /\ Elapsed /\ TickGap /\ SleeperNotOverdue /\ pc \in [Procs -> PCs]
      /\ killed \in [Procs -> BOOLEAN] /\ missed \subseteq Procs /\ TICKS \in Nat \ {0}
  BY ClockAssumption DEF DevicesInv, ConsoleTypes
<1>2. /\ \A p \in Procs : Sleeping(p) => passed[p] < TICKS - 1
      /\ ticks' = (ticks + 1) % TICKS
      /\ passed' = [p \in Procs |-> IF Sleeping(p) THEN passed[p] + 1 ELSE 0]
      /\ pc' = [p \in Procs |-> IF pc[p] = "ticksleep" THEN "ticking" ELSE pc[p]]
      /\ UNCHANGED <<ticks0, dur, killed, missed>> /\ TicksFree
  BY DEF Tick, TickWakes, Wakeup, Awake, traps
<1>3. pc' \in [Procs -> PCs] /\ \A p \in Procs : /\ Sleeping(p)' <=> Sleeping(p)
                                                 /\ pc'[p] \notin {"ticksleep", "tickgap"}
                                                 /\ pc'[p] = pc[p] \/ pc'[p] = "ticking"
  BY <1>1, <1>2 DEF PCs, Sleeping, TicksFree
<1>4. ConsoleTypes' /\ RingOrder' /\ Unfinished' /\ ReaderGap' /\ ReaderSleepsOnEmpty'
  BY <1>1, <1>2, <1>3, ConsoleFrame
<1>5. ticks' \in 0..(TICKS - 1) /\ ticks \in 0..(TICKS - 1)
  <2>1. ticks + 1 \in Int /\ ticks \in 0..(TICKS - 1)
    BY <1>1 DEF ClockTypes
  <2> QED BY <1>1, <1>2, <2>1, ModDef
<1>6. ASSUME NEW p \in Procs
      PROVE  /\ passed'[p] \in 0..(TICKS - 1)
             /\ Sleeping(p)' => passed'[p] = (ticks' - ticks0'[p]) % TICKS
             /\ ~Sleeping(p)' => passed'[p] = 0
  <2>1. passed[p] \in 0..(TICKS - 1) /\ ticks0[p] \in 0..(TICKS - 1)
    BY <1>1 DEF ClockTypes
  <2>2. CASE Sleeping(p)
    <3>1. passed[p] = (ticks - ticks0[p]) % TICKS /\ passed[p] < TICKS - 1
      BY <1>1, <1>2, <2>2 DEF Elapsed
    <3>2. (((ticks + 1) % TICKS) - ticks0[p]) % TICKS = ((ticks - ticks0[p]) % TICKS) + 1
      BY <1>1, <1>5, <2>1, <3>1, DistUp
    <3>3. passed'[p] = passed[p] + 1 /\ ticks0'[p] = ticks0[p] /\ Sleeping(p)'
      BY <1>2, <1>3, <2>2
    <3>4. passed'[p] = (ticks' - ticks0'[p]) % TICKS
      BY <1>2, <3>1, <3>2, <3>3
    <3> QED BY <1>1, <2>1, <3>1, <3>3, <3>4
  <2>3. CASE ~Sleeping(p)
    BY <1>1, <1>2, <1>3, <2>3
  <2> QED BY <2>2, <2>3
<1>7. ClockTypes'
  <2>1. passed' \in [Procs -> 0..(TICKS - 1)]
    BY <1>2, <1>6
  <2> QED BY <1>1, <1>2, <1>5, <2>1 DEF ClockTypes
<1>8. Elapsed' /\ TickGap' /\ SleeperNotOverdue'
  BY <1>3, <1>6 DEF Elapsed, TickGap, SleeperNotOverdue
<1> QED BY <1>4, <1>7, <1>8 DEF DevicesInv

LEMMA SleepCallInv ==
  ASSUME DevicesInv, NEW p \in Procs, SleepCall(p), UNCHANGED console
  PROVE  DevicesInv'
<1>1. ClockTypes /\ Elapsed /\ TickGap /\ SleeperNotOverdue /\ pc \in [Procs -> PCs]
      /\ killed \in [Procs -> BOOLEAN] /\ missed \subseteq Procs /\ TICKS \in Nat \ {0}
  BY ClockAssumption DEF DevicesInv, ConsoleTypes
<1>2. /\ pc[p] = "user" /\ pc' = [pc EXCEPT ![p] = "ticking"]
      /\ ticks0' = [ticks0 EXCEPT ![p] = ticks] /\ UNCHANGED <<ticks, passed, killed, missed>>
      /\ \E k \in SleepArgs : dur' = [dur EXCEPT ![p] = k]
  BY DEF SleepCall, MayCall, traps
<1>3. ConsoleTypes' /\ RingOrder' /\ Unfinished' /\ ReaderGap' /\ ReaderSleepsOnEmpty'
  <2>1. pc' \in [Procs -> PCs] /\ \A q \in Procs :
          pc'[q] \in {"readgap", "readsleep"} => pc'[q] = pc[q]
    BY <1>1, <1>2 DEF PCs
  <2> QED BY <1>1, <1>2, <2>1, ConsoleFrame
<1>4. ClockTypes'
  BY <1>1, <1>2, ClockAssumption DEF ClockTypes
<1>5. Elapsed'
  <2>1. (ticks - ticks) % TICKS = 0 /\ passed[p] = 0
    <3>1. ticks - ticks = 0 /\ 0 \in 0..(TICKS - 1)
      BY <1>1 DEF ClockTypes
    <3> QED BY <1>1, <1>2, <3>1, ModSmall DEF Elapsed, Sleeping
  <2> QED BY <1>1, <1>2, <2>1 DEF Elapsed, Sleeping, ClockTypes
<1>6. TickGap' /\ SleeperNotOverdue'
  BY <1>1, <1>2 DEF TickGap, SleeperNotOverdue, ClockTypes
<1> QED BY <1>3, <1>4, <1>5, <1>6 DEF DevicesInv

\* sys_sleep's loop sleeps only while ticks - ticks0 is below its argument.
LEMMA SleepLoopInv ==
  ASSUME DevicesInv, NEW p \in Procs, SleepLoop(p) \/ SleepSleep(p), UNCHANGED console
  PROVE  DevicesInv'
<1>1. ClockTypes /\ Elapsed /\ TickGap /\ SleeperNotOverdue /\ pc \in [Procs -> PCs]
      /\ killed \in [Procs -> BOOLEAN] /\ missed \subseteq Procs /\ TICKS \in Nat \ {0}
  BY ClockAssumption DEF DevicesInv, ConsoleTypes
<1>2. /\ pc[p] \in {"ticking", "tickgap"} /\ UNCHANGED <<ticks, killed, missed>>
      /\ \/ /\ pc[p] = "ticking" /\ TooEarly(p) /\ ~killed[p]
            /\ pc' = [pc EXCEPT ![p] = "tickgap"] /\ UNCHANGED <<ticks0, dur, passed>>
         \/ /\ pc[p] = "tickgap" /\ pc' = [pc EXCEPT ![p] = "ticksleep"]
            /\ UNCHANGED <<ticks0, dur, passed>>
         \/ /\ pc' = [pc EXCEPT ![p] = "user"] /\ ticks0' = [ticks0 EXCEPT ![p] = 0]
            /\ dur' = [dur EXCEPT ![p] = 0] /\ passed' = [passed EXCEPT ![p] = 0]
  BY DEF SleepLoop, SleepSleep, clock, traps
<1>3. ConsoleTypes' /\ RingOrder' /\ Unfinished' /\ ReaderGap' /\ ReaderSleepsOnEmpty'
  <2>1. pc' \in [Procs -> PCs] /\ \A q \in Procs :
          pc'[q] \in {"readgap", "readsleep"} => pc'[q] = pc[q]
    BY <1>1, <1>2 DEF PCs
  <2> QED BY <1>1, <1>2, <2>1, ConsoleFrame
<1>4. ClockTypes'
  BY <1>1, <1>2 DEF ClockTypes
<1>5. Elapsed'
  BY <1>1, <1>2 DEF Elapsed, Sleeping, ClockTypes
<1>6. TickGap' /\ SleeperNotOverdue'
  BY <1>1, <1>2 DEF TickGap, SleeperNotOverdue, Elapsed, Sleeping, TooEarly, ClockTypes
<1> QED BY <1>3, <1>4, <1>5, <1>6 DEF DevicesInv

LEMMA TrappedInv ==
  ASSUME DevicesInv, NEW p \in Procs, Kill(p) \/ ExitKilled(p), UNCHANGED <<console, clock>>
  PROVE  DevicesInv'
<1>1. ClockTypes /\ Elapsed /\ TickGap /\ SleeperNotOverdue /\ pc \in [Procs -> PCs]
      /\ killed \in [Procs -> BOOLEAN] /\ missed \subseteq Procs
  BY DEF DevicesInv, ConsoleTypes
<1>2. /\ pc' \in [Procs -> PCs] /\ killed' \in [Procs -> BOOLEAN] /\ missed' \subseteq Procs
      /\ \A q \in Procs : /\ Sleeping(q)' <=> Sleeping(q)
                          /\ pc'[q] \in {"readgap", "readsleep", "tickgap", "ticksleep"} =>
                               /\ pc'[q] = pc[q]
                               /\ killed'[q] => \/ q \in missed'
                                                \/ killed[q] /\ (q \in missed => q \in missed')
  BY <1>1 DEF Kill, ExitKilled, Awake, PCs, Sleeping
<1>3. ConsoleTypes' /\ RingOrder' /\ Unfinished' /\ ReaderGap' /\ ReaderSleepsOnEmpty'
  BY <1>2, ConsoleFrame
<1>4. ClockTypes' /\ Elapsed' /\ TickGap' /\ SleeperNotOverdue'
  BY <1>1, <1>2 DEF clock, ClockTypes, Elapsed, TickGap, SleeperNotOverdue
<1> QED BY <1>3, <1>4 DEF DevicesInv

LEMMA DevicesStep == DevicesInv /\ [Next]_vars => DevicesInv'
<1> SUFFICES ASSUME DevicesInv, [Next]_vars PROVE DevicesInv'
  OBVIOUS
<1>1. ASSUME NEW c \in Keys, ConsoleIntr(c), UNCHANGED clock PROVE DevicesInv'
  <2>1. UNCHANGED <<rd, conslock, n, target, traps>> /\ conslock = NoProc
    BY <1>1 DEF ConsoleIntr
  <2>2. ASSUME NEW d \in Chars, Typed(d) PROVE DevicesInv'
    BY <1>1, <2>1, <2>2, TypedInv
  <2>3. CASE ed # wr /\ ed' = Sub(ed, 1) /\ UNCHANGED <<wr, ring, pc>>
    BY <1>1, <2>1, <2>3, EraseInv
  <2>4. CASE ed' = Sub(ed, LineLength) /\ UNCHANGED <<wr, ring, pc>>
    BY <1>1, <2>1, <2>4, EraseInv
  <2> QED BY <1>1, <2>2, <2>3, <2>4 DEF ConsoleIntr, Chars
<1>2. ASSUME NEW p \in Procs, ReadCall(p) \/ Read(p), UNCHANGED clock PROVE DevicesInv'
  BY <1>2, ReadInv
<1>3. ASSUME NEW p \in Procs, SleepCall(p) \/ SleepLoop(p) \/ SleepSleep(p),
             UNCHANGED console
      PROVE  DevicesInv'
  BY <1>3, SleepCallInv, SleepLoopInv
<1>4. CASE UNCHANGED vars
  BY <1>4 DEF vars, traps, console, clock, DevicesInv, ConsoleTypes, ClockTypes, RingOrder,
     Unfinished, Elapsed, Sleeping, ReaderGap, TickGap, ReaderSleepsOnEmpty, SleeperNotOverdue, Sub
<1> QED BY <1>1, <1>2, <1>3, <1>4, TickInv, TrappedInv
        DEF Next, ConsoleNext, ClockNext, Trapped

THEOREM DevicesInvariant == Spec => []DevicesInv
BY DevicesInit, DevicesStep, PTL DEF Spec

\* The indices of the input ring stay in order (console.c:189-231), and nobody
\* sleeps past a line, a deadline (sysproc.c:67-75) or a kill that came while it
\* slept: a killed process is asleep only if the kill fell between its test of
\* killed and its sleep (console.c:246-251, sysproc.c:86-90).
THEOREM DevicesSafety == Spec => []DevicesSound
<1>1. DevicesInv => DevicesSound
  BY ClockAssumption DEF DevicesInv, DevicesSound, TypeOK, ConsoleTypes, ClockTypes, RingOrder
<1> QED BY <1>1, DevicesInvariant, PTL

\* sleep(n) of sysproc.c returns after n ticks have passed, never earlier,
\* wherever in its range ticks was - unless the process was killed.
THEOREM SleepTakesItsTime == Spec => SleepsLongEnough
<1> DEFINE A == \A p \in Procs :
               pc[p] = "ticking" /\ pc'[p] = "user" /\ ~killed[p] => passed[p] >= dur[p]
<1>1. DevicesInv /\ [Next]_vars => [A]_<<pc, traps, clock>>
  <2> SUFFICES ASSUME DevicesInv, Next, NEW p \in Procs,
                      pc[p] = "ticking", pc'[p] = "user", ~killed[p]
               PROVE  passed[p] >= dur[p]
    BY DEF vars
  <2>1. /\ pc \in [Procs -> PCs] /\ ClockTypes /\ passed[p] = (ticks - ticks0[p]) % TICKS
    BY DEF DevicesInv, ConsoleTypes, Elapsed, Sleeping
  <2>2. SleepLoop(p)
    <3>1. ASSUME NEW c \in Keys, ConsoleIntr(c) PROVE FALSE
      BY <2>1, <3>1 DEF ConsoleIntr, Typed, LineWakes, Wakeup, Awake
    <3>2. ASSUME NEW q \in Procs, ReadCall(q) \/ Read(q) PROVE FALSE
      <4>1. \/ pc' = pc
            \/ \E l \in PCs : pc' = [pc EXCEPT ![q] = l] /\ pc[q] \in {"user", "reading", "readgap"}
        BY <3>2, Zenon DEF ReadCall, MayCall, Read, ReadEmpty, ReadSleep, ReadChar, ReadReturn, PCs
      <4> QED BY <2>1, <4>1
    <3>3. ~Tick
      BY <2>1 DEF Tick, TickWakes, Wakeup, Awake
    <3>4. ASSUME NEW q \in Procs, Kill(q) \/ ExitKilled(q) \/ SleepCall(q) PROVE FALSE
      BY <2>1, <3>4 DEF Kill, ExitKilled, SleepCall, Awake
    <3>5. ASSUME NEW q \in Procs, (SleepLoop(q) /\ q # p) \/ SleepSleep(q) PROVE FALSE
      BY <2>1, <3>5 DEF SleepLoop, SleepSleep
    <3> QED BY <3>1, <3>2, <3>3, <3>4, <3>5 DEF Next, ConsoleNext, ClockNext, Trapped
  <2>3. ~TooEarly(p)
    BY <2>1, <2>2 DEF SleepLoop
  <2> QED
    <3>1. passed[p] \in Int /\ dur[p] \in Int
      BY <2>1, ClockAssumption DEF ClockTypes
    <3> QED BY <2>1, <2>3, <3>1 DEF TooEarly
<1>2. SleepsLongEnough <=> [][A]_<<pc, traps, clock>>
  BY DEF SleepsLongEnough
<1> HIDE DEF A
<1> QED BY <1>1, <1>2, DevicesInvariant, PTL DEF Spec

----------------------------------------------------------------------------
(* The ring is a line editor and a queue *)

\* What lies between two counters is a stretch of the ring.
LEMMA BetweenIsRing ==
  ASSUME NEW d, NEW x \in 0..(WORD - 1), NEW y \in 0..(WORD - 1)
  PROVE  [k \in 1..((y - x) % WORD) |-> d[((x + (k - 1)) % WORD) % INPUT_BUF]]
           = Ring(d, x, (y - x) % WORD, INPUT_BUF)
<1>1. WORD \in Nat \ {0} /\ INPUT_BUF \in Nat \ {0} /\ WORD % INPUT_BUF = 0
  BY ConsoleAssumption
<1>2. (y - x) % WORD \in 0..(WORD - 1)
  <2>1. y - x \in Int
    BY <1>1
  <2> QED BY <1>1, <2>1, ModDef
<1>3. ASSUME NEW k \in 1..((y - x) % WORD)
      PROVE  ((x + (k - 1)) % WORD) % INPUT_BUF = (x + (k - 1)) % INPUT_BUF
  <2>1. k - 1 \in 0..(WORD - 1)
    BY <1>1, <1>2
  <2>2. \A i, j \in 0..(WORD - 1) : ((i + j) % WORD) % INPUT_BUF = (i + j) % INPUT_BUF
    BY <1>1, IndexWrap
  <2> QED BY <2>1, <2>2, Zenon
<1> QED BY <1>3, Zenon DEF Ring

Edit == Between(wr, ed)
Ready == Between(rd, wr)

LEMMA StretchNow ==
  ASSUME ConsoleTypes
  PROVE  /\ Edit = Ring(ring, wr, Sub(ed, wr), INPUT_BUF)
         /\ Ready = Ring(ring, rd, Sub(wr, rd), INPUT_BUF)
<1>1. rd \in 0..(WORD - 1) /\ wr \in 0..(WORD - 1) /\ ed \in 0..(WORD - 1)
  BY DEF ConsoleTypes
<1>2. /\ [k \in 1..((ed - wr) % WORD) |-> ring[((wr + (k - 1)) % WORD) % INPUT_BUF]]
           = Ring(ring, wr, (ed - wr) % WORD, INPUT_BUF)
      /\ [k \in 1..((wr - rd) % WORD) |-> ring[((rd + (k - 1)) % WORD) % INPUT_BUF]]
           = Ring(ring, rd, (wr - rd) % WORD, INPUT_BUF)
  BY <1>1, BetweenIsRing
<1> QED BY <1>2, Zenon DEF Edit, Ready, Between, At, Add, Sub

LEMMA StretchNext ==
  ASSUME ConsoleTypes'
  PROVE  /\ Edit' = Ring(ring', wr', Sub(ed', wr'), INPUT_BUF)
         /\ Ready' = Ring(ring', rd', Sub(wr', rd'), INPUT_BUF)
<1>1. rd' \in 0..(WORD - 1) /\ wr' \in 0..(WORD - 1) /\ ed' \in 0..(WORD - 1)
  BY DEF ConsoleTypes
<1>2. /\ [k \in 1..((ed' - wr') % WORD) |-> ring'[((wr' + (k - 1)) % WORD) % INPUT_BUF]]
           = Ring(ring', wr', (ed' - wr') % WORD, INPUT_BUF)
      /\ [k \in 1..((wr' - rd') % WORD) |-> ring'[((rd' + (k - 1)) % WORD) % INPUT_BUF]]
           = Ring(ring', rd', (wr' - rd') % WORD, INPUT_BUF)
  BY <1>1, BetweenIsRing
<1> QED BY <1>2, Zenon DEF Edit, Ready, Between, At, Add, Sub

\* The line under edit and the lines handed over are sequences of characters,
\* one behind the other in the ring.
LEMMA Stretches ==
  ASSUME ConsoleTypes, RingOrder
  PROVE  /\ Edit \in Seq(Chars) /\ Len(Edit) = Sub(ed, wr)
         /\ Ready \in Seq(Chars) /\ Len(Ready) = Sub(wr, rd)
         /\ Ring(ring, rd, Sub(ed, rd), INPUT_BUF) = Ready \o Edit
<1>1. /\ WORD \in Nat \ {0} /\ WORD \in Nat /\ INPUT_BUF \in Nat \ {0}
      /\ WORD % INPUT_BUF = 0
      /\ rd \in 0..(WORD - 1) /\ wr \in 0..(WORD - 1) /\ rd \in Int /\ wr \in Int
  BY ConsoleAssumption DEF ConsoleTypes
<1>2. ring \in Cells(INPUT_BUF, Chars)
  BY DEF ConsoleTypes, Cells
<1>3. /\ Sub(wr, rd) \in Nat /\ Sub(ed, wr) \in Nat
      /\ Sub(ed, rd) = Sub(wr, rd) + Sub(ed, wr)
  BY Distances
<1> DEFINE a == Sub(wr, rd)
           f == Sub(ed, wr)
<1>4. /\ Edit = Ring(ring, wr, f, INPUT_BUF)
      /\ Ready = Ring(ring, rd, a, INPUT_BUF)
  BY StretchNow
<1>5. a = IF wr >= rd THEN wr - rd ELSE wr - rd + WORD
  BY <1>1, WrapSub DEF Sub
<1>6. a \in Nat /\ f \in Nat /\ Sub(ed, rd) = a + f
  BY <1>3
<1> HIDE DEF a, f
<1>7. Edit \in Seq(Chars) /\ Ready \in Seq(Chars)
  BY <1>1, <1>2, <1>4, <1>6, RingType
<1>8. Len(Edit) = f /\ Len(Ready) = a
  BY <1>4, <1>6, <1>7, RingLen
<1>9. Ring(ring, rd + a, f, INPUT_BUF) = Ring(ring, wr, f, INPUT_BUF)
  <2>1. rd + a = wr \/ (rd + a) - WORD = wr
    BY <1>1, <1>5
  <2>2. rd + a \in Int
    BY <1>1, <1>6
  <2>3. \A r \in Int, k \in Nat :
          Ring(ring, r - WORD, k, INPUT_BUF) = Ring(ring, r, k, INPUT_BUF)
    BY <1>1, RingWrap, Zenon
  <2>4. Ring(ring, (rd + a) - WORD, f, INPUT_BUF) = Ring(ring, rd + a, f, INPUT_BUF)
    BY <1>6, <2>2, <2>3, Zenon
  <2> QED BY <2>1, <2>4
<1>10. Ring(ring, rd, a + f, INPUT_BUF)
         = Ring(ring, rd, a, INPUT_BUF) \o Ring(ring, rd + a, f, INPUT_BUF)
  <2>1. \A i, j \in Nat : Ring(ring, rd, i + j, INPUT_BUF)
          = Ring(ring, rd, i, INPUT_BUF) \o Ring(ring, rd + i, j, INPUT_BUF)
    <3>1. INPUT_BUF \in Nat \ {0} /\ rd \in Int
      BY <1>1
    <3> QED BY <1>2, <3>1, RingConcat, Zenon
  <2> QED BY <1>6, <2>1, Zenon
<1> QED BY <1>4, <1>6, <1>7, <1>8, <1>9, <1>10 DEF a, f

LEMMA TypedRefines ==
  ASSUME DevicesInv, DevicesInv', NEW c \in Chars, Typed(c), rd' = rd
  PROVE  Lines!Type(c)
<1>1. ConsoleTypes /\ ConsoleTypes' /\ RingOrder /\ RingOrder'
  BY DEF DevicesInv
<1>2. /\ WORD \in Nat \ {0} /\ INPUT_BUF \in Nat \ {0} /\ WORD % INPUT_BUF = 0
      /\ rd \in 0..(WORD - 1) /\ wr \in 0..(WORD - 1) /\ ed \in 0..(WORD - 1)
      /\ rd \in Int /\ wr \in Int
  BY <1>1, ConsoleAssumption DEF ConsoleTypes
<1>3. ring \in Cells(INPUT_BUF, Chars)
  BY <1>1 DEF ConsoleTypes, Cells
<1>4. /\ ring' = SetCell(ring, ed % INPUT_BUF, c) /\ ed' = Add(ed, 1) /\ ~RingFull
      /\ EndsLine(c) => wr' = ed'
      /\ ~EndsLine(c) => wr' = wr
  BY DEF Typed, SetCell
<1>5. /\ ed' \in 0..(WORD - 1) /\ Sub(ed', rd) = Sub(ed, rd) + 1
      /\ Sub(ed', wr) = Sub(ed, wr) + 1 /\ Sub(ed, rd) < INPUT_BUF
      /\ Add(ed, 1) = Add(rd, INPUT_BUF) <=> Sub(ed, rd) + 1 = INPUT_BUF
  BY <1>1, <1>4, StoreDistances
<1> DEFINE a == Sub(wr, rd)
           e == Sub(ed, rd)
           f == Sub(ed, wr)
<1>6. /\ e = a + f /\ a \in Nat /\ f \in Nat /\ e \in 0..(INPUT_BUF - 1)
      /\ f \in 0..(INPUT_BUF - 1) /\ a \in 0..e
  BY <1>1, <1>2, <1>5, Distances
<1>7. /\ ed % INPUT_BUF = (rd + e) % INPUT_BUF
      /\ ed % INPUT_BUF = (wr + f) % INPUT_BUF
  <2>1. \A x, y \in 0..(WORD - 1) :
          y % INPUT_BUF = (x + ((y - x) % WORD)) % INPUT_BUF
    BY <1>2, IndexOf
  <2> QED BY <1>2, <2>1 DEF Sub
<1>8. /\ Edit \in Seq(Chars) /\ Len(Edit) = f /\ Ready \in Seq(Chars) /\ Len(Ready) = a
      /\ Ring(ring, rd, e, INPUT_BUF) = Ready \o Edit
  BY <1>1, Stretches
<1>9. /\ Edit = Ring(ring, wr, f, INPUT_BUF)
      /\ Ready = Ring(ring, rd, a, INPUT_BUF)
  BY <1>1, StretchNow
<1>10. /\ Edit' = Ring(ring', wr', Sub(ed', wr'), INPUT_BUF)
       /\ Ready' = Ring(ring', rd', Sub(wr', rd'), INPUT_BUF)
  BY <1>1, StretchNext
<1>11. /\ Sub(ed', rd) = e + 1 /\ Sub(ed', wr) = f + 1
       /\ EndsLine(c) <=> (c \in {"nl", "^D"} \/ Len(Edit) + Len(Ready) + 1 = INPUT_BUF)
  BY <1>5, <1>6, <1>8 DEF EndsLine
<1> HIDE DEF a, e, f
<1>12. CASE EndsLine(c)
  <2>1. Ready' = Ring(SetCell(ring, (rd + e) % INPUT_BUF, c), rd, e + 1, INPUT_BUF)
    BY <1>4, <1>7, <1>10, <1>11, <1>12
  <2>2. \A k \in 0..(INPUT_BUF - 1) :
          Ring(SetCell(ring, (rd + k) % INPUT_BUF, c), rd, k + 1, INPUT_BUF)
            = Append(Ring(ring, rd, k, INPUT_BUF), c)
    BY <1>2, <1>3, RingAppend
  <2>3. Ready' = Append(Ready \o Edit, c)
    BY <1>6, <1>8, <2>1, <2>2
  <2>4. Ready' = Ready \o Append(Edit, c)
    <3>1. <<c>> \in Seq(Chars) /\ Ready \o Edit \in Seq(Chars)
      BY <1>8
    <3>2. Append(Ready \o Edit, c) = (Ready \o Edit) \o <<c>>
      BY <3>1, AppendIsConcat
    <3>3. Append(Edit, c) = Edit \o <<c>>
      BY <1>8, AppendIsConcat
    <3>4. (Ready \o Edit) \o <<c>> = Ready \o (Edit \o <<c>>)
      BY <1>8, <3>1, ConcatAssociative
    <3> QED BY <2>3, <3>2, <3>3, <3>4
  <2>5. Edit' = <<>>
    <3>1. Sub(ed', wr') = 0
      BY <1>2, <1>4, <1>5, <1>12, WrapSub DEF Sub
    <3> QED BY <1>10, <3>1 DEF Ring
  <2>6. Len(Edit) + Len(Ready) < INPUT_BUF
    BY <1>2, <1>6, <1>8
  <2> QED BY <1>11, <1>12, <2>4, <2>5, <2>6 DEF Lines!Type, Edit, Ready
<1>13. CASE ~EndsLine(c)
  <2>1. Edit' = Ring(SetCell(ring, (wr + f) % INPUT_BUF, c), wr, f + 1, INPUT_BUF)
    BY <1>4, <1>7, <1>10, <1>11, <1>13
  <2>2. \A k \in 0..(INPUT_BUF - 1) :
          Ring(SetCell(ring, (wr + k) % INPUT_BUF, c), wr, k + 1, INPUT_BUF)
            = Append(Ring(ring, wr, k, INPUT_BUF), c)
    BY <1>2, <1>3, RingAppend
  <2>3. Edit' = Append(Edit, c)
    BY <1>6, <1>9, <2>1, <2>2
  <2>4. Ready' = Ring(SetCell(ring, (rd + e) % INPUT_BUF, c), rd, a, INPUT_BUF)
    BY <1>4, <1>7, <1>10, <1>13 DEF a
  <2>5. \A k \in 0..(INPUT_BUF - 1) : \A j \in 0..k :
          Ring(SetCell(ring, (rd + k) % INPUT_BUF, c), rd, j, INPUT_BUF)
            = Ring(ring, rd, j, INPUT_BUF)
    <3>1. INPUT_BUF \in Nat \ {0} /\ rd \in Int
      BY <1>2
    <3>2. \A r \in Int : \A k \in 0..(INPUT_BUF - 1) : \A j \in 0..k :
            Ring(SetCell(ring, (r + k) % INPUT_BUF, c), r, j, INPUT_BUF)
              = Ring(ring, r, j, INPUT_BUF)
      BY <1>3, <3>1, RingKeep, Zenon
    <3> QED BY <3>1, <3>2, Zenon
  <2>6. Ready' = Ready
    BY <1>6, <1>9, <2>4, <2>5
  <2>7. Len(Edit) + Len(Ready) < INPUT_BUF
    BY <1>2, <1>6, <1>8
  <2> QED BY <1>11, <1>13, <2>3, <2>6, <2>7 DEF Lines!Type, Edit, Ready
<1> QED BY <1>12, <1>13

\* Backspace takes back the last character of the line, ^U the whole line.
LEMMA EraseRefines ==
  ASSUME DevicesInv, DevicesInv', UNCHANGED <<rd, wr, ring>>,
         \/ ed # wr /\ ed' = Sub(ed, 1)
         \/ ed' = Sub(ed, LineLength)
  PROVE  Lines!Erase \/ Lines!KillLine
<1>1. ConsoleTypes /\ ConsoleTypes' /\ RingOrder /\ Unfinished
  BY DEF DevicesInv
<1>2. /\ WORD \in Nat \ {0} /\ INPUT_BUF \in Nat \ {0}
      /\ wr \in 0..(WORD - 1) /\ ed \in 0..(WORD - 1) /\ wr \in Int
  BY <1>1, ConsoleAssumption DEF ConsoleTypes
<1>3. ring \in Cells(INPUT_BUF, Chars)
  BY <1>1 DEF ConsoleTypes, Cells
<1>4. Ready' = Ready
  BY Zenon DEF Ready, Between, At, Add, Sub
<1>5. Edit' = Ring(ring, wr, Sub(ed', wr), INPUT_BUF)
  BY <1>1, StretchNext
<1>6. CASE ed # wr /\ ed' = Sub(ed, 1)
  <2>1. Sub(ed', wr) = Sub(ed, wr) - 1
    <3>1. (((ed - 1) % WORD) - wr) % WORD = ((ed - wr) % WORD) - 1
      BY <1>2, <1>6, DistDown
    <3> QED BY <1>6, <3>1 DEF Sub
  <2>2. Sub(ed, wr) \in Nat \ {0}
    BY <1>1, <1>6, Distances
  <2>3. \A k \in Nat \ {0} :
          /\ Ring(ring, wr, k, INPUT_BUF) # <<>>
          /\ Ring(ring, wr, k - 1, INPUT_BUF) = SubSeq(Ring(ring, wr, k, INPUT_BUF), 1, k - 1)
    BY <1>2, <1>3, RingFront, Zenon
  <2>4. Edit = Ring(ring, wr, Sub(ed, wr), INPUT_BUF) /\ Len(Edit) = Sub(ed, wr)
    BY <1>1, StretchNow, Stretches
  <2>5. Edit # <<>> /\ Edit' = SubSeq(Edit, 1, Len(Edit) - 1)
    BY <1>5, <2>1, <2>2, <2>3, <2>4, Zenon
  <2> QED BY <1>4, <2>5 DEF Lines!Erase, Edit, Ready
<1>7. CASE ed' = Sub(ed, LineLength)
  <2>1. ed' = wr
    BY <1>1, <1>7, KillLineLength
  <2>2. Sub(ed', wr) = 0
    BY <1>2, <2>1, WrapSub DEF Sub
  <2>3. Edit' = <<>>
    BY <1>5, <2>2 DEF Ring
  <2> QED BY <1>4, <2>3 DEF Lines!KillLine, Edit, Ready
<1> QED BY <1>6, <1>7

\* A character read is the first of those handed over.
LEMMA TakeRefines ==
  ASSUME DevicesInv, DevicesInv', UNCHANGED <<wr, ed, ring>>, rd # wr, rd' = Add(rd, 1)
  PROVE  Lines!Take
<1>1. ConsoleTypes /\ ConsoleTypes' /\ RingOrder
  BY DEF DevicesInv
<1>2. /\ WORD \in Nat \ {0} /\ WORD \in Nat /\ INPUT_BUF \in Nat \ {0}
      /\ WORD % INPUT_BUF = 0
      /\ wr \in 0..(WORD - 1) /\ rd \in 0..(WORD - 1) /\ rd \in Int /\ rd + 1 \in Int
  BY <1>1, ConsoleAssumption DEF ConsoleTypes
<1>3. ring \in Cells(INPUT_BUF, Chars)
  BY <1>1 DEF ConsoleTypes, Cells
<1>4. Edit' = Edit
  BY Zenon DEF Edit, Between, At, Add, Sub
<1>5. Ready' = Ring(ring, rd', Sub(wr, rd'), INPUT_BUF)
  BY <1>1, StretchNext
<1>6. Sub(wr, rd') = Sub(wr, rd) - 1
  <2>1. (wr - ((rd + 1) % WORD)) % WORD = ((wr - rd) % WORD) - 1
    BY <1>2, DistDown
  <2> QED BY <2>1 DEF Sub, Add
<1>7. Sub(wr, rd) \in Nat \ {0} /\ Sub(wr, rd) - 1 \in Nat
  BY <1>1, Distances
<1>8. Ready = Ring(ring, rd, Sub(wr, rd), INPUT_BUF)
  BY <1>1, StretchNow
<1>9. \A k \in Nat \ {0} :
        /\ Ring(ring, rd, k, INPUT_BUF) # <<>>
        /\ Tail(Ring(ring, rd, k, INPUT_BUF)) = Ring(ring, rd + 1, k - 1, INPUT_BUF)
  <2>1. INPUT_BUF \in Nat \ {0} /\ rd \in Int
    BY <1>2
  <2> QED BY <1>3, <2>1, RingTail, Zenon
<1>10. Ready # <<>> /\ Tail(Ready) = Ring(ring, rd + 1, Sub(wr, rd) - 1, INPUT_BUF)
  BY <1>7, <1>8, <1>9, Zenon
<1>11. \A r \in Int, k \in Nat :
         Ring(ring, r - WORD, k, INPUT_BUF) = Ring(ring, r, k, INPUT_BUF)
  <2>1. INPUT_BUF \in Nat \ {0} /\ WORD \in Nat /\ WORD % INPUT_BUF = 0
    BY <1>2
  <2> QED BY <2>1, RingWrap, Zenon
<1>12. rd' = rd + 1 \/ rd' = (rd + 1) - WORD
  BY <1>2, WrapInc DEF Add
<1>13. Ring(ring, rd', Sub(wr, rd) - 1, INPUT_BUF) = Ring(ring, rd + 1, Sub(wr, rd) - 1, INPUT_BUF)
  BY <1>2, <1>7, <1>11, <1>12, Zenon
<1>14. Ready' = Tail(Ready)
  BY <1>5, <1>6, <1>10, <1>13
<1> QED BY <1>4, <1>10, <1>14 DEF Lines!Take, Edit, Ready

LEMMA LinesStep ==
  ASSUME DevicesInv, DevicesInv', [Next]_vars
  PROVE  [Lines!Next]_<<Edit, Ready>>
<1>1. ASSUME UNCHANGED <<rd, wr, ed, ring>> PROVE UNCHANGED <<Edit, Ready>>
  BY <1>1, Zenon DEF Edit, Ready, Between, At, Add, Sub
<1>2. ASSUME NEW c \in Keys, ConsoleIntr(c) PROVE Lines!Next
  <2>1. UNCHANGED rd
    BY <1>2 DEF ConsoleIntr
  <2>2. ASSUME NEW d \in Chars, Typed(d) PROVE Lines!Next
    BY <2>1, <2>2, TypedRefines DEF Lines!Next
  <2>3. CASE ed # wr /\ ed' = Sub(ed, 1) /\ UNCHANGED <<wr, ring>>
    BY <2>1, <2>3, EraseRefines DEF Lines!Next
  <2>4. CASE ed' = Sub(ed, LineLength) /\ UNCHANGED <<wr, ring>>
    BY <2>1, <2>4, EraseRefines DEF Lines!Next
  <2> QED BY <1>2, <2>2, <2>3, <2>4 DEF ConsoleIntr, Chars
<1>3. ASSUME NEW p \in Procs, ReadChar(p) PROVE [Lines!Next]_<<Edit, Ready>>
  <2>1. UNCHANGED <<wr, ed, ring>> /\ rd # wr /\ (rd' = rd \/ rd' = Add(rd, 1))
    BY <1>3 DEF ReadChar
  <2>2. CASE rd' = rd
    BY <1>1, <2>1, <2>2
  <2>3. CASE rd' = Add(rd, 1)
    BY <2>1, <2>3, TakeRefines DEF Lines!Next
  <2> QED BY <2>1, <2>2, <2>3
<1>4. ASSUME NEW p \in Procs, ReadCall(p) \/ ReadEmpty(p) \/ ReadSleep(p)
      PROVE  UNCHANGED <<rd, wr, ed, ring>>
  BY <1>4 DEF ReadCall, ReadEmpty, ReadSleep
<1>5. CASE UNCHANGED console
  BY <1>1, <1>5 DEF console
<1> QED BY <1>1, <1>2, <1>3, <1>4, <1>5 DEF Next, ConsoleNext, Read, vars

\* The ring with its wrapping indices (console.c:189-231 and 254-268) implements
\* a line editor and a queue: whatever the interleaving of keys and readers, no
\* typed character is lost, overwritten or read twice, and erasing never reaches
\* a line that was handed over.
THEOREM InputIsLines == Spec => LinesInOrder
<1>1. Init => Lines!Init
  <2> SUFFICES ASSUME Init PROVE Lines!Init
    OBVIOUS
  <2>1. wr = 0 /\ ed = 0 /\ rd = 0 /\ WORD \in Nat \ {0}
    BY ConsoleAssumption DEF Init, ConsoleInit
  <2>2. (0 - 0) % WORD = 0
    BY <2>1, ModSmall
  <2> QED BY <2>1, <2>2 DEF Lines!Init, Between, Sub
<1>2. DevicesInv /\ DevicesInv' /\ [Next]_vars => [Lines!Next]_<<Between(wr, ed), Between(rd, wr)>>
  BY LinesStep DEF Edit, Ready
<1> QED BY <1>1, <1>2, DevicesInvariant, PTL DEF Spec, LinesInOrder, Lines!Spec
=============================================================================
