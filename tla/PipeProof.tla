------------------------------ MODULE PipeProof ------------------------------
(***************************************************************************)
(* Proofs about Pipe, for any number of processes, any buffer size and any *)
(* range of the counters that the size divides: nobody sleeps past a       *)
(* wakeup, the page is freed once and after its last use, and the ring is  *)
(* a bounded FIFO.                                                         *)
(***************************************************************************)
EXTENDS Pipe, RingProof

\* Where a process holds p->lock.
Inside == {"wloop", "wtest", "rloop", "rtest", "rcopy"}
WritePCs == {"wloop", "wtest", "wsleep", "wwoken"}
ReadPCs == {"rloop", "rtest", "rsleep", "rwoken", "rcopy"}

\* p->lock is held exactly inside a call and outside sleep.
LockHeld == \A p \in Procs : lock = p <=> pc[p] \in Inside

\* The flags follow the descriptors, and a process in a call has its end open.
EndsOpen ==
  /\ readopen <=> rfd # {}
  /\ writeopen <=> wfd # {}
  /\ freed <=> ~readopen /\ ~writeopen
  /\ wfd \subseteq Writers
  /\ \A p \in Procs : /\ pc[p] \in WritePCs => p \in wfd
                      /\ pc[p] \in ReadPCs => p \in rfd

\* The bytes in the ring.
Count == (nwrite - nread) % WRAP

\* The holder of the lock is at l.
HolderAt(l) == \E q \in Procs : lock = q /\ pc[q] = l

\* A sleeper has a reason, or the holder of the lock is about to wake it: a
\* reader in its copying loop wakes the writers, a writer in its loop the readers.
SleepInv ==
  \A p \in Procs :
    /\ pc[p] = "wtest" => Full /\ readopen
    /\ pc[p] = "rtest" => Empty /\ writeopen
    /\ pc[p] = "wsleep" => readopen /\ (Full \/ HolderAt("rcopy"))
    /\ pc[p] = "rsleep" => /\ writeopen
                           /\ Empty \/ HolderAt("wloop") \/ \E w \in Writers : killed[w]

\* The inductive invariant.
PipeInv == TypeOK /\ LockHeld /\ EndsOpen /\ Count <= PIPESIZE /\ SleepInv

----------------------------------------------------------------------------
(* The counters *)

\* Full and empty are what the difference of the counters says.
LEMMA CountFacts ==
  ASSUME TypeOK
  PROVE  /\ Count \in 0..(WRAP - 1)
         /\ Full <=> Count = PIPESIZE
         /\ Empty <=> Count = 0
<1>1. /\ WRAP \in Nat \ {0} /\ PIPESIZE \in 0..(WRAP - 1) /\ PIPESIZE > 0
      /\ nread \in 0..(WRAP - 1) /\ nwrite \in 0..(WRAP - 1)
  BY PipeAssumption DEF TypeOK
<1>2. Count = IF nwrite >= nread THEN nwrite - nread ELSE nwrite - nread + WRAP
  BY <1>1, WrapSub DEF Count
<1>3. (nread + PIPESIZE) % WRAP
        = IF nread + PIPESIZE >= WRAP THEN nread + PIPESIZE - WRAP ELSE nread + PIPESIZE
  BY <1>1, WrapAdd
<1> QED BY <1>1, <1>2, <1>3 DEF Full, Empty

\* A byte more, and a byte less, also over the wrap.
LEMMA CountSteps ==
  ASSUME TypeOK
  PROVE  /\ nwrite' = (nwrite + 1) % WRAP /\ nread' = nread /\ Count < PIPESIZE
              => nwrite' \in 0..(WRAP - 1) /\ Count' = Count + 1
         /\ nread' = (nread + 1) % WRAP /\ nwrite' = nwrite /\ Count > 0
              => nread' \in 0..(WRAP - 1) /\ Count' = Count - 1
<1>1. /\ WRAP \in Nat \ {0} /\ PIPESIZE \in 0..(WRAP - 1)
      /\ nread \in 0..(WRAP - 1) /\ nwrite \in 0..(WRAP - 1)
  BY PipeAssumption DEF TypeOK
<1>2. Count = IF nwrite >= nread THEN nwrite - nread ELSE nwrite - nread + WRAP
  BY <1>1, WrapSub DEF Count
<1>3. ASSUME nwrite' = (nwrite + 1) % WRAP, nread' = nread, Count < PIPESIZE
      PROVE  nwrite' \in 0..(WRAP - 1) /\ Count' = Count + 1
  <2>1. nwrite' = IF nwrite + 1 = WRAP THEN 0 ELSE nwrite + 1
    BY <1>1, <1>3, WrapInc
  <2>2. nwrite' \in 0..(WRAP - 1)
    BY <1>1, <2>1
  <2>3. (nwrite' - nread) % WRAP
          = IF nwrite' >= nread THEN nwrite' - nread ELSE nwrite' - nread + WRAP
    BY <1>1, <2>2, WrapSub
  <2>4. Count' = (nwrite' - nread) % WRAP
    BY <1>3 DEF Count
  <2> QED BY <1>1, <1>2, <1>3, <2>1, <2>2, <2>3, <2>4
<1>4. ASSUME nread' = (nread + 1) % WRAP, nwrite' = nwrite, Count > 0
      PROVE  nread' \in 0..(WRAP - 1) /\ Count' = Count - 1
  <2>1. nread' = IF nread + 1 = WRAP THEN 0 ELSE nread + 1
    BY <1>1, <1>4, WrapInc
  <2>2. nread' \in 0..(WRAP - 1)
    BY <1>1, <2>1
  <2>3. (nwrite - nread') % WRAP
          = IF nwrite >= nread' THEN nwrite - nread' ELSE nwrite - nread' + WRAP
    BY <1>1, <2>2, WrapSub
  <2>4. Count' = (nwrite - nread') % WRAP
    BY <1>4 DEF Count
  <2> QED BY <1>1, <1>2, <1>4, <2>1, <2>2, <2>3, <2>4
<1> QED BY <1>3, <1>4

----------------------------------------------------------------------------
(* The invariant *)

LEMMA PipeInit == Init => PipeInv
<1> SUFFICES ASSUME Init PROVE PipeInv
  OBVIOUS
<1>1. TypeOK
  <2>1. 0 \in 0..(WRAP - 1) /\ 0 \in 0..MaxN
    BY PipeAssumption
  <2>2. killed \in [Procs -> BOOLEAN] /\ readopen \in BOOLEAN /\ writeopen \in BOOLEAN
        /\ freed \in BOOLEAN
    BY Zenon DEF Init
  <2> QED BY <2>1, <2>2, PipeAssumption DEF Init, TypeOK, PCs
<1>2. Count = 0
  BY <1>1, CountFacts DEF Init, Empty
<1> QED BY <1>1, <1>2, PipeAssumption DEF Init, PipeInv, LockHeld, EndsOpen, SleepInv, Inside, WritePCs, ReadPCs

LEMMA CallTyped ==
  ASSUME TypeOK, NEW p \in Procs, NEW l \in PCs, Call(p, l)
  PROVE  TypeOK'
<1>1. PICK k \in 0..MaxN : n' = [n EXCEPT ![p] = k]
  BY DEF Call
<1>2. n' \in [Procs -> 0..MaxN] /\ i' \in [Procs -> 0..MaxN]
  BY <1>1, PipeAssumption DEF Call, TypeOK
<1>3. pc' \in [Procs -> PCs] /\ lock' \in Procs \cup {NoProc}
  BY DEF Call, Goto, TypeOK
<1> QED BY <1>2, <1>3 DEF Call, TypeOK, ends

\* Every step keeps the invariant: only WriteByte and ReadByte move a counter, and
\* who sleeps is woken by the step that takes the reason away.
LEMMA PipeStep == PipeInv /\ [Next]_vars => PipeInv'
<1> SUFFICES ASSUME PipeInv, [Next]_vars PROVE PipeInv'
  OBVIOUS
<1>1. TypeOK /\ LockHeld /\ EndsOpen /\ Count <= PIPESIZE /\ SleepInv
  BY DEF PipeInv
<1>2. /\ Count \in 0..(WRAP - 1)
      /\ Full <=> Count = PIPESIZE
      /\ Empty <=> Count = 0
  BY <1>1, CountFacts
<1>3. ASSUME UNCHANGED <<nread, nwrite>>
      PROVE  Count' = Count /\ Full' = Full /\ Empty' = Empty
  BY <1>3 DEF Count, Full, Empty
<1>4. ASSUME NEW p \in Procs, WriteStart(p) PROVE PipeInv'
  <2>1. UNCHANGED <<nread, nwrite>> /\ Count' = Count /\ Full' = Full /\ Empty' = Empty
    BY <1>3, <1>4 DEF WriteStart, Call, ends
  <2>2. TypeOK'
    BY <1>1, <1>4, CallTyped DEF WriteStart, PCs
  <2>3. LockHeld'
    BY <1>1, <1>4, PipeAssumption DEF WriteStart, Call, Goto, TypeOK, LockHeld, Inside, ends
  <2>4. EndsOpen'
    BY <1>1, <1>4 DEF WriteStart, Call, Goto, TypeOK, EndsOpen, WritePCs, ReadPCs, ends
  <2>5. SleepInv'
    BY <1>1, <1>2, <1>4, <2>1, PipeAssumption
    DEF WriteStart, Call, Goto, TypeOK, LockHeld, EndsOpen, SleepInv, HolderAt, Inside, WritePCs, ReadPCs, ends
  <2> QED BY <1>1, <2>1, <2>2, <2>3, <2>4, <2>5 DEF PipeInv
<1>5. ASSUME NEW p \in Procs, ReadStart(p) PROVE PipeInv'
  <2>1. UNCHANGED <<nread, nwrite>> /\ Count' = Count /\ Full' = Full /\ Empty' = Empty
    BY <1>3, <1>5 DEF ReadStart, Call, ends
  <2>2. TypeOK'
    BY <1>1, <1>5, CallTyped DEF ReadStart, PCs
  <2>3. LockHeld'
    BY <1>1, <1>5, PipeAssumption DEF ReadStart, Call, Goto, TypeOK, LockHeld, Inside, ends
  <2>4. EndsOpen'
    BY <1>1, <1>5 DEF ReadStart, Call, Goto, TypeOK, EndsOpen, WritePCs, ReadPCs, ends
  <2>5. SleepInv'
    BY <1>1, <1>2, <1>5, <2>1, PipeAssumption
    DEF ReadStart, Call, Goto, TypeOK, LockHeld, EndsOpen, SleepInv, HolderAt, Inside, WritePCs, ReadPCs, ends
  <2> QED BY <1>1, <2>1, <2>2, <2>3, <2>4, <2>5 DEF PipeInv
<1>6. ASSUME NEW p \in Procs, WriteFail(p) PROVE PipeInv'
  <2>1. UNCHANGED <<nread, nwrite>> /\ Count' = Count /\ Full' = Full /\ Empty' = Empty
    BY <1>3, <1>6 DEF WriteFail, Return, ends
  <2>2. TypeOK'
    BY <1>1, <1>6, PipeAssumption DEF WriteFail, Return, Goto, TypeOK, PCs, ends
  <2>3. LockHeld'
    BY <1>1, <1>6, PipeAssumption DEF WriteFail, Return, Goto, TypeOK, LockHeld, Inside, ends
  <2>4. EndsOpen'
    BY <1>1, <1>6 DEF WriteFail, Return, Goto, TypeOK, EndsOpen, WritePCs, ReadPCs, ends
  <2>5. SleepInv'
    BY <1>1, <1>2, <1>6, <2>1, PipeAssumption
    DEF WriteFail, Return, Goto, TypeOK, LockHeld, EndsOpen, SleepInv, HolderAt, Inside, WritePCs, ReadPCs, ends
  <2> QED BY <1>1, <2>1, <2>2, <2>3, <2>4, <2>5 DEF PipeInv
<1>7. ASSUME NEW p \in Procs, WriteTest(p) PROVE PipeInv'
  <2>1. UNCHANGED <<nread, nwrite>> /\ Count' = Count /\ Full' = Full /\ Empty' = Empty
    BY <1>3, <1>7 DEF WriteTest, WakeReaders, ends
  <2>2. TypeOK'
    BY <1>1, <1>7, PipeAssumption DEF WriteTest, WakeReaders, WakeAndGoto, TypeOK, PCs, ends
  <2>3. LockHeld'
    BY <1>1, <1>7, PipeAssumption DEF WriteTest, WakeReaders, WakeAndGoto, TypeOK, LockHeld, Inside, ends
  <2>4. EndsOpen'
    BY <1>1, <1>7 DEF WriteTest, WakeReaders, WakeAndGoto, TypeOK, EndsOpen, WritePCs, ReadPCs, ends
  <2>5. SleepInv'
    BY <1>1, <1>2, <1>7, <2>1, PipeAssumption
    DEF WriteTest, WakeReaders, WakeAndGoto, TypeOK, LockHeld, EndsOpen, SleepInv, HolderAt, Inside, WritePCs, ReadPCs, ends
  <2> QED BY <1>1, <2>1, <2>2, <2>3, <2>4, <2>5 DEF PipeInv
<1>8. ASSUME NEW p \in Procs, WriteSleep(p) PROVE PipeInv'
  <2>1. UNCHANGED <<nread, nwrite>> /\ Count' = Count /\ Full' = Full /\ Empty' = Empty
    BY <1>3, <1>8 DEF WriteSleep, Sleep, ends
  <2>2. TypeOK'
    BY <1>1, <1>8, PipeAssumption DEF WriteSleep, Sleep, Goto, TypeOK, PCs, ends
  <2>3. LockHeld'
    BY <1>1, <1>8, PipeAssumption DEF WriteSleep, Sleep, Goto, TypeOK, LockHeld, Inside, ends
  <2>4. EndsOpen'
    BY <1>1, <1>8 DEF WriteSleep, Sleep, Goto, TypeOK, EndsOpen, WritePCs, ReadPCs, ends
  <2>5. SleepInv'
    BY <1>1, <1>2, <1>8, <2>1, PipeAssumption
    DEF WriteSleep, Sleep, Goto, TypeOK, LockHeld, EndsOpen, SleepInv, HolderAt, Inside, WritePCs, ReadPCs, ends
  <2> QED BY <1>1, <2>1, <2>2, <2>3, <2>4, <2>5 DEF PipeInv
<1>9. ASSUME NEW p \in Procs, WriteResume(p) PROVE PipeInv'
  <2>1. UNCHANGED <<nread, nwrite>> /\ Count' = Count /\ Full' = Full /\ Empty' = Empty
    BY <1>3, <1>9 DEF WriteResume, Resume, ends
  <2>2. TypeOK'
    BY <1>1, <1>9, PipeAssumption DEF WriteResume, Resume, Goto, TypeOK, PCs, ends
  <2>3. LockHeld'
    BY <1>1, <1>9, PipeAssumption DEF WriteResume, Resume, Goto, TypeOK, LockHeld, Inside, ends
  <2>4. EndsOpen'
    BY <1>1, <1>9 DEF WriteResume, Resume, Goto, TypeOK, EndsOpen, WritePCs, ReadPCs, ends
  <2>5. SleepInv'
    BY <1>1, <1>2, <1>9, <2>1, PipeAssumption
    DEF WriteResume, Resume, Goto, TypeOK, LockHeld, EndsOpen, SleepInv, HolderAt, Inside, WritePCs, ReadPCs, ends
  <2> QED BY <1>1, <2>1, <2>2, <2>3, <2>4, <2>5 DEF PipeInv
<1>10. ASSUME NEW p \in Procs, WriteDone(p) PROVE PipeInv'
  <2>1. UNCHANGED <<nread, nwrite>> /\ Count' = Count /\ Full' = Full /\ Empty' = Empty
    BY <1>3, <1>10 DEF WriteDone, Return, ends
  <2>2. TypeOK'
    BY <1>1, <1>10, PipeAssumption DEF WriteDone, Return, WakeReaders, WakeAndGoto, TypeOK, PCs, ends
  <2>3. LockHeld'
    BY <1>1, <1>10, PipeAssumption DEF WriteDone, Return, WakeReaders, WakeAndGoto, TypeOK, LockHeld, Inside, ends
  <2>4. EndsOpen'
    BY <1>1, <1>10 DEF WriteDone, Return, WakeReaders, WakeAndGoto, TypeOK, EndsOpen, WritePCs, ReadPCs, ends
  <2>5. SleepInv'
    BY <1>1, <1>2, <1>10, <2>1, PipeAssumption
    DEF WriteDone, Return, WakeReaders, WakeAndGoto, TypeOK, LockHeld, EndsOpen, SleepInv, HolderAt, Inside, WritePCs, ReadPCs, ends
  <2> QED BY <1>1, <2>1, <2>2, <2>3, <2>4, <2>5 DEF PipeInv
<1>11. ASSUME NEW p \in Procs, ReadFail(p) PROVE PipeInv'
  <2>1. UNCHANGED <<nread, nwrite>> /\ Count' = Count /\ Full' = Full /\ Empty' = Empty
    BY <1>3, <1>11 DEF ReadFail, Return, ends
  <2>2. TypeOK'
    BY <1>1, <1>11, PipeAssumption DEF ReadFail, Return, Goto, TypeOK, PCs, ends
  <2>3. LockHeld'
    BY <1>1, <1>11, PipeAssumption DEF ReadFail, Return, Goto, TypeOK, LockHeld, Inside, ends
  <2>4. EndsOpen'
    BY <1>1, <1>11 DEF ReadFail, Return, Goto, TypeOK, EndsOpen, WritePCs, ReadPCs, ends
  <2>5. SleepInv'
    BY <1>1, <1>2, <1>11, <2>1, PipeAssumption
    DEF ReadFail, Return, Goto, TypeOK, LockHeld, EndsOpen, SleepInv, HolderAt, Inside, WritePCs, ReadPCs, ends
  <2> QED BY <1>1, <2>1, <2>2, <2>3, <2>4, <2>5 DEF PipeInv
<1>12. ASSUME NEW p \in Procs, ReadTest(p) PROVE PipeInv'
  <2>1. UNCHANGED <<nread, nwrite>> /\ Count' = Count /\ Full' = Full /\ Empty' = Empty
    BY <1>3, <1>12 DEF ReadTest, Goto, ends
  <2>2. TypeOK'
    BY <1>1, <1>12, PipeAssumption DEF ReadTest, Goto, TypeOK, PCs, ends
  <2>3. LockHeld'
    BY <1>1, <1>12, PipeAssumption DEF ReadTest, Goto, TypeOK, LockHeld, Inside, ends
  <2>4. EndsOpen'
    BY <1>1, <1>12 DEF ReadTest, Goto, TypeOK, EndsOpen, WritePCs, ReadPCs, ends
  <2>5. SleepInv'
    BY <1>1, <1>2, <1>12, <2>1, PipeAssumption
    DEF ReadTest, Goto, TypeOK, LockHeld, EndsOpen, SleepInv, HolderAt, Inside, WritePCs, ReadPCs, ends
  <2> QED BY <1>1, <2>1, <2>2, <2>3, <2>4, <2>5 DEF PipeInv
<1>13. ASSUME NEW p \in Procs, ReadSleep(p) PROVE PipeInv'
  <2>1. UNCHANGED <<nread, nwrite>> /\ Count' = Count /\ Full' = Full /\ Empty' = Empty
    BY <1>3, <1>13 DEF ReadSleep, Sleep, ends
  <2>2. TypeOK'
    BY <1>1, <1>13, PipeAssumption DEF ReadSleep, Sleep, Goto, TypeOK, PCs, ends
  <2>3. LockHeld'
    BY <1>1, <1>13, PipeAssumption DEF ReadSleep, Sleep, Goto, TypeOK, LockHeld, Inside, ends
  <2>4. EndsOpen'
    BY <1>1, <1>13 DEF ReadSleep, Sleep, Goto, TypeOK, EndsOpen, WritePCs, ReadPCs, ends
  <2>5. SleepInv'
    BY <1>1, <1>2, <1>13, <2>1, PipeAssumption
    DEF ReadSleep, Sleep, Goto, TypeOK, LockHeld, EndsOpen, SleepInv, HolderAt, Inside, WritePCs, ReadPCs, ends
  <2> QED BY <1>1, <2>1, <2>2, <2>3, <2>4, <2>5 DEF PipeInv
<1>14. ASSUME NEW p \in Procs, ReadResume(p) PROVE PipeInv'
  <2>1. UNCHANGED <<nread, nwrite>> /\ Count' = Count /\ Full' = Full /\ Empty' = Empty
    BY <1>3, <1>14 DEF ReadResume, Resume, ends
  <2>2. TypeOK'
    BY <1>1, <1>14, PipeAssumption DEF ReadResume, Resume, Goto, TypeOK, PCs, ends
  <2>3. LockHeld'
    BY <1>1, <1>14, PipeAssumption DEF ReadResume, Resume, Goto, TypeOK, LockHeld, Inside, ends
  <2>4. EndsOpen'
    BY <1>1, <1>14 DEF ReadResume, Resume, Goto, TypeOK, EndsOpen, WritePCs, ReadPCs, ends
  <2>5. SleepInv'
    BY <1>1, <1>2, <1>14, <2>1, PipeAssumption
    DEF ReadResume, Resume, Goto, TypeOK, LockHeld, EndsOpen, SleepInv, HolderAt, Inside, WritePCs, ReadPCs, ends
  <2> QED BY <1>1, <2>1, <2>2, <2>3, <2>4, <2>5 DEF PipeInv
<1>15. ASSUME NEW p \in Procs, ReadReady(p) PROVE PipeInv'
  <2>1. UNCHANGED <<nread, nwrite>> /\ Count' = Count /\ Full' = Full /\ Empty' = Empty
    BY <1>3, <1>15 DEF ReadReady, Goto, ends
  <2>2. TypeOK'
    BY <1>1, <1>15, PipeAssumption DEF ReadReady, Goto, TypeOK, PCs, ends
  <2>3. LockHeld'
    BY <1>1, <1>15, PipeAssumption DEF ReadReady, Goto, TypeOK, LockHeld, Inside, ends
  <2>4. EndsOpen'
    BY <1>1, <1>15 DEF ReadReady, Goto, TypeOK, EndsOpen, WritePCs, ReadPCs, ends
  <2>5. SleepInv'
    BY <1>1, <1>2, <1>15, <2>1, PipeAssumption
    DEF ReadReady, Goto, TypeOK, LockHeld, EndsOpen, SleepInv, HolderAt, Inside, WritePCs, ReadPCs, ends
  <2> QED BY <1>1, <2>1, <2>2, <2>3, <2>4, <2>5 DEF PipeInv
<1>16. ASSUME NEW p \in Procs, ReadDone(p) PROVE PipeInv'
  <2>1. UNCHANGED <<nread, nwrite>> /\ Count' = Count /\ Full' = Full /\ Empty' = Empty
    BY <1>3, <1>16 DEF ReadDone, Return, ends
  <2>2. TypeOK'
    BY <1>1, <1>16, PipeAssumption DEF ReadDone, Return, WakeWriters, WakeAndGoto, TypeOK, PCs, ends
  <2>3. LockHeld'
    BY <1>1, <1>16, PipeAssumption DEF ReadDone, Return, WakeWriters, WakeAndGoto, TypeOK, LockHeld, Inside, ends
  <2>4. EndsOpen'
    BY <1>1, <1>16 DEF ReadDone, Return, WakeWriters, WakeAndGoto, TypeOK, EndsOpen, WritePCs, ReadPCs, ends
  <2>5. SleepInv'
    BY <1>1, <1>2, <1>16, <2>1, PipeAssumption
    DEF ReadDone, Return, WakeWriters, WakeAndGoto, TypeOK, LockHeld, EndsOpen, SleepInv, HolderAt, Inside, WritePCs, ReadPCs, ends
  <2> QED BY <1>1, <2>1, <2>2, <2>3, <2>4, <2>5 DEF PipeInv
<1>17. ASSUME NEW p \in Procs, CloseWrite(p) PROVE PipeInv'
  <2>1. UNCHANGED <<nread, nwrite>> /\ Count' = Count /\ Full' = Full /\ Empty' = Empty
    BY <1>3, <1>17 DEF CloseWrite, WakeReaders, ends
  <2>2. TypeOK'
    BY <1>1, <1>17, PipeAssumption DEF CloseWrite, WakeReaders, WakeAndGoto, TypeOK, PCs, ends
  <2>3. LockHeld'
    BY <1>1, <1>17, PipeAssumption DEF CloseWrite, WakeReaders, WakeAndGoto, TypeOK, LockHeld, Inside, ends
  <2>4. EndsOpen'
    BY <1>1, <1>17 DEF CloseWrite, WakeReaders, WakeAndGoto, TypeOK, EndsOpen, WritePCs, ReadPCs, ends
  <2>5. lock = NoProc /\ lock' = NoProc /\ \A q \in Procs : pc[q] \notin {"wtest", "rtest"} /\ ~HolderAt("rcopy") /\ ~HolderAt("wloop")
    BY <1>1, <1>17, PipeAssumption DEF CloseWrite, LockHeld, HolderAt, Inside
  <2>6. SleepInv'
    <3>1. CASE writeopen'
      BY <1>1, <1>17, <2>1, <2>5, <3>1 DEF CloseWrite, TypeOK, EndsOpen, SleepInv, HolderAt
    <3>2. CASE ~writeopen'
      BY <1>1, <1>17, <2>1, <2>5, <3>2
      DEF CloseWrite, WakeReaders, WakeAndGoto, TypeOK, EndsOpen, SleepInv, HolderAt, ReadPCs, WritePCs
    <3> QED BY <3>1, <3>2
  <2> QED BY <1>1, <2>1, <2>2, <2>3, <2>4, <2>6 DEF PipeInv
<1>18. ASSUME NEW p \in Procs, CloseRead(p) PROVE PipeInv'
  <2>1. UNCHANGED <<nread, nwrite>> /\ Count' = Count /\ Full' = Full /\ Empty' = Empty
    BY <1>3, <1>18 DEF CloseRead, WakeWriters, ends
  <2>2. TypeOK'
    BY <1>1, <1>18, PipeAssumption DEF CloseRead, WakeWriters, WakeAndGoto, TypeOK, PCs, ends
  <2>3. LockHeld'
    BY <1>1, <1>18, PipeAssumption DEF CloseRead, WakeWriters, WakeAndGoto, TypeOK, LockHeld, Inside, ends
  <2>4. EndsOpen'
    BY <1>1, <1>18 DEF CloseRead, WakeWriters, WakeAndGoto, TypeOK, EndsOpen, WritePCs, ReadPCs, ends
  <2>5. lock = NoProc /\ lock' = NoProc /\ \A q \in Procs : pc[q] \notin {"wtest", "rtest"} /\ ~HolderAt("rcopy") /\ ~HolderAt("wloop")
    BY <1>1, <1>18, PipeAssumption DEF CloseRead, LockHeld, HolderAt, Inside
  <2>6. SleepInv'
    <3>1. CASE readopen'
      BY <1>1, <1>18, <2>1, <2>5, <3>1 DEF CloseRead, TypeOK, EndsOpen, SleepInv, HolderAt
    <3>2. CASE ~readopen'
      BY <1>1, <1>18, <2>1, <2>5, <3>2
      DEF CloseRead, WakeWriters, WakeAndGoto, TypeOK, EndsOpen, SleepInv, HolderAt, ReadPCs, WritePCs
    <3> QED BY <3>1, <3>2
  <2> QED BY <1>1, <2>1, <2>2, <2>3, <2>4, <2>6 DEF PipeInv
<1>19. ASSUME NEW p \in Procs, Kill(p) PROVE PipeInv'
  <2>1. UNCHANGED <<nread, nwrite>> /\ Count' = Count /\ Full' = Full /\ Empty' = Empty
    BY <1>3, <1>19 DEF Kill, Goto, ends
  <2>2. TypeOK'
    BY <1>1, <1>19, PipeAssumption DEF Kill, Goto, TypeOK, PCs, ends
  <2>3. LockHeld'
    BY <1>1, <1>19, PipeAssumption DEF Kill, Goto, TypeOK, LockHeld, Inside, ends
  <2>4. EndsOpen'
    BY <1>1, <1>19 DEF Kill, Goto, TypeOK, EndsOpen, WritePCs, ReadPCs, ends
  <2>5. SleepInv'
    BY <1>1, <1>2, <1>19, <2>1, PipeAssumption
    DEF Kill, Goto, TypeOK, LockHeld, EndsOpen, SleepInv, HolderAt, Inside, WritePCs, ReadPCs, ends
  <2> QED BY <1>1, <2>1, <2>2, <2>3, <2>4, <2>5 DEF PipeInv
<1>20. ASSUME NEW p \in Procs, WriteByte(p) PROVE PipeInv'
  <2>1. nwrite' \in 0..(WRAP - 1) /\ Count' = Count + 1 /\ Count + 1 <= PIPESIZE
    BY <1>1, <1>2, <1>20, CountSteps, PipeAssumption DEF WriteByte
  <2>2. TypeOK'
    BY <1>1, <1>20, <2>1, PipeAssumption DEF WriteByte, TypeOK, ends
  <2>3. LockHeld' /\ EndsOpen'
    BY <1>1, <1>20 DEF WriteByte, LockHeld, EndsOpen, ends
  <2>4. SleepInv'
    BY <1>1, <1>2, <1>20, <2>1, CountFacts
    DEF WriteByte, TypeOK, LockHeld, SleepInv, HolderAt, Inside, ends
  <2> QED BY <2>1, <2>2, <2>3, <2>4 DEF PipeInv
<1>21. ASSUME NEW p \in Procs, ReadByte(p) PROVE PipeInv'
  <2>1. nread' \in 0..(WRAP - 1) /\ Count' = Count - 1 /\ Count - 1 <= PIPESIZE
    BY <1>1, <1>2, <1>21, CountSteps, PipeAssumption DEF ReadByte
  <2>2. out' \in Bytes
    <3>1. nread % PIPESIZE \in 0..(PIPESIZE - 1)
      <4>1. nread \in Int /\ PIPESIZE \in Nat \ {0}
        BY <1>1, PipeAssumption DEF TypeOK
      <4> QED BY <4>1, ModDef
    <3> QED BY <1>1, <1>21, <3>1 DEF ReadByte, TypeOK
  <2>3. TypeOK'
    BY <1>1, <1>21, <2>1, <2>2, PipeAssumption DEF ReadByte, TypeOK, ends
  <2>4. LockHeld' /\ EndsOpen'
    BY <1>1, <1>21 DEF ReadByte, LockHeld, EndsOpen, ends
  <2>5. SleepInv'
    BY <1>1, <1>2, <1>21, <2>1, CountFacts
    DEF ReadByte, TypeOK, LockHeld, SleepInv, HolderAt, Inside, ends
  <2> QED BY <2>1, <2>3, <2>4, <2>5 DEF PipeInv
<1>22. CASE UNCHANGED vars
  BY <1>1, <1>22 DEF vars, ends, PipeInv, TypeOK, LockHeld, EndsOpen, SleepInv, HolderAt, Count, Full, Empty
<1> QED
  BY <1>4, <1>5, <1>6, <1>7, <1>8, <1>9, <1>10, <1>11, <1>12, <1>13, <1>14, <1>15,
     <1>16, <1>17, <1>18, <1>19, <1>20, <1>21, <1>22 DEF Next, Step

----------------------------------------------------------------------------
(* Sleeping, waking and freeing *)

THEOREM PipeInvariant == Spec => []PipeInv
<1>1. Init => PipeInv
  BY PipeInit
<1>2. PipeInv /\ [Next]_vars => PipeInv'
  BY PipeStep
<1> QED BY <1>1, <1>2, PTL DEF Spec

\* Nobody sleeps past a wakeup, and the page is freed once, after the last use.
THEOREM PipeSafety == Spec => []PipeSound
<1>1. PipeInv => PipeSound
  <2> SUFFICES ASSUME PipeInv PROVE PipeSound
    OBVIOUS
  <2>1. TypeOK /\ LockHeld /\ EndsOpen /\ SleepInv
    BY DEF PipeInv
  <2>2. SleepJustified
    BY <2>1, PipeAssumption DEF SleepJustified, SleepInv, HolderAt
  <2>3. FreedUnused
    <3>1. ASSUME freed, NEW p \in Procs PROVE pc[p] = "idle" /\ p \notin rfd \cup wfd
      BY <2>1, <3>1 DEF EndsOpen, TypeOK, PCs, WritePCs, ReadPCs
    <3> QED BY <2>1, <3>1 DEF FreedUnused, EndsOpen, TypeOK
  <2> QED BY <2>1, <2>2, <2>3 DEF PipeSound
<1> QED BY <1>1, PipeInvariant, PTL

----------------------------------------------------------------------------
(* End of file *)

\* A read has copied nothing until it copies, and one that finds the pipe empty
\* before its first byte finds the other end closed.
EofInv ==
  \A p \in Procs : /\ pc[p] \in ReadPCs \ {"rcopy"} => i[p] = 0
                   /\ pc[p] = "rcopy" /\ i[p] = 0 /\ Empty => ~writeopen

LEMMA EofStep == PipeInv /\ EofInv /\ [Next]_vars => EofInv'
<1> SUFFICES ASSUME PipeInv, EofInv, [Next]_vars PROVE EofInv'
  OBVIOUS
<1>1. TypeOK /\ LockHeld
  BY DEF PipeInv
<1>2. ASSUME NEW p \in Procs, WriteStart(p) \/ ReadStart(p) PROVE EofInv'
  BY <1>1, <1>2 DEF WriteStart, ReadStart, Call, Goto, TypeOK, EofInv, ReadPCs, Empty, ends
<1>3. ASSUME NEW p \in Procs, WriteByte(p) PROVE EofInv'
  BY <1>1, <1>3 DEF WriteByte, TypeOK, LockHeld, Inside, EofInv, ReadPCs, ends
<1>4. ASSUME NEW p \in Procs, WriteFail(p) \/ ReadFail(p) PROVE EofInv'
  BY <1>1, <1>4 DEF WriteFail, ReadFail, Return, Goto, TypeOK, EofInv, ReadPCs, Empty, ends
<1>5. ASSUME NEW p \in Procs, WriteTest(p) PROVE EofInv'
  BY <1>1, <1>5 DEF WriteTest, WakeReaders, WakeAndGoto, TypeOK, EofInv, ReadPCs, Empty, ends
<1>6. ASSUME NEW p \in Procs, WriteSleep(p) \/ ReadSleep(p) PROVE EofInv'
  BY <1>1, <1>6 DEF WriteSleep, ReadSleep, Sleep, Goto, TypeOK, EofInv, ReadPCs, Empty, ends
<1>7. ASSUME NEW p \in Procs, WriteResume(p) \/ ReadResume(p) PROVE EofInv'
  BY <1>1, <1>7 DEF WriteResume, ReadResume, Resume, Goto, TypeOK, EofInv, ReadPCs, Empty, ends
<1>8. ASSUME NEW p \in Procs, WriteDone(p) PROVE EofInv'
  BY <1>1, <1>8 DEF WriteDone, WakeReaders, WakeAndGoto, Return, TypeOK, EofInv, ReadPCs, Empty, ends
<1>9. ASSUME NEW p \in Procs, ReadDone(p) PROVE EofInv'
  BY <1>1, <1>9 DEF ReadDone, WakeWriters, WakeAndGoto, Return, TypeOK, EofInv, ReadPCs, Empty, ends
<1>10. ASSUME NEW p \in Procs, ReadTest(p) \/ ReadReady(p) PROVE EofInv'
  BY <1>1, <1>10 DEF ReadTest, ReadReady, Goto, TypeOK, EofInv, ReadPCs, Empty, ends
<1>11. ASSUME NEW p \in Procs, ReadByte(p) PROVE EofInv'
  BY <1>1, <1>11 DEF ReadByte, TypeOK, LockHeld, Inside, EofInv, ReadPCs, ends
<1>12. ASSUME NEW p \in Procs, CloseWrite(p) PROVE EofInv'
  BY <1>1, <1>12, PipeAssumption
  DEF CloseWrite, WakeReaders, WakeAndGoto, TypeOK, LockHeld, Inside, EofInv, ReadPCs, Empty
<1>13. ASSUME NEW p \in Procs, CloseRead(p) PROVE EofInv'
  BY <1>1, <1>13, PipeAssumption
  DEF CloseRead, WakeWriters, WakeAndGoto, TypeOK, LockHeld, Inside, EofInv, ReadPCs, Empty
<1>14. ASSUME NEW p \in Procs, Kill(p) PROVE EofInv'
  BY <1>1, <1>14 DEF Kill, Goto, TypeOK, EofInv, ReadPCs, Empty, ends
<1>15. CASE UNCHANGED vars
  BY <1>15 DEF vars, ends, EofInv, Empty
<1> QED
  BY <1>2, <1>3, <1>4, <1>5, <1>6, <1>7, <1>8, <1>9, <1>10, <1>11, <1>12, <1>13, <1>14,
     <1>15 DEF Next, Step

\* End of file is told only at the end: a read that returns 0 although it asked
\* for more (pipe.c:101-126) does so on an empty pipe that nobody can write.
THEOREM PipeEof == Spec => EofMeansClosed
<1>1. Init => EofInv
  BY DEF Init, EofInv, ReadPCs
<1>2. PipeInv /\ EofInv => \A p \in Procs :
        ReadDone(p) /\ i[p] = 0 /\ n[p] > 0 => Empty /\ ~writeopen
  BY DEF ReadDone, EofInv
<1> QED BY <1>1, <1>2, EofStep, PipeInvariant, PTL DEF Spec, EofMeansClosed

----------------------------------------------------------------------------
(* The ring is a bounded FIFO *)

LEMMA QueueIsRing == Queue = Ring(data, nread, Count, PIPESIZE)
BY DEF Queue, Ring, Count

\* The cell WriteByte fills is the one behind the last.
LEMMA WriteIndex ==
  ASSUME TypeOK
  PROVE  nwrite % PIPESIZE = (nread + Count) % PIPESIZE
<1>1. /\ WRAP \in Nat \ {0} /\ PIPESIZE \in Nat \ {0} /\ WRAP % PIPESIZE = 0
      /\ nread \in 0..(WRAP - 1) /\ nwrite \in 0..(WRAP - 1)
  BY PipeAssumption DEF TypeOK
<1>2. Count = IF nwrite >= nread THEN nwrite - nread ELSE nwrite - nread + WRAP
  BY <1>1, WrapSub DEF Count
<1>3. (nwrite + WRAP) % PIPESIZE = nwrite % PIPESIZE
  <2>1. nwrite \in Int /\ WRAP \in Nat
    BY <1>1
  <2> QED BY <1>1, <2>1, WrapIndex, Zenon
<1>4. nread + Count = nwrite \/ nread + Count = nwrite + WRAP
  BY <1>1, <1>2
<1> QED BY <1>3, <1>4

\* A step of the pipe writes a byte behind the last, takes the first one, or
\* leaves the queue and what was read last alone.
LEMMA FifoStep == PipeInv /\ [Next]_vars => [Abs!Put \/ Abs!Get]_<<Queue, out>>
<1> SUFFICES ASSUME PipeInv, [Next]_vars PROVE Abs!Put \/ Abs!Get \/ UNCHANGED <<Queue, out>>
  OBVIOUS
<1>1. /\ TypeOK /\ Count <= PIPESIZE /\ Count \in Nat
      /\ Full <=> Count = PIPESIZE
      /\ Empty <=> Count = 0
  BY CountFacts DEF PipeInv
<1>2. /\ PIPESIZE \in Nat \ {0} /\ nread \in 0..(WRAP - 1) /\ nread \in Int
      /\ WRAP \in Nat \ {0} /\ WRAP \in Nat /\ WRAP % PIPESIZE = 0
  BY <1>1, PipeAssumption DEF TypeOK
<1>3. data \in Cells(PIPESIZE, Bytes)
  BY <1>1 DEF TypeOK, Cells
<1>4. ASSUME NEW p \in Procs, WriteByte(p) PROVE Abs!Put
  <2>1. PICK b \in Bytes : data' = [data EXCEPT ![nwrite % PIPESIZE] = b]
    BY <1>4 DEF WriteByte
  <2>2. Count' = Count + 1 /\ Count < PIPESIZE /\ nread' = nread /\ out' = out
    BY <1>1, <1>2, <1>4, CountSteps DEF WriteByte, ends
  <2>3. Count \in 0..(PIPESIZE - 1)
    BY <1>1, <1>2, <2>2
  <2>4. data' = [data EXCEPT ![(nread + Count) % PIPESIZE] = b]
    BY <1>1, <2>1, WriteIndex
  <2>5. Ring(SetCell(data, (nread + Count) % PIPESIZE, b), nread, Count + 1, PIPESIZE)
          = Append(Ring(data, nread, Count, PIPESIZE), b)
    <3>1. \A c \in 0..(PIPESIZE - 1), x \in Bytes :
            Ring(SetCell(data, (nread + c) % PIPESIZE, x), nread, c + 1, PIPESIZE)
              = Append(Ring(data, nread, c, PIPESIZE), x)
      BY <1>2, <1>3, RingAppend
    <3> QED BY <2>3, <3>1
  <2>6. Queue' = Ring(data', nread', Count', PIPESIZE)
    BY DEF Queue, Ring, Count
  <2>7. Queue' = Append(Queue, b)
    BY <2>2, <2>4, <2>5, <2>6, QueueIsRing DEF SetCell
  <2>8. Len(Queue) = Count
    <3>1. Ring(data, nread, Count, PIPESIZE) \in Seq(Bytes)
      BY <1>1, <1>2, <1>3, RingType
    <3> QED BY <1>1, <3>1, RingLen, QueueIsRing
  <2> QED BY <2>2, <2>7, <2>8 DEF Abs!Put
<1>5. ASSUME NEW p \in Procs, ReadByte(p) PROVE Abs!Get
  <2>1. /\ Count' = Count - 1 /\ Count \in Nat \ {0} /\ data' = data
        /\ out' = data[nread % PIPESIZE] /\ nread' = (nread + 1) % WRAP
    BY <1>1, <1>2, <1>5, CountSteps DEF ReadByte, ends
  <2>2. /\ Queue # <<>> /\ Head(Queue) = data[nread % PIPESIZE]
        /\ Tail(Queue) = Ring(data, nread + 1, Count - 1, PIPESIZE)
    <3>1. \A c \in Nat \ {0} :
            /\ Ring(data, nread, c, PIPESIZE) # <<>>
            /\ Head(Ring(data, nread, c, PIPESIZE)) = data[nread % PIPESIZE]
            /\ Tail(Ring(data, nread, c, PIPESIZE)) = Ring(data, nread + 1, c - 1, PIPESIZE)
      BY <1>2, <1>3, RingTail
    <3>2. /\ Ring(data, nread, Count, PIPESIZE) # <<>>
          /\ Head(Ring(data, nread, Count, PIPESIZE)) = data[nread % PIPESIZE]
          /\ Tail(Ring(data, nread, Count, PIPESIZE))
               = Ring(data, nread + 1, Count - 1, PIPESIZE)
      BY <2>1, <3>1
    <3> QED BY <3>2, QueueIsRing
  <2>3. Ring(data, nread', Count - 1, PIPESIZE) = Ring(data, nread + 1, Count - 1, PIPESIZE)
    <3>1. nread' = nread + 1 \/ nread' = (nread + 1) - WRAP
      <4>1. (nread + 1) % WRAP = IF nread + 1 = WRAP THEN 0 ELSE nread + 1
        BY <1>2, WrapInc, Zenon
      <4> QED BY <1>2, <2>1, <4>1
    <3>2. nread + 1 \in Int /\ Count - 1 \in Nat
      BY <1>2, <2>1
    <3>3. Ring(data, (nread + 1) - WRAP, Count - 1, PIPESIZE)
            = Ring(data, nread + 1, Count - 1, PIPESIZE)
      <4>1. \A r \in Int, c \in Nat :
              Ring(data, r - WRAP, c, PIPESIZE) = Ring(data, r, c, PIPESIZE)
        BY <1>2, RingWrap, Zenon
      <4> QED BY <3>2, <4>1, Zenon
    <3> QED BY <3>1, <3>3
  <2>4. Queue' = Ring(data', nread', Count', PIPESIZE)
    BY DEF Queue, Ring, Count
  <2>5. Queue' = Tail(Queue)
    BY <2>1, <2>2, <2>3, <2>4
  <2> QED BY <2>1, <2>2, <2>5 DEF Abs!Get
<1>6. ASSUME UNCHANGED <<data, nread, nwrite, out>> PROVE UNCHANGED <<Queue, out>>
  BY <1>6 DEF Queue
<1>7. ASSUME NEW p \in Procs, \/ WriteStart(p) \/ ReadStart(p) \/ WriteFail(p) \/ WriteTest(p)
                              \/ WriteSleep(p) \/ WriteResume(p) \/ WriteDone(p)
      PROVE  UNCHANGED <<data, nread, nwrite, out>>
  BY <1>7 DEF WriteStart, ReadStart, Call, WriteFail, WriteTest, WriteSleep, WriteResume,
     WriteDone, Sleep, Resume, Return
<1>8. ASSUME NEW p \in Procs, \/ ReadFail(p) \/ ReadTest(p) \/ ReadSleep(p) \/ ReadResume(p)
                              \/ ReadReady(p) \/ ReadDone(p)
                              \/ CloseWrite(p) \/ CloseRead(p) \/ Kill(p)
      PROVE  UNCHANGED <<data, nread, nwrite, out>>
  BY <1>8 DEF ReadFail, ReadTest, ReadSleep, ReadResume, ReadReady, ReadDone, CloseWrite,
     CloseRead, Kill, Sleep, Resume, Return
<1>9. CASE UNCHANGED vars
  BY <1>6, <1>9 DEF vars
<1> QED BY <1>4, <1>5, <1>6, <1>7, <1>8, <1>9 DEF Next, Step

\* The ring buffer of pipe.c:75-126 implements a bounded FIFO: no byte is lost,
\* duplicated, reordered or overwritten, also when the counters wrap around.
THEOREM PipeIsFifo == Spec => FifoQueue
<1>1. Init => Abs!AbsInit
  <2> SUFFICES ASSUME Init PROVE Abs!AbsInit
    OBVIOUS
  <2>1. TypeOK /\ Empty
    BY PipeInit DEF PipeInv, Init, Empty
  <2>2. Count = 0
    BY <2>1, CountFacts
  <2>3. Queue = <<>>
    BY <2>2 DEF Queue, Count
  <2> QED BY <2>3 DEF Init, Abs!AbsInit
<1> QED BY <1>1, FifoStep, PipeInvariant, PTL DEF Spec, FifoQueue, Abs!AbsSpec
=============================================================================
