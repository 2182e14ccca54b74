------------------------------ MODULE SchedAbs ------------------------------
(***************************************************************************)
(* The interface of schedulinginterface.h as a state machine: every        *)
(* function of pq, rrq and rpholder, with what it returns, in terms of the *)
(* operators of SchedQueues.  proc.c calls them under ptable.lock, so each *)
(* call is one step.  Booleans are returned as 0 and 1, null as 0.         *)
(***************************************************************************)
EXTENDS SchedQueues

CONSTANTS Procs, Keys, NLINKS, NNODES

VARIABLES
  s,     \* the structures: see SchedQueues
  acc,   \* the accumulators of the processes
  ret    \* what the last call returned

absvars == <<s, acc, ret>>

AbsInit ==
  /\ s = InitSchedDS(NLINKS) /\ ret = 0
  /\ acc \in [Procs -> Keys]

Bool(b) == IF b THEN 1 ELSE 0

AbsPut(p) ==
  /\ s' = Put(s, p, acc[p]) /\ ret' = Bool(CanPut(s))
  /\ UNCHANGED acc

AbsExtractMin ==
  /\ IF s.pq = <<>>
     THEN ret' = 0 /\ UNCHANGED s
     ELSE ret' = MinEntry(s).proc /\ s' = ExtractMin(s)
  /\ UNCHANGED acc

AbsAdd(p) ==
  /\ s' = AddHeld(s, p) /\ ret' = Bool(CanPut(s))
  /\ UNCHANGED acc

AbsRemove(p) ==
  /\ s' = RemoveHeld(s, p) /\ ret' = Bool(p \in Held(s))
  /\ UNCHANGED acc

AbsGetMin == ret' = GetMin(s, acc) /\ UNCHANGED <<s, acc>>

AbsEnqueue(p) ==
  /\ s' = IF CanPut(s) THEN [s EXCEPT !.rrq = Append(@, p), !.free = @ - 1] ELSE s
  /\ ret' = Bool(CanPut(s))
  /\ UNCHANGED acc

AbsDequeue ==
  /\ IF s.rrq = <<>>
     THEN ret' = 0 /\ UNCHANGED s
     ELSE /\ ret' = Head(s.rrq)
          /\ s' = [s EXCEPT !.rrq = Tail(@), !.free = @ + 1]
  /\ UNCHANGED acc

\* pq.switchToRoundRobinPolicy: in the order of the keys.
AbsToRoundRobin ==
  /\ s' = IF s.rrq = <<>>
          THEN [s EXCEPT !.rrq = [i \in DOMAIN s.pq |-> s.pq[i].proc], !.pq = <<>>]
          ELSE s
  /\ ret' = Bool(s.rrq = <<>>)
  /\ UNCHANGED acc

\* rrq.switchToPriorityQueuePolicy: everybody with the key 0, in FIFO order.
AbsToPriority ==
  /\ s' = IF s.pq = <<>>
          THEN [s EXCEPT !.pq = [i \in DOMAIN s.rrq |-> Entry(s.rrq[i], 0)],
                         !.rrq = <<>>]
          ELSE s
  /\ ret' = Bool(s.pq = <<>>)
  /\ UNCHANGED acc

\* pq.extractProc rebuilds the queue without p, with the accumulators of now.  It
\* needs a free tree node, and there is one node for every key.
AbsExtractProc(p) ==
  LET q == SelectSeq(s.pq, LAMBDA e : e.proc # p)
      PutNow(t, e) == Put(t, e.proc, acc[e.proc])
  IN /\ IF Cardinality({e.key : e \in Range(s.pq)}) < NNODES
        THEN /\ s' = FoldLeft(PutNow,
                              [s EXCEPT !.pq = <<>>, !.free = @ + Len(s.pq)], q)
             /\ ret' = Bool(p \in Queued(s))
        ELSE ret' = 0 /\ UNCHANGED s
     /\ UNCHANGED acc

\* proc.c changes an accumulator, whether or not the process is in a queue.
AbsSetAcc ==
  /\ \E p \in Procs, k \in Keys : acc' = [acc EXCEPT ![p] = k]
  /\ UNCHANGED <<s, ret>>

AbsNext ==
  \/ AbsExtractMin \/ AbsGetMin \/ AbsDequeue \/ AbsToRoundRobin \/ AbsToPriority
  \/ AbsSetAcc
  \/ \E p \in Procs : \/ AbsPut(p) \/ AbsAdd(p) \/ AbsRemove(p) \/ AbsEnqueue(p)
                      \/ AbsExtractProc(p)

AbsSpec == AbsInit /\ [][AbsNext]_absvars
============================================================================
