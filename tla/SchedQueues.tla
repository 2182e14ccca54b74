---------------------------- MODULE SchedQueues ----------------------------
(***************************************************************************)
(* What the three scheduling structures of ass1ds.cpp (the priority queue  *)
(* pq, the round-robin queue rrq and the running-process holder rpholder,  *)
(* reached through the function tables of schedulinginterface.h) promise   *)
(* their caller proc.c.  Module SchedDS models how the lists, tree nodes   *)
(* and free lists of ass1ds.cpp implement these operators.                 *)
(*                                                                         *)
(* The structures together are one record s:                               *)
(*   s.pq    the entries of the tree, a sequence of [proc, key] ordered by *)
(*           key and, for equal keys, by arrival.  The key is the value    *)
(*           the accumulator had at the put: nothing updates it later;     *)
(*   s.rrq   the round-robin FIFO, a sequence of processes;                *)
(*   s.rp    the processes in rpholder, oldest first;                      *)
(*   s.free  the number of Links left in the pool all three share.         *)
(***************************************************************************)
EXTENDS Integers, Sequences, FiniteSets, SequencesExt

Entry(p, k) == [proc |-> p, key |-> k]

\* The pool NPROCLIST is threaded onto freeLinks; the structures are empty.
InitSchedDS(nlinks) == [pq |-> <<>>, rrq |-> <<>>, rp |-> <<>>, free |-> nlinks]

\* The place of a new entry with key k: before the first entry whose key is
\* larger, that is at the end of the list of the node that has key k.
PutPos(q, k) ==
  CHOOSE i \in 1..(Len(q) + 1) :
    /\ i <= Len(q) => q[i].key > k
    /\ \A j \in 1..(i - 1) : q[j].key <= k

\* pq.put(p), k being getAccumulator(p).  It returns false and changes
\* nothing when the link pool is exhausted.
CanPut(s) == s.free > 0

Put(s, p, k) ==
  IF CanPut(s)
  THEN [pq |-> InsertAt(s.pq, PutPos(s.pq, k), Entry(p, k)),
        rrq |-> s.rrq, rp |-> s.rp, free |-> s.free - 1]
  ELSE s

\* pq.extractMin(), for a queue that is not empty.
MinEntry(s) == Head(s.pq)

\* Mutant of ExtractMin: the link is not given back.
ExtractMinLeaks(s) ==
  [pq |-> Tail(s.pq), rrq |-> s.rrq, rp |-> s.rp, free |-> s.free]

ExtractMin(s) ==
  [pq |-> Tail(s.pq), rrq |-> s.rrq, rp |-> s.rp, free |-> s.free + 1]

\* rpholder.add(p): LinkedList::enqueue, which fails like put.
AddHeld(s, p) ==
  IF CanPut(s)
  THEN [pq |-> s.pq, rrq |-> s.rrq, rp |-> Append(s.rp, p), free |-> s.free - 1]
  ELSE s

\* rpholder.remove(p): unlinks the first link of p, if there is one.
FirstOf(h, p) ==
  CHOOSE i \in 1..Len(h) : h[i] = p /\ \A j \in 1..(i - 1) : h[j] # p

\* Mutant of RemoveHeld: a process that left the CPU stays in rpholder.
RemoveHeldKeeps(s, p) == s

RemoveHeld(s, p) ==
  IF \E i \in 1..Len(s.rp) : s.rp[i] = p
  THEN [pq |-> s.pq, rrq |-> s.rrq, rp |-> RemoveAt(s.rp, FirstOf(s.rp, p)),
        free |-> s.free + 1]
  ELSE s

\* rpholder.getMinAccumulator: unlike pq it looks at the accumulators the
\* processes have now.
MinHeld(s, acc) ==
  CHOOSE k \in {acc[s.rp[i]] : i \in 1..Len(s.rp)} :
    \A i \in 1..Len(s.rp) : k <= acc[s.rp[i]]

\* get_min of proc.c: the accumulator a newcomer starts with.
GetMin(s, acc) ==
  IF s.pq = <<>> THEN 0
  ELSE IF s.rp = <<>> THEN MinEntry(s).key
  ELSE IF MinEntry(s).key < MinHeld(s, acc) THEN MinEntry(s).key
  ELSE MinHeld(s, acc)

----------------------------------------------------------------------------
(* Views of the structures that the properties speak about. *)

\* The set of values of the structures, with processes P and keys lo..hi.
SchedSet(P, lo, hi) ==
  [pq : Seq([proc : P, key : lo..hi]), rrq : Seq(P), rp : Seq(P), free : Nat]

\* The processes that have an entry in pq, and those rpholder holds.
Queued(s) == {s.pq[i].proc : i \in 1..Len(s.pq)}
Held(s) == {s.rp[i] : i \in 1..Len(s.rp)}

Sorted(s) == \A i, j \in 1..Len(s.pq) : i < j => s.pq[i].key <= s.pq[j].key

NoDuplicate(h) == \A i, j \in 1..Len(h) : h[i] = h[j] => i = j

\* Every Link is in the free list or in exactly one of the structures.
LinksConserved(s, nlinks) ==
  s.free + Len(s.pq) + Len(s.rrq) + Len(s.rp) = nlinks
============================================================================
