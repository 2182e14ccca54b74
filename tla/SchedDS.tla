------------------------------ MODULE SchedDS ------------------------------
(***************************************************************************)
(* ass1ds.cpp: the links, lists, tree nodes and free lists behind pq, rrq  *)
(* and rpholder.                                                           *)
(*                                                                         *)
(* The heap is one record h.  A pointer is the Link or MapNode it points   *)
(* to, or Null:                                                            *)
(*   next, proc       the fields of the Links;                             *)
(*   key, left, right, parent, nnext   the fields of the MapNodes;         *)
(*   list             the LinkedLists: listOfProcs of every node,          *)
(*                    roundRobinQ (RR) and runningProcHolder (RP);         *)
(*   freeLinks, freeNodes, root.                                           *)
(* The process of a free Link and the key of a free MapNode keep their old *)
(* value in the code, are not read before they are written again, and are  *)
(* 0 in the model.                                                         *)
(***************************************************************************)
EXTENDS Integers, Sequences, FiniteSets, SequencesExt

CONSTANTS
  Procs, Keys,
  Links, Nodes,  \* the Links and MapNodes that initSchedDS allocates
  Null, RR, RP

ASSUME SchedDSAssumption ==
  /\ Links # {} /\ Nodes # {} /\ IsFiniteSet(Links) /\ IsFiniteSet(Nodes)
  /\ Null \notin Links \cup Nodes /\ {RR, RP} \cap Nodes = {} /\ RR # RP
  /\ Procs \subseteq Nat \ {0} /\ Keys \subseteq Nat /\ 0 \in Keys

Lists == Nodes \cup {RR, RP}
EmptyList == [first |-> Null, last |-> Null]

VARIABLES h, acc, ret
vars == <<h, acc, ret>>

\* A chain of the elements of f, in that order.
Chained(f) ==
  [k \in Range(f) |-> LET i == CHOOSE i \in DOMAIN f : f[i] = k
                     IN IF i = Len(f) THEN Null ELSE f[i + 1]]

\* initSchedDS pushes the links and the nodes one by one onto the free lists.
Init ==
  /\ \E f \in SetToSeqs(Links), g \in SetToSeqs(Nodes) :
       LET null == [d \in Nodes |-> Null] IN
       h = [next |-> Chained(f), proc |-> [k \in Links |-> 0],
            key |-> [d \in Nodes |-> 0],
            left |-> null, right |-> null, parent |-> null, nnext |-> Chained(g),
            list |-> [l \in Lists |-> EmptyList],
            freeLinks |-> Head(f), freeNodes |-> Head(g), root |-> Null]
  /\ acc \in [Procs -> Keys] /\ ret = 0

Bool(b) == IF b THEN 1 ELSE 0

----------------------------------------------------------------------------
(* LinkedList *)

\* allocLink and append; the list is unchanged if there is no link.
Enqueue(x, l, p) ==
  LET k == x.freeLinks
      old == x.list[l]
      free == [x.next EXCEPT ![k] = Null]
  IN IF k = Null THEN x
     ELSE [x EXCEPT !.freeLinks = x.next[k],
                    !.proc[k] = p,
                    !.next = IF old.first = Null THEN free
                             ELSE [free EXCEPT ![old.last] = k],
                    !.list[l] = [first |-> IF old.first = Null THEN k ELSE old.first,
                                 last |-> k]]

Dequeue(x, l) ==
  LET k == x.list[l].first
      rest == x.next[k]
  IN [x EXCEPT !.next[k] = x.freeLinks, !.proc[k] = 0,
               !.freeLinks = k,
               !.list[l] = [first |-> rest,
                            last |-> IF rest = Null THEN Null ELSE x.list[l].last]]

\* The links from k on, as the loops over next visit them.
RECURSIVE LinksFrom(_, _)
LinksFrom(x, k) == IF k = Null THEN <<>> ELSE <<k>> \o LinksFrom(x, x.next[k])

ProcsOf(x, l) ==
  LET c == LinksFrom(x, x.list[l].first) IN [i \in DOMAIN c |-> x.proc[c[i]]]

\* Mutant of RemoveAfter: last is not moved when the last link is removed.
RECURSIVE RemoveAfterStale(_, _, _, _)
RemoveAfterStale(x, l, prev, p) ==
  LET cur == x.next[prev] IN
  IF cur = Null THEN x
  ELSE IF x.proc[cur] # p THEN RemoveAfterStale(x, l, cur, p)
  ELSE [x EXCEPT !.next = [x.next EXCEPT ![prev] = x.next[cur],
                                         ![cur] = x.freeLinks],
                 !.proc[cur] = 0, !.freeLinks = cur]

\* remove: prev and cur walk down the list.
RECURSIVE RemoveAfter(_, _, _, _)
RemoveAfter(x, l, prev, p) ==
  LET cur == x.next[prev] IN
  IF cur = Null THEN x
  ELSE IF x.proc[cur] # p THEN RemoveAfter(x, l, cur, p)
  ELSE [x EXCEPT !.next = [x.next EXCEPT ![prev] = x.next[cur],
                                         ![cur] = x.freeLinks],
                 !.list[l].last = IF x.next[cur] = Null THEN prev ELSE @,
                 !.proc[cur] = 0, !.freeLinks = cur]

RemoveLink(x, l, p) ==
  IF x.list[l].first = Null THEN x
  ELSE IF x.proc[x.list[l].first] = p THEN Dequeue(x, l)
  ELSE RemoveAfter(x, l, x.list[l].first, p)

----------------------------------------------------------------------------
(* Map and MapNode *)

DeallocNode(x, d) ==
  [x EXCEPT !.parent[d] = Null, !.left[d] = Null, !.right[d] = Null,
            !.key[d] = 0, !.nnext[d] = x.freeNodes, !.freeNodes = d]

AllocNode(x, k) ==
  LET d == x.freeNodes IN
  [x EXCEPT !.freeNodes = x.nnext[d], !.nnext[d] = Null, !.key[d] = k]

\* allocNode(p, key): the node is given back if there is no link for p.
AllocNodeFor(x, p, k) ==
  LET d == x.freeNodes
      y == AllocNode(x, k)
  IN IF y.freeLinks = Null THEN DeallocNode(y, d) ELSE Enqueue(y, d, p)

NodeFor(x) == IF x.freeNodes = Null \/ x.freeLinks = Null THEN Null ELSE x.freeNodes

\* MapNode::put, from node d down.
RECURSIVE NodePut(_, _, _, _)
NodePut(x, d, p, k) ==
  LET y == IF x.freeNodes = Null THEN x ELSE AllocNodeFor(x, p, k)
      new == NodeFor(x)
  IN IF k = x.key[d] THEN Enqueue(x, d, p)
     ELSE IF k < x.key[d]
     THEN IF x.left[d] # Null THEN NodePut(x, x.left[d], p, k)
          ELSE IF new = Null THEN y
          ELSE [y EXCEPT !.left[d] = new, !.parent[new] = d]
     ELSE IF x.right[d] # Null THEN NodePut(x, x.right[d], p, k)
          ELSE IF new = Null THEN y
          ELSE [y EXCEPT !.right[d] = new, !.parent[new] = d]

\* Map::put.
MapPut(x, p, k) ==
  IF x.root # Null THEN NodePut(x, x.root, p, k)
  ELSE IF x.freeNodes = Null THEN x
  ELSE [AllocNodeFor(x, p, k) EXCEPT !.root = NodeFor(x)]

RECURSIVE MinNode(_, _)
MinNode(x, d) == IF x.left[d] = Null THEN d ELSE MinNode(x, x.left[d])

MinProc(x) == x.proc[x.list[MinNode(x, x.root)].first]

\* Map::extractMin, for a tree that is not empty.
MapExtractMin(x) ==
  LET d == MinNode(x, x.root)
      r == x.right[d]
      up == IF d = x.root THEN Null ELSE x.parent[d]
      y == Dequeue(x, d)
      linked == IF r = Null THEN y ELSE [y EXCEPT !.parent[r] = up]
      unhooked == IF d = x.root THEN [linked EXCEPT !.root = r]
                  ELSE [linked EXCEPT !.left[up] = r]
  IN IF y.list[d].first # Null THEN y ELSE DeallocNode(unhooked, d)

\* Map::transfer, the loop.
RECURSIVE Drain(_)
Drain(x) ==
  IF x.root = Null THEN x ELSE Drain(Enqueue(MapExtractMin(x), RR, MinProc(x)))

\* Map::extractProc, the loop: t is the root of tempMap.
RECURSIVE Rebuild(_, _, _)
Rebuild(x, t, p) ==
  LET y == MapExtractMin(x)
      q == MinProc(x)
      z == MapPut([y EXCEPT !.root = t], q, acc[q])
  IN IF x.root = Null THEN [x EXCEPT !.root = t]
     ELSE IF q = p THEN Rebuild(y, t, p)
     ELSE Rebuild([z EXCEPT !.root = y.root], z.root, p)

----------------------------------------------------------------------------
(* The functions of the interface. *)

PqPut(p) ==
  /\ h' = MapPut(h, p, acc[p])
  /\ ret' = Bool(h'.freeLinks # h.freeLinks)
  /\ UNCHANGED acc

PqExtractMin ==
  /\ IF h.root = Null
     THEN ret' = 0 /\ UNCHANGED h
     ELSE ret' = MinProc(h) /\ h' = MapExtractMin(h)
  /\ UNCHANGED acc

RpAdd(p) ==
  /\ h' = Enqueue(h, RP, p) /\ ret' = Bool(h.freeLinks # Null)
  /\ UNCHANGED acc

RpRemove(p) ==
  /\ h' = RemoveLink(h, RP, p) /\ ret' = Bool(h'.freeLinks # h.freeLinks)
  /\ UNCHANGED acc

\* Mutant of HeldMin: the oldest running process counts, not the least one.
HeldFirst == acc[ProcsOf(h, RP)[1]]

\* get_min of proc.c, with Map::getMinKey and LinkedList::getMinKey.
HeldMin ==
  LET a == {acc[ProcsOf(h, RP)[i]] : i \in DOMAIN ProcsOf(h, RP)}
  IN CHOOSE k \in a : \A m \in a : k <= m

GetMinAccumulator ==
  /\ ret' = IF h.root = Null THEN 0
            ELSE LET k == h.key[MinNode(h, h.root)] IN
                 IF h.list[RP].first = Null THEN k
                 ELSE IF k < HeldMin THEN k ELSE HeldMin
  /\ UNCHANGED <<h, acc>>

RrEnqueue(p) ==
  /\ h' = Enqueue(h, RR, p) /\ ret' = Bool(h.freeLinks # Null)
  /\ UNCHANGED acc

RrDequeue ==
  /\ IF h.list[RR].first = Null
     THEN ret' = 0 /\ UNCHANGED h
     ELSE ret' = h.proc[h.list[RR].first] /\ h' = Dequeue(h, RR)
  /\ UNCHANGED acc

SwitchToRoundRobin ==
  /\ h' = IF h.list[RR].first # Null THEN h ELSE Drain(h)
  /\ ret' = Bool(h.list[RR].first = Null)
  /\ UNCHANGED acc

\* LinkedList::transfer: one node takes over the whole list.
SwitchToPriority ==
  /\ h' = IF h.root # Null \/ h.list[RR].first = Null \/ h.freeNodes = Null THEN h
          ELSE [AllocNode(h, 0) EXCEPT !.list[h.freeNodes] = h.list[RR],
                                       !.list[RR] = EmptyList,
                                       !.root = h.freeNodes]
  /\ ret' = Bool(h.root = Null /\ (h.list[RR].first = Null \/ h.freeNodes # Null))
  /\ UNCHANGED acc

\* The nodes of the tree under d, in the order of their keys.
RECURSIVE InOrder(_, _)
InOrder(x, d) ==
  IF d = Null THEN <<>>
  ELSE InOrder(x, x.left[d]) \o <<d>> \o InOrder(x, x.right[d])

TreeNodes(x) ==
  LET t == InOrder(x, x.root) IN {t[i] : i \in DOMAIN t}

PqExtractProc(p) ==
  /\ h' = IF h.freeNodes = Null THEN h ELSE Rebuild(h, Null, p)
  /\ ret' = Bool(/\ h.freeNodes # Null
                 /\ \E d \in TreeNodes(h) :
                      LET c == ProcsOf(h, d) IN \E i \in DOMAIN c : c[i] = p)
  /\ UNCHANGED acc

\* proc.c gives a process another accumulator.
SetAcc ==
  /\ \E p \in Procs, k \in Keys : acc' = [acc EXCEPT ![p] = k]
  /\ UNCHANGED <<h, ret>>

Next ==
  \/ PqExtractMin \/ GetMinAccumulator \/ RrDequeue
  \/ SwitchToRoundRobin \/ SwitchToPriority \/ SetAcc
  \/ \E p \in Procs : \/ PqPut(p) \/ RpAdd(p) \/ RpRemove(p) \/ RrEnqueue(p)
                      \/ PqExtractProc(p)

Spec == Init /\ [][Next]_vars

----------------------------------------------------------------------------
(* Properties. *)

RECURSIVE FreeNodesFrom(_, _)
FreeNodesFrom(x, d) ==
  IF d = Null THEN <<>> ELSE <<d>> \o FreeNodesFrom(x, x.nnext[d])

ListChain(l) == LinksFrom(h, h.list[l].first)

\* Every Link is in exactly one list or free, none is lost and none twice in use;
\* every MapNode is in the tree or free.
LinksDisjoint ==
  LET chains == [l \in Lists |-> ListChain(l)]
      free == LinksFrom(h, h.freeLinks)
      uses(k) == Cardinality({<<l, i>> \in Lists \X (1..Cardinality(Links)) :
                               i \in DOMAIN chains[l] /\ chains[l][i] = k})
      isFree(k) == \E i \in DOMAIN free : free[i] = k
  IN \A k \in Links : uses(k) = IF isFree(k) THEN 0 ELSE 1

\* The tree is a search tree with correct parent pointers, none of its nodes has
\* an empty list, and the other nodes are free and have no list.
TreeShape ==
  LET t == InOrder(h, h.root)
      f == FreeNodesFrom(h, h.freeNodes)
      inTree == {t[i] : i \in DOMAIN t}
  IN /\ \A i \in 1..(Len(t) - 1) : h.key[t[i]] < h.key[t[i + 1]]
     /\ Len(t) + Len(f) = Cardinality(Nodes) /\ inTree \cup {f[i] : i \in DOMAIN f} = Nodes
     /\ \A d \in Nodes : d \in inTree <=> h.list[d].first # Null
     /\ \A d \in inTree : /\ h.left[d] # Null => h.parent[h.left[d]] = d
                          /\ h.right[d] # Null => h.parent[h.right[d]] = d
                          /\ (h.parent[d] = Null) = (d = h.root)

\* last points to the last link of every list, and is null for an empty one.
LastLink ==
  \A l \in Lists :
    LET c == ListChain(l) IN h.list[l].last = IF c = <<>> THEN Null ELSE c[Len(c)]

\* The pointer structures implement the queues that proc.c relies on, with every
\* value they return: a put fails only for want of a Link, never of a MapNode.
RECURSIVE Entries(_)
Entries(t) ==
  IF t = <<>> THEN <<>>
  ELSE LET c == ProcsOf(h, Head(t)) IN
       [i \in DOMAIN c |-> [proc |-> c[i], key |-> h.key[Head(t)]]]
       \o Entries(Tail(t))

Abs ==
  INSTANCE SchedAbs WITH
    NLINKS <- Cardinality(Links), NNODES <- Cardinality(Nodes),
    s <- [pq |-> Entries(InOrder(h, h.root)), rrq |-> ProcsOf(h, RR),
          rp |-> ProcsOf(h, RP), free |-> Len(LinksFrom(h, h.freeLinks))]

ImplementsQueues == Abs!AbsSpec

\* After any sequence of calls, with pools that run empty, the heap is a search
\* tree of lists and two free lists that share nothing and lose nothing.
HeapSound == LinksDisjoint /\ TreeShape /\ LastLink
============================================================================
