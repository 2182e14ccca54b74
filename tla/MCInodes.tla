------------------------------ MODULE MCInodes ------------------------------
(* Values for Inodes: two names, a directory "a" and what may be in it; and  *)
(* a bound on what the processes of a behaviour call: either they enter the  *)
(* directory and remove it, or they open and link files in it.               *)
EXTENDS Inodes, TLC

Abs(s) == [abs |-> TRUE, names |-> s]
Rel(s) == [abs |-> FALSE, names |-> s]
Call(op, path) == [op |-> op, path |-> path, new |-> NoPath]
LinkTo(old, new) == [op |-> "link", path |-> old, new |-> new]

VARIABLE load   \* the calls the processes make

Common ==
  {Call("mkdir", Abs(<<"a">>)), Call("create", Abs(<<"a", "b">>)),
   Call("unlink", Abs(<<"a">>)), Call("unlink", Abs(<<"a", "b">>))}
Entering == Common \union {Call("chdir", Abs(<<"a">>)), Call("openrw", Rel(<<"b">>))}
Linking == Common \union
  {Call("openrw", Abs(<<"a">>)), LinkTo(Abs(<<"a">>), Abs(<<"b">>))} \union
  {LinkTo(Abs(<<"a", "b">>), Abs(new)) : new \in {<<"b">>, <<"a", ".">>, <<"a", "..">>}}

MCCalls == Entering \union Linking

MCInit == Init /\ load \in {Entering, Linking}

MCNext ==
  /\ Next /\ UNCHANGED load
  /\ \A p \in Procs : st'[p].call \in load \union {NoCall}

MCSpec == MCInit /\ [][MCNext]_<<vars, load>>

Perms == Permutations(Procs)
=============================================================================
