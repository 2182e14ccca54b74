----------------------------- MODULE ShellParse -----------------------------
(***************************************************************************)
(* The parser of sh.c over tokens, and the grammar it is meant to accept,  *)
(* written down a second time without a parser.  A token is <<kind, pos>>, *)
(* "a" a word, and ">" stands for ">>" too, which opens its file the same  *)
(* way.  A command names its words and its pipe by their positions.        *)
(***************************************************************************)
EXTENDS Integers, Sequences, SequencesExt

CONSTANTS MAXARGS

ASSUME ShellAssumption == MAXARGS \in Nat \ {0}

Tokens == {"a", "<", ">", "|", "&", ";", "(", ")"}

execcmd(words) == [type |-> "EXEC", argv |-> words]
redircmd(c, op) == [type |-> "REDIR", cmd |-> c, fd |-> IF op = "<" THEN 0 ELSE 1]
pipecmd(l, r, pos) == [type |-> "PIPE", left |-> l, right |-> r, pipe |-> pos]
listcmd(l, r) == [type |-> "LIST", left |-> l, right |-> r]
backcmd(c) == [type |-> "BACK", cmd |-> c]
Syntax == [type |-> "ERR"]   \* panic: syntax, missing file, missing ), too many args

----------------------------------------------------------------------------
(* The parser: each function gives the command and the rest of the tokens. *)

peek(s, toks) == s # <<>> /\ Head(s)[1] \in toks
Got(c, rest) == [cmd |-> c, rest |-> rest]
Panic == Got(Syntax, <<>>)
Bad(x) == x.cmd = Syntax

\* The redirections at the head of s, as a sequence of operators, and the rest;
\* FALSE for one without a file.
RECURSIVE Redirs(_)
Redirs(s) ==
  IF ~peek(s, {"<", ">"}) THEN <<TRUE, <<>>, s>>
  ELSE IF ~peek(Tail(s), {"a"}) THEN <<FALSE, <<>>, s>>
  ELSE LET more == Redirs(SubSeq(s, 3, Len(s)))
       IN  <<more[1], <<Head(s)[1]>> \o more[2], more[3]>>

Redirected(c, ops) == FoldLeft(redircmd, c, ops)

\* parseexec's loop: the words so far, the redirections so far, the rest.
RECURSIVE Args(_, _, _)
Args(words, ops, s) ==
  LET rd == Redirs(s)  t == rd[3] IN
  IF ~rd[1] THEN Panic
  ELSE IF t = <<>> \/ peek(t, {"|", ")", "&", ";"})
       THEN Got(Redirected(execcmd(words), ops \o rd[2]), t)
  ELSE IF ~peek(t, {"a"}) \/ Len(words) + 1 >= MAXARGS THEN Panic
  ELSE Args(Append(words, Head(t)[2]), ops \o rd[2], Tail(t))

RECURSIVE parseline(_), parsepipe(_), parseexec(_), Backs(_)

\* parseexec and parseblock.
parseexec(s) ==
  IF ~peek(s, {"("}) THEN Args(<<>>, <<>>, s)
  ELSE LET x == parseline(Tail(s)) IN
       IF Bad(x) \/ ~peek(x.rest, {")"}) THEN Panic
       ELSE LET rd == Redirs(Tail(x.rest))
            IN  IF rd[1] THEN Got(Redirected(x.cmd, rd[2]), rd[3]) ELSE Panic

\* Mutant of parsepipe: what follows | is a line, not a pipe.
ParsePipeLine(s) ==
  LET x == parseexec(s) IN
  IF Bad(x) \/ ~peek(x.rest, {"|"}) THEN x
  ELSE LET y == parseline(Tail(x.rest))
       IN  IF Bad(y) THEN Panic ELSE Got(pipecmd(x.cmd, y.cmd, Head(x.rest)[2]), y.rest)

parsepipe(s) ==
  LET x == parseexec(s) IN
  IF Bad(x) \/ ~peek(x.rest, {"|"}) THEN x
  ELSE LET y == parsepipe(Tail(x.rest))
       IN  IF Bad(y) THEN Panic ELSE Got(pipecmd(x.cmd, y.cmd, Head(x.rest)[2]), y.rest)

\* parseline's loop over "&".
Backs(x) == IF Bad(x) \/ ~peek(x.rest, {"&"}) THEN x ELSE Backs(Got(backcmd(x.cmd), Tail(x.rest)))

parseline(s) ==
  LET x == Backs(parsepipe(s)) IN
  IF Bad(x) \/ ~peek(x.rest, {";"}) THEN x
  ELSE LET y == parseline(Tail(x.rest))
       IN  IF Bad(y) THEN Panic ELSE Got(listcmd(x.cmd, y.cmd), y.rest)

parsecmd(s) == LET x == parseline(s) IN IF x.rest = <<>> THEN x.cmd ELSE Syntax

----------------------------------------------------------------------------
(* The grammar: the commands a sequence of tokens can be read as.          *)
(*    line   ::= backed | backed ";" line                                  *)
(*    backed ::= pipe | backed "&"                                         *)
(*    pipe   ::= exec | exec "|" pipe                                      *)
(*    exec   ::= (word | redirection)*  |  "(" line ")" redirection*       *)
(* with fewer than MAXARGS words to a command.                             *)

Before(s, k) == SubSeq(s, 1, k - 1)
After(s, k) == SubSeq(s, k + 1, Len(s))
Places(s, toks) == {k \in 1..Len(s) : s[k][1] \in toks}

\* Words and redirections, an operator with a word behind it.
Simple(s) ==
  /\ Places(s, {"a", "<", ">"}) = 1..Len(s)
  /\ \A k \in Places(s, {"<", ">"}) : k + 1 \in Places(s, {"a"})

ArgPlaces(s) == {k \in Places(s, {"a"}) : k - 1 \notin Places(s, {"<", ">"})}
ArgWords(s) == [n \in 1..Cardinality(ArgPlaces(s)) |-> s[SetToSortSeq(ArgPlaces(s), <)[n]][2]]
OpSeq(s) == SelectSeq([k \in 1..Len(s) |-> s[k][1]], LAMBDA t : t # "a")

RECURSIVE Line(_), Backed(_), Pipe(_), Exec(_)

Exec(s) ==
  {Redirected(execcmd(ArgWords(t)), OpSeq(t)) :
     t \in {u \in {s} : Simple(u) /\ Cardinality(ArgPlaces(u)) < MAXARGS}}
  \union
  UNION {{Redirected(c, OpSeq(After(s, k))) : c \in Line(SubSeq(s, 2, k - 1))} :
           k \in {j \in Places(s, {")"}) : /\ s[1][1] = "("
                                        /\ Simple(After(s, j)) /\ ArgPlaces(After(s, j)) = {}}}

Pipe(s) ==
  Exec(s) \union
  UNION {{pipecmd(l, r, s[k][2]) : l \in Exec(Before(s, k)), r \in Pipe(After(s, k))} :
           k \in Places(s, {"|"})}

Backed(s) ==
  Pipe(s) \union IF Places(s, {"&"}) # {} /\ Last(s)[1] = "&"
                 THEN {backcmd(c) : c \in Backed(Front(s))} ELSE {}

Line(s) ==
  Backed(s) \union
  UNION {{listcmd(l, r) : l \in Backed(Before(s, k)), r \in Line(After(s, k))} :
           k \in Places(s, {";"})}

\* What the shell should make of a line.
Meaning(s) == IF Line(s) = {} THEN {Syntax} ELSE Line(s)
============================================================================
