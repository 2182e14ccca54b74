------------------------------ MODULE MCShell -------------------------------
(* Every line of up to MaxLen tokens, and some longer ones. *)
EXTENDS Shell

CONSTANTS MaxLen

Long == {<<"(", "a", ";", "a", ")", "|", "a">>,
         <<"(", "a", "|", "a", ")", "&", ";", "a">>,
         <<"a", "|", "a", "|", "a">>, <<"a", ";", "a", "|", "a">>, <<"a", "|", "a", ";", "a">>,
         <<"a", ";", "a", ";", "a">>, <<"(", "a", "&", ")", ";", "a">>, <<"a", "&", "&", ";", "a">>,
         <<"a", ">", "a", "|", "(", "a", "<", "a", "&", ")", "|", "a">>}

MCLines == Long \union UNION {[1..n -> Tokens] : n \in 1..MaxLen}
============================================================================
