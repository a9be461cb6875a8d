------------------------------- MODULE MCTopics -------------------------------
(***************************************************************************)
(* Topics with every name of up to MaxLength characters.  The parameter    *)
(* objects have one and two components, names that share topics at each    *)
(* level, a name that is also a topic, a deep one and two objects of one   *)
(* name; the petitions are the patterns of up to three components.         *)
(***************************************************************************)
EXTENDS Topics

MCPathOf ==
  [ p1 |-> <<"a">>, p2 |-> <<"a", "a">>, p3 |-> <<"a", "b">>, p4 |-> <<"b", "a">>,
    p5 |-> <<"a", "b", "a">>, p6 |-> <<"a", "b", "a">>, p7 |-> <<"b", "b", "b">> ]

MCParam == DOMAIN MCPathOf
MCPetition == BoundedSeq({"a", "b", "+", "*"}, 3) \ {<<>>}
===============================================================================
