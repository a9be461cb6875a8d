------------------------------- MODULE MCSystem -------------------------------
(***************************************************************************)
(* A desk that gives the horn and shows the speed, and a simulator that    *)
(* does the opposite and may be back on a second connection before the     *)
(* server has forgotten the first.                                         *)
(***************************************************************************)
EXTENDS System

CONSTANTS desk, sim, d1, s1, s2, horn, speed

MCMatches == [p \in Name |-> {p}]
MCOf == [c \in Client |-> IF c = d1 THEN desk ELSE sim]
MCGives == [g \in Program |-> IF g = desk THEN {horn} ELSE {speed}]
MCShows == [g \in Program |-> IF g = desk THEN {speed} ELSE {horn}]
===============================================================================
