------------------------------- MODULE MCBridge -------------------------------
(***************************************************************************)
(* Two displays at the local server; at the remote one, the simulator that *)
(* gives the value and another display.                                    *)
(***************************************************************************)
EXTENDS Bridge

CONSTANTS near, next, far, other, horn

MCGives == [c \in Near \cup Far |-> IF c = far THEN {horn} ELSE {}]
===============================================================================
