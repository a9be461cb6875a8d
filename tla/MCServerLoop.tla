----------------------------- MODULE MCServerLoop -----------------------------
(***************************************************************************)
(* Symmetry for the safety run of ServerLoop with three connections: those *)
(* that only come and go are alike.                                        *)
(***************************************************************************)
EXTENDS ServerLoop

ConnSymmetry == Permutations(Conn \ Talkers)
===============================================================================
