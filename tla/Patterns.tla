------------------------------- MODULE Patterns -------------------------------
(***************************************************************************)
(* Which parameter names a petition selects: Topic::GetAllMatches and      *)
(* Topic::GetMatch (common.cpp), stated on whole paths.  A path is the     *)
(* sequence of components SplitTopic makes of a name or of a petition.     *)
(* Module TopicTree shows that the search of the topic tree computes this. *)
(***************************************************************************)
EXTENDS Sequences, Naturals

\* The first k components of name n are selected one by one by those of m.
Along(m, n, k) == \A j \in 1 .. k : m[j] = n[j] \/ m[j] = "+"

\* "*" selects everything at and below the level it stands at; "+" stands for
\* any one component, but not for the last one, which is compared literally.
Selects(m, n) ==
  \/ \E i \in 1 .. Len(m) : m[i] = "*" /\ i <= Len(n) /\ Along(m, n, i - 1)
  \/ Len(m) = Len(n) /\ Along(m, n, Len(m) - 1) /\ m[Len(m)] = n[Len(n)]
===============================================================================
