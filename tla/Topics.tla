-------------------------------- MODULE Topics --------------------------------
(***************************************************************************)
(* What the server does with a name: SplitTopic cuts it into a path, and   *)
(* the tree files the parameter under that path or searches for it.  The   *)
(* two are functions of common.cpp that run one after the other; here a    *)
(* name is split to the end, and behind the empty name begins any history  *)
(* of the tree.                                                            *)
(***************************************************************************)
EXTENDS TopicTree

CONSTANTS Char, Colon, MaxLength         \* those of SplitTopic
VARIABLES name, rest, index, vec, pc     \* and its variables; its s is rest

Split == INSTANCE SplitTopic WITH s <- rest

splitVars == <<name, rest, index, vec, pc>>

TopicsInit == Split!Init /\ Init

TopicsNext ==
  \/ Split!Next /\ UNCHANGED vars
  \/ pc = "done" /\ name = <<>> /\ Next /\ UNCHANGED splitVars

TopicsSpec == TopicsInit /\ [][TopicsNext]_<<splitVars, vars>>
-------------------------------------------------------------------------------
\* A name written as components joined by "::" is split back into them, without an
\* exception (common.cpp:134-146).
SplitBack == Split!SplitBack
===============================================================================
