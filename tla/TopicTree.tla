------------------------------- MODULE TopicTree -------------------------------
(***************************************************************************)
(* The topic tree of a ParameterManager (class Topic, common.cpp): where   *)
(* AddParameter and RemoveParameter file a parameter by its path, and      *)
(* where every petition, every query and every value looks parameters up.  *)
(*                                                                         *)
(* A Topic object is identified by its path from the root; tree maps the   *)
(* path of each one to its own parameters, so its subtopics are the paths  *)
(* in the domain of tree that are one longer.                              *)
(***************************************************************************)
EXTENDS Naturals, SequencesExt, Patterns

CONSTANTS
  Param,    \* Parameter objects
  PathOf,   \* PathOf[p]: split_name
  Petition  \* the patterns searched for

ASSUME TreeAssumption ==
  /\ \A p \in Param : PathOf[p] \in Seq(STRING) /\ PathOf[p] # <<>>
  /\ \A m \in Petition : m \in Seq(STRING) /\ m # <<>>

VARIABLES
  parameters,  \* ParameterManager::parameters
  tree         \* the Topic objects and Topic::parameters of each

vars == <<parameters, tree>>

Root == <<>>

\* The path of the topic parameter p belongs to.
TopicOf(p) == Front(PathOf[p])

Subtopics(tr, t) == {u \in DOMAIN tr : u # Root /\ Front(u) = t}
-------------------------------------------------------------------------------
Init ==
  /\ parameters = {}
  /\ tree = [t \in {Root} |-> {}]

\* ParameterManager::AddParameter and Topic::insert.
AddParameter(p) ==
  /\ p \notin parameters
  /\ parameters' = parameters \cup {p}
  /\ tree' = [t \in DOMAIN tree \cup Prefixes(TopicOf(p)) |->
                (IF t \in DOMAIN tree THEN tree[t] ELSE {})
                \cup (IF t = TopicOf(p) THEN {p} ELSE {})]

\* (Mutant: emptied topics stay.)
ErasedUnpruned(p) == [tree EXCEPT ![TopicOf(p)] = @ \ {p}]

\* Topic::erase: Erased(p)[k] is the tree when the call at depth k returns.  A
\* topic on the way is deleted by the call above it, if it is left with nothing.
Erased(p) ==
  LET depth == Len(TopicOf(p))
      at(k) == SubSeq(PathOf[p], 1, k)
      er[k \in 0 .. depth] ==
        IF k = depth
          THEN [tree EXCEPT ![TopicOf(p)] = @ \ {p}]
          ELSE LET below == er[k + 1]
                   t == at(k + 1)
               IN  IF below[t] = {} /\ Subtopics(below, t) = {}
                     THEN [u \in DOMAIN below \ {t} |-> below[u]]
                     ELSE below
  IN  er[0]

\* ParameterManager::RemoveParameter and Topic::erase.
RemoveParameter(p) ==
  /\ p \in parameters
  /\ parameters' = parameters \ {p}
  /\ tree' = Erased(p)

Next == \E p \in Param : AddParameter(p) \/ RemoveParameter(p)

Spec == Init /\ [][Next]_vars
-------------------------------------------------------------------------------
\* (Mutant: "*" selects the parameters of its own level only.)
GetAllMatchesShallow(m) ==
  LET found[t \in DOMAIN tree] ==
      [i \in 1 .. Len(m) |->
        IF m[i] = "*"
          THEN tree[t]
          ELSE IF i = Len(m)
                 THEN {p \in tree[t] : Last(PathOf[p]) = m[i]}
                 ELSE UNION {found[u][i + 1] :
                               u \in {v \in Subtopics(tree, t) : m[i] \in {Last(v), "+"}}}]
  IN  found[Root][1]

\* Topic::GetAllMatches of parent_topic: found[t][i] is what the call on topic t
\* returns, when the components of the pattern before the i-th have been erased.
GetAllMatches(m) ==
  LET found[t \in DOMAIN tree] ==
      [i \in 1 .. Len(m) |->
        IF m[i] = "*"
          THEN tree[t] \cup UNION {found[u][i] : u \in Subtopics(tree, t)}
          ELSE IF i = Len(m)
                 THEN {p \in tree[t] : Last(PathOf[p]) = m[i]}
                 ELSE UNION {found[u][i + 1] :
                               u \in {v \in Subtopics(tree, t) : m[i] \in {Last(v), "+"}}}]
  IN  found[Root][1]

\* (Mutant: the last component is looked for in the root.)
GetMatchPlus(m) == {p \in tree[Root] : Last(PathOf[p]) = Last(m)}

\* Topic::GetMatch of parent_topic: the parameters it may return, none when it returns
\* nullptr.  Which of several with one name it is depends on the order of addresses.
GetMatch(m) ==
  LET found[t \in DOMAIN tree] ==
      [i \in 1 .. Len(m) |->
        IF i = Len(m)
          THEN {p \in tree[t] : Last(PathOf[p]) = m[i]}
          ELSE UNION {found[u][i + 1] : u \in {v \in Subtopics(tree, t) : m[i] = Last(v)}}]
  IN  found[Root][1]
-------------------------------------------------------------------------------
(* Properties                                                              *)

\* However parameters come and go, the topics are those on the way to a parameter
\* and no others: erase deletes what it empties, and never a topic that still
\* leads somewhere (common.cpp:29-37).
NoDeadTopics ==
  DOMAIN tree = {Root} \cup UNION {Prefixes(TopicOf(p)) : p \in parameters}

\* After any history of insertions and erasures, a petition finds exactly the stored
\* parameters its pattern selects, path against path: none is missed for the sharing
\* of topics, none is found twice or after its removal.
SearchFindsSelected ==
  \A m \in Petition :
    GetAllMatches(m) = {p \in parameters : Selects(m, PathOf[p])}

\* A value line finds a parameter exactly when one of that very name is stored, so
\* the server creates no second one and a client sets no other (common.cpp:70-86).
ValueFindsItsName ==
  \A n \in {PathOf[p] : p \in Param} :
    GetMatch(n) = {p \in parameters : PathOf[p] = n}
===============================================================================
