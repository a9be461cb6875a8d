----------------------------- MODULE TopicProofs -----------------------------
(***************************************************************************)
(* Theorems about TopicTree, for any parameters and petitions: insertion   *)
(* and erasure keep exactly the topics that lead to a parameter, and the   *)
(* two searches find exactly what they are meant to; and about SplitTopic, *)
(* for names of any length: the path filed under is the one written.       *)
(*                                                                         *)
(* A definition by recursion is dealt with in two steps.  That the closed  *)
(* form satisfies its equation shows that there is a solution; that two    *)
(* solutions do not differ at a topic whose depth is greatest, or at a     *)
(* level that is, shows that it is the only one.                           *)
(***************************************************************************)
EXTENDS Topics, SequenceTheorems, WellFoundedInduction, TLAPS

Path == Seq(STRING)
-------------------------------------------------------------------------------
(* Induction.                                                              *)

Less == {ss \in Nat \X Nat : ss[1] < ss[2]}

LEMMA SmallestOf ==
  ASSUME NEW T \in SUBSET Nat, T # {}
  PROVE  \E x \in T : \A y \in T : x <= y
<1>1. IsWellFoundedOn(Less, Nat)
  BY NatLessThanWellFounded DEF OpToRel, Less
<1>2. PICK x \in T : \A y \in T : <<y, x>> \notin Less
  BY <1>1, WFMin
<1>3. ASSUME NEW y \in T PROVE x <= y
  <2>1. x \in Nat /\ y \in Nat /\ ~ (y < x)
    BY <1>2 DEF Less
  <2> QED  BY <2>1
<1> QED  BY <1>3

LEMMA GreatestOf ==
  ASSUME NEW T \in SUBSET Nat, T # {}, NEW n \in Nat, \A x \in T : x <= n
  PROVE  \E x \in T : \A y \in T : y <= x
<1> DEFINE S == {n - x : x \in T}
<1>1. S \in SUBSET Nat /\ S # {}
  <2>1. \A x \in T : n - x \in Nat
    OBVIOUS
  <2> QED  BY <2>1
<1>2. PICK z \in S : \A y \in S : z <= y
  BY <1>1, SmallestOf
<1>3. PICK x \in T : z = n - x
  OBVIOUS
<1>4. ASSUME NEW y \in T PROVE y <= x
  <2>1. n - x <= n - y
    BY <1>2, <1>3
  <2> QED  BY <2>1
<1> QED  BY <1>4
-------------------------------------------------------------------------------
(* Paths.                                                                  *)

LEMMA CutIs ==
  ASSUME NEW s \in Path, NEW l \in 0 .. Len(s)
  PROVE  /\ SubSeq(s, 1, l) \in Path
         /\ Len(SubSeq(s, 1, l)) = l
         /\ \A j \in 1 .. l : SubSeq(s, 1, l)[j] = s[j]
BY SubSeqProperties DEF Path

LEMMA PrefixIs ==
  ASSUME NEW s \in Path, NEW t
  PROVE  t \in Prefixes(s) <=> /\ t \in Path
                               /\ Len(t) <= Len(s)
                               /\ \A j \in 1 .. Len(t) : t[j] = s[j]
<1>1. ASSUME t \in Path, Len(t) <= Len(s), \A j \in 1 .. Len(t) : t[j] = s[j]
      PROVE  Len(t) \in 0 .. Len(s) /\ t = SubSeq(s, 1, Len(t))
  <2>1. Len(t) \in 0 .. Len(s)
    BY <1>1 DEF Path
  <2> QED  BY <1>1, <2>1, CutIs, SeqEqual DEF Path
<1>2. ASSUME t \in Prefixes(s)
      PROVE  t \in Path /\ Len(t) <= Len(s) /\ \A j \in 1 .. Len(t) : t[j] = s[j]
  <2>1. PICK l \in 0 .. Len(s) : t = SubSeq(s, 1, l)
    BY <1>2 DEF Prefixes
  <2>2. t \in Path /\ Len(t) = l /\ \A j \in 1 .. l : t[j] = s[j]
    BY <2>1, CutIs
  <2> QED  BY <2>2
<1>3. ASSUME t \in Path, Len(t) <= Len(s), \A j \in 1 .. Len(t) : t[j] = s[j]
      PROVE  t \in Prefixes(s)
  BY <1>1, <1>3 DEF Prefixes
<1> QED  BY <1>2, <1>3

LEMMA FrontIs ==
  ASSUME NEW s \in Path, s # Root
  PROVE  /\ Len(s) \in Nat \ {0}
         /\ Front(s) \in Path /\ Len(Front(s)) = Len(s) - 1
         /\ \A j \in 1 .. Len(s) - 1 : Front(s)[j] = s[j]
<1>1. Len(s) \in Nat \ {0}
  BY DEF Path, Root
<1>2. Len(s) - 1 \in 0 .. Len(s)
  BY <1>1
<1> QED
  BY <1>1, <1>2, CutIs DEF Front

\* The subtopics of a topic, path by path.
LEMMA SubtopicIs ==
  ASSUME NEW t \in Path, NEW u \in Path
  PROVE  u # Root /\ Front(u) = t <=> /\ Len(u) = Len(t) + 1
                                      /\ \A j \in 1 .. Len(t) : u[j] = t[j]
<1>1. ASSUME u # Root, Front(u) = t
      PROVE  Len(u) = Len(t) + 1 /\ \A j \in 1 .. Len(t) : u[j] = t[j]
  BY <1>1, FrontIs
<1>2. ASSUME Len(u) = Len(t) + 1, \A j \in 1 .. Len(t) : u[j] = t[j]
      PROVE  u # Root /\ Front(u) = t
  <2>1. u # Root
    <3>1. Len(Root) = 0 /\ Len(t) \in Nat
      BY DEF Root, Path
    <3> QED  BY <1>2, <3>1
  <2>2. Front(u) \in Path /\ Len(Front(u)) = Len(t) /\ \A j \in 1 .. Len(t) : Front(u)[j] = t[j]
    <3>1. Len(u) - 1 = Len(t)
      BY <1>2 DEF Path
    <3> QED  BY <1>2, <2>1, <3>1, FrontIs
  <2> QED  BY <2>1, <2>2, SeqEqual DEF Path
<1> QED  BY <1>1, <1>2

LEMMA TopicIs ==
  ASSUME NEW p \in Param
  PROVE  /\ PathOf[p] \in Path /\ Len(PathOf[p]) \in Nat \ {0}
         /\ TopicOf(p) \in Path /\ Len(TopicOf(p)) = Len(PathOf[p]) - 1
         /\ \A j \in 1 .. Len(PathOf[p]) - 1 : TopicOf(p)[j] = PathOf[p][j]
BY TreeAssumption, FrontIs DEF TopicOf, Path, Root
-------------------------------------------------------------------------------
(* The topics of the tree.                                                 *)

Typed ==
  /\ parameters \subseteq Param
  /\ tree \in [DOMAIN tree -> SUBSET Param]
  /\ DOMAIN tree \subseteq Path

\* Each parameter is in its own topic and in no other.
Filed == \A t \in DOMAIN tree : tree[t] = {p \in parameters : TopicOf(p) = t}

\* No branch is endless.
Shallow == \E n \in Nat : \A t \in DOMAIN tree : Len(t) <= n

TreeInv == Typed /\ Filed /\ NoDeadTopics /\ Shallow

\* The topics that lead to a parameter of S.
Leading(S) == {Root} \cup UNION {Prefixes(TopicOf(p)) : p \in S}

LEMMA LeadingIs ==
  ASSUME NEW S \in SUBSET Param, NEW t
  PROVE  t \in Leading(S) <=>
           t = Root \/ \E p \in S : /\ t \in Path
                                   /\ Len(t) <= Len(TopicOf(p))
                                   /\ \A j \in 1 .. Len(t) : t[j] = TopicOf(p)[j]
BY TopicIs, PrefixIs DEF Leading

\* A topic above one that leads somewhere does so too.
LEMMA LeadingAbove ==
  ASSUME NEW S \in SUBSET Param, NEW u \in Leading(S), u # Root, u \in Path
  PROVE  Front(u) \in Leading(S)
<1>1. PICK p \in S : Len(u) <= Len(TopicOf(p)) /\ \A j \in 1 .. Len(u) : u[j] = TopicOf(p)[j]
  BY LeadingIs
<1>2. /\ Len(u) \in Nat \ {0} /\ Front(u) \in Path /\ Len(Front(u)) = Len(u) - 1
      /\ \A j \in 1 .. Len(u) - 1 : Front(u)[j] = u[j]
  BY FrontIs
<1>3. Len(TopicOf(p)) \in Nat
  BY TopicIs DEF Path
<1> QED  BY <1>1, <1>2, <1>3, LeadingIs

\* The topic in front of a parameter's own leads to it through a subtopic.
LEMMA LeadingOn ==
  ASSUME NEW S \in SUBSET Param, NEW p \in S, NEW t \in Path,
         Len(t) < Len(TopicOf(p)), \A j \in 1 .. Len(t) : t[j] = TopicOf(p)[j]
  PROVE  \E u \in Leading(S) :
           /\ u \in Path /\ u # Root /\ Front(u) = t
           /\ \A j \in 1 .. Len(t) + 1 : u[j] = TopicOf(p)[j]
<1> DEFINE u == SubSeq(TopicOf(p), 1, Len(t) + 1)
<1>1. TopicOf(p) \in Path /\ Len(TopicOf(p)) \in Nat /\ Len(t) \in Nat
  BY TopicIs DEF Path
<1>2. /\ u \in Path /\ Len(u) = Len(t) + 1
      /\ \A j \in 1 .. Len(t) + 1 : u[j] = TopicOf(p)[j]
  BY <1>1, CutIs
<1> HIDE DEF u
<1>3. u \in Leading(S)
  BY <1>1, <1>2, LeadingIs
<1>4. u # Root /\ Front(u) = t
  BY <1>1, <1>2, SubtopicIs
<1> QED  BY <1>2, <1>3, <1>4
-------------------------------------------------------------------------------
(* erase.                                                                  *)

\* What Erased says of the tree at depth k, given what there is at the depth below.
ErasedAt(p, e, k) ==
  IF k = Len(TopicOf(p))
    THEN [tree EXCEPT ![TopicOf(p)] = @ \ {p}]
    ELSE LET below == e[k + 1]
             t == SubSeq(PathOf[p], 1, k + 1)
         IN  IF below[t] = {} /\ Subtopics(below, t) = {}
               THEN [u \in DOMAIN below \ {t} |-> below[u]]
               ELSE below

\* The closed form: of the topics deeper than k, those that still lead somewhere.
Remaining(p, k) == {t \in DOMAIN tree : Len(t) <= k \/ t \in Leading(parameters \ {p})}
LeftAt(p, k) == [t \in Remaining(p, k) |-> tree[t] \ {p}]

LEMMA LeftIsSolution ==
  ASSUME Typed, Filed, NoDeadTopics, NEW p \in parameters,
         NEW k \in 0 .. Len(TopicOf(p)), NEW e,
         k < Len(TopicOf(p)) => e[k + 1] = LeftAt(p, k + 1)
  PROVE  ErasedAt(p, e, k) = LeftAt(p, k)
<1> DEFINE depth == Len(TopicOf(p))
           others == parameters \ {p}
<1>1. /\ p \in Param /\ others \subseteq Param /\ parameters \subseteq Param
      /\ DOMAIN tree \subseteq Path /\ DOMAIN tree = Leading(parameters)
  BY DEF Typed, NoDeadTopics, Leading
<1>2. /\ PathOf[p] \in Path /\ TopicOf(p) \in Path /\ depth \in Nat
      /\ Len(PathOf[p]) = depth + 1
      /\ \A j \in 1 .. depth : TopicOf(p)[j] = PathOf[p][j]
  BY <1>1, TopicIs DEF Path
\* A topic that leads to p alone is on p's path.
<1>3. ASSUME NEW t \in DOMAIN tree, t \notin Leading(others)
      PROVE  Len(t) <= depth /\ \A j \in 1 .. Len(t) : t[j] = PathOf[p][j]
  <2>1. PICK q \in parameters : /\ t \in Path /\ Len(t) <= Len(TopicOf(q))
                                /\ \A j \in 1 .. Len(t) : t[j] = TopicOf(q)[j]
    BY <1>1, <1>3, LeadingIs
  <2>2. q = p
    BY <1>1, <1>3, <2>1, LeadingIs
  <2>3. Len(t) \in Nat
    BY <2>1 DEF Path
  <2> QED  BY <1>2, <2>1, <2>2, <2>3
<1>4. CASE k = depth
  <2>1. Remaining(p, k) = DOMAIN tree
    BY <1>3, <1>4 DEF Remaining
  <2>2. TopicOf(p) \in DOMAIN tree
    BY <1>1, <1>2, LeadingIs
  <2>3. \A t \in DOMAIN tree : t # TopicOf(p) => tree[t] = tree[t] \ {p}
    BY DEF Filed
  <2>4. [tree EXCEPT ![TopicOf(p)] = @ \ {p}] = [t \in DOMAIN tree |-> tree[t] \ {p}]
    BY <2>2, <2>3 DEF Typed
  <2> QED  BY <1>4, <2>1, <2>4 DEF ErasedAt, LeftAt
<1>5. CASE k < depth
  <2> DEFINE t == SubSeq(PathOf[p], 1, k + 1)
             below == LeftAt(p, k + 1)
  <2>1. t \in Path /\ Len(t) = k + 1 /\ \A j \in 1 .. k + 1 : t[j] = PathOf[p][j]
    BY <1>2, <1>5, CutIs
  <2>2. ErasedAt(p, e, k) = IF below[t] = {} /\ Subtopics(below, t) = {}
                              THEN [u \in DOMAIN below \ {t} |-> below[u]]
                              ELSE below
    BY <1>2, <1>5 DEF ErasedAt
  <2> HIDE DEF t
  <2>3. t \in DOMAIN tree
    BY <1>1, <1>2, <1>5, <2>1, LeadingIs
  <2>4. DOMAIN below = Remaining(p, k + 1) /\ t \in DOMAIN below /\ below[t] = tree[t] \ {p}
    BY <2>1, <2>3 DEF LeftAt, Remaining
  \* The only topic of that depth that may have to go.
  <2>5. Remaining(p, k) = IF t \in Leading(others) THEN Remaining(p, k + 1)
                                                   ELSE Remaining(p, k + 1) \ {t}
    <3>1. \A u \in DOMAIN tree : Len(u) \in Nat
      BY <1>1 DEF Path
    <3>2. ASSUME NEW u \in DOMAIN tree, u \notin Leading(others), Len(u) = k + 1
          PROVE  u = t
      <4>1. u \in Path /\ \A j \in 1 .. k + 1 : u[j] = PathOf[p][j]
        BY <1>1, <1>3, <3>2
      <4> QED  BY <2>1, <3>2, <4>1, SeqEqual DEF Path
    <3>3. ASSUME NEW u \in DOMAIN tree, u # t
          PROVE  u \in Remaining(p, k) <=> u \in Remaining(p, k + 1)
      <4>1. Len(u) <= k + 1 <=> Len(u) <= k \/ Len(u) = k + 1
        BY <3>1
      <4> QED  BY <3>2, <3>3, <4>1 DEF Remaining
    <3>4. t \in Remaining(p, k + 1) /\ (t \in Remaining(p, k) <=> t \in Leading(others))
      BY <2>1, <2>3 DEF Remaining
    <3>5. Remaining(p, k) \subseteq DOMAIN tree /\ Remaining(p, k + 1) \subseteq DOMAIN tree
      BY DEF Remaining
    <3> QED  BY <3>3, <3>4, <3>5
  <2>6. t \in Leading(others) <=> ~ (below[t] = {} /\ Subtopics(below, t) = {})
    <3>1. ASSUME t \in Leading(others), below[t] = {}
          PROVE  Subtopics(below, t) # {}
      <4>1. PICK q \in others : Len(t) <= Len(TopicOf(q))
                                /\ \A j \in 1 .. Len(t) : t[j] = TopicOf(q)[j]
        <5>1. t # Root
          BY <1>2, <2>1 DEF Root
        <5> QED  BY <1>1, <3>1, <5>1, LeadingIs
      <4>2. TopicOf(q) # t
        BY <2>3, <2>4, <3>1 DEF Filed
      <4>3. TopicOf(q) \in Path /\ Len(TopicOf(q)) \in Nat
        BY <1>1, TopicIs DEF Path
      <4>4. Len(t) < Len(TopicOf(q))
        <5>1. Len(t) # Len(TopicOf(q))
          BY <2>1, <4>1, <4>2, <4>3, SeqEqual DEF Path
        <5> QED  BY <2>1, <4>1, <4>3, <5>1
      <4>5. PICK u \in Leading(others) : u \in Path /\ u # Root /\ Front(u) = t
        BY <1>1, <2>1, <4>1, <4>4, LeadingOn
      <4>6. u \in DOMAIN tree
        BY <1>1, <4>5, LeadingIs
      <4> QED  BY <2>4, <4>5, <4>6 DEF Subtopics, Remaining
    <3>2. ASSUME below[t] # {} PROVE t \in Leading(others)
      <4>1. PICK q \in others : TopicOf(q) = t
        BY <2>3, <2>4, <3>2 DEF Filed
      <4> QED  BY <1>1, <2>1, <4>1, LeadingIs
    <3>3. ASSUME NEW u \in Subtopics(below, t) PROVE t \in Leading(others)
      <4>1. u \in Remaining(p, k + 1) /\ u # Root /\ Front(u) = t /\ u \in Path
        BY <1>1, <2>4 DEF Subtopics, Remaining
      <4>2. Len(u) = k + 2
        BY <2>1, <4>1, SubtopicIs
      <4>3. u \in Leading(others)
        BY <4>1, <4>2 DEF Remaining
      <4> QED  BY <1>1, <4>1, <4>3, LeadingAbove
    <3> QED  BY <3>1, <3>2, <3>3
  <2>7. CASE t \in Leading(others)
    BY <2>2, <2>5, <2>6, <2>7 DEF LeftAt
  <2>8. CASE t \notin Leading(others)
    BY <2>2, <2>4, <2>5, <2>6, <2>8 DEF LeftAt
  <2> QED  BY <2>7, <2>8
<1> QED  BY <1>2, <1>4, <1>5

LEMMA ErasedIs ==
  ASSUME Typed, Filed, NoDeadTopics, NEW p \in parameters
  PROVE  Erased(p) = [t \in Leading(parameters \ {p}) |-> tree[t] \ {p}]
<1> DEFINE depth == Len(TopicOf(p))
           er == CHOOSE e : e = [k \in 0 .. depth |-> ErasedAt(p, e, k)]
           h == [k \in 0 .. depth |-> LeftAt(p, k)]
<1>1. depth \in Nat
  BY TopicIs DEF Typed, Path
<1>2. h = [k \in 0 .. depth |-> ErasedAt(p, h, k)]
  BY <1>1, LeftIsSolution
<1>3. er = [k \in 0 .. depth |-> ErasedAt(p, er, k)]
  BY <1>2
<1>4. Erased(p) = er[0]
  BY DEF Erased, ErasedAt
<1> HIDE DEF er, h
<1>5. \A k \in 0 .. depth : er[k] = LeftAt(p, k)
  <2> DEFINE T == {k \in 0 .. depth : er[k] # LeftAt(p, k)}
  <2>1. SUFFICES ASSUME T # {} PROVE FALSE
    OBVIOUS
  <2>2. PICK k \in T : \A l \in T : l <= k
    <3>1. T \in SUBSET Nat /\ \A l \in T : l <= depth
      BY <1>1
    <3> HIDE DEF T
    <3> QED  BY <1>1, <2>1, <3>1, GreatestOf
  <2>3. k < depth => er[k + 1] = LeftAt(p, k + 1)
    BY <1>1, <2>2
  <2>4. er[k] = ErasedAt(p, er, k)
    BY <1>3, <2>2
  <2> QED  BY <2>2, <2>3, <2>4, LeftIsSolution
<1>6. Remaining(p, 0) = Leading(parameters \ {p})
  <2>1. \A t \in DOMAIN tree : Len(t) <= 0 => t = Root
    BY DEF Typed, Path, Root
  <2>2. Leading(parameters \ {p}) \subseteq DOMAIN tree /\ Root \in Leading(parameters \ {p})
    BY DEF NoDeadTopics, Leading
  <2> QED  BY <2>1, <2>2 DEF Remaining
<1>7. er[0] = LeftAt(p, 0)
  BY <1>1, <1>5
<1> QED  BY <1>4, <1>6, <1>7 DEF LeftAt
-------------------------------------------------------------------------------
LEMMA TreeInit == Init => TreeInv
<1> SUFFICES ASSUME Init PROVE TreeInv
  OBVIOUS
<1>1. DOMAIN tree = {Root} /\ tree[Root] = {} /\ parameters = {}
  BY DEF Init
<1>2. Typed /\ Filed /\ NoDeadTopics
  BY <1>1 DEF Init, Typed, Filed, NoDeadTopics, Path, Root
<1>3. Shallow
  <2>1. \A t \in DOMAIN tree : Len(t) <= 0
    BY <1>1 DEF Root
  <2> QED  BY <2>1 DEF Shallow
<1> QED  BY <1>2, <1>3 DEF TreeInv

LEMMA InsertKeeps ==
  ASSUME TreeInv, NEW p \in Param, AddParameter(p)
  PROVE  TreeInv'
<1>1. /\ parameters' = parameters \cup {p}
      /\ DOMAIN tree' = DOMAIN tree \cup Prefixes(TopicOf(p))
      /\ tree' = [t \in DOMAIN tree' |->
                    (IF t \in DOMAIN tree THEN tree[t] ELSE {})
                    \cup (IF t = TopicOf(p) THEN {p} ELSE {})]
  BY DEF AddParameter
<1>2. TopicOf(p) \in Path /\ Len(TopicOf(p)) \in Nat
  BY TopicIs DEF Path
<1>3. Typed'
  BY <1>1, <1>2, PrefixIs DEF TreeInv, Typed
<1>4. NoDeadTopics'
  BY <1>1 DEF TreeInv, NoDeadTopics
<1>5. Filed'
  <2> SUFFICES ASSUME NEW t \in DOMAIN tree'
               PROVE  tree'[t] = {q \in parameters' : TopicOf(q) = t}
    BY DEF Filed
  <2>1. (IF t \in DOMAIN tree THEN tree[t] ELSE {}) = {q \in parameters : TopicOf(q) = t}
    <3>1. CASE t \in DOMAIN tree
      BY <3>1 DEF TreeInv, Filed
    <3>2. CASE t \notin DOMAIN tree
      <4>1. ASSUME NEW q \in parameters PROVE TopicOf(q) \in DOMAIN tree
        <5>1. q \in Param
          BY DEF TreeInv, Typed
        <5>2. TopicOf(q) \in Prefixes(TopicOf(q))
          <6>1. TopicOf(q) \in Path /\ Len(TopicOf(q)) \in Nat
            BY <5>1, TopicIs DEF Path
          <6> QED  BY <6>1, PrefixIs
        <5> QED  BY <5>2 DEF TreeInv, NoDeadTopics
      <4> QED  BY <3>2, <4>1
    <3> QED  BY <3>1, <3>2
  <2> QED  BY <1>1, <2>1
<1>6. Shallow'
  <2>1. PICK n \in Nat : \A t \in DOMAIN tree : Len(t) <= n
    BY DEF TreeInv, Shallow
  <2>2. \A t \in DOMAIN tree : Len(t) \in Nat
    BY DEF TreeInv, Typed, Path
  <2>3. \A t \in Prefixes(TopicOf(p)) : Len(t) \in Nat /\ Len(t) <= Len(TopicOf(p))
    BY <1>2, PrefixIs DEF Path
  <2>4. \A t \in DOMAIN tree' : Len(t) <= n + Len(TopicOf(p))
    BY <1>1, <1>2, <2>1, <2>2, <2>3
  <2> QED  BY <1>2, <2>4 DEF Shallow
<1> QED  BY <1>3, <1>4, <1>5, <1>6 DEF TreeInv

LEMMA EraseKeeps ==
  ASSUME TreeInv, NEW p \in Param, RemoveParameter(p)
  PROVE  TreeInv'
<1>1. /\ parameters' = parameters \ {p}
      /\ tree' = [t \in Leading(parameters \ {p}) |-> tree[t] \ {p}]
  BY ErasedIs DEF RemoveParameter, TreeInv
<1>2. DOMAIN tree' = Leading(parameters') /\ DOMAIN tree' \subseteq DOMAIN tree
  BY <1>1 DEF TreeInv, NoDeadTopics, Leading
<1>3. Typed' /\ Filed'
  BY <1>1, <1>2 DEF TreeInv, Typed, Filed
<1>4. NoDeadTopics'
  BY <1>2 DEF NoDeadTopics, Leading
<1>5. Shallow'
  BY <1>2 DEF TreeInv, Shallow
<1> QED  BY <1>3, <1>4, <1>5 DEF TreeInv

LEMMA TreeInvAlways == Spec => []TreeInv
<1>1. TreeInv /\ [Next]_vars => TreeInv'
  <2> SUFFICES ASSUME TreeInv, [Next]_vars PROVE TreeInv'
    OBVIOUS
  <2>1. CASE UNCHANGED vars
    BY <2>1 DEF vars, TreeInv, Typed, Filed, NoDeadTopics, Shallow
  <2> QED  BY <2>1, InsertKeeps, EraseKeeps DEF Next
<1> QED  BY <1>1, TreeInit, PTL DEF Spec

\* For any parameters, inserted and erased in any order, the topics of the tree are those
\* on the way to a parameter: none is lost, none leaks (common.cpp:7-39).
THEOREM NoDeadTopicsAlways == Spec => []NoDeadTopics
BY TreeInvAlways, PTL DEF TreeInv
-------------------------------------------------------------------------------
(* The way down the tree.                                                  *)

\* Topic t is on the way to p.
OnWay(t, p) == Len(t) < Len(PathOf[p]) /\ \A j \in 1 .. Len(t) : t[j] = PathOf[p][j]

LEMMA OwnTopic ==
  ASSUME TreeInv, NEW t \in DOMAIN tree, NEW p \in parameters
  PROVE  p \in tree[t] <=> OnWay(t, p) /\ Len(PathOf[p]) = Len(t) + 1
<1>1. /\ t \in Path /\ Len(t) \in Nat
      /\ PathOf[p] \in Path /\ Len(PathOf[p]) \in Nat \ {0}
      /\ TopicOf(p) \in Path /\ Len(TopicOf(p)) = Len(PathOf[p]) - 1
      /\ \A j \in 1 .. Len(PathOf[p]) - 1 : TopicOf(p)[j] = PathOf[p][j]
  BY TopicIs DEF TreeInv, Typed, Path
<1>2. p \in tree[t] <=> TopicOf(p) = t
  BY DEF TreeInv, Filed
<1>3. TopicOf(p) = t <=> Len(t) = Len(PathOf[p]) - 1
                         /\ \A j \in 1 .. Len(t) : t[j] = PathOf[p][j]
  <2>1. ASSUME Len(t) = Len(PathOf[p]) - 1, \A j \in 1 .. Len(t) : t[j] = PathOf[p][j]
        PROVE  TopicOf(p) = t
    BY <1>1, <2>1, SeqEqual DEF Path
  <2> QED  BY <1>1, <2>1
<1> QED  BY <1>1, <1>2, <1>3 DEF OnWay

LEMMA OneDown ==
  ASSUME TreeInv, NEW t \in DOMAIN tree, NEW p \in parameters,
         NEW u \in Subtopics(tree, t), OnWay(u, p)
  PROVE  /\ OnWay(t, p) /\ u \in DOMAIN tree
         /\ Len(u) = Len(t) + 1 /\ Last(u) = PathOf[p][Len(t) + 1]
         /\ Len(t) + 1 < Len(PathOf[p])
<1>1. /\ t \in Path /\ Len(t) \in Nat /\ u \in DOMAIN tree /\ u \in Path
      /\ Len(PathOf[p]) \in Nat \ {0}
  BY TopicIs DEF TreeInv, Typed, Path, Subtopics
<1>2. Len(u) = Len(t) + 1 /\ \A j \in 1 .. Len(t) : u[j] = t[j]
  BY <1>1, SubtopicIs DEF Subtopics
<1> QED  BY <1>1, <1>2 DEF OnWay, Last

LEMMA FurtherDown ==
  ASSUME TreeInv, NEW t \in DOMAIN tree, NEW p \in parameters, OnWay(t, p),
         Len(t) + 1 < Len(PathOf[p])
  PROVE  \E u \in Subtopics(tree, t) : OnWay(u, p)
<1>1. /\ parameters \subseteq Param /\ DOMAIN tree = Leading(parameters)
      /\ t \in Path /\ Len(t) \in Nat
      /\ Len(PathOf[p]) \in Nat /\ Len(TopicOf(p)) = Len(PathOf[p]) - 1
      /\ \A j \in 1 .. Len(PathOf[p]) - 1 : TopicOf(p)[j] = PathOf[p][j]
  BY TopicIs DEF TreeInv, Typed, NoDeadTopics, Leading, Path
<1>2. Len(t) < Len(TopicOf(p)) /\ \A j \in 1 .. Len(t) : t[j] = TopicOf(p)[j]
  BY <1>1 DEF OnWay
<1>3. PICK u \in Leading(parameters) :
        /\ u \in Path /\ u # Root /\ Front(u) = t
        /\ \A j \in 1 .. Len(t) + 1 : u[j] = TopicOf(p)[j]
  BY <1>1, <1>2, LeadingOn
<1>4. Len(u) = Len(t) + 1
  BY <1>1, <1>3, SubtopicIs
<1>5. OnWay(u, p)
  BY <1>1, <1>3, <1>4 DEF OnWay
<1> QED  BY <1>1, <1>3, <1>5 DEF Subtopics

\* The deepest of some topics.
LEMMA Deepest ==
  ASSUME TreeInv, NEW T \in SUBSET DOMAIN tree, T # {}
  PROVE  \E t \in T : \A u \in T : Len(u) <= Len(t)
<1>1. PICK n \in Nat : \A t \in DOMAIN tree : Len(t) <= n
  BY DEF TreeInv, Shallow
<1> DEFINE L == {Len(t) : t \in T}
<1>2. L \in SUBSET Nat /\ L # {} /\ \A l \in L : l <= n
  <2>1. \A t \in T : Len(t) \in Nat /\ Len(t) <= n
    BY <1>1 DEF TreeInv, Typed, Path
  <2> QED  BY <2>1
<1>3. \E l \in L : \A k \in L : k <= l
  <2> HIDE DEF L
  <2> QED  BY <1>2, GreatestOf
<1> QED  BY <1>3
-------------------------------------------------------------------------------
(* GetAllMatches.                                                          *)

\* Component j of the pattern, from i on, admits component d + 1 + j - i of the name.
Passes(m, i, n, d, k) == \A j \in i .. k - 1 : m[j] = n[d + 1 + j - i] \/ m[j] = "+"

\* What is left of the pattern from component i on selects the name n after depth d.
SelectsFrom(m, i, n, d) ==
  \/ \E k \in i .. Len(m) : m[k] = "*" /\ d + 1 + k - i <= Len(n) /\ Passes(m, i, n, d, k)
  \/ /\ Len(m) - i = Len(n) - (d + 1)
     /\ Passes(m, i, n, d, Len(m)) /\ m[Len(m)] = n[Len(n)]

LEMMA SelectsFromStar ==
  ASSUME NEW m \in Path, NEW i \in 1 .. Len(m), NEW n \in Path, NEW d \in Nat, d < Len(n),
         m[i] = "*"
  PROVE  SelectsFrom(m, i, n, d)
<1>1. Len(m) \in Nat /\ Len(n) \in Nat
  BY DEF Path
<1>2. i \in i .. Len(m) /\ d + 1 + i - i <= Len(n) /\ Passes(m, i, n, d, i)
  BY <1>1 DEF Passes
<1> QED  BY <1>2 DEF SelectsFrom

LEMMA SelectsFromLast ==
  ASSUME NEW m \in Path, NEW i \in 1 .. Len(m), NEW n \in Path, NEW d \in Nat, d < Len(n),
         m[i] # "*", i = Len(m)
  PROVE  SelectsFrom(m, i, n, d) <=> Len(n) = d + 1 /\ n[Len(n)] = m[i]
<1>1. Len(m) \in Nat /\ Len(n) \in Nat
  BY DEF Path
<1>2. i .. Len(m) = {i} /\ Passes(m, i, n, d, Len(m))
  BY <1>1 DEF Passes
<1> QED  BY <1>1, <1>2 DEF SelectsFrom

LEMMA PassesOn ==
  ASSUME NEW m \in Path, NEW i \in 1 .. Len(m), NEW n \in Path, NEW d \in Nat,
         NEW k \in i + 1 .. Len(m)
  PROVE  Passes(m, i, n, d, k) <=> /\ m[i] \in {n[d + 1], "+"}
                                   /\ Passes(m, i + 1, n, d + 1, k)
<1>1. Len(m) \in Nat /\ i \in Nat /\ k \in Nat
  BY DEF Path
<1>2. i .. k - 1 = {i} \cup (i + 1 .. k - 1) /\ d + 1 + i - i = d + 1
  BY <1>1
<1>3. \A j \in i + 1 .. k - 1 : d + 1 + j - i = (d + 1) + 1 + j - (i + 1)
  BY <1>1
<1> QED  BY <1>2, <1>3 DEF Passes

LEMMA SelectsFromNext ==
  ASSUME NEW m \in Path, NEW i \in 1 .. Len(m), NEW n \in Path, NEW d \in Nat, d < Len(n),
         m[i] # "*", i < Len(m)
  PROVE  SelectsFrom(m, i, n, d) <=> /\ d + 1 < Len(n)
                                     /\ m[i] \in {n[d + 1], "+"}
                                     /\ SelectsFrom(m, i + 1, n, d + 1)
<1>1. Len(m) \in Nat /\ Len(n) \in Nat /\ i \in Nat
  BY DEF Path
<1>2. ASSUME NEW k \in i .. Len(m), m[k] = "*"
      PROVE  k \in i + 1 .. Len(m)
  BY <1>1, <1>2
<1>3. ASSUME NEW k \in i + 1 .. Len(m)
      PROVE  /\ k \in i .. Len(m)
             /\ d + 1 + k - i = (d + 1) + 1 + k - (i + 1)
             /\ d + 1 + k - i <= Len(n) => d + 1 < Len(n)
  BY <1>1, <1>3
<1>4. (\E k \in i .. Len(m) : m[k] = "*" /\ d + 1 + k - i <= Len(n) /\ Passes(m, i, n, d, k))
      <=> /\ d + 1 < Len(n) /\ m[i] \in {n[d + 1], "+"}
          /\ \E k \in i + 1 .. Len(m) : /\ m[k] = "*"
                                       /\ (d + 1) + 1 + k - (i + 1) <= Len(n)
                                       /\ Passes(m, i + 1, n, d + 1, k)
  BY <1>2, <1>3, PassesOn
<1>5. Len(m) \in i + 1 .. Len(m)
  BY <1>1
<1>6. Len(m) - i = Len(n) - (d + 1) <=>
        d + 1 < Len(n) /\ Len(m) - (i + 1) = Len(n) - ((d + 1) + 1)
  BY <1>1
<1>7. Passes(m, i, n, d, Len(m)) <=> /\ m[i] \in {n[d + 1], "+"}
                                     /\ Passes(m, i + 1, n, d + 1, Len(m))
  BY <1>5, PassesOn
<1> QED  BY <1>4, <1>6, <1>7 DEF SelectsFrom

LEMMA SelectsFromRoot ==
  ASSUME NEW m \in Path, NEW n \in Path, m # Root
  PROVE  SelectsFrom(m, 1, n, 0) <=> Selects(m, n)
<1>1. Len(m) \in Nat \ {0} /\ Len(n) \in Nat
  BY DEF Path, Root
<1>2. ASSUME NEW k \in 1 .. Len(m)
      PROVE  (Passes(m, 1, n, 0, k) <=> Along(m, n, k - 1)) /\ 0 + 1 + k - 1 = k
  <2>1. \A j \in 1 .. k - 1 : 0 + 1 + j - 1 = j
    BY <1>1
  <2> QED  BY <1>1, <2>1 DEF Passes, Along
<1>3. Len(m) \in 1 .. Len(m) /\ (Len(m) - 1 = Len(n) - (0 + 1) <=> Len(m) = Len(n))
  BY <1>1
<1> QED  BY <1>2, <1>3 DEF SelectsFrom, Selects

\* What GetAllMatches says of the call on topic t, given what it says of others.
FoundAt(m, e, t) ==
  [i \in 1 .. Len(m) |->
    IF m[i] = "*"
      THEN tree[t] \cup UNION {e[u][i] : u \in Subtopics(tree, t)}
      ELSE IF i = Len(m)
             THEN {p \in tree[t] : Last(PathOf[p]) = m[i]}
             ELSE UNION {e[u][i + 1] :
                           u \in {v \in Subtopics(tree, t) : m[i] \in {Last(v), "+"}}}]

\* The closed form.
Wanted(m, t) ==
  [i \in 1 .. Len(m) |->
    {p \in parameters : OnWay(t, p) /\ SelectsFrom(m, i, PathOf[p], Len(t))}]

LEMMA WantedIsSolution ==
  ASSUME TreeInv, NEW m \in Path, NEW t \in DOMAIN tree, NEW e,
         \A u \in Subtopics(tree, t) : e[u] = Wanted(m, u)
  PROVE  FoundAt(m, e, t) = Wanted(m, t)
<1> SUFFICES ASSUME NEW i \in 1 .. Len(m) PROVE FoundAt(m, e, t)[i] = Wanted(m, t)[i]
  BY DEF FoundAt, Wanted
<1>1. Len(m) \in Nat /\ i \in Nat /\ Len(t) \in Nat
  BY DEF Path, TreeInv, Typed
<1>2. \A p \in parameters : PathOf[p] \in Path /\ Len(PathOf[p]) \in Nat
  BY TopicIs DEF TreeInv, Typed, Path
<1>3. tree[t] \subseteq parameters
  BY DEF TreeInv, Filed
<1>4. \A u \in Subtopics(tree, t), k \in 1 .. Len(m) :
        e[u][k] = {p \in parameters : OnWay(u, p) /\ SelectsFrom(m, k, PathOf[p], Len(u))}
  BY DEF Wanted
<1>5. Wanted(m, t)[i]
        = {p \in parameters : OnWay(t, p) /\ SelectsFrom(m, i, PathOf[p], Len(t))}
  BY DEF Wanted
<1>6. CASE m[i] = "*"
  <2>1. FoundAt(m, e, t)[i] = tree[t] \cup UNION {e[u][i] : u \in Subtopics(tree, t)}
    BY <1>6 DEF FoundAt
  <2>2. ASSUME NEW p \in parameters, NEW v \in DOMAIN tree, OnWay(v, p)
        PROVE  SelectsFrom(m, i, PathOf[p], Len(v))
    <3>1. Len(v) \in Nat /\ Len(v) < Len(PathOf[p])
      BY <2>2 DEF OnWay, Path, TreeInv, Typed
    <3> QED  BY <1>2, <1>6, <3>1, SelectsFromStar
  <2>3. ASSUME NEW p \in parameters, OnWay(t, p)
        PROVE  p \in tree[t] \/ \E u \in Subtopics(tree, t) : p \in e[u][i]
    <3>1. CASE Len(PathOf[p]) = Len(t) + 1
      BY <2>3, <3>1, OwnTopic
    <3>2. CASE Len(t) + 1 < Len(PathOf[p])
      <4>1. PICK u \in Subtopics(tree, t) : OnWay(u, p)
        BY <2>3, <3>2, FurtherDown
      <4>2. u \in DOMAIN tree
        BY DEF Subtopics
      <4> QED  BY <1>4, <2>2, <4>1, <4>2
    <3> QED  BY <1>1, <1>2, <2>3, <3>1, <3>2 DEF OnWay
  <2>4. ASSUME NEW u \in Subtopics(tree, t), NEW p \in e[u][i]
        PROVE  p \in parameters /\ OnWay(t, p)
    BY <1>4, OneDown
  <2>5. ASSUME NEW p \in tree[t]
        PROVE  p \in parameters /\ OnWay(t, p)
    BY <1>3, OwnTopic
  <2> QED  BY <1>5, <2>1, <2>2, <2>3, <2>4, <2>5
<1>7. CASE m[i] # "*" /\ i = Len(m)
  <2>1. FoundAt(m, e, t)[i] = {p \in tree[t] : Last(PathOf[p]) = m[i]}
    BY <1>7 DEF FoundAt
  <2>2. ASSUME NEW p \in parameters
        PROVE  OnWay(t, p) /\ SelectsFrom(m, i, PathOf[p], Len(t))
                 <=> p \in tree[t] /\ Last(PathOf[p]) = m[i]
    <3>1. OnWay(t, p) => (SelectsFrom(m, i, PathOf[p], Len(t))
                            <=> Len(PathOf[p]) = Len(t) + 1 /\ Last(PathOf[p]) = m[i])
      BY <1>1, <1>2, <1>7, SelectsFromLast DEF OnWay, Last
    <3> QED  BY <3>1, OwnTopic
  <2> QED  BY <1>3, <1>5, <2>1, <2>2
<1>8. CASE m[i] # "*" /\ i < Len(m)
  <2>1. FoundAt(m, e, t)[i]
          = UNION {e[u][i + 1] : u \in {v \in Subtopics(tree, t) : m[i] \in {Last(v), "+"}}}
    BY <1>1, <1>8 DEF FoundAt
  <2>2. i + 1 \in 1 .. Len(m)
    BY <1>1, <1>8
  <2>3. ASSUME NEW p \in parameters, OnWay(t, p)
        PROVE  SelectsFrom(m, i, PathOf[p], Len(t))
                 <=> /\ Len(t) + 1 < Len(PathOf[p])
                     /\ m[i] \in {PathOf[p][Len(t) + 1], "+"}
                     /\ SelectsFrom(m, i + 1, PathOf[p], Len(t) + 1)
    BY <1>1, <1>2, <1>8, <2>3, SelectsFromNext DEF OnWay
  <2>4. ASSUME NEW p \in Wanted(m, t)[i]
        PROVE  \E u \in Subtopics(tree, t) : m[i] \in {Last(u), "+"} /\ p \in e[u][i + 1]
    <3>1. p \in parameters /\ OnWay(t, p) /\ SelectsFrom(m, i, PathOf[p], Len(t))
      BY <1>5, <2>4
    <3>2. PICK u \in Subtopics(tree, t) : OnWay(u, p)
      BY <2>3, <3>1, FurtherDown
    <3>3. Len(u) = Len(t) + 1 /\ Last(u) = PathOf[p][Len(t) + 1]
      BY <3>1, <3>2, OneDown
    <3> QED  BY <1>4, <2>2, <2>3, <3>1, <3>2, <3>3
  <2>5. ASSUME NEW u \in Subtopics(tree, t), m[i] \in {Last(u), "+"}, NEW p \in e[u][i + 1]
        PROVE  p \in Wanted(m, t)[i]
    <3>1. p \in parameters /\ OnWay(u, p) /\ SelectsFrom(m, i + 1, PathOf[p], Len(u))
      BY <1>4, <2>2, <2>5
    <3>2. /\ OnWay(t, p) /\ Len(u) = Len(t) + 1 /\ Last(u) = PathOf[p][Len(t) + 1]
          /\ Len(t) + 1 < Len(PathOf[p])
      BY <3>1, OneDown
    <3> QED  BY <1>5, <2>3, <2>5, <3>1, <3>2
  <2> QED  BY <2>1, <2>4, <2>5
<1> QED  BY <1>1, <1>6, <1>7, <1>8

LEMMA FoundIsWanted ==
  ASSUME TreeInv, NEW m \in Path, m # Root
  PROVE  GetAllMatches(m) = Wanted(m, Root)[1]
<1> DEFINE found == CHOOSE e : e = [t \in DOMAIN tree |-> FoundAt(m, e, t)]
           h == [t \in DOMAIN tree |-> Wanted(m, t)]
<1>1. \A t \in DOMAIN tree : Subtopics(tree, t) \subseteq DOMAIN tree
  BY DEF Subtopics
<1>2. h = [t \in DOMAIN tree |-> FoundAt(m, h, t)]
  BY <1>1, WantedIsSolution
<1>3. found = [t \in DOMAIN tree |-> FoundAt(m, found, t)]
  BY <1>2
<1>4. GetAllMatches(m) = found[Root][1]
  BY DEF GetAllMatches, FoundAt
<1> HIDE DEF found, h
<1>5. \A t \in DOMAIN tree : found[t] = Wanted(m, t)
  <2> DEFINE T == {t \in DOMAIN tree : found[t] # Wanted(m, t)}
  <2>1. SUFFICES ASSUME T # {} PROVE FALSE
    OBVIOUS
  <2>2. PICK t \in T : \A u \in T : Len(u) <= Len(t)
    BY <2>1, Deepest
  <2>3. ASSUME NEW u \in Subtopics(tree, t) PROVE found[u] = Wanted(m, u)
    <3>1. t \in Path /\ u \in Path /\ u \in DOMAIN tree
      BY DEF TreeInv, Typed, Subtopics
    <3>2. Len(u) = Len(t) + 1 /\ Len(t) \in Nat
      BY <3>1, SubtopicIs DEF Subtopics, Path
    <3> QED  BY <2>2, <3>1, <3>2
  <2>4. found[t] = FoundAt(m, found, t)
    BY <1>3
  <2> QED  BY <2>3, <2>4, WantedIsSolution
<1>6. Root \in DOMAIN tree
  BY DEF TreeInv, NoDeadTopics
<1> QED  BY <1>4, <1>5, <1>6

\* For any parameters, inserted and erased in any order, a petition finds exactly the
\* stored parameters its pattern selects (common.cpp:40-69).
THEOREM SearchFindsSelectedAlways == Spec => []SearchFindsSelected
<1>1. TreeInv => SearchFindsSelected
  <2> SUFFICES ASSUME TreeInv, NEW m \in Petition
               PROVE  GetAllMatches(m) = {p \in parameters : Selects(m, PathOf[p])}
    BY DEF SearchFindsSelected
  <2>1. m \in Path /\ m # Root /\ 1 \in 1 .. Len(m)
    BY TreeAssumption DEF Path, Root
  <2>2. ASSUME NEW p \in parameters
        PROVE  OnWay(Root, p) /\ (SelectsFrom(m, 1, PathOf[p], Len(Root)) <=> Selects(m, PathOf[p]))
    <3>1. PathOf[p] \in Path /\ Len(PathOf[p]) \in Nat \ {0} /\ Len(Root) = 0
      BY TopicIs DEF TreeInv, Typed, Root
    <3> QED  BY <2>1, <3>1, SelectsFromRoot DEF OnWay
  <2>3. Wanted(m, Root)[1] = {p \in parameters : Selects(m, PathOf[p])}
    BY <2>1, <2>2 DEF Wanted
  <2> QED  BY <2>1, <2>3, FoundIsWanted
<1> QED  BY <1>1, TreeInvAlways, PTL

Plain(m) == \A j \in 1 .. Len(m) : m[j] \notin {"*", "+"}

LEMMA PlainSelectsItself ==
  ASSUME NEW m \in Path, NEW n \in Path, m # Root, Plain(m)
  PROVE  Selects(m, n) <=> m = n
<1>1. Len(m) \in Nat \ {0} /\ Len(n) \in Nat
  BY DEF Path, Root
<1>2. Selects(m, n) <=> Len(m) = Len(n) /\ \A j \in 1 .. Len(m) : m[j] = n[j]
  <2>1. Len(m) \in 1 .. Len(m) /\ \A j \in 1 .. Len(m) : j \in 1 .. Len(m) - 1 \/ j = Len(m)
    BY <1>1
  <2>2. \A j \in 1 .. Len(m) - 1 : j \in 1 .. Len(m)
    BY <1>1
  <2> QED  BY <2>1, <2>2 DEF Selects, Along, Plain
<1>3. m = n <=> Len(m) = Len(n) /\ \A j \in 1 .. Len(m) : m[j] = n[j]
  BY <1>1, SeqEqual DEF Path
<1> QED  BY <1>2, <1>3

\* A petition without "*" and "+", as the programs of the repository make them, finds the
\* stored parameters of that name and no other: what the lines are modelled with
\* (common.cpp:40-69, raildriver.cpp:345).
PlainFindsItsName ==
  \A m \in Petition : Plain(m) => GetAllMatches(m) = {p \in parameters : PathOf[p] = m}

THEOREM PlainFindsItsNameAlways == Spec => []PlainFindsItsName
<1>1. TreeInv /\ SearchFindsSelected => PlainFindsItsName
  <2> SUFFICES ASSUME TreeInv, SearchFindsSelected, NEW m \in Petition, Plain(m)
               PROVE  GetAllMatches(m) = {p \in parameters : PathOf[p] = m}
    BY DEF PlainFindsItsName
  <2>1. m \in Path /\ m # Root
    BY TreeAssumption DEF Path, Root
  <2>2. \A p \in parameters : PathOf[p] \in Path
    BY TopicIs DEF TreeInv, Typed
  <2>3. \A p \in parameters : Selects(m, PathOf[p]) <=> PathOf[p] = m
    BY <2>1, <2>2, PlainSelectsItself
  <2>4. GetAllMatches(m) = {p \in parameters : Selects(m, PathOf[p])}
    BY DEF SearchFindsSelected
  <2> QED  BY <2>3, <2>4
<1> QED  BY <1>1, TreeInvAlways, SearchFindsSelectedAlways, PTL
-------------------------------------------------------------------------------
(* GetMatch.                                                               *)

\* What is left of the name m from component i on is the name n after depth d.
SameFrom(m, i, n, d) ==
  Len(m) - i = Len(n) - (d + 1) /\ \A j \in i .. Len(m) : m[j] = n[d + 1 + j - i]

LEMMA SameFromLast ==
  ASSUME NEW m \in Path, NEW i \in 1 .. Len(m), NEW n \in Path, NEW d \in Nat, i = Len(m)
  PROVE  SameFrom(m, i, n, d) <=> Len(n) = d + 1 /\ n[Len(n)] = m[i]
<1>1. Len(m) \in Nat /\ Len(n) \in Nat
  BY DEF Path
<1>2. i .. Len(m) = {i} /\ d + 1 + i - i = d + 1
  BY <1>1
<1> QED  BY <1>1, <1>2 DEF SameFrom

LEMMA SameFromNext ==
  ASSUME NEW m \in Path, NEW i \in 1 .. Len(m), NEW n \in Path, NEW d \in Nat, i < Len(m)
  PROVE  SameFrom(m, i, n, d) <=> /\ d + 1 < Len(n)
                                  /\ m[i] = n[d + 1]
                                  /\ SameFrom(m, i + 1, n, d + 1)
<1>1. Len(m) \in Nat /\ Len(n) \in Nat /\ i \in Nat
  BY DEF Path
<1>2. i .. Len(m) = {i} \cup (i + 1 .. Len(m)) /\ d + 1 + i - i = d + 1
  BY <1>1
<1>3. \A j \in i + 1 .. Len(m) : d + 1 + j - i = (d + 1) + 1 + j - (i + 1)
  BY <1>1
<1>4. Len(m) - i = Len(n) - (d + 1) <=>
        d + 1 < Len(n) /\ Len(m) - (i + 1) = Len(n) - ((d + 1) + 1)
  BY <1>1
<1> QED  BY <1>2, <1>3, <1>4 DEF SameFrom

\* What GetMatch says of the call on topic t, given what it says of others.
MatchAt(m, e, t) ==
  [i \in 1 .. Len(m) |->
    IF i = Len(m)
      THEN {p \in tree[t] : Last(PathOf[p]) = m[i]}
      ELSE UNION {e[u][i + 1] : u \in {v \in Subtopics(tree, t) : m[i] = Last(v)}}]

\* The closed form.
Named(m, t) ==
  [i \in 1 .. Len(m) |->
    {p \in parameters : OnWay(t, p) /\ SameFrom(m, i, PathOf[p], Len(t))}]

LEMMA NamedIsSolution ==
  ASSUME TreeInv, NEW m \in Path, NEW t \in DOMAIN tree, NEW e,
         \A u \in Subtopics(tree, t) : e[u] = Named(m, u)
  PROVE  MatchAt(m, e, t) = Named(m, t)
<1> SUFFICES ASSUME NEW i \in 1 .. Len(m) PROVE MatchAt(m, e, t)[i] = Named(m, t)[i]
  BY DEF MatchAt, Named
<1>1. Len(m) \in Nat /\ i \in Nat /\ Len(t) \in Nat
  BY DEF Path, TreeInv, Typed
<1>2. \A p \in parameters : PathOf[p] \in Path /\ Len(PathOf[p]) \in Nat
  BY TopicIs DEF TreeInv, Typed, Path
<1>3. tree[t] \subseteq parameters
  BY DEF TreeInv, Filed
<1>4. \A u \in Subtopics(tree, t), k \in 1 .. Len(m) :
        e[u][k] = {p \in parameters : OnWay(u, p) /\ SameFrom(m, k, PathOf[p], Len(u))}
  BY DEF Named
<1>5. Named(m, t)[i]
        = {p \in parameters : OnWay(t, p) /\ SameFrom(m, i, PathOf[p], Len(t))}
  BY DEF Named
<1>6. CASE i = Len(m)
  <2>1. MatchAt(m, e, t)[i] = {p \in tree[t] : Last(PathOf[p]) = m[i]}
    BY <1>6 DEF MatchAt
  <2>2. ASSUME NEW p \in parameters
        PROVE  OnWay(t, p) /\ SameFrom(m, i, PathOf[p], Len(t))
                 <=> p \in tree[t] /\ Last(PathOf[p]) = m[i]
    <3>1. SameFrom(m, i, PathOf[p], Len(t))
            <=> Len(PathOf[p]) = Len(t) + 1 /\ Last(PathOf[p]) = m[i]
      BY <1>1, <1>2, <1>6, SameFromLast DEF Last
    <3> QED  BY <3>1, OwnTopic
  <2> QED  BY <1>3, <1>5, <2>1, <2>2
<1>7. CASE i < Len(m)
  <2>1. MatchAt(m, e, t)[i]
          = UNION {e[u][i + 1] : u \in {v \in Subtopics(tree, t) : m[i] = Last(v)}}
    BY <1>1, <1>7 DEF MatchAt
  <2>2. i + 1 \in 1 .. Len(m)
    BY <1>1, <1>7
  <2>3. ASSUME NEW p \in parameters
        PROVE  SameFrom(m, i, PathOf[p], Len(t))
                 <=> /\ Len(t) + 1 < Len(PathOf[p])
                     /\ m[i] = PathOf[p][Len(t) + 1]
                     /\ SameFrom(m, i + 1, PathOf[p], Len(t) + 1)
    BY <1>1, <1>2, <1>7, SameFromNext
  <2>4. ASSUME NEW p \in Named(m, t)[i]
        PROVE  \E u \in Subtopics(tree, t) : m[i] = Last(u) /\ p \in e[u][i + 1]
    <3>1. p \in parameters /\ OnWay(t, p) /\ SameFrom(m, i, PathOf[p], Len(t))
      BY <1>5, <2>4
    <3>2. PICK u \in Subtopics(tree, t) : OnWay(u, p)
      BY <2>3, <3>1, FurtherDown
    <3>3. Len(u) = Len(t) + 1 /\ Last(u) = PathOf[p][Len(t) + 1]
      BY <3>1, <3>2, OneDown
    <3> QED  BY <1>4, <2>2, <2>3, <3>1, <3>2, <3>3
  <2>5. ASSUME NEW u \in Subtopics(tree, t), m[i] = Last(u), NEW p \in e[u][i + 1]
        PROVE  p \in Named(m, t)[i]
    <3>1. p \in parameters /\ OnWay(u, p) /\ SameFrom(m, i + 1, PathOf[p], Len(u))
      BY <1>4, <2>2, <2>5
    <3>2. /\ OnWay(t, p) /\ Len(u) = Len(t) + 1 /\ Last(u) = PathOf[p][Len(t) + 1]
          /\ Len(t) + 1 < Len(PathOf[p])
      BY <3>1, OneDown
    <3> QED  BY <1>5, <2>3, <2>5, <3>1, <3>2
  <2> QED  BY <2>1, <2>4, <2>5
<1> QED  BY <1>1, <1>6, <1>7

LEMMA MatchIsNamed ==
  ASSUME TreeInv, NEW m \in Path, m # Root
  PROVE  GetMatch(m) = Named(m, Root)[1]
<1> DEFINE found == CHOOSE e : e = [t \in DOMAIN tree |-> MatchAt(m, e, t)]
           h == [t \in DOMAIN tree |-> Named(m, t)]
<1>1. \A t \in DOMAIN tree : Subtopics(tree, t) \subseteq DOMAIN tree
  BY DEF Subtopics
<1>2. h = [t \in DOMAIN tree |-> MatchAt(m, h, t)]
  BY <1>1, NamedIsSolution
<1>3. found = [t \in DOMAIN tree |-> MatchAt(m, found, t)]
  BY <1>2
<1>4. GetMatch(m) = found[Root][1]
  BY DEF GetMatch, MatchAt
<1> HIDE DEF found, h
<1>5. \A t \in DOMAIN tree : found[t] = Named(m, t)
  <2> DEFINE T == {t \in DOMAIN tree : found[t] # Named(m, t)}
  <2>1. SUFFICES ASSUME T # {} PROVE FALSE
    OBVIOUS
  <2>2. PICK t \in T : \A u \in T : Len(u) <= Len(t)
    BY <2>1, Deepest
  <2>3. ASSUME NEW u \in Subtopics(tree, t) PROVE found[u] = Named(m, u)
    <3>1. t \in Path /\ u \in Path /\ u \in DOMAIN tree
      BY DEF TreeInv, Typed, Subtopics
    <3>2. Len(u) = Len(t) + 1 /\ Len(t) \in Nat
      BY <3>1, SubtopicIs DEF Subtopics, Path
    <3> QED  BY <2>2, <3>1, <3>2
  <2>4. found[t] = MatchAt(m, found, t)
    BY <1>3
  <2> QED  BY <2>3, <2>4, NamedIsSolution
<1>6. Root \in DOMAIN tree
  BY DEF TreeInv, NoDeadTopics
<1> QED  BY <1>4, <1>5, <1>6

\* For any parameters, inserted and erased in any order, a name finds exactly the stored
\* parameters that have it (common.cpp:70-86).
THEOREM ValueFindsItsNameAlways == Spec => []ValueFindsItsName
<1>1. TreeInv => ValueFindsItsName
  <2> SUFFICES ASSUME TreeInv, NEW q \in Param
               PROVE  GetMatch(PathOf[q]) = {p \in parameters : PathOf[p] = PathOf[q]}
    BY DEF ValueFindsItsName
  <2> DEFINE m == PathOf[q]
  <2>1. m \in Path /\ m # Root /\ Len(m) \in Nat \ {0}
    BY TopicIs, TreeAssumption DEF Root
  <2> HIDE DEF m
  <2>2. ASSUME NEW p \in parameters
        PROVE  OnWay(Root, p) /\ (SameFrom(m, 1, PathOf[p], Len(Root)) <=> PathOf[p] = m)
    <3>1. PathOf[p] \in Path /\ Len(PathOf[p]) \in Nat \ {0} /\ Len(Root) = 0
      BY TopicIs DEF TreeInv, Typed, Root
    <3>2. SameFrom(m, 1, PathOf[p], 0)
            <=> Len(m) = Len(PathOf[p]) /\ \A j \in 1 .. Len(m) : m[j] = PathOf[p][j]
      <4>1. \A j \in 1 .. Len(m) : 0 + 1 + j - 1 = j
        BY <2>1
      <4>2. Len(m) - 1 = Len(PathOf[p]) - (0 + 1) <=> Len(m) = Len(PathOf[p])
        BY <2>1, <3>1
      <4> QED  BY <4>1, <4>2 DEF SameFrom
    <3>3. PathOf[p] = m <=> Len(m) = Len(PathOf[p]) /\ \A j \in 1 .. Len(m) : m[j] = PathOf[p][j]
      BY <2>1, <3>1, SeqEqual DEF Path
    <3> QED  BY <3>1, <3>2, <3>3 DEF OnWay
  <2>3. Named(m, Root)[1] = {p \in parameters : PathOf[p] = m}
    BY <2>1, <2>2 DEF Named
  <2>4. GetMatch(m) = {p \in parameters : PathOf[p] = m}
    BY <2>1, <2>3, MatchIsNamed
  <2> QED  BY <2>4 DEF m
<1> QED  BY <1>1, TreeInvAlways, PTL
-------------------------------------------------------------------------------
(* SplitTopic.  First, what is written for a path.                         *)

Component == Seq(Char)

\* What is written for the first k components, given what is written for fewer.
JoinedAt(path, f, k) ==
  IF k = 0 THEN <<>>
  ELSE IF k = 1 THEN path[1] ELSE f[k - 1] \o <<Colon, Colon>> \o path[k]

IsJoined(path, f, n) == f = [k \in 0 .. n |-> JoinedAt(path, f, k)]

LEMMA JoinedExists ==
  ASSUME NEW path
  PROVE  \A n \in Nat : \E f : IsJoined(path, f, n)
<1> DEFINE T == {n \in Nat : ~ \E f : IsJoined(path, f, n)}
<1>1. SUFFICES ASSUME T # {} PROVE FALSE
  OBVIOUS
<1>2. PICK n \in T : \A k \in T : n <= k
  BY <1>1, SmallestOf
<1>3. CASE n = 0
  <2> DEFINE f == [k \in 0 .. 0 |-> <<>>]
  <2>1. f = [k \in 0 .. 0 |-> JoinedAt(path, f, k)]
    BY DEF JoinedAt
  <2> QED  BY <1>3, <2>1 DEF IsJoined
<1>4. CASE n # 0
  <2>1. n - 1 \in Nat /\ n - 1 \notin T
    BY <1>2, <1>4
  <2>2. PICK f : IsJoined(path, f, n - 1)
    BY <2>1
  <2> DEFINE g == [k \in 0 .. n |-> IF k = n THEN JoinedAt(path, f, n) ELSE f[k]]
  <2>3. ASSUME NEW k \in 0 .. n PROVE g[k] = JoinedAt(path, g, k)
    <3>1. k - 1 \in 0 .. n - 1 /\ k # 0 => g[k - 1] = f[k - 1]
      OBVIOUS
    <3>2. k # 0 => k - 1 \in 0 .. n - 1
      OBVIOUS
    <3>3. JoinedAt(path, g, k) = JoinedAt(path, f, k)
      BY <3>1, <3>2 DEF JoinedAt
    <3>4. CASE k = n
      BY <3>3, <3>4
    <3>5. CASE k # n
      <4>1. k \in 0 .. n - 1
        BY <3>5
      <4>2. f[k] = JoinedAt(path, f, k)
        BY <2>2, <4>1 DEF IsJoined
      <4> QED  BY <3>3, <3>5, <4>2
    <3> QED  BY <3>4, <3>5
  <2>4. IsJoined(path, g, n)
    BY <2>3 DEF IsJoined
  <2> HIDE DEF g
  <2> QED  BY <2>4
<1> QED  BY <1>3, <1>4

LEMMA JoinsIs ==
  ASSUME NEW path, Len(path) \in Nat
  PROVE  IsJoined(path, Split!Joins(path), Len(path))
<1>1. PICK f : IsJoined(path, f, Len(path))
  BY JoinedExists
<1> QED  BY <1>1 DEF IsJoined, JoinedAt, Split!Joins

\* Of two paths with the same first components, what is written for these is the same.
LEMMA JoinedSame ==
  ASSUME NEW path, NEW other, NEW f, NEW g, NEW n \in Nat, NEW m \in Nat, n <= m,
         IsJoined(path, f, n), IsJoined(other, g, m), \A k \in 1 .. n : path[k] = other[k]
  PROVE  \A k \in 0 .. n : f[k] = g[k]
<1> DEFINE T == {k \in 0 .. n : f[k] # g[k]}
<1>1. SUFFICES ASSUME T # {} PROVE FALSE
  OBVIOUS
<1>2. PICK k \in T : \A l \in T : k <= l
  <2>1. T \in SUBSET Nat
    OBVIOUS
  <2> QED  BY <1>1, <2>1, SmallestOf
<1>3. f[k] = JoinedAt(path, f, k) /\ g[k] = JoinedAt(other, g, k)
  <2>1. k \in 0 .. n /\ k \in 0 .. m
    OBVIOUS
  <2>2. \A F : F = [h \in 0 .. n |-> JoinedAt(path, f, h)] => F[k] = JoinedAt(path, f, k)
    BY <2>1
  <2>3. \A F : F = [h \in 0 .. m |-> JoinedAt(other, g, h)] => F[k] = JoinedAt(other, g, k)
    BY <2>1
  <2> QED  BY <2>2, <2>3 DEF IsJoined
<1>4. CASE k = 0
  BY <1>3, <1>4 DEF JoinedAt
<1>5. CASE k # 0
  <2>1. k - 1 \in 0 .. n /\ k - 1 \notin T
    BY <1>2, <1>5
  <2>2. path[k] = other[k] /\ k \in 1 .. n
    BY <1>5
  <2>3. k = 1 => path[1] = other[1]
    BY <2>2
  <2> QED  BY <1>3, <1>5, <2>1, <2>2, <2>3 DEF JoinedAt
<1> QED  BY <1>4, <1>5

\* One more component.
LEMMA JoinAppend ==
  ASSUME NEW path \in Seq(Component), NEW x \in Component
  PROVE  Split!Join(Append(path, x)) =
           IF path = <<>> THEN x ELSE Split!Join(path) \o <<Colon, Colon>> \o x
<1> DEFINE longer == Append(path, x)
           n == Len(path)
<1>1. /\ Len(longer) = n + 1 /\ n \in Nat /\ longer[n + 1] = x
      /\ \A k \in 1 .. n : longer[k] = path[k]
  BY AppendProperties, LenProperties
<1>2. path = <<>> <=> n = 0
  BY EmptySeq
<1> HIDE DEF longer, n
<1>3. IsJoined(path, Split!Joins(path), n) /\ IsJoined(longer, Split!Joins(longer), n + 1)
  BY <1>1, JoinsIs DEF n
<1>4. Split!Joins(longer)[n] = Split!Joins(path)[n]
  <2>1. n \in 0 .. n /\ n + 1 \in Nat /\ n <= n + 1
    BY <1>1
  <2>2. \A k \in 1 .. n : path[k] = longer[k]
    BY <1>1
  <2>3. \A k \in 0 .. n : Split!Joins(path)[k] = Split!Joins(longer)[k]
    BY <1>1, <1>3, <2>1, <2>2, JoinedSame
  <2> QED  BY <2>1, <2>3
<1>5. Split!Join(longer) = JoinedAt(longer, Split!Joins(longer), n + 1)
  <2>1. n + 1 \in 0 .. n + 1
    BY <1>1
  <2> QED  BY <1>1, <1>3, <2>1 DEF IsJoined, Split!Join
<1>6. CASE n = 0
  BY <1>1, <1>2, <1>5, <1>6 DEF JoinedAt, longer
<1>7. CASE n # 0
  <2>1. n + 1 # 0 /\ n + 1 # 1 /\ n + 1 - 1 = n
    BY <1>1, <1>7
  <2>2. JoinedAt(longer, Split!Joins(longer), n + 1)
          = Split!Joins(longer)[n] \o <<Colon, Colon>> \o longer[n + 1]
    <3>1. \A f, h, l : h # 0 /\ h # 1 /\ h - 1 = l =>
            JoinedAt(longer, f, h) = f[l] \o <<Colon, Colon>> \o longer[h]
      BY Zenon DEF JoinedAt
    <3> DEFINE F == Split!Joins(longer)
               m == n + 1
    <3>2. m # 0 /\ m # 1 /\ m - 1 = n
      BY <1>1, <1>7
    <3> HIDE DEF F, m
    <3>3. JoinedAt(longer, F, m) = F[n] \o <<Colon, Colon>> \o longer[m]
      BY <3>1, <3>2, Zenon
    <3> QED  BY <3>3, Zenon DEF F, m
  <2>3. Split!Join(path) = Split!Joins(path)[n] /\ path # <<>>
    BY <1>2, <1>7 DEF Split!Join, n
  <2> QED  BY <1>1, <1>4, <1>5, <2>2, <2>3 DEF longer
<1> QED  BY <1>6, <1>7
-------------------------------------------------------------------------------
(* Colons come in pairs: so they do behind each pair that was skipped.     *)

\* The colons that end at place p, if any, are an even number.
EvenTo(p) ==
  \E r \in 1 .. p + 1 :
    /\ r = 1 \/ name[r - 1] # Colon
    /\ \A k \in r .. p : name[k] = Colon
    /\ (p + 1 - r) % 2 = 0

LEMMA PairFollows ==
  ASSUME name \in Component, Split!Written(name), NEW p \in 0 .. Len(name), EvenTo(p),
         NEW f \in p + 1 .. Len(name), name[f] = Colon, \A k \in p + 1 .. f - 1 : name[k] # Colon
  PROVE  f + 1 <= Len(name) /\ name[f + 1] = Colon /\ EvenTo(f + 1)
<1>0. Len(name) \in Nat
  BY LenProperties DEF Component
<1>1. PICK r \in 1 .. f : /\ r = 1 \/ name[r - 1] # Colon
                          /\ \A k \in r .. f : name[k] = Colon
                          /\ (f - r) % 2 = 0
  <2>1. CASE f = p + 1
    <3>1. PICK r \in 1 .. p + 1 : /\ r = 1 \/ name[r - 1] # Colon
                                  /\ \A k \in r .. p : name[k] = Colon
                                  /\ (p + 1 - r) % 2 = 0
      BY DEF EvenTo
    <3>2. \A k \in r .. f : k \in r .. p \/ k = f
      BY <1>0, <2>1
    <3> QED  BY <2>1, <3>1, <3>2
  <2>2. CASE f # p + 1
    <3>1. f - 1 \in p + 1 .. f - 1 /\ f \in 1 .. f /\ f - f = 0
      BY <1>0, <2>2
    <3>2. name[f - 1] # Colon /\ \A k \in f .. f : name[k] = Colon
      BY <3>1
    <3> QED  BY <3>1, <3>2
  <2> QED  BY <2>1, <2>2
<1>2. PICK e \in f .. Len(name) : /\ \A k \in r .. e : name[k] = Colon
                                  /\ e = Len(name) \/ name[e + 1] # Colon
  <2> DEFINE T == {e \in f .. Len(name) : \A k \in r .. e : name[k] = Colon}
  <2>1. T \in SUBSET Nat /\ f \in T /\ \A e \in T : e <= Len(name)
    BY <1>0, <1>1
  <2>2. PICK e \in T : \A h \in T : h <= e
    BY <1>0, <2>1, GreatestOf
  <2>3. ASSUME e # Len(name), name[e + 1] = Colon PROVE FALSE
    <3>1. e + 1 \in f .. Len(name) /\ \A k \in r .. e + 1 : k \in r .. e \/ k = e + 1
      BY <1>0, <2>3
    <3>2. e + 1 \in T
      BY <2>3, <3>1
    <3> QED  BY <1>0, <2>2, <3>2
  <2> QED  BY <2>3
<1>3. (e - r) % 2 = 1
  <2>1. r \in 1 .. Len(name) /\ e \in 1 .. Len(name) /\ r <= e
    BY <1>0
  <2> QED  BY <1>1, <1>2, <2>1 DEF Split!Written
<1>4. e # f
  BY <1>1, <1>3
<1>5. f + 1 \in r .. e /\ f + 1 <= Len(name)
  BY <1>0, <1>4
<1>6. EvenTo(f + 1)
  <2>1. r \in 1 .. (f + 1) + 1 /\ \A k \in r .. f + 1 : k \in r .. e
    BY <1>0, <1>5
  <2>2. ((f + 1) + 1 - r) % 2 = 0
    BY <1>0, <1>1
  <2> QED  BY <1>1, <1>2, <2>1, <2>2 DEF EvenTo
<1> QED  BY <1>2, <1>5, <1>6
-------------------------------------------------------------------------------
(* Where SplitTopic stands in a name that is the writing of a path.        *)

\* The place behind which what is left of the name begins.
Gone == Len(name) - Len(rest)

\* The place of the last byte of the component that was cut off last.
CutTo == IF index = Split!Npos THEN Len(name) ELSE Gone + index

SplitAt ==
  /\ rest \in Component /\ Gone \in 0 .. Len(name)
  /\ \A k \in 1 .. Len(rest) : rest[k] = name[Gone + k]
  /\ EvenTo(Gone)
  /\ vec \in Seq(Component)
  /\ \A k \in DOMAIN vec : Colon \notin Split!Range(vec[k])
  /\ \/ vec = <<>> /\ index = -2 /\ rest = name /\ pc = "loop"
     \/ /\ vec # <<>> /\ index = Split!FindFirstOf(rest)
        /\ pc = (IF index = Split!Npos THEN "done" ELSE "loop")
        /\ Split!Join(vec) = SubSeq(name, 1, CutTo)

SplitInv == name \in Component /\ (Split!Written(name) => SplitAt)

LEMMA SplitInit == Split!Init => SplitInv
<1> SUFFICES ASSUME Split!Init PROVE SplitInv
  OBVIOUS
<1>1. name \in Component /\ Len(name) \in Nat
  <2>1. name \in Component
    BY DEF Split!Init, Split!BoundedSeq, Split!SeqOf, Component
  <2> QED  BY <2>1, LenProperties DEF Component
<1>2. Gone = 0 /\ rest = name
  BY <1>1 DEF Split!Init, Gone
<1>3. EvenTo(0)
  <2>1. 1 \in 1 .. 0 + 1 /\ (0 + 1 - 1) % 2 = 0 /\ \A k \in 1 .. 0 : FALSE
    OBVIOUS
  <2> QED  BY <2>1 DEF EvenTo
<1>4. vec = <<>> /\ vec \in Seq(Component) /\ DOMAIN vec = {}
  BY EmptySeq DEF Split!Init
<1> QED  BY <1>1, <1>2, <1>3, <1>4 DEF SplitInv, SplitAt, Split!Init

\* What find_first_of finds.
LEMMA FoundIs ==
  ASSUME NEW t \in Component
  PROVE  \/ Split!FindFirstOf(t) = Split!Npos /\ \A k \in 1 .. Len(t) : t[k] # Colon
         \/ /\ Split!FindFirstOf(t) \in 0 .. Len(t) - 1
            /\ t[Split!FindFirstOf(t) + 1] = Colon
            /\ \A k \in 1 .. Split!FindFirstOf(t) : t[k] # Colon
<1>0. Len(t) \in Nat
  BY LenProperties DEF Component
<1>1. CASE ~ \E k \in 1 .. Len(t) : t[k] = Colon
  BY <1>1 DEF Split!FindFirstOf
<1>2. CASE \E k \in 1 .. Len(t) : t[k] = Colon
  <2> DEFINE T == {k \in 1 .. Len(t) : t[k] = Colon}
             First(k) == t[k] = Colon /\ \A h \in 1 .. k - 1 : t[h] # Colon
  <2>1. PICK k \in T : \A h \in T : k <= h
    <3>1. T \in SUBSET Nat /\ T # {}
      BY <1>0, <1>2
    <3> QED  BY <3>1, SmallestOf
  <2>2. \E h \in 1 .. Len(t) : First(h)
    BY <1>0, <2>1
  <2>3. Split!FindFirstOf(t) = (CHOOSE h \in 1 .. Len(t) : First(h)) - 1
    BY <1>2 DEF Split!FindFirstOf
  <2>4. PICK h \in 1 .. Len(t) : First(h) /\ Split!FindFirstOf(t) = h - 1
    BY <2>2, <2>3
  <2>5. h - 1 \in 0 .. Len(t) - 1 /\ (h - 1) + 1 = h
    BY <1>0
  <2> QED  BY <2>4, <2>5
<1> QED  BY <1>1, <1>2

\* A component and its two colons are put behind what was cut off before.
LEMMA OneMoreWritten ==
  ASSUME name \in Component, NEW p \in 0 .. Len(name), NEW e \in p .. Len(name), p >= 2,
         name[p - 1] = Colon, name[p] = Colon
  PROVE  SubSeq(name, 1, p - 2) \o <<Colon, Colon>> \o SubSeq(name, p + 1, e) = SubSeq(name, 1, e)
<1>0. Len(name) \in Nat /\ \A k \in 1 .. Len(name) : name[k] \in Char
  BY LenProperties DEF Component
<1>1. SubSeq(name, p - 1, p) = <<Colon, Colon>>
  <2>1. /\ SubSeq(name, p - 1, p) \in Seq(Char) /\ Len(SubSeq(name, p - 1, p)) = 2
        /\ SubSeq(name, p - 1, p)[1] = name[p - 1] /\ SubSeq(name, p - 1, p)[2] = name[p]
    <3>1. \A k \in p - 1 .. p : name[k] \in Char
      BY <1>0
    <3>2. /\ SubSeq(name, p - 1, p) \in Seq(Char)
          /\ Len(SubSeq(name, p - 1, p)) = IF p - 1 <= p THEN p - (p - 1) + 1 ELSE 0
          /\ \A k \in 1 .. p - (p - 1) + 1 : SubSeq(name, p - 1, p)[k] = name[(p - 1) + k - 1]
      BY <3>1, SubSeqProperties
    <3> QED  BY <1>0, <3>2
  <2>2. Colon \in Char
    BY <1>0
  <2>3. <<Colon, Colon>> \in Seq(Char) /\ Len(<<Colon, Colon>>) = 2
        /\ <<Colon, Colon>>[1] = Colon /\ <<Colon, Colon>>[2] = Colon
    BY <2>2
  <2> DEFINE y == SubSeq(name, p - 1, p)
             z == <<Colon, Colon>>
  <2> HIDE DEF y, z
  <2>4. \A k \in 1 .. Len(y) : y[k] = z[k]
    <3>1. 1 .. 2 = {1, 2} /\ Len(y) = 2 /\ y[1] = z[1] /\ y[2] = z[2]
      BY <2>1, <2>3 DEF y, z
    <3> QED  BY <3>1
  <2>5. y \in Seq(Char) /\ z \in Seq(Char) /\ Len(y) = Len(z)
    BY <2>1, <2>3 DEF y, z
  <2>6. y = z
    BY <2>4, <2>5, SeqEqual
  <2> QED  BY <2>6 DEF y, z
<1>2. SubSeq(name, 1, p - 2) \o SubSeq(name, p - 1, p) = SubSeq(name, 1, p)
  <2>1. p - 2 \in 1 - 1 .. Len(name) /\ p \in p - 2 .. Len(name) /\ 1 \in 1 .. Len(name) + 1
        /\ (p - 2) + 1 = p - 1
    BY <1>0
  <2>2. name \in Seq(Char)
    BY DEF Component
  <2> QED  BY <2>1, <2>2, ConcatAdjacentSubSeq
<1>3. SubSeq(name, 1, p) \o SubSeq(name, p + 1, e) = SubSeq(name, 1, e)
  <2>1. p \in 1 - 1 .. Len(name) /\ e \in p .. Len(name) /\ 1 \in 1 .. Len(name) + 1
    BY <1>0
  <2>2. name \in Seq(Char)
    BY DEF Component
  <2> QED  BY <2>1, <2>2, ConcatAdjacentSubSeq
<1> QED  BY <1>1, <1>2, <1>3

\* The beginning of what is behind place g is behind place g.
LEMMA SameCut ==
  ASSUME NEW w \in Component, NEW t \in Component, NEW g \in 0 .. Len(w), NEW e \in 0 .. Len(t),
         g + e <= Len(w), \A k \in 1 .. Len(t) : t[k] = w[g + k]
  PROVE  SubSeq(t, 1, e) = SubSeq(w, g + 1, g + e)
<1>1. /\ Len(w) \in Nat /\ Len(t) \in Nat
      /\ \A k \in 1 .. Len(w) : w[k] \in Char
      /\ \A k \in 1 .. Len(t) : t[k] \in Char
  BY LenProperties DEF Component
<1> DEFINE x == SubSeq(t, 1, e)
           y == SubSeq(w, g + 1, g + e)
<1>2. x \in Seq(Char) /\ Len(x) = e /\ \A k \in 1 .. e : x[k] = t[k]
  <2>1. 1 \in Int /\ e \in Int /\ \A k \in 1 .. e : t[k] \in Char
    BY <1>1
  <2>2. /\ x \in Seq(Char) /\ Len(x) = IF 1 <= e THEN e - 1 + 1 ELSE 0
        /\ \A k \in 1 .. e - 1 + 1 : x[k] = t[1 + k - 1]
    BY <2>1, SubSeqProperties
  <2> HIDE DEF x
  <2>3. \A k \in 1 .. e : k \in 1 .. e - 1 + 1 /\ 1 + k - 1 = k
    BY <1>1
  <2> QED  BY <1>1, <2>2, <2>3
<1>3. y \in Seq(Char) /\ Len(y) = e /\ \A k \in 1 .. e : y[k] = w[g + k]
  <2>1. g + 1 \in Int /\ g + e \in Int /\ \A k \in g + 1 .. g + e : w[k] \in Char
    BY <1>1
  <2>2. /\ y \in Seq(Char) /\ Len(y) = IF g + 1 <= g + e THEN g + e - (g + 1) + 1 ELSE 0
        /\ \A k \in 1 .. g + e - (g + 1) + 1 : y[k] = w[(g + 1) + k - 1]
    BY <2>1, SubSeqProperties
  <2> HIDE DEF y
  <2>3. \A k \in 1 .. e : k \in 1 .. g + e - (g + 1) + 1 /\ (g + 1) + k - 1 = g + k
    BY <1>1
  <2> QED  BY <1>1, <2>2, <2>3
<1> HIDE DEF x, y
<1>4. \A k \in 1 .. Len(x) : x[k] = y[k]
  <2>1. \A k \in 1 .. e : k \in 1 .. Len(t)
    BY <1>1
  <2> QED  BY <1>2, <1>3, <2>1
<1>5. x = y
  BY <1>2, <1>3, <1>4, SeqEqual
<1> QED  BY <1>5 DEF x, y

\* The two bytes that are skipped are there, and are colons.
LEMMA SkippedIs ==
  ASSUME name \in Component, Split!Written(name), SplitAt, pc = "loop"
  PROVE  LET from == index + 2
         IN  /\ from \in 0 .. Len(rest) /\ EvenTo(Gone + from)
             /\ vec # <<>> => /\ from >= 2 /\ name[Gone + from - 1] = Colon /\ name[Gone + from] = Colon
                              /\ Split!Join(vec) = SubSeq(name, 1, Gone + from - 2)
<1> DEFINE from == index + 2
<1>1. name \in Component /\ Len(name) \in Nat
  BY LenProperties DEF Component
<1>2. Split!Written(name)
  OBVIOUS
<1>3. SplitAt /\ pc = "loop" /\ Len(rest) \in Nat
  BY LenProperties DEF SplitAt, Component
<1>4. CASE vec = <<>>
  BY <1>3, <1>4 DEF SplitAt
<1>5. CASE vec # <<>>
  <2>1. index = Split!FindFirstOf(rest) /\ index # Split!Npos
    BY <1>3, <1>5 DEF SplitAt
  <2>2. /\ index \in 0 .. Len(rest) - 1 /\ rest[index + 1] = Colon
        /\ \A k \in 1 .. index : rest[k] # Colon
    BY <1>3, <2>1, FoundIs DEF SplitAt
  <2> DEFINE g == Gone + index + 1
  <2>3. Gone \in 0 .. Len(name) /\ Len(rest) = Len(name) - Gone
    BY <1>1, <1>3 DEF SplitAt, Gone
  <2>4. g \in Gone + 1 .. Len(name)
    BY <1>1, <2>2, <2>3
  <2>5. name[g] = Colon /\ \A k \in Gone + 1 .. g - 1 : name[k] # Colon
    <3>1. name[Gone + (index + 1)] = rest[index + 1] /\ Gone + (index + 1) = g
      BY <1>3, <2>2, <2>3 DEF SplitAt
    <3>2. ASSUME NEW k \in Gone + 1 .. g - 1 PROVE name[k] # Colon
      <4>1. k - Gone \in 1 .. index /\ k - Gone \in 1 .. Len(rest) /\ Gone + (k - Gone) = k
        BY <2>2, <2>3
      <4>2. rest[k - Gone] = name[Gone + (k - Gone)]
        BY <1>3, <4>1 DEF SplitAt
      <4> QED  BY <2>2, <4>1, <4>2
    <3> QED  BY <2>2, <3>1, <3>2
  <2>6. EvenTo(Gone)
    BY <1>3 DEF SplitAt
  <2>7. g + 1 <= Len(name) /\ name[g + 1] = Colon /\ EvenTo(g + 1)
    <3> HIDE DEF g
    <3> QED  BY <1>1, <1>2, <2>3, <2>4, <2>5, <2>6, PairFollows
  <2>8. g + 1 = Gone + from /\ g = Gone + from - 1 /\ Gone + index = Gone + from - 2
    BY <2>2, <2>3
  <2>9. Split!Join(vec) = SubSeq(name, 1, Gone + index)
    BY <1>3, <1>5, <2>1 DEF SplitAt, CutTo
  <2> QED  BY <2>2, <2>3, <2>5, <2>7, <2>8, <2>9
<1> QED  BY <1>4, <1>5

\* What is left when the beginning of the rest is cut off.
LEMMA LeftIs ==
  ASSUME name \in Component, SplitAt, NEW from \in 0 .. Len(rest)
  PROVE  LET t == Split!Substr(rest, from)
         IN  /\ t \in Component /\ Len(t) = Len(rest) - from
             /\ \A k \in 1 .. Len(t) : t[k] = name[Gone + from + k]
<1> DEFINE t == Split!Substr(rest, from)
<1>1. Len(name) \in Nat /\ Len(rest) \in Nat
  BY LenProperties DEF SplitAt, Component
<1>2. Gone \in 0 .. Len(name) /\ Len(rest) = Len(name) - Gone
      /\ \A k \in 1 .. Len(rest) : rest[k] = name[Gone + k] /\ rest[k] \in Char
  BY <1>1 DEF SplitAt, Gone, Component
<1>3. from + 1 \in Int /\ Len(rest) \in Int /\ \A k \in from + 1 .. Len(rest) : rest[k] \in Char
  BY <1>1, <1>2
<1>4. t = SubSeq(rest, from + 1, Len(rest))
  BY DEF Split!Substr
<1> HIDE DEF t
<1>5. /\ t \in Seq(Char)
      /\ Len(t) = IF from + 1 <= Len(rest) THEN Len(rest) - (from + 1) + 1 ELSE 0
      /\ \A k \in 1 .. Len(rest) - (from + 1) + 1 : t[k] = rest[(from + 1) + k - 1]
  BY <1>3, <1>4, SubSeqProperties
<1>6. Len(t) = Len(rest) - from
  BY <1>1, <1>5
<1>7. ASSUME NEW k \in 1 .. Len(t) PROVE t[k] = name[Gone + from + k]
  <2>1. k \in 1 .. Len(rest) - (from + 1) + 1 /\ (from + 1) + k - 1 = from + k
        /\ from + k \in 1 .. Len(rest) /\ Gone + (from + k) = Gone + from + k
    BY <1>1, <1>2, <1>6
  <2> QED  BY <1>2, <1>5, <2>1
<1> QED  BY <1>5, <1>6, <1>7 DEF t, Component

LEMMA SplitStep ==
  ASSUME SplitInv, Split!Turn \/ Split!Throw
  PROVE  SplitInv'
<1>1. UNCHANGED name /\ name \in Component /\ Len(name) \in Nat
  BY LenProperties DEF SplitInv, Split!Turn, Split!Throw, Component
<1>2. SUFFICES ASSUME Split!Written(name) PROVE SplitAt'
  BY <1>1 DEF SplitInv, Split!Written
<1>3. SplitAt /\ pc = "loop" /\ Len(rest) \in Nat
  BY <1>2, LenProperties DEF SplitInv, SplitAt, Component, Split!Turn, Split!Throw
<1> DEFINE from == index + 2
           t == Split!Substr(rest, from)
           f == Split!FindFirstOf(t)
<1>4. /\ from \in 0 .. Len(rest) /\ EvenTo(Gone + from)
      /\ vec # <<>> => /\ from >= 2 /\ name[Gone + from - 1] = Colon /\ name[Gone + from] = Colon
                       /\ Split!Join(vec) = SubSeq(name, 1, Gone + from - 2)
  BY <1>1, <1>2, <1>3, SkippedIs
<1>5. Split!Turn
  BY <1>3, <1>4 DEF Split!Throw
<1>6. rest' = t /\ index' = f /\ vec' = Append(vec, Split!Prefix(t, f))
      /\ pc' = (IF f = Split!Npos THEN "done" ELSE "loop")
  BY <1>5 DEF Split!Turn
<1>7. Gone \in 0 .. Len(name) /\ Len(rest) = Len(name) - Gone
  BY <1>1, <1>3 DEF SplitAt, Gone
<1>8. /\ t \in Component /\ Len(t) = Len(rest) - from
      /\ \A k \in 1 .. Len(t) : t[k] = name[Gone + from + k]
  BY <1>1, <1>3, <1>4, LeftIs
<1> DEFINE g == Gone + from
<1>9. Gone' = g
  BY <1>1, <1>3, <1>4, <1>6, <1>7, <1>8 DEF Gone
<1> DEFINE e == IF f = Split!Npos THEN Len(t) ELSE f
           x == Split!Prefix(t, f)
<1>10. e \in 0 .. Len(t) /\ Len(t) \in Nat /\ \A k \in 1 .. e : t[k] # Colon
  BY <1>8, FoundIs, LenProperties DEF Component, Split!Npos
<1>11. x = SubSeq(t, 1, e)
  BY <1>8, SubSeqFull DEF Split!Prefix, Component
<1> HIDE DEF e, x, f, t, from
<1>12. /\ x \in Component /\ Len(x) = e
       /\ \A k \in 1 .. e : x[k] = t[k]
  BY <1>8, <1>10, <1>11, SubSeqProperties DEF Component
<1>13. x = SubSeq(name, g + 1, g + e) /\ g + e \in g .. Len(name) /\ g \in 0 .. Len(name)
  <2>1. g + e \in g .. Len(name) /\ g \in 0 .. Len(name)
    <3>1. /\ from \in 0 .. Len(rest) /\ Len(rest) \in Nat /\ Len(t) = Len(rest) - from
          /\ Gone \in 0 .. Len(name) /\ Len(rest) = Len(name) - Gone
          /\ e \in 0 .. Len(t) /\ Len(name) \in Nat
      BY <1>1, <1>3, <1>4, <1>7, <1>8, <1>10
    <3> QED  BY <3>1 DEF g
  <2>2. \A k \in 1 .. Len(t) : t[k] = name[g + k]
    BY <1>8 DEF g
  <2> HIDE DEF g
  <2>3. g + e <= Len(name)
    BY <1>1, <2>1
  <2> QED  BY <1>1, <1>8, <1>10, <1>11, <2>1, <2>2, <2>3, SameCut
<1>14. Split!Join(vec') = SubSeq(name, 1, g + e)
  <2>1. vec \in Seq(Component) /\ vec' = Append(vec, x)
    BY <1>3, <1>6 DEF SplitAt, x
  <2>2. CASE vec = <<>>
    <3>1. g = 0
      BY <1>1, <1>3, <1>7, <2>2 DEF SplitAt, from, Gone, g
    <3>2. Split!Join(vec') = x
      BY <1>12, <2>1, <2>2, JoinAppend
    <3> HIDE DEF g
    <3>3. g + 1 = 1 /\ g + e = e
      BY <1>10, <3>1
    <3> QED  BY <1>13, <3>2, <3>3, Zenon
  <2>3. CASE vec # <<>>
    <3>1. g >= 2 /\ name[g - 1] = Colon /\ name[g] = Colon
          /\ Split!Join(vec) = SubSeq(name, 1, g - 2)
      BY <1>3, <1>4, <1>7, <2>3 DEF from, g, SplitAt
    <3> HIDE DEF g
    <3>2. Split!Join(vec') = SubSeq(name, 1, g - 2) \o <<Colon, Colon>> \o x
      BY <1>12, <2>1, <2>3, <3>1, JoinAppend
    <3>3. \A p \in 0 .. Len(name) : \A h \in p .. Len(name) :
            p >= 2 /\ name[p - 1] = Colon /\ name[p] = Colon =>
              SubSeq(name, 1, p - 2) \o <<Colon, Colon>> \o SubSeq(name, p + 1, h) = SubSeq(name, 1, h)
      BY <1>1, OneMoreWritten
    <3> QED  BY <1>13, <3>1, <3>2, <3>3
  <2> QED  BY <2>2, <2>3
<1>15. g + e = CutTo'
  <2>1. CutTo' = IF f = Split!Npos THEN Len(name) ELSE g + f
    BY <1>1, <1>6, <1>9 DEF CutTo, Split!Npos
  <2>2. g + Len(t) = Len(name)
    BY <1>1, <1>3, <1>4, <1>7, <1>8 DEF g, from, SplitAt
  <2> QED  BY <2>1, <2>2 DEF e
<1>16. vec' \in Seq(Component) /\ vec' # <<>> /\ \A k \in DOMAIN vec' : Colon \notin Split!Range(vec'[k])
  <2>1. vec \in Seq(Component) /\ vec' = Append(vec, x)
    BY <1>3, <1>6 DEF SplitAt, x
  <2>2. /\ vec' \in Seq(Component) /\ vec' # <<>> /\ Len(vec') = Len(vec) + 1 /\ Len(vec) \in Nat
        /\ vec'[Len(vec) + 1] = x /\ \A k \in 1 .. Len(vec) : vec'[k] = vec[k]
        /\ DOMAIN vec = 1 .. Len(vec) /\ DOMAIN vec' = 1 .. Len(vec')
    BY <1>12, <2>1, AppendProperties, LenProperties
  <2>3. Colon \notin Split!Range(x)
    <3>1. DOMAIN x = 1 .. e
      BY <1>12 DEF Component
    <3> QED  BY <1>10, <1>12, <3>1 DEF Split!Range
  <2>4. ASSUME NEW k \in DOMAIN vec' PROVE Colon \notin Split!Range(vec'[k])
    <3>1. k = Len(vec) + 1 \/ k \in DOMAIN vec
      BY <2>2
    <3> QED  BY <1>3, <2>2, <2>3, <3>1 DEF SplitAt
  <2> QED  BY <2>2, <2>4
<1>17. /\ rest' \in Component /\ index' = Split!FindFirstOf(rest')
       /\ \A k \in 1 .. Len(rest') : rest'[k] = name'[Gone' + k]
       /\ EvenTo(Gone)' /\ Gone' \in 0 .. Len(name)
       /\ pc' = (IF index' = Split!Npos THEN "done" ELSE "loop")
  <2>1. EvenTo(Gone)'
    BY <1>1, <1>4, <1>9 DEF EvenTo
  <2> QED  BY <1>1, <1>6, <1>8, <1>9, <1>13, <2>1 DEF f
<1>18. Split!Join(vec)' = Split!Join(vec')
  BY DEF Split!Join, Split!Joins
<1> QED  BY <1>1, <1>14, <1>15, <1>16, <1>17, <1>18 DEF SplitAt, Split!FindFirstOf

LEMMA SplitInvAlways == Split!Spec => []SplitInv
<1>1. SplitInv /\ [Split!Next]_Split!vars => SplitInv'
  <2> SUFFICES ASSUME SplitInv, [Split!Next]_Split!vars PROVE SplitInv'
    OBVIOUS
  <2>1. CASE UNCHANGED Split!vars
    <3>1. name' = name /\ rest' = rest /\ index' = index /\ vec' = vec /\ pc' = pc
      BY <2>1 DEF Split!vars
    <3>2. Gone' = Gone /\ CutTo' = CutTo
      BY <3>1 DEF Gone, CutTo, Split!Npos
    <3>3. EvenTo(Gone)' <=> EvenTo(Gone)
      BY <3>1, <3>2 DEF EvenTo
    <3>4. Split!Written(name)' <=> Split!Written(name)
      BY <3>1 DEF Split!Written
    <3>5. Split!Join(vec)' = Split!Join(vec)
      BY <3>1 DEF Split!Join, Split!Joins
    <3>6. Split!FindFirstOf(rest)' = Split!FindFirstOf(rest) /\ Split!Npos' = Split!Npos
      BY <3>1 DEF Split!FindFirstOf, Split!Npos
    <3> QED  BY <3>1, <3>2, <3>3, <3>4, <3>5, <3>6 DEF SplitInv, SplitAt, Split!Range
  <2>2. CASE Split!Turn \/ Split!Throw
    BY <2>2, SplitStep
  <2> QED  BY <2>1, <2>2 DEF Split!Next
<1> QED  BY <1>1, SplitInit, PTL DEF Split!Spec

LEMMA SplitBackHolds == SplitInv => Split!SplitBack
<1> SUFFICES ASSUME SplitInv, Split!Written(name), vec # <<>>
             PROVE  Split!Join(vec) \o (IF index = Split!Npos THEN <<>>
                       ELSE <<Colon, Colon>> \o Split!Substr(rest, index + 2)) = name
  BY DEF SplitInv, SplitAt, Split!SplitBack
<1>1. /\ SplitAt /\ name \in Component /\ name \in Seq(Char) /\ Len(name) \in Nat
      /\ SubSeq(name, 1, Len(name)) = name
  BY LenProperties, SubSeqFull DEF SplitInv, Component
<1>2. CASE index = Split!Npos
  <2>1. Split!Join(vec) = name
    BY <1>1, <1>2 DEF SplitAt, CutTo
  <2> QED  BY <1>1, <1>2, <2>1, ConcatEmptySeq
<1>3. CASE index # Split!Npos
  <2> DEFINE from == index + 2
             g == Gone + from
             t == Split!Substr(rest, from)
  <2>1. /\ from \in 0 .. Len(rest) /\ from >= 2
        /\ name[g - 1] = Colon /\ name[g] = Colon
        /\ Split!Join(vec) = SubSeq(name, 1, g - 2)
    <3>1. pc = "loop"
      BY <1>1, <1>3 DEF SplitAt
    <3>2. /\ from \in 0 .. Len(rest) /\ from >= 2
          /\ name[Gone + from - 1] = Colon /\ name[Gone + from] = Colon
          /\ Split!Join(vec) = SubSeq(name, 1, Gone + from - 2)
      BY <1>1, <3>1, SkippedIs, Zenon
    <3>3. /\ Gone + from - 1 = g - 1 /\ Gone + from - 2 = g - 2
      <4>1. Gone \in Int /\ from \in Int
        BY <1>1, <3>2, LenProperties DEF SplitAt, Component
      <4> HIDE DEF from
      <4> QED  BY <4>1
    <3> QED  BY <3>2, <3>3
  <2>2. /\ t \in Component /\ Len(t) = Len(rest) - from
        /\ \A k \in 1 .. Len(t) : t[k] = name[g + k]
    BY <1>1, <2>1, LeftIs
  <2>3. g \in 0 .. Len(name) /\ g >= 2 /\ g + Len(t) = Len(name) /\ Len(t) \in Nat
    <3>1. Gone \in 0 .. Len(name) /\ Len(rest) = Len(name) - Gone /\ Len(rest) \in Nat
      BY <1>1, LenProperties DEF SplitAt, Gone, Component
    <3>2. Len(t) \in Nat
      BY <2>2, LenProperties DEF Component
    <3> HIDE DEF t, from
    <3> QED  BY <1>1, <2>1, <2>2, <3>1, <3>2
  <2> HIDE DEF t, g
  <2>4. t = SubSeq(name, g + 1, Len(name))
    <3>1. SubSeq(t, 1, Len(t)) = SubSeq(name, g + 1, g + Len(t))
      <4>1. Len(t) \in 0 .. Len(t) /\ g + Len(t) <= Len(name)
        BY <1>1, <2>3
      <4> QED  BY <1>1, <2>2, <2>3, <4>1, SameCut
    <3>2. SubSeq(t, 1, Len(t)) = t
      BY <2>2, SubSeqFull DEF Component
    <3> QED  BY <2>3, <3>1, <3>2
  <2>5. SubSeq(name, 1, g - 2) \o <<Colon, Colon>> \o t = name
    <3>1. Len(name) \in g .. Len(name)
      BY <1>1, <2>3
    <3> QED  BY <1>1, <2>1, <2>3, <2>4, <3>1, OneMoreWritten
  <2>6. SubSeq(name, 1, g - 2) \in Seq(Char) /\ <<Colon, Colon>> \in Seq(Char) /\ t \in Seq(Char)
    <3>1. \A k \in 1 .. Len(name) : name[k] \in Char
      BY <1>1
    <3>2. Colon \in Char /\ 1 \in Int /\ g - 2 \in Int /\ \A k \in 1 .. g - 2 : name[k] \in Char
      BY <1>1, <2>1, <2>3, <3>1
    <3>3. SubSeq(name, 1, g - 2) \in Seq(Char)
      BY <3>2, SubSeqProperties
    <3> QED  BY <2>2, <3>2, <3>3 DEF Component
  <2>7. SubSeq(name, 1, g - 2) \o (<<Colon, Colon>> \o t) = name
    <3>1. \A a, b, c \in Seq(Char) : (a \o b) \o c = a \o (b \o c)
      BY ConcatAssociative
    <3> QED  BY <2>5, <2>6, <3>1, Zenon
  <2> QED  BY <1>3, <2>1, <2>7 DEF t
<1> QED  BY <1>2, <1>3

\* A name that is the writing of a path is split into that path again and never throws,
\* for names of any length over any characters (common.cpp:134-146).
THEOREM SplitBackAlways == Split!Spec => []SplitBack
<1>1. SplitInv => SplitBack
  BY SplitBackHolds DEF SplitBack
<1> QED  BY <1>1, SplitInvAlways, PTL
===============================================================================
