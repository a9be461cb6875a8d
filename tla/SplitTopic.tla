------------------------------ MODULE SplitTopic ------------------------------
(***************************************************************************)
(* SplitTopic (common.cpp): the loop that cuts a parameter name into the   *)
(* components of its path, one step for one turn of the loop.  It runs on  *)
(* every name and every petition, for the server on what clients send, and *)
(* an exception that leaves it ends the process.                           *)
(***************************************************************************)
EXTENDS Integers, SequencesExt

CONSTANTS
  Char,      \* the characters of a name, Colon among them
  Colon,
  MaxLength  \* bound on the length of a name

VARIABLES
  name,   \* the argument, kept to compare with
  s,      \* what is left to split
  index,  \* index[1] is the variable index, -1 for npos
  vec,    \* the components so far
  pc      \* "loop", "done", or "thrown" when substr throws out_of_range

vars == <<name, s, index, vec, pc>>

Npos == -1

\* s.find_first_of("::"): where the first ':' is, the argument being a set of characters.
FindFirstOf(t) ==
  IF \E i \in 1 .. Len(t) : t[i] = Colon
    THEN (CHOOSE i \in 1 .. Len(t) : t[i] = Colon /\ \A j \in 1 .. i - 1 : t[j] # Colon) - 1
    ELSE Npos

\* (Mutant: one colon too few is skipped.)
SubstrLate(t, from) == IF from = 0 THEN t ELSE SubSeq(t, from, Len(t))

\* s.substr(from), for from <= s.size(); beyond that it throws.
Substr(t, from) == SubSeq(t, from + 1, Len(t))

\* s.substr(0, n), where a negative n converted to size_t means everything.
Prefix(t, n) == IF n = Npos THEN t ELSE SubSeq(t, 1, n)

Init ==
  /\ name \in BoundedSeq(Char, MaxLength)
  /\ s = name
  /\ index = -2
  /\ vec = <<>>
  /\ pc = "loop"

Turn ==
  LET t == Substr(s, index + 2)
      i == FindFirstOf(t)
  IN  /\ pc = "loop"
      /\ index + 2 <= Len(s)
      /\ s' = t
      /\ index' = i
      /\ vec' = Append(vec, Prefix(t, i))
      /\ pc' = IF i = Npos THEN "done" ELSE "loop"
      /\ UNCHANGED name

Throw ==
  /\ pc = "loop"
  /\ index + 2 > Len(s)
  /\ pc' = "thrown"
  /\ UNCHANGED <<name, s, index, vec>>

Next == Turn \/ Throw

Spec == Init /\ [][Next]_vars
-------------------------------------------------------------------------------
(* Properties                                                              *)

\* A path and the name that is written for it, as in controller::brake::train.
Joins(path) ==
  LET joined[k \in 0 .. Len(path)] ==
        IF k = 0 THEN <<>>
        ELSE IF k = 1 THEN path[1] ELSE joined[k - 1] \o <<Colon, Colon>> \o path[k]
  IN  joined

Join(path) == Joins(path)[Len(path)]

\* The names that are the writing of some path: colons come in pairs.
Written(n) ==
  LET Even(i, j) == (j - i) % 2 = 1
  IN  \A i, j \in 1 .. Len(n) :
        /\ i <= j
        /\ \A k \in i .. j : n[k] = Colon
        /\ i = 1 \/ n[i - 1] # Colon
        /\ j = Len(n) \/ n[j + 1] # Colon
        => Even(i, j)

\* A name that is the writing of some path is split into that path again, without an
\* exception: what has been cut off and what is left always make up the name, and
\* what has been cut off holds no colon, so that two parameters are one only if their
\* names are the same (common.cpp:140-144, the offsets -2, +2 and npos).
SplitBack ==
  Written(name) =>
    /\ pc # "thrown"
    /\ vec # <<>> =>
         Join(vec) \o (IF index = Npos THEN <<>>
                                      ELSE <<Colon, Colon>> \o Substr(s, index + 2)) = name
    /\ \A i \in DOMAIN vec : Colon \notin Range(vec[i])
===============================================================================
