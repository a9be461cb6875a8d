------------------------------- MODULE MCBroker -------------------------------
(***************************************************************************)
(* Values for the constants of Broker.  Names and petitions are paths, and *)
(* Matches is what the patterns really select.                             *)
(***************************************************************************)
EXTENDS Broker, Patterns, TLC

speed == <<"speed">>
brake == <<"controller", "brake">>
throttle == <<"controller", "throttle">>
horn == <<"horn">>

allControllers == <<"controller", "*">>
anyBrake == <<"+", "brake">>

MCMatches == [m \in Petition |-> {n \in Name : Selects(m, n)}]

\* Exact petitions, as the programs of the repository make them: a text and a
\* number.  With three numbers in a row a step is below the margin of 2 or equal
\* to it, and an answer to get(...) and a later value can lie on opposite sides
\* of the record.
MixedNames == {horn, speed}
NumericNames == {speed}

\* Patterns that overlap.
PatternNames == {brake, throttle}
PatternPetitions == {allControllers, anyBrake}
EventNames == {throttle}

ClientSymmetry == Permutations(Client)
===============================================================================
