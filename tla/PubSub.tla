-------------------------------- MODULE PubSub --------------------------------
(***************************************************************************)
(* What the broker promises its clients, with none of its bookkeeping: a   *)
(* publish/subscribe service that retains the last value of each name.     *)
(*                                                                         *)
(*   - A client is interested in the names it subscribed to, until it      *)
(*     unsubscribes or leaves.                                             *)
(*   - Whoever is interested in a name with a retained value is shown that *)
(*     value, whichever came first, the interest or the value.             *)
(*   - A retained value is dropped when nobody is interested in it any     *)
(*     more, or with the last client that published it, and never before.  *)
(*                                                                         *)
(* A blank value need not be shown: Broker takes it for known.             *)
(***************************************************************************)
EXTENDS FiniteSets

CONSTANTS Client, Name, Message, Blank, None

VARIABLES
  online,    \* the clients connected
  interest,  \* interest[c]: the names c wants
  sources,   \* sources[p]: the connected clients that published p
  retained,  \* retained[p]: the last value published, or None
  shown      \* shown[c][p]: the last value of p that c was shown

vars == <<online, interest, sources, retained, shown>>

Wanted(wants) == UNION {wants[c] : c \in Client}

Init ==
  /\ online = {}
  /\ interest = [c \in Client |-> {}]
  /\ sources = [p \in Name |-> {}]
  /\ retained = [p \in Name |-> None]
  /\ shown = [c \in Client |-> [p \in Name |-> None]]

\* Only retained values are shown, and the interested always are.
Show ==
  \A c \in online' : \A p \in Name :
    /\ shown'[c][p] \in {shown[c][p], retained'[p]}
    /\ p \in interest'[c] /\ retained'[p] \notin {None, Blank}
         => shown'[c][p] = retained'[p]

\* The values in G are dropped; nothing else changes of what is retained.
Drop(G, from) ==
  /\ retained' = [p \in Name |-> IF p \in G THEN None ELSE retained[p]]
  /\ sources' = [p \in Name |-> IF p \in G THEN {} ELSE from[p]]

Join(c) ==
  /\ c \notin online
  /\ online' = online \cup {c}
  /\ shown' = shown
  /\ UNCHANGED <<interest, sources, retained>>

Subscribe(c, S) ==
  /\ c \in online
  /\ interest' = [interest EXCEPT ![c] = @ \cup S]
  /\ Show
  /\ UNCHANGED <<online, sources, retained>>

Unsubscribe(c, S) ==
  /\ c \in online
  /\ interest' = [interest EXCEPT ![c] = @ \ S]
  /\ \E G \in SUBSET (Name \ Wanted(interest')) : Drop(G, sources)
  /\ UNCHANGED <<online, shown>>

Publish(c, p, v) ==
  /\ c \in online
  /\ retained' = [retained EXCEPT ![p] = v]
  /\ sources' = [sources EXCEPT ![p] = @ \cup {c}]
  /\ Show
  /\ UNCHANGED <<online, interest>>

Query(c) ==
  /\ c \in online
  /\ Show
  /\ UNCHANGED <<online, interest, sources, retained>>

Leave(c) ==
  LET left == [p \in Name |-> sources[p] \ {c}]
      orphans == {p \in Name : left[p] = {}}
  IN  /\ c \in online
      /\ online' = online \ {c}
      /\ interest' = [interest EXCEPT ![c] = {}]
      /\ \E G \in SUBSET (Name \ Wanted(interest')) : Drop(orphans \cup G, left)
      /\ shown' = [shown EXCEPT ![c] = [p \in Name |-> None]]

\* The service is restarted, and knows nobody and nothing.
Restart ==
  /\ online # {}
  /\ online' = {}
  /\ interest' = [c \in Client |-> {}]
  /\ sources' = [p \in Name |-> {}]
  /\ retained' = [p \in Name |-> None]
  /\ shown' = [c \in Client |-> [p \in Name |-> None]]

Next ==
  \/ Restart
  \/ \E c \in Client :
       \/ Join(c)
       \/ Leave(c)
       \/ Query(c)
       \/ \E S \in SUBSET Name : Subscribe(c, S) \/ Unsubscribe(c, S)
       \/ \E p \in Name, v \in Message \cup {Blank} : Publish(c, p, v)

Spec == Init /\ [][Next]_vars
===============================================================================
