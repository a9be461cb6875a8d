------------------------------ MODULE LoopProofs ------------------------------
(***************************************************************************)
(* Theorems about ServerLoop, for any number of connections: the           *)
(* descriptor table is right; what a poll has reported keeps the loop from *)
(* blocking in accept or read; and nobody of whom a poll has ever reported *)
(* is dropped who has not left and been heard to the end.                  *)
(***************************************************************************)
EXTENDS ServerLoop, FiniteSetTheorems, SequenceTheorems, TLAPS

Entry == [fd : Descriptor, revents : {"none", "read", "error"}]

\* The types the arguments about the table rest on.
Typed ==
  /\ link \in [Conn -> {"free", "up", "ended", "broken"}]
  /\ backlog \in Seq(Conn)
  /\ fds \in Seq(Entry)
  /\ clients \subseteq Conn /\ IsFiniteSet(clients)
  /\ pc \in {"loop", "poll", "accept", "round", "lines", "write", "delete", "done"}
  /\ cur \in Descriptor
  /\ age \in [Descriptor -> {"unset", "old", "fresh"}]

\* A connection is with the server, in the backlog, or free, and once in the backlog;
\* a step after Visit is about a client, or about one just removed.
Placed ==
  /\ \A c \in Open \ {Listen} : link[c] # "free"
  /\ \A i \in DOMAIN backlog : link[backlog[i]] # "free" /\ backlog[i] \notin Open
  /\ \A i, j \in DOMAIN backlog : backlog[i] = backlog[j] => i = j
  /\ pc = "lines" => cur \in clients
  /\ pc = "write" => cur \in Conn
  /\ pc = "delete" => cur \in Conn \ clients
  /\ todo \subseteq clients
  /\ pc \in {"lines", "write", "delete"} => cur \notin todo
  /\ \A c \in Conn \ Open : age[c] = "unset"

TableInv == Typed /\ Placed /\ SlotsMatch
-------------------------------------------------------------------------------
(* The table                                                               *)

LEMMA OpenFinite == Typed => IsFiniteSet(Open) /\ Open \subseteq Descriptor
<1> SUFFICES ASSUME Typed PROVE IsFiniteSet(Open) /\ Open \subseteq Descriptor
  OBVIOUS
<1> DEFINE A == clients \cup {Listen}
<1>1. IsFiniteSet(A) /\ A \subseteq Descriptor
  BY FS_AddElement DEF Typed, Descriptor
<1>2. Open = A \/ Open = A \cup {cur}
  BY DEF Open
<1>3. cur \in Descriptor
  BY DEF Typed
<1> HIDE DEF A
<1> QED  BY <1>1, <1>2, <1>3, FS_AddElement

\* poll keeps the descriptors where they are and says of each what happens on it.
LEMMA PolledTable ==
  ASSUME Typed, SlotsMatch, fds' = Polled, UNCHANGED fdindex, Open' = Open
  PROVE  /\ fds' \in Seq(Entry) /\ SlotsMatch'
         /\ \A f \in Open : Revents(f)' = Happening(f)
<1>1. \A f : Happening(f) \in {"none", "read", "error"}
  BY DEF Happening
<1>2. /\ fds \in Seq(Entry) /\ DOMAIN fds = 1..Len(fds)
      /\ \A i \in 1..Len(fds) : fds[i] \in Entry
  BY DEF Typed
<1>3. \A i \in 1..Len(fds) : /\ fds'[i] \in Entry
                             /\ fds'[i].fd = fds[i].fd
                             /\ fds'[i].revents = Happening(fds[i].fd)
  BY <1>1, <1>2 DEF Polled, Entry
<1>4. fds' = [i \in 1..Len(fds) |-> fds'[i]]
  BY <1>2 DEF Polled
<1>5. fds' \in Seq(Entry) /\ Len(fds') = Len(fds) /\ DOMAIN fds' = DOMAIN fds
  BY <1>2, <1>3, <1>4
<1> QED
  BY <1>2, <1>3, <1>5 DEF SlotsMatch, Revents

\* A descriptor is appended, and found at the end.
LEMMA AddedTable ==
  ASSUME Typed, SlotsMatch, NEW c \in Conn \ Open, NEW r \in {"none", "read", "error"},
         fds' = Append(fds, [fd |-> c, revents |-> r]), fdindex' = Added(c),
         Open' = Open \cup {c}
  PROVE  /\ fds' \in Seq(Entry) /\ SlotsMatch'
         /\ \A f \in Open : Revents(f)' = Revents(f)
         /\ Revents(c)' = r
<1> DEFINE e == [fd |-> c, revents |-> r]
<1>1. e \in Entry /\ e.fd = c /\ e.revents = r
  BY DEF Entry, Descriptor
<1> HIDE DEF e
<1>2. /\ fds' \in Seq(Entry) /\ Len(fds') = Len(fds) + 1
      /\ Len(fds) \in Nat
      /\ \A i \in 1..Len(fds) : fds'[i] = fds[i]
      /\ fds'[Len(fds) + 1] = e
      /\ DOMAIN fds = 1..Len(fds) /\ DOMAIN fds' = 1..(Len(fds) + 1)
  BY <1>1 DEF Typed, e
<1>3. /\ DOMAIN fdindex' = Open'
      /\ fdindex'[c] = Len(fds) + 1
      /\ \A f \in Open : fdindex'[f] = fdindex[f]
  BY DEF Added, SlotsMatch
<1>4. Cardinality(Open') = Cardinality(Open) + 1
  BY OpenFinite, FS_AddElement
<1>5. \A f \in Open : fdindex[f] \in 1..Len(fds) /\ fds[fdindex[f]].fd = f
  BY <1>2 DEF SlotsMatch
<1>6. \A f \in Open' : fdindex'[f] \in DOMAIN fds' /\ fds'[fdindex'[f]].fd = f
  BY <1>1, <1>2, <1>3, <1>5
<1>7. SlotsMatch'
  BY <1>2, <1>3, <1>4, <1>6 DEF SlotsMatch
<1> QED
  BY <1>1, <1>2, <1>3, <1>5, <1>7 DEF Revents

\* A descriptor is removed, and what followed it is found one place earlier.
LEMMA RemovedTable ==
  ASSUME Typed, SlotsMatch, NEW c \in Open,
         fds' = RemoveAt(fds, fdindex[c]), fdindex' = Removed(fdindex, c),
         Open' = Open \ {c}
  PROVE  /\ fds' \in Seq(Entry) /\ SlotsMatch'
         /\ \A f \in Open \ {c} : Revents(f)' = Revents(f)
<1> DEFINE k == fdindex[c]
<1>1. \A f \in Open : fdindex[f] \in 1..Len(fds) /\ fds[fdindex[f]].fd = f
  BY DEF SlotsMatch, Typed
<1>2. k \in 1..Len(fds) /\ Len(fds) \in Nat
  BY <1>1 DEF Typed
<1> HIDE DEF k
<1>3. /\ fds' \in Seq(Entry) /\ Len(fds') = Len(fds) - 1
      /\ \A i \in 1..Len(fds) - 1 : fds'[i] = IF i < k THEN fds[i] ELSE fds[i + 1]
  <2> DEFINE a == SubSeq(fds, 1, k - 1)
             b == SubSeq(fds, k + 1, Len(fds))
  <2>0. \A i \in 1..Len(fds) : fds[i] \in Entry
    BY DEF Typed
  <2>1. fds' = a \o b
    BY DEF RemoveAt, k
  <2>2. /\ a \in Seq(Entry) /\ Len(a) = k - 1
        /\ \A i \in 1..k - 1 : a[i] = fds[i]
    <3>1. k - 1 \in Int /\ \A i \in 1..k - 1 : fds[i] \in Entry
      BY <1>2, <2>0
    <3>2. /\ a \in Seq(Entry)
          /\ Len(a) = IF 1 <= k - 1 THEN k - 1 - 1 + 1 ELSE 0
          /\ \A i \in 1..k - 1 - 1 + 1 : a[i] = fds[1 + i - 1]
      BY <3>1, SubSeqProperties
    <3> HIDE DEF a
    <3> QED  BY <1>2, <3>2
  <2>3. /\ b \in Seq(Entry) /\ Len(b) = Len(fds) - k
        /\ \A i \in 1..Len(fds) - k : b[i] = fds[k + i]
    <3>1. k + 1 \in Int /\ Len(fds) \in Int /\ \A i \in k + 1..Len(fds) : fds[i] \in Entry
      BY <1>2, <2>0
    <3>2. /\ b \in Seq(Entry)
          /\ Len(b) = IF k + 1 <= Len(fds) THEN Len(fds) - (k + 1) + 1 ELSE 0
          /\ \A i \in 1..Len(fds) - (k + 1) + 1 : b[i] = fds[k + 1 + i - 1]
      BY <3>1, SubSeqProperties
    <3> HIDE DEF b
    <3> QED  BY <1>2, <3>2
  <2> HIDE DEF a, b
  <2>4. /\ a \o b \in Seq(Entry)
        /\ Len(a \o b) = Len(a) + Len(b)
        /\ \A i \in 1..Len(a) + Len(b) :
             (a \o b)[i] = IF i <= Len(a) THEN a[i] ELSE b[i - Len(a)]
    <3>1. a \in Seq(Entry) /\ b \in Seq(Entry)
      BY <2>2, <2>3
    <3> QED  BY <3>1, ConcatProperties, Zenon
  <2>5. /\ fds' \in Seq(Entry)
        /\ Len(fds') = Len(a) + Len(b)
        /\ \A i \in 1..Len(a) + Len(b) :
             fds'[i] = IF i <= Len(a) THEN a[i] ELSE b[i - Len(a)]
    BY <2>1, <2>4, Zenon
  <2>6. Len(a) = k - 1 /\ Len(b) = Len(fds) - k /\ Len(a) + Len(b) = Len(fds) - 1
    BY <1>2, <2>2, <2>3
  <2>7. ASSUME NEW i \in 1..Len(fds) - 1
        PROVE  fds'[i] = IF i < k THEN fds[i] ELSE fds[i + 1]
    <3>1. CASE i < k
      <4>1. i \in 1..k - 1 /\ i <= Len(a) /\ i \in 1..Len(a) + Len(b)
        BY <1>2, <2>6, <3>1
      <4>2. fds'[i] = a[i]
        BY <2>5, <4>1
      <4> QED  BY <2>2, <3>1, <4>1, <4>2
    <3>2. CASE ~ i < k
      <4>1. i - (k - 1) \in 1..Len(fds) - k /\ k + (i - (k - 1)) = i + 1
        BY <1>2, <3>2
      <4>2. fds'[i] = b[i - (k - 1)]
        <5>1. i \in 1..Len(a) + Len(b) /\ ~ (i <= Len(a)) /\ i - Len(a) = i - (k - 1)
          BY <1>2, <2>6, <3>2
        <5> QED  BY <2>5, <5>1
      <4> QED  BY <2>3, <3>2, <4>1, <4>2
    <3> QED  BY <3>1, <3>2
  <2> QED  BY <2>5, <2>6, <2>7
<1>4. /\ DOMAIN fdindex' = Open \ {c}
      /\ \A f \in Open \ {c} :
           fdindex'[f] = IF fdindex[f] > k THEN fdindex[f] - 1 ELSE fdindex[f]
  BY DEF Removed, SlotsMatch, k
<1>5. ASSUME NEW f \in Open \ {c}
      PROVE  fdindex'[f] \in 1..Len(fds) - 1 /\ fds'[fdindex'[f]] = fds[fdindex[f]]
  <2>1. fdindex[f] # k
    BY <1>1 DEF k
  <2>2. fdindex[f] \in 1..Len(fds)
    BY <1>1
  <2> QED  BY <1>2, <1>3, <1>4, <2>1, <2>2
<1>6. Cardinality(Open') = Cardinality(Open) - 1
  BY OpenFinite, FS_RemoveElement
<1>7. SlotsMatch'
  BY <1>1, <1>3, <1>4, <1>5, <1>6 DEF SlotsMatch
<1> QED
  BY <1>3, <1>4, <1>5, <1>7 DEF Revents
-------------------------------------------------------------------------------
(* The table is right at any time.                                         *)

LEMMA TableInit == Init => TableInv
<1> SUFFICES ASSUME Init PROVE TableInv
  OBVIOUS
<1> USE DEF Init
<1> DEFINE e == [fd |-> Listen, revents |-> "none"]
<1>0. e \in Entry /\ e.fd = Listen
  BY DEF Entry, Descriptor
<1> HIDE DEF e
<1>1. fds = <<e>>
  BY DEF e
<1>2. /\ fds \in Seq(Entry) /\ Len(fds) = 1 /\ DOMAIN fds = {1} /\ fds[1] = e
  BY <1>0, <1>1
<1>3. Open = {Listen}
  BY DEF Open
<1>4. Typed
  BY <1>2, FS_EmptySet DEF Typed, Descriptor
<1>5. Placed
  BY <1>3 DEF Placed, Descriptor
<1>6. SlotsMatch
  BY <1>0, <1>2, <1>3, FS_Singleton DEF SlotsMatch
<1> QED
  BY <1>4, <1>5, <1>6 DEF TableInv

\* The steps that touch neither the table nor who is where.
Aside ==
  /\ UNCHANGED <<link, backlog, clients>>
  /\ Open' = Open
  /\ pc' \in {"loop", "poll", "accept", "round", "lines", "write", "delete", "done"}
  /\ pc' = "lines" => cur' \in clients
  /\ pc' = "write" => cur' \in Conn
  /\ pc' = "delete" => cur' \in Conn \ clients
  /\ cur' \in Descriptor
  /\ todo' \subseteq clients
  /\ pc' \in {"lines", "write", "delete"} => cur' \notin todo'

LEMMA AsideKeeps ==
  ASSUME TableInv, Aside, UNCHANGED table
  PROVE  TableInv' /\ \A f : Revents(f)' = Revents(f)
BY DEF TableInv, Aside, table, Typed, Placed, SlotsMatch, Revents

\* Which steps these are.
QuietStep ==
  \/ Loop \/ PollInterrupted \/ AcceptNone \/ ParseLine \/ WritesDone
  \/ KeepClient \/ RoundOver \/ Quit \/ UNCHANGED vars
  \/ \E c \in Conn : Visit(c) \/ WriteLine(c) \/ Send(c) \/ Receive(c)

LEMMA QuietIsAside ==
  ASSUME TableInv, QuietStep
  PROVE  Aside /\ UNCHANGED table
<1> USE DEF TableInv, Typed, Placed, Aside, Open, kernel, table, objects, control, Goto
<1>1. CASE Loop
  BY <1>1 DEF Loop
<1>2. CASE PollInterrupted
  BY <1>2 DEF PollInterrupted
<1>3. CASE AcceptNone
  BY <1>3 DEF AcceptNone
<1>4. CASE ParseLine
  BY <1>4 DEF ParseLine
<1>5. CASE WritesDone
  BY <1>5 DEF WritesDone
<1>6. CASE KeepClient \/ RoundOver
  BY <1>6 DEF KeepClient, RoundOver
<1>7. CASE Quit \/ UNCHANGED vars
  BY <1>7 DEF Quit, vars
<1>8. ASSUME NEW c \in Conn, Visit(c) PROVE Aside /\ UNCHANGED table
  BY <1>8 DEF Visit, Descriptor
<1>9. ASSUME NEW c \in Conn, WriteLine(c) \/ Send(c) \/ Receive(c)
      PROVE  Aside /\ UNCHANGED table
  BY <1>9 DEF WriteLine, Send, Receive
<1> QED
  BY <1>1, <1>2, <1>3, <1>4, <1>5, <1>6, <1>7, <1>8, <1>9 DEF QuietStep

LEMMA TableStep == TableInv /\ [Next]_vars => TableInv'
<1> SUFFICES ASSUME TableInv, [Next]_vars PROVE TableInv'
  OBVIOUS
<1>0. Typed /\ Placed /\ SlotsMatch
  BY DEF TableInv
<1>1. CASE QuietStep
  BY <1>1, QuietIsAside, AsideKeeps
<1>2. CASE PollReady \/ PollTimeout
  <2>1. /\ fds' = Polled /\ UNCHANGED fdindex
        /\ UNCHANGED <<link, backlog, clients, cur, todo>>
        /\ pc = "poll" /\ pc' \in {"accept", "loop", "done"}
    BY <1>2 DEF PollReady, PollTimeout, Goto, kernel, objects
  <2>2. Open' = Open
    BY <2>1 DEF Open
  <2>3. fds' \in Seq(Entry) /\ SlotsMatch'
    BY <1>0, <2>1, <2>2, PolledTable
  <2>4. age' = Refreshed
    BY <1>2 DEF PollReady, PollTimeout
  <2>5. /\ age' \in [Descriptor -> {"unset", "old", "fresh"}]
        /\ \A c \in Conn \ Open : age'[c] = age[c]
    BY <1>0, <2>4 DEF Refreshed, Typed, SlotsMatch, Descriptor
  <2> QED
    BY <1>0, <2>1, <2>2, <2>3, <2>5 DEF TableInv, Typed, Placed
<1>8. CASE PollFails
  <2>1. /\ UNCHANGED <<fds, fdindex, link, backlog, clients, cur, todo>>
        /\ pc = "poll" /\ pc' \in {"accept", "done"} /\ age' = Aged
    BY <1>8 DEF PollFails, Goto, kernel, objects
  <2>2. /\ age' \in [Descriptor -> {"unset", "old", "fresh"}]
        /\ \A c \in Conn : age[c] = "unset" => age'[c] = "unset"
    BY <1>0, <2>1 DEF Aged, Typed, Descriptor
  <2>3. Open' = Open
    BY <2>1 DEF Open
  <2>4. Typed' /\ SlotsMatch'
    BY <1>0, <2>1, <2>2, <2>3 DEF Typed, SlotsMatch
  <2>5. Placed'
    BY <1>0, <2>1, <2>2, <2>3 DEF Placed
  <2> QED  BY <2>4, <2>5 DEF TableInv
<1>9. CASE AcceptFails
  <2>1. /\ pc = "accept" /\ pc' = "loop" /\ UNCHANGED <<clients, cur, todo>>
        /\ UNCHANGED <<fds, fdindex, age>>
    BY <1>9 DEF AcceptFails, Goto, table, objects
  <2>2. Open' = Open
    BY <2>1 DEF Open
  <2>3. CASE UNCHANGED <<link, backlog>>
    <3>1. Typed' /\ SlotsMatch'
      BY <1>0, <2>1, <2>2, <2>3 DEF Typed, SlotsMatch
    <3>2. Placed'
      BY <1>0, <2>1, <2>2, <2>3 DEF Placed
    <3> QED  BY <3>1, <3>2 DEF TableInv
  <2>4. ASSUME backlog # <<>>, link' = [link EXCEPT ![Head(backlog)] = "free"],
               backlog' = Tail(backlog)
        PROVE  TableInv'
    <3> DEFINE c == Head(backlog)
    <3>1. /\ c = backlog[1] /\ 1 \in DOMAIN backlog /\ c \in Conn
          /\ backlog' \in Seq(Conn)
          /\ \A i \in DOMAIN backlog' : i + 1 \in DOMAIN backlog /\ backlog'[i] = backlog[i + 1]
          /\ \A i \in DOMAIN backlog' : i \in Nat \ {0}
      BY <1>0, <2>4 DEF Typed
    <3>2. c \notin Open
      BY <1>0, <3>1 DEF Placed
    <3> HIDE DEF c
    <3>3. link' = [link EXCEPT ![c] = "free"]
      BY <2>4 DEF c
    <3>4. \A d \in Conn : d # c => link'[d] = link[d]
      BY <1>0, <3>3 DEF Typed
    <3>5. \A i \in DOMAIN backlog' : backlog'[i] # c /\ backlog'[i] \in Conn
      BY <1>0, <3>1 DEF Placed, Typed
    <3>6. \A i, j \in DOMAIN backlog' : backlog'[i] = backlog'[j] => i = j
      BY <1>0, <3>1 DEF Placed
    <3>7. Typed' /\ SlotsMatch'
      BY <1>0, <2>1, <2>2, <3>1, <3>3 DEF Typed, SlotsMatch
    <3>8. \A i \in DOMAIN backlog' : link'[backlog'[i]] # "free" /\ backlog'[i] \notin Open'
      BY <1>0, <2>2, <3>1, <3>4, <3>5 DEF Placed
    <3>9. Open \subseteq Descriptor
      BY <1>0, OpenFinite
    <3>10. \A d \in Open' \ {Listen} : link'[d] # "free"
      BY <1>0, <2>2, <3>2, <3>4, <3>9 DEF Placed, Descriptor
    <3>11. Placed'
      BY <1>0, <2>1, <2>2, <3>6, <3>8, <3>10 DEF Placed
    <3> QED  BY <3>7, <3>11 DEF TableInv
  <2> QED  BY <1>9, <2>3, <2>4 DEF AcceptFails
<1>3. CASE Accept
  <2> DEFINE c == Head(backlog)
  <2>1. /\ pc = "accept" /\ pc' = "round" /\ backlog # <<>>
        /\ backlog' = Tail(backlog) /\ clients' = clients \cup {c}
        /\ fdindex' = Added(c) /\ UNCHANGED <<link, cur>>
        /\ todo' = clients \cup {c} /\ UNCHANGED age
    BY <1>3 DEF Accept
  <2>2. PICK r \in Unset : fds' = Append(fds, [fd |-> c, revents |-> r])
    BY <1>3 DEF Accept
  <2>3. /\ c = backlog[1] /\ 1 \in DOMAIN backlog /\ c \in Conn
        /\ backlog' \in Seq(Conn)
        /\ \A i \in DOMAIN backlog' : i + 1 \in DOMAIN backlog /\ backlog'[i] = backlog[i + 1]
        /\ \A i \in DOMAIN backlog' : i \in Nat \ {0}
    BY <1>0, <2>1 DEF Typed
  <2>4. c \notin Open /\ link[c] # "free"
    BY <1>0, <2>3 DEF Placed
  <2> HIDE DEF c
  <2>5. Open' = Open \cup {c}
    BY <2>1 DEF Open
  <2>6. fds' \in Seq(Entry) /\ SlotsMatch'
    <3>1. r \in {"none", "read", "error"}
      BY ServerLoopAssumption
    <3>2. c \in Conn \ Open
      BY <2>3, <2>4
    <3> QED  BY <1>0, <2>1, <2>2, <2>5, <3>1, <3>2, AddedTable
  <2>7. Typed'
    BY <1>0, <2>1, <2>3, <2>6, FS_AddElement DEF Typed
  <2>8. Placed'
    <3>1. \A i \in DOMAIN backlog' : backlog'[i] # c
      BY <1>0, <2>3 DEF Placed
    <3>2. \A i, j \in DOMAIN backlog' : backlog'[i] = backlog'[j] => i = j
      BY <1>0, <2>3 DEF Placed
    <3> QED  BY <1>0, <2>1, <2>3, <2>4, <2>5, <3>1, <3>2 DEF Placed
  <2> QED  BY <2>6, <2>7, <2>8 DEF TableInv
<1>4. CASE RemoveClient
  <2>1. /\ pc = "lines" /\ pc' = "write" /\ clients' = clients \ {cur}
        /\ UNCHANGED <<link, backlog, fds, fdindex, cur, todo, age>>
    BY <1>4 DEF RemoveClient, kernel, table
  <2>2. cur \in clients /\ cur \in Conn /\ Open' = Open
    BY <1>0, <2>1 DEF Typed, Placed, Open
  <2>3. IsFiniteSet(clients')
    BY <1>0, <2>1, FS_RemoveElement DEF Typed
  <2> QED
    BY <1>0, <2>1, <2>2, <2>3 DEF TableInv, Typed, Placed, SlotsMatch
<1>5. CASE Delete
  <2>1. /\ pc = "delete" /\ pc' = "round" /\ fds' = RemoveAt(fds, fdindex[cur])
        /\ fdindex' = Removed(fdindex, cur) /\ link' = [link EXCEPT ![cur] = "free"]
        /\ UNCHANGED <<backlog, clients, cur, todo>>
        /\ age' = [age EXCEPT ![cur] = "unset"]
    BY <1>5 DEF Delete, Goto, objects
  <2>2. cur \in Open /\ cur \in Conn /\ cur \notin clients /\ Open' = Open \ {cur}
    BY <1>0, <2>1, ServerLoopAssumption DEF Placed, Open
  <2>3. fds' \in Seq(Entry) /\ SlotsMatch'
    BY <1>0, <2>1, <2>2, RemovedTable
  <2>4. Typed'
    BY <1>0, <2>1, <2>3 DEF Typed
  <2>5. \A d \in Conn : d # cur => link'[d] = link[d]
    BY <1>0, <2>1 DEF Typed
  <2>6. Open \subseteq Descriptor
    BY <1>0, OpenFinite
  <2>7. \A i \in DOMAIN backlog : backlog[i] \in Conn /\ backlog[i] # cur
    BY <1>0, <2>2 DEF Typed, Placed
  <2>9. \A d \in Conn \ Open' : age'[d] = "unset"
    <3>1. /\ age \in [Descriptor -> {"unset", "old", "fresh"}]
          /\ \A d \in Conn \ Open : age[d] = "unset"
      BY <1>0 DEF Typed, Placed
    <3>2. \A d \in Conn : d \in Descriptor
      BY DEF Descriptor
    <3> QED  BY <2>1, <2>2, <3>1, <3>2
  <2>8. Placed'
    BY <1>0, <2>1, <2>2, <2>5, <2>6, <2>7, <2>9 DEF Placed, Descriptor
  <2> QED  BY <2>3, <2>4, <2>8 DEF TableInv
<1>6. ASSUME NEW c \in Conn, Connect(c) PROVE TableInv'
  <2>1. /\ link[c] = "free" /\ link' = [link EXCEPT ![c] = "up"]
        /\ backlog' = Append(backlog, c)
        /\ UNCHANGED <<fds, fdindex, clients, pc, cur, todo, age>>
    BY <1>6 DEF Connect, table, objects, control
  <2>2. Open' = Open
    BY <2>1 DEF Open
  <2>3. /\ backlog' \in Seq(Conn)
        /\ DOMAIN backlog' = DOMAIN backlog \cup {Len(backlog) + 1}
        /\ \A i \in DOMAIN backlog : backlog'[i] = backlog[i] /\ i # Len(backlog) + 1
        /\ backlog'[Len(backlog) + 1] = c
    BY <1>0, <2>1 DEF Typed
  <2>4. c \notin Open
    BY <1>0, <2>1, ServerLoopAssumption DEF Placed
  <2>5. \A i \in DOMAIN backlog : backlog[i] # c
    BY <1>0, <2>1 DEF Placed
  <2>6. \A d : link[d] # "free" /\ d \in Conn => link'[d] # "free"
    BY <1>0, <2>1 DEF Typed
  <2>7. link'[c] = "up"
    BY <1>0, <2>1 DEF Typed
  <2>8. Typed' /\ SlotsMatch'
    BY <1>0, <2>1, <2>2, <2>3 DEF Typed, SlotsMatch
  <2>9. Open \subseteq Descriptor /\ \A i \in DOMAIN backlog : backlog[i] \in Conn
    BY <1>0, OpenFinite DEF Typed
  <2>10. Placed'
    BY <1>0, <2>1, <2>2, <2>3, <2>4, <2>5, <2>6, <2>7, <2>9 DEF Placed, Descriptor
  <2> QED  BY <2>8, <2>10 DEF TableInv
<1>7. ASSUME NEW c \in Conn, Close(c) \/ Break(c) PROVE TableInv'
  <2>1. /\ link[c] # "free" /\ \E l \in {"ended", "broken"} : link' = [link EXCEPT ![c] = l]
        /\ UNCHANGED <<backlog, fds, fdindex, clients, pc, cur, todo, age>>
    BY <1>7 DEF Close, Break, table, objects, control
  <2>2. Open' = Open
    BY <2>1 DEF Open
  <2>3. \A d \in Conn : link'[d] = "free" => link[d] = "free"
    BY <1>0, <2>1 DEF Typed
  <2>4. Typed' /\ SlotsMatch'
    BY <1>0, <2>1, <2>2 DEF Typed, SlotsMatch
  <2>5. Open \subseteq Descriptor /\ \A i \in DOMAIN backlog : backlog[i] \in Conn
    BY <1>0, OpenFinite DEF Typed
  <2>6. Placed'
    BY <1>0, <2>1, <2>2, <2>3, <2>5 DEF Placed, Descriptor
  <2> QED  BY <2>4, <2>6 DEF TableInv
<1> QED
  BY <1>1, <1>2, <1>3, <1>4, <1>5, <1>6, <1>7, <1>8, <1>9 DEF Next, ServerStep, QuietStep

LEMMA TableAlways == Spec => []TableInv
BY TableInit, TableStep, PTL DEF Spec

\* With any number of connections, coming and going in any order, the index finds for
\* each open descriptor its own entry, and there are no others (polling.cpp:77-96).
THEOREM SlotsMatchAlways == Spec => []SlotsMatch
BY TableAlways, PTL DEF TableInv
-------------------------------------------------------------------------------
(* What a round finds, and whom it removes.                                *)

CountsOK ==
  /\ written \in [Conn -> Nat] /\ inq \in [Conn -> Nat]
  /\ buff \in [Conn -> Nat] /\ handled \in [Conn -> Nat]
  /\ connected \in [Conn -> BOOLEAN]
  /\ audience \subseteq clients

\* A line is with the kernel, in buff, or handled.
Conserved ==
  /\ \A c \in Conn : link[c] = "free" => written[c] = 0 /\ inq[c] = 0
  /\ \A i \in DOMAIN backlog : written[backlog[i]] = inq[backlog[i]]
  /\ \A c \in clients : handled[c] + buff[c] + inq[c] = written[c]

\* The peer is dead, or gone and read to the end.
Gone(c) == link[c] = "broken" \/ (link[c] = "ended" /\ inq[c] = 0)

\* The server has just taken unset revents of c for an error, and will remove it before
\* the next poll.
Misled(c) == age[c] = "unset" /\ cur = c /\ pc \in {"lines", "write"}

\* The server gives up a client that is gone, or that unset revents condemn.
Standing == \A c \in clients : ~ connected[c] => Gone(c) \/ Misled(c)

\* An error a poll has reported stays one; what the last one reported readable is so.
ErrorTrue(c) == age[c] # "unset" /\ Revents(c) = "error" => link[c] = "broken"
ReadTrue(c) == age[c] = "fresh" /\ Revents(c) = "read" => inq[c] > 0 \/ link[c] # "up"

Reported ==
  /\ \A c \in clients : ErrorTrue(c)
  /\ pc = "accept" => /\ age[Listen] = "fresh" /\ Revents(Listen) # "none" => backlog # <<>>
                      /\ \A c \in clients : ReadTrue(c)
  /\ \A c \in todo : ReadTrue(c)

RoundInv == CountsOK /\ Conserved /\ Standing /\ Reported

LEMMA RoundInit == Init => RoundInv
BY DEF Init, RoundInv, CountsOK, Conserved, Standing, Reported

LEMMA CountsStep ==
  ASSUME TableInv, CountsOK, [Next]_vars
  PROVE  CountsOK'
<1> USE DEF CountsOK, kernel, table, objects, control, Goto
<1>0. clients \subseteq Conn /\ \A i \in DOMAIN backlog : backlog[i] \in Conn
  BY DEF TableInv, Typed
<1>1. CASE Loop \/ PollReady \/ PollTimeout \/ PollInterrupted \/ PollFails \/ AcceptNone
  BY <1>1 DEF Loop, PollReady, PollTimeout, PollInterrupted, PollFails, AcceptNone
<1>11. CASE AcceptFails
  <2>1. /\ \/ UNCHANGED <<written, inq>>
           \/ \E c \in Conn : /\ written' = [written EXCEPT ![c] = 0]
                              /\ inq' = [inq EXCEPT ![c] = 0]
        /\ UNCHANGED <<buff, handled, connected, clients, audience>>
    <3>1. backlog # <<>> => Head(backlog) \in Conn
      BY DEF TableInv, Typed
    <3> QED  BY <1>11, <3>1 DEF AcceptFails
  <2> QED  BY <2>1
<1>2. CASE Accept
  <2> DEFINE c == Head(backlog)
  <2>1. /\ clients' = clients \cup {c}
        /\ \E b \in BOOLEAN : connected' = [connected EXCEPT ![c] = b]
        /\ buff' = [buff EXCEPT ![c] = 0] /\ handled' = [handled EXCEPT ![c] = 0]
        /\ UNCHANGED <<written, inq, audience>>
    BY <1>2 DEF Accept, ConnectedAfterStart
  <2> HIDE DEF c
  <2> QED  BY <2>1
<1>3. ASSUME NEW c \in Conn, Visit(c) PROVE CountsOK'
  <2>1. /\ UNCHANGED <<written, handled, clients, audience>>
        /\ UNCHANGED connected \/ connected' = [connected EXCEPT ![c] = FALSE]
        /\ \/ UNCHANGED <<inq, buff>>
           \/ \E n \in 1..inq[c] : /\ inq' = [inq EXCEPT ![c] = @ - n]
                                   /\ buff' = [buff EXCEPT ![c] = @ + n]
    BY <1>3 DEF Visit
  <2>2. connected' \in [Conn -> BOOLEAN]
    BY <2>1
  <2>3. inq' \in [Conn -> Nat] /\ buff' \in [Conn -> Nat]
    <3>1. inq[c] \in Nat /\ buff[c] \in Nat
      OBVIOUS
    <3>2. \A n \in 1..inq[c] : inq[c] - n \in Nat /\ buff[c] + n \in Nat
      BY <3>1
    <3> QED  BY <2>1, <3>2
  <2> QED  BY <2>1, <2>2, <2>3
<1>4. CASE ParseLine
  <2>1. /\ buff[cur] > 0 /\ audience' \subseteq clients
        /\ buff' = [buff EXCEPT ![cur] = @ - 1] /\ handled' = [handled EXCEPT ![cur] = @ + 1]
        /\ UNCHANGED <<written, inq, connected, clients>> /\ cur \in Conn
    BY <1>0, <1>4 DEF ParseLine, TableInv, Placed
  <2> QED  BY <2>1
<1>5. ASSUME NEW c \in Conn, WriteLine(c) PROVE CountsOK'
  BY <1>5 DEF WriteLine
<1>6. CASE WritesDone \/ KeepClient \/ RoundOver
  BY <1>6 DEF WritesDone, KeepClient, RoundOver
<1>7. CASE RemoveClient
  BY <1>7 DEF RemoveClient
<1>8. CASE Delete
  BY <1>8 DEF Delete
<1>9. ASSUME NEW c \in Conn, Connect(c) \/ Send(c) \/ Receive(c) \/ Close(c) \/ Break(c)
      PROVE  CountsOK'
  <2>1. /\ \/ UNCHANGED <<written, inq>>
           \/ written' = [written EXCEPT ![c] = @ + 1] /\ inq' = [inq EXCEPT ![c] = @ + 1]
        /\ UNCHANGED <<buff, handled, connected, clients, audience>>
    BY <1>9 DEF Connect, Send, Receive, Close, Break
  <2> QED  BY <2>1
<1>10. CASE Quit \/ UNCHANGED vars
  BY <1>10 DEF Quit, vars
<1> QED
  BY <1>1, <1>2, <1>3, <1>4, <1>5, <1>6, <1>7, <1>8, <1>9, <1>10, <1>11 DEF Next, ServerStep

LEMMA ConservedStep ==
  ASSUME TableInv, CountsOK, Conserved, [Next]_vars
  PROVE  Conserved'
<1> USE DEF kernel, table, objects, control, Goto
<1>0. /\ link \in [Conn -> {"free", "up", "ended", "broken"}]
      /\ clients \subseteq Conn /\ cur \in Descriptor
      /\ \A i \in DOMAIN backlog : backlog[i] \in Conn /\ backlog[i] \notin clients
      /\ \A i \in DOMAIN backlog : pc = "delete" => backlog[i] # cur
      /\ \A c \in clients : link[c] # "free"
      /\ \A i \in DOMAIN backlog : link[backlog[i]] # "free"
      /\ todo \subseteq clients /\ (pc = "lines" => cur \in clients)
      /\ (pc = "delete" => cur \in Conn \ clients)
  BY ServerLoopAssumption DEF TableInv, Typed, Placed, Open, Descriptor
<1>1. ASSUME UNCHANGED <<link, written, inq, backlog, buff, handled>>, clients' \subseteq clients
      PROVE  Conserved'
  BY <1>1 DEF Conserved
<1>2. CASE Accept
  <2> DEFINE c == Head(backlog)
  <2>1. /\ clients' = clients \cup {c}
        /\ buff' = [buff EXCEPT ![c] = 0] /\ handled' = [handled EXCEPT ![c] = 0]
        /\ backlog # <<>> /\ backlog' = Tail(backlog) /\ UNCHANGED <<link, written, inq>>
    BY <1>2 DEF Accept
  <2>2. /\ c = backlog[1] /\ 1 \in DOMAIN backlog
        /\ \A i \in DOMAIN backlog' : i + 1 \in DOMAIN backlog /\ backlog'[i] = backlog[i + 1]
    BY <2>1 DEF TableInv, Typed
  <2> HIDE DEF c
  <2> QED  BY <1>0, <2>1, <2>2 DEF Conserved, CountsOK
<1>3. ASSUME NEW c \in Conn, Visit(c) PROVE Conserved'
  <2>1. /\ c \in clients /\ UNCHANGED <<link, written, backlog, clients, handled>>
        /\ \/ UNCHANGED <<inq, buff>>
           \/ \E n \in 1..inq[c] : /\ inq' = [inq EXCEPT ![c] = @ - n]
                                   /\ buff' = [buff EXCEPT ![c] = @ + n]
    BY <1>0, <1>3 DEF Visit
  <2>2. CASE UNCHANGED <<inq, buff>>
    BY <1>1, <2>1, <2>2
  <2>3. ASSUME NEW n \in 1..inq[c], inq' = [inq EXCEPT ![c] = @ - n],
               buff' = [buff EXCEPT ![c] = @ + n]
        PROVE  Conserved'
    BY <1>0, <2>1, <2>3 DEF Conserved, CountsOK
  <2> QED  BY <2>1, <2>2, <2>3
<1>4. CASE ParseLine
  <2>1. /\ cur \in clients /\ buff[cur] > 0
        /\ buff' = [buff EXCEPT ![cur] = @ - 1] /\ handled' = [handled EXCEPT ![cur] = @ + 1]
        /\ UNCHANGED <<link, written, inq, backlog, clients>>
    BY <1>0, <1>4 DEF ParseLine
  <2> QED  BY <1>0, <2>1 DEF Conserved, CountsOK
<1>5. CASE Delete
  <2>1. /\ cur \in Conn \ clients /\ pc = "delete" /\ link' = [link EXCEPT ![cur] = "free"]
        /\ written' = [written EXCEPT ![cur] = 0] /\ inq' = [inq EXCEPT ![cur] = 0]
        /\ UNCHANGED <<backlog, clients, buff, handled>>
    BY <1>0, <1>5 DEF Delete
  <2> QED  BY <1>0, <2>1 DEF Conserved, CountsOK
<1>6. ASSUME NEW c \in Conn, Connect(c) PROVE Conserved'
  <2>1. /\ link[c] = "free" /\ link' = [link EXCEPT ![c] = "up"]
        /\ backlog' = Append(backlog, c)
        /\ UNCHANGED <<written, inq, clients, buff, handled>>
    BY <1>6 DEF Connect
  <2>2. \A i \in DOMAIN backlog' : backlog'[i] = c \/ (i \in DOMAIN backlog /\ backlog'[i] = backlog[i])
    BY <2>1 DEF TableInv, Typed
  <2> QED  BY <1>0, <2>1, <2>2 DEF Conserved
<1>7. ASSUME NEW c \in Conn, Send(c) PROVE Conserved'
  <2>1. /\ link[c] = "up" /\ UNCHANGED <<link, backlog, clients, buff, handled>>
        /\ written' = [written EXCEPT ![c] = @ + 1] /\ inq' = [inq EXCEPT ![c] = @ + 1]
    BY <1>7 DEF Send
  <2> QED  BY <1>0, <2>1 DEF Conserved, CountsOK
<1>8. ASSUME NEW c \in Conn, Close(c) \/ Break(c) PROVE Conserved'
  <2>1. /\ link[c] # "free" /\ \E l \in {"ended", "broken"} : link' = [link EXCEPT ![c] = l]
        /\ UNCHANGED <<written, inq, backlog, clients, buff, handled>>
    BY <1>8 DEF Close, Break
  <2> QED  BY <1>0, <2>1 DEF Conserved
<1>9. CASE Loop \/ PollReady \/ PollTimeout \/ PollInterrupted \/ PollFails \/ AcceptNone
  BY <1>1, <1>9 DEF Loop, PollReady, PollTimeout, PollInterrupted, PollFails, AcceptNone
<1>10. CASE WritesDone \/ KeepClient \/ RoundOver \/ RemoveClient
  BY <1>1, <1>10 DEF WritesDone, KeepClient, RoundOver, RemoveClient
<1>11. ASSUME NEW c \in Conn, WriteLine(c) \/ Receive(c) PROVE Conserved'
  BY <1>1, <1>11 DEF WriteLine, Receive
<1>12. CASE Quit \/ UNCHANGED vars
  BY <1>1, <1>12 DEF Quit, vars
<1>13. CASE AcceptFails
  <2>1. UNCHANGED <<clients, buff, handled>>
    BY <1>13 DEF AcceptFails
  <2>2. CASE UNCHANGED <<link, written, inq, backlog>>
    BY <2>1, <2>2 DEF Conserved
  <2>3. ASSUME backlog # <<>>, backlog' = Tail(backlog),
               link' = [link EXCEPT ![Head(backlog)] = "free"],
               written' = [written EXCEPT ![Head(backlog)] = 0],
               inq' = [inq EXCEPT ![Head(backlog)] = 0]
        PROVE  Conserved'
    <3> DEFINE c == Head(backlog)
    <3>1. /\ c = backlog[1] /\ 1 \in DOMAIN backlog /\ c \in Conn /\ c \notin clients
          /\ \A i \in DOMAIN backlog' : i + 1 \in DOMAIN backlog /\ backlog'[i] = backlog[i + 1]
      BY <1>0, <2>3 DEF TableInv, Typed
    <3>2. /\ link' = [link EXCEPT ![c] = "free"] /\ written' = [written EXCEPT ![c] = 0]
          /\ inq' = [inq EXCEPT ![c] = 0]
      BY <2>3 DEF c
    <3> HIDE DEF c
    <3> QED  BY <1>0, <2>1, <3>1, <3>2 DEF Conserved, CountsOK
  <2> QED  BY <1>13, <2>2, <2>3 DEF AcceptFails
<1> QED
  BY <1>2, <1>3, <1>4, <1>5, <1>6, <1>7, <1>8, <1>9, <1>10, <1>11, <1>12, <1>13
  DEF Next, ServerStep

LEMMA StandingStep ==
  ASSUME TableInv, CountsOK, Standing, Reported, [Next]_vars
  PROVE  Standing'
<1> USE DEF kernel, table, objects, control, Goto, Standing, Gone, Misled
<1>0. /\ link \in [Conn -> {"free", "up", "ended", "broken"}]
      /\ clients \subseteq Conn /\ todo \subseteq clients /\ audience \subseteq clients
      /\ connected \in [Conn -> BOOLEAN] /\ inq \in [Conn -> Nat]
      /\ \A c \in clients : link[c] # "free"
      /\ (pc = "delete" => cur \notin clients)
      /\ \A i \in DOMAIN backlog : backlog[i] \in Conn \ clients
  BY ServerLoopAssumption DEF TableInv, Typed, Placed, Open, Descriptor, CountsOK
<1>1. ASSUME UNCHANGED <<link, inq, connected, age, cur>>, clients' \subseteq clients,
             pc \in {"lines", "write"} =>
               pc' \in {"lines", "write"} \/ cur \notin clients' \/ connected[cur]
      PROVE  Standing'
  BY <1>1
<1>2. CASE Accept
  <2> DEFINE c == Head(backlog)
  <2>1. /\ clients' = clients \cup {c} /\ UNCHANGED <<link, inq>> /\ pc = "accept"
        /\ \E told \in BOOLEAN :
             connected' = [connected EXCEPT ![c] = ConnectedAfterStart(c, told)]
    BY <1>2 DEF Accept
  <2>2. c \in Conn
    BY <1>2 DEF Accept, TableInv, Typed
  <2> HIDE DEF c
  <2>3. ~ connected'[c] => link[c] = "broken"
    BY <1>0, <2>1, <2>2 DEF ConnectedAfterStart
  <2>4. \A d \in clients : d # c => connected'[d] = connected[d]
    BY <1>0, <2>1, <2>2
  <2>5. \A d \in clients : ~ connected[d] => Gone(d)
    BY <2>1
  <2> QED  BY <2>1, <2>3, <2>4, <2>5
<1>3. ASSUME NEW c \in Conn, Visit(c) PROVE Standing'
  <2>1. /\ c \in clients /\ UNCHANGED <<link, clients, age>>
        /\ cur' = c /\ pc' = "lines" /\ pc = "round"
        /\ \A d \in Conn \ {c} : inq'[d] = inq[d] /\ connected'[d] = connected[d]
    BY <1>0, <1>3 DEF Visit
  <2>2. ErrorTrue(c)
    BY <2>1 DEF Reported
  <2>3. ~ connected'[c] => \/ link[c] = "broken" \/ (link[c] = "ended" /\ inq'[c] = 0)
                           \/ age[c] = "unset"
    <3>1. CASE inq' = inq /\ connected' = connected
      BY <2>1, <3>1
    <3>2. CASE Revents(c) = "error" /\ inq' = inq
      BY <2>2, <3>2 DEF ErrorTrue
    <3>3. CASE AtEnd(c) /\ inq' = inq
      BY <1>0, <2>1, <3>3 DEF AtEnd
    <3>4. ASSUME connected' = connected, ~ AtEnd(c),
                 NEW n \in 1..inq[c], inq' = [inq EXCEPT ![c] = @ - n]
          PROVE  ~ connected'[c] => \/ link[c] = "broken" \/ (link[c] = "ended" /\ inq'[c] = 0)
                                    \/ age[c] = "unset"
      <4>1. inq[c] \in Nat /\ inq[c] # 0
        BY <1>0, <3>4
      <4> QED  BY <2>1, <3>4, <4>1
    <3> QED  BY <1>3, <3>1, <3>2, <3>3, <3>4 DEF Visit
  <2> QED  BY <1>0, <2>1, <2>3
<1>4. ASSUME NEW c \in Conn, WriteLine(c) PROVE Standing'
  BY <1>0, <1>4 DEF WriteLine
<1>5. CASE Delete
  BY <1>0, <1>5 DEF Delete
<1>6. ASSUME NEW c \in Conn, Connect(c) PROVE Standing'
  BY <1>0, <1>6 DEF Connect
<1>7. ASSUME NEW c \in Conn, Send(c) PROVE Standing'
  BY <1>0, <1>7 DEF Send
<1>8. ASSUME NEW c \in Conn, Close(c) PROVE Standing'
  BY <1>0, <1>8 DEF Close
<1>9. ASSUME NEW c \in Conn, Break(c) PROVE Standing'
  BY <1>0, <1>9 DEF Break
<1>10. CASE Loop \/ PollReady \/ PollTimeout \/ PollInterrupted \/ PollFails \/ AcceptNone
  <2>1. /\ pc \notin {"lines", "write"} /\ UNCHANGED <<link, inq, connected, clients>>
    BY <1>10 DEF Loop, PollReady, PollTimeout, PollInterrupted, PollFails, AcceptNone
  <2> QED  BY <2>1
<1>11. CASE ParseLine \/ WritesDone \/ KeepClient \/ RoundOver \/ RemoveClient
  BY <1>1, <1>11 DEF ParseLine, WritesDone, KeepClient, RoundOver, RemoveClient
<1>12. ASSUME NEW c \in Conn, Receive(c) PROVE Standing'
  BY <1>1, <1>12 DEF Receive
<1>13. CASE Quit \/ UNCHANGED vars
  BY <1>1, <1>13 DEF Quit, vars
<1>14. CASE AcceptFails
  <2>1. /\ pc = "accept" /\ UNCHANGED <<connected, clients>>
        /\ \A c \in clients : link'[c] = link[c] /\ inq'[c] = inq[c]
    <3>1. backlog # <<>> => Head(backlog) \in Conn \ clients
      BY <1>0 DEF TableInv, Typed
    <3> QED  BY <1>0, <1>14, <3>1 DEF AcceptFails
  <2> QED  BY <2>1
<1> QED
  BY <1>2, <1>3, <1>4, <1>5, <1>6, <1>7, <1>8, <1>9, <1>10, <1>11, <1>12, <1>13, <1>14
  DEF Next, ServerStep

LEMMA ReportedStep ==
  ASSUME TableInv, CountsOK, Reported, [Next]_vars
  PROVE  Reported'
<1> USE DEF kernel, table, objects, control, Goto
<1>0. /\ link \in [Conn -> {"free", "up", "ended", "broken"}]
      /\ clients \subseteq Conn /\ todo \subseteq clients /\ clients \subseteq Open
      /\ inq \in [Conn -> Nat] /\ Listen \in Open /\ Open \subseteq Descriptor
      /\ \A c \in clients : link[c] # "free"
      /\ (pc = "lines" => cur \in clients) /\ (pc = "delete" => cur \in Conn \ clients)
      /\ age \in [Descriptor -> {"unset", "old", "fresh"}]
      /\ \A i \in DOMAIN backlog : backlog[i] \in Conn \ Open
      /\ \A c \in Conn : c \in Descriptor /\ c # Listen
      /\ Listen \in Descriptor
  BY OpenFinite, ServerLoopAssumption
  DEF TableInv, Typed, Placed, Open, Descriptor, CountsOK
<1>1. ASSUME QuietStep, UNCHANGED <<link, inq, backlog, clients, age>>,
             todo' \subseteq todo, pc' = "accept" => pc = "accept"
      PROVE  Reported'
  BY <1>1, QuietIsAside, AsideKeeps DEF Reported, ErrorTrue, ReadTrue
<1>2. CASE PollReady \/ PollTimeout
  <2>1. /\ fds' = Polled /\ Open' = Open
        /\ UNCHANGED <<link, inq, backlog, fdindex, clients, todo>>
    BY <1>2 DEF PollReady, PollTimeout, Open
  <2>2. \A f \in Open : Revents(f)' = Happening(f)
    BY <2>1, PolledTable DEF TableInv
  <2>3. Revents(Listen)' # "none" => backlog' # <<>>
    BY <1>0, <2>1, <2>2 DEF Happening
  <2>4. \A c \in clients : ErrorTrue(c)' /\ ReadTrue(c)'
    BY <1>0, <2>1, <2>2, ServerLoopAssumption DEF Happening, ErrorTrue, ReadTrue
  <2> QED  BY <1>0, <2>1, <2>3, <2>4 DEF Reported
<1>15. CASE PollFails
  <2>1. /\ UNCHANGED <<link, inq, backlog, fds, fdindex, clients, todo>> /\ age' = Aged
    BY <1>15 DEF PollFails
  <2>2. \A f \in Descriptor : age'[f] # "fresh" /\ (age[f] = "unset" => age'[f] = "unset")
    BY <1>0, <2>1 DEF Aged
  <2> QED  BY <1>0, <2>1, <2>2 DEF Reported, ErrorTrue, ReadTrue, Revents
<1>16. CASE AcceptFails
  <2>1. /\ pc' = "loop" /\ UNCHANGED <<fds, fdindex, age, clients, todo>>
        /\ \A c \in clients : link'[c] = link[c] /\ inq'[c] = inq[c]
    <3>1. backlog # <<>> => Head(backlog) \in Conn \ clients
      BY <1>0 DEF TableInv, Typed
    <3> QED  BY <1>0, <1>16, <3>1 DEF AcceptFails
  <2> QED  BY <1>0, <2>1 DEF Reported, ErrorTrue, ReadTrue, Revents
<1>3. CASE AcceptNone
  <2>1. /\ todo' = clients /\ pc = "accept" /\ pc' = "round"
        /\ UNCHANGED <<link, inq, clients, age>>
    BY <1>3 DEF AcceptNone
  <2>2. \A f : Revents(f)' = Revents(f)
    BY <1>3, QuietIsAside, AsideKeeps DEF QuietStep
  <2> QED  BY <2>1, <2>2 DEF Reported, ErrorTrue, ReadTrue
<1>4. CASE Accept
  <2>1. /\ pc = "accept" /\ pc' = "round" /\ backlog # <<>>
        /\ Head(backlog) \in Conn \ Open /\ age[Head(backlog)] = "unset"
    BY <1>4 DEF Accept, TableInv, Typed, Placed
  <2> PICK c \in Conn \ Open : c = Head(backlog) /\ age[c] = "unset"
    BY <2>1
  <2>2. PICK u \in Unset : fds' = Append(fds, [fd |-> c, revents |-> u])
    BY <1>4 DEF Accept
  <2>3. /\ todo' = clients \cup {c} /\ fdindex' = Added(c)
        /\ clients' = clients \cup {c} /\ UNCHANGED <<link, inq, cur, age>>
    BY <1>4 DEF Accept
  <2>4. Open' = Open \cup {c}
    BY <2>1, <2>3 DEF Open
  <2>5. \A f \in Open : Revents(f)' = Revents(f)
    <3>1. u \in {"none", "read", "error"} /\ Typed /\ SlotsMatch
      BY ServerLoopAssumption DEF TableInv
    <3> QED  BY <2>1, <2>2, <2>3, <2>4, <3>1, AddedTable
  <2>6. \A d \in clients : ErrorTrue(d)' /\ ReadTrue(d)'
    <3>1. \A d \in clients : ErrorTrue(d) /\ ReadTrue(d)
      BY <2>1 DEF Reported
    <3> QED  BY <1>0, <2>3, <2>5, <3>1 DEF ErrorTrue, ReadTrue
  <2>7. ErrorTrue(c)' /\ ReadTrue(c)'
    BY <2>3 DEF ErrorTrue, ReadTrue
  <2>8. todo' = clients \cup {c} /\ clients' = clients \cup {c} /\ pc' # "accept"
    BY <2>1, <2>3
  <2> QED  BY <2>6, <2>7, <2>8 DEF Reported
<1>5. ASSUME NEW c \in Conn, Visit(c) PROVE Reported'
  <2>1. /\ todo' = todo \ {c} /\ pc' = "lines" /\ UNCHANGED <<link, age, clients>>
        /\ \A d \in Conn \ {c} : inq'[d] = inq[d]
    BY <1>0, <1>5 DEF Visit
  <2>2. \A f : Revents(f)' = Revents(f)
    BY <1>5, QuietIsAside, AsideKeeps DEF QuietStep
  <2> QED  BY <1>0, <2>1, <2>2 DEF Reported, ErrorTrue, ReadTrue
<1>6. CASE RemoveClient
  <2>1. /\ pc' = "write" /\ UNCHANGED <<link, inq, fds, fdindex, age, todo>>
        /\ clients' \subseteq clients
    BY <1>6 DEF RemoveClient
  <2> QED  BY <2>1 DEF Reported, ErrorTrue, ReadTrue, Revents
<1>7. CASE Delete
  <2>1. /\ pc = "delete" /\ pc' = "round" /\ todo' = todo
        /\ fds' = RemoveAt(fds, fdindex[cur]) /\ fdindex' = Removed(fdindex, cur)
        /\ UNCHANGED <<clients, cur>>
        /\ \A d \in Conn \ {cur} : link'[d] = link[d] /\ inq'[d] = inq[d] /\ age'[d] = age[d]
    BY <1>0, <1>7 DEF Delete
  <2>2. cur \in Open /\ Open' = Open \ {cur}
    BY <1>0, <2>1, ServerLoopAssumption DEF Open
  <2>3. \A f \in Open \ {cur} : Revents(f)' = Revents(f)
    BY <2>1, <2>2, RemovedTable DEF TableInv
  <2>4. \A c \in clients : c \in Open \ {cur} /\ c \in Conn \ {cur}
    BY <1>0, <2>1
  <2> QED  BY <1>0, <2>1, <2>3, <2>4 DEF Reported, ErrorTrue, ReadTrue
<1>8. ASSUME NEW c \in Conn, Connect(c) PROVE Reported'
  <2>1. /\ link[c] = "free" /\ link' = [link EXCEPT ![c] = "up"]
        /\ backlog' = Append(backlog, c)
        /\ UNCHANGED <<inq, fds, fdindex, age, clients, pc, todo>>
    BY <1>8 DEF Connect
  <2>2. backlog' # <<>>
    BY <2>1 DEF TableInv, Typed
  <2>3. \A d \in clients : link'[d] = link[d]
    BY <1>0, <2>1
  <2> QED  BY <1>0, <2>1, <2>2, <2>3 DEF Reported, ErrorTrue, ReadTrue, Revents
<1>9. ASSUME NEW c \in Conn, Send(c) PROVE Reported'
  <2>1. /\ link' = link /\ inq' = [inq EXCEPT ![c] = @ + 1]
        /\ UNCHANGED <<backlog, fds, fdindex, age, clients, pc, todo>>
    BY <1>9 DEF Send
  <2>2. \A d \in Conn : inq[d] > 0 => inq'[d] > 0
    BY <1>0, <2>1
  <2> QED  BY <1>0, <2>1, <2>2 DEF Reported, ErrorTrue, ReadTrue, Revents
<1>10. ASSUME NEW c \in Conn, Close(c) \/ Break(c) PROVE Reported'
  <2>1. /\ UNCHANGED <<inq, backlog, fds, fdindex, age, clients, pc, todo>>
        /\ \/ link[c] = "up" /\ link' = [link EXCEPT ![c] = "ended"]
           \/ link' = [link EXCEPT ![c] = "broken"]
    BY <1>10 DEF Close, Break
  <2>2. \A d \in Conn : /\ link[d] # "up" => link'[d] # "up"
                        /\ link[d] = "broken" => link'[d] = "broken"
    BY <1>0, <2>1
  <2> QED  BY <1>0, <2>1, <2>2 DEF Reported, ErrorTrue, ReadTrue, Revents
<1>11. CASE Loop \/ PollInterrupted
  BY <1>1, <1>11 DEF Loop, PollInterrupted, QuietStep
<1>12. CASE ParseLine \/ WritesDone \/ KeepClient \/ RoundOver
  BY <1>1, <1>12 DEF ParseLine, WritesDone, KeepClient, RoundOver, QuietStep
<1>13. ASSUME NEW c \in Conn, WriteLine(c) \/ Receive(c) PROVE Reported'
  BY <1>1, <1>13 DEF WriteLine, Receive, QuietStep
<1>14. CASE Quit \/ UNCHANGED vars
  BY <1>1, <1>14 DEF Quit, vars, QuietStep
<1> QED
  BY <1>2, <1>3, <1>4, <1>5, <1>6, <1>7, <1>8, <1>9, <1>10, <1>11, <1>12, <1>13, <1>14,
     <1>15, <1>16 DEF Next, ServerStep

LEMMA RoundAlways == Spec => [](TableInv /\ RoundInv)
<1>1. Init => TableInv /\ RoundInv
  BY TableInit, RoundInit
<1>2. TableInv /\ RoundInv /\ [Next]_vars => (TableInv /\ RoundInv)'
  BY TableStep, CountsStep, ConservedStep, StandingStep, ReportedStep DEF RoundInv
<1> QED
  BY <1>1, <1>2, PTL DEF Spec

LEMMA OnlyRemoveClientRemoves ==
  ASSUME [Next]_vars, NEW c \in clients, c \notin clients'
  PROVE  c = cur /\ ~ connected[cur] /\ buff[cur] = 0
<1> USE DEF objects
<1>1. CASE RemoveClient
  BY <1>1 DEF RemoveClient
<1>2. CASE Accept
  BY <1>2 DEF Accept
<1>3. CASE \/ Loop \/ PollReady \/ PollTimeout \/ PollInterrupted \/ PollFails \/ AcceptNone
           \/ AcceptFails \/ ParseLine \/ WritesDone \/ KeepClient \/ RoundOver \/ Delete
  BY <1>3 DEF Loop, PollReady, PollTimeout, PollInterrupted, PollFails, AcceptNone,
              AcceptFails, ParseLine, WritesDone, KeepClient, RoundOver, Delete
<1>4. CASE \/ Quit \/ UNCHANGED vars
           \/ \E d \in Conn : \/ Visit(d) \/ WriteLine(d) \/ Connect(d) \/ Send(d)
                              \/ Receive(d) \/ Close(d) \/ Break(d)
  BY <1>4 DEF Quit, vars, Visit, WriteLine, Connect, Send, Receive, Close, Break
<1> QED
  BY <1>1, <1>2, <1>3, <1>4 DEF Next, ServerStep
-------------------------------------------------------------------------------
(* The theorems.                                                           *)

\* After a poll that returned, accept and read are called only when they return at once,
\* whatever the peers do and however many clients the round has visited since
\* (server.cpp:213-246), with any revents in what was added since and after any failures
\* of poll and accept before.
THEOREM NeverStuckAlways == Spec => []NeverStuck
<1>1. RoundInv => NeverStuck
  <2> SUFFICES ASSUME RoundInv PROVE NeverStuck
    OBVIOUS
  <2> QED  BY DEF RoundInv, Reported, ReadTrue, NeverStuck
<1> QED
  BY <1>1, RoundAlways, PTL

\* Only a client whose peer has closed or died is removed (server.cpp:233-246), once a
\* poll has written its revents: no stale report of a failed poll removes another.
THEOREM OnlyLeaversRemovedAlways == Spec => OnlyLeaversRemoved
<1>1. RoundInv /\ [Next]_vars
        => [\A c \in clients : c \notin clients' /\ age[c] # "unset"
                                 => link[c] \in {"ended", "broken"}]_vars
  <2> SUFFICES ASSUME RoundInv, [Next]_vars,
                      NEW c \in clients, c \notin clients', age[c] # "unset"
               PROVE  link[c] \in {"ended", "broken"}
    OBVIOUS
  <2>1. c = cur /\ ~ connected[cur]
    BY OnlyRemoveClientRemoves
  <2> QED  BY <2>1 DEF RoundInv, Standing, Gone, Misled
<1> QED
  BY <1>1, RoundAlways, PTL DEF Spec, OnlyLeaversRemoved

\* What a peer wrote before it closed is handled before its client is removed
\* (client.cpp:53-81 and server.cpp:233-246), once a poll has written its revents.
THEOREM LastLinesHandledAlways == Spec => LastLinesHandled
<1>1. TableInv /\ RoundInv /\ [Next]_vars
        => [\A c \in clients : c \notin clients' /\ link[c] = "ended" /\ age[c] # "unset"
                                 => handled[c] = written[c]]_vars
  <2> SUFFICES ASSUME TableInv, RoundInv, [Next]_vars,
                      NEW c \in clients, c \notin clients', link[c] = "ended", age[c] # "unset"
               PROVE  handled[c] = written[c]
    OBVIOUS
  <2>1. c = cur /\ ~ connected[c] /\ buff[c] = 0
    BY OnlyRemoveClientRemoves
  <2>2. inq[c] = 0
    BY <2>1 DEF RoundInv, Standing, Gone, Misled
  <2>3. handled[c] + buff[c] + inq[c] = written[c] /\ handled[c] \in Nat
    BY DEF RoundInv, Conserved, CountsOK, TableInv, Typed
  <2> QED  BY <2>1, <2>2, <2>3
<1> QED
  BY <1>1, RoundAlways, PTL DEF Spec, LastLinesHandled
===============================================================================
