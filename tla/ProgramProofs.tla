---------------------------- MODULE ProgramProofs -----------------------------
(***************************************************************************)
(* Theorems about what a program does by itself: what the desk makes of    *)
(* its levers (Desk), for every byte the device can report and every class *)
(* of train, and the search for the server (Discovery), whatever the order *)
(* in which the messages of several programs and servers are heard.        *)
(***************************************************************************)
EXTENDS Desk, Discovery, SequenceTheorems, TLAPS
-------------------------------------------------------------------------------
(* Desk.                                                                   *)

Byte == 0..255

\* The inductive invariant: both numbers made of the combined lever come from one
\* position of it, a byte.
OneLever ==
  /\ levers \in Levers
  /\ \/ State.throttle = 0
     \/ \E t \in Byte :
          /\ State.throttle = Percentage(t, 125, 61)
          /\ State.dynamic = PercentageMid(t, 125, DynamicBrakeSetup, 210)

\* A lever says something as throttle only on the traction side of its idle position.
LEMMA ThrottleSide ==
  ASSUME NEW t \in Byte, Percentage(t, 125, 61) # 0
  PROVE  t < 125
<1>1. t >= 125 => (-100000 * (t - 125)) \div 64 < 3000
  BY SMT DEF Byte
<1>2. Percentage(t, 125, 61) =
        IF (-100000 * (t - 125)) \div 64 < 3000 THEN 0
        ELSE IF (-100000 * (t - 125)) \div 64 > 97000 THEN 100000
        ELSE (-100000 * (t - 125)) \div 64
  BY SMT DEF Percentage, Ratio, Byte
<1> QED  BY <1>1, <1>2, SMT DEF Byte

\* On that side it says nothing as brake, wherever the class puts the brake's beginning.
LEMMA BrakeSide ==
  ASSUME NEW t \in Byte, t < 125
  PROVE  clamped(PercentageMid(t, 125, DynamicBrakeSetup, 210)) = 0
<1>1. CASE serie = 465
  <2>1. (100000 * (t - 145)) \div 65 < 0
    BY SMT DEF Byte
  <2>2. (100000 * (t - 145)) \div 20 < 0
    BY SMT DEF Byte
  <2>3. DynamicBrakeSetup = 145
    BY <1>1 DEF DynamicBrakeSetup
  <2>4. Ratio(t - 145, 210 - 145) = (100000 * (t - 145)) \div 65
        /\ Ratio(t - 145, 145 - 125) = (100000 * (t - 145)) \div 20
    BY SMT DEF Ratio, Byte
  <2> QED  BY <2>1, <2>2, <2>3, <2>4, SMT DEF PercentageMid, clamped, Byte
<1>2. CASE serie # 465
  <2>1. (100000 * (t - 163)) \div 47 < 0
    BY SMT DEF Byte
  <2>2. (100000 * (t - 163)) \div 38 < 0
    BY SMT DEF Byte
  <2>3. DynamicBrakeSetup = 163
    BY <1>2 DEF DynamicBrakeSetup
  <2>4. Ratio(t - 163, 210 - 163) = (100000 * (t - 163)) \div 47
        /\ Ratio(t - 163, 163 - 125) = (100000 * (t - 163)) \div 38
    BY SMT DEF Ratio, Byte
  <2> QED  BY <2>1, <2>2, <2>3, <2>4, SMT DEF PercentageMid, clamped, Byte
<1> QED  BY <1>1, <1>2

-------------------------------------------------------------------------------
LEMMA OneLeverInit == Init => OneLever
BY DEF Init, OneLever

LEMMA OneLeverNext == OneLever /\ [Next]_vars => OneLever'
<1> SUFFICES ASSUME OneLever, [Next]_vars
             PROVE  OneLever'
  OBVIOUS
<1>1. ASSUME NEW l \in Levers, Report(l)
      PROVE  OneLever'
  BY <1>1 DEF OneLever, Report, DynamicBrakeSetup, Levers
<1>2. ASSUME NEW spd, Body(spd)
      PROVE  OneLever'
  <2>1. CASE ready /\ rdata
    <3>1. levers.throttle \in Byte
      BY DeskAssumption DEF OneLever, Levers, Byte
    <3>2. State' = Parsed(levers) /\ levers' = levers /\ serie' = serie
      BY <1>2, <2>1 DEF Body
    <3>3. State'.throttle = Percentage(levers.throttle, 125, 61)
      BY <3>2 DEF Parsed
    <3>4. State'.dynamic = PercentageMid(levers.throttle, 125, DynamicBrakeSetup', 210)
      BY <3>2 DEF Parsed, DynamicBrakeSetup
    <3> QED  BY <3>1, <3>2, <3>3, <3>4 DEF OneLever, Levers
  <2>2. CASE ~ (ready /\ rdata)
    BY <1>2, <2>2 DEF Body, OneLever, DynamicBrakeSetup, Levers
  <2> QED  BY <2>1, <2>2
<1>3. ASSUME UNCHANGED <<levers, State, serie>>
      PROVE  OneLever'
  BY <1>3 DEF OneLever, DynamicBrakeSetup, Levers
<1>4. CASE Collect \/ Poll \/ Counted \/ ServerSpoke \/ TimeOut \/ PollFails
           \/ Disconnect \/ Ended \/ UNCHANGED vars
  BY <1>3, <1>4 DEF Collect, Poll, Counted, ServerSpoke, TimeOut, PollFails, Disconnect,
                    Ended, vars
<1> QED  BY <1>1, <1>2, <1>4 DEF Next

\* Where the lever is not pushed nothing is asked for, as throttle or as speed to keep.
LEMMA NoPull ==
  ASSUME State.throttle = 0, ~ mandoATOengine
  PROVE  Throttle(State) = 0 /\ CruiseSpeed(State) = 0
<1>1. clamped(State.throttle) = 0
  BY SMT DEF clamped
<1>2. maxSpeed \in Int
  BY DEF maxSpeed
<1>3. Cruise(State.throttle) = 0
  BY <1>1, <1>2, SMT DEF Cruise
<1> QED  BY <1>1, <1>3 DEF Throttle, CruiseSpeed

LEMMA OneLeverImplies == OneLever => TractionOrBrake
<1> SUFFICES ASSUME OneLever
             PROVE  TractionOrBrake
  OBVIOUS
<1>1. CASE State.throttle = 0
  <2>1. Throttle(State) = 0
    BY <1>1, SMT DEF Throttle, clamped
  <2>2. (IF mandoATOengine THEN 0 ELSE CruiseSpeed(State)) = 0
    BY <1>1, NoPull
  <2> QED  BY <2>1, <2>2, SMT DEF TractionOrBrake
<1>2. CASE State.throttle # 0
  <2>1. PICK t \in Byte :
          /\ State.throttle = Percentage(t, 125, 61)
          /\ State.dynamic = PercentageMid(t, 125, DynamicBrakeSetup, 210)
    BY <1>2 DEF OneLever
  <2>2. clamped(State.dynamic) = 0
    BY <1>2, <2>1, ThrottleSide, BrakeSide
  <2>3. (IF mandocombinado = 2 THEN Train(State) ELSE Dynamic(State)) = 0
    BY <2>2 DEF Train, Dynamic
  <2> QED  BY <2>3 DEF TractionOrBrake
<1> QED  BY <1>1, <1>2

\* Whatever the levers report, for every class of train, the combined lever never asks
\* for power and for brake at a time (raildriver.cpp:180-203 and 97-149).
THEOREM TractionOrBrakeAlways == Spec => []TractionOrBrake
<1>1. Init => OneLever
  BY OneLeverInit
<1>2. OneLever /\ [Next]_vars => OneLever'
  BY OneLeverNext
<1>3. OneLever => TractionOrBrake
  BY OneLeverImplies
<1> QED  BY <1>1, <1>2, <1>3, PTL DEF Spec

-------------------------------------------------------------------------------
\* Its own strengthening: State and the LEDs change together.
LedAgrees == State.modocond = 2 => prevc = CruiseSpeed(State)

\* The two tests choose the same lever in every class of train.
LEMMA SameLever ==
  ASSUME NEW s, NEW spd, s.modocond = 2
  PROVE  Led(s, spd) = CruiseSpeed(s)
<1>1. CASE serie = 130
  BY <1>1 DEF Led, CruiseSpeed, mandoATOengine, mandoCombinadoPrefijada
<1>2. CASE serie # 130
  BY <1>2 DEF Led, CruiseSpeed, mandoATOengine, mandoCombinadoPrefijada
<1> QED  BY <1>1, <1>2

LEMMA LedAgreesNext == LedAgrees /\ [Next]_vars => LedAgrees'
<1> SUFFICES ASSUME LedAgrees, [Next]_vars
             PROVE  LedAgrees'
  OBVIOUS
<1>1. ASSUME UNCHANGED <<State, serie, prevc>>
      PROVE  LedAgrees'
  BY <1>1 DEF LedAgrees, CruiseSpeed, Cruise, maxSpeed, mandoATOengine,
              mandoCombinadoPrefijada
<1>2. ASSUME NEW spd, Body(spd)
      PROVE  LedAgrees'
  <2>1. prevc' = Led(State', spd) /\ serie' = serie
    BY <1>2 DEF Body
  <2>2. State'.modocond = 2 => prevc' = CruiseSpeed(State')
    BY <2>1, SameLever
  <2>3. CruiseSpeed(State)' = CruiseSpeed(State')
    BY <2>1 DEF CruiseSpeed, Cruise, maxSpeed, mandoATOengine, mandoCombinadoPrefijada
  <2> QED  BY <2>2, <2>3 DEF LedAgrees
<1>3. CASE (\E l \in Levers : Report(l)) \/ Collect \/ Poll \/ Counted \/ ServerSpoke
           \/ TimeOut \/ PollFails \/ Disconnect \/ Ended \/ UNCHANGED vars
  BY <1>1, <1>3 DEF Report, Collect, Poll, Counted, ServerSpoke, TimeOut, PollFails,
                    Disconnect, Ended, vars
<1> QED  BY <1>2, <1>3 DEF Next

\* In the mode that keeps a speed, the LEDs show the speed the server is told to keep,
\* for every class of train (raildriver.cpp:109-116 and 377-386).
THEOREM LedShowsCruiseAlways == Spec => []LedShowsCruise
<1>1. Init => LedAgrees
  BY DEF Init, LedAgrees
<1>2. LedAgrees /\ [Next]_vars => LedAgrees'
  BY LedAgreesNext
<1>3. LedAgrees => LedShowsCruise
  BY DEF LedAgrees, LedShowsCruise
<1> QED  BY <1>1, <1>2, <1>3, PTL DEF Spec
-------------------------------------------------------------------------------
(* Discovery.                                                              *)

\* At most two programs search at a time.
TwoAtMost == \A there \in Cast : \A a, b, c \in there \cap Client : a = b \/ b = c \/ a = c

There == {n \in Node : pc[n] # "absent"}

Places ==
  /\ pc \in [Node -> {"absent", "send", "wait", "listen", "reply", "down", "done"}]
  /\ \A c \in Client : pc[c] \in {"absent", "send", "wait", "done"}
  /\ \A s \in Server : pc[s] \in {"absent", "listen", "reply", "down", "done"}
  /\ There \in Cast

Counters ==
  /\ i \in [Client -> 0..3] /\ j \in [Client -> 0..2]
  /\ \A c \in Client : pc[c] = "wait" => i[c] <= 2

Replies ==
  /\ left \in [Server -> 0..3] /\ go \in [Server -> BOOLEAN]
  /\ \A s \in Server : pc[s] = "reply" => left[s] >= 1

Sockets ==
  /\ inbox \in [Node -> Seq(Message)]
  /\ ~ calm => \A n \in Node : Len(inbox[n]) <= Inbox

Typed ==
  /\ calm \in BOOLEAN /\ ip \in [Client -> Server \cup {Nobody}]
  /\ Places /\ Counters /\ Replies /\ Sockets

\* On a calm day a server that is there stays there.
Serving == \A s \in Server : go[s] /\ pc[s] \in {"absent", "listen", "reply"}

Holds(n, text) == \E k \in DOMAIN inbox[n] : inbox[n][k].text = text

HasAsked(c) == pc[c] = "wait" \/ (pc[c] = "send" /\ i[c] > 0)

\* Who has asked has an offer waiting, or one is still to be made.
Answered ==
  \A c \in Client : \A s \in Server :
    HasAsked(c) /\ pc[s] # "absent" =>
      Holds(c, Offer) \/ pc[s] = "reply" \/ Holds(s, Ask)

\* The waits c has used up.
Waits(c) == 3 * i[c] + (IF pc[c] = "wait" THEN j[c] ELSE 0)

\* The times d has asked, at most.
Asks(d) == IF pc[d] = "done" THEN 3 ELSE IF pc[d] = "wait" THEN i[d] + 1 ELSE i[d]

\* Each wait was used up by a message that asks, and those c will hear before an offer
\* were sent too.
Accounted ==
  \A c, d \in Client :
    There \cap Client \subseteq {c, d} /\ pc[c] \in {"send", "wait"} =>
      \A k \in 0..Len(inbox[c]) :
        (\A l \in 1..k : inbox[c][l].text = Ask) => Waits(c) + k <= Asks(c) + Asks(d)

Fine == calm /\ (\E s \in Server : pc[s] # "absent")

Found == \A c \in Client : pc[c] = "done" => ip[c] # Nobody

SearchInv == Typed /\ (Fine => Serving /\ Answered /\ Accounted /\ Found)

LEMMA TypedIsTypeOK == Typed => TypeOK
BY DEF Typed, Places, Counters, Replies, Sockets, TypeOK

LEMMA SearchInit == DiscoveryInit => SearchInv
<1> SUFFICES ASSUME DiscoveryInit PROVE SearchInv
  OBVIOUS
<1> USE DiscoveryAssumption DEF DiscoveryInit
<1>1. PICK there \in Cast :
        pc = [n \in Node |-> IF n \notin there THEN "absent"
                              ELSE IF n \in Client THEN "send"
                              ELSE IF calm THEN "listen" ELSE "down"]
  OBVIOUS
<1>2. There \in Cast
  <2>1. There = there
    BY <1>1 DEF There, Node
  <2> QED  BY <2>1
<1>3. \A c \in Client : pc[c] \in {"absent", "send"} /\ i[c] = 0
  BY <1>1 DEF Node
<1>4. \A s \in Server :
        /\ go[s] /\ pc[s] \in {"absent", "listen", "down"}
        /\ calm => pc[s] # "down"
  BY <1>1 DEF Node
<1>5. Typed
  <2>1. Sockets
    BY EmptySeq DEF Sockets
  <2> QED  BY <1>1, <1>2, <1>3, <1>4, <2>1 DEF Typed, Places, Counters, Replies
<1>6. Accounted
  BY <1>3 DEF Accounted, Waits, Asks, Node
<1> QED  BY <1>3, <1>4, <1>5, <1>6 DEF SearchInv, Fine, Serving, Answered, HasAsked, Found

\* What a broadcast puts into the sockets.
LEMMA Broadcasts ==
  ASSUME Typed, UNCHANGED calm, NEW n \in Node, NEW text,
         [text |-> text, from |-> n] \in Message, Broadcast(n, text)
  PROVE  /\ Sockets'
         /\ calm => \A m \in Node :
              inbox'[m] = IF m \in Bound THEN Append(inbox[m], [text |-> text, from |-> n])
                                           ELSE inbox[m]
<1>1. PICK heard \in SUBSET Bound :
        /\ calm => heard = Bound
        /\ inbox' = [m \in Node |->
                       IF m \in heard /\ (calm \/ Len(inbox[m]) < Inbox)
                         THEN Append(inbox[m], [text |-> text, from |-> n])
                         ELSE inbox[m]]
  BY DEF Broadcast
<1>2. \A m \in Node :
        /\ inbox[m] \in Seq(Message) /\ Len(inbox[m]) \in Nat
        /\ Append(inbox[m], [text |-> text, from |-> n]) \in Seq(Message)
        /\ Len(Append(inbox[m], [text |-> text, from |-> n])) = Len(inbox[m]) + 1
  BY AppendProperties, LenProperties DEF Typed, Sockets
<1>3. inbox' \in [Node -> Seq(Message)]
  BY <1>1, <1>2
<1>4. ASSUME ~ calm, NEW m \in Node PROVE Len(inbox'[m]) <= Inbox
  BY <1>1, <1>2, <1>4, DiscoveryAssumption DEF Typed, Sockets
<1>5. calm => \A m \in Node :
        inbox'[m] = IF m \in Bound THEN Append(inbox[m], [text |-> text, from |-> n])
                                     ELSE inbox[m]
  BY <1>1
<1>6. Sockets'
  BY <1>3, <1>4 DEF Sockets
<1> QED  BY <1>5, <1>6

\* A socket after its first message was taken.
LEMMA Taken ==
  ASSUME NEW q \in Seq(Message), q # <<>>
  PROVE  /\ Tail(q) \in Seq(Message) /\ Len(Tail(q)) = Len(q) - 1 /\ Len(q) \in Nat \ {0}
         /\ Head(q) = q[1] /\ q[1] \in Message
         /\ \A k \in 1..Len(q) - 1 : Tail(q)[k] = q[k + 1]
BY HeadTailProperties, EmptySeq, LenProperties

\* What n's socket holds changes to q, no more than before.
LEMMA SocketShrinks ==
  ASSUME Typed, UNCHANGED calm, NEW n \in Node,
         NEW q \in Seq(Message), Len(q) <= Len(inbox[n]), inbox' = [inbox EXCEPT ![n] = q]
  PROVE  Sockets'
<1>1. \A m \in Node : inbox[m] \in Seq(Message) /\ Len(inbox[m]) \in Nat /\ Len(q) \in Nat
  BY LenProperties DEF Typed, Sockets
<1> QED  BY <1>1, DiscoveryAssumption DEF Typed, Sockets

\* Where n is changes to x.
LEMMA Moves ==
  ASSUME Typed, NEW n \in Node, pc[n] # "absent",
         NEW x \in IF n \in Client THEN {"send", "wait", "done"}
                                   ELSE {"listen", "reply", "down", "done"},
         pc' = [pc EXCEPT ![n] = x]
  PROVE  Places' /\ There' = There
<1>1. There' = There
  BY DEF There, Typed, Places
<1> QED  BY <1>1, DiscoveryAssumption DEF Typed, Places, Node

LEMMA TypedStep ==
  ASSUME Typed, [DiscoveryNext]_discoveryVars
  PROVE  Typed' /\ There' = There
<1> USE DiscoveryAssumption DEF Node
<1>0. UNCHANGED calm
  BY DEF DiscoveryNext, ClientStep, ServerStep, SendAsk, Hear, HearNothing, Give,
         GiveUp, SendFails, Listen, Reply, Drop, Rebind, SocketFails, ServerEnds,
         Quit, discoveryVars
<1>a. /\ UNCHANGED pc => UNCHANGED There
      /\ UNCHANGED pc => Places'
      /\ UNCHANGED <<calm, inbox>> => Sockets'
  BY DEF There, Typed, Places, Sockets
<1>1. ASSUME NEW c \in Client, SendAsk(c) PROVE Typed' /\ There' = There
  <2>1. [text |-> Ask, from |-> c] \in Message
    BY DEF Message
  <2>2. Sockets'
    BY <1>0, <1>1, <2>1, Broadcasts DEF SendAsk
  <2>3. Places' /\ There' = There
    BY <1>1, Moves DEF SendAsk
  <2>4. Counters' /\ Replies'
    BY <1>1 DEF SendAsk, Typed, Places, Counters, Replies
  <2> QED  BY <1>1, <2>2, <2>3, <2>4 DEF SendAsk, Typed
<1>2. ASSUME NEW c \in Client, Hear(c) PROVE Typed' /\ There' = There
  <2>1. inbox[c] \in Seq(Message) /\ inbox[c] # <<>> /\ pc[c] = "wait"
    BY <1>2 DEF Hear, Typed, Sockets
  <2>2. CASE Head(inbox[c]).text = Offer
    <3>1. Head(inbox[c]).from \in Server
      BY <2>1, <2>2, Taken DEF Message, Offer, Ask
    <3>2. /\ ip' = [ip EXCEPT ![c] = Head(inbox[c]).from] /\ pc' = [pc EXCEPT ![c] = "done"]
          /\ inbox' = [inbox EXCEPT ![c] = <<>>] /\ UNCHANGED <<i, j, calm, left, go>>
      BY <1>2, <2>2 DEF Hear, Finish
    <3>3. Places' /\ There' = There
      BY <2>1, <3>2, Moves
    <3>4. Sockets'
      <4>1. <<>> \in Seq(Message) /\ Len(<<>>) <= Len(inbox[c])
        BY <2>1, Taken, EmptySeq
      <4> QED  BY <3>2, <4>1, SocketShrinks
    <3>5. Counters' /\ Replies'
      BY <3>2 DEF Typed, Places, Counters, Replies
    <3> QED  BY <3>1, <3>2, <3>3, <3>4, <3>5 DEF Typed
  <2>3. CASE Head(inbox[c]).text # Offer
    <3>1. inbox' = [inbox EXCEPT ![c] = Tail(@)] /\ WaitOver(c) /\ UNCHANGED <<calm, left, go, ip>>
      BY <1>2, <2>3 DEF Hear
    <3>2. Sockets'
      <4>1. Tail(inbox[c]) \in Seq(Message) /\ Len(Tail(inbox[c])) <= Len(inbox[c])
        BY <2>1, Taken
      <4> QED  BY <3>1, <4>1, SocketShrinks
    <3>3. Counters' /\ Replies'
      <4>1. Counters /\ Replies /\ pc \in [Node -> {"absent", "send", "wait", "listen", "reply", "down", "done"}]
        BY DEF Typed, Places
      <4>2. CASE j[c] < 2
        BY <3>1, <4>1, <4>2 DEF WaitOver, Counters, Replies
      <4>3. CASE ~ (j[c] < 2)
        <5>1. /\ i' = [i EXCEPT ![c] = @ + 1] /\ pc' = [pc EXCEPT ![c] = "send"] /\ j' = j
              /\ left' = left /\ go' = go
          BY <3>1, <4>3 DEF WaitOver
        <5>2. i[c] \in 0..2
          BY <2>1, <4>1 DEF Counters
        <5>3. Counters'
          BY <4>1, <5>1, <5>2 DEF Counters
        <5>4. Replies'
          BY <4>1, <5>1 DEF Replies
        <5> QED  BY <5>3, <5>4
      <4> QED  BY <4>2, <4>3
    <3>4. Places' /\ There' = There
      BY <1>a, <2>1, <3>1, Moves DEF WaitOver
    <3> QED  BY <3>1, <3>2, <3>3, <3>4 DEF Typed
  <2> QED  BY <2>2, <2>3
<1>3. ASSUME NEW c \in Client, HearNothing(c) PROVE Typed' /\ There' = There
  <2>1. Counters' /\ Replies'
    <3>1. CASE j[c] < 2
      BY <1>3, <3>1 DEF HearNothing, WaitOver, Typed, Places, Counters, Replies
    <3>2. CASE ~ j[c] < 2
      BY <1>3, <3>2 DEF HearNothing, WaitOver, Typed, Places, Counters, Replies
    <3> QED  BY <3>1, <3>2
  <2>2. Places' /\ There' = There
    BY <1>a, <1>3, Moves DEF HearNothing, WaitOver
  <2> QED  BY <1>a, <1>3, <2>1, <2>2 DEF HearNothing, Typed
<1>4. ASSUME NEW c \in Client, Give(c) \/ GiveUp(c) PROVE Typed' /\ There' = There
  <2>1. Finish(c) /\ pc[c] = "send" /\ UNCHANGED <<calm, i, j, ip, left, go>>
    BY <1>4 DEF Give, GiveUp
  <2>2. Places' /\ There' = There
    BY <2>1, Moves DEF Finish
  <2>3. Sockets'
    <3>1. <<>> \in Seq(Message) /\ Len(<<>>) <= Len(inbox[c])
      BY EmptySeq, LenProperties DEF Typed, Sockets
    <3> QED  BY <2>1, <3>1, SocketShrinks DEF Finish
  <2>4. Counters' /\ Replies'
    BY <2>1 DEF Finish, Typed, Places, Counters, Replies
  <2> QED  BY <2>1, <2>2, <2>3, <2>4 DEF Typed
<1>5. ASSUME NEW c \in Client, SendFails(c) PROVE Typed' /\ There' = There
  <2>1. Counters' /\ Replies'
    BY <1>5 DEF SendFails, Typed, Places, Counters, Replies
  <2> QED  BY <1>a, <1>5, <2>1 DEF SendFails, Typed
<1>6. ASSUME NEW s \in Server, Listen(s) PROVE Typed' /\ There' = There
  <2>1. inbox[s] \in Seq(Message) /\ inbox[s] # <<>> /\ pc[s] = "listen"
    BY <1>6 DEF Listen, Typed, Sockets
  <2>2. Places' /\ There' = There
    BY <1>a, <1>6, <2>1, Moves DEF Listen
  <2>3. Sockets'
    <3>1. Tail(inbox[s]) \in Seq(Message) /\ Len(Tail(inbox[s])) <= Len(inbox[s])
      BY <2>1, Taken
    <3> QED  BY <1>6, <3>1, SocketShrinks DEF Listen
  <2>4. Counters' /\ Replies'
    <3>1. CASE pc' = [pc EXCEPT ![s] = "reply"] /\ left' = [left EXCEPT ![s] = 3]
      BY <1>6, <3>1 DEF Listen, Typed, Places, Counters, Replies
    <3>2. CASE UNCHANGED <<pc, left>>
      BY <1>6, <3>2 DEF Listen, Typed, Places, Counters, Replies
    <3> QED  BY <1>6, <3>1, <3>2 DEF Listen
  <2> QED  BY <1>6, <2>2, <2>3, <2>4 DEF Listen, Typed
<1>7. ASSUME NEW s \in Server, Reply(s) PROVE Typed' /\ There' = There
  <2>1. [text |-> Offer, from |-> s] \in Message
    BY DEF Message
  <2>2. Sockets'
    BY <1>0, <1>7, <2>1, Broadcasts DEF Reply
  <2>3. Places' /\ There' = There
    BY <1>7, Moves DEF Reply
  <2>4. Counters' /\ Replies'
    BY <1>7 DEF Reply, Typed, Places, Counters, Replies
  <2> QED  BY <1>7, <2>2, <2>3, <2>4 DEF Reply, Typed
<1>8. ASSUME NEW s \in Server, Drop(s) \/ ServerEnds(s) PROVE Typed' /\ There' = There
  <2>1. PICK x \in {"down", "done"} :
          /\ pc[s] \in {"listen", "down"} /\ pc' = [pc EXCEPT ![s] = x]
          /\ inbox' = [inbox EXCEPT ![s] = <<>>] /\ UNCHANGED <<calm, i, j, ip, left, go>>
    BY <1>8 DEF Drop, ServerEnds
  <2>2. Places' /\ There' = There
    BY <2>1, Moves
  <2>3. Sockets'
    <3>1. <<>> \in Seq(Message) /\ Len(<<>>) <= Len(inbox[s])
      BY EmptySeq, LenProperties DEF Typed, Sockets
    <3> QED  BY <2>1, <3>1, SocketShrinks
  <2>4. Counters' /\ Replies'
    BY <2>1 DEF Typed, Places, Counters, Replies
  <2> QED  BY <2>1, <2>2, <2>3, <2>4 DEF Typed
<1>9. ASSUME NEW s \in Server, Quit(s) \/ Rebind(s) \/ SocketFails(s)
      PROVE  Typed' /\ There' = There
  <2>1. Places' /\ There' = There
    BY <1>a, <1>9, Moves DEF Quit, Rebind, SocketFails
  <2>2. Counters' /\ Replies'
    BY <1>9 DEF Quit, Rebind, SocketFails, Typed, Places, Counters, Replies
  <2> QED  BY <1>a, <1>9, <2>1, <2>2 DEF Quit, Rebind, SocketFails, Typed
<1>10. CASE UNCHANGED discoveryVars
  BY <1>a, <1>10 DEF discoveryVars, Typed, Counters, Replies
<1> QED
  BY <1>1, <1>2, <1>3, <1>4, <1>5, <1>6, <1>7, <1>8, <1>9, <1>10
     DEF DiscoveryNext, ClientStep, ServerStep

LEMMA TextsDiffer == Ask # Offer
BY DEF Ask, Offer

\* What a socket holds is a sequence of messages, each an ask or an offer.
LEMMA InSocket ==
  ASSUME Typed, NEW n \in Node
  PROVE  /\ inbox[n] \in Seq(Message) /\ Len(inbox[n]) \in Nat
         /\ DOMAIN inbox[n] = 1..Len(inbox[n])
         /\ \A k \in 1..Len(inbox[n]) : inbox[n][k].text \in {Ask, Offer}
<1>1. inbox[n] \in Seq(Message)
  BY DEF Typed, Sockets
<1>2. \A k \in 1..Len(inbox[n]) : inbox[n][k] \in Message
  BY <1>1
<1> QED  BY <1>1, <1>2, LenProperties DEF Message

\* Whoever has asked is never left without anything to hear.
LEMMA NeverSilent ==
  ASSUME Typed, Fine, Answered, NEW c \in Client
  PROVE  ~ HearNothing(c)
<1> SUFFICES ASSUME HearNothing(c) PROVE FALSE
  OBVIOUS
<1>1. PICK s \in Server : pc[s] # "absent"
  BY DEF Fine
<1>2. HasAsked(c) /\ ~ Holds(c, Offer)
  BY EmptySeq DEF HearNothing, HasAsked, Holds
<1>3. pc[s] = "reply" \/ Holds(s, Ask)
  BY <1>1, <1>2 DEF Answered
<1>4. Answering
  BY <1>3 DEF Answering, Holds
<1> QED  BY <1>4 DEF HearNothing, Fine

\* Nine waits are not used up by six asks.
LEMMA NeverGivesUp ==
  ASSUME TwoAtMost, Typed, Accounted, NEW c \in Client
  PROVE  ~ GiveUp(c)
<1> SUFFICES ASSUME GiveUp(c) PROVE FALSE
  OBVIOUS
<1>1. PICK d \in Client : There \cap Client \subseteq {c, d}
  <2>1. c \in There /\ There \in Cast
    BY DEF GiveUp, There, Node, Typed, Places
  <2>2. \A a, b \in There \cap Client : a = b \/ b = c \/ a = c
    BY <2>1 DEF TwoAtMost
  <2>3. CASE \E d \in There \cap Client : d # c
    BY <2>2, <2>3
  <2>4. CASE ~ \E d \in There \cap Client : d # c
    BY <2>4
  <2> QED  BY <2>3, <2>4
<1>2. Len(inbox[c]) \in Nat
  BY InSocket DEF Node
<1>3. Waits(c) + 0 <= Asks(c) + Asks(d)
  BY <1>1, <1>2 DEF Accounted, GiveUp
<1>4. Waits(c) = 9 /\ Asks(c) = 3
  BY DEF GiveUp, Waits, Asks
<1>5. Asks(d) <= 3 /\ Asks(d) \in Int
  BY DEF Asks, Typed, Counters
<1> QED  BY <1>3, <1>4, <1>5

\* A message that reached n's socket is the last one there.
LEMMA Reached ==
  ASSUME Typed, NEW n \in Node, NEW m \in Message, inbox'[n] = Append(inbox[n], m)
  PROVE  /\ inbox'[n] \in Seq(Message) /\ Len(inbox'[n]) = Len(inbox[n]) + 1
         /\ inbox'[n][Len(inbox[n]) + 1] = m
         /\ \A k \in 1..Len(inbox[n]) : inbox'[n][k] = inbox[n][k]
<1>1. inbox[n] \in Seq(Message)
  BY InSocket
<1> QED  BY <1>1, AppendProperties

LEMMA FineSendAsk ==
  ASSUME Typed, Fine, Serving, Answered, Accounted, Found,
         NEW c \in Client, SendAsk(c)
  PROVE  Serving' /\ Answered' /\ Accounted' /\ Found'
<1> USE DEF Node
<1>0. Typed /\ pc[c] = "send" /\ i[c] \in 0..2
  BY DEF SendAsk, Typed, Counters
<1> DEFINE m == [text |-> Ask, from |-> c]
<1>1. \A n \in Bound : /\ inbox'[n] = Append(inbox[n], m) /\ inbox'[n] \in Seq(Message)
                         /\ Len(inbox'[n]) = Len(inbox[n]) + 1
                         /\ inbox'[n][Len(inbox[n]) + 1].text = Ask
                         /\ \A k \in 1..Len(inbox[n]) : inbox'[n][k] = inbox[n][k]
  <2>1. m \in Message /\ UNCHANGED calm /\ calm
    BY DEF Message, SendAsk, Fine
  <2>2. \A n \in Bound : n \in Node /\ inbox'[n] = Append(inbox[n], m)
    BY <2>1, Broadcasts DEF SendAsk, Bound
  <2>3. m.text = Ask
    OBVIOUS
  <2> HIDE DEF m
  <2> QED  BY <2>1, <2>2, <2>3, Reached
<1>2. /\ pc' = [pc EXCEPT ![c] = "wait"] /\ UNCHANGED <<i, ip, go>>
      /\ j' = [j EXCEPT ![c] = 0]
  BY DEF SendAsk
<1>3. Serving' /\ Found'
  BY <1>2, DiscoveryAssumption DEF Serving, Found, Typed, Places
<1>4. Answered'
  <2> SUFFICES ASSUME NEW s \in Server, pc'[s] # "absent" PROVE Holds(s, Ask)'
    BY DEF Answered
  <2>1. s \in Bound
    BY <1>2, DiscoveryAssumption DEF Bound, Serving, Typed, Places
  <2>2. Len(inbox[s]) + 1 \in DOMAIN inbox'[s]
    BY <1>1, <2>1, InSocket
  <2> QED  BY <1>1, <2>1, <2>2 DEF Holds
<1>5. Accounted'
  <2> SUFFICES ASSUME NEW a \in Client, NEW b \in Client, (There \cap Client \subseteq {a, b})',
                      pc'[a] \in {"send", "wait"}, NEW k \in 0..Len(inbox'[a]),
                      \A l \in 1..k : inbox'[a][l].text = Ask
               PROVE  (Waits(a) + k <= Asks(a) + Asks(b))'
    BY DEF Accounted
  <2>1. pc[a] \in {"send", "wait"} /\ a \in Bound
    BY <1>0, <1>2 DEF Bound, Typed, Places
  <2>2. There' = There /\ c \in {a, b}
    BY <1>0, <1>2 DEF There, Typed, Places
  <2>3. Len(inbox[a]) \in Nat
    BY InSocket
  <2> DEFINE h == IF k <= Len(inbox[a]) THEN k ELSE Len(inbox[a])
  <2>4. h \in 0..Len(inbox[a]) /\ k <= h + 1 /\ \A l \in 1..h : inbox[a][l].text = Ask
    BY <1>1, <2>1, <2>3
  <2>5. Waits(a) + h <= Asks(a) + Asks(b)
    BY <2>1, <2>2, <2>4 DEF Accounted
  <2>6. Waits(a)' = Waits(a) /\ Waits(a) \in Int
    BY <1>0, <1>2 DEF Waits, Typed, Counters, Places
  <2>7. \A d \in Client : /\ Asks(d)' = IF d = c THEN Asks(d) + 1 ELSE Asks(d)
                          /\ Asks(d) \in Int
    BY <1>0, <1>2 DEF Asks, Typed, Counters, Places
  <2> HIDE DEF h
  <2> QED  BY <2>2, <2>4, <2>5, <2>6, <2>7
<1> QED  BY <1>3, <1>4, <1>5

LEMMA FineHear ==
  ASSUME Typed, Fine, Serving, Answered, Accounted, Found,
         NEW c \in Client, Hear(c)
  PROVE  Serving' /\ Answered' /\ Accounted' /\ Found'
<1> USE DEF Node
<1> DEFINE q == inbox[c]
<1>0. /\ pc[c] = "wait" /\ i[c] \in 0..2 /\ j[c] \in 0..2 /\ q \in Seq(Message) /\ q # <<>>
      /\ UNCHANGED <<calm, left, go>>
  BY DEF Hear, Typed, Counters, Sockets
<1>1. CASE Head(q).text = Offer
  <2>1. Head(q).from \in Server
    BY <1>0, <1>1, Taken DEF Message, Offer, Ask
  <2>2. /\ ip' = [ip EXCEPT ![c] = Head(q).from] /\ pc' = [pc EXCEPT ![c] = "done"]
        /\ inbox' = [inbox EXCEPT ![c] = <<>>] /\ UNCHANGED <<i, j>>
    BY <1>1 DEF Hear, Finish
  <2>3. Serving' /\ Found'
    BY <1>0, <2>1, <2>2, DiscoveryAssumption DEF Serving, Found, Typed, Places
  <2>4. Answered'
    <3> SUFFICES ASSUME NEW d \in Client, NEW s \in Server, HasAsked(d)', pc'[s] # "absent"
                 PROVE  (Holds(d, Offer) \/ pc[s] = "reply" \/ Holds(s, Ask))'
      BY DEF Answered
    <3>1. d # c /\ s # c
      BY <2>2, DiscoveryAssumption DEF HasAsked, Typed, Places
    <3>2. \A n \in Node \ {c} : pc'[n] = pc[n] /\ inbox'[n] = inbox[n]
      BY <2>2 DEF Typed, Places, Sockets
    <3>3. HasAsked(d) /\ pc[s] # "absent"
      BY <2>2, <3>1, <3>2 DEF HasAsked
    <3> QED  BY <3>1, <3>2, <3>3 DEF Answered, Holds
  <2>5. Accounted'
    <3> SUFFICES ASSUME NEW a \in Client, NEW b \in Client, (There \cap Client \subseteq {a, b})',
                        pc'[a] \in {"send", "wait"}, NEW k \in 0..Len(inbox'[a]),
                        \A l \in 1..k : inbox'[a][l].text = Ask
                 PROVE  (Waits(a) + k <= Asks(a) + Asks(b))'
      BY DEF Accounted
    <3>1. a # c /\ pc[a] = pc'[a] /\ There' = There
      BY <1>0, <2>2 DEF There, Typed, Places
    <3>2. inbox'[a] = inbox[a]
      BY <2>2, <3>1 DEF Typed, Sockets
    <3>3. Waits(a)' = Waits(a) /\ Waits(a) \in Int
      BY <2>2, <3>1 DEF Waits, Typed, Counters
    <3>4. Waits(a) + k <= Asks(a) + Asks(b)
      BY <3>1, <3>2 DEF Accounted
    <3>5. \A d \in Client : Asks(d)' >= Asks(d) /\ Asks(d) \in Int /\ Asks(d)' \in Int
      BY <1>0, <2>2 DEF Asks, Typed, Counters, Places
    <3> QED  BY <3>2, <3>3, <3>4, <3>5
  <2> QED  BY <2>3, <2>4, <2>5
<1>2. CASE Head(q).text # Offer
  <2>1. inbox' = [inbox EXCEPT ![c] = Tail(@)] /\ WaitOver(c) /\ UNCHANGED ip
    BY <1>2 DEF Hear
  <2>2. /\ Tail(q) \in Seq(Message) /\ Len(Tail(q)) = Len(q) - 1 /\ Len(q) \in Nat \ {0}
        /\ q[1].text = Ask /\ inbox'[c] = Tail(q)
        /\ \A k \in 1..Len(q) - 1 : Tail(q)[k] = q[k + 1]
    BY <1>0, <1>2, <2>1, Taken DEF Message, Typed, Sockets
  <2>3. /\ \A n \in Node \ {c} : pc'[n] = pc[n] /\ inbox'[n] = inbox[n]
        /\ \A d \in Client \ {c} : i'[d] = i[d] /\ j'[d] = j[d]
        /\ pc'[c] \in {"send", "wait"}
    BY <1>0, <2>1 DEF WaitOver, Typed, Places, Sockets, Counters
  <2>4. Serving' /\ Found'
    BY <1>0, <2>1, <2>3, DiscoveryAssumption DEF Serving, Found
  <2>5. Answered'
    <3> SUFFICES ASSUME NEW d \in Client, NEW s \in Server, HasAsked(d)', pc'[s] # "absent"
                 PROVE  (Holds(d, Offer) \/ pc[s] = "reply" \/ Holds(s, Ask))'
      BY DEF Answered
    <3>1. HasAsked(d) /\ pc'[s] = pc[s] /\ inbox'[s] = inbox[s]
      BY <1>0, <2>3, DiscoveryAssumption DEF HasAsked
    <3>2. Holds(d, Offer) => Holds(d, Offer)'
      <4>1. CASE d = c
        <5> SUFFICES ASSUME NEW k \in DOMAIN q, q[k].text = Offer
                     PROVE  \E l \in DOMAIN Tail(q) : Tail(q)[l].text = Offer
          BY <2>2, <4>1 DEF Holds
        <5>1. k \in 2..Len(q) /\ DOMAIN Tail(q) = 1..Len(q) - 1
          BY <2>2, TextsDiffer, InSocket
        <5>2. k - 1 \in DOMAIN Tail(q) /\ Tail(q)[k - 1] = q[k]
          BY <2>2, <5>1
        <5> QED  BY <5>2
      <4>2. CASE d # c
        BY <2>3, <4>2 DEF Holds
      <4> QED  BY <4>1, <4>2
    <3> QED  BY <3>1, <3>2 DEF Answered, Holds
  <2>6. Accounted'
    <3> SUFFICES ASSUME NEW a \in Client, NEW b \in Client, (There \cap Client \subseteq {a, b})',
                        pc'[a] \in {"send", "wait"}, NEW k \in 0..Len(inbox'[a]),
                        \A l \in 1..k : inbox'[a][l].text = Ask
                 PROVE  (Waits(a) + k <= Asks(a) + Asks(b))'
      BY DEF Accounted
    <3>1. There' = There /\ pc[a] \in {"send", "wait"}
      BY <1>0, <2>3 DEF There
    <3>2. \A d \in Client : Asks(d)' = Asks(d) /\ Asks(d) \in Int
      <4>1. Asks(c)' = Asks(c) /\ Asks(c) \in Int
        <5>1. CASE j[c] < 2
          BY <1>0, <2>1, <5>1 DEF WaitOver, Asks, Typed, Counters, Places
        <5>2. CASE ~ j[c] < 2
          BY <1>0, <2>1, <5>2 DEF WaitOver, Asks, Typed, Counters, Places
        <5> QED  BY <5>1, <5>2
      <4>2. ASSUME NEW d \in Client \ {c} PROVE Asks(d)' = Asks(d) /\ Asks(d) \in Int
        BY <2>3 DEF Asks, Typed, Counters
      <4> QED  BY <4>1, <4>2
    <3>3. CASE a = c
      <4>1. k + 1 \in 0..Len(q) /\ k \in Nat /\ \A l \in 1..k + 1 : q[l].text = Ask
        <5>1. k \in 0..Len(q) - 1
          BY <2>2, <3>3
        <5>2. ASSUME NEW l \in 1..k + 1, l # 1 PROVE q[l].text = Ask
          <6>1. l - 1 \in 1..k /\ l - 1 \in 1..Len(q) - 1 /\ (l - 1) + 1 = l
            BY <2>2, <5>1, <5>2
          <6> QED  BY <2>2, <3>3, <6>1
        <5> QED  BY <2>2, <5>1, <5>2
      <4>2. Waits(c) + (k + 1) <= Asks(a) + Asks(b)
        BY <3>1, <3>3, <4>1 DEF Accounted
      <4>3. Waits(c)' = Waits(c) + 1 /\ Waits(c) \in Int
        <5>1. CASE j[c] < 2
          BY <1>0, <2>1, <5>1 DEF WaitOver, Waits, Typed, Counters, Places
        <5>2. CASE ~ j[c] < 2
          BY <1>0, <2>1, <5>2 DEF WaitOver, Waits, Typed, Counters, Places
        <5> QED  BY <5>1, <5>2
      <4> QED  BY <3>2, <3>3, <4>1, <4>2, <4>3
    <3>4. CASE a # c
      <4>1. inbox'[a] = inbox[a] /\ Waits(a)' = Waits(a)
        BY <2>3, <3>4 DEF Waits
      <4>2. Waits(a) + k <= Asks(a) + Asks(b)
        BY <3>1, <4>1 DEF Accounted
      <4> QED  BY <3>2, <4>1, <4>2
    <3> QED  BY <3>3, <3>4
  <2> QED  BY <2>4, <2>5, <2>6
<1> QED  BY <1>1, <1>2

LEMMA FineListen ==
  ASSUME Typed, Fine, Serving, Answered, Accounted, Found,
         NEW s \in Server, Listen(s)
  PROVE  Serving' /\ Answered' /\ Accounted' /\ Found'
<1> USE DEF Node
<1>1. /\ UNCHANGED <<calm, i, j, ip, go>> /\ inbox' = [inbox EXCEPT ![s] = Tail(@)]
      /\ pc[s] = "listen" /\ inbox[s] # <<>>
      /\ IF IsCall(Head(inbox[s])) THEN pc' = [pc EXCEPT ![s] = "reply"] ELSE UNCHANGED pc
  BY DEF Listen
<1>2. /\ \A n \in Node \ {s} : pc'[n] = pc[n] /\ inbox'[n] = inbox[n]
      /\ \A c \in Client : c # s
      /\ pc'[s] \in {"listen", "reply"}
  BY <1>1, DiscoveryAssumption DEF Typed, Places, Sockets
<1>3. Serving' /\ Found'
  BY <1>1, <1>2 DEF Serving, Found
<1>4. Answered'
  <2> SUFFICES ASSUME NEW d \in Client, NEW t \in Server, HasAsked(d)', pc'[t] # "absent"
               PROVE  (Holds(d, Offer) \/ pc[t] = "reply" \/ Holds(t, Ask))'
    BY DEF Answered
  <2>1. HasAsked(d) /\ (Holds(d, Offer) => Holds(d, Offer)')
    BY <1>1, <1>2 DEF HasAsked, Holds
  <2>2. CASE t # s
    BY <1>2, <2>1, <2>2 DEF Answered, Holds
  <2>3. CASE t = s /\ Head(inbox[s]).text = Ask
    BY <1>1, <2>3 DEF IsCall, Typed, Places
  <2>4. CASE t = s /\ Head(inbox[s]).text # Ask
    <3>1. Holds(d, Offer) \/ Holds(s, Ask)
      BY <1>1, <2>1 DEF Answered
    <3>2. ASSUME NEW k \in DOMAIN inbox[s], inbox[s][k].text = Ask
          PROVE  Holds(s, Ask)'
      <4>1. /\ Tail(inbox[s]) \in Seq(Message) /\ Len(Tail(inbox[s])) = Len(inbox[s]) - 1
            /\ Head(inbox[s]) = inbox[s][1] /\ Len(inbox[s]) \in Nat
            /\ \A l \in 1..Len(inbox[s]) - 1 : Tail(inbox[s])[l] = inbox[s][l + 1]
            /\ DOMAIN inbox[s] = 1..Len(inbox[s])
        BY <1>1, InSocket, Taken
      <4>2. k \in 2..Len(inbox[s]) /\ DOMAIN Tail(inbox[s]) = 1..Len(inbox[s]) - 1
        BY <2>4, <3>2, <4>1
      <4>3. k - 1 \in DOMAIN Tail(inbox[s]) /\ Tail(inbox[s])[k - 1] = inbox[s][k]
        BY <4>1, <4>2
      <4>4. inbox'[s] = Tail(inbox[s])
        BY <1>1 DEF Typed, Sockets
      <4> QED  BY <3>2, <4>3, <4>4 DEF Holds
    <3> QED  BY <2>1, <2>4, <3>1, <3>2 DEF Holds
  <2> QED  BY <2>2, <2>3, <2>4
<1>5. Accounted'
  <2>1. There' = There
    BY <1>1, <1>2 DEF There
  <2>2. \A c \in Client : /\ Waits(c)' = Waits(c) /\ Asks(c)' = Asks(c)
                          /\ pc'[c] = pc[c] /\ inbox'[c] = inbox[c]
    BY <1>1, <1>2 DEF Waits, Asks
  <2> QED  BY <2>1, <2>2 DEF Accounted
<1> QED  BY <1>3, <1>4, <1>5

LEMMA FineReply ==
  ASSUME Typed, Fine, Serving, Answered, Accounted, Found,
         NEW s \in Server, Reply(s)
  PROVE  Serving' /\ Answered' /\ Accounted' /\ Found'
<1> USE DEF Node
<1> DEFINE m == [text |-> Offer, from |-> s]
<1>1. \A c \in Client : c \in Bound =>
        /\ inbox'[c] \in Seq(Message) /\ Len(inbox'[c]) = Len(inbox[c]) + 1
        /\ inbox'[c][Len(inbox[c]) + 1].text = Offer
        /\ \A k \in 1..Len(inbox[c]) : inbox'[c][k] = inbox[c][k]
  <2>1. m \in Message /\ UNCHANGED calm /\ calm
    BY DEF Message, Reply, Fine
  <2>2. \A n \in Bound : n \in Node /\ inbox'[n] = Append(inbox[n], m)
    BY <2>1, Broadcasts DEF Reply, Bound
  <2>3. m.text = Offer
    OBVIOUS
  <2> HIDE DEF m
  <2> QED  BY <2>1, <2>2, <2>3, Reached
<1>2. /\ UNCHANGED <<calm, i, j, ip, go>> /\ pc[s] = "reply"
      /\ \A n \in Node \ {s} : pc'[n] = pc[n]
      /\ \A c \in Client : c # s /\ pc'[c] = pc[c]
      /\ pc'[s] \in {"listen", "reply"}
  BY DiscoveryAssumption DEF Reply, Typed, Places
<1>3. Serving' /\ Found'
  BY <1>2 DEF Serving, Found
<1>4. Answered'
  <2> SUFFICES ASSUME NEW d \in Client, HasAsked(d)' PROVE Holds(d, Offer)'
    BY DEF Answered
  <2>1. d \in Bound
    BY <1>2 DEF HasAsked, Bound
  <2>2. Len(inbox[d]) + 1 \in DOMAIN inbox'[d]
    BY <1>1, <2>1, InSocket
  <2> QED  BY <1>1, <2>1, <2>2 DEF Holds
<1>5. Accounted'
  <2> SUFFICES ASSUME NEW a \in Client, NEW b \in Client, (There \cap Client \subseteq {a, b})',
                      pc'[a] \in {"send", "wait"}, NEW k \in 0..Len(inbox'[a]),
                      \A l \in 1..k : inbox'[a][l].text = Ask
               PROVE  (Waits(a) + k <= Asks(a) + Asks(b))'
    BY DEF Accounted
  <2>1. a \in Bound /\ There' = There /\ Len(inbox[a]) \in Nat /\ pc'[a] = pc[a]
    BY <1>2, InSocket DEF Bound, There
  <2>2. k \in 0..Len(inbox[a]) /\ \A l \in 1..k : inbox[a][l].text = Ask
    <3>1. Len(inbox'[a]) = Len(inbox[a]) + 1 /\ inbox'[a][Len(inbox[a]) + 1].text = Offer
          /\ \A l \in 1..Len(inbox[a]) : inbox'[a][l] = inbox[a][l]
      BY <1>1, <2>1
    <3>2. k # Len(inbox[a]) + 1
      BY <2>1, <3>1, TextsDiffer
    <3>3. k \in 0..Len(inbox[a]) /\ \A l \in 1..k : l \in 1..Len(inbox[a])
      BY <2>1, <3>1, <3>2
    <3> QED  BY <3>1, <3>3
  <2>3. Waits(a)' = Waits(a) /\ Asks(a)' = Asks(a) /\ Asks(b)' = Asks(b)
    BY <1>2 DEF Waits, Asks
  <2> QED  BY <2>1, <2>2, <2>3 DEF Accounted
<1> QED  BY <1>3, <1>4, <1>5

LEMMA SearchStep ==
  ASSUME TwoAtMost, SearchInv, [DiscoveryNext]_discoveryVars
  PROVE  SearchInv'
<1>1. Typed' /\ There' = There
  BY TypedStep DEF SearchInv
<1>2. SUFFICES ASSUME Fine' PROVE Serving' /\ Answered' /\ Accounted' /\ Found'
  BY <1>1 DEF SearchInv
<1>3. Fine /\ calm
  <2>1. UNCHANGED calm
    BY DEF DiscoveryNext, ClientStep, ServerStep, SendAsk, Hear, HearNothing, Give,
           GiveUp, SendFails, Listen, Reply, Drop, Rebind, SocketFails, ServerEnds,
         Quit, discoveryVars
  <2> QED  BY <1>1, <1>2, <2>1 DEF Fine, There, Node
<1>4. Typed /\ Serving /\ Answered /\ Accounted /\ Found
  BY <1>3 DEF SearchInv
<1>5. ASSUME NEW c \in Client, ClientStep(c)
      PROVE  Serving' /\ Answered' /\ Accounted' /\ Found'
  <2>1. SendAsk(c) \/ Hear(c)
    BY <1>3, <1>4, <1>5, NeverSilent, NeverGivesUp DEF ClientStep, Give, SendFails
  <2> QED  BY <1>3, <1>4, <2>1, FineSendAsk, FineHear
<1>6. ASSUME NEW s \in Server, ServerStep(s)
      PROVE  Serving' /\ Answered' /\ Accounted' /\ Found'
  <2>1. Listen(s) \/ Reply(s)
    BY <1>4, <1>6 DEF ServerStep, Rebind, ServerEnds, Serving
  <2> QED  BY <1>3, <1>4, <2>1, FineListen, FineReply
<1>7. CASE UNCHANGED discoveryVars
  <2>1. UNCHANGED <<calm, pc, i, j, ip, go, inbox>>
    BY <1>7 DEF discoveryVars
  <2> QED  BY <1>1, <1>4, <2>1 DEF Serving, Answered, Accounted, Found, HasAsked, Holds, Waits, Asks
<1> QED  BY <1>3, <1>5, <1>6, <1>7 DEF DiscoveryNext, Drop, Quit, SocketFails

\* On a day without losses, with a server there that stays and at most two programs that
\* search, none of them falls back to 127.0.0.1, in whatever order the questions and the
\* answers are heard: a search has nine waits (ip_discovery.cpp:39 and 48), the two of them
\* ask six times, and a wait never ends with nothing heard.
THEOREM ServerFoundAlways ==
  ASSUME TwoAtMost
  PROVE  DiscoverySpec => []ServerFound
<1>1. DiscoveryInit => SearchInv
  BY SearchInit
<1>2. SearchInv /\ [DiscoveryNext]_discoveryVars => SearchInv'
  BY SearchStep
<1>3. SearchInv => ServerFound
  BY DEF SearchInv, Fine, Found, ServerFound
<1> QED  BY <1>1, <1>2, <1>3, PTL DEF DiscoverySpec

\* Every variable of the search has its type, on any day and for any number of programs.
THEOREM SearchTypeOKAlways == DiscoverySpec => []TypeOK
<1>1. DiscoveryInit => Typed
  BY SearchInit DEF SearchInv
<1>2. Typed /\ [DiscoveryNext]_discoveryVars => Typed'
  BY TypedStep
<1> QED  BY <1>1, <1>2, TypedIsTypeOK, PTL DEF DiscoverySpec
===============================================================================
