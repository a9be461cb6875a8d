----------------------------- MODULE BridgeProofs -----------------------------
(***************************************************************************)
(* Theorems about Bridge, for every set of programs, names and values and  *)
(* every delay of the lines between the servers.  Each server is the       *)
(* Broker of BrokerProofs, with Link among its clients: what is proved     *)
(* there, of a server and of two of them joined by two queues, is cited    *)
(* for the local one (LP) and for the remote one (RP).                     *)
(***************************************************************************)
EXTENDS Bridge, TLAPS, SequenceTheorems

LP == INSTANCE BrokerProofs WITH
  Client <- Near \cup {Link}, Event <- {}, Petition <- Name,
  Matches <- [p \in Name |-> {p}],
  clients <- lclients, registers <- lregisters, petitioners <- lpetitioners,
  notified <- lnotified, parameters <- lparameters, value <- lvalue,
  providers <- lproviders, subscribers <- lsubscribers, sent <- lsent,
  received <- lreceived, offered <- loffered

RP == INSTANCE BrokerProofs WITH
  Client <- Far \cup {Link}, Event <- {}, Petition <- Name,
  Matches <- [p \in Name |-> {p}],
  clients <- rclients, registers <- rregisters, petitioners <- rpetitioners,
  notified <- rnotified, parameters <- rparameters, value <- rvalue,
  providers <- rproviders, subscribers <- rsubscribers, sent <- rsent,
  received <- rreceived, offered <- roffered

\* What is assumed of each server is what is assumed where the theorems cited are proved.
LEMMA Assumed ==
  /\ LP!BrokerAssumption /\ LP!LinesAssumption
  /\ RP!BrokerAssumption /\ RP!LinesAssumption
BY ServersAssumption
   DEF L!BrokerAssumption, LP!BrokerAssumption, L!LinesAssumption, LP!LinesAssumption,
       R!BrokerAssumption, RP!BrokerAssumption, R!LinesAssumption, RP!LinesAssumption,
       L!IsFiniteSet, LP!IsFiniteSet, R!IsFiniteSet, RP!IsFiniteSet
-------------------------------------------------------------------------------
(* A step of Lines is the same step in BrokerProofs.                       *)

LEMMA SameInit == (L!Init => LP!Init) /\ (R!Init => RP!Init)
BY DEF L!Init, LP!Init, L!Initial, LP!Initial, R!Init, RP!Init, R!Initial, RP!Initial

LEMMA LocalValue == \A p : L!Value(p) = LP!Value(p)
BY DEF L!Value, LP!Value

LEMMA LocalAddClient ==
  ASSUME NEW c, L!AddClient(c)
  PROVE  LP!AddClient(c)
BY DEF L!AddClient, LP!AddClient

LEMMA LocalAddRegisterPetition ==
  ASSUME NEW c, NEW p, L!AddRegisterPetition(c, p)
  PROVE  LP!AddRegisterPetition(c, p)
BY DEF L!AddRegisterPetition, LP!AddRegisterPetition, L!WithRegister,
       LP!WithRegister, L!Outdated, LP!Outdated, L!OutOfDate, LP!OutOfDate,
       L!AfterSend, LP!AfterSend, L!Abs, LP!Abs, L!Initial, LP!Initial

LEMMA LocalSetValue ==
  ASSUME NEW c, NEW p, NEW v, L!SetValue(c, p, v)
  PROVE  LP!SetValue(c, p, v)
BY DEF L!SetValue, LP!SetValue, L!SubscribersOf, LP!SubscribersOf, L!RecordsOf,
       LP!RecordsOf, L!Interested, LP!Interested, L!Outdated, LP!Outdated,
       L!OutOfDate, LP!OutOfDate, L!AfterSend, LP!AfterSend, L!Abs, LP!Abs,
       L!Initial, LP!Initial

LEMMA LocalRemoveRegisterPetition ==
  ASSUME NEW c, NEW p, L!RemoveRegisterPetition(c, p)
  PROVE  LP!RemoveRegisterPetition(c, p)
BY DEF L!RemoveRegisterPetition, LP!RemoveRegisterPetition, L!Unsubscribed,
       LP!Unsubscribed, L!Unwanted, LP!Unwanted, L!EmptyRegisters, LP!EmptyRegisters,
       L!Discard, LP!Discard, L!Withdrawn, LP!Withdrawn, L!Silenced, LP!Silenced,
       L!Initial, LP!Initial

LEMMA LocalRemoveClient ==
  ASSUME NEW c, L!RemoveClient(c)
  PROVE  LP!RemoveClient(c)
BY DEF L!RemoveClient, LP!RemoveClient, L!Without, LP!Without, L!Unsubscribed,
       LP!Unsubscribed, L!Unwanted, LP!Unwanted, L!EmptyRegisters, LP!EmptyRegisters,
       L!Unprovided, LP!Unprovided, L!Orphans, LP!Orphans, L!Discard, LP!Discard,
       L!Withdrawn, LP!Withdrawn, L!Silenced, LP!Silenced, L!Initial, LP!Initial

LEMMA LocalWritten == L!Written(Link) = LP!Written(Link)
BY DEF L!Written, LP!Written, L!Register, LP!Register, L!Unregister, LP!Unregister,
       L!Assign, LP!Assign, L!Updates, LP!Updates, L!SetToSeq, LP!SetToSeq,
       L!IsInjective, LP!IsInjective, L!Cardinality, LP!Cardinality

LEMMA RemoteValue == \A p : R!Value(p) = RP!Value(p)
BY DEF R!Value, RP!Value

LEMMA RemoteAddClient ==
  ASSUME NEW c, R!AddClient(c)
  PROVE  RP!AddClient(c)
BY DEF R!AddClient, RP!AddClient

LEMMA RemoteAddRegisterPetition ==
  ASSUME NEW c, NEW p, R!AddRegisterPetition(c, p)
  PROVE  RP!AddRegisterPetition(c, p)
BY DEF R!AddRegisterPetition, RP!AddRegisterPetition, R!WithRegister,
       RP!WithRegister, R!Outdated, RP!Outdated, R!OutOfDate, RP!OutOfDate,
       R!AfterSend, RP!AfterSend, R!Abs, RP!Abs, R!Initial, RP!Initial

LEMMA RemoteSetValue ==
  ASSUME NEW c, NEW p, NEW v, R!SetValue(c, p, v)
  PROVE  RP!SetValue(c, p, v)
BY DEF R!SetValue, RP!SetValue, R!SubscribersOf, RP!SubscribersOf, R!RecordsOf,
       RP!RecordsOf, R!Interested, RP!Interested, R!Outdated, RP!Outdated,
       R!OutOfDate, RP!OutOfDate, R!AfterSend, RP!AfterSend, R!Abs, RP!Abs,
       R!Initial, RP!Initial

LEMMA RemoteRemoveRegisterPetition ==
  ASSUME NEW c, NEW p, R!RemoveRegisterPetition(c, p)
  PROVE  RP!RemoveRegisterPetition(c, p)
BY DEF R!RemoveRegisterPetition, RP!RemoveRegisterPetition, R!Unsubscribed,
       RP!Unsubscribed, R!Unwanted, RP!Unwanted, R!EmptyRegisters, RP!EmptyRegisters,
       R!Discard, RP!Discard, R!Withdrawn, RP!Withdrawn, R!Silenced, RP!Silenced,
       R!Initial, RP!Initial

LEMMA RemoteRemoveClient ==
  ASSUME NEW c, R!RemoveClient(c)
  PROVE  RP!RemoveClient(c)
BY DEF R!RemoveClient, RP!RemoveClient, R!Without, RP!Without, R!Unsubscribed,
       RP!Unsubscribed, R!Unwanted, RP!Unwanted, R!EmptyRegisters, RP!EmptyRegisters,
       R!Unprovided, RP!Unprovided, R!Orphans, RP!Orphans, R!Discard, RP!Discard,
       R!Withdrawn, RP!Withdrawn, R!Silenced, RP!Silenced, R!Initial, RP!Initial

LEMMA RemoteWritten == R!Written(Link) = RP!Written(Link)
BY DEF R!Written, RP!Written, R!Register, RP!Register, R!Unregister, RP!Unregister,
       R!Assign, RP!Assign, R!Updates, RP!Updates, R!SetToSeq, RP!SetToSeq,
       R!IsInjective, RP!IsInjective, R!Cardinality, RP!Cardinality
-------------------------------------------------------------------------------
(* What holds in every state.                                              *)

Here == LP!Side(Link)
There == RP!Side(Link)

BridgeInv ==
  /\ LP!Ready /\ RP!Ready
  /\ LP!Met(Here, There, toR, toL)
  /\ Link \in rclients => Link \in lclients
  /\ Link \notin lclients => lclients = {}

LEMMA InvInit == Init => BridgeInv
<1> SUFFICES ASSUME Init PROVE BridgeInv
  OBVIOUS
<1>1. LP!Ready /\ RP!Ready
  BY SameInit, LP!ReadyInit, RP!ReadyInit, Assumed DEF Init
<1>2. Here.offered = {} /\ Here.asked = {} /\ Here.given = {} /\ Here.held = {}
  BY DEF Init, L!Init, Here, LP!Side
<1>3. There.offered = {} /\ There.asked = {} /\ There.given = {} /\ There.held = {}
  BY DEF Init, R!Init, There, RP!Side
<1>4. toL = <<>> /\ toR = <<>> /\ <<>> \in Seq(LP!LinkLine) /\ DOMAIN <<>> = {}
  BY EmptySeq DEF Init
<1>5. LP!Met(Here, There, toR, toL)
  BY <1>2, <1>3, <1>4 DEF LP!Met, LP!Asked, LP!Passed, LP!Agreed, LP!Has, LP!Ends, LP!Turns, LP!Silent
<1> QED  BY <1>1, <1>5 DEF BridgeInv, Init, L!Init, R!Init
-------------------------------------------------------------------------------
(* A step of either server, and what it means for the line.                *)

LEMMA LocalStep ==
  ASSUME BridgeInv, NEW c \in Near \cup {Link}, LP!Uses(c), Link \in lclients => Link \in lclients'
  PROVE  LP!Ready' /\ LP!Step(Here, Here', L!Written(Link)) /\ Here'.held \subseteq Name
<1>1. LP!Ready'
  BY LP!ReadyStep, Assumed DEF BridgeInv
<1>2. LP!Step(LP!Side(Link), LP!Side(Link)', LP!Written(Link)) /\ lparameters' \subseteq Name
  BY <1>1, LP!StepFor, Assumed DEF BridgeInv
<1> QED  BY <1>1, <1>2, LocalWritten DEF Here, LP!Side

LEMMA SameRemotely ==
  ASSUME NEW a, NEW b, NEW w, RP!Step(a, b, w)
  PROVE  LP!Step(a, b, w)
BY DEF RP!Step, LP!Step, RP!LinkLine, LP!LinkLine, RP!Calls, LP!Calls, RP!Sets, LP!Sets,
       RP!Stops, LP!Stops, RP!Silent, LP!Silent, RP!Single, LP!Single, RP!Says, LP!Says, RP!Call, LP!Call,
       RP!Register, LP!Register, RP!Unregister, LP!Unregister, RP!Assign, LP!Assign,
       RP!Line, LP!Line, RP!Value, LP!Value

LEMMA RemoteStep ==
  ASSUME BridgeInv, NEW c \in Far \cup {Link}, RP!Uses(c), Link \in rclients => Link \in rclients'
  PROVE  RP!Ready' /\ LP!Step(There, There', R!Written(Link)) /\ There'.held \subseteq Name
<1>1. RP!Ready'
  BY RP!ReadyStep, Assumed DEF BridgeInv
<1>2. RP!Step(RP!Side(Link), RP!Side(Link)', RP!Written(Link)) /\ rparameters' \subseteq Name
  BY <1>1, RP!StepFor, Assumed DEF BridgeInv
<1> QED  BY <1>1, <1>2, RemoteWritten, SameRemotely DEF There, RP!Side

\* What is common to the two ways of a step at the local server.
LEMMA LocalNews ==
  ASSUME BridgeInv, LP!Ready', LP!Step(Here, Here', L!Written(Link)), Here'.held \subseteq Name,
         UNCHANGED rvars, toR' = toR \o L!Written(Link),
         Link \in lclients', Link \in rclients => Link \in lclients,
         \/ toL' = toL /\ Here'.asked = Here.asked
         \/ toL # <<>> /\ toL' = Tail(toL) /\ LP!Acts(Here, Here', Head(toL))
  PROVE  BridgeInv'
<1>1. There' = There /\ rclients' = rclients
  BY DEF rvars, There, RP!Side
<1>2. RP!Ready'
  BY RP!ReadyStutter, Assumed DEF rvars, RP!vars, BridgeInv
<1>3. LP!Met(Here, There, toR, toL)
  BY DEF BridgeInv
<1>4. LP!Met(Here', There, toR \o L!Written(Link), toL')
  BY <1>3, LP!MetAfter, Assumed
<1> QED  BY <1>1, <1>2, <1>4 DEF BridgeInv

LEMMA RemoteNews ==
  ASSUME BridgeInv, RP!Ready', LP!Step(There, There', R!Written(Link)), There'.held \subseteq Name,
         UNCHANGED lvars, toL' = toL \o R!Written(Link),
         Link \in rclients' => Link \in lclients,
         \/ toR' = toR /\ There'.asked = There.asked
         \/ toR # <<>> /\ toR' = Tail(toR) /\ LP!Acts(There, There', Head(toR))
  PROVE  BridgeInv'
<1>1. Here' = Here /\ lclients' = lclients
  BY DEF lvars, Here, LP!Side
<1>2. LP!Ready'
  BY LP!ReadyStutter, Assumed DEF lvars, LP!vars, BridgeInv
<1>3. LP!Met(There, Here, toL, toR)
  BY LP!MetBothWays, Assumed DEF BridgeInv
<1>4. LP!Met(There', Here, toL \o R!Written(Link), toR')
  BY <1>3, LP!MetAfter, Assumed
<1>5. LP!Met(Here, There', toR', toL')
  BY <1>4, LP!MetBothWays, Assumed
<1> QED  BY <1>1, <1>2, <1>5 DEF BridgeInv
-------------------------------------------------------------------------------
(* Action by action.                                                       *)

LEMMA LocalTypes ==
  ASSUME BridgeInv
  PROVE  /\ LP!TypeOK /\ LP!Bookkeeping /\ LP!Clear
         /\ toL \in Seq(LP!LinkLine) /\ toR \in Seq(LP!LinkLine)
         /\ RP!TypeOK
BY DEF BridgeInv, LP!Ready, RP!Ready, LP!Met

\* The link is up before anybody else is there: there is nothing to tell it.
LEMMA ConnectStep ==
  ASSUME BridgeInv, Connect
  PROVE  BridgeInv'
<1>1. LP!AddClient(Link) /\ UNCHANGED <<rvars, toL, toR>>
  BY LocalAddClient DEF Connect
<1>2. LP!Uses(Link)
  BY <1>1 DEF LP!Uses
<1>3. /\ Link \notin lclients /\ Link \in lclients'
      /\ UNCHANGED <<lregisters, lpetitioners, lsubscribers, lsent>>
      /\ loffered' = [loffered EXCEPT ![Link] = UNION {[p \in Name |-> {p}][r] : r \in lregisters}]
  BY <1>1 DEF LP!AddClient
<1>4. LP!Ready' /\ LP!Step(Here, Here', L!Written(Link)) /\ Here'.held \subseteq Name
  BY <1>2, <1>3, LocalStep
<1>5. L!Written(Link) = <<>>
  <2>1. lregisters = {}
    BY <1>3, LocalTypes DEF BridgeInv, LP!Bookkeeping, LP!ClientsKnown, LP!RegistersAlive, LP!TypeOK
  <2>2. loffered'[Link] = loffered[Link]
    BY <1>3, <2>1, LocalTypes DEF LP!Clear, LP!TypeOK
  <2>3. LP!Updates(Link) = {}
    BY <1>3 DEF LP!Updates
  <2>4. LP!TypeOK'
    BY <1>4 DEF LP!Ready
  <2>5. LP!Written(Link) = <<>>
    BY <2>2, <2>3, <2>4, LocalTypes, LP!WrittenNothing, Assumed
  <2> QED  BY <2>5, LocalWritten
<1>6. toR' = toR \o L!Written(Link)
  BY <1>1, <1>5, LocalTypes, ConcatEmptySeq
<1>7. Here'.asked = Here.asked
  BY <1>3 DEF Here, LP!Side
<1> QED  BY <1>1, <1>3, <1>4, <1>6, <1>7, LocalNews DEF BridgeInv

LEMMA AcceptLinkStep ==
  ASSUME BridgeInv, AcceptLink
  PROVE  BridgeInv'
<1>1. /\ Link \in lclients /\ RP!AddClient(Link)
      /\ UNCHANGED <<lvars, toR>> /\ toL' = toL \o R!Written(Link)
  BY RemoteAddClient DEF AcceptLink
<1>2. RP!Uses(Link)
  BY <1>1 DEF RP!Uses
<1>3. Link \in rclients' /\ rpetitioners' = rpetitioners
  BY <1>1 DEF RP!AddClient
<1>4. RP!Ready' /\ LP!Step(There, There', R!Written(Link)) /\ There'.held \subseteq Name
  BY <1>2, <1>3, RemoteStep
<1>5. There'.asked = There.asked
  BY <1>3 DEF There, RP!Side
<1> QED  BY <1>1, <1>4, <1>5, RemoteNews

LEMMA NearStep ==
  ASSUME BridgeInv, NEW c \in Near, NearAct(c)
  PROVE  BridgeInv'
<1>0. c # Link /\ Gives[c] \subseteq Name
  BY BridgeAssumption
<1>1. Link \in lclients /\ UNCHANGED <<rvars, toL>> /\ toR' = toR \o L!Written(Link)
  BY DEF NearAct
<1>2. LP!Uses(c)
  BY <1>0, LocalAddClient, LocalAddRegisterPetition, LocalSetValue, LocalRemoveClient, LocalValue
     DEF NearAct, LP!Uses
<1>3. Here'.asked = Here.asked /\ Link \in lclients'
  BY <1>0, <1>1, <1>2, LocalTypes, LP!OthersAsk, Assumed DEF Here
<1>4. LP!Ready' /\ LP!Step(Here, Here', L!Written(Link)) /\ Here'.held \subseteq Name
  BY <1>2, <1>3, LocalStep
<1> QED  BY <1>1, <1>3, <1>4, LocalNews

LEMMA FarStep ==
  ASSUME BridgeInv, NEW c \in Far, FarAct(c)
  PROVE  BridgeInv'
<1>0. c # Link /\ Gives[c] \subseteq Name
  BY BridgeAssumption
<1>1. UNCHANGED <<lvars, toR>> /\ toL' = toL \o R!Written(Link)
  BY DEF FarAct
<1>2. RP!Uses(c)
  BY <1>0, RemoteAddClient, RemoteAddRegisterPetition, RemoteSetValue, RemoteRemoveClient, RemoteValue
     DEF FarAct, RP!Uses
<1>3. There'.asked = There.asked /\ (Link \in rclients => Link \in rclients')
  BY <1>0, <1>2, LocalTypes, RP!OthersAsk, Assumed DEF There
<1>4. RP!Ready' /\ LP!Step(There, There', R!Written(Link)) /\ There'.held \subseteq Name
  BY <1>2, <1>3, RemoteStep
<1>5. Link \in rclients' => Link \in rclients
  BY <1>0, <1>2 DEF RP!Uses, RP!AddClient, RP!RemoveClient, RP!AddRegisterPetition,
                    RP!RemoveRegisterPetition, RP!SetValue
<1> QED  BY <1>1, <1>3, <1>4, <1>5, RemoteNews DEF BridgeInv

LEMMA TakeLStep ==
  ASSUME BridgeInv, TakeL
  PROVE  BridgeInv'
<1> DEFINE line == Head(toL)
<1>1. /\ toL # <<>> /\ toL' = Tail(toL) /\ toR' = toR \o L!Written(Link) /\ UNCHANGED rvars
      /\ \/ line.say = "register" /\ LP!AddRegisterPetition(Link, line.name)
         \/ line.say = "unregister" /\ LP!RemoveRegisterPetition(Link, line.name)
         \/ line.say = "=" /\ LP!SetValue(Link, line.name, line.value)
  BY LocalAddRegisterPetition, LocalRemoveRegisterPetition, LocalSetValue DEF TakeL
<1>2. line \in LP!LinkLine
  BY <1>1, LocalTypes, HeadTailProperties
<1>3. LP!Uses(Link) /\ LP!Acts(Here, Here', line) /\ lclients' = lclients
  BY <1>1, <1>2, LocalTypes, LP!LineActs, Assumed DEF Here
<1>4. LP!Ready' /\ LP!Step(Here, Here', L!Written(Link)) /\ Here'.held \subseteq Name
  BY <1>3, LocalStep
<1>5. Link \in lclients
  BY <1>1 DEF LP!AddRegisterPetition, LP!RemoveRegisterPetition, LP!SetValue
<1> QED  BY <1>1, <1>3, <1>4, <1>5, LocalNews

LEMMA TakeRStep ==
  ASSUME BridgeInv, TakeR
  PROVE  BridgeInv'
<1> DEFINE line == Head(toR)
<1>1. /\ toR # <<>> /\ toR' = Tail(toR) /\ toL' = toL \o R!Written(Link) /\ UNCHANGED lvars
      /\ \/ line.say = "register" /\ RP!AddRegisterPetition(Link, line.name)
         \/ line.say = "unregister" /\ RP!RemoveRegisterPetition(Link, line.name)
         \/ line.say = "=" /\ RP!SetValue(Link, line.name, line.value)
  BY RemoteAddRegisterPetition, RemoteRemoveRegisterPetition, RemoteSetValue DEF TakeR
<1>2. line \in LP!LinkLine
  BY <1>1, LocalTypes, HeadTailProperties
<1>3. line \in RP!LinkLine
  BY <1>2 DEF LP!LinkLine, RP!LinkLine, LP!Calls, RP!Calls, LP!Sets, RP!Sets, LP!Line, RP!Line,
              LP!Value, RP!Value
<1>4. RP!Uses(Link) /\ RP!Acts(There, There', line) /\ rclients' = rclients
  BY <1>1, <1>3, LocalTypes, RP!LineActs, Assumed DEF There
<1>5. LP!Acts(There, There', line)
  BY <1>4 DEF RP!Acts, LP!Acts
<1>6. RP!Ready' /\ LP!Step(There, There', R!Written(Link)) /\ There'.held \subseteq Name
  BY <1>4, RemoteStep
<1>7. Link \in rclients' => Link \in lclients
  BY <1>4 DEF BridgeInv
<1> QED  BY <1>1, <1>5, <1>6, <1>7, RemoteNews

LEMMA InvStep == BridgeInv /\ [Next]_vars => BridgeInv'
<1> SUFFICES ASSUME BridgeInv, [Next]_vars PROVE BridgeInv'
  OBVIOUS
<1>1. CASE UNCHANGED vars
  <2>1. LP!Ready' /\ RP!Ready'
    BY <1>1, LP!ReadyStutter, RP!ReadyStutter, Assumed DEF BridgeInv, vars, lvars, rvars, LP!vars, RP!vars
  <2>2. Here' = Here /\ There' = There /\ UNCHANGED <<toL, toR, lclients, rclients>>
    BY <1>1 DEF vars, lvars, rvars, Here, There, LP!Side, RP!Side
  <2> QED  BY <2>1, <2>2 DEF BridgeInv
<1> QED
  BY <1>1, ConnectStep, AcceptLinkStep, NearStep, FarStep, TakeLStep, TakeRStep DEF Next

LEMMA InvAlways == Spec => []BridgeInv
BY InvInit, InvStep, PTL DEF Spec
-------------------------------------------------------------------------------
(* What is true when nothing is under way.                                 *)

\* What each server asks for is what the other has been told.
LEMMA AllTold ==
  ASSUME BridgeInv, AtRest, NEW p \in Name
  PROVE  /\ p \in loffered[Link] <=> Link \in rpetitioners[p]
         /\ p \in roffered[Link] <=> Link \in lpetitioners[p]
<1>1. \A S : LP!Silent(toL, p, S) /\ LP!Silent(toR, p, S)
  BY EmptySeq DEF AtRest, LP!Silent
<1>2. /\ LP!Call(p, p \in There.asked) = LP!Call(p, p \in Here.offered)
      /\ LP!Call(p, p \in Here.asked) = LP!Call(p, p \in There.offered)
  BY <1>1 DEF BridgeInv, LP!Met, LP!Asked, LP!Ends
<1>3. /\ p \in There.asked <=> p \in Here.offered
      /\ p \in Here.asked <=> p \in There.offered
  BY <1>2 DEF LP!Call, LP!Register, LP!Unregister
<1> QED  BY <1>3 DEF Here, There, LP!Side, RP!Side

\* Who wants a name at either server has had it asked of everybody at the other.
LEMMA WantedIsAsked ==
  ASSUME BridgeInv, AtRest, NEW p \in Name
  PROVE  /\ p \in Wanted(lpetitioners) => Link \in rpetitioners[p] /\ \A c \in rclients : p \in roffered[c]
         /\ p \in Wanted(rpetitioners) => Link \in lpetitioners[p] /\ \A c \in lclients : p \in loffered[c]
<1>0. Link \in lclients /\ Link \in rclients /\ LP!Ready /\ RP!Ready
  BY DEF BridgeInv, AtRest
<1>1. ASSUME lpetitioners[p] # {} PROVE \A c \in lclients : p \in loffered[c]
  BY <1>0, <1>1, LP!WantedIsOffered, Assumed
<1>2. ASSUME rpetitioners[p] # {} PROVE \A c \in rclients : p \in roffered[c]
  BY <1>0, <1>2, RP!WantedIsOffered, Assumed
<1> QED  BY <1>0, <1>1, <1>2, AllTold DEF Wanted

\* Whenever the line is quiet, who wants a value at one server can count on everybody
\* at the other having been asked for it (server.cpp:177, serverlib.cpp:29-134).
THEOREM RestDemandAlways == Spec => []RestDemand
<1>1. BridgeInv => RestDemand
  BY WantedIsAsked DEF RestDemand, Wanted
<1> QED  BY <1>1, InvAlways, PTL

\* Whenever the line is quiet, the two servers hold one value for a text somebody wants.
THEOREM RestAgreesAlways == Spec => []RestAgrees
<1>1. BridgeInv => RestAgrees
  <2> SUFFICES ASSUME BridgeInv, AtRest,
                      NEW p \in (Wanted(lpetitioners) \cup Wanted(rpetitioners)) \ Numeric
               PROVE  lvalue[p] = rvalue[p]
    BY DEF RestAgrees
  <2>0. p \in Name /\ Link \in lclients /\ Link \in rclients /\ LP!Ready /\ RP!Ready
    BY DEF Wanted, BridgeInv, AtRest
  <2>1. Link \in lpetitioners[p] /\ Link \in rpetitioners[p]
    <3>1. Link \in rpetitioners[p] => Link \in lpetitioners[p]
      BY <2>0, RP!WantedIsOffered, AllTold, Assumed
    <3>2. Link \in lpetitioners[p] => Link \in rpetitioners[p]
      BY <2>0, LP!WantedIsOffered, AllTold, Assumed
    <3> QED  BY <2>0, <3>1, <3>2, WantedIsAsked
  <2>2. \A S : LP!Silent(toL, p, S) /\ LP!Silent(toR, p, S)
    BY EmptySeq DEF AtRest, LP!Silent
  <2>3. /\ p \in lparameters => p \in There.given
        /\ p \in rparameters => p \in Here.given
    BY <2>0, <2>1, <2>2 DEF BridgeInv, LP!Met, LP!Has, Here, There, LP!Side, RP!Side
  <2>4. p \in lparameters <=> p \in rparameters
    <3>1. lproviders[p] # {} => p \in lparameters
      BY <2>0 DEF LP!Ready, LP!Bookkeeping, LP!ParametersProvided
    <3>2. rproviders[p] # {} => p \in rparameters
      BY <2>0 DEF RP!Ready, RP!Bookkeeping, RP!ParametersProvided
    <3> QED  BY <2>3, <3>1, <3>2 DEF Here, There, LP!Side, RP!Side
  <2>5. CASE p \in lparameters
    BY <2>0, <2>1, <2>2, <2>4, <2>5 DEF BridgeInv, LP!Met, LP!Agreed, Here, There, LP!Side, RP!Side
  <2>6. CASE p \notin lparameters
    BY <2>0, <2>4, <2>6 DEF LP!Ready, LP!TypeOK, RP!Ready, RP!TypeOK
  <2> QED  BY <2>5, <2>6
<1> QED  BY <1>1, InvAlways, PTL

\* However register(...) and unregister(...) cross, each server reads them in turn.
THEOREM RegistersInTurnAlways == Spec => []RegistersInTurn
<1>1. BridgeInv => RegistersInTurn
  <2> SUFFICES ASSUME BridgeInv PROVE RegistersInTurn
    OBVIOUS
  <2>1. LP!Met(Here, There, toR, toL) /\ LP!Met(There, Here, toL, toR)
    BY LP!MetBothWays, Assumed DEF BridgeInv
  <2>2. /\ toL # <<>> => Head(toL).name \in Name
        /\ toR # <<>> => Head(toR).name \in Name
    BY LocalTypes, HeadTailProperties, LP!LinkLineIs, Assumed
  <2>3. toL # <<>> => /\ Head(toL).say = "register" => Head(toL).name \notin Here.asked
                      /\ Head(toL).say = "unregister" => Head(toL).name \in Here.asked
    BY <2>1, LP!TakenInTurn, Assumed
  <2>4. toR # <<>> => /\ Head(toR).say = "register" => Head(toR).name \notin There.asked
                      /\ Head(toR).say = "unregister" => Head(toR).name \in There.asked
    BY <2>1, LP!TakenInTurn, Assumed
  <2> QED  BY <2>2, <2>3, <2>4 DEF RegistersInTurn, Here, There, LP!Side, RP!Side
<1> QED  BY <1>1, InvAlways, PTL
===============================================================================
