-------------------------------- MODULE Bridge --------------------------------
(***************************************************************************)
(* Local mode (run_server with is_local, server.cpp:177): a local server   *)
(* connects to a remote one and makes that connection a client of its own. *)
(* Neither knows the other is a server: each is Broker, with Link among    *)
(* its clients, and what one writes to Link is a line of Link's at the     *)
(* other.                                                                  *)
(*                                                                         *)
(* The programs at either server are its other clients; their lines are    *)
(* acted on as they are written, only the lines between the servers take   *)
(* their time (module System has both queues of a program).                *)
(***************************************************************************)
EXTENDS FiniteSets, SequencesExt

CONSTANTS
  Near,   \* the programs at the local server
  Far,    \* the programs at the remote one
  Gives,  \* Gives[c]: the names program c gives, each given by one program
  Link,   \* the client object each server has for the other
  Name, Numeric, Number, Text, Empty, Nothing, Margin,  \* as in Broker
  Room    \* bound: the lines under way when a program does something

ASSUME BridgeAssumption ==
  /\ Near \cap Far = {} /\ Link \notin Near \cup Far
  /\ Gives \in [Near \cup Far -> SUBSET Name]
  /\ Room \in Nat

VARIABLES
  lclients, lregisters, lpetitioners, lnotified, lparameters, lvalue, lproviders,
  lsubscribers, lsent, lreceived, loffered,
  rclients, rregisters, rpetitioners, rnotified, rparameters, rvalue, rproviders,
  rsubscribers, rsent, rreceived, roffered,
  toL,  \* the lines from the remote server to the local one
  toR   \* and back

lvars == <<lclients, lregisters, lpetitioners, lnotified, lparameters, lvalue,
           lproviders, lsubscribers, lsent, lreceived, loffered>>
rvars == <<rclients, rregisters, rpetitioners, rnotified, rparameters, rvalue,
           rproviders, rsubscribers, rsent, rreceived, roffered>>
vars == <<lvars, rvars, toL, toR>>

L == INSTANCE Lines WITH
  Client <- Near \cup {Link}, Event <- {}, Petition <- Name,
  Matches <- [p \in Name |-> {p}],
  clients <- lclients, registers <- lregisters, petitioners <- lpetitioners,
  notified <- lnotified, parameters <- lparameters, value <- lvalue,
  providers <- lproviders, subscribers <- lsubscribers, sent <- lsent,
  received <- lreceived, offered <- loffered

R == INSTANCE Lines WITH
  Client <- Far \cup {Link}, Event <- {}, Petition <- Name,
  Matches <- [p \in Name |-> {p}],
  clients <- rclients, registers <- rregisters, petitioners <- rpetitioners,
  notified <- rnotified, parameters <- rparameters, value <- rvalue,
  providers <- rproviders, subscribers <- rsubscribers, sent <- rsent,
  received <- rreceived, offered <- roffered

ASSUME ServersAssumption ==
  /\ L!BrokerAssumption /\ L!LinesAssumption
  /\ R!BrokerAssumption /\ R!LinesAssumption

Init ==
  /\ L!Init /\ R!Init
  /\ toL = <<>> /\ toR = <<>>

\* run_server: the local server begins with the link.
Connect ==
  /\ L!AddClient(Link)
  /\ UNCHANGED <<rvars, toL, toR>>

\* The remote one accepts it like any other client, perhaps with registers to tell.
AcceptLink ==
  /\ Link \in lclients
  /\ R!AddClient(Link)
  /\ toL' = toL \o R!Written(Link)
  /\ UNCHANGED <<lvars, toR>>

\* The bound on the lines under way.
MayAct == Len(toL) + Len(toR) <= Room

\* A program at the local server comes, registers, gives a value or leaves.
NearAct(c) ==
  /\ MayAct
  /\ Link \in lclients
  /\ \/ L!AddClient(c)
     \/ \E p \in Name : L!AddRegisterPetition(c, p)
     \/ \E p \in Gives[c] : \E v \in L!Value(p) \ {Empty} : L!SetValue(c, p, v)
     \/ L!RemoveClient(c)
  /\ toR' = toR \o L!Written(Link)
  /\ UNCHANGED <<rvars, toL>>

FarAct(c) ==
  /\ MayAct
  /\ \/ R!AddClient(c)
     \/ \E p \in Name : R!AddRegisterPetition(c, p)
     \/ \E p \in Gives[c] : \E v \in R!Value(p) \ {Empty} : R!SetValue(c, p, v)
     \/ R!RemoveClient(c)
  /\ toL' = toL \o R!Written(Link)
  /\ UNCHANGED <<lvars, toR>>

\* The local server acts on a line of the remote one.
TakeL ==
  /\ toL # <<>>
  /\ LET line == Head(toL)
     IN  \/ line.say = "register" /\ L!AddRegisterPetition(Link, line.name)
         \/ line.say = "unregister" /\ L!RemoveRegisterPetition(Link, line.name)
         \/ line.say = "=" /\ L!SetValue(Link, line.name, line.value)
  /\ toL' = Tail(toL)
  /\ toR' = toR \o L!Written(Link)
  /\ UNCHANGED rvars

\* The remote server acts on a line of the local one.
TakeR ==
  /\ Link \in rclients
  /\ toR # <<>>
  /\ LET line == Head(toR)
     IN  \/ line.say = "register" /\ R!AddRegisterPetition(Link, line.name)
         \/ line.say = "unregister" /\ R!RemoveRegisterPetition(Link, line.name)
         \/ line.say = "=" /\ R!SetValue(Link, line.name, line.value)
  /\ toR' = Tail(toR)
  /\ toL' = toL \o R!Written(Link)
  /\ UNCHANGED lvars

Next ==
  \/ Connect \/ AcceptLink \/ TakeL \/ TakeR
  \/ \E c \in Near : NearAct(c)
  \/ \E c \in Far : FarAct(c)

Spec == Init /\ [][Next]_vars
-------------------------------------------------------------------------------
(* Properties                                                              *)

\* Nothing is under way between the servers.
AtRest == Link \in rclients /\ toL = <<>> /\ toR = <<>>

Wanted(petitioners) == {p \in Name : petitioners[p] \ {Link} # {}}

\* Whenever the line is quiet, who wants a value at one server can count on whoever
\* gives it at the other having been asked.
RestDemand ==
  AtRest =>
    /\ \A c \in rclients : Wanted(lpetitioners) \subseteq roffered[c]
    /\ \A c \in lclients : Wanted(rpetitioners) \subseteq loffered[c]

\* Whenever the line is quiet, the two servers hold one value for a text somebody
\* wants, whichever of them it was given to and whatever crossed.  (Of a number each
\* may keep back a change of less than a margin.)
RestAgrees ==
  AtRest =>
    \A p \in (Wanted(lpetitioners) \cup Wanted(rpetitioners)) \ Numeric :
      lvalue[p] = rvalue[p]

\* However register(...) and unregister(...) cross, neither server reads that the other
\* wants a name it already wants, or no longer wants one it did not: the petitions the
\* servers keep of each other (serverlib.cpp:29-77) never run ahead of what was said.
\* It is what Lines supposes of its clients, that none registers a name twice.
RegistersInTurn ==
  /\ toL # <<>> =>
       /\ Head(toL).say = "register" => Link \notin lpetitioners[Head(toL).name]
       /\ Head(toL).say = "unregister" => Link \in lpetitioners[Head(toL).name]
  /\ toR # <<>> =>
       /\ Head(toR).say = "register" => Link \notin rpetitioners[Head(toR).name]
       /\ Head(toR).say = "unregister" => Link \in rpetitioners[Head(toR).name]
===============================================================================
