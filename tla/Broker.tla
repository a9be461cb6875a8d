-------------------------------- MODULE Broker --------------------------------
(***************************************************************************)
(* The message broker: class Server (serverlib.cpp) with the parameter and *)
(* register bookkeeping it inherits from ParameterManager, Parameter and   *)
(* ParameterData (common.cpp, common.h).                                   *)
(*                                                                         *)
(* The server is one thread: a line read from a client is parsed and acted *)
(* upon before the next one is looked at, so every operation below is one  *)
(* step.  What interleaves is the lines of different clients, and clients  *)
(* arriving and leaving.                                                   *)
(*                                                                         *)
(* A register petition is a pattern and a parameter name a path; which     *)
(* names a pattern selects (Topic::GetAllMatches) is the constant Matches, *)
(* computed from real patterns by module Patterns.                           *)
(***************************************************************************)
EXTENDS Integers, FiniteSets

CONSTANTS
  Client,    \* client objects (client*)
  Name,      \* parameter names
  Numeric,   \* the names ParameterData::construct serves with NumericData
  Event,     \* the names some client sends with noretain(...)
  Petition,  \* the patterns clients register
  Matches,   \* Matches[r]: the names pattern r selects
  Number,    \* the numbers sent for a numeric name, in units of the last digit
  Text,      \* the non-empty texts sent for any other name
  Empty,     \* the empty text
  Nothing,   \* no value: an absent parameter, a line never received
  Margin     \* NumericData::margin, in the same unit as Number

ASSUME BrokerAssumption ==
  /\ Numeric \subseteq Name
  /\ Event \subseteq Name
  /\ Matches \in [Petition -> SUBSET Name]
  /\ Number \subseteq Int
  /\ Margin \in Nat \ {0}
  /\ Empty \notin Text
  /\ Nothing \notin Int \cup Text \cup {Empty}

VARIABLES
  clients,      \* Server::clients
  registers,    \* the keys of Server::registers
  petitioners,  \* petitioners[r]: Register::clients, who asked for r
  notified,     \* notified[r]: the mapped set, who has been sent "register(r)"
  parameters,   \* ParameterManager::parameters
  value,        \* ExternalParameter::value
  providers,    \* Parameter::providers
  subscribers,  \* Parameter::clients, also the keys of ParameterData::registers
  sent,         \* sent[p][c]: ParameterData::registers[c], the value last sent
  received,     \* received[c][p]: the last line "p=v" written to c
  offered       \* offered[c]: the names c has been asked, and not told to stop, sending

vars == <<clients, registers, petitioners, notified, parameters, value,
          providers, subscribers, sent, received, offered>>
-------------------------------------------------------------------------------
(* Parameter data: when is what a client was last sent out of date?        *)

Abs(n) == IF n < 0 THEN -n ELSE n

Value(p) == IF p \in Numeric THEN Number ELSE Text \cup {Empty}

\* What add_register records for a client that has been sent nothing yet.
Initial(p) == IF p \in Numeric THEN 0 ELSE Empty

\* The test of get_clients_to_send on one registered client.
OutOfDate(p, last, v) ==
  IF p \in Numeric
    THEN Abs(last - v) >= Margin \/ (v = 0 /\ last # v)
    ELSE last # v

\* (Mutant: a change of exactly a margin is not sent.)
OutdatedLate(p, S, snt, v) ==
  {c \in S : IF p \in Numeric THEN Abs(snt[c] - v) > Margin ELSE snt[c] # v}

\* The clients Parameter::Send writes to, out of S with records snt.
Outdated(p, S, snt, v) == {c \in S : OutOfDate(p, snt[c], v)}

\* (Mutant: the records of all follow the value, told of it or not.)
AfterSendAlways(p, S, snt, v) == [c \in Client |-> IF c \in S THEN v ELSE snt[c]]

\* The records once Send has run.
AfterSend(p, S, snt, v) ==
  [c \in Client |-> IF c \in Outdated(p, S, snt, v) THEN v ELSE snt[c]]

\* (Mutant: a new subscriber is taken to know the value.)
WithRegisterCurrent(p, snt, c) == [snt EXCEPT ![c] = value[p]]

\* The records once Parameter::add_register(c) has run.
WithRegister(p, snt, c) == [snt EXCEPT ![c] = Initial(p)]
-------------------------------------------------------------------------------
Init ==
  /\ clients = {}
  /\ registers = {}
  /\ petitioners = [r \in Petition |-> {}]
  /\ notified = [r \in Petition |-> {}]
  /\ parameters = {}
  /\ value = [p \in Name |-> Nothing]
  /\ providers = [p \in Name |-> {}]
  /\ subscribers = [p \in Name |-> {}]
  /\ sent = [p \in Name |-> [c \in Client |-> Initial(p)]]
  /\ received = [c \in Client |-> [p \in Name |-> Nothing]]
  /\ offered = [c \in Client |-> {}]

\* (Mutant: the newcomer is not told of the registers.)
AddClientUntold(c) ==
  /\ c \notin clients
  /\ clients' = clients \cup {c}
  /\ UNCHANGED <<registers, petitioners, notified, parameters, value, providers,
                 subscribers, sent, received, offered>>

(* Server::AddClient: the newcomer is sent "register(r)" for every         *)
(* register there is.                                                      *)
AddClient(c) ==
  /\ c \notin clients
  /\ clients' = clients \cup {c}
  /\ notified' = [r \in Petition |->
                    IF r \in registers THEN notified[r] \cup {c} ELSE notified[r]]
  /\ offered' = [offered EXCEPT ![c] = UNION {Matches[r] : r \in registers}]
  /\ UNCHANGED <<registers, petitioners, parameters, value, providers,
                 subscribers, sent, received>>

(* Server::AddRegisterPetition: record the petition, pass it on to every   *)
(* client not told yet (the petitioner too), and send the petitioner the   *)
(* value of every parameter it selects.                                    *)
AddRegisterPetition(c, r) ==
  LET M == parameters \cap Matches[r]
      snt(p) == WithRegister(p, sent[p], c)
      out(p) == Outdated(p, subscribers[p] \cup {c}, snt(p), value[p])
  IN  /\ c \in clients
      /\ registers' = registers \cup {r}
      /\ petitioners' = [petitioners EXCEPT ![r] = @ \cup {c}]
      /\ notified' = [notified EXCEPT ![r] = @ \cup clients]
      /\ offered' = [d \in Client |-> IF d \in clients \ notified[r]
                                        THEN offered[d] \cup Matches[r]
                                        ELSE offered[d]]
      /\ subscribers' = [p \in Name |-> IF p \in M THEN subscribers[p] \cup {c}
                                                   ELSE subscribers[p]]
      /\ sent' = [p \in Name |->
                    IF p \in M
                      THEN AfterSend(p, subscribers[p] \cup {c}, snt(p), value[p])
                      ELSE sent[p]]
      /\ received' = [d \in Client |-> [p \in Name |->
                        IF p \in M /\ d \in out(p) THEN value[p]
                                                   ELSE received[d][p]]]
      /\ UNCHANGED <<clients, parameters, value, providers>>
-------------------------------------------------------------------------------
(* Server::UpdateEmptyRegisters, run on registers whose petitioners are    *)
(* pet and parameters whose subscribers are subs.  notified[r] is the same *)
(* set for every register (RegistersAlive), so the order in which the loop    *)
(* takes the empty registers does not show.                                *)

EmptyRegisters(pet) == {r \in registers : pet[r] = {}}

\* (Mutant: whoever subscribes, what an empty register selects is deleted.)
UnwantedAlways(pet, subs) ==
  {p \in parameters : \E r \in EmptyRegisters(pet) : p \in Matches[r]}

\* The parameters it deletes: selected by an empty register, no subscriber.
Unwanted(pet, subs) ==
  {p \in parameters :
     subs[p] = {} /\ \E r \in EmptyRegisters(pet) : p \in Matches[r]}

\* The empty registers whose own name is withdrawn too (none = true).
Silenced(pet, subs) ==
  {r \in EmptyRegisters(pet) : \A p \in parameters \cap Matches[r] : subs[p] = {}}

\* What client d must stop sending: "unregister(p)" for each deleted
\* parameter and "unregister(r)" for each silenced register.
Withdrawn(pet, ntf, subs, d) ==
  {p \in Unwanted(pet, subs) :
     \E r \in EmptyRegisters(pet) : p \in Matches[r] /\ d \in ntf[r]}
  \cup UNION {Matches[r] : r \in {s \in Silenced(pet, subs) : d \in ntf[s]}}

\* (Mutant: the values of deleted parameters stay.)
DiscardKeepsValue(pet, ntf, subs, prv, gone) ==
  LET E == EmptyRegisters(pet)
  IN  /\ registers' = registers \ E
      /\ petitioners' = pet
      /\ notified' = [r \in Petition |-> IF r \in E THEN {} ELSE ntf[r]]
      /\ parameters' = parameters \ gone
      /\ providers' = [p \in Name |-> IF p \in gone THEN {} ELSE prv[p]]
      /\ subscribers' = [p \in Name |-> IF p \in gone THEN {} ELSE subs[p]]
      /\ UNCHANGED <<value, sent>>

\* registers.erase for the empty ones; RemoveParameter and delete for gone.
Discard(pet, ntf, subs, prv, gone) ==
  LET E == EmptyRegisters(pet)
  IN  /\ registers' = registers \ E
      /\ petitioners' = pet
      /\ notified' = [r \in Petition |-> IF r \in E THEN {} ELSE ntf[r]]
      /\ parameters' = parameters \ gone
      /\ value' = [p \in Name |-> IF p \in gone THEN Nothing ELSE value[p]]
      /\ providers' = [p \in Name |-> IF p \in gone THEN {} ELSE prv[p]]
      /\ subscribers' = [p \in Name |-> IF p \in gone THEN {} ELSE subs[p]]
      /\ sent' = [p \in Name |-> [c \in Client |->
                    IF p \in gone \/ c \notin subs[p] THEN Initial(p)
                                                      ELSE sent[p][c]]]

\* c leaves each set of F.
Without(F, c) == [x \in DOMAIN F |-> F[x] \ {c}]

\* (Mutant: c stays subscribed.)
KeepSubscribed(c, R) == subscribers

\* Parameter::unregister(c) on whatever the registers in R select.
Unsubscribed(c, R) ==
  [p \in Name |-> IF \E r \in R : p \in Matches[r] THEN subscribers[p] \ {c}
                                                    ELSE subscribers[p]]

(* Server::RemoveRegisterPetition.                                         *)
RemoveRegisterPetition(c, r) ==
  LET pet == [petitioners EXCEPT ![r] = @ \ {c}]
      subs == Unsubscribed(c, registers \cap {r})
  IN  /\ c \in clients
      /\ Discard(pet, notified, subs, providers, Unwanted(pet, subs))
      /\ offered' = [d \in Client |->
                       offered[d] \ Withdrawn(pet, notified, subs, d)]
      /\ UNCHANGED <<clients, received>>

\* The providers once the orphans loop of RemoveClient(c) has run: it goes over
\* the parameters UpdateEmptyRegisters has left.
Unprovided(c, unwanted) ==
  [p \in Name |-> IF p \in parameters \ unwanted THEN providers[p] \ {c}
                                                  ELSE providers[p]]

\* (Mutant: a parameter outlives its last provider.)
NoOrphans(prv, unwanted) == {}

\* The parameters that are left without a provider.
Orphans(prv, unwanted) == {p \in parameters \ unwanted : prv[p] = {}}

(* Server::RemoveClient: forget c everywhere, drop the registers only it   *)
(* had asked for, and delete the parameters it was the last provider of.   *)
(* c leaves Parameter::clients only where some register selects the        *)
(* parameter.                                                              *)
RemoveClient(c) ==
  LET pet == Without(petitioners, c)
      ntf == Without(notified, c)
      subs == Unsubscribed(c, registers)
      unwanted == Unwanted(pet, subs)
      prv == Unprovided(c, unwanted)
  IN  /\ c \in clients
      /\ clients' = clients \ {c}
      /\ Discard(pet, ntf, subs, prv, unwanted \cup Orphans(prv, unwanted))
      /\ offered' = [d \in Client |->
                       IF d = c THEN {} ELSE offered[d] \ Withdrawn(pet, ntf, subs, d)]
      /\ received' = [received EXCEPT ![c] = [p \in Name |-> Nothing]]
-------------------------------------------------------------------------------
\* Server::UpdatePetitions: who subscribes to a parameter just created.
Interested(p) == UNION {petitioners[r] : r \in {s \in registers : p \in Matches[s]}}

\* Server::GetParameter: p's subscribers and records, as they are or, if it has to be
\* created, as UpdatePetitions leaves them (its Send does nothing, set being false).
SubscribersOf(p) == IF p \in parameters THEN subscribers[p] ELSE Interested(p)
RecordsOf(p) == IF p \in parameters THEN sent[p] ELSE [d \in Client |-> Initial(p)]

(* ParseLine on "p=v": Server::GetParameter finds or creates p, SetValue   *)
(* stores v and sends it to the subscribers it is news to, and c becomes a *)
(* provider.                                                               *)
SetValue(c, p, v) ==
  LET subs == SubscribersOf(p)
      snt == RecordsOf(p)
      out == Outdated(p, subs, snt, v)
  IN  /\ c \in clients
      /\ parameters' = parameters \cup {p}
      /\ value' = [value EXCEPT ![p] = v]
      /\ providers' = [providers EXCEPT ![p] = @ \cup {c}]
      /\ subscribers' = [subscribers EXCEPT ![p] = subs]
      /\ sent' = [sent EXCEPT ![p] = AfterSend(p, subs, snt, v)]
      /\ received' = [d \in Client |->
                        IF d \in out THEN [received[d] EXCEPT ![p] = v]
                                     ELSE received[d]]
      /\ UNCHANGED <<clients, registers, petitioners, notified, offered>>

(* The same line with a text stof cannot read, for a numeric name: the     *)
(* exception leaves ParseLine, run_server and main, the process ends, and  *)
(* its service unit (Restart=always) starts an empty one.                  *)
SetUnreadable(c, p) ==
  /\ c \in clients
  /\ p \in Numeric
  /\ clients' = {}
  /\ registers' = {}
  /\ petitioners' = [r \in Petition |-> {}]
  /\ notified' = [r \in Petition |-> {}]
  /\ parameters' = {}
  /\ value' = [q \in Name |-> Nothing]
  /\ providers' = [q \in Name |-> {}]
  /\ subscribers' = [q \in Name |-> {}]
  /\ sent' = [q \in Name |-> [d \in Client |-> Initial(q)]]
  /\ received' = [d \in Client |-> [q \in Name |-> Nothing]]
  /\ offered' = [d \in Client |-> {}]

(* function_call "noretain": the line goes to the petitioners of every     *)
(* register that selects p, and nothing is stored.                         *)
NoRetain(c, p, v) ==
  /\ c \in clients
  /\ received' = [d \in Client |->
                    IF d \in Interested(p) THEN [received[d] EXCEPT ![p] = v]
                                           ELSE received[d]]
  /\ UNCHANGED <<clients, registers, petitioners, notified, parameters, value,
                 providers, subscribers, sent, offered>>

(* function_call "get": c is sent every parameter r selects.               *)
Get(c, r) ==
  /\ c \in clients
  /\ received' = [received EXCEPT ![c] =
                    [p \in Name |-> IF p \in parameters \cap Matches[r]
                                      THEN value[p] ELSE @[p]]]
  /\ UNCHANGED <<clients, registers, petitioners, notified, parameters, value,
                 providers, subscribers, sent, offered>>

Next ==
  \E c \in Client :
    \/ AddClient(c)
    \/ RemoveClient(c)
    \/ \E r \in Petition : AddRegisterPetition(c, r)
    \/ \E r \in Petition : RemoveRegisterPetition(c, r)
    \/ \E p \in Name : \E v \in Value(p) : SetValue(c, p, v)
    \/ \E p \in Name : SetUnreadable(c, p)
    \/ \E p \in Event : \E v \in Value(p) : NoRetain(c, p, v)
    \/ \E r \in Petition : Get(c, r)

Spec == Init /\ [][Next]_vars
-------------------------------------------------------------------------------
(* Properties                                                              *)

Line == Number \cup Text \cup {Empty, Nothing}

\* Every variable has its type.
TypeOK ==
  /\ clients \subseteq Client
  /\ registers \subseteq Petition
  /\ petitioners \in [Petition -> SUBSET Client]
  /\ notified \in [Petition -> SUBSET Client]
  /\ parameters \subseteq Name
  /\ value \in [Name -> Line]
  /\ \A p \in Name : value[p] \in IF p \in parameters THEN Value(p) ELSE {Nothing}
  /\ providers \in [Name -> SUBSET Client]
  /\ subscribers \in [Name -> SUBSET Client]
  /\ sent \in [Name -> [Client -> Line \cup {0}]]
  /\ \A p \in Name, c \in Client : sent[p][c] \in Value(p) \cup {Initial(p)}
  /\ received \in [Client -> [Name -> Line]]
  /\ \A c \in Client, p \in Name : received[c][p] \in Value(p) \cup {Nothing}
  /\ offered \in [Client -> SUBSET Name]

\* run_server deletes a client object as soon as RemoveClient returns, so no
\* set the server writes lines from may still hold it (serverlib.cpp:114-134
\* cleans them one by one, and leaves a parameter alone that no register selects).
ClientsKnown ==
  /\ \A r \in Petition : petitioners[r] \cup notified[r] \subseteq clients
  /\ \A p \in Name : providers[p] \cup subscribers[p] \subseteq clients

\* A subscription always has a petition behind it: what ClientsKnown rests on,
\* because RemoveClient finds the subscriptions of a client only through the
\* registers (serverlib.cpp:117-122).
SubscribersJustified ==
  \A p \in Name : \A c \in subscribers[p] :
    \E r \in registers : c \in petitioners[r] /\ p \in Matches[r]

\* UpdateEmptyRegisters leaves no register nobody asks for, and every client,
\* however early or late it came, has been told of every register there is, so
\* that a provider never misses that its parameter is wanted.
RegistersAlive ==
  \A r \in Petition :
    /\ r \in registers <=> petitioners[r] # {}
    /\ notified[r] = IF r \in registers THEN clients ELSE {}

\* A value is kept only while a client that sent it is connected: what the
\* orphans loop of RemoveClient and the providers of ParseLine are for.
ParametersProvided ==
  \A p \in Name : IF p \in parameters THEN providers[p] # {}
                   ELSE providers[p] = {} /\ subscribers[p] = {}

\* The five sets of client pointers fit together, whatever the petitions, however they
\* overlap and in whatever order everybody comes and goes (serverlib.cpp:29-134): each
\* of the four parts is needed to keep the others.
Bookkeeping ==
  ClientsKnown /\ SubscribersJustified /\ RegistersAlive /\ ParametersProvided

\* What a step may not take: a subscription to a parameter that keeps a provider,
\* unless its own client withdraws a petition that selects it.
Spared ==
  \A p \in parameters : \A c \in subscribers[p] \cap clients' :
    /\ providers[p] \cap clients' # {}
    /\ \A r \in Petition : p \in Matches[r] => ~ RemoveRegisterPetition(c, r)
    => p \in parameters' /\ c \in subscribers'[p]

\* Nothing another client does, petitioning, withdrawing overlapping petitions or
\* leaving, costs a client its subscription to a stored parameter: only its own
\* unregister(...) of a pattern that selects it does, or the departure of the last
\* client that sent it (serverlib.cpp:50-77 and 114-134 must spare it).
SubscriptionsSurviveOthers == [][Spared]_vars

Retained == Name \ Event

\* The records the update test relies on are true: no subscriber is owed a line.
Fresh ==
  \A p \in parameters : \A c \in subscribers[p] : ~ OutOfDate(p, sent[p][c], value[p])

\* What a record says was sent, and what was received last: the same, unless nothing
\* was sent yet; for a number, an answer to get(...) may be up to a margin off it.
Agrees(p, record, last) ==
  \/ record = Initial(p)
  \/ last = record
  \/ p \in Numeric /\ last \in Number /\ Abs(last - record) < Margin

\* The records are true, for every subscriber: what the update test compares a new
\* value with is what that client really holds.
RecordsTrue ==
  \A p \in Retained : \A c \in subscribers[p] : Agrees(p, sent[p][c], received[c][p])

\* Whatever order petitions, values, queries, arrivals and departures come in, a
\* subscriber of a text parameter has received its value (the empty text is the
\* one add_register takes for already known, common.h:66).
SubscriberUpToDate ==
  \A p \in Retained \ Numeric : \A c \in subscribers[p] :
    value[p] # Empty => received[c][p] = value[p]

\* A subscriber of a number that is not within a margin of zero shows it to less
\* than two margins: one is what get_clients_to_send tolerates, and an answer to
\* get(...), of which no record is made, can add one (common.h:51, serverlib.cpp:160-165).
NumberNear ==
  \A p \in Retained \cap Numeric : \A c \in subscribers[p] :
    Abs(value[p]) >= Margin =>
      received[c][p] \in Number /\ Abs(received[c][p] - value[p]) < 2 * Margin

\* The margin parameters.txt gives for a decimal parameter ("speed decimal any
\* 0.1"): what a subscriber was last told, or the 0 the server takes it to show
\* before that, is never a margin or more away from the value.
ShownWithinMargin ==
  \A p \in Retained \cap Numeric : \A c \in subscribers[p] :
    LET shown == IF received[c][p] = Nothing THEN 0 ELSE received[c][p]
    IN  Abs(shown - value[p]) < Margin
-------------------------------------------------------------------------------
(* The programs of this repository register exact names only, so that no   *)
(* two petitions of theirs select the same parameter.                      *)
Disjoint ==
  \A r, s \in Petition : r # s => Matches[r] \cap Matches[s] = {}

\* With disjoint petitions, whoever petitioned for a stored parameter, before it
\* existed or after, subscribes to it, and nobody else does.
SubscriptionComplete ==
  \A p \in parameters : subscribers[p] = Interested(p)

\* With disjoint petitions, every client knows exactly what is wanted: the lines
\* register(...) and unregister(...) it has been sent so far name, all in all,
\* the names some register selects.
DemandKnown ==
  \A d \in clients : offered[d] = UNION {Matches[r] : r \in registers}

\* What the broker promises: with disjoint petitions, and for the text parameters
\* that are not events, it is the retained publish/subscribe service of PubSub.
\* An interest is what a client's petitions select together.
Service == INSTANCE PubSub WITH
  Name <- Retained \ Numeric, Message <- Text, Blank <- Empty, None <- Nothing,
  online <- clients,
  interest <- [c \in Client |->
                 UNION {Matches[r] \ (Numeric \cup Event) :
                          r \in {s \in Petition : c \in petitioners[s]}}],
  sources <- [p \in Retained \ Numeric |-> providers[p]],
  retained <- [p \in Retained \ Numeric |-> value[p]],
  shown <- [c \in Client |-> [p \in Retained \ Numeric |-> received[c][p]]]

PubSubPromise == Service!Spec
===============================================================================
