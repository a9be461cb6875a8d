----------------------------- MODULE BrokerProofs -----------------------------
(***************************************************************************)
(* Theorems about Broker, for every set of clients, names, petitions and   *)
(* values, and every relation Matches: the bookkeeping of clients, what    *)
(* subscribers hold, and that nobody loses a subscription by what others   *)
(* do.  For petitions that select disjoint sets of names, subscriptions,   *)
(* and the demand every client knows of, are exactly what was petitioned   *)
(* for, and each step of Broker is a step of PubSub, the retained          *)
(* publish/subscribe service, or changes nothing of it.  The last two      *)
(* parts are about the lines a step writes and the queues they wait in,    *)
(* for the modules in which servers and programs are joined by them.       *)
(***************************************************************************)
EXTENDS Lines, TLAPS, SequenceTheorems, FiniteSetTheorems

\* Every value is a line that can be sent.
LEMMA ValueLine ==
  ASSUME NEW p \in Name
  PROVE  Value(p) \subseteq Line /\ Initial(p) \in Line \cup {0}
BY DEF Value, Line, Initial

\* The records of one parameter are typed.
RecordsOK(p, snt) ==
  /\ snt \in [Client -> Line \cup {0}]
  /\ \A c \in Client : snt[c] \in Value(p) \cup {Initial(p)}

\* What Parameter::Send leaves in the records is typed as what was there.
LEMMA AfterSendType ==
  ASSUME NEW p \in Name, NEW S, NEW v \in Value(p), NEW snt, RecordsOK(p, snt)
  PROVE  RecordsOK(p, AfterSend(p, S, snt, v))
BY ValueLine DEF AfterSend, RecordsOK

\* What UpdateEmptyRegisters and the removal of parameters leave is typed.
DiscardOK ==
  /\ registers' \subseteq Petition
  /\ petitioners' \in [Petition -> SUBSET Client]
  /\ notified' \in [Petition -> SUBSET Client]
  /\ parameters' \subseteq Name
  /\ value' \in [Name -> Line]
  /\ \A p \in Name : value'[p] \in IF p \in parameters' THEN Value(p) ELSE {Nothing}
  /\ providers' \in [Name -> SUBSET Client]
  /\ subscribers' \in [Name -> SUBSET Client]
  /\ sent' \in [Name -> [Client -> Line \cup {0}]]
  /\ \A p \in Name, c \in Client : sent'[p][c] \in Value(p) \cup {Initial(p)}

LEMMA DiscardType ==
  ASSUME TypeOK,
         NEW pet \in [Petition -> SUBSET Client], NEW ntf \in [Petition -> SUBSET Client],
         NEW subs \in [Name -> SUBSET Client], NEW prv \in [Name -> SUBSET Client],
         NEW gone, Discard(pet, ntf, subs, prv, gone)
  PROVE  DiscardOK
<1>1. /\ sent' \in [Name -> [Client -> Line \cup {0}]]
      /\ \A p \in Name, c \in Client : sent'[p][c] \in Value(p) \cup {Initial(p)}
  BY ValueLine DEF Discard, TypeOK
<1> QED
  BY <1>1 DEF Discard, DiscardOK, TypeOK, Line

LEMMA TypeInit == Init => TypeOK
BY DEF Init, TypeOK, Line, Initial

LEMMA TypeStep == TypeOK /\ [Next]_vars => TypeOK'
<1> SUFFICES ASSUME TypeOK, [Next]_vars PROVE TypeOK'
  OBVIOUS
<1> USE BrokerAssumption
<1>1. ASSUME NEW c \in Client, AddClient(c) PROVE TypeOK'
  BY <1>1 DEF TypeOK, AddClient
<1>2. ASSUME NEW c \in Client, RemoveClient(c) PROVE TypeOK'
  <2> DEFINE pet == Without(petitioners, c)
             ntf == Without(notified, c)
             subs == Unsubscribed(c, registers)
             unwanted == Unwanted(pet, subs)
             prv == Unprovided(c, unwanted)
  <2>1. Discard(pet, ntf, subs, prv, unwanted \cup Orphans(prv, unwanted))
    BY <1>2 DEF RemoveClient
  <2>2. /\ pet \in [Petition -> SUBSET Client] /\ ntf \in [Petition -> SUBSET Client]
        /\ subs \in [Name -> SUBSET Client] /\ prv \in [Name -> SUBSET Client]
    BY DEF TypeOK, Without, Unsubscribed, Unprovided
  <2> HIDE DEF pet, ntf, subs, prv
  <2>3. DiscardOK
    BY <2>1, <2>2, DiscardType
  <2>4. /\ received' \in [Client -> [Name -> Line]]
        /\ \A d \in Client, p \in Name : received'[d][p] \in Value(p) \cup {Nothing}
    BY <1>2 DEF TypeOK, RemoveClient, Line
  <2>5. clients' \subseteq Client /\ offered' \in [Client -> SUBSET Name]
    BY <1>2 DEF TypeOK, RemoveClient
  <2> QED
    BY <2>3, <2>4, <2>5 DEF TypeOK, DiscardOK
<1>3. ASSUME NEW c \in Client, NEW r \in Petition, AddRegisterPetition(c, r)
      PROVE  TypeOK'
  <2> DEFINE M == parameters \cap Matches[r]
             snt(p) == WithRegister(p, sent[p], c)
  <2>1. ASSUME NEW p \in M
        PROVE  /\ p \in Name /\ value[p] \in Value(p)
               /\ RecordsOK(p, AfterSend(p, subscribers[p] \cup {c}, snt(p), value[p]))
    <3>1. p \in Name /\ value[p] \in Value(p)
      BY DEF TypeOK
    <3>2. RecordsOK(p, snt(p))
      BY <3>1, ValueLine DEF TypeOK, WithRegister, RecordsOK
    <3> QED
      BY <3>1, <3>2, AfterSendType
  <2>2. sent' \in [Name -> [Client -> Line \cup {0}]]
    BY <1>3, <2>1 DEF AddRegisterPetition, TypeOK, RecordsOK
  <2>3. \A p \in Name, d \in Client : sent'[p][d] \in Value(p) \cup {Initial(p)}
    BY <1>3, <2>1 DEF AddRegisterPetition, TypeOK, RecordsOK
  <2>4. /\ received' \in [Client -> [Name -> Line]]
        /\ \A d \in Client, p \in Name : received'[d][p] \in Value(p) \cup {Nothing}
    BY <1>3, <2>1, ValueLine DEF AddRegisterPetition, TypeOK
  <2> QED
    BY <1>3, <2>2, <2>3, <2>4 DEF AddRegisterPetition, TypeOK
<1>4. ASSUME NEW c \in Client, NEW r \in Petition, RemoveRegisterPetition(c, r)
      PROVE  TypeOK'
  <2> DEFINE pet == [petitioners EXCEPT ![r] = @ \ {c}]
             subs == Unsubscribed(c, registers \cap {r})
  <2>1. Discard(pet, notified, subs, providers, Unwanted(pet, subs))
    BY <1>4 DEF RemoveRegisterPetition
  <2>2. /\ pet \in [Petition -> SUBSET Client] /\ subs \in [Name -> SUBSET Client]
        /\ notified \in [Petition -> SUBSET Client] /\ providers \in [Name -> SUBSET Client]
    BY DEF TypeOK, Unsubscribed
  <2> HIDE DEF pet, subs
  <2>3. DiscardOK
    BY <2>1, <2>2, DiscardType
  <2>4. offered' \in [Client -> SUBSET Name] /\ UNCHANGED <<clients, received>>
    BY <1>4 DEF TypeOK, RemoveRegisterPetition
  <2> QED
    BY <2>3, <2>4 DEF TypeOK, DiscardOK
<1>5. ASSUME NEW c \in Client, NEW p \in Name, NEW v \in Value(p), SetValue(c, p, v)
      PROVE  TypeOK'
  <2> DEFINE subs == IF p \in parameters THEN subscribers[p] ELSE Interested(p)
             snt == IF p \in parameters THEN sent[p] ELSE [d \in Client |-> Initial(p)]
  <2>1. subs \in SUBSET Client
    BY DEF TypeOK, Interested
  <2>2. RecordsOK(p, snt)
    BY ValueLine DEF TypeOK, RecordsOK
  <2>3. RecordsOK(p, AfterSend(p, subs, snt, v))
    BY <2>2, AfterSendType
  <2>4. /\ sent' \in [Name -> [Client -> Line \cup {0}]]
        /\ \A q \in Name, d \in Client : sent'[q][d] \in Value(q) \cup {Initial(q)}
    BY <1>5, <2>3 DEF SetValue, SubscribersOf, RecordsOf, TypeOK, RecordsOK
  <2>5. /\ received' \in [Client -> [Name -> Line]]
        /\ \A d \in Client, q \in Name : received'[d][q] \in Value(q) \cup {Nothing}
    BY <1>5, ValueLine DEF SetValue, SubscribersOf, RecordsOf, TypeOK
  <2>6. /\ value' \in [Name -> Line]
        /\ \A q \in Name : value'[q] \in IF q \in parameters' THEN Value(q) ELSE {Nothing}
    BY <1>5, ValueLine DEF SetValue, SubscribersOf, RecordsOf, TypeOK
  <2>7. /\ providers' \in [Name -> SUBSET Client]
        /\ subscribers' \in [Name -> SUBSET Client]
        /\ parameters' \subseteq Name
    BY <1>5, <2>1 DEF SetValue, SubscribersOf, RecordsOf, TypeOK
  <2>8. UNCHANGED <<clients, registers, petitioners, notified, offered>>
    BY <1>5 DEF SetValue, SubscribersOf, RecordsOf
  <2> HIDE DEF subs, snt
  <2> QED
    BY <2>4, <2>5, <2>6, <2>7, <2>8 DEF TypeOK
<1>6. ASSUME NEW c \in Client, NEW p \in Name, SetUnreadable(c, p) PROVE TypeOK'
  BY <1>6, ValueLine DEF TypeOK, SetUnreadable, Line
<1>7. ASSUME NEW c \in Client, NEW p \in Event, NEW v \in Value(p), NoRetain(c, p, v)
      PROVE  TypeOK'
  <2>1. p \in Name
    OBVIOUS
  <2>2. received' \in [Client -> [Name -> Line]]
    BY <1>7, <2>1, ValueLine DEF TypeOK, NoRetain
  <2>3. \A d \in Client, q \in Name : received'[d][q] \in Value(q) \cup {Nothing}
    BY <1>7, <2>1 DEF TypeOK, NoRetain
  <2> QED
    BY <1>7, <2>2, <2>3 DEF TypeOK, NoRetain
<1>8. ASSUME NEW c \in Client, NEW r \in Petition, Get(c, r) PROVE TypeOK'
  <2>1. \A p \in parameters : value[p] \in Value(p)
    BY DEF TypeOK
  <2>2. received' \in [Client -> [Name -> Line]]
    BY <1>8, <2>1, ValueLine DEF TypeOK, Get
  <2>3. \A d \in Client, q \in Name : received'[d][q] \in Value(q) \cup {Nothing}
    BY <1>8, <2>1 DEF TypeOK, Get
  <2> QED
    BY <1>8, <2>2, <2>3 DEF TypeOK, Get
<1>9. CASE UNCHANGED vars
  BY <1>9 DEF TypeOK, vars
<1> QED
  BY <1>1, <1>2, <1>3, <1>4, <1>5, <1>6, <1>7, <1>8, <1>9 DEF Next

\* Every variable of the broker keeps its type in every behaviour.
THEOREM TypeCorrect == Spec => []TypeOK
BY TypeInit, TypeStep, PTL DEF Spec
-------------------------------------------------------------------------------
(* The bookkeeping of clients.  ClientsKnown is not inductive by itself:   *)
(* RemoveClient drops a subscription only if a register selects the        *)
(* parameter, which is what SubscribersJustified provides.                 *)

\* What Discard is given is right for the clients in C.
Rightful(C, pet, ntf, subs, prv, gone) ==
  /\ C \in SUBSET Client
  /\ pet \in [Petition -> SUBSET C]
  /\ ntf \in [Petition -> SUBSET C]
  /\ subs \in [Name -> SUBSET C]
  /\ prv \in [Name -> SUBSET Client]
  /\ gone \in SUBSET Name
  /\ \A r \in Petition : pet[r] \subseteq petitioners[r]
  /\ \A r \in registers : ntf[r] = C
  /\ \A r \in Petition \ registers : ntf[r] = {}
  /\ \A p \in Name : \A d \in subs[p] :
       \E r \in registers : d \in pet[r] /\ p \in Matches[r]
  /\ \A p \in Name \ gone : prv[p] \subseteq C
  /\ \A p \in parameters \ gone : prv[p] # {}
  /\ \A p \in Name \ parameters : prv[p] = {} /\ subs[p] = {}

\* UpdateEmptyRegisters and the removal of parameters then keep the bookkeeping.
LEMMA DiscardKeepsBookkeeping ==
  ASSUME TypeOK, RegistersAlive,
         NEW C, NEW pet, NEW ntf, NEW subs, NEW prv, NEW gone,
         Rightful(C, pet, ntf, subs, prv, gone),
         Discard(pet, ntf, subs, prv, gone),
         clients' = C
  PROVE  Bookkeeping'
<1> USE BrokerAssumption DEF Rightful
<1>1. registers' = {r \in registers : pet[r] # {}}
  BY DEF Discard, EmptyRegisters
<1>2. ClientsKnown'
  <2>1. \A r \in Petition : petitioners'[r] \cup notified'[r] \subseteq C
    BY DEF Discard
  <2>2. \A p \in Name : providers'[p] \cup subscribers'[p] \subseteq C
    BY DEF Discard
  <2> QED
    BY <2>1, <2>2 DEF ClientsKnown
<1>3. SubscribersJustified'
  <2> SUFFICES ASSUME NEW p \in Name, NEW d \in subscribers'[p]
               PROVE  \E r \in registers' : d \in petitioners'[r] /\ p \in Matches[r]
    BY DEF SubscribersJustified
  <2>1. d \in subs[p]
    BY DEF Discard
  <2>2. PICK r \in registers : d \in pet[r] /\ p \in Matches[r]
    BY <2>1
  <2>3. r \in registers' /\ d \in petitioners'[r]
    BY <1>1, <2>2 DEF Discard
  <2> QED
    BY <2>2, <2>3
<1>4. RegistersAlive'
  <2> SUFFICES ASSUME NEW r \in Petition
               PROVE  /\ r \in registers' <=> petitioners'[r] # {}
                      /\ notified'[r] = IF r \in registers' THEN clients' ELSE {}
    BY DEF RegistersAlive
  <2>1. r \in registers' <=> petitioners'[r] # {}
    BY <1>1 DEF Discard, RegistersAlive
  <2>2. notified'[r] = IF r \in registers' THEN C ELSE {}
    BY <1>1 DEF Discard, EmptyRegisters
  <2> QED
    BY <2>1, <2>2
<1>5. ParametersProvided'
  BY DEF ParametersProvided, Discard
<1> QED
  BY <1>2, <1>3, <1>4, <1>5 DEF Bookkeeping

LEMMA BookkeepingInit == Init => Bookkeeping
BY DEF Init, Bookkeeping, ClientsKnown, SubscribersJustified, RegistersAlive,
       ParametersProvided

LEMMA BookkeepingStep == TypeOK /\ Bookkeeping /\ [Next]_vars => Bookkeeping'
<1> SUFFICES ASSUME TypeOK, Bookkeeping, [Next]_vars PROVE Bookkeeping'
  OBVIOUS
<1> USE BrokerAssumption
<1>0. ClientsKnown /\ SubscribersJustified /\ RegistersAlive /\ ParametersProvided
  BY DEF Bookkeeping
<1>1. ASSUME NEW c \in Client, AddClient(c) PROVE Bookkeeping'
  <2>1. ClientsKnown'
    BY <1>0, <1>1 DEF ClientsKnown, AddClient, TypeOK
  <2>2. SubscribersJustified' /\ ParametersProvided'
    BY <1>0, <1>1 DEF SubscribersJustified, ParametersProvided, AddClient
  <2>3. RegistersAlive'
    BY <1>0, <1>1 DEF RegistersAlive, AddClient, TypeOK
  <2> QED
    BY <2>1, <2>2, <2>3 DEF Bookkeeping
<1>2. ASSUME NEW c \in Client, RemoveClient(c) PROVE Bookkeeping'
  <2> DEFINE C == clients \ {c}
             pet == Without(petitioners, c)
             ntf == Without(notified, c)
             subs == Unsubscribed(c, registers)
             unwanted == Unwanted(pet, subs)
             prv == Unprovided(c, unwanted)
             gone == unwanted \cup Orphans(prv, unwanted)
  <2>1. Discard(pet, ntf, subs, prv, gone) /\ clients' = C
    BY <1>2 DEF RemoveClient
  <2>2. C \in SUBSET Client /\ pet \in [Petition -> SUBSET C] /\ ntf \in [Petition -> SUBSET C]
    BY <1>0 DEF TypeOK, ClientsKnown, Without
  <2>3. /\ \A r \in Petition : pet[r] = petitioners[r] \ {c}
        /\ \A r \in registers : ntf[r] = C
        /\ \A r \in Petition \ registers : ntf[r] = {}
    BY <1>0 DEF TypeOK, RegistersAlive, Without
  <2>4. \A p \in Name : c \notin subs[p] /\ subs[p] \subseteq subscribers[p]
    BY <1>0 DEF SubscribersJustified, Unsubscribed
  <2>5. subs \in [Name -> SUBSET C]
    <3>1. \A p \in Name : subs[p] \subseteq C
      BY <1>0, <2>4 DEF ClientsKnown
    <3>2. subs = [p \in Name |-> subs[p]]
      BY DEF Unsubscribed
    <3> QED
      BY <3>1, <3>2
  <2>6. \A p \in Name : \A d \in subs[p] :
          \E r \in registers : d \in pet[r] /\ p \in Matches[r]
    <3> SUFFICES ASSUME NEW p \in Name, NEW d \in subs[p]
                 PROVE  \E r \in registers : d \in pet[r] /\ p \in Matches[r]
      OBVIOUS
    <3>1. PICK r \in registers : d \in petitioners[r] /\ p \in Matches[r]
      BY <1>0, <2>4 DEF SubscribersJustified
    <3>2. d # c
      BY <2>4
    <3>3. r \in Petition
      BY DEF TypeOK
    <3> QED
      BY <2>3, <3>1, <3>2, <3>3
  <2>7. \A p \in Name \ parameters : prv[p] = {} /\ subs[p] = {}
    BY <1>0, <2>4 DEF ParametersProvided, Unprovided
  <2>8. \A p \in parameters \ gone : prv[p] # {}
    BY DEF Orphans
  <2>9. gone \in SUBSET Name
    BY DEF TypeOK, Unwanted, Orphans
  <2>10. prv \in [Name -> SUBSET Client] /\ \A p \in Name \ gone : prv[p] \subseteq C
    BY <1>0 DEF Unprovided, Orphans, ClientsKnown, ParametersProvided, TypeOK
  <2> HIDE DEF C, pet, ntf, subs, unwanted, prv, gone
  <2>11. \A r \in Petition : pet[r] \subseteq petitioners[r]
    BY <2>3
  <2>12. Rightful(C, pet, ntf, subs, prv, gone)
    BY <2>2, <2>3, <2>5, <2>6, <2>7, <2>8, <2>9, <2>10, <2>11 DEF Rightful
  <2> QED
    BY <1>0, <2>1, <2>12, DiscardKeepsBookkeeping
<1>3. ASSUME NEW c \in Client, NEW r \in Petition, AddRegisterPetition(c, r)
      PROVE  Bookkeeping'
  <2>0. /\ registers' = registers \cup {r}
        /\ petitioners' = [petitioners EXCEPT ![r] = @ \cup {c}]
        /\ subscribers' = [p \in Name |-> IF p \in parameters \cap Matches[r]
                                            THEN subscribers[p] \cup {c} ELSE subscribers[p]]
        /\ c \in clients
        /\ UNCHANGED <<clients, parameters, providers>>
    BY <1>3 DEF AddRegisterPetition
  <2>1. ClientsKnown'
    <3>1. \A s \in Petition : petitioners'[s] \cup notified'[s] \subseteq clients
      BY <1>0, <1>3 DEF ClientsKnown, AddRegisterPetition, TypeOK
    <3>2. \A p \in Name : providers'[p] \cup subscribers'[p] \subseteq clients
      BY <1>0, <2>0 DEF ClientsKnown
    <3> QED
      BY <2>0, <3>1, <3>2 DEF ClientsKnown
  <2>2. SubscribersJustified'
    BY <1>0, <2>0 DEF SubscribersJustified, TypeOK
  <2>3. RegistersAlive'
    BY <1>0, <1>3 DEF RegistersAlive, AddRegisterPetition, TypeOK
  <2>4. ParametersProvided'
    BY <1>0, <2>0 DEF ParametersProvided, TypeOK
  <2> QED
    BY <2>1, <2>2, <2>3, <2>4 DEF Bookkeeping
<1>4. ASSUME NEW c \in Client, NEW r \in Petition, RemoveRegisterPetition(c, r)
      PROVE  Bookkeeping'
  <2> DEFINE pet == [petitioners EXCEPT ![r] = @ \ {c}]
             subs == Unsubscribed(c, registers \cap {r})
             gone == Unwanted(pet, subs)
  <2>1. Discard(pet, notified, subs, providers, gone) /\ clients' = clients
    BY <1>4 DEF RemoveRegisterPetition
  <2>2. /\ clients \in SUBSET Client
        /\ pet \in [Petition -> SUBSET clients]
        /\ notified \in [Petition -> SUBSET clients]
    BY <1>0 DEF TypeOK, ClientsKnown
  <2>3. \A s \in Petition : pet[s] = IF s = r THEN petitioners[s] \ {c} ELSE petitioners[s]
    BY DEF TypeOK
  <2>4. subs \in [Name -> SUBSET clients]
    BY <1>0 DEF ClientsKnown, Unsubscribed
  <2>5. \A p \in Name : \A d \in subs[p] :
          \E s \in registers : d \in pet[s] /\ p \in Matches[s]
    <3> SUFFICES ASSUME NEW p \in Name, NEW d \in subs[p]
                 PROVE  \E s \in registers : d \in pet[s] /\ p \in Matches[s]
      OBVIOUS
    <3>1. d \in subscribers[p] /\ (r \in registers /\ p \in Matches[r] => d # c)
      BY DEF Unsubscribed
    <3>2. PICK s \in registers : d \in petitioners[s] /\ p \in Matches[s]
      BY <1>0, <3>1 DEF SubscribersJustified
    <3>3. s \in Petition
      BY DEF TypeOK
    <3> QED
      BY <2>3, <3>1, <3>2, <3>3
  <2>6. /\ \A p \in Name \ parameters : providers[p] = {} /\ subs[p] = {}
        /\ \A p \in parameters \ gone : providers[p] # {}
    BY <1>0 DEF ParametersProvided, Unsubscribed, TypeOK
  <2>7. gone \in SUBSET Name
    BY DEF TypeOK, Unwanted
  <2>8. /\ \A s \in registers : notified[s] = clients
        /\ \A s \in Petition \ registers : notified[s] = {}
    BY <1>0 DEF RegistersAlive, TypeOK
  <2>9. providers \in [Name -> SUBSET Client] /\ \A p \in Name \ gone : providers[p] \subseteq clients
    BY <1>0 DEF ClientsKnown, TypeOK
  <2> HIDE DEF pet, subs, gone
  <2>10. \A s \in Petition : pet[s] \subseteq petitioners[s]
    BY <2>3
  <2>11. Rightful(clients, pet, notified, subs, providers, gone)
    BY <2>2, <2>4, <2>5, <2>6, <2>7, <2>8, <2>9, <2>10 DEF Rightful
  <2> QED
    BY <1>0, <2>1, <2>11, DiscardKeepsBookkeeping
<1>5. ASSUME NEW c \in Client, NEW p \in Name, NEW v \in Value(p), SetValue(c, p, v)
      PROVE  Bookkeeping'
  <2>0. /\ parameters' = parameters \cup {p}
        /\ providers' = [providers EXCEPT ![p] = @ \cup {c}]
        /\ subscribers' = [subscribers EXCEPT ![p] =
                             IF p \in parameters THEN subscribers[p] ELSE Interested(p)]
        /\ c \in clients
        /\ UNCHANGED <<clients, registers, petitioners, notified>>
    BY <1>5 DEF SetValue, SubscribersOf, RecordsOf
  <2>1. Interested(p) \subseteq clients
    BY <1>0 DEF Interested, ClientsKnown, TypeOK
  <2>2. ClientsKnown'
    BY <1>0, <2>0, <2>1 DEF ClientsKnown, TypeOK
  <2>3. SubscribersJustified'
    BY <1>0, <2>0 DEF SubscribersJustified, Interested, TypeOK
  <2>4. RegistersAlive'
    BY <1>0, <2>0 DEF RegistersAlive
  <2>5. ParametersProvided'
    BY <1>0, <2>0 DEF ParametersProvided, TypeOK
  <2> QED
    BY <2>2, <2>3, <2>4, <2>5 DEF Bookkeeping
<1>6. ASSUME NEW c \in Client, NEW p \in Name, SetUnreadable(c, p) PROVE Bookkeeping'
  BY <1>6 DEF SetUnreadable, Bookkeeping, ClientsKnown, SubscribersJustified,
       RegistersAlive, ParametersProvided
<1>7. ASSUME NEW c \in Client, NEW p \in Event, NEW v \in Value(p), NoRetain(c, p, v)
      PROVE  Bookkeeping'
  BY <1>0, <1>7 DEF NoRetain, Bookkeeping, ClientsKnown, SubscribersJustified,
       RegistersAlive, ParametersProvided
<1>8. ASSUME NEW c \in Client, NEW r \in Petition, Get(c, r) PROVE Bookkeeping'
  BY <1>0, <1>8 DEF Get, Bookkeeping, ClientsKnown, SubscribersJustified,
       RegistersAlive, ParametersProvided
<1>9. CASE UNCHANGED vars
  BY <1>0, <1>9 DEF Bookkeeping, ClientsKnown, SubscribersJustified, RegistersAlive,
       ParametersProvided, vars
<1> QED
  BY <1>1, <1>2, <1>3, <1>4, <1>5, <1>6, <1>7, <1>8, <1>9 DEF Next

LEMMA BookkeepingInvariant == Spec => [](TypeOK /\ Bookkeeping)
<1>1. Init => TypeOK /\ Bookkeeping
  BY TypeInit, BookkeepingInit
<1>2. TypeOK /\ Bookkeeping /\ [Next]_vars => (TypeOK /\ Bookkeeping)'
  BY TypeStep, BookkeepingStep
<1> QED
  BY <1>1, <1>2, PTL DEF Spec

\* The sets of clients, registers and parameters fit together, for every relation
\* Matches, overlapping or not.
THEOREM BookkeepingAlways == Spec => []Bookkeeping
BY BookkeepingInvariant, PTL

\* No set the server writes from ever holds a client that has left: whatever the
\* petitions and however they overlap, RemoveClient leaves no dangling pointer.
THEOREM ClientsKnownAlways == Spec => []ClientsKnown
<1>1. TypeOK /\ Bookkeeping => ClientsKnown
  BY DEF Bookkeeping
<1> QED
  BY <1>1, BookkeepingInvariant, PTL
-------------------------------------------------------------------------------
(* What subscribers hold.  The records ParameterData keeps are true and    *)
(* never out of date, so a subscriber holds the value, or is near it.      *)

LEMMA OwnValueIsFresh ==
  ASSUME NEW p \in Name, NEW v \in Value(p)
  PROVE  ~ OutOfDate(p, v, v)
BY BrokerAssumption DEF OutOfDate, Value, Abs

\* After Parameter::Send nobody it may write to is out of date, and a record that
\* changed is the value just written.
LEMMA SendIsFresh ==
  ASSUME NEW p \in Name, NEW S, NEW snt, NEW v \in Value(p), NEW c \in Client, c \in S
  PROVE  /\ ~ OutOfDate(p, AfterSend(p, S, snt, v)[c], v)
         /\ AfterSend(p, S, snt, v)[c] = IF c \in Outdated(p, S, snt, v) THEN v ELSE snt[c]
BY OwnValueIsFresh DEF AfterSend, Outdated

\* An answer to get(...) agrees with a record that is not out of date.
LEMMA FreshAgrees ==
  ASSUME NEW p \in Name, NEW v \in Value(p), NEW record \in Value(p) \cup {Initial(p)},
         ~ OutOfDate(p, record, v)
  PROVE  Agrees(p, record, v)
<1>1. CASE p \in Numeric
  BY <1>1, BrokerAssumption DEF OutOfDate, Agrees, Value, Initial, Abs
<1>2. CASE p \notin Numeric
  BY <1>2 DEF OutOfDate, Agrees
<1> QED
  BY <1>1, <1>2

Delivery == Fresh /\ RecordsTrue

LEMMA DeliveryInit == Init => Delivery
BY DEF Init, Delivery, Fresh, RecordsTrue, Retained

\* Removing parameters and subscriptions owes nobody a line.
LEMMA DiscardKeepsDelivery ==
  ASSUME TypeOK, Delivery, NEW pet, NEW ntf, NEW subs, NEW prv, NEW gone,
         Discard(pet, ntf, subs, prv, gone),
         \A p \in Name : subs[p] \subseteq subscribers[p],
         \A p \in Name : \A c \in subscribers'[p] : received'[c] = received[c]
  PROVE  Delivery'
<1>1. ASSUME NEW p \in Name, NEW c \in subscribers'[p]
      PROVE  /\ p \notin gone /\ c \in subscribers[p] /\ c \in Client
             /\ sent'[p][c] = sent[p][c] /\ value'[p] = value[p]
  BY DEF Discard, TypeOK
<1>2. Fresh'
  <2> SUFFICES ASSUME NEW p \in parameters', NEW c \in subscribers'[p]
               PROVE  ~ OutOfDate(p, sent'[p][c], value'[p])
    BY DEF Fresh, OutOfDate, Abs
  <2>1. p \in parameters /\ p \in Name
    BY DEF Discard, TypeOK
  <2> QED
    BY <1>1, <2>1 DEF Delivery, Fresh
<1>3. RecordsTrue'
  <2> SUFFICES ASSUME NEW p \in Retained, NEW c \in subscribers'[p]
               PROVE  Agrees(p, sent'[p][c], received'[c][p])
    BY DEF RecordsTrue, Agrees, Abs, Initial
  <2>1. p \in Name
    BY DEF Retained
  <2> QED
    BY <1>1, <2>1 DEF Delivery, RecordsTrue
<1> QED
  BY <1>2, <1>3 DEF Delivery

\* A step after which each subscription is fresh and true keeps Delivery.
LEMMA DeliveryPointwise ==
  ASSUME parameters' \subseteq Name,
         \A p \in Name : \A c \in subscribers'[p] :
           /\ p \in parameters' => ~ OutOfDate(p, sent'[p][c], value'[p])
           /\ p \in Retained => Agrees(p, sent'[p][c], received'[c][p])
  PROVE  Delivery'
<1>1. Fresh'
  BY DEF Fresh, OutOfDate, Abs
<1>2. RecordsTrue'
  BY DEF RecordsTrue, Agrees, Abs, Initial, Retained
<1> QED
  BY <1>1, <1>2 DEF Delivery

LEMMA DeliveryStep ==
  TypeOK /\ Bookkeeping /\ Bookkeeping' /\ Delivery /\ [Next]_vars => Delivery'
<1> SUFFICES ASSUME TypeOK, Bookkeeping, Bookkeeping', Delivery, [Next]_vars
             PROVE  Delivery'
  OBVIOUS
<1> USE BrokerAssumption
<1>0. /\ ClientsKnown' /\ ClientsKnown /\ ParametersProvided /\ Fresh /\ RecordsTrue
      /\ TypeOK'
  BY TypeStep DEF Bookkeeping, Delivery
<1>1. ASSUME NEW c \in Client, AddClient(c) PROVE Delivery'
  BY <1>0, <1>1 DEF AddClient, Delivery, Fresh, RecordsTrue
<1>2. ASSUME NEW c \in Client, RemoveClient(c) PROVE Delivery'
  <2> DEFINE pet == Without(petitioners, c)
             ntf == Without(notified, c)
             subs == Unsubscribed(c, registers)
             unwanted == Unwanted(pet, subs)
             prv == Unprovided(c, unwanted)
             gone == unwanted \cup Orphans(prv, unwanted)
  <2>1. Discard(pet, ntf, subs, prv, gone) /\ clients' = clients \ {c}
    BY <1>2 DEF RemoveClient
  <2>2. \A p \in Name : subs[p] \subseteq subscribers[p]
    BY DEF Unsubscribed
  <2>3. \A p \in Name : \A d \in subscribers'[p] : received'[d] = received[d]
    BY <1>0, <1>2, <2>1 DEF RemoveClient, ClientsKnown, TypeOK
  <2> HIDE DEF pet, ntf, subs, prv, gone
  <2> QED
    BY <2>1, <2>2, <2>3, DiscardKeepsDelivery
<1>3. ASSUME NEW c \in Client, NEW r \in Petition, AddRegisterPetition(c, r)
      PROVE  Delivery'
  <2> DEFINE M == parameters \cap Matches[r]
             S(p) == subscribers[p] \cup {c}
             snt(p) == WithRegister(p, sent[p], c)
  <2> SUFFICES ASSUME NEW p \in Name, NEW d \in subscribers'[p]
               PROVE  /\ p \in parameters' => ~ OutOfDate(p, sent'[p][d], value'[p])
                      /\ p \in Retained => Agrees(p, sent'[p][d], received'[d][p])
    BY <1>0, DeliveryPointwise DEF TypeOK
  <2>0. d \in Client
    BY <1>0 DEF TypeOK
  <2>1. CASE p \notin M
    <3>1. /\ d \in subscribers[p] /\ sent'[p] = sent[p] /\ received'[d][p] = received[d][p]
          /\ value' = value /\ parameters' = parameters
      BY <1>3, <2>0, <2>1 DEF AddRegisterPetition
    <3> QED
      BY <1>0, <3>1 DEF Fresh, RecordsTrue
  <2>2. CASE p \in M
    <3>1. /\ d \in S(p) /\ sent'[p] = AfterSend(p, S(p), snt(p), value[p])
          /\ received'[d][p] = IF d \in Outdated(p, S(p), snt(p), value[p])
                                 THEN value[p] ELSE received[d][p]
          /\ value' = value /\ value[p] \in Value(p)
      BY <1>3, <2>0, <2>2 DEF AddRegisterPetition, TypeOK
    <3>2. snt(p)[d] = IF d = c THEN Initial(p) ELSE sent[p][d]
      BY <2>0 DEF WithRegister, TypeOK
    <3> HIDE DEF M, S, snt
    <3>3. /\ ~ OutOfDate(p, sent'[p][d], value[p])
          /\ sent'[p][d] = IF d \in Outdated(p, S(p), snt(p), value[p])
                             THEN value[p] ELSE snt(p)[d]
      BY <2>0, <3>1, SendIsFresh
    <3>4. p \in Retained => Agrees(p, sent'[p][d], received'[d][p])
      <4>1. CASE d \in Outdated(p, S(p), snt(p), value[p])
        BY <3>1, <3>3, <4>1 DEF Agrees
      <4>2. CASE d \notin Outdated(p, S(p), snt(p), value[p])
        <5>1. sent'[p][d] = snt(p)[d] /\ received'[d][p] = received[d][p]
          BY <3>1, <3>3, <4>2
        <5>2. CASE d = c
          BY <3>2, <5>1, <5>2 DEF Agrees
        <5>3. CASE d # c
          <6>1. d \in subscribers[p]
            BY <3>1, <5>3 DEF S
          <6> QED
            BY <1>0, <3>2, <5>1, <5>3, <6>1 DEF RecordsTrue
        <5> QED
          BY <5>2, <5>3
      <4> QED
        BY <4>1, <4>2
    <3> QED
      BY <3>1, <3>3, <3>4
  <2> QED
    BY <2>1, <2>2
<1>4. ASSUME NEW c \in Client, NEW r \in Petition, RemoveRegisterPetition(c, r)
      PROVE  Delivery'
  <2> DEFINE pet == [petitioners EXCEPT ![r] = @ \ {c}]
             subs == Unsubscribed(c, registers \cap {r})
             gone == Unwanted(pet, subs)
  <2>1. Discard(pet, notified, subs, providers, gone) /\ received' = received
    BY <1>4 DEF RemoveRegisterPetition
  <2>2. \A p \in Name : subs[p] \subseteq subscribers[p]
    BY DEF Unsubscribed
  <2> HIDE DEF pet, subs, gone
  <2> QED
    BY <2>1, <2>2, DiscardKeepsDelivery
<1>5. ASSUME NEW c \in Client, NEW q \in Name, NEW v \in Value(q), SetValue(c, q, v)
      PROVE  Delivery'
  <2> DEFINE subs == IF q \in parameters THEN subscribers[q] ELSE Interested(q)
             snt == IF q \in parameters THEN sent[q] ELSE [d \in Client |-> Initial(q)]
  <2> SUFFICES ASSUME NEW p \in Name, NEW d \in subscribers'[p]
               PROVE  /\ p \in parameters' => ~ OutOfDate(p, sent'[p][d], value'[p])
                      /\ p \in Retained => Agrees(p, sent'[p][d], received'[d][p])
    BY <1>0, DeliveryPointwise DEF TypeOK
  <2>0. d \in Client
    BY <1>0 DEF TypeOK
  <2>1. CASE p # q
    <3>1. /\ d \in subscribers[p] /\ sent'[p] = sent[p] /\ received'[d][p] = received[d][p]
          /\ value'[p] = value[p]
          /\ p \in parameters' => p \in parameters
      BY <1>5, <2>0, <2>1 DEF SetValue, SubscribersOf, RecordsOf, TypeOK
    <3> QED
      BY <1>0, <3>1 DEF Fresh, RecordsTrue
  <2>2. CASE p = q
    <3>1. /\ d \in subs /\ sent'[p] = AfterSend(p, subs, snt, v) /\ value'[p] = v
          /\ received'[d][p] = IF d \in Outdated(p, subs, snt, v) THEN v ELSE received[d][p]
      BY <1>5, <2>0, <2>2 DEF SetValue, SubscribersOf, RecordsOf, TypeOK
    <3>2. \/ snt[d] = Initial(p)
          \/ d \in subscribers[p] /\ snt[d] = sent[p][d]
      BY <2>0, <2>2, <3>1
    <3> HIDE DEF subs, snt
    <3>3. /\ ~ OutOfDate(p, sent'[p][d], v)
          /\ sent'[p][d] = IF d \in Outdated(p, subs, snt, v) THEN v ELSE snt[d]
      BY <2>0, <2>2, <3>1, SendIsFresh
    <3>4. p \in Retained => Agrees(p, sent'[p][d], received'[d][p])
      <4>1. CASE d \in Outdated(p, subs, snt, v)
        BY <3>1, <3>3, <4>1 DEF Agrees
      <4>2. CASE d \notin Outdated(p, subs, snt, v)
        <5>1. sent'[p][d] = snt[d] /\ received'[d][p] = received[d][p]
          BY <3>1, <3>3, <4>2
        <5> QED
          BY <1>0, <3>2, <5>1 DEF RecordsTrue, Agrees
      <4> QED
        BY <4>1, <4>2
    <3> QED
      BY <3>1, <3>3, <3>4
  <2> QED
    BY <2>1, <2>2
<1>6. ASSUME NEW c \in Client, NEW p \in Name, SetUnreadable(c, p) PROVE Delivery'
  <2>1. /\ parameters' = {}
        /\ \A q \in Name : subscribers'[q] = {}
    BY <1>6 DEF SetUnreadable
  <2> QED
    BY <2>1, DeliveryPointwise
<1>7. ASSUME NEW c \in Client, NEW q \in Event, NEW v \in Value(q), NoRetain(c, q, v)
      PROVE  Delivery'
  <2> SUFFICES ASSUME NEW p \in Name, NEW d \in subscribers'[p]
               PROVE  /\ p \in parameters' => ~ OutOfDate(p, sent'[p][d], value'[p])
                      /\ p \in Retained => Agrees(p, sent'[p][d], received'[d][p])
    BY <1>0, DeliveryPointwise DEF TypeOK
  <2>1. /\ UNCHANGED <<parameters, subscribers, sent, value>>
        /\ d \in Client
    BY <1>0, <1>7 DEF NoRetain, TypeOK
  <2>2. p \in Retained => received'[d][p] = received[d][p]
    BY <1>7, <2>1 DEF NoRetain, Retained, TypeOK
  <2> QED
    BY <1>0, <2>1, <2>2 DEF Fresh, RecordsTrue
<1>8. ASSUME NEW c \in Client, NEW r \in Petition, Get(c, r) PROVE Delivery'
  <2> SUFFICES ASSUME NEW p \in Name, NEW d \in subscribers'[p]
               PROVE  /\ p \in parameters' => ~ OutOfDate(p, sent'[p][d], value'[p])
                      /\ p \in Retained => Agrees(p, sent'[p][d], received'[d][p])
    BY <1>0, DeliveryPointwise DEF TypeOK
  <2>1. /\ UNCHANGED <<parameters, subscribers, sent, value>>
        /\ d \in Client
    BY <1>0, <1>8 DEF Get, TypeOK
  <2>2. CASE d = c /\ p \in parameters \cap Matches[r]
    <3>1. received'[d][p] = value[p] /\ value[p] \in Value(p)
      BY <1>8, <2>1, <2>2 DEF Get, TypeOK
    <3>2. ~ OutOfDate(p, sent[p][d], value[p])
      BY <1>0, <2>1, <2>2 DEF Fresh
    <3>3. sent[p][d] \in Value(p) \cup {Initial(p)}
      BY <2>1 DEF TypeOK
    <3> QED
      BY <2>1, <3>1, <3>2, <3>3, FreshAgrees
  <2>3. CASE ~ (d = c /\ p \in parameters \cap Matches[r])
    <3>1. received'[d][p] = received[d][p]
      BY <1>8, <2>1, <2>3 DEF Get, TypeOK
    <3> QED
      BY <1>0, <2>1, <3>1 DEF Fresh, RecordsTrue
  <2> QED
    BY <2>2, <2>3
<1>9. CASE UNCHANGED vars
  BY <1>0, <1>9 DEF Delivery, Fresh, RecordsTrue, vars
<1> QED
  BY <1>1, <1>2, <1>3, <1>4, <1>5, <1>6, <1>7, <1>8, <1>9 DEF Next

LEMMA DeliveryAlways == Spec => [](TypeOK /\ Bookkeeping /\ Delivery)
<1>1. Init => Delivery
  BY DeliveryInit
<1>2. TypeOK /\ Bookkeeping /\ (TypeOK /\ Bookkeeping)' /\ Delivery /\ [Next]_vars => Delivery'
  BY DeliveryStep
<1> QED
  BY <1>1, <1>2, BookkeepingInvariant, PTL DEF Spec

\* The record the update test relies on is what the subscriber holds, or less than a
\* margin off it after a query.
THEOREM RecordsTrueAlways == Spec => []RecordsTrue
<1>1. Delivery => RecordsTrue
  BY DEF Delivery
<1> QED
  BY <1>1, DeliveryAlways, PTL

\* A subscriber of a text parameter has received its value, in every order of
\* petitions, values, queries, events, arrivals and departures.
THEOREM SubscriberUpToDateAlways == Spec => []SubscriberUpToDate
<1>1. TypeOK /\ Bookkeeping /\ Delivery => SubscriberUpToDate
  <2> SUFFICES ASSUME TypeOK, Bookkeeping, Delivery,
                      NEW p \in Retained \ Numeric, NEW c \in subscribers[p],
                      value[p] # Empty
               PROVE  received[c][p] = value[p]
    BY DEF SubscriberUpToDate
  <2>1. p \in Name /\ p \in parameters
    BY DEF Bookkeeping, ParametersProvided, Retained
  <2>2. sent[p][c] = value[p]
    BY <2>1 DEF Delivery, Fresh, OutOfDate
  <2>3. Agrees(p, sent[p][c], received[c][p])
    BY DEF Delivery, RecordsTrue
  <2> QED
    BY <2>2, <2>3 DEF Agrees, Initial
<1> QED
  BY <1>1, DeliveryAlways, PTL

\* A subscriber of a number a margin or more away from zero shows it to less than
\* two margins, whatever mixture of values and queries it has seen.
THEOREM NumberNearAlways == Spec => []NumberNear
<1>1. TypeOK /\ Bookkeeping /\ Delivery => NumberNear
  <2> SUFFICES ASSUME TypeOK, Bookkeeping, Delivery,
                      NEW p \in Retained \cap Numeric, NEW c \in subscribers[p],
                      Abs(value[p]) >= Margin
               PROVE  received[c][p] \in Number /\ Abs(received[c][p] - value[p]) < 2 * Margin
    BY DEF NumberNear
  <2>1. /\ p \in Name /\ p \in parameters
        /\ c \in Client
    BY DEF Bookkeeping, ParametersProvided, Retained, TypeOK
  <2>2. value[p] \in Int /\ sent[p][c] \in Int /\ sent[p][c] \in Number \cup {0}
    <3>1. value[p] \in Value(p) /\ sent[p][c] \in Value(p) \cup {Initial(p)}
      BY <2>1 DEF TypeOK
    <3>2. Value(p) = Number /\ Initial(p) = 0
      BY DEF Value, Initial
    <3>3. value[p] \in Number /\ sent[p][c] \in Number \cup {0}
      BY <3>1, <3>2
    <3>4. Number \subseteq Int
      BY BrokerAssumption
    <3>5. \A n \in Number \cup {0} : n \in Int
      BY <3>4
    <3> QED
      BY <3>3, <3>5
  <2>3. ~ OutOfDate(p, sent[p][c], value[p])
    BY <2>1 DEF Delivery, Fresh
  <2>4. Abs(sent[p][c] - value[p]) < Margin /\ sent[p][c] # 0
    BY <2>2, <2>3, BrokerAssumption DEF OutOfDate, Abs
  <2>5. \/ received[c][p] = sent[p][c]
        \/ received[c][p] \in Number /\ Abs(received[c][p] - sent[p][c]) < Margin
    BY <2>4 DEF Delivery, RecordsTrue, Agrees, Initial
  <2>6. received[c][p] \in Number /\ received[c][p] \in Int
    BY <2>2, <2>4, <2>5, BrokerAssumption
  <2>7. Abs(received[c][p] - sent[p][c]) < Margin
    BY <2>2, <2>5, BrokerAssumption DEF Abs
  <2>8. ASSUME NEW x \in Int, NEW y \in Int, NEW z \in Int, NEW m \in Nat,
               Abs(x - y) < m, Abs(y - z) < m
        PROVE  Abs(x - z) < 2 * m
    BY <2>8 DEF Abs
  <2> QED
    BY <2>2, <2>4, <2>6, <2>7, <2>8, BrokerAssumption
<1> QED
  BY <1>1, DeliveryAlways, PTL
-------------------------------------------------------------------------------
(* The petitions a client withdraws, and those it leaves behind.           *)

\* What RemoveRegisterPetition(c, r) hands to UpdateEmptyRegisters.
Leaving(c, r) == [petitioners EXCEPT ![r] = @ \ {c}]

\* Every subscription in subs has a petition in pet behind it.
Backed(pet, subs) ==
  \A p \in Name : \A d \in subs[p] : \E r \in registers : d \in pet[r] /\ p \in Matches[r]

LEMMA BackedAfterUnregister ==
  ASSUME TypeOK, Bookkeeping, NEW c \in Client, NEW r \in Petition
  PROVE  Backed(Leaving(c, r), Unsubscribed(c, registers \cap {r}))
<1> SUFFICES ASSUME NEW p \in Name, NEW d \in Unsubscribed(c, registers \cap {r})[p]
             PROVE  \E s \in registers : d \in Leaving(c, r)[s] /\ p \in Matches[s]
  BY DEF Backed
<1>1. /\ d \in subscribers[p]
      /\ r \in registers /\ p \in Matches[r] => d # c
  BY DEF Unsubscribed
<1>2. PICK s \in registers : d \in petitioners[s] /\ p \in Matches[s]
  BY <1>1 DEF Bookkeeping, SubscribersJustified
<1>3. s = r => d # c
  BY <1>1, <1>2
<1>4. d \in Leaving(c, r)[s]
  BY <1>2, <1>3 DEF Leaving, TypeOK
<1> QED  BY <1>2, <1>4

LEMMA BackedAfterDeparture ==
  ASSUME TypeOK, Bookkeeping, NEW c \in Client
  PROVE  Backed(Without(petitioners, c), Unsubscribed(c, registers))
<1> SUFFICES ASSUME NEW p \in Name, NEW d \in Unsubscribed(c, registers)[p]
             PROVE  \E s \in registers : d \in Without(petitioners, c)[s] /\ p \in Matches[s]
  BY DEF Backed
<1>1. /\ d \in subscribers[p]
      /\ (\E s \in registers : p \in Matches[s]) => d # c
  BY DEF Unsubscribed
<1>2. PICK s \in registers : d \in petitioners[s] /\ p \in Matches[s]
  BY <1>1 DEF Bookkeeping, SubscribersJustified
<1>3. d \in Without(petitioners, c)[s]
  BY <1>1, <1>2 DEF Without, TypeOK
<1> QED  BY <1>2, <1>3

\* The names that the registers in R select.
Selected(R) == UNION {Matches[r] : r \in R}

\* Disjoint petitions, each client told of each register: what UpdateEmptyRegisters
\* withdraws from it is exactly what the empty registers select.
LEMMA WithdrawnExactly ==
  ASSUME Disjoint, TypeOK, NEW pet, NEW ntf, NEW subs, Backed(pet, subs),
         NEW d, \A r \in registers : d \in ntf[r]
  PROVE  Withdrawn(pet, ntf, subs, d) = Selected(EmptyRegisters(pet))
<1> DEFINE E == EmptyRegisters(pet)
<1>1. E \subseteq registers /\ registers \subseteq Petition
  BY DEF EmptyRegisters, TypeOK
<1>2. ASSUME NEW r \in E, NEW p \in Matches[r]
      PROVE  subs[p] = {}
  <2> SUFFICES ASSUME NEW e \in subs[p] PROVE FALSE
    OBVIOUS
  <2>0. p \in Name
    BY <1>1, BrokerAssumption
  <2>1. PICK s \in registers : e \in pet[s] /\ p \in Matches[s]
    BY <2>0 DEF Backed
  <2>2. s = r
    BY <1>1, <2>1 DEF Disjoint
  <2> QED  BY <2>1, <2>2 DEF EmptyRegisters
<1>3. Silenced(pet, subs) = E
  BY <1>2 DEF Silenced
<1>4. {r \in Silenced(pet, subs) : d \in ntf[r]} = E
  BY <1>1, <1>3
<1>5. \A p \in Unwanted(pet, subs) : \E r \in E : p \in Matches[r]
  BY DEF Unwanted
<1> QED  BY <1>4, <1>5 DEF Withdrawn, Selected
-------------------------------------------------------------------------------
(* Subscriptions survive what others do.                                   *)

LEMMA SpareStep == TypeOK /\ [Next]_vars => Spared
<1> SUFFICES ASSUME TypeOK, [Next]_vars,
                    NEW p \in parameters, NEW c \in subscribers[p] \cap clients',
                    providers[p] \cap clients' # {},
                    \A r \in Petition : p \in Matches[r] => ~ RemoveRegisterPetition(c, r)
             PROVE  p \in parameters' /\ c \in subscribers'[p]
  BY DEF Spared
<1>0. p \in Name
  BY DEF TypeOK
<1>1. ASSUME NEW d \in Client, RemoveClient(d)
      PROVE  p \in parameters' /\ c \in subscribers'[p]
  <2> DEFINE pet == Without(petitioners, d)
             subs == Unsubscribed(d, registers)
             unwanted == Unwanted(pet, subs)
             prv == Unprovided(d, unwanted)
  <2>1. clients' = clients \ {d}
    BY <1>1 DEF RemoveClient
  <2>2. c \in subs[p]
    BY <1>0, <2>1 DEF Unsubscribed
  <2>3. p \notin unwanted
    BY <2>2 DEF Unwanted
  <2>4. prv[p] # {}
    BY <1>0, <2>1, <2>3 DEF Unprovided
  <2>5. p \notin Orphans(prv, unwanted)
    BY <2>4 DEF Orphans
  <2>6. Discard(pet, Without(notified, d), subs, prv, unwanted \cup Orphans(prv, unwanted))
    BY <1>1 DEF RemoveClient
  <2> HIDE DEF pet, subs, unwanted, prv
  <2> QED  BY <1>0, <2>2, <2>3, <2>5, <2>6 DEF Discard
<1>2. ASSUME NEW d \in Client, NEW r \in Petition, RemoveRegisterPetition(d, r)
      PROVE  p \in parameters' /\ c \in subscribers'[p]
  <2> DEFINE pet == [petitioners EXCEPT ![r] = @ \ {d}]
             subs == Unsubscribed(d, registers \cap {r})
  <2>1. p \in Matches[r] => d # c
    BY <1>2
  <2>2. c \in subs[p]
    BY <1>0, <2>1 DEF Unsubscribed
  <2>3. p \notin Unwanted(pet, subs)
    BY <2>2 DEF Unwanted
  <2>4. Discard(pet, notified, subs, providers, Unwanted(pet, subs))
    BY <1>2 DEF RemoveRegisterPetition
  <2> HIDE DEF pet, subs
  <2> QED  BY <1>0, <2>2, <2>3, <2>4 DEF Discard
<1>3. ASSUME NEW d \in Client, NEW q \in Name, NEW v \in Value(q), SetValue(d, q, v)
      PROVE  p \in parameters' /\ c \in subscribers'[p]
  BY <1>0, <1>3 DEF SetValue, SubscribersOf, TypeOK
<1>4. ASSUME NEW d \in Client, NEW r \in Petition, AddRegisterPetition(d, r)
      PROVE  p \in parameters' /\ c \in subscribers'[p]
  BY <1>0, <1>4 DEF AddRegisterPetition
<1>5. ASSUME NEW d \in Client, NEW q \in Name, SetUnreadable(d, q)
      PROVE  p \in parameters' /\ c \in subscribers'[p]
  BY <1>5 DEF SetUnreadable
<1>6. ASSUME UNCHANGED <<parameters, subscribers>>
      PROVE  p \in parameters' /\ c \in subscribers'[p]
  BY <1>6
<1>7. ASSUME NEW d \in Client,
             \/ AddClient(d)
             \/ \E q \in Event : \E v \in Value(q) : NoRetain(d, q, v)
             \/ \E r \in Petition : Get(d, r)
      PROVE  UNCHANGED <<parameters, subscribers>>
  BY <1>7 DEF AddClient, NoRetain, Get
<1>8. CASE UNCHANGED vars
  BY <1>6, <1>8 DEF vars
<1> QED
  BY <1>1, <1>2, <1>3, <1>4, <1>5, <1>6, <1>7, <1>8 DEF Next

\* Nothing another client does costs a client its subscription to a parameter that keeps
\* a provider (serverlib.cpp:50-134), however the petitions overlap.
THEOREM SubscriptionsSurvive == Spec => SubscriptionsSurviveOthers
<1>1. TypeOK /\ [Next]_vars => [Spared]_vars
  BY SpareStep
<1> QED
  BY <1>1, TypeCorrect, PTL DEF Spec, SubscriptionsSurviveOthers
-------------------------------------------------------------------------------
(* Subscriptions are complete.  That a subscriber has a petition is        *)
(* Bookkeeping's part; the converse is this.                               *)

Heard ==
  \A p \in parameters : \A r \in Petition : p \in Matches[r] => petitioners[r] \subseteq subscribers[p]

LEMMA HeardStep ==
  ASSUME Disjoint
  PROVE  TypeOK /\ Bookkeeping /\ Heard /\ [Next]_vars => Heard'
<1> SUFFICES ASSUME TypeOK, Bookkeeping, Heard, [Next]_vars PROVE Heard'
  OBVIOUS
<1>1. ASSUME NEW c \in Client, RemoveClient(c) PROVE Heard'
  <2> SUFFICES ASSUME NEW p \in parameters', NEW r \in Petition, p \in Matches[r]
               PROVE  petitioners'[r] \subseteq subscribers'[p]
    BY DEF Heard
  <2> DEFINE pet == Without(petitioners, c)
             subs == Unsubscribed(c, registers)
             unwanted == Unwanted(pet, subs)
             prv == Unprovided(c, unwanted)
             gone == unwanted \cup Orphans(prv, unwanted)
  <2>1. Discard(pet, Without(notified, c), subs, prv, gone)
    BY <1>1 DEF RemoveClient
  <2>2. pet[r] = petitioners[r] \ {c}
    BY DEF Without, TypeOK
  <2> HIDE DEF gone, prv, unwanted
  <2>3. p \in parameters /\ p \notin gone /\ p \in Name
    BY <2>1 DEF Discard, TypeOK
  <2>4. subscribers[p] \ {c} \subseteq subs[p]
    BY <2>3 DEF Unsubscribed
  <2>5. petitioners[r] \subseteq subscribers[p]
    BY <2>3 DEF Heard
  <2> HIDE DEF pet, subs
  <2> QED  BY <2>1, <2>2, <2>3, <2>4, <2>5 DEF Discard
<1>2. ASSUME NEW c \in Client, NEW s \in Petition, RemoveRegisterPetition(c, s) PROVE Heard'
  <2> SUFFICES ASSUME NEW p \in parameters', NEW r \in Petition, p \in Matches[r]
               PROVE  petitioners'[r] \subseteq subscribers'[p]
    BY DEF Heard
  <2> DEFINE pet == [petitioners EXCEPT ![s] = @ \ {c}]
             subs == Unsubscribed(c, registers \cap {s})
             gone == Unwanted(pet, subs)
  <2>1. Discard(pet, notified, subs, providers, gone)
    BY <1>2 DEF RemoveRegisterPetition
  <2> HIDE DEF gone
  <2>2. p \in parameters /\ p \notin gone /\ p \in Name
    BY <2>1 DEF Discard, TypeOK
  <2>3. petitioners[r] \subseteq subscribers[p]
    BY <2>2 DEF Heard
  <2>4. pet[r] \subseteq subs[p]
    <3>1. CASE r = s
      BY <2>2, <2>3, <3>1 DEF Unsubscribed, TypeOK
    <3>2. CASE r # s
      <4>1. p \notin Matches[s]
        BY <3>2 DEF Disjoint
      <4> QED  BY <2>2, <2>3, <3>2, <4>1 DEF Unsubscribed, TypeOK
    <3> QED  BY <3>1, <3>2
  <2> HIDE DEF pet, subs
  <2> QED  BY <2>1, <2>2, <2>4 DEF Discard
<1>3. ASSUME NEW c \in Client, NEW q \in Name, NEW v \in Value(q), SetValue(c, q, v)
      PROVE  Heard'
  <2> SUFFICES ASSUME NEW p \in parameters', NEW r \in Petition, p \in Matches[r]
               PROVE  petitioners'[r] \subseteq subscribers'[p]
    BY DEF Heard
  <2>1. /\ parameters' = parameters \cup {q} /\ petitioners' = petitioners
        /\ subscribers' = [subscribers EXCEPT ![q] = SubscribersOf(q)]
    BY <1>3 DEF SetValue
  <2>2. CASE p \in parameters
    BY <2>1, <2>2 DEF Heard, SubscribersOf, TypeOK
  <2>3. CASE p \notin parameters
    <3>1. p = q /\ subscribers'[p] = Interested(p)
      BY <2>1, <2>3 DEF SubscribersOf, TypeOK
    <3>2. petitioners[r] \subseteq Interested(p)
      <4>1. CASE r \in registers
        BY <4>1 DEF Interested
      <4>2. CASE r \notin registers
        BY <4>2 DEF Bookkeeping, RegistersAlive
      <4> QED  BY <4>1, <4>2
    <3> QED  BY <2>1, <3>1, <3>2
  <2> QED  BY <2>2, <2>3
<1>4. ASSUME NEW c \in Client, NEW s \in Petition, AddRegisterPetition(c, s) PROVE Heard'
  BY <1>4 DEF AddRegisterPetition, Heard, TypeOK
<1>5. ASSUME NEW c \in Client, NEW q \in Name, SetUnreadable(c, q) PROVE Heard'
  BY <1>5 DEF SetUnreadable, Heard
<1>6. ASSUME UNCHANGED <<parameters, petitioners, subscribers>> PROVE Heard'
  BY <1>6 DEF Heard
<1>7. ASSUME NEW d \in Client,
             \/ AddClient(d)
             \/ \E q \in Event : \E v \in Value(q) : NoRetain(d, q, v)
             \/ \E r \in Petition : Get(d, r)
      PROVE  UNCHANGED <<parameters, petitioners, subscribers>>
  BY <1>7 DEF AddClient, NoRetain, Get
<1>8. CASE UNCHANGED vars
  BY <1>6, <1>8 DEF vars
<1> QED
  BY <1>1, <1>2, <1>3, <1>4, <1>5, <1>6, <1>7, <1>8 DEF Next

LEMMA HeardIsComplete == TypeOK /\ Bookkeeping /\ Heard => SubscriptionComplete
<1> SUFFICES ASSUME TypeOK, Bookkeeping, Heard, NEW p \in parameters
             PROVE  subscribers[p] = Interested(p)
  BY DEF SubscriptionComplete
<1>1. p \in Name
  BY DEF TypeOK
<1>2. subscribers[p] \subseteq Interested(p)
  BY <1>1 DEF Bookkeeping, SubscribersJustified, Interested
<1>3. Interested(p) \subseteq subscribers[p]
  BY DEF Heard, Interested, TypeOK
<1> QED  BY <1>2, <1>3

\* With disjoint petitions, who petitioned for a stored parameter, before it existed or
\* after, subscribes to it, and nobody else (serverlib.cpp:29-48 and 90-102).
THEOREM SubscriptionCompleteAlways ==
  ASSUME Disjoint
  PROVE  Spec => []SubscriptionComplete
<1>1. Init => Heard
  BY DEF Init, Heard
<1>2. TypeOK /\ Bookkeeping /\ Heard /\ [Next]_vars => Heard'
  BY HeardStep
<1>3. TypeOK /\ Bookkeeping /\ Heard => SubscriptionComplete
  BY HeardIsComplete
<1> QED
  BY <1>1, <1>2, <1>3, BookkeepingInvariant, PTL DEF Spec
-------------------------------------------------------------------------------
(* Every client knows the demand.                                          *)

\* Withdrawing what the empty registers select leaves what the others select.
LEMMA WithdrawnLeaves ==
  ASSUME Disjoint, TypeOK, NEW E \in SUBSET registers
  PROVE  Selected(registers) \ Selected(E) = Selected(registers \ E)
<1>1. ASSUME NEW p \in Selected(registers), p \notin Selected(E)
      PROVE  p \in Selected(registers \ E)
  BY <1>1 DEF Selected
<1>2. ASSUME NEW p \in Selected(registers \ E)
      PROVE  p \in Selected(registers) \ Selected(E)
  <2>1. PICK r \in registers \ E : p \in Matches[r]
    BY DEF Selected
  <2>2. ASSUME NEW s \in E PROVE p \notin Matches[s]
    BY <2>1 DEF Disjoint, TypeOK
  <2> QED  BY <2>1, <2>2 DEF Selected
<1> QED  BY <1>1, <1>2

LEMMA DemandIsSelected == DemandKnown <=> \A c \in clients : offered[c] = Selected(registers)
BY DEF DemandKnown, Selected

LEMMA DemandStep ==
  ASSUME Disjoint
  PROVE  TypeOK /\ Bookkeeping /\ DemandKnown /\ [Next]_vars => DemandKnown'
<1> SUFFICES ASSUME TypeOK, Bookkeeping, DemandKnown, [Next]_vars PROVE DemandKnown'
  OBVIOUS
<1>0. clients \subseteq Client /\ registers \subseteq Petition
  BY DEF TypeOK
<1>1. ASSUME NEW c \in Client, AddClient(c) PROVE DemandKnown'
  BY <1>0, <1>1 DEF AddClient, DemandKnown, TypeOK
<1>2. ASSUME NEW c \in Client, RemoveClient(c) PROVE DemandKnown'
  <2> DEFINE pet == Without(petitioners, c)
             ntf == Without(notified, c)
             subs == Unsubscribed(c, registers)
             E == EmptyRegisters(pet)
  <2>1. clients' = clients \ {c} /\ registers' = registers \ E
    BY <1>2 DEF RemoveClient, Discard
  <2>2. ASSUME NEW d \in clients \ {c}
        PROVE  offered'[d] = Selected(registers \ E)
    <3>1. offered'[d] = offered[d] \ Withdrawn(pet, ntf, subs, d)
      BY <1>0, <1>2 DEF RemoveClient
    <3>2. \A r \in registers : d \in ntf[r]
      BY <1>0 DEF Bookkeeping, RegistersAlive, Without, TypeOK
    <3>3. Backed(pet, subs)
      BY BackedAfterDeparture
    <3> HIDE DEF pet, ntf, subs
    <3>4. Withdrawn(pet, ntf, subs, d) = Selected(E)
      BY <3>2, <3>3, WithdrawnExactly
    <3>5. E \in SUBSET registers
      BY DEF EmptyRegisters
    <3>6. offered[d] = Selected(registers)
      BY DemandIsSelected
    <3> HIDE DEF E
    <3> QED  BY <3>1, <3>4, <3>5, <3>6, WithdrawnLeaves
  <2> HIDE DEF E
  <2> QED  BY <2>1, <2>2 DEF DemandKnown, Selected
<1>3. ASSUME NEW c \in Client, NEW s \in Petition, RemoveRegisterPetition(c, s)
      PROVE  DemandKnown'
  <2> DEFINE pet == Leaving(c, s)
             subs == Unsubscribed(c, registers \cap {s})
             E == EmptyRegisters(pet)
  <2>1. clients' = clients /\ registers' = registers \ E
    BY <1>3 DEF RemoveRegisterPetition, Discard, Leaving
  <2>2. ASSUME NEW d \in clients
        PROVE  offered'[d] = Selected(registers \ E)
    <3>1. offered'[d] = offered[d] \ Withdrawn(pet, notified, subs, d)
      BY <1>0, <1>3 DEF RemoveRegisterPetition, Leaving
    <3>2. \A r \in registers : d \in notified[r]
      BY <1>0 DEF Bookkeeping, RegistersAlive
    <3>3. Backed(pet, subs)
      BY BackedAfterUnregister
    <3> HIDE DEF pet, subs
    <3>4. Withdrawn(pet, notified, subs, d) = Selected(E)
      BY <3>2, <3>3, WithdrawnExactly
    <3>5. E \in SUBSET registers
      BY DEF EmptyRegisters
    <3>6. offered[d] = Selected(registers)
      BY DemandIsSelected
    <3> HIDE DEF E
    <3> QED  BY <3>1, <3>4, <3>5, <3>6, WithdrawnLeaves
  <2> HIDE DEF E
  <2> QED  BY <2>1, <2>2 DEF DemandKnown, Selected
<1>4. ASSUME NEW c \in Client, NEW s \in Petition, AddRegisterPetition(c, s)
      PROVE  DemandKnown'
  <2>1. /\ clients' = clients /\ registers' = registers \cup {s}
        /\ offered' = [d \in Client |-> IF d \in clients \ notified[s]
                                          THEN offered[d] \cup Matches[s] ELSE offered[d]]
    BY <1>4 DEF AddRegisterPetition
  <2>2. ASSUME NEW d \in clients
        PROVE  offered'[d] = Selected(registers \cup {s})
    <3>1. offered[d] = Selected(registers)
      BY DemandIsSelected
    <3>2. CASE s \in registers
      <4>1. notified[s] = clients /\ registers \cup {s} = registers
        BY <3>2 DEF Bookkeeping, RegistersAlive
      <4> QED  BY <1>0, <2>1, <3>1, <4>1
    <3>3. CASE s \notin registers
      <4>1. notified[s] = {}
        BY <3>3 DEF Bookkeeping, RegistersAlive
      <4>2. offered'[d] = offered[d] \cup Matches[s]
        BY <1>0, <2>1, <4>1
      <4> QED  BY <3>1, <4>2 DEF Selected
    <3> QED  BY <3>2, <3>3
  <2> QED  BY <2>1, <2>2 DEF DemandKnown, Selected
<1>5. ASSUME NEW c \in Client, NEW q \in Name, SetUnreadable(c, q) PROVE DemandKnown'
  BY <1>5 DEF SetUnreadable, DemandKnown
<1>6. ASSUME UNCHANGED <<clients, registers, offered>> PROVE DemandKnown'
  BY <1>6 DEF DemandKnown
<1>7. ASSUME NEW d \in Client,
             \/ \E p \in Name : \E v \in Value(p) : SetValue(d, p, v)
             \/ \E q \in Event : \E v \in Value(q) : NoRetain(d, q, v)
             \/ \E r \in Petition : Get(d, r)
      PROVE  UNCHANGED <<clients, registers, offered>>
  BY <1>7 DEF SetValue, NoRetain, Get
<1>8. CASE UNCHANGED vars
  BY <1>6, <1>8 DEF vars
<1> QED
  BY <1>1, <1>2, <1>3, <1>4, <1>5, <1>6, <1>7, <1>8 DEF Next

\* With disjoint petitions, the register and unregister lines a client has been sent add
\* up to the names some register selects (serverlib.cpp:29-77 and 104-134).
THEOREM DemandKnownAlways ==
  ASSUME Disjoint
  PROVE  Spec => []DemandKnown
<1>1. Init => DemandKnown
  BY DEF Init, DemandKnown
<1>2. TypeOK /\ Bookkeeping /\ DemandKnown /\ [Next]_vars => DemandKnown'
  BY DemandStep
<1> QED
  BY <1>1, <1>2, BookkeepingInvariant, PTL DEF Spec
-------------------------------------------------------------------------------
(* The refinement of PubSub.                                               *)

\* The names the service is about.
Topics == Retained \ Numeric

\* What Service is given for the variables of PubSub.
Interests(pet) ==
  [c \in Client |->
     UNION {Matches[r] \ (Numeric \cup Event) : r \in {s \in Petition : c \in pet[s]}}]
Sources(prv) == [p \in Topics |-> prv[p]]
Values(val) == [p \in Topics |-> val[p]]
Shown(rcv) == [c \in Client |-> [p \in Topics |-> rcv[c][p]]]

LEMMA InterestIn ==
  ASSUME NEW pet, NEW c \in Client, NEW p
  PROVE  p \in Interests(pet)[c]
           <=> p \in Topics /\ \E r \in Petition : c \in pet[r] /\ p \in Matches[r]
BY BrokerAssumption DEF Interests, Topics, Retained

\* What holds in every state, and makes the steps match.
IInv == TypeOK /\ Bookkeeping /\ Heard /\ SubscriberUpToDate

\* A step that shows only values of the state it leads to.
LEMMA ShowsStep ==
  ASSUME IInv',
         \A c \in clients', p \in Topics : received'[c][p] \in {received[c][p], value'[p]}
  PROVE  Service!Show
<1>1. clients' \subseteq Client
  BY DEF IInv, TypeOK
<1>2. ASSUME NEW c \in clients', NEW p \in Topics,
             p \in Interests(petitioners')[c], value'[p] \notin {Nothing, Empty}
      PROVE  received'[c][p] = value'[p]
  <2>1. p \in Name /\ p \notin Numeric /\ p \in Retained
    BY DEF Topics, Retained
  <2>2. p \in parameters'
    BY <1>2, <2>1 DEF IInv, TypeOK
  <2>3. PICK r \in Petition : c \in petitioners'[r] /\ p \in Matches[r]
    BY <1>1, <1>2, InterestIn
  <2>4. c \in subscribers'[p]
    BY <2>2, <2>3 DEF IInv, Heard
  <2> QED  BY <1>2, <2>1, <2>4 DEF IInv, SubscriberUpToDate, Topics
<1> QED
  BY <1>1, <1>2 DEF Service!Show, Interests, Topics
-------------------------------------------------------------------------------
(* Each operation is one of the service's.                                 *)

\* Nothing of the service changes.
Unseen ==
  /\ clients' = clients
  /\ UNCHANGED <<Interests(petitioners), Sources(providers), Values(value), Shown(received)>>

LEMMA UnseenStutters == Unseen => UNCHANGED Service!vars
BY DEF Unseen, Service!vars, Interests, Sources, Values, Shown, Topics

LEMMA AddClientJoins ==
  ASSUME NEW c \in Client, AddClient(c)
  PROVE  Service!Join(c)
BY DEF AddClient, Service!Join

LEMMA AddRegisterPetitionSubscribes ==
  ASSUME IInv, IInv', NEW c \in Client, NEW r \in Petition, AddRegisterPetition(c, r)
  PROVE  \E S \in SUBSET Topics : Service!Subscribe(c, S)
<1> DEFINE S == Matches[r] \cap Topics
<1>1. /\ c \in clients /\ UNCHANGED <<clients, providers, value>>
      /\ petitioners' = [petitioners EXCEPT ![r] = @ \cup {c}]
      /\ \A d \in Client, p \in Name : received'[d][p] \in {received[d][p], value[p]}
  BY DEF AddRegisterPetition
<1>2. Topics \subseteq Name
  BY DEF Topics, Retained
<1>3. Service!Show
  BY <1>1, <1>2, ShowsStep DEF IInv, TypeOK
<1>4. Interests(petitioners') = [Interests(petitioners) EXCEPT ![c] = @ \cup S]
  <2>1. ASSUME NEW d \in Client, NEW p
        PROVE  p \in Interests(petitioners')[d]
                 <=> p \in Interests(petitioners)[d] \/ (d = c /\ p \in S)
    <3>1. \A s \in Petition : d \in petitioners'[s] <=> d \in petitioners[s] \/ (d = c /\ s = r)
      BY <1>1 DEF IInv, TypeOK
    <3> QED  BY <3>1, InterestIn
  <2>2. \A d \in Client : Interests(petitioners')[d]
                            = IF d = c THEN Interests(petitioners)[d] \cup S
                                       ELSE Interests(petitioners)[d]
    BY <2>1
  <2> QED  BY <2>2 DEF Interests
<1>5. Service!Subscribe(c, S)
  <2> HIDE DEF S
  <2> QED  BY <1>1, <1>3, <1>4 DEF Service!Subscribe, Interests, Topics
<1> QED  BY <1>5

LEMMA SetValuePublishes ==
  ASSUME IInv, IInv', NEW c \in Client, NEW p \in Topics, NEW v \in Value(p), SetValue(c, p, v)
  PROVE  v \in Text \cup {Empty} /\ Service!Publish(c, p, v)
<1>1. p \in Name /\ Topics \subseteq Name /\ v \in Text \cup {Empty}
  BY DEF Topics, Retained, Value
<1>2. /\ c \in clients /\ UNCHANGED <<clients, petitioners>>
      /\ value' = [value EXCEPT ![p] = v]
      /\ providers' = [providers EXCEPT ![p] = @ \cup {c}]
      /\ \A d \in Client : received'[d] \in {received[d], [received[d] EXCEPT ![p] = v]}
  BY DEF SetValue
<1>3. \A d \in clients', q \in Topics : received'[d][q] \in {received[d][q], value'[q]}
  <2> TAKE d \in clients', q \in Topics
  <2>1. d \in Client /\ q \in Name
    BY <1>1, <1>2 DEF IInv, TypeOK
  <2>2. received[d] \in [Name -> Line] /\ value \in [Name -> Line]
    BY <2>1 DEF IInv, TypeOK
  <2>3. CASE received'[d] = received[d]
    BY <2>3
  <2>4. CASE received'[d] = [received[d] EXCEPT ![p] = v]
    BY <1>1, <1>2, <2>1, <2>2, <2>4
  <2> QED  BY <1>2, <2>1, <2>3, <2>4
<1>4. Service!Show
  BY <1>3, ShowsStep
<1>5. Values(value') = [Values(value) EXCEPT ![p] = v]
  BY <1>1, <1>2 DEF Values, IInv, TypeOK
<1>6. Sources(providers') = [Sources(providers) EXCEPT ![p] = @ \cup {c}]
  BY <1>1, <1>2 DEF Sources, IInv, TypeOK
<1> QED  BY <1>1, <1>2, <1>4, <1>5, <1>6 DEF Service!Publish, Values, Sources, Topics

LEMMA GetQueries ==
  ASSUME IInv, IInv', NEW c \in Client, NEW r \in Petition, Get(c, r)
  PROVE  Service!Query(c)
<1>1. /\ c \in clients /\ UNCHANGED <<clients, petitioners, providers, value>>
      /\ \A d \in Client, p \in Name : received'[d][p] \in {received[d][p], value[p]}
  BY DEF Get, IInv, TypeOK
<1>2. Topics \subseteq Name /\ clients \subseteq Client
  BY DEF Topics, Retained, IInv, TypeOK
<1>3. Service!Show
  BY <1>1, <1>2, ShowsStep
<1> QED  BY <1>1, <1>3 DEF Service!Query

LEMMA SetUnreadableRestarts ==
  ASSUME NEW c \in Client, NEW p \in Name, SetUnreadable(c, p)
  PROVE  Service!Restart
BY DEF SetUnreadable, Service!Restart, Retained

\* What is not about the service's names does not show.
LEMMA OthersUnseen ==
  ASSUME IInv, NEW c \in Client,
         \/ \E p \in Name \ Topics : \E v \in Value(p) : SetValue(c, p, v)
         \/ \E p \in Event : \E v \in Value(p) : NoRetain(c, p, v)
         \/ UNCHANGED vars
  PROVE  Unseen
<1>0. Topics \subseteq Name /\ Topics \cap Event = {}
  BY DEF Topics, Retained
<1>1. ASSUME NEW p \in Name \ Topics, NEW v \in Value(p), SetValue(c, p, v)
      PROVE  Unseen
  <2>1. /\ UNCHANGED <<clients, petitioners>>
        /\ \A q \in Topics : value'[q] = value[q] /\ providers'[q] = providers[q]
        /\ \A d \in Client, q \in Topics : received'[d][q] = received[d][q]
    BY <1>0, <1>1 DEF SetValue, IInv, TypeOK
  <2> QED  BY <2>1 DEF Unseen, Sources, Values, Shown
<1>2. ASSUME NEW p \in Event, NEW v \in Value(p), NoRetain(c, p, v)
      PROVE  Unseen
  <2>1. /\ UNCHANGED <<clients, petitioners, value, providers>>
        /\ \A d \in Client, q \in Topics : received'[d][q] = received[d][q]
    BY <1>0, <1>2 DEF NoRetain, IInv, TypeOK
  <2> QED  BY <2>1 DEF Unseen, Sources, Values, Shown
<1>3. CASE UNCHANGED vars
  BY <1>3 DEF vars, Unseen
<1> QED  BY <1>1, <1>2, <1>3

\* What UpdateEmptyRegisters deletes, nobody is interested in any more.
LEMMA UnwantedByAll ==
  ASSUME IInv, NEW pet \in [Petition -> SUBSET Client], NEW subs,
         \A r \in Petition : pet[r] \subseteq petitioners[r],
         \A p \in parameters, r \in Petition : p \in Matches[r] =>
           \A d \in pet[r] : d \in subscribers[p] => d \in subs[p]
  PROVE  \A d \in Client : Unwanted(pet, subs) \cap Interests(pet)[d] = {}
<1> SUFFICES ASSUME NEW d \in Client, NEW p \in Unwanted(pet, subs), p \in Interests(pet)[d]
             PROVE  FALSE
  OBVIOUS
<1>1. p \in parameters /\ subs[p] = {}
  BY DEF Unwanted
<1>2. PICK r \in Petition : d \in pet[r] /\ p \in Matches[r]
  BY InterestIn
<1>3. d \in subscribers[p]
  BY <1>1, <1>2 DEF IInv, Heard
<1> QED  BY <1>1, <1>2, <1>3

LEMMA UnsubscribeMeans ==
  ASSUME NEW c \in clients, NEW S, UNCHANGED <<clients, received>>,
         Interests(petitioners') = [Interests(petitioners) EXCEPT ![c] = @ \ S],
         NEW G \in SUBSET (Topics \ Service!Wanted(Interests(petitioners'))),
         \A p \in Topics : /\ value'[p] = IF p \in G THEN Nothing ELSE value[p]
                           /\ providers'[p] = IF p \in G THEN {} ELSE providers[p]
  PROVE  Service!Unsubscribe(c, S)
<1>1. \A p \in Topics : Sources(providers)[p] = providers[p]
  BY DEF Sources
<1>2. Service!Drop(G, Sources(providers))
  BY <1>1 DEF Service!Drop, Topics
<1> QED  BY <1>2 DEF Service!Unsubscribe, Interests, Sources, Topics

LEMMA RemoveRegisterPetitionUnsubscribes ==
  ASSUME Disjoint, IInv, NEW c \in Client, NEW r \in Petition, RemoveRegisterPetition(c, r)
  PROVE  \E S \in SUBSET Topics : Service!Unsubscribe(c, S)
<1> DEFINE S == Matches[r] \cap Topics
           pet == [petitioners EXCEPT ![r] = @ \ {c}]
           subs == Unsubscribed(c, registers \cap {r})
           gone == Unwanted(pet, subs)
           G == gone \cap Topics
<1>0. Topics \subseteq Name
  BY DEF Topics, Retained
<1>1. /\ c \in clients /\ UNCHANGED <<clients, received>>
      /\ Discard(pet, notified, subs, providers, gone)
  BY DEF RemoveRegisterPetition
<1>2. petitioners' = pet
  BY <1>1 DEF Discard
<1>3. /\ pet \in [Petition -> SUBSET Client]
      /\ \A s \in Petition : pet[s] = IF s = r THEN petitioners[s] \ {c} ELSE petitioners[s]
  BY DEF IInv, TypeOK
<1>4. \A p \in parameters, s \in Petition : p \in Matches[s] =>
        \A d \in pet[s] : d \in subscribers[p] => d \in subs[p]
  BY <1>3 DEF Disjoint, Unsubscribed, IInv, TypeOK
<1> HIDE DEF pet, subs, gone
<1>8. \A d \in Client : gone \cap Interests(pet)[d] = {}
  <2>1. \A s \in Petition : pet[s] \subseteq petitioners[s]
    BY <1>3
  <2> QED  BY <1>3, <1>4, <2>1, UnwantedByAll DEF gone
<1>9. Interests(pet) = [Interests(petitioners) EXCEPT ![c] = @ \ S]
  <2>1. ASSUME NEW d \in Client, NEW p
        PROVE  p \in Interests(pet)[d]
                 <=> p \in Interests(petitioners)[d] /\ ~ (d = c /\ p \in S)
    BY <1>3, InterestIn DEF Disjoint
  <2>2. \A d \in Client : Interests(pet)[d] = IF d = c THEN Interests(petitioners)[d] \ S
                                                       ELSE Interests(petitioners)[d]
    BY <2>1
  <2> QED  BY <2>2 DEF Interests
<1>10. \A p \in Topics : /\ value'[p] = IF p \in G THEN Nothing ELSE value[p]
                         /\ providers'[p] = IF p \in G THEN {} ELSE providers[p]
  BY <1>0, <1>1 DEF Discard
<1>11. G \in SUBSET (Topics \ Service!Wanted(Interests(pet)))
  BY <1>8 DEF Service!Wanted
<1> HIDE DEF S, G
<1>12. Service!Unsubscribe(c, S)
  BY <1>1, <1>2, <1>9, <1>10, <1>11, UnsubscribeMeans
<1> QED  BY <1>12 DEF S

\* The sources c leaves behind, and the values it leaves without any.
Remaining(c) == [p \in Topics |-> Sources(providers)[p] \ {c}]
Orphaned(c) == {p \in Topics : Remaining(c)[p] = {}}

LEMMA LeaveMeans ==
  ASSUME NEW c \in clients, clients' = clients \ {c},
         Interests(petitioners') = [Interests(petitioners) EXCEPT ![c] = {}],
         Shown(received') = [Shown(received) EXCEPT ![c] = [p \in Topics |-> Nothing]],
         NEW G \in SUBSET (Topics \ Service!Wanted(Interests(petitioners'))),
         \A p \in Topics : /\ value'[p] = IF p \in Orphaned(c) \cup G THEN Nothing ELSE value[p]
                           /\ providers'[p] = IF p \in Orphaned(c) \cup G THEN {}
                                                                      ELSE Remaining(c)[p]
  PROVE  Service!Leave(c)
<1>1. Service!Drop(Orphaned(c) \cup G, Remaining(c))
  BY DEF Service!Drop, Topics
<1> QED
  BY <1>1 DEF Service!Leave, Interests, Sources, Shown, Topics, Remaining, Orphaned

LEMMA RemoveClientLeaves ==
  ASSUME IInv, NEW c \in Client, RemoveClient(c)
  PROVE  Service!Leave(c)
<1> DEFINE pet == Without(petitioners, c)
           subs == Unsubscribed(c, registers)
           unwanted == Unwanted(pet, subs)
           prv == Unprovided(c, unwanted)
           gone == unwanted \cup Orphans(prv, unwanted)
           left == Remaining(c)
           G == unwanted \cap Topics
           dropped == Orphaned(c) \cup G
<1>0. Topics \subseteq Name
  BY DEF Topics, Retained
<1>1. /\ c \in clients /\ clients' = clients \ {c}
      /\ Discard(pet, Without(notified, c), subs, prv, gone)
      /\ received' = [received EXCEPT ![c] = [p \in Name |-> Nothing]]
  BY DEF RemoveClient
<1>2. petitioners' = pet
  BY <1>1 DEF Discard
<1>3. /\ pet \in [Petition -> SUBSET Client]
      /\ \A s \in Petition : pet[s] = petitioners[s] \ {c}
  BY DEF IInv, TypeOK, Without
<1>4. \A p \in parameters, s \in Petition : p \in Matches[s] =>
        \A d \in pet[s] : d \in subscribers[p] => d \in subs[p]
  BY <1>3 DEF Unsubscribed, IInv, TypeOK
<1>5. unwanted \subseteq parameters
  BY DEF Unwanted
<1>6. /\ \A p \in Topics : left[p] = providers[p] \ {c}
      /\ \A p \in Topics : p \in Orphaned(c) <=> left[p] = {}
  BY DEF Sources, Remaining, Orphaned
<1>7. left \in [Topics -> SUBSET Client]
  BY <1>0, <1>6 DEF IInv, TypeOK, Remaining
<1>8. \A p \in Topics \ parameters : providers[p] = {}
  BY <1>0 DEF IInv, Bookkeeping, ParametersProvided
<1> HIDE DEF pet, subs, unwanted, left
<1>9. \A p \in Topics : prv[p] = IF p \in parameters \ unwanted THEN left[p] ELSE providers[p]
  BY <1>0, <1>6 DEF Unprovided
<1> HIDE DEF prv
<1>10. \A p \in Topics \cap parameters : p \in gone <=> p \in dropped
  <2> TAKE p \in Topics \cap parameters
  <2>1. CASE p \in unwanted
    BY <2>1
  <2>2. CASE p \notin unwanted
    <3>1. p \in gone <=> prv[p] = {}
      BY <2>2 DEF Orphans
    <3> QED  BY <1>6, <1>9, <2>2, <3>1
  <2> QED  BY <2>1, <2>2
<1>11. \A p \in Topics \ parameters : p \notin gone /\ prv[p] = {} /\ left[p] = {}
  BY <1>5, <1>6, <1>8, <1>9 DEF Orphans
<1>12. \A p \in Topics : p \notin gone => prv[p] = left[p]
  BY <1>9, <1>11
<1>13. \A p \in Topics : /\ value'[p] = IF p \in dropped THEN Nothing ELSE value[p]
                         /\ providers'[p] = IF p \in dropped THEN {} ELSE left[p]
  <2>1. \A p \in Topics : /\ value'[p] = IF p \in gone THEN Nothing ELSE value[p]
                          /\ providers'[p] = IF p \in gone THEN {} ELSE prv[p]
    BY <1>0, <1>1 DEF Discard
  <2> HIDE DEF gone, dropped
  <2> TAKE p \in Topics
  <2>2. CASE p \in parameters
    BY <1>10, <1>12, <2>1, <2>2
  <2>3. CASE p \notin parameters
    <3>1. value[p] = Nothing
      BY <1>0, <2>3 DEF IInv, TypeOK
    <3> QED  BY <1>11, <2>1, <2>3, <3>1
  <2> QED  BY <2>2, <2>3
<1>14. \A d \in Client : unwanted \cap Interests(pet)[d] = {}
  <2>1. \A s \in Petition : pet[s] \subseteq petitioners[s]
    BY <1>3
  <2> QED  BY <1>3, <1>4, <2>1, UnwantedByAll DEF unwanted
<1>15. Interests(pet) = [Interests(petitioners) EXCEPT ![c] = {}]
  <2>1. ASSUME NEW d \in Client, NEW p
        PROVE  p \in Interests(pet)[d] <=> d # c /\ p \in Interests(petitioners)[d]
    BY <1>3, InterestIn
  <2>2. \A d \in Client : Interests(pet)[d] = IF d = c THEN {} ELSE Interests(petitioners)[d]
    BY <2>1
  <2> QED  BY <2>2 DEF Interests
<1>16. G \in SUBSET (Topics \ Service!Wanted(Interests(pet)))
  BY <1>14 DEF Service!Wanted
<1>17. Shown(received') = [Shown(received) EXCEPT ![c] = [p \in Topics |-> Nothing]]
  BY <1>0, <1>1 DEF Shown, IInv, TypeOK
<1> HIDE DEF G
<1> QED
  BY <1>1, <1>2, <1>13, <1>15, <1>16, <1>17, LeaveMeans DEF dropped, left
-------------------------------------------------------------------------------
(* The refinement.                                                         *)

LEMMA InitRefines == Init => Service!Init
BY DEF Init, Service!Init, Retained

LEMMA NextRefines ==
  ASSUME Disjoint
  PROVE  IInv /\ IInv' /\ [Next]_vars => [Service!Next]_Service!vars
<1> SUFFICES ASSUME IInv, IInv', [Next]_vars
             PROVE  Service!Next \/ UNCHANGED Service!vars
  OBVIOUS
<1>1. CASE UNCHANGED vars
  <2>1. Unseen
    BY <1>1 DEF Unseen, vars
  <2> QED  BY <2>1, UnseenStutters
<1>2. ASSUME NEW c \in Client, AddClient(c) PROVE Service!Next
  BY <1>2, AddClientJoins DEF Service!Next
<1>3. ASSUME NEW c \in Client, RemoveClient(c) PROVE Service!Next
  BY <1>3, RemoveClientLeaves DEF Service!Next
<1>4. ASSUME NEW c \in Client, NEW r \in Petition, AddRegisterPetition(c, r)
      PROVE  Service!Next
  BY <1>4, AddRegisterPetitionSubscribes DEF Service!Next, Topics
<1>5. ASSUME NEW c \in Client, NEW r \in Petition, RemoveRegisterPetition(c, r)
      PROVE  Service!Next
  BY <1>5, RemoveRegisterPetitionUnsubscribes DEF Service!Next, Topics
<1>6. ASSUME NEW c \in Client, NEW p \in Name, NEW v \in Value(p), SetValue(c, p, v)
      PROVE  Service!Next \/ UNCHANGED Service!vars
  <2>1. CASE p \in Topics
    BY <1>6, <2>1, SetValuePublishes DEF Service!Next, Topics
  <2>2. CASE p \notin Topics
    BY <1>6, <2>2, OthersUnseen, UnseenStutters
  <2> QED  BY <2>1, <2>2
<1>7. ASSUME NEW c \in Client, NEW p \in Name, SetUnreadable(c, p) PROVE Service!Next
  BY <1>7, SetUnreadableRestarts DEF Service!Next
<1>8. ASSUME NEW c \in Client, NEW p \in Event, NEW v \in Value(p), NoRetain(c, p, v)
      PROVE  UNCHANGED Service!vars
  BY <1>8, OthersUnseen, UnseenStutters
<1>9. ASSUME NEW c \in Client, NEW r \in Petition, Get(c, r) PROVE Service!Next
  BY <1>9, GetQueries DEF Service!Next
<1> QED
  BY <1>1, <1>2, <1>3, <1>4, <1>5, <1>6, <1>7, <1>8, <1>9 DEF Next

LEMMA IInvAlways ==
  ASSUME Disjoint
  PROVE  Spec => []IInv
<1>1. Init => Heard
  BY DEF Init, Heard
<1>2. TypeOK /\ Bookkeeping /\ Heard /\ [Next]_vars => Heard'
  BY HeardStep
<1> QED
  BY <1>1, <1>2, BookkeepingInvariant, SubscriberUpToDateAlways, PTL DEF Spec, IInv

\* With petitions that select disjoint sets of names, the broker is the retained
\* publish/subscribe service, for its text parameters that are not events, and for any
\* number of clients, names and values (serverlib.cpp and common.cpp as a whole).
THEOREM PromiseKept ==
  ASSUME Disjoint
  PROVE  Spec => PubSubPromise
<1>1. Init => Service!Init
  BY InitRefines
<1>2. IInv /\ IInv' /\ [Next]_vars => [Service!Next]_Service!vars
  BY NextRefines
<1>3. Spec => Service!Spec
  BY <1>1, <1>2, IInvAlways, PTL DEF Spec, Service!Spec
<1> QED
  BY <1>3 DEF PubSubPromise
-------------------------------------------------------------------------------
(* What the queues hold.                                                   *)

\* l is a line about p that says one of S.
Says(l, p, S) == l.name = p /\ l.say \in S

Silent(q, p, S) == \A i \in DOMAIN q : ~ Says(q[i], p, S)

\* What q says about p, S: the last such line, or b where there is none, is one of G.
Ends(q, p, S, b, G) ==
  /\ Silent(q, p, S) => b \in G
  /\ \A i \in DOMAIN q :
       Says(q[i], p, S) /\ (\A j \in DOMAIN q : j > i => ~ Says(q[j], p, S)) => q[i] \in G

Calls == {"register", "unregister"}
Sets == {"="}

DownLine == [say : Calls, name : Name, value : {Nothing}]
            \cup [say : Sets, name : Name, value : Line]

Call(p, wanted) == IF wanted THEN Register(p) ELSE Unregister(p)

\* Of the calls about p in q, each is another than the one before, the first than b.
Turns(q, p, b) ==
  /\ \A i \in DOMAIN q :
       Says(q[i], p, Calls) /\ (\A j \in DOMAIN q : j < i => ~ Says(q[j], p, Calls)) => q[i] # b
  /\ \A i, k \in DOMAIN q :
       /\ i < k /\ Says(q[i], p, Calls) /\ Says(q[k], p, Calls)
       /\ \A j \in DOMAIN q : i < j /\ j < k => ~ Says(q[j], p, Calls)
       => q[i] # q[k]

\* q has at most one call about p.
Single(q, p) ==
  \A i, k \in DOMAIN q : Says(q[i], p, Calls) /\ Says(q[k], p, Calls) => i = k
-------------------------------------------------------------------------------
(* Queues.                                                                 *)

\* What SetToSeq makes of a finite set: a sequence of its elements, each of them once.
LEMMA SetToSeqIsOne ==
  ASSUME NEW S, IsFiniteSet(S)
  PROVE  /\ SetToSeq(S) \in Seq(S)
         /\ \A e \in S : \E i \in DOMAIN SetToSeq(S) : SetToSeq(S)[i] = e
         /\ \A i, j \in DOMAIN SetToSeq(S) : SetToSeq(S)[i] = SetToSeq(S)[j] => i = j
<1> DEFINE n == Cardinality(S)
           Numbering(f) == f \in [1..n -> S] /\ IsInjective(f)
<1>1. n \in Nat /\ ExistsBijection(1..n, S)
  BY FS_CardinalityType
<1>2. PICK g : g \in Bijection(1..n, S)
  BY <1>1 DEF ExistsBijection
<1>3. Numbering(g)
  BY <1>2 DEF Bijection, Injection
<1>4. Numbering(SetToSeq(S))
  BY <1>3 DEF SetToSeq
<1>5. SetToSeq(S) \in Injection(1..n, S)
  BY <1>4 DEF Injection
<1>6. Cardinality(1..n) = n
  BY <1>1, FS_Interval
<1>7. SetToSeq(S) \in Surjection(1..n, S)
  BY <1>5, <1>6, FS_Injection
<1>8. SetToSeq(S) \in Seq(S)
  BY <1>1, <1>4, SeqDef
<1> QED  BY <1>4, <1>7, <1>8 DEF Surjection, IsInjective

LEMMA Indices ==
  ASSUME NEW S, NEW q \in Seq(S)
  PROVE  Len(q) \in Nat /\ DOMAIN q = 1..Len(q) /\ \A i \in DOMAIN q : q[i] \in S
BY LenProperties

\* Taking the first line from a queue changes nothing of what the queue says in the end.
LEMMA EndsPop ==
  ASSUME NEW T, NEW q \in Seq(T), q # <<>>, NEW p, NEW S, NEW b, NEW G,
         Ends(q, p, S, b, G)
  PROVE  Ends(Tail(q), p, S, IF Says(Head(q), p, S) THEN Head(q) ELSE b, G)
<1>1. /\ Len(q) \in Nat \ {0} /\ DOMAIN q = 1..Len(q) /\ Head(q) = q[1]
      /\ DOMAIN Tail(q) = 1..(Len(q) - 1)
      /\ \A i \in DOMAIN Tail(q) : Tail(q)[i] = q[i + 1]
  BY Indices, EmptySeq, HeadTailProperties
<1>2. Silent(Tail(q), p, S) => (IF Says(Head(q), p, S) THEN Head(q) ELSE b) \in G
  <2> HAVE Silent(Tail(q), p, S)
  <2>1. \A j \in DOMAIN q : j > 1 => ~ Says(q[j], p, S)
    <3> SUFFICES ASSUME NEW j \in DOMAIN q, j > 1 PROVE ~ Says(q[j], p, S)
      OBVIOUS
    <3>1. j - 1 \in DOMAIN Tail(q) /\ Tail(q)[j - 1] = q[j]
      BY <1>1
    <3> QED  BY <3>1 DEF Silent
  <2>2. CASE Says(Head(q), p, S)
    BY <1>1, <2>1, <2>2 DEF Ends
  <2>3. CASE ~ Says(Head(q), p, S)
    <3>1. Silent(q, p, S)
      BY <1>1, <2>1, <2>3 DEF Silent
    <3> QED  BY <2>3, <3>1 DEF Ends
  <2> QED  BY <2>2, <2>3
<1>3. ASSUME NEW i \in DOMAIN Tail(q), Says(Tail(q)[i], p, S),
             \A j \in DOMAIN Tail(q) : j > i => ~ Says(Tail(q)[j], p, S)
      PROVE  Tail(q)[i] \in G
  <2>1. i + 1 \in DOMAIN q /\ q[i + 1] = Tail(q)[i]
    BY <1>1
  <2>2. ASSUME NEW j \in DOMAIN q, j > i + 1 PROVE ~ Says(q[j], p, S)
    <3>1. j - 1 \in DOMAIN Tail(q) /\ Tail(q)[j - 1] = q[j] /\ j - 1 > i
      BY <1>1, <2>2
    <3> QED  BY <1>3, <3>1
  <2> QED  BY <1>3, <2>1, <2>2 DEF Ends
<1> QED  BY <1>2, <1>3 DEF Ends

LEMMA SilentPop ==
  ASSUME NEW T, NEW q \in Seq(T), q # <<>>, NEW p, NEW S,
         Silent(Tail(q), p, S), ~ Says(Head(q), p, S)
  PROVE  Silent(q, p, S)
<1>1. /\ Len(q) \in Nat \ {0} /\ DOMAIN q = 1..Len(q) /\ Head(q) = q[1]
      /\ DOMAIN Tail(q) = 1..(Len(q) - 1)
      /\ \A i \in DOMAIN Tail(q) : Tail(q)[i] = q[i + 1]
  BY Indices, EmptySeq, HeadTailProperties
<1>2. ASSUME NEW j \in DOMAIN q, j > 1 PROVE ~ Says(q[j], p, S)
  <2>1. j - 1 \in DOMAIN Tail(q) /\ Tail(q)[j - 1] = q[j]
    BY <1>1, <1>2
  <2> QED  BY <2>1 DEF Silent
<1> QED  BY <1>1, <1>2 DEF Silent

\* The indices of two queues put together.
LEMMA Joined ==
  ASSUME NEW T, NEW q \in Seq(T), NEW w \in Seq(T)
  PROVE  /\ q \o w \in Seq(T)
         /\ \A i \in DOMAIN q : i \in DOMAIN (q \o w) /\ (q \o w)[i] = q[i]
         /\ \A i \in DOMAIN w : Len(q) + i \in DOMAIN (q \o w) /\ (q \o w)[Len(q) + i] = w[i]
         /\ \A i \in DOMAIN (q \o w) : \/ i \in DOMAIN q
                                       \/ \E j \in DOMAIN w : i = Len(q) + j
<1>1. /\ Len(q) \in Nat /\ DOMAIN q = 1..Len(q)
      /\ Len(w) \in Nat /\ DOMAIN w = 1..Len(w)
      /\ q \o w \in Seq(T)
      /\ DOMAIN (q \o w) = 1..(Len(q) + Len(w))
      /\ \A i \in 1..(Len(q) + Len(w)) :
           (q \o w)[i] = IF i <= Len(q) THEN q[i] ELSE w[i - Len(q)]
  BY Indices, ConcatProperties
<1>2. ASSUME NEW i \in DOMAIN w
      PROVE  Len(q) + i \in DOMAIN (q \o w) /\ (q \o w)[Len(q) + i] = w[i]
  BY <1>1
<1>3. ASSUME NEW i \in DOMAIN (q \o w), i \notin DOMAIN q
      PROVE  \E j \in DOMAIN w : i = Len(q) + j
  <2>1. i - Len(q) \in DOMAIN w /\ i = Len(q) + (i - Len(q))
    BY <1>1, <1>3
  <2> QED  BY <2>1
<1> QED  BY <1>1, <1>2, <1>3

LEMMA SilentJoined ==
  ASSUME NEW T, NEW q \in Seq(T), NEW w \in Seq(T), NEW p, NEW S
  PROVE  Silent(q \o w, p, S) <=> Silent(q, p, S) /\ Silent(w, p, S)
<1>1. ASSUME Silent(q \o w, p, S) PROVE Silent(q, p, S) /\ Silent(w, p, S)
  <2>1. ASSUME NEW i \in DOMAIN q PROVE ~ Says(q[i], p, S)
    BY <1>1, Joined DEF Silent
  <2>2. ASSUME NEW i \in DOMAIN w PROVE ~ Says(w[i], p, S)
    <3>1. Len(q) + i \in DOMAIN (q \o w) /\ (q \o w)[Len(q) + i] = w[i]
      BY Joined
    <3> QED  BY <1>1, <3>1 DEF Silent
  <2> QED  BY <2>1, <2>2 DEF Silent
<1>2. ASSUME Silent(q, p, S), Silent(w, p, S), NEW i \in DOMAIN (q \o w)
      PROVE  ~ Says((q \o w)[i], p, S)
  <2>1. CASE i \in DOMAIN q
    BY <1>2, <2>1, Joined DEF Silent
  <2>2. CASE i \notin DOMAIN q
    <3>1. PICK j \in DOMAIN w : i = Len(q) + j
      BY <2>2, Joined
    <3> QED  BY <1>2, <3>1, Joined DEF Silent
  <2> QED  BY <2>1, <2>2
<1> QED  BY <1>1, <1>2 DEF Silent

\* Lines that are not about p change nothing of what the queue says of it.
LEMMA EndsPushOther ==
  ASSUME NEW T, NEW q \in Seq(T), NEW w \in Seq(T), NEW p, NEW S, NEW b, NEW G,
         Ends(q, p, S, b, G), Silent(w, p, S)
  PROVE  Ends(q \o w, p, S, b, G)
<1>1. ASSUME NEW i \in DOMAIN (q \o w), Says((q \o w)[i], p, S),
             \A j \in DOMAIN (q \o w) : j > i => ~ Says((q \o w)[j], p, S)
      PROVE  (q \o w)[i] \in G
  <2>1. i \in DOMAIN q /\ (q \o w)[i] = q[i]
    BY <1>1, Joined DEF Silent
  <2> QED  BY <1>1, <2>1, Joined DEF Ends
<1> QED  BY <1>1, SilentJoined DEF Ends

\* After lines about p the queue says what they say.
LEMMA EndsPush ==
  ASSUME NEW T, NEW q \in Seq(T), NEW w \in Seq(T), NEW p, NEW S, NEW b, NEW G,
         ~ Silent(w, p, S), \A i \in DOMAIN w : Says(w[i], p, S) => w[i] \in G
  PROVE  Ends(q \o w, p, S, b, G)
<1>1. ASSUME NEW i \in DOMAIN (q \o w), Says((q \o w)[i], p, S),
             \A j \in DOMAIN (q \o w) : j > i => ~ Says((q \o w)[j], p, S)
      PROVE  (q \o w)[i] \in G
  <2>1. PICK k \in DOMAIN w : Says(w[k], p, S)
    BY DEF Silent
  <2>2. ~ Len(q) + k > i
    BY <1>1, <2>1, Joined
  <2>3. Len(q) \in Nat /\ DOMAIN q = 1..Len(q) /\ DOMAIN w = 1..Len(w) /\ Len(w) \in Nat
    BY Indices
  <2>4. i \notin DOMAIN q
    BY <2>2, <2>3
  <2>5. PICK j \in DOMAIN w : i = Len(q) + j
    BY <2>4, Joined
  <2>6. (q \o w)[i] = w[j]
    BY <2>5, Joined
  <2> QED  BY <1>1, <2>6
<1>2. ~ Silent(q \o w, p, S)
  BY SilentJoined
<1> QED  BY <1>1, <1>2 DEF Ends

LEMMA TurnsPop ==
  ASSUME NEW T, NEW q \in Seq(T), q # <<>>, NEW p, NEW b, Turns(q, p, b)
  PROVE  Turns(Tail(q), p, IF Says(Head(q), p, Calls) THEN Head(q) ELSE b)
<1>1. /\ Len(q) \in Nat \ {0} /\ DOMAIN q = 1..Len(q) /\ Head(q) = q[1]
      /\ DOMAIN Tail(q) = 1..(Len(q) - 1)
      /\ \A i \in DOMAIN Tail(q) : Tail(q)[i] = q[i + 1]
  BY Indices, EmptySeq, HeadTailProperties
<1>2. ASSUME NEW j \in DOMAIN q, j > 1 PROVE j - 1 \in DOMAIN Tail(q) /\ Tail(q)[j - 1] = q[j]
  BY <1>1, <1>2
<1>3. ASSUME NEW i \in DOMAIN Tail(q), Says(Tail(q)[i], p, Calls),
             \A j \in DOMAIN Tail(q) : j < i => ~ Says(Tail(q)[j], p, Calls)
      PROVE  Tail(q)[i] # (IF Says(Head(q), p, Calls) THEN Head(q) ELSE b)
  <2>1. i + 1 \in DOMAIN q /\ q[i + 1] = Tail(q)[i] /\ 1 \in DOMAIN q /\ 1 < i + 1 /\ i \in Nat
    BY <1>1
  <2>2. ASSUME NEW j \in DOMAIN q, 1 < j, j < i + 1 PROVE ~ Says(q[j], p, Calls)
    <3>1. j - 1 \in DOMAIN Tail(q) /\ Tail(q)[j - 1] = q[j] /\ j - 1 < i
      BY <1>1, <1>2, <2>1, <2>2
    <3> QED  BY <1>3, <3>1
  <2>3. CASE Says(Head(q), p, Calls)
    BY <1>1, <1>3, <2>1, <2>2, <2>3 DEF Turns
  <2>4. CASE ~ Says(Head(q), p, Calls)
    <3>1. \A j \in DOMAIN q : j < i + 1 => ~ Says(q[j], p, Calls)
      BY <1>1, <2>2, <2>4
    <3> QED  BY <1>3, <2>1, <2>4, <3>1 DEF Turns
  <2> QED  BY <2>3, <2>4
<1>4. ASSUME NEW i \in DOMAIN Tail(q), NEW k \in DOMAIN Tail(q), i < k,
             Says(Tail(q)[i], p, Calls), Says(Tail(q)[k], p, Calls),
             \A j \in DOMAIN Tail(q) : i < j /\ j < k => ~ Says(Tail(q)[j], p, Calls)
      PROVE  Tail(q)[i] # Tail(q)[k]
  <2>1. /\ i + 1 \in DOMAIN q /\ q[i + 1] = Tail(q)[i]
        /\ k + 1 \in DOMAIN q /\ q[k + 1] = Tail(q)[k] /\ i + 1 < k + 1
    BY <1>1, <1>4
  <2>2. ASSUME NEW j \in DOMAIN q, i + 1 < j, j < k + 1 PROVE ~ Says(q[j], p, Calls)
    <3>1. j - 1 \in DOMAIN Tail(q) /\ Tail(q)[j - 1] = q[j] /\ i < j - 1 /\ j - 1 < k
      BY <1>1, <1>2, <2>2
    <3> QED  BY <1>4, <3>1
  <2> QED  BY <1>4, <2>1, <2>2 DEF Turns
<1> QED  BY <1>3, <1>4 DEF Turns

LEMMA TurnsPushOther ==
  ASSUME NEW T, NEW q \in Seq(T), NEW w \in Seq(T), NEW p, NEW b, Turns(q, p, b),
         Silent(w, p, Calls)
  PROVE  Turns(q \o w, p, b)
<1>1. ASSUME NEW i \in DOMAIN (q \o w), Says((q \o w)[i], p, Calls)
      PROVE  i \in DOMAIN q /\ (q \o w)[i] = q[i]
  BY <1>1, Joined DEF Silent
<1>2. \A i \in DOMAIN q : i \in DOMAIN (q \o w) /\ (q \o w)[i] = q[i]
  BY Joined
<1> QED  BY <1>1, <1>2 DEF Turns

\* Where q ends with e, another call may follow.
LEMMA TurnsPush ==
  ASSUME NEW T, NEW q \in Seq(T), NEW w \in Seq(T), NEW p, NEW b, Turns(q, p, b),
         NEW e, Ends(q, p, Calls, b, {e}), Single(w, p),
         \A i \in DOMAIN w : Says(w[i], p, Calls) => w[i] # e
  PROVE  Turns(q \o w, p, b)
<1>0. Len(q) \in Nat /\ DOMAIN q = 1..Len(q) /\ Len(w) \in Nat /\ DOMAIN w = 1..Len(w)
  BY Indices
<1>1. \A i \in DOMAIN q : i \in DOMAIN (q \o w) /\ (q \o w)[i] = q[i] /\ i <= Len(q)
  BY <1>0, Joined
<1>2. ASSUME NEW i \in DOMAIN (q \o w), i \notin DOMAIN q
      PROVE  i > Len(q) /\ \E m \in DOMAIN w : i = Len(q) + m /\ (q \o w)[i] = w[m]
  <2>1. PICK m \in DOMAIN w : i = Len(q) + m
    BY <1>2, Joined
  <2> QED  BY <1>0, <2>1, Joined
<1>3. ASSUME NEW i \in DOMAIN (q \o w), Says((q \o w)[i], p, Calls),
             \A j \in DOMAIN (q \o w) : j < i => ~ Says((q \o w)[j], p, Calls)
      PROVE  (q \o w)[i] # b
  <2>1. CASE i \in DOMAIN q
    BY <1>1, <1>3, <2>1 DEF Turns
  <2>2. CASE i \notin DOMAIN q
    <3>1. Silent(q, p, Calls)
      BY <1>0, <1>1, <1>2, <1>3, <2>2 DEF Silent
    <3>2. b = e
      BY <3>1 DEF Ends
    <3> QED  BY <1>2, <1>3, <2>2, <3>2
  <2> QED  BY <2>1, <2>2
<1>4. ASSUME NEW i \in DOMAIN (q \o w), NEW k \in DOMAIN (q \o w), i < k,
             Says((q \o w)[i], p, Calls), Says((q \o w)[k], p, Calls),
             \A j \in DOMAIN (q \o w) : i < j /\ j < k => ~ Says((q \o w)[j], p, Calls)
      PROVE  (q \o w)[i] # (q \o w)[k]
  <2>1. CASE k \in DOMAIN q
    <3>1. i \in DOMAIN q
      BY <1>0, <1>1, <1>2, <1>4, <2>1
    <3> QED  BY <1>1, <1>4, <2>1, <3>1 DEF Turns
  <2>2. CASE i \in DOMAIN q /\ k \notin DOMAIN q
    <3>1. \A j \in DOMAIN q : j > i => ~ Says(q[j], p, Calls)
      BY <1>0, <1>1, <1>2, <1>4, <2>2
    <3>2. q[i] = e
      BY <1>1, <1>4, <2>2, <3>1 DEF Ends
    <3> QED  BY <1>1, <1>2, <1>4, <2>2, <3>2
  <2>3. CASE i \notin DOMAIN q /\ k \notin DOMAIN q
    <3>1. PICK m \in DOMAIN w : i = Len(q) + m /\ (q \o w)[i] = w[m]
      BY <1>2, <2>3
    <3>2. PICK n \in DOMAIN w : k = Len(q) + n /\ (q \o w)[k] = w[n]
      BY <1>2, <2>3
    <3>3. m = n
      BY <1>4, <3>1, <3>2 DEF Single
    <3> QED  BY <1>0, <1>4, <3>1, <3>2, <3>3
  <2> QED  BY <2>1, <2>2, <2>3
<1> QED  BY <1>3, <1>4 DEF Turns

LEMMA SingleJoined ==
  ASSUME NEW T, NEW q \in Seq(T), NEW w \in Seq(T), NEW p,
         \/ Single(q, p) /\ Silent(w, p, Calls)
         \/ Silent(q, p, Calls) /\ Single(w, p)
  PROVE  Single(q \o w, p)
<1>1. ASSUME NEW i \in DOMAIN (q \o w), Says((q \o w)[i], p, Calls)
      PROVE  \/ i \in DOMAIN q /\ Says(q[i], p, Calls)
             \/ \E m \in DOMAIN w : i = Len(q) + m /\ Says(w[m], p, Calls)
  <2>1. CASE i \in DOMAIN q
    BY <1>1, <2>1, Joined
  <2>2. CASE i \notin DOMAIN q
    <3>1. PICK m \in DOMAIN w : i = Len(q) + m
      BY <2>2, Joined
    <3> QED  BY <1>1, <3>1, Joined
  <2> QED  BY <2>1, <2>2
<1> QED  BY <1>1 DEF Single, Silent

LEMMA ToSetJoined ==
  ASSUME NEW T, NEW q \in Seq(T), NEW w \in Seq(T)
  PROVE  ToSet(q \o w) = ToSet(q) \cup ToSet(w)
<1>1. ASSUME NEW l \in ToSet(q \o w) PROVE l \in ToSet(q) \cup ToSet(w)
  <2>1. PICK i \in DOMAIN (q \o w) : (q \o w)[i] = l
    BY DEF ToSet
  <2>2. CASE i \in DOMAIN q
    BY <2>1, <2>2, Joined DEF ToSet
  <2>3. CASE i \notin DOMAIN q
    <3>1. PICK j \in DOMAIN w : i = Len(q) + j
      BY <2>1, <2>3, Joined
    <3>2. l = w[j]
      BY <2>1, <3>1, Joined
    <3> QED  BY <3>2 DEF ToSet
  <2> QED  BY <2>2, <2>3
<1>2. ASSUME NEW l \in ToSet(q) PROVE l \in ToSet(q \o w)
  <2>1. PICK i \in DOMAIN q : q[i] = l
    BY DEF ToSet
  <2>2. i \in DOMAIN (q \o w) /\ (q \o w)[i] = l
    BY <2>1, Joined
  <2> QED  BY <2>2 DEF ToSet
<1>3. ASSUME NEW l \in ToSet(w) PROVE l \in ToSet(q \o w)
  <2>1. PICK i \in DOMAIN w : w[i] = l
    BY DEF ToSet
  <2>2. Len(q) + i \in DOMAIN (q \o w) /\ (q \o w)[Len(q) + i] = l
    BY <2>1, Joined
  <2> QED  BY <2>2 DEF ToSet
<1> QED  BY <1>1, <1>2, <1>3
-------------------------------------------------------------------------------
(* What a step of the server writes.                                       *)

\* A finite set of lines, one for each of some names.
LEMMA OneForEach ==
  ASSUME LinesAssumption, NEW S \in SUBSET Name, NEW f
  PROVE  /\ IsFiniteSet({f[p] : p \in S})
         /\ SetToSeq({f[p] : p \in S}) \in Seq({f[p] : p \in S})
         /\ ToSet(SetToSeq({f[p] : p \in S})) = {f[p] : p \in S}
<1> DEFINE T == {f[p] : p \in S}
           g == [p \in S |-> f[p]]
<1>1. IsFiniteSet(S)
  BY FS_Subset DEF LinesAssumption
<1>2. g \in Surjection(S, T)
  BY DEF Surjection
<1>3. IsFiniteSet(T)
  BY <1>1, <1>2, FS_Surjection
<1> HIDE DEF T
<1>4. SetToSeq(T) \in Seq(T) /\ ToSet(SetToSeq(T)) = T
  BY <1>3, SetToSeqIsOne, Indices DEF ToSet
<1> QED  BY <1>3, <1>4 DEF T

LEMMA WrittenLines ==
  ASSUME LinesAssumption, TypeOK, TypeOK', NEW d \in Client
  PROVE  /\ Written(d) \in Seq(DownLine)
         /\ ToSet(Written(d)) = {Unregister(p) : p \in offered[d] \ offered'[d]}
                                \cup {Register(p) : p \in offered'[d] \ offered[d]}
                                \cup {Assign(p, value'[p]) : p \in Updates(d)}
<1> DEFINE A == {Unregister(p) : p \in offered[d] \ offered'[d]}
           B == {Register(p) : p \in offered'[d] \ offered[d]}
           C == {Assign(p, value'[p]) : p \in Updates(d)}
<1>0. /\ offered[d] \subseteq Name /\ offered'[d] \subseteq Name /\ Updates(d) \subseteq Name
      /\ \A p \in Name : value'[p] \in Line
  BY DEF TypeOK, Updates
<1>1. A \subseteq DownLine /\ B \subseteq DownLine /\ C \subseteq DownLine
  BY <1>0 DEF DownLine, Unregister, Register, Assign, Calls, Sets
<1>2. SetToSeq(A) \in Seq(A) /\ ToSet(SetToSeq(A)) = A
  <2> DEFINE S == offered[d] \ offered'[d]
             f == [p \in S |-> Unregister(p)]
  <2>1. A = {f[p] : p \in S}
    OBVIOUS
  <2> HIDE DEF f, A
  <2> QED  BY <1>0, <2>1, OneForEach
<1>3. SetToSeq(B) \in Seq(B) /\ ToSet(SetToSeq(B)) = B
  <2> DEFINE S == offered'[d] \ offered[d]
             f == [p \in S |-> Register(p)]
  <2>1. B = {f[p] : p \in S}
    OBVIOUS
  <2> HIDE DEF f, B
  <2> QED  BY <1>0, <2>1, OneForEach
<1>4. SetToSeq(C) \in Seq(C) /\ ToSet(SetToSeq(C)) = C
  <2> DEFINE f == [p \in Updates(d) |-> Assign(p, value'[p])]
  <2>1. C = {f[p] : p \in Updates(d)}
    OBVIOUS
  <2> HIDE DEF f, C
  <2> QED  BY <1>0, <2>1, OneForEach
<1>5. Written(d) = SetToSeq(A) \o SetToSeq(B) \o SetToSeq(C)
  BY DEF Written
<1> HIDE DEF A, B, C
<1>6. SetToSeq(A) \in Seq(DownLine) /\ SetToSeq(B) \in Seq(DownLine) /\ SetToSeq(C) \in Seq(DownLine)
  BY <1>1, <1>2, <1>3, <1>4, SeqMonotonic
<1>7. SetToSeq(A) \o SetToSeq(B) \in Seq(DownLine)
  BY <1>6, Joined
<1>8. ToSet(Written(d)) = A \cup B \cup C
  <2>1. ToSet(SetToSeq(A) \o SetToSeq(B)) = A \cup B
    BY <1>2, <1>3, <1>6, ToSetJoined
  <2>2. ToSet((SetToSeq(A) \o SetToSeq(B)) \o SetToSeq(C))
          = ToSet(SetToSeq(A) \o SetToSeq(B)) \cup ToSet(SetToSeq(C))
    BY <1>6, <1>7, ToSetJoined
  <2>3. Written(d) = (SetToSeq(A) \o SetToSeq(B)) \o SetToSeq(C)
    BY <1>5
  <2> QED  BY <1>4, <2>1, <2>2, <2>3
<1>9. Written(d) \in Seq(DownLine)
  BY <1>5, <1>6, <1>7, Joined
<1> QED  BY <1>8, <1>9 DEF A, B, C

LEMMA SilentSet ==
  ASSUME NEW q, NEW p, NEW S
  PROVE  Silent(q, p, S) <=> \A l \in ToSet(q) : ~ Says(l, p, S)
BY DEF Silent, ToSet

\* The calls about p among them: none, or what p is offered as from now on.
LEMMA WrittenCalls ==
  ASSUME LinesAssumption, TypeOK, TypeOK', NEW d \in Client, NEW p \in Name
  PROVE  \/ Silent(Written(d), p, Calls) /\ (p \in offered[d] <=> p \in offered'[d])
         \/ /\ ~ Silent(Written(d), p, Calls) /\ ~ (p \in offered[d] <=> p \in offered'[d])
            /\ \A i \in DOMAIN Written(d) : Says(Written(d)[i], p, Calls) =>
                 Written(d)[i] = Call(p, p \in offered'[d])
<1>1. ASSUME NEW l \in ToSet(Written(d)), Says(l, p, Calls)
      PROVE  /\ ~ (p \in offered[d] <=> p \in offered'[d])
             /\ l = Call(p, p \in offered'[d])
  BY <1>1, WrittenLines DEF Says, Calls, Register, Unregister, Assign, Call
<1>2. ASSUME ~ (p \in offered[d] <=> p \in offered'[d])
      PROVE  \E l \in ToSet(Written(d)) : Says(l, p, Calls)
  <2>1. Call(p, p \in offered'[d]) \in ToSet(Written(d))
    BY <1>2, WrittenLines DEF Call
  <2>2. Says(Call(p, p \in offered'[d]), p, Calls)
    BY DEF Says, Calls, Register, Unregister, Call
  <2> QED  BY <2>1, <2>2
<1>3. \A i \in DOMAIN Written(d) : Written(d)[i] \in ToSet(Written(d))
  BY DEF ToSet
<1> QED  BY <1>1, <1>2, <1>3, SilentSet

\* There is no more than one of them.
LEMMA WrittenOnce ==
  ASSUME LinesAssumption, TypeOK, TypeOK', NEW d \in Client, NEW p \in Name
  PROVE  Single(Written(d), p)
<1> DEFINE Of(S, f) == SetToSeq({f[q] : q \in S})
           O == offered[d] \ offered'[d]
           N == offered'[d] \ offered[d]
           U == Updates(d)
           stop == [q \in O |-> Unregister(q)]
           call == [q \in N |-> Register(q)]
           set == [q \in U |-> Assign(q, value'[q])]
<1>0. /\ O \in SUBSET Name /\ N \in SUBSET Name /\ U \in SUBSET Name
      /\ \A q \in Name : value'[q] \in Line
  BY DEF TypeOK, Updates
<1>1. ASSUME NEW S \in SUBSET Name, NEW f, \A q \in S : f[q] \in DownLine /\ f[q].name = q
      PROVE  /\ Of(S, f) \in Seq(DownLine) /\ Single(Of(S, f), p)
             /\ (p \in S => f[p].say \notin Calls) => Silent(Of(S, f), p, Calls)
  <2> DEFINE F == {f[q] : q \in S}
  <2>1. IsFiniteSet(F)
    BY OneForEach
  <2>2. F \subseteq DownLine /\ \A l \in F : l.name \in S /\ l = f[l.name]
    BY <1>1
  <2> HIDE DEF F
  <2>3. /\ SetToSeq(F) \in Seq(F)
        /\ \A i, k \in DOMAIN SetToSeq(F) : SetToSeq(F)[i] = SetToSeq(F)[k] => i = k
    BY <2>1, SetToSeqIsOne
  <2>4. \A i \in DOMAIN SetToSeq(F) : SetToSeq(F)[i] \in F
    BY <2>3, Indices
  <2>5. Single(SetToSeq(F), p)
    BY <2>2, <2>3, <2>4 DEF Single, Says
  <2>6. (p \in S => f[p].say \notin Calls) => Silent(SetToSeq(F), p, Calls)
    BY <2>2, <2>4 DEF Silent, Says
  <2>7. SetToSeq(F) \in Seq(DownLine)
    BY <2>2, <2>3, SeqMonotonic
  <2> QED  BY <2>5, <2>6, <2>7 DEF F
<1>2. /\ \A q \in O : stop[q] \in DownLine /\ stop[q].name = q
      /\ \A q \in N : call[q] \in DownLine /\ call[q].name = q
      /\ \A q \in U : set[q] \in DownLine /\ set[q].name = q /\ set[q].say \notin Calls
  BY <1>0 DEF DownLine, Register, Unregister, Assign, Calls, Sets
<1>3. Written(d) = (Of(O, stop) \o Of(N, call)) \o Of(U, set)
  BY DEF Written
<1> HIDE DEF Of, stop, call, set, U
<1>4. /\ Of(O, stop) \in Seq(DownLine) /\ Of(N, call) \in Seq(DownLine) /\ Of(U, set) \in Seq(DownLine)
      /\ Single(Of(O, stop), p) /\ Single(Of(N, call), p) /\ Silent(Of(U, set), p, Calls)
      /\ p \notin O => Silent(Of(O, stop), p, Calls)
      /\ p \notin N => Silent(Of(N, call), p, Calls)
  BY <1>0, <1>1, <1>2
<1>5. /\ Of(O, stop) \o Of(N, call) \in Seq(DownLine)
      /\ Single(Of(O, stop) \o Of(N, call), p)
  BY <1>4, Joined, SingleJoined
<1> QED  BY <1>3, <1>4, <1>5, SingleJoined

\* The values of p among them: none, or p's value.
LEMMA WrittenSets ==
  ASSUME LinesAssumption, TypeOK, TypeOK', NEW d \in Client, NEW p \in Name
  PROVE  \/ Silent(Written(d), p, Sets) /\ p \notin Updates(d)
         \/ /\ ~ Silent(Written(d), p, Sets) /\ p \in Updates(d)
            /\ \A i \in DOMAIN Written(d) : Says(Written(d)[i], p, Sets) =>
                 Written(d)[i] = Assign(p, value'[p])
<1>1. ASSUME NEW l \in ToSet(Written(d)), Says(l, p, Sets)
      PROVE  p \in Updates(d) /\ l = Assign(p, value'[p])
  BY <1>1, WrittenLines DEF Says, Sets, Register, Unregister, Assign
<1>2. ASSUME p \in Updates(d)
      PROVE  \E l \in ToSet(Written(d)) : Says(l, p, Sets)
  <2>1. Assign(p, value'[p]) \in ToSet(Written(d))
    BY <1>2, WrittenLines
  <2>2. Says(Assign(p, value'[p]), p, Sets)
    BY DEF Says, Sets, Assign
  <2> QED  BY <2>1, <2>2
<1>3. \A i \in DOMAIN Written(d) : Written(d)[i] \in ToSet(Written(d))
  BY DEF ToSet
<1> QED  BY <1>1, <1>2, <1>3, SilentSet

LEMMA WrittenNothing ==
  ASSUME LinesAssumption, TypeOK, TypeOK', NEW d \in Client, offered'[d] = offered[d], Updates(d) = {}
  PROVE  Written(d) = <<>>
<1>1. ToSet(Written(d)) = {} /\ Written(d) \in Seq(DownLine)
  BY WrittenLines
<1>2. DOMAIN Written(d) = {}
  BY <1>1 DEF ToSet
<1>3. Len(Written(d)) = 0
  BY <1>1, <1>2, Indices
<1> QED  BY <1>1, <1>3, EmptySeq
-------------------------------------------------------------------------------
(* A server whose petitions are exact names, and what it does for one of   *)
(* its clients (another server, in module Bridge).                         *)

\* A client comes, leaves, registers a name, withdraws it, or sends a value that is
\* not the empty text.
Uses(c) ==
  \/ AddClient(c) \/ RemoveClient(c)
  \/ \E p \in Name : AddRegisterPetition(c, p) \/ RemoveRegisterPetition(c, p)
  \/ \E p \in Name : \E v \in Value(p) \ {Empty} : SetValue(c, p, v)

NoBlank == \A p \in parameters : value[p] # Empty

\* Nothing is recorded of who does not subscribe, nothing was offered to who is not there.
Clear ==
  /\ \A p \in Name : \A d \in Client \ subscribers[p] : sent[p][d] = Initial(p)
  /\ \A d \in Client \ clients : offered[d] = {}

Ready == TypeOK /\ Bookkeeping /\ Delivery /\ Heard /\ DemandKnown /\ NoBlank /\ Clear

LEMMA ExactNames ==
  ASSUME LinesAssumption
  PROVE  Disjoint /\ Petition = Name /\ \A p \in Name : Matches[p] = {p}
BY DEF LinesAssumption, Disjoint

LEMMA ReadyInit == Init => Ready
<1>1. Init => Heard /\ DemandKnown /\ NoBlank /\ Clear
  BY DEF Init, Heard, DemandKnown, NoBlank, Clear
<1> QED  BY <1>1, TypeInit, BookkeepingInit, DeliveryInit DEF Ready

\* Only an interested client subscribes.
LEMMA SubscribersPetition ==
  ASSUME LinesAssumption, TypeOK, Bookkeeping, NEW p \in Name
  PROVE  /\ subscribers[p] \subseteq petitioners[p]
         /\ p \notin parameters => subscribers[p] = {}
<1>1. subscribers[p] \subseteq petitioners[p]
  <2> SUFFICES ASSUME NEW d \in subscribers[p] PROVE d \in petitioners[p]
    OBVIOUS
  <2>1. PICK r \in registers : d \in petitioners[r] /\ p \in Matches[r]
    BY DEF Bookkeeping, SubscribersJustified
  <2>2. r = p
    BY <2>1, ExactNames DEF TypeOK
  <2> QED  BY <2>1, <2>2
<1> QED  BY <1>1 DEF Bookkeeping, ParametersProvided

LEMMA UsesIsNext ==
  ASSUME LinesAssumption, NEW c \in Client, Uses(c)
  PROVE  Next
BY ExactNames DEF Uses, Next

LEMMA ClearAfterRemoval ==
  ASSUME TypeOK, Clear, NEW pet, NEW ntf, NEW subs, NEW prv, NEW gone,
         Discard(pet, ntf, subs, prv, gone),
         \A d \in Client \ clients' : offered'[d] = {}
  PROVE  Clear'
BY DEF Discard, Clear, TypeOK

LEMMA ClearStep ==
  ASSUME LinesAssumption, TypeOK, TypeOK', Bookkeeping, Bookkeeping', Clear, NEW c \in Client, Uses(c)
  PROVE  Clear'
<1>0. Petition = Name /\ (\A p \in Name : Matches[p] = {p})
      /\ \A p \in Name : p \notin parameters => subscribers[p] = {}
  BY ExactNames, SubscribersPetition
<1>1. CASE AddClient(c)
  BY <1>1 DEF AddClient, Clear, TypeOK
<1>2. CASE RemoveClient(c)
  <2> DEFINE pet == Without(petitioners, c)
             ntf == Without(notified, c)
             subs == Unsubscribed(c, registers)
             unwanted == Unwanted(pet, subs)
             prv == Unprovided(c, unwanted)
  <2>1. Discard(pet, ntf, subs, prv, unwanted \cup Orphans(prv, unwanted))
    BY <1>2 DEF RemoveClient
  <2>2. \A d \in Client \ clients' : offered'[d] = {}
    BY <1>2 DEF RemoveClient, Clear
  <2> HIDE DEF pet, ntf, subs, unwanted, prv
  <2> QED  BY <2>1, <2>2, ClearAfterRemoval
<1>3. ASSUME NEW r \in Name, AddRegisterPetition(c, r) PROVE Clear'
  <2>1. \A d \in Client \ clients' : offered'[d] = {}
    BY <1>3 DEF AddRegisterPetition, Clear
  <2>2. ASSUME NEW p \in Name, NEW d \in Client \ subscribers'[p]
        PROVE  sent'[p][d] = Initial(p)
    <3>1. CASE p \in parameters \cap Matches[r]
      <4>1. subscribers'[p] = subscribers[p] \cup {c}
            /\ sent'[p] = AfterSend(p, subscribers[p] \cup {c}, WithRegister(p, sent[p], c), value[p])
        BY <1>3, <3>1 DEF AddRegisterPetition
      <4>2. d # c /\ d \notin subscribers[p]
        BY <2>2, <4>1
      <4>3. sent'[p][d] = WithRegister(p, sent[p], c)[d]
        BY <4>1, <4>2 DEF AfterSend, Outdated
      <4> QED  BY <4>2, <4>3 DEF WithRegister, Clear, TypeOK
    <3>2. CASE p \notin parameters \cap Matches[r]
      BY <1>3, <2>2, <3>2 DEF AddRegisterPetition, Clear
    <3> QED  BY <3>1, <3>2
  <2> QED  BY <2>1, <2>2 DEF Clear
<1>4. ASSUME NEW r \in Name, RemoveRegisterPetition(c, r) PROVE Clear'
  <2> DEFINE pet == [petitioners EXCEPT ![r] = @ \ {c}]
             subs == Unsubscribed(c, registers \cap {r})
  <2>1. Discard(pet, notified, subs, providers, Unwanted(pet, subs))
    BY <1>4 DEF RemoveRegisterPetition
  <2>2. \A d \in Client \ clients' : offered'[d] = {}
    BY <1>4 DEF RemoveRegisterPetition, Clear
  <2> HIDE DEF pet, subs
  <2> QED  BY <2>1, <2>2, ClearAfterRemoval
<1>5. ASSUME NEW q \in Name, NEW v \in Value(q) \ {Empty}, SetValue(c, q, v) PROVE Clear'
  <2>1. \A d \in Client \ clients' : offered'[d] = {}
    BY <1>5 DEF SetValue, Clear
  <2>2. ASSUME NEW p \in Name, NEW d \in Client \ subscribers'[p]
        PROVE  sent'[p][d] = Initial(p)
    <3>1. CASE p = q
      <4>1. subscribers'[p] = SubscribersOf(p)
            /\ sent'[p] = AfterSend(p, SubscribersOf(p), RecordsOf(p), v)
        BY <1>5, <3>1 DEF SetValue, TypeOK
      <4>2. sent'[p][d] = RecordsOf(p)[d]
        BY <2>2, <4>1 DEF AfterSend, Outdated
      <4> QED  BY <2>2, <4>1, <4>2 DEF RecordsOf, SubscribersOf, Clear, TypeOK
    <3>2. CASE p # q
      BY <1>5, <2>2, <3>2 DEF SetValue, Clear, TypeOK
    <3> QED  BY <3>1, <3>2
  <2> QED  BY <2>1, <2>2 DEF Clear
<1> QED  BY <1>1, <1>2, <1>3, <1>4, <1>5 DEF Uses

LEMMA NoBlankStep ==
  ASSUME LinesAssumption, TypeOK, NoBlank, NEW c \in Client, Uses(c)
  PROVE  NoBlank'
<1>1. \A p \in Name : \A v \in Value(p) \ {Empty} : SetValue(c, p, v) => NoBlank'
  BY DEF SetValue, NoBlank, TypeOK
<1>2. \/ AddClient(c)
      \/ \E p \in Name : AddRegisterPetition(c, p)
      => NoBlank'
  BY DEF AddClient, AddRegisterPetition, NoBlank
<1>3. ASSUME NEW pet, NEW ntf, NEW subs, NEW prv, NEW gone, Discard(pet, ntf, subs, prv, gone)
      PROVE  NoBlank'
  BY <1>3 DEF Discard, NoBlank, TypeOK
<1>4. RemoveClient(c) => NoBlank'
  BY <1>3 DEF RemoveClient
<1>5. \A p \in Name : RemoveRegisterPetition(c, p) => NoBlank'
  BY <1>3 DEF RemoveRegisterPetition
<1> QED  BY <1>1, <1>2, <1>4, <1>5 DEF Uses

LEMMA ReadyStutter == Ready /\ UNCHANGED vars => Ready'
<1> SUFFICES ASSUME Ready, UNCHANGED vars PROVE Ready'
  OBVIOUS
<1>1. TypeOK' /\ Bookkeeping'
  BY TypeStep, BookkeepingStep DEF Ready
<1>2. Delivery'
  BY <1>1, DeliveryStep DEF Ready
<1> QED  BY <1>1, <1>2 DEF vars, Ready, Heard, DemandKnown, NoBlank, Clear

LEMMA ReadyStep ==
  ASSUME LinesAssumption, Ready, NEW c \in Client, Uses(c)
  PROVE  Ready'
<1>1. TypeOK' /\ Bookkeeping'
  BY UsesIsNext, TypeStep, BookkeepingStep DEF Ready
<1>2. Delivery'
  BY <1>1, UsesIsNext, DeliveryStep DEF Ready
<1>3. Heard' /\ DemandKnown'
  BY UsesIsNext, ExactNames, HeardStep, DemandStep DEF Ready
<1> QED  BY <1>1, <1>2, <1>3, NoBlankStep, ClearStep DEF Ready

LEMMA WantedIsOffered ==
  ASSUME LinesAssumption, Ready, NEW p \in Name, petitioners[p] # {}, NEW d \in clients
  PROVE  p \in offered[d]
<1>1. p \in registers /\ Matches[p] = {p}
  BY ExactNames DEF Ready, Bookkeeping, RegistersAlive
<1> QED  BY <1>1 DEF Ready, DemandKnown

LEMMA OfferedIsWanted ==
  ASSUME LinesAssumption, Ready, NEW p \in Name, NEW d \in clients, p \in offered[d]
  PROVE  p \in registers
BY ExactNames DEF Ready, DemandKnown, TypeOK

\* Only a client's own lines, and its departure, change what it petitions for.
LEMMA OthersPetition ==
  ASSUME LinesAssumption, TypeOK, NEW c \in Client, Uses(c), NEW d \in Client, d # c, NEW p \in Name
  PROVE  d \in petitioners'[p] <=> d \in petitioners[p]
<1>1. Petition = Name
  BY ExactNames
<1>2. CASE AddClient(c)
  BY <1>2 DEF AddClient
<1>3. CASE RemoveClient(c)
  BY <1>1, <1>3 DEF RemoveClient, Discard, Without, TypeOK
<1>4. ASSUME NEW r \in Name, AddRegisterPetition(c, r) PROVE d \in petitioners'[p] <=> d \in petitioners[p]
  BY <1>1, <1>4 DEF AddRegisterPetition, TypeOK
<1>5. ASSUME NEW r \in Name, RemoveRegisterPetition(c, r) PROVE d \in petitioners'[p] <=> d \in petitioners[p]
  BY <1>1, <1>5 DEF RemoveRegisterPetition, Discard, TypeOK
<1>6. ASSUME NEW q \in Name, NEW v \in Value(q) \ {Empty}, SetValue(c, q, v)
      PROVE  d \in petitioners'[p] <=> d \in petitioners[p]
  BY <1>6 DEF SetValue
<1> QED  BY <1>2, <1>3, <1>4, <1>5, <1>6 DEF Uses

\* A client that petitions for a stored text is told its value by any step that makes it
\* so: the client petitions, the parameter is created, or its value changes.
LEMMA NewsIsTold ==
  ASSUME LinesAssumption, Ready, Ready', NEW d \in Client, NEW p \in Name \ Numeric,
         p \in parameters', d \in petitioners'[p]
  PROVE  \/ p \in Updates(d)
         \/ p \in parameters /\ d \in petitioners[p] /\ value'[p] = value[p]
<1>1. d \in subscribers'[p] /\ sent'[p][d] = value'[p] /\ value'[p] # Empty
  BY ExactNames DEF Ready, Heard, Delivery, Fresh, OutOfDate, NoBlank
<1>2. CASE p \in parameters /\ d \in petitioners[p]
  <2>1. sent[p][d] = value[p]
    BY <1>2, ExactNames DEF Ready, Heard, Delivery, Fresh, OutOfDate
  <2> QED  BY <1>1, <1>2, <2>1 DEF Updates
<1>3. CASE ~ (p \in parameters /\ d \in petitioners[p])
  <2>1. sent[p][d] = Empty
    BY <1>3, SubscribersPetition DEF Ready, Clear, Initial
  <2> QED  BY <1>1, <2>1 DEF Updates
<1> QED  BY <1>2, <1>3

\* A client that stays is forgotten as a provider only with the register of the name.
LEMMA ProviderStays ==
  ASSUME LinesAssumption, Ready, Ready', NEW c \in Client, Uses(c),
         NEW d \in clients \cap clients', NEW p \in Name, d \in providers[p]
  PROVE  d \in providers'[p] \/ (p \in offered[d] /\ p \notin offered'[d])
<1>0. Petition = Name /\ (\A r \in Name : Matches[r] = {r}) /\ TypeOK /\ d \in Client
  BY ExactNames DEF Ready, TypeOK
<1>1. ASSUME NEW pet, NEW ntf, NEW subs, NEW prv, NEW gone,
             Discard(pet, ntf, subs, prv, gone), d \in prv[p], p \in gone => p \in Unwanted(pet, subs)
      PROVE  d \in providers'[p] \/ (p \in offered[d] /\ p \notin offered'[d])
  <2>1. CASE p \in gone
    <3>1. p \in EmptyRegisters(pet)
      BY <1>0, <1>1, <2>1 DEF Unwanted, EmptyRegisters, TypeOK
    <3>2. p \in registers /\ p \notin registers'
      BY <1>1, <3>1 DEF Discard, EmptyRegisters
    <3>3. p \notin offered'[d]
      <4>1. offered'[d] = UNION {Matches[r] : r \in registers'} /\ registers' \subseteq Name
        BY <1>0 DEF Ready, DemandKnown, TypeOK
      <4> QED  BY <1>0, <3>2, <4>1
    <3>4. p \in offered[d]
      BY <1>0, <3>2 DEF Ready, DemandKnown
    <3> QED  BY <3>3, <3>4
  <2>2. CASE p \notin gone
    BY <1>1, <2>2 DEF Discard
  <2> QED  BY <2>1, <2>2
<1>2. CASE AddClient(c) \/ \E r \in Name : AddRegisterPetition(c, r)
  BY <1>2 DEF AddClient, AddRegisterPetition
<1>3. CASE RemoveClient(c)
  <2> DEFINE pet == Without(petitioners, c)
             ntf == Without(notified, c)
             subs == Unsubscribed(c, registers)
             unwanted == Unwanted(pet, subs)
             prv == Unprovided(c, unwanted)
             gone == unwanted \cup Orphans(prv, unwanted)
  <2>1. Discard(pet, ntf, subs, prv, gone) /\ d # c
    BY <1>3 DEF RemoveClient
  <2>2. d \in prv[p]
    BY <2>1 DEF Unprovided
  <2>3. p \in gone => p \in unwanted
    BY <2>2 DEF Orphans
  <2> HIDE DEF pet, ntf, subs, prv, gone
  <2> QED  BY <1>1, <2>1, <2>2, <2>3
<1>4. ASSUME NEW r \in Name, RemoveRegisterPetition(c, r)
      PROVE  d \in providers'[p] \/ (p \in offered[d] /\ p \notin offered'[d])
  <2> DEFINE pet == [petitioners EXCEPT ![r] = @ \ {c}]
             subs == Unsubscribed(c, registers \cap {r})
  <2>1. Discard(pet, notified, subs, providers, Unwanted(pet, subs))
    BY <1>4 DEF RemoveRegisterPetition
  <2> HIDE DEF pet, subs
  <2> QED  BY <1>1, <2>1
<1>5. ASSUME NEW q \in Name, NEW v \in Value(q) \ {Empty}, SetValue(c, q, v)
      PROVE  d \in providers'[p]
  BY <1>0, <1>5 DEF SetValue, TypeOK
<1> QED  BY <1>2, <1>3, <1>4, <1>5 DEF Uses
-------------------------------------------------------------------------------
(* Two servers, each a client of the other, and the lines under way        *)
(* between them.  A record is what one of them holds of the other.         *)

\* What this server holds of its client d, when d is another server.
Side(d) ==
  [offered |-> offered[d],                           \* the names asked of it
   asked   |-> {p \in Name : d \in petitioners[p]},  \* those it asks for
   given   |-> {p \in Name : d \in providers[p]},    \* those it gives
   held    |-> parameters, value |-> value]

\* The lines of one server that the other acts on.
LinkLine ==
  [say : Calls, name : Name, value : {Nothing}]
  \cup {l \in [say : Sets, name : Name, value : Line] : l.value \in Value(l.name) \ {Empty}}

Stops == {"unregister"}

\* A server goes from a to b and writes w to the other.
Step(a, b, w) ==
  /\ w \in Seq(LinkLine)
  /\ \A p \in Name :
       \/ Silent(w, p, Calls) /\ (p \in a.offered <=> p \in b.offered)
       \/ /\ ~ Silent(w, p, Calls) /\ ~ (p \in a.offered <=> p \in b.offered) /\ Single(w, p)
          /\ \A i \in DOMAIN w : Says(w[i], p, Calls) => w[i] = Call(p, p \in b.offered)
  /\ \A p \in Name : \A i \in DOMAIN w : Says(w[i], p, Sets) => w[i] = Assign(p, b.value[p])
  /\ \A p \in (b.held \cap b.asked) \ Numeric :
       Silent(w, p, Sets) => p \in a.held \cap a.asked /\ b.value[p] = a.value[p]
  /\ \A p \in a.given : Silent(w, p, Stops) => p \in b.given

\* The server that goes from a to b does so by acting on line l of the other.
Acts(a, b, l) ==
  /\ l.say = "register" => b.asked = a.asked \cup {l.name}
  /\ l.say = "unregister" => b.asked = a.asked \ {l.name}
  /\ l.say = "=" => /\ b.asked = a.asked
                    /\ l.name \in b.given
                    /\ b.value[l.name] = l.value

\* The calls under way from a end with what a offers, each changes what b asks for.
Asked(a, b, ab) ==
  \A p \in Name :
    /\ Ends(ab, p, Calls, Call(p, p \in b.asked), {Call(p, p \in a.offered)})
    /\ Turns(ab, p, Call(p, p \in b.asked))

\* The values under way from a end with what a holds.
Passed(a, ab) ==
  \A p \in (a.held \cap a.asked) \ Numeric :
    Ends(ab, p, Sets, Assign(p, a.value[p]), {Assign(p, a.value[p])})

\* No value under way either way: the values are the same.
Agreed(a, b, ab, ba) ==
  \A p \in (a.held \cap a.asked \cap b.held \cap b.asked) \ Numeric :
    Silent(ab, p, Sets) /\ Silent(ba, p, Sets) => a.value[p] = b.value[p]

\* No value under way from a, and b has not said it wants no more: b has a's value.
Has(a, b, ab, ba) ==
  \A p \in (a.held \cap a.asked) \ Numeric :
    Silent(ab, p, Sets) /\ Silent(ba, p, Stops) => p \in b.given

Met(a, b, ab, ba) ==
  /\ ab \in Seq(LinkLine) /\ ba \in Seq(LinkLine)
  /\ a.held \subseteq Name /\ b.held \subseteq Name
  /\ Asked(a, b, ab) /\ Asked(b, a, ba)
  /\ Passed(a, ab) /\ Passed(b, ba)
  /\ Agreed(a, b, ab, ba)
  /\ Has(a, b, ab, ba) /\ Has(b, a, ba, ab)

\* Met says the same from either end.
LEMMA MetBothWays ==
  ASSUME NEW a, NEW b, NEW ab, NEW ba, Met(a, b, ab, ba)
  PROVE  Met(b, a, ba, ab)
BY DEF Met, Agreed

LEMMA LinkLineIs ==
  ASSUME NEW l \in LinkLine
  PROVE  /\ l.name \in Name
         /\ l.say \in {"register", "unregister", "="}
         /\ l.say = "register" => l = Call(l.name, TRUE)
         /\ l.say = "unregister" => l = Call(l.name, FALSE)
         /\ l.say = "=" => l.value \in Value(l.name) \ {Empty} /\ l = Assign(l.name, l.value)
BY DEF LinkLine, Calls, Sets, Call, Register, Unregister, Assign

\* What is written at a's end of the line.
LEMMA StepWrites ==
  ASSUME NEW a, NEW a2, NEW b, NEW ab, NEW ba, NEW w, Met(a, b, ab, ba), Step(a, a2, w), a2.held \subseteq Name
  PROVE  /\ ab \o w \in Seq(LinkLine) /\ Asked(a2, b, ab \o w) /\ Passed(a2, ab \o w)
<1>0. ab \in Seq(LinkLine) /\ w \in Seq(LinkLine) /\ ab \o w \in Seq(LinkLine)
  BY Joined DEF Met, Step
<1>1. Asked(a2, b, ab \o w)
  <2> SUFFICES ASSUME NEW p \in Name
               PROVE  /\ Ends(ab \o w, p, Calls, Call(p, p \in b.asked), {Call(p, p \in a2.offered)})
                      /\ Turns(ab \o w, p, Call(p, p \in b.asked))
    BY DEF Asked
  <2>0. /\ Ends(ab, p, Calls, Call(p, p \in b.asked), {Call(p, p \in a.offered)})
        /\ Turns(ab, p, Call(p, p \in b.asked))
    BY DEF Met, Asked
  <2>1. CASE Silent(w, p, Calls) /\ (p \in a.offered <=> p \in a2.offered)
    <3>1. Ends(ab, p, Calls, Call(p, p \in b.asked), {Call(p, p \in a2.offered)})
      BY <2>0, <2>1 DEF Call
    <3> QED  BY <1>0, <2>0, <2>1, <3>1, EndsPushOther, TurnsPushOther
  <2>2. CASE /\ ~ Silent(w, p, Calls) /\ ~ (p \in a.offered <=> p \in a2.offered) /\ Single(w, p)
             /\ \A i \in DOMAIN w : Says(w[i], p, Calls) => w[i] = Call(p, p \in a2.offered)
    <3>1. Call(p, p \in a2.offered) # Call(p, p \in a.offered)
      BY <2>2 DEF Call, Register, Unregister
    <3>2. Ends(ab \o w, p, Calls, Call(p, p \in b.asked), {Call(p, p \in a2.offered)})
      BY <1>0, <2>2, EndsPush
    <3>3. \A i \in DOMAIN w : Says(w[i], p, Calls) => w[i] # Call(p, p \in a.offered)
      BY <2>2, <3>1
    <3>4. Turns(ab \o w, p, Call(p, p \in b.asked))
      BY <1>0, <2>0, <2>2, <3>3, TurnsPush
    <3> QED  BY <3>2, <3>4
  <2> QED  BY <2>1, <2>2 DEF Step
<1>2. Passed(a2, ab \o w)
  <2> SUFFICES ASSUME NEW p \in (a2.held \cap a2.asked) \ Numeric
               PROVE  Ends(ab \o w, p, Sets, Assign(p, a2.value[p]), {Assign(p, a2.value[p])})
    BY DEF Passed
  <2>1. CASE Silent(w, p, Sets)
    <3>1. Ends(ab, p, Sets, Assign(p, a2.value[p]), {Assign(p, a2.value[p])})
      BY <2>1 DEF Step, Met, Passed
    <3> QED  BY <1>0, <2>1, <3>1, EndsPushOther
  <2>2. CASE ~ Silent(w, p, Sets)
    <3>1. \A i \in DOMAIN w : Says(w[i], p, Sets) => w[i] = Assign(p, a2.value[p])
      BY DEF Step
    <3> QED  BY <1>0, <2>2, <3>1, EndsPush
  <2> QED  BY <2>1, <2>2
<1> QED  BY <1>0, <1>1, <1>2

\* A program does something at a.
LEMMA MetAfterStep ==
  ASSUME NEW a, NEW a2, NEW b, NEW ab, NEW ba, NEW w, Met(a, b, ab, ba), Step(a, a2, w),
         a2.held \subseteq Name, a2.asked = a.asked
  PROVE  Met(a2, b, ab \o w, ba)
<1>0. ab \in Seq(LinkLine) /\ w \in Seq(LinkLine)
  BY DEF Met, Step
<1>1. \A p, S : Silent(ab \o w, p, S) <=> Silent(ab, p, S) /\ Silent(w, p, S)
  BY <1>0, SilentJoined
<1>2. Agreed(a2, b, ab \o w, ba)
  BY <1>1 DEF Met, Step, Agreed
<1>3. Has(a2, b, ab \o w, ba)
  BY <1>1 DEF Met, Step, Has
<1>4. Has(b, a2, ba, ab \o w)
  BY <1>1 DEF Met, Step, Has
<1>5. Asked(b, a2, ba)
  BY DEF Met, Asked
<1> QED  BY <1>2, <1>3, <1>4, <1>5, StepWrites DEF Met

\* The server at a acts on the first line of b's.
LEMMA MetAfterLine ==
  ASSUME NEW a, NEW a2, NEW b, NEW ab, NEW ba, NEW w, Met(a, b, ab, ba), Step(a, a2, w),
         a2.held \subseteq Name, ba # <<>>, Acts(a, a2, Head(ba))
  PROVE  Met(a2, b, ab \o w, Tail(ba))
<1> DEFINE l == Head(ba)
           rest == Tail(ba)
<1>0. /\ ab \in Seq(LinkLine) /\ w \in Seq(LinkLine) /\ ba \in Seq(LinkLine)
      /\ l \in LinkLine /\ rest \in Seq(LinkLine)
  BY HeadTailProperties DEF Met, Step
<1>1. \A p, S : Silent(ab \o w, p, S) <=> Silent(ab, p, S) /\ Silent(w, p, S)
  BY <1>0, SilentJoined
<1>2. \A p, S : Silent(rest, p, S) /\ ~ Says(l, p, S) => Silent(ba, p, S)
  BY <1>0, SilentPop
<1>3. Acts(a, a2, l)
  OBVIOUS
<1>4. Asked(b, a2, rest)
  <2> SUFFICES ASSUME NEW p \in Name
               PROVE  /\ Ends(rest, p, Calls, Call(p, p \in a2.asked), {Call(p, p \in b.offered)})
                      /\ Turns(rest, p, Call(p, p \in a2.asked))
    BY DEF Asked
  <2> DEFINE was == Call(p, p \in a.asked)
             now == IF Says(l, p, Calls) THEN l ELSE was
  <2>1. Ends(ba, p, Calls, was, {Call(p, p \in b.offered)}) /\ Turns(ba, p, was)
    BY DEF Met, Asked
  <2>2. Ends(rest, p, Calls, now, {Call(p, p \in b.offered)}) /\ Turns(rest, p, now)
    BY <1>0, <2>1, EndsPop, TurnsPop
  <2>3. now = Call(p, p \in a2.asked)
    BY <1>0, <1>3, LinkLineIs DEF Acts, Says, Calls, Call
  <2> QED  BY <2>2, <2>3
<1>5. ASSUME NEW p \in (b.held \cap b.asked) \ Numeric
      PROVE  Ends(rest, p, Sets, IF Says(l, p, Sets) THEN l ELSE Assign(p, b.value[p]), {Assign(p, b.value[p])})
  <2>1. Ends(ba, p, Sets, Assign(p, b.value[p]), {Assign(p, b.value[p])})
    BY <1>5 DEF Met, Passed
  <2> QED  BY <1>0, <2>1, EndsPop
<1>6. Passed(b, rest)
  BY <1>5 DEF Passed, Ends
<1>7. Agreed(a2, b, ab \o w, rest)
  <2> SUFFICES ASSUME NEW p \in (a2.held \cap a2.asked \cap b.held \cap b.asked) \ Numeric,
                      Silent(ab \o w, p, Sets), Silent(rest, p, Sets)
               PROVE  a2.value[p] = b.value[p]
    BY DEF Agreed
  <2>1. CASE Says(l, p, Sets)
    <3>1. l = Assign(p, b.value[p])
      BY <1>5, <2>1 DEF Ends
    <3> QED  BY <1>3, <2>1, <3>1 DEF Acts, Says, Sets, Assign
  <2>2. CASE ~ Says(l, p, Sets)
    <3>1. p \in a.held \cap a.asked /\ a2.value[p] = a.value[p]
      BY <1>1 DEF Step
    <3> QED  BY <1>1, <1>2, <2>2, <3>1 DEF Met, Agreed
  <2> QED  BY <2>1, <2>2
<1>8. Has(a2, b, ab \o w, rest)
  <2> SUFFICES ASSUME NEW p \in (a2.held \cap a2.asked) \ Numeric,
                      Silent(ab \o w, p, Sets), Silent(rest, p, Stops)
               PROVE  p \in b.given
    BY DEF Has
  <2>1. p \in a.held \cap a.asked
    BY <1>1 DEF Step
  <2>2. ~ Says(l, p, Stops)
    BY <1>3 DEF Acts, Says, Stops
  <2> QED  BY <1>1, <1>2, <2>1, <2>2 DEF Met, Has
<1>9. Has(b, a2, rest, ab \o w)
  <2> SUFFICES ASSUME NEW p \in (b.held \cap b.asked) \ Numeric,
                      Silent(rest, p, Sets), Silent(ab \o w, p, Stops)
               PROVE  p \in a2.given
    BY DEF Has
  <2>1. CASE Says(l, p, Sets)
    BY <1>3, <2>1 DEF Acts, Says, Sets
  <2>2. CASE ~ Says(l, p, Sets)
    <3>1. p \in a.given
      BY <1>1, <1>2, <2>2 DEF Met, Has
    <3> QED  BY <1>1, <3>1 DEF Step
  <2> QED  BY <2>1, <2>2
<1> QED  BY <1>0, <1>4, <1>6, <1>7, <1>8, <1>9, StepWrites DEF Met

\* Either way, rest is what is left of b's lines.
LEMMA MetAfter ==
  ASSUME NEW a, NEW a2, NEW b, NEW ab, NEW ba, NEW w, NEW rest, Met(a, b, ab, ba), Step(a, a2, w),
         a2.held \subseteq Name,
         \/ rest = ba /\ a2.asked = a.asked
         \/ ba # <<>> /\ rest = Tail(ba) /\ Acts(a, a2, Head(ba))
  PROVE  Met(a2, b, ab \o w, rest)
<1>1. CASE rest = ba /\ a2.asked = a.asked
  BY <1>1, MetAfterStep
<1>2. CASE ba # <<>> /\ rest = Tail(ba) /\ Acts(a, a2, Head(ba))
  BY <1>2, MetAfterLine
<1> QED  BY <1>1, <1>2

\* A name is not asked for again, nor given up that is not asked for.
LEMMA TakenInTurn ==
  ASSUME NEW a, NEW b, NEW ab, NEW ba, Met(a, b, ab, ba), ba # <<>>
  PROVE  /\ Head(ba).say = "register" => Head(ba).name \notin a.asked
         /\ Head(ba).say = "unregister" => Head(ba).name \in a.asked
<1> DEFINE l == Head(ba)
<1>1. ba \in Seq(LinkLine) /\ l \in LinkLine /\ l.name \in Name
  BY HeadTailProperties, LinkLineIs DEF Met
<1>2. 1 \in DOMAIN ba /\ ba[1] = l /\ \A j \in DOMAIN ba : ~ j < 1
  BY <1>1, Indices, EmptySeq, HeadTailProperties
<1>3. Says(l, l.name, Calls) => l # Call(l.name, l.name \in a.asked)
  BY <1>1, <1>2 DEF Met, Asked, Turns
<1> QED  BY <1>1, <1>3, LinkLineIs DEF Says, Calls, Call

\* What a step of the server is for its client d.
LEMMA StepFor ==
  ASSUME LinesAssumption, Ready, Ready', NEW c \in Client, Uses(c), NEW d \in Client,
         d \in clients => d \in clients'
  PROVE  Step(Side(d), Side(d)', Written(d)) /\ parameters' \subseteq Name
<1> DEFINE a == Side(d)
           b == Side(d)'
           w == Written(d)
<1>0. TypeOK /\ TypeOK' /\ Bookkeeping /\ Bookkeeping'
  BY DEF Ready
<1>1. ASSUME NEW l \in ToSet(w) PROVE l \in LinkLine
  <2>1. \A p \in Updates(d) : p \in parameters' /\ value'[p] \in Value(p) \ {Empty} /\ value'[p] \in Line
    BY <1>0 DEF Updates, Bookkeeping, ParametersProvided, TypeOK, Ready, NoBlank
  <2>2. \A p \in Updates(d) : Assign(p, value'[p]) \in LinkLine
    BY <2>1 DEF LinkLine, Assign, Sets, Updates
  <2>3. \A p \in Name : Register(p) \in LinkLine /\ Unregister(p) \in LinkLine
    BY DEF LinkLine, Register, Unregister, Calls
  <2>4. offered[d] \subseteq Name /\ offered'[d] \subseteq Name
    BY <1>0 DEF TypeOK
  <2> QED  BY <1>0, <1>1, <2>2, <2>3, <2>4, WrittenLines
<1>2. w \in Seq(LinkLine)
  <2>1. w \in Seq(DownLine)
    BY <1>0, WrittenLines
  <2>2. Len(w) \in Nat /\ DOMAIN w = 1..Len(w) /\ w = [i \in 1..Len(w) |-> w[i]]
    BY <2>1, Indices, SeqDef
  <2>3. \A i \in 1..Len(w) : w[i] \in LinkLine
    BY <1>1, <2>2 DEF ToSet
  <2> HIDE DEF w
  <2> QED  BY <2>2, <2>3, SeqDef
<1> HIDE DEF w
<1>3. \A p \in Name :
       \/ Silent(w, p, Calls) /\ (p \in a.offered <=> p \in b.offered)
       \/ /\ ~ Silent(w, p, Calls) /\ ~ (p \in a.offered <=> p \in b.offered) /\ Single(w, p)
          /\ \A i \in DOMAIN w : Says(w[i], p, Calls) => w[i] = Call(p, p \in b.offered)
  BY <1>0, WrittenCalls, WrittenOnce DEF Side, w
<1>4. \A p \in Name : \A i \in DOMAIN w : Says(w[i], p, Sets) => w[i] = Assign(p, b.value[p])
  BY <1>0, WrittenSets DEF Side, w, Silent
<1>5. \A p \in (b.held \cap b.asked) \ Numeric :
       Silent(w, p, Sets) => p \in a.held \cap a.asked /\ b.value[p] = a.value[p]
  <2> SUFFICES ASSUME NEW p \in Name \ Numeric, p \in parameters', d \in petitioners'[p], Silent(w, p, Sets)
               PROVE  p \in parameters /\ d \in petitioners[p] /\ value'[p] = value[p]
    BY DEF Side
  <2> QED  BY <1>0, NewsIsTold, WrittenSets DEF w
<1>6. \A p \in a.given : Silent(w, p, Stops) => p \in b.given
  <2> SUFFICES ASSUME NEW p \in Name, d \in providers[p], Silent(w, p, Stops)
               PROVE  d \in providers'[p]
    BY DEF Side
  <2>1. d \in clients
    BY <1>0 DEF Bookkeeping, ClientsKnown
  <2>2. p \in offered[d] => p \in offered'[d]
    <3> SUFFICES ASSUME p \in offered[d], p \notin offered'[d] PROVE FALSE
      OBVIOUS
    <3>1. Unregister(p) \in ToSet(w)
      BY <1>0, WrittenLines DEF w
    <3> QED  BY <3>1 DEF ToSet, Silent, Says, Stops, Unregister
  <2> QED  BY <2>1, <2>2, ProviderStays
<1>7. parameters' \subseteq Name
  BY <1>0 DEF TypeOK
<1> QED  BY <1>2, <1>3, <1>4, <1>5, <1>6, <1>7 DEF Step, w

\* What the others do changes nothing of what d asks for, and d stays.
LEMMA OthersAsk ==
  ASSUME LinesAssumption, TypeOK, NEW c \in Client, Uses(c), NEW d \in Client, d # c
  PROVE  Side(d)'.asked = Side(d).asked /\ (d \in clients => d \in clients')
<1>1. Side(d)'.asked = Side(d).asked
  BY OthersPetition DEF Side
<1>2. clients' = clients \/ clients' = clients \cup {c} \/ clients' = clients \ {c}
  BY DEF Uses, AddClient, RemoveClient, AddRegisterPetition, RemoveRegisterPetition, SetValue
<1> QED  BY <1>1, <1>2

\* The server acts on line l of its client d.
LEMMA LineActs ==
  ASSUME LinesAssumption, TypeOK, NEW d \in Client, NEW l \in LinkLine,
         \/ l.say = "register" /\ AddRegisterPetition(d, l.name)
         \/ l.say = "unregister" /\ RemoveRegisterPetition(d, l.name)
         \/ l.say = "=" /\ SetValue(d, l.name, l.value)
  PROVE  Uses(d) /\ Acts(Side(d), Side(d)', l) /\ clients' = clients
<1>0. l.name \in Name /\ Petition = Name /\ (l.say = "=" => l.value \in Value(l.name) \ {Empty})
  BY LinkLineIs, ExactNames
<1>1. CASE l.say = "register" /\ AddRegisterPetition(d, l.name)
  <2>1. petitioners' = [petitioners EXCEPT ![l.name] = @ \cup {d}] /\ clients' = clients
    BY <1>1 DEF AddRegisterPetition
  <2>2. Side(d)'.asked = Side(d).asked \cup {l.name}
    BY <1>0, <2>1 DEF Side, TypeOK
  <2> QED  BY <1>0, <1>1, <2>1, <2>2 DEF Uses, Acts
<1>2. CASE l.say = "unregister" /\ RemoveRegisterPetition(d, l.name)
  <2>1. petitioners' = [petitioners EXCEPT ![l.name] = @ \ {d}] /\ clients' = clients
    BY <1>2 DEF RemoveRegisterPetition, Discard
  <2>2. Side(d)'.asked = Side(d).asked \ {l.name}
    BY <1>0, <2>1 DEF Side, TypeOK
  <2> QED  BY <1>0, <1>2, <2>1, <2>2 DEF Uses, Acts
<1>3. CASE l.say = "=" /\ SetValue(d, l.name, l.value)
  <2>1. /\ petitioners' = petitioners /\ clients' = clients
        /\ d \in providers'[l.name] /\ value'[l.name] = l.value
    BY <1>0, <1>3 DEF SetValue, TypeOK
  <2> QED  BY <1>0, <1>3, <2>1 DEF Uses, Acts, Side
<1> QED  BY <1>1, <1>2, <1>3
===============================================================================
