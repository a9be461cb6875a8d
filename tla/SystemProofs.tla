---------------------------- MODULE SystemProofs ----------------------------
(***************************************************************************)
(* Theorems about System, for every set of programs, names and values and  *)
(* for connections of any length: its server is Broker, and once the       *)
(* system is at rest every program sends what is wanted and every display  *)
(* shows what the device says.                                             *)
(***************************************************************************)
EXTENDS System, BrokerProofs
-------------------------------------------------------------------------------
(* The invariant: types, what is true of the server, and of a connection.   *)

UpLine(c) == [say : {"register"}, name : Name, value : {Nothing}]
             \cup {l \in [say : Sets, name : Gives[Of[c]], value : Line] :
                     l.value \in Value(l.name) \ {Empty}}

\* Every variable of the system has its type.
SysType ==
  /\ link \in [Client -> {"none", "up", "closed"}] /\ late \subseteq Name
  /\ up = [c \in Client |-> up[c]] /\ \A c \in Client : up[c] \in Seq(UpLine(c))
  /\ down = [c \in Client |-> down[c]] /\ \A c \in Client : down[c] \in Seq(DownLine)
  /\ own \in [Program -> [Name -> Line]]
  /\ \A g \in Program : \A p \in Gives[g] : own[g][p] \in Value(p) \ {Empty}
  /\ asked \in [Client -> SUBSET Name]
  /\ \A c \in Client : asked[c] \subseteq Gives[Of[c]]
  /\ record \in [Client -> [Name -> Line \cup {0}]]
  /\ \A c \in Client, p \in Name : record[c][p] \in Value(p) \cup {Initial(p)}
  /\ shown \in [Program -> [Name -> Line]]

\* What the broker's proofs give, and the types.
Kept == TypeOK /\ Bookkeeping /\ Delivery /\ Heard /\ DemandKnown /\ SysType

\* The server says nothing to whom it does not know.
Strangers ==
  /\ \A d \in Client \ clients : offered[d] = {} /\ \A p \in Name : received[d][p] = Nothing
  /\ \A p \in Name : \A c \in Client \ subscribers[p] : sent[p][c] = Initial(p)

\* Without get(...), a record is exactly what was received last, if anything was.
Exact ==
  \A p \in Name : \A c \in subscribers[p] :
    sent[p][c] # Initial(p) => received[c][p] = sent[p][c]

Broking == Strangers /\ Exact

Links(c) ==
  /\ link[c] = "none" => c \notin clients /\ up[c] = <<>>
  /\ link[c] # "up" \/ c \notin clients => down[c] = <<>> /\ asked[c] = {}

Once(q, l) == \A i, j \in DOMAIN q : q[i] = l /\ q[j] = l => i = j

\* Each name shown is petitioned for, now or by a line on its way, and never twice.
Petitions(c) ==
  link[c] # "none" =>
    \A p \in Name :
      /\ p \in Shows[Of[c]] <=> c \in petitioners[p] \/ Register(p) \in ToSet(up[c])
      /\ ~ (c \in petitioners[p] /\ Register(p) \in ToSet(up[c]))
      /\ Once(up[c], Register(p))

\* Once c has read what is on its way it is asked for what it is offered to send.
Demand(c) ==
  link[c] = "up" => \A p \in Gives[Of[c]] :
    Ends(down[c], p, Calls, Call(p, p \in asked[c]), {Call(p, p \in offered[c])})

\* Once c has read what is on its way it shows what it was sent last.
Told(c) ==
  link[c] = "up" => \A p \in Shows[Of[c]] : received[c][p] # Nothing =>
    Ends(down[c], p, Sets, Assign(p, shown[Of[c]][p]), {Assign(p, received[c][p])})

\* What the server stores for p, or c's record where a line left behind has set it.
Stored(c, p) == IF p \in late THEN record[c][p] ELSE value[p]

\* Once the server has read what is on its way it stores what c has recorded as sent, if
\* no other program gives p, c is to hear of no new register(p), and no line left behind
\* comes after c's.
Current(c) ==
  link[c] = "up" => \A p \in asked[c] :
    Givers(p) = {Of[c]} /\ Silent(down[c], p, Calls) /\ record[c][p] # Initial(p) =>
      Ends(up[c], p, Sets, Assign(p, Stored(c, p)), {Assign(p, record[c][p])})

\* What c has recorded as sent is on its way, or c is a provider of p.
Provides(c) ==
  link[c] = "up" => \A p \in asked[c] :
    Silent(down[c], p, Calls) /\ record[c][p] # Initial(p) =>
      c \in providers[p] \/ ~ Silent(up[c], p, Sets)

Connection(c) ==
  Links(c) /\ Petitions(c) /\ Demand(c) /\ Told(c) /\ Current(c) /\ Provides(c)

\* A program uses one connection at a time.
Alone ==
  \A c, d \in Client : Of[c] = Of[d] /\ link[c] = "up" /\ link[d] = "up" => c = d
-------------------------------------------------------------------------------
(* The types, and that the server of the system is Broker.                 *)

\* The lines on their way are typed.
UpOK == up = [c \in Client |-> up[c]] /\ \A c \in Client : up[c] \in Seq(UpLine(c))
DownOK == down = [c \in Client |-> down[c]] /\ \A c \in Client : down[c] \in Seq(DownLine)

LEMMA QueuesOK == SysType => UpOK /\ DownOK
BY DEF SysType, UpOK, DownOK

\* What the server reads is a petition for a name, or a value of one its client gives.
LEMMA HeadUp ==
  ASSUME SysType, NEW c \in Client, up[c] # <<>>
  PROVE  /\ Head(up[c]) \in UpLine(c)
         /\ Head(up[c]).name \in Name
         /\ Head(up[c]).say = "register" => Head(up[c]) = Register(Head(up[c]).name)
         /\ Head(up[c]).say = "=" => /\ Head(up[c]).name \in Gives[Of[c]]
                                     /\ Head(up[c]).value \in Value(Head(up[c]).name) \ {Empty}
                                     /\ Head(up[c]) = Assign(Head(up[c]).name, Head(up[c]).value)
<1>1. Head(up[c]) \in UpLine(c)
  BY QueuesOK, HeadTailProperties DEF UpOK
<1> QED  BY <1>1, SystemAssumption DEF UpLine, Register, Assign, Sets

LEMMA HeadDown ==
  ASSUME SysType, NEW c \in Client, down[c] # <<>>
  PROVE  /\ Head(down[c]) \in DownLine
         /\ Head(down[c]).name \in Name /\ Head(down[c]).value \in Line
         /\ Head(down[c]).say \in Calls \cup Sets
         /\ Head(down[c]).say = "register" => Head(down[c]) = Register(Head(down[c]).name)
         /\ Head(down[c]).say = "unregister" => Head(down[c]) = Unregister(Head(down[c]).name)
         /\ Head(down[c]).say = "=" => Head(down[c]) = Assign(Head(down[c]).name, Head(down[c]).value)
<1>1. Head(down[c]) \in DownLine
  BY QueuesOK, HeadTailProperties DEF DownOK
<1> QED  BY <1>1 DEF DownLine, Register, Unregister, Assign, Calls, Sets, Line

LEMMA ServeServes ==
  ASSUME SysType, NEW c \in Client, Serve(c)
  PROVE  \/ \E p \in Name : /\ Head(up[c]) = Register(p)
                            /\ AddRegisterPetition(c, p)
         \/ \E p \in Gives[Of[c]] : \E v \in Value(p) \ {Empty} : /\ Head(up[c]) = Assign(p, v)
                                                              /\ SetValue(c, p, v)
BY HeadUp DEF Serve

\* Each step of the system is one of the broker, or leaves the broker alone.
LEMMA SystemStepsBroker == SysType /\ [SysNext]_sysvars => [Next]_vars
<1> SUFFICES ASSUME SysType, [SysNext]_sysvars PROVE Next \/ UNCHANGED vars
  OBVIOUS
<1>0. Petition = Name /\ \A c \in Client : Gives[Of[c]] \subseteq Name
  BY SystemAssumption DEF LinesAssumption
<1>1. CASE Restart
  BY <1>1 DEF Restart, Next
<1>2. ASSUME NEW c \in Client, Start(c) \/ Read(c) \/ Send(c) \/ Leave(c)
      PROVE  UNCHANGED vars
  BY <1>2 DEF Start, Read, Send, Leave
<1>7. ASSUME NEW g \in Program, NEW p \in Name, NEW v \in Value(p) \ {Empty}, Move(g, p, v)
      PROVE  UNCHANGED vars
  BY <1>7 DEF Move
<1>3. ASSUME NEW c \in Client, Accept(c) PROVE Next
  BY <1>3 DEF Accept, Next
<1>4. ASSUME NEW c \in Client, Forget(c) PROVE Next
  BY <1>4 DEF Forget, Next
<1>5. ASSUME NEW c \in Client, Serve(c) PROVE Next
  <2>1. CASE \E p \in Name : AddRegisterPetition(c, p)
    BY <1>0, <2>1 DEF Next
  <2>2. CASE \E p \in Gives[Of[c]] : \E v \in Value(p) \ {Empty} : SetValue(c, p, v)
    BY <1>0, <2>2 DEF Next
  <2> QED  BY <1>5, <2>1, <2>2, ServeServes
<1>6. CASE UNCHANGED sysvars
  BY <1>6 DEF sysvars
<1> QED  BY <1>1, <1>2, <1>3, <1>4, <1>5, <1>6, <1>7 DEF SysNext, ServerStep

LEMMA SysTypeInit == SysInit => SysType
<1> SUFFICES ASSUME SysInit PROVE SysType
  OBVIOUS
<1>1. \A p \in Name : Initial(p) \in Line \cup {0}
  BY ValueLine
<1>2. /\ own \in [Program -> [Name -> Line]]
      /\ \A g \in Program : \A p \in Gives[g] : own[g][p] \in Value(p) \ {Empty}
  BY SystemAssumption DEF SysInit
<1>3. \A S : <<>> \in Seq(S)
  BY EmptySeq
<1>4. record \in [Client -> [Name -> Line \cup {0}]]
      /\ \A c \in Client, p \in Name : record[c][p] \in Value(p) \cup {Initial(p)}
  BY <1>1 DEF SysInit, NoRecord
<1>5. shown \in [Program -> [Name -> Line]]
  BY DEF SysInit, Line
<1> QED  BY <1>2, <1>3, <1>4, <1>5 DEF SysType, SysInit

LEMMA DeliverType ==
  ASSUME TypeOK, TypeOK', SysType, Deliver
  PROVE  DownOK'
<1>1. ASSUME NEW d \in Client PROVE down'[d] \in Seq(DownLine)
  <2>1. down[d] \in Seq(DownLine) /\ Written(d) \in Seq(DownLine)
    BY QueuesOK, WrittenLines, SystemAssumption DEF DownOK
  <2>2. down[d] \o Written(d) \in Seq(DownLine)
    BY <2>1, Joined
  <2>3. <<>> \in Seq(DownLine)
    BY EmptySeq
  <2> QED  BY <2>2, <2>3 DEF Deliver
<1> QED  BY <1>1 DEF DownOK, Deliver

\* What the programs keep is typed.
ProgramsOK ==
  /\ own \in [Program -> [Name -> Line]]
  /\ \A g \in Program : \A p \in Gives[g] : own[g][p] \in Value(p) \ {Empty}
  /\ asked \in [Client -> SUBSET Name]
  /\ \A c \in Client : asked[c] \subseteq Gives[Of[c]]
  /\ record \in [Client -> [Name -> Line \cup {0}]]
  /\ \A c \in Client, p \in Name : record[c][p] \in Value(p) \cup {Initial(p)}
  /\ shown \in [Program -> [Name -> Line]]

LEMMA TypeParts ==
  SysType <=> /\ link \in [Client -> {"none", "up", "closed"}] /\ late \subseteq Name
              /\ UpOK /\ DownOK /\ ProgramsOK
BY DEF SysType, UpOK, DownOK, ProgramsOK

LEMMA ReadType ==
  ASSUME SysType, NEW c \in Client, Read(c)
  PROVE  ProgramsOK'
<1> DEFINE line == Head(down[c])
           m == Taken(c, Manager(c), line)
<1>1. line.name \in Name /\ line.value \in Line
  BY HeadDown DEF Read
<1>2. m.asked \subseteq asked[c] \cup {line.name} /\ m.asked \subseteq Gives[Of[c]]
  BY DEF Taken, Manager, SysType
<1>3. m.record \in [Name -> Line \cup {0}]
      /\ \A p \in Name : m.record[p] \in Value(p) \cup {Initial(p)}
  BY <1>1, ValueLine DEF Taken, Manager, SysType
<1>4. m.shown \in [Name -> Line]
  <2>1. shown[Of[c]] \in [Name -> Line]
    BY SystemAssumption DEF SysType
  <2> QED  BY <1>1, <2>1 DEF Taken, Manager
<1>5. /\ own' = own
      /\ asked' = [asked EXCEPT ![c] = m.asked]
      /\ record' = [record EXCEPT ![c] = m.record]
      /\ shown' = [shown EXCEPT ![Of[c]] = m.shown]
  BY DEF Read
<1> HIDE DEF m
<1> QED  BY <1>1, <1>2, <1>3, <1>4, <1>5 DEF ProgramsOK, SysType

\* What Send writes: a value for each name in S.
LEMMA AssignLines ==
  ASSUME SysType, NEW c \in Client, NEW S \in SUBSET asked[c]
  PROVE  LET q == SetToSeq({Assign(p, own[Of[c]][p]) : p \in S})
         IN  q \in Seq(UpLine(c)) /\ ToSet(q) = {Assign(p, own[Of[c]][p]) : p \in S}
<1> DEFINE T == {Assign(p, own[Of[c]][p]) : p \in S}
           f == [p \in S |-> Assign(p, own[Of[c]][p])]
<1>1. S \subseteq Gives[Of[c]] /\ S \in SUBSET Name
  BY SystemAssumption DEF SysType
<1>2. T \subseteq UpLine(c)
  <2>1. own[Of[c]] \in [Name -> Line] /\ \A p \in S : own[Of[c]][p] \in Value(p) \ {Empty}
    BY <1>1, SystemAssumption DEF SysType
  <2> QED  BY <1>1, <2>1 DEF UpLine, Assign, Sets
<1>3. T = {f[p] : p \in S}
  OBVIOUS
<1> HIDE DEF T, f
<1>4. SetToSeq(T) \in Seq(T) /\ ToSet(SetToSeq(T)) = T
  BY <1>1, <1>3, OneForEach, SystemAssumption
<1>5. SetToSeq(T) \in Seq(UpLine(c))
  BY <1>2, <1>4, SeqMonotonic
<1> QED  BY <1>4, <1>5 DEF T

LEMMA RegisterLines ==
  ASSUME NEW c \in Client
  PROVE  LET q == SetToSeq({Register(p) : p \in Shows[Of[c]]})
         IN  /\ q \in Seq(UpLine(c)) /\ ToSet(q) = {Register(p) : p \in Shows[Of[c]]}
             /\ \A i, j \in DOMAIN q : q[i] = q[j] => i = j
<1> DEFINE T == {Register(p) : p \in Shows[Of[c]]}
           f == [p \in Shows[Of[c]] |-> Register(p)]
<1>1. Shows[Of[c]] \in SUBSET Name
  BY SystemAssumption
<1>2. T \subseteq UpLine(c)
  BY <1>1 DEF UpLine, Register
<1>3. T = {f[p] : p \in Shows[Of[c]]}
  OBVIOUS
<1> HIDE DEF T, f
<1>4. SetToSeq(T) \in Seq(T) /\ ToSet(SetToSeq(T)) = T /\ IsFiniteSet(T)
  BY <1>1, <1>3, OneForEach, SystemAssumption
<1>5. SetToSeq(T) \in Seq(UpLine(c))
  BY <1>2, <1>4, SeqMonotonic
<1>6. \A i, j \in DOMAIN SetToSeq(T) : SetToSeq(T)[i] = SetToSeq(T)[j] => i = j
  BY <1>4, SetToSeqIsOne
<1> QED  BY <1>4, <1>5, <1>6 DEF T

LEMMA SendType ==
  ASSUME SysType, NEW c \in Client, Send(c)
  PROVE  UpOK' /\ ProgramsOK'
<1> DEFINE due == Due(c, Manager(c))
           q == SetToSeq({Assign(p, own[Of[c]][p]) : p \in due})
<1>1. due \in SUBSET asked[c]
  BY DEF Due, Manager
<1>2. /\ up' = [up EXCEPT ![c] = @ \o q]
      /\ record' = [record EXCEPT ![c] =
                      [p \in Name |-> IF p \in due THEN own[Of[c]][p] ELSE record[c][p]]]
      /\ UNCHANGED <<own, asked, shown>>
  BY DEF Send
<1>3. q \in Seq(UpLine(c))
  BY <1>1, AssignLines
<1> HIDE DEF due, q
<1>4. up[c] \o q \in Seq(UpLine(c))
  BY <1>3, QueuesOK, Joined DEF UpOK
<1>5. UpOK'
  BY <1>2, <1>4, QueuesOK DEF UpOK
<1>6. ProgramsOK'
  BY <1>1, <1>2, SystemAssumption DEF ProgramsOK, SysType
<1> QED  BY <1>5, <1>6

LEMMA PopType ==
  ASSUME SysType, NEW c \in Client
  PROVE  /\ up[c] # <<>> /\ up' = [up EXCEPT ![c] = Tail(@)] => UpOK'
         /\ down[c] # <<>> /\ down' = [down EXCEPT ![c] = Tail(@)] => DownOK'
<1>1. up[c] # <<>> => Tail(up[c]) \in Seq(UpLine(c))
  BY QueuesOK, HeadTailProperties DEF UpOK
<1>2. down[c] # <<>> => Tail(down[c]) \in Seq(DownLine)
  BY QueuesOK, HeadTailProperties DEF DownOK
<1>3. ASSUME up[c] # <<>>, up' = [up EXCEPT ![c] = Tail(@)] PROVE UpOK'
  BY <1>1, <1>3, QueuesOK DEF UpOK
<1>4. ASSUME down[c] # <<>>, down' = [down EXCEPT ![c] = Tail(@)] PROVE DownOK'
  BY <1>2, <1>4, QueuesOK DEF DownOK
<1> QED  BY <1>3, <1>4

LEMMA ClearType ==
  ASSUME SysType, NEW c \in Client
  PROVE  /\ up' = [up EXCEPT ![c] = <<>>] => UpOK'
         /\ down' = [down EXCEPT ![c] = <<>>] => DownOK'
         /\ up' = up => UpOK'
         /\ down' = down => DownOK'
         /\ UNCHANGED programs => ProgramsOK'
         /\ own' \in [Program -> [Name -> Line]]
              /\ (\A g \in Program : \A p \in Gives[g] : own'[g][p] \in Value(p) \ {Empty})
              /\ asked' \in {asked, [asked EXCEPT ![c] = {}]}
              /\ record' \in {record, [record EXCEPT ![c] = NoRecord]}
              /\ shown' = shown
              => ProgramsOK'
<1>1. \A S : <<>> \in Seq(S)
  BY EmptySeq
<1>2. NoRecord \in [Name -> Line \cup {0}] /\ \A p \in Name : NoRecord[p] = Initial(p)
  BY ValueLine DEF NoRecord
<1>3. (up' = [up EXCEPT ![c] = <<>>] => UpOK') /\ (up' = up => UpOK')
  BY <1>1, QueuesOK DEF UpOK
<1>4. (down' = [down EXCEPT ![c] = <<>>] => DownOK') /\ (down' = down => DownOK')
  BY <1>1, QueuesOK DEF DownOK
<1>5. UNCHANGED programs => ProgramsOK'
  BY TypeParts DEF ProgramsOK, programs
<1>6. ASSUME own' \in [Program -> [Name -> Line]],
             \A g \in Program : \A p \in Gives[g] : own'[g][p] \in Value(p) \ {Empty},
             asked' \in {asked, [asked EXCEPT ![c] = {}]},
             record' \in {record, [record EXCEPT ![c] = NoRecord]},
             shown' = shown
      PROVE  ProgramsOK'
  <2>1. asked' \in [Client -> SUBSET Name] /\ \A d \in Client : asked'[d] \subseteq Gives[Of[d]]
    BY <1>6 DEF SysType
  <2>2. /\ record' \in [Client -> [Name -> Line \cup {0}]]
        /\ \A d \in Client, p \in Name : record'[d][p] \in Value(p) \cup {Initial(p)}
    <3>1. record' = [d \in Client |-> record'[d]] /\ \A d \in Client : record'[d] \in {record[d], NoRecord}
      BY <1>6 DEF SysType
    <3>2. \A d \in Client : record'[d] \in [Name -> Line \cup {0}]
      BY <1>2, <3>1 DEF SysType
    <3> QED  BY <1>2, <3>1, <3>2 DEF SysType
  <2>3. shown' \in [Program -> [Name -> Line]]
    BY <1>6 DEF SysType
  <2> QED  BY <1>6, <2>1, <2>2, <2>3 DEF ProgramsOK
<1> QED  BY <1>3, <1>4, <1>5, <1>6

LEMMA SysTypeStep ==
  TypeOK /\ TypeOK' /\ SysType /\ [SysNext]_sysvars => SysType'
<1> SUFFICES ASSUME TypeOK, TypeOK', SysType, [SysNext]_sysvars PROVE SysType'
  OBVIOUS
<1>0. /\ link \in [Client -> {"none", "up", "closed"}] /\ late \subseteq Name
      /\ UpOK /\ DownOK /\ ProgramsOK
      /\ /\ link' \in [Client -> {"none", "up", "closed"}] /\ late' \subseteq Name
         /\ UpOK' /\ DownOK' /\ ProgramsOK'
         => SysType'
  BY DEF SysType, UpOK, DownOK, ProgramsOK
<1> USE <1>0
<1>1. CASE Restart
  <2>1. \A S : <<>> \in Seq(S)
    BY EmptySeq
  <2>2. UpOK' /\ DownOK'
    BY <1>1, <2>1 DEF Restart, UpOK, DownOK
  <2>3. ProgramsOK'
    BY <1>1, ValueLine DEF Restart, ProgramsOK, NoRecord
  <2>4. link' \in [Client -> {"none", "up", "closed"}] /\ late' \subseteq Name
    BY <1>1 DEF Restart
  <2> QED  BY <2>2, <2>3, <2>4
<1>2. ASSUME NEW c \in Client, Start(c) PROVE SysType'
  <2>1. UpOK'
    <3> DEFINE q == SetToSeq({Register(p) : p \in Shows[Of[c]]})
    <3>1. up' = [up EXCEPT ![c] = q] /\ q \in Seq(UpLine(c))
      BY <1>2, RegisterLines DEF Start
    <3> HIDE DEF q
    <3> QED  BY <3>1 DEF UpOK
  <2>2. DownOK'
    BY <1>2, ClearType DEF Start
  <2>3. own' \in [Program -> [Name -> Line]]
        /\ \A g \in Program : \A p \in Gives[g] : own'[g][p] \in Value(p) \ {Empty}
    BY <1>2 DEF Start, ProgramsOK
  <2>4. ProgramsOK'
    BY <1>2, <2>3, ClearType DEF Start
  <2> QED  BY <1>2, <2>1, <2>2, <2>4 DEF Start
<1>3. ASSUME NEW c \in Client, Read(c) PROVE SysType'
  BY <1>3, ReadType, PopType, ClearType DEF Read
<1>4. ASSUME NEW c \in Client, Send(c) PROVE SysType'
  BY <1>4, SendType, ClearType DEF Send
<1>5. ASSUME NEW c \in Client, Leave(c) PROVE SysType'
  <2>1. own' \in [Program -> [Name -> Line]]
        /\ \A g \in Program : \A p \in Gives[g] : own'[g][p] \in Value(p) \ {Empty}
    BY <1>5 DEF Leave, ProgramsOK
  <2>2. UpOK' /\ DownOK' /\ ProgramsOK'
    BY <1>5, <2>1, ClearType DEF Leave
  <2> QED  BY <1>5, <2>2 DEF Leave
<1>6. ASSUME NEW g \in Program, NEW p \in Name, NEW v \in Value(p) \ {Empty}, Move(g, p, v)
      PROVE  SysType'
  <2>1. own' \in [Program -> [Name -> Line]]
        /\ \A h \in Program : \A q \in Gives[h] : own'[h][q] \in Value(q) \ {Empty}
    BY <1>6, ValueLine, SystemAssumption DEF Move, ProgramsOK
  <2>2. UpOK' /\ DownOK'
    BY <1>6, <1>0 DEF Move, UpOK, DownOK
  <2>3. ProgramsOK'
    BY <1>6, <2>1 DEF Move, ProgramsOK
  <2> QED  BY <1>6, <2>2, <2>3 DEF Move
<1>7. ASSUME NEW c \in Client, Accept(c) PROVE SysType'
  BY <1>7, DeliverType, ClearType DEF Accept
<1>8. ASSUME NEW c \in Client, Serve(c) PROVE SysType'
  <2>1. late' \subseteq Name
    BY <1>8, HeadUp DEF Serve
  <2> QED  BY <1>8, <2>1, DeliverType, PopType, ClearType DEF Serve
<1>9. ASSUME NEW c \in Client, Forget(c) PROVE SysType'
  BY <1>9, DeliverType, ClearType DEF Forget
<1>10. CASE UNCHANGED sysvars
  BY <1>10 DEF sysvars, programs, UpOK, DownOK, ProgramsOK
<1> QED
  BY <1>1, <1>2, <1>3, <1>4, <1>5, <1>6, <1>7, <1>8, <1>9, <1>10 DEF SysNext, ServerStep

LEMMA SysTypeAlways == SysSpec => [](TypeOK /\ SysType)
<1>1. SysInit => TypeOK /\ SysType
  BY TypeInit, SysTypeInit DEF SysInit
<1>2. TypeOK /\ SysType /\ [SysNext]_sysvars => (TypeOK /\ SysType)'
  BY SystemStepsBroker, TypeStep, SysTypeStep
<1> QED
  BY <1>1, <1>2, PTL DEF SysSpec

\* The server of the system is Broker: whatever the programs do, it is used as Broker
\* says it can be (the lines they send are petitions for names and values that can be
\* read), so that all that is proved of Broker is true of it.
THEOREM ServerIsBroker == SysSpec => Spec
<1>1. SysInit => Init
  BY DEF SysInit
<1>2. TypeOK /\ SysType /\ [SysNext]_sysvars => [Next]_vars
  BY SystemStepsBroker
<1> QED
  BY <1>1, <1>2, SysTypeAlways, PTL DEF SysSpec, Spec
-------------------------------------------------------------------------------
(* What the broker does for the programs, action by action.                *)

LEMMA HereDisjoint == Disjoint /\ Petition = Name
BY SystemAssumption DEF LinesAssumption, Disjoint

\* What is proved of Broker holds here.
LEMMA KeptAlways == SysSpec => []Kept
<1>1. Spec => [](TypeOK /\ Bookkeeping /\ Delivery)
  BY DeliveryAlways
<1>2. Spec => []IInv
  BY HereDisjoint, IInvAlways
<1>3. Spec => []DemandKnown
  BY HereDisjoint, DemandKnownAlways
<1>4. IInv => Heard
  BY DEF IInv
<1> QED
  BY <1>1, <1>2, <1>3, <1>4, ServerIsBroker, SysTypeAlways, PTL DEF Kept

LEMMA Subscribed ==
  ASSUME TypeOK, Bookkeeping, NEW p \in Name
  PROVE  /\ SubscribersOf(p) \subseteq clients
         /\ subscribers[p] \subseteq clients
         /\ subscribers[p] \subseteq petitioners[p]
         /\ p \notin parameters => subscribers[p] = {}
<1>1. subscribers[p] \subseteq clients /\ Interested(p) \subseteq clients
  BY DEF Bookkeeping, ClientsKnown, Interested, TypeOK
<1>2. subscribers[p] \subseteq petitioners[p]
  <2> SUFFICES ASSUME NEW d \in subscribers[p] PROVE d \in petitioners[p]
    OBVIOUS
  <2>1. PICK r \in registers : d \in petitioners[r] /\ p \in Matches[r]
    BY DEF Bookkeeping, SubscribersJustified
  <2>2. r = p
    BY <2>1, SystemAssumption DEF LinesAssumption, TypeOK
  <2> QED  BY <2>1, <2>2
<1> QED  BY <1>1, <1>2 DEF SubscribersOf, Bookkeeping, ParametersProvided

\* What a step tells d: a name it writes a line about is received as what is stored.
Tells(d) == \A p \in Name : received'[d][p] = IF p \in Updates(d) THEN value'[p] ELSE received[d][p]

LEMMA AddClientTells ==
  ASSUME TypeOK, Bookkeeping, Broking, NEW c \in Client, AddClient(c)
  PROVE  Broking' /\ \A d \in Client : Tells(d)
<1>1. UNCHANGED <<subscribers, sent, received, providers>>
      /\ offered' = [offered EXCEPT ![c] = UNION {Matches[r] : r \in registers}]
      /\ clients' = clients \cup {c}
  BY DEF AddClient
<1>2. Strangers'
  BY <1>1 DEF Broking, Strangers, TypeOK
<1>3. Exact'
  BY <1>1 DEF Broking, Exact
<1>4. \A d \in Client : Tells(d)
  BY <1>1 DEF Tells, Updates
<1> QED  BY <1>2, <1>3, <1>4 DEF Broking

LEMMA RemoveClientTells ==
  ASSUME TypeOK, Bookkeeping, Bookkeeping', Broking, NEW c \in Client, RemoveClient(c)
  PROVE  Broking' /\ \A d \in Client \ {c} : Tells(d)
<1> DEFINE pet == Without(petitioners, c)
           ntf == Without(notified, c)
           subs == Unsubscribed(c, registers)
           unwanted == Unwanted(pet, subs)
           prv == Unprovided(c, unwanted)
           gone == unwanted \cup Orphans(prv, unwanted)
<1>1. /\ clients' = clients \ {c}
      /\ Discard(pet, ntf, subs, prv, gone)
      /\ offered' = [d \in Client |->
                       IF d = c THEN {} ELSE offered[d] \ Withdrawn(pet, ntf, subs, d)]
      /\ received' = [received EXCEPT ![c] = [p \in Name |-> Nothing]]
  BY DEF RemoveClient
<1>2. \A p \in Name : subs[p] \subseteq subscribers[p] /\ prv[p] \subseteq providers[p]
  BY DEF Unsubscribed, Unprovided
<1> HIDE DEF pet, ntf, subs, unwanted, prv, gone
<1>3. \A p \in Name : /\ subscribers'[p] = IF p \in gone THEN {} ELSE subs[p]
                      /\ providers'[p] = IF p \in gone THEN {} ELSE prv[p]
                      /\ \A d \in Client :
                           sent'[p][d] = IF p \in gone \/ d \notin subs[p] THEN Initial(p)
                                                                           ELSE sent[p][d]
  BY <1>1 DEF Discard
<1>4. Strangers'
  <2>1. ASSUME NEW d \in Client \ clients'
        PROVE  offered'[d] = {} /\ \A p \in Name : received'[d][p] = Nothing
    BY <1>1 DEF Broking, Strangers, TypeOK
  <2> QED  BY <1>3, <2>1 DEF Strangers
<1>5. Exact'
  <2> SUFFICES ASSUME NEW p \in Name, NEW d \in subscribers'[p], sent'[p][d] # Initial(p)
               PROVE  received'[d][p] = sent'[p][d]
    BY DEF Exact
  <2>1. d \in clients' /\ d # c /\ d \in Client
    BY <1>1 DEF Bookkeeping, ClientsKnown, TypeOK
  <2>2. d \in subscribers[p] /\ sent'[p][d] = sent[p][d]
    BY <1>2, <1>3, <2>1
  <2>3. received'[d][p] = received[d][p]
    BY <1>1, <2>1 DEF TypeOK
  <2> QED  BY <2>2, <2>3 DEF Broking, Exact
<1>7. ASSUME NEW d \in Client \ {c} PROVE Tells(d)
  <2>1. Updates(d) = {}
    BY <1>3 DEF Updates
  <2>2. \A p \in Name : received'[d][p] = received[d][p]
    BY <1>1 DEF TypeOK
  <2> QED  BY <2>1, <2>2 DEF Tells
<1> QED  BY <1>4, <1>5, <1>7 DEF Broking

LEMMA AddRegisterPetitionTells ==
  ASSUME TypeOK, Bookkeeping, Broking, NEW c \in Client, NEW r \in Name,
         AddRegisterPetition(c, r), c \notin petitioners[r]
  PROVE  Broking' /\ \A d \in Client : Tells(d)
<1> DEFINE S == subscribers[r] \cup {c}
           snt == WithRegister(r, sent[r], c)
           out == Outdated(r, S, snt, value[r])
<1>0. Matches[r] = {r} /\ parameters \subseteq Name
  BY SystemAssumption DEF LinesAssumption, TypeOK
<1>1. /\ c \in clients /\ UNCHANGED <<clients, value, providers>>
      /\ offered' = [d \in Client |-> IF d \in clients \ notified[r]
                                        THEN offered[d] \cup Matches[r] ELSE offered[d]]
      /\ \A p \in Name : subscribers'[p] = IF p = r /\ r \in parameters THEN S ELSE subscribers[p]
      /\ \A p \in Name : sent'[p] = IF p = r /\ r \in parameters
                                      THEN AfterSend(r, S, snt, value[r]) ELSE sent[p]
      /\ \A d \in Client, p \in Name :
           received'[d][p] = IF p = r /\ r \in parameters /\ d \in out THEN value[r]
                                                                       ELSE received[d][p]
  BY <1>0 DEF AddRegisterPetition
<1>2. \A d \in Client : snt[d] = sent[r][d]
  <2>1. sent[r][c] = Initial(r)
    BY Subscribed DEF Broking, Strangers
  <2> QED  BY <2>1 DEF WithRegister, TypeOK
<1>3. \A d \in Client : /\ d \in out <=> d \in S /\ OutOfDate(r, sent[r][d], value[r])
                        /\ AfterSend(r, S, snt, value[r])[d] =
                             IF d \in out THEN value[r] ELSE sent[r][d]
  BY <1>2, Subscribed DEF Outdated, AfterSend, TypeOK
<1>4. ASSUME r \in parameters, NEW d \in out PROVE d \in S /\ sent[r][d] # value[r] /\ d \in clients
  <2>1. S \subseteq clients /\ clients \subseteq Client
    BY <1>1, Subscribed DEF TypeOK
  <2>2. d \in S /\ OutOfDate(r, sent[r][d], value[r])
    BY <1>2, <2>1 DEF Outdated
  <2>3. r \in Numeric => value[r] \in Int
    BY <1>4, BrokerAssumption DEF TypeOK, Value
  <2>4. sent[r][d] # value[r]
    BY <2>2, <2>3, BrokerAssumption DEF OutOfDate, Abs
  <2> QED  BY <2>1, <2>2, <2>4
<1>9. S \subseteq Client /\ subscribers[r] \subseteq S
  BY <1>1, Subscribed DEF TypeOK
<1> HIDE DEF S, snt, out
<1>5. Strangers'
  <2>1. ASSUME NEW d \in Client \ clients'
        PROVE  offered'[d] = {} /\ \A p \in Name : received'[d][p] = Nothing
    BY <1>1, <1>4 DEF Broking, Strangers
  <2>2. ASSUME NEW p \in Name, NEW d \in Client \ subscribers'[p]
        PROVE  sent'[p][d] = Initial(p)
    <3>1. CASE p = r /\ r \in parameters
      <4>1. d \notin S
        BY <1>1, <2>2, <3>1
      <4>2. d \notin out /\ d \notin subscribers[r]
        BY <1>4, <1>9, <3>1, <4>1
      <4> QED  BY <1>1, <1>3, <2>2, <3>1, <4>2 DEF Broking, Strangers
    <3>2. CASE ~ (p = r /\ r \in parameters)
      BY <1>1, <2>2, <3>2 DEF Broking, Strangers
    <3> QED  BY <3>1, <3>2
  <2> QED  BY <2>1, <2>2 DEF Strangers
<1>6. Exact'
  <2> SUFFICES ASSUME NEW p \in Name, NEW d \in subscribers'[p], sent'[p][d] # Initial(p)
               PROVE  received'[d][p] = sent'[p][d]
    BY DEF Exact
  <2>0. d \in Client
    BY <1>1, <1>9, Subscribed DEF TypeOK
  <2>1. CASE p = r /\ r \in parameters
    <3>1. CASE d \in out
      BY <1>1, <1>3, <2>0, <2>1, <3>1
    <3>2. CASE d \notin out
      <4>1. sent'[p][d] = sent[p][d] /\ received'[d][p] = received[d][p]
        BY <1>1, <1>3, <2>0, <2>1, <3>2
      <4>2. d \in subscribers[p]
        BY <2>0, <4>1 DEF Broking, Strangers
      <4> QED  BY <4>1, <4>2 DEF Broking, Exact
    <3> QED  BY <3>1, <3>2
  <2>2. CASE ~ (p = r /\ r \in parameters)
    BY <1>1, <2>0, <2>2 DEF Broking, Exact
  <2> QED  BY <2>1, <2>2
<1>8. ASSUME NEW d \in Client PROVE Tells(d)
  <2> SUFFICES ASSUME NEW p \in Name
               PROVE  received'[d][p] = IF p \in Updates(d) THEN value'[p] ELSE received[d][p]
    BY DEF Tells
  <2>1. CASE p = r /\ r \in parameters
    <3>1. p \in Updates(d) <=> d \in out
      BY <1>1, <1>3, <1>4, <2>1 DEF Updates
    <3> QED  BY <1>1, <2>1, <3>1
  <2>2. CASE ~ (p = r /\ r \in parameters)
    BY <1>1, <2>2 DEF Updates
  <2> QED  BY <2>1, <2>2
<1> QED  BY <1>5, <1>6, <1>8 DEF Broking

LEMMA SetValueTells ==
  ASSUME TypeOK, Bookkeeping, Broking, NEW c \in Client, NEW p \in Gives[Of[c]],
         NEW v \in Value(p), SetValue(c, p, v)
  PROVE  Broking' /\ \A d \in Client : Tells(d)
<1> DEFINE S == SubscribersOf(p)
           snt == RecordsOf(p)
           out == Outdated(p, S, snt, v)
<1>0. p \in Name /\ S \subseteq clients /\ clients \subseteq Client
  BY SystemAssumption, Subscribed DEF TypeOK
<1>1. /\ c \in clients /\ UNCHANGED <<clients, offered>>
      /\ value'[p] = v
      /\ \A q \in Name : providers'[q] = IF q = p THEN providers[p] \cup {c} ELSE providers[q]
      /\ \A q \in Name : subscribers'[q] = IF q = p THEN S ELSE subscribers[q]
      /\ \A q \in Name : sent'[q] = IF q = p THEN AfterSend(p, S, snt, v) ELSE sent[q]
      /\ \A d \in Client, q \in Name :
           received'[d][q] = IF q = p /\ d \in out THEN v ELSE received[d][q]
  BY <1>0 DEF SetValue, TypeOK
<1>2. \A d \in Client : snt[d] = sent[p][d]
  BY <1>0, Subscribed DEF RecordsOf, Broking, Strangers
<1>3. \A d \in Client : /\ d \in out <=> d \in S /\ OutOfDate(p, sent[p][d], v)
                        /\ AfterSend(p, S, snt, v)[d] = IF d \in out THEN v ELSE sent[p][d]
  BY <1>0, <1>2 DEF Outdated, AfterSend
<1>4. ASSUME NEW d \in out PROVE d \in S /\ sent[p][d] # v /\ d \in clients
  <2>1. d \in S /\ OutOfDate(p, sent[p][d], v)
    BY <1>0, <1>2 DEF Outdated
  <2>2. p \in Numeric => v \in Int
    BY BrokerAssumption DEF Value
  <2>3. sent[p][d] # v
    BY <2>1, <2>2, BrokerAssumption DEF OutOfDate, Abs
  <2> QED  BY <1>0, <2>1, <2>3
<1>5. subscribers[p] \subseteq S
  BY <1>0, Subscribed DEF SubscribersOf
<1> HIDE DEF S, snt, out
<1>6. Strangers'
  <2>1. ASSUME NEW d \in Client \ clients'
        PROVE  offered'[d] = {} /\ \A q \in Name : received'[d][q] = Nothing
    BY <1>1, <1>4 DEF Broking, Strangers
  <2>2. ASSUME NEW q \in Name, NEW d \in Client \ subscribers'[q]
        PROVE  sent'[q][d] = Initial(q)
    <3>1. CASE q = p
      BY <1>1, <1>3, <1>4, <1>5, <2>2, <3>1 DEF Broking, Strangers
    <3>2. CASE q # p
      BY <1>1, <2>2, <3>2 DEF Broking, Strangers
    <3> QED  BY <3>1, <3>2
  <2> QED  BY <2>1, <2>2 DEF Strangers
<1>7. Exact'
  <2> SUFFICES ASSUME NEW q \in Name, NEW d \in subscribers'[q], sent'[q][d] # Initial(q)
               PROVE  received'[d][q] = sent'[q][d]
    BY DEF Exact
  <2>0. d \in Client
    BY <1>0, <1>1, Subscribed DEF TypeOK
  <2>1. CASE q = p
    <3>1. CASE d \in out
      BY <1>1, <1>3, <2>0, <2>1, <3>1
    <3>2. CASE d \notin out
      <4>1. sent'[q][d] = sent[q][d] /\ received'[d][q] = received[d][q]
        BY <1>1, <1>3, <2>0, <2>1, <3>2
      <4>2. d \in subscribers[q]
        BY <2>0, <4>1 DEF Broking, Strangers
      <4> QED  BY <4>1, <4>2 DEF Broking, Exact
    <3> QED  BY <3>1, <3>2
  <2>2. CASE q # p
    BY <1>1, <2>0, <2>2 DEF Broking, Exact
  <2> QED  BY <2>1, <2>2
<1>9. ASSUME NEW d \in Client PROVE Tells(d)
  <2> SUFFICES ASSUME NEW q \in Name
               PROVE  received'[d][q] = IF q \in Updates(d) THEN value'[q] ELSE received[d][q]
    BY DEF Tells
  <2>1. CASE q = p
    <3>1. q \in Updates(d) <=> d \in out
      BY <1>1, <1>3, <1>4, <2>1 DEF Updates
    <3> QED  BY <1>1, <2>1, <3>1
  <2>2. CASE q # p
    BY <1>1, <2>2 DEF Updates
  <2> QED  BY <2>1, <2>2
<1> QED  BY <1>6, <1>7, <1>9 DEF Broking

LEMMA SetUnreadableTells ==
  ASSUME NEW c \in Client, NEW p \in Name, SetUnreadable(c, p)
  PROVE  Broking'
BY DEF SetUnreadable, Broking, Strangers, Exact
-------------------------------------------------------------------------------
(* A connection, action by action.                                         *)

LEMMA OncePop ==
  ASSUME NEW T, NEW q \in Seq(T), q # <<>>, NEW l, Once(q, l)
  PROVE  Once(Tail(q), l) /\ (l \in ToSet(Tail(q)) <=> l \in ToSet(q) /\ Head(q) # l)
<1>1. /\ Len(q) \in Nat \ {0} /\ DOMAIN q = 1..Len(q) /\ Head(q) = q[1]
      /\ DOMAIN Tail(q) = 1..(Len(q) - 1)
      /\ \A i \in DOMAIN Tail(q) : Tail(q)[i] = q[i + 1]
  BY Indices, EmptySeq, HeadTailProperties
<1>2. Once(Tail(q), l)
  <2> SUFFICES ASSUME NEW i \in DOMAIN Tail(q), NEW j \in DOMAIN Tail(q),
                      Tail(q)[i] = l, Tail(q)[j] = l
               PROVE  i = j
    BY DEF Once
  <2>1. i + 1 \in DOMAIN q /\ j + 1 \in DOMAIN q /\ q[i + 1] = l /\ q[j + 1] = l
    BY <1>1
  <2>2. i + 1 = j + 1
    BY <2>1 DEF Once
  <2> QED  BY <1>1, <2>2
<1>3. ASSUME l \in ToSet(Tail(q)) PROVE l \in ToSet(q) /\ Head(q) # l
  <2>1. PICK i \in DOMAIN Tail(q) : Tail(q)[i] = l
    BY <1>3 DEF ToSet
  <2>2. i + 1 \in DOMAIN q /\ q[i + 1] = l /\ 1 \in DOMAIN q /\ i + 1 # 1
    BY <1>1, <2>1
  <2> QED  BY <1>1, <2>2 DEF Once, ToSet
<1>4. ASSUME l \in ToSet(q), Head(q) # l PROVE l \in ToSet(Tail(q))
  <2>1. PICK i \in DOMAIN q : q[i] = l
    BY <1>4 DEF ToSet
  <2>2. i - 1 \in DOMAIN Tail(q) /\ Tail(q)[i - 1] = l
    BY <1>1, <1>4, <2>1
  <2> QED  BY <2>2 DEF ToSet
<1> QED  BY <1>2, <1>3, <1>4

LEMMA OncePush ==
  ASSUME NEW T, NEW q \in Seq(T), NEW w \in Seq(T), NEW l, Once(q, l), l \notin ToSet(w)
  PROVE  Once(q \o w, l) /\ (l \in ToSet(q \o w) <=> l \in ToSet(q))
<1>1. ASSUME NEW i \in DOMAIN (q \o w), (q \o w)[i] = l
      PROVE  i \in DOMAIN q /\ q[i] = l
  <2>1. CASE i \in DOMAIN q
    BY <1>1, <2>1, Joined
  <2>2. CASE i \notin DOMAIN q
    <3>1. PICK j \in DOMAIN w : i = Len(q) + j
      BY <2>2, Joined
    <3>2. w[j] = l
      BY <1>1, <3>1, Joined
    <3> QED  BY <3>2 DEF ToSet
  <2> QED  BY <2>1, <2>2
<1>2. Once(q \o w, l)
  BY <1>1 DEF Once
<1> QED  BY <1>2, ToSetJoined

LEMMA Absent ==
  ASSUME NEW c \in Client, link'[c] = "none", clients' = {}, up'[c] = <<>>,
         down'[c] = <<>>, asked'[c] = {}
  PROVE  Connection(c)'
BY DEF Connection, Links, Petitions, Demand, Told, Current, Provides

\* What a step of a program does to the connection of another one.
LEMMA Unaffected ==
  ASSUME NEW d \in Client, Connection(d), UNCHANGED <<vars, late>>,
         link'[d] = link[d], up'[d] = up[d], down'[d] = down[d],
         asked'[d] = asked[d], record'[d] = record[d],
         link[d] = "up" => shown'[Of[d]] = shown[Of[d]]
  PROVE  Connection(d)'
BY DEF Connection, Links, Petitions, Demand, Told, Current, Stored, Provides, vars

LEMMA OthersUnaffected ==
  ASSUME SysType, Alone, NEW c \in Client, NEW d \in Client \ {c}, Connection(d),
         Start(c) \/ Read(c) \/ Send(c) \/ Leave(c)
  PROVE  Connection(d)'
<1>1. /\ UNCHANGED <<vars, late>>
      /\ link'[d] = link[d] /\ up'[d] = up[d] /\ down'[d] = down[d]
      /\ asked'[d] = asked[d] /\ record'[d] = record[d]
  BY TypeParts DEF Start, Read, Send, Leave, SysType
<1>2. ASSUME link[d] = "up" PROVE shown'[Of[d]] = shown[Of[d]]
  <2>1. CASE Read(c)
    <3>1. Of[c] # Of[d] /\ Of[d] \in Program
      BY <1>2, <2>1, SystemAssumption DEF Alone, Read
    <3> QED  BY <2>1, <3>1 DEF Read, SysType
  <2>2. CASE Start(c) \/ Send(c) \/ Leave(c)
    BY <2>2 DEF Start, Send, Leave
  <2> QED  BY <2>1, <2>2
<1> QED  BY <1>1, <1>2, Unaffected

LEMMA StartConnection ==
  ASSUME Kept, Broking, NEW c \in Client, Connection(c), Start(c)
  PROVE  Connection(c)'
<1> DEFINE q == SetToSeq({Register(p) : p \in Shows[Of[c]]})
<1>1. /\ UNCHANGED vars /\ link[c] = "none"
      /\ link'[c] = "up" /\ up'[c] = q /\ down'[c] = down[c] /\ asked'[c] = {}
  BY DEF Start, Kept, SysType
<1>2. c \notin clients /\ down[c] = <<>>
  BY <1>1 DEF Connection, Links
<1>3. offered[c] = {} /\ \A p \in Name : received[c][p] = Nothing /\ c \notin petitioners[p]
  BY <1>2, HereDisjoint DEF Broking, Strangers, Kept, Bookkeeping, ClientsKnown
<1>4. /\ ToSet(q) = {Register(p) : p \in Shows[Of[c]]}
      /\ \A i, j \in DOMAIN q : q[i] = q[j] => i = j
  BY RegisterLines
<1> HIDE DEF q
<1>5. Links(c)'
  BY <1>1, <1>2 DEF Links, vars
<1>6. Petitions(c)'
  <2>1. \A p \in Name : p \in Shows[Of[c]] <=> Register(p) \in ToSet(q)
    BY <1>4 DEF Register
  <2> QED  BY <1>1, <1>3, <1>4, <2>1 DEF Petitions, Once, vars
<1>7. Demand(c)'
  <2>1. \A p \in Gives[Of[c]] : Ends(<<>>, p, Calls, Unregister(p), {Unregister(p)})
    BY DEF Ends
  <2> QED  BY <1>1, <1>2, <1>3, <2>1 DEF Demand, Call, vars
<1>8. Told(c)'
  BY <1>1, <1>3, SystemAssumption DEF Told, vars
<1>9. Current(c)' /\ Provides(c)'
  BY <1>1 DEF Current, Provides
<1> QED  BY <1>5, <1>6, <1>7, <1>8, <1>9 DEF Connection

LEMMA LeaveConnection ==
  ASSUME Kept, NEW c \in Client, Connection(c), Leave(c)
  PROVE  Connection(c)'
<1>1. /\ UNCHANGED vars /\ link[c] = "up" /\ link'[c] = "closed"
      /\ up'[c] = up[c] /\ down'[c] = <<>> /\ asked'[c] = {}
  BY DEF Leave, Kept, SysType
<1> QED  BY <1>1 DEF Connection, Links, Petitions, Demand, Told, Current, Provides, vars

\* ParseLine, name by name.
LEMMA TakenMeans ==
  ASSUME SysType, NEW c \in Client, NEW p \in Name, Read(c)
  PROVE  LET line == Head(down[c])
             fresh == Says(line, p, {"register"}) /\ p \in Gives[Of[c]]
         IN  /\ p \in asked'[c] <=>
                  fresh \/ (p \in asked[c] /\ ~ Says(line, p, {"unregister"}))
             /\ record'[c][p] = IF fresh THEN Initial(p) ELSE record[c][p]
             /\ shown'[Of[c]][p] = IF Says(line, p, Sets) /\ p \in Shows[Of[c]]
                                 THEN line.value ELSE shown[Of[c]][p]
<1> DEFINE line == Head(down[c])
           m == Taken(c, Manager(c), line)
<1>1. asked'[c] = m.asked /\ record'[c] = m.record /\ shown'[Of[c]] = m.shown
  BY SystemAssumption DEF Read, SysType
<1>2. line.name \in Name /\ line.say \in {"register", "unregister", "="}
  BY HeadDown DEF Read, Calls, Sets
<1>3. asked[c] \subseteq Gives[Of[c]]
  BY DEF SysType
<1>4. p \in m.asked <=> \/ Says(line, p, {"register"}) /\ p \in Gives[Of[c]]
                        \/ p \in asked[c] /\ ~ Says(line, p, {"unregister"})
  BY <1>2, <1>3 DEF Taken, Manager, Says
<1>5. m.record[p] = IF Says(line, p, {"register"}) /\ p \in Gives[Of[c]]
                      THEN Initial(p) ELSE record[c][p]
  BY <1>2 DEF Taken, Manager, Says, SysType
<1>6. m.shown[p] = IF Says(line, p, Sets) /\ p \in Shows[Of[c]] THEN line.value ELSE shown[Of[c]][p]
  <2>1. shown[Of[c]] \in [Name -> Line]
    BY SystemAssumption DEF SysType
  <2> QED  BY <1>2, <2>1 DEF Taken, Manager, Says, Sets
<1> QED  BY <1>1, <1>4, <1>5, <1>6

LEMMA ReadConnection ==
  ASSUME Kept, NEW c \in Client, Connection(c), Read(c)
  PROVE  Connection(c)'
<1> DEFINE q == down[c]
           line == Head(q)
<1>0. SysType
  BY DEF Kept
<1>1. /\ UNCHANGED vars /\ link[c] = "up" /\ link'[c] = "up" /\ up'[c] = up[c]
      /\ q # <<>> /\ q \in Seq(DownLine) /\ down'[c] = Tail(q)
  BY <1>0, QueuesOK DEF Read, DownOK
<1>2. c \in clients
  BY <1>1 DEF Connection, Links
<1>3. Links(c)' /\ Petitions(c)'
  BY <1>1, <1>2 DEF Connection, Links, Petitions, vars
<1>4. Demand(c)'
  <2> SUFFICES ASSUME NEW p \in Gives[Of[c]]
               PROVE  Ends(down'[c], p, Calls, Call(p, p \in asked'[c]), {Call(p, p \in offered'[c])})
    BY DEF Demand
  <2>0. p \in Name
    BY SystemAssumption
  <2>1. Ends(q, p, Calls, Call(p, p \in asked[c]), {Call(p, p \in offered[c])})
    BY <1>1 DEF Connection, Demand
  <2>2. Ends(Tail(q), p, Calls, IF Says(line, p, Calls) THEN line ELSE Call(p, p \in asked[c]),
             {Call(p, p \in offered[c])})
    BY <1>1, <2>1, EndsPop
  <2>3. (IF Says(line, p, Calls) THEN line ELSE Call(p, p \in asked[c])) = Call(p, p \in asked'[c])
    <3>1. p \in asked'[c] <=> \/ Says(line, p, {"register"})
                              \/ p \in asked[c] /\ ~ Says(line, p, {"unregister"})
      BY <1>0, <2>0, TakenMeans
    <3>2. CASE Says(line, p, {"register"})
      <4>1. line = Register(p) /\ Says(line, p, Calls)
        BY <1>0, <1>1, <3>2, HeadDown DEF Says, Calls
      <4> QED  BY <3>1, <3>2, <4>1 DEF Call
    <3>3. CASE Says(line, p, {"unregister"})
      <4>1. line = Unregister(p) /\ Says(line, p, Calls) /\ ~ Says(line, p, {"register"})
        BY <1>0, <1>1, <3>3, HeadDown DEF Says, Calls
      <4> QED  BY <3>1, <3>3, <4>1 DEF Call
    <3>4. CASE ~ Says(line, p, {"register"}) /\ ~ Says(line, p, {"unregister"})
      <4>1. ~ Says(line, p, Calls)
        BY <3>4 DEF Says, Calls
      <4> QED  BY <3>1, <3>4, <4>1
    <3> QED  BY <3>2, <3>3, <3>4
  <2> QED  BY <1>1, <2>2, <2>3 DEF vars
<1>5. Told(c)'
  <2> SUFFICES ASSUME NEW p \in Shows[Of[c]], received'[c][p] # Nothing
               PROVE  Ends(down'[c], p, Sets, Assign(p, shown'[Of[c]][p]), {Assign(p, received'[c][p])})
    BY DEF Told
  <2>0. p \in Name /\ received' = received
    BY <1>1, SystemAssumption DEF vars
  <2>1. Ends(q, p, Sets, Assign(p, shown[Of[c]][p]), {Assign(p, received[c][p])})
    BY <1>1, <2>0 DEF Connection, Told
  <2>2. Ends(Tail(q), p, Sets, IF Says(line, p, Sets) THEN line ELSE Assign(p, shown[Of[c]][p]),
             {Assign(p, received[c][p])})
    BY <1>1, <2>1, EndsPop
  <2>3. shown'[Of[c]][p] = IF Says(line, p, Sets) THEN line.value ELSE shown[Of[c]][p]
    BY <1>0, <2>0, TakenMeans
  <2>4. Says(line, p, Sets) => line = Assign(p, line.value)
    BY <1>0, <1>1, HeadDown DEF Says, Sets
  <2> QED  BY <1>1, <2>0, <2>2, <2>3, <2>4
<1>6. ASSUME NEW p \in asked'[c], Silent(down'[c], p, Calls), record'[c][p] # Initial(p)
      PROVE  /\ p \in asked[c] /\ record'[c][p] = record[c][p] /\ Silent(q, p, Calls)
             /\ Stored(c, p)' = Stored(c, p)
  <2>5. p \in Gives[Of[c]]
    BY <1>0, ReadType DEF ProgramsOK
  <2>0. p \in Name
    BY <2>5, SystemAssumption
  <2>1. ~ Says(line, p, {"register"}) /\ ~ Says(line, p, {"unregister"})
    BY <1>0, <1>6, <2>0, <2>5, TakenMeans DEF Says
  <2>2. p \in asked[c] /\ record'[c][p] = record[c][p]
    BY <1>0, <1>6, <2>0, <2>1, TakenMeans
  <2>3. Silent(q, p, Calls)
    BY <1>1, <1>6, <2>1, SilentPop DEF Says, Calls
  <2>4. late' = late
    BY DEF Read
  <2> QED  BY <1>1, <2>2, <2>3, <2>4 DEF Stored, vars
<1>7. Current(c)'
  <2> SUFFICES ASSUME NEW p \in asked'[c], Givers(p) = {Of[c]}, Silent(down'[c], p, Calls),
                      record'[c][p] # Initial(p)
               PROVE  Ends(up'[c], p, Sets, Assign(p, Stored(c, p)'), {Assign(p, record'[c][p])})
    BY DEF Current
  <2> QED  BY <1>1, <1>6 DEF Connection, Current
<1>8. Provides(c)'
  BY <1>1, <1>6 DEF Connection, Provides, vars
<1> QED  BY <1>3, <1>4, <1>5, <1>7, <1>8 DEF Connection

LEMMA SendConnection ==
  ASSUME Kept, NEW c \in Client, Connection(c), Send(c)
  PROVE  Connection(c)'
<1> DEFINE due == Due(c, Manager(c))
           w == SetToSeq({Assign(p, own[Of[c]][p]) : p \in due})
<1>0. SysType
  BY DEF Kept
<1>1. /\ UNCHANGED vars /\ link[c] = "up" /\ link'[c] = "up"
      /\ up'[c] = up[c] \o w /\ down'[c] = down[c]
      /\ asked'[c] = asked[c] /\ shown'[Of[c]] = shown[Of[c]]
      /\ \A p \in Name : record'[c][p] = IF p \in due THEN own[Of[c]][p] ELSE record[c][p]
  BY <1>0 DEF Send, SysType
<1>2. due \in SUBSET asked[c]
  BY DEF Due, Manager
<1>3. w \in Seq(UpLine(c)) /\ ToSet(w) = {Assign(p, own[Of[c]][p]) : p \in due}
  BY <1>0, <1>2, AssignLines
<1>4. up[c] \in Seq(UpLine(c))
  BY <1>0, QueuesOK DEF UpOK
<1> HIDE DEF due, w
<1>5. Links(c)' /\ Demand(c)' /\ Told(c)'
  BY <1>1 DEF Connection, Links, Demand, Told, vars
<1>6. Petitions(c)'
  <2>1. \A p \in Name : Register(p) \notin ToSet(w)
    BY <1>3 DEF Register, Assign
  <2>2. ASSUME NEW p \in Name
        PROVE  /\ Register(p) \in ToSet(up'[c]) <=> Register(p) \in ToSet(up[c])
               /\ Once(up'[c], Register(p))
    BY <1>1, <1>3, <1>4, <2>1, OncePush DEF Connection, Petitions
  <2> QED  BY <1>1, <2>2 DEF Connection, Petitions, vars
<1>7. ASSUME NEW p \in due
      PROVE  /\ ~ Silent(w, p, Sets)
             /\ \A i \in DOMAIN w : Says(w[i], p, Sets) => w[i] \in {Assign(p, record'[c][p])}
  <2>0. p \in Name /\ record'[c][p] = own[Of[c]][p]
    BY <1>0, <1>1, <1>2 DEF SysType
  <2>1. Assign(p, own[Of[c]][p]) \in ToSet(w) /\ Says(Assign(p, own[Of[c]][p]), p, Sets)
    BY <1>3 DEF Says, Assign, Sets
  <2>2. ~ Silent(w, p, Sets)
    BY <2>1, SilentSet
  <2>3. ASSUME NEW i \in DOMAIN w, Says(w[i], p, Sets)
        PROVE  w[i] \in {Assign(p, record'[c][p])}
    <3>1. w[i] \in ToSet(w)
      BY DEF ToSet
    <3>2. w[i] = Assign(p, own[Of[c]][p])
      BY <1>3, <2>3, <3>1 DEF Says, Assign
    <3> QED  BY <2>0, <3>2
  <2> QED  BY <2>2, <2>3
<1>8. ASSUME NEW p \in asked[c] \ due
      PROVE  record'[c][p] = record[c][p] /\ Silent(w, p, Sets) /\ Stored(c, p)' = Stored(c, p)
  <2>1. p \in Name /\ late' = late
    BY <1>0 DEF SysType, Send
  <2>2. record'[c][p] = record[c][p]
    BY <1>1, <2>1
  <2> QED  BY <1>1, <1>3, <2>1, <2>2, SilentSet DEF Says, Assign, Stored, vars
<1>9. Current(c)'
  <2> SUFFICES ASSUME NEW p \in asked[c], Givers(p) = {Of[c]}, Silent(down[c], p, Calls),
                      record'[c][p] # Initial(p)
               PROVE  Ends(up[c] \o w, p, Sets, Assign(p, Stored(c, p)'), {Assign(p, record'[c][p])})
    BY <1>1 DEF Current
  <2> DEFINE b == Assign(p, Stored(c, p)')
             G == {Assign(p, record'[c][p])}
  <2>1. CASE p \in due
    <3>1. ~ Silent(w, p, Sets) /\ \A i \in DOMAIN w : Says(w[i], p, Sets) => w[i] \in G
      BY <1>7, <2>1
    <3> HIDE DEF b, G
    <3>2. Ends(up[c] \o w, p, Sets, b, G)
      BY <1>3, <1>4, <3>1, EndsPush
    <3> QED  BY <3>2 DEF b, G
  <2>2. CASE p \notin due
    <3>1. Silent(w, p, Sets)
      BY <1>8, <2>2
    <3>2. Ends(up[c], p, Sets, b, G)
      BY <1>1, <1>8, <2>2 DEF Connection, Current
    <3> HIDE DEF b, G
    <3>3. Ends(up[c] \o w, p, Sets, b, G)
      BY <1>3, <1>4, <3>1, <3>2, EndsPushOther
    <3> QED  BY <3>3 DEF b, G
  <2> QED  BY <2>1, <2>2
<1>10. Provides(c)'
  <2> SUFFICES ASSUME NEW p \in asked[c], Silent(down[c], p, Calls), record'[c][p] # Initial(p)
               PROVE  c \in providers[p] \/ ~ Silent(up[c] \o w, p, Sets)
    BY <1>1 DEF Provides, vars
  <2>1. Silent(up[c] \o w, p, Sets) <=> Silent(up[c], p, Sets) /\ Silent(w, p, Sets)
    BY <1>3, <1>4, SilentJoined
  <2>2. CASE p \in due
    BY <1>7, <2>1, <2>2
  <2>3. CASE p \notin due
    BY <1>1, <1>8, <2>1, <2>3 DEF Connection, Provides
  <2> QED  BY <2>2, <2>3
<1> QED  BY <1>5, <1>6, <1>9, <1>10 DEF Connection
-------------------------------------------------------------------------------
(* A connection, when the server does something for client c.              *)

\* The state of affairs before such a step, and what is known after it.
Consistent == Kept /\ Broking /\ Alone /\ \A c \in Client : Connection(c)

LEMMA ServeReads ==
  ASSUME Consistent, NEW c \in Client, Serve(c)
  PROVE  /\ link[c] # "none" /\ c \in clients
         /\ up[c] \in Seq(UpLine(c)) /\ up[c] # <<>> /\ up'[c] = Tail(up[c])
         /\ \A d \in Client \ {c} : up'[d] = up[d]
         /\ UNCHANGED <<link, programs>> /\ Deliver
         /\ \/ \E p \in Name : /\ Head(up[c]) = Register(p) /\ c \notin petitioners[p]
                               /\ AddRegisterPetition(c, p) /\ UNCHANGED late
            \/ \E p \in Gives[Of[c]] : \E v \in Value(p) :
                 /\ Head(up[c]) = Assign(p, v) /\ SetValue(c, p, v)
                 /\ late' = IF link[c] = "up" THEN late \ {p} ELSE late \cup {p}
<1>1. /\ up[c] # <<>> /\ up' = [up EXCEPT ![c] = Tail(@)]
      /\ UNCHANGED <<link, programs>> /\ Deliver
  BY DEF Serve
<1>2. UpOK /\ SysType
  BY QueuesOK DEF Consistent, Kept
<1>3. link[c] # "none"
  BY <1>1 DEF Consistent, Connection, Links
<1>4. Head(up[c]) \in ToSet(up[c])
  BY <1>1, <1>2, EmptySeq, Indices DEF UpOK, ToSet
<1>5. \/ \E p \in Name : /\ Head(up[c]) = Register(p)
                        /\ AddRegisterPetition(c, p) /\ UNCHANGED late
      \/ \E p \in Gives[Of[c]] : \E v \in Value(p) :
           /\ Head(up[c]) = Assign(p, v) /\ SetValue(c, p, v)
           /\ late' = IF link[c] = "up" THEN late \ {p} ELSE late \cup {p}
  BY <1>2, HeadUp DEF Serve
<1>6. \A p \in Name : Head(up[c]) = Register(p) => c \notin petitioners[p]
  BY <1>3, <1>4 DEF Consistent, Connection, Petitions
<1>7. c \in clients
  BY <1>5 DEF AddRegisterPetition, SetValue
<1> QED  BY <1>1, <1>2, <1>3, <1>5, <1>6, <1>7 DEF UpOK

\* What every step of the server has in common.
Delivered(c) ==
  /\ Broking' /\ Deliver /\ UNCHANGED programs
  /\ \A d \in Client :
       /\ link'[d] = link[d] \/ (d = c /\ link[d] = "closed" /\ link'[d] = "none")
       /\ link'[d] = "up" => Tells(d) /\ (d \notin clients' => d \notin clients)
       /\ link'[d] = "none" => d \notin clients' /\ up'[d] = <<>>

LEMMA ServerStepDelivers ==
  ASSUME Consistent, Kept', NEW c \in Client, ServerStep(c)
  PROVE  Delivered(c)
<1>0. /\ TypeOK /\ Bookkeeping /\ Bookkeeping' /\ Broking /\ SysType
      /\ \A d \in Client : link[d] = "none" => d \notin clients /\ up[d] = <<>>
  BY DEF Consistent, Kept, Connection, Links
<1>1. CASE Accept(c)
  <2>1. /\ link[c] # "none" /\ AddClient(c) /\ UNCHANGED <<link, up, late, programs>> /\ Deliver
    BY <1>1 DEF Accept
  <2>2. Broking' /\ \A d \in Client : Tells(d)
    BY <1>0, <2>1, AddClientTells
  <2>3. clients' = clients \cup {c}
    BY <2>1 DEF AddClient
  <2> QED  BY <1>0, <2>1, <2>2, <2>3 DEF Delivered
<1>2. CASE Serve(c)
  <2>1. /\ link[c] # "none" /\ UNCHANGED <<link, programs>> /\ Deliver
        /\ \A d \in Client \ {c} : up'[d] = up[d]
    BY <1>2, ServeReads
  <2>2. Broking' /\ (\A d \in Client : Tells(d)) /\ clients' = clients
    <3>1. ASSUME NEW p \in Name, c \notin petitioners[p], AddRegisterPetition(c, p)
          PROVE  Broking' /\ (\A d \in Client : Tells(d)) /\ clients' = clients
      BY <1>0, <3>1, AddRegisterPetitionTells DEF AddRegisterPetition
    <3>2. ASSUME NEW p \in Gives[Of[c]], NEW v \in Value(p), SetValue(c, p, v)
          PROVE  Broking' /\ (\A d \in Client : Tells(d)) /\ clients' = clients
      BY <1>0, <3>2, SetValueTells DEF SetValue
    <3> QED  BY <1>2, <3>1, <3>2, ServeReads
  <2> QED  BY <1>0, <2>1, <2>2 DEF Delivered
<1>3. CASE Forget(c)
  <2>1. /\ link[c] = "closed" /\ RemoveClient(c) /\ UNCHANGED programs /\ Deliver
        /\ link'[c] = "none" /\ up'[c] = <<>>
        /\ \A d \in Client \ {c} : link'[d] = link[d] /\ up'[d] = up[d]
    BY <1>0, <1>3 DEF Forget, SysType
  <2>2. Broking' /\ (\A d \in Client \ {c} : Tells(d))
    BY <1>0, <2>1, RemoveClientTells
  <2>3. clients' = clients \ {c}
    BY <2>1 DEF RemoveClient
  <2> QED  BY <1>0, <2>1, <2>2, <2>3 DEF Delivered
<1> QED  BY <1>1, <1>2, <1>3 DEF ServerStep

\* For a program that still listens.
LEMMA Listening ==
  ASSUME Consistent, Kept', NEW c \in Client, Delivered(c), NEW d \in Client, link'[d] = "up"
  PROVE  /\ link[d] = "up" /\ asked'[d] = asked[d] /\ record'[d] = record[d]
         /\ shown'[Of[d]] = shown[Of[d]] /\ Tells(d)
         /\ down[d] \in Seq(DownLine) /\ Written(d) \in Seq(DownLine)
         /\ down'[d] = down[d] \o Written(d)
<1>1. TypeOK /\ TypeOK' /\ DownOK
  BY QueuesOK DEF Consistent, Kept
<1> QED  BY <1>1, WrittenLines, SystemAssumption DEF Delivered, Deliver, programs, DownOK

LEMMA DeliveredLinks ==
  ASSUME Consistent, Kept', NEW c \in Client, Delivered(c), NEW d \in Client
  PROVE  Links(d)'
<1>1. link'[d] = "none" => d \notin clients' /\ up'[d] = <<>>
  BY DEF Delivered
<1>2. CASE link'[d] # "up"
  <2>1. link[d] # "up" /\ asked'[d] = asked[d] /\ down'[d] = <<>>
    BY <1>2 DEF Delivered, Deliver, programs
  <2>2. asked[d] = {}
    BY <2>1 DEF Consistent, Connection, Links
  <2> QED  BY <1>1, <2>1, <2>2 DEF Links
<1>3. CASE link'[d] = "up" /\ d \notin clients'
  <2>1. d \notin clients
    BY <1>3 DEF Delivered
  <2>2. down[d] = <<>> /\ asked[d] = {}
    BY <2>1 DEF Consistent, Connection, Links
  <2>3. offered[d] = {} /\ offered'[d] = {}
    BY <1>3, <2>1 DEF Consistent, Broking, Strangers, Delivered
  <2>4. Updates(d) = {}
    BY <1>3 DEF Updates, Kept, Bookkeeping, ClientsKnown
  <2>5. Written(d) = <<>>
    BY <2>3, <2>4, WrittenNothing, SystemAssumption DEF Consistent, Kept
  <2>6. down'[d] = <<>> \o <<>> /\ asked'[d] = asked[d]
    BY <1>3, <2>2, <2>5, Listening
  <2>7. <<>> \o <<>> = <<>>
    BY EmptySeq, ConcatEmptySeq
  <2> QED  BY <1>3, <2>2, <2>6, <2>7 DEF Links
<1>4. CASE link'[d] = "up" /\ d \in clients'
  BY <1>4 DEF Links
<1> QED  BY <1>2, <1>3, <1>4

LEMMA DeliveredDemand ==
  ASSUME Consistent, Kept', NEW c \in Client, Delivered(c), NEW d \in Client
  PROVE  Demand(d)'
<1> SUFFICES ASSUME link'[d] = "up", NEW p \in Gives[Of[d]]
             PROVE  Ends(down'[d], p, Calls, Call(p, p \in asked'[d]), {Call(p, p \in offered'[d])})
  BY DEF Demand
<1>0. p \in Name /\ TypeOK /\ TypeOK'
  BY SystemAssumption DEF Consistent, Kept
<1>4. /\ asked'[d] = asked[d] /\ down'[d] = down[d] \o Written(d)
      /\ down[d] \in Seq(DownLine) /\ Written(d) \in Seq(DownLine)
  BY Listening
<1>1. Ends(down[d], p, Calls, Call(p, p \in asked[d]), {Call(p, p \in offered[d])})
  BY Listening DEF Consistent, Connection, Demand
<1>2. CASE Silent(Written(d), p, Calls) /\ (p \in offered[d] <=> p \in offered'[d])
  <2>1. Ends(down[d], p, Calls, Call(p, p \in asked'[d]), {Call(p, p \in offered'[d])})
    <3>1. Call(p, p \in asked'[d]) = Call(p, p \in asked[d])
      BY <1>4
    <3>2. Call(p, p \in offered'[d]) = Call(p, p \in offered[d])
      BY <1>2 DEF Call
    <3> QED  BY <1>1, <3>1, <3>2
  <2> QED  BY <1>2, <1>4, <2>1, EndsPushOther
<1>3. CASE /\ ~ Silent(Written(d), p, Calls)
           /\ \A i \in DOMAIN Written(d) : Says(Written(d)[i], p, Calls) =>
                Written(d)[i] = Call(p, p \in offered'[d])
  <2> DEFINE G == {Call(p, p \in offered'[d])}
  <2>1. \A i \in DOMAIN Written(d) : Says(Written(d)[i], p, Calls) => Written(d)[i] \in G
    BY <1>3
  <2> HIDE DEF G
  <2>2. Ends(down[d] \o Written(d), p, Calls, Call(p, p \in asked'[d]), G)
    BY <1>3, <1>4, <2>1, EndsPush
  <2> QED  BY <1>4, <2>2 DEF G
<1> QED  BY <1>0, <1>2, <1>3, WrittenCalls, SystemAssumption

LEMMA DeliveredTold ==
  ASSUME Consistent, Kept', NEW c \in Client, Delivered(c), NEW d \in Client
  PROVE  Told(d)'
<1> SUFFICES ASSUME link'[d] = "up", NEW p \in Shows[Of[d]], received'[d][p] # Nothing
             PROVE  Ends(down'[d], p, Sets, Assign(p, shown'[Of[d]][p]), {Assign(p, received'[d][p])})
  BY DEF Told
<1>0. p \in Name /\ TypeOK /\ TypeOK'
  BY SystemAssumption DEF Consistent, Kept
<1>4. /\ shown'[Of[d]] = shown[Of[d]] /\ down'[d] = down[d] \o Written(d)
      /\ down[d] \in Seq(DownLine) /\ Written(d) \in Seq(DownLine)
  BY Listening
<1>1. received'[d][p] = IF p \in Updates(d) THEN value'[p] ELSE received[d][p]
  BY <1>0, Listening DEF Tells
<1>2. CASE Silent(Written(d), p, Sets) /\ p \notin Updates(d)
  <2>1. link[d] = "up" /\ Told(d) /\ received'[d][p] = received[d][p]
    BY <1>1, <1>2, Listening DEF Consistent, Connection
  <2>2. Ends(down[d], p, Sets, Assign(p, shown'[Of[d]][p]), {Assign(p, received'[d][p])})
    BY <1>4, <2>1 DEF Told
  <2> QED  BY <1>2, <1>4, <2>2, EndsPushOther
<1>3. CASE /\ ~ Silent(Written(d), p, Sets) /\ p \in Updates(d)
           /\ \A i \in DOMAIN Written(d) : Says(Written(d)[i], p, Sets) =>
                Written(d)[i] = Assign(p, value'[p])
  <2> DEFINE G == {Assign(p, received'[d][p])}
  <2>1. \A i \in DOMAIN Written(d) : Says(Written(d)[i], p, Sets) => Written(d)[i] \in G
    BY <1>1, <1>3
  <2> HIDE DEF G
  <2>2. Ends(down[d] \o Written(d), p, Sets, Assign(p, shown'[Of[d]][p]), G)
    BY <1>3, <1>4, <2>1, EndsPush
  <2> QED  BY <1>4, <2>2 DEF G
<1> QED  BY <1>0, <1>2, <1>3, WrittenSets, SystemAssumption

LEMMA DeliveredPetitions ==
  ASSUME Consistent, Kept', NEW c \in Client, ServerStep(c), Delivered(c), NEW d \in Client
  PROVE  Petitions(d)'
<1>0. /\ TypeOK /\ SysType /\ Petition = Name
      /\ link'[d] # "none" => link'[d] = link[d] /\ Petitions(d)
  BY HereDisjoint DEF Consistent, Kept, Connection, Delivered
<1>1. ASSUME link'[d] # "none", up'[d] = up[d],
             \A p \in Name : d \in petitioners'[p] <=> d \in petitioners[p]
      PROVE  Petitions(d)'
  BY <1>0, <1>1 DEF Petitions
<1>2. CASE link'[d] = "none"
  BY <1>2 DEF Petitions
<1>3. CASE link'[d] # "none" /\ Accept(c)
  <2>1. up' = up /\ petitioners' = petitioners
    BY <1>3 DEF Accept, AddClient
  <2> QED  BY <1>1, <1>3, <2>1
<1>4. CASE link'[d] # "none" /\ Forget(c)
  <2>1. link'[c] = "none" /\ up' = [up EXCEPT ![c] = <<>>] /\ petitioners' = Without(petitioners, c)
    BY <1>0, <1>4 DEF Forget, RemoveClient, Discard, SysType
  <2>2. d # c
    BY <1>4, <2>1
  <2>3. up'[d] = up[d]
    BY <1>0, <2>1, <2>2, QueuesOK DEF UpOK
  <2>4. \A p \in Name : d \in petitioners'[p] <=> d \in petitioners[p]
    BY <1>0, <2>1, <2>2 DEF Without, TypeOK
  <2> QED  BY <1>1, <1>4, <2>3, <2>4
<1>5. CASE link'[d] # "none" /\ Serve(c)
  <2>1. \A p \in Name : d # c => (d \in petitioners'[p] <=> d \in petitioners[p])
    <3>1. ASSUME NEW p \in Name, AddRegisterPetition(c, p)
          PROVE  \A q \in Name : d # c => (d \in petitioners'[q] <=> d \in petitioners[q])
      BY <1>0, <3>1 DEF AddRegisterPetition, TypeOK
    <3>2. ASSUME NEW p \in Gives[Of[c]], NEW v \in Value(p), SetValue(c, p, v)
          PROVE  petitioners' = petitioners
      BY <3>2 DEF SetValue
    <3> QED  BY <1>5, <3>1, <3>2, ServeReads
  <2>2. CASE d # c
    BY <1>1, <1>5, <2>1, <2>2, ServeReads
  <2>3. CASE d = c
    <3>1. /\ up[c] \in Seq(UpLine(c)) /\ up[c] # <<>> /\ up'[c] = Tail(up[c])
          /\ link[c] # "none"
      BY <1>5, ServeReads
    <3>2. ASSUME NEW q \in Name
          PROVE  /\ Once(up'[c], Register(q))
                 /\ Register(q) \in ToSet(up'[c])
                      <=> Register(q) \in ToSet(up[c]) /\ Head(up[c]) # Register(q)
      BY <1>0, <1>5, <2>3, <3>1, OncePop DEF Petitions
    <3>3. ASSUME NEW p \in Name, Head(up[c]) = Register(p), AddRegisterPetition(c, p)
          PROVE  Petitions(c)'
      <4>1. \A q \in Name : c \in petitioners'[q] <=> c \in petitioners[q] \/ q = p
        BY <1>0, <3>3 DEF AddRegisterPetition, TypeOK
      <4>2. \A q \in Name : Head(up[c]) = Register(q) <=> q = p
        BY <3>3 DEF Register
      <4>3. Register(p) \in ToSet(up[c])
        BY <3>1, <3>3, EmptySeq, Indices DEF ToSet
      <4> QED  BY <1>0, <1>5, <2>3, <3>1, <3>2, <4>1, <4>2, <4>3 DEF Petitions
    <3>4. ASSUME NEW p \in Gives[Of[c]], NEW v \in Value(p), Head(up[c]) = Assign(p, v),
                 SetValue(c, p, v)
          PROVE  Petitions(c)'
      <4>1. petitioners' = petitioners
        BY <3>4 DEF SetValue
      <4>2. \A q \in Name : Head(up[c]) # Register(q)
        BY <3>4 DEF Register, Assign
      <4> QED  BY <1>0, <1>5, <2>3, <3>1, <3>2, <4>1, <4>2 DEF Petitions
    <3> QED  BY <1>5, <2>3, <3>3, <3>4, ServeReads
  <2> QED  BY <2>2, <2>3
<1> QED  BY <1>2, <1>3, <1>4, <1>5 DEF ServerStep

\* What a provider gives is deleted only with the register for it.
LEMMA ProviderKeeps ==
  ASSUME Consistent, Kept', NEW c \in Client, NEW d \in Client \ {c}, NEW p \in Name,
         d \in providers[p], p \in offered'[d], d \in clients, RemoveClient(c)
  PROVE  /\ value'[p] = value[p] /\ p \in parameters'
         /\ d \in providers'[p]
<1> DEFINE pet == Without(petitioners, c)
           ntf == Without(notified, c)
           subs == Unsubscribed(c, registers)
           unwanted == Unwanted(pet, subs)
           prv == Unprovided(c, unwanted)
           gone == unwanted \cup Orphans(prv, unwanted)
<1>0. /\ TypeOK /\ Bookkeeping /\ DemandKnown'
      /\ \A r \in Petition : Matches[r] = {r}
      /\ clients' = clients \ {c} /\ Discard(pet, ntf, subs, prv, gone)
  BY SystemAssumption DEF Consistent, Kept, RemoveClient, LinesAssumption
<1>1. p \in registers'
  <2>1. registers' \subseteq Petition
    BY DEF Kept, TypeOK
  <2> QED  BY <1>0, <2>1 DEF DemandKnown
<1>2. p \notin EmptyRegisters(pet)
  BY <1>0, <1>1 DEF Discard
<1>3. p \notin unwanted /\ p \in parameters
  BY <1>0, <1>2 DEF Unwanted, EmptyRegisters, TypeOK, Bookkeeping, ParametersProvided
<1>4. d \in prv[p]
  BY <1>3 DEF Unprovided
<1>5. p \notin Orphans(prv, unwanted)
  BY <1>4 DEF Orphans
<1> HIDE DEF pet, ntf, subs, prv, unwanted
<1> QED  BY <1>0, <1>3, <1>4, <1>5 DEF Discard

\* For a program that is to hear of no new register(p).
LEMMA StillAsked ==
  ASSUME Consistent, Kept', NEW c \in Client, Delivered(c), NEW d \in Client, link'[d] = "up",
         Demand(d)', NEW p \in asked'[d], Silent(down'[d], p, Calls)
  PROVE  /\ p \in Gives[Of[d]] /\ p \in Name /\ p \in asked[d]
         /\ record'[d][p] = record[d][p] /\ Silent(down[d], p, Calls)
         /\ d \in clients /\ p \in offered'[d]
<1>0. /\ asked'[d] = asked[d] /\ record'[d] = record[d] /\ down'[d] = down[d] \o Written(d)
      /\ down[d] \in Seq(DownLine) /\ Written(d) \in Seq(DownLine)
  BY Listening
<1>1. p \in Gives[Of[d]] /\ p \in Name
  BY <1>0, SystemAssumption DEF Consistent, Kept, SysType
<1>2. Silent(down[d], p, Calls)
  <2>1. Silent(down[d] \o Written(d), p, Calls)
    BY <1>0
  <2> QED  BY <1>0, <2>1, SilentJoined
<1>3. d \in clients
  BY <1>0 DEF Consistent, Connection, Links
<1>4. p \in offered'[d]
  <2>1. Call(p, p \in asked'[d]) = Call(p, p \in offered'[d])
    BY <1>1 DEF Demand, Ends
  <2> QED  BY <2>1 DEF Call, Register, Unregister
<1> QED  BY <1>0, <1>1, <1>2, <1>3, <1>4

LEMMA DeliveredProvides ==
  ASSUME Consistent, Kept', NEW c \in Client, ServerStep(c), Delivered(c), NEW d \in Client,
         Demand(d)'
  PROVE  Provides(d)'
<1> SUFFICES ASSUME link'[d] = "up", NEW p \in asked'[d], Silent(down'[d], p, Calls),
                    record'[d][p] # Initial(p)
             PROVE  d \in providers'[p] \/ ~ Silent(up'[d], p, Sets)
  BY DEF Provides
<1>0. /\ p \in Name /\ TypeOK /\ SysType /\ d \in clients /\ p \in offered'[d]
      /\ d \in providers[p] \/ ~ Silent(up[d], p, Sets)
  BY StillAsked, Listening DEF Consistent, Connection, Kept, Provides
<1>1. CASE Accept(c)
  BY <1>0, <1>1 DEF Accept, AddClient
<1>2. CASE Forget(c)
  <2>1. RemoveClient(c) /\ link'[c] = "none" /\ up' = [up EXCEPT ![c] = <<>>]
    BY <1>0, <1>2 DEF Forget, SysType
  <2>2. c # d
    BY <2>1
  <2>3. up'[d] = up[d]
    BY <1>0, <2>1, <2>2, QueuesOK DEF UpOK
  <2> QED  BY <1>0, <2>1, <2>2, <2>3, ProviderKeeps
<1>3. CASE Serve(c)
  <2>1. ASSUME ~ Says(Head(up[c]), p, Sets), d \in providers[p] => d \in providers'[p]
        PROVE  d \in providers'[p] \/ ~ Silent(up'[d], p, Sets)
    <3>1. CASE d = c
      BY <1>0, <1>3, <2>1, <3>1, ServeReads, SilentPop
    <3>2. CASE d # c
      BY <1>0, <1>3, <2>1, <3>2, ServeReads
    <3> QED  BY <3>1, <3>2
  <2>2. ASSUME NEW q \in Name, Head(up[c]) = Register(q), AddRegisterPetition(c, q)
        PROVE  d \in providers'[p] \/ ~ Silent(up'[d], p, Sets)
    BY <2>1, <2>2 DEF AddRegisterPetition, Says, Register, Sets
  <2>3. ASSUME NEW q \in Gives[Of[c]], NEW v \in Value(q), Head(up[c]) = Assign(q, v),
               SetValue(c, q, v)
        PROVE  d \in providers'[p] \/ ~ Silent(up'[d], p, Sets)
    <3>0. q \in Name
      BY SystemAssumption
    <3>1. providers'[p] = IF p = q THEN providers[p] \cup {c} ELSE providers[p]
      BY <1>0, <2>3, <3>0 DEF SetValue, TypeOK
    <3>2. CASE q # p
      BY <2>1, <2>3, <3>1, <3>2 DEF Says, Assign
    <3>3. CASE q = p /\ c = d
      BY <3>1, <3>3
    <3>4. CASE q = p /\ c # d
      BY <1>0, <1>3, <3>1, <3>4, ServeReads
    <3> QED  BY <3>2, <3>3, <3>4
  <2> QED  BY <1>3, <2>2, <2>3, ServeReads
<1> QED  BY <1>1, <1>2, <1>3 DEF ServerStep

LEMMA DeliveredCurrent ==
  ASSUME Consistent, Kept', NEW c \in Client, ServerStep(c), Delivered(c), NEW d \in Client,
         Demand(d)'
  PROVE  Current(d)'
<1> SUFFICES ASSUME link'[d] = "up", NEW p \in asked'[d], Givers(p) = {Of[d]},
                    Silent(down'[d], p, Calls), record'[d][p] # Initial(p)
             PROVE  Ends(up'[d], p, Sets, Assign(p, Stored(d, p)'), {Assign(p, record'[d][p])})
  BY DEF Current
<1> DEFINE G == {Assign(p, record'[d][p])}
           Goal == Ends(up'[d], p, Sets, Assign(p, Stored(d, p)'), G)
<1>0. /\ p \in Gives[Of[d]] /\ p \in Name /\ d \in clients /\ p \in offered'[d]
      /\ p \in asked[d] /\ record'[d][p] = record[d][p] /\ Silent(down[d], p, Calls)
      /\ TypeOK /\ SysType /\ link[d] = "up"
  BY StillAsked, Listening DEF Consistent, Kept
<1>1. Ends(up[d], p, Sets, Assign(p, Stored(d, p)), G)
  BY <1>0 DEF Consistent, Connection, Current
<1>2. ASSUME up'[d] = up[d], Stored(d, p)' \in {Stored(d, p), record'[d][p]} PROVE Goal
  BY <1>1, <1>2 DEF Ends
<1>3. ASSUME value'[p] = value[p], p \in late' <=> p \in late
      PROVE  Stored(d, p)' = Stored(d, p)
  BY <1>0, <1>3 DEF Stored
<1>4. CASE Accept(c)
  BY <1>2, <1>3, <1>4 DEF Accept, AddClient
<1>5. CASE Forget(c)
  <2>1. /\ RemoveClient(c) /\ link'[c] = "none" /\ up' = [up EXCEPT ![c] = <<>>]
        /\ late' = late \cap parameters'
    BY <1>0, <1>5 DEF Forget, SysType
  <2>2. c # d
    BY <2>1
  <2>3. up'[d] = up[d]
    BY <1>0, <2>1, <2>2, QueuesOK DEF UpOK
  <2>4. CASE d \in providers[p]
    <3>1. value'[p] = value[p] /\ p \in parameters'
      BY <1>0, <2>1, <2>2, <2>4, ProviderKeeps
    <3> QED  BY <1>2, <1>3, <2>1, <2>3, <3>1
  <2>5. CASE d \notin providers[p]
    <3>1. ~ Silent(up[d], p, Sets)
      BY <1>0, <2>5 DEF Consistent, Connection, Provides
    <3> QED  BY <1>1, <2>3, <3>1 DEF Ends
  <2> QED  BY <2>4, <2>5
<1>6. CASE Serve(c)
  <2>1. ASSUME NEW q \in Name, Head(up[c]) = Register(q), AddRegisterPetition(c, q), late' = late
        PROVE  Goal
    <3>1. Stored(d, p)' = Stored(d, p)
      BY <1>3, <2>1 DEF AddRegisterPetition
    <3>2. ~ Says(Head(up[c]), p, Sets)
      BY <2>1 DEF Says, Register, Sets
    <3>3. CASE d = c
      BY <1>1, <1>6, <3>1, <3>2, <3>3, ServeReads, EndsPop
    <3>4. CASE d # c
      BY <1>2, <1>6, <3>1, <3>4, ServeReads
    <3> QED  BY <3>3, <3>4
  <2>2. ASSUME NEW q \in Gives[Of[c]], NEW v \in Value(q), Head(up[c]) = Assign(q, v),
               SetValue(c, q, v),
               late' = IF link[c] = "up" THEN late \ {q} ELSE late \cup {q}
        PROVE  Goal
    <3>1. value'[p] = IF p = q THEN v ELSE value[p]
      BY <1>0, <2>2 DEF SetValue, TypeOK
    <3>2. q # p => Stored(d, p)' = Stored(d, p)
      BY <1>3, <2>2, <3>1
    <3>3. CASE d = c
      <4>1. (IF Says(Head(up[c]), p, Sets) THEN Head(up[c]) ELSE Assign(p, Stored(d, p)))
               = Assign(p, Stored(d, p)')
        <5>1. q = p => Stored(d, p)' = v
          BY <1>0, <2>2, <3>1, <3>3 DEF Stored
        <5> QED  BY <2>2, <3>2, <5>1 DEF Says, Sets, Assign
      <4>2. Ends(Tail(up[c]), p, Sets,
                 IF Says(Head(up[c]), p, Sets) THEN Head(up[c]) ELSE Assign(p, Stored(d, p)), G)
        BY <1>1, <1>6, <3>3, ServeReads, EndsPop
      <4> QED  BY <1>6, <3>3, <4>1, <4>2, ServeReads
    <3>4. CASE d # c
      <4>1. q = p => Of[c] = Of[d]
        BY <1>0, <2>2, SystemAssumption DEF Givers
      <4>2. q = p => link[c] # "up"
        BY <1>0, <3>4, <4>1 DEF Consistent, Alone
      <4>3. q = p => Stored(d, p)' = record'[d][p]
        BY <2>2, <4>2 DEF Stored
      <4> QED  BY <1>2, <1>6, <3>2, <3>4, <4>3, ServeReads
    <3> QED  BY <3>3, <3>4
  <2> QED  BY <1>6, <2>1, <2>2, ServeReads
<1> QED  BY <1>4, <1>5, <1>6 DEF ServerStep

LEMMA ServerConnection ==
  ASSUME Consistent, Kept', NEW c \in Client, ServerStep(c)
  PROVE  Broking' /\ Alone' /\ \A d \in Client : Connection(d)'
<1>1. Delivered(c)
  BY ServerStepDelivers
<1>2. ASSUME NEW d \in Client PROVE Connection(d)'
  <2>1. Demand(d)'
    BY <1>1, DeliveredDemand
  <2> QED
    BY <1>1, <2>1, DeliveredLinks, DeliveredPetitions, DeliveredTold, DeliveredCurrent,
       DeliveredProvides
    DEF Connection
<1>3. Alone'
  BY <1>1 DEF Delivered, Alone, Consistent
<1> QED  BY <1>1, <1>2, <1>3 DEF Delivered
-------------------------------------------------------------------------------
(* The invariant.                                                          *)

LEMMA ConsistentInit == SysInit /\ Kept => Consistent
BY DEF SysInit, Init, Consistent, Broking, Strangers, Exact, Alone,
       Connection, Links, Petitions, Demand, Told, Current, Provides

LEMMA ConsistentStep == Consistent /\ Kept' /\ [SysNext]_sysvars => Consistent'
<1> DEFINE Goal == Broking' /\ Alone' /\ \A d \in Client : Connection(d)'
<1> SUFFICES ASSUME Consistent, Kept', [SysNext]_sysvars PROVE Goal
  BY DEF Consistent
<1>0. SysType /\ Kept /\ Broking /\ Alone /\ \A d \in Client : Connection(d)
  BY DEF Consistent, Kept
<1>1. UNCHANGED vars => Broking'
  BY <1>0 DEF vars, Broking, Strangers, Exact
<1>2. CASE Restart
  <2>1. Broking'
    BY <1>2, SetUnreadableTells DEF Restart
  <2>2. ASSUME NEW d \in Client PROVE Connection(d)'
    <3>1. /\ link'[d] = "none" /\ clients' = {} /\ up'[d] = <<>>
          /\ down'[d] = <<>> /\ asked'[d] = {}
      BY <1>2 DEF Restart, SetUnreadable
    <3> QED  BY <3>1, Absent
  <2>3. Alone'
    BY <1>2 DEF Restart, Alone
  <2> QED  BY <2>1, <2>2, <2>3
<1>3. ASSUME NEW c \in Client, Start(c) \/ Read(c) \/ Send(c) \/ Leave(c)
      PROVE  Goal
  <2>1. UNCHANGED vars
    BY <1>3 DEF Start, Read, Send, Leave
  <2>2. Connection(c)'
    BY <1>0, <1>3, StartConnection, ReadConnection, SendConnection, LeaveConnection
  <2>3. ASSUME NEW d \in Client \ {c} PROVE Connection(d)'
    BY <1>0, <1>3, OthersUnaffected
  <2>4. Alone'
    BY <1>0, <1>3 DEF Alone, Start, Read, Send, Leave, SysType
  <2> QED  BY <1>1, <2>1, <2>2, <2>3, <2>4
<1>4. ASSUME NEW g \in Program, NEW p \in Name, NEW v \in Value(p) \ {Empty}, Move(g, p, v)
      PROVE  Goal
  <2>1. Alone'
    BY <1>0, <1>4 DEF Move, Alone
  <2> QED  BY <1>0, <1>1, <1>4, <2>1, Unaffected DEF Move
<1>5. ASSUME NEW c \in Client, ServerStep(c)
      PROVE  Goal
  BY <1>5, ServerConnection
<1>6. CASE UNCHANGED sysvars
  <2>1. Alone'
    BY <1>0, <1>6 DEF sysvars, Alone
  <2> QED  BY <1>0, <1>1, <1>6, <2>1, Unaffected DEF sysvars, programs
<1> QED  BY <1>2, <1>3, <1>4, <1>5, <1>6 DEF SysNext

LEMMA ConsistentAlways == SysSpec => []Consistent
<1>1. SysInit /\ Kept => Consistent
  BY ConsistentInit
<1>2. Consistent /\ Kept' /\ [SysNext]_sysvars => Consistent'
  BY ConsistentStep
<1> QED
  BY <1>1, <1>2, KeptAlways, PTL DEF SysSpec
-------------------------------------------------------------------------------
(* At rest.                                                                *)

LEMMA RestConnections ==
  ASSUME Consistent, AtRest
  PROVE  /\ \A c \in Client : c \in Running <=> c \in clients
         /\ \A c \in Running, p \in Name : p \in Shows[Of[c]] <=> c \in petitioners[p]
         /\ \A d \in Running : \A p \in Gives[Of[d]] : p \in asked[d] <=> p \in registers
<1>1. ASSUME NEW c \in Client
      PROVE  /\ up[c] = <<>> /\ down[c] = <<>> /\ Connection(c)
             /\ link[c] = IF c \in clients THEN "up" ELSE "none"
  BY DEF AtRest, Consistent
<1>2. \A c \in Client : c \in Running <=> c \in clients
  BY <1>1 DEF Running
<1>3. ASSUME NEW c \in Running, NEW p \in Name
      PROVE  p \in Shows[Of[c]] <=> c \in petitioners[p]
  <2>1. Register(p) \notin ToSet(up[c])
    BY <1>1 DEF ToSet, Running
  <2> QED  BY <1>1, <2>1 DEF Connection, Petitions, Running
<1>4. ASSUME NEW d \in Running, NEW p \in Gives[Of[d]]
      PROVE  p \in asked[d] <=> p \in registers
  <2>0. d \in Client /\ link[d] = "up" /\ d \in clients /\ p \in Name
    BY <1>2, SystemAssumption DEF Running
  <2>1. Ends(<<>>, p, Calls, Call(p, p \in asked[d]), {Call(p, p \in offered[d])})
    BY <1>1, <2>0 DEF Connection, Demand
  <2>2. Call(p, p \in asked[d]) = Call(p, p \in offered[d])
    BY <2>1 DEF Ends, Silent
  <2>3. p \in asked[d] <=> p \in offered[d]
    BY <2>2 DEF Call, Register, Unregister
  <2>4. offered[d] = UNION {Matches[r] : r \in registers} /\ registers \subseteq Petition
    BY <2>0 DEF Consistent, Kept, DemandKnown, TypeOK
  <2>5. \A r \in registers : Matches[r] = {r}
    BY <2>4, SystemAssumption DEF LinesAssumption
  <2> QED  BY <2>3, <2>4, <2>5
<1> QED  BY <1>2, <1>3, <1>4

LEMMA DemandAtRest == Consistent => RestDemand
<1> SUFFICES ASSUME Consistent, AtRest, NEW d \in Running, NEW p
             PROVE  p \in asked[d] <=> p \in Gives[Of[d]] /\ \E c \in Running : p \in Shows[Of[c]]
  BY DEF RestDemand
<1>1. d \in Client /\ asked[d] \subseteq Gives[Of[d]] /\ Gives[Of[d]] \subseteq Name
  BY SystemAssumption DEF Running, Consistent, Kept, SysType
<1>2. ASSUME p \in Gives[Of[d]]
      PROVE  p \in registers <=> \E c \in Running : p \in Shows[Of[c]]
  <2>1. p \in Name /\ p \in Petition
    BY <1>1, <1>2, HereDisjoint
  <2>2. p \in registers <=> petitioners[p] # {}
    BY <2>1 DEF Consistent, Kept, Bookkeeping, RegistersAlive
  <2>3. petitioners[p] \subseteq Running
    BY <2>1, RestConnections DEF Consistent, Kept, Bookkeeping, ClientsKnown, TypeOK
  <2> QED  BY <2>1, <2>2, <2>3, RestConnections
<1>3. p \in Gives[Of[d]] => (p \in asked[d] <=> p \in registers)
  BY RestConnections
<1> QED  BY <1>1, <1>2, <1>3

\* Whenever the system is at rest a program sends exactly the names somebody shows,
\* however many programs came and went and whatever crossed on the way: each program
\* is told of what is wanted when it comes and whenever that changes (serverlib.cpp:29-77,
\* 105-134), and it takes the lines in the order they were sent (common.cpp:203-231).
THEOREM RestDemandAlways == SysSpec => []RestDemand
BY ConsistentAlways, DemandAtRest, PTL

LEMMA FaithfulAtRest == Consistent => RestFaithful
<1> SUFFICES ASSUME Consistent, AtRest, NEW c \in Running, NEW d \in Running,
                    NEW p \in Shows[Of[c]] \ late, Givers(p) = {Of[d]}
             PROVE  Faithful(p, Of[c], own[Of[d]][p])
  BY DEF RestFaithful
<1> DEFINE v == own[Of[d]][p]
           r == record[d][p]
<1>0. /\ c \in Client /\ d \in Client /\ p \in Name /\ p \in Petition /\ p \in Gives[Of[d]]
      /\ link[c] = "up" /\ link[d] = "up" /\ Matches[p] = {p}
  BY SystemAssumption DEF Running, Givers, LinesAssumption
<1>1. /\ TypeOK /\ Bookkeeping /\ Fresh /\ Heard /\ Exact /\ SysType
      /\ Told(c) /\ Current(d)
  BY <1>0 DEF Consistent, Kept, Delivery, Broking, Connection
<1>2. down[c] = <<>> /\ down[d] = <<>> /\ up[d] = <<>> /\ Due(d, Manager(d)) = {}
  BY <1>0 DEF AtRest
<1>3. c \in petitioners[p] /\ p \in registers /\ p \in asked[d]
  BY <1>0, <1>1, RestConnections DEF Bookkeeping, RegistersAlive
<1>4. ~ OutOfDate(p, r, v)
  BY <1>2, <1>3 DEF Due, Manager
<1>5. r # Initial(p) => value[p] = r
  <2>1. Silent(<<>>, p, Calls) /\ Silent(<<>>, p, Sets)
    BY DEF Silent
  <2>2. r # Initial(p) => Assign(p, value[p]) = Assign(p, r)
    BY <1>0, <1>1, <1>2, <1>3, <2>1 DEF Current, Ends, Stored
  <2> QED  BY <2>2 DEF Assign
<1>6. value[p] # Nothing =>
        ~ OutOfDate(p, sent[p][c], value[p])
        /\ (sent[p][c] # Initial(p) => received[c][p] = sent[p][c])
  <2>1. value[p] # Nothing => p \in parameters
    BY <1>0, <1>1 DEF TypeOK
  <2>2. p \in parameters => c \in subscribers[p]
    BY <1>0, <1>1, <1>3 DEF Heard
  <2> QED  BY <1>0, <1>1, <2>1, <2>2 DEF Fresh, Exact
<1>7. received[c][p] # Nothing => shown[Of[c]][p] = received[c][p]
  <2>1. Silent(<<>>, p, Sets)
    BY DEF Silent
  <2>2. received[c][p] # Nothing => Assign(p, shown[Of[c]][p]) = Assign(p, received[c][p])
    BY <1>0, <1>1, <1>2, <2>1 DEF Told, Ends
  <2> QED  BY <2>2 DEF Assign
<1>8. v \in Value(p) \ {Empty} /\ r \in Value(p) \cup {Initial(p)}
      /\ sent[p][c] \in Value(p) \cup {Initial(p)}
  <2>1. v \in Value(p) \ {Empty}
    BY <1>0, <1>1, SystemAssumption DEF SysType
  <2> QED  BY <1>0, <1>1, <2>1 DEF SysType, TypeOK
<1> HIDE DEF v, r
<1>9. CASE p \in Numeric
  <2> SUFFICES ASSUME Abs(v) >= 2 * Margin
               PROVE  shown[Of[c]][p] # Nothing /\ Abs(shown[Of[c]][p] - v) < 2 * Margin
    BY <1>9 DEF Faithful, v
  <2>0. /\ v \in Int /\ r \in Int /\ sent[p][c] \in Int /\ Initial(p) = 0
        /\ Margin \in Nat \ {0} /\ Nothing \notin Int
    <3>1. /\ v \in Number \ {Empty} /\ r \in Number \cup {0} /\ sent[p][c] \in Number \cup {0}
          /\ Initial(p) = 0
      BY <1>8, <1>9 DEF Value, Initial
    <3>2. Number \subseteq Int /\ Margin \in Nat \ {0} /\ Nothing \notin Int
      BY BrokerAssumption
    <3>3. v \in Int
      BY <3>1, <3>2
    <3>4. r \in Int
      BY <3>1, <3>2
    <3>5. sent[p][c] \in Int
      <4> DEFINE t == sent[p][c]
      <4>1. t \in Number \cup {0}
        BY <3>1
      <4> HIDE DEF t
      <4>2. t \in Int
        BY <3>2, <4>1
      <4> QED  BY <4>2 DEF t
    <3> QED  BY <3>1, <3>2, <3>3, <3>4, <3>5
  <2>1. Abs(r - v) < Margin
    BY <1>4, <1>9, <2>0 DEF OutOfDate, Abs
  <2>2. Abs(r) > Margin
    BY <2>0, <2>1 DEF Abs
  <2>3. r # Initial(p)
    BY <2>0, <2>2 DEF Abs
  <2>4. value[p] = r /\ value[p] # Nothing
    BY <1>5, <2>0, <2>3
  <2>5. Abs(sent[p][c] - r) < Margin
    BY <1>6, <1>9, <2>0, <2>4 DEF OutOfDate, Abs
  <2>6. sent[p][c] # Initial(p)
    BY <2>0, <2>2, <2>5 DEF Abs
  <2>7. shown[Of[c]][p] = sent[p][c]
    BY <1>6, <1>7, <2>0, <2>4, <2>6
  <2> QED  BY <2>0, <2>1, <2>5, <2>7 DEF Abs
<1>10. CASE p \notin Numeric
  <2>0. v \in Text /\ Initial(p) = Empty /\ Nothing \notin Text /\ Empty \notin Text
    BY <1>8, <1>10, BrokerAssumption DEF Value, Initial
  <2>1. r = v /\ r # Initial(p)
    BY <1>4, <1>10, <2>0 DEF OutOfDate
  <2>2. value[p] = v /\ value[p] # Nothing
    BY <1>5, <2>0, <2>1
  <2>3. sent[p][c] = v
    BY <1>6, <1>10, <2>2 DEF OutOfDate
  <2>4. shown[Of[c]][p] = v
    BY <1>6, <1>7, <2>0, <2>2, <2>3
  <2> QED  BY <1>10, <2>4 DEF Faithful, v
<1> QED  BY <1>9, <1>10

\* Whenever the system is at rest, every display of a running program shows what the
\* device of the one program that gives the value says: exactly for a text, and within
\* two margins for a number two margins from zero (common.h:47-61 is used at both ends
\* of the way).  No line that crossed another, no program that came late, went or came
\* back, and no restart of the server leaves a display behind, unless the last line the
\* server acted on for the name came from a connection its program had ended (late):
\* then an old value may stay, as the program on its new connection does not repeat what
\* it has sent (server.cpp:213-247, common.cpp:156-165).
THEOREM RestFaithfulAlways == SysSpec => []RestFaithful
BY ConsistentAlways, FaithfulAtRest, PTL
===============================================================================
