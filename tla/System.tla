-------------------------------- MODULE System --------------------------------
(***************************************************************************)
(* The whole system: Broker, and the programs at the other end of its      *)
(* connections (raildriver.cpp, trainsimulator.cpp), each with the         *)
(* ParameterManager of common.cpp.  A program gives the values of some     *)
(* names, its device's, to whoever asks, and shows those of others.        *)
(*                                                                         *)
(* A connection is two queues of lines.  A program acts on what has come,  *)
(* line by line, and then writes what is out of date; meanwhile the server *)
(* goes on, the device moves, and the program may end at any time and come *)
(* back on another connection, before the server has read what it left on  *)
(* the old one.                                                            *)
(***************************************************************************)
EXTENDS Lines

CONSTANTS
  Program,  \* the programs, each with its device
  Of,       \* Of[c]: the program that uses connection c, one at a time
  Gives,    \* Gives[g]: the names with a GetValue
  Shows,    \* Shows[g]: the names with a SetValue, which g registers
  Room      \* bound: nothing new begins while so many lines are under way

ASSUME SystemAssumption ==
  /\ LinesAssumption
  /\ Of \in [Client -> Program]
  /\ Gives \in [Program -> SUBSET Name]
  /\ Shows \in [Program -> SUBSET Name]
  /\ Room \in Nat

VARIABLES
  link,   \* link[c]: "none", "up", or "closed" by the program and not yet forgotten
  up,     \* up[c]: the lines on their way to the server
  down,   \* down[c]: the lines on their way to the program
  late,   \* the names whose value was set last by a line its program had left behind
  own,    \* own[g][p]: what the device says
  asked,  \* asked[c]: the names whose Parameter::clients holds the server
  record, \* record[c][p]: ParameterData::registers of such a name
  shown   \* shown[g][p]: what SetValue set last

programs == <<own, asked, record, shown>>
sysvars == <<vars, link, up, down, late, programs>>

Crowded == MapThenSumSet(LAMBDA c : Len(up[c]) + Len(down[c]), Client) >= Room

NoRecord == [p \in Name |-> Initial(p)]

SysInit ==
  /\ Init
  /\ link = [c \in Client |-> "none"]
  /\ up = [c \in Client |-> <<>>]
  /\ down = [c \in Client |-> <<>>]
  /\ late = {}
  /\ own \in {f \in [Program -> [Name -> Line]] : \A g \in Program, p \in Name :
                f[g][p] \in IF p \in Gives[g] THEN Value(p) \ {Empty} ELSE {Nothing}}
  /\ asked = [c \in Client |-> {}]
  /\ record = [c \in Client |-> NoRecord]
  /\ shown = [g \in Program |-> [p \in Name |-> Nothing]]
-------------------------------------------------------------------------------
(* A program.                                                              *)

\* connect_to_server, and a register(...) for each name shown.  The manager is new;
\* what the device shows stays (a simulator keeps its controllers).  Which of the free
\* connections it gets does not matter.
Start(c) ==
  /\ link[c] = "none"
  /\ c = CHOOSE d \in Client : Of[d] = Of[c] /\ link[d] = "none"
  /\ \A d \in Client : Of[d] = Of[c] => link[d] # "up"
  /\ ~ Crowded
  /\ link' = [link EXCEPT ![c] = "up"]
  /\ up' = [up EXCEPT ![c] = SetToSeq({Register(p) : p \in Shows[Of[c]]})]
  /\ asked' = [asked EXCEPT ![c] = {}]
  /\ record' = [record EXCEPT ![c] = NoRecord]
  /\ UNCHANGED <<vars, down, late, own, shown>>

\* Somebody moves a lever, the train gets faster.
Move(g, p, v) ==
  /\ p \in Gives[g]
  /\ ~ Crowded
  /\ own' = [own EXCEPT ![g][p] = v]
  /\ UNCHANGED <<vars, link, up, down, late, asked, record, shown>>

\* (Mutant: a second register(...) finds the old record.)
TakenKeeping(c, m, line) ==
  LET p == line.name
  IN  CASE line.say = "register" /\ p \in Gives[Of[c]] -> [m EXCEPT !.asked = @ \cup {p}]
        [] line.say = "unregister" -> [m EXCEPT !.asked = @ \ {p}]
        [] line.say = "=" /\ p \in Shows[Of[c]] -> [m EXCEPT !.shown[p] = line.value]
        [] OTHER -> m

\* ParameterManager::ParseLine on one line.
Taken(c, m, line) ==
  LET p == line.name
  IN  CASE line.say = "register" /\ p \in Gives[Of[c]] ->
             [m EXCEPT !.asked = @ \cup {p}, !.record[p] = Initial(p)]
        [] line.say = "unregister" -> [m EXCEPT !.asked = @ \ {p}]
        [] line.say = "=" /\ p \in Shows[Of[c]] -> [m EXCEPT !.shown[p] = line.value]
        [] OTHER -> m

\* What Parameter::Send has to write, for a manager m of c.
Due(c, m) == {p \in m.asked : OutOfDate(p, m.record[p], own[Of[c]][p])}

Manager(c) == [asked |-> asked[c], record |-> record[c], shown |-> shown[Of[c]]]

\* The inner loop of main hands one line to ParseLine.
Read(c) ==
  LET m == Taken(c, Manager(c), Head(down[c]))
  IN  /\ link[c] = "up"
      /\ down[c] # <<>>
      /\ down' = [down EXCEPT ![c] = Tail(@)]
      /\ asked' = [asked EXCEPT ![c] = m.asked]
      /\ record' = [record EXCEPT ![c] = m.record]
      /\ shown' = [shown EXCEPT ![Of[c]] = m.shown]
      /\ UNCHANGED <<vars, link, up, late, own>>

\* The end of a turn of main: Send for each parameter.  The order of the names does not
\* matter to who reads them.
Send(c) ==
  LET due == Due(c, Manager(c))
  IN  /\ link[c] = "up"
      /\ up' = [up EXCEPT ![c] = @ \o SetToSeq({Assign(p, own[Of[c]][p]) : p \in due})]
      /\ record' = [record EXCEPT ![c] =
                      [p \in Name |-> IF p \in due THEN own[Of[c]][p] ELSE record[c][p]]]
      /\ UNCHANGED <<vars, link, down, late, own, asked, shown>>

\* The program ends, or deletes its client to begin anew.
Leave(c) ==
  /\ link[c] = "up"
  /\ ~ Crowded
  /\ link' = [link EXCEPT ![c] = "closed"]
  /\ down' = [down EXCEPT ![c] = <<>>]
  /\ asked' = [asked EXCEPT ![c] = {}]
  /\ record' = [record EXCEPT ![c] = NoRecord]
  /\ UNCHANGED <<vars, up, late, own, shown>>
-------------------------------------------------------------------------------
(* The server: what a step writes goes to the clients that still listen.   *)

Deliver ==
  down' = [d \in Client |-> IF link'[d] = "up" THEN down[d] \o Written(d) ELSE <<>>]

\* (Mutant: a connection closed before it is accepted is left in the queue.)
AcceptOnlyLive(c) ==
  /\ link[c] = "up"
  /\ AddClient(c)
  /\ UNCHANGED <<link, up, late, programs>>
  /\ Deliver

\* A connection waits to be accepted, even one its program has closed already.
Accept(c) ==
  /\ link[c] # "none"
  /\ AddClient(c)
  /\ UNCHANGED <<link, up, late, programs>>
  /\ Deliver

Serve(c) ==
  /\ up[c] # <<>>
  /\ LET line == Head(up[c])
     IN  \/ /\ line.say = "register"
            /\ AddRegisterPetition(c, line.name)
            /\ UNCHANGED late
         \/ /\ line.say = "="
            /\ SetValue(c, line.name, line.value)
            /\ late' = IF link[c] = "up" THEN late \ {line.name}
                                         ELSE late \cup {line.name}
  /\ up' = [up EXCEPT ![c] = Tail(@)]
  /\ UNCHANGED <<link, programs>>
  /\ Deliver

\* The end of a connection is noticed; a reset loses the lines not yet read.
Forget(c) ==
  /\ link[c] = "closed"
  /\ RemoveClient(c)
  /\ link' = [link EXCEPT ![c] = "none"]
  /\ up' = [up EXCEPT ![c] = <<>>]
  /\ late' = late \cap parameters'
  /\ UNCHANGED programs
  /\ Deliver

\* The server ends by the line of some other program, and is started again; the
\* programs end with their connection.
Restart ==
  /\ \E c \in Client, p \in Name : SetUnreadable(c, p)
  /\ ~ Crowded
  /\ link' = [c \in Client |-> "none"]
  /\ up' = [c \in Client |-> <<>>]
  /\ down' = [c \in Client |-> <<>>]
  /\ asked' = [c \in Client |-> {}]
  /\ record' = [c \in Client |-> NoRecord]
  /\ late' = {}
  /\ UNCHANGED <<own, shown>>

ServerStep(c) == Accept(c) \/ Serve(c) \/ Forget(c)

SysNext ==
  \/ Restart
  \/ \E c \in Client :
       Start(c) \/ Read(c) \/ Send(c) \/ Leave(c) \/ ServerStep(c)
  \/ \E g \in Program, p \in Name : \E v \in Value(p) \ {Empty} : Move(g, p, v)

(* The processes run: what can be done is done, in whatever order.  (The   *)
(* server gives each client its turn, as ServerLoop shows, and so does the *)
(* scheduler; ComesToRest does not need that.)                             *)
SysSpec ==
  /\ SysInit /\ [][SysNext]_sysvars
  /\ WF_sysvars(\E c \in Client : ServerStep(c) \/ Read(c) \/ Send(c))
-------------------------------------------------------------------------------
(* Properties                                                              *)

Running == {c \in Client : link[c] = "up"}

\* The programs that give p.
Givers(p) == {g \in Program : p \in Gives[g]}

\* Nothing is under way, nothing is left to be done.
AtRest ==
  \A c \in Client :
    /\ up[c] = <<>> /\ down[c] = <<>>
    /\ link[c] = IF c \in clients THEN "up" ELSE "none"
    /\ Due(c, Manager(c)) = {}

\* g shows v, what the device says: exactly for a text; for a number at least two margins
\* from zero to less than two margins, one of the program's record and one of the
\* server's.  (Nearer to zero, either may take it for the 0 a record begins with.)
Faithful(p, g, v) ==
  IF p \in Numeric
    THEN Abs(v) >= 2 * Margin =>
           shown[g][p] # Nothing /\ Abs(shown[g][p] - v) < 2 * Margin
    ELSE shown[g][p] = v

\* Whenever the system comes to rest, every display shows what the device of the one
\* program that gives the value says, whatever came, went, crossed or was lost before,
\* also where the program came back before the server had noticed that it had left; with
\* one exception: the server acted on a line of the old connection after those of the
\* new one (server.cpp:213-247).
RestFaithful ==
  AtRest =>
    \A c, d \in Running : \A p \in Shows[Of[c]] \ late :
      Givers(p) = {Of[d]} => Faithful(p, Of[c], own[Of[d]][p])

\* Whenever the system comes to rest, a program sends exactly the names somebody
\* shows: nobody waits in vain, and nobody talks to an empty room.
RestDemand ==
  AtRest => \A d \in Running :
              asked[d] = Gives[Of[d]] \cap UNION {Shows[Of[c]] : c \in Running}

\* A program comes or goes, or a device moves.
Disturbance ==
  own' # own \/ \E c \in Client : (link'[c] # link[c] /\ "up" \in {link[c], link'[c]})

\* Nothing is sent to and fro for ever: unless it is disturbed again and again, the
\* system comes to rest, and what RestFaithful and RestDemand say becomes true.
ComesToRest == []<>AtRest \/ []<><<Disturbance>>_sysvars
===============================================================================
