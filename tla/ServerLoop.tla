------------------------------ MODULE ServerLoop ------------------------------
(***************************************************************************)
(* run_server (server.cpp), the connections it serves (POSIXclient in      *)
(* client.cpp) and the descriptor table it polls (poll_poll, under a       *)
(* threadwait that has this one waiter, in polling.cpp).                   *)
(*                                                                         *)
(* The server is one thread that makes blocking calls; its peers act       *)
(* between any two of its steps.  A step is what the server does up to the *)
(* next call that can block or whose outcome a peer can change.            *)
(*                                                                         *)
(* Lines are counted, not looked at: what ParseLine does with one is       *)
(* module Broker, here it writes to any set of clients.                    *)
(***************************************************************************)
EXTENDS Integers, FiniteSets, Sequences, SequencesExt

CONSTANTS
  Conn,         \* connections, each standing for its descriptor on the server too
  Listen,       \* the descriptor that listens
  Room,         \* bound: lines the kernel holds for one direction of a connection
  Talkers,      \* bound: the connections whose peers write
  MaxLines,     \* bound: lines a peer writes on one connection
  Unset,        \* what pollfd::revents may be before the first poll (line 80 sets none)
  PollCanFail   \* whether poll(2) may fail for another reason than a signal

ASSUME ServerLoopAssumption ==
  /\ Listen \notin Conn
  /\ Room \in Nat \ {0}
  /\ Talkers \subseteq Conn
  /\ MaxLines \in Nat
  /\ Unset \subseteq {"none", "read", "error"}
  /\ PollCanFail \in BOOLEAN

VARIABLES
  link,       \* link[c]: "free", "up", "ended" (peer closed), "broken" (reset)
  written,    \* written[c]: lines the peer has written
  inq,        \* inq[c]: lines the kernel holds for the server
  outq,       \* outq[c]: lines the kernel holds for the peer
  backlog,    \* connections not accepted yet, in order
  fds,        \* poll_poll::fds
  fdindex,    \* poll_poll::fdindex
  age,        \* history: who wrote the revents of a descriptor: nobody since add
              \* ("unset"), an earlier poll ("old"), the poll of this round ("fresh")
  clients,    \* Server::clients
  connected,  \* client::connected
  buff,       \* buff[c]: lines in clientext::buff
  handled,    \* handled[c]: lines given to ParseLine
  go,         \* the flag quit() clears
  pc,         \* where run_server is
  todo,       \* the clients the loop over them has still to visit
  cur,        \* the client it is visiting
  audience    \* the clients the operation in progress has still to write to

kernel == <<link, written, inq, outq, backlog>>
table == <<fds, fdindex, age>>
objects == <<clients, connected, buff, handled>>
control == <<go, pc, todo, cur, audience>>
vars == <<kernel, table, objects, control>>

Descriptor == Conn \cup {Listen}
-------------------------------------------------------------------------------
(* poll_poll                                                               *)

\* (Mutant: the index of what follows a removed entry is not moved down.)
RemovedUnshifted(index, fd) == [f \in DOMAIN index \ {fd} |-> index[f]]

\* fdindex once fd is removed.
Removed(index, fd) ==
  [f \in DOMAIN index \ {fd} |-> IF index[f] > index[fd] THEN index[f] - 1 ELSE index[f]]

\* What poll finds on a descriptor.
Happening(fd) ==
  IF fd = Listen THEN (IF backlog # <<>> THEN "read" ELSE "none")
  ELSE IF link[fd] = "broken" THEN "error"
  ELSE IF inq[fd] > 0 \/ link[fd] = "ended" THEN "read"
  ELSE "none"

Ready == {fd \in DOMAIN fdindex : Happening(fd) # "none"}

\* (Mutant: what is not ready keeps its old revents.)
PolledOver == [i \in DOMAIN fds |->
                 IF fds[i].fd \in Ready
                   THEN [fds[i] EXCEPT !.revents = Happening(fds[i].fd)] ELSE fds[i]]

\* The table when poll returns.
Polled == [i \in DOMAIN fds |-> [fds[i] EXCEPT !.revents = Happening(fds[i].fd)]]

\* poll_poll::get_events
Revents(fd) == fds[fdindex[fd]].revents

\* A poll that returns writes all revents, one that fails none.
Refreshed == [fd \in Descriptor |-> IF fd \in DOMAIN fdindex THEN "fresh" ELSE age[fd]]
Aged == [fd \in Descriptor |-> IF age[fd] = "fresh" THEN "old" ELSE age[fd]]
-------------------------------------------------------------------------------
Init ==
  /\ link = [c \in Conn |-> "free"]
  /\ written = [c \in Conn |-> 0]
  /\ inq = [c \in Conn |-> 0]
  /\ outq = [c \in Conn |-> 0]
  /\ backlog = <<>>
  /\ fds = <<[fd |-> Listen, revents |-> "none"]>>
  /\ fdindex = [f \in {Listen} |-> 1]
  /\ age = [fd \in Descriptor |-> "unset"]
  /\ clients = {}
  /\ connected = [c \in Conn |-> FALSE]
  /\ buff = [c \in Conn |-> 0]
  /\ handled = [c \in Conn |-> 0]
  /\ go = TRUE
  /\ pc = "loop"
  /\ todo = {}
  /\ cur = Listen
  /\ audience = {}

Goto(l) == pc' = l /\ UNCHANGED <<go, todo, cur, audience>>

(* while(go)                                                               *)
Loop ==
  /\ pc = "loop"
  /\ Goto(IF go THEN "poll" ELSE "done")
  /\ UNCHANGED <<kernel, table, objects>>

(* poll returns how many descriptors are ready, and the loop tests go.     *)
PollReady ==
  /\ pc = "poll"
  /\ Ready # {}
  /\ fds' = Polled
  /\ age' = Refreshed
  /\ Goto(IF go THEN "accept" ELSE "done")
  /\ UNCHANGED <<kernel, fdindex, objects>>

\* (Mutant: the wait goes on without a look at go.)
PollTimeoutAgain ==
  /\ pc = "poll"
  /\ Ready = {}
  /\ fds' = Polled
  /\ age' = Refreshed
  /\ Goto("poll")
  /\ UNCHANGED <<kernel, fdindex, objects>>

(* Five seconds pass: nfds is 0, continue.                                 *)
PollTimeout ==
  /\ pc = "poll"
  /\ Ready = {}
  /\ fds' = Polled
  /\ age' = Refreshed
  /\ Goto("loop")
  /\ UNCHANGED <<kernel, fdindex, objects>>

(* The signal that cleared go interrupts poll: nfds is -1, break.  A signal *)
(* that came before the call does not interrupt it.                        *)
PollInterrupted ==
  /\ pc = "poll"
  /\ ~ go
  /\ Goto("done")
  /\ UNCHANGED <<kernel, table, objects>>

(* poll fails otherwise.  err is set (208) and cleared again (210), so the *)
(* second failure does not break either, and the round goes on with the    *)
(* revents of an earlier poll.                                             *)
PollFails ==
  /\ PollCanFail
  /\ pc = "poll"
  /\ age' = Aged
  /\ Goto(IF go THEN "accept" ELSE "done")
  /\ UNCHANGED <<kernel, fds, fdindex, objects>>

(* Nobody is waiting to be accepted: on to the clients.                    *)
AcceptNone ==
  /\ pc = "accept"
  /\ Revents(Listen) = "none"
  /\ pc' = "round"
  /\ todo' = clients
  /\ UNCHANGED <<kernel, table, objects, go, cur, audience>>

\* fdindex once fd is appended.
Added(fd) == [f \in DOMAIN fdindex \cup {fd} |->
                IF f = fd THEN Len(fds) + 1 ELSE fdindex[f]]

\* start() sets connected whether or not "connected=true" was written; a
\* register(...) line that fails clears it again (told: there is a register).
ConnectedAfterStart(c, told) == ~ (told /\ link[c] = "broken")

(* accept, TCPclient(fd), start() and Server::AddClient.                   *)
Accept ==
  /\ pc = "accept"
  /\ Revents(Listen) # "none"
  /\ backlog # <<>>
  /\ LET c == Head(backlog)
     IN  /\ \E r \in Unset : fds' = Append(fds, [fd |-> c, revents |-> r])
         /\ fdindex' = Added(c)
         /\ clients' = clients \cup {c}
         /\ \E told \in BOOLEAN :
              connected' = [connected EXCEPT ![c] = ConnectedAfterStart(c, told)]
         /\ buff' = [buff EXCEPT ![c] = 0]
         /\ handled' = [handled EXCEPT ![c] = 0]
         /\ todo' = clients \cup {c}
  /\ backlog' = Tail(backlog)
  /\ pc' = "round"
  /\ UNCHANGED <<link, written, inq, outq, age, go, cur, audience>>

(* accept fails (224-227): the loop starts again without a look at any     *)
(* client.  What was to be accepted waits on (no descriptor is free, say)  *)
(* or is lost: the error was its own.                                      *)
AcceptFails ==
  /\ pc = "accept"
  /\ Revents(Listen) # "none"
  /\ \/ UNCHANGED <<link, written, inq, backlog>>
     \/ /\ backlog # <<>>
        /\ link[Head(backlog)] = "broken"
        /\ link' = [link EXCEPT ![Head(backlog)] = "free"]
        /\ written' = [written EXCEPT ![Head(backlog)] = 0]
        /\ inq' = [inq EXCEPT ![Head(backlog)] = 0]
        /\ backlog' = Tail(backlog)
  /\ Goto("loop")
  /\ UNCHANGED <<outq, table, objects>>

\* (Mutant: a peer that has closed is taken for gone, unread lines or not.)
AtHangup(c) == link[c] # "up"

\* read returns 0 or -1: nothing left, and nothing to come.
AtEnd(c) == inq[c] = 0 /\ link[c] # "up"

(* The loop takes the next client: handle().  read takes at least          *)
(* one line if there is one, and blocks if there is none and may be.       *)
Visit(c) ==
  /\ pc = "round"
  /\ c \in todo
  /\ \/ /\ Revents(c) = "none"
        /\ UNCHANGED <<inq, connected, buff>>
     \/ /\ \/ Revents(c) = "error"
           \/ Revents(c) = "read" /\ AtEnd(c)
        /\ connected' = [connected EXCEPT ![c] = FALSE]
        /\ UNCHANGED <<inq, buff>>
     \/ /\ Revents(c) = "read"
        /\ ~ AtEnd(c)
        /\ \E n \in 1..inq[c] : /\ inq' = [inq EXCEPT ![c] = @ - n]
                                /\ buff' = [buff EXCEPT ![c] = @ + n]
        /\ UNCHANGED connected
  /\ todo' = todo \ {c}
  /\ cur' = c
  /\ pc' = "lines"
  /\ UNCHANGED <<link, written, outq, backlog, table, clients, handled, go, audience>>

(* ReadLine gives a line and ParseLine acts on it.                         *)
ParseLine ==
  /\ pc = "lines"
  /\ buff[cur] > 0
  /\ buff' = [buff EXCEPT ![cur] = @ - 1]
  /\ handled' = [handled EXCEPT ![cur] = @ + 1]
  /\ \E W \in SUBSET clients : audience' = W
  /\ pc' = "write"
  /\ UNCHANGED <<kernel, table, clients, connected, go, todo, cur>>

\* (Mutant: a write to a full connection fails, as on a non-blocking descriptor.)
WriteLineEager(c) ==
  /\ pc = "write"
  /\ c \in audience
  /\ audience' = audience \ {c}
  /\ IF link[c] = "up" /\ outq[c] < Room
       THEN outq' = [outq EXCEPT ![c] = @ + 1] /\ UNCHANGED connected
       ELSE connected' = [connected EXCEPT ![c] = FALSE] /\ UNCHANGED outq
  /\ UNCHANGED <<link, written, inq, backlog, table, clients, buff, handled,
                 go, pc, todo, cur>>

(* POSIXclient::WriteLine: blocks while the peer does not make room, fails *)
(* once the connection is reset, and writes to a peer that has closed as   *)
(* if nothing had happened (the peer's reset comes later: Break).          *)
WriteLine(c) ==
  /\ pc = "write"
  /\ c \in audience
  /\ audience' = audience \ {c}
  /\ \/ /\ link[c] = "up"
        /\ outq[c] < Room
        /\ outq' = [outq EXCEPT ![c] = @ + 1]
        /\ UNCHANGED connected
     \/ /\ link[c] = "ended"
        /\ UNCHANGED <<outq, connected>>
     \/ /\ link[c] = "broken"
        /\ connected' = [connected EXCEPT ![c] = FALSE]
        /\ UNCHANGED outq
  /\ UNCHANGED <<link, written, inq, backlog, table, clients, buff, handled,
                 go, pc, todo, cur>>

(* The operation is over: ParseLine returns to the line loop, RemoveClient *)
(* to the delete.                                                          *)
WritesDone ==
  /\ pc = "write"
  /\ audience = {}
  /\ Goto(IF cur \in clients THEN "lines" ELSE "delete")
  /\ UNCHANGED <<kernel, table, objects>>

\* (Mutant: one line a round, and no look at connected.)
KeepAnyway ==
  /\ pc = "lines"
  /\ Goto("round")
  /\ UNCHANGED <<kernel, table, objects>>

(* No line left and still connected: the next client.                      *)
KeepClient ==
  /\ pc = "lines"
  /\ buff[cur] = 0
  /\ connected[cur]
  /\ Goto("round")
  /\ UNCHANGED <<kernel, table, objects>>

(* Not connected any more: Server::RemoveClient, which may write           *)
(* unregister(...) lines to the others.                                    *)
RemoveClient ==
  /\ pc = "lines"
  /\ buff[cur] = 0
  /\ ~ connected[cur]
  /\ clients' = clients \ {cur}
  /\ \E W \in SUBSET (clients \ {cur}) : audience' = W
  /\ pc' = "write"
  /\ UNCHANGED <<kernel, table, connected, buff, handled, go, todo, cur>>

(* delete c: ~POSIXclient takes fd out of the table and closes it, which   *)
(* ends the connection for the peer and frees the descriptor.              *)
Delete ==
  /\ pc = "delete"
  /\ fds' = RemoveAt(fds, fdindex[cur])
  /\ fdindex' = Removed(fdindex, cur)
  /\ age' = [age EXCEPT ![cur] = "unset"]
  /\ link' = [link EXCEPT ![cur] = "free"]
  /\ written' = [written EXCEPT ![cur] = 0]
  /\ inq' = [inq EXCEPT ![cur] = 0]
  /\ outq' = [outq EXCEPT ![cur] = 0]
  /\ Goto("round")
  /\ UNCHANGED <<backlog, objects>>

RoundOver ==
  /\ pc = "round"
  /\ todo = {}
  /\ Goto("loop")
  /\ UNCHANGED <<kernel, table, objects>>

ServerStep ==
  \/ Loop \/ PollReady \/ PollTimeout \/ PollFails
  \/ AcceptNone \/ Accept \/ AcceptFails \/ ParseLine \/ WritesDone
  \/ KeepClient \/ RemoveClient \/ Delete \/ RoundOver
  \/ \E c \in Conn : Visit(c) \/ WriteLine(c)
-------------------------------------------------------------------------------
(* The peers and the user.                                                 *)

Connect(c) ==
  /\ link[c] = "free"
  /\ link' = [link EXCEPT ![c] = "up"]
  /\ backlog' = Append(backlog, c)
  /\ UNCHANGED <<written, inq, outq, table, objects, control>>

Send(c) ==
  /\ c \in Talkers
  /\ link[c] = "up"
  /\ written[c] < MaxLines
  /\ inq[c] < Room
  /\ written' = [written EXCEPT ![c] = @ + 1]
  /\ inq' = [inq EXCEPT ![c] = @ + 1]
  /\ UNCHANGED <<link, outq, backlog, table, objects, control>>

Receive(c) ==
  /\ link[c] = "up"
  /\ outq[c] > 0
  /\ outq' = [outq EXCEPT ![c] = @ - 1]
  /\ UNCHANGED <<link, written, inq, backlog, table, objects, control>>

Close(c) ==
  /\ link[c] = "up"
  /\ link' = [link EXCEPT ![c] = "ended"]
  /\ outq' = [outq EXCEPT ![c] = 0]
  /\ UNCHANGED <<written, inq, backlog, table, objects, control>>

\* A peer dies, or answers with a reset what it is sent after closing.
Break(c) ==
  /\ link[c] \in {"up", "ended"}
  /\ link' = [link EXCEPT ![c] = "broken"]
  /\ outq' = [outq EXCEPT ![c] = 0]
  /\ UNCHANGED <<written, inq, backlog, table, objects, control>>

\* quit(), the handler of SIGINT.
Quit ==
  /\ go
  /\ go' = FALSE
  /\ UNCHANGED <<kernel, table, objects, pc, todo, cur, audience>>

Next ==
  \/ ServerStep \/ PollInterrupted
  \/ \E c \in Conn : Connect(c) \/ Send(c) \/ Receive(c) \/ Close(c) \/ Break(c)
  \/ Quit

(* The server's thread runs when it can, and an accept that is tried again *)
(* and again succeeds some time: descriptors become free.  Nothing else    *)
(* has to happen: a peer need not read, a signal need not come while poll  *)
(* waits.                                                                  *)
Spec ==
  /\ Init /\ [][Next]_vars
  /\ WF_vars(ServerStep)
  /\ SF_vars(Accept)
-------------------------------------------------------------------------------
(* Properties                                                              *)

\* The descriptors the table must hold: one for the listening socket and one for
\* every client object, the one about to be deleted included.
Open == {Listen} \cup clients \cup (IF pc \in {"write", "delete"} /\ cur \in Conn
                                      THEN {cur} ELSE {})

\* Every variable has its type.
TypeOK ==
  /\ link \in [Conn -> {"free", "up", "ended", "broken"}]
  /\ written \in [Conn -> 0..MaxLines]
  /\ inq \in [Conn -> 0..Room]
  /\ outq \in [Conn -> 0..Room]
  /\ \A i \in DOMAIN backlog : backlog[i] \in Conn
  /\ \A i \in DOMAIN fds : /\ fds[i].fd \in Descriptor
                           /\ fds[i].revents \in {"none", "read", "error"}
  /\ DOMAIN fdindex \subseteq Descriptor
  /\ age \in [Descriptor -> {"unset", "old", "fresh"}]
  /\ clients \subseteq Conn
  /\ connected \in [Conn -> BOOLEAN]
  /\ buff \in [Conn -> 0..MaxLines]
  /\ handled \in [Conn -> 0..MaxLines]
  /\ go \in BOOLEAN
  /\ pc \in {"loop", "poll", "accept", "round", "lines", "write", "delete", "done"}
  /\ todo \subseteq clients
  /\ cur \in Descriptor
  /\ audience \subseteq clients

\* However clients come and go, the index finds for each open descriptor its own
\* entry and there are no others: get_events never reports another client's events
\* and nothing closed stays in the table (polling.cpp:77-96).
SlotsMatch ==
  /\ DOMAIN fdindex = Open
  /\ Len(fds) = Cardinality(Open)
  /\ \A f \in Open : fdindex[f] \in DOMAIN fds /\ fds[fdindex[f]].fd = f

\* After a poll that returned, accept and read are only called when they return at
\* once: what it reported is still there when the loop gets to it, after any number
\* of other clients, and however the peers moved since (server.cpp:213-246).  After a
\* poll that failed, or with revents nothing has set, this is not so.
NeverStuck ==
  /\ pc = "accept" /\ age[Listen] = "fresh" /\ Revents(Listen) # "none" => backlog # <<>>
  /\ \A c \in todo : age[c] = "fresh" /\ Revents(c) = "read" => inq[c] > 0 \/ link[c] # "up"

\* Once a poll has written a client's revents, the server drops it only when its peer
\* has closed or died: not for a slow reader, a full buffer, another client's end, the
\* reuse of a descriptor, a failure of accept or of a later poll.
OnlyLeaversRemoved ==
  [][\A c \in clients : c \notin clients' /\ age[c] # "unset"
                          => link[c] \in {"ended", "broken"}]_vars

\* What a peer wrote before it closed is handled before its client is removed, unless
\* the connection was reset in between or the revents that removed it were never set.
LastLinesHandled ==
  [][\A c \in clients : c \notin clients' /\ link[c] = "ended" /\ age[c] # "unset"
                          => handled[c] = written[c]]_vars

\* The server waits in a write for peers that do not read (client.cpp:46-54, the
\* descriptor blocks), and only then does not run.
Blocked ==
  /\ pc = "write"
  /\ audience # {}
  /\ \A c \in audience : link[c] = "up" /\ outq[c] = Room

\* No write waits for ever.
Unblocked == []<>(~ Blocked)

\* A line a peer has written is handled, if the peer stays, the server runs and no
\* write waits for ever: nothing else, a stream of connections whose accept fails now
\* and then included, keeps the server from it.
LinesGetHandled ==
  Unblocked =>
    \A c \in Conn : \A n \in 1..MaxLines :
      (link[c] = "up" /\ written[c] >= n)
        ~> ((c \in clients /\ handled[c] >= n) \/ link[c] # "up" \/ ~ go)

\* A client whose peer is gone is removed, if the server runs and no write waits for
\* ever.
LeaversForgotten ==
  Unblocked =>
    \A c \in Conn : (c \in clients /\ link[c] # "up") ~> (c \notin clients \/ ~ go)

\* SIGINT ends the loop, wherever it finds the server, unless a write waits for ever.
QuitEnds == Unblocked => ((~ go) ~> (pc = "done"))
===============================================================================
