------------------------------ MODULE Discovery ------------------------------
(***************************************************************************)
(* How a program finds the server: discover_server_ip (ip_discovery.cpp)   *)
(* asks by broadcast, server_broadcast (server.cpp), a thread of the       *)
(* server, answers by broadcast.  Both use one port, so that everybody     *)
(* hears every message, its sender too.                                    *)
(***************************************************************************)
EXTENDS Integers, Sequences, FiniteSets

CONSTANTS
  Client,   \* programs looking for a server
  Server,   \* hosts on which a server that is not local runs
  Nobody,   \* the empty address: connect_to_server takes 127.0.0.1
  Cast,     \* bound: the sets of programs and hosts that are there
  Inbox     \* bound: the messages a socket holds on a bad day; more are lost

ASSUME DiscoveryAssumption ==
  /\ Client \cap Server = {}
  /\ Nobody \notin Server
  /\ Cast \subseteq SUBSET (Client \cup Server)
  /\ Inbox \in Nat

VARIABLES
  calm,    \* fixed: nothing is lost, fails or is stopped
  pc,      \* pc[n]: "absent", clients "send", "wait", "done"; servers "listen", "reply", "down", "done"
  i, j,    \* i[c], j[c]: the loop counters of discover_server_ip
  ip,      \* ip[c]: its result so far
  left,    \* left[s]: the replies a server has still to send
  go,      \* go[s]: the flag quit() clears
  inbox    \* inbox[n]: what n's socket holds

discoveryVars == <<calm, pc, i, j, ip, left, go, inbox>>

Node == Client \cup Server

Ask == "Train Simulator Client"
Offer == "Train Simulator Server"
Message == [text : {Ask}, from : Client] \cup [text : {Offer}, from : Server]

\* The nodes with a socket bound to the port.
Bound == {n \in Node : pc[n] \in {"send", "wait", "listen", "reply"}}

\* A broadcast reaches whoever has a socket, if it is not lost.
Broadcast(n, text) ==
  \E heard \in SUBSET Bound :
    /\ calm => heard = Bound
    /\ inbox' = [m \in Node |->
                   IF m \in heard /\ (calm \/ Len(inbox[m]) < Inbox)
                     THEN Append(inbox[m], [text |-> text, from |-> n])
                     ELSE inbox[m]]

DiscoveryInit ==
  /\ calm \in BOOLEAN
  /\ \E there \in Cast :
       pc = [n \in Node |-> IF n \notin there THEN "absent"
                           ELSE IF n \in Client THEN "send"
                           ELSE IF calm THEN "listen" ELSE "down"]
  /\ i = [c \in Client |-> 0]
  /\ j = [c \in Client |-> 0]
  /\ ip = [c \in Client |-> Nobody]
  /\ left = [s \in Server |-> 0]
  /\ go = [s \in Server |-> TRUE]
  /\ inbox = [n \in Node |-> <<>>]
-------------------------------------------------------------------------------
(* discover_server_ip                                                      *)

\* cleanup: the socket is closed.
Finish(c) ==
  /\ pc' = [pc EXCEPT ![c] = "done"]
  /\ inbox' = [inbox EXCEPT ![c] = <<>>]

\* socket, setsockopt or bind fails.
Give(c) ==
  /\ ~ calm
  /\ pc[c] = "send"
  /\ i[c] = 0
  /\ Finish(c)
  /\ UNCHANGED <<calm, i, j, ip, left, go>>

\* The body of the first loop: sendto, and on to the waits.
SendAsk(c) ==
  /\ pc[c] = "send"
  /\ i[c] < 3
  /\ Broadcast(c, Ask)
  /\ j' = [j EXCEPT ![c] = 0]
  /\ pc' = [pc EXCEPT ![c] = "wait"]
  /\ UNCHANGED <<calm, i, ip, left, go>>

\* sendto fails: continue.
SendFails(c) ==
  /\ ~ calm
  /\ pc[c] = "send"
  /\ i[c] < 3
  /\ i' = [i EXCEPT ![c] = @ + 1]
  /\ UNCHANGED <<calm, pc, j, ip, left, go, inbox>>

\* (Mutant: whatever is heard does not count as a wait.)
WaitUncounted(c) == UNCHANGED <<i, j, pc>>

\* (Mutant: a single wait.)
WaitOver1(c) ==
  /\ i' = [i EXCEPT ![c] = @ + 1]
  /\ j' = j
  /\ pc' = [pc EXCEPT ![c] = "send"]

\* The end of one turn of the second loop, and of the first after three.
WaitOver(c) ==
  IF j[c] < 2
    THEN /\ j' = [j EXCEPT ![c] = @ + 1]
         /\ UNCHANGED <<i, pc>>
    ELSE /\ i' = [i EXCEPT ![c] = @ + 1]
         /\ pc' = [pc EXCEPT ![c] = "send"]
         /\ UNCHANGED j

\* recvfrom: the sender of an offer is the server, anything else is skipped.
Hear(c) ==
  /\ pc[c] = "wait"
  /\ inbox[c] # <<>>
  /\ LET m == Head(inbox[c])
     IN  IF m.text = Offer
           THEN /\ ip' = [ip EXCEPT ![c] = m.from]
                /\ Finish(c)
                /\ UNCHANGED <<i, j>>
           ELSE /\ inbox' = [inbox EXCEPT ![c] = Tail(@)]
                /\ WaitOver(c)
                /\ UNCHANGED ip
  /\ UNCHANGED <<calm, left, go>>

\* A server with something to say says it within a second: it pauses for 0.3 s
\* between replies.
Answering == \E s \in Server : pc[s] = "reply" \/ \E k \in DOMAIN inbox[s] : inbox[s][k].text = Ask

\* select finds nothing for a second.
HearNothing(c) ==
  /\ pc[c] = "wait"
  /\ inbox[c] = <<>>
  /\ calm => ~ Answering
  /\ WaitOver(c)
  /\ UNCHANGED <<calm, ip, left, go, inbox>>

\* The first loop ends.
GiveUp(c) ==
  /\ pc[c] = "send"
  /\ i[c] = 3
  /\ Finish(c)
  /\ UNCHANGED <<calm, i, j, ip, left, go>>
-------------------------------------------------------------------------------
(* server_broadcast                                                        *)

\* (Mutant: the server answers whatever it hears.)
IsCallAny(m) == TRUE

\* The comparison that starts the replies.
IsCall(m) == m.text = Ask

\* recv: three replies to an ask, nothing to anything else.
Listen(s) ==
  /\ pc[s] = "listen"
  /\ go[s]
  /\ inbox[s] # <<>>
  /\ IF IsCall(Head(inbox[s]))
       THEN pc' = [pc EXCEPT ![s] = "reply"] /\ left' = [left EXCEPT ![s] = 3]
       ELSE UNCHANGED <<pc, left>>
  /\ inbox' = [inbox EXCEPT ![s] = Tail(@)]
  /\ UNCHANGED <<calm, i, j, ip, go>>

\* One reply and the pause after it; go is not looked at.
Reply(s) ==
  /\ pc[s] = "reply"
  /\ Broadcast(s, Offer)
  /\ left' = [left EXCEPT ![s] = @ - 1]
  /\ pc' = [pc EXCEPT ![s] = IF left[s] = 1 THEN "listen" ELSE @]
  /\ UNCHANGED <<calm, i, j, ip, go>>

\* select fails: the socket is closed.
Drop(s) ==
  /\ ~ calm
  /\ pc[s] = "listen"
  /\ pc' = [pc EXCEPT ![s] = "down"]
  /\ inbox' = [inbox EXCEPT ![s] = <<>>]
  /\ UNCHANGED <<calm, i, j, ip, left, go>>

\* A socket is bound: the first one, or another a second after the last was closed
\* (setsockopt or bind may fail: it is tried again a second later).
Rebind(s) ==
  /\ pc[s] = "down"
  /\ go[s]
  /\ pc' = [pc EXCEPT ![s] = "listen"]
  /\ UNCHANGED <<calm, i, j, ip, left, go, inbox>>

\* socket fails: the thread returns, for good, while the server runs on.
SocketFails(s) ==
  /\ ~ calm
  /\ pc[s] = "down"
  /\ go[s]
  /\ pc' = [pc EXCEPT ![s] = "done"]
  /\ UNCHANGED <<calm, i, j, ip, left, go, inbox>>

\* (Mutant: go is looked at in the inner loop only.)
ServerEndsInner(s) ==
  /\ pc[s] = "listen"
  /\ ~ go[s]
  /\ pc' = [pc EXCEPT ![s] = "done"]
  /\ inbox' = [inbox EXCEPT ![s] = <<>>]
  /\ UNCHANGED <<calm, i, j, ip, left, go>>

\* Both loops have seen go: the thread ends.
ServerEnds(s) ==
  /\ pc[s] \in {"listen", "down"}
  /\ ~ go[s]
  /\ pc' = [pc EXCEPT ![s] = "done"]
  /\ inbox' = [inbox EXCEPT ![s] = <<>>]
  /\ UNCHANGED <<calm, i, j, ip, left, go>>

\* quit()
Quit(s) ==
  /\ ~ calm
  /\ pc[s] # "absent"
  /\ go[s]
  /\ go' = [go EXCEPT ![s] = FALSE]
  /\ UNCHANGED <<calm, pc, i, j, ip, left, inbox>>

ClientStep(c) ==
  Give(c) \/ SendAsk(c) \/ SendFails(c) \/ Hear(c) \/ HearNothing(c) \/ GiveUp(c)

ServerStep(s) == Listen(s) \/ Reply(s) \/ Rebind(s) \/ ServerEnds(s)

DiscoveryNext ==
  \/ \E c \in Client : ClientStep(c)
  \/ \E s \in Server : ServerStep(s) \/ Drop(s) \/ SocketFails(s) \/ Quit(s)

(* No call here blocks for more than a second: every thread goes on.       *)
DiscoverySpec ==
  /\ DiscoveryInit /\ [][DiscoveryNext]_discoveryVars
  /\ \A c \in Client : WF_discoveryVars(ClientStep(c))
  /\ \A s \in Server : WF_discoveryVars(ServerStep(s))
-------------------------------------------------------------------------------
(* Properties                                                              *)

\* Every variable has its type.
TypeOK ==
  /\ calm \in BOOLEAN
  /\ pc \in [Node -> {"absent", "send", "wait", "listen", "reply", "down", "done"}]
  /\ \A c \in Client : pc[c] \in {"absent", "send", "wait", "done"}
  /\ \A s \in Server : pc[s] \in {"absent", "listen", "reply", "down", "done"}
  /\ i \in [Client -> 0..3] /\ j \in [Client -> 0..2]
  /\ ip \in [Client -> Server \cup {Nobody}]
  /\ left \in [Server -> 0..3]
  /\ go \in [Server -> BOOLEAN]
  /\ inbox \in [Node -> Seq(Message)]
  /\ ~ calm => \A n \in Node : Len(inbox[n]) <= Inbox

Searching == {c \in Client : pc[c] \in {"send", "wait"}}

\* With a server running and no message lost nobody falls back to 127.0.0.1, although
\* every client hears itself and the others ask, and each message it hears costs it
\* one of its waits (ip_discovery.cpp:48-66).
ServerFound ==
  calm /\ (\E s \in Server : pc[s] # "absent") =>
    \A c \in Client : pc[c] = "done" => ip[c] # Nobody

\* Whatever is lost, fails or is heard, the search comes to an end: the programs
\* call it before they do anything else.
SearchEnds == <>(Searching = {})

\* Servers hear each other's offers and their own; once nobody asks any more they
\* fall silent.
FallSilent ==
  Searching = {} ~> (\A s \in Server : pc[s] # "reply" /\ inbox[s] = <<>>)

\* A server told to stop can join this thread, whatever it hears meanwhile
\* (server.cpp:261).
ThreadEnds == \A s \in Server : (~ go[s]) ~> (pc[s] = "done")
===============================================================================
