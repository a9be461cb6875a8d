# A verification project for liborts

## 1. The system

liborts connects a train simulator with cab hardware and displays.  Programs
exchange named parameters (`speed`, `controller::throttle`, ...) as lines of text
over TCP, through one server that remembers the last value of each and passes it
to whoever registered for it.

### 1.1 Inventory

| Part | Source | State | Operations |
|---|---|---|---|
| Broker | `serverlib.cpp`, `include/orts/server.h`, `common.cpp`, `include/orts/common.h` | `Server::clients`, `registers` (pattern -> who asked, who was told), the `Parameter`s: value, providers, subscribers, and for each subscriber the value last sent | `AddClient`, `RemoveClient`, `AddRegisterPetition`, `RemoveRegisterPetition`, `UpdateEmptyRegisters`, `UpdatePetitions`, `ParseLine` with `register`, `unregister`, `noretain`, `get` and value lines |
| Topic tree | `common.cpp`, `common.h` | a tree of topics, the parameters at each | `insert`, `erase`, `GetAllMatches` (patterns with `+` and `*`), `GetMatch` |
| Name splitting | `common.cpp` | none | `SplitTopic` |
| Server loop | `server.cpp` | the listening socket, `go`, the clients | poll, accept, a visit to each client, removal, the SIGINT handler |
| Connections | `client.cpp`, `include/orts/client.h` | `connected`, the line buffer | `start`, `handle`, `ReadLine`, `WriteLine`, the destructor |
| Descriptor table | `polling.cpp`, `include/orts/polling.h` | `fds`, `fdindex` | `add`, `remove`, `poll`, `get_events` of `poll_poll` |
| Thread waiter | `polling.cpp` | `running`, `num`, `ready` and `running` of each waiter, detached threads | `threadwait::poll`, `get_events`, the destructor |
| Discovery | `ip_discovery.cpp`, `server.cpp` | loop counters, a UDP socket on each side | `discover_server_ip` on the client, the thread `server_broadcast` on the server |
| Serial ports | `serverlib.cpp`, `client.cpp` | ports seen | `SerialManager`, `SerialClient` |
| Local (bridge) mode | `server.cpp` | one client that is another server | a connection made at the start; the rest is the broker's and the loop's |
| Client-side parameters | `common.cpp`, `common.h` | `ParameterManager` of a program: whether the server asked for a value, what it was sent last | `function_call`, `ParseLine` of the base class, `Send` |
| RailDriver | `Examples/RailDriver` | the levers as last read, the LEDs, `rdwait` and its flags | the main loop, `rdwait::poll`, the driver's callback |
| TrainSimulator | `Examples/TrainSimulator` | a simulator DLL's controllers | the main loop, a change of locomotive |
| OpenRails | `Examples/OpenRails` | a web interface | two threads, one each way |
| Module launcher | `modules.h` | none in use | nothing includes it |

### 1.2 How the parts interact

The server is one thread.  Each round it polls its descriptors, accepts at most one
connection, and visits every client: `handle` reads what there is, `ReadLine` cuts
lines, `Server::ParseLine` acts on each, and that writes lines to other clients.  A
client whose connection failed meanwhile is noticed at its own visit and removed,
which again writes to others.  A second thread, `server_broadcast`, shares only the
flag `go` with it.  The client programs wait for descriptors and for a device at once,
which is what `threadwait` starts threads for.  A program registers the names it shows; the server
tells every client, and the programs that have a value for such a name send it from
then on whenever it changes.  In local mode a server does to another server what a
client does, and neither is aware of it.

What makes it hard:

* *Interleaved requests.*  Petitions, values, queries, arrivals and departures of
  different clients come in any order; the server keeps five overlapping sets of
  `client*` and deletes the object on departure.
* *Blocking calls in a single thread.*  `accept`, `read` and `write` block; a call made
  for nothing stops everybody.  Peers act between `poll` and the call it allowed.
* *Cached knowledge.*  Updates are sent only when they differ from a record of what
  was sent before; `poll` results and `ready` flags are used after the moment they
  were true.
* *Threads, a lock and a condition variable* with waits that have no condition.
* *Crossing lines.*  Requests, values and the ends of connections are under way in both
  directions; programs leave and come back, and a restarted server knows nothing.
* *Datagrams* that are lost, or heard by those they are not for.

What makes each part correct: a client is in no set once it is gone; a subscription
has a petition behind it and follows it; a subscriber has received the current value;
every client knows which values are wanted (broker); the tree search finds what the
pattern selects and the tree leaks nothing (topics); lines are those of the stream,
however it is cut (connections); no call blocks for nothing, only leavers are removed,
nothing written before a close is lost (loop); each entry of the table is found under
its descriptor (table); one thread a waiter, no wake-up lost (thread waiter); searches
find a server and end, servers fall silent (discovery); when nothing is under way every
display shows what the device says (the system end to end), two servers agree (bridge);
the desk misses no report and never asks for power and brake with one lever (desk).

## 2. The modules

| Module | Models | Its state is | Its actions are |
|---|---|---|---|
| `Broker` | class `Server`, `Parameter`, `ParameterData` | the members listed above, plus what was written to each client: `received` (last value line) and `offered` (net effect of `register`/`unregister` lines) | one for each kind of line, one for each of arrival and departure; each includes all the calls the handler makes |
| `PubSub` | nothing of the code: the abstract service `Broker` implements | who wants, who published, what is retained, what was shown | join, leave, subscribe, unsubscribe, publish, query, restart |
| `Patterns` | on whole paths, what `GetAllMatches` selects | - | - |
| `TopicTree` | class `Topic` with `AddParameter`/`RemoveParameter` | the set of parameters and the tree as a function from paths to contents | insertion and erasure with its pruning; the searches are operators |
| `SplitTopic` | the loop of `SplitTopic` | its local variables | one turn of the loop, the exception of `substr` |
| `Topics` | the two together | `SplitTopic`'s and `TopicTree`'s | a name is split to the end; behind the empty name begins any history of the tree |
| `LineReader` | the buffer of `clientext`, `ReadLine`, the line loop of `run_server` | the bytes read and to come, the buffer, the lines cut so far | one `read` of any length; one evaluation of `ReadLine` |
| `ServerLoop` | `run_server`, `POSIXclient`, `poll_poll` | the kernel's side of each connection, the table, the client objects, a program counter | the server's steps between calls that can block; what peers and the user do |
| `ThreadWait` | `threadwait` with two waiters or more | the waiters' flags, the threads, who sleeps on `cv` | one for each critical section, and the caller's reads |
| `Discovery` | both ends of the discovery | counters and sockets of each process | one for each send, receive, time-out and failure |
| `Lines` | the lines a step of `Broker` writes | (that of `Broker`) | operators only: the lines are read off what the step did to the records |
| `System` | `Broker`, its connections, the programs with their `ParameterManager`s | two queues of lines for each connection, which values were asked for on it and what was sent last; what each program's device says and shows; `late`, a history variable | the server accepts, acts on one line, forgets a client, is restarted; a program starts, leaves, reads one line, sends what is out of date; a device moves |
| `Bridge` | two servers in local mode | two instances of `Lines` and the two queues between them | connecting, what programs at either server do, one line taken at either end |
| `Desk` | RailDriver: levers, classes of train, `rdwait`, main loop, LEDs | the device, the flags of the wait, the thread's and the loop's place, `State`, the LEDs | callback, collection, the two ends of `poll`, time-out, the body of the loop |
| `BrokerProofs` | - | - | theorems about `Broker`; lemmas about the lines a step of it writes and the queues they wait in, for one server and for two that are each other's client |
| `SystemProofs`, `BridgeProofs` | - | - | theorems about `System` and `Bridge`, resting on those about `Broker`, which the second cites once for each server |
| `TopicProofs`, `LineProofs`, `LoopProofs`, `WaitProofs`, `ProgramProofs` | - | - | theorems about `TopicTree` and `SplitTopic`, `LineReader`, `ServerLoop`, `ThreadWait`, `Desk` and `Discovery` |
| `MCBroker`, `MCTopics`, `MCServerLoop`, `MCSystem`, `MCBridge` | - | - | values for the constants, symmetry |

Composition: `Topics` has an instance of `SplitTopic` beside `TopicTree`.  `MCBroker`
combines `Broker` with `Patterns`, so that the relation `Matches` it runs with is the
one of real patterns; `TopicTree` is checked against the same `Patterns`, so that the tree search and the relation the broker is checked with
are the same thing.  `Broker` instantiates `PubSub` through a refinement mapping.
`System` extends `Broker` by way of `Lines`: each of its server's steps is one of `Broker`'s, and
the programs see only the lines it writes.  `Bridge` has two instances of `Lines`, each with
a client object for the other.
`ServerLoop` is the environment in which each action of `Broker` is one step: it keeps
the one property `Broker` needs, that lines are handled one after the other, and
leaves open which clients an operation writes to.

Operators marked `(Mutant: ...)` are variants of a definition with a plausible bug in
it.  No specification uses them; replacing the definition by one shows that a
property notices.

### 2.1 Abstractions

* Names, texts and lines are model values or short paths.  Numbers are integers in
  units of the last digit; the margin is an integer of at least 1.  Not-a-number and
  infinity, which `stof` accepts, are left out (see 5).
* In `Broker` a numeric name is one `ParameterData::construct` gives a `NumericData`.  A text
  that `stof` cannot read ends the process; the service unit says `Restart=always`, so
  `SetUnreadable` leads back to an empty server.
* The values of `noretain` lines are `Event` names; a name may be used both ways.
* `ServerLoop` counts lines.  A kernel buffer is a number of lines; a peer may close
  (what it wrote can still be read) or break (a reset; nothing can be read).  A write
  to a peer that closed succeeds, and a reset may follow.
* The critical sections of `threadwait` are single steps: they contain no blocking call
  but the waits on `cv`.  Spurious wake-ups of the caller are the action `TimeOut`.
* In `Discovery` a message reaches the sockets bound at that moment.  A server that
  has something to say says it within the second the client waits, as it pauses for
  0.3 s only; unless `calm`, it may also not.

* `Lines` derives what is written from what a step does to `offered` and `sent`.  It needs
  petitions that are exact names, each registered once in a connection: what the
  repository's programs do, and what two bridged servers are proved to do
  (`RegistersInTurn`).  The order of the lines of one step is not kept between
  different names, and a repeated `unregister` is left out; neither shows at the reader.
* In `System` a program takes in one line at a time (`Read`) and writes all that is out of
  date in one step (`Send`).  The loop reads what has come and then sends; the model lets a
  `Send` come after each line, and the device move and the server act in between, so
  that it has every cut the socket's buffer can make.  A program that leaves may leave lines
  behind, which the server still acts on or loses with a reset.
* In `Bridge` the programs' own lines are acted on at once; `System` has both queues.
* In `Desk` percentages are whole thousandths, rounded down; of the levers, those the
  values sent depend on by more than a copy.  Of `threadwait` it has what one program sees.

## 3. The runs

| Run | Instance | Shows |
|---|---|---|
| `broker_exact` | 2 clients, a text and a number, exact petitions, values 2, 3, 4 with margin 2 | `PubSubPromise`: the broker implements `PubSub`. `SubscriptionComplete`, `DemandKnown`: who subscribes to a stored parameter is exactly who petitioned for it, and each client's `register`/`unregister` lines add up to what is wanted. `RecordsTrue`, `NumberNear`: the records the update test relies on are true, and no subscriber drifts |
| `broker_patterns` | 2 clients, 2 names under `controller::*` and `+::brake`, one of them also an event | `TypeOK`, `Bookkeeping` (its four parts are explained in 6), `SubscriberUpToDate`, and `SubscriptionsSurviveOthers`: nobody loses a subscription by what another does |
| `broker_margin` | 2 clients, `speed` in {0, 5} | **violated**, see 4 |
| `topics` | every name of up to 8 characters, colons and others; 7 parameters with shared topics, every pattern of up to 3 components | `SplitBack`: a name written as components joined by `::` is split back into them, without an exception. `NoDeadTopics`, `SearchFindsSelected` (the recursive search finds what `Patterns` says), `ValueFindsItsName` |
| `lines` | every stream of up to 6 characters over CR, LF and two letters, cut at every place | `SameLines`: the lines depend on the stream alone |
| `loop` | 2 connections, each used again and again, 2 lines each, room for 1, an `accept` that may fail | with fairness, unless a write waits for ever: `LinesGetHandled`, `LeaversForgotten`, `QuitEnds` |
| `loop_faults` | 3 connections, one of whose peers writes, failing `poll` and `accept`, arbitrary initial `revents` | the table stays consistent (`SlotsMatch`) whatever the loop acts on; what some `poll` has written never makes it block (`NeverStuck`), drop who has not left (`OnlyLeaversRemoved`) or lose a line (`LastLinesHandled`) |
| `threads` | 2 waiters, both of which may fail, a poll of either finding up to 2 events, the reader of one of them blocking; 3 threads | `TypeOK`, `OneThread`, `NothingUncounted`, `NoLostWakeup`; with fairness `DestroyEnds`, `ArrivalsRead` |
| `discovery` | 2 clients and 1 server, and 1 client and 2 servers; each calm, or with losses, failing calls and servers stopped at any time | `ServerFound` when calm; always `SearchEnds`, `FallSilent`, `ThreadEnds` |
| `system` | a desk (gives the horn, shows the speed) on one connection and a simulator (the opposite) on one of two, speeds 0 and 4 with margin 2, one text, 2 lines under way | when all is quiet, `RestFaithful`: displays show what the devices say, but for names in `late`, and `RestDemand`: programs send exactly what is shown (both also proved); `ComesToRest`: unless disturbed again and again, it does become quiet |
| `bridge` | two programs at the local server, two at the remote one, one of which gives the value, up to 4 lines between the servers when a program acts | `RestDemand`: demand has crossed the link whenever it is quiet; `RestAgrees`: the servers then hold the same text; `RegistersInTurn`: neither hears the other register or withdraw a name twice in a row (all also proved) |
| `desk` | 3 classes of train, 4 positions of the combined lever, 2 of two others | `TractionOrBrake`, `LedShowsCruise` (both also proved), `ReportsRead`: once a first report is collected, the levers' last position is read |

### 3.1 Bounds, and why they are enough

* *Two clients* (`Broker`): every operation concerns the client that makes it and the
  others, who are treated alike; providers and subscribers, petitioners and the told
  are sets to which the operations apply pointwise.  Two clients give each combination
  of roles: the same client in both, one in each, both in both.  What `BrokerProofs`
  proves holds for any number.
* *Names and petitions*: `controller::*` and `+::brake` overlap in one name and differ in
  another, the smallest instance in which a withdrawn petition may touch what another
  one selects.  In `broker_exact` no two petitions overlap, as `SubscriptionComplete`,
  `DemandKnown` and the refinement require (`Disjoint`); the programs of the repository
  register exact names only.
* *Numbers* 2, 3, 4 with a margin of 2: differences below and equal to the margin, and a
  record (3) with a query answer on one side (4) and a later value on the other (2),
  which is the worst case `NumberNear` allows.
* *Two lines, room for one* (`ServerLoop`): one line already handled and one waiting, both
  queues full and empty.  `Room` is what makes writes block.  A freed connection is used
  again for the next one, so descriptors are reused without end.  In `loop_faults` only one
  peer writes (`Talkers`); the others come, read, close and break, which is what the table
  and the round are sensitive to.  The theorems have no such bound.
* *Threads*: two waiters need a thread each; the third lets one waiter have a starting and
  an ending thread beside the other's.  A poll of a waiter returns at most `Most` events,
  here 2: `num` is a count, and more than one ready descriptor must not pass for another
  waiter's result.
* *`Inbox`*, what a socket holds in `Discovery`, is 1 in weather that loses messages anyway;
  when it is calm nothing is dropped.
* *Two programs* (`System`): each is giver and display at once, of one text and one number,
  so that demand and values flow both ways.  Two lines under way (`Room`) stop new
  disturbances, not answers to what is under way; that is enough for a register line to
  cross a value line or the end of a connection.  The simulator has two connections, of
  which it uses one at a time: it may be back on the second while the server has not yet
  forgotten the first, or not even read its last lines.  Speeds 0 and 4 with margin 2: the
  value a record begins with, and two margins from it; differences below a margin are in
  `broker_exact`, and in the theorem.
* *`Bridge`*: a name needs a giver on one side and a display on each to cross the link in
  both directions; the second program at either server lets demand there come and go and
  makes a second petition for a name that is wanted already.
* *`Desk`*: full power, power, the beginning of the brake (where the classes of train
  differ) and full brake; the two theorems about it hold for all 256 positions.
* `MaxStream`, `Chunk`, `MaxLength` bound streams and names; six characters hold
  `a CR LF b LF` with every cut, eight hold three components and their separators.

Symmetry is used only in runs whose properties treat the members alike: the clients
of `Broker` and the connections of `loop_faults`; never in a run with a liveness property.

`CHECK_DEADLOCK FALSE` stands where the modelled program ends (`SplitTopic`, `ServerLoop`
after SIGINT, `ThreadWait` after the destructor, `Discovery` when all have ended,
`LineReader` at the end of the stream, `Desk` when its loop is left) or where all may be
quiet and nobody obliged to do more (`System`).

### 3.2 Fairness

* `Broker` has none: it states no liveness, and nothing obliges a client to speak.
* `ServerLoop`: weak fairness of the server's thread, and strong fairness of `Accept`: an
  `accept` that is tried again and again succeeds some time.  The second is an assumption:
  it is so for connections that were reset before they were accepted, and where
  descriptors run out for a while; if the server's own clients have used them all up, it
  is not so (section 5).  Peers are not obliged to do anything.  One that stops reading does
  stop the server (hazard at `client.cpp:49`); the three liveness properties therefore
  have the hypothesis `Unblocked`, that no write waits for ever.  It is about a state,
  `Blocked`, that only a full queue of a peer still connected makes true, and not about the
  server's steps.  SIGINT need not come while `poll` waits: if it came before, `QuitEnds` rests
  on the time-out of `poll`.
* `ThreadWait`: weak fairness of the caller and of each thread, and strong fairness of a
  thread that has a result to count.  Such a thread is repeatedly enabled, whenever `poll`
  waits; a wait lasts 100 ms or more, the thread has been notified and needs only the
  lock.  `ArrivalsRead` has the hypothesis that the caller is not for ever in a blocking read
  of what it has read already (`Caught`, see 5), and ends its claim where the caller leaves
  its loop, as both programs do when `poll` returns -1.
* `Discovery`: weak fairness of each process; no call in it blocks for over a second.
* `System`: one condition for all: while the server can take a step for some client, or a
  program can take in a line or send, one of these is taken some time, in whatever order.
  This is less than what `ServerLoop` shows of the loop, and suffices, because each kind of
  step uses up lines.  Nobody is obliged to start, leave or move anything.
* `Bridge` has none: its properties say what holds whenever the link is quiet.
* `Desk`: both threads run, and every wait has its time.  A thread that has been notified
  needs only the mutex, so the ten seconds of `poll` do not pass before it is counted.

## 4. Finding

`broker_margin` / `ShownWithinMargin`: `parameters.txt:1` says `speed decimal any 0.1`, a
speed is exact to 0.1.  `add_register` (`common.h:40`) records that a new subscriber
shows 0, and `get_clients_to_send` (`common.h:51`) then has nothing to send when the value
is 0.  A client that holds another value, from a `get(speed)` or from a subscription
that ended with the parameter's provider, registers while the speed is 0 and keeps
showing the old one.  `NumberNear`, which is proved, says what does hold: for values
at least a margin from 0, less than two margins.

## 5. What does not hold, and is documented nowhere

No comment, test or document of the repository claims the contrary of the following;
they are listed as hazards.

* *Overlapping petitions of one client.*  `unregister(a::*)` unsubscribes the client from
  `a::b` even if it also registered `a::b`, and tells the providers to stop sending `a::*`
  even if somebody wants `a::b`.  This is why `SubscriptionComplete`, `DemandKnown` and the
  refinement require disjoint petitions.
* *Uninitialised `revents`* (`polling.cpp:80`).  A client just accepted is visited in the
  same round with what `push_back` left in `revents`: the server may block in its `read`, or drop
  it.  The history variable `age` says of each descriptor whether its `revents` were written
  by the poll of this round, by an earlier one, or by nobody; `OnlyLeaversRemoved` and
  `LastLinesHandled` leave out the last case.
* *A failing `poll`* (`server.cpp:208-212`).  `err` is cleared right after it is set, and
  the round goes on with an earlier round's `revents`: it may block in `accept` or `read`.
  `NeverStuck` is about the rounds after a `poll` that returned.
* *A failing `accept`* (`server.cpp:224-227`) ends the round before any client is visited.  While
  it keeps failing, no line is handled and no leaver removed, so that the descriptors it may
  be waiting for are not freed: a server that has used up all its descriptors stays so.
  `LinesGetHandled` and `LeaversForgotten` rest on the fairness that excludes this.
* *Lines lost on reset* (`client.cpp:59`).  `POLLHUP` and `POLLERR` win over `POLLIN`.  A peer
  that writes a line and closes loses it when the server has written to it twice in
  between.  `LastLinesHandled` is therefore about connections that were not reset.
* *Events seen twice* (`polling.cpp:244, 265`).  `ready` is set before a result is counted and
  cleared only when the next thread runs, so the caller may see one event in two
  successive calls, and the second read blocks (`client.cpp:64`; the line that would make
  the descriptor non-blocking is commented out).  In `ThreadWait` the caller then stays in
  `Read`, for the waiters in the constant `Blocks`; it gets out when something arrives there,
  and reads that.  `ArrivalsRead` excludes only that it is caught so for ever while the other
  waiter has something.
* *The old connection has the last word* (`server.cpp:213-247`).  The server accepts a new
  connection before it visits the old ones, and reads 1024 bytes of each in a round.  A
  program that leaves with more than that unread, as TrainSimulator may when the locomotive
  changes (`trainsimulator.cpp:224-227`), is back and has sent its new values when the rest of
  the old lines is acted on.  The old value then replaces the new one at the server and on
  the displays, and stays, since the program does not repeat what it has sent.  The model
  lets any backlog be late.  `late` holds the names whose value was last set by a line of a
  connection already ended, and `RestFaithful` is not about them; without this exception TLC
  finds it violated after 31 steps, and with it the theorem says that nothing else leaves an
  old value on a display.
* *The destructor of `threadwait`* (`polling.cpp:211`) waits once for each running thread,
  without a condition.  With two running it may go on, and free the lock, while one
  still runs.  `DestroyEnds` only says that it comes to an end.
* *Values going round between two servers* (`server.cpp:177`).  In local mode each server sends
  back every value that is news to its record of the other.  When two values are under
  way, they chase each other for ever: one display at the local server and
  `horn=on`, `horn=off` written at the remote one without a pause are enough, on the real code
  too.  No property can say that the link becomes quiet; those of `Bridge` say what
  holds when it does.
* *Demand that never ends across the link* (`serverlib.cpp:38`).  A register line is sent to all
  clients, the one it came from included, so a bridged server hears its own and takes the
  other for somebody who wants the value.
* *A display that is not told of zero, end to end* (`common.h:40`).  What section 4 shows of the
  broker is also so for a program's own records, and the two add up.  A number less than two
  margins from zero may reach the server as one less than a margin from zero, which the
  server then takes for the 0 of a new subscriber's record: with speeds 1, 2, 3, margin 2
  and a second display, one shows nothing while the device says 3.  `RestFaithful`
  therefore leaves out numbers less than two margins from zero.
* *A deaf desk* (`raildriver.cpp:239`).  `rdwait::poll` does not collect a report it finds.  If the
  very first callback comes outside a wait, nothing is ever collected, every `poll` returns
  at once and no lever is read.  `ReportsRead` begins with the first report collected.
* *OpenRails* (`or_web.py:56`) does not answer register lines: a value deleted with its last
  display is not there for the next one until it changes.
* *No socket, no discovery* (`server.cpp:33`).  `server_broadcast` returns for good when a socket
  cannot be made, also the second time, after an error of `select`; the server runs on and
  no search finds it.  `ServerFound` is about calm weather.
* *Balises* (`trainsimulator.cpp:188`): reading one resets it, wanted or not.
* *Two spellings*: `common.cpp:151` gives `controller::brakes::dynamic` a margin, the desk sends
  `controller::brake::dynamic`, which is compared as text.
* *Discovery with three clients at once*: each hears the others' questions, and these can
  use up its nine waits before the answer is heard.  `ServerFound` is checked, and proved, for two.

## 6. What is proved

By TLAPS, for every value of the constants that satisfies the module's own assumption and
what is named below.  Every theorem is `Spec => ...` for the specification TLC runs; that
of `Discovery` is called `DiscoverySpec`, and of `Topics` the theorems are about either half.

| Theorems | Module | For |
|---|---|---|
| `TypeCorrect`, `BookkeepingAlways`, `ClientsKnownAlways`, `RecordsTrueAlways`, `SubscriberUpToDateAlways`, `NumberNearAlways`, `SubscriptionsSurvive` | `BrokerProofs` | any sets of clients, names and petitions, any relation `Matches` |
| `SubscriptionCompleteAlways`, `DemandKnownAlways` | `BrokerProofs` | petitions that select disjoint sets of names (`Disjoint`) |
| `PromiseKept` | `BrokerProofs` | the same |
| `ServerIsBroker`, `RestDemandAlways`, `RestFaithfulAlways` | `SystemProofs` | any number of programs and of connections each may use, what each gives and shows, any margin, any finite set of names, any number of lines under way |
| `RestDemandAlways`, `RestAgreesAlways`, `RegistersInTurnAlways` | `BridgeProofs` | any programs at either server, what each gives, any finite set of names (`RestAgrees`: those that are texts), any number of lines under way |
| `NoDeadTopicsAlways`, `SearchFindsSelectedAlways`, `ValueFindsItsNameAlways`, `PlainFindsItsNameAlways` | `TopicProofs` | any parameters and patterns |
| `SplitBackAlways` | `TopicProofs` | names of any length, any characters |
| `SameLinesAlways` | `LineProofs` | streams and reads of any length, any set of bytes |
| `SlotsMatchAlways`, `NeverStuckAlways`, `OnlyLeaversRemovedAlways`, `LastLinesHandledAlways` | `LoopProofs` | any number of connections, failing `poll` and `accept` and arbitrary initial `revents` included |
| `TypeOKAlways`, `OneThreadAlways`, `NothingUncountedAlways`, `NoLostWakeupAlways` | `WaitProofs` | any number of waiters and threads, any number of events one poll may find |
| `TractionOrBrakeAlways`, `LedShowsCruiseAlways` | `ProgramProofs` | every byte a lever can report, every class of train |
| `ServerFoundAlways` | `ProgramProofs` | any number of servers, at most two programs that search at a time (`TwoAtMost`) |
| `SearchTypeOKAlways` | `ProgramProofs` | any number of servers and of programs, in any weather |

### 6.1 The broker

`BrokerAssumption` says that the margin is a positive integer, that the special values are
not texts or numbers, and that `Matches` is a function into sets of names.

* `ClientsKnown`, no set the server writes from holds a client object that was deleted, is not
  inductive: `RemoveClient` finds a client's subscriptions by going through the
  registers, so one that no register selects would be missed.  The induction needs that
  every subscription has a petition behind it (`SubscribersJustified`), that a register
  exists exactly while somebody asks for it and that all clients, and only those, were
  told of it (`RegistersAlive`), and that deleted parameters keep no subscribers or
  providers (`ParametersProvided`).  `Bookkeeping`, in `Broker`, is their conjunction;
  `broker_patterns` checks it and `BookkeepingAlways` proves it.
* `SubscriberUpToDateAlways` and `NumberNearAlways`: the strengthening is `Delivery`: no subscriber
  is owed a line (`Fresh`), and the record equals what was received, or is less than a
  margin off after a query (`RecordsTrue`).  It needs `Bookkeeping`, since a departing client's
  `received` is cleared and it must not remain a subscriber.  Text follows because a true
  and fresh record is the value, numbers by adding two differences below the margin.
* `SubscriptionsSurvive` holds without strengthening: each step is compared with what `Spared`
  allows it, and only `TypeOK` is needed.
* `SubscriptionComplete`: `Bookkeeping` gives that a subscriber has a petition; the converse, that
  a petitioner is subscribed to each stored parameter its petition selects, is `Heard`.
  `unregister` preserves it only if no other petition selects the same name: this is where
  `Disjoint` comes in.  `DemandKnown` is inductive together with `Bookkeeping`, again by `Disjoint`.
* `PromiseKept`, the refinement of `PubSub`.  The invariant is `TypeOK`, `Bookkeeping`, `Heard` and
  `SubscriberUpToDate`.  For each operation one lemma names the step of `PubSub` it is;
  `ShowsStep` is common to all, and shows that what the service promises of a step's end,
  that who wants a name shows its value, is what `Heard` and `SubscriberUpToDate` say.  A
  register line, for instance, is a subscription, a value line a publication, and the end
  of a client takes with it values nobody provides any more.

### 6.2 The topic tree

`TreeInv` says that each topic holds the parameters filed there and no others (`Filed`), that the
topics are those that lead to a parameter (`NoDeadTopics`), and that there is a greatest
depth (`Shallow`).  `erase` and the two searches are recursive, and about recursion one needs
two facts.  That there is a function as the definition describes is shown by a closed
form that satisfies the equation: `LeftAt`, the topics that remain at a depth, `Wanted`, the
parameters below a topic that the rest of the pattern selects, `Named`, those whose name is
the rest of the name.  That it is the only one is shown at the level, or the topic, that
is deepest of those where two solutions differ: the equation there refers to deeper ones
only.  `GreatestOf`, that bounded sets of naturals have a greatest element, stands for
induction; it follows from the library's `NatLessThanWellFounded` and `WFMin`, which have no
operator for a parameter.

`PlainFindsItsNameAlways` follows: where a petition has no `*` and no `+`, `Selects` is equality.
It is what `Lines` takes for granted of the petitions the programs make.

`SplitBackAlways` is about `SplitTopic`, whose loop keeps the place `Gone` behind which the rest of the
name begins.  `SplitAt` says that what has been cut off, written as a name, is the name up to the
colons found last, and that `Gone` has an even number of colons right before it (`EvenTo`).  The
second is what makes it inductive: a name that is the writing of a path has its colons in
runs of even length, so that the colon found next, an even number into its run, has another
behind it (`PairFollows`).  The two bytes the loop skips are therefore there, which excludes the
exception of `substr`, and are colons, which makes the parts add up to the name.  What is
written for a path (`Joins`) is a recursive function; `JoinAppend`, one more component, is
shown of it as above, at the least number of components for which two solutions differ.

### 6.3 The line buffer

`LineInv`: the bytes read so far fall in two, those up to some `k`, whose lines have been
handled, once and in order, and those in `buff`; and `k` is 0 or the place of an end of a
line.  It is the last part that makes it inductive: the next run of bytes without an end
(`NextSpan`) is then a whole line of the stream, and not the rest of one.  A read adds
bytes behind `k` and changes no line that ends before it (`MoreBehind`); when no end is
left in `buff`, all lines of the stream are among the first `k` bytes.

### 6.4 The server loop

Nothing is assumed of `revents` or `poll`: the three properties about what the loop does with a
report say themselves, by `age`, which reports they are about.
`TableInv`: types, where each connection is (`Placed`: in the backlog once, or with the server, or
free), and `SlotsMatch`.  The work is in `RemovedTable`: after the entries behind the removed one
have moved, each index is its own entry's.  `RoundInv` follows a line from the kernel's
queue to `buff` to being handled (`Conserved`), says why a client may be given up (`Standing`:
it has left, or is being visited with `revents` nothing has set, `Misled`), and that what a
`poll` reported of a client is still so when its turn comes (`Reported`), which holds because
only the server reads, a peer that has closed does not come back, and a descriptor that is
used again has a new entry, whose `age` begins anew.  An error reported stays true for good,
also through the rounds after a `poll` that failed; that there is something to read stays
true for the round.

### 6.5 The thread waiter

`OneEach`: the waiter's flag is set exactly while one thread has the waiter and has not
counted its result.  `CountedRest`: a waiter whose result has been counted has no thread
until the next call.  Together they say that what a thread is about to count is not in
`owed` yet, so that `num` grows by at most `Most` for each member of `owed`; that is the part of
`NothingUncounted` about results counted twice, and its proof is the arithmetic of `Counted` and
of the size of `owed`.  With them `NothingUncounted` and `NoLostWakeup` are inductive as they
stand.  `TypeOKAlways` adds what concerns the caller alone (`OthersTyped`).

### 6.6 The desk and the search for a server

`OneLever`: both numbers of the combined lever come from one position of it.  `ThrottleSide` and
`BrakeSide`, arithmetic on 256 positions and the two calibrations, then give that one of them
is zero.  `LedShowsCruise` needs that the LEDs show what follows from the last `State`
(`LedAgrees`) and that the two tests on the class of train, the one for the LEDs and the one
for the command, choose the same lever (`SameLever`).

The search is a matter of counting.  While it is calm, who has asked has an offer in its
socket, or one is to come (`Answered`): a server still has the question, or is about to
reply.  So a wait never ends with nothing heard (`NeverSilent`), and what ended each of them
was a question, its own or the other program's.  `Accounted` counts these, with the
questions still ahead of the first offer in the socket: there are never more than were
asked.  Two programs ask three times each, and a search has nine waits (`NeverGivesUp`).  With
three programs both numbers are nine, and the bound is lost (section 5).

### 6.7 The whole system

`SystemAssumption` says that petitions are exact names, that there are finitely many names, and
what each program gives and shows is any set of them.  `ServerIsBroker` comes first: each
step of the system is one of `Broker` or leaves the server alone, given the types of what
the queues hold (`SysType`).  What is proved of `Broker` thereby holds of the server, and the
rest of the invariant is about the connections.

A queue is described by what it says in the end (the lemmas are in `BrokerProofs`).  `Ends(q, p, S, b, G)`: the last line of `q` that says
one of `S` about `p`, or `b` where there is none, is one of `G`.  Its use is that reading a line
(`EndsPop`) moves the line into `b`, and that writing lines (`EndsPush`, `EndsPushOther`) needs only the new
ones to be looked at; nothing has to be said of the lines in the middle.  For each program:

* `Petitions`: a name is shown exactly if the server has the petition or the register line is on
  its way, never both and never twice.  A second line would make the server forget what
  it has recorded of the display.
* `Demand`: what the program has been asked for, with the `register` and `unregister` lines under
  way, ends in what `offered` says.  `DemandKnown` then leads from `offered` to who petitioned, and
  `Petitions` from there to who shows the name: `RestDemandAlways`.
* `Told`: what is shown, with the values under way, ends in what the server has sent last.
* `Current`: the server's value, with the values under way, ends in what the program has recorded
  as sent, unless a `register` or `unregister` line is under way to it.  The exception is what
  makes it inductive.  When the last display of a name leaves, the server drops the value
  while the program's record still holds it; but then `DemandKnown` says that the name is no longer
  offered, so that an `unregister` line is under way or has been taken in.  And a new
  register line resets the record when it is read.
* `Provides`: what the program has recorded as sent is on its way, or its connection is a
  provider of the name.  This is what keeps the value while another connection of the same
  program is forgotten: the server deletes a value with its last provider only.

A program has at most one connection that is up (`Alone`).  Of the others the server may still
read lines; what such a line has set is not what the program holds to be sent, which is
why `Current` says nothing of the stored value of a name in `late` (`Stored`).  A line of the new
connection, read later, takes the name out of `late` again and makes it true.

Of the broker it needs besides: a program the server does not know holds nothing there
(`Strangers`), and a record is what was received last (`Exact`, which `get` would break and
these programs never call).  At rest the queues are empty, `Ends` says `b \in G`, and
`RestFaithfulAlways` follows by going from what is shown to `received`, the server's record, its
value, the program's record and the device: the two steps through a record cost a margin
each, and the others nothing.

All parts of the invariant were invariants of a run on the instance of `MCSystem` before they
were proved.  `RestFaithful` as it was first written, for numbers from one margin on, could not
be: the proof stopped where the server's record is 0, and TLC confirmed that it is false
with two displays (section 5).

### 6.8 The two servers

`ServersAssumption` is what `Broker` and `Lines` assume of one server, said of each of the two.
`BridgeProofs` has two instances of `BrokerProofs`, `LP` for the local server and `RP` for the
remote one; its first lemmas say that a step of `Bridge` is a step of the one or the other.

What a server holds of the other is a record, `Side`: the names it asked for and those it
was asked for, what it was given, its values.  `Step(a, b, w)` says what a step of a server
from `a` to `b` means for the lines `w` it writes, and `Acts(a, b, l)` what acting on the line `l`
does.  Both are proved once, for any server and any client of it, from what is known of the
broker (`Ready`: `Bookkeeping`, `Delivery`, `Heard`, `DemandKnown`, and that nothing is recorded of who is
not there).  `Met` relates the two records and the queues between them:

* `Asked`: the `register` and `unregister` lines under way take turns, and end in what was asked.
  That they take turns is what `RegistersInTurnAlways` says of the first of them.
* `Passed`: the values under way end in the one that is held.
* `Agreed`: a text no line is under way about, in either direction, is the same at both
  servers.
* `Has`: where no value is under way, and no `unregister` the other way, the other server has
  been given it.  This is what makes `Agreed` say something of a name that is new at one of them.

`Met` says the same seen from either end (`MetBothWays`), so that a step of either server, with or
without a line of the other's at its beginning, is covered by one lemma, `MetAfter`.
`RestDemandAlways` follows from `Asked` and `DemandKnown`, `RestAgreesAlways` from `Asked`, `Has` and `Agreed`.

`Agreed` is about texts only.  Each server keeps back a change of a number that is less than a
margin from what it recorded last, so that two servers may differ by nearly two margins at
rest, and a number near zero is kept back altogether (section 5).

### 6.9 Only model-checked

Liveness, which is out of the prover's reach: `LinesGetHandled`, `LeaversForgotten`, `QuitEnds`,
`DestroyEnds`, `ArrivalsRead`, `SearchEnds`, `FallSilent`, `ThreadEnds`, `ReportsRead` and
`ComesToRest`.

Every safety property of a run that passes is also a theorem.

## 7. Not modelled

* *Serial ports*: the list of ports is empty in this source (the lines that fill it are
  commented out), so no `SerialClient` is ever made.
* *Windows*: `WindowsClient`, `winwait`, `select_poll`; and `epoll_poll`, which needs a macro
  nothing defines (`__linux__r`).
* *Example programs*: reading `maps.txt` and scaling in TrainSimulator, its DLL and its balise;
  the fields of the desk's report that are copied or scaled like the others, the set-up
  of the device; the OpenRails script.
* *The end of a server in local mode*: the local server notices, forgets the link and never
  connects again.
* `modules.h`, build files: no behaviour of the running system.
* Details: NUL bytes in a stream, parentheses inside an argument of a call, the line
  `connected=...`, which `ParseLine` skips, datagrams that arrive reordered, what happens
  after the loop ends.

## 8. Plan

Done: the broker with the proof that it implements `PubSub`, topics, the splitting of names and
their proofs, the line buffer and its proof, the server loop with its table and their proofs, the thread waiter and its
proofs, discovery and its proofs, the system end to end and its proof, the bridge and its proof, the desk and
its proofs.

Left, in this order:

1. How far apart two bridged servers may be about a number.
2. The balise and the scaling of TrainSimulator, the OpenRails script as a second kind of
   program in `System`.
3. `SerialManager`, should the list of its ports be filled again.
