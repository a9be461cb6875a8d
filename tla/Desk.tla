--------------------------------- MODULE Desk ---------------------------------
(***************************************************************************)
(* The RailDriver program (Examples/RailDriver/raildriver.cpp) as it is    *)
(* built for Windows: the callback of the driver, the thread in which      *)
(* threadwait runs rdwait::poll, and the main loop, which reads the        *)
(* levers, writes to the server what they say and shows a number on the    *)
(* LEDs.  What a class of train makes of the levers is set at the start.   *)
(*                                                                         *)
(* Of threadwait (module ThreadWait) only what this program sees is here:  *)
(* its poll starts the thread unless it runs, and ends when the thread is  *)
(* counted, when something comes from the server, or after its time.       *)
(***************************************************************************)
EXTENDS Integers

CONSTANTS
  Series,        \* the classes of train, the first argument
  ThrottleByte, TrainByte, EngineByte, RotaryByte,  \* where the levers can be
  Speed          \* the speeds the server says, 0 to 999

ASSUME DeskAssumption ==
  /\ Series \subseteq Int
  /\ ThrottleByte \cup TrainByte \cup EngineByte \cup RotaryByte \subseteq 0..255
  /\ Speed \subseteq 0..999

VARIABLES
  serie,      \* the class of train
  levers,     \* what the device would say now
  data,       \* rdwait::data, set by the callback
  rdata,      \* rdwait::rdata, a report has been collected
  thread,     \* that of rdwait: "off", "waiting", "done" and waiting to be counted
  result,     \* what rdwait::poll has returned there
  ready,      \* evwait::ready of rdwait
  main,       \* "top" of the loop, "poll", "body", "end"
  State,      \* what parse_rd has made of the last report read
  speed,      \* the speed shown
  prevc,      \* the number on the LEDs
  connected   \* s_client->connected

waiting == <<data, rdata, thread, result, ready>>
vars == <<serie, levers, waiting, main, State, speed, prevc, connected>>
-------------------------------------------------------------------------------
(* The levers.  A percentage is in thousandths, rounded down.              *)

Ratio(a, b) == IF b < 0 THEN (-100000 * a) \div (-b) ELSE (100000 * a) \div b

\* Percentage of a lever with two ends.
Percentage(x, x0, x100) ==
  LET p == Ratio(x - x0, x100 - x0)
  IN  IF p < 3000 THEN 0 ELSE IF p > 97000 THEN 100000 ELSE p

\* Percentage of a lever with two ends and a middle.
PercentageMid(x, xminus100, x0, xplus100) ==
  LET up == Ratio(x - x0, xplus100 - x0)
      p == IF up < 0 THEN Ratio(x - x0, x0 - xminus100) ELSE up
  IN  IF p < -97000 THEN -100000 ELSE IF p > 97000 THEN 100000 ELSE p

\* (Mutant: a digit is lost.)
DynamicBrakeSetupLow == IF serie = 465 THEN 45 ELSE 163

DynamicBrakeSetup == IF serie = 465 THEN 145 ELSE 163

\* parse_rd, for the levers that matter to what is said to the server.
Parsed(l) ==
  [throttle |-> Percentage(l.throttle, 125, 61),
   dynamic |-> PercentageMid(l.throttle, 125, DynamicBrakeSetup, 210),
   train |-> Percentage(l.train, 190, 92),
   engine |-> Percentage(l.engine, 182, 61),
   modocond |-> (PercentageMid(l.rotary, 98, 139, 175) + 250000) \div 100000]

clamped(p) == IF p < 0 THEN 0 ELSE IF p > 100000 THEN 100000 ELSE p

\* What main sets for a class of train.  (The first list and the values the program
\* begins with are alike but for maxSpeed.)
mandocombinado == IF serie = 130 THEN 1 ELSE 2
mandoCombinadoPrefijada == serie # 130
mandoATOengine == serie = 130
maxSpeed ==
  CASE serie = 130 -> 250 [] serie = 450 -> 140 [] serie = 446 -> 100 [] OTHER -> 120

\* clamped(p) * maxSpeed, as a whole number.
Cruise(p) == (clamped(p) * maxSpeed) \div 100000

\* GetValue of controller::throttle.
Throttle(s) == IF s.modocond = 2 /\ mandoCombinadoPrefijada THEN 0 ELSE clamped(s.throttle)

\* GetValue of cruise_speed.
CruiseSpeed(s) ==
  CASE mandoCombinadoPrefijada -> IF s.modocond = 2 THEN Cruise(s.throttle) ELSE 0
    [] ~ mandoCombinadoPrefijada /\ mandoATOengine -> Cruise(s.engine)
    [] OTHER -> 0

\* GetValue of controller::brake::dynamic and controller::brake::train.
Dynamic(s) == IF mandocombinado = 1 THEN clamped(s.dynamic) ELSE 0
Train(s) == clamped(IF mandocombinado = 2 THEN s.dynamic ELSE s.train)

\* (Mutant: always the throttle.)
LedThrottle(s, spd) == IF s.modocond = 2 THEN Cruise(s.throttle) ELSE spd

\* The number on the LEDs.
Led(s, spd) ==
  IF s.modocond = 2
    THEN Cruise(IF mandoATOengine THEN s.engine ELSE s.throttle)
    ELSE spd
-------------------------------------------------------------------------------
Levers ==
  [throttle : ThrottleByte, train : TrainByte, engine : EngineByte, rotary : RotaryByte]

Init ==
  /\ serie \in Series
  /\ levers \in Levers
  /\ data = FALSE /\ rdata = FALSE
  /\ thread = "off" /\ result = 0 /\ ready = FALSE
  /\ main = "top"
  /\ State = [throttle |-> 0, dynamic |-> 0, train |-> 0, engine |-> 0, modocond |-> 0]
  /\ speed = 0 /\ prevc = -1
  /\ connected = TRUE

\* A lever is moved; the driver calls datacallback.
Report(l) ==
  /\ levers' = l
  /\ data' = TRUE
  /\ UNCHANGED <<serie, rdata, thread, result, ready, main, State, speed, prevc, connected>>

\* The wait for a report ends, by the callback's notify_all or by its time (the
\* callback does not take the mutex, so that its notice may come too soon).
Collect ==
  /\ thread = "waiting"
  /\ rdata' = (rdata \/ data)
  /\ data' = FALSE
  /\ result' = IF rdata' THEN 1 ELSE 0
  /\ ready' = TRUE
  /\ thread' = "done"
  /\ UNCHANGED <<serie, levers, main, State, speed, prevc, connected>>

\* (Mutant: rdata is for one wait.)
PollFresh ==
  /\ main = "top" /\ connected
  /\ main' = "poll"
  /\ IF thread # "off" THEN UNCHANGED waiting
     ELSE /\ rdata' = FALSE
          /\ IF data
               THEN thread' = "done" /\ result' = 1 /\ ready' = TRUE
               ELSE thread' = "waiting" /\ ready' = FALSE /\ UNCHANGED result
          /\ UNCHANGED data
  /\ UNCHANGED <<serie, levers, State, speed, prevc, connected>>

\* The loop's test, and the call of threadwait::poll: rdwait::poll, if it is started
\* and finds a report there, returns without collecting it.
Poll ==
  /\ main = "top" /\ connected
  /\ main' = "poll"
  /\ IF thread # "off" THEN UNCHANGED waiting
     ELSE IF data
       THEN /\ thread' = "done" /\ result' = 1 /\ ready' = TRUE
            /\ UNCHANGED <<data, rdata>>
       ELSE /\ thread' = "waiting" /\ ready' = FALSE
            /\ UNCHANGED <<data, rdata, result>>
  /\ UNCHANGED <<serie, levers, State, speed, prevc, connected>>

\* The thread adds its result and wakes poll, which returns the sum: for 0 the loop
\* begins anew.
Counted ==
  /\ main = "poll" /\ thread = "done"
  /\ thread' = "off"
  /\ main' = IF result = 0 THEN "top" ELSE "body"
  /\ UNCHANGED <<serie, levers, data, rdata, result, ready, State, speed, prevc, connected>>

\* The thread of the connection has been counted.
ServerSpoke ==
  /\ main = "poll"
  /\ main' = "body"
  /\ UNCHANGED <<serie, levers, waiting, State, speed, prevc, connected>>

\* Ten seconds without either: the thread, which needs the mutex only, is not late.
TimeOut ==
  /\ main = "poll" /\ thread # "done"
  /\ main' = "top"
  /\ UNCHANGED <<serie, levers, waiting, State, speed, prevc, connected>>

\* poll fails: the loop is left and the client deleted.
PollFails ==
  /\ main = "poll"
  /\ main' = "end"
  /\ connected' = FALSE
  /\ UNCHANGED <<serie, levers, waiting, State, speed, prevc>>

\* The rest of the loop: a report is read, a line "speed=..." may be there, the
\* parameters are sent, the LEDs written.
Body(spd) ==
  /\ main = "body"
  /\ main' = "top"
  /\ State' = IF ready /\ rdata THEN Parsed(levers) ELSE State
  /\ speed' = spd
  /\ prevc' = Led(State', spd)
  /\ UNCHANGED <<serie, levers, waiting, connected>>

\* read fails, the connection ends, or quit is called.
Disconnect ==
  /\ connected' = FALSE
  /\ UNCHANGED <<serie, levers, waiting, main, State, speed, prevc>>

Ended ==
  /\ main = "top" /\ ~ connected
  /\ main' = "end"
  /\ UNCHANGED <<serie, levers, waiting, State, speed, prevc, connected>>

Next ==
  \/ \E l \in Levers : Report(l)
  \/ Collect \/ Poll \/ Counted \/ ServerSpoke \/ TimeOut \/ PollFails
  \/ \E spd \in Speed \cup {speed} : Body(spd)
  \/ Disconnect \/ Ended

(* Both threads run, and every wait has its time.                          *)
Spec ==
  /\ Init /\ [][Next]_vars
  /\ WF_vars(Collect) /\ WF_vars(Poll) /\ WF_vars(Counted)
  /\ WF_vars(TimeOut) /\ WF_vars(Body(speed)) /\ WF_vars(Ended)
-------------------------------------------------------------------------------
(* Properties                                                              *)

\* The lever that is pushed for power and pulled for brake never does both, for no
\* class of train: what it says as throttle or cruise speed and what it says as brake
\* come from two scales (raildriver.cpp:184-186) that one class shifts.
TractionOrBrake ==
  LET combined == IF mandocombinado = 2 THEN Train(State) ELSE Dynamic(State)
      pull == Throttle(State) + (IF mandoATOengine THEN 0 ELSE CruiseSpeed(State))
  IN  pull > 0 => combined = 0

\* While the desk is in the mode that keeps a speed, the LEDs show the speed it has
\* told the server to keep: the LEDs and cruise_speed choose their lever by tests of
\* their own (raildriver.cpp:109-116 and 377-381).
LedShowsCruise ==
  main = "top" /\ State.modocond = 2 => prevc = CruiseSpeed(State)

\* Once a first report has been collected, the levers' last position is read, however
\* callbacks, waits, time-outs and lines of the server interleave.  (Before that it may
\* never be: a first callback outside a wait is found and not collected, again and again.)
ReportsRead ==
  \A l \in Levers :
    rdata /\ levers = l ~> levers # l \/ State = Parsed(l) \/ ~ connected
===============================================================================
