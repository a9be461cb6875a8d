------------------------------ MODULE ThreadWait ------------------------------
(***************************************************************************)
(* threadwait (polling.cpp): waiting on several kinds of event at once.    *)
(* Each kind has an evwait of its own (descriptors, Windows handles, the   *)
(* waiters the example programs define), poll runs one thread for each     *)
(* that has none running, and sleeps on a condition variable until one of  *)
(* them has something or the time is over.  A thread may outlive the call  *)
(* that started it.                                                        *)
(*                                                                         *)
(* Its callers are the loops of the example programs: they look at each    *)
(* waiter after a poll that found something, and leave the loop after one  *)
(* that failed.                                                            *)
(*                                                                         *)
(* The critical sections under mtx contain no blocking call but the waits  *)
(* on cv, so each is one step; the caller of poll and the threads          *)
(* interleave between these steps.  With a single waiter poll starts no    *)
(* thread: that case is part of ServerLoop.                                *)
(***************************************************************************)
EXTENDS Integers, FiniteSets, Functions

CONSTANTS
  Waiter,    \* threadwait::waiters
  Thread,    \* bound: the threads that exist at one time
  Main,      \* the thread that calls poll
  None,      \* no waiter
  Most,      \* bound: what one poll of a waiter may return (its ready descriptors)
  Blocks,    \* the waiters whose reader blocks when there is nothing to read
  CanFail    \* the waiters whose poll may return -1

ASSUME ThreadWaitAssumption ==
  /\ Main \notin Thread
  /\ None \notin Waiter
  /\ Most \in Nat \ {0}
  /\ Blocks \subseteq Waiter
  /\ CanFail \subseteq Waiter
  /\ IsFiniteSet(Waiter) /\ Cardinality(Waiter) > 1

VARIABLES
  source,   \* source[w]: there is something to read behind w
  seen,     \* seen[w]: what the last poll of w found (its revents)
  ready,    \* evwait::ready
  busy,     \* evwait::running
  thread,   \* thread[t]: the waiter it polls, where it is, what poll returned
  asleep,   \* who waits on cv
  running,  \* threadwait::running (inherited from evwait): poll is waiting
  num,      \* threadwait::num
  main,     \* where the caller is: "out", "waiting", "failed", "destroy", "closing",
            \* "gone"
  left,     \* the waiters the caller, or the destructor, has still to look at
  reader,   \* the waiter whose reader the caller is in
  owed      \* the waiters whose result has been counted since poll last returned

vars == <<source, seen, ready, busy, thread, asleep, running, num, main, left, reader, owed>>

Idle == [of |-> None, at |-> "none", val |-> 0]

\* A thread that has counted its result: its waiter may have another by now.
Done == [of |-> None, at |-> "notify", val |-> 0]

Free == {t \in Thread : thread[t] = Idle}

Init ==
  /\ source = [w \in Waiter |-> FALSE]
  /\ seen = [w \in Waiter |-> FALSE]
  /\ ready = [w \in Waiter |-> FALSE]
  /\ busy = [w \in Waiter |-> FALSE]
  /\ thread = [t \in Thread |-> Idle]
  /\ asleep = {}
  /\ running = FALSE
  /\ num = 0
  /\ main = "out"
  /\ left = {}
  /\ reader = None
  /\ owed = {}
-------------------------------------------------------------------------------
(* The caller: poll, then a look at the events of each waiter.             *)

\* (Mutant: every waiter gets a thread.)
ToStartAll == Waiter

\* The waiters poll starts a thread for.
ToStart == {w \in Waiter : ~ busy[w]}

\* (Mutant: num is not reset.)
StartNumKept == num

\* num when a call of poll starts to wait.
StartNum == 0

\* poll, from taking mtx to sleeping on cv.  Threads are alike: which of the free
\* ones a waiter gets does not matter.
PollBegins ==
  /\ main = "out"
  /\ left = {}
  /\ Injection(ToStart, Free) # {}
  /\ LET f == CHOOSE f \in Injection(ToStart, Free) : TRUE
     IN  thread' = [t \in Thread |->
                      IF t \in Range(f)
                        THEN [of |-> CHOOSE w \in ToStart : f[w] = t,
                              at |-> "start", val |-> 0]
                        ELSE thread[t]]
  /\ busy' = [w \in Waiter |-> TRUE]
  /\ num' = StartNum
  /\ running' = TRUE
  /\ asleep' = {Main}
  /\ main' = "waiting"
  /\ UNCHANGED <<source, seen, ready, left, reader, owed>>

\* wait_for ends by itself: the time is over, or for no reason.
TimeOut ==
  /\ main = "waiting"
  /\ Main \in asleep
  /\ asleep' = asleep \ {Main}
  /\ UNCHANGED <<source, seen, ready, busy, thread, running, num, main, left, reader, owed>>

\* poll has mtx again and returns num: on 0 the callers look at nothing, on -1 they
\* leave their loop.
PollReturns ==
  /\ main = "waiting"
  /\ Main \notin asleep
  /\ running' = FALSE
  /\ main' = IF num = -1 THEN "failed" ELSE "out"
  /\ left' = IF num > 0 THEN Waiter ELSE {}
  /\ owed' = {}
  /\ UNCHANGED <<source, seen, ready, busy, thread, asleep, num, reader>>

\* get_events: nothing on w, or its reader is called.
Look(w) ==
  /\ main = "out"
  /\ reader = None
  /\ w \in left
  /\ IF ready[w] /\ seen[w] THEN reader' = w /\ UNCHANGED left
                            ELSE left' = left \ {w} /\ UNCHANGED reader
  /\ UNCHANGED <<source, seen, ready, busy, thread, asleep, running, num, main, owed>>

\* The reader takes what there is, and waits for it if it blocks.
Read ==
  /\ reader # None
  /\ source[reader] \/ reader \notin Blocks
  /\ source' = [source EXCEPT ![reader] = FALSE]
  /\ left' = left \ {reader}
  /\ reader' = None
  /\ UNCHANGED <<seen, ready, busy, thread, asleep, running, num, main, owed>>
-------------------------------------------------------------------------------
(* The destructor.                                                         *)

\* running = true, before mtx is taken.
Destroy ==
  /\ main \in {"out", "failed"}
  /\ reader = None
  /\ main' = "destroy"
  /\ running' = TRUE
  /\ left' = Waiter
  /\ UNCHANGED <<source, seen, ready, busy, thread, asleep, num, reader, owed>>

\* (Mutant: nobody is notified.)
DestroySilently ==
  /\ main = "destroy"
  /\ main' = "closing"
  /\ UNCHANGED <<source, seen, ready, busy, thread, asleep, running, num, left, reader, owed>>

\* mtx, notify_all.
DestroyNotifies ==
  /\ main = "destroy"
  /\ main' = "closing"
  /\ asleep' = {}
  /\ UNCHANGED <<source, seen, ready, busy, thread, running, num, left, reader, owed>>

\* The loop over the waiters: one wait for each that runs when its turn comes.
Close(w) ==
  /\ main = "closing"
  /\ Main \notin asleep
  /\ w \in left
  /\ left' = left \ {w}
  /\ asleep' = IF busy[w] THEN asleep \cup {Main} ELSE asleep
  /\ UNCHANGED <<source, seen, ready, busy, thread, running, num, main, reader, owed>>

Closed ==
  /\ main = "closing"
  /\ Main \notin asleep
  /\ left = {}
  /\ main' = "gone"
  /\ UNCHANGED <<source, seen, ready, busy, thread, asleep, running, num, left, reader, owed>>
-------------------------------------------------------------------------------
(* A thread t for the waiter of[t].                                        *)

At(t, l) == thread[t].at = l

Starts(t) ==
  /\ At(t, "start")
  /\ ready' = [ready EXCEPT ![thread[t].of] = FALSE]
  /\ thread' = [thread EXCEPT ![t].at = "poll"]
  /\ UNCHANGED <<source, seen, busy, asleep, running, num, main, left, reader, owed>>

\* Its poll returns v, and ready becomes true.
Polls(t, v) ==
  LET w == thread[t].of
  IN  /\ At(t, "poll")
      /\ v > 0 => source[w]
      /\ v = 0 => ~ source[w]
      /\ v = -1 => w \in CanFail
      /\ seen' = IF v = -1 THEN seen ELSE [seen EXCEPT ![w] = (v > 0)]
      /\ ready' = [ready EXCEPT ![w] = TRUE]
      /\ thread' = [thread EXCEPT ![t] = [@ EXCEPT !.at = "count", !.val = v]]
      /\ UNCHANGED <<source, busy, asleep, running, num, main, left, reader, owed>>

\* Under mtx, poll not waiting: sleep until it is.
Sleeps(t) ==
  /\ At(t, "count")
  /\ t \notin asleep
  /\ ~ running
  /\ asleep' = asleep \cup {t}
  /\ UNCHANGED <<source, seen, ready, busy, thread, running, num, main, left, reader, owed>>

\* (Mutant: a failure is added like a number of events.)
CountedPlain(n, v) == n + v

\* (Mutant: nothing is added.)
CountedNever(n, v) == n

\* num once a thread has counted v: a failure stays.
Counted(n, v) == IF v = 0 THEN n ELSE IF v = -1 THEN -1 ELSE IF n = -1 THEN -1 ELSE n + v

\* Under mtx, poll waiting: the result is counted, and w is not running any more.
Counts(t) ==
  /\ At(t, "count")
  /\ t \notin asleep
  /\ running
  /\ num' = Counted(num, thread[t].val)
  /\ busy' = [busy EXCEPT ![thread[t].of] = FALSE]
  /\ thread' = [thread EXCEPT ![t] = Done]
  /\ owed' = IF thread[t].val = 0 THEN owed ELSE owed \cup {thread[t].of}
  /\ UNCHANGED <<source, seen, ready, asleep, running, main, left, reader>>

\* (Mutant: nobody is notified.)
NotifiesNobody(t) ==
  /\ At(t, "notify")
  /\ thread' = [thread EXCEPT ![t] = Idle]
  /\ UNCHANGED <<source, seen, ready, busy, asleep, running, num, main, left, reader, owed>>

\* After mtx is released: notify_all, and the thread ends.
Notifies(t) ==
  /\ At(t, "notify")
  /\ asleep' = {}
  /\ thread' = [thread EXCEPT ![t] = Idle]
  /\ UNCHANGED <<source, seen, ready, busy, running, num, main, left, reader, owed>>

Step(t) ==
  \/ Starts(t) \/ Sleeps(t) \/ Counts(t) \/ Notifies(t)
  \/ \E v \in -1..Most : Polls(t, v)

MainStep ==
  \/ PollBegins \/ TimeOut \/ PollReturns \/ Read \/ DestroyNotifies \/ Closed
  \/ \E w \in Waiter : Look(w) \/ Close(w)

\* Something arrives behind w.
Arrives(w) ==
  /\ ~ source[w]
  /\ source' = [source EXCEPT ![w] = TRUE]
  /\ UNCHANGED <<seen, ready, busy, thread, asleep, running, num, main, left, reader, owed>>

Next ==
  \/ MainStep
  \/ Destroy
  \/ \E t \in Thread : Step(t)
  \/ \E w \in Waiter : Arrives(w)

(* Threads that can run do.  A thread that finds poll not waiting and goes *)
(* back to sleep gets its turn in some later wait, because a wait lasts    *)
(* 100 ms or more and a notified thread needs far less (strong fairness).  *)
Fairness ==
  /\ WF_vars(MainStep)
  /\ \A t \in Thread : WF_vars(Step(t)) /\ SF_vars(Counts(t))

Spec == Init /\ [][Next]_vars /\ Fairness
-------------------------------------------------------------------------------
(* Properties                                                              *)

\* Every variable has its type.
TypeOK ==
  /\ source \in [Waiter -> BOOLEAN]
  /\ seen \in [Waiter -> BOOLEAN]
  /\ ready \in [Waiter -> BOOLEAN]
  /\ busy \in [Waiter -> BOOLEAN]
  /\ \A t \in Thread :
       \/ thread[t] \in {Idle, Done}
       \/ /\ thread[t].of \in Waiter
          /\ thread[t].at \in {"start", "poll", "count"}
          /\ thread[t].val \in -1..Most
  /\ asleep \subseteq Thread \cup {Main}
  /\ running \in BOOLEAN
  /\ num \in Int /\ num >= -1
  /\ main \in {"out", "waiting", "failed", "destroy", "closing", "gone"}
  /\ left \subseteq Waiter
  /\ reader \in left \cup {None}
  /\ owed \subseteq Waiter

\* Two threads never poll the same waiter: an evwait is not made for it, poll_poll
\* writes its revents without a lock (polling.cpp:262-263 and 278).
OneThread ==
  \A w \in Waiter :
    Cardinality({t \in Thread : thread[t].of = w})
      = IF busy[w] THEN 1 ELSE 0

\* No result is lost between the threads and the caller: while poll waits num says
\* whether a thread has counted one, and none is counted while nobody waits, where
\* num = 0 of the next call would wipe it (polling.cpp:268-277 and 285).  Nor is one
\* counted twice: num is never more than what each of the waiters counted can have
\* found in one poll of its own.
NothingUncounted ==
  /\ main = "waiting" => /\ num = 0 <=> owed = {}
                         /\ num <= Most * Cardinality(owed)
  /\ main \in {"out", "failed"} => owed = {}

\* The wait of poll has no condition and wakes on a notification alone, and a thread
\* notifies after it has released mtx: yet poll does not sleep on a result without a
\* notification to come, and no thread sleeps on while poll waits for it.
NoLostWakeup ==
  /\ main = "waiting" /\ owed # {} /\ Main \in asleep
       => \E t \in Thread : At(t, "notify")
  /\ main = "waiting" => asleep \subseteq {Main}

\* The destructor's waits have no time limit; each of them ends.
DestroyEnds == main = "destroy" ~> main = "gone"

\* The caller is in a blocking read of what it has already read: get_events reported
\* again what an earlier poll had found (polling.cpp:244 and 265).
Caught == reader \in Blocks /\ ~ source[reader]

\* Whatever arrives is read in the end, though a poll may return before the thread of
\* its waiter has counted it, unless the caller leaves or is caught for ever in a read
\* of another waiter.  A caller caught in a read of w itself reads what arrives.
ArrivalsRead ==
  []<>(~ Caught) =>
    \A w \in Waiter : source[w] ~> ((~ source[w]) \/ main \notin {"out", "waiting"})
===============================================================================
