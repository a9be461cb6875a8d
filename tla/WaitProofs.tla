------------------------------ MODULE WaitProofs ------------------------------
(***************************************************************************)
(* Theorems about ThreadWait, for any number of waiters and of threads:    *)
(* no result is lost or counted twice, no wake-up is missed, and no two    *)
(* threads poll one waiter.                                                *)
(***************************************************************************)
EXTENDS ThreadWait, FiniteSetTheorems, TLAPS

Place == {"none", "start", "poll", "count", "notify"}

\* The types the arguments below rest on.
Typed ==
  /\ busy \in [Waiter -> BOOLEAN]
  /\ thread \in [Thread -> [of : Waiter \cup {None}, at : Place, val : -1..Most]]
  /\ \A t \in Thread : \/ thread[t] \in {Idle, Done}
                       \/ thread[t].of \in Waiter /\ thread[t].at \in {"start", "poll", "count"}
  /\ asleep \subseteq Thread \cup {Main}
  /\ num \in Int /\ num >= -1
  /\ owed \subseteq Waiter

\* poll and the destructor are the only ones that let the threads count.
Phase == running \in BOOLEAN /\ (running <=> main \notin {"out", "failed"})

\* t has the waiter w and its result is not counted yet.
Polling(t, w) == thread[t].of = w

\* A waiter whose result has been counted does not run again before the next call.
CountedRest == \A w \in owed : ~ busy[w]

\* evwait::running says whether a thread has the waiter, and one thread has it.
OneEach ==
  \A w \in Waiter :
    /\ busy[w] <=> \E t \in Thread : Polling(t, w)
    /\ \A t, u \in Thread : Polling(t, w) /\ Polling(u, w) => t = u

IInv == Typed /\ Phase /\ OneEach /\ CountedRest /\ NothingUncounted /\ NoLostWakeup
-------------------------------------------------------------------------------
LEMMA IInvInit == Init => IInv
<1> SUFFICES ASSUME Init PROVE IInv
  OBVIOUS
<1> USE ThreadWaitAssumption DEF Init
<1>1. Typed
  BY DEF Typed, Idle, Place
<1>2. OneEach
  BY DEF OneEach, Polling, Idle
<1> QED
  BY <1>1, <1>2 DEF IInv, Phase, CountedRest, NothingUncounted, NoLostWakeup

\* A call of poll gives one thread to each waiter that has none.
LEMMA PollGivesEachOne ==
  ASSUME Typed, OneEach, PollBegins
  PROVE  Typed' /\ OneEach'
<1>1. /\ Injection(ToStart, Free) # {}
      /\ busy' = [w \in Waiter |-> TRUE]
      /\ num' = 0 /\ asleep' = {Main} /\ owed' = owed
  BY DEF PollBegins, StartNum
<1>2. PICK f \in Injection(ToStart, Free) :
        thread' = [t \in Thread |->
                     IF t \in Range(f)
                       THEN [of |-> CHOOSE w \in ToStart : f[w] = t,
                             at |-> "start", val |-> 0]
                       ELSE thread[t]]
  BY <1>1 DEF PollBegins
<1>3. /\ f \in [ToStart -> Free]
      /\ \A v, w \in ToStart : f[v] = f[w] => v = w
  BY <1>2 DEF Injection, IsInjective
<1>4. ASSUME NEW w \in ToStart
      PROVE  /\ f[w] \in Thread /\ f[w] \in Range(f)
             /\ (CHOOSE v \in ToStart : f[v] = f[w]) = w
  BY <1>3 DEF Free, Range
<1>5. ASSUME NEW w \in ToStart
      PROVE  /\ thread'[f[w]] \in [of : Waiter \cup {None}, at : Place, val : -1..Most]
             /\ thread'[f[w]].of = w /\ thread'[f[w]].at = "start"
  <2>1. thread'[f[w]] = [of |-> w, at |-> "start", val |-> 0]
    BY <1>2, <1>4
  <2>2. w \in Waiter /\ 0 \in -1..Most
    BY ThreadWaitAssumption DEF ToStart
  <2> QED  BY <2>1, <2>2 DEF Place
<1>6. ASSUME NEW t \in Thread
      PROVE  \/ \E w \in ToStart : t = f[w]
             \/ t \notin Range(f) /\ thread'[t] = thread[t]
  BY <1>2, <1>3 DEF Range
<1>7. ToStart \subseteq Waiter
  BY DEF ToStart
<1>8. Typed'
  <2>1. ASSUME NEW t \in Thread
        PROVE  /\ thread'[t] \in [of : Waiter \cup {None}, at : Place, val : -1..Most]
               /\ \/ thread'[t] \in {Idle, Done}
                  \/ /\ thread'[t].of \in Waiter
                     /\ thread'[t].at \in {"start", "poll", "count"}
    <3>1. CASE \E w \in ToStart : t = f[w]
      BY <1>5, <1>7, <3>1
    <3>2. CASE thread'[t] = thread[t]
      BY <3>2 DEF Typed
    <3> QED  BY <1>6, <3>1, <3>2
  <2>2. thread' \in [Thread -> [of : Waiter \cup {None}, at : Place, val : -1..Most]]
    BY <1>2, <2>1
  <2>3. /\ busy' \in [Waiter -> BOOLEAN] /\ asleep' \subseteq Thread \cup {Main}
        /\ num' \in Int /\ num' >= -1 /\ owed' \subseteq Waiter
    BY <1>1 DEF Typed
  <2> QED  BY <2>1, <2>2, <2>3 DEF Typed
<1>9. OneEach'
  <2> SUFFICES ASSUME NEW w \in Waiter
               PROVE  \E t \in Thread : \A u \in Thread : Polling(u, w)' <=> u = t
    BY <1>1 DEF OneEach
  <2>1. CASE w \in ToStart
    <3>1. ASSUME NEW u \in Thread, Polling(u, w)' PROVE u = f[w]
      <4>1. CASE \E v \in ToStart : u = f[v]
        BY <1>5, <3>1, <4>1 DEF Polling
      <4>2. CASE thread'[u] = thread[u]
        <5>1. ~ busy[w] /\ w \in Waiter
          BY <2>1 DEF ToStart
        <5>2. Polling(u, w)
          BY <3>1, <4>2 DEF Polling, At
        <5> QED  BY <5>1, <5>2 DEF OneEach
      <4> QED  BY <1>6, <4>1, <4>2
    <3>2. Polling(f[w], w)'
      <4>1. thread'[f[w]].of = w /\ thread'[f[w]].at = "start"
        BY <1>5, <2>1
      <4> QED  BY <4>1 DEF Polling, At
    <3> QED  BY <1>4, <2>1, <3>1, <3>2
  <2>2. CASE w \notin ToStart
    <3>1. PICK t \in Thread : \A u \in Thread : Polling(u, w) <=> u = t
      <4>1. busy[w]
        BY <2>2 DEF ToStart
      <4> QED  BY <4>1 DEF OneEach
    <3>2. ASSUME NEW u \in Thread PROVE Polling(u, w)' <=> Polling(u, w)
      <4>1. CASE \E v \in ToStart : u = f[v]
        <5>1. PICK v \in ToStart : u = f[v]
          BY <4>1
        <5>2. u \in Free
          BY <1>3, <5>1
        <5>3. thread[u].of = None /\ thread'[u].of = v
          BY <1>5, <5>1, <5>2 DEF Free, Idle
        <5> QED  BY <2>2, <5>3, ThreadWaitAssumption DEF Polling
      <4>2. CASE thread'[u] = thread[u]
        BY <4>2 DEF Polling, At
      <4> QED  BY <1>6, <4>1, <4>2
    <3> QED  BY <3>1, <3>2
  <2> QED  BY <2>1, <2>2
<1> QED  BY <1>8, <1>9

\* What t does before its result is counted keeps its waiter with it.
LEMMA ThreadMoves ==
  ASSUME Typed, OneEach, NEW t \in Thread, thread[t].of \in Waiter,
         NEW l \in {"poll", "count"}, NEW v \in -1..Most,
         thread' = [thread EXCEPT ![t] = [@ EXCEPT !.at = l, !.val = v]],
         UNCHANGED <<busy, num, owed>>, asleep' \subseteq Thread \cup {Main}
  PROVE  Typed' /\ OneEach'
<1>1. /\ thread' \in [Thread -> [of : Waiter \cup {None}, at : Place, val : -1..Most]]
      /\ \A u \in Thread : /\ thread'[u].of = thread[u].of
                           /\ thread'[u].at = IF u = t THEN l ELSE thread[u].at
                           /\ u # t => thread'[u] = thread[u]
  BY DEF Typed, Place
<1>2. Typed'
  BY <1>1 DEF Typed
<1>3. \A u \in Thread, w \in Waiter : Polling(u, w)' <=> Polling(u, w)
  BY <1>1 DEF Polling
<1> QED  BY <1>2, <1>3 DEF OneEach

\* A thread that polls has a waiter.
LEMMA PollingHas ==
  ASSUME Typed, NEW t \in Thread, thread[t].at \in {"start", "poll", "count"}
  PROVE  thread[t].of \in Waiter /\ thread[t].val \in -1..Most
BY DEF Typed, Idle, Done

LEMMA CountingKeeps ==
  ASSUME Typed, OneEach, NEW t \in Thread, Counts(t)
  PROVE  Typed' /\ OneEach'
<1> DEFINE w == thread[t].of
<1>0. 0 \in -1..Most /\ None \notin Waiter
  BY ThreadWaitAssumption
<1>1. /\ thread' \in [Thread -> [of : Waiter \cup {None}, at : Place, val : -1..Most]]
      /\ \A u \in Thread : u # t => thread'[u] = thread[u]
      /\ thread'[t] = Done
  BY <1>0 DEF Counts, Typed, Place, Done
<1>2. w \in Waiter /\ Polling(t, w) /\ thread[t].val \in -1..Most
  BY PollingHas DEF Counts, At, Polling
<1>3. /\ busy' = [busy EXCEPT ![w] = FALSE]
      /\ asleep' = asleep /\ num' = Counted(num, thread[t].val)
      /\ owed' = owed \/ owed' = owed \cup {w}
  BY DEF Counts
<1>4. Typed'
  <2>1. num' \in Int /\ num' >= -1
    BY <1>2, <1>3, ThreadWaitAssumption DEF Typed, Counted
  <2>2. ASSUME NEW u \in Thread
        PROVE  \/ thread'[u] \in {Idle, Done}
               \/ thread'[u].of \in Waiter /\ thread'[u].at \in {"start", "poll", "count"}
    BY <1>1 DEF Typed
  <2> QED  BY <1>1, <1>2, <1>3, <2>1, <2>2 DEF Typed
<1>5. OneEach'
  <2>1. \A u \in Thread, v \in Waiter : Polling(u, v)' <=> u # t /\ Polling(u, v)
    BY <1>0, <1>1 DEF Polling, Done
  <2>2. \A v \in Waiter : busy'[v] <=> v # w /\ busy[v]
    BY <1>3 DEF Typed
  <2>3. \A u \in Thread : Polling(u, w) => u = t
    BY <1>2 DEF OneEach
  <2>4. \A v \in Waiter : Polling(t, v) => v = w
    BY DEF Polling
  <2> HIDE DEF w
  <2> QED  BY <2>1, <2>2, <2>3, <2>4 DEF OneEach
<1> QED  BY <1>4, <1>5

LEMMA EndingKeeps ==
  ASSUME Typed, OneEach, NEW t \in Thread, Notifies(t)
  PROVE  Typed' /\ OneEach'
<1>1. /\ thread' \in [Thread -> [of : Waiter \cup {None}, at : Place, val : -1..Most]]
      /\ \A u \in Thread : u # t => thread'[u] = thread[u]
      /\ thread'[t] = Idle /\ thread'[t].of = None
  BY ThreadWaitAssumption DEF Notifies, Idle, Typed, Place
<1>2. thread[t].of = None /\ asleep' = {} /\ UNCHANGED <<busy, num, owed>>
  BY DEF Notifies, At, Typed, Idle, Done
<1>3. Typed'
  BY <1>1, <1>2 DEF Typed
<1>4. \A u \in Thread, w \in Waiter : Polling(u, w)' <=> Polling(u, w)
  BY <1>1, <1>2, ThreadWaitAssumption DEF Polling
<1> QED  BY <1>2, <1>3, <1>4 DEF OneEach

\* Whatever a thread does.
LEMMA StepKeeps ==
  ASSUME Typed, OneEach, NEW t \in Thread, Step(t)
  PROVE  Typed' /\ OneEach'
<1>1. CASE Starts(t)
  <2>1. thread[t].of \in Waiter /\ thread[t].val \in -1..Most
    BY <1>1, PollingHas DEF Starts, At
  <2>2. /\ thread' = [thread EXCEPT ![t] = [@ EXCEPT !.at = "poll", !.val = thread[t].val]]
        /\ UNCHANGED <<busy, num, owed, asleep>>
    BY <1>1 DEF Starts, Typed
  <2> QED  BY <2>1, <2>2, ThreadMoves DEF Typed
<1>2. CASE \E v \in -1..Most : Polls(t, v)
  <2>1. PICK v \in -1..Most : Polls(t, v)
    BY <1>2
  <2>2. thread[t].of \in Waiter
    BY <2>1, PollingHas DEF Polls, At
  <2>3. /\ thread' = [thread EXCEPT ![t] = [@ EXCEPT !.at = "count", !.val = v]]
        /\ UNCHANGED <<busy, num, owed, asleep>>
    BY <2>1 DEF Polls
  <2> QED  BY <2>2, <2>3, ThreadMoves DEF Typed
<1>3. CASE Sleeps(t)
  <2>1. UNCHANGED <<busy, thread, num, owed>> /\ asleep' = asleep \cup {t}
    BY <1>3 DEF Sleeps
  <2> QED  BY <2>1 DEF Typed, OneEach, Polling
<1>4. CASE Counts(t)
  BY <1>4, CountingKeeps
<1>5. CASE Notifies(t)
  BY <1>5, EndingKeeps
<1> QED  BY <1>1, <1>2, <1>3, <1>4, <1>5 DEF Step
-------------------------------------------------------------------------------
(* Results and wake-ups.                                                   *)

LEMMA OneMore ==
  ASSUME NEW m \in Nat, NEW c \in Nat
  PROVE  m * c \in Nat /\ m * (c + 1) = m * c + m
OBVIOUS

\* What a count adds to num is what its waiter may have found, and each waiter is
\* counted once.
LEMMA CountAdds ==
  ASSUME IInv, NEW t \in Thread, Counts(t)
  PROVE  /\ CountedRest'
         /\ main = "waiting" => (num' = 0 <=> owed' = {}) /\ num' <= Most * Cardinality(owed')
<1> DEFINE w == thread[t].of
           v == thread[t].val
<1>1. Typed /\ OneEach /\ CountedRest /\ NothingUncounted
  BY DEF IInv
<1>2. w \in Waiter /\ v \in -1..Most /\ Polling(t, w)
  BY <1>1, PollingHas DEF Counts, At, Polling
<1>3. /\ busy' = [busy EXCEPT ![w] = FALSE] /\ num' = Counted(num, v)
      /\ owed' = IF v = 0 THEN owed ELSE owed \cup {w}
  BY DEF Counts
<1>4. busy[w] /\ w \notin owed
  BY <1>1, <1>2 DEF OneEach, CountedRest
<1> HIDE DEF w, v
<1>5. CountedRest'
  BY <1>1, <1>2, <1>3 DEF CountedRest, Typed
<1>6. /\ IsFiniteSet(owed) /\ Cardinality(owed) \in Nat
      /\ Cardinality(owed \cup {w}) = Cardinality(owed) + 1
  BY <1>1, <1>4, FS_Subset, FS_AddElement, FS_CardinalityType, ThreadWaitAssumption DEF Typed
<1>7. /\ Most \in Nat /\ Most * Cardinality(owed) \in Nat
      /\ Most * (Cardinality(owed) + 1) = Most * Cardinality(owed) + Most
  BY <1>6, OneMore, ThreadWaitAssumption
<1>8. num \in Int /\ num >= -1
  BY <1>1 DEF Typed
<1>9. num' = 0 <=> num = 0 /\ v = 0
  BY <1>2, <1>3, <1>8 DEF Counted
<1>10. ASSUME main = "waiting"
       PROVE  (num' = 0 <=> owed' = {}) /\ num' <= Most * Cardinality(owed')
  <2>1. (num = 0 <=> owed = {}) /\ num <= Most * Cardinality(owed)
    BY <1>1, <1>10 DEF NothingUncounted
  <2>2. CASE v = 0
    BY <1>3, <1>9, <2>1, <2>2 DEF Counted
  <2>3. CASE v # 0
    <3>1. num' \in Int /\ (num' = -1 \/ num' = num + v)
      BY <1>2, <1>3, <1>8, <2>3 DEF Counted
    <3>2. Most * Cardinality(owed') = Most * Cardinality(owed) + Most
      BY <1>3, <1>6, <1>7, <2>3
    <3>3. num' <= Most * Cardinality(owed')
      BY <1>2, <1>7, <1>8, <2>1, <3>1, <3>2
    <3> QED  BY <1>3, <1>9, <2>3, <3>3
  <2> QED  BY <2>2, <2>3
<1> QED  BY <1>5, <1>10

LEMMA ResultsKept ==
  ASSUME IInv, [Next]_vars
  PROVE  Phase' /\ CountedRest' /\ NothingUncounted' /\ NoLostWakeup'
<1> DEFINE G == Phase /\ CountedRest /\ NothingUncounted /\ NoLostWakeup
<1>0. Typed /\ G
  BY DEF IInv
<1> USE DEF Phase, CountedRest, NothingUncounted, NoLostWakeup
<1>1. CASE PollBegins
  <2>1. /\ main = "out" /\ owed' = owed /\ num' = 0 /\ asleep' = {Main} /\ main' = "waiting"
        /\ running' = TRUE
    BY <1>1 DEF PollBegins, StartNum
  <2>2. owed' = {} /\ Cardinality(owed') = 0
    BY <1>0, <2>1, FS_EmptySet
  <2>3. 0 <= Most * Cardinality(owed')
    BY <2>2, ThreadWaitAssumption
  <2> QED  BY <2>1, <2>2, <2>3
<1>2. CASE TimeOut
  BY <1>0, <1>2 DEF TimeOut, At
<1>3. CASE PollReturns
  BY <1>0, <1>3 DEF PollReturns
<1>4. CASE Read \/ \E w \in Waiter : Look(w)
  <2>1. UNCHANGED <<running, num, main, owed, asleep, busy, thread>>
    BY <1>4 DEF Look, Read
  <2> QED  BY <1>0, <2>1 DEF At
<1>5. CASE Destroy
  BY <1>0, <1>5 DEF Destroy
<1>6. CASE DestroyNotifies
  BY <1>0, <1>6 DEF DestroyNotifies
<1>7. CASE \E w \in Waiter : Close(w)
  BY <1>0, <1>7 DEF Close
<1>8. CASE Closed
  BY <1>0, <1>8 DEF Closed
<1>9. ASSUME NEW t \in Thread,
             \/ At(t, "start") /\ thread' = [thread EXCEPT ![t].at = "poll"]
             \/ /\ At(t, "poll")
                /\ \E v \in -1..Most : thread' = [thread EXCEPT ![t] = [@ EXCEPT !.at = "count", !.val = v]],
             UNCHANGED <<busy, asleep, running, num, main, owed>>
      PROVE  G'
  <2>1. \A u \in Thread : At(u, "notify") => At(u, "notify")'
    BY <1>0, <1>9 DEF At, Typed
  <2> QED  BY <1>0, <1>9, <2>1
<1>10. ASSUME NEW t \in Thread, Starts(t) \/ \E v \in -1..Most : Polls(t, v)
       PROVE  G'
  BY <1>9, <1>10 DEF Starts, Polls
<1>11. ASSUME NEW t \in Thread, Sleeps(t) PROVE G'
  BY <1>0, <1>11 DEF Sleeps
<1>12. ASSUME NEW t \in Thread, Counts(t) PROVE G'
  <2>1. /\ thread'[t].at = "notify"
        /\ running /\ UNCHANGED <<running, main, asleep>>
    BY <1>0, <1>12 DEF Counts, Typed, Done
  <2>2. /\ CountedRest'
        /\ main = "waiting" => (num' = 0 <=> owed' = {}) /\ num' <= Most * Cardinality(owed')
    BY <1>12, CountAdds
  <2> QED  BY <1>0, <2>1, <2>2 DEF At
<1>13. ASSUME NEW t \in Thread, Notifies(t) PROVE G'
  BY <1>0, <1>13 DEF Notifies
<1>14. ASSUME NEW w \in Waiter, Arrives(w) PROVE G'
  BY <1>0, <1>14 DEF Arrives, At
<1>15. CASE UNCHANGED vars
  BY <1>0, <1>15 DEF vars, At
<1> QED
  BY <1>1, <1>2, <1>3, <1>4, <1>5, <1>6, <1>7, <1>8, <1>10, <1>11, <1>12, <1>13,
     <1>14, <1>15 DEF Next, MainStep, Step

LEMMA IInvStep == IInv /\ [Next]_vars => IInv'
<1> SUFFICES ASSUME IInv, [Next]_vars PROVE IInv'
  OBVIOUS
<1>1. Typed /\ OneEach
  BY DEF IInv
<1>2. Typed' /\ OneEach'
  <2>1. CASE PollBegins
    BY <1>1, <2>1, PollGivesEachOne
  <2>2. ASSUME NEW t \in Thread, Step(t) PROVE Typed' /\ OneEach'
    BY <1>1, <2>2, StepKeeps
  <2>3. ASSUME UNCHANGED <<busy, thread, num>>, asleep' \subseteq asleep \cup {Main},
               owed' \subseteq owed
        PROVE  Typed' /\ OneEach'
    BY <1>1, <2>3 DEF Typed, OneEach, Polling
  <2>4. ASSUME \/ TimeOut \/ PollReturns \/ Read \/ Destroy \/ DestroyNotifies \/ Closed
               \/ \E w \in Waiter : Look(w) \/ Close(w) \/ Arrives(w)
               \/ UNCHANGED vars
        PROVE  /\ UNCHANGED <<busy, thread, num>> /\ asleep' \subseteq asleep \cup {Main}
               /\ owed' \subseteq owed
    BY <2>4 DEF TimeOut, PollReturns, Read, Destroy, DestroyNotifies, Closed, Look, Close,
                Arrives, vars
  <2> QED  BY <2>1, <2>2, <2>3, <2>4 DEF Next, MainStep
<1> QED  BY <1>2, ResultsKept DEF IInv

LEMMA IInvAlways == Spec => []IInv
BY IInvInit, IInvStep, PTL DEF Spec
-------------------------------------------------------------------------------
(* The theorems.                                                           *)

\* At any time, with any number of waiters, each is polled by one thread if evwait::running
\* says so and by none otherwise (polling.cpp:259-282).
THEOREM OneThreadAlways == Spec => []OneThread
<1>1. Typed /\ OneEach => OneThread
  <2> SUFFICES ASSUME Typed, OneEach, NEW w \in Waiter
               PROVE  Cardinality({t \in Thread : thread[t].of = w})
                        = IF busy[w] THEN 1 ELSE 0
    BY DEF OneThread
  <2> DEFINE P == {t \in Thread : thread[t].of = w}
  <2>1. P = {t \in Thread : Polling(t, w)}
    BY DEF Polling
  <2>2. CASE busy[w]
    <3>1. PICK t \in Thread : Polling(t, w)
      BY <2>2 DEF OneEach
    <3>2. P = {t}
      BY <2>1, <3>1 DEF OneEach
    <3> QED  BY <2>2, <3>2, FS_Singleton
  <2>3. CASE ~ busy[w]
    <3>1. P = {}
      BY <2>1, <2>3 DEF OneEach
    <3> QED  BY <2>3, <3>1, FS_EmptySet
  <2> QED  BY <2>2, <2>3
<1> QED  BY <1>1, IInvAlways, PTL DEF IInv

\* num tells the caller whether a thread has counted a result for it, no thread counts
\* one while nobody waits, and no waiter's result is counted twice in a wait, however
\* much a poll of one returns (polling.cpp:268-277 and 285).
THEOREM NothingUncountedAlways == Spec => []NothingUncounted
BY IInvAlways, PTL DEF IInv

\* The caller never sleeps on a counted result without a notification to come, and no
\* thread sleeps through a wait (polling.cpp:268-290).
THEOREM NoLostWakeupAlways == Spec => []NoLostWakeup
BY IInvAlways, PTL DEF IInv
-------------------------------------------------------------------------------
(* The types of all variables.                                             *)

\* What Typed does not say of the variables.
OthersTyped ==
  /\ source \in [Waiter -> BOOLEAN] /\ seen \in [Waiter -> BOOLEAN]
  /\ ready \in [Waiter -> BOOLEAN]
  /\ main \in {"out", "waiting", "failed", "destroy", "closing", "gone"}
  /\ left \subseteq Waiter /\ reader \in left \cup {None}
  /\ reader # None => main = "out"

LEMMA OthersTypedStep == IInv /\ OthersTyped /\ [Next]_vars => OthersTyped'
<1> SUFFICES ASSUME IInv, OthersTyped, [Next]_vars PROVE OthersTyped'
  OBVIOUS
<1> USE DEF OthersTyped
<1>1. CASE PollBegins
  BY <1>1 DEF PollBegins
<1>2. CASE TimeOut \/ PollReturns \/ Destroy \/ DestroyNotifies \/ Closed
  BY <1>2 DEF TimeOut, PollReturns, Destroy, DestroyNotifies, Closed
<1>3. ASSUME NEW w \in Waiter, Look(w) PROVE OthersTyped'
  <2>1. CASE UNCHANGED left
    BY <1>3, <2>1 DEF Look
  <2>2. CASE UNCHANGED reader
    <3>1. reader' = None /\ left' \subseteq left
      BY <1>3, <2>2 DEF Look
    <3> QED  BY <1>3, <3>1 DEF Look
  <2> QED  BY <1>3, <2>1, <2>2 DEF Look
<1>8. ASSUME NEW w \in Waiter, Close(w) PROVE OthersTyped'
  <2>1. reader = None
    BY <1>8 DEF Close
  <2> QED  BY <1>8, <2>1 DEF Close
<1>9. ASSUME NEW w \in Waiter, Arrives(w) PROVE OthersTyped'
  BY <1>9 DEF Arrives
<1>7. CASE Read
  <2>1. reader' = None /\ left' \subseteq left /\ main' = main
        /\ source' = [source EXCEPT ![reader] = FALSE]
    BY <1>7 DEF Read
  <2> QED  BY <1>7, <2>1 DEF Read
<1>4. ASSUME NEW t \in Thread, Starts(t) \/ Sleeps(t) \/ Counts(t) \/ Notifies(t)
      PROVE  OthersTyped'
  BY <1>4 DEF Starts, Sleeps, Counts, Notifies
<1>5. ASSUME NEW t \in Thread, NEW v \in -1..Most, Polls(t, v) PROVE OthersTyped'
  <2>1. /\ UNCHANGED <<source, main, left, reader>>
        /\ ready' = [ready EXCEPT ![thread[t].of] = TRUE]
        /\ seen' \in {seen, [seen EXCEPT ![thread[t].of] = (v > 0)]}
    BY <1>5 DEF Polls
  <2>2. (v > 0) \in BOOLEAN
    OBVIOUS
  <2>3. seen' \in [Waiter -> BOOLEAN]
    BY <2>1, <2>2
  <2> QED  BY <2>1, <2>3
<1>6. CASE UNCHANGED vars
  BY <1>6 DEF vars
<1> QED  BY <1>1, <1>2, <1>3, <1>4, <1>5, <1>6, <1>7, <1>8, <1>9 DEF Next, MainStep, Step

\* For any number of waiters and threads, and of results one poll may return, every
\* variable keeps its type; in particular the caller is in a reader only while it goes
\* through the waiters after a poll (raildriver.cpp:347-374).
THEOREM TypeOKAlways == Spec => []TypeOK
<1>1. Init => OthersTyped
  BY DEF Init, OthersTyped
<1>2. IInv /\ OthersTyped => TypeOK
  <2> SUFFICES ASSUME IInv, OthersTyped PROVE TypeOK
    OBVIOUS
  <2>1. Typed /\ Phase
    BY DEF IInv
  <2>2. ASSUME NEW t \in Thread
        PROVE  \/ thread[t] \in {Idle, Done}
               \/ /\ thread[t].of \in Waiter
                  /\ thread[t].at \in {"start", "poll", "count"}
                  /\ thread[t].val \in -1..Most
    BY <2>1 DEF Typed
  <2> QED  BY <2>1, <2>2 DEF TypeOK, Typed, Phase, OthersTyped
<1> QED
  BY <1>1, <1>2, IInvAlways, OthersTypedStep, PTL DEF Spec
===============================================================================
