---------------------------- MODULE GameTimeProofs ----------------------------
(***************************************************************************)
(* Proofs about GameTime, for every clock, queue, nesting of queue_process *)
(* and amount of time: no handler runs early, although world map and rest  *)
(* set the clock back; while no handler of midnight is at work a midnight  *)
(* is queued; the midnight of no day is handled twice; and a               *)
(* queue_process that returns leaves nothing due behind.                   *)
(***************************************************************************)
EXTENDS GameTime, ListProofs

\* The times of events are numbers.
LEMMA EventsAreTimed == Timed(Event)
BY TimeAssumption DEF Timed, Event

\* No call in progress believes it is later than the clock says.
CallsBehindClock ==
  /\ clock \in Int
  /\ calls \in Seq(Call)
  /\ \A i \in 1 .. Len(calls) : calls[i].now <= clock

\* The times an activity will set the clock to are numbers.
ActivityTimes ==
  /\ activity.kind = "travel_drain" => activity.to \in Int
  /\ activity.kind \in {"rest", "rest_drain"} =>
       activity.at \in Int /\ activity.end \in Int

IInv == CallsBehindClock /\ ActivityTimes

(* A queue_process that starts with the clock where it is now or later     *)
(* keeps the calls behind the clock.                                       *)
LEMMA EnterKeeps ==
  ASSUME NEW c \in Seq(Call), NEW t \in Int, NEW u \in Int, u <= t,
         \A i \in 1 .. Len(c) : c[i].now <= u
  PROVE  /\ Enter(c, t) \in Seq(Call)
         /\ \A i \in 1 .. Len(Enter(c, t)) : Enter(c, t)[i].now <= t
<1> DEFINE e == [now |-> t, rc |-> 0, pc |-> "loop"]
<1>1. e \in Call /\ e.now = t
  BY DEF Call
<1> HIDE DEF e
<1>2. Enter(c, t) = Append(c, e)
  BY DEF Enter, e
<1>3. Append(c, e) \in Seq(Call) /\ Len(Append(c, e)) = Len(c) + 1
  BY <1>1
<1>4. ASSUME NEW i \in 1 .. Len(c) + 1
      PROVE  Append(c, e)[i].now <= t
  <2>1. CASE i = Len(c) + 1
    <3>1. Append(c, e)[i] = e
      BY <2>1, <1>1
    <3> QED BY <3>1, <1>1
  <2>2. CASE i # Len(c) + 1
    <3>1. i \in 1 .. Len(c)
      BY <2>2
    <3>2. Append(c, e)[i] = c[i]
      BY <3>1, <1>1
    <3>3. c[i] \in Call
      BY <3>1
    <3>4. c[i].now \in Int
      BY <3>3 DEF Call
    <3>5. c[i].now <= u
      BY <3>1
    <3> QED BY <3>2, <3>4, <3>5
  <2> QED BY <2>1, <2>2
<1> QED BY <1>2, <1>3, <1>4

\* A call that changes how it goes on, but not the time it has read.
LEMMA SetTopKeeps ==
  ASSUME NEW c \in Seq(Call), NEW d \in Seq(Call), NEW t \in Int,
         Len(c) # 0, NEW f \in Call, f.now = c[Len(c)].now,
         d = [c EXCEPT ![Len(c)] = f],
         \A i \in 1 .. Len(c) : c[i].now <= t
  PROVE  \A i \in 1 .. Len(d) : d[i].now <= t
<1>1. Len(d) = Len(c)
  OBVIOUS
<1>2. ASSUME NEW i \in 1 .. Len(c)
      PROVE  d[i].now <= t
  <2>1. CASE i = Len(c)
    <3>1. d[i] = f
      BY <2>1
    <3>2. c[i].now <= t
      OBVIOUS
    <3> QED BY <2>1, <3>1, <3>2
  <2>2. CASE i # Len(c)
    <3>1. d[i] = c[i]
      BY <2>2
    <3> QED BY <3>1
  <2> QED BY <2>1, <2>2
<1> QED BY <1>1, <1>2

\* What the assumptions on the constants say of numbers.
LEMMA Numbers ==
  /\ MaxClock \in Nat /\ Day \in Nat \ {0} /\ Skips \subseteq Nat
  /\ Time \subseteq Int
BY DayAssumption, TimeAssumption

\* What set_game_time leaves of a time is a number.
LEMMA SettingInt == \A t \in Int : Setting(t) \in Int
BY DEF Setting

\* A new game has no call in progress and no activity.
LEMMA InitIInv == Init => IInv
<1> SUFFICES ASSUME Init PROVE IInv
  OBVIOUS
<1>1. calls = << >> /\ activity = [kind |-> "play"] /\ clock \in 1 .. Day
  BY DEF Init
<1>2. CallsBehindClock
  <2>1. clock \in Int
    BY <1>1, Numbers
  <2> QED BY <1>1, <2>1 DEF CallsBehindClock
<1>3. ActivityTimes
  BY <1>1 DEF ActivityTimes
<1> QED BY <1>2, <1>3 DEF IInv

\* A caller outside every queue_process may set the clock to any time, and
\* call queue_process at that time.
LEMMA IdleMaySet ==
  ASSUME Idle, clock' \in Int,
         calls' = calls \/ calls' = Enter(calls, clock')
  PROVE  CallsBehindClock'
<1>1. calls = << >>
  BY DEF Idle
<1>2. CASE calls' = calls
  BY <1>1, <1>2 DEF CallsBehindClock
<1>3. CASE calls' = Enter(calls, clock')
  <2>1. calls \in Seq(Call) /\ \A i \in 1 .. Len(calls) : calls[i].now <= clock'
    BY <1>1
  <2>2. calls' \in Seq(Call) /\ \A i \in 1 .. Len(calls') : calls'[i].now <= clock'
    BY <1>3, <2>1, EnterKeeps
  <2> QED BY <2>2 DEF CallsBehindClock
<1> QED BY <1>2, <1>3

\* Inside a queue_process the clock only moves on.
LEMMA MovesOn ==
  ASSUME CallsBehindClock, clock' \in Int, clock <= clock',
         calls' = calls \/ calls' = Enter(calls, clock')
  PROVE  CallsBehindClock'
<1>1. CASE calls' = calls
  <2>1. ASSUME NEW i \in 1 .. Len(calls) PROVE calls[i].now <= clock'
    <3>1. calls[i] \in Call
      BY DEF CallsBehindClock
    <3>2. calls[i].now \in Int /\ calls[i].now <= clock /\ clock \in Int
      BY <3>1 DEF Call, CallsBehindClock
    <3> QED BY <3>2
  <2> QED BY <1>1, <2>1 DEF CallsBehindClock
<1>2. CASE calls' = Enter(calls, clock')
  <2>1. calls' \in Seq(Call) /\ \A i \in 1 .. Len(calls') : calls'[i].now <= clock'
    BY <1>2, EnterKeeps DEF CallsBehindClock
  <2> QED BY <2>1 DEF CallsBehindClock
<1> QED BY <1>1, <1>2

\* A handler starts or ends: the innermost call changes, the clock does not.
LEMMA HandlerKeeps ==
  ASSUME CallsBehindClock, ~Idle, clock' = clock,
         NEW f \in Call, f.now = Top.now, SetTop(f)
  PROVE  CallsBehindClock'
<1>1. calls \in Seq(Call) /\ Len(calls) # 0 /\ Len(calls) \in Nat
  BY DEF CallsBehindClock, Idle
<1>2. calls' = [calls EXCEPT ![Len(calls)] = f]
  BY DEF SetTop
<1>3. calls' \in Seq(Call)
  BY <1>1, <1>2
<1>4. \A i \in 1 .. Len(calls') : calls'[i].now <= clock
  BY <1>1, <1>2, <1>3, SetTopKeeps DEF CallsBehindClock, Top
<1> QED BY <1>3, <1>4 DEF CallsBehindClock

\* queue_process returns to its caller: the other calls are as they were.
LEMMA ReturningKeeps ==
  ASSUME CallsBehindClock, Returning, clock' \in Int,
         Len(calls) = 1 \/ clock' = clock
  PROVE  CallsBehindClock'
<1>1. calls \in Seq(Call) /\ Len(calls) \in Nat \ {0}
  BY DEF CallsBehindClock, Returning, Running, Idle
<1>2. calls' = SubSeq(calls, 1, Len(calls) - 1)
  BY DEF Returning
<1> DEFINE n == Len(calls) - 1
<1>3. /\ SubSeq(calls, 1, n) \in Seq(Call) /\ Len(SubSeq(calls, 1, n)) = n
      /\ \A i \in 1 .. n : SubSeq(calls, 1, n)[i] = calls[i]
  <2>1. n \in Int /\ 1 \in Int /\ n - 1 + 1 = n /\ n \in Nat
    BY <1>1
  <2>2. \A i \in 1 .. n : calls[i] \in Call
    BY <1>1
  <2> HIDE DEF n
  <2>3. /\ SubSeq(calls, 1, n) \in Seq(Call)
        /\ Len(SubSeq(calls, 1, n)) = IF 1 <= n THEN n - 1 + 1 ELSE 0
        /\ \A i \in 1 .. n - 1 + 1 : SubSeq(calls, 1, n)[i] = calls[1 + i - 1]
    BY <2>1, <2>2, SubSeqProperties
  <2>4. ASSUME NEW i \in 1 .. n PROVE SubSeq(calls, 1, n)[i] = calls[i]
    <3>1. 1 + i - 1 = i
      OBVIOUS
    <3> QED BY <2>1, <2>3, <3>1
  <2> QED BY <2>1, <2>3, <2>4
<1>4. ASSUME NEW i \in 1 .. Len(calls') PROVE calls'[i].now <= clock'
  <2>1. calls'[i] = calls[i] /\ i \in 1 .. Len(calls) /\ Len(calls) # 1
    BY <1>1, <1>2, <1>3
  <2> QED BY <2>1 DEF CallsBehindClock
<1> QED BY <1>2, <1>3, <1>4 DEF CallsBehindClock

\* What the player does on a map, and the game's tick: the clock only goes on.
LEMMA PlayerKeeps ==
  ASSUME IInv,
         \/ EnterMap \/ LeaveMap
         \/ \E inCombat \in BOOLEAN : Tick(inCombat)
         \/ \E d \in Skips : SkipTime(d) \/ ScriptAdvance(d)
         \/ \E d \in Delays : QueueOther(d)
  PROVE  IInv'
<1> USE Numbers DEF IInv
<1>0. clock \in Int
  BY DEF CallsBehindClock
<1>1. CASE EnterMap
  <2>1. CallsBehindClock'
    BY <1>1, <1>0, MovesOn DEF EnterMap
  <2>2. ActivityTimes'
    BY <1>1 DEF EnterMap, ActivityTimes
  <2> QED BY <2>1, <2>2
<1>2. CASE LeaveMap
  <2>1. CallsBehindClock'
    BY <1>2, <1>0, MovesOn DEF LeaveMap
  <2>2. ActivityTimes'
    BY <1>2 DEF LeaveMap, ActivityTimes
  <2> QED BY <2>1, <2>2
<1>3. ASSUME NEW inCombat \in BOOLEAN, Tick(inCombat) PROVE IInv'
  <2>1. clock' \in Int /\ clock <= clock' /\ calls' = Enter(calls, clock')
    BY <1>3, <1>0 DEF Tick
  <2>2. CallsBehindClock'
    BY <2>1, MovesOn
  <2>3. ActivityTimes'
    BY <1>3 DEF Tick, ActivityTimes
  <2> QED BY <2>2, <2>3
<1>4. ASSUME NEW d \in Skips, SkipTime(d) PROVE IInv'
  <2>1. clock' \in Int /\ clock <= clock' /\ calls' = calls
    BY <1>4, <1>0 DEF SkipTime
  <2>2. CallsBehindClock'
    BY <2>1, MovesOn
  <2>3. ActivityTimes'
    BY <1>4 DEF SkipTime, ActivityTimes
  <2> QED BY <2>2, <2>3
<1>5. ASSUME NEW d \in Skips, ScriptAdvance(d) PROVE IInv'
  <2>1. clock' \in Int /\ clock <= clock' /\ calls' = Enter(calls, clock')
    BY <1>5, <1>0 DEF ScriptAdvance
  <2>2. CallsBehindClock'
    BY <2>1, MovesOn
  <2>3. ActivityTimes'
    BY <1>5 DEF ScriptAdvance, ActivityTimes
  <2> QED BY <2>2, <2>3
<1>6. ASSUME NEW d \in Delays, QueueOther(d) PROVE IInv'
  <2>1. CallsBehindClock'
    BY <1>6, <1>0, MovesOn DEF QueueOther
  <2>2. ActivityTimes'
    BY <1>6 DEF QueueOther, ActivityTimes
  <2> QED BY <2>1, <2>2
<1> QED BY <1>1, <1>2, <1>3, <1>4, <1>5, <1>6

\* A step of world map travel, which sets the clock while no call is in progress.
LEMMA TravelKeeps ==
  ASSUME IInv, NEW d \in Skips, TravelStep(d)
  PROVE  IInv'
<1> USE Numbers DEF IInv
<1>0. clock \in Int /\ clock + d \in Int /\ Idle
  BY DEF CallsBehindClock, TravelStep
<1>1. CASE clock + d >= NextTime
  <2>1. /\ NextTime + 1 \in Int /\ clock' = Setting(NextTime + 1)
        /\ calls' = Enter(calls, clock')
        /\ activity' = [kind |-> "travel_drain", to |-> clock + d]
    BY <1>1 DEF TravelStep
  <2>2. CallsBehindClock'
    BY <1>0, <2>1, SettingInt, IdleMaySet
  <2>3. ActivityTimes'
    BY <1>0, <2>1 DEF ActivityTimes
  <2> QED BY <2>2, <2>3
<1>2. CASE ~(clock + d >= NextTime)
  <2>1. clock' = Setting(clock + d) /\ calls' = calls /\ activity' = activity
    BY <1>2 DEF TravelStep
  <2>2. CallsBehindClock'
    BY <1>0, <2>1, SettingInt, IdleMaySet
  <2>3. ActivityTimes'
    BY <2>1 DEF ActivityTimes
  <2> QED BY <2>2, <2>3
<1> QED BY <1>1, <1>2

\* Resting, which sets the clock back before the queue is processed: never while
\* a call is in progress.
LEMMA RestKeeps ==
  ASSUME IInv,
         \/ \E d \in Skips : RestBegin(d) \/ RestNextPart(d)
         \/ \E v \in 1 .. MaxClock : RestStep(v)
         \/ \E whole \in BOOLEAN : RestEnd(whole)
  PROVE  IInv'
<1> USE Numbers DEF IInv
<1>0. clock \in Int
  BY DEF CallsBehindClock
<1>1. ASSUME NEW d \in Skips, RestBegin(d) PROVE IInv'
  <2>1. CallsBehindClock'
    BY <1>1, <1>0, IdleMaySet DEF RestBegin
  <2>2. ActivityTimes'
    BY <1>1, <1>0 DEF RestBegin, ActivityTimes
  <2> QED BY <2>1, <2>2
<1>2. ASSUME NEW d \in Skips, RestNextPart(d) PROVE IInv'
  <2>1. activity.end \in Int /\ clock' = Setting(activity.end)
    BY <1>2 DEF RestNextPart, ActivityTimes
  <2>2. CallsBehindClock'
    BY <1>2, <2>1, SettingInt, IdleMaySet DEF RestNextPart
  <2>3. clock' \in Int
    BY <2>1, SettingInt
  <2>4. ActivityTimes'
    BY <1>2, <2>3 DEF RestNextPart, ActivityTimes
  <2> QED BY <2>2, <2>4
<1>3. ASSUME NEW v \in 1 .. MaxClock, RestStep(v) PROVE IInv'
  <2>0. Idle /\ activity.kind = "rest" /\ activity.end \in Int
    BY <1>3 DEF RestStep, ActivityTimes
  <2>1. CASE v >= NextTime
    <3>1. /\ NextTime + 1 \in Int /\ clock' = Setting(NextTime + 1)
          /\ calls' = Enter(calls, clock')
          /\ activity' = [kind |-> "rest_drain", at |-> v, end |-> activity.end]
      BY <1>3, <2>1 DEF RestStep
    <3>2. CallsBehindClock'
      BY <2>0, <3>1, SettingInt, IdleMaySet
    <3>3. ActivityTimes'
      BY <2>0, <3>1 DEF ActivityTimes
    <3> QED BY <3>2, <3>3
  <2>2. CASE ~(v >= NextTime)
    <3>1. /\ clock' = Setting(v) /\ calls' = calls
          /\ activity' = [kind |-> "rest", at |-> v, end |-> activity.end]
      BY <1>3, <2>2 DEF RestStep
    <3>2. CallsBehindClock'
      BY <2>0, <3>1, SettingInt, IdleMaySet
    <3>3. ActivityTimes'
      BY <2>0, <3>1 DEF ActivityTimes
    <3> QED BY <3>2, <3>3
  <2> QED BY <2>1, <2>2
<1>4. ASSUME NEW whole \in BOOLEAN, RestEnd(whole) PROVE IInv'
  <2>1. /\ Idle /\ clock' = IF whole THEN Setting(activity.end) ELSE clock
        /\ calls' = Enter(calls, clock') \/ calls' = calls
        /\ activity' = [kind |-> "play"]
    BY <1>4 DEF RestEnd
  <2>2. clock' \in Int
    BY <1>4, <1>0, <2>1, SettingInt DEF RestEnd, ActivityTimes
  <2>3. CallsBehindClock'
    BY <2>1, <2>2, IdleMaySet
  <2>4. ActivityTimes'
    BY <2>1 DEF ActivityTimes
  <2> QED BY <2>3, <2>4
<1> QED BY <1>1, <1>2, <1>3, <1>4

\* queue_process itself: calls begin with the clock's time, handle and end.
LEMMA DrainKeeps ==
  ASSUME IInv, Drain
  PROVE  IInv'
<1> USE DEF IInv
<1>0. clock \in Int /\ calls \in Seq(Call)
  BY DEF CallsBehindClock
<1>1. ASSUME ~Idle PROVE Top \in Call
  BY <1>0, <1>1 DEF Idle, Top
<1>2. CASE PopOther
  <2> DEFINE f == [Top EXCEPT !.pc = "other"]
  <2>1. ~Idle /\ clock' = clock /\ SetTop(f)
    BY <1>2 DEF PopOther, Pop, Running
  <2>2. f \in Call /\ f.now = Top.now
    BY <1>1, <2>1 DEF Call
  <2>3. CallsBehindClock'
    BY <2>1, <2>2, HandlerKeeps
  <2>4. ActivityTimes'
    BY <1>2 DEF PopOther, ActivityTimes
  <2> QED BY <2>3, <2>4
<1>3. ASSUME NEW rc \in 0 .. 1, HandlerDone(rc) PROVE IInv'
  <2> DEFINE f == [Top EXCEPT !.pc = "loop", !.rc = rc]
  <2>1. ~Idle /\ clock' = clock /\ SetTop(f)
    BY <1>3 DEF HandlerDone, Running
  <2>2. f \in Call /\ f.now = Top.now
    BY <1>1, <2>1 DEF Call
  <2>3. CallsBehindClock'
    BY <2>1, <2>2, HandlerKeeps
  <2>4. ActivityTimes'
    BY <1>3 DEF HandlerDone, ActivityTimes
  <2> QED BY <2>3, <2>4
<1>4. CASE PopMapUpdate
  <2>1. CallsBehindClock'
    BY <1>0, <1>4, MovesOn DEF PopMapUpdate
  <2>2. ActivityTimes'
    BY <1>4 DEF PopMapUpdate, ActivityTimes
  <2> QED BY <2>1, <2>2
<1>5. CASE PopMidnight
  <2>1. PICK movie \in BOOLEAN :
          SetTop([Top EXCEPT !.pc = IF movie THEN "movie" ELSE "midnight"])
    BY <1>5 DEF PopMidnight
  <2> DEFINE f == [Top EXCEPT !.pc = IF movie THEN "movie" ELSE "midnight"]
  <2>2. ~Idle /\ clock' = clock
    BY <1>5 DEF PopMidnight, Pop, Running
  <2>3. f \in Call /\ f.now = Top.now
    BY <1>1, <2>2 DEF Call
  <2>4. CallsBehindClock'
    BY <2>1, <2>2, <2>3, HandlerKeeps
  <2>5. ActivityTimes'
    BY <1>5 DEF PopMidnight, ActivityTimes
  <2> QED BY <2>4, <2>5
<1>6. CASE PopMidnightInMovie
  <2>1. CallsBehindClock'
    BY <1>0, <1>6, MovesOn DEF PopMidnightInMovie
  <2>2. ActivityTimes'
    BY <1>6 DEF PopMidnightInMovie, ActivityTimes
  <2> QED BY <2>1, <2>2
<1>7. ASSUME NEW rc \in 0 .. 1, MidnightDone(rc) PROVE IInv'
  <2> DEFINE f == [Top EXCEPT !.pc = "loop", !.rc = rc]
  <2>1. ~Idle /\ clock' = clock /\ SetTop(f)
    BY <1>7 DEF MidnightDone, Running
  <2>2. f \in Call /\ f.now = Top.now
    BY <1>1, <2>1 DEF Call
  <2>3. CallsBehindClock'
    BY <2>1, <2>2, HandlerKeeps
  <2>4. ActivityTimes'
    BY <1>7 DEF MidnightDone, ActivityTimes
  <2> QED BY <2>3, <2>4
<1>8. CASE ReturnInner
  <2>1. CallsBehindClock'
    BY <1>0, <1>8, ReturningKeeps DEF ReturnInner
  <2>2. ActivityTimes'
    BY <1>8 DEF ReturnInner, ActivityTimes
  <2> QED BY <2>1, <2>2
<1>9. CASE ReturnTravel
  <2>1. clock' \in Int
    BY <1>0, <1>9, SettingInt DEF ReturnTravel, ActivityTimes
  <2>2. CallsBehindClock'
    BY <1>9, <2>1, ReturningKeeps DEF ReturnTravel
  <2>3. ActivityTimes'
    BY <1>9 DEF ReturnTravel, ActivityTimes
  <2> QED BY <2>2, <2>3
<1>10. ASSUME NEW quit \in BOOLEAN, ReturnRest(quit) PROVE IInv'
  <2>1. activity.at \in Int /\ activity.end \in Int
    BY <1>10 DEF ReturnRest, ActivityTimes
  <2>2. clock' \in Int
    BY <1>0, <1>10, <2>1, SettingInt DEF ReturnRest
  <2>3. CallsBehindClock'
    BY <1>10, <2>2, ReturningKeeps DEF ReturnRest
  <2>4. ActivityTimes'
    BY <1>10, <2>1 DEF ReturnRest, ActivityTimes
  <2> QED BY <2>3, <2>4
<1> QED
  BY <1>2, <1>3, <1>4, <1>5, <1>6, <1>7, <1>8, <1>9, <1>10 DEF Drain, Return

\* IInv is inductive.
LEMMA StepIInv == IInv /\ [Next]_vars => IInv'
<1> SUFFICES ASSUME IInv, [Next]_vars PROVE IInv'
  OBVIOUS
<1>1. CASE Next
  BY <1>1, PlayerKeeps, TravelKeeps, RestKeeps, DrainKeeps DEF Next
<1>2. CASE UNCHANGED vars
  BY <1>2 DEF vars, IInv, CallsBehindClock, ActivityTimes
<1> QED BY <1>1, <1>2

\* Where queue_process takes an event out, the event is due by the time the
\* call has read, and the clock has reached that time.
LEMMA PoppingIsDue ==
  ASSUME IInv, NEW t \in Time, Popping, queue[1].time = t
  PROVE  t <= clock
<1>1. Running("loop") /\ GoesOn(Top)
  BY DEF Popping, PopOther, PopMapUpdate, PopMidnight, PopMidnightInMovie, Pop
<1>2. calls \in Seq(Call) /\ Len(calls) \in 1 .. Len(calls) /\ clock \in Int
  BY <1>1 DEF IInv, CallsBehindClock, Running, Idle
<1>3. Top \in Call /\ Top.now <= clock
  BY <1>2 DEF Top, IInv, CallsBehindClock
<1>4. t <= Top.now /\ Top.now \in Int /\ t \in Int
  BY <1>1, <1>3, Numbers DEF GoesOn, Call
<1> QED BY <1>2, <1>3, <1>4

(* No handler runs before its event's time, although world map travel and  *)
(* rest set the clock back (worldmap.cc, pipboy.cc) and handlers move it.  *)
THEOREM NoHandlerRunsEarly == Spec => NeverEarly
<1>1. IInv /\ [Next]_vars =>
        [Popping => \A t \in Time : queue[1].time = t => t <= clock]_vars
  BY PoppingIsDue
<1> QED BY <1>1, InitIInv, StepIInv, PTL DEF Spec, NeverEarly

(* A queue_process in progress is never ahead of the clock: set_game_time  *)
(* goes back only when none is in progress.                                *)
THEOREM CallsStayBehind == Spec => []IInv
BY InitIInv, StepIInv, PTL DEF Spec

-----------------------------------------------------------------------------
(***************************************************************************)
(* Midnight. The queue is in order of time, so that the first event says   *)
(* what is due; every midnight in it belongs to a day later than those     *)
(* that were counted, unless the handler that drops it is still to run.    *)
(***************************************************************************)
QueueInOrder == queue \in Seq(Event) /\ InOrder(queue)

ClockInBounds ==
  /\ clock \in 1 .. MaxClock
  /\ activity.kind = "travel_drain" => activity.to \in 1 .. MaxClock
  /\ activity.kind \in {"rest", "rest_drain"} =>
       activity.at \in 1 .. MaxClock /\ activity.end \in 1 .. MaxClock

\* Some call in progress is handling midnight.
Handling(c) == \E i \in 1 .. Len(c) : c[i].pc \in {"midnight", "movie"}

\* A queue_process that has called another waits in a handler that may.
OuterWait == \A i \in 1 .. Len(calls) - 1 : calls[i].pc \in {"other", "movie"}

DaysBegun == midnights \subseteq Int /\ \A d \in midnights : d <= DayOf(clock)

\* The midnights in the queue are those of days not counted yet.
NextDay ==
  \/ Handling(calls)
  \/ \A e \in ToSet(queue) :
       e.type = "midnight" => \A d \in midnights : d < DayOf(e.time)

DayInv ==
  /\ IInv /\ QueueInOrder /\ ClockInBounds /\ OuterWait
  /\ DaysBegun /\ NextDay /\ MidnightPending

\* How many days and minutes there are in a time.
LEMMA DivMod ==
  ASSUME NEW a \in Nat, NEW b \in Nat \ {0}
  PROVE  a \div b \in Nat /\ a % b \in 0 .. b - 1 /\ a = b * (a \div b) + (a % b)
OBVIOUS

\* Days do not go down as time goes on.
LEMMA DayMonotone ==
  ASSUME NEW t \in Int, NEW u \in Int, t <= u
  PROVE  DayOf(t) \in Int /\ DayOf(u) \in Int /\ DayOf(t) <= DayOf(u)
BY DayAssumption DEF DayOf

\* The delay of gtime_q_add, counted from the start of the minute, leads into
\* the next day all the same, and never further than a day.
LEMMA MidnightIsNextDay ==
  ASSUME NEW t \in Nat
  PROVE  ToMidnight(t) \in 1 .. Day /\ DayOf(t) < DayOf(t + ToMidnight(t))
<1>0. Day \in Nat \ {0} /\ Minute \in Nat \ {0}
  BY DayAssumption
<1>1. ToMidnight(t) \in 1 .. Day /\ Day - (t % Day) <= ToMidnight(t)
  <2> DEFINE r == t % Day
             k == r \div Minute
  <2>1. r \in 0 .. Day - 1 /\ k \in Nat /\ r % Minute \in Nat
        /\ r = Minute * k + (r % Minute)
    <3>1. r \in 0 .. Day - 1
      BY <1>0, DivMod
    <3> HIDE DEF r
    <3> QED BY <1>0, <3>1, DivMod
  <2> HIDE DEF r, k
  <2>2. Minute * k \in Int /\ 0 <= Minute * k /\ Minute * k <= r
    BY <1>0, <2>1
  <2>3. ToMidnight(t) = Day - Minute * k
    BY DEF ToMidnight, r, k
  <2> QED BY <1>0, <2>1, <2>2, <2>3 DEF r
<1>2. Day * (DayOf(t) + 1) <= t + ToMidnight(t)
  BY <1>0, <1>1, DivMod DEF DayOf
<1> QED BY <1>0, <1>1, <1>2 DEF DayOf

\* A minute is within a day.
LEMMA MinuteInDay == Minute \in 1 .. Day
BY DayAssumption

\* queue_add puts one event in its place.
LEMMA Scheduled ==
  ASSUME NEW q \in Seq(Event), InOrder(q), NEW t \in Time, NEW ty \in Type
  PROVE  /\ Sched(q, t, ty) \in Seq(Event) /\ InOrder(Sched(q, t, ty))
         /\ ToSet(Sched(q, t, ty)) =
              ToSet(q) \cup {[time |-> t, type |-> ty, owner |-> NONE]}
<1> DEFINE e == [time |-> t, type |-> ty, owner |-> NONE]
           p == CHOOSE n \in 1 .. Len(q) + 1 : StablePlace(q, t, n)
<1>1. e \in Event /\ e.time = t
  BY DayAssumption DEF Event
<1>2. p \in 1 .. Len(q) + 1 /\ StablePlace(q, t, p)
  BY EventsAreTimed, TimeAssumption, StablePlaceExists
<1>3. Sched(q, t, ty) = InsertAt(q, p, e)
  BY DEF Sched
<1> HIDE DEF e, p
<1>4. OrderedPlace(q, e.time, p)
  BY <1>1, <1>2, EventsAreTimed, TimeAssumption, StableIsOrdered
<1>5. InsertAt(q, p, e) \in Seq(Event) /\ InOrder(InsertAt(q, p, e))
  BY <1>1, <1>2, <1>4, InsertAtIndex, EventsAreTimed, InsertKeepsOrder
<1>6. ToSet(InsertAt(q, p, e)) = ToSet(q) \cup {e}
  BY <1>1, <1>2, InsertAtSet
<1> QED BY <1>3, <1>5, <1>6 DEF e

\* queue_clear_type drops the events of a type.
LEMMA Cleared ==
  ASSUME NEW q \in Seq(Event), InOrder(q), NEW ty
  PROVE  /\ Without(q, ty) \in Seq(Event) /\ InOrder(Without(q, ty))
         /\ ToSet(Without(q, ty)) = {e \in ToSet(q) : e.type # ty}
BY OnlySet, EventsAreTimed, OnlyKeepsOrder DEF Without

\* gtime_q_add queues a midnight, that of the next day, and no other.
LEMMA MidnightQueued ==
  ASSUME NEW q \in Seq(Event), InOrder(q), NEW loaded, clock \in 1 .. MaxClock
  PROVE  /\ GTimeQAdd(q, loaded) \in Seq(Event) /\ InOrder(GTimeQAdd(q, loaded))
         /\ \E e \in ToSet(GTimeQAdd(q, loaded)) : e.type = "midnight"
         /\ \A e \in ToSet(GTimeQAdd(q, loaded)) : e.type = "midnight" =>
              e \in ToSet(q) \/ DayOf(clock) < DayOf(e.time)
<1> DEFINE t == clock + ToMidnight(clock)
           u == clock + Minute
           m == Sched(q, t, "midnight")
           n == Sched(m, u, "map_update")
           new == [time |-> t, type |-> "midnight", owner |-> NONE]
           upd == [time |-> u, type |-> "map_update", owner |-> NONE]
<1>0. clock \in Nat /\ MaxClock \in Nat /\ Day \in Nat
  BY DayAssumption
<1>1. t \in Time /\ DayOf(clock) < DayOf(t) /\ u \in Time
  <2>1. ToMidnight(clock) \in 1 .. Day /\ DayOf(clock) < DayOf(t)
    BY <1>0, MidnightIsNextDay
  <2>2. t \in 0 .. MaxClock + 2 * Day /\ u \in 0 .. MaxClock + 2 * Day
    BY <1>0, <2>1, MinuteInDay
  <2> QED BY <2>1, <2>2, DayAssumption
<1>2. "midnight" \in Type /\ "map_update" \in Type
  BY DayAssumption
<1> HIDE DEF t, u
<1>3. m \in Seq(Event) /\ InOrder(m) /\ ToSet(m) = ToSet(q) \cup {new}
  BY <1>1, <1>2, Scheduled
<1> HIDE DEF m
<1>4. n \in Seq(Event) /\ InOrder(n) /\ ToSet(n) = ToSet(m) \cup {upd}
  <2>1. m \in Seq(Event) /\ InOrder(m) /\ u \in Time /\ "map_update" \in Type
    BY <1>1, <1>2, <1>3
  <2> HIDE DEF new
  <2> QED BY <2>1, Scheduled, Zenon
<1> HIDE DEF n
<1>5. GTimeQAdd(q, loaded) = IF loaded THEN n ELSE m
  BY DEF GTimeQAdd, n, m, t, u
<1>6. GTimeQAdd(q, loaded) = n \/ GTimeQAdd(q, loaded) = m
  BY <1>5
<1>7. new.type = "midnight" /\ new.time = t /\ upd.type # "midnight"
  OBVIOUS
<1> HIDE DEF new, upd
<1> QED BY <1>1, <1>3, <1>4, <1>6, <1>7

\* What a queue_process that begins, and one that ends, leave of the others.
LEMMA EnterIndex ==
  ASSUME NEW c \in Seq(Call), NEW t \in Int
  PROVE  /\ Enter(c, t) \in Seq(Call) /\ Len(Enter(c, t)) = Len(c) + 1 /\ Len(c) \in Nat
         /\ \A i \in 1 .. Len(c) : Enter(c, t)[i] = c[i]
         /\ Enter(c, t)[Len(c) + 1].pc = "loop"
<1> DEFINE e == [now |-> t, rc |-> 0, pc |-> "loop"]
<1>1. e \in Call /\ e.pc = "loop"
  BY DEF Call
<1>2. Enter(c, t) = Append(c, e)
  BY DEF Enter
<1> HIDE DEF e
<1> QED BY <1>1, <1>2

\* The calls that are left when the innermost one ends.
LEMMA LeaveIndex ==
  ASSUME NEW c \in Seq(Call), Len(c) # 0
  PROVE  /\ Len(c) \in Nat \ {0}
         /\ SubSeq(c, 1, Len(c) - 1) \in Seq(Call)
         /\ Len(SubSeq(c, 1, Len(c) - 1)) = Len(c) - 1
         /\ \A i \in 1 .. Len(c) - 1 : SubSeq(c, 1, Len(c) - 1)[i] = c[i]
<1> DEFINE n == Len(c) - 1
<1>1. n \in Nat /\ Len(c) = n + 1 /\ n - 1 + 1 = n /\ 1 \in Int /\ n \in Int
  OBVIOUS
<1>2. \A i \in 1 .. n : c[i] \in Call
  OBVIOUS
<1> HIDE DEF n
<1>3. /\ SubSeq(c, 1, n) \in Seq(Call)
      /\ Len(SubSeq(c, 1, n)) = IF 1 <= n THEN n - 1 + 1 ELSE 0
      /\ \A i \in 1 .. n - 1 + 1 : SubSeq(c, 1, n)[i] = c[1 + i - 1]
  BY <1>1, <1>2, SubSeqProperties
<1>4. ASSUME NEW i \in 1 .. n PROVE SubSeq(c, 1, n)[i] = c[i]
  <2>1. 1 + i - 1 = i
    OBVIOUS
  <2> QED BY <1>1, <1>3, <2>1
<1> QED BY <1>1, <1>3, <1>4 DEF n

\* No step but the two of midnight changes whether midnight is being handled.
QuietCalls ==
  \/ calls' = calls
  \/ /\ Idle \/ Top.pc \in {"other", "movie"}
     /\ \E t \in Int : calls' = Enter(calls, t)
  \/ Returning
  \/ /\ ~Idle /\ Top.pc \in {"loop", "other"}
     /\ \E f \in Call : f.pc \in {"loop", "other"} /\ SetTop(f)

\* Calls that only begin, end or go on in a quiet way leave the others waiting
\* where they were, and no more of them handling midnight.
LEMMA QuietCallsKeep ==
  ASSUME calls \in Seq(Call), OuterWait, QuietCalls
  PROVE  OuterWait' /\ (Handling(calls') <=> Handling(calls))
<1>0. Len(calls) \in Nat
  OBVIOUS
<1>1. CASE calls' = calls
  BY <1>1 DEF OuterWait, Handling
<1>2. CASE (Idle \/ Top.pc \in {"other", "movie"}) /\ \E t \in Int : calls' = Enter(calls, t)
  <2>1. /\ Len(calls') = Len(calls) + 1
        /\ \A i \in 1 .. Len(calls) : calls'[i] = calls[i]
        /\ calls'[Len(calls) + 1].pc = "loop"
    <3>1. PICK t \in Int : calls' = Enter(calls, t)
      BY <1>2
    <3>2. /\ Len(Enter(calls, t)) = Len(calls) + 1
          /\ \A i \in 1 .. Len(calls) : Enter(calls, t)[i] = calls[i]
          /\ Enter(calls, t)[Len(calls) + 1].pc = "loop"
      BY EnterIndex
    <3> QED BY <3>1, <3>2
  <2>2. ASSUME NEW i \in 1 .. Len(calls) PROVE calls'[i].pc \in {"other", "movie"}
    <3>1. calls'[i] = calls[i]
      BY <2>1
    <3>2. CASE i = Len(calls)
      <4>1. ~Idle
        BY <3>2 DEF Idle
      <4> QED BY <1>2, <3>1, <3>2, <4>1 DEF Top
    <3>3. CASE i # Len(calls)
      BY <1>0, <3>1, <3>3 DEF OuterWait
    <3> QED BY <3>2, <3>3
  <2>3. OuterWait'
    BY <1>0, <2>1, <2>2 DEF OuterWait
  <2>4. ASSUME NEW i \in 1 .. Len(calls'), calls'[i].pc \in {"midnight", "movie"}
        PROVE  Handling(calls)
    <3>1. i \in 1 .. Len(calls)
      BY <1>0, <2>1, <2>4
    <3> QED BY <2>1, <2>4, <3>1 DEF Handling
  <2>5. ASSUME NEW i \in 1 .. Len(calls), calls[i].pc \in {"midnight", "movie"}
        PROVE  Handling(calls')
    <3>1. i \in 1 .. Len(calls')
      BY <1>0, <2>1
    <3> QED BY <2>1, <2>5, <3>1 DEF Handling
  <2> QED BY <2>3, <2>4, <2>5 DEF Handling
<1>3. CASE Returning
  <2>0. Len(calls) # 0 /\ calls[Len(calls)].pc = "loop"
    BY <1>3 DEF Returning, Running, Idle, Top
  <2>1. /\ Len(calls') = Len(calls) - 1 /\ Len(calls) \in Nat \ {0}
        /\ \A i \in 1 .. Len(calls) - 1 : calls'[i] = calls[i]
    BY <1>3, <2>0, LeaveIndex DEF Returning
  <2>2. OuterWait'
    BY <2>1 DEF OuterWait
  <2>3. ASSUME NEW i \in 1 .. Len(calls'), calls'[i].pc \in {"midnight", "movie"}
        PROVE  Handling(calls)
    <3>1. i \in 1 .. Len(calls)
      BY <2>1
    <3> QED BY <2>1, <2>3, <3>1 DEF Handling
  <2>4. ASSUME NEW i \in 1 .. Len(calls), calls[i].pc \in {"midnight", "movie"}
        PROVE  Handling(calls')
    <3>1. i \in 1 .. Len(calls')
      BY <2>0, <2>1, <2>4
    <3> QED BY <2>1, <2>4, <3>1 DEF Handling
  <2> QED BY <2>2, <2>3, <2>4 DEF Handling
<1>4. CASE /\ ~Idle /\ Top.pc \in {"loop", "other"}
           /\ \E f \in Call : f.pc \in {"loop", "other"} /\ SetTop(f)
  <2>1. PICK f \in Call : f.pc \in {"loop", "other"} /\ SetTop(f)
    BY <1>4
  <2>2. Len(calls) # 0
    BY <1>4 DEF Idle
  <2>3. calls' = [calls EXCEPT ![Len(calls)] = f]
    BY <2>1 DEF SetTop
  <2>4. /\ Len(calls') = Len(calls) /\ calls'[Len(calls)] = f
        /\ \A i \in 1 .. Len(calls) - 1 : calls'[i] = calls[i]
    BY <2>2, <2>3
  <2>5. OuterWait'
    BY <1>0, <2>4 DEF OuterWait
  <2>6. \A i \in 1 .. Len(calls) : i = Len(calls) \/ i \in 1 .. Len(calls) - 1
    BY <1>0
  <2>7. Handling(calls') <=> Handling(calls)
    BY <1>4, <2>1, <2>4, <2>6 DEF Handling, Top
  <2> QED BY <2>5, <2>7
<1> QED BY <1>1, <1>2, <1>3, <1>4 DEF QuietCalls

\* A handler of midnight begins.
LEMMA HandlerBegins ==
  ASSUME calls \in Seq(Call), OuterWait, ~Idle, NEW f, SetTop(f)
  PROVE  /\ OuterWait'
         /\ f.pc \in {"midnight", "movie"} => Handling(calls')
<1>1. Len(calls) \in Nat \ {0}
  BY DEF Idle
<1>2. calls' = [calls EXCEPT ![Len(calls)] = f]
  BY DEF SetTop
<1>3. /\ Len(calls') = Len(calls) /\ calls'[Len(calls)] = f
      /\ \A i \in 1 .. Len(calls) - 1 : calls'[i] = calls[i]
  BY <1>1, <1>2
<1>4. OuterWait'
  BY <1>1, <1>3 DEF OuterWait
<1>5. Len(calls) \in 1 .. Len(calls')
  BY <1>1, <1>3
<1> QED BY <1>3, <1>4, <1>5 DEF Handling

\* The clock and the times it will be set to stay within MaxClock.
LEMMA BoundsKeep == ClockInBounds /\ Next => ClockInBounds'
<1> SUFFICES ASSUME ClockInBounds, Next PROVE ClockInBounds'
  OBVIOUS
<1> USE DEF ClockInBounds
<1>0. MaxClock \in Nat /\ Skips \subseteq Nat
  BY DayAssumption
<1>1. CASE EnterMap \/ LeaveMap
  <2>1. /\ clock' = clock
        /\ activity' = [kind |-> "play"] \/ activity' = [kind |-> "travel"]
    BY <1>1, Zenon DEF EnterMap, LeaveMap
  <2> QED BY <2>1
<1>2. ASSUME NEW inCombat \in BOOLEAN, Tick(inCombat) PROVE ClockInBounds'
  BY <1>0, <1>2 DEF Tick
<1>3. ASSUME NEW d \in Skips, SkipTime(d) \/ ScriptAdvance(d) PROVE ClockInBounds'
  BY <1>0, <1>3 DEF SkipTime, ScriptAdvance
<1>4. ASSUME NEW d \in Skips, TravelStep(d) PROVE ClockInBounds'
  <2>1. CASE clock + d >= NextTime
    BY <1>0, <1>4, <2>1 DEF TravelStep, Setting
  <2>2. CASE ~(clock + d >= NextTime)
    BY <1>0, <1>4, <2>2 DEF TravelStep, Setting
  <2> QED BY <2>1, <2>2
<1>5. ASSUME NEW d \in Skips, RestBegin(d) \/ RestNextPart(d) PROVE ClockInBounds'
  BY <1>0, <1>5 DEF RestBegin, RestNextPart, Setting
<1>6. ASSUME NEW v \in 1 .. MaxClock, RestStep(v) PROVE ClockInBounds'
  <2>1. CASE v >= NextTime
    BY <1>0, <1>6, <2>1 DEF RestStep, Setting
  <2>2. CASE ~(v >= NextTime)
    BY <1>0, <1>6, <2>2 DEF RestStep, Setting
  <2> QED BY <2>1, <2>2
<1>7. ASSUME NEW whole \in BOOLEAN, RestEnd(whole) PROVE ClockInBounds'
  BY <1>0, <1>7 DEF RestEnd, Setting
<1>8. CASE \E d \in Delays : QueueOther(d)
  BY <1>8 DEF QueueOther
<1>9. CASE Drain
  <2>1. CASE PopOther \/ PopMapUpdate \/ PopMidnight \/ PopMidnightInMovie \/ ReturnInner
    BY <2>1 DEF PopOther, PopMapUpdate, PopMidnight, PopMidnightInMovie, ReturnInner
  <2>2. CASE \E rc \in 0 .. 1 : HandlerDone(rc) \/ MidnightDone(rc)
    BY <2>2 DEF HandlerDone, MidnightDone
  <2>3. CASE ReturnTravel
    BY <1>0, <2>3 DEF ReturnTravel, Setting
  <2>4. CASE \E quit \in BOOLEAN : ReturnRest(quit)
    BY <1>0, <2>4 DEF ReturnRest, Setting
  <2> QED BY <1>9, <2>1, <2>2, <2>3, <2>4 DEF Drain, Return
<1> QED
  BY <1>1, <1>2, <1>3, <1>4, <1>5, <1>6, <1>7, <1>8, <1>9 DEF Next

DayParts == OuterWait /\ QueueInOrder /\ DaysBegun /\ NextDay /\ MidnightPending

\* A midnight is queued: by its place, and as a member of the queue.
LEMMA PlaceOfMidnight ==
  ASSUME NEW q \in Seq(Event)
  PROVE  (\E i \in 1 .. Len(q) : q[i].type = "midnight")
           <=> (\E e \in ToSet(q) : e.type = "midnight")
<1>1. DOMAIN q = 1 .. Len(q)
  OBVIOUS
<1> QED BY <1>1 DEF ToSet

\* The clock moves, the queue does not; a clock that goes back takes the days
\* it goes back over with it.
LEMMA QuietKeeps ==
  ASSUME DayInv, QuietCalls, queue' = queue, clock' \in Int,
         \/ clock <= clock' /\ midnights' = midnights
         \/ midnights' = Begun(clock'),
         activity.kind = "play" /\ ~mapLoaded => activity'.kind = "play" /\ ~mapLoaded'
  PROVE  DayParts'
<1>1. OuterWait' /\ (Handling(calls') <=> Handling(calls))
  BY QuietCallsKeep DEF DayInv, IInv, CallsBehindClock
<1>2. QueueInOrder'
  BY DEF DayInv, QueueInOrder
<1>3. midnights' \subseteq midnights /\ DaysBegun'
  <2>1. CASE clock <= clock' /\ midnights' = midnights
    <3>1. clock \in Int /\ midnights \subseteq Int
      BY DEF DayInv, IInv, CallsBehindClock, DaysBegun
    <3>2. DayOf(clock) <= DayOf(clock') /\ DayOf(clock) \in Int /\ DayOf(clock') \in Int
      BY <2>1, <3>1, DayMonotone
    <3>3. \A d \in midnights : d <= DayOf(clock)
      BY DEF DayInv, DaysBegun
    <3>4. \A d \in midnights : d <= DayOf(clock')
      BY <3>1, <3>2, <3>3
    <3> QED BY <2>1, <3>1, <3>4 DEF DaysBegun
  <2>2. CASE midnights' = Begun(clock')
    BY <2>2 DEF Begun, DaysBegun, DayInv
  <2> QED BY <2>1, <2>2
<1>4. NextDay'
  BY <1>1, <1>3 DEF DayInv, NextDay
<1>5. MidnightPending'
  BY <1>1 DEF DayInv, MidnightPending, Handling
<1> QED BY <1>1, <1>2, <1>3, <1>4, <1>5 DEF DayParts

\* The queue gains or loses an event, but no midnight.
LEMMA OthersKeep ==
  ASSUME DayInv, QuietCalls, UNCHANGED << clock, mapLoaded, activity, midnights >>,
         queue' \in Seq(Event), InOrder(queue'),
         \A e : e.type = "midnight" => (e \in ToSet(queue') <=> e \in ToSet(queue))
  PROVE  DayParts'
<1>1. OuterWait' /\ (Handling(calls') <=> Handling(calls))
  BY QuietCallsKeep DEF DayInv, IInv, CallsBehindClock
<1>2. QueueInOrder' /\ DaysBegun'
  BY DEF DayInv, QueueInOrder, DaysBegun
<1>3. NextDay'
  BY <1>1 DEF DayInv, NextDay
<1>4. MidnightPending'
  <2>1. queue \in Seq(Event) /\ MidnightPending
    BY DEF DayInv, QueueInOrder
  <2>2. (\E i \in 1 .. Len(queue) : queue[i].type = "midnight")
          => \E i \in 1 .. Len(queue') : queue'[i].type = "midnight"
    BY <2>1, PlaceOfMidnight
  <2> QED BY <1>1, <2>1, <2>2 DEF MidnightPending, Handling
<1> QED BY <1>1, <1>2, <1>3, <1>4 DEF DayParts

\* gtime_q_add: the next midnight is queued, beside those there were or, when
\* the handler of midnight ends, instead of them.
LEMMA MidnightKeeps ==
  ASSUME DayInv, OuterWait', UNCHANGED << clock, midnights >>,
         queue' \in Seq(Event), InOrder(queue'),
         \E e \in ToSet(queue') : e.type = "midnight",
         \A e \in ToSet(queue') : e.type = "midnight" =>
           \/ e \in ToSet(queue) /\ calls' = calls
           \/ DayOf(clock) < DayOf(e.time)
  PROVE  DayParts'
<1>1. QueueInOrder' /\ DaysBegun'
  BY DEF DayInv, QueueInOrder, DaysBegun
<1>2. NextDay'
  <2>1. SUFFICES ASSUME ~Handling(calls'), NEW e \in ToSet(queue'), e.type = "midnight",
                        NEW d \in midnights
                 PROVE  d < DayOf(e.time)
    BY DEF NextDay
  <2>2. CASE e \in ToSet(queue) /\ calls' = calls
    BY <2>1, <2>2 DEF DayInv, NextDay
  <2>3. CASE DayOf(clock) < DayOf(e.time)
    <3>1. d \in Int /\ d <= DayOf(clock) /\ clock \in Int
      BY DEF DayInv, DaysBegun, IInv, CallsBehindClock
    <3>2. DOMAIN queue' = 1 .. Len(queue') /\ \A i \in 1 .. Len(queue') : queue'[i] \in Event
      OBVIOUS
    <3>3. e.time \in Int
      BY <3>2, TimeAssumption DEF ToSet, Event
    <3>4. DayOf(clock) \in Int /\ DayOf(e.time) \in Int
      <4>1. \A t \in Int : t <= t /\ DayOf(t) \in Int
        BY DayMonotone
      <4> QED BY <3>1, <3>3, <4>1
    <3> QED BY <2>3, <3>1, <3>4
  <2> QED BY <2>1, <2>2, <2>3
<1>3. MidnightPending'
  <2>1. \E i \in 1 .. Len(queue') : queue'[i].type = "midnight"
    BY PlaceOfMidnight
  <2> QED BY <2>1 DEF MidnightPending
<1> QED BY <1>1, <1>2, <1>3 DEF DayParts

\* The player's steps that leave the queue alone.
LEMMA TimePassesKeeps ==
  ASSUME DayInv,
         \/ \E inCombat \in BOOLEAN : Tick(inCombat)
         \/ \E d \in Skips : SkipTime(d) \/ ScriptAdvance(d) \/ TravelStep(d)
                          \/ RestBegin(d) \/ RestNextPart(d)
         \/ \E v \in 1 .. MaxClock : RestStep(v)
         \/ \E whole \in BOOLEAN : RestEnd(whole),
         ClockInBounds'
  PROVE  DayParts'
<1>0. /\ clock \in Int /\ clock' \in Int /\ Skips \subseteq Nat
      /\ \A x \in Int : x + 1 \in Int
  BY DayAssumption DEF DayInv, ClockInBounds
<1>1. ASSUME NEW inCombat \in BOOLEAN, Tick(inCombat) PROVE DayParts'
  <2>1. QuietCalls
    BY <1>0, <1>1 DEF Tick, QuietCalls, Running
  <2>2. clock <= clock'
    BY <1>0, <1>1 DEF Tick
  <2> QED BY <1>0, <1>1, <2>1, <2>2, QuietKeeps DEF Tick
<1>2. ASSUME NEW d \in Skips, SkipTime(d) PROVE DayParts'
  <2>1. QuietCalls
    BY <1>2 DEF SkipTime, QuietCalls
  <2>2. clock <= clock'
    BY <1>0, <1>2 DEF SkipTime
  <2> QED BY <1>0, <1>2, <2>1, <2>2, QuietKeeps DEF SkipTime
<1>3. ASSUME NEW d \in Skips, ScriptAdvance(d) PROVE DayParts'
  <2>1. QuietCalls
    BY <1>0, <1>3 DEF ScriptAdvance, QuietCalls, Running
  <2>2. clock <= clock'
    BY <1>0, <1>3 DEF ScriptAdvance
  <2> QED BY <1>0, <1>3, <2>1, <2>2, QuietKeeps DEF ScriptAdvance
<1>4. ASSUME NEW d \in Skips, TravelStep(d) PROVE DayParts'
  <2>1. calls' = calls \/ calls' = Enter(calls, clock')
    BY <1>4 DEF TravelStep
  <2>2. QuietCalls
    BY <1>0, <1>4, <2>1 DEF TravelStep, QuietCalls
  <2>3. activity.kind # "play"
    BY <1>4 DEF TravelStep
  <2> QED BY <1>0, <1>4, <2>2, <2>3, QuietKeeps DEF TravelStep
<1>5. ASSUME NEW d \in Skips, RestBegin(d) PROVE DayParts'
  <2>1. QuietCalls
    BY <1>5 DEF RestBegin, QuietCalls
  <2>2. clock <= clock'
    BY <1>0, <1>5 DEF RestBegin
  <2> QED BY <1>0, <1>5, <2>1, <2>2, QuietKeeps DEF RestBegin
<1>6. ASSUME NEW d \in Skips, RestNextPart(d) PROVE DayParts'
  <2>1. QuietCalls
    BY <1>6 DEF RestNextPart, QuietCalls
  <2>2. activity.kind # "play"
    BY <1>6 DEF RestNextPart
  <2> QED BY <1>0, <1>6, <2>1, <2>2, QuietKeeps DEF RestNextPart
<1>7. ASSUME NEW v \in 1 .. MaxClock, RestStep(v) PROVE DayParts'
  <2>1. calls' = calls \/ calls' = Enter(calls, clock')
    BY <1>7 DEF RestStep
  <2>2. QuietCalls
    BY <1>0, <1>7, <2>1 DEF RestStep, QuietCalls
  <2>3. activity.kind # "play"
    BY <1>7 DEF RestStep
  <2> QED BY <1>0, <1>7, <2>2, <2>3, QuietKeeps DEF RestStep
<1>8. ASSUME NEW whole \in BOOLEAN, RestEnd(whole) PROVE DayParts'
  <2>1. calls' = calls \/ calls' = Enter(calls, clock')
    BY <1>8 DEF RestEnd
  <2>2. QuietCalls
    BY <1>0, <1>8, <2>1 DEF RestEnd, QuietCalls
  <2>3. activity.kind # "play"
    BY <1>8 DEF RestEnd
  <2> QED BY <1>0, <1>8, <2>2, <2>3, QuietKeeps DEF RestEnd
<1> QED BY <1>1, <1>2, <1>3, <1>4, <1>5, <1>6, <1>7, <1>8

\* Maps are entered and left, and events are queued.
LEMMA QueueingKeeps ==
  ASSUME DayInv,
         EnterMap \/ LeaveMap \/ \E d \in Delays : QueueOther(d)
  PROVE  DayParts'
<1>0. /\ queue \in Seq(Event) /\ InOrder(queue)
      /\ clock \in 1 .. MaxClock /\ OuterWait
  BY DEF DayInv, QueueInOrder, ClockInBounds
<1>1. CASE EnterMap
  <2>1. queue' = GTimeQAdd(queue, TRUE) /\ calls' = calls
    BY <1>1 DEF EnterMap
  <2>2. /\ queue' \in Seq(Event) /\ InOrder(queue')
        /\ \E e \in ToSet(queue') : e.type = "midnight"
        /\ \A e \in ToSet(queue') : e.type = "midnight" =>
             e \in ToSet(queue) \/ DayOf(clock) < DayOf(e.time)
    BY <1>0, <2>1, MidnightQueued
  <2>3. UNCHANGED << clock, midnights >> /\ OuterWait'
    BY <1>0, <1>1 DEF EnterMap, OuterWait
  <2> QED BY <2>1, <2>2, <2>3, MidnightKeeps
<1>2. CASE LeaveMap
  <2>1. PICK kept \in SUBSET {e \in ToSet(queue) : e.type = "other"} :
          queue' = GTimeQAdd(GTimeQAdd(Only(queue, kept), TRUE), FALSE)
    BY <1>2 DEF LeaveMap
  <2> DEFINE stay == Only(queue, kept)
             once == GTimeQAdd(stay, TRUE)
  <2>2. /\ stay \in Seq(Event) /\ InOrder(stay)
        /\ \A e \in ToSet(stay) : e.type # "midnight"
    <3>1. stay \in Seq(Event) /\ ToSet(stay) = ToSet(queue) \cap kept
      BY <1>0, OnlySet
    <3>2. InOrder(stay)
      BY <1>0, EventsAreTimed, OnlyKeepsOrder
    <3> QED BY <3>1, <3>2
  <2> HIDE DEF stay
  <2>3. /\ once \in Seq(Event) /\ InOrder(once)
        /\ \A e \in ToSet(once) : e.type = "midnight" => DayOf(clock) < DayOf(e.time)
    BY <1>0, <2>2, MidnightQueued
  <2> HIDE DEF once
  <2>4. queue' = GTimeQAdd(once, FALSE)
    BY <2>1 DEF once, stay
  <2>5. /\ queue' \in Seq(Event) /\ InOrder(queue')
        /\ \E e \in ToSet(queue') : e.type = "midnight"
        /\ \A e \in ToSet(queue') : e.type = "midnight" => DayOf(clock) < DayOf(e.time)
    BY <1>0, <2>3, <2>4, MidnightQueued
  <2>6. UNCHANGED << clock, midnights >> /\ OuterWait'
    BY <1>0, <1>2 DEF LeaveMap, OuterWait
  <2> QED BY <2>5, <2>6, MidnightKeeps
<1>3. ASSUME NEW d \in Delays, QueueOther(d) PROVE DayParts'
  <2>1. clock + d \in Time /\ "other" \in Type
    <3>1. 0 .. MaxClock + d \subseteq Time /\ clock + d \in 0 .. MaxClock + d
      BY <1>0, DayAssumption
    <3> QED BY <3>1, DayAssumption
  <2> DEFINE t == clock + d
  <2>2. queue' = Sched(queue, t, "other")
    BY <1>3 DEF QueueOther
  <2> HIDE DEF t
  <2>3. /\ queue' \in Seq(Event) /\ InOrder(queue')
        /\ ToSet(queue') = ToSet(queue) \cup {[time |-> t, type |-> "other", owner |-> NONE]}
    BY <1>0, <2>1, <2>2, Scheduled DEF t
  <2>4. QuietCalls /\ UNCHANGED << clock, mapLoaded, activity, midnights >>
    BY <1>3 DEF QueueOther, QuietCalls
  <2> QED BY <2>3, <2>4, OthersKeep
<1> QED BY <1>1, <1>2, <1>3

\* queue_process: an event other than midnight is taken out, a handler ends,
\* queue_process returns.
LEMMA DrainKeepsDays ==
  ASSUME DayInv, ClockInBounds',
         \/ PopOther \/ PopMapUpdate \/ Return
         \/ \E rc \in 0 .. 1 : HandlerDone(rc) \/ MidnightDone(rc)
  PROVE  DayParts'
<1>0. /\ queue \in Seq(Event) /\ InOrder(queue) /\ calls \in Seq(Call)
      /\ clock \in 1 .. MaxClock /\ OuterWait /\ clock \in Int /\ clock' \in Int
  BY DEF DayInv, QueueInOrder, ClockInBounds, IInv, CallsBehindClock
<1>1. ASSUME ~Idle PROVE Top \in Call
  BY <1>0, <1>1 DEF Idle, Top
<1>2. CASE PopOther
  <2> DEFINE f == [Top EXCEPT !.pc = "other"]
  <2>1. /\ ~Idle /\ Top.pc = "loop" /\ SetTop(f) /\ queue # << >>
        /\ queue' = Tail(queue) /\ queue[1].type = "other"
        /\ UNCHANGED << clock, mapLoaded, activity, midnights >>
    BY <1>2 DEF PopOther, Pop, Running, GoesOn
  <2>2. f \in Call /\ f.pc = "other"
    BY <1>1, <2>1 DEF Call
  <2> HIDE DEF f
  <2>3. QuietCalls
    BY <2>1, <2>2 DEF QuietCalls
  <2>4. /\ queue' \in Seq(Event) /\ ToSet(queue) = ToSet(queue') \cup {queue[1]}
        /\ InOrder(queue')
    BY <1>0, <2>1, TailSet, EventsAreTimed, TailKeepsOrder
  <2> QED BY <2>1, <2>3, <2>4, OthersKeep
<1>3. CASE PopMapUpdate
  <2>1. /\ queue # << >> /\ queue[1].type = "map_update" /\ calls' = calls
        /\ UNCHANGED << clock, mapLoaded, activity, midnights >>
    BY <1>3 DEF PopMapUpdate, GoesOn
  <2> DEFINE r == Tail(queue)
             q == Without(r, "map_update")
             t == clock + Minute
  <2>2. queue' = IF mapLoaded THEN Sched(q, t, "map_update") ELSE q
    BY <1>3 DEF PopMapUpdate
  <2>3. /\ r \in Seq(Event) /\ ToSet(queue) = ToSet(r) \cup {queue[1]}
        /\ InOrder(r)
    BY <1>0, <2>1, TailSet, EventsAreTimed, TailKeepsOrder
  <2> HIDE DEF r
  <2>4. q \in Seq(Event) /\ InOrder(q) /\ ToSet(q) = {e \in ToSet(r) : e.type # "map_update"}
    BY <2>3, Cleared
  <2>5. t \in Time /\ "map_update" \in Type
    <3>1. t \in 0 .. MaxClock + 2 * Day
      BY <1>0, MinuteInDay, DayAssumption
    <3> QED BY <3>1, DayAssumption
  <2> HIDE DEF q, t
  <2>6. /\ Sched(q, t, "map_update") \in Seq(Event) /\ InOrder(Sched(q, t, "map_update"))
        /\ ToSet(Sched(q, t, "map_update")) =
             ToSet(q) \cup {[time |-> t, type |-> "map_update", owner |-> NONE]}
    BY <2>4, <2>5, Scheduled
  <2>7. queue' \in Seq(Event) /\ InOrder(queue')
    BY <2>2, <2>4, <2>6
  <2>8. ASSUME NEW e, e.type = "midnight"
        PROVE  e \in ToSet(queue') <=> e \in ToSet(queue)
    <3>1. e \in ToSet(queue) <=> e \in ToSet(q)
      BY <2>1, <2>3, <2>4, <2>8
    <3>2. e # [time |-> t, type |-> "map_update", owner |-> NONE]
      BY <2>8
    <3> QED BY <2>2, <2>6, <3>1, <3>2
  <2>9. QuietCalls
    BY <2>1 DEF QuietCalls
  <2> QED BY <2>1, <2>7, <2>8, <2>9, OthersKeep
<1>4. ASSUME NEW rc \in 0 .. 1, HandlerDone(rc) PROVE DayParts'
  <2> DEFINE f == [Top EXCEPT !.pc = "loop", !.rc = rc]
  <2>1. /\ ~Idle /\ Top.pc = "other" /\ SetTop(f)
        /\ UNCHANGED << clock, queue, mapLoaded, activity, midnights >>
    BY <1>4 DEF HandlerDone, Running
  <2>2. f \in Call /\ f.pc = "loop"
    BY <1>1, <2>1 DEF Call
  <2> HIDE DEF f
  <2>3. QuietCalls
    BY <2>1, <2>2 DEF QuietCalls
  <2> QED BY <1>0, <2>1, <2>3, QuietKeeps
<1>5. ASSUME NEW rc \in 0 .. 1, MidnightDone(rc) PROVE DayParts'
  <2> DEFINE q == Without(queue, "midnight")
  <2>1. /\ ~Idle /\ SetTop([Top EXCEPT !.pc = "loop", !.rc = rc])
        /\ queue' = GTimeQAdd(q, mapLoaded) /\ UNCHANGED << clock, midnights >>
    BY <1>5 DEF MidnightDone, Running
  <2>2. q \in Seq(Event) /\ InOrder(q) /\ \A e \in ToSet(q) : e.type # "midnight"
    BY <1>0, Cleared
  <2> HIDE DEF q
  <2>3. /\ queue' \in Seq(Event) /\ InOrder(queue')
        /\ \E e \in ToSet(queue') : e.type = "midnight"
        /\ \A e \in ToSet(queue') : e.type = "midnight" => DayOf(clock) < DayOf(e.time)
    BY <1>0, <2>1, <2>2, MidnightQueued
  <2>4. OuterWait'
    BY <1>0, <2>1, HandlerBegins
  <2> QED BY <2>1, <2>3, <2>4, MidnightKeeps
<1>6. CASE ReturnInner
  <2>1. QuietCalls
    BY <1>6 DEF ReturnInner, QuietCalls
  <2> QED BY <1>0, <1>6, <2>1, QuietKeeps DEF ReturnInner
<1>7. CASE ReturnTravel
  <2>1. QuietCalls /\ activity.kind # "play"
    BY <1>7 DEF ReturnTravel, QuietCalls
  <2> QED BY <1>0, <1>7, <2>1, QuietKeeps DEF ReturnTravel
<1>8. ASSUME NEW quit \in BOOLEAN, ReturnRest(quit) PROVE DayParts'
  <2>1. QuietCalls /\ activity.kind # "play"
    BY <1>8 DEF ReturnRest, QuietCalls
  <2> QED BY <1>0, <1>8, <2>1, QuietKeeps DEF ReturnRest
<1> QED BY <1>2, <1>3, <1>4, <1>5, <1>6, <1>7, <1>8 DEF Return

\* A midnight is taken out: it is due, so its day has begun, and it is later
\* than every day counted so far.
LEMMA MidnightIsNew ==
  ASSUME DayInv, PopMidnight
  PROVE  DayOf(clock) \notin midnights
<1>1. /\ queue # << >> /\ queue[1].type = "midnight" /\ Running("loop")
      /\ GoesOn(Top) /\ ~MoviePlaying
  BY DEF PopMidnight, Pop, GoesOn
<1>2. queue \in Seq(Event) /\ calls \in Seq(Call) /\ OuterWait
  BY DEF DayInv, QueueInOrder, IInv, CallsBehindClock
<1>3. ~Handling(calls)
  <2>1. SUFFICES ASSUME NEW i \in 1 .. Len(calls) PROVE calls[i].pc \notin {"midnight", "movie"}
    BY DEF Handling
  <2>2. calls[i].pc # "movie"
    BY <1>1 DEF MoviePlaying
  <2>3. CASE i = Len(calls)
    BY <1>1, <2>3 DEF Running, Top
  <2>4. CASE i # Len(calls)
    <3>1. i \in 1 .. Len(calls) - 1
      BY <1>2, <2>4
    <3> QED BY <1>2, <2>2, <3>1 DEF OuterWait
  <2> QED BY <2>3, <2>4
<1>4. queue[1] \in Event /\ queue[1] \in ToSet(queue)
  BY <1>1, <1>2, TailSet
<1>5. \A d \in midnights : d < DayOf(queue[1].time)
  BY <1>1, <1>3, <1>4 DEF DayInv, NextDay
<1> DEFINE t == queue[1].time
<1>6. t \in Time /\ t \in Int
  BY <1>4, TimeAssumption DEF Event
<1>7. t <= clock
  BY <1>6, PoppingIsDue DEF DayInv, Popping
<1> HIDE DEF t
<1>8. DayOf(t) <= DayOf(clock) /\ DayOf(t) \in Int /\ DayOf(clock) \in Int
  BY <1>6, <1>7, DayMonotone DEF DayInv, IInv, CallsBehindClock
<1>9. ~(DayOf(clock) < DayOf(t))
  BY <1>8
<1> QED BY <1>5, <1>9 DEF t

\* Taking the midnight out of the queue counts its day, which had not been
\* counted, and leaves the handler to queue the next.
LEMMA MidnightBegins ==
  ASSUME DayInv, PopMidnight \/ PopMidnightInMovie
  PROVE  DayParts'
<1>0. /\ queue \in Seq(Event) /\ InOrder(queue) /\ calls \in Seq(Call)
      /\ clock \in Int /\ OuterWait /\ DaysBegun
  BY DEF DayInv, QueueInOrder, IInv, CallsBehindClock
<1>1. queue # << >> /\ queue' = Tail(queue) /\ clock' = clock /\ ~Idle
  BY DEF PopMidnight, PopMidnightInMovie, Pop, GoesOn, Running
<1>2. QueueInOrder'
  BY <1>0, <1>1, TailSet, EventsAreTimed, TailKeepsOrder DEF QueueInOrder
<1>3. CASE PopMidnight
  <2>1. PICK movie \in BOOLEAN :
          SetTop([Top EXCEPT !.pc = IF movie THEN "movie" ELSE "midnight"])
    BY <1>3 DEF PopMidnight
  <2> DEFINE f == [Top EXCEPT !.pc = IF movie THEN "movie" ELSE "midnight"]
  <2>2. Top \in Call
    BY <1>0, <1>1 DEF Idle, Top
  <2>3. f.pc \in {"midnight", "movie"}
    BY <2>2 DEF Call
  <2> HIDE DEF f
  <2>4. OuterWait' /\ Handling(calls')
    BY <1>0, <1>1, <2>1, <2>3, HandlerBegins DEF f
  <2>5. DaysBegun'
    <3>1. midnights' = midnights \cup {DayOf(clock)} /\ DayOf(clock) \in Int
      BY <1>0, <1>3, DayMonotone DEF PopMidnight
    <3>2. \A d \in midnights' : d \in Int /\ d <= DayOf(clock)
      BY <1>0, <3>1 DEF DaysBegun
    <3>3. DayOf(clock') = DayOf(clock)
      BY <1>1
    <3> QED BY <3>2, <3>3 DEF DaysBegun
  <2> QED BY <1>2, <2>4, <2>5 DEF DayParts, NextDay, MidnightPending, Handling
<1>4. CASE PopMidnightInMovie
  <2>1. calls' = calls /\ midnights' = midnights /\ MoviePlaying
    BY <1>4 DEF PopMidnightInMovie
  <2>2. Handling(calls)
    BY <2>1 DEF MoviePlaying, Handling
  <2>3. OuterWait' /\ DaysBegun'
    BY <1>0, <1>1, <2>1 DEF OuterWait, DaysBegun
  <2> QED BY <1>2, <2>1, <2>2, <2>3 DEF DayParts, NextDay, MidnightPending, Handling
<1> QED BY <1>3, <1>4

\* A new game has no day counted and its midnight queued.
LEMMA InitDayInv == Init => DayInv
<1> SUFFICES ASSUME Init PROVE DayInv
  OBVIOUS
<1>1. /\ calls = << >> /\ activity = [kind |-> "play"] /\ clock \in 1 .. Day
      /\ queue = << >> /\ mapLoaded = FALSE /\ midnights = {}
  BY DEF Init
<1>2. IInv
  BY InitIInv
<1>3. ClockInBounds
  BY <1>1, DayAssumption DEF ClockInBounds
<1>4. QueueInOrder /\ OuterWait /\ DaysBegun
  BY <1>1 DEF QueueInOrder, InOrder, OuterWait, DaysBegun
<1>5. NextDay /\ MidnightPending
  BY <1>1 DEF NextDay, MidnightPending
<1> QED BY <1>2, <1>3, <1>4, <1>5 DEF DayInv

\* DayInv is inductive.
LEMMA StepDayInv == DayInv /\ [Next]_vars => DayInv'
<1> SUFFICES ASSUME DayInv, [Next]_vars PROVE DayInv'
  OBVIOUS
<1>1. CASE Next
  <2>1. IInv' /\ ClockInBounds'
    BY <1>1, StepIInv, BoundsKeep DEF DayInv
  <2>2. DayParts'
    BY <1>1, <2>1, TimePassesKeeps, QueueingKeeps, DrainKeepsDays, MidnightBegins
       DEF Next, Drain
  <2> QED BY <2>1, <2>2 DEF DayInv, DayParts
<1>2. CASE UNCHANGED vars
  <2>1. IInv'
    BY <1>2, StepIInv DEF DayInv
  <2> QED
    BY <1>2, <2>1 DEF vars, DayInv, QueueInOrder, ClockInBounds, OuterWait,
                      DaysBegun, NextDay, MidnightPending
<1> QED BY <1>1, <1>2

(* Whatever the player does, a midnight is queued or being handled: EnterMap *)
(* and LeaveMap queue one and no other step than its handler takes it out.   *)
THEOREM MidnightStaysPending == Spec => []MidnightPending
<1>1. DayInv => MidnightPending
  BY DEF DayInv
<1> QED BY <1>1, InitDayInv, StepDayInv, PTL DEF Spec

(* No day's midnight is handled twice, for every number of maps entered and  *)
(* left and every way travel and rest set the clock back within a day.       *)
THEOREM MidnightOncePerDay == Spec => OncePerDay
<1>1. DayInv /\ [Next]_vars => [PopMidnight => DayOf(clock) \notin midnights]_vars
  BY MidnightIsNew
<1> QED BY <1>1, InitDayInv, StepDayInv, PTL DEF Spec, OncePerDay

(* A queue_process that returns 0 leaves nothing due in the queue, as the    *)
(* queue is in order however its handlers changed it.                        *)
THEOREM QueueDrainedOnReturn == Spec => DrainedOnReturn
<1>1. ASSUME DayInv, Return, Top.rc = 0, NEW i \in 1 .. Len(queue)
      PROVE  queue[i].time > Top.now
  <2>1. queue \in Seq(Event) /\ InOrder(queue) /\ calls \in Seq(Call)
    BY <1>1 DEF DayInv, QueueInOrder, IInv, CallsBehindClock
  <2>2. ~GoesOn(Top) /\ Running("loop")
    BY <1>1 DEF Return, ReturnInner, ReturnTravel, ReturnRest, Returning
  <2>3. Top.now \in Int
    <3>1. Top \in Call
      BY <2>1, <2>2 DEF Running, Idle, Top
    <3> QED BY <3>1 DEF Call
  <2>4. queue # << >> /\ 1 \in 1 .. Len(queue) /\ i \in 1 .. Len(queue)
    BY <2>1
  <2>5. queue[1].time \in Int /\ queue[i].time \in Int
    BY <2>1, <2>4, EventsAreTimed, TimesOf
  <2>6. queue[1].time > Top.now
    BY <1>1, <2>2, <2>3, <2>4, <2>5 DEF GoesOn
  <2>7. queue[1].time <= queue[i].time
    BY <2>1, <2>4, EventsAreTimed, OrderedPairs
  <2> QED BY <2>3, <2>5, <2>6, <2>7
<1>2. DayInv /\ [Next]_vars =>
        [Return /\ Top.rc = 0 => \A i \in 1 .. Len(queue) : queue[i].time > Top.now]_vars
  BY <1>1
<1> QED BY <1>2, InitDayInv, StepDayInv, PTL DEF Spec, DrainedOnReturn

=============================================================================
