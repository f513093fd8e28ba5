------------------------------- MODULE GameTime -------------------------------
(***************************************************************************)
(* The game clock and the event queue it drives: scripts.cc's clock and    *)
(* its two standing events (midnight, map update), the callers that move   *)
(* the clock and drain the queue (the background tick, world map travel,   *)
(* the pipboy's rest, a script's game_time_advance), and what leaving and  *)
(* entering a map do to the queue.                                         *)
(*                                                                         *)
(* queue_process may be re-entered from an event's handler, so the calls   *)
(* in progress are a stack. Clock and days are scaled down: a minute is    *)
(* Minute ticks, a day Day ticks.                                          *)
(***************************************************************************)
EXTENDS EventOrder, Lists, FiniteSets

CONSTANTS Minute, Day,
          Delays,         \* delays other events are queued with
          Skips,          \* amounts of time that pass at once
          MaxClock,       \* bound on the clock
          MaxQueue,       \* bound on the number of queued events
          MaxCalls,       \* bound on the nesting of queue_process
          NONE

ASSUME DayAssumption ==
  /\ Minute \in Nat \ {0} /\ Day \in Nat \ {0} /\ Day % Minute = 0
  /\ MaxClock \in Nat /\ Day <= MaxClock
  /\ Delays \subseteq Nat /\ Skips \subseteq Nat
  /\ Type = {"midnight", "map_update", "other"} /\ Owner = {NONE}
  /\ 0 .. MaxClock + 2 * Day \subseteq Time
  /\ \A d \in Delays : 0 .. MaxClock + d \subseteq Time

VARIABLES clock,       \* fallout_game_time
          queue,       \* the event queue, as EventList keeps it
          mapLoaded,   \* map_data.name is not empty
          calls,       \* queue_process calls in progress, outermost first
          activity,    \* who moves the clock, and what it does after draining
          midnights,   \* the days whose midnight was handled since they last began
          latest       \* the latest time of an event handled so far

vars == << clock, queue, mapLoaded, calls, activity, midnights, latest >>

Call == [now : Int, rc : 0 .. 1, pc : {"loop", "midnight", "movie", "other"}]
Activity ==
       [kind : {"play", "travel"}]
  \cup [kind : {"travel_drain"}, to : Time]
  \cup [kind : {"rest"}, at : Time, end : Time]
  \cup [kind : {"rest_drain"}, at : Time, end : Time]
  \cup [kind : {"rest_over"}]

TypeOK ==
  /\ clock \in 1 .. MaxClock
  /\ queue \in Seq(Event) /\ Len(queue) <= MaxQueue + 5
  /\ mapLoaded \in BOOLEAN
  /\ calls \in Seq(Call) /\ Len(calls) <= MaxCalls
  /\ activity \in Activity
  /\ midnights \subseteq Nat
  /\ latest \in Time

Top == calls[Len(calls)]
SetTop(c) == calls' = [calls EXCEPT ![Len(calls)] = c]
Idle == calls = << >>
Running(pc) == ~Idle /\ Top.pc = pc

-----------------------------------------------------------------------------
\* Mutant: an event is queued behind all others.
SchedLast(q, t, ty) == Append(q, [time |-> t, type |-> ty, owner |-> NONE])

\* queue_add, on the queue q
Sched(q, t, ty) ==
  InsertAt(q, CHOOSE p \in 1 .. Len(q) + 1 : StablePlace(q, t, p),
           [time |-> t, type |-> ty, owner |-> NONE])

\* queue_clear_type(ty, NULL)
Without(q, ty) == Only(q, {e \in ToSet(q) : e.type # ty})

\* queue_next_time
NextTime == IF queue = << >> THEN 0 ELSE queue[1].time

\* set_game_time
Setting(t) == IF t = 0 THEN 1 ELSE t

DayOf(t) == t \div Day

\* The days that have begun and not been left by setting the clock back.
Begun(t) == {d \in midnights : d <= DayOf(t)}

(* The delay of gtime_q_add: what is left of the day, counted from the     *)
(* start of the current minute.                                            *)
ToMidnight(t) == Day - Minute * ((t % Day) \div Minute)

\* Mutant: without a map the next midnight is not queued.
GTimeQAddOnMap(q, loaded) ==
  IF loaded
  THEN Sched(Sched(q, clock + ToMidnight(clock), "midnight"),
             clock + Minute, "map_update")
  ELSE q

\* gtime_q_add
GTimeQAdd(q, loaded) ==
  LET m == Sched(q, clock + ToMidnight(clock), "midnight")
  IN  IF loaded THEN Sched(m, clock + Minute, "map_update") ELSE m

\* queue_process is called: it reads the clock once.
Enter(c, now) == Append(c, [now |-> now, rc |-> 0, pc |-> "loop"])

Init ==
  /\ clock \in 1 .. Day
  /\ queue = << >>
  /\ mapLoaded = FALSE
  /\ calls = << >>
  /\ activity = [kind |-> "play"]
  /\ midnights = {}
  /\ latest = 0

-----------------------------------------------------------------------------
(* map_load_file queues both standing events; whatever map was loaded is   *)
(* gone by then, and with it the events of its scripts.                    *)
EnterMap ==
  /\ Idle /\ ~mapLoaded /\ activity.kind \in {"play", "travel"}
  /\ mapLoaded' = TRUE
  /\ queue' = GTimeQAdd(queue, TRUE)
  /\ activity' = [kind |-> "play"]
  /\ UNCHANGED << clock, calls, midnights, latest >>

(* map_save_in_game(true): queue_leaving_map drops the standing events and *)
(* those of the others that end with the map, the standing events are      *)
(* queued while the map is still named, then again when it no longer is.   *)
LeaveMap ==
  /\ Idle /\ mapLoaded /\ activity.kind = "play"
  /\ \E kept \in SUBSET {e \in ToSet(queue) : e.type = "other"} :
       LET stay == Only(queue, kept)
       IN  queue' = GTimeQAdd(GTimeQAdd(stay, TRUE), FALSE)
  /\ mapLoaded' = FALSE
  /\ activity' = [kind |-> "travel"]
  /\ UNCHANGED << clock, calls, midnights, latest >>

-----------------------------------------------------------------------------
(* script_chk_timed_events: one more tick (none in combat) and the queue.  *)
(* The game is being played, or the midnight movie is running over it.     *)
Tick(inCombat) ==
  /\ activity.kind = "play" /\ mapLoaded
  /\ Idle \/ Running("movie")
  /\ Len(calls) < MaxCalls
  /\ LET t == IF inCombat THEN clock ELSE clock + 1
     IN  /\ t <= MaxClock
         /\ clock' = t
         /\ calls' = Enter(calls, t)
  /\ UNCHANGED << queue, mapLoaded, activity, midnights, latest >>

\* Time passes with no look at the queue: a combat round, a skill, a book.
SkipTime(d) ==
  /\ Idle /\ activity.kind = "play" /\ clock + d <= MaxClock
  /\ clock' = clock + d
  /\ UNCHANGED << queue, mapLoaded, calls, activity, midnights, latest >>

(* One turn of op_game_time_advance's loop (a day) or its last step (the   *)
(* rest of the amount): the clock moves and the queue is drained.          *)
ScriptAdvance(d) ==
  /\ Running("other") \/ (Idle /\ activity.kind = "play")
  /\ Len(calls) < MaxCalls
  /\ clock + d <= MaxClock
  /\ clock' = clock + d
  /\ calls' = Enter(calls, clock + d)
  /\ UNCHANGED << queue, mapLoaded, activity, midnights, latest >>

\* Anything that queues an event: drugs, poison, timers, explosives.
QueueOther(d) ==
  /\ (Idle /\ activity.kind = "play") \/ Running("other")
  /\ Len(queue) < MaxQueue
  /\ queue' = Sched(queue, clock + d, "other")
  /\ UNCHANGED << clock, mapLoaded, calls, activity, midnights, latest >>

-----------------------------------------------------------------------------
(* A step of world map travel. When an event comes due before the step's   *)
(* end the clock is set just after that event, the queue is drained and    *)
(* only then the clock moves on; an event that asks for it ends the trip.  *)
TravelStep(d) ==
  /\ Idle /\ activity.kind = "travel" /\ clock + d <= MaxClock
  /\ IF clock + d >= NextTime
     THEN /\ NextTime + 1 \in 1 .. MaxClock
          /\ clock' = Setting(NextTime + 1)
          /\ calls' = Enter(calls, Setting(NextTime + 1))
          /\ activity' = [kind |-> "travel_drain", to |-> clock + d]
     ELSE /\ clock' = Setting(clock + d)
          /\ UNCHANGED << calls, activity >>
  /\ midnights' = Begun(clock')
  /\ UNCHANGED << queue, mapLoaded, latest >>

\* The pipboy's TimedRest: the end is fixed when the rest begins.
RestBegin(d) ==
  /\ Idle /\ activity.kind = "play" /\ mapLoaded /\ clock + d <= MaxClock
  /\ activity' = [kind |-> "rest", at |-> clock, end |-> clock + d]
  /\ UNCHANGED << clock, queue, mapLoaded, calls, midnights, latest >>

(* One turn of its loop. The time to show never goes back from turn to     *)
(* turn; the clock itself is set to the next event when one is due.        *)
RestStep(v) ==
  /\ Idle /\ activity.kind = "rest" /\ v \in activity.at .. activity.end - 1
  /\ IF v >= NextTime
     THEN /\ NextTime + 1 \in 1 .. MaxClock
          /\ clock' = Setting(NextTime + 1)
          /\ calls' = Enter(calls, Setting(NextTime + 1))
          /\ activity' = [kind |-> "rest_drain", at |-> v, end |-> activity.end]
     ELSE /\ clock' = Setting(v)
          /\ activity' = [kind |-> "rest", at |-> v, end |-> activity.end]
          /\ UNCHANGED calls
  /\ midnights' = Begun(clock')
  /\ UNCHANGED << queue, mapLoaded, latest >>

\* The minutes are rested, the hours follow: TimedRest has one loop for each.
RestNextPart(d) ==
  /\ Idle /\ activity.kind = "rest" /\ activity.end + d <= MaxClock
  /\ clock' = Setting(activity.end)
  /\ activity' = [kind |-> "rest", at |-> clock', end |-> clock' + d]
  /\ midnights' = Begun(clock')
  /\ UNCHANGED << queue, mapLoaded, calls, latest >>

(* The loop is over, or was left: by the player, by an event that asked to *)
(* stop or by the end of the game. Then TimedRest looks at the queue once  *)
(* more.                                                                   *)
RestEnd(whole) ==
  /\ Idle /\ activity.kind \in {"rest", "rest_over"}
  /\ whole => activity.kind = "rest"
  /\ clock' = IF whole THEN Setting(activity.end) ELSE clock
  /\ calls' = IF clock' > NextTime THEN Enter(calls, clock') ELSE calls
  /\ activity' = [kind |-> "play"]
  /\ midnights' = Begun(clock')
  /\ UNCHANGED << queue, mapLoaded, latest >>

-----------------------------------------------------------------------------
\* Mutant: an event is taken for due one tick before it is.
GoesOnEarly(c) == queue # << >> /\ queue[1].time <= c.now + 1 /\ c.rc = 0

\* Mutant: an event due right now is left for later.
GoesOnLate(c) == queue # << >> /\ queue[1].time < c.now /\ c.rc = 0

\* queue_process goes on: the head is due and no handler asked to stop.
GoesOn(c) == queue # << >> /\ queue[1].time <= c.now /\ c.rc = 0

Later(t) == IF t > latest THEN t ELSE latest

Pop ==
  /\ Running("loop") /\ GoesOn(Top)
  /\ queue' = Tail(queue)
  /\ latest' = Later(queue[1].time)

\* Any event but the standing ones: its handler runs until HandlerDone.
PopOther ==
  /\ Pop /\ queue[1].type = "other"
  /\ SetTop([Top EXCEPT !.pc = "other"])
  /\ UNCHANGED << clock, mapLoaded, activity, midnights >>

HandlerDone(rc) ==
  /\ Running("other")
  /\ SetTop([Top EXCEPT !.pc = "loop", !.rc = rc])
  /\ UNCHANGED << clock, queue, mapLoaded, activity, midnights, latest >>

\* scr_map_q_process
PopMapUpdate ==
  /\ Running("loop") /\ GoesOn(Top) /\ queue[1].type = "map_update"
  /\ latest' = Later(queue[1].time)
  /\ LET q == Without(Tail(queue), "map_update")
     IN  queue' = IF mapLoaded THEN Sched(q, clock + Minute, "map_update") ELSE q
  /\ UNCHANGED << clock, mapLoaded, calls, activity, midnights >>

\* gtime_q_process starts: a day is counted (the vault's water goes down).
MoviePlaying == \E i \in 1 .. Len(calls) : calls[i].pc = "movie"

PopMidnight ==
  /\ Pop /\ queue[1].type = "midnight" /\ ~MoviePlaying
  /\ \E movie \in BOOLEAN :
       SetTop([Top EXCEPT !.pc = IF movie THEN "movie" ELSE "midnight"])
  /\ midnights' = midnights \cup {DayOf(clock)}
  /\ UNCHANGED << clock, mapLoaded, activity >>

\* Midnight strikes while its movie is playing: the event is used up.
PopMidnightInMovie ==
  /\ Pop /\ queue[1].type = "midnight" /\ MoviePlaying
  /\ UNCHANGED << clock, mapLoaded, calls, activity, midnights >>

\* Mutant: the midnights queued by leaving and entering maps are not dropped.
MidnightDoneKeeps(rc) ==
  /\ Running("midnight") \/ Running("movie")
  /\ rc = 1 => Running("movie")
  /\ queue' = GTimeQAdd(queue, mapLoaded)
  /\ SetTop([Top EXCEPT !.pc = "loop", !.rc = rc])
  /\ UNCHANGED << clock, mapLoaded, activity, midnights, latest >>

\* gtime_q_process ends: other midnights are dropped and the next one queued.
MidnightDone(rc) ==
  /\ Running("midnight") \/ Running("movie")
  /\ rc = 1 => Running("movie")
  /\ queue' = GTimeQAdd(Without(queue, "midnight"), mapLoaded)
  /\ SetTop([Top EXCEPT !.pc = "loop", !.rc = rc])
  /\ UNCHANGED << clock, mapLoaded, activity, midnights, latest >>

(* queue_process returns. It returns to a handler, or to a caller with no  *)
(* more to do than go on: the background tick, a script, the end of a rest. *)
Returning ==
  /\ Running("loop") /\ ~GoesOn(Top)
  /\ calls' = SubSeq(calls, 1, Len(calls) - 1)

ReturnInner ==
  /\ Returning
  /\ Len(calls) > 1 \/ activity.kind \in {"play", "travel"}
  /\ UNCHANGED << clock, queue, mapLoaded, activity, midnights, latest >>

\* The traveller moves on, or stops where the event happened.
ReturnTravel ==
  /\ Returning /\ Len(calls) = 1 /\ activity.kind = "travel_drain"
  /\ clock' = IF Top.rc = 0 THEN Setting(activity.to) ELSE clock
  /\ activity' = [kind |-> "travel"]
  /\ midnights' = Begun(clock')
  /\ UNCHANGED << queue, mapLoaded, latest >>

\* So does the one who rests, who also stops when the game is to end (quit).
ReturnRest(quit) ==
  /\ Returning /\ Len(calls) = 1 /\ activity.kind = "rest_drain"
  /\ IF Top.rc = 0 /\ ~quit
     THEN /\ clock' = Setting(activity.at)
          /\ activity' = [kind |-> "rest", at |-> activity.at, end |-> activity.end]
     ELSE clock' = clock /\ activity' = [kind |-> "rest_over"]
  /\ midnights' = Begun(clock')
  /\ UNCHANGED << queue, mapLoaded, latest >>

Return == ReturnInner \/ ReturnTravel \/ \E quit \in BOOLEAN : ReturnRest(quit)

Drain ==
  \/ PopOther \/ PopMapUpdate \/ PopMidnight \/ PopMidnightInMovie \/ Return
  \/ \E rc \in 0 .. 1 : HandlerDone(rc) \/ MidnightDone(rc)

Next ==
  \/ EnterMap \/ LeaveMap
  \/ \E inCombat \in BOOLEAN : Tick(inCombat)
  \/ \E d \in Skips : SkipTime(d) \/ ScriptAdvance(d) \/ TravelStep(d)
                   \/ RestBegin(d) \/ RestNextPart(d)
  \/ \E v \in 1 .. MaxClock : RestStep(v)
  \/ \E whole \in BOOLEAN : RestEnd(whole)
  \/ \E d \in Delays : QueueOther(d)
  \/ Drain

Spec == Init /\ [][Next]_vars

-----------------------------------------------------------------------------
\* A step that takes an event out of the queue to handle it.
Popping == PopOther \/ PopMapUpdate \/ PopMidnight \/ PopMidnightInMovie

\* Whatever the player does, the next midnight is queued (or being handled,
\* and then its handler will queue it): days never stop being counted, and
\* queue_next_time never answers the 0 of an empty queue to a traveller.
MidnightPending ==
  \/ \E i \in 1 .. Len(queue) : queue[i].type = "midnight"
  \/ \E i \in 1 .. Len(calls) : calls[i].pc \in {"midnight", "movie"}
  \/ activity.kind = "play" /\ ~mapLoaded

\* Leaving and entering maps queues midnight again and again, and travel and
\* rest set the clock back to look at events, yet no day's midnight is handled
\* twice (the vault's water goes down once a day) unless the clock was set
\* back to the day before in between.
OncePerDay == [][PopMidnight => DayOf(clock) \notin midnights]_vars

\* No handler runs before its event's time, even when the clock is set back.
NeverEarly ==
  [][Popping => \A t \in Time : queue[1].time = t => t <= clock]_vars

\* A step handles no event that should have come before one handled already.
HandledInOrder == Popping => queue[1].time + 1 >= latest

\* When queue_process returns 0, nothing that was due when it was called is
\* left anywhere in the queue, although its handlers call it again and queue
\* events for the times they see.
DrainedOnReturn ==
  [][Return /\ Top.rc = 0 =>
       \A i \in 1 .. Len(queue) : queue[i].time > Top.now]_vars
=============================================================================
