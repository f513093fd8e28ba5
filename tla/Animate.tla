------------------------------- MODULE Animate -------------------------------
(***************************************************************************)
(* The animation sequences of game/anim.cc: slots into which the game      *)
(* registers lists of descriptions, the table of animations being played   *)
(* (sad) that a background process advances, and the ends of sequences.    *)
(*                                                                         *)
(* The functions call each other and the game calls back into them from    *)
(* callbacks, from scripts and from loops that wait for a fight's          *)
(* animations (combat_turn_run) and so run the background process inside   *)
(* itself. Each call in progress is a frame of `stack` with its locals,    *)
(* `rc` is what the last one returned, and a step of a loop is an action.  *)
(*                                                                         *)
(* Every object is a critter, so none is erased by a sequence; the third   *)
(* kind of callback, that has one more argument, is left out. How long an  *)
(* animation plays is a number of ticks; pictures, places and sounds are   *)
(* left out.                                                               *)
(***************************************************************************)
EXTENDS Integers, FiniteSets, SequencesExt

CONSTANTS Object,
          Slots,       \* ANIMATION_SEQUENCE_LIST_CAPACITY
          Unreserved,  \* slots that unreserved sequences may fill (13)
          SadMax,      \* ANIMATION_SAD_LIST_CAPACITY
          Ticks,       \* ticks an animation may play
          Commands,    \* what a player or the main loop does: sequences of operations
          CodeOf,      \* what each kind of callback does: sets of such sequences
          Standups,    \* what combat_anim_finished does last
          MaxCommands, \* bound on the commands
          CallDepth    \* bound on the frames below which game code does something

ASSUME AnimateAssumption ==
  /\ IsFiniteSet(Object) /\ IsFiniteSet(Ticks) /\ Ticks \subseteq Nat
  /\ Slots \in Nat /\ Unreserved \in Nat /\ SadMax \in Nat /\ MaxCommands \in Nat /\ CallDepth \in Nat

VARIABLES anim_set,   \* slot -> its sequence
          sad,        \* the table, those beyond curr_sad too
          curr_sad,
          curr_anim_set, \* the slot that is registered into, or 0
          anim_in_bk, anim_in_anim_stop,
          inCombat,
          combat_turn_running, combat_cleanup_enabled,
          stack, rc,
          commands,   \* how many there have been
          lost,       \* history: "slot" was taken while a call in progress was about its old sequence,
                      \* a "step" was finished by an animation that was ended within it
          spoiled     \* history: an animation already done was advanced

vars == << anim_set, sad, curr_sad, curr_anim_set, anim_in_bk, anim_in_anim_stop, inCombat,
           combat_turn_running, combat_cleanup_enabled, stack, rc, commands, lost, spoiled >>
flow == << anim_in_bk, anim_in_anim_stop, inCombat, combat_cleanup_enabled, commands, spoiled >>

Slot == 1 .. Slots

\* field_0 of a free slot, and field_20 of an animation that is done or not begun.
Free == -1000
Done == -1000
Fresh == -2000
Stale == Done + 1

NoSad == [obj |-> CHOOSE o \in Object : TRUE, seq |-> 1, kind |-> "move", left |-> 0, field_20 |-> Done]

Init ==
  /\ anim_set = [s \in Slot |-> [field_0 |-> Free, animationIndex |-> -1, flags |-> {}, animations |-> << >>]]
  /\ sad = [i \in 1 .. SadMax |-> NoSad] /\ curr_sad = 0 /\ curr_anim_set = 0
  /\ anim_in_bk = FALSE /\ anim_in_anim_stop = FALSE
  /\ inCombat \in BOOLEAN /\ combat_turn_running = 0 /\ combat_cleanup_enabled = FALSE
  /\ stack = << >> /\ rc = 0 /\ commands = 0 /\ lost = {} /\ spoiled = FALSE

Active(s) == anim_set[s].field_0 # Free
Length(s) == Len(anim_set[s].animations)
IsCall(d) == d.kind = "call"
MustRun(d) == IsCall(d) /\ d.forced

-----------------------------------------------------------------------------
(* Frames. *)

Top == stack[Len(stack)]
Below == SubSeq(stack, 1, Len(stack) - 1)
At(k, phase) == stack # << >> /\ Top.k = k /\ Top.at = phase
Then(f) == Append(Below, f)
Phase(at) == Then([Top EXCEPT !.at = at])

Code(todo) == IF todo = << >> THEN << >> ELSE << [k |-> "code", at |-> "run", todo |-> todo] >>
Check(s) == [k |-> "check", at |-> "loop", s |-> s]
End(s) == [k |-> "end", at |-> "begin", s |-> s, i |-> 1]
Loop(i) == [k |-> "bk", at |-> "next", i |-> i]

\* What game code may be in a place: below CallDepth frames it does something.
Codes(S) == IF Len(stack) < CallDepth THEN S ELSE {<< >>}

\* A frame holds the slot, and will go on with it.
About(f, s) == f.k \in {"check", "end"} /\ f.s = s

-----------------------------------------------------------------------------
(* Registering. Operations of game code; most callers ignore what they return. *)

Doing(op) == At("code", "run") /\ Top.todo # << >> /\ Head(Top.todo).op = op
Did == [Top EXCEPT !.todo = Tail(@)]
GivesUp == [Top EXCEPT !.todo = << >>]

\* anim_free_slot, 0 for none
FreeSlot(reserved, unpinged) ==
  LET used == {s \in Slot : Active(s) \/ anim_set[s].flags \cap {"accumulating", "0x20"} # {}}
      free == {s \in Slot \ used : ~(unpinged /\ "0x10" \in anim_set[s].flags)}
      crowd == Cardinality({s \in used : "reserved" \notin anim_set[s].flags})
  IN IF free # {} /\ (reserved \/ crowd < Unreserved)
     THEN CHOOSE s \in free : \A t \in free : s <= t ELSE 0

\* register_begin and register_priority: flags are added to those the slot has.
RegisterBegin ==
  /\ Doing("begin")
  /\ LET options == Head(Top.todo).options
         s == IF curr_anim_set # 0 \/ anim_in_anim_stop THEN 0 ELSE FreeSlot("reserved" \in options, FALSE)
         s0 == IF s = 0 THEN curr_anim_set ELSE s
         added == IF s = 0 THEN options \cap {"priority"} ELSE options \cup {"accumulating"}
     IN /\ anim_set' = [t \in Slot |->
             IF t = s0 THEN [anim_set[t] EXCEPT !.flags = @ \cup added,
                                                !.animations = IF s = 0 THEN @ ELSE << >>]
             ELSE anim_set[t]]
        /\ curr_anim_set' = s0
  /\ stack' = Then(Did)
  /\ UNCHANGED << sad, curr_sad, combat_turn_running, rc, lost, flow >>

\* register_object_...: check_registry looks for the object in other sequences first.
RegisterAdd ==
  /\ Doing("add")
  /\ LET d == Head(Top.todo).d
     IN IF curr_anim_set = 0 THEN stack' = Then(Did) /\ UNCHANGED anim_set
        ELSE IF IsCall(d)
        THEN stack' = Then(Did) /\ anim_set' = [anim_set EXCEPT ![curr_anim_set].animations = Append(@, d)]
        ELSE stack' = Then(Did) \o << [k |-> "registry", at |-> "next", d |-> d, s |-> 1] >>
             /\ UNCHANGED anim_set
  /\ UNCHANGED << sad, curr_sad, curr_anim_set, combat_turn_running, rc, lost, flow >>

Mentions(s, o) == Cardinality({i \in DOMAIN anim_set[s].animations :
                     LET d == anim_set[s].animations[i] IN ~IsCall(d) /\ d.owner = o})

\* check_registry: the object may play in one sequence. Another one is ended if it is insignificant,
\* and the loop stays within its descriptions: a second one of the object's is refused.
Registry ==
  /\ At("registry", "next")
  /\ LET o == Top.d.owner
         its == {s \in Top.s .. Slots : s # curr_anim_set /\ Active(s) /\ Mentions(s, o) > 0}
         s == CHOOSE t \in its : \A u \in its : t <= u
     IN IF its = {} THEN stack' = Phase("add")
        ELSE IF "insignificant" \notin anim_set[s].flags THEN stack' = Phase("refused")
        ELSE stack' = Then([Top EXCEPT !.s = s + 1, !.at = IF Mentions(s, o) > 1 THEN "refused" ELSE "next"])
                        \o << End(s) >>
  /\ UNCHANGED << anim_set, sad, curr_sad, curr_anim_set, combat_turn_running, rc, lost, flow >>

\* anim_cleanup: what was registered is dropped. The slot keeps the other flags.
RegistryRefuses ==
  /\ At("registry", "refused")
  /\ anim_set' = IF curr_anim_set = 0 THEN anim_set
                 ELSE [s \in Slot |-> [anim_set[s] EXCEPT !.flags = @ \ {"accumulating", "0x10"},
                                          !.animations = IF s = curr_anim_set THEN << >> ELSE @]]
  /\ curr_anim_set' = 0 /\ stack' = Below
  /\ UNCHANGED << sad, curr_sad, combat_turn_running, rc, lost, flow >>

RegistryAdds ==
  /\ At("registry", "add")
  /\ anim_set' = IF curr_anim_set = 0 THEN anim_set
                 ELSE [anim_set EXCEPT ![curr_anim_set].animations = Append(@, Top.d)]
  /\ stack' = Below
  /\ UNCHANGED << sad, curr_sad, curr_anim_set, combat_turn_running, rc, lost, flow >>

\* register_ping: the next sequence to begin in the slot waits for this one.
RegisterPing ==
  /\ Doing("ping")
  /\ LET s == IF curr_anim_set = 0 THEN 0 ELSE FreeSlot(TRUE, TRUE)
     IN anim_set' = IF s = 0 THEN anim_set
                    ELSE [anim_set EXCEPT ![s].flags = {"0x10"},
                            ![curr_anim_set].animations = Append(@, [Head(Top.todo).d EXCEPT !.slot = s])]
  /\ stack' = Then(Did)
  /\ UNCHANGED << sad, curr_sad, curr_anim_set, combat_turn_running, rc, lost, flow >>

\* register_end, which begins to play. Some callers give up when it fails.
RegisterEnd ==
  /\ Doing("end")
  /\ LET s == curr_anim_set
         q == anim_set[s]
         list == q.animations
         waits == "0x10" \in q.flags
     IN IF s = 0
        THEN /\ stack' = Then(IF Head(Top.todo).must THEN GivesUp ELSE Did)
             /\ UNCHANGED << anim_set, combat_turn_running, lost >>
        ELSE /\ anim_set' = [anim_set EXCEPT ![s] =
                  [field_0 |-> 0, animationIndex |-> IF waits THEN -1 ELSE 0,
                   flags |-> (q.flags \cup (IF inCombat THEN {"combat"} ELSE {})) \ {"accumulating"},
                   animations |-> IF list = << >> THEN list ELSE [list EXCEPT ![1].delay = 0]]]
             /\ combat_turn_running' = combat_turn_running + (IF inCombat THEN 1 ELSE 0)
             /\ stack' = Then(Did) \o (CASE waits -> << >>
                                         [] ~waits /\ list = << >> -> << End(s) >>
                                         [] OTHER -> << Check(s) >>)
             /\ lost' = lost \cup (IF \E i \in DOMAIN stack : About(stack[i], s) THEN {"slot"} ELSE {})
  /\ curr_anim_set' = 0
  /\ UNCHANGED << sad, curr_sad, rc, flow >>

\* register_clear: the first sequence of the object's is ended, unless it has priority.
Clear ==
  /\ Doing("clear")
  /\ LET its == {s \in Slot : Active(s) /\ Mentions(s, Head(Top.todo).obj) > 0}
         s == CHOOSE t \in its : \A u \in its : t <= u
         stays == its # {} /\ "priority" \in anim_set[s].flags
     IN stack' = IF its # {} /\ ~stays THEN Then(Did) \o << End(s) >>
                 ELSE Then(IF stays /\ Head(Top.todo).must THEN GivesUp ELSE Did)
  /\ UNCHANGED << anim_set, sad, curr_sad, curr_anim_set, combat_turn_running, rc, lost, flow >>

\* anim_stop
Stop ==
  /\ Doing("stop")
  /\ stack' = Then(Did) \o << [k |-> "stop", at |-> "next", i |-> 1] >>
  /\ anim_in_anim_stop' = TRUE /\ curr_anim_set' = 0
  /\ UNCHANGED << anim_set, sad, curr_sad, anim_in_bk, inCombat, combat_turn_running,
                  combat_cleanup_enabled, rc, commands, lost, spoiled >>

\* combat_attack: what comes after the fight's animations is due.
Attack ==
  /\ Doing("attack")
  /\ stack' = Then(Did) /\ combat_cleanup_enabled' = TRUE
  /\ UNCHANGED << anim_set, sad, curr_sad, curr_anim_set, anim_in_bk, anim_in_anim_stop, inCombat,
                  combat_turn_running, rc, commands, lost, spoiled >>

\* combat_begin stops all animations first, combat_over comes when they have been waited for.
Combat ==
  /\ Doing("combat")
  /\ stack' = Then(Did) /\ inCombat' = Head(Top.todo).on
  /\ UNCHANGED << anim_set, sad, curr_sad, curr_anim_set, anim_in_bk, anim_in_anim_stop,
                  combat_turn_running, combat_cleanup_enabled, rc, commands, lost, spoiled >>

\* combat_turn_run
Wait ==
  /\ Doing("wait")
  /\ IF combat_turn_running > 0
     THEN curr_sad > 0 /\ anim_in_bk' = TRUE /\ stack' = Append(stack, Loop(1))
     ELSE stack' = Then(Did) /\ UNCHANGED anim_in_bk
  /\ UNCHANGED << anim_set, sad, curr_sad, curr_anim_set, anim_in_anim_stop, inCombat,
                  combat_turn_running, combat_cleanup_enabled, rc, commands, lost, spoiled >>

\* dude_fidget: a critter that stands is animated, unless somebody fights.
Fidget ==
  /\ Doing("fidget")
  /\ LET o == Head(Top.todo).obj
     IN stack' = Then(IF inCombat \/ \E i \in 1 .. curr_sad : sad[i].obj = o /\ sad[i].field_20 # Done
                      THEN GivesUp ELSE Did)
  /\ UNCHANGED << anim_set, sad, curr_sad, curr_anim_set, combat_turn_running, rc, lost, flow >>

EndCode == /\ At("code", "run") /\ Top.todo = << >>
           /\ stack' = Below /\ rc' = 0
           /\ UNCHANGED << anim_set, sad, curr_sad, curr_anim_set, combat_turn_running, lost, flow >>

\* anim_stop
StopNext ==
  /\ At("stop", "next")
  /\ IF Top.i <= Slots
     THEN /\ stack' = Then([Top EXCEPT !.i = @ + 1]) \o << End(Top.i) >>
          /\ UNCHANGED << curr_sad, anim_in_anim_stop >>
     ELSE stack' = Below /\ curr_sad' = 0 /\ anim_in_anim_stop' = FALSE
  /\ UNCHANGED << anim_set, sad, curr_anim_set, anim_in_bk, inCombat, combat_turn_running,
                  combat_cleanup_enabled, rc, commands, lost, spoiled >>

-----------------------------------------------------------------------------
(* Playing a sequence. *)

\* anim_set_continue: one more of the sequence's animations is over. It returns to `to`.
Continue(s, again, to) ==
  IF ~Active(s) THEN rc' = -1 /\ stack' = to /\ UNCHANGED anim_set
  ELSE /\ rc' = 0
       /\ anim_set' = [anim_set EXCEPT ![s].animationIndex = @ + 1]
       /\ stack' = to \o (IF anim_set[s].animationIndex + 1 = Length(s) THEN << End(s) >>
                          ELSE IF again THEN << Check(s) >> ELSE << >>)

\* anim_set_check: the sequence has ended, nothing more is to begin, or the next has to wait
\* for the last to be done, or for its delay.
CheckEnded ==
  /\ At("check", "loop") /\ ~Active(Top.s)
  /\ stack' = Below /\ rc' = -1
  /\ UNCHANGED << anim_set, sad, curr_sad, curr_anim_set, combat_turn_running, lost, flow >>

Early(s) == anim_set[s].field_0 > anim_set[s].animationIndex
NextOf(s) == anim_set[s].animations[anim_set[s].field_0 + 1]
HasNext(s) == Active(s) /\ anim_set[s].field_0 < Length(s)
MayBegin(s) == HasNext(s) /\ (Early(s) => NextOf(s).delay = 0)

CheckWaits ==
  /\ At("check", "loop") /\ Active(Top.s) /\ ~MayBegin(Top.s)
  /\ anim_set' = IF HasNext(Top.s) /\ NextOf(Top.s).delay > 0
                 THEN [anim_set EXCEPT ![Top.s].animations[anim_set[Top.s].field_0 + 1].delay = @ - 1]
                 ELSE anim_set
  /\ stack' = Below /\ rc' = 0
  /\ UNCHANGED << sad, curr_sad, curr_anim_set, combat_turn_running, lost, flow >>

Begins(kinds) == At("check", "loop") /\ MayBegin(Top.s) /\ NextOf(Top.s).kind \in kinds
Begun == [anim_set EXCEPT ![Top.s].field_0 = @ + 1]

\* anim_move, anim_move_straight_to_tile, anim_move_on_stairs, check_for_falling, anim_animate:
\* a line of the table, if there is one and there is a way, or a picture. A critter
\* that is there already has moved.
BeginPlaying ==
  /\ Begins({"move", "animate"})
  /\ LET d == NextOf(Top.s)
         new == [obj |-> d.owner, seq |-> Top.s, kind |-> d.kind, left |-> 0,
                 field_20 |-> IF d.kind = "move" THEN Fresh ELSE 0]
     IN \/ /\ anim_set' = Begun /\ rc' = -1 /\ stack' = Phase("fail")
           /\ UNCHANGED << sad, curr_sad >>
        \/ /\ curr_sad < SadMax
           /\ \E left \in Ticks : sad' = [sad EXCEPT ![curr_sad + 1] = [new EXCEPT !.left = left]]
           /\ curr_sad' = curr_sad + 1 /\ anim_set' = Begun /\ rc' = 0 /\ stack' = Phase("loop")
        \/ /\ curr_sad < SadMax /\ d.kind = "move"
           /\ sad' = [sad EXCEPT ![curr_sad + 1] = [new EXCEPT !.field_20 = Done]]
           /\ curr_sad' = curr_sad + 1 /\ anim_set' = Begun /\ rc' = 0 /\ stack' = Phase("moved")
  /\ UNCHANGED << curr_anim_set, combat_turn_running, lost, flow >>

\* A turn, a flag, a light, an outline, a picture.
BeginInstant ==
  /\ Begins({"instant"})
  /\ anim_set' = Begun /\ stack' = Phase("moved")
  /\ UNCHANGED << sad, curr_sad, curr_anim_set, combat_turn_running, rc, lost, flow >>

\* A callback. One that tests something may end the sequence.
BeginCall ==
  /\ Begins({"call", "call3"})
  /\ LET d == NextOf(Top.s)
     IN \E res \in (IF d.does = "test" THEN {0, -1} ELSE {0}), todo \in Codes(CodeOf[d.does]) :
          stack' = Phase(IF res = 0 THEN "moved" ELSE "fail") \o Code(todo)
  /\ anim_set' = [Begun EXCEPT ![Top.s].animations[anim_set[Top.s].field_0 + 1].ran = @ + 1]
  /\ UNCHANGED << sad, curr_sad, curr_anim_set, combat_turn_running, rc, lost, flow >>

\* The sequence that waits for this one's ping goes on.
BeginPinged ==
  /\ Begins({"ping"})
  /\ LET t == NextOf(Top.s).slot
     IN anim_set' = [Begun EXCEPT ![t].flags = @ \ {"0x10"}]
  /\ stack' = Then([Top EXCEPT !.at = "pings"])
  /\ UNCHANGED << sad, curr_sad, curr_anim_set, combat_turn_running, rc, lost, flow >>

\* Mutant: the sequence that waits is counted on, but not begun.
PingsOnly ==
  /\ At("check", "pings")
  /\ Continue(anim_set[Top.s].animations[anim_set[Top.s].field_0].slot, FALSE, Phase("pinged"))
  /\ UNCHANGED << sad, curr_sad, curr_anim_set, combat_turn_running, lost, flow >>
Pings ==
  /\ At("check", "pings")
  /\ Continue(anim_set[Top.s].animations[anim_set[Top.s].field_0].slot, TRUE, Phase("pinged"))
  /\ UNCHANGED << sad, curr_sad, curr_anim_set, combat_turn_running, lost, flow >>

Pinged ==
  /\ At("check", "pinged")
  /\ stack' = Phase(IF rc = -1 THEN "fail" ELSE "moved")
  /\ UNCHANGED << anim_set, sad, curr_sad, curr_anim_set, combat_turn_running, rc, lost, flow >>

Moved ==
  /\ At("check", "moved")
  /\ Continue(Top.s, FALSE, Phase("loop"))
  /\ UNCHANGED << sad, curr_sad, curr_anim_set, combat_turn_running, lost, flow >>

Fails ==
  /\ At("check", "fail")
  /\ stack' = Phase("loop") \o << End(Top.s) >>
  /\ UNCHANGED << anim_set, sad, curr_sad, curr_anim_set, combat_turn_running, rc, lost, flow >>

-----------------------------------------------------------------------------
(* Ending a sequence: anim_set_end. *)

Stopped(s) == [i \in DOMAIN sad |-> IF i <= curr_sad /\ sad[i].seq = s
                                    THEN [sad[i] EXCEPT !.field_20 = Done] ELSE sad[i]]

EndBegins ==
  /\ At("end", "begin")
  /\ IF ~Active(Top.s) THEN stack' = Below /\ rc' = -1 /\ UNCHANGED sad
     ELSE /\ sad' = Stopped(Top.s) /\ stack' = Phase("walk") /\ UNCHANGED rc
  /\ UNCHANGED << anim_set, curr_sad, curr_anim_set, combat_turn_running, lost, flow >>

\* Mutant: every animation of a critter is stopped.
StopsOwners(q, i) ==
  [m \in DOMAIN sad |-> IF m <= curr_sad /\ sad[m].obj = q.animations[i].owner
                       THEN [sad[m] EXCEPT !.field_20 = Done] ELSE sad[m]]
\* The first animation in the table of a critter, where the sequence first mentions it;
\* none while the sequence waits for a ping.
StopsOwner(q, i) ==
  LET d == q.animations[i]
      first == \A j \in 1 .. i - 1 : q.animations[j].owner = d.owner => IsCall(q.animations[j])
      its == {m \in 1 .. curr_sad : sad[m].obj = d.owner}
  IN IF ~IsCall(d) /\ d.kind # "ping" /\ first /\ its # {} /\ q.animationIndex # -1
     THEN [sad EXCEPT ![CHOOSE m \in its : \A n \in its : m <= n].field_20 = Done] ELSE sad

\* Callbacks that have to be called when the sequence ends before it comes to them.
\* Mutant: the last that was begun is called again.
DueTwice(s, i) == MustRun(anim_set[s].animations[i]) /\ i >= anim_set[s].field_0
Due(s, i) == MustRun(anim_set[s].animations[i]) /\ i > anim_set[s].field_0

EndWalks ==
  /\ At("end", "walk") /\ Top.i <= Length(Top.s)
  /\ LET s == Top.s
         d == anim_set[s].animations[Top.i]
         to == Then([Top EXCEPT !.i = @ + 1])
     IN /\ sad' = StopsOwner(anim_set[s], Top.i)
        /\ IF Due(s, Top.i)
           THEN /\ \E todo \in Codes(CodeOf[d.does]) : stack' = to \o Code(todo)
                /\ anim_set' = [anim_set EXCEPT ![s].animations[Top.i].ran = @ + 1]
           ELSE stack' = to /\ UNCHANGED anim_set
  /\ UNCHANGED << curr_sad, curr_anim_set, combat_turn_running, rc, lost, flow >>

\* The slot is free, and then combat_anim_finished runs what comes after an attack.
EndFrees ==
  /\ At("end", "walk") /\ Top.i > Length(Top.s)
  /\ LET s == Top.s
         fights == "combat" \in anim_set[s].flags
         last == fights /\ combat_turn_running = 1
     IN /\ anim_set' = [anim_set EXCEPT ![s].animationIndex = -1, ![s].field_0 = Free]
        /\ combat_turn_running' = combat_turn_running - (IF fights THEN 1 ELSE 0)
        /\ IF last /\ combat_cleanup_enabled
           THEN /\ combat_cleanup_enabled' = FALSE
                /\ \E todo \in Codes(Standups) : stack' = Phase("flags") \o Code(todo)
           ELSE stack' = Phase("flags") /\ UNCHANGED combat_cleanup_enabled
  /\ UNCHANGED << sad, curr_sad, curr_anim_set, anim_in_bk, anim_in_anim_stop, inCombat, rc, commands, lost, spoiled >>

\* Mutant: what the slot was used for is kept.
FlagsKept(s) == anim_set[s].flags \cup (IF anim_in_bk THEN {"0x20"} ELSE {})
FlagsAfter(s) == IF anim_in_bk THEN {"0x20"} ELSE {}

EndFlags ==
  /\ At("end", "flags")
  /\ anim_set' = [anim_set EXCEPT ![Top.s].flags = FlagsAfter(Top.s),
                                  ![Top.s].animations = IF Active(Top.s) THEN @ ELSE << >>]
  /\ stack' = Below /\ rc' = 0
  /\ UNCHANGED << sad, curr_sad, curr_anim_set, combat_turn_running, lost, flow >>

-----------------------------------------------------------------------------
(* The background process: object_animate. *)

\* object_anim_compact
Compacted ==
  LET live == SelectSeq(SubSeq(sad, 1, curr_sad), LAMBDA e : e.field_20 # Done)
      nested == \E i \in DOMAIN Below : Below[i].k = "bk"
  IN [i \in 1 .. SadMax |-> IF i <= Len(live) THEN live[i]
                            ELSE IF nested THEN [sad[i] EXCEPT !.field_20 = Done] ELSE NoSad]
LiveSads == Cardinality({i \in 1 .. curr_sad : sad[i].field_20 # Done})

BkNext ==
  /\ At("bk", "next") /\ Top.i <= curr_sad
  /\ stack' = IF sad[Top.i].field_20 = Done THEN Then(Loop(Top.i + 1))
              ELSE Phase("checked") \o << Check(sad[Top.i].seq) >>
  /\ UNCHANGED << anim_set, sad, curr_sad, curr_anim_set, combat_turn_running, rc, lost, flow >>

BkEnds ==
  /\ At("bk", "next") /\ Top.i > curr_sad
  /\ stack' = Below /\ anim_in_bk' = FALSE
  /\ anim_set' = [s \in Slot |-> IF "0x20" \in anim_set[s].flags
                                 THEN [anim_set[s] EXCEPT !.flags = {}] ELSE anim_set[s]]
  /\ sad' = Compacted /\ curr_sad' = LiveSads /\ rc' = 0
  /\ UNCHANGED << curr_anim_set, anim_in_anim_stop, inCombat, combat_turn_running, combat_cleanup_enabled, commands, lost, spoiled >>

BkSkips ==
  /\ At("bk", "checked") /\ rc = -1
  /\ stack' = Then(Loop(Top.i + 1))
  /\ UNCHANGED << anim_set, sad, curr_sad, curr_anim_set, combat_turn_running, rc, lost, flow >>

\* Mutant: the animation of a sequence that has ended is advanced.
AdvancesAnyway == At("bk", "checked")
Advances == At("bk", "checked") /\ rc # -1
Spoil == spoiled' = (spoiled \/ sad[Top.i].field_20 = Done)
ToNext == Then(Loop(Top.i + 1))

\* object_move, object_straight_move: a step on the way, through a door perhaps, whose script runs first.
BkSteps ==
  /\ Advances /\ sad[Top.i].kind = "move" /\ sad[Top.i].field_20 # Stale
  /\ sad' = [sad EXCEPT ![Top.i].field_20 = IF @ = Fresh THEN 0 ELSE @]
  /\ \E todo \in Codes(CodeOf["door"]) : stack' = Phase("door") \o Code(todo)
  /\ Spoil
  /\ UNCHANGED << anim_set, curr_sad, curr_anim_set, combat_turn_running, rc, lost, anim_in_bk,
                  anim_in_anim_stop, inCombat, combat_cleanup_enabled, commands >>

\* The step is counted, whatever has become of the animation. Then scripts may be waiting for the critter.
BkPasses ==
  /\ At("bk", "door")
  /\ \E todo \in Codes(CodeOf["spatial"]) :
       LET to == Then(Loop(Top.i + 1)) \o Code(todo)
           e == sad[Top.i]
       IN IF e.field_20 = Done
          THEN /\ sad' = [sad EXCEPT ![Top.i].field_20 = Stale] /\ lost' = lost \cup {"step"}
               /\ stack' = to /\ UNCHANGED << anim_set, rc >>
          ELSE IF e.left > 0
          THEN sad' = [sad EXCEPT ![Top.i].left = @ - 1] /\ stack' = to /\ UNCHANGED << anim_set, rc, lost >>
          ELSE sad' = [sad EXCEPT ![Top.i].field_20 = Done] /\ Continue(e.seq, TRUE, to) /\ UNCHANGED lost
  /\ UNCHANGED << curr_sad, curr_anim_set, combat_turn_running, flow >>

\* One that counts on from there reads beyond its path.
BkStrays ==
  /\ Advances /\ sad[Top.i].field_20 = Stale
  /\ stack' = ToNext
  /\ UNCHANGED << anim_set, sad, curr_sad, curr_anim_set, combat_turn_running, rc, lost, flow >>

\* The next picture of an animation under way.
BkDraws ==
  /\ Advances /\ sad[Top.i].kind # "move" /\ sad[Top.i].field_20 # 0
  /\ sad[Top.i].left > 0
  /\ sad' = [sad EXCEPT ![Top.i].left = @ - 1]
  /\ stack' = ToNext /\ Spoil
  /\ UNCHANGED << anim_set, curr_sad, curr_anim_set, combat_turn_running, rc, lost, anim_in_bk, anim_in_anim_stop,
                  inCombat, combat_cleanup_enabled, commands >>

\* The last tick of an animation.
BkFinishes ==
  /\ Advances /\ sad[Top.i].left = 0 /\ sad[Top.i].kind # "move" /\ sad[Top.i].field_20 # 0
  /\ sad' = [sad EXCEPT ![Top.i].field_20 = Done]
  /\ Continue(sad[Top.i].seq, TRUE, ToNext) /\ Spoil
  /\ UNCHANGED << curr_sad, curr_anim_set, combat_turn_running, lost, anim_in_bk, anim_in_anim_stop,
                  inCombat, combat_cleanup_enabled, commands >>

\* The first tick of an animation ends those of the same object that play no further.
BkReplaces ==
  /\ Advances /\ sad[Top.i].kind # "move" /\ sad[Top.i].field_20 = 0
  /\ stack' = Then([k |-> "bk", at |-> "replaces", i |-> Top.i, j |-> 1])
  /\ UNCHANGED << anim_set, sad, curr_sad, curr_anim_set, combat_turn_running, rc, lost, flow >>

BkReplacesNext ==
  /\ At("bk", "replaces") /\ Top.j <= curr_sad
  /\ LET on == Then([Top EXCEPT !.j = @ + 1])
     IN IF sad[Top.j].obj = sad[Top.i].obj /\ sad[Top.j].field_20 = Fresh
        THEN /\ sad' = [sad EXCEPT ![Top.j].field_20 = Done]
             /\ Continue(sad[Top.j].seq, TRUE, on)
        ELSE stack' = on /\ UNCHANGED << anim_set, sad, rc >>
  /\ UNCHANGED << curr_sad, curr_anim_set, combat_turn_running, lost, flow >>

BkReplaced ==
  /\ At("bk", "replaces") /\ Top.j > curr_sad
  /\ sad' = [sad EXCEPT ![Top.i].field_20 = Fresh]
  /\ stack' = ToNext /\ Spoil
  /\ UNCHANGED << anim_set, curr_sad, curr_anim_set, combat_turn_running, rc, lost, anim_in_bk, anim_in_anim_stop,
                  inCombat, combat_cleanup_enabled, commands >>

-----------------------------------------------------------------------------
StartCommand ==
  /\ stack = << >> /\ commands < MaxCommands /\ commands' = commands + 1
  /\ \E todo \in Commands[inCombat] : stack' = Code(todo)
  /\ UNCHANGED << anim_set, sad, curr_sad, curr_anim_set, anim_in_bk, anim_in_anim_stop, inCombat, combat_turn_running,
                  combat_cleanup_enabled, rc, lost, spoiled >>

StartBk ==
  /\ stack = << >> /\ curr_sad > 0
  /\ stack' = << Loop(1) >> /\ anim_in_bk' = TRUE
  /\ UNCHANGED << anim_set, sad, curr_sad, curr_anim_set, anim_in_anim_stop, inCombat, combat_turn_running,
                  combat_cleanup_enabled, rc, commands, lost, spoiled >>

Step == \/ RegisterBegin \/ RegisterAdd \/ Registry \/ RegistryRefuses \/ RegistryAdds
        \/ RegisterPing \/ RegisterEnd \/ Clear \/ Stop \/ Attack \/ Combat \/ Wait \/ Fidget
        \/ EndCode \/ StopNext
        \/ CheckEnded \/ CheckWaits \/ BeginPlaying \/ BeginInstant \/ BeginCall \/ BeginPinged
        \/ Pings \/ Pinged \/ Moved \/ Fails
        \/ EndBegins \/ EndWalks \/ EndFrees \/ EndFlags
        \/ BkNext \/ BkEnds \/ BkSkips \/ BkSteps \/ BkPasses \/ BkStrays \/ BkDraws \/ BkFinishes
        \/ BkReplaces \/ BkReplacesNext \/ BkReplaced

Next == StartCommand \/ StartBk \/ Step

Spec == Init /\ [][Next]_vars
FairSpec == Spec /\ WF_vars(Step) /\ SF_vars(StartBk)

-----------------------------------------------------------------------------
(* Properties. *)

\* combat_turn_running, on which combat_turn_run waits, is at every moment, within callbacks
\* too, the number of the sequences that will give back what register_end counted for them.
AnimationsCounted ==
  combat_turn_running = Cardinality({s \in Slot : Active(s) /\ "combat" \in anim_set[s].flags})

Playing(s) == Cardinality({i \in 1 .. curr_sad : sad[i].seq = s /\ sad[i].field_20 # Done})
WaitsForPing(s) == Active(s) /\ anim_set[s].animationIndex = -1

\* Whenever no call is in progress, the table plays for each sequence exactly what the sequence
\* has begun and not finished, and something of it, so that each goes on and none is left in
\* its slot for ever: through full tables, ends from outside, and the background process run
\* within itself. It fails once a callback ends its own sequence and registers another one:
\* that gets the slot, and anim_set_check takes it for the one it was playing.
BegunIsPlayed ==
  stack = << >> /\ lost = {} =>
    \A s \in Slot :
      IF Active(s) /\ ~WaitsForPing(s)
      THEN Playing(s) = anim_set[s].field_0 - anim_set[s].animationIndex /\ Playing(s) > 0
      ELSE Playing(s) = 0

\* An animation that is done is never advanced, by loops within which the table is compacted
\* either: object_animate looks once at a line, and calls anim_set_check before it goes on.
DoneIsDone == "slot" \in lost \/ ~spoiled

\* When a sequence with priority ends, each callback of it has been called at most once and
\* each that must be called exactly once. Of other sequences only that each that must
\* be called was: action_dmg has no priority, and a script that its report runs while
\* the sequence is being ended may clear the critter's animations, which ends it again.
CalledOnce ==
  [][\A s \in Slot : Active(s) /\ ~Active(s)' =>
       \A d \in Range(anim_set[s].animations) :
         /\ MustRun(d) => d.ran >= 1
         /\ IsCall(d) /\ "priority" \in anim_set[s].flags => d.ran <= 1]_vars

\* The one that would have sent the ping was ended before it did.
PingLost ==
  \E s \in Slot : /\ WaitsForPing(s)
                  /\ \A t \in Slot : Active(t) =>
                       \A i \in anim_set[t].field_0 + 1 .. Length(t) :
                         anim_set[t].animations[i].kind = "ping" => anim_set[t].animations[i].slot # s

\* A fight's animations end, so that combat_turn_run returns, unless a ping was lost:
\* the sequence that waits for it counts and nothing goes on with it.
FightGoesOn == combat_turn_running > 0 ~> combat_turn_running = 0 \/ PingLost \/ lost # {}
=============================================================================
