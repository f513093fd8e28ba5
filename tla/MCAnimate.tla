------------------------------ MODULE MCAnimate ------------------------------
(* Two critters; what the game registers for them, shortened. *)
EXTENDS Animate

CONSTANTS a, b

Desc(kind, owner, delay) ==
  [kind |-> kind, owner |-> owner, delay |-> delay, forced |-> FALSE, does |-> "quiet",
   slot |-> 1, ran |-> 0]
Call(owner, does, delay) == [Desc("call", owner, delay) EXCEPT !.does = does]
MustCall(owner, does, delay) == [Call(owner, does, delay) EXCEPT !.forced = TRUE]
Ping(delay) == Desc("ping", a, delay)

Ops(list) == [i \in DOMAIN list |-> [op |-> IF list[i].kind = "ping" THEN "ping" ELSE "add", d |-> list[i]]]
Register(options, list, must) ==
  << [op |-> "begin", options |-> options] >> \o Ops(list) \o << [op |-> "end", must |-> must] >>
Clears(o, must) == << [op |-> "clear", obj |-> o, must |-> must] >>
Op(name) == << [op |-> name] >>
Fight(on) == << [op |-> "combat", on |-> on] >>

\* action_use_an_object: go there, and use it if it is still near.
UseIt == Register({"reserved"}, << Desc("move", a, 0), MustCall(b, "test", -1), Call(b, "use", -1) >>, FALSE)
\* A script's reg_anim_func: two animations of one critter, the second after a while.
Scripted == Register({}, << Desc("animate", b, 0), Desc("animate", b, 1) >>, FALSE)
\* dude_fidget
Fidgets(o) == << [op |-> "fidget", obj |-> o] >> \o Register({"insignificant"}, << Desc("animate", o, 0) >>, FALSE)
\* show_damage_extras
Extra(o) == Register({"reserved", "priority"}, << Desc("animate", o, 0), MustCall(o, "quiet", -1) >>, FALSE)
\* action_melee, with one more critter hit.
Melee == Clears(a, TRUE) \o Clears(b, TRUE)
           \o Register({"reserved", "priority"}, << Desc("instant", a, 0), Desc("animate", a, 0), Ping(1),
                                                  MustCall(a, "quiet", -1) >>, TRUE)
           \o Extra(b)
\* action_explode, and action_dmg which has no priority: their reports run scripts.
Explosion == Clears(b, FALSE)
               \o Register({"reserved", "priority"}, << Desc("animate", a, 0), Ping(1), MustCall(a, "report", -1) >>, TRUE)
               \o Extra(b)
Damage == Clears(b, FALSE) \o Register({"reserved"}, << Desc("animate", b, 0), MustCall(a, "report", 0) >>, TRUE)
\* dude_standup
StandUp == Register({"reserved"}, << Desc("animate", a, 0) >>, FALSE)

MCCommands ==
  [c \in BOOLEAN |->
    IF c THEN {Op("attack") \o Melee, UseIt, Damage, Op("wait") \o Fight(FALSE)}
    ELSE {Clears(a, FALSE) \o UseIt, Scripted, Fidgets(b), Explosion, Damage, Op("stop") \o Fight(TRUE)}]

\* Scripts that run from callbacks move the critter, destroy the other, start a conversation,
\* hurt the critter that opens a door.
MCCodeOf ==
  [does \in {"quiet", "test", "use", "report", "spatial", "door"} |->
    CASE does = "use" -> {<< >>, Op("stop")}
      [] does = "report" -> {<< >>, Clears(b, FALSE), Clears(b, FALSE) \o Scripted}
      [] does = "door" -> {<< >>, Clears(a, FALSE)}
      [] does = "spatial" -> {<< >>, Scripted}
      [] OTHER -> {<< >>}]
MCStandups == {<< >>, StandUp \o Op("wait")}
=============================================================================
