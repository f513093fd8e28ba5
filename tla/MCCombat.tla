------------------------------- MODULE MCCombat -------------------------------
(* Instances of Combat for TLC. *)
EXTENDS Combat

CONSTANTS ann, bob

MCTeam == [c \in Critter |-> IF c \in {Dude, ann} THEN "ours" ELSE "theirs"]
MCSpeed == [c \in Critter |-> IF c = Dude THEN 2 ELSE IF c = bob THEN 3 ELSE 1]

\* What may happen: fights; fights saved and loaded, in peace and over another fight, or with
\* scripts that take critters out and put them in; scripts, and saving.
Fights == {{"miss", "hurt", "lose", "ko", "dead", "quit"},
           {"miss", "dead", "fleeing", "disengaging"}, {"ko", "dead", "fleeing", "disengaging"}}
SavedFights == {{"ko", "dead", "save", "load"}, {"dead", "save", "reload"},
                {"dead", "kill", "remove", "create"}}
MCSettings == Fights \cup SavedFights
ScriptedFights == {{"kill", "save"}}

\* One order of the tiles, or two where the critters have moved when a game is loaded.
OneLayout == {SetToSeq(Critter)}
MCLayouts == [s \in MCSettings |-> IF s \in Fights THEN OneLayout ELSE OneLayout \cup {Reverse(SetToSeq(Critter))}]
ScriptedLayouts == [s \in ScriptedFights |-> OneLayout]

\* Two attacks in a fight that is not saved, one in others.
MCMaxHits == [s \in MCSettings |-> IF s \in Fights THEN 2 ELSE 1]
ScriptedMaxHits == [s \in ScriptedFights |-> 1]
=============================================================================
