------------------------------ MODULE EventOrder ------------------------------
(* The events of game/queue.cc; Lists has the order it keeps them in. *)
EXTENDS Integers, SequencesExt, Lists

CONSTANTS Time,    \* the values of the game clock
          Type,    \* EVENT_TYPE_*
          Owner    \* the objects an event may belong to

ASSUME TimeAssumption == Time \subseteq Int

Event == [time : Time, type : Type, owner : Owner]

=============================================================================
