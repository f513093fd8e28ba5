------------------------------ MODULE MCGameTime ------------------------------
(* Instances of GameTime for TLC. What holds only as long as no handler has  *)
(* moved the clock during rest or travel is stated with the variable moved.  *)
EXTENDS GameTime

MCTime == 0 .. MaxClock + 2 * Day
MCType == {"midnight", "map_update", "other"}
MCOwner == {NONE}

VARIABLE moved

MCInit == Init /\ moved = FALSE
MCNext ==
  /\ Next
  /\ moved' = (moved \/ /\ activity.kind \in {"rest_drain", "travel_drain"}
                        /\ \E d \in Skips : ScriptAdvance(d))
MCSpec == MCInit /\ [][MCNext]_<< vars, moved >>

\* Events are handled in order of their times, also across the places where
\* world map and rest put the clock back to look at an event: the one tick by
\* which they then overshoot is all the order is ever off by.
HandledInTimeOrder == [][~moved' => HandledInOrder]_<< vars, moved >>
=============================================================================
