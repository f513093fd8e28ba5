-------------------------------- MODULE Lists --------------------------------
(* What the modules' lists share: the part of a list that a loop keeps, and *)
(* the order of time of a list of timed events.                             *)
EXTENDS Integers, Sequences

\* Those of s that are in S, in their order: a loop that removes the others.
Only(s, S) ==
  LET kept[n \in 0 .. Len(s)] ==
        IF n = 0 THEN << >>
        ELSE IF s[n] \in S THEN Append(kept[n - 1], s[n]) ELSE kept[n - 1]
  IN kept[Len(s)]

(***************************************************************************)
(* The place queue_add gives an event due at t in s: after every event due *)
(* at t or earlier, before every later one.                                *)
(***************************************************************************)
StablePlace(s, t, p) ==
  /\ p \in 1 .. Len(s) + 1
  /\ p > 1 => s[p - 1].time <= t
  /\ p <= Len(s) => t < s[p].time

\* A place that keeps the order, without the promise about equal times.
OrderedPlace(s, t, p) ==
  /\ p \in 1 .. Len(s) + 1
  /\ p > 1 => s[p - 1].time <= t
  /\ p <= Len(s) => t <= s[p].time

InOrder(s) == \A i \in 1 .. Len(s) - 1 : s[i].time <= s[i + 1].time
=============================================================================
