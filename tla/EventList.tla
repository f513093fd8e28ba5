------------------------------ MODULE EventList ------------------------------
(***************************************************************************)
(* What game/queue.cc promises its callers: a list of timed events, kept   *)
(* in order of time, first-in first-out among events due at the same time. *)
(* QueueList is the linked list that implements it, GameTime the game that *)
(* uses it.                                                                *)
(***************************************************************************)
EXTENDS EventOrder

VARIABLES list,    \* the events, earliest first
          held     \* events taken out of it whose handler or callback runs,
                   \* the innermost call's last

vars == << list, held >>

TypeOK == list \in Seq(Event) /\ held \in Seq(Event)

\* The list is in order of time: queue_process may stop at the first event
\* that is not due, and queue_next_time may read the head alone.
Sorted == InOrder(list)

Init == list = << >> /\ held = << >>

\* queue_add
Insert ==
  /\ \E e \in Event : \E p \in 1 .. Len(list) + 1 :
       /\ StablePlace(list, e.time, p)
       /\ list' = InsertAt(list, p, e)
  /\ UNCHANGED held

\* One event taken out and freed: a step of queue_remove or of a clearing.
Delete ==
  /\ \E i \in 1 .. Len(list) : list' = RemoveAt(list, i)
  /\ UNCHANGED held

\* queue_process unlinking the head, queue_clear_type unlinking a match:
\* the event is out of the list while its handler or callback runs.
Take ==
  \E i \in 1 .. Len(list) :
    /\ list' = RemoveAt(list, i)
    /\ held' = Append(held, list[i])

\* The handler is done, or the callback said to free the event.
Drop ==
  /\ held # << >>
  /\ held' = Front(held)
  /\ UNCHANGED list

\* queue_clear_type linking back the event its callback chose to keep.
Restore ==
  /\ held # << >>
  /\ \E p \in 1 .. Len(list) + 1 :
       /\ OrderedPlace(list, Last(held).time, p)
       /\ list' = InsertAt(list, p, Last(held))
  /\ held' = Front(held)

\* queue_clear
Clear == list' = << >> /\ UNCHANGED held

Next == Insert \/ Delete \/ Take \/ Drop \/ Restore \/ Clear

Spec == Init /\ [][Next]_vars

=============================================================================
