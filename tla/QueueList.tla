------------------------------ MODULE QueueList ------------------------------
(***************************************************************************)
(* The linked list of game/queue.cc, node by node. Every walk of the code  *)
(* is a frame of the call stack holding the walk's own pointers, and one   *)
(* step of the walk is one action: the handler that queue_process runs and *)
(* the callback that queue_clear_type runs may call back into the queue    *)
(* while those pointers are held.                                          *)
(*                                                                         *)
(* A pointer to a node pointer (queue_add's v3, queue_clear_type's ptr) is *)
(* a slot: HEAD stands for &queue, a node n for &(n->next).                *)
(***************************************************************************)
EXTENDS Integers, Sequences, FiniteSets, SequencesExt

CONSTANTS Node,           \* the addresses mem_malloc may return
          Owner, Type,    \* objects and EVENT_TYPE_*
          MaxTime,        \* bound on the clock and on an event's time
          MaxDepth,       \* bound on the nesting of calls
          CallbackCalls,  \* what may be called while a callback of queue_clear_type runs,
                          \* by it or by what it calls: one set of calls per behaviour
          ANY,            \* "any type", the criterion of queue_remove
          NULL, HEAD

ASSUME PointerAssumption ==
  /\ IsFiniteSet(Node) /\ MaxTime \in Nat
  /\ NULL # HEAD
  /\ {NULL, HEAD} \cap Node = {}
  /\ ANY \notin Type

ASSUME CallbackAssumption == CallbackCalls \subseteq SUBSET {"add", "remove", "process", "clear"}

VARIABLES next,   \* slot -> the node it points to, or NULL
          rec,    \* node -> the event stored in it
          live,   \* nodes allocated and not freed
          clock,  \* game_time()
          stack,  \* the calls in progress, outermost first
          calls,  \* what is called under callbacks in this behaviour, one of CallbackCalls
          astray  \* a queue_clear_type has gone on with a node that was freed

nodes == << next, rec, live, clock, stack >>
vars == << nodes, calls, astray >>

Slot == Node \cup {HEAD}
Link == Node \cup {NULL}
Time == 0 .. MaxTime
Rec  == [time : Time, type : Type, owner : Owner]

Frame ==
       [op : {"add"}, ptr : Slot, node : Node]
  \cup [op : {"remove"}, ptr : Slot, curr : Link,
        owner : Owner, type : Type \cup {ANY}]
  \cup [op : {"process"}, now : Time, rc : 0 .. 1, node : Link]
  \cup [op : {"clear"}, type : Type, fn : BOOLEAN,
        ptr : Slot, curr : Link, tmp : Link, stale : BOOLEAN]

Top == stack[Len(stack)]
Push(f) == stack' = Append(stack, f)
Pop == stack' = SubSeq(stack, 1, Len(stack) - 1)
SetTop(f) == stack' = [stack EXCEPT ![Len(stack)] = f]
Running(op) == stack # << >> /\ Top.op = op

\* mem_free: what a freed node holds is of no meaning to the code, so it is
\* given one fixed content; malloc'ed nodes are filled in before they are read.
Blank == [time |-> 0, type |-> CHOOSE ty \in Type : TRUE,
          owner |-> CHOOSE o \in Owner : TRUE]

FreeNode(n) ==
  /\ live' = live \ {n}
  /\ rec' = [rec EXCEPT ![n] = Blank]

(* The nodes a suspended queue_clear_type goes on with: the one it looks   *)
(* at next and the one its slot is in. Nothing in the code keeps what its  *)
(* callback calls from freeing them, as an explosion does whose damage     *)
(* kills the owner of the next event. `stale` remembers that it happened,  *)
(* whatever the address is used for since.                                 *)
Holds(f) == IF f.op = "clear" THEN {f.curr, f.ptr} \cap Node ELSE {}

Freed(f, n) == IF n \in Holds(f) THEN [f EXCEPT !.stale = TRUE] ELSE f

\* The innermost call goes on as f and frees node n under those below it.
SetTopFree(f, n) ==
  stack' = [i \in 1 .. Len(stack) |->
              IF i = Len(stack) THEN f ELSE Freed(stack[i], n)]

-----------------------------------------------------------------------------
(* Who may call the queue now: the game when no queue call is in progress, *)
(* a handler of queue_process, a callback of queue_clear_type. Under a     *)
(* callback, however deep, only the calls of `calls` are made.             *)

InHandler  == Running("process") /\ Top.node # NULL
InCallback == Running("clear") /\ Top.tmp # NULL
Outside    == stack = << >> \/ InHandler \/ InCallback

MayCall(op) ==
  /\ Len(stack) < MaxDepth
  /\ Outside
  /\ \A i \in 1 .. Len(stack) : stack[i].op = "clear" => op \in calls

\* The clock is moved by the game and by scripts, which handlers and callbacks run.
SetClock ==
  /\ Outside
  /\ clock' \in Time /\ clock' # clock
  /\ UNCHANGED << next, rec, live, stack >>

-----------------------------------------------------------------------------
\* queue_add: a node is allocated and filled in. Without memory it returns -1.
QueueAdd(t, ty, o) ==
  /\ MayCall("add")
  /\ clock <= t
  /\ \E n \in Node \ live :
       /\ rec' = [rec EXCEPT ![n] = [time |-> t, type |-> ty, owner |-> o]]
       /\ live' = live \cup {n}
       /\ Push([op |-> "add", ptr |-> HEAD, node |-> n])
  /\ UNCHANGED << next, clock >>

\* Mutant: a new event goes before those due at the same time.
AddGoesOnStrict(f) ==
  next[f.ptr] # NULL /\ rec[next[f.ptr]].time < rec[f.node].time

\* The walk of queue_add goes on over an event that is not later than the new one.
AddGoesOn(f) ==
  next[f.ptr] # NULL /\ rec[next[f.ptr]].time <= rec[f.node].time

AddWalk ==
  /\ Running("add") /\ AddGoesOn(Top)
  /\ SetTop([Top EXCEPT !.ptr = next[Top.ptr]])
  /\ UNCHANGED << next, rec, live, clock >>

\* Mutant: the new node is linked without taking over the rest of the list.
AddLinkCuts ==
  /\ Running("add") /\ ~AddGoesOn(Top)
  /\ next' = [next EXCEPT ![Top.node] = NULL, ![Top.ptr] = Top.node]
  /\ Pop
  /\ UNCHANGED << rec, live, clock >>

AddLink ==
  /\ Running("add") /\ ~AddGoesOn(Top)
  /\ next' = [next EXCEPT ![Top.node] = next[Top.ptr], ![Top.ptr] = Top.node]
  /\ Pop
  /\ UNCHANGED << rec, live, clock >>

-----------------------------------------------------------------------------
Matches(n, o, ty) == rec[n].owner = o /\ (ty = ANY \/ rec[n].type = ty)

\* queue_remove(o) is QueueRemove(o, ANY), queue_remove_this(o, ty) is QueueRemove(o, ty).
QueueRemove(o, ty) ==
  /\ MayCall("remove")
  /\ Push([op |-> "remove", ptr |-> HEAD, curr |-> next[HEAD],
           owner |-> o, type |-> ty])
  /\ UNCHANGED << next, rec, live, clock >>

RemoveMatch ==
  /\ Running("remove") /\ Top.curr # NULL
  /\ Matches(Top.curr, Top.owner, Top.type)
  /\ next' = [next EXCEPT ![Top.ptr] = next[Top.curr], ![Top.curr] = NULL]
  /\ FreeNode(Top.curr)
  /\ SetTopFree([Top EXCEPT !.curr = next[Top.curr]], Top.curr)
  /\ UNCHANGED clock

RemoveSkip ==
  /\ Running("remove") /\ Top.curr # NULL
  /\ ~Matches(Top.curr, Top.owner, Top.type)
  /\ SetTop([Top EXCEPT !.ptr = Top.curr, !.curr = next[Top.curr]])
  /\ UNCHANGED << next, rec, live, clock >>

RemoveDone ==
  /\ Running("remove") /\ Top.curr = NULL
  /\ Pop
  /\ UNCHANGED << next, rec, live, clock >>

-----------------------------------------------------------------------------
\* queue_process reads the clock once, before its loop.
QueueProcess ==
  /\ MayCall("process")
  /\ Push([op |-> "process", now |-> clock, rc |-> 0, node |-> NULL])
  /\ UNCHANGED << next, rec, live, clock >>

ProcessGoesOn(f) ==
  /\ next[HEAD] # NULL
  /\ rec[next[HEAD]].time <= f.now
  /\ f.rc = 0

\* The head is unlinked before its handler runs, and freed after.
ProcessPop ==
  /\ Running("process") /\ Top.node = NULL /\ ProcessGoesOn(Top)
  /\ next' = [next EXCEPT ![HEAD] = next[next[HEAD]]]
  /\ SetTop([Top EXCEPT !.node = next[HEAD]])
  /\ UNCHANGED << rec, live, clock >>

HandlerReturn(rc) ==
  /\ InHandler
  /\ FreeNode(Top.node)
  /\ next' = [next EXCEPT ![Top.node] = NULL]
  /\ SetTopFree([Top EXCEPT !.node = NULL, !.rc = rc], Top.node)
  /\ UNCHANGED clock

ProcessDone ==
  /\ Running("process") /\ Top.node = NULL /\ ~ProcessGoesOn(Top)
  /\ Pop
  /\ UNCHANGED << next, rec, live, clock >>

-----------------------------------------------------------------------------
\* queue_clear_type(ty, fn); fn is NULL when hasFn is FALSE.
QueueClearType(ty, hasFn) ==
  /\ MayCall("clear")
  /\ Push([op |-> "clear", type |-> ty, fn |-> hasFn,
           ptr |-> HEAD, curr |-> next[HEAD], tmp |-> NULL, stale |-> FALSE])
  /\ UNCHANGED << next, rec, live, clock >>

ClearSkip ==
  /\ Running("clear") /\ Top.tmp = NULL /\ Top.curr # NULL
  /\ rec[Top.curr].type # Top.type
  /\ SetTop([Top EXCEPT !.ptr = Top.curr, !.curr = next[Top.curr]])
  /\ UNCHANGED << next, rec, live, clock >>

AtMatch ==
  /\ Running("clear") /\ Top.tmp = NULL /\ Top.curr # NULL
  /\ rec[Top.curr].type = Top.type

\* Mutant: the next event is read from the list only after the callback.
ClearMatchStale ==
  /\ AtMatch /\ Top.fn
  /\ next' = [next EXCEPT ![Top.ptr] = next[Top.curr]]
  /\ SetTop([Top EXCEPT !.tmp = Top.curr])
  /\ UNCHANGED << rec, live, clock >>

\* Unlink the event and run the callback on it; its own next stays.
ClearMatch ==
  /\ AtMatch /\ Top.fn
  /\ next' = [next EXCEPT ![Top.ptr] = next[Top.curr]]
  /\ SetTop([Top EXCEPT !.curr = next[Top.curr], !.tmp = Top.curr])
  /\ UNCHANGED << rec, live, clock >>

\* With no callback the event is unlinked and freed.
ClearMatchNoFn ==
  /\ AtMatch /\ ~Top.fn
  /\ next' = [next EXCEPT ![Top.ptr] = next[Top.curr], ![Top.curr] = NULL]
  /\ FreeNode(Top.curr)
  /\ SetTopFree([Top EXCEPT !.curr = next[Top.curr]], Top.curr)
  /\ UNCHANGED clock

Resumes == InCallback /\ ~Top.stale

\* The callback returned 1.
ClearFree ==
  /\ Resumes
  /\ FreeNode(Top.tmp)
  /\ next' = [next EXCEPT ![Top.tmp] = NULL]
  /\ SetTopFree([Top EXCEPT !.tmp = NULL], Top.tmp)
  /\ UNCHANGED clock

\* Mutant: a kept event is stepped over but not linked back.
ClearKeepUnlinked ==
  /\ Resumes
  /\ SetTop([Top EXCEPT !.tmp = NULL])
  /\ UNCHANGED << next, rec, live, clock >>

\* The callback returned something else: link the event back in. Its own
\* next was read before the callback ran.
ClearKeep ==
  /\ Resumes
  /\ next' = [next EXCEPT ![Top.ptr] = Top.tmp]
  /\ SetTop([Top EXCEPT !.ptr = Top.tmp, !.tmp = NULL])
  /\ UNCHANGED << rec, live, clock >>

\* The walk goes on with memory that was freed under it. What it reads and writes there
\* is whatever the allocator made of it: the model ends here.
ClearAstray ==
  /\ InCallback /\ Top.stale
  /\ astray' = TRUE
  /\ UNCHANGED << nodes, calls >>

ClearDone ==
  /\ Running("clear") /\ Top.tmp = NULL /\ Top.curr = NULL
  /\ Pop
  /\ UNCHANGED << next, rec, live, clock >>

-----------------------------------------------------------------------------
\* The nodes from slot s on, in order; the bound stops on a cyclic list.
From(s) ==
  LET at[k \in 0 .. Cardinality(Node)] ==
        IF k = 0 THEN next[s]
        ELSE IF at[k - 1] = NULL THEN NULL ELSE next[at[k - 1]]
      n == Cardinality({k \in DOMAIN at : at[k] # NULL})
  IN  [k \in 1 .. n |-> at[k - 1]]

Chain == From(HEAD)

\* queue_clear: called by queue_reset and queue_exit, outside any other call.
QueueClear ==
  /\ stack = << >>
  /\ live' = live \ ToSet(Chain)
  /\ next' = [s \in Slot |-> IF s \in ToSet(Chain) \cup {HEAD}
                              THEN NULL ELSE next[s]]
  /\ rec' = [n \in Node |-> IF n \in ToSet(Chain) THEN Blank ELSE rec[n]]
  /\ UNCHANGED << clock, stack >>

Init ==
  /\ next = [s \in Slot |-> NULL]
  /\ rec = [n \in Node |-> Blank]
  /\ live = {}
  /\ clock = 0
  /\ stack = << >>
  /\ calls \in CallbackCalls
  /\ astray = FALSE

Step ==
  \/ SetClock
  \/ \E t \in Time, ty \in Type, o \in Owner : QueueAdd(t, ty, o)
  \/ AddWalk \/ AddLink
  \/ \E o \in Owner, ty \in Type \cup {ANY} : QueueRemove(o, ty)
  \/ RemoveMatch \/ RemoveSkip \/ RemoveDone
  \/ QueueProcess \/ ProcessPop \/ ProcessDone
  \/ \E rc \in 0 .. 1 : HandlerReturn(rc)
  \/ \E ty \in Type, hasFn \in BOOLEAN : QueueClearType(ty, hasFn)
  \/ ClearSkip \/ ClearMatch \/ ClearMatchNoFn \/ ClearFree \/ ClearKeep \/ ClearDone
  \/ QueueClear

Next == ~astray /\ ((Step /\ UNCHANGED << calls, astray >>) \/ ClearAstray)

Spec == Init /\ [][Next]_vars

-----------------------------------------------------------------------------
\* The nodes a call in progress owns although they are not in the list: the
\* one queue_add is about to link, the one whose handler or callback runs.
Held ==
  {stack[i].node : i \in {j \in 1 .. Len(stack) :
                            stack[j].op \in {"add", "process"}}}
  \cup
  {stack[i].tmp : i \in {j \in 1 .. Len(stack) : stack[j].op = "clear"}}

Lost == live \ (ToSet(Chain) \cup Held)

\* Every scheduled event is in the list or in the hands of the call that will
\* put it back or free it: re-entrant calls neither leak an event (it would
\* never happen) nor leave a freed one linked (it would happen after its end).
\* Only a callback that queues an event may lose it: see LossOnlyInGap.
NoEventLostOrFreed ==
  /\ "add" \notin calls => Lost = {}
  /\ ToSet(Chain) \subseteq live

\* Until a node it goes on with is freed, a suspended queue_clear_type finds when its
\* callback has returned what it left: its slot and its next event are in live nodes and,
\* unless its callback queued events, the slot still leads to that event. An inner
\* walk may have one of the two in its hands, to free it or to put it back.
SuspendedWalkValid ==
  \A i \in 1 .. Len(stack) : stack[i].op = "clear" /\ ~stack[i].stale =>
    /\ stack[i].ptr \in live \cup {HEAD}
    /\ stack[i].curr \in live \cup {NULL}
    /\ "add" \notin calls /\ Holds(stack[i]) \cap Held = {} =>
         next[stack[i].ptr] = stack[i].curr

\* The list as game/queue.cc's callers see it, the abstract list of EventList.
Abstract == [k \in 1 .. Len(Chain) |-> rec[Chain[k]]]

\* The event whose handler or callback a call in progress is running.
HeldBy(f) ==
  CASE f.op = "process" /\ f.node # NULL -> << rec[f.node] >>
    [] f.op = "clear" /\ f.tmp # NULL -> << rec[f.tmp] >>
    [] OTHER -> << >>

\* The linked list implements the sorted, first-in first-out list of EventList, through every
\* nesting of calls. Nothing is claimed of callbacks that queue events: LossOnlyInGap says
\* what is lost then.
List == INSTANCE EventList
          WITH list <- IF "add" \in calls THEN << >> ELSE Abstract,
               held <- IF "add" \in calls THEN << >>
                       ELSE FlattenSeq([i \in 1 .. Len(stack) |-> HeldBy(stack[i])])
ImplementsEventList == List!Spec

\* A step that loses an event is one of queue_clear_type whose callback has
\* queued an event in the very slot it will write to; nothing else loses any.
LossOnlyInGap ==
  [][Lost' \subseteq Lost \/
     (Running("clear") /\ next[Top.ptr] # Top.curr)]_nodes

=============================================================================
