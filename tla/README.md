# A formal model of Fallout 1 CE (Nintendo DSi port)

The program is a reimplementation of the Fallout 1 engine: some 130 000 lines
of C++ under `src/` (paths below are relative to it), ported to the 3DS and the
DSi. It is single-threaded but for the audio callback, and yet full of the things
that make programs hard: handlers that call back into the data structure that
calls them, game loops nested in other game loops, pointers into memory that moves,
saved games made of dozens of files on an unreliable card. This project models
the parts that carry the engine's state from one moment to the next, checks them
with TLC and proves the most important facts with TLAPS.

## 1. Inventory

Each component with its state, its operations, who it talks to, what is hard
about it and what makes it correct. "M" marks what is modelled here.

### Time
- **Event queue** (`game/queue.cc`) **M**. State: a list sorted by time. Operations:
  add, remove an object's events, process those due, clear a type through a
  callback, next time, leave map, save, load. Handlers (drugs, poison, radiation, knockout,
  scripts, explosions, sneaking, midnight, map update) run from inside
  `queue_process` and `queue_clear_type` and call any of these. Correct when no
  event is lost, run twice, run early, out of order or after it is freed.
- **Game clock** (`game/scripts.cc`, and its callers in `pipboy.cc`, `worldmap.cc`,
  `map.cc`, `intextra.cc`) **M**. State: ticks; two standing events. World map and rest set the
  clock *back* to look at events; a midnight's movie runs the game loop inside a
  handler. Correct when midnight is always pending and counted once a day.

### Memory
- **Heap of moveable blocks** (`game/heap.cc`) **M**. Memory in blocks with headers and
  footers, handles to them, lists of free and moveable extents that are rebuilt for
  each request. A locked block must stay; an unlocked one may move while a
  request looks for room.
- **Cache** (`game/cache.cc`) **M**. A sorted array of entries over the heap, with
  reference counts, hits and last use. Locking may read data, evict others,
  retry, and fail at any step. A user's pointer must be good until he unlocks it.

### The world
- **Objects** (`game/object.cc`): lists per tile, floating objects, inventories,
  saving. **Prototypes** (`proto.cc`): extents of loaded prototypes. **Objects in use**
  (`protinst.cc`). Hard: objects removed while a list of them is walked; a limit at
  which prototypes are dropped.
- **Maps** (`map.cc`), **elevators**, **world map** (`worldmap.cc`), **automap**, **party** (`party.cc`).
  Hard: leaving a map from inside a script of that map; followers and their scripts taken across.
- **Critters** (`critter.cc`) and **drugs** (`item.cc`): conditions that last exactly
  as long as their queued event.
- **Items** (`item.cc`, `protinst.cc`) **M in part**. State: each holder's list of stacks, one
  object and a quantity each; an object's owner and equipped flags, rounds, charges. Operations: add
  (which may join a stack), remove (which may split one), move, drop, load, unload, money.
- **Inventory, looting, stealing, barter** (`inventry.cc`, `gdialog.cc`) **M in part**. State: what is in
  the hands and worn leaves the list while a window is open and must be back when it is closed; a stack of
  opened containers on each side; two tables. Windows, scripts, fights and the interface bar call the same operations.
  Correct when nothing is lost or doubled, every object is in one place, and the bonus is that of the armour worn.
- **Character** (`editor.cc`, `stat.cc`, `skill.cc`, `perk.cc`, `trait.cc`, `reaction.cc`, `roll.cc`): points to spend,
  limits, and a cancel that must restore everything.

### Acting
- **Combat** (`game/combat.cc`, `combatai.cc`) **M in part**. State: one array with the
  combatants, the other critters and the dead, in this order, and two counts. Critters
  join while the array is walked, turns nest in it, scripts remove entries, and a
  fight is saved in the middle of a round. Correct when everyone able has one
  turn in a round and nobody is lost.
- **Animation** (`anim.cc`) **M in part**. State: slots of registered sequences, the table of animations
  being played, the count of those a fight waits for. Sequences are interrupted, wait for each other's pings and
  call back into the game when they end; a callback may run the background process that called it. Correct when what has begun is
  played and ended, and each callback called once. **Actions** (`actions.cc`) register them. **Conversations** (`gdialog.cc`, `int/dialog.cc`):
  windows nested in windows.

### Scripts
- **Script lists and timers** (`scripts.cc`), **interpreter** (`int/intrpret.cc`, `export.cc`,
  `nevs.cc`), **libraries** (`intextra.cc`, `intlib.cc`). Programs that call, fork, spawn and
  delete each other; a script removed while it runs.

### Keeping
- **Saved games** (`game/loadsave.cc`) **M**. A slot is a directory: SAVE.DAT, one file for
  each visited map, the automap. Saving renames them to .BAK, writes new
  ones, then drops the backup or restores it. Any file operation may fail, and
  the power may go. Correct when what is reported as saved is there, and a fault never leaves a mixture of two saves.
- **Data files** (`plib/db/db.cc`, `lzss.cc`, `assoc.cc`), **messages**, **configuration**.

### Seeing and hearing
- **Windows and buttons** (`plib/gnw`), **scripted windows** (`int/window.cc`, `region.cc`,
  `mousemgr.cc`, `widget.cc`), **input and recorder** (`input.cc`, `kb.cc`, `vcr.cc`, `mouse.cc`).
  Hard: a button's callback that deletes its window; ring buffers at their limit.
- **Sound** (`int/sound.cc`, `gsound.cc`, `sfxcache.cc`, `audio_engine.cc`): sounds deleted from
  their end callback; the only second thread. **Movies**, **tiles**, **text**, **light**.
- **Platforms** (`src/platform`, `platform_compat.cc`, `svga.cc`): SDL, 3DS and DSi.

`PROJECT.json` has one row for each, with what is not modelled and why, and the list of
hazards, each at its line.

## 2. Plan

Built so far, in this order: the queue list and its abstraction, the clock over
it, saved games, heap, cache, combat, animations, items with the inventory's windows. Next, in order of what would hurt most:

1. *Critters' events* (`CritterEvents`): knockout, poison, radiation, sneak and drug
   events against the flags they stand for, over `EventList`. Known
   weak points: `critter_wake_clear` keeps KNOCKOUT when a map is left; an antidote leaves
   a POISON event queued; a withdrawal lost in the gap of section 4.1; deaths in an exit explosion that
   free the next event of the walk that set it off (section 4.1).
2. *Characters* (`Character`): points, tags, traits and perks; cancel restores; level ups.
3. *Drugs and explosives* over `Items`: a dose's three events, a timer that destroys what carries it.
4. *Actions* over `Animate`: each registered attack, use and pick up in full; doors, objects erased at the end of a sequence.
5. *Scripts* (`ScriptLists`, `Interpreter`): extents under removal; calls between programs.
6. *Algorithms*: `assoc`, `lzss`, `rect`, `roll`, `skill` and `tile` geometry as operators checked against
   reference definitions, in one run together with the search of the cache.
7. *Windows and input*: deletion in callbacks; ring buffers. *Sound*: the cache of effects, fades.
8. The prototypes' extents, the party across maps, the automap's data base.

Abstract specifications worth stating beside `EventList` and `BlockStore`: a store of files
that is replaced atomically (for `SaveSlot`), a map from keys to data (for `Cache`), a round
in which everyone has a turn (for `Combat`).
Theorems worth proving next: `CalledOnce` and `AnimationsCounted` of `Animate`; `OnePlace` of `Inventory`,
once the lists within lists of `Items` are written without recursion.

## 3. Modules

| module | models | extends / uses |
|---|---|---|
| `Lists` | the part of a list that a loop keeps; where something belongs in a sorted list | |
| `EventOrder` | events, and the order of their times | `Lists` |
| `EventList` | what the queue promises: a sorted list, and events in the hands of handlers | `EventOrder` |
| `QueueList` | `queue.cc` node by node, with its walks suspended in handlers | instantiates `EventList` |
| `GameTime` | the clock, its standing events, everyone who moves it | `EventOrder`, `Lists` |
| `SaveSlot` | `SaveSlot`/`LoadSlot` of `loadsave.cc`, file by file | |
| `BlockStore` | what the heap promises | |
| `Heap` | `heap.cc` on memory cells | instantiates `BlockStore` |
| `Cache` | `cache.cc`, over a heap that may refuse | `Lists` |
| `CacheFind` | `cache_find`, step by step, and its proof | |
| `Combat` | the turns of `combat.cc` | `Lists` |
| `Animate` | the sequences of `anim.cc`, with `combat_turn_run` | |
| `Items` | the lists and stacks of `item.cc`, as operators on a world | |
| `Inventory` | the windows of `inventry.cc`, and what scripts and fights do to items | `Items` |
| `ListProofs` | lemmas about lists, sorted lists, ranges and sums | `Lists`, `TLAPS` |
| `QueueListProofs`, `GameTimeProofs`, `SaveSlotProofs`, `HeapProofs`, `CacheProofs`, `CombatProofs` | the theorems about the module they are named after | that module, `ListProofs` |
| `MC*` | instances for TLC | |

`GameTime` keeps the queue as `EventList` describes it, which the run `queue` justifies.
`Cache` treats `heap_allocate` as something that may fail and `heap_lock` as giving a
block its address; `Heap` shows that its blocks behave so (`BlockStore`).

### 3.1 QueueList and EventList
`next` is the pointer in each node and in the head (`queue`), `rec` a node's fields, `live` the
allocated nodes. A call that walks the list or runs a handler is a record on `stack`, with
its local pointers (`ptr`, `curr`, `tmp`); each iteration of a loop is an action, and while a handler
or a callback runs, any operation may start (callbacks only those in `CallbackCalls`). Nothing keeps a callback from
freeing the nodes its own walk goes on with (`Holds`): an exit explosion (queue.cc:428) runs `action_explode`, whose damage
kills critters and runs scripts, and these call `queue_remove`. A call in progress remembers that it happened (`stale`);
when it goes on, the code reads and writes freed memory, and the model ends there with `astray` (`ClearAstray`).
Up to that step the model is the code's, and the properties hold of it. Nodes are symmetric.

### 3.2 GameTime
`clock` is `fallout_game_time`, `queue` the events, `calls` the nested `queue_process` calls with
the time each read at its start, `activity` the loop that drives the clock (play, world map, rest, each
with what it does when the drain returns). `midnights` and `latest` are history. A day is `Day` ticks, a minute
`Minute`.

### 3.3 SaveSlot
`sav`, `bak` and `maps` say which save each file belongs to (or that it is partial). `pc` follows
`SaveSlot` through `SaveBackup`, the handlers, `GameMap2Slot`, `RestoreSave` and `EraseSave`. Every file
operation takes `ok`; `Works` counts the failures. Two kinds of failure the code does not notice, and neither does the
model's `SaveSlot`: `db_fwrite` returns a count, never the -1 that a map's name and the signature are checked against
(`LoseWrite`), and nobody looks at the result of `db_fclose` (`LoseWrite` for SAVE.DAT, `CopyMapShort` for a copy). They leave
`pc` and `rc` as if all were well; `lost` is history, the files of each save that are less than whole for it. A save of which
something was lost may fail at any point of a load, and a SAVE.DAT that lost a write may name any maps. `replaces` is whether `rename` replaces a file: POSIX does, the
Windows and FAT libraries of `compat_rename` do not. A crash may come between any two steps.
The data the handlers write are one write before and one after the maps. Of the MAPS directory only the names are modelled: a
map that is written there short is outside the model.

### 3.4 Heap and BlockStore
The record `heap` has the cells of memory (header, footer, data of the block's owner), the handles, and the four
counts and sizes the code keeps. `Walk` goes from block to block as the loops of the code do, as many as the counts say. `JoinFree` joins
neighbouring free blocks; `Extents` are the runs of free and moveable blocks, `Plans` those that are large enough, with a place reserved
for each of their blocks. `FindFree` finds a block, or moves the first extent of them, block by block (`MoveBlock`). The
system's blocks (`HEAP_HANDLE_STATE` system) are outside the cells.

### 3.5 Cache and CacheFind
Entries with key, block, references, hits and mru, in an array sorted by key; a call to `cache_lock` in progress
(`cache_add` with up to ten attempts to make room, then a flush). Readings and allocations fail at will.
Users hold entries. `CacheFind` is the binary search alone, one probe a step.

### 3.6 Combat
`fight` has the array and `list_com`, `list_noncom`, `list_total`; `run` is where `combat()` is: which turn
of the round, or which of the others is asked to join, and what called `combat_turn`. `results`, `maneuver`,
`hurt` (damageLastTurn > 0) and `whoHitMe` are the critters' fields that decide turns. An attack is its
outcome (`Hit`); it may come from any choice of the AI. `Sequence` is all of `combat_sequence`
after the joining: `Buried` and `Rested` are its two exchange loops, statement for statement. Saving keeps numbers
(`cid`) and loading finds critters by them (`Placed`, `HitBy`) in the order of the map's tiles, which may have changed.
`acted` is history. `may` is what happens in a behaviour, chosen at its start from `Settings`.

### 3.7 Animate
`anim_set` has the slots with their flags (`field_0` counts what has begun, `animationIndex` what is over), `sad`
the table with the lines beyond `curr_sad` too. `anim_set_check`, `anim_set_end`, `object_animate`, `check_registry` and
`anim_stop` call each other, so each call in progress is a frame of `stack` with its locals and each step of a loop an action;
`rc` is what the last call returned. Game code (commands, callbacks, scripts) is a sequence of
operations, a `code` frame; `CodeOf` says which a kind of callback may run. `combat_turn_run` is the operation `wait`: it runs
the background process within whatever called it. How long an animation plays is a number of ticks.
`lost` and `spoiled` are history.

### 3.8 Items and Inventory
`Items` is one operator per function of `item.cc`, from a *world* (a record of objects, lists, ground, slots, opened
containers, bonus, what is set aside) to the world the call leaves. Stacks keep the code's rule: an entry is one object and a
quantity, the first clip of a stack has the odd rounds, a split takes a copy. `Inventory` keeps the world as
variables; an action is one input of the player in a window, or one call while none is open, from its first line to its return: while
a window is open nothing else runs, so no two of them interleave. `Becomes` writes a world back.

Some sequences of legal calls break the code's own rules. Each is recorded in `mishap` where it happens, and what
follows the first one is not looked at:

| mishap | where | what happens |
|---|---|---|
| `in both hands` | `inven_pickup` | one item held in both hands is taken from one of them |
| `in itself` | Take All, then move | a bag that was open on the other's side is moved into itself |
| `worn in hand` | `inven_wield` by a script | armour in a hand is put on |
| `money misread` | `item_drop_all` | the entry's quantity is read after its removal |
| `purse doubled` | `item_caps_adjust` | a bag whose money does not cover what is due is given as much again instead of being emptied |
| `refused twice` | `drop_into_container` | what the container refuses cannot go back either |
| `still in hand` | `barter_inventory`, `loot_container` | of a held stack one is set aside, the rest keeps the flag |
| `charges` | `op_rm_obj_from_inven`, `op_add_obj_to_inven` | money has the worth it had when it last lay on the ground |
| `bonus kept` | `op_destroy_object` | worn armour is destroyed and its bonus stays |

All of them are reachable in the run `inventory`. `MaxObjects` too is a mishap, of the model (no room for one more copy); it is never met.

## 4. Runs

All sizes are the smallest in which every action fires and the hard cases meet.

**4.1 queue.** Three nodes, two owners and types, two times, three nested calls: enough for a
handler inside a clearing inside a handler with a node on either side. `FewKinds` saves states: only events of one type may have either
owner. `CallbackCalls` has two members, of which one is chosen at the start: callbacks and what they call, explosions and
their scripts, do everything but add, or everything. Handlers do everything in both. In the first, no event is lost and none that was freed is linked
(`NoEventLostOrFreed`), a suspended walk resumes on good pointers unless just these were freed (`SuspendedWalkValid`), and the list
implements `EventList` (`ImplementsEventList`). Where callbacks add (the events are then all of one owner), as `item_d_take_drug` does when it clears a withdrawal, an event can
be cut out of the list, and `LossOnlyInGap` says in exactly which case. Nothing is claimed of what follows a use of freed memory, nor that there is
none: `ClearAstray` fires in both.

**4.2 game_time.** Two days of four ticks, three events, two nested drains, delays of 0 and 3, steps of 1 and 4
(less and as much as a day). `MidnightPending`, `OncePerDay`, `NeverEarly`, `DrainedOnReturn` always; `HandledInTimeOrder`
as long as no handler moves the clock during rest or travel (then it does not hold, and the code does not claim it).

**4.3 save_slot.** Two maps, three saves, two faults, one crash, both kinds of rename. `SuccessIsNewSave`,
`OneFaultAllOrNothing`, `OldSaveOnDisk`, and `LoadGivesOneSave` up to the number of failures its comment names:
one more and a load can mix two saves. What the code does not give, and no property claims: that one failing operation never costs a
saved game. If the operation is one of those nobody checks, `SaveSlot` returns 0 and erases the backup of a save that is
whole, over one that is not; the properties say only that the slot's files are then all of the new save, and whole if nothing failed.

**4.4 heap.** All requests from the empty heap of 14 cells; and four requests from three
heaps of 20 cells in which an extent must move (two blocks at once, a whole free block, leaving a rest). `HeapValid` is
`heap_validate`; `HandlesAgree`, `EmptyHeapServes`; `KeepsBlocks`, that every step is one of `BlockStore`, is the promise to the cache.

**4.5 cache_use, cache_find.** Keys whose data do not all fit, two references at a time, and a counter of
hits that is renumbered when it reaches five (`Width` stands for `UINT_MAX + 1`). `HeldIsPinned`, `HeldKeepsBlock`, `BlocksAccountedFor`, `SizeRight`, `ArrayInOrder`, `RoomIsMade`.
`cache_find`: arrays up to eight, `FindsIt` and `Ends`.

**4.6 combat.** The player, a friend and an enemy faster than both. What may happen is chosen at the start, among six
sets. In three, two attacks with any outcome,
fleeing, giving up, quitting: enough for one critter to die and another to fall in the same round, for the exchanges to meet, and for
those out to join again. `ListHoldsAll`, `NobodyActsTwice`, `NobodyPassedOver`, `NewRoundIsFit`. In the others, one save,
loaded at peace, or over another fight, with two orders of the tiles (`LoadRestores`, and that no turn is lost); and
scripts that take critters out and put them in (`NewRoundIsFit`).

**4.7 animate.** Two critters, three slots (so that a sequence, the one that waits for its ping and one from a script
fill them), a table of three lines (so that it can be full and compacted), three commands among those the game registers: an attack
with a second critter hit, explosions and damage whose reports run scripts, uses, fidgets, scripted animations, stops, fights that
begin and end. Any animation may fail or take one tick more. `AnimationsCounted` ties the count `combat_turn_run` waits on to the
sequences in the slots; `BegunIsPlayed` and `DoneIsDone` tie slots and table together through nested background
processes; `CalledOnce`; `FightGoesOn` is the liveness of a fight. Three things break some of them and are named in the properties: a slot
taken again under a call that still works with it, a step counted for an animation that a script ended within it (both in
`lost`), and a ping whose sender was ended (`PingLost`).

**4.8 inventory.** Nine worlds of up to five objects, each with the windows and calls that meet in it: clips of two rounds, one begun,
and a gun of three (loading in any order); two armours and a knife (hands, worn, scripts); a locker with a bag in it; someone robbed,
bartered with, killed; money in two bags. Bags hold three and the player carries three, so that both refuse. All sequences of
actions are taken, up to the first mishap. `Accounted` counts every kind in every list, slot, table and on the
ground; `OnePlace`; `BonusOfArmour`; `GearRestored`.

**4.9 Disagreements with the code's own text.** `cache_mru`: after 2^32 locks the order of use is
reversed, against `cache.h`. `combat_scripts`: `combat_delete_critter` and the check in `combat_load`
contradict each other, and a game saved after a script killed a critter in a fight cannot be loaded. `inventory_weight`: with a bag of his open, the player takes more than the message
"You are at your maximum weight capacity" allows, since what he holds and wears is not weighed then.

Deadlock is not checked: the bounds stop every model, and the game may simply be left alone.

**Fairness.** `CacheFind`: a loop that can go on does. `Animate`: a call in progress goes on (weak fairness of `Step`: the program is sequential and
nothing in these calls blocks), and the background process is run again and again while there are animations in the table (strong fairness
of `StartBk`: the main loop and every window call `get_input`, which runs `process_bk`; it is disabled only while a
command is in progress). The player, who starts everything else, owes the program no step, so no other liveness is claimed.

## 5. Proofs

TLAPS proves the following for every value of the constants, from the assumptions named in the modules (finite sets, numbers
in range, sets of times wide enough for what is added to them). `Only`, the loops of `Combat` and the sums of `Cache` are recursive
functions; what they do is proved by the induction of `ListProofs`, stated for a *set* of numbers (`RangeInduction`) or of subsets
(`SubsetInduction`) instead of a predicate, and by the existence of such functions (`RangeRecursion`).

**Queue.** `ListStaysSorted`: the abstract queue is in order of time after every operation. The work is in `InsertAt`
and removal (`ListProofs`).

The linked list (`QueueListProofs`) is what the code has. That the nodes reached from the head are finitely many, each once, is not a
formula about pointers one can keep from step to step, so the invariant has a *witness*: there is a sequence `c` of nodes (`Good(c)`)
through which the pointers lead from the head to NULL, and every pointer a call in progress holds is at a named place of it. For a
`queue_clear_type` in a callback there are two places, the slot it will write and the node it goes on with (`ClearAt`): they are next
to each other unless callbacks queue events, and what lies between is what it cuts off. Each call in progress owns at most one node,
out of the list, and no two the same. `ChainIs` shows that the list the model reads off the pointers is this `c`. One lemma for each step says
what it makes of `c` (a node put in, taken out, or the stretch between two places cut). From this:
- `NoEventLost`, `WalksStayValid` (`NoEventLostOrFreed`, `SuspendedWalkValid`): on `QueueInv`, which adds that nothing is lost where
  callbacks add nothing.
- `LossIsInTheGap` (`LossOnlyInGap`): where they do, a step that loses a node is the return of a callback, and the node lay between.
- `ImplementsList` (`ImplementsEventList`): under the mapping of the run `queue`, the initial state is `EventList`'s and each step one of
  its steps or a stutter, in the behaviours where callbacks add nothing (in the others it promises no list). The nodes in calls in progress are events in the hands of handlers (`HandsOf`); `Shows` says how a step's
  change of `c` shows there. An insertion is `EventList`'s only at the last iteration of its loop, which needs that all passed before are earlier or as early.
- `ListInOrder`: the list from the head is in order at every moment, and so it will be with the event in the hands of a clearing put
  back: it is due between the two events its walk goes on with (`HeldFits`), unless these were freed.

Assumed: the pointers are distinct from NULL and the head, and nodes finitely many (`PointerAssumption`). These theorems, but not
`ListStaysSorted`, are of callbacks of `queue_clear_type` that call `queue_add` and `queue_remove` (`PlainCallbacks`, a hypothesis of each), on any event,
those the walk goes on with too; handlers of `queue_process` call anything. The callbacks the code has are `get_rad_damage_level`, `clear_rad_damage`,
`item_wd_clear_all` and the last column of the table of event types; none of them calls `queue_process` or `queue_clear_type` by itself, only
a script that an explosion or a destroyed object runs could. That case, a clearing or a drain nested in a callback, is left to the run `queue`.

**Clock** (`GameTimeProofs`). `NoHandlerRunsEarly`, `CallsStayBehind`: `NeverEarly` is not inductive: a call in progress has read
the clock before, so the invariant says that no call in progress has read a time later than the clock *shows now*, which holds though
rest and travel set it back, because they do so only with no call in progress or with the one that returns.
`MidnightStaysPending`, `MidnightOncePerDay`, `QueueDrainedOnReturn` rest on `DayInv`, which adds: the queue is in order (so that its
first event says what is due); a call that is not the innermost waits in a handler that may call another; no day is counted that has not begun;
and each midnight in the queue is of a day later than all that were counted, *unless* a handler of midnight is at work (`NextDay`). This
exception is what the movie needs: while it plays, maps may be entered and midnights queued, but the handler drops them all
before it queues the next. The assumption `DayAssumption` asks that a day is at most the longest clock and that times
are closed under the delays; nothing bounds the days or the events.

**Saved games** (`SaveSlotProofs`), for any set of maps. `ReportedSavesAreNew`: `SuccessIsNewSave`, with any faults, noticed or not, and any crashes. The invariant
says at each `pc` which files are already those of the new save: `todo` shrinks exactly as they are written. `Unlost`: a write is lost only by failing, so that a save without failures is whole. `SlotTypeOK`:
the type invariant, of which the hard part is that `map_backup_count` counts files there are. `FaultAllOrNothing` and `OldSaveStays` rest on
`FInv`: while nothing failed (`NoFaultYet`), at each `pc` which files of the slot before the save were moved and which
are still in place; after the one failure (`OneFaultYet`), that the count is the number of map files there were, so that `RestoreSave`
puts back all of them, and that a slot that had no save is empty when it is erased. It needs that a slot without SAVE.DAT
holds no other file of a save (`Clean`), which is true only while nothing has failed.

`LoadsAreOfOneSave` (`LoadGivesOneSave`) is about every later save and load too, so its invariant `LInv` says what each failure leaves behind, by
their number: after none the slot is empty or one whole save (`AfterNone`); after one, SAVE.DAT has maps of its own save or none
beside it, and where SAVE.DAT is gone that holds of the one in the backup, for the slot and the backup both (`Left`), because the failing save undoes itself
exactly (`OneFaultYet`) or the crash left parts of one save. The next save may then move its files over such a backup (`Again`). If it fails in turn,
`RestoreSave` could mix the two; what forbids it is `map_backup_count`: it counts the slot's files before the move, and when the backup has just as many, it holds those
and no others (`SameFiles`); when it has more, everything is erased (`ToRestore`, `Restored`). After two failures all saves succeed, and what they write is whole. Where rename
does not replace files the second failure is not needed for a backup to be left in the way, hence the smaller bound. Each lemma is one part of the program under all three counts
(`BackupAgain`, `WritingAgain`, `EraseAgain`, `MapsAgain`, `CrashKeeps`).

**Heap** (`HeapProofs`), for every size of memory, of blocks and of requests, and any number of handles. Everything the code does
starts from a walk along headers, and a walk is not a formula that can be kept from step to step; so `HeapInv` too has a witness, the set `B` of
the addresses of blocks, which tile the memory (`Tiled`): each begins with a header, ends with a footer, and the next begins
where it ends. `WalkIs` shows that a walk as long as the counters say finds these blocks and stops at the end. Around it: handles and blocks
point at each other (`Owners`), the counters count the blocks in each state and what they hold (`Tallies`), what was
written is there (`Kept`), the system's blocks are accounted for (`Systems`). That free blocks and sizes are right need not be part of
it: they are what the others leave of the memory (`AllOfMemory`, `FreeTally`).

While an extent is moved, some of its blocks have left and their headers are still there, so all this is stated with a set `S` of blocks that are nobody's
(`Good`). Each part of a request says what it makes of `B` and `S`: joining (`JoinFreeIs`), moving one block onto a free one, whose rest is
merged or becomes a block (`MoveBlockIs`), all of them, where places reserved earlier must still be free (`MovesAll`), making the extent one free block
(`MergeIs`), more handles (`GrownGood`), splitting what is taken (`TakeIs`). The owners' operations leave everything beside
their own handle alone (`Beside`). From this:
- `HeapIsValid`, `HandlesAreBound`, `EmptyIsWhole` (`HeapValid`, `HandlesAgree`, `EmptyHeapServes`). The last: with no handle in use all
  blocks are free, joining leaves one, and it is the whole memory.
- `BlocksAreKept` (`KeepsBlocks`) and `ImplementsBlockStore`: a step is seen at its own handle only (`StepOn`, `SeenBeside`), and as the action
  `BlockStore` has for it; the cells a block gets when it is locked are no other's because blocks do not overlap (`CellsApart`).

Assumed (`HeapAssumption`): a heap has room for a header and a footer, a block worth splitting off has room for both and a cell, requests are
of at least one cell (`heap_allocate` rounds up to the next word, even a size of 0), and handles grow by at least one.

**Cache.** `SearchIsRight` (`CacheFind`): the answer of the search is right whenever there is one. The invariant: the key is not
left of `left` nor right of `right`. `UsersPointersAreGood`, `HeldBlocksStay`, `NoBlockIsLost` (`CacheProofs`): the
promises to the users, over any behaviour of the heap's allocation. The invariant adds to them that each block has one entry and each user one
reference, and what a `cache_add` in progress holds. `ArrayStaysInOrder` and `SizeStaysRight` rest on `ArrayInv`: the array ascends and names
just the entries there are, the size is the sum over them, and while `cache_add` waits for memory there is room for what it adds. Sums
over sets are shown to be additive (`SumUnion`), so that what `cache_purge` subtracts is what it removes.
`RoomIsFound` (`RoomIsMade`): `cache_make_room` gives up only when what is referenced leaves no room. `RoomInv` adds to `ArrayInv` that
hits and times of use are numbers (`Counted`), hence among any entries one is used least (`LeastUsed`) and a first one reaches the threshold;
then what is marked weighs as much as is asked, or is all that nobody holds (`MarkedSuffice`), and its removal leaves room (`MakeRoomEnough`).

**Fights** (`CombatProofs`). `ListKeepsAll`: the list of a fight in which scripts kill, remove and create nobody is a
permutation of the critters of the map, with only dead behind its two parts, in every behaviour. The invariant has three
parts: the list is a bijection from its places (`Full`); so is that of the saved game, and its numbers are those of the critters
(`SavedFull`), which is why `combat_load` finds one for each place; and where `combat()` is (`Phase`), since an index in use bounds what
the loop about to run may exchange. The exchanges are proved loop by loop: `SiftInv` says what holds after each turn of the
loops of `combat_sequence` (those looked at stay, those exchanged away are behind, none is lost), and `BuriedIs` and `RestedIs` what the
loops come to; `ArrangedIs` does it for `combat_sequence_init`, `PlacedHolds` for `combat_load`.
`NewRoundStartsFit`: every new round is fought by the player and those able to, with scripts too. It has one hypothesis
about `Settings`: a fight may not be both loaded over another (`"reload"`) and changed by scripts in the same behaviour, as no setting of
the run has it. Where both happen, scripts may take so many out in the player's turn that its index is no longer below
`list_com`; if he then loads a game without a fight, `combat` (`combat.cc`, line 2444) takes the round for finished and calls
`combat_sequence` with no list. Of the map it is assumed that a layout lists every critter once (`CombatAssumption`).

`NoTurnTwice` (`NobodyActsTwice`) and `EveryoneHasATurn` (`NobodyPassedOver`) are about the history `acted`, which the list alone does not
determine: `TurnInv` says who has had a turn at each place of `combat()` (`TurnAt`). In the round they are those up to the index, while others are asked
to join all of `list_com`, and in someone's turn those before him, whichever loop called it; in a fight about to be loaded, those up to the player's
place. The same must be known of the saved game by the critters' numbers (`SavedTurn`), since `combat_load` finds them again
in another order of the map, and of the exchanges when someone joins in the middle of a round (`OneMore`). `EveryoneHasATurn` has no hypothesis
but what the property itself says (no script changes the list, no fight is loaded over another).
`NoTurnTwice` has one about `Settings`: a fight may not be both loaded over another and have its round broken off by a script in the same behaviour.
TLC shows that it is needed: give one setting `{"lose", "quit", "save", "reload"}`, and a script breaks off the
loaded round while the loop of the old fight is still there; that loop then goes on behind the player's place, and those who have had their turn get another.
`LoadedFightIsTheSaved` (`LoadRestores`) needs besides that whoever hit somebody is a critter with a number, in the fight
and in the saved game (`HitInv`); its hypothesis is that of behaviours with loading none has scripts that take critters out or put some in.

**Only model-checked**, and why:
- `HandledInTimeOrder`: it holds on condition of a history of who moved the clock.
- `Animate` (a stack of calls, each with its own kind of locals): not done.
- `Inventory`: `Items` has `RECURSIVE` operators, for lists within lists, with which the provers cannot work.
- `QueueList` where a callback processes or clears the queue in its turn (`PlainCallbacks` leaves it out): with it, an
  inner walk may hold the very nodes the outer one goes on with, and the places of the invariant would have to say so.
- Liveness (`Ends`, `FightGoesOn`), which is out of the prover's reach, as is `ENABLED`.

## 6. Not modelled

Numbers of the game's rules (damage, chances, experience), drawing, decoding of pictures, sounds and movies, the
vendored libraries, benchmarks. What is planned and what is left out for good is in `PROJECT.json`, component by component.
Within the modelled parts: `queue_save`/`queue_load`, the scripts of a map's update event (`scr_exec_map_update_scripts`, which `GameTime`'s
`PopMapUpdate` leaves out), the attacker's own damage and the scripts of `apply_damage` (`Combat`), a new path for a blocked critter and its end for want of action points
(`Animate`), a second forced callback of a sequence that an inner end has freed (the runs have one), `item_replace`'s search in containers, the slot browser of `loadsave.cc`, `qsort`'s failure modes, lack of memory for small structures,
and a hidden or far critter in `combatai_want_to_join` (all critters of `Combat` are seen and on one level). Of animations: paths, pictures, doors' own
animation, sounds, the erasing of objects by a sequence, callbacks with a third argument. Of items: drugs and withdrawal, explosives, scripts attached to items,
devices switched on, worlds with bags in bags (the operators allow them), paging between the bodies of one tile, the effect of an item on statistics,
the armour bonus of others than the player, prices, and being caught while stealing.
