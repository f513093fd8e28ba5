----------------------------- MODULE Inventory -----------------------------
(***************************************************************************)
(* The windows in which the player handles items (src/game/inventry.cc):   *)
(* his own inventory, looting, stealing and barter, with the tables of     *)
(* gdialog.cc; and what scripts, the interface bar and fights do to items  *)
(* while no window is open.  Every action is one input of the player or    *)
(* one call, from its first line to its return: a drag and drop is one     *)
(* handler.  While a window is open nothing else runs.                     *)
(***************************************************************************)
EXTENDS Items

CONSTANTS Settings,    \* initial worlds: [obj, list, may], see MCInventory
          MaxCaps      \* bound: the money there is, scripts giving more

VARIABLES obj, list, ground, slot, stack, tstack, ac, aside, mishap, \* the world of Items
          window,      \* "none" or the window that is open
          dead,        \* npc has been killed
          may,         \* bound: the windows and calls of this behaviour
          gear,        \* history: npc's equipment when the window was opened
          owed         \* history: what there should be, see Totals

world == <<obj, list, ground, slot, stack, tstack, ac, aside, mishap>>
vars  == <<world, window, dead, may, gear, owed>>

World == [obj |-> obj, list |-> list, ground |-> ground, slot |-> slot, stack |-> stack,
          tstack |-> tstack, ac |-> ac, aside |-> aside, mishap |-> mishap]

Becomes(w) ==
    /\ obj' = w.obj /\ list' = w.list /\ ground' = w.ground /\ slot' = w.slot
    /\ stack' = w.stack /\ tstack' = w.tstack /\ ac' = w.ac /\ aside' = w.aside
    /\ mishap' = w.mishap

\* Every place an item of an inventory can be in but a list
Loose(w) == (({w.slot[s] : s \in Sides} \union {w.aside[s] : s \in DOMAIN w.aside}) \ {none})
            \union w.ground

\* How many there are of each kind (of money: what it is worth), clips counted
\* by their rounds and with those in guns
Totals(w) ==
    LET Entries == {<<h, k>> : h \in Owners \union Ids, k \in 1..MaxObjects}
        Here == {e \in Entries : e[2] \in DOMAIN w.list[e[1]]}
        Item(e) == w.list[e[1]][e[2]].item
        Quantity(e) == w.list[e[1]][e[2]].quantity
        Worth(i) == IF KindOf(w, i) = "caps" /\ i \in w.ground
                    THEN Max({w.obj[i].rounds, 1}) ELSE 1
    IN [k \in Kinds \ {"clip"} |->
           MapThenSumSet(Quantity, {e \in Here : KindOf(w, Item(e)) = k})
           + MapThenSumSet(Worth, {i \in Loose(w) : KindOf(w, i) = k})]
       @@ [clip |->
           MapThenSumSet(LAMBDA e : (Quantity(e) - 1) * ClipRounds + w.obj[Item(e)].rounds,
                         {e \in Here : KindOf(w, Item(e)) = "clip"})
           + MapThenSumSet(LAMBDA e : Quantity(e) * w.obj[Item(e)].rounds,
                           {e \in Here : KindOf(w, Item(e)) = "gun"})
           + MapThenSumSet(LAMBDA i : w.obj[i].rounds,
                           {i \in Loose(w) : KindOf(w, i) \in {"gun", "clip"}})]

NoSlots == [s \in Sides |-> none]
NoAside == [s \in Sides \union {"weapon"} |-> none]

Init ==
    /\ \E s \in Settings : obj = s.obj /\ list = s.list /\ may = s.may
    /\ ground = {} /\ slot = NoSlots /\ stack = <<dude>> /\ tstack = <<>> /\ aside = NoAside
    /\ ac = 0 /\ mishap = "" /\ window = "none" /\ dead = FALSE /\ gear = NoSlots
    /\ owed = Totals(World)
-----------------------------------------------------------------------------
(* What the player points at: a row of one of the lists shown or, in his   *)
(* own inventory, one of the three slots.                                  *)

Key(at, row) == [at |-> at, row |-> row]

Holder(w, key) == CASE key.at = "own"    -> Opened(w)
                    [] key.at = "target" -> Last(w.tstack)
                    [] key.at = "peon"   -> peon
                    [] key.at = "barterer" -> barterer
                    [] OTHER             -> w.stack[1]

\* inven_from_button
At(w, key) == IF key.at \in Sides THEN w.slot[key.at]
              ELSE IF key.row \in DOMAIN w.list[Holder(w, key)]
                   THEN w.list[Holder(w, key)][key.row].item ELSE none

Count(w, key) == IF key.at \in Sides THEN 1 ELSE w.list[Holder(w, key)][key.row].quantity

Rows(at) == {Key(at, r) : r \in DOMAIN list[Holder(World, Key(at, 1))]}

InSlot(key) == key.at \in Sides

\* Mutant: armour that leaves its slot keeps its bonus.
EmptiedOnly(w, key) == IF InSlot(key) THEN [w EXCEPT !.slot[key.at] = none] ELSE w

\* The slot the item came from is cleared, if it was one.
Emptied(w, key) ==
    IF ~InSlot(key) THEN w
    ELSE [IF key.at = "worn" THEN Adjust(w, w.slot["worn"], none) ELSE w
            EXCEPT !.slot[key.at] = none]

\* drop_into_container: what is refused is put back, unless that is refused
DropInto(w, c, i, key, q) ==
    LET Back(v, t) == IF t.ok THEN t.w ELSE [Erase(v, i) EXCEPT !.mishap = "refused twice"]
        Put(v, t) == IF t.ok THEN Did(Emptied(t.w, key))
                     ELSE Fails(IF InSlot(key) THEN v ELSE Back(v, AddMult(v, Opened(v), i, q)))
        On(r) == IF r.ok THEN Put(r.w, AddMult(r.w, c, i, q)) ELSE r
    IN On(IF InSlot(key) THEN Did(w) ELSE RemoveMult(w, Opened(w), i, q))

RECURSIVE LoadClips(_, _, _, _, _)

\* The loop of drop_ammo_into_weapon: n clips, each looked for anew where the
\* first one was
LoadClips(w, g, c, key, n) ==
    LET Next1(v) == LoadClips(v, g, At(v, key), key, n - 1)
        On(r) == IF r.rc = 0 THEN Next1(Destroy(Emptied(r.w, key), c)) ELSE r.w
    IN IF n = 0 \/ c = none THEN w ELSE On(Reload(w, g, c))

\* drop_ammo_into_weapon
DropAmmo(w, g, c, key, n) ==
    LET On(r) == IF r.ok THEN AddForce(LoadClips(r.w, g, c, key, n), Opened(w), g, 1)
                 ELSE LoadClips(w, g, c, key, n)
    IN IF CanReload(w, g, c) THEN Did(On(RemoveMult(w, Opened(w), g, 1))) ELSE Fails(w)

\* switch_hand.  The caller for the left hand always has an item removed from
\* the list, that for the right one only if it came from there.
SwitchHand(w, i, side, key) ==
    LET cur == w.slot[side]
        Taken(v) == IF side = "left" \/ ~InSlot(key) THEN RemoveMult(v, Opened(v), i, 1).w ELSE v
        Held(v) == [v EXCEPT !.slot[side] = i]
        Swapped(v) == [v EXCEPT !.slot[key.at] = cur]
    IN CASE cur = none -> Taken(Held(Emptied(w, key)))
         [] cur # none /\ TypeOf(w, cur) = "weapon" /\ TypeOf(w, i) = "ammo" -> w
         [] OTHER ->
              IF InSlot(key) /\ (key.at # "worn" \/ TypeOf(w, cur) = "armor")
              THEN Taken(Held(Swapped(IF key.at = "worn" THEN Adjust(w, i, cur) ELSE w)))
              ELSE Held(Emptied(AddForce([Taken(w) EXCEPT !.slot[side] = none], Opened(w), cur, 1),
                                key))

\* inven_pickup onto the armour
Wear(w, i, key) ==
    LET old == w.slot["worn"]
        Off(v) == IF InSlot(key) THEN [v EXCEPT !.slot[key.at] = old]
                  ELSE IF old = none THEN v
                  ELSE AddForce([v EXCEPT !.slot["worn"] = none], Opened(w), old, 1)
    IN IF TypeOf(w, i) # "armor" THEN w
       ELSE [Adjust(Off(IF InSlot(key) THEN w ELSE RemoveMult(w, Opened(w), i, 1).w), old, i)
               EXCEPT !.slot["worn"] = i]

\* inven_pickup onto a row of the list, 0 for its empty part
DropOnList(w, i, key, row, q) ==
    LET On(d) == IF d.ok \/ ~InSlot(key) THEN d.w
                 ELSE AddForce(Emptied(d.w, key), Opened(w), i, 1)
        Onto(t) == CASE t = none \/ t = i -> Fails(w)
                     [] t # none /\ t # i /\ TypeOf(w, t) = "container" -> DropInto(w, t, i, key, q)
                     [] OTHER -> DropAmmo(w, t, i, key, q)
    IN On(Onto(At(w, Key("own", row))))

\* inven_pickup onto a hand
DropOnHand(w, i, key, side, q) ==
    LET cur == w.slot[side]
        On(d) == IF d.ok THEN d.w ELSE SwitchHand(w, i, side, key)
    IN IF cur # none /\ cur # i /\ TypeOf(w, cur) = "container"
       THEN DropInto(w, cur, i, key, q).w
       ELSE On(IF cur = none THEN Fails(w) ELSE DropAmmo(w, cur, i, key, q))

\* Only one of two hands that hold the same item is cleared.
BothHands(w, v) ==
    IF w.slot["left"] = w.slot["right"] /\ v.slot["left"] # v.slot["right"]
       /\ w.slot["left"] # none
    THEN [v EXCEPT !.mishap = "in both hands"] ELSE v
-----------------------------------------------------------------------------
(* The player's own window.                                                *)

\* Rows and slots the mouse can take an item from
Sources == Rows("own") \union {Key(s, 0) : s \in {t \in Sides : slot[t] # none}}

\* What do_move_timer answers, when it is not cancelled, to an item that counts q
Amounts(key) == 1..Count(World, key)

\* inven_pickup: what is let go over a row of the list, or below the last one
DragToList ==
    /\ window = "normal"
    /\ \E key \in Sources : \E q \in Amounts(key), row \in 0..Len(list[Opened(World)]) :
          Becomes(BothHands(World, DropOnList(World, At(World, key), key, row, q)))
    /\ UNCHANGED <<window, dead, may, gear, owed>>

DragToHand ==
    /\ window = "normal"
    /\ \E key \in Sources : \E q \in Amounts(key), side \in {"left", "right"} :
          Becomes(BothHands(World, DropOnHand(World, At(World, key), key, side, q)))
    /\ UNCHANGED <<window, dead, may, gear, owed>>

DragToArmor ==
    /\ window = "normal"
    /\ \E key \in Sources : Becomes(BothHands(World, Wear(World, At(World, key), key)))
    /\ UNCHANGED <<window, dead, may, gear, owed>>

\* Over the figure: into what encloses the container that is open
DragToBody ==
    /\ window = "normal" /\ Len(stack) > 1
    /\ \E key \in Sources : \E q \in Amounts(key) :
          Becomes(BothHands(World, DropInto(World, stack[Len(stack) - 1], At(World, key), key, q).w))
    /\ UNCHANGED <<window, dead, may, gear, owed>>
-----------------------------------------------------------------------------
(* The menu of inven_action_cursor, in every window.  In the others' lists *)
(* nothing can be dropped.                                                 *)

RECURSIVE DropSome(_, _, _)

\* The loop of "drop": n times one of what is in the row then
DropSome(w, key, n) ==
    IF n = 0 \/ At(w, key) = none THEN w
    ELSE DropSome(DropOne(w, Holder(w, key), At(w, key)), key, n - 1)

\* "drop" of money: one object worth m.  All of the m but one unit are taken
\* off first, as an object nothing refers to from then on.
DropMoney(w, key, h, i, m) ==
    LET r == IF m = 1 THEN w ELSE Erase(RemoveMult(w, h, i, m - 1).w, i)
        a == IF m = 1 THEN i ELSE At(r, key)
    IN DropOne([r EXCEPT !.obj[a].rounds = m], h, a)

Drop ==
    /\ window # "none"
    /\ \E key \in IF window = "normal" THEN Sources ELSE Rows("own") : \E q \in Amounts(key) :
         LET i == At(World, key)
             h == Holder(World, key)
             w == IF InSlot(key) THEN AddForce(Emptied(World, key), h, i, 1) ELSE World
         IN Becomes(BothHands(World,
              IF KindOf(w, i) = "caps" THEN DropMoney(w, key, h, i, q)
              ELSE IF InSlot(key) THEN DropOne(w, h, i)
              ELSE DropSome(w, key, q)))
    /\ UNCHANGED <<window, dead, may, gear, owed>>

Shown == CASE window = "normal" -> {"own"}
           [] window \in {"loot", "steal"} -> {"own", "target"}
           [] window = "barter" -> {"own", "target", "peon", "barterer"}
           [] OTHER -> {}

Unload ==
    /\ \E key \in UNION {Rows(at) : at \in Shown} \union IF window = "normal" THEN Sources ELSE {} :
         LET i == At(World, key)
             h == Holder(World, key)
             r == IF InSlot(key) THEN World ELSE RemoveMult(World, h, i, 1).w
             u == UnloadInto(r, h, i)
         IN /\ KindOf(World, i) = "gun" /\ obj[i].rounds > 0
            /\ Becomes(IF InSlot(key) THEN u ELSE AddForce(u, h, i, 1))
    /\ UNCHANGED <<window, dead, may, gear, owed>>

\* "use" of a container: container_enter
Enter ==
    /\ \E key \in UNION {Rows(at) : at \in Shown \intersect {"own", "target"}} :
         LET i == At(World, key)
         IN /\ TypeOf(World, i) = "container"
            /\ Becomes(IF key.at = "own" THEN [World EXCEPT !.stack = Append(@, i)]
                       ELSE [World EXCEPT !.tstack = Append(@, i)])
    /\ UNCHANGED <<window, dead, may, gear, owed>>

\* container_exit
Exit ==
    /\ \/ Len(stack) > 1 /\ Becomes([World EXCEPT !.stack = Front(@)])
       \/ Len(tstack) > 1 /\ Becomes([World EXCEPT !.tstack = Front(@)])
    /\ UNCHANGED <<window, dead, may, gear, owed>>
-----------------------------------------------------------------------------
(* Opening and closing windows.                                            *)

\* setup_inventory: what is in the hands and worn leaves the list.  Of two
\* with a flag the last counts.
SetUp(w) ==
    LET s == w.list[dude]
        Last1(P(_)) == LET at == {k \in DOMAIN s : P(w.obj[s[k].item].flags)}
                       IN IF at = {} THEN none ELSE s[Max(at)].item
        l == Last1(LAMBDA f : "left" \in f)
        r == Last1(LAMBDA f : "right" \in f)
        a == Last1(LAMBDA f : f = {"worn"})
        Out(v, i) == IF i = none THEN v ELSE RemoveMult(v, dude, i, 1).w
    IN [Out(Out(Out(w, l), IF r = l THEN none ELSE r), a)
          EXCEPT !.slot = [left |-> l, right |-> r, worn |-> a]]

Flagged(w, i, f) == [w EXCEPT !.obj[i].flags = @ \union f]

\* Mutant: what is in both hands is put back for each of them.
PutBackEach(w) ==
    LET Back(v, i, f) == IF i = none THEN v ELSE AddForce(Flagged(v, i, f), dude, i, 1)
    IN [Back(Back(Back(w, w.slot["left"], {"left"}), w.slot["right"], {"right"}),
             w.slot["worn"], {"worn"})
          EXCEPT !.slot = NoSlots, !.stack = <<dude>>, !.tstack = <<>>]

\* exit_inventory
PutBack(w) ==
    LET l == w.slot["left"]
        r == w.slot["right"]
        a == w.slot["worn"]
        Back(v, i, f) == IF i = none THEN v ELSE AddForce(Flagged(v, i, f), dude, i, 1)
        hands == Back(w, l, IF l = r THEN {"left", "right"} ELSE {"left"})
    IN [Back(Back(hands, IF r = l THEN none ELSE r, {"right"}), a, {"worn"})
          EXCEPT !.slot = NoSlots, !.stack = <<dude>>, !.tstack = <<>>]

\* What the other keeps out of sight: when robbed all he has in his hands and
\* wears, in a barter his armour and what he holds, or else his first weapon.
\* Of several he holds as one (knives to throw) one is taken, and the others are
\* still in his hand.
SetAside(w, wd) ==
    LET Aside(v, side) ==
            LET i == Equipped(v, npc, side)
            IN IF i = none THEN v
               ELSE [RemoveMult(v, npc, i, 1).w EXCEPT !.aside[side] = i,
                       !.mishap = IF v.list[npc][IndexIn(v, npc, i)].quantity = 1 THEN @
                                  ELSE "still in hand"]
        b  == Aside(Aside(w, "worn"), "right")
        f  == {k \in DOMAIN b.list[npc] : TypeOf(b, b.list[npc][k].item) = "weapon"}
        i  == b.list[npc][Min(f)].item
    IN IF wd = "steal" THEN Aside(Aside(Aside(w, "left"), "right"), "worn")
       ELSE IF b.aside["right"] # none \/ f = {} THEN b
       ELSE [RemoveMult(b, npc, i, 1).w EXCEPT !.aside["weapon"] = i]

\* Mutant: what the other wore is put back in his list and not on him.
GiveBackLoose(w) ==
    LET Back(v, side) ==
            LET i == v.aside[side]
            IN IF i = none THEN v ELSE AddForce(Flagged(v, i, {side} \intersect {"left", "right"}), npc, i, 1)
    IN [FoldLeft(Back, w, <<"left", "right", "worn", "weapon">>) EXCEPT !.aside = NoAside]

\* The end of loot_container and of barter_inventory
GiveBack(w) ==
    LET Back(v, side) ==
            LET i == v.aside[side]
                f == IF side = "weapon" THEN {} ELSE {side}
            IN IF i = none THEN v ELSE AddForce(Flagged(v, i, f), npc, i, 1)
    IN [FoldLeft(Back, w, IF window = "steal" THEN <<"left", "right", "worn">>
                          ELSE <<"worn", "right", "weapon">>) EXCEPT !.aside = NoAside]

GearOf(w) == [s \in Sides |-> LET i == Equipped(w, npc, s)
                              IN IF i = none THEN none ELSE KindOf(w, i)]

\* handle_inventory, loot_container and barter_inventory up to their loops
Open(wd, target) ==
    /\ window = "none" /\ wd \in may
    /\ window' = wd /\ gear' = GearOf(World)
    /\ Becomes([SetUp(IF wd \in {"steal", "barter"} THEN SetAside(World, wd) ELSE World)
                  EXCEPT !.tstack = IF wd = "normal" THEN <<>> ELSE <<target>>])
    /\ UNCHANGED <<dead, may, owed>>

\* dialogue_barter_cleanup_tables
CleanTables(w) == MoveAll(MoveAll(w, peon, dude), barterer, npc)

\* The ways out of the windows, ESC and quitting among them.  In a barter "talk"
\* clears the tables at once; otherwise the conversation does, afterwards.
Close ==
    /\ window # "none" /\ window' = "none"
    /\ \/ Becomes(CleanTables(PutBack(GiveBack(World))))
       \/ /\ window = "barter"
          /\ Becomes(PutBack(GiveBack(MoveAll(MoveAll(World, barterer, npc), peon, dude))))
    /\ UNCHANGED <<dead, may, gear, owed>>
-----------------------------------------------------------------------------
(* Looting and stealing.                                                   *)

\* A bag moved into the bag that is shown as the other's.
InItself(i, w) == IF i \in Ids /\ w.obj[i].owner = i THEN [w EXCEPT !.mishap = "in itself"] ELSE w

\* move_inventory, in either direction
MoveItem ==
    /\ window \in {"loot", "steal"}
    /\ \E at \in {"own", "target"} : \E key \in Rows(at) : \E q \in Amounts(key) :
         LET i == At(World, key)
             h == Holder(World, key)
             other == IF at = "own" THEN Last(tstack) ELSE Opened(World)
         IN Becomes(InItself(i, Move(World, h, other, i, q, FALSE).w))
    /\ UNCHANGED <<window, dead, may, gear, owed>>

\* The key A: everything that is not in sight too, if it is not too heavy
TakeAll ==
    /\ window = "loot"
    /\ TotalWeight(World, tstack[1]) <= CarryWeight - TotalWeight(World, dude)
    /\ Becomes(MoveAll(World, tstack[1], dude))
    /\ UNCHANGED <<window, dead, may, gear, owed>>
-----------------------------------------------------------------------------
(* Barter.                                                                 *)

\* barter_move_inventory and barter_move_from_table_inventory.  What is taken
\* from a bag of the other's is looked for from him on.
Offer ==
    /\ window = "barter"
    /\ \E at \in Shown : \E key \in Rows(at) : \E q \in Amounts(key) :
         LET from == IF at = "target" THEN npc ELSE Holder(World, key)
             to   == CASE at = "own" -> peon [] at = "target" -> barterer
                       [] at = "peon" -> Opened(World) [] at = "barterer" -> npc
         IN Becomes(Move(World, from, to, At(World, key), q, TRUE).w)
    /\ UNCHANGED <<window, dead, may, gear, owed>>

\* barter_attempt_transaction, when what is asked for is not worth more
Trade ==
    /\ window = "barter" /\ list[peon] # <<>>
    /\ Becomes(MoveAll(MoveAll(World, barterer, Opened(World)), peon, npc))
    /\ UNCHANGED <<window, dead, may, gear, owed>>
-----------------------------------------------------------------------------
(* Calls made while no window is open: by scripts, by fights, by the       *)
(* interface bar.                                                          *)

Calm(call) == window = "none" /\ call \in may

\* All there is in a holder's list and in the bags in it
Carried(h) == {i \in Ids : HolderOf(World, h, i) # none}

\* inven_wield, called by combat AI and, as op_wield_obj_critter, by scripts: an
\* item already in that hand is let go of.
Wielded(w, c, i, side) ==
    LET old == Equipped(w, c, side)
        off == IF side = "worn" THEN {"worn"} ELSE {"left", "right"}
        Off(v) == IF old = none THEN v ELSE [v EXCEPT !.obj[old].flags = @ \ off]
    IN IF side = "worn"
       THEN Flagged(IF c = dude THEN Adjust(Off(w), old, i) ELSE Off(w), i, {"worn"})
       ELSE Off(Flagged(w, i, {side}))

\* Armour put on the player while it is in his hand: the next window takes it
\* for what he holds and puts it back as no more.
\* Bound: the player is made to wield only what he has one of.
Wield ==
    /\ Calm("wield")
    /\ \E c \in Critters : \E i \in {list[c][k].item : k \in DOMAIN list[c]} :
       \E side \in IF TypeOf(World, i) = "armor" THEN {"worn"}
                   ELSE IF c = dude THEN {"left", "right"} ELSE {"right"} :
          /\ c = dude => list[c][IndexIn(World, c, i)].quantity = 1
          /\ c = npc => ~dead
          /\ Becomes([Wielded(World, c, i, side)
                        EXCEPT !.mishap = IF /\ c = dude /\ side = "worn"
                                             /\ obj[i].flags \ {"worn"} # {}
                                          THEN "worn in hand" ELSE @])
    /\ UNCHANGED <<window, dead, may, gear, owed>>

\* inven_unwield
Unwield ==
    /\ Calm("wield")
    /\ \E c \in Critters, side \in {"left", "right"} :
         LET i == Equipped(World, c, side)
         IN i # none /\ Becomes([World EXCEPT !.obj[i].flags = @ \ {"left", "right"}])
    /\ UNCHANGED <<window, dead, may, gear, owed>>

\* action_ranged with a weapon that is thrown
Throw ==
    /\ Calm("wield")
    /\ \E c \in Critters, side \in {"left", "right"} :
         LET i == Equipped(World, c, side)
             f == obj[i].flags \intersect {"left", "right"}
             r == RemoveMult(World, c, i, 1).w
         IN /\ i # none /\ KindOf(World, i) = "knife"
            /\ Becomes([Replace(r, c, i, f) EXCEPT !.ground = @ \union {i}])
    /\ UNCHANGED <<window, dead, may, gear, owed>>

\* op_rm_obj_from_inven.  Money keeps the charges it had when it was last on the
\* ground, and is worth them again.
ScriptTakes ==
    /\ Calm("take")
    /\ \E h \in Critters : \E i \in Carried(h) :
         LET r == RemoveMult(World, h, i, 1).w
             a == IF h = dude /\ obj[i].flags = {"worn"} THEN Adjust(r, i, none) ELSE r
         IN Becomes([a EXCEPT !.ground = @ \union {i},
                       !.mishap = IF KindOf(World, i) = "caps" /\ obj[i].rounds > 1
                                  THEN "charges" ELSE @])
    /\ UNCHANGED <<window, dead, may, gear, owed>>

\* op_add_obj_to_inven: one unit, whatever money on the ground is worth
ScriptGives ==
    /\ Calm("take")
    /\ \E h \in Critters, i \in ground :
          Becomes([AddForce(World, h, i, 1)
                     EXCEPT !.ground = @ \ {i},
                            !.mishap = IF KindOf(World, i) = "caps" /\ obj[i].rounds > 1
                                       THEN "charges" ELSE @])
    /\ UNCHANGED <<window, dead, may, gear, owed>>

\* op_move_obj_inven_to_obj
ScriptMoves ==
    /\ Calm("take")
    /\ \E h \in Critters : \E other \in Critters \ {h} :
         LET worn == Equipped(World, h, "worn")
         IN Becomes(MoveAll(IF h = dude THEN Adjust(World, worn, none) ELSE World, h, other))
    /\ UNCHANGED <<window, dead, may, gear, owed>>

\* op_destroy_object of all there is of an item; armour the player wears is not
\* taken off his bonus
ScriptDestroys ==
    /\ Calm("destroy")
    /\ \E i \in Ids :
         LET top == TopOf(World, i)
             h   == HolderOf(World, top, i)
             n   == list[h][IndexIn(World, h, i)].quantity
             v   == Erase(RemoveMult(World, top, i, n).w, i)
         IN /\ KindOf(World, i) \notin {"free", "bag"} /\ top \in Critters
            /\ Becomes([v EXCEPT !.mishap = IF top = dude /\ "worn" \in obj[i].flags
                                            THEN "bonus kept" ELSE @])
            /\ owed' = IF KindOf(World, i) = "clip"
                       THEN [owed EXCEPT !.clip = @ - (n - 1) * ClipRounds - obj[i].rounds]
                       ELSE [owed EXCEPT ![KindOf(World, i)] = @ - n, !.clip = @ - n * obj[i].rounds]
    /\ UNCHANGED <<window, dead, may, gear>>

\* obj_pickup by the player
PickUpItem ==
    /\ window = "none"
    /\ \E i \in ground : Becomes(PickUp(World, dude, i))
    /\ UNCHANGED <<window, dead, may, gear, owed>>

\* intface_item_reload
ReloadInHand ==
    /\ Calm("wield")
    /\ \E side \in {"left", "right"} :
         LET g == Equipped(World, dude, side)
         IN g # none /\ Becomes(TryReload(World, dude, g))
    /\ UNCHANGED <<window, dead, may, gear, owed>>

\* item_caps_adjust, by scripts and at the end of a barter of party members.
\* Bound: they give money while there is less than MaxCaps.
CapsChange ==
    /\ Calm("caps")
    /\ \E n \in {-3, -2, -1, 1} :
         /\ n > 0 => owed.caps < MaxCaps
         /\ Becomes(CapsAdjust(World, dude, n))
         /\ owed' = IF -n > CapsTotal(World, dude) THEN owed ELSE [owed EXCEPT !.caps = @ + n]
    /\ UNCHANGED <<window, dead, may, gear>>

\* show_death of one who is torn to pieces
Killed ==
    /\ Calm("kill") /\ ~dead
    /\ dead' = TRUE /\ Becomes(DropAll(World, npc))
    /\ UNCHANGED <<window, may, gear, owed>>

OpenAny == \/ Open("normal", none)
           \/ Open("loot", locker)
           \/ dead /\ Open("loot", npc)
           \/ ~dead /\ Open("steal", npc)
           \/ ~dead /\ Open("barter", npc)

Next == \/ OpenAny \/ Close
        \/ DragToList \/ DragToHand \/ DragToArmor \/ DragToBody
        \/ Drop \/ Unload \/ Enter \/ Exit
        \/ MoveItem \/ TakeAll \/ Offer \/ Trade
        \/ Wield \/ Unwield \/ Throw \/ ScriptTakes \/ ScriptGives \/ ScriptMoves
        \/ ScriptDestroys \/ PickUpItem \/ ReloadInHand \/ CapsChange \/ Killed

\* Bound: what follows the first mishap is not looked at.
NoMishapYet == mishap = ""

Spec == Init /\ [][Next]_vars
-----------------------------------------------------------------------------
\* Nothing is lost and nothing doubled: of every kind there is what there was,
\* less what scripts have destroyed or paid.  The known faults are mishaps.
Accounted == mishap = "" => Totals(World) = owed

\* Every object is in exactly one place: an entry of the list its owner field
\* names, a slot (both hands count as one), aside, or the ground.  No list or
\* slot refers to an object that was erased.
OnePlace ==
    mishap = "" =>
    \A i \in Ids :
      LET Uses(h) == Cardinality({k \in DOMAIN list[h] : list[h][k].item = i})
          holders == {h \in Owners \union Ids : Uses(h) > 0}
          loose   == (IF i \in {slot[s] : s \in Sides} THEN 1 ELSE 0)
                     + (IF i \in {aside[s] : s \in DOMAIN aside} THEN 1 ELSE 0)
                     + (IF i \in ground THEN 1 ELSE 0)
      IN IF obj[i].kind = "free" THEN holders = {} /\ loose = 0
         ELSE \/ loose = 1 /\ holders = {} /\ obj[i].owner = none
              \/ loose = 0 /\ \E h \in Owners \union Ids :
                                 holders = {h} /\ Uses(h) = 1 /\ obj[i].owner = h

\* The player has the bonus of the armour he wears, and no other.
BonusOfArmour ==
    LET i == Equipped(World, dude, "worn")
        worn == IF window = "none" THEN i ELSE slot["worn"]
    IN mishap = "" => ac = IF worn = none THEN 0 ELSE KindAc[KindOf(World, worn)]

\* Whoever was robbed or bartered with has in his hands and wears what he did.
GearRestored ==
    [][window' = "none" /\ window \in {"steal", "barter"} => GearOf(World)' = gear]_vars

\* What the player carries, with what is in his hands and worn
Load == TotalWeight([World EXCEPT !.stack = <<dude>>], dude)

\* Nothing taken from another makes the player carry more than he can: "You cannot
\* pick that up. You are at your maximum weight capacity."  Does not hold: while
\* a bag of his is open, what is in his hands and worn is not counted.
NotOverloaded ==
    [][window' = window /\ window \in {"loot", "steal"} /\ Load' > Load => Load' <= CarryWeight]_vars
=============================================================================
