------------------------------- MODULE Items -------------------------------
(***************************************************************************)
(* Items and the lists they are in (src/game/item.cc), with what the       *)
(* object lists and the use of objects add to them (object.cc,             *)
(* protinst.cc).  An operator here is a call: it takes a world and returns *)
(* the world the call leaves.  A world is a record:                        *)
(*   obj     what is known of each item: kind, rounds (of a gun or of the  *)
(*           first clip of a stack; the charges of money), the flags that  *)
(*           say where it is equipped, owner.  An id of kind "free" is     *)
(*           memory that is not an object's;                               *)
(*   list    the inventory of every holder: people, a locker, the two      *)
(*           tables of a barter, bags;                                     *)
(*   ground  the items connected to a tile of the map;                     *)
(*   slot    i_lhand, i_rhand and i_worn of inventry.cc;                   *)
(*   stack   the holders opened on the player's side of a window, the last *)
(*           of which is inven_dude;                                       *)
(*   ac      the bonus of armour the player has;                           *)
(*   aside   what barter and steal windows keep off the other's list;      *)
(*   mishap  a history variable: which known fault of the code was met.    *)
(* Items carry no scripts, and none is a running explosive.                *)
(***************************************************************************)
EXTENDS Integers, Sequences, FiniteSets, SequencesExt, FiniteSetsExt

CONSTANTS dude, npc, locker, peon, barterer, \* the holders that are no items
          none,                              \* NULL
          MaxObjects,                        \* bound: items that exist at once
          KindSize, KindWeight, KindAc,      \* of the prototypes
          GunRounds, ClipRounds,             \* magazines of a gun and a clip
          BagSize, LockerSize, CarryWeight

Ids      == 1..MaxObjects
Owners   == {dude, npc, locker, peon, barterer}
Critters == {dude, npc}
Sides    == {"left", "right", "worn"}
Kinds    == {"gun", "knife", "clip", "vest", "mail", "bag", "caps"}
Type     == [gun |-> "weapon", knife |-> "weapon", clip |-> "ammo", vest |-> "armor",
             mail |-> "armor", bag |-> "container", caps |-> "misc"]

ASSUME ItemsAssumption ==
    /\ MaxObjects \in Nat \ {0} /\ GunRounds \in Nat \ {0} /\ ClipRounds \in Nat \ {0}
    /\ BagSize \in Nat /\ LockerSize \in Nat /\ CarryWeight \in Nat
    /\ \A f \in {KindSize, KindWeight, KindAc} : f \in [Kinds -> Nat]
    /\ Cardinality(Owners \union {none}) = 6

NoItem == [kind |-> "free", rounds |-> 0, flags |-> {}, owner |-> none]

KindOf(w, i) == w.obj[i].kind
TypeOf(w, i) == Type[KindOf(w, i)]
Entry(i, q)  == [item |-> i, quantity |-> q]

\* inven_dude and the container opened last on the player's side
Opened(w) == Last(w.stack)

Plus(a, b) == a + b
SumOf(s)   == FoldLeft(Plus, 0, s)
-----------------------------------------------------------------------------
\* item_size, item_c_curr_size
SizeIn(w, h) == SumOf([k \in DOMAIN w.list[h] |->
                    w.list[h][k].quantity * KindSize[KindOf(w, w.list[h][k].item)]])

\* inven_left_hand, inven_right_hand and inven_worn: while a window is open
\* the player's are not in any list.
Equipped(w, h, side) ==
    LET First(s) == IF s = <<>> THEN none ELSE s[1].item
    IN IF w.slot[side] # none /\ h = Opened(w) THEN w.slot[side]
       ELSE First(SelectSeq(w.list[h], LAMBDA e : side \in w.obj[e.item].flags))

RECURSIVE TotalWeight(_, _)

\* item_weight: a gun weighs with its rounds, by the clip begun; a bag with
\* what is in it
ItemWeight(w, i) ==
    KindWeight[KindOf(w, i)]
    + CASE TypeOf(w, i) = "container" -> TotalWeight(w, i)
        [] KindOf(w, i) = "gun" /\ w.obj[i].rounds > 0 ->
               KindWeight["clip"] * (((w.obj[i].rounds - 1) \div ClipRounds) + 1)
        [] OTHER -> 0

\* item_total_weight
TotalWeight(w, h) ==
    LET Entries(s) == SumOf([k \in DOMAIN s |-> ItemWeight(w, s[k].item) * s[k].quantity])
        Held(side) == LET i == Equipped(w, h, side)
                      IN IF h \notin Critters \/ i = none \/ side \in w.obj[i].flags THEN 0
                         ELSE ItemWeight(w, i)
    IN Entries(w.list[h]) + Held("right") + Held("left") + Held("worn")

RECURSIVE TopOf(_, _)

\* obj_top_environment
TopOf(w, x) == IF x \notin Ids \/ w.obj[x].owner = none THEN none
               ELSE LET o == w.obj[x].owner
                    IN IF o \in Ids /\ w.obj[o].owner # none THEN TopOf(w, o) ELSE o

\* item_identical: what may share an entry.  The rounds of clips and the
\* charges of money are not compared.
Identical(w, a, b) ==
    /\ KindOf(w, a) = KindOf(w, b)
    /\ w.obj[a].flags = {} /\ w.obj[b].flags = {}
    /\ TypeOf(w, a) # "container"
    /\ KindOf(w, a) \in {"clip", "caps"} \/ w.obj[a].rounds = w.obj[b].rounds

\* adjust_ac for the player: the effects of one armour go, those of another come
Adjust(w, old, new) ==
    LET Ac(i) == IF i = none THEN 0 ELSE KindAc[KindOf(w, i)]
    IN [w EXCEPT !.ac = @ - Ac(old) + Ac(new)]

\* obj_erase_object
Erase(w, i) == [w EXCEPT !.obj[i] = NoItem, !.ground = @ \ {i}]

\* The memory obj_new and obj_copy give out.  Bound: a call that needs the last
\* object ends the behaviour as a mishap does.
NewId(w) == Min({j \in Ids : KindOf(w, j) = "free"} \union {MaxObjects})

\* obj_new, obj_copy
New(w, o) == [w EXCEPT !.obj[NewId(w)] = o,
                       !.mishap = IF NewId(w) = MaxObjects THEN "MaxObjects" ELSE @]
-----------------------------------------------------------------------------
\* item_add_force where an entry can take it.  The item that joins takes the
\* place of the object that stood for the entry; clips add up to full ones and
\* at most one begun.
Join(w, h, i, q, k, old) ==
    LET clip == KindOf(w, i) = "clip"
        all  == w.obj[old].rounds + w.obj[i].rounds
        full == all > ClipRounds
    IN [Erase(w, old) EXCEPT
          !.list[h][k] = Entry(i, @.quantity + q - IF clip /\ ~full THEN 1 ELSE 0),
          !.obj[i].owner = h,
          !.obj[i].rounds = CASE clip /\ full -> all - ClipRounds
                              [] clip /\ ~full -> all
                              [] OTHER -> @]

Added(w, h, i, q, same) ==
    IF same = {} THEN [w EXCEPT !.list[h] = Append(@, Entry(i, q)), !.obj[i].owner = h]
    ELSE IF w.list[h][Min(same)].item = i THEN w
    ELSE Join(w, h, i, q, Min(same), w.list[h][Min(same)].item)

\* item_add_force
AddForce(w, h, i, q) ==
    Added(w, h, i, q, {k \in DOMAIN w.list[h] : Identical(w, w.list[h][k].item, i)})

\* item_add_mult's early returns
Refuses(w, h, i, q) ==
    LET Heavy(top) == /\ top \in Critters
                      /\ TotalWeight(w, top) + q * ItemWeight(w, i) > CarryWeight
        Size == IF h = locker THEN LockerSize ELSE BagSize
    IN IF h \in Critters THEN Heavy(h)
       ELSE SizeIn(w, h) + q * KindSize[KindOf(w, i)] >= Size \/ Heavy(TopOf(w, h))

Did(w)   == [ok |-> TRUE, w |-> w]
Fails(w) == [ok |-> FALSE, w |-> w]

AddMult(w, h, i, q) == IF Refuses(w, h, i, q) THEN Fails(w) ELSE Did(AddForce(w, h, i, q))

RECURSIVE HolderOf(_, _, _)

\* The list item_remove_mult and item_count find i in: h's own or, in it, a
\* container's.
HolderOf(w, h, i) ==
    LET s    == w.list[h]
        own  == \E k \in DOMAIN s : s[k].item = i
        bags == {k \in DOMAIN s : /\ TypeOf(w, s[k].item) = "container"
                                  /\ HolderOf(w, s[k].item, i) # none}
    IN IF own THEN h ELSE IF bags # {} THEN HolderOf(w, s[Min(bags)].item, i) ELSE none

IndexIn(w, h, i) == Min({k \in DOMAIN w.list[h] : w.list[h][k].item = i})

\* Mutant: the copy keeps the rounds of the clip that leaves.
ReducedAsIs(w, o, k, i, n) ==
    IF n = 0 THEN [w EXCEPT !.list[o] = RemoveAt(@, k)]
    ELSE [New(w, w.obj[i]) EXCEPT !.list[o][k] = Entry(NewId(w), n)]

\* item_remove_mult: i itself leaves; what stays of its entry is a copy, a
\* full clip if it is ammunition.
Reduced(w, o, k, i, n) ==
    LET copy == IF KindOf(w, i) # "clip" THEN w.obj[i]
                ELSE [w.obj[i] EXCEPT !.rounds = ClipRounds]
    IN IF n = 0 THEN [w EXCEPT !.list[o] = RemoveAt(@, k)]
       ELSE [New(w, copy) EXCEPT !.list[o][k] = Entry(NewId(w), n)]

Removed(w, o, k, i, q) ==
    IF w.list[o][k].quantity < q THEN Fails(w)
    ELSE Did([Reduced(w, o, k, i, w.list[o][k].quantity - q)
                EXCEPT !.obj[i].owner = none, !.obj[i].flags = {}])

RemoveMult(w, h, i, q) ==
    LET From(o) == IF o = none THEN Fails(w) ELSE Removed(w, o, IndexIn(w, o, i), i, q)
    IN From(HolderOf(w, h, i))

\* item_move_func: what is refused goes back.  Callers of item_move pass FALSE.
Move(w, a, b, i, q, force) ==
    LET Kept(v, t) == IF t.ok THEN t ELSE Fails(AddForce(v, a, i, q))
        On(r) == IF ~r.ok THEN r
                 ELSE Kept(r.w, IF force THEN Did(AddForce(r.w, b, i, q)) ELSE AddMult(r.w, b, i, q))
    IN On(RemoveMult(w, a, i, q))

\* item_move_all
MoveAll(w, a, b) ==
    FoldLeft(LAMBDA v, e : Move(v, a, b, e.item, e.quantity, TRUE).w, w, w.list[a])
-----------------------------------------------------------------------------
\* obj_remove_from_inven and obj_connect, as obj_drop does them
DropOne(w, h, i) ==
    LET On(r) == IF r.ok THEN [r.w EXCEPT !.ground = @ \union {i}] ELSE w
    IN On(RemoveMult(w, h, i, 1))

\* obj_destroy
Destroy(w, i) == Erase(IF w.obj[i].owner = none THEN w ELSE RemoveMult(w, w.obj[i].owner, i, 1).w, i)

\* obj_pickup and obj_disconnect
PickUp(w, h, i) ==
    LET caps  == KindOf(w, i) = "caps"
        On(r) == IF ~r.ok THEN w
                 ELSE [r.w EXCEPT !.ground = @ \ {i}, !.obj[i].rounds = IF caps THEN 0 ELSE @]
    IN On(AddMult(w, h, i, IF caps THEN Max({w.obj[i].rounds, 1}) ELSE 1))

\* item_w_can_reload: one kind of ammunition, one of guns
CanReload(w, g, c) == KindOf(w, g) = "gun" /\ KindOf(w, c) = "clip"

\* item_w_reload; rc is what is left in the clip
Reload(w, g, c) ==
    LET a == w.obj[g].rounds
        b == w.obj[c].rounds
        t == Min({GunRounds, a + b})
    IN IF ~CanReload(w, g, c) THEN [rc |-> -1, w |-> w]
       ELSE IF a >= GunRounds THEN [rc |-> b, w |-> w]
       ELSE [rc |-> a + b - t, w |-> [w EXCEPT !.obj[g].rounds = t, !.obj[c].rounds = a + b - t]]

\* item_w_unload, once: a new clip with what fits
UnloadOne(w, g) ==
    LET n == Min({ClipRounds, w.obj[g].rounds})
    IN [clip |-> NewId(w),
        w |-> [New(w, [NoItem EXCEPT !.kind = "clip", !.rounds = n]) EXCEPT !.obj[g].rounds = @ - n]]

RECURSIVE UnloadInto(_, _, _)

\* the loop of inven_action_cursor's "unload"
UnloadInto(w, h, g) ==
    LET On(u) == UnloadInto(AddForce(u.w, h, u.clip, 1), h, g)
    IN IF KindOf(w, g) # "gun" \/ w.obj[g].rounds = 0 THEN w ELSE On(UnloadOne(w, g))

RECURSIVE TryReload(_, _, _)

\* item_w_try_reload, called until it fails (intface_item_reload): the first
\* clip of the critter's own list
TryReload(w, h, g) ==
    LET clips    == SelectSeq(w.list[h], LAMBDA e : TypeOf(w, e.item) = "ammo")
        On(c, r) == TryReload(IF r.rc = 0 THEN Destroy(r.w, c) ELSE r.w, h, g)
        With(c)  == On(c, Reload(w, g, c))
    IN IF KindOf(w, g) # "gun" \/ w.obj[g].rounds = GunRounds \/ clips = <<>> THEN w
       ELSE With(clips[1].item)

\* item_replace: another of the kind thrown is taken in hand
Replace(w, h, a, flags) ==
    LET same    == SelectSeq(w.list[h], LAMBDA e : Identical(w, e.item, a))
        Take(i) == AddForce([RemoveMult(w, h, i, 1).w EXCEPT !.obj[i].flags = @ \union flags], h, i, 1)
    IN IF same = <<>> THEN w ELSE Take(same[1].item)

RECURSIVE DropFrom(_, _, _)

\* item_drop_all from entry k on.  An entry's quantity is read again after the
\* entries behind it have moved up: money is worth what the next entry counts,
\* the loop over a stack asks for an object that is gone and gives up, and the
\* entry that moved up is passed over.
DropFrom(w, h, k) ==
    LET Read(v, n) == IF k <= Len(v.list[h]) THEN v.list[h][k].quantity ELSE n
        Money(v, i, n) ==
            [v EXCEPT !.ground = @ \union {i}, !.obj[i].rounds = Read(v, n),
                      !.mishap = IF Read(v, n) = n THEN @ ELSE "money misread"]
        Other(v, i, n) ==
            IF Read(v, n) > 1 THEN v ELSE DropFrom(v, h, k + 1)
        Drop1(i, n) ==
            IF KindOf(w, i) = "caps"
            THEN DropFrom(Money(RemoveMult(w, h, i, n).w, i, n), h, k + 1)
            ELSE Other([RemoveMult(w, h, i, 1).w EXCEPT !.ground = @ \union {i}], i, n)
    IN IF k > Len(w.list[h]) THEN w ELSE Drop1(w.list[h][k].item, w.list[h][k].quantity)

DropAll(w, h) == DropFrom(w, h, 1)
-----------------------------------------------------------------------------
RECURSIVE CapsTotal(_, _)

\* item_caps_total
CapsTotal(w, h) ==
    SumOf([k \in DOMAIN w.list[h] |->
              LET e == w.list[h][k]
              IN IF KindOf(w, e.item) = "caps" THEN e.quantity
                 ELSE IF TypeOf(w, e.item) = "container" THEN CapsTotal(w, e.item) ELSE 0])

RECURSIVE PayFromList(_, _, _)

\* The first loop of item_caps_adjust: the money in h's own list, which is in
\* several entries if some of it is in hand
PayFromList(w, h, amount) ==
    LET at == {k \in DOMAIN w.list[h] : KindOf(w, w.list[h][k].item) = "caps"}
        Pay(k, e) ==
            IF amount < 0 /\ -amount >= e.quantity
            THEN PayFromList(Erase([w EXCEPT !.list[h] = RemoveAt(@, k)], e.item), h,
                             amount + e.quantity)
            ELSE [due |-> 0, w |-> [w EXCEPT !.list[h][k].quantity = @ + amount]]
    IN IF at = {} \/ amount = 0 THEN [due |-> amount, w |-> w]
       ELSE Pay(Min(at), w.list[h][Min(at)])

RECURSIVE CapsAdjust(_, _, _)

\* item_caps_adjust.  A purse that holds less than is still due is given as
\* much again, where it should be emptied.
CapsAdjust(w, h, amount) ==
    LET PayFrom(p, b, has) ==
            IF (p.due > 0 /\ has > 0) \/ (p.due < 0 /\ has >= -p.due)
            THEN [due |-> 0, w |-> CapsAdjust(p.w, b, p.due)]
            ELSE IF p.due < 0
            THEN [due |-> p.due + has,
                  w   |-> [CapsAdjust(p.w, b, has)
                             EXCEPT !.mishap = IF has = 0 THEN @ ELSE "purse doubled"]]
            ELSE p
        Purse(p, e) == IF TypeOf(p.w, e.item) = "container"
                       THEN PayFrom(p, e.item, CapsTotal(p.w, e.item)) ELSE p
        Bags(own) == FoldLeft(Purse, own, own.w.list[h]).w
        Change(caps) ==
            IF amount < 0 /\ caps < -amount THEN w
            ELSE IF amount <= 0 \/ caps # 0 THEN Bags(PayFromList(w, h, amount))
            ELSE AddForce(New(w, [NoItem EXCEPT !.kind = "caps"]), h, NewId(w), amount)
    IN Change(CapsTotal(w, h))
=============================================================================
