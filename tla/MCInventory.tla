---------------------------- MODULE MCInventory ----------------------------
(* Small worlds for Inventory.                                             *)
EXTENDS Inventory

MCSize   == [k \in Kinds |-> 1]
MCWeight == [gun |-> 1, knife |-> 1, clip |-> 1, vest |-> 1, mail |-> 2, bag |-> 0, caps |-> 0]
MCAc     == [k \in Kinds |-> CASE k = "vest" -> 1 [] k = "mail" -> 2 [] OTHER -> 0]

Thing(kind, rounds, flags, owner) ==
    [kind |-> kind, rounds |-> rounds, flags |-> flags, owner |-> owner]

\* things: one tuple <<kind, rounds, flags, owner, quantity>> per object
Setting(things, allowed) ==
    [obj  |-> [i \in Ids |-> IF i \in DOMAIN things
                             THEN Thing(things[i][1], things[i][2], things[i][3], things[i][4])
                             ELSE NoItem],
     list |-> [h \in Owners \union Ids |->
                 LET ids == SelectSeq([i \in DOMAIN things |-> i], LAMBDA i : things[i][4] = h)
                 IN [k \in DOMAIN ids |-> Entry(ids[k], things[ids[k]][5])]],
     may  |-> allowed]

MCSettings ==
    {Setting(<<<<"gun", 1, {}, dude, 1>>, <<"clip", 1, {}, dude, 2>> >>,
             {"normal", "wield"}),
     Setting(<<<<"gun", 1, {}, dude, 1>>, <<"clip", 1, {}, dude, 2>>, <<"bag", 0, {}, dude, 1>> >>,
             {"normal"}),
     Setting(<<<<"vest", 0, {}, dude, 1>>, <<"mail", 0, {}, dude, 1>>, <<"knife", 0, {}, dude, 1>> >>,
             {"normal", "wield", "take", "destroy"}),
     Setting(<<<<"bag", 0, {}, locker, 1>>, <<"clip", 1, {}, locker, 2>>, <<"gun", 2, {}, dude, 1>> >>,
             {"loot"}),
     Setting(<<<<"knife", 0, {"right"}, npc, 2>>, <<"vest", 0, {"worn"}, npc, 1>>,
               <<"bag", 0, {}, dude, 1>> >>,
             {"steal", "kill", "wield", "loot"}),
     Setting(<<<<"caps", 0, {}, dude, 2>>, <<"gun", 1, {}, npc, 1>>, <<"clip", 1, {}, npc, 1>>,
               <<"mail", 0, {"worn"}, npc, 1>> >>,
             {"barter", "kill"}),
     Setting(<<<<"caps", 0, {}, dude, 1>>, <<"gun", 2, {}, npc, 2>>, <<"vest", 0, {}, dude, 1>> >>,
             {"barter"}),
     Setting(<<<<"caps", 0, {}, dude, 1>>, <<"bag", 0, {}, dude, 1>>, <<"bag", 0, {}, dude, 1>>,
               <<"caps", 0, {}, 2, 1>>, <<"caps", 0, {}, 3, 1>> >>, {"caps", "take"}),
     Setting(<<<<"caps", 0, {}, dude, 2>> >>, {"normal", "take"})}

HeavySettings ==
    {Setting(<<<<"knife", 0, {"right"}, dude, 1>>, <<"bag", 0, {}, dude, 1>>, <<"vest", 0, {}, locker, 2>> >>,
             {"loot"})}
=============================================================================
