-------------------------------- MODULE Combat --------------------------------
(***************************************************************************)
(* Whose turn it is in a fight (game/combat.cc): the list of critters, its *)
(* combatants first, then the others, then the dead; turns taken in order; *)
(* critters that join, fall or give up; the end of the fight; and a fight  *)
(* that is saved and loaded.                                               *)
(*                                                                         *)
(* What an attack does is its outcome for the turns: who is hurt, knocked  *)
(* out, killed, or loses a turn. Positions in the list start at 1.         *)
(***************************************************************************)
EXTENDS Integers, FiniteSets, SequencesExt, Lists

CONSTANTS Critter, Dude, Nobody,
          Team,         \* critter -> its team
          Speed,        \* critter -> its sequence and luck, as one number
          Layouts,      \* setting -> the orders in which the tiles of the map may hold the critters
          Settings,     \* what may happen in a behaviour: sets of events
          MaxHits       \* setting -> bound on the attacks

\* What an attack does, how one gives up, the end of the game, what scripts do
\* to critters, saving, and loading at peace and in a fight.
Event == {"miss", "hurt", "lose", "ko", "dead", "fleeing", "disengaging", "quit",
          "kill", "remove", "create", "save", "load", "reload"}

ASSUME CombatAssumption ==
  /\ IsFiniteSet(Critter) /\ Dude \in Critter /\ Nobody \notin Critter
  /\ Speed \in [Critter -> Nat]
  /\ Layouts \in [Settings -> SUBSET Seq(Critter)] /\ Settings \subseteq SUBSET Event
  /\ \A s \in Settings : \A l \in Layouts[s] :        \* each critter has its place
       Range(l) = Critter /\ \A i, j \in DOMAIN l : l[i] = l[j] => i = j
  /\ MaxHits \in [Settings -> Nat]

VARIABLES present,    \* critters on the map
          results,    \* critter -> DAM_ flags
          maneuver,   \* critter -> CRITTER_MANEUVER_ flags
          hurt,       \* critters with damageLastTurn
          whoHitMe,
          cid,        \* critter -> the number it is known by in saved games
          fight,      \* the list and its parts
          run,        \* where combat() is
          acted,      \* who has had a turn since the round began
          saved,      \* a saved game, or NoGame
          may,        \* the events that may happen
          hits

body == << present, results, maneuver, hurt, whoHitMe >>
vars == << body, cid, fight, run, acted, saved, hits, may >>

NoGame == << >>
NoFight == [on |-> FALSE, list |-> << >>, com |-> 0, noncom |-> 0, total |-> 0]
AtPeace == [pc |-> "peace", done |-> 0, index |-> 0, actor |-> Nobody, call |-> "none",
            quit |-> FALSE, loaded |-> FALSE]

Dead(c) == "dead" \in results[c]
Out(c) == results[c] \cap {"dead", "ko"} # {}
Incapacitated(c) == results[c] # {}
Alive == {c \in present : ~Dead(c)}

Combatants(f) == {f.list[i] : i \in 1 .. f.com}
Others(f) == {f.list[i] : i \in f.com + 1 .. f.com + f.noncom}
InList(f) == {f.list[i] : i \in 1 .. f.total}

Swapped(list, i, j) == [list EXCEPT ![i] = list[j], ![j] = list[i]]
PlaceOf(list, c) == CHOOSE i \in DOMAIN list : list[i] = c

Init ==
  /\ may \in Settings
  /\ present = IF "create" \in may THEN {Dude} ELSE Critter
  /\ results = [c \in Critter |-> {}]
  /\ maneuver = [c \in Critter |-> {}]
  /\ hurt = {}
  /\ whoHitMe = [c \in Critter |-> Nobody]
  /\ cid = [c \in Critter |-> -1]
  /\ fight = NoFight
  /\ run = AtPeace
  /\ acted = << >>
  /\ saved = NoGame
  /\ hits = 0

-----------------------------------------------------------------------------
(* The beginning: combat_begin and combat_sequence_init.                   *)

\* obj_create_list: the critters there are, in the order of the map's tiles.
Orders(s) == {Only(layout, s) : layout \in Layouts[may]}

\* The attacker goes first, then the defender, then the player.
PutFirst(list, firsts) ==
  LET put[n \in 0 .. Len(firsts)] ==
        IF n = 0 THEN list ELSE Swapped(put[n - 1], n, PlaceOf(put[n - 1], firsts[n]))
  IN put[Len(firsts)]

Start(order, attacker, defender) ==
  LET firsts == Only(<< attacker, defender >>, Critter)
                  \o IF Dude \in {attacker, defender} THEN << >> ELSE << Dude >>
      n == Len(firsts)
  IN
  /\ run.pc = "peace" /\ ~fight.on /\ ~Dead(Dude)
  /\ maneuver' = [c \in Critter |-> maneuver[c] \cap {"engaging"}]
  /\ hurt' = {}
  /\ whoHitMe' = [c \in Critter |-> IF attacker = Nobody THEN Nobody
                                    ELSE CASE c = attacker -> defender
                                           [] c = defender -> attacker
                                           [] OTHER -> Nobody]
  /\ cid' = [c \in Critter |-> IF c \in present THEN PlaceOf(order, c) ELSE cid[c]]
  /\ fight' = [on |-> TRUE, list |-> PutFirst(order, firsts), com |-> n,
               noncom |-> Len(order) - n, total |-> Len(order)]
  /\ run' = [AtPeace EXCEPT !.pc = "round"]
  /\ acted' = << >>
  /\ UNCHANGED << present, results, saved, hits >>

-----------------------------------------------------------------------------
(* combat_turn.                                                            *)

\* Mutant: a joining critter's place is looked at again.
AfterAgain(r, f, rc) ==
  IF r.call = "joining" THEN [r EXCEPT !.pc = "joining", !.actor = Nobody]
  ELSE [r EXCEPT !.pc = IF rc = -1 THEN "over" ELSE "round", !.done = @ + 1, !.actor = Nobody]

\* Mutant: when a loaded fight goes on, one combatant is left out.
AfterSkips(r, f, rc) ==
  CASE r.call = "joining" -> [r EXCEPT !.pc = "joining", !.index = @ + 1, !.actor = Nobody]
    [] r.call = "resumed" -> [r EXCEPT !.pc = IF rc = -1 THEN "over" ELSE "round",
                                       !.done = PlaceOf(f.list, Dude) + 1, !.actor = Nobody]
    [] OTHER -> [r EXCEPT !.pc = IF rc = -1 THEN "over" ELSE "round", !.done = @ + 1,
                          !.actor = Nobody]

\* What combat() does after a turn that returned rc, the fight being f: those
\* that join are gone through whatever it returns, a round is broken off, unless
\* the turn was the last of it.
After(r, f, rc) ==
  LET r0 == [r EXCEPT !.actor = Nobody] IN
  CASE r.call = "joining" -> [r0 EXCEPT !.pc = "joining", !.index = @ + 1]
    [] r.call = "resumed" -> [r0 EXCEPT !.pc = IF rc = -1 THEN "over" ELSE "round",
                                        !.done = PlaceOf(f.list, Dude)]
    [] r.call = "round" /\ rc # -1 -> [r0 EXCEPT !.pc = "round", !.done = @ + 1]
    [] r.call = "round" /\ rc = -1 ->
         IF r.done < f.com THEN [r0 EXCEPT !.pc = "over"]
         ELSE [r0 EXCEPT !.pc = "joining", !.index = f.com]

\* A turn begins: one that is not fit only gets over its lost turn; a script
\* may end the fight; otherwise the critter acts.
BeginTurn(c, r) ==
  LET rc == IF Dead(Dude) THEN -1 ELSE 0 IN
  \/ /\ Incapacitated(c)
     /\ results' = [results EXCEPT ![c] = @ \ {"lose"}]
     /\ hurt' = hurt \ {c}
     /\ run' = After(r, fight, rc)
  \/ /\ ~Incapacitated(c)
     /\ \E quit \in IF "quit" \in may THEN {r.quit, TRUE} ELSE {r.quit} :
          run' = IF quit THEN After([r EXCEPT !.quit = TRUE], fight, -1)
                 ELSE [r EXCEPT !.pc = "acting", !.actor = c]
     /\ UNCHANGED << results, hurt >>

\* The next of the round.
NextTurn ==
  /\ run.pc = "round" /\ run.done < fight.com
  /\ LET c == fight.list[run.done + 1] IN
     /\ BeginTurn(c, [run EXCEPT !.call = "round"])
     /\ acted' = Append(acted, c)
  /\ UNCHANGED << present, maneuver, whoHitMe, cid, fight, saved, hits >>

RoundOver ==
  /\ run.pc = "round" /\ run.done >= fight.com
  /\ run' = [run EXCEPT !.pc = "joining", !.index = fight.com]
  /\ UNCHANGED << body, cid, fight, acted, saved, hits >>

\* combat() of a fight that was loaded: the player goes on with his turn.
Resume ==
  /\ run.pc = "peace" /\ fight.on
  /\ BeginTurn(Dude, [run EXCEPT !.call = "resumed"])
  /\ UNCHANGED << present, maneuver, whoHitMe, cid, fight, acted, saved, hits >>

\* One that acts, as long as it is fit. The player whose fight was loaded away
\* does nothing any more.
Acting(c) ==
  run.pc = "acting" /\ run.actor = c /\ ~Incapacitated(c) /\ (run.loaded => c # Dude)

\* An attack and apply_damage: what it does, whether it is taken amiss, and
\* who sees it (combatai_notify_onlookers): its victim only, or everyone.
Hit(c, d, outcome, blamed, onlookers) ==
  /\ Acting(c) /\ d \in Alive \ {c} /\ hits < MaxHits[may]
  /\ outcome \in may \cap {"miss", "hurt", "lose", "ko", "dead"}
  /\ hits' = hits + 1
  /\ results' = [results EXCEPT ![d] = @ \cup ({outcome} \ {"miss", "hurt"})]
  /\ hurt' = IF outcome = "miss" THEN hurt ELSE hurt \cup {d}
  /\ IF results'[d] \cap {"dead", "ko"} # {} THEN blamed ELSE Team[c] = Team[d] => ~blamed
  /\ whoHitMe' = [e \in Critter |-> CASE e = d /\ blamed    -> c
                                      [] e = c /\ c = Dude  -> d
                                      [] OTHER              -> whoHitMe[e]]
  /\ maneuver' = [e \in Critter |-> IF e \in onlookers THEN maneuver[e] \cup {"engaging"}
                                    ELSE maneuver[e]]
  /\ UNCHANGED << present, cid, fight, run, acted, saved >>

\* combat_ai: the actor is afraid, or too far from its target.
GivesUp(c, how) ==
  /\ Acting(c) /\ c # Dude /\ how \in may \cap {"fleeing", "disengaging"} /\ how \notin maneuver[c]
  /\ maneuver' = [maneuver EXCEPT ![c] = @ \cup {how}]
  /\ UNCHANGED << present, results, hurt, whoHitMe, cid, fight, run, acted, saved, hits >>

\* combatai_want_to_join, as far as it is settled.
MustJoin(c) == ~Out(c) /\ (c \in hurt \/ "engaging" \in maneuver[c])
MayJoin(c) == ~Out(c) /\ (maneuver[c] \cap {"disengaging", "fleeing"} = {} \/ MustJoin(c))

\* combat_end, by the player: none that is against him must go on.
EndByPlayer ==
  /\ Acting(Dude)
  /\ \A c \in Others(fight) \ {Dude} :
       (Team[c] # Team[Dude] \/ (whoHitMe[c] # Nobody /\ Team[whoHitMe[c]] = Team[c])) =>
         ~MustJoin(c)
  /\ run' = After(run, fight, -1)
  /\ hurt' = hurt \ {Dude}
  /\ UNCHANGED << present, results, maneuver, whoHitMe, cid, fight, acted, saved, hits >>

\* The turn is over: action points are spent, the player passes or leaves the
\* map, or the actor is not fit any more.
EndTurn ==
  /\ run.pc = "acting"
  /\ \E rc \in IF run.actor = Dude /\ ~Incapacitated(Dude) THEN {0, -1} ELSE {0} :
       run' = After(run, fight,
                    IF Dead(Dude) \/ (run.loaded /\ run.actor = Dude) THEN -1 ELSE rc)
  /\ hurt' = hurt \ {run.actor}
  /\ UNCHANGED << present, results, maneuver, whoHitMe, cid, fight, acted, saved, hits >>

-----------------------------------------------------------------------------
(* combat_sequence and combat_should_end.                                  *)

\* One that joins changes places with the first that has not.
Joined(f, i) ==
  [f EXCEPT !.list = Swapped(@, i, f.com + 1), !.com = @ + 1, !.noncom = @ - 1]

\* combat_add_noncoms: the next of the others joins, and takes its turn.
Join ==
  /\ run.pc = "joining" /\ run.index < fight.com + fight.noncom
  /\ LET c == fight.list[run.index + 1] IN
     /\ MayJoin(c)
     /\ fight' = Joined(fight, run.index + 1)
     /\ maneuver' = [maneuver EXCEPT ![c] = {}]
     /\ IF c = Dude
        THEN /\ run' = [run EXCEPT !.index = @ + 1]
             /\ UNCHANGED << results, hurt, acted >>
        ELSE /\ BeginTurn(c, [run EXCEPT !.call = "joining"])
             /\ acted' = Append(acted, c)
  /\ UNCHANGED << present, whoHitMe, cid, saved, hits >>

StayOut ==
  /\ run.pc = "joining" /\ run.index < fight.com + fight.noncom
  /\ ~MustJoin(fight.list[run.index + 1])
  /\ run' = [run EXCEPT !.index = @ + 1]
  /\ UNCHANGED << body, cid, fight, acted, saved, hits >>

\* Mutant: a dead combatant changes places with the last combatant only.
BuriedInFront(f) ==
  LET go[k \in 0 .. f.com] ==
        IF k = 0 THEN [list |-> f.list, i |-> 1, count |-> f.com]
        ELSE LET g == go[k - 1] IN
             IF g.i > g.count THEN g
             ELSE IF Dead(g.list[g.i])
             THEN [g EXCEPT !.list = Swapped(@, g.i, g.count), !.count = @ - 1]
             ELSE [g EXCEPT !.i = @ + 1]
  IN [f EXCEPT !.list = go[f.com].list, !.com = go[f.com].count]

\* The dead leave the combatants, to behind the others.
Buried(f) ==
  LET go[k \in 0 .. f.com] ==        \* after k steps
        IF k = 0 THEN [list |-> f.list, i |-> 1, count |-> f.com]
        ELSE LET g == go[k - 1] IN
             IF g.i > g.count THEN g
             ELSE IF Dead(g.list[g.i])
             THEN [g EXCEPT !.list = Swapped(Swapped(@, g.i, g.count), g.count, f.noncom + g.count),
                            !.count = @ - 1]
             ELSE [g EXCEPT !.i = @ + 1]
  IN [f EXCEPT !.list = go[f.com].list, !.com = go[f.com].count]

DropsOut(c) == c # Dude /\ ("ko" \in results[c] \/ maneuver[c] = {"disengaging"})

\* Mutant: the critter that takes the place of one that drops out is not
\* looked at.
RestedOnce(f) ==
  LET go[k \in 0 .. f.com] ==
        IF k = 0 THEN [list |-> f.list, i |-> 1, count |-> f.com]
        ELSE LET g == go[k - 1] IN
             IF g.i > g.count THEN g
             ELSE IF DropsOut(g.list[g.i])
             THEN [list |-> Swapped(g.list, g.i, g.count), i |-> g.i + 1, count |-> g.count - 1]
             ELSE [g EXCEPT !.i = @ + 1]
      last == go[f.com]
  IN [f EXCEPT !.list = last.list, !.com = last.count, !.noncom = @ + f.com - last.count]

\* Those knocked out or giving up join the others.
Rested(f) ==
  LET go[k \in 0 .. f.com] ==
        IF k = 0 THEN [list |-> f.list, i |-> 1, count |-> f.com]
        ELSE LET g == go[k - 1] IN
             IF g.i > g.count THEN g
             ELSE IF DropsOut(g.list[g.i])
             THEN [g EXCEPT !.list = Swapped(@, g.i, g.count), !.count = @ - 1]
             ELSE [g EXCEPT !.i = @ + 1]
      last == go[f.com]
  IN [f EXCEPT !.list = last.list, !.com = last.count, !.noncom = @ + f.com - last.count]

\* compare_faster: combatants by speed, those alike in any order.
Sortings(f) ==
  {o \in [1 .. f.com -> Combatants(f)] :
     /\ \A i, j \in DOMAIN o : i < j => o[i] # o[j] /\ Speed[o[i]] >= Speed[o[j]]}

ShouldEnd(f) ==
  \/ f.com <= 1
  \/ Dude \notin Combatants(f)
  \/ \A c \in Combatants(f) :
       Team[c] = Team[Dude] /\ (whoHitMe[c] = Nobody \/ Team[whoHitMe[c]] # Team[Dude])

\* The rest of combat_sequence: the list is put in order for the next round,
\* and five seconds pass, in which some wake up (critter_wake_up).
Sequence(awake) ==
  /\ run.pc = "joining" /\ run.index >= fight.com + fight.noncom
  /\ LET f == Rested(Buried(fight)) IN
     \E o \in Sortings(f) :
       LET g == [f EXCEPT !.list = o \o SubSeq(@, f.com + 1, Len(@))] IN
       /\ fight' = g
       /\ run' = [run EXCEPT !.pc = IF ShouldEnd(g) THEN "over" ELSE "round", !.done = 0]
  /\ maneuver' = [c \in Critter |->
                    IF c \in awake THEN maneuver[c] \cup {"engaging"}
                    ELSE IF c \in Combatants(fight) /\ DropsOut(c) /\ ~Dead(c)
                    THEN maneuver[c] \ {"engaging"} ELSE maneuver[c]]
  /\ results' = [c \in Critter |-> IF c \in awake THEN results[c] \ {"ko"} ELSE results[c]]
  /\ acted' = << >>
  /\ UNCHANGED << present, hurt, whoHitMe, cid, saved, hits >>

\* The end of combat(): combat_over, unless another game has been loaded.
Over ==
  /\ run.pc = "over"
  /\ run' = AtPeace
  /\ acted' = IF run.loaded THEN acted ELSE << >>
  /\ IF run.loaded
     THEN UNCHANGED << results, maneuver, hurt, whoHitMe, fight >>
     ELSE LET inFight == Combatants(fight) \cup Others(fight) IN
          /\ maneuver' = [c \in Critter |-> IF c \in inFight THEN {} ELSE maneuver[c]]
          /\ hurt' = hurt \ inFight
          /\ whoHitMe' = [c \in Critter |-> IF c \in InList(fight) THEN Nobody ELSE whoHitMe[c]]
          /\ results' = [results EXCEPT ![Dude] = IF "dead" \in @ THEN @ ELSE @ \ {"ko"}]
          /\ fight' = [fight EXCEPT !.on = FALSE, !.list = << >>, !.total = 0]
  /\ UNCHANGED << present, cid, saved, hits >>

\* A knocked out critter wakes up after the fight.
WakeUp(c) ==
  /\ run.pc = "peace" /\ ~fight.on /\ "ko" \in results[c] /\ ~Dead(c)
  /\ results' = [results EXCEPT ![c] = @ \ {"ko"}]
  /\ UNCHANGED << present, maneuver, hurt, whoHitMe, cid, fight, run, acted, saved, hits >>

-----------------------------------------------------------------------------
(* Scripts that take critters out of the fight, or put them on the map.    *)

\* combat_delete_critter: the places behind the critter's are not moved up.
Deleted(f, c) ==
  IF ~f.on \/ c \notin InList(f) THEN f
  ELSE LET i == PlaceOf(SubSeq(f.list, 1, f.total), c) IN
       [f EXCEPT !.total = @ - 1,
                 !.list = [@ EXCEPT ![f.total] = c],
                 !.com = IF i <= f.com THEN @ - 1 ELSE @,
                 !.noncom = IF i > f.com /\ i <= f.com + f.noncom THEN @ - 1 ELSE @]

Vanishes(c, how) ==
  /\ run.pc = "acting" /\ ~run.loaded /\ how \in may \cap {"kill", "remove"}
  /\ c \in Alive \ {Dude}
  /\ fight' = Deleted(fight, c)
  /\ whoHitMe' = [whoHitMe EXCEPT ![c] = Nobody]
  /\ IF how = "kill"
     THEN results' = [results EXCEPT ![c] = @ \cup {"dead"}] /\ UNCHANGED present
     ELSE present' = present \ {c} /\ UNCHANGED results
  /\ UNCHANGED << maneuver, hurt, cid, run, acted, saved, hits >>

Appears(c) ==
  /\ run.pc \in {"acting", "peace"} /\ ~run.loaded /\ "create" \in may /\ c \notin present
  /\ present' = present \cup {c}
  /\ results' = [results EXCEPT ![c] = {}]
  /\ cid' = [cid EXCEPT ![c] = -1]
  /\ UNCHANGED << maneuver, hurt, whoHitMe, fight, run, acted, saved, hits >>

-----------------------------------------------------------------------------
(* Saved games: combat_save, obj_save and combat_load.                     *)

\* The player saves when it is his turn, or at peace.
Save ==
  /\ "save" \in may /\ saved = NoGame /\ (Acting(Dude) \/ (run.pc = "peace" /\ ~fight.on))
  /\ saved' = [present |-> present, results |-> results, maneuver |-> maneuver, hurt |-> hurt,
               cid |-> cid, acted |-> acted, hits |-> hits,
               hitCid |-> [c \in Critter |-> IF whoHitMe[c] = Nobody THEN -1 ELSE cid[whoHitMe[c]]],
               on |-> fight.on, com |-> fight.com, noncom |-> fight.noncom, total |-> fight.total,
               cids |-> [i \in 1 .. fight.total |-> cid[fight.list[i]]]]
  /\ UNCHANGED << body, cid, fight, run, acted, hits >>

\* Mutant: the search begins one place late.
FindCidPast(start, n, list, numbers) ==
  Min({i \in start + 1 .. Len(list) : numbers[list[i]] = n} \cup {Len(list) + 1})

\* find_cid.
FindCid(start, n, list, numbers) ==
  Min({i \in start .. Len(list) : numbers[list[i]] = n} \cup {Len(list) + 1})

\* The list in the order of the saved numbers; a number not found spoils it.
Placed(s, order) ==
  LET put[i \in 0 .. s.total] ==
        IF i = 0 THEN order
        ELSE LET j == FindCid(i, s.cids[i], put[i - 1], s.cid) IN
             IF put[i - 1] = << >> \/ j > Len(put[i - 1]) THEN << >> ELSE Swapped(put[i - 1], i, j)
  IN put[s.total]

\* What combat_load asks of a saved fight.
Loadable(s) ==
  s.on => \A order \in Orders(s.present) :
            Len(order) = s.total /\ (s.total > 0 => Placed(s, order) # << >>)

\* Mutant: critters are numbered anew before those they were hit by are found.
Renumbered(s, c, order) ==
  LET j == FindCid(1, s.hitCid[c], order, [d \in Critter |-> PlaceOf(order, d)])
  IN IF s.hitCid[c] = -1 \/ c = Dude \/ j > Len(order) THEN Nobody ELSE order[j]

\* Who a loaded critter was hit by. (The player's has been found before, and
\* is not a number any more.)
HitBy(s, c, order) ==
  LET j == FindCid(1, s.hitCid[c], order, s.cid)
  IN IF s.hitCid[c] = -1 \/ c = Dude \/ j > Len(order) THEN Nobody ELSE order[j]

\* A game is loaded, at peace or in the player's turn; whatever fight there
\* was is over, and its combat() has still to return.
Load(order) ==
  /\ \/ "load" \in may /\ run.pc = "peace" /\ run' = AtPeace
     \/ "reload" \in may /\ Acting(Dude) /\ run' = [run EXCEPT !.loaded = TRUE]
  /\ Loadable(saved)
  /\ present' = saved.present
  /\ results' = saved.results /\ maneuver' = saved.maneuver /\ hurt' = saved.hurt
  /\ IF saved.on
     THEN LET list == Placed(saved, order) IN
          /\ fight' = [on |-> TRUE, list |-> list, com |-> saved.com, noncom |-> saved.noncom,
                       total |-> saved.total]
          /\ whoHitMe' = [c \in Critter |-> HitBy(saved, c, order)]
          /\ cid' = [c \in Critter |-> IF c \in Range(list) THEN PlaceOf(list, c) ELSE saved.cid[c]]
     ELSE /\ fight' = [fight EXCEPT !.on = FALSE, !.list = << >>, !.total = 0]
          /\ whoHitMe' = [c \in Critter |-> Nobody]
          /\ cid' = saved.cid
  /\ acted' = saved.acted /\ hits' = saved.hits
  /\ UNCHANGED saved

Move ==
  \/ NextTurn \/ RoundOver \/ Resume \/ EndByPlayer \/ EndTurn \/ Join \/ StayOut \/ Over \/ Save
  \/ \E order \in Orders(present) :
       \/ Start(order, Nobody, Nobody)
       \/ run.pc = "peace" /\ \E a, d \in Alive : a # d /\ Start(order, a, d)
  \/ \E c \in {run.actor} \ {Nobody}, d \in Alive, blamed \in BOOLEAN :
       \E outcome \in may, onlookers \in {{d}, Alive} : Hit(c, d, outcome, blamed, onlookers)
  \/ \E c \in Critter : \/ WakeUp(c) \/ Appears(c)
                        \/ \E how \in may : GivesUp(c, how) \/ Vanishes(c, how)
  \/ \E awake \in SUBSET {c \in Alive : "ko" \in results[c]} : Sequence(awake)
  \/ saved # NoGame /\ \E order \in Orders(saved.present) : Load(order)

Next == Move /\ UNCHANGED may

Spec == Init /\ [][Next]_vars

-----------------------------------------------------------------------------
\* Scripts take critters from the map or put some there: combat_delete_critter then loses
\* another one from the list, or lists one twice.
ByScripts == may \cap {"kill", "remove", "create"} # {}

\* In a fight the list holds every critter of the map once: combatants, then
\* the others, and behind them only dead. None is lost by the exchanges of
\* those that join, die, fall and give up, nor by saving and loading.
ListHoldsAll ==
  fight.on /\ ~ByScripts =>
    /\ fight.total = Cardinality(present) /\ InList(fight) = present
    /\ fight.com + fight.noncom <= fight.total
    /\ \A i \in fight.com + fight.noncom + 1 .. fight.total : Dead(fight.list[i])

\* No critter takes two turns in a round, those counted that they take when
\* they join and those of a round that was saved and loaded.
NobodyActsTwice == ~ByScripts => \A i, j \in DOMAIN acted : acted[i] = acted[j] => i = j

\* At the end of a round all combatants, and no others, have had their turn;
\* also when the round was interrupted by saving and loading. (Unless loading
\* interrupted another fight.)
NobodyPassedOver ==
  run.pc = "joining" /\ ~ByScripts /\ "reload" \notin may =>
    {acted[i] : i \in DOMAIN acted} = Combatants(fight)

\* A new round is fought by the player and those able to: none that is dead,
\* and none but he that is knocked out or has only given up.
NewRoundIsFit ==
  [][run.pc = "joining" /\ run'.pc = "round" =>
       /\ Dude \in Combatants(fight')
       /\ \A c \in Combatants(fight') :
            /\ ~Dead(c)
            /\ c # Dude => "ko" \notin results'[c] /\ maneuver'[c] # {"disengaging"}]_vars

\* A fight that is loaded is the one that was saved: the same order, the same
\* parts, and everyone but the player knows who hit him.
LoadRestores ==
  [][saved # NoGame /\ saved.on /\ (\E order \in Orders(saved.present) : Load(order)) =>
       /\ \A i \in 1 .. fight'.total : saved.cid[fight'.list[i]] = saved.cids[i]
       /\ fight'.com = saved.com /\ fight'.noncom = saved.noncom /\ fight'.total = saved.total
       /\ \A c \in saved.present \ {Dude} :
            saved.hitCid[c] = IF whoHitMe'[c] = Nobody THEN -1 ELSE saved.cid[whoHitMe'[c]]]_vars

\* combat_load returns an error unless the map has just as many critters as
\* the saved list, and each number of the list is the number of one of them.
SavedFightLoads == saved # NoGame => Loadable(saved)
=============================================================================
