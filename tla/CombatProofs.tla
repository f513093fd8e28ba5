----------------------------- MODULE CombatProofs -----------------------------
(***************************************************************************)
(* Proofs about Combat: whatever critters there are, wherever they stand   *)
(* and whatever happens in the fight, the list of a fight that no script   *)
(* interferes with holds every critter of the map once, a new round is     *)
(* fought by those able to, each of them has one turn in it, and a fight   *)
(* that is loaded is the one that was saved.                               *)
(***************************************************************************)
EXTENDS Combat, ListProofs, FiniteSetTheorems

\* A list of n critters; one that holds those of S once each; and one that holds
\* all critters.
Listing(n) == [1 .. n -> Critter]

Holds(list, n, S) ==
  /\ list \in Listing(n)
  /\ \A i, j \in 1 .. n : list[i] = list[j] => i = j
  /\ \A c \in S : \E i \in 1 .. n : list[i] = c
  /\ \A i \in 1 .. n : list[i] \in S

Complete(list, n) == Holds(list, n, Critter)

\* Two that change places.
LEMMA SwappedPlaces ==
  ASSUME NEW n \in Nat, NEW list \in Listing(n), NEW i \in 1 .. n, NEW j \in 1 .. n
  PROVE  /\ Swapped(list, i, j) \in Listing(n)
         /\ \A p \in 1 .. n : Swapped(list, i, j)[p] =
              IF p = j THEN list[i] ELSE IF p = i THEN list[j] ELSE list[p]
BY DEF Swapped, Listing

\* No one is lost by that, and no one added.
LEMMA SwappedHolds ==
  ASSUME NEW n \in Nat, NEW list, NEW S, Holds(list, n, S), NEW i \in 1 .. n, NEW j \in 1 .. n
  PROVE  Holds(Swapped(list, i, j), n, S)
<1> DEFINE m == Swapped(list, i, j)
<1>1. /\ list \in Listing(n) /\ \A c \in S : \E p \in 1 .. n : list[p] = c
      /\ \A p, q \in 1 .. n : list[p] = list[q] => p = q
      /\ \A p \in 1 .. n : list[p] \in S
  BY DEF Holds
<1>2. /\ m \in Listing(n)
      /\ \A p \in 1 .. n : m[p] =
           IF p = j THEN list[i] ELSE IF p = i THEN list[j] ELSE list[p]
  BY <1>1, SwappedPlaces
<1> HIDE DEF m
<1>3. \A p, q \in 1 .. n : m[p] = m[q] => p = q
  BY <1>1, <1>2
<1>4. ASSUME NEW c \in S PROVE \E p \in 1 .. n : m[p] = c
  <2>1. PICK p \in 1 .. n : list[p] = c
    BY <1>1
  <2>2. m[IF p = i THEN j ELSE IF p = j THEN i ELSE p] = c
    BY <1>2, <2>1
  <2> QED BY <2>2
<1>5. \A p \in 1 .. n : m[p] \in S
  BY <1>1, <1>2
<1> QED BY <1>2, <1>3, <1>4, <1>5 DEF Holds, m

\* A complete list stays complete.
LEMMA SwappedComplete ==
  ASSUME NEW n \in Nat, NEW list, Complete(list, n), NEW i \in 1 .. n, NEW j \in 1 .. n
  PROVE  Complete(Swapped(list, i, j), n)
BY SwappedHolds DEF Complete

-----------------------------------------------------------------------------
(* The loop that sorts out the combatants in D (the dead, or those that     *)
(* drop out): it puts each behind the last that stays, off places further.  *)

Sift(g, D, off) ==
  IF g.i > g.count THEN g
  ELSE IF g.list[g.i] \in D
  THEN [list |-> Swapped(Swapped(g.list, g.i, g.count), g.count, off + g.count),
        i |-> g.i, count |-> g.count - 1]
  ELSE [list |-> g.list, i |-> g.i + 1, count |-> g.count]

SiftState(n, com) == [list : Listing(n), i : 1 .. com + 1, count : 0 .. com]

\* What holds all the while: those looked at are not in D; those put behind
\* are; whoever was behind from the beginning stays; none is lost, and none that
\* is not in D is put behind; and if those in D are not put further the
\* combatants stay the same.
SiftInv(g, l, n, com, off, D) ==
  /\ g \in SiftState(n, com)
  /\ \A p \in 1 .. g.count : p < g.i => g.list[p] \notin D
  /\ \A p \in g.count + off + 1 .. com + off : g.list[p] \in D
  /\ \A p \in com + off + 1 .. n : g.list[p] = l[p]
  /\ Complete(l, n) => Complete(g.list, n)
  /\ off = 0 => \A p \in 1 .. com : \E q \in 1 .. com : g.list[p] = l[q]
  /\ \A p \in 1 .. com : l[p] \notin D => \E q \in 1 .. g.count : g.list[q] = l[p]

\* One turn of the loop keeps SiftInv.
LEMMA SiftStep ==
  ASSUME NEW n \in Nat, NEW l \in Listing(n), NEW com \in Nat, NEW off \in Nat,
         com + off <= n, NEW D, NEW g, SiftInv(g, l, n, com, off, D)
  PROVE  SiftInv(Sift(g, D, off), l, n, com, off, D)
<1>1. g.list \in Listing(n) /\ g.i \in 1 .. com + 1 /\ g.count \in 0 .. com
  BY DEF SiftInv, SiftState
<1> DEFINE h == Sift(g, D, off)
<1>2. CASE g.i > g.count
  BY <1>2 DEF Sift
<1>3. CASE ~(g.i > g.count) /\ g.list[g.i] \notin D
  <2>1. h.list = g.list /\ h.i = g.i + 1 /\ h.count = g.count
        /\ h = [list |-> g.list, i |-> g.i + 1, count |-> g.count]
    BY <1>3 DEF Sift
  <2>2. h \in SiftState(n, com)
    <3>1. g.i + 1 \in 1 .. com + 1
      BY <1>1, <1>3
    <3> HIDE DEF h
    <3> QED BY <1>1, <2>1, <3>1 DEF SiftState
  <2> HIDE DEF h
  <2>3. \A p \in 1 .. h.count : p < h.i => h.list[p] \notin D
    <3> SUFFICES ASSUME NEW p \in 1 .. g.count, p < g.i + 1 PROVE g.list[p] \notin D
      BY <2>1
    <3>1. p < g.i \/ p = g.i
      BY <1>1
    <3> QED BY <1>3, <3>1 DEF SiftInv
  <2> QED BY <2>1, <2>2, <2>3 DEF SiftInv, h
<1>4. CASE ~(g.i > g.count) /\ g.list[g.i] \in D
  <2> DEFINE i == g.i
             k == g.count
             e == off + k
             m == Swapped(g.list, i, k)
             r == Swapped(m, k, e)
  <2>1. i \in 1 .. n /\ k \in 1 .. n /\ e \in 1 .. n /\ i <= k /\ k <= e /\ k \in 1 .. com
        /\ k - 1 \in 0 .. com
    BY <1>1, <1>4
  <2>2. h = [list |-> r, i |-> i, count |-> k - 1] /\ h.list = r /\ h.i = i /\ h.count = k - 1
    BY <1>4 DEF Sift
  <2>3. g.list[i] \in D
    BY <1>4
  <2>4. k \in Nat /\ e = off + k /\ i \in 1 .. com + 1
    BY <1>1
  <2>5. /\ \A p \in 1 .. k : p < i => g.list[p] \notin D
        /\ \A p \in k + off + 1 .. com + off : g.list[p] \in D
        /\ \A p \in com + off + 1 .. n : g.list[p] = l[p]
        /\ Complete(l, n) => Complete(g.list, n)
        /\ off = 0 => \A p \in 1 .. com : \E q \in 1 .. com : g.list[p] = l[q]
        /\ \A p \in 1 .. com : l[p] \notin D => \E q \in 1 .. k : g.list[q] = l[p]
    BY DEF SiftInv
  <2> HIDE DEF i, k, e, h
  <2>6. m \in Listing(n) /\ \A p \in 1 .. n : m[p] =
          IF p = k THEN g.list[i] ELSE IF p = i THEN g.list[k] ELSE g.list[p]
    <3> DEFINE s == g.list
    <3>1. s \in Listing(n)
      BY <1>1
    <3> HIDE DEF s
    <3>2. /\ Swapped(s, i, k) \in Listing(n)
          /\ \A p \in 1 .. n : Swapped(s, i, k)[p] =
               IF p = k THEN s[i] ELSE IF p = i THEN s[k] ELSE s[p]
      BY <2>1, <3>1, SwappedPlaces
    <3> QED BY <3>2 DEF s
  <2>7. Complete(g.list, n) => Complete(m, n)
    BY <2>1, SwappedComplete
  <2> HIDE DEF m
  <2>8. r \in Listing(n) /\ \A p \in 1 .. n : r[p] =
          IF p = e THEN m[k] ELSE IF p = k THEN m[e] ELSE m[p]
    BY <2>1, <2>6, SwappedPlaces
  <2>9. Complete(m, n) => Complete(r, n)
    BY <2>1, SwappedComplete
  <2> HIDE DEF r
  <2>10. h \in SiftState(n, com)
    BY <2>1, <2>2, <2>4, <2>8 DEF SiftState
  <2>11. \A p \in 1 .. k - 1 : p < i => r[p] \notin D
    <3> SUFFICES ASSUME NEW p \in 1 .. k - 1, p < i PROVE r[p] \notin D
      OBVIOUS
    <3>1. p \in 1 .. n /\ p # e /\ p # k /\ p # i /\ p \in 1 .. k
      BY <2>1
    <3>2. r[p] = g.list[p]
      BY <2>6, <2>8, <3>1
    <3> QED BY <2>5, <3>1, <3>2
  <2>12. \A p \in (k - 1) + off + 1 .. com + off : r[p] \in D
    <3> SUFFICES ASSUME NEW p \in (k - 1) + off + 1 .. com + off PROVE r[p] \in D
      OBVIOUS
    <3>1. CASE p = e
      BY <2>1, <2>3, <2>6, <2>8, <3>1
    <3>2. CASE p # e
      <4>1. p \in k + off + 1 .. com + off /\ p \in 1 .. n /\ p # k /\ p # i
        BY <2>1, <2>4, <3>2
      <4>2. r[p] = g.list[p]
        BY <2>6, <2>8, <3>2, <4>1
      <4> QED BY <2>5, <4>1, <4>2
    <3> QED BY <3>1, <3>2
  <2>13. \A p \in com + off + 1 .. n : r[p] = l[p]
    <3> SUFFICES ASSUME NEW p \in com + off + 1 .. n PROVE r[p] = l[p]
      OBVIOUS
    <3>1. p \in 1 .. n /\ p # k /\ p # i /\ p # e
      BY <2>1, <2>4
    <3> QED BY <2>5, <2>6, <2>8, <3>1
  <2>14. ASSUME off = 0, NEW p \in 1 .. com PROVE \E q \in 1 .. com : r[p] = l[q]
    <3>1. e = k /\ p \in 1 .. n /\ i \in 1 .. com
      BY <2>1, <2>4, <2>14
    <3>2. r[p] = g.list[IF p = k THEN i ELSE IF p = i THEN k ELSE p]
      BY <2>1, <2>6, <2>8, <3>1
    <3>3. (IF p = k THEN i ELSE IF p = i THEN k ELSE p) \in 1 .. com
      BY <2>1, <3>1
    <3> QED BY <2>5, <2>14, <3>2, <3>3
  <2>15. Complete(l, n) => Complete(r, n)
    BY <2>5, <2>7, <2>9
  <2>16. ASSUME NEW p \in 1 .. com, l[p] \notin D PROVE \E q \in 1 .. k - 1 : r[q] = l[p]
    <3>1. PICK q \in 1 .. k : g.list[q] = l[p]
      BY <2>5, <2>16
    <3>2. q # i
      BY <2>3, <2>16, <3>1
    <3>3. CASE q # k
      <4>1. q \in 1 .. k - 1 /\ q \in 1 .. n /\ q # e
        BY <2>1, <3>3
      <4>2. r[q] = g.list[q]
        BY <2>6, <2>8, <3>2, <3>3, <4>1
      <4> QED BY <3>1, <4>1, <4>2
    <3>4. CASE q = k
      <4>1. i \in 1 .. k - 1 /\ i # k /\ i # e
        BY <2>1, <3>2, <3>4
      <4>2. r[i] = g.list[k]
        BY <2>1, <2>6, <2>8, <4>1
      <4> QED BY <3>1, <3>4, <4>1, <4>2
    <3> QED BY <3>3, <3>4
  <2> QED BY <2>2, <2>10, <2>11, <2>12, <2>13, <2>14, <2>15, <2>16 DEF SiftInv, h
<1> QED BY <1>2, <1>3, <1>4

\* The states K of the loop, each following from the one before.
Sifting(K, n, l, com, off, D) ==
  /\ K[0] = [list |-> l, i |-> 1, count |-> com]
  /\ \A k \in 1 .. com : K[k - 1] \in SiftState(n, com) => K[k] = Sift(K[k - 1], D, off)

\* When as many steps have been taken as there were combatants, none is left to
\* look at.
LEMMA SiftEnd ==
  ASSUME NEW n \in Nat, NEW l \in Listing(n), NEW com \in Nat, NEW off \in Nat,
         com + off <= n, NEW D, NEW K, Sifting(K, n, l, com, off, D)
  PROVE  /\ SiftInv(K[com], l, n, com, off, D)
         /\ K[com].i > K[com].count
<1> USE DEF Sifting
<1> DEFINE Late(g, k) == g.i > g.count \/ g.count + k <= g.i + com - 1
           T == {k \in 0 .. com : SiftInv(K[k], l, n, com, off, D) /\ Late(K[k], k)}
<1>1. 0 \in T
  <2>1. K[0] \in SiftState(n, com) /\ K[0].list = l /\ K[0].i = 1 /\ K[0].count = com
    <3>1. 1 \in 1 .. com + 1 /\ com \in 0 .. com
      OBVIOUS
    <3> QED BY <3>1 DEF SiftState
  <2>2. SiftInv(K[0], l, n, com, off, D)
    BY <2>1 DEF SiftInv
  <2>3. Late(K[0], 0)
    BY <2>1
  <2> QED BY <2>2, <2>3
<1>2. ASSUME NEW k \in 0 .. com - 1, k \in T PROVE k + 1 \in T
  <2>1. k + 1 \in 1 .. com /\ (k + 1) - 1 = k /\ k + 1 \in 0 .. com
    OBVIOUS
  <2> DEFINE g == K[k]
             h == K[k + 1]
  <2>2. SiftInv(g, l, n, com, off, D) /\ Late(g, k)
    BY <1>2
  <2>3. g \in SiftState(n, com)
    BY <2>2 DEF SiftInv
  <2>4. h = Sift(g, D, off)
    BY <2>1, <2>3
  <2>5. g.i \in Int /\ g.count \in Int
    BY <2>3 DEF SiftState
  <2> HIDE DEF g, h
  <2>6. SiftInv(h, l, n, com, off, D)
    BY <2>2, <2>4, SiftStep
  <2>8. g.i > g.count => h = g
    BY <2>4 DEF Sift
  <2>9. ~(g.i > g.count) => \/ h.count = g.count - 1 /\ h.i = g.i
                            \/ h.count = g.count /\ h.i = g.i + 1
    BY <2>4 DEF Sift
  <2>10. Late(h, k + 1)
    BY <2>2, <2>5, <2>8, <2>9
  <2> QED BY <2>1, <2>6, <2>10 DEF h
<1>3. 0 .. com \subseteq T
  <2>1. 0 \in Int /\ com \in Int /\ \A k \in 0 .. com - 1 : k \in T => k + 1 \in T
    BY <1>2
  <2> HIDE DEF T
  <2> QED BY <1>1, <2>1, RangeInduction
<1>4. SiftInv(K[com], l, n, com, off, D) /\ Late(K[com], com)
  BY <1>3
<1>5. K[com].i \in Int /\ K[com].count \in Int
  BY <1>4 DEF SiftInv, SiftState
<1> QED BY <1>4, <1>5

\* The loop's states, step after step.
Sifts(g, n, l, com, off, D) ==
  /\ g \in [0 .. com -> SiftState(n, com)]
  /\ g[0] = [list |-> l, i |-> 1, count |-> com]
  /\ \A k \in 1 .. com : g[k] = Sift(g[k - 1], D, off)

\* The loop has such states, for every list it begins with.
LEMMA SiftExists ==
  ASSUME NEW n \in Nat, NEW l \in Listing(n), NEW com \in Nat, NEW off \in Nat,
         com + off <= n, NEW D \in SUBSET Critter
  PROVE  \E g : Sifts(g, n, l, com, off, D)
<1> DEFINE S == {g \in SiftState(n, com) : SiftInv(g, l, n, com, off, D)}
           base == [list |-> l, i |-> 1, count |-> com]
           step == [k \in 1 .. com |-> [g \in S |-> Sift(g, D, off)]]
<1>1. base \in S
  <2>1. base \in SiftState(n, com) /\ base.list = l /\ base.i = 1 /\ base.count = com
    <3>1. 1 \in 1 .. com + 1 /\ com \in 0 .. com
      OBVIOUS
    <3> QED BY <3>1 DEF SiftState
  <2> HIDE DEF base
  <2> QED BY <2>1 DEF SiftInv
<1>2. ASSUME NEW g \in S PROVE Sift(g, D, off) \in S
  <2>1. SiftInv(Sift(g, D, off), l, n, com, off, D)
    BY <1>2, SiftStep
  <2> QED BY <2>1 DEF SiftInv
<1> HIDE DEF S, base
<1>3. step \in Steps(com, S)
  BY <1>2 DEF Steps
<1>4. \A k \in 1 .. com : \A g \in S : step[k][g] = Sift(g, D, off)
  OBVIOUS
<1> HIDE DEF step
<1>5. PICK g \in [0 .. com -> S] : g[0] = base /\ \A k \in 1 .. com : g[k] = step[k][g[k - 1]]
  <2>1. Runs(com, S, base, step) # {}
    BY <1>1, <1>3, RangeRecursion
  <2> QED BY <2>1 DEF Runs
<1>6. ASSUME NEW k \in 1 .. com PROVE g[k] = Sift(g[k - 1], D, off)
  <2>1. k - 1 \in 0 .. com
    OBVIOUS
  <2>2. g[k - 1] \in S
    BY <1>5, <2>1
  <2> QED BY <1>4, <1>5, <2>2
<1>7. g \in [0 .. com -> SiftState(n, com)]
  BY <1>5 DEF S
<1> QED BY <1>5, <1>6, <1>7 DEF base, Sifts

\* Burying the dead is such a loop, and so is resting those that drop out.
DeadOnes == {c \in Critter : Dead(c)}
Leaving == {c \in Critter : DropsOut(c)}

\* The lists and numbers of a fight that the loops can go through.
Loop(f, n) == /\ f.list \in Listing(n) /\ f.com \in Nat /\ f.noncom \in Nat
              /\ f.com + f.noncom <= n

\* Buried is the last of a series of states in which each follows from the one
\* before by a turn of the loop.
LEMMA BuriedUnfolds ==
  ASSUME NEW f, NEW n \in Nat, Loop(f, n)
  PROVE  \E K : /\ K[0] = [list |-> f.list, i |-> 1, count |-> f.com]
                /\ \A k \in 1 .. f.com : K[k - 1] \in SiftState(n, f.com) =>
                     K[k] = Sift(K[k - 1], DeadOnes, f.noncom)
                /\ Buried(f) = [f EXCEPT !.list = K[f.com].list, !.com = K[f.com].count]
<1> DEFINE next(g) ==
             IF g.i > g.count THEN g
             ELSE IF Dead(g.list[g.i])
             THEN [g EXCEPT !.list = Swapped(Swapped(@, g.i, g.count), g.count, f.noncom + g.count),
                            !.count = @ - 1]
             ELSE [g EXCEPT !.i = @ + 1]
           base == [list |-> f.list, i |-> 1, count |-> f.com]
           Def(g) == [k \in 0 .. f.com |-> IF k = 0 THEN base ELSE next(g[k - 1])]
           K == CHOOSE g : g = Def(g)
<1>1. Buried(f) = [f EXCEPT !.list = K[f.com].list, !.com = K[f.com].count]
  BY DEF Buried
<1>2. ASSUME NEW g \in SiftState(n, f.com) PROVE next(g) = Sift(g, DeadOnes, f.noncom)
  <2>1. /\ g.list \in Listing(n) /\ g.i \in 1 .. f.com + 1 /\ g.count \in 0 .. f.com
        /\ g = [list |-> g.list, i |-> g.i, count |-> g.count]
    BY DEF SiftState
  <2>2. CASE g.i > g.count
    BY <2>2 DEF Sift
  <2>3. CASE ~(g.i > g.count)
    <3>1. g.i \in 1 .. n
      BY <2>1, <2>3 DEF Loop
    <3>2. Dead(g.list[g.i]) <=> g.list[g.i] \in DeadOnes
      BY <2>1, <3>1 DEF Listing, DeadOnes
    <3>3. CASE Dead(g.list[g.i])
      <4> DEFINE m == Swapped(Swapped(g.list, g.i, g.count), g.count, f.noncom + g.count)
                 k == g.count - 1
      <4>1. next(g) = [g EXCEPT !.list = m, !.count = k]
        BY <2>3, <3>3
      <4>2. Sift(g, DeadOnes, f.noncom) = [list |-> m, i |-> g.i, count |-> k]
        BY <2>3, <3>2, <3>3 DEF Sift
      <4> HIDE DEF m, k, next
      <4>3. [g EXCEPT !.list = m, !.count = k] = [list |-> m, i |-> g.i, count |-> k]
        <5>1. [g EXCEPT !.list = m] = [list |-> m, i |-> g.i, count |-> g.count]
          BY <2>1
        <5>2. [[list |-> m, i |-> g.i, count |-> g.count] EXCEPT !.count = k]
                = [list |-> m, i |-> g.i, count |-> k]
          OBVIOUS
        <5> QED BY <5>1, <5>2
      <4> QED BY <4>1, <4>2, <4>3
    <3>4. CASE ~Dead(g.list[g.i])
      <4>1. next(g) = [g EXCEPT !.i = g.i + 1]
        BY <2>3, <3>4
      <4>2. Sift(g, DeadOnes, f.noncom) = [list |-> g.list, i |-> g.i + 1, count |-> g.count]
        BY <2>3, <3>2, <3>4 DEF Sift
      <4> HIDE DEF next
      <4>3. [g EXCEPT !.i = g.i + 1] = [list |-> g.list, i |-> g.i + 1, count |-> g.count]
        BY <2>1
      <4> QED BY <4>1, <4>2, <4>3
    <3> QED BY <3>3, <3>4
  <2> QED BY <2>2, <2>3
<1> HIDE DEF next
<1>3. f.com \in Nat /\ f.noncom \in Nat /\ f.list \in Listing(n) /\ f.com + f.noncom <= n
  BY DEF Loop
<1>4. PICK h \in [0 .. f.com -> SiftState(n, f.com)] :
        h[0] = base /\ \A k \in 1 .. f.com : h[k] = Sift(h[k - 1], DeadOnes, f.noncom)
  <2> DEFINE l == f.list
             com == f.com
             off == f.noncom
  <2>1. com \in Nat /\ off \in Nat /\ l \in Listing(n) /\ com + off <= n
    BY <1>3
  <2> HIDE DEF l, com, off
  <2>2. DeadOnes \in SUBSET Critter
    BY DEF DeadOnes
  <2>3. \E h : Sifts(h, n, l, com, off, DeadOnes)
    BY <2>1, <2>2, SiftExists
  <2> QED BY <2>3 DEF l, com, off, Sifts
<1> HIDE DEF base
<1>5. h = Def(h)
  <2>1. ASSUME NEW k \in 1 .. f.com PROVE h[k] = next(h[k - 1])
    <3>1. k - 1 \in 0 .. f.com
      BY <1>3
    <3> QED BY <1>2, <1>4, <3>1
  <2>2. \A k \in 0 .. f.com : h[k] = IF k = 0 THEN base ELSE next(h[k - 1])
    BY <1>3, <1>4, <2>1
  <2> QED BY <1>4, <2>2
<1>6. K = Def(K)
  <2> HIDE DEF Def
  <2> QED BY <1>5
<1> HIDE DEF K
<1>7. \A k \in 0 .. f.com : K[k] = IF k = 0 THEN base ELSE next(K[k - 1])
  <2>1. \A k \in 0 .. f.com : Def(K)[k] = IF k = 0 THEN base ELSE next(K[k - 1])
    OBVIOUS
  <2> QED BY <1>6, <2>1
<1>8. K[0] = base /\ \A k \in 1 .. f.com : K[k] = next(K[k - 1])
  BY <1>3, <1>7
<1>9. \A k \in 1 .. f.com : K[k - 1] \in SiftState(n, f.com) =>
        K[k] = Sift(K[k - 1], DeadOnes, f.noncom)
  BY <1>2, <1>8
<1> QED BY <1>1, <1>8, <1>9 DEF base

\* The same for Rested.
LEMMA RestedUnfolds ==
  ASSUME NEW f, NEW n \in Nat, Loop(f, n)
  PROVE  \E K : /\ K[0] = [list |-> f.list, i |-> 1, count |-> f.com]
                /\ \A k \in 1 .. f.com : K[k - 1] \in SiftState(n, f.com) =>
                     K[k] = Sift(K[k - 1], Leaving, 0)
                /\ Rested(f) = [f EXCEPT !.list = K[f.com].list, !.com = K[f.com].count,
                                         !.noncom = @ + f.com - K[f.com].count]
<1> DEFINE next(g) ==
             IF g.i > g.count THEN g
             ELSE IF DropsOut(g.list[g.i])
             THEN [g EXCEPT !.list = Swapped(@, g.i, g.count), !.count = @ - 1]
             ELSE [g EXCEPT !.i = @ + 1]
           base == [list |-> f.list, i |-> 1, count |-> f.com]
           Def(g) == [k \in 0 .. f.com |-> IF k = 0 THEN base ELSE next(g[k - 1])]
           K == CHOOSE g : g = Def(g)
<1>1. Rested(f) = [f EXCEPT !.list = K[f.com].list, !.com = K[f.com].count,
                            !.noncom = @ + f.com - K[f.com].count]
  BY DEF Rested
<1>2. ASSUME NEW g \in SiftState(n, f.com) PROVE next(g) = Sift(g, Leaving, 0)
  <2>1. /\ g.list \in Listing(n) /\ g.i \in 1 .. f.com + 1 /\ g.count \in 0 .. f.com
        /\ g = [list |-> g.list, i |-> g.i, count |-> g.count]
    BY DEF SiftState
  <2>2. CASE g.i > g.count
    BY <2>2 DEF Sift
  <2>3. CASE ~(g.i > g.count)
    <3>1. g.i \in 1 .. n
      BY <2>1, <2>3 DEF Loop
    <3>2. DropsOut(g.list[g.i]) <=> g.list[g.i] \in Leaving
      BY <2>1, <3>1 DEF Listing, Leaving
    <3>3. CASE DropsOut(g.list[g.i])
      <4> DEFINE m == Swapped(g.list, g.i, g.count)
                 k == g.count - 1
      <4>0. Swapped(m, g.count, 0 + g.count) = m
        <5> DEFINE e == g.count
        <5>1. e \in 1 .. n /\ 0 + e = e
          BY <2>1, <2>3 DEF Loop
        <5>2. m \in Listing(n)
          BY <2>1, <3>1, <5>1, SwappedPlaces
        <5> HIDE DEF m, e
        <5>3. Swapped(m, e, e) = m
          BY <5>1, <5>2 DEF Swapped, Listing
        <5> QED BY <5>1, <5>3 DEF e
      <4>1. next(g) = [g EXCEPT !.list = m, !.count = k]
        BY <2>3, <3>3
      <4>2. Sift(g, Leaving, 0) = [list |-> m, i |-> g.i, count |-> k]
        BY <2>3, <3>2, <3>3, <4>0 DEF Sift
      <4> HIDE DEF m, k, next
      <4>3. [g EXCEPT !.list = m, !.count = k] = [list |-> m, i |-> g.i, count |-> k]
        <5>1. [g EXCEPT !.list = m] = [list |-> m, i |-> g.i, count |-> g.count]
          BY <2>1
        <5>2. [[list |-> m, i |-> g.i, count |-> g.count] EXCEPT !.count = k]
                = [list |-> m, i |-> g.i, count |-> k]
          OBVIOUS
        <5> QED BY <5>1, <5>2
      <4> QED BY <4>1, <4>2, <4>3
    <3>4. CASE ~DropsOut(g.list[g.i])
      <4>1. next(g) = [g EXCEPT !.i = g.i + 1]
        BY <2>3, <3>4
      <4>2. Sift(g, Leaving, 0) = [list |-> g.list, i |-> g.i + 1, count |-> g.count]
        BY <2>3, <3>2, <3>4 DEF Sift
      <4> HIDE DEF next
      <4>3. [g EXCEPT !.i = g.i + 1] = [list |-> g.list, i |-> g.i + 1, count |-> g.count]
        BY <2>1
      <4> QED BY <4>1, <4>2, <4>3
    <3> QED BY <3>3, <3>4
  <2> QED BY <2>2, <2>3
<1> HIDE DEF next
<1>3. f.com \in Nat /\ f.noncom \in Nat /\ f.list \in Listing(n) /\ f.com + f.noncom <= n
  BY DEF Loop
<1>4. PICK h \in [0 .. f.com -> SiftState(n, f.com)] :
        h[0] = base /\ \A k \in 1 .. f.com : h[k] = Sift(h[k - 1], Leaving, 0)
  <2> DEFINE l == f.list
             com == f.com
  <2>1. com \in Nat /\ 0 \in Nat /\ l \in Listing(n) /\ com + 0 <= n
    BY <1>3
  <2> HIDE DEF l, com
  <2>2. Leaving \in SUBSET Critter
    BY DEF Leaving
  <2>3. \E h : Sifts(h, n, l, com, 0, Leaving)
    BY <2>1, <2>2, SiftExists
  <2> QED BY <2>3 DEF l, com, Sifts
<1> HIDE DEF base
<1>5. h = Def(h)
  <2>1. ASSUME NEW k \in 1 .. f.com PROVE h[k] = next(h[k - 1])
    <3>1. k - 1 \in 0 .. f.com
      BY <1>3
    <3> QED BY <1>2, <1>4, <3>1
  <2>2. \A k \in 0 .. f.com : h[k] = IF k = 0 THEN base ELSE next(h[k - 1])
    BY <1>3, <1>4, <2>1
  <2> QED BY <1>4, <2>2
<1>6. K = Def(K)
  <2> HIDE DEF Def
  <2> QED BY <1>5
<1> HIDE DEF K
<1>7. \A k \in 0 .. f.com : K[k] = IF k = 0 THEN base ELSE next(K[k - 1])
  <2>1. \A k \in 0 .. f.com : Def(K)[k] = IF k = 0 THEN base ELSE next(K[k - 1])
    OBVIOUS
  <2> QED BY <1>6, <2>1
<1>8. K[0] = base /\ \A k \in 1 .. f.com : K[k] = next(K[k - 1])
  BY <1>3, <1>7
<1>9. \A k \in 1 .. f.com : K[k - 1] \in SiftState(n, f.com) =>
        K[k] = Sift(K[k - 1], Leaving, 0)
  BY <1>2, <1>8
<1> QED BY <1>1, <1>8, <1>9 DEF base

\* A fight has these fields.
Fields(f) == DOMAIN f = {"on", "list", "com", "noncom", "total"}

\* What burying does: none of the combatants is dead, whoever was put out is,
\* and the list is complete if it was.
LEMMA BuriedIs ==
  ASSUME NEW f, NEW n \in Nat, Loop(f, n), Fields(f)
  PROVE  LET b == Buried(f) IN
         /\ Loop(b, n) /\ Fields(b)
         /\ b.on = f.on /\ b.total = f.total /\ b.noncom = f.noncom /\ b.com <= f.com
         /\ \A p \in 1 .. b.com : ~Dead(b.list[p])
         /\ \A p \in b.com + b.noncom + 1 .. f.com + f.noncom : Dead(b.list[p])
         /\ \A p \in f.com + f.noncom + 1 .. n : b.list[p] = f.list[p]
         /\ Complete(f.list, n) => Complete(b.list, n)
         /\ \A p \in 1 .. f.com : ~Dead(f.list[p]) => \E q \in 1 .. b.com : b.list[q] = f.list[p]
<1>0. f.list \in Listing(n) /\ f.com \in Nat /\ f.noncom \in Nat /\ f.com + f.noncom <= n
  BY DEF Loop
<1> DEFINE b == Buried(f)
<1>1. PICK K : /\ K[0] = [list |-> f.list, i |-> 1, count |-> f.com]
               /\ \A k \in 1 .. f.com : K[k - 1] \in SiftState(n, f.com) =>
                    K[k] = Sift(K[k - 1], DeadOnes, f.noncom)
               /\ b = [f EXCEPT !.list = K[f.com].list, !.com = K[f.com].count]
  BY BuriedUnfolds
<1> DEFINE g == K[f.com]
<1>2. SiftInv(g, f.list, n, f.com, f.noncom, DeadOnes) /\ g.i > g.count
  <2> DEFINE l == f.list
             com == f.com
             off == f.noncom
  <2>1. com \in Nat /\ off \in Nat /\ l \in Listing(n) /\ com + off <= n
    BY <1>0
  <2>2. Sifting(K, n, l, com, off, DeadOnes)
    BY <1>1 DEF Sifting
  <2> HIDE DEF l, com, off
  <2>3. SiftInv(K[com], l, n, com, off, DeadOnes) /\ K[com].i > K[com].count
    BY <2>1, <2>2, SiftEnd
  <2> QED BY <2>3 DEF l, com, off
<1>3. b.list = g.list /\ b.com = g.count /\ b.noncom = f.noncom /\ b.on = f.on
      /\ b.total = f.total /\ Fields(b)
  <2> DEFINE m == g.list
             k == g.count
  <2>1. b = [f EXCEPT !.list = m, !.com = k]
    BY <1>1
  <2> HIDE DEF m, k, b
  <2>2. b.list = m /\ b.com = k /\ b.noncom = f.noncom /\ b.on = f.on
        /\ b.total = f.total /\ Fields(b)
    BY <2>1 DEF Fields
  <2> QED BY <2>2 DEF m, k
<1> HIDE DEF g, b
<1>4. g.list \in Listing(n) /\ g.i \in 1 .. f.com + 1 /\ g.count \in 0 .. f.com
  BY <1>2 DEF SiftInv, SiftState
<1>5. Loop(b, n) /\ b.com <= f.com
  BY <1>0, <1>3, <1>4 DEF Loop
<1>6. \A p \in 1 .. b.com : ~Dead(b.list[p])
  <2> SUFFICES ASSUME NEW p \in 1 .. g.count PROVE ~Dead(g.list[p])
    BY <1>3
  <2>1. p < g.i /\ p \in 1 .. n
    BY <1>0, <1>2, <1>4
  <2>2. g.list[p] \notin DeadOnes /\ g.list[p] \in Critter
    BY <1>2, <1>4, <2>1 DEF SiftInv, Listing
  <2> QED BY <2>2 DEF DeadOnes
<1>7. \A p \in b.com + b.noncom + 1 .. f.com + f.noncom : Dead(b.list[p])
  <2> SUFFICES ASSUME NEW p \in g.count + f.noncom + 1 .. f.com + f.noncom
               PROVE  Dead(g.list[p])
    BY <1>3
  <2> QED BY <1>2 DEF SiftInv, DeadOnes
<1>8. \A p \in f.com + f.noncom + 1 .. n : b.list[p] = f.list[p]
  BY <1>2, <1>3 DEF SiftInv
<1>9. Complete(f.list, n) => Complete(b.list, n)
  BY <1>2, <1>3 DEF SiftInv
<1>10. \A p \in 1 .. f.com : ~Dead(f.list[p]) => \E q \in 1 .. b.com : b.list[q] = f.list[p]
  BY <1>2, <1>3 DEF SiftInv, DeadOnes
<1> QED BY <1>3, <1>5, <1>6, <1>7, <1>8, <1>9, <1>10 DEF b

\* What resting does: none of the combatants drops out, they were all combatants
\* before, and the list is complete if it was.
LEMMA RestedIs ==
  ASSUME NEW f, NEW n \in Nat, Loop(f, n), Fields(f)
  PROVE  LET r == Rested(f) IN
         /\ Loop(r, n) /\ Fields(r)
         /\ r.on = f.on /\ r.total = f.total /\ r.com + r.noncom = f.com + f.noncom
         /\ r.com <= f.com
         /\ \A p \in 1 .. r.com : ~DropsOut(r.list[p])
         /\ \A p \in 1 .. f.com : \E q \in 1 .. f.com : r.list[p] = f.list[q]
         /\ \A p \in f.com + 1 .. n : r.list[p] = f.list[p]
         /\ Complete(f.list, n) => Complete(r.list, n)
         /\ \A p \in 1 .. f.com :
              ~DropsOut(f.list[p]) => \E q \in 1 .. r.com : r.list[q] = f.list[p]
<1>0. f.list \in Listing(n) /\ f.com \in Nat /\ f.noncom \in Nat /\ f.com + f.noncom <= n
  BY DEF Loop
<1> DEFINE r == Rested(f)
<1>1. PICK K : /\ K[0] = [list |-> f.list, i |-> 1, count |-> f.com]
               /\ \A k \in 1 .. f.com : K[k - 1] \in SiftState(n, f.com) =>
                    K[k] = Sift(K[k - 1], Leaving, 0)
               /\ r = [f EXCEPT !.list = K[f.com].list, !.com = K[f.com].count,
                                !.noncom = @ + f.com - K[f.com].count]
  BY RestedUnfolds
<1> DEFINE g == K[f.com]
<1>2. SiftInv(g, f.list, n, f.com, 0, Leaving) /\ g.i > g.count
  <2> DEFINE l == f.list
             com == f.com
  <2>1. com \in Nat /\ 0 \in Nat /\ l \in Listing(n) /\ com + 0 <= n
    BY <1>0
  <2>2. Sifting(K, n, l, com, 0, Leaving)
    BY <1>1 DEF Sifting
  <2> HIDE DEF l, com
  <2>3. SiftInv(K[com], l, n, com, 0, Leaving) /\ K[com].i > K[com].count
    BY <2>1, <2>2, SiftEnd
  <2> QED BY <2>3 DEF l, com
<1>3. r.list = g.list /\ r.com = g.count /\ r.noncom = f.noncom + f.com - g.count
      /\ r.on = f.on /\ r.total = f.total /\ Fields(r)
  <2> DEFINE m == g.list
             k == g.count
             e == f.noncom + f.com - g.count
  <2>1. r = [f EXCEPT !.list = m, !.com = k, !.noncom = e]
    BY <1>1
  <2> HIDE DEF m, k, e, r
  <2>2. r.list = m /\ r.com = k /\ r.noncom = e /\ r.on = f.on
        /\ r.total = f.total /\ Fields(r)
    BY <2>1 DEF Fields
  <2> QED BY <2>2 DEF m, k, e
<1> HIDE DEF g, r
<1>4. g.list \in Listing(n) /\ g.i \in 1 .. f.com + 1 /\ g.count \in 0 .. f.com
  BY <1>2 DEF SiftInv, SiftState
<1>5. Loop(r, n) /\ r.com + r.noncom = f.com + f.noncom /\ r.com <= f.com
  BY <1>0, <1>3, <1>4 DEF Loop
<1>6. \A p \in 1 .. r.com : ~DropsOut(r.list[p])
  <2> SUFFICES ASSUME NEW p \in 1 .. g.count PROVE ~DropsOut(g.list[p])
    BY <1>3
  <2>1. p < g.i /\ p \in 1 .. n
    BY <1>0, <1>2, <1>4
  <2>2. g.list[p] \notin Leaving /\ g.list[p] \in Critter
    BY <1>2, <1>4, <2>1 DEF SiftInv, Listing
  <2> QED BY <2>2 DEF Leaving
<1>7. \A p \in 1 .. f.com : \E q \in 1 .. f.com : r.list[p] = f.list[q]
  BY <1>2, <1>3 DEF SiftInv
<1>8. \A p \in f.com + 1 .. n : r.list[p] = f.list[p]
  <2>1. f.com + 0 + 1 = f.com + 1
    BY <1>0
  <2> QED BY <1>2, <1>3, <2>1 DEF SiftInv
<1>9. Complete(f.list, n) => Complete(r.list, n)
  BY <1>2, <1>3 DEF SiftInv
<1>10. \A p \in 1 .. f.com :
         ~DropsOut(f.list[p]) => \E q \in 1 .. r.com : r.list[q] = f.list[p]
  BY <1>2, <1>3 DEF SiftInv, Leaving
<1> QED BY <1>3, <1>5, <1>6, <1>7, <1>8, <1>9, <1>10 DEF r

-----------------------------------------------------------------------------
(* The list at the beginning.                                              *)

\* A list is a sequence as long as it has places.
LEMMA ListingIsSeq ==
  ASSUME NEW n \in Nat, NEW list \in Listing(n)
  PROVE  list \in Seq(Critter) /\ Len(list) = n /\ DOMAIN list = 1 .. n
BY DEF Listing

\* One that is there has a place.
LEMMA PlaceIsThere ==
  ASSUME NEW n \in Nat, NEW list \in Listing(n), NEW c, \E i \in 1 .. n : list[i] = c
  PROVE  PlaceOf(list, c) \in 1 .. n /\ list[PlaceOf(list, c)] = c
BY DEF PlaceOf, Listing

\* The map's critters in the order of the tiles: each is there once.
LEMMA OrderHolds ==
  ASSUME NEW s \in Settings, NEW layout \in Layouts[s], NEW S \in SUBSET Critter
  PROVE  /\ Only(layout, S) \in Seq(Critter)
         /\ Holds(Only(layout, S), Len(Only(layout, S)), S)
<1>1. layout \in Seq(Critter)
  <2>1. Layouts \in [Settings -> SUBSET Seq(Critter)]
    BY CombatAssumption
  <2> QED BY <2>1
<1>2. Range(layout) = Critter /\ \A i, j \in DOMAIN layout : layout[i] = layout[j] => i = j
  BY CombatAssumption
<1> DEFINE r == Only(layout, S)
<1>3. r \in Seq(Critter)
  BY <1>1, OnlyProperties
<1>4. PICK f : Picks(f, r, layout, S, Len(layout))
  BY <1>1, OnlyProperties
<1> HIDE DEF r
<1>5. DOMAIN r = 1 .. Len(r) /\ Len(r) \in Nat /\ DOMAIN layout = 1 .. Len(layout)
  BY <1>1, <1>3
<1>6. r \in Listing(Len(r))
  BY <1>3, <1>5 DEF Listing
<1>7. ASSUME NEW i \in 1 .. Len(r), NEW j \in 1 .. Len(r), r[i] = r[j] PROVE i = j
  <2>1. layout[f[i]] = layout[f[j]] /\ f[i] \in DOMAIN layout /\ f[j] \in DOMAIN layout
    BY <1>4, <1>5, <1>7 DEF Picks
  <2>2. f[i] = f[j]
    BY <1>2, <2>1
  <2>3. f[i] \in Int /\ f[j] \in Int
    BY <1>5, <2>1
  <2>4. (i < j => f[i] < f[j]) /\ (j < i => f[j] < f[i])
    BY <1>4 DEF Picks
  <2> QED BY <2>2, <2>3, <2>4, <1>5
<1>8. ASSUME NEW c \in S PROVE \E i \in 1 .. Len(r) : r[i] = c
  <2>1. PICK i \in 1 .. Len(layout) : layout[i] = c
    BY <1>2, <1>5 DEF Range
  <2>2. PICK k \in 1 .. Len(r) : f[k] = i
    BY <1>4, <2>1 DEF Picks
  <2> QED BY <1>4, <2>1, <2>2 DEF Picks
<1>9. \A i \in 1 .. Len(r) : r[i] \in S
  BY <1>4 DEF Picks
<1> QED BY <1>3, <1>6, <1>7, <1>8, <1>9 DEF Holds, r

\* How many a list holds.
LEMMA HoldsCounts ==
  ASSUME NEW n \in Nat, NEW list, NEW S, Holds(list, n, S)
  PROVE  IsFiniteSet(S) /\ Cardinality(S) = n
<1>1. list \in Bijection(1 .. n, S)
  BY DEF Holds, Listing, Bijection, Injection, Surjection, IsInjective
<1>2. ExistsBijection(1 .. n, S)
  BY <1>1 DEF ExistsBijection
<1>3. IsFiniteSet(1 .. n) /\ Cardinality(1 .. n) = n
  BY FS_Interval
<1> QED BY <1>2, <1>3, FS_Bijection

\* The loop that puts the critters first, as long as each step leads from T to T.
Stays(T, L, firsts) == \A k \in 1 .. L : \A l \in T : Swapped(l, k, PlaceOf(l, firsts[k])) \in T

\* Then the lists it goes through form a series in T.
LEMMA PutSteps ==
  ASSUME NEW T, NEW order \in T, NEW L \in Nat, NEW firsts, Stays(T, L, firsts)
  PROVE  \E h \in [0 .. L -> T] :
           /\ h[0] = order
           /\ \A k \in 1 .. L : h[k] = Swapped(h[k - 1], k, PlaceOf(h[k - 1], firsts[k]))
<1> DEFINE next(k, l) == Swapped(l, k, PlaceOf(l, firsts[k]))
           step == [k \in 1 .. L |-> [l \in T |-> next(k, l)]]
<1>1. \A k \in 1 .. L : \A l \in T : next(k, l) \in T
  BY DEF Stays
<1> HIDE DEF next
<1>2. step \in Steps(L, T)
  BY <1>1 DEF Steps
<1>3. \A k \in 1 .. L : \A l \in T : step[k][l] = next(k, l)
  OBVIOUS
<1> HIDE DEF step
<1>4. PICK h \in [0 .. L -> T] : h[0] = order /\ \A k \in 1 .. L : h[k] = step[k][h[k - 1]]
  <2>1. Runs(L, T, order, step) # {}
    BY <1>2, RangeRecursion
  <2> QED BY <2>1 DEF Runs
<1>5. ASSUME NEW k \in 1 .. L PROVE h[k] = next(k, h[k - 1])
  <2>1. k - 1 \in 0 .. L
    OBVIOUS
  <2> QED BY <1>3, <1>4, <2>1
<1> QED BY <1>4, <1>5 DEF next

\* Putting some of the critters first loses none, and they are first then.
LEMMA PutFirstHolds ==
  ASSUME NEW n \in Nat, NEW S \in SUBSET Critter, NEW order, Holds(order, n, S),
         NEW firsts \in Seq(S), Len(firsts) <= n,
         \A i, j \in 1 .. Len(firsts) : firsts[i] = firsts[j] => i = j
  PROVE  /\ Holds(PutFirst(order, firsts), n, S)
         /\ \A i \in 1 .. Len(firsts) : PutFirst(order, firsts)[i] = firsts[i]
<1> DEFINE L == Len(firsts)
           T == {l \in Listing(n) : Holds(l, n, S)}
           next(k, l) == Swapped(l, k, PlaceOf(l, firsts[k]))
           Def(g) == [k \in 0 .. L |-> IF k = 0 THEN order ELSE next(k, g[k - 1])]
           K == CHOOSE g : g = Def(g)
           Ahead(k, l) == \A i \in 1 .. k : l[i] = firsts[i]
<1>1. PutFirst(order, firsts) = K[L]
  BY DEF PutFirst
<1>2. L \in Nat /\ L <= n /\ order \in T
  BY DEF Holds
<1>3. ASSUME NEW k \in 1 .. L, NEW l \in T
      PROVE  next(k, l) \in T /\ (Ahead(k - 1, l) => Ahead(k, next(k, l)))
  <2>1. firsts[k] \in S /\ k \in 1 .. n
    BY <1>2
  <2>2. l \in Listing(n) /\ Holds(l, n, S)
    OBVIOUS
  <2>3. \E i \in 1 .. n : l[i] = firsts[k]
    BY <2>1, <2>2 DEF Holds
  <2>4. PlaceOf(l, firsts[k]) \in 1 .. n /\ l[PlaceOf(l, firsts[k])] = firsts[k]
    BY <2>2, <2>3, PlaceIsThere
  <2> DEFINE p == PlaceOf(l, firsts[k])
  <2>5. p \in 1 .. n /\ l[p] = firsts[k]
    BY <2>4
  <2> HIDE DEF p
  <2>6. Holds(Swapped(l, k, p), n, S)
    BY <2>1, <2>2, <2>5, SwappedHolds
  <2>7. Swapped(l, k, p) \in Listing(n)
    BY <2>6 DEF Holds
  <2>8. ASSUME Ahead(k - 1, l), NEW i \in 1 .. k PROVE Swapped(l, k, p)[i] = firsts[i]
    <3>0. k \in 1 .. n /\ p \in 1 .. n /\ l \in Listing(n)
      BY <2>1, <2>2, <2>5
    <3>1. \A q \in 1 .. n : Swapped(l, k, p)[q] =
            IF q = p THEN l[k] ELSE IF q = k THEN l[p] ELSE l[q]
      BY <3>0, SwappedPlaces
    <3>2. i \in 1 .. n /\ i \in 1 .. L /\ (i # k => i \in 1 .. k - 1)
      BY <1>2
    <3>3. CASE i = k
      <4>1. Swapped(l, k, p)[k] = l[p]
        BY <2>1, <3>1
      <4> QED BY <2>5, <3>3, <4>1
    <3>4. CASE i # k
      <4>1. l[i] = firsts[i] /\ firsts[i] # firsts[k]
        BY <2>8, <3>2, <3>4
      <4> QED BY <2>5, <3>1, <3>2, <3>4, <4>1
    <3> QED BY <3>3, <3>4
  <2> QED BY <2>6, <2>7, <2>8 DEF p
<1>4. \E h \in [0 .. L -> T] :
        h[0] = order /\ \A k \in 1 .. L : h[k] = next(k, h[k - 1])
  <2>1. L \in Nat
    BY <1>2
  <2>2. order \in T
    BY <1>2
  <2>3. Stays(T, L, firsts)
    BY <1>3 DEF Stays
  <2> HIDE DEF T, L
  <2>4. \E h \in [0 .. L -> T] :
          /\ h[0] = order
          /\ \A k \in 1 .. L : h[k] = Swapped(h[k - 1], k, PlaceOf(h[k - 1], firsts[k]))
    BY <2>1, <2>2, <2>3, PutSteps
  <2> QED BY <2>4
<1> HIDE DEF T, next, L, Ahead
<1>5. PICK h \in [0 .. L -> T] : h[0] = order /\ \A k \in 1 .. L : h[k] = next(k, h[k - 1])
  BY <1>4
<1>6. h = Def(h)
  <2>2. \A k \in 0 .. L : h[k] = IF k = 0 THEN order ELSE next(k, h[k - 1])
    BY <1>2, <1>5
  <2> QED BY <1>5, <2>2
<1>7. K = Def(K)
  <2> HIDE DEF Def
  <2> QED BY <1>6
<1> HIDE DEF K
<1>8. \A k \in 0 .. L : K[k] = IF k = 0 THEN order ELSE next(k, K[k - 1])
  <2>1. \A k \in 0 .. L : Def(K)[k] = IF k = 0 THEN order ELSE next(k, K[k - 1])
    OBVIOUS
  <2> QED BY <1>7, <2>1
<1> DEFINE Z == {k \in 0 .. L : K[k] \in T /\ Ahead(k, K[k])}
<1>9. 0 \in Z /\ \A k \in 0 .. L - 1 : k \in Z => k + 1 \in Z
  <2>1. 0 \in Z
    <3>1. Ahead(0, K[0])
      BY DEF Ahead
    <3> QED BY <1>2, <1>8, <3>1
  <2>2. ASSUME NEW k \in 0 .. L - 1, k \in Z PROVE k + 1 \in Z
    <3> DEFINE e == k + 1
               l == K[k]
    <3>1. e \in 1 .. L /\ e \in 0 .. L /\ e - 1 = k /\ e # 0
      BY <1>2
    <3>2. K[e] = next(e, K[e - 1])
      <4> HIDE DEF e
      <4> QED BY <1>8, <3>1
    <3>3. l \in T /\ Ahead(e - 1, l)
      BY <2>2, <3>1
    <3> HIDE DEF e, l
    <3>4. next(e, l) \in T /\ Ahead(e, next(e, l))
      BY <1>3, <3>1, <3>3
    <3> QED BY <3>1, <3>2, <3>4 DEF e, l
  <2> QED BY <2>1, <2>2
<1>10. L \in Z
  <2>1. 0 \in Int /\ L \in Int
    BY <1>2
  <2> HIDE DEF Z
  <2>2. 0 .. L \subseteq Z
    BY <1>9, <2>1, RangeInduction
  <2> QED BY <1>2, <2>2
<1> QED BY <1>1, <1>10 DEF T, Ahead, L

\* Those put first: attacker, defender and player, each once.
Firsts(a, d) == Only(<< a, d >>, Critter) \o IF Dude \in {a, d} THEN << >> ELSE << Dude >>

\* They are different ones of those in S, no more than n, and the player is among
\* them.
Leaders(firsts, S, n) ==
  /\ firsts \in Seq(S) /\ Len(firsts) <= n
  /\ \A i, j \in 1 .. Len(firsts) : firsts[i] = firsts[j] => i = j
  /\ \E i \in 1 .. Len(firsts) : firsts[i] = Dude

\* That is so when the list holds those in S, since they are some of it.
LEMMA FirstsFit ==
  ASSUME NEW n \in Nat, NEW S \in SUBSET Critter, NEW order, Holds(order, n, S), Dude \in S,
         NEW a \in S \cup {Nobody}, NEW d \in S \cup {Nobody}, a # d \/ a = Nobody
  PROVE  Leaders(Firsts(a, d), S, n)
<1> DEFINE s == << a, d >>
           r == Only(s, Critter)
           t == IF Dude \in {a, d} THEN << >> ELSE << Dude >>
           firsts == Firsts(a, d)
<1>1. Nobody \notin Critter
  BY CombatAssumption
<1>2. s \in Seq(S \cup {Nobody}) /\ Len(s) = 2 /\ s[1] = a /\ s[2] = d
  OBVIOUS
<1>3. firsts = r \o t
  BY DEF Firsts
<1>4. /\ t \in Seq(S) /\ Len(t) \in {0, 1}
      /\ Len(t) = 1 => t[1] = Dude /\ Dude \notin {a, d}
      /\ Len(t) = 1 \/ Dude \in {a, d}
  <2>1. CASE Dude \in {a, d}
    <3>1. t = << >>
      BY <2>1
    <3> QED BY <3>1
  <2>2. CASE Dude \notin {a, d}
    <3>1. t = << Dude >>
      BY <2>2
    <3> QED BY <2>2, <3>1
  <2> QED BY <2>1, <2>2
<1> HIDE DEF s, t, firsts
<1>5. r \in Seq(S \cup {Nobody})
  BY <1>2, OnlyProperties
<1>6. PICK f : Picks(f, r, s, Critter, Len(s))
  BY <1>2, OnlyProperties
<1> HIDE DEF r
<1>7. Len(r) \in Nat /\ DOMAIN r = 1 .. Len(r)
  BY <1>5
<1>8. ASSUME NEW k \in 1 .. Len(r)
      PROVE  f[k] \in {1, 2} /\ r[k] = s[f[k]] /\ r[k] \in {a, d} /\ r[k] \in S
  <2>1. f[k] \in 1 .. Len(s) /\ r[k] = s[f[k]] /\ s[f[k]] \in Critter
    BY <1>6 DEF Picks
  <2>2. f[k] \in {1, 2} /\ r[k] \in {a, d} /\ r[k] # Nobody
    BY <1>1, <1>2, <2>1
  <2> QED BY <2>1, <2>2
<1>9. ASSUME NEW i \in 1 .. Len(r), NEW j \in 1 .. Len(r), r[i] = r[j] PROVE i = j
  <2>1. f[i] \in {1, 2} /\ f[j] \in {1, 2} /\ r[i] = s[f[i]] /\ r[j] = s[f[j]] /\ r[i] \in S
    BY <1>8
  <2>2. f[i] = f[j]
    BY <1>1, <1>2, <1>9, <2>1
  <2>3. (i < j => f[i] < f[j]) /\ (j < i => f[j] < f[i])
    BY <1>6 DEF Picks
  <2> QED BY <1>7, <2>1, <2>2, <2>3
<1>10. r \in Seq(S)
  BY <1>5, <1>7, <1>8
<1>11. firsts \in Seq(S) /\ Len(firsts) = Len(r) + Len(t)
       /\ \A k \in 1 .. Len(firsts) :
            firsts[k] = IF k <= Len(r) THEN r[k] ELSE t[k - Len(r)]
  BY <1>3, <1>4, <1>10, ConcatProperties
<1>12. Len(firsts) \in Nat /\ DOMAIN firsts = 1 .. Len(firsts)
  BY <1>11
<1>13. ASSUME NEW i \in 1 .. Len(firsts), NEW j \in 1 .. Len(firsts), firsts[i] = firsts[j]
       PROVE  i = j
  <2>1. \A k \in 1 .. Len(firsts) :
          \/ k \in 1 .. Len(r) /\ firsts[k] = r[k] /\ firsts[k] \in {a, d}
          \/ k = Len(r) + 1 /\ firsts[k] = Dude /\ Dude \notin {a, d}
    <3> SUFFICES ASSUME NEW k \in 1 .. Len(firsts)
                 PROVE  \/ k \in 1 .. Len(r) /\ firsts[k] = r[k] /\ firsts[k] \in {a, d}
                        \/ k = Len(r) + 1 /\ firsts[k] = Dude /\ Dude \notin {a, d}
      OBVIOUS
    <3>1. CASE k <= Len(r)
      <4>1. k \in 1 .. Len(r)
        BY <1>7, <1>12, <3>1
      <4> QED BY <1>8, <1>11, <3>1, <4>1
    <3>2. CASE ~(k <= Len(r))
      <4> DEFINE m == Len(r)
      <4>1. m \in Nat /\ Len(firsts) = m + Len(t) /\ ~(k <= m) /\ k \in Int /\ k <= Len(firsts)
        BY <1>7, <1>11, <1>12, <3>2
      <4>2. Len(t) = 1
        BY <1>4, <4>1
      <4> HIDE DEF m
      <4>3. k = m + 1 /\ k - m = 1
        BY <4>1, <4>2
      <4>4. firsts[k] = t[k - m]
        BY <1>11, <3>2 DEF m
      <4> QED BY <1>4, <4>2, <4>3, <4>4 DEF m
    <3> QED BY <3>1, <3>2
  <2> QED BY <1>9, <1>13, <2>1
<1>14. firsts \in [1 .. Len(firsts) -> S]
  <2>1. firsts \in Seq(S)
    BY <1>11
  <2> QED BY <2>1
<1>15. firsts \in Injection(1 .. Len(firsts), S)
  BY <1>13, <1>14 DEF Injection, IsInjective
<1>16. IsFiniteSet(S) /\ Cardinality(S) = n
  BY HoldsCounts
<1>17. Cardinality(1 .. Len(firsts)) = Len(firsts)
  <2> DEFINE m == Len(firsts)
  <2>1. m \in Nat /\ 1 \in Int /\ m \in Int
    BY <1>12
  <2> HIDE DEF m
  <2>2. Cardinality(1 .. m) = m
    BY <2>1, FS_Interval
  <2> QED BY <2>2 DEF m
<1>18. Cardinality(1 .. Len(firsts)) <= Cardinality(S)
  BY <1>15, <1>16, FS_Injection
<1>19. \E i \in 1 .. Len(firsts) : firsts[i] = Dude
  <2>1. CASE Dude \in {a, d}
    <3>1. PICK p \in 1 .. Len(s) : s[p] = Dude
      <4>1. 1 \in 1 .. Len(s) /\ 2 \in 1 .. Len(s)
        BY <1>2
      <4> QED BY <1>2, <2>1, <4>1
    <3>2. PICK k \in 1 .. Len(r) : f[k] = p
      <4>1. s[p] \in Critter
        BY <3>1, CombatAssumption
      <4> QED BY <1>6, <3>1, <4>1 DEF Picks
    <3>3. r[k] = Dude
      BY <1>8, <3>1, <3>2
    <3>4. k \in 1 .. Len(firsts) /\ k <= Len(r)
      BY <1>4, <1>7, <1>11
    <3>5. firsts[k] = r[k]
      BY <1>11, <3>4
    <3> QED BY <3>3, <3>4, <3>5
  <2>2. CASE Len(t) = 1
    <3> DEFINE m == Len(r)
               k == m + 1
    <3>1. m \in Nat /\ k \in 1 .. Len(firsts) /\ ~(k <= m) /\ k - m = 1
      BY <1>7, <1>11, <2>2
    <3> HIDE DEF k
    <3>2. firsts[k] = t[k - m]
      BY <1>11, <3>1
    <3> QED BY <1>4, <2>2, <3>1, <3>2
  <2> QED BY <1>4, <2>1, <2>2
<1> QED BY <1>11, <1>13, <1>16, <1>17, <1>18, <1>19 DEF firsts, Leaders

-----------------------------------------------------------------------------
(* The list of a fight that is loaded.                                     *)

\* find_cid finds the first place with that number, or none.
LEMMA FindCidFinds ==
  ASSUME NEW n \in Nat, NEW list \in Listing(n), NEW start \in Nat \ {0}, NEW num, NEW numbers
  PROVE  /\ FindCid(start, num, list, numbers) \in Nat \ {0}
         /\ FindCid(start, num, list, numbers) <= n =>
              /\ start <= FindCid(start, num, list, numbers)
              /\ numbers[list[FindCid(start, num, list, numbers)]] = num
         /\ \A i \in start .. n : numbers[list[i]] = num => FindCid(start, num, list, numbers) <= i
<1> DEFINE T == {i \in start .. n : numbers[list[i]] = num} \cup {n + 1}
<1>1. FindCid(start, num, list, numbers) = Min(T)
  BY ListingIsSeq DEF FindCid
<1>2. T \in SUBSET Nat /\ T # {} /\ \A i \in T : i # 0 /\ (i <= n => start <= i /\ numbers[list[i]] = num)
      /\ \A k \in start .. n : numbers[list[k]] = num => k \in T
  OBVIOUS
<1> HIDE DEF T
<1>3. \E k \in T : \A m \in T : k <= m
  BY <1>2, LeastNumber
<1>4. Min(T) \in T /\ \A m \in T : Min(T) <= m
  BY <1>3 DEF Min
<1> QED BY <1>1, <1>2, <1>4

\* A list that is put in the order of the saved numbers holds whom it held, at
\* each place the critter with the number that was saved for it.
LEMMA PlacedHolds ==
  ASSUME NEW s, s.total \in Nat \ {0}, NEW S \in SUBSET Critter,
         NEW order, Holds(order, s.total, S), Placed(s, order) # << >>
  PROVE  /\ Holds(Placed(s, order), s.total, S)
         /\ \A i \in 1 .. s.total : s.cid[Placed(s, order)[i]] = s.cids[i]
<1> DEFINE n == s.total
           V == Listing(n) \cup {<< >>}
           next(k, l) == LET j == FindCid(k, s.cids[k], l, s.cid) IN
                         IF l = << >> \/ j > Len(l) THEN << >> ELSE Swapped(l, k, j)
           Def(g) == [k \in 0 .. n |-> IF k = 0 THEN order ELSE next(k, g[k - 1])]
           K == CHOOSE g : g = Def(g)
           step == [k \in 1 .. n |-> [l \in V |-> next(k, l)]]
           Good(k, l) == l = << >> \/ (Holds(l, n, S) /\ \A i \in 1 .. k : s.cid[l[i]] = s.cids[i])
<1>1. Placed(s, order) = K[n]
  BY DEF Placed
<1>2. n \in Nat /\ n # 0 /\ order \in V /\ Holds(order, n, S)
  BY DEF Holds
<1> HIDE DEF n
<1>3. ASSUME NEW k \in 1 .. n, NEW l \in Listing(n)
      PROVE  LET j == FindCid(k, s.cids[k], l, s.cid) IN
             /\ j \in Nat \ {0} /\ (j <= n => k <= j /\ s.cid[l[j]] = s.cids[k])
             /\ l # << >> /\ Len(l) = n
  <2>1. l # << >> /\ Len(l) = n
    BY <1>2, ListingIsSeq
  <2>2. k \in Nat \ {0}
    BY <1>2
  <2> DEFINE num == s.cids[k]
             numbers == s.cid
  <2> HIDE DEF num, numbers
  <2>3. /\ FindCid(k, num, l, numbers) \in Nat \ {0}
        /\ FindCid(k, num, l, numbers) <= n =>
             /\ k <= FindCid(k, num, l, numbers)
             /\ numbers[l[FindCid(k, num, l, numbers)]] = num
    BY <1>2, <2>2, FindCidFinds
  <2> QED BY <2>1, <2>3 DEF num, numbers
<1>4. ASSUME NEW k \in 1 .. n, NEW l \in V PROVE next(k, l) \in V
  <2> DEFINE j == FindCid(k, s.cids[k], l, s.cid)
  <2>1. CASE l = << >>
    BY <2>1
  <2>2. CASE l \in Listing(n)
    <3>1. j \in Nat \ {0} /\ Len(l) = n /\ l # << >>
      BY <1>3, <2>2
    <3> HIDE DEF j
    <3>2. CASE j > n
      BY <3>1, <3>2 DEF j
    <3>3. CASE ~(j > n)
      <4>1. j \in 1 .. n
        BY <1>2, <3>1, <3>3
      <4>2. Swapped(l, k, j) \in Listing(n)
        BY <1>2, <2>2, <4>1, SwappedPlaces
      <4> QED BY <3>1, <3>3, <4>2 DEF j
    <3> QED BY <3>2, <3>3
  <2> QED BY <2>1, <2>2
<1>5. ASSUME NEW k \in 1 .. n, NEW l \in V, Good(k - 1, l) PROVE Good(k, next(k, l))
  <2> DEFINE j == FindCid(k, s.cids[k], l, s.cid)
  <2>1. CASE l = << >>
    BY <2>1
  <2>2. CASE l # << >>
    <3>1. l \in Listing(n) /\ Holds(l, n, S) /\ \A i \in 1 .. k - 1 : s.cid[l[i]] = s.cids[i]
      BY <1>5, <2>2
    <3>2. j \in Nat \ {0} /\ Len(l) = n
          /\ (j <= n => k <= j /\ s.cid[l[j]] = s.cids[k])
      BY <1>3, <3>1
    <3> HIDE DEF j
    <3>3. CASE j > n
      BY <3>2, <3>3 DEF j
    <3>4. CASE ~(j > n)
      <4>1. j \in 1 .. n
        BY <1>2, <3>2, <3>4
      <4> DEFINE m == Swapped(l, k, j)
      <4>2. next(k, l) = m
        BY <2>2, <3>2, <3>4 DEF j
      <4>3. Holds(m, n, S)
        BY <1>2, <3>1, <4>1, SwappedHolds
      <4>4. \A p \in 1 .. n : m[p] = IF p = j THEN l[k] ELSE IF p = k THEN l[j] ELSE l[p]
        BY <1>2, <3>1, <4>1, SwappedPlaces
      <4> HIDE DEF m, next
      <4>5. ASSUME NEW i \in 1 .. k PROVE s.cid[m[i]] = s.cids[i]
        <5>1. i \in 1 .. n /\ (i # k => i \in 1 .. k - 1)
          BY <1>2
        <5>2. CASE i = k
          <6>1. m[i] = l[j]
            BY <4>4, <5>1, <5>2
          <6> QED BY <3>2, <4>1, <5>2, <6>1
        <5>3. CASE i # k /\ i # j
          BY <3>1, <4>4, <5>1, <5>3
        <5>4. ~(i # k /\ i = j)
          BY <1>2, <3>2, <4>1, <5>1
        <5> QED BY <5>2, <5>3, <5>4
      <4> QED BY <4>2, <4>3, <4>5
    <3> QED BY <3>3, <3>4
  <2> QED BY <2>1, <2>2
<1> HIDE DEF V, next, Good
<1>6. step \in Steps(n, V) /\ \A k \in 1 .. n : \A l \in V : step[k][l] = next(k, l)
  BY <1>4 DEF Steps
<1> HIDE DEF step
<1>7. PICK h \in [0 .. n -> V] : h[0] = order /\ \A k \in 1 .. n : h[k] = step[k][h[k - 1]]
  <2>1. n \in Nat
    BY <1>2
  <2>2. order \in V
    BY <1>2
  <2>3. step \in Steps(n, V)
    BY <1>6
  <2>4. Runs(n, V, order, step) # {}
    BY <2>1, <2>2, <2>3, RangeRecursion
  <2> QED BY <2>4 DEF Runs
<1>8. h = Def(h)
  <2>1. ASSUME NEW k \in 1 .. n PROVE h[k] = next(k, h[k - 1])
    <3>1. k - 1 \in 0 .. n
      BY <1>2
    <3> QED BY <1>6, <1>7, <3>1
  <2>2. \A k \in 0 .. n : h[k] = IF k = 0 THEN order ELSE next(k, h[k - 1])
    BY <1>2, <1>7, <2>1
  <2> QED BY <1>7, <2>2
<1>9. K = Def(K)
  <2> HIDE DEF Def
  <2> QED BY <1>8
<1> HIDE DEF K
<1>10. \A k \in 0 .. n : K[k] = IF k = 0 THEN order ELSE next(k, K[k - 1])
  <2>1. \A k \in 0 .. n : Def(K)[k] = IF k = 0 THEN order ELSE next(k, K[k - 1])
    OBVIOUS
  <2> QED BY <1>9, <2>1
<1> DEFINE Z == {k \in 0 .. n : K[k] \in V /\ Good(k, K[k])}
<1>11. 0 \in Z
  BY <1>2, <1>10 DEF Good
<1>12. ASSUME NEW k \in 0 .. n - 1, k \in Z PROVE k + 1 \in Z
  <2>1. k + 1 \in 1 .. n /\ k + 1 \in 0 .. n /\ (k + 1) - 1 = k
    BY <1>2
  <2> DEFINE e == k + 1
             l == K[k]
  <2>2. e \in 1 .. n /\ e \in 0 .. n /\ e - 1 = k /\ e # 0
    BY <2>1
  <2>3. K[e] = next(e, K[e - 1])
    <3> HIDE DEF e
    <3> QED BY <1>10, <2>2
  <2>4. l \in V /\ Good(e - 1, l)
    BY <1>12, <2>2
  <2> HIDE DEF e, l
  <2>5. next(e, l) \in V /\ Good(e, next(e, l))
    BY <1>4, <1>5, <2>2, <2>4
  <2> QED BY <2>2, <2>3, <2>5 DEF e, l
<1>13. n \in Z
  <2> HIDE DEF Z
  <2>1. 0 \in Int /\ n \in Int
    BY <1>2
  <2>2. 0 .. n \subseteq Z
    BY <1>11, <1>12, <2>1, RangeInduction
  <2> QED BY <1>2, <2>2
<1> QED BY <1>1, <1>13 DEF Good, n

-----------------------------------------------------------------------------
(* A round's beginning.                                                    *)

\* The combatants in another order.
Sorted(o, list, com) ==
  /\ o \in [1 .. com -> {list[i] : i \in 1 .. com}]
  /\ \A i, j \in 1 .. com : o[i] = o[j] => i = j

\* When they change places among themselves, the list holds whom it held, the
\* combatants are the same, and those behind them stay.
Resorted(m, o, list, com, n) ==
  /\ m \in Listing(n)
  /\ \A p \in 1 .. com : m[p] = o[p]
  /\ \A p \in com + 1 .. n : m[p] = list[p]
  /\ Complete(list, n) => /\ Complete(m, n)
                          /\ \A p \in 1 .. com : \E q \in 1 .. com : m[q] = list[p]

\* That is what sorting comes to.
LEMMA SortedHolds ==
  ASSUME NEW n \in Nat, NEW list \in Listing(n), NEW com \in 0 .. n, NEW o,
         Sorted(o, list, com)
  PROVE  Resorted(o \o SubSeq(list, com + 1, Len(list)), o, list, com, n)
<1> DEFINE F == {list[i] : i \in 1 .. com}
           t == SubSeq(list, com + 1, Len(list))
           m == o \o t
<1>1. Len(list) = n /\ \A i \in 1 .. n : list[i] \in Critter
  BY ListingIsSeq DEF Listing
<1>2. t \in Seq(Critter) /\ Len(t) = n - com /\ \A i \in 1 .. n - com : t[i] = list[com + i]
  <2>1. com + 1 \in Int /\ n \in Int /\ \A i \in com + 1 .. n : list[i] \in Critter
    BY <1>1
  <2>2. /\ SubSeq(list, com + 1, n) \in Seq(Critter)
        /\ Len(SubSeq(list, com + 1, n)) = IF com + 1 <= n THEN n - (com + 1) + 1 ELSE 0
        /\ \A i \in 1 .. n - (com + 1) + 1 : SubSeq(list, com + 1, n)[i] = list[com + 1 + i - 1]
    BY <2>1, SubSeqProperties
  <2>3. t = SubSeq(list, com + 1, n)
    BY <1>1
  <2> HIDE DEF t
  <2>4. \A i \in 1 .. n - com : i \in 1 .. n - (com + 1) + 1 /\ com + 1 + i - 1 = com + i
    OBVIOUS
  <2> QED BY <2>2, <2>3, <2>4
<1>3. o \in [1 .. com -> F] /\ \A i, j \in 1 .. com : o[i] = o[j] => i = j
  BY DEF Sorted
<1>4. F \subseteq Critter
  BY <1>1
<1>5. o \in Seq(Critter) /\ Len(o) = com
  BY <1>3, <1>4
<1> HIDE DEF F, t
<1>6. m \in Seq(Critter) /\ Len(m) = Len(o) + Len(t)
      /\ \A i \in 1 .. Len(o) + Len(t) : m[i] = IF i <= Len(o) THEN o[i] ELSE t[i - Len(o)]
  BY <1>2, <1>5, ConcatProperties
<1> HIDE DEF m
<1>7. m \in Listing(n)
  BY <1>2, <1>5, <1>6 DEF Listing
<1>8. \A p \in 1 .. com : m[p] = o[p]
  BY <1>2, <1>5, <1>6
<1>9. ASSUME NEW p \in com + 1 .. n PROVE m[p] = list[p]
  <2>1. p \in 1 .. n /\ p - com \in 1 .. n - com /\ ~(p <= com) /\ com + (p - com) = p
    OBVIOUS
  <2>2. m[p] = t[p - com]
    BY <1>2, <1>5, <1>6, <2>1
  <2>3. t[p - com] = list[com + (p - com)]
    BY <1>2, <2>1
  <2> QED BY <2>1, <2>2, <2>3
<1>10. ASSUME Complete(list, n)
       PROVE  Complete(m, n) /\ \A p \in 1 .. com : \E q \in 1 .. com : m[q] = list[p]
  <2>1. /\ \A i, j \in 1 .. n : list[i] = list[j] => i = j
        /\ \A c \in Critter : \E i \in 1 .. n : list[i] = c
    BY <1>10 DEF Complete, Holds
  <2>2. \A c \in F : \E i \in 1 .. com : o[i] = c
    <3> DEFINE h == [i \in 1 .. com |-> list[i]]
    <3>1. h \in Bijection(1 .. com, F)
      BY <2>1 DEF F, Bijection, Injection, Surjection, IsInjective
    <3>2. IsFiniteSet(1 .. com) /\ Cardinality(1 .. com) = com
      BY FS_Interval
    <3>3. IsFiniteSet(F) /\ Cardinality(F) = com
      BY <3>1, <3>2, FS_Bijection DEF ExistsBijection
    <3>4. o \in Injection(1 .. com, F)
      BY <1>3 DEF Injection, IsInjective
    <3>5. o \in Surjection(1 .. com, F)
      BY <3>2, <3>3, <3>4, FS_Injection
    <3> QED BY <3>5 DEF Surjection
  <2>3. ASSUME NEW c \in Critter PROVE \E i \in 1 .. n : m[i] = c
    <3>1. PICK i \in 1 .. n : list[i] = c
      BY <2>1
    <3>2. CASE i <= com
      <4>1. c \in F
        BY <3>1, <3>2 DEF F
      <4>2. PICK k \in 1 .. com : o[k] = c
        BY <2>2, <4>1
      <4>3. k \in 1 .. n /\ m[k] = c
        BY <1>8, <4>2
      <4> QED BY <4>3
    <3>3. CASE ~(i <= com)
      <4>1. m[i] = c
        BY <1>9, <3>1, <3>3
      <4> QED BY <4>1
    <3> QED BY <3>2, <3>3
  <2>4. ASSUME NEW i \in 1 .. n, NEW j \in 1 .. n, m[i] = m[j] PROVE i = j
    <3>1. ASSUME NEW p \in 1 .. com PROVE \E q \in 1 .. com : m[p] = list[q]
      <4>1. o[p] \in F
        BY <1>3
      <4> QED BY <1>8, <4>1 DEF F
    <3>2. CASE i <= com /\ j <= com
      BY <1>3, <1>8, <2>4, <3>2
    <3>3. CASE i > com /\ j > com
      BY <1>9, <2>1, <2>4, <3>3
    <3>4. CASE i <= com /\ j > com
      <4>1. PICK q \in 1 .. com : m[i] = list[q]
        BY <3>1, <3>4
      <4>2. m[j] = list[j] /\ q \in 1 .. n
        BY <1>9, <3>4
      <4>3. q = j
        BY <2>1, <2>4, <4>1, <4>2
      <4> QED BY <3>4, <4>3
    <3>5. CASE i > com /\ j <= com
      <4>1. PICK q \in 1 .. com : m[j] = list[q]
        BY <3>1, <3>5
      <4>2. m[i] = list[i] /\ q \in 1 .. n
        BY <1>9, <3>5
      <4>3. q = i
        BY <2>1, <2>4, <4>1, <4>2
      <4> QED BY <3>5, <4>3
    <3> QED BY <3>2, <3>3, <3>4, <3>5
  <2>5. \A i \in 1 .. n : m[i] \in Critter
    BY <1>7 DEF Listing
  <2>6. \A p \in 1 .. com : \E q \in 1 .. com : m[q] = list[p]
    <3>1. \A p \in 1 .. com : list[p] \in F
      BY DEF F
    <3> QED BY <1>8, <2>2, <3>1
  <2> QED BY <1>7, <2>3, <2>4, <2>5, <2>6 DEF Complete, Holds
<1> QED BY <1>7, <1>8, <1>9, <1>10 DEF m, t, Resorted

-----------------------------------------------------------------------------
(* The invariant.                                                          *)

N == Cardinality(Critter)

\* A game is not loaded over a fight in which scripts take critters out: the
\* end of the round would then be looked for in a list that may not be there.
Undisturbed == "reload" \in may => ~ByScripts

Reload == "reload" \in may

RunFields == {"pc", "done", "index", "actor", "call", "quit", "loaded"}

\* Where combat() is, for the fight there is. Without one it is outside, or
\* about to leave the turn in which the player has loaded a game without a
\* fight: a round would then be broken off, since it was not over. Those that
\* join are looked for behind the combatants.
Phase(r, f, reload) ==
  /\ DOMAIN r = RunFields
  /\ \/ f.on
     \/ r.pc \in {"peace", "over"}
     \/ /\ r.pc = "acting" /\ r.loaded /\ r.actor = Dude /\ r.call \in {"round", "resumed"}
        /\ r.call = "round" => r.done < f.com
  /\ r.pc = "joining" => r.index \in Nat /\ r.index >= f.com
  /\ r.pc = "acting" =>
       /\ r.call \in {"round", "resumed", "joining"}
       /\ r.call = "joining" => r.index \in Nat /\ r.index + 1 >= f.com /\ r.actor # Dude
       /\ r.call = "round" /\ reload /\ ~r.loaded => r.done < f.com

\* The parts of a list of fight f are in it.
Shape(f) ==
  f.on => /\ f.list \in Seq(Critter) /\ f.com \in Nat /\ f.noncom \in Nat /\ f.total \in Nat
          /\ f.com + f.noncom <= f.total /\ f.total <= Len(f.list)

\* What a saved game says of its fight.
SavedShape(s) ==
  /\ s.present \in SUBSET Critter /\ Dude \in s.present /\ DOMAIN s.results = Critter
  /\ s.on => s.com \in Nat /\ s.noncom \in Nat /\ s.total \in Nat /\ s.com + s.noncom <= s.total

TypeInv ==
  /\ Fields(fight) /\ DOMAIN results = Critter
  /\ present \in SUBSET Critter /\ Dude \in present
  /\ saved # NoGame => SavedShape(saved)

\* Without scripts, the list holds all critters, those behind the others are
\* dead, and each critter has a number of its own; a saved game says the same
\* of its list.
Full(f, pres, res, num) ==
  /\ pres = Critter
  /\ f.on => /\ Complete(f.list, N) /\ f.total = N
             /\ \A i \in f.com + f.noncom + 1 .. N : "dead" \in res[f.list[i]]
             /\ \A c, d \in Critter : num[c] = num[d] => c = d

SavedFull(s) ==
  /\ s.present = Critter
  /\ s.on => \A i \in s.com + s.noncom + 1 .. N : \A c \in Critter :
               s.cid[c] = s.cids[i] => "dead" \in s.results[c]

FullInv == ~ByScripts => /\ Full(fight, present, results, cid)
                         /\ saved # NoGame => SavedFull(saved)

FightInv == TypeInv /\ Shape(fight) /\ Phase(run, fight, Reload) /\ FullInv

IInv == may \in Settings /\ (Undisturbed => FightInv)

-----------------------------------------------------------------------------
(* Where combat() goes on after a turn.                                    *)

\* Where combat() is once a turn has ended.
LEMMA AfterPhase ==
  ASSUME NEW r, NEW f, NEW g, NEW rc, NEW reload, g.on, g.com \in Nat, DOMAIN r = RunFields,
         r.call \in {"round", "resumed", "joining"},
         r.call = "joining" => r.index \in Nat /\ r.index + 1 >= g.com,
         r.call = "joining" \/ f = g
  PROVE  Phase(After(r, f, rc), g, reload)
<1> DEFINE r0 == [r EXCEPT !.actor = Nobody]
           a == After(r, f, rc)
<1>1. DOMAIN r0 = RunFields /\ r0.index = r.index /\ r0.done = r.done /\ r0.call = r.call
  BY DEF RunFields
<1>2. CASE r.call = "joining"
  <2> DEFINE i == r.index + 1
  <2>1. a = [r0 EXCEPT !.pc = "joining", !.index = i]
    BY <1>1, <1>2 DEF After
  <2>2. i \in Nat /\ i >= g.com
    BY <1>2
  <2> HIDE DEF r0, i, a
  <2>3. DOMAIN a = RunFields /\ a.pc = "joining" /\ a.index = i
    BY <1>1, <2>1 DEF RunFields
  <2>4. Phase(a, g, reload)
    BY <2>2, <2>3 DEF Phase
  <2> QED BY <2>4 DEF a
<1>3. CASE r.call = "resumed"
  <2>1. PICK p, d : a = [r0 EXCEPT !.pc = p, !.done = d] /\ p \in {"over", "round"}
    BY <1>3 DEF After
  <2> HIDE DEF r0, a
  <2>2. DOMAIN a = RunFields /\ a.pc = p
    BY <1>1, <2>1 DEF RunFields
  <2>3. Phase(a, g, reload)
    BY <2>1, <2>2 DEF Phase
  <2> QED BY <2>3 DEF a
<1>4. CASE r.call = "round" /\ rc # -1
  <2>1. PICK d : a = [r0 EXCEPT !.pc = "round", !.done = d]
    BY <1>4 DEF After
  <2> HIDE DEF r0, a
  <2>2. DOMAIN a = RunFields /\ a.pc = "round"
    BY <1>1, <2>1 DEF RunFields
  <2>3. Phase(a, g, reload)
    BY <2>2 DEF Phase
  <2> QED BY <2>3 DEF a
<1>5. CASE r.call = "round" /\ rc = -1
  <2>1. f = g
    BY <1>5
  <2>2. a = [r0 EXCEPT !.pc = "over"] \/ a = [r0 EXCEPT !.pc = "joining", !.index = g.com]
    BY <1>5, <2>1 DEF After
  <2> HIDE DEF r0, a
  <2>3. CASE a = [r0 EXCEPT !.pc = "over"]
    <3>1. DOMAIN a = RunFields /\ a.pc = "over"
      BY <1>1, <2>3 DEF RunFields
    <3>2. Phase(a, g, reload)
      BY <3>1 DEF Phase
    <3> QED BY <3>2 DEF a
  <2>4. CASE a = [r0 EXCEPT !.pc = "joining", !.index = g.com]
    <3> DEFINE i == g.com
    <3>1. i \in Nat /\ i >= g.com /\ a = [r0 EXCEPT !.pc = "joining", !.index = i]
      BY <2>4
    <3> HIDE DEF i
    <3>2. DOMAIN a = RunFields /\ a.pc = "joining" /\ a.index = i
      BY <1>1, <3>1 DEF RunFields
    <3>3. Phase(a, g, reload)
      BY <3>1, <3>2 DEF Phase
    <3> QED BY <3>3 DEF a
  <2> QED BY <2>2, <2>3, <2>4
<1> QED BY <1>2, <1>3, <1>4, <1>5

\* The fight that was left by loading a game without one is broken off.
LEMMA AfterLeft ==
  ASSUME NEW r, NEW f, NEW reload, DOMAIN r = RunFields,
         r.call \in {"round", "resumed"}, r.call = "round" => r.done < f.com
  PROVE  Phase(After(r, f, -1), f, reload)
<1> DEFINE r0 == [r EXCEPT !.actor = Nobody]
           a == After(r, f, -1)
<1>1. DOMAIN r0 = RunFields
  BY DEF RunFields
<1>2. a = [r0 EXCEPT !.pc = "over"] \/ \E d : a = [r0 EXCEPT !.pc = "over", !.done = d]
  <2>1. CASE r.call = "resumed"
    BY <2>1 DEF After
  <2>2. CASE r.call = "round"
    BY <2>2 DEF After
  <2> QED BY <2>1, <2>2
<1> HIDE DEF a, r0
<1>3. DOMAIN a = RunFields /\ a.pc = "over"
  BY <1>1, <1>2 DEF RunFields
<1>4. Phase(a, f, reload)
  BY <1>3 DEF Phase
<1> QED BY <1>4 DEF a

\* A turn that begins: combat() is where it should be, and the dead stay dead.
LEMMA TurnBegins ==
  ASSUME NEW c, NEW r, NEW g, NEW reload, BeginTurn(c, r), DOMAIN results = Critter,
         g.on, g.com \in Nat, DOMAIN r = RunFields,
         r.call \in {"round", "resumed", "joining"},
         r.call = "joining" => r.index \in Nat /\ r.index + 1 >= g.com /\ c # Dude,
         r.call = "round" => r.done < g.com,
         r.call = "joining" \/ fight = g
  PROVE  /\ Phase(run', g, reload)
         /\ DOMAIN results' = Critter
         /\ \A e \in Critter : "dead" \in results[e] => "dead" \in results'[e]
<1>1. CASE Incapacitated(c) /\ results' = [results EXCEPT ![c] = @ \ {"lose"}]
           /\ run' = After(r, fight, IF Dead(Dude) THEN -1 ELSE 0)
  <2>1. Phase(run', g, reload)
    BY <1>1, AfterPhase
  <2>2. results' = [results EXCEPT ![c] = @ \ {"lose"}]
    BY <1>1
  <2>3. DOMAIN results' = Critter
        /\ \A e \in Critter : "dead" \in results[e] => "dead" \in results'[e]
    BY <2>2
  <2> QED BY <2>1, <2>3
<1>2. CASE ~Incapacitated(c) /\ UNCHANGED results
           /\ run' = After([r EXCEPT !.quit = TRUE], fight, -1)
  <2> DEFINE q == [r EXCEPT !.quit = TRUE]
  <2>1. DOMAIN q = RunFields /\ q.call = r.call /\ q.index = r.index
    BY DEF RunFields
  <2>2. run' = After(q, fight, -1)
    BY <1>2
  <2> HIDE DEF q
  <2>3. Phase(run', g, reload)
    BY <2>1, <2>2, AfterPhase
  <2> QED BY <1>2, <2>3
<1>3. CASE ~Incapacitated(c) /\ UNCHANGED results
           /\ run' = [r EXCEPT !.pc = "acting", !.actor = c]
  <2>1. DOMAIN run' = RunFields /\ run'.call = r.call /\ run'.index = r.index
        /\ run'.actor = c /\ run'.pc = "acting" /\ run'.done = r.done
    BY <1>3 DEF RunFields
  <2>2. Phase(run', g, reload)
    BY <2>1 DEF Phase
  <2> QED BY <1>3, <2>2
<1> QED BY <1>1, <1>2, <1>3 DEF BeginTurn

-----------------------------------------------------------------------------
(* The steps.                                                              *)

\* It holds before the first fight.
LEMMA InitInv == Init => IInv
<1> SUFFICES ASSUME Init PROVE IInv
  OBVIOUS
<1>1. Dude \in Critter
  BY CombatAssumption
<1>2. Fields(fight) /\ ~fight.on
  BY DEF Init, NoFight, Fields
<1>3. DOMAIN results = Critter
  BY DEF Init
<1>4. present \in SUBSET Critter /\ Dude \in present
  BY <1>1 DEF Init
<1>5. TypeInv
  BY <1>2, <1>3, <1>4 DEF TypeInv, Init
<1>6. Shape(fight)
  BY <1>2 DEF Shape
<1>7. Phase(run, fight, Reload)
  <2>1. DOMAIN run = RunFields /\ run.pc = "peace"
    BY DEF Init, AtPeace, RunFields
  <2> QED BY <2>1 DEF Phase
<1>8. FullInv
  <2>1. ~ByScripts => present = Critter
    BY DEF Init, ByScripts
  <2> QED BY <1>2, <2>1 DEF FullInv, Full, Init
<1> QED BY <1>5, <1>6, <1>7, <1>8 DEF IInv, FightInv, Init

\* Steps that leave the list and the numbers alone, and revive no one.
LEMMA FrameKeeps ==
  ASSUME FightInv, UNCHANGED << present, cid, fight, saved, may >>,
         DOMAIN results' = Critter,
         \A e \in Critter : "dead" \in results[e] => "dead" \in results'[e],
         Phase(run', fight, Reload)
  PROVE  FightInv'
<1>1. TypeInv'
  BY DEF FightInv, TypeInv
<1>2. Shape(fight)' /\ Phase(run, fight, Reload)'
  BY DEF FightInv, Reload
<1>3. ASSUME ~ByScripts' PROVE Full(fight, present, results, cid)' /\ (saved # NoGame => SavedFull(saved))'
  <2>1. Full(fight, present, results, cid) /\ (saved # NoGame => SavedFull(saved))
    BY <1>3 DEF FightInv, FullInv, ByScripts
  <2>2. \A i \in 1 .. N : fight.on => fight.list[i] \in Critter
    BY <2>1 DEF Full, Complete, Holds, Listing
  <2>3. ASSUME fight.on, NEW i \in fight.com + fight.noncom + 1 .. N
        PROVE  "dead" \in results'[fight.list[i]]
    <3>1. i \in 1 .. N
      <4>1. fight.com \in Nat /\ fight.noncom \in Nat
        BY <2>3 DEF FightInv, Shape
      <4> QED BY <4>1
    <3>2. fight.list[i] \in Critter /\ "dead" \in results[fight.list[i]]
      BY <2>1, <2>2, <2>3, <3>1 DEF Full
    <3> QED BY <3>2
  <2>4. Full(fight, present, results, cid)'
    BY <2>1, <2>3 DEF Full
  <2> QED BY <2>1, <2>4
<1>4. FullInv'
  BY <1>3 DEF FullInv
<1> QED BY <1>1, <1>2, <1>4 DEF FightInv

\* In a fight there are a list and its parts.
LEMMA FightOn ==
  ASSUME FightInv, fight.on
  PROVE  fight.com \in Nat /\ DOMAIN run = RunFields /\ DOMAIN results = Critter
BY DEF FightInv, Shape, Phase, TypeInv

\* Steps of combat() that begin or end a turn, or go from one to the next.
LEMMA TurnSteps ==
  ASSUME FightInv, UNCHANGED may,
         NextTurn \/ RoundOver \/ Resume \/ EndByPlayer \/ EndTurn \/ StayOut
  PROVE  FightInv'
<1>1. Phase(run, fight, Reload) /\ DOMAIN run = RunFields /\ DOMAIN results = Critter
  BY DEF FightInv, Phase, TypeInv
<1>2. CASE NextTurn
  <2>1. fight.on /\ fight.com \in Nat /\ run.done < fight.com
    BY <1>1, <1>2, FightOn DEF NextTurn, Phase
  <2> DEFINE r == [run EXCEPT !.call = "round"]
             c == fight.list[run.done + 1]
  <2>2. DOMAIN r = RunFields /\ r.call = "round" /\ r.done < fight.com
    BY <1>1, <2>1 DEF RunFields
  <2>3. BeginTurn(c, r)
    BY <1>2 DEF NextTurn
  <2> HIDE DEF r, c
  <2>4. /\ Phase(run', fight, Reload) /\ DOMAIN results' = Critter
        /\ \A e \in Critter : "dead" \in results[e] => "dead" \in results'[e]
    BY <1>1, <2>1, <2>2, <2>3, TurnBegins
  <2>5. UNCHANGED << present, cid, fight, saved >>
    BY <1>2 DEF NextTurn
  <2> QED BY <2>4, <2>5, FrameKeeps
<1>3. CASE RoundOver
  <2> DEFINE i == fight.com
  <2>1. fight.on /\ i \in Nat /\ i >= fight.com
    BY <1>1, <1>3, FightOn DEF RoundOver, Phase
  <2>2. run' = [run EXCEPT !.pc = "joining", !.index = i]
    BY <1>3 DEF RoundOver
  <2> HIDE DEF i
  <2>3. DOMAIN run' = RunFields /\ run'.pc = "joining" /\ run'.index = i
    BY <1>1, <2>2 DEF RunFields
  <2>4. Phase(run', fight, Reload)
    BY <2>1, <2>3 DEF Phase
  <2>5. UNCHANGED << present, cid, fight, saved, results >>
    BY <1>3 DEF RoundOver, body
  <2> QED BY <1>1, <2>4, <2>5, FrameKeeps
<1>4. CASE Resume
  <2>1. fight.on /\ fight.com \in Nat
    BY <1>4, FightOn DEF Resume
  <2> DEFINE r == [run EXCEPT !.call = "resumed"]
  <2>2. DOMAIN r = RunFields /\ r.call = "resumed"
    BY <1>1 DEF RunFields
  <2>3. BeginTurn(Dude, r)
    BY <1>4 DEF Resume
  <2> HIDE DEF r
  <2>4. /\ Phase(run', fight, Reload) /\ DOMAIN results' = Critter
        /\ \A e \in Critter : "dead" \in results[e] => "dead" \in results'[e]
    BY <1>1, <2>1, <2>2, <2>3, TurnBegins
  <2>5. UNCHANGED << present, cid, fight, saved >>
    BY <1>4 DEF Resume
  <2> QED BY <2>4, <2>5, FrameKeeps
<1>5. CASE EndByPlayer
  <2>1. fight.on /\ fight.com \in Nat /\ run.pc = "acting"
    BY <1>1, <1>5, FightOn DEF EndByPlayer, Acting, Phase
  <2>2. /\ run.call \in {"round", "resumed", "joining"}
        /\ run.call = "joining" => run.index \in Nat /\ run.index + 1 >= fight.com
    BY <1>1, <2>1 DEF Phase
  <2>3. run' = After(run, fight, -1)
    BY <1>5 DEF EndByPlayer
  <2>4. Phase(run', fight, Reload)
    BY <1>1, <2>1, <2>2, <2>3, AfterPhase
  <2>5. UNCHANGED << present, cid, fight, saved, results >>
    BY <1>5 DEF EndByPlayer
  <2> QED BY <1>1, <2>4, <2>5, FrameKeeps
<1>6. CASE EndTurn
  <2>1. PICK rc : run' = After(run, fight,
                 IF Dead(Dude) \/ (run.loaded /\ run.actor = Dude) THEN -1 ELSE rc)
    BY <1>6 DEF EndTurn
  <2>2. run.pc = "acting" /\ UNCHANGED << present, cid, fight, saved, results >>
    BY <1>6 DEF EndTurn
  <2>3. /\ run.call \in {"round", "resumed", "joining"}
        /\ run.call = "joining" => run.index \in Nat /\ run.index + 1 >= fight.com
    BY <1>1, <2>2 DEF Phase
  <2>4. CASE fight.on
    <3>1. fight.com \in Nat
      BY <2>4, FightOn
    <3>2. Phase(run', fight, Reload)
      BY <1>1, <2>1, <2>3, <2>4, <3>1, AfterPhase
    <3> QED BY <1>1, <2>2, <3>2, FrameKeeps
  <2>5. CASE ~fight.on
    <3>1. /\ run.loaded /\ run.actor = Dude /\ run.call \in {"round", "resumed"}
          /\ run.call = "round" => run.done < fight.com
      BY <1>1, <2>2, <2>5 DEF Phase
    <3>2. run' = After(run, fight, -1)
      BY <2>1, <3>1
    <3>3. Phase(run', fight, Reload)
      BY <1>1, <3>1, <3>2, AfterLeft
    <3> QED BY <1>1, <2>2, <3>3, FrameKeeps
  <2> QED BY <2>4, <2>5
<1>7. CASE StayOut
  <2>1. fight.on /\ fight.com \in Nat /\ run.pc = "joining"
    BY <1>1, <1>7, FightOn DEF StayOut, Phase
  <2>2. run.index \in Nat /\ run.index >= fight.com
    BY <1>1, <2>1 DEF Phase
  <2> DEFINE i == run.index + 1
  <2>3. i \in Nat /\ i >= fight.com /\ run' = [run EXCEPT !.index = i]
    BY <1>7, <2>1, <2>2 DEF StayOut
  <2> HIDE DEF i
  <2>4. DOMAIN run' = RunFields /\ run'.pc = "joining" /\ run'.index = i
    BY <1>1, <2>1, <2>3 DEF RunFields
  <2>5. Phase(run', fight, Reload)
    BY <2>1, <2>3, <2>4 DEF Phase
  <2>6. UNCHANGED << present, cid, fight, saved, results >>
    BY <1>7 DEF StayOut, body
  <2> QED BY <1>1, <2>5, <2>6, FrameKeeps
<1> QED BY <1>2, <1>3, <1>4, <1>5, <1>6, <1>7

\* What the one does whose turn it is; and waking up.
LEMMA DeedSteps ==
  ASSUME FightInv, UNCHANGED may,
         \/ \E c, d, outcome, blamed, onlookers : Hit(c, d, outcome, blamed, onlookers)
         \/ \E c, how : GivesUp(c, how)
         \/ \E c : WakeUp(c)
  PROVE  FightInv'
<1>1. Phase(run, fight, Reload) /\ DOMAIN results = Critter
  BY DEF FightInv, TypeInv
<1>2. /\ UNCHANGED << present, cid, fight, saved, run >>
      /\ \/ UNCHANGED results
         \/ \E d, o : results' = [results EXCEPT ![d] = @ \cup (o \ {"miss", "hurt"})]
         \/ \E c : results' = [results EXCEPT ![c] = @ \ {"ko"}]
  <2>1. ASSUME NEW c, NEW d, NEW outcome, NEW blamed, NEW onlookers,
               Hit(c, d, outcome, blamed, onlookers)
        PROVE  /\ UNCHANGED << present, cid, fight, saved, run >>
               /\ results' = [results EXCEPT ![d] = @ \cup ({outcome} \ {"miss", "hurt"})]
    BY <2>1 DEF Hit
  <2>2. ASSUME NEW c, NEW how, GivesUp(c, how)
        PROVE  UNCHANGED << present, cid, fight, saved, run, results >>
    BY <2>2 DEF GivesUp
  <2>3. ASSUME NEW c, WakeUp(c)
        PROVE  /\ UNCHANGED << present, cid, fight, saved, run >>
               /\ results' = [results EXCEPT ![c] = @ \ {"ko"}]
    BY <2>3 DEF WakeUp
  <2> QED BY <2>1, <2>2, <2>3
<1>3. DOMAIN results' = Critter
      /\ \A e \in Critter : "dead" \in results[e] => "dead" \in results'[e]
  BY <1>1, <1>2
<1> QED BY <1>1, <1>2, <1>3, FrameKeeps

\* One that joins changes places with another; the places before him and behind
\* the others stay as they are.
OneMore(g, f, i) ==
  /\ Fields(g) /\ Shape(g) /\ g.on = f.on /\ g.total = f.total /\ g.com = f.com + 1
  /\ g.com + g.noncom = f.com + f.noncom
  /\ \A p \in f.com + f.noncom + 1 .. Len(f.list) : g.list[p] = f.list[p]
  /\ \A n \in Nat : Complete(f.list, n) => Complete(g.list, n)
  /\ \A p \in 1 .. f.com : g.list[p] = f.list[p]
  /\ g.list[f.com + 1] = f.list[i]

\* That is what joining does.
LEMMA JoinedShape ==
  ASSUME NEW f, Fields(f), f.on, Shape(f), NEW i \in Nat, f.com < i, i <= f.com + f.noncom
  PROVE  OneMore(Joined(f, i), f, i)
<1> DEFINE l == f.list
           n == Len(f.list)
           k == f.com + 1
           com == f.com
           noncom == f.noncom
           m == Swapped(f.list, i, f.com + 1)
           e == f.com + 1
           o == f.noncom - 1
           g == Joined(f, i)
<1>1. /\ l \in Seq(Critter) /\ n = Len(l) /\ com \in Nat /\ noncom \in Nat /\ f.total \in Nat
      /\ com + noncom <= f.total /\ f.total <= n /\ k = com + 1 /\ com < i /\ i <= com + noncom
      /\ m = Swapped(l, i, k) /\ e = com + 1 /\ o = noncom - 1
  BY DEF Shape
<1>2. g.list = m /\ g.com = e /\ g.noncom = o /\ g.on = f.on /\ g.total = f.total /\ Fields(g)
  <2>1. g = [f EXCEPT !.list = m, !.com = e, !.noncom = o]
    BY DEF Joined
  <2> HIDE DEF m, e, o, g
  <2> QED BY <2>1 DEF Fields
<1> HIDE DEF l, n, k, com, noncom, m, e, o, g
<1>3. n \in Nat /\ l \in Listing(n)
  BY <1>1 DEF Listing
<1>4. i \in 1 .. n /\ k \in 1 .. n
  BY <1>1, <1>3
<1>5. m \in Listing(n) /\ \A p \in 1 .. n : m[p] = IF p = k THEN l[i] ELSE IF p = i THEN l[k] ELSE l[p]
  <2>1. /\ Swapped(l, i, k) \in Listing(n)
        /\ \A p \in 1 .. n : Swapped(l, i, k)[p] =
             IF p = k THEN l[i] ELSE IF p = i THEN l[k] ELSE l[p]
    BY <1>3, <1>4, SwappedPlaces
  <2> QED BY <1>1, <2>1, Zenon
<1>6. m \in Seq(Critter) /\ Len(m) = n
  BY <1>3, <1>5, ListingIsSeq
<1>7. \A p \in com + noncom + 1 .. n : m[p] = l[p]
  BY <1>1, <1>3, <1>5
<1>8. ASSUME NEW q \in Nat, Complete(l, q) PROVE Complete(m, q)
  <2>1. q = n
    <3>1. l \in Listing(q)
      BY <1>8 DEF Complete, Holds
    <3>2. Len(l) = q
      BY <3>1, ListingIsSeq
    <3> QED BY <1>1, <3>2
  <2> QED BY <1>1, <1>3, <1>4, <1>8, <2>1, SwappedComplete
<1>9. e \in Nat /\ o \in Nat /\ e + o = com + noncom
  BY <1>1
<1>10. Shape(g)
  BY <1>1, <1>2, <1>6, <1>9 DEF Shape
<1>11. (\A p \in 1 .. com : m[p] = l[p]) /\ m[k] = l[i]
  <2>1. \A p \in 1 .. com : p \in 1 .. n /\ p # k /\ p # i
    BY <1>1, <1>3
  <2> QED BY <1>4, <1>5, <2>1
<1> QED BY <1>1, <1>2, <1>7, <1>8, <1>9, <1>10, <1>11 DEF g, l, n, com, noncom, k, OneMore

\* A critter that joins the fight keeps the invariant.
LEMMA JoinStep ==
  ASSUME FightInv, UNCHANGED may, Join
  PROVE  FightInv'
<1>1. run.pc = "joining" /\ run.index < fight.com + fight.noncom
  BY DEF Join
<1>2. fight.on /\ fight.com \in Nat /\ Fields(fight) /\ Shape(fight) /\ DOMAIN run = RunFields
      /\ DOMAIN results = Critter /\ fight.noncom \in Nat
  BY <1>1 DEF FightInv, Phase, TypeInv, Shape
<1>3. run.index \in Nat /\ run.index >= fight.com
  BY <1>1 DEF FightInv, Phase
<1> DEFINE i == run.index + 1
           c == fight.list[i]
<1>4. i \in Nat /\ i = run.index + 1 /\ fight.com < i /\ i <= fight.com + fight.noncom
  BY <1>1, <1>2, <1>3
<1>5. /\ fight' = Joined(fight, i)
      /\ UNCHANGED << present, cid, saved >>
      /\ \/ run' = [run EXCEPT !.index = i] /\ UNCHANGED results
         \/ c # Dude /\ BeginTurn(c, [run EXCEPT !.call = "joining"])
  BY DEF Join
<1> HIDE DEF i, c
<1>6. /\ Fields(fight') /\ Shape(fight') /\ fight'.on = fight.on /\ fight'.total = fight.total
      /\ fight'.com = fight.com + 1 /\ fight'.com + fight'.noncom = fight.com + fight.noncom
      /\ \A p \in fight.com + fight.noncom + 1 .. Len(fight.list) : fight'.list[p] = fight.list[p]
      /\ \A n \in Nat : Complete(fight.list, n) => Complete(fight'.list, n)
  <2>1. OneMore(fight', fight, i)
    BY <1>2, <1>4, <1>5, JoinedShape
  <2> QED BY <2>1, Zenon DEF OneMore
<1>7. /\ Phase(run', fight', Reload) /\ DOMAIN results' = Critter
      /\ \A e \in Critter : "dead" \in results[e] => "dead" \in results'[e]
  <2>1. CASE run' = [run EXCEPT !.index = i] /\ UNCHANGED results
    <3>1. DOMAIN run' = RunFields /\ run'.pc = "joining" /\ run'.index = i
      BY <1>1, <1>2, <2>1 DEF RunFields
    <3>2. i >= fight'.com
      BY <1>2, <1>4, <1>6
    <3>3. Phase(run', fight', Reload)
      BY <1>2, <1>4, <1>6, <3>1, <3>2 DEF Phase
    <3> QED BY <1>2, <2>1, <3>3
  <2>2. CASE c # Dude /\ BeginTurn(c, [run EXCEPT !.call = "joining"])
    <3> DEFINE r == [run EXCEPT !.call = "joining"]
               g == fight'
    <3>1. DOMAIN r = RunFields /\ r.call = "joining" /\ r.index = run.index
      BY <1>2 DEF RunFields
    <3>2. g.on /\ g.com \in Nat /\ run.index + 1 >= g.com
      BY <1>2, <1>3, <1>4, <1>6
    <3>3. BeginTurn(c, r)
      BY <2>2
    <3> HIDE DEF r, g
    <3>4. /\ Phase(run', g, Reload) /\ DOMAIN results' = Critter
          /\ \A e \in Critter : "dead" \in results[e] => "dead" \in results'[e]
      BY <1>2, <1>3, <2>2, <3>1, <3>2, <3>3, TurnBegins
    <3> QED BY <3>4 DEF g
  <2> QED BY <1>5, <2>1, <2>2
<1>8. TypeInv'
  BY <1>5, <1>6, <1>7 DEF FightInv, TypeInv
<1>9. FullInv'
  <2> SUFFICES ASSUME ~ByScripts
               PROVE  /\ Full(fight, present, results, cid)'
                      /\ (saved # NoGame => SavedFull(saved))'
    BY DEF FullInv, ByScripts
  <2>1. Full(fight, present, results, cid) /\ (saved # NoGame => SavedFull(saved))
    BY DEF FightInv, FullInv
  <2>2. Complete(fight.list, N) /\ fight.total = N /\ N \in Nat /\ Len(fight.list) = N
    <3>1. N \in Nat
      BY CombatAssumption, FS_CardinalityType DEF N
    <3>2. Complete(fight.list, N) /\ fight.total = N
      BY <1>2, <2>1 DEF Full
    <3>3. fight.list \in Listing(N)
      BY <3>2 DEF Complete, Holds
    <3>4. Len(fight.list) = N
      BY <3>1, <3>3, ListingIsSeq
    <3> QED BY <3>1, <3>2, <3>4
  <2>3. ASSUME NEW p \in fight.com + fight.noncom + 1 .. N PROVE "dead" \in results'[fight'.list[p]]
    <3>1. p \in 1 .. N
      BY <1>2
    <3>2. fight'.list[p] = fight.list[p]
      BY <1>6, <2>2
    <3>3. fight.list[p] \in Critter /\ "dead" \in results[fight.list[p]]
      BY <1>2, <2>1, <2>2, <3>1 DEF Full, Complete, Holds, Listing
    <3> QED BY <1>7, <3>2, <3>3
  <2>4. Complete(fight'.list, N) /\ fight'.total = N
    BY <1>6, <2>2
  <2>5. \A p \in fight'.com + fight'.noncom + 1 .. N : "dead" \in results'[fight'.list[p]]
    BY <1>6, <2>3
  <2>6. present' = Critter /\ \A a, b \in Critter : cid'[a] = cid'[b] => a = b
    BY <1>2, <1>5, <2>1 DEF Full
  <2>7. Full(fight, present, results, cid)'
    BY <2>4, <2>5, <2>6 DEF Full
  <2> QED BY <1>5, <2>1, <2>7
<1>10. Phase(run, fight, Reload)'
  BY <1>7 DEF Reload
<1> QED BY <1>6, <1>8, <1>9, <1>10 DEF FightInv

\* The list put in order for the next round, in three steps: the dead leave the
\* combatants, some join the others, the rest are sorted.
Arranged(f, o) ==
  LET r == Rested(Buried(f)) IN [r EXCEPT !.list = o \o SubSeq(@, r.com + 1, Len(@))]

\* What the list g is then: none of f's is lost, those behind the others are dead,
\* and the combatants those before that neither are dead nor drop out.
InOrderOf(g, f) ==
  /\ Fields(g) /\ Shape(g) /\ g.on = f.on /\ g.total = f.total
  /\ g.com \in Nat
  /\ \A n \in Nat : Complete(f.list, n) =>
       /\ Complete(g.list, n)
       /\ \A p \in g.com + g.noncom + 1 .. n :
            \/ Dead(g.list[p])
            \/ p \in f.com + f.noncom + 1 .. n /\ g.list[p] = f.list[p]
       /\ \A p \in 1 .. f.com : ~Dead(f.list[p]) /\ ~DropsOut(f.list[p]) =>
                                 \E q \in 1 .. g.com : g.list[q] = f.list[p]
  /\ \A p \in 1 .. g.com : /\ g.list[p] \in Critter
                           /\ ~Dead(g.list[p]) /\ ~DropsOut(g.list[p])

\* That is what the three steps come to.
LEMMA ArrangedIs ==
  ASSUME NEW f, Fields(f), f.on, Shape(f), NEW o, o \in Sortings(Rested(Buried(f)))
  PROVE  InOrderOf(Arranged(f, o), f)
<1> DEFINE b == Buried(f)
           r == Rested(b)
           g == Arranged(f, o)
           n == Len(f.list)
<1>1. /\ f.list \in Seq(Critter) /\ f.com \in Nat /\ f.noncom \in Nat /\ f.total \in Nat
      /\ f.com + f.noncom <= f.total /\ f.total <= n /\ n \in Nat
  BY DEF Shape
<1>2. f.list \in Listing(n) /\ Loop(f, n)
  BY <1>1 DEF Listing, Loop
<1> HIDE DEF n
<1>3. /\ Loop(b, n) /\ Fields(b)
      /\ b.on = f.on /\ b.total = f.total /\ b.noncom = f.noncom /\ b.com <= f.com
      /\ \A p \in 1 .. b.com : ~Dead(b.list[p])
      /\ \A p \in b.com + b.noncom + 1 .. f.com + f.noncom : Dead(b.list[p])
      /\ \A p \in f.com + f.noncom + 1 .. n : b.list[p] = f.list[p]
      /\ Complete(f.list, n) => Complete(b.list, n)
      /\ \A p \in 1 .. f.com : ~Dead(f.list[p]) => \E q \in 1 .. b.com : b.list[q] = f.list[p]
  BY <1>1, <1>2, BuriedIs
<1> HIDE DEF b
<1>4. /\ Loop(r, n) /\ Fields(r)
      /\ r.on = b.on /\ r.total = b.total /\ r.com + r.noncom = b.com + b.noncom
      /\ r.com <= b.com
      /\ \A p \in 1 .. r.com : ~DropsOut(r.list[p])
      /\ \A p \in 1 .. b.com : \E q \in 1 .. b.com : r.list[p] = b.list[q]
      /\ \A p \in b.com + 1 .. n : r.list[p] = b.list[p]
      /\ Complete(b.list, n) => Complete(r.list, n)
      /\ \A p \in 1 .. b.com :
           ~DropsOut(b.list[p]) => \E q \in 1 .. r.com : r.list[q] = b.list[p]
  BY <1>1, <1>3, RestedIs
<1>5. o \in Sortings(r)
  BY DEF b
<1> HIDE DEF r
<1> DEFINE l == r.list
           com == r.com
           m == o \o SubSeq(l, com + 1, Len(l))
<1>6. /\ l \in Listing(n) /\ com \in Nat /\ r.noncom \in Nat /\ com + r.noncom <= n
      /\ com \in 0 .. n
  BY <1>1, <1>4 DEF Loop
<1>7. b.com \in Nat /\ b.noncom \in Nat /\ b.com + b.noncom <= n /\ b.list \in Listing(n)
  BY <1>3 DEF Loop
<1>8. Sorted(o, l, com)
  <2>1. o \in [1 .. com -> {l[i] : i \in 1 .. com}]
        /\ \A i, j \in 1 .. com : i < j => o[i] # o[j]
    BY <1>5 DEF Sortings, Combatants
  <2>2. \A i, j \in 1 .. com : i < j \/ j < i \/ i = j
    BY <1>6
  <2> QED BY <2>1, <2>2 DEF Sorted
<1> HIDE DEF l, com
<1>9. /\ m \in Listing(n)
      /\ \A p \in 1 .. com : m[p] = o[p]
      /\ \A p \in com + 1 .. n : m[p] = l[p]
      /\ Complete(l, n) => /\ Complete(m, n)
                           /\ \A p \in 1 .. com : \E q \in 1 .. com : m[q] = l[p]
  <2>1. Resorted(m, o, l, com, n)
    BY <1>1, <1>6, <1>8, SortedHolds
  <2> QED BY <2>1 DEF Resorted
<1>10. /\ Fields(g) /\ g.list = m /\ g.com = com /\ g.noncom = r.noncom /\ g.on = f.on
       /\ g.total = f.total
  <2>1. g = [r EXCEPT !.list = m]
    BY DEF Arranged, r, b, l, com
  <2> HIDE DEF m, g
  <2>2. Fields(g) /\ g.list = m /\ g.com = r.com /\ g.noncom = r.noncom /\ g.on = r.on
        /\ g.total = r.total
    BY <1>4, <2>1 DEF Fields
  <2> QED BY <1>3, <1>4, <2>2 DEF com
<1> HIDE DEF m, g
<1>11. m \in Seq(Critter) /\ Len(m) = n
  BY <1>1, <1>9, ListingIsSeq
<1>12. com + r.noncom <= f.total
  BY <1>1, <1>3, <1>4, <1>7 DEF com
<1>13. Shape(g)
  BY <1>1, <1>6, <1>10, <1>11, <1>12 DEF Shape
<1>14. ASSUME NEW q \in Nat, Complete(f.list, q)
       PROVE  /\ Complete(m, q)
              /\ \A p \in com + r.noncom + 1 .. q :
                   \/ Dead(m[p])
                   \/ p \in f.com + f.noncom + 1 .. q /\ m[p] = f.list[p]
              /\ \A p \in 1 .. f.com : ~Dead(f.list[p]) /\ ~DropsOut(f.list[p]) =>
                                        \E k \in 1 .. com : m[k] = f.list[p]
  <2>1. q = n
    <3>1. f.list \in Listing(q)
      BY <1>14 DEF Complete, Holds
    <3>2. Len(f.list) = q
      BY <3>1, ListingIsSeq
    <3> QED BY <3>2 DEF n
  <2>2. Complete(m, q)
    BY <1>3, <1>4, <1>9, <1>14, <2>1, SMTT(30) DEF l
  <2>3. ASSUME NEW p \in com + r.noncom + 1 .. q
        PROVE  Dead(m[p]) \/ (p \in f.com + f.noncom + 1 .. q /\ m[p] = f.list[p])
    <3>1. p \in com + 1 .. n /\ p \in b.com + 1 .. n /\ p \in b.com + b.noncom + 1 .. n
      BY <1>1, <1>4, <1>6, <1>7, <2>1, SMTT(30) DEF com
    <3>2. m[p] = b.list[p]
      BY <1>4, <1>9, <3>1 DEF l
    <3>3. CASE p <= f.com + f.noncom
      <4>1. p \in b.com + b.noncom + 1 .. f.com + f.noncom
        BY <1>1, <1>7, <3>1, <3>3
      <4> QED BY <1>3, <3>2, <4>1
    <3>4. CASE ~(p <= f.com + f.noncom)
      <4>1. p \in f.com + f.noncom + 1 .. n
        BY <1>1, <3>1, <3>4
      <4> QED BY <1>3, <2>1, <3>2, <4>1
    <3> QED BY <3>3, <3>4
  <2>4. ASSUME NEW p \in 1 .. f.com, ~Dead(f.list[p]), ~DropsOut(f.list[p])
        PROVE  \E k \in 1 .. com : m[k] = f.list[p]
    <3>1. PICK i \in 1 .. b.com : b.list[i] = f.list[p]
      BY <1>3, <2>4
    <3>2. PICK j \in 1 .. com : l[j] = f.list[p]
      BY <1>4, <2>4, <3>1 DEF com, l
    <3>3. Complete(l, n)
      BY <1>3, <1>4, <1>14, <2>1 DEF l
    <3> QED BY <1>9, <3>2, <3>3
  <2> QED BY <2>2, <2>3, <2>4
<1>15. ASSUME NEW p \in 1 .. com
       PROVE  m[p] \in Critter /\ ~Dead(m[p]) /\ ~DropsOut(m[p])
  <2>1. p \in 1 .. n
    BY <1>1, <1>6
  <2>2. PICK q \in 1 .. com : o[p] = l[q]
    BY <1>8 DEF Sorted
  <2>3. m[p] = l[q] /\ m[p] \in Critter
    BY <1>9, <2>1, <2>2 DEF Listing
  <2>4. ~DropsOut(l[q])
    BY <1>4, <2>2 DEF l, com
  <2>5. q \in 1 .. b.com
    BY <1>4, <1>6, <1>7, <2>2 DEF com
  <2>6. PICK k \in 1 .. b.com : l[q] = b.list[k]
    BY <1>4, <2>5 DEF l
  <2>7. ~Dead(l[q])
    BY <1>3, <2>6
  <2> QED BY <2>3, <2>4, <2>7
<1> QED BY <1>6, <1>10, <1>13, <1>14, <1>15 DEF g, InOrderOf

\* The number of critters.
LEMMA NumberOfCritters == N \in Nat
BY CombatAssumption, FS_CardinalityType DEF N

\* At the end of a round there is a list to put in order.
LEMMA RoundEnds ==
  ASSUME FightInv, NEW awake, Sequence(awake)
  PROVE  /\ fight.on /\ Fields(fight) /\ Shape(fight)
         /\ run.pc = "joining" /\ DOMAIN run = RunFields
         /\ \E o \in Sortings(Rested(Buried(fight))) :
              LET g == Arranged(fight, o) IN
              /\ fight' = g
              /\ run' = [run EXCEPT !.pc = IF ShouldEnd(g) THEN "over" ELSE "round", !.done = 0]
<1>1. run.pc = "joining"
  BY DEF Sequence
<1>2. fight.on /\ Fields(fight) /\ Shape(fight) /\ DOMAIN run = RunFields
  BY <1>1 DEF FightInv, Phase, TypeInv
<1>3. \E o \in Sortings(Rested(Buried(fight))) :
        LET g == Arranged(fight, o) IN
        /\ fight' = g
        /\ run' = [run EXCEPT !.pc = IF ShouldEnd(g) THEN "over" ELSE "round", !.done = 0]
  BY DEF Sequence, Arranged
<1> QED BY <1>1, <1>2, <1>3

\* So does the end of a round, which sequences the next.
LEMMA SequenceStep ==
  ASSUME FightInv, UNCHANGED may, NEW awake, Sequence(awake)
  PROVE  FightInv'
<1>1. fight.on /\ Fields(fight) /\ Shape(fight) /\ run.pc = "joining" /\ DOMAIN run = RunFields
  BY RoundEnds
<1>2. PICK o \in Sortings(Rested(Buried(fight))) :
        /\ fight' = Arranged(fight, o)
        /\ run' = [run EXCEPT !.pc = IF ShouldEnd(Arranged(fight, o)) THEN "over" ELSE "round",
                              !.done = 0]
  BY RoundEnds
<1>3. /\ Fields(fight') /\ Shape(fight') /\ fight'.on = fight.on /\ fight'.total = fight.total
      /\ \A n \in Nat : Complete(fight.list, n) =>
           /\ Complete(fight'.list, n)
           /\ \A p \in fight'.com + fight'.noncom + 1 .. n :
                \/ Dead(fight'.list[p])
                \/ p \in fight.com + fight.noncom + 1 .. n /\ fight'.list[p] = fight.list[p]
      /\ fight'.com \in Nat /\ fight'.noncom \in Nat
  <2>0. InOrderOf(fight', fight)
    BY <1>1, <1>2, ArrangedIs
  <2>1. /\ Fields(fight') /\ Shape(fight') /\ fight'.on = fight.on /\ fight'.total = fight.total
        /\ \A n \in Nat : Complete(fight.list, n) =>
             /\ Complete(fight'.list, n)
             /\ \A p \in fight'.com + fight'.noncom + 1 .. n :
                  \/ Dead(fight'.list[p])
                  \/ p \in fight.com + fight.noncom + 1 .. n /\ fight'.list[p] = fight.list[p]
    BY <2>0, Zenon DEF InOrderOf
  <2>2. fight'.com \in Nat /\ fight'.noncom \in Nat
    BY <1>1, <2>1 DEF Shape
  <2> QED BY <2>1, <2>2
<1>4. /\ results' = [c \in Critter |-> IF c \in awake THEN results[c] \ {"ko"} ELSE results[c]]
      /\ UNCHANGED << present, cid, saved >>
  BY DEF Sequence
<1>5. DOMAIN results' = Critter
      /\ \A e \in Critter : "dead" \in results[e] => "dead" \in results'[e]
  BY <1>4
<1>6. Phase(run', fight', Reload)
  <2>1. DOMAIN run' = RunFields /\ run'.pc \in {"over", "round"}
    BY <1>1, <1>2 DEF RunFields
  <2> QED BY <1>1, <1>3, <2>1 DEF Phase
<1>7. TypeInv'
  BY <1>3, <1>4, <1>5 DEF FightInv, TypeInv
<1>8. FullInv'
  <2> SUFFICES ASSUME ~ByScripts
               PROVE  /\ Full(fight, present, results, cid)'
                      /\ (saved # NoGame => SavedFull(saved))'
    BY DEF FullInv, ByScripts
  <2>1. Full(fight, present, results, cid) /\ (saved # NoGame => SavedFull(saved))
    BY DEF FightInv, FullInv
  <2>2. Complete(fight.list, N) /\ fight.total = N /\ N \in Nat
    BY <1>1, <2>1, NumberOfCritters DEF Full
  <2>3. Complete(fight'.list, N) /\ fight'.total = N
    BY <1>3, <2>2
  <2>4. ASSUME NEW p \in fight'.com + fight'.noncom + 1 .. N
        PROVE  "dead" \in results'[fight'.list[p]]
    <3>1. p \in 1 .. N
      BY <1>3
    <3>2. fight'.list[p] \in Critter
      BY <2>3, <3>1 DEF Complete, Holds, Listing
    <3>3. "dead" \in results[fight'.list[p]]
      BY <1>1, <1>3, <2>1, <2>2 DEF Full, Dead
    <3> QED BY <1>5, <3>2, <3>3
  <2>5. present' = Critter /\ \A a, b \in Critter : cid'[a] = cid'[b] => a = b
    BY <1>1, <1>4, <2>1 DEF Full
  <2>6. Full(fight, present, results, cid)'
    BY <2>3, <2>4, <2>5 DEF Full
  <2> QED BY <1>4, <2>1, <2>6
<1>9. Phase(run, fight, Reload)'
  BY <1>6 DEF Reload
<1> QED BY <1>3, <1>7, <1>8, <1>9 DEF FightInv

\* Leaving combat(), with the fight or without it.
LEMMA OverStep ==
  ASSUME FightInv, UNCHANGED may, Over
  PROVE  FightInv'
<1>1. TypeInv /\ Shape(fight) /\ FullInv /\ Fields(fight) /\ DOMAIN results = Critter
  BY DEF FightInv, TypeInv
<1>2. run' = AtPeace /\ UNCHANGED << present, cid, saved >>
      /\ \/ UNCHANGED << fight, results >>
         \/ /\ fight' = [fight EXCEPT !.on = FALSE, !.list = << >>, !.total = 0]
            /\ results' = [results EXCEPT ![Dude] = IF "dead" \in @ THEN @ ELSE @ \ {"ko"}]
  BY DEF Over
<1>3. DOMAIN results' = Critter
      /\ \A e \in Critter : "dead" \in results[e] => "dead" \in results'[e]
  BY <1>1, <1>2
<1>4. Phase(run', fight', Reload)
  <2>1. DOMAIN run' = RunFields /\ run'.pc = "peace"
    BY <1>2 DEF AtPeace, RunFields
  <2> QED BY <2>1 DEF Phase
<1>5. CASE UNCHANGED << fight, results >>
  BY <1>2, <1>3, <1>4, <1>5, FrameKeeps
<1>6. CASE fight' = [fight EXCEPT !.on = FALSE, !.list = << >>, !.total = 0]
  <2>1. Fields(fight') /\ ~fight'.on
    BY <1>1, <1>6 DEF Fields
  <2>2. TypeInv'
    BY <1>1, <1>2, <1>3, <2>1 DEF TypeInv
  <2>3. Shape(fight)'
    BY <2>1 DEF Shape
  <2>4. FullInv'
    <3> SUFFICES ASSUME ~ByScripts
                 PROVE  /\ Full(fight, present, results, cid)'
                        /\ (saved # NoGame => SavedFull(saved))'
      BY DEF FullInv, ByScripts
    <3> QED BY <1>1, <1>2, <2>1 DEF FullInv, Full
  <2>5. Phase(run, fight, Reload)'
    BY <1>4 DEF Reload
  <2> QED BY <2>2, <2>3, <2>4, <2>5 DEF FightInv
<1> QED BY <1>2, <1>5, <1>6

\* A fight that begins.
LEMMA StartStep ==
  ASSUME FightInv, UNCHANGED may, may \in Settings, NEW order \in Orders(present),
         NEW a \in present \cup {Nobody}, NEW d \in present \cup {Nobody}, a # d \/ a = Nobody,
         Start(order, a, d)
  PROVE  /\ FightInv'
         /\ fight'.on /\ fight'.com \in Nat /\ Dude \in Combatants(fight')
<1> DEFINE n == Len(order)
           firsts == Firsts(a, d)
           list == PutFirst(order, firsts)
           com == Len(firsts)
           noncom == n - com
<1>1. present \in SUBSET Critter /\ Dude \in present /\ DOMAIN results = Critter
  BY DEF FightInv, TypeInv
<1>2. order \in Seq(Critter) /\ n \in Nat /\ Holds(order, n, present)
  <2>1. PICK layout \in Layouts[may] : order = Only(layout, present)
    BY DEF Orders
  <2>2. order \in Seq(Critter) /\ Holds(order, Len(order), present)
    BY <1>1, <2>1, OrderHolds
  <2> QED BY <2>2
<1>3. /\ fight' = [on |-> TRUE, list |-> list, com |-> com, noncom |-> noncom, total |-> n]
      /\ run' = [AtPeace EXCEPT !.pc = "round"]
      /\ cid' = [c \in Critter |-> IF c \in present THEN PlaceOf(order, c) ELSE cid[c]]
      /\ UNCHANGED << present, results, saved >>
  BY DEF Start, Firsts
<1> HIDE DEF n
<1>4. /\ firsts \in Seq(present) /\ com <= n
      /\ \A i, j \in 1 .. Len(firsts) : firsts[i] = firsts[j] => i = j
      /\ \E i \in 1 .. com : firsts[i] = Dude
  <2>1. Leaders(firsts, present, n)
    BY <1>1, <1>2, FirstsFit
  <2> QED BY <2>1 DEF Leaders
<1>5. com \in Nat
  BY <1>4
<1> HIDE DEF firsts
<1>6. Holds(list, n, present) /\ \A i \in 1 .. com : list[i] = firsts[i]
  BY <1>1, <1>2, <1>4, PutFirstHolds
<1> HIDE DEF list, com
<1>7. noncom \in Nat /\ com + noncom = n
  BY <1>2, <1>4, <1>5
<1> HIDE DEF noncom
<1>8. list \in Seq(Critter) /\ Len(list) = n
  <2>1. list \in Listing(n)
    BY <1>6 DEF Holds
  <2> QED BY <1>2, <2>1, ListingIsSeq
<1>9. /\ fight'.on = TRUE /\ fight'.list = list /\ fight'.com = com /\ fight'.noncom = noncom
      /\ fight'.total = n /\ Fields(fight')
  BY <1>3 DEF Fields
<1>10. TypeInv'
  BY <1>3, <1>9 DEF FightInv, TypeInv
<1>11. Shape(fight)'
  BY <1>2, <1>5, <1>7, <1>8, <1>9 DEF Shape
<1>12. Phase(run, fight, Reload)'
  <2>1. DOMAIN run' = RunFields /\ run'.pc = "round"
    BY <1>3 DEF AtPeace, RunFields
  <2> QED BY <1>9, <2>1 DEF Phase
<1>13. FullInv'
  <2> SUFFICES ASSUME ~ByScripts
               PROVE  /\ Full(fight, present, results, cid)'
                      /\ (saved # NoGame => SavedFull(saved))'
    BY DEF FullInv, ByScripts
  <2>1. present = Critter /\ (saved # NoGame => SavedFull(saved))
    BY DEF FightInv, FullInv, Full
  <2>2. n = N /\ Complete(list, N)
    <3>1. Cardinality(Critter) = n
      BY <1>2, <2>1, HoldsCounts
    <3> QED BY <1>6, <2>1, <3>1 DEF N, Complete
  <2>3. \A i \in com + noncom + 1 .. N : FALSE
    BY <1>2, <1>7, <2>2
  <2>4. ASSUME NEW c \in Critter, NEW e \in Critter, cid'[c] = cid'[e] PROVE c = e
    <3>1. order \in Listing(n) /\ \A x \in Critter : \E i \in 1 .. n : order[i] = x
      BY <1>2, <2>1 DEF Holds
    <3>2. order[PlaceOf(order, c)] = c /\ order[PlaceOf(order, e)] = e
      BY <1>2, <3>1, PlaceIsThere
    <3>3. PlaceOf(order, c) = PlaceOf(order, e)
      BY <1>3, <2>1, <2>4
    <3> QED BY <3>2, <3>3
  <2>5. Full(fight, present, results, cid)'
    BY <1>3, <1>9, <2>1, <2>2, <2>3, <2>4 DEF Full
  <2> QED BY <1>3, <2>1, <2>5
<1>14. Dude \in Combatants(fight')
  BY <1>4, <1>6, <1>9 DEF Combatants
<1> QED BY <1>5, <1>9, <1>10, <1>11, <1>12, <1>13, <1>14 DEF FightInv

\* What is left of the list when a script takes a critter out of the fight.
LEMMA DeletedShape ==
  ASSUME NEW f, Fields(f), f.on, Shape(f), NEW c
  PROVE  LET g == Deleted(f, c) IN
         /\ Fields(g) /\ Shape(g) /\ g.on /\ g.com \in Nat /\ g.com <= f.com
<1>1. /\ f.list \in Seq(Critter) /\ f.com \in Nat /\ f.noncom \in Nat /\ f.total \in Nat
      /\ f.com + f.noncom <= f.total /\ f.total <= Len(f.list)
  BY DEF Shape
<1>2. CASE c \notin InList(f)
  <2>1. Deleted(f, c) = f
    BY <1>2 DEF Deleted
  <2> QED BY <1>1, <2>1
<1>3. CASE c \in InList(f)
  <2> DEFINE l == f.list
             total == f.total
             part == SubSeq(f.list, 1, f.total)
             i == PlaceOf(part, c)
             t == f.total - 1
             m == [f.list EXCEPT ![f.total] = c]
             e == IF i <= f.com THEN f.com - 1 ELSE f.com
             o == IF i > f.com /\ i <= f.com + f.noncom THEN f.noncom - 1 ELSE f.noncom
             g == Deleted(f, c)
  <2>1. PICK k \in 1 .. f.total : f.list[k] = c
    BY <1>3 DEF InList
  <2>2. l \in Seq(Critter) /\ total \in Nat /\ total <= Len(l) /\ part = SubSeq(l, 1, total)
        /\ k \in 1 .. total /\ l[k] = c /\ m = [l EXCEPT ![total] = c]
    BY <1>1, <2>1
  <2>3. g = [f EXCEPT !.total = t, !.list = m, !.com = e, !.noncom = o]
    BY <1>3 DEF Deleted
  <2> HIDE DEF l, total, part, m, t, e, o, g
  <2>4. c \in Critter /\ k \in 1 .. Len(l)
    BY <2>2
  <2>5. m \in Seq(Critter) /\ Len(m) = Len(l)
    BY <2>2, <2>4
  <2>6. part \in Seq(Critter) /\ Len(part) = total /\ part[k] = c
    <3>1. 1 \in Int /\ total \in Int /\ \A j \in 1 .. total : l[j] \in Critter
      BY <2>2
    <3>2. /\ SubSeq(l, 1, total) \in Seq(Critter)
          /\ Len(SubSeq(l, 1, total)) = IF 1 <= total THEN total - 1 + 1 ELSE 0
          /\ \A j \in 1 .. total - 1 + 1 : SubSeq(l, 1, total)[j] = l[1 + j - 1]
      BY <3>1, SubSeqProperties
    <3>3. k \in 1 .. total - 1 + 1 /\ 1 + k - 1 = k /\ 1 <= total /\ total - 1 + 1 = total
      BY <2>2
    <3> QED BY <2>2, <3>2, <3>3
  <2>7. i \in 1 .. total
    <3>1. DOMAIN part = 1 .. total
      BY <2>2, <2>6
    <3> QED BY <2>2, <2>6, <3>1 DEF PlaceOf
  <2> HIDE DEF i
  <2>8. /\ g.total = t /\ g.list = m /\ g.com = e /\ g.noncom = o /\ g.on = f.on /\ Fields(g)
    BY <2>3 DEF Fields
  <2>9. t \in Nat /\ e \in Nat /\ o \in Nat /\ e + o <= t /\ e <= f.com /\ t <= Len(l)
    <3> DEFINE x == f.com
               y == f.noncom
               z == f.total
               w == Len(l)
    <3>1. x \in Nat /\ y \in Nat /\ z \in Nat /\ x + y <= z /\ z <= w /\ w \in Nat /\ i \in 1 .. z
      BY <1>1, <2>2, <2>7 DEF total
    <3>2. /\ t = z - 1 /\ e = (IF i <= x THEN x - 1 ELSE x)
          /\ o = IF i > x /\ i <= x + y THEN y - 1 ELSE y
      BY DEF t, e, o
    <3> HIDE DEF x, y, z, w
    <3>3. CASE i <= x
      <4>1. e = x - 1 /\ o = y
        BY <3>1, <3>2, <3>3
      <4>2. t \in Nat /\ e \in Nat /\ o \in Nat /\ e + o <= t /\ e <= x /\ t <= w
        BY <3>1, <3>2, <3>3, <4>1
      <4> QED BY <4>2 DEF x, w
    <3>4. CASE i > x /\ i <= x + y
      <4>1. e = x /\ o = y - 1
        BY <3>1, <3>2, <3>4
      <4>2. t \in Nat /\ e \in Nat /\ o \in Nat /\ e + o <= t /\ e <= x /\ t <= w
        BY <3>1, <3>2, <3>4, <4>1
      <4> QED BY <4>2 DEF x, w
    <3>5. CASE i > x + y
      <4>1. e = x /\ o = y
        BY <3>1, <3>2, <3>5
      <4>2. t \in Nat /\ e \in Nat /\ o \in Nat /\ e + o <= t /\ e <= x /\ t <= w
        BY <3>1, <3>2, <3>5, <4>1
      <4> QED BY <4>2 DEF x, w
    <3> QED BY <3>1, <3>3, <3>4, <3>5
  <2>10. Shape(g)
    BY <2>5, <2>8, <2>9 DEF Shape
  <2> QED BY <2>8, <2>9, <2>10 DEF g
<1> QED BY <1>2, <1>3

\* Scripts that take critters out or put them on the map.
LEMMA ScriptSteps ==
  ASSUME FightInv, UNCHANGED may, Undisturbed,
         \/ \E c \in Critter : \E how : Vanishes(c, how)
         \/ \E c \in Critter : Appears(c)
  PROVE  FightInv'
<1>1. ByScripts /\ ~Reload
  BY DEF Vanishes, Appears, ByScripts, Undisturbed, Reload
<1>2. FullInv' /\ ~Reload'
  BY <1>1 DEF FullInv, ByScripts, Reload
<1>3. TypeInv /\ Shape(fight) /\ Phase(run, fight, Reload)
  BY DEF FightInv
<1>4. ASSUME NEW c \in Critter, NEW how, Vanishes(c, how) PROVE FightInv'
  <2>1. /\ run.pc = "acting" /\ ~run.loaded /\ c # Dude
        /\ fight' = Deleted(fight, c) /\ UNCHANGED << run, saved >>
        /\ \/ results' = [results EXCEPT ![c] = @ \cup {"dead"}] /\ UNCHANGED present
           \/ present' = present \ {c} /\ UNCHANGED results
    BY <1>4 DEF Vanishes
  <2>2. fight.on /\ Fields(fight)
    BY <1>3, <2>1 DEF Phase, TypeInv
  <2>3. Fields(fight') /\ Shape(fight') /\ fight'.on /\ fight'.com \in Nat /\ fight'.com <= fight.com
    BY <1>3, <2>1, <2>2, DeletedShape
  <2>4. DOMAIN results' = Critter /\ present' \in SUBSET Critter /\ Dude \in present'
    BY <1>3, <2>1 DEF TypeInv
  <2>5. TypeInv'
    BY <1>3, <2>1, <2>3, <2>4 DEF TypeInv
  <2>6. Phase(run, fight, Reload)'
    <3>1. fight.com \in Nat
      BY <1>3, <2>2 DEF Shape
    <3>2. /\ DOMAIN run = RunFields /\ run.call \in {"round", "resumed", "joining"}
          /\ run.call = "joining" => run.index \in Nat /\ run.index + 1 >= fight.com /\ run.actor # Dude
      BY <1>3, <2>1 DEF Phase
    <3>3. run.call = "joining" => run.index + 1 >= fight'.com
      BY <2>3, <3>1, <3>2
    <3> QED BY <1>2, <2>1, <2>3, <3>2, <3>3 DEF Phase
  <2> QED BY <1>2, <2>3, <2>5, <2>6 DEF FightInv
<1>5. ASSUME NEW c \in Critter, Appears(c) PROVE FightInv'
  <2>1. /\ UNCHANGED << fight, run, saved >>
        /\ present' = present \cup {c} /\ results' = [results EXCEPT ![c] = {}]
    BY <1>5 DEF Appears
  <2>2. TypeInv'
    BY <1>3, <2>1 DEF TypeInv
  <2>3. Shape(fight)' /\ Phase(run, fight, Reload)'
    BY <1>3, <2>1 DEF Reload
  <2> QED BY <1>2, <2>2, <2>3 DEF FightInv
<1> QED BY <1>4, <1>5

\* A game is saved.
LEMMA SaveStep ==
  ASSUME FightInv, UNCHANGED may, Save
  PROVE  FightInv'
<1>1. TypeInv /\ Shape(fight) /\ Phase(run, fight, Reload) /\ FullInv
  BY DEF FightInv
<1>2. /\ UNCHANGED << present, results, cid, fight, run >>
      /\ saved'.present = present /\ saved'.results = results /\ saved'.cid = cid
      /\ saved'.on = fight.on /\ saved'.com = fight.com /\ saved'.noncom = fight.noncom
      /\ saved'.total = fight.total
      /\ saved'.cids = [i \in 1 .. fight.total |-> cid[fight.list[i]]]
  BY DEF Save, body
<1>3. SavedShape(saved')
  BY <1>1, <1>2 DEF SavedShape, TypeInv, Shape
<1>4. TypeInv'
  BY <1>1, <1>2, <1>3 DEF TypeInv
<1>5. Shape(fight)' /\ Phase(run, fight, Reload)'
  BY <1>1, <1>2 DEF Reload
<1>6. FullInv'
  <2> SUFFICES ASSUME ~ByScripts PROVE Full(fight, present, results, cid)' /\ SavedFull(saved)'
    BY DEF FullInv, ByScripts
  <2>1. Full(fight, present, results, cid)
    BY <1>1 DEF FullInv
  <2>2. Full(fight, present, results, cid)'
    BY <1>2, <2>1 DEF Full
  <2>3. ASSUME fight.on, NEW i \in fight.com + fight.noncom + 1 .. N, NEW c \in Critter,
               saved'.cid[c] = saved'.cids[i]
        PROVE  "dead" \in saved'.results[c]
    <3>1. /\ fight.com \in Nat /\ fight.noncom \in Nat /\ fight.total = N
          /\ Complete(fight.list, N) /\ "dead" \in results[fight.list[i]]
          /\ \A a, b \in Critter : cid[a] = cid[b] => a = b
      BY <1>1, <2>1, <2>3 DEF Full, Shape
    <3>2. i \in 1 .. N /\ N \in Nat
      BY <3>1, NumberOfCritters
    <3>3. saved'.cids[i] = cid[fight.list[i]] /\ fight.list[i] \in Critter
      BY <1>2, <3>1, <3>2 DEF Complete, Holds, Listing
    <3>4. c = fight.list[i]
      BY <1>2, <2>3, <3>1, <3>3
    <3> QED BY <1>2, <3>1, <3>4
  <2>4. SavedFull(saved)'
    BY <1>2, <2>1, <2>3 DEF SavedFull, Full
  <2> QED BY <2>2, <2>4
<1> QED BY <1>4, <1>5, <1>6 DEF FightInv

\* The list of a fight that has been loaded.
LEMMA LoadedIs ==
  ASSUME SavedShape(saved), may \in Settings, saved.on,
         NEW order \in Orders(saved.present), Load(order)
  PROVE  /\ fight'.on = TRUE /\ Fields(fight') /\ fight'.list = Placed(saved, order)
         /\ fight'.com = saved.com /\ fight'.noncom = saved.noncom /\ fight'.total = saved.total
         /\ cid' = [c \in Critter |-> IF c \in Range(fight'.list) THEN PlaceOf(fight'.list, c)
                                     ELSE saved.cid[c]]
         /\ saved.total \in Nat /\ Holds(order, saved.total, saved.present)
         /\ Holds(fight'.list, saved.total, saved.present)
         /\ fight'.list \in Seq(Critter) /\ Len(fight'.list) = saved.total
         /\ \A i \in 1 .. saved.total : saved.cid[fight'.list[i]] = saved.cids[i]
<1> DEFINE n == saved.total
           list == Placed(saved, order)
<1>1. /\ fight' = [on |-> TRUE, list |-> list, com |-> saved.com, noncom |-> saved.noncom,
                   total |-> saved.total]
      /\ cid' = [c \in Critter |-> IF c \in Range(list) THEN PlaceOf(list, c) ELSE saved.cid[c]]
      /\ Loadable(saved)
  BY DEF Load
<1>2. saved.present \in SUBSET Critter /\ Dude \in saved.present /\ n \in Nat
  BY DEF SavedShape
<1>3. order \in Seq(Critter) /\ Len(order) = n /\ Holds(order, n, saved.present)
  <2>1. PICK layout \in Layouts[may] : order = Only(layout, saved.present)
    BY DEF Orders
  <2>2. order \in Seq(Critter) /\ Holds(order, Len(order), saved.present)
    BY <1>2, <2>1, OrderHolds
  <2>3. Len(order) = n
    BY <1>1 DEF Loadable
  <2> QED BY <2>2, <2>3
<1>4. n \in Nat \ {0}
  BY <1>2, <1>3 DEF Holds
<1>5. list # << >>
  BY <1>1, <1>4 DEF Loadable
<1>6. Holds(list, n, saved.present) /\ \A i \in 1 .. n : saved.cid[list[i]] = saved.cids[i]
  BY <1>2, <1>3, <1>4, <1>5, PlacedHolds
<1>7. list \in Listing(n)
  BY <1>6 DEF Holds
<1> HIDE DEF list, n
<1>8. list \in Seq(Critter) /\ Len(list) = n
  BY <1>2, <1>7, ListingIsSeq
<1>9. /\ fight'.on = TRUE /\ fight'.list = list /\ fight'.com = saved.com
      /\ fight'.noncom = saved.noncom /\ fight'.total = n /\ Fields(fight')
  BY <1>1 DEF Fields, n
<1> QED BY <1>1, <1>2, <1>3, <1>6, <1>8, <1>9 DEF n, list

\* A game is loaded.
LEMMA LoadStep ==
  ASSUME FightInv, UNCHANGED may, may \in Settings, saved # NoGame,
         NEW order \in Orders(saved.present), Load(order)
  PROVE  FightInv'
<1>1. TypeInv /\ Shape(fight) /\ Phase(run, fight, Reload) /\ FullInv /\ SavedShape(saved)
      /\ Fields(fight)
  BY DEF FightInv, TypeInv
<1>2. /\ UNCHANGED saved /\ present' = saved.present /\ results' = saved.results
      /\ \/ run' = AtPeace
         \/ Reload /\ Acting(Dude) /\ run' = [run EXCEPT !.loaded = TRUE]
  BY DEF Load, Reload
<1>3. ASSUME fight'.on \/ fight'.com = fight.com
      PROVE  Phase(run, fight, Reload)'
  <2>1. CASE run' = AtPeace
    <3>1. DOMAIN run' = RunFields /\ run'.pc = "peace"
      BY <2>1 DEF AtPeace, RunFields
    <3> QED BY <3>1 DEF Phase
  <2>2. CASE Reload /\ Acting(Dude) /\ run' = [run EXCEPT !.loaded = TRUE]
    <3>1. run.pc = "acting" /\ ~run.loaded /\ run.actor = Dude
      BY <2>2 DEF Acting
    <3>2. /\ DOMAIN run = RunFields /\ run.call \in {"round", "resumed"}
          /\ run.call = "round" => run.done < fight.com
      BY <1>1, <2>2, <3>1 DEF Phase
    <3>3. /\ DOMAIN run' = RunFields /\ run'.call = run.call /\ run'.pc = "acting" /\ run'.loaded
          /\ run'.actor = Dude /\ run'.done = run.done
      BY <2>2, <3>1, <3>2 DEF RunFields
    <3> QED BY <1>3, <3>2, <3>3 DEF Phase
  <2> QED BY <1>2, <2>1, <2>2
<1>4. CASE ~saved.on
  <2>1. fight' = [fight EXCEPT !.on = FALSE, !.list = << >>, !.total = 0]
    BY <1>4 DEF Load
  <2>2. Fields(fight') /\ ~fight'.on /\ fight'.com = fight.com
    BY <1>1, <2>1 DEF Fields
  <2>3. TypeInv'
    BY <1>1, <1>2, <2>2 DEF TypeInv, SavedShape
  <2>4. Shape(fight)'
    BY <2>2 DEF Shape
  <2>5. FullInv'
    BY <1>1, <1>2, <2>2 DEF FullInv, ByScripts, Full, SavedFull
  <2> QED BY <1>3, <2>2, <2>3, <2>4, <2>5 DEF FightInv
<1>5. CASE saved.on
  <2> DEFINE n == saved.total
             list == Placed(saved, order)
  <2>1. /\ fight'.on = TRUE /\ fight'.list = list /\ fight'.com = saved.com
        /\ fight'.noncom = saved.noncom /\ fight'.total = n /\ Fields(fight')
        /\ cid' = [c \in Critter |-> IF c \in Range(list) THEN PlaceOf(list, c) ELSE saved.cid[c]]
        /\ Holds(list, n, saved.present) /\ \A i \in 1 .. n : saved.cid[list[i]] = saved.cids[i]
        /\ list \in Seq(Critter) /\ Len(list) = n
    BY <1>1, <1>5, LoadedIs
  <2>2. /\ saved.present \in SUBSET Critter /\ Dude \in saved.present
        /\ DOMAIN saved.results = Critter
        /\ saved.com \in Nat /\ saved.noncom \in Nat /\ n \in Nat
        /\ saved.com + saved.noncom <= n
    BY <1>1, <1>5 DEF SavedShape
  <2> HIDE DEF list, n
  <2>6. Holds(list, n, saved.present) /\ \A i \in 1 .. n : saved.cid[list[i]] = saved.cids[i]
    BY <2>1
  <2>7. list \in Listing(n)
    BY <2>6 DEF Holds
  <2>8. list \in Seq(Critter) /\ Len(list) = n /\ DOMAIN list = 1 .. n
    BY <2>1
  <2>9. /\ fight'.on = TRUE /\ fight'.list = list /\ fight'.com = saved.com
        /\ fight'.noncom = saved.noncom /\ fight'.total = n /\ Fields(fight')
    BY <2>1
  <2>10. TypeInv'
    BY <1>1, <1>2, <2>2, <2>9 DEF TypeInv
  <2>11. Shape(fight)'
    BY <2>2, <2>8, <2>9 DEF Shape
  <2>12. FullInv'
    <3> SUFFICES ASSUME ~ByScripts PROVE Full(fight, present, results, cid)' /\ SavedFull(saved)'
      BY DEF FullInv, ByScripts
    <3>1. SavedFull(saved) /\ saved.present = Critter
      BY <1>1 DEF FullInv, SavedFull
    <3>2. n = N /\ Complete(list, N)
      <4>1. Cardinality(Critter) = n
        BY <2>2, <2>6, <3>1, HoldsCounts
      <4> QED BY <2>6, <3>1, <4>1 DEF N, Complete
    <3>3. ASSUME NEW i \in saved.com + saved.noncom + 1 .. N PROVE "dead" \in results'[list[i]]
      <4>1. i \in 1 .. n /\ list[i] \in Critter
        BY <2>2, <2>7, <3>2 DEF Listing
      <4>2. saved.cid[list[i]] = saved.cids[i]
        BY <2>6, <4>1
      <4> QED BY <1>2, <1>5, <3>1, <4>1, <4>2 DEF SavedFull
    <3>4. ASSUME NEW c \in Critter, NEW e \in Critter, cid'[c] = cid'[e] PROVE c = e
      <4>1. \A x \in Critter : \E i \in 1 .. n : list[i] = x
        BY <2>6, <3>1 DEF Holds
      <4>2. list[PlaceOf(list, c)] = c /\ list[PlaceOf(list, e)] = e
        BY <2>2, <2>7, <4>1, PlaceIsThere
      <4>3. c \in Range(list) /\ e \in Range(list)
        BY <2>8, <4>1 DEF Range
      <4>4. PlaceOf(list, c) = PlaceOf(list, e)
        BY <2>1, <3>4, <4>3
      <4> QED BY <4>2, <4>4
    <3>5. Full(fight, present, results, cid)'
      BY <1>2, <2>9, <3>1, <3>2, <3>3, <3>4 DEF Full
    <3> QED BY <1>2, <3>1, <3>5
  <2> QED BY <1>3, <2>9, <2>10, <2>11, <2>12 DEF FightInv
<1> QED BY <1>4, <1>5

-----------------------------------------------------------------------------
(* The theorems.                                                           *)

\* Every step keeps the invariant.
LEMMA NextInv == IInv /\ [Next]_vars => IInv'
<1> SUFFICES ASSUME IInv, [Next]_vars PROVE IInv'
  OBVIOUS
<1>1. may' = may
  BY DEF Next, vars
<1>2. CASE ~Undisturbed
  BY <1>1, <1>2 DEF IInv, Undisturbed, ByScripts
<1>3. CASE Undisturbed /\ UNCHANGED vars
  <2>1. FightInv /\ UNCHANGED << present, results, cid, fight, run, saved, may >>
    BY <1>3 DEF IInv, vars, body
  <2>2. DOMAIN results' = Critter /\ Phase(run', fight, Reload)
    BY <2>1 DEF FightInv, TypeInv
  <2>3. FightInv'
    BY <2>1, <2>2, FrameKeeps
  <2> QED BY <1>1, <2>3 DEF IInv, Undisturbed, ByScripts
<1>4. CASE Undisturbed /\ Move
  <2>1. FightInv /\ may \in Settings /\ UNCHANGED may
    BY <1>1, <1>4 DEF IInv
  <2>2. FightInv'
    <3>1. CASE NextTurn \/ RoundOver \/ Resume \/ EndByPlayer \/ EndTurn \/ StayOut
      BY <2>1, <3>1, TurnSteps
    <3>2. CASE Join
      BY <2>1, <3>2, JoinStep
    <3>3. CASE Over
      BY <2>1, <3>3, OverStep
    <3>4. CASE Save
      BY <2>1, <3>4, SaveStep
    <3>5. ASSUME NEW order \in Orders(present), Start(order, Nobody, Nobody) PROVE FightInv'
      BY <2>1, <3>5, StartStep
    <3>6. ASSUME NEW order \in Orders(present), NEW a \in Alive, NEW d \in Alive, a # d,
                 Start(order, a, d)
          PROVE  FightInv'
      <4>1. a \in present \cup {Nobody} /\ d \in present \cup {Nobody}
        BY DEF Alive
      <4> QED BY <2>1, <3>6, <4>1, StartStep
    <3>7. CASE \/ \E c, d, outcome, blamed, onlookers : Hit(c, d, outcome, blamed, onlookers)
               \/ \E c, how : GivesUp(c, how)
               \/ \E c : WakeUp(c)
      BY <2>1, <3>7, DeedSteps
    <3>8. CASE \/ \E c \in Critter : \E how : Vanishes(c, how)
               \/ \E c \in Critter : Appears(c)
      BY <1>4, <2>1, <3>8, ScriptSteps
    <3>9. ASSUME NEW awake, Sequence(awake) PROVE FightInv'
      BY <2>1, <3>9, SequenceStep
    <3>10. ASSUME saved # NoGame, NEW order \in Orders(saved.present), Load(order) PROVE FightInv'
      BY <2>1, <3>10, LoadStep
    <3> QED BY <1>4, <3>1, <3>2, <3>3, <3>4, <3>5, <3>6, <3>7, <3>8, <3>9, <3>10 DEF Move
  <2> QED BY <1>1, <2>1, <2>2 DEF IInv, Undisturbed, ByScripts
<1> QED BY <1>2, <1>3, <1>4 DEF Next

\* What the invariant says of the list.
LEMMA InvHoldsAll == IInv => ListHoldsAll
<1> SUFFICES ASSUME IInv, fight.on, ~ByScripts
             PROVE  /\ fight.total = Cardinality(present) /\ InList(fight) = present
                    /\ fight.com + fight.noncom <= fight.total
                    /\ \A i \in fight.com + fight.noncom + 1 .. fight.total : Dead(fight.list[i])
  BY DEF ListHoldsAll
<1>1. FightInv
  BY DEF IInv, Undisturbed
<1>2. /\ present = Critter /\ Complete(fight.list, N) /\ fight.total = N
      /\ \A i \in fight.com + fight.noncom + 1 .. N : "dead" \in results[fight.list[i]]
      /\ fight.com + fight.noncom <= fight.total
  BY <1>1 DEF FightInv, FullInv, Full, Shape
<1>3. InList(fight) = present
  <2>1. \A c \in Critter : \E i \in 1 .. N : fight.list[i] = c
    BY <1>2 DEF Complete, Holds
  <2>2. \A i \in 1 .. N : fight.list[i] \in Critter
    BY <1>2 DEF Complete, Holds
  <2> QED BY <1>2, <2>1, <2>2 DEF InList
<1> QED BY <1>2, <1>3 DEF N, Dead

\* In every fight that no script interferes with, however it goes and however
\* often it is saved and loaded, the list holds all critters of the map, each
\* once, and behind the combatants and the others only dead (combat_begin,
\* combat_sequence, combat_add_noncoms, combat_load).
THEOREM ListKeepsAll == Spec => []ListHoldsAll
<1>1. Spec => []IInv
  BY InitInv, NextInv, PTL DEF Spec
<1> QED BY <1>1, InvHoldsAll, PTL

\* At the end of a round, those that go on to the next are fit for it.
LEMMA FitStep ==
  ASSUME FightInv, Next, run.pc = "joining", run'.pc = "round"
  PROVE  /\ Dude \in Combatants(fight')
         /\ \A c \in Combatants(fight') :
              /\ ~Dead(c)
              /\ c # Dude => "ko" \notin results'[c] /\ maneuver'[c] # {"disengaging"}
<1>1. PICK awake : Sequence(awake)
  <2>1. ~NextTurn /\ ~RoundOver /\ ~Resume /\ ~EndByPlayer /\ ~EndTurn /\ ~Over /\ ~Save
    BY DEF NextTurn, RoundOver, Resume, EndByPlayer, EndTurn, Over, Save, Acting
  <2>2. ~StayOut
    <3> SUFFICES ASSUME StayOut PROVE FALSE
      OBVIOUS
    <3>1. run' = [run EXCEPT !.index = run.index + 1] /\ DOMAIN run = RunFields
      BY DEF StayOut, FightInv, Phase
    <3>2. run'.pc = "joining"
      BY <3>1 DEF RunFields
    <3> QED BY <3>2
  <2>3. ~Join
    <3> SUFFICES ASSUME Join PROVE FALSE
      OBVIOUS
    <3> DEFINE r == [run EXCEPT !.call = "joining"]
               r0 == [r EXCEPT !.actor = Nobody]
               q == [r EXCEPT !.quit = TRUE]
               q0 == [q EXCEPT !.actor = Nobody]
    <3>1. DOMAIN run = RunFields
      BY DEF FightInv, Phase
    <3>2. /\ DOMAIN r = RunFields /\ r.call = "joining" /\ DOMAIN q = RunFields
          /\ q.call = "joining" /\ DOMAIN r0 = RunFields /\ DOMAIN q0 = RunFields
      BY <3>1 DEF RunFields
    <3>3. \/ run' = [run EXCEPT !.index = run.index + 1]
          \/ BeginTurn(fight.list[run.index + 1], r)
      BY DEF Join
    <3>4. ASSUME NEW c, BeginTurn(c, r)
          PROVE  \/ \E i : run' = [r0 EXCEPT !.pc = "joining", !.index = i]
                 \/ \E i : run' = [q0 EXCEPT !.pc = "joining", !.index = i]
                 \/ run' = [r EXCEPT !.pc = "acting", !.actor = c]
      <4>1. \/ \E rc : run' = After(r, fight, rc)
            \/ run' = After(q, fight, -1)
            \/ run' = [r EXCEPT !.pc = "acting", !.actor = c]
        BY <3>4 DEF BeginTurn
      <4> HIDE DEF r, q
      <4>2. /\ \A rc : \E i : After(r, fight, rc) = [r0 EXCEPT !.pc = "joining", !.index = i]
            /\ \E i : After(q, fight, -1) = [q0 EXCEPT !.pc = "joining", !.index = i]
        BY <3>2 DEF After
      <4> HIDE DEF r0, q0
      <4> QED BY <4>1, <4>2, ZenonT(60)
    <3> HIDE DEF r, r0, q, q0
    <3>5. run'.pc \in {"joining", "acting"}
      <4>1. CASE run' = [run EXCEPT !.index = run.index + 1]
        BY <3>1, <4>1 DEF RunFields
      <4>2. CASE BeginTurn(fight.list[run.index + 1], r)
        BY <3>2, <3>4, <4>2 DEF RunFields
      <4> QED BY <3>3, <4>1, <4>2
    <3> QED BY <3>5
  <2>4. \A order, a, d : ~Start(order, a, d)
    BY DEF Start
  <2>5. \A c, d, outcome, blamed, onlookers : ~Hit(c, d, outcome, blamed, onlookers)
    BY DEF Hit, Acting
  <2>6. \A c : ~WakeUp(c) /\ ~Appears(c)
    BY DEF WakeUp, Appears
  <2>7. \A c, how : ~GivesUp(c, how) /\ ~Vanishes(c, how)
    BY DEF GivesUp, Vanishes, Acting
  <2>8. \A order : ~Load(order)
    BY DEF Load, Acting
  <2> QED BY <2>1, <2>2, <2>3, <2>4, <2>5, <2>6, <2>7, <2>8 DEF Next, Move
<1>2. fight.on /\ Fields(fight) /\ Shape(fight) /\ DOMAIN run = RunFields
  BY <1>1, RoundEnds
<1>3. PICK o \in Sortings(Rested(Buried(fight))) :
        /\ fight' = Arranged(fight, o)
        /\ run' = [run EXCEPT !.pc = IF ShouldEnd(Arranged(fight, o)) THEN "over" ELSE "round",
                              !.done = 0]
  BY <1>1, RoundEnds
<1>4. ~ShouldEnd(fight')
  <2> DEFINE p == IF ShouldEnd(Arranged(fight, o)) THEN "over" ELSE "round"
  <2>1. run' = [run EXCEPT !.pc = p, !.done = 0]
    BY <1>3
  <2> HIDE DEF p
  <2>2. run'.pc = p
    BY <1>2, <2>1 DEF RunFields
  <2> QED BY <1>3, <2>2 DEF p
<1>5. Dude \in Combatants(fight')
  BY <1>4 DEF ShouldEnd
<1>6. \A p \in 1 .. fight'.com : /\ fight'.list[p] \in Critter
                                 /\ ~Dead(fight'.list[p]) /\ ~DropsOut(fight'.list[p])
  BY <1>2, <1>3, ArrangedIs DEF InOrderOf
<1>7. ASSUME NEW c \in Combatants(fight')
      PROVE  /\ ~Dead(c)
             /\ c # Dude => "ko" \notin results'[c] /\ maneuver'[c] # {"disengaging"}
  <2>1. c \in Critter /\ ~Dead(c) /\ ~DropsOut(c)
    BY <1>6 DEF Combatants
  <2>2. results'[c] = IF c \in awake THEN results[c] \ {"ko"} ELSE results[c]
    BY <1>1, <2>1 DEF Sequence
  <2>3. maneuver'[c] = IF c \in awake THEN maneuver[c] \cup {"engaging"} ELSE maneuver[c]
    BY <1>1, <2>1 DEF Sequence
  <2>4. maneuver[c] \cup {"engaging"} # {"disengaging"}
    OBVIOUS
  <2> QED BY <2>1, <2>2, <2>3, <2>4 DEF DropsOut
<1> QED BY <1>5, <1>7

\* When no game is loaded over a fight in which scripts take critters out, every
\* new round is fought by the player and those able to: none that is dead, and
\* none but he that is knocked out or has only given up (combat_sequence).
THEOREM NewRoundStartsFit ==
  ASSUME \A s \in Settings : "reload" \in s => s \cap {"kill", "remove", "create"} = {}
  PROVE  Spec => NewRoundIsFit
<1>1. Spec => []IInv
  BY InitInv, NextInv, PTL DEF Spec
<1>2. ASSUME IInv, [Next]_vars
      PROVE  [run.pc = "joining" /\ run'.pc = "round" =>
                /\ Dude \in Combatants(fight')
                /\ \A c \in Combatants(fight') :
                     /\ ~Dead(c)
                     /\ c # Dude => "ko" \notin results'[c] /\ maneuver'[c] # {"disengaging"}]_vars
  <2>1. FightInv
    BY <1>2 DEF IInv, Undisturbed, ByScripts
  <2> QED BY <1>2, <2>1, FitStep
<1> QED BY <1>1, <1>2, PTL DEF Spec, NewRoundIsFit

-----------------------------------------------------------------------------
(* Turns.                                                                  *)

\* Those at the first k places.
First(f, k) == {f.list[i] : i \in 1 .. k}

\* Who is in the sequence a has had one turn.
Once(a) == a \in Seq(Critter) /\ \A i, j \in DOMAIN a : a[i] = a[j] => i = j

\* Those who have had one are in S; and all of S, unless a fight may be loaded
\* over this one. (m is may.)
Took(a, S, m) == Range(a) \subseteq S /\ ("reload" \notin m => S \subseteq Range(a))

\* The player's place is the last of those that have had their turn.
HisTurn(f, a, m) == \E p \in 1 .. f.com : f.list[p] = Dude /\ Took(a, First(f, p), m)

\* Who has had a turn while combat() acts for the critter whose turn it is. The
\* player whose fight has been loaded away is in the middle of the loaded one.
InTurn(r, f, a, m) ==
  /\ r.call = "joining" => Took(a, First(f, f.com), m)
  /\ r.call = "resumed" => r.actor = Dude
  /\ r.call # "joining" /\ r.actor = Dude => HisTurn(f, a, m)
  /\ r.call = "round" /\ ~(r.loaded /\ r.actor = Dude) =>
       r.done \in Nat /\ r.done < f.com /\ Took(a, First(f, r.done + 1), m)

\* Who has had a turn wherever combat() is. At peace, a fight that was loaded goes on after
\* the player's place, unless he is dead.
Turns(r, f, a, res, m) ==
  /\ "dead" \in res[Dude] \/ \E p \in 1 .. f.com : f.list[p] = Dude
  /\ r.pc = "round" => r.done \in Nat /\ r.done <= f.com /\ Took(a, First(f, r.done), m)
  /\ r.pc = "joining" => Took(a, First(f, f.com), m)
  /\ r.pc = "acting" => InTurn(r, f, a, m)
  /\ r.pc = "peace" \/ (r.pc = "over" /\ r.loaded) =>
       "dead" \in res[Dude] \/ HisTurn(f, a, m)

\* All that, for the fight there is.
TurnAt(r, f, a, res, m) ==
  /\ Once(a)
  /\ r.loaded => "reload" \in m
  /\ r.quit => "quit" \in m
  /\ f.on => Turns(r, f, a, res, m)

\* In a saved fight the player lives, and those up to his place have had their
\* turn. The critters are known by their numbers.
SavedTurn(s, m) ==
  /\ Once(s.acted)
  /\ s.on => /\ "dead" \notin s.results[Dude]
             /\ \A c, d \in Critter : s.cid[c] = s.cid[d] => c = d
             /\ \E p \in 1 .. s.com :
                  /\ s.cids[p] = s.cid[Dude]
                  /\ Took(s.acted, {c \in Critter : \E i \in 1 .. p : s.cid[c] = s.cids[i]}, m)

\* No script interferes, and none breaks a round off in a fight that another may
\* be loaded over.
Orderly(m) ==
  m \cap {"kill", "remove", "create"} = {} /\ ("reload" \in m => "quit" \notin m)

TurnInv == Orderly(may) => /\ TurnAt(run, fight, acted, results, may)
                           /\ saved # NoGame => SavedTurn(saved, may)

\* One more has his turn.
LEMMA OneMoreTurn ==
  ASSUME NEW a, Once(a), NEW S, NEW m, Took(a, S, m), NEW c \in Critter, c \notin S
  PROVE  Once(Append(a, c)) /\ Took(Append(a, c), S \cup {c}, m)
<1> DEFINE b == Append(a, c)
<1>1. a \in Seq(Critter) /\ DOMAIN a = 1 .. Len(a) /\ Len(a) \in Nat
  BY DEF Once
<1>2. /\ b \in Seq(Critter) /\ Len(b) = Len(a) + 1 /\ DOMAIN b = 1 .. Len(a) + 1
      /\ b[Len(a) + 1] = c /\ \A i \in 1 .. Len(a) : b[i] = a[i]
  BY <1>1, AppendProperties
<1> HIDE DEF b
<1>3. \A i \in 1 .. Len(a) : a[i] \in S
  BY <1>1 DEF Took, Range
<1>4. ASSUME NEW i \in DOMAIN b, NEW j \in DOMAIN b, b[i] = b[j] PROVE i = j
  <2> DEFINE n == Len(a)
  <2>1. n \in Nat /\ i \in 1 .. n + 1 /\ j \in 1 .. n + 1
    BY <1>1, <1>2
  <2> HIDE DEF n
  <2>2. \A k \in 1 .. n + 1 : k = n + 1 \/ k \in 1 .. n
    BY <2>1
  <2>3. \A k, l \in 1 .. n : a[k] = a[l] => k = l
    BY <1>1 DEF Once, n
  <2> QED BY <1>2, <1>3, <1>4, <2>1, <2>2, <2>3 DEF n
<1>5. Range(b) = Range(a) \cup {c}
  <2> DEFINE n == Len(a)
  <2>1. n \in Nat /\ DOMAIN a = 1 .. n /\ DOMAIN b = 1 .. n + 1
    BY <1>1, <1>2
  <2> HIDE DEF n
  <2>2. \A k \in 1 .. n : k \in 1 .. n + 1
    BY <2>1
  <2>3. \A k \in 1 .. n + 1 : k = n + 1 \/ k \in 1 .. n
    BY <2>1
  <2>4. n + 1 \in 1 .. n + 1
    BY <2>1
  <2> QED BY <1>2, <2>1, <2>2, <2>3, <2>4 DEF Range, n
<1> QED BY <1>2, <1>4, <1>5 DEF Once, Took, b

\* No one has had a turn yet.
LEMMA NoTurnYet ==
  ASSUME NEW m
  PROVE  /\ Once(<< >>) /\ \A f : Took(<< >>, First(f, 0), m)
         /\ "reload" \in m => \A S : Took(<< >>, S, m)
<1>1. Range(<< >>) = {}
  BY DEF Range
<1> QED BY <1>1 DEF Once, Took, First

\* The next place is another critter's.
LEMMA FirstGrows ==
  ASSUME NEW f, NEW n \in Nat, Complete(f.list, n), NEW k \in Nat, k < n
  PROVE  /\ First(f, k + 1) = First(f, k) \cup {f.list[k + 1]}
         /\ f.list[k + 1] \in Critter /\ f.list[k + 1] \notin First(f, k)
<1> DEFINE l == f.list
<1>1. l \in Listing(n) /\ \A i, j \in 1 .. n : l[i] = l[j] => i = j
  BY DEF Complete, Holds
<1> HIDE DEF l
<1>2. k + 1 \in 1 .. n /\ \A i \in 1 .. k : i \in 1 .. n /\ i # k + 1 /\ i \in 1 .. k + 1
  OBVIOUS
<1>3. \A i \in 1 .. k + 1 : i = k + 1 \/ i \in 1 .. k
  OBVIOUS
<1>4. l[k + 1] \in Critter
  BY <1>1, <1>2 DEF Listing
<1>5. k + 1 \in 1 .. k + 1
  OBVIOUS
<1>6. First(f, k + 1) = First(f, k) \cup {l[k + 1]}
  BY <1>2, <1>3, <1>5 DEF First, l
<1>7. l[k + 1] \notin First(f, k)
  BY <1>1, <1>2 DEF First, l
<1> QED BY <1>4, <1>6, <1>7 DEF l

\* A critter has one place.
LEMMA OnePlaceEach ==
  ASSUME NEW n \in Nat, NEW l, Complete(l, n), NEW p \in 1 .. n
  PROVE  PlaceOf(l, l[p]) = p
<1>1. l \in Listing(n) /\ \A i, j \in 1 .. n : l[i] = l[j] => i = j
  BY DEF Complete, Holds
<1>2. PlaceOf(l, l[p]) \in 1 .. n /\ l[PlaceOf(l, l[p])] = l[p]
  BY <1>1, PlaceIsThere
<1> QED BY <1>1, <1>2

\* Where combat() is after a turn.
Goes(x, r, f, rc) ==
  /\ x.loaded = r.loaded /\ x.quit = r.quit /\ x.pc \in {"joining", "over", "round"}
  /\ r.call = "joining" => x.pc = "joining"
  /\ r.call = "resumed" => /\ x.done = PlaceOf(f.list, Dude)
                           /\ x.pc = IF rc = -1 THEN "over" ELSE "round"
  /\ r.call = "round" /\ rc # -1 => x.pc = "round" /\ x.done = r.done + 1
  /\ r.call = "round" /\ rc = -1 => x.pc = IF r.done < f.com THEN "over" ELSE "joining"

\* That is what After says.
LEMMA AfterGoes ==
  ASSUME NEW r, NEW f, NEW rc, DOMAIN r = RunFields, r.call \in {"round", "resumed", "joining"}
  PROVE  Goes(After(r, f, rc), r, f, rc)
<1> DEFINE r0 == [r EXCEPT !.actor = Nobody]
           x == After(r, f, rc)
<1>1. /\ DOMAIN r0 = RunFields /\ r0.index = r.index /\ r0.done = r.done
      /\ r0.loaded = r.loaded /\ r0.quit = r.quit
  BY DEF RunFields
<1>2. CASE r.call = "joining"
  <2> DEFINE i == r.index + 1
  <2>1. x = [r0 EXCEPT !.pc = "joining", !.index = i]
    BY <1>1, <1>2 DEF After
  <2> HIDE DEF r0, i, x
  <2>2. x.pc = "joining" /\ x.loaded = r.loaded /\ x.quit = r.quit
    BY <1>1, <2>1 DEF RunFields
  <2> QED BY <1>2, <2>2 DEF Goes, x
<1>3. CASE r.call = "resumed"
  <2> DEFINE k == PlaceOf(f.list, Dude)
             p == IF rc = -1 THEN "over" ELSE "round"
  <2>1. x = [r0 EXCEPT !.pc = p, !.done = k]
    BY <1>3 DEF After
  <2>2. p \in {"over", "round"}
    OBVIOUS
  <2> HIDE DEF r0, k, x, p
  <2>3. x.pc = p /\ x.done = k /\ x.loaded = r.loaded /\ x.quit = r.quit
    BY <1>1, <2>1 DEF RunFields
  <2> QED BY <1>3, <2>2, <2>3 DEF Goes, x, k, p
<1>4. CASE r.call = "round" /\ rc # -1
  <2> DEFINE k == r.done + 1
  <2>1. x = [r0 EXCEPT !.pc = "round", !.done = k]
    BY <1>1, <1>4 DEF After
  <2> HIDE DEF r0, k, x
  <2>2. x.pc = "round" /\ x.done = k /\ x.loaded = r.loaded /\ x.quit = r.quit
    BY <1>1, <2>1 DEF RunFields
  <2> QED BY <1>4, <2>2 DEF Goes, x, k
<1>5. CASE r.call = "round" /\ rc = -1 /\ r.done < f.com
  <2>1. x = [r0 EXCEPT !.pc = "over"]
    BY <1>5 DEF After
  <2> HIDE DEF r0, x
  <2>2. x.pc = "over" /\ x.loaded = r.loaded /\ x.quit = r.quit
    BY <1>1, <2>1 DEF RunFields
  <2> QED BY <1>5, <2>2 DEF Goes, x
<1>6. CASE r.call = "round" /\ rc = -1 /\ ~(r.done < f.com)
  <2> DEFINE i == f.com
  <2>1. x = [r0 EXCEPT !.pc = "joining", !.index = i]
    BY <1>6 DEF After
  <2> HIDE DEF r0, i, x
  <2>2. x.pc = "joining" /\ x.loaded = r.loaded /\ x.quit = r.quit
    BY <1>1, <2>1 DEF RunFields
  <2> QED BY <1>6, <2>2 DEF Goes, x
<1> QED BY <1>2, <1>3, <1>4, <1>5, <1>6

\* Who has had a turn when one ends that returns rc. A round is broken off in a
\* loaded game only when the player is dead, or when it is the turn in which the
\* game was loaded.
Ended(r, g, a, res, m, rc) ==
  /\ r.call = "joining" => Took(a, First(g, g.com), m)
  /\ r.call = "resumed" => HisTurn(g, a, m) \/ ("dead" \in res[Dude] /\ rc = -1)
  /\ r.call = "round" /\ ~(r.loaded /\ rc = -1 /\ HisTurn(g, a, m)) =>
       /\ r.done \in Nat /\ r.done < g.com /\ Took(a, First(g, r.done + 1), m)
       /\ rc = -1 /\ r.loaded => "dead" \in res[Dude]

\* Then the same holds where combat() goes on.
LEMMA AfterTurn ==
  ASSUME NEW r, NEW f, NEW g, NEW a, NEW res, NEW m, NEW rc, NEW n \in Nat,
         DOMAIN r = RunFields, r.call \in {"round", "resumed", "joining"},
         Complete(g.list, n), g.com \in Nat, g.com <= n, r.call = "joining" \/ f = g,
         Once(a), r.loaded => "reload" \in m, r.quit => "quit" \in m,
         "dead" \in res[Dude] \/ \E p \in 1 .. g.com : g.list[p] = Dude,
         Ended(r, g, a, res, m, rc)
  PROVE  TurnAt(After(r, f, rc), g, a, res, m)
<1> DEFINE x == After(r, f, rc)
<1>1. Goes(x, r, f, rc)
  BY AfterGoes
<1> HIDE DEF x
<1>2. x.loaded = r.loaded /\ x.quit = r.quit /\ x.pc \in {"joining", "over", "round"}
  BY <1>1 DEF Goes
<1>3. ASSUME HisTurn(g, a, m)
      PROVE  /\ PlaceOf(g.list, Dude) \in 1 .. g.com
             /\ Took(a, First(g, PlaceOf(g.list, Dude)), m)
             /\ "reload" \in m => Took(a, First(g, g.com), m)
  <2>1. PICK p \in 1 .. g.com : g.list[p] = Dude /\ Took(a, First(g, p), m)
    BY <1>3 DEF HisTurn
  <2>2. p \in 1 .. n
    OBVIOUS
  <2> DEFINE l == g.list
  <2>3. Complete(l, n) /\ l[p] = Dude
    BY <2>1
  <2> HIDE DEF l
  <2>4. PlaceOf(l, Dude) = p
    BY <2>2, <2>3, OnePlaceEach
  <2>5. First(g, p) \subseteq First(g, g.com)
    BY DEF First
  <2> QED BY <2>1, <2>4, <2>5 DEF Took, l
<1>4. CASE r.call = "joining"
  <2>1. x.pc = "joining" /\ Took(a, First(g, g.com), m)
    BY <1>1, <1>4 DEF Goes, Ended
  <2> QED BY <1>2, <2>1 DEF TurnAt, Turns, x
<1>5. CASE r.call = "resumed"
  <2>1. x.done = PlaceOf(g.list, Dude) /\ x.pc = IF rc = -1 THEN "over" ELSE "round"
    BY <1>1, <1>5 DEF Goes
  <2>2. HisTurn(g, a, m) \/ ("dead" \in res[Dude] /\ rc = -1)
    BY <1>5 DEF Ended
  <2>3. CASE rc = -1
    <3>1. x.pc = "over" /\ ("dead" \in res[Dude] \/ HisTurn(g, a, m))
      BY <2>1, <2>2, <2>3
    <3> QED BY <1>2, <3>1 DEF TurnAt, Turns, x
  <2>4. CASE rc # -1
    <3>1. x.pc = "round" /\ HisTurn(g, a, m)
      BY <2>1, <2>2, <2>4
    <3>2. x.done \in 1 .. g.com /\ Took(a, First(g, x.done), m)
      BY <1>3, <2>1, <3>1
    <3> QED BY <1>2, <3>1, <3>2 DEF TurnAt, Turns, x
  <2> QED BY <2>3, <2>4
<1>6. CASE r.call = "round" /\ ~(r.loaded /\ rc = -1 /\ HisTurn(g, a, m))
  <2>1. /\ r.done \in Nat /\ r.done < g.com /\ Took(a, First(g, r.done + 1), m)
        /\ rc = -1 /\ r.loaded => "dead" \in res[Dude]
    BY <1>6 DEF Ended
  <2>2. CASE rc = -1
    <3>1. x.pc = "over"
      BY <1>1, <1>6, <2>1, <2>2 DEF Goes
    <3> QED BY <1>2, <2>1, <2>2, <3>1 DEF TurnAt, Turns, x
  <2>3. CASE rc # -1
    <3>1. x.pc = "round" /\ x.done = r.done + 1
      BY <1>1, <1>6, <2>3 DEF Goes
    <3>2. x.done \in Nat /\ x.done <= g.com /\ Took(a, First(g, x.done), m)
      BY <2>1, <3>1
    <3> QED BY <1>2, <3>1, <3>2 DEF TurnAt, Turns, x
  <2> QED BY <2>2, <2>3
<1>7. CASE r.call = "round" /\ r.loaded /\ rc = -1 /\ HisTurn(g, a, m)
  <2>1. x.pc \in {"over", "joining"}
    BY <1>1, <1>7 DEF Goes
  <2>2. Took(a, First(g, g.com), m)
    BY <1>3, <1>7
  <2> QED BY <1>2, <1>7, <2>1, <2>2 DEF TurnAt, Turns, x
<1> QED BY <1>4, <1>5, <1>6, <1>7

\* Who has had a turn, c's included, when c's turn begins.
Enters(r, g, a, c, res, m) ==
  /\ r.call = "joining" => Took(a, First(g, g.com), m)
  /\ r.call = "resumed" => c = Dude /\ ("dead" \in res[Dude] \/ HisTurn(g, a, m))
  /\ r.call = "round" => /\ r.done \in Nat /\ r.done < g.com /\ g.list[r.done + 1] = c
                         /\ Took(a, First(g, r.done + 1), m)

\* A turn that begins.
LEMMA TurnEnters ==
  ASSUME NEW c, NEW r, NEW g, NEW a, NEW n \in Nat, BeginTurn(c, r), DOMAIN results = Critter,
         DOMAIN r = RunFields, r.call \in {"round", "resumed", "joining"},
         Complete(g.list, n), g.com \in Nat, g.com <= n, r.call = "joining" \/ fight = g,
         Once(a), r.loaded => "reload" \in may, r.quit => "quit" \in may,
         "dead" \in results[Dude] \/ \E p \in 1 .. g.com : g.list[p] = Dude,
         Orderly(may), Enters(r, g, a, c, results, may)
  PROVE  TurnAt(run', g, a, results', may)
<1>1. CASE Incapacitated(c) /\ results' = [results EXCEPT ![c] = @ \ {"lose"}]
           /\ run' = After(r, fight, IF Dead(Dude) THEN -1 ELSE 0)
  <2> DEFINE rc == IF Dead(Dude) THEN -1 ELSE 0
             res == results'
  <2>1. Dude \in Critter
    BY CombatAssumption
  <2>2. /\ "dead" \in res[Dude] <=> "dead" \in results[Dude]
        /\ "dead" \in results[Dude] <=> rc = -1
    BY <1>1, <2>1 DEF Dead
  <2>3. run' = After(r, fight, rc)
    BY <1>1
  <2> HIDE DEF rc, res
  <2>4. Ended(r, g, a, res, may, rc)
    BY <2>2 DEF Ended, Enters
  <2>5. "dead" \in res[Dude] \/ \E p \in 1 .. g.com : g.list[p] = Dude
    BY <2>2
  <2>6. TurnAt(After(r, fight, rc), g, a, res, may)
    BY <2>4, <2>5, AfterTurn
  <2> QED BY <2>3, <2>6 DEF res
<1>2. CASE ~Incapacitated(c) /\ UNCHANGED results /\ "quit" \in may
           /\ run' = After([r EXCEPT !.quit = TRUE], fight, -1)
  <2> DEFINE q == [r EXCEPT !.quit = TRUE]
  <2>1. /\ DOMAIN q = RunFields /\ q.call = r.call /\ q.done = r.done
        /\ q.loaded = r.loaded /\ q.quit = TRUE
    BY DEF RunFields
  <2>2. run' = After(q, fight, -1) /\ "quit" \in may /\ UNCHANGED results
    BY <1>2
  <2> HIDE DEF q
  <2>3. ~q.loaded
    BY <1>2, <2>1 DEF Orderly
  <2>4. c = Dude => "dead" \notin results[Dude]
    BY <1>2 DEF Incapacitated
  <2>5. Ended(q, g, a, results, may, -1)
    BY <2>1, <2>3, <2>4 DEF Ended, Enters
  <2>6. TurnAt(After(q, fight, -1), g, a, results, may)
    <3>1. q.call \in {"round", "resumed", "joining"} /\ (q.call = "joining" \/ fight = g)
          /\ (q.loaded => "reload" \in may) /\ (q.quit => "quit" \in may)
      BY <1>2, <2>1
    <3> QED BY <2>1, <2>5, <3>1, AfterTurn
  <2> QED BY <2>2, <2>6
<1>3. CASE ~Incapacitated(c) /\ UNCHANGED results
           /\ run' = [r EXCEPT !.pc = "acting", !.actor = c]
  <2> DEFINE x == [r EXCEPT !.pc = "acting", !.actor = c]
  <2>1. /\ x.call = r.call /\ x.done = r.done /\ x.loaded = r.loaded /\ x.quit = r.quit
        /\ x.pc = "acting" /\ x.actor = c
    BY DEF RunFields
  <2>2. run' = x /\ UNCHANGED results
    BY <1>3
  <2> HIDE DEF x
  <2>3. c = Dude => "dead" \notin results[Dude]
    BY <1>3 DEF Incapacitated
  <2>4. ASSUME r.call = "round", c = Dude PROVE HisTurn(g, a, may)
    <3> DEFINE p == r.done + 1
    <3>1. p \in 1 .. g.com /\ g.list[p] = Dude /\ Took(a, First(g, p), may)
      BY <2>4 DEF Enters
    <3> HIDE DEF p
    <3> QED BY <3>1 DEF HisTurn
  <2>5. InTurn(x, g, a, may)
    BY <2>1, <2>3, <2>4 DEF Enters, InTurn
  <2>6. TurnAt(x, g, a, results, may)
    BY <2>1, <2>5 DEF TurnAt, Turns
  <2> QED BY <2>2, <2>6
<1>4. (\E quit \in IF "quit" \in may THEN {r.quit, TRUE} ELSE {r.quit} :
          run' = IF quit THEN After([r EXCEPT !.quit = TRUE], fight, -1)
                 ELSE [r EXCEPT !.pc = "acting", !.actor = c])
      => \/ "quit" \in may /\ run' = After([r EXCEPT !.quit = TRUE], fight, -1)
         \/ run' = [r EXCEPT !.pc = "acting", !.actor = c]
  OBVIOUS
<1> QED BY <1>1, <1>2, <1>3, <1>4 DEF BeginTurn

\* What there is in a fight that no script interferes with.
Fought == /\ fight.on /\ N \in Nat /\ Complete(fight.list, N)
          /\ fight.com \in Nat /\ fight.noncom \in Nat /\ fight.com <= N
          /\ fight.total = N /\ fight.com + fight.noncom <= N
          /\ \A c, d \in Critter : cid[c] = cid[d] => c = d
          /\ DOMAIN run = RunFields /\ DOMAIN results = Critter

\* The invariant of the list says so.
LEMMA FoughtIs ==
  ASSUME FightInv, Orderly(may), fight.on
  PROVE  Fought
<1>1. Full(fight, present, results, cid)
  BY DEF FightInv, FullInv, ByScripts, Orderly
<1>2. /\ fight.com \in Nat /\ fight.noncom \in Nat /\ fight.total \in Nat
      /\ fight.com + fight.noncom <= fight.total
      /\ DOMAIN run = RunFields /\ DOMAIN results = Critter
  BY DEF FightInv, Shape, Phase, TypeInv
<1>3. Complete(fight.list, N) /\ fight.total = N /\ \A c, d \in Critter : cid[c] = cid[d] => c = d
  BY <1>1 DEF Full
<1> QED BY <1>2, <1>3, NumberOfCritters DEF Fought

\* Turns that begin in the round, or when a loaded fight goes on.
LEMMA TurnsBegin ==
  ASSUME FightInv, UNCHANGED may, Orderly(may), TurnAt(run, fight, acted, results, may),
         NextTurn \/ Resume
  PROVE  TurnAt(run, fight, acted, results, may)'
<1>1. fight.on
  BY DEF FightInv, Phase, NextTurn, Resume
<1>2. Fought
  BY <1>1, FoughtIs
<1>3. /\ Once(acted) /\ (run.loaded => "reload" \in may) /\ (run.quit => "quit" \in may)
      /\ Turns(run, fight, acted, results, may)
  BY <1>1 DEF TurnAt
<1>4. CASE NextTurn
  <2> DEFINE r == [run EXCEPT !.call = "round"]
             c == fight.list[run.done + 1]
             k == run.done
             a == acted'
  <2>1. /\ k \in Nat /\ k < fight.com /\ Took(acted, First(fight, k), may)
        /\ BeginTurn(c, r) /\ UNCHANGED fight /\ a = Append(acted, c)
    BY <1>3, <1>4 DEF NextTurn, Turns
  <2>2. k < N
    BY <1>2, <2>1 DEF Fought
  <2>3. /\ First(fight, k + 1) = First(fight, k) \cup {c} /\ c \in Critter
        /\ c \notin First(fight, k)
    BY <1>2, <2>1, <2>2, FirstGrows DEF Fought
  <2>4. Once(a) /\ Took(a, First(fight, k + 1), may)
    <3> HIDE DEF c
    <3> QED BY <1>3, <2>1, <2>3, OneMoreTurn
  <2>5. /\ DOMAIN r = RunFields /\ r.call = "round" /\ r.done = k /\ r.loaded = run.loaded
        /\ r.quit = run.quit
    BY <1>2 DEF RunFields, Fought
  <2>6. c = fight.list[k + 1]
    OBVIOUS
  <2> HIDE DEF r, c, k, a
  <2>7. Enters(r, fight, a, c, results, may)
    BY <2>1, <2>4, <2>5, <2>6 DEF Enters
  <2>8. "dead" \in results[Dude] \/ \E p \in 1 .. fight.com : fight.list[p] = Dude
    BY <1>3 DEF Turns
  <2>9. TurnAt(run', fight, a, results', may)
    BY <1>2, <1>3, <2>1, <2>4, <2>5, <2>7, <2>8, TurnEnters DEF Fought
  <2> QED BY <2>1, <2>9 DEF a
<1>5. CASE Resume
  <2> DEFINE r == [run EXCEPT !.call = "resumed"]
  <2>1. run.pc = "peace" /\ BeginTurn(Dude, r) /\ UNCHANGED << fight, acted >>
    BY <1>5 DEF Resume
  <2>2. /\ DOMAIN r = RunFields /\ r.call = "resumed" /\ r.loaded = run.loaded
        /\ r.quit = run.quit
    BY <1>2 DEF RunFields, Fought
  <2> HIDE DEF r
  <2>3. Enters(r, fight, acted, Dude, results, may)
    BY <1>3, <2>1, <2>2 DEF Enters, Turns
  <2>4. "dead" \in results[Dude] \/ \E p \in 1 .. fight.com : fight.list[p] = Dude
    BY <1>3 DEF Turns
  <2>5. TurnAt(run', fight, acted, results', may)
    BY <1>2, <1>3, <2>1, <2>2, <2>3, <2>4, TurnEnters DEF Fought
  <2> QED BY <2>1, <2>5
<1> QED BY <1>4, <1>5

\* Turns that end.
LEMMA TurnsEnd ==
  ASSUME FightInv, UNCHANGED may, Orderly(may), TurnAt(run, fight, acted, results, may),
         EndByPlayer \/ EndTurn
  PROVE  TurnAt(run, fight, acted, results, may)'
<1>1. /\ DOMAIN run = RunFields /\ run.pc = "acting"
      /\ run.call \in {"round", "resumed", "joining"}
  BY DEF FightInv, Phase, EndByPlayer, EndTurn, Acting
<1>2. /\ UNCHANGED << fight, acted, results >>
      /\ \E rc : /\ run' = After(run, fight, rc)
                 /\ run.loaded /\ run.actor # Dude /\ rc = -1 => Dead(Dude)
                 /\ run.loaded /\ run.actor = Dude => rc = -1
  <2>1. CASE EndByPlayer
    BY <2>1 DEF EndByPlayer, Acting
  <2>2. CASE EndTurn
    <3>1. PICK rc \in IF run.actor = Dude /\ ~Incapacitated(Dude) THEN {0, -1} ELSE {0} :
            run' = After(run, fight,
                         IF Dead(Dude) \/ (run.loaded /\ run.actor = Dude) THEN -1 ELSE rc)
      BY <2>2 DEF EndTurn
    <3> DEFINE v == IF Dead(Dude) \/ (run.loaded /\ run.actor = Dude) THEN -1 ELSE rc
    <3>2. /\ run' = After(run, fight, v)
          /\ run.actor # Dude /\ v = -1 => Dead(Dude)
          /\ run.loaded /\ run.actor = Dude => v = -1
      BY <3>1
    <3> HIDE DEF v
    <3> QED BY <2>2, <3>2 DEF EndTurn
  <2> QED BY <2>1, <2>2
<1>3. PICK rc : /\ run' = After(run, fight, rc)
                /\ run.loaded /\ run.actor # Dude /\ rc = -1 => Dead(Dude)
                /\ run.loaded /\ run.actor = Dude => rc = -1
  BY <1>2
<1>4. Once(acted) /\ (run.loaded => "reload" \in may) /\ (run.quit => "quit" \in may)
  BY DEF TurnAt
<1>5. CASE ~fight.on
  <2>1. run'.loaded = run.loaded /\ run'.quit = run.quit
    BY <1>1, <1>3, AfterGoes DEF Goes
  <2> QED BY <1>2, <1>4, <1>5, <2>1 DEF TurnAt
<1>6. CASE fight.on
  <2>1. Fought
    BY <1>6, FoughtIs
  <2>2. InTurn(run, fight, acted, may)
        /\ ("dead" \in results[Dude] \/ \E p \in 1 .. fight.com : fight.list[p] = Dude)
    BY <1>1, <1>6 DEF TurnAt, Turns
  <2>3. Ended(run, fight, acted, results, may, rc)
    BY <1>3, <2>2 DEF Ended, InTurn, Dead
  <2>4. TurnAt(After(run, fight, rc), fight, acted, results, may)
    BY <1>1, <1>4, <2>1, <2>2, <2>3, AfterTurn DEF Fought
  <2> QED BY <1>2, <1>3, <2>4
<1> QED BY <1>5, <1>6

\* Between turns.
LEMMA TurnsPass ==
  ASSUME FightInv, UNCHANGED may, Orderly(may), TurnAt(run, fight, acted, results, may),
         RoundOver \/ StayOut
  PROVE  TurnAt(run, fight, acted, results, may)'
<1>1. fight.on /\ DOMAIN run = RunFields /\ UNCHANGED << fight, acted, results >>
  BY DEF FightInv, Phase, RoundOver, StayOut, body
<1>2. fight.com \in Nat
  BY <1>1 DEF FightInv, Shape
<1>3. \E i : run' = [run EXCEPT !.pc = "joining", !.index = i]
  <2>1. CASE RoundOver
    BY <2>1 DEF RoundOver
  <2>2. CASE StayOut
    <3>1. run.pc = "joining" /\ run' = [run EXCEPT !.index = @ + 1]
      BY <2>2 DEF StayOut
    <3> DEFINE i == run.index + 1
    <3>2. run' = [run EXCEPT !.pc = "joining", !.index = i]
      BY <1>1, <3>1 DEF RunFields
    <3> QED BY <3>2
  <2> QED BY <2>1, <2>2
<1>4. run'.pc = "joining" /\ run'.loaded = run.loaded /\ run'.quit = run.quit
  BY <1>1, <1>3 DEF RunFields
<1>5. Turns(run, fight, acted, results, may)
  BY <1>1 DEF TurnAt
<1>6. Took(acted, First(fight, fight.com), may)
  <2>1. CASE RoundOver
    BY <1>2, <1>5, <2>1 DEF RoundOver, Turns
  <2>2. CASE StayOut
    BY <1>5, <2>2 DEF StayOut, Turns
  <2> QED BY <2>1, <2>2
<1>7. Turns(run', fight, acted, results, may)
  BY <1>4, <1>5, <1>6 DEF Turns
<1> QED BY <1>1, <1>4, <1>7 DEF TurnAt

\* One joins, and begins his turn.
LEMMA JoinsTurn ==
  ASSUME FightInv, UNCHANGED may, Orderly(may), TurnAt(run, fight, acted, results, may), Join
  PROVE  TurnAt(run, fight, acted, results, may)'
<1>1. fight.on /\ run.pc = "joining" /\ run.index < fight.com + fight.noncom /\ Fields(fight)
      /\ Shape(fight)
  BY DEF FightInv, Phase, TypeInv, Join
<1>2. Fought
  BY <1>1, FoughtIs
<1>3. run.index \in Nat /\ run.index >= fight.com
  BY <1>1 DEF FightInv, Phase
<1>4. /\ Once(acted) /\ (run.loaded => "reload" \in may) /\ (run.quit => "quit" \in may)
      /\ Took(acted, First(fight, fight.com), may)
      /\ "dead" \in results[Dude] \/ \E p \in 1 .. fight.com : fight.list[p] = Dude
  BY <1>1 DEF TurnAt, Turns
<1> DEFINE i == run.index + 1
           k == fight.com
           c == fight.list[i]
           r == [run EXCEPT !.call = "joining"]
           a == acted'
<1>5. i \in Nat /\ k < i /\ i <= k + fight.noncom /\ k \in Nat /\ k < N /\ i \in 1 .. N
  BY <1>1, <1>2, <1>3 DEF Fought
<1>6. /\ fight' = Joined(fight, i) /\ MayJoin(c)
      /\ c # Dude => BeginTurn(c, r) /\ a = Append(acted, c)
  BY DEF Join
<1>7. /\ DOMAIN r = RunFields /\ r.call = "joining" /\ r.loaded = run.loaded /\ r.quit = run.quit
  BY <1>2 DEF RunFields, Fought
<1> HIDE DEF i, r, a
<1>8. c # Dude
  <2> SUFFICES ASSUME c = Dude PROVE FALSE
    OBVIOUS
  <2>1. "dead" \notin results[Dude]
    BY <1>6 DEF MayJoin, Out
  <2>2. PICK p \in 1 .. k : fight.list[p] = Dude
    BY <1>4, <2>1
  <2> HIDE DEF k
  <2>3. N \in Nat
    BY <1>2 DEF Fought
  <2>4. p \in 1 .. N /\ p # i
    BY <1>5, <2>3
  <2> QED BY <1>2, <1>5, <2>2, <2>4 DEF Fought, Complete, Holds
<1>9. OneMore(fight', fight, i)
  BY <1>1, <1>5, <1>6, JoinedShape
<1> DEFINE g == fight'
<1>10. /\ Complete(g.list, N) /\ g.com = k + 1 /\ g.list[k + 1] = c
       /\ \A p \in 1 .. k : g.list[p] = fight.list[p]
  BY <1>2, <1>9, Zenon DEF OneMore, Fought
<1> HIDE DEF c, g, k
<1>11. First(g, k) = First(fight, k)
  BY <1>10 DEF First
<1>12. First(g, k + 1) = First(g, k) \cup {c} /\ c \in Critter /\ c \notin First(g, k)
  BY <1>2, <1>5, <1>10, FirstGrows DEF Fought
<1>13. Took(acted, First(g, k), may)
  BY <1>4, <1>11 DEF k
<1>14. Once(a) /\ Took(a, First(g, g.com), may)
  <2>1. Once(Append(acted, c)) /\ Took(Append(acted, c), First(g, k) \cup {c}, may)
    <3> DEFINE S == First(g, k)
    <3>1. Took(acted, S, may) /\ c \notin S /\ c \in Critter /\ Once(acted)
      BY <1>4, <1>12, <1>13
    <3> HIDE DEF S
    <3>2. Once(Append(acted, c)) /\ Took(Append(acted, c), S \cup {c}, may)
      BY <3>1, OneMoreTurn
    <3> QED BY <3>2 DEF S
  <2>2. a = Append(acted, c) /\ First(g, g.com) = First(g, k) \cup {c}
    BY <1>6, <1>8, <1>10, <1>12
  <2> QED BY <2>1, <2>2
<1>15. Enters(r, g, a, c, results, may)
  BY <1>7, <1>14 DEF Enters
<1>16. "dead" \in results[Dude] \/ \E p \in 1 .. g.com : g.list[p] = Dude
  <2>1. 1 .. k \subseteq 1 .. g.com
    BY <1>5, <1>10
  <2> QED BY <1>4, <1>10, <2>1 DEF k
<1>17. g.com \in Nat /\ g.com <= N /\ N \in Nat
  BY <1>2, <1>5, <1>10 DEF Fought
<1>18. TurnAt(run', g, a, results', may)
  BY <1>2, <1>4, <1>6, <1>7, <1>8, <1>10, <1>14, <1>15, <1>16, <1>17, TurnEnters DEF Fought
<1> QED BY <1>18 DEF g, a

\* What leaves the turns alone, and revives no one.
LEMMA TurnsStay ==
  ASSUME UNCHANGED << may, fight, run, acted >>, TurnAt(run, fight, acted, results, may),
         "dead" \in results[Dude] => "dead" \in results'[Dude]
  PROVE  TurnAt(run, fight, acted, results, may)'
BY DEF TurnAt, Turns

\* So do the things done in a turn, and waking up.
LEMMA DeedsInTurn ==
  ASSUME FightInv, UNCHANGED may, TurnAt(run, fight, acted, results, may),
         \/ \E c, d, outcome, blamed, onlookers : Hit(c, d, outcome, blamed, onlookers)
         \/ \E c, how : GivesUp(c, how)
         \/ \E c : WakeUp(c)
  PROVE  TurnAt(run, fight, acted, results, may)'
<1>1. DOMAIN results = Critter /\ Dude \in Critter
  BY CombatAssumption DEF FightInv, TypeInv
<1>2. /\ UNCHANGED << fight, run, acted >>
      /\ \/ UNCHANGED results
         \/ \E d, o : results' = [results EXCEPT ![d] = @ \cup o]
         \/ \E c : results' = [results EXCEPT ![c] = @ \ {"ko"}]
  <2>1. ASSUME NEW c, NEW d, NEW outcome, NEW blamed, NEW onlookers,
               Hit(c, d, outcome, blamed, onlookers)
        PROVE  /\ UNCHANGED << fight, run, acted >>
               /\ results' = [results EXCEPT ![d] = @ \cup ({outcome} \ {"miss", "hurt"})]
    BY <2>1 DEF Hit
  <2>2. ASSUME NEW c, NEW how, GivesUp(c, how)
        PROVE  UNCHANGED << fight, run, acted, results >>
    BY <2>2 DEF GivesUp
  <2>3. ASSUME NEW c, WakeUp(c)
        PROVE  /\ UNCHANGED << fight, run, acted >>
               /\ results' = [results EXCEPT ![c] = @ \ {"ko"}]
    BY <2>3 DEF WakeUp
  <2> QED BY <2>1, <2>2, <2>3
<1>3. "dead" \in results[Dude] => "dead" \in results'[Dude]
  BY <1>1, <1>2
<1> QED BY <1>2, <1>3, TurnsStay

\* combat() is left.
LEMMA TurnsOver ==
  ASSUME FightInv, UNCHANGED may, TurnAt(run, fight, acted, results, may), Over
  PROVE  TurnAt(run, fight, acted, results, may)'
<1>1. run.pc = "over" /\ run' = AtPeace
  BY DEF Over
<1>2. run'.pc = "peace" /\ ~run'.loaded /\ ~run'.quit
  BY <1>1 DEF AtPeace
<1>3. CASE run.loaded
  <2>1. UNCHANGED << fight, acted, results >>
    BY <1>3 DEF Over
  <2>2. Turns(run, fight, acted, results, may) => Turns(run', fight, acted, results, may)
    BY <1>1, <1>2, <1>3 DEF Turns
  <2> QED BY <1>2, <2>1, <2>2 DEF TurnAt
<1>4. CASE ~run.loaded
  <2>1. fight' = [fight EXCEPT !.on = FALSE, !.list = << >>, !.total = 0] /\ acted' = << >>
    BY <1>4 DEF Over
  <2>2. Once(acted')
    BY <2>1, NoTurnYet
  <2>3. ~fight'.on
    BY <2>1 DEF FightInv, TypeInv, Fields
  <2> QED BY <1>2, <2>2, <2>3 DEF TurnAt
<1> QED BY <1>3, <1>4

\* A fight begins.
LEMMA TurnsStart ==
  ASSUME FightInv, UNCHANGED may, may \in Settings, NEW order \in Orders(present),
         NEW a \in present \cup {Nobody}, NEW d \in present \cup {Nobody}, a # d \/ a = Nobody,
         Start(order, a, d)
  PROVE  TurnAt(run, fight, acted, results, may)'
<1>1. fight'.on /\ fight'.com \in Nat /\ Dude \in Combatants(fight')
  BY StartStep
<1>2. run' = [AtPeace EXCEPT !.pc = "round"] /\ acted' = << >>
  BY DEF Start
<1>3. run'.pc = "round" /\ run'.done = 0 /\ ~run'.loaded /\ ~run'.quit
  BY <1>2 DEF AtPeace
<1>4. Once(acted') /\ Took(acted', First(fight', 0), may)
  BY <1>2, NoTurnYet
<1>5. \E p \in 1 .. fight'.com : fight'.list[p] = Dude
  BY <1>1 DEF Combatants
<1>6. Turns(run', fight', acted', results', may)
  BY <1>1, <1>3, <1>4, <1>5 DEF Turns
<1> QED BY <1>3, <1>4, <1>6 DEF TurnAt

\* A round ends: no one has had a turn of the next, and the player, if he lives,
\* is still a combatant.
LEMMA TurnsSequenced ==
  ASSUME FightInv, UNCHANGED may, Orderly(may), TurnAt(run, fight, acted, results, may),
         NEW awake, Sequence(awake)
  PROVE  TurnAt(run, fight, acted, results, may)'
<1>1. fight.on /\ Fields(fight) /\ Shape(fight) /\ run.pc = "joining" /\ DOMAIN run = RunFields
  BY RoundEnds
<1>2. PICK o \in Sortings(Rested(Buried(fight))) :
        /\ fight' = Arranged(fight, o)
        /\ run' = [run EXCEPT !.pc = IF ShouldEnd(Arranged(fight, o)) THEN "over" ELSE "round",
                              !.done = 0]
  BY RoundEnds
<1>3. Fought
  BY <1>1, FoughtIs
<1>4. InOrderOf(fight', fight)
  BY <1>1, <1>2, ArrangedIs
<1>5. /\ fight'.com \in Nat
      /\ \A p \in 1 .. fight.com : ~Dead(fight.list[p]) /\ ~DropsOut(fight.list[p]) =>
                                     \E q \in 1 .. fight'.com : fight'.list[q] = fight.list[p]
  BY <1>3, <1>4, Zenon DEF InOrderOf, Fought
<1>6. /\ run'.pc \in {"over", "round"} /\ run'.done = 0 /\ run'.loaded = run.loaded
      /\ run'.quit = run.quit
  BY <1>1, <1>2 DEF RunFields
<1>7. acted' = << >> /\ ("dead" \in results[Dude] => "dead" \in results'[Dude])
  <2>1. Dude \in Critter
    BY CombatAssumption
  <2> QED BY <2>1 DEF Sequence
<1>8. /\ Once(acted') /\ Took(acted', First(fight', 0), may)
      /\ "reload" \in may => \A S : Took(acted', S, may)
  BY <1>7, NoTurnYet
<1>9. /\ run.loaded => "reload" \in may
      /\ run.quit => "quit" \in may
      /\ "dead" \in results[Dude] \/ \E p \in 1 .. fight.com : fight.list[p] = Dude
  BY <1>1 DEF TurnAt, Turns
<1>10. "dead" \in results'[Dude] \/ \E q \in 1 .. fight'.com : fight'.list[q] = Dude
  BY <1>5, <1>7, <1>9 DEF Dead, DropsOut
<1>11. run'.loaded => "dead" \in results'[Dude] \/ HisTurn(fight', acted', may)
  BY <1>6, <1>8, <1>9, <1>10 DEF HisTurn
<1>12. Turns(run', fight', acted', results', may)
  BY <1>5, <1>6, <1>8, <1>10, <1>11 DEF Turns
<1> QED BY <1>6, <1>8, <1>9, <1>12 DEF TurnAt

\* A game is saved: those that have had their turn are known by their numbers.
LEMMA TurnsSaved ==
  ASSUME FightInv, UNCHANGED may, Orderly(may), TurnAt(run, fight, acted, results, may), Save
  PROVE  TurnAt(run, fight, acted, results, may)' /\ SavedTurn(saved', may)
<1>1. /\ UNCHANGED << fight, run, acted, results >>
      /\ saved'.results = results /\ saved'.cid = cid /\ saved'.acted = acted
      /\ saved'.on = fight.on /\ saved'.com = fight.com
      /\ saved'.cids = [i \in 1 .. fight.total |-> cid[fight.list[i]]]
  BY DEF Save, body
<1>2. TurnAt(run, fight, acted, results, may)'
  BY <1>1, TurnsStay
<1>3. Once(acted)
  BY DEF TurnAt
<1>4. ASSUME fight.on
      PROVE  /\ "dead" \notin saved'.results[Dude]
             /\ \A c, d \in Critter : saved'.cid[c] = saved'.cid[d] => c = d
             /\ \E p \in 1 .. saved'.com :
                  /\ saved'.cids[p] = saved'.cid[Dude]
                  /\ Took(saved'.acted,
                          {c \in Critter : \E i \in 1 .. p : saved'.cid[c] = saved'.cids[i]}, may)
  <2>1. Fought
    BY <1>4, FoughtIs
  <2>2. Acting(Dude)
    BY <1>4 DEF Save
  <2>3. run.pc = "acting" /\ run.actor = Dude /\ "dead" \notin results[Dude]
    BY <2>2 DEF Acting, Incapacitated
  <2>4. HisTurn(fight, acted, may)
    <3>1. run.call # "joining"
      BY <2>3 DEF FightInv, Phase
    <3> QED BY <1>4, <2>3, <3>1 DEF TurnAt, Turns, InTurn
  <2>5. PICK p \in 1 .. fight.com : fight.list[p] = Dude /\ Took(acted, First(fight, p), may)
    BY <2>4 DEF HisTurn
  <2> DEFINE l == fight.list
             n == N
             num == saved'.cid
  <2>6. /\ n \in Nat /\ p \in 1 .. n /\ \A i \in 1 .. n : l[i] \in Critter
        /\ \A c, d \in Critter : num[c] = num[d] => c = d
        /\ \A i \in 1 .. n : saved'.cids[i] = num[l[i]]
    <3>1. \A i \in 1 .. N : l[i] \in Critter
      BY <2>1 DEF Fought, Complete, Holds
    <3>2. N \in Nat /\ fight.com \in Nat /\ fight.com <= N /\ fight.total = N
          /\ \A c, d \in Critter : cid[c] = cid[d] => c = d
      BY <2>1 DEF Fought
    <3>3. p \in 1 .. N
      <4> DEFINE k == fight.com
      <4>1. k \in Nat /\ k <= n /\ p \in 1 .. k /\ n \in Nat
        BY <3>2
      <4> HIDE DEF k, n
      <4>2. p \in 1 .. n
        BY <4>1
      <4> QED BY <4>2 DEF n
    <3> QED BY <1>1, <3>1, <3>2, <3>3
  <2> HIDE DEF n, num
  <2>7. \A i \in 1 .. p : i \in 1 .. n
    BY <2>6
  <2>8. {c \in Critter : \E i \in 1 .. p : num[c] = saved'.cids[i]} = First(fight, p)
    <3>1. ASSUME NEW c \in Critter, NEW i \in 1 .. p, num[c] = saved'.cids[i]
          PROVE  c \in First(fight, p)
      <4>1. c = l[i]
        BY <2>6, <2>7, <3>1
      <4> QED BY <4>1 DEF First
    <3>2. ASSUME NEW i \in 1 .. p PROVE l[i] \in Critter /\ num[l[i]] = saved'.cids[i]
      BY <2>6, <2>7
    <3> QED BY <3>1, <3>2 DEF First
  <2>9. saved'.cids[p] = num[Dude]
    BY <2>5, <2>6
  <2>10. Took(saved'.acted, {c \in Critter : \E i \in 1 .. p : num[c] = saved'.cids[i]}, may)
    BY <1>1, <2>5, <2>8
  <2>11. p \in 1 .. saved'.com /\ "dead" \notin saved'.results[Dude]
    BY <1>1, <2>3
  <2> QED BY <2>6, <2>9, <2>10, <2>11 DEF num
<1>5. SavedTurn(saved', may)
  <2> DEFINE s == saved'
  <2>1. Once(s.acted) /\ (s.on => fight.on)
    BY <1>1, <1>3
  <2>2. SavedTurn(s, may)
    BY <1>4, <2>1, Zenon DEF SavedTurn
  <2> QED BY <2>2
<1> QED BY <1>2, <1>5

\* A game is loaded: the fight goes on after the player's place.
LEMMA TurnsLoaded ==
  ASSUME FightInv, UNCHANGED may, may \in Settings, Orderly(may),
         TurnAt(run, fight, acted, results, may), saved # NoGame, SavedTurn(saved, may),
         NEW order \in Orders(saved.present), Load(order)
  PROVE  TurnAt(run, fight, acted, results, may)'
<1>1. /\ SavedShape(saved) /\ saved.present = Critter /\ Fields(fight) /\ Phase(run, fight, Reload)
  BY DEF FightInv, TypeInv, FullInv, SavedFull, ByScripts, Orderly
<1>2. /\ results' = saved.results /\ acted' = saved.acted
      /\ \/ run' = AtPeace
         \/ Reload /\ Acting(Dude) /\ run' = [run EXCEPT !.loaded = TRUE]
  BY DEF Load, Reload
<1>3. Once(acted')
  BY <1>2 DEF SavedTurn
<1>4. \/ run'.pc = "peace" /\ ~run'.loaded /\ ~run'.quit
      \/ /\ run'.pc = "acting" /\ run'.actor = Dude /\ run'.call \in {"round", "resumed"}
         /\ run'.loaded /\ Reload /\ run'.quit = run.quit
  <2>1. CASE run' = AtPeace
    BY <2>1 DEF AtPeace
  <2>2. CASE Reload /\ Acting(Dude) /\ run' = [run EXCEPT !.loaded = TRUE]
    <3>1. run.pc = "acting" /\ run.actor = Dude
      BY <2>2 DEF Acting
    <3>2. DOMAIN run = RunFields /\ run.call \in {"round", "resumed"}
      BY <1>1, <3>1 DEF Phase
    <3> QED BY <2>2, <3>1, <3>2 DEF RunFields
  <2> QED BY <1>2, <2>1, <2>2
<1>5. (run'.loaded => "reload" \in may) /\ (run'.quit => "quit" \in may)
  BY <1>4 DEF Reload, TurnAt
<1>6. ASSUME fight'.on PROVE Turns(run', fight', acted', results', may)
  <2>1. saved.on
    <3> SUFFICES ASSUME ~saved.on PROVE FALSE
      OBVIOUS
    <3>1. fight' = [fight EXCEPT !.on = FALSE, !.list = << >>, !.total = 0]
      BY DEF Load
    <3> QED BY <1>1, <1>6, <3>1 DEF Fields
  <2> DEFINE l == fight'.list
             n == saved.total
             num == saved.cid
             com == fight'.com
  <2>2. /\ com = saved.com /\ n \in Nat /\ Holds(l, n, Critter)
        /\ \A i \in 1 .. n : num[l[i]] = saved.cids[i]
    BY <1>1, <2>1, LoadedIs
  <2>3. /\ "dead" \notin saved.results[Dude]
        /\ \A c, d \in Critter : num[c] = num[d] => c = d
    BY <2>1, Zenon DEF SavedTurn
  <2>4. \E p \in 1 .. saved.com :
          /\ saved.cids[p] = num[Dude]
          /\ Took(saved.acted, {c \in Critter : \E i \in 1 .. p : num[c] = saved.cids[i]}, may)
    BY <2>1, Zenon DEF SavedTurn
  <2>5. saved.com \in Nat /\ saved.com <= n
    BY <1>1, <2>1 DEF SavedShape
  <2>6. \A i \in 1 .. n : l[i] \in Critter
    BY <2>2 DEF Holds
  <2> HIDE DEF l, n, num, com
  <2>7. PICK p \in 1 .. saved.com :
          /\ saved.cids[p] = num[Dude]
          /\ Took(saved.acted, {c \in Critter : \E i \in 1 .. p : num[c] = saved.cids[i]}, may)
    BY <2>4
  <2>8. p \in 1 .. n /\ p \in 1 .. com /\ \A i \in 1 .. p : i \in 1 .. n
    BY <2>2, <2>5
  <2>9. l[p] = Dude
    <3>1. Dude \in Critter
      BY CombatAssumption
    <3> QED BY <2>2, <2>3, <2>6, <2>7, <2>8, <3>1
  <2>10. {c \in Critter : \E i \in 1 .. p : num[c] = saved.cids[i]} = First(fight', p)
    <3>1. ASSUME NEW c \in Critter, NEW i \in 1 .. p, num[c] = saved.cids[i]
          PROVE  c \in First(fight', p)
      <4>1. c = l[i]
        BY <2>2, <2>3, <2>6, <2>8, <3>1
      <4> QED BY <4>1 DEF First, l
    <3>2. ASSUME NEW i \in 1 .. p PROVE l[i] \in Critter /\ num[l[i]] = saved.cids[i]
      BY <2>2, <2>6, <2>8
    <3> QED BY <3>1, <3>2 DEF First, l
  <2>11. HisTurn(fight', acted', may)
    BY <1>2, <2>7, <2>8, <2>9, <2>10 DEF HisTurn, l, com
  <2>12. \E q \in 1 .. fight'.com : fight'.list[q] = Dude
    BY <2>8, <2>9 DEF l, com
  <2>13. CASE run'.pc = "peace"
    BY <2>11, <2>12, <2>13 DEF Turns
  <2>14. CASE /\ run'.pc = "acting" /\ run'.actor = Dude /\ run'.call \in {"round", "resumed"}
              /\ run'.loaded
    <3>1. InTurn(run', fight', acted', may)
      BY <2>11, <2>14 DEF InTurn
    <3> QED BY <2>12, <2>14, <3>1 DEF Turns
  <2> QED BY <1>4, <2>13, <2>14
<1> QED BY <1>3, <1>5, <1>6 DEF TurnAt

\* It holds before the first fight.
LEMMA TurnInit == Init => TurnInv
<1> SUFFICES ASSUME Init PROVE TurnInv
  OBVIOUS
<1>1. ~fight.on /\ ~run.loaded /\ ~run.quit /\ acted = << >> /\ saved = NoGame
  BY DEF Init, NoFight, AtPeace
<1>2. Once(acted)
  BY <1>1, NoTurnYet
<1> QED BY <1>1, <1>2 DEF TurnInv, TurnAt

\* Every step keeps it, together with the invariant of the list.
LEMMA TurnNext == IInv /\ TurnInv /\ [Next]_vars => TurnInv'
<1> SUFFICES ASSUME IInv, TurnInv, [Next]_vars PROVE TurnInv'
  OBVIOUS
<1>0. may' = may
  BY DEF Next, vars
<1> SUFFICES ASSUME Orderly(may)
             PROVE  TurnAt(run, fight, acted, results, may)'
                    /\ (saved # NoGame => SavedTurn(saved, may))'
  BY <1>0 DEF TurnInv
<1>1. /\ FightInv /\ may \in Settings /\ UNCHANGED may
      /\ TurnAt(run, fight, acted, results, may) /\ (saved # NoGame => SavedTurn(saved, may))
  BY DEF IInv, Undisturbed, ByScripts, Orderly, TurnInv, Next, vars
<1>2. CASE UNCHANGED vars
  <2>1. UNCHANGED << may, fight, run, acted, saved, results >>
    BY <1>2 DEF vars, body
  <2> QED BY <1>1, <2>1, TurnsStay
<1>3. CASE Move
  <2>1. CASE Save
    <3>1. TurnAt(run, fight, acted, results, may)' /\ SavedTurn(saved', may)
      BY <1>1, <2>1, TurnsSaved
    <3> QED BY <1>1, <3>1
  <2>2. CASE /\ NextTurn \/ RoundOver \/ Resume \/ EndByPlayer \/ EndTurn \/ Join \/ StayOut
    <3>1. UNCHANGED saved
      BY <2>2 DEF NextTurn, RoundOver, Resume, EndByPlayer, EndTurn, Join, StayOut
    <3>2. TurnAt(run, fight, acted, results, may)'
      BY <1>1, <2>2, TurnsBegin, TurnsEnd, TurnsPass, JoinsTurn
    <3> QED BY <1>1, <3>1, <3>2
  <2>3. CASE Over
    <3>1. UNCHANGED saved
      BY <2>3 DEF Over
    <3>2. TurnAt(run, fight, acted, results, may)'
      BY <1>1, <2>3, TurnsOver
    <3> QED BY <1>1, <3>1, <3>2
  <2>4. ASSUME NEW order \in Orders(present),
               NEW a \in present \cup {Nobody}, NEW d \in present \cup {Nobody},
               a # d \/ a = Nobody, Start(order, a, d)
        PROVE  TurnAt(run, fight, acted, results, may)' /\ (saved # NoGame => SavedTurn(saved, may))'
    <3>1. UNCHANGED saved
      BY <2>4 DEF Start
    <3>2. TurnAt(run, fight, acted, results, may)'
      BY <1>1, <2>4, TurnsStart
    <3> QED BY <1>1, <3>1, <3>2
  <2>5. ASSUME NEW order \in Orders(present), NEW a \in Alive, NEW d \in Alive, a # d,
               Start(order, a, d)
        PROVE  TurnAt(run, fight, acted, results, may)' /\ (saved # NoGame => SavedTurn(saved, may))'
    <3>1. a \in present \cup {Nobody} /\ d \in present \cup {Nobody}
      BY DEF Alive
    <3> QED BY <2>4, <2>5, <3>1
  <2>6. CASE \/ \E c, d, outcome, blamed, onlookers : Hit(c, d, outcome, blamed, onlookers)
             \/ \E c, how : GivesUp(c, how)
             \/ \E c : WakeUp(c)
    <3>1. UNCHANGED saved
      BY <2>6 DEF Hit, GivesUp, WakeUp
    <3>2. TurnAt(run, fight, acted, results, may)'
      BY <1>1, <2>6, DeedsInTurn
    <3> QED BY <1>1, <3>1, <3>2
  <2>7. CASE \/ \E c \in Critter : \E how : Vanishes(c, how)
             \/ \E c \in Critter : Appears(c)
    BY <2>7 DEF Vanishes, Appears, Orderly
  <2>8. ASSUME NEW awake, Sequence(awake)
        PROVE  TurnAt(run, fight, acted, results, may)' /\ (saved # NoGame => SavedTurn(saved, may))'
    <3>1. UNCHANGED saved
      BY <2>8 DEF Sequence
    <3>2. TurnAt(run, fight, acted, results, may)'
      BY <1>1, <2>8, TurnsSequenced
    <3> QED BY <1>1, <3>1, <3>2
  <2>9. ASSUME saved # NoGame, NEW order \in Orders(saved.present), Load(order)
        PROVE  TurnAt(run, fight, acted, results, may)' /\ (saved # NoGame => SavedTurn(saved, may))'
    <3>1. UNCHANGED saved
      BY <2>9 DEF Load
    <3>2. TurnAt(run, fight, acted, results, may)'
      BY <1>1, <2>9, TurnsLoaded
    <3> QED BY <1>1, <3>1, <3>2
  <2>10. Nobody \in present \cup {Nobody}
    OBVIOUS
  <2> QED BY <1>3, <2>1, <2>2, <2>3, <2>4, <2>5, <2>6, <2>7, <2>8, <2>9, <2>10 DEF Move
<1> QED BY <1>2, <1>3 DEF Next

\* What the invariants say of the turns.
LEMMA TurnsAre ==
  ASSUME IInv, TurnInv, Orderly(may)
  PROVE  /\ \A i, j \in DOMAIN acted : acted[i] = acted[j] => i = j
         /\ run.pc = "joining" /\ "reload" \notin may =>
              {acted[i] : i \in DOMAIN acted} = Combatants(fight)
<1>1. TurnAt(run, fight, acted, results, may) /\ FightInv
  BY DEF IInv, Undisturbed, ByScripts, Orderly, TurnInv
<1>2. ASSUME run.pc = "joining", "reload" \notin may
      PROVE  {acted[i] : i \in DOMAIN acted} = Combatants(fight)
  <2>1. fight.on
    BY <1>1, <1>2 DEF FightInv, Phase
  <2>2. Took(acted, First(fight, fight.com), may)
    BY <1>1, <1>2, <2>1 DEF TurnAt, Turns
  <2>3. Range(acted) = First(fight, fight.com)
    BY <1>2, <2>2 DEF Took
  <2> QED BY <2>3 DEF Range, First, Combatants
<1> QED BY <1>1, <1>2 DEF TurnAt, Once

\* Unless a script can end a fight that a game is loaded over, no critter takes two
\* turns in a round, those counted that they take when they join and those of a
\* round that was saved and loaded (combat, combat_add_noncoms, combat_load).
\* Otherwise one could break off a round of the loaded fight while combat() of the
\* fight it was loaded over still runs: the fight is then not over, and goes on at the
\* player's place, though others have had their turn.
THEOREM NoTurnTwice ==
  ASSUME \A s \in Settings : "reload" \in s => "quit" \notin s
  PROVE  Spec => []NobodyActsTwice
<1>1. Spec => []IInv
  BY InitInv, NextInv, PTL DEF Spec
<1>2. Spec => []TurnInv
  BY <1>1, TurnInit, TurnNext, PTL DEF Spec
<1>3. IInv /\ TurnInv => NobodyActsTwice
  <2> SUFFICES ASSUME IInv, TurnInv, ~ByScripts
               PROVE  \A i, j \in DOMAIN acted : acted[i] = acted[j] => i = j
    BY DEF NobodyActsTwice
  <2>1. Orderly(may)
    BY DEF IInv, Orderly, ByScripts
  <2> QED BY <2>1, TurnsAre
<1> QED BY <1>1, <1>2, <1>3, PTL

\* At the end of a round all combatants and no others have had their turn, also
\* when the round was interrupted by saving and loading; however the fight goes,
\* if no script interferes and no game is loaded over it (combat).
THEOREM EveryoneHasATurn == Spec => []NobodyPassedOver
<1>1. Spec => []IInv
  BY InitInv, NextInv, PTL DEF Spec
<1>2. Spec => []TurnInv
  BY <1>1, TurnInit, TurnNext, PTL DEF Spec
<1>3. IInv /\ TurnInv => NobodyPassedOver
  <2> SUFFICES ASSUME IInv, TurnInv, run.pc = "joining", ~ByScripts, "reload" \notin may
               PROVE  {acted[i] : i \in DOMAIN acted} = Combatants(fight)
    BY DEF NobodyPassedOver
  <2>1. Orderly(may)
    BY DEF Orderly, ByScripts
  <2> QED BY <2>1, TurnsAre
<1> QED BY <1>1, <1>2, <1>3, PTL

-----------------------------------------------------------------------------
(* Who was hit by whom.                                                    *)

\* In a saved fight, whoever was hit was hit by a critter with a number.
HitsKnown(s) ==
  s.on => \A c \in Critter : s.hitCid[c] = -1 \/ \E d \in Critter : s.cid[d] = s.hitCid[c]

\* A turn is a critter's, and in a round there is a place where it goes on.
Someone(r) ==
  /\ r.pc = "acting" => r.actor \in Critter
  /\ r.pc = "round" \/ (r.pc = "acting" /\ r.call = "round") => r.done \in Nat

\* Whoever was hit was hit by a critter.
HitInv == ~ByScripts =>
  /\ DOMAIN whoHitMe = Critter /\ \A c \in Critter : whoHitMe[c] \in Critter \cup {Nobody}
  /\ Someone(run)
  /\ saved # NoGame => HitsKnown(saved)

\* After a turn.
LEMMA SomeoneAfter ==
  ASSUME NEW r, NEW f, NEW rc, DOMAIN r = RunFields, r.call \in {"round", "resumed", "joining"},
         r.call = "round" => r.done \in Nat,
         r.call = "resumed" /\ rc # -1 => PlaceOf(f.list, Dude) \in Nat
  PROVE  Someone(After(r, f, rc))
<1> DEFINE x == After(r, f, rc)
<1>1. Goes(x, r, f, rc)
  BY AfterGoes
<1> HIDE DEF x
<1>2. Someone(x)
  BY <1>1 DEF Goes, Someone
<1> QED BY <1>2 DEF x

\* A critter's turn that begins.
LEMMA SomeoneBegins ==
  ASSUME NEW c \in Critter, NEW r, BeginTurn(c, r), DOMAIN r = RunFields,
         r.call \in {"round", "resumed", "joining"}, r.call = "round" => r.done \in Nat,
         r.call = "resumed" => PlaceOf(fight.list, Dude) \in Nat
  PROVE  Someone(run')
<1>1. \/ run' = After(r, fight, IF Dead(Dude) THEN -1 ELSE 0)
      \/ run' = After([r EXCEPT !.quit = TRUE], fight, -1)
      \/ run' = [r EXCEPT !.pc = "acting", !.actor = c]
  BY DEF BeginTurn
<1>2. CASE run' = After(r, fight, IF Dead(Dude) THEN -1 ELSE 0)
  BY <1>2, SomeoneAfter
<1>3. CASE run' = After([r EXCEPT !.quit = TRUE], fight, -1)
  <2> DEFINE q == [r EXCEPT !.quit = TRUE]
  <2>1. DOMAIN q = RunFields /\ q.call = r.call /\ q.done = r.done
    BY DEF RunFields
  <2>2. run' = After(q, fight, -1)
    BY <1>3
  <2> HIDE DEF q
  <2>3. Someone(After(q, fight, -1))
    BY <2>1, SomeoneAfter
  <2> QED BY <2>2, <2>3
<1>4. CASE run' = [r EXCEPT !.pc = "acting", !.actor = c]
  <2>1. run'.actor = c /\ run'.pc = "acting" /\ run'.call = r.call /\ run'.done = r.done
    BY <1>4 DEF RunFields
  <2> QED BY <2>1 DEF Someone
<1> QED BY <1>1, <1>2, <1>3, <1>4

\* The steps that change whose turn it is.
LEMMA SomeoneNext ==
  ASSUME FightInv, ~ByScripts, UNCHANGED may, Someone(run),
         NextTurn \/ Resume \/ EndByPlayer \/ EndTurn \/ Join
  PROVE  Someone(run')
<1>1. DOMAIN run = RunFields /\ (run.pc # "acting" \/ run.call \in {"round", "resumed", "joining"})
  BY DEF FightInv, Phase
<1>2. Dude \in Critter
  BY CombatAssumption
<1>3. ASSUME fight.on
      PROVE  /\ fight.com \in Nat /\ fight.noncom \in Nat /\ fight.com + fight.noncom <= N
             /\ N \in Nat /\ \A i \in 1 .. N : fight.list[i] \in Critter
             /\ PlaceOf(fight.list, Dude) \in Nat
  <2>1. Complete(fight.list, N) /\ fight.total = N
    BY <1>3 DEF FightInv, FullInv, Full
  <2> DEFINE l == fight.list
  <2>2. l \in Listing(N) /\ \E i \in 1 .. N : l[i] = Dude
    BY <1>2, <2>1 DEF Complete, Holds
  <2> HIDE DEF l
  <2>3. PlaceOf(l, Dude) \in 1 .. N
    BY <2>2, NumberOfCritters, PlaceIsThere
  <2>4. PlaceOf(fight.list, Dude) \in Nat
    BY <2>3 DEF l
  <2> QED BY <1>3, <2>1, <2>4, NumberOfCritters DEF FightInv, Shape, Complete, Holds
<1>4. CASE NextTurn
  <2> DEFINE r == [run EXCEPT !.call = "round"]
             i == run.done + 1
             c == fight.list[i]
  <2>1. BeginTurn(c, r) /\ fight.on /\ run.done \in Nat /\ run.done < fight.com
    BY <1>4 DEF NextTurn, FightInv, Phase, Someone
  <2>2. DOMAIN r = RunFields /\ r.call = "round" /\ r.done = run.done
    BY <1>1 DEF RunFields
  <2>3. i \in 1 .. N
    <3> DEFINE n == N
    <3>1. n \in Nat /\ fight.com <= n /\ fight.com \in Nat
      BY <1>3, <2>1
    <3> HIDE DEF n
    <3>2. i \in 1 .. n
      BY <2>1, <3>1
    <3> QED BY <3>2 DEF n
  <2>4. c \in Critter
    BY <1>3, <2>1, <2>3
  <2> HIDE DEF r, c
  <2> QED BY <2>1, <2>2, <2>4, SomeoneBegins
<1>5. CASE Resume
  <2> DEFINE r == [run EXCEPT !.call = "resumed"]
  <2>1. BeginTurn(Dude, r) /\ fight.on
    BY <1>5 DEF Resume
  <2>2. DOMAIN r = RunFields /\ r.call = "resumed"
    BY <1>1 DEF RunFields
  <2> HIDE DEF r
  <2> QED BY <1>2, <1>3, <2>1, <2>2, SomeoneBegins
<1>6. CASE Join
  <2>1. fight.on /\ run.pc = "joining" /\ run.index < fight.com + fight.noncom
    BY <1>6 DEF Join, FightInv, Phase
  <2> DEFINE r == [run EXCEPT !.call = "joining"]
             i == run.index + 1
             c == fight.list[i]
  <2>2. BeginTurn(c, r) \/ \E j : run' = [run EXCEPT !.index = j]
    BY <1>6 DEF Join
  <2>3. DOMAIN r = RunFields /\ r.call = "joining"
    BY <1>1 DEF RunFields
  <2>4. i \in 1 .. N
    <3> DEFINE n == N
    <3>1. /\ n \in Nat /\ fight.com + fight.noncom <= n /\ fight.com \in Nat /\ fight.noncom \in Nat
          /\ run.index \in Nat /\ run.index < fight.com + fight.noncom
      BY <1>3, <2>1 DEF FightInv, Phase
    <3> HIDE DEF n
    <3>2. i \in 1 .. n
      BY <3>1
    <3> QED BY <3>2 DEF n
  <2>5. c \in Critter
    BY <1>3, <2>1, <2>4
  <2> HIDE DEF r, c
  <2>6. CASE BeginTurn(c, r)
    BY <2>3, <2>5, <2>6, SomeoneBegins
  <2>7. CASE \E j : run' = [run EXCEPT !.index = j]
    BY <1>1, <2>1, <2>7 DEF RunFields, Someone
  <2> QED BY <2>2, <2>6, <2>7
<1>7. CASE EndByPlayer \/ EndTurn
  <2>1. run.pc = "acting" /\ \E rc : run' = After(run, fight, rc) /\ (~fight.on => rc = -1)
    <3>1. run.pc = "acting" /\ (~fight.on => run.loaded /\ run.actor = Dude)
      BY <1>7 DEF EndByPlayer, EndTurn, Acting, FightInv, Phase
    <3>2. CASE EndByPlayer
      BY <3>1, <3>2 DEF EndByPlayer
    <3>3. CASE EndTurn
      <4>1. PICK rc : run' = After(run, fight,
                         IF Dead(Dude) \/ (run.loaded /\ run.actor = Dude) THEN -1 ELSE rc)
        BY <3>3 DEF EndTurn
      <4> DEFINE v == IF Dead(Dude) \/ (run.loaded /\ run.actor = Dude) THEN -1 ELSE rc
      <4>2. run' = After(run, fight, v) /\ (run.loaded /\ run.actor = Dude => v = -1)
        BY <4>1
      <4> HIDE DEF v
      <4> QED BY <3>1, <4>2
    <3> QED BY <1>7, <3>1, <3>2, <3>3
  <2>2. run.call = "round" => run.done \in Nat
    BY <2>1 DEF Someone
  <2>3. PICK rc : run' = After(run, fight, rc) /\ (~fight.on => rc = -1)
    BY <2>1
  <2>4. Someone(After(run, fight, rc))
    BY <1>1, <1>3, <2>1, <2>2, <2>3, SomeoneAfter
  <2> QED BY <2>3, <2>4
<1> QED BY <1>4, <1>5, <1>6, <1>7

\* The one found by a saved number, in a list that holds all critters.
LEMMA HitByFinds ==
  ASSUME NEW s, NEW order, order \in Seq(Critter), Holds(order, Len(order), Critter),
         NEW c \in Critter
  PROVE  /\ HitBy(s, c, order) \in Critter \cup {Nobody}
         /\ HitsKnown(s) /\ s.on /\ c # Dude =>
              s.hitCid[c] = IF HitBy(s, c, order) = Nobody THEN -1 ELSE s.cid[HitBy(s, c, order)]
<1> DEFINE n == Len(order)
           q == s.hitCid[c]
           num == s.cid
           j == FindCid(1, q, order, num)
           h == HitBy(s, c, order)
<1>1. n \in Nat /\ order \in Listing(n) /\ \A d \in Critter : \E i \in 1 .. n : order[i] = d
  BY DEF Holds
<1>2. h = IF q = -1 \/ c = Dude \/ j > n THEN Nobody ELSE order[j]
  BY DEF HitBy
<1> HIDE DEF n, q, num, h
<1>3. /\ j \in Nat \ {0} /\ (j <= n => num[order[j]] = q)
      /\ \A i \in 1 .. n : num[order[i]] = q => j <= i
  BY <1>1, FindCidFinds
<1> HIDE DEF j
<1>4. ~(j > n) => j \in 1 .. n /\ order[j] \in Critter /\ order[j] # Nobody /\ num[order[j]] = q
  <2>1. ~(j > n) => j \in 1 .. n
    BY <1>1, <1>3
  <2> QED BY <1>1, <1>3, <2>1, CombatAssumption DEF Listing
<1>5. h \in Critter \cup {Nobody}
  BY <1>2, <1>4
<1>6. ASSUME HitsKnown(s), s.on, c # Dude
      PROVE  q = IF h = Nobody THEN -1 ELSE num[h]
  <2>1. CASE q = -1
    BY <1>2, <2>1
  <2>2. CASE q # -1
    <3>1. PICK d \in Critter : num[d] = q
      BY <1>6, <2>2 DEF HitsKnown, num, q
    <3>2. PICK i \in 1 .. n : order[i] = d
      BY <1>1
    <3>3. j <= i
      BY <1>3, <3>1, <3>2
    <3>4. ~(j > n)
      BY <1>1, <1>3, <3>3
    <3> QED BY <1>2, <1>4, <1>6, <2>2, <3>4
  <2> QED BY <2>1, <2>2
<1> QED BY <1>5, <1>6 DEF q, num, h

\* The critters in the order of a map's tiles, in a game without scripts.
LEMMA AllInOrder ==
  ASSUME may \in Settings, NEW order \in Orders(Critter)
  PROVE  order \in Seq(Critter) /\ Holds(order, Len(order), Critter)
<1>1. PICK layout \in Layouts[may] : order = Only(layout, Critter)
  BY DEF Orders
<1> QED BY <1>1, OrderHolds

\* It holds before the first fight.
LEMMA HitInit == Init => HitInv
BY DEF Init, AtPeace, HitInv, Someone

\* Every step keeps it.
LEMMA HitNext == IInv /\ HitInv /\ [Next]_vars => HitInv'
<1> SUFFICES ASSUME IInv, HitInv, [Next]_vars PROVE HitInv'
  OBVIOUS
<1>0. may' = may
  BY DEF Next, vars
<1> SUFFICES ASSUME ~ByScripts
             PROVE  /\ DOMAIN whoHitMe' = Critter
                    /\ \A c \in Critter : whoHitMe'[c] \in Critter \cup {Nobody}
                    /\ Someone(run')
                    /\ saved' # NoGame => HitsKnown(saved')
  BY <1>0 DEF HitInv, ByScripts
<1>1. /\ FightInv /\ may \in Settings /\ UNCHANGED may
      /\ DOMAIN whoHitMe = Critter /\ \A c \in Critter : whoHitMe[c] \in Critter \cup {Nobody}
      /\ Someone(run) /\ (saved # NoGame => HitsKnown(saved))
      /\ present = Critter /\ DOMAIN run = RunFields
      /\ saved # NoGame => saved.present = Critter
  BY <1>0 DEF IInv, Undisturbed, HitInv, FightInv, FullInv, Full, SavedFull, Phase
<1> DEFINE Goal == /\ DOMAIN whoHitMe' = Critter
                   /\ \A c \in Critter : whoHitMe'[c] \in Critter \cup {Nobody}
                   /\ Someone(run')
                   /\ saved' # NoGame => HitsKnown(saved')
<1>2. CASE UNCHANGED vars
  <2>1. UNCHANGED << whoHitMe, run, saved >>
    BY <1>2 DEF vars, body
  <2> QED BY <1>1, <2>1
<1>3. CASE NextTurn \/ Resume \/ EndByPlayer \/ EndTurn \/ Join
  <2>1. UNCHANGED << whoHitMe, saved >>
    BY <1>3 DEF NextTurn, Resume, EndByPlayer, EndTurn, Join
  <2>2. Someone(run')
    BY <1>1, <1>3, SomeoneNext
  <2> QED BY <1>1, <2>1, <2>2
<1>4. CASE RoundOver \/ StayOut
  <2>1. UNCHANGED << whoHitMe, saved >>
    BY <1>4 DEF RoundOver, StayOut, body
  <2>2. run'.pc = "joining"
    BY <1>1, <1>4 DEF RoundOver, StayOut, RunFields
  <2> QED BY <1>1, <2>1, <2>2 DEF Someone
<1>5. CASE Over
  <2>1. /\ UNCHANGED saved /\ run' = AtPeace
        /\ \/ UNCHANGED whoHitMe
           \/ whoHitMe' = [c \in Critter |-> IF c \in InList(fight) THEN Nobody ELSE whoHitMe[c]]
    BY <1>5 DEF Over
  <2>2. Someone(run')
    BY <2>1 DEF AtPeace, Someone
  <2> QED BY <1>1, <2>1, <2>2
<1>6. CASE Save
  <2>1. /\ UNCHANGED << whoHitMe, run >> /\ saved'.cid = cid
        /\ saved'.hitCid = [c \in Critter |-> IF whoHitMe[c] = Nobody THEN -1 ELSE cid[whoHitMe[c]]]
    BY <1>6 DEF Save, body
  <2> DEFINE s == saved'
  <2>2. /\ s.cid = cid
        /\ s.hitCid = [c \in Critter |-> IF whoHitMe[c] = Nobody THEN -1 ELSE cid[whoHitMe[c]]]
    BY <2>1
  <2> HIDE DEF s
  <2>3. HitsKnown(s)
    BY <1>1, <2>2 DEF HitsKnown
  <2>4. HitsKnown(saved')
    BY <2>3 DEF s
  <2> QED BY <1>1, <2>1, <2>4
<1>7. ASSUME NEW order, NEW a \in Critter \cup {Nobody}, NEW d \in Critter \cup {Nobody},
             Start(order, a, d)
      PROVE  Goal
  <2>1. /\ UNCHANGED saved /\ run' = [AtPeace EXCEPT !.pc = "round"]
        /\ whoHitMe' = [c \in Critter |-> IF a = Nobody THEN Nobody
                                          ELSE CASE c = a -> d [] c = d -> a [] OTHER -> Nobody]
    BY <1>7 DEF Start
  <2>2. Someone(run')
    BY <2>1 DEF AtPeace, Someone
  <2>3. DOMAIN whoHitMe' = Critter /\ \A c \in Critter : whoHitMe'[c] \in Critter \cup {Nobody}
    BY <2>1
  <2> QED BY <1>1, <2>1, <2>2, <2>3
<1>8. ASSUME NEW c, NEW d \in Alive, NEW outcome, NEW blamed, NEW onlookers,
             Hit(c, d, outcome, blamed, onlookers)
      PROVE  Goal
  <2>1. /\ Acting(c) /\ UNCHANGED << run, saved >>
        /\ whoHitMe' = [e \in Critter |-> CASE e = d /\ blamed    -> c
                                            [] e = c /\ c = Dude  -> d
                                            [] OTHER              -> whoHitMe[e]]
    BY <1>8 DEF Hit
  <2>2. c \in Critter /\ d \in Critter
    BY <1>1, <2>1 DEF Acting, Someone, Alive
  <2>3. DOMAIN whoHitMe' = Critter /\ \A e \in Critter : whoHitMe'[e] \in Critter \cup {Nobody}
    BY <1>1, <2>1, <2>2
  <2> QED BY <1>1, <2>1, <2>3
<1>9. CASE (\E c, how : GivesUp(c, how)) \/ (\E c : WakeUp(c))
  <2>1. UNCHANGED << whoHitMe, run, saved >>
    BY <1>9 DEF GivesUp, WakeUp
  <2> QED BY <1>1, <2>1
<1>10. CASE \/ \E c \in Critter : \E how : Vanishes(c, how)
            \/ \E c \in Critter : Appears(c)
  BY <1>10 DEF Vanishes, Appears, ByScripts
<1>11. ASSUME NEW awake, Sequence(awake) PROVE Goal
  <2>1. UNCHANGED << whoHitMe, saved >>
    BY <1>11 DEF Sequence
  <2>2. run'.pc # "acting" /\ run'.done = 0
    <3>1. PICK p : run' = [run EXCEPT !.pc = p, !.done = 0] /\ p # "acting"
      BY <1>11 DEF Sequence
    <3> QED BY <1>1, <3>1 DEF RunFields
  <2>3. Someone(run')
    BY <2>2 DEF Someone
  <2> QED BY <1>1, <2>1, <2>3
<1>12. ASSUME saved # NoGame, NEW order \in Orders(saved.present), Load(order) PROVE Goal
  <2>1. /\ UNCHANGED saved
        /\ run' = AtPeace \/ run' = [run EXCEPT !.loaded = TRUE]
        /\ \/ whoHitMe' = [c \in Critter |-> HitBy(saved, c, order)]
           \/ whoHitMe' = [c \in Critter |-> Nobody]
    BY <1>12 DEF Load
  <2>2. Someone(run')
    <3>1. CASE run' = AtPeace
      BY <3>1 DEF AtPeace, Someone
    <3>2. CASE run' = [run EXCEPT !.loaded = TRUE]
      <4>1. run'.pc = run.pc /\ run'.actor = run.actor /\ run'.call = run.call /\ run'.done = run.done
        BY <1>1, <3>2 DEF RunFields
      <4> QED BY <1>1, <4>1 DEF Someone
    <3> QED BY <2>1, <3>1, <3>2
  <2>3. order \in Seq(Critter) /\ Holds(order, Len(order), Critter)
    BY <1>1, <1>12, AllInOrder
  <2>4. \A c \in Critter : HitBy(saved, c, order) \in Critter \cup {Nobody}
    <3> DEFINE s == saved
    <3> HIDE DEF s
    <3>1. \A c \in Critter : HitBy(s, c, order) \in Critter \cup {Nobody}
      BY <2>3, HitByFinds
    <3> QED BY <3>1 DEF s
  <2> QED BY <1>1, <2>1, <2>2, <2>4
<1>13. CASE Move
  <2>1. Nobody \in Critter \cup {Nobody} /\ Alive \subseteq Critter \cup {Nobody}
    BY <1>1 DEF Alive
  <2> HIDE DEF Goal
  <2>2. Goal
    <3>1. CASE NextTurn \/ RoundOver \/ Resume \/ EndByPlayer \/ EndTurn \/ Join \/ StayOut \/ Over
               \/ Save
      BY <3>1, <1>3, <1>4, <1>5, <1>6 DEF Goal
    <3> QED BY <1>7, <1>8, <1>9, <1>10, <1>11, <1>12, <1>13, <2>1, <3>1 DEF Move, Goal
  <2> QED BY <2>2 DEF Goal
<1> QED BY <1>2, <1>13 DEF Next

\* What loading a saved fight gives.
LEMMA LoadGives ==
  ASSUME FightInv, HitInv, ~ByScripts, may \in Settings, saved # NoGame, saved.on,
         NEW order \in Orders(saved.present), Load(order)
  PROVE  /\ \A i \in 1 .. fight'.total : saved.cid[fight'.list[i]] = saved.cids[i]
         /\ fight'.com = saved.com /\ fight'.noncom = saved.noncom /\ fight'.total = saved.total
         /\ \A c \in saved.present \ {Dude} :
              saved.hitCid[c] = IF whoHitMe'[c] = Nobody THEN -1 ELSE saved.cid[whoHitMe'[c]]
<1>1. SavedShape(saved) /\ saved.present = Critter /\ HitsKnown(saved)
  BY DEF FightInv, TypeInv, FullInv, SavedFull, HitInv
<1>2. /\ fight'.com = saved.com /\ fight'.noncom = saved.noncom /\ fight'.total = saved.total
      /\ \A i \in 1 .. saved.total : saved.cid[fight'.list[i]] = saved.cids[i]
  BY <1>1, LoadedIs
<1>3. order \in Seq(Critter) /\ Holds(order, Len(order), Critter)
  BY <1>1, AllInOrder
<1>4. whoHitMe' = [c \in Critter |-> HitBy(saved, c, order)]
  BY DEF Load
<1>5. ASSUME NEW c \in Critter \ {Dude}
      PROVE  saved.hitCid[c] = IF whoHitMe'[c] = Nobody THEN -1 ELSE saved.cid[whoHitMe'[c]]
  <2> DEFINE s == saved
             h == whoHitMe'[c]
  <2>1. s.on /\ HitsKnown(s) /\ h = HitBy(s, c, order)
    BY <1>1, <1>4
  <2> HIDE DEF s, h
  <2>2. s.hitCid[c] = IF HitBy(s, c, order) = Nobody THEN -1 ELSE s.cid[HitBy(s, c, order)]
    BY <1>3, <2>1, HitByFinds
  <2>3. s.hitCid[c] = IF h = Nobody THEN -1 ELSE s.cid[h]
    BY <2>1, <2>2
  <2> QED BY <2>3 DEF s, h
<1> QED BY <1>1, <1>2, <1>5

\* A fight that is loaded is the one that was saved: the same order, the same parts,
\* and everyone but the player knows who hit him (combat_save, combat_load). Scripts
\* that take critters from the map, or put some there, are left out: what the list
\* then holds is not what combat_load looks for (see ListHoldsAll, SavedFightLoads).
THEOREM LoadedFightIsTheSaved ==
  ASSUME \A s \in Settings : s \cap {"load", "reload"} # {} => s \cap {"kill", "remove", "create"} = {}
  PROVE  Spec => LoadRestores
<1>1. Spec => []IInv
  BY InitInv, NextInv, PTL DEF Spec
<1>2. Spec => []HitInv
  BY <1>1, HitInit, HitNext, PTL DEF Spec
<1> DEFINE Restored ==
             saved # NoGame /\ saved.on /\ (\E order \in Orders(saved.present) : Load(order)) =>
               /\ \A i \in 1 .. fight'.total : saved.cid[fight'.list[i]] = saved.cids[i]
               /\ fight'.com = saved.com /\ fight'.noncom = saved.noncom /\ fight'.total = saved.total
               /\ \A c \in saved.present \ {Dude} :
                    saved.hitCid[c] = IF whoHitMe'[c] = Nobody THEN -1 ELSE saved.cid[whoHitMe'[c]]
<1>3. ASSUME IInv, HitInv, [Next]_vars PROVE [Restored]_vars
  <2> SUFFICES ASSUME saved # NoGame, saved.on, NEW order \in Orders(saved.present), Load(order)
               PROVE  Restored
    OBVIOUS
  <2>1. may \in Settings /\ ~ByScripts
    BY <1>3 DEF IInv, Load, ByScripts
  <2>2. FightInv
    BY <1>3, <2>1 DEF IInv, Undisturbed
  <2> QED BY <1>3, <2>1, <2>2, LoadGives
<1> QED BY <1>1, <1>2, <1>3, PTL DEF Spec, LoadRestores
=============================================================================
