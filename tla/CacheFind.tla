------------------------------ MODULE CacheFind ------------------------------
(***************************************************************************)
(* cache_find (game/cache.cc): the search in the cache's array of entries. *)
(* It probes the middle of l .. r but moves l and r by one at a time, so   *)
(* that it is a binary search in appearance only. Positions are counted    *)
(* from 1.                                                                 *)
(***************************************************************************)
EXTENDS Integers, Sequences, TLAPS

CONSTANTS Key,      \* the keys that are looked up
          Arrays    \* the arrays of keys they are looked up in

ASSUME KeyAssumption ==
  /\ Key \subseteq Int
  /\ Arrays \subseteq Seq(Int)
  /\ \A s \in Arrays : \A i, j \in 1 .. Len(s) : i < j => s[i] < s[j]

VARIABLES entries,  \* the keys of the cache, which the search leaves alone
          key,      \* the key to find
          l, r, mid, cmp,
          found     \* "no" until the answer, then 2 or 3 and the position

vars == << entries, key, l, r, mid, cmp, found >>

Searching == [rc |-> 0, index |-> 0]

Init ==
  /\ entries \in Arrays
  /\ key \in Key
  /\ l = 1 /\ r = Len(entries)
  /\ mid = 0 /\ cmp = 0
  /\ found = IF entries = << >> THEN [rc |-> 3, index |-> 1] ELSE Searching

\* Mutant: a round drops half of the entries, and one too many.
ProbePast ==
  /\ found = Searching /\ l <= r
  /\ mid' = (l + r) \div 2
  /\ cmp' = key - entries[mid']
  /\ l' = IF cmp' > 0 THEN mid' + 2 ELSE l
  /\ r' = IF cmp' < 0 THEN mid' - 1 ELSE r
  /\ found' = IF cmp' = 0 THEN [rc |-> 2, index |-> mid'] ELSE found
  /\ UNCHANGED << entries, key >>

\* Mutant: a round drops the half before the middle, but not the middle.
ProbeStuck ==
  /\ found = Searching /\ l <= r
  /\ mid' = (l + r) \div 2
  /\ cmp' = key - entries[mid']
  /\ l' = IF cmp' > 0 THEN mid' ELSE l
  /\ r' = IF cmp' < 0 THEN mid' - 1 ELSE r
  /\ found' = IF cmp' = 0 THEN [rc |-> 2, index |-> mid'] ELSE found
  /\ UNCHANGED << entries, key >>

\* One round of the loop.
Probe ==
  /\ found = Searching /\ l <= r
  /\ mid' = (l + r) \div 2
  /\ cmp' = key - entries[mid']
  /\ l' = IF cmp' > 0 THEN l + 1 ELSE l
  /\ r' = IF cmp' < 0 THEN r - 1 ELSE r
  /\ found' = IF cmp' = 0 THEN [rc |-> 2, index |-> mid'] ELSE found
  /\ UNCHANGED << entries, key >>

\* After the loop: before the last probe, or after it.
Give ==
  /\ found = Searching /\ l > r
  /\ found' = [rc |-> 3, index |-> IF cmp < 0 THEN mid ELSE mid + 1]
  /\ UNCHANGED << entries, key, l, r, mid, cmp >>

Next == Probe \/ Give

Spec == Init /\ [][Next]_vars
FairSpec == Spec /\ WF_vars(Next)

-----------------------------------------------------------------------------
\* cache_find's answer is right: 2 and the place of the key, or 3 and the
\* place where it belongs, with every smaller key before and every larger one
\* from there on.
FindsIt ==
  /\ found.rc = 2 => found.index \in 1 .. Len(entries) /\ entries[found.index] = key
  /\ found.rc = 3 => /\ found.index \in 1 .. Len(entries) + 1
                     /\ \A i \in 1 .. found.index - 1 : entries[i] < key
                     /\ \A i \in found.index .. Len(entries) : key < entries[i]

\* The search ends, although each round drops only one entry.
Ends == <>(found # Searching)

-----------------------------------------------------------------------------
\* What the loop keeps: the key is neither before l nor after r, and when the
\* two have crossed, the last probe was right between them.
IInv ==
  /\ entries \in Arrays
  /\ key \in Int /\ l \in Int /\ r \in Int /\ mid \in Int /\ cmp \in Int
  /\ found.rc \in {0, 2, 3} /\ found.index \in Int
  /\ 1 <= l /\ l <= r + 1 /\ r <= Len(entries)
  /\ \A i \in 1 .. l - 1 : entries[i] < key
  /\ \A i \in r + 1 .. Len(entries) : key < entries[i]
  /\ found = Searching /\ l > r =>
       (cmp < 0 /\ mid = l) \/ (cmp > 0 /\ mid = r)
  /\ FindsIt

\* The search begins between the bounds of the array.
LEMMA IInvInit == Init => IInv
<1> SUFFICES ASSUME Init PROVE IInv
  OBVIOUS
<1>1. Len(entries) \in Nat
  BY KeyAssumption DEF Init, IInv
<1>2. CASE entries = << >>
  BY <1>1, <1>2, KeyAssumption DEF Init, IInv, FindsIt, Searching
<1>3. CASE entries # << >>
  <2>1. Len(entries) >= 1
    BY <1>1, <1>3, KeyAssumption
  <2> QED
    BY <1>1, <1>3, <2>1, KeyAssumption DEF Init, IInv, FindsIt, Searching
<1> QED BY <1>2, <1>3

\* IInv is inductive.
LEMMA IInvNext == IInv /\ [Next]_vars => IInv'
<1> SUFFICES ASSUME IInv, [Next]_vars PROVE IInv'
  OBVIOUS
<1>1. Len(entries) \in Nat
  BY KeyAssumption DEF Init, IInv
<1>2. CASE Probe
  <2> DEFINE m == (l + r) \div 2
  <2>1. /\ m \in Int /\ l <= m /\ m <= r
        /\ mid' = m /\ cmp' = key - entries[m] /\ key' = key /\ entries' = entries
    BY <1>2 DEF Probe, IInv
  <2>2. m \in 1 .. Len(entries) /\ entries[m] \in Int
    BY <1>1, <2>1, KeyAssumption DEF IInv
  <2>3. cmp' \in Int
    BY <2>1, <2>2 DEF IInv
  <2> HIDE DEF m
  <2>4. CASE cmp' = 0
    <3>1. l' = l /\ r' = r /\ entries' = entries /\ found' = [rc |-> 2, index |-> m] /\ entries[m] = key
      BY <1>2, <2>1, <2>2, <2>3, <2>4 DEF Probe, IInv
    <3> QED
      BY <1>1, <2>1, <2>2, <2>3, <3>1 DEF IInv, FindsIt, Searching
  <2>5. CASE cmp' > 0
    <3>1. l' = l + 1 /\ r' = r /\ entries' = entries /\ found' = Searching /\ entries[m] < key
      <4>1. cmp' # 0 /\ entries[m] < key
        BY <2>1, <2>2, <2>3, <2>5 DEF IInv
      <4>2. l' = l + 1 /\ r' = r /\ found' = found /\ found = Searching
        BY <1>2, <2>5, <4>1 DEF Probe
      <4> QED BY <2>1, <4>1, <4>2
    <3>2. l \in 1 .. Len(entries) /\ entries[l] < key
      BY <1>1, <2>1, <2>2, <3>1, KeyAssumption DEF IInv
    <3>3. \A i \in 1 .. l' - 1 : entries[i] < key
      BY <3>1, <3>2 DEF IInv
    <3>4. l' > r' => m = r'
      BY <2>1, <3>1 DEF IInv
    <3> QED
      BY <1>1, <2>1, <2>2, <2>3, <2>5, <3>1, <3>3, <3>4 DEF IInv, FindsIt, Searching
  <2>6. CASE cmp' < 0
    <3>1. l' = l /\ r' = r - 1 /\ entries' = entries /\ found' = Searching /\ key < entries[m]
      <4>1. cmp' # 0 /\ key < entries[m]
        BY <2>1, <2>2, <2>3, <2>6 DEF IInv
      <4>2. l' = l /\ r' = r - 1 /\ found' = found /\ found = Searching
        BY <1>2, <2>6, <4>1 DEF Probe
      <4> QED BY <2>1, <4>1, <4>2
    <3>2. r \in 1 .. Len(entries) /\ key < entries[r]
      BY <1>1, <2>1, <2>2, <3>1, KeyAssumption DEF IInv
    <3>3. \A i \in r' + 1 .. Len(entries) : key < entries[i]
      BY <3>1, <3>2 DEF IInv
    <3>4. l' > r' => m = l'
      BY <2>1, <3>1 DEF IInv
    <3> QED
      BY <1>1, <2>1, <2>2, <2>3, <2>6, <3>1, <3>3, <3>4 DEF IInv, FindsIt, Searching
  <2> QED BY <2>3, <2>4, <2>5, <2>6
<1>3. CASE Give
  <2>1. /\ found' = [rc |-> 3, index |-> IF cmp < 0 THEN mid ELSE mid + 1]
        /\ key' = key /\ l' = l /\ r' = r /\ mid' = mid /\ cmp' = cmp /\ entries' = entries
        /\ found = Searching /\ l > r
    BY <1>3 DEF Give
  <2>2. l = r + 1 /\ found'.rc = 3 /\ found'.index = l
    BY <2>1 DEF IInv
  <2> QED
    BY <1>1, <2>1, <2>2 DEF IInv, FindsIt, Searching
<1>4. CASE UNCHANGED vars
  BY <1>4 DEF IInv, FindsIt, vars
<1> QED BY <1>2, <1>3, <1>4 DEF Next

\* Whatever the array and the key, cache_find's answer is right (cache.cc:484).
THEOREM SearchIsRight == Spec => []FindsIt
<1>1. IInv => FindsIt
  BY DEF IInv
<1> QED
  BY <1>1, IInvInit, IInvNext, PTL DEF Spec
=============================================================================
