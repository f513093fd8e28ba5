------------------------------ MODULE ListProofs ------------------------------
(***************************************************************************)
(* Lemmas about lists that the proofs of several modules need: induction   *)
(* over a bounded range, stated for a set of numbers instead of a          *)
(* predicate, functions defined by recursion over such a range, what       *)
(* InsertAt, RemoveAt and Only return, the same induction over the subsets *)
(* of a finite set, and sums over them.                                    *)
(***************************************************************************)
EXTENDS Lists, SequencesExt, SequenceTheorems, FiniteSetTheorems,
        WellFoundedInduction, TLAPS

\* A set of numbers has a least one.
LEMMA LeastNumber ==
  ASSUME NEW T \in SUBSET Nat, T # {}
  PROVE  \E n \in T : \A m \in T : n <= m
<1>1. PICK x \in T : \A y \in T : ~ (<<y, x>> \in OpToRel(<, Nat))
  BY WFMin, NatLessThanWellFounded
<1>2. ASSUME NEW y \in T PROVE x <= y
  <2>1. ~ (y < x)
    <3>1. <<y, x>> \in Nat \X Nat /\ <<y, x>>[1] = y /\ <<y, x>>[2] = x
      OBVIOUS
    <3> QED BY <1>1, <3>1, Zenon DEF OpToRel
  <2> QED BY <2>1
<1> QED BY <1>2

\* Induction from m up to n.
LEMMA RangeInduction ==
  ASSUME NEW m \in Int, NEW n \in Int, NEW T,
         m \in T, \A k \in m .. n - 1 : k \in T => k + 1 \in T
  PROVE  m .. n \subseteq T
<1> SUFFICES ASSUME NEW k \in m .. n, k \notin T PROVE FALSE
  OBVIOUS
<1> DEFINE B == {d \in Nat : m + d <= n /\ m + d \notin T}
<1>1. k - m \in B
  OBVIOUS
<1>2. PICK d \in B : \A e \in B : d <= e
  <2>1. B \in SUBSET Nat /\ B # {}
    BY <1>1
  <2> HIDE DEF B
  <2> QED BY <2>1, LeastNumber
<1>3. d # 0
  <2>1. m + 0 = m
    OBVIOUS
  <2> QED BY <2>1
<1>4. d - 1 \in Nat /\ m + (d - 1) \in m .. n - 1 /\ m + (d - 1) + 1 = m + d
  BY <1>3
<1>5. d - 1 \notin B
  BY <1>2, <1>4
<1>6. m + (d - 1) \in T
  BY <1>4, <1>5
<1> QED BY <1>4, <1>6

\* A function may be defined by recursion from 0 up to L.
Steps(L, S) == [1 .. L -> [S -> S]]

Runs(L, S, base, step) ==
  {g \in [0 .. L -> S] : g[0] = base /\ \A n \in 1 .. L : g[n] = step[n][g[n - 1]]}

\* Such a function exists whenever each step leads from the set to the set.
LEMMA RangeRecursion ==
  ASSUME NEW L \in Nat, NEW S, NEW base \in S, NEW step \in Steps(L, S)
  PROVE  Runs(L, S, base, step) # {}
<1> DEFINE Good(l) == \E g \in [0 .. l -> S] :
                   /\ g[0] = base
                   /\ \A n \in 1 .. l : g[n] = step[n][g[n - 1]]
           T == {l \in 0 .. L : Good(l)}
<1>0. step \in [1 .. L -> [S -> S]]
  BY DEF Steps
<1>1. Good(0)
  <2>1. [n \in 0 .. 0 |-> base] \in [0 .. 0 -> S]
    OBVIOUS
  <2>2. [n \in 0 .. 0 |-> base][0] = base
    OBVIOUS
  <2>3. \A n \in 1 .. 0 : FALSE
    OBVIOUS
  <2> QED BY <2>1, <2>2, <2>3
<1>2. ASSUME NEW l \in 0 .. L - 1, Good(l)
      PROVE  Good(l + 1)
  <2>1. PICK g \in [0 .. l -> S] : /\ g[0] = base
                                   /\ \A n \in 1 .. l : g[n] = step[n][g[n - 1]]
    BY <1>2
  <2> DEFINE v == step[l + 1][g[l]]
             h == [n \in 0 .. l + 1 |-> IF n = l + 1 THEN v ELSE g[n]]
  <2>2. v \in S
    BY <1>0
  <2> HIDE DEF v
  <2>3. h \in [0 .. l + 1 -> S]
    BY <2>1, <2>2
  <2>4. h[0] = base
    BY <2>1
  <2>5. ASSUME NEW n \in 1 .. l + 1 PROVE h[n] = step[n][h[n - 1]]
    <3>1. n \in 0 .. l + 1 /\ n - 1 \in 0 .. l + 1 /\ n - 1 # l + 1
      OBVIOUS
    <3>2. h[n - 1] = g[n - 1]
      BY <3>1
    <3>3. CASE n = l + 1
      <4>1. h[n] = v /\ n - 1 = l
        BY <3>1, <3>3
      <4> QED BY <3>2, <3>3, <4>1 DEF v
    <3>4. CASE n # l + 1
      <4>1. h[n] = g[n] /\ n \in 1 .. l
        BY <3>1, <3>4
      <4> QED BY <2>1, <3>2, <4>1
    <3> QED BY <3>3, <3>4
  <2> HIDE DEF h
  <2> QED BY <2>3, <2>4, <2>5
<1> HIDE DEF Good
<1>3. L \in T
  <2>1. 0 \in T
    BY <1>1
  <2>2. \A l \in 0 .. L - 1 : l \in T => l + 1 \in T
    BY <1>2
  <2> HIDE DEF T
  <2>3. 0 .. L \subseteq T
    BY <2>1, <2>2, RangeInduction
  <2> QED BY <2>3
<1> QED BY <1>3 DEF Good, Runs

\* What InsertAt returns, element by element.
LEMMA InsertAtIndex ==
  ASSUME NEW S, NEW s \in Seq(S), NEW e \in S, NEW p \in 1 .. Len(s) + 1
  PROVE  /\ InsertAt(s, p, e) \in Seq(S)
         /\ Len(InsertAt(s, p, e)) = Len(s) + 1
         /\ \A j \in 1 .. Len(s) + 1 :
              InsertAt(s, p, e)[j] =
                IF j < p THEN s[j] ELSE IF j = p THEN e ELSE s[j - 1]
<1> DEFINE a == SubSeq(s, 1, p - 1)
           b == SubSeq(s, p, Len(s))
           c == a \o <<e>>
<1>1. /\ a \in Seq(S) /\ Len(a) = p - 1
      /\ \A j \in 1 .. p - 1 : a[j] = s[j]
  BY SubSeqProperties
<1>2. /\ b \in Seq(S) /\ Len(b) = Len(s) - p + 1
      /\ \A j \in 1 .. Len(s) - p + 1 : b[j] = s[p + j - 1]
  BY SubSeqProperties
<1>3. InsertAt(s, p, e) = c \o b
  BY DEF InsertAt
<1>4. <<e>> \in Seq(S) /\ Len(<<e>>) = 1 /\ <<e>>[1] = e
  OBVIOUS
<1> HIDE DEF a, b
<1>5. /\ c \in Seq(S) /\ Len(c) = p
      /\ \A j \in 1 .. p : c[j] = IF j < p THEN s[j] ELSE e
  <2>1. /\ c \in Seq(S)
        /\ Len(c) = Len(a) + Len(<<e>>)
        /\ \A j \in 1 .. Len(a) + Len(<<e>>) :
             c[j] = IF j <= Len(a) THEN a[j] ELSE <<e>>[j - Len(a)]
    BY <1>1, <1>4, ConcatProperties
  <2> QED BY <1>1, <1>4, <2>1
<1> HIDE DEF c
<1>6. /\ c \o b \in Seq(S)
      /\ Len(c \o b) = Len(c) + Len(b)
      /\ \A j \in 1 .. Len(c) + Len(b) :
           (c \o b)[j] = IF j <= Len(c) THEN c[j] ELSE b[j - Len(c)]
  BY <1>2, <1>5, ConcatProperties
<1> QED
  BY <1>2, <1>3, <1>5, <1>6

\* What RemoveAt returns, element by element.
LEMMA RemoveAtIndex ==
  ASSUME NEW S, NEW s \in Seq(S), NEW i \in 1 .. Len(s)
  PROVE  /\ RemoveAt(s, i) \in Seq(S)
         /\ Len(RemoveAt(s, i)) = Len(s) - 1
         /\ \A j \in 1 .. Len(s) - 1 :
              RemoveAt(s, i)[j] = IF j < i THEN s[j] ELSE s[j + 1]
<1> DEFINE a == SubSeq(s, 1, i - 1)
           b == SubSeq(s, i + 1, Len(s))
<1>1. /\ a \in Seq(S) /\ Len(a) = i - 1
      /\ \A j \in 1 .. i - 1 : a[j] = s[j]
  BY SubSeqProperties
<1>2. /\ b \in Seq(S) /\ Len(b) = Len(s) - i
      /\ \A j \in 1 .. Len(s) - i : b[j] = s[i + j]
  BY SubSeqProperties
<1>3. RemoveAt(s, i) = a \o b
  BY DEF RemoveAt
<1> HIDE DEF a, b
<1>4. /\ a \o b \in Seq(S)
      /\ Len(a \o b) = Len(a) + Len(b)
      /\ \A j \in 1 .. Len(a) + Len(b) :
           (a \o b)[j] = IF j <= Len(a) THEN a[j] ELSE b[j - Len(a)]
  BY <1>1, <1>2, ConcatProperties, Zenon
<1> QED
  BY <1>1, <1>2, <1>3, <1>4

\* The places f are those of s that r takes over, of the first n.
Picks(f, r, s, S, n) ==
  /\ f \in [1 .. Len(r) -> 1 .. n]
  /\ \A j, k \in 1 .. Len(r) : j < k => f[j] < f[k]
  /\ \A k \in 1 .. Len(r) : r[k] = s[f[k]] /\ s[f[k]] \in S
  /\ \A i \in 1 .. n : s[i] \in S => \E k \in 1 .. Len(r) : f[k] = i

\* The loop of Only, one step after the other.
LEMMA OnlyUnfolds ==
  ASSUME NEW A, NEW s \in Seq(A), NEW S
  PROVE  \E K : /\ Only(s, S) = K[Len(s)] /\ K[0] = << >>
                /\ \A n \in 1 .. Len(s) :
                     K[n] = IF s[n] \in S THEN Append(K[n - 1], s[n]) ELSE K[n - 1]
<1> DEFINE L == Len(s)
           next(n, v) == IF s[n] \in S THEN Append(v, s[n]) ELSE v
           step == [n \in 1 .. L |-> [v \in Seq(A) |-> next(n, v)]]
           Def(g) == [n \in 0 .. L |-> IF n = 0 THEN << >> ELSE next(n, g[n - 1])]
           K == CHOOSE g : g = Def(g)
<1>1. \A n \in 1 .. L : \A v \in Seq(A) : next(n, v) \in Seq(A)
  OBVIOUS
<1>2. L \in Nat /\ << >> \in Seq(A)
  OBVIOUS
<1>6. Only(s, S) = K[L]
  BY DEF Only
<1> HIDE DEF L, next
<1>3. PICK g \in [0 .. L -> Seq(A)] :
        g[0] = << >> /\ \A n \in 1 .. L : g[n] = step[n][g[n - 1]]
  <2> DEFINE nil == << >>
  <2>1. step \in Steps(L, Seq(A)) /\ nil \in Seq(A)
    BY <1>1, <1>2 DEF Steps
  <2> DEFINE T == Seq(A)
  <2>2. L \in Nat /\ step \in Steps(L, T) /\ nil \in T
    BY <1>2, <2>1
  <2> HIDE DEF step, nil, T, Def, K
  <2>3. Runs(L, T, nil, step) # {}
    BY <2>2, RangeRecursion
  <2> QED BY <2>3 DEF nil, T, Runs
<1>4. g = Def(g)
  <2>1. ASSUME NEW n \in 1 .. L PROVE g[n] = next(n, g[n - 1])
    <3>1. n - 1 \in 0 .. L /\ g[n - 1] \in Seq(A)
      BY <1>2
    <3>2. step[n][g[n - 1]] = next(n, g[n - 1])
      BY <3>1
    <3> QED BY <1>3, <3>2
  <2>2. \A n \in 0 .. L : g[n] = IF n = 0 THEN << >> ELSE next(n, g[n - 1])
    BY <1>2, <1>3, <2>1
  <2> QED BY <2>2
<1>5. K = Def(K)
  <2> HIDE DEF Def
  <2> QED BY <1>4
<1> HIDE DEF K
<1>7. K[0] = << >> /\ \A n \in 1 .. L : K[n] = next(n, K[n - 1])
  <2>1. \A n \in 0 .. L : Def(K)[n] = IF n = 0 THEN << >> ELSE next(n, K[n - 1])
    OBVIOUS
  <2>2. \A n \in 0 .. L : K[n] = IF n = 0 THEN << >> ELSE next(n, K[n - 1])
    BY <1>5, <2>1
  <2>3. 0 \in 0 .. L /\ \A n \in 1 .. L : n \in 0 .. L /\ n # 0
    BY <1>2
  <2> QED BY <2>2, <2>3
<1> QED BY <1>6, <1>7 DEF L, next

\* Only returns those of s that are in S, each once, in the order of s.
LEMMA OnlyProperties ==
  ASSUME NEW A, NEW s \in Seq(A), NEW S
  PROVE  /\ Only(s, S) \in Seq(A)
         /\ \E f : Picks(f, Only(s, S), s, S, Len(s))
<1>1. PICK K : /\ Only(s, S) = K[Len(s)] /\ K[0] = << >>
               /\ \A n \in 1 .. Len(s) :
                    K[n] = IF s[n] \in S THEN Append(K[n - 1], s[n]) ELSE K[n - 1]
  BY OnlyUnfolds
<1> DEFINE Good(n) == K[n] \in Seq(A) /\ \E f : Picks(f, K[n], s, S, n)
           L == Len(s)
           T == {n \in 0 .. L : Good(n)}
<1>2. Len(s) \in Nat /\ \A n \in 1 .. Len(s) : s[n] \in A
  OBVIOUS
<1>3. Good(0)
  <2>1. Picks(<< >>, << >>, s, S, 0)
    BY DEF Picks
  <2> QED BY <1>1, <2>1
<1>4. ASSUME NEW m \in 0 .. Len(s) - 1, Good(m)
      PROVE  Good(m + 1)
  <2> DEFINE n == m + 1
             r == K[m]
  <2>1. n \in 1 .. Len(s) /\ n - 1 = m /\ s[n] \in A /\ r \in Seq(A) /\ Len(r) \in Nat
    BY <1>2, <1>4
  <2>2. PICK f : Picks(f, r, s, S, m)
    BY <1>4
  <2>3. K[n] = IF s[n] \in S THEN Append(r, s[n]) ELSE r
    BY <1>1, <2>1
  <2> HIDE DEF n, r
  <2>4. CASE s[n] \notin S
    <3>1. f \in [1 .. Len(r) -> 1 .. n]
      BY <2>1, <2>2 DEF Picks
    <3>2. \A i \in 1 .. n : i = n \/ i \in 1 .. m
      BY <2>1
    <3>3. Picks(f, r, s, S, n)
      BY <2>2, <2>4, <3>1, <3>2 DEF Picks
    <3> QED BY <2>1, <2>3, <2>4, <3>3 DEF n
  <2>5. CASE s[n] \in S
    <3> DEFINE q == Append(r, s[n])
               h == [k \in 1 .. Len(r) + 1 |-> IF k = Len(r) + 1 THEN n ELSE f[k]]
    <3>1. /\ q \in Seq(A) /\ Len(q) = Len(r) + 1 /\ q[Len(r) + 1] = s[n]
          /\ \A k \in 1 .. Len(r) : q[k] = r[k]
      BY <2>1
    <3> HIDE DEF q
    <3>2. h \in [1 .. Len(q) -> 1 .. n]
      BY <2>1, <2>2, <3>1 DEF Picks
    <3>3. ASSUME NEW j \in 1 .. Len(q), NEW k \in 1 .. Len(q), j < k
          PROVE  h[j] < h[k]
      <4>0. j \in 1 .. Len(r)
        BY <2>1, <3>1, <3>3
      <4>1. h[j] = f[j] /\ f[j] \in 1 .. m /\ m < n
        BY <2>1, <2>2, <4>0 DEF Picks
      <4>2. CASE k = Len(q)
        BY <2>1, <3>1, <4>0, <4>1, <4>2
      <4>3. CASE k # Len(q)
        <5>1. k \in 1 .. Len(r) /\ h[k] = f[k]
          BY <2>1, <3>1, <4>3
        <5> QED BY <2>2, <3>3, <4>0, <4>1, <5>1 DEF Picks
      <4> QED BY <4>2, <4>3
    <3>4. \A k \in 1 .. Len(q) : q[k] = s[h[k]] /\ s[h[k]] \in S
      BY <2>1, <2>2, <2>5, <3>1 DEF Picks
    <3>5. ASSUME NEW i \in 1 .. n, s[i] \in S PROVE \E k \in 1 .. Len(q) : h[k] = i
      <4>1. CASE i = n
        BY <2>1, <3>1, <4>1
      <4>2. CASE i # n
        <5>1. PICK k \in 1 .. Len(r) : f[k] = i
          BY <2>1, <2>2, <3>5, <4>2 DEF Picks
        <5> QED BY <2>1, <3>1, <5>1
      <4> QED BY <4>1, <4>2
    <3> HIDE DEF h
    <3>6. Picks(h, q, s, S, n)
      BY <3>2, <3>3, <3>4, <3>5 DEF Picks
    <3> QED BY <2>3, <2>5, <3>1, <3>6 DEF n, q
  <2> QED BY <2>4, <2>5
<1> HIDE DEF Good
<1>5. L \in T
  <2>1. L \in Nat /\ 0 \in T /\ \A m \in 0 .. L - 1 : m \in T => m + 1 \in T
    BY <1>2, <1>3, <1>4
  <2> HIDE DEF T, L
  <2>2. 0 .. L \subseteq T
    BY <2>1, RangeInduction
  <2> QED BY <2>1, <2>2
<1>6. Good(Len(s))
  BY <1>5
<1> QED BY <1>1, <1>6 DEF Good

\* The members of a list after InsertAt, Tail and Only.
LEMMA InsertAtSet ==
  ASSUME NEW S, NEW s \in Seq(S), NEW e \in S, NEW p \in 1 .. Len(s) + 1
  PROVE  ToSet(InsertAt(s, p, e)) = ToSet(s) \cup {e}
<1> DEFINE r == InsertAt(s, p, e)
<1>1. /\ r \in Seq(S) /\ Len(r) = Len(s) + 1 /\ Len(s) \in Nat
      /\ \A j \in 1 .. Len(s) + 1 :
           r[j] = IF j < p THEN s[j] ELSE IF j = p THEN e ELSE s[j - 1]
  BY InsertAtIndex
<1>2. DOMAIN r = 1 .. Len(s) + 1 /\ DOMAIN s = 1 .. Len(s)
  BY <1>1
<1> HIDE DEF r
<1>3. ASSUME NEW x \in ToSet(r) PROVE x \in ToSet(s) \cup {e}
  <2>1. PICK j \in 1 .. Len(s) + 1 : r[j] = x
    BY <1>2 DEF ToSet
  <2>2. CASE j < p
    <3>1. j \in DOMAIN s /\ x = s[j]
      BY <1>1, <1>2, <2>1, <2>2
    <3> QED BY <3>1 DEF ToSet
  <2>3. CASE j = p
    BY <1>1, <2>1, <2>3
  <2>4. CASE j > p
    <3>1. j - 1 \in DOMAIN s
      BY <1>1, <1>2, <2>4
    <3>2. x = s[j - 1]
      BY <1>1, <2>1, <2>4
    <3> QED BY <3>1, <3>2 DEF ToSet
  <2> QED BY <1>1, <2>2, <2>3, <2>4
<1>4. e \in ToSet(r)
  <2>1. p \in DOMAIN r /\ r[p] = e
    BY <1>1, <1>2
  <2> QED BY <2>1 DEF ToSet
<1>5. ASSUME NEW x \in ToSet(s) PROVE x \in ToSet(r)
  <2>1. PICK j \in 1 .. Len(s) : s[j] = x
    BY <1>2 DEF ToSet
  <2>2. CASE j < p
    <3>1. j \in DOMAIN r /\ x = r[j]
      BY <1>1, <1>2, <2>1, <2>2
    <3> QED BY <3>1 DEF ToSet
  <2>3. CASE j >= p
    <3>1. j + 1 \in DOMAIN r /\ x = r[j + 1]
      BY <1>1, <1>2, <2>1, <2>3
    <3> QED BY <3>1 DEF ToSet
  <2> QED BY <1>1, <2>2, <2>3
<1> QED BY <1>3, <1>4, <1>5 DEF r

\* The list d is s with e at place p.
Inserted(d, S, s, p, e) ==
  /\ d \in Seq(S) /\ Len(d) = Len(s) + 1
  /\ \A j \in 1 .. Len(s) + 1 : d[j] = IF j < p THEN s[j] ELSE IF j = p THEN e ELSE s[j - 1]
  /\ ToSet(d) = ToSet(s) \cup {e}

\* That is what InsertAt returns.
LEMMA InsertIs ==
  ASSUME NEW S, NEW s \in Seq(S), NEW e \in S, NEW p \in 1 .. Len(s) + 1
  PROVE  Inserted(InsertAt(s, p, e), S, s, p, e)
<1> DEFINE d == InsertAt(s, p, e)
<1>1. /\ d \in Seq(S) /\ Len(d) = Len(s) + 1 /\ Len(s) \in Nat
      /\ \A j \in 1 .. Len(s) + 1 :
           d[j] = IF j < p THEN s[j] ELSE IF j = p THEN e ELSE s[j - 1]
  BY InsertAtIndex
<1>2. ToSet(d) = ToSet(s) \cup {e}
  BY InsertAtSet
<1> QED BY <1>1, <1>2 DEF Inserted

\* What the tail of a list holds, and what it leaves out.
LEMMA TailSet ==
  ASSUME NEW S, NEW s \in Seq(S), s # << >>
  PROVE  /\ Tail(s) \in Seq(S) /\ Len(Tail(s)) = Len(s) - 1 /\ Len(s) \in Nat \ {0}
         /\ \A j \in 1 .. Len(s) - 1 : Tail(s)[j] = s[j + 1]
         /\ s[1] \in S
         /\ ToSet(s) = ToSet(Tail(s)) \cup {s[1]}
<1> DEFINE r == Tail(s)
<1>1. /\ r \in Seq(S) /\ Len(r) = Len(s) - 1 /\ Len(s) \in Nat \ {0} /\ s[1] \in S
      /\ \A j \in 1 .. Len(s) - 1 : r[j] = s[j + 1]
  OBVIOUS
<1>2. DOMAIN r = 1 .. Len(s) - 1 /\ DOMAIN s = 1 .. Len(s)
  BY <1>1
<1> HIDE DEF r
<1>3. ASSUME NEW x \in ToSet(s) PROVE x \in ToSet(r) \cup {s[1]}
  <2>1. PICK j \in 1 .. Len(s) : s[j] = x
    BY <1>2 DEF ToSet
  <2>2. CASE j = 1
    BY <2>1, <2>2
  <2>3. CASE j # 1
    <3>1. j - 1 \in DOMAIN r /\ x = r[j - 1]
      BY <1>1, <1>2, <2>1, <2>3
    <3> QED BY <3>1 DEF ToSet
  <2> QED BY <2>2, <2>3
<1>4. ASSUME NEW x \in ToSet(r) \cup {s[1]} PROVE x \in ToSet(s)
  <2>1. CASE x = s[1]
    <3>1. 1 \in DOMAIN s
      BY <1>1, <1>2
    <3> QED BY <2>1, <3>1 DEF ToSet
  <2>2. CASE x \in ToSet(r)
    <3>1. PICK j \in 1 .. Len(s) - 1 : r[j] = x
      BY <1>2, <2>2 DEF ToSet
    <3>2. j + 1 \in DOMAIN s /\ x = s[j + 1]
      BY <1>1, <1>2, <3>1
    <3> QED BY <3>2 DEF ToSet
  <2> QED BY <2>1, <2>2
<1> QED BY <1>1, <1>3, <1>4 DEF r

\* Only keeps just the members of the set.
LEMMA OnlySet ==
  ASSUME NEW A, NEW s \in Seq(A), NEW S
  PROVE  /\ Only(s, S) \in Seq(A) /\ Len(Only(s, S)) <= Len(s)
         /\ ToSet(Only(s, S)) = ToSet(s) \cap S
<1> DEFINE r == Only(s, S)
<1>1. r \in Seq(A)
  BY OnlyProperties
<1>2. PICK f : Picks(f, r, s, S, Len(s))
  BY OnlyProperties
<1>3. DOMAIN r = 1 .. Len(r) /\ DOMAIN s = 1 .. Len(s) /\ Len(r) \in Nat /\ Len(s) \in Nat
  BY <1>1
<1> HIDE DEF r
<1>4. ASSUME NEW x \in ToSet(r) PROVE x \in ToSet(s) \cap S
  <2>1. PICK k \in 1 .. Len(r) : r[k] = x
    BY <1>3 DEF ToSet
  <2>2. f[k] \in DOMAIN s /\ s[f[k]] = x /\ x \in S
    BY <1>2, <1>3, <2>1 DEF Picks
  <2> QED BY <2>2 DEF ToSet
<1>5. ASSUME NEW x \in ToSet(s) \cap S PROVE x \in ToSet(r)
  <2>1. PICK i \in 1 .. Len(s) : s[i] = x
    BY <1>3 DEF ToSet
  <2>2. PICK k \in 1 .. Len(r) : f[k] = i
    BY <1>2, <2>1 DEF Picks
  <2>3. k \in DOMAIN r /\ r[k] = x
    BY <1>2, <1>3, <2>1, <2>2 DEF Picks
  <2> QED BY <2>3 DEF ToSet
<1>6. Len(r) <= Len(s)
  <2> DEFINE T == {k \in 0 .. Len(r) : k = 0 \/ k <= f[k]}
  <2>1. 0 \in T /\ 0 \in Int /\ Len(r) \in Int
    BY <1>3
  <2>2. ASSUME NEW k \in 0 .. Len(r) - 1, k \in T PROVE k + 1 \in T
    <3>1. k + 1 \in 1 .. Len(r)
      BY <1>3
    <3>2. f[k + 1] \in 1 .. Len(s)
      BY <1>2, <3>1 DEF Picks
    <3>3. CASE k = 0
      BY <1>3, <3>1, <3>2, <3>3
    <3>4. CASE k # 0
      <4>1. k \in 1 .. Len(r) /\ k < k + 1
        BY <1>3, <3>4
      <4>2. f[k] < f[k + 1] /\ f[k] \in 1 .. Len(s) /\ k <= f[k]
        BY <1>2, <2>2, <3>1, <3>4, <4>1 DEF Picks
      <4> QED BY <1>3, <3>1, <3>2, <4>1, <4>2
    <3> QED BY <3>3, <3>4
  <2>3. 0 .. Len(r) \subseteq T
    <3> HIDE DEF T
    <3> QED BY <2>1, <2>2, RangeInduction
  <2>4. Len(r) \in T
    BY <1>3, <2>3
  <2>5. CASE Len(r) = 0
    BY <1>3, <2>5
  <2>6. CASE Len(r) # 0
    <3>1. Len(r) \in 1 .. Len(r) /\ Len(r) <= f[Len(r)]
      BY <1>3, <2>4, <2>6
    <3>2. f[Len(r)] \in 1 .. Len(s)
      BY <1>2, <3>1 DEF Picks
    <3> QED BY <1>3, <3>1, <3>2
  <2> QED BY <2>5, <2>6
<1> QED BY <1>1, <1>4, <1>5, <1>6 DEF r

-----------------------------------------------------------------------------
\* Induction over the subsets of a finite set, for a set of subsets.
LEMMA SubsetInduction ==
  ASSUME NEW S, IsFiniteSet(S), NEW T, {} \in T,
         \A s \in SUBSET S : \A x \in S \ s : s \in T => s \cup {x} \in T
  PROVE  S \in T
<1> DEFINE Z == {n \in 0 .. Cardinality(S) : \A s \in SUBSET S : Cardinality(s) = n => s \in T}
           N == Cardinality(S)
<1>1. N \in Nat /\ \A s \in SUBSET S : IsFiniteSet(s) /\ Cardinality(s) \in Nat
  BY FS_CardinalityType, FS_Subset
<1>2. 0 \in Z
  <2>1. \A s \in SUBSET S : Cardinality(s) = 0 => s = {}
    BY <1>1, FS_EmptySet
  <2> QED BY <1>1, <2>1
<1>3. ASSUME NEW n \in 0 .. N - 1, n \in Z PROVE n + 1 \in Z
  <2>1. SUFFICES ASSUME NEW s \in SUBSET S, Cardinality(s) = n + 1 PROVE s \in T
    BY <1>1, <1>3
  <2>2. PICK x \in s : TRUE
    BY <1>1, <1>3, <2>1, FS_EmptySet
  <2> DEFINE r == s \ {x}
  <2>3. r \in SUBSET S /\ x \in S \ r /\ r \cup {x} = s
    BY <2>2
  <2>4. Cardinality(r) = n
    <3>1. Cardinality(r) = Cardinality(s) - 1
      BY <1>1, <2>2, FS_RemoveElement
    <3> HIDE DEF r
    <3> QED BY <1>1, <2>1, <3>1
  <2>5. r \in T
    BY <1>3, <2>3, <2>4
  <2> HIDE DEF r
  <2> QED BY <2>3, <2>5
<1>4. N \in Z
  <2>1. 0 \in Int /\ N \in Int /\ N \in 0 .. N
    BY <1>1
  <2>2. 0 .. N \subseteq Z
    <3> HIDE DEF Z, N
    <3>1. \A n \in 0 .. N - 1 : n \in Z => n + 1 \in Z
      BY <1>3
    <3> QED BY <1>2, <2>1, <3>1, RangeInduction
  <2> QED BY <2>1, <2>2
<1> QED BY <1>4

\* The member of a set that a sum takes next.
Pick(s) == CHOOSE x \in s : TRUE

\* What a sum over a set adds up, for each of its subsets.
Sums(g, w, S) ==
  \A s \in SUBSET S : g[s] = IF s = {} THEN 0 ELSE w[Pick(s)] + g[s \ {Pick(s)}]

\* The sums of all subsets exist: the recursion behind SumFunctionOnSet has a
\* solution.
LEMMA SumsExist ==
  ASSUME NEW S, IsFiniteSet(S), NEW w, \A x \in S : w[x] \in Int
  PROVE  \E g \in [SUBSET S -> Int] : Sums(g, w, S)
<1> DEFINE N == Cardinality(S)
           U(n) == {s \in SUBSET S : Cardinality(s) <= n}
           Good(n) == \E g \in [U(n) -> Int] :
             \A s \in U(n) : g[s] = IF s = {} THEN 0 ELSE w[Pick(s)] + g[s \ {Pick(s)}]
           Z == {n \in 0 .. N : Good(n)}
<1>1. /\ N \in Nat
      /\ \A s \in SUBSET S : IsFiniteSet(s) /\ Cardinality(s) \in Nat /\ Cardinality(s) <= N
  BY FS_CardinalityType, FS_Subset
<1>2. ASSUME NEW s \in SUBSET S, s # {}
      PROVE  /\ Pick(s) \in s /\ Pick(s) \in S /\ s \ {Pick(s)} \in SUBSET S
             /\ Cardinality(s \ {Pick(s)}) = Cardinality(s) - 1
  <2>1. Pick(s) \in s
    BY <1>2 DEF Pick
  <2> QED BY <1>1, <2>1, FS_RemoveElement
<1>3. Good(0)
  <2> DEFINE g == [s \in U(0) |-> 0]
  <2>1. \A s \in U(0) : s = {}
    BY <1>1, FS_EmptySet
  <2>2. g \in [U(0) -> Int] /\ \A s \in U(0) : g[s] = 0
    OBVIOUS
  <2> HIDE DEF g
  <2> QED BY <2>1, <2>2
<1>4. ASSUME NEW n \in 0 .. N - 1, Good(n) PROVE Good(n + 1)
  <2>1. PICK g \in [U(n) -> Int] :
          \A s \in U(n) : g[s] = IF s = {} THEN 0 ELSE w[Pick(s)] + g[s \ {Pick(s)}]
    BY <1>4
  <2> DEFINE h == [s \in U(n + 1) |-> IF s \in U(n) THEN g[s]
                                      ELSE w[Pick(s)] + g[s \ {Pick(s)}]]
  <2>2. \A s \in U(n) : s \in U(n + 1)
    BY <1>1
  <2>3. ASSUME NEW s \in U(n + 1), s # {}
        PROVE  s \ {Pick(s)} \in U(n) /\ w[Pick(s)] \in Int /\ g[s \ {Pick(s)}] \in Int
    <3>1. Cardinality(s \ {Pick(s)}) = Cardinality(s) - 1 /\ Cardinality(s) <= n + 1
          /\ s \ {Pick(s)} \in SUBSET S /\ Pick(s) \in S
      BY <1>2, <2>3
    <3>2. s \ {Pick(s)} \in U(n)
      BY <1>1, <3>1
    <3> QED BY <2>1, <3>1, <3>2
  <2>4. {} \in U(n)
    BY FS_EmptySet
  <2> HIDE DEF U
  <2>5. h \in [U(n + 1) -> Int]
    <3>1. ASSUME NEW s \in U(n + 1) PROVE h[s] \in Int
      <4>1. CASE s \in U(n)
        BY <2>1, <4>1
      <4>2. CASE s \notin U(n)
        <5>1. w[Pick(s)] \in Int /\ g[s \ {Pick(s)}] \in Int
          BY <2>3, <2>4, <4>2
        <5> QED BY <4>2, <5>1
      <4> QED BY <4>1, <4>2
    <3>2. h = [s \in U(n + 1) |-> h[s]]
      OBVIOUS
    <3> HIDE DEF h
    <3> QED BY <3>1, <3>2
  <2>6. \A s \in U(n) : h[s] = g[s]
    BY <2>2
  <2>7. ASSUME NEW s \in U(n + 1)
        PROVE  h[s] = IF s = {} THEN 0 ELSE w[Pick(s)] + h[s \ {Pick(s)}]
    <3>1. CASE s = {}
      BY <2>1, <2>4, <2>6, <3>1
    <3>2. CASE s # {}
      <4>1. h[s \ {Pick(s)}] = g[s \ {Pick(s)}]
        BY <2>3, <2>6, <3>2
      <4>2. h[s] = w[Pick(s)] + g[s \ {Pick(s)}]
        BY <2>1, <3>2
      <4> QED BY <3>2, <4>1, <4>2
    <3> QED BY <3>1, <3>2
  <2> HIDE DEF h
  <2> QED BY <2>5, <2>7 DEF U
<1> HIDE DEF Good
<1>5. N \in Z
  <2>1. 0 \in Z /\ \A n \in 0 .. N - 1 : n \in Z => n + 1 \in Z
    BY <1>1, <1>3, <1>4
  <2>2. 0 \in Int /\ N \in Int /\ N \in 0 .. N
    BY <1>1
  <2>3. 0 .. N \subseteq Z
    <3> HIDE DEF Z, N
    <3> QED BY <2>1, <2>2, RangeInduction
  <2> QED BY <2>2, <2>3
<1>6. PICK g \in [U(N) -> Int] :
        \A s \in U(N) : g[s] = IF s = {} THEN 0 ELSE w[Pick(s)] + g[s \ {Pick(s)}]
  BY <1>5 DEF Good
<1>7. U(N) = SUBSET S
  BY <1>1
<1> HIDE DEF U
<1> QED BY <1>6, <1>7 DEF Sums

\* Two such sums agree on a set if what they add up agrees there.
LEMMA SumsAgree ==
  ASSUME NEW S, IsFiniteSet(S), NEW v, NEW w, NEW g, NEW h, NEW R, NEW Q,
         S \subseteq R, S \subseteq Q, Sums(g, v, R), Sums(h, w, Q),
         \A x \in S : v[x] = w[x]
  PROVE  g[S] = h[S]
<1> DEFINE N == Cardinality(S)
           Z == {n \in 0 .. N : \A s \in SUBSET S : Cardinality(s) = n => g[s] = h[s]}
<1>1. N \in Nat /\ \A s \in SUBSET S : IsFiniteSet(s) /\ Cardinality(s) \in Nat
  BY FS_CardinalityType, FS_Subset
<1>2. 0 \in Z
  <2>1. \A s \in SUBSET S : Cardinality(s) = 0 => s = {}
    BY <1>1, FS_EmptySet
  <2>2. g[{}] = 0 /\ h[{}] = 0
    <3>1. {} \in SUBSET R /\ {} \in SUBSET Q
      OBVIOUS
    <3> QED BY <3>1, Zenon DEF Sums
  <2> QED BY <1>1, <2>1, <2>2
<1>3. ASSUME NEW n \in 0 .. N - 1, n \in Z PROVE n + 1 \in Z
  <2>1. SUFFICES ASSUME NEW s \in SUBSET S, Cardinality(s) = n + 1 PROVE g[s] = h[s]
    BY <1>1, <1>3
  <2>2. s # {}
    BY <1>3, <2>1, FS_EmptySet
  <2>3. Pick(s) \in s
    BY <2>2 DEF Pick
  <2> DEFINE r == s \ {Pick(s)}
  <2>4. g[s] = v[Pick(s)] + g[r] /\ h[s] = w[Pick(s)] + h[r]
    <3>1. s \in SUBSET R /\ s \in SUBSET Q
      OBVIOUS
    <3>2. g[s] = v[Pick(s)] + g[r]
      BY <2>2, <3>1 DEF Sums
    <3>3. h[s] = w[Pick(s)] + h[r]
      BY <2>2, <3>1 DEF Sums
    <3> QED BY <3>2, <3>3
  <2>5. r \in SUBSET S /\ Cardinality(r) = n
    <3>1. r \in SUBSET S /\ Cardinality(r) = Cardinality(s) - 1
      BY <1>1, <2>3, FS_RemoveElement
    <3> HIDE DEF r
    <3> QED BY <1>1, <2>1, <3>1
  <2>6. v[Pick(s)] = w[Pick(s)] /\ g[r] = h[r]
    BY <1>3, <2>3, <2>5
  <2> QED BY <2>4, <2>6
<1>4. N \in Z
  <2>1. 0 \in Int /\ N \in Int /\ N \in 0 .. N
    BY <1>1
  <2>2. 0 .. N \subseteq Z
    <3> HIDE DEF Z, N
    <3>1. \A n \in 0 .. N - 1 : n \in Z => n + 1 \in Z
      BY <1>3
    <3> QED BY <1>2, <2>1, <3>1, RangeInduction
  <2> QED BY <2>1, <2>2
<1> QED BY <1>4

\* SumFunctionOnSet is such a sum.
LEMMA SumUnfolds ==
  ASSUME NEW S, IsFiniteSet(S), NEW w, \A x \in S : w[x] \in Int
  PROVE  \E g \in [SUBSET S -> Int] : Sums(g, w, S) /\ SumFunctionOnSet(w, S) = g[S]
<1> DEFINE next(g, s) == IF s = {} THEN 0 ELSE w[Pick(s)] + g[s \ {Pick(s)}]
           Def(g) == [s \in SUBSET S |-> next(g, s)]
           K == CHOOSE g : g = Def(g)
<1>1. SumFunctionOnSet(w, S) = K[S]
  BY DEF SumFunctionOnSet, FoldFunctionOnSet, MapThenFoldSet, Pick
<1>2. PICK g \in [SUBSET S -> Int] : Sums(g, w, S)
  BY SumsExist
<1>3. g = Def(g)
  <2>1. \A s \in SUBSET S : g[s] = next(g, s)
    BY <1>2 DEF Sums
  <2> HIDE DEF next
  <2> QED BY <2>1
<1>4. K = Def(K)
  <2> HIDE DEF Def
  <2> QED BY <1>3
<1> HIDE DEF K
<1>5. Sums(K, w, S)
  <2>1. \A s \in SUBSET S : Def(K)[s] = next(K, s)
    <3> HIDE DEF next
    <3> QED OBVIOUS
  <2>2. \A s \in SUBSET S : K[s] = next(K, s)
    BY <1>4, <2>1
  <2> QED BY <2>2 DEF Sums
<1>6. K[S] = g[S]
  BY <1>2, <1>5, SumsAgree
<1> QED BY <1>1, <1>2, <1>6

\* Sums are numbers, the order of adding does not matter, and what is added
\* twice over two sets is what is added over both.
LEMMA SumOfEmpty == ASSUME NEW w PROVE SumFunctionOnSet(w, {}) = 0
<1>1. IsFiniteSet({}) /\ \A x \in {} : w[x] \in Int
  BY FS_EmptySet
<1>2. PICK g \in [SUBSET {} -> Int] : Sums(g, w, {}) /\ SumFunctionOnSet(w, {}) = g[{}]
  BY <1>1, SumUnfolds, Zenon
<1> QED BY <1>2 DEF Sums

\* So the sum over a set depends on nothing but the numbers of its members,
LEMMA SumSame ==
  ASSUME NEW S, IsFiniteSet(S), NEW v, NEW w,
         \A x \in S : v[x] = w[x] /\ w[x] \in Int
  PROVE  SumFunctionOnSet(v, S) = SumFunctionOnSet(w, S)
<1>1. PICK g \in [SUBSET S -> Int] : Sums(g, v, S) /\ SumFunctionOnSet(v, S) = g[S]
  BY SumUnfolds
<1>2. PICK h \in [SUBSET S -> Int] : Sums(h, w, S) /\ SumFunctionOnSet(w, S) = h[S]
  BY SumUnfolds
<1> QED BY <1>1, <1>2, SumsAgree

\* One more member: the sum grows by what it weighs.
LEMMA SumAdd ==
  ASSUME NEW S, IsFiniteSet(S), NEW w, \A y \in S : w[y] \in Int,
         NEW x, x \notin S, w[x] \in Int
  PROVE  /\ SumFunctionOnSet(w, S) \in Int
         /\ SumFunctionOnSet(w, S \cup {x}) = SumFunctionOnSet(w, S) + w[x]
<1> DEFINE U == S \cup {x}
<1>1. IsFiniteSet(U) /\ \A y \in U : w[y] \in Int
  BY FS_AddElement
<1>2. PICK g \in [SUBSET U -> Int] : Sums(g, w, U) /\ SumFunctionOnSet(w, U) = g[U]
  BY <1>1, SumUnfolds
<1>3. SumFunctionOnSet(w, S) = g[S] /\ g[S] \in Int
  <2>1. PICK h \in [SUBSET S -> Int] : Sums(h, w, S) /\ SumFunctionOnSet(w, S) = h[S]
    BY SumUnfolds
  <2>2. h[S] = g[S]
    BY <1>2, <2>1, SumsAgree
  <2>3. S \in SUBSET U
    OBVIOUS
  <2> QED BY <1>2, <2>1, <2>2, <2>3
<1> DEFINE N == Cardinality(S)
           Adds(s) == \A z \in U \ s : g[s \cup {z}] = g[s] + w[z]
           Z == {n \in 0 .. N : \A s \in SUBSET U : Cardinality(s) = n => Adds(s)}
<1>4. N \in Nat /\ \A s \in SUBSET U : IsFiniteSet(s) /\ Cardinality(s) \in Nat
  BY <1>1, FS_CardinalityType, FS_Subset
<1>5. \A s \in SUBSET U : s # {} => Pick(s) \in s /\ g[s] = w[Pick(s)] + g[s \ {Pick(s)}]
  BY <1>2 DEF Sums, Pick
<1>6. g[{}] = 0
  <2>1. {} \in SUBSET U
    OBVIOUS
  <2> QED BY <1>2, <2>1, Zenon DEF Sums
<1> HIDE DEF U
<1>7. 0 \in Z
  <2>0. \A s \in SUBSET U : Cardinality(s) = 0 => s = {}
    BY <1>4, FS_EmptySet
  <2>1. SUFFICES ASSUME NEW z \in U PROVE g[{} \cup {z}] = g[{}] + w[z]
    <3>1. 0 \in 0 .. N
      BY <1>4
    <3>2. Adds({})
      BY <2>1
    <3>3. \A s \in SUBSET U : Cardinality(s) = 0 => Adds(s)
      BY <2>0, <3>2
    <3> HIDE DEF N, Adds
    <3> QED BY <3>1, <3>3
  <2>2. {z} \in SUBSET U /\ {z} # {} /\ Pick({z}) = z
    BY <1>5
  <2>3. g[{z}] = w[z] + g[{z} \ {z}]
    BY <1>5, <2>2
  <2>4. {z} \ {z} = {} /\ {} \cup {z} = {z}
    OBVIOUS
  <2>5. w[z] \in Int
    BY <1>1
  <2>6. g[{z} \ {z}] = g[{}] /\ g[{} \cup {z}] = g[{z}]
    BY <2>4
  <2> QED BY <1>6, <2>3, <2>5, <2>6
<1>8. ASSUME NEW n \in 0 .. N - 1, n \in Z PROVE n + 1 \in Z
  <2>1. SUFFICES ASSUME NEW s \in SUBSET U, Cardinality(s) = n + 1, NEW z \in U \ s
                 PROVE  g[s \cup {z}] = g[s] + w[z]
    BY <1>4, <1>8
  <2> DEFINE t == s \cup {z}
             y == Pick(t)
             r == s \ {y}
  <2>2. t \in SUBSET U /\ t # {} /\ y \in t /\ g[t] = w[y] + g[t \ {y}]
    BY <1>5
  <2>3. w[y] \in Int /\ w[z] \in Int
    BY <1>1, <2>2
  <2> HIDE DEF y
  <2>4. CASE y = z
    <3>1. t \ {y} = s
      BY <2>4
    <3>2. g[s] \in Int
      BY <1>2
    <3>3. g[t] = w[z] + g[s]
      BY <2>2, <2>4, <3>1
    <3> HIDE DEF t
    <3>4. w[z] + g[s] = g[s] + w[z]
      BY <2>3, <3>2
    <3> QED BY <3>3, <3>4 DEF t
  <2>5. CASE y # z
    <3>1. y \in s /\ y \in U /\ r \in SUBSET U /\ z \in U \ r /\ y \in U \ r
      BY <2>2, <2>5
    <3>2. r \cup {y} = s /\ t \ {y} = r \cup {z}
      BY <2>5, <3>1
    <3>3. Cardinality(r) = Cardinality(s) - 1
      BY <1>4, <3>1, FS_RemoveElement
    <3> HIDE DEF r
    <3>4. Cardinality(r) = n
      BY <1>4, <2>1, <3>3
    <3>41. Adds(r)
      BY <1>8, <3>1, <3>4
    <3>5. g[r \cup {z}] = g[r] + w[z] /\ g[r \cup {y}] = g[r] + w[y] /\ g[r] \in Int
      BY <1>2, <3>1, <3>41
    <3>6. g[t] = w[y] + (g[r] + w[z]) /\ g[s] = g[r] + w[y]
      BY <2>2, <3>2, <3>5
    <3> QED BY <2>3, <3>5, <3>6
  <2> QED BY <2>4, <2>5
<1>9. N \in Z
  <2>1. 0 \in Int /\ N \in Int /\ N \in 0 .. N
    BY <1>4
  <2>2. 0 .. N \subseteq Z
    <3> HIDE DEF Z, N
    <3>1. \A n \in 0 .. N - 1 : n \in Z => n + 1 \in Z
      BY <1>8
    <3> QED BY <1>7, <2>1, <3>1, RangeInduction
  <2> QED BY <2>1, <2>2
<1>10. Adds(S)
  BY <1>9 DEF U
<1> QED BY <1>2, <1>3, <1>10 DEF U

\* it is a number,
LEMMA SumInt ==
  ASSUME NEW S, IsFiniteSet(S), NEW w, \A y \in S : w[y] \in Int
  PROVE  SumFunctionOnSet(w, S) \in Int
<1>1. PICK g \in [SUBSET S -> Int] : Sums(g, w, S) /\ SumFunctionOnSet(w, S) = g[S]
  BY SumUnfolds
<1>2. S \in SUBSET S
  OBVIOUS
<1> QED BY <1>1, <1>2

\* and a natural one if they are;
LEMMA SumNat ==
  ASSUME NEW S, IsFiniteSet(S), NEW w, \A y \in S : w[y] \in Nat
  PROVE  SumFunctionOnSet(w, S) \in Nat
<1> DEFINE T == {s \in SUBSET S : SumFunctionOnSet(w, s) \in Nat}
<1>1. {} \in T
  BY SumOfEmpty
<1>2. ASSUME NEW s \in SUBSET S, NEW x \in S \ s, s \in T PROVE s \cup {x} \in T
  <2>1. IsFiniteSet(s)
    BY FS_Subset
  <2>2. SumFunctionOnSet(w, s \cup {x}) = SumFunctionOnSet(w, s) + w[x]
    BY <2>1, SumAdd
  <2> QED BY <1>2, <2>2
<1>3. S \in T
  <2> HIDE DEF T
  <2> QED BY <1>1, <1>2, SubsetInduction
<1> QED BY <1>3

\* and over two sets without a common member it is the sum of the two sums.
LEMMA SumUnion ==
  ASSUME NEW R, NEW S, IsFiniteSet(R), IsFiniteSet(S), R \cap S = {},
         NEW w, \A y \in R \cup S : w[y] \in Int
  PROVE  SumFunctionOnSet(w, R \cup S) = SumFunctionOnSet(w, R) + SumFunctionOnSet(w, S)
<1> DEFINE F(s) == SumFunctionOnSet(w, s)
           T == {s \in SUBSET S : F(R \cup s) = F(R) + F(s)}
<1>0. \A s \in SUBSET S : IsFiniteSet(s) /\ IsFiniteSet(R \cup s) /\ F(s) \in Int /\ F(R) \in Int
  BY FS_Subset, FS_Union, SumInt
<1>1. {} \in T
  <2>1. F({}) = 0 /\ R \cup {} = R
    BY SumOfEmpty
  <2> HIDE DEF F
  <2>2. F(R) \in Int
    BY <1>0
  <2>3. F(R \cup {}) = F(R) + F({})
    BY <2>1, <2>2
  <2> QED BY <2>3
<1>2. ASSUME NEW s \in SUBSET S, NEW x \in S \ s, s \in T PROVE s \cup {x} \in T
  <2>1. F(s \cup {x}) = F(s) + w[x] /\ w[x] \in Int
    BY <1>0, SumAdd
  <2>2. x \notin R \cup s
    OBVIOUS
  <2>3. F((R \cup s) \cup {x}) = F(R \cup s) + w[x]
    BY <1>0, <2>2, SumAdd
  <2>4. (R \cup s) \cup {x} = R \cup (s \cup {x})
    OBVIOUS
  <2> HIDE DEF F
  <2>5. F(R \cup s) = F(R) + F(s) /\ F(R) \in Int /\ F(s) \in Int
    BY <1>0, <1>2
  <2>6. F(R \cup (s \cup {x})) = F(R) + F(s \cup {x})
    <3>1. F(R \cup (s \cup {x})) = F((R \cup s) \cup {x})
      BY <2>4, Zenon
    <3>2. F(R \cup (s \cup {x})) = F(R \cup s) + w[x]
      BY <2>3, <3>1, Zenon
    <3> DEFINE a == F(R \cup (s \cup {x}))
               b == F(R \cup s)
               r == F(R)
               f == F(s)
               g == F(s \cup {x})
               v == w[x]
    <3>3. a = b + v /\ b = r + f /\ g = f + v /\ r \in Int /\ f \in Int /\ v \in Int
      BY <2>1, <2>5, <3>2, Zenon
    <3> HIDE DEF a, b, r, f, g, v
    <3>4. a = r + g
      BY <3>3
    <3> QED BY <3>4, Zenon DEF a, r, g
  <2>7. s \cup {x} \in SUBSET S
    OBVIOUS
  <2> QED BY <2>6, <2>7
<1>3. S \in T
  <2> HIDE DEF T
  <2> QED BY <1>1, <1>2, SubsetInduction
<1> QED BY <1>3

-----------------------------------------------------------------------------
(* Lists of lists.                                                         *)

\* K[n] is what the first n lists of s make, one after the other.
Flattening(K, s, S) ==
  /\ K[1] = s[1]
  /\ \A n \in 1 .. Len(s) - 1 : K[n + 1] = K[n] \o s[n + 1]
  /\ \A n \in 1 .. Len(s) : K[n] \in Seq(S)

\* FlattenSeq, one list after the other.
LEMMA FlattenUnfolds ==
  ASSUME NEW S, NEW s \in Seq(Seq(S)), s # << >>
  PROVE  \E K : FlattenSeq(s) = K[Len(s)] /\ Flattening(K, s, S)
<1> DEFINE L == Len(s)
           step == [n \in 1 .. L |-> [v \in Seq(S) |-> v \o s[n]]]
           Def(g) == [n \in 1 .. L |-> IF n = 1 THEN s[n] ELSE g[n - 1] \o s[n]]
           K == CHOOSE g : g = Def(g)
<1>1. L \in Nat \ {0} /\ \A n \in 1 .. L : s[n] \in Seq(S)
  <2>1. L \in Nat \ {0}
    BY EmptySeq
  <2>2. ASSUME NEW n \in 1 .. L PROVE s[n] \in Seq(S)
    BY ElementOfSeq
  <2> QED BY <2>1, <2>2
<1>2. FlattenSeq(s) = K[L]
  BY <1>1 DEF FlattenSeq
<1> HIDE DEF L
<1>3. PICK g \in [0 .. L -> Seq(S)] : g[0] = << >> /\ \A n \in 1 .. L : g[n] = step[n][g[n - 1]]
  <2> DEFINE T == Seq(S)
             nil == << >>
  <2>1. \A n \in 1 .. L : \A v \in T : v \o s[n] \in T
    BY <1>1, ConcatProperties
  <2>2. step \in Steps(L, T) /\ nil \in T /\ L \in Nat
    BY <1>1, <2>1 DEF Steps
  <2> HIDE DEF step, T, nil, Def, K
  <2>3. Runs(L, T, nil, step) # {}
    BY <2>2, RangeRecursion
  <2> QED BY <2>3 DEF Runs, T, nil
<1>4. \A n \in 1 .. L : g[n] \in Seq(S) /\ g[n] = g[n - 1] \o s[n]
  <2>1. ASSUME NEW n \in 1 .. L PROVE g[n] \in Seq(S) /\ g[n] = g[n - 1] \o s[n]
    <3>1. n - 1 \in 0 .. L /\ n \in 0 .. L
      BY <1>1
    <3>2. step[n][g[n - 1]] = g[n - 1] \o s[n]
      BY <1>3, <3>1
    <3> QED BY <1>3, <3>1, <3>2
  <2> QED BY <2>1
<1>5. g[1] = s[1]
  <2>1. 1 \in 1 .. L /\ 1 - 1 = 0 /\ s[1] \in Seq(S)
    BY <1>1
  <2>2. g[1] = g[1 - 1] \o s[1]
    BY <1>4, <2>1
  <2>3. g[1] = << >> \o s[1]
    BY <1>3, <2>1, <2>2
  <2>4. << >> \o s[1] = s[1]
    BY <2>1
  <2> QED BY <2>3, <2>4
<1> DEFINE h == [n \in 1 .. L |-> g[n]]
<1>6. h = Def(h)
  <2>1. ASSUME NEW n \in 1 .. L PROVE h[n] = IF n = 1 THEN s[n] ELSE h[n - 1] \o s[n]
    <3>1. CASE n = 1
      BY <1>5, <3>1
    <3>2. CASE n # 1
      <4>1. n - 1 \in 1 .. L /\ h[n - 1] = g[n - 1] /\ h[n] = g[n]
        BY <1>1, <3>2
      <4> QED BY <1>4, <3>2, <4>1
    <3> QED BY <3>1, <3>2
  <2> QED BY <2>1
<1> HIDE DEF h, step
<1>7. K = Def(K)
  <2> HIDE DEF Def
  <2> QED BY <1>6
<1> HIDE DEF K
<1>8. K[1] = s[1] /\ \A n \in 2 .. L : K[n] = K[n - 1] \o s[n]
  <2>1. \A n \in 1 .. L : K[n] = IF n = 1 THEN s[n] ELSE K[n - 1] \o s[n]
    BY <1>7
  <2>2. 1 \in 1 .. L /\ \A n \in 2 .. L : n \in 1 .. L /\ n # 1
    BY <1>1
  <2> QED BY <2>1, <2>2
<1>9. ASSUME NEW n \in 1 .. L - 1 PROVE K[n + 1] = K[n] \o s[n + 1]
  <2> DEFINE m == n + 1
  <2>1. m \in 2 .. L /\ m - 1 = n
    BY <1>1
  <2> HIDE DEF m
  <2>2. K[m] = K[n] \o s[m]
    BY <1>8, <2>1
  <2> QED BY <2>2 DEF m
<1>10. 1 .. L \subseteq {n \in 1 .. L : K[n] \in Seq(S)}
  <2> DEFINE T == {n \in 1 .. L : K[n] \in Seq(S)}
  <2>1. 1 \in T
    BY <1>1, <1>8
  <2>2. ASSUME NEW n \in 1 .. L - 1, n \in T PROVE n + 1 \in T
    <3>1. n + 1 \in 1 .. L
      BY <1>1
    <3>2. K[n + 1] = K[n] \o s[n + 1] /\ K[n] \in Seq(S) /\ s[n + 1] \in Seq(S)
      BY <1>1, <1>9, <2>2, <3>1
    <3>3. K[n] \o s[n + 1] \in Seq(S)
      BY <3>2, ConcatProperties
    <3> QED BY <3>1, <3>2, <3>3
  <2> HIDE DEF T
  <2>3. 1 \in Int /\ L \in Int
    BY <1>1
  <2>4. 1 .. L \subseteq T
    BY <2>1, <2>2, <2>3, RangeInduction
  <2> QED BY <2>4 DEF T
<1> QED BY <1>2, <1>8, <1>9, <1>10 DEF L, Flattening

\* Another list goes to the end.
LEMMA FlattenAppend ==
  ASSUME NEW S, NEW s \in Seq(Seq(S)), NEW x \in Seq(S)
  PROVE  FlattenSeq(Append(s, x)) = FlattenSeq(s) \o x /\ FlattenSeq(s) \in Seq(S)
<1> DEFINE t == Append(s, x)
           n == Len(s)
<1>1. /\ t \in Seq(Seq(S)) /\ Len(t) = n + 1 /\ t[n + 1] = x /\ n \in Nat
      /\ \A i \in 1 .. n : t[i] = s[i]
  BY AppendProperties
<1>2. t # << >>
  BY <1>1, EmptySeq
<1> HIDE DEF t
<1>3. PICK K : FlattenSeq(t) = K[Len(t)] /\ Flattening(K, t, S)
  BY <1>1, <1>2, FlattenUnfolds
<1>4. FlattenSeq(t) = K[n + 1] /\ K[1] = t[1]
      /\ \A i \in 1 .. n : K[i + 1] = K[i] \o t[i + 1]
  <2> DEFINE m == Len(t)
  <2>1. m = n + 1 /\ 1 .. m - 1 = 1 .. n
    BY <1>1
  <2>2. FlattenSeq(t) = K[m] /\ K[1] = t[1]
        /\ \A i \in 1 .. m - 1 : K[i + 1] = K[i] \o t[i + 1]
    BY <1>3 DEF Flattening
  <2> HIDE DEF m, n
  <2> QED BY <2>1, <2>2
<1>5. CASE s = << >>
  <2>1. n = 0 /\ FlattenSeq(s) = << >>
    BY <1>5 DEF FlattenSeq
  <2>2. FlattenSeq(t) = x
    BY <1>1, <1>4, <2>1
  <2>3. << >> \o x = x /\ << >> \in Seq(S)
    OBVIOUS
  <2> QED BY <2>1, <2>2, <2>3 DEF t
<1>6. CASE s # << >>
  <2>1. n \in Nat \ {0}
    BY <1>1, <1>6, EmptySeq
  <2>2. PICK J : FlattenSeq(s) = J[n] /\ Flattening(J, s, S)
    BY <1>6, FlattenUnfolds
  <2>3. /\ J[1] = s[1]
        /\ \A i \in 1 .. n - 1 : J[i + 1] = J[i] \o s[i + 1]
        /\ \A i \in 1 .. n : J[i] \in Seq(S)
    BY <2>2 DEF Flattening
  <2>4. 1 .. n \subseteq {i \in 1 .. n : K[i] = J[i]}
    <3> DEFINE T == {i \in 1 .. n : K[i] = J[i]}
    <3>1. 1 \in T
      BY <1>1, <1>4, <2>1, <2>3
    <3>2. ASSUME NEW i \in 1 .. n - 1, i \in T PROVE i + 1 \in T
      <4>1. i \in 1 .. n /\ i + 1 \in 1 .. n
        BY <2>1
      <4>2. K[i + 1] = K[i] \o t[i + 1] /\ J[i + 1] = J[i] \o s[i + 1]
        BY <1>4, <2>3, <4>1
      <4>3. t[i + 1] = s[i + 1] /\ K[i] = J[i]
        BY <1>1, <3>2, <4>1
      <4> QED BY <4>1, <4>2, <4>3
    <3> HIDE DEF T
    <3>3. 1 \in Int /\ n \in Int
      BY <1>1
    <3> HIDE DEF n
    <3>4. 1 .. n \subseteq T
      BY <3>1, <3>2, <3>3, RangeInduction
    <3> QED BY <3>4 DEF T
  <2>5. K[n] = J[n] /\ J[n] \in Seq(S)
    <3>1. n \in 1 .. n
      BY <2>1
    <3> QED BY <2>3, <2>4, <3>1
  <2>6. K[n + 1] = K[n] \o x
    <3>1. n \in 1 .. n
      BY <2>1
    <3> QED BY <1>1, <1>4, <3>1
  <2> QED BY <1>4, <2>2, <2>5, <2>6 DEF t
<1> QED BY <1>5, <1>6

-----------------------------------------------------------------------------
(* Lists of timed events and the order of their times, for EventList,      *)
(* QueueList and GameTime.                                                 *)

\* Things with a time.
Timed(S) == \A x \in S : x.time \in Int

\* The times in a list of such things are numbers.
LEMMA TimesOf ==
  ASSUME NEW S, Timed(S), NEW s \in Seq(S)
  PROVE  \A k \in 1 .. Len(s) : s[k] \in S /\ s[k].time \in Int
<1>1. ASSUME NEW k \in 1 .. Len(s)
      PROVE  s[k] \in S
  BY ElementOfSeq
<1> QED
  BY <1>1 DEF Timed

\* An event linked at an ordered place leaves the list in order.
LEMMA InsertKeepsOrder ==
  ASSUME NEW S, Timed(S), NEW s \in Seq(S), InOrder(s), NEW e \in S,
         NEW p \in 1 .. Len(s) + 1, OrderedPlace(s, e.time, p)
  PROVE  InOrder(InsertAt(s, p, e))
<1> DEFINE r == InsertAt(s, p, e)
<1>1. /\ Len(s) \in Nat /\ Len(r) = Len(s) + 1
      /\ \A j \in 1 .. Len(s) + 1 :
           r[j] = IF j < p THEN s[j] ELSE IF j = p THEN e ELSE s[j - 1]
  <2>1. Len(s) \in Nat
    OBVIOUS
  <2> DEFINE T == S
  <2>2. s \in Seq(T) /\ e \in T
    OBVIOUS
  <2> HIDE DEF T
  <2>3. /\ InsertAt(s, p, e) \in Seq(T)
        /\ Len(InsertAt(s, p, e)) = Len(s) + 1
        /\ \A j \in 1 .. Len(s) + 1 :
             InsertAt(s, p, e)[j] = IF j < p THEN s[j] ELSE IF j = p THEN e ELSE s[j - 1]
    BY <2>2, InsertAtIndex
  <2> QED BY <2>1, <2>3
<1>2. /\ \A k \in 1 .. Len(s) - 1 : s[k].time <= s[k + 1].time
      /\ p > 1 => s[p - 1].time <= e.time
      /\ p <= Len(s) => e.time <= s[p].time
  BY DEF InOrder, OrderedPlace
<1> HIDE DEF r
<1>3. ASSUME NEW j \in 1 .. Len(s)
      PROVE  r[j].time <= r[j + 1].time
  <2>1. CASE j + 1 < p
    BY <1>1, <1>2, <2>1
  <2>2. CASE j + 1 = p
    BY <1>1, <1>2, <2>2
  <2>3. CASE j = p
    <3>1. r[j] = e /\ r[j + 1] = s[j]
      BY <1>1, <2>3
    <3> QED BY <1>1, <1>2, <2>3, <3>1
  <2>4. CASE j > p
    <3>1. r[j] = s[j - 1] /\ r[j + 1] = s[j]
      BY <1>1, <2>4
    <3>2. j - 1 \in 1 .. Len(s) - 1 /\ j - 1 + 1 = j
      BY <1>1, <2>4
    <3>3. s[j - 1].time <= s[j].time
      BY <1>2, <3>2
    <3> QED BY <3>1, <3>3
  <2> QED BY <1>1, <2>1, <2>2, <2>3, <2>4
<1> QED
  BY <1>1, <1>3 DEF InOrder, r

\* Taking an event out leaves the list in order.
LEMMA RemoveKeepsOrder ==
  ASSUME NEW S, Timed(S), NEW s \in Seq(S), InOrder(s), NEW i \in 1 .. Len(s)
  PROVE  InOrder(RemoveAt(s, i))
<1> DEFINE r == RemoveAt(s, i)
<1>1. /\ Len(s) \in Nat /\ Len(r) = Len(s) - 1
      /\ \A j \in 1 .. Len(s) - 1 : r[j] = IF j < i THEN s[j] ELSE s[j + 1]
  BY RemoveAtIndex
<1>2. \A k \in 1 .. Len(s) - 1 : s[k].time <= s[k + 1].time
  BY DEF InOrder
<1> HIDE DEF r
<1>3. ASSUME NEW j \in 1 .. Len(s) - 2
      PROVE  r[j].time <= r[j + 1].time
  <2>1. s[j].time \in Int /\ s[j + 1].time \in Int /\ s[j + 2].time \in Int
    <3>1. j \in 1 .. Len(s) /\ j + 1 \in 1 .. Len(s) /\ j + 2 \in 1 .. Len(s)
      BY <1>1
    <3> QED BY <3>1, TimesOf
  <2>2. s[j].time <= s[j + 1].time
    BY <1>1, <1>2
  <2>3. s[j + 1].time <= s[j + 2].time
    <3>1. j + 1 \in 1 .. Len(s) - 1 /\ j + 1 + 1 = j + 2
      BY <1>1
    <3> QED BY <1>2, <3>1
  <2>4. CASE j + 1 < i
    BY <1>1, <2>2, <2>4
  <2>5. CASE j + 1 = i
    BY <1>1, <2>1, <2>2, <2>3, <2>5
  <2>6. CASE j >= i
    <3>1. r[j] = s[j + 1] /\ r[j + 1] = s[j + 2]
      BY <1>1, <2>6
    <3> QED BY <2>3, <3>1
  <2> QED BY <1>1, <2>4, <2>5, <2>6
<1> QED
  BY <1>1, <1>3 DEF InOrder, r

\* A stable place is an ordered one.
LEMMA StableIsOrdered ==
  ASSUME NEW S, Timed(S), NEW s \in Seq(S), NEW t \in Int, NEW p, StablePlace(s, t, p)
  PROVE  OrderedPlace(s, t, p)
<1>1. /\ p \in 1 .. Len(s) + 1
      /\ p > 1 => s[p - 1].time <= t
      /\ p <= Len(s) => t < s[p].time
  BY DEF StablePlace
<1>2. p <= Len(s) => t <= s[p].time
  BY <1>1, TimesOf
<1> QED
  BY <1>1, <1>2 DEF OrderedPlace

\* In an ordered list an earlier place is an earlier or an equal time.
LEMMA OrderedPairs ==
  ASSUME NEW S, Timed(S), NEW s \in Seq(S), InOrder(s), NEW i \in 1 .. Len(s), NEW j \in i .. Len(s)
  PROVE  s[i].time <= s[j].time
<1> DEFINE L == Len(s)
           T == {k \in i .. L : s[i].time <= s[k].time}
<1>1. L \in Nat /\ \A k \in 1 .. L : s[k].time \in Int
  BY TimesOf
<1>2. i \in T /\ i \in Int /\ L \in Int
  BY <1>1
<1>3. ASSUME NEW k \in i .. L - 1, k \in T PROVE k + 1 \in T
  <2>1. k \in 1 .. L - 1 /\ k \in 1 .. L /\ k + 1 \in 1 .. L /\ k + 1 \in i .. L
    BY <1>1
  <2>2. s[k].time <= s[k + 1].time
    BY <2>1 DEF InOrder
  <2>3. s[i].time <= s[k].time
    BY <1>3
  <2>4. s[i].time <= s[k + 1].time
    BY <1>1, <2>1, <2>2, <2>3
  <2> QED BY <2>1, <2>4
<1> HIDE DEF T, L
<1>4. i .. L \subseteq T
  BY <1>2, <1>3, RangeInduction
<1> QED BY <1>4 DEF T, L

\* queue_add finds a place for every time.
LEMMA StablePlaceExists ==
  ASSUME NEW S, Timed(S), NEW s \in Seq(S), NEW t \in Int
  PROVE  \E p \in 1 .. Len(s) + 1 : StablePlace(s, t, p)
<1> DEFINE T == {p \in 1 .. Len(s) + 1 : p <= Len(s) => t < s[p].time}
<1>1. /\ Len(s) \in Nat /\ t \in Int
      /\ \A k \in 1 .. Len(s) : s[k].time \in Int
  BY TimesOf
<1>2. T \in SUBSET Nat /\ Len(s) + 1 \in T
  BY <1>1
<1>3. PICK p \in T : \A q \in T : p <= q
  <2> HIDE DEF T
  <2> QED BY <1>2, LeastNumber
<1>4. p \in 1 .. Len(s) + 1 /\ (p <= Len(s) => t < s[p].time)
  OBVIOUS
<1>5. ASSUME p > 1 PROVE s[p - 1].time <= t
  <2>1. p - 1 \in 1 .. Len(s) /\ ~(p <= p - 1)
    BY <1>1, <1>4, <1>5
  <2>2. p - 1 \notin T
    BY <1>3, <2>1
  <2>3. ~(t < s[p - 1].time)
    BY <1>1, <2>1, <2>2
  <2> QED BY <1>1, <2>1, <2>3
<1> QED BY <1>4, <1>5 DEF StablePlace

\* The rest of an ordered list is ordered, and so is the part a loop keeps.
LEMMA TailKeepsOrder ==
  ASSUME NEW S, Timed(S), NEW s \in Seq(S), InOrder(s), s # << >>
  PROVE  InOrder(Tail(s))
<1>1. /\ Len(s) \in Nat \ {0} /\ Len(Tail(s)) = Len(s) - 1
      /\ \A j \in 1 .. Len(s) - 1 : Tail(s)[j] = s[j + 1]
  BY TailSet
<1>2. ASSUME NEW i \in 1 .. Len(Tail(s)) - 1
      PROVE  Tail(s)[i].time <= Tail(s)[i + 1].time
  <2>1. /\ i \in 1 .. Len(s) - 1 /\ i + 1 \in 1 .. Len(s) - 1
    BY <1>1
  <2>2. Tail(s)[i] = s[i + 1] /\ Tail(s)[i + 1] = s[i + 1 + 1]
    BY <1>1, <2>1
  <2>3. s[i + 1].time <= s[i + 1 + 1].time
    BY <2>1 DEF InOrder
  <2> QED BY <2>2, <2>3
<1> QED BY <1>2 DEF InOrder

\* A queue in order from which events are removed is in order.
LEMMA OnlyKeepsOrder ==
  ASSUME NEW S, Timed(S), NEW s \in Seq(S), InOrder(s), NEW K
  PROVE  InOrder(Only(s, K))
<1> DEFINE r == Only(s, K)
<1>1. PICK f : Picks(f, r, s, K, Len(s))
  BY OnlyProperties
<1>2. Len(r) \in Nat /\ Len(s) \in Nat
  BY OnlyProperties
<1> HIDE DEF r
<1>3. ASSUME NEW i \in 1 .. Len(r) - 1 PROVE r[i].time <= r[i + 1].time
  <2>1. i \in 1 .. Len(r) /\ i + 1 \in 1 .. Len(r) /\ i < i + 1
    BY <1>2
  <2>2. f[i] \in 1 .. Len(s) /\ f[i + 1] \in 1 .. Len(s) /\ f[i] < f[i + 1]
    BY <1>1, <2>1 DEF Picks
  <2>3. r[i] = s[f[i]] /\ r[i + 1] = s[f[i + 1]]
    BY <1>1, <2>1 DEF Picks
  <2>4. f[i + 1] \in f[i] .. Len(s)
    BY <2>2
  <2>5. s[f[i]].time <= s[f[i + 1]].time
    BY <2>2, <2>4, OrderedPairs
  <2> QED BY <2>3, <2>5
<1> QED BY <1>3 DEF InOrder, r

=============================================================================
