---------------------------- MODULE QueueListProofs ----------------------------
(***************************************************************************)
(* Proofs about QueueList, for every number of nodes, of times and of      *)
(* nested calls, where callbacks of queue_clear_type add and remove events *)
(* (PlainCallbacks) and handlers do anything: no re-entrant call loses an  *)
(* event or leaves a freed one linked, the pointers of a suspended         *)
(* queue_clear_type stay good unless its callback frees what they point    *)
(* to, and the linked list implements EventList.                           *)
(***************************************************************************)
EXTENDS QueueList, ListProofs

\* The slot a steps down the list c, and the node b steps down.
SlotAt(c, a) == IF a = 0 THEN HEAD ELSE c[a]
LinkAt(c, b) == IF b \in 1 .. Len(c) THEN c[b] ELSE NULL

\* From HEAD the pointers nx lead through the nodes of c, each once, to NULL.
Links(nx, c) ==
  /\ c \in Seq(Node)
  /\ \A i, j \in 1 .. Len(c) : c[i] = c[j] => i = j
  /\ \A a \in 0 .. Len(c) : nx[SlotAt(c, a)] = LinkAt(c, a + 1)

\* The node a call in progress owns.
HeldNode(f) ==
  IF f.op \in {"add", "process"} THEN f.node ELSE IF f.op = "clear" THEN f.tmp ELSE NULL

\* A queue_clear_type stands at slot a and goes on with node b. What is between
\* them its callback has queued. The node in its hands still leads to b, and
\* belongs between a and b.
ClearAt(f, c, nx, r, cs, a, b) ==
  /\ a < b /\ f.ptr = SlotAt(c, a) /\ f.curr = LinkAt(c, b)
  /\ "add" \notin cs => b = a + 1
  /\ f.tmp # NULL => /\ nx[f.tmp] = f.curr
                     /\ a > 0 => r[c[a]].time <= r[f.tmp].time
                     /\ b <= Len(c) => r[f.tmp].time <= r[c[b]].time

\* The pointers of a call in progress are into the list c, but those of a
\* queue_clear_type whose callback had one of its nodes freed.
AtPlace(f, c, nx, r, cs) ==
  /\ f.op = "add" => \E a \in 0 .. Len(c) :
       f.ptr = SlotAt(c, a) /\ (a > 0 => r[c[a]].time <= r[f.node].time)
  /\ f.op = "remove" => \E a \in 0 .. Len(c) :
       f.ptr = SlotAt(c, a) /\ f.curr = LinkAt(c, a + 1)
  /\ f.op = "clear" /\ f.stale => f.tmp # NULL
  /\ f.op = "clear" /\ ~f.stale => \E a \in 0 .. Len(c), b \in 1 .. Len(c) + 1 :
       ClearAt(f, c, nx, r, cs, a, b)

\* The call f waits for its handler, or its callback, which has called g.
Calling(f, g, cs) ==
  \/ f.op = "process" /\ f.node # NULL
  \/ f.op = "clear" /\ f.tmp # NULL /\ g.op \in {"add", "remove"} \cap cs

\* What the calls of the stack s own is allocated, out of the list c, and
\* theirs alone.
Owned(s, c, lv) ==
  /\ \A i \in 1 .. Len(s) : HeldNode(s[i]) # NULL => HeldNode(s[i]) \in lv \ ToSet(c)
  /\ \A i, j \in 1 .. Len(s) :
       i # j /\ HeldNode(s[i]) = HeldNode(s[j]) => HeldNode(s[i]) = NULL

\* The calls in progress s, the list being c.
CallsOK(s, c, nx, r, lv, cs) ==
  /\ s \in Seq(Frame)
  /\ \A i \in 1 .. Len(s) - 1 : Calling(s[i], s[i + 1], cs)
  /\ \A i \in 1 .. Len(s) : AtPlace(s[i], c, nx, r, cs)
  /\ Owned(s, c, lv)

\* The list of the pointers nx is c: allocated nodes, in order of time.
Linked(c, nx, r, lv) ==
  /\ Links(nx, c) /\ ToSet(c) \subseteq lv
  /\ \A i, j \in 1 .. Len(c) : i < j => r[c[i]].time <= r[c[j]].time

\* Pointers and records are of their types.
Typed(nx, r, lv) ==
  /\ nx \in [Slot -> Link] /\ lv \subseteq Node
  /\ DOMAIN r = Node /\ \A n \in lv : r[n] \in Rec

Good(c) ==
  /\ Typed(next, rec, live)
  /\ clock \in Time /\ calls \subseteq {"add", "remove"}
  /\ Linked(c, next, rec, live)
  /\ CallsOK(stack, c, next, rec, live, calls)

IInv == \E c \in Seq(Node) : Good(c)

\* Callbacks add and remove events, and call nothing that processes or clears the
\* queue. The runs have callbacks that do; these proofs do not.
PlainCallbacks == CallbackCalls \subseteq SUBSET {"add", "remove"}

-----------------------------------------------------------------------------
(* The list that the pointers make.                                        *)

\* From(HEAD), of the pointers nx.
ChainOf(nx) ==
  LET at[k \in 0 .. Cardinality(Node)] ==
        IF k = 0 THEN nx[HEAD]
        ELSE IF at[k - 1] = NULL THEN NULL ELSE nx[at[k - 1]]
      n == Cardinality({k \in DOMAIN at : at[k] # NULL})
  IN  [k \in 1 .. n |-> at[k - 1]]

\* Chain is the list the pointers lead through, if there is one.
LEMMA ChainIs ==
  ASSUME NEW nx, NEW c, Links(nx, c)
  PROVE  ChainOf(nx) = c
<1> DEFINE N == Cardinality(Node)
           L == Len(c)
           Loop(at) == [k \in 0 .. N |-> IF k = 0 THEN nx[HEAD]
                                         ELSE IF at[k - 1] = NULL THEN NULL ELSE nx[at[k - 1]]]
           at == CHOOSE at : at = Loop(at)
           g == [k \in 0 .. N |-> LinkAt(c, k + 1)]
<1>1. /\ c \in Seq(Node) /\ L \in Nat /\ N \in Nat /\ DOMAIN c = 1 .. L
      /\ \A i \in 1 .. L : c[i] \in Node /\ c[i] # NULL
  BY PointerAssumption, FS_CardinalityType, ElementOfSeq DEF Links
<1>2. L <= N
  <2>1. c \in Injection(1 .. L, Node)
    BY <1>1 DEF Links, Injection, IsInjective
  <2>2. Cardinality(1 .. L) <= N
    BY <2>1, PointerAssumption, FS_Injection
  <2>3. Cardinality(1 .. L) = L
    <3>1. 1 \in Int /\ L \in Int
      BY <1>1
    <3> HIDE DEF L
    <3>2. Cardinality(1 .. L) = IF 1 > L THEN 0 ELSE L - 1 + 1
      BY <3>1, FS_Interval
    <3> QED BY <1>1, <3>2
  <2> QED BY <2>2, <2>3
<1>3. ASSUME NEW k \in 1 .. N
      PROVE  LinkAt(c, k + 1) = IF LinkAt(c, k) = NULL THEN NULL ELSE nx[LinkAt(c, k)]
  <2>1. CASE k \in 1 .. L
    <3>1. LinkAt(c, k) = c[k] /\ c[k] # NULL /\ SlotAt(c, k) = c[k] /\ k \in 0 .. L
      BY <1>1, <2>1 DEF LinkAt, SlotAt
    <3> QED BY <3>1 DEF Links
  <2>2. CASE k \notin 1 .. L
    BY <1>1, <2>2 DEF LinkAt
  <2> QED BY <2>1, <2>2
<1>4. nx[HEAD] = LinkAt(c, 1)
  BY <1>1 DEF Links, SlotAt
<1>5. g = Loop(g)
  <2>1. ASSUME NEW k \in 0 .. N PROVE g[k] = Loop(g)[k]
    <3>1. CASE k = 0
      BY <1>1, <1>4, <3>1
    <3>2. CASE k # 0
      <4>1. k \in 1 .. N /\ k - 1 \in 0 .. N /\ k - 1 + 1 = k
        BY <1>1, <3>2
      <4>2. g[k] = LinkAt(c, k + 1) /\ g[k - 1] = LinkAt(c, k)
        BY <4>1
      <4> QED BY <1>3, <3>2, <4>1, <4>2
    <3> QED BY <3>1, <3>2
  <2> QED BY <2>1
<1>6. at = Loop(at)
  BY <1>5
<1> HIDE DEF at
<1>7. \A k \in 1 .. N : at[k] = IF at[k - 1] = NULL THEN NULL ELSE nx[at[k - 1]]
  <2>1. ASSUME NEW k \in 1 .. N
        PROVE  at[k] = IF at[k - 1] = NULL THEN NULL ELSE nx[at[k - 1]]
    <3>1. k \in 0 .. N /\ k # 0
      BY <1>1
    <3> QED BY <1>6, <3>1
  <2> QED BY <2>1
<1>8. ASSUME NEW k \in 0 .. N PROVE at[k] = LinkAt(c, k + 1)
  <2> DEFINE T == {j \in 0 .. N : at[j] = LinkAt(c, j + 1)}
  <2>1. 0 \in T
    BY <1>1, <1>4, <1>6
  <2>2. ASSUME NEW j \in 0 .. N - 1, j \in T PROVE j + 1 \in T
    <3>1. j + 1 \in 1 .. N /\ j + 1 \in 0 .. N /\ j + 1 - 1 = j /\ j + 1 # 0
      BY <1>1
    <3>2. at[j + 1] = IF at[j] = NULL THEN NULL ELSE nx[at[j]]
      BY <1>7, <3>1
    <3>3. at[j] = LinkAt(c, j + 1)
      BY <2>2
    <3>4. at[j + 1] = LinkAt(c, j + 1 + 1)
      BY <1>3, <3>1, <3>2, <3>3
    <3> QED BY <3>1, <3>4
  <2> HIDE DEF T
  <2>3. 0 .. N \subseteq T
    <3>1. 0 \in Int /\ N \in Int
      BY <1>1
    <3> HIDE DEF N
    <3> QED BY <2>1, <2>2, <3>1, RangeInduction
  <2> QED BY <2>3 DEF T
<1>9. DOMAIN at = 0 .. N
  BY <1>6
<1>10. {k \in DOMAIN at : at[k] # NULL} = 0 .. L - 1
  BY <1>1, <1>2, <1>8, <1>9 DEF LinkAt
<1>11. Cardinality(0 .. L - 1) = L
  <2> DEFINE u == L - 1
  <2>1. 0 \in Int /\ u \in Int /\ (0 > u <=> L = 0)
    BY <1>1
  <2> HIDE DEF u
  <2>2. Cardinality(0 .. u) = IF 0 > u THEN 0 ELSE u - 0 + 1
    BY <2>1, FS_Interval
  <2> QED BY <1>1, <2>1, <2>2 DEF u
<1>12. ChainOf(nx) = [k \in 1 .. L |-> at[k - 1]]
  BY <1>10, <1>11 DEF ChainOf, at
<1>13. \A k \in 1 .. L : at[k - 1] = c[k]
  BY <1>1, <1>2, <1>8 DEF LinkAt
<1> QED BY <1>1, <1>12, <1>13

-----------------------------------------------------------------------------
(* The list when a node is linked, and when some are unlinked.             *)

\* What a list of nodes holds.
LEMMA NodesOf ==
  ASSUME NEW c \in Seq(Node)
  PROVE  /\ Len(c) \in Nat /\ DOMAIN c = 1 .. Len(c)
         /\ \A i \in 1 .. Len(c) : c[i] \in Node /\ c[i] # NULL /\ c[i] # HEAD
         /\ ToSet(c) = {c[i] : i \in 1 .. Len(c)} /\ ToSet(c) \subseteq Node
<1>1. Len(c) \in Nat /\ DOMAIN c = 1 .. Len(c) /\ \A i \in 1 .. Len(c) : c[i] \in Node
  BY ElementOfSeq
<1> QED
  BY <1>1, PointerAssumption DEF ToSet

\* The list without those after place a, up to place b.
Cut(c, a, b) == SubSeq(c, 1, a) \o SubSeq(c, b + 1, Len(c))

\* Where its nodes come from.
LEMMA CutIndex ==
  ASSUME NEW c \in Seq(Node), NEW a \in 0 .. Len(c), NEW b \in a .. Len(c)
  PROVE  /\ Cut(c, a, b) \in Seq(Node)
         /\ Len(Cut(c, a, b)) = Len(c) - (b - a)
         /\ \A j \in 1 .. Len(c) - (b - a) :
              Cut(c, a, b)[j] = IF j <= a THEN c[j] ELSE c[j + (b - a)]
<1> DEFINE s == SubSeq(c, 1, a)
           t == SubSeq(c, b + 1, Len(c))
<1>1. Len(c) \in Nat /\ a \in Nat /\ b \in Nat /\ a <= b /\ b <= Len(c)
      /\ \A i \in 1 .. Len(c) : c[i] \in Node
  BY NodesOf
<1>2. s \in Seq(Node) /\ Len(s) = a /\ \A i \in 1 .. a : s[i] = c[i]
  BY <1>1
<1>3. t \in Seq(Node) /\ Len(t) = Len(c) - b /\ \A i \in 1 .. Len(c) - b : t[i] = c[i + b]
  <2>1. \A i \in b + 1 .. Len(c) : c[i] \in Node
    BY <1>1
  <2>2. t \in Seq(Node)
    BY <1>1
  <2>3. Len(t) = Len(c) - b
    BY <1>1
  <2>4. \A i \in 1 .. Len(c) - b : t[i] = c[i + b]
    BY <1>1
  <2> QED BY <2>2, <2>3, <2>4
<1> HIDE DEF s, t
<1>4. s \o t \in Seq(Node) /\ Len(s \o t) = Len(c) - (b - a)
  <2> DEFINE T == Node
  <2>1. s \in Seq(T) /\ t \in Seq(T)
    BY <1>2, <1>3
  <2> HIDE DEF T
  <2>2. s \o t \in Seq(T) /\ Len(s \o t) = Len(s) + Len(t)
    BY <2>1, ConcatProperties
  <2> QED BY <1>1, <1>2, <1>3, <2>2 DEF T
<1>5. ASSUME NEW j \in 1 .. Len(c) - (b - a)
      PROVE  (s \o t)[j] = IF j <= a THEN c[j] ELSE c[j + (b - a)]
  <2>1. (s \o t)[j] = IF j <= Len(s) THEN s[j] ELSE t[j - Len(s)]
    BY <1>1, <1>2, <1>3
  <2>2. CASE j <= a
    BY <1>1, <1>2, <2>1, <2>2
  <2>3. CASE j > a
    <3>1. j - a \in 1 .. Len(c) - b /\ (j - a) + b = j + (b - a)
      BY <1>1, <2>3
    <3> QED BY <1>1, <1>2, <1>3, <2>1, <2>3, <3>1
  <2>4. j <= a \/ j > a
    BY <1>1
  <2> QED BY <2>2, <2>3, <2>4
<1> QED BY <1>4, <1>5 DEF Cut, s, t

\* The list of the pointers when they lead past some nodes.
LEMMA LinksCut ==
  ASSUME NEW nx, NEW c, Links(nx, c), NEW a \in 0 .. Len(c), NEW b \in a .. Len(c), NEW mx,
         mx[SlotAt(c, a)] = LinkAt(c, b + 1),
         \A k \in (0 .. a - 1) \cup (b + 1 .. Len(c)) : mx[SlotAt(c, k)] = nx[SlotAt(c, k)]
  PROVE  Links(mx, Cut(c, a, b))
<1> DEFINE d == Cut(c, a, b)
<1>1. c \in Seq(Node) /\ Len(c) \in Nat
  BY NodesOf DEF Links
<1>2. /\ d \in Seq(Node) /\ Len(d) = Len(c) - (b - a)
      /\ \A j \in 1 .. Len(d) : d[j] = IF j <= a THEN c[j] ELSE c[j + (b - a)]
  BY <1>1, CutIndex
<1> HIDE DEF d
<1>3. \A i, j \in 1 .. Len(d) : d[i] = d[j] => i = j
  <2> DEFINE at == [i \in 1 .. Len(d) |-> IF i <= a THEN i ELSE i + (b - a)]
  <2>1. \A i \in 1 .. Len(d) : at[i] \in 1 .. Len(c) /\ d[i] = c[at[i]]
    BY <1>1, <1>2
  <2>2. \A i, j \in 1 .. Len(d) : at[i] = at[j] => i = j
    BY <1>1, <1>2
  <2> HIDE DEF at
  <2>3. ASSUME NEW i \in 1 .. Len(d), NEW j \in 1 .. Len(d), d[i] = d[j] PROVE i = j
    <3>1. at[i] \in 1 .. Len(c) /\ at[j] \in 1 .. Len(c) /\ c[at[i]] = c[at[j]]
      BY <2>1, <2>3
    <3>2. at[i] = at[j]
      BY <3>1, Zenon DEF Links
    <3> QED BY <2>2, <3>2
  <2> QED BY <2>3
<1>4. ASSUME NEW k \in 0 .. Len(d) PROVE mx[SlotAt(d, k)] = LinkAt(d, k + 1)
  <2>1. \A l \in 0 .. Len(c) : nx[SlotAt(c, l)] = LinkAt(c, l + 1)
    BY DEF Links
  <2>2. CASE k < a
    <3>1. SlotAt(d, k) = SlotAt(c, k) /\ LinkAt(d, k + 1) = LinkAt(c, k + 1)
      BY <1>1, <1>2, <2>2 DEF SlotAt, LinkAt
    <3>2. k \in 0 .. a - 1 /\ k \in 0 .. Len(c)
      BY <1>1, <2>2
    <3> QED BY <2>1, <3>1, <3>2
  <2>3. CASE k = a
    <3>1. SlotAt(d, k) = SlotAt(c, a) /\ LinkAt(d, k + 1) = LinkAt(c, b + 1)
      BY <1>1, <1>2, <2>3 DEF SlotAt, LinkAt
    <3> QED BY <3>1
  <2>4. CASE k > a
    <3> DEFINE l == k + (b - a)
    <3>1. l \in b + 1 .. Len(c) /\ l \in 0 .. Len(c)
      BY <1>1, <1>2, <2>4
    <3>2. SlotAt(d, k) = SlotAt(c, l) /\ LinkAt(d, k + 1) = LinkAt(c, l + 1)
      BY <1>1, <1>2, <2>4 DEF SlotAt, LinkAt
    <3> HIDE DEF l
    <3> QED BY <2>1, <3>1, <3>2
  <2> QED BY <1>1, <1>2, <2>2, <2>3, <2>4
<1> QED BY <1>2, <1>3, <1>4 DEF Links, d

\* The list of the pointers when they lead through one more node.
LEMMA LinksInsert ==
  ASSUME NEW nx, NEW c, Links(nx, c), NEW a \in 0 .. Len(c), NEW n \in Node, n \notin ToSet(c),
         NEW mx, mx[SlotAt(c, a)] = n, mx[n] = LinkAt(c, a + 1),
         \A k \in 0 .. Len(c) : k # a => mx[SlotAt(c, k)] = nx[SlotAt(c, k)]
  PROVE  Links(mx, InsertAt(c, a + 1, n))
<1> DEFINE d == InsertAt(c, a + 1, n)
           p == a + 1
<1>1. c \in Seq(Node) /\ Len(c) \in Nat /\ p \in 1 .. Len(c) + 1
      /\ \A i \in 1 .. Len(c) : c[i] # n
  BY NodesOf DEF Links
<1>2. /\ d \in Seq(Node) /\ Len(d) = Len(c) + 1
      /\ \A j \in 1 .. Len(d) : d[j] = IF j < p THEN c[j] ELSE IF j = p THEN n ELSE c[j - 1]
  <2>1. a + 1 \in 1 .. Len(c) + 1
    BY <1>1
  <2>2. Inserted(d, Node, c, a + 1, n)
    BY <1>1, <2>1, InsertIs
  <2> QED BY <1>1, <2>2 DEF Inserted
<1> HIDE DEF d
<1>3. \A i, j \in 1 .. Len(d) : d[i] = d[j] => i = j
  <2> DEFINE at == [i \in 1 .. Len(d) |-> IF i < p THEN i ELSE i - 1]
  <2>1. \A i \in 1 .. Len(d) : i # p => at[i] \in 1 .. Len(c) /\ d[i] = c[at[i]]
    BY <1>1, <1>2
  <2>2. \A i, j \in 1 .. Len(d) : i # p /\ j # p /\ at[i] = at[j] => i = j
    BY <1>1, <1>2
  <2>3. p \in 1 .. Len(d) /\ d[p] = n
    BY <1>1, <1>2
  <2> HIDE DEF at, p
  <2>4. ASSUME NEW i \in 1 .. Len(d), NEW j \in 1 .. Len(d), d[i] = d[j], i # p, j # p PROVE i = j
    <3>1. at[i] \in 1 .. Len(c) /\ at[j] \in 1 .. Len(c) /\ c[at[i]] = c[at[j]]
      BY <2>1, <2>4
    <3>2. at[i] = at[j]
      BY <3>1, Zenon DEF Links
    <3> QED BY <2>2, <2>4, <3>2
  <2>5. \A i \in 1 .. Len(d) : i # p => d[i] # n
    BY <1>1, <2>1
  <2> QED BY <2>3, <2>4, <2>5
<1>4. ASSUME NEW k \in 0 .. Len(d) PROVE mx[SlotAt(d, k)] = LinkAt(d, k + 1)
  <2>1. \A l \in 0 .. Len(c) : nx[SlotAt(c, l)] = LinkAt(c, l + 1)
    BY DEF Links
  <2>2. CASE k < a
    <3>1. SlotAt(d, k) = SlotAt(c, k) /\ LinkAt(d, k + 1) = LinkAt(c, k + 1)
      BY <1>1, <1>2, <2>2 DEF SlotAt, LinkAt
    <3> QED BY <1>1, <2>1, <2>2, <3>1
  <2>3. CASE k = a
    BY <1>1, <1>2, <2>3 DEF SlotAt, LinkAt
  <2>4. CASE k = a + 1
    BY <1>1, <1>2, <2>4 DEF SlotAt, LinkAt
  <2>5. CASE k > a + 1
    <3> DEFINE l == k - 1
    <3>1. l \in 0 .. Len(c) /\ l # a /\ l # 0 /\ k # 0 /\ d[k] = c[l] /\ l + 1 = k
      BY <1>1, <1>2, <2>5
    <3>2. SlotAt(d, k) = SlotAt(c, l)
      BY <3>1 DEF SlotAt
    <3>3. LinkAt(d, k + 1) = LinkAt(c, l + 1)
      BY <1>1, <1>2, <2>5, <3>1 DEF LinkAt
    <3> HIDE DEF l
    <3> QED BY <2>1, <3>1, <3>2, <3>3
  <2> QED BY <1>1, <1>2, <2>2, <2>3, <2>4, <2>5
<1> QED BY <1>2, <1>3, <1>4 DEF Links, d

\* A node linked where it belongs in time leaves the list linked and in order.
LEMMA LinkedInsert ==
  ASSUME NEW nx, NEW r, NEW lv, NEW c, Typed(nx, r, lv), Linked(c, nx, r, lv),
         NEW a \in 0 .. Len(c), NEW n \in lv, n \notin ToSet(c),
         a > 0 => r[c[a]].time <= r[n].time,
         a + 1 <= Len(c) => r[n].time <= r[c[a + 1]].time,
         NEW mx, mx[SlotAt(c, a)] = n, mx[n] = LinkAt(c, a + 1),
         \A k \in 0 .. Len(c) : k # a => mx[SlotAt(c, k)] = nx[SlotAt(c, k)]
  PROVE  Linked(InsertAt(c, a + 1, n), mx, r, lv)
<1> DEFINE d == InsertAt(c, a + 1, n)
<1>1. c \in Seq(Node) /\ Len(c) \in Nat /\ n \in Node /\ a \in Nat
  BY NodesOf DEF Linked, Links, Typed
<1>2. Links(mx, d)
  BY <1>1, LinksInsert DEF Linked
<1>3. /\ Len(d) = Len(c) + 1 /\ ToSet(d) = ToSet(c) \cup {n}
      /\ \A j \in 1 .. Len(d) : d[j] = IF j <= a THEN c[j] ELSE IF j = a + 1 THEN n ELSE c[j - 1]
  <2>1. a + 1 \in 1 .. Len(c) + 1
    BY <1>1
  <2>2. Inserted(d, Node, c, a + 1, n)
    BY <1>1, <2>1, InsertIs
  <2> QED BY <1>1, <2>2 DEF Inserted
<1> HIDE DEF d
<1>4. \A i \in 1 .. Len(c) : r[c[i]].time \in Int
  <2>1. \A i \in 1 .. Len(c) : c[i] \in lv
    BY <1>1, NodesOf DEF Linked
  <2> QED BY <2>1, PointerAssumption DEF Typed, Rec, Time
<1>5. r[n].time \in Int
  BY PointerAssumption DEF Typed, Rec, Time
<1>6. \A i, j \in 1 .. Len(c) : i < j => r[c[i]].time <= r[c[j]].time
  BY DEF Linked
<1>7. \A i \in 1 .. a : r[c[i]].time <= r[n].time
  <2>1. ASSUME NEW i \in 1 .. a PROVE r[c[i]].time <= r[n].time
    <3>1. i \in 1 .. Len(c) /\ a \in 1 .. Len(c) /\ a > 0
      BY <1>1
    <3>2. i = a \/ r[c[i]].time <= r[c[a]].time
      BY <1>1, <1>6, <3>1
    <3> QED BY <1>4, <1>5, <3>1, <3>2
  <2> QED BY <2>1
<1>8. \A i \in a + 1 .. Len(c) : r[n].time <= r[c[i]].time
  <2>1. ASSUME NEW i \in a + 1 .. Len(c) PROVE r[n].time <= r[c[i]].time
    <3>1. i \in 1 .. Len(c) /\ a + 1 \in 1 .. Len(c) /\ a + 1 <= Len(c)
      BY <1>1
    <3>2. i = a + 1 \/ r[c[a + 1]].time <= r[c[i]].time
      BY <1>1, <1>6, <3>1
    <3> QED BY <1>4, <1>5, <3>1, <3>2
  <2> QED BY <2>1
<1>9. ASSUME NEW i \in 1 .. Len(d), NEW j \in 1 .. Len(d), i < j
      PROVE  r[d[i]].time <= r[d[j]].time
  <2>1. CASE j <= a
    <3>1. i \in 1 .. Len(c) /\ j \in 1 .. Len(c) /\ d[i] = c[i] /\ d[j] = c[j]
      BY <1>1, <1>3, <1>9, <2>1
    <3> QED BY <1>6, <1>9, <3>1
  <2>2. CASE j = a + 1
    <3>1. i \in 1 .. a /\ d[i] = c[i] /\ d[j] = n
      BY <1>1, <1>3, <1>9, <2>2
    <3> QED BY <1>7, <3>1
  <2>3. CASE j > a + 1 /\ i <= a
    <3>1. i \in 1 .. Len(c) /\ j - 1 \in 1 .. Len(c) /\ d[i] = c[i] /\ d[j] = c[j - 1] /\ i < j - 1
      BY <1>1, <1>3, <1>9, <2>3
    <3> QED BY <1>6, <3>1
  <2>4. CASE j > a + 1 /\ i = a + 1
    <3>1. j - 1 \in a + 1 .. Len(c) /\ d[i] = n /\ d[j] = c[j - 1]
      BY <1>1, <1>3, <1>9, <2>4
    <3> QED BY <1>8, <3>1
  <2>5. CASE i > a + 1
    <3>1. i - 1 \in 1 .. Len(c) /\ j - 1 \in 1 .. Len(c) /\ d[i] = c[i - 1] /\ d[j] = c[j - 1] /\ i - 1 < j - 1
      BY <1>1, <1>3, <1>9, <2>5
    <3> QED BY <1>6, <3>1
  <2> QED BY <1>1, <1>9, <2>1, <2>2, <2>3, <2>4, <2>5
<1>10. ToSet(d) \subseteq lv
  BY <1>3 DEF Linked
<1> QED BY <1>2, <1>9, <1>10 DEF Linked, d

\* Those that stay when the nodes after place a up to place b are unlinked.
Stay(c, a, b) == {c[k] : k \in (1 .. a) \cup (b + 1 .. Len(c))}

\* Unlinking nodes leaves the list linked and in order, whatever becomes of them.
LEMMA LinkedCut ==
  ASSUME NEW nx, NEW r, NEW lv, NEW c, Linked(c, nx, r, lv),
         NEW a \in 0 .. Len(c), NEW b \in a .. Len(c),
         NEW mx, NEW q, NEW lw,
         mx[SlotAt(c, a)] = LinkAt(c, b + 1),
         \A k \in (0 .. a - 1) \cup (b + 1 .. Len(c)) : mx[SlotAt(c, k)] = nx[SlotAt(c, k)],
         \A n \in Stay(c, a, b) : q[n] = r[n] /\ n \in lw
  PROVE  Linked(Cut(c, a, b), mx, q, lw) /\ ToSet(Cut(c, a, b)) = Stay(c, a, b)
<1> DEFINE d == Cut(c, a, b)
           at == [i \in 1 .. Len(d) |-> IF i <= a THEN i ELSE i + (b - a)]
<1>1. c \in Seq(Node) /\ Len(c) \in Nat /\ a \in Nat /\ b \in Nat
  BY NodesOf DEF Linked, Links
<1>2. Links(mx, d)
  BY LinksCut DEF Linked
<1>3. /\ d \in Seq(Node) /\ Len(d) = Len(c) - (b - a)
      /\ \A j \in 1 .. Len(d) : d[j] = IF j <= a THEN c[j] ELSE c[j + (b - a)]
  BY <1>1, CutIndex
<1> HIDE DEF d
<1>4. \A i \in 1 .. Len(d) : /\ at[i] \in (1 .. a) \cup (b + 1 .. Len(c)) /\ at[i] \in 1 .. Len(c)
                             /\ d[i] = c[at[i]]
  BY <1>1, <1>3
<1>5. \A i, j \in 1 .. Len(d) : i < j => at[i] < at[j]
  BY <1>1, <1>3
<1>6. \A k \in (1 .. a) \cup (b + 1 .. Len(c)) : \E i \in 1 .. Len(d) : d[i] = c[k]
  <2>1. ASSUME NEW k \in 1 .. a PROVE k \in 1 .. Len(d) /\ d[k] = c[k]
    BY <1>1, <1>3
  <2>2. ASSUME NEW k \in b + 1 .. Len(c) PROVE k - (b - a) \in 1 .. Len(d) /\ d[k - (b - a)] = c[k]
    BY <1>1, <1>3
  <2> QED BY <2>1, <2>2
<1> HIDE DEF at
<1>7. ToSet(d) = Stay(c, a, b)
  <2>1. ToSet(d) = {d[i] : i \in 1 .. Len(d)}
    BY <1>3, NodesOf
  <2>2. ASSUME NEW i \in 1 .. Len(d) PROVE d[i] \in Stay(c, a, b)
    BY <1>4 DEF Stay
  <2>3. ASSUME NEW k \in (1 .. a) \cup (b + 1 .. Len(c)) PROVE c[k] \in ToSet(d)
    BY <1>6, <2>1
  <2> QED BY <2>1, <2>2, <2>3 DEF Stay
<1>8. ASSUME NEW i \in 1 .. Len(d), NEW j \in 1 .. Len(d), i < j
      PROVE  q[d[i]].time <= q[d[j]].time
  <2>1. r[c[at[i]]].time <= r[c[at[j]]].time
    BY <1>4, <1>5, <1>8 DEF Linked
  <2>2. d[i] \in Stay(c, a, b) /\ d[j] \in Stay(c, a, b)
    BY <1>4 DEF Stay
  <2> QED BY <1>4, <2>1, <2>2
<1> QED BY <1>2, <1>7, <1>8 DEF Linked, d

-----------------------------------------------------------------------------
(* The calls in progress when one begins, ends or takes a step.            *)

\* What the four kinds of calls hold.
LEMMA FrameFields ==
  ASSUME NEW f \in Frame
  PROVE  /\ f.op \in {"add", "remove", "process", "clear"}
         /\ f.op = "add" => f.ptr \in Slot /\ f.node \in Node
         /\ f.op = "remove" => /\ f.ptr \in Slot /\ f.curr \in Link
                              /\ f.owner \in Owner /\ f.type \in Type \cup {ANY}
         /\ f.op = "process" => f.now \in Time /\ f.rc \in 0 .. 1 /\ f.node \in Link
         /\ f.op = "clear" => /\ f.type \in Type /\ f.fn \in BOOLEAN
                             /\ f.ptr \in Slot /\ f.curr \in Link /\ f.tmp \in Link
                             /\ f.stale \in BOOLEAN
BY DEF Frame

\* The call g may be in progress on top of the calls b.
CanPush(b, g, c, nx, r, lv, cs) ==
  /\ g \in Frame
  /\ b # << >> => Calling(b[Len(b)], g, cs)
  /\ AtPlace(g, c, nx, r, cs)
  /\ HeldNode(g) # NULL => /\ HeldNode(g) \in lv \ ToSet(c)
                           /\ \A i \in 1 .. Len(b) : HeldNode(b[i]) # HeldNode(g)

\* The calls below the innermost one.
Below(s) == SubSeq(s, 1, Len(s) - 1)

\* They are a stack of calls, one less.
LEMMA BelowIndex ==
  ASSUME NEW s \in Seq(Frame), s # << >>
  PROVE  /\ Len(s) \in Nat \ {0} /\ Below(s) \in Seq(Frame) /\ Len(Below(s)) = Len(s) - 1
         /\ \A i \in 1 .. Len(s) - 1 : Below(s)[i] = s[i]
         /\ s[Len(s)] \in Frame
         /\ Below(s) # << >> <=> Len(s) > 1
<1>1. Len(s) \in Nat \ {0}
  BY EmptySeq
<1>2. \A i \in 1 .. Len(s) : s[i] \in Frame
  BY ElementOfSeq
<1>3. Below(s) \in Seq(Frame) /\ Len(Below(s)) = Len(s) - 1
      /\ \A i \in 1 .. Len(s) - 1 : Below(s)[i] = s[i]
  <2> DEFINE u == Len(s) - 1
  <2>1. u \in Nat /\ u \in 0 .. Len(s) /\ \A i \in 1 .. u : s[i] \in Frame
    BY <1>1, <1>2
  <2> HIDE DEF u
  <2>2. SubSeq(s, 1, u) \in Seq(Frame) /\ Len(SubSeq(s, 1, u)) = u
        /\ \A i \in 1 .. u : SubSeq(s, 1, u)[i] = s[i]
    BY <1>1, <2>1
  <2> QED BY <2>2 DEF Below, u
<1>4. Below(s) # << >> <=> Len(s) > 1
  BY <1>1, <1>3, EmptySeq
<1> QED BY <1>1, <1>2, <1>3, <1>4

\* The innermost call and those below it.
LEMMA CallsSplit ==
  ASSUME NEW s, NEW c, NEW nx, NEW r, NEW lv, NEW cs, CallsOK(s, c, nx, r, lv, cs), s # << >>
  PROVE  /\ CallsOK(Below(s), c, nx, r, lv, cs)
         /\ CanPush(Below(s), s[Len(s)], c, nx, r, lv, cs)
<1> DEFINE n == Len(s)
           b == Below(s)
<1>1. s \in Seq(Frame)
  BY DEF CallsOK
<1>2. /\ n \in Nat \ {0} /\ b \in Seq(Frame) /\ Len(b) = n - 1
      /\ \A i \in 1 .. n - 1 : b[i] = s[i]
      /\ s[n] \in Frame /\ (b # << >> <=> n > 1)
  BY <1>1, BelowIndex
<1> HIDE DEF b
<1>3. \A i \in 1 .. Len(b) - 1 : Calling(b[i], b[i + 1], cs)
  BY <1>2 DEF CallsOK
<1>4. \A i \in 1 .. Len(b) : AtPlace(b[i], c, nx, r, cs)
  BY <1>2 DEF CallsOK
<1>5. Owned(b, c, lv)
  <2>1. \A i \in 1 .. Len(b) : i \in 1 .. n /\ b[i] = s[i]
    BY <1>2
  <2> QED BY <2>1 DEF CallsOK, Owned
<1>7. b # << >> => n - 1 \in 1 .. n - 1 /\ Len(b) = n - 1 /\ b[n - 1] = s[n - 1] /\ n - 1 + 1 = n
  BY <1>2
<1>8. b # << >> => Calling(b[Len(b)], s[n], cs)
  BY <1>7 DEF CallsOK
<1>9. n \in 1 .. n /\ AtPlace(s[n], c, nx, r, cs)
  BY <1>2 DEF CallsOK
<1>10. HeldNode(s[n]) # NULL => /\ HeldNode(s[n]) \in lv \ ToSet(c)
                               /\ \A i \in 1 .. Len(b) : HeldNode(b[i]) # HeldNode(s[n])
  <2>1. \A i \in 1 .. Len(b) : i \in 1 .. n /\ i # n /\ b[i] = s[i]
    BY <1>2
  <2> QED BY <1>9, <2>1 DEF CallsOK, Owned
<1> QED BY <1>2, <1>3, <1>4, <1>5, <1>8, <1>9, <1>10 DEF CallsOK, CanPush, b

\* Another call on top of those in progress.
LEMMA CallsPush ==
  ASSUME NEW b, NEW g, NEW c, NEW nx, NEW r, NEW lv, NEW cs,
         CallsOK(b, c, nx, r, lv, cs), CanPush(b, g, c, nx, r, lv, cs)
  PROVE  CallsOK(Append(b, g), c, nx, r, lv, cs)
<1> DEFINE s == Append(b, g)
           n == Len(b)
<1>1. b \in Seq(Frame) /\ g \in Frame
  BY DEF CallsOK, CanPush
<1>2. /\ s \in Seq(Frame) /\ Len(s) = n + 1 /\ n \in Nat /\ s[n + 1] = g
      /\ \A i \in 1 .. n : s[i] = b[i]
  BY <1>1, AppendProperties
<1>3. b # << >> <=> n > 0
  BY <1>1, <1>2, EmptySeq
<1> HIDE DEF s
<1>4. ASSUME NEW i \in 1 .. Len(s) - 1 PROVE Calling(s[i], s[i + 1], cs)
  <2>1. CASE i = n
    BY <1>2, <1>3, <2>1 DEF CanPush
  <2>2. CASE i # n
    <3>1. i \in 1 .. n - 1 /\ s[i] = b[i] /\ s[i + 1] = b[i + 1]
      BY <1>2, <2>2
    <3> QED BY <3>1 DEF CallsOK
  <2> QED BY <2>1, <2>2
<1>5. ASSUME NEW i \in 1 .. Len(s) PROVE AtPlace(s[i], c, nx, r, cs)
  <2>1. CASE i = n + 1
    BY <1>2, <2>1 DEF CanPush
  <2>2. CASE i # n + 1
    <3>1. i \in 1 .. n /\ s[i] = b[i]
      BY <1>2, <2>2
    <3> QED BY <3>1 DEF CallsOK
  <2> QED BY <2>1, <2>2
<1>6. Owned(s, c, lv)
  <2>1. \A i \in 1 .. Len(s) : (i = n + 1 /\ s[i] = g) \/ (i \in 1 .. n /\ s[i] = b[i])
    BY <1>2
  <2>2. \A i \in 1 .. n : HeldNode(b[i]) # NULL => HeldNode(b[i]) \in lv \ ToSet(c)
    BY DEF CallsOK, Owned
  <2>3. HeldNode(g) # NULL => /\ HeldNode(g) \in lv \ ToSet(c)
                             /\ \A i \in 1 .. n : HeldNode(b[i]) # HeldNode(g)
    BY DEF CanPush
  <2>4. \A i, j \in 1 .. n : i # j /\ HeldNode(b[i]) = HeldNode(b[j]) => HeldNode(b[i]) = NULL
    BY DEF CallsOK, Owned
  <2> HIDE DEF n
  <2>5. ASSUME NEW i \in 1 .. Len(s), HeldNode(s[i]) # NULL PROVE HeldNode(s[i]) \in lv \ ToSet(c)
    BY <2>1, <2>2, <2>3, <2>5
  <2>6. ASSUME NEW i \in 1 .. Len(s), NEW j \in 1 .. Len(s), i # j, HeldNode(s[i]) = HeldNode(s[j]),
               HeldNode(s[i]) # NULL
        PROVE  FALSE
    BY <2>1, <2>3, <2>4, <2>6
  <2> QED BY <2>5, <2>6 DEF Owned
<1> QED BY <1>2, <1>4, <1>5, <1>6 DEF CallsOK, s

\* Calls stay as they are when the list changes around them.
LEMMA CallsMove ==
  ASSUME NEW s, NEW c, NEW nx, NEW r, NEW lv, NEW cs, CallsOK(s, c, nx, r, lv, cs),
         NEW d, NEW mx, NEW q, NEW lw,
         \A i \in 1 .. Len(s) : AtPlace(s[i], d, mx, q, cs),
         \A i \in 1 .. Len(s) : HeldNode(s[i]) # NULL => HeldNode(s[i]) \in lw \ ToSet(d)
  PROVE  CallsOK(s, d, mx, q, lw, cs)
<1>1. Owned(s, d, lw)
  BY DEF CallsOK, Owned
<1> QED BY <1>1 DEF CallsOK

\* Below a call all calls are of queue_process, but for a queue_clear_type
\* whose callback is an adding or removing.
LEMMA BelowWait ==
  ASSUME NEW b, NEW g, NEW c, NEW nx, NEW r, NEW lv, NEW cs,
         CallsOK(b, c, nx, r, lv, cs), CanPush(b, g, c, nx, r, lv, cs), NEW i \in 1 .. Len(b)
  PROVE  \/ b[i].op = "process" /\ b[i].node # NULL
         \/ /\ b[i].op = "clear" /\ b[i].tmp # NULL /\ i = Len(b) /\ b # << >>
            /\ g.op \in {"add", "remove"} \cap cs
<1>1. b \in Seq(Frame) /\ Len(b) \in Nat /\ b # << >>
  BY EmptySeq DEF CallsOK
<1>2. CASE i = Len(b)
  BY <1>1, <1>2 DEF CanPush, Calling
<1>3. CASE i # Len(b)
  <2>1. i \in 1 .. Len(b) - 1 /\ i + 1 \in 1 .. Len(b)
    BY <1>1, <1>3
  <2>2. Calling(b[i], b[i + 1], cs)
    BY <2>1 DEF CallsOK
  <2>3. b[i + 1].op \in {"process", "clear"}
    <3>1. CASE i + 1 = Len(b)
      BY <1>1, <3>1 DEF CanPush, Calling
    <3>2. CASE i + 1 # Len(b)
      <4>1. i + 1 \in 1 .. Len(b) - 1
        BY <1>1, <2>1, <3>2
      <4> QED BY <4>1 DEF CallsOK, Calling
    <3> QED BY <3>1, <3>2
  <2> QED BY <2>2, <2>3 DEF Calling
<1> QED BY <1>2, <1>3
-----------------------------------------------------------------------------
(* What the calls hold, and calls with a pointer moved.                    *)

\* The nodes that the calls of s own (and NULL).
HeldSet(s) == {HeldNode(s[i]) : i \in 1 .. Len(s)}

\* The innermost call adds its node to what those below it own.
LEMMA HeldSplit ==
  ASSUME NEW s \in Seq(Frame), s # << >>
  PROVE  HeldSet(s) = HeldSet(Below(s)) \cup {HeldNode(s[Len(s)])}
<1> DEFINE n == Len(s)
           b == Below(s)
<1>1. n \in Nat \ {0} /\ Len(b) = n - 1 /\ \A i \in 1 .. n - 1 : b[i] = s[i]
  BY BelowIndex
<1> HIDE DEF b
<1>2. HeldSet(s) = {HeldNode(s[i]) : i \in 1 .. n - 1} \cup {HeldNode(s[n])}
  <2>1. 1 .. n = (1 .. n - 1) \cup {n}
    BY <1>1
  <2> QED BY <2>1 DEF HeldSet
<1>3. HeldSet(b) = {HeldNode(s[i]) : i \in 1 .. n - 1}
  <2>1. \A i \in 1 .. n - 1 : HeldNode(b[i]) = HeldNode(s[i])
    BY <1>1
  <2> QED BY <1>1, <2>1 DEF HeldSet
<1> QED BY <1>2, <1>3 DEF b

\* Begun on top of those in progress, a call adds its node to what they own.
LEMMA HeldPush ==
  ASSUME NEW b \in Seq(Frame), NEW g \in Frame
  PROVE  HeldSet(Append(b, g)) = HeldSet(b) \cup {HeldNode(g)}
<1> DEFINE s == Append(b, g)
           n == Len(b)
<1>1. Len(s) = n + 1 /\ n \in Nat /\ s[n + 1] = g /\ \A i \in 1 .. n : s[i] = b[i]
  BY AppendProperties
<1> HIDE DEF s
<1>2. \A i \in 1 .. n : HeldNode(s[i]) = HeldNode(b[i])
  BY <1>1
<1>3. 1 .. n + 1 = (1 .. n) \cup {n + 1}
  BY <1>1
<1> QED BY <1>1, <1>2, <1>3 DEF HeldSet, s

\* Changing the innermost call is ending it and beginning another.
LEMMA SetTopIs ==
  ASSUME NEW s \in Seq(Frame), s # << >>, NEW g \in Frame
  PROVE  [s EXCEPT ![Len(s)] = g] = Append(Below(s), g)
<1> DEFINE n == Len(s)
           b == Below(s)
           t == [s EXCEPT ![n] = g]
           u == Append(b, g)
<1>1. n \in Nat \ {0} /\ b \in Seq(Frame) /\ Len(b) = n - 1 /\ \A i \in 1 .. n - 1 : b[i] = s[i]
  BY BelowIndex
<1> HIDE DEF b
<1>2. Len(u) = n /\ u[n] = g /\ \A i \in 1 .. n - 1 : u[i] = s[i]
  <2>1. Len(u) = Len(b) + 1 /\ u[Len(b) + 1] = g /\ \A i \in 1 .. Len(b) : u[i] = b[i]
    BY <1>1, AppendProperties
  <2> QED BY <1>1, <2>1
<1>3. Len(t) = n /\ t \in Seq(Frame) /\ u \in Seq(Frame)
  BY <1>1, AppendProperties
<1>4. \A i \in 1 .. n : t[i] = u[i]
  BY <1>1, <1>2
<1> HIDE DEF t, u
<1>5. t = u
  BY <1>2, <1>3, <1>4, SeqEqual
<1> QED BY <1>5 DEF t, u, b

\* A queue_add with its pointer moved.
LEMMA AddFrame ==
  ASSUME NEW f \in Frame, f.op = "add", NEW x \in Slot, NEW g, g = [f EXCEPT !.ptr = x]
  PROVE  g \in Frame /\ g.op = "add" /\ g.ptr = x /\ g.node = f.node
BY DEF Frame

\* A queue_remove with its pointers moved to x and y.
RemoveTo(f, x, y, g) ==
  (g = [f EXCEPT !.curr = y] /\ x = f.ptr) \/ g = [f EXCEPT !.ptr = x, !.curr = y]

\* It is the same call with other pointers.
LEMMA RemoveFrame ==
  ASSUME NEW f \in Frame, f.op = "remove", NEW x \in Slot, NEW y \in Link, NEW g,
         RemoveTo(f, x, y, g)
  PROVE  /\ g \in Frame /\ g.op = "remove" /\ g.ptr = x /\ g.curr = y
         /\ g.owner = f.owner /\ g.type = f.type
BY DEF Frame, RemoveTo

\* A queue_process that runs a handler, and one whose handler has returned z.
ProcessTo(f, y, z, g) ==
  g = [f EXCEPT !.node = y] \/ (g = [f EXCEPT !.node = NULL, !.rc = z] /\ y = NULL)

\* It is the same call with another node in its hands.
LEMMA ProcessFrame ==
  ASSUME NEW f \in Frame, f.op = "process", NEW y \in Link, NEW z \in 0 .. 1, NEW g,
         ProcessTo(f, y, z, g)
  PROVE  g \in Frame /\ g.op = "process" /\ g.node = y
<1>1. NULL \in Link
  BY DEF Link
<1> QED BY <1>1 DEF Frame, ProcessTo

\* A queue_clear_type with its pointers moved to x, y and z.
ClearTo(f, x, y, z, g) ==
  \/ g = [f EXCEPT !.ptr = x, !.curr = y] /\ z = f.tmp
  \/ g = [f EXCEPT !.curr = y, !.tmp = z] /\ x = f.ptr
  \/ g = [f EXCEPT !.curr = y] /\ x = f.ptr /\ z = f.tmp
  \/ g = [f EXCEPT !.tmp = z] /\ x = f.ptr /\ y = f.curr
  \/ g = [f EXCEPT !.ptr = x, !.tmp = z] /\ y = f.curr

\* It is the same call with other pointers.
LEMMA ClearFrame ==
  ASSUME NEW f \in Frame, f.op = "clear", NEW x \in Slot, NEW y \in Link, NEW z \in Link, NEW g,
         ClearTo(f, x, y, z, g)
  PROVE  /\ g \in Frame /\ g.op = "clear" /\ g.ptr = x /\ g.curr = y /\ g.tmp = z
         /\ g.stale = f.stale
<1>1. f \in [op : {"clear"}, type : Type, fn : BOOLEAN, ptr : Slot, curr : Link, tmp : Link,
             stale : BOOLEAN]
  BY DEF Frame
<1>2. [op : {"clear"}, type : Type, fn : BOOLEAN, ptr : Slot, curr : Link, tmp : Link,
       stale : BOOLEAN] \subseteq Frame
  BY DEF Frame
<1> QED BY <1>1, <1>2 DEF ClearTo

\* A call that goes on as the same one, its pointers good, stays on top.
LEMMA CanPushSame ==
  ASSUME NEW b, NEW f, NEW c, NEW nx, NEW r, NEW lv, NEW cs, CanPush(b, f, c, nx, r, lv, cs),
         NEW g \in Frame, g.op = f.op, AtPlace(g, c, nx, r, cs),
         HeldNode(g) \in {HeldNode(f), NULL}
  PROVE  CanPush(b, g, c, nx, r, lv, cs)
BY DEF CanPush, Calling

-----------------------------------------------------------------------------
(* The calls below the innermost one when it changes the list.             *)

\* They wait, and a queue_clear_type among them finds its place again.
LEMMA BelowMove ==
  ASSUME NEW b, NEW g, NEW c, NEW nx, NEW r, NEW lv, NEW cs,
         CallsOK(b, c, nx, r, lv, cs), CanPush(b, g, c, nx, r, lv, cs),
         NEW d, NEW mx, NEW q, NEW lw,
         \A n \in lv \ ToSet(c) : n # HeldNode(g) => n \in lw \ ToSet(d),
         b # << >> /\ b[Len(b)].op = "clear" => AtPlace(b[Len(b)], d, mx, q, cs)
  PROVE  CallsOK(b, d, mx, q, lw, cs)
<1>1. b \in Seq(Frame) /\ Len(b) \in Nat
  BY DEF CallsOK
<1>2. ASSUME NEW i \in 1 .. Len(b) PROVE AtPlace(b[i], d, mx, q, cs)
  <2>1. CASE b[i].op = "process"
    BY <2>1 DEF AtPlace
  <2>2. CASE b[i].op # "process"
    <3>1. b[i].op = "clear" /\ i = Len(b) /\ b # << >>
      BY <2>2, BelowWait
    <3> QED BY <3>1
  <2> QED BY <2>1, <2>2
<1>3. ASSUME NEW i \in 1 .. Len(b), HeldNode(b[i]) # NULL
      PROVE  HeldNode(b[i]) \in lw \ ToSet(d)
  <2>1. HeldNode(b[i]) \in lv \ ToSet(c)
    BY <1>3 DEF CallsOK, Owned
  <2>2. HeldNode(b[i]) # HeldNode(g)
    BY <1>3 DEF CanPush
  <2> QED BY <2>1, <2>2
<1> QED BY <1>2, <1>3, CallsMove

\* The place of a queue_clear_type whose callback has queued an event.
LEMMA ClearAtInsert ==
  ASSUME NEW c \in Seq(Node), NEW f, NEW nx, NEW r, NEW cs, f.op = "clear", ~f.stale,
         AtPlace(f, c, nx, r, cs), "add" \in cs,
         NEW a \in 0 .. Len(c), NEW n \in Node, NEW mx,
         f.tmp # NULL => mx[f.tmp] = nx[f.tmp]
  PROVE  AtPlace(f, InsertAt(c, a + 1, n), mx, r, cs)
<1> DEFINE d == InsertAt(c, a + 1, n)
<1>1. Len(c) \in Nat /\ a \in Nat
  BY NodesOf
<1>2. /\ Len(d) = Len(c) + 1
      /\ \A j \in 1 .. Len(d) : d[j] = IF j <= a THEN c[j] ELSE IF j = a + 1 THEN n ELSE c[j - 1]
  <2>1. a + 1 \in 1 .. Len(c) + 1
    BY <1>1
  <2>2. Inserted(d, Node, c, a + 1, n)
    BY <2>1, InsertIs
  <2> QED BY <1>1, <2>2 DEF Inserted
<1> HIDE DEF d
<1>3. PICK p \in 0 .. Len(c), e \in 1 .. Len(c) + 1 : ClearAt(f, c, nx, r, cs, p, e)
  BY DEF AtPlace
<1> DEFINE u == IF p <= a THEN p ELSE p + 1
           v == IF e <= a THEN e ELSE e + 1
<1>4. p < e
  BY <1>3 DEF ClearAt
<1>5. u \in 0 .. Len(d) /\ v \in 1 .. Len(d) + 1 /\ u < v /\ (u > 0 <=> p > 0)
      /\ (v <= Len(d) <=> e <= Len(c))
  BY <1>1, <1>2, <1>4
<1>6. p > 0 => d[u] = c[p]
  BY <1>1, <1>2
<1>7. e <= Len(c) => d[v] = c[e]
  BY <1>1, <1>2
<1>8. SlotAt(d, u) = SlotAt(c, p)
  BY <1>1, <1>5, <1>6 DEF SlotAt
<1>9. LinkAt(d, v) = LinkAt(c, e)
  BY <1>1, <1>2, <1>5, <1>7 DEF LinkAt
<1> HIDE DEF u, v
<1>10. ClearAt(f, d, mx, r, cs, u, v)
  BY <1>3, <1>5, <1>6, <1>7, <1>8, <1>9 DEF ClearAt
<1> QED BY <1>5, <1>10 DEF AtPlace, d

\* The place of a queue_clear_type whose callback has removed an event.
LEMMA ClearAtCut ==
  ASSUME NEW c \in Seq(Node), NEW f, NEW nx, NEW r, NEW cs, f.op = "clear", ~f.stale,
         AtPlace(f, c, nx, r, cs), NEW k \in 1 .. Len(c), c[k] \notin Holds(f),
         NEW mx, NEW q, f.tmp # NULL => f.tmp \in Node /\ mx[f.tmp] = nx[f.tmp] /\ f.tmp # c[k],
         \A n \in Node : n # c[k] => q[n] = r[n]
  PROVE  AtPlace(f, Cut(c, k - 1, k), mx, q, cs)
<1> DEFINE d == Cut(c, k - 1, k)
<1>1. Len(c) \in Nat /\ \A i \in 1 .. Len(c) : c[i] \in Node
  BY NodesOf
<1>2. /\ Len(d) = Len(c) - 1
      /\ \A j \in 1 .. Len(d) : d[j] = IF j < k THEN c[j] ELSE c[j + 1]
  <2> DEFINE l == k - 1
  <2>1. l \in 0 .. Len(c) /\ k \in l .. Len(c) /\ k = l + 1
    BY <1>1
  <2> HIDE DEF l
  <2>2. /\ Len(Cut(c, l, k)) = Len(c) - (k - l)
        /\ \A j \in 1 .. Len(c) - (k - l) :
             Cut(c, l, k)[j] = IF j <= l THEN c[j] ELSE c[j + (k - l)]
    BY <2>1, CutIndex
  <2>3. k - l = 1
    BY <2>1
  <2>4. \A j \in 1 .. Len(c) - 1 : j <= l <=> j < k
    BY <1>1, <2>1
  <2> QED BY <2>2, <2>3, <2>4 DEF l
<1> HIDE DEF d
<1>3. PICK p \in 0 .. Len(c), e \in 1 .. Len(c) + 1 : ClearAt(f, c, nx, r, cs, p, e)
  BY DEF AtPlace
<1>4. p < e /\ f.ptr = SlotAt(c, p) /\ f.curr = LinkAt(c, e) /\ ("add" \notin cs => e = p + 1)
  BY <1>3 DEF ClearAt
<1>5. p # k /\ (p > 0 => c[p] # c[k])
  <2>1. CASE p > 0
    <3>1. p \in 1 .. Len(c) /\ f.ptr = c[p] /\ c[p] \in Node
      BY <1>1, <1>4, <2>1 DEF SlotAt
    <3>2. c[p] \in Holds(f)
      BY <3>1 DEF Holds
    <3> QED BY <3>2
  <2> QED BY <1>1, <2>1
<1>6. e # k /\ (e <= Len(c) => c[e] # c[k])
  <2>1. CASE e <= Len(c)
    <3>1. e \in 1 .. Len(c) /\ f.curr = c[e] /\ c[e] \in Node
      BY <1>1, <1>4, <2>1 DEF LinkAt
    <3>2. c[e] \in Holds(f)
      BY <3>1 DEF Holds
    <3> QED BY <3>2
  <2> QED BY <1>1, <2>1
<1> DEFINE u == IF p < k THEN p ELSE p - 1
           v == IF e < k THEN e ELSE e - 1
<1>7. u \in 0 .. Len(d) /\ v \in 1 .. Len(d) + 1 /\ u < v /\ (u > 0 <=> p > 0)
      /\ (v <= Len(d) <=> e <= Len(c)) /\ (e = p + 1 => v = u + 1)
  BY <1>1, <1>2, <1>4, <1>5, <1>6
<1>8. p > 0 => d[u] = c[p]
  BY <1>1, <1>2, <1>5
<1>9. e <= Len(c) => d[v] = c[e]
  BY <1>1, <1>2, <1>6
<1>10. SlotAt(d, u) = SlotAt(c, p)
  BY <1>1, <1>7, <1>8 DEF SlotAt
<1>11. LinkAt(d, v) = LinkAt(c, e)
  BY <1>1, <1>2, <1>7, <1>9 DEF LinkAt
<1> HIDE DEF u, v
<1>12. ClearAt(f, d, mx, q, cs, u, v)
  BY <1>3, <1>5, <1>6, <1>7, <1>8, <1>9, <1>10, <1>11 DEF ClearAt
<1> QED BY <1>7, <1>12 DEF AtPlace, d

-----------------------------------------------------------------------------
(* The steps that leave the list as it is.                                 *)

\* Allocated nodes that are neither in the list c nor owned by a call of s.
LostNodes(c, s, lv) == lv \ (ToSet(c) \cup HeldSet(s))

\* The slots and links of the list.
LEMMA PlacesOf ==
  ASSUME NEW nx, NEW c, Links(nx, c)
  PROVE  /\ c \in Seq(Node) /\ Len(c) \in Nat
         /\ \A i \in 1 .. Len(c) : c[i] \in ToSet(c) /\ c[i] \in Node /\ c[i] # NULL /\ c[i] # HEAD
         /\ \A a \in 0 .. Len(c) : SlotAt(c, a) \in Slot /\ SlotAt(c, a) \in ToSet(c) \cup {HEAD}
         /\ \A a \in 0 .. Len(c) : nx[SlotAt(c, a)] = LinkAt(c, a + 1) /\ LinkAt(c, a + 1) \in Link
         /\ \A a \in 0 .. Len(c) :
              LinkAt(c, a + 1) # NULL => a + 1 \in 1 .. Len(c) /\ LinkAt(c, a + 1) = c[a + 1]
         /\ SlotAt(c, 0) = HEAD
<1>1. c \in Seq(Node) /\ Len(c) \in Nat
      /\ \A i \in 1 .. Len(c) : c[i] \in ToSet(c) /\ c[i] \in Node /\ c[i] # NULL /\ c[i] # HEAD
  BY NodesOf DEF Links
<1>2. \A a \in 0 .. Len(c) : SlotAt(c, a) \in Slot /\ SlotAt(c, a) \in ToSet(c) \cup {HEAD}
  BY <1>1 DEF SlotAt, Slot
<1>3. \A a \in 0 .. Len(c) : nx[SlotAt(c, a)] = LinkAt(c, a + 1) /\ LinkAt(c, a + 1) \in Link
  <2>1. \A a \in 0 .. Len(c) : LinkAt(c, a + 1) \in Link
    BY <1>1 DEF LinkAt, Link
  <2> QED BY <2>1 DEF Links
<1>4. \A a \in 0 .. Len(c) :
        LinkAt(c, a + 1) # NULL => a + 1 \in 1 .. Len(c) /\ LinkAt(c, a + 1) = c[a + 1]
  BY DEF LinkAt
<1>5. SlotAt(c, 0) = HEAD
  BY DEF SlotAt
<1> QED BY <1>1, <1>2, <1>3, <1>4, <1>5

\* Different places of the list are different slots.
LEMMA SlotsDiffer ==
  ASSUME NEW nx, NEW c, Links(nx, c), NEW a \in 0 .. Len(c), NEW k \in 0 .. Len(c),
         SlotAt(c, a) = SlotAt(c, k)
  PROVE  a = k
<1>1. Len(c) \in Nat /\ \A i \in 1 .. Len(c) : c[i] # HEAD
  BY PlacesOf
<1>2. CASE a = 0 \/ k = 0
  BY <1>1, <1>2 DEF SlotAt
<1>3. CASE a # 0 /\ k # 0
  <2>1. a \in 1 .. Len(c) /\ k \in 1 .. Len(c) /\ c[a] = c[k]
    BY <1>1, <1>3 DEF SlotAt
  <2> QED BY <2>1, Zenon DEF Links
<1> QED BY <1>2, <1>3

\* The innermost call and what is below it.
LEMMA TopOf ==
  ASSUME NEW c, Good(c), stack # << >>
  PROVE  /\ Top \in Frame /\ stack \in Seq(Frame) /\ Below(stack) \in Seq(Frame)
         /\ CallsOK(Below(stack), c, next, rec, live, calls)
         /\ CanPush(Below(stack), Top, c, next, rec, live, calls)
         /\ AtPlace(Top, c, next, rec, calls)
         /\ HeldNode(Top) # NULL => HeldNode(Top) \in live /\ HeldNode(Top) \notin ToSet(c)
         /\ HeldSet(stack) = HeldSet(Below(stack)) \cup {HeldNode(Top)}
<1>1. CallsOK(stack, c, next, rec, live, calls)
  BY DEF Good
<1>2. stack \in Seq(Frame)
  BY <1>1 DEF CallsOK
<1>3. Below(stack) \in Seq(Frame) /\ stack[Len(stack)] \in Frame
  BY <1>2, BelowIndex
<1>4. CallsOK(Below(stack), c, next, rec, live, calls)
      /\ CanPush(Below(stack), stack[Len(stack)], c, next, rec, live, calls)
  BY <1>1, CallsSplit
<1>5. HeldSet(stack) = HeldSet(Below(stack)) \cup {HeldNode(stack[Len(stack)])}
  BY <1>2, HeldSplit
<1>6. AtPlace(stack[Len(stack)], c, next, rec, calls)
      /\ (HeldNode(stack[Len(stack)]) # NULL =>
            HeldNode(stack[Len(stack)]) \in live /\ HeldNode(stack[Len(stack)]) \notin ToSet(c))
  BY <1>4 DEF CanPush
<1> QED BY <1>2, <1>3, <1>4, <1>5, <1>6 DEF Top

\* The innermost call goes on as g, those below it as q.
LEMMA SetCalls ==
  ASSUME NEW q, NEW d, NEW g, stack' = Append(q, g),
         CallsOK(q, d, next', rec', live', calls'),
         CanPush(q, g, d, next', rec', live', calls')
  PROVE  /\ CallsOK(stack', d, next', rec', live', calls')
         /\ HeldSet(stack') = HeldSet(q) \cup {HeldNode(g)}
<1>1. g \in Frame /\ q \in Seq(Frame)
  BY DEF CanPush, CallsOK
<1> QED BY <1>1, CallsPush, HeldPush

\* It goes on as g, and those below it stay.
LEMMA SetTopAppend ==
  ASSUME NEW c, Good(c), stack # << >>, NEW g \in Frame, SetTop(g)
  PROVE  stack' = Append(Below(stack), g)
BY TopOf, SetTopIs DEF SetTop

\* The calls b when node n is freed under them.
Marked(b, n) == [i \in 1 .. Len(b) |-> Freed(b[i], n)]

\* They own the same nodes. Only a queue_clear_type that goes on with n minds.
LEMMA MarkedIs ==
  ASSUME NEW b \in Seq(Frame), NEW n
  PROVE  /\ Marked(b, n) \in Seq(Frame) /\ Len(Marked(b, n)) = Len(b)
         /\ \A i \in 1 .. Len(b) :
              /\ Marked(b, n)[i] = Freed(b[i], n) /\ Marked(b, n)[i].op = b[i].op
              /\ HeldNode(Marked(b, n)[i]) = HeldNode(b[i])
              /\ Marked(b, n)[i].op = "clear" /\ ~Marked(b, n)[i].stale =>
                   Marked(b, n)[i] = b[i] /\ n \notin Holds(b[i])
         /\ HeldSet(Marked(b, n)) = HeldSet(b)
         /\ (\A i \in 1 .. Len(b) : n \notin Holds(b[i])) => Marked(b, n) = b
<1> DEFINE m == Marked(b, n)
<1>1. Len(b) \in Nat /\ \A i \in 1 .. Len(b) : b[i] \in Frame
  BY ElementOfSeq
<1>2. ASSUME NEW i \in 1 .. Len(b)
      PROVE  /\ Freed(b[i], n) \in Frame /\ Freed(b[i], n).op = b[i].op
             /\ HeldNode(Freed(b[i], n)) = HeldNode(b[i])
             /\ Freed(b[i], n).op = "clear" /\ ~Freed(b[i], n).stale =>
                  Freed(b[i], n) = b[i] /\ n \notin Holds(b[i])
  <2>1. PICK f \in Frame : f = b[i]
    BY <1>1
  <2>2. CASE f.op = "clear"
    <3>1. /\ [f EXCEPT !.stale = TRUE] \in Frame /\ [f EXCEPT !.stale = TRUE].op = f.op
          /\ [f EXCEPT !.stale = TRUE].tmp = f.tmp /\ [f EXCEPT !.stale = TRUE].stale
      BY <2>2 DEF Frame
    <3> QED BY <2>1, <2>2, <3>1 DEF Freed, HeldNode
  <2>3. CASE f.op # "clear"
    BY <2>1, <2>3 DEF Freed, Holds
  <2> QED BY <2>2, <2>3
<1>3. m \in Seq(Frame) /\ Len(m) = Len(b) /\ \A i \in 1 .. Len(b) : m[i] = Freed(b[i], n)
  BY <1>1, <1>2 DEF Marked
<1> HIDE DEF m
<1>4. HeldSet(m) = HeldSet(b)
  <2>1. \A i \in 1 .. Len(b) : HeldNode(m[i]) = HeldNode(b[i])
    BY <1>2, <1>3
  <2> QED BY <1>3, <2>1 DEF HeldSet
<1>5. ASSUME \A i \in 1 .. Len(b) : n \notin Holds(b[i]) PROVE m = b
  <2>1. \A i \in 1 .. Len(b) : m[i] = b[i]
    BY <1>3, <1>5 DEF Freed
  <2> QED BY <1>3, <2>1, SeqEqual
<1> QED BY <1>2, <1>3, <1>4, <1>5 DEF m

\* They are in progress as before.
LEMMA MarkedOK ==
  ASSUME NEW b, NEW g, NEW c, NEW nx, NEW r, NEW lv, NEW cs, NEW n,
         CallsOK(b, c, nx, r, lv, cs), CanPush(b, g, c, nx, r, lv, cs)
  PROVE  /\ CallsOK(Marked(b, n), c, nx, r, lv, cs)
         /\ CanPush(Marked(b, n), g, c, nx, r, lv, cs)
<1> DEFINE m == Marked(b, n)
<1>1. b \in Seq(Frame) /\ Len(b) \in Nat
  BY DEF CallsOK
<1>2. /\ m \in Seq(Frame) /\ Len(m) = Len(b)
      /\ \A i \in 1 .. Len(b) : /\ m[i].op = b[i].op /\ HeldNode(m[i]) = HeldNode(b[i])
                                /\ m[i].op = "clear" /\ ~m[i].stale => m[i] = b[i]
  BY <1>1, MarkedIs
<1> HIDE DEF m
<1>3. ASSUME NEW i \in 1 .. Len(b)
      PROVE  /\ b[i].op \in {"process", "clear"} /\ HeldNode(b[i]) # NULL
             /\ AtPlace(m[i], c, nx, r, cs)
  <2>1. b[i].op \in {"process", "clear"} /\ HeldNode(b[i]) # NULL
    BY BelowWait DEF HeldNode
  <2>2. CASE m[i].op = "clear" /\ ~m[i].stale
    BY <1>2, <2>1, <2>2 DEF CallsOK
  <2>3. CASE ~(m[i].op = "clear" /\ ~m[i].stale)
    BY <1>2, <2>1, <2>3 DEF AtPlace, HeldNode
  <2> QED BY <2>1, <2>2, <2>3
<1>4. ASSUME NEW i \in 1 .. Len(b), NEW h, NEW k, h.op = k.op, Calling(b[i], h, cs)
      PROVE  Calling(m[i], k, cs)
  BY <1>2, <1>3, <1>4 DEF Calling, HeldNode
<1>5. ASSUME NEW i \in 1 .. Len(m) - 1 PROVE Calling(m[i], m[i + 1], cs)
  <2>1. i \in 1 .. Len(b) - 1 /\ i \in 1 .. Len(b) /\ i + 1 \in 1 .. Len(b)
    BY <1>1, <1>2
  <2>2. Calling(b[i], b[i + 1], cs) /\ b[i + 1].op = m[i + 1].op
    BY <1>2, <2>1 DEF CallsOK
  <2> QED BY <1>4, <2>1, <2>2
<1>6. Owned(m, c, lv)
  BY <1>2 DEF CallsOK, Owned
<1>7. CallsOK(m, c, nx, r, lv, cs)
  BY <1>2, <1>3, <1>5, <1>6 DEF CallsOK
<1>8. m # << >> => Calling(m[Len(m)], g, cs)
  <2>1. m # << >> => b # << >> /\ Len(b) \in 1 .. Len(b)
    BY <1>1, <1>2, EmptySeq
  <2> QED BY <1>2, <1>4, <2>1 DEF CanPush
<1>9. CanPush(m, g, c, nx, r, lv, cs)
  BY <1>2, <1>8 DEF CanPush
<1> QED BY <1>7, <1>9 DEF m

\* The innermost call goes on as g and has freed node n.
LEMMA SetTopFreeIs ==
  ASSUME NEW c, Good(c), stack # << >>, NEW g \in Frame, NEW n, SetTopFree(g, n)
  PROVE  stack' = Append(Marked(Below(stack), n), g)
<1> DEFINE b == Below(stack)
           m == Marked(b, n)
           t == [i \in 1 .. Len(stack) |-> IF i = Len(stack) THEN g ELSE Freed(stack[i], n)]
           u == Append(m, g)
<1>1. stack \in Seq(Frame) /\ b \in Seq(Frame)
  BY TopOf
<1>2. Len(stack) \in Nat \ {0} /\ Len(b) = Len(stack) - 1 /\ \A i \in 1 .. Len(stack) - 1 : b[i] = stack[i]
  BY <1>1, BelowIndex
<1> HIDE DEF b
<1>3. m \in Seq(Frame) /\ Len(m) = Len(b) /\ \A i \in 1 .. Len(b) : m[i] = Freed(b[i], n)
  BY <1>1, MarkedIs
<1> HIDE DEF m
<1>4. u \in Seq(Frame) /\ Len(u) = Len(stack) /\ u[Len(stack)] = g
      /\ \A i \in 1 .. Len(stack) - 1 : u[i] = Freed(stack[i], n)
  <2>1. u \in Seq(Frame) /\ Len(u) = Len(m) + 1 /\ u[Len(m) + 1] = g /\ \A i \in 1 .. Len(m) : u[i] = m[i]
    BY <1>3, AppendProperties
  <2> HIDE DEF u
  <2> QED BY <1>2, <1>3, <2>1
<1> HIDE DEF u
<1>5. \A i \in 1 .. Len(stack) : t[i] = u[i]
  BY <1>2, <1>4
<1>6. \A i \in 1 .. Len(stack) : t[i] \in Frame
  BY <1>4, <1>5, ElementOfSeq
<1>7. t \in Seq(Frame) /\ Len(t) = Len(stack)
  BY <1>2, <1>6
<1> HIDE DEF t
<1>8. t = u
  BY <1>4, <1>5, <1>7, SeqEqual
<1>9. stack' = t
  BY DEF SetTopFree, t
<1> QED BY <1>8, <1>9 DEF t, u, m, b

\* A call of queue_process or queue_clear_type has no suspended queue_clear_type
\* below it, whose callbacks only add and remove.
LEMMA MarkedSame ==
  ASSUME NEW c, Good(c), stack # << >>, Top.op \in {"process", "clear"}, NEW n
  PROVE  Marked(Below(stack), n) = Below(stack)
<1> DEFINE b == Below(stack)
<1>1. /\ b \in Seq(Frame) /\ CallsOK(b, c, next, rec, live, calls)
      /\ CanPush(b, Top, c, next, rec, live, calls)
  BY TopOf
<1> HIDE DEF b
<1>2. ASSUME NEW i \in 1 .. Len(b) PROVE n \notin Holds(b[i])
  <2>1. b[i].op = "process"
    BY <1>1, BelowWait
  <2> QED BY <2>1 DEF Holds
<1>3. Marked(b, n) = b
  BY <1>1, <1>2, MarkedIs
<1> QED BY <1>3 DEF b

\* A step of the innermost call that changes its own pointers only.
LEMMA SetStep ==
  ASSUME NEW c, Good(c), stack # << >>, NEW g \in Frame, SetTop(g), g.op = Top.op,
         AtPlace(g, c, next, rec, calls), HeldNode(g) = HeldNode(Top),
         UNCHANGED << next, rec, live, clock, calls >>
  PROVE  Good(c)' /\ LostNodes(c, stack', live') = LostNodes(c, stack, live)
<1> DEFINE b == Below(stack)
<1>1. CallsOK(b, c, next, rec, live, calls) /\ CanPush(b, Top, c, next, rec, live, calls)
  BY TopOf
<1>2. CanPush(b, g, c, next, rec, live, calls)
  BY <1>1, CanPushSame
<1>3. CallsOK(b, c, next', rec', live', calls') /\ CanPush(b, g, c, next', rec', live', calls')
  BY <1>1, <1>2
<1> HIDE DEF b
<1>4. /\ CallsOK(stack', c, next', rec', live', calls')
      /\ HeldSet(stack') = HeldSet(b) \cup {HeldNode(g)}
  <2>1. stack' = Append(b, g)
    BY SetTopAppend DEF b
  <2> QED BY <1>3, <2>1, SetCalls
<1>5. HeldSet(stack') = HeldSet(stack)
  BY <1>4, TopOf DEF b
<1>6. Good(c)'
  BY <1>4 DEF Good
<1> QED BY <1>5, <1>6 DEF LostNodes

\* The innermost call ends and owns nothing.
LEMMA PopStep ==
  ASSUME NEW c, Good(c), stack # << >>, HeldNode(Top) = NULL, Pop,
         UNCHANGED << next, rec, live, clock, calls >>
  PROVE  Good(c)' /\ LostNodes(c, stack', live') = LostNodes(c, stack, live)
<1>1. stack' = Below(stack)
  BY DEF Pop, Below
<1>2. CallsOK(stack', c, next', rec', live', calls')
  BY <1>1, TopOf
<1>3. HeldSet(stack) = HeldSet(stack') \cup {NULL}
  BY <1>1, TopOf
<1>4. NULL \notin live
  BY PointerAssumption DEF Good, Typed
<1> QED BY <1>2, <1>3, <1>4 DEF Good, LostNodes

\* A call that owns nothing begins.
LEMMA PushStep ==
  ASSUME NEW c, Good(c), NEW g, CanPush(stack, g, c, next, rec, live, calls), HeldNode(g) = NULL,
         Push(g), UNCHANGED << next, rec, live, clock, calls >>
  PROVE  Good(c)' /\ LostNodes(c, stack', live') = LostNodes(c, stack, live)
<1>1. CallsOK(stack, c, next, rec, live, calls)
  BY DEF Good
<1>2. stack' = Append(stack, g) /\ g \in Frame /\ stack \in Seq(Frame)
  BY <1>1 DEF Push, CanPush, CallsOK
<1>3. CallsOK(stack', c, next', rec', live', calls')
  BY <1>1, <1>2, CallsPush
<1>4. HeldSet(stack') = HeldSet(stack) \cup {NULL}
  BY <1>2, HeldPush
<1>5. NULL \notin live
  BY PointerAssumption DEF Good, Typed
<1> QED BY <1>3, <1>4, <1>5 DEF Good, LostNodes

\* A call may begin on the innermost one.
LEMMA CallingTop ==
  ASSUME NEW c, Good(c), NEW g, MayCall(g.op), stack # << >>
  PROVE  Calling(stack[Len(stack)], g, calls)
<1>1. calls \subseteq {"add", "remove"} /\ Len(stack) \in 1 .. Len(stack)
  BY EmptySeq DEF Good, CallsOK
<1>2. InHandler \/ InCallback
  BY DEF MayCall, Outside
<1>3. InCallback => g.op \in calls
  BY <1>1 DEF MayCall, InCallback, Running, Top
<1> QED BY <1>1, <1>2, <1>3 DEF InHandler, InCallback, Running, Top, Calling

\* A place stays good when the nodes in use keep their records and pointers.
LEMMA AtPlaceSame ==
  ASSUME NEW f \in Frame, NEW c \in Seq(Node), NEW nx, NEW r, NEW cs, AtPlace(f, c, nx, r, cs),
         NEW lv, ToSet(c) \subseteq lv, HeldNode(f) # NULL => HeldNode(f) \in lv,
         NEW mx, NEW q, \A n \in lv : q[n] = r[n], \A n \in lv \ ToSet(c) : mx[n] = nx[n],
         HeldNode(f) \notin ToSet(c)
  PROVE  AtPlace(f, c, mx, q, cs)
<1>1. \A a \in 1 .. Len(c) : q[c[a]] = r[c[a]]
  BY NodesOf
<1>2. Len(c) \in Nat
  BY NodesOf
<1>3. f.op = "add" => q[f.node] = r[f.node]
  <2>1. f.op = "add" => HeldNode(f) = f.node /\ f.node # NULL
    BY FrameFields, PointerAssumption DEF HeldNode
  <2> QED BY <2>1
<1>4. f.op = "clear" /\ f.tmp # NULL => q[f.tmp] = r[f.tmp] /\ mx[f.tmp] = nx[f.tmp]
  BY DEF HeldNode
<1>5. f.op = "add" => \E a \in 0 .. Len(c) :
        f.ptr = SlotAt(c, a) /\ (a > 0 => q[c[a]].time <= q[f.node].time)
  <2>1. \A a \in 0 .. Len(c) : a > 0 => q[c[a]] = r[c[a]]
    BY <1>1, <1>2
  <2> QED BY <1>3, <2>1 DEF AtPlace
<1>6. f.op = "clear" /\ ~f.stale => \E a \in 0 .. Len(c), e \in 1 .. Len(c) + 1 : ClearAt(f, c, mx, q, cs, a, e)
  <2>1. ASSUME f.op = "clear", ~f.stale, NEW a \in 0 .. Len(c), NEW e \in 1 .. Len(c) + 1,
               ClearAt(f, c, nx, r, cs, a, e)
        PROVE  ClearAt(f, c, mx, q, cs, a, e)
    <3>1. (a > 0 => q[c[a]] = r[c[a]]) /\ (e <= Len(c) => q[c[e]] = r[c[e]])
      BY <1>1, <1>2
    <3> QED BY <1>4, <2>1, <3>1 DEF ClearAt
  <2> QED BY <2>1 DEF AtPlace
<1> QED BY <1>5, <1>6 DEF AtPlace

\* The invariant leads to itself over a step, and what is lost was lost before.
Leads(c, d) ==
  Good(d)' /\ LostNodes(d, stack', live') \subseteq LostNodes(c, stack, live)

\* The clock moves.
LEMMA SetClockStep ==
  ASSUME NEW c, Good(c), SetClock, UNCHANGED calls
  PROVE  Leads(c, c)
BY DEF SetClock, Good, Leads, LostNodes

\* queue_add begins: its node was free, and nothing is known of a free node.
LEMMA QueueAddStep ==
  ASSUME NEW c, Good(c), NEW t \in Time, NEW ty \in Type, NEW o \in Owner, QueueAdd(t, ty, o),
         UNCHANGED calls
  PROVE  Leads(c, c)
<1>1. PICK n \in Node \ live :
        /\ rec' = [rec EXCEPT ![n] = [time |-> t, type |-> ty, owner |-> o]]
        /\ live' = live \cup {n}
        /\ Push([op |-> "add", ptr |-> HEAD, node |-> n])
  BY DEF QueueAdd
<1> DEFINE g == [op |-> "add", ptr |-> HEAD, node |-> n]
<1>2. UNCHANGED << next, clock, calls >> /\ MayCall("add")
  BY DEF QueueAdd
<1>3. Typed(next, rec, live) /\ Linked(c, next, rec, live)
      /\ CallsOK(stack, c, next, rec, live, calls)
  BY DEF Good
<1>4. c \in Seq(Node) /\ ToSet(c) \subseteq live /\ stack \in Seq(Frame) /\ Len(c) \in Nat
  BY <1>3, NodesOf DEF Linked, Links, CallsOK
<1>5. (\A m \in live : rec'[m] = rec[m]) /\ rec'[n] = [time |-> t, type |-> ty, owner |-> o]
      /\ DOMAIN rec' = Node
  BY <1>1, <1>3 DEF Typed
<1>6. Typed(next', rec', live')
  BY <1>1, <1>2, <1>3, <1>5 DEF Typed, Rec
<1>7. Linked(c, next', rec', live')
  <2>1. \A i \in 1 .. Len(c) : rec'[c[i]] = rec[c[i]]
    BY <1>4, <1>5, NodesOf
  <2> QED BY <1>1, <1>2, <1>3, <2>1 DEF Linked
<1>8. \A i \in 1 .. Len(stack) :
        /\ stack[i] \in Frame /\ AtPlace(stack[i], c, next, rec, calls)
        /\ HeldNode(stack[i]) # NULL => HeldNode(stack[i]) \in live \ ToSet(c)
  BY <1>3, <1>4, ElementOfSeq DEF CallsOK, Owned
<1>9. NULL \notin live /\ NULL # n
  BY <1>3, PointerAssumption DEF Typed
<1>10. CallsOK(stack, c, next', rec', live', calls')
  <2>1. ASSUME NEW i \in 1 .. Len(stack) PROVE AtPlace(stack[i], c, next', rec', calls')
    <3>1. HeldNode(stack[i]) \notin ToSet(c)
      BY <1>4, <1>8, <1>9
    <3> QED BY <1>2, <1>4, <1>5, <1>8, <3>1, AtPlaceSame
  <2>2. \A i \in 1 .. Len(stack) : HeldNode(stack[i]) # NULL => HeldNode(stack[i]) \in live' \ ToSet(c)
    BY <1>1, <1>8
  <2> QED BY <1>2, <1>3, <2>1, <2>2, CallsMove
<1>11. CanPush(stack, g, c, next', rec', live', calls')
  <2>1. g \in Frame /\ g.op = "add" /\ HeldNode(g) = n
    BY DEF Frame, Slot, HeldNode
  <2>2. stack # << >> => Calling(stack[Len(stack)], g, calls')
    BY <1>2, <2>1, CallingTop
  <2>3. AtPlace(g, c, next', rec', calls')
    <3>1. 0 \in 0 .. Len(c) /\ g.ptr = SlotAt(c, 0)
      BY <1>4 DEF SlotAt
    <3> QED BY <2>1, <3>1 DEF AtPlace
  <2>4. n \in live' \ ToSet(c) /\ \A i \in 1 .. Len(stack) : HeldNode(stack[i]) # n
    BY <1>1, <1>4, <1>8, <1>9
  <2> QED BY <2>1, <2>2, <2>3, <2>4 DEF CanPush
<1>12. stack' = Append(stack, g) /\ g \in Frame
  BY <1>1, <1>11 DEF Push, CanPush
<1> HIDE DEF g
<1>13. CallsOK(stack', c, next', rec', live', calls')
  BY <1>10, <1>11, <1>12, CallsPush
<1>14. HeldSet(stack') = HeldSet(stack) \cup {n}
  <2>1. HeldNode(g) = n
    BY DEF g, HeldNode
  <2> QED BY <1>4, <1>12, <2>1, HeldPush
<1>15. Good(c)'
  BY <1>2, <1>6, <1>7, <1>13 DEF Good
<1> QED BY <1>1, <1>14, <1>15 DEF Leads, LostNodes

\* The walk of queue_add stands behind an event that is not later.
LEMMA AddWalkStep ==
  ASSUME NEW c, Good(c), AddWalk, UNCHANGED calls
  PROVE  Leads(c, c)
<1>1. stack # << >> /\ Top.op = "add" /\ AddGoesOn(Top)
      /\ SetTop([Top EXCEPT !.ptr = next[Top.ptr]])
      /\ UNCHANGED << next, rec, live, clock, calls >>
  BY DEF AddWalk, Running
<1>2. Top \in Frame /\ AtPlace(Top, c, next, rec, calls) /\ Links(next, c)
  BY <1>1, TopOf DEF Good, Linked
<1>3. PICK a \in 0 .. Len(c) : Top.ptr = SlotAt(c, a)
  BY <1>1, <1>2 DEF AtPlace
<1>4. a + 1 \in 1 .. Len(c) /\ next[Top.ptr] = c[a + 1] /\ c[a + 1] \in Slot
  BY <1>1, <1>2, <1>3, PlacesOf DEF AddGoesOn, Slot
<1> DEFINE g == [Top EXCEPT !.ptr = next[Top.ptr]]
<1>5. g \in Frame /\ g.op = "add" /\ g.ptr = c[a + 1] /\ g.node = Top.node
  BY <1>1, <1>2, <1>4, AddFrame
<1> HIDE DEF g
<1>6. AtPlace(g, c, next, rec, calls)
  <2>1. rec[c[a + 1]].time <= rec[g.node].time
    BY <1>1, <1>4, <1>5 DEF AddGoesOn
  <2>2. a + 1 \in 0 .. Len(c) /\ g.ptr = SlotAt(c, a + 1)
    BY <1>4, <1>5 DEF SlotAt
  <2> QED BY <1>5, <2>1, <2>2 DEF AtPlace
<1>7. HeldNode(g) = HeldNode(Top)
  BY <1>1, <1>5 DEF HeldNode
<1>8. SetTop(g)
  BY <1>1 DEF g
<1>9. Good(c)' /\ LostNodes(c, stack', live') = LostNodes(c, stack, live)
  BY <1>1, <1>5, <1>6, <1>7, <1>8, SetStep
<1> QED BY <1>9 DEF Leads

\* queue_remove and queue_remove_this begin.
LEMMA QueueRemoveStep ==
  ASSUME NEW c, Good(c), NEW o \in Owner, NEW ty \in Type \cup {ANY}, QueueRemove(o, ty),
         UNCHANGED calls
  PROVE  Leads(c, c)
<1> DEFINE g == [op |-> "remove", ptr |-> HEAD, curr |-> next[HEAD], owner |-> o, type |-> ty]
<1>1. MayCall("remove") /\ Push(g) /\ UNCHANGED << next, rec, live, clock, calls >>
  BY DEF QueueRemove
<1>2. Links(next, c) /\ stack \in Seq(Frame)
  BY DEF Good, Linked, CallsOK
<1>3. 0 \in 0 .. Len(c) /\ next[HEAD] = LinkAt(c, 1) /\ LinkAt(c, 1) \in Link /\ SlotAt(c, 0) = HEAD
  BY <1>2, PlacesOf
<1>4. g \in Frame /\ g.op = "remove" /\ HeldNode(g) = NULL
  BY <1>3 DEF Frame, Slot, HeldNode
<1>5. AtPlace(g, c, next, rec, calls)
  BY <1>3 DEF AtPlace
<1>6. stack # << >> => Calling(stack[Len(stack)], g, calls)
  BY <1>1, <1>4, CallingTop
<1>7. CanPush(stack, g, c, next, rec, live, calls)
  BY <1>4, <1>5, <1>6 DEF CanPush
<1> HIDE DEF g
<1>8. Good(c)' /\ LostNodes(c, stack', live') = LostNodes(c, stack, live)
  BY <1>1, <1>4, <1>7, PushStep
<1> QED BY <1>8 DEF Leads

\* The walk of queue_remove steps over an event.
LEMMA RemoveSkipStep ==
  ASSUME NEW c, Good(c), RemoveSkip, UNCHANGED calls
  PROVE  Leads(c, c)
<1> DEFINE g == [Top EXCEPT !.ptr = Top.curr, !.curr = next[Top.curr]]
<1>1. stack # << >> /\ Top.op = "remove" /\ Top.curr # NULL /\ SetTop(g)
      /\ UNCHANGED << next, rec, live, clock, calls >>
  BY DEF RemoveSkip, Running
<1>2. Top \in Frame /\ AtPlace(Top, c, next, rec, calls) /\ Links(next, c)
  BY <1>1, TopOf DEF Good, Linked
<1>3. PICK a \in 0 .. Len(c) : Top.ptr = SlotAt(c, a) /\ Top.curr = LinkAt(c, a + 1)
  BY <1>1, <1>2 DEF AtPlace
<1>4. a + 1 \in 1 .. Len(c) /\ Top.curr = c[a + 1] /\ c[a + 1] \in Slot
  BY <1>1, <1>2, <1>3, PlacesOf DEF Slot
<1>5. a + 1 \in 0 .. Len(c) /\ SlotAt(c, a + 1) = c[a + 1]
  BY <1>4 DEF SlotAt
<1>6. next[Top.curr] = LinkAt(c, a + 1 + 1) /\ next[Top.curr] \in Link
  BY <1>2, <1>4, <1>5, PlacesOf
<1>7. g \in Frame /\ g.op = "remove" /\ g.ptr = c[a + 1] /\ g.curr = LinkAt(c, a + 1 + 1)
  <2>1. RemoveTo(Top, c[a + 1], LinkAt(c, a + 1 + 1), g)
    BY <1>4, <1>6 DEF RemoveTo
  <2> HIDE DEF g
  <2> QED BY <1>1, <1>2, <1>4, <1>6, <2>1, RemoveFrame
<1> HIDE DEF g
<1>8. AtPlace(g, c, next, rec, calls)
  BY <1>5, <1>7 DEF AtPlace
<1>9. HeldNode(g) = HeldNode(Top)
  BY <1>1, <1>7 DEF HeldNode
<1>10. Good(c)' /\ LostNodes(c, stack', live') = LostNodes(c, stack, live)
  BY <1>1, <1>7, <1>8, <1>9, SetStep
<1> QED BY <1>10 DEF Leads

\* queue_remove, queue_process and queue_clear_type end.
LEMMA DoneStep ==
  ASSUME NEW c, Good(c), RemoveDone \/ ProcessDone \/ ClearDone, UNCHANGED calls
  PROVE  Leads(c, c)
<1>1. stack # << >> /\ Pop /\ UNCHANGED << next, rec, live, clock, calls >>
  BY DEF RemoveDone, ProcessDone, ClearDone, Running
<1>2. HeldNode(Top) = NULL
  BY DEF RemoveDone, ProcessDone, ClearDone, Running, HeldNode
<1>3. Good(c)' /\ LostNodes(c, stack', live') = LostNodes(c, stack, live)
  BY <1>1, <1>2, PopStep
<1> QED BY <1>3 DEF Leads

\* queue_process begins.
LEMMA QueueProcessStep ==
  ASSUME NEW c, Good(c), QueueProcess, UNCHANGED calls
  PROVE  Leads(c, c)
<1> DEFINE g == [op |-> "process", now |-> clock, rc |-> 0, node |-> NULL]
<1>1. MayCall("process") /\ Push(g) /\ UNCHANGED << next, rec, live, clock, calls >>
  BY DEF QueueProcess
<1>2. g \in Frame /\ g.op = "process" /\ HeldNode(g) = NULL
  BY DEF Good, Frame, Link, HeldNode
<1>3. stack # << >> => Calling(stack[Len(stack)], g, calls)
  BY <1>1, <1>2, CallingTop
<1>4. CanPush(stack, g, c, next, rec, live, calls)
  BY <1>2, <1>3 DEF CanPush, AtPlace
<1> HIDE DEF g
<1>5. Good(c)' /\ LostNodes(c, stack', live') = LostNodes(c, stack, live)
  BY <1>1, <1>2, <1>4, PushStep
<1> QED BY <1>5 DEF Leads

\* queue_clear_type begins.
LEMMA QueueClearTypeStep ==
  ASSUME NEW c, Good(c), NEW ty \in Type, NEW hasFn \in BOOLEAN, QueueClearType(ty, hasFn),
         UNCHANGED calls
  PROVE  Leads(c, c)
<1> DEFINE g == [op |-> "clear", type |-> ty, fn |-> hasFn,
                 ptr |-> HEAD, curr |-> next[HEAD], tmp |-> NULL, stale |-> FALSE]
<1>1. MayCall("clear") /\ Push(g) /\ UNCHANGED << next, rec, live, clock, calls >>
  BY DEF QueueClearType
<1>2. Links(next, c)
  BY DEF Good, Linked
<1>3. 0 \in 0 .. Len(c) /\ 1 \in 1 .. Len(c) + 1 /\ next[HEAD] = LinkAt(c, 1)
      /\ LinkAt(c, 1) \in Link /\ SlotAt(c, 0) = HEAD
  BY <1>2, PlacesOf
<1>4. g \in Frame /\ g.op = "clear" /\ ~g.stale /\ HeldNode(g) = NULL
  BY <1>3 DEF Frame, Slot, Link, HeldNode
<1>5. ClearAt(g, c, next, rec, calls, 0, 1)
  BY <1>3 DEF ClearAt
<1>6. stack # << >> => Calling(stack[Len(stack)], g, calls)
  BY <1>1, <1>4, CallingTop
<1> HIDE DEF g
<1>7. AtPlace(g, c, next, rec, calls)
  BY <1>3, <1>4, <1>5 DEF AtPlace
<1>8. CanPush(stack, g, c, next, rec, live, calls)
  BY <1>4, <1>6, <1>7 DEF CanPush
<1>9. Good(c)' /\ LostNodes(c, stack', live') = LostNodes(c, stack, live)
  BY <1>1, <1>4, <1>8, PushStep
<1> QED BY <1>9 DEF Leads

\* The walk of queue_clear_type steps over an event of another type.
LEMMA ClearSkipStep ==
  ASSUME NEW c, Good(c), ClearSkip, UNCHANGED calls
  PROVE  Leads(c, c)
<1> DEFINE g == [Top EXCEPT !.ptr = Top.curr, !.curr = next[Top.curr]]
<1>1. stack # << >> /\ Top.op = "clear" /\ Top.curr # NULL /\ Top.tmp = NULL /\ SetTop(g)
      /\ UNCHANGED << next, rec, live, clock, calls >>
  BY DEF ClearSkip, Running
<1>2. Top \in Frame /\ AtPlace(Top, c, next, rec, calls) /\ Links(next, c)
  BY <1>1, TopOf DEF Good, Linked
<1>3. PICK a \in 0 .. Len(c), e \in 1 .. Len(c) + 1 : ClearAt(Top, c, next, rec, calls, a, e)
  BY <1>1, <1>2 DEF AtPlace
<1>4. e \in 1 .. Len(c) /\ Top.curr = c[e] /\ c[e] \in Slot
  BY <1>1, <1>2, <1>3, PlacesOf DEF ClearAt, LinkAt, Slot
<1>5. e \in 0 .. Len(c) /\ SlotAt(c, e) = c[e] /\ e + 1 \in 1 .. Len(c) + 1 /\ e < e + 1
  BY <1>4 DEF SlotAt
<1>6. next[Top.curr] = LinkAt(c, e + 1) /\ next[Top.curr] \in Link
  BY <1>2, <1>4, <1>5, PlacesOf
<1>7. /\ g \in Frame /\ g.op = "clear" /\ ~g.stale
      /\ g.ptr = c[e] /\ g.curr = LinkAt(c, e + 1) /\ g.tmp = NULL
  <2>1. ClearTo(Top, c[e], LinkAt(c, e + 1), NULL, g) /\ NULL \in Link /\ ~Top.stale
    BY <1>1, <1>2, <1>4, <1>6 DEF ClearTo, Link, AtPlace
  <2> HIDE DEF g
  <2> QED BY <1>1, <1>2, <1>4, <1>6, <2>1, ClearFrame
<1> HIDE DEF g
<1>8. AtPlace(g, c, next, rec, calls)
  <2>1. ClearAt(g, c, next, rec, calls, e, e + 1)
    BY <1>5, <1>7 DEF ClearAt
  <2> QED BY <1>5, <1>7, <2>1 DEF AtPlace
<1>9. HeldNode(g) = HeldNode(Top)
  BY <1>1, <1>7 DEF HeldNode
<1>10. Good(c)' /\ LostNodes(c, stack', live') = LostNodes(c, stack, live)
  BY <1>1, <1>7, <1>8, <1>9, SetStep
<1> QED BY <1>10 DEF Leads

-----------------------------------------------------------------------------
(* The steps that change the list.                                         *)

\* A call below the innermost one is no queue_clear_type, unless that one adds
\* or removes.
LEMMA CallerIs ==
  ASSUME NEW c, Good(c), stack # << >>, NEW b, b = Below(stack), b # << >>, b[Len(b)].op = "clear"
  PROVE  Top.op \in {"add", "remove"} \cap calls
<1>1. CanPush(b, Top, c, next, rec, live, calls)
  BY TopOf
<1> QED BY <1>1 DEF CanPush, Calling

\* The call below the innermost one, which has called it.
LEMMA CallerOf ==
  ASSUME NEW c, Good(c), stack # << >>, NEW b, b = Below(stack), b # << >>
  PROVE  /\ b[Len(b)] \in Frame /\ AtPlace(b[Len(b)], c, next, rec, calls)
         /\ HeldNode(b[Len(b)]) # NULL =>
              /\ HeldNode(b[Len(b)]) \in live /\ HeldNode(b[Len(b)]) \notin ToSet(c)
              /\ HeldNode(b[Len(b)]) # HeldNode(Top)
<1>1. CallsOK(b, c, next, rec, live, calls) /\ CanPush(b, Top, c, next, rec, live, calls)
      /\ b \in Seq(Frame)
  BY TopOf
<1>2. Len(b) \in 1 .. Len(b)
  BY <1>1, EmptySeq
<1>3. b[Len(b)] \in Frame
  BY <1>1, <1>2, ElementOfSeq
<1> QED BY <1>1, <1>2, <1>3 DEF CallsOK, Owned, CanPush

\* Nothing changes at the head of the list and in its nodes S.
SameList(S, nx, r, mx, q, lw) ==
  mx[HEAD] = nx[HEAD] /\ \A n \in S : mx[n] = nx[n] /\ q[n] = r[n] /\ n \in lw

\* The list stays when its nodes keep their pointers and records.
LEMMA LinkedSame ==
  ASSUME NEW nx, NEW r, NEW lv, NEW c, Linked(c, nx, r, lv), NEW mx, NEW q, NEW lw,
         SameList(ToSet(c), nx, r, mx, q, lw)
  PROVE  Linked(c, mx, q, lw)
<1>1. Links(nx, c)
  BY DEF Linked
<1>2. \A a \in 0 .. Len(c) : mx[SlotAt(c, a)] = nx[SlotAt(c, a)]
  BY <1>1, PlacesOf DEF SameList
<1>3. \A i \in 1 .. Len(c) : q[c[i]] = r[c[i]]
  BY <1>1, PlacesOf DEF SameList
<1>4. ToSet(c) \subseteq lw
  BY DEF SameList
<1> QED BY <1>1, <1>2, <1>3, <1>4 DEF Linked, Links

\* The node of a call whose handler or callback has returned is freed.
LEMMA FreeStep ==
  ASSUME NEW c, Good(c), stack # << >>, Top.op \in {"process", "clear"}, NEW n, n = HeldNode(Top),
         n # NULL, next' = [next EXCEPT ![n] = NULL], FreeNode(n), UNCHANGED << clock, calls >>,
         NEW g \in Frame, SetTopFree(g, n), g.op = Top.op, HeldNode(g) = NULL,
         AtPlace(g, c, next', rec', calls')
  PROVE  Leads(c, c)
<1> DEFINE b == Below(stack)
<1>1. /\ CallsOK(b, c, next, rec, live, calls) /\ CanPush(b, Top, c, next, rec, live, calls)
      /\ n \in live /\ n \notin ToSet(c) /\ HeldSet(stack) = HeldSet(b) \cup {n}
  BY TopOf
<1>2. Typed(next, rec, live) /\ Linked(c, next, rec, live) /\ ToSet(c) \subseteq live
  BY DEF Good, Linked
<1>3. n \in Node /\ n # HEAD /\ NULL \in Link
  BY <1>1, <1>2, PointerAssumption DEF Typed, Link
<1>4. /\ \A m \in Slot : m # n => next'[m] = next[m]
      /\ \A m \in Node : m # n => rec'[m] = rec[m]
      /\ live' = live \ {n}
  BY <1>2 DEF Typed, FreeNode
<1>5. Typed(next', rec', live')
  BY <1>2, <1>3, <1>4 DEF Typed, FreeNode
<1>6. Linked(c, next', rec', live')
  <2>1. HEAD \in Slot /\ next'[HEAD] = next[HEAD]
    BY <1>3, <1>4 DEF Slot
  <2>2. \A m \in ToSet(c) : next'[m] = next[m] /\ rec'[m] = rec[m] /\ m \in live'
    BY <1>1, <1>2, <1>4 DEF Typed, Slot
  <2>3. SameList(ToSet(c), next, rec, next', rec', live')
    BY <2>1, <2>2 DEF SameList
  <2> QED BY <1>2, <2>3, LinkedSame
<1>7. CallsOK(b, c, next', rec', live', calls)
  <2>1. \A m \in live \ ToSet(c) : m # HeldNode(Top) => m \in live' \ ToSet(c)
    BY <1>4
  <2>2. ~(b # << >> /\ b[Len(b)].op = "clear")
    BY CallerIs
  <2> HIDE DEF b
  <2> QED BY <1>1, <2>1, <2>2, BelowMove
<1>8. CanPush(b, g, c, next', rec', live', calls')
  <2>1. b # << >> => Calling(b[Len(b)], g, calls)
    BY <1>1 DEF CanPush, Calling
  <2> HIDE DEF b
  <2> QED BY <2>1 DEF CanPush
<1>9. /\ CallsOK(stack', c, next', rec', live', calls')
      /\ HeldSet(stack') = HeldSet(b) \cup {NULL}
  <2>1. CallsOK(b, c, next', rec', live', calls')
    BY <1>7
  <2>2. stack' = Append(b, g)
    <3>1. stack' = Append(Marked(b, n), g)
      BY SetTopFreeIs
    <3> QED BY <3>1, MarkedSame
  <2> HIDE DEF b
  <2> QED BY <1>8, <2>1, <2>2, SetCalls
<1>10. Good(c)'
  BY <1>5, <1>6, <1>9 DEF Good
<1> QED BY <1>1, <1>4, <1>9, <1>10 DEF Leads, LostNodes

\* The handler of an event has returned.
LEMMA HandlerReturnStep ==
  ASSUME NEW c, Good(c), NEW rc \in 0 .. 1, HandlerReturn(rc), UNCHANGED calls
  PROVE  Leads(c, c)
<1> DEFINE n == Top.node
           g == [Top EXCEPT !.node = NULL, !.rc = rc]
<1>1. /\ stack # << >> /\ Top.op = "process" /\ n # NULL /\ n = HeldNode(Top)
      /\ next' = [next EXCEPT ![n] = NULL] /\ FreeNode(n) /\ SetTopFree(g, n) /\ UNCHANGED clock
  BY DEF HandlerReturn, InHandler, Running, HeldNode
<1>2. Top \in Frame /\ NULL \in Link /\ ProcessTo(Top, NULL, rc, g)
  BY <1>1, TopOf DEF ProcessTo, Link
<1> HIDE DEF g
<1>3. g \in Frame /\ g.op = "process" /\ g.node = NULL
  BY <1>1, <1>2, ProcessFrame
<1>4. HeldNode(g) = NULL /\ AtPlace(g, c, next', rec', calls')
  BY <1>3 DEF HeldNode, AtPlace
<1> HIDE DEF n
<1> QED BY <1>1, <1>3, <1>4, FreeStep

\* The callback has returned 1.
LEMMA ClearFreeStep ==
  ASSUME NEW c, Good(c), ClearFree, UNCHANGED calls
  PROVE  Leads(c, c)
<1> DEFINE n == Top.tmp
           g == [Top EXCEPT !.tmp = NULL]
<1>1. /\ stack # << >> /\ Top.op = "clear" /\ ~Top.stale /\ n # NULL /\ n = HeldNode(Top)
      /\ next' = [next EXCEPT ![n] = NULL] /\ FreeNode(n) /\ SetTopFree(g, n) /\ UNCHANGED clock
  BY DEF ClearFree, Resumes, InCallback, Running, HeldNode
<1>2. Top \in Frame /\ AtPlace(Top, c, next, rec, calls)
  BY <1>1, TopOf
<1>3. NULL \in Link /\ ClearTo(Top, Top.ptr, Top.curr, NULL, g) /\ Top.ptr \in Slot /\ Top.curr \in Link
  BY <1>1, <1>2, FrameFields DEF ClearTo, Link
<1> HIDE DEF g
<1>4. /\ g \in Frame /\ g.op = "clear" /\ ~g.stale
      /\ g.ptr = Top.ptr /\ g.curr = Top.curr /\ g.tmp = NULL
  BY <1>1, <1>2, <1>3, ClearFrame
<1>5. AtPlace(g, c, next', rec', calls')
  <2>1. PICK a \in 0 .. Len(c), e \in 1 .. Len(c) + 1 : ClearAt(Top, c, next, rec, calls, a, e)
    BY <1>1, <1>2 DEF AtPlace
  <2>2. ClearAt(g, c, next', rec', calls', a, e)
    BY <1>4, <2>1 DEF ClearAt
  <2> QED BY <1>4, <2>2 DEF AtPlace
<1>6. HeldNode(g) = NULL
  BY <1>4 DEF HeldNode
<1> HIDE DEF n
<1> QED BY <1>1, <1>4, <1>5, <1>6, FreeStep

\* queue_add links its node behind the last event that is not later.
LEMMA AddLinkStep ==
  ASSUME NEW c, Good(c), AddLink, UNCHANGED calls
  PROVE  \E a \in 0 .. Len(c), d \in Seq(Node) :
           /\ d = InsertAt(c, a + 1, Top.node) /\ Leads(c, d)
           /\ a > 0 => rec[c[a]].time <= rec[Top.node].time
           /\ a + 1 <= Len(c) => rec[Top.node].time < rec[c[a + 1]].time
<1> DEFINE b == Below(stack)
<1>0. PICK n : n = Top.node
  OBVIOUS
<1>1. /\ stack # << >> /\ Top.op = "add" /\ ~AddGoesOn(Top) /\ stack' = b
      /\ next' = [next EXCEPT ![n] = next[Top.ptr], ![Top.ptr] = n]
      /\ UNCHANGED << rec, live, clock, calls >>
  BY <1>0 DEF AddLink, Running, Pop, Below
<1>2. Top \in Frame /\ AtPlace(Top, c, next, rec, calls) /\ b \in Seq(Frame)
      /\ CallsOK(b, c, next, rec, live, calls) /\ CanPush(b, Top, c, next, rec, live, calls)
      /\ (HeldNode(Top) # NULL => HeldNode(Top) \in live /\ HeldNode(Top) \notin ToSet(c))
      /\ HeldSet(stack) = HeldSet(b) \cup {HeldNode(Top)}
  BY <1>1, TopOf
<1>3. Typed(next, rec, live) /\ Linked(c, next, rec, live) /\ Links(next, c)
  BY DEF Good, Linked
<1>4. HeldNode(Top) = n /\ n \in Node /\ n # HEAD /\ n \in live /\ n \notin ToSet(c)
  BY <1>0, <1>1, <1>2, FrameFields, PointerAssumption DEF HeldNode
<1>5. PICK a \in 0 .. Len(c) :
        Top.ptr = SlotAt(c, a) /\ (a > 0 => rec[c[a]].time <= rec[n].time)
  BY <1>0, <1>1, <1>2 DEF AtPlace
<1>a. PICK d : d = InsertAt(c, a + 1, n)
  OBVIOUS
<1>6. c \in Seq(Node) /\ Len(c) \in Nat /\ next[Top.ptr] = LinkAt(c, a + 1) /\ Top.ptr \in Slot
      /\ Top.ptr # n /\ LinkAt(c, a + 1) \in Link
  BY <1>3, <1>4, <1>5, PlacesOf
<1>7. a + 1 <= Len(c) => rec[n].time < rec[c[a + 1]].time
  <2>1. ASSUME a + 1 <= Len(c) PROVE rec[n].time < rec[c[a + 1]].time
    <3>1. next[Top.ptr] = c[a + 1] /\ c[a + 1] # NULL /\ c[a + 1] \in ToSet(c)
      BY <1>3, <1>6, <2>1, PlacesOf DEF LinkAt
    <3>2. rec[n] \in Rec /\ rec[c[a + 1]] \in Rec
      BY <1>3, <1>4, <3>1 DEF Typed, Linked
    <3>3. rec[n].time \in Int /\ rec[c[a + 1]].time \in Int
      BY <3>2, PointerAssumption DEF Rec, Time
    <3> QED BY <1>0, <1>1, <3>1, <3>3 DEF AddGoesOn
  <2> QED BY <2>1
<1>8. /\ next'[Top.ptr] = n /\ next'[n] = LinkAt(c, a + 1)
      /\ \A m \in Slot : m # Top.ptr /\ m # n => next'[m] = next[m]
  BY <1>1, <1>3, <1>4, <1>6 DEF Typed, Slot
<1>9. Typed(next', rec', live')
  BY <1>1, <1>3, <1>4, <1>6 DEF Typed, Slot, Link
<1>10. Linked(d, next', rec', live')
  <2>1. \A k \in 0 .. Len(c) : k # a => next'[SlotAt(c, k)] = next[SlotAt(c, k)]
    <3>1. ASSUME NEW k \in 0 .. Len(c), k # a PROVE next'[SlotAt(c, k)] = next[SlotAt(c, k)]
      <4>1. SlotAt(c, k) # Top.ptr
        BY <1>3, <1>5, <3>1, SlotsDiffer
      <4>2. SlotAt(c, k) # n /\ SlotAt(c, k) \in Slot
        BY <1>3, <1>4, PlacesOf
      <4> QED BY <1>8, <4>1, <4>2
    <3> QED BY <3>1
  <2>2. a + 1 <= Len(c) => rec[n].time <= rec[c[a + 1]].time
    <3>1. ASSUME a + 1 <= Len(c) PROVE rec[n].time <= rec[c[a + 1]].time
      <4>1. c[a + 1] \in ToSet(c)
        BY <1>3, <1>6, <3>1, PlacesOf
      <4>2. rec[n].time \in Int /\ rec[c[a + 1]].time \in Int
        BY <1>3, <1>4, <4>1, PointerAssumption DEF Typed, Linked, Rec, Time
      <4> QED BY <1>7, <3>1, <4>2
    <3> QED BY <3>1
  <2>3. Linked(d, next', rec, live)
    BY <1>a, <1>3, <1>4, <1>5, <1>8, <2>1, <2>2, LinkedInsert
  <2> QED BY <1>1, <2>3
<1>11. ToSet(d) = ToSet(c) \cup {n} /\ d \in Seq(Node)
  <2>1. a + 1 \in 1 .. Len(c) + 1
    BY <1>6
  <2>2. Inserted(d, Node, c, a + 1, n)
    BY <1>a, <1>4, <1>6, <2>1, InsertIs
  <2> QED BY <2>2 DEF Inserted
<1>12. CallsOK(b, d, next', rec', live', calls)
  <2>1. \A m \in live \ ToSet(c) : m # HeldNode(Top) => m \in live' \ ToSet(d)
    BY <1>1, <1>4, <1>11
  <2>2. ASSUME b # << >>, b[Len(b)].op = "clear" PROVE AtPlace(b[Len(b)], d, next', rec', calls)
    <3> DEFINE f == b[Len(b)]
    <3>1. f \in Frame /\ AtPlace(f, c, next, rec, calls)
          /\ (HeldNode(f) # NULL => HeldNode(f) \in live /\ HeldNode(f) \notin ToSet(c)
                                    /\ HeldNode(f) # HeldNode(Top))
      BY <1>1, <2>2, CallerOf
    <3>2. Top.op \in {"add", "remove"} \cap calls
      BY <1>1, <2>2, CallerIs
    <3>3. "add" \in calls /\ f.op = "clear"
      BY <1>1, <2>2, <3>2
    <3>4. f.tmp # NULL => f.tmp \in Node /\ f.tmp # n /\ f.tmp \notin ToSet(c)
      BY <1>3, <1>4, <3>1, <3>3 DEF HeldNode, Typed
    <3>5. f.tmp # NULL => next'[f.tmp] = next[f.tmp]
      <4>1. f.tmp # NULL => f.tmp # Top.ptr /\ f.tmp \in Slot
        BY <1>3, <1>5, <3>4, PlacesOf, PointerAssumption DEF Slot
      <4> QED BY <1>8, <3>4, <4>1
    <3> HIDE DEF f
    <3>6. CASE ~f.stale
      <4>1. AtPlace(f, InsertAt(c, a + 1, n), next', rec, calls)
        BY <1>4, <1>6, <3>1, <3>3, <3>5, <3>6, ClearAtInsert
      <4> QED BY <1>a, <1>1, <4>1 DEF f
    <3>7. CASE f.stale
      <4>1. AtPlace(f, d, next', rec', calls)
        BY <3>1, <3>3, <3>7 DEF AtPlace
      <4> QED BY <4>1 DEF f
    <3> QED BY <3>6, <3>7
  <2> HIDE DEF b
  <2> QED BY <1>2, <2>1, <2>2, BelowMove
<1>13. Good(d)'
  <2>1. CallsOK(stack', d, next', rec', live', calls')
    BY <1>1, <1>12
  <2>2. clock' \in Time /\ calls' \subseteq {"add", "remove"}
    BY <1>1 DEF Good
  <2> HIDE DEF b
  <2> QED BY <1>9, <1>10, <2>1, <2>2 DEF Good
<1>14. Leads(c, d)
  BY <1>1, <1>2, <1>4, <1>11, <1>13 DEF Leads, LostNodes
<1> QED BY <1>0, <1>a, <1>5, <1>7, <1>11, <1>14

\* A step unlinks the nodes after place a up to place e, and may free the last.
Unlinks(c, a, e) ==
  /\ a \in 0 .. Len(c) /\ e \in a + 1 .. Len(c)
  /\ next'[SlotAt(c, a)] = LinkAt(c, e + 1) /\ next' \in [Slot -> Link]
  /\ \A m \in Slot : m # SlotAt(c, a) /\ m # c[e] => next'[m] = next[m]
  /\ FreeNode(c[e]) \/ UNCHANGED << live, rec >>

\* The place of the cut in the list without them.
LEMMA CutPlaces ==
  ASSUME NEW c \in Seq(Node), NEW a \in 0 .. Len(c), NEW e \in a .. Len(c),
         NEW d, d = Cut(c, a, e)
  PROVE  /\ d \in Seq(Node) /\ Len(d) = Len(c) - (e - a) /\ a \in 0 .. Len(d)
         /\ SlotAt(d, a) = SlotAt(c, a) /\ LinkAt(d, a + 1) = LinkAt(c, e + 1)
         /\ a > 0 => d[a] = c[a]
         /\ a + 1 <= Len(d) => e + 1 <= Len(c) /\ d[a + 1] = c[e + 1]
<1>1. Len(c) \in Nat /\ a \in Nat /\ e \in Nat
  BY NodesOf
<1>2. /\ d \in Seq(Node) /\ Len(d) = Len(c) - (e - a)
      /\ \A j \in 1 .. Len(c) - (e - a) : d[j] = IF j <= a THEN c[j] ELSE c[j + (e - a)]
  BY <1>1, CutIndex
<1>3. (a > 0 => d[a] = c[a]) /\ (a + 1 <= Len(d) => e + 1 <= Len(c) /\ d[a + 1] = c[e + 1])
  <2>1. a > 0 => a \in 1 .. Len(c) - (e - a) /\ a <= a
    BY <1>1
  <2>2. a + 1 <= Len(d) => a + 1 \in 1 .. Len(c) - (e - a) /\ ~(a + 1 <= a)
                           /\ a + 1 + (e - a) = e + 1 /\ e + 1 <= Len(c)
    BY <1>1, <1>2
  <2> QED BY <1>2, <2>1, <2>2
<1>4. SlotAt(d, a) = SlotAt(c, a) /\ LinkAt(d, a + 1) = LinkAt(c, e + 1) /\ a \in 0 .. Len(d)
  <2>1. a \in 0 .. Len(d) /\ (a # 0 => a > 0) /\ (a + 1 \in 1 .. Len(d) <=> a + 1 <= Len(d))
        /\ (e + 1 \in 1 .. Len(c) <=> e + 1 <= Len(c)) /\ (a + 1 <= Len(d) <=> e + 1 <= Len(c))
    BY <1>1, <1>2
  <2>2. SlotAt(d, a) = SlotAt(c, a)
    BY <1>3, <2>1 DEF SlotAt
  <2>3. LinkAt(d, a + 1) = LinkAt(c, e + 1)
    BY <1>3, <2>1 DEF LinkAt
  <2> QED BY <2>1, <2>2, <2>3
<1> QED BY <1>2, <1>3, <1>4

\* Without nodes to unlink the list is the same.
LEMMA CutNone ==
  ASSUME NEW c \in Seq(Node), NEW a \in 0 .. Len(c)
  PROVE  Cut(c, a, a) = c
<1>1. Len(c) \in Nat /\ a \in Nat
  BY NodesOf
<1> DEFINE d == Cut(c, a, a)
<1>2. /\ d \in Seq(Node) /\ Len(d) = Len(c) - (a - a)
      /\ \A j \in 1 .. Len(c) - (a - a) : d[j] = IF j <= a THEN c[j] ELSE c[j + (a - a)]
  BY <1>1, CutIndex
<1> HIDE DEF d
<1>3. Len(d) = Len(c) /\ \A j \in 1 .. Len(c) : d[j] = c[j]
  BY <1>1, <1>2
<1>4. d = c
  BY <1>2, <1>3, SeqEqual
<1> QED BY <1>4 DEF d

\* What is left when the last of the nodes is e.
LEMMA CutIs ==
  ASSUME NEW nx, NEW c, Links(nx, c), NEW a \in 0 .. Len(c), NEW e \in a + 1 .. Len(c)
  PROVE  /\ Stay(c, a, e) \subseteq ToSet(c) \ {c[e]}
         /\ e = a + 1 => ToSet(c) \subseteq Stay(c, a, e) \cup {c[e]}
<1>1. c \in Seq(Node) /\ Len(c) \in Nat /\ a \in Nat /\ e \in Nat
  BY PlacesOf
<1>2. ASSUME NEW k \in (1 .. a) \cup (e + 1 .. Len(c)) PROVE c[k] \in ToSet(c) \ {c[e]}
  <2>1. k \in 1 .. Len(c) /\ k # e /\ e \in 1 .. Len(c)
    BY <1>1
  <2>2. c[k] # c[e]
    BY <2>1, Zenon DEF Links
  <2> QED BY <2>1, <2>2, PlacesOf
<1>3. Stay(c, a, e) \subseteq ToSet(c) \ {c[e]}
  BY <1>2 DEF Stay
<1>4. e = a + 1 => ToSet(c) \subseteq Stay(c, a, e) \cup {c[e]}
  <2>1. ASSUME e = a + 1, NEW k \in 1 .. Len(c) PROVE c[k] \in Stay(c, a, e) \cup {c[e]}
    <3>1. k = e \/ k \in (1 .. a) \cup (e + 1 .. Len(c))
      BY <1>1, <2>1
    <3> QED BY <3>1 DEF Stay
  <2>2. ToSet(c) = {c[k] : k \in 1 .. Len(c)}
    BY <1>1, NodesOf
  <2> QED BY <2>1, <2>2
<1> QED BY <1>3, <1>4

\* The list after such a step.
LEMMA UnlinkList ==
  ASSUME NEW c, Good(c), NEW a, NEW e, Unlinks(c, a, e), NEW d, d = Cut(c, a, e)
  PROVE  /\ Typed(next', rec', live') /\ Linked(d, next', rec', live') /\ d \in Seq(Node)
         /\ ToSet(d) \subseteq ToSet(c) \ {c[e]}
         /\ e = a + 1 => ToSet(c) \subseteq ToSet(d) \cup {c[e]}
         /\ c[e] \in live /\ c[e] \in ToSet(c) /\ c[e] \in Node /\ c[e] # NULL /\ c[e] # SlotAt(c, a)
<1>1. a \in 0 .. Len(c) /\ e \in a + 1 .. Len(c) /\ Typed(next, rec, live)
      /\ Linked(c, next, rec, live) /\ Links(next, c) /\ ToSet(c) \subseteq live
  BY DEF Unlinks, Good, Linked
<1>2. Len(c) \in Nat /\ e \in 1 .. Len(c) /\ e \in 0 .. Len(c) /\ e # a /\ e \in a .. Len(c)
      /\ SlotAt(c, e) = c[e]
  BY <1>1, PlacesOf DEF SlotAt
<1>3. c[e] \in ToSet(c) /\ c[e] \in Node /\ c[e] # NULL /\ c[e] \in live
  BY <1>1, <1>2, PlacesOf
<1>4. c[e] # SlotAt(c, a)
  BY <1>1, <1>2, SlotsDiffer
<1>5. \A m : m # c[e] => (m \in live => m \in live') /\ (m \in Node => rec'[m] = rec[m])
  BY <1>1 DEF Unlinks, FreeNode, Typed
<1>6. Typed(next', rec', live')
  <2>1. DOMAIN rec' = Node /\ live' \subseteq live
    BY <1>1 DEF Unlinks, FreeNode, Typed
  <2>2. \A m \in live' : rec'[m] = rec[m]
    BY <1>1 DEF Unlinks, FreeNode, Typed
  <2> QED BY <1>1, <2>1, <2>2 DEF Unlinks, Typed
<1>7. \A k \in (0 .. a - 1) \cup (e + 1 .. Len(c)) : next'[SlotAt(c, k)] = next[SlotAt(c, k)]
  <2>1. ASSUME NEW k \in (0 .. a - 1) \cup (e + 1 .. Len(c))
        PROVE  next'[SlotAt(c, k)] = next[SlotAt(c, k)]
    <3>1. k \in 0 .. Len(c) /\ k # a /\ k # e
      BY <1>1, <1>2
    <3>2. SlotAt(c, k) # SlotAt(c, a)
      BY <1>1, <3>1, SlotsDiffer
    <3>3. SlotAt(c, k) # SlotAt(c, e)
      BY <1>1, <1>2, <3>1, SlotsDiffer
    <3>4. SlotAt(c, k) \in Slot
      BY <1>1, <3>1, PlacesOf
    <3> QED BY <1>2, <3>2, <3>3, <3>4 DEF Unlinks
  <2> QED BY <2>1
<1>8. /\ d \in Seq(Node) /\ Stay(c, a, e) \subseteq ToSet(c) \ {c[e]}
      /\ e = a + 1 => ToSet(c) \subseteq Stay(c, a, e) \cup {c[e]}
  <2>1. c \in Seq(Node) /\ a \in 0 .. Len(c) /\ e \in a .. Len(c)
    BY <1>1, <1>2, PlacesOf
  <2>2. d \in Seq(Node)
    BY <2>1, CutPlaces
  <2> QED BY <1>1, <2>2, CutIs
<1>9. \A n \in Stay(c, a, e) : rec'[n] = rec[n] /\ n \in live'
  BY <1>1, <1>5, <1>8 DEF Typed
<1>10. next'[SlotAt(c, a)] = LinkAt(c, e + 1)
  BY DEF Unlinks
<1>11. Linked(d, next', rec', live') /\ ToSet(d) = Stay(c, a, e)
  <2>1. Linked(Cut(c, a, e), next', rec', live') /\ ToSet(Cut(c, a, e)) = Stay(c, a, e)
    BY <1>1, <1>2, <1>7, <1>9, <1>10, LinkedCut
  <2> QED BY <2>1
<1> QED BY <1>3, <1>4, <1>6, <1>8, <1>11

\* The calls below the one that makes such a step.
LEMMA UnlinkCalls ==
  ASSUME NEW c, Good(c), stack # << >>, NEW a, NEW e, Unlinks(c, a, e), NEW d, d = Cut(c, a, e),
         NEW b, b = Below(stack), NEW m, m = Marked(b, c[e]), Top.op # "add", UNCHANGED calls,
         Top.op = "remove" => e = a + 1
  PROVE  CallsOK(m, d, next', rec', live', calls')
<1>1. /\ b \in Seq(Frame) /\ CallsOK(b, c, next, rec, live, calls)
      /\ CanPush(b, Top, c, next, rec, live, calls)
  BY TopOf
<1>2. /\ ToSet(d) \subseteq ToSet(c) \ {c[e]} /\ Typed(next, rec, live) /\ c[e] \in ToSet(c)
      /\ c[e] # SlotAt(c, a)
  BY UnlinkList DEF Good
<1>3. \A n \in live \ ToSet(c) : n # HeldNode(Top) => n \in live' \ ToSet(d)
  BY <1>2 DEF Unlinks, FreeNode
<1>4. CallsOK(m, c, next, rec, live, calls) /\ CanPush(m, Top, c, next, rec, live, calls)
  BY <1>1, MarkedOK
<1>5. ASSUME m # << >>, m[Len(m)].op = "clear" PROVE AtPlace(m[Len(m)], d, next', rec', calls)
  <2> DEFINE f == m[Len(m)]
  <2>1. Len(m) = Len(b) /\ Len(b) \in Nat /\ m \in Seq(Frame) /\ b # << >>
    BY <1>1, <1>5, MarkedIs, EmptySeq
  <2>2. Len(m) \in 1 .. Len(m) /\ Len(m) \in 1 .. Len(b)
    BY <1>5, <2>1, EmptySeq
  <2>3. b[Len(b)].op = "clear" /\ (~f.stale => f = b[Len(b)] /\ c[e] \notin Holds(f))
    BY <1>1, <1>5, <2>1, <2>2, MarkedIs
  <2>4. Top.op = "remove"
    BY <2>1, <2>3, CallerIs
  <2>5. f.op = "clear" /\ f.tmp # NULL /\ AtPlace(f, c, next, rec, calls)
        /\ HeldNode(f) \in live /\ HeldNode(f) \notin ToSet(c)
    <3>1. f.tmp # NULL
      BY <1>4, <1>5 DEF CanPush, Calling
    <3> QED BY <1>4, <1>5, <2>2, <3>1 DEF CallsOK, Owned, HeldNode
  <2> HIDE DEF f
  <2>6. CASE f.stale
    <3>1. AtPlace(f, d, next', rec', calls)
      BY <2>5, <2>6 DEF AtPlace
    <3> QED BY <3>1 DEF f
  <2>7. CASE ~f.stale
    <3>1. c[e] \notin Holds(f) /\ e = a + 1
      BY <2>3, <2>4, <2>7
    <3>2. f.tmp \in Node /\ f.tmp \notin ToSet(c)
      BY <1>2, <2>5 DEF HeldNode, Typed
    <3>3. Links(next, c) /\ a \in 0 .. Len(c) /\ e \in 1 .. Len(c) /\ c \in Seq(Node) /\ a \in Nat
      BY PlacesOf DEF Good, Linked, Unlinks
    <3>4. next'[f.tmp] = next[f.tmp] /\ f.tmp # c[e]
      <4>1. f.tmp # SlotAt(c, a) /\ f.tmp \in Slot /\ f.tmp # c[e]
        BY <1>2, <3>2, <3>3, PlacesOf, PointerAssumption DEF Slot
      <4> QED BY <4>1 DEF Unlinks
    <3>5. ASSUME NEW n \in Node, n # c[e] PROVE rec'[n] = rec[n]
      BY <1>2, <3>5 DEF Unlinks, FreeNode, Typed
    <3>6. AtPlace(f, Cut(c, e - 1, e), next', rec', calls)
      BY <2>5, <2>7, <3>1, <3>2, <3>3, <3>4, <3>5, ClearAtCut
    <3>7. e - 1 = a
      BY <3>1, <3>3
    <3> QED BY <3>6, <3>7 DEF f
  <2> QED BY <2>6, <2>7
<1>6. CallsOK(m, d, next', rec', live', calls)
  BY <1>3, <1>4, <1>5, BelowMove
<1> QED BY <1>6

\* The step unlinks nodes of c, and d is the list then. Only a queue_clear_type
\* whose callback has queued events may unlink more than one.
UnlinkStep(c, a, e, d) ==
  /\ Unlinks(c, a, e) /\ d = Cut(c, a, e) /\ Good(d)'
  /\ "add" \notin calls => e = a + 1
  /\ e = a + 1 => Leads(c, d)
  /\ e = a + 1 \/ (Running("clear") /\ next[Top.ptr] # Top.curr)

\* The call that makes such a step goes on as g: it has freed the last of the
\* nodes, or holds it.
LEMMA UnlinkEnd ==
  ASSUME NEW c, Good(c), stack # << >>, NEW a, NEW e, Unlinks(c, a, e), NEW d, d = Cut(c, a, e),
         Top.op # "add", UNCHANGED << clock, calls >>, HeldNode(Top) = NULL,
         NEW g \in Frame, stack' = Append(Marked(Below(stack), c[e]), g), g.op = Top.op,
         AtPlace(g, d, next', rec', calls'), Top.op = "remove" => e = a + 1,
         \/ HeldNode(g) = c[e] /\ UNCHANGED << live, rec >>
         \/ HeldNode(g) = NULL /\ FreeNode(c[e])
  PROVE  Good(d)' /\ (e = a + 1 => Leads(c, d))
<1> DEFINE b == Marked(Below(stack), c[e])
<1>1. /\ CallsOK(b, c, next, rec, live, calls) /\ CanPush(b, Top, c, next, rec, live, calls)
      /\ HeldSet(stack) = HeldSet(b) \cup {NULL} /\ b \in Seq(Frame)
  <2>1. /\ CallsOK(Below(stack), c, next, rec, live, calls)
        /\ CanPush(Below(stack), Top, c, next, rec, live, calls)
        /\ HeldSet(stack) = HeldSet(Below(stack)) \cup {NULL} /\ Below(stack) \in Seq(Frame)
    BY TopOf
  <2> QED BY <2>1, MarkedOK, MarkedIs
<1>2. /\ Typed(next', rec', live') /\ Linked(d, next', rec', live')
      /\ ToSet(d) \subseteq ToSet(c) \ {c[e]} /\ (e = a + 1 => ToSet(c) \subseteq ToSet(d) \cup {c[e]})
      /\ c[e] \in live /\ c[e] \in ToSet(c) /\ c[e] # NULL
  BY UnlinkList
<1>3. CallsOK(b, d, next', rec', live', calls')
  <2> HIDE DEF b
  <2> QED BY UnlinkCalls DEF b
<1>4. CanPush(b, g, d, next', rec', live', calls')
  <2>1. b # << >> => Calling(b[Len(b)], g, calls')
    BY <1>1 DEF CanPush, Calling
  <2>2. HeldNode(g) # NULL => /\ HeldNode(g) \in live' \ ToSet(d)
                              /\ \A i \in 1 .. Len(b) : HeldNode(b[i]) # HeldNode(g)
    <3>1. HeldNode(g) # NULL => HeldNode(g) = c[e] /\ live' = live
      OBVIOUS
    <3>2. \A i \in 1 .. Len(b) : HeldNode(b[i]) # c[e]
      BY <1>1, <1>2 DEF CallsOK, Owned
    <3> HIDE DEF b
    <3> QED BY <1>2, <3>1, <3>2
  <2> HIDE DEF b
  <2> QED BY <2>1, <2>2 DEF CanPush
<1>5. /\ CallsOK(stack', d, next', rec', live', calls')
      /\ HeldSet(stack') = HeldSet(b) \cup {HeldNode(g)}
  BY <1>3, <1>4, SetCalls
<1>6. Good(d)'
  BY <1>2, <1>5 DEF Good
<1>7. e = a + 1 => LostNodes(d, stack', live') \subseteq LostNodes(c, stack, live)
  <2>1. NULL \notin live /\ live' \subseteq live
    BY PointerAssumption DEF Good, Typed, FreeNode
  <2>2. HeldNode(g) = c[e] \/ c[e] \notin live'
    BY DEF FreeNode
  <2> HIDE DEF b
  <2> QED BY <1>1, <1>2, <1>5, <2>1, <2>2 DEF LostNodes
<1> QED BY <1>6, <1>7 DEF Leads

\* The innermost call frees the last of the nodes it unlinks, or holds it.
Deletes(c) ==
  \E a, e, d : \E g \in Frame :
    /\ UnlinkStep(c, a, e, d) /\ FreeNode(c[e])
    /\ stack' = Append(Marked(Below(stack), c[e]), g) /\ HeldNode(Top) = NULL /\ HeldNode(g) = NULL

Takes(c) ==
  \E a, e, d : \E g \in Frame :
    /\ UnlinkStep(c, a, e, d) /\ UNCHANGED << live, rec >>
    /\ SetTop(g) /\ HeldNode(Top) = NULL /\ HeldNode(g) = c[e]
    /\ g.op = Top.op /\ Top.op \in {"process", "clear"}

\* queue_remove unlinks and frees an event.
LEMMA RemoveMatchStep ==
  ASSUME NEW c, Good(c), RemoveMatch, UNCHANGED calls
  PROVE  Deletes(c)
<1> DEFINE g == [Top EXCEPT !.curr = next[Top.curr]]
<1>1. /\ stack # << >> /\ Top.op = "remove" /\ Top.curr # NULL
      /\ next' = [next EXCEPT ![Top.ptr] = next[Top.curr], ![Top.curr] = NULL]
      /\ FreeNode(Top.curr) /\ SetTopFree(g, Top.curr) /\ UNCHANGED << clock, calls >>
  BY DEF RemoveMatch, Running
<1>2. Top \in Frame /\ AtPlace(Top, c, next, rec, calls) /\ Links(next, c)
      /\ next \in [Slot -> Link] /\ HeldNode(Top) = NULL
  BY <1>1, TopOf DEF Good, Linked, Typed, HeldNode
<1>3. PICK a \in 0 .. Len(c) : Top.ptr = SlotAt(c, a) /\ Top.curr = LinkAt(c, a + 1)
  BY <1>1, <1>2 DEF AtPlace
<1>4. PICK e : e = a + 1
  OBVIOUS
<1>5. /\ e \in 1 .. Len(c) /\ e \in a + 1 .. Len(c) /\ Top.curr = c[e] /\ c[e] \in Slot /\ c[e] \in Node
      /\ Top.ptr \in Slot /\ e \in 0 .. Len(c) /\ a # e /\ SlotAt(c, e) = c[e] /\ NULL \in Link
      /\ c \in Seq(Node) /\ e \in a .. Len(c)
  BY <1>1, <1>2, <1>3, <1>4, PlacesOf DEF Slot, Link, SlotAt
<1>6. next[Top.curr] = LinkAt(c, e + 1) /\ next[Top.curr] \in Link
  BY <1>2, <1>5, PlacesOf
<1>7. c[e] # SlotAt(c, a)
  BY <1>2, <1>5, SlotsDiffer
<1>8. Unlinks(c, a, e) /\ FreeNode(c[e])
  BY <1>1, <1>2, <1>3, <1>5, <1>6, <1>7 DEF Unlinks
<1>9. PICK d : d = Cut(c, a, e)
  OBVIOUS
<1>10. a \in 0 .. Len(d) /\ SlotAt(d, a) = SlotAt(c, a) /\ LinkAt(d, a + 1) = LinkAt(c, e + 1)
  BY <1>2, <1>5, <1>9, CutPlaces
<1>11. g \in Frame /\ g.op = "remove" /\ g.ptr = SlotAt(c, a) /\ g.curr = LinkAt(c, e + 1)
  <2>1. RemoveTo(Top, SlotAt(c, a), LinkAt(c, e + 1), g)
    BY <1>3, <1>6 DEF RemoveTo
  <2> HIDE DEF g
  <2>2. SlotAt(c, a) \in Slot /\ LinkAt(c, e + 1) \in Link
    BY <1>3, <1>5, <1>6
  <2> QED BY <1>1, <1>2, <2>1, <2>2, RemoveFrame
<1> HIDE DEF g
<1>12. AtPlace(g, d, next', rec', calls') /\ HeldNode(g) = NULL
  BY <1>10, <1>11 DEF AtPlace, HeldNode
<1>13. stack' = Append(Marked(Below(stack), c[e]), g)
  <2>1. SetTopFree(g, c[e])
    BY <1>1, <1>5 DEF g
  <2> QED BY <1>1, <1>11, <2>1, SetTopFreeIs
<1>14. Good(d)' /\ (e = a + 1 => Leads(c, d))
  BY <1>1, <1>2, <1>4, <1>5, <1>8, <1>9, <1>11, <1>12, <1>13, UnlinkEnd
<1>15. UnlinkStep(c, a, e, d)
  BY <1>4, <1>8, <1>9, <1>14 DEF UnlinkStep
<1> QED BY <1>2, <1>8, <1>11, <1>12, <1>13, <1>15 DEF Deletes

\* queue_process unlinks the head and runs its handler.
LEMMA ProcessPopStep ==
  ASSUME NEW c, Good(c), ProcessPop, UNCHANGED calls
  PROVE  Takes(c)
<1> DEFINE g == [Top EXCEPT !.node = next[HEAD]]
<1>1. /\ stack # << >> /\ Top.op = "process" /\ Top.node = NULL /\ next[HEAD] # NULL
      /\ next' = [next EXCEPT ![HEAD] = next[next[HEAD]]]
      /\ SetTop(g) /\ UNCHANGED << live, rec, clock, calls >>
  BY DEF ProcessPop, Running, ProcessGoesOn
<1>2. Top \in Frame /\ Links(next, c) /\ next \in [Slot -> Link] /\ HeldNode(Top) = NULL
  BY <1>1, TopOf DEF Good, Linked, Typed, HeldNode
<1>3. /\ 0 \in 0 .. Len(c) /\ 1 \in 1 .. Len(c) /\ 1 \in 0 + 1 .. Len(c) /\ 1 \in 0 .. Len(c)
      /\ SlotAt(c, 0) = HEAD /\ SlotAt(c, 1) = c[1] /\ next[HEAD] = c[1] /\ c[1] \in Node
      /\ HEAD \in Slot
  BY <1>1, <1>2, PlacesOf DEF Slot, SlotAt
<1>4. next[c[1]] = LinkAt(c, 1 + 1) /\ next[c[1]] \in Link
  BY <1>2, <1>3, PlacesOf
<1>5. Unlinks(c, 0, 1)
  BY <1>1, <1>2, <1>3, <1>4 DEF Unlinks
<1>6. PICK d : d = Cut(c, 0, 1)
  OBVIOUS
<1>7. g \in Frame /\ g.op = "process" /\ g.node = c[1]
  <2>1. ProcessTo(Top, c[1], 0, g) /\ c[1] \in Link /\ 0 \in 0 .. 1
    BY <1>3 DEF ProcessTo, Link
  <2> HIDE DEF g
  <2> QED BY <1>1, <1>2, <2>1, ProcessFrame
<1> HIDE DEF g
<1>8. AtPlace(g, d, next', rec', calls') /\ HeldNode(g) = c[1]
  BY <1>7 DEF AtPlace, HeldNode
<1>9. SetTop(g)
  BY <1>1 DEF g
<1>10. stack' = Append(Marked(Below(stack), c[1]), g)
  BY <1>1, <1>7, <1>9, SetTopAppend, MarkedSame
<1>11. Good(d)' /\ (1 = 0 + 1 => Leads(c, d))
  BY <1>1, <1>2, <1>5, <1>6, <1>7, <1>8, <1>10, UnlinkEnd
<1>12. UnlinkStep(c, 0, 1, d) /\ 1 = 0 + 1
  BY <1>5, <1>6, <1>11 DEF UnlinkStep
<1> QED BY <1>1, <1>2, <1>7, <1>8, <1>9, <1>12 DEF Takes

\* Where a queue_clear_type stands when the event it looks at matches.
LEMMA MatchPlace ==
  ASSUME NEW c, Good(c), AtMatch
  PROVE  /\ stack # << >> /\ Top.op = "clear" /\ ~Top.stale /\ Top \in Frame /\ HeldNode(Top) = NULL
         /\ Links(next, c) /\ next \in [Slot -> Link] /\ c \in Seq(Node)
         /\ \E a \in 0 .. Len(c), e \in 1 .. Len(c) :
              /\ e \in a + 1 .. Len(c) /\ e \in a .. Len(c) /\ Top.ptr = SlotAt(c, a) /\ Top.curr = c[e]
              /\ c[e] \in Node /\ Top.ptr \in Slot /\ c[e] # SlotAt(c, a)
              /\ next[c[e]] = LinkAt(c, e + 1) /\ next[c[e]] \in Link
              /\ "add" \notin calls => e = a + 1
              /\ e = a + 1 \/ next[Top.ptr] # Top.curr
<1>1. stack # << >> /\ Top.op = "clear" /\ Top.tmp = NULL /\ Top.curr # NULL
  BY DEF AtMatch, Running
<1>2. Top \in Frame /\ AtPlace(Top, c, next, rec, calls) /\ Links(next, c)
      /\ next \in [Slot -> Link] /\ HeldNode(Top) = NULL
  BY <1>1, TopOf DEF Good, Linked, Typed, HeldNode
<1>0. ~Top.stale
  BY <1>1, <1>2 DEF AtPlace
<1>3. PICK a \in 0 .. Len(c), e \in 1 .. Len(c) + 1 : ClearAt(Top, c, next, rec, calls, a, e)
  BY <1>0, <1>1, <1>2 DEF AtPlace
<1>4. /\ Top.ptr = SlotAt(c, a) /\ Top.curr = LinkAt(c, e) /\ a < e
      /\ "add" \notin calls => e = a + 1
  BY <1>3 DEF ClearAt
<1>5. e \in 1 .. Len(c) /\ Top.curr = c[e]
  BY <1>1, <1>4 DEF LinkAt
<1>6. /\ Len(c) \in Nat /\ e \in a + 1 .. Len(c) /\ e \in a .. Len(c) /\ e \in 0 .. Len(c) /\ a # e
      /\ c[e] \in Node /\ SlotAt(c, e) = c[e] /\ Top.ptr \in Slot
  BY <1>2, <1>4, <1>5, PlacesOf DEF SlotAt
<1>7. c[e] # SlotAt(c, a)
  BY <1>2, <1>6, SlotsDiffer
<1>8. next[c[e]] = LinkAt(c, e + 1) /\ next[c[e]] \in Link
  BY <1>2, <1>6, PlacesOf
<1>9. e = a + 1 \/ next[Top.ptr] # Top.curr
  <2>1. ASSUME next[Top.ptr] = Top.curr PROVE e = a + 1
    <3>1. a + 1 \in 1 .. Len(c) /\ c[a + 1] = c[e]
      BY <1>1, <1>2, <1>4, <1>5, <2>1, PlacesOf
    <3> QED BY <1>2, <1>5, <3>1, Zenon DEF Links
  <2> QED BY <2>1
<1>10. c \in Seq(Node)
  BY <1>2, PlacesOf
<1> QED BY <1>0, <1>1, <1>2, <1>4, <1>5, <1>6, <1>7, <1>8, <1>9, <1>10

\* queue_clear_type unlinks an event and runs the callback on it.
LEMMA ClearMatchStep ==
  ASSUME NEW c, Good(c), ClearMatch, UNCHANGED calls
  PROVE  Takes(c)
<1> DEFINE g == [Top EXCEPT !.curr = next[Top.curr], !.tmp = Top.curr]
<1>1. /\ AtMatch /\ next' = [next EXCEPT ![Top.ptr] = next[Top.curr]]
      /\ SetTop(g) /\ UNCHANGED << live, rec, clock, calls >>
  BY DEF ClearMatch
<1>2. /\ stack # << >> /\ Top.op = "clear" /\ ~Top.stale /\ Top \in Frame /\ HeldNode(Top) = NULL
      /\ Links(next, c) /\ next \in [Slot -> Link] /\ Running("clear") /\ c \in Seq(Node)
  BY <1>1, MatchPlace DEF Running
<1>3. PICK a \in 0 .. Len(c), e \in 1 .. Len(c) :
        /\ e \in a + 1 .. Len(c) /\ e \in a .. Len(c) /\ Top.ptr = SlotAt(c, a) /\ Top.curr = c[e]
        /\ c[e] \in Node /\ Top.ptr \in Slot /\ c[e] # SlotAt(c, a)
        /\ next[c[e]] = LinkAt(c, e + 1) /\ next[c[e]] \in Link
        /\ "add" \notin calls => e = a + 1
        /\ e = a + 1 \/ next[Top.ptr] # Top.curr
  BY <1>1, MatchPlace
<1>4. Unlinks(c, a, e)
  BY <1>1, <1>2, <1>3 DEF Unlinks
<1>5. PICK d : d = Cut(c, a, e)
  OBVIOUS
<1>6. /\ a \in 0 .. Len(d) /\ SlotAt(d, a) = SlotAt(c, a) /\ LinkAt(d, a + 1) = LinkAt(c, e + 1)
      /\ Len(d) \in Nat /\ Len(c) \in Nat
      /\ a > 0 => d[a] = c[a]
      /\ a + 1 <= Len(d) => e + 1 <= Len(c) /\ d[a + 1] = c[e + 1]
  <2>1. Len(c) \in Nat
    BY <1>2, PlacesOf
  <2>2. a \in 0 .. Len(d) /\ Len(d) \in Nat
    <3>1. a \in 0 .. Len(d) /\ d \in Seq(Node)
      BY <1>2, <1>3, <1>5, CutPlaces
    <3> QED BY <3>1
  <2>3. SlotAt(d, a) = SlotAt(c, a) /\ LinkAt(d, a + 1) = LinkAt(c, e + 1)
    BY <1>2, <1>3, <1>5, CutPlaces
  <2>4. a > 0 => d[a] = c[a]
    BY <1>2, <1>3, <1>5, CutPlaces
  <2>5. a + 1 <= Len(d) => e + 1 <= Len(c) /\ d[a + 1] = c[e + 1]
    BY <1>2, <1>3, <1>5, CutPlaces
  <2> QED BY <2>1, <2>2, <2>3, <2>4, <2>5
<1>7. /\ g \in Frame /\ g.op = "clear" /\ ~g.stale
      /\ g.ptr = SlotAt(c, a) /\ g.curr = LinkAt(c, e + 1) /\ g.tmp = c[e]
  <2>1. ClearTo(Top, SlotAt(c, a), LinkAt(c, e + 1), c[e], g)
    BY <1>3 DEF ClearTo
  <2> HIDE DEF g
  <2>2. SlotAt(c, a) \in Slot /\ LinkAt(c, e + 1) \in Link /\ c[e] \in Link
    BY <1>3 DEF Link
  <2> QED BY <1>2, <2>1, <2>2, ClearFrame
<1> HIDE DEF g
<1>8. ClearAt(g, d, next', rec', calls', a, a + 1)
  <2>1. \A i, j \in 1 .. Len(c) : i < j => rec[c[i]].time <= rec[c[j]].time
    BY DEF Good, Linked
  <2>2. next'[c[e]] = g.curr
    BY <1>1, <1>2, <1>3, <1>7 DEF Slot
  <2>3. a > 0 => rec[d[a]].time <= rec[c[e]].time
    <3>1. a > 0 => a \in 1 .. Len(c) /\ a < e
      BY <1>3, <1>6
    <3> QED BY <1>3, <1>6, <2>1, <3>1
  <2>4. a + 1 <= Len(d) => rec[c[e]].time <= rec[d[a + 1]].time
    <3>1. a + 1 <= Len(d) => e + 1 \in 1 .. Len(c) /\ e < e + 1
      BY <1>3, <1>6
    <3> QED BY <1>3, <1>6, <2>1, <3>1
  <2> QED BY <1>1, <1>6, <1>7, <2>2, <2>3, <2>4 DEF ClearAt
<1>9. AtPlace(g, d, next', rec', calls')
  <2>1. a + 1 \in 1 .. Len(d) + 1
    BY <1>6
  <2> QED BY <1>6, <1>7, <1>8, <2>1 DEF AtPlace
<1>10. HeldNode(g) = c[e] /\ SetTop(g)
  BY <1>1, <1>7 DEF HeldNode, g
<1>0. stack' = Append(Marked(Below(stack), c[e]), g)
  BY <1>2, <1>7, <1>10, SetTopAppend, MarkedSame
<1>11. Good(d)' /\ (e = a + 1 => Leads(c, d))
  BY <1>0, <1>1, <1>2, <1>4, <1>5, <1>7, <1>9, <1>10, UnlinkEnd
<1>12. UnlinkStep(c, a, e, d)
  BY <1>2, <1>3, <1>4, <1>5, <1>11 DEF UnlinkStep
<1> QED BY <1>1, <1>2, <1>7, <1>10, <1>12 DEF Takes

\* queue_clear_type without a callback unlinks an event and frees it.
LEMMA ClearMatchNoFnStep ==
  ASSUME NEW c, Good(c), ClearMatchNoFn, UNCHANGED calls
  PROVE  Deletes(c)
<1> DEFINE g == [Top EXCEPT !.curr = next[Top.curr]]
<1>1. /\ AtMatch /\ next' = [next EXCEPT ![Top.ptr] = next[Top.curr], ![Top.curr] = NULL]
      /\ FreeNode(Top.curr) /\ SetTopFree(g, Top.curr) /\ UNCHANGED << clock, calls >>
  BY DEF ClearMatchNoFn
<1>2. /\ stack # << >> /\ Top.op = "clear" /\ ~Top.stale /\ Top \in Frame /\ HeldNode(Top) = NULL /\ Top.tmp = NULL
      /\ Links(next, c) /\ next \in [Slot -> Link] /\ Running("clear") /\ c \in Seq(Node) /\ NULL \in Link
  BY <1>1, MatchPlace DEF Running, AtMatch, Link
<1>3. PICK a \in 0 .. Len(c), e \in 1 .. Len(c) :
        /\ e \in a + 1 .. Len(c) /\ e \in a .. Len(c) /\ Top.ptr = SlotAt(c, a) /\ Top.curr = c[e]
        /\ c[e] \in Node /\ Top.ptr \in Slot /\ c[e] # SlotAt(c, a)
        /\ next[c[e]] = LinkAt(c, e + 1) /\ next[c[e]] \in Link
        /\ "add" \notin calls => e = a + 1
        /\ e = a + 1 \/ next[Top.ptr] # Top.curr
  BY <1>1, MatchPlace
<1>4. Unlinks(c, a, e) /\ FreeNode(c[e])
  BY <1>1, <1>2, <1>3 DEF Unlinks
<1>5. PICK d : d = Cut(c, a, e)
  OBVIOUS
<1>6. a \in 0 .. Len(d) /\ SlotAt(d, a) = SlotAt(c, a) /\ LinkAt(d, a + 1) = LinkAt(c, e + 1)
      /\ Len(d) \in Nat /\ Len(c) \in Nat
  <2>1. Len(c) \in Nat
    BY <1>2, PlacesOf
  <2> QED BY <1>2, <1>3, <1>5, <2>1, CutPlaces
<1>7. /\ g \in Frame /\ g.op = "clear" /\ ~g.stale
      /\ g.ptr = SlotAt(c, a) /\ g.curr = LinkAt(c, e + 1) /\ g.tmp = NULL
  <2>1. ClearTo(Top, SlotAt(c, a), LinkAt(c, e + 1), NULL, g)
    BY <1>2, <1>3 DEF ClearTo
  <2> HIDE DEF g
  <2>2. SlotAt(c, a) \in Slot /\ LinkAt(c, e + 1) \in Link
    BY <1>3
  <2> QED BY <1>2, <2>1, <2>2, ClearFrame
<1> HIDE DEF g
<1>8. ClearAt(g, d, next', rec', calls', a, a + 1)
  BY <1>6, <1>7 DEF ClearAt
<1>9. AtPlace(g, d, next', rec', calls')
  <2>1. a + 1 \in 1 .. Len(d) + 1
    BY <1>6
  <2> QED BY <1>6, <1>7, <1>8, <2>1 DEF AtPlace
<1>10. HeldNode(g) = NULL /\ stack' = Append(Marked(Below(stack), c[e]), g)
  <2>1. SetTopFree(g, c[e])
    BY <1>1, <1>3 DEF g
  <2> QED BY <1>2, <1>7, <2>1, SetTopFreeIs DEF HeldNode
<1>11. Good(d)' /\ (e = a + 1 => Leads(c, d))
  BY <1>1, <1>2, <1>4, <1>5, <1>7, <1>9, <1>10, UnlinkEnd
<1>12. UnlinkStep(c, a, e, d)
  BY <1>2, <1>3, <1>4, <1>5, <1>11 DEF UnlinkStep
<1> QED BY <1>2, <1>4, <1>7, <1>10, <1>12 DEF Deletes

\* queue_clear_type links the event its callback chose to keep back in, in the
\* slot it has remembered; what the callback has queued there is lost.
LEMMA ClearKeepStep ==
  ASSUME NEW c, Good(c), ClearKeep, UNCHANGED calls
  PROVE  \E a \in 0 .. Len(c) : \E m \in a .. Len(c), d \in Seq(Node), g \in Frame :
           /\ Top.tmp # NULL /\ Top.op = "clear" /\ SetTop(g) /\ HeldNode(g) = NULL
           /\ d = InsertAt(Cut(c, a, m), a + 1, Top.tmp) /\ Good(d)'
           /\ "add" \notin calls => m = a
           /\ m = a \/ (Running("clear") /\ next[Top.ptr] # Top.curr)
           /\ m = a => /\ Leads(c, d)
                       /\ a > 0 => rec[c[a]].time <= rec[Top.tmp].time
                       /\ a + 1 <= Len(c) => rec[Top.tmp].time <= rec[c[a + 1]].time
<1> DEFINE b == Below(stack)
           g == [Top EXCEPT !.ptr = Top.tmp, !.tmp = NULL]
<1>1. /\ stack # << >> /\ Top.op = "clear" /\ ~Top.stale /\ Top.tmp # NULL /\ Running("clear")
      /\ next' = [next EXCEPT ![Top.ptr] = Top.tmp] /\ SetTop(g)
      /\ UNCHANGED << rec, live, clock, calls >>
  BY DEF ClearKeep, Resumes, InCallback, Running
<1>2. PICK n : n = Top.tmp
  OBVIOUS
<1>3. /\ Top \in Frame /\ AtPlace(Top, c, next, rec, calls) /\ b \in Seq(Frame)
      /\ CallsOK(b, c, next, rec, live, calls) /\ CanPush(b, Top, c, next, rec, live, calls)
      /\ HeldNode(Top) = n /\ n \in live /\ n \notin ToSet(c)
      /\ HeldSet(stack) = HeldSet(b) \cup {n}
  BY <1>1, <1>2, TopOf DEF HeldNode
<1>4. Typed(next, rec, live) /\ Linked(c, next, rec, live) /\ Links(next, c)
  BY DEF Good, Linked
<1>5. PICK a \in 0 .. Len(c), e \in 1 .. Len(c) + 1 : ClearAt(Top, c, next, rec, calls, a, e)
  BY <1>1, <1>3 DEF AtPlace
<1>6. /\ Top.ptr = SlotAt(c, a) /\ Top.curr = LinkAt(c, e) /\ a < e /\ next[n] = LinkAt(c, e)
      /\ "add" \notin calls => e = a + 1
      /\ a > 0 => rec[c[a]].time <= rec[n].time
      /\ e <= Len(c) => rec[n].time <= rec[c[e]].time
  BY <1>1, <1>2, <1>5 DEF ClearAt
<1>7. PICK m : m = e - 1
  OBVIOUS
<1>8. /\ c \in Seq(Node) /\ Len(c) \in Nat /\ m \in a .. Len(c) /\ e = m + 1 /\ Top.ptr \in Slot
      /\ n \in Node /\ n # HEAD /\ n \in Slot /\ a \in Nat /\ Top.ptr # n
  <2>1. c \in Seq(Node) /\ Len(c) \in Nat
    BY <1>4, PlacesOf
  <2>2. m \in a .. Len(c) /\ e = m + 1 /\ a \in Nat
    BY <1>6, <1>7, <2>1
  <2>3. n \in Node /\ n # HEAD /\ n \in Slot
    BY <1>3, <1>4, PointerAssumption DEF Typed, Slot
  <2>4. Top.ptr \in Slot /\ Top.ptr # n
    BY <1>3, <1>4, <1>6, <2>3, PlacesOf
  <2> QED BY <2>1, <2>2, <2>3, <2>4
<1>9. PICK k : k = Cut(c, a, m)
  OBVIOUS
<1>10. /\ k \in Seq(Node) /\ Len(k) \in Nat /\ a \in 0 .. Len(k) /\ SlotAt(k, a) = SlotAt(c, a)
       /\ LinkAt(k, a + 1) = LinkAt(c, e)
       /\ a > 0 => k[a] = c[a]
       /\ a + 1 <= Len(k) => e <= Len(c) /\ k[a + 1] = c[e]
  <2>1. k \in Seq(Node) /\ a \in 0 .. Len(k) /\ SlotAt(k, a) = SlotAt(c, a)
        /\ LinkAt(k, a + 1) = LinkAt(c, m + 1)
    BY <1>8, <1>9, CutPlaces
  <2>2. a > 0 => k[a] = c[a]
    BY <1>8, <1>9, CutPlaces
  <2>3. a + 1 <= Len(k) => m + 1 <= Len(c) /\ k[a + 1] = c[m + 1]
    BY <1>8, <1>9, CutPlaces
  <2> QED BY <1>8, <2>1, <2>2, <2>3
<1>11. PICK x : x = [next EXCEPT ![SlotAt(c, a)] = LinkAt(c, e)]
  OBVIOUS
<1>12. Linked(k, x, rec, live) /\ ToSet(k) = Stay(c, a, m)
  <2>1. x[SlotAt(c, a)] = LinkAt(c, m + 1)
    BY <1>4, <1>6, <1>8, <1>11 DEF Typed
  <2>2. ASSUME NEW l \in (0 .. a - 1) \cup (m + 1 .. Len(c)) PROVE x[SlotAt(c, l)] = next[SlotAt(c, l)]
    <3>1. l \in 0 .. Len(c) /\ l # a
      BY <1>8
    <3>2. SlotAt(c, l) # SlotAt(c, a) /\ SlotAt(c, l) \in Slot
      BY <1>4, <3>1, PlacesOf, SlotsDiffer
    <3> QED BY <1>4, <1>11, <3>2 DEF Typed
  <2>3. \A q \in Stay(c, a, m) : rec[q] = rec[q] /\ q \in live
    <3>1. \A l \in (1 .. a) \cup (m + 1 .. Len(c)) : c[l] \in live
      BY <1>4, <1>8, PlacesOf DEF Linked
    <3> QED BY <3>1 DEF Stay
  <2>4. Linked(Cut(c, a, m), x, rec, live) /\ ToSet(Cut(c, a, m)) = Stay(c, a, m)
    BY <1>4, <1>8, <2>1, <2>2, <2>3, LinkedCut
  <2> QED BY <1>9, <2>4
<1>13. Stay(c, a, m) \subseteq ToSet(c) /\ (m = a => ToSet(c) = ToSet(k))
  <2>1. \A l \in (1 .. a) \cup (m + 1 .. Len(c)) : c[l] \in ToSet(c)
    BY <1>4, <1>8, PlacesOf
  <2>2. m = a => k = c
    BY <1>8, <1>9, CutNone
  <2> QED BY <2>1, <2>2 DEF Stay
<1>14. Typed(x, rec, live) /\ Typed(next', rec', live')
  <2>1. LinkAt(c, e) \in Link /\ n \in Link
    BY <1>4, <1>8, PlacesOf DEF Link
  <2> QED BY <1>1, <1>2, <1>4, <1>8, <1>11, <2>1 DEF Typed
<1>15. PICK d : d = InsertAt(k, a + 1, n)
  OBVIOUS
<1>16. Inserted(d, Node, k, a + 1, n) /\ a + 1 \in 1 .. Len(k) + 1
  <2>1. a + 1 \in 1 .. Len(k) + 1
    BY <1>8, <1>10
  <2>2. Inserted(InsertAt(k, a + 1, n), Node, k, a + 1, n)
    BY <1>8, <1>10, <2>1, InsertIs
  <2> QED BY <1>15, <2>1, <2>2
<1>17. Linked(d, next', rec', live')
  <2>1. next'[SlotAt(k, a)] = n /\ next'[n] = LinkAt(k, a + 1)
    BY <1>1, <1>2, <1>4, <1>6, <1>8, <1>10 DEF Typed
  <2>2. ASSUME NEW l \in 0 .. Len(k), l # a PROVE next'[SlotAt(k, l)] = x[SlotAt(k, l)]
    <3>1. Links(x, k)
      BY <1>12 DEF Linked
    <3>2. SlotAt(k, l) # SlotAt(k, a) /\ SlotAt(k, l) \in Slot
      BY <1>10, <2>2, <3>1, PlacesOf, SlotsDiffer
    <3> QED BY <1>1, <1>4, <1>6, <1>8, <1>10, <1>11, <3>2 DEF Typed
  <2>3. n \notin ToSet(k)
    BY <1>3, <1>12, <1>13
  <2>4. (a > 0 => rec[k[a]].time <= rec[n].time) /\ (a + 1 <= Len(k) => rec[n].time <= rec[k[a + 1]].time)
    BY <1>6, <1>10
  <2>5. Linked(InsertAt(k, a + 1, n), next', rec, live)
    BY <1>3, <1>10, <1>12, <1>14, <2>1, <2>2, <2>3, <2>4, LinkedInsert
  <2> QED BY <1>1, <1>15, <2>5
<1>18. /\ d \in Seq(Node) /\ ToSet(d) = ToSet(k) \cup {n} /\ Len(d) = Len(k) + 1
       /\ d[a + 1] = n /\ LinkAt(d, a + 1 + 1) = LinkAt(k, a + 1)
  <2>1. /\ d \in Seq(Node) /\ ToSet(d) = ToSet(k) \cup {n} /\ Len(d) = Len(k) + 1
        /\ \A j \in 1 .. Len(k) + 1 : d[j] = IF j < a + 1 THEN k[j] ELSE IF j = a + 1 THEN n ELSE k[j - 1]
    BY <1>16 DEF Inserted
  <2>2. d[a + 1] = n
    BY <1>8, <1>10, <2>1
  <2>3. LinkAt(d, a + 1 + 1) = LinkAt(k, a + 1)
    BY <1>8, <1>10, <2>1 DEF LinkAt
  <2> QED BY <2>1, <2>2, <2>3
<1>19. g \in Frame /\ g.op = "clear" /\ ~g.stale /\ g.ptr = n /\ g.curr = LinkAt(c, e) /\ g.tmp = NULL
  <2>1. ClearTo(Top, n, LinkAt(c, e), NULL, g) /\ NULL \in Link /\ LinkAt(c, e) \in Link
    BY <1>2, <1>4, <1>6, <1>8, PlacesOf DEF ClearTo, Link
  <2> HIDE DEF g
  <2> QED BY <1>1, <1>3, <1>8, <2>1, ClearFrame
<1> HIDE DEF g
<1>20. AtPlace(g, d, next', rec', calls')
  <2>1. a + 1 \in 0 .. Len(d) /\ a + 1 + 1 \in 1 .. Len(d) + 1 /\ a + 1 < a + 1 + 1 /\ a + 1 # 0
    BY <1>8, <1>10, <1>18
  <2>2. SlotAt(d, a + 1) = n
    BY <1>18, <2>1 DEF SlotAt
  <2>3. ClearAt(g, d, next', rec', calls', a + 1, a + 1 + 1)
    BY <1>10, <1>18, <1>19, <2>1, <2>2 DEF ClearAt
  <2> QED BY <1>19, <2>1, <2>3 DEF AtPlace
<1>21. CallsOK(b, d, next', rec', live', calls')
  <2>1. \A q \in live \ ToSet(c) : q # HeldNode(Top) => q \in live' \ ToSet(d)
    BY <1>1, <1>3, <1>12, <1>13, <1>18
  <2>2. ~(b # << >> /\ b[Len(b)].op = "clear")
    BY <1>1, CallerIs
  <2> HIDE DEF b
  <2>3. CallsOK(b, d, next', rec', live', calls)
    BY <1>3, <2>1, <2>2, BelowMove
  <2> QED BY <1>1, <2>3
<1>22. HeldNode(g) = NULL /\ SetTop(g)
  BY <1>1, <1>19 DEF HeldNode, g
<1>23. CanPush(b, g, d, next', rec', live', calls')
  <2>1. b # << >> => Calling(b[Len(b)], g, calls')
    BY <1>1, <1>3, <1>19 DEF CanPush, Calling
  <2> HIDE DEF b
  <2> QED BY <1>19, <1>20, <1>22, <2>1 DEF CanPush
<1>24. CallsOK(stack', d, next', rec', live', calls') /\ HeldSet(stack') = HeldSet(b) \cup {NULL}
  <2>1. stack' = Append(b, g)
    BY <1>1, <1>19, <1>22, SetTopAppend
  <2> HIDE DEF b
  <2> QED BY <1>21, <1>22, <1>23, <2>1, SetCalls
<1>25. Good(d)'
  BY <1>1, <1>14, <1>17, <1>24 DEF Good
<1>26. m = a => Leads(c, d)
  BY <1>1, <1>3, <1>13, <1>18, <1>24, <1>25 DEF Leads, LostNodes
<1>27. m = a \/ next[Top.ptr] # Top.curr
  <2>1. ASSUME next[Top.ptr] = Top.curr PROVE e = a + 1
    <3>1. LinkAt(c, a + 1) = LinkAt(c, e)
      BY <1>4, <1>6, <2>1, PlacesOf
    <3>2. CASE a + 1 \in 1 .. Len(c)
      <4>1. e \in 1 .. Len(c) /\ c[a + 1] = c[e]
        BY <1>4, <3>1, <3>2, PlacesOf DEF LinkAt
      <4> QED BY <1>4, <3>2, <4>1, Zenon DEF Links
    <3>3. CASE a + 1 \notin 1 .. Len(c)
      BY <1>6, <1>8, <3>3
    <3> QED BY <3>2, <3>3
  <2> QED BY <1>7, <1>8, <2>1
<1>28. d = InsertAt(Cut(c, a, m), a + 1, Top.tmp) /\ ("add" \notin calls => m = a)
  BY <1>2, <1>6, <1>8, <1>9, <1>15
<1>29. m = a => /\ Leads(c, d)
                /\ a > 0 => rec[c[a]].time <= rec[Top.tmp].time
                /\ a + 1 <= Len(c) => rec[Top.tmp].time <= rec[c[a + 1]].time
  BY <1>2, <1>6, <1>8, <1>26
<1>30. m = a \/ (Running("clear") /\ next[Top.ptr] # Top.curr)
  BY <1>1, <1>27
<1>31. d \in Seq(Node) /\ g \in Frame
  BY <1>18, <1>19
<1> HIDE DEF b
<1> QED BY <1>1, <1>8, <1>22, <1>25, <1>28, <1>29, <1>30, <1>31

\* queue_clear frees the whole list.
LEMMA QueueClearStep ==
  ASSUME NEW c, Good(c), QueueClear, UNCHANGED calls
  PROVE  Leads(c, << >>)
<1>1. Chain = c
  <2>1. Links(next, c)
    BY DEF Good, Linked
  <2>2. ChainOf(next) = c
    BY <2>1, ChainIs
  <2> QED BY <2>2 DEF Chain, From, ChainOf
<1>2. /\ stack = << >> /\ stack' = << >> /\ live' = live \ ToSet(c)
      /\ next' = [s \in Slot |-> IF s \in ToSet(c) \cup {HEAD} THEN NULL ELSE next[s]]
      /\ rec' = [n \in Node |-> IF n \in ToSet(c) THEN Blank ELSE rec[n]]
      /\ UNCHANGED << clock, calls >>
  BY <1>1 DEF QueueClear
<1>3. Typed(next', rec', live')
  BY <1>2 DEF Good, Typed, Link
<1>4. Linked(<< >>, next', rec', live')
  <2>1. << >> \in Seq(Node) /\ Len(<< >>) = 0 /\ ToSet(<< >>) = {}
    BY DEF ToSet
  <2>2. next'[HEAD] = NULL
    BY <1>2 DEF Slot
  <2>3. Links(next', << >>)
    BY <2>1, <2>2 DEF Links, SlotAt, LinkAt
  <2> QED BY <2>1, <2>3 DEF Linked
<1>5. CallsOK(stack', << >>, next', rec', live', calls') /\ HeldSet(stack) = {}
  BY <1>2 DEF CallsOK, Owned, HeldSet
<1>6. Good(<< >>)'
  BY <1>2, <1>3, <1>4, <1>5 DEF Good
<1>7. LostNodes(<< >>, stack', live') \subseteq LostNodes(c, stack, live)
  BY <1>2, <1>5 DEF LostNodes
<1> QED BY <1>6, <1>7 DEF Leads

-----------------------------------------------------------------------------
(* The invariant, and what follows from it.                                *)

\* The queue is empty at first.
LEMMA GoodInit ==
  ASSUME PlainCallbacks, Init
  PROVE  Good(<< >>)
<1>1. << >> \in Seq(Node) /\ Len(<< >>) = 0 /\ ToSet(<< >>) = {}
  BY DEF ToSet
<1>2. Typed(next, rec, live) /\ clock \in Time /\ calls \subseteq {"add", "remove"}
  BY PointerAssumption DEF Init, Typed, Link, Time, PlainCallbacks
<1>3. Linked(<< >>, next, rec, live)
  <2>1. next[HEAD] = NULL
    BY DEF Init, Slot
  <2>2. Links(next, << >>)
    BY <1>1, <2>1 DEF Links, SlotAt, LinkAt
  <2> QED BY <1>1, <2>2 DEF Linked
<1>4. CallsOK(stack, << >>, next, rec, live, calls)
  BY DEF Init, CallsOK, Owned
<1> QED BY <1>2, <1>3, <1>4 DEF Good

\* A step of the queue leads from a good list to a good list. It loses nothing,
\* unless a queue_clear_type finds events in the slot it goes on from.
LEMMA GoodStep ==
  ASSUME NEW c, Good(c), Step, UNCHANGED calls
  PROVE  \E d : /\ Good(d)'
                /\ Leads(c, d) \/ (Running("clear") /\ next[Top.ptr] # Top.curr)
                /\ "add" \notin calls => Leads(c, d)
<1> DEFINE P(d) == /\ Good(d)'
                   /\ Leads(c, d) \/ (Running("clear") /\ next[Top.ptr] # Top.curr)
                   /\ "add" \notin calls => Leads(c, d)
<1>0. ASSUME NEW d, Leads(c, d) PROVE P(d)
  BY <1>0 DEF Leads
<1>1. ASSUME NEW a, NEW e, NEW d, UnlinkStep(c, a, e, d) PROVE P(d)
  BY <1>1 DEF UnlinkStep
<1> HIDE DEF P
<1>2. CASE SetClock
  BY <1>0, <1>2, SetClockStep DEF P
<1>3. CASE \E t \in Time, ty \in Type, o \in Owner : QueueAdd(t, ty, o)
  BY <1>0, <1>3, QueueAddStep DEF P
<1>4. CASE AddWalk
  BY <1>0, <1>4, AddWalkStep DEF P
<1>5. CASE AddLink
  BY <1>0, <1>5, AddLinkStep DEF P
<1>6. CASE \E o \in Owner, ty \in Type \cup {ANY} : QueueRemove(o, ty)
  BY <1>0, <1>6, QueueRemoveStep DEF P
<1>7. CASE RemoveMatch
  BY <1>1, <1>7, RemoveMatchStep DEF P, Deletes
<1>8. CASE RemoveSkip
  BY <1>0, <1>8, RemoveSkipStep DEF P
<1>9. CASE RemoveDone \/ ProcessDone \/ ClearDone
  BY <1>0, <1>9, DoneStep DEF P
<1>10. CASE QueueProcess
  BY <1>0, <1>10, QueueProcessStep DEF P
<1>11. CASE ProcessPop
  BY <1>1, <1>11, ProcessPopStep DEF P, Takes
<1>12. CASE \E rc \in 0 .. 1 : HandlerReturn(rc)
  BY <1>0, <1>12, HandlerReturnStep DEF P
<1>13. CASE \E ty \in Type, hasFn \in BOOLEAN : QueueClearType(ty, hasFn)
  BY <1>0, <1>13, QueueClearTypeStep DEF P
<1>14. CASE ClearSkip
  BY <1>0, <1>14, ClearSkipStep DEF P
<1>15. CASE ClearMatch
  BY <1>1, <1>15, ClearMatchStep DEF P, Takes
<1>16. CASE ClearMatchNoFn
  BY <1>1, <1>16, ClearMatchNoFnStep DEF P, Deletes
<1>17. CASE ClearFree
  BY <1>0, <1>17, ClearFreeStep DEF P
<1>18. CASE ClearKeep
  BY <1>18, ClearKeepStep DEF P
<1>19. CASE QueueClear
  BY <1>0, <1>19, QueueClearStep DEF P
<1> QED
  BY <1>2, <1>3, <1>4, <1>5, <1>6, <1>7, <1>8, <1>9, <1>10, <1>11, <1>12, <1>13, <1>14,
     <1>15, <1>16, <1>17, <1>18, <1>19 DEF Step

\* Chain and Lost are what Good speaks of.
LEMMA ChainGood ==
  ASSUME NEW nx, NEW r, NEW lv, NEW c, Linked(c, nx, r, lv)
  PROVE  ChainOf(nx) = c
BY ChainIs DEF Linked

\* Held, of the calls s.
HeldOf(s) ==
  {s[i].node : i \in {j \in 1 .. Len(s) : s[j].op \in {"add", "process"}}}
  \cup
  {s[i].tmp : i \in {j \in 1 .. Len(s) : s[j].op = "clear"}}

\* Only queue_remove holds nothing.
LEMMA HeldIs ==
  ASSUME NEW s
  PROVE  HeldOf(s) \cup {NULL} = HeldSet(s) \cup {NULL}
BY DEF HeldOf, HeldSet, HeldNode

\* What is lost is neither in the list nor owned by a call.
LEMMA LostIs ==
  ASSUME NEW nx, NEW r, NEW lv, NEW s, NEW c, Typed(nx, r, lv), Linked(c, nx, r, lv)
  PROVE  lv \ (ToSet(ChainOf(nx)) \cup HeldOf(s)) = LostNodes(c, s, lv)
<1>1. NULL \notin lv
  BY PointerAssumption DEF Typed
<1> QED BY <1>1, ChainGood, HeldIs DEF LostNodes

\* A queue_clear_type whose callback queues nothing finds what it goes on with
\* in the slot it goes on from.
LEMMA NoGap ==
  ASSUME NEW f, NEW c, NEW nx, NEW r, NEW cs, Links(nx, c), f.op = "clear", ~f.stale,
         AtPlace(f, c, nx, r, cs), "add" \notin cs
  PROVE  nx[f.ptr] = f.curr
<1>1. PICK a \in 0 .. Len(c), e \in 1 .. Len(c) + 1 : ClearAt(f, c, nx, r, cs, a, e)
  BY DEF AtPlace
<1>2. f.ptr = SlotAt(c, a) /\ f.curr = LinkAt(c, a + 1)
  BY <1>1 DEF ClearAt
<1> QED BY <1>2, PlacesOf

\* Chain, Held and Lost in a good state, and in the next one.
LEMMA Readings ==
  /\ \A c : Good(c) => Chain = c /\ Lost = LostNodes(c, stack, live)
  /\ \A c : Good(c)' => Chain' = c /\ Lost' = LostNodes(c, stack', live')
<1>1. /\ Chain = ChainOf(next) /\ Lost = live \ (ToSet(ChainOf(next)) \cup HeldOf(stack))
      /\ Chain' = ChainOf(next') /\ Lost' = live' \ (ToSet(ChainOf(next')) \cup HeldOf(stack'))
  BY DEF Chain, From, ChainOf, Lost, Held, HeldOf
<1>2. ASSUME NEW c, Good(c) PROVE Chain = c /\ Lost = LostNodes(c, stack, live)
  BY <1>1, <1>2, ChainGood, LostIs DEF Good
<1>3. ASSUME NEW c, Good(c)' PROVE Chain' = c /\ Lost' = LostNodes(c, stack', live')
  <2>1. Typed(next', rec', live') /\ Linked(c, next', rec', live')
    BY <1>3 DEF Good
  <2> QED BY <1>1, <2>1, ChainGood, LostIs
<1> QED BY <1>2, <1>3

\* The invariant: the pointers make a good list, of which nothing is lost
\* unless callbacks queue events.
QueueInv == IInv /\ ("add" \notin calls => Lost = {})

\* It holds at first, and every step keeps it.
LEMMA QueueInvHolds ==
  ASSUME PlainCallbacks
  PROVE  Spec => []QueueInv
<1>1. Init => QueueInv
  <2> SUFFICES ASSUME Init PROVE QueueInv
    OBVIOUS
  <2>1. Good(<< >>) /\ << >> \in Seq(Node)
    BY GoodInit
  <2>2. Lost = LostNodes(<< >>, stack, live) /\ live = {}
    BY <2>1, Readings DEF Init
  <2> QED BY <2>1, <2>2 DEF QueueInv, IInv, LostNodes
<1>2. QueueInv /\ [Next]_vars => QueueInv'
  <2> SUFFICES ASSUME QueueInv, [Next]_vars PROVE QueueInv'
    OBVIOUS
  <2>1. PICK c : Good(c) /\ c \in Seq(Node)
    BY DEF QueueInv, IInv
  <2>2. CASE UNCHANGED << nodes, calls >>
    <3>1. Good(c)'
      BY <2>1, <2>2 DEF nodes, Good
    <3>2. Lost = LostNodes(c, stack, live) /\ Lost' = LostNodes(c, stack', live')
      BY <2>1, <3>1, Readings
    <3>3. stack' = stack /\ live' = live /\ calls' = calls
      BY <2>2 DEF nodes
    <3> QED BY <2>1, <3>1, <3>2, <3>3 DEF QueueInv, IInv
  <2>3. CASE Step /\ UNCHANGED calls
    <3>1. PICK d : Good(d)' /\ ("add" \notin calls => Leads(c, d))
      BY <2>1, <2>3, GoodStep
    <3>2. d \in Seq(Node)
      <4>1. Linked(d, next', rec', live')
        BY <3>1 DEF Good
      <4> QED BY <4>1 DEF Linked, Links
    <3>3. Lost = LostNodes(c, stack, live) /\ Lost' = LostNodes(d, stack', live')
      BY <2>1, <3>1, Readings
    <3>4. "add" \notin calls' => Lost' = {}
      BY <2>3, <3>1, <3>3 DEF QueueInv, Leads
    <3> QED BY <3>1, <3>2, <3>4 DEF QueueInv, IInv
  <2> QED BY <2>2, <2>3 DEF Next, ClearAstray, vars
<1> QED BY <1>1, <1>2, PTL DEF Spec

\* Whatever queue_add and queue_remove the callbacks of queue_clear_type make, and
\* whatever calls the handlers of queue_process, no event is lost, unless a callback
\* queues events, and no freed node is in the list.
THEOREM NoEventLost ==
  ASSUME PlainCallbacks
  PROVE  Spec => []NoEventLostOrFreed
<1>1. QueueInv => NoEventLostOrFreed
  <2> SUFFICES ASSUME QueueInv PROVE NoEventLostOrFreed
    OBVIOUS
  <2>1. PICK c : Good(c)
    BY DEF QueueInv, IInv
  <2>2. Chain = c /\ ToSet(c) \subseteq live
    BY <2>1, Readings DEF Good, Linked
  <2> QED BY <2>2 DEF QueueInv, NoEventLostOrFreed
<1> QED BY <1>1, QueueInvHolds, PTL

\* A queue_clear_type whose callback has added and removed events, but not the two it
\* goes on with, finds them allocated and, if it added none, one after the other.
THEOREM WalksStayValid ==
  ASSUME PlainCallbacks
  PROVE  Spec => []SuspendedWalkValid
<1>1. QueueInv => SuspendedWalkValid
  <2> SUFFICES ASSUME QueueInv, NEW i \in 1 .. Len(stack), stack[i].op = "clear", ~stack[i].stale
               PROVE  /\ stack[i].ptr \in live \cup {HEAD}
                      /\ stack[i].curr \in live \cup {NULL}
                      /\ "add" \notin calls => next[stack[i].ptr] = stack[i].curr
    BY DEF SuspendedWalkValid
  <2>1. PICK c : Good(c)
    BY DEF QueueInv, IInv
  <2>2. AtPlace(stack[i], c, next, rec, calls) /\ Links(next, c) /\ ToSet(c) \subseteq live
    BY <2>1 DEF Good, CallsOK, Linked
  <2>3. PICK a \in 0 .. Len(c), e \in 1 .. Len(c) + 1 : ClearAt(stack[i], c, next, rec, calls, a, e)
    BY <2>2 DEF AtPlace
  <2>4. stack[i].ptr = SlotAt(c, a) /\ stack[i].curr = LinkAt(c, e)
    BY <2>3 DEF ClearAt
  <2>5. stack[i].ptr \in live \cup {HEAD}
    BY <2>2, <2>4, PlacesOf
  <2>6. stack[i].curr \in live \cup {NULL}
    BY <2>2, <2>4, PlacesOf DEF LinkAt
  <2>7. "add" \notin calls => next[stack[i].ptr] = stack[i].curr
    BY <2>2, NoGap
  <2> QED BY <2>5, <2>6, <2>7
<1> QED BY <1>1, QueueInvHolds, PTL

\* Only a step of a queue_clear_type whose callback has queued an event into the
\* very slot it goes on from loses events.
THEOREM LossIsInTheGap ==
  ASSUME PlainCallbacks
  PROVE  Spec => LossOnlyInGap
<1> DEFINE A == Lost' \subseteq Lost \/ (Running("clear") /\ next[Top.ptr] # Top.curr)
<1>1. QueueInv /\ [Next]_vars => [A]_nodes
  <2> SUFFICES ASSUME QueueInv, Next PROVE A
    BY DEF vars
  <2>0. CASE ClearAstray
    BY <2>0 DEF ClearAstray, nodes, Lost, Chain, From, Held
  <2>1. PICK c : Good(c)
    BY DEF QueueInv, IInv
  <2> SUFFICES ASSUME Step, UNCHANGED calls PROVE A
    BY <2>0 DEF Next
  <2>2. PICK d : Good(d)' /\ (Leads(c, d) \/ (Running("clear") /\ next[Top.ptr] # Top.curr))
    BY <2>1, GoodStep
  <2>3. Lost = LostNodes(c, stack, live) /\ Lost' = LostNodes(d, stack', live')
    BY <2>1, <2>2, Readings
  <2> QED BY <2>2, <2>3 DEF Leads
<1> QED BY <1>1, QueueInvHolds, PTL DEF Spec, LossOnlyInGap

-----------------------------------------------------------------------------
(* The abstract list, and the events in the hands of the calls.            *)

\* Abstract, of the list c, and HeldBy, of the call f, with the records r.
EventsOf(c, r) == [k \in 1 .. Len(c) |-> r[c[k]]]

HandOf(f, r) ==
  IF f.op \in {"process", "clear"} /\ HeldNode(f) # NULL THEN << r[HeldNode(f)] >> ELSE << >>

\* The hands of the calls s, and the same one call after the other.
HandList(s, r) == [i \in 1 .. Len(s) |-> HandOf(s[i], r)]
HandsOf(s, r) == FlattenSeq(HandList(s, r))

Records(r) == {r[n] : n \in Node}

\* A list of nodes has as many events, and those of its nodes.
LEMMA EventsIndex ==
  ASSUME NEW c \in Seq(Node), NEW r
  PROVE  /\ EventsOf(c, r) \in Seq(Records(r)) /\ Len(EventsOf(c, r)) = Len(c)
         /\ \A k \in 1 .. Len(c) : EventsOf(c, r)[k] = r[c[k]]
<1>1. Len(c) \in Nat /\ \A k \in 1 .. Len(c) : c[k] \in Node
  BY NodesOf
<1>2. \A k \in 1 .. Len(c) : r[c[k]] \in Records(r)
  BY <1>1 DEF Records
<1> QED BY <1>1, <1>2 DEF EventsOf

\* Only the records of its nodes count.
LEMMA EventsSame ==
  ASSUME NEW c \in Seq(Node), NEW r, NEW q, \A n \in ToSet(c) : q[n] = r[n]
  PROVE  EventsOf(c, q) = EventsOf(c, r)
<1>1. \A k \in 1 .. Len(c) : q[c[k]] = r[c[k]]
  BY NodesOf
<1> QED BY <1>1 DEF EventsOf

\* A node linked in is an event inserted.
LEMMA EventsInsert ==
  ASSUME NEW c \in Seq(Node), NEW r, NEW p \in 1 .. Len(c) + 1, NEW n \in Node
  PROVE  EventsOf(InsertAt(c, p, n), r) = InsertAt(EventsOf(c, r), p, r[n])
<1> DEFINE d == InsertAt(c, p, n)
           l == EventsOf(c, r)
           e == r[n]
           m == InsertAt(l, p, e)
           k == EventsOf(d, r)
           S == Records(r)
<1>1. Len(c) \in Nat /\ d \in Seq(Node) /\ Len(d) = Len(c) + 1
      /\ \A j \in 1 .. Len(c) + 1 : d[j] = IF j < p THEN c[j] ELSE IF j = p THEN n ELSE c[j - 1]
  BY InsertAtIndex, NodesOf
<1>2. l \in Seq(S) /\ Len(l) = Len(c) /\ \A j \in 1 .. Len(c) : l[j] = r[c[j]]
  BY EventsIndex
<1>3. e \in S
  BY DEF Records
<1> HIDE DEF d
<1>4. k \in Seq(S) /\ Len(k) = Len(d) /\ \A j \in 1 .. Len(d) : k[j] = r[d[j]]
  BY <1>1, EventsIndex
<1> HIDE DEF l, e, S, k
<1>5. m \in Seq(S) /\ Len(m) = Len(l) + 1
      /\ \A j \in 1 .. Len(l) + 1 : m[j] = IF j < p THEN l[j] ELSE IF j = p THEN e ELSE l[j - 1]
  BY <1>2, <1>3, InsertAtIndex
<1> HIDE DEF m
<1>6. ASSUME NEW j \in 1 .. Len(k) PROVE k[j] = m[j]
  <2>1. j \in 1 .. Len(c) + 1 /\ j \in 1 .. Len(l) + 1 /\ j \in 1 .. Len(d)
    BY <1>1, <1>2, <1>4
  <2>2. CASE j < p
    <3>1. d[j] = c[j] /\ m[j] = l[j] /\ j \in 1 .. Len(c)
      BY <1>1, <1>5, <2>1, <2>2
    <3> QED BY <1>2, <1>4, <2>1, <3>1
  <2>3. CASE j = p
    BY <1>1, <1>4, <1>5, <2>1, <2>3 DEF e
  <2>4. CASE j > p
    <3>1. d[j] = c[j - 1] /\ m[j] = l[j - 1] /\ j - 1 \in 1 .. Len(c)
      BY <1>1, <1>5, <2>1, <2>4
    <3> QED BY <1>2, <1>4, <2>1, <3>1
  <2> QED BY <1>1, <2>1, <2>2, <2>3, <2>4
<1>7. k = m
  BY <1>1, <1>2, <1>4, <1>5, <1>6, SeqEqual
<1> QED BY <1>7 DEF k, m, d, l, e

\* A node unlinked is an event removed.
LEMMA EventsCut ==
  ASSUME NEW c \in Seq(Node), NEW r, NEW a \in 0 .. Len(c), NEW e \in 1 .. Len(c), e = a + 1
  PROVE  EventsOf(Cut(c, a, e), r) = RemoveAt(EventsOf(c, r), e)
<1> DEFINE d == Cut(c, a, e)
           l == EventsOf(c, r)
           m == RemoveAt(l, e)
           k == EventsOf(d, r)
           S == Records(r)
<1>1. Len(c) \in Nat /\ d \in Seq(Node) /\ Len(d) = Len(c) - 1
      /\ \A j \in 1 .. Len(c) - 1 : d[j] = IF j < e THEN c[j] ELSE c[j + 1]
  <2>1. Len(c) \in Nat /\ e \in a .. Len(c) /\ e - a = 1
    BY NodesOf
  <2>2. d \in Seq(Node) /\ Len(d) = Len(c) - (e - a)
        /\ \A j \in 1 .. Len(c) - (e - a) : d[j] = IF j <= a THEN c[j] ELSE c[j + (e - a)]
    BY <2>1, CutIndex
  <2>3. \A j \in Int : j < e <=> j <= a
    OBVIOUS
  <2> HIDE DEF d
  <2> QED BY <2>1, <2>2, <2>3
<1>2. l \in Seq(S) /\ Len(l) = Len(c) /\ \A j \in 1 .. Len(c) : l[j] = r[c[j]]
  BY EventsIndex
<1> HIDE DEF d
<1>3. k \in Seq(S) /\ Len(k) = Len(d) /\ \A j \in 1 .. Len(d) : k[j] = r[d[j]]
  BY <1>1, EventsIndex
<1> HIDE DEF l, S, k
<1>4. m \in Seq(S) /\ Len(m) = Len(l) - 1
      /\ \A j \in 1 .. Len(l) - 1 : m[j] = IF j < e THEN l[j] ELSE l[j + 1]
  BY <1>2, RemoveAtIndex
<1> HIDE DEF m
<1>5. ASSUME NEW j \in 1 .. Len(k) PROVE k[j] = m[j]
  <2>1. j \in 1 .. Len(c) - 1 /\ j \in 1 .. Len(l) - 1 /\ j \in 1 .. Len(d)
        /\ j \in 1 .. Len(c) /\ j + 1 \in 1 .. Len(c)
    BY <1>1, <1>2, <1>3
  <2>2. CASE j < e
    <3>1. d[j] = c[j] /\ m[j] = l[j]
      BY <1>1, <1>4, <2>1, <2>2
    <3> QED BY <1>2, <1>3, <2>1, <3>1
  <2>3. CASE ~(j < e)
    <3>1. d[j] = c[j + 1] /\ m[j] = l[j + 1]
      BY <1>1, <1>4, <2>1, <2>3
    <3> QED BY <1>2, <1>3, <2>1, <3>1
  <2> QED BY <2>2, <2>3
<1>6. k = m
  BY <1>1, <1>2, <1>3, <1>4, <1>5, SeqEqual
<1> QED BY <1>6 DEF k, m, d, l

\* A call has one event in its hands, or none.
LEMMA HandTypes ==
  ASSUME NEW f \in Frame, NEW r
  PROVE  HandOf(f, r) \in Seq(Records(r))
<1>1. HeldNode(f) \in Node \cup {NULL}
  BY FrameFields DEF HeldNode, Link
<1>2. HeldNode(f) # NULL => r[HeldNode(f)] \in Records(r)
  BY <1>1 DEF Records
<1> QED BY <1>2 DEF HandOf

\* A call on top of others adds what is in its hands.
LEMMA HandsPush ==
  ASSUME NEW b \in Seq(Frame), NEW g \in Frame, NEW r
  PROVE  /\ HandsOf(Append(b, g), r) = HandsOf(b, r) \o HandOf(g, r)
         /\ HandsOf(b, r) \in Seq(Records(r)) /\ HandOf(g, r) \in Seq(Records(r))
<1> DEFINE S == Records(r)
           T == Seq(S)
           s == Append(b, g)
           n == Len(b)
           x == HandOf(g, r)
           u == HandList(b, r)
           v == HandList(s, r)
<1>1. Len(s) = n + 1 /\ n \in Nat /\ s[n + 1] = g /\ \A i \in 1 .. n : s[i] = b[i] /\ b[i] \in Frame
  BY AppendProperties, ElementOfSeq
<1>2. x \in T /\ \A i \in 1 .. n : HandOf(b[i], r) \in T
  BY <1>1, HandTypes
<1> HIDE DEF s, T, x
<1>3. u \in Seq(T) /\ Len(u) = n /\ \A i \in 1 .. n : u[i] = HandOf(b[i], r)
  BY <1>1, <1>2 DEF HandList
<1>4. v \in Seq(T) /\ Len(v) = n + 1 /\ v[n + 1] = x
      /\ \A i \in 1 .. n : v[i] = HandOf(b[i], r)
  <2>1. \A i \in 1 .. n + 1 : i \in 1 .. n \/ i = n + 1
    BY <1>1
  <2>2. \A i \in 1 .. n + 1 : HandOf(s[i], r) \in T
    BY <1>1, <1>2, <2>1 DEF x
  <2> QED BY <1>1, <2>2 DEF HandList, x
<1> HIDE DEF u, v
<1>5. v = Append(u, x)
  <2> DEFINE w == Append(u, x)
  <2>1. w \in Seq(T) /\ Len(w) = n + 1 /\ w[n + 1] = x /\ \A i \in 1 .. n : w[i] = u[i]
    BY <1>2, <1>3, AppendProperties
  <2> HIDE DEF w
  <2>2. ASSUME NEW i \in 1 .. n + 1 PROVE w[i] = v[i]
    <3>1. i \in 1 .. n \/ i = n + 1
      BY <1>1
    <3> QED BY <1>3, <1>4, <2>1, <3>1
  <2>3. w = v
    BY <1>4, <2>1, <2>2, SeqEqual
  <2> QED BY <2>3 DEF w
<1> HIDE DEF S
<1>6. FlattenSeq(Append(u, x)) = FlattenSeq(u) \o x /\ FlattenSeq(u) \in Seq(S)
  <2>1. u \in Seq(Seq(S)) /\ x \in Seq(S)
    BY <1>2, <1>3 DEF T
  <2> QED BY <2>1, FlattenAppend
<1> QED BY <1>2, <1>5, <1>6 DEF HandsOf, S, T, s, u, v, x

\* Only the records of the nodes the calls own count.
LEMMA HandsSame ==
  ASSUME NEW b \in Seq(Frame), NEW r, NEW q, \A n \in HeldSet(b) : n # NULL => q[n] = r[n]
  PROVE  HandsOf(b, q) = HandsOf(b, r)
<1>1. ASSUME NEW i \in 1 .. Len(b) PROVE HandOf(b[i], q) = HandOf(b[i], r)
  <2>1. HeldNode(b[i]) \in HeldSet(b)
    BY DEF HeldSet
  <2> QED BY <2>1 DEF HandOf
<1>2. HandList(b, q) = HandList(b, r)
  BY <1>1 DEF HandList
<1> QED BY <1>2 DEF HandsOf

\* What the calls below the innermost one own, and have in their hands.
LEMMA BelowHands ==
  ASSUME NEW c, Good(c), stack # << >>
  PROVE  /\ stack = Append(Below(stack), Top) /\ Top \in Frame /\ Below(stack) \in Seq(Frame)
         /\ HandsOf(stack, rec) = HandsOf(Below(stack), rec) \o HandOf(Top, rec)
         /\ HandsOf(Below(stack), rec) \in Seq(Records(rec))
         /\ \A n \in HeldSet(Below(stack)) :
              n # NULL => n \in live /\ n \notin ToSet(c) /\ n # HeldNode(Top)
<1> DEFINE b == Below(stack)
<1>1. /\ Top \in Frame /\ stack \in Seq(Frame) /\ b \in Seq(Frame)
      /\ CallsOK(b, c, next, rec, live, calls)
      /\ CanPush(b, Top, c, next, rec, live, calls)
  BY TopOf
<1>2. stack = Append(b, Top)
  <2>1. [stack EXCEPT ![Len(stack)] = Top] = Append(b, Top)
    BY <1>1, SetTopIs
  <2>2. [stack EXCEPT ![Len(stack)] = Top] = stack
    BY <1>1 DEF Top
  <2> QED BY <2>1, <2>2
<1>3. \A n \in HeldSet(b) : n # NULL => n \in live /\ n \notin ToSet(c) /\ n # HeldNode(Top)
  <2> SUFFICES ASSUME NEW i \in 1 .. Len(b), HeldNode(b[i]) # NULL
               PROVE  /\ HeldNode(b[i]) \in live /\ HeldNode(b[i]) \notin ToSet(c)
                      /\ HeldNode(b[i]) # HeldNode(Top)
    BY DEF HeldSet
  <2>1. Owned(b, c, live)
    BY <1>1 DEF CallsOK
  <2>2. HeldNode(b[i]) \in live \ ToSet(c)
    BY <2>1 DEF Owned
  <2>3. HeldNode(b[i]) # HeldNode(Top)
    BY <1>1 DEF CanPush
  <2> QED BY <2>2, <2>3
<1> HIDE DEF b
<1>4. /\ HandsOf(Append(b, Top), rec) = HandsOf(b, rec) \o HandOf(Top, rec)
      /\ HandsOf(b, rec) \in Seq(Records(rec))
  BY <1>1, HandsPush
<1> QED BY <1>1, <1>2, <1>3, <1>4 DEF b

\* A step keeps the records of what is allocated, but for the list c and the
\* node of the innermost call.
KeepsRecords(c) ==
  \A n \in live : n \notin ToSet(c) /\ n # HeldNode(Top) => rec'[n] = rec[n]

\* The innermost call goes on as g.
LEMMA SetHands ==
  ASSUME NEW c, Good(c), stack # << >>, NEW g \in Frame, SetTop(g), KeepsRecords(c)
  PROVE  HandsOf(stack', rec') = HandsOf(Below(stack), rec) \o HandOf(g, rec')
<1> DEFINE b == Below(stack)
<1>1. stack \in Seq(Frame) /\ b \in Seq(Frame)
      /\ \A n \in HeldSet(b) : n # NULL => n \in live /\ n \notin ToSet(c) /\ n # HeldNode(Top)
  BY TopOf, BelowHands
<1>2. stack' = Append(b, g)
  BY <1>1, SetTopIs DEF SetTop
<1>3. \A n \in HeldSet(b) : n # NULL => rec'[n] = rec[n]
  BY <1>1 DEF KeepsRecords
<1> HIDE DEF b
<1>4. HandsOf(b, rec') = HandsOf(b, rec)
  BY <1>1, <1>3, HandsSame
<1>5. HandsOf(Append(b, g), rec') = HandsOf(b, rec') \o HandOf(g, rec')
  BY <1>1, HandsPush
<1> QED BY <1>2, <1>4, <1>5 DEF b

\* It has freed node n: a call with a stale place has the same in its hands.
LEMMA SetHandsFree ==
  ASSUME NEW c, Good(c), stack # << >>, NEW g \in Frame, NEW n,
         stack' = Append(Marked(Below(stack), n), g), KeepsRecords(c)
  PROVE  HandsOf(stack', rec') = HandsOf(Below(stack), rec) \o HandOf(g, rec')
<1> DEFINE b == Below(stack)
           m == Marked(b, n)
<1>1. stack \in Seq(Frame) /\ b \in Seq(Frame)
      /\ \A x \in HeldSet(b) : x # NULL => x \in live /\ x \notin ToSet(c) /\ x # HeldNode(Top)
  BY TopOf, BelowHands
<1>2. \A x \in HeldSet(b) : x # NULL => rec'[x] = rec[x]
  BY <1>1 DEF KeepsRecords
<1> HIDE DEF b
<1>3. HandsOf(b, rec') = HandsOf(b, rec)
  BY <1>1, <1>2, HandsSame
<1>4. m \in Seq(Frame) /\ HandsOf(m, rec') = HandsOf(b, rec')
  <2>1. m \in Seq(Frame) /\ Len(m) = Len(b)
        /\ \A i \in 1 .. Len(b) : m[i].op = b[i].op /\ HeldNode(m[i]) = HeldNode(b[i])
    BY <1>1, MarkedIs
  <2> HIDE DEF m
  <2>2. \A i \in 1 .. Len(b) : HandOf(m[i], rec') = HandOf(b[i], rec')
    BY <2>1 DEF HandOf
  <2>3. HandList(m, rec') = HandList(b, rec')
    BY <2>1, <2>2 DEF HandList
  <2> QED BY <2>1, <2>3 DEF HandsOf
<1> HIDE DEF m
<1>5. HandsOf(Append(m, g), rec') = HandsOf(m, rec') \o HandOf(g, rec')
  BY <1>4, HandsPush
<1> QED BY <1>3, <1>4, <1>5 DEF b, m

\* It ends.
LEMMA PopHands ==
  ASSUME NEW c, Good(c), stack # << >>, Pop, KeepsRecords(c)
  PROVE  HandsOf(stack', rec') = HandsOf(Below(stack), rec)
<1> DEFINE b == Below(stack)
<1>1. b \in Seq(Frame)
      /\ \A n \in HeldSet(b) : n # NULL => n \in live /\ n \notin ToSet(c) /\ n # HeldNode(Top)
  BY BelowHands
<1>2. \A n \in HeldSet(b) : n # NULL => rec'[n] = rec[n]
  BY <1>1 DEF KeepsRecords
<1> HIDE DEF b
<1>3. HandsOf(b, rec') = HandsOf(b, rec)
  BY <1>1, <1>2, HandsSame
<1>4. stack' = b
  BY DEF Pop, Below, b
<1> QED BY <1>3, <1>4 DEF b

\* A call begins with nothing in its hands.
LEMMA PushHands ==
  ASSUME NEW c, Good(c), NEW g \in Frame, Push(g), HandOf(g, rec') = << >>,
         \A n \in live : rec'[n] = rec[n]
  PROVE  HandsOf(stack', rec') = HandsOf(stack, rec)
<1>1. stack \in Seq(Frame) /\ Owned(stack, c, live)
  BY DEF Good, CallsOK
<1>2. \A n \in HeldSet(stack) : n # NULL => rec'[n] = rec[n]
  BY <1>1 DEF Owned, HeldSet
<1>3. HandsOf(stack, rec') = HandsOf(stack, rec)
  BY <1>1, <1>2, HandsSame
<1>4. /\ HandsOf(Append(stack, g), rec') = HandsOf(stack, rec') \o << >>
      /\ HandsOf(stack, rec') \in Seq(Records(rec'))
  BY <1>1, HandsPush
<1>5. HandsOf(stack, rec') \o << >> = HandsOf(stack, rec')
  BY <1>4
<1> QED BY <1>3, <1>4, <1>5 DEF Push

\* A call that a good state holds on top of those in progress is one.
LEMMA TopFrame ==
  ASSUME NEW c, Good(c), NEW d, Good(d)', NEW g, (stack # << >> /\ SetTop(g)) \/ Push(g)
  PROVE  g \in Frame
<1>1. stack \in Seq(Frame) /\ stack' \in Seq(Frame) /\ Len(stack) \in Nat
  BY DEF Good, CallsOK
<1>2. CASE stack # << >> /\ SetTop(g)
  <2>1. Len(stack) \in 1 .. Len(stack)
    BY <1>1, <1>2, EmptySeq
  <2>2. stack' = [stack EXCEPT ![Len(stack)] = g]
    BY <1>2 DEF SetTop
  <2>3. stack'[Len(stack)] = g /\ Len(stack') = Len(stack)
    BY <1>1, <2>1, <2>2
  <2> QED BY <1>1, <2>1, <2>3, ElementOfSeq
<1>3. CASE Push(g)
  <2>1. stack' = Append(stack, g)
    BY <1>3 DEF Push
  <2>2. stack'[Len(stack) + 1] = g /\ Len(stack') = Len(stack) + 1
    BY <1>1, <2>1
  <2>3. Len(stack) + 1 \in 1 .. Len(stack')
    BY <1>1, <2>2
  <2> QED BY <1>1, <2>2, <2>3, ElementOfSeq
<1> QED BY <1>2, <1>3

-----------------------------------------------------------------------------
(* The steps of the abstract list that the steps of the queue make.        *)

\* A step of EventList, from the lists l and h to m and k, or none.
EventStep(l, h, m, k) ==
  \/ m = l /\ k = h
  \/ \E e \in Rec : \E p \in 1 .. Len(l) + 1 :
       StablePlace(l, e.time, p) /\ m = InsertAt(l, p, e) /\ k = h
  \/ \E i \in 1 .. Len(l) : m = RemoveAt(l, i) /\ (k = h \/ k = Append(h, l[i]))
  \/ h # << >> /\ m = l /\ k = Front(h)
  \/ /\ h # << >> /\ k = Front(h)
     /\ \E p \in 1 .. Len(l) + 1 :
          OrderedPlace(l, Last(h).time, p) /\ m = InsertAt(l, p, Last(h))
  \/ m = << >> /\ k = h

\* The step of the queue that leads from the list c to d is one.
Shows(c, d) ==
  EventStep(EventsOf(c, rec), HandsOf(stack, rec), EventsOf(d, rec'), HandsOf(stack', rec'))

\* A list with one more at its end, or none.
LEMMA ListEnds ==
  ASSUME NEW S, NEW s \in Seq(S), NEW x \in S
  PROVE  /\ s \o << >> = s /\ s \o << x >> = Append(s, x)
         /\ s \o << x >> # << >> /\ Front(s \o << x >>) = s /\ Last(s \o << x >>) = x
<1> DEFINE t == Append(s, x)
           n == Len(s)
<1>1. s \o << >> = s
  OBVIOUS
<1>2. s \o << x >> = t
  OBVIOUS
<1>3. t \in Seq(S) /\ Len(t) = n + 1 /\ n \in Nat /\ t[n + 1] = x /\ \A i \in 1 .. n : t[i] = s[i]
  BY AppendProperties
<1> HIDE DEF t
<1>4. t # << >>
  BY <1>3, EmptySeq
<1>5. Last(t) = x
  BY <1>3 DEF Last
<1>6. Front(t) = s
  <2>1. Len(t) - 1 = n
    BY <1>3
  <2> DEFINE f == SubSeq(t, 1, n)
  <2>2. \A i \in 1 .. n : t[i] \in S
    BY <1>3, ElementOfSeq
  <2> HIDE DEF n
  <2>3. f \in Seq(S) /\ Len(f) = n /\ \A i \in 1 .. n : f[i] = t[i]
    BY <1>3, <2>2
  <2> HIDE DEF f
  <2>4. f = s
    BY <1>3, <2>3, SeqEqual DEF n
  <2> QED BY <2>1, <2>4 DEF Front, f
<1>7. s \o << x >> # << >> /\ Front(s \o << x >>) = s /\ Last(s \o << x >>) = x
  BY <1>2, <1>4, <1>5, <1>6, Zenon
<1> QED BY <1>1, <1>2, <1>7 DEF t

\* Nothing happens to the abstract list.
LEMMA QuietStep ==
  ASSUME NEW c, Good(c), Good(c)', \A n \in live : rec'[n] = rec[n],
         HandsOf(stack', rec') = HandsOf(stack, rec)
  PROVE  Shows(c, c)
<1>1. c \in Seq(Node) /\ ToSet(c) \subseteq live
  BY DEF Good, Linked, Links
<1>2. EventsOf(c, rec') = EventsOf(c, rec)
  BY <1>1, EventsSame
<1> QED BY <1>2 DEF Shows, EventStep

\* The innermost call goes on, with the same in its hands.
LEMMA QuietSet ==
  ASSUME NEW c, Good(c), Good(c)', stack # << >>, NEW g, SetTop(g),
         HandOf(g, rec) = HandOf(Top, rec), UNCHANGED rec
  PROVE  Shows(c, c)
<1>1. g \in Frame
  BY TopFrame
<1>2. KeepsRecords(c)
  BY DEF KeepsRecords
<1>3. HandsOf(stack', rec') = HandsOf(Below(stack), rec) \o HandOf(g, rec')
  BY <1>1, <1>2, SetHands
<1>4. HandsOf(stack, rec) = HandsOf(Below(stack), rec) \o HandOf(Top, rec)
  BY BelowHands
<1>5. HandsOf(stack', rec') = HandsOf(stack, rec)
  BY <1>1, <1>3, <1>4
<1> QED BY <1>5, QuietStep

\* It ends, with nothing in its hands.
LEMMA QuietPop ==
  ASSUME NEW c, Good(c), Good(c)', stack # << >>, Pop, HandOf(Top, rec) = << >>, UNCHANGED rec
  PROVE  Shows(c, c)
<1>1. KeepsRecords(c)
  BY DEF KeepsRecords
<1>2. HandsOf(stack', rec') = HandsOf(Below(stack), rec)
  BY <1>1, PopHands
<1>3. HandsOf(stack, rec) = HandsOf(Below(stack), rec) \o << >>
      /\ HandsOf(Below(stack), rec) \in Seq(Records(rec))
  BY BelowHands
<1>4. HandsOf(stack', rec') = HandsOf(stack, rec)
  BY <1>2, <1>3
<1> QED BY <1>4, QuietStep

\* A call begins, with nothing in its hands.
LEMMA QuietPush ==
  ASSUME NEW c, Good(c), Good(c)', NEW g, Push(g), HandOf(g, rec') = << >>,
         \A n \in live : rec'[n] = rec[n]
  PROVE  Shows(c, c)
<1>1. g \in Frame
  BY TopFrame
<1>2. HandsOf(stack', rec') = HandsOf(stack, rec)
  BY <1>1, PushHands
<1> QED BY <1>2, QuietStep

\* The call f goes on as g, with its pointers moved to x and y.
WalksTo(f, x, y, g) == g = [f EXCEPT !.ptr = x] \/ g = [f EXCEPT !.ptr = x, !.curr = y]

\* It has the same in its hands.
LEMMA SameHands ==
  ASSUME NEW f \in Frame, f.op # "process", NEW x, NEW y, NEW g, WalksTo(f, x, y, g), NEW r
  PROVE  HandOf(g, r) = HandOf(f, r)
<1>1. g.op = f.op /\ (f.op = "clear" => g.tmp = f.tmp)
  BY DEF Frame, WalksTo
<1> QED BY <1>1 DEF HandOf, HeldNode

\* The walks, the calls that begin, and those that end, show nothing.
LEMMA QuietWalks ==
  ASSUME NEW c, Good(c), UNCHANGED calls, AddWalk \/ RemoveSkip \/ ClearSkip
  PROVE  Shows(c, c)
<1>1. Good(c)'
  BY AddWalkStep, RemoveSkipStep, ClearSkipStep DEF Leads
<1>2. CASE AddWalk
  <2> DEFINE g == [Top EXCEPT !.ptr = next[Top.ptr]]
  <2>1. stack # << >> /\ Top.op # "process" /\ SetTop(g) /\ UNCHANGED rec /\ Top \in Frame
    BY <1>2, TopOf DEF AddWalk, Running
  <2>2. WalksTo(Top, next[Top.ptr], NULL, g)
    BY DEF WalksTo
  <2> HIDE DEF g
  <2>3. HandOf(g, rec) = HandOf(Top, rec)
    BY <2>1, <2>2, SameHands
  <2> QED BY <1>1, <2>1, <2>3, QuietSet
<1>3. CASE RemoveSkip \/ ClearSkip
  <2> DEFINE g == [Top EXCEPT !.ptr = Top.curr, !.curr = next[Top.curr]]
  <2>1. stack # << >> /\ Top.op # "process" /\ SetTop(g) /\ UNCHANGED rec /\ Top \in Frame
    BY <1>3, TopOf DEF RemoveSkip, ClearSkip, Running
  <2>2. WalksTo(Top, Top.curr, next[Top.curr], g)
    BY DEF WalksTo
  <2> HIDE DEF g
  <2>3. HandOf(g, rec) = HandOf(Top, rec)
    BY <2>1, <2>2, SameHands
  <2> QED BY <1>1, <2>1, <2>3, QuietSet
<1> QED BY <1>2, <1>3

\* No call begins with an event in its hands.
LEMMA QuietBegins ==
  ASSUME NEW c, Good(c), UNCHANGED calls,
         \/ \E t \in Time, ty \in Type, o \in Owner : QueueAdd(t, ty, o)
         \/ \E o \in Owner, ty \in Type \cup {ANY} : QueueRemove(o, ty)
         \/ QueueProcess
         \/ \E ty \in Type, hasFn \in BOOLEAN : QueueClearType(ty, hasFn)
  PROVE  Shows(c, c)
<1>1. Good(c)'
  BY QueueAddStep, QueueRemoveStep, QueueProcessStep, QueueClearTypeStep DEF Leads
<1>2. CASE \E t \in Time, ty \in Type, o \in Owner : QueueAdd(t, ty, o)
  <2>1. PICK t \in Time, ty \in Type, o \in Owner : QueueAdd(t, ty, o)
    BY <1>2
  <2>2. PICK n \in Node \ live :
          /\ rec' = [rec EXCEPT ![n] = [time |-> t, type |-> ty, owner |-> o]]
          /\ Push([op |-> "add", ptr |-> HEAD, node |-> n])
    BY <2>1 DEF QueueAdd
  <2> DEFINE g == [op |-> "add", ptr |-> HEAD, node |-> n]
  <2>3. Push(g) /\ HandOf(g, rec') = << >>
    BY <2>2 DEF HandOf
  <2>4. \A m \in live : rec'[m] = rec[m]
    BY <2>2 DEF Good, Typed
  <2> HIDE DEF g
  <2> QED BY <1>1, <2>3, <2>4, QuietPush
<1>3. CASE \E o \in Owner, ty \in Type \cup {ANY} : QueueRemove(o, ty)
  <2>1. PICK o \in Owner, ty \in Type \cup {ANY} : QueueRemove(o, ty)
    BY <1>3
  <2> DEFINE g == [op |-> "remove", ptr |-> HEAD, curr |-> next[HEAD], owner |-> o, type |-> ty]
  <2>2. Push(g) /\ HandOf(g, rec') = << >> /\ UNCHANGED rec
    BY <2>1 DEF QueueRemove, HandOf
  <2> HIDE DEF g
  <2> QED BY <1>1, <2>2, QuietPush
<1>4. CASE QueueProcess
  <2> DEFINE g == [op |-> "process", now |-> clock, rc |-> 0, node |-> NULL]
  <2>1. Push(g) /\ HandOf(g, rec') = << >> /\ UNCHANGED rec
    BY <1>4 DEF QueueProcess, HandOf, HeldNode
  <2> HIDE DEF g
  <2> QED BY <1>1, <2>1, QuietPush
<1>5. CASE \E ty \in Type, hasFn \in BOOLEAN : QueueClearType(ty, hasFn)
  <2>1. PICK ty \in Type, hasFn \in BOOLEAN : QueueClearType(ty, hasFn)
    BY <1>5
  <2> DEFINE g == [op |-> "clear", type |-> ty, fn |-> hasFn,
                   ptr |-> HEAD, curr |-> next[HEAD], tmp |-> NULL, stale |-> FALSE]
  <2>2. Push(g) /\ HandOf(g, rec') = << >> /\ UNCHANGED rec
    BY <2>1 DEF QueueClearType, HandOf, HeldNode
  <2> HIDE DEF g
  <2> QED BY <1>1, <2>2, QuietPush
<1> QED BY <1>2, <1>3, <1>4, <1>5

\* Nor does one end with an event in its hands.
LEMMA QuietEnds ==
  ASSUME NEW c, Good(c), UNCHANGED calls, RemoveDone \/ ProcessDone \/ ClearDone
  PROVE  Shows(c, c)
<1>1. Good(c)'
  BY DoneStep DEF Leads
<1>2. stack # << >> /\ Pop /\ UNCHANGED rec /\ HandOf(Top, rec) = << >>
  BY DEF RemoveDone, ProcessDone, ClearDone, Running, HandOf, HeldNode
<1> QED BY <1>1, <1>2, QuietPop

\* queue_add links its node: an event is inserted.
LEMMA InsertShows ==
  ASSUME NEW c, Good(c), AddLink, UNCHANGED calls
  PROVE  \E d : Good(d)' /\ Shows(c, d)
<1> DEFINE l == EventsOf(c, rec)
           h == HandsOf(stack, rec)
<1>1. PICK n : n = Top.node
  OBVIOUS
<1>2. PICK a \in 0 .. Len(c), d \in Seq(Node) :
        /\ d = InsertAt(c, a + 1, n) /\ Leads(c, d)
        /\ a > 0 => rec[c[a]].time <= rec[n].time
        /\ a + 1 <= Len(c) => rec[n].time < rec[c[a + 1]].time
  BY <1>1, AddLinkStep
<1>3. stack # << >> /\ Top.op = "add" /\ Pop /\ UNCHANGED rec /\ HandOf(Top, rec) = << >>
  BY DEF AddLink, Running, HandOf
<1>4. c \in Seq(Node) /\ Len(c) \in Nat /\ a + 1 \in 1 .. Len(c) + 1
  BY NodesOf DEF Good, Linked, Links
<1>5. n \in Node /\ rec[n] \in Rec
  <2>1. Top \in Frame /\ (HeldNode(Top) # NULL => HeldNode(Top) \in live)
    BY <1>3, TopOf
  <2>2. HeldNode(Top) = n /\ n \in Node /\ n # NULL
    BY <1>1, <1>3, <2>1, FrameFields, PointerAssumption DEF HeldNode
  <2> QED BY <2>1, <2>2 DEF Good, Typed
<1>6. EventsOf(d, rec') = InsertAt(l, a + 1, rec[n])
  BY <1>2, <1>3, <1>4, <1>5, EventsInsert
<1>7. StablePlace(l, rec[n].time, a + 1)
  <2>1. Len(l) = Len(c) /\ \A k \in 1 .. Len(c) : l[k] = rec[c[k]]
    BY <1>4, EventsIndex
  <2> DEFINE p == a + 1
  <2>2. p \in 1 .. Len(c) + 1 /\ p - 1 = a /\ (p > 1 => a \in 1 .. Len(c) /\ a > 0)
        /\ (p <= Len(c) => p \in 1 .. Len(c))
    BY <1>4
  <2>3. (p > 1 => l[a].time <= rec[n].time) /\ (p <= Len(c) => rec[n].time < l[p].time)
    BY <1>2, <2>1, <2>2
  <2> HIDE DEF l, p
  <2>4. StablePlace(l, rec[n].time, p)
    BY <2>1, <2>2, <2>3 DEF StablePlace
  <2> QED BY <2>4 DEF l, p
<1>8. HandsOf(stack', rec') = h
  <2>1. KeepsRecords(c)
    BY <1>3 DEF KeepsRecords
  <2>2. HandsOf(stack', rec') = HandsOf(Below(stack), rec)
    BY <1>3, <2>1, PopHands
  <2>3. h = HandsOf(Below(stack), rec) \o << >> /\ HandsOf(Below(stack), rec) \in Seq(Records(rec))
    BY <1>3, BelowHands
  <2> HIDE DEF h
  <2> QED BY <2>2, <2>3
<1>9. a + 1 \in 1 .. Len(l) + 1
  BY <1>4, EventsIndex
<1> HIDE DEF l, h
<1>10. EventStep(l, h, EventsOf(d, rec'), HandsOf(stack', rec'))
  BY <1>5, <1>6, <1>7, <1>8, <1>9 DEF EventStep
<1> QED BY <1>2, <1>10 DEF Shows, Leads, l, h

\* An event is unlinked and freed: it is deleted.
LEMMA DeleteShows ==
  ASSUME NEW c, Good(c), Deletes(c), stack # << >>, "add" \notin calls
  PROVE  \E d : Good(d)' /\ Shows(c, d)
<1> DEFINE l == EventsOf(c, rec)
           h == HandsOf(stack, rec)
<1>1. PICK a, e, d : \E g \in Frame :
        /\ UnlinkStep(c, a, e, d) /\ FreeNode(c[e])
        /\ stack' = Append(Marked(Below(stack), c[e]), g)
        /\ HeldNode(Top) = NULL /\ HeldNode(g) = NULL
  BY DEF Deletes
<1>2. PICK g \in Frame : /\ stack' = Append(Marked(Below(stack), c[e]), g)
                         /\ HeldNode(Top) = NULL /\ HeldNode(g) = NULL
  BY <1>1
<1>3. c \in Seq(Node) /\ Len(c) \in Nat /\ ToSet(c) \subseteq live /\ \A i \in 1 .. Len(c) : c[i] \in ToSet(c)
  BY NodesOf DEF Good, Linked, Links
<1>4. a \in 0 .. Len(c) /\ e \in 1 .. Len(c) /\ e = a + 1 /\ d = Cut(c, a, e) /\ Good(d)'
  BY <1>1, <1>3 DEF UnlinkStep, Unlinks
<1>5. DOMAIN rec = Node /\ live \subseteq Node
  BY DEF Good, Typed
<1>6. \A n \in live : n # c[e] => rec'[n] = rec[n]
  BY <1>1, <1>5 DEF FreeNode
<1>7. EventsOf(d, rec') = RemoveAt(l, e)
  <2>1. d \in Seq(Node) /\ ToSet(d) \subseteq live'
    BY <1>4 DEF Good, Linked, Links
  <2>2. live' = live \ {c[e]}
    BY <1>1 DEF FreeNode
  <2>3. \A n \in ToSet(d) : rec'[n] = rec[n]
    BY <1>6, <2>1, <2>2
  <2>4. EventsOf(d, rec') = EventsOf(d, rec)
    BY <2>1, <2>3, EventsSame
  <2>5. EventsOf(Cut(c, a, e), rec) = RemoveAt(l, e)
    BY <1>3, <1>4, EventsCut
  <2> QED BY <1>4, <2>4, <2>5
<1>8. HandsOf(stack', rec') = h
  <2>1. KeepsRecords(c)
    BY <1>3, <1>4, <1>6 DEF KeepsRecords
  <2>2. HandsOf(stack', rec') = HandsOf(Below(stack), rec) \o HandOf(g, rec')
    BY <1>2, <2>1, SetHandsFree
  <2>3. h = HandsOf(Below(stack), rec) \o HandOf(Top, rec)
    BY BelowHands
  <2>4. HandOf(g, rec') = << >> /\ HandOf(Top, rec) = << >>
    BY <1>2 DEF HandOf
  <2> QED BY <2>2, <2>3, <2>4
<1>9. e \in 1 .. Len(l)
  BY <1>3, <1>4, EventsIndex
<1> HIDE DEF l, h
<1>10. EventStep(l, h, EventsOf(d, rec'), HandsOf(stack', rec'))
  BY <1>7, <1>8, <1>9 DEF EventStep
<1> QED BY <1>4, <1>10 DEF Shows, l, h

\* An event is unlinked for a handler or a callback: it is taken.
LEMMA TakeShows ==
  ASSUME NEW c, Good(c), Takes(c), stack # << >>, "add" \notin calls
  PROVE  \E d : Good(d)' /\ Shows(c, d)
<1> DEFINE l == EventsOf(c, rec)
           h == HandsOf(stack, rec)
<1>1. PICK a, e, d : \E g \in Frame :
        /\ UnlinkStep(c, a, e, d) /\ UNCHANGED << live, rec >>
        /\ SetTop(g) /\ HeldNode(Top) = NULL /\ HeldNode(g) = c[e]
        /\ g.op = Top.op /\ Top.op \in {"process", "clear"}
  BY DEF Takes
<1>2. PICK g \in Frame :
        /\ SetTop(g) /\ HeldNode(Top) = NULL /\ HeldNode(g) = c[e]
        /\ g.op = Top.op /\ Top.op \in {"process", "clear"}
  BY <1>1
<1>3. c \in Seq(Node) /\ Len(c) \in Nat /\ \A i \in 1 .. Len(c) : c[i] \in Node /\ c[i] # NULL
  BY NodesOf DEF Good, Linked, Links
<1>4. a \in 0 .. Len(c) /\ e \in 1 .. Len(c) /\ e = a + 1 /\ d = Cut(c, a, e) /\ Good(d)'
  BY <1>1, <1>3 DEF UnlinkStep, Unlinks
<1>5. UNCHANGED rec
  BY <1>1
<1>6. EventsOf(d, rec') = RemoveAt(l, e)
  <2>1. EventsOf(Cut(c, a, e), rec) = RemoveAt(l, e)
    BY <1>3, <1>4, EventsCut
  <2> QED BY <1>4, <1>5, <2>1
<1>7. e \in 1 .. Len(l) /\ l[e] = rec[c[e]]
  BY <1>3, <1>4, EventsIndex
<1>8. HandsOf(stack', rec') = Append(h, l[e])
  <2>1. KeepsRecords(c)
    BY <1>5 DEF KeepsRecords
  <2> DEFINE u == HandsOf(Below(stack), rec)
             S == Records(rec)
             x == rec[c[e]]
  <2>2. HandsOf(stack', rec') = u \o HandOf(g, rec')
    BY <1>2, <2>1, SetHands
  <2>3. h = u \o HandOf(Top, rec) /\ u \in Seq(S)
    BY BelowHands
  <2>4. HandOf(g, rec') = << x >> /\ HandOf(Top, rec) = << >>
    BY <1>2, <1>3, <1>4, <1>5 DEF HandOf
  <2>5. x \in S
    BY <1>3, <1>4 DEF Records
  <2> HIDE DEF u, S, x
  <2>6. u \o << >> = u /\ u \o << x >> = Append(u, x)
    BY <2>3, <2>5, ListEnds
  <2>7. h = u
    BY <2>3, <2>4, <2>6
  <2>8. x = l[e]
    BY <1>7 DEF x
  <2> HIDE DEF h, l
  <2> QED BY <2>2, <2>4, <2>6, <2>7, <2>8
<1> HIDE DEF l, h
<1>9. EventStep(l, h, EventsOf(d, rec'), HandsOf(stack', rec'))
  BY <1>6, <1>7, <1>8 DEF EventStep
<1> QED BY <1>4, <1>9 DEF Shows, l, h

\* The event a handler or a callback has run for is freed: it is dropped.
LEMMA DropShows ==
  ASSUME NEW c, Good(c), Good(c)', stack # << >>, Top.op \in {"process", "clear"},
         NEW n, n = HeldNode(Top), n # NULL, FreeNode(n), NEW g \in Frame, SetTopFree(g, n),
         HeldNode(g) = NULL
  PROVE  Shows(c, c)
<1> DEFINE l == EventsOf(c, rec)
           h == HandsOf(stack, rec)
           u == HandsOf(Below(stack), rec)
           S == Records(rec)
           x == rec[n]
<1>1. stack' = Append(Marked(Below(stack), n), g)
  BY SetTopFreeIs
<1>2. c \in Seq(Node) /\ ToSet(c) \subseteq live /\ DOMAIN rec = Node /\ live \subseteq Node
  BY DEF Good, Linked, Links, Typed
<1>3. n \in live /\ n \notin ToSet(c)
  BY TopOf
<1>4. \A m \in live : m # n => rec'[m] = rec[m]
  BY <1>2 DEF FreeNode
<1>5. EventsOf(c, rec') = l
  <2>1. \A m \in ToSet(c) : rec'[m] = rec[m]
    BY <1>2, <1>3, <1>4
  <2> QED BY <1>2, <2>1, EventsSame
<1>6. h = u \o << x >> /\ u \in Seq(S) /\ x \in S
  <2>1. HandOf(Top, rec) = << x >>
    BY DEF HandOf
  <2>2. x \in S
    BY <1>2, <1>3 DEF Records
  <2> QED BY <2>1, <2>2, BelowHands
<1>7. HandsOf(stack', rec') = u \o << >>
  <2>1. KeepsRecords(c)
    BY <1>4 DEF KeepsRecords
  <2>2. HandOf(g, rec') = << >>
    BY DEF HandOf
  <2>3. HandsOf(stack', rec') = u \o HandOf(g, rec')
    BY <1>1, <2>1, SetHandsFree
  <2> QED BY <2>2, <2>3
<1> HIDE DEF l, h, u, S, x
<1>8. h # << >> /\ HandsOf(stack', rec') = Front(h)
  <2>1. /\ u \o << >> = u
        /\ u \o << x >> # << >> /\ Front(u \o << x >>) = u
    BY <1>6, ListEnds
  <2> QED BY <1>6, <1>7, <2>1
<1>9. EventStep(l, h, EventsOf(c, rec'), HandsOf(stack', rec'))
  BY <1>5, <1>8 DEF EventStep
<1> QED BY <1>9 DEF Shows, l, h

\* The event a callback keeps is linked back: it is restored.
LEMMA RestoreShows ==
  ASSUME NEW c, Good(c), ClearKeep, UNCHANGED calls, "add" \notin calls
  PROVE  \E d : Good(d)' /\ Shows(c, d)
<1> DEFINE l == EventsOf(c, rec)
           h == HandsOf(stack, rec)
           u == HandsOf(Below(stack), rec)
           S == Records(rec)
<1>1. PICK n : n = Top.tmp
  OBVIOUS
<1>2. PICK a \in 0 .. Len(c) : \E m \in a .. Len(c), d \in Seq(Node), g \in Frame :
        /\ n # NULL /\ Top.op = "clear" /\ SetTop(g) /\ HeldNode(g) = NULL
        /\ d = InsertAt(Cut(c, a, m), a + 1, n) /\ Good(d)'
        /\ m = a
        /\ a > 0 => rec[c[a]].time <= rec[n].time
        /\ a + 1 <= Len(c) => rec[n].time <= rec[c[a + 1]].time
  BY <1>1, ClearKeepStep
<1>3. PICK d \in Seq(Node), g \in Frame :
        /\ n # NULL /\ Top.op = "clear" /\ SetTop(g) /\ HeldNode(g) = NULL
        /\ d = InsertAt(Cut(c, a, a), a + 1, n) /\ Good(d)'
  BY <1>2
<1>4. stack # << >> /\ UNCHANGED rec
  BY DEF ClearKeep, Resumes, InCallback, Running
<1>5. c \in Seq(Node) /\ Len(c) \in Nat /\ a + 1 \in 1 .. Len(c) + 1
  BY NodesOf DEF Good, Linked, Links
<1>6. n \in Node /\ HandOf(Top, rec) = << rec[n] >>
  <2>1. HeldNode(Top) = n
    BY <1>1, <1>3 DEF HeldNode
  <2>2. n \in live
    BY <1>3, <1>4, <2>1, TopOf
  <2>3. n \in Node
    BY <2>2 DEF Good, Typed
  <2> QED BY <1>3, <2>1, <2>3 DEF HandOf
<1> DEFINE x == rec[n]
<1>7. EventsOf(d, rec') = InsertAt(l, a + 1, x)
  <2>1. d = InsertAt(c, a + 1, n)
    BY <1>3, <1>5, CutNone
  <2> QED BY <1>4, <1>5, <1>6, <2>1, EventsInsert
<1>8. OrderedPlace(l, x.time, a + 1)
  <2>1. Len(l) = Len(c) /\ \A k \in 1 .. Len(c) : l[k] = rec[c[k]]
    BY <1>5, EventsIndex
  <2> DEFINE p == a + 1
  <2>2. p \in 1 .. Len(c) + 1 /\ p - 1 = a /\ (p > 1 => a \in 1 .. Len(c) /\ a > 0)
        /\ (p <= Len(c) => p \in 1 .. Len(c))
    BY <1>5
  <2>3. (p > 1 => l[a].time <= x.time) /\ (p <= Len(c) => x.time <= l[p].time)
    BY <1>2, <2>1, <2>2
  <2> HIDE DEF l, p, x
  <2>4. OrderedPlace(l, x.time, p)
    BY <2>1, <2>2, <2>3 DEF OrderedPlace
  <2> QED BY <2>4 DEF l, p
<1>9. h = u \o << x >> /\ u \in Seq(S) /\ x \in S
  <2>1. x \in S
    BY <1>6 DEF Records
  <2> QED BY <1>4, <1>6, <2>1, BelowHands
<1>10. HandsOf(stack', rec') = u \o << >>
  <2>1. KeepsRecords(c)
    BY <1>4 DEF KeepsRecords
  <2>2. HandOf(g, rec') = << >>
    BY <1>3 DEF HandOf
  <2>3. HandsOf(stack', rec') = u \o HandOf(g, rec')
    BY <1>3, <1>4, <2>1, SetHands
  <2> QED BY <2>2, <2>3
<1>11. a + 1 \in 1 .. Len(l) + 1
  BY <1>5, EventsIndex
<1> HIDE DEF l, h, u, S, x
<1>12. h # << >> /\ HandsOf(stack', rec') = Front(h) /\ Last(h) = x
  <2>1. /\ u \o << >> = u
        /\ u \o << x >> # << >> /\ Front(u \o << x >>) = u /\ Last(u \o << x >>) = x
    BY <1>9, ListEnds
  <2> QED BY <1>9, <1>10, <2>1
<1>13. EventStep(l, h, EventsOf(d, rec'), HandsOf(stack', rec'))
  BY <1>7, <1>8, <1>11, <1>12 DEF EventStep
<1> QED BY <1>3, <1>13 DEF Shows, l, h

\* queue_clear: the list is cleared.
LEMMA ClearShows ==
  ASSUME NEW c, Good(c), QueueClear, UNCHANGED calls
  PROVE  Good(<< >>)' /\ Shows(c, << >>)
<1>1. Good(<< >>)'
  BY QueueClearStep DEF Leads
<1>2. stack = << >> /\ stack' = << >>
  BY DEF QueueClear
<1>3. EventsOf(<< >>, rec') = << >>
  BY DEF EventsOf
<1>4. HandsOf(<< >>, rec') = HandsOf(<< >>, rec)
  <2>1. << >> \in Seq(Frame) /\ HeldSet(<< >>) = {}
    BY DEF HeldSet
  <2> QED BY <2>1, HandsSame
<1> QED BY <1>1, <1>2, <1>3, <1>4 DEF Shows, EventStep

\* The handler, or the callback, says that the event may go.
LEMMA DropSteps ==
  ASSUME NEW c, Good(c), UNCHANGED calls, (\E rc \in 0 .. 1 : HandlerReturn(rc)) \/ ClearFree
  PROVE  Good(c)' /\ Shows(c, c)
<1>1. Good(c)'
  BY HandlerReturnStep, ClearFreeStep DEF Leads
<1>2. CASE \E rc \in 0 .. 1 : HandlerReturn(rc)
  <2>1. PICK rc \in 0 .. 1 : HandlerReturn(rc)
    BY <1>2
  <2> DEFINE n == Top.node
             g == [Top EXCEPT !.node = NULL, !.rc = rc]
  <2>2. /\ stack # << >> /\ Top.op = "process" /\ n # NULL /\ n = HeldNode(Top)
        /\ FreeNode(n) /\ SetTopFree(g, n)
    BY <2>1 DEF HandlerReturn, InHandler, Running, HeldNode
  <2>3. g \in Frame /\ HeldNode(g) = NULL
    <3>1. Top \in Frame /\ NULL \in Link /\ ProcessTo(Top, NULL, rc, g)
      BY <2>2, TopOf DEF Link, ProcessTo
    <3> HIDE DEF g
    <3>2. g \in Frame /\ g.op = "process" /\ g.node = NULL
      BY <2>2, <3>1, ProcessFrame
    <3> QED BY <3>2 DEF HeldNode
  <2> HIDE DEF g, n
  <2>4. Shows(c, c)
    BY <1>1, <2>2, <2>3, DropShows
  <2> QED BY <1>1, <2>4
<1>3. CASE ClearFree
  <2> DEFINE n == Top.tmp
             g == [Top EXCEPT !.tmp = NULL]
  <2>2. /\ stack # << >> /\ Top.op = "clear" /\ n # NULL /\ n = HeldNode(Top)
        /\ FreeNode(n) /\ SetTopFree(g, n)
    BY <1>3 DEF ClearFree, Resumes, InCallback, Running, HeldNode
  <2>3. g \in Frame /\ HeldNode(g) = NULL
    <3>1. Top \in Frame
      BY <2>2, TopOf
    <3>2. /\ ClearTo(Top, Top.ptr, Top.curr, NULL, g)
          /\ NULL \in Link /\ Top.ptr \in Slot /\ Top.curr \in Link
      BY <2>2, <3>1, FrameFields DEF ClearTo, Link
    <3> HIDE DEF g
    <3>3. g \in Frame /\ g.op = "clear" /\ g.tmp = NULL
      BY <2>2, <3>1, <3>2, ClearFrame
    <3> QED BY <3>3 DEF HeldNode
  <2> HIDE DEF g, n
  <2>4. Shows(c, c)
    BY <1>1, <2>2, <2>3, DropShows
  <2> QED BY <1>1, <2>4
<1> QED BY <1>2, <1>3

\* Where no callback queues events every step of the queue is one of EventList,
\* or none.
LEMMA StepShows ==
  ASSUME NEW c, Good(c), Step, UNCHANGED calls, "add" \notin calls
  PROVE  \E d : Good(d)' /\ Shows(c, d)
<1> DEFINE P(d) == Good(d)' /\ Shows(c, d)
<1>0. ASSUME Leads(c, c), Shows(c, c) PROVE P(c)
  BY <1>0 DEF Leads
<1> HIDE DEF P
<1>1. CASE SetClock
  <2>1. UNCHANGED << rec, stack >>
    BY <1>1 DEF SetClock
  <2>2. Good(c)'
    BY <1>1, SetClockStep DEF Leads
  <2>3. Shows(c, c)
    BY <2>1, <2>2, QuietStep
  <2> QED BY <2>2, <2>3
<1>2. CASE \/ \E t \in Time, ty \in Type, o \in Owner : QueueAdd(t, ty, o)
           \/ \E o \in Owner, ty \in Type \cup {ANY} : QueueRemove(o, ty)
           \/ QueueProcess
           \/ \E ty \in Type, hasFn \in BOOLEAN : QueueClearType(ty, hasFn)
  <2>1. Leads(c, c)
    BY <1>2, QueueAddStep, QueueRemoveStep, QueueProcessStep, QueueClearTypeStep
  <2>2. Shows(c, c)
    BY <1>2, QuietBegins
  <2> QED BY <1>0, <2>1, <2>2 DEF P
<1>3. CASE AddWalk \/ RemoveSkip \/ ClearSkip
  <2>1. Leads(c, c)
    BY <1>3, AddWalkStep, RemoveSkipStep, ClearSkipStep
  <2>2. Shows(c, c)
    BY <1>3, QuietWalks
  <2> QED BY <1>0, <2>1, <2>2 DEF P
<1>4. CASE RemoveDone \/ ProcessDone \/ ClearDone
  <2>1. Leads(c, c)
    BY <1>4, DoneStep
  <2>2. Shows(c, c)
    BY <1>4, QuietEnds
  <2> QED BY <1>0, <2>1, <2>2 DEF P
<1>5. CASE AddLink
  BY <1>5, InsertShows
<1>6. CASE RemoveMatch \/ ClearMatchNoFn
  <2>1. Deletes(c) /\ stack # << >>
    BY <1>6, RemoveMatchStep, ClearMatchNoFnStep DEF RemoveMatch, ClearMatchNoFn, AtMatch, Running
  <2> QED BY <2>1, DeleteShows
<1>7. CASE ProcessPop \/ ClearMatch
  <2>1. Takes(c) /\ stack # << >>
    BY <1>7, ProcessPopStep, ClearMatchStep DEF ProcessPop, ClearMatch, AtMatch, Running
  <2> QED BY <2>1, TakeShows
<1>8. CASE (\E rc \in 0 .. 1 : HandlerReturn(rc)) \/ ClearFree
  BY <1>8, DropSteps
<1>9. CASE ClearKeep
  BY <1>9, RestoreShows
<1>10. CASE QueueClear
  BY <1>10, ClearShows
<1> QED
  BY <1>1, <1>2, <1>3, <1>4, <1>5, <1>6, <1>7, <1>8, <1>9, <1>10 DEF Step

\* The linked list implements EventList where callbacks of queue_clear_type only remove
\* events: whatever they remove, and whatever calls the handlers of queue_process nest,
\* the steps are those of a list of events in order of time, first in first out. If they
\* remove what the clearing goes on with, this is so up to its use of the freed event.
THEOREM ImplementsList ==
  ASSUME PlainCallbacks
  PROVE  Spec => ImplementsEventList
<1> DEFINE l == IF "add" \in calls THEN << >> ELSE Abstract
           h == IF "add" \in calls THEN << >>
                ELSE FlattenSeq([i \in 1 .. Len(stack) |-> HeldBy(stack[i])])
<1>1. ASSUME NEW c, Good(c), "add" \notin calls
      PROVE  l = EventsOf(c, rec) /\ h = HandsOf(stack, rec)
  <2>1. Chain = c
    BY <1>1, Readings
  <2>2. stack \in Seq(Frame)
    BY <1>1 DEF Good, CallsOK
  <2>3. ASSUME NEW i \in 1 .. Len(stack) PROVE HeldBy(stack[i]) = HandOf(stack[i], rec)
    <3>1. stack[i] \in Frame
      BY <2>2, ElementOfSeq
    <3> QED BY <3>1, FrameFields DEF HeldBy, HandOf, HeldNode
  <2> QED BY <1>1, <2>1, <2>3 DEF Abstract, EventsOf, HandsOf, HandList
<1>2. ASSUME NEW c, Good(c)', "add" \notin calls'
      PROVE  l' = EventsOf(c, rec') /\ h' = HandsOf(stack', rec')
  <2>1. Chain' = c
    BY <1>2, Readings
  <2>2. stack' \in Seq(Frame)
    BY <1>2 DEF Good, CallsOK
  <2>3. ASSUME NEW i \in 1 .. Len(stack') PROVE HeldBy(stack[i])' = HandOf(stack'[i], rec')
    <3>1. stack'[i] \in Frame
      BY <2>2, ElementOfSeq
    <3> QED BY <3>1, FrameFields DEF HeldBy, HandOf, HeldNode
  <2> QED BY <1>2, <2>1, <2>3 DEF Abstract, EventsOf, HandsOf, HandList
<1>3. Init => List!Init
  <2> SUFFICES ASSUME Init PROVE l = << >> /\ h = << >>
    BY DEF List!Init
  <2>1. Good(<< >>) /\ stack = << >>
    BY GoodInit DEF Init
  <2>2. EventsOf(<< >>, rec) = << >> /\ HandsOf(<< >>, rec) = << >>
    BY DEF EventsOf, HandsOf, HandList, FlattenSeq
  <2>3. "add" \notin calls => l = << >> /\ h = << >>
    BY <1>1, <2>1, <2>2
  <2> QED BY <2>3
<1>4. QueueInv /\ [Next]_vars => [List!Next]_(List!vars)
  <2> SUFFICES ASSUME QueueInv, [Next]_vars
               PROVE  List!Next \/ (l' = l /\ h' = h)
    BY DEF List!vars
  <2>1. PICK c : Good(c)
    BY DEF QueueInv, IInv
  <2>2. calls' = calls
    BY DEF Next, ClearAstray, vars
  <2>3. CASE "add" \in calls
    BY <2>2, <2>3
  <2>4. CASE UNCHANGED << nodes, calls >> /\ "add" \notin calls
    <3>1. Good(c)'
      BY <2>1, <2>4 DEF nodes, Good
    <3>2. l' = EventsOf(c, rec') /\ h' = HandsOf(stack', rec')
      BY <1>2, <2>2, <2>4, <3>1
    <3>3. l = EventsOf(c, rec) /\ h = HandsOf(stack, rec)
      BY <1>1, <2>1, <2>4
    <3>4. rec' = rec /\ stack' = stack
      BY <2>4 DEF nodes
    <3> HIDE DEF l, h
    <3> QED BY <3>2, <3>3, <3>4
  <2>5. CASE Step /\ "add" \notin calls
    <3>1. PICK d : Good(d)' /\ Shows(c, d)
      BY <2>1, <2>2, <2>5, StepShows
    <3>2. l' = EventsOf(d, rec') /\ h' = HandsOf(stack', rec')
      BY <1>2, <2>2, <2>5, <3>1
    <3>3. l = EventsOf(c, rec) /\ h = HandsOf(stack, rec)
      BY <1>1, <2>1, <2>5
    <3> DEFINE m == l'
               k == h'
    <3>4. EventStep(l, h, m, k)
      <4> HIDE DEF l, h
      <4> QED BY <3>1, <3>2, <3>3 DEF Shows
    <3> HIDE DEF m, k
    <3>5. \/ m = l /\ k = h
          \/ (\E e \in Rec : \E p \in 1 .. Len(l) + 1 :
                StablePlace(l, e.time, p) /\ m = InsertAt(l, p, e)) /\ k = h
          \/ (\E i \in 1 .. Len(l) : m = RemoveAt(l, i)) /\ k = h
          \/ \E i \in 1 .. Len(l) : m = RemoveAt(l, i) /\ k = Append(h, l[i])
          \/ h # << >> /\ m = l /\ k = Front(h)
          \/ /\ h # << >> /\ k = Front(h)
             /\ \E p \in 1 .. Len(l) + 1 :
                  OrderedPlace(l, Last(h).time, p) /\ m = InsertAt(l, p, Last(h))
          \/ m = << >> /\ k = h
      <4> HIDE DEF l, h
      <4> QED BY <3>4 DEF EventStep
    <3> QED
      BY <3>5 DEF m, k, Rec, List!Next, List!Insert, List!Delete, List!Take, List!Drop,
         List!Restore, List!Clear, List!Event, List!StablePlace, List!OrderedPlace,
         List!InsertAt, List!RemoveAt, List!Front, List!Last, StablePlace, OrderedPlace,
         InsertAt, RemoveAt, Front, Last
  <2> QED BY <2>3, <2>4, <2>5 DEF Next, ClearAstray, vars
<1> QED BY <1>3, <1>4, QueueInvHolds, PTL DEF Spec, List!Spec, ImplementsEventList

\* An event whose callback runs is due between the two that the suspended
\* queue_clear_type goes on with, so that it may be put back between them.
HeldFits ==
  \A i \in 1 .. Len(stack) :
    LET f == stack[i]
    IN  f.op = "clear" /\ ~f.stale /\ f.tmp # NULL =>
          /\ f.ptr # HEAD => rec[f.ptr].time <= rec[f.tmp].time
          /\ f.curr # NULL => rec[f.tmp].time <= rec[f.curr].time

\* Even where callbacks queue events, and some are lost, the list is in order of
\* time, and stays so when a suspended clearing puts its event back.
THEOREM ListInOrder ==
  ASSUME PlainCallbacks
  PROVE  Spec => [](InOrder(Abstract) /\ HeldFits)
<1>1. QueueInv => InOrder(Abstract)
  <2> SUFFICES ASSUME QueueInv PROVE InOrder(Abstract)
    OBVIOUS
  <2>1. PICK c : Good(c)
    BY DEF QueueInv, IInv
  <2>2. c \in Seq(Node) /\ Len(c) \in Nat
        /\ \A i, j \in 1 .. Len(c) : i < j => rec[c[i]].time <= rec[c[j]].time
    BY <2>1, NodesOf DEF Good, Linked, Links
  <2>3. Abstract = EventsOf(c, rec)
    BY <2>1, Readings DEF Abstract, EventsOf
  <2>4. Len(Abstract) = Len(c) /\ \A k \in 1 .. Len(c) : Abstract[k] = rec[c[k]]
    BY <2>2, <2>3, EventsIndex
  <2>5. ASSUME NEW i \in 1 .. Len(c) - 1 PROVE Abstract[i].time <= Abstract[i + 1].time
    <3>1. i \in 1 .. Len(c) /\ i + 1 \in 1 .. Len(c) /\ i < i + 1
      BY <2>2
    <3> QED BY <2>2, <2>4, <3>1
  <2> QED BY <2>4, <2>5 DEF InOrder
<1>2. QueueInv => HeldFits
  <2> SUFFICES ASSUME QueueInv, NEW i \in 1 .. Len(stack), NEW f, f = stack[i],
                      f.op = "clear", ~f.stale, f.tmp # NULL
               PROVE  /\ f.ptr # HEAD => rec[f.ptr].time <= rec[f.tmp].time
                      /\ f.curr # NULL => rec[f.tmp].time <= rec[f.curr].time
    BY DEF HeldFits
  <2>1. PICK c : Good(c)
    BY DEF QueueInv, IInv
  <2>2. AtPlace(f, c, next, rec, calls) /\ Len(c) \in Nat
    BY <2>1, PlacesOf DEF Good, CallsOK, Linked
  <2>3. PICK a \in 0 .. Len(c), e \in 1 .. Len(c) + 1 : ClearAt(f, c, next, rec, calls, a, e)
    BY <2>2 DEF AtPlace
  <2>4. f.ptr # HEAD => a > 0 /\ f.ptr = c[a]
    BY <2>2, <2>3 DEF ClearAt, SlotAt
  <2>5. f.curr # NULL => e <= Len(c) /\ f.curr = c[e]
    BY <2>2, <2>3 DEF ClearAt, LinkAt
  <2> QED BY <2>3, <2>4, <2>5 DEF ClearAt
<1> QED BY <1>1, <1>2, QueueInvHolds, PTL

-----------------------------------------------------------------------------
(* EventList itself: each of its steps keeps the order of time.            *)

LEMMA EventStepKeepsOrder ==
  ASSUME NEW l \in Seq(Rec), NEW h \in Seq(Rec), NEW m, NEW k, InOrder(l),
         EventStep(l, h, m, k)
  PROVE  m \in Seq(Rec) /\ k \in Seq(Rec) /\ InOrder(m)
<1>1. Timed(Rec)
  BY DEF Timed, Rec, Time
<1>2. ASSUME h # << >> PROVE Front(h) \in Seq(Rec) /\ Last(h) \in Rec
  <2>1. Len(h) \in Nat /\ Len(h) >= 1
    BY <1>2, EmptySeq
  <2>2. \A i \in 1 .. Len(h) - 1 : h[i] \in Rec
    BY <1>1, <2>1, TimesOf
  <2>3. Front(h) \in Seq(Rec)
    BY <2>1, <2>2, SubSeqProperties DEF Front
  <2> QED BY <1>1, <2>1, <2>3, TimesOf DEF Last
<1>3. CASE m = l /\ k = h
  BY <1>3
<1>4. ASSUME NEW e \in Rec, NEW p \in 1 .. Len(l) + 1,
             StablePlace(l, e.time, p), m = InsertAt(l, p, e), k = h
      PROVE  m \in Seq(Rec) /\ k \in Seq(Rec) /\ InOrder(m)
  <2>1. e.time \in Int
    BY <1>1 DEF Timed
  <2>2. OrderedPlace(l, e.time, p)
    BY <1>1, <1>4, <2>1, StableIsOrdered
  <2> QED BY <1>1, <1>4, <2>2, InsertAtIndex, InsertKeepsOrder
<1>5. ASSUME NEW i \in 1 .. Len(l), m = RemoveAt(l, i), k = h \/ k = Append(h, l[i])
      PROVE  m \in Seq(Rec) /\ k \in Seq(Rec) /\ InOrder(m)
  <2>1. k \in Seq(Rec)
    <3>1. l[i] \in Rec
      BY <1>1, TimesOf
    <3>2. Append(h, l[i]) \in Seq(Rec)
      BY <3>1, AppendProperties
    <3> QED BY <1>5, <3>2
  <2> QED BY <1>1, <1>5, <2>1, RemoveAtIndex, RemoveKeepsOrder
<1>6. CASE h # << >> /\ m = l /\ k = Front(h)
  BY <1>2, <1>6
<1>7. ASSUME h # << >>, k = Front(h), NEW p \in 1 .. Len(l) + 1,
             OrderedPlace(l, Last(h).time, p), m = InsertAt(l, p, Last(h))
      PROVE  m \in Seq(Rec) /\ k \in Seq(Rec) /\ InOrder(m)
  BY <1>1, <1>2, <1>7, InsertAtIndex, InsertKeepsOrder
<1>8. CASE m = << >> /\ k = h
  BY <1>8 DEF InOrder
<1> QED BY <1>3, <1>4, <1>5, <1>6, <1>7, <1>8 DEF EventStep

\* The abstract list always holds events in order of time, whatever the sequence
\* of queue_add, queue_remove, queue_process and queue_clear_type.
THEOREM ListStaysSorted == List!Spec => [](List!TypeOK /\ List!Sorted)
<1> DEFINE l == IF "add" \in calls THEN << >> ELSE Abstract
           h == IF "add" \in calls THEN << >>
                ELSE FlattenSeq([i \in 1 .. Len(stack) |-> HeldBy(stack[i])])
<1>0. List!Event = Rec
  BY DEF List!Event, Rec
<1>1. List!Init => List!TypeOK /\ List!Sorted
  <2> SUFFICES ASSUME l = << >>, h = << >>
               PROVE  l \in Seq(Rec) /\ h \in Seq(Rec) /\ InOrder(l)
    BY <1>0 DEF List!Init, List!TypeOK, List!Sorted, List!InOrder, InOrder
  <2> HIDE DEF l, h
  <2> QED BY DEF InOrder
<1>2. List!TypeOK /\ List!Sorted /\ [List!Next]_(List!vars) => List!TypeOK' /\ List!Sorted'
  <2> SUFFICES ASSUME l \in Seq(Rec), h \in Seq(Rec), InOrder(l), [List!Next]_(List!vars)
               PROVE  l' \in Seq(Rec) /\ h' \in Seq(Rec) /\ InOrder(l')
    BY <1>0 DEF List!TypeOK, List!Sorted, List!InOrder, InOrder
  <2> DEFINE m == l'
             k == h'
  <2>1. \/ m = l /\ k = h
        \/ (\E e \in Rec : \E p \in 1 .. Len(l) + 1 :
              StablePlace(l, e.time, p) /\ m = InsertAt(l, p, e)) /\ k = h
        \/ (\E i \in 1 .. Len(l) : m = RemoveAt(l, i)) /\ k = h
        \/ \E i \in 1 .. Len(l) : m = RemoveAt(l, i) /\ k = Append(h, l[i])
        \/ h # << >> /\ m = l /\ k = Front(h)
        \/ /\ h # << >> /\ k = Front(h)
           /\ \E p \in 1 .. Len(l) + 1 :
                OrderedPlace(l, Last(h).time, p) /\ m = InsertAt(l, p, Last(h))
        \/ m = << >> /\ k = h
    BY <1>0 DEF List!vars, List!Next, List!Insert, List!Delete, List!Take, List!Drop,
       List!Restore, List!Clear, List!StablePlace, List!OrderedPlace,
       List!InsertAt, List!RemoveAt, List!Front, List!Last, StablePlace, OrderedPlace,
       InsertAt, RemoveAt, Front, Last
  <2> HIDE DEF l, h, m, k
  <2>2. EventStep(l, h, m, k)
    BY <2>1 DEF EventStep
  <2>3. m \in Seq(Rec) /\ k \in Seq(Rec) /\ InOrder(m)
    BY <2>2, EventStepKeepsOrder
  <2> QED BY <2>3 DEF m, k
<1> QED BY <1>1, <1>2, PTL DEF List!Spec

=============================================================================
