----------------------------- MODULE CacheProofs -----------------------------
(***************************************************************************)
(* Proofs about Cache: whatever the sizes, the keys and the failures of    *)
(* the heap, the block a user holds a reference to stays its own, no block *)
(* of the heap is lost or given back twice, the array of entries stays in  *)
(* order, the size of the cache stays that of its entries, and room is     *)
(* made whenever the entries in use leave any.                             *)
(***************************************************************************)
EXTENDS Cache, ListProofs, FiniteSetTheorems

BlockStates == {"free", "unlocked", "locked"}

\* A cache's structure has no other fields.
Record(c) == DOMAIN c = {"order", "entry", "size", "hits", "capacity", "heap"}

\* What is needed to know of a cache's structure: which fields it has, and the
\* types of those that this is about.
Shape(c) ==
  /\ Record(c)
  /\ c.heap \in [Block -> BlockStates]
  /\ DOMAIN c.entry = Key
  /\ c.entry = [k \in Key |-> c.entry[k]]
  /\ \A k \in Key :
       /\ DOMAIN c.entry[k] = {"size", "referenceCount", "hits", "mru", "block"}
       /\ c.entry[k].referenceCount \in Nat
       /\ c.entry[k].block \in Block \cup {NoBlock}

\* Entries and blocks agree.
Consistent(c) ==
  /\ \A k \in Key : ~In(c, k) => c.entry[k].referenceCount = 0
  /\ \A k \in Key : In(c, k) =>
       c.heap[c.entry[k].block] =
         IF c.entry[k].referenceCount = 0 THEN "unlocked" ELSE "locked"
  /\ \A j, k \in Key : In(c, k) /\ c.entry[j].block = c.entry[k].block => j = k
  /\ \A b \in Block : c.heap[b] # "free" => \E k \in Key : c.entry[k].block = b

Good(c) == Shape(c) /\ Consistent(c)

\* From c to d references are kept, and with them blocks; nothing is added.
Keeps(c, d) ==
  \A k \in Key : /\ d.entry[k].referenceCount = c.entry[k].referenceCount
                 /\ c.entry[k].referenceCount > 0 => d.entry[k].block = c.entry[k].block
                 /\ In(d, k) => In(c, k)

\* From c to d the array and what its entries weigh stay as they are.
SameArray(c, d) ==
  /\ d.order = c.order /\ d.size = c.size /\ d.capacity = c.capacity
  /\ \A k \in Key : d.entry[k].size = c.entry[k].size

\* The array is sorted, without repetition, and names just what is in the cache;
\* there is a slot more than is used.
Ascending(s) == \A i, j \in 1 .. Len(s) : i < j => s[i] < s[j]

Sorted(c) ==
  /\ c.order \in Seq(Key) /\ Ascending(c.order)
  /\ ToSet(c.order) = {k \in Key : In(c, k)}
  /\ c.capacity \in Nat /\ Len(c.order) < c.capacity

\* The cache's size is that of its entries, and within the bound.
Sized(c) ==
  /\ \A k \in Key : c.entry[k].size \in Nat
  /\ c.size = SizeSum(c, {k \in Key : In(c, k)})
  /\ c.size \in Int /\ c.size <= MaxSize

IInv ==
  /\ Good(cache)
  /\ held = [k \in Key |-> cache.entry[k].referenceCount]
  /\ {"on", "key"} \subseteq DOMAIN adding
  /\ adding.on => adding.key \in Key /\ ~In(cache, adding.key)

\* What the two theorems about the array need: while cache_add waits for memory
\* there is room for what it adds.
ArrayInv ==
  /\ IInv
  /\ Sorted(cache) /\ Sized(cache)
  /\ adding.on => cache.size + SizeOf[adding.key] <= MaxSize

-----------------------------------------------------------------------------
\* What cache_purge leaves in each field, and cache_insert.
Purged(c, marked, d) ==
  LET gone == marked \cap Unreferenced(c) IN
  /\ d.order = Only(c.order, Key \ gone)
  /\ d.entry = [k \in Key |-> IF k \in gone THEN None ELSE c.entry[k]]
  /\ d.size = c.size - SizeSum(c, gone)
  /\ d.capacity = c.capacity
  /\ d.heap = [b \in Block |-> IF \E k \in gone : c.entry[k].block = b
                               THEN "free" ELSE c.heap[b]]
  /\ Record(d)

EntryInserted(c, k, index, b, d) ==
  /\ d.order = InsertAt(c.order, index, k)
  /\ d.entry = [c.entry EXCEPT ![k] = [None EXCEPT !.size = SizeOf[k], !.block = b]]
  /\ d.size = c.size + SizeOf[k]
  /\ d.heap = [c.heap EXCEPT ![b] = "unlocked"]
  /\ d.capacity = IF Len(c.order) = c.capacity - 1 THEN c.capacity + Grow ELSE c.capacity
  /\ Record(d)

\* cache_purge sets the fields one by one; together they are what Purged says.
LEMMA PurgeFields ==
  ASSUME NEW c, NEW marked, Record(c)
  PROVE  Purged(c, marked, Purge(c, marked))
<1> DEFINE gone == marked \cap Unreferenced(c)
           d == Purge(c, marked)
           o == Only(c.order, Key \ gone)
           e == [k \in Key |-> IF k \in gone THEN None ELSE c.entry[k]]
           s == c.size - SizeSum(c, gone)
           h == [b \in Block |-> IF \E k \in gone : c.entry[k].block = b
                                 THEN "free" ELSE c.heap[b]]
<1>1. d = [c EXCEPT !.order = o, !.entry = e, !.size = s, !.heap = h]
  BY DEF Purge
<1> HIDE DEF d, o, e, s, h
<1>2. d.order = o /\ d.entry = e /\ d.size = s /\ d.capacity = c.capacity /\ d.heap = h
      /\ Record(d)
  BY <1>1 DEF Record
<1> QED BY <1>2 DEF d, o, e, s, h, Purged

\* Purging removes only what has no references, and frees just its blocks.
LEMMA PurgeGood ==
  ASSUME NEW c, NEW marked, Good(c)
  PROVE  Good(Purge(c, marked)) /\ Keeps(c, Purge(c, marked))
<1> DEFINE gone == marked \cap Unreferenced(c)
           d == Purge(c, marked)
<1>1. /\ d.entry = [k \in Key |-> IF k \in gone THEN None ELSE c.entry[k]]
      /\ d.heap = [b \in Block |-> IF \E k \in gone : c.entry[k].block = b
                                   THEN "free" ELSE c.heap[b]]
      /\ Record(d)
  <2>1. Record(c)
    BY DEF Good, Shape
  <2>2. Purged(c, marked, d)
    BY <2>1, PurgeFields
  <2> QED BY <2>2 DEF Purged
<1>2. \A k \in gone : k \in Key /\ In(c, k) /\ c.entry[k].referenceCount = 0
  BY DEF Unreferenced
<1> HIDE DEF gone, d
<1>3. \A k \in Key : /\ k \in gone => d.entry[k] = None
                     /\ k \notin gone => d.entry[k] = c.entry[k]
  BY <1>1
<1>4. Shape(d)
  <2>1. d.heap \in [Block -> BlockStates]
    BY <1>1 DEF Good, Shape, BlockStates
  <2>2. DOMAIN d.entry = Key /\ d.entry = [k \in Key |-> d.entry[k]]
    BY <1>1
  <2>3. ASSUME NEW k \in Key
        PROVE  /\ DOMAIN d.entry[k] = {"size", "referenceCount", "hits", "mru", "block"}
               /\ d.entry[k].referenceCount \in Nat
               /\ d.entry[k].block \in Block \cup {NoBlock}
    BY <1>3 DEF Good, Shape, None
  <2> QED BY <1>1, <2>1, <2>2, <2>3 DEF Shape
<1>5. \A k \in Key : In(d, k) <=> In(c, k) /\ k \notin gone
  BY <1>2, <1>3 DEF In, None
<1>6. Keeps(c, d)
  BY <1>2, <1>3, <1>5 DEF Keeps, None
<1>7. Consistent(d)
  <2>1. ASSUME NEW k \in Key, ~In(d, k)
        PROVE  d.entry[k].referenceCount = 0
    BY <1>2, <1>3, <1>5, <2>1 DEF Good, Consistent, None
  <2>2. ASSUME NEW k \in Key, In(d, k)
        PROVE  /\ d.entry[k] = c.entry[k] /\ In(c, k) /\ c.entry[k].block \in Block
               /\ d.heap[c.entry[k].block] = c.heap[c.entry[k].block]
    <3>1. d.entry[k] = c.entry[k] /\ In(c, k) /\ k \notin gone
      BY <1>3, <1>5, <2>2
    <3>2. c.entry[k].block \in Block
      BY <3>1 DEF Good, Shape, In
    <3>3. ~\E j \in gone : c.entry[j].block = c.entry[k].block
      BY <1>2, <3>1 DEF Good, Consistent
    <3> QED BY <1>1, <3>1, <3>2, <3>3
  <2>3. \A k \in Key : In(d, k) =>
          d.heap[d.entry[k].block] =
            IF d.entry[k].referenceCount = 0 THEN "unlocked" ELSE "locked"
    BY <2>2 DEF Good, Consistent
  <2>4. ASSUME NEW j \in Key, NEW k \in Key, In(d, k), d.entry[j].block = d.entry[k].block
        PROVE  j = k
    <3>1. In(d, j)
      BY <2>4 DEF In
    <3> QED BY <2>2, <2>4, <3>1 DEF Good, Consistent
  <2>5. ASSUME NEW b \in Block, d.heap[b] # "free"
        PROVE  \E k \in Key : d.entry[k].block = b
    <3>1. /\ ~\E k \in gone : c.entry[k].block = b
          /\ c.heap[b] # "free"
      BY <1>1, <2>5
    <3>2. PICK k \in Key : c.entry[k].block = b
      BY <3>1 DEF Good, Consistent
    <3> QED BY <1>3, <3>1, <3>2
  <2> QED BY <2>1, <2>3, <2>4, <2>5 DEF Consistent
<1> QED BY <1>4, <1>6, <1>7 DEF Good, d

\* Keeps is transitive and reflexive.
LEMMA KeepsOn ==
  ASSUME NEW c, NEW d, NEW e, Keeps(c, d), Keeps(d, e)
  PROVE  Keeps(c, e)
BY DEF Keeps

\* What flushing leaves in each field.
LEMMA FlushFields ==
  ASSUME NEW c, Record(c)
  PROVE  LET p == Purge(c, Unreferenced(c))
             d == Flush(c) IN
         /\ d.order = p.order /\ d.entry = p.entry /\ d.size = p.size /\ d.heap = p.heap
         /\ d.capacity = IF Len(p.order) + Grow < p.capacity THEN Len(p.order) + Grow
                         ELSE p.capacity
         /\ Record(d)
<1> DEFINE p == Purge(c, Unreferenced(c))
           d == Flush(c)
           n == Len(p.order) + Grow
<1>1. Record(p)
  <2>1. Purged(c, Unreferenced(c), p)
    BY PurgeFields
  <2> QED BY <2>1 DEF Purged
<1>2. d = [p EXCEPT !.capacity = IF n < p.capacity THEN n ELSE p.capacity]
  BY DEF Flush
<1> HIDE DEF p, d, n
<1>3. /\ d.order = p.order /\ d.entry = p.entry /\ d.size = p.size /\ d.heap = p.heap
      /\ d.capacity = IF n < p.capacity THEN n ELSE p.capacity
      /\ Record(d)
  BY <1>1, <1>2 DEF Record
<1> QED BY <1>3 DEF p, d, n

\* Flushing is purging, and the array may get shorter.
LEMMA FlushGood ==
  ASSUME NEW c, Good(c)
  PROVE  Good(Flush(c)) /\ Keeps(c, Flush(c))
<1> DEFINE p == Purge(c, Unreferenced(c))
           d == Flush(c)
<1>1. Good(p) /\ Keeps(c, p)
  BY PurgeGood
<1>2. Record(c)
  BY DEF Good, Shape
<1>3. d.entry = p.entry /\ d.heap = p.heap /\ Record(d)
  BY <1>2, FlushFields
<1> HIDE DEF p, d
<1>4. Good(d)
  BY <1>1, <1>3 DEF Good, Shape, Consistent, In
<1>5. Keeps(c, d)
  BY <1>1, <1>3 DEF Keeps, In
<1> QED BY <1>4, <1>5 DEF d

\* Making room is purging, or nothing.
LEMMA MakeRoomGood ==
  ASSUME NEW c, NEW size, Good(c)
  PROVE  Good(MakeRoom(c, size).cache) /\ Keeps(c, MakeRoom(c, size).cache)
<1>1. MakeRoom(c, size).cache = c \/ MakeRoom(c, size).cache = Purge(c, ToEvict(c, size))
  BY DEF MakeRoom
<1>2. Keeps(c, c)
  BY DEF Keeps
<1> QED BY <1>1, <1>2, PurgeGood

\* The same for cache_insert.
LEMMA InsertFields ==
  ASSUME NEW c, NEW k \in Key, NEW index, NEW b \in Block, Record(c)
  PROVE  EntryInserted(c, k, index, b, Insert(c, k, index, b))
<1> DEFINE d == Insert(c, k, index, b)
           o == InsertAt(c.order, index, k)
           s == c.size + SizeOf[k]
           p == IF Len(c.order) = c.capacity - 1 THEN c.capacity + Grow ELSE c.capacity
           f == [c.entry EXCEPT ![k] = [None EXCEPT !.size = SizeOf[k], !.block = b]]
           h == [c.heap EXCEPT ![b] = "unlocked"]
<1>1. d = [c EXCEPT !.order = o, !.entry = f, !.size = s, !.heap = h, !.capacity = p]
  BY DEF Insert
<1> HIDE DEF d, o, s, p, f, h
<1>2. d.order = o /\ d.entry = f /\ d.size = s /\ d.heap = h /\ d.capacity = p /\ Record(d)
  BY <1>1 DEF Record
<1> QED BY <1>2 DEF d, o, s, p, f, h, EntryInserted

\* A new entry gets a free block; it has no references yet.
LEMMA InsertGood ==
  ASSUME NEW c, NEW k \in Key, NEW index, NEW b \in Block,
         Good(c), ~In(c, k), c.heap[b] = "free"
  PROVE  LET d == Insert(c, k, index, b) IN
         /\ Good(d) /\ In(d, k)
         /\ \A j \in Key : /\ d.entry[j].referenceCount = c.entry[j].referenceCount
                           /\ c.entry[j].referenceCount > 0 =>
                                d.entry[j].block = c.entry[j].block
<1> DEFINE d == Insert(c, k, index, b)
           e == [None EXCEPT !.size = SizeOf[k], !.block = b]
<1>1. /\ d.entry = [c.entry EXCEPT ![k] = e]
      /\ d.heap = [c.heap EXCEPT ![b] = "unlocked"]
      /\ Record(d)
  <2>1. Record(c)
    BY DEF Good, Shape
  <2>2. EntryInserted(c, k, index, b, d)
    BY <2>1, InsertFields
  <2> QED BY <2>2 DEF EntryInserted
<1>2. /\ e.referenceCount = 0 /\ e.block = b
      /\ DOMAIN e = {"size", "referenceCount", "hits", "mru", "block"}
  BY DEF None
<1>3. b # NoBlock
  BY CacheAssumption
<1> HIDE DEF d, e
<1>4. /\ d.entry[k] = e
      /\ \A j \in Key \ {k} : d.entry[j] = c.entry[j]
      /\ d.heap[b] = "unlocked"
      /\ \A a \in Block \ {b} : d.heap[a] = c.heap[a]
      /\ DOMAIN d.entry = Key /\ d.entry = [j \in Key |-> d.entry[j]]
      /\ d.heap \in [Block -> BlockStates]
  BY <1>1 DEF Good, Shape, BlockStates
<1>5. Shape(d)
  <2>1. ASSUME NEW j \in Key
        PROVE  /\ DOMAIN d.entry[j] = {"size", "referenceCount", "hits", "mru", "block"}
               /\ d.entry[j].referenceCount \in Nat
               /\ d.entry[j].block \in Block \cup {NoBlock}
    BY <1>2, <1>4 DEF Good, Shape
  <2> QED BY <1>1, <1>4, <2>1 DEF Shape
<1>6. ASSUME NEW j \in Key, j # k
      PROVE  /\ d.entry[j] = c.entry[j] /\ c.entry[j].block # b
             /\ In(d, j) <=> In(c, j)
             /\ In(c, j) => d.heap[c.entry[j].block] = c.heap[c.entry[j].block]
  <2>1. d.entry[j] = c.entry[j] /\ (In(d, j) <=> In(c, j))
    BY <1>4, <1>6 DEF In
  <2>2. c.entry[j].block # b
    BY <1>3 DEF Good, Consistent, In
  <2>3. In(c, j) => c.entry[j].block \in Block
    BY DEF Good, Shape, In
  <2> QED BY <1>4, <2>1, <2>2, <2>3
<1>7. In(d, k) /\ d.entry[k].referenceCount = 0 /\ d.entry[k].block = b
  BY <1>2, <1>3, <1>4 DEF In
<1>8. Consistent(d)
  <2>1. \A j \in Key : ~In(d, j) => d.entry[j].referenceCount = 0
    BY <1>6, <1>7 DEF Good, Consistent
  <2>2. \A j \in Key : In(d, j) =>
          d.heap[d.entry[j].block] =
            IF d.entry[j].referenceCount = 0 THEN "unlocked" ELSE "locked"
    BY <1>4, <1>6, <1>7 DEF Good, Consistent
  <2>3. ASSUME NEW i \in Key, NEW j \in Key, In(d, j), d.entry[i].block = d.entry[j].block
        PROVE  i = j
    BY <1>6, <1>7, <2>3 DEF Good, Consistent
  <2>4. ASSUME NEW a \in Block, d.heap[a] # "free"
        PROVE  \E j \in Key : d.entry[j].block = a
    <3>1. CASE a = b
      BY <1>7, <3>1
    <3>2. CASE a # b
      <4>1. PICK j \in Key : c.entry[j].block = a
        BY <1>4, <2>4, <3>2 DEF Good, Consistent
      <4>2. In(c, j)
        BY <4>1, CacheAssumption DEF In
      <4> QED BY <1>6, <4>1, <4>2
    <3> QED BY <3>1, <3>2
  <2> QED BY <2>1, <2>2, <2>3, <2>4 DEF Consistent
<1>9. \A j \in Key : /\ d.entry[j].referenceCount = c.entry[j].referenceCount
                     /\ c.entry[j].referenceCount > 0 => d.entry[j].block = c.entry[j].block
  BY <1>6, <1>7 DEF Good, Consistent
<1> QED BY <1>5, <1>7, <1>8, <1>9 DEF Good, d

\* Counting the hits anew changes neither references nor blocks.
LEMMA ResetGood ==
  ASSUME NEW c, Good(c)
  PROVE  LET d == ResetCounter(c) IN
         /\ Good(d) /\ SameArray(c, d)
         /\ \A j \in Key : /\ d.entry[j].referenceCount = c.entry[j].referenceCount
                           /\ d.entry[j].block = c.entry[j].block
<1> DEFINE d == ResetCounter(c)
           Later(k) == {j \in Key : In(c, j) /\ c.entry[j].mru > c.entry[k].mru}
           e == [k \in Key |-> IF In(c, k)
                               THEN [c.entry[k] EXCEPT !.mru = Cardinality(Later(k))]
                               ELSE c.entry[k]]
           n == Len(c.order)
<1>1. /\ d.entry = e /\ d.heap = c.heap /\ Record(d)
      /\ d.order = c.order /\ d.size = c.size /\ d.capacity = c.capacity
  <2>1. d = [c EXCEPT !.entry = e, !.hits = n]
    BY DEF ResetCounter
  <2> HIDE DEF d, e, n
  <2> QED BY <2>1 DEF Good, Shape, Record
<1> HIDE DEF d
<1>2. ASSUME NEW k \in Key
      PROVE  /\ d.entry[k].referenceCount = c.entry[k].referenceCount
             /\ d.entry[k].block = c.entry[k].block
             /\ DOMAIN d.entry[k] = DOMAIN c.entry[k]
             /\ d.entry[k].size = c.entry[k].size
  <2>1. d.entry[k] = c.entry[k] \/ d.entry[k] = [c.entry[k] EXCEPT !.mru = Cardinality(Later(k))]
    BY <1>1
  <2>2. DOMAIN c.entry[k] = {"size", "referenceCount", "hits", "mru", "block"}
    BY DEF Good, Shape
  <2> HIDE DEF e, Later
  <2> QED BY <2>1, <2>2
<1>3. DOMAIN d.entry = Key /\ d.entry = [k \in Key |-> d.entry[k]]
  BY <1>1
<1> HIDE DEF e
<1>4. Shape(d)
  BY <1>1, <1>2, <1>3 DEF Good, Shape
<1>5. Consistent(d)
  BY <1>1, <1>2 DEF Good, Consistent, In
<1>6. SameArray(c, d)
  BY <1>1, <1>2 DEF SameArray
<1> QED BY <1>2, <1>4, <1>5, <1>6 DEF Good, d

\* Giving a key that is in the cache to a user counts one reference more and
\* leaves every block where it is.
LEMMA ReferGood ==
  ASSUME NEW c, NEW k \in Key, Good(c), In(c, k)
  PROVE  LET d == Refer(c, k) IN
         /\ Good(d) /\ SameArray(c, d)
         /\ \A j \in Key :
              /\ d.entry[j].referenceCount = IF j = k THEN c.entry[j].referenceCount + 1
                                             ELSE c.entry[j].referenceCount
              /\ d.entry[j].block = c.entry[j].block
<1> DEFINE x == c.entry[k]
           n == c.hits + 1
           g == [x EXCEPT !.referenceCount = x.referenceCount + 1, !.mru = n]
           d == [c EXCEPT !.entry[k].referenceCount = @ + 1,
                          !.entry[k].mru = n,
                          !.hits = n,
                          !.heap[c.entry[k].block] = "locked"]
<1>1. Record(c) /\ k \in DOMAIN c.entry /\ x.block \in Block /\ x.referenceCount \in Nat
      /\ DOMAIN x = {"size", "referenceCount", "hits", "mru", "block"}
  BY DEF Good, Shape, In
<1>2. /\ d.entry = [c.entry EXCEPT ![k] = g]
      /\ d.heap = [c.heap EXCEPT ![x.block] = "locked"]
      /\ Record(d)
      /\ d.order = c.order /\ d.size = c.size /\ d.capacity = c.capacity
  <2> HIDE DEF n
  <2> QED BY <1>1 DEF Record
<1>3. /\ g.referenceCount = x.referenceCount + 1
      /\ g.block = x.block /\ g.size = x.size
      /\ DOMAIN g = {"size", "referenceCount", "hits", "mru", "block"}
  <2> HIDE DEF n, x
  <2> QED BY <1>1
<1>4. Refer(c, k) = IF n = Width - 1 THEN ResetCounter(d) ELSE d
  BY DEF Refer
<1> HIDE DEF d, g
<1>5. /\ d.entry[k] = g
      /\ \A j \in Key \ {k} : d.entry[j] = c.entry[j]
      /\ DOMAIN d.entry = Key /\ d.entry = [j \in Key |-> d.entry[j]]
      /\ d.heap \in [Block -> BlockStates]
      /\ d.heap[x.block] = "locked"
      /\ \A b \in Block \ {x.block} : d.heap[b] = c.heap[b]
  BY <1>1, <1>2 DEF Good, Shape, BlockStates
<1>6. \A j \in Key :
        /\ d.entry[j].referenceCount = IF j = k THEN c.entry[j].referenceCount + 1
                                       ELSE c.entry[j].referenceCount
        /\ d.entry[j].block = c.entry[j].block /\ d.entry[j].size = c.entry[j].size
        /\ DOMAIN d.entry[j] = {"size", "referenceCount", "hits", "mru", "block"}
  BY <1>1, <1>3, <1>5 DEF Good, Shape
<1>7. Shape(d)
  <2>1. ASSUME NEW j \in Key
        PROVE  /\ d.entry[j].referenceCount \in Nat
               /\ d.entry[j].block \in Block \cup {NoBlock}
    BY <1>1, <1>6 DEF Good, Shape
  <2> QED BY <1>2, <1>5, <1>6, <2>1 DEF Shape
<1>8. Consistent(d)
  <2>1. \A j \in Key : In(d, j) <=> In(c, j)
    BY <1>6 DEF In
  <2>2. \A j \in Key : ~In(d, j) => d.entry[j].referenceCount = 0
    BY <1>6, <2>1 DEF Good, Consistent
  <2>3. ASSUME NEW j \in Key, In(d, j)
        PROVE  d.heap[d.entry[j].block] =
                 IF d.entry[j].referenceCount = 0 THEN "unlocked" ELSE "locked"
    <3>1. CASE j = k
      BY <1>1, <1>5, <1>6, <3>1
    <3>2. CASE j # k
      <4>1. In(c, j) /\ c.entry[j].block \in Block /\ c.entry[j].block # x.block
        BY <2>1, <2>3, <3>2 DEF Good, Shape, Consistent, In
      <4> QED BY <1>5, <1>6, <3>2, <4>1 DEF Good, Consistent
    <3> QED BY <3>1, <3>2
  <2>4. \A i, j \in Key : In(d, j) /\ d.entry[i].block = d.entry[j].block => i = j
    BY <1>6, <2>1 DEF Good, Consistent
  <2>5. ASSUME NEW b \in Block, d.heap[b] # "free"
        PROVE  \E j \in Key : d.entry[j].block = b
    <3>1. CASE b = x.block
      BY <1>6, <3>1
    <3>2. CASE b # x.block
      BY <1>5, <1>6, <2>5, <3>2 DEF Good, Consistent
    <3> QED BY <3>1, <3>2
  <2> QED BY <2>2, <2>3, <2>4, <2>5 DEF Consistent
<1>9. Good(d) /\ SameArray(c, d)
  BY <1>2, <1>6, <1>7, <1>8 DEF Good, SameArray
<1>10. CASE n = Width - 1
  <2>1. Refer(c, k) = ResetCounter(d)
    BY <1>4, <1>10
  <2>2. /\ Good(ResetCounter(d)) /\ SameArray(d, ResetCounter(d))
        /\ \A j \in Key :
             /\ ResetCounter(d).entry[j].referenceCount = d.entry[j].referenceCount
             /\ ResetCounter(d).entry[j].block = d.entry[j].block
    BY <1>9, ResetGood
  <2>3. SameArray(c, ResetCounter(d))
    BY <1>9, <2>2 DEF SameArray
  <2> QED BY <1>6, <2>1, <2>2, <2>3
<1>11. CASE n # Width - 1
  <2>1. Refer(c, k) = d
    BY <1>4, <1>11
  <2> QED BY <1>6, <1>9, <2>1
<1> QED BY <1>10, <1>11

\* Counting a hit changes neither references nor blocks.
LEMMA HitGood ==
  ASSUME NEW c, NEW k \in Key, NEW n, Good(c)
  PROVE  LET d == [c EXCEPT !.entry[k].hits = n] IN
         /\ Good(d) /\ SameArray(c, d)
         /\ \A j \in Key : /\ d.entry[j].referenceCount = c.entry[j].referenceCount
                           /\ d.entry[j].block = c.entry[j].block
<1> DEFINE d == [c EXCEPT !.entry[k].hits = n]
           g == [c.entry[k] EXCEPT !.hits = n]
<1>1. /\ d.entry = [c.entry EXCEPT ![k] = g] /\ d.heap = c.heap /\ Record(d)
      /\ d.order = c.order /\ d.size = c.size /\ d.capacity = c.capacity
  BY DEF Good, Shape, Record
<1>2. /\ g.referenceCount = c.entry[k].referenceCount
      /\ g.block = c.entry[k].block /\ g.size = c.entry[k].size
      /\ DOMAIN g = {"size", "referenceCount", "hits", "mru", "block"}
  BY DEF Good, Shape
<1> HIDE DEF d, g
<1>3. /\ DOMAIN d.entry = Key /\ d.entry = [j \in Key |-> d.entry[j]]
      /\ \A j \in Key : /\ d.entry[j].referenceCount = c.entry[j].referenceCount
                        /\ d.entry[j].block = c.entry[j].block
                        /\ DOMAIN d.entry[j] = DOMAIN c.entry[j]
                        /\ d.entry[j].size = c.entry[j].size
  <2>1. /\ DOMAIN c.entry = Key
        /\ DOMAIN c.entry[k] = {"size", "referenceCount", "hits", "mru", "block"}
    BY DEF Good, Shape
  <2>2. DOMAIN d.entry = Key /\ d.entry = [j \in Key |-> d.entry[j]]
    BY <1>1, <2>1
  <2>3. d.entry[k] = g /\ \A j \in Key : j # k => d.entry[j] = c.entry[j]
    BY <1>1, <2>1
  <2> QED BY <1>2, <2>1, <2>2, <2>3
<1>4. Shape(d)
  <2>1. Shape(c)
    BY DEF Good
  <2> QED BY <1>1, <1>3, <2>1, ZenonT(60) DEF Shape
<1>5. Consistent(d)
  BY <1>1, <1>3 DEF Good, Consistent, In
<1>6. SameArray(c, d)
  BY <1>1, <1>3 DEF SameArray
<1> QED BY <1>3, <1>4, <1>5, <1>6 DEF Good, d

\* Taking a reference back, and unlocking the block with the last one.
LEMMA UnlockGood ==
  ASSUME NEW c, NEW k \in Key, Good(c), c.entry[k].referenceCount > 0
  PROVE  LET n == c.entry[k].referenceCount - 1
             d == [c EXCEPT !.entry[k].referenceCount = n,
                            !.heap[c.entry[k].block] = IF n = 0 THEN "unlocked" ELSE @]
         IN /\ Good(d) /\ SameArray(c, d)
            /\ \A j \in Key :
                 /\ d.entry[j].referenceCount = IF j = k THEN c.entry[j].referenceCount - 1
                                                ELSE c.entry[j].referenceCount
                 /\ d.entry[j].block = c.entry[j].block
<1> DEFINE x == c.entry[k]
           n == x.referenceCount - 1
           g == [x EXCEPT !.referenceCount = n]
           d == [c EXCEPT !.entry[k].referenceCount = n,
                          !.heap[c.entry[k].block] = IF n = 0 THEN "unlocked" ELSE @]
<1>1. /\ Record(c) /\ k \in DOMAIN c.entry /\ x.referenceCount \in Nat /\ x.referenceCount > 0
      /\ DOMAIN x = {"size", "referenceCount", "hits", "mru", "block"}
      /\ In(c, k) /\ x.block \in Block /\ c.heap[x.block] = "locked"
  BY DEF Good, Shape, Consistent, In
<1>2. /\ d.entry = [c.entry EXCEPT ![k] = g]
      /\ d.heap = [c.heap EXCEPT ![x.block] = IF n = 0 THEN "unlocked" ELSE @]
      /\ Record(d)
      /\ d.order = c.order /\ d.size = c.size /\ d.capacity = c.capacity
  <2> HIDE DEF n
  <2> QED BY <1>1 DEF Record
<1>3. /\ g.referenceCount = n /\ n \in Nat
      /\ g.block = x.block /\ g.size = x.size
      /\ DOMAIN g = {"size", "referenceCount", "hits", "mru", "block"}
  <2>1. n \in Nat
    BY <1>1
  <2> HIDE DEF n, x
  <2> QED BY <1>1, <2>1
<1> HIDE DEF d, g
<1>5. /\ d.entry[k] = g
      /\ \A j \in Key \ {k} : d.entry[j] = c.entry[j]
      /\ DOMAIN d.entry = Key /\ d.entry = [j \in Key |-> d.entry[j]]
      /\ d.heap \in [Block -> BlockStates]
      /\ d.heap[x.block] = IF n = 0 THEN "unlocked" ELSE "locked"
      /\ \A b \in Block \ {x.block} : d.heap[b] = c.heap[b]
  BY <1>1, <1>2 DEF Good, Shape, BlockStates
<1>6. \A j \in Key :
        /\ d.entry[j].referenceCount = IF j = k THEN c.entry[j].referenceCount - 1
                                       ELSE c.entry[j].referenceCount
        /\ d.entry[j].block = c.entry[j].block /\ d.entry[j].size = c.entry[j].size
        /\ DOMAIN d.entry[j] = {"size", "referenceCount", "hits", "mru", "block"}
  BY <1>1, <1>3, <1>5 DEF Good, Shape
<1>7. Shape(d)
  <2>1. ASSUME NEW j \in Key
        PROVE  /\ d.entry[j].referenceCount \in Nat
               /\ d.entry[j].block \in Block \cup {NoBlock}
    BY <1>1, <1>3, <1>6 DEF Good, Shape
  <2> HIDE DEF g, n, x
  <2> QED BY <1>2, <1>5, <1>6, <2>1, SMTT(30) DEF Shape
<1>8. Consistent(d)
  <2>1. \A j \in Key : In(d, j) <=> In(c, j)
    BY <1>6 DEF In
  <2>2. \A j \in Key : ~In(d, j) => d.entry[j].referenceCount = 0
    BY <1>1, <1>6, <2>1 DEF Good, Consistent
  <2>3. ASSUME NEW j \in Key, In(d, j)
        PROVE  d.heap[d.entry[j].block] =
                 IF d.entry[j].referenceCount = 0 THEN "unlocked" ELSE "locked"
    <3>1. CASE j = k
      BY <1>1, <1>5, <1>6, <3>1
    <3>2. CASE j # k
      <4>1. In(c, j) /\ c.entry[j].block \in Block /\ c.entry[j].block # x.block
        BY <2>1, <2>3, <3>2 DEF Good, Shape, Consistent, In
      <4> QED BY <1>5, <1>6, <3>2, <4>1 DEF Good, Consistent
    <3> QED BY <3>1, <3>2
  <2>4. \A i, j \in Key : In(d, j) /\ d.entry[i].block = d.entry[j].block => i = j
    BY <1>6, <2>1 DEF Good, Consistent
  <2>5. ASSUME NEW b \in Block, d.heap[b] # "free"
        PROVE  \E j \in Key : d.entry[j].block = b
    <3>1. CASE b = x.block
      BY <1>6, <3>1
    <3>2. CASE b # x.block
      BY <1>5, <1>6, <2>5, <3>2 DEF Good, Consistent
    <3> QED BY <3>1, <3>2
  <2> QED BY <2>2, <2>3, <2>4, <2>5 DEF Consistent
<1>9. SameArray(c, d)
  BY <1>2, <1>6 DEF SameArray
<1> QED BY <1>6, <1>7, <1>8, <1>9 DEF Good, d

-----------------------------------------------------------------------------
\* A place with smaller keys before it and larger ones from it on.
RightPlace(s, p, k) ==
  /\ p \in 1 .. Len(s) + 1
  /\ \A i \in 1 .. p - 1 : s[i] < k
  /\ \A i \in p .. Len(s) : k < s[i]

\* The keys in the array are numbers.
LEMMA ArrayOfKeys ==
  ASSUME NEW s \in Seq(Key)
  PROVE  /\ Len(s) \in Nat /\ DOMAIN s = 1 .. Len(s)
         /\ \A i \in 1 .. Len(s) : s[i] \in Key /\ s[i] \in Int
<1>1. Len(s) \in Nat /\ DOMAIN s = 1 .. Len(s) /\ \A i \in 1 .. Len(s) : s[i] \in Key
  OBVIOUS
<1>2. \A k \in Key : k \in Int
  BY CacheAssumption
<1> QED BY <1>1, <1>2

\* Counting the smaller keys finds that place in a sorted array.
LEMMA PositionIsRight ==
  ASSUME NEW s \in Seq(Key), Ascending(s), NEW k \in Key, k \notin ToSet(s)
  PROVE  RightPlace(s, Position(s, k), k)
<1> DEFINE L == Len(s)
           Below == {i \in DOMAIN s : s[i] < k}
<1>1. /\ L \in Nat /\ DOMAIN s = 1 .. L /\ k \in Int
      /\ \A i \in 1 .. L : s[i] \in Int /\ s[i] # k
  <2>1. L \in Nat /\ DOMAIN s = 1 .. L /\ \A i \in 1 .. L : s[i] \in Int
    BY ArrayOfKeys
  <2>2. k \in Int
    BY CacheAssumption
  <2>3. \A i \in DOMAIN s : s[i] # k
    BY DEF ToSet
  <2> QED BY <2>1, <2>2, <2>3
<1>2. PICK m \in 0 .. L : Below = 1 .. m
  <2>1. CASE Below = 1 .. L
    BY <1>1, <2>1
  <2>2. CASE Below # 1 .. L
    <3> DEFINE T == {i \in 1 .. L : i \notin Below}
    <3>1. T \in SUBSET Nat /\ T # {}
      BY <1>1, <2>2
    <3> HIDE DEF T
    <3>2. PICK n \in T : \A i \in T : n <= i
      BY <3>1, LeastNumber
    <3>3. n \in 1 .. L /\ n \notin Below /\ \A i \in 1 .. L : i < n => i \in Below
      BY <3>1, <3>2 DEF T
    <3>4. ASSUME NEW i \in Below PROVE i < n
      <4>1. i \in 1 .. L /\ s[i] < k /\ s[n] > k
        BY <1>1, <3>3
      <4>2. ~ (n < i) /\ i # n
        BY <1>1, <3>3, <4>1 DEF Ascending
      <4> QED BY <3>3, <4>1, <4>2
    <3>5. Below = 1 .. n - 1
      <4>1. \A i \in Below : i \in 1 .. n - 1
        BY <1>1, <3>3, <3>4
      <4>2. \A i \in 1 .. n - 1 : i \in Below
        BY <1>1, <3>3
      <4> QED BY <4>1, <4>2
    <3>6. n - 1 \in 0 .. L
      BY <1>1, <3>3
    <3> QED BY <3>5, <3>6
  <2> QED BY <2>1, <2>2
<1>3. Position(s, k) = m + 1
  <2>1. Cardinality(1 .. m) = m
    <3>1. 1 \in Int /\ m \in Int
      OBVIOUS
    <3>2. Cardinality(1 .. m) = IF 1 > m THEN 0 ELSE m - 1 + 1
      BY <3>1, FS_Interval
    <3> QED BY <3>2
  <2>2. Position(s, k) = Cardinality(Below) + 1
    BY DEF Position
  <2> HIDE DEF Below
  <2> QED BY <1>2, <2>1, <2>2
<1>4. \A i \in 1 .. L : i <= m => s[i] < k
  BY <1>1, <1>2
<1>5. \A i \in 1 .. L : i > m => k < s[i]
  BY <1>1, <1>2
<1> HIDE DEF Below
<1> QED BY <1>1, <1>3, <1>4, <1>5 DEF RightPlace

\* So does the check of the place found before room was made (cache_add).
LEMMA PlaceIsRight ==
  ASSUME NEW s \in Seq(Key), Ascending(s), NEW k \in Key, k \notin ToSet(s), NEW index
  PROVE  RightPlace(s, Place(s, k, index), k)
<1> DEFINE ok == /\ index \in DOMAIN s /\ k < s[index]
                 /\ index = 1 \/ k > s[index - 1]
<1>1. CASE ~ok
  BY <1>1, PositionIsRight DEF Place
<1>2. CASE ok
  <2>1. /\ index \in 1 .. Len(s) /\ Len(s) \in Nat /\ k \in Int
        /\ \A i \in 1 .. Len(s) : s[i] \in Int
    <3>1. k \in Int
      BY CacheAssumption
    <3> QED BY <1>2, <3>1, ArrayOfKeys
  <2>2. ASSUME NEW i \in 1 .. index - 1 PROVE s[i] < k
    <3>1. i \in 1 .. Len(s) /\ index - 1 \in 1 .. Len(s) /\ index # 1
      BY <2>1, <2>2
    <3>2. s[index - 1] < k /\ s[index - 1] \in Int /\ s[i] \in Int
      BY <1>2, <2>1, <3>1
    <3>3. i = index - 1 \/ i < index - 1
      BY <2>1, <2>2
    <3>4. i < index - 1 => s[i] < s[index - 1]
      BY <3>1 DEF Ascending
    <3> QED BY <2>1, <3>2, <3>3, <3>4
  <2>3. ASSUME NEW i \in index .. Len(s) PROVE k < s[i]
    <3>1. i \in 1 .. Len(s) /\ (i = index \/ index < i)
      BY <2>1
    <3>2. index < i => s[index] < s[i]
      BY <2>1, <3>1 DEF Ascending
    <3> QED BY <1>2, <2>1, <3>1, <3>2
  <2>4. index \in 1 .. Len(s) + 1 /\ Place(s, k, index) = index
    BY <1>2, <2>1 DEF Place
  <2> QED BY <2>2, <2>3, <2>4 DEF RightPlace
<1> QED BY <1>1, <1>2

\* There the array stays sorted; so it does when entries are taken out.
LEMMA InsertAscends ==
  ASSUME NEW s \in Seq(Key), Ascending(s), NEW k \in Key, NEW p, RightPlace(s, p, k)
  PROVE  Ascending(InsertAt(s, p, k))
<1> DEFINE r == InsertAt(s, p, k)
<1>1. p \in 1 .. Len(s) + 1
  BY DEF RightPlace
<1>2. /\ Len(r) = Len(s) + 1 /\ Len(s) \in Nat
      /\ \A j \in 1 .. Len(s) + 1 :
           r[j] = IF j < p THEN s[j] ELSE IF j = p THEN k ELSE s[j - 1]
  <2>1. Len(s) \in Nat
    OBVIOUS
  <2> DEFINE T == Key
  <2>2. s \in Seq(T) /\ k \in T
    OBVIOUS
  <2> HIDE DEF T
  <2>3. /\ InsertAt(s, p, k) \in Seq(T)
        /\ Len(InsertAt(s, p, k)) = Len(s) + 1
        /\ \A j \in 1 .. Len(s) + 1 :
             InsertAt(s, p, k)[j] = IF j < p THEN s[j] ELSE IF j = p THEN k ELSE s[j - 1]
    BY <1>1, <2>2, InsertAtIndex
  <2> QED BY <2>1, <2>3
<1>3. k \in Int /\ \A i \in 1 .. Len(s) : s[i] \in Int
  <2>1. k \in Int
    BY CacheAssumption
  <2> QED BY <2>1, ArrayOfKeys
<1> HIDE DEF r
<1>4. ASSUME NEW i \in 1 .. Len(s) + 1, NEW j \in 1 .. Len(s) + 1, i < j
      PROVE  r[i] < r[j]
  <2>1. CASE j < p
    <3>1. i \in 1 .. Len(s) /\ j \in 1 .. Len(s) /\ r[i] = s[i] /\ r[j] = s[j]
      BY <1>1, <1>2, <1>4, <2>1
    <3> QED BY <1>4, <3>1 DEF Ascending
  <2>2. CASE j = p
    BY <1>1, <1>2, <1>4, <2>2 DEF RightPlace
  <2>3. CASE j > p
    <3>1. j - 1 \in p .. Len(s) /\ j - 1 \in 1 .. Len(s) /\ r[j] = s[j - 1]
      BY <1>1, <1>2, <2>3
    <3>2. k < s[j - 1]
      BY <3>1 DEF RightPlace
    <3>3. CASE i < p
      <4>1. i \in 1 .. p - 1 /\ i \in 1 .. Len(s) /\ r[i] = s[i]
        BY <1>1, <1>2, <3>3
      <4>2. s[i] < k
        BY <4>1 DEF RightPlace
      <4> QED BY <1>3, <3>1, <3>2, <4>1, <4>2
    <3>4. CASE i = p
      BY <1>2, <3>1, <3>2, <3>4
    <3>5. CASE i > p
      <4>1. i - 1 \in 1 .. Len(s) /\ r[i] = s[i - 1] /\ i - 1 < j - 1
        BY <1>1, <1>2, <1>4, <3>5
      <4> QED BY <3>1, <4>1 DEF Ascending
    <3> QED BY <1>1, <3>3, <3>4, <3>5
  <2> QED BY <1>1, <2>1, <2>2, <2>3
<1> QED BY <1>2, <1>4 DEF Ascending, r

\* An ascending array from which entries are removed is one.
LEMMA OnlyAscends ==
  ASSUME NEW s \in Seq(Key), Ascending(s), NEW S
  PROVE  Ascending(Only(s, S))
<1> DEFINE r == Only(s, S)
<1>1. PICK f : Picks(f, r, s, S, Len(s))
  BY OnlyProperties
<1> HIDE DEF r
<1>2. ASSUME NEW i \in 1 .. Len(r), NEW j \in 1 .. Len(r), i < j PROVE r[i] < r[j]
  <2>1. /\ f[i] \in 1 .. Len(s) /\ f[j] \in 1 .. Len(s) /\ f[i] < f[j]
        /\ r[i] = s[f[i]] /\ r[j] = s[f[j]]
    BY <1>1, <1>2 DEF Picks
  <2> QED BY <2>1 DEF Ascending
<1> QED BY <1>2 DEF Ascending, r

-----------------------------------------------------------------------------
\* Purging and flushing keep the array in order and the size right; neither
\* adds to the size.
LEMMA PurgeSorted ==
  ASSUME NEW c, NEW marked, Good(c), Sorted(c)
  PROVE  Sorted(Purge(c, marked))
<1> DEFINE gone == marked \cap Unreferenced(c)
           d == Purge(c, marked)
<1>1. Record(c)
  BY DEF Good, Shape
<1>2. /\ d.order = Only(c.order, Key \ gone)
      /\ d.entry = [k \in Key |-> IF k \in gone THEN None ELSE c.entry[k]]
      /\ d.capacity = c.capacity
  <2>1. Purged(c, marked, d)
    BY <1>1, PurgeFields
  <2> QED BY <2>1 DEF Purged
<1> HIDE DEF gone, d
<1>3. c.order \in Seq(Key) /\ Ascending(c.order) /\ ToSet(c.order) = {k \in Key : In(c, k)}
      /\ c.capacity \in Nat /\ Len(c.order) < c.capacity
  BY DEF Sorted
<1>4. /\ d.order \in Seq(Key) /\ Len(d.order) <= Len(c.order)
      /\ ToSet(d.order) = ToSet(c.order) \cap (Key \ gone)
  BY <1>2, <1>3, OnlySet
<1>5. Ascending(d.order)
  BY <1>2, <1>3, OnlyAscends
<1>6. \A k \in Key : In(d, k) <=> In(c, k) /\ k \notin gone
  BY <1>2 DEF In, None
<1>7. ToSet(d.order) = {k \in Key : In(d, k)}
  BY <1>3, <1>4, <1>6
<1>8. Len(d.order) \in Nat /\ Len(c.order) \in Nat
  BY <1>3, <1>4
<1>9. Len(d.order) < d.capacity /\ d.capacity \in Nat
  BY <1>2, <1>3, <1>4, <1>8
<1> QED BY <1>4, <1>5, <1>7, <1>9 DEF Sorted, d

\* The size that cache_purge subtracts is that of the entries it removes.
LEMMA PurgeSized ==
  ASSUME NEW c, NEW marked, Good(c), Sized(c)
  PROVE  Sized(Purge(c, marked)) /\ Purge(c, marked).size <= c.size
<1> DEFINE gone == marked \cap Unreferenced(c)
           d == Purge(c, marked)
           kept == {k \in Key : In(d, k)}
           all == {k \in Key : In(c, k)}
           v == [k \in Key |-> c.entry[k].size]
           w == [k \in Key |-> d.entry[k].size]
<1>1. Record(c)
  BY DEF Good, Shape
<1>2. /\ d.entry = [k \in Key |-> IF k \in gone THEN None ELSE c.entry[k]]
      /\ d.size = c.size - SizeSum(c, gone)
  <2>1. Purged(c, marked, d)
    BY <1>1, PurgeFields
  <2> QED BY <2>1 DEF Purged
<1>3. gone \in SUBSET all /\ gone \in SUBSET Key
  BY DEF Unreferenced
<1> HIDE DEF gone, d
<1>4. \A k \in Key : /\ In(d, k) <=> In(c, k) /\ k \notin gone
                     /\ k \in gone => d.entry[k].size = 0
                     /\ k \notin gone => d.entry[k].size = c.entry[k].size
  BY <1>2 DEF In, None
<1>5. all = kept \cup gone /\ kept \cap gone = {}
  BY <1>3, <1>4
<1>6. /\ \A k \in Key : c.entry[k].size \in Nat
      /\ c.size = SizeSum(c, all) /\ c.size \in Int /\ c.size <= MaxSize
  BY DEF Sized
<1>7. \A k \in Key : v[k] \in Nat /\ v[k] \in Int /\ (k \in kept => w[k] = v[k])
  BY <1>4, <1>6
<1>8. IsFiniteSet(kept) /\ IsFiniteSet(gone) /\ kept \in SUBSET Key
  <2>1. IsFiniteSet(Key)
    BY CacheAssumption
  <2>2. kept \in SUBSET Key
    OBVIOUS
  <2> QED BY <1>3, <2>1, <2>2, FS_Subset
<1> HIDE DEF kept, all, v, w
<1>9. SumFunctionOnSet(v, all) = SumFunctionOnSet(v, kept) + SumFunctionOnSet(v, gone)
  BY <1>3, <1>5, <1>7, <1>8, SumUnion
<1>10. SumFunctionOnSet(w, kept) = SumFunctionOnSet(v, kept)
  BY <1>7, <1>8, SumSame
<1>11. SumFunctionOnSet(v, kept) \in Nat /\ SumFunctionOnSet(v, gone) \in Nat
  BY <1>3, <1>7, <1>8, SumNat
<1>12. /\ c.size = SumFunctionOnSet(v, all) /\ SizeSum(c, gone) = SumFunctionOnSet(v, gone)
       /\ SizeSum(d, kept) = SumFunctionOnSet(w, kept)
  BY <1>6 DEF SizeSum, v, w
<1>13. d.size = SizeSum(d, kept) /\ d.size \in Int /\ d.size <= c.size /\ d.size <= MaxSize
  <2> DEFINE x == SumFunctionOnSet(v, kept)
             y == SumFunctionOnSet(v, gone)
  <2>1. c.size = x + y /\ d.size = c.size - y /\ SizeSum(d, kept) = x /\ x \in Nat /\ y \in Nat
    BY <1>2, <1>9, <1>10, <1>11, <1>12, Zenon
  <2>2. MaxSize \in Nat /\ c.size \in Int /\ c.size <= MaxSize
    BY <1>6, CacheAssumption
  <2> HIDE DEF x, y
  <2> QED BY <2>1, <2>2
<1>14. \A k \in Key : d.entry[k].size \in Nat
  BY <1>4, <1>6
<1> QED BY <1>13, <1>14 DEF Sized, d, kept

\* cache_flush keeps the array in order and makes the cache no larger.
LEMMA FlushFits ==
  ASSUME NEW c, Good(c), Sorted(c), Sized(c)
  PROVE  Sorted(Flush(c)) /\ Sized(Flush(c)) /\ Flush(c).size <= c.size
<1> DEFINE p == Purge(c, Unreferenced(c))
           d == Flush(c)
<1>1. Sorted(p) /\ Sized(p) /\ p.size <= c.size
  BY PurgeSorted, PurgeSized
<1>2. Record(c)
  BY DEF Good, Shape
<1>3. /\ d.order = p.order /\ d.entry = p.entry /\ d.size = p.size
      /\ d.capacity = IF Len(p.order) + Grow < p.capacity THEN Len(p.order) + Grow
                      ELSE p.capacity
  BY <1>2, FlushFields, Zenon
<1> HIDE DEF p, d
<1>4. \A k \in Key : In(d, k) <=> In(p, k)
  BY <1>3 DEF In
<1>5. d.capacity \in Nat /\ Len(d.order) < d.capacity
  <2>1. Grow \in Nat \ {0}
    BY CacheAssumption
  <2>2. p.capacity \in Nat /\ Len(p.order) < p.capacity /\ Len(p.order) \in Nat
    BY <1>1 DEF Sorted
  <2> QED BY <1>3, <2>1, <2>2
<1>6. Sorted(d)
  BY <1>1, <1>3, <1>4, <1>5 DEF Sorted
<1>7. Sized(d)
  <2>1. {k \in Key : In(d, k)} = {k \in Key : In(p, k)}
    BY <1>4
  <2> QED BY <1>1, <1>3, <2>1 DEF Sized, SizeSum
<1> QED BY <1>1, <1>3, <1>6, <1>7 DEF d

\* So does making room; and when it succeeds there is that much room.
LEMMA MakeRoomFits ==
  ASSUME NEW c, NEW size \in Int, Good(c), Sorted(c), Sized(c)
  PROVE  LET m == MakeRoom(c, size)
             d == m.cache IN
         /\ Sorted(d) /\ Sized(d) /\ d.size <= c.size
         /\ m.ok => d.size + size <= MaxSize
<1> DEFINE m == MakeRoom(c, size)
           p == Purge(c, ToEvict(c, size))
<1>1. Sorted(p) /\ Sized(p) /\ p.size <= c.size
  BY PurgeSorted, PurgeSized
<1>2. /\ m.cache = c \/ m.cache = p
      /\ m.ok => MaxSize - m.cache.size >= size
  BY DEF MakeRoom
<1> HIDE DEF m, p
<1>3. c.size \in Int /\ m.cache.size \in Int /\ MaxSize \in Int
  BY <1>1, <1>2, CacheAssumption DEF Sized
<1>4. Sorted(m.cache) /\ Sized(m.cache) /\ m.cache.size <= c.size
  <2>1. CASE m.cache = c
    <3>1. c.size <= c.size
      BY <1>3
    <3> QED BY <2>1, <3>1
  <2>2. CASE m.cache = p
    BY <1>1, <2>2
  <2> QED BY <1>2, <2>1, <2>2
<1>5. m.ok => m.cache.size + size <= MaxSize
  BY <1>2, <1>3
<1> QED BY <1>4, <1>5 DEF m

\* Inserting a new key at its place keeps the array in order and with a slot to
\* spare; it adds the entry's size.
LEMMA InsertFits ==
  ASSUME NEW c, NEW k \in Key, NEW index, NEW b \in Block,
         Good(c), Sorted(c), Sized(c), ~In(c, k), c.size + SizeOf[k] <= MaxSize
  PROVE  LET d == Insert(c, k, Place(c.order, k, index), b) IN Sorted(d) /\ Sized(d)
<1> DEFINE p == Place(c.order, k, index)
           d == Insert(c, k, p, b)
           e == [None EXCEPT !.size = SizeOf[k], !.block = b]
           all == {j \in Key : In(c, j)}
           v == [j \in Key |-> c.entry[j].size]
           w == [j \in Key |-> d.entry[j].size]
<1>1. Record(c)
  BY DEF Good, Shape
<1>2. /\ d.order = InsertAt(c.order, p, k)
      /\ d.entry = [c.entry EXCEPT ![k] = e]
      /\ d.size = c.size + SizeOf[k]
      /\ d.capacity = IF Len(c.order) = c.capacity - 1 THEN c.capacity + Grow
                      ELSE c.capacity
  <2>1. EntryInserted(c, k, p, b, d)
    BY <1>1, InsertFields
  <2> QED BY <2>1 DEF EntryInserted
<1>3. e.size = SizeOf[k] /\ e.block = b /\ b # NoBlock /\ SizeOf[k] \in Nat
      /\ Grow \in Nat \ {0} /\ IsFiniteSet(Key) /\ MaxSize \in Int
  BY CacheAssumption DEF None
<1>4. k \notin all /\ all \in SUBSET Key
  OBVIOUS
<1>5. c.order \in Seq(Key) /\ Ascending(c.order) /\ ToSet(c.order) = all
      /\ c.capacity \in Nat /\ Len(c.order) < c.capacity
  BY DEF Sorted
<1>6. /\ \A j \in Key : c.entry[j].size \in Nat
      /\ c.size = SizeSum(c, all) /\ c.size \in Int
  BY DEF Sized
<1>7. RightPlace(c.order, p, k)
  BY <1>4, <1>5, PlaceIsRight
<1> HIDE DEF d, e, p
<1>8. /\ d.entry[k] = e
      /\ \A j \in Key \ {k} : d.entry[j] = c.entry[j]
  BY <1>2 DEF Good, Shape
<1>9. /\ In(d, k) /\ \A j \in Key \ {k} : In(d, j) <=> In(c, j)
      /\ w[k] = SizeOf[k] /\ \A j \in Key \ {k} : w[j] = v[j]
      /\ \A j \in Key : v[j] \in Int /\ w[j] \in Nat
  BY <1>3, <1>6, <1>8 DEF In
<1>10. {j \in Key : In(d, j)} = all \cup {k}
  BY <1>9
<1> HIDE DEF all, v, w
<1>11. Sorted(d)
  <2>1. p \in 1 .. Len(c.order) + 1
    BY <1>7 DEF RightPlace
  <2>2. d.order \in Seq(Key) /\ Len(d.order) = Len(c.order) + 1
    BY <1>2, <1>5, <2>1, InsertAtIndex
  <2>3. ToSet(d.order) = all \cup {k}
    BY <1>2, <1>5, <2>1, InsertAtSet
  <2>4. Ascending(d.order)
    BY <1>2, <1>5, <1>7, InsertAscends
  <2>5. d.capacity \in Nat /\ Len(d.order) < d.capacity
    <3>1. Len(c.order) \in Nat
      BY <1>5
    <3> QED BY <1>2, <1>3, <1>5, <2>2, <3>1
  <2> QED BY <1>10, <2>2, <2>3, <2>4, <2>5 DEF Sorted
<1>12. Sized(d)
  <2>1. IsFiniteSet(all)
    BY <1>3, <1>4, FS_Subset
  <2>2. \A j \in all : w[j] = v[j] /\ v[j] \in Int /\ w[j] \in Int
    BY <1>4, <1>9
  <2>3. SumFunctionOnSet(w, all) = SumFunctionOnSet(v, all)
    BY <2>1, <2>2, SumSame
  <2>4. SumFunctionOnSet(w, all \cup {k}) = SumFunctionOnSet(w, all) + w[k]
    <3>1. w[k] \in Int
      BY <1>3, <1>9
    <3> QED BY <1>4, <2>1, <2>2, <3>1, SumAdd
  <2>5. SizeSum(d, all \cup {k}) = SumFunctionOnSet(w, all \cup {k})
        /\ SizeSum(c, all) = SumFunctionOnSet(v, all)
    BY DEF SizeSum, v, w
  <2>6. d.size = SizeSum(d, all \cup {k})
    BY <1>2, <1>6, <1>9, <2>3, <2>4, <2>5, Zenon
  <2>7. d.size \in Int /\ d.size <= MaxSize
    BY <1>2, <1>3, <1>6
  <2>8. \A j \in Key : d.entry[j].size \in Nat
    BY <1>9 DEF w
  <2> QED BY <1>10, <2>6, <2>7, <2>8 DEF Sized
<1> QED BY <1>11, <1>12 DEF d, p

\* A step that leaves the array and its blocks alone.
LEMMA SameFits ==
  ASSUME NEW c, NEW d, Sorted(c), Sized(c), SameArray(c, d),
         \A k \in Key : d.entry[k].block = c.entry[k].block
  PROVE  Sorted(d) /\ Sized(d) /\ d.size = c.size
<1>1. \A k \in Key : In(d, k) <=> In(c, k)
  BY DEF In
<1>2. {k \in Key : In(d, k)} = {k \in Key : In(c, k)}
  BY <1>1
<1>3. Sorted(d)
  BY <1>2 DEF Sorted, SameArray
<1>4. [k \in Key |-> d.entry[k].size] = [k \in Key |-> c.entry[k].size]
  BY DEF SameArray
<1>5. SizeSum(d, {k \in Key : In(d, k)}) = SizeSum(c, {k \in Key : In(c, k)})
  BY <1>2, <1>4 DEF SizeSum
<1>6. Sized(d)
  BY <1>5 DEF Sized, SameArray
<1> QED BY <1>3, <1>6 DEF SameArray

-----------------------------------------------------------------------------
\* An empty cache holds no block and no reference.
LEMMA IInvInit == Init => IInv
<1> SUFFICES ASSUME Init PROVE IInv
  OBVIOUS
<1>1. /\ Record(cache) /\ cache.entry = [k \in Key |-> None]
      /\ cache.heap = [b \in Block |-> "free"]
      /\ adding.on = FALSE /\ held = [k \in Key |-> 0]
      /\ {"on", "key"} \subseteq DOMAIN adding
  BY DEF Init, Record, NoAdd
<1>2. \A k \in Key : ~In(cache, k) /\ cache.entry[k] = None
  BY <1>1 DEF In, None
<1>3. Shape(cache)
  BY <1>1, <1>2 DEF Shape, None, BlockStates
<1>4. Consistent(cache)
  BY <1>1, <1>2 DEF Consistent, None, In
<1> QED BY <1>1, <1>2, <1>3, <1>4 DEF IInv, Good, None

\* One step: the invariant stays, and whoever holds a reference before and
\* after has the same block.
SameBlock ==
  \A k \in Key : held[k] > 0 /\ held'[k] > 0 =>
    cache'.entry[k].block = cache.entry[k].block

\* A step that keeps what is in the cache, and tells nobody.
LEMMA BecomesKeeps ==
  ASSUME NEW c, IInv, Good(c), Keeps(cache, c), cache' = c, held' = held,
         {"on", "key"} \subseteq DOMAIN adding',
         adding'.on => adding'.key \in Key /\ ~In(cache, adding'.key)
  PROVE  IInv' /\ SameBlock
<1>1. \A k \in Key : cache'.entry[k].referenceCount = held[k]
  BY DEF IInv, Keeps
<1>2. held' = [k \in Key |-> cache'.entry[k].referenceCount]
  BY <1>1 DEF IInv
<1>3. Good(cache')
  OBVIOUS
<1>4. adding'.on => adding'.key \in Key /\ ~In(cache', adding'.key)
  BY DEF Keeps
<1>5. SameBlock
  BY DEF SameBlock, IInv, Keeps
<1> QED BY <1>2, <1>3, <1>4, <1>5 DEF IInv, Good, Shape, Record, Consistent, In

\* A step that gives a key to a user.
LEMMA GivenKeeps ==
  ASSUME NEW c, NEW k \in Key, IInv, Good(c), In(c, k), Given(c, k), adding'.on = FALSE,
         {"on", "key"} \subseteq DOMAIN adding',
         \A j \in Key : /\ c.entry[j].referenceCount = cache.entry[j].referenceCount
                        /\ cache.entry[j].referenceCount > 0 =>
                             c.entry[j].block = cache.entry[j].block
  PROVE  IInv' /\ SameBlock
<1>1. cache' = Refer(c, k) /\ held' = [held EXCEPT ![k] = @ + 1]
  BY DEF Given
<1>2. /\ Good(cache')
      /\ \A j \in Key :
           /\ cache'.entry[j].referenceCount = IF j = k THEN c.entry[j].referenceCount + 1
                                               ELSE c.entry[j].referenceCount
           /\ cache'.entry[j].block = c.entry[j].block
  BY <1>1, ReferGood
<1>3. held' = [j \in Key |-> cache'.entry[j].referenceCount]
  BY <1>1, <1>2 DEF IInv
<1>4. SameBlock
  BY <1>2 DEF SameBlock, IInv
<1> QED BY <1>2, <1>3, <1>4 DEF IInv, Good, Shape, Record, Consistent, In

\* The record of a cache_add in progress keeps its fields.
LEMMA AddingFields ==
  IInv /\ [Next]_vars => {"on", "key"} \subseteq DOMAIN adding'
<1> SUFFICES ASSUME IInv, [Next]_vars PROVE {"on", "key"} \subseteq DOMAIN adding'
  OBVIOUS
<1>1. CASE adding' = adding \/ adding' = NoAdd
  BY <1>1 DEF IInv, NoAdd
<1>2. CASE AllocateFails
  BY <1>2 DEF AllocateFails, IInv
<1>3. ASSUME NEW k \in Key, AddBegin(k)
      PROVE  {"on", "key"} \subseteq DOMAIN adding'
  BY <1>3 DEF AddBegin, NoAdd
<1> QED
  BY <1>1, <1>2, <1>3
  DEF Next, FlushAll, AddFails, LockHit, Unlock, Discard, Add, vars

\* IInv is inductive, and no step moves or frees a block that is referred to.
LEMMA IInvNext == IInv /\ [Next]_vars => IInv' /\ (SameBlock \/ UNCHANGED vars)
<1> SUFFICES ASSUME IInv, [Next]_vars PROVE IInv' /\ (SameBlock \/ UNCHANGED vars)
  OBVIOUS
<1>0. {"on", "key"} \subseteq DOMAIN adding'
  BY AddingFields
<1>1. CASE FlushAll
  <2>1. cache' = Flush(cache) /\ held' = held /\ adding' = adding
    BY <1>1 DEF FlushAll, Becomes
  <2> QED BY <2>1, FlushGood, <1>0, BecomesKeeps DEF IInv
<1>2. CASE AllocateFails
  <2> DEFINE want == adding.want + (SizeOf[adding.key] \div 4)
             room == IF want > MaxSize THEN [cache |-> cache, ok |-> FALSE]
                     ELSE MakeRoom(cache, want)
             c == room.cache
  <2>1. Good(c) /\ Keeps(cache, c)
    <3>1. CASE want > MaxSize
      BY <3>1 DEF IInv, Keeps
    <3>2. CASE ~(want > MaxSize)
      BY <3>2, MakeRoomGood DEF IInv
    <3> QED BY <3>1, <3>2
  <2>2. /\ cache' = c \/ cache' = Flush(c)
        /\ held' = held
        /\ adding'.on = adding.on /\ adding'.key = adding.key /\ adding.on
    <3>1. cache' = c \/ cache' = Flush(c)
      BY <1>2 DEF AllocateFails, Becomes
    <3>2. adding'.on = adding.on /\ adding'.key = adding.key /\ adding.on
      BY <1>2 DEF AllocateFails, IInv
    <3>3. held' = held
      BY <1>2 DEF AllocateFails, Becomes
    <3> QED BY <3>1, <3>2, <3>3
  <2> HIDE DEF c
  <2>3. Good(Flush(c)) /\ Keeps(cache, Flush(c))
    BY <2>1, FlushGood, KeepsOn
  <2> QED BY <2>1, <2>2, <2>3, <1>0, BecomesKeeps DEF IInv
<1>3. CASE AddFails
  <2>1. cache' = cache /\ held' = held /\ adding'.on = FALSE
    BY <1>3 DEF AddFails, NoAdd
  <2>2. Keeps(cache, cache)
    BY DEF Keeps
  <2> QED BY <2>1, <2>2, <1>0, BecomesKeeps DEF IInv
<1>4. ASSUME NEW k \in Key, LockHit(k)
      PROVE  IInv' /\ SameBlock
  <2> DEFINE n == (cache.entry[k].hits + 1) % Width
             c == [cache EXCEPT !.entry[k].hits = n]
  <2>1. Given(c, k) /\ In(cache, k) /\ adding'.on = FALSE
    <3>1. Given(c, k)
      BY <1>4 DEF LockHit
    <3>2. In(cache, k) /\ ~adding.on /\ adding' = adding
      BY <1>4 DEF LockHit, Idle
    <3> QED BY <3>1, <3>2
  <2> HIDE DEF n
  <2>2. /\ Good(c)
        /\ \A j \in Key : /\ c.entry[j].referenceCount = cache.entry[j].referenceCount
                          /\ c.entry[j].block = cache.entry[j].block
    <3>1. Good(cache)
      BY DEF IInv
    <3> QED BY <3>1, HitGood
  <2> HIDE DEF c
  <2>3. In(c, k)
    BY <2>1, <2>2 DEF In
  <2> QED BY <2>1, <2>2, <2>3, <1>0, GivenKeeps
<1>5. ASSUME NEW k \in Key, AddBegin(k)
      PROVE  IInv' /\ SameBlock
  <2> DEFINE c == MakeRoom(cache, SizeOf[k]).cache
  <2>1. cache' = c /\ held' = held /\ ~In(cache, k)
    BY <1>5 DEF AddBegin, Becomes
  <2>2. adding'.on => adding'.key = k
    BY <1>5 DEF AddBegin, NoAdd
  <2>3. Good(c) /\ Keeps(cache, c)
    BY MakeRoomGood DEF IInv
  <2> HIDE DEF c
  <2> QED BY <2>1, <2>2, <2>3, <1>0, BecomesKeeps
<1>6. ASSUME NEW k \in Key, Unlock(k)
      PROVE  IInv' /\ SameBlock
  <2> DEFINE n == cache.entry[k].referenceCount - 1
             d == [cache EXCEPT !.entry[k].referenceCount = n,
                                !.heap[cache.entry[k].block] = IF n = 0 THEN "unlocked" ELSE @]
  <2>1. /\ cache' = d /\ held' = [held EXCEPT ![k] = @ - 1] /\ held[k] > 0
        /\ adding' = adding /\ ~adding.on
    BY <1>6 DEF Unlock, Idle
  <2>2. cache.entry[k].referenceCount > 0
    BY <2>1 DEF IInv
  <2>3. /\ Good(d)
        /\ \A j \in Key :
             /\ d.entry[j].referenceCount = IF j = k THEN cache.entry[j].referenceCount - 1
                                            ELSE cache.entry[j].referenceCount
             /\ d.entry[j].block = cache.entry[j].block
    BY <2>2, UnlockGood DEF IInv
  <2> HIDE DEF n, d
  <2>4. held' = [j \in Key |-> cache'.entry[j].referenceCount]
    BY <2>1, <2>3 DEF IInv
  <2>5. SameBlock
    BY <2>1, <2>3 DEF SameBlock
  <2> QED BY <2>1, <2>3, <2>4, <2>5 DEF IInv, Good, Shape, Record, Consistent, In
<1>7. ASSUME NEW k \in Key, Discard(k)
      PROVE  IInv' /\ SameBlock
  <2>1. cache' = Purge(cache, {k}) /\ held' = held /\ adding' = adding
    BY <1>7 DEF Discard, Becomes
  <2> QED BY <2>1, PurgeGood, <1>0, BecomesKeeps DEF IInv
<1>8. ASSUME NEW b \in Block, Add(b)
      PROVE  IInv' /\ SameBlock
  <2> DEFINE k == adding.key
             c == Insert(cache, k, Place(cache.order, k, adding.index), b)
  <2>1. Given(c, k) /\ adding.on /\ cache.heap[b] = "free" /\ adding'.on = FALSE
    BY <1>8 DEF Add, NoAdd
  <2>2. k \in Key /\ ~In(cache, k)
    BY <2>1 DEF IInv
  <2>3. /\ Good(c) /\ In(c, k)
        /\ \A j \in Key : /\ c.entry[j].referenceCount = cache.entry[j].referenceCount
                          /\ cache.entry[j].referenceCount > 0 =>
                               c.entry[j].block = cache.entry[j].block
    BY <2>1, <2>2, InsertGood DEF IInv
  <2> HIDE DEF c
  <2> QED BY <2>1, <2>2, <2>3, <1>0, GivenKeeps
<1>9. CASE UNCHANGED vars
  <2>1. cache' = cache /\ held' = held /\ adding' = adding
    BY <1>9 DEF vars
  <2> QED BY <1>9, <2>1 DEF IInv, Good, Shape, Record, Consistent, In
<1> QED BY <1>1, <1>2, <1>3, <1>4, <1>5, <1>6, <1>7, <1>8, <1>9 DEF Next

-----------------------------------------------------------------------------
\* While a user holds a reference the entry is in the cache, counts it, and
\* its block is locked (cache_lock, cache_unlock).
THEOREM UsersPointersAreGood == Spec => []HeldIsPinned
<1>1. IInv => HeldIsPinned
  <2> SUFFICES ASSUME IInv, NEW k \in Key
               PROVE  /\ cache.entry[k].referenceCount = held[k]
                      /\ held[k] > 0 => /\ In(cache, k)
                                        /\ cache.heap[cache.entry[k].block] = "locked"
    BY DEF HeldIsPinned
  <2>1. cache.entry[k].referenceCount = held[k] /\ held[k] \in Nat
    BY DEF IInv, Good, Shape
  <2> QED BY <2>1 DEF IInv, Good, Consistent
<1> QED
  BY <1>1, IInvInit, IInvNext, PTL DEF Spec

\* No step gives a held entry another block: the pointer stays what it was,
\* through eviction, flushing and the adding of other entries.
THEOREM HeldBlocksStay == Spec => HeldKeepsBlock
<1>1. IInv /\ [Next]_vars =>
        [\A k \in Key : held[k] > 0 /\ held'[k] > 0 =>
           cache'.entry[k].block = cache.entry[k].block]_vars
  BY IInvNext DEF SameBlock
<1> QED
  BY <1>1, IInvInit, IInvNext, PTL DEF Spec, HeldKeepsBlock

\* Every block of the heap belongs to exactly one entry, and is locked just
\* while that entry has references.
THEOREM NoBlockIsLost == Spec => []BlocksAccountedFor
<1>1. IInv => BlocksAccountedFor
  <2> SUFFICES ASSUME IInv, NEW b \in Block
               PROVE  LET owners == {k \in Key : cache.entry[k].block = b} IN
                      CASE cache.heap[b] = "free"     -> owners = {}
                        [] cache.heap[b] = "unlocked" ->
                             /\ Cardinality(owners) = 1
                             /\ owners \subseteq Unreferenced(cache)
                        [] cache.heap[b] = "locked"   ->
                             /\ Cardinality(owners) = 1
                             /\ owners \cap Unreferenced(cache) = {}
    BY DEF BlocksAccountedFor
  <2> DEFINE owners == {k \in Key : cache.entry[k].block = b}
  <2>1. b # NoBlock /\ cache.heap[b] \in BlockStates
    BY CacheAssumption DEF IInv, Good, Shape
  <2>2. \A k \in owners : /\ k \in Key /\ In(cache, k)
                          /\ cache.heap[b] = IF cache.entry[k].referenceCount = 0
                                             THEN "unlocked" ELSE "locked"
    BY <2>1 DEF IInv, Good, Consistent, In
  <2>3. CASE cache.heap[b] = "free"
    BY <2>2, <2>3
  <2>4. CASE cache.heap[b] # "free"
    <3>0. PICK k \in Key : cache.entry[k].block = b
      BY <2>4 DEF IInv, Good, Consistent
    <3>1. owners = {k}
      <4>1. \A j \in Key : cache.entry[j].block = b => j = k
        BY <2>1, <3>0 DEF IInv, Good, Consistent, In
      <4> QED BY <3>0, <4>1
    <3>2. Cardinality(owners) = 1
      BY <3>1, FS_Singleton
    <3>3. k \in owners
      BY <3>1
    <3> HIDE DEF owners
    <3>4. cache.heap[b] = "unlocked" =>
            owners \subseteq Unreferenced(cache)
      BY <2>2, <3>1, <3>3 DEF Unreferenced
    <3>5. cache.heap[b] = "locked" => owners \cap Unreferenced(cache) = {}
      BY <2>2, <3>1, <3>3 DEF Unreferenced
    <3> QED BY <2>1, <2>4, <3>2, <3>4, <3>5 DEF BlockStates, owners
  <2> QED BY <2>3, <2>4
<1> QED
  BY <1>1, IInvInit, IInvNext, PTL DEF Spec

-----------------------------------------------------------------------------
\* An empty array is in order, and of size 0.
LEMMA ArrayInit == Init => ArrayInv
<1> SUFFICES ASSUME Init PROVE ArrayInv
  OBVIOUS
<1>1. /\ cache.order = << >> /\ cache.entry = [k \in Key |-> None] /\ cache.size = 0
      /\ cache.capacity = InitialCapacity /\ adding.on = FALSE
  BY DEF Init, NoAdd
<1>2. \A k \in Key : ~In(cache, k) /\ cache.entry[k].size = 0
  BY <1>1 DEF In, None
<1>3. {k \in Key : In(cache, k)} = {}
  BY <1>2
<1>4. Sorted(cache)
  <2>1. cache.order \in Seq(Key) /\ Len(cache.order) = 0 /\ ToSet(cache.order) = {}
    BY <1>1 DEF ToSet
  <2>2. cache.capacity \in Nat /\ 0 < cache.capacity
    BY <1>1, CacheAssumption
  <2>3. Ascending(cache.order)
    BY <2>1 DEF Ascending
  <2> QED BY <1>3, <2>1, <2>2, <2>3 DEF Sorted
<1>5. Sized(cache)
  <2>1. SizeSum(cache, {}) = 0
    BY SumOfEmpty DEF SizeSum
  <2>2. 0 <= MaxSize
    BY CacheAssumption
  <2>3. cache.size = SizeSum(cache, {k \in Key : In(cache, k)})
    BY <1>1, <1>3, <2>1
  <2>4. cache.size = 0 /\ \A k \in Key : cache.entry[k].size \in Nat
    BY <1>1, <1>2
  <2> QED BY <2>2, <2>3, <2>4 DEF Sized
<1> QED BY <1>1, <1>4, <1>5, IInvInit DEF ArrayInv

\* A step after which the cache is c, no larger than before, while nothing is
\* being added or still the same.
LEMMA SmallerFits ==
  ASSUME NEW c, ArrayInv, IInv', Sorted(c), Sized(c), c.size <= cache.size, cache' = c,
         adding'.on => adding.on /\ adding'.key = adding.key
  PROVE  ArrayInv'
<1>1. adding'.on => cache'.size + SizeOf[adding'.key] <= MaxSize
  <2> SUFFICES ASSUME adding'.on PROVE c.size + SizeOf[adding.key] <= MaxSize
    OBVIOUS
  <2>1. adding.on /\ adding.key \in Key /\ cache.size + SizeOf[adding.key] <= MaxSize
    BY DEF ArrayInv, IInv
  <2>2. SizeOf[adding.key] \in Int /\ MaxSize \in Int
    <3>1. MaxSize \in Int /\ \A k \in Key : SizeOf[k] \in Int
      BY CacheAssumption
    <3> QED BY <2>1, <3>1
  <2>3. c.size \in Int /\ cache.size \in Int
    BY DEF Sized, ArrayInv
  <2> QED BY <2>1, <2>2, <2>3
<1>2. Sorted(cache') /\ Sized(cache')
  OBVIOUS
<1> QED BY <1>1, <1>2 DEF ArrayInv, Sorted, Sized, In, SizeSum

\* A step that gives a key to a user.
LEMMA GivenFits ==
  ASSUME NEW c, NEW k \in Key, IInv', Good(c), In(c, k), Sorted(c), Sized(c), Given(c, k),
         adding'.on = FALSE
  PROVE  ArrayInv'
<1>1. cache' = Refer(c, k)
  BY DEF Given
<1>2. SameArray(c, cache') /\ \A j \in Key : cache'.entry[j].block = c.entry[j].block
  BY <1>1, ReferGood
<1>3. Sorted(cache') /\ Sized(cache')
  BY <1>2, SameFits
<1> QED BY <1>3 DEF ArrayInv, Sorted, Sized, In, SizeSum

\* ArrayInv is inductive.
LEMMA ArrayNext == ArrayInv /\ [Next]_vars => ArrayInv'
<1> SUFFICES ASSUME ArrayInv, [Next]_vars PROVE ArrayInv'
  OBVIOUS
<1>0. /\ IInv /\ IInv' /\ Good(cache) /\ Sorted(cache) /\ Sized(cache)
      /\ cache.size \in Int /\ cache.size <= cache.size
  <2>1. IInv /\ Sorted(cache) /\ Sized(cache) /\ Good(cache)
    BY DEF ArrayInv, IInv
  <2>2. cache.size \in Int
    BY <2>1 DEF Sized
  <2>3. cache.size <= cache.size
    BY <2>2
  <2> QED BY <2>1, <2>2, <2>3, IInvNext
<1>1. CASE FlushAll
  <2>1. cache' = Flush(cache) /\ adding' = adding
    BY <1>1 DEF FlushAll, Becomes
  <2>2. Sorted(Flush(cache)) /\ Sized(Flush(cache)) /\ Flush(cache).size <= cache.size
    BY <1>0, FlushFits
  <2> QED BY <1>0, <2>1, <2>2, SmallerFits
<1>2. CASE AllocateFails
  <2> DEFINE want == adding.want + (SizeOf[adding.key] \div 4)
             room == IF want > MaxSize THEN [cache |-> cache, ok |-> FALSE]
                     ELSE MakeRoom(cache, want)
             c == room.cache
             p == Purge(cache, ToEvict(cache, want))
  <2>1. Good(p) /\ Sorted(p) /\ Sized(p) /\ p.size <= cache.size
    BY <1>0, PurgeGood, PurgeSorted, PurgeSized
  <2>2. c = cache \/ c = p
    <3>1. CASE want > MaxSize
      BY <3>1
    <3>2. CASE ~(want > MaxSize)
      BY <3>2 DEF MakeRoom
    <3> QED BY <3>1, <3>2
  <2>3. /\ cache' = c \/ cache' = Flush(c)
        /\ adding.on /\ adding'.key = adding.key
    <3>1. cache' = c \/ cache' = Flush(c)
      BY <1>2 DEF AllocateFails, Becomes
    <3>2. adding'.key = adding.key /\ adding.on
      BY <1>0, <1>2 DEF AllocateFails, IInv
    <3> QED BY <3>1, <3>2
  <2> HIDE DEF c, p
  <2>4. Good(c) /\ Sorted(c) /\ Sized(c) /\ c.size <= cache.size
    BY <1>0, <2>1, <2>2
  <2>5. Sorted(Flush(c)) /\ Sized(Flush(c)) /\ Flush(c).size <= cache.size
    <3>1. Sorted(Flush(c)) /\ Sized(Flush(c)) /\ Flush(c).size <= c.size
      BY <2>4, FlushFits
    <3>2. Flush(c).size \in Int /\ c.size \in Int
      BY <2>4, <3>1 DEF Sized
    <3> QED BY <1>0, <2>4, <3>1, <3>2
  <2> QED BY <1>0, <2>3, <2>4, <2>5, SmallerFits
<1>3. CASE AddFails
  <2>1. cache' = cache /\ adding'.on = FALSE
    BY <1>3 DEF AddFails, NoAdd
  <2> QED BY <1>0, <2>1, SmallerFits
<1>4. ASSUME NEW k \in Key, LockHit(k) PROVE ArrayInv'
  <2> DEFINE n == (cache.entry[k].hits + 1) % Width
             c == [cache EXCEPT !.entry[k].hits = n]
  <2>1. Given(c, k) /\ In(cache, k) /\ adding'.on = FALSE
    <3>1. Given(c, k)
      BY <1>4 DEF LockHit
    <3>2. In(cache, k) /\ ~adding.on /\ adding' = adding
      BY <1>4 DEF LockHit, Idle
    <3> QED BY <3>1, <3>2
  <2> HIDE DEF n
  <2>2. /\ Good(c) /\ SameArray(cache, c)
        /\ \A j \in Key : /\ c.entry[j].referenceCount = cache.entry[j].referenceCount
                          /\ c.entry[j].block = cache.entry[j].block
    BY <1>0, HitGood
  <2> HIDE DEF c
  <2>3. In(c, k) /\ Sorted(c) /\ Sized(c)
    BY <1>0, <2>1, <2>2, SameFits DEF In
  <2> QED BY <1>0, <2>1, <2>2, <2>3, GivenFits
<1>5. ASSUME NEW k \in Key, AddBegin(k) PROVE ArrayInv'
  <2> DEFINE m == MakeRoom(cache, SizeOf[k])
             c == m.cache
  <2>1. /\ cache' = c
        /\ adding'.on => m.ok /\ adding'.key = k
    BY <1>5 DEF AddBegin, Becomes, NoAdd
  <2>2. SizeOf[k] \in Int
    BY CacheAssumption
  <2>3. Sorted(c) /\ Sized(c) /\ (m.ok => c.size + SizeOf[k] <= MaxSize)
    BY <1>0, <2>2, MakeRoomFits
  <2> HIDE DEF m, c
  <2>4. Sorted(cache') /\ Sized(cache')
    BY <2>1, <2>3
  <2>5. adding'.on => cache'.size + SizeOf[adding'.key] <= MaxSize
    BY <2>1, <2>3
  <2> QED BY <1>0, <2>4, <2>5 DEF ArrayInv, Sorted, Sized, In, SizeSum
<1>6. ASSUME NEW k \in Key, Unlock(k) PROVE ArrayInv'
  <2> DEFINE n == cache.entry[k].referenceCount - 1
             d == [cache EXCEPT !.entry[k].referenceCount = n,
                                !.heap[cache.entry[k].block] = IF n = 0 THEN "unlocked" ELSE @]
  <2>1. cache' = d /\ held[k] > 0 /\ adding'.on = adding.on /\ ~adding.on
    BY <1>6 DEF Unlock, Idle
  <2>2. cache.entry[k].referenceCount > 0
    BY <1>0, <2>1 DEF IInv
  <2>3. SameArray(cache, d) /\ \A j \in Key : d.entry[j].block = cache.entry[j].block
    BY <1>0, <2>2, UnlockGood
  <2> HIDE DEF n, d
  <2>4. Sorted(d) /\ Sized(d) /\ d.size <= cache.size
    BY <1>0, <2>3, SameFits
  <2> QED BY <1>0, <2>1, <2>4, SmallerFits
<1>7. ASSUME NEW k \in Key, Discard(k) PROVE ArrayInv'
  <2>1. cache' = Purge(cache, {k}) /\ adding' = adding
    BY <1>7 DEF Discard, Becomes
  <2>2. Sorted(Purge(cache, {k})) /\ Sized(Purge(cache, {k}))
        /\ Purge(cache, {k}).size <= cache.size
    BY <1>0, PurgeSorted, PurgeSized
  <2> QED BY <1>0, <2>1, <2>2, SmallerFits
<1>8. ASSUME NEW b \in Block, Add(b) PROVE ArrayInv'
  <2> DEFINE k == adding.key
             c == Insert(cache, k, Place(cache.order, k, adding.index), b)
  <2>1. Given(c, k) /\ adding.on /\ cache.heap[b] = "free" /\ adding'.on = FALSE
    BY <1>8 DEF Add, NoAdd
  <2>2. k \in Key /\ ~In(cache, k) /\ cache.size + SizeOf[k] <= MaxSize
    BY <1>0, <2>1 DEF ArrayInv, IInv
  <2>3. Good(c) /\ In(c, k)
    BY <1>0, <2>1, <2>2, InsertGood
  <2>4. Sorted(c) /\ Sized(c)
    BY <1>0, <2>2, InsertFits
  <2> HIDE DEF c
  <2> QED BY <1>0, <2>1, <2>2, <2>3, <2>4, GivenFits
<1>9. CASE UNCHANGED vars
  <2>1. cache' = cache /\ adding' = adding
    BY <1>9 DEF vars
  <2> QED BY <1>0, <2>1, SmallerFits
<1> QED BY <1>1, <1>2, <1>3, <1>4, <1>5, <1>6, <1>7, <1>8, <1>9 DEF Next

\* The array of entries is in order of the keys without repetition, names just
\* the entries there are, and has a slot to spare (cache_insert, cache_find).
THEOREM ArrayStaysInOrder == Spec => []ArrayInOrder
<1>1. ArrayInv => ArrayInOrder
  <2> SUFFICES ASSUME ArrayInv PROVE ArrayInOrder
    OBVIOUS
  <2>1. Sorted(cache)
    BY DEF ArrayInv
  <2>2. cache.order \in Seq(Key) /\ Len(cache.order) \in Nat
    BY <2>1 DEF Sorted
  <2>3. \A i \in 1 .. Len(cache.order) - 1 : cache.order[i] < cache.order[i + 1]
    BY <2>1, <2>2 DEF Sorted, Ascending
  <2>4. Range(cache.order) = {k \in Key : In(cache, k)}
    BY <2>1 DEF Sorted, ToSet, Range
  <2> QED BY <2>1, <2>3, <2>4 DEF ArrayInOrder, Sorted
<1> QED
  BY <1>1, ArrayInit, ArrayNext, PTL DEF Spec

\* What the cache says is its size is the sum over its entries, and within its
\* bound, also when room is made over and over for one that does not come.
THEOREM SizeStaysRight == Spec => []SizeRight
<1>1. ArrayInv => SizeRight
  BY DEF ArrayInv, Sized, SizeRight
<1> QED
  BY <1>1, ArrayInit, ArrayNext, PTL DEF Spec

-----------------------------------------------------------------------------
\* The counters of use, which say what is evicted first, are numbers.
Counted(c) ==
  /\ c.hits \in Nat
  /\ \A k \in Key : c.entry[k].hits \in Nat /\ c.entry[k].mru \in Nat

\* Among any entries one is used least: cache_compare_make_room puts no other
\* before it.
LEMMA LeastUsed ==
  ASSUME NEW c, Counted(c), NEW T \in SUBSET Key, T # {}
  PROVE  \E k \in T : \A j \in T : ~LessUsed(c, j, k)
<1> DEFINE h(k) == c.entry[k].hits
           m(k) == c.entry[k].mru
           H == {h(k) : k \in T}
<1>1. \A k \in T : h(k) \in Nat /\ m(k) \in Nat
  BY DEF Counted
<1>2. PICK n \in H : \A x \in H : n <= x
  <2>1. H \in SUBSET Nat /\ H # {}
    BY <1>1
  <2> HIDE DEF H
  <2> QED BY <2>1, LeastNumber
<1> DEFINE U == {k \in T : h(k) = n}
           M == {m(k) : k \in U}
<1>3. PICK i \in M : \A x \in M : i <= x
  <2>1. M \in SUBSET Nat /\ M # {}
    BY <1>1, <1>2
  <2> HIDE DEF M
  <2> QED BY <2>1, LeastNumber
<1>4. PICK k \in U : m(k) = i
  BY <1>3
<1>5. ASSUME NEW j \in T PROVE ~LessUsed(c, j, k)
  <2>1. h(k) <= h(j) /\ h(k) \in Nat /\ h(j) \in Nat /\ m(k) \in Nat /\ m(j) \in Nat
    BY <1>1, <1>2, <1>4
  <2>2. h(j) = h(k) => m(k) <= m(j)
    BY <1>3, <1>4
  <2> QED BY <2>1, <2>2 DEF LessUsed
<1> QED BY <1>4, <1>5

\* The members of a set weigh no more than the set.
LEMMA EntryWeighs ==
  ASSUME NEW c, Sized(c), NEW k \in Key
  PROVE  SizeSum(c, {k}) = c.entry[k].size
<1> DEFINE v == [j \in Key |-> c.entry[j].size]
<1>1. v[k] \in Nat /\ v[k] = c.entry[k].size
  BY DEF Sized
<1> HIDE DEF v
<1>2. IsFiniteSet({}) /\ k \notin {} /\ {} \cup {k} = {k} /\ \A y \in {} : v[y] \in Int
  BY FS_EmptySet
<1>3. SumFunctionOnSet(v, {} \cup {k}) = SumFunctionOnSet(v, {}) + v[k]
  BY <1>1, <1>2, SumAdd
<1>4. SumFunctionOnSet(v, {}) = 0
  BY SumOfEmpty
<1>5. SumFunctionOnSet(v, {k}) = v[k]
  BY <1>1, <1>2, <1>3, <1>4
<1> QED BY <1>1, <1>5 DEF SizeSum, v

\* What is marked weighs as much as is asked for, or it is all that has no
\* references.
LEMMA MarkedSuffice ==
  ASSUME NEW c, NEW size \in Nat, Sized(c), Counted(c)
  PROVE  LET marked == ToEvict(c, size) IN
         \/ marked = Unreferenced(c)
         \/ marked \in SUBSET Unreferenced(c) /\ SizeSum(c, marked) >= size
<1> DEFINE U == Unreferenced(c)
           threshold == size + (c.size \div 5)
           UpTo(k) == {j \in U : j = k \/ LessUsed(c, j, k)}
           Huge(k) == c.entry[k].size >= threshold
           Enough == {k \in U : Huge(k) \/ SizeSum(c, UpTo(k)) >= threshold}
           first == CHOOSE k \in Enough : \A j \in Enough : ~LessUsed(c, j, k)
<1>1. ToEvict(c, size) = IF Enough = {} THEN U ELSE IF Huge(first) THEN {first} ELSE UpTo(first)
  BY DEF ToEvict
<1>2. U \in SUBSET Key
  BY DEF Unreferenced
<1>3. threshold \in Nat /\ threshold >= size
  <2>1. c.size \in Nat
    <3> DEFINE all == {k \in Key : In(c, k)}
               v == [k \in Key |-> c.entry[k].size]
    <3>1. IsFiniteSet(all)
      BY CacheAssumption, FS_Subset
    <3>2. \A k \in all : v[k] \in Nat
      BY DEF Sized
    <3>3. c.size = SumFunctionOnSet(v, all)
      BY DEF Sized, SizeSum
    <3> HIDE DEF all, v
    <3> QED BY <3>1, <3>2, <3>3, SumNat
  <2>2. c.size \div 5 \in Nat
    BY <2>1
  <2> QED BY <2>2
<1> HIDE DEF U, threshold
<1>4. CASE Enough = {}
  BY <1>1, <1>4 DEF U
<1>5. CASE Enough # {}
  <2>1. first \in Enough
    <3>1. Enough \in SUBSET Key
      BY <1>2
    <3> HIDE DEF Enough
    <3>2. \E k \in Enough : \A j \in Enough : ~LessUsed(c, j, k)
      BY <1>5, <3>1, LeastUsed
    <3> QED BY <3>2
  <2>2. first \in U /\ first \in Key /\ (Huge(first) \/ SizeSum(c, UpTo(first)) >= threshold)
    BY <1>2, <2>1
  <2> HIDE DEF Enough, first
  <2>3. CASE Huge(first)
    <3>1. ToEvict(c, size) = {first}
      BY <1>1, <1>5, <2>3
    <3>2. SizeSum(c, {first}) = c.entry[first].size /\ c.entry[first].size \in Nat
      BY <2>2, EntryWeighs DEF Sized
    <3>3. SizeSum(c, {first}) >= size
      BY <1>3, <2>3, <3>2
    <3> QED BY <2>2, <3>1, <3>3 DEF U
  <2>4. CASE ~Huge(first)
    <3>1. ToEvict(c, size) = UpTo(first) /\ UpTo(first) \in SUBSET U
      BY <1>1, <1>5, <2>4
    <3> HIDE DEF Huge
    <3>2. SizeSum(c, UpTo(first)) >= threshold
      BY <2>2, <2>4
    <3>3. SizeSum(c, UpTo(first)) \in Nat
      <4> DEFINE v == [k \in Key |-> c.entry[k].size]
                 s == UpTo(first)
      <4>1. s \in SUBSET Key /\ IsFiniteSet(s)
        BY <1>2, <3>1, CacheAssumption, FS_Subset
      <4>2. \A k \in Key : v[k] \in Nat
        BY DEF Sized
      <4> HIDE DEF s, v
      <4>3. SumFunctionOnSet(v, s) \in Nat
        BY <4>1, <4>2, SumNat
      <4> QED BY <4>3 DEF SizeSum, s, v
    <3> HIDE DEF UpTo
    <3>4. SizeSum(c, UpTo(first)) >= size
      BY <1>3, <3>2, <3>3
    <3> QED BY <3>1, <3>4 DEF U
  <2> QED BY <2>3, <2>4
<1> QED BY <1>4, <1>5

\* So cache_make_room makes the room that the entries in use leave.
LEMMA MakeRoomEnough ==
  ASSUME NEW c, NEW size \in 1 .. MaxSize, Good(c), Sized(c), Counted(c),
         SizeSum(c, {k \in Key : In(c, k)} \ Unreferenced(c)) + size <= MaxSize
  PROVE  MakeRoom(c, size).ok
<1> DEFINE all == {k \in Key : In(c, k)}
           U == Unreferenced(c)
           marked == ToEvict(c, size)
           d == Purge(c, marked)
           v == [k \in Key |-> c.entry[k].size]
           used == SumFunctionOnSet(v, all \ U)
           unused == SumFunctionOnSet(v, U)
<1>1. MaxSize \in Nat /\ size \in Nat /\ size <= MaxSize
  BY CacheAssumption
<1>2. used \in Nat /\ unused \in Nat /\ c.size = used + unused
  <2>1. U \in SUBSET all /\ all \in SUBSET Key
    BY DEF Unreferenced
  <2>2. IsFiniteSet(all) /\ IsFiniteSet(U) /\ IsFiniteSet(all \ U)
    BY <2>1, CacheAssumption, FS_Subset
  <2>3. \A k \in Key : v[k] \in Nat /\ v[k] \in Int
    BY DEF Sized
  <2>4. c.size = SumFunctionOnSet(v, all)
    BY DEF Sized, SizeSum
  <2> HIDE DEF all, U, v
  <2>5. used \in Nat /\ unused \in Nat
    BY <2>1, <2>2, <2>3, SumNat
  <2>6. (all \ U) \cup U = all /\ (all \ U) \cap U = {}
    BY <2>1
  <2>7. SumFunctionOnSet(v, (all \ U) \cup U) = used + unused
    BY <2>1, <2>2, <2>3, <2>6, SumUnion
  <2> QED BY <2>4, <2>5, <2>6, <2>7
<1>3. used + size <= MaxSize
  BY DEF SizeSum
<1>4. d.size = c.size - SizeSum(c, marked \cap U)
  <2>1. Record(c)
    BY DEF Good, Shape
  <2>2. Purged(c, marked, d)
    BY <2>1, PurgeFields
  <2> QED BY <2>2 DEF Purged
<1>5. MaxSize - d.size >= size
  <2> DEFINE w == SizeSum(c, marked \cap U)
  <2>1. SizeSum(c, U) = unused
    BY DEF SizeSum
  <2>2. marked = U \/ (marked \in SUBSET U /\ SizeSum(c, marked) >= size)
    BY <1>1, MarkedSuffice
  <2>3. w = unused \/ w >= size
    <3> HIDE DEF marked, U, unused
    <3>1. marked \cap U = marked
      BY <2>2
    <3> QED BY <2>1, <2>2, <3>1
  <2>4. c.size <= MaxSize
    BY DEF Sized
  <2>5. w \in Int
    <3> DEFINE s == marked \cap U
    <3>1. s \in SUBSET Key
      BY DEF Unreferenced
    <3>2. \A k \in Key : v[k] \in Int
      BY DEF Sized
    <3> HIDE DEF s, v
    <3>3. IsFiniteSet(s)
      BY <3>1, CacheAssumption, FS_Subset
    <3>4. SumFunctionOnSet(v, s) \in Int
      BY <3>1, <3>2, <3>3, SumInt
    <3> QED BY <3>4 DEF SizeSum, s, v
  <2> HIDE DEF w, used, unused, d
  <2> QED BY <1>1, <1>2, <1>3, <1>4, <2>3, <2>4, <2>5 DEF w
<1> HIDE DEF d, marked
<1>6. CASE MaxSize - c.size >= size
  BY <1>1, <1>6 DEF MakeRoom
<1>7. CASE ~(MaxSize - c.size >= size)
  <2>1. ~(size > MaxSize \/ MaxSize - c.size >= size)
    BY <1>1, <1>7
  <2>2. MakeRoom(c, size).ok = (size <= MaxSize /\ MaxSize - d.size >= size)
    BY <2>1 DEF MakeRoom, d, marked
  <2> QED BY <1>1, <1>5, <2>2
<1> QED BY <1>6, <1>7

\* Every operation leaves the counters numbers: evicting and flushing,
LEMMA PurgeCounted ==
  ASSUME NEW c, NEW marked, Good(c), Counted(c)
  PROVE  Counted(Purge(c, marked))
<1> DEFINE gone == marked \cap Unreferenced(c)
           d == Purge(c, marked)
           e == [k \in Key |-> IF k \in gone THEN None ELSE c.entry[k]]
           o == Only(c.order, Key \ gone)
           s == c.size - SizeSum(c, gone)
           h == [b \in Block |-> IF \E k \in gone : c.entry[k].block = b
                                 THEN "free" ELSE c.heap[b]]
<1>1. d = [c EXCEPT !.order = o, !.entry = e, !.size = s, !.heap = h]
  BY DEF Purge
<1>2. Record(c)
  BY DEF Good, Shape
<1> HIDE DEF d, e, o, s, h, gone
<1>3. d.entry = e /\ d.hits = c.hits
  BY <1>1, <1>2 DEF Record
<1>4. \A k \in Key : d.entry[k] = None \/ d.entry[k] = c.entry[k]
  BY <1>3 DEF e
<1>5. None.hits = 0 /\ None.mru = 0
  BY DEF None
<1> QED BY <1>3, <1>4, <1>5 DEF Counted, d

LEMMA FlushCounted ==
  ASSUME NEW c, Good(c), Counted(c)
  PROVE  Counted(Flush(c))
<1> DEFINE p == Purge(c, Unreferenced(c))
           n == IF Len(p.order) + Grow < p.capacity THEN Len(p.order) + Grow ELSE p.capacity
<1>1. Counted(p) /\ Good(p)
  BY PurgeCounted, PurgeGood
<1>2. Flush(c) = [p EXCEPT !.capacity = n]
  BY DEF Flush
<1> HIDE DEF p, n
<1>3. Flush(c).entry = p.entry /\ Flush(c).hits = p.hits
  BY <1>1, <1>2 DEF Good, Shape, Record
<1> QED BY <1>1, <1>3 DEF Counted

LEMMA MakeRoomCounted ==
  ASSUME NEW c, NEW size, Good(c), Counted(c)
  PROVE  Counted(MakeRoom(c, size).cache)
<1>1. MakeRoom(c, size).cache = c \/ MakeRoom(c, size).cache = Purge(c, ToEvict(c, size))
  BY DEF MakeRoom
<1> QED BY <1>1, PurgeCounted

\* putting an entry in the array,
LEMMA InsertCounted ==
  ASSUME NEW c, NEW k \in Key, NEW index, NEW b \in Block, Good(c), Counted(c)
  PROVE  Counted(Insert(c, k, index, b))
<1> DEFINE d == Insert(c, k, index, b)
           o == InsertAt(c.order, index, k)
           s == c.size + SizeOf[k]
           p == IF Len(c.order) = c.capacity - 1 THEN c.capacity + Grow ELSE c.capacity
           g == [None EXCEPT !.size = SizeOf[k], !.block = b]
           f == [c.entry EXCEPT ![k] = g]
           h == [c.heap EXCEPT ![b] = "unlocked"]
<1>1. d = [c EXCEPT !.order = o, !.entry = f, !.size = s, !.heap = h, !.capacity = p]
  BY DEF Insert
<1>2. g.hits = 0 /\ g.mru = 0
  BY DEF None
<1> HIDE DEF d, o, s, p, g, f, h
<1>3. d.entry = f /\ d.hits = c.hits
  BY <1>1 DEF Good, Shape, Record
<1>4. \A j \in Key : d.entry[j] = IF j = k THEN g ELSE c.entry[j]
  BY <1>3 DEF f, Good, Shape
<1> QED BY <1>2, <1>3, <1>4 DEF Counted, d

\* counting a hit of an entry, giving the counters anew, and counting a reference.
LEMMA HitCounted ==
  ASSUME NEW c, NEW k \in Key, NEW n \in Nat, Good(c), Counted(c)
  PROVE  Counted([c EXCEPT !.entry[k].hits = n])
<1> DEFINE d == [c EXCEPT !.entry[k].hits = n]
           g == [c.entry[k] EXCEPT !.hits = n]
<1>1. d.entry = [c.entry EXCEPT ![k] = g] /\ d.hits = c.hits
  BY DEF Good, Shape, Record
<1>2. g.hits = n /\ g.mru = c.entry[k].mru
  BY DEF Good, Shape
<1> HIDE DEF d, g
<1>3. \A j \in Key : d.entry[j] = IF j = k THEN g ELSE c.entry[j]
  BY <1>1 DEF Good, Shape
<1> QED BY <1>1, <1>2, <1>3 DEF Counted, d

LEMMA ResetCounted ==
  ASSUME NEW c, Record(c), c.order \in Seq(Key), Counted(c),
         \A k \in Key : DOMAIN c.entry[k] = {"size", "referenceCount", "hits", "mru", "block"}
  PROVE  Counted(ResetCounter(c))
<1> DEFINE d == ResetCounter(c)
           Later(k) == {j \in Key : In(c, j) /\ c.entry[j].mru > c.entry[k].mru}
           e == [k \in Key |-> IF In(c, k)
                               THEN [c.entry[k] EXCEPT !.mru = Cardinality(Later(k))]
                               ELSE c.entry[k]]
           n == Len(c.order)
<1>1. d.entry = e /\ d.hits = n
  <2>1. d = [c EXCEPT !.entry = e, !.hits = n]
    BY DEF ResetCounter
  <2> HIDE DEF d, e, n
  <2> QED BY <2>1 DEF Record
<1> HIDE DEF d
<1>2. n \in Nat
  OBVIOUS
<1>3. ASSUME NEW k \in Key PROVE d.entry[k].hits \in Nat /\ d.entry[k].mru \in Nat
  <2>1. Cardinality(Later(k)) \in Nat
    BY CacheAssumption, FS_Subset, FS_CardinalityType
  <2>2. d.entry[k] = c.entry[k] \/ d.entry[k] = [c.entry[k] EXCEPT !.mru = Cardinality(Later(k))]
    BY <1>1
  <2>3. DOMAIN c.entry[k] = {"size", "referenceCount", "hits", "mru", "block"}
    OBVIOUS
  <2>4. c.entry[k].hits \in Nat /\ c.entry[k].mru \in Nat
    BY DEF Counted
  <2> HIDE DEF e, Later
  <2> QED BY <2>1, <2>2, <2>3, <2>4
<1> HIDE DEF e, n
<1> QED BY <1>1, <1>2, <1>3 DEF Counted, d

LEMMA ReferCounted ==
  ASSUME NEW c, NEW k \in Key, Good(c), Sorted(c), Counted(c), In(c, k)
  PROVE  Counted(Refer(c, k))
<1> DEFINE x == c.entry[k]
           r == x.referenceCount + 1
           n == c.hits + 1
           g == [x EXCEPT !.referenceCount = r, !.mru = n]
           d == [c EXCEPT !.entry[k].referenceCount = @ + 1,
                          !.entry[k].mru = n,
                          !.hits = n,
                          !.heap[c.entry[k].block] = "locked"]
<1>1. Record(c) /\ DOMAIN c.entry = Key
      /\ DOMAIN x = {"size", "referenceCount", "hits", "mru", "block"}
  BY DEF Good, Shape
<1>2. d.entry = [c.entry EXCEPT ![k] = g] /\ d.hits = n
  <2> HIDE DEF n
  <2> QED BY <1>1 DEF Record
<1>3. g.mru = n /\ g.hits = x.hits
  <2> HIDE DEF n, x, r
  <2> QED BY <1>1
<1>4. Refer(c, k) = IF n = Width - 1 THEN ResetCounter(d) ELSE d
  BY DEF Refer
<1>5. Record(d) /\ d.order \in Seq(Key)
  <2>1. d.order = c.order /\ Record(d)
    <3> HIDE DEF n
    <3> QED BY <1>1 DEF Record
  <2> QED BY <2>1 DEF Sorted
<1>55. DOMAIN g = {"size", "referenceCount", "hits", "mru", "block"}
  <2> HIDE DEF n, x, r
  <2> QED BY <1>1
<1> HIDE DEF d, g
<1>6. \A j \in Key : d.entry[j] = IF j = k THEN g ELSE c.entry[j]
  BY <1>1, <1>2
<1>7. n \in Nat
  BY DEF Counted
<1> HIDE DEF n
<1>8. Counted(d)
  BY <1>2, <1>3, <1>6, <1>7 DEF Counted
<1>9. Counted(ResetCounter(d))
  <2>1. \A j \in Key : DOMAIN d.entry[j] = {"size", "referenceCount", "hits", "mru", "block"}
    BY <1>55, <1>6 DEF Good, Shape
  <2> QED BY <1>5, <1>8, <2>1, ResetCounted
<1> QED BY <1>4, <1>8, <1>9

\* What the theorem about room needs: the order of eviction is an order.
RoomInv == ArrayInv /\ Counted(cache)

LEMMA RoomInit == Init => RoomInv
<1> SUFFICES ASSUME Init PROVE Counted(cache)
  BY ArrayInit DEF RoomInv
<1>1. cache.hits = 0 /\ cache.entry = [k \in Key |-> None]
  BY DEF Init
<1> QED BY <1>1 DEF Counted, None

LEMMA RoomNext == RoomInv /\ [Next]_vars => RoomInv'
<1> SUFFICES ASSUME RoomInv, [Next]_vars PROVE Counted(cache')
  BY ArrayNext DEF RoomInv, Counted
<1>0. Good(cache) /\ Sorted(cache) /\ Sized(cache) /\ Counted(cache)
  BY DEF RoomInv, ArrayInv, IInv
<1>1. CASE FlushAll
  BY <1>0, <1>1, FlushCounted DEF FlushAll, Becomes
<1>2. CASE AllocateFails
  <2> DEFINE want == adding.want + (SizeOf[adding.key] \div 4)
             c == (IF want > MaxSize THEN [cache |-> cache, ok |-> FALSE]
                   ELSE MakeRoom(cache, want)).cache
  <2>1. cache' = c \/ cache' = Flush(c)
    BY <1>2 DEF AllocateFails, Becomes
  <2>2. Good(c) /\ Counted(c)
    <3>1. CASE want > MaxSize
      BY <1>0, <3>1
    <3>2. CASE ~(want > MaxSize)
      BY <1>0, <3>2, MakeRoomGood, MakeRoomCounted
    <3> QED BY <3>1, <3>2
  <2> HIDE DEF c
  <2> QED BY <2>1, <2>2, FlushCounted
<1>3. CASE AddFails
  BY <1>0, <1>3 DEF AddFails
<1>4. ASSUME NEW k \in Key, LockHit(k) PROVE Counted(cache')
  <2> DEFINE n == (cache.entry[k].hits + 1) % Width
             c == [cache EXCEPT !.entry[k].hits = n]
  <2>1. cache' = Refer(c, k) /\ In(cache, k)
    BY <1>4 DEF LockHit, Given
  <2>2. n \in Nat
    <3>1. Width \in Nat /\ Width > 0
      <4>1. Cardinality(Key) \in Nat
        BY CacheAssumption, FS_CardinalityType
      <4> QED BY <4>1, CacheAssumption
    <3> QED BY <1>0, <3>1 DEF Counted
  <2> HIDE DEF n
  <2>3. /\ Good(c) /\ SameArray(cache, c) /\ Counted(c)
        /\ \A j \in Key : c.entry[j].block = cache.entry[j].block
    BY <1>0, <2>2, HitGood, HitCounted
  <2> HIDE DEF c
  <2>4. In(c, k) /\ Sorted(c)
    BY <1>0, <2>1, <2>3, SameFits DEF In
  <2> QED BY <2>1, <2>3, <2>4, ReferCounted
<1>5. ASSUME NEW k \in Key, AddBegin(k) PROVE Counted(cache')
  BY <1>0, <1>5, MakeRoomCounted DEF AddBegin, Becomes
<1>6. ASSUME NEW k \in Key, Unlock(k) PROVE Counted(cache')
  <2> DEFINE n == cache.entry[k].referenceCount - 1
             h == IF n = 0 THEN "unlocked" ELSE cache.heap[cache.entry[k].block]
             g == [cache.entry[k] EXCEPT !.referenceCount = n]
  <2>1. cache' = [cache EXCEPT !.entry[k].referenceCount = n,
                               !.heap[cache.entry[k].block] = h]
    BY <1>6 DEF Unlock
  <2>2. g.hits = cache.entry[k].hits /\ g.mru = cache.entry[k].mru
    BY <1>0 DEF Good, Shape
  <2>3. cache'.entry = [cache.entry EXCEPT ![k] = g] /\ cache'.hits = cache.hits
    <3> HIDE DEF n, h
    <3> QED BY <1>0, <2>1 DEF Good, Shape, Record
  <2> HIDE DEF g
  <2>4. \A j \in Key : cache'.entry[j] = IF j = k THEN g ELSE cache.entry[j]
    BY <1>0, <2>3 DEF Good, Shape
  <2> QED BY <1>0, <2>2, <2>3, <2>4 DEF Counted
<1>7. ASSUME NEW k \in Key, Discard(k) PROVE Counted(cache')
  BY <1>0, <1>7, PurgeCounted DEF Discard, Becomes
<1>8. ASSUME NEW b \in Block, Add(b) PROVE Counted(cache')
  <2> DEFINE k == adding.key
             c == Insert(cache, k, Place(cache.order, k, adding.index), b)
  <2>1. cache' = Refer(c, k) /\ adding.on /\ cache.heap[b] = "free"
    BY <1>8 DEF Add, Given
  <2>2. k \in Key /\ ~In(cache, k) /\ cache.size + SizeOf[k] <= MaxSize
    BY <2>1 DEF RoomInv, ArrayInv, IInv
  <2>3. Good(c) /\ In(c, k) /\ Counted(c)
    BY <1>0, <2>1, <2>2, InsertGood, InsertCounted
  <2>4. Sorted(c)
    BY <1>0, <2>2, InsertFits
  <2> HIDE DEF c
  <2> QED BY <2>1, <2>2, <2>3, <2>4, ReferCounted
<1>9. CASE UNCHANGED vars
  BY <1>0, <1>9 DEF vars
<1> QED BY <1>1, <1>2, <1>3, <1>4, <1>5, <1>6, <1>7, <1>8, <1>9 DEF Next

\* cache_make_room says there is no room only if what is in use leaves none:
\* evicting too little (an entry alone, some together) is never the reason.
THEOREM RoomIsFound == Spec => []RoomIsMade
<1>1. RoomInv => RoomIsMade
  <2> SUFFICES ASSUME RoomInv, NEW size \in 1 .. MaxSize,
                      SizeSum(cache, {k \in Key : In(cache, k)} \ Unreferenced(cache)) + size
                        <= MaxSize
               PROVE  MakeRoom(cache, size).ok
    BY DEF RoomIsMade
  <2>1. Good(cache) /\ Sized(cache) /\ Counted(cache)
    BY DEF RoomInv, ArrayInv, IInv
  <2> QED BY <2>1, MakeRoomEnough
<1> QED
  BY <1>1, RoomInit, RoomNext, PTL DEF Spec
=============================================================================
