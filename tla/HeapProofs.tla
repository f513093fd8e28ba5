------------------------------ MODULE HeapProofs ------------------------------
(***************************************************************************)
(* Proofs about Heap, for every size of the memory, of blocks and of the   *)
(* array of handles: heap_validate never finds anything, handles and       *)
(* blocks agree, an empty heap serves any request, and the heap keeps what *)
(* BlockStore promises to its owners.                                      *)
(***************************************************************************)
EXTENDS Heap, ListProofs

-----------------------------------------------------------------------------
\* Types.

HeaderT == [guard : {"begin"}, size : Nat, state : {FREE, MOVABLE, LOCKED}, handle_index : Int]
Content == HeaderT \cup {Footer} \cup {DataOf(h) : h \in Int}
HandleT == [state : {INVALID, MOVABLE, LOCKED, SYSTEM, SYSTEM + LOCKED}, data : Int]
HandlesT == UNION {[0 .. k - 1 -> HandleT] : k \in Nat}

HeapT == [size : Nat, mem : [Cell -> Content],
          freeBlocks : Int, moveableBlocks : Int, lockedBlocks : Int, systemBlocks : Int,
          freeSize : Int, moveableSize : Int, lockedSize : Int, systemSize : Int,
          handles : HandlesT, system : [Handle -> Nat]]

\* The memory is as large as the largest heap that may be asked for.
LEMMA HeapSizeIs ==
  HeapSize \in Nat /\ \A size \in HeapSizes : size \in Nat /\ size >= 2 /\ size <= HeapSize
<1>1. \E x \in HeapSizes : \A y \in HeapSizes : x >= y
  <2>1. IsFiniteSet(HeapSizes) /\ HeapSizes \subseteq Nat \ {0, 1} /\ HeapSizes # {}
    BY HeapAssumption
  <2> DEFINE T == {s \in SUBSET HeapSizes : s = {} \/ \E x \in s : \A y \in s : x >= y}
  <2>2. {} \in T
    OBVIOUS
  <2>3. ASSUME NEW s \in SUBSET HeapSizes, NEW z \in HeapSizes \ s, s \in T
        PROVE  s \cup {z} \in T
    <3>1. CASE s = {}
      <4>1. \A y \in s \cup {z} : z >= y
        BY <2>1, <3>1
      <4> QED BY <4>1
    <3>2. CASE s # {}
      <4>1. PICK x \in s : \A y \in s : x >= y
        BY <2>3, <3>2
      <4>2. CASE x >= z
        BY <4>1, <4>2, <2>1
      <4>3. CASE ~ (x >= z)
        <5>1. \A y \in s \cup {z} : z >= y
          BY <4>1, <4>3, <2>1
        <5> QED BY <5>1
      <4> QED BY <4>2, <4>3
    <3> QED BY <3>1, <3>2
  <2>4. HeapSizes \in T
    <3> HIDE DEF T
    <3> QED BY <2>1, <2>2, <2>3, SubsetInduction
  <2> QED BY <2>1, <2>4
<1>2. HeapSize \in HeapSizes /\ \A y \in HeapSizes : HeapSize >= y
  BY <1>1 DEF HeapSize, Max
<1> QED BY <1>2, HeapAssumption

-----------------------------------------------------------------------------
(* The blocks. What the loops of heap.cc walk is known by a witness: the    *)
(* set of the addresses of blocks, which tile the memory.                   *)

Tiled(hp, B) ==
  /\ B \in SUBSET Cell /\ 0 \in B
  /\ hp.size \in Nat /\ hp.size <= HeapSize
  /\ \A b \in B :
       /\ hp.mem[b] \in HeaderT
       /\ After(hp, b) \in B \cup {hp.size} /\ After(hp, b) <= hp.size
       /\ hp.mem[After(hp, b) - 1] = Footer
       /\ \A c \in B : b < c => After(hp, b) <= c

\* Each block is behind its beginning, in memory.
LEMMA BlockFacts ==
  ASSUME NEW hp, NEW B, Tiled(hp, B), NEW b \in B
  PROVE  /\ b \in Nat /\ b \in Cell /\ SizeAt(hp, b) \in Nat
         /\ After(hp, b) \in Nat /\ After(hp, b) = b + SizeAt(hp, b) + 2
         /\ After(hp, b) > b /\ b < hp.size /\ After(hp, b) - 1 \in Cell
<1>1. HeapSize \in Nat /\ Cell = 0 .. HeapSize - 1
  BY HeapSizeIs DEF Cell
<1>2. b \in Cell /\ hp.mem[b] \in HeaderT /\ After(hp, b) <= hp.size
      /\ hp.size \in Nat /\ hp.size <= HeapSize
  BY DEF Tiled
<1>3. SizeAt(hp, b) \in Nat
  BY <1>2 DEF SizeAt, HeaderT
<1>4. After(hp, b) = b + SizeAt(hp, b) + 2
  BY DEF After, Overhead
<1> QED BY <1>1, <1>2, <1>3, <1>4

\* Each block but the first begins where another ends; so does what is
\* behind the last.
LEMMA OneBefore ==
  ASSUME NEW hp, NEW B, Tiled(hp, B), NEW c \in B \cup {hp.size}, c # 0
  PROVE  \E p \in B : p < c /\ After(hp, p) = c
<1>1. /\ \A b \in B : b \in Nat /\ After(hp, b) \in Nat /\ After(hp, b) > b /\ b < hp.size
      /\ c \in Nat /\ 0 \in B /\ hp.size \in Nat
  BY BlockFacts DEF Tiled
<1> DEFINE D == {d \in Nat : \E b \in B : b < c /\ d = c - b}
<1>2. D # {} /\ D \in SUBSET Nat
  <2>1. c - 0 \in D
    BY <1>1
  <2> QED BY <2>1
<1>3. PICK d \in D : \A e \in D : d <= e
  <2> HIDE DEF D
  <2> QED BY <1>2, LeastNumber
<1>4. PICK p \in B : p < c /\ d = c - p
  BY <1>3
<1>5. \A b \in B : b < c => b <= p
  <2> SUFFICES ASSUME NEW b \in B, b < c PROVE b <= p
    OBVIOUS
  <2>1. c - b \in D
    BY <1>1
  <2> QED BY <2>1, <1>1, <1>3, <1>4
<1>6. After(hp, p) <= c
  BY <1>4 DEF Tiled
<1>7. After(hp, p) \in B \cup {hp.size}
  BY DEF Tiled
<1>8. ~ (After(hp, p) < c)
  BY <1>1, <1>4, <1>5, <1>7
<1> QED BY <1>1, <1>4, <1>6, <1>8

\* There are finitely many blocks.
LEMMA BlocksFinite ==
  ASSUME NEW hp, NEW B, Tiled(hp, B)
  PROVE  IsFiniteSet(B) /\ \A T : T \subseteq B => IsFiniteSet(T) /\ Cardinality(T) \in Nat
<1>0. HeapSize - 1 \in Int /\ 0 \in Int
  BY HeapSizeIs
<1>1. IsFiniteSet(Cell) /\ B \in SUBSET Cell
  <2>1. IsFiniteSet(0 .. HeapSize - 1)
    BY <1>0, FS_Interval, Zenon
  <2> QED BY <2>1 DEF Cell, Tiled
<1>2. IsFiniteSet(B)
  BY <1>1, FS_Subset
<1> QED BY <1>2, FS_Subset, FS_CardinalityType

-----------------------------------------------------------------------------
\* Sums of the sizes of blocks.

\* The sum depends on the sizes alone.
LEMMA SizeSumSame ==
  ASSUME NEW T, IsFiniteSet(T), NEW hp, NEW hq,
         \A a \in T : SizeAt(hq, a) = SizeAt(hp, a) /\ SizeAt(hp, a) \in Int
  PROVE  SumOf(hq, T) = SumOf(hp, T)
<1> DEFINE v == [a \in T |-> SizeAt(hq, a)]
           w == [a \in T |-> SizeAt(hp, a)]
<1>1. v = w
  OBVIOUS
<1> QED BY <1>1 DEF SumOf

\* It is a number.
LEMMA SizeSumInt ==
  ASSUME NEW T, IsFiniteSet(T), NEW hp, \A a \in T : SizeAt(hp, a) \in Int
  PROVE  SumOf(hp, T) \in Int
<1> DEFINE w == [a \in T |-> SizeAt(hp, a)]
<1>1. \A y \in T : w[y] \in Int
  OBVIOUS
<1> HIDE DEF w
<1>2. SumFunctionOnSet(w, T) \in Int
  BY <1>1, SumInt
<1> QED BY <1>2 DEF SumOf, w

\* One more block adds its size.
LEMMA SizeSumAdd ==
  ASSUME NEW T, IsFiniteSet(T), NEW hp, NEW x, x \notin T,
         \A a \in T \cup {x} : SizeAt(hp, a) \in Int
  PROVE  SumOf(hp, T \cup {x}) = SumOf(hp, T) + SizeAt(hp, x)
<1> DEFINE w == [a \in T \cup {x} |-> SizeAt(hp, a)]
           v == [a \in T |-> SizeAt(hp, a)]
<1>1. /\ \A y \in T : w[y] \in Int /\ v[y] = w[y]
      /\ w[x] \in Int /\ w[x] = SizeAt(hp, x)
  OBVIOUS
<1> HIDE DEF w, v
<1>2. SumFunctionOnSet(w, T \cup {x}) = SumFunctionOnSet(w, T) + w[x]
  BY <1>1, SumAdd
<1>3. SumFunctionOnSet(v, T) = SumFunctionOnSet(w, T)
  BY <1>1, SumSame
<1> QED BY <1>1, <1>2, <1>3 DEF SumOf, w, v

\* How many blocks, and what they hold.
Tally(hp, T, count, size) ==
  IsFiniteSet(T) /\ Cardinality(T) = count /\ SumOf(hp, T) = size

\* Any blocks can be counted.
LEMMA TallyOf ==
  ASSUME NEW T, IsFiniteSet(T), NEW hp, \A a \in T : SizeAt(hp, a) \in Int
  PROVE  /\ Tally(hp, T, Cardinality(T), SumOf(hp, T))
         /\ Cardinality(T) \in Nat /\ SumOf(hp, T) \in Int
BY FS_CardinalityType, SizeSumInt DEF Tally

\* The count of some blocks depends on their sizes alone.
LEMMA TallySame ==
  ASSUME NEW T, NEW hp, NEW hq, NEW count, NEW size, Tally(hp, T, count, size),
         \A a \in T : SizeAt(hq, a) = SizeAt(hp, a) /\ SizeAt(hp, a) \in Int
  PROVE  Tally(hq, T, count, size)
BY SizeSumSame DEF Tally

\* It follows when a block comes in.
LEMMA TallyAdd ==
  ASSUME NEW T, NEW hp, NEW count, NEW size, Tally(hp, T, count, size),
         NEW x, x \notin T, \A a \in T \cup {x} : SizeAt(hp, a) \in Int
  PROVE  Tally(hp, T \cup {x}, count + 1, size + SizeAt(hp, x))
BY SizeSumAdd, FS_AddElement DEF Tally

\* It follows when a block goes out.
LEMMA TallyRemove ==
  ASSUME NEW T, NEW hp, NEW count, NEW size, Tally(hp, T, count, size),
         NEW x \in T, \A a \in T : SizeAt(hp, a) \in Int
  PROVE  Tally(hp, T \ {x}, count - 1, size - SizeAt(hp, x))
<1> DEFINE U == T \ {x}
<1>1. IsFiniteSet(U) /\ Cardinality(U) = Cardinality(T) - 1
  BY FS_RemoveElement DEF Tally
<1>2. T = U \cup {x} /\ x \notin U /\ \A a \in U \cup {x} : SizeAt(hp, a) \in Int
  OBVIOUS
<1> HIDE DEF U
<1>3. SumOf(hp, T) = SumOf(hp, U) + SizeAt(hp, x) /\ SumOf(hp, U) \in Int
  BY <1>1, <1>2, SizeSumAdd, SizeSumInt
<1> QED BY <1>1, <1>3, <1>2 DEF Tally, U

\* The blocks before an address, and what there is up to it.
Before(B, x) == {b \in B : b < x}

\* Behind a block there is that one more.
LEMMA BeforeNext ==
  ASSUME NEW hp, NEW B, Tiled(hp, B), NEW p \in B
  PROVE  /\ Before(B, After(hp, p)) = Before(B, p) \cup {p} /\ p \notin Before(B, p)
         /\ Cardinality(Before(B, After(hp, p))) = Cardinality(Before(B, p)) + 1
         /\ SumOf(hp, Before(B, After(hp, p))) = SumOf(hp, Before(B, p)) + SizeAt(hp, p)
         /\ SumOf(hp, Before(B, p)) \in Int /\ Cardinality(Before(B, p)) \in Nat
<1>1. \A b \in B : b \in Nat /\ After(hp, b) \in Nat /\ After(hp, b) > b /\ SizeAt(hp, b) \in Int
  BY BlockFacts
<1>2. \A c \in B : p < c => After(hp, p) <= c
  BY DEF Tiled
<1>3. Before(B, After(hp, p)) = Before(B, p) \cup {p} /\ p \notin Before(B, p)
  BY <1>1, <1>2 DEF Before
<1>4. IsFiniteSet(Before(B, p)) /\ Cardinality(Before(B, p)) \in Nat
      /\ Before(B, p) \subseteq B
  BY BlocksFinite DEF Before
<1>5. \A a \in Before(B, p) \cup {p} : SizeAt(hp, a) \in Int
  BY <1>1, <1>4
<1> QED BY <1>3, <1>4, <1>5, SizeSumAdd, SizeSumInt, FS_AddElement

\* What the blocks before a block hold, with headers and footers, is all before it.
LEMMA UpTo ==
  ASSUME NEW hp, NEW B, Tiled(hp, B), NEW x \in B \cup {hp.size}
  PROVE  SumOf(hp, Before(B, x)) + 2 * Cardinality(Before(B, x)) = x
<1> DEFINE Full(y) == SumOf(hp, Before(B, y)) + 2 * Cardinality(Before(B, y)) = y
           N == hp.size
           T == {k \in 0 .. N : \A y \in B \cup {N} : y <= k => Full(y)}
<1>1. N \in Nat /\ x \in 0 .. N /\ \A b \in B : b \in Nat /\ b < N
  BY BlockFacts DEF Tiled
<1>2. Full(0)
  <2>1. Before(B, 0) = {}
    <3>1. \A b \in B : ~ (b < 0)
      BY <1>1
    <3> QED BY <3>1 DEF Before
  <2>2. SumOf(hp, {}) = 0
    BY SumOfEmpty DEF SumOf
  <2> QED BY <2>1, <2>2, FS_EmptySet
<1>3. 0 \in T
  <2>1. \A y \in B \cup {N} : y <= 0 => y = 0
    BY <1>1
  <2> HIDE DEF Full
  <2> QED BY <1>1, <1>2, <2>1
<1>4. ASSUME NEW k \in 0 .. N - 1, k \in T PROVE k + 1 \in T
  <2> SUFFICES ASSUME NEW y \in B \cup {N}, y <= k + 1 PROVE Full(y)
    BY <1>1, <1>4
  <2>1. CASE y <= k
    BY <2>1, <1>4
  <2>2. CASE y = k + 1
    <3>1. PICK p \in B : p < y /\ After(hp, p) = y
      <4>1. y # 0
        BY <1>1, <2>2
      <4> QED BY <4>1, OneBefore
    <3>2. p <= k /\ p \in B \cup {N}
      BY <1>1, <2>2, <3>1
    <3>3. Full(p)
      BY <1>4, <3>2
    <3>4. /\ Cardinality(Before(B, y)) = Cardinality(Before(B, p)) + 1
          /\ SumOf(hp, Before(B, y)) = SumOf(hp, Before(B, p)) + SizeAt(hp, p)
          /\ SumOf(hp, Before(B, p)) \in Int /\ Cardinality(Before(B, p)) \in Nat
      BY <3>1, BeforeNext
    <3>5. y = p + SizeAt(hp, p) + 2 /\ SizeAt(hp, p) \in Nat /\ p \in Nat
      BY <3>1, BlockFacts
    <3> QED BY <3>3, <3>4, <3>5
  <2> QED BY <1>1, <2>1, <2>2
<1>5. 0 .. N \subseteq T
  <2> HIDE DEF T, N
  <2> QED BY <1>1, <1>3, <1>4, RangeInduction
<1>6. x \in T
  BY <1>1, <1>5
<1> QED BY <1>1, <1>6

\* What the blocks hold, with their headers and footers, is the memory.
LEMMA AllOfMemory ==
  ASSUME NEW hp, NEW B, Tiled(hp, B)
  PROVE  /\ SumOf(hp, B) + 2 * Cardinality(B) = hp.size
         /\ Before(B, hp.size) = B
<1>1. Before(B, hp.size) = B
  BY BlockFacts DEF Before
<1>2. hp.size \in B \cup {hp.size}
  OBVIOUS
<1> QED BY <1>1, <1>2, UpTo

-----------------------------------------------------------------------------
\* The walk.

\* What the walk takes for a block has an end.
LEMMA HeaderSize ==
  ASSUME NEW hp, hp.mem \in [Cell -> Content], NEW a \in Int, IsBlock(hp, a)
  PROVE  After(hp, a) \in Int
<1>1. hp.mem[a] \in Content /\ hp.mem[a].guard = "begin"
  BY DEF IsBlock, IsHeader
<1>2. hp.mem[a] \in HeaderT
  BY <1>1 DEF Content, Footer, DataOf
<1> QED BY <1>2 DEF HeaderT, After, SizeAt, Overhead

\* The walk starts at 0 and goes from each block to the next.
LEMMA WalkUnfolds ==
  ASSUME NEW hp, hp.mem \in [Cell -> Content], Count(hp) \in Nat \ {0}
  PROVE  /\ DOMAIN Walk(hp) = 0 .. Count(hp) - 1
         /\ Walk(hp)[0] = 0
         /\ \A i \in 1 .. Count(hp) - 1 :
              Walk(hp)[i] = IF IsBlock(hp, Walk(hp)[i - 1])
                            THEN After(hp, Walk(hp)[i - 1]) ELSE -1
<1> DEFINE L == Count(hp) - 1
           next(v) == IF IsBlock(hp, v) THEN After(hp, v) ELSE -1
           step == [n \in 1 .. L |-> [v \in Int |-> next(v)]]
           Def(g) == [n \in 0 .. L |-> IF n = 0 THEN 0 ELSE LET a == g[n - 1] IN next(a)]
           K == CHOOSE g : g = Def(g)
<1>1. \A v \in Int : next(v) \in Int
  BY HeaderSize
<1>2. L \in Nat
  OBVIOUS
<1>6. Walk(hp) = K
  BY DEF Walk
<1> HIDE DEF L, next
<1>3. PICK g \in [0 .. L -> Int] :
        g[0] = 0 /\ \A n \in 1 .. L : g[n] = step[n][g[n - 1]]
  <2> DEFINE T == Int  nil == 0
  <2>1. L \in Nat /\ step \in Steps(L, T) /\ nil \in T
    BY <1>1, <1>2 DEF Steps
  <2> HIDE DEF step, nil, T, Def, K
  <2>2. Runs(L, T, nil, step) # {}
    BY <2>1, RangeRecursion
  <2> QED BY <2>2 DEF nil, T, Runs
<1>4. g = Def(g)
  <2>1. ASSUME NEW n \in 1 .. L PROVE g[n] = next(g[n - 1])
    <3>1. n - 1 \in 0 .. L /\ g[n - 1] \in Int
      BY <1>2
    <3>2. step[n][g[n - 1]] = next(g[n - 1])
      BY <3>1
    <3> QED BY <1>3, <3>2
  <2>2. \A n \in 0 .. L : g[n] = IF n = 0 THEN 0 ELSE next(g[n - 1])
    BY <1>2, <1>3, <2>1
  <2> QED BY <2>2
<1>5. K = Def(K)
  <2> HIDE DEF Def
  <2> QED BY <1>4
<1> HIDE DEF K
<1>7. DOMAIN K = 0 .. L /\ K[0] = 0 /\ \A n \in 1 .. L : K[n] = next(K[n - 1])
  <2>1. /\ \A n \in 0 .. L : Def(K)[n] = IF n = 0 THEN 0 ELSE next(K[n - 1])
        /\ DOMAIN Def(K) = 0 .. L
    OBVIOUS
  <2> HIDE DEF Def
  <2>2. \A n \in 0 .. L : K[n] = IF n = 0 THEN 0 ELSE next(K[n - 1])
    BY <1>5, <2>1
  <2>3. 0 \in 0 .. L /\ \A n \in 1 .. L : n \in 0 .. L /\ n # 0
    BY <1>2
  <2> QED BY <2>2, <2>3, <1>5, <2>1
<1> QED BY <1>6, <1>7 DEF L, next

\* If the counters count them, the walk finds the blocks, and no others.
LEMMA WalkIs ==
  ASSUME NEW hp, hp.mem \in [Cell -> Content],
         NEW B, Tiled(hp, B), Count(hp) = Cardinality(B)
  PROVE  /\ Range(Walk(hp)) = B
         /\ \A a \in B : IsBlock(hp, a)
         /\ After(hp, Walk(hp)[Count(hp) - 1]) = hp.size
<1> DEFINE n == Count(hp)
           W == Walk(hp)
           Rank(b) == Cardinality(Before(B, b))
<1>1. /\ \A b \in B : /\ b \in Nat /\ After(hp, b) \in Nat /\ b < After(hp, b) /\ b < hp.size
                      /\ After(hp, b) \in B \cup {hp.size}
                      /\ Rank(b) \in Nat /\ Rank(After(hp, b)) = Rank(b) + 1
      /\ 0 \in B /\ hp.size \in Nat
  <2>1. 0 \in B /\ hp.size \in Nat /\ \A b \in B : After(hp, b) \in B \cup {hp.size}
    BY DEF Tiled
  <2> QED BY <2>1, BlockFacts, BeforeNext
<1>2. \A a \in B : IsBlock(hp, a)
  <2> SUFFICES ASSUME NEW a \in B PROVE IsBlock(hp, a)
    OBVIOUS
  <2>1. a \in Cell /\ After(hp, a) - 1 \in Cell
    BY BlockFacts
  <2>2. hp.mem[a].guard = "begin" /\ hp.mem[After(hp, a) - 1] = Footer
    BY DEF Tiled, HeaderT
  <2> QED BY <2>1, <2>2 DEF IsBlock, IsHeader
<1>3. IsFiniteSet(B) /\ Cardinality(B) \in Nat
  BY BlocksFinite
<1>4. Rank(hp.size) = n
  BY AllOfMemory
<1>5. n \in Nat \ {0}
  <2>1. B # {}
    BY <1>1
  <2> QED BY <1>3, <2>1, FS_EmptySet
<1>6. /\ DOMAIN W = 0 .. n - 1 /\ W[0] = 0
      /\ \A i \in 1 .. n - 1 :
           W[i] = IF IsBlock(hp, W[i - 1]) THEN After(hp, W[i - 1]) ELSE -1
  BY <1>5, WalkUnfolds
<1> HIDE DEF W, n
<1> DEFINE T == {i \in 0 .. n - 1 : W[i] \in B /\ Rank(W[i]) = i}
<1>7. 0 \in T
  <2>1. Before(B, 0) = {}
    <3>1. \A b \in B : ~ (b < 0)
      BY <1>1
    <3> QED BY <3>1 DEF Before
  <2>2. Rank(0) = 0
    BY <2>1, FS_EmptySet
  <2> HIDE DEF Rank
  <2> QED BY <1>1, <1>5, <1>6, <2>2
<1>8. ASSUME NEW i \in 0 .. n - 1 - 1, i \in T PROVE i + 1 \in T
  <2> HIDE DEF Rank
  <2>1. W[i] \in B /\ Rank(W[i]) = i /\ i + 1 \in 1 .. n - 1 /\ (i + 1) - 1 = i
    BY <1>8, <1>5
  <2>2. W[i + 1] = After(hp, W[i])
    BY <2>1, <1>2, <1>6
  <2>3. W[i + 1] \in B \cup {hp.size} /\ Rank(W[i + 1]) = i + 1
    BY <1>1, <2>1, <2>2
  <2>4. W[i + 1] # hp.size
    BY <1>4, <2>1, <2>3
  <2> QED BY <1>5, <2>1, <2>3, <2>4
<1>9. \A i \in 0 .. n - 1 : W[i] \in B /\ Rank(W[i]) = i
  <2>1. 0 \in Int /\ n - 1 \in Int
    BY <1>5
  <2>2. 0 .. n - 1 \subseteq T
    <3> HIDE DEF T
    <3> QED BY <1>7, <1>8, <2>1, RangeInduction
  <2> QED BY <2>2
<1>10. ASSUME NEW b \in B, NEW c \in B, b < c PROVE Rank(b) < Rank(c)
  <2>1. After(hp, b) <= c
    BY <1>10 DEF Tiled
  <2>2. Before(B, After(hp, b)) \subseteq Before(B, c)
    <3>1. \A d \in B : d < After(hp, b) => d < c
      BY <2>1, <1>1
    <3> QED BY <3>1 DEF Before
  <2>3. IsFiniteSet(Before(B, c))
    BY BlocksFinite DEF Before
  <2>4. Rank(After(hp, b)) <= Rank(c)
    BY <2>2, <2>3, FS_Subset
  <2> HIDE DEF Rank
  <2> QED BY <1>1, <2>4
<1>11. ASSUME NEW b \in B PROVE b \in Range(W)
  <2> HIDE DEF Rank
  <2>1. Rank(b) < n
    <3>1. Before(B, b) \subseteq B /\ b \notin Before(B, b)
      BY <1>1 DEF Before
    <3>2. Rank(b) <= Cardinality(B) /\ Rank(b) # Cardinality(B)
      BY <1>3, <3>1, FS_Subset DEF Rank
    <3> QED BY <1>1, <1>3, <3>2 DEF n
  <2>2. Rank(b) \in 0 .. n - 1
    BY <2>1, <1>1, <1>5
  <2>3. W[Rank(b)] \in B /\ Rank(W[Rank(b)]) = Rank(b)
    BY <2>2, <1>9
  <2>4. W[Rank(b)] = b
    <3> DEFINE c == W[Rank(b)]
    <3>1. c \in B /\ Rank(c) = Rank(b) /\ Rank(b) \in Nat /\ c \in Nat /\ b \in Nat
      BY <1>1, <2>3
    <3> HIDE DEF c
    <3>2. ~ (c < b) /\ ~ (b < c)
      BY <3>1, <1>10
    <3> QED BY <3>1, <3>2 DEF c
  <2> QED BY <2>2, <2>4, <1>6 DEF Range
<1>12. Range(W) = B
  BY <1>6, <1>9, <1>11 DEF Range
<1>13. After(hp, W[n - 1]) = hp.size
  <2> HIDE DEF Rank
  <2> DEFINE b == W[n - 1]
  <2>1. b \in B /\ Rank(b) = n - 1
    BY <1>5, <1>9
  <2>2. After(hp, b) \in B \cup {hp.size} /\ Rank(After(hp, b)) = n
    BY <1>1, <1>5, <2>1
  <2>3. ASSUME After(hp, b) \in B PROVE FALSE
    <3>1. After(hp, b) < hp.size
      BY <1>1, <2>3
    <3>2. PICK i \in 0 .. n - 1 : W[i] = After(hp, b)
      BY <2>3, <1>11, <1>6 DEF Range
    <3>3. Rank(After(hp, b)) = i
      BY <3>2, <1>9
    <3> QED BY <3>2, <3>3, <2>2, <1>5
  <2> QED BY <2>2, <2>3
<1> QED BY <1>2, <1>12, <1>13 DEF W, n

-----------------------------------------------------------------------------
(* The invariant. While the blocks of an extent are moved, some of them (S) *)
(* are left behind: their headers are still there, but nobody's.            *)

BoundTo(hp, h) == hp.handles[h].state \in {MOVABLE, LOCKED}

\* The blocks that belong to somebody.
Live(hp, B, S) == {b \in B \ S : StateAt(hp, b) # FREE}

InState(hp, B, S, state) == {b \in B \ S : StateAt(hp, b) = state}

\* Handles and blocks point at each other.
Owners(hp, ask, B, S) ==
  /\ S \subseteq B /\ \A b \in S : StateAt(hp, b) = MOVABLE
  /\ \A h \in DOMAIN hp.handles : BoundTo(hp, h) =>
       LET a == hp.handles[h].data IN
       /\ a \in Live(hp, B, S) /\ StateAt(hp, a) = hp.handles[h].state
       /\ hp.mem[a].handle_index = h /\ ask[h] <= SizeAt(hp, a)
  /\ \A b \in Live(hp, B, S) :
       LET h == hp.mem[b].handle_index IN
       h \in DOMAIN hp.handles /\ hp.handles[h].data = b /\ BoundTo(hp, h)

\* Whose handle is in use has asked for something.
Asked(hp, ask) ==
  /\ ask \in [Handle -> Nat]
  /\ \A h \in DOMAIN hp.handles : hp.handles[h].state # INVALID => h \in Handle /\ ask[h] # 0
  /\ \A h \in Handle : ask[h] # 0 => h \in DOMAIN hp.handles /\ hp.handles[h].state # INVALID

\* The counters of the heap.
Tallies(hp, B, S) ==
  /\ Tally(hp, InState(hp, B, S, MOVABLE), hp.moveableBlocks, hp.moveableSize)
  /\ Tally(hp, InState(hp, B, S, LOCKED), hp.lockedBlocks, hp.lockedSize)
  /\ Count(hp) = Cardinality(B)
  /\ hp.freeSize + hp.moveableSize + hp.lockedSize + 2 * Cardinality(B) = hp.size

\* What was written is there.
Kept(hp, ask, fil) ==
  /\ fil \subseteq Handle /\ \A h \in fil : ask[h] # 0
  /\ \A h \in DOMAIN hp.handles : h \in fil /\ BoundTo(hp, h) =>
       \A c \in hp.handles[h].data + 1 .. hp.handles[h].data + ask[h] : hp.mem[c] = DataOf(h)

SystemOnes(hp) == {h \in DOMAIN hp.handles : IsSystem(hp.handles[h].state)}

Systems(hp) ==
  /\ IsFiniteSet(SystemOnes(hp)) /\ Cardinality(SystemOnes(hp)) = hp.systemBlocks
  /\ SumFunctionOnSet([h \in SystemOnes(hp) |-> hp.system[h]], SystemOnes(hp)) = hp.systemSize

Good(hp, ask, fil, B, S) ==
  /\ hp \in HeapT
  /\ Tiled(hp, B) /\ Owners(hp, ask, B, S) /\ Asked(hp, ask) /\ Tallies(hp, B, S)
  /\ Kept(hp, ask, fil) /\ Systems(hp)

\* What a request may not change: which handles there are and in which state
\* their blocks are, and where those are that may not move.
Same(hp, hq) ==
  /\ hq.size = hp.size /\ hq.system = hp.system
  /\ hq.systemBlocks = hp.systemBlocks /\ hq.systemSize = hp.systemSize
  /\ DOMAIN hq.handles = DOMAIN hp.handles
  /\ \A h \in DOMAIN hp.handles :
       /\ hq.handles[h].state = hp.handles[h].state
       /\ hp.handles[h].state # MOVABLE => hq.handles[h] = hp.handles[h]
       /\ hp.handles[h].state = LOCKED =>
            SizeAt(hq, hp.handles[h].data) = SizeAt(hp, hp.handles[h].data)

\* What a request leaves the same stays so over two steps.
LEMMA SameAgain ==
  ASSUME NEW f, NEW g, NEW hp, Same(f, g), Same(g, hp)
  PROVE  Same(f, hp)
<1>1. ASSUME NEW h \in DOMAIN f.handles, f.handles[h].state # MOVABLE
      PROVE  hp.handles[h] = f.handles[h]
  <2>1. g.handles[h].state # MOVABLE /\ g.handles[h] = f.handles[h] /\ h \in DOMAIN g.handles
    BY <1>1 DEF Same
  <2> QED BY <2>1 DEF Same
<1>2. ASSUME NEW h \in DOMAIN f.handles, f.handles[h].state = LOCKED
      PROVE  SizeAt(hp, f.handles[h].data) = SizeAt(f, f.handles[h].data)
  <2>1. LOCKED # MOVABLE
    BY DEF LOCKED, MOVABLE
  <2>2. g.handles[h] = f.handles[h] /\ h \in DOMAIN g.handles
    BY <1>2, <2>1 DEF Same
  <2> QED BY <1>2, <2>2 DEF Same
<1> QED BY <1>1, <1>2 DEF Same

\* The system's blocks are then accounted for as before.
LEMMA SameSystems ==
  ASSUME NEW hp, NEW hq, Same(hp, hq), NEW ask, Asked(hp, ask), Systems(hp)
  PROVE  Asked(hq, ask) /\ Systems(hq)
<1>1. SystemOnes(hq) = SystemOnes(hp)
  BY DEF Same, SystemOnes
<1>2. Systems(hq)
  BY <1>1 DEF Same, Systems
<1>3. Asked(hq, ask)
  BY DEF Same, Asked
<1> QED BY <1>2, <1>3

\* A block that belongs to somebody shares no cell with another.
LEMMA LiveFacts ==
  ASSUME NEW hp, NEW B, NEW S, Tiled(hp, B), NEW b \in Live(hp, B, S)
  PROVE  /\ b \in B /\ b \notin S
         /\ \A c \in B : b \in b .. After(hp, b) - 1 /\ (c \in b .. After(hp, b) - 1 => c = b)
         /\ \A c \in B : c # b => \A x \in c .. After(hp, c) - 1 : x \notin b .. After(hp, b) - 1
<1>1. b \in B /\ b \notin S
  BY DEF Live
<1>2. \A c \in B : c \in Nat /\ After(hp, c) \in Nat /\ c < After(hp, c)
  BY BlockFacts
<1>3. \A c, d \in B : c < d => After(hp, c) <= d
  BY DEF Tiled
<1> QED BY <1>1, <1>2, <1>3

\* If what belongs to somebody is left alone, it is all there as before.
LEMMA LeftAlone ==
  ASSUME NEW hp, NEW hq, NEW B, NEW C, NEW S, NEW R, NEW ask, NEW fil,
         hp.mem \in [Cell -> Content],
         Tiled(hp, B), Owners(hp, ask, B, S), Kept(hp, ask, fil), Asked(hp, ask),
         hq.handles = hp.handles,
         R \subseteq C, \A b \in R : StateAt(hq, b) = MOVABLE,
         Live(hq, C, R) = Live(hp, B, S),
         \A b \in Live(hp, B, S) : \A c \in b .. After(hp, b) - 1 : hq.mem[c] = hp.mem[c]
  PROVE  /\ Owners(hq, ask, C, R) /\ Kept(hq, ask, fil)
         /\ \A count, size : \A state \in {MOVABLE, LOCKED} :
              Tally(hp, InState(hp, B, S, state), count, size)
                => Tally(hq, InState(hq, C, R, state), count, size)
<1> DEFINE V == Live(hp, B, S)
<1>1. \A b \in V : /\ b \in Nat /\ b \in b .. After(hp, b) - 1 /\ SizeAt(hp, b) \in Nat
                   /\ After(hp, b) = b + SizeAt(hp, b) + 2 /\ b \in B
  BY LiveFacts, BlockFacts DEF Live
<1>2. \A b \in V : hq.mem[b] = hp.mem[b]
  BY <1>1
<1>3. \A b \in V : StateAt(hq, b) = StateAt(hp, b) /\ SizeAt(hq, b) = SizeAt(hp, b)
  BY <1>2 DEF StateAt, SizeAt
<1>4. Owners(hq, ask, C, R)
  <2>1. ASSUME NEW h \in DOMAIN hq.handles, BoundTo(hq, h)
        PROVE  LET a == hq.handles[h].data IN
               /\ a \in Live(hq, C, R) /\ StateAt(hq, a) = hq.handles[h].state
               /\ hq.mem[a].handle_index = h /\ ask[h] <= SizeAt(hq, a)
    <3> DEFINE a == hp.handles[h].data
    <3>1. BoundTo(hp, h) /\ h \in DOMAIN hp.handles
      BY <2>1 DEF BoundTo
    <3>2. /\ a \in V /\ StateAt(hp, a) = hp.handles[h].state
          /\ hp.mem[a].handle_index = h /\ ask[h] <= SizeAt(hp, a)
      BY <3>1 DEF Owners
    <3> HIDE DEF V
    <3>3. StateAt(hq, a) = StateAt(hp, a) /\ SizeAt(hq, a) = SizeAt(hp, a) /\ hq.mem[a] = hp.mem[a]
      BY <1>2, <1>3, <3>2
    <3> QED BY <3>2, <3>3 DEF V
  <2>2. ASSUME NEW b \in Live(hq, C, R)
        PROVE  LET h == hq.mem[b].handle_index IN
               h \in DOMAIN hq.handles /\ hq.handles[h].data = b /\ BoundTo(hq, h)
    <3>1. b \in V /\ hq.mem[b] = hp.mem[b]
      BY <1>2
    <3> QED BY <3>1 DEF Owners, BoundTo
  <2> QED BY <2>1, <2>2 DEF Owners
<1>5. Kept(hq, ask, fil)
  <2> SUFFICES ASSUME NEW h \in DOMAIN hp.handles, h \in fil, BoundTo(hp, h),
                      NEW c \in hp.handles[h].data + 1 .. hp.handles[h].data + ask[h]
               PROVE  hq.mem[c] = DataOf(h)
    BY DEF Kept, BoundTo
  <2> DEFINE a == hp.handles[h].data
  <2>1. a \in V /\ ask[h] <= SizeAt(hp, a) /\ ask[h] \in Nat
    BY DEF Owners, Kept, Asked
  <2>2. c \in a .. After(hp, a) - 1
    BY <1>1, <2>1
  <2>3. hp.mem[c] = DataOf(h)
    BY DEF Kept
  <2> QED BY <2>1, <2>2, <2>3
<1>6. ASSUME NEW state \in {MOVABLE, LOCKED}
      PROVE  InState(hq, C, R, state) = InState(hp, B, S, state)
  <2>1. state # FREE
    BY DEF MOVABLE, LOCKED, FREE
  <2>2. /\ InState(hq, C, R, state) = {b \in Live(hq, C, R) : StateAt(hq, b) = state}
        /\ InState(hp, B, S, state) = {b \in V : StateAt(hp, b) = state}
    BY <2>1 DEF InState, Live
  <2> QED BY <2>2, <1>3
<1>7. ASSUME NEW count, NEW size, NEW state \in {MOVABLE, LOCKED},
             Tally(hp, InState(hp, B, S, state), count, size)
      PROVE  Tally(hq, InState(hq, C, R, state), count, size)
  <2>1. \A a \in InState(hp, B, S, state) : a \in V
    BY DEF InState, Live, MOVABLE, LOCKED, FREE
  <2> HIDE DEF V
  <2> QED BY <1>6, <1>7, <1>3, <1>1, <2>1, TallySame
<1> QED BY <1>4, <1>5, <1>7

-----------------------------------------------------------------------------
\* What the operators read off a walk, in terms of the blocks.

\* The walk finds the blocks, and BlocksIn those in the given states.
LEMMA Walked ==
  ASSUME NEW hp, NEW ask, NEW fil, NEW B, NEW S, Good(hp, ask, fil, B, S)
  PROVE  /\ hp.mem \in [Cell -> Content] /\ Range(Walk(hp)) = B
         /\ \A states : BlocksIn(hp, states) = {b \in B : StateAt(hp, b) \in states}
         /\ BlocksIn(hp, {FREE}) = {b \in B : StateAt(hp, b) = FREE}
<1>1. hp.mem \in [Cell -> Content]
  BY DEF Good, HeapT
<1>2. Tiled(hp, B) /\ Count(hp) = Cardinality(B)
  BY DEF Good, Tallies
<1>3. Range(Walk(hp)) = B
  BY <1>1, <1>2, WalkIs
<1> QED BY <1>1, <1>3 DEF BlocksIn

\* A block begins with a header in one of three states.
LEMMA BlockIsHeader ==
  ASSUME NEW hp, NEW B, Tiled(hp, B), NEW b \in B
  PROVE  /\ hp.mem[b] = Header(SizeAt(hp, b), StateAt(hp, b), hp.mem[b].handle_index)
         /\ StateAt(hp, b) \in {FREE, MOVABLE, LOCKED}
         /\ hp.mem[b].handle_index \in Int /\ SizeAt(hp, b) \in Nat
<1>1. hp.mem[b] \in HeaderT
  BY DEF Tiled
<1> QED BY <1>1 DEF HeaderT, Header, SizeAt, StateAt

\* What the operators write is what memory may hold: a header,
LEMMA HeaderIs ==
  ASSUME NEW size \in Nat, NEW state \in {FREE, MOVABLE, LOCKED}, NEW h \in Int
  PROVE  /\ Header(size, state, h) \in HeaderT /\ Header(size, state, h) \in Content
         /\ Header(size, state, h).size = size /\ Header(size, state, h).state = state
         /\ Header(size, state, h).handle_index = h
BY DEF Header, HeaderT, Content

\* a footer, a free cell.
LEMMA ContentIs ==
  Footer \in Content /\ Unused \in Content /\ \A h \in Int : DataOf(h) \in Content
BY DEF Content, Unused

\* The least of a set of addresses, and the greatest.
LEMMA MinIs ==
  ASSUME NEW T \in SUBSET Nat, T # {}
  PROVE  Min(T) \in T /\ \A x \in T : Min(T) <= x
<1>1. PICK n \in T : \A m \in T : n <= m
  BY LeastNumber
<1> QED BY <1>1 DEF Min

\* Numbers with a bound have a greatest.
LEMMA GreatestNumber ==
  ASSUME NEW n \in Nat, NEW T \in SUBSET (0 .. n), T # {}
  PROVE  \E x \in T : \A y \in T : y <= x
<1> DEFINE D == {n - x : x \in T}
<1>0. \A x \in T : x \in Nat /\ n - x \in Nat
  OBVIOUS
<1>1. D \in SUBSET Nat /\ D # {}
  <2>1. PICK x \in T : TRUE
    OBVIOUS
  <2>2. n - x \in D
    OBVIOUS
  <2> QED BY <1>0, <2>2
<1>2. PICK d \in D : \A e \in D : d <= e
  <2> HIDE DEF D
  <2> QED BY <1>1, LeastNumber
<1>3. PICK x \in T : d = n - x
  BY <1>2
<1>4. ASSUME NEW y \in T PROVE y <= x
  <2>1. n - y \in D
    OBVIOUS
  <2> HIDE DEF D
  <2>2. d <= n - y
    BY <2>1, <1>2
  <2> QED BY <2>2, <1>0, <1>3
<1> QED BY <1>4

-----------------------------------------------------------------------------
\* heap_build_free_list.

\* The free blocks that follow a free block, and where a run of them ends.
FreeOnes(hp, B)    == {b \in B : StateAt(hp, b) = FREE}
JoinedOnes(hp, F)  == {After(hp, a) : a \in F} \cap F
EndsFrom(hp, F, a) == {After(hp, b) : b \in {c \in F : c >= a}} \ F
EndOfRun(hp, F, a) == Min(EndsFrom(hp, F, a))

\* From a free block, the run of free blocks has an end, where no free block is.
LEMMA RunEnds ==
  ASSUME NEW hp, NEW B, Tiled(hp, B), NEW a \in FreeOnes(hp, B)
  PROVE  LET F == FreeOnes(hp, B)  e == EndOfRun(hp, F, a) IN
         /\ \E x \in F : x >= a /\ e = After(hp, x)
         /\ e \in Nat /\ e >= After(hp, a) /\ e <= hp.size
         /\ e \in (B \ F) \cup {hp.size}
         /\ \A c \in B \ JoinedOnes(hp, F) : a < c => e <= c
<1> DEFINE F == FreeOnes(hp, B)  J == JoinedOnes(hp, F)  E == EndsFrom(hp, F, a)
           e == EndOfRun(hp, F, a)
<1>1. /\ F \subseteq B /\ a \in F /\ a \in B /\ J = {After(hp, b) : b \in F} \cap F
      /\ E = {After(hp, b) : b \in {c \in F : c >= a}} \ F /\ e = Min(E)
  BY DEF FreeOnes, JoinedOnes, EndsFrom, EndOfRun
<1> HIDE DEF F, J, E, e
<1>2. \A b \in B : /\ b \in Nat /\ After(hp, b) \in Nat /\ b < After(hp, b) /\ b < hp.size
                   /\ After(hp, b) \in B \cup {hp.size} /\ After(hp, b) <= hp.size
  <2>1. \A b \in B : After(hp, b) \in B \cup {hp.size} /\ After(hp, b) <= hp.size
    BY DEF Tiled
  <2> QED BY <2>1, BlockFacts
<1>3. hp.size \in Nat /\ \A b, c \in B : b < c => After(hp, b) <= c
  BY DEF Tiled
<1>4. E \in SUBSET Nat
  BY <1>1, <1>2
<1>5. E # {}
  <2> DEFINE D == {c \in F : c >= a}
  <2>1. D \in SUBSET (0 .. hp.size) /\ a \in D
    BY <1>1, <1>2, <1>3
  <2>2. PICK x \in D : \A y \in D : y <= x
    <3> HIDE DEF D
    <3> QED BY <2>1, <1>3, GreatestNumber
  <2>3. x \in F /\ x >= a /\ x \in B
    BY <1>1
  <2>4. After(hp, x) \notin F
    <3>1. SUFFICES ASSUME After(hp, x) \in F PROVE FALSE
      OBVIOUS
    <3>2. After(hp, x) >= a /\ x < After(hp, x) /\ x \in Nat /\ After(hp, x) \in Nat
      BY <1>1, <1>2, <2>3
    <3>3. After(hp, x) \in D
      BY <3>1, <3>2
    <3> QED BY <3>2, <3>3, <2>2
  <2>5. After(hp, x) \in {After(hp, b) : b \in {c \in F : c >= a}}
    BY <2>3
  <2> QED BY <2>4, <2>5, <1>1
<1>6. e \in E /\ \A f \in E : e <= f
  BY <1>1, <1>4, <1>5, MinIs
<1>7. PICK x \in F : x >= a /\ e = After(hp, x) /\ e \notin F
  BY <1>1, <1>6
<1>8. x \in B
  BY <1>1
<1>9. e \in Nat /\ e <= hp.size /\ e \in (B \ F) \cup {hp.size}
  BY <1>2, <1>7, <1>8
<1>10. e >= After(hp, a)
  BY <1>1, <1>2, <1>3, <1>7, <1>8
<1>11. ASSUME NEW c \in B \ J, a < c PROVE e <= c
  <2> SUFFICES ASSUME ~ (e <= c) PROVE FALSE
    OBVIOUS
  <2> DEFINE D == {d \in B \ J : a < d /\ d < e}
  <2>1. D \in SUBSET Nat /\ c \in D
    <3>1. c \in B /\ c \in Nat /\ c < e
      BY <1>2, <1>9
    <3>2. \A d \in D : d \in Nat
      BY <1>2
    <3> QED BY <3>1, <3>2, <1>11
  <2>2. PICK d \in D : \A f \in D : d <= f
    <3> HIDE DEF D
    <3> QED BY <2>1, LeastNumber
  <2>3. d \in B /\ d \notin J /\ a < d /\ d < e /\ d \in Nat /\ a \in Nat
    BY <1>1, <1>2
  <2>4. PICK p \in B : p < d /\ After(hp, p) = d
    <3>1. d # 0
      BY <2>3
    <3> QED BY <2>3, <3>1, OneBefore
  <2>5. p \in Nat /\ p >= a
    <3>1. p < a => After(hp, p) <= a
      BY <1>1, <1>3
    <3> QED BY <1>1, <1>2, <2>3, <2>4, <3>1
  <2>6. p \in F
    <3>1. CASE p = a
      BY <3>1, <1>1
    <3>2. CASE p # a
      <4>1. p \notin D
        BY <2>2, <2>3, <2>4, <2>5
      <4>2. a < p /\ p < e
        BY <1>1, <1>2, <1>9, <2>3, <2>4, <2>5, <3>2
      <4>3. p \in J
        BY <4>1, <4>2
      <4> QED BY <4>3, <1>1
    <3> QED BY <3>1, <3>2
  <2>7. d \notin F
    BY <2>3, <2>4, <2>6, <1>1
  <2>8. d \in E
    BY <1>1, <2>4, <2>5, <2>6, <2>7
  <2> QED BY <2>3, <2>8, <1>6, <1>9
<1> QED BY <1>7, <1>9, <1>10, <1>11 DEF F, J, E, e

\* The memory after the joining, cell by cell.
JoinedMem(hp, F) ==
  [c \in Cell |->
     CASE c \in F \ JoinedOnes(hp, F) -> Header(EndOfRun(hp, F, c) - c - Overhead, FREE, -1)
       [] c \in JoinedOnes(hp, F) \/ c + 1 \in JoinedOnes(hp, F) -> Unused
       [] OTHER -> hp.mem[c]]

\* JoinFree writes these cells and takes those joined off the counters.
LEMMA JoinFreeUnfolds ==
  ASSUME NEW hp
  PROVE  LET F == BlocksIn(hp, {FREE})  n == Cardinality(JoinedOnes(hp, F)) IN
         JoinFree(hp) = [hp EXCEPT !.mem = JoinedMem(hp, F), !.freeBlocks = @ - n,
                                   !.freeSize = @ + n * Overhead]
BY Zenon DEF JoinFree, JoinedMem, JoinedOnes, EndOfRun, EndsFrom

\* After it the heap is in order, with the blocks that were not joined, and
\* nobody's block has changed.
LEMMA JoinFreeIs ==
  ASSUME NEW hp, NEW ask, NEW fil, NEW B, Good(hp, ask, fil, B, {})
  PROVE  LET q == JoinFree(hp)  F == FreeOnes(hp, B)  J == JoinedOnes(hp, F) IN
         /\ Good(q, ask, fil, B \ J, {}) /\ Same(hp, q)
         /\ F = B => B \ J = {0}
<1> DEFINE q == JoinFree(hp)  F == FreeOnes(hp, B)  J == JoinedOnes(hp, F)
           n == Cardinality(J)  M == JoinedMem(hp, F)  C == B \ J
           End(c) == EndOfRun(hp, F, c)
<1>0. /\ hp \in HeapT /\ Tiled(hp, B) /\ Owners(hp, ask, B, {}) /\ Asked(hp, ask)
      /\ Tallies(hp, B, {}) /\ Kept(hp, ask, fil) /\ Systems(hp)
  BY DEF Good
<1>1. F \subseteq B /\ J \subseteq F /\ \A j \in J : \E a \in F : j = After(hp, a)
  BY DEF FreeOnes, JoinedOnes
<1>2. J = {After(hp, a) : a \in F} \cap F
  BY DEF JoinedOnes
<1>3. q = [hp EXCEPT !.mem = M, !.freeBlocks = @ - n, !.freeSize = @ + n * Overhead]
  <2>1. BlocksIn(hp, {FREE}) = F
    BY Walked DEF FreeOnes
  <2> HIDE DEF F
  <2> QED BY <2>1, JoinFreeUnfolds
<1>4. \A b \in B : /\ b \in Nat /\ b \in Cell /\ SizeAt(hp, b) \in Nat /\ After(hp, b) \in Nat
                   /\ After(hp, b) = b + SizeAt(hp, b) + 2
                   /\ b < After(hp, b) /\ b < hp.size /\ After(hp, b) - 1 \in Cell
  BY <1>0, BlockFacts
<1>5. /\ hp.size \in Nat /\ hp.size <= HeapSize /\ 0 \in B /\ B \subseteq Cell
      /\ \A b, c \in B : b < c => After(hp, b) <= c
      /\ \A b \in B : /\ After(hp, b) \in B \cup {hp.size} /\ After(hp, b) <= hp.size
                      /\ hp.mem[After(hp, b) - 1] = Footer /\ hp.mem[b] \in HeaderT
  BY <1>0 DEF Tiled
<1>6. \A a \in F : /\ \E x \in F : x >= a /\ End(a) = After(hp, x)
                   /\ End(a) \in Nat /\ End(a) >= After(hp, a) /\ End(a) <= hp.size
                   /\ End(a) \in (B \ F) \cup {hp.size}
                   /\ \A c \in B \ J : a < c => End(a) <= c
  BY <1>0, RunEnds
<1>7. /\ \A c \in Cell : /\ c \in F \ J => M[c] = Header(End(c) - c - Overhead, FREE, -1)
                         /\ c \notin F \ J /\ (c \in J \/ c + 1 \in J) => M[c] = Unused
                         /\ c \notin F /\ c \notin J /\ c + 1 \notin J => M[c] = hp.mem[c]
      /\ M = [c \in Cell |-> M[c]]
  <2>1. \A c \in B : c + 1 \notin B
    <3>1. \A c \in B : c < c + 1 /\ ~ (After(hp, c) <= c + 1)
      BY <1>4
    <3> QED BY <3>1, <1>5
  <2>2. \A c \in F : c + 1 \notin J
    BY <2>1, <1>1
  <2> HIDE DEF F, J, End
  <2> DEFINE V(c) == CASE c \in F \ J -> Header(End(c) - c - Overhead, FREE, -1)
                       [] c \in J \/ c + 1 \in J -> Unused
                       [] OTHER -> hp.mem[c]
  <2>3. M = [c \in Cell |-> V(c)]
    BY DEF JoinedMem, J, End
  <2>4. ASSUME NEW c \in Cell
        PROVE  /\ c \in F \ J => V(c) = Header(End(c) - c - Overhead, FREE, -1)
               /\ c \notin F \ J /\ (c \in J \/ c + 1 \in J) => V(c) = Unused
               /\ c \notin F /\ c \notin J /\ c + 1 \notin J => V(c) = hp.mem[c]
    BY <2>2
  <2> HIDE DEF V, M
  <2> QED BY <2>3, <2>4
<1>8. hp.mem \in [Cell -> Content]
  BY <1>0 DEF HeapT
<1> HIDE DEF F, J, n, M, End, q
<1>9. \A a \in F : End(a) - a - Overhead \in Nat
  BY <1>1, <1>4, <1>6 DEF Overhead
<1>10. M \in [Cell -> Content]
  <2>1. ASSUME NEW c \in Cell PROVE M[c] \in Content
    <3>1. CASE c \in F \ J
      <4>1. End(c) - c - Overhead \in Nat
        BY <3>1, <1>9
      <4>2. M[c] = Header(End(c) - c - Overhead, FREE, -1)
        BY <3>1, <1>7
      <4> QED BY <4>1, <4>2, HeaderIs
    <3>2. CASE c \notin F \ J /\ (c \in J \/ c + 1 \in J)
      BY <3>2, <1>7, ContentIs
    <3>3. CASE c \notin F /\ c \notin J /\ c + 1 \notin J
      BY <3>3, <1>7, <1>8
    <3> QED BY <3>1, <3>2, <3>3, <1>1
  <2> QED BY <2>1, <1>7
<1>11. IsFiniteSet(B) /\ n \in Nat /\ Cardinality(C) = Cardinality(B) - n
       /\ Cardinality(B) \in Nat /\ Cardinality(C) \in Nat
  <2>1. J \subseteq B /\ B \cap J = J
    BY <1>1
  <2> QED BY <2>1, <1>0, BlocksFinite, FS_Difference DEF n
<1>12. /\ q.mem = M /\ q.freeBlocks = hp.freeBlocks - n /\ q.freeSize = hp.freeSize + n * 2
       /\ q.handles = hp.handles /\ q.size = hp.size /\ q.system = hp.system
       /\ q.systemBlocks = hp.systemBlocks /\ q.systemSize = hp.systemSize
       /\ q.moveableBlocks = hp.moveableBlocks /\ q.moveableSize = hp.moveableSize
       /\ q.lockedBlocks = hp.lockedBlocks /\ q.lockedSize = hp.lockedSize
       /\ q \in HeapT
  <2>1. n * Overhead = n * 2 /\ n * 2 \in Int /\ n \in Int
    BY <1>11 DEF Overhead
  <2>2. hp.freeBlocks - n \in Int /\ hp.freeSize + n * 2 \in Int
    BY <1>0, <2>1 DEF HeapT
  <2> DEFINE x == hp.freeBlocks - n  y == hp.freeSize + n * 2
  <2>3. q = [hp EXCEPT !.mem = M, !.freeBlocks = x, !.freeSize = y]
    BY <1>3, <2>1
  <2> HIDE DEF x, y
  <2>4. q \in HeapT
    BY <1>0, <1>10, <2>2, <2>3 DEF HeapT, x, y
  <2>5. /\ q.mem = M /\ q.freeBlocks = x /\ q.freeSize = y
    BY <1>0, <2>3 DEF HeapT
  <2>6. /\ q.handles = hp.handles /\ q.size = hp.size /\ q.system = hp.system
        /\ q.systemBlocks = hp.systemBlocks /\ q.systemSize = hp.systemSize
    BY <1>0, <2>3 DEF HeapT
  <2>7. /\ q.moveableBlocks = hp.moveableBlocks /\ q.moveableSize = hp.moveableSize
        /\ q.lockedBlocks = hp.lockedBlocks /\ q.lockedSize = hp.lockedSize
    BY <1>0, <2>3 DEF HeapT
  <2> QED BY <2>4, <2>5, <2>6, <2>7 DEF x, y

\* The joined free blocks.
<1>13. ASSUME NEW a \in F \ J
       PROVE  /\ q.mem[a] \in HeaderT /\ After(q, a) = End(a) /\ StateAt(q, a) = FREE
              /\ q.mem[End(a) - 1] = Footer
  <2>1. End(a) - a - Overhead \in Nat /\ a \in Cell /\ a \in B
    BY <1>1, <1>4, <1>9
  <2>2. q.mem[a] = Header(End(a) - a - Overhead, FREE, -1)
    BY <2>1, <1>7, <1>12
  <2>3. /\ q.mem[a] \in HeaderT /\ q.mem[a].size = End(a) - a - Overhead /\ q.mem[a].state = FREE
    BY <2>1, <2>2, HeaderIs
  <2>4. After(q, a) = End(a)
    BY <2>1, <2>3, <1>6, <1>4 DEF After, SizeAt, Overhead
  <2>5. PICK x \in F : x >= a /\ End(a) = After(hp, x)
    BY <1>6
  <2>6. x \in B /\ End(a) - 1 \in Cell /\ hp.mem[End(a) - 1] = Footer
    BY <2>5, <1>1, <1>4, <1>5
  <2>7. End(a) - 1 \notin B
    <3>1. x < End(a) - 1 /\ End(a) \in Nat
      BY <2>5, <2>6, <1>4
    <3>2. ~ (End(a) <= End(a) - 1)
      BY <3>1
    <3> QED BY <3>1, <3>2, <2>5, <2>6, <1>5
  <2>8. End(a) \notin J
    <3>1. End(a) \notin F
      BY <1>1, <1>4, <1>6
    <3> QED BY <3>1, <1>1
  <2>9. (End(a) - 1) + 1 = End(a)
    BY <1>6
  <2>10. End(a) - 1 \notin F /\ End(a) - 1 \notin J
    BY <2>7, <1>1
  <2>11. M[End(a) - 1] = hp.mem[End(a) - 1]
    BY <2>6, <2>8, <2>9, <2>10, <1>7
  <2> QED BY <2>3, <2>4, <2>6, <2>11, <1>12 DEF StateAt

\* The others are left alone.
<1>14. ASSUME NEW b \in B \ F, NEW c \in b .. After(hp, b) - 1
       PROVE  q.mem[c] = hp.mem[c]
  <2>1. c \in Cell /\ c \in Nat /\ b <= c /\ c < After(hp, b)
    BY <1>4, HeapSizeIs DEF Cell
  <2>2. c \notin F
    <3>1. ASSUME c \in F PROVE FALSE
      <4>1. c \in B /\ c # b
        BY <3>1, <1>1
      <4>2. b < c
        BY <4>1, <2>1, <1>4
      <4>3. After(hp, b) <= c
        BY <4>1, <4>2, <1>5
      <4> QED BY <4>3, <2>1, <1>4
    <3> QED BY <3>1
  <2>3. c \notin J
    BY <2>2, <1>1
  <2>4. c + 1 \notin J
    <3>1. ASSUME c + 1 \in J PROVE FALSE
      <4>1. PICK x \in F : c + 1 = After(hp, x)
        BY <3>1, <1>1
      <4>2. c + 1 \in B /\ x \in B /\ x # b
        BY <3>1, <1>1
      <4>3. After(hp, b) <= c + 1
        BY <4>2, <2>1, <1>4, <1>5
      <4>4. c + 1 = After(hp, b)
        BY <4>3, <2>1, <1>4
      <4>5. x < b => After(hp, x) <= b
        BY <4>2, <1>5
      <4>6. b < x => After(hp, b) <= x
        BY <4>2, <1>5
      <4>7. x \in Nat /\ b \in Nat /\ x < After(hp, x) /\ b < After(hp, b)
        BY <4>2, <1>4
      <4> QED BY <4>1, <4>2, <4>4, <4>5, <4>6, <4>7
    <3> QED BY <3>1
  <2> QED BY <2>1, <2>2, <2>3, <2>4, <1>7, <1>12
<1>15. ASSUME NEW b \in B \ F
       PROVE  q.mem[b] = hp.mem[b] /\ StateAt(q, b) = StateAt(hp, b)
              /\ SizeAt(q, b) = SizeAt(hp, b) /\ After(q, b) = After(hp, b)
              /\ q.mem[After(q, b) - 1] = Footer
  <2>1. b \in b .. After(hp, b) - 1 /\ After(hp, b) - 1 \in b .. After(hp, b) - 1
    BY <1>4
  <2>2. q.mem[b] = hp.mem[b] /\ q.mem[After(hp, b) - 1] = hp.mem[After(hp, b) - 1]
    BY <2>1, <1>14
  <2>3. hp.mem[After(hp, b) - 1] = Footer
    BY <1>5
  <2> QED BY <2>2, <2>3 DEF StateAt, SizeAt, After
<1>16. Tiled(q, C)
  <2>1. 0 \in C
    <3>1. \A a \in F : After(hp, a) # 0
      BY <1>1, <1>4
    <3> QED BY <3>1, <1>1, <1>5
  <2>2. ASSUME NEW b \in C
        PROVE  /\ q.mem[b] \in HeaderT
               /\ After(q, b) \in C \cup {q.size} /\ After(q, b) <= q.size
               /\ q.mem[After(q, b) - 1] = Footer
               /\ \A c \in C : b < c => After(q, b) <= c
    <3>1. CASE b \in F
      <4>1. End(b) \in C \cup {hp.size}
        BY <3>1, <1>1, <1>6
      <4> QED BY <3>1, <4>1, <1>6, <1>12, <1>13
    <3>2. CASE b \notin F
      <4>1. After(hp, b) \in B \cup {hp.size} /\ After(hp, b) <= hp.size
        BY <1>5
      <4>2. After(hp, b) \notin J
        <5>1. ASSUME After(hp, b) \in J PROVE FALSE
          <6>1. PICK x \in F : After(hp, x) = After(hp, b)
            BY <5>1, <1>1
          <6>2. x \in B /\ x # b /\ b \in B
            BY <3>2, <1>1
          <6>3. (x < b => After(hp, x) <= b) /\ (b < x => After(hp, b) <= x)
            BY <6>2, <1>5
          <6>4. x \in Nat /\ b \in Nat /\ x < After(hp, x) /\ b < After(hp, b) /\ After(hp, b) \in Nat
            BY <6>2, <1>4
          <6> QED BY <6>1, <6>2, <6>3, <6>4
        <5> QED BY <5>1
      <4>3. q.mem[b] \in HeaderT
        BY <3>2, <1>15, <1>5
      <4> QED BY <3>2, <4>1, <4>2, <4>3, <1>15, <1>5, <1>12
    <3> QED BY <3>1, <3>2
  <2>3. C \in SUBSET Cell
    BY <1>5
  <2> QED BY <2>1, <2>2, <2>3, <1>5, <1>12 DEF Tiled
<1>17. Live(q, C, {}) = Live(hp, B, {})
  <2>1. \A b \in B : b \in F <=> StateAt(hp, b) = FREE
    BY DEF F, FreeOnes
  <2>2. ASSUME NEW b \in C PROVE StateAt(q, b) = FREE <=> StateAt(hp, b) = FREE
    BY <2>1, <1>13, <1>15
  <2>3. \A b \in B : StateAt(hp, b) # FREE => b \in C
    BY <2>1, <1>1
  <2> QED BY <2>2, <2>3 DEF Live
<1>18. ASSUME NEW b \in Live(hp, B, {}), NEW c \in b .. After(hp, b) - 1
       PROVE  q.mem[c] = hp.mem[c]
  <2>1. b \in B \ F
    BY DEF Live, F, FreeOnes
  <2> QED BY <2>1, <1>14
<1>19. /\ Owners(q, ask, C, {}) /\ Kept(q, ask, fil)
       /\ \A count, size : \A state \in {MOVABLE, LOCKED} :
            Tally(hp, InState(hp, B, {}, state), count, size)
              => Tally(q, InState(q, C, {}, state), count, size)
  <2> HIDE DEF C
  <2> QED BY <1>0, <1>8, <1>12, <1>17, <1>18, LeftAlone
<1>20. Tallies(q, C, {})
  <2>1. /\ Tally(q, InState(q, C, {}, MOVABLE), q.moveableBlocks, q.moveableSize)
        /\ Tally(q, InState(q, C, {}, LOCKED), q.lockedBlocks, q.lockedSize)
    BY <1>0, <1>12, <1>19 DEF Tallies
  <2>2. Count(hp) = Cardinality(B)
        /\ hp.freeSize + hp.moveableSize + hp.lockedSize + 2 * Cardinality(B) = hp.size
    BY <1>0 DEF Tallies
  <2>3. Count(q) = Cardinality(C)
    BY <2>2, <1>0, <1>11, <1>12 DEF Count, HeapT
  <2>4. q.freeSize + q.moveableSize + q.lockedSize + 2 * Cardinality(C) = q.size
    <3>1. hp.freeSize \in Int /\ hp.moveableSize \in Int /\ hp.lockedSize \in Int
      BY <1>0 DEF HeapT
    <3> HIDE DEF C
    <3> QED BY <2>2, <3>1, <1>11, <1>12
  <2> QED BY <2>1, <2>3, <2>4 DEF Tallies
<1>21. Same(hp, q)
  <2>1. ASSUME NEW h \in DOMAIN hp.handles, hp.handles[h].state = LOCKED
        PROVE  SizeAt(q, hp.handles[h].data) = SizeAt(hp, hp.handles[h].data)
    <3>1. hp.handles[h].data \in Live(hp, B, {})
      BY <1>0, <2>1 DEF Owners, BoundTo
    <3>2. hp.handles[h].data \in B \ F
      BY <3>1 DEF Live, F, FreeOnes
    <3> QED BY <3>2, <1>15
  <2> QED BY <2>1, <1>12 DEF Same
<1>22. Good(q, ask, fil, C, {})
  BY <1>0, <1>12, <1>16, <1>19, <1>20, <1>21, SameSystems DEF Good
<1>23. ASSUME F = B PROVE C = {0}
  <2>1. ASSUME NEW b \in B, b # 0 PROVE b \in J
    <3>1. PICK p \in B : After(hp, p) = b
      BY <2>1, <1>0, OneBefore
    <3> QED BY <3>1, <1>23, <1>2
  <2>2. 0 \in C
    BY <1>16 DEF Tiled
  <2> QED BY <2>1, <2>2
<1> QED BY <1>21, <1>22, <1>23 DEF q, F, J

-----------------------------------------------------------------------------
\* A free block is taken: a block of size "used" stands in its place, and
\* behind it what is left of it, if anything is.

Occupied(hp, q, a, used, h) ==
  /\ q.mem \in [Cell -> Content] /\ q.size = hp.size
  /\ used \in Nat /\ h \in Int
  /\ used = SizeAt(hp, a) \/ used + 2 <= SizeAt(hp, a)
  /\ q.mem[a] = Header(used, MOVABLE, h)
  /\ q.mem[a + used + 1] = Footer
  /\ used # SizeAt(hp, a) =>
       /\ q.mem[a + used + 2] = Header(SizeAt(hp, a) - used - 2, FREE, -1)
       /\ q.mem[After(hp, a) - 1] = Footer
  /\ \A c \in Cell : c < a \/ c >= After(hp, a) => q.mem[c] = hp.mem[c]

WithRest(hp, B, a, used) ==
  B \cup (IF used = SizeAt(hp, a) THEN {} ELSE {a + used + 2})

\* A block none of whose cells changed.
Intact(hp, q, b) ==
  /\ \A c \in b .. After(hp, b) - 1 : q.mem[c] = hp.mem[c]
  /\ q.mem[b] = hp.mem[b] /\ StateAt(q, b) = StateAt(hp, b)
  /\ SizeAt(q, b) = SizeAt(hp, b) /\ After(q, b) = After(hp, b)
  /\ q.mem[After(q, b) - 1] = Footer

\* A change of some cells leaves the blocks intact that have none of them.
LEMMA IntactOutside ==
  ASSUME NEW hp, NEW q, NEW B, Tiled(hp, B), NEW from \in Nat, NEW end \in Nat,
         \A c \in Cell : c < from \/ c >= end => q.mem[c] = hp.mem[c],
         NEW b \in B, After(hp, b) <= from \/ b >= end
  PROVE  Intact(hp, q, b)
<1>1. /\ b \in Nat /\ b < After(hp, b) /\ After(hp, b) \in Nat /\ After(hp, b) - 1 \in Cell
  BY BlockFacts
<1>2. HeapSize \in Nat /\ Cell = 0 .. HeapSize - 1
  BY HeapSizeIs DEF Cell
<1>3. ASSUME NEW c \in b .. After(hp, b) - 1 PROVE q.mem[c] = hp.mem[c]
  <2>1. c \in Cell
    BY <1>1, <1>2
  <2>2. c < from \/ c >= end
    BY <1>1
  <2> QED BY <2>1, <2>2
<1>4. q.mem[b] = hp.mem[b] /\ q.mem[After(hp, b) - 1] = hp.mem[After(hp, b) - 1]
  <2>1. b \in b .. After(hp, b) - 1 /\ After(hp, b) - 1 \in b .. After(hp, b) - 1
    BY <1>1
  <2> QED BY <2>1, <1>3
<1>5. hp.mem[After(hp, b) - 1] = Footer
  BY DEF Tiled
<1>6. After(q, b) = After(hp, b)
  BY <1>4 DEF After, SizeAt
<1> QED BY <1>3, <1>4, <1>5, <1>6 DEF Intact, StateAt, SizeAt

\* The blocks still tile the memory.
LEMMA OccupiedTiles ==
  ASSUME NEW hp, NEW q, NEW B, Tiled(hp, B), NEW a \in FreeOnes(hp, B),
         NEW used, NEW h, Occupied(hp, q, a, used, h)
  PROVE  LET C == WithRest(hp, B, a, used) IN
         /\ Tiled(q, C) /\ B \subseteq C
         /\ Cardinality(C) = Cardinality(B) + (IF used = SizeAt(hp, a) THEN 0 ELSE 1)
         /\ \A b \in B : b # a => Intact(hp, q, b)
         /\ \A c \in C \ B : a < c /\ c < After(hp, a) /\ StateAt(q, c) = FREE
         /\ StateAt(q, a) = MOVABLE /\ SizeAt(q, a) = used /\ q.mem[a].handle_index = h
<1> DEFINE C == WithRest(hp, B, a, used)
           d == a + used + 2
           whole == used = SizeAt(hp, a)
<1>0. a \in B /\ StateAt(hp, a) = FREE
  BY DEF FreeOnes
<1>1. \A b \in B : /\ b \in Nat /\ b \in Cell /\ SizeAt(hp, b) \in Nat /\ After(hp, b) \in Nat
                   /\ After(hp, b) = b + SizeAt(hp, b) + 2
                   /\ b < After(hp, b) /\ b < hp.size /\ After(hp, b) - 1 \in Cell
  BY BlockFacts
<1>2. /\ hp.size \in Nat /\ hp.size <= HeapSize /\ 0 \in B /\ B \subseteq Cell
      /\ \A b, c \in B : b < c => After(hp, b) <= c
      /\ \A b \in B : After(hp, b) \in B \cup {hp.size} /\ After(hp, b) <= hp.size
  BY DEF Tiled
<1>3. HeapSize \in Nat /\ Cell = 0 .. HeapSize - 1
  BY HeapSizeIs DEF Cell
<1>4. used \in Nat /\ h \in Int /\ (whole \/ d <= After(hp, a) - 2) /\ d \in Nat
      /\ q.mem \in [Cell -> Content] /\ q.size = hp.size
  BY <1>0, <1>1 DEF Occupied
<1>5. \A b \in B : b # a => Intact(hp, q, b)
  <2> SUFFICES ASSUME NEW b \in B, b # a PROVE Intact(hp, q, b)
    OBVIOUS
  <2>1. After(hp, b) <= a \/ b >= After(hp, a)
    BY <1>0, <1>1, <1>2
  <2>2. \A c \in Cell : c < a \/ c >= After(hp, a) => q.mem[c] = hp.mem[c]
    BY DEF Occupied
  <2> QED BY <2>1, <2>2, <1>0, <1>1, IntactOutside
<1>6. /\ q.mem[a] = Header(used, MOVABLE, h) /\ q.mem[a + used + 1] = Footer
      /\ ~whole => q.mem[d] = Header(SizeAt(hp, a) - used - 2, FREE, -1)
                   /\ q.mem[After(hp, a) - 1] = Footer
  BY DEF Occupied
<1>7. /\ q.mem[a] \in HeaderT /\ StateAt(q, a) = MOVABLE /\ SizeAt(q, a) = used
      /\ q.mem[a].handle_index = h /\ After(q, a) = d /\ q.mem[After(q, a) - 1] = Footer
  <2>1. MOVABLE \in {FREE, MOVABLE, LOCKED}
    OBVIOUS
  <2>2. /\ q.mem[a] \in HeaderT /\ q.mem[a].size = used /\ q.mem[a].state = MOVABLE
        /\ q.mem[a].handle_index = h
    BY <2>1, <1>4, <1>6, HeaderIs
  <2>3. After(q, a) = d /\ d - 1 = a + used + 1
    BY <2>2, <1>4, <1>0, <1>1 DEF After, SizeAt, Overhead
  <2> QED BY <2>2, <2>3, <1>6 DEF StateAt, SizeAt
<1>8. ASSUME ~whole
      PROVE  /\ q.mem[d] \in HeaderT /\ StateAt(q, d) = FREE /\ After(q, d) = After(hp, a)
             /\ d \in Cell /\ d \notin B /\ a < d /\ d < After(hp, a)
             /\ q.mem[After(q, d) - 1] = Footer
  <2> DEFINE rest == SizeAt(hp, a) - used - 2
  <2>1. rest \in Nat /\ FREE \in {FREE, MOVABLE, LOCKED} /\ -1 \in Int
    BY <1>8, <1>4, <1>0, <1>1 DEF Occupied
  <2>2. q.mem[d] \in HeaderT /\ q.mem[d].size = rest /\ q.mem[d].state = FREE
    BY <2>1, <1>8, <1>6, HeaderIs
  <2>3. After(q, d) = After(hp, a)
    BY <2>1, <2>2, <1>0, <1>1, <1>4 DEF After, SizeAt, Overhead
  <2>4. a < d /\ d < After(hp, a)
    BY <1>0, <1>1, <1>4, <1>8
  <2>5. d \in Cell
    BY <2>4, <1>0, <1>1, <1>3, <1>4
  <2>6. d \notin B
    BY <2>4, <1>0, <1>1, <1>2, <1>4
  <2> QED BY <2>2, <2>3, <2>4, <2>5, <2>6, <1>6, <1>8 DEF StateAt
<1>9. C = IF whole THEN B ELSE B \cup {d}
  BY DEF WithRest
<1>10. Cardinality(C) = Cardinality(B) + (IF whole THEN 0 ELSE 1)
  <2>1. IsFiniteSet(B) /\ Cardinality(B) \in Nat
    BY BlocksFinite
  <2>2. CASE whole
    BY <2>1, <2>2, <1>9
  <2>3. CASE ~whole
    BY <2>1, <2>3, <1>8, <1>9, FS_AddElement
  <2> QED BY <2>2, <2>3
<1> HIDE DEF C, whole, d
<1>11. Tiled(q, C)
  <2>1. ASSUME NEW b \in C
        PROVE  /\ q.mem[b] \in HeaderT
               /\ After(q, b) \in C \cup {q.size} /\ After(q, b) <= q.size
               /\ q.mem[After(q, b) - 1] = Footer
               /\ \A c \in C : b < c => After(q, b) <= c
    <3>1. CASE b \in B /\ b # a
      <4>1. Intact(hp, q, b)
        BY <3>1, <1>5
      <4>2. q.mem[b] = hp.mem[b] /\ After(q, b) = After(hp, b) /\ q.mem[After(q, b) - 1] = Footer
        BY <4>1 DEF Intact
      <4>3. hp.mem[b] \in HeaderT
        BY <3>1 DEF Tiled
      <4>4. After(hp, b) \in C \cup {q.size} /\ After(hp, b) <= q.size
        BY <3>1, <1>2, <1>4, <1>9
      <4>5. ASSUME NEW c \in C, b < c PROVE After(hp, b) <= c
        <5>1. CASE c \in B
          BY <3>1, <4>5, <5>1, <1>2
        <5>2. CASE c \notin B
          <6>1. c = d /\ ~whole
            BY <5>2, <1>9
          <6>2. a < d /\ d < After(hp, a)
            BY <6>1, <1>8
          <6>3. (b < a => After(hp, b) <= a) /\ (a < b => After(hp, a) <= b)
            BY <3>1, <1>0, <1>2
          <6>4. a \in Nat /\ b \in Nat /\ After(hp, a) \in Nat /\ After(hp, b) \in Nat
            BY <3>1, <1>0, <1>1
          <6> QED BY <3>1, <4>5, <6>1, <6>2, <6>3, <6>4, <1>4
        <5> QED BY <5>1, <5>2
      <4> QED BY <4>2, <4>3, <4>4, <4>5
    <3>2. CASE b = a
      <4>1. d = After(hp, a) \/ ~whole
        BY <1>0, <1>1 DEF d, whole
      <4>2. After(q, a) = d
        BY <1>7
      <4>3. d \in C \cup {q.size} /\ d <= q.size
        <5>1. CASE whole
          BY <5>1, <4>1, <1>0, <1>2, <1>4, <1>9
        <5>2. CASE ~whole
          <6>1. d < After(hp, a) /\ After(hp, a) <= hp.size /\ d \in C
            BY <5>2, <1>0, <1>2, <1>8, <1>9
          <6> QED BY <6>1, <1>4, <1>0, <1>1, <1>2
        <5> QED BY <5>1, <5>2
      <4>4. ASSUME NEW c \in C, a < c PROVE d <= c
        <5>1. CASE c = d
          BY <5>1, <1>4
        <5>2. CASE c # d
          <6>1. c \in B /\ After(hp, a) <= c
            BY <5>2, <4>4, <1>0, <1>2, <1>9
          <6>2. d <= After(hp, a)
            BY <4>1, <1>4, <1>8, <1>0, <1>1
          <6> QED BY <6>1, <6>2, <1>0, <1>1, <1>4
        <5> QED BY <5>1, <5>2
      <4> QED BY <3>2, <4>2, <4>3, <4>4, <1>7
    <3>3. CASE b \notin B
      <4>1. b = d /\ ~whole
        BY <3>3, <1>9
      <4>2. /\ q.mem[d] \in HeaderT /\ After(q, d) = After(hp, a)
            /\ q.mem[After(q, d) - 1] = Footer /\ d < After(hp, a) /\ a < d
        BY <4>1, <1>8
      <4>3. After(hp, a) \in C \cup {q.size} /\ After(hp, a) <= q.size
        BY <1>0, <1>2, <1>4, <1>9
      <4>4. ASSUME NEW c \in C, d < c PROVE After(hp, a) <= c
        <5>1. c \in B
          BY <4>4, <1>4, <1>9
        <5>2. a < c
          BY <4>2, <4>4, <5>1, <1>0, <1>1, <1>4
        <5> QED BY <5>1, <5>2, <1>0, <1>2
      <4> QED BY <4>1, <4>2, <4>3, <4>4
    <3> QED BY <3>1, <3>2, <3>3
  <2>2. C \in SUBSET Cell /\ 0 \in C
    BY <1>2, <1>8, <1>9
  <2> QED BY <2>1, <2>2, <1>2, <1>4 DEF Tiled
<1>12. ASSUME NEW c \in C \ B PROVE a < c /\ c < After(hp, a) /\ StateAt(q, c) = FREE
  BY <1>8, <1>9
<1> QED BY <1>5, <1>7, <1>9, <1>10, <1>11, <1>12 DEF C, whole

-----------------------------------------------------------------------------
\* One block of an extent is moved.

CopyMem(hp, from, to) ==
  [c \in Cell |-> IF c \in to .. to + SizeAt(hp, from) + 1 THEN hp.mem[c - to + from]
                  ELSE hp.mem[c]]

UsedBy(hp, from, to) ==
  IF SizeAt(hp, to) - SizeAt(hp, from) < MinSplit THEN SizeAt(hp, to) ELSE SizeAt(hp, from)

MovedMem(hp, from, to) ==
  LET size == SizeAt(hp, from)
      rest == SizeAt(hp, to) - size
      copy == CopyMem(hp, from, to)
  IN IF rest = 0 THEN copy
     ELSE IF rest < MinSplit
          THEN [copy EXCEPT ![to].size = @ + rest, ![to + size + 1] = Unused]
          ELSE [copy EXCEPT ![to + size + 2] = Header(rest - 2, FREE, -1)]

\* MoveBlock in those terms.
LEMMA MoveBlockUnfolds ==
  ASSUME NEW hp \in HeapT, NEW from, NEW to, SizeAt(hp, from) \in Int, SizeAt(hp, to) \in Int
  PROVE  LET q == MoveBlock(hp, from, to)  used == UsedBy(hp, from, to)
             size == SizeAt(hp, from)      rest == SizeAt(hp, to) - size IN
         /\ q.mem = MovedMem(hp, from, to)
         /\ q.handles = [hp.handles EXCEPT ![hp.mem[from].handle_index].data = to]
         /\ q.size = hp.size /\ q.system = hp.system
         /\ q.systemBlocks = hp.systemBlocks /\ q.systemSize = hp.systemSize
         /\ q.moveableBlocks = hp.moveableBlocks
         /\ q.lockedBlocks = hp.lockedBlocks /\ q.lockedSize = hp.lockedSize
         /\ used = SizeAt(hp, to) =>
              /\ q.freeBlocks = hp.freeBlocks /\ q.freeSize = hp.freeSize - rest
              /\ q.moveableSize = hp.moveableSize + rest
         /\ used # SizeAt(hp, to) =>
              /\ q.freeBlocks = hp.freeBlocks + 1 /\ q.freeSize = hp.freeSize - 2
              /\ q.moveableSize = hp.moveableSize
         /\ q = [f \in DOMAIN hp |-> q[f]]
<1> DEFINE size == SizeAt(hp, from)
           rest == SizeAt(hp, to) - size
           h == hp.mem[from].handle_index
           m == CopyMem(hp, from, to)
           d == [hp.handles EXCEPT ![h].data = to]
           moved == [hp EXCEPT !.mem = m, !.handles = d]
           q == MoveBlock(hp, from, to)
<1>1. MoveBlock(hp, from, to) =
        CASE rest = 0 -> moved
          [] rest # 0 /\ rest < MinSplit ->
               [moved EXCEPT !.mem[to].size = @ + rest, !.mem[to + size + 1] = Unused,
                             !.freeSize = @ - rest, !.moveableSize = @ + rest]
          [] OTHER ->
               [moved EXCEPT !.mem[to + size + Overhead] = Header(rest - Overhead, FREE, -1),
                             !.freeBlocks = @ + 1, !.freeSize = @ - Overhead]
  BY Zenon DEF MoveBlock, CopyMem
<1>2. rest \in Int /\ MinSplit \in Nat /\ MinSplit > 2 /\ SizeAt(hp, to) - rest = size
      /\ (rest # 0 => size # SizeAt(hp, to)) /\ size \in Int /\ SizeAt(hp, to) \in Int
  BY HeapAssumption
<1>3. hp.mem \in [Cell -> Content] /\ hp.freeBlocks \in Int /\ hp.freeSize \in Int
      /\ hp.moveableSize \in Int
  BY DEF HeapT
<1> HIDE DEF size, m, d, h, q
<1>4. /\ moved.mem = m /\ moved.handles = d
      /\ moved.size = hp.size /\ moved.system = hp.system
      /\ moved.systemBlocks = hp.systemBlocks /\ moved.systemSize = hp.systemSize
      /\ moved.moveableBlocks = hp.moveableBlocks /\ moved.moveableSize = hp.moveableSize
      /\ moved.lockedBlocks = hp.lockedBlocks /\ moved.lockedSize = hp.lockedSize
      /\ moved.freeBlocks = hp.freeBlocks /\ moved.freeSize = hp.freeSize
      /\ DOMAIN moved = DOMAIN hp /\ moved = [f \in DOMAIN hp |-> moved[f]]
  BY DEF HeapT
<1>5. DOMAIN hp = {"size", "mem", "freeBlocks", "moveableBlocks", "lockedBlocks", "systemBlocks",
                   "freeSize", "moveableSize", "lockedSize", "systemSize", "handles", "system"}
  BY DEF HeapT
<1> HIDE DEF moved
<1>6. CASE rest = 0
  <2>1. q = moved /\ UsedBy(hp, from, to) = SizeAt(hp, to) /\ MovedMem(hp, from, to) = m
    BY <1>1, <1>2, <1>6 DEF UsedBy, MovedMem, m, q, size
  <2> HIDE DEF rest
  <2>2. /\ q.mem = m /\ q.handles = d
        /\ q.size = hp.size /\ q.system = hp.system
        /\ q.systemBlocks = hp.systemBlocks /\ q.systemSize = hp.systemSize
        /\ q.moveableBlocks = hp.moveableBlocks
        /\ q.lockedBlocks = hp.lockedBlocks /\ q.lockedSize = hp.lockedSize
        /\ q = [f \in DOMAIN hp |-> q[f]]
    BY <2>1, <1>4
  <2>3. /\ q.freeBlocks = hp.freeBlocks /\ q.freeSize = hp.freeSize - rest
        /\ q.moveableSize = hp.moveableSize + rest
    BY <2>1, <1>3, <1>4, <1>6
  <2> QED BY <2>1, <2>2, <2>3 DEF q, d, h, size, rest
<1>7. CASE rest # 0 /\ rest < MinSplit
  <2> DEFINE n == [m EXCEPT ![to].size = @ + rest, ![to + size + 1] = Unused]
  <2>1. q = [moved EXCEPT !.mem[to].size = @ + rest, !.mem[to + size + 1] = Unused,
                          !.freeSize = @ - rest, !.moveableSize = @ + rest]
    BY <1>1, <1>7 DEF q
  <2>2. UsedBy(hp, from, to) = SizeAt(hp, to) /\ MovedMem(hp, from, to) = n
    BY <1>2, <1>7 DEF UsedBy, MovedMem, m, size
  <2>3. q = [moved EXCEPT !.mem = n, !.freeSize = hp.freeSize - rest,
                          !.moveableSize = hp.moveableSize + rest]
    BY <2>1, <1>4, <1>5
  <2> HIDE DEF n
  <2>4. /\ q.mem = n /\ q.handles = d
        /\ q.size = hp.size /\ q.system = hp.system
        /\ q.systemBlocks = hp.systemBlocks /\ q.systemSize = hp.systemSize
        /\ q.moveableBlocks = hp.moveableBlocks
        /\ q.lockedBlocks = hp.lockedBlocks /\ q.lockedSize = hp.lockedSize
        /\ q = [f \in DOMAIN hp |-> q[f]]
    BY <2>3, <1>4, <1>5
  <2>5. /\ q.freeBlocks = hp.freeBlocks /\ q.freeSize = hp.freeSize - rest
        /\ q.moveableSize = hp.moveableSize + rest
    BY <2>3, <1>4, <1>5
  <2> QED BY <2>2, <2>4, <2>5 DEF q, d, h, size
<1>8. CASE ~ (rest < MinSplit)
  <2> DEFINE n == [m EXCEPT ![to + size + 2] = Header(rest - 2, FREE, -1)]
  <2>1. q = [moved EXCEPT !.mem[to + size + 2] = Header(rest - 2, FREE, -1),
                          !.freeBlocks = @ + 1, !.freeSize = @ - 2]
    BY <1>1, <1>2, <1>8 DEF q, Overhead
  <2>2. UsedBy(hp, from, to) = size /\ MovedMem(hp, from, to) = n /\ size # SizeAt(hp, to)
    BY <1>2, <1>8 DEF UsedBy, MovedMem, m, size
  <2>3. q = [moved EXCEPT !.mem = n, !.freeBlocks = hp.freeBlocks + 1, !.freeSize = hp.freeSize - 2]
    BY <2>1, <1>4, <1>5
  <2> HIDE DEF n
  <2>4. /\ q.mem = n /\ q.handles = d
        /\ q.size = hp.size /\ q.system = hp.system
        /\ q.systemBlocks = hp.systemBlocks /\ q.systemSize = hp.systemSize
        /\ q.moveableBlocks = hp.moveableBlocks
        /\ q.lockedBlocks = hp.lockedBlocks /\ q.lockedSize = hp.lockedSize
        /\ q = [f \in DOMAIN hp |-> q[f]]
    BY <2>3, <1>4, <1>5
  <2>5. /\ q.freeBlocks = hp.freeBlocks + 1 /\ q.freeSize = hp.freeSize - 2
        /\ q.moveableSize = hp.moveableSize
    BY <2>3, <1>4, <1>5
  <2> QED BY <2>2, <2>4, <2>5 DEF q, d, h, size
<1> QED BY <1>6, <1>7, <1>8

\* A heap stays one when its fields are replaced.
LEMMA HeapAgain ==
  ASSUME NEW hp \in HeapT, NEW q, q = [f \in DOMAIN hp |-> q[f]],
         q.size \in Nat, q.mem \in [Cell -> Content], q.handles \in HandlesT,
         q.system \in [Handle -> Nat],
         q.freeBlocks \in Int, q.moveableBlocks \in Int, q.lockedBlocks \in Int,
         q.systemBlocks \in Int, q.freeSize \in Int, q.moveableSize \in Int,
         q.lockedSize \in Int, q.systemSize \in Int
  PROVE  q \in HeapT
BY DEF HeapT

\* The handle of a block that is moved points at the new place.
LEMMA Redirected ==
  ASSUME NEW handles \in HandlesT, NEW g \in DOMAIN handles, NEW to \in Int
  PROVE  LET d == [handles EXCEPT ![g].data = to] IN
         /\ d \in HandlesT /\ DOMAIN d = DOMAIN handles
         /\ d[g].data = to /\ d[g].state = handles[g].state
         /\ \A h \in DOMAIN handles : h # g => d[h] = handles[h]
<1>1. PICK k \in Nat : handles \in [0 .. k - 1 -> HandleT]
  BY DEF HandlesT
<1> DEFINE d == [handles EXCEPT ![g].data = to]
<1>2. g \in 0 .. k - 1 /\ handles[g] \in HandleT
  BY <1>1
<1>3. /\ [handles[g] EXCEPT !.data = to] \in HandleT
      /\ [handles[g] EXCEPT !.data = to].data = to
      /\ [handles[g] EXCEPT !.data = to].state = handles[g].state
  BY <1>2 DEF HandleT
<1>4. d = [handles EXCEPT ![g] = [handles[g] EXCEPT !.data = to]]
  OBVIOUS
<1> DEFINE v == [handles[g] EXCEPT !.data = to]
<1>5. v \in HandleT /\ v.data = to /\ v.state = handles[g].state
      /\ d = [handles EXCEPT ![g] = v]
  BY <1>3, <1>4
<1> HIDE DEF v, d
<1>6. d \in [0 .. k - 1 -> HandleT]
  BY <1>1, <1>5
<1>7. d \in HandlesT
  BY <1>6 DEF HandlesT
<1>8. DOMAIN d = DOMAIN handles /\ d[g] = v /\ \A h \in DOMAIN handles : h # g => d[h] = handles[h]
  BY <1>1, <1>2, <1>5
<1> QED BY <1>5, <1>7, <1>8 DEF d

\* A block that is moved occupies the free block, and its data are there.
LEMMA MoveOccupies ==
  ASSUME NEW hp, hp.mem \in [Cell -> Content], NEW B, Tiled(hp, B),
         NEW from \in B, StateAt(hp, from) = MOVABLE, NEW to \in FreeOnes(hp, B),
         SizeAt(hp, from) <= SizeAt(hp, to),
         NEW q, q.mem = MovedMem(hp, from, to), q.size = hp.size
  PROVE  /\ Occupied(hp, q, to, UsedBy(hp, from, to), hp.mem[from].handle_index)
         /\ \A k \in 1 .. SizeAt(hp, from) : q.mem[to + k] = hp.mem[from + k]
<1> DEFINE size == SizeAt(hp, from)
           rest == SizeAt(hp, to) - size
           used == UsedBy(hp, from, to)
           h == hp.mem[from].handle_index
           m == CopyMem(hp, from, to)
           x == After(hp, to)
<1>1. to \in B /\ StateAt(hp, to) = FREE
  BY DEF FreeOnes
<1>2. /\ from \in Nat /\ size \in Nat /\ After(hp, from) = from + size + 2
      /\ After(hp, from) - 1 \in Cell
  BY BlockFacts
<1>3. /\ to \in Nat /\ SizeAt(hp, to) \in Nat /\ x = to + SizeAt(hp, to) + 2 /\ x - 1 \in Cell
      /\ to \in Cell
  BY <1>1, BlockFacts
<1>4. rest \in Nat /\ SizeAt(hp, to) = size + rest /\ MinSplit \in Nat /\ MinSplit > 2
  BY <1>2, <1>3, HeapAssumption
<1>5. HeapSize \in Nat /\ Cell = 0 .. HeapSize - 1
  BY HeapSizeIs DEF Cell
<1>6. hp.mem[from] = Header(size, MOVABLE, h) /\ h \in Int
      /\ hp.mem[from + size + 1] = Footer /\ hp.mem[x - 1] = Footer
  <2>1. hp.mem[After(hp, from) - 1] = Footer /\ hp.mem[x - 1] = Footer
    BY <1>1 DEF Tiled
  <2>2. After(hp, from) - 1 = from + size + 1
    BY <1>2
  <2> QED BY <2>1, <2>2, BlockIsHeader
<1> HIDE DEF x
<1>7. \A c \in Cell : /\ c \in to .. to + size + 1 => m[c] = hp.mem[c - to + from]
                      /\ c \notin to .. to + size + 1 => m[c] = hp.mem[c]
  BY DEF CopyMem
<1>8. m \in [Cell -> Content]
  <2>1. ASSUME NEW c \in Cell PROVE m[c] \in Content
    <3>1. CASE c \in to .. to + size + 1
      <4>1. from + size + 1 <= HeapSize - 1
        BY <1>2, <1>5
      <4>2. to <= c /\ c <= to + size + 1 /\ c \in Int
        BY <3>1, <1>2, <1>3
      <4>3. c - to + from \in Int /\ from <= c - to + from /\ c - to + from <= from + size + 1
        BY <4>2, <1>2, <1>3
      <4>4. c - to + from \in 0 .. HeapSize - 1
        BY <4>1, <4>3, <1>2, <1>5
      <4> QED BY <3>1, <4>4, <1>5, <1>7
    <3>2. CASE c \notin to .. to + size + 1
      BY <3>2, <1>7
    <3> QED BY <3>1, <3>2
  <2>2. m = [c \in Cell |-> m[c]]
    BY DEF CopyMem
  <2> HIDE DEF m
  <2> QED BY <2>1, <2>2
<1> HIDE DEF m, size, used, h
<1>0. /\ x \in Nat /\ x = to + size + 2 + rest /\ to \in Nat /\ size \in Nat /\ rest \in Nat
      /\ from \in Nat /\ HeapSize \in Nat /\ x <= HeapSize
      /\ \A c : c \in Cell <=> c \in Nat /\ c < HeapSize
  <2>1. x \in Nat /\ x = to + size + 2 + rest
    BY <1>2, <1>3, <1>4
  <2>2. \A c : c \in Cell <=> c \in Nat /\ c < HeapSize
    BY <1>5
  <2>3. x <= HeapSize
    BY <2>1, <2>2, <1>3, <1>5
  <2> QED BY <2>1, <2>2, <2>3, <1>2, <1>3, <1>4, <1>5
<1> HIDE DEF rest
<1>9. /\ m[to] = Header(size, MOVABLE, h) /\ m[to + size + 1] = Footer /\ m[x - 1] = Footer
      /\ \A k \in 1 .. size : m[to + k] = hp.mem[from + k] /\ to + k \in Cell
      /\ \A c \in Cell : c < to \/ c >= x => m[c] = hp.mem[c]
  <2>1. m[to] = Header(size, MOVABLE, h)
    <3>1. to - to + from = from /\ to \in to .. to + size + 1
      BY <1>0
    <3> QED BY <3>1, <1>3, <1>6, <1>7
  <2>2. m[to + size + 1] = Footer
    <3>1. (to + size + 1) - to + from = from + size + 1 /\ to + size + 1 \in to .. to + size + 1
          /\ to + size + 1 \in Cell
      BY <1>0
    <3> QED BY <3>1, <1>6, <1>7
  <2>3. m[x - 1] = Footer
    <3>1. CASE rest = 0
      <4>1. x - 1 = to + size + 1
        BY <3>1, <1>0
      <4> QED BY <4>1, <2>2
    <3>2. CASE rest # 0
      <4>1. x - 1 \notin to .. to + size + 1
        BY <3>2, <1>0
      <4> QED BY <4>1, <1>3, <1>6, <1>7
    <3> QED BY <3>1, <3>2
  <2>4. ASSUME NEW k \in 1 .. size PROVE m[to + k] = hp.mem[from + k] /\ to + k \in Cell
    <3>1. (to + k) - to + from = from + k /\ to + k \in to .. to + size + 1 /\ to + k \in Cell
      BY <1>0
    <3> QED BY <3>1, <1>7
  <2>5. ASSUME NEW c \in Cell, c < to \/ c >= x PROVE m[c] = hp.mem[c]
    <3>1. c \in Int /\ x >= to + size + 2 /\ (c < to \/ c >= to + size + 2)
      BY <2>5, <1>0
    <3>2. c \notin to .. to + size + 1
      BY <3>1, <1>0
    <3> QED BY <3>2, <1>7
  <2> QED BY <2>1, <2>2, <2>3, <2>4, <2>5
<1>10. q.mem = IF rest = 0 THEN m
               ELSE IF rest < MinSplit
                    THEN [m EXCEPT ![to].size = @ + rest, ![to + size + 1] = Unused]
                    ELSE [m EXCEPT ![to + size + 2] = Header(rest - 2, FREE, -1)]
  BY Zenon DEF MovedMem, m, size, rest
<1>11. used = IF rest < MinSplit THEN SizeAt(hp, to) ELSE size
  BY DEF used, size, rest, UsedBy
<1>12. CASE rest = 0
  <2>1. q.mem = m /\ used = SizeAt(hp, to) /\ used = size
    <3>1. rest < MinSplit /\ SizeAt(hp, to) = size
      BY <1>12, <1>2, <1>3, <1>4
    <3> QED BY <3>1, <1>12, <1>10, <1>11
  <2> QED BY <2>1, <1>1, <1>2, <1>3, <1>6, <1>8, <1>9, <1>12
      DEF Occupied, x, used, size, h
<1>13. CASE rest # 0 /\ rest < MinSplit
  <2> DEFINE big == Header(size + rest, MOVABLE, h)
             M == [m EXCEPT ![to] = big, ![to + size + 1] = Unused]
  <2>1. big \in Content /\ Unused \in Content
    <3>1. size + rest \in Nat /\ MOVABLE \in {FREE, MOVABLE, LOCKED}
      BY <1>2, <1>4
    <3> QED BY <3>1, <1>6, HeaderIs, ContentIs
  <2>2. [m[to] EXCEPT !.size = @ + rest] = big
    BY <1>9 DEF Header
  <2>3. q.mem = [m EXCEPT ![to].size = @ + rest, ![to + size + 1] = Unused]
    BY <1>13, <1>10
  <2>4. q.mem = M
    BY <2>2, <2>3
  <2>5. used = SizeAt(hp, to) /\ to + size + 1 \in Cell
    <3>1. to + size + 1 \in Cell
      BY <1>13, <1>0
    <3> QED BY <3>1, <1>13, <1>11
  <2> HIDE DEF big
  <2>6. M \in [Cell -> Content]
    BY <2>1, <1>8
  <2>7. M[to] = big
    <3>1. to # to + size + 1
      BY <1>0
    <3> QED BY <3>1, <1>3, <1>8
  <2>8. \A c \in Cell : c # to /\ c # to + size + 1 => M[c] = m[c]
    BY <1>8
  <2>9. M[x - 1] = Footer
    <3>1. x - 1 # to /\ x - 1 # to + size + 1
      BY <1>13, <1>0
    <3> QED BY <3>1, <2>8, <1>3, <1>9
  <2>10. ASSUME NEW k \in 1 .. size PROVE M[to + k] = hp.mem[from + k]
    <3>1. to + k # to /\ to + k # to + size + 1
      BY <1>0
    <3> QED BY <3>1, <2>8, <1>9
  <2>11. ASSUME NEW c \in Cell, c < to \/ c >= x PROVE M[c] = hp.mem[c]
    <3>1. c # to /\ c # to + size + 1
      BY <2>11, <1>13, <1>0
    <3> QED BY <3>1, <2>8, <2>11, <1>9
  <2>12. to + used + 1 = x - 1 /\ size + rest = used
    BY <2>5, <1>3, <1>4
  <2> HIDE DEF M
  <2> QED BY <2>4, <2>5, <2>6, <2>7, <2>9, <2>10, <2>11, <2>12, <1>3, <1>6
      DEF Occupied, x, used, size, h, big
<1>14. CASE ~ (rest < MinSplit)
  <2> DEFINE tail == Header(rest - 2, FREE, -1)
             M == [m EXCEPT ![to + size + 2] = tail]
  <2>1. tail \in Content
    <3>1. rest - 2 \in Nat /\ FREE \in {FREE, MOVABLE, LOCKED} /\ -1 \in Int
      BY <1>4, <1>14
    <3> QED BY <3>1, HeaderIs
  <2>2. q.mem = M /\ used = size
    BY <1>14, <1>10, <1>11, <1>4
  <2>3. to + size + 2 \in Cell /\ to + size + 1 \in Cell
    BY <1>14, <1>0, <1>4
  <2> HIDE DEF tail
  <2>4. M \in [Cell -> Content] /\ M[to + size + 2] = tail
        /\ \A c \in Cell : c # to + size + 2 => M[c] = m[c]
    BY <2>1, <2>3, <1>8
  <2>5. M[to] = Header(size, MOVABLE, h) /\ M[to + size + 1] = Footer /\ M[x - 1] = Footer
    <3>1. to # to + size + 2 /\ to + size + 1 # to + size + 2 /\ x - 1 # to + size + 2
      BY <1>14, <1>0, <1>4
    <3> QED BY <3>1, <2>3, <2>4, <1>3, <1>9
  <2>6. ASSUME NEW k \in 1 .. size PROVE M[to + k] = hp.mem[from + k]
    <3>1. to + k # to + size + 2
      BY <1>0
    <3> QED BY <3>1, <2>4, <1>9
  <2>7. ASSUME NEW c \in Cell, c < to \/ c >= x PROVE M[c] = hp.mem[c]
    <3>1. c \in Int /\ x > to + size + 2 /\ (c < to \/ c > to + size + 2)
      BY <2>7, <1>14, <1>0, <1>4
    <3>2. c # to + size + 2
      BY <3>1, <1>0
    <3> QED BY <3>2, <2>4, <2>7, <1>9
  <2>8. rest - 2 = SizeAt(hp, to) - used - 2 /\ used + 2 <= SizeAt(hp, to) /\ used \in Nat
    BY <2>2, <1>14, <1>2, <1>4
  <2> HIDE DEF M
  <2> QED BY <2>2, <2>4, <2>5, <2>6, <2>7, <2>8, <1>3, <1>6
      DEF Occupied, x, used, size, h, tail
<1> QED BY <1>12, <1>13, <1>14, <1>4

\* Moving a block keeps the heap in order; the old place is left behind.
LEMMA MoveBlockIs ==
  ASSUME NEW hp, NEW ask, NEW fil, NEW B, NEW S, Good(hp, ask, fil, B, S),
         NEW from \in B \ S, StateAt(hp, from) = MOVABLE, NEW to \in FreeOnes(hp, B),
         SizeAt(hp, from) <= SizeAt(hp, to)
  PROVE  LET q == MoveBlock(hp, from, to)  C == WithRest(hp, B, to, UsedBy(hp, from, to)) IN
         /\ Good(q, ask, fil, C, S \cup {from}) /\ Same(hp, q) /\ B \subseteq C
         /\ \A b \in B : b # to => Intact(hp, q, b)
         /\ \A c \in C \ B : to < c /\ c < After(hp, to) /\ StateAt(q, c) = FREE
<1> DEFINE q == MoveBlock(hp, from, to)
           size == SizeAt(hp, from)
           used == UsedBy(hp, from, to)
           C == WithRest(hp, B, to, used)
           R == S \cup {from}
           g == hp.mem[from].handle_index
           V == Live(hp, B, S)
<1>0. /\ hp \in HeapT /\ Tiled(hp, B) /\ Owners(hp, ask, B, S) /\ Asked(hp, ask)
      /\ Tallies(hp, B, S) /\ Kept(hp, ask, fil) /\ Systems(hp)
      /\ hp.mem \in [Cell -> Content]
  BY DEF Good, HeapT
<1>1. /\ to \in B /\ StateAt(hp, to) = FREE /\ from # to /\ from \in B /\ from \notin S
      /\ to \notin S
  BY <1>0 DEF FreeOnes, FREE, MOVABLE, Owners
<1>2. /\ from \in Nat /\ size \in Nat /\ SizeAt(hp, to) \in Nat /\ to \in Nat
  BY <1>0, <1>1, BlockFacts
<1>3. /\ q.mem = MovedMem(hp, from, to)
      /\ q.handles = [hp.handles EXCEPT ![g].data = to]
      /\ q.size = hp.size /\ q.system = hp.system
      /\ q.systemBlocks = hp.systemBlocks /\ q.systemSize = hp.systemSize
      /\ q.moveableBlocks = hp.moveableBlocks
      /\ q.lockedBlocks = hp.lockedBlocks /\ q.lockedSize = hp.lockedSize
      /\ used = SizeAt(hp, to) =>
           /\ q.freeBlocks = hp.freeBlocks /\ q.freeSize = hp.freeSize - (SizeAt(hp, to) - size)
           /\ q.moveableSize = hp.moveableSize + (SizeAt(hp, to) - size)
      /\ used # SizeAt(hp, to) =>
           /\ q.freeBlocks = hp.freeBlocks + 1 /\ q.freeSize = hp.freeSize - 2
           /\ q.moveableSize = hp.moveableSize
      /\ q = [f \in DOMAIN hp |-> q[f]]
  BY <1>0, <1>2, MoveBlockUnfolds
<1> HIDE DEF q
<1>4. /\ Occupied(hp, q, to, used, g)
      /\ \A k \in 1 .. size : q.mem[to + k] = hp.mem[from + k]
  BY <1>0, <1>1, <1>3, MoveOccupies
<1>5. used = SizeAt(hp, to) \/ used = size
  BY DEF UsedBy
<1>6. /\ Tiled(q, C) /\ B \subseteq C
      /\ Cardinality(C) = Cardinality(B) + (IF used = SizeAt(hp, to) THEN 0 ELSE 1)
      /\ \A b \in B : b # to => Intact(hp, q, b)
      /\ \A c \in C \ B : to < c /\ c < After(hp, to) /\ StateAt(q, c) = FREE
      /\ StateAt(q, to) = MOVABLE /\ SizeAt(q, to) = used /\ q.mem[to].handle_index = g
  <2> HIDE DEF used, C
  <2> QED BY <1>0, <1>4, OccupiedTiles DEF C
<1> HIDE DEF used, C
<1>7. used \in Nat /\ size <= used
  BY <1>2, <1>5
<1>8. /\ from \in V /\ g \in DOMAIN hp.handles /\ hp.handles[g].data = from /\ BoundTo(hp, g)
      /\ hp.handles[g].state = MOVABLE /\ ask[g] <= size
  <2>1. from \in V
    BY <1>1 DEF Live, FREE, MOVABLE
  <2>2. g \in DOMAIN hp.handles /\ hp.handles[g].data = from /\ BoundTo(hp, g)
    BY <2>1, <1>0 DEF Owners
  <2>3. LET a == hp.handles[g].data IN
        StateAt(hp, a) = hp.handles[g].state /\ ask[g] <= SizeAt(hp, a)
    BY <2>2, <1>0 DEF Owners
  <2> HIDE DEF g
  <2>4. hp.handles[g].state = MOVABLE /\ ask[g] <= size
    BY <2>2, <2>3
  <2> QED BY <2>1, <2>2, <2>4
<1>9. /\ q.handles \in HandlesT /\ DOMAIN q.handles = DOMAIN hp.handles
      /\ q.handles[g].data = to /\ q.handles[g].state = hp.handles[g].state
      /\ \A h \in DOMAIN hp.handles : h # g => q.handles[h] = hp.handles[h]
  <2>1. hp.handles \in HandlesT /\ to \in Int
    BY <1>0, <1>2 DEF HeapT
  <2> QED BY <2>1, <1>3, <1>8, Redirected
<1> HIDE DEF g, size
<1>10. q \in HeapT
  <2>1. /\ hp.size \in Nat /\ hp.system \in [Handle -> Nat]
        /\ hp.freeBlocks \in Int /\ hp.moveableBlocks \in Int /\ hp.lockedBlocks \in Int
        /\ hp.systemBlocks \in Int /\ hp.freeSize \in Int /\ hp.moveableSize \in Int
        /\ hp.lockedSize \in Int /\ hp.systemSize \in Int
    BY <1>0 DEF HeapT
  <2>2. q.freeBlocks \in Int /\ q.freeSize \in Int /\ q.moveableSize \in Int
    BY <2>1, <1>2, <1>3
  <2>3. q.mem \in [Cell -> Content]
    BY <1>4 DEF Occupied
  <2> QED BY <2>1, <2>2, <2>3, <1>0, <1>3, <1>9, HeapAgain
<1>11. ASSUME NEW b \in B, b # to
       PROVE  /\ q.mem[b] = hp.mem[b] /\ StateAt(q, b) = StateAt(hp, b)
              /\ SizeAt(q, b) = SizeAt(hp, b)
  BY <1>6, <1>11 DEF Intact
<1>12. ASSUME NEW h \in DOMAIN hp.handles, BoundTo(hp, h), h # g
       PROVE  LET a == hp.handles[h].data IN
              /\ a \in V /\ a \in B /\ a # from /\ a # to /\ a \notin R
              /\ StateAt(hp, a) = hp.handles[h].state /\ hp.mem[a].handle_index = h
              /\ ask[h] <= SizeAt(hp, a)
  <2> DEFINE a == hp.handles[h].data
  <2>1. /\ a \in V /\ StateAt(hp, a) = hp.handles[h].state /\ hp.mem[a].handle_index = h
        /\ ask[h] <= SizeAt(hp, a)
    BY <1>0, <1>12 DEF Owners
  <2>2. a # from
    BY <2>1, <1>12 DEF g
  <2>3. a \in B /\ a \notin S /\ a # to
    BY <2>1, <1>1 DEF Live
  <2> QED BY <2>1, <2>2, <2>3
<1>13. Owners(q, ask, C, R)
  <2>1. R \subseteq C /\ \A b \in R : StateAt(q, b) = MOVABLE
    <3>1. S \subseteq B /\ \A b \in S : StateAt(hp, b) = MOVABLE
      BY <1>0 DEF Owners
    <3> QED BY <3>1, <1>1, <1>6, <1>11
  <2>2. ASSUME NEW h \in DOMAIN q.handles, BoundTo(q, h)
        PROVE  LET a == q.handles[h].data IN
               /\ a \in Live(q, C, R) /\ StateAt(q, a) = q.handles[h].state
               /\ q.mem[a].handle_index = h /\ ask[h] <= SizeAt(q, a)
    <3>1. CASE h = g
      <4>1. to \in Live(q, C, R)
        BY <1>1, <1>6 DEF Live, FREE, MOVABLE
      <4>2. ask[g] <= used
        <5>1. ask[g] \in Int
          <6>1. g \in Handle
            BY <1>0, <1>8 DEF Asked, MOVABLE, INVALID
          <6> QED BY <6>1, <1>0 DEF Asked
        <5> QED BY <5>1, <1>2, <1>7, <1>8
      <4> QED BY <3>1, <4>1, <4>2, <1>6, <1>8, <1>9
    <3>2. CASE h # g
      <4> DEFINE a == hp.handles[h].data
      <4>1. h \in DOMAIN hp.handles /\ q.handles[h] = hp.handles[h] /\ BoundTo(hp, h)
        BY <2>2, <3>2, <1>9 DEF BoundTo
      <4>2. /\ a \in V /\ a \in B /\ a # from /\ a # to /\ a \notin R
            /\ StateAt(hp, a) = hp.handles[h].state /\ hp.mem[a].handle_index = h
            /\ ask[h] <= SizeAt(hp, a)
        BY <3>2, <4>1, <1>12
      <4>3. /\ q.mem[a] = hp.mem[a] /\ StateAt(q, a) = StateAt(hp, a)
            /\ SizeAt(q, a) = SizeAt(hp, a)
        BY <4>2, <1>11
      <4>4. a \in Live(q, C, R)
        BY <4>2, <4>3, <1>6 DEF Live
      <4> QED BY <4>1, <4>2, <4>3, <4>4
    <3> QED BY <3>1, <3>2
  <2>3. ASSUME NEW b \in Live(q, C, R)
        PROVE  LET h == q.mem[b].handle_index IN
               h \in DOMAIN q.handles /\ q.handles[h].data = b /\ BoundTo(q, h)
    <3>1. b \in C /\ b \notin R /\ StateAt(q, b) # FREE /\ b \in B
      BY <1>6 DEF Live
    <3>2. CASE b = to
      BY <3>2, <1>6, <1>8, <1>9 DEF BoundTo
    <3>3. CASE b # to
      <4> DEFINE h == hp.mem[b].handle_index
      <4>1. q.mem[b] = hp.mem[b] /\ b \in V
        BY <3>1, <3>3, <1>11 DEF Live
      <4>2. h \in DOMAIN hp.handles /\ hp.handles[h].data = b /\ BoundTo(hp, h)
        BY <4>1, <1>0 DEF Owners
      <4>3. h # g
        BY <3>1, <4>2, <1>8
      <4> QED BY <4>1, <4>2, <4>3, <1>9 DEF BoundTo
    <3> QED BY <3>2, <3>3
  <2> HIDE DEF R
  <2> QED BY <2>1, <2>2, <2>3 DEF Owners
<1>14. Kept(q, ask, fil)
  <2> SUFFICES ASSUME NEW h \in DOMAIN q.handles, h \in fil, BoundTo(q, h),
                      NEW c \in q.handles[h].data + 1 .. q.handles[h].data + ask[h]
               PROVE  q.mem[c] = DataOf(h)
    BY <1>0 DEF Kept
  <2>1. h \in DOMAIN hp.handles /\ BoundTo(hp, h) /\ h \in Handle /\ ask[h] \in Nat
    BY <1>0, <1>9 DEF BoundTo, Kept, Asked
  <2>2. \A d \in hp.handles[h].data + 1 .. hp.handles[h].data + ask[h] : hp.mem[d] = DataOf(h)
    BY <2>1, <1>0 DEF Kept
  <2>3. CASE h = g
    <3>1. c \in Nat /\ c - to \in 1 .. size /\ to + (c - to) = c
          /\ from + (c - to) \in from + 1 .. from + ask[h]
      BY <2>1, <2>3, <1>2, <1>8, <1>9
    <3>2. q.mem[c] = hp.mem[from + (c - to)]
      <4>1. q.mem[to + (c - to)] = hp.mem[from + (c - to)]
        BY <3>1, <1>4 DEF size
      <4> QED BY <4>1, <3>1
    <3> QED BY <3>1, <3>2, <2>2, <2>3, <1>8
  <2>4. CASE h # g
    <3> DEFINE a == hp.handles[h].data
    <3>1. a \in B /\ a # to /\ ask[h] <= SizeAt(hp, a) /\ q.handles[h] = hp.handles[h]
      BY <2>1, <2>4, <1>9, <1>12
    <3>2. /\ a \in Nat /\ SizeAt(hp, a) \in Nat /\ After(hp, a) = a + SizeAt(hp, a) + 2
      BY <3>1, <1>0, BlockFacts
    <3>3. c \in a .. After(hp, a) - 1 /\ c \in a + 1 .. a + ask[h]
      BY <3>1, <3>2, <2>1
    <3>4. q.mem[c] = hp.mem[c]
      BY <3>1, <3>3, <1>6 DEF Intact
    <3> QED BY <3>3, <3>4, <2>2
  <2> QED BY <2>3, <2>4
<1>15. Tallies(q, C, R)
  <2> DEFINE M == InState(hp, B, S, MOVABLE)  U == M \ {from}
  <2>1. M \subseteq B /\ from \in M /\ to \notin M
    BY <1>1 DEF InState, FREE, MOVABLE
  <2>2. \A a \in M : SizeAt(hp, a) \in Int
    BY <2>1, <1>0, BlockFacts
  <2>3. Tally(hp, M, hp.moveableBlocks, hp.moveableSize)
    BY <1>0 DEF Tallies
  <2>4. Tally(hp, U, hp.moveableBlocks - 1, hp.moveableSize - size)
    <3> HIDE DEF M
    <3> QED BY <2>1, <2>2, <2>3, TallyRemove DEF size
  <2>5. \A a \in U : a \in B /\ a # to /\ a \in M
    BY <2>1
  <2>6. \A a \in U : SizeAt(q, a) = SizeAt(hp, a) /\ SizeAt(hp, a) \in Int
    BY <2>2, <2>5, <1>11
  <2>7. Tally(q, U, hp.moveableBlocks - 1, hp.moveableSize - size)
    <3> HIDE DEF U
    <3> QED BY <2>4, <2>6, TallySame
  <2>8. Tally(q, U \cup {to}, hp.moveableBlocks - 1 + 1, hp.moveableSize - size + SizeAt(q, to))
    <3>1. to \notin U /\ \A a \in U \cup {to} : SizeAt(q, a) \in Int
      BY <2>1, <2>6, <1>6, <1>7
    <3> HIDE DEF U
    <3> QED BY <3>1, <2>7, TallyAdd
  <2>9. InState(q, C, R, MOVABLE) = U \cup {to}
    <3>1. ASSUME NEW b \in InState(q, C, R, MOVABLE) PROVE b \in U \cup {to}
      <4>1. b \in C /\ b \notin R /\ StateAt(q, b) = MOVABLE
        BY DEF InState
      <4>2. b \in B
        BY <4>1, <1>6 DEF FREE, MOVABLE
      <4> QED BY <4>1, <4>2, <1>11 DEF InState
    <3>2. ASSUME NEW b \in U \cup {to} PROVE b \in InState(q, C, R, MOVABLE)
      <4>1. CASE b = to
        BY <4>1, <1>1, <1>6 DEF InState
      <4>2. CASE b # to
        <5>1. b \in B /\ b \notin S /\ b # from /\ StateAt(hp, b) = MOVABLE
          BY <3>2, <4>2 DEF InState
        <5> QED BY <5>1, <4>2, <1>6, <1>11 DEF InState
      <4> QED BY <4>1, <4>2
    <3> QED BY <3>1, <3>2
  <2>10. /\ hp.moveableBlocks \in Int /\ hp.moveableSize \in Int /\ hp.freeSize \in Int
         /\ hp.lockedSize \in Int /\ hp.freeBlocks \in Int /\ hp.lockedBlocks \in Int
         /\ hp.size \in Int
    BY <1>0 DEF HeapT
  <2>11. Tally(q, InState(q, C, R, MOVABLE), q.moveableBlocks, q.moveableSize)
    <3>1. hp.moveableBlocks - 1 + 1 = q.moveableBlocks
      BY <2>10, <1>3
    <3>2. hp.moveableSize - size + SizeAt(q, to) = q.moveableSize
      BY <2>10, <1>2, <1>3, <1>5, <1>6
    <3> QED BY <3>1, <3>2, <2>8, <2>9
  <2>12. Tally(q, InState(q, C, R, LOCKED), q.lockedBlocks, q.lockedSize)
    <3> DEFINE L == InState(hp, B, S, LOCKED)
    <3>1. Tally(hp, L, hp.lockedBlocks, hp.lockedSize)
      BY <1>0 DEF Tallies
    <3>2. \A a \in L : a \in B /\ a # to
      BY <1>1 DEF InState, FREE, LOCKED
    <3>3. \A a \in L : SizeAt(q, a) = SizeAt(hp, a) /\ SizeAt(hp, a) \in Int
      BY <3>2, <1>0, <1>11, BlockFacts
    <3>4. Tally(q, L, hp.lockedBlocks, hp.lockedSize)
      <4> HIDE DEF L
      <4> QED BY <3>1, <3>3, TallySame
    <3>5. InState(q, C, R, LOCKED) = L
      <4>1. ASSUME NEW b \in InState(q, C, R, LOCKED) PROVE b \in L
        <5>1. b \in C /\ b \notin R /\ StateAt(q, b) = LOCKED
          BY DEF InState
        <5>2. b \in B /\ b # to
          BY <5>1, <1>6 DEF FREE, MOVABLE, LOCKED
        <5> QED BY <5>1, <5>2, <1>11 DEF InState
      <4>2. ASSUME NEW b \in L PROVE b \in InState(q, C, R, LOCKED)
        <5>1. b \in B /\ b \notin S /\ b # from /\ b # to /\ StateAt(hp, b) = LOCKED
          BY <3>2 DEF InState, MOVABLE, LOCKED
        <5> QED BY <5>1, <1>6, <1>11 DEF InState
      <4> QED BY <4>1, <4>2
    <3> QED BY <3>4, <3>5, <1>3
  <2>13. Count(hp) = Cardinality(B)
         /\ hp.freeSize + hp.moveableSize + hp.lockedSize + 2 * Cardinality(B) = hp.size
    BY <1>0 DEF Tallies
  <2>14. Cardinality(B) \in Nat
    BY <1>0, BlocksFinite
  <2>15. Count(q) = Cardinality(C)
    BY <2>10, <2>13, <2>14, <1>3, <1>6 DEF Count
  <2>16. q.freeSize + q.moveableSize + q.lockedSize + 2 * Cardinality(C) = q.size
    BY <2>10, <2>13, <2>14, <1>2, <1>3, <1>6
  <2> QED BY <2>11, <2>12, <2>15, <2>16 DEF Tallies
<1>16. Same(hp, q)
  <2>1. ASSUME NEW h \in DOMAIN hp.handles
        PROVE  /\ q.handles[h].state = hp.handles[h].state
               /\ hp.handles[h].state # MOVABLE => q.handles[h] = hp.handles[h]
    BY <1>8, <1>9
  <2>2. ASSUME NEW h \in DOMAIN hp.handles, hp.handles[h].state = LOCKED
        PROVE  SizeAt(q, hp.handles[h].data) = SizeAt(hp, hp.handles[h].data)
    <3>1. BoundTo(hp, h) /\ h # g
      BY <2>2, <1>8 DEF BoundTo, LOCKED, MOVABLE
    <3> QED BY <3>1, <1>11, <1>12
  <2> QED BY <2>1, <2>2, <1>3, <1>9 DEF Same
<1>17. Good(q, ask, fil, C, R)
  BY <1>0, <1>6, <1>10, <1>13, <1>14, <1>15, <1>16, SameSystems DEF Good
<1> QED BY <1>6, <1>16, <1>17 DEF q, C, used

-----------------------------------------------------------------------------
\* Neighbouring blocks that belong to nobody become one free block.

\* The cells of a free block, and no others, are written.
LEMMA FreeMem ==
  ASSUME NEW mem \in [Cell -> Content], NEW a \in Nat, NEW size \in Nat, a + size + 1 \in Cell
  PROVE  LET M == FreeBlockIn(mem, a, size) IN
         /\ M \in [Cell -> Content] /\ M[a] = Header(size, FREE, -1)
         /\ M[a + size + 1] = Footer
         /\ \A c \in Cell : c < a \/ c > a + size + 1 => M[c] = mem[c]
<1> DEFINE M == FreeBlockIn(mem, a, size)
<1>1. Cell = 0 .. HeapSize - 1 /\ HeapSize \in Nat
  BY HeapSizeIs DEF Cell
<1>2. Header(size, FREE, -1) \in Content
  BY HeaderIs
<1>3. \A c \in Cell : /\ c = a => M[c] = Header(size, FREE, -1)
                      /\ c = a + size + 1 => M[c] = Footer
                      /\ c \in a + 1 .. a + size => M[c] = Unused
                      /\ c < a \/ c > a + size + 1 => M[c] = mem[c]
  <2> DEFINE V(c) == CASE c = a -> Header(size, FREE, -1)
                       [] c = a + size + 1 -> Footer
                       [] c \in a + 1 .. a + size -> Unused
                       [] OTHER -> mem[c]
  <2>1. M = [c \in Cell |-> V(c)]
    BY DEF FreeBlockIn
  <2>2. \A c \in Cell : /\ c = a => V(c) = Header(size, FREE, -1)
                        /\ c = a + size + 1 => V(c) = Footer
                        /\ c \in a + 1 .. a + size => V(c) = Unused
                        /\ c < a \/ c > a + size + 1 => V(c) = mem[c]
    BY <1>1
  <2> HIDE DEF V, M
  <2> QED BY <2>1, <2>2
<1>4. M = [c \in Cell |-> M[c]]
  BY DEF FreeBlockIn
<1> HIDE DEF M
<1>5. a \in Cell
  BY <1>1
<1>6. ASSUME NEW c \in Cell PROVE M[c] \in Content
  <2>1. c = a \/ c = a + size + 1 \/ c \in a + 1 .. a + size \/ c < a \/ c > a + size + 1
    BY <1>1
  <2>2. mem[c] \in Content
    OBVIOUS
  <2> QED BY <2>1, <2>2, <1>2, <1>3, ContentIs
<1>7. M \in [Cell -> Content]
  BY <1>4, <1>6
<1> QED BY <1>3, <1>5, <1>7 DEF M

\* What the joining of "joined" blocks with the one at a changes of a heap.
Merged(hp, q, a, size, joined) ==
  /\ q = [f \in DOMAIN hp |-> q[f]]
  /\ q.mem = FreeBlockIn(hp.mem, a, size)
  /\ q.handles = hp.handles /\ q.size = hp.size /\ q.system = hp.system
  /\ q.systemBlocks = hp.systemBlocks /\ q.systemSize = hp.systemSize
  /\ q.moveableBlocks = hp.moveableBlocks /\ q.moveableSize = hp.moveableSize
  /\ q.lockedBlocks = hp.lockedBlocks /\ q.lockedSize = hp.lockedSize
  /\ q.freeBlocks = hp.freeBlocks - joined /\ q.freeSize = hp.freeSize + joined * 2

\* The blocks between two addresses, and the blocks when those are one.
Between(B, f, e) == {b \in B : f <= b /\ b < e}
AsOne(B, f, e) == (B \ Between(B, f, e)) \cup {f}

\* Those blocks are free or left behind, and so is no other.
Nobodys(hp, B, S, f, e) ==
  /\ \A b \in S : f <= b /\ b < e
  /\ \A b \in B \ S : f <= b /\ b < e => StateAt(hp, b) = FREE

\* When what is between two addresses belongs to nobody, it can be made one free
\* block, and the heap is in order.
LEMMA MergeIs ==
  ASSUME NEW hp, NEW ask, NEW fil, NEW B, NEW S, Good(hp, ask, fil, B, S),
         NEW f \in B, NEW e \in B \cup {hp.size}, f < e,
         Nobodys(hp, B, S, f, e),
         NEW q, Merged(hp, q, f, e - f - 2, Cardinality(Between(B, f, e)) - 1)
  PROVE  /\ Good(q, ask, fil, AsOne(B, f, e), {}) /\ Same(hp, q)
         /\ StateAt(q, f) = FREE /\ SizeAt(q, f) = e - f - 2
<1> DEFINE R == {b \in B : f <= b /\ b < e}  C == (B \ R) \cup {f}
           n == Cardinality(R)  V == Live(hp, B, S)
<1> USE DEF Between
<1>0. /\ hp \in HeapT /\ Tiled(hp, B) /\ Owners(hp, ask, B, S) /\ Asked(hp, ask)
      /\ Tallies(hp, B, S) /\ Kept(hp, ask, fil) /\ Systems(hp)
      /\ hp.mem \in [Cell -> Content]
  BY DEF Good, HeapT
<1>1. \A b \in B : /\ b \in Nat /\ SizeAt(hp, b) \in Nat /\ After(hp, b) \in Nat
                   /\ After(hp, b) = b + SizeAt(hp, b) + 2
                   /\ b < After(hp, b) /\ b < hp.size
  BY <1>0, BlockFacts
<1>2. /\ hp.size \in Nat /\ hp.size <= HeapSize /\ 0 \in B /\ B \subseteq Cell
      /\ \A b, c \in B : b < c => After(hp, b) <= c
      /\ \A b \in B : /\ After(hp, b) \in B \cup {hp.size} /\ After(hp, b) <= hp.size
                      /\ hp.mem[b] \in HeaderT
  BY <1>0 DEF Tiled
<1>3. e \in Nat /\ After(hp, f) <= e /\ e <= hp.size
  <2>1. CASE e \in B
    BY <2>1, <1>1, <1>2
  <2>2. CASE e = hp.size
    BY <2>2, <1>1, <1>2
  <2> QED BY <2>1, <2>2
<1>4. e - f - 2 \in Nat /\ f \in Nat /\ f + (e - f - 2) + 1 = e - 1 /\ e - 1 \in Cell
  <2>1. HeapSize \in Nat /\ Cell = 0 .. HeapSize - 1
    BY HeapSizeIs DEF Cell
  <2> QED BY <2>1, <1>1, <1>2, <1>3
<1>5. /\ q.mem \in [Cell -> Content] /\ q.mem[f] = Header(e - f - 2, FREE, -1)
      /\ q.mem[e - 1] = Footer
      /\ \A c \in Cell : c < f \/ c >= e => q.mem[c] = hp.mem[c]
  <2> DEFINE M == FreeBlockIn(hp.mem, f, e - f - 2)
  <2>1. /\ M \in [Cell -> Content] /\ M[f] = Header(e - f - 2, FREE, -1) /\ M[e - 1] = Footer
        /\ \A c \in Cell : c < f \/ c > e - 1 => M[c] = hp.mem[c]
    <3> DEFINE size == e - f - 2
    <3>1. size \in Nat /\ f \in Nat /\ f + size + 1 = e - 1 /\ e - 1 \in Cell
      BY <1>4
    <3> HIDE DEF size
    <3>2. /\ FreeBlockIn(hp.mem, f, size) \in [Cell -> Content]
          /\ FreeBlockIn(hp.mem, f, size)[f] = Header(size, FREE, -1)
          /\ FreeBlockIn(hp.mem, f, size)[f + size + 1] = Footer
          /\ \A c \in Cell : c < f \/ c > f + size + 1 => FreeBlockIn(hp.mem, f, size)[c] = hp.mem[c]
      BY <3>1, <1>0, FreeMem
    <3> QED BY <3>1, <3>2 DEF size
  <2>2. \A c \in Cell : c >= e => c > e - 1
    BY <1>3, HeapSizeIs DEF Cell
  <2>3. q.mem = M
    BY DEF Merged
  <2> HIDE DEF M
  <2> QED BY <2>1, <2>2, <2>3
<1>6. /\ q.mem[f] \in HeaderT /\ StateAt(q, f) = FREE /\ SizeAt(q, f) = e - f - 2
      /\ After(q, f) = e
  <2>1. /\ q.mem[f] \in HeaderT /\ q.mem[f].state = FREE /\ q.mem[f].size = e - f - 2
    BY <1>4, <1>5, HeaderIs
  <2> QED BY <2>1, <1>3, <1>4 DEF StateAt, SizeAt, After, Overhead
<1>7. ASSUME NEW b \in B \ R
      PROVE  /\ Intact(hp, q, b) /\ (After(hp, b) <= f \/ b >= e)
  <2>1. After(hp, b) <= f \/ b >= e
    <3>1. b < f \/ b >= e
      BY <1>1, <1>3
    <3>2. b < f => After(hp, b) <= f
      BY <1>2
    <3> QED BY <3>1, <3>2
  <2> QED BY <2>1, <1>0, <1>3, <1>4, <1>5, IntactOutside
<1>8. /\ R \subseteq B /\ f \in R /\ S \subseteq R /\ C \subseteq B /\ f \in C
      /\ \A b \in R : b \in S \/ StateAt(hp, b) = FREE
  <2>1. S \subseteq B
    BY <1>0 DEF Owners
  <2> QED BY <2>1, <1>4 DEF Nobodys
<1>9. \A b \in B \ R : /\ q.mem[b] = hp.mem[b] /\ StateAt(q, b) = StateAt(hp, b)
                       /\ SizeAt(q, b) = SizeAt(hp, b) /\ After(q, b) = After(hp, b)
                       /\ q.mem[After(q, b) - 1] = Footer
  BY <1>7 DEF Intact
<1>10. q.size = hp.size /\ q.handles = hp.handles /\ q.system = hp.system
       /\ q.systemBlocks = hp.systemBlocks /\ q.systemSize = hp.systemSize
       /\ q.moveableBlocks = hp.moveableBlocks /\ q.moveableSize = hp.moveableSize
       /\ q.lockedBlocks = hp.lockedBlocks /\ q.lockedSize = hp.lockedSize
       /\ q.freeBlocks = hp.freeBlocks - (n - 1) /\ q.freeSize = hp.freeSize + (n - 1) * 2
  BY DEF Merged
<1>11. Tiled(q, C)
  <2>1. 0 \in C
    <3>1. 0 \in R => 0 = f
      BY <1>4
    <3> QED BY <3>1, <1>2
  <2>2. C \in SUBSET Cell
    BY <1>2
  <2>3. ASSUME NEW b \in C
        PROVE  /\ q.mem[b] \in HeaderT
               /\ After(q, b) \in C \cup {q.size} /\ After(q, b) <= q.size
               /\ q.mem[After(q, b) - 1] = Footer
               /\ \A c \in C : b < c => After(q, b) <= c
    <3>1. CASE b = f
      <4>1. e \in C \cup {q.size} /\ e <= q.size
        BY <1>3, <1>10
      <4>2. \A c \in C : f < c => e <= c
        <5>1. \A c \in C : c \in Nat /\ (c = f \/ c < f \/ c >= e)
          BY <1>1, <1>3
        <5> QED BY <5>1, <1>4
      <4> QED BY <3>1, <4>1, <4>2, <1>5, <1>6
    <3>2. CASE b # f
      <4>1. b \in B \ R
        BY <3>2
      <4>2. After(hp, b) \in C \cup {q.size}
        <5>1. CASE After(hp, b) \in R
          <6>1. After(hp, b) = f
            BY <4>1, <5>1, <1>1, <1>3, <1>4, <1>7
          <6> QED BY <6>1
        <5>2. CASE After(hp, b) \notin R
          BY <4>1, <5>2, <1>2, <1>10
        <5> QED BY <5>1, <5>2
      <4> HIDE DEF C, R
      <4>3. \A c \in C : b < c => After(hp, b) <= c
        BY <4>1, <1>2, <1>8
      <4> QED BY <4>1, <4>2, <4>3, <1>2, <1>9, <1>10
    <3> QED BY <3>1, <3>2
  <2> HIDE DEF C
  <2> QED BY <2>1, <2>2, <2>3, <1>2, <1>10 DEF Tiled
<1>12. Live(q, C, {}) = V
  <2>1. ASSUME NEW b \in Live(q, C, {}) PROVE b \in V
    <3>1. b \in B \ R /\ StateAt(q, b) # FREE
      BY <1>6 DEF Live
    <3> QED BY <3>1, <1>8, <1>9 DEF Live
  <2>2. ASSUME NEW b \in V PROVE b \in Live(q, C, {})
    <3>1. b \in B /\ b \notin S /\ StateAt(hp, b) # FREE
      BY DEF Live
    <3>2. b \in B \ R
      BY <3>1, <1>8
    <3> QED BY <3>1, <3>2, <1>9 DEF Live
  <2> QED BY <2>1, <2>2
<1>13. ASSUME NEW b \in V, NEW c \in b .. After(hp, b) - 1 PROVE q.mem[c] = hp.mem[c]
  <2>1. b \in B \ R
    BY <1>8 DEF Live
  <2> QED BY <2>1, <1>7 DEF Intact
<1>14. /\ Owners(q, ask, C, {}) /\ Kept(q, ask, fil)
       /\ \A count, size : \A state \in {MOVABLE, LOCKED} :
            Tally(hp, InState(hp, B, S, state), count, size)
              => Tally(q, InState(q, C, {}, state), count, size)
  <2> HIDE DEF C
  <2> QED BY <1>0, <1>10, <1>12, <1>13, LeftAlone
<1>15. Cardinality(C) = Cardinality(B) - n + 1 /\ n \in Nat /\ Cardinality(B) \in Nat
  <2>1. IsFiniteSet(B) /\ Cardinality(B) \in Nat /\ B \cap R = R
    BY <1>0, <1>8, BlocksFinite
  <2>2. IsFiniteSet(R) /\ n \in Nat
    BY <1>0, <1>8, BlocksFinite
  <2>3. Cardinality(B \ R) = Cardinality(B) - n /\ IsFiniteSet(B \ R)
    BY <2>1, FS_Difference
  <2>4. f \notin B \ R
    BY <1>8
  <2> HIDE DEF R
  <2>5. Cardinality(C) = Cardinality(B \ R) + 1
    BY <2>3, <2>4, FS_AddElement
  <2> QED BY <2>1, <2>2, <2>3, <2>5
<1>16. q \in HeapT
  <2>1. /\ hp.size \in Nat /\ hp.system \in [Handle -> Nat] /\ hp.handles \in HandlesT
        /\ hp.freeBlocks \in Int /\ hp.moveableBlocks \in Int /\ hp.lockedBlocks \in Int
        /\ hp.systemBlocks \in Int /\ hp.freeSize \in Int /\ hp.moveableSize \in Int
        /\ hp.lockedSize \in Int /\ hp.systemSize \in Int
    BY <1>0 DEF HeapT
  <2>2. q.freeBlocks \in Int /\ q.freeSize \in Int
    BY <2>1, <1>10, <1>15
  <2>3. q = [g \in DOMAIN hp |-> q[g]]
    BY DEF Merged
  <2> QED BY <2>1, <2>2, <2>3, <1>0, <1>5, <1>10, HeapAgain
<1>17. Tallies(q, C, {})
  <2>1. /\ Tally(q, InState(q, C, {}, MOVABLE), q.moveableBlocks, q.moveableSize)
        /\ Tally(q, InState(q, C, {}, LOCKED), q.lockedBlocks, q.lockedSize)
    BY <1>0, <1>10, <1>14 DEF Tallies
  <2>2. Count(hp) = Cardinality(B)
        /\ hp.freeSize + hp.moveableSize + hp.lockedSize + 2 * Cardinality(B) = hp.size
    BY <1>0 DEF Tallies
  <2>3. /\ hp.freeBlocks \in Int /\ hp.moveableBlocks \in Int /\ hp.lockedBlocks \in Int
        /\ hp.freeSize \in Int /\ hp.moveableSize \in Int /\ hp.lockedSize \in Int
    BY <1>0 DEF HeapT
  <2> HIDE DEF C, n
  <2>4. Count(q) = Cardinality(C)
    BY <2>2, <2>3, <1>10, <1>15 DEF Count
  <2>5. q.freeSize + q.moveableSize + q.lockedSize + 2 * Cardinality(C) = q.size
    BY <2>2, <2>3, <1>10, <1>15
  <2> QED BY <2>1, <2>4, <2>5 DEF Tallies
<1>18. Same(hp, q)
  <2>1. ASSUME NEW h \in DOMAIN hp.handles, hp.handles[h].state = LOCKED
        PROVE  SizeAt(q, hp.handles[h].data) = SizeAt(hp, hp.handles[h].data)
    <3>1. hp.handles[h].data \in V
      BY <1>0, <2>1 DEF Owners, BoundTo
    <3>2. hp.handles[h].data \in B \ R
      BY <3>1, <1>8 DEF Live
    <3> QED BY <3>2, <1>9
  <2> QED BY <2>1, <1>10 DEF Same
<1>19. Good(q, ask, fil, C, {})
  BY <1>0, <1>11, <1>14, <1>16, <1>17, <1>18, SameSystems DEF Good
<1> QED BY <1>6, <1>18, <1>19 DEF AsOne

-----------------------------------------------------------------------------
\* The blocks of an extent are moved, one after the other.

\* A block left intact twice is intact.
LEMMA IntactAgain ==
  ASSUME NEW f, NEW g, NEW hp, NEW b, Intact(f, g, b), Intact(g, hp, b)
  PROVE  Intact(f, hp, b)
<1>1. After(g, b) = After(f, b)
  BY DEF Intact
<1>2. \A c \in b .. After(f, b) - 1 : hp.mem[c] = f.mem[c]
  BY <1>1 DEF Intact
<1> QED BY <1>2 DEF Intact

\* The blocks that are to be moved, and the free ones reserved for them.
Matched(hp, B, n, m, to) ==
  /\ n \in Nat /\ m \in [1 .. n -> B] /\ to \in [1 .. n -> FreeOnes(hp, B)]
  /\ \A i \in 1 .. n : StateAt(hp, m[i]) = MOVABLE /\ SizeAt(hp, m[i]) <= SizeAt(hp, to[i])
  /\ \A i, j \in 1 .. n : i # j => m[i] # m[j] /\ to[i] # to[j]

LeftBehind(m, i) == {m[k] : k \in 1 .. i}

\* What has become of a heap when i blocks have been moved.
HasMoved(hp, ask, fil, B, m, to, i, q, C) ==
  /\ Good(q, ask, fil, C, LeftBehind(m, i)) /\ Same(hp, q) /\ B \subseteq C
  /\ \A b \in B : (\A k \in 1 .. i : b # to[k]) => Intact(hp, q, b)
  /\ \A c \in C \ B : \E k \in 1 .. i : to[k] < c /\ c < After(hp, to[k])

\* One more block of the extent is moved.
LEMMA MovesOne ==
  ASSUME NEW hp, NEW ask, NEW fil, NEW B, Tiled(hp, B), NEW n, NEW m, NEW to,
         Matched(hp, B, n, m, to), NEW i \in 1 .. n, NEW p, NEW C,
         HasMoved(hp, ask, fil, B, m, to, i - 1, p, C)
  PROVE  \E D : HasMoved(hp, ask, fil, B, m, to, i, MoveBlock(p, m[i], to[i]), D)
<1> DEFINE S == LeftBehind(m, i - 1)
           from == m[i]
           t == to[i]
           q == MoveBlock(p, from, t)
           D == WithRest(p, C, t, UsedBy(p, from, t))
<1>1. /\ n \in Nat /\ from \in B /\ t \in FreeOnes(hp, B) /\ t \in B
      /\ StateAt(hp, from) = MOVABLE /\ StateAt(hp, t) = FREE
      /\ SizeAt(hp, from) <= SizeAt(hp, t)
  BY DEF Matched, FreeOnes
<1>2. \A k \in 1 .. i - 1 : /\ k \in 1 .. n /\ k # i /\ to[k] \in FreeOnes(hp, B)
                            /\ StateAt(hp, to[k]) = FREE /\ m[k] # from /\ to[k] # t
  BY <1>1 DEF Matched, FreeOnes
<1>3. /\ Good(p, ask, fil, C, S) /\ Same(hp, p) /\ B \subseteq C
      /\ \A b \in B : (\A k \in 1 .. i - 1 : b # to[k]) => Intact(hp, p, b)
      /\ \A c \in C \ B : \E k \in 1 .. i - 1 : to[k] < c /\ c < After(hp, to[k])
  BY DEF HasMoved
<1>4. Intact(hp, p, from)
  <2>1. \A k \in 1 .. i - 1 : from # to[k]
    BY <1>1, <1>2 DEF FREE, MOVABLE
  <2> QED BY <2>1, <1>1, <1>3
<1>5. Intact(hp, p, t)
  BY <1>1, <1>2, <1>3
<1>6. /\ from \in C \ S /\ StateAt(p, from) = MOVABLE /\ t \in FreeOnes(p, C)
      /\ SizeAt(p, from) <= SizeAt(p, t) /\ After(p, t) = After(hp, t)
  <2>1. from \notin S
    BY <1>2 DEF LeftBehind
  <2> QED BY <2>1, <1>1, <1>3, <1>4, <1>5 DEF Intact, FreeOnes
<1> HIDE DEF S, from, t
<1>7. /\ Good(q, ask, fil, D, S \cup {from}) /\ Same(p, q) /\ C \subseteq D
      /\ \A b \in C : b # t => Intact(p, q, b)
      /\ \A c \in D \ C : t < c /\ c < After(p, t)
  BY <1>3, <1>6, MoveBlockIs
<1> HIDE DEF q, D
<1>8. S \cup {from} = LeftBehind(m, i)
  <2>1. \A k : k \in 1 .. i <=> k \in 1 .. i - 1 \/ k = i
    BY <1>1
  <2> QED BY <2>1 DEF S, from, LeftBehind
<1>9. Same(hp, q) /\ B \subseteq D
  BY <1>3, <1>7, SameAgain
<1>10. ASSUME NEW b \in B, \A k \in 1 .. i : b # to[k] PROVE Intact(hp, q, b)
  <2>1. i \in 1 .. i /\ \A k \in 1 .. i - 1 : k \in 1 .. i
    BY <1>1
  <2>2. b # t /\ b \in C /\ \A k \in 1 .. i - 1 : b # to[k]
    BY <2>1, <1>3, <1>10 DEF t
  <2>3. Intact(hp, p, b) /\ Intact(p, q, b)
    BY <2>2, <1>3, <1>7
  <2> QED BY <2>3, IntactAgain
<1>11. ASSUME NEW c \in D \ B PROVE \E k \in 1 .. i : to[k] < c /\ c < After(hp, to[k])
  <2>1. i \in 1 .. i /\ \A k \in 1 .. i - 1 : k \in 1 .. i
    BY <1>1
  <2>2. CASE c \in C
    BY <2>1, <2>2, <1>3
  <2>3. CASE c \notin C
    <3>1. t < c /\ c < After(hp, t)
      BY <2>3, <1>6, <1>7
    <3> QED BY <2>1, <3>1 DEF t
  <2> QED BY <2>2, <2>3
<1>12. HasMoved(hp, ask, fil, B, m, to, i, q, D)
  BY <1>7, <1>8, <1>9, <1>10, <1>11 DEF HasMoved
<1> QED BY <1>12 DEF q, from, t

\* The steps of MoveExtent, as long as they lead to heaps.
MovesEach(g, n, m, to) ==
  \A i \in 1 .. n : MoveBlock(g[i - 1], m[i], to[i]) \in HeapT
                      => g[i] = MoveBlock(g[i - 1], m[i], to[i])

MovesBlocks(g, n, m, to) == \A i \in 1 .. n : g[i] = MoveBlock(g[i - 1], m[i], to[i])

\* All are, one after the other.
LEMMA MovesAll ==
  ASSUME NEW hp, NEW ask, NEW fil, NEW B, Good(hp, ask, fil, B, {}), NEW n, NEW m, NEW to,
         Matched(hp, B, n, m, to), NEW g, g[0] = hp, MovesEach(g, n, m, to)
  PROVE  /\ \A i \in 0 .. n : \E C : HasMoved(hp, ask, fil, B, m, to, i, g[i], C)
         /\ MovesBlocks(g, n, m, to)
<1> DEFINE T == {i \in 0 .. n : \E C : HasMoved(hp, ask, fil, B, m, to, i, g[i], C)}
<1>0. n \in Nat /\ Tiled(hp, B)
  BY DEF Matched, Good
<1>1. 0 \in T
  <2>1. LeftBehind(m, 0) = {}
    BY DEF LeftBehind
  <2>2. Same(hp, hp) /\ \A b \in B : Intact(hp, hp, b)
    BY <1>0 DEF Same, Intact, Tiled
  <2>3. HasMoved(hp, ask, fil, B, m, to, 0, g[0], B)
    BY <2>1, <2>2 DEF HasMoved
  <2> QED BY <2>3, <1>0
<1>2. ASSUME NEW i \in 1 .. n, i - 1 \in T
      PROVE  i \in T /\ g[i] = MoveBlock(g[i - 1], m[i], to[i])
  <2>1. PICK C : HasMoved(hp, ask, fil, B, m, to, i - 1, g[i - 1], C)
    BY <1>2
  <2>2. PICK D : HasMoved(hp, ask, fil, B, m, to, i, MoveBlock(g[i - 1], m[i], to[i]), D)
    BY <2>1, <1>0, MovesOne
  <2>3. MoveBlock(g[i - 1], m[i], to[i]) \in HeapT
    BY <2>2 DEF HasMoved, Good
  <2>4. g[i] = MoveBlock(g[i - 1], m[i], to[i])
    BY <2>3 DEF MovesEach
  <2> QED BY <2>2, <2>4, <1>0
<1>3. 0 .. n \subseteq T
  <2>1. \A k \in 0 .. n - 1 : k \in T => k + 1 \in T
    <3>1. \A k \in 0 .. n - 1 : k + 1 \in 1 .. n /\ (k + 1) - 1 = k
      BY <1>0
    <3> HIDE DEF T
    <3> QED BY <3>1, <1>2
  <2>2. 0 \in Int /\ n \in Int
    BY <1>0
  <2> HIDE DEF T
  <2> QED BY <1>1, <2>1, <2>2, RangeInduction
<1>4. \A i \in 1 .. n : i - 1 \in T
  BY <1>0, <1>3
<1> QED BY <1>2, <1>3, <1>4 DEF MovesBlocks

\* The heaps that MoveExtent goes through.
Moves(hp, n, m, to) ==
  CHOOSE g : g = [i \in 0 .. n |-> IF i = 0 THEN hp ELSE MoveBlock(g[i - 1], m[i], to[i])]

\* MoveExtent moves them by such a function.
LEMMA MovesUnfold ==
  ASSUME NEW hp, NEW ask, NEW fil, NEW B, Good(hp, ask, fil, B, {}), NEW n, NEW m, NEW to,
         Matched(hp, B, n, m, to)
  PROVE  \E C : HasMoved(hp, ask, fil, B, m, to, n, Moves(hp, n, m, to)[n], C)
<1> DEFINE next(i, v) == MoveBlock(v, m[i], to[i])
           Def(g) == [i \in 0 .. n |-> IF i = 0 THEN hp ELSE next(i, g[i - 1])]
           step == [i \in 1 .. n |-> [v \in HeapT |-> IF next(i, v) \in HeapT THEN next(i, v)
                                                      ELSE v]]
           K == CHOOSE g : g = Def(g)
<1>0. n \in Nat /\ hp \in HeapT
  BY DEF Matched, Good
<1>1. K = Moves(hp, n, m, to)
  BY DEF Moves
<1>2. PICK g \in [0 .. n -> HeapT] :
        g[0] = hp /\ \A i \in 1 .. n : g[i] = step[i][g[i - 1]]
  <2> DEFINE T == HeapT
  <2>1. n \in Nat /\ step \in Steps(n, T) /\ hp \in T
    <3> HIDE DEF next
    <3> QED BY <1>0 DEF Steps
  <2> HIDE DEF T, step, next, Def, K
  <2>2. Runs(n, T, hp, step) # {}
    BY <2>1, RangeRecursion
  <2> QED BY <2>2 DEF Runs, T
<1> HIDE DEF K
<1>3. \A i \in 1 .. n : next(i, g[i - 1]) \in HeapT => g[i] = next(i, g[i - 1])
  <2> SUFFICES ASSUME NEW i \in 1 .. n, next(i, g[i - 1]) \in HeapT
               PROVE  g[i] = next(i, g[i - 1])
    OBVIOUS
  <2>1. g[i - 1] \in HeapT
    BY <1>0
  <2>2. g[i] = step[i][g[i - 1]]
    BY <1>2
  <2> HIDE DEF next
  <2>3. step[i][g[i - 1]] = next(i, g[i - 1])
    BY <2>1
  <2> QED BY <2>2, <2>3
<1>4. \A i \in 1 .. n : g[i] = next(i, g[i - 1])
  <2>1. g[0] = hp /\ MovesEach(g, n, m, to)
    BY <1>2, <1>3 DEF MovesEach
  <2>2. MovesBlocks(g, n, m, to)
    BY <2>1, MovesAll
  <2> QED BY <2>2 DEF MovesBlocks
<1>5. g = Def(g)
  <2> HIDE DEF next
  <2>1. \A i \in 0 .. n : g[i] = IF i = 0 THEN hp ELSE next(i, g[i - 1])
    BY <1>0, <1>2, <1>4
  <2> QED BY <2>1
<1>6. K = Def(K)
  <2> HIDE DEF Def
  <2> QED BY <1>5 DEF K
<1>7. K[0] = hp /\ \A i \in 1 .. n : K[i] = next(i, K[i - 1])
  <2> HIDE DEF next
  <2>1. \A i \in 0 .. n : K[i] = IF i = 0 THEN hp ELSE next(i, K[i - 1])
    <3>1. \A i \in 0 .. n : Def(K)[i] = IF i = 0 THEN hp ELSE next(i, K[i - 1])
      OBVIOUS
    <3> HIDE DEF Def
    <3> QED BY <3>1, <1>6
  <2>2. 0 \in 0 .. n /\ \A i \in 1 .. n : i \in 0 .. n /\ i # 0
    BY <1>0
  <2> QED BY <2>1, <2>2
<1>8. \A i \in 0 .. n : \E C : HasMoved(hp, ask, fil, B, m, to, i, K[i], C)
  <2>1. K[0] = hp /\ MovesEach(K, n, m, to)
    BY <1>7 DEF MovesEach
  <2> QED BY <2>1, MovesAll
<1>9. n \in 0 .. n
  BY <1>0
<1> QED BY <1>1, <1>8, <1>9

\* The sequences of a finite set have each of its members once.
LEMMA SeqsOf ==
  ASSUME NEW X, IsFiniteSet(X), NEW m \in SetToSeqs(X)
  PROVE  LET n == Cardinality(X) IN
         /\ n \in Nat /\ m \in [1 .. n -> X] /\ Len(m) = n /\ DOMAIN m = 1 .. n
         /\ \A i, j \in 1 .. n : i # j => m[i] # m[j]
         /\ \A x \in X : \E i \in 1 .. n : m[i] = x
<1> DEFINE n == Cardinality(X)
<1>1. n \in Nat
  BY FS_CardinalityType
<1>2. m \in [1 .. n -> X] /\ \A i, j \in 1 .. n : i # j => m[i] # m[j]
  BY DEF SetToSeqs
<1>3. IsFiniteSet(1 .. n) /\ Cardinality(1 .. n) = n
  BY <1>1, FS_Interval
<1>4. m \in Injection(1 .. n, X)
  BY <1>2 DEF Injection, IsInjective
<1> HIDE DEF n
<1>5. Cardinality(1 .. n) = Cardinality(X)
  BY <1>3 DEF n
<1>6. m \in Surjection(1 .. n, X)
  BY <1>4, <1>5, FS_Injection
<1>7. \A x \in X : \E i \in 1 .. n : m[i] = x
  BY <1>6 DEF Surjection
<1>8. Len(m) = n /\ DOMAIN m = 1 .. n
  BY <1>1, <1>2
<1> QED BY <1>1, <1>2, <1>7, <1>8 DEF n

\* MoveExtent moves the blocks, and writes one free block over the extent.
LEMMA MoveExtentUnfolds ==
  ASSUME NEW hp, NEW e, NEW m, NEW to, NEW n \in Nat, Len(m) = n,
         Moves(hp, n, m, to)[n] \in HeapT, Cardinality(BlocksOf(hp, e)) \in Nat
  PROVE  Merged(Moves(hp, n, m, to)[n], MoveExtent(hp, e, m, to), e.from, RunSize(hp, e),
                Cardinality(BlocksOf(hp, e)) - 1)
<1> DEFINE p == Moves(hp, n, m, to)[n]
           j == Cardinality(BlocksOf(hp, e)) - 1
           M == FreeBlockIn(p.mem, e.from, RunSize(hp, e))
           q == MoveExtent(hp, e, m, to)
<1>1. q = [p EXCEPT !.mem = FreeBlockIn(@, e.from, RunSize(hp, e)),
                    !.freeBlocks = @ - j, !.freeSize = @ + j * Overhead]
  BY Zenon DEF MoveExtent, Moves
<1>2. p \in HeapT /\ j \in Int
  OBVIOUS
<1> HIDE DEF p, j, q
<1>3. q = [p EXCEPT !.mem = M, !.freeBlocks = p.freeBlocks - j, !.freeSize = p.freeSize + j * 2]
  BY <1>1, <1>2 DEF HeapT, Overhead
<1> HIDE DEF M
<1> DEFINE x == p.freeBlocks - j  y == p.freeSize + j * 2
<1>4. q = [p EXCEPT !.mem = M, !.freeBlocks = x, !.freeSize = y]
  BY <1>3
<1> HIDE DEF x, y
<1>5. /\ q = [f \in DOMAIN p |-> q[f]]
      /\ q.mem = M /\ q.freeBlocks = x /\ q.freeSize = y
  BY <1>2, <1>4 DEF HeapT
<1>6. /\ q.handles = p.handles /\ q.size = p.size /\ q.system = p.system
      /\ q.systemBlocks = p.systemBlocks /\ q.systemSize = p.systemSize
  BY <1>2, <1>4 DEF HeapT
<1>7. /\ q.moveableBlocks = p.moveableBlocks /\ q.moveableSize = p.moveableSize
      /\ q.lockedBlocks = p.lockedBlocks /\ q.lockedSize = p.lockedSize
  BY <1>2, <1>4 DEF HeapT
<1>8. Merged(p, q, e.from, RunSize(hp, e), j)
  BY <1>5, <1>6, <1>7 DEF Merged, M, x, y
<1> QED BY <1>8 DEF p, q, j

\* An extent whose blocks have been moved is a free block.
LEMMA MoveExtentIs ==
  ASSUME NEW hp, NEW ask, NEW fil, NEW B, Good(hp, ask, fil, B, {}), NEW e \in Extents(hp),
         NEW m \in Sorted(hp, BlocksOf(hp, e) \cap BlocksIn(hp, {MOVABLE})),
         NEW to \in [DOMAIN m -> BlocksIn(hp, {FREE})], Reserved(hp, e, m, to)
  PROVE  LET q == MoveExtent(hp, e, m, to) IN
         \E C : /\ Good(q, ask, fil, C, {}) /\ Same(hp, q)
                /\ e.from \in C /\ StateAt(q, e.from) = FREE
                /\ SizeAt(q, e.from) = RunSize(hp, e)
<1> DEFINE F == FreeOnes(hp, B)
           X == {b \in BlocksOf(hp, e) : StateAt(hp, b) = MOVABLE}
           n == Cardinality(X)
           R == {b \in B : e.from <= b /\ b <= e.to}
           end == After(hp, e.to)
           p == Moves(hp, n, m, to)[n]
           q == MoveExtent(hp, e, m, to)
<1>0. /\ hp \in HeapT /\ Tiled(hp, B)
  BY DEF Good
<1>1. /\ Range(Walk(hp)) = B /\ BlocksIn(hp, {FREE}) = F
      /\ \A states : BlocksIn(hp, states) = {b \in B : StateAt(hp, b) \in states}
  BY Walked DEF FreeOnes
<1>2. /\ e.from \in B /\ e.to \in B /\ e.from <= e.to
      /\ \A b \in B : e.from <= b /\ b <= e.to => StateAt(hp, b) \in {FREE, MOVABLE}
  <2>1. BlocksIn(hp, {FREE, MOVABLE}) = {b \in B : StateAt(hp, b) \in {FREE, MOVABLE}}
    BY <1>1
  <2> QED BY <2>1, <1>1 DEF Extents
<1>3. BlocksOf(hp, e) = R
  BY <1>1 DEF BlocksOf
<1>4. BlocksOf(hp, e) \cap BlocksIn(hp, {MOVABLE}) = X
  BY <1>1, <1>3
<1>5. X \subseteq B /\ X = {b \in R : StateAt(hp, b) = MOVABLE} /\ R \subseteq B
  BY <1>3
<1>6. \A b \in B : /\ b \in Nat /\ After(hp, b) \in Nat /\ b < After(hp, b)
                   /\ After(hp, b) \in B \cup {hp.size}
                   /\ \A c \in B : b < c => After(hp, b) <= c
  BY <1>0, BlockFacts DEF Tiled
<1>7. IsFiniteSet(X) /\ Cardinality(R) \in Nat
  BY <1>0, <1>5, BlocksFinite
<1>8. m \in SetToSeqs(X)
  BY <1>4 DEF Sorted
<1> HIDE DEF X
<1>9. /\ n \in Nat /\ m \in [1 .. n -> X] /\ Len(m) = n /\ DOMAIN m = 1 .. n
      /\ \A i, j \in 1 .. n : i # j => m[i] # m[j]
      /\ \A x \in X : \E i \in 1 .. n : m[i] = x
  BY <1>7, <1>8, SeqsOf
<1> HIDE DEF n
<1>10. to \in [1 .. n -> F]
  BY <1>1, <1>9
<1>11. ASSUME NEW i \in 1 .. n
       PROVE  /\ to[i] \in F /\ to[i] \notin R /\ SizeAt(hp, to[i]) >= SizeAt(hp, m[i])
              /\ \A k \in 1 .. i - 1 : to[k] # to[i]
  <2>1. to[i] \in {f \in BlocksIn(hp, {FREE}) \ BlocksOf(hp, e) :
                     /\ SizeAt(hp, f) >= SizeAt(hp, m[i])
                     /\ \A k \in 1 .. i - 1 : to[k] # f}
    BY <1>9 DEF Reserved
  <2> QED BY <2>1, <1>1, <1>3
<1>12. Matched(hp, B, n, m, to)
  <2>1. m \in [1 .. n -> B]
    BY <1>5, <1>9
  <2>2. ASSUME NEW i \in 1 .. n
        PROVE  StateAt(hp, m[i]) = MOVABLE /\ SizeAt(hp, m[i]) <= SizeAt(hp, to[i])
    <3>1. m[i] \in B /\ StateAt(hp, m[i]) = MOVABLE /\ to[i] \in B
      BY <1>5, <1>9, <1>11 DEF FreeOnes
    <3>2. SizeAt(hp, m[i]) \in Nat /\ SizeAt(hp, to[i]) \in Nat
      BY <3>1, <1>0, BlockFacts
    <3> QED BY <3>1, <3>2, <1>11
  <2>3. ASSUME NEW i \in 1 .. n, NEW j \in 1 .. n, i # j PROVE to[i] # to[j]
    <3>1. i \in 1 .. j - 1 \/ j \in 1 .. i - 1
      BY <1>9, <2>3
    <3> QED BY <3>1, <1>11
  <2> QED BY <2>1, <2>2, <2>3, <1>9, <1>10 DEF Matched
<1>13. PICK C : HasMoved(hp, ask, fil, B, m, to, n, p, C)
  BY <1>12, MovesUnfold
<1>14. LeftBehind(m, n) = X
  BY <1>9 DEF LeftBehind
<1>15. /\ Good(p, ask, fil, C, X) /\ Same(hp, p) /\ B \subseteq C
       /\ \A b \in B : (\A k \in 1 .. n : b # to[k]) => Intact(hp, p, b)
       /\ \A c \in C \ B : \E k \in 1 .. n : to[k] < c /\ c < After(hp, to[k])
  BY <1>13, <1>14 DEF HasMoved
<1>16. Merged(p, q, e.from, RunSize(hp, e), Cardinality(R) - 1)
  <2>1. p \in HeapT
    BY <1>15 DEF Good
  <2> QED BY <2>1, <1>3, <1>7, <1>9, MoveExtentUnfolds
<1> HIDE DEF p, q, R
<1>17. p.size = hp.size /\ end \in C \cup {p.size} /\ e.from \in C /\ e.from < end
       /\ e.from \in Nat /\ e.to \in Nat /\ end \in Nat /\ e.to < end
  BY <1>2, <1>6, <1>15 DEF Same
<1>18. \A b \in B : b \in R <=> e.from <= b /\ b < end
  BY <1>2, <1>6, <1>17 DEF R
<1>19. ASSUME NEW c \in C, e.from <= c, c < end PROVE c \in R
  <2>1. CASE c \in B
    BY <2>1, <1>18, <1>19
  <2>2. CASE c \notin B
    <3>1. PICK k \in 1 .. n : to[k] < c /\ c < After(hp, to[k])
      BY <2>2, <1>15
    <3>2. to[k] \in B /\ to[k] \notin R
      BY <1>11 DEF FreeOnes
    <3>3. to[k] < e.from \/ to[k] >= end
      BY <3>2, <1>6, <1>17, <1>18
    <3>4. to[k] < e.from => After(hp, to[k]) <= e.from
      BY <3>2, <1>2, <1>6
    <3>5. c \in Nat /\ to[k] \in Nat /\ After(hp, to[k]) \in Nat
      <4>1. c \in Nat
        BY <1>15, BlockFacts DEF Good
      <4> QED BY <4>1, <3>2, <1>6
    <3> QED BY <3>1, <3>3, <3>4, <3>5, <1>17, <1>19
  <2> QED BY <2>1, <2>2
<1>20. {b \in C : e.from <= b /\ b < end} = R
  <2>1. \A b \in R : b \in B /\ b \in C
    BY <1>15 DEF R
  <2> QED BY <2>1, <1>18, <1>19
<1>21. \A b \in X : e.from <= b /\ b < end
  BY <1>5, <1>18 DEF R
<1>22. ASSUME NEW b \in C \ X, e.from <= b, b < end PROVE StateAt(p, b) = FREE
  <2>1. b \in R /\ b \in B
    BY <1>19, <1>22 DEF R
  <2>2. StateAt(hp, b) = FREE
    BY <2>1, <1>2, <1>5, <1>22 DEF R
  <2>3. \A k \in 1 .. n : b # to[k]
    BY <2>1, <1>11
  <2>4. Intact(hp, p, b)
    BY <2>1, <2>3, <1>15
  <2> QED BY <2>2, <2>4 DEF Intact
<1>23. RunSize(hp, e) = end - e.from - 2
  BY <1>17 DEF RunSize, Overhead
<1> HIDE DEF end
<1>24. Merged(p, q, e.from, end - e.from - 2, Cardinality(Between(C, e.from, end)) - 1)
       /\ Nobodys(p, C, X, e.from, end)
  BY <1>16, <1>20, <1>21, <1>22, <1>23 DEF Between, Nobodys
<1>25. /\ Good(q, ask, fil, AsOne(C, e.from, end), {}) /\ Same(p, q)
       /\ StateAt(q, e.from) = FREE /\ SizeAt(q, e.from) = end - e.from - 2
  BY <1>15, <1>17, <1>24, MergeIs
<1>26. Same(hp, q)
  BY <1>15, <1>25, SameAgain
<1>27. e.from \in AsOne(C, e.from, end)
  BY DEF AsOne
<1> QED BY <1>23, <1>25, <1>26, <1>27 DEF q

-----------------------------------------------------------------------------
\* heap_find_free_block.

\* A heap in order, and a free block of it that is large enough, or none.
Found(hp, ask, fil, size, found) ==
  \E C : /\ Good(found.heap, ask, fil, C, {}) /\ Same(hp, found.heap)
         /\ \/ found.block = -1
            \/ /\ found.block \in FreeOnes(found.heap, C)
               /\ SizeAt(found.heap, found.block) >= size

\* Moving an extent finds a free block that is large enough, or none.
LEMMA ByMovingIs ==
  ASSUME NEW hp, NEW ask, NEW fil, NEW B, Good(hp, ask, fil, B, {}), NEW size \in Nat,
         NEW found \in ByMoving(hp, size)
  PROVE  Found(hp, ask, fil, size, found)
<1>1. CASE found \in NoBlock(hp)
  <2>1. found.heap = hp /\ found.block = -1 /\ Same(hp, hp)
    BY <1>1 DEF NoBlock, Same
  <2> QED BY <2>1 DEF Found
<1>2. CASE found \notin NoBlock(hp)
  <2>1. PICK p \in Plans(hp, size) :
          found = [heap |-> MoveExtent(hp, p.extent, p.moveable, p.to), block |-> p.extent.from]
    BY <1>2 DEF ByMoving
  <2> DEFINE With(e, m) == {[extent |-> e, moveable |-> m, to |-> to] :
                              to \in {t \in [DOMAIN m -> BlocksIn(hp, {FREE})] :
                                       Reserved(hp, e, m, t)}}
             In(e) == UNION {With(e, m) :
                               m \in Sorted(hp, BlocksOf(hp, e) \cap BlocksIn(hp, {MOVABLE}))}
  <2>2. p \in UNION {In(e) : e \in {x \in Extents(hp) : RunSize(hp, x) >= size}}
    BY Zenon DEF Plans
  <2>5. PICK e \in Extents(hp) : RunSize(hp, e) >= size /\ p \in In(e)
    <3> HIDE DEF In
    <3> QED BY <2>2
  <2>6. PICK m \in Sorted(hp, BlocksOf(hp, e) \cap BlocksIn(hp, {MOVABLE})) : p \in With(e, m)
    <3> HIDE DEF With
    <3> QED BY <2>5
  <2>7. PICK to \in [DOMAIN m -> BlocksIn(hp, {FREE})] :
          Reserved(hp, e, m, to) /\ p = [extent |-> e, moveable |-> m, to |-> to]
    BY <2>6
  <2>3. /\ found.heap = MoveExtent(hp, e, m, to) /\ found.block = e.from
    BY <2>1, <2>7
  <2>4. PICK C : /\ Good(found.heap, ask, fil, C, {}) /\ Same(hp, found.heap)
                 /\ e.from \in C /\ StateAt(found.heap, e.from) = FREE
                 /\ SizeAt(found.heap, e.from) = RunSize(hp, e)
    <3>1. \E C : /\ Good(MoveExtent(hp, e, m, to), ask, fil, C, {})
                 /\ Same(hp, MoveExtent(hp, e, m, to))
                 /\ e.from \in C /\ StateAt(MoveExtent(hp, e, m, to), e.from) = FREE
                 /\ SizeAt(MoveExtent(hp, e, m, to), e.from) = RunSize(hp, e)
      BY <2>7, MoveExtentIs
    <3> QED BY <3>1, <2>3
  <2> HIDE DEF In, With
  <2> QED BY <2>5, <2>3, <2>4 DEF Found, FreeOnes
<1> QED BY <1>1, <1>2

\* So does heap_find_free_block.
LEMMA FindFreeIs ==
  ASSUME NEW hp, NEW ask, NEW fil, NEW B, Good(hp, ask, fil, B, {}), NEW size \in Nat,
         NEW found \in FindFree(hp, size)
  PROVE  Found(hp, ask, fil, size, found)
<1> DEFINE joined == JoinFree(hp)
           Fit == {a \in BlocksIn(joined, {FREE}) : SizeAt(joined, a) >= size}
           Best == {a \in Fit : \A b \in Fit : SizeAt(joined, a) <= SizeAt(joined, b)}
           C == B \ JoinedOnes(hp, FreeOnes(hp, B))
<1>1. Good(joined, ask, fil, C, {}) /\ Same(hp, joined)
  BY JoinFreeIs
<1>2. BlocksIn(joined, {FREE}) = FreeOnes(joined, C)
  BY <1>1, Walked DEF FreeOnes
<1>3. \/ found \in NoBlock(hp) \/ found \in NoBlock(joined)
      \/ found \in {[heap |-> joined, block |-> a] : a \in Best}
      \/ found \in ByMoving(joined, size)
  <2>1. hp.freeBlocks \in Int /\ joined.freeSize \in Int
    BY <1>1 DEF Good, HeapT
  <2> HIDE DEF joined
  <2>2. \/ found \in NoBlock(hp) \/ found \in NoBlock(joined)
        \/ found \in {[heap |-> joined, block |-> a] : a \in Best}
        \/ found \in ByMoving(joined, size)
    BY <2>1, Zenon DEF FindFree, joined
  <2> QED BY <2>2
<1> HIDE DEF joined, C
<1>4. CASE found \in NoBlock(hp)
  <2>1. found.heap = hp /\ found.block = -1 /\ Same(hp, hp)
    BY <1>4 DEF NoBlock, Same
  <2> QED BY <2>1 DEF Found
<1>5. CASE found \in NoBlock(joined)
  <2>1. found.heap = joined /\ found.block = -1
    BY <1>5 DEF NoBlock
  <2> QED BY <2>1, <1>1 DEF Found
<1>6. CASE found \in {[heap |-> joined, block |-> a] : a \in Best}
  <2>1. PICK a \in Best : found = [heap |-> joined, block |-> a]
    BY <1>6
  <2>2. found.heap = joined /\ found.block = a
    BY <2>1
  <2> QED BY <2>2, <1>1, <1>2 DEF Found
<1>7. CASE found \in ByMoving(joined, size)
  <2>1. Found(joined, ask, fil, size, found)
    BY <1>1, <1>7, ByMovingIs
  <2> QED BY <2>1, <1>1, SameAgain DEF Found
<1> QED BY <1>3, <1>4, <1>5, <1>6, <1>7

\* When nothing is in use, the heap is one free block again, and serves.
LEMMA EmptyServes ==
  ASSUME NEW hp, NEW ask, NEW fil, NEW B, Good(hp, ask, fil, B, {}),
         \A h \in DOMAIN hp.handles : hp.handles[h].state = INVALID,
         NEW found \in FindFree(hp, hp.size - Overhead)
  PROVE  found.block # -1
<1> DEFINE q == JoinFree(hp)
           size == hp.size - 2
           Fit == {a \in BlocksIn(q, {FREE}) : SizeAt(q, a) >= size}
           Best == {a \in Fit : \A b \in Fit : SizeAt(q, a) <= SizeAt(q, b)}
           F == FreeOnes(hp, B)
           C == B \ JoinedOnes(hp, F)
<1>1. F = B
  <2>1. Live(hp, B, {}) = {}
    <3>1. ASSUME NEW b \in Live(hp, B, {}) PROVE FALSE
      <4>1. hp.mem[b].handle_index \in DOMAIN hp.handles /\ BoundTo(hp, hp.mem[b].handle_index)
        BY DEF Good, Owners
      <4> QED BY <4>1 DEF BoundTo, INVALID, MOVABLE, LOCKED
    <3> QED BY <3>1
  <2> QED BY <2>1 DEF Live, FreeOnes
<1>2. Good(q, ask, fil, C, {}) /\ Same(hp, q) /\ C = {0}
  BY <1>1, JoinFreeIs
<1> HIDE DEF q, C, F
<1>3. hp.size \in Nat /\ hp.freeBlocks # 0
  <2>1. /\ Tiled(hp, B) /\ Tallies(hp, B, {}) /\ hp \in HeapT
    BY DEF Good
  <2>2. Cardinality(B) \in Nat /\ Cardinality(B) # 0
    <3>1. IsFiniteSet(B) /\ B # {} /\ Cardinality(B) \in Nat
      BY <2>1, BlocksFinite DEF Tiled
    <3> QED BY <3>1, FS_EmptySet
  <2>3. InState(hp, B, {}, MOVABLE) = {} /\ InState(hp, B, {}, LOCKED) = {}
    BY <1>1 DEF InState, F, FreeOnes, FREE, MOVABLE, LOCKED
  <2>4. hp.moveableBlocks = 0 /\ hp.lockedBlocks = 0
    BY <2>1, <2>3, FS_EmptySet DEF Tallies, Tally
  <2> QED BY <2>1, <2>2, <2>4 DEF Tallies, Count, HeapT
<1>4. q.size = hp.size
  BY <1>2 DEF Same
<1>5. StateAt(q, 0) = FREE /\ SizeAt(q, 0) = size
  <2>1. Tiled(q, {0})
    BY <1>2 DEF Good
  <2>2. After(q, 0) = q.size
    <3>1. After(q, 0) \in {0} \cup {q.size} /\ After(q, 0) > 0
      BY <2>1, BlockFacts DEF Tiled
    <3> QED BY <3>1
  <2>3. SizeAt(q, 0) \in Nat /\ After(q, 0) = 0 + SizeAt(q, 0) + 2
    BY <2>1, BlockFacts
  <2>4. StateAt(q, 0) = FREE
    <3>1. ASSUME StateAt(q, 0) # FREE PROVE FALSE
      <4>1. 0 \in Live(q, {0}, {})
        BY <3>1 DEF Live
      <4>2. Owners(q, ask, {0}, {})
        BY <1>2 DEF Good
      <4>3. q.mem[0].handle_index \in DOMAIN q.handles /\ BoundTo(q, q.mem[0].handle_index)
        BY <4>1, <4>2 DEF Owners
      <4>4. hp.handles[q.mem[0].handle_index].state # INVALID
            /\ q.mem[0].handle_index \in DOMAIN hp.handles
        BY <4>3, <1>2 DEF Same, BoundTo, INVALID, MOVABLE, LOCKED
      <4> QED BY <4>4
    <3> QED BY <3>1
  <2> QED BY <2>2, <2>3, <2>4, <1>3, <1>4
<1>6. BlocksIn(q, {FREE}) = {0}
  <2>1. BlocksIn(q, {FREE}) = {b \in {0} : StateAt(q, b) = FREE}
    BY <1>2, Walked
  <2> QED BY <2>1, <1>5
<1>7. Fit = {0} /\ Fit # {}
  <2>1. SizeAt(q, 0) >= size
    BY <1>3, <1>5
  <2>2. \A a : a \in Fit <=> a = 0 /\ SizeAt(q, a) >= size
    BY <1>6
  <2> HIDE DEF Fit
  <2> QED BY <2>1, <2>2
<1>8. ~ (size > q.freeSize)
  <2>1. /\ Tallies(q, {0}, {}) /\ q \in HeapT
    BY <1>2 DEF Good
  <2>2. InState(q, {0}, {}, MOVABLE) = {} /\ InState(q, {0}, {}, LOCKED) = {}
    BY <1>5 DEF InState, FREE, MOVABLE, LOCKED
  <2>3. SumOf(q, {}) = 0
    BY SumOfEmpty DEF SumOf
  <2>4. q.moveableSize = 0 /\ q.lockedSize = 0
    BY <2>1, <2>2, <2>3 DEF Tallies, Tally
  <2>5. q.freeSize + q.moveableSize + q.lockedSize + 2 * Cardinality({0}) = q.size
    BY <2>1 DEF Tallies
  <2>6. Cardinality({0}) = 1
    BY FS_Singleton
  <2> QED BY <2>1, <2>4, <2>5, <2>6, <1>3, <1>4 DEF HeapT
<1>9. found \in {[heap |-> q, block |-> a] : a \in Best}
  <2> HIDE DEF size
  <2>1. hp.size - Overhead = size
    BY DEF size, Overhead
  <2>2. q.freeSize \in Int /\ size \in Int
    BY <1>2, <1>3 DEF Good, HeapT, size
  <2>3. size <= q.freeSize
    BY <2>2, <1>8
  <2> HIDE DEF Best
  <2>4. FindFree(hp, size) = {[heap |-> q, block |-> a] : a \in Best}
    BY <2>3, <1>3, <1>7, <1>8 DEF FindFree, q, Best
  <2> QED BY <2>1, <2>4
<1>10. PICK a \in Best : found = [heap |-> q, block |-> a]
  BY <1>9
<1>11. a = 0
  BY <1>7
<1> QED BY <1>10, <1>11

-----------------------------------------------------------------------------
(* What an operation on one handle does to the other blocks: nothing.       *)

OwnedBy(hp, g) == IF BoundTo(hp, g) THEN {hp.handles[g].data} ELSE {}
Others(hp, B, S, g) == {b \in Live(hp, B, S) : hp.mem[b].handle_index # g}

\* Only the handle g and its block are not as they were.
Beside(hp, q, B, C, S, R, g, ask, new) ==
  /\ g \in DOMAIN hp.handles /\ DOMAIN q.handles = DOMAIN hp.handles
  /\ \A h \in DOMAIN hp.handles : h # g => q.handles[h] = hp.handles[h] /\ new[h] = ask[h]
  /\ \A b \in Others(hp, B, S, g) : Intact(hp, q, b)
  /\ R \subseteq C /\ \A b \in R : StateAt(q, b) = MOVABLE
  /\ Live(q, C, R) = Others(hp, B, S, g) \cup OwnedBy(q, g)
  /\ \A a \in OwnedBy(q, g) : /\ StateAt(q, a) = q.handles[g].state
                              /\ q.mem[a].handle_index = g
                              /\ new[g] <= SizeAt(q, a) /\ SizeAt(q, a) \in Int

\* The block of g in the counts of the blocks of a state.
One(hp, g, state)  == IF hp.handles[g].state = state THEN 1 ELSE 0
Size(hp, g, state) == IF hp.handles[g].state = state THEN SizeAt(hp, hp.handles[g].data) ELSE 0

\* Handles and blocks still point at each other.
LEMMA OwnersBeside ==
  ASSUME NEW hp, NEW q, NEW B, NEW C, NEW S, NEW R, NEW g, NEW ask, NEW new,
         Owners(hp, ask, B, S), Beside(hp, q, B, C, S, R, g, ask, new)
  PROVE  Owners(q, new, C, R)
<1>1. ASSUME NEW h \in DOMAIN q.handles, BoundTo(q, h)
      PROVE  LET a == q.handles[h].data IN
             /\ a \in Live(q, C, R) /\ StateAt(q, a) = q.handles[h].state
             /\ q.mem[a].handle_index = h /\ new[h] <= SizeAt(q, a)
  <2>1. CASE h = g
    <3>1. q.handles[g].data \in OwnedBy(q, g)
      BY <1>1, <2>1 DEF OwnedBy
    <3> QED BY <2>1, <3>1 DEF Beside
  <2>2. CASE h # g
    <3> DEFINE a == hp.handles[h].data
    <3>1. h \in DOMAIN hp.handles /\ q.handles[h] = hp.handles[h] /\ new[h] = ask[h]
      BY <2>2 DEF Beside
    <3>2. BoundTo(hp, h)
      BY <1>1, <3>1 DEF BoundTo
    <3>3. /\ a \in Live(hp, B, S) /\ StateAt(hp, a) = hp.handles[h].state
          /\ hp.mem[a].handle_index = h /\ ask[h] <= SizeAt(hp, a)
      BY <3>1, <3>2 DEF Owners
    <3>4. a \in Others(hp, B, S, g)
      BY <2>2, <3>3 DEF Others
    <3>5. a \in Live(q, C, R) /\ Intact(hp, q, a)
      BY <3>4 DEF Beside
    <3> QED BY <3>1, <3>3, <3>5 DEF Intact
  <2> QED BY <2>1, <2>2
<1>2. ASSUME NEW b \in Live(q, C, R)
      PROVE  LET h == q.mem[b].handle_index IN
             h \in DOMAIN q.handles /\ q.handles[h].data = b /\ BoundTo(q, h)
  <2>1. CASE b \in OwnedBy(q, g)
    BY <2>1 DEF Beside, OwnedBy
  <2>2. CASE b \in Others(hp, B, S, g)
    <3> DEFINE h == hp.mem[b].handle_index
    <3>1. h # g /\ b \in Live(hp, B, S)
      BY <2>2 DEF Others
    <3>2. h \in DOMAIN hp.handles /\ hp.handles[h].data = b /\ BoundTo(hp, h)
      BY <3>1 DEF Owners
    <3>3. q.handles[h] = hp.handles[h] /\ q.mem[b] = hp.mem[b] /\ DOMAIN q.handles = DOMAIN hp.handles
      BY <2>2, <3>1, <3>2 DEF Beside, Intact
    <3> QED BY <3>2, <3>3 DEF BoundTo
  <2> QED BY <2>1, <2>2 DEF Beside
<1>3. R \subseteq C /\ \A b \in R : StateAt(q, b) = MOVABLE
  BY DEF Beside
<1> QED BY <1>1, <1>2, <1>3 DEF Owners

\* What was written is still there.
LEMMA KeptBeside ==
  ASSUME NEW hp, NEW q, NEW B, NEW C, NEW S, NEW R, NEW g, NEW ask, NEW new, NEW fil, NEW full,
         Tiled(hp, B), Owners(hp, ask, B, S), Beside(hp, q, B, C, S, R, g, ask, new),
         Kept(hp, ask, fil), Asked(hp, ask),
         full \subseteq fil \cup {g}, \A h \in full : h \in Handle /\ new[h] # 0,
         g \in full /\ BoundTo(q, g) =>
           \A c \in q.handles[g].data + 1 .. q.handles[g].data + new[g] : q.mem[c] = DataOf(g)
  PROVE  Kept(q, new, full)
<1> SUFFICES ASSUME NEW h \in DOMAIN q.handles, h \in full, BoundTo(q, h), h # g,
                    NEW c \in q.handles[h].data + 1 .. q.handles[h].data + new[h]
             PROVE  q.mem[c] = DataOf(h)
  BY DEF Kept
<1> DEFINE a == hp.handles[h].data
<1>1. h \in DOMAIN hp.handles /\ q.handles[h] = hp.handles[h] /\ new[h] = ask[h] /\ h \in fil
  BY DEF Beside
<1>2. BoundTo(hp, h) /\ h \in Handle
  BY <1>1 DEF BoundTo
<1>3. a \in Live(hp, B, S) /\ hp.mem[a].handle_index = h /\ ask[h] <= SizeAt(hp, a)
      /\ ask[h] \in Nat
  BY <1>1, <1>2 DEF Owners, Asked
<1>4. Intact(hp, q, a)
  BY <1>3 DEF Beside, Others
<1>5. a \in B /\ a \in Nat /\ SizeAt(hp, a) \in Nat /\ After(hp, a) = a + SizeAt(hp, a) + 2
  BY <1>3, BlockFacts DEF Live
<1>6. c \in a .. After(hp, a) - 1 /\ c \in a + 1 .. a + ask[h]
  BY <1>1, <1>3, <1>5
<1>7. hp.mem[c] = DataOf(h)
  BY <1>1, <1>2, <1>6 DEF Kept
<1> QED BY <1>4, <1>6, <1>7 DEF Intact

\* Blocks in one state are counted without the handle's, and with its new one.
LEMMA TallyBeside ==
  ASSUME NEW hp, NEW q, NEW B, NEW C, NEW S, NEW R, NEW g, NEW ask, NEW new,
         Tiled(hp, B), Owners(hp, ask, B, S), Beside(hp, q, B, C, S, R, g, ask, new),
         NEW state \in {MOVABLE, LOCKED}, NEW count \in Int, NEW size \in Int,
         Tally(hp, InState(hp, B, S, state), count, size)
  PROVE  Tally(q, InState(q, C, R, state), count - One(hp, g, state) + One(q, g, state),
               size - Size(hp, g, state) + Size(q, g, state))
<1> DEFINE T == InState(hp, B, S, state)
           U == {b \in Others(hp, B, S, g) : StateAt(hp, b) = state}
           a == hp.handles[g].data
           d == q.handles[g].data
<1>0. state # FREE /\ state \in {MOVABLE, LOCKED}
  BY DEF FREE, MOVABLE, LOCKED
<1>1. T = {b \in Live(hp, B, S) : StateAt(hp, b) = state} /\ T \subseteq B
  BY <1>0 DEF InState, Live
<1>2. \A b \in T : SizeAt(hp, b) \in Int
  BY <1>1, BlockFacts
<1>3. U \subseteq T /\ U = {b \in T : hp.mem[b].handle_index # g}
  BY <1>1 DEF Others
<1>4. IF hp.handles[g].state = state THEN a \in T /\ U = T \ {a} ELSE U = T
  <2>1. \A b \in T : hp.mem[b].handle_index = g
                       => hp.handles[g].data = b /\ hp.handles[g].state = state
    <3> SUFFICES ASSUME NEW b \in T, hp.mem[b].handle_index = g
                 PROVE  hp.handles[g].data = b /\ hp.handles[g].state = state
      OBVIOUS
    <3>1. b \in Live(hp, B, S) /\ StateAt(hp, b) = state
      BY <1>1
    <3>2. g \in DOMAIN hp.handles /\ hp.handles[g].data = b /\ BoundTo(hp, g)
      BY <3>1 DEF Owners
    <3>3. StateAt(hp, hp.handles[g].data) = hp.handles[g].state
      BY <3>2 DEF Owners
    <3> QED BY <3>1, <3>2, <3>3
  <2>2. hp.handles[g].state = state => a \in T /\ hp.mem[a].handle_index = g
    <3> SUFFICES ASSUME hp.handles[g].state = state
                 PROVE  a \in T /\ hp.mem[a].handle_index = g
      OBVIOUS
    <3>1. g \in DOMAIN hp.handles /\ BoundTo(hp, g)
      BY <1>0 DEF Beside, BoundTo
    <3>2. /\ a \in Live(hp, B, S) /\ StateAt(hp, a) = hp.handles[g].state
          /\ hp.mem[a].handle_index = g
      BY <3>1 DEF Owners
    <3> QED BY <3>2, <1>1
  <2> HIDE DEF T, U
  <2> QED BY <2>1, <2>2, <1>3
<1> HIDE DEF T, U
<1>5. Tally(hp, U, count - One(hp, g, state), size - Size(hp, g, state))
  <2>1. CASE hp.handles[g].state = state
    BY <2>1, <1>2, <1>4, TallyRemove DEF One, Size, T
  <2>2. CASE hp.handles[g].state # state
    BY <2>2, <1>4 DEF One, Size, T
  <2> QED BY <2>1, <2>2
<1>6. \A b \in U : /\ b \in Others(hp, B, S, g) /\ SizeAt(q, b) = SizeAt(hp, b)
                   /\ SizeAt(hp, b) \in Int /\ StateAt(q, b) = state
  <2>1. \A b \in U : b \in Others(hp, B, S, g) /\ StateAt(hp, b) = state /\ b \in T
    BY <1>3 DEF U
  <2>2. \A b \in U : SizeAt(q, b) = SizeAt(hp, b) /\ StateAt(q, b) = StateAt(hp, b)
    BY <2>1 DEF Beside, Intact
  <2> QED BY <2>1, <2>2, <1>2
<1>7. Tally(q, U, count - One(hp, g, state), size - Size(hp, g, state))
  BY <1>5, <1>6, TallySame
<1>8. InState(q, C, R, state) = {b \in Live(q, C, R) : StateAt(q, b) = state}
  BY <1>0 DEF InState, Live
<1>9. Live(q, C, R) = Others(hp, B, S, g) \cup OwnedBy(q, g)
  BY DEF Beside
<1>10. \A b \in Others(hp, B, S, g) : StateAt(q, b) = state <=> b \in U
  BY DEF Beside, Intact, U
<1>11. CASE q.handles[g].state = state
  <2>1. OwnedBy(q, g) = {d}
    BY <1>0, <1>11 DEF OwnedBy, BoundTo
  <2>2. d \notin U /\ StateAt(q, d) = state /\ SizeAt(q, d) \in Int
    <3>1. q.mem[d].handle_index = g /\ StateAt(q, d) = state /\ SizeAt(q, d) \in Int
      BY <2>1, <1>11 DEF Beside
    <3>2. \A b \in U : q.mem[b].handle_index # g
      <4>1. \A b \in U : q.mem[b] = hp.mem[b] /\ hp.mem[b].handle_index # g
        BY <1>6 DEF Beside, Intact, Others
      <4> QED BY <4>1
    <3> QED BY <3>1, <3>2
  <2>3. InState(q, C, R, state) = U \cup {d}
    <3>1. \A b \in U : b \in Others(hp, B, S, g)
      BY <1>6
    <3> QED BY <2>1, <2>2, <3>1, <1>8, <1>9, <1>10
  <2>4. Tally(q, U \cup {d}, count - One(hp, g, state) + 1, size - Size(hp, g, state) + SizeAt(q, d))
    BY <2>2, <1>6, <1>7, TallyAdd
  <2> QED BY <2>3, <2>4, <1>11 DEF One, Size
<1>12. CASE q.handles[g].state # state
  <2>1. \A b \in OwnedBy(q, g) : StateAt(q, b) # state
    BY <1>12 DEF Beside
  <2>2. InState(q, C, R, state) = U
    <3>1. \A b \in U : b \in Others(hp, B, S, g)
      BY <1>6
    <3> QED BY <2>1, <3>1, <1>8, <1>9, <1>10
  <2>3. /\ count - One(hp, g, state) + 0 = count - One(hp, g, state)
        /\ size - Size(hp, g, state) + 0 = size - Size(hp, g, state)
    <3>1. Size(hp, g, state) \in Int
      <4>1. CASE hp.handles[g].state = state
        BY <4>1, <1>2, <1>4 DEF Size
      <4>2. CASE hp.handles[g].state # state
        BY <4>2 DEF Size
      <4> QED BY <4>1, <4>2
    <3> QED BY <3>1 DEF One
  <2> QED BY <2>2, <2>3, <1>7, <1>12 DEF One, Size
<1> QED BY <1>11, <1>12

-----------------------------------------------------------------------------
\* heap_acquire_handle.

\* The least of the unused handles is one.
LEMMA FirstIs ==
  ASSUME NEW G \in HandlesT, \E h \in DOMAIN G : G[h].state = INVALID
  PROVE  FirstUnused(G) \in DOMAIN G /\ G[FirstUnused(G)].state = INVALID
<1> DEFINE T == {h \in DOMAIN G : G[h].state = INVALID}
<1>1. T \in SUBSET Nat /\ T # {}
  BY DEF HandlesT
<1>2. Min(T) \in T
  <2> HIDE DEF T
  <2> QED BY <1>1, MinIs
<1> QED BY <1>2 DEF FirstUnused

\* With the new handles there is an unused one, and those that were are the same.
LEMMA GrownIs ==
  ASSUME NEW hp, hp.handles \in HandlesT
  PROVE  LET G == Grown(hp)  u == FirstUnused(G) IN
         /\ G \in HandlesT /\ DOMAIN hp.handles \subseteq DOMAIN G
         /\ \A h \in DOMAIN hp.handles : G[h] = hp.handles[h]
         /\ \A h \in DOMAIN G \ DOMAIN hp.handles : G[h].state = INVALID
         /\ u \in DOMAIN G /\ G[u].state = INVALID
<1> DEFINE G == Grown(hp)  old == DOMAIN hp.handles
           big == [h \in 0 .. Cardinality(old) + HandleChunk - 1 |->
                     IF h \in old THEN hp.handles[h] ELSE NoHandle]
<1>1. PICK k \in Nat : hp.handles \in [0 .. k - 1 -> HandleT]
  BY DEF HandlesT
<1>2. old = 0 .. k - 1 /\ \A h \in old : hp.handles[h] \in HandleT
  BY <1>1
<1>3. Cardinality(old) = k
  <2>1. 0 \in Int /\ k - 1 \in Int
    BY <1>1
  <2>2. Cardinality(0 .. k - 1) = IF 0 > k - 1 THEN 0 ELSE (k - 1) - 0 + 1
    BY <2>1, FS_Interval
  <2> QED BY <2>2, <1>1, <1>2
<1>4. HandleChunk \in Nat /\ HandleChunk >= 1
  BY HeapAssumption
<1>5. NoHandle \in HandleT /\ NoHandle.state = INVALID
  BY DEF NoHandle, HandleT
<1> HIDE DEF old
<1>6. CASE \E h \in old : hp.handles[h].state = INVALID
  <2>1. G = hp.handles
    BY <1>6 DEF Grown, old
  <2> QED BY <2>1, <1>2, <1>6, <1>1, FirstIs DEF old
<1>7. CASE ~ \E h \in old : hp.handles[h].state = INVALID
  <2>1. G = big
    BY <1>7 DEF Grown, old
  <2> HIDE DEF G
  <2>2. Cardinality(old) + HandleChunk - 1 = k + HandleChunk - 1 /\ k + HandleChunk \in Nat
    BY <1>1, <1>3, <1>4
  <2>3. G \in [0 .. (k + HandleChunk) - 1 -> HandleT]
    <3> DEFINE l == (k + HandleChunk) - 1
    <3>1. Cardinality(old) + HandleChunk - 1 = l
      BY <1>3, <1>4
    <3> HIDE DEF l
    <3>2. G = [h \in 0 .. l |-> IF h \in old THEN hp.handles[h] ELSE NoHandle]
      BY <2>1, <3>1
    <3>3. G \in [0 .. l -> HandleT]
      BY <3>2, <1>2, <1>5
    <3> QED BY <3>3 DEF l
  <2>4. G \in HandlesT
    BY <2>2, <2>3 DEF HandlesT
  <2>5. old \subseteq DOMAIN G /\ k \in DOMAIN G /\ k \notin old
    BY <2>3, <1>1, <1>2, <1>4
  <2>6. /\ \A h \in old : G[h] = hp.handles[h]
        /\ \A h \in DOMAIN G \ old : G[h] = NoHandle
    BY <2>1, <2>5
  <2>7. \E h \in DOMAIN G : G[h].state = INVALID
    BY <2>5, <2>6, <1>5
  <2> QED BY <2>4, <2>5, <2>6, <2>7, <1>5, FirstIs DEF old, G
<1> QED BY <1>6, <1>7

\* More handles leave the heap in order.
LEMMA GrownGood ==
  ASSUME NEW hp, NEW ask, NEW fil, NEW B, Good(hp, ask, fil, B, {})
  PROVE  LET q == [hp EXCEPT !.handles = Grown(hp)]  u == FirstUnused(q.handles) IN
         /\ Good(q, ask, fil, B, {})
         /\ u \in DOMAIN q.handles /\ q.handles[u].state = INVALID
         /\ q.handles = Grown(hp) /\ q.mem = hp.mem
<1> DEFINE G == Grown(hp)  q == [hp EXCEPT !.handles = G]
<1>0. /\ hp \in HeapT /\ Tiled(hp, B) /\ Owners(hp, ask, B, {}) /\ Asked(hp, ask)
      /\ Tallies(hp, B, {}) /\ Kept(hp, ask, fil) /\ Systems(hp) /\ hp.handles \in HandlesT
  BY DEF Good, HeapT
<1>1. /\ G \in HandlesT /\ DOMAIN hp.handles \subseteq DOMAIN G
      /\ \A h \in DOMAIN hp.handles : G[h] = hp.handles[h]
      /\ \A h \in DOMAIN G \ DOMAIN hp.handles : G[h].state = INVALID
      /\ FirstUnused(G) \in DOMAIN G /\ G[FirstUnused(G)].state = INVALID
  BY <1>0, GrownIs
<1> HIDE DEF G
<1>2. /\ q \in HeapT /\ q.mem = hp.mem /\ q.handles = G
  BY <1>0, <1>1 DEF HeapT
<1>3. /\ q.size = hp.size /\ q.system = hp.system
      /\ q.systemBlocks = hp.systemBlocks /\ q.systemSize = hp.systemSize
      /\ q.freeBlocks = hp.freeBlocks /\ q.freeSize = hp.freeSize
  BY <1>0 DEF HeapT
<1>4. /\ q.moveableBlocks = hp.moveableBlocks /\ q.moveableSize = hp.moveableSize
      /\ q.lockedBlocks = hp.lockedBlocks /\ q.lockedSize = hp.lockedSize
  BY <1>0 DEF HeapT
<1> HIDE DEF q
<1>5. \A a : SizeAt(q, a) = SizeAt(hp, a) /\ StateAt(q, a) = StateAt(hp, a)
             /\ After(q, a) = After(hp, a)
  BY <1>2 DEF SizeAt, StateAt, After
<1>6. Tiled(q, B)
  BY <1>0, <1>2, <1>3, <1>5 DEF Tiled
<1>7. \A h \in DOMAIN G : G[h].state # INVALID => h \in DOMAIN hp.handles /\ G[h] = hp.handles[h]
  BY <1>1
<1>8. \A h \in DOMAIN G : BoundTo(q, h) => BoundTo(hp, h) /\ h \in DOMAIN hp.handles
  BY <1>2, <1>7 DEF BoundTo, INVALID, MOVABLE, LOCKED
<1>9. \A h \in DOMAIN hp.handles : BoundTo(hp, h) => BoundTo(q, h)
  BY <1>1, <1>2 DEF BoundTo
<1>10. Live(q, B, {}) = Live(hp, B, {})
  BY <1>5 DEF Live
<1>11. Owners(q, ask, B, {})
  <2>1. ASSUME NEW h \in DOMAIN q.handles, BoundTo(q, h)
        PROVE  LET a == q.handles[h].data IN
               /\ a \in Live(q, B, {}) /\ StateAt(q, a) = q.handles[h].state
               /\ q.mem[a].handle_index = h /\ ask[h] <= SizeAt(q, a)
    <3>1. h \in DOMAIN hp.handles /\ BoundTo(hp, h) /\ q.handles[h] = hp.handles[h]
      BY <2>1, <1>1, <1>2, <1>8
    <3> QED BY <3>1, <1>0, <1>2, <1>5, <1>10 DEF Owners
  <2>2. ASSUME NEW b \in Live(q, B, {})
        PROVE  LET h == q.mem[b].handle_index IN
               h \in DOMAIN q.handles /\ q.handles[h].data = b /\ BoundTo(q, h)
    <3>1. LET h == hp.mem[b].handle_index IN
          h \in DOMAIN hp.handles /\ hp.handles[h].data = b /\ BoundTo(hp, h)
      BY <1>0, <1>10 DEF Owners
    <3> QED BY <3>1, <1>1, <1>2, <1>9
  <2> QED BY <2>1, <2>2 DEF Owners
<1>12. Kept(q, ask, fil)
  BY <1>0, <1>1, <1>2, <1>8 DEF Kept
<1>13. Asked(q, ask)
  <2>1. \A h \in DOMAIN q.handles : q.handles[h].state # INVALID => h \in Handle /\ ask[h] # 0
    BY <1>0, <1>2, <1>7 DEF Asked
  <2> QED BY <2>1, <1>0, <1>1, <1>2 DEF Asked
<1>14. Systems(q)
  <2>1. SystemOnes(q) = SystemOnes(hp)
    <3>1. \A h \in DOMAIN G : IsSystem(G[h].state) => h \in DOMAIN hp.handles
      BY <1>7 DEF IsSystem, SYSTEM, LOCKED, INVALID
    <3> QED BY <3>1, <1>1, <1>2 DEF SystemOnes
  <2> QED BY <2>1, <1>0, <1>3 DEF Systems
<1>15. Tallies(q, B, {})
  <2>1. ASSUME NEW state \in {MOVABLE, LOCKED}, NEW count, NEW size,
               Tally(hp, InState(hp, B, {}, state), count, size)
        PROVE  Tally(q, InState(q, B, {}, state), count, size)
    <3>1. InState(q, B, {}, state) = InState(hp, B, {}, state)
      BY <1>5 DEF InState
    <3>2. \A a \in InState(hp, B, {}, state) : SizeAt(q, a) = SizeAt(hp, a) /\ SizeAt(hp, a) \in Int
      BY <1>0, <1>5, BlockFacts DEF InState
    <3> QED BY <2>1, <3>1, <3>2, TallySame
  <2> QED BY <2>1, <1>0, <1>3, <1>4 DEF Tallies, Count
<1>16. Good(q, ask, fil, B, {})
  BY <1>2, <1>6, <1>11, <1>12, <1>13, <1>14, <1>15 DEF Good
<1> QED BY <1>1, <1>2, <1>16 DEF q, G

-----------------------------------------------------------------------------
\* A free block is taken for a request.

\* What a handle may be set to.
LEMMA HandleSet ==
  ASSUME NEW handles \in HandlesT, NEW g \in DOMAIN handles, NEW v \in HandleT
  PROVE  LET d == [handles EXCEPT ![g] = v] IN
         /\ d \in HandlesT /\ DOMAIN d = DOMAIN handles /\ d[g] = v
         /\ \A h \in DOMAIN handles : h # g => d[h] = handles[h]
<1>1. PICK k \in Nat : handles \in [0 .. k - 1 -> HandleT]
  BY DEF HandlesT
<1>2. [handles EXCEPT ![g] = v] \in [0 .. k - 1 -> HandleT]
  BY <1>1
<1>3. [handles EXCEPT ![g] = v] \in HandlesT
  BY <1>2 DEF HandlesT
<1> QED BY <1>1, <1>3

\* What a handle may hold.
LEMMA HandleFacts ==
  ASSUME NEW state \in {INVALID, MOVABLE, LOCKED, SYSTEM, SYSTEM + LOCKED}, NEW data \in Int
  PROVE  [state |-> state, data |-> data] \in HandleT
BY DEF HandleT

\* How much of the block the request gets.
Splits(hp, a, size) == SizeAt(hp, a) - size > MinSplit
Taken(hp, a, size)  == IF Splits(hp, a, size) THEN size ELSE SizeAt(hp, a)

TakenMem(hp, a, size, h) ==
  IF Splits(hp, a, size)
  THEN [[FreeBlockIn(hp.mem, a + size + 2, SizeAt(hp, a) - size - 2)
          EXCEPT ![a + size + 1] = Footer]
          EXCEPT ![a] = Header(size, MOVABLE, h)]
  ELSE [hp.mem EXCEPT ![a] = Header(SizeAt(hp, a), MOVABLE, h)]

\* Take in those terms.
LEMMA TakeUnfolds ==
  ASSUME NEW hp \in HeapT, NEW a, NEW size \in Nat, NEW h, SizeAt(hp, a) \in Nat
  PROVE  LET q == Take(hp, a, size, h)  used == Taken(hp, a, size) IN
         /\ q = [f \in DOMAIN hp |-> q[f]]
         /\ q.mem = TakenMem(hp, a, size, h)
         /\ q.handles = [hp.handles EXCEPT ![h] = [state |-> MOVABLE, data |-> a]]
         /\ q.size = hp.size /\ q.system = hp.system
         /\ q.systemBlocks = hp.systemBlocks /\ q.systemSize = hp.systemSize
         /\ q.lockedBlocks = hp.lockedBlocks /\ q.lockedSize = hp.lockedSize
         /\ q.moveableBlocks = hp.moveableBlocks + 1
         /\ q.moveableSize = hp.moveableSize + used
         /\ q.freeBlocks = IF Splits(hp, a, size) THEN hp.freeBlocks ELSE hp.freeBlocks - 1
         /\ q.freeSize = hp.freeSize - (IF Splits(hp, a, size) THEN used + 2 ELSE used)
<1> DEFINE used == Taken(hp, a, size)
           split == Splits(hp, a, size)
           M == TakenMem(hp, a, size, h)
           d == [hp.handles EXCEPT ![h] = [state |-> MOVABLE, data |-> a]]
           q == Take(hp, a, size, h)
<1>1. q = [hp EXCEPT !.mem = M, !.handles = d,
                     !.freeBlocks = IF split THEN @ ELSE @ - 1,
                     !.moveableBlocks = @ + 1,
                     !.freeSize = @ - (IF split THEN used + 2 ELSE used),
                     !.moveableSize = @ + used]
  <2> DEFINE cut == IF ~split THEN hp.mem
                    ELSE [FreeBlockIn(hp.mem, a + size + 2, SizeAt(hp, a) - size - 2)
                            EXCEPT ![a + size + 1] = Footer]
             N == [cut EXCEPT ![a] = Header(used, MOVABLE, h)]
  <2>1. q = [hp EXCEPT !.mem = N,
                       !.handles[h] = [state |-> MOVABLE, data |-> a],
                       !.freeBlocks = IF split THEN @ ELSE @ - 1,
                       !.moveableBlocks = @ + 1,
                       !.freeSize = @ - (IF split THEN used + 2 ELSE used),
                       !.moveableSize = @ + used]
    BY Zenon DEF Take, Taken, Splits, Overhead
  <2>2. N = M
    BY DEF TakenMem, Taken
  <2> HIDE DEF N, M, used, split
  <2> QED BY <2>1, <2>2 DEF HeapT
<1> DEFINE fb == IF split THEN hp.freeBlocks ELSE hp.freeBlocks - 1
           fs == hp.freeSize - (IF split THEN used + 2 ELSE used)
           mb == hp.moveableBlocks + 1
           ms == hp.moveableSize + used
<1> HIDE DEF M, d, used, split, q
<1>2. q = [hp EXCEPT !.mem = M, !.handles = d, !.freeBlocks = fb, !.moveableBlocks = mb,
                     !.freeSize = fs, !.moveableSize = ms]
  BY <1>1 DEF HeapT
<1> HIDE DEF fb, fs, mb, ms
<1>3. /\ q = [f \in DOMAIN hp |-> q[f]]
      /\ q.mem = M /\ q.handles = d /\ q.freeBlocks = fb /\ q.freeSize = fs
  BY <1>2 DEF HeapT
<1>4. q.moveableBlocks = mb /\ q.moveableSize = ms /\ q.size = hp.size /\ q.system = hp.system
  BY <1>2 DEF HeapT
<1>5. /\ q.systemBlocks = hp.systemBlocks /\ q.systemSize = hp.systemSize
      /\ q.lockedBlocks = hp.lockedBlocks /\ q.lockedSize = hp.lockedSize
  BY <1>2 DEF HeapT
<1> QED BY <1>3, <1>4, <1>5 DEF q, M, d, fb, fs, mb, ms, used, split

\* The block that is taken occupies the free one.
LEMMA TakeOccupies ==
  ASSUME NEW hp, hp.mem \in [Cell -> Content], NEW B, Tiled(hp, B), NEW a \in FreeOnes(hp, B),
         NEW size \in Nat, size <= SizeAt(hp, a), NEW h \in Int,
         NEW q, q.mem = TakenMem(hp, a, size, h), q.size = hp.size
  PROVE  /\ Occupied(hp, q, a, Taken(hp, a, size), h)
         /\ Taken(hp, a, size) = SizeAt(hp, a) <=> ~ Splits(hp, a, size)
<1> DEFINE whole == SizeAt(hp, a)  rest == whole - size - 2  d == a + size + 2
           x == After(hp, a)
<1>1. a \in B /\ StateAt(hp, a) = FREE
  BY DEF FreeOnes
<1>2. /\ a \in Nat /\ a \in Cell /\ whole \in Nat /\ x = a + whole + 2 /\ x - 1 \in Cell
  BY <1>1, BlockFacts
<1>3. hp.mem[x - 1] = Footer
  BY <1>1 DEF Tiled
<1>4. HeapSize \in Nat /\ Cell = 0 .. HeapSize - 1 /\ MinSplit \in Nat /\ MinSplit > 2
  BY HeapSizeIs, HeapAssumption DEF Cell
<1> HIDE DEF x, whole
<1>5. CASE Splits(hp, a, size)
  <2>1. whole - size > MinSplit /\ Taken(hp, a, size) = size
    BY <1>5 DEF Splits, Taken, whole
  <2>2. rest \in Nat /\ d \in Nat /\ d + rest + 1 = x - 1 /\ size # whole /\ size + 2 <= whole
    <3>1. size + 2 < whole
      BY <2>1, <1>2, <1>4
    <3> QED BY <3>1, <1>2
  <2>3. d \in Cell /\ a + size + 1 \in Cell
    <3>0. x \in Nat /\ x <= HeapSize
      BY <1>2, <1>4
    <3>1. x \in Nat /\ x <= HeapSize /\ d < x /\ a + size + 1 < x
      BY <3>0, <2>2, <1>2
    <3> QED BY <3>1, <1>2, <1>4
  <2> HIDE DEF rest
  <2> DEFINE M == FreeBlockIn(hp.mem, d, rest)
             top == Header(size, MOVABLE, h)
             N == [[M EXCEPT ![a + size + 1] = Footer] EXCEPT ![a] = top]
  <2>4. q.mem = N
    BY <1>5 DEF TakenMem, whole, rest
  <2>5. /\ M \in [Cell -> Content] /\ M[d] = Header(rest, FREE, -1) /\ M[x - 1] = Footer
        /\ \A c \in Cell : c < d \/ c > x - 1 => M[c] = hp.mem[c]
    <3>1. d + rest + 1 \in Cell
      BY <2>2, <1>2
    <3> HIDE DEF d
    <3>2. /\ M \in [Cell -> Content] /\ M[d] = Header(rest, FREE, -1) /\ M[d + rest + 1] = Footer
          /\ \A c \in Cell : c < d \/ c > d + rest + 1 => M[c] = hp.mem[c]
      BY <2>2, <3>1, FreeMem
    <3> QED BY <2>2, <3>2
  <2> HIDE DEF M
  <2>6. top \in Content /\ Footer \in Content
    <3>1. MOVABLE \in {FREE, MOVABLE, LOCKED}
      OBVIOUS
    <3> QED BY <3>1, HeaderIs, ContentIs
  <2> HIDE DEF top
  <2>7. N \in [Cell -> Content] /\ N[a] = top /\ N[a + size + 1] = Footer
        /\ \A c \in Cell : c # a /\ c # a + size + 1 => N[c] = M[c]
    <3>1. a # a + size + 1
      BY <1>2
    <3> QED BY <3>1, <2>3, <2>5, <2>6, <1>2
  <2> HIDE DEF N
  <2>8. N[d] = Header(rest, FREE, -1) /\ N[x - 1] = Footer
    <3>1. d # a /\ d # a + size + 1 /\ x - 1 # a /\ x - 1 # a + size + 1
      BY <2>2, <1>2
    <3> QED BY <3>1, <2>3, <2>5, <2>7, <1>2
  <2>9. ASSUME NEW c \in Cell, c < a \/ c >= x PROVE N[c] = hp.mem[c]
    <3>1. c \in Int /\ x > a + size + 2
      BY <2>2, <1>2, <1>4
    <3>2. c # a /\ c # a + size + 1 /\ (c < d \/ c > x - 1)
      BY <3>1, <2>9, <1>2
    <3> QED BY <3>2, <2>5, <2>7
  <2> QED BY <2>1, <2>2, <2>4, <2>7, <2>8, <2>9, <1>5 DEF Occupied, x, whole, rest, top
<1>6. CASE ~ Splits(hp, a, size)
  <2> DEFINE top == Header(whole, MOVABLE, h)
             N == [hp.mem EXCEPT ![a] = top]
  <2>1. q.mem = N /\ Taken(hp, a, size) = whole
    BY <1>6 DEF TakenMem, Taken, whole
  <2>2. top \in Content
    <3>1. MOVABLE \in {FREE, MOVABLE, LOCKED}
      OBVIOUS
    <3> QED BY <3>1, <1>2, HeaderIs
  <2> HIDE DEF top
  <2>3. N \in [Cell -> Content] /\ N[a] = top /\ \A c \in Cell : c # a => N[c] = hp.mem[c]
    BY <2>2, <1>2
  <2> HIDE DEF N
  <2>4. a + whole + 1 = x - 1 /\ x - 1 # a
    BY <1>2
  <2>5. ASSUME NEW c \in Cell, c < a \/ c >= x PROVE c # a
    BY <2>5, <1>2, <1>4
  <2> QED BY <2>1, <2>3, <2>4, <2>5, <1>2, <1>3, <1>6 DEF Occupied, x, whole, top
<1> QED BY <1>5, <1>6

\* After Take the heap is in order, with the block bound to the handle.
LEMMA TakeIs ==
  ASSUME NEW hp, NEW ask, NEW fil, NEW B, Good(hp, ask, fil, B, {}), NEW a \in FreeOnes(hp, B),
         NEW size \in Nat \ {0}, size <= SizeAt(hp, a),
         NEW h \in DOMAIN hp.handles, h \in Handle, hp.handles[h].state = INVALID
  PROVE  LET q == Take(hp, a, size, h) IN
         /\ Good(q, [ask EXCEPT ![h] = size], fil, WithRest(hp, B, a, Taken(hp, a, size)), {})
         /\ q.handles[h] = [state |-> MOVABLE, data |-> a] /\ q.system = hp.system
         /\ DOMAIN q.handles = DOMAIN hp.handles
         /\ \A g \in DOMAIN hp.handles : g # h => q.handles[g] = hp.handles[g]
         /\ \A b \in B : b # a => Intact(hp, q, b)
<1> DEFINE q == Take(hp, a, size, h)
           used == Taken(hp, a, size)
           C == WithRest(hp, B, a, used)
           new == [ask EXCEPT ![h] = size]
           v == [state |-> MOVABLE, data |-> a]
<1>0. /\ hp \in HeapT /\ Tiled(hp, B) /\ Owners(hp, ask, B, {}) /\ Asked(hp, ask)
      /\ Tallies(hp, B, {}) /\ Kept(hp, ask, fil) /\ Systems(hp)
      /\ hp.mem \in [Cell -> Content] /\ hp.handles \in HandlesT
  BY DEF Good, HeapT
<1>1. a \in B /\ StateAt(hp, a) = FREE /\ SizeAt(hp, a) \in Nat /\ a \in Nat
  BY <1>0, BlockFacts DEF FreeOnes
<1>2. /\ q = [f \in DOMAIN hp |-> q[f]]
      /\ q.mem = TakenMem(hp, a, size, h)
      /\ q.handles = [hp.handles EXCEPT ![h] = v]
      /\ q.size = hp.size /\ q.system = hp.system
      /\ q.systemBlocks = hp.systemBlocks /\ q.systemSize = hp.systemSize
      /\ q.lockedBlocks = hp.lockedBlocks /\ q.lockedSize = hp.lockedSize
      /\ q.moveableBlocks = hp.moveableBlocks + 1
      /\ q.moveableSize = hp.moveableSize + used
      /\ q.freeBlocks = IF Splits(hp, a, size) THEN hp.freeBlocks ELSE hp.freeBlocks - 1
      /\ q.freeSize = hp.freeSize - (IF Splits(hp, a, size) THEN used + 2 ELSE used)
  BY <1>0, <1>1, TakeUnfolds
<1> HIDE DEF q
<1>3. h \in Nat
  BY DEF Handle
<1>4. /\ Occupied(hp, q, a, used, h)
      /\ used = SizeAt(hp, a) <=> ~ Splits(hp, a, size)
  BY <1>0, <1>2, <1>3, TakeOccupies
<1>5. used \in Nat /\ size <= used
  <2>1. used = size \/ used = SizeAt(hp, a)
    BY DEF Taken
  <2> QED BY <2>1, <1>1
<1>6. /\ Tiled(q, C) /\ B \subseteq C
      /\ Cardinality(C) = Cardinality(B) + (IF used = SizeAt(hp, a) THEN 0 ELSE 1)
      /\ \A b \in B : b # a => Intact(hp, q, b)
      /\ \A c \in C \ B : a < c /\ c < After(hp, a) /\ StateAt(q, c) = FREE
      /\ StateAt(q, a) = MOVABLE /\ SizeAt(q, a) = used /\ q.mem[a].handle_index = h
  <2>1. Occupied(hp, q, a, used, h) /\ Tiled(hp, B)
    BY <1>0, <1>4
  <2> HIDE DEF used, C
  <2> QED BY <2>1, OccupiedTiles DEF C
<1> HIDE DEF used, C
<1>7. /\ q.handles \in HandlesT /\ DOMAIN q.handles = DOMAIN hp.handles /\ q.handles[h] = v
      /\ \A g \in DOMAIN hp.handles : g # h => q.handles[g] = hp.handles[g]
  <2>1. v \in HandleT
    BY <1>1, HandleFacts
  <2> HIDE DEF v
  <2> QED BY <2>1, <1>0, <1>2, HandleSet
<1>8. /\ hp.size \in Nat /\ hp.system \in [Handle -> Nat]
      /\ hp.freeBlocks \in Int /\ hp.moveableBlocks \in Int /\ hp.lockedBlocks \in Int
      /\ hp.systemBlocks \in Int /\ hp.freeSize \in Int /\ hp.moveableSize \in Int
      /\ hp.lockedSize \in Int /\ hp.systemSize \in Int
  BY <1>0 DEF HeapT
<1>9. q \in HeapT
  <2>1. /\ q.freeBlocks \in Int /\ q.freeSize \in Int /\ q.moveableBlocks \in Int
        /\ q.moveableSize \in Int
    BY <1>2, <1>5, <1>8
  <2>2. q.mem \in [Cell -> Content]
    BY <1>4 DEF Occupied
  <2> QED BY <2>1, <2>2, <1>0, <1>2, <1>7, <1>8, HeapAgain
<1>10. /\ ask \in [Handle -> Nat] /\ ask[h] = 0 /\ new \in [Handle -> Nat] /\ new[h] = size
       /\ \A g : g # h => new[g] = ask[g]
  <2>1. ask \in [Handle -> Nat] /\ ask[h] = 0
    BY <1>0 DEF Asked
  <2>2. \A g : g # h => new[g] = ask[g]
    BY <2>1
  <2> QED BY <2>1, <2>2
<1> HIDE DEF new, v
<1>11. v.state = MOVABLE /\ v.data = a /\ MOVABLE # INVALID
  BY DEF v, MOVABLE, INVALID
<1>12. Others(hp, B, {}, h) = Live(hp, B, {}) /\ ~ BoundTo(hp, h) /\ BoundTo(q, h)
       /\ OwnedBy(q, h) = {a}
  <2>1. ~ BoundTo(hp, h)
    BY DEF BoundTo, INVALID, MOVABLE, LOCKED
  <2>2. \A b \in Live(hp, B, {}) : hp.mem[b].handle_index # h
    BY <2>1, <1>0 DEF Owners
  <2> QED BY <2>1, <2>2, <1>7, <1>11 DEF Others, BoundTo, OwnedBy
<1>13. Beside(hp, q, B, C, {}, {}, h, ask, new)
  <2>1. Live(q, C, {}) = Live(hp, B, {}) \cup {a}
    <3>1. ASSUME NEW b \in Live(q, C, {}) PROVE b \in Live(hp, B, {}) \cup {a}
      <4>1. b \in B /\ StateAt(q, b) # FREE
        BY <1>6 DEF Live
      <4> QED BY <4>1, <1>6 DEF Live, Intact
    <3>2. ASSUME NEW b \in Live(hp, B, {}) \cup {a} PROVE b \in Live(q, C, {})
      <4>1. CASE b = a
        BY <4>1, <1>1, <1>6 DEF Live, MOVABLE, FREE
      <4>2. CASE b # a
        BY <4>2, <3>2, <1>6 DEF Live, Intact
      <4> QED BY <4>1, <4>2
    <3> QED BY <3>1, <3>2
  <2>2. \A b \in Live(hp, B, {}) : b \in B /\ b # a
    BY <1>1 DEF Live
  <2> QED BY <2>1, <2>2, <1>5, <1>6, <1>7, <1>10, <1>11, <1>12 DEF Beside
<1>14. Owners(q, new, C, {})
  BY <1>0, <1>13, OwnersBeside
<1>15. Kept(q, new, fil)
  <2>1. h \notin fil /\ \A g \in fil : g \in Handle /\ new[g] # 0
    BY <1>0, <1>10 DEF Kept
  <2> QED BY <2>1, <1>0, <1>13, KeptBeside
<1>16. Asked(q, new)
  BY <1>0, <1>7, <1>10, <1>11 DEF Asked
<1>17. Systems(q)
  <2>1. SystemOnes(q) = SystemOnes(hp)
    <3>1. \A g \in DOMAIN hp.handles : IsSystem(q.handles[g].state) <=> IsSystem(hp.handles[g].state)
      BY <1>7, <1>11 DEF IsSystem, SYSTEM, LOCKED, INVALID, MOVABLE
    <3> QED BY <3>1, <1>7 DEF SystemOnes
  <2> QED BY <2>1, <1>0, <1>2 DEF Systems
<1>18. Tallies(q, C, {})
  <2>1. Tally(q, InState(q, C, {}, MOVABLE),
              hp.moveableBlocks - One(hp, h, MOVABLE) + One(q, h, MOVABLE),
              hp.moveableSize - Size(hp, h, MOVABLE) + Size(q, h, MOVABLE))
    BY <1>0, <1>8, <1>13, TallyBeside DEF Tallies
  <2>2. Tally(q, InState(q, C, {}, LOCKED),
              hp.lockedBlocks - One(hp, h, LOCKED) + One(q, h, LOCKED),
              hp.lockedSize - Size(hp, h, LOCKED) + Size(q, h, LOCKED))
    BY <1>0, <1>8, <1>13, TallyBeside DEF Tallies
  <2>3. /\ One(hp, h, MOVABLE) = 0 /\ One(hp, h, LOCKED) = 0 /\ One(q, h, MOVABLE) = 1
        /\ One(q, h, LOCKED) = 0 /\ Size(hp, h, MOVABLE) = 0 /\ Size(hp, h, LOCKED) = 0
        /\ Size(q, h, MOVABLE) = used /\ Size(q, h, LOCKED) = 0
    BY <1>6, <1>7, <1>11 DEF One, Size, INVALID, MOVABLE, LOCKED
  <2>4. Tally(q, InState(q, C, {}, MOVABLE), q.moveableBlocks, q.moveableSize)
    BY <2>1, <2>3, <1>2, <1>5, <1>8
  <2>5. Tally(q, InState(q, C, {}, LOCKED), q.lockedBlocks, q.lockedSize)
    BY <2>2, <2>3, <1>2, <1>8
  <2>6. Count(hp) = Cardinality(B) /\ Cardinality(B) \in Nat
        /\ hp.freeSize + hp.moveableSize + hp.lockedSize + 2 * Cardinality(B) = hp.size
    BY <1>0, BlocksFinite DEF Tallies
  <2>9. \/ /\ q.freeBlocks = hp.freeBlocks - 1 /\ q.freeSize = hp.freeSize - used
           /\ Cardinality(C) = Cardinality(B)
        \/ /\ q.freeBlocks = hp.freeBlocks /\ q.freeSize = hp.freeSize - (used + 2)
           /\ Cardinality(C) = Cardinality(B) + 1
    <3>1. CASE Splits(hp, a, size)
      <4>1. Cardinality(C) = Cardinality(B) + 1
        BY <3>1, <1>4, <1>6
      <4> QED BY <3>1, <4>1, <1>2
    <3>2. CASE ~ Splits(hp, a, size)
      <4>1. Cardinality(C) = Cardinality(B)
        BY <2>6, <3>2, <1>4, <1>6
      <4> QED BY <3>2, <4>1, <1>2
    <3> QED BY <3>1, <3>2
  <2>10. q.moveableBlocks = hp.moveableBlocks + 1 /\ q.moveableSize = hp.moveableSize + used
         /\ q.lockedBlocks = hp.lockedBlocks /\ q.lockedSize = hp.lockedSize /\ q.size = hp.size
    BY <1>2
  <2>7. Count(q) = Cardinality(C)
    BY <2>6, <2>9, <2>10, <1>8 DEF Count
  <2>8. q.freeSize + q.moveableSize + q.lockedSize + 2 * Cardinality(C) = q.size
    BY <2>6, <2>9, <2>10, <1>5, <1>8
  <2> QED BY <2>4, <2>5, <2>7, <2>8 DEF Tallies
<1>19. Good(q, new, fil, C, {})
  BY <1>6, <1>9, <1>14, <1>15, <1>16, <1>17, <1>18 DEF Good
<1> QED BY <1>2, <1>6, <1>7, <1>19 DEF q, C, used, new, v

-----------------------------------------------------------------------------
\* An operation on one handle keeps the heap in order.

\* The counters follow the block of g; the blocks are as many as before.
Counted(hp, q, g) ==
  /\ q.moveableBlocks = hp.moveableBlocks - One(hp, g, MOVABLE) + One(q, g, MOVABLE)
  /\ q.moveableSize = hp.moveableSize - Size(hp, g, MOVABLE) + Size(q, g, MOVABLE)
  /\ q.lockedBlocks = hp.lockedBlocks - One(hp, g, LOCKED) + One(q, g, LOCKED)
  /\ q.lockedSize = hp.lockedSize - Size(hp, g, LOCKED) + Size(q, g, LOCKED)
  /\ Count(q) = Count(hp) /\ q.size = hp.size
  /\ q.freeSize + q.moveableSize + q.lockedSize
       = hp.freeSize + hp.moveableSize + hp.lockedSize

\* The written blocks, when those of "full" are.
Written(q, g, new, fil, full) ==
  /\ full \subseteq fil \cup {g} /\ \A h \in full : h \in Handle /\ new[h] # 0
  /\ g \in full /\ BoundTo(q, g) =>
       \A c \in q.handles[g].data + 1 .. q.handles[g].data + new[g] : q.mem[c] = DataOf(g)

\* If everything beside one handle is as before, and its own part is in order,
\* the heap is.
LEMMA GoodBeside ==
  ASSUME NEW hp, NEW q, NEW B, NEW R, NEW g, NEW ask, NEW new, NEW fil, NEW full,
         Good(hp, ask, fil, B, {}), q \in HeapT, Tiled(q, B),
         Beside(hp, q, B, B, {}, R, g, ask, new), Counted(hp, q, g),
         Written(q, g, new, fil, full), Asked(q, new), Systems(q)
  PROVE  Good(q, new, full, B, R)
<1>1. /\ hp \in HeapT /\ Tiled(hp, B) /\ Owners(hp, ask, B, {}) /\ Asked(hp, ask)
      /\ Tallies(hp, B, {}) /\ Kept(hp, ask, fil)
  BY DEF Good
<1>2. Owners(q, new, B, R)
  BY <1>1, OwnersBeside
<1>3. Kept(q, new, full)
  <2>1. /\ full \subseteq fil \cup {g} /\ \A h \in full : h \in Handle /\ new[h] # 0
        /\ g \in full /\ BoundTo(q, g) =>
             \A c \in q.handles[g].data + 1 .. q.handles[g].data + new[g] : q.mem[c] = DataOf(g)
    BY DEF Written
  <2> QED BY <2>1, <1>1, KeptBeside
<1>4. hp.moveableBlocks \in Int /\ hp.moveableSize \in Int /\ hp.lockedBlocks \in Int
      /\ hp.lockedSize \in Int
  BY <1>1 DEF HeapT
<1>5. Tally(q, InState(q, B, R, MOVABLE), q.moveableBlocks, q.moveableSize)
  <2>1. Tally(q, InState(q, B, R, MOVABLE),
              hp.moveableBlocks - One(hp, g, MOVABLE) + One(q, g, MOVABLE),
              hp.moveableSize - Size(hp, g, MOVABLE) + Size(q, g, MOVABLE))
    BY <1>1, <1>4, TallyBeside DEF Tallies
  <2> QED BY <2>1 DEF Counted
<1>6. Tally(q, InState(q, B, R, LOCKED), q.lockedBlocks, q.lockedSize)
  <2>1. Tally(q, InState(q, B, R, LOCKED),
              hp.lockedBlocks - One(hp, g, LOCKED) + One(q, g, LOCKED),
              hp.lockedSize - Size(hp, g, LOCKED) + Size(q, g, LOCKED))
    BY <1>1, <1>4, TallyBeside DEF Tallies
  <2> QED BY <2>1 DEF Counted
<1>7. Tallies(q, B, R)
  BY <1>1, <1>5, <1>6 DEF Tallies, Counted
<1> QED BY <1>1, <1>2, <1>3, <1>7 DEF Good

\* The blocks of the system.

\* The system's blocks are the same when no handle becomes or ceases to be one's.
LEMMA SystemsSame ==
  ASSUME NEW hp, NEW q, Systems(hp), SystemOnes(q) = SystemOnes(hp), q.system = hp.system,
         q.systemBlocks = hp.systemBlocks, q.systemSize = hp.systemSize
  PROVE  Systems(q)
BY DEF Systems

\* One more is accounted for,
LEMMA SystemsAdd ==
  ASSUME NEW hp \in HeapT, NEW q, Systems(hp), NEW g \in Handle \ SystemOnes(hp),
         SystemOnes(hp) \subseteq Handle, SystemOnes(q) = SystemOnes(hp) \cup {g},
         NEW size \in Nat, q.system = [hp.system EXCEPT ![g] = size],
         q.systemBlocks = hp.systemBlocks + 1, q.systemSize = hp.systemSize + size
  PROVE  Systems(q)
<1> DEFINE T == SystemOnes(hp)
           v == [h \in T |-> hp.system[h]]
           w == [h \in T \cup {g} |-> q.system[h]]
<1>1. hp.system \in [Handle -> Nat] /\ hp.systemBlocks \in Int
  BY DEF HeapT
<1>2. /\ \A h \in T : v[h] = w[h] /\ w[h] \in Int
      /\ w[g] = size /\ w[g] \in Int
  BY <1>1
<1>3. IsFiniteSet(T) /\ Cardinality(T) = hp.systemBlocks /\ SumFunctionOnSet(v, T) = hp.systemSize
  BY DEF Systems
<1> HIDE DEF T, v, w
<1>4. SumFunctionOnSet(w, T \cup {g}) = SumFunctionOnSet(w, T) + w[g]
  BY <1>2, <1>3, SumAdd DEF T
<1>5. SumFunctionOnSet(v, T) = SumFunctionOnSet(w, T)
  BY <1>2, <1>3, SumSame
<1>6. IsFiniteSet(T \cup {g}) /\ Cardinality(T \cup {g}) = Cardinality(T) + 1
  BY <1>3, FS_AddElement DEF T
<1> QED BY <1>2, <1>3, <1>4, <1>5, <1>6 DEF Systems, T, w

\* and one less.
LEMMA SystemsRemove ==
  ASSUME NEW hp \in HeapT, NEW q, Systems(hp), NEW g \in SystemOnes(hp),
         SystemOnes(hp) \subseteq Handle, SystemOnes(q) = SystemOnes(hp) \ {g},
         q.system = [hp.system EXCEPT ![g] = 0],
         q.systemBlocks = hp.systemBlocks - 1, q.systemSize = hp.systemSize - hp.system[g]
  PROVE  Systems(q)
<1> DEFINE T == SystemOnes(hp)
           U == T \ {g}
           v == [h \in U |-> q.system[h]]
           w == [h \in T |-> hp.system[h]]
<1>1. hp.system \in [Handle -> Nat] /\ hp.systemBlocks \in Int
  BY DEF HeapT
<1>2. /\ \A h \in U : v[h] = w[h] /\ w[h] \in Int
      /\ w[g] = hp.system[g] /\ w[g] \in Int
  BY <1>1
<1>3. IsFiniteSet(T) /\ Cardinality(T) = hp.systemBlocks /\ SumFunctionOnSet(w, T) = hp.systemSize
  BY DEF Systems
<1>4. T = U \cup {g} /\ g \notin U
  OBVIOUS
<1>5. IsFiniteSet(U) /\ Cardinality(U) = Cardinality(T) - 1
  BY <1>3, FS_RemoveElement
<1> HIDE DEF T, U, v, w
<1>6. SumFunctionOnSet(w, U \cup {g}) = SumFunctionOnSet(w, U) + w[g] /\ SumFunctionOnSet(w, U) \in Int
  BY <1>2, <1>4, <1>5, SumAdd
<1>7. SumFunctionOnSet(v, U) = SumFunctionOnSet(w, U)
  BY <1>2, <1>5, SumSame
<1>8. SumFunctionOnSet(v, U) = hp.systemSize - hp.system[g]
  BY <1>2, <1>3, <1>4, <1>6, <1>7
<1> QED BY <1>3, <1>5, <1>8 DEF Systems, T, U, v

-----------------------------------------------------------------------------
\* heap_lock and heap_unlock of a block in the heap.

MarkedMem(hp, a, state) == [hp.mem EXCEPT ![a].state = state]

\* The block of h changes its state.
Marked(hp, q, h, state) ==
  /\ q = [f \in DOMAIN hp |-> q[f]]
  /\ q.mem = MarkedMem(hp, hp.handles[h].data, state)
  /\ q.handles = [hp.handles EXCEPT ![h].state = state]
  /\ q.size = hp.size /\ q.system = hp.system
  /\ q.systemBlocks = hp.systemBlocks /\ q.systemSize = hp.systemSize
  /\ q.freeBlocks = hp.freeBlocks /\ q.freeSize = hp.freeSize

\* What is left of one changed header.
LEMMA MarkTiles ==
  ASSUME NEW hp, hp.mem \in [Cell -> Content], NEW B, Tiled(hp, B), NEW a \in B,
         NEW state \in {MOVABLE, LOCKED}, NEW q, q.size = hp.size,
         q.mem = MarkedMem(hp, a, state)
  PROVE  /\ q.mem \in [Cell -> Content] /\ Tiled(q, B)
         /\ StateAt(q, a) = state /\ SizeAt(q, a) = SizeAt(hp, a)
         /\ q.mem[a].handle_index = hp.mem[a].handle_index
         /\ \A b \in B : b # a => Intact(hp, q, b)
         /\ \A c \in Cell : c # a => q.mem[c] = hp.mem[c]
<1> DEFINE v == [hp.mem[a] EXCEPT !.state = state]
<1>1. a \in Cell /\ hp.mem[a] \in HeaderT
  BY DEF Tiled
<1>2. v \in HeaderT /\ v.state = state /\ v.size = hp.mem[a].size
      /\ v.handle_index = hp.mem[a].handle_index
  BY <1>1 DEF HeaderT
<1>3. q.mem = [hp.mem EXCEPT ![a] = v] /\ v \in Content
  BY <1>1, <1>2 DEF Content, MarkedMem
<1> HIDE DEF v
<1>4. q.mem \in [Cell -> Content] /\ q.mem[a] = v /\ \A c \in Cell : c # a => q.mem[c] = hp.mem[c]
  BY <1>1, <1>3
<1>5. \A b \in B : /\ b \in Nat /\ b \in Cell /\ After(hp, b) \in Nat /\ b < After(hp, b) - 1
                   /\ After(hp, b) = b + SizeAt(hp, b) + 2 /\ After(hp, b) - 1 \in Cell
  <2>1. \A b \in B : /\ b \in Nat /\ b \in Cell /\ After(hp, b) \in Nat /\ SizeAt(hp, b) \in Nat
                     /\ After(hp, b) = b + SizeAt(hp, b) + 2 /\ After(hp, b) - 1 \in Cell
    BY BlockFacts
  <2> QED BY <2>1
<1>6. \A b \in B : SizeAt(q, b) = SizeAt(hp, b) /\ After(q, b) = After(hp, b)
  <2>1. \A b \in B : SizeAt(q, b) = SizeAt(hp, b)
    BY <1>2, <1>4, <1>5 DEF SizeAt
  <2> QED BY <2>1 DEF After
<1>7. /\ B \in SUBSET Cell /\ 0 \in B /\ hp.size \in Nat /\ hp.size <= HeapSize
      /\ \A b, c \in B : b < c => After(hp, b) <= c
      /\ \A b \in B : /\ After(hp, b) \in B \cup {hp.size} /\ After(hp, b) <= hp.size
                      /\ hp.mem[After(hp, b) - 1] = Footer /\ hp.mem[b] \in HeaderT
  BY DEF Tiled
<1>8. \A b \in B : After(hp, b) - 1 # a
  <2> SUFFICES ASSUME NEW b \in B, After(hp, b) - 1 = a PROVE FALSE
    OBVIOUS
  <2>1. b < a
    BY <1>5
  <2>2. After(hp, b) <= a
    BY <2>1, <1>7
  <2> QED BY <2>2, <1>5
<1>9. \A b \in B : q.mem[b] \in HeaderT /\ q.mem[After(hp, b) - 1] = Footer
  BY <1>2, <1>4, <1>5, <1>7, <1>8
<1>10. Tiled(q, B)
  BY <1>6, <1>7, <1>9 DEF Tiled
<1>11. ASSUME NEW b \in B, b # a PROVE Intact(hp, q, b)
  <2>1. ASSUME NEW c \in b .. After(hp, b) - 1 PROVE c \in Cell /\ c # a
    <3>1. c \in Cell
      BY <1>5, HeapSizeIs DEF Cell
    <3>2. c # a
      <4>1. CASE a < b
        BY <4>1, <1>5
      <4>2. CASE b < a
        <5>1. After(hp, b) <= a
          BY <4>2, <1>7
        <5> QED BY <5>1, <1>5
      <4> QED BY <4>1, <4>2, <1>5, <1>11
    <3> QED BY <3>1, <3>2
  <2>2. \A c \in b .. After(hp, b) - 1 : q.mem[c] = hp.mem[c]
    BY <2>1, <1>4
  <2>3. q.mem[b] = hp.mem[b]
    BY <1>4, <1>5, <1>11
  <2> QED BY <2>2, <2>3, <1>6, <1>9 DEF Intact, StateAt
<1> QED BY <1>2, <1>4, <1>10, <1>11 DEF StateAt, SizeAt

\* It keeps the heap in order.
LEMMA MarkedGood ==
  ASSUME NEW hp, NEW ask, NEW fil, NEW B, Good(hp, ask, fil, B, {}),
         NEW h \in DOMAIN hp.handles, BoundTo(hp, h), NEW state \in {MOVABLE, LOCKED},
         NEW q, Marked(hp, q, h, state), Counted(hp, q, h)
  PROVE  /\ Good(q, ask, fil, B, {})
         /\ hp.handles[h].data \in B /\ SizeAt(q, hp.handles[h].data) = SizeAt(hp, hp.handles[h].data)
         /\ DOMAIN q.handles = DOMAIN hp.handles
         /\ q.handles[h].state = state /\ q.handles[h].data = hp.handles[h].data
         /\ \A g \in DOMAIN hp.handles : g # h => q.handles[g] = hp.handles[g]
         /\ \A b \in B : b # hp.handles[h].data => Intact(hp, q, b)
<1> DEFINE a == hp.handles[h].data
<1>0. /\ hp \in HeapT /\ Tiled(hp, B) /\ Owners(hp, ask, B, {}) /\ Asked(hp, ask)
      /\ Kept(hp, ask, fil) /\ Systems(hp) /\ hp.mem \in [Cell -> Content]
      /\ hp.handles \in HandlesT
  BY DEF Good, HeapT
<1>1. /\ a \in Live(hp, B, {}) /\ StateAt(hp, a) = hp.handles[h].state
      /\ hp.mem[a].handle_index = h /\ ask[h] <= SizeAt(hp, a)
  BY <1>0 DEF Owners
<1>2. a \in B
  BY <1>1 DEF Live
<1>3. /\ q = [f \in DOMAIN hp |-> q[f]]
      /\ q.mem = MarkedMem(hp, a, state)
      /\ q.handles = [hp.handles EXCEPT ![h].state = state]
      /\ q.size = hp.size /\ q.system = hp.system
      /\ q.systemBlocks = hp.systemBlocks /\ q.systemSize = hp.systemSize
      /\ q.freeBlocks = hp.freeBlocks /\ q.freeSize = hp.freeSize
  BY DEF Marked
<1> HIDE DEF a
<1>4. /\ q.mem \in [Cell -> Content] /\ Tiled(q, B)
      /\ StateAt(q, a) = state /\ SizeAt(q, a) = SizeAt(hp, a)
      /\ q.mem[a].handle_index = h
      /\ \A b \in B : b # a => Intact(hp, q, b)
  <2>1. /\ q.mem \in [Cell -> Content] /\ Tiled(q, B)
        /\ StateAt(q, a) = state /\ SizeAt(q, a) = SizeAt(hp, a)
        /\ q.mem[a].handle_index = hp.mem[a].handle_index
        /\ \A b \in B : b # a => Intact(hp, q, b)
        /\ \A c \in Cell : c # a => q.mem[c] = hp.mem[c]
    <3>1. q.size = hp.size /\ q.mem = MarkedMem(hp, a, state)
          /\ Tiled(hp, B) /\ hp.mem \in [Cell -> Content]
      BY <1>0, <1>3
    <3> QED BY <3>1, <1>2, MarkTiles
  <2> QED BY <2>1, <1>1
<1>5. /\ q.handles \in HandlesT /\ DOMAIN q.handles = DOMAIN hp.handles
      /\ q.handles[h].state = state /\ q.handles[h].data = a
      /\ \A g \in DOMAIN hp.handles : g # h => q.handles[g] = hp.handles[g]
  <2> DEFINE v == [hp.handles[h] EXCEPT !.state = state]
  <2>1. hp.handles[h] \in HandleT
    BY <1>0 DEF HandlesT
  <2>2. v \in HandleT /\ v.state = state /\ v.data = a
    BY <2>1 DEF HandleT, a
  <2>3. q.handles = [hp.handles EXCEPT ![h] = v]
    BY <1>3
  <2> HIDE DEF v
  <2> QED BY <2>2, <2>3, <1>0, HandleSet
<1>6. SizeAt(hp, a) \in Nat
  BY <1>0, <1>2, BlockFacts
<1>7. /\ hp.size \in Nat /\ hp.system \in [Handle -> Nat]
      /\ hp.freeBlocks \in Int /\ hp.moveableBlocks \in Int /\ hp.lockedBlocks \in Int
      /\ hp.systemBlocks \in Int /\ hp.freeSize \in Int /\ hp.moveableSize \in Int
      /\ hp.lockedSize \in Int /\ hp.systemSize \in Int
  BY <1>0 DEF HeapT
<1>8. q \in HeapT
  <2>1. /\ \A s \in {MOVABLE, LOCKED} :
             /\ One(hp, h, s) \in Int /\ One(q, h, s) \in Int
             /\ Size(hp, h, s) \in Int /\ Size(q, h, s) \in Int
    BY <1>4, <1>5, <1>6 DEF One, Size, a
  <2>2. /\ q.moveableBlocks \in Int /\ q.moveableSize \in Int
        /\ q.lockedBlocks \in Int /\ q.lockedSize \in Int
    BY <2>1, <1>7 DEF Counted
  <2> QED BY <2>2, <1>0, <1>3, <1>4, <1>5, <1>7, HeapAgain
<1>9. state # FREE /\ BoundTo(q, h) /\ OwnedBy(q, h) = {a}
  <2>1. state # FREE
    BY DEF MOVABLE, LOCKED, FREE
  <2> QED BY <2>1, <1>5 DEF BoundTo, OwnedBy
<1>10. Live(q, B, {}) = Others(hp, B, {}, h) \cup {a}
  <2>1. ASSUME NEW b \in B, b # a PROVE b \in Live(q, B, {}) <=> b \in Others(hp, B, {}, h)
    <3>1. Intact(hp, q, b)
      BY <2>1, <1>4
    <3>2. b \in Live(hp, B, {}) => hp.mem[b].handle_index # h
      <4>1. b \in Live(hp, B, {}) => hp.handles[hp.mem[b].handle_index].data = b
        BY <1>0 DEF Owners
      <4> QED BY <4>1, <2>1 DEF a
    <3>3. b \in Live(q, B, {}) <=> b \in Live(hp, B, {})
      BY <3>1 DEF Intact, Live
    <3> QED BY <3>2, <3>3 DEF Others
  <2>2. a \in Live(q, B, {})
    BY <1>2, <1>4, <1>9 DEF Live
  <2>3. Live(q, B, {}) \subseteq B /\ Others(hp, B, {}, h) \subseteq B
    BY DEF Live, Others
  <2>4. a \notin Others(hp, B, {}, h)
    BY <1>1 DEF Others
  <2> QED BY <2>1, <2>2, <2>3, <2>4, <1>2
<1>11. Beside(hp, q, B, B, {}, {}, h, ask, ask)
  <2>1. \A b \in Others(hp, B, {}, h) : b \in B /\ b # a
    BY <1>1 DEF Others, Live
  <2>2. \A b \in Others(hp, B, {}, h) : Intact(hp, q, b)
    BY <2>1, <1>4
  <2>3. h \in DOMAIN hp.handles /\ SizeAt(q, a) \in Int /\ ask[h] <= SizeAt(q, a)
    BY <1>1, <1>4, <1>6
  <2> QED BY <2>2, <2>3, <1>4, <1>5, <1>9, <1>10 DEF Beside
<1>12. Written(q, h, ask, fil, fil)
  <2>1. fil \subseteq Handle /\ \A g \in fil : ask[g] # 0
    BY <1>0 DEF Kept
  <2>2. ASSUME h \in fil, NEW c \in a + 1 .. a + ask[h] PROVE q.mem[c] = DataOf(h)
    <3>1. hp.mem[c] = DataOf(h)
      BY <2>2, <1>0 DEF Kept, a
    <3>2. c # a /\ c \in Cell
      <4>1. a \in Nat /\ After(hp, a) - 1 \in Cell /\ After(hp, a) = a + SizeAt(hp, a) + 2
        BY <1>0, <1>2, BlockFacts
      <4>2. ask[h] \in Nat
        BY <1>0, <2>1, <2>2 DEF Asked
      <4>3. HeapSize \in Nat /\ Cell = 0 .. HeapSize - 1
        BY HeapSizeIs DEF Cell
      <4> QED BY <4>1, <4>2, <4>3, <1>1, <1>6
    <3>3. q.mem[c] = hp.mem[c]
      BY <3>2, <1>0, <1>2, <1>3, MarkTiles
    <3> QED BY <3>1, <3>3
  <2> QED BY <2>1, <2>2, <1>5 DEF Written
<1>13. Asked(q, ask)
  <2>1. \A g \in DOMAIN hp.handles : q.handles[g].state # INVALID <=> hp.handles[g].state # INVALID
    <3>1. state # INVALID /\ hp.handles[h].state # INVALID
      BY DEF BoundTo, MOVABLE, LOCKED, INVALID
    <3> QED BY <3>1, <1>5
  <2> QED BY <2>1, <1>0, <1>5 DEF Asked
<1>14. Systems(q)
  <2>1. SystemOnes(q) = SystemOnes(hp)
    <3>1. \A g \in DOMAIN hp.handles : IsSystem(q.handles[g].state) <=> IsSystem(hp.handles[g].state)
      BY <1>5 DEF IsSystem, SYSTEM, LOCKED, INVALID, MOVABLE, BoundTo
    <3> QED BY <3>1, <1>5 DEF SystemOnes
  <2> QED BY <2>1, <1>0, <1>3, SystemsSame
<1>15. Good(q, ask, fil, B, {})
  BY <1>4, <1>8, <1>11, <1>12, <1>13, <1>14, GoodBeside
<1> QED BY <1>2, <1>4, <1>5, <1>15 DEF a

-----------------------------------------------------------------------------
\* A handle is set while the memory stays: what it was bound to, if anything,
\* is left behind.

Set(hp, q, g, ask, new) ==
  /\ q.mem = hp.mem /\ q.size = hp.size
  /\ g \in DOMAIN hp.handles /\ DOMAIN q.handles = DOMAIN hp.handles
  /\ \A h \in DOMAIN hp.handles : h # g => q.handles[h] = hp.handles[h] /\ new[h] = ask[h]
  /\ ~ BoundTo(q, g) /\ \A a \in OwnedBy(hp, g) : StateAt(hp, a) = MOVABLE

\* A handle that is not bound to a block of the heap may change.
LEMMA GoodSet ==
  ASSUME NEW hp, NEW q, NEW B, NEW g, NEW ask, NEW new, NEW fil, NEW full,
         Good(hp, ask, fil, B, {}), q \in HeapT, Set(hp, q, g, ask, new), Counted(hp, q, g),
         Written(q, g, new, fil, full), Asked(q, new), Systems(q)
  PROVE  Good(q, new, full, B, OwnedBy(hp, g))
<1> DEFINE R == OwnedBy(hp, g)
<1>0. Tiled(hp, B) /\ Owners(hp, ask, B, {}) /\ hp.mem \in [Cell -> Content]
  BY DEF Good, HeapT
<1>1. /\ q.mem = hp.mem /\ q.size = hp.size
      /\ g \in DOMAIN hp.handles /\ DOMAIN q.handles = DOMAIN hp.handles
      /\ \A h \in DOMAIN hp.handles : h # g => q.handles[h] = hp.handles[h] /\ new[h] = ask[h]
      /\ ~ BoundTo(q, g) /\ \A a \in R : StateAt(hp, a) = MOVABLE
  BY DEF Set
<1>2. \A b : SizeAt(q, b) = SizeAt(hp, b) /\ StateAt(q, b) = StateAt(hp, b)
             /\ After(q, b) = After(hp, b)
  BY <1>1 DEF SizeAt, StateAt, After
<1>3. Tiled(q, B)
  BY <1>0, <1>1, <1>2 DEF Tiled
<1>4. \A b \in B : Intact(hp, q, b)
  BY <1>0, <1>1, <1>2 DEF Intact, Tiled
<1>5. \A a \in R : a \in Live(hp, B, {}) /\ hp.mem[a].handle_index = g
  BY <1>0, <1>1 DEF OwnedBy, Owners
<1>6. R \subseteq B /\ OwnedBy(q, g) = {}
  BY <1>1, <1>5 DEF Live, OwnedBy
<1>7. Live(q, B, R) = Others(hp, B, {}, g)
  <2>1. Live(q, B, R) = {b \in Live(hp, B, {}) : b \notin R}
    BY <1>2 DEF Live
  <2>2. ASSUME NEW b \in Live(hp, B, {}) PROVE b \notin R <=> hp.mem[b].handle_index # g
    <3>1. hp.mem[b].handle_index = g => b \in R
      BY <1>0 DEF Owners, OwnedBy
    <3> QED BY <3>1, <1>5
  <2> QED BY <2>1, <2>2 DEF Others
<1> HIDE DEF R
<1>8. Beside(hp, q, B, B, {}, R, g, ask, new)
  <2>1. \A b \in Others(hp, B, {}, g) : b \in B
    BY DEF Others, Live
  <2> QED BY <2>1, <1>1, <1>2, <1>4, <1>6, <1>7 DEF Beside
<1> QED BY <1>3, <1>8, GoodBeside DEF R

-----------------------------------------------------------------------------
\* The blocks of the system: heap_allocate, heap_deallocate, heap_lock and
\* heap_unlock of those.

\* Only a handle and the counters of the system's blocks change.
Outside(hp, q, h, v) ==
  /\ q = [f \in DOMAIN hp |-> q[f]]
  /\ q.mem = hp.mem /\ q.size = hp.size
  /\ q.handles = [hp.handles EXCEPT ![h] = v]
  /\ q.freeBlocks = hp.freeBlocks /\ q.freeSize = hp.freeSize
  /\ q.moveableBlocks = hp.moveableBlocks /\ q.moveableSize = hp.moveableSize
  /\ q.lockedBlocks = hp.lockedBlocks /\ q.lockedSize = hp.lockedSize

Unbound(state) == state \notin {MOVABLE, LOCKED}

\* So may what the heap keeps of the system's blocks, with it.
LEMMA GoodOutside ==
  ASSUME NEW hp, NEW q, NEW B, NEW h \in DOMAIN hp.handles, NEW v \in HandleT,
         NEW ask, NEW new, NEW fil, NEW full,
         Good(hp, ask, fil, B, {}), Outside(hp, q, h, v),
         Unbound(hp.handles[h].state), Unbound(v.state),
         q.system \in [Handle -> Nat], q.systemBlocks \in Int, q.systemSize \in Int,
         \A g \in DOMAIN hp.handles : g # h => new[g] = ask[g],
         Written(q, h, new, fil, full), Asked(q, new), Systems(q)
  PROVE  Good(q, new, full, B, {})
<1>0. hp \in HeapT /\ hp.handles \in HandlesT
  BY DEF Good, HeapT
<1>1. /\ q = [f \in DOMAIN hp |-> q[f]]
      /\ q.mem = hp.mem /\ q.size = hp.size
      /\ q.handles = [hp.handles EXCEPT ![h] = v]
      /\ q.freeBlocks = hp.freeBlocks /\ q.freeSize = hp.freeSize
      /\ q.moveableBlocks = hp.moveableBlocks /\ q.moveableSize = hp.moveableSize
      /\ q.lockedBlocks = hp.lockedBlocks /\ q.lockedSize = hp.lockedSize
  BY DEF Outside
<1>2. /\ q.handles \in HandlesT /\ DOMAIN q.handles = DOMAIN hp.handles /\ q.handles[h] = v
      /\ \A g \in DOMAIN hp.handles : g # h => q.handles[g] = hp.handles[g]
  BY <1>0, <1>1, HandleSet
<1>3. /\ hp.size \in Nat /\ hp.mem \in [Cell -> Content]
      /\ hp.freeBlocks \in Int /\ hp.moveableBlocks \in Int /\ hp.lockedBlocks \in Int
      /\ hp.freeSize \in Int /\ hp.moveableSize \in Int /\ hp.lockedSize \in Int
  BY <1>0 DEF HeapT
<1>4. q \in HeapT
  BY <1>0, <1>1, <1>2, <1>3, HeapAgain
<1>5. OwnedBy(hp, h) = {} /\ ~ BoundTo(q, h)
  BY <1>2 DEF OwnedBy, BoundTo, Unbound
<1>6. Set(hp, q, h, ask, new)
  BY <1>1, <1>2, <1>5 DEF Set
<1>7. Counted(hp, q, h)
  <2>1. \A s \in {MOVABLE, LOCKED} : One(hp, h, s) = 0 /\ One(q, h, s) = 0
                                     /\ Size(hp, h, s) = 0 /\ Size(q, h, s) = 0
    BY <1>2 DEF One, Size, Unbound
  <2> QED BY <2>1, <1>1, <1>3 DEF Counted, Count
<1>8. Good(q, new, full, B, OwnedBy(hp, h))
  BY <1>4, <1>6, <1>7, GoodSet
<1> QED BY <1>5, <1>8

-----------------------------------------------------------------------------
\* The owner fills a block in the heap.

PaintedMem(hp, h, ask) ==
  [c \in Cell |-> IF c \in hp.handles[h].data + 1 .. hp.handles[h].data + ask[h]
                  THEN DataOf(h) ELSE hp.mem[c]]

\* Filling the block leaves the heap in order, and the data are there.
LEMMA PaintedGood ==
  ASSUME NEW hp, NEW ask, NEW fil, NEW B, Good(hp, ask, fil, B, {}),
         NEW h \in DOMAIN hp.handles, BoundTo(hp, h),
         NEW q, q = [hp EXCEPT !.mem = PaintedMem(hp, h, ask)]
  PROVE  /\ Good(q, ask, fil \cup {h}, B, {})
         /\ q.handles = hp.handles /\ \A b \in B : SizeAt(q, b) = SizeAt(hp, b)
<1> DEFINE a == hp.handles[h].data
           M == PaintedMem(hp, h, ask)
<1>0. /\ hp \in HeapT /\ Tiled(hp, B) /\ Owners(hp, ask, B, {}) /\ Asked(hp, ask)
      /\ Kept(hp, ask, fil) /\ Systems(hp) /\ hp.mem \in [Cell -> Content]
  BY DEF Good, HeapT
<1>1. /\ a \in Live(hp, B, {}) /\ StateAt(hp, a) = hp.handles[h].state
      /\ hp.mem[a].handle_index = h /\ ask[h] <= SizeAt(hp, a)
  BY <1>0 DEF Owners
<1>2. a \in B
  BY <1>1 DEF Live
<1>3. h \in Handle /\ ask[h] # 0 /\ ask[h] \in Nat /\ h \in Int
  <2>1. hp.handles[h].state # INVALID
    BY DEF BoundTo, MOVABLE, LOCKED, INVALID
  <2>2. h \in Handle /\ ask[h] # 0 /\ ask[h] \in Nat
    BY <2>1, <1>0 DEF Asked
  <2> QED BY <2>2 DEF Handle
<1>4. /\ \A c \in Cell : M[c] = IF c \in a + 1 .. a + ask[h] THEN DataOf(h) ELSE hp.mem[c]
      /\ M \in [Cell -> Content]
  <2>1. DataOf(h) \in Content
    BY <1>3, ContentIs
  <2> QED BY <2>1, <1>0 DEF PaintedMem
<1> HIDE DEF M, a
<1>5. /\ q = [f \in DOMAIN hp |-> q[f]] /\ q.mem = M /\ q \in HeapT
      /\ q.handles = hp.handles /\ q.size = hp.size
  BY <1>0, <1>4 DEF HeapT, M
<1>6. /\ q.system = hp.system
      /\ q.systemBlocks = hp.systemBlocks /\ q.systemSize = hp.systemSize
      /\ q.freeBlocks = hp.freeBlocks /\ q.freeSize = hp.freeSize
  BY <1>0 DEF HeapT
<1>7. /\ q.moveableBlocks = hp.moveableBlocks /\ q.moveableSize = hp.moveableSize
      /\ q.lockedBlocks = hp.lockedBlocks /\ q.lockedSize = hp.lockedSize
  BY <1>0 DEF HeapT
<1>8. \A b \in B : /\ b \in Nat /\ b \in Cell /\ After(hp, b) \in Nat /\ SizeAt(hp, b) \in Nat
                   /\ After(hp, b) = b + SizeAt(hp, b) + 2 /\ After(hp, b) - 1 \in Cell
  BY <1>0, BlockFacts
<1>9. /\ B \in SUBSET Cell /\ 0 \in B /\ hp.size \in Nat /\ hp.size <= HeapSize
      /\ \A b, c \in B : b < c => After(hp, b) <= c
      /\ \A b \in B : /\ After(hp, b) \in B \cup {hp.size} /\ After(hp, b) <= hp.size
                      /\ hp.mem[After(hp, b) - 1] = Footer /\ hp.mem[b] \in HeaderT
  BY <1>0 DEF Tiled

\* The cells that are filled are those of the block, and no others.
<1>10. ASSUME NEW c \in Cell, c \in a + 1 .. a + ask[h]
       PROVE  a < c /\ c < After(hp, a) - 1
  BY <1>1, <1>2, <1>3, <1>8, <1>10
<1>11. \A b \in B : q.mem[b] = hp.mem[b] /\ q.mem[After(hp, b) - 1] = Footer
  <2> SUFFICES ASSUME NEW b \in B
               PROVE  b \notin a + 1 .. a + ask[h] /\ After(hp, b) - 1 \notin a + 1 .. a + ask[h]
    BY <1>4, <1>5, <1>8, <1>9
  <2>1. ASSUME a < b, b < After(hp, a) PROVE FALSE
    BY <2>1, <1>2, <1>8, <1>9
  <2>2. ASSUME a < After(hp, b) - 1, After(hp, b) - 1 < After(hp, a) - 1 PROVE FALSE
    <3>1. CASE b < a
      <4>1. After(hp, b) <= a
        BY <3>1, <1>2, <1>9
      <4> QED BY <4>1, <2>2, <1>2, <1>8
    <3>2. CASE a < b
      BY <3>2, <2>2, <1>2, <1>8, <1>9
    <3> QED BY <3>1, <3>2, <2>2, <1>2, <1>8
  <2>3. a \in Nat /\ After(hp, a) \in Nat /\ b \in Nat /\ After(hp, b) - 1 \in Cell /\ b \in Cell
    BY <1>2, <1>8
  <2>4. b \notin a + 1 .. a + ask[h]
    BY <2>1, <2>3, <1>10
  <2>5. After(hp, b) - 1 \notin a + 1 .. a + ask[h]
    BY <2>2, <2>3, <1>10
  <2> QED BY <2>4, <2>5
<1>12. \A b \in B : SizeAt(q, b) = SizeAt(hp, b) /\ StateAt(q, b) = StateAt(hp, b)
                    /\ After(q, b) = After(hp, b)
  BY <1>11 DEF SizeAt, StateAt, After
<1>13. Tiled(q, B)
  BY <1>5, <1>9, <1>11, <1>12 DEF Tiled
<1>14. ASSUME NEW b \in B, b # a PROVE Intact(hp, q, b)
  <2>1. ASSUME NEW c \in b .. After(hp, b) - 1 PROVE q.mem[c] = hp.mem[c]
    <3>1. c \in Cell
      BY <1>8, HeapSizeIs DEF Cell
    <3>2. ~ (a < c /\ c < After(hp, a) - 1)
      <4>1. CASE a < b
        BY <4>1, <1>2, <1>8, <1>9
      <4>2. CASE b < a
        <5>1. After(hp, b) <= a
          BY <4>2, <1>2, <1>9
        <5> QED BY <5>1, <1>2, <1>8
      <4> QED BY <4>1, <4>2, <1>2, <1>8, <1>14
    <3> QED BY <3>1, <3>2, <1>4, <1>5, <1>10
  <2> QED BY <2>1, <1>11, <1>12 DEF Intact
<1>15. Live(q, B, {}) = Others(hp, B, {}, h) \cup {a} /\ OwnedBy(q, h) = {a}
  <2>1. Live(q, B, {}) = Live(hp, B, {})
    BY <1>12 DEF Live
  <2>2. ASSUME NEW b \in Live(hp, B, {}) PROVE hp.mem[b].handle_index = h <=> b = a
    <3>1. hp.mem[b].handle_index = h => b = a
      BY <1>0 DEF Owners, a
    <3> QED BY <3>1, <1>1
  <2>3. OwnedBy(q, h) = {a}
    BY <1>5 DEF OwnedBy, BoundTo, a
  <2> QED BY <2>1, <2>2, <2>3, <1>1 DEF Others
<1>16. Beside(hp, q, B, B, {}, {}, h, ask, ask)
  <2>1. \A b \in Others(hp, B, {}, h) : b \in B /\ b # a
    BY <1>1 DEF Others, Live
  <2>2. \A b \in Others(hp, B, {}, h) : Intact(hp, q, b)
    BY <2>1, <1>14
  <2>3. /\ StateAt(q, a) = q.handles[h].state /\ q.mem[a].handle_index = h
        /\ SizeAt(q, a) \in Int /\ ask[h] <= SizeAt(q, a)
    BY <1>1, <1>2, <1>5, <1>8, <1>11, <1>12
  <2> QED BY <2>2, <2>3, <1>5, <1>15 DEF Beside
<1>17. Written(q, h, ask, fil, fil \cup {h})
  <2>1. fil \subseteq Handle /\ \A g \in fil : ask[g] # 0
    BY <1>0 DEF Kept
  <2>2. ASSUME NEW c \in a + 1 .. a + ask[h] PROVE q.mem[c] = DataOf(h)
    <3>1. c \in Cell
      <4>1. HeapSize \in Nat /\ Cell = 0 .. HeapSize - 1
        BY HeapSizeIs DEF Cell
      <4>2. a < c /\ c < After(hp, a) - 1 /\ c \in Int
        BY <2>2, <1>1, <1>2, <1>3, <1>8
      <4>3. After(hp, a) - 1 <= HeapSize - 1 /\ After(hp, a) \in Int /\ a \in Nat
        BY <4>1, <1>1, <1>2, <1>8
      <4> QED BY <4>1, <4>2, <4>3
    <3> QED BY <3>1, <1>4, <1>5
  <2> QED BY <2>1, <2>2, <1>3, <1>5 DEF Written, a
<1>18. Asked(q, ask)
  BY <1>0, <1>5 DEF Asked
<1>19. Systems(q)
  <2>1. SystemOnes(q) = SystemOnes(hp)
    BY <1>5 DEF SystemOnes
  <2> QED BY <2>1, <1>0, <1>6, SystemsSame
<1>20. Counted(hp, q, h)
  <2>1. One(q, h, MOVABLE) = One(hp, h, MOVABLE) /\ One(q, h, LOCKED) = One(hp, h, LOCKED)
    BY <1>5 DEF One
  <2>2. Size(q, h, MOVABLE) = Size(hp, h, MOVABLE) /\ Size(q, h, LOCKED) = Size(hp, h, LOCKED)
    BY <1>2, <1>5, <1>12 DEF Size, a
  <2>3. One(hp, h, MOVABLE) \in Int /\ One(hp, h, LOCKED) \in Int
        /\ Size(hp, h, MOVABLE) \in Int /\ Size(hp, h, LOCKED) \in Int
    BY <1>2, <1>8 DEF One, Size, a
  <2>4. /\ hp.moveableBlocks \in Int /\ hp.moveableSize \in Int
        /\ hp.lockedBlocks \in Int /\ hp.lockedSize \in Int
    BY <1>0 DEF HeapT
  <2>5. Count(q) = Count(hp)
    BY <1>6, <1>7 DEF Count
  <2> QED BY <2>1, <2>2, <2>3, <2>4, <2>5, <1>5, <1>6, <1>7 DEF Counted
<1>21. Good(q, ask, fil \cup {h}, B, {})
  BY <1>5, <1>13, <1>16, <1>17, <1>18, <1>19, <1>20, GoodBeside
<1> QED BY <1>5, <1>12, <1>21

-----------------------------------------------------------------------------
\* heap_deallocate of a block in the heap.

\* Its handle and the counters, before its memory is made a free block.
Unbind(hp, h, size) ==
  [hp EXCEPT !.handles = [hp.handles EXCEPT ![h] = NoHandle],
             !.freeBlocks = hp.freeBlocks + 1, !.moveableBlocks = hp.moveableBlocks - 1,
             !.freeSize = hp.freeSize + size, !.moveableSize = hp.moveableSize - size]

GivenBack(hp, h, size) ==
  [[hp EXCEPT !.handles[h] = NoHandle]
     EXCEPT !.mem = FreeBlockIn(@, hp.handles[h].data, size),
            !.freeBlocks = @ + 1, !.moveableBlocks = @ - 1,
            !.freeSize = @ + size, !.moveableSize = @ - size]

\* The fields of the heap without the handle.
LEMMA UnbindFacts ==
  ASSUME NEW hp \in HeapT, NEW h, NEW size \in Int
  PROVE  LET p == Unbind(hp, h, size) IN
         /\ p = [f \in DOMAIN hp |-> p[f]] /\ DOMAIN p = DOMAIN hp
         /\ p.mem = hp.mem /\ p.handles = [hp.handles EXCEPT ![h] = NoHandle]
         /\ p.size = hp.size /\ p.system = hp.system
         /\ p.systemBlocks = hp.systemBlocks /\ p.systemSize = hp.systemSize
         /\ p.freeBlocks = hp.freeBlocks + 1 /\ p.moveableBlocks = hp.moveableBlocks - 1
         /\ p.freeSize = hp.freeSize + size /\ p.moveableSize = hp.moveableSize - size
         /\ p.lockedBlocks = hp.lockedBlocks /\ p.lockedSize = hp.lockedSize
<1> DEFINE p == Unbind(hp, h, size)
           d == [hp.handles EXCEPT ![h] = NoHandle]
           fb == hp.freeBlocks + 1  mb == hp.moveableBlocks - 1
           fs == hp.freeSize + size ms == hp.moveableSize - size
<1>1. p = [hp EXCEPT !.handles = d, !.freeBlocks = fb, !.moveableBlocks = mb,
                     !.freeSize = fs, !.moveableSize = ms]
  BY DEF Unbind
<1> HIDE DEF p, d, fb, mb, fs, ms
<1>2. /\ p = [f \in DOMAIN hp |-> p[f]] /\ DOMAIN p = DOMAIN hp
      /\ p.mem = hp.mem /\ p.handles = d /\ p.size = hp.size /\ p.system = hp.system
  BY <1>1 DEF HeapT
<1>3. /\ p.systemBlocks = hp.systemBlocks /\ p.systemSize = hp.systemSize
      /\ p.freeBlocks = fb /\ p.moveableBlocks = mb
  BY <1>1 DEF HeapT
<1>4. /\ p.freeSize = fs /\ p.moveableSize = ms
      /\ p.lockedBlocks = hp.lockedBlocks /\ p.lockedSize = hp.lockedSize
  BY <1>1 DEF HeapT
<1> QED BY <1>2, <1>3, <1>4 DEF p, d, fb, mb, fs, ms

\* The fields of the heap with the block given back.
LEMMA GivenBackFacts ==
  ASSUME NEW hp \in HeapT, NEW h, NEW size \in Int
  PROVE  Merged(Unbind(hp, h, size), GivenBack(hp, h, size), hp.handles[h].data, size, 0)
<1> DEFINE q == GivenBack(hp, h, size)
           p == Unbind(hp, h, size)
           a == hp.handles[h].data
           d == [hp.handles EXCEPT ![h] = NoHandle]
           M == FreeBlockIn(hp.mem, a, size)
<1>0. /\ p = [f \in DOMAIN hp |-> p[f]] /\ DOMAIN p = DOMAIN hp
      /\ p.mem = hp.mem /\ p.handles = [hp.handles EXCEPT ![h] = NoHandle]
      /\ p.size = hp.size /\ p.system = hp.system
      /\ p.systemBlocks = hp.systemBlocks /\ p.systemSize = hp.systemSize
      /\ p.freeBlocks = hp.freeBlocks + 1 /\ p.moveableBlocks = hp.moveableBlocks - 1
      /\ p.freeSize = hp.freeSize + size /\ p.moveableSize = hp.moveableSize - size
      /\ p.lockedBlocks = hp.lockedBlocks /\ p.lockedSize = hp.lockedSize
  BY UnbindFacts
<1> HIDE DEF p
<1>1. q = [hp EXCEPT !.handles = d, !.mem = M,
                     !.freeBlocks = hp.freeBlocks + 1, !.moveableBlocks = hp.moveableBlocks - 1,
                     !.freeSize = hp.freeSize + size, !.moveableSize = hp.moveableSize - size]
  <2>1. q = [[hp EXCEPT !.handles = d]
               EXCEPT !.mem = FreeBlockIn(@, a, size),
                      !.freeBlocks = @ + 1, !.moveableBlocks = @ - 1,
                      !.freeSize = @ + size, !.moveableSize = @ - size]
    BY DEF GivenBack
  <2> HIDE DEF d, a, q
  <2> QED BY <2>1 DEF HeapT
<1> HIDE DEF d, a, M, q
<1> DEFINE fb == hp.freeBlocks + 1  mb == hp.moveableBlocks - 1
           fs == hp.freeSize + size ms == hp.moveableSize - size
<1>2. q = [hp EXCEPT !.handles = d, !.mem = M, !.freeBlocks = fb, !.moveableBlocks = mb,
                     !.freeSize = fs, !.moveableSize = ms]
  BY <1>1
<1> HIDE DEF fb, mb, fs, ms
<1>3. /\ q = [f \in DOMAIN hp |-> q[f]]
      /\ q.mem = M /\ q.handles = d /\ q.size = hp.size /\ q.system = hp.system
  BY <1>2 DEF HeapT
<1>4. /\ q.systemBlocks = hp.systemBlocks /\ q.systemSize = hp.systemSize
      /\ q.freeBlocks = fb /\ q.moveableBlocks = mb
  BY <1>2 DEF HeapT
<1>5. /\ q.freeSize = fs /\ q.moveableSize = ms
      /\ q.lockedBlocks = hp.lockedBlocks /\ q.lockedSize = hp.lockedSize
  BY <1>2 DEF HeapT
<1>6. /\ p = [f \in DOMAIN hp |-> p[f]] /\ DOMAIN p = DOMAIN hp
      /\ p.mem = hp.mem /\ p.handles = d
      /\ p.size = hp.size /\ p.system = hp.system
      /\ p.systemBlocks = hp.systemBlocks /\ p.systemSize = hp.systemSize
      /\ p.freeBlocks = fb /\ p.moveableBlocks = mb
      /\ p.freeSize = fs /\ p.moveableSize = ms
      /\ p.lockedBlocks = hp.lockedBlocks /\ p.lockedSize = hp.lockedSize
  BY <1>0 DEF d, fb, mb, fs, ms
<1>7. fb - 0 = fb /\ fs + 0 * 2 = fs
  <2>1. hp.freeBlocks \in Int /\ hp.freeSize \in Int
    BY DEF HeapT
  <2> QED BY <2>1 DEF fb, fs
<1>8. q = [f \in DOMAIN p |-> q[f]]
  BY <1>3, <1>6
<1>9. q.mem = FreeBlockIn(p.mem, a, size)
  BY <1>3, <1>6 DEF M
<1>10. Merged(p, q, a, size, 0)
  BY <1>3, <1>4, <1>5, <1>6, <1>7, <1>8, <1>9 DEF Merged
<1> QED BY <1>10 DEF p, q, a

\* It is in order.
LEMMA GivenBackGood ==
  ASSUME NEW hp, NEW ask, NEW fil, NEW B, Good(hp, ask, fil, B, {}),
         NEW h \in DOMAIN hp.handles, hp.handles[h].state = MOVABLE
  PROVE  LET q == GivenBack(hp, h, SizeAt(hp, hp.handles[h].data)) IN
         /\ Good(q, [ask EXCEPT ![h] = 0], fil \ {h}, B, {})
         /\ \A g \in DOMAIN hp.handles : g # h =>
              /\ q.handles[g].state = hp.handles[g].state
              /\ hp.handles[g].state # MOVABLE => q.handles[g] = hp.handles[g]
              /\ hp.handles[g].state = LOCKED =>
                   SizeAt(q, hp.handles[g].data) = SizeAt(hp, hp.handles[g].data)
<1> DEFINE a == hp.handles[h].data
           size == SizeAt(hp, a)
           p == Unbind(hp, h, size)
           q == GivenBack(hp, h, size)
           new == [ask EXCEPT ![h] = 0]
           full == fil \ {h}
<1>0. /\ hp \in HeapT /\ Tiled(hp, B) /\ Owners(hp, ask, B, {}) /\ Asked(hp, ask)
      /\ Kept(hp, ask, fil) /\ Systems(hp) /\ hp.handles \in HandlesT
  BY DEF Good, HeapT
<1>1. BoundTo(hp, h) /\ MOVABLE # INVALID
  BY DEF BoundTo, MOVABLE, INVALID
<1>2. /\ a \in Live(hp, B, {}) /\ StateAt(hp, a) = MOVABLE
      /\ hp.mem[a].handle_index = h
  BY <1>0, <1>1 DEF Owners
<1>3. /\ a \in B /\ a \in Nat /\ size \in Nat /\ After(hp, a) = a + size + 2
      /\ After(hp, a) \in B \cup {hp.size} /\ \A c \in B : a < c => After(hp, a) <= c
      /\ \A c \in B : c \in Nat
  <2>1. a \in B
    BY <1>2 DEF Live
  <2> QED BY <2>1, <1>0, BlockFacts DEF Tiled
<1>4. h \in Handle /\ ask \in [Handle -> Nat] /\ new \in [Handle -> Nat] /\ new[h] = 0
      /\ \A g : g # h => new[g] = ask[g]
  <2>1. ask \in [Handle -> Nat] /\ h \in Handle
    BY <1>0, <1>1 DEF Asked
  <2>2. \A g : g # h => new[g] = ask[g]
    BY <2>1
  <2> QED BY <2>1, <2>2
<1> HIDE DEF a, size, new
<1>5. /\ p = [f \in DOMAIN hp |-> p[f]] /\ DOMAIN p = DOMAIN hp
      /\ p.mem = hp.mem /\ p.handles = [hp.handles EXCEPT ![h] = NoHandle]
      /\ p.size = hp.size /\ p.system = hp.system
      /\ p.systemBlocks = hp.systemBlocks /\ p.systemSize = hp.systemSize
      /\ p.freeBlocks = hp.freeBlocks + 1 /\ p.moveableBlocks = hp.moveableBlocks - 1
      /\ p.freeSize = hp.freeSize + size /\ p.moveableSize = hp.moveableSize - size
      /\ p.lockedBlocks = hp.lockedBlocks /\ p.lockedSize = hp.lockedSize
  BY <1>0, <1>3, UnbindFacts
<1> HIDE DEF p
<1>6. /\ p.handles \in HandlesT /\ DOMAIN p.handles = DOMAIN hp.handles
      /\ p.handles[h].state = INVALID
      /\ \A g \in DOMAIN hp.handles : g # h => p.handles[g] = hp.handles[g]
  <2>1. NoHandle \in HandleT /\ NoHandle.state = INVALID
    BY DEF NoHandle, HandleT
  <2> QED BY <2>1, <1>0, <1>5, HandleSet
<1>7. /\ hp.size \in Nat /\ hp.system \in [Handle -> Nat] /\ hp.mem \in [Cell -> Content]
      /\ hp.freeBlocks \in Int /\ hp.moveableBlocks \in Int /\ hp.lockedBlocks \in Int
      /\ hp.systemBlocks \in Int /\ hp.freeSize \in Int /\ hp.moveableSize \in Int
      /\ hp.lockedSize \in Int /\ hp.systemSize \in Int
  BY <1>0 DEF HeapT
<1>8. p \in HeapT
  <2>1. /\ p.freeBlocks \in Int /\ p.moveableBlocks \in Int
        /\ p.freeSize \in Int /\ p.moveableSize \in Int
    BY <1>3, <1>5, <1>7
  <2> QED BY <2>1, <1>0, <1>5, <1>6, <1>7, HeapAgain
<1>9. OwnedBy(hp, h) = {a} /\ ~ BoundTo(p, h)
  BY <1>1, <1>6 DEF OwnedBy, a, BoundTo, INVALID, MOVABLE, LOCKED
<1>10. Set(hp, p, h, ask, new)
  BY <1>2, <1>4, <1>5, <1>6, <1>9 DEF Set
<1>11. Counted(hp, p, h)
  <2>1. /\ One(hp, h, MOVABLE) = 1 /\ One(hp, h, LOCKED) = 0 /\ One(p, h, MOVABLE) = 0
        /\ One(p, h, LOCKED) = 0 /\ Size(hp, h, MOVABLE) = size /\ Size(hp, h, LOCKED) = 0
        /\ Size(p, h, MOVABLE) = 0 /\ Size(p, h, LOCKED) = 0
    BY <1>6 DEF One, Size, INVALID, MOVABLE, LOCKED, size, a
  <2>2. /\ p.freeBlocks = hp.freeBlocks + 1 /\ p.moveableBlocks = hp.moveableBlocks - 1
        /\ p.freeSize = hp.freeSize + size /\ p.moveableSize = hp.moveableSize - size
        /\ p.lockedBlocks = hp.lockedBlocks /\ p.lockedSize = hp.lockedSize
        /\ p.size = hp.size
    BY <1>5
  <2>3. /\ hp.freeBlocks \in Int /\ hp.moveableBlocks \in Int /\ hp.lockedBlocks \in Int
        /\ hp.freeSize \in Int /\ hp.moveableSize \in Int /\ hp.lockedSize \in Int
        /\ size \in Int
    BY <1>3, <1>7
  <2>4. /\ p.moveableBlocks = hp.moveableBlocks - One(hp, h, MOVABLE) + One(p, h, MOVABLE)
        /\ p.moveableSize = hp.moveableSize - Size(hp, h, MOVABLE) + Size(p, h, MOVABLE)
        /\ p.lockedBlocks = hp.lockedBlocks - One(hp, h, LOCKED) + One(p, h, LOCKED)
        /\ p.lockedSize = hp.lockedSize - Size(hp, h, LOCKED) + Size(p, h, LOCKED)
    BY <2>1, <2>2, <2>3
  <2>5. /\ Count(p) = Count(hp)
        /\ p.freeSize + p.moveableSize + p.lockedSize
             = hp.freeSize + hp.moveableSize + hp.lockedSize
    BY <2>2, <2>3 DEF Count
  <2> QED BY <2>2, <2>4, <2>5 DEF Counted
<1>12. Written(p, h, new, fil, full)
  BY <1>0, <1>4 DEF Written, Kept
<1>13. Asked(p, new)
  BY <1>0, <1>4, <1>5, <1>6 DEF Asked
<1>14. Systems(p)
  <2>1. SystemOnes(p) = SystemOnes(hp)
    <3>1. \A g \in DOMAIN hp.handles : IsSystem(p.handles[g].state) <=> IsSystem(hp.handles[g].state)
      BY <1>6 DEF IsSystem, SYSTEM, LOCKED, INVALID, MOVABLE
    <3> QED BY <3>1, <1>6 DEF SystemOnes
  <2> QED BY <2>1, <1>0, <1>5, SystemsSame
<1> HIDE DEF full
<1>15. Good(p, new, full, B, {a})
  <2>1. Good(p, new, full, B, OwnedBy(hp, h))
    BY <1>8, <1>10, <1>11, <1>12, <1>13, <1>14, GoodSet
  <2> QED BY <2>1, <1>9

\* The block alone becomes a free block.
<1> DEFINE e == After(hp, a)
<1>16. /\ e \in B \cup {p.size} /\ a < e /\ e - a - 2 = size
       /\ Between(B, a, e) = {a} /\ AsOne(B, a, e) = B
       /\ Cardinality(Between(B, a, e)) - 1 = 0
  <2>1. /\ e \in B \cup {p.size} /\ a < e /\ e - a - 2 = size
    BY <1>3, <1>5
  <2>2. Between(B, a, e) = {a}
    <3>1. ASSUME NEW c \in B, a <= c, c < e PROVE c = a
      BY <3>1, <1>3
    <3>2. a <= a /\ a < e
      BY <1>3, <2>1
    <3> HIDE DEF e
    <3> QED BY <3>1, <3>2, <1>3 DEF Between
  <2>3. AsOne(B, a, e) = B
    BY <2>2, <1>3 DEF AsOne
  <2>4. Cardinality({a}) = 1
    BY FS_Singleton
  <2> QED BY <2>1, <2>2, <2>3, <2>4
<1>17. Nobodys(p, B, {a}, a, e)
  <2>1. ASSUME NEW b \in B \ {a}, a <= b, b < e PROVE FALSE
    BY <2>1, <1>3
  <2> QED BY <2>1, <1>3, <1>16 DEF Nobodys
<1> HIDE DEF e, q
<1>18. Merged(p, q, a, e - a - 2, Cardinality(Between(B, a, e)) - 1)
  <2>1. Merged(p, q, a, size, 0)
    <3>1. size \in Int /\ p = Unbind(hp, h, size)
      BY <1>3 DEF p
    <3> QED BY <3>1, <1>0, GivenBackFacts DEF q, a
  <2> QED BY <2>1, <1>16
<1>19. Good(q, new, full, AsOne(B, a, e), {}) /\ Same(p, q)
  BY <1>3, <1>15, <1>16, <1>17, <1>18, MergeIs
<1>20. Good(q, new, full, B, {})
  BY <1>16, <1>19
<1>21. ASSUME NEW g \in DOMAIN hp.handles, g # h
       PROVE  /\ q.handles[g].state = hp.handles[g].state
              /\ hp.handles[g].state # MOVABLE => q.handles[g] = hp.handles[g]
              /\ hp.handles[g].state = LOCKED =>
                   SizeAt(q, hp.handles[g].data) = SizeAt(hp, hp.handles[g].data)
  <2>1. p.handles[g] = hp.handles[g] /\ g \in DOMAIN p.handles
    BY <1>6, <1>21
  <2>2. \A b : SizeAt(p, b) = SizeAt(hp, b)
    BY <1>5 DEF SizeAt
  <2> QED BY <2>1, <2>2, <1>19 DEF Same
<1> QED BY <1>20, <1>21 DEF q, new, full, size, a

-----------------------------------------------------------------------------
(* What the owners see of the blocks.                                       *)

NotSeen == [kind |-> "free", cells |-> {}, written |-> FALSE]

CellsOf(hp, h) ==
  IF ~IsLocked(hp.handles[h].state) THEN {}
  ELSE IF IsSystem(hp.handles[h].state) THEN {- h - 1}
  ELSE hp.handles[h].data .. hp.handles[h].data + SizeAt(hp, hp.handles[h].data) + 1

Seen(hp, ask, fil, h) ==
  IF ask[h] = 0 THEN NotSeen
  ELSE [kind |-> IF IsSystem(hp.handles[h].state) THEN "system" ELSE "moveable",
        cells |-> CellsOf(hp, h), written |-> h \in fil]

\* What a step may do to a block that nobody asked it to touch.
Untouched(hp, q, h) ==
  /\ q.handles[h].state = hp.handles[h].state
  /\ hp.handles[h].state # MOVABLE => q.handles[h] = hp.handles[h]
  /\ hp.handles[h].state = LOCKED =>
       SizeAt(q, hp.handles[h].data) = SizeAt(hp, hp.handles[h].data)

\* A handle in use is bound to a block of the heap or of the system.
LEMMA InUse ==
  ASSUME NEW hp, NEW ask, NEW fil, NEW B, Good(hp, ask, fil, B, {}),
         NEW h \in Handle, ask[h] # 0
  PROVE  /\ h \in DOMAIN hp.handles /\ hp.handles[h].state # INVALID
         /\ BoundTo(hp, h) <=> ~ IsSystem(hp.handles[h].state)
         /\ hp.handles[h].state \in {MOVABLE, LOCKED, SYSTEM, SYSTEM + LOCKED}
<1>1. h \in DOMAIN hp.handles /\ hp.handles[h].state # INVALID
  BY DEF Good, Asked
<1>2. hp.handles[h] \in HandleT
  BY <1>1 DEF Good, HeapT, HandlesT
<1>3. hp.handles[h].state \in {MOVABLE, LOCKED, SYSTEM, SYSTEM + LOCKED}
  BY <1>1, <1>2 DEF HandleT
<1> QED BY <1>1, <1>3 DEF BoundTo, IsSystem, MOVABLE, LOCKED, SYSTEM

\* The definition of Blocks, of any heap.
Sight(hp, ask, fil) == [h \in Handle |->
  IF ask[h] = 0 THEN NotSeen
  ELSE LET handle == hp.handles[h]  inside == ~IsSystem(handle.state) IN
    [kind |-> IF inside THEN "moveable" ELSE "system",
     cells |-> IF ~IsLocked(handle.state) THEN {}
               ELSE IF inside THEN handle.data .. handle.data + SizeAt(hp, handle.data) + 1
               ELSE {- h - 1},
     written |-> /\ h \in fil
                 /\ inside => \A c \in handle.data + 1 .. handle.data + ask[h] :
                                hp.mem[c] = DataOf(h)]]

\* It is what the refinement shows, before and after a step.
LEMMA BlocksAre ==
  /\ Blocks = Sight(heap, asked, filled)
  /\ Blocks' = Sight(heap', asked', filled')
BY DEF Blocks, Sight, NotSeen, SizeAt

\* What was written is there, so that it is seen.
LEMMA SeenIs ==
  ASSUME NEW hp, NEW ask, NEW fil, NEW B, Good(hp, ask, fil, B, {})
  PROVE  Sight(hp, ask, fil) = [h \in Handle |-> Seen(hp, ask, fil, h)]
<1>1. ASSUME NEW h \in Handle PROVE Sight(hp, ask, fil)[h] = Seen(hp, ask, fil, h)
  <2>1. CASE ask[h] = 0
    BY <2>1 DEF Sight, Seen, NotSeen
  <2>2. CASE ask[h] # 0
    <3> DEFINE handle == hp.handles[h]
               inside == ~IsSystem(handle.state)
               there == \A c \in handle.data + 1 .. handle.data + ask[h] :
                          hp.mem[c] = DataOf(h)
    <3>1. h \in DOMAIN hp.handles /\ (inside <=> BoundTo(hp, h))
      BY <2>2, InUse
    <3>2. h \in fil /\ inside => there
      BY <3>1 DEF Good, Kept
    <3>3. Sight(hp, ask, fil)[h] =
            [kind |-> IF inside THEN "moveable" ELSE "system",
             cells |-> IF ~IsLocked(handle.state) THEN {}
                       ELSE IF inside
                            THEN handle.data .. handle.data + SizeAt(hp, handle.data) + 1
                            ELSE {- h - 1},
             written |-> h \in fil /\ (inside => there)]
      BY <2>2 DEF Sight
    <3>4. (h \in fil /\ (inside => there)) = (h \in fil)
      BY <3>2
    <3>5. (IF ~IsLocked(handle.state) THEN {}
           ELSE IF inside THEN handle.data .. handle.data + SizeAt(hp, handle.data) + 1
                ELSE {- h - 1}) = CellsOf(hp, h)
      BY DEF CellsOf
    <3>6. (IF inside THEN "moveable" ELSE "system")
            = (IF IsSystem(handle.state) THEN "system" ELSE "moveable")
      OBVIOUS
    <3> HIDE DEF handle, inside, there
    <3>7. Sight(hp, ask, fil)[h] = [kind |-> IF inside THEN "moveable" ELSE "system",
                       cells |-> CellsOf(hp, h), written |-> h \in fil]
      BY <3>3, <3>4, <3>5
    <3> QED BY <3>6, <3>7, <2>2 DEF Seen, handle
  <2> QED BY <2>1, <2>2
<1>2. Sight(hp, ask, fil) = [h \in Handle |-> Sight(hp, ask, fil)[h]]
  BY DEF Sight
<1> QED BY <1>1, <1>2, Zenon

\* Such a block is seen as before.
LEMMA SeenAgain ==
  ASSUME NEW hp, NEW q, NEW ask, NEW new, NEW fil, NEW full, NEW B, NEW h \in Handle,
         Good(hp, ask, fil, B, {}), new[h] = ask[h], h \in full <=> h \in fil,
         h \in DOMAIN hp.handles => Untouched(hp, q, h)
  PROVE  Seen(q, new, full, h) = Seen(hp, ask, fil, h)
<1>1. CASE ask[h] = 0
  BY <1>1 DEF Seen
<1>2. CASE ask[h] # 0
  <2>1. h \in DOMAIN hp.handles
        /\ hp.handles[h].state \in {MOVABLE, LOCKED, SYSTEM, SYSTEM + LOCKED}
    BY <1>2, InUse
  <2>2. q.handles[h].state = hp.handles[h].state
    BY <2>1 DEF Untouched
  <2>3. CellsOf(q, h) = CellsOf(hp, h)
    <3>1. CASE IsLocked(hp.handles[h].state)
      <4>1. hp.handles[h].state # MOVABLE
        BY <3>1 DEF IsLocked, MOVABLE, LOCKED, SYSTEM
      <4>2. q.handles[h] = hp.handles[h]
        BY <4>1, <2>1 DEF Untouched
      <4>3. CASE IsSystem(hp.handles[h].state)
        BY <4>2, <4>3 DEF CellsOf
      <4>4. CASE ~ IsSystem(hp.handles[h].state)
        <5>1. hp.handles[h].state = LOCKED
          BY <2>1, <4>1, <4>4 DEF IsSystem
        <5>2. SizeAt(q, hp.handles[h].data) = SizeAt(hp, hp.handles[h].data)
          BY <5>1, <2>1 DEF Untouched
        <5> QED BY <5>2, <4>2 DEF CellsOf
      <4> QED BY <4>3, <4>4
    <3>2. CASE ~ IsLocked(hp.handles[h].state)
      BY <3>2, <2>2 DEF CellsOf
    <3> QED BY <3>1, <3>2
  <2>4. (h \in full) = (h \in fil)
    OBVIOUS
  <2> QED BY <1>2, <2>2, <2>3, <2>4 DEF Seen
<1> QED BY <1>1, <1>2

\* All blocks but that of h are seen as before.
SeenBeside(hp, ask, fil, q, new, full, h) ==
  \A g \in Handle : g # h => Seen(q, new, full, g) = Seen(hp, ask, fil, g)

\* It is so when all other handles are untouched.
LEMMA SeenBesides ==
  ASSUME NEW hp, NEW q, NEW ask, NEW new, NEW fil, NEW full, NEW B, NEW h,
         Good(hp, ask, fil, B, {}),
         \A g \in Handle : g # h => new[g] = ask[g] /\ (g \in full <=> g \in fil),
         \A g \in DOMAIN hp.handles : g # h => Untouched(hp, q, g)
  PROVE  SeenBeside(hp, ask, fil, q, new, full, h)
<1> SUFFICES ASSUME NEW g \in Handle, g # h
             PROVE  Seen(q, new, full, g) = Seen(hp, ask, fil, g)
  BY DEF SeenBeside
<1>1. /\ new[g] = ask[g] /\ (g \in full <=> g \in fil)
      /\ g \in DOMAIN hp.handles => Untouched(hp, q, g)
  OBVIOUS
<1> QED BY <1>1, SeenAgain

-----------------------------------------------------------------------------
\* heap_lock and heap_unlock.

Locking(hp, h, size) ==
  [hp EXCEPT !.mem[hp.handles[h].data].state = LOCKED,
             !.handles[h].state = LOCKED,
             !.moveableBlocks = @ - 1, !.lockedBlocks = @ + 1,
             !.moveableSize = @ - size, !.lockedSize = @ + size]

\* Lock in those terms.
LEMMA LockUnfolds ==
  ASSUME NEW hp \in HeapT, NEW h, NEW size \in Nat, NEW q, q = Locking(hp, h, size)
  PROVE  /\ Marked(hp, q, h, LOCKED)
         /\ q.moveableBlocks = hp.moveableBlocks - 1 /\ q.moveableSize = hp.moveableSize - size
         /\ q.lockedBlocks = hp.lockedBlocks + 1 /\ q.lockedSize = hp.lockedSize + size
<1> DEFINE a == hp.handles[h].data
           M == MarkedMem(hp, a, LOCKED)
           d == [hp.handles EXCEPT ![h].state = LOCKED]
           mb == hp.moveableBlocks - 1    lb == hp.lockedBlocks + 1
           ms == hp.moveableSize - size   ls == hp.lockedSize + size
<1>1. q = [hp EXCEPT !.mem = M, !.handles = d, !.moveableBlocks = mb, !.lockedBlocks = lb,
                     !.moveableSize = ms, !.lockedSize = ls]
  BY DEF HeapT, MarkedMem, Locking
<1> HIDE DEF M, d, mb, lb, ms, ls
<1>2. /\ q = [f \in DOMAIN hp |-> q[f]] /\ q.mem = M /\ q.handles = d
      /\ q.size = hp.size /\ q.system = hp.system
  BY <1>1 DEF HeapT
<1>3. /\ q.systemBlocks = hp.systemBlocks /\ q.systemSize = hp.systemSize
      /\ q.freeBlocks = hp.freeBlocks /\ q.freeSize = hp.freeSize
  BY <1>1 DEF HeapT
<1>4. q.moveableBlocks = mb /\ q.lockedBlocks = lb /\ q.moveableSize = ms /\ q.lockedSize = ls
  BY <1>1 DEF HeapT
<1>5. Marked(hp, q, h, LOCKED)
  BY <1>2, <1>3 DEF Marked, M, d
<1> QED BY <1>4, <1>5 DEF mb, lb, ms, ls

Unlocking(hp, h, size) ==
  [hp EXCEPT !.mem[hp.handles[h].data].state = MOVABLE,
             !.handles[h].state = MOVABLE,
             !.moveableBlocks = @ + 1, !.lockedBlocks = @ - 1,
             !.moveableSize = @ + size, !.lockedSize = @ - size]

\* Unlock in those terms.
LEMMA UnlockUnfolds ==
  ASSUME NEW hp \in HeapT, NEW h, NEW size \in Nat, NEW q, q = Unlocking(hp, h, size)
  PROVE  /\ Marked(hp, q, h, MOVABLE)
         /\ q.moveableBlocks = hp.moveableBlocks + 1 /\ q.moveableSize = hp.moveableSize + size
         /\ q.lockedBlocks = hp.lockedBlocks - 1 /\ q.lockedSize = hp.lockedSize - size
<1> DEFINE a == hp.handles[h].data
           M == MarkedMem(hp, a, MOVABLE)
           d == [hp.handles EXCEPT ![h].state = MOVABLE]
           mb == hp.moveableBlocks + 1    lb == hp.lockedBlocks - 1
           ms == hp.moveableSize + size   ls == hp.lockedSize - size
<1>1. q = [hp EXCEPT !.mem = M, !.handles = d, !.moveableBlocks = mb, !.lockedBlocks = lb,
                     !.moveableSize = ms, !.lockedSize = ls]
  BY DEF HeapT, MarkedMem, Unlocking
<1> HIDE DEF M, d, mb, lb, ms, ls
<1>2. /\ q = [f \in DOMAIN hp |-> q[f]] /\ q.mem = M /\ q.handles = d
      /\ q.size = hp.size /\ q.system = hp.system
  BY <1>1 DEF HeapT
<1>3. /\ q.systemBlocks = hp.systemBlocks /\ q.systemSize = hp.systemSize
      /\ q.freeBlocks = hp.freeBlocks /\ q.freeSize = hp.freeSize
  BY <1>1 DEF HeapT
<1>4. q.moveableBlocks = mb /\ q.lockedBlocks = lb /\ q.moveableSize = ms /\ q.lockedSize = ls
  BY <1>1 DEF HeapT
<1>5. Marked(hp, q, h, MOVABLE)
  BY <1>2, <1>3 DEF Marked, M, d
<1> QED BY <1>4, <1>5 DEF mb, lb, ms, ls

\* The counters, when a block of the heap changes its state.
LEMMA MarkCounted ==
  ASSUME NEW hp, NEW ask, NEW fil, NEW B, Good(hp, ask, fil, B, {}),
         NEW h \in DOMAIN hp.handles, BoundTo(hp, h), NEW state \in {MOVABLE, LOCKED},
         state # hp.handles[h].state, NEW q, Marked(hp, q, h, state),
         NEW size, size = SizeAt(hp, hp.handles[h].data), NEW s \in {1, -1},
         s = 1 <=> state = LOCKED,
         q.moveableBlocks = hp.moveableBlocks - s, q.moveableSize = hp.moveableSize - s * size,
         q.lockedBlocks = hp.lockedBlocks + s, q.lockedSize = hp.lockedSize + s * size
  PROVE  Counted(hp, q, h)
<1> DEFINE a == hp.handles[h].data
<1>0. /\ hp \in HeapT /\ Tiled(hp, B) /\ Owners(hp, ask, B, {}) /\ hp.mem \in [Cell -> Content]
      /\ hp.handles \in HandlesT
  BY DEF Good, HeapT
<1>1. a \in B
  BY <1>0 DEF Owners, Live
<1>2. size \in Nat
  BY <1>0, <1>1, BlockFacts
<1>3. /\ q.mem = MarkedMem(hp, a, state) /\ q.size = hp.size
      /\ q.handles = [hp.handles EXCEPT ![h].state = state]
      /\ q.freeBlocks = hp.freeBlocks /\ q.freeSize = hp.freeSize
  BY DEF Marked
<1> HIDE DEF a
<1>4. SizeAt(q, a) = size
  <2>1. /\ q.mem \in [Cell -> Content] /\ Tiled(q, B)
        /\ StateAt(q, a) = state /\ SizeAt(q, a) = SizeAt(hp, a)
        /\ q.mem[a].handle_index = hp.mem[a].handle_index
        /\ \A b \in B : b # a => Intact(hp, q, b)
        /\ \A c \in Cell : c # a => q.mem[c] = hp.mem[c]
    BY <1>0, <1>1, <1>3, MarkTiles
  <2> QED BY <2>1 DEF a
<1>5. q.handles[h].state = state /\ q.handles[h].data = a
  <2>1. hp.handles[h] \in HandleT
    BY <1>0 DEF HandlesT
  <2> QED BY <2>1, <1>0, <1>3 DEF HandleT, HandlesT, a
<1>6. MOVABLE # LOCKED /\ hp.handles[h].state \in {MOVABLE, LOCKED}
  BY DEF BoundTo, MOVABLE, LOCKED
<1>7. CASE state = LOCKED
  <2>1. hp.handles[h].state = MOVABLE /\ s = 1
    BY <1>6, <1>7
  <2>2. /\ One(hp, h, MOVABLE) = 1 /\ One(hp, h, LOCKED) = 0 /\ One(q, h, MOVABLE) = 0
        /\ One(q, h, LOCKED) = 1 /\ Size(hp, h, MOVABLE) = size /\ Size(hp, h, LOCKED) = 0
        /\ Size(q, h, MOVABLE) = 0 /\ Size(q, h, LOCKED) = size
    BY <2>1, <1>4, <1>5, <1>6, <1>7 DEF One, Size, a
  <2>3. /\ hp.freeBlocks \in Int /\ hp.moveableBlocks \in Int /\ hp.lockedBlocks \in Int
        /\ hp.freeSize \in Int /\ hp.moveableSize \in Int /\ hp.lockedSize \in Int
    BY <1>0 DEF HeapT
  <2>4. /\ q.moveableBlocks = hp.moveableBlocks - 1 /\ q.moveableSize = hp.moveableSize - size
        /\ q.lockedBlocks = hp.lockedBlocks + 1 /\ q.lockedSize = hp.lockedSize + size
    BY <2>1, <1>2
  <2>5. /\ q.moveableBlocks = hp.moveableBlocks - One(hp, h, MOVABLE) + One(q, h, MOVABLE)
        /\ q.moveableSize = hp.moveableSize - Size(hp, h, MOVABLE) + Size(q, h, MOVABLE)
        /\ q.lockedBlocks = hp.lockedBlocks - One(hp, h, LOCKED) + One(q, h, LOCKED)
        /\ q.lockedSize = hp.lockedSize - Size(hp, h, LOCKED) + Size(q, h, LOCKED)
    BY <2>2, <2>3, <2>4, <1>2
  <2>6. Count(q) = Count(hp)
    BY <2>3, <2>4, <1>3 DEF Count
  <2>7. q.freeSize + q.moveableSize + q.lockedSize
          = hp.freeSize + hp.moveableSize + hp.lockedSize
    BY <2>3, <2>4, <1>2, <1>3
  <2> QED BY <2>5, <2>6, <2>7, <1>3 DEF Counted
<1>8. CASE state = MOVABLE
  <2>1. hp.handles[h].state = LOCKED /\ s = -1
    BY <1>6, <1>8
  <2>2. /\ One(hp, h, MOVABLE) = 0 /\ One(hp, h, LOCKED) = 1 /\ One(q, h, MOVABLE) = 1
        /\ One(q, h, LOCKED) = 0 /\ Size(hp, h, MOVABLE) = 0 /\ Size(hp, h, LOCKED) = size
        /\ Size(q, h, MOVABLE) = size /\ Size(q, h, LOCKED) = 0
    BY <2>1, <1>4, <1>5, <1>6, <1>8 DEF One, Size, a
  <2>3. /\ hp.freeBlocks \in Int /\ hp.moveableBlocks \in Int /\ hp.lockedBlocks \in Int
        /\ hp.freeSize \in Int /\ hp.moveableSize \in Int /\ hp.lockedSize \in Int
    BY <1>0 DEF HeapT
  <2>4. /\ q.moveableBlocks = hp.moveableBlocks + 1 /\ q.moveableSize = hp.moveableSize + size
        /\ q.lockedBlocks = hp.lockedBlocks - 1 /\ q.lockedSize = hp.lockedSize - size
    BY <2>1, <2>3, <1>2
  <2>5. /\ q.moveableBlocks = hp.moveableBlocks - One(hp, h, MOVABLE) + One(q, h, MOVABLE)
        /\ q.moveableSize = hp.moveableSize - Size(hp, h, MOVABLE) + Size(q, h, MOVABLE)
        /\ q.lockedBlocks = hp.lockedBlocks - One(hp, h, LOCKED) + One(q, h, LOCKED)
        /\ q.lockedSize = hp.lockedSize - Size(hp, h, LOCKED) + Size(q, h, LOCKED)
    BY <2>2, <2>3, <2>4, <1>2
  <2>6. Count(q) = Count(hp)
    BY <2>3, <2>4, <1>3 DEF Count
  <2>7. q.freeSize + q.moveableSize + q.lockedSize
          = hp.freeSize + hp.moveableSize + hp.lockedSize
    BY <2>3, <2>4, <1>2, <1>3
  <2> QED BY <2>5, <2>6, <2>7, <1>3 DEF Counted
<1> QED BY <1>7, <1>8

-----------------------------------------------------------------------------
\* The steps of the owners: what each does to the heap, and what is seen of it.

\* A block that is locked or unlocked is otherwise seen as it was.
LEMMA SeenTurned ==
  ASSUME NEW hp, NEW q, NEW ask, NEW fil, NEW h, ask[h] # 0,
         IsSystem(q.handles[h].state) <=> IsSystem(hp.handles[h].state)
  PROVE  /\ Seen(q, ask, fil, h) = [Seen(hp, ask, fil, h) EXCEPT !.cells = CellsOf(q, h)]
         /\ Seen(hp, ask, fil, h).kind # "free"
         /\ Seen(hp, ask, fil, h).cells = CellsOf(hp, h)
<1> DEFINE kind(x) == IF IsSystem(x.handles[h].state) THEN "system" ELSE "moveable"
<1>1. kind(q) = kind(hp) /\ kind(hp) # "free"
  OBVIOUS
<1>2. \A x : Seen(x, ask, fil, h)
               = [kind |-> kind(x), cells |-> CellsOf(x, h), written |-> h \in fil]
  BY DEF Seen
<1> HIDE DEF kind
<1> QED BY <1>1, <1>2

\* What lock and unlock do to a handle of the system's memory.
SystemTurned(hp, q, h, state) == q = [hp EXCEPT !.handles[h].state = state]

\* Locking or unlocking one of the system's blocks leaves the heap in order.
LEMMA SystemTurnedGood ==
  ASSUME NEW hp, NEW ask, NEW fil, NEW B, Good(hp, ask, fil, B, {}),
         NEW h \in DOMAIN hp.handles, IsSystem(hp.handles[h].state),
         NEW state \in {SYSTEM, SYSTEM + LOCKED}, NEW q, SystemTurned(hp, q, h, state)
  PROVE  /\ Good(q, ask, fil, B, {}) /\ SeenBeside(hp, ask, fil, q, ask, fil, h)
         /\ q.handles[h].state = state
<1> DEFINE v == [hp.handles[h] EXCEPT !.state = state]
<1>0. /\ hp \in HeapT /\ Asked(hp, ask) /\ Kept(hp, ask, fil) /\ Systems(hp)
      /\ hp.handles \in HandlesT
  BY DEF Good, HeapT
<1>1. v \in HandleT /\ v.state = state
  <2>1. hp.handles[h] \in HandleT
    BY <1>0 DEF HandlesT
  <2> QED BY <2>1 DEF HandleT
<1>2. q = [hp EXCEPT !.handles = [hp.handles EXCEPT ![h] = v]]
  BY <1>0 DEF SystemTurned, HeapT
<1> HIDE DEF v
<1>3. /\ q.handles \in HandlesT /\ DOMAIN q.handles = DOMAIN hp.handles /\ q.handles[h] = v
      /\ \A g \in DOMAIN hp.handles : g # h => q.handles[g] = hp.handles[g]
  <2>1. q.handles = [hp.handles EXCEPT ![h] = v]
    BY <1>0, <1>2 DEF HeapT
  <2> QED BY <2>1, <1>0, <1>1, HandleSet
<1>4. Outside(hp, q, h, v) /\ q.system = hp.system /\ q.systemBlocks = hp.systemBlocks
      /\ q.systemSize = hp.systemSize
  <2> DEFINE d == [hp.handles EXCEPT ![h] = v]
  <2>1. q = [hp EXCEPT !.handles = d]
    BY <1>2
  <2> HIDE DEF d
  <2>2. /\ q = [f \in DOMAIN hp |-> q[f]]
        /\ q.mem = hp.mem /\ q.size = hp.size /\ q.handles = d /\ q.system = hp.system
    BY <2>1, <1>0 DEF HeapT
  <2>3. /\ q.freeBlocks = hp.freeBlocks /\ q.freeSize = hp.freeSize
        /\ q.moveableBlocks = hp.moveableBlocks /\ q.moveableSize = hp.moveableSize
    BY <2>1, <1>0 DEF HeapT
  <2>4. /\ q.lockedBlocks = hp.lockedBlocks /\ q.lockedSize = hp.lockedSize
        /\ q.systemBlocks = hp.systemBlocks /\ q.systemSize = hp.systemSize
    BY <2>1, <1>0 DEF HeapT
  <2> QED BY <2>2, <2>3, <2>4 DEF Outside, d
<1>5. q.system \in [Handle -> Nat] /\ q.systemBlocks \in Int /\ q.systemSize \in Int
  BY <1>0, <1>4 DEF HeapT
<1>6. /\ Unbound(hp.handles[h].state) /\ Unbound(v.state) /\ ~ BoundTo(q, h)
      /\ state # INVALID /\ hp.handles[h].state # INVALID /\ IsSystem(state)
  BY <1>1, <1>3 DEF Unbound, BoundTo, IsSystem, INVALID, MOVABLE, LOCKED, SYSTEM
<1>7. Written(q, h, ask, fil, fil)
  BY <1>0, <1>6 DEF Written, Kept
<1>8. Asked(q, ask)
  <2>1. \A g \in DOMAIN hp.handles : q.handles[g].state # INVALID <=> hp.handles[g].state # INVALID
    BY <1>1, <1>3, <1>6
  <2> QED BY <2>1, <1>0, <1>3 DEF Asked
<1>9. Systems(q)
  <2>1. SystemOnes(q) = SystemOnes(hp)
    <3>1. \A g \in DOMAIN hp.handles : IsSystem(q.handles[g].state) <=> IsSystem(hp.handles[g].state)
      BY <1>1, <1>3, <1>6
    <3> QED BY <3>1, <1>3 DEF SystemOnes
  <2> QED BY <2>1, <1>0, <1>4, SystemsSame
<1>10. Good(q, ask, fil, B, {})
  BY <1>1, <1>4, <1>5, <1>6, <1>7, <1>8, <1>9, GoodOutside
<1>11. \A g \in DOMAIN hp.handles : g # h => Untouched(hp, q, g)
  <2>1. \A b : SizeAt(q, b) = SizeAt(hp, b)
    BY <1>4 DEF Outside, SizeAt
  <2> QED BY <2>1, <1>3 DEF Untouched
<1>12. SeenBeside(hp, ask, fil, q, ask, fil, h)
  BY <1>11, SeenBesides
<1> QED BY <1>1, <1>3, <1>10, <1>12

\* What lock and unlock do to a handle of the heap.
LEMMA TurnedGood ==
  ASSUME NEW hp, NEW ask, NEW fil, NEW B, Good(hp, ask, fil, B, {}),
         NEW h \in DOMAIN hp.handles, BoundTo(hp, h), NEW state \in {MOVABLE, LOCKED},
         NEW q, Marked(hp, q, h, state), Counted(hp, q, h)
  PROVE  /\ Good(q, ask, fil, B, {}) /\ SeenBeside(hp, ask, fil, q, ask, fil, h)
         /\ q.handles[h].state = state
<1> DEFINE a == hp.handles[h].data
<1>1. /\ Good(q, ask, fil, B, {})
      /\ a \in B /\ SizeAt(q, a) = SizeAt(hp, a)
      /\ DOMAIN q.handles = DOMAIN hp.handles
      /\ q.handles[h].state = state /\ q.handles[h].data = a
      /\ \A g \in DOMAIN hp.handles : g # h => q.handles[g] = hp.handles[g]
      /\ \A b \in B : b # a => Intact(hp, q, b)
  BY MarkedGood
<1>2. \A b \in B : SizeAt(q, b) = SizeAt(hp, b)
  BY <1>1 DEF Intact
<1>3. ASSUME NEW g \in DOMAIN hp.handles, g # h PROVE Untouched(hp, q, g)
  <2>1. BoundTo(hp, g) => hp.handles[g].data \in B
    BY DEF Good, Owners, Live
  <2> QED BY <2>1, <1>1, <1>2, <1>3 DEF Untouched, BoundTo
<1>4. SeenBeside(hp, ask, fil, q, ask, fil, h)
  BY <1>3, SeenBesides
<1> QED BY <1>1, <1>4

-----------------------------------------------------------------------------
\* What a step on the handle h leaves: a heap in order, all else seen as before.
StepOn(h, C) ==
  /\ Good(heap', asked', filled', C, {})
  /\ SeenBeside(heap, asked, filled, heap', asked', filled', h)

\* The step is seen as a block that is locked, or unlocked.
Turned(h) ==
  /\ Seen(heap', asked', filled', h)
       = [Seen(heap, asked, filled, h) EXCEPT !.cells = CellsOf(heap', h)]
  /\ Seen(heap, asked, filled, h).kind # "free"
  /\ Seen(heap, asked, filled, h).cells = CellsOf(heap, h)

\* Lock leaves the heap in order, and is seen as a block that gets its cells.
LEMMA LockStep ==
  ASSUME NEW B, Good(heap, asked, filled, B, {}), NEW h \in Handle, Lock(h)
  PROVE  /\ StepOn(h, B) /\ Turned(h)
         /\ asked'[h] # 0 /\ IsLocked(heap'.handles[h].state) /\ CellsOf(heap, h) = {}
<1> DEFINE handle == heap.handles[h]
           size == SizeAt(heap, handle.data)
<1>0. heap \in HeapT /\ Tiled(heap, B) /\ Owners(heap, asked, B, {}) /\ Asked(heap, asked)
  BY DEF Good
<1>1. h \in DOMAIN heap.handles /\ asked' = asked /\ filled' = filled
  BY DEF Lock
<1>2. \/ /\ handle.state = MOVABLE
         /\ heap' = [heap EXCEPT !.mem[handle.data].state = LOCKED,
                                 !.handles[h].state = LOCKED,
                                 !.moveableBlocks = @ - 1, !.lockedBlocks = @ + 1,
                                 !.moveableSize = @ - size, !.lockedSize = @ + size]
      \/ /\ handle.state = SYSTEM
         /\ heap' = [heap EXCEPT !.handles[h].state = SYSTEM + LOCKED]
  BY DEF Lock
<1>3. asked[h] # 0
  <2>1. handle.state # INVALID
    BY <1>2 DEF MOVABLE, SYSTEM, INVALID
  <2> QED BY <2>1, <1>0, <1>1 DEF Asked
<1>4. CASE handle.state = MOVABLE
  <2>1. BoundTo(heap, h) /\ MOVABLE # SYSTEM /\ LOCKED # MOVABLE
    BY <1>4 DEF BoundTo, MOVABLE, SYSTEM, LOCKED
  <2>2. size \in Nat
    <3>1. handle.data \in B
      BY <2>1, <1>0, <1>1 DEF Owners, Live
    <3> QED BY <3>1, <1>0, BlockFacts
  <2>3. heap' = [heap EXCEPT !.mem[handle.data].state = LOCKED,
                             !.handles[h].state = LOCKED,
                             !.moveableBlocks = @ - 1, !.lockedBlocks = @ + 1,
                             !.moveableSize = @ - size, !.lockedSize = @ + size]
    BY <2>1, <1>2, <1>4
  <2>4. /\ Marked(heap, heap', h, LOCKED)
        /\ heap'.moveableBlocks = heap.moveableBlocks - 1
        /\ heap'.moveableSize = heap.moveableSize - size
        /\ heap'.lockedBlocks = heap.lockedBlocks + 1
        /\ heap'.lockedSize = heap.lockedSize + size
    <3>1. heap' = Locking(heap, h, size)
      BY <2>3 DEF Locking
    <3> HIDE DEF size
    <3> QED BY <2>2, <3>1, <1>0, LockUnfolds
  <2>5. Counted(heap, heap', h)
    <3>1. size = SizeAt(heap, heap.handles[h].data)
      OBVIOUS
    <3>2. 1 \in {1, -1} /\ (1 = 1 <=> LOCKED = LOCKED) /\ LOCKED \in {MOVABLE, LOCKED}
      OBVIOUS
    <3>3. heap'.moveableSize = heap.moveableSize - 1 * size
          /\ heap'.lockedSize = heap.lockedSize + 1 * size
      BY <2>2, <2>4
    <3> HIDE DEF size
    <3> QED BY <2>1, <2>4, <3>1, <3>2, <3>3, <1>1, <1>4, MarkCounted
  <2>6. /\ Good(heap', asked, filled, B, {})
        /\ SeenBeside(heap, asked, filled, heap', asked, filled, h)
        /\ heap'.handles[h].state = LOCKED
    BY <2>1, <2>4, <2>5, <1>1, TurnedGood
  <2>7. /\ IsSystem(heap'.handles[h].state) <=> IsSystem(heap.handles[h].state)
        /\ IsLocked(heap'.handles[h].state) /\ ~ IsLocked(heap.handles[h].state)
    BY <2>6, <1>4 DEF IsSystem, IsLocked, MOVABLE, SYSTEM, LOCKED
  <2>8. Turned(h)
    BY <2>7, <1>1, <1>3, SeenTurned DEF Turned
  <2> QED BY <2>6, <2>7, <2>8, <1>1, <1>3 DEF StepOn, CellsOf
<1>5. CASE handle.state = SYSTEM
  <2>1. MOVABLE # SYSTEM /\ IsSystem(handle.state)
    BY <1>5 DEF IsSystem, MOVABLE, SYSTEM
  <2>2. SystemTurned(heap, heap', h, SYSTEM + LOCKED)
    BY <2>1, <1>2, <1>5 DEF SystemTurned
  <2>3. /\ Good(heap', asked, filled, B, {})
        /\ SeenBeside(heap, asked, filled, heap', asked, filled, h)
        /\ heap'.handles[h].state = SYSTEM + LOCKED
    <3>1. SYSTEM + LOCKED \in {SYSTEM, SYSTEM + LOCKED}
      OBVIOUS
    <3> QED BY <3>1, <2>1, <2>2, <1>1, SystemTurnedGood
  <2>4. /\ IsSystem(heap'.handles[h].state) <=> IsSystem(heap.handles[h].state)
        /\ IsLocked(heap'.handles[h].state) /\ ~ IsLocked(heap.handles[h].state)
    BY <2>3, <1>5 DEF IsSystem, IsLocked, SYSTEM, LOCKED
  <2>5. Turned(h)
    BY <2>4, <1>1, <1>3, SeenTurned DEF Turned
  <2> QED BY <2>3, <2>4, <2>5, <1>1, <1>3 DEF StepOn, CellsOf
<1> QED BY <1>2, <1>4, <1>5

\* Unlock does, and is seen as a block that gives up its cells.
LEMMA UnlockStep ==
  ASSUME NEW B, Good(heap, asked, filled, B, {}), NEW h \in Handle, Unlock(h)
  PROVE  /\ StepOn(h, B) /\ Turned(h)
         /\ asked[h] # 0 /\ IsLocked(heap.handles[h].state) /\ CellsOf(heap', h) = {}
<1> DEFINE handle == heap.handles[h]
           size == SizeAt(heap, handle.data)
<1>0. heap \in HeapT /\ Tiled(heap, B) /\ Owners(heap, asked, B, {}) /\ Asked(heap, asked)
  BY DEF Good
<1>1. h \in DOMAIN heap.handles /\ asked' = asked /\ filled' = filled
  BY DEF Unlock
<1>2. \/ /\ handle.state = LOCKED
         /\ heap' = [heap EXCEPT !.mem[handle.data].state = MOVABLE,
                                 !.handles[h].state = MOVABLE,
                                 !.moveableBlocks = @ + 1, !.lockedBlocks = @ - 1,
                                 !.moveableSize = @ + size, !.lockedSize = @ - size]
      \/ /\ handle.state = SYSTEM + LOCKED
         /\ heap' = [heap EXCEPT !.handles[h].state = SYSTEM]
  BY DEF Unlock
<1>3. asked[h] # 0
  <2>1. handle.state # INVALID
    BY <1>2 DEF LOCKED, SYSTEM, INVALID
  <2> QED BY <2>1, <1>0, <1>1 DEF Asked
<1>4. CASE handle.state = LOCKED
  <2>1. BoundTo(heap, h) /\ LOCKED # SYSTEM + LOCKED /\ LOCKED # MOVABLE
    BY <1>4 DEF BoundTo, MOVABLE, SYSTEM, LOCKED
  <2>2. size \in Nat
    <3>1. handle.data \in B
      BY <2>1, <1>0, <1>1 DEF Owners, Live
    <3> QED BY <3>1, <1>0, BlockFacts
  <2>3. heap' = [heap EXCEPT !.mem[handle.data].state = MOVABLE,
                             !.handles[h].state = MOVABLE,
                             !.moveableBlocks = @ + 1, !.lockedBlocks = @ - 1,
                             !.moveableSize = @ + size, !.lockedSize = @ - size]
    BY <2>1, <1>2, <1>4
  <2>4. /\ Marked(heap, heap', h, MOVABLE)
        /\ heap'.moveableBlocks = heap.moveableBlocks + 1
        /\ heap'.moveableSize = heap.moveableSize + size
        /\ heap'.lockedBlocks = heap.lockedBlocks - 1
        /\ heap'.lockedSize = heap.lockedSize - size
    <3>1. heap' = Unlocking(heap, h, size)
      BY <2>3 DEF Unlocking
    <3> HIDE DEF size
    <3> QED BY <2>2, <3>1, <1>0, UnlockUnfolds
  <2>5. Counted(heap, heap', h)
    <3>1. size = SizeAt(heap, heap.handles[h].data)
      OBVIOUS
    <3>2. -1 \in {1, -1} /\ (-1 = 1 <=> MOVABLE = LOCKED) /\ MOVABLE \in {MOVABLE, LOCKED}
      BY <2>1
    <3>3. /\ heap.moveableBlocks \in Int /\ heap.moveableSize \in Int
          /\ heap.lockedBlocks \in Int /\ heap.lockedSize \in Int
      BY <1>0 DEF HeapT
    <3>4. /\ heap'.moveableBlocks = heap.moveableBlocks - (-1)
          /\ heap'.moveableSize = heap.moveableSize - (-1) * size
          /\ heap'.lockedBlocks = heap.lockedBlocks + (-1)
          /\ heap'.lockedSize = heap.lockedSize + (-1) * size
      BY <2>2, <2>4, <3>3
    <3> HIDE DEF size
    <3> QED BY <2>1, <2>4, <3>1, <3>2, <3>4, <1>1, <1>4, MarkCounted
  <2>6. /\ Good(heap', asked, filled, B, {})
        /\ SeenBeside(heap, asked, filled, heap', asked, filled, h)
        /\ heap'.handles[h].state = MOVABLE
    BY <2>1, <2>4, <2>5, <1>1, TurnedGood
  <2>7. /\ IsSystem(heap'.handles[h].state) <=> IsSystem(heap.handles[h].state)
        /\ ~ IsLocked(heap'.handles[h].state) /\ IsLocked(heap.handles[h].state)
    BY <2>6, <1>4 DEF IsSystem, IsLocked, MOVABLE, SYSTEM, LOCKED
  <2>8. Turned(h)
    BY <2>7, <1>1, <1>3, SeenTurned DEF Turned
  <2> QED BY <2>6, <2>7, <2>8, <1>1, <1>3 DEF StepOn, CellsOf
<1>5. CASE handle.state = SYSTEM + LOCKED
  <2>1. LOCKED # SYSTEM + LOCKED /\ IsSystem(handle.state)
    BY <1>5 DEF IsSystem, LOCKED, SYSTEM
  <2>2. SystemTurned(heap, heap', h, SYSTEM)
    BY <2>1, <1>2, <1>5 DEF SystemTurned
  <2>3. /\ Good(heap', asked, filled, B, {})
        /\ SeenBeside(heap, asked, filled, heap', asked, filled, h)
        /\ heap'.handles[h].state = SYSTEM
    <3>1. SYSTEM \in {SYSTEM, SYSTEM + LOCKED}
      OBVIOUS
    <3> QED BY <3>1, <2>1, <2>2, <1>1, SystemTurnedGood
  <2>4. /\ IsSystem(heap'.handles[h].state) <=> IsSystem(heap.handles[h].state)
        /\ ~ IsLocked(heap'.handles[h].state) /\ IsLocked(heap.handles[h].state)
    BY <2>3, <1>5 DEF IsSystem, IsLocked, SYSTEM, LOCKED
  <2>5. Turned(h)
    BY <2>4, <1>1, <1>3, SeenTurned DEF Turned
  <2> QED BY <2>3, <2>4, <2>5, <1>1, <1>3 DEF StepOn, CellsOf
<1> QED BY <1>2, <1>4, <1>5

-----------------------------------------------------------------------------
\* The cells of a locked block, and of two of them.

\* A locked block has cells, in the memory or the system's.
LEMMA CellsThere ==
  ASSUME NEW hp, NEW ask, NEW fil, NEW B, Good(hp, ask, fil, B, {}),
         NEW h \in Handle, ask[h] # 0, IsLocked(hp.handles[h].state)
  PROVE  CellsOf(hp, h) # {} /\ CellsOf(hp, h) \subseteq - MaxHandles .. HeapSize - 1
<1>0. /\ HeapSize \in Nat /\ Cell = 0 .. HeapSize - 1 /\ MaxHandles \in Nat
      /\ Handle = 0 .. MaxHandles - 1
  BY HeapSizeIs, HeapAssumption DEF Cell, Handle
<1>1. CASE IsSystem(hp.handles[h].state)
  BY <1>0, <1>1 DEF CellsOf
<1>2. CASE ~ IsSystem(hp.handles[h].state)
  <2> DEFINE a == hp.handles[h].data
  <2>1. h \in DOMAIN hp.handles /\ BoundTo(hp, h)
    BY <1>2, InUse
  <2>2. a \in B /\ Tiled(hp, B)
    BY <2>1 DEF Good, Owners, Live
  <2> HIDE DEF a
  <2>3. a \in Nat /\ SizeAt(hp, a) \in Nat /\ a + SizeAt(hp, a) + 1 \in Cell
    <3>1. /\ a \in Nat /\ SizeAt(hp, a) \in Nat /\ After(hp, a) = a + SizeAt(hp, a) + 2
          /\ After(hp, a) - 1 \in Cell
      BY <2>2, BlockFacts
    <3> QED BY <3>1
  <2>4. CellsOf(hp, h) = a .. a + SizeAt(hp, a) + 1
    BY <1>2 DEF CellsOf, a
  <2> QED BY <2>3, <2>4, <1>0
<1> QED BY <1>1, <1>2

\* Two blocks have no cell in common.
LEMMA CellsApart ==
  ASSUME NEW hp, NEW ask, NEW fil, NEW B, Good(hp, ask, fil, B, {}),
         NEW h \in Handle, ask[h] # 0, NEW g \in Handle, ask[g] # 0, g # h
  PROVE  CellsOf(hp, g) \cap CellsOf(hp, h) = {}
<1>0. Handle \in SUBSET Nat
  BY HeapAssumption DEF Handle
<1>1. ASSUME NEW x \in Handle, ask[x] # 0, ~ IsSystem(hp.handles[x].state)
      PROVE  LET a == hp.handles[x].data IN
             /\ a \in B /\ a \in Nat /\ SizeAt(hp, a) \in Nat
             /\ After(hp, a) = a + SizeAt(hp, a) + 2 /\ hp.mem[a].handle_index = x
             /\ \A c \in B : a < c => After(hp, a) <= c
             /\ CellsOf(hp, x) \subseteq a .. After(hp, a) - 1
  <2> DEFINE a == hp.handles[x].data
  <2>1. x \in DOMAIN hp.handles /\ BoundTo(hp, x)
    BY <1>1, InUse
  <2>2. a \in B /\ Tiled(hp, B) /\ hp.mem[a].handle_index = x
    BY <2>1 DEF Good, Owners, Live
  <2>3. CellsOf(hp, x) \subseteq a .. a + SizeAt(hp, a) + 1
    BY <1>1 DEF CellsOf
  <2> HIDE DEF a
  <2>4. a \in Nat /\ SizeAt(hp, a) \in Nat /\ After(hp, a) = a + SizeAt(hp, a) + 2
    BY <2>2, BlockFacts
  <2>5. \A c \in B : a < c => After(hp, a) <= c
    BY <2>2 DEF Tiled
  <2> QED BY <2>2, <2>3, <2>4, <2>5 DEF a
<1>2. \A x \in Handle : IsSystem(hp.handles[x].state) => CellsOf(hp, x) \subseteq {- x - 1}
  BY DEF CellsOf
<1>3. CASE IsSystem(hp.handles[h].state) /\ IsSystem(hp.handles[g].state)
  BY <1>0, <1>2, <1>3
<1>4. CASE IsSystem(hp.handles[h].state) /\ ~ IsSystem(hp.handles[g].state)
  BY <1>0, <1>1, <1>2, <1>4
<1>5. CASE ~ IsSystem(hp.handles[h].state) /\ IsSystem(hp.handles[g].state)
  BY <1>0, <1>1, <1>2, <1>5
<1>6. CASE ~ IsSystem(hp.handles[h].state) /\ ~ IsSystem(hp.handles[g].state)
  <2> DEFINE a == hp.handles[h].data  b == hp.handles[g].data
  <2>1. /\ a \in B /\ a \in Nat /\ SizeAt(hp, a) \in Nat
        /\ After(hp, a) = a + SizeAt(hp, a) + 2 /\ hp.mem[a].handle_index = h
        /\ \A c \in B : a < c => After(hp, a) <= c
        /\ CellsOf(hp, h) \subseteq a .. After(hp, a) - 1
    BY <1>1, <1>6
  <2>2. /\ b \in B /\ b \in Nat /\ SizeAt(hp, b) \in Nat
        /\ After(hp, b) = b + SizeAt(hp, b) + 2 /\ hp.mem[b].handle_index = g
        /\ \A c \in B : b < c => After(hp, b) <= c
        /\ CellsOf(hp, g) \subseteq b .. After(hp, b) - 1
    BY <1>1, <1>6
  <2> HIDE DEF a, b
  <2>3. a < b \/ b < a
    <3>1. a # b
      BY <2>1, <2>2
    <3> QED BY <3>1, <2>1, <2>2
  <2>4. After(hp, a) <= b \/ After(hp, b) <= a
    BY <2>1, <2>2, <2>3
  <2>5. \A c : ~ (c \in a .. After(hp, a) - 1 /\ c \in b .. After(hp, b) - 1)
    BY <2>1, <2>2, <2>4
  <2> QED BY <2>1, <2>2, <2>5
<1> QED BY <1>3, <1>4, <1>5, <1>6

-----------------------------------------------------------------------------
\* Filling a block.

\* A block that is filled is seen as written.
LEMMA SeenWritten ==
  ASSUME NEW hp, NEW q, NEW ask, NEW fil, NEW h, ask[h] # 0,
         q.handles[h].state = hp.handles[h].state, CellsOf(q, h) = CellsOf(hp, h)
  PROVE  Seen(q, ask, fil \cup {h}, h) = [Seen(hp, ask, fil, h) EXCEPT !.written = TRUE]
<1> DEFINE kind == IF IsSystem(hp.handles[h].state) THEN "system" ELSE "moveable"
           cells == CellsOf(hp, h)
           was == h \in fil
           now == h \in fil \cup {h}
<1>1. /\ Seen(hp, ask, fil, h) = [kind |-> kind, cells |-> cells, written |-> was]
      /\ Seen(q, ask, fil \cup {h}, h) = [kind |-> kind, cells |-> cells, written |-> now]
  BY DEF Seen
<1>2. Seen(q, ask, fil \cup {h}, h) = [kind |-> kind, cells |-> cells, written |-> TRUE]
  <2>1. now = TRUE
    OBVIOUS
  <2> HIDE DEF kind, cells, was, now
  <2> QED BY <1>1, <2>1, Zenon
<1> DEFINE yes == TRUE
<1>3. Seen(q, ask, fil \cup {h}, h) = [kind |-> kind, cells |-> cells, written |-> yes]
  BY <1>2
<1> HIDE DEF kind, cells, was, now, yes
<1>4. Seen(q, ask, fil \cup {h}, h) = [Seen(hp, ask, fil, h) EXCEPT !.written = yes]
  BY <1>1, <1>3
<1> QED BY <1>4 DEF yes

\* Fill leaves the heap in order, and is seen as a block that is written.
LEMMA FillStep ==
  ASSUME NEW B, Good(heap, asked, filled, B, {}), NEW h \in Handle, Fill(h)
  PROVE  /\ StepOn(h, B)
         /\ Seen(heap', asked', filled', h)
              = [Seen(heap, asked, filled, h) EXCEPT !.written = TRUE]
         /\ Seen(heap, asked, filled, h).cells # {}
<1> DEFINE full == filled \cup {h}
<1>0. heap \in HeapT /\ Asked(heap, asked) /\ Kept(heap, asked, filled) /\ Systems(heap)
  BY DEF Good
<1>1. h \in DOMAIN heap.handles /\ asked' = asked /\ filled' = full
      /\ IsLocked(heap.handles[h].state)
  BY DEF Fill
<1>2. asked[h] # 0 /\ heap.handles[h].state # INVALID
  <2>1. heap.handles[h].state # INVALID
    BY <1>1 DEF IsLocked, LOCKED, SYSTEM, INVALID
  <2> QED BY <2>1, <1>0, <1>1 DEF Asked
<1>3. Seen(heap, asked, filled, h).cells # {}
  <2>1. CellsOf(heap, h) # {}
    BY <1>1, <1>2, CellsThere
  <2> QED BY <2>1, <1>2 DEF Seen
<1> HIDE DEF full
<1>4. CASE IsSystem(heap.handles[h].state)
  <2>1. heap' = heap
    BY <1>4 DEF Fill
  <2>2. ~ BoundTo(heap, h)
    BY <1>4 DEF BoundTo, IsSystem, MOVABLE, LOCKED, SYSTEM
  <2>3. Kept(heap, asked, full)
    BY <2>2, <1>0, <1>2 DEF Kept, full
  <2>4. Good(heap, asked, full, B, {})
    BY <2>3 DEF Good
  <2>5. \A g \in DOMAIN heap.handles : g # h => Untouched(heap, heap, g)
    BY DEF Untouched
  <2>6. \A g \in Handle : g # h => asked[g] = asked[g] /\ (g \in full <=> g \in filled)
    BY DEF full
  <2>7. SeenBeside(heap, asked, filled, heap, asked, full, h)
    BY <2>5, <2>6, SeenBesides
  <2>8. Seen(heap, asked, full, h) = [Seen(heap, asked, filled, h) EXCEPT !.written = TRUE]
    BY <1>2, SeenWritten DEF full
  <2> QED BY <2>1, <2>4, <2>7, <2>8, <1>1, <1>3 DEF StepOn
<1>5. CASE ~ IsSystem(heap.handles[h].state)
  <2>1. BoundTo(heap, h)
    BY <1>2, <1>5, InUse
  <2>2. heap' = [heap EXCEPT !.mem = PaintedMem(heap, h, asked)]
    BY <1>5 DEF Fill, PaintedMem
  <2>3. /\ Good(heap', asked, full, B, {})
        /\ heap'.handles = heap.handles /\ \A b \in B : SizeAt(heap', b) = SizeAt(heap, b)
    BY <2>1, <2>2, <1>1, PaintedGood DEF full
  <2>4. \A g \in DOMAIN heap.handles : BoundTo(heap, g) => heap.handles[g].data \in B
    BY DEF Good, Owners, Live
  <2>5. \A g \in DOMAIN heap.handles : Untouched(heap, heap', g)
    BY <2>3, <2>4 DEF Untouched, BoundTo
  <2>6. \A g \in Handle : g # h => asked[g] = asked[g] /\ (g \in full <=> g \in filled)
    BY DEF full
  <2>7. SeenBeside(heap, asked, filled, heap', asked, full, h)
    BY <2>5, <2>6, SeenBesides
  <2>8. CellsOf(heap', h) = CellsOf(heap, h)
    BY <2>1, <2>3, <2>4, <1>1 DEF CellsOf
  <2>9. Seen(heap', asked, full, h) = [Seen(heap, asked, filled, h) EXCEPT !.written = TRUE]
    BY <2>3, <2>8, <1>2, SeenWritten DEF full
  <2> QED BY <2>3, <2>7, <2>9, <1>1, <1>3 DEF StepOn
<1> QED BY <1>4, <1>5

-----------------------------------------------------------------------------
\* Deallocating.

\* heap_deallocate of a block of the system.
SystemFreed(hp, h) ==
  [[hp EXCEPT !.handles[h] = NoHandle]
     EXCEPT !.systemBlocks = @ - 1, !.systemSize = @ - hp.system[h], !.system[h] = 0]

\* The fields of the heap with one of the system's blocks given back.
LEMMA SystemFreedFacts ==
  ASSUME NEW hp \in HeapT, NEW h
  PROVE  LET q == SystemFreed(hp, h) IN
         /\ Outside(hp, q, h, NoHandle) /\ q.system = [hp.system EXCEPT ![h] = 0]
         /\ q.systemBlocks = hp.systemBlocks - 1
         /\ q.systemSize = hp.systemSize - hp.system[h]
<1> DEFINE q == SystemFreed(hp, h)
           d == [hp.handles EXCEPT ![h] = NoHandle]
           s == [hp.system EXCEPT ![h] = 0]
           sb == hp.systemBlocks - 1
           ss == hp.systemSize - hp.system[h]
<1>1. q = [hp EXCEPT !.handles = d, !.systemBlocks = sb, !.systemSize = ss, !.system = s]
  BY DEF SystemFreed, HeapT
<1> HIDE DEF q, d, s, sb, ss
<1>2. /\ q = [f \in DOMAIN hp |-> q[f]] /\ q.mem = hp.mem /\ q.size = hp.size
      /\ q.handles = d /\ q.system = s
  BY <1>1 DEF HeapT
<1>3. /\ q.freeBlocks = hp.freeBlocks /\ q.freeSize = hp.freeSize
      /\ q.moveableBlocks = hp.moveableBlocks /\ q.moveableSize = hp.moveableSize
  BY <1>1 DEF HeapT
<1>4. /\ q.lockedBlocks = hp.lockedBlocks /\ q.lockedSize = hp.lockedSize
      /\ q.systemBlocks = sb /\ q.systemSize = ss
  BY <1>1 DEF HeapT
<1>5. Outside(hp, q, h, NoHandle)
  BY <1>2, <1>3, <1>4 DEF Outside, d
<1> QED BY <1>2, <1>4, <1>5 DEF q, s, sb, ss

\* It is in order.
LEMMA SystemFreedGood ==
  ASSUME NEW hp, NEW ask, NEW fil, NEW B, Good(hp, ask, fil, B, {}),
         NEW h \in DOMAIN hp.handles, hp.handles[h].state = SYSTEM
  PROVE  LET q == SystemFreed(hp, h) IN
         /\ Good(q, [ask EXCEPT ![h] = 0], fil \ {h}, B, {})
         /\ \A g \in DOMAIN hp.handles : g # h => Untouched(hp, q, g)
<1> DEFINE q == SystemFreed(hp, h)
           new == [ask EXCEPT ![h] = 0]
           full == fil \ {h}
<1>0. /\ hp \in HeapT /\ Asked(hp, ask) /\ Kept(hp, ask, fil) /\ Systems(hp)
      /\ hp.handles \in HandlesT /\ hp.system \in [Handle -> Nat]
      /\ hp.systemBlocks \in Int /\ hp.systemSize \in Int
  BY DEF Good, HeapT
<1>1. /\ Outside(hp, q, h, NoHandle) /\ q.system = [hp.system EXCEPT ![h] = 0]
      /\ q.systemBlocks = hp.systemBlocks - 1
      /\ q.systemSize = hp.systemSize - hp.system[h]
  BY <1>0, SystemFreedFacts
<1> HIDE DEF q
<1>2. NoHandle \in HandleT /\ NoHandle.state = INVALID
  BY DEF NoHandle, HandleT
<1>3. /\ DOMAIN q.handles = DOMAIN hp.handles /\ q.handles[h] = NoHandle
      /\ \A g \in DOMAIN hp.handles : g # h => q.handles[g] = hp.handles[g]
  <2>1. q.handles = [hp.handles EXCEPT ![h] = NoHandle]
    BY <1>1 DEF Outside
  <2> QED BY <2>1, <1>0, <1>2, HandleSet
<1>4. /\ SYSTEM # INVALID /\ IsSystem(SYSTEM) /\ ~ IsSystem(INVALID)
      /\ Unbound(SYSTEM) /\ Unbound(INVALID)
  BY DEF IsSystem, Unbound, SYSTEM, LOCKED, MOVABLE, INVALID
<1>5. h \in Handle /\ ask \in [Handle -> Nat] /\ new \in [Handle -> Nat] /\ new[h] = 0
      /\ \A g : g # h => new[g] = ask[g]
  <2>1. ask \in [Handle -> Nat] /\ h \in Handle
    BY <1>0, <1>4 DEF Asked
  <2>2. \A g : g # h => new[g] = ask[g]
    BY <2>1
  <2> QED BY <2>1, <2>2
<1> HIDE DEF new
<1>6. q.system \in [Handle -> Nat] /\ q.systemBlocks \in Int /\ q.systemSize \in Int
  <2>1. hp.system[h] \in Int
    BY <1>0, <1>5
  <2> QED BY <2>1, <1>0, <1>1, <1>5
<1>7. Written(q, h, new, fil, full)
  BY <1>0, <1>5 DEF Written, Kept
<1>8. Asked(q, new)
  BY <1>0, <1>2, <1>3, <1>5 DEF Asked
<1>9. Systems(q)
  <2>1. SystemOnes(q) = SystemOnes(hp) \ {h}
    <3>1. \A g \in DOMAIN hp.handles :
            IsSystem(q.handles[g].state) <=> IsSystem(hp.handles[g].state) /\ g # h
      BY <1>2, <1>3, <1>4
    <3> QED BY <3>1, <1>3 DEF SystemOnes
  <2>2. h \in SystemOnes(hp)
    BY <1>4 DEF SystemOnes
  <2>3. SystemOnes(hp) \subseteq Handle
    <3>1. \A g \in SystemOnes(hp) : g \in DOMAIN hp.handles /\ hp.handles[g].state # INVALID
      BY <1>4 DEF SystemOnes
    <3> QED BY <3>1, <1>0 DEF Asked
  <2> QED BY <2>1, <2>2, <2>3, <1>0, <1>1, SystemsRemove
<1> HIDE DEF full
<1>10. Good(q, new, full, B, {})
  <2>1. Unbound(hp.handles[h].state) /\ Unbound(NoHandle.state)
    BY <1>2, <1>4
  <2> QED BY <2>1, <1>1, <1>2, <1>5, <1>6, <1>7, <1>8, <1>9, GoodOutside
<1>11. \A g \in DOMAIN hp.handles : g # h => Untouched(hp, q, g)
  <2>1. \A b : SizeAt(q, b) = SizeAt(hp, b)
    BY <1>1 DEF Outside, SizeAt
  <2> QED BY <2>1, <1>3 DEF Untouched
<1> QED BY <1>10, <1>11 DEF q, new, full

\* Deallocate leaves the heap in order, and is seen as a block that is gone.
LEMMA DeallocateStep ==
  ASSUME NEW B, Good(heap, asked, filled, B, {}), NEW h \in Handle, Deallocate(h)
  PROVE  /\ StepOn(h, B)
         /\ Seen(heap', asked', filled', h) = NotSeen
         /\ Seen(heap, asked, filled, h).cells = {}
<1> DEFINE handle == heap.handles[h]
           size == SizeAt(heap, handle.data)
           new == [asked EXCEPT ![h] = 0]
           full == filled \ {h}
<1>0. heap \in HeapT /\ Asked(heap, asked)
  BY DEF Good
<1>1. h \in DOMAIN heap.handles /\ asked' = new /\ filled' = full
  BY DEF Deallocate
<1>2. \/ handle.state = MOVABLE /\ heap' = GivenBack(heap, h, size)
      \/ handle.state = SYSTEM /\ heap' = SystemFreed(heap, h)
  BY DEF Deallocate, GivenBack, SystemFreed
<1>3. /\ Good(heap', new, full, B, {})
      /\ \A g \in DOMAIN heap.handles : g # h => Untouched(heap, heap', g)
  <2>1. CASE handle.state = MOVABLE /\ heap' = GivenBack(heap, h, size)
    BY <2>1, <1>1, GivenBackGood DEF Untouched
  <2>2. CASE handle.state = SYSTEM /\ heap' = SystemFreed(heap, h)
    BY <2>2, <1>1, SystemFreedGood
  <2> QED BY <2>1, <2>2, <1>2
<1>4. asked \in [Handle -> Nat] /\ new[h] = 0
      /\ \A g \in Handle : g # h => new[g] = asked[g] /\ (g \in full <=> g \in filled)
  <2>1. asked \in [Handle -> Nat]
    BY <1>0 DEF Asked
  <2> QED BY <2>1
<1> HIDE DEF new, full
<1>5. SeenBeside(heap, asked, filled, heap', new, full, h)
  BY <1>3, <1>4, SeenBesides
<1>6. Seen(heap', new, full, h) = NotSeen
  BY <1>4 DEF Seen
<1>7. Seen(heap, asked, filled, h).cells = {}
  <2>1. ~ IsLocked(handle.state)
    BY <1>2 DEF IsLocked, MOVABLE, LOCKED, SYSTEM
  <2>2. CellsOf(heap, h) = {}
    BY <2>1 DEF CellsOf
  <2> QED BY <2>2 DEF Seen, NotSeen
<1> QED BY <1>1, <1>3, <1>5, <1>6, <1>7 DEF StepOn

-----------------------------------------------------------------------------
\* Allocating.

\* The fields of the heap with one more of the system's blocks.
LEMMA TakeSystemFacts ==
  ASSUME NEW hp \in HeapT, NEW size, NEW h
  PROVE  LET q == TakeSystem(hp, size, h) IN
         /\ Outside(hp, q, h, [state |-> SYSTEM, data |-> HeapSize + h])
         /\ q.system = [hp.system EXCEPT ![h] = size]
         /\ q.systemBlocks = hp.systemBlocks + 1
         /\ q.systemSize = hp.systemSize + size
<1> DEFINE q == TakeSystem(hp, size, h)
           v == [state |-> SYSTEM, data |-> HeapSize + h]
           d == [hp.handles EXCEPT ![h] = v]
           s == [hp.system EXCEPT ![h] = size]
           sb == hp.systemBlocks + 1
           ss == hp.systemSize + size
<1>1. q = [hp EXCEPT !.handles = d, !.system = s, !.systemBlocks = sb, !.systemSize = ss]
  <2>1. q = [hp EXCEPT !.handles[h] = v, !.system[h] = size, !.systemBlocks = @ + 1,
                       !.systemSize = @ + size]
    BY DEF TakeSystem
  <2> HIDE DEF v, q
  <2> QED BY <2>1 DEF HeapT
<1> HIDE DEF q, d, s, sb, ss
<1>2. /\ q = [f \in DOMAIN hp |-> q[f]] /\ q.mem = hp.mem /\ q.size = hp.size
      /\ q.handles = d /\ q.system = s
  BY <1>1 DEF HeapT
<1>3. /\ q.freeBlocks = hp.freeBlocks /\ q.freeSize = hp.freeSize
      /\ q.moveableBlocks = hp.moveableBlocks /\ q.moveableSize = hp.moveableSize
  BY <1>1 DEF HeapT
<1>4. /\ q.lockedBlocks = hp.lockedBlocks /\ q.lockedSize = hp.lockedSize
      /\ q.systemBlocks = sb /\ q.systemSize = ss
  BY <1>1 DEF HeapT
<1> HIDE DEF v
<1>5. Outside(hp, q, h, v)
  BY <1>2, <1>3, <1>4 DEF Outside, d
<1> QED BY <1>2, <1>4, <1>5 DEF q, s, sb, ss, v

\* It is in order.
LEMMA TakeSystemGood ==
  ASSUME NEW hp, NEW ask, NEW fil, NEW B, Good(hp, ask, fil, B, {}),
         NEW size \in Nat \ {0}, NEW h \in DOMAIN hp.handles, h \in Handle,
         hp.handles[h].state = INVALID
  PROVE  LET q == TakeSystem(hp, size, h) IN
         /\ Good(q, [ask EXCEPT ![h] = size], fil, B, {})
         /\ q.handles[h].state = SYSTEM
         /\ \A g \in DOMAIN hp.handles : g # h => Untouched(hp, q, g)
<1> DEFINE q == TakeSystem(hp, size, h)
           new == [ask EXCEPT ![h] = size]
           v == [state |-> SYSTEM, data |-> HeapSize + h]
<1>0. /\ hp \in HeapT /\ Asked(hp, ask) /\ Kept(hp, ask, fil) /\ Systems(hp)
      /\ hp.handles \in HandlesT /\ hp.system \in [Handle -> Nat]
      /\ hp.systemBlocks \in Int /\ hp.systemSize \in Int
  BY DEF Good, HeapT
<1>1. /\ Outside(hp, q, h, v) /\ q.system = [hp.system EXCEPT ![h] = size]
      /\ q.systemBlocks = hp.systemBlocks + 1
      /\ q.systemSize = hp.systemSize + size
  BY <1>0, TakeSystemFacts
<1> HIDE DEF q
<1>2. v \in HandleT /\ v.state = SYSTEM
  <2>1. HeapSize + h \in Int
    BY HeapSizeIs DEF Handle
  <2> QED BY <2>1 DEF HandleT
<1> HIDE DEF v
<1>3. /\ DOMAIN q.handles = DOMAIN hp.handles /\ q.handles[h] = v
      /\ \A g \in DOMAIN hp.handles : g # h => q.handles[g] = hp.handles[g]
  <2>1. q.handles = [hp.handles EXCEPT ![h] = v]
    BY <1>1 DEF Outside
  <2> QED BY <2>1, <1>0, <1>2, HandleSet
<1>4. /\ SYSTEM # INVALID /\ IsSystem(SYSTEM) /\ ~ IsSystem(INVALID)
      /\ Unbound(SYSTEM) /\ Unbound(INVALID)
  BY DEF IsSystem, Unbound, SYSTEM, LOCKED, MOVABLE, INVALID
<1>5. /\ ask \in [Handle -> Nat] /\ ask[h] = 0 /\ new \in [Handle -> Nat] /\ new[h] = size
      /\ \A g : g # h => new[g] = ask[g]
  <2>1. ask \in [Handle -> Nat] /\ ask[h] = 0
    BY <1>0 DEF Asked
  <2>2. \A g : g # h => new[g] = ask[g]
    BY <2>1
  <2> QED BY <2>1, <2>2
<1> HIDE DEF new
<1>6. q.system \in [Handle -> Nat] /\ q.systemBlocks \in Int /\ q.systemSize \in Int
  BY <1>0, <1>1
<1>7. Written(q, h, new, fil, fil)
  BY <1>0, <1>5 DEF Written, Kept
<1>8. Asked(q, new)
  BY <1>0, <1>2, <1>3, <1>4, <1>5 DEF Asked
<1>9. Systems(q)
  <2>1. SystemOnes(q) = SystemOnes(hp) \cup {h}
    <3>1. \A g \in DOMAIN hp.handles :
            IsSystem(q.handles[g].state) <=> IsSystem(hp.handles[g].state) \/ g = h
      BY <1>2, <1>3, <1>4
    <3> QED BY <3>1, <1>3 DEF SystemOnes
  <2>2. h \in Handle \ SystemOnes(hp)
    BY <1>4 DEF SystemOnes
  <2>3. SystemOnes(hp) \subseteq Handle
    <3>1. \A g \in SystemOnes(hp) : g \in DOMAIN hp.handles /\ hp.handles[g].state # INVALID
      BY <1>4 DEF SystemOnes
    <3> QED BY <3>1, <1>0 DEF Asked
  <2>4. size \in Nat
    OBVIOUS
  <2> QED BY <2>1, <2>2, <2>3, <2>4, <1>0, <1>1, SystemsAdd
<1>10. Good(q, new, fil, B, {})
  <2>1. Unbound(hp.handles[h].state) /\ Unbound(v.state)
    BY <1>2, <1>4
  <2> QED BY <2>1, <1>1, <1>2, <1>5, <1>6, <1>7, <1>8, <1>9, GoodOutside
<1>11. \A g \in DOMAIN hp.handles : g # h => Untouched(hp, q, g)
  <2>1. \A b : SizeAt(q, b) = SizeAt(hp, b)
    BY <1>1 DEF Outside, SizeAt
  <2> QED BY <2>1, <1>3 DEF Untouched
<1> QED BY <1>2, <1>3, <1>10, <1>11 DEF q, new

\* A block of the heap or of the system that has just been asked for.
Fresh(seen) ==
  \E kind \in {"moveable", "system"} :
    seen = [kind |-> kind, cells |-> {}, written |-> FALSE]

\* A block just allocated is seen as one, neither locked nor written.
LEMMA SeenFresh ==
  ASSUME NEW q, NEW ask, NEW fil, NEW h, ask[h] # 0, h \notin fil,
         q.handles[h].state \in {MOVABLE, SYSTEM}
  PROVE  Fresh(Seen(q, ask, fil, h))
<1>1. CellsOf(q, h) = {}
  BY DEF CellsOf, IsLocked, MOVABLE, SYSTEM, LOCKED
<1>2. (h \in fil) = FALSE
  OBVIOUS
<1> DEFINE kind == IF IsSystem(q.handles[h].state) THEN "system" ELSE "moveable"
<1>3. kind \in {"moveable", "system"}
  OBVIOUS
<1>4. Seen(q, ask, fil, h) = [kind |-> kind, cells |-> {}, written |-> FALSE]
  BY <1>1, <1>2 DEF Seen
<1> HIDE DEF kind
<1> QED BY <1>3, <1>4 DEF Fresh

-----------------------------------------------------------------------------

\* A request that finds nothing is not seen.
LEMMA SameSeen ==
  ASSUME NEW hp, NEW q, NEW ask, NEW fil, NEW B, Good(hp, ask, fil, B, {}), Same(hp, q)
  PROVE  \A h : SeenBeside(hp, ask, fil, q, ask, fil, h)
<1> SUFFICES ASSUME NEW h PROVE SeenBeside(hp, ask, fil, q, ask, fil, h)
  OBVIOUS
<1>1. \A g \in DOMAIN hp.handles : g # h => Untouched(hp, q, g)
  BY DEF Same, Untouched
<1>2. \A g \in Handle : g # h => ask[g] = ask[g] /\ (g \in fil <=> g \in fil)
  OBVIOUS
<1> QED BY <1>1, <1>2, SeenBesides

\* A request in two steps: the heap after heap_find_free_block, with a handle
\* for the block, is seen as before.
Ready(F) == [F EXCEPT !.handles = Grown(F)]

\* With a free block found and handles enough, the heap is in order, and nothing
\* is seen.
LEMMA Prepared ==
  ASSUME NEW ask, NEW fil, NEW hp, NEW B, Good(hp, ask, fil, B, {}),
         NEW F, NEW C, Good(F, ask, fil, C, {}), Same(hp, F),
         NEW grown, grown = Ready(F)
  PROVE  /\ Good(grown, ask, fil, C, {})
         /\ FirstUnused(grown.handles) \in DOMAIN grown.handles
         /\ grown.handles[FirstUnused(grown.handles)].state = INVALID
         /\ grown.mem = F.mem
         /\ \A h : SeenBeside(hp, ask, fil, grown, ask, fil, h)
<1>1. /\ Good(grown, ask, fil, C, {})
      /\ FirstUnused(grown.handles) \in DOMAIN grown.handles
      /\ grown.handles[FirstUnused(grown.handles)].state = INVALID
      /\ grown.handles = Grown(F) /\ grown.mem = F.mem
  BY GrownGood DEF Ready
<1>2. \A h \in DOMAIN F.handles : grown.handles[h] = F.handles[h]
  <2>1. F.handles \in HandlesT
    BY DEF Good, HeapT
  <2>2. \A h \in DOMAIN F.handles : Grown(F)[h] = F.handles[h]
    BY <2>1, GrownIs
  <2> QED BY <2>2, <1>1
<1>3. \A b : SizeAt(grown, b) = SizeAt(F, b)
  BY <1>1 DEF SizeAt
<1>4. ASSUME NEW h PROVE SeenBeside(hp, ask, fil, grown, ask, fil, h)
  <2>1. SeenBeside(hp, ask, fil, F, ask, fil, h)
    BY SameSeen
  <2>2. SeenBeside(F, ask, fil, grown, ask, fil, h)
    <3>1. \A g \in DOMAIN F.handles : g # h => Untouched(F, grown, g)
      BY <1>2, <1>3 DEF Untouched
    <3>2. \A g \in Handle : g # h => ask[g] = ask[g] /\ (g \in fil <=> g \in fil)
      OBVIOUS
    <3> QED BY <3>1, <3>2, SeenBesides
  <2> QED BY <2>1, <2>2 DEF SeenBeside
<1> QED BY <1>1, <1>4

\* What a request ends with.
Allocated(h, C) ==
  /\ StepOn(h, C) /\ Seen(heap, asked, filled, h) = NotSeen
  /\ Fresh(Seen(heap', asked', filled', h))

\* Allocate leaves the heap in order, and is seen as nothing or a new block.
LEMMA AllocateStep ==
  ASSUME NEW B, Good(heap, asked, filled, B, {}), NEW size \in Nat \ {0}, NEW anywhere,
         Allocate(size, anywhere)
  PROVE  \E C : \/ StepOn(-1, C)
                \/ \E h \in Handle : Allocated(h, C)
<1>1. PICK found \in FindFree(heap, size) :
        LET grown == [found.heap EXCEPT !.handles = Grown(found.heap)]
            h     == FirstUnused(grown.handles)
            Bound(hp) == heap' = hp /\ asked' = [asked EXCEPT ![h] = size]
        IN /\ \/ /\ h \in Handle /\ found.block # -1
                 /\ Bound(Take(grown, found.block, size, h))
              \/ /\ h \in Handle /\ found.block = -1 /\ anywhere
                 /\ grown.systemBlocks < MaxSystem
                 /\ Bound(TakeSystem(grown, size, h))
              \/ /\ \/ found.block = -1
                    \/ grown.handles # found.heap.handles
                 /\ heap' = found.heap /\ UNCHANGED asked
           /\ UNCHANGED filled
  BY DEF Allocate
<1> DEFINE F == found.heap
           grown == [F EXCEPT !.handles = Grown(F)]
           h == FirstUnused(grown.handles)
           a == found.block
           new == [asked EXCEPT ![h] = size]
<1>2. /\ filled' = filled
      /\ \/ h \in Handle /\ a # -1 /\ heap' = Take(grown, a, size, h) /\ asked' = new
         \/ h \in Handle /\ heap' = TakeSystem(grown, size, h) /\ asked' = new
         \/ heap' = F /\ asked' = asked
  BY <1>1
<1>3. PICK C : /\ Good(F, asked, filled, C, {}) /\ Same(heap, F)
               /\ a = -1 \/ (a \in FreeOnes(F, C) /\ SizeAt(F, a) >= size)
  <2>1. Found(heap, asked, filled, size, found)
    BY FindFreeIs
  <2> QED BY <2>1 DEF Found
<1> HIDE DEF F, a
<1>4. /\ Good(grown, asked, filled, C, {})
      /\ h \in DOMAIN grown.handles /\ grown.handles[h].state = INVALID
      /\ grown.mem = F.mem
      /\ \A x : SeenBeside(heap, asked, filled, grown, asked, filled, x)
  <2>1. grown = Ready(F)
    BY DEF Ready
  <2> HIDE DEF grown
  <2>2. /\ Good(grown, asked, filled, C, {})
        /\ FirstUnused(grown.handles) \in DOMAIN grown.handles
        /\ grown.handles[FirstUnused(grown.handles)].state = INVALID
        /\ grown.mem = F.mem
        /\ \A x : SeenBeside(heap, asked, filled, grown, asked, filled, x)
    BY <2>1, <1>3, Prepared
  <2> QED BY <2>2
<1> HIDE DEF grown, h
<1>5. CASE heap' = F /\ asked' = asked
  <2>1. StepOn(-1, C)
    BY <1>2, <1>3, <1>5, SameSeen DEF StepOn
  <2> QED BY <2>1
<1>6. asked \in [Handle -> Nat] /\ (h \in Handle => asked[h] = 0 /\ new[h] = size)
      /\ \A x \in Handle : x # h => new[x] = asked[x] /\ (x \in filled <=> x \in filled)
  <2>1. asked \in [Handle -> Nat]
    BY DEF Good, Asked
  <2>2. h \in Handle => asked[h] = 0
    BY <1>4 DEF Good, Asked
  <2> QED BY <2>1, <2>2
<1> HIDE DEF new
<1>7. h \in Handle => h \notin filled /\ new[h] # 0
  BY <1>6 DEF Good, Kept

\* Whatever the step binds to h, it is seen as a new block.
<1>8. ASSUME NEW D, h \in Handle, Good(heap', new, filled, D, {}), asked' = new,
             heap'.handles[h].state \in {MOVABLE, SYSTEM},
             \A x \in DOMAIN grown.handles : x # h => Untouched(grown, heap', x)
      PROVE  Allocated(h, D)
  <2>1. SeenBeside(grown, asked, filled, heap', new, filled, h)
    BY <1>4, <1>6, <1>8, SeenBesides
  <2>2. SeenBeside(heap, asked, filled, heap', new, filled, h)
    BY <2>1, <1>4 DEF SeenBeside
  <2>3. Fresh(Seen(heap', new, filled, h))
    BY <1>7, <1>8, SeenFresh
  <2>4. Seen(heap, asked, filled, h) = NotSeen
    BY <1>6, <1>8 DEF Seen
  <2> QED BY <2>2, <2>3, <2>4, <1>2, <1>8 DEF Allocated, StepOn
<1>9. CASE h \in Handle /\ a # -1 /\ heap' = Take(grown, a, size, h) /\ asked' = new
  <2>1. a \in FreeOnes(grown, C) /\ size <= SizeAt(grown, a)
    <3>1. a \in FreeOnes(F, C) /\ SizeAt(F, a) >= size
      BY <1>3, <1>9
    <3>2. a \in C /\ Tiled(F, C)
      BY <3>1, <1>3 DEF FreeOnes, Good
    <3>3. SizeAt(F, a) \in Nat
      BY <3>2, BlockFacts
    <3> QED BY <3>1, <3>3, <1>4 DEF FreeOnes, StateAt, SizeAt
  <2> DEFINE D == WithRest(grown, C, a, Taken(grown, a, size))
             q == Take(grown, a, size, h)
  <2>2. /\ Good(q, [asked EXCEPT ![h] = size], filled, D, {})
        /\ q.handles[h] = [state |-> MOVABLE, data |-> a] /\ q.system = grown.system
        /\ DOMAIN q.handles = DOMAIN grown.handles
        /\ \A g \in DOMAIN grown.handles : g # h => q.handles[g] = grown.handles[g]
        /\ \A b \in C : b # a => Intact(grown, q, b)
    BY <2>1, <1>4, <1>9, TakeIs
  <2> HIDE DEF D
  <2>3. heap' = q
    BY <1>9
  <2> HIDE DEF q
  <2>4. ASSUME NEW x \in DOMAIN grown.handles, x # h PROVE Untouched(grown, q, x)
    <3>1. q.handles[x] = grown.handles[x]
      BY <2>2, <2>4
    <3>2. ASSUME grown.handles[x].state = LOCKED
          PROVE  SizeAt(q, grown.handles[x].data) = SizeAt(grown, grown.handles[x].data)
      <4>1. BoundTo(grown, x) /\ LOCKED # FREE
        BY <3>2 DEF BoundTo, LOCKED, FREE
      <4>2. grown.handles[x].data \in C /\ StateAt(grown, grown.handles[x].data) = LOCKED
        BY <4>1, <3>2, <2>4, <1>4 DEF Good, Owners, Live
      <4>3. grown.handles[x].data # a
        BY <4>1, <4>2, <2>1 DEF FreeOnes
      <4> QED BY <4>2, <4>3, <2>2 DEF Intact
    <3> QED BY <3>1, <3>2 DEF Untouched
  <2>5. q.handles[h].state \in {MOVABLE, SYSTEM}
    BY <2>2
  <2>6. Allocated(h, D)
    BY <2>2, <2>3, <2>4, <2>5, <1>8, <1>9 DEF new
  <2> QED BY <2>6, <1>9
<1>10. CASE h \in Handle /\ heap' = TakeSystem(grown, size, h) /\ asked' = new
  <2>1. /\ Good(heap', [asked EXCEPT ![h] = size], filled, C, {})
        /\ heap'.handles[h].state = SYSTEM
        /\ \A g \in DOMAIN grown.handles : g # h => Untouched(grown, heap', g)
    BY <1>4, <1>10, TakeSystemGood
  <2>2. Allocated(h, C)
    BY <2>1, <1>8, <1>10 DEF new
  <2> QED BY <2>2, <1>10
<1> QED BY <1>2, <1>5, <1>9, <1>10

-----------------------------------------------------------------------------
(* The heap is always in order: HeapInv is the inductive invariant behind   *)
(* all that follows.                                                        *)

HeapInv == \E B \in SUBSET Cell : Good(heap, asked, filled, B, {})

\* It holds in the empty heap.
LEMMA InitGood ==
  ASSUME Init
  PROVE  Good(heap, asked, filled, {0}, {})
<1> DEFINE zero == [h \in Handle |-> 0]
           none == [h \in 0 .. HandleChunk - 1 |-> NoHandle]
           blank == [c \in Cell |-> Unused]
<1>1. PICK size \in HeapSizes :
        heap = [size |-> size, mem |-> FreeBlockIn(blank, 0, size - Overhead),
                freeBlocks |-> 1, moveableBlocks |-> 0, lockedBlocks |-> 0, systemBlocks |-> 0,
                freeSize |-> size - Overhead, moveableSize |-> 0, lockedSize |-> 0,
                systemSize |-> 0, handles |-> none, system |-> zero]
  BY DEF Init
<1>2. asked = zero /\ filled = {}
  BY DEF Init
<1> DEFINE M == FreeBlockIn(blank, 0, size - 2)
<1>3. size \in Nat /\ size >= 2 /\ size <= HeapSize /\ HeapSize \in Nat
  BY HeapSizeIs
<1>4. Cell = 0 .. HeapSize - 1 /\ Overhead = 2
  BY DEF Cell, Overhead
<1>5. /\ M \in [Cell -> Content] /\ M[0] = Header(size - 2, FREE, -1) /\ M[size - 1] = Footer
  <2>1. blank \in [Cell -> Content]
    BY ContentIs
  <2>2. size - 2 \in Nat /\ 0 + (size - 2) + 1 = size - 1 /\ size - 1 \in Cell /\ 0 \in Nat
    BY <1>3, <1>4
  <2> HIDE DEF blank
  <2>3. LET x == FreeBlockIn(blank, 0, size - 2) IN
        /\ x \in [Cell -> Content] /\ x[0] = Header(size - 2, FREE, -1)
        /\ x[0 + (size - 2) + 1] = Footer
        /\ \A c \in Cell : c < 0 \/ c > 0 + (size - 2) + 1 => x[c] = blank[c]
    BY <2>1, <2>2, FreeMem
  <2> QED BY <2>2, <2>3
<1>6. none \in HandlesT /\ \A h \in DOMAIN none : none[h].state = INVALID
  <2>1. NoHandle \in HandleT /\ NoHandle.state = INVALID
    BY DEF NoHandle, HandleT
  <2>2. HandleChunk \in Nat
    BY HeapAssumption
  <2>3. none \in [0 .. HandleChunk - 1 -> HandleT]
    BY <2>1
  <2> QED BY <2>1, <2>2, <2>3 DEF HandlesT
<1>7. zero \in [Handle -> Nat]
  OBVIOUS
<1> HIDE DEF M, none, zero, blank
<1>8. heap = [size |-> size, mem |-> M,
              freeBlocks |-> 1, moveableBlocks |-> 0, lockedBlocks |-> 0, systemBlocks |-> 0,
              freeSize |-> size - 2, moveableSize |-> 0, lockedSize |-> 0,
              systemSize |-> 0, handles |-> none, system |-> zero]
  BY <1>1, <1>4 DEF M
<1>9. heap \in HeapT
  BY <1>3, <1>5, <1>6, <1>7, <1>8 DEF HeapT
<1>10. /\ heap.size = size /\ heap.mem = M /\ heap.handles = none
       /\ heap.moveableBlocks = 0 /\ heap.lockedBlocks = 0 /\ heap.freeBlocks = 1
       /\ heap.moveableSize = 0 /\ heap.lockedSize = 0 /\ heap.freeSize = size - 2
       /\ heap.systemBlocks = 0 /\ heap.systemSize = 0
  BY <1>8
<1>11. /\ M[0] \in HeaderT /\ SizeAt(heap, 0) = size - 2 /\ StateAt(heap, 0) = FREE
       /\ After(heap, 0) = size
  <2>1. size - 2 \in Nat /\ FREE \in {FREE, MOVABLE, LOCKED} /\ -1 \in Int
    BY <1>3
  <2>2. M[0] \in HeaderT /\ M[0].size = size - 2 /\ M[0].state = FREE
    BY <2>1, <1>5, HeaderIs
  <2>3. SizeAt(heap, 0) = size - 2 /\ StateAt(heap, 0) = FREE
    BY <2>2, <1>10 DEF SizeAt, StateAt
  <2> QED BY <2>2, <2>3, <1>3, <1>4 DEF After
<1>12. Tiled(heap, {0})
  BY <1>3, <1>4, <1>5, <1>10, <1>11 DEF Tiled
<1>13. Live(heap, {0}, {}) = {} /\ \A h \in DOMAIN none : ~ BoundTo(heap, h)
  BY <1>6, <1>10, <1>11 DEF Live, BoundTo, INVALID, MOVABLE, LOCKED
<1>14. Owners(heap, asked, {0}, {})
  BY <1>10, <1>13 DEF Owners
<1>15. Asked(heap, asked)
  BY <1>2, <1>6, <1>7, <1>10 DEF Asked, zero
<1>16. Kept(heap, asked, filled)
  BY <1>2 DEF Kept
<1>17. \A state \in {MOVABLE, LOCKED} : Tally(heap, InState(heap, {0}, {}, state), 0, 0)
  <2> SUFFICES ASSUME NEW state \in {MOVABLE, LOCKED}
               PROVE  Tally(heap, InState(heap, {0}, {}, state), 0, 0)
    OBVIOUS
  <2>1. InState(heap, {0}, {}, state) = {}
    BY <1>11 DEF InState, FREE, MOVABLE, LOCKED
  <2>2. SumOf(heap, {}) = 0
    BY SumOfEmpty DEF SumOf
  <2> QED BY <2>1, <2>2, FS_EmptySet DEF Tally
<1>18. Tallies(heap, {0}, {})
  <2>1. Cardinality({0}) = 1
    BY FS_Singleton
  <2> QED BY <2>1, <1>3, <1>10, <1>17 DEF Tallies, Count
<1>19. Systems(heap)
  <2>1. SystemOnes(heap) = {}
    BY <1>6, <1>10 DEF SystemOnes, IsSystem, INVALID, SYSTEM, LOCKED
  <2>2. IsFiniteSet({}) /\ Cardinality({}) = 0
    BY FS_EmptySet
  <2>3. SumFunctionOnSet([h \in {} |-> heap.system[h]], {}) = 0
    BY SumOfEmpty
  <2> QED BY <2>1, <2>2, <2>3, <1>10 DEF Systems
<1> QED BY <1>9, <1>12, <1>14, <1>15, <1>16, <1>18, <1>19 DEF Good

\* Every step leaves the heap in order.
LEMMA GoodNext ==
  ASSUME NEW B, Good(heap, asked, filled, B, {}), [Next]_vars
  PROVE  \E C : Good(heap', asked', filled', C, {})
<1>1. CASE UNCHANGED vars
  <2>1. heap' = heap /\ asked' = asked /\ filled' = filled
    BY <1>1 DEF vars
  <2> QED BY <2>1
<1>2. ASSUME NEW size \in Sizes, NEW anywhere \in BOOLEAN, Allocate(size, anywhere)
      PROVE  \E C : Good(heap', asked', filled', C, {})
  <2>1. size \in Nat \ {0}
    BY HeapAssumption
  <2> QED BY <2>1, <1>2, AllocateStep DEF StepOn, Allocated
<1>3. ASSUME NEW h \in Handle, Deallocate(h) PROVE \E C : Good(heap', asked', filled', C, {})
  BY <1>3, DeallocateStep DEF StepOn
<1>4. ASSUME NEW h \in Handle, Lock(h) PROVE \E C : Good(heap', asked', filled', C, {})
  BY <1>4, LockStep DEF StepOn
<1>5. ASSUME NEW h \in Handle, Unlock(h) PROVE \E C : Good(heap', asked', filled', C, {})
  BY <1>5, UnlockStep DEF StepOn
<1>6. ASSUME NEW h \in Handle, Fill(h) PROVE \E C : Good(heap', asked', filled', C, {})
  BY <1>6, FillStep DEF StepOn
<1> QED BY <1>1, <1>2, <1>3, <1>4, <1>5, <1>6 DEF Next

\* The heap is always in order: whatever is allocated, deallocated, locked and
\* filled, there are blocks that tile the memory, each with the header and the
\* footer that its handle says, the counters count them, and what was written
\* is in them.
THEOREM HeapInOrder == Spec => []HeapInv
<1>1. Init => HeapInv
  <2> SUFFICES ASSUME Init PROVE HeapInv
    OBVIOUS
  <2>1. Good(heap, asked, filled, {0}, {})
    BY InitGood
  <2>2. {0} \in SUBSET Cell
    BY <2>1 DEF Good, Tiled
  <2> QED BY <2>1, <2>2 DEF HeapInv
<1>2. HeapInv /\ [Next]_vars => HeapInv'
  <2> SUFFICES ASSUME HeapInv, [Next]_vars PROVE HeapInv'
    OBVIOUS
  <2>1. PICK B : Good(heap, asked, filled, B, {})
    BY DEF HeapInv
  <2>2. PICK C : Good(heap', asked', filled', C, {})
    BY <2>1, GoodNext
  <2>3. C \in SUBSET Cell
    BY <2>2 DEF Good, Tiled
  <2> QED BY <2>2, <2>3 DEF HeapInv
<1> QED BY <1>1, <1>2, PTL DEF Spec

-----------------------------------------------------------------------------
(* What follows of a heap in order.                                         *)

\* Whatever is split, joined and moved, a handle in use points at a block that
\* points back at it, is in the state the handle says, and is as large as was asked.
THEOREM HandlesAreBound == Spec => []HandlesAgree
<1>1. HeapInv => HandlesAgree
  <2> SUFFICES ASSUME HeapInv, NEW h \in DOMAIN heap.handles,
                      heap.handles[h].state \in {MOVABLE, LOCKED}
               PROVE  LET handle == heap.handles[h]  block == heap.mem[handle.data] IN
                      /\ IsHeader(block) /\ block.state = handle.state
                      /\ block.handle_index = h /\ block.size >= asked[h]
    BY DEF HandlesAgree
  <2>1. PICK B : Good(heap, asked, filled, B, {})
    BY DEF HeapInv
  <2> DEFINE a == heap.handles[h].data
  <2>2. /\ a \in B /\ StateAt(heap, a) = heap.handles[h].state
        /\ heap.mem[a].handle_index = h /\ asked[h] <= SizeAt(heap, a)
    BY <2>1 DEF Good, Owners, BoundTo, Live
  <2>3. heap.mem[a] \in HeaderT
    BY <2>1, <2>2 DEF Good, Tiled
  <2>4. asked[h] \in Nat
    <3>1. heap.handles[h].state # INVALID
      BY DEF INVALID, MOVABLE, LOCKED
    <3> QED BY <2>1, <3>1 DEF Good, Asked
  <2>5. IsHeader(heap.mem[a]) /\ SizeAt(heap, a) \in Nat
    BY <2>3 DEF HeaderT, IsHeader, SizeAt
  <2> HIDE DEF a
  <2>6. heap.mem[a].size >= asked[h]
    BY <2>2, <2>4, <2>5 DEF SizeAt
  <2> QED BY <2>2, <2>5, <2>6 DEF a, StateAt
<1> QED BY <1>1, HeapInOrder, PTL

\* When all blocks have been given back, a request for the whole heap is served:
\* it does not stay broken up.
THEOREM EmptyIsWhole == Spec => []EmptyHeapServes
<1>1. HeapInv => EmptyHeapServes
  <2> SUFFICES ASSUME HeapInv,
                      \A h \in DOMAIN heap.handles : heap.handles[h].state = INVALID,
                      NEW found \in FindFree(heap, heap.size - Overhead)
               PROVE  found.block # -1
    BY DEF EmptyHeapServes
  <2>1. PICK B : Good(heap, asked, filled, B, {})
    BY DEF HeapInv
  <2> QED BY <2>1, EmptyServes
<1> QED BY <1>1, HeapInOrder, PTL

\* The free blocks are what the others leave of the memory.
LEMMA FreeTally ==
  ASSUME NEW hp, NEW ask, NEW fil, NEW B, Good(hp, ask, fil, B, {})
  PROVE  Tally(hp, InState(hp, B, {}, FREE), hp.freeBlocks, hp.freeSize)
<1> DEFINE F == InState(hp, B, {}, FREE)
           M == InState(hp, B, {}, MOVABLE)
           L == InState(hp, B, {}, LOCKED)
           w == [a \in B |-> SizeAt(hp, a)]
<1>1. /\ hp \in HeapT /\ Tiled(hp, B) /\ Count(hp) = Cardinality(B)
      /\ Tally(hp, M, hp.moveableBlocks, hp.moveableSize)
      /\ Tally(hp, L, hp.lockedBlocks, hp.lockedSize)
      /\ hp.freeSize + hp.moveableSize + hp.lockedSize + 2 * Cardinality(B) = hp.size
  BY DEF Good, Tallies
<1>2. \A a \in B : /\ SizeAt(hp, a) \in Int /\ w[a] = SizeAt(hp, a)
                   /\ StateAt(hp, a) \in {FREE, MOVABLE, LOCKED}
  BY <1>1, BlockFacts, BlockIsHeader
<1>3. B = (F \cup M) \cup L /\ F \cap M = {} /\ (F \cup M) \cap L = {}
  BY <1>2 DEF InState, FREE, MOVABLE, LOCKED
<1>4. IsFiniteSet(B) /\ IsFiniteSet(F) /\ IsFiniteSet(M) /\ IsFiniteSet(L)
      /\ IsFiniteSet(F \cup M)
  BY <1>1, <1>3, BlocksFinite, FS_Subset
<1> HIDE DEF F, M, L
<1>5. \A T : T \subseteq B => SumOf(hp, T) = SumFunctionOnSet(w, T)
  <2> SUFFICES ASSUME NEW T, T \subseteq B PROVE SumOf(hp, T) = SumFunctionOnSet(w, T)
    OBVIOUS
  <2> DEFINE v == [a \in T |-> SizeAt(hp, a)]
  <2>1. IsFiniteSet(T) /\ \A y \in T : v[y] = w[y] /\ w[y] \in Int
    BY <1>2, <1>4, FS_Subset
  <2> HIDE DEF v, w
  <2>2. SumFunctionOnSet(v, T) = SumFunctionOnSet(w, T)
    BY <2>1, SumSame
  <2> QED BY <2>2 DEF SumOf, v
<1>6. \A y \in B : w[y] \in Int
  BY <1>2
<1> HIDE DEF w
<1>7. SumFunctionOnSet(w, B) = SumFunctionOnSet(w, F \cup M) + SumFunctionOnSet(w, L)
  BY <1>3, <1>4, <1>6, SumUnion
<1>8. SumFunctionOnSet(w, F \cup M) = SumFunctionOnSet(w, F) + SumFunctionOnSet(w, M)
  BY <1>3, <1>4, <1>6, SumUnion
<1>9. /\ SumFunctionOnSet(w, F) \in Int /\ SumFunctionOnSet(w, M) \in Int
      /\ SumFunctionOnSet(w, L) \in Int
  BY <1>3, <1>4, <1>6, SumInt
<1>10. SumOf(hp, B) = SumOf(hp, F) + SumOf(hp, M) + SumOf(hp, L)
       /\ SumOf(hp, F) \in Int /\ SumOf(hp, M) \in Int /\ SumOf(hp, L) \in Int
  BY <1>3, <1>5, <1>7, <1>8, <1>9
<1>11. Cardinality(B) = Cardinality(F) + Cardinality(M) + Cardinality(L)
       /\ Cardinality(F) \in Nat /\ Cardinality(M) \in Nat /\ Cardinality(L) \in Nat
  <2>1. \A T : T \subseteq B => Cardinality(T) \in Nat
    BY <1>1, BlocksFinite
  <2>2. Cardinality(F \cup M) = Cardinality(F) + Cardinality(M) - Cardinality({})
    BY <1>3, <1>4, FS_Union
  <2>3. Cardinality(B) = Cardinality(F \cup M) + Cardinality(L) - Cardinality({})
    BY <1>3, <1>4, FS_Union
  <2>4. Cardinality({}) = 0
    BY FS_EmptySet
  <2> QED BY <2>1, <2>2, <2>3, <2>4, <1>3
<1>12. SumOf(hp, B) + 2 * Cardinality(B) = hp.size
  BY <1>1, AllOfMemory
<1>13. hp.freeBlocks \in Int /\ hp.freeSize \in Int /\ hp.size \in Int
  BY <1>1 DEF HeapT
<1>14. Cardinality(F) = hp.freeBlocks
  BY <1>1, <1>11, <1>13 DEF Tally, Count, M, L
<1>15. SumOf(hp, F) = hp.freeSize
  <2> DEFINE m == SumOf(hp, M)
             l == SumOf(hp, L)
             f == SumOf(hp, F)
             s == SumOf(hp, B)
             n == Cardinality(B)
             k == 2 * n
             u == hp.freeSize
             z == hp.size
  <2>1. m = hp.moveableSize /\ l = hp.lockedSize
    BY <1>1 DEF Tally, M, L
  <2>2. k \in Int /\ u \in Int /\ z \in Int
    BY <1>11, <1>13
  <2>3. s = f + m + l /\ f \in Int /\ m \in Int /\ l \in Int /\ s + k = z
    BY <1>10, <1>12
  <2>4. u + hp.moveableSize + hp.lockedSize + k = z
    BY <1>1
  <2> HIDE DEF m, l, f, s, n, k, u, z
  <2>5. u + m + l + k = z
    BY <2>1, <2>4
  <2>6. f = u
    BY <2>2, <2>3, <2>5
  <2> QED BY <2>6 DEF f, u
<1> QED BY <1>4, <1>14, <1>15 DEF Tally, F

\* heap_validate would find the heap in order at any time: guards, counters and
\* sizes; and the blocks fill the memory to its last cell.
THEOREM HeapIsValid == Spec => []HeapValid
<1>1. HeapInv => HeapValid
  <2> SUFFICES ASSUME HeapInv PROVE HeapValid
    OBVIOUS
  <2>1. PICK B : Good(heap, asked, filled, B, {})
    BY DEF HeapInv
  <2>2. /\ heap.mem \in [Cell -> Content] /\ Tiled(heap, B) /\ Count(heap) = Cardinality(B)
        /\ Tally(heap, InState(heap, B, {}, MOVABLE), heap.moveableBlocks, heap.moveableSize)
        /\ Tally(heap, InState(heap, B, {}, LOCKED), heap.lockedBlocks, heap.lockedSize)
    BY <2>1 DEF Good, Tallies, HeapT
  <2>3. /\ Range(Walk(heap)) = B /\ \A a \in B : IsBlock(heap, a)
        /\ After(heap, Walk(heap)[Count(heap) - 1]) = heap.size
    BY <2>2, WalkIs
  <2>4. \A state : BlocksIn(heap, {state}) = InState(heap, B, {}, state)
    BY <2>3 DEF BlocksIn, InState
  <2>5. Tally(heap, InState(heap, B, {}, FREE), heap.freeBlocks, heap.freeSize)
    BY <2>1, FreeTally
  <2>6. \A state, count, size :
          Tally(heap, InState(heap, B, {}, state), count, size)
            => CountsAgree(heap, state, count, size)
    BY <2>4 DEF CountsAgree, Tally
  <2>7. /\ CountsAgree(heap, FREE, heap.freeBlocks, heap.freeSize)
        /\ CountsAgree(heap, MOVABLE, heap.moveableBlocks, heap.moveableSize)
        /\ CountsAgree(heap, LOCKED, heap.lockedBlocks, heap.lockedSize)
    BY <2>2, <2>5, <2>6
  <2>8. Systems(heap)
    BY <2>1 DEF Good
  <2>9. LET systems == SystemOnes(heap) IN
        /\ Cardinality(systems) = heap.systemBlocks
        /\ SumFunctionOnSet([h \in systems |-> heap.system[h]], systems) = heap.systemSize
    BY <2>8 DEF Systems
  <2>10. Validate(heap)
    BY <2>3, <2>7, <2>9 DEF Validate, SystemOnes
  <2> QED BY <2>3, <2>10 DEF HeapValid
<1> QED BY <1>1, HeapInOrder, PTL

-----------------------------------------------------------------------------
(* What the heap promises its owners (BlockStore).                          *)

\* A step on a handle is seen at that handle only.
LEMMA StepSeen ==
  ASSUME NEW B, Good(heap, asked, filled, B, {}), NEW h, NEW C, StepOn(h, C)
  PROVE  /\ \A g \in Handle : Blocks[g] = Seen(heap, asked, filled, g)
         /\ \A g \in Handle : Blocks'[g] = Seen(heap', asked', filled', g)
         /\ h \in Handle => Blocks' = [Blocks EXCEPT ![h] = Blocks'[h]]
         /\ h \notin Handle => Blocks' = Blocks
<1> DEFINE s == Sight(heap, asked, filled)
           t == Sight(heap', asked', filled')
<1>1. s = [g \in Handle |-> Seen(heap, asked, filled, g)]
  BY SeenIs
<1>2. t = [g \in Handle |-> Seen(heap', asked', filled', g)]
  BY SeenIs DEF StepOn
<1>3. \A g \in Handle : g # h => Seen(heap', asked', filled', g) = Seen(heap, asked, filled, g)
  BY DEF StepOn, SeenBeside
<1> HIDE DEF s, t
<1>4. \A g \in Handle : /\ s[g] = Seen(heap, asked, filled, g)
                        /\ t[g] = Seen(heap', asked', filled', g)
                        /\ g # h => t[g] = s[g]
  BY <1>1, <1>2, <1>3
<1>5. /\ s = [g \in Handle |-> s[g]] /\ t = [g \in Handle |-> t[g]]
  BY <1>1, <1>2
<1>6. h \in Handle => t = [s EXCEPT ![h] = t[h]]
  BY <1>4, <1>5
<1>7. h \notin Handle => t = s
  BY <1>4, <1>5
<1>8. Blocks = s /\ Blocks' = t
  BY BlocksAre DEF s, t
<1> QED BY <1>4, <1>6, <1>7, <1>8

\* What is seen of a block.
LEMMA SeenFields ==
  ASSUME NEW hp, NEW ask, NEW fil, NEW h
  PROVE  LET seen == Seen(hp, ask, fil, h) IN
         /\ \A c : [seen EXCEPT !.cells = c].cells = c
         /\ \A c : [seen EXCEPT !.cells = c].kind = seen.kind
         /\ ask[h] = 0 => seen.cells = {}
         /\ ask[h] # 0 => seen.cells = CellsOf(hp, h)
<1>1. \E k, c, w : Seen(hp, ask, fil, h) = [kind |-> k, cells |-> c, written |-> w]
  <2> DEFINE w == h \in fil
             k == IF IsSystem(hp.handles[h].state) THEN "system" ELSE "moveable"
  <2>1. ask[h] # 0 => Seen(hp, ask, fil, h) = [kind |-> k, cells |-> CellsOf(hp, h), written |-> w]
    BY DEF Seen
  <2>2. ask[h] = 0 => Seen(hp, ask, fil, h) = [kind |-> "free", cells |-> {}, written |-> FALSE]
    BY DEF Seen, NotSeen
  <2> HIDE DEF w, k
  <2> QED BY <2>1, <2>2, Zenon
<1>2. ask[h] = 0 => Seen(hp, ask, fil, h).cells = {}
  <2> DEFINE no == FALSE
  <2>1. ask[h] = 0 => Seen(hp, ask, fil, h) = [kind |-> "free", cells |-> {}, written |-> no]
    BY DEF Seen, NotSeen
  <2> HIDE DEF no
  <2> QED BY <2>1
<1>3. ask[h] # 0 => Seen(hp, ask, fil, h).cells = CellsOf(hp, h)
  <2> DEFINE w == h \in fil
             k == IF IsSystem(hp.handles[h].state) THEN "system" ELSE "moveable"
  <2>1. ask[h] # 0 => Seen(hp, ask, fil, h) = [kind |-> k, cells |-> CellsOf(hp, h), written |-> w]
    BY DEF Seen
  <2> HIDE DEF w, k
  <2> QED BY <2>1
<1> QED BY <1>1, <1>2, <1>3

\* Each action is the one BlockStore has for it: Lock,
LEMMA StoreLock ==
  ASSUME NEW B, Good(heap, asked, filled, B, {}), NEW h \in Handle, Lock(h)
  PROVE  Store!Lock(h)
<1> DEFINE place == CellsOf(heap', h)
<1>1. /\ StepOn(h, B) /\ Turned(h)
      /\ asked'[h] # 0 /\ IsLocked(heap'.handles[h].state) /\ CellsOf(heap, h) = {}
  BY LockStep
<1>2. Good(heap', asked', filled', B, {})
  BY <1>1 DEF StepOn
<1>3. place # {} /\ place \subseteq - MaxHandles .. HeapSize - 1
  BY <1>1, <1>2, CellsThere
<1>4. /\ \A g \in Handle : Blocks[g] = Seen(heap, asked, filled, g)
      /\ \A g \in Handle : Blocks'[g] = Seen(heap', asked', filled', g)
      /\ Blocks' = [Blocks EXCEPT ![h] = Blocks'[h]]
  BY <1>1, StepSeen
<1> HIDE DEF place
<1>5. /\ Blocks'[h] = [Blocks[h] EXCEPT !.cells = place]
      /\ Blocks[h].kind # "free" /\ Blocks[h].cells = {}
  BY <1>1, <1>4 DEF Turned, place
<1>6. Blocks'[h].cells = place
  <2>1. [Seen(heap, asked, filled, h) EXCEPT !.cells = place].cells = place
    BY SeenFields
  <2> QED BY <2>1, <1>4, <1>5
<1>7. \A g \in Handle : Blocks[g].cells \cap place = {}
  <2> SUFFICES ASSUME NEW g \in Handle PROVE Blocks[g].cells \cap place = {}
    OBVIOUS
  <2>1. CASE g = h
    BY <2>1, <1>5
  <2>2. CASE g # h
    <3>1. Seen(heap', asked', filled', g) = Seen(heap, asked, filled, g)
      BY <1>1, <2>2 DEF StepOn, SeenBeside
    <3>2. CASE asked'[g] = 0
      BY <3>1, <3>2, <1>4, SeenFields
    <3>3. CASE asked'[g] # 0
      <4>1. Seen(heap', asked', filled', g).cells = CellsOf(heap', g)
        BY <3>3, SeenFields
      <4>2. CellsOf(heap', g) \cap place = {}
        BY <1>1, <1>2, <2>2, <3>3, CellsApart DEF place
      <4> QED BY <3>1, <4>1, <4>2, <1>4
    <3> QED BY <3>2, <3>3
  <2> QED BY <2>1, <2>2
<1>8. Blocks' = [Blocks EXCEPT ![h].cells = place]
  BY <1>4, <1>5
<1>9. place \in (SUBSET (- MaxHandles .. HeapSize - 1)) \ {{}}
  BY <1>3
<1> QED BY <1>5, <1>6, <1>7, <1>8, <1>9 DEF Store!Lock

\* Unlock,
LEMMA StoreUnlock ==
  ASSUME NEW B, Good(heap, asked, filled, B, {}), NEW h \in Handle, Unlock(h)
  PROVE  Store!Unlock(h)
<1> DEFINE none == CellsOf(heap', h)
<1>1. /\ StepOn(h, B) /\ Turned(h)
      /\ asked[h] # 0 /\ IsLocked(heap.handles[h].state) /\ none = {}
  BY UnlockStep
<1>2. /\ \A g \in Handle : Blocks[g] = Seen(heap, asked, filled, g)
      /\ \A g \in Handle : Blocks'[g] = Seen(heap', asked', filled', g)
      /\ Blocks' = [Blocks EXCEPT ![h] = Blocks'[h]]
  BY <1>1, StepSeen
<1> HIDE DEF none
<1>3. Blocks[h].cells # {}
  BY <1>1, <1>2, CellsThere DEF Turned
<1>4. Blocks'[h] = [Blocks[h] EXCEPT !.cells = none]
  BY <1>1, <1>2 DEF Turned, none
<1>5. Blocks' = [Blocks EXCEPT ![h].cells = none]
  BY <1>2, <1>4
<1> QED BY <1>1, <1>3, <1>5 DEF Store!Unlock

\* Fill,
LEMMA StoreWrite ==
  ASSUME NEW B, Good(heap, asked, filled, B, {}), NEW h \in Handle, Fill(h)
  PROVE  Store!Write(h)
<1> DEFINE yes == TRUE
<1>1. /\ StepOn(h, B)
      /\ Seen(heap', asked', filled', h) = [Seen(heap, asked, filled, h) EXCEPT !.written = yes]
      /\ Seen(heap, asked, filled, h).cells # {}
  BY FillStep
<1> HIDE DEF yes
<1>2. /\ \A g \in Handle : Blocks[g] = Seen(heap, asked, filled, g)
      /\ \A g \in Handle : Blocks'[g] = Seen(heap', asked', filled', g)
      /\ Blocks' = [Blocks EXCEPT ![h] = Blocks'[h]]
  BY <1>1, StepSeen
<1>3. Blocks[h].cells # {} /\ Blocks'[h] = [Blocks[h] EXCEPT !.written = yes]
  BY <1>1, <1>2
<1>4. Blocks' = [Blocks EXCEPT ![h].written = yes]
  BY <1>2, <1>3
<1> QED BY <1>3, <1>4 DEF Store!Write, yes

\* Deallocate,
LEMMA StoreDeallocate ==
  ASSUME NEW B, Good(heap, asked, filled, B, {}), NEW h \in Handle, Deallocate(h)
  PROVE  Store!Deallocate(h)
<1>1. /\ StepOn(h, B)
      /\ Seen(heap', asked', filled', h) = NotSeen
      /\ Seen(heap, asked, filled, h).cells = {}
  BY DeallocateStep
<1>2. /\ Blocks[h] = Seen(heap, asked, filled, h)
      /\ Blocks'[h] = Seen(heap', asked', filled', h)
      /\ Blocks' = [Blocks EXCEPT ![h] = Blocks'[h]]
  BY <1>1, StepSeen
<1>3. Blocks' = [Blocks EXCEPT ![h] = NotSeen]
  BY <1>1, <1>2
<1> QED BY <1>1, <1>2, <1>3 DEF Store!Deallocate, Store!Free, NotSeen

\* and Allocate, unless it fails.
LEMMA StoreAllocate ==
  ASSUME NEW B, Good(heap, asked, filled, B, {}), NEW size \in Sizes, NEW anywhere,
         Allocate(size, anywhere)
  PROVE  Blocks' = Blocks \/ \E h \in Handle : Store!Allocate(h)
<1>1. size \in Nat \ {0} /\ -1 \notin Handle
  BY HeapAssumption DEF Handle
<1>2. PICK C : StepOn(-1, C) \/ \E h \in Handle : Allocated(h, C)
  BY <1>1, AllocateStep
<1>3. CASE StepOn(-1, C)
  BY <1>1, <1>3, StepSeen
<1>4. ASSUME NEW h \in Handle, Allocated(h, C) PROVE Store!Allocate(h)
  <2>1. /\ StepOn(h, C) /\ Seen(heap, asked, filled, h) = NotSeen
        /\ Fresh(Seen(heap', asked', filled', h))
    BY <1>4 DEF Allocated
  <2>2. /\ Blocks[h] = Seen(heap, asked, filled, h)
        /\ Blocks'[h] = Seen(heap', asked', filled', h)
        /\ Blocks' = [Blocks EXCEPT ![h] = Blocks'[h]]
    BY <2>1, StepSeen
  <2>3. PICK kind \in {"moveable", "system"} :
          Blocks'[h] = [kind |-> kind, cells |-> {}, written |-> FALSE]
    BY <2>1, <2>2 DEF Fresh
  <2> DEFINE new == [kind |-> kind, cells |-> {}, written |-> FALSE]
  <2>4. Blocks' = [Blocks EXCEPT ![h] = new]
    <3> HIDE DEF new
    <3>1. Blocks'[h] = new
      BY <2>3 DEF new
    <3> QED BY <3>1, <2>2
  <2>5. Blocks[h] = Store!Free
    BY <2>1, <2>2 DEF Store!Free, NotSeen
  <2> QED BY <2>4, <2>5 DEF Store!Allocate
<1> QED BY <1>2, <1>3, <1>4

\* The heap keeps what it promises its owners: whatever moves, each step is seen
\* at one handle only; a locked block stays where it is, alone, and what was
\* written to a block is there until it is deallocated.
THEOREM BlocksAreKept == Spec => KeepsBlocks
<1>1. HeapInv /\ [Next]_vars => [Store!Next]_Blocks
  <2> SUFFICES ASSUME HeapInv, [Next]_vars PROVE Store!Next \/ Blocks' = Blocks
    OBVIOUS
  <2>1. PICK B : Good(heap, asked, filled, B, {})
    BY DEF HeapInv
  <2>2. CASE UNCHANGED vars
    <3>1. heap' = heap /\ asked' = asked /\ filled' = filled
      BY <2>2 DEF vars
    <3> QED BY <3>1, BlocksAre
  <2>3. ASSUME NEW size \in Sizes, NEW anywhere \in BOOLEAN, Allocate(size, anywhere)
        PROVE  Store!Next \/ Blocks' = Blocks
    BY <2>1, <2>3, StoreAllocate DEF Store!Next
  <2>4. ASSUME NEW h \in Handle, Deallocate(h) PROVE Store!Next
    BY <2>1, <2>4, StoreDeallocate DEF Store!Next
  <2>5. ASSUME NEW h \in Handle, Lock(h) PROVE Store!Next
    BY <2>1, <2>5, StoreLock DEF Store!Next
  <2>6. ASSUME NEW h \in Handle, Unlock(h) PROVE Store!Next
    BY <2>1, <2>6, StoreUnlock DEF Store!Next
  <2>7. ASSUME NEW h \in Handle, Fill(h) PROVE Store!Next
    BY <2>1, <2>7, StoreWrite DEF Store!Next
  <2> QED BY <2>2, <2>3, <2>4, <2>5, <2>6, <2>7 DEF Next
<1> QED BY <1>1, HeapInOrder, PTL DEF KeepsBlocks, Spec

\* So the heap implements BlockStore, from its first state.
THEOREM ImplementsBlockStore == Spec => Store!Spec
<1>1. Init => Store!Init
  <2> SUFFICES ASSUME Init PROVE Blocks = [h \in Handle |-> Store!Free]
    BY DEF Store!Init
  <2>1. \A h \in Handle : asked[h] = 0
    BY DEF Init
  <2>2. Sight(heap, asked, filled) = [h \in Handle |-> NotSeen]
    BY <2>1 DEF Sight
  <2> QED BY <2>2, BlocksAre DEF NotSeen, Store!Free
<1> QED BY <1>1, BlocksAreKept, PTL DEF Spec, Store!Spec, KeepsBlocks

=============================================================================
