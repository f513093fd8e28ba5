-------------------------------- MODULE Cache --------------------------------
(***************************************************************************)
(* The cache of art and of sound effects (game/cache.cc): entries found by *)
(* key, counted references, and eviction by use, over a heap that may fail *)
(* to allocate (Heap). Whoever locks a key is given a pointer into the     *)
(* entry's block, good until it unlocks.                                   *)
(*                                                                         *)
(* The array of entries is "order"; cache_find is a position in it, as     *)
(* CacheFind shows. No operation leaves entries marked for eviction.       *)
(***************************************************************************)
EXTENDS Integers, FiniteSets, SequencesExt, Lists

CONSTANTS Key,          \* keys, integers
          Block,        \* heap handles
          NoBlock,
          SizeOf,       \* what sizeProc answers for each key
          MaxSize,      \* maxSize
          Width,        \* UINT_MAX + 1
          InitialCapacity, Grow,   \* CACHE_ENTRIES_(INITIAL|GROW)_CAPACITY
          Attempts,     \* times cache_add tries to allocate (10)
          MaxHeld       \* bound on the references to one entry

ASSUME CacheAssumption ==
  /\ Key \subseteq Int /\ IsFiniteSet(Key) /\ NoBlock \notin Block
  /\ SizeOf \in [Key -> Nat \ {0}] /\ MaxSize \in Nat
  /\ Width \in Nat /\ Width > Cardinality(Key)
  /\ InitialCapacity \in Nat \ {0, 1} /\ Grow \in Nat \ {0}
  /\ Attempts \in Nat /\ MaxHeld \in Nat

VARIABLES cache,    \* the Cache structure
          adding,   \* what cache_add is at, or NoAdd
          held,     \* key -> references its users hold
          touched   \* the keys in the cache, from the latest to be locked on

vars == << cache, adding, held, touched >>

NoAdd == [key |-> 0, want |-> 0, tries |-> 0, index |-> 0, flushed |-> FALSE, on |-> FALSE]

None == [size |-> 0, referenceCount |-> 0, hits |-> 0, mru |-> 0, block |-> NoBlock]

In(c, k) == c.entry[k].block # NoBlock

\* Mutant: references are not looked at.
UnreferencedOrNot(c) == {k \in Key : In(c, k)}

Unreferenced(c) == {k \in Key : In(c, k) /\ c.entry[k].referenceCount = 0}

Init ==
  /\ cache = [order |-> << >>, entry |-> [k \in Key |-> None], size |-> 0, hits |-> 0,
              capacity |-> InitialCapacity, heap |-> [b \in Block |-> "free"]]
  /\ adding = NoAdd
  /\ held = [k \in Key |-> 0]
  /\ touched = << >>

\* cache_find: where a key is in the array, or where it belongs.
Position(order, k) == Cardinality({i \in DOMAIN order : order[i] < k}) + 1

-----------------------------------------------------------------------------
SizeSum(c, keys) == SumFunctionOnSet([k \in Key |-> c.entry[k].size], keys)

\* Mutant: the cache's size is not reduced.
PurgeKeepsSize(c, marked) ==
  LET gone == marked \cap Unreferenced(c) IN
  [c EXCEPT !.order = Only(@, Key \ gone),
            !.entry = [k \in Key |-> IF k \in gone THEN None ELSE @[k]],
            !.heap = [b \in Block |-> IF \E k \in gone : c.entry[k].block = b
                                      THEN "free" ELSE @[b]]]

\* cache_purge: the marked entries are removed and their blocks given back.
Purge(c, marked) ==
  LET gone == marked \cap Unreferenced(c) IN
  [c EXCEPT !.order = Only(@, Key \ gone),
            !.entry = [k \in Key |-> IF k \in gone THEN None ELSE @[k]],
            !.size = @ - SizeSum(c, gone),
            !.heap = [b \in Block |-> IF \E k \in gone : c.entry[k].block = b
                                      THEN "free" ELSE @[b]]]

\* Mutant: the array is cut down to its length.
FlushTight(c) ==
  LET p == Purge(c, Unreferenced(c)) IN [p EXCEPT !.capacity = Len(p.order)]

Flush(c) ==
  LET p == Purge(c, Unreferenced(c)) IN
  [p EXCEPT !.capacity = IF Len(p.order) + Grow < @ THEN Len(p.order) + Grow ELSE @]

\* cache_compare_make_room: least often used first, then least recently.
LessUsed(c, k, j) ==
  LET e == c.entry[k]  f == c.entry[j] IN
  e.hits < f.hits \/ (e.hits = f.hits /\ e.mru < f.mru)

\* Mutant: nothing is marked if even all would not reach the threshold.
ToEvictOrNone(c, size) ==
  LET threshold == size + (c.size \div 5)
      UpTo(k) == {j \in Unreferenced(c) : j = k \/ LessUsed(c, j, k)}
      Enough  == {k \in Unreferenced(c) : SizeSum(c, UpTo(k)) >= threshold}
      first   == CHOOSE k \in Enough : \A j \in Enough : ~LessUsed(c, j, k)
  IN IF Enough = {} THEN {} ELSE UpTo(first)

\* The entries cache_make_room marks: the first that alone makes enough room,
\* or so many that together do; all, if even they do not.
ToEvict(c, size) ==
  LET threshold == size + (c.size \div 5)
      UpTo(k) == {j \in Unreferenced(c) : j = k \/ LessUsed(c, j, k)}
      Huge(k) == c.entry[k].size >= threshold
      Enough  == {k \in Unreferenced(c) : Huge(k) \/ SizeSum(c, UpTo(k)) >= threshold}
      first   == CHOOSE k \in Enough : \A j \in Enough : ~LessUsed(c, j, k)
  IN IF Enough = {} THEN Unreferenced(c)
     ELSE IF Huge(first) THEN {first} ELSE UpTo(first)

MakeRoom(c, size) ==
  LET enough(d) == MaxSize - d.size >= size
      d == IF size > MaxSize \/ enough(c) THEN c ELSE Purge(c, ToEvict(c, size))
  IN [cache |-> d, ok |-> size <= MaxSize /\ enough(d)]

\* Mutant: the place found before room was made is used whatever it is.
PlaceKept(order, k, index) == IF index <= Len(order) + 1 THEN index ELSE Len(order) + 1

\* The place of a new key: the one found before, if it is still right.
Place(order, k, index) ==
  IF /\ index \in DOMAIN order /\ k < order[index]
     /\ index = 1 \/ k > order[index - 1]
  THEN index ELSE Position(order, k)

\* cache_insert; the array keeps one slot more than it needs.
Insert(c, k, index, b) ==
  [c EXCEPT !.order = InsertAt(@, index, k),
            !.entry[k] = [None EXCEPT !.size = SizeOf[k], !.block = b],
            !.size = @ + SizeOf[k],
            !.heap[b] = "unlocked",
            !.capacity = IF Len(c.order) = @ - 1 THEN @ + Grow ELSE @]

\* cache_reset_counter: the counters start anew, in the order of use. (qsort
\* puts the entry used last first.)
ResetCounter(c) ==
  LET Later(k) == {j \in Key : In(c, j) /\ c.entry[j].mru > c.entry[k].mru} IN
  [c EXCEPT !.entry = [k \in Key |-> IF In(c, k)
                                     THEN [@[k] EXCEPT !.mru = Cardinality(Later(k))]
                                     ELSE @[k]],
            !.hits = Len(c.order)]

\* The end of cache_lock: one reference more.
Refer(c, k) ==
  LET hits == c.hits + 1
      d == [c EXCEPT !.entry[k].referenceCount = @ + 1,
                     !.entry[k].mru = hits,
                     !.hits = hits,
                     !.heap[c.entry[k].block] = "locked"]
  IN IF hits = Width - 1 THEN ResetCounter(d) ELSE d

-----------------------------------------------------------------------------
Idle == ~adding.on
Surviving(c) == Only(touched, {j \in Key : In(c, j)})

\* The cache becomes c, and nobody has locked anything.
Becomes(c) ==
  /\ cache' = c
  /\ touched' = Surviving(c)
  /\ UNCHANGED held

\* The end of cache_lock: the caller holds one reference more.
Given(c, k) ==
  /\ cache' = Refer(c, k)
  /\ held' = [held EXCEPT ![k] = @ + 1]
  /\ touched' = << k >> \o Only(touched, Key \ {k})

\* cache_lock of a key that is in the cache.
LockHit(k) ==
  /\ Idle /\ In(cache, k) /\ held[k] < MaxHeld
  /\ Given([cache EXCEPT !.entry[k].hits = (@ + 1) % Width], k)
  /\ UNCHANGED adding

\* cache_lock of another: cache_add makes room for it.
AddBegin(k) ==
  /\ Idle /\ ~In(cache, k)
  /\ LET room == MakeRoom(cache, SizeOf[k]) IN
     /\ Becomes(room.cache)
     /\ adding' = IF room.ok
                  THEN [NoAdd EXCEPT !.key = k, !.want = SizeOf[k], !.on = TRUE,
                                     !.index = Position(cache.order, k)]
                  ELSE NoAdd

\* The heap has no block: a quarter more room is made, ten times, and after
\* that, or when there is no more to be made, the cache is flushed.
AllocateFails ==
  /\ adding.on /\ ~adding.flushed
  /\ LET want == adding.want + (SizeOf[adding.key] \div 4)
         room == IF want > MaxSize THEN [cache |-> cache, ok |-> FALSE]
                 ELSE MakeRoom(cache, want)
         last == ~room.ok \/ adding.tries = Attempts - 1
     IN /\ Becomes(IF last THEN Flush(room.cache) ELSE room.cache)
        /\ adding' = [adding EXCEPT !.want = want, !.tries = @ + 1, !.flushed = last]

\* There is a block, of the heap or of the system; the data are read into it
\* and the entry put in the array.
Add(b) ==
  /\ adding.on /\ cache.heap[b] = "free"
  /\ Given(Insert(cache, adding.key, Place(cache.order, adding.key, adding.index), b),
           adding.key)
  /\ adding' = NoAdd

\* The data cannot be read or the array not grown, and the block is given
\* back; or there is no memory.
AddFails ==
  /\ adding.on
  /\ adding' = NoAdd
  /\ UNCHANGED << cache, held, touched >>

\* Mutant: the block is unlocked with the first reference given back.
UnlockAtOnce(k) ==
  /\ Idle /\ held[k] > 0
  /\ held' = [held EXCEPT ![k] = @ - 1]
  /\ cache' = [cache EXCEPT !.entry[k].referenceCount = @ - 1,
                            !.heap[cache.entry[k].block] = "unlocked"]
  /\ UNCHANGED << adding, touched >>

\* cache_unlock, by a user that holds a reference.
Unlock(k) ==
  /\ Idle /\ held[k] > 0
  /\ held' = [held EXCEPT ![k] = @ - 1]
  /\ LET count == cache.entry[k].referenceCount - 1 IN
     cache' = [cache EXCEPT !.entry[k].referenceCount = count,
                            !.heap[cache.entry[k].block] = IF count = 0 THEN "unlocked" ELSE @]
  /\ UNCHANGED << adding, touched >>

\* cache_discard refuses an entry with references.
Discard(k) ==
  /\ Idle /\ k \in Unreferenced(cache)
  /\ Becomes(Purge(cache, {k}))
  /\ UNCHANGED adding

FlushAll ==
  /\ Idle
  /\ Becomes(Flush(cache))
  /\ UNCHANGED adding

Next ==
  \/ FlushAll \/ AllocateFails \/ AddFails
  \/ \E k \in Key : LockHit(k) \/ AddBegin(k) \/ Unlock(k) \/ Discard(k)
  \/ \E b \in Block : Add(b)

Spec == Init /\ [][Next]_vars

-----------------------------------------------------------------------------
\* A user's pointer is good: while it holds a reference the entry stays in
\* the cache, counts it, and keeps its block, which is locked.
HeldIsPinned ==
  \A k \in Key : /\ cache.entry[k].referenceCount = held[k]
                 /\ held[k] > 0 => /\ In(cache, k)
                                   /\ cache.heap[cache.entry[k].block] = "locked"

\* No step gives an entry that is held another block.
HeldKeepsBlock ==
  [][\A k \in Key : held[k] > 0 /\ held'[k] > 0 =>
       cache'.entry[k].block = cache.entry[k].block]_vars

\* Every block of the heap belongs to exactly one entry, and is locked only
\* while its entry has references: none is lost when a read fails, none is
\* given back twice.
BlocksAccountedFor ==
  \A b \in Block :
    LET owners == {k \in Key : cache.entry[k].block = b} IN
    CASE cache.heap[b] = "free"     -> owners = {}
      [] cache.heap[b] = "unlocked" -> /\ Cardinality(owners) = 1
                                       /\ owners \subseteq Unreferenced(cache)
      [] cache.heap[b] = "locked"   -> /\ Cardinality(owners) = 1
                                       /\ owners \cap Unreferenced(cache) = {}

\* The array is in order of the keys, as cache_find needs it, although room is
\* made between finding the place of a new key and using it; and it has a
\* spare slot, so that the next insertion does not write past its end.
ArrayInOrder ==
  /\ \A i \in 1 .. Len(cache.order) - 1 : cache.order[i] < cache.order[i + 1]
  /\ Range(cache.order) = {k \in Key : In(cache, k)}
  /\ Len(cache.order) < cache.capacity

\* The size of the cache is that of its entries and within its bound.
SizeRight ==
  /\ cache.size = SizeSum(cache, {k \in Key : In(cache, k)})
  /\ cache.size <= MaxSize

\* cache_make_room finds room whenever what is referenced leaves any.
RoomIsMade ==
  \A size \in 1 .. MaxSize :
    SizeSum(cache, {k \in Key : In(cache, k)} \ Unreferenced(cache)) + size <= MaxSize =>
      MakeRoom(cache, size).ok

\* cache.h says of mru: "The most recent hit in terms of cache hit counter.
\* Used to track most recently used entries in eviction strategy."
MruTracksUse ==
  \A i, j \in DOMAIN touched :
    i < j => cache.entry[touched[i]].mru > cache.entry[touched[j]].mru
=============================================================================
