-------------------------------- MODULE Heap --------------------------------
(***************************************************************************)
(* The heap of moveable blocks (game/heap.cc) on which the cache keeps art *)
(* and sounds, cell by cell. Its memory is tiled by blocks, each between a *)
(* header and a footer. When no free block is large enough for a request,  *)
(* the moveable blocks of an extent, a run of free and moveable blocks     *)
(* between locked ones, are copied to free blocks outside it.              *)
(*                                                                         *)
(* A cell stands for the bytes of a word, and a header or a footer for one *)
(* cell; sizes are in cells, after the rounding of heap_allocate. What     *)
(* free blocks contain is not kept. qsort leaves the order of blocks of    *)
(* one size open.                                                          *)
(***************************************************************************)
EXTENDS Integers, FiniteSets, SequencesExt

CONSTANTS HeapSizes,    \* cells of heap->data, what heap_init may be asked for
          MinSplit,     \* HEAP_BLOCK_MIN_SIZE
          HandleChunk,  \* HEAP_HANDLES_INITIAL_LENGTH
          MaxHandles,   \* bound on handlesLength
          Sizes,        \* sizes that are asked for
          MaxSystem     \* bound on the number of system blocks

ASSUME HeapAssumption ==
  /\ IsFiniteSet(HeapSizes) /\ HeapSizes # {} /\ MaxSystem \in Nat
  /\ HeapSizes \subseteq Nat \ {0, 1}    \* room for a header and a footer
  /\ MinSplit \in Nat /\ MinSplit > 2     \* room for a header, a footer and a cell
  /\ HandleChunk \in 1 .. MaxHandles /\ MaxHandles \in Nat
  /\ Sizes \subseteq Nat \ {0}

VARIABLES heap,     \* the Heap structure and its memory
          asked,    \* handle -> cells its owner asked for; 0 when it is unused
          filled    \* the handles whose owner has filled its block

vars == << heap, asked, filled >>

Overhead == 2
HeapSize == Max(HeapSizes)
Cell     == 0 .. HeapSize - 1
Handle   == 0 .. MaxHandles - 1

\* HeapBlockState; -1 is HEAP_HANDLE_STATE_INVALID.
INVALID == -1
FREE    == 0
MOVABLE == 1
LOCKED  == 2
SYSTEM  == 4
IsLocked(state) == state \in {LOCKED, SYSTEM + LOCKED}
IsSystem(state) == state \in {SYSTEM, SYSTEM + LOCKED}

Header(size, state, handle) ==
  [guard |-> "begin", size |-> size, state |-> state, handle_index |-> handle]
Footer == [guard |-> "end"]
DataOf(h) == [guard |-> "none", owner |-> h]
Unused == DataOf(-1)

IsHeader(cell) == cell.guard = "begin"
NoHandle == [state |-> INVALID, data |-> -1]

\* The memory of one free block.
FreeBlockIn(mem, a, size) ==
  [c \in Cell |-> CASE c = a -> Header(size, FREE, -1)
                    [] c = a + size + 1 -> Footer
                    [] c \in a + 1 .. a + size -> Unused
                    [] OTHER -> mem[c]]

Init ==
  /\ \E size \in HeapSizes :
       heap = [size |-> size, mem |-> FreeBlockIn([c \in Cell |-> Unused], 0, size - Overhead),
               freeBlocks |-> 1, moveableBlocks |-> 0, lockedBlocks |-> 0, systemBlocks |-> 0,
               freeSize |-> size - Overhead, moveableSize |-> 0, lockedSize |-> 0,
               systemSize |-> 0,
               handles |-> [h \in 0 .. HandleChunk - 1 |-> NoHandle],
               system |-> [h \in Handle |-> 0]]   \* sizes of the system blocks
  /\ asked = [h \in Handle |-> 0]
  /\ filled = {}

-----------------------------------------------------------------------------
StateAt(hp, a) == hp.mem[a].state
SizeAt(hp, a)  == hp.mem[a].size
After(hp, a)   == a + SizeAt(hp, a) + Overhead   \* where the next block begins

Count(hp) == hp.freeBlocks + hp.moveableBlocks + hp.lockedBlocks

IsBlock(hp, a) ==
  /\ a \in Cell /\ IsHeader(hp.mem[a])
  /\ After(hp, a) - 1 \in Cell /\ hp.mem[After(hp, a) - 1] = Footer

\* The addresses of the blocks as the loops of heap.cc find them: as many as
\* the counters say, each after the one before; -1 after a block with bad guards.
Walk(hp) ==
  LET At[i \in 0 .. Count(hp) - 1] ==
        IF i = 0 THEN 0
        ELSE LET a == At[i - 1] IN IF IsBlock(hp, a) THEN After(hp, a) ELSE -1
  IN At

BlocksIn(hp, states) == {a \in Range(Walk(hp)) : StateAt(hp, a) \in states}

\* Mutant: a free block is joined only to one that begins a run of them.
JoinFreeOnce(hp) ==
  LET free     == BlocksIn(hp, {FREE})
      Joined   == {After(hp, a) : a \in {b \in free : \A c \in free : After(hp, c) # b}}
                    \cap free
      EndOf(a) == IF After(hp, a) \in Joined THEN After(hp, After(hp, a)) ELSE After(hp, a)
  IN [hp EXCEPT !.mem = [c \in Cell |->
                           CASE c \in free \ Joined -> Header(EndOf(c) - c - Overhead, FREE, -1)
                             [] c \in Joined \/ c + 1 \in Joined -> Unused
                             [] OTHER -> @[c]],
                !.freeBlocks = @ - Cardinality(Joined),
                !.freeSize = @ + Cardinality(Joined) * Overhead]

\* heap_build_free_list joins neighbouring free blocks.
JoinFree(hp) ==
  LET free     == BlocksIn(hp, {FREE})
      Joined   == {After(hp, a) : a \in free} \cap free
      EndOf(a) == Min({After(hp, b) : b \in {c \in free : c >= a}} \ free)
  IN [hp EXCEPT !.mem = [c \in Cell |->
                           CASE c \in free \ Joined -> Header(EndOf(c) - c - Overhead, FREE, -1)
                             [] c \in Joined \/ c + 1 \in Joined -> Unused
                             [] OTHER -> @[c]],
                !.freeBlocks = @ - Cardinality(Joined),
                !.freeSize = @ + Cardinality(Joined) * Overhead]

\* The extents: maximal runs of neighbouring free and moveable blocks, from
\* the first to the last.
Extents(hp) ==
  LET In == BlocksIn(hp, {FREE, MOVABLE}) IN
  {e \in [from : In, to : In] :
     /\ e.from <= e.to
     /\ \A b \in Range(Walk(hp)) : e.from <= b /\ b <= e.to => b \in In
     /\ After(hp, e.to) \notin In
     /\ \A b \in In : After(hp, b) # e.from}

BlocksOf(hp, e) == {b \in Range(Walk(hp)) : e.from <= b /\ b <= e.to}

\* What an extent holds as one block, and the data its blocks hold.
RunSize(hp, e)  == After(hp, e.to) - Overhead - e.from
DataSize(hp, e) == RunSize(hp, e) - Overhead * (Cardinality(BlocksOf(hp, e)) - 1)

\* The orders in which qsort by size may put a set of blocks.
Sorted(hp, blocks) ==
  {s \in SetToSeqs(blocks) :
     \A i \in 1 .. Cardinality(blocks) - 1 : SizeAt(hp, s[i]) <= SizeAt(hp, s[i + 1])}

\* Mutant: a free block may be reserved twice.
ReservedTwice(hp, e, moveable, to) ==
  LET Fits(i) == {f \in BlocksIn(hp, {FREE}) \ BlocksOf(hp, e) :
                    SizeAt(hp, f) >= SizeAt(hp, moveable[i])}
  IN \A i \in DOMAIN moveable :
       to[i] \in Fits(i) /\ \A f \in Fits(i) : SizeAt(hp, to[i]) <= SizeAt(hp, f)

\* The places reserved for the moveable blocks of an extent: for each a
\* smallest free block that is large enough, not in the extent and not
\* reserved for one before it.
Reserved(hp, e, moveable, to) ==
  LET Fits(i) == {f \in BlocksIn(hp, {FREE}) \ BlocksOf(hp, e) :
                    /\ SizeAt(hp, f) >= SizeAt(hp, moveable[i])
                    /\ \A k \in 1 .. i - 1 : to[k] # f}
  IN \A i \in DOMAIN moveable :
       to[i] \in Fits(i) /\ \A f \in Fits(i) : SizeAt(hp, to[i]) <= SizeAt(hp, f)

\* Mutant: the handle is left pointing at the old place.
MoveBlockOnly(hp, from, to) ==
  LET size == SizeAt(hp, from)  rest == SizeAt(hp, to) - size IN
  [hp EXCEPT !.mem = [c \in Cell |-> CASE c = to -> [hp.mem[from] EXCEPT !.size = @ + rest]
                                       [] c \in to + 1 .. to + size -> hp.mem[c - to + from]
                                       [] OTHER -> hp.mem[c]],
             !.freeSize = @ - rest,
             !.moveableSize = @ + rest]

\* Copy a moveable block onto a free one. What is left of the free block is
\* merged into the block if it is too small to be one.
MoveBlock(hp, from, to) ==
  LET size == SizeAt(hp, from)
      rest == SizeAt(hp, to) - size
      copy == [c \in Cell |-> IF c \in to .. to + size + 1 THEN hp.mem[c - to + from]
                              ELSE hp.mem[c]]
      moved == [hp EXCEPT !.mem = copy, !.handles[hp.mem[from].handle_index].data = to]
  IN CASE rest = 0 -> moved
       [] rest # 0 /\ rest < MinSplit ->
            [moved EXCEPT !.mem[to].size = @ + rest,
                          !.mem[to + size + 1] = Unused,
                          !.freeSize = @ - rest,
                          !.moveableSize = @ + rest]
       [] OTHER ->
            [moved EXCEPT !.mem[to + size + Overhead] = Header(rest - Overhead, FREE, -1),
                          !.freeBlocks = @ + 1,
                          !.freeSize = @ - Overhead]

\* Mutant: the overhead of the joined blocks is not given back.
MoveExtentKeeps(hp, e, moveable, to) ==
  LET Moved[i \in 0 .. Len(moveable)] ==
        IF i = 0 THEN hp ELSE MoveBlock(Moved[i - 1], moveable[i], to[i])
  IN [Moved[Len(moveable)] EXCEPT
        !.mem = FreeBlockIn(@, e.from, RunSize(hp, e)),
        !.freeBlocks = @ - (Cardinality(BlocksOf(hp, e)) - 1)]

\* Move the blocks of an extent, which becomes one free block.
MoveExtent(hp, e, moveable, to) ==
  LET Moved[i \in 0 .. Len(moveable)] ==
        IF i = 0 THEN hp ELSE MoveBlock(Moved[i - 1], moveable[i], to[i])
      joined == Cardinality(BlocksOf(hp, e)) - 1
  IN [Moved[Len(moveable)] EXCEPT
        !.mem = FreeBlockIn(@, e.from, RunSize(hp, e)),
        !.freeBlocks = @ - joined,
        !.freeSize = @ + joined * Overhead]

\* heap_find_free_block: the heap and the free block it may end with; the
\* block is -1 when there is none.
NoBlock(hp) == {[heap |-> hp, block |-> -1]}

\* The extents that would be large enough and whose blocks can all be moved.
Plans(hp, size) ==
  UNION {UNION {{[extent |-> e, moveable |-> m, to |-> to] :
                   to \in {t \in [DOMAIN m -> BlocksIn(hp, {FREE})] : Reserved(hp, e, m, t)}} :
                m \in Sorted(hp, BlocksOf(hp, e) \cap BlocksIn(hp, {MOVABLE}))} :
         e \in {x \in Extents(hp) : RunSize(hp, x) >= size}}

\* The first of them, least data first, is moved.
ByMoving(hp, size) ==
  LET First == {p \in Plans(hp, size) : \A q \in Plans(hp, size) :
                  DataSize(hp, p.extent) <= DataSize(hp, q.extent)}
  IN IF hp.freeBlocks + hp.moveableBlocks <= 2 \/ First = {} THEN NoBlock(hp)
     ELSE {[heap |-> MoveExtent(hp, p.extent, p.moveable, p.to), block |-> p.extent.from] :
             p \in First}

FindFree(hp, size) ==
  LET joined == JoinFree(hp)
      Fit    == {a \in BlocksIn(joined, {FREE}) : SizeAt(joined, a) >= size}
      Best   == {a \in Fit : \A b \in Fit : SizeAt(joined, a) <= SizeAt(joined, b)}
  IN CASE hp.freeBlocks = 0 -> NoBlock(hp)
       [] hp.freeBlocks # 0 /\ size > joined.freeSize -> NoBlock(joined)
       [] hp.freeBlocks # 0 /\ size <= joined.freeSize /\ Fit # {} ->
            {[heap |-> joined, block |-> a] : a \in Best}
       [] OTHER -> ByMoving(joined, size)

\* heap_acquire_handle: the first unused handle, or the first of new ones.
Grown(hp) ==
  IF \E h \in DOMAIN hp.handles : hp.handles[h].state = INVALID THEN hp.handles
  ELSE [h \in 0 .. Cardinality(DOMAIN hp.handles) + HandleChunk - 1 |->
          IF h \in DOMAIN hp.handles THEN hp.handles[h] ELSE NoHandle]
FirstUnused(handles) == Min({h \in DOMAIN handles : handles[h].state = INVALID})

\* Bind a free block to a handle, and split what is not needed from it.
Take(hp, a, size, h) ==
  LET whole == SizeAt(hp, a)
      split == whole - size > MinSplit
      used  == IF split THEN size ELSE whole
      cut   == IF ~split THEN hp.mem
               ELSE [FreeBlockIn(hp.mem, a + size + Overhead, whole - size - Overhead)
                       EXCEPT ![a + size + 1] = Footer]
  IN [hp EXCEPT !.mem = [cut EXCEPT ![a] = Header(used, MOVABLE, h)],
                !.handles[h] = [state |-> MOVABLE, data |-> a],
                !.freeBlocks = IF split THEN @ ELSE @ - 1,
                !.moveableBlocks = @ + 1,
                !.freeSize = @ - (IF split THEN used + Overhead ELSE used),
                !.moveableSize = @ + used]

\* A block of the system's memory, outside the heap.
TakeSystem(hp, size, h) ==
  [hp EXCEPT !.handles[h] = [state |-> SYSTEM, data |-> HeapSize + h],
             !.system[h] = size,
             !.systemBlocks = @ + 1,
             !.systemSize = @ + size]

-----------------------------------------------------------------------------
\* heap_allocate. Without a block in the heap it fails, unless the caller
\* (anywhere) takes one of the system's memory; so it does when there is no
\* memory for more handles.
Allocate(size, anywhere) ==
  \E found \in FindFree(heap, size) :
    LET grown == [found.heap EXCEPT !.handles = Grown(found.heap)]
        h     == FirstUnused(grown.handles)
        Bound(hp) == heap' = hp /\ asked' = [asked EXCEPT ![h] = size]
    IN /\ \/ /\ h \in Handle /\ found.block # -1
             /\ Bound(Take(grown, found.block, size, h))
          \/ /\ h \in Handle /\ found.block = -1 /\ anywhere
             /\ grown.systemBlocks < MaxSystem
             /\ Bound(TakeSystem(grown, size, h))
          \/ /\ \/ found.block = -1
                \/ grown.handles # found.heap.handles
             /\ heap' = found.heap /\ UNCHANGED asked
       /\ UNCHANGED filled

Deallocate(h) ==
  /\ h \in DOMAIN heap.handles
  /\ LET handle == heap.handles[h]  hp == [heap EXCEPT !.handles[h] = NoHandle] IN
     \/ /\ handle.state = MOVABLE
        /\ LET size == SizeAt(heap, handle.data) IN
           heap' = [hp EXCEPT !.mem = FreeBlockIn(@, handle.data, size),
                              !.freeBlocks = @ + 1, !.moveableBlocks = @ - 1,
                              !.freeSize = @ + size, !.moveableSize = @ - size]
     \/ /\ handle.state = SYSTEM
        /\ heap' = [hp EXCEPT !.systemBlocks = @ - 1,
                              !.systemSize = @ - heap.system[h],
                              !.system[h] = 0]
  /\ asked' = [asked EXCEPT ![h] = 0]
  /\ filled' = filled \ {h}

Lock(h) ==
  /\ h \in DOMAIN heap.handles
  /\ LET handle == heap.handles[h] IN
     \/ /\ handle.state = MOVABLE
        /\ LET size == SizeAt(heap, handle.data) IN
           heap' = [heap EXCEPT !.mem[handle.data].state = LOCKED,
                                !.handles[h].state = LOCKED,
                                !.moveableBlocks = @ - 1, !.lockedBlocks = @ + 1,
                                !.moveableSize = @ - size, !.lockedSize = @ + size]
     \/ /\ handle.state = SYSTEM
        /\ heap' = [heap EXCEPT !.handles[h].state = SYSTEM + LOCKED]
  /\ UNCHANGED << asked, filled >>

Unlock(h) ==
  /\ h \in DOMAIN heap.handles
  /\ LET handle == heap.handles[h] IN
     \/ /\ handle.state = LOCKED
        /\ LET size == SizeAt(heap, handle.data) IN
           heap' = [heap EXCEPT !.mem[handle.data].state = MOVABLE,
                                !.handles[h].state = MOVABLE,
                                !.moveableBlocks = @ + 1, !.lockedBlocks = @ - 1,
                                !.moveableSize = @ + size, !.lockedSize = @ - size]
     \/ /\ handle.state = SYSTEM + LOCKED
        /\ heap' = [heap EXCEPT !.handles[h].state = SYSTEM]
  /\ UNCHANGED << asked, filled >>

\* The owner of a locked block fills it (readProc of the cache): all that it
\* asked for, and no more.
Fill(h) ==
  /\ h \in DOMAIN heap.handles \ filled
  /\ IsLocked(heap.handles[h].state)
  /\ LET a == heap.handles[h].data IN
     heap' = IF IsSystem(heap.handles[h].state) THEN heap
             ELSE [heap EXCEPT !.mem = [c \in Cell |-> IF c \in a + 1 .. a + asked[h]
                                                       THEN DataOf(h) ELSE @[c]]]
  /\ filled' = filled \cup {h}
  /\ UNCHANGED asked

Next ==
  \/ \E size \in Sizes, anywhere \in BOOLEAN : Allocate(size, anywhere)
  \/ \E h \in Handle : Deallocate(h) \/ Lock(h) \/ Unlock(h) \/ Fill(h)

Spec == Init /\ [][Next]_vars

-----------------------------------------------------------------------------
\* heap_validate: what the code itself checks of a heap.
SumOf(hp, blocks) == SumFunctionOnSet([a \in blocks |-> SizeAt(hp, a)], blocks)

CountsAgree(hp, state, count, size) ==
  LET blocks == BlocksIn(hp, {state}) IN
  Cardinality(blocks) = count /\ SumOf(hp, blocks) = size

Validate(hp) ==
  LET systems == {h \in DOMAIN hp.handles : IsSystem(hp.handles[h].state)} IN
  /\ \A a \in Range(Walk(hp)) : IsBlock(hp, a)
  /\ CountsAgree(hp, FREE, hp.freeBlocks, hp.freeSize)
  /\ CountsAgree(hp, MOVABLE, hp.moveableBlocks, hp.moveableSize)
  /\ CountsAgree(hp, LOCKED, hp.lockedBlocks, hp.lockedSize)
  /\ Cardinality(systems) = hp.systemBlocks
  /\ SumFunctionOnSet([h \in systems |-> hp.system[h]], systems) = hp.systemSize

\* heap_validate would find the heap in order whenever it is called; and its
\* blocks fill the memory to the last cell.
HeapValid ==
  Validate(heap) /\ After(heap, Walk(heap)[Count(heap) - 1]) = heap.size

\* Handles and the blocks they are bound to point at each other and agree on
\* the block's state, over all splits and moves; and the block is as large as
\* its owner asked.
HandlesAgree ==
  \A h \in DOMAIN heap.handles :
    LET handle == heap.handles[h] IN
    handle.state \in {MOVABLE, LOCKED} =>
      LET block == heap.mem[handle.data] IN
      /\ IsHeader(block) /\ block.state = handle.state /\ block.handle_index = h
      /\ block.size >= asked[h]

\* The heap never decays: once all blocks have been given back, one of any
\* size up to the whole heap can be had again.
EmptyHeapServes ==
  (\A h \in DOMAIN heap.handles : heap.handles[h].state = INVALID) =>
    \A found \in FindFree(heap, heap.size - Overhead) : found.block # -1

\* What the owners of the blocks see of them.
Blocks == [h \in Handle |->
  IF asked[h] = 0 THEN [kind |-> "free", cells |-> {}, written |-> FALSE]
  ELSE LET handle == heap.handles[h]  inside == ~IsSystem(handle.state) IN
    [kind |-> IF inside THEN "moveable" ELSE "system",
     cells |-> IF ~IsLocked(handle.state) THEN {}
               ELSE IF inside THEN handle.data .. handle.data + SizeAt(heap, handle.data) + 1
               ELSE {- h - 1},
     written |-> /\ h \in filled
                 /\ inside => \A c \in handle.data + 1 .. handle.data + asked[h] :
                                heap.mem[c] = DataOf(h)]]

Store == INSTANCE BlockStore WITH
  Address <- - MaxHandles .. HeapSize - 1, store <- Blocks

\* The heap keeps what BlockStore promises: a locked block stays where it is,
\* alone, and what was written to a block survives all moves.
KeepsBlocks == [][Store!Next]_Blocks
=============================================================================
