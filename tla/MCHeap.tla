-------------------------------- MODULE MCHeap --------------------------------
(* Instances of Heap for TLC: from the empty heap, and a few steps from full *)
(* ones in which whole extents must move.                                    *)
EXTENDS Heap

CONSTANTS EmptySize,  \* of a heap that starts empty
          EmptyMost,  \* bound on what is asked of it
          MaxSteps    \* bound on the steps from a full heap
VARIABLE steps
\* A heap of the given blocks, left to right: size, state and handle.
Heaped(blocks) ==
  LET At(i) == MapThenSumSet(LAMBDA j : blocks[j].size + Overhead, 1 .. i - 1)
      Put(mem, i) ==
        LET b == blocks[i]  a == At(i)
            m == FreeBlockIn(mem, a, b.size) IN
        [c \in Cell |-> IF c = a THEN Header(b.size, b.state, b.handle)
                        ELSE IF c \in a + 1 .. a + b.size /\ b.handle # -1 THEN DataOf(b.handle)
                        ELSE m[c]]
      Of(state) == {i \in DOMAIN blocks : blocks[i].state = state}
      SizeOf(state) == MapThenSumSet(LAMBDA i : blocks[i].size, Of(state))
  IN [size |-> HeapSize, mem |-> FoldLeft(Put, [c \in Cell |-> Unused], [i \in DOMAIN blocks |-> i]),
      freeBlocks |-> Cardinality(Of(FREE)), moveableBlocks |-> Cardinality(Of(MOVABLE)),
      lockedBlocks |-> Cardinality(Of(LOCKED)), systemBlocks |-> 0,
      freeSize |-> SizeOf(FREE), moveableSize |-> SizeOf(MOVABLE),
      lockedSize |-> SizeOf(LOCKED), systemSize |-> 0,
      handles |-> [h \in 0 .. MaxHandles - 1 |->
        IF \E i \in DOMAIN blocks : blocks[i].handle = h
        THEN LET i == CHOOSE i \in DOMAIN blocks : blocks[i].handle = h IN
             [state |-> blocks[i].state, data |-> At(i)]
        ELSE NoHandle],
      system |-> [h \in Handle |-> 0]]

B(size, state, handle) == [size |-> size, state |-> state, handle |-> handle]

\* Blocks 0 and 2 (or 0) were given back, others locked: two blocks move at
\* once; one moves and takes all of a free block; one moves and leaves a rest.
FullHeaps ==
  { << B(2, FREE, -1), B(1, LOCKED, 1), B(1, MOVABLE, 2), B(1, MOVABLE, 3),
       B(1, LOCKED, 4), B(2, FREE, -1) >>,
    << B(3, FREE, -1), B(1, LOCKED, 1), B(1, FREE, -1), B(1, MOVABLE, 3),
       B(4, LOCKED, 4) >>,
    << B(5, FREE, -1), B(1, LOCKED, 1), B(1, MOVABLE, 2), B(5, FREE, -1) >> }

FullInit ==
  /\ \E blocks \in FullHeaps :
       /\ heap = Heaped(blocks)
       /\ asked = [h \in Handle |->
            IF \E i \in DOMAIN blocks : blocks[i].handle = h
            THEN blocks[CHOOSE i \in DOMAIN blocks : blocks[i].handle = h].size ELSE 0]
  /\ filled = {h \in Handle : asked[h] # 0}
  /\ steps = 0

Full == heap.size # EmptySize

MCInit == FullInit \/ (Init /\ ~Full /\ steps = 0)
MCNext ==
  /\ Next
  /\ IF Full THEN steps < MaxSteps /\ steps' = steps + 1
     ELSE heap'.systemBlocks = 0 /\ (\A h \in Handle : asked'[h] <= EmptyMost) /\ UNCHANGED steps
MCSpec == MCInit /\ [][MCNext]_<< vars, steps >>
=============================================================================
