------------------------------ MODULE BlockStore ------------------------------
(***************************************************************************)
(* What the heap (game/heap.cc) promises to the cache above it: handles to *)
(* blocks of memory. A block that is not locked may be anywhere, and may   *)
(* move; while it is locked its cells are its own and stay where they are; *)
(* what was written to it is there until it is deallocated.                *)
(***************************************************************************)
EXTENDS Integers

CONSTANTS Handle,     \* block handles
          Address     \* addresses of memory cells: an interval of Int

VARIABLE store        \* handle -> the block bound to it, or Free

Free == [kind |-> "free", cells |-> {}, written |-> FALSE]

Block == [kind : {"free", "moveable", "system"}, cells : SUBSET Address,
          written : BOOLEAN]

TypeOK == store \in [Handle -> Block]

Init == store = [h \in Handle |-> Free]

Allocate(h) ==
  /\ store[h] = Free
  /\ \E kind \in {"moveable", "system"} :
       store' = [store EXCEPT ![h] = [kind |-> kind, cells |-> {}, written |-> FALSE]]

Deallocate(h) ==
  /\ store[h].cells = {}
  /\ store' = [store EXCEPT ![h] = Free]

\* The cells of the block: any that meet no other locked block.
Lock(h) ==
  /\ store[h].kind # "free" /\ store[h].cells = {}
  /\ LET place == store'[h].cells IN
     /\ place \in (SUBSET Address) \ {{}}
     /\ \A g \in Handle : store[g].cells \cap place = {}
     /\ store' = [store EXCEPT ![h].cells = place]

Unlock(h) ==
  /\ store[h].cells # {}
  /\ store' = [store EXCEPT ![h].cells = {}]

\* The owner fills a locked block.
Write(h) ==
  /\ store[h].cells # {}
  /\ store' = [store EXCEPT ![h].written = TRUE]

Next == \E h \in Handle : Allocate(h) \/ Deallocate(h) \/ Lock(h) \/ Unlock(h) \/ Write(h)

Spec == Init /\ [][Next]_store
=============================================================================
