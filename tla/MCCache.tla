-------------------------------- MODULE MCCache --------------------------------
(* Instances of Cache for TLC. The blocks of the heap are interchangeable. *)
EXTENDS Cache, TLC

MCSizeOf == [k \in Key |-> IF k = 2 THEN 4 ELSE k]
Symmetry == Permutations(Block)
=============================================================================
