------------------------------ MODULE MCSaveSlot ------------------------------
(* Instances of SaveSlot for TLC. Map files are interchangeable. *)
EXTENDS SaveSlot, TLC

Symmetry == Permutations(Map)
=============================================================================
