------------------------------ MODULE MCCacheFind ------------------------------
(* CacheFind on arrays of every length up to MaxLength, with keys before,    *)
(* between, after and equal to those of the array.                          *)
EXTENDS CacheFind

CONSTANT MaxLength

MCArrays == {[i \in 1 .. n |-> 2 * i] : n \in 0 .. MaxLength}
MCKey == 1 .. 2 * MaxLength + 1
=============================================================================
