----------------------------- MODULE MCSahPool -----------------------------
(* Two actors with one database each, over a pool that starts too small. *)
EXTENDS SahPool, TLC

Symmetry == Permutations(Prefixes)
=============================================================================
