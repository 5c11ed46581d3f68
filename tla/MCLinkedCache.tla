---------------------------- MODULE MCLinkedCache ---------------------------
(* A TLC instance of LinkedCache.                                          *)
EXTENDS LinkedCache, TLC

Symmetry == Permutations(Keys)
=============================================================================
