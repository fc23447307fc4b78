---------------------------- MODULE MCPolyHandler ----------------------------
(* The symmetry of slots and of free guards, for TLC. *)
EXTENDS PolyHandler, TLC

Symmetry == Permutations(Slots) \cup Permutations(FreeGuards)
=============================================================================
