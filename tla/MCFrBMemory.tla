---------------------------- MODULE MCFrBMemory ----------------------------
(* Instances of FrBMemory and its refinement for TLC. *)
EXTENDS FrBMemory, TLC

Symmetry == Permutations(Object)
=============================================================================
