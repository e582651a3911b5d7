----------------------------- MODULE MCFrBEvents -----------------------------
(* Instances of FrBEvents for TLC. *)
EXTENDS FrBEvents, TLC

Signals    == 1 .. 2
ChainOf(n) == {<<s, s + 1>> : s \in 1 .. n - 1}
Chain      == ChainOf(2)
None       == {}

Symmetry   == Permutations(Instance)
=============================================================================
