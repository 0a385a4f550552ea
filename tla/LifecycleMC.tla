--------------------------- MODULE LifecycleMC ---------------------------
(* Lifecycle on small sets. *)
EXTENDS Lifecycle, TLC

Symmetry == Permutations(Workers)
=============================================================================
