--------------------------- MODULE ApprovalsMC ---------------------------
(* Instances of Approvals for TLC. *)
EXTENDS Approvals, TLC

MCSymmetry == Permutations(Gates) \cup Permutations(Procs) \cup Permutations(People)
=============================================================================
