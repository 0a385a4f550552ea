----------------------------- MODULE RuntimeMC -----------------------------
(* Two node runs of one task run, one dispatcher. *)
EXTENDS Runtime
MCCellOf == [r \in Runs |-> CHOOSE c \in Cells : TRUE]
=============================================================================
