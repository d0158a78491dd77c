----------------------------- MODULE MCPendingSells -----------------------------
(***************************************************************************)
(* Small instances of PendingSells.                                        *)
(***************************************************************************)
EXTENDS PendingSells, TLC

Symmetry == Permutations(SellIds)
===============================================================================
