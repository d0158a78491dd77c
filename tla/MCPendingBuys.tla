----------------------------- MODULE MCPendingBuys -----------------------------
(***************************************************************************)
(* Small instances of PendingBuys.                                         *)
(***************************************************************************)
EXTENDS PendingBuys, TLC

Symmetry == Permutations(Users) \cup Permutations(BuyIds)
===============================================================================
