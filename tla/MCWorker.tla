-------------------------------- MODULE MCWorker --------------------------------
(***************************************************************************)
(* Small instances of Worker.                                              *)
(***************************************************************************)
EXTENDS Worker, TLC

Symmetry == Permutations(BuyIds) \cup Permutations(SellIds)
=================================================================================
