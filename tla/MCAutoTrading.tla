----------------------------- MODULE MCAutoTrading -----------------------------
(***************************************************************************)
(* Small instances of AutoTrading.                                         *)
(***************************************************************************)
EXTENDS AutoTrading, TLC

Symmetry == Permutations(Users)

(***************************************************************************)
(* A bound of the model.  Once a step has sold or released shares that     *)
(* were not there, the numbers of an element may grow without end: they    *)
(* are followed while they are in range and the money is that of as many   *)
(* shares.                                                                 *)
(***************************************************************************)
InRange ==
    \A u \in Users :
        /\ account[u] \in 0..MaxFunds
        /\ \A i \in DOMAIN stocks[u][Symbol] :
              {stocks[u][Symbol][i].amount, stocks[u][Symbol][i].available} \subseteq 0..MaxShares
===============================================================================
