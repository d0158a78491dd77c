-------------------------------- MODULE Escrow --------------------------------
(***************************************************************************)
(* What the pending-transaction machinery of the worker promises about a   *)
(* user's money.  A reservation is taken out of the funds a user has       *)
(* available, never more than there is, and is then settled at most once:  *)
(* spent, when the account pays it, or freed, when it becomes available    *)
(* again.  PendingBuys implements this specification.                      *)
(***************************************************************************)
EXTENDS Integers

CONSTANTS
    Users,      \* the account holders
    Ids,        \* the identities of reservations
    Deposits,   \* the sums a user may add, a subset of Nat
    Costs,      \* the sums a reservation may hold, a subset of Nat
    None        \* "no user"

VARIABLES
    account,    \* the money a user owns
    available,  \* the part of it that is not reserved
    hold        \* the reservations

vars == <<account, available, hold>>

NoHold == [state |-> "none", user |-> None, cost |-> 0]

Init ==
    /\ account = [u \in Users |-> 0]
    /\ available = [u \in Users |-> 0]
    /\ hold = [i \in Ids |-> NoHold]

Deposit(u, a) ==
    /\ account' = [account EXCEPT ![u] = @ + a]
    /\ available' = [available EXCEPT ![u] = @ + a]
    /\ UNCHANGED hold

Reserve(u, i, c) ==
    /\ hold[i].state = "none"
    /\ c <= available[u]
    /\ available' = [available EXCEPT ![u] = @ - c]
    /\ hold' = [hold EXCEPT ![i] = [state |-> "held", user |-> u, cost |-> c]]
    /\ UNCHANGED account

Spend(i) ==
    /\ hold[i].state = "held"
    /\ account' = [account EXCEPT ![hold[i].user] = @ - hold[i].cost]
    /\ hold' = [hold EXCEPT ![i].state = "spent"]
    /\ UNCHANGED available

Free(i) ==
    /\ hold[i].state = "held"
    /\ available' = [available EXCEPT ![hold[i].user] = @ + hold[i].cost]
    /\ hold' = [hold EXCEPT ![i].state = "freed"]
    /\ UNCHANGED account

Next ==
    \/ \E u \in Users, a \in Deposits : Deposit(u, a)
    \/ \E u \in Users, i \in Ids, c \in Costs : Reserve(u, i, c)
    \/ \E i \in Ids : Spend(i) \/ Free(i)

Spec == Init /\ [][Next]_vars
===============================================================================
