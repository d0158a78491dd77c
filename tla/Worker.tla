--------------------------------- MODULE Worker ---------------------------------
(***************************************************************************)
(* The threads of a worker on the same account documents: the main thread, *)
(* which runs BUY, COMMIT_BUY and CANCEL_BUY (PendingBuys), SELL,          *)
(* COMMIT_SELL and CANCEL_SELL (PendingSells), and the SET_* commands      *)
(* (AutoTrading) one at a time, the threads of the timers, and the polling *)
(* thread, which carries out the automatic transactions.                   *)
(***************************************************************************)
EXTENDS Accounts

CONSTANTS Debts, BuyIds, Amounts, SellIds, Main, AutoAmounts, Triggers, Lots,
          MaxShares, Commands, Overlapping, CanRaise, CanRestart

VARIABLES
    uncommitted_buys, uncommitted_buy_timers, pc, frame, hold,
    uncommitted_sells, uncommitted_sell_timers, sell_pc, sell_frame, fate,
    auto_buy, auto_sell, pending_sell_triggers, buyers, sellers,
    auto_pc, cmd, poll, seen

buys == <<uncommitted_buys, uncommitted_buy_timers, pc, frame, hold>>
sells == <<uncommitted_sells, uncommitted_sell_timers, sell_pc, sell_frame, fate>>
autos == <<auto_buy, auto_sell, pending_sell_triggers, buyers, sellers,
           auto_pc, cmd, poll, seen>>
vars == <<exists, account, available, stocks, quote_cache,
          uncommitted_buys, uncommitted_buy_timers, pc, frame, hold,
          uncommitted_sells, uncommitted_sell_timers, sell_pc, sell_frame, fate,
          auto_buy, auto_sell, pending_sell_triggers, buyers, sellers,
          auto_pc, cmd, poll, seen>>

(***************************************************************************)
(* Where the main thread is: in pc[Main] during a command of PendingBuys,  *)
(* in sell_pc[Main] during one of PendingSells, in auto_pc during one of   *)
(* AutoTrading.                                                            *)
(***************************************************************************)
Buys == INSTANCE PendingBuys
Sells == INSTANCE PendingSells WITH pc <- sell_pc, frame <- sell_frame
Autos == INSTANCE AutoTrading WITH pc <- auto_pc

(***************************************************************************)
(* The assumptions of the three modules on their constants.                *)
(***************************************************************************)
ASSUME SumsAssumption == Debts \cup Amounts \subseteq Nat
ASSUME NumbersAssumption == AutoAmounts \cup Triggers \cup Lots \subseteq Nat \ {0}
ASSUME ThreadsAssumption == Main \notin BuyIds \cup SellIds
ASSUME NoneAssumption == None \notin BuyIds \cup SellIds \cup Users \cup {Main}
ASSUME NoneIsNoRecord ==
    None \notin Buys!Buy \cup Sells!Sell \cup Autos!AutoTransaction \cup AutoAmounts
ASSUME OneStock == Stocks # {} /\ \A r, s \in Stocks : r = s
ASSUME KindsAssumption == Overlapping \subseteq Commands /\ Commands \subseteq Autos!Kinds
ASSUME SwitchesAssumption == {CanRaise, CanRestart} \subseteq BOOLEAN

(* handle_command is called for one command after the other. *)
Busy == {i \in 1..3 : <<pc[Main], sell_pc[Main], auto_pc>>[i] # "idle"}

TypeOK ==
    /\ Buys!TypeOK /\ Sells!TypeOK /\ Autos!TypeOK
    /\ \A i, j \in Busy : i = j

(***************************************************************************)
(* Users who have added funds and bought nothing yet.                      *)
(***************************************************************************)
Init ==
    /\ Autos!Init
    /\ uncommitted_buys = [u \in Users |-> None]
    /\ uncommitted_buy_timers = [u \in Users |-> None]
    /\ pc = [t \in BuyIds \cup {Main} |-> IF t = Main THEN "idle" ELSE "unarmed"]
    /\ frame = [t \in BuyIds \cup {Main} |-> Buys!NoFrame]
    /\ hold = [b \in BuyIds |-> Buys!NoHold]
    /\ uncommitted_sells = [u \in Users |-> None]
    /\ uncommitted_sell_timers = [u \in Users |-> None]
    /\ sell_pc = [t \in SellIds \cup {Main} |-> IF t = Main THEN "idle" ELSE "unarmed"]
    /\ sell_frame = [t \in SellIds \cup {Main} |-> Sells!NoFrame]
    /\ fate = [x \in SellIds |-> Sells!NoFate]

(***************************************************************************)
(* Variants of the definitions that follow, each with one mistake.         *)
(***************************************************************************)
AlwaysFree == TRUE

-----------------------------------------------------------------------------
MainIsFree == Busy = {}

(***************************************************************************)
(* A look-up of a stock that is in the array twice raises.  COMMIT_BUY has *)
(* popped the pending buy and its timer by then, SELL has got its quote.   *)
(***************************************************************************)
LookUpRaises(u) == Autos!Twice(u)

CommitRaises(u) ==
    /\ u \in exists
    /\ uncommitted_buys[u] # None
    /\ LookUpRaises(u)
    /\ uncommitted_buys' = [uncommitted_buys EXCEPT ![u] = None]
    /\ uncommitted_buy_timers' = [uncommitted_buy_timers EXCEPT ![u] = None]
    /\ pc' = Buys!Cancelled(pc, uncommitted_buy_timers[u])
    /\ UNCHANGED <<db, frame, hold>>

(***************************************************************************)
(* CANCEL_BUY or CANCEL_SELL with nothing to pop from either dictionary is *)
(* refused and changes nothing: no other thread adds to them.              *)
(***************************************************************************)
Cancellable(pending, timers, u) == pending[u] # None \/ timers[u] # None

BuysCommand(u) ==
    /\ MainIsFree
    /\ \/ \E d \in Debts, id \in BuyIds, v \in Prices :
             Buys!BuyCheck(u, Autos!Symbol, d, id, v)
       \/ ~LookUpRaises(u) /\ Buys!CommitTake(u)
       \/ CommitRaises(u)
       \/ /\ Cancellable(uncommitted_buys, uncommitted_buy_timers, u)
          /\ Buys!CancelTimer(Main, u)
    /\ UNCHANGED <<sells, autos>>

SellsCommand(u) ==
    /\ MainIsFree
    /\ \/ /\ ~LookUpRaises(u)
          /\ \E a \in Amounts, id \in SellIds, v \in Prices :
                Sells!SellCheck(u, Autos!Symbol, a, id, v)
       \/ Sells!CommitTake(u)
       \/ /\ Cancellable(uncommitted_sells, uncommitted_sell_timers, u)
          /\ Sells!CancelTimer(Main, u)
    /\ UNCHANGED <<buys, autos>>

(* Where no BUY brings in shares (BuyIds = {}), Bought does. *)
AutosCommand(u) ==
    /\ MainIsFree
    /\ \/ Autos!BuyCommand(u) \/ Autos!SellCommand(u)
       \/ \E n \in Lots, v \in Prices : Autos!Bought(u, n, v)
    /\ UNCHANGED <<buys, sells>>

(***************************************************************************)
(* The next step of a command of either kind, of a timer, of the polling.  *)
(***************************************************************************)
BuysStep ==
    /\ \/ Buys!BuyStep \/ Buys!CommitSettle
       \/ \E b \in BuyIds : Buys!Fire(b) \/ \E u \in Users : Buys!CancelTimer(b, u)
       \/ \E t \in Buys!Threads : Buys!CancelStep(t) \/ Buys!Raise(t)
    /\ UNCHANGED <<sells, autos>>

SellsStep ==
    /\ \/ Sells!SellStep \/ Sells!CommitSettle
       \/ \E x \in SellIds : Sells!Fire(x) \/ \E u \in Users : Sells!CancelTimer(x, u)
       \/ \E t \in Sells!Threads : Sells!CancelStep(t) \/ Sells!Raise(t)
    /\ UNCHANGED <<buys, autos>>

AutosStep ==
    /\ Autos!MainStep \/ Autos!PollStep \/ Autos!MainRaises \/ Autos!PollerRaises
    /\ UNCHANGED <<buys, sells>>

(* The process dies with all its threads and is started again. *)
Restart == Buys!Restart /\ Sells!Restart /\ Autos!Restart

Next ==
    \/ \E u \in Users : BuysCommand(u) \/ SellsCommand(u) \/ AutosCommand(u)
    \/ BuysStep
    \/ SellsStep
    \/ AutosStep
    \/ Restart

Spec == Init /\ [][Next]_vars

-----------------------------------------------------------------------------
(***************************************************************************)
(* A user's money and the value of their shares stay what they were, also  *)
(* when a COMMIT_BUY and an automatic buy deliver the same stock at the    *)
(* same time and it is in the array twice from then on, or when one of     *)
(* them fails for that reason.                                             *)
(***************************************************************************)
WealthKept == Autos!WealthKept

(***************************************************************************)
(* What is not available of a user's money covers all of their pending     *)
(* buys and their automatic buy together: neither component spends or      *)
(* frees what the other one has reserved.                                  *)
(***************************************************************************)
ReservedTogether ==
    \A u \in Users :
        Buys!CostIn("held", u) + Autos!Reserved(u) <= account[u] - available[u]

(***************************************************************************)
(* The shares that are not available cover the pending sells and the auto  *)
(* sell of the user together, with a release that overtakes the            *)
(* reservation it belongs to counted against it: no share is sold by a     *)
(* command and by the polling thread as well.                              *)
(***************************************************************************)
Offered(u) ==
    Sells!SumFunction([x \in SellIds |-> Sells!Withheld(fate[x], u, Autos!Symbol)])

OfferedTogether ==
    \A u \in Users : Offered(u) + Autos!Waiting(u) + Autos!Selling(u) <= Autos!Unavailable(u)
=================================================================================
