------------------------------ MODULE PendingBuys ------------------------------
(***************************************************************************)
(* ADD, QUOTE, BUY, COMMIT_BUY and CANCEL_BUY of CMDHandler                *)
(* (worker/src/cmd_handler.py), with the 60 second timer of every BUY.     *)
(*                                                                         *)
(* Commands run one at a time in the main thread; an expired timer runs    *)
(* cancel_buy in a thread of its own, next to it.  The two share the       *)
(* dictionaries uncommitted_buys and uncommitted_buy_timers and the        *)
(* account documents, and no lock.  A step of a thread ends where another  *)
(* thread can make a difference: between two accesses to the dictionaries  *)
(* or the database.  A command that is refused changes nothing and is a    *)
(* stuttering step, except that a refused BUY has cached its quote.        *)
(***************************************************************************)
EXTENDS Accounts, Timers, Functions

CONSTANTS
    Debts,      \* the sums max_debt of the BUY commands
    BuyIds,     \* the identities of BUY commands, and of their timer threads
    Main,       \* the thread that runs the commands
    CanRaise,   \* may an operation raise an exception?
    CanRestart  \* may the worker process die and be started again?

ASSUME DebtsAssumption == Debts \subseteq Nat
ASSUME ThreadsAssumption == Main \notin BuyIds
ASSUME NoneAssumption == None \notin BuyIds \cup Users \cup {Main}
ASSUME SwitchesAssumption == {CanRaise, CanRestart} \subseteq BOOLEAN

Threads == BuyIds \cup {Main}

(***************************************************************************)
(* An entry of uncommitted_buys.  Its id, the BUY it comes from, is not in *)
(* the code: it tells two pending buys of one user apart.                  *)
(***************************************************************************)
Buy == [id : BuyIds, stock : Stocks, num_stocks : Nat, quote : Prices]

ASSUME NoneIsNoBuy == None \notin Buy

Cost(b) == b.num_stocks * b.quote

(***************************************************************************)
(* The sums a reservation can hold: floor(max_debt / value) * value.       *)
(***************************************************************************)
Costs == {(d \div v) * v : d \in Debts, v \in Prices}

VARIABLES
    uncommitted_buys,         \* the pending buy of each user
    uncommitted_buy_timers,   \* the timer of each user
    pc,                       \* where each thread is
    frame,                    \* the local variables of each thread
    hold                      \* history: what became of each reservation

mem == <<uncommitted_buys, uncommitted_buy_timers, pc, frame>>
vars == <<exists, account, available, stocks, quote_cache,
          uncommitted_buys, uncommitted_buy_timers, pc, frame, hold>>

(***************************************************************************)
(* found: in a COMMIT_BUY, users_stock was found; in a CANCEL_BUY or a     *)
(* BUY, a timer was popped and cancelled.                                  *)
(***************************************************************************)
Frame == [user : Users \cup {None}, buy : Buy \cup {None}, found : BOOLEAN]
NoFrame == [user |-> None, buy |-> None, found |-> FALSE]
NoHold == [state |-> "none", user |-> None, cost |-> 0]

MainPC == {"idle", "buy_reserve", "buy_record", "buy_swap", "buy_arm",
           "commit_settle", "cancel_take", "cancel_release"}
TimerPC == {"unarmed", "armed", "cancelled", "fired", "cancel_take",
            "cancel_release", "done"}

TypeOK ==
    /\ DbTypeOK
    /\ uncommitted_buys \in [Users -> Buy \cup {None}]
    /\ uncommitted_buy_timers \in [Users -> BuyIds \cup {None}]
    /\ pc \in [Threads -> MainPC \cup TimerPC]
    /\ pc[Main] \in MainPC
    /\ \A b \in BuyIds : pc[b] \in TimerPC
    /\ frame \in [Threads -> Frame]
    /\ hold \in [BuyIds -> [state : {"none", "held", "spent", "freed"},
                            user : Users \cup {None}, cost : Int]]

Init ==
    /\ DbInit
    /\ uncommitted_buys = [u \in Users |-> None]
    /\ uncommitted_buy_timers = [u \in Users |-> None]
    /\ pc = [t \in Threads |-> IF t = Main THEN "idle" ELSE "unarmed"]
    /\ frame = [t \in Threads |-> NoFrame]
    /\ hold = [b \in BuyIds |-> NoHold]

(***************************************************************************)
(* Variants of the definitions that follow, each with one mistake: a       *)
(* dictionary read with get where the code pops, a check forgotten, a      *)
(* look-up taken to succeed or to miss, a handler whose end would be the   *)
(* end of the main thread.                                                 *)
(***************************************************************************)
KeepBuy(u) == UNCHANGED uncommitted_buys
Unchecked(u, b) == b.num_stocks # 0
AlwaysFound(u, s) == TRUE
NeverFound(u, s) == FALSE
ThreadEnds(t) == "done"

(***************************************************************************)
(* Thread t goes to l; End(t) is the end of its handler.                   *)
(***************************************************************************)
Goto(t, l) == pc' = [pc EXCEPT ![t] = l]

EndPC(t) == IF t = Main THEN "idle" ELSE "done"

End(t) ==
    /\ Goto(t, EndPC(t))
    /\ frame' = [frame EXCEPT ![t] = NoFrame]

(***************************************************************************)
(* uncommitted_buys.pop, and the look-up user_account.stocks.get.          *)
(***************************************************************************)
PopBuy(u) == uncommitted_buys' = [uncommitted_buys EXCEPT ![u] = None]

Found(u, s) == Owns(u, s)

-----------------------------------------------------------------------------
(***************************************************************************)
(* BUY: quote, check of the available funds.  The user's other commands    *)
(* run in this thread too, so nothing takes funds until the reservation.   *)
(***************************************************************************)
BuyAccepted(u, b) == b.num_stocks # 0 /\ Cost(b) <= available[u]

BuyCheck(u, s, d, id, v) ==
    /\ pc[Main] = "idle"
    /\ u \in exists
    /\ hold[id].state = "none"
    /\ v \in QuoteOf(s)
    /\ CacheQuote(s, v)
    /\ LET b == [id |-> id, stock |-> s, num_stocks |-> d \div v, quote |-> v]
       IN  IF BuyAccepted(u, b)
           THEN /\ Goto(Main, "buy_reserve")
                /\ frame' = [frame EXCEPT ![Main] =
                                [user |-> u, buy |-> b, found |-> FALSE]]
           ELSE UNCHANGED <<pc, frame>>
    /\ UNCHANGED <<exists, account, available, stocks, uncommitted_buys,
                   uncommitted_buy_timers, hold>>

(* The update inc__available = -trans_price. *)
BuyReserve ==
    LET u == frame[Main].user
        b == frame[Main].buy
    IN  /\ pc[Main] = "buy_reserve"
        /\ available' = [available EXCEPT ![u] = @ - Cost(b)]
        /\ hold' = [hold EXCEPT ![b.id] =
                        [state |-> "held", user |-> u, cost |-> Cost(b)]]
        /\ Goto(Main, "buy_record")
        /\ UNCHANGED <<exists, account, stocks, quote_cache, uncommitted_buys,
                       uncommitted_buy_timers, frame>>

(* uncommitted_buys.update: the pending buy replaces the one before it. *)
BuyRecord ==
    /\ pc[Main] = "buy_record"
    /\ uncommitted_buys' = [uncommitted_buys EXCEPT ![frame[Main].user] = frame[Main].buy]
    /\ Goto(Main, "buy_swap")
    /\ UNCHANGED <<exists, account, available, stocks, quote_cache,
                   uncommitted_buy_timers, frame, hold>>

(* The previous timer is popped and cancelled. *)
BuySwap ==
    LET u == frame[Main].user
    IN  /\ pc[Main] = "buy_swap"
        /\ uncommitted_buy_timers' = [uncommitted_buy_timers EXCEPT ![u] = None]
        /\ pc' = [Cancelled(pc, uncommitted_buy_timers[u]) EXCEPT ![Main] = "buy_arm"]
        /\ frame' = [frame EXCEPT ![Main].found = uncommitted_buy_timers[u] # None]
        /\ UNCHANGED <<exists, account, available, stocks, quote_cache,
                       uncommitted_buys, hold>>

(* A new timer is started and recorded. *)
BuyArm ==
    LET u == frame[Main].user
        id == frame[Main].buy.id
    IN  /\ pc[Main] = "buy_arm"
        /\ uncommitted_buy_timers' = [uncommitted_buy_timers EXCEPT ![u] = id]
        /\ pc' = [Started(pc, id) EXCEPT ![Main] = "idle"]
        /\ frame' = [frame EXCEPT ![Main] = NoFrame, ![id] = [NoFrame EXCEPT !.user = u]]
        /\ UNCHANGED <<exists, account, available, stocks, quote_cache,
                       uncommitted_buys, hold>>

-----------------------------------------------------------------------------
(***************************************************************************)
(* COMMIT_BUY: the pending buy and its timer are popped and the user's     *)
(* holding of the stock is looked up.                                      *)
(***************************************************************************)
CommitTake(u) ==
    /\ pc[Main] = "idle"
    /\ u \in exists
    /\ uncommitted_buys[u] # None
    /\ PopBuy(u)
    /\ uncommitted_buy_timers' = [uncommitted_buy_timers EXCEPT ![u] = None]
    /\ pc' = [Cancelled(pc, uncommitted_buy_timers[u]) EXCEPT ![Main] = "commit_settle"]
    /\ frame' = [frame EXCEPT ![Main] =
                    [user |-> u, buy |-> uncommitted_buys[u],
                     found |-> Found(u, uncommitted_buys[u].stock)]]
    /\ UNCHANGED <<exists, account, available, stocks, quote_cache, hold>>

(***************************************************************************)
(* The one update that pays the cost and delivers the shares: it pushes a  *)
(* new holding, or increases the one found, and fails when that has gone.  *)
(***************************************************************************)
CommitSettle ==
    LET u == frame[Main].user
        b == frame[Main].buy
    IN  /\ pc[Main] = "commit_settle"
        /\ IF frame[Main].found /\ ~Owns(u, b.stock)
           THEN UNCHANGED <<account, stocks, hold>>
           ELSE /\ stocks' = IF frame[Main].found
                             THEN Increased(u, b.stock, b.num_stocks, b.num_stocks)
                             ELSE Pushed(u, b.stock, [amount |-> b.num_stocks,
                                                      available |-> b.num_stocks])
                /\ account' = [account EXCEPT ![u] = @ - Cost(b)]
                /\ hold' = [hold EXCEPT ![b.id].state = "spent"]
        /\ End(Main)
        /\ UNCHANGED <<exists, available, quote_cache, uncommitted_buys,
                       uncommitted_buy_timers>>

-----------------------------------------------------------------------------
(***************************************************************************)
(* A timer that was not cancelled runs cancel_buy after its 60 seconds.    *)
(***************************************************************************)
Fire(b) ==
    /\ pc[b] = "armed"
    /\ Goto(b, "fired")
    /\ UNCHANGED <<exists, account, available, stocks, quote_cache,
                   uncommitted_buys, uncommitted_buy_timers, frame, hold>>

(***************************************************************************)
(* CANCEL_BUY, for the main thread or a timer's: the timer is popped and   *)
(* cancelled, then the pending buy is popped, then its cost is freed.      *)
(***************************************************************************)
CancelTimer(t, u) ==
    /\ IF t = Main THEN pc[t] = "idle" /\ u \in exists
                   ELSE pc[t] = "fired" /\ u = frame[t].user
    /\ uncommitted_buy_timers' = [uncommitted_buy_timers EXCEPT ![u] = None]
    /\ pc' = [Cancelled(pc, uncommitted_buy_timers[u]) EXCEPT ![t] = "cancel_take"]
    /\ frame' = [frame EXCEPT ![t] = [user |-> u, buy |-> None,
                                      found |-> uncommitted_buy_timers[u] # None]]
    /\ UNCHANGED <<exists, account, available, stocks, quote_cache,
                   uncommitted_buys, hold>>

CancelTake(t) ==
    LET u == frame[t].user
    IN  /\ pc[t] = "cancel_take"
        /\ PopBuy(u)
        /\ IF uncommitted_buys[u] = None
           THEN End(t)
           ELSE /\ Goto(t, "cancel_release")
                /\ frame' = [frame EXCEPT ![t].buy = uncommitted_buys[u]]
        /\ UNCHANGED <<exists, account, available, stocks, quote_cache,
                       uncommitted_buy_timers, hold>>

CancelRelease(t) ==
    LET u == frame[t].user
        b == frame[t].buy
    IN  /\ pc[t] = "cancel_release"
        /\ available' = [available EXCEPT ![u] = @ + Cost(b)]
        /\ hold' = [hold EXCEPT ![b.id].state = "freed"]
        /\ End(t)
        /\ UNCHANGED <<exists, account, stocks, quote_cache, uncommitted_buys,
                       uncommitted_buy_timers>>

-----------------------------------------------------------------------------
(***************************************************************************)
(* An operation of the database, of its log or of the timer raises: what   *)
(* the handler did so far stays done.  handle_command catches it in the    *)
(* main thread; a timer's thread dies.                                     *)
(***************************************************************************)
MayRaise(t) ==
    \/ pc[t] \in {"buy_reserve", "buy_arm", "commit_settle", "cancel_release", "fired"}
    \/ pc[t] = "cancel_take" /\ frame[t].found

Raise(t) ==
    /\ CanRaise
    /\ MayRaise(t)
    /\ End(t)
    /\ UNCHANGED <<exists, account, available, stocks, quote_cache,
                   uncommitted_buys, uncommitted_buy_timers, hold>>

(***************************************************************************)
(* The worker dies and is started again: the database and the redis cache  *)
(* remain, the dictionaries and the threads are lost.                      *)
(***************************************************************************)
Restart ==
    /\ CanRestart
    /\ uncommitted_buys' = [u \in Users |-> None]
    /\ uncommitted_buy_timers' = [u \in Users |-> None]
    /\ pc' = [t \in Threads |-> IF pc[t] = "unarmed" THEN "unarmed" ELSE EndPC(t)]
    /\ frame' = [t \in Threads |-> NoFrame]
    /\ UNCHANGED <<exists, account, available, stocks, quote_cache, hold>>

MainIdle(A) == pc[Main] = "idle" /\ A /\ UNCHANGED <<mem, hold>>

BuyStep == BuyReserve \/ BuyRecord \/ BuySwap \/ BuyArm

CancelStep(t) == CancelTake(t) \/ CancelRelease(t)

Next ==
    \/ \E u \in Users, a \in Deposits : MainIdle(Add(u, a))
    \/ \E u \in Users, s \in Stocks, v \in Prices : MainIdle(Quote(u, s, v))
    \/ \E u \in Users, s \in Stocks, d \in Debts, id \in BuyIds, v \in Prices :
          BuyCheck(u, s, d, id, v)
    \/ BuyStep
    \/ \E u \in Users : CommitTake(u)
    \/ CommitSettle
    \/ \E b \in BuyIds : Fire(b)
    \/ \E t \in Threads, u \in Users : CancelTimer(t, u)
    \/ \E t \in Threads : CancelStep(t) \/ Raise(t)
    \/ Restart

Spec == Init /\ [][Next]_vars

(***************************************************************************)
(* The threads are scheduled, the operations they wait for return, and a   *)
(* timer that is not cancelled expires.  No command need ever arrive.      *)
(***************************************************************************)
Fairness ==
    /\ WF_vars(BuyStep) /\ WF_vars(CommitSettle)
    /\ WF_vars(CancelStep(Main))
    /\ \A b \in BuyIds :
          /\ WF_vars(Fire(b))
          /\ WF_vars(\E u \in Users : CancelTimer(b, u))
          /\ WF_vars(CancelStep(b))

FairSpec == Spec /\ Fairness

-----------------------------------------------------------------------------
(***************************************************************************)
(* Who can still settle the reservation of BUY b: the dictionary, or a     *)
(* thread that took it out of there, or the BUY that is about to enter it. *)
(***************************************************************************)
Recorded(b, u) == uncommitted_buys[u] # None /\ uncommitted_buys[u].id = b

Carries(t) == pc[t] \in {"buy_record", "commit_settle", "cancel_release"}

Carried(b, t) == Carries(t) /\ frame[t].buy.id = b

Owned(b) == (\E u \in Users : Recorded(b, u)) \/ (\E t \in Threads : Carried(b, t))

(***************************************************************************)
(* Each buy has at most one owner, and an owner's buy is a reservation     *)
(* still held, for the user it will be settled for and of the cost it will *)
(* be settled with: no COMMIT_BUY, CANCEL_BUY or timer, however they meet, *)
(* settles one twice.                                                      *)
(***************************************************************************)
DictHeld ==
    \A u \in Users : uncommitted_buys[u] # None =>
        hold[uncommitted_buys[u].id] =
            [state |-> "held", user |-> u, cost |-> Cost(uncommitted_buys[u])]

CarriedHeld ==
    \A t \in Threads : Carries(t) =>
        /\ frame[t].user # None /\ frame[t].buy # None
        /\ hold[frame[t].buy.id] =
              [state |-> "held", user |-> frame[t].user, cost |-> Cost(frame[t].buy)]

OneOwner ==
    /\ \A t \in Threads, u \in Users :
          Carries(t) => ~Recorded(frame[t].buy.id, u)
    /\ \A t1, t2 \in Threads :
          Carries(t1) /\ Carries(t2) /\ frame[t1].buy.id = frame[t2].buy.id => t1 = t2

SettledByOwnerOnly == DictHeld /\ CarriedHeld /\ OneOwner

(***************************************************************************)
(* No user's available funds go below zero: the check of a BUY still holds *)
(* when it reserves, whatever the timers do in between.                    *)
(***************************************************************************)
AvailableNonNegative == \A u \in Users : available[u] >= 0

(***************************************************************************)
(* The money of a user that is not available is exactly the cost of the    *)
(* reservations still held: no order of commands and timers creates money  *)
(* or loses track of it.                                                   *)
(***************************************************************************)
CostIn(state, u) ==
    SumFunction([b \in BuyIds |->
        IF hold[b].state = state /\ hold[b].user = u THEN hold[b].cost ELSE 0])

Balanced == \A u \in Users : account[u] - available[u] = CostIn("held", u)

(***************************************************************************)
(* The shares of a user are those the spent reservations paid for, and     *)
(* they are all in one element of the array (a price never changes, since  *)
(* the cache keeps it).                                                    *)
(***************************************************************************)
ValueOfShares(u) ==
    SumFunction([s \in Stocks |->
        IF Owns(u, s) THEN stocks[u][s][1].amount * quote_cache[s] ELSE 0])

SharesPaidFor ==
    \A u \in Users :
        /\ \A s \in Stocks : Len(stocks[u][s]) <= 1
        /\ ValueOfShares(u) = CostIn("spent", u)

(***************************************************************************)
(* Without faults, every pending buy is going to be settled without help:  *)
(* its user has a timer that waits or is about to cancel, or a thread that *)
(* popped that timer is about to take the buy, or the BUY is still setting *)
(* its timer.                                                              *)
(***************************************************************************)
Guarded(u) ==
    \/ /\ uncommitted_buy_timers[u] # None
       /\ pc[uncommitted_buy_timers[u]] \in {"armed", "fired"}
       /\ frame[uncommitted_buy_timers[u]].user = u
    \/ \E t \in Threads : pc[t] = "cancel_take" /\ frame[t].user = u
    \/ pc[Main] \in {"buy_swap", "buy_arm"} /\ frame[Main].user = u

PendingGuarded == \A u \in Users : uncommitted_buys[u] # None => Guarded(u)

(***************************************************************************)
(* Without faults, a step takes a held reservation out of reach only by    *)
(* recording a later BUY of the same user over it.                         *)
(***************************************************************************)
StrandedOnlyByReplacement ==
    [][\A b \in BuyIds :
          Owned(b) /\ hold[b].state = "held" /\ hold'[b].state = "held" /\ ~Owned(b)'
          => \E u \in Users : Recorded(b, u) /\ uncommitted_buys'[u] # None]_vars

(***************************************************************************)
(* Without faults, a pending buy does not wait for ever: it is bought or   *)
(* cancelled, or a later BUY has replaced it.                              *)
(***************************************************************************)
PendingResolved ==
    \A b \in BuyIds :
        Owned(b) ~> ~Owned(b)

(***************************************************************************)
(* The reservations and the funds implement Escrow.                        *)
(***************************************************************************)
Ledger == INSTANCE Escrow WITH Ids <- BuyIds

Implements == Ledger!Spec
===============================================================================
