------------------------------ MODULE PendingSells ------------------------------
(***************************************************************************)
(* SELL, COMMIT_SELL and CANCEL_SELL of CMDHandler, with the 60 second     *)
(* timer of every SELL.  The threads and their dictionaries are those of   *)
(* PendingBuys, but a SELL records its pending sell first and sets the     *)
(* shares aside afterwards, in an update that may not match.               *)
(*                                                                         *)
(* The shares come from COMMIT_BUY, modelled here by its effect (Bought).  *)
(***************************************************************************)
EXTENDS Accounts, Timers, Functions

CONSTANTS
    Amounts,     \* the sums sell_amount of the SELL commands
    Lots,        \* the numbers of shares a COMMIT_BUY may deliver
    MaxShares,   \* bound on the shares of an element (a bound of the model)
    SellIds,     \* the identities of SELL commands, and of their timer threads
    Main,        \* the thread that runs the commands
    CanRaise,    \* may an operation raise an exception?
    CanRestart   \* may the worker process die and be started again?

ASSUME AmountsAssumption == Amounts \subseteq Nat /\ Lots \subseteq Nat \ {0}
ASSUME ThreadsAssumption == Main \notin SellIds
ASSUME NoneAssumption == None \notin SellIds \cup Users \cup {Main}
ASSUME SwitchesAssumption == {CanRaise, CanRestart} \subseteq BOOLEAN

Threads == SellIds \cup {Main}

(***************************************************************************)
(* An entry of uncommitted_sells; its id tells two sells of a user apart.  *)
(***************************************************************************)
Sell == [id : SellIds, stock : Stocks, num_stocks : Nat, quote : Prices]

ASSUME NoneIsNoSell == None \notin Sell

Profit(x) == x.num_stocks * x.quote

VARIABLES
    uncommitted_sells,         \* the pending sell of each user
    uncommitted_sell_timers,   \* the timer of each user
    pc,                        \* where each thread is
    frame,                     \* the local variables of each thread
    fate                       \* history: what became of each sell

mem == <<uncommitted_sells, uncommitted_sell_timers, pc, frame>>
vars == <<exists, account, available, stocks, quote_cache,
          uncommitted_sells, uncommitted_sell_timers, pc, frame, fate>>

(***************************************************************************)
(* found: in a SELL, the stock that is about to be removed had enough      *)
(* shares; after that, and in a CANCEL_SELL, a timer was popped.           *)
(***************************************************************************)
Frame == [user : Users \cup {None}, sell : Sell \cup {None}, found : BOOLEAN]
NoFrame == [user |-> None, sell |-> None, found |-> FALSE]

(***************************************************************************)
(* state: "new" until the sell is recorded; set_aside: its shares were     *)
(* taken from the available ones.                                          *)
(***************************************************************************)
Fate == [state : {"new", "pending", "sold", "freed"}, set_aside : BOOLEAN,
         user : Users \cup {None}, sell : Sell \cup {None}]
NoFate == [state |-> "new", set_aside |-> FALSE, user |-> None, sell |-> None]

MainPC == {"idle", "sell_pull", "sell_record", "sell_reserve", "sell_swap", "sell_arm",
           "commit_settle", "cancel_take", "cancel_release"}
TimerPC == {"unarmed", "armed", "cancelled", "fired", "cancel_take",
            "cancel_release", "done"}

TypeOK ==
    /\ DbTypeOK
    /\ uncommitted_sells \in [Users -> Sell \cup {None}]
    /\ uncommitted_sell_timers \in [Users -> SellIds \cup {None}]
    /\ pc \in [Threads -> MainPC \cup TimerPC]
    /\ pc[Main] \in MainPC
    /\ \A b \in SellIds : pc[b] \in TimerPC
    /\ frame \in [Threads -> Frame]
    /\ fate \in [SellIds -> Fate]

(***************************************************************************)
(* Users who have added funds and bought nothing yet.                      *)
(***************************************************************************)
Init ==
    /\ exists = Users
    /\ account = [u \in Users |-> MaxFunds]
    /\ available = [u \in Users |-> MaxFunds]
    /\ stocks = [u \in Users |-> [s \in Stocks |-> << >>]]
    /\ quote_cache = [s \in Stocks |-> None]
    /\ uncommitted_sells = [u \in Users |-> None]
    /\ uncommitted_sell_timers = [u \in Users |-> None]
    /\ pc = [t \in Threads |-> IF t = Main THEN "idle" ELSE "unarmed"]
    /\ frame = [t \in Threads |-> NoFrame]
    /\ fate = [x \in SellIds |-> NoFate]

(***************************************************************************)
(* Variants of the definitions that follow, each with one mistake: a       *)
(* dictionary read with get where the code pops, a check forgotten, a      *)
(* handler whose end would be the end of the main thread, shares that are  *)
(* sold and then offered again, or paid for and kept, or removed with all  *)
(* the others of the stock, a timer that is never started.                 *)
(***************************************************************************)
KeepSell(u) == UNCHANGED uncommitted_sells
Unchecked(x, h) == TRUE
ThreadEnds(t) == "done"
SoldAndOffered(u, x) == Increased(u, x.stock, -x.num_stocks, x.num_stocks)
Unsold(u, x) == stocks
AllSold(u, x) == [stocks EXCEPT ![u][x.stock] = << >>]
NotArmed(id) == [pc EXCEPT ![Main] = "idle"]

Goto(t, l) == pc' = [pc EXCEPT ![t] = l]

EndPC(t) == IF t = Main THEN "idle" ELSE "done"

End(t) ==
    /\ Goto(t, EndPC(t))
    /\ frame' = [frame EXCEPT ![t] = NoFrame]

(* uncommitted_sells.pop *)
PopSell(u) == uncommitted_sells' = [uncommitted_sells EXCEPT ![u] = None]

-----------------------------------------------------------------------------
(***************************************************************************)
(* A BUY and COMMIT_BUY deliver shares (see PendingBuys).                  *)
(***************************************************************************)
Bought(u, s, n, v) ==
    /\ pc[Main] = "idle"
    /\ v \in QuoteOf(s)
    /\ n * v <= available[u]
    /\ Owns(u, s) => stocks[u][s][1].amount + n <= MaxShares
    /\ CacheQuote(s, v)
    /\ stocks' = IF Owns(u, s) THEN Increased(u, s, n, n)
                 ELSE Pushed(u, s, [amount |-> n, available |-> n])
    /\ account' = [account EXCEPT ![u] = @ - n * v]
    /\ available' = [available EXCEPT ![u] = @ - n * v]
    /\ UNCHANGED <<exists, mem, fate>>

(***************************************************************************)
(* SELL: quote, look-up of the stock, check of its available shares.  An   *)
(* element with no shares is to be removed first.                          *)
(***************************************************************************)
EnoughShares(x, h) == x.num_stocks <= h.available

SellCheck(u, s, a, id, v) ==
    /\ pc[Main] = "idle"
    /\ u \in exists
    /\ fate[id].state = "new"
    /\ v \in QuoteOf(s)
    /\ CacheQuote(s, v)
    /\ LET x == [id |-> id, stock |-> s, num_stocks |-> a \div v, quote |-> v]
           h == stocks[u][s][1]
       IN  IF Owns(u, s) /\ (h.amount = 0 \/ EnoughShares(x, h))
           THEN /\ Goto(Main, IF h.amount = 0 THEN "sell_pull" ELSE "sell_record")
                /\ frame' = [frame EXCEPT ![Main] =
                                [user |-> u, sell |-> x, found |-> EnoughShares(x, h)]]
           ELSE UNCHANGED <<pc, frame>>
    /\ UNCHANGED <<exists, account, available, stocks, uncommitted_sells,
                   uncommitted_sell_timers, fate>>

(***************************************************************************)
(* pull__stocks__symbol of the empty element, after which the SELL goes on *)
(* with what it has read.                                                  *)
(***************************************************************************)
SellPull ==
    LET u == frame[Main].user
        s == frame[Main].sell.stock
    IN  /\ pc[Main] = "sell_pull"
        /\ stocks' = [stocks EXCEPT ![u][s] = << >>]
        /\ IF frame[Main].found
           THEN Goto(Main, "sell_record") /\ UNCHANGED frame
           ELSE End(Main)
        /\ UNCHANGED <<exists, account, available, quote_cache, uncommitted_sells,
                       uncommitted_sell_timers, fate>>

(* uncommitted_sells.update: the pending sell replaces the one before it. *)
SellRecord ==
    LET u == frame[Main].user
        x == frame[Main].sell
    IN  /\ pc[Main] = "sell_record"
        /\ uncommitted_sells' = [uncommitted_sells EXCEPT ![u] = x]
        /\ fate' = [fate EXCEPT ![x.id] = [state |-> "pending", set_aside |-> FALSE,
                                           user |-> u, sell |-> x]]
        /\ Goto(Main, "sell_reserve")
        /\ UNCHANGED <<exists, account, available, stocks, quote_cache,
                       uncommitted_sell_timers, frame>>

(***************************************************************************)
(* The shares are set aside.  When no element matches, the SELL returns an *)
(* error and leaves its pending sell behind.                               *)
(***************************************************************************)
SellReserve ==
    LET u == frame[Main].user
        x == frame[Main].sell
    IN  /\ pc[Main] = "sell_reserve"
        /\ IF Owns(u, x.stock)
           THEN /\ stocks' = Increased(u, x.stock, 0, -x.num_stocks)
                /\ fate' = [fate EXCEPT ![x.id].set_aside = TRUE]
                /\ Goto(Main, "sell_swap") /\ UNCHANGED frame
           ELSE End(Main) /\ UNCHANGED <<stocks, fate>>
        /\ UNCHANGED <<exists, account, available, quote_cache, uncommitted_sells,
                       uncommitted_sell_timers>>

(* The previous timer is popped and cancelled. *)
SellSwap ==
    LET u == frame[Main].user
    IN  /\ pc[Main] = "sell_swap"
        /\ uncommitted_sell_timers' = [uncommitted_sell_timers EXCEPT ![u] = None]
        /\ pc' = [Cancelled(pc, uncommitted_sell_timers[u]) EXCEPT ![Main] = "sell_arm"]
        /\ frame' = [frame EXCEPT ![Main].found = uncommitted_sell_timers[u] # None]
        /\ UNCHANGED <<exists, account, available, stocks, quote_cache,
                       uncommitted_sells, fate>>

(* A new timer is started and recorded. *)
Armed(id) == [Started(pc, id) EXCEPT ![Main] = "idle"]

SellArm ==
    LET u == frame[Main].user
        id == frame[Main].sell.id
    IN  /\ pc[Main] = "sell_arm"
        /\ uncommitted_sell_timers' = [uncommitted_sell_timers EXCEPT ![u] = id]
        /\ pc' = Armed(id)
        /\ frame' = [frame EXCEPT ![Main] = NoFrame, ![id] = [NoFrame EXCEPT !.user = u]]
        /\ UNCHANGED <<exists, account, available, stocks, quote_cache,
                       uncommitted_sells, fate>>

-----------------------------------------------------------------------------
(***************************************************************************)
(* COMMIT_SELL: the pending sell and its timer are popped ...              *)
(***************************************************************************)
CommitTake(u) ==
    /\ pc[Main] = "idle"
    /\ u \in exists
    /\ uncommitted_sells[u] # None
    /\ PopSell(u)
    /\ uncommitted_sell_timers' = [uncommitted_sell_timers EXCEPT ![u] = None]
    /\ pc' = [Cancelled(pc, uncommitted_sell_timers[u]) EXCEPT ![Main] = "commit_settle"]
    /\ frame' = [frame EXCEPT ![Main] =
                    [user |-> u, sell |-> uncommitted_sells[u], found |-> FALSE]]
    /\ UNCHANGED <<exists, account, available, stocks, quote_cache, fate>>

(***************************************************************************)
(* ... and one update takes the shares and pays for them, when the stock   *)
(* is still there.                                                         *)
(***************************************************************************)
Sold(u, x) == Increased(u, x.stock, -x.num_stocks, 0)

CommitSettle ==
    LET u == frame[Main].user
        x == frame[Main].sell
    IN  /\ pc[Main] = "commit_settle"
        /\ IF Owns(u, x.stock)
           THEN /\ stocks' = Sold(u, x)
                /\ account' = [account EXCEPT ![u] = @ + Profit(x)]
                /\ available' = [available EXCEPT ![u] = @ + Profit(x)]
                /\ fate' = [fate EXCEPT ![x.id].state = "sold"]
           ELSE UNCHANGED <<stocks, account, available, fate>>
        /\ End(Main)
        /\ UNCHANGED <<exists, quote_cache, uncommitted_sells, uncommitted_sell_timers>>

-----------------------------------------------------------------------------
(***************************************************************************)
(* A timer that was not cancelled runs cancel_sell after its 60 seconds.   *)
(***************************************************************************)
Fire(b) ==
    /\ pc[b] = "armed"
    /\ Goto(b, "fired")
    /\ UNCHANGED <<exists, account, available, stocks, quote_cache,
                   uncommitted_sells, uncommitted_sell_timers, frame, fate>>

(***************************************************************************)
(* CANCEL_SELL, for the main thread or a timer's.                          *)
(***************************************************************************)
CancelTimer(t, u) ==
    /\ IF t = Main THEN pc[t] = "idle" /\ u \in exists
                   ELSE pc[t] = "fired" /\ u = frame[t].user
    /\ uncommitted_sell_timers' = [uncommitted_sell_timers EXCEPT ![u] = None]
    /\ pc' = [Cancelled(pc, uncommitted_sell_timers[u]) EXCEPT ![t] = "cancel_take"]
    /\ frame' = [frame EXCEPT ![t] = [user |-> u, sell |-> None,
                                      found |-> uncommitted_sell_timers[u] # None]]
    /\ UNCHANGED <<exists, account, available, stocks, quote_cache,
                   uncommitted_sells, fate>>

CancelTake(t) ==
    LET u == frame[t].user
    IN  /\ pc[t] = "cancel_take"
        /\ PopSell(u)
        /\ IF uncommitted_sells[u] = None
           THEN End(t)
           ELSE /\ Goto(t, "cancel_release")
                /\ frame' = [frame EXCEPT ![t].sell = uncommitted_sells[u]]
        /\ UNCHANGED <<exists, account, available, stocks, quote_cache,
                       uncommitted_sell_timers, fate>>

CancelRelease(t) ==
    LET u == frame[t].user
        x == frame[t].sell
    IN  /\ pc[t] = "cancel_release"
        /\ IF Owns(u, x.stock)
           THEN /\ stocks' = Increased(u, x.stock, 0, x.num_stocks)
                /\ fate' = [fate EXCEPT ![x.id].state = "freed"]
           ELSE UNCHANGED <<stocks, fate>>
        /\ End(t)
        /\ UNCHANGED <<exists, account, available, quote_cache, uncommitted_sells,
                       uncommitted_sell_timers>>

-----------------------------------------------------------------------------
(***************************************************************************)
(* Exceptions and restarts, as in PendingBuys.                             *)
(***************************************************************************)
MayRaise(t) ==
    \/ pc[t] \in {"sell_pull", "sell_reserve", "sell_arm", "commit_settle",
                  "cancel_release", "fired"}
    \/ pc[t] = "cancel_take" /\ frame[t].found

Raise(t) ==
    /\ CanRaise
    /\ MayRaise(t)
    /\ End(t)
    /\ UNCHANGED <<exists, account, available, stocks, quote_cache,
                   uncommitted_sells, uncommitted_sell_timers, fate>>

Restart ==
    /\ CanRestart
    /\ uncommitted_sells' = [u \in Users |-> None]
    /\ uncommitted_sell_timers' = [u \in Users |-> None]
    /\ pc' = [t \in Threads |-> IF pc[t] = "unarmed" THEN "unarmed" ELSE EndPC(t)]
    /\ frame' = [t \in Threads |-> NoFrame]
    /\ UNCHANGED <<exists, account, available, stocks, quote_cache, fate>>

SellStep == SellPull \/ SellRecord \/ SellReserve \/ SellSwap \/ SellArm

CancelStep(t) == CancelTake(t) \/ CancelRelease(t)

Next ==
    \/ \E u \in Users, s \in Stocks, n \in Lots, v \in Prices : Bought(u, s, n, v)
    \/ \E u \in Users, s \in Stocks, a \in Amounts, id \in SellIds, v \in Prices :
          SellCheck(u, s, a, id, v)
    \/ SellStep
    \/ \E u \in Users : CommitTake(u)
    \/ CommitSettle
    \/ \E b \in SellIds : Fire(b)
    \/ \E t \in Threads, u \in Users : CancelTimer(t, u)
    \/ \E t \in Threads : CancelStep(t) \/ Raise(t)
    \/ Restart

Spec == Init /\ [][Next]_vars

Fairness ==
    /\ WF_vars(SellStep) /\ WF_vars(CommitSettle)
    /\ WF_vars(CancelStep(Main))
    /\ \A b \in SellIds :
          /\ WF_vars(Fire(b))
          /\ WF_vars(\E u \in Users : CancelTimer(b, u))
          /\ WF_vars(CancelStep(b))

FairSpec == Spec /\ Fairness

-----------------------------------------------------------------------------
(***************************************************************************)
(* The dictionary or a thread owns a sell that it can still settle.        *)
(***************************************************************************)
Recorded(x, u) == uncommitted_sells[u] # None /\ uncommitted_sells[u].id = x

Carries(t) == pc[t] \in {"commit_settle", "cancel_release"}

Carried(x, t) == Carries(t) /\ frame[t].sell.id = x

Owned(x) == (\E u \in Users : Recorded(x, u)) \/ (\E t \in Threads : Carried(x, t))

(***************************************************************************)
(* Each sell has at most one owner and is not settled yet while it has     *)
(* one, however COMMIT_SELL, CANCEL_SELL and timers meet; and its owner    *)
(* settles it for the user and the shares it was recorded with.            *)
(***************************************************************************)
OwnerMatches(u, x) ==
    fate[x.id].state = "pending" /\ fate[x.id].user = u /\ fate[x.id].sell = x

SettledByOwnerOnly ==
    /\ \A u \in Users : uncommitted_sells[u] # None => OwnerMatches(u, uncommitted_sells[u])
    /\ \A t \in Threads : Carries(t) => OwnerMatches(frame[t].user, frame[t].sell)
    /\ \A t \in Threads, u \in Users : Carries(t) => ~Recorded(frame[t].sell.id, u)
    /\ \A t1, t2 \in Threads :
          Carries(t1) /\ Carries(t2) /\ frame[t1].sell.id = frame[t2].sell.id => t1 = t2

(***************************************************************************)
(* Without exceptions nobody sells shares they do not own, or offers more  *)
(* than they own: between commands and cancellations the available shares  *)
(* are at least none and at most all.                                      *)
(***************************************************************************)
NeverOversold ==
    \A u \in Users, s \in Stocks : \A i \in DOMAIN stocks[u][s] :
        LET h == stocks[u][s][i]
        IN  /\ h.amount >= 0 /\ h.available >= 0
            /\ pc[Main] = "idle" => h.available <= h.amount

(***************************************************************************)
(* What a user has of a stock, and what a sell f withholds of it: its      *)
(* shares from when they are set aside until they are sold or freed, and   *)
(* less than nothing while a release has overtaken the reservation.        *)
(***************************************************************************)
AtHand(u, s) == IF Owns(u, s) THEN stocks[u][s][1] ELSE [amount |-> 0, available |-> 0]

Withheld(f, u, s) ==
    IF f.user = u /\ f.sell.stock = s
    THEN (IF f.set_aside THEN f.sell.num_stocks ELSE 0)
         - (IF f.state \in {"sold", "freed"} THEN f.sell.num_stocks ELSE 0)
    ELSE 0

(***************************************************************************)
(* Without faults, the shares of a stock that are not available are those  *)
(* set aside by sells that are neither sold nor freed: a release that      *)
(* overtakes its reservation is made up for, and none is released twice.   *)
(***************************************************************************)
SharesBalanced ==
    \A u \in Users, s \in Stocks :
        AtHand(u, s).amount - AtHand(u, s).available =
            SumFunction([x \in SellIds |-> Withheld(fate[x], u, s)])

(***************************************************************************)
(* Every share is in the account or was paid for: a user's money and the   *)
(* value of their shares add up to the funds they started with.            *)
(***************************************************************************)
ValueOfShares(u) ==
    SumFunction([s \in Stocks |->
        IF Owns(u, s) THEN stocks[u][s][1].amount * quote_cache[s] ELSE 0])

WealthKept ==
    \A u \in Users :
        /\ account[u] = available[u]
        /\ account[u] + ValueOfShares(u) = MaxFunds

(***************************************************************************)
(* Without faults, a step takes shares that are set aside out of reach     *)
(* only by recording a later SELL of the same user over them.              *)
(***************************************************************************)
Aside(x) == fate[x].state = "pending" /\ fate[x].set_aside /\ fate[x].sell.num_stocks > 0

StrandedOnlyByReplacement ==
    [][\A x \in SellIds :
          Owned(x) /\ Aside(x) /\ Aside(x)' /\ ~Owned(x)'
          => \E u \in Users : Recorded(x, u) /\ uncommitted_sells'[u] # None]_vars

(***************************************************************************)
(* Without faults, a sell whose shares are set aside does not keep them    *)
(* for ever, unless a later SELL replaced it.                              *)
(***************************************************************************)
PendingResolved == \A x \in SellIds : Owned(x) /\ Aside(x) ~> ~Owned(x) \/ ~Aside(x)
===============================================================================
