------------------------------ MODULE AutoTrading ------------------------------
(***************************************************************************)
(* The automatic transactions: SET_BUY_AMOUNT, SET_BUY_TRIGGER,            *)
(* CANCEL_SET_BUY and their SELL counterparts in CMDHandler                *)
(* (worker/src/cmd_handler.py), and the thread that polls the prices and   *)
(* carries them out (worker/src/legacy/quote_polling.py).                  *)
(*                                                                         *)
(* The main thread and the polling thread share the account documents and  *)
(* the registrations of UserPollingStocks.  Only the registrations have a  *)
(* lock, which is held for one access.  A step of a thread ends where the  *)
(* other thread can make a difference.                                     *)
(*                                                                         *)
(* The module follows one stock: the polling thread handles one polled     *)
(* stock after the other, and each update names its symbol.  (With several *)
(* symbols, the update of SET_SELL_TRIGGER has two positional operators    *)
(* and the server does not say which array their index comes from.)  BUY   *)
(* and SELL commands are here by their effect (Bought and Sold).           *)
(***************************************************************************)
EXTENDS Accounts, Functions

CONSTANTS
    AutoAmounts,  \* the numbers of shares of the SET_*_AMOUNT commands
    Triggers,     \* the prices of the SET_*_TRIGGER commands
    Lots,         \* the numbers of shares that are bought and sold by command
    MaxShares,    \* bound on the shares of an element (a bound of the model)
    Commands,     \* the kinds of commands that arrive
    Overlapping,  \* those that may be in progress during a pass of the polling
    CanRaise,     \* may an operation raise an exception?
    CanRestart    \* may the worker process die and be started again?

Kinds == {"set_buy", "cancel_set_buy", "set_sell", "cancel_set_sell", "trade"}

ASSUME OneStock == Stocks # {} /\ \A r, s \in Stocks : r = s
ASSUME AutoAssumption == AutoAmounts \cup Triggers \cup Lots \subseteq Nat \ {0}
ASSUME KindsAssumption == Overlapping \subseteq Commands /\ Commands \subseteq Kinds
ASSUME SwitchesAssumption == {CanRaise, CanRestart} \subseteq BOOLEAN

Symbol == CHOOSE s \in Stocks : TRUE

(***************************************************************************)
(* AutoTransaction.  A trigger of 0 is the default: none was set.          *)
(***************************************************************************)
AutoTransaction == [amount : Nat, trigger : Nat]

ASSUME NoneIsNoAuto == None \notin AutoTransaction \cup Users \cup AutoAmounts

VARIABLES
    auto_buy,       \* Accounts.auto_buy: the element of the stock
    auto_sell,      \* Accounts.auto_sell
    pending_sell_triggers,  \* the amount of a SET_SELL_AMOUNT without trigger
    buyers,         \* the users registered in user_polling_stocks for 'auto_buy'
    sellers,        \* ... and for 'auto_sell'
    pc, cmd,        \* the main thread and its local variables
    poll, seen      \* the polling thread and its local variables

autos == <<auto_buy, auto_sell, pending_sell_triggers>>
registered == <<buyers, sellers>>
main == <<pc, cmd>>
poller == <<poll, seen>>
vars == <<exists, account, available, stocks, quote_cache, auto_buy, auto_sell,
          pending_sell_triggers, buyers, sellers, pc, cmd, poll, seen>>

(***************************************************************************)
(* auto: the auto transaction the command has read.                        *)
(***************************************************************************)
Cmd == [user : Users \cup {None}, amount : Nat, trigger : Nat, auto : AutoTransaction \cup {None}]
NoCmd == [user |-> None, amount |-> 0, trigger |-> 0, auto |-> None]

(***************************************************************************)
(* todo: the users the query returned that are still to be handled.        *)
(* listed: the users of get_autosell_users.  found: the user has the       *)
(* stock; held: how much of it the user had when it was read for a sale.   *)
(***************************************************************************)
Seen == [value : Prices \cup {None}, todo : SUBSET Users, listed : SUBSET Users,
         user : Users \cup {None}, auto : AutoTransaction \cup {None},
         found : BOOLEAN, held : Int]
NotSeen == [value |-> None, todo |-> {}, listed |-> {}, user |-> None,
            auto |-> None, found |-> FALSE, held |-> 0]

(***************************************************************************)
(* Where the main thread may be, with the kind of the command it is in.    *)
(***************************************************************************)
KindOf == [idle |-> "none",
           set_buy_amount |-> "set_buy", set_buy_trigger |-> "set_buy",
           register_buy |-> "set_buy", cancel_set_buy |-> "cancel_set_buy",
           unregister_buy |-> "cancel_set_buy", set_sell_amount |-> "set_sell",
           set_sell_trigger |-> "set_sell", register_sell |-> "set_sell",
           cancel_set_sell |-> "cancel_set_sell", unregister_sell |-> "cancel_set_sell"]

TypeOK ==
    /\ DbTypeOK
    /\ auto_buy \in [Users -> AutoTransaction \cup {None}]
    /\ auto_sell \in [Users -> AutoTransaction \cup {None}]
    /\ pending_sell_triggers \in [Users -> AutoAmounts \cup {None}]
    /\ buyers \subseteq Users /\ sellers \subseteq Users
    /\ pc \in DOMAIN KindOf
    /\ cmd \in Cmd
    /\ poll \in {"wait", "query", "buys", "buy_read", "buy_write", "sells",
                 "sell_read", "sell_write", "dead"}
    /\ seen \in Seen

(***************************************************************************)
(* Users who have added funds and bought nothing yet.                      *)
(***************************************************************************)
Init ==
    /\ exists = Users
    /\ account = [u \in Users |-> MaxFunds]
    /\ available = [u \in Users |-> MaxFunds]
    /\ stocks = [u \in Users |-> [s \in Stocks |-> << >>]]
    /\ quote_cache = [s \in Stocks |-> None]
    /\ auto_buy = [u \in Users |-> None]
    /\ auto_sell = [u \in Users |-> None]
    /\ pending_sell_triggers = [u \in Users |-> None]
    /\ buyers = {} /\ sellers = {}
    /\ pc = "idle" /\ cmd = NoCmd
    /\ poll = "wait" /\ seen = NotSeen

(***************************************************************************)
(* Variants of the definitions that follow, each with one mistake.         *)
(***************************************************************************)
NotAdded(B, u) == B
Ends == pc' = "done" /\ cmd' = NoCmd
KeepAuto(f, u) == f
NoneAvailable == Owns(seen.user, Symbol) /\ stocks[seen.user][Symbol][1].available = 0

-----------------------------------------------------------------------------
(***************************************************************************)
(* A command of kind k starts; Goto and End move the main thread.          *)
(***************************************************************************)
Start(k) ==
    /\ pc = "idle"
    /\ k \in Commands
    /\ k \in Overlapping \/ poll \in {"wait", "dead"}

Goto(l, c) == pc' = l /\ cmd' = c

End == Goto("idle", NoCmd)

Command(u, n, t, a) == [user |-> u, amount |-> n, trigger |-> t, auto |-> a]

(***************************************************************************)
(* add_user_autobuy and get_user_autobuy (or ..._autosell), and the pull   *)
(* of an element of auto_buy (or auto_sell).                               *)
(***************************************************************************)
Add_user(B, u) == B \cup {u}
Get_user(B, u) == B \ {u}
Pulled(f, u) == [f EXCEPT ![u] = None]

(***************************************************************************)
(* stocks.get(symbol) raises when the user has the stock twice.            *)
(***************************************************************************)
Twice(u) == Len(stocks[u][Symbol]) > 1

-----------------------------------------------------------------------------
(***************************************************************************)
(* BUY and COMMIT_BUY deliver n shares, SELL and COMMIT_SELL sell them.    *)
(***************************************************************************)
Bought(u, n, v) ==
    /\ Start("trade")
    /\ v \in QuoteOf(Symbol)
    /\ n * v <= available[u]
    /\ ~Twice(u)
    /\ Owns(u, Symbol) => stocks[u][Symbol][1].amount + n <= MaxShares
    /\ CacheQuote(Symbol, v)
    /\ stocks' = IF Owns(u, Symbol) THEN Increased(u, Symbol, n, n)
                 ELSE Pushed(u, Symbol, [amount |-> n, available |-> n])
    /\ account' = [account EXCEPT ![u] = @ - n * v]
    /\ available' = [available EXCEPT ![u] = @ - n * v]
    /\ UNCHANGED <<exists, autos, registered, main, poller>>

Sold(u, n, v) ==
    /\ Start("trade")
    /\ v \in QuoteOf(Symbol)
    /\ Owns(u, Symbol) /\ ~Twice(u)
    /\ n <= stocks[u][Symbol][1].available
    /\ CacheQuote(Symbol, v)
    /\ stocks' = Increased(u, Symbol, -n, -n)
    /\ account' = [account EXCEPT ![u] = @ + n * v]
    /\ available' = [available EXCEPT ![u] = @ + n * v]
    /\ UNCHANGED <<exists, autos, registered, main, poller>>

-----------------------------------------------------------------------------
(***************************************************************************)
(* SET_BUY_AMOUNT: reads the user's auto buy, then pushes a new one, or    *)
(* sets the amount and resets the trigger of the one it has found (which   *)
(* the update no longer matches if the polling thread has pulled it).      *)
(***************************************************************************)
SetBuyAmount(u, n) ==
    /\ Start("set_buy")
    /\ u \in exists
    /\ Goto("set_buy_amount", Command(u, n, 0, auto_buy[u]))
    /\ UNCHANGED <<db, autos, registered, poller>>

SetBuyAmountUpdate ==
    LET u == cmd.user
    IN  /\ pc = "set_buy_amount"
        /\ auto_buy' = IF cmd.auto # None /\ auto_buy[u] = None THEN auto_buy
                       ELSE [auto_buy EXCEPT ![u] = [amount |-> cmd.amount, trigger |-> 0]]
        /\ End
        /\ UNCHANGED <<db, auto_sell, pending_sell_triggers, registered, poller>>

(***************************************************************************)
(* SET_BUY_TRIGGER: reads, checks the funds, sets the trigger and reserves *)
(* the price in one update, then registers the user.                       *)
(***************************************************************************)
SetBuyTrigger(u, t) ==
    /\ Start("set_buy")
    /\ u \in exists
    /\ auto_buy[u] # None
    /\ auto_buy[u].amount * t <= available[u]
    /\ Goto("set_buy_trigger", Command(u, auto_buy[u].amount, t, auto_buy[u]))
    /\ UNCHANGED <<db, autos, registered, poller>>

SetBuyTriggerUpdate ==
    LET u == cmd.user
    IN  /\ pc = "set_buy_trigger"
        /\ IF auto_buy[u] = None
           THEN End /\ UNCHANGED <<auto_buy, available>>
           ELSE /\ auto_buy' = [auto_buy EXCEPT ![u].trigger = cmd.trigger]
                /\ available' = [available EXCEPT ![u] = @ - cmd.amount * cmd.trigger]
                /\ Goto("register_buy", cmd)
        /\ UNCHANGED <<exists, account, stocks, quote_cache, auto_sell,
                       pending_sell_triggers, registered, poller>>

RegisterBuy ==
    /\ pc = "register_buy"
    /\ buyers' = Add_user(buyers, cmd.user)
    /\ End
    /\ UNCHANGED <<db, autos, sellers, poller>>

(***************************************************************************)
(* CANCEL_SET_BUY: reads; pulls the auto buy and releases what it reserved *)
(* in one update, which matches even when the auto buy has gone; then      *)
(* unregisters the user.                                                   *)
(***************************************************************************)
CancelSetBuy(u) ==
    /\ Start("cancel_set_buy")
    /\ u \in exists
    /\ auto_buy[u] # None
    /\ Goto("cancel_set_buy", Command(u, 0, 0, auto_buy[u]))
    /\ UNCHANGED <<db, autos, registered, poller>>

CancelSetBuyUpdate ==
    LET u == cmd.user
    IN  /\ pc = "cancel_set_buy"
        /\ available' = [available EXCEPT ![u] = @ + cmd.auto.amount * cmd.auto.trigger]
        /\ auto_buy' = Pulled(auto_buy, u)
        /\ Goto("unregister_buy", cmd)
        /\ UNCHANGED <<exists, account, stocks, quote_cache, auto_sell,
                       pending_sell_triggers, registered, poller>>

UnregisterBuy ==
    /\ pc = "unregister_buy"
    /\ buyers' = Get_user(buyers, cmd.user)
    /\ End
    /\ UNCHANGED <<db, autos, sellers, poller>>

-----------------------------------------------------------------------------
(***************************************************************************)
(* SET_SELL_AMOUNT: checks the available shares, sets n aside and keeps    *)
(* the amount until the trigger is given, in place of one kept before.     *)
(***************************************************************************)
SetSellAmount(u, n) ==
    /\ Start("set_sell")
    /\ Owns(u, Symbol) /\ ~Twice(u)
    /\ n <= stocks[u][Symbol][1].available
    /\ Goto("set_sell_amount", Command(u, n, 0, None))
    /\ UNCHANGED <<db, autos, registered, poller>>

SetSellAmountUpdate ==
    LET u == cmd.user
    IN  /\ pc = "set_sell_amount"
        /\ IF Owns(u, Symbol)
           THEN /\ stocks' = Increased(u, Symbol, 0, -cmd.amount)
                /\ pending_sell_triggers' = [pending_sell_triggers EXCEPT ![u] = cmd.amount]
           ELSE UNCHANGED <<stocks, pending_sell_triggers>>
        /\ End
        /\ UNCHANGED <<exists, account, available, quote_cache, auto_buy, auto_sell,
                       registered, poller>>

(***************************************************************************)
(* SET_SELL_TRIGGER: pops the amount and reads the auto sell; pushes a new *)
(* one, or changes the one it has found and, once more, the available      *)
(* shares; then registers the user.                                        *)
(***************************************************************************)
SetSellTrigger(u, t) ==
    /\ Start("set_sell")
    /\ pending_sell_triggers[u] # None
    /\ pending_sell_triggers' = Pulled(pending_sell_triggers, u)
    /\ Goto("set_sell_trigger", Command(u, pending_sell_triggers[u], t, auto_sell[u]))
    /\ UNCHANGED <<db, auto_buy, auto_sell, registered, poller>>

SetSellTriggerUpdate ==
    LET u == cmd.user
    IN  /\ pc = "set_sell_trigger"
        /\ IF cmd.auto # None /\ (auto_sell[u] = None \/ ~Owns(u, Symbol))
           THEN End /\ UNCHANGED <<auto_sell, stocks>>
           ELSE /\ auto_sell' = [auto_sell EXCEPT ![u] =
                                    [amount |-> cmd.amount, trigger |-> cmd.trigger]]
                /\ stocks' = IF cmd.auto = None THEN stocks
                             ELSE Increased(u, Symbol, 0, cmd.auto.amount - cmd.amount)
                /\ Goto("register_sell", cmd)
        /\ UNCHANGED <<exists, account, available, quote_cache, auto_buy,
                       pending_sell_triggers, registered, poller>>

RegisterSell ==
    /\ pc = "register_sell"
    /\ sellers' = Add_user(sellers, cmd.user)
    /\ End
    /\ UNCHANGED <<db, autos, buyers, poller>>

(***************************************************************************)
(* CANCEL_SET_SELL: pops the amount that still waits for its trigger, or   *)
(* else is to pull the auto sell it has read; releases the shares; then    *)
(* unregisters the user, in either case.                                   *)
(***************************************************************************)
CancelSetSell(u) ==
    /\ Start("cancel_set_sell")
    /\ u \in exists
    /\ IF pending_sell_triggers[u] # None
       THEN Goto("cancel_set_sell", Command(u, pending_sell_triggers[u], 0, None))
       ELSE /\ auto_sell[u] # None
            /\ Goto("cancel_set_sell", Command(u, auto_sell[u].amount, 0, auto_sell[u]))
    /\ pending_sell_triggers' = Pulled(pending_sell_triggers, u)
    /\ UNCHANGED <<db, auto_buy, auto_sell, registered, poller>>

CancelSetSellUpdate ==
    LET u == cmd.user
    IN  /\ pc = "cancel_set_sell"
        /\ IF Owns(u, Symbol)
           THEN /\ stocks' = Increased(u, Symbol, 0, cmd.amount)
                /\ auto_sell' = IF cmd.auto = None THEN auto_sell ELSE Pulled(auto_sell, u)
                /\ Goto("unregister_sell", cmd)
           ELSE End /\ UNCHANGED <<stocks, auto_sell>>
        /\ UNCHANGED <<exists, account, available, quote_cache, auto_buy,
                       pending_sell_triggers, registered, poller>>

UnregisterSell ==
    /\ pc = "unregister_sell"
    /\ sellers' = Get_user(sellers, cmd.user)
    /\ End
    /\ UNCHANGED <<db, autos, buyers, poller>>

-----------------------------------------------------------------------------
(***************************************************************************)
(* A pass of the polling thread begins: the stock is polled and its price  *)
(* is read.                                                                *)
(***************************************************************************)
Poll(v) ==
    /\ poll = "wait"
    /\ KindOf[pc] \in Overlapping \cup {"none"}
    /\ buyers \cup sellers # {}
    /\ v \in QuoteOf(Symbol)
    /\ CacheQuote(Symbol, v)
    /\ poll' = "query"
    /\ seen' = [NotSeen EXCEPT !.value = v]
    /\ UNCHANGED <<exists, account, available, stocks, autos, registered, main>>

(***************************************************************************)
(* The queries: registered users whose trigger the price has reached.      *)
(***************************************************************************)
BuyReached(a, v) == a # None /\ a.trigger <= v
SellReached(a, v) == a # None /\ a.trigger >= v

(***************************************************************************)
(* The users of both queries are listed, which raises KeyError when the    *)
(* stock is no longer polled, and the first query is made.                 *)
(***************************************************************************)
QueryBuys ==
    /\ poll = "query"
    /\ IF buyers \cup sellers = {}
       THEN poll' = "dead" /\ seen' = NotSeen
       ELSE /\ poll' = "buys"
            /\ seen' = [seen EXCEPT !.listed = sellers, !.todo =
                           {u \in buyers : BuyReached(auto_buy[u], seen.value)}]
    /\ UNCHANGED <<db, autos, registered, main>>

(***************************************************************************)
(* The next user: their registration is popped (None: on to the next one). *)
(***************************************************************************)
NextBuyer(u) ==
    /\ poll = "buys"
    /\ u \in seen.todo
    /\ buyers' = Get_user(buyers, u)
    /\ poll' = IF u \in buyers THEN "buy_read" ELSE "buys"
    /\ seen' = [seen EXCEPT !.todo = @ \ {u}, !.user = u]
    /\ UNCHANGED <<db, autos, sellers, main>>

(***************************************************************************)
(* auto_buy_handler reads the document.  Without the auto buy, or with the *)
(* stock twice in it, get raises and nothing catches it: the thread ends.  *)
(***************************************************************************)
BuyRead ==
    LET a == auto_buy[seen.user]
    IN  /\ poll = "buy_read"
        /\ IF a # None /\ a.trigger > seen.value
           THEN poll' = "buys" /\ UNCHANGED seen
           ELSE IF a = None \/ Twice(seen.user)
           THEN poll' = "dead" /\ seen' = NotSeen
           ELSE /\ poll' = "buy_write"
                /\ seen' = [seen EXCEPT !.auto = a, !.found = Owns(seen.user, Symbol)]
        /\ UNCHANGED <<db, autos, registered, main>>

(***************************************************************************)
(* The purchase.  The difference between what was reserved and the cost is *)
(* added to the available funds.  Nothing is done when the stock that was  *)
(* found is gone.                                                          *)
(***************************************************************************)
Remainder(a, v) == a.amount * a.trigger - a.amount * v

BuyWrite ==
    LET u == seen.user
        n == seen.auto.amount
    IN  /\ poll = "buy_write"
        /\ IF seen.found /\ ~Owns(u, Symbol)
           THEN UNCHANGED <<auto_buy, account, available, stocks>>
           ELSE /\ auto_buy' = Pulled(auto_buy, u)
                /\ available' = [available EXCEPT ![u] = @ + Remainder(seen.auto, seen.value)]
                /\ account' = [account EXCEPT ![u] = @ - n * seen.value]
                /\ stocks' = IF seen.found THEN Increased(u, Symbol, n, n)
                             ELSE Pushed(u, Symbol, [amount |-> n, available |-> n])
        /\ poll' = "buys"
        /\ UNCHANGED <<exists, quote_cache, auto_sell, pending_sell_triggers,
                       registered, main, seen>>

QuerySells ==
    /\ poll = "buys"
    /\ seen.todo = {}
    /\ poll' = "sells"
    /\ seen' = [seen EXCEPT !.todo =
                   {u \in seen.listed : SellReached(auto_sell[u], seen.value)}]
    /\ UNCHANGED <<db, autos, registered, main>>

NextSeller(u) ==
    /\ poll = "sells"
    /\ u \in seen.todo
    /\ sellers' = Get_user(sellers, u)
    /\ poll' = IF u \in sellers THEN "sell_read" ELSE "sells"
    /\ seen' = [seen EXCEPT !.todo = @ \ {u}, !.user = u]
    /\ UNCHANGED <<db, autos, buyers, main>>

(***************************************************************************)
(* auto_sell_handler reads the document.  Its get raises, also when the    *)
(* user does not have the stock.                                           *)
(***************************************************************************)
SellRead ==
    LET u == seen.user
        a == auto_sell[u]
    IN  /\ poll = "sell_read"
        /\ IF a # None /\ a.trigger < seen.value
           THEN poll' = "sells" /\ UNCHANGED seen
           ELSE IF a = None \/ Twice(u) \/ ~Owns(u, Symbol)
           THEN poll' = "dead" /\ seen' = NotSeen
           ELSE /\ poll' = "sell_write"
                /\ seen' = [seen EXCEPT !.auto = a, !.found = TRUE,
                                        !.held = stocks[u][Symbol][1].amount]
        /\ UNCHANGED <<db, autos, registered, main>>

(***************************************************************************)
(* The sale.  The stock is pulled when nothing of what was read is left.   *)
(***************************************************************************)
SellsAll == seen.held = seen.auto.amount

SellWrite ==
    LET u == seen.user
        n == seen.auto.amount
    IN  /\ poll = "sell_write"
        /\ IF ~SellsAll /\ ~Owns(u, Symbol)
           THEN UNCHANGED <<auto_sell, account, available, stocks>>
           ELSE /\ auto_sell' = Pulled(auto_sell, u)
                /\ account' = [account EXCEPT ![u] = @ + n * seen.value]
                /\ available' = [available EXCEPT ![u] = @ + n * seen.value]
                /\ stocks' = IF SellsAll THEN [stocks EXCEPT ![u][Symbol] = << >>]
                             ELSE Increased(u, Symbol, -n, 0)
        /\ poll' = "sells"
        /\ UNCHANGED <<exists, quote_cache, auto_buy, pending_sell_triggers,
                       registered, main, seen>>

(* The pass is over: the thread sleeps. *)
Sleep ==
    /\ poll = "sells"
    /\ seen.todo = {}
    /\ poll' = "wait"
    /\ seen' = NotSeen
    /\ UNCHANGED <<db, autos, registered, main>>

-----------------------------------------------------------------------------
(***************************************************************************)
(* An operation of the database or of its log raises.  handle_command      *)
(* catches it in the main thread; the polling thread ends.                 *)
(***************************************************************************)
MainRaises ==
    /\ CanRaise
    /\ pc \notin {"idle", "register_buy", "register_sell", "unregister_sell"}
    /\ End
    /\ UNCHANGED <<db, autos, registered, poller>>

PollerRaises ==
    /\ CanRaise
    /\ poll \notin {"wait", "dead"}
    /\ poll' = "dead" /\ seen' = NotSeen
    /\ UNCHANGED <<db, autos, registered, main>>

(***************************************************************************)
(* The worker dies and is started again: its dictionaries are empty.       *)
(***************************************************************************)
Restart ==
    /\ CanRestart
    /\ pending_sell_triggers' = [u \in Users |-> None]
    /\ buyers' = {} /\ sellers' = {}
    /\ End
    /\ poll' = "wait" /\ seen' = NotSeen
    /\ UNCHANGED <<db, auto_buy, auto_sell>>

BuyCommand(u) ==
    \/ \E n \in AutoAmounts : SetBuyAmount(u, n)
    \/ \E t \in Triggers : SetBuyTrigger(u, t)
    \/ CancelSetBuy(u)

SellCommand(u) ==
    \/ \E n \in AutoAmounts : SetSellAmount(u, n)
    \/ \E t \in Triggers : SetSellTrigger(u, t)
    \/ CancelSetSell(u)

Trade(u) == \E n \in Lots, v \in Prices : Bought(u, n, v) \/ Sold(u, n, v)

MainStep ==
    \/ SetBuyAmountUpdate \/ SetBuyTriggerUpdate \/ RegisterBuy
    \/ CancelSetBuyUpdate \/ UnregisterBuy
    \/ SetSellAmountUpdate \/ SetSellTriggerUpdate \/ RegisterSell
    \/ CancelSetSellUpdate \/ UnregisterSell

PollStep ==
    \/ \E v \in Prices : Poll(v)
    \/ QueryBuys \/ BuyRead \/ BuyWrite
    \/ QuerySells \/ SellRead \/ SellWrite \/ Sleep
    \/ \E u \in Users : NextBuyer(u) \/ NextSeller(u)

Next ==
    \/ \E u \in Users : BuyCommand(u) \/ SellCommand(u) \/ Trade(u)
    \/ MainStep
    \/ PollStep
    \/ MainRaises \/ PollerRaises \/ Restart

Spec == Init /\ [][Next]_vars

(***************************************************************************)
(* Both threads are scheduled and the operations they wait for return.  No *)
(* command need ever arrive.                                               *)
(***************************************************************************)
FairSpec == Spec /\ WF_vars(MainStep) /\ WF_vars(PollStep)

-----------------------------------------------------------------------------
(***************************************************************************)
(* The funds that are not available cover the auto buy of the user, and    *)
(* available funds never exceed the account: the price is reserved for     *)
(* each trigger that is set and comes back at most once, when the auto buy *)
(* is carried out or cancelled, whatever SET_BUY commands do during the    *)
(* polling.                                                                *)
(***************************************************************************)
Reserved(u) ==
    IF auto_buy[u] = None THEN 0 ELSE auto_buy[u].amount * auto_buy[u].trigger

ReservedForBuy == \A u \in Users : Reserved(u) <= account[u] - available[u]

(***************************************************************************)
(* The shares of an auto sell, those that wait for its trigger, and those  *)
(* a command has popped, which are in its hand.                            *)
(***************************************************************************)
Waiting(u) == IF pending_sell_triggers[u] = None THEN 0 ELSE pending_sell_triggers[u]

Selling(u) == IF auto_sell[u] = None THEN 0 ELSE auto_sell[u].amount

InHand(u) ==
    IF /\ cmd.user = u
       /\ \/ pc = "set_sell_trigger"
          \/ pc = "cancel_set_sell" /\ cmd.auto = None
    THEN cmd.amount ELSE 0

Unavailable(u) ==
    IF Owns(u, Symbol)
    THEN stocks[u][Symbol][1].amount - stocks[u][Symbol][1].available ELSE 0

Claims(u) == Waiting(u) + Selling(u) + InHand(u)

SetAside(u) == Claims(u) <= Unavailable(u)

(***************************************************************************)
(* What is set aside for a sale stays set aside, whatever commands are in  *)
(* progress during a pass, but for two updates that no longer match what   *)
(* their thread has read: a CANCEL_SET_SELL of an auto sell that the       *)
(* polling thread has sold meanwhile (cmd_handler.py:840), and a sale by   *)
(* the polling thread after a command has changed the auto sell, or one    *)
(* that pulls the whole stock while more of it is set aside                *)
(* (quote_polling.py:250).                                                 *)
(***************************************************************************)
CancelsSold(u) ==
    CancelSetSellUpdate /\ cmd.user = u /\ cmd.auto # None /\ auto_sell[u] # cmd.auto

SellsChanged(u) ==
    /\ SellWrite /\ seen.user = u
    /\ \/ auto_sell[u] # seen.auto
       \/ SellsAll /\ Waiting(u) + InHand(u) # 0

SetAsideStays ==
    [][\A u \in Users : SetAside(u) =>
          SetAside(u)' \/ CancelsSold(u) \/ SellsChanged(u)]_vars

(***************************************************************************)
(* Every share is paid for, and every sale paid out, at the one price that *)
(* is in the cache, with no element of the array counted for another and   *)
(* whatever commands are in progress during a pass.  The exception is a    *)
(* sale of the whole stock after the number of its shares has changed      *)
(* since the polling thread read it (quote_polling.py:250).                *)
(***************************************************************************)
SharesOwned(u) ==
    SumFunction([i \in DOMAIN stocks[u][Symbol] |-> stocks[u][Symbol][i].amount])

PaidFor(u) ==
    quote_cache'[Symbol] # None =>
        account'[u] - account[u] = (SharesOwned(u) - SharesOwned(u)') * quote_cache'[Symbol]

PullsOthers(u) == SellWrite /\ seen.user = u /\ SharesOwned(u) # seen.held

EverySharePaid == [][\A u \in Users : PaidFor(u) \/ PullsOthers(u)]_vars

(***************************************************************************)
(* A user's money and the value of their shares stay what they were        *)
(* (checked in Worker, with the commands that buy and sell).               *)
(***************************************************************************)
WealthKept ==
    \A u \in Users : quote_cache[Symbol] # None =>
        account[u] + SharesOwned(u) * quote_cache[Symbol] = MaxFunds

(***************************************************************************)
(* An auto buy whose trigger was set and is reached by the price is bought *)
(* in the end, or changed by a command: SET_BUY commands cannot make the   *)
(* polling forget it, not even during a pass.                              *)
(***************************************************************************)
Due(u) ==
    /\ auto_buy[u] # None
    /\ auto_buy[u].trigger # 0
    /\ \A v \in QuoteOf(Symbol) : auto_buy[u].trigger <= v

DueIsHandled == \A u \in Users : Due(u) ~> ~Due(u)
===============================================================================
