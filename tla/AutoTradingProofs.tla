--------------------------- MODULE AutoTradingProofs ---------------------------
(***************************************************************************)
(* Proofs about AutoTrading, for any users, prices, amounts and triggers.  *)
(***************************************************************************)
EXTENDS AutoTrading, SumsAndRows, TLAPS

(***************************************************************************)
(* What the threads have in their local variables at each place.           *)
(***************************************************************************)
Locals ==
    /\ pc # "idle" => cmd.user \in Users
    /\ pc = "cancel_set_buy" => cmd.auto \in AutoTransaction
    /\ pc = "set_sell_amount" => cmd.amount \in AutoAmounts
    /\ poll \notin {"wait", "dead"} => seen.value \in Prices
    /\ poll \in {"buy_read", "buy_write", "sell_read", "sell_write"} => seen.user \in Users
    /\ poll \in {"buy_write", "sell_write"} => seen.auto \in AutoTransaction

Typed == TypeOK /\ Locals

-----------------------------------------------------------------------------
(***************************************************************************)
(* The hypothesis of the first result, and what holds under it: no         *)
(* CANCEL_SET_BUY is in progress during a pass, and pulls what it has read *)
(* therefore; SET_BUY_TRIGGER reserves the price of the amount that the    *)
(* auto buy still has; and what the polling thread is about to give back   *)
(* was reserved.  X[u] is what is reserved of the money of u for something *)
(* else: nothing in this module, the pending buys in Worker.               *)
(***************************************************************************)
CancelsApart == "cancel_set_buy" \notin Overlapping

Free(X, u) == account[u] - available[u] - X[u]

Covered(X) == \A u \in Users : Reserved(u) <= Free(X, u)

BuyFrame(X) ==
    /\ KindOf[pc] = "cancel_set_buy" => poll \in {"wait", "dead"}
    /\ pc = "cancel_set_buy" => auto_buy[cmd.user] = cmd.auto
    /\ pc = "set_buy_trigger" /\ auto_buy[cmd.user] # None
          => auto_buy[cmd.user].amount = cmd.amount
    /\ poll = "buy_write"
          => seen.auto.amount * seen.auto.trigger <= Free(X, seen.user)

BuyInv(X) == BuyFrame(X) /\ Covered(X)

-----------------------------------------------------------------------------
(***************************************************************************)
(* What the second result rests on: the auto sell that a SET_SELL_TRIGGER  *)
(* has read is still there or gone, but no other, and CANCEL_SET_SELL is   *)
(* to release the shares of the one it has read.                           *)
(***************************************************************************)
SellsRemembered ==
    /\ pc = "set_sell_trigger" => auto_sell[cmd.user] \in {None, cmd.auto}
    /\ pc = "cancel_set_sell" /\ cmd.auto # None => cmd.amount = cmd.auto.amount

-----------------------------------------------------------------------------
(***************************************************************************)
(* The places of the main thread, and the operators on documents.          *)
(***************************************************************************)

(* The places, and the kinds of their commands.                            *)
LEMMA Places ==
    /\ DOMAIN KindOf = {"idle", "set_buy_amount", "set_buy_trigger", "register_buy",
                        "cancel_set_buy", "unregister_buy", "set_sell_amount",
                        "set_sell_trigger", "register_sell", "cancel_set_sell",
                        "unregister_sell"}
    /\ KindOf["idle"] = "none"
    /\ \A l \in {"set_buy_amount", "set_buy_trigger", "register_buy"} : KindOf[l] = "set_buy"
    /\ \A l \in {"cancel_set_buy", "unregister_buy"} : KindOf[l] = "cancel_set_buy"
    /\ \A l \in {"set_sell_amount", "set_sell_trigger", "register_sell"} : KindOf[l] = "set_sell"
    /\ \A l \in {"cancel_set_sell", "unregister_sell"} : KindOf[l] = "cancel_set_sell"
BY DEF KindOf

(* The stock that the module follows is a stock.                           *)
LEMMA SymbolIsStock == Symbol \in Stocks
BY OneStock DEF Symbol

(* A product of numbers of shares and prices is a natural number.          *)
LEMMA ProductType == \A m, n \in Nat : m * n \in Nat
OBVIOUS

(* What the constants are.                                                 *)
LEMMA Numbers ==
    /\ \A n \in AutoAmounts \cup Triggers \cup Lots : n \in Nat /\ n # 0
    /\ \A v \in Prices : v \in Nat
BY AutoAssumption, PricesAssumption

(* The local variables of a command.                                       *)
LEMMA CommandType ==
    ASSUME NEW u \in Users, NEW n \in Nat, NEW t \in Nat, NEW a \in AutoTransaction \cup {None}
    PROVE  /\ Command(u, n, t, a) \in Cmd
           /\ Command(u, n, t, a).user = u /\ Command(u, n, t, a).amount = n
           /\ Command(u, n, t, a).trigger = t /\ Command(u, n, t, a).auto = a
BY DEF Cmd, Command

(* Those of none.                                                          *)
LEMMA NoCmdType == NoCmd \in Cmd
BY DEF NoCmd, Cmd

(* The fields of an auto transaction.                                      *)
LEMMA AutoType ==
    /\ \A a \in AutoTransaction : a.amount \in Nat /\ a.trigger \in Nat
    /\ \A n, m \in Nat : [amount |-> n, trigger |-> m] \in AutoTransaction
BY DEF AutoTransaction

(* The fields of a command.                                                *)
LEMMA CmdFields ==
    ASSUME NEW c \in Cmd
    PROVE  /\ c.user \in Users \cup {None} /\ c.amount \in Nat /\ c.trigger \in Nat
           /\ c.auto \in AutoTransaction \cup {None}
BY DEF Cmd

(* The fields of what the polling thread has seen.                         *)
LEMMA SeenFields ==
    ASSUME NEW c \in Seen
    PROVE  /\ c.value \in Prices \cup {None} /\ c.todo \subseteq Users
           /\ c.listed \subseteq Users /\ c.user \in Users \cup {None}
           /\ c.auto \in AutoTransaction \cup {None} /\ c.found \in BOOLEAN
BY DEF Seen

(* The polling thread has read nothing.                                    *)
LEMMA NotSeenType == NotSeen \in Seen
BY DEF NotSeen, Seen

(* What an append leaves.                                                  *)
LEMMA Appended ==
    ASSUME NEW S, NEW q \in Seq(S), NEW h \in S
    PROVE  /\ Append(q, h) \in Seq(S) /\ Append(q, h) # << >>
           /\ Len(Append(q, h)) = Len(q) + 1 /\ Len(q) \in Nat
           /\ \A i \in 1..Len(q) : Append(q, h)[i] = q[i]
           /\ Append(q, h)[Len(q) + 1] = h
OBVIOUS

(* A push appends to the array of one user.                                *)
LEMMA PushedStock ==
    ASSUME DbTypeOK, NEW u \in Users, NEW h \in Holding, stocks' = Pushed(u, Symbol, h)
    PROVE  /\ stocks' \in [Users -> [Stocks -> Seq(Holding)]]
           /\ \A w \in Users \ {u} : stocks'[w] = stocks[w]
           /\ stocks'[u][Symbol] # << >>
           /\ Len(stocks'[u][Symbol]) = Len(stocks[u][Symbol]) + 1
           /\ stocks[u][Symbol] # << >> => stocks'[u][Symbol][1] = stocks[u][Symbol][1]
           /\ stocks[u][Symbol] = << >> => stocks'[u][Symbol][1] = h
<1>. DEFINE q == stocks[u][Symbol]
<1>1. q \in Seq(Holding) /\ stocks \in [Users -> [Stocks -> Seq(Holding)]]
  BY SymbolIsStock DEF DbTypeOK
<1>2. /\ Append(q, h) \in Seq(Holding) /\ Append(q, h) # << >>
      /\ Len(Append(q, h)) = Len(q) + 1
      /\ q # << >> => Append(q, h)[1] = q[1]
      /\ q = << >> => Append(q, h)[1] = h
  <2>1. /\ Append(q, h) \in Seq(Holding) /\ Append(q, h) # << >>
        /\ Len(Append(q, h)) = Len(q) + 1 /\ Len(q) \in Nat
        /\ \A i \in 1..Len(q) : Append(q, h)[i] = q[i]
        /\ Append(q, h)[Len(q) + 1] = h
    BY <1>1, Appended
  <2>2. q # << >> => 1 \in 1..Len(q)
    BY <1>1
  <2>3. q = << >> => Len(q) + 1 = 1
    <3>1. \A e : e = << >> => Len(e) + 1 = 1
      OBVIOUS
    <3>. QED
      BY <3>1
  <2>4. q = << >> => Append(q, h)[1] = h
    BY <2>1, <2>3
  <2>. QED
    BY <2>1, <2>2, <2>4
<1>3. stocks' = [stocks EXCEPT ![u] = [stocks[u] EXCEPT ![Symbol] = Append(q, h)]]
  BY DEF Pushed
<1>4. stocks'[u][Symbol] = Append(q, h)
  BY <1>1, <1>3, SymbolIsStock
<1>5. stocks' \in [Users -> [Stocks -> Seq(Holding)]]
  <2>1. [stocks[u] EXCEPT ![Symbol] = Append(q, h)] \in [Stocks -> Seq(Holding)]
    BY <1>1, <1>2
  <2>. QED
    BY <1>1, <1>3, <2>1
<1>. QED
  BY <1>1, <1>2, <1>3, <1>4, <1>5

(* A positional update changes the first element of one user's array.      *)
LEMMA IncreasedStock ==
    ASSUME DbTypeOK, NEW u \in Users, Owns(u, Symbol), NEW da \in Int, NEW dv \in Int,
           stocks' = Increased(u, Symbol, da, dv)
    PROVE  /\ stocks' \in [Users -> [Stocks -> Seq(Holding)]]
           /\ \A w \in Users \ {u} : stocks'[w] = stocks[w]
           /\ stocks'[u][Symbol] # << >>
           /\ Len(stocks'[u][Symbol]) = Len(stocks[u][Symbol])
           /\ stocks'[u][Symbol][1].amount = stocks[u][Symbol][1].amount + da
           /\ stocks'[u][Symbol][1].available = stocks[u][Symbol][1].available + dv
<1>. DEFINE q == stocks[u][Symbol]
            h == [amount |-> q[1].amount + da, available |-> q[1].available + dv]
            r == [q EXCEPT ![1] = h]
<1>1. /\ q \in Seq(Holding) /\ Len(q) \in Nat /\ q # << >>
      /\ stocks \in [Users -> [Stocks -> Seq(Holding)]]
  BY SymbolIsStock DEF DbTypeOK, Owns
<1>2. q[1] \in Holding /\ Len(q) > 0
  BY <1>1
<1>3. h \in Holding
  BY <1>2 DEF Holding
<1>4. r \in Seq(Holding) /\ Len(r) = Len(q) /\ r[1] = h /\ r # << >>
  BY <1>1, <1>2, <1>3
<1>5. stocks' = [stocks EXCEPT ![u] = [stocks[u] EXCEPT ![Symbol] = r]]
  BY DEF Increased
<1>6. stocks'[u][Symbol] = r
  BY <1>1, <1>5, SymbolIsStock, ZenonT(40)
<1>7. stocks' \in [Users -> [Stocks -> Seq(Holding)]]
  <2>1. [stocks[u] EXCEPT ![Symbol] = r] \in [Stocks -> Seq(Holding)]
    BY <1>1, <1>4
  <2>. QED
    BY <1>1, <1>5, <2>1
<1>8. \A w \in Users \ {u} : stocks'[w] = stocks[w]
  BY <1>1, <1>5
<1>. QED
  BY <1>4, <1>6, <1>7, <1>8

(* A pull empties the array of one user.                                   *)
LEMMA PulledStock ==
    ASSUME DbTypeOK, NEW u \in Users, stocks' = [stocks EXCEPT ![u][Symbol] = << >>]
    PROVE  /\ stocks' \in [Users -> [Stocks -> Seq(Holding)]]
           /\ \A w \in Users \ {u} : stocks'[w] = stocks[w]
           /\ stocks'[u][Symbol] = << >>
<1>1. stocks \in [Users -> [Stocks -> Seq(Holding)]] /\ << >> \in Seq(Holding)
  BY DEF DbTypeOK
<1>. QED
  BY <1>1, SymbolIsStock

(* The first element of the array of a user who has the stock.             *)
LEMMA FirstType ==
    ASSUME DbTypeOK, NEW u \in Users
    PROVE  /\ stocks[u][Symbol] \in Seq(Holding) /\ Len(stocks[u][Symbol]) \in Nat
           /\ Len(stocks[u][Symbol]) = 0 <=> stocks[u][Symbol] = << >>
           /\ Owns(u, Symbol) => /\ stocks[u][Symbol][1].amount \in Int
                                 /\ stocks[u][Symbol][1].available \in Int
<1>1. stocks[u][Symbol] \in Seq(Holding)
  BY SymbolIsStock DEF DbTypeOK
<1>2. Owns(u, Symbol) => stocks[u][Symbol][1] \in Holding
  BY <1>1 DEF Owns
<1>. QED
  BY <1>1, <1>2 DEF Holding

-----------------------------------------------------------------------------
(***************************************************************************)
(* Type correctness, in parts.                                             *)
(***************************************************************************)
AutosTyped ==
    /\ auto_buy \in [Users -> AutoTransaction \cup {None}]
    /\ auto_sell \in [Users -> AutoTransaction \cup {None}]
    /\ pending_sell_triggers \in [Users -> AutoAmounts \cup {None}]

MainTyped ==
    /\ pc \in DOMAIN KindOf /\ cmd \in Cmd
    /\ pc # "idle" => cmd.user \in Users
    /\ pc = "cancel_set_buy" => cmd.auto \in AutoTransaction
    /\ pc = "set_sell_amount" => cmd.amount \in AutoAmounts

PollTyped ==
    /\ poll \in {"wait", "query", "buys", "buy_read", "buy_write", "sells",
                 "sell_read", "sell_write", "dead"}
    /\ seen \in Seen
    /\ poll \notin {"wait", "dead"} => seen.value \in Prices
    /\ poll \in {"buy_read", "buy_write", "sell_read", "sell_write"} => seen.user \in Users
    /\ poll \in {"buy_write", "sell_write"} => seen.auto \in AutoTransaction

(* The parts make up Typed.                                                *)
LEMMA Parts ==
    Typed <=> /\ DbTypeOK /\ AutosTyped /\ MainTyped /\ PollTyped
              /\ buyers \subseteq Users /\ sellers \subseteq Users
<1>1. Typed => DbTypeOK /\ AutosTyped /\ buyers \subseteq Users /\ sellers \subseteq Users
  BY DEF Typed, TypeOK, AutosTyped
<1>2. Typed => MainTyped
  BY DEF Typed, TypeOK, Locals, MainTyped
<1>3. Typed => PollTyped
  BY DEF Typed, TypeOK, Locals, PollTyped
<1>4. DbTypeOK /\ AutosTyped /\ MainTyped /\ PollTyped /\ buyers \subseteq Users
      /\ sellers \subseteq Users => TypeOK
  BY DEF TypeOK, AutosTyped, MainTyped, PollTyped
<1>5. MainTyped /\ PollTyped => Locals
  BY DEF Locals, MainTyped, PollTyped
<1>. QED
  BY <1>1, <1>2, <1>3, <1>4, <1>5 DEF Typed

(* The initial state is well typed.                                        *)
LEMMA TypedInit == Init => Typed
<1>. SUFFICES ASSUME Init PROVE Typed
  OBVIOUS
<1>. USE DEF Init
<1>1. DbTypeOK
  <2>1. account \in [Users -> Int] /\ available \in [Users -> Int]
    BY FundsAssumption
  <2>2. stocks \in [Users -> [Stocks -> Seq(Holding)]]
    OBVIOUS
  <2>. QED
    BY <2>1, <2>2 DEF DbTypeOK
<1>2. AutosTyped
  BY DEF AutosTyped
<1>3. MainTyped
  BY Places, NoCmdType DEF MainTyped
<1>4. PollTyped
  BY NotSeenType DEF PollTyped
<1>. QED
  BY <1>1, <1>2, <1>3, <1>4, Parts

(* A command that starts.                                                  *)
LEMMA StartTyped ==
    ASSUME NEW l \in DOMAIN KindOf, NEW u \in Users, NEW n \in Nat, NEW t \in Nat,
           NEW a \in AutoTransaction \cup {None}, Goto(l, Command(u, n, t, a)),
           l = "cancel_set_buy" => a # None,
           l = "set_sell_amount" => n \in AutoAmounts
    PROVE  MainTyped'
BY CommandType DEF Goto, MainTyped

(* The local variables of the main thread stay well typed.                 *)
LEMMA MainTypedStep ==
    ASSUME Typed, [Next]_vars
    PROVE  MainTyped'
<1>0. MainTyped /\ AutosTyped
  BY Parts
<1>1. End => MainTyped'
  BY Places, NoCmdType DEF End, Goto, MainTyped
<1>2. UNCHANGED main => MainTyped'
  BY <1>0 DEF main, MainTyped
<1>3. ASSUME NEW u \in Users, BuyCommand(u) \/ SellCommand(u)
      PROVE  MainTyped'
  <2>0. /\ auto_buy[u] \in AutoTransaction \cup {None} /\ auto_sell[u] \in AutoTransaction \cup {None}
        /\ pending_sell_triggers[u] \in AutoAmounts \cup {None}
        /\ None \in AutoTransaction \cup {None} /\ 0 \in Nat
    BY <1>0 DEF AutosTyped
  <2>1. ASSUME NEW n \in AutoAmounts, SetBuyAmount(u, n) PROVE MainTyped'
    BY <2>0, <2>1, Places, StartTyped, Numbers DEF SetBuyAmount
  <2>2. ASSUME NEW t \in Triggers, SetBuyTrigger(u, t) PROVE MainTyped'
    <3>1. auto_buy[u].amount \in Nat
      BY <2>0, <2>2, AutoType DEF SetBuyTrigger
    <3>. QED
      BY <2>0, <2>2, <3>1, Places, StartTyped, Numbers DEF SetBuyTrigger
  <2>3. CASE CancelSetBuy(u)
    BY <2>0, <2>3, Places, StartTyped DEF CancelSetBuy
  <2>4. ASSUME NEW n \in AutoAmounts, SetSellAmount(u, n) PROVE MainTyped'
    BY <2>0, <2>4, Places, StartTyped, Numbers DEF SetSellAmount
  <2>5. ASSUME NEW t \in Triggers, SetSellTrigger(u, t) PROVE MainTyped'
    BY <2>0, <2>5, Places, StartTyped, Numbers DEF SetSellTrigger
  <2>6. CASE CancelSetSell(u)
    <3>1. CASE pending_sell_triggers[u] # None
      BY <2>0, <2>6, <3>1, Places, StartTyped, Numbers DEF CancelSetSell
    <3>2. CASE pending_sell_triggers[u] = None
      <4>1. auto_sell[u].amount \in Nat
        BY <2>0, <2>6, <3>2, AutoType DEF CancelSetSell
      <4>. QED
        BY <2>0, <2>6, <3>2, <4>1, Places, StartTyped DEF CancelSetSell
    <3>. QED
      BY <3>1, <3>2
  <2>. QED
    BY <1>3, <2>1, <2>2, <2>3, <2>4, <2>5, <2>6 DEF BuyCommand, SellCommand
<1>4. CASE MainStep
  <2>1. End \/ \E l \in {"register_buy", "unregister_buy", "register_sell", "unregister_sell"} :
                  Goto(l, cmd) /\ pc # "idle"
    BY <1>4
    DEF MainStep, SetBuyAmountUpdate, SetBuyTriggerUpdate, RegisterBuy, CancelSetBuyUpdate,
        UnregisterBuy, SetSellAmountUpdate, SetSellTriggerUpdate, RegisterSell,
        CancelSetSellUpdate, UnregisterSell
  <2>. QED
    BY <1>0, <1>1, <2>1, Places DEF Goto, MainTyped
<1>5. PollStep \/ PollerRaises => UNCHANGED main
  BY DEF PollStep, Poll, QueryBuys, NextBuyer, BuyRead, BuyWrite, QuerySells, NextSeller,
         SellRead, SellWrite, Sleep, PollerRaises
<1>6. ASSUME NEW u \in Users, Trade(u) PROVE UNCHANGED main
  BY <1>6 DEF Trade, Bought, Sold
<1>7. MainRaises \/ Restart => End
  BY DEF MainRaises, Restart
<1>8. UNCHANGED vars => UNCHANGED main
  BY DEF vars, main
<1>. QED
  BY <1>1, <1>2, <1>3, <1>4, <1>5, <1>6, <1>7, <1>8 DEF Next

(* Those of the polling thread do.                                         *)
LEMMA PollTypedStep ==
    ASSUME Typed, [Next]_vars
    PROVE  PollTyped'
<1>0. PollTyped /\ AutosTyped /\ DbTypeOK /\ sellers \subseteq Users /\ buyers \subseteq Users
  BY Parts
<1>1. seen' = NotSeen /\ poll' \in {"wait", "dead"} => PollTyped'
  BY NotSeenType DEF PollTyped
<1>2. UNCHANGED poller => PollTyped'
  BY <1>0 DEF poller, PollTyped
<1>3. CASE PollStep
  <2>1. ASSUME NEW v \in Prices, Poll(v) PROVE PollTyped'
    <3>1. poll' = "query" /\ seen' = [NotSeen EXCEPT !.value = v]
      BY <2>1 DEF Poll
    <3>2. seen' \in Seen /\ seen'.value = v
      BY <3>1, NotSeenType DEF Seen
    <3>. QED
      BY <3>1, <3>2 DEF PollTyped
  <2>2. CASE QueryBuys
    BY <1>0, <1>1, <2>2 DEF QueryBuys, PollTyped, Seen
  <2>3. ASSUME NEW u \in Users, NextBuyer(u) \/ NextSeller(u) PROVE PollTyped'
    BY <1>0, <2>3 DEF NextBuyer, NextSeller, PollTyped, Seen
  <2>4. CASE BuyRead
    <3>. DEFINE a == auto_buy[seen.user]
    <3>1. poll = "buy_read" /\ seen.user \in Users /\ a \in AutoTransaction \cup {None}
      BY <1>0, <2>4 DEF BuyRead, PollTyped, AutosTyped
    <3>2. CASE a # None /\ a.trigger > seen.value
      BY <1>0, <2>4, <3>1, <3>2 DEF BuyRead, PollTyped
    <3>3. CASE ~(a # None /\ a.trigger > seen.value) /\ (a = None \/ Twice(seen.user))
      BY <1>1, <2>4, <3>3 DEF BuyRead
    <3>4. CASE ~(a # None /\ a.trigger > seen.value) /\ ~(a = None \/ Twice(seen.user))
      <4>1. poll' = "buy_write"
            /\ seen' = [seen EXCEPT !.auto = a, !.found = Owns(seen.user, Symbol)]
        BY <2>4, <3>4 DEF BuyRead
      <4>2. PICK b \in BOOLEAN : b = Owns(seen.user, Symbol)
        BY DEF Owns
      <4>3. seen' = [seen EXCEPT !.auto = a, !.found = b] /\ seen \in Seen
        BY <1>0, <4>1, <4>2 DEF PollTyped
      <4>4. seen' \in Seen /\ seen'.value = seen.value /\ seen'.user = seen.user /\ seen'.auto = a
        <5>1. seen'.value = seen.value /\ seen'.user = seen.user /\ seen'.auto = a
          BY <4>3 DEF Seen
        <5>2. seen' \in Seen
          BY <3>1, <4>3 DEF Seen
        <5>. QED
          BY <5>1, <5>2
      <4>. QED
        BY <1>0, <3>1, <3>4, <4>1, <4>4 DEF PollTyped
    <3>. QED
      BY <3>2, <3>3, <3>4
  <2>5. CASE SellRead
    <3>. DEFINE u == seen.user
                a == auto_sell[u]
    <3>1. poll = "sell_read" /\ u \in Users /\ a \in AutoTransaction \cup {None}
      BY <1>0, <2>5 DEF SellRead, PollTyped, AutosTyped
    <3>2. CASE a # None /\ a.trigger < seen.value
      BY <1>0, <2>5, <3>1, <3>2 DEF SellRead, PollTyped
    <3>3. CASE ~(a # None /\ a.trigger < seen.value) /\ (a = None \/ Twice(u) \/ ~Owns(u, Symbol))
      BY <1>1, <2>5, <3>3 DEF SellRead
    <3>4. CASE ~(a # None /\ a.trigger < seen.value) /\ ~(a = None \/ Twice(u) \/ ~Owns(u, Symbol))
      <4>1. poll' = "sell_write"
            /\ seen' = [seen EXCEPT !.auto = a, !.found = TRUE,
                                    !.held = stocks[u][Symbol][1].amount]
        BY <2>5, <3>4 DEF SellRead
      <4>2. PICK n \in Int : n = stocks[u][Symbol][1].amount
        BY <1>0, <3>1, <3>4, FirstType
      <4>3. seen' = [seen EXCEPT !.auto = a, !.found = TRUE, !.held = n] /\ seen \in Seen
        BY <1>0, <4>1, <4>2 DEF PollTyped
      <4>4. seen' \in Seen /\ seen'.value = seen.value /\ seen'.user = seen.user /\ seen'.auto = a
        <5>1. seen'.value = seen.value /\ seen'.user = seen.user /\ seen'.auto = a
          BY <4>3 DEF Seen
        <5>2. seen' \in Seen
          BY <3>1, <4>3 DEF Seen
        <5>. QED
          BY <5>1, <5>2
      <4>. QED
        BY <1>0, <3>1, <3>4, <4>1, <4>4 DEF PollTyped
    <3>. QED
      BY <3>2, <3>3, <3>4
  <2>6. CASE BuyWrite \/ SellWrite
    BY <1>0, <2>6 DEF BuyWrite, SellWrite, PollTyped
  <2>7. CASE QuerySells
    BY <1>0, <2>7 DEF QuerySells, PollTyped, Seen
  <2>8. CASE Sleep
    BY <1>1, <2>8 DEF Sleep
  <2>. QED
    BY <1>3, <2>1, <2>2, <2>3, <2>4, <2>5, <2>6, <2>7, <2>8 DEF PollStep
<1>4. MainStep \/ MainRaises => UNCHANGED poller
  BY DEF MainStep, SetBuyAmountUpdate, SetBuyTriggerUpdate, RegisterBuy, CancelSetBuyUpdate,
         UnregisterBuy, SetSellAmountUpdate, SetSellTriggerUpdate, RegisterSell,
         CancelSetSellUpdate, UnregisterSell, MainRaises
<1>5. ASSUME NEW u \in Users, BuyCommand(u) \/ SellCommand(u) \/ Trade(u) PROVE UNCHANGED poller
  BY <1>5
  DEF BuyCommand, SellCommand, SetBuyAmount, SetBuyTrigger, CancelSetBuy, SetSellAmount,
      SetSellTrigger, CancelSetSell, Trade, Bought, Sold
<1>6. PollerRaises \/ Restart => seen' = NotSeen /\ poll' \in {"wait", "dead"}
  BY DEF PollerRaises, Restart
<1>7. UNCHANGED vars => UNCHANGED poller
  BY DEF vars, poller
<1>. QED
  BY <1>1, <1>2, <1>3, <1>4, <1>5, <1>6, <1>7 DEF Next

(* A document that only changes in its stocks, money or quotes.            *)
LEMMA DbTyped ==
    ASSUME DbTypeOK, exists' = exists,
           account' \in [Users -> Int], available' \in [Users -> Int],
           stocks' \in [Users -> [Stocks -> Seq(Holding)]],
           UNCHANGED quote_cache \/ \E v \in Prices : CacheQuote(Symbol, v)
    PROVE  DbTypeOK'
BY SymbolIsStock DEF DbTypeOK, CacheQuote

(* The account documents stay well typed.                                  *)
LEMMA DbTypedStep ==
    ASSUME Typed, [Next]_vars
    PROVE  DbTypeOK'
<1>0. /\ DbTypeOK /\ AutosTyped /\ MainTyped /\ PollTyped
      /\ account \in [Users -> Int] /\ available \in [Users -> Int]
      /\ stocks \in [Users -> [Stocks -> Seq(Holding)]]
  BY Parts DEF DbTypeOK
<1>1. UNCHANGED db => DbTypeOK'
  BY <1>0 DEF db, DbTypeOK
<1>2. ASSUME NEW u \in Users, Trade(u) PROVE DbTypeOK'
  <2>1. ASSUME NEW n \in Lots, NEW v \in Prices, Bought(u, n, v) PROVE DbTypeOK'
    <3>1. n \in Nat /\ n * v \in Nat /\ n \in Int
      BY Numbers, ProductType
    <3>2. stocks' \in [Users -> [Stocks -> Seq(Holding)]]
      <4>1. CASE Owns(u, Symbol)
        BY <1>0, <2>1, <3>1, <4>1, IncreasedStock DEF Bought
      <4>2. CASE ~Owns(u, Symbol)
        <5>1. [amount |-> n, available |-> n] \in Holding
          BY <3>1 DEF Holding
        <5>. QED
          BY <1>0, <2>1, <4>2, <5>1, PushedStock DEF Bought
      <4>. QED
        BY <4>1, <4>2
    <3>3. account' \in [Users -> Int] /\ available' \in [Users -> Int]
      BY <1>0, <2>1, <3>1 DEF Bought
    <3>. QED
      BY <1>0, <2>1, <3>2, <3>3, DbTyped DEF Bought
  <2>2. ASSUME NEW n \in Lots, NEW v \in Prices, Sold(u, n, v) PROVE DbTypeOK'
    <3>1. n * v \in Nat /\ -n \in Int
      BY Numbers, ProductType
    <3>2. stocks' \in [Users -> [Stocks -> Seq(Holding)]]
      BY <1>0, <2>2, <3>1, IncreasedStock DEF Sold
    <3>3. account' \in [Users -> Int] /\ available' \in [Users -> Int]
      BY <1>0, <2>2, <3>1 DEF Sold
    <3>. QED
      BY <1>0, <2>2, <3>2, <3>3, DbTyped DEF Sold
  <2>. QED
    BY <1>2, <2>1, <2>2 DEF Trade
<1>3. ASSUME NEW u \in Users, BuyCommand(u) \/ SellCommand(u) PROVE UNCHANGED db
  BY <1>3
  DEF BuyCommand, SellCommand, SetBuyAmount, SetBuyTrigger, CancelSetBuy, SetSellAmount,
      SetSellTrigger, CancelSetSell
<1>4. CASE MainStep
  <2>0. /\ cmd.amount \in Nat /\ cmd.trigger \in Nat /\ cmd.amount * cmd.trigger \in Nat
        /\ cmd.auto \in AutoTransaction \cup {None}
        /\ -cmd.amount \in Int /\ cmd.amount \in Int /\ 0 \in Int
    BY <1>0, CmdFields, ProductType DEF MainTyped
  <2>1. CASE SetBuyAmountUpdate \/ RegisterBuy \/ UnregisterBuy \/ RegisterSell \/ UnregisterSell
    BY <1>1, <2>1
    DEF SetBuyAmountUpdate, RegisterBuy, UnregisterBuy, RegisterSell, UnregisterSell
  <2>2. CASE SetBuyTriggerUpdate
    <3>1. available' \in [Users -> Int]
      BY <1>0, <2>0, <2>2 DEF SetBuyTriggerUpdate
    <3>. QED
      BY <1>0, <2>2, <3>1, DbTyped DEF SetBuyTriggerUpdate
  <2>3. CASE CancelSetBuyUpdate
    <3>1. cmd.auto.amount * cmd.auto.trigger \in Nat
      BY <1>0, <2>3, AutoType, ProductType DEF CancelSetBuyUpdate, MainTyped
    <3>2. available' \in [Users -> Int]
      <4>1. PICK d \in Int : d = cmd.auto.amount * cmd.auto.trigger
        BY <3>1
      <4>2. available' = [available EXCEPT ![cmd.user] = @ + d]
        BY <2>3, <4>1 DEF CancelSetBuyUpdate
      <4>3. available[cmd.user] + d \in Int /\ cmd.user \in Users
        BY <1>0, <2>3 DEF CancelSetBuyUpdate, MainTyped
      <4>. QED
        BY <1>0, <4>2, <4>3
    <3>. QED
      BY <1>0, <2>3, <3>2, DbTyped DEF CancelSetBuyUpdate
  <2>4. CASE SetSellAmountUpdate
    <3>1. stocks' \in [Users -> [Stocks -> Seq(Holding)]]
      <4>1. CASE Owns(cmd.user, Symbol)
        BY <1>0, <2>0, <2>4, <4>1, IncreasedStock DEF SetSellAmountUpdate, MainTyped
      <4>2. CASE ~Owns(cmd.user, Symbol)
        BY <1>0, <2>4, <4>2 DEF SetSellAmountUpdate
      <4>. QED
        BY <4>1, <4>2
    <3>. QED
      BY <1>0, <2>4, <3>1, DbTyped DEF SetSellAmountUpdate
  <2>5. CASE SetSellTriggerUpdate
    <3>1. stocks' \in [Users -> [Stocks -> Seq(Holding)]]
      <4>1. CASE UNCHANGED stocks
        BY <1>0, <4>1
      <4>2. CASE /\ cmd.auto # None /\ Owns(cmd.user, Symbol)
                 /\ stocks' = Increased(cmd.user, Symbol, 0, cmd.auto.amount - cmd.amount)
        <5>1. cmd.auto.amount - cmd.amount \in Int /\ cmd.user \in Users
          BY <1>0, <2>0, <2>5, <4>2, AutoType DEF MainTyped, SetSellTriggerUpdate
        <5>. QED
          BY <1>0, <2>0, <4>2, <5>1, IncreasedStock
      <4>. QED
        BY <2>5, <4>1, <4>2 DEF SetSellTriggerUpdate
    <3>. QED
      BY <1>0, <2>5, <3>1, DbTyped DEF SetSellTriggerUpdate
  <2>6. CASE CancelSetSellUpdate
    <3>1. stocks' \in [Users -> [Stocks -> Seq(Holding)]]
      <4>1. CASE Owns(cmd.user, Symbol)
        BY <1>0, <2>0, <2>6, <4>1, IncreasedStock DEF CancelSetSellUpdate, MainTyped
      <4>2. CASE ~Owns(cmd.user, Symbol)
        BY <1>0, <2>6, <4>2 DEF CancelSetSellUpdate
      <4>. QED
        BY <4>1, <4>2
    <3>. QED
      BY <1>0, <2>6, <3>1, DbTyped DEF CancelSetSellUpdate
  <2>. QED
    BY <1>4, <2>1, <2>2, <2>3, <2>4, <2>5, <2>6 DEF MainStep
<1>5. CASE PollStep
  <2>1. ASSUME NEW v \in Prices, Poll(v) PROVE DbTypeOK'
    BY <1>0, <2>1, DbTyped DEF Poll
  <2>2. CASE BuyWrite
    <3>0. /\ seen.user \in Users /\ seen.auto \in AutoTransaction
          /\ seen.value \in Nat /\ seen.auto.amount \in Nat /\ seen.auto.trigger \in Nat
      BY <1>0, <2>2, AutoType, Numbers DEF BuyWrite, PollTyped
    <3>1. seen.auto.amount * seen.value \in Int /\ seen.auto.amount * seen.auto.trigger \in Int
      BY <3>0, ProductType
    <3>2. Remainder(seen.auto, seen.value) \in Int
      BY <3>1 DEF Remainder
    <3>3. account' \in [Users -> Int]
      BY <1>0, <2>2, <3>0, <3>1 DEF BuyWrite
    <3>4. available' \in [Users -> Int]
      BY <1>0, <2>2, <3>0, <3>2 DEF BuyWrite
    <3>5. stocks' \in [Users -> [Stocks -> Seq(Holding)]]
      <4>1. CASE UNCHANGED stocks
        BY <1>0, <4>1
      <4>2. CASE /\ Owns(seen.user, Symbol)
                 /\ stocks' = Increased(seen.user, Symbol, seen.auto.amount, seen.auto.amount)
        BY <1>0, <3>0, <4>2, IncreasedStock
      <4>3. CASE stocks' = Pushed(seen.user, Symbol, [amount |-> seen.auto.amount,
                                                      available |-> seen.auto.amount])
        <5>1. [amount |-> seen.auto.amount, available |-> seen.auto.amount] \in Holding
          BY <3>0 DEF Holding
        <5>. QED
          BY <1>0, <3>0, <4>3, <5>1, PushedStock
      <4>. QED
        BY <2>2, <4>1, <4>2, <4>3 DEF BuyWrite
    <3>. QED
      BY <1>0, <2>2, <3>3, <3>4, <3>5, DbTyped DEF BuyWrite
  <2>3. CASE SellWrite
    <3>0. /\ seen.user \in Users /\ seen.auto \in AutoTransaction
          /\ seen.value \in Nat /\ seen.auto.amount \in Nat
      BY <1>0, <2>3, AutoType, Numbers DEF SellWrite, PollTyped
    <3>1. seen.auto.amount * seen.value \in Int /\ -seen.auto.amount \in Int /\ 0 \in Int
      BY <3>0, ProductType
    <3>3. account' \in [Users -> Int] /\ available' \in [Users -> Int]
      <4>1. PICK d \in Int : d = seen.auto.amount * seen.value
        BY <3>1
      <4>2. account' \in [Users -> Int]
        BY <1>0, <2>3, <4>1 DEF SellWrite
      <4>3. available' \in [Users -> Int]
        BY <1>0, <2>3, <4>1 DEF SellWrite
      <4>. QED
        BY <4>2, <4>3
    <3>5. stocks' \in [Users -> [Stocks -> Seq(Holding)]]
      <4>1. CASE UNCHANGED stocks
        BY <1>0, <4>1
      <4>2. CASE /\ Owns(seen.user, Symbol)
                 /\ stocks' = Increased(seen.user, Symbol, -seen.auto.amount, 0)
        BY <1>0, <3>0, <3>1, <4>2, IncreasedStock
      <4>3. CASE stocks' = [stocks EXCEPT ![seen.user][Symbol] = << >>]
        BY <1>0, <3>0, <4>3, PulledStock
      <4>. QED
        BY <2>3, <4>1, <4>2, <4>3 DEF SellWrite
    <3>. QED
      BY <1>0, <2>3, <3>3, <3>5, DbTyped DEF SellWrite
  <2>4. ASSUME NEW u \in Users, NextBuyer(u) \/ NextSeller(u) PROVE UNCHANGED db
    BY <2>4 DEF NextBuyer, NextSeller
  <2>5. QueryBuys \/ BuyRead \/ QuerySells \/ SellRead \/ Sleep => UNCHANGED db
    BY DEF QueryBuys, BuyRead, QuerySells, SellRead, Sleep
  <2>. QED
    BY <1>1, <1>5, <2>1, <2>2, <2>3, <2>4, <2>5 DEF PollStep
<1>6. MainRaises \/ PollerRaises \/ Restart \/ UNCHANGED vars => UNCHANGED db
  BY DEF MainRaises, PollerRaises, Restart, vars, db
<1>. QED
  BY <1>1, <1>2, <1>3, <1>4, <1>5, <1>6 DEF Next

(***************************************************************************)
(* Which steps change what.                                                *)
(***************************************************************************)

(* The auto buys.                                                          *)
LEMMA BuysChange ==
    ASSUME [Next]_vars
    PROVE  \/ UNCHANGED auto_buy
           \/ SetBuyAmountUpdate \/ SetBuyTriggerUpdate \/ CancelSetBuyUpdate \/ BuyWrite
<1>1. ASSUME NEW u \in Users, BuyCommand(u) \/ SellCommand(u) \/ Trade(u) PROVE UNCHANGED auto_buy
  BY <1>1
  DEF BuyCommand, SellCommand, SetBuyAmount, SetBuyTrigger, CancelSetBuy, SetSellAmount,
      SetSellTrigger, CancelSetSell, Trade, Bought, Sold, autos
<1>2. MainStep => UNCHANGED auto_buy \/ SetBuyAmountUpdate \/ SetBuyTriggerUpdate
                  \/ CancelSetBuyUpdate
  BY DEF MainStep, RegisterBuy, UnregisterBuy, SetSellAmountUpdate, SetSellTriggerUpdate,
         RegisterSell, CancelSetSellUpdate, UnregisterSell, autos
<1>3. PollStep => UNCHANGED auto_buy \/ BuyWrite
  BY DEF PollStep, Poll, QueryBuys, NextBuyer, BuyRead, QuerySells, NextSeller, SellRead,
         SellWrite, Sleep, autos
<1>4. MainRaises \/ PollerRaises \/ Restart \/ UNCHANGED vars => UNCHANGED auto_buy
  BY DEF MainRaises, PollerRaises, Restart, autos, vars
<1>. QED
  BY <1>1, <1>2, <1>3, <1>4 DEF Next

(* The auto sells.                                                         *)
LEMMA SellsChange ==
    ASSUME [Next]_vars
    PROVE  \/ UNCHANGED auto_sell
           \/ SetSellTriggerUpdate \/ CancelSetSellUpdate \/ SellWrite
<1>1. ASSUME NEW u \in Users, BuyCommand(u) \/ SellCommand(u) \/ Trade(u) PROVE UNCHANGED auto_sell
  BY <1>1
  DEF BuyCommand, SellCommand, SetBuyAmount, SetBuyTrigger, CancelSetBuy, SetSellAmount,
      SetSellTrigger, CancelSetSell, Trade, Bought, Sold, autos
<1>2. MainStep => UNCHANGED auto_sell \/ SetSellTriggerUpdate \/ CancelSetSellUpdate
  BY DEF MainStep, SetBuyAmountUpdate, SetBuyTriggerUpdate, RegisterBuy, CancelSetBuyUpdate,
         UnregisterBuy, SetSellAmountUpdate, RegisterSell, UnregisterSell, autos
<1>3. PollStep => UNCHANGED auto_sell \/ SellWrite
  BY DEF PollStep, Poll, QueryBuys, NextBuyer, BuyRead, BuyWrite, QuerySells, NextSeller,
         SellRead, Sleep, autos
<1>4. MainRaises \/ PollerRaises \/ Restart \/ UNCHANGED vars => UNCHANGED auto_sell
  BY DEF MainRaises, PollerRaises, Restart, autos, vars
<1>. QED
  BY <1>1, <1>2, <1>3, <1>4 DEF Next

(* The amounts that wait for a trigger.                                    *)
LEMMA WaitingChanges ==
    ASSUME [Next]_vars
    PROVE  \/ UNCHANGED pending_sell_triggers
           \/ \E u \in Users : SellCommand(u)
           \/ SetSellAmountUpdate \/ Restart
<1>1. ASSUME NEW u \in Users, BuyCommand(u) \/ Trade(u) PROVE UNCHANGED pending_sell_triggers
  BY <1>1
  DEF BuyCommand, SetBuyAmount, SetBuyTrigger, CancelSetBuy, Trade, Bought, Sold, autos
<1>2. MainStep => UNCHANGED pending_sell_triggers \/ SetSellAmountUpdate
  BY DEF MainStep, SetBuyAmountUpdate, SetBuyTriggerUpdate, RegisterBuy, CancelSetBuyUpdate,
         UnregisterBuy, SetSellTriggerUpdate, RegisterSell, CancelSetSellUpdate,
         UnregisterSell, autos
<1>3. PollStep => UNCHANGED pending_sell_triggers
  BY DEF PollStep, Poll, QueryBuys, NextBuyer, BuyRead, BuyWrite, QuerySells, NextSeller,
         SellRead, SellWrite, Sleep, autos
<1>4. MainRaises \/ PollerRaises \/ UNCHANGED vars => UNCHANGED pending_sell_triggers
  BY DEF MainRaises, PollerRaises, autos, vars
<1>. QED
  BY <1>1, <1>2, <1>3, <1>4 DEF Next

(* The registrations.                                                      *)
LEMMA RegistrationsChange ==
    ASSUME [Next]_vars
    PROVE  \/ UNCHANGED registered
           \/ RegisterBuy \/ RegisterSell \/ UnregisterBuy \/ UnregisterSell
           \/ \E u \in Users : NextBuyer(u) \/ NextSeller(u)
           \/ Restart
<1>1. ASSUME NEW u \in Users, BuyCommand(u) \/ SellCommand(u) \/ Trade(u) PROVE UNCHANGED registered
  BY <1>1
  DEF BuyCommand, SellCommand, SetBuyAmount, SetBuyTrigger, CancelSetBuy, SetSellAmount,
      SetSellTrigger, CancelSetSell, Trade, Bought, Sold
<1>2. MainStep => \/ UNCHANGED registered
                  \/ RegisterBuy \/ RegisterSell \/ UnregisterBuy \/ UnregisterSell
  BY DEF MainStep, SetBuyAmountUpdate, SetBuyTriggerUpdate, CancelSetBuyUpdate,
         SetSellAmountUpdate, SetSellTriggerUpdate, CancelSetSellUpdate
<1>3. PollStep => UNCHANGED registered \/ \E u \in Users : NextBuyer(u) \/ NextSeller(u)
  BY DEF PollStep, Poll, QueryBuys, BuyRead, BuyWrite, QuerySells, SellRead, SellWrite, Sleep
<1>4. MainRaises \/ PollerRaises \/ UNCHANGED vars => UNCHANGED registered
  BY DEF MainRaises, PollerRaises, registered, vars
<1>. QED
  BY <1>1, <1>2, <1>3, <1>4 DEF Next

(* The auto transactions do, and the registrations.                        *)
LEMMA AutosTypedStep ==
    ASSUME Typed, [Next]_vars
    PROVE  AutosTyped' /\ buyers' \subseteq Users /\ sellers' \subseteq Users
<1>0. /\ AutosTyped /\ MainTyped /\ PollTyped /\ buyers \subseteq Users /\ sellers \subseteq Users
      /\ cmd.amount \in Nat /\ cmd.trigger \in Nat
  BY Parts, CmdFields DEF MainTyped
<1>1. auto_buy' \in [Users -> AutoTransaction \cup {None}]
  <2>1. CASE SetBuyAmountUpdate
    <3>1. cmd.user \in Users /\ [amount |-> cmd.amount, trigger |-> 0] \in AutoTransaction
      BY <1>0, <2>1, AutoType DEF SetBuyAmountUpdate, MainTyped
    <3>. QED
      BY <1>0, <2>1, <3>1 DEF SetBuyAmountUpdate, AutosTyped
  <2>2. CASE SetBuyTriggerUpdate
    <3>1. cmd.user \in Users
      BY <1>0, <2>2 DEF SetBuyTriggerUpdate, MainTyped
    <3>2. CASE auto_buy[cmd.user] # None
      <4>1. auto_buy[cmd.user] \in AutoTransaction
        BY <1>0, <3>1, <3>2 DEF AutosTyped
      <4>2. [auto_buy[cmd.user] EXCEPT !.trigger = cmd.trigger] \in AutoTransaction
        BY <1>0, <4>1 DEF AutoTransaction
      <4>3. auto_buy' = [auto_buy EXCEPT ![cmd.user] = [auto_buy[cmd.user] EXCEPT !.trigger = cmd.trigger]]
        BY <2>2, <3>2 DEF SetBuyTriggerUpdate
      <4>. QED
        BY <1>0, <4>2, <4>3 DEF AutosTyped
    <3>3. CASE auto_buy[cmd.user] = None
      BY <1>0, <2>2, <3>3 DEF SetBuyTriggerUpdate, AutosTyped
    <3>. QED
      BY <3>2, <3>3
  <2>3. CASE CancelSetBuyUpdate \/ BuyWrite
    BY <1>0, <2>3 DEF CancelSetBuyUpdate, BuyWrite, Pulled, AutosTyped
  <2>. QED
    BY <1>0, <2>1, <2>2, <2>3, BuysChange DEF AutosTyped
<1>2. auto_sell' \in [Users -> AutoTransaction \cup {None}]
  <2>1. CASE SetSellTriggerUpdate
    <3>1. [amount |-> cmd.amount, trigger |-> cmd.trigger] \in AutoTransaction
      BY <1>0, AutoType
    <3>. QED
      BY <1>0, <2>1, <3>1 DEF SetSellTriggerUpdate, AutosTyped
  <2>2. CASE CancelSetSellUpdate \/ SellWrite
    BY <1>0, <2>2 DEF CancelSetSellUpdate, SellWrite, Pulled, AutosTyped
  <2>. QED
    BY <1>0, <2>1, <2>2, SellsChange DEF AutosTyped
<1>3. pending_sell_triggers' \in [Users -> AutoAmounts \cup {None}]
  <2>1. CASE SetSellAmountUpdate
    BY <1>0, <2>1 DEF SetSellAmountUpdate, MainTyped, AutosTyped
  <2>2. ASSUME NEW u \in Users, SellCommand(u)
        PROVE  pending_sell_triggers' \in [Users -> AutoAmounts \cup {None}]
    BY <1>0, <2>2
    DEF SellCommand, SetSellAmount, SetSellTrigger, CancelSetSell, Pulled, AutosTyped, autos
  <2>3. CASE Restart
    BY <2>3 DEF Restart
  <2>. QED
    BY <1>0, <2>1, <2>2, <2>3, WaitingChanges DEF AutosTyped
<1>4. buyers' \subseteq Users /\ sellers' \subseteq Users
  <2>1. CASE RegisterBuy \/ RegisterSell \/ UnregisterBuy \/ UnregisterSell
    BY <1>0, <2>1
    DEF RegisterBuy, RegisterSell, UnregisterBuy, UnregisterSell, Add_user, Get_user, MainTyped
  <2>2. ASSUME NEW u \in Users, NextBuyer(u) \/ NextSeller(u)
        PROVE  buyers' \subseteq Users /\ sellers' \subseteq Users
    BY <1>0, <2>2 DEF NextBuyer, NextSeller, Get_user
  <2>3. CASE Restart
    BY <2>3 DEF Restart
  <2>. QED
    BY <1>0, <2>1, <2>2, <2>3, RegistrationsChange DEF registered
<1>. QED
  BY <1>1, <1>2, <1>3, <1>4 DEF AutosTyped

(* Every step keeps the state well typed.                                  *)
LEMMA TypedStep == Typed /\ [Next]_vars => Typed'
<1>. SUFFICES ASSUME Typed, [Next]_vars PROVE Typed'
  OBVIOUS
<1>1. MainTyped' /\ PollTyped' /\ DbTypeOK' /\ AutosTyped'
      /\ buyers' \subseteq Users /\ sellers' \subseteq Users
  BY MainTypedStep, PollTypedStep, DbTypedStep, AutosTypedStep
<1>2. (DbTypeOK /\ AutosTyped /\ MainTyped /\ PollTyped
       /\ buyers \subseteq Users /\ sellers \subseteq Users => Typed)'
  BY Parts, PTL
<1>. QED
  BY <1>1, <1>2

(* The state is well typed, with what the threads have read.               *)
THEOREM TypedHolds == Spec => []Typed
BY TypedInit, TypedStep, PTL DEF Spec

(***************************************************************************)
(* The documents, the registrations and the local variables of the two     *)
(* threads are what the commands and the polling make them, whichever      *)
(* commands overlap with the polling and wherever an exception or a        *)
(* restart comes in between.                                               *)
(***************************************************************************)
THEOREM TypeCorrect == Spec => []TypeOK
<1>1. Typed => TypeOK
  BY DEF Typed
<1>. QED
  BY <1>1, TypedHolds, PTL

-----------------------------------------------------------------------------
(***************************************************************************)
(* Where the two threads come from.                                        *)
(***************************************************************************)

(* The main thread stays, ends, starts a command or goes on with it.       *)
LEMMA MainMoves ==
    ASSUME [Next]_vars
    PROVE  \/ UNCHANGED main
           \/ pc' = "idle"
           \/ \E u \in Users : BuyCommand(u) \/ SellCommand(u)
           \/ SetBuyTriggerUpdate /\ pc' = "register_buy" /\ UNCHANGED cmd
           \/ CancelSetBuyUpdate /\ pc' = "unregister_buy" /\ UNCHANGED cmd
           \/ SetSellTriggerUpdate /\ pc' = "register_sell" /\ UNCHANGED cmd
           \/ CancelSetSellUpdate /\ pc' = "unregister_sell" /\ UNCHANGED cmd
<1>1. ASSUME NEW u \in Users, Trade(u) PROVE UNCHANGED main
  BY <1>1 DEF Trade, Bought, Sold
<1>2. MainStep => \/ pc' = "idle"
                  \/ SetBuyTriggerUpdate /\ pc' = "register_buy" /\ UNCHANGED cmd
                  \/ CancelSetBuyUpdate /\ pc' = "unregister_buy" /\ UNCHANGED cmd
                  \/ SetSellTriggerUpdate /\ pc' = "register_sell" /\ UNCHANGED cmd
                  \/ CancelSetSellUpdate /\ pc' = "unregister_sell" /\ UNCHANGED cmd
  BY DEF MainStep, SetBuyAmountUpdate, SetBuyTriggerUpdate, RegisterBuy, CancelSetBuyUpdate,
         UnregisterBuy, SetSellAmountUpdate, SetSellTriggerUpdate, RegisterSell,
         CancelSetSellUpdate, UnregisterSell, End, Goto
<1>3. PollStep \/ PollerRaises \/ UNCHANGED vars => UNCHANGED main
  BY DEF PollStep, Poll, QueryBuys, NextBuyer, BuyRead, BuyWrite, QuerySells, NextSeller,
         SellRead, SellWrite, Sleep, PollerRaises, main, vars
<1>4. MainRaises \/ Restart => pc' = "idle"
  BY DEF MainRaises, Restart, End, Goto
<1>. QED
  BY <1>1, <1>2, <1>3, <1>4 DEF Next

(* The polling thread stays, goes on, or stops.                            *)
LEMMA PollMoves ==
    ASSUME [Next]_vars
    PROVE  UNCHANGED poller \/ PollStep \/ poll' \in {"wait", "dead"}
<1>1. ASSUME NEW u \in Users, BuyCommand(u) \/ SellCommand(u) \/ Trade(u) PROVE UNCHANGED poller
  BY <1>1
  DEF BuyCommand, SellCommand, SetBuyAmount, SetBuyTrigger, CancelSetBuy, SetSellAmount,
      SetSellTrigger, CancelSetSell, Trade, Bought, Sold
<1>2. MainStep \/ MainRaises \/ UNCHANGED vars => UNCHANGED poller
  BY DEF MainStep, SetBuyAmountUpdate, SetBuyTriggerUpdate, RegisterBuy, CancelSetBuyUpdate,
         UnregisterBuy, SetSellAmountUpdate, SetSellTriggerUpdate, RegisterSell,
         CancelSetSellUpdate, UnregisterSell, MainRaises, poller, vars
<1>3. PollerRaises \/ Restart => poll' \in {"wait", "dead"}
  BY DEF PollerRaises, Restart
<1>. QED
  BY <1>1, <1>2, <1>3 DEF Next

(* A pass begins with Poll.                                                *)
LEMMA PassBegins ==
    ASSUME [Next]_vars, poll \in {"wait", "dead"}, poll' \notin {"wait", "dead"}
    PROVE  \E v \in Prices : Poll(v)
<1>1. PollStep
  BY PollMoves DEF poller
<1>. QED
  BY <1>1
  DEF PollStep, QueryBuys, NextBuyer, BuyRead, BuyWrite, QuerySells, NextSeller, SellRead,
      SellWrite, Sleep

(* A command that is in progress after a step was so before, or starts.    *)
LEMMA KindKept ==
    ASSUME Typed, [Next]_vars
    PROVE  \/ KindOf[pc'] = "none"
           \/ KindOf[pc'] = KindOf[pc] /\ UNCHANGED cmd
           \/ Start(KindOf[pc']) /\ UNCHANGED poller
<1>1. ASSUME NEW u \in Users, BuyCommand(u) \/ SellCommand(u)
      PROVE  Start(KindOf[pc']) /\ UNCHANGED poller
  BY <1>1, Places
  DEF BuyCommand, SellCommand, SetBuyAmount, SetBuyTrigger, CancelSetBuy, SetSellAmount,
      SetSellTrigger, CancelSetSell, Goto
<1>2. CASE UNCHANGED main
  BY <1>2 DEF main
<1>3. SetBuyTriggerUpdate => pc = "set_buy_trigger"
  BY DEF SetBuyTriggerUpdate
<1>4. CancelSetBuyUpdate => pc = "cancel_set_buy"
  BY DEF CancelSetBuyUpdate
<1>5. SetSellTriggerUpdate => pc = "set_sell_trigger"
  BY DEF SetSellTriggerUpdate
<1>6. CancelSetSellUpdate => pc = "cancel_set_sell"
  BY DEF CancelSetSellUpdate
<1>. QED
  BY <1>1, <1>2, <1>3, <1>4, <1>5, <1>6, MainMoves, Places

-----------------------------------------------------------------------------
(***************************************************************************)
(* The funds reserved for auto buys.                                       *)
(***************************************************************************)

(* Reserved sums and the differences of accounts are numbers.              *)
LEMMA ReservedType ==
    ASSUME Typed
    PROVE  \A u \in Users : /\ Reserved(u) \in Nat
                            /\ account[u] \in Int /\ available[u] \in Int
<1>. SUFFICES ASSUME NEW u \in Users
              PROVE  Reserved(u) \in Nat /\ account[u] \in Int /\ available[u] \in Int
  OBVIOUS
<1>1. auto_buy[u] \in AutoTransaction \cup {None}
  BY Parts DEF AutosTyped
<1>2. CASE auto_buy[u] = None
  BY <1>2, Parts DEF Reserved, DbTypeOK
<1>3. CASE auto_buy[u] # None
  <2>1. auto_buy[u].amount * auto_buy[u].trigger \in Nat
    BY <1>1, <1>3, AutoType, ProductType
  <2>. QED
    BY <1>3, <2>1, Parts DEF Reserved, DbTypeOK
<1>. QED
  BY <1>2, <1>3

(* Other steps leave the difference of account and available funds.        *)
LEMMA MoneyChanges ==
    ASSUME Typed, [Next]_vars
    PROVE  \/ SetBuyTriggerUpdate \/ CancelSetBuyUpdate \/ BuyWrite
           \/ \A u \in Users : account'[u] - available'[u] = account[u] - available[u]
<1>0. account \in [Users -> Int] /\ available \in [Users -> Int]
  BY Parts DEF DbTypeOK
<1>1. ASSUME NEW u \in Users, BuyCommand(u) \/ SellCommand(u)
      PROVE  UNCHANGED <<account, available>>
  BY <1>1
  DEF BuyCommand, SellCommand, SetBuyAmount, SetBuyTrigger, CancelSetBuy, SetSellAmount,
      SetSellTrigger, CancelSetSell, db
<1>2. ASSUME NEW w \in Users, Trade(w)
      PROVE  \A u \in Users : account'[u] - available'[u] = account[u] - available[u]
  <2>1. PICK n \in Lots, v \in Prices : Bought(w, n, v) \/ Sold(w, n, v)
    BY <1>2 DEF Trade
  <2>2. PICK c \in Int : c = n * v
    BY Numbers, ProductType
  <2>3. CASE Bought(w, n, v)
    <3>1. account' = [account EXCEPT ![w] = @ - c] /\ available' = [available EXCEPT ![w] = @ - c]
      BY <2>2, <2>3 DEF Bought
    <3>. QED
      BY <1>0, <3>1
  <2>4. CASE Sold(w, n, v)
    <3>1. account' = [account EXCEPT ![w] = @ + c] /\ available' = [available EXCEPT ![w] = @ + c]
      BY <2>2, <2>4 DEF Sold
    <3>. QED
      BY <1>0, <3>1
  <2>. QED
    BY <2>1, <2>3, <2>4
<1>3. MainStep => UNCHANGED <<account, available>> \/ SetBuyTriggerUpdate \/ CancelSetBuyUpdate
  BY DEF MainStep, SetBuyAmountUpdate, RegisterBuy, UnregisterBuy, SetSellAmountUpdate,
         SetSellTriggerUpdate, RegisterSell, CancelSetSellUpdate, UnregisterSell, db
<1>4. PollStep => UNCHANGED <<account, available>> \/ BuyWrite \/ SellWrite
  BY DEF PollStep, Poll, QueryBuys, NextBuyer, BuyRead, QuerySells, NextSeller, SellRead,
         Sleep, db
<1>5. CASE SellWrite
  <2>1. seen.user \in Users /\ seen.auto.amount * seen.value \in Nat
    BY <1>5, Parts, AutoType, Numbers, ProductType DEF SellWrite, PollTyped
  <2>2. PICK w \in Users, c \in Int : w = seen.user /\ c = seen.auto.amount * seen.value
    BY <2>1
  <2>3. \/ UNCHANGED <<account, available>>
        \/ account' = [account EXCEPT ![w] = @ + c] /\ available' = [available EXCEPT ![w] = @ + c]
    BY <1>5, <2>2 DEF SellWrite
  <2>. QED
    BY <1>0, <2>3
<1>6. MainRaises \/ PollerRaises \/ Restart \/ UNCHANGED vars => UNCHANGED <<account, available>>
  BY DEF MainRaises, PollerRaises, Restart, db, vars
<1>. QED
  BY <1>1, <1>2, <1>3, <1>4, <1>5, <1>6 DEF Next

(* SET_BUY_TRIGGER reserves the price of what it has set.                  *)
LEMMA TriggerReserves ==
    ASSUME Typed, NEW X \in [Users -> Int], BuyInv(X), SetBuyTriggerUpdate, NEW u \in Users
    PROVE  /\ account'[u] - available'[u] - X[u] >= account[u] - available[u] - X[u]
           /\ Reserved(u)' <= account'[u] - available'[u] - X[u]
<1>0. /\ account \in [Users -> Int] /\ available \in [Users -> Int]
      /\ auto_buy \in [Users -> AutoTransaction \cup {None}]
      /\ X[u] \in Int /\ Reserved(u) \in Nat /\ Reserved(u) <= account[u] - available[u] - X[u]
      /\ pc = "set_buy_trigger" /\ cmd.amount \in Nat /\ cmd.trigger \in Nat
      /\ account' = account
  BY Parts, ReservedType, CmdFields
  DEF DbTypeOK, AutosTyped, MainTyped, SetBuyTriggerUpdate, BuyInv, Covered, Free
<1>1. PICK w \in Users, c \in Nat : w = cmd.user /\ c = cmd.amount * cmd.trigger
  <2>1. cmd.user \in Users
    BY <1>0, Parts DEF MainTyped
  <2>. QED
    BY <1>0, <2>1, ProductType
<1>2. CASE auto_buy[w] = None
  BY <1>0, <1>1, <1>2 DEF SetBuyTriggerUpdate, Reserved
<1>3. CASE auto_buy[w] # None
  <2>1. available' = [available EXCEPT ![w] = @ - c]
    BY <1>1, <1>3 DEF SetBuyTriggerUpdate
  <2>2. /\ auto_buy' = [auto_buy EXCEPT ![w] = [auto_buy[w] EXCEPT !.trigger = cmd.trigger]]
        /\ auto_buy[w].amount = cmd.amount /\ auto_buy[w] \in AutoTransaction
    BY <1>0, <1>1, <1>3 DEF SetBuyTriggerUpdate, BuyInv, BuyFrame
  <2>3. account'[u] - available'[u] - X[u] >= account[u] - available[u] - X[u]
    BY <1>0, <2>1
  <2>4. CASE u = w
    <3>1. auto_buy'[u] \in AutoTransaction
          /\ auto_buy'[u].amount = cmd.amount /\ auto_buy'[u].trigger = cmd.trigger
      BY <1>0, <2>2, <2>4 DEF AutoTransaction
    <3>2. Reserved(u)' = c
      BY <1>1, <3>1, NoneIsNoAuto DEF Reserved
    <3>3. available'[u] = available[u] - c
      BY <1>0, <2>1, <2>4
    <3>. QED
      BY <1>0, <2>3, <3>2, <3>3
  <2>5. CASE u # w
    <3>1. Reserved(u)' = Reserved(u)
      BY <1>0, <2>2, <2>5 DEF Reserved
    <3>. QED
      BY <1>0, <2>1, <2>3, <2>5, <3>1
  <2>. QED
    BY <2>4, <2>5
<1>. QED
  BY <1>2, <1>3

(* CANCEL_SET_BUY gives back what the auto buy it pulls had reserved.      *)
LEMMA CancelReleases ==
    ASSUME Typed, NEW X \in [Users -> Int], BuyInv(X), CancelSetBuyUpdate, NEW u \in Users
    PROVE  Reserved(u)' <= account'[u] - available'[u] - X[u]
<1>0. /\ account \in [Users -> Int] /\ available \in [Users -> Int]
      /\ auto_buy \in [Users -> AutoTransaction \cup {None}]
      /\ X[u] \in Int /\ Reserved(u) \in Nat /\ Reserved(u) <= account[u] - available[u] - X[u]
      /\ pc = "cancel_set_buy" /\ cmd.auto \in AutoTransaction
      /\ account' = account
  BY Parts, ReservedType
  DEF DbTypeOK, AutosTyped, MainTyped, CancelSetBuyUpdate, BuyInv, Covered, Free
<1>1. PICK w \in Users, c \in Nat : w = cmd.user /\ c = cmd.auto.amount * cmd.auto.trigger
  BY <1>0, Parts, AutoType, ProductType DEF MainTyped
<1>2. available' = [available EXCEPT ![w] = @ + c] /\ auto_buy' = [auto_buy EXCEPT ![w] = None]
  BY <1>1 DEF CancelSetBuyUpdate, Pulled
<1>3. auto_buy[w] = cmd.auto /\ cmd.auto # None
  BY <1>0, <1>1, NoneIsNoAuto DEF BuyInv, BuyFrame
<1>4. CASE u = w
  <2>1. Reserved(u)' = 0
    BY <1>0, <1>2, <1>4 DEF Reserved
  <2>2. Reserved(u) = c
    BY <1>1, <1>3, <1>4 DEF Reserved
  <2>3. available'[u] = available[u] + c
    BY <1>0, <1>2, <1>4
  <2>. QED
    BY <1>0, <2>1, <2>2, <2>3
<1>5. CASE u # w
  BY <1>0, <1>2, <1>5 DEF Reserved
<1>. QED
  BY <1>4, <1>5

(* A purchase gives back what was reserved, and pays the price.            *)
LEMMA PurchaseReleases ==
    ASSUME Typed, NEW X \in [Users -> Int], BuyInv(X), BuyWrite, NEW u \in Users
    PROVE  Reserved(u)' <= account'[u] - available'[u] - X[u]
<1>0. /\ account \in [Users -> Int] /\ available \in [Users -> Int]
      /\ auto_buy \in [Users -> AutoTransaction \cup {None}]
      /\ X[u] \in Int /\ Reserved(u) \in Nat /\ Reserved(u) <= account[u] - available[u] - X[u]
      /\ poll = "buy_write" /\ seen.auto \in AutoTransaction /\ seen.user \in Users
      /\ seen.value \in Nat
  BY Parts, ReservedType, Numbers
  DEF DbTypeOK, AutosTyped, PollTyped, BuyWrite, BuyInv, Covered, Free
<1>1. PICK w \in Users, c \in Nat, r \in Nat :
          w = seen.user /\ c = seen.auto.amount * seen.value
          /\ r = seen.auto.amount * seen.auto.trigger
  BY <1>0, AutoType, ProductType
<1>2. CASE UNCHANGED <<auto_buy, account, available>>
  BY <1>0, <1>2 DEF Reserved
<1>3. CASE /\ auto_buy' = Pulled(auto_buy, w)
           /\ available' = [available EXCEPT ![w] = @ + Remainder(seen.auto, seen.value)]
           /\ account' = [account EXCEPT ![w] = @ - c]
  <2>1. Remainder(seen.auto, seen.value) = r - c
    BY <1>1 DEF Remainder
  <2>2. r <= account[w] - available[w] - X[w]
    BY <1>0, <1>1 DEF BuyInv, BuyFrame, Free
  <2>3. CASE u = w
    <3>1. Reserved(u)' = 0
      BY <1>0, <1>3, <2>3 DEF Reserved, Pulled
    <3>2. available'[u] = available[u] + (r - c) /\ account'[u] = account[u] - c
      BY <1>0, <1>3, <2>1, <2>3
    <3>. QED
      BY <1>0, <2>2, <2>3, <3>1, <3>2
  <2>4. CASE u # w
    <3>1. Reserved(u)' = Reserved(u)
      BY <1>0, <1>3, <2>4 DEF Reserved, Pulled
    <3>2. available'[u] = available[u] /\ account'[u] = account[u]
      BY <1>0, <1>3, <2>4
    <3>. QED
      BY <1>0, <3>1, <3>2
  <2>. QED
    BY <2>3, <2>4
<1>. QED
  BY <1>1, <1>2, <1>3 DEF BuyWrite

(* Every step keeps what is reserved, and what the commands and the        *)
(* polling thread rely on.                                                 *)
LEMMA BuyStep ==
    ASSUME CancelsApart, Typed, NEW X \in [Users -> Int], BuyInv(X), [Next]_vars
    PROVE  BuyInv(X)'
<1>0. /\ BuyFrame(X) /\ Covered(X) /\ Typed'
      /\ MainTyped /\ PollTyped /\ MainTyped' /\ PollTyped'
      /\ auto_buy \in [Users -> AutoTransaction \cup {None}]
  <2>1. Typed'
    BY TypedStep
  <2>2. (Typed => MainTyped /\ PollTyped)'
    BY Parts, PTL
  <2>. QED
    BY <2>1, <2>2, Parts DEF BuyInv, AutosTyped
<1>1. Covered(X)'
  <2>. SUFFICES ASSUME NEW u \in Users
                PROVE  Reserved(u)' <= account'[u] - available'[u] - X[u]
    BY DEF Covered, Free
  <2>1. CASE SetBuyTriggerUpdate \/ CancelSetBuyUpdate \/ BuyWrite
    BY <2>1, TriggerReserves, CancelReleases, PurchaseReleases
  <2>2. CASE /\ UNCHANGED auto_buy \/ SetBuyAmountUpdate
             /\ account'[u] - available'[u] - X[u] = account[u] - available[u] - X[u]
    <3>1. Reserved(u) \in Nat /\ account[u] \in Int /\ available[u] \in Int
          /\ Reserved(u) <= account[u] - available[u] - X[u]
      BY <1>0, ReservedType DEF Covered, Free
    <3>2. Reserved(u)' = Reserved(u) \/ Reserved(u)' = 0
      <4>1. CASE UNCHANGED auto_buy
        BY <4>1 DEF Reserved
      <4>2. CASE SetBuyAmountUpdate
        <5>1. cmd.amount \in Nat
          BY <1>0, CmdFields DEF MainTyped
        <5>2. auto_buy'[u] = auto_buy[u] \/ auto_buy'[u] = [amount |-> cmd.amount, trigger |-> 0]
          BY <1>0, <4>2 DEF SetBuyAmountUpdate
        <5>3. CASE auto_buy'[u] = auto_buy[u]
          BY <5>3 DEF Reserved
        <5>4. CASE auto_buy'[u] = [amount |-> cmd.amount, trigger |-> 0]
          <6>1. cmd.amount * 0 = 0
            BY <5>1
          <6>2. auto_buy'[u].amount = cmd.amount /\ auto_buy'[u].trigger = 0
                /\ auto_buy'[u] \in AutoTransaction
            BY <5>1, <5>4, AutoType
          <6>. QED
            BY <6>1, <6>2, NoneIsNoAuto DEF Reserved
        <5>. QED
          BY <5>2, <5>3, <5>4
      <4>. QED
        BY <2>2, <4>1, <4>2
    <3>. QED
      BY <2>2, <3>1, <3>2
  <2>. QED
    BY <2>1, <2>2, BuysChange, MoneyChanges
<1>2. (KindOf[pc] = "cancel_set_buy" => poll \in {"wait", "dead"})'
  <2>. SUFFICES ASSUME KindOf[pc'] = "cancel_set_buy" PROVE poll' \in {"wait", "dead"}
    OBVIOUS
  <2>1. CASE Start(KindOf[pc']) /\ UNCHANGED poller
    BY <2>1 DEF Start, CancelsApart, poller
  <2>2. CASE KindOf[pc'] = KindOf[pc]
    <3>1. poll \in {"wait", "dead"} /\ KindOf[pc] \notin Overlapping \cup {"none"}
      BY <1>0, <2>2 DEF BuyFrame, CancelsApart
    <3>. QED
      BY <3>1, PassBegins DEF Poll
  <2>. QED
    BY <2>1, <2>2, KindKept
<1>3. (pc = "cancel_set_buy" => auto_buy[cmd.user] = cmd.auto)'
  <2>. SUFFICES ASSUME pc' = "cancel_set_buy" PROVE auto_buy'[cmd'.user] = cmd'.auto
    OBVIOUS
  <2>1. ASSUME NEW u \in Users, BuyCommand(u) \/ SellCommand(u)
        PROVE  CancelSetBuy(u)
    BY <2>1
    DEF BuyCommand, SellCommand, SetBuyAmount, SetBuyTrigger, SetSellAmount,
        SetSellTrigger, CancelSetSell, Goto
  <2>2. ASSUME NEW u \in Users, CancelSetBuy(u)
        PROVE  auto_buy'[cmd'.user] = cmd'.auto
    BY <2>2 DEF CancelSetBuy, Goto, Command, autos
  <2>3. CASE UNCHANGED main
    <3>1. pc = "cancel_set_buy" /\ poll \in {"wait", "dead"} /\ auto_buy[cmd.user] = cmd.auto
      BY <1>0, <2>3, Places DEF BuyFrame, main
    <3>2. UNCHANGED auto_buy
      BY <2>3, <3>1, BuysChange
      DEF main, SetBuyAmountUpdate, SetBuyTriggerUpdate, CancelSetBuyUpdate, Goto, BuyWrite
    <3>. QED
      BY <2>3, <3>1, <3>2 DEF main
  <2>. QED
    BY <2>1, <2>2, <2>3, MainMoves
<1>4. (pc = "set_buy_trigger" /\ auto_buy[cmd.user] # None
       => auto_buy[cmd.user].amount = cmd.amount)'
  <2>. SUFFICES ASSUME pc' = "set_buy_trigger", auto_buy'[cmd'.user] # None
                PROVE  auto_buy'[cmd'.user].amount = cmd'.amount
    OBVIOUS
  <2>1. ASSUME NEW u \in Users, BuyCommand(u) \/ SellCommand(u)
        PROVE  \E t \in Triggers : SetBuyTrigger(u, t)
    BY <2>1
    DEF BuyCommand, SellCommand, SetBuyAmount, CancelSetBuy, SetSellAmount,
        SetSellTrigger, CancelSetSell, Goto
  <2>2. ASSUME NEW u \in Users, NEW t \in Triggers, SetBuyTrigger(u, t)
        PROVE  auto_buy'[cmd'.user].amount = cmd'.amount
    BY <2>2 DEF SetBuyTrigger, Goto, Command, autos
  <2>3. CASE UNCHANGED main
    <3>1. pc = "set_buy_trigger" /\ cmd.user \in Users
      BY <1>0, <2>3 DEF main, MainTyped
    <3>2. UNCHANGED auto_buy \/ BuyWrite
      BY <2>3, <3>1, BuysChange
      DEF main, SetBuyAmountUpdate, SetBuyTriggerUpdate, CancelSetBuyUpdate, Goto, End
    <3>3. auto_buy'[cmd.user] = auto_buy[cmd.user] \/ auto_buy'[cmd.user] = None
      BY <1>0, <3>1, <3>2 DEF BuyWrite, Pulled
    <3>. QED
      BY <1>0, <2>3, <3>1, <3>3 DEF main, BuyFrame
  <2>. QED
    BY <2>1, <2>2, <2>3, MainMoves
<1>5. (poll = "buy_write" => seen.auto.amount * seen.auto.trigger
                                <= account[seen.user] - available[seen.user] - X[seen.user])'
  <2>. SUFFICES ASSUME poll' = "buy_write"
                PROVE  seen'.auto.amount * seen'.auto.trigger
                          <= account'[seen'.user] - available'[seen'.user] - X[seen'.user]
    OBVIOUS
  <2>1. BuyRead \/ UNCHANGED poller
    BY PollMoves
    DEF PollStep, Poll, QueryBuys, NextBuyer, BuyWrite, QuerySells, NextSeller, SellRead,
        SellWrite, Sleep
  <2>2. CASE BuyRead
    <3>1. /\ seen.user \in Users /\ auto_buy[seen.user] # None
          /\ seen' = [seen EXCEPT !.auto = auto_buy[seen.user],
                                  !.found = Owns(seen.user, Symbol)]
          /\ UNCHANGED <<account, available>> /\ seen \in Seen
      BY <1>0, <2>2 DEF BuyRead, PollTyped, db
    <3>2. seen'.user = seen.user /\ seen'.auto = auto_buy[seen.user]
      BY <3>1 DEF Seen
    <3>3. Reserved(seen.user) <= account[seen.user] - available[seen.user] - X[seen.user]
      BY <1>0, <3>1 DEF Covered, Free
    <3>. QED
      BY <3>1, <3>2, <3>3 DEF Reserved
  <2>3. CASE UNCHANGED poller
    <3>1. poll = "buy_write" /\ seen' = seen /\ seen.user \in Users /\ seen.auto \in AutoTransaction
      BY <1>0, <2>3 DEF poller, PollTyped
    <3>2. PICK w \in Users, r \in Nat : w = seen.user /\ r = seen.auto.amount * seen.auto.trigger
      BY <3>1, AutoType, ProductType
    <3>3. r <= account[w] - available[w] - X[w] /\ account[w] \in Int /\ available[w] \in Int
      BY <1>0, <3>1, <3>2, ReservedType DEF BuyFrame, Free
    <3>4. account'[w] \in Int /\ available'[w] \in Int
      <4>1. (Typed => DbTypeOK)'
        BY Parts, PTL
      <4>. QED
        BY <1>0, <4>1 DEF DbTypeOK
    <3>5. ~BuyWrite
      BY <2>3, <3>1 DEF BuyWrite, poller
    <3>6. ~CancelSetBuyUpdate
      BY <1>0, <3>1, Places DEF CancelSetBuyUpdate, BuyFrame
    <3>7. account'[w] - available'[w] - X[w] >= account[w] - available[w] - X[w]
      <4>1. CASE SetBuyTriggerUpdate
        BY <4>1, TriggerReserves
      <4>2. CASE account'[w] - available'[w] - X[w] = account[w] - available[w] - X[w]
        BY <3>3, <3>4, <4>2
      <4>. QED
        BY <3>5, <3>6, <4>1, <4>2, MoneyChanges
    <3>8. r <= account'[w] - available'[w] - X[w]
      BY <3>3, <3>4, <3>7
    <3>. QED
      BY <3>1, <3>2, <3>8
  <2>. QED
    BY <2>1, <2>2, <2>3
<1>6. BuyFrame(X)'
  BY <1>2, <1>3, <1>4, <1>5 DEF BuyFrame, Free
<1>. QED
  BY <1>1, <1>6 DEF BuyInv

(***************************************************************************)
(* The funds that are not available cover the auto buy of each user, for   *)
(* any users, amounts, triggers and prices, exceptions and restarts: SET   *)
(* and SELL commands and trades may be in progress during a pass of the    *)
(* polling thread, but no CANCEL_SET_BUY.                                  *)
(***************************************************************************)
THEOREM FundsReserved ==
    ASSUME CancelsApart
    PROVE  Spec => []ReservedForBuy
<1>. DEFINE X == [u \in Users |-> 0]
<1>1. Init => BuyInv(X)
  <2>. SUFFICES ASSUME Init PROVE BuyInv(X)
    OBVIOUS
  <2>1. MaxFunds - MaxFunds - 0 >= 0
    BY FundsAssumption
  <2>2. Covered(X)
    BY <2>1 DEF Init, Covered, Free, Reserved
  <2>3. BuyFrame(X)
    BY Places DEF Init, BuyFrame
  <2>. QED
    BY <2>2, <2>3 DEF BuyInv
<1>2. Typed /\ BuyInv(X) /\ [Next]_vars => BuyInv(X)'
  <2>1. X \in [Users -> Int]
    OBVIOUS
  <2>. HIDE DEF X
  <2>. QED
    BY <2>1, BuyStep
<1>3. Typed /\ BuyInv(X) => ReservedForBuy
  <2>. SUFFICES ASSUME Typed, BuyInv(X), NEW u \in Users
                PROVE  Reserved(u) <= account[u] - available[u]
    BY DEF ReservedForBuy
  <2>1. Reserved(u) <= account[u] - available[u] - 0
    BY DEF BuyInv, Covered, Free
  <2>. QED
    BY <2>1, ReservedType
<1>. HIDE DEF X
<1>. QED
  BY <1>1, <1>2, <1>3, TypedHolds, PTL DEF Spec

-----------------------------------------------------------------------------
(***************************************************************************)
(* The shares set aside for auto sells.                                    *)
(***************************************************************************)

(* The arrays of stocks.                                                   *)
LEMMA StocksChange ==
    ASSUME [Next]_vars
    PROVE  \/ UNCHANGED stocks
           \/ \E u \in Users : Trade(u)
           \/ SetSellAmountUpdate \/ SetSellTriggerUpdate \/ CancelSetSellUpdate
           \/ BuyWrite \/ SellWrite
<1>1. ASSUME NEW u \in Users, BuyCommand(u) \/ SellCommand(u) PROVE UNCHANGED stocks
  BY <1>1
  DEF BuyCommand, SellCommand, SetBuyAmount, SetBuyTrigger, CancelSetBuy, SetSellAmount,
      SetSellTrigger, CancelSetSell, db
<1>2. MainStep => \/ UNCHANGED stocks
                  \/ SetSellAmountUpdate \/ SetSellTriggerUpdate \/ CancelSetSellUpdate
  BY DEF MainStep, SetBuyAmountUpdate, SetBuyTriggerUpdate, RegisterBuy, CancelSetBuyUpdate,
         UnregisterBuy, RegisterSell, UnregisterSell, db
<1>3. PollStep => UNCHANGED stocks \/ BuyWrite \/ SellWrite
  BY DEF PollStep, Poll, QueryBuys, NextBuyer, BuyRead, QuerySells, NextSeller, SellRead,
         Sleep, db
<1>4. MainRaises \/ PollerRaises \/ Restart \/ UNCHANGED vars => UNCHANGED stocks
  BY DEF MainRaises, PollerRaises, Restart, db, vars
<1>. QED
  BY <1>1, <1>2, <1>3, <1>4 DEF Next

(* Numbers of shares.                                                      *)
LEMMA SharesType ==
    ASSUME Typed, NEW u \in Users
    PROVE  /\ Waiting(u) \in Nat /\ Selling(u) \in Nat /\ Unavailable(u) \in Int
           /\ (Waiting(u) = 0) <=> (pending_sell_triggers[u] = None)
           /\ auto_sell[u] \in AutoTransaction \cup {None}
           /\ Owns(u, Symbol) => /\ stocks[u][Symbol][1].amount \in Int
                                 /\ stocks[u][Symbol][1].available \in Int
<1>1. /\ auto_sell[u] \in AutoTransaction \cup {None}
      /\ pending_sell_triggers[u] \in AutoAmounts \cup {None}
      /\ DbTypeOK
  BY Parts DEF AutosTyped
<1>2. Waiting(u) \in Nat /\ ((Waiting(u) = 0) <=> (pending_sell_triggers[u] = None))
  BY <1>1, Numbers, NoneIsNoAuto DEF Waiting
<1>3. Selling(u) \in Nat
  BY <1>1, AutoType DEF Selling
<1>4. Owns(u, Symbol) => /\ stocks[u][Symbol][1].amount \in Int
                         /\ stocks[u][Symbol][1].available \in Int
  BY <1>1, FirstType
<1>5. Unavailable(u) \in Int
  BY <1>4 DEF Unavailable
<1>. QED
  BY <1>1, <1>2, <1>3, <1>4, <1>5

(* The shares of the first element that are not available, and claimed.    *)
LEMMA ClaimsType ==
    Typed => \A u \in Users : /\ Unavailable(u) \in Int
                              /\ InHand(u) \in Nat /\ Claims(u) \in Nat
<1>. SUFFICES ASSUME Typed, NEW u \in Users
              PROVE  /\ Unavailable(u) \in Int
                     /\ InHand(u) \in Nat /\ Claims(u) \in Nat
  OBVIOUS
<1>1. Unavailable(u) \in Int
  BY SharesType
<1>2. InHand(u) \in Nat
  BY Parts, CmdFields DEF MainTyped, InHand
<1>. QED
  BY <1>1, <1>2, SharesType DEF Claims

LEMMA ClaimsTypeNext ==
    (Typed => \A u \in Users : /\ Unavailable(u) \in Int
                               /\ InHand(u) \in Nat /\ Claims(u) \in Nat)'
BY ClaimsType, PTL

(* What an update of the stocks does to the first element and to what is   *)
(* not available of it.                                                    *)
LEMMA HoldingIncreased ==
    ASSUME Typed, NEW w \in Users, Owns(w, Symbol), NEW da \in Int, NEW dv \in Int,
           stocks' = Increased(w, Symbol, da, dv)
    PROVE  /\ Owns(w, Symbol)'
           /\ stocks'[w][Symbol][1].available = stocks[w][Symbol][1].available + dv
           /\ Unavailable(w)' = Unavailable(w) + (da - dv)
           /\ \A u \in Users \ {w} : stocks'[u] = stocks[u]
<1>1. DbTypeOK
  BY Parts
<1>2. /\ stocks[w][Symbol][1].amount \in Int /\ stocks[w][Symbol][1].available \in Int
      /\ stocks'[w][Symbol] # << >>
      /\ stocks'[w][Symbol][1].amount = stocks[w][Symbol][1].amount + da
      /\ stocks'[w][Symbol][1].available = stocks[w][Symbol][1].available + dv
      /\ \A u \in Users \ {w} : stocks'[u] = stocks[u]
  BY <1>1, FirstType, IncreasedStock
<1>3. Owns(w, Symbol)'
  BY <1>2 DEF Owns
<1>4. Unavailable(w)' = stocks'[w][Symbol][1].amount - stocks'[w][Symbol][1].available
  BY <1>3 DEF Unavailable
<1>5. Unavailable(w) = stocks[w][Symbol][1].amount - stocks[w][Symbol][1].available
  BY DEF Unavailable
<1>. QED
  BY <1>2, <1>3, <1>4, <1>5

(* A push leaves what is not available: all pushed shares are available.   *)
LEMMA HoldingPushed ==
    ASSUME Typed, NEW w \in Users, NEW n \in Nat,
           stocks' = Pushed(w, Symbol, [amount |-> n, available |-> n])
    PROVE  /\ Unavailable(w)' = Unavailable(w)
           /\ \A u \in Users \ {w} : stocks'[u] = stocks[u]
<1>1. DbTypeOK /\ [amount |-> n, available |-> n] \in Holding
  BY Parts DEF Holding
<1>2. /\ stocks'[w][Symbol] # << >>
      /\ \A u \in Users \ {w} : stocks'[u] = stocks[u]
      /\ Owns(w, Symbol) => stocks'[w][Symbol][1] = stocks[w][Symbol][1]
      /\ ~Owns(w, Symbol) => stocks'[w][Symbol][1] = [amount |-> n, available |-> n]
  BY <1>1, PushedStock DEF Owns
<1>3. Owns(w, Symbol)'
  BY <1>2 DEF Owns
<1>4. Unavailable(w)' = stocks'[w][Symbol][1].amount - stocks'[w][Symbol][1].available
  BY <1>3 DEF Unavailable
<1>5. CASE Owns(w, Symbol)
  BY <1>2, <1>3, <1>4, <1>5 DEF Unavailable
<1>6. CASE ~Owns(w, Symbol)
  BY <1>2, <1>3, <1>4, <1>6 DEF Unavailable
<1>. QED
  BY <1>5, <1>6

(* A pull leaves nothing.                                                  *)
LEMMA HoldingPulled ==
    ASSUME Typed, NEW w \in Users, stocks' = [stocks EXCEPT ![w][Symbol] = << >>]
    PROVE  /\ Unavailable(w)' = 0
           /\ \A u \in Users \ {w} : stocks'[u] = stocks[u]
<1>1. stocks \in [Users -> [Stocks -> Seq(Holding)]]
  BY Parts DEF DbTypeOK
<1>2. ~Owns(w, Symbol)'
  BY Parts, PulledStock DEF Owns
<1>. QED
  BY <1>1, <1>2 DEF Unavailable

(***************************************************************************)
(* What the actions do to what is claimed.                                 *)
(***************************************************************************)

(***************************************************************************)
(* What the actions do to what is claimed.                                 *)
(***************************************************************************)
LEMMA ClaimsMove ==
    ASSUME NEW u \in Users, Typed, SetAside(u), NEW a \in Int, NEW c \in Int,
           Unavailable(u)' = Unavailable(u) + a, Claims(u)' = Claims(u) + c, c <= a
    PROVE  SetAside(u)'
<1>1. Unavailable(u) \in Int /\ Claims(u) \in Int /\ Claims(u) <= Unavailable(u)
  BY ClaimsType DEF SetAside
<1>2. Claims(u)' <= Unavailable(u)'
  BY <1>1
<1>. QED
  BY <1>2 DEF SetAside

(* A user whose shares a step does not concern, and claims no more.        *)
LEMMA ClaimsSame ==
    ASSUME NEW u \in Users, Typed, Typed', SetAside(u), Unavailable(u)' = Unavailable(u),
           Claims(u)' <= Claims(u)
    PROVE  SetAside(u)'
<1>1. Unavailable(u) \in Int /\ Claims(u) \in Int /\ Claims(u) <= Unavailable(u)
  BY ClaimsType DEF SetAside
<1>2. Claims(u)' \in Int
  BY ClaimsTypeNext
<1>3. Claims(u)' <= Unavailable(u)'
  BY <1>1, <1>2
<1>. QED
  BY <1>3 DEF SetAside

(* The array of a user stays.                                              *)
LEMMA SameUnavailable ==
    ASSUME NEW u \in Users, stocks'[u] = stocks[u]
    PROVE  Unavailable(u)' = Unavailable(u)
BY DEF Unavailable, Owns

(* Nothing more is claimed as long as the transactions stay.               *)
LEMMA ClaimsKept ==
    ASSUME Typed, NEW u \in Users, auto_sell'[u] = auto_sell[u],
           pending_sell_triggers'[u] \in {pending_sell_triggers[u], None},
           InHand(u)' \in {InHand(u), 0}
    PROVE  Claims(u)' <= Claims(u)
<1>1. Selling(u)' = Selling(u)
  BY DEF Selling
<1>2. Waiting(u)' = Waiting(u) \/ Waiting(u)' = 0
  BY DEF Waiting
<1>3. Waiting(u) \in Nat /\ Selling(u) \in Nat /\ InHand(u) \in Nat
  BY SharesType, ClaimsType
<1>. QED
  BY <1>1, <1>2, <1>3 DEF Claims

(* Purchases and trades leave the shares that are not available.           *)
LEMMA TradesSetAside ==
    ASSUME NEW u \in Users, Typed, Typed', SetAside(u),
           BuyWrite \/ \E w \in Users : Trade(w)
    PROVE  SetAside(u)'
<1>0. UNCHANGED <<auto_sell, pending_sell_triggers, main>>
  BY DEF BuyWrite, Trade, Bought, Sold, autos
<1>1. Claims(u)' = Claims(u) /\ Claims(u) \in Nat /\ Unavailable(u) \in Int
  BY <1>0, ClaimsType DEF Claims, Waiting, Selling, InHand, main
<1>2. ASSUME NEW w \in Users, NEW n \in Int, Owns(w, Symbol), stocks' = Increased(w, Symbol, n, n)
      PROVE  Unavailable(u)' = Unavailable(u)
  <2>1. /\ Unavailable(w)' = Unavailable(w) + (n - n)
        /\ \A x \in Users \ {w} : stocks'[x] = stocks[x]
    BY <1>2, HoldingIncreased
  <2>. QED
    BY <1>1, <2>1, SameUnavailable
<1>3. ASSUME NEW w \in Users, NEW n \in Nat,
             stocks' = Pushed(w, Symbol, [amount |-> n, available |-> n])
      PROVE  Unavailable(u)' = Unavailable(u)
  BY <1>3, HoldingPushed, SameUnavailable
<1>4. CASE BuyWrite
  <2>1. PICK w \in Users, n \in Nat : w = seen.user /\ n = seen.auto.amount
    BY <1>4, Parts, AutoType DEF BuyWrite, PollTyped
  <2>2. \/ UNCHANGED stocks
        \/ Owns(w, Symbol) /\ stocks' = Increased(w, Symbol, n, n)
        \/ stocks' = Pushed(w, Symbol, [amount |-> n, available |-> n])
    BY <1>4, <2>1 DEF BuyWrite
  <2>3. Unavailable(u)' = Unavailable(u)
    BY <1>2, <1>3, <2>1, <2>2, SameUnavailable
  <2>. QED
    BY <1>1, <2>3, ClaimsSame
<1>5. CASE \E w \in Users : Trade(w)
  <2>1. PICK w \in Users, n \in Lots, v \in Prices : Bought(w, n, v) \/ Sold(w, n, v)
    BY <1>5 DEF Trade
  <2>2. n \in Nat /\ n \in Int /\ -n \in Int
    BY Numbers
  <2>3. \/ Owns(w, Symbol) /\ stocks' = Increased(w, Symbol, n, n)
        \/ Owns(w, Symbol) /\ stocks' = Increased(w, Symbol, -n, -n)
        \/ stocks' = Pushed(w, Symbol, [amount |-> n, available |-> n])
    BY <2>1 DEF Bought, Sold
  <2>4. Unavailable(u)' = Unavailable(u)
    BY <1>2, <1>3, <2>2, <2>3
  <2>. QED
    BY <1>1, <2>4, ClaimsSame
<1>. QED
  BY <1>4, <1>5

(* SET_SELL_AMOUNT sets aside what is to wait for its trigger.             *)
LEMMA SellAmountSetsAside ==
    ASSUME NEW u \in Users, Typed, Typed', SetAside(u), SetSellAmountUpdate
    PROVE  SetAside(u)'
<1>0. /\ UNCHANGED auto_sell /\ pc = "set_sell_amount" /\ pc' = "idle"
      /\ pending_sell_triggers \in [Users -> AutoAmounts \cup {None}]
  BY Parts DEF SetSellAmountUpdate, End, Goto, AutosTyped
<1>1. PICK w \in Users, n \in AutoAmounts : w = cmd.user /\ n = cmd.amount
  BY <1>0, Parts DEF MainTyped
<1>2. n \in Nat /\ -n \in Int /\ 0 \in Int /\ 0 - (-n) = n
  BY Numbers
<1>3. InHand(u) = 0 /\ InHand(u)' = 0 /\ Selling(u)' = Selling(u)
  BY <1>0 DEF InHand, Selling
<1>4. CASE ~Owns(w, Symbol)
  <2>1. UNCHANGED <<stocks, pending_sell_triggers>>
    BY <1>1, <1>4 DEF SetSellAmountUpdate
  <2>. QED
    BY <1>0, <1>3, <2>1, ClaimsKept, SameUnavailable, ClaimsSame
<1>5. CASE Owns(w, Symbol)
  <2>1. /\ stocks' = Increased(w, Symbol, 0, -n)
        /\ pending_sell_triggers' = [pending_sell_triggers EXCEPT ![w] = n]
    BY <1>1, <1>5 DEF SetSellAmountUpdate
  <2>2. /\ Unavailable(w)' = Unavailable(w) + (0 - (-n))
        /\ \A x \in Users \ {w} : stocks'[x] = stocks[x]
    BY <1>2, <1>5, <2>1, HoldingIncreased
  <2>3. CASE u = w
    <3>1. Waiting(u)' = n
      BY <1>0, <2>1, <2>3, NoneIsNoAuto DEF Waiting
    <3>2. PICK m \in Nat : m = Waiting(u)
      BY SharesType
    <3>3. Claims(u)' = Claims(u) + (n - m) /\ n - m <= n /\ n - m \in Int
      BY <1>2, <1>3, <3>1, <3>2, SharesType DEF Claims
    <3>. QED
      BY <1>2, <2>2, <2>3, <3>3, ClaimsMove
  <2>4. CASE u # w
    <3>1. pending_sell_triggers'[u] = pending_sell_triggers[u]
      BY <1>0, <2>1, <2>4
    <3>. QED
      BY <1>0, <1>3, <2>2, <2>4, <3>1, ClaimsKept, SameUnavailable, ClaimsSame
  <2>. QED
    BY <2>3, <2>4
<1>. QED
  BY <1>4, <1>5

(* SET_SELL_TRIGGER and CANCEL_SET_SELL take the amount that waits in      *)
(* hand.                                                                   *)
LEMMA CommandSetsAside ==
    ASSUME NEW u \in Users, Typed, Typed', SetAside(u), NEW w \in Users, SellCommand(w)
    PROVE  SetAside(u)'
<1>0. /\ UNCHANGED <<stocks, auto_sell>> /\ pc = "idle"
      /\ pending_sell_triggers \in [Users -> AutoAmounts \cup {None}]
  BY Parts
  DEF SellCommand, SetSellAmount, SetSellTrigger, CancelSetSell, Start, db, autos, AutosTyped
<1>1. InHand(u) = 0 /\ Selling(u)' = Selling(u) /\ Unavailable(u)' = Unavailable(u)
  BY <1>0, SameUnavailable DEF InHand, Selling
<1>2. CASE \E n \in AutoAmounts : SetSellAmount(w, n)
  <2>1. pc' = "set_sell_amount" /\ UNCHANGED pending_sell_triggers
    BY <1>2 DEF SetSellAmount, Goto, autos
  <2>2. InHand(u)' = 0
    BY <2>1 DEF InHand
  <2>3. Claims(u)' <= Claims(u)
    BY <1>0, <2>1, <2>2, ClaimsKept
  <2>. QED
    BY <1>1, <2>3, ClaimsSame
<1>3. CASE ~\E n \in AutoAmounts : SetSellAmount(w, n)
  <2>1. /\ pending_sell_triggers' = [pending_sell_triggers EXCEPT ![w] = None]
        /\ cmd'.user = w
        /\ \/ pending_sell_triggers[w] # None /\ cmd'.amount = pending_sell_triggers[w]
           \/ pc' = "cancel_set_sell" /\ cmd'.auto = auto_sell[w] /\ auto_sell[w] # None
    BY <1>3 DEF SellCommand, SetSellTrigger, CancelSetSell, Goto, Command, Pulled
  <2>2. CASE u = w /\ pending_sell_triggers[w] # None /\ cmd'.amount = pending_sell_triggers[w]
    <3>1. Waiting(u)' = 0 /\ Waiting(u) = cmd'.amount
      BY <1>0, <2>1, <2>2 DEF Waiting
    <3>2. InHand(u)' = Waiting(u) \/ InHand(u)' = 0
      BY <3>1 DEF InHand
    <3>3. Claims(u)' <= Claims(u)
      BY <1>1, <3>1, <3>2, SharesType DEF Claims
    <3>. QED
      BY <1>1, <3>3, ClaimsSame
  <2>3. CASE InHand(u)' = 0
    <3>1. pending_sell_triggers'[u] \in {pending_sell_triggers[u], None}
      BY <1>0, <2>1
    <3>2. Claims(u)' <= Claims(u)
      BY <1>0, <2>3, <3>1, ClaimsKept
    <3>. QED
      BY <1>1, <3>2, ClaimsSame
  <2>4. \/ u = w /\ pending_sell_triggers[w] # None /\ cmd'.amount = pending_sell_triggers[w]
        \/ InHand(u)' = 0
    BY <2>1 DEF InHand
  <2>. QED
    BY <2>2, <2>3, <2>4
<1>. QED
  BY <1>2, <1>3

(* SET_SELL_TRIGGER makes an auto sell of what was set aside, or forgets   *)
(* it when the auto sell it has found is gone.                             *)
LEMMA SellTriggerSetsAside ==
    ASSUME NEW u \in Users, Typed, Typed', SellsRemembered, SetAside(u), SetSellTriggerUpdate
    PROVE  SetAside(u)'
<1>0. /\ UNCHANGED pending_sell_triggers /\ pc = "set_sell_trigger"
      /\ pc' \in {"idle", "register_sell"}
      /\ auto_sell \in [Users -> AutoTransaction \cup {None}]
      /\ cmd.auto \in AutoTransaction \cup {None}
  BY Parts, CmdFields DEF SetSellTriggerUpdate, End, Goto, AutosTyped, MainTyped
<1>1. PICK w \in Users, n \in Nat, r \in Nat :
          w = cmd.user /\ n = cmd.amount /\ r = cmd.trigger
  BY <1>0, Parts, CmdFields DEF MainTyped
<1>2. InHand(u)' = 0 /\ Waiting(u)' = Waiting(u)
  BY <1>0 DEF InHand, Waiting
<1>3. CASE UNCHANGED <<auto_sell, stocks>>
  BY <1>0, <1>2, <1>3, ClaimsKept, SameUnavailable, ClaimsSame
<1>4. CASE ~UNCHANGED <<auto_sell, stocks>>
  <2>1. /\ auto_sell' = [auto_sell EXCEPT ![w] = [amount |-> n, trigger |-> r]]
        /\ cmd.auto = auto_sell[w]
        /\ \/ cmd.auto = None /\ UNCHANGED stocks
           \/ /\ cmd.auto # None /\ Owns(w, Symbol)
              /\ stocks' = Increased(w, Symbol, 0, cmd.auto.amount - n)
    BY <1>0, <1>1, <1>4 DEF SetSellTriggerUpdate, SellsRemembered
  <2>2. CASE u = w
    <3>1. Selling(u)' = n
      <4>1. auto_sell'[u] = [amount |-> n, trigger |-> r]
        BY <1>0, <2>1, <2>2
      <4>2. auto_sell'[u] \in AutoTransaction /\ auto_sell'[u].amount = n
        BY <4>1, AutoType
      <4>. QED
        BY <4>2, NoneIsNoAuto DEF Selling
    <3>2. InHand(u) = n
      BY <1>0, <1>1, <2>2 DEF InHand
    <3>3. PICK m \in Nat : m = Selling(u)
      BY SharesType
    <3>4. Claims(u)' = Claims(u) + (-m) /\ -m \in Int /\ -m <= 0
      BY <1>1, <1>2, <3>1, <3>2, <3>3, SharesType DEF Claims
    <3>5. CASE UNCHANGED stocks
      <4>1. Unavailable(u)' = Unavailable(u) + 0 /\ 0 \in Int
        BY <3>5, SameUnavailable, ClaimsType
      <4>. QED
        BY <3>4, <4>1, ClaimsMove
    <3>6. CASE /\ cmd.auto # None /\ Owns(w, Symbol)
               /\ stocks' = Increased(w, Symbol, 0, cmd.auto.amount - n)
      <4>1. m = cmd.auto.amount
        BY <2>1, <2>2, <3>3, <3>6 DEF Selling
      <4>2. PICK d \in Int, z \in Int : d = m - n /\ z = 0
        BY <1>1, <3>3
      <4>3. Owns(u, Symbol) /\ stocks' = Increased(u, Symbol, z, d)
        BY <2>2, <3>6, <4>1, <4>2
      <4>4. Unavailable(u)' = Unavailable(u) + (z - d)
        BY <4>3, HoldingIncreased
      <4>5. z - d \in Int /\ -m <= z - d
        BY <1>1, <3>3, <4>2
      <4>. QED
        BY <3>4, <4>4, <4>5, ClaimsMove
    <3>. QED
      BY <2>1, <3>5, <3>6
  <2>3. CASE u # w
    <3>1. auto_sell'[u] = auto_sell[u]
      BY <1>0, <2>1, <2>3
    <3>2. stocks'[u] = stocks[u]
      <4>1. cmd.auto # None => cmd.auto.amount - n \in Int /\ 0 \in Int
        BY <1>0, <1>1, AutoType
      <4>. QED
        BY <2>1, <2>3, <4>1, HoldingIncreased
    <3>. QED
      BY <1>0, <1>2, <3>1, <3>2, ClaimsKept, SameUnavailable, ClaimsSame
  <2>. QED
    BY <2>2, <2>3
<1>. QED
  BY <1>3, <1>4

(* CANCEL_SET_SELL releases what was set aside, unless it was sold.        *)
LEMMA CancelSetsAside ==
    ASSUME NEW u \in Users, Typed, Typed', SellsRemembered, SetAside(u),
           CancelSetSellUpdate, ~CancelsSold(u)
    PROVE  SetAside(u)'
<1>0. /\ UNCHANGED pending_sell_triggers /\ pc = "cancel_set_sell"
      /\ pc' \in {"idle", "unregister_sell"}
      /\ auto_sell \in [Users -> AutoTransaction \cup {None}]
  BY Parts DEF CancelSetSellUpdate, End, Goto, AutosTyped
<1>1. PICK w \in Users, n \in Nat : w = cmd.user /\ n = cmd.amount
  BY <1>0, Parts, CmdFields DEF MainTyped
<1>2. InHand(u)' = 0 /\ Waiting(u)' = Waiting(u)
  BY <1>0 DEF InHand, Waiting
<1>3. CASE ~Owns(w, Symbol)
  <2>1. UNCHANGED <<stocks, auto_sell>>
    BY <1>1, <1>3 DEF CancelSetSellUpdate
  <2>. QED
    BY <1>0, <1>2, <2>1, ClaimsKept, SameUnavailable, ClaimsSame
<1>4. CASE Owns(w, Symbol)
  <2>1. /\ stocks' = Increased(w, Symbol, 0, n)
        /\ auto_sell' = IF cmd.auto = None THEN auto_sell ELSE Pulled(auto_sell, w)
    BY <1>1, <1>4 DEF CancelSetSellUpdate
  <2>2. /\ Unavailable(w)' = Unavailable(w) + (0 - n)
        /\ \A x \in Users \ {w} : stocks'[x] = stocks[x]
    <3>1. n \in Int /\ 0 \in Int
      BY <1>1
    <3>. QED
      BY <1>4, <2>1, <3>1, HoldingIncreased
  <2>3. CASE u = w
    <3>1. Claims(u)' = Claims(u) + (-n)
      <4>1. CASE cmd.auto = None
        <5>1. InHand(u) = n /\ Selling(u)' = Selling(u)
          BY <1>0, <1>1, <2>1, <2>3, <4>1 DEF InHand, Selling
        <5>. QED
          BY <1>1, <1>2, <5>1, SharesType DEF Claims
      <4>2. CASE cmd.auto # None
        <5>1. auto_sell[u] = cmd.auto /\ n = cmd.auto.amount
          BY <1>0, <1>1, <2>3, <4>2 DEF CancelsSold, SellsRemembered
        <5>2. InHand(u) = 0 /\ Selling(u)' = 0 /\ Selling(u) = n
          BY <1>0, <2>1, <2>3, <4>2, <5>1 DEF InHand, Selling, Pulled
        <5>. QED
          BY <1>1, <1>2, <5>2, SharesType DEF Claims
      <4>. QED
        BY <4>1, <4>2
    <3>2. -n \in Int /\ -n <= 0 - n /\ 0 - n \in Int
      BY <1>1
    <3>. QED
      BY <2>2, <2>3, <3>1, <3>2, ClaimsMove
  <2>4. CASE u # w
    <3>1. auto_sell'[u] = auto_sell[u]
      BY <1>0, <2>1, <2>4 DEF Pulled
    <3>. QED
      BY <1>0, <1>2, <2>2, <2>4, <3>1, ClaimsKept, SameUnavailable, ClaimsSame
  <2>. QED
    BY <2>3, <2>4
<1>. QED
  BY <1>3, <1>4

(* A sale takes what was set aside for it, unless that has changed.        *)
LEMMA SaleSetsAside ==
    ASSUME NEW u \in Users, Typed, Typed', SetAside(u), SellWrite, ~SellsChanged(u)
    PROVE  SetAside(u)'
<1>0. /\ UNCHANGED <<pending_sell_triggers, main>> /\ poll = "sell_write"
      /\ auto_sell \in [Users -> AutoTransaction \cup {None}]
      /\ seen.auto \in AutoTransaction
  BY Parts DEF SellWrite, AutosTyped, PollTyped
<1>1. PICK w \in Users, n \in Nat : w = seen.user /\ n = seen.auto.amount
  BY <1>0, Parts, AutoType DEF PollTyped
<1>2. Waiting(u)' = Waiting(u) /\ InHand(u)' = InHand(u)
  BY <1>0 DEF Waiting, InHand, main
<1>3. \/ UNCHANGED <<stocks, auto_sell>>
      \/ /\ auto_sell' = Pulled(auto_sell, w)
         /\ \/ SellsAll /\ stocks' = [stocks EXCEPT ![w][Symbol] = << >>]
            \/ Owns(w, Symbol) /\ stocks' = Increased(w, Symbol, -n, 0)
  BY <1>1 DEF SellWrite
<1>4. CASE UNCHANGED <<stocks, auto_sell>>
  BY <1>0, <1>2, <1>4, ClaimsKept, SameUnavailable, ClaimsSame
<1>5. CASE ~UNCHANGED <<stocks, auto_sell>> /\ u # w
  <2>1. auto_sell'[u] = auto_sell[u]
    BY <1>0, <1>3, <1>5 DEF Pulled
  <2>2. stocks'[u] = stocks[u]
    <3>1. -n \in Int /\ 0 \in Int
      BY <1>1
    <3>. QED
      BY <1>3, <1>5, <3>1, HoldingIncreased, HoldingPulled
  <2>. QED
    BY <1>0, <1>2, <2>1, <2>2, ClaimsKept, SameUnavailable, ClaimsSame
<1>6. CASE ~UNCHANGED <<stocks, auto_sell>> /\ u = w
  <2>1. Selling(u)' = 0 /\ Selling(u) = n
    <3>1. auto_sell[u] = seen.auto /\ auto_sell'[u] = None
      BY <1>0, <1>1, <1>3, <1>6 DEF SellsChanged, Pulled
    <3>. QED
      BY <1>0, <1>1, <3>1, NoneIsNoAuto DEF Selling
  <2>2. Claims(u)' = Claims(u) + (-n) /\ Claims(u) = Waiting(u) + n + InHand(u)
    BY <1>1, <1>2, <2>1, SharesType, ClaimsType DEF Claims
  <2>3. CASE SellsAll /\ stocks' = [stocks EXCEPT ![w][Symbol] = << >>]
    <3>1. Unavailable(u)' = 0
      BY <1>6, <2>3, HoldingPulled
    <3>2. Waiting(u) + InHand(u) = 0
      BY <1>1, <1>6, <2>3 DEF SellsChanged
    <3>3. Claims(u)' <= 0
      BY <1>1, <2>2, <3>2, SharesType, ClaimsType
    <3>. QED
      BY <3>1, <3>3 DEF SetAside
  <2>4. CASE Owns(w, Symbol) /\ stocks' = Increased(w, Symbol, -n, 0)
    <3>1. -n \in Int /\ 0 \in Int /\ (-n) - 0 \in Int /\ -n <= (-n) - 0
      BY <1>1
    <3>2. Unavailable(u)' = Unavailable(u) + ((-n) - 0)
      BY <1>6, <2>4, <3>1, HoldingIncreased
    <3>. QED
      BY <2>2, <3>1, <3>2, ClaimsMove
  <2>. QED
    BY <1>3, <1>6, <2>3, <2>4
<1>. QED
  BY <1>4, <1>5, <1>6

(***************************************************************************)
(* A command about sales remembers what it has read: the polling thread    *)
(* may have pulled the auto sell, but no other thread has put another in   *)
(* its place.                                                              *)
(***************************************************************************)
LEMMA RememberedStep ==
    ASSUME Typed, SellsRemembered, [Next]_vars
    PROVE  SellsRemembered'
<1>0. auto_sell \in [Users -> AutoTransaction \cup {None}] /\ (pc # "idle" => cmd.user \in Users)
  BY Parts DEF AutosTyped, MainTyped
<1>1. CASE \E u \in Users : BuyCommand(u) \/ SellCommand(u)
  BY <1>1
  DEF BuyCommand, SellCommand, SetBuyAmount, SetBuyTrigger, CancelSetBuy, SetSellAmount,
      SetSellTrigger, CancelSetSell, Goto, Command, SellsRemembered, autos
<1>2. CASE UNCHANGED main
  <2>. SUFFICES ASSUME pc = "set_sell_trigger"
                PROVE  auto_sell'[cmd.user] \in {None, cmd.auto}
    BY <1>2 DEF SellsRemembered, main
  <2>1. auto_sell[cmd.user] \in {None, cmd.auto} /\ cmd.user \in Users
    BY <1>0 DEF SellsRemembered
  <2>2. ~SetSellTriggerUpdate /\ ~CancelSetSellUpdate
    BY <1>2 DEF SetSellTriggerUpdate, CancelSetSellUpdate, End, Goto, main
  <2>3. CASE SellWrite
    <3>1. auto_sell' = auto_sell \/ auto_sell' = [auto_sell EXCEPT ![seen.user] = None]
      BY <2>3 DEF SellWrite, Pulled
    <3>. QED
      BY <1>0, <2>1, <3>1
  <2>. QED
    BY <2>1, <2>2, <2>3, SellsChange
<1>3. CASE pc' \notin {"set_sell_trigger", "cancel_set_sell"}
  BY <1>3 DEF SellsRemembered
<1>. QED
  BY <1>1, <1>2, <1>3, MainMoves

LEMMA RememberedInit == Init => SellsRemembered
BY DEF Init, SellsRemembered

(* Every step but the two leaves set aside what is.                        *)
LEMMA SetAsideStep ==
    ASSUME Typed, Typed', SellsRemembered, [Next]_vars, NEW u \in Users, SetAside(u),
           ~CancelsSold(u), ~SellsChanged(u)
    PROVE  SetAside(u)'
<1>1. CASE \E w \in Users : SellCommand(w)
  BY <1>1, CommandSetsAside
<1>2. CASE \E w \in Users : Trade(w)
  BY <1>2, TradesSetAside
<1>3. CASE SetSellAmountUpdate \/ SetSellTriggerUpdate \/ CancelSetSellUpdate
  BY <1>3, SellAmountSetsAside, SellTriggerSetsAside, CancelSetsAside
<1>4. CASE BuyWrite \/ SellWrite
  BY <1>4, TradesSetAside, SaleSetsAside
<1>5. CASE Restart
  <2>1. /\ UNCHANGED <<stocks, auto_sell>> /\ pc' = "idle"
        /\ pending_sell_triggers'[u] = None
    BY <1>5 DEF Restart, End, Goto, db
  <2>2. InHand(u)' = 0
    BY <2>1 DEF InHand
  <2>. QED
    BY <2>1, <2>2, ClaimsKept, SameUnavailable, ClaimsSame
<1>6. CASE /\ UNCHANGED <<stocks, auto_sell, pending_sell_triggers>>
           /\ ~\E w \in Users : SellCommand(w)
  <2>1. \/ UNCHANGED main
        \/ pc' \in {"idle", "register_buy", "unregister_buy", "register_sell", "unregister_sell"}
        \/ \E w \in Users : BuyCommand(w)
    BY <1>6, MainMoves
  <2>2. (\E w \in Users : BuyCommand(w)) =>
           pc' \in {"set_buy_amount", "set_buy_trigger", "cancel_set_buy"}
    BY DEF BuyCommand, SetBuyAmount, SetBuyTrigger, CancelSetBuy, Goto
  <2>3. InHand(u)' \in {InHand(u), 0}
    <3>1. CASE UNCHANGED main
      BY <3>1 DEF InHand, main
    <3>2. CASE pc' \notin {"set_sell_trigger", "cancel_set_sell"}
      BY <3>2 DEF InHand
    <3>. QED
      BY <2>1, <2>2, <3>1, <3>2
  <2>. QED
    BY <1>6, <2>3, ClaimsKept, SameUnavailable, ClaimsSame
<1>. QED
  BY <1>1, <1>2, <1>3, <1>4, <1>5, <1>6, StocksChange, SellsChange, WaitingChanges

(***************************************************************************)
(* What is set aside for a sale stays set aside, for any users, amounts,   *)
(* triggers and prices, whichever commands overlap with a pass of the      *)
(* polling thread, through exceptions and restarts: the only steps that    *)
(* take any of it are the two updates that no longer match what their      *)
(* thread has read (cmd_handler.py:840 and quote_polling.py:250).          *)
(***************************************************************************)
THEOREM SharesStaySetAside == Spec => SetAsideStays
<1>1. ASSUME Typed, SellsRemembered, [Next]_vars
      PROVE  [\A u \in Users : SetAside(u) =>
                 SetAside(u)' \/ CancelsSold(u) \/ SellsChanged(u)]_vars
  <2>1. Typed'
    BY <1>1, TypedStep
  <2>. QED
    BY <1>1, <2>1, SetAsideStep
<1>2. Typed /\ SellsRemembered /\ [Next]_vars => SellsRemembered'
  BY RememberedStep
<1>. QED
  BY <1>1, <1>2, RememberedInit, TypedHolds, PTL DEF Spec, SetAsideStays

-----------------------------------------------------------------------------
(***************************************************************************)
(* The shares a user owns, whichever elements of the array they are in.    *)
(***************************************************************************)

(* Rules of arithmetic.                                                    *)
LEMMA Products ==
    /\ \A a, b, c \in Int : (a + b) * c = a * c + b * c
    /\ \A a, c \in Int : (-a) * c = -(a * c) /\ a * c \in Int
    /\ \A c \in Int : 0 * c = 0
OBVIOUS

(* The shares of an array, element by element, and all together.           *)
Listed(q) == [i \in DOMAIN q |-> q[i].amount]

LEMMA ListedType ==
    ASSUME NEW q \in Seq(Holding)
    PROVE  /\ Listed(q) \in [1..Len(q) -> Int] /\ IsFiniteSet(1..Len(q))
           /\ SumFunction(Listed(q)) \in Int
<1>1. Len(q) \in Nat /\ DOMAIN q = 1..Len(q) /\ \A i \in DOMAIN q : q[i] \in Holding
  OBVIOUS
<1>2. IsFiniteSet(1..Len(q))
  BY <1>1, FS_Interval
<1>3. Listed(q) \in [1..Len(q) -> Int]
  BY <1>1 DEF Listed, Holding
<1>. QED
  BY <1>2, <1>3, SumType

LEMMA OwnedType ==
    ASSUME Typed, NEW u \in Users
    PROVE  /\ SharesOwned(u) = SumFunction(Listed(stocks[u][Symbol]))
           /\ SharesOwned(u) \in Int
<1>1. stocks[u][Symbol] \in Seq(Holding)
  BY Parts, FirstType
<1>2. SharesOwned(u) = SumFunction(Listed(stocks[u][Symbol]))
  BY DEF SharesOwned, Listed
<1>. QED
  BY <1>1, <1>2, ListedType

(* An update of the first element changes the sum by as much.              *)
LEMMA OwnedIncreased ==
    ASSUME Typed, NEW w \in Users, Owns(w, Symbol), NEW da \in Int, NEW dv \in Int,
           stocks' = Increased(w, Symbol, da, dv)
    PROVE  /\ SharesOwned(w)' = SharesOwned(w) + da
           /\ \A u \in Users \ {w} : stocks'[u] = stocks[u]
<1>. DEFINE q == stocks[w][Symbol]
            h == [amount |-> q[1].amount + da, available |-> q[1].available + dv]
            r == [q EXCEPT ![1] = h]
<1>1. /\ q \in Seq(Holding) /\ Len(q) \in Nat /\ q # << >> /\ DOMAIN q = 1..Len(q)
      /\ stocks \in [Users -> [Stocks -> Seq(Holding)]]
  BY SymbolIsStock, Parts DEF DbTypeOK, Owns
<1>2. q[1] \in Holding /\ 1 \in 1..Len(q)
  BY <1>1
<1>3. h \in Holding /\ h.amount = q[1].amount + da
  BY <1>2 DEF Holding
<1>4. r \in Seq(Holding) /\ Len(r) = Len(q) /\ DOMAIN r = DOMAIN q
      /\ r[1] = h /\ \A i \in DOMAIN q \ {1} : r[i] = q[i]
  BY <1>1, <1>2, <1>3
<1>5. stocks' = [stocks EXCEPT ![w] = [stocks[w] EXCEPT ![Symbol] = r]]
  BY DEF Increased
<1>6. stocks'[w][Symbol] = r
  BY <1>1, <1>5, SymbolIsStock, ZenonT(40)
<1>7. \A u \in Users \ {w} : stocks'[u] = stocks[u]
  BY <1>1, <1>5
<1>8. SharesOwned(w)' = SumFunction(Listed(r))
  BY <1>6 DEF SharesOwned, Listed
<1>9. SumFunction(Listed(r)) = SumFunction(Listed(q)) + Listed(r)[1] - Listed(q)[1]
  <2>1. Listed(q) \in [1..Len(q) -> Int] /\ Listed(r) \in [1..Len(q) -> Int]
        /\ IsFiniteSet(1..Len(q))
    BY <1>1, <1>4, ListedType
  <2>2. \A i \in (1..Len(q)) \ {1} : Listed(r)[i] = Listed(q)[i]
    BY <1>1, <1>4 DEF Listed
  <2>. HIDE DEF q, r
  <2>. QED
    BY <1>2, <2>1, <2>2, SumChanges
<1>10. Listed(r)[1] = q[1].amount + da /\ Listed(q)[1] = q[1].amount /\ q[1].amount \in Int
  BY <1>1, <1>2, <1>3, <1>4 DEF Listed, Holding
<1>11. SharesOwned(w) = SumFunction(Listed(q)) /\ SharesOwned(w) \in Int
  BY OwnedType
<1>. HIDE DEF q, r
<1>. QED
  BY <1>7, <1>8, <1>9, <1>10, <1>11

(* A push adds its shares, whether the user has the stock already or not.  *)
LEMMA OwnedPushed ==
    ASSUME Typed, NEW w \in Users, NEW n \in Nat,
           stocks' = Pushed(w, Symbol, [amount |-> n, available |-> n])
    PROVE  /\ SharesOwned(w)' = SharesOwned(w) + n
           /\ \A u \in Users \ {w} : stocks'[u] = stocks[u]
<1>. DEFINE q == stocks[w][Symbol]
            h == [amount |-> n, available |-> n]
            r == Append(q, h)
<1>1. /\ q \in Seq(Holding) /\ Len(q) \in Nat /\ DOMAIN q = 1..Len(q)
      /\ stocks \in [Users -> [Stocks -> Seq(Holding)]]
      /\ h \in Holding /\ h.amount = n
  BY SymbolIsStock, Parts DEF DbTypeOK, Holding
<1>2. /\ r \in Seq(Holding) /\ Len(r) = Len(q) + 1 /\ DOMAIN r = 1..Len(r)
      /\ \A i \in 1..Len(q) : r[i] = q[i]
      /\ r[Len(q) + 1] = h
  BY <1>1
<1>3. stocks' = [stocks EXCEPT ![w] = [stocks[w] EXCEPT ![Symbol] = r]]
  BY DEF Pushed
<1>4. stocks'[w][Symbol] = r
  BY <1>1, <1>3, SymbolIsStock
<1>5. \A u \in Users \ {w} : stocks'[u] = stocks[u]
  BY <1>1, <1>3
<1>6. SharesOwned(w)' = SumFunction(Listed(r))
  BY <1>4 DEF SharesOwned, Listed
<1>7. SumFunction(Listed(r)) = SumFunction(Listed(q)) + Listed(r)[Len(q) + 1]
  <2>1. Listed(q) \in [1..Len(q) -> Int] /\ Listed(r) \in [1..Len(r) -> Int]
        /\ IsFiniteSet(1..Len(q))
    BY <1>1, <1>2, ListedType
  <2>2. 1..Len(r) = (1..Len(q)) \cup {Len(q) + 1} /\ Len(q) + 1 \notin 1..Len(q)
    BY <1>1, <1>2
  <2>3. \A i \in 1..Len(q) : Listed(r)[i] = Listed(q)[i]
    <3>1. \A i \in 1..Len(q) : i \in DOMAIN r /\ i \in DOMAIN q
      BY <1>1, <1>2, <2>2
    <3>. QED
      BY <1>2, <3>1 DEF Listed
  <2>4. Listed(r) \in [(1..Len(q)) \cup {Len(q) + 1} -> Int]
    BY <2>1, <2>2
  <2>. DEFINE D == 1..Len(q)
              x == Len(q) + 1
              f == Listed(q)
              g == Listed(r)
  <2>5. f \in [D -> Int] /\ \A i \in D : g[i] = f[i]
    BY <2>1, <2>3
  <2>6. IsFiniteSet(D) /\ x \notin D
    BY <2>1, <2>2
  <2>7. g \in [D \cup {x} -> Int]
    BY <2>4
  <2>. HIDE DEF D, x, f, g
  <2>8. SumFunction(g) = SumFunction(f) + g[x]
    BY <2>5, <2>6, <2>7, SumAdds, SMTT(60)
  <2>. QED
    BY <2>8 DEF x, f, g
<1>8. Listed(r)[Len(q) + 1] = n
  BY <1>1, <1>2 DEF Listed
<1>9. SharesOwned(w) = SumFunction(Listed(q))
  BY OwnedType
<1>. HIDE DEF q, r
<1>. QED
  BY <1>5, <1>6, <1>7, <1>8, <1>9

(* A pull leaves none.                                                     *)
LEMMA OwnedPulled ==
    ASSUME Typed, NEW w \in Users, stocks' = [stocks EXCEPT ![w][Symbol] = << >>]
    PROVE  /\ SharesOwned(w)' = 0
           /\ \A u \in Users \ {w} : stocks'[u] = stocks[u]
<1>1. /\ stocks'[w][Symbol] = << >>
      /\ \A u \in Users \ {w} : stocks'[u] = stocks[u]
  BY Parts, PulledStock
<1>2. Listed(<< >>) \in [{} -> Int]
  BY DEF Listed
<1>3. SharesOwned(w)' = SumFunction(Listed(<< >>))
  BY <1>1 DEF SharesOwned, Listed
<1>. QED
  BY <1>1, <1>2, <1>3, SumOfNothing

LEMMA OwnedSame ==
    ASSUME NEW u \in Users, stocks'[u] = stocks[u]
    PROVE  SharesOwned(u)' = SharesOwned(u)
BY DEF SharesOwned

-----------------------------------------------------------------------------
(***************************************************************************)
(* The price of a pass is the price in the cache.                          *)
(***************************************************************************)
PassPrice == poll \notin {"wait", "dead"} => quote_cache[Symbol] = seen.value

(* A price that is in the cache stays.                                     *)
LEMMA CacheKeeps ==
    ASSUME Typed, [Next]_vars
    PROVE  \/ UNCHANGED quote_cache
           \/ \E v \in QuoteOf(Symbol) : CacheQuote(Symbol, v)
<1>1. ASSUME NEW u \in Users, BuyCommand(u) \/ SellCommand(u) PROVE UNCHANGED quote_cache
  BY <1>1
  DEF BuyCommand, SellCommand, SetBuyAmount, SetBuyTrigger, CancelSetBuy, SetSellAmount,
      SetSellTrigger, CancelSetSell, db
<1>2. ASSUME NEW u \in Users, Trade(u) PROVE \E v \in QuoteOf(Symbol) : CacheQuote(Symbol, v)
  BY <1>2 DEF Trade, Bought, Sold
<1>3. MainStep => UNCHANGED quote_cache
  BY DEF MainStep, SetBuyAmountUpdate, SetBuyTriggerUpdate, RegisterBuy, CancelSetBuyUpdate,
         UnregisterBuy, SetSellAmountUpdate, SetSellTriggerUpdate, RegisterSell,
         CancelSetSellUpdate, UnregisterSell, db
<1>4. PollStep => UNCHANGED quote_cache \/ \E v \in QuoteOf(Symbol) : CacheQuote(Symbol, v)
  BY DEF PollStep, Poll, QueryBuys, NextBuyer, BuyRead, BuyWrite, QuerySells, NextSeller,
         SellRead, SellWrite, Sleep, db
<1>5. MainRaises \/ PollerRaises \/ Restart \/ UNCHANGED vars => UNCHANGED quote_cache
  BY DEF MainRaises, PollerRaises, Restart, db, vars
<1>. QED
  BY <1>1, <1>2, <1>3, <1>4, <1>5 DEF Next

(* What CacheQuote leaves in the cache.                                    *)
LEMMA Cached ==
    ASSUME Typed, NEW v \in QuoteOf(Symbol), CacheQuote(Symbol, v)
    PROVE  /\ quote_cache'[Symbol] = v /\ v \in Prices /\ v # None
           /\ quote_cache[Symbol] # None => quote_cache[Symbol] = v
           /\ QuoteOf(Symbol)' = {v}
<1>1. quote_cache \in [Stocks -> Prices \cup {None}]
  BY Parts DEF DbTypeOK
<1>2. v \in Prices /\ v # None
  BY <1>1, SymbolIsStock, NoneIsNoPrice DEF QuoteOf
<1>3. quote_cache'[Symbol] = v
  BY <1>1, SymbolIsStock DEF CacheQuote
<1>. QED
  BY <1>2, <1>3 DEF QuoteOf

(* The polling thread goes on with the price that it has cached.           *)
LEMMA PassPriceStep ==
    ASSUME Typed, PassPrice, [Next]_vars
    PROVE  PassPrice'
<1>. SUFFICES ASSUME poll' \notin {"wait", "dead"} PROVE quote_cache'[Symbol] = seen'.value
  BY DEF PassPrice
<1>1. CASE \E v \in Prices : Poll(v)
  <2>1. PICK v \in Prices : Poll(v)
    BY <1>1
  <2>2. quote_cache'[Symbol] = v
    BY <2>1, Cached DEF Poll
  <2>3. seen'.value = v
    BY <2>1 DEF Poll, NotSeen
  <2>. QED
    BY <2>2, <2>3
<1>2. CASE ~\E v \in Prices : Poll(v)
  <2>1. poll \notin {"wait", "dead"}
    BY <1>2, PassBegins
  <2>2. quote_cache[Symbol] = seen.value /\ seen.value \in Prices
    BY <2>1, Parts DEF PassPrice, PollTyped
  <2>3. quote_cache'[Symbol] = quote_cache[Symbol]
    <3>1. quote_cache[Symbol] # None
      BY <2>2, NoneIsNoPrice
    <3>. QED
      BY <3>1, CacheKeeps, Cached
  <2>4. seen'.value = seen.value
    <3>1. seen \in Seen
      BY Parts DEF PollTyped
    <3>2. UNCHANGED poller \/ PollStep
      BY <2>1, PollMoves
    <3>3. ASSUME NEW u \in Users, NextBuyer(u) \/ NextSeller(u) PROVE seen'.value = seen.value
      BY <3>1, <3>3 DEF NextBuyer, NextSeller, Seen
    <3>4. QueryBuys \/ BuyRead \/ BuyWrite => seen'.value = seen.value
      <4>. SUFFICES ASSUME QueryBuys \/ BuyRead \/ BuyWrite PROVE seen'.value = seen.value
        OBVIOUS
      <4>1. ASSUME NEW a, NEW f, seen' = [seen EXCEPT !.auto = a, !.found = f]
            PROVE  seen'.value = seen.value
        BY <3>1, <4>1 DEF Seen
      <4>2. ASSUME NEW l, NEW d, seen' = [seen EXCEPT !.listed = l, !.todo = d]
            PROVE  seen'.value = seen.value
        BY <3>1, <4>2 DEF Seen
      <4>. QED
        BY <4>1, <4>2 DEF QueryBuys, BuyRead, BuyWrite
    <3>5. QuerySells \/ SellRead \/ SellWrite => seen'.value = seen.value
      <4>. SUFFICES ASSUME QuerySells \/ SellRead \/ SellWrite PROVE seen'.value = seen.value
        OBVIOUS
      <4>1. ASSUME NEW a, NEW h, seen' = [seen EXCEPT !.auto = a, !.found = TRUE, !.held = h]
            PROVE  seen'.value = seen.value
        BY <3>1, <4>1 DEF Seen
      <4>2. ASSUME NEW d, seen' = [seen EXCEPT !.todo = d]
            PROVE  seen'.value = seen.value
        BY <3>1, <4>2 DEF Seen
      <4>. QED
        BY <4>1, <4>2 DEF QuerySells, SellRead, SellWrite
    <3>6. ~Sleep
      BY DEF Sleep
    <3>. QED
      BY <1>2, <3>2, <3>3, <3>4, <3>5, <3>6 DEF PollStep, poller
  <2>. QED
    BY <2>2, <2>3, <2>4
<1>. QED
  BY <1>1, <1>2

(***************************************************************************)
(* Who trades n shares pays for them at the price in the cache.            *)
(***************************************************************************)
Paid(u, n) ==
    /\ SharesOwned(u)' = SharesOwned(u) + n
    /\ quote_cache'[Symbol] # None => account'[u] = account[u] - n * quote_cache'[Symbol]

LEMMA CacheType ==
    ASSUME Typed, [Next]_vars, quote_cache'[Symbol] # None
    PROVE  quote_cache'[Symbol] \in Int
<1>1. CASE UNCHANGED quote_cache
  BY <1>1, Parts, SymbolIsStock, Numbers DEF DbTypeOK
<1>2. CASE \E v \in QuoteOf(Symbol) : CacheQuote(Symbol, v)
  BY <1>2, Cached, Numbers
<1>. QED
  BY <1>1, <1>2, CacheKeeps

LEMMA PaidIsPaidFor ==
    ASSUME Typed, [Next]_vars, NEW u \in Users, NEW n \in Int, Paid(u, n)
    PROVE  PaidFor(u)
<1>. SUFFICES ASSUME quote_cache'[Symbol] # None
              PROVE  account'[u] - account[u]
                        = (SharesOwned(u) - SharesOwned(u)') * quote_cache'[Symbol]
  BY DEF PaidFor
<1>1. PICK v \in Int : v = quote_cache'[Symbol]
  BY CacheType
<1>2. SharesOwned(u) \in Int /\ account[u] \in Int
  BY OwnedType, Parts DEF DbTypeOK
<1>3. account'[u] = account[u] - n * v /\ SharesOwned(u) - SharesOwned(u)' = -n
  BY <1>1, <1>2 DEF Paid
<1>4. (-n) * v = -(n * v) /\ n * v \in Int
  BY <1>1, Products
<1>. QED
  BY <1>1, <1>2, <1>3, <1>4

LEMMA PaidNothing ==
    ASSUME Typed, [Next]_vars, NEW u \in Users, SharesOwned(u)' = SharesOwned(u),
           account'[u] = account[u]
    PROVE  Paid(u, 0)
<1>1. SharesOwned(u) = SharesOwned(u) + 0 /\ account[u] \in Int
  BY OwnedType, Parts DEF DbTypeOK
<1>2. quote_cache'[Symbol] # None => account[u] = account[u] - 0 * quote_cache'[Symbol]
  <2>. SUFFICES ASSUME quote_cache'[Symbol] # None
                PROVE  account[u] = account[u] - 0 * quote_cache'[Symbol]
    OBVIOUS
  <2>1. 0 * quote_cache'[Symbol] = 0
    BY CacheType, Products
  <2>. QED
    BY <1>1, <2>1
<1>. QED
  BY <1>1, <1>2 DEF Paid

(* A user who trades pays, the others do not.                              *)
LEMMA OnePays ==
    ASSUME Typed, [Next]_vars, NEW w \in Users, NEW n \in Int, NEW v \in Int, NEW m \in Int,
           quote_cache'[Symbol] = v, m = n * v,
           SharesOwned(w)' = SharesOwned(w) + n,
           \A x \in Users \ {w} : stocks'[x] = stocks[x],
           account' = [account EXCEPT ![w] = @ - m], NEW u \in Users
    PROVE  PaidFor(u)
<1>0. account \in [Users -> Int]
  BY Parts DEF DbTypeOK
<1>1. CASE u = w
  <2>1. account'[u] = account[u] - n * v
    BY <1>0, <1>1
  <2>2. Paid(u, n)
    BY <1>1, <2>1 DEF Paid
  <2>. QED
    BY <2>2, PaidIsPaidFor
<1>2. CASE u # w
  <2>1. account'[u] = account[u] /\ SharesOwned(u)' = SharesOwned(u) /\ 0 \in Int
    BY <1>0, <1>2, OwnedSame
  <2>2. Paid(u, 0)
    BY <2>1, PaidNothing
  <2>. QED
    BY <2>1, <2>2, PaidIsPaidFor
<1>. QED
  BY <1>1, <1>2

(* A trade is paid for.                                                    *)
LEMMA TradePaid ==
    ASSUME Typed, [Next]_vars, NEW w \in Users, Trade(w), NEW u \in Users
    PROVE  PaidFor(u)
<1>0. account \in [Users -> Int]
  BY Parts DEF DbTypeOK
<1>1. PICK n \in Lots, v \in Prices : Bought(w, n, v) \/ Sold(w, n, v)
  BY DEF Trade
<1>2. /\ n \in Nat /\ n \in Int /\ -n \in Int /\ v \in Int /\ (-n) * v = -(n * v)
      /\ n * v \in Int /\ -(n * v) \in Int
  BY Numbers, Products
<1>3. quote_cache'[Symbol] = v
  BY <1>1, Cached DEF Bought, Sold
<1>4. CASE Bought(w, n, v)
  <2>1. /\ SharesOwned(w)' = SharesOwned(w) + n
        /\ \A x \in Users \ {w} : stocks'[x] = stocks[x]
    BY <1>2, <1>4, OwnedIncreased, OwnedPushed DEF Bought
  <2>2. account' = [account EXCEPT ![w] = @ - n * v]
    BY <1>4 DEF Bought
  <2>. QED
    BY <1>2, <1>3, <2>1, <2>2, OnePays
<1>5. CASE Sold(w, n, v)
  <2>1. /\ SharesOwned(w)' = SharesOwned(w) + (-n)
        /\ \A x \in Users \ {w} : stocks'[x] = stocks[x]
    BY <1>2, <1>5, OwnedIncreased DEF Sold
  <2>2. account' = [account EXCEPT ![w] = @ - (-(n * v))]
    <3>1. account' = [account EXCEPT ![w] = @ + n * v]
      BY <1>5 DEF Sold
    <3>2. account[w] + n * v = account[w] - (-(n * v))
      BY <1>0, <1>2
    <3>. QED
      BY <3>1, <3>2
  <2>. QED
    BY <1>2, <1>3, <2>1, <2>2, OnePays
<1>. QED
  BY <1>1, <1>4, <1>5

(***************************************************************************)
(* So is what the polling thread buys and sells, but for a sale of the     *)
(* whole stock when there is not what was read.                            *)
(***************************************************************************)
LEMMA PollPaid ==
    ASSUME Typed, [Next]_vars, PassPrice, BuyWrite \/ SellWrite, NEW u \in Users
    PROVE  PaidFor(u) \/ PullsOthers(u)
<1>0. account \in [Users -> Int] /\ poll \in {"buy_write", "sell_write"}
  BY Parts DEF DbTypeOK, BuyWrite, SellWrite
<1>1. PICK w \in Users, n \in Nat, v \in Prices :
         w = seen.user /\ n = seen.auto.amount /\ v = seen.value /\ quote_cache[Symbol] = v
  BY <1>0, Parts, AutoType DEF PollTyped, PassPrice
<1>2. /\ n \in Int /\ -n \in Int /\ v \in Int /\ (-n) * v = -(n * v) /\ n * v \in Int
      /\ -(n * v) \in Int /\ 0 \in Int
  BY <1>1, Numbers, Products
<1>3. quote_cache'[Symbol] = v
  BY <1>1 DEF BuyWrite, SellWrite
<1>4. CASE UNCHANGED <<account, stocks>>
  <2>1. Paid(u, 0)
    BY <1>4, OwnedSame, PaidNothing
  <2>. QED
    BY <1>2, <2>1, PaidIsPaidFor
<1>5. CASE BuyWrite /\ ~UNCHANGED <<account, stocks>>
  <2>1. /\ account' = [account EXCEPT ![w] = @ - n * v]
        /\ \/ Owns(w, Symbol) /\ stocks' = Increased(w, Symbol, n, n)
           \/ stocks' = Pushed(w, Symbol, [amount |-> n, available |-> n])
    BY <1>1, <1>5 DEF BuyWrite
  <2>2. /\ SharesOwned(w)' = SharesOwned(w) + n
        /\ \A x \in Users \ {w} : stocks'[x] = stocks[x]
    BY <1>2, <2>1, OwnedIncreased, OwnedPushed
  <2>. QED
    BY <1>2, <1>3, <2>1, <2>2, OnePays
<1>6. CASE SellWrite /\ ~UNCHANGED <<account, stocks>>
  <2>1. /\ account' = [account EXCEPT ![w] = @ + n * v]
        /\ \/ SellsAll /\ stocks' = [stocks EXCEPT ![w][Symbol] = << >>]
           \/ Owns(w, Symbol) /\ stocks' = Increased(w, Symbol, -n, 0)
    BY <1>1, <1>6 DEF SellWrite
  <2>2. account' = [account EXCEPT ![w] = @ - (-(n * v))]
    <3>1. account[w] + n * v = account[w] - (-(n * v))
      BY <1>0, <1>2
    <3>. QED
      BY <2>1, <3>1
  <2>3. \A x \in Users \ {w} : stocks'[x] = stocks[x]
    BY <1>2, <2>1, OwnedIncreased, OwnedPulled
  <2>4. CASE SharesOwned(w)' = SharesOwned(w) + (-n)
    BY <1>2, <1>3, <2>2, <2>3, <2>4, OnePays
  <2>5. CASE SharesOwned(w)' # SharesOwned(w) + (-n)
    <3>1. SellsAll /\ stocks' = [stocks EXCEPT ![w][Symbol] = << >>]
      BY <1>2, <2>1, <2>5, OwnedIncreased
    <3>2. SharesOwned(w)' = 0 /\ SharesOwned(w) \in Int
      BY <3>1, OwnedPulled, OwnedType
    <3>3. SharesOwned(w) # n
      BY <1>2, <2>5, <3>2
    <3>4. SharesOwned(w) # seen.held
      BY <1>1, <3>1, <3>3 DEF SellsAll
    <3>5. CASE u = w
      BY <1>1, <1>6, <3>4, <3>5 DEF PullsOthers
    <3>6. CASE u # w
      <4>1. account'[u] = account[u] /\ SharesOwned(u)' = SharesOwned(u)
        BY <1>0, <2>1, <2>3, <3>6, OwnedSame
      <4>2. Paid(u, 0)
        BY <4>1, PaidNothing
      <4>. QED
        BY <1>2, <4>2, PaidIsPaidFor
    <3>. QED
      BY <3>5, <3>6
  <2>. QED
    BY <2>4, <2>5
<1>. QED
  BY <1>4, <1>5, <1>6

(* The commands about sales set shares aside: nobody gains or loses any.   *)
LEMMA AsideUnpaid ==
    ASSUME Typed, SetSellAmountUpdate \/ SetSellTriggerUpdate \/ CancelSetSellUpdate,
           NEW u \in Users
    PROVE  SharesOwned(u)' = SharesOwned(u) /\ account'[u] = account[u]
<1>1. PICK w \in Users, n \in Int : w = cmd.user /\ n = cmd.amount
  BY Parts, CmdFields
  DEF SetSellAmountUpdate, SetSellTriggerUpdate, CancelSetSellUpdate, MainTyped
<1>2. \/ UNCHANGED stocks
      \/ Owns(w, Symbol) /\ \E d \in Int : stocks' = Increased(w, Symbol, 0, d)
  <2>1. CASE SetSellAmountUpdate
    <3>1. -n \in Int
      BY <1>1
    <3>. QED
      BY <1>1, <2>1, <3>1 DEF SetSellAmountUpdate
  <2>2. CASE SetSellTriggerUpdate
    <3>1. cmd.auto # None => cmd.auto.amount - cmd.amount \in Int
      <4>1. cmd.amount \in Nat /\ cmd.auto \in AutoTransaction \cup {None}
        BY Parts, CmdFields DEF MainTyped
      <4>. QED
        BY <4>1, AutoType
    <3>. QED
      BY <1>1, <2>2, <3>1 DEF SetSellTriggerUpdate
  <2>3. CASE CancelSetSellUpdate
    BY <1>1, <2>3 DEF CancelSetSellUpdate
  <2>. QED
    BY <2>1, <2>2, <2>3
<1>3. UNCHANGED account
  BY DEF SetSellAmountUpdate, SetSellTriggerUpdate, CancelSetSellUpdate
<1>4. CASE UNCHANGED stocks
  BY <1>3, <1>4, OwnedSame
<1>5. CASE ~UNCHANGED stocks
  <2>1. PICK d \in Int : Owns(w, Symbol) /\ stocks' = Increased(w, Symbol, 0, d)
    BY <1>2, <1>5
  <2>2. /\ SharesOwned(w)' = SharesOwned(w) + 0 /\ SharesOwned(w) \in Int
        /\ \A x \in Users \ {w} : stocks'[x] = stocks[x]
    <3>1. 0 \in Int
      OBVIOUS
    <3>. QED
      BY <1>1, <2>1, <3>1, OwnedIncreased, OwnedType
  <2>. QED
    BY <1>3, <2>2, OwnedSame
<1>. QED
  BY <1>4, <1>5

(* Which steps change the account or the shares.                           *)
LEMMA MoneyOrShares ==
    ASSUME [Next]_vars
    PROVE  \/ UNCHANGED <<stocks, account>>
           \/ \E u \in Users : Trade(u)
           \/ SetSellAmountUpdate \/ SetSellTriggerUpdate \/ CancelSetSellUpdate
           \/ BuyWrite \/ SellWrite
<1>1. ASSUME NEW u \in Users, BuyCommand(u) \/ SellCommand(u) PROVE UNCHANGED account
  BY <1>1
  DEF BuyCommand, SellCommand, SetBuyAmount, SetBuyTrigger, CancelSetBuy, SetSellAmount,
      SetSellTrigger, CancelSetSell, db
<1>2. MainStep => UNCHANGED account
  BY DEF MainStep, SetBuyAmountUpdate, SetBuyTriggerUpdate, RegisterBuy, CancelSetBuyUpdate,
         UnregisterBuy, SetSellAmountUpdate, SetSellTriggerUpdate, RegisterSell,
         CancelSetSellUpdate, UnregisterSell, db
<1>3. PollStep => UNCHANGED account \/ BuyWrite \/ SellWrite
  BY DEF PollStep, Poll, QueryBuys, NextBuyer, BuyRead, QuerySells, NextSeller, SellRead,
         Sleep, db
<1>4. MainRaises \/ PollerRaises \/ Restart \/ UNCHANGED vars => UNCHANGED account
  BY DEF MainRaises, PollerRaises, Restart, db, vars
<1>. QED
  BY <1>1, <1>2, <1>3, <1>4, StocksChange DEF Next

(* Every step pays for the shares that it moves.                           *)
LEMMA PaidStep ==
    ASSUME Typed, PassPrice, [Next]_vars, NEW u \in Users
    PROVE  PaidFor(u) \/ PullsOthers(u)
<1>1. CASE UNCHANGED <<stocks, account>>
  <2>1. Paid(u, 0) /\ 0 \in Int
    BY <1>1, OwnedSame, PaidNothing
  <2>. QED
    BY <2>1, PaidIsPaidFor
<1>2. CASE SetSellAmountUpdate \/ SetSellTriggerUpdate \/ CancelSetSellUpdate
  <2>1. Paid(u, 0) /\ 0 \in Int
    BY <1>2, AsideUnpaid, PaidNothing
  <2>. QED
    BY <2>1, PaidIsPaidFor
<1>3. CASE BuyWrite \/ SellWrite
  BY <1>3, PollPaid
<1>4. CASE \E w \in Users : Trade(w)
  BY <1>4, TradePaid
<1>. QED
  BY <1>1, <1>2, <1>3, <1>4, MoneyOrShares

(***************************************************************************)
(* Every step, of whichever thread and with whichever commands in progress *)
(* during a pass, pays for the shares it brings in and pays out those it   *)
(* takes, all at the one price that is in the cache, for any users,        *)
(* amounts, triggers and prices and with the stock once or twice in the    *)
(* array: the only step that may lose shares, or pay for some that were    *)
(* not there, is the sale of the whole stock by the polling thread after   *)
(* their number has changed (quote_polling.py:250).                        *)
(***************************************************************************)
THEOREM EveryShareIsPaid == Spec => EverySharePaid
<1>1. ASSUME Typed, PassPrice, [Next]_vars
      PROVE  [\A u \in Users : PaidFor(u) \/ PullsOthers(u)]_vars
  BY <1>1, PaidStep
<1>2. Typed /\ PassPrice /\ [Next]_vars => PassPrice'
  BY PassPriceStep
<1>3. Init => PassPrice
  BY DEF Init, PassPrice
<1>. QED
  BY <1>1, <1>2, <1>3, TypedHolds, PTL DEF Spec, EverySharePaid

================================================================================
