------------------------------ MODULE WorkerProofs ------------------------------
(***************************************************************************)
(* Proofs about Worker: what is proved of the pending buys, of the pending *)
(* sells and of the automatic transactions alone holds with the three of   *)
(* them on the same documents.                                             *)
(***************************************************************************)
EXTENDS Worker, FiniteSets, TLAPS

B == INSTANCE PendingBuysProofs
S == INSTANCE PendingSellsProofs WITH pc <- sell_pc, frame <- sell_frame
A == INSTANCE AutoTradingProofs WITH pc <- auto_pc

-----------------------------------------------------------------------------
(***************************************************************************)
(* The assumptions of the three components.                                *)
(***************************************************************************)
LEMMA BuysConstants ==
    /\ Prices \subseteq Nat \ {0} /\ Deposits \subseteq Nat /\ None \notin Prices
    /\ MaxFunds \in Nat /\ Debts \subseteq Nat
    /\ Main \notin BuyIds /\ None \notin BuyIds \cup Users \cup {Main}
    /\ None \notin B!Buy /\ {CanRaise, CanRestart} \subseteq BOOLEAN
BY PricesAssumption, DepositsAssumption, NoneIsNoPrice, FundsAssumption, SumsAssumption,
   ThreadsAssumption, NoneAssumption, NoneIsNoRecord, SwitchesAssumption
DEF B!Buy, Buys!Buy

LEMMA SellsConstants ==
    /\ Amounts \subseteq Nat /\ Lots \subseteq Nat \ {0}
    /\ Main \notin SellIds /\ None \notin SellIds \cup Users \cup {Main}
    /\ None \notin S!Sell
BY NumbersAssumption, SumsAssumption,
   ThreadsAssumption, NoneAssumption, NoneIsNoRecord
DEF S!Sell, Sells!Sell

LEMMA AutosConstants ==
    /\ Stocks # {} /\ (\A r, s \in Stocks : r = s)
    /\ AutoAmounts \cup Triggers \cup Lots \subseteq Nat \ {0}
    /\ Overlapping \subseteq Commands /\ Commands \subseteq A!Kinds
    /\ None \notin A!AutoTransaction \cup Users \cup AutoAmounts
BY NumbersAssumption, NoneAssumption, NoneIsNoRecord, OneStock, KindsAssumption
DEF A!AutoTransaction, Autos!AutoTransaction, A!Kinds, Autos!Kinds

-----------------------------------------------------------------------------
(***************************************************************************)
(* Their steps.                                                            *)
(***************************************************************************)
LEMMA BuysInvStep == B!IInv /\ [B!Next]_(B!vars) => B!IInv'
BY BuysConstants, B!IInvStep

LEMMA SellsInvStep == S!IInv /\ [S!Next]_(S!vars) => S!IInv'
BY BuysConstants, SellsConstants, S!InvStep

LEMMA AutosTypedStep == A!Typed /\ [A!Next]_(A!vars) => A!Typed'
BY BuysConstants, AutosConstants, A!TypedStep

LEMMA BuysInit == B!Init => B!IInv
BY BuysConstants, B!IInvInit

LEMMA SellsInit == S!Init => S!IInv
BY BuysConstants, SellsConstants, S!InvInit

LEMMA AutosInit == A!Init => A!Typed
BY BuysConstants, AutosConstants, A!TypedInit

-----------------------------------------------------------------------------
(***************************************************************************)
(* The actions of the worker are theirs.                                   *)
(***************************************************************************)
LEMMA SameSymbol == Autos!Symbol = A!Symbol /\ A!Symbol \in Stocks
BY AutosConstants, OneStock DEF Autos!Symbol, A!Symbol

LEMMA BuysCommands ==
    /\ \A u, s, d, id, v : Buys!BuyCheck(u, s, d, id, v) => B!BuyCheck(u, s, d, id, v)
    /\ \A u : Buys!CommitTake(u) => B!CommitTake(u)
    /\ \A t, u : Buys!CancelTimer(t, u) => B!CancelTimer(t, u)
BY DEF Buys!BuyCheck, Buys!QuoteOf, Buys!CacheQuote, Buys!BuyAccepted, Buys!Cost, Buys!Goto,
       B!BuyCheck, B!QuoteOf, B!CacheQuote, B!BuyAccepted, B!Cost, B!Goto,
       Buys!CommitTake, Buys!PopBuy, Buys!Cancelled, Buys!Found, Buys!Owns,
       B!CommitTake, B!PopBuy, B!Cancelled, B!Found, B!Owns,
       Buys!CancelTimer, B!CancelTimer

LEMMA BuysSteps ==
    /\ Buys!BuyStep => B!BuyStep
    /\ Buys!CommitSettle => B!CommitSettle
    /\ \A b : Buys!Fire(b) => B!Fire(b)
    /\ \A t : Buys!CancelStep(t) => B!CancelStep(t)
    /\ \A t : Buys!Raise(t) => B!Raise(t)
    /\ Buys!Restart => B!Restart
    /\ Buys!Threads = B!Threads
BY DEF Buys!BuyStep, Buys!BuyReserve, Buys!BuyRecord, Buys!BuySwap, Buys!BuyArm,
       B!BuyStep, B!BuyReserve, B!BuyRecord, B!BuySwap, B!BuyArm,
       Buys!Cost, Buys!Goto, Buys!Cancelled, Buys!Started, Buys!NoFrame,
       B!Cost, B!Goto, B!Cancelled, B!Started, B!NoFrame,
       Buys!CommitSettle, Buys!Owns, Buys!Increased, Buys!Pushed, Buys!End, Buys!EndPC,
       B!CommitSettle, B!Owns, B!Increased, B!Pushed, B!End, B!EndPC,
       Buys!Fire, B!Fire, Buys!CancelStep, Buys!CancelTake, Buys!CancelRelease, Buys!PopBuy,
       B!CancelStep, B!CancelTake, B!CancelRelease, B!PopBuy,
       Buys!Raise, Buys!MayRaise, B!Raise, B!MayRaise, Buys!Restart, B!Restart,
       Buys!Threads, B!Threads

LEMMA SellsCommands ==
    /\ \A u, s, a, id, v : Sells!SellCheck(u, s, a, id, v) => S!SellCheck(u, s, a, id, v)
    /\ \A u : Sells!CommitTake(u) => S!CommitTake(u)
    /\ \A t, u : Sells!CancelTimer(t, u) => S!CancelTimer(t, u)
BY DEF Sells!SellCheck, S!SellCheck, Sells!CommitTake, S!CommitTake,
       Sells!CancelTimer, S!CancelTimer, Sells!Cancelled, S!Cancelled,
       Sells!PopSell, S!PopSell, Sells!QuoteOf, S!QuoteOf, Sells!CacheQuote, S!CacheQuote,
       Sells!Goto, S!Goto, Sells!Owns, S!Owns, Sells!EnoughShares, S!EnoughShares

LEMMA SellsSteps ==
    /\ Sells!SellStep => S!SellStep
    /\ Sells!CommitSettle => S!CommitSettle
    /\ \A b : Sells!Fire(b) => S!Fire(b)
    /\ \A t : Sells!CancelStep(t) => S!CancelStep(t)
    /\ \A t : Sells!Raise(t) => S!Raise(t)
    /\ Sells!Restart => S!Restart
    /\ Sells!Threads = S!Threads
BY DEF Sells!SellStep, Sells!SellPull, Sells!SellRecord, Sells!SellReserve, Sells!SellSwap,
       Sells!SellArm, S!SellStep, S!SellPull, S!SellRecord, S!SellReserve, S!SellSwap, S!SellArm,
       Sells!Armed, S!Armed, Sells!PopSell, S!PopSell, Sells!Sold, S!Sold,
       Sells!Profit, S!Profit, Sells!Goto, S!Goto, Sells!Cancelled, S!Cancelled,
       Sells!Started, S!Started, Sells!NoFrame, S!NoFrame,
       Sells!CommitSettle, S!CommitSettle, Sells!Owns, S!Owns, Sells!Increased, S!Increased,
       Sells!End, S!End, Sells!EndPC, S!EndPC, Sells!Fire, S!Fire,
       Sells!CancelStep, Sells!CancelTake, Sells!CancelRelease,
       S!CancelStep, S!CancelTake, S!CancelRelease,
       Sells!Raise, Sells!MayRaise, S!Raise, S!MayRaise, Sells!Restart, S!Restart,
       Sells!Threads, S!Threads

LEMMA AutosCommands ==
    /\ \A u : Autos!BuyCommand(u) => A!BuyCommand(u)
    /\ \A u : Autos!SellCommand(u) => A!SellCommand(u)
    /\ \A u, n, v : Autos!Bought(u, n, v) => A!Bought(u, n, v)
BY DEF Autos!BuyCommand, Autos!SetBuyAmount, Autos!SetBuyTrigger, Autos!CancelSetBuy,
       A!BuyCommand, A!SetBuyAmount, A!SetBuyTrigger, A!CancelSetBuy,
       Autos!SellCommand, Autos!SetSellAmount, Autos!SetSellTrigger, Autos!CancelSetSell,
       A!SellCommand, A!SetSellAmount, A!SetSellTrigger, A!CancelSetSell,
       Autos!Bought, A!Bought, Autos!Start, A!Start, Autos!Goto, A!Goto, Autos!Command, A!Command,
       Autos!QuoteOf, A!QuoteOf, Autos!CacheQuote, A!CacheQuote, Autos!Twice, A!Twice,
       Autos!Owns, A!Owns, Autos!Increased, A!Increased, Autos!Pushed, A!Pushed,
       Autos!Pulled, A!Pulled, Autos!Symbol, A!Symbol, Autos!db, A!db, Autos!autos, A!autos,
       Autos!registered, A!registered, Autos!main, A!main, Autos!poller, A!poller

LEMMA AutosMainSteps == Autos!MainStep => A!MainStep
BY DEF Autos!MainStep, A!MainStep, Autos!SetBuyAmountUpdate, A!SetBuyAmountUpdate,
       Autos!SetBuyTriggerUpdate, A!SetBuyTriggerUpdate, Autos!RegisterBuy,
       A!RegisterBuy, Autos!CancelSetBuyUpdate, A!CancelSetBuyUpdate,
       Autos!UnregisterBuy, A!UnregisterBuy, Autos!SetSellAmountUpdate,
       A!SetSellAmountUpdate, Autos!SetSellTriggerUpdate, A!SetSellTriggerUpdate,
       Autos!RegisterSell, A!RegisterSell, Autos!CancelSetSellUpdate,
       A!CancelSetSellUpdate, Autos!UnregisterSell, A!UnregisterSell, Autos!End, A!End,
       Autos!Goto, A!Goto, Autos!NoCmd, A!NoCmd, Autos!Add_user, A!Add_user,
       Autos!Get_user, A!Get_user, Autos!Pulled, A!Pulled, Autos!Owns, A!Owns,
       Autos!Increased, A!Increased, Autos!Symbol, A!Symbol, Autos!db, A!db,
       Autos!autos, A!autos, Autos!registered, A!registered, Autos!main, A!main,
       Autos!poller, A!poller

LEMMA AutosPollSteps == Autos!PollStep => A!PollStep
BY DEF Autos!PollStep, A!PollStep, Autos!Poll, A!Poll, Autos!KindOf, A!KindOf,
       Autos!QuoteOf, A!QuoteOf, Autos!CacheQuote, A!CacheQuote, Autos!NotSeen,
       A!NotSeen, Autos!QueryBuys, A!QueryBuys, Autos!BuyReached, A!BuyReached,
       Autos!NextBuyer, A!NextBuyer, Autos!BuyRead, A!BuyRead, Autos!Twice, A!Twice,
       Autos!BuyWrite, A!BuyWrite, Autos!Remainder, A!Remainder, Autos!QuerySells,
       A!QuerySells, Autos!SellReached, A!SellReached, Autos!NextSeller, A!NextSeller,
       Autos!SellRead, A!SellRead, Autos!SellsAll, A!SellsAll, Autos!SellWrite,
       A!SellWrite, Autos!Sleep, A!Sleep, Autos!Get_user, A!Get_user, Autos!Pulled,
       A!Pulled, Autos!Owns, A!Owns, Autos!Increased, A!Increased, Autos!Pushed,
       A!Pushed, Autos!Symbol, A!Symbol, Autos!db, A!db, Autos!autos, A!autos,
       Autos!registered, A!registered, Autos!main, A!main, Autos!poller, A!poller

LEMMA AutosFaults ==
    /\ Autos!MainRaises => A!MainRaises
    /\ Autos!PollerRaises => A!PollerRaises
    /\ Autos!Restart => A!Restart
BY DEF Autos!MainRaises, A!MainRaises, Autos!PollerRaises, A!PollerRaises,
       Autos!Restart, A!Restart, Autos!End, A!End, Autos!Goto, A!Goto, Autos!NoCmd,
       A!NoCmd, Autos!NotSeen, A!NotSeen, Autos!db, A!db, Autos!autos, A!autos,
       Autos!registered, A!registered, Autos!main, A!main, Autos!poller, A!poller

-----------------------------------------------------------------------------
(***************************************************************************)
(* The inductive invariant: those of the three components, and that the    *)
(* main thread runs one command at a time.                                 *)
(***************************************************************************)
OneCommand ==
    /\ pc[Main] = "idle" \/ sell_pc[Main] = "idle"
    /\ pc[Main] = "idle" \/ auto_pc = "idle"
    /\ sell_pc[Main] = "idle" \/ auto_pc = "idle"

WInv == B!IInv /\ S!IInv /\ A!Typed /\ OneCommand

(* A command is in progress in one component only.                         *)
LEMMA BusyOnce == (\A i, j \in Busy : i = j) <=> OneCommand
<1>1. 1..3 = {1, 2, 3}
  OBVIOUS
<1>2. \A i : i \in Busy <=> \/ i = 1 /\ pc[Main] # "idle"
                            \/ i = 2 /\ sell_pc[Main] # "idle"
                            \/ i = 3 /\ auto_pc # "idle"
  BY <1>1 DEF Busy
<1>. QED
  BY <1>2 DEF OneCommand

LEMMA NobodyBusy == MainIsFree <=> pc[Main] = "idle" /\ sell_pc[Main] = "idle" /\ auto_pc = "idle"
<1>1. 1..3 = {1, 2, 3}
  OBVIOUS
<1>2. \A i : i \in Busy <=> \/ i = 1 /\ pc[Main] # "idle"
                            \/ i = 2 /\ sell_pc[Main] # "idle"
                            \/ i = 3 /\ auto_pc # "idle"
  BY <1>1 DEF Busy
<1>. QED
  BY <1>2 DEF MainIsFree

(* The documents have the same types for the three.                        *)
LEMMA DocumentTypes ==
    /\ B!TypeOK => DbTypeOK /\ B!DbTypeOK /\ S!DbTypeOK /\ A!DbTypeOK
    /\ S!TypeOK => DbTypeOK /\ B!DbTypeOK /\ S!DbTypeOK /\ A!DbTypeOK
    /\ A!TypeOK => DbTypeOK /\ B!DbTypeOK /\ S!DbTypeOK /\ A!DbTypeOK
BY DEF B!TypeOK, S!TypeOK, A!TypeOK, DbTypeOK, B!DbTypeOK, S!DbTypeOK, A!DbTypeOK,
       Holding, B!Holding, S!Holding, A!Holding

LEMMA DocumentTypesNext ==
    (/\ B!TypeOK => DbTypeOK /\ B!DbTypeOK /\ S!DbTypeOK /\ A!DbTypeOK
     /\ S!TypeOK => DbTypeOK /\ B!DbTypeOK /\ S!DbTypeOK /\ A!DbTypeOK
     /\ A!TypeOK => DbTypeOK /\ B!DbTypeOK /\ S!DbTypeOK /\ A!DbTypeOK)'
BY DocumentTypes, PTL

(* What the other components do to the documents is no matter to each.     *)
LEMMA BuysFrame == B!IInv /\ B!DbTypeOK' /\ UNCHANGED buys => B!IInv'
BY DEF buys, B!IInv, B!TypeOK, B!FrameOK, B!ReserveReady, B!DictHeld, B!CarriedHeld, B!OneOwner,
       B!Recorded, B!Carries, B!Cost

LEMMA SellsFrame == S!IInv /\ S!DbTypeOK' /\ UNCHANGED sells => S!IInv'
BY DEF sells, S!IInv, S!TypeOK, S!FrameOK, S!Fresh, S!SettledByOwnerOnly, S!OwnerMatches,
       S!Recorded, S!Carries

LEMMA AutosFrame == A!Typed /\ A!DbTypeOK' /\ UNCHANGED autos => A!Typed'
BY DEF autos, A!Typed, A!TypeOK, A!Locals

-----------------------------------------------------------------------------
(***************************************************************************)
(* A COMMIT_BUY that raises has taken the pending buy and its timer out of *)
(* the dictionaries, and has cancelled the timer.                          *)
(***************************************************************************)
LEMMA CommitRaisesKeeps ==
    ASSUME B!IInv, NEW u \in Users, CommitRaises(u)
    PROVE  B!IInv' /\ UNCHANGED db /\ pc'[Main] = pc[Main]
<1>. DEFINE T == B!Threads
<1>0. /\ uncommitted_buys' = [uncommitted_buys EXCEPT ![u] = None]
      /\ uncommitted_buy_timers' = [uncommitted_buy_timers EXCEPT ![u] = None]
      /\ UNCHANGED db /\ UNCHANGED frame /\ UNCHANGED hold
  BY DEF CommitRaises
<1>1. /\ B!TypeOK /\ T = BuyIds \cup {Main} /\ Main \notin BuyIds
      /\ pc \in [T -> B!MainPC \cup B!TimerPC]
      /\ pc[Main] \in B!MainPC /\ \A b \in BuyIds : pc[b] \in B!TimerPC
  BY BuysConstants DEF B!IInv, B!TypeOK, B!Threads
<1>2. \/ pc' = pc
      \/ \E b \in T : pc[b] = "armed" /\ pc' = [pc EXCEPT ![b] = "cancelled"]
  BY <1>1 DEF CommitRaises, Buys!Cancelled
<1>3. \A t \in T : pc'[t] = pc[t] \/ (t # Main /\ pc[t] = "armed" /\ pc'[t] = "cancelled")
  BY <1>1, <1>2 DEF B!MainPC
<1>4. pc' \in [T -> B!MainPC \cup B!TimerPC]
  BY <1>1, <1>2 DEF B!TimerPC
<1>5. pc'[Main] = pc[Main] /\ \A b \in BuyIds : pc'[b] \in B!TimerPC
  BY <1>1, <1>3 DEF B!TimerPC
<1>6. \A w \in Users : uncommitted_buys'[w] \in {uncommitted_buys[w], None}
  BY <1>0, <1>1 DEF B!TypeOK
<1>7. \A t \in T : B!Carries(t)' = B!Carries(t)
  BY <1>3 DEF B!Carries
<1>8. B!TypeOK'
  BY <1>0, <1>1, <1>4, <1>5, DocumentTypes
  DEF B!TypeOK, B!DbTypeOK, db, B!Threads
<1>9. B!FrameOK'
  BY <1>0, <1>3 DEF B!IInv, B!FrameOK
<1>10. B!ReserveReady'
  BY <1>0, <1>5 DEF B!IInv, B!ReserveReady, B!Cost
<1>11. B!DictHeld'
  BY <1>0, <1>6 DEF B!IInv, B!DictHeld, B!Cost
<1>12. B!CarriedHeld'
  BY <1>0, <1>7 DEF B!IInv, B!CarriedHeld, B!Cost
<1>13. B!OneOwner'
  BY <1>0, <1>6, <1>7 DEF B!IInv, B!OneOwner, B!Recorded
<1>. QED
  BY <1>0, <1>5, <1>8, <1>9, <1>10, <1>11, <1>12, <1>13 DEF B!IInv

-----------------------------------------------------------------------------
(***************************************************************************)
(* A step of each kind keeps the invariant of its component, starts no     *)
(* command of the component unless the main thread is free, and leaves the *)
(* other two alone.                                                        *)
(***************************************************************************)
LEMMA BuysCommandKeeps ==
    ASSUME WInv, NEW u \in Users, BuysCommand(u)
    PROVE  B!IInv' /\ MainIsFree /\ UNCHANGED <<sells, autos>>
<1>1. ASSUME B!Next
      PROVE  B!IInv'
  BY <1>1, BuysInvStep DEF WInv
<1>2. ASSUME NEW d \in Debts, NEW id \in BuyIds, NEW v \in Prices,
             Buys!BuyCheck(u, Autos!Symbol, d, id, v)
      PROVE  B!Next
  BY <1>2, BuysCommands, SameSymbol DEF B!Next
<1>3. ASSUME Buys!CommitTake(u)
      PROVE  B!Next
  BY <1>3, BuysCommands DEF B!Next
<1>4. ASSUME Buys!CancelTimer(Main, u)
      PROVE  B!Next
  BY <1>4, BuysCommands DEF B!Next, B!Threads
<1>. QED
  BY <1>1, <1>2, <1>3, <1>4, CommitRaisesKeeps DEF BuysCommand, WInv

LEMMA BuysStepKeeps ==
    ASSUME WInv, BuysStep
    PROVE  /\ B!Next /\ B!IInv' /\ UNCHANGED <<sells, autos>>
           /\ pc[Main] = "idle" => pc'[Main] = "idle"
<1>1. B!Next
  BY BuysCommands, BuysSteps DEF BuysStep, B!Next, B!Threads
<1>2. Main \notin BuyIds /\ pc \in [B!Threads -> B!MainPC \cup B!TimerPC]
      /\ B!Threads = BuyIds \cup {Main}
  BY BuysConstants DEF WInv, B!IInv, B!TypeOK, B!Threads
<1>3. B!BuyStep \/ B!CommitSettle => pc[Main] # "idle"
  BY DEF B!BuyStep, B!BuyReserve, B!BuyRecord, B!BuySwap, B!BuyArm, B!CommitSettle
<1>4. ASSUME NEW b \in BuyIds, B!Fire(b), pc[Main] = "idle"
      PROVE  pc'[Main] = "idle"
  BY <1>2, <1>4 DEF B!Fire, B!Goto
<1>5. ASSUME NEW b \in BuyIds, NEW u \in Users, B!CancelTimer(b, u), pc[Main] = "idle"
      PROVE  pc'[Main] = "idle"
  BY <1>2, <1>5 DEF B!CancelTimer, B!Cancelled
<1>6. ASSUME NEW t \in B!Threads, B!CancelStep(t) \/ B!Raise(t), pc[Main] = "idle"
      PROVE  pc'[Main] = "idle"
  BY <1>2, <1>6 DEF B!CancelStep, B!CancelTake, B!CancelRelease, B!Raise, B!MayRaise,
                    B!End, B!EndPC, B!Goto
<1>7. B!IInv'
  BY <1>1, BuysInvStep DEF WInv
<1>. QED
  BY <1>1, <1>3, <1>4, <1>5, <1>6, <1>7, BuysCommands, BuysSteps DEF BuysStep

LEMMA SellsCommandKeeps ==
    ASSUME WInv, NEW u \in Users, SellsCommand(u)
    PROVE  S!Next /\ S!IInv' /\ MainIsFree /\ UNCHANGED <<buys, autos>>
<1>1. ASSUME NEW a \in Amounts, NEW id \in SellIds, NEW v \in Prices,
             Sells!SellCheck(u, Autos!Symbol, a, id, v)
      PROVE  S!Next
  BY <1>1, SellsCommands, SameSymbol DEF S!Next
<1>2. ASSUME Sells!CommitTake(u)
      PROVE  S!Next
  BY <1>2, SellsCommands DEF S!Next
<1>3. ASSUME Sells!CancelTimer(Main, u)
      PROVE  S!Next
  BY <1>3, SellsCommands DEF S!Next, S!Threads
<1>4. S!Next
  BY <1>1, <1>2, <1>3 DEF SellsCommand
<1>. QED
  BY <1>4, SellsInvStep DEF SellsCommand, WInv

LEMMA SellsStepKeeps ==
    ASSUME WInv, SellsStep
    PROVE  /\ S!Next /\ S!IInv' /\ UNCHANGED <<buys, autos>>
           /\ sell_pc[Main] = "idle" => sell_pc'[Main] = "idle"
<1>1. S!Next
  BY SellsCommands, SellsSteps DEF SellsStep, S!Next, S!Threads
<1>2. Main \notin SellIds /\ sell_pc \in [S!Threads -> S!MainPC \cup S!TimerPC]
      /\ S!Threads = SellIds \cup {Main}
  BY SellsConstants DEF WInv, S!IInv, S!TypeOK, S!Threads
<1>3. S!SellStep \/ S!CommitSettle => sell_pc[Main] # "idle"
  BY DEF S!SellStep, S!SellPull, S!SellRecord, S!SellReserve, S!SellSwap, S!SellArm,
         S!CommitSettle
<1>4. ASSUME NEW b \in SellIds, S!Fire(b), sell_pc[Main] = "idle"
      PROVE  sell_pc'[Main] = "idle"
  BY <1>2, <1>4 DEF S!Fire, S!Goto
<1>5. ASSUME NEW b \in SellIds, NEW u \in Users, S!CancelTimer(b, u), sell_pc[Main] = "idle"
      PROVE  sell_pc'[Main] = "idle"
  BY <1>2, <1>5 DEF S!CancelTimer, S!Cancelled
<1>6. ASSUME NEW t \in S!Threads, S!CancelStep(t) \/ S!Raise(t), sell_pc[Main] = "idle"
      PROVE  sell_pc'[Main] = "idle"
  BY <1>2, <1>6 DEF S!CancelStep, S!CancelTake, S!CancelRelease, S!Raise, S!MayRaise,
                    S!End, S!EndPC, S!Goto
<1>7. S!IInv'
  BY <1>1, SellsInvStep DEF WInv
<1>. QED
  BY <1>1, <1>3, <1>4, <1>5, <1>6, <1>7, SellsCommands, SellsSteps DEF SellsStep

LEMMA AutosCommandKeeps ==
    ASSUME WInv, NEW u \in Users, AutosCommand(u)
    PROVE  A!Next /\ A!Typed' /\ MainIsFree /\ UNCHANGED <<buys, sells>>
<1>1. ASSUME NEW n \in Lots, NEW v \in Prices, Autos!Bought(u, n, v)
      PROVE  A!Next
  BY <1>1, AutosCommands DEF A!Next, A!Trade
<1>2. A!Next
  BY <1>1, AutosCommands DEF AutosCommand, A!Next
<1>. QED
  BY <1>2, AutosTypedStep DEF AutosCommand, WInv

LEMMA AutosStepKeeps ==
    ASSUME WInv, AutosStep
    PROVE  /\ A!Next /\ A!Typed' /\ UNCHANGED <<buys, sells>>
           /\ auto_pc = "idle" => auto_pc' = "idle"
<1>1. A!Next
  BY AutosMainSteps, AutosPollSteps, AutosFaults DEF AutosStep, A!Next
<1>2. A!MainStep \/ A!MainRaises => auto_pc # "idle"
  BY DEF A!MainStep, A!SetBuyAmountUpdate, A!SetBuyTriggerUpdate, A!RegisterBuy,
         A!CancelSetBuyUpdate, A!UnregisterBuy, A!SetSellAmountUpdate, A!SetSellTriggerUpdate,
         A!RegisterSell, A!CancelSetSellUpdate, A!UnregisterSell, A!MainRaises
<1>3. A!PollStep \/ A!PollerRaises => auto_pc' = auto_pc
  BY DEF A!PollStep, A!Poll, A!QueryBuys, A!NextBuyer, A!BuyRead, A!BuyWrite, A!QuerySells,
         A!NextSeller, A!SellRead, A!SellWrite, A!Sleep, A!PollerRaises, A!main
<1>. QED
  BY <1>1, <1>2, <1>3, AutosTypedStep, AutosMainSteps, AutosPollSteps, AutosFaults
  DEF AutosStep, WInv

(***************************************************************************)
(* Every step keeps the invariant.                                         *)
(***************************************************************************)
LEMMA WInvStep == WInv /\ [Next]_vars => WInv'
<1>. SUFFICES ASSUME WInv, [Next]_vars
              PROVE  WInv'
  OBVIOUS
<1>0. /\ B!IInv => B!TypeOK
      /\ S!IInv => S!TypeOK
      /\ A!Typed => A!TypeOK
  BY DEF B!IInv, S!IInv, A!Typed
<1>00. /\ (B!IInv)' => (B!TypeOK)'
       /\ (S!IInv)' => (S!TypeOK)'
       /\ (A!Typed)' => (A!TypeOK)'
  BY DEF B!IInv, S!IInv, A!Typed
<1>1. ASSUME B!IInv', UNCHANGED <<sells, autos>>, MainIsFree \/ (pc[Main] = "idle" => pc'[Main] = "idle")
      PROVE  WInv'
  <2>1. S!IInv' /\ A!Typed'
    BY <1>00, <1>1, DocumentTypesNext, SellsFrame, AutosFrame DEF WInv
  <2>2. OneCommand'
    BY <1>1, NobodyBusy DEF WInv, OneCommand, sells, autos
  <2>. QED
    BY <1>1, <2>1, <2>2 DEF WInv
<1>2. ASSUME S!IInv', UNCHANGED <<buys, autos>>,
             MainIsFree \/ (sell_pc[Main] = "idle" => sell_pc'[Main] = "idle")
      PROVE  WInv'
  <2>1. B!IInv' /\ A!Typed'
    BY <1>00, <1>2, DocumentTypesNext, BuysFrame, AutosFrame DEF WInv
  <2>2. OneCommand'
    BY <1>2, NobodyBusy DEF WInv, OneCommand, buys, autos
  <2>. QED
    BY <1>2, <2>1, <2>2 DEF WInv
<1>3. ASSUME A!Typed', UNCHANGED <<buys, sells>>,
             MainIsFree \/ (auto_pc = "idle" => auto_pc' = "idle")
      PROVE  WInv'
  <2>1. B!IInv' /\ S!IInv'
    BY <1>00, <1>3, DocumentTypesNext, BuysFrame, SellsFrame DEF WInv
  <2>2. OneCommand'
    BY <1>3, NobodyBusy DEF WInv, OneCommand, buys, sells
  <2>. QED
    BY <1>3, <2>1, <2>2 DEF WInv
<1>4. CASE Restart
  <2>1. B!Next /\ S!Next /\ A!Next
    BY <1>4, BuysSteps, SellsSteps, AutosFaults DEF Restart, B!Next, S!Next, A!Next
  <2>2. pc'[Main] = "idle" /\ sell_pc'[Main] = "idle" /\ auto_pc' = "idle"
    BY <1>4, BuysSteps, SellsSteps, AutosFaults, BuysConstants, SellsConstants
    DEF Restart, B!Restart, S!Restart, A!Restart, B!EndPC, S!EndPC, A!End, A!Goto,
        B!Threads, S!Threads, WInv, B!IInv, S!IInv, B!TypeOK, S!TypeOK, B!MainPC, S!MainPC
  <2>. QED
    BY <2>1, <2>2, BuysInvStep, SellsInvStep, AutosTypedStep DEF WInv, OneCommand
<1>5. CASE UNCHANGED vars
  <2>1. UNCHANGED B!vars /\ UNCHANGED <<sells, autos>>
    BY <1>5 DEF vars, B!vars, sells, autos
  <2>. QED
    BY <1>1, <1>5, <2>1, BuysInvStep DEF WInv, vars
<1>. QED
  BY <1>1, <1>2, <1>3, <1>4, <1>5, BuysCommandKeeps, BuysStepKeeps, SellsCommandKeeps,
     SellsStepKeeps, AutosCommandKeeps, AutosStepKeeps DEF Next

(* It holds at the beginning.                                              *)
LEMMA WInvInit == Init => WInv
<1>. SUFFICES ASSUME Init PROVE WInv
  OBVIOUS
<1>1. A!Init
  BY DEF Init, Autos!Init, A!Init, Autos!NoCmd, A!NoCmd, Autos!NotSeen, A!NotSeen
<1>2. S!Init
  BY <1>1 DEF Init, A!Init, S!Init, S!Threads, S!NoFrame, S!NoFate, Sells!NoFrame, Sells!NoFate
<1>3. A!Typed /\ S!IInv
  BY <1>1, <1>2, AutosInit, SellsInit
<1>4. B!DbTypeOK
  BY <1>3, DocumentTypes DEF A!Typed
<1>5. /\ \A u \in Users : uncommitted_buys[u] = None
      /\ \A t \in B!Threads : pc[t] \in {"idle", "unarmed"}
      /\ Main \in B!Threads /\ pc[Main] = "idle"
  BY DEF Init, B!Threads
<1>6. B!TypeOK
  BY <1>4, BuysConstants
  DEF Init, B!TypeOK, B!Threads, B!MainPC, B!TimerPC, B!Frame, Buys!NoFrame, Buys!NoHold
<1>7. B!IInv
  BY <1>5, <1>6
  DEF B!IInv, B!FrameOK, B!ReserveReady, B!DictHeld, B!CarriedHeld, B!OneOwner, B!Carries,
      B!Recorded
<1>8. OneCommand
  BY <1>1, <1>5 DEF Init, OneCommand, A!Init
<1>. QED
  BY <1>3, <1>7, <1>8 DEF WInv

THEOREM WInvHolds == Spec => []WInv
BY WInvInit, WInvStep, PTL DEF Spec

-----------------------------------------------------------------------------
(***************************************************************************)
(* Every variable of the worker keeps its type, and the main thread runs   *)
(* one command at a time.                                                  *)
(***************************************************************************)
THEOREM TypeCorrect == Spec => []TypeOK
<1>1. WInv => Buys!TypeOK
  BY DEF WInv, B!IInv, B!TypeOK, B!DbTypeOK, B!Holding, B!Buy, B!Threads, B!MainPC, B!TimerPC,
         B!Frame, Buys!TypeOK, Buys!DbTypeOK, Buys!Holding, Buys!Buy, Buys!Threads,
         Buys!MainPC, Buys!TimerPC, Buys!Frame
<1>2. WInv => Sells!TypeOK
  BY DEF WInv, S!IInv, S!TypeOK, S!DbTypeOK, S!Holding, S!Sell, S!Threads, S!MainPC, S!TimerPC,
         S!Frame, S!Fate, Sells!TypeOK, Sells!DbTypeOK, Sells!Holding, Sells!Sell,
         Sells!Threads, Sells!MainPC, Sells!TimerPC, Sells!Frame, Sells!Fate
<1>3. WInv => Autos!TypeOK
  BY DEF WInv, A!Typed, A!TypeOK, A!DbTypeOK, A!Holding, A!AutoTransaction, A!KindOf, A!Cmd,
         A!Seen, Autos!TypeOK, Autos!DbTypeOK, Autos!Holding, Autos!AutoTransaction,
         Autos!KindOf, Autos!Cmd, Autos!Seen
<1>4. WInv => \A i, j \in Busy : i = j
  BY BusyOnce DEF WInv
<1>5. WInv => TypeOK
  BY <1>1, <1>2, <1>3, <1>4 DEF TypeOK
<1>. QED
  BY WInvHolds, <1>5, PTL

-----------------------------------------------------------------------------
(***************************************************************************)
(* The money reserved by both kinds of purchase.                           *)
(***************************************************************************)
Held == [u \in Users |-> B!CostIn("held", u)]

LEMMA SameFinite == IsFiniteSet(BuyIds) <=> B!IsFiniteSet(BuyIds)
BY DEF IsFiniteSet, B!IsFiniteSet

LEMMA SameSums == \A f : Buys!SumFunction(f) = B!SumFunction(f)
BY DEF Buys!SumFunction, Buys!SumFunctionOnSet, Buys!FoldFunctionOnSet, Buys!MapThenFoldSet,
       B!SumFunction, B!SumFunctionOnSet, B!FoldFunctionOnSet, B!MapThenFoldSet

LEMMA BuysMoneyStep == B!IInv /\ [B!Next]_(B!vars) => B!MoneyMoves
BY BuysConstants, B!MoneyStep

LEMMA BuysSlackStep ==
    ASSUME IsFiniteSet(BuyIds), B!TypeOK, B!TypeOK', B!MoneyMoves, NEW u \in Users
    PROVE  B!Slack(u)' = B!Slack(u)
BY SameFinite, BuysConstants, B!SlackStep

LEMMA HeldType == IsFiniteSet(BuyIds) /\ B!TypeOK => Held \in [Users -> Int]
BY SameFinite, BuysConstants, B!CostInType DEF Held

LEMMA HeldTypeNext == (IsFiniteSet(BuyIds) /\ B!TypeOK => Held \in [Users -> Int])'
BY HeldType, PTL

LEMMA AutosBuyStep ==
    ASSUME A!CancelsApart, A!Typed, NEW X \in [Users -> Int], A!BuyInv(X), [A!Next]_(A!vars)
    PROVE  A!BuyInv(X)'
BY BuysConstants, AutosConstants, A!BuyStep

(* A step of the pending sells takes and gives account and available       *)
(* funds together.                                                         *)
LEMMA SellsMoney ==
    ASSUME S!IInv, S!Next, NEW u \in Users
    PROVE  account'[u] - available'[u] = account[u] - available[u]
<1>0. account \in [Users -> Int] /\ available \in [Users -> Int]
  BY DEF S!IInv, S!TypeOK, S!DbTypeOK
<1>1. ASSUME NEW w \in Users, NEW c \in Int,
             account' = [account EXCEPT ![w] = @ + c], available' = [available EXCEPT ![w] = @ + c]
      PROVE  account'[u] - available'[u] = account[u] - available[u]
  BY <1>0, <1>1
<1>2. ASSUME NEW w \in Users, NEW s \in Stocks, NEW n \in Lots, NEW v \in Prices,
             S!Bought(w, s, n, v)
      PROVE  account'[u] - available'[u] = account[u] - available[u]
  <2>1. n \in Nat /\ v \in Nat
    BY BuysConstants, SellsConstants
  <2>2. PICK c \in Int : c = n * v
    BY <2>1, S!ProductType
  <2>3. account' = [account EXCEPT ![w] = @ - c] /\ available' = [available EXCEPT ![w] = @ - c]
    BY <1>2, <2>2 DEF S!Bought
  <2>. QED
    BY <1>0, <2>3
<1>3. CASE S!CommitSettle
  <2>1. sell_frame[Main].user \in Users /\ sell_frame[Main].sell \in S!Sell
    BY <1>3 DEF S!CommitSettle, S!IInv, S!FrameOK, S!Threads
  <2>2. PICK c \in Int : c = S!Profit(sell_frame[Main].sell)
    BY <2>1, BuysConstants, SellsConstants, S!ProfitType
  <2>. QED
    BY <1>0, <1>1, <1>3, <2>1, <2>2 DEF S!CommitSettle
<1>4. S!SellStep => UNCHANGED <<account, available>>
  BY DEF S!SellStep, S!SellPull, S!SellRecord, S!SellReserve, S!SellSwap, S!SellArm
<1>5. ASSUME NEW w \in Users, NEW s \in Stocks, NEW a \in Amounts, NEW id \in SellIds,
             NEW v \in Prices, S!SellCheck(w, s, a, id, v)
      PROVE  UNCHANGED <<account, available>>
  BY <1>5 DEF S!SellCheck
<1>6. ASSUME NEW w \in Users, S!CommitTake(w)
      PROVE  UNCHANGED <<account, available>>
  BY <1>6 DEF S!CommitTake
<1>7. ASSUME NEW b \in SellIds, S!Fire(b)
      PROVE  UNCHANGED <<account, available>>
  BY <1>7 DEF S!Fire
<1>8. ASSUME NEW t \in S!Threads, NEW w \in Users, S!CancelTimer(t, w)
      PROVE  UNCHANGED <<account, available>>
  BY <1>8 DEF S!CancelTimer
<1>9. ASSUME NEW t \in S!Threads, S!CancelStep(t) \/ S!Raise(t)
      PROVE  UNCHANGED <<account, available>>
  BY <1>9 DEF S!CancelStep, S!CancelTake, S!CancelRelease, S!Raise
<1>10. S!Restart => UNCHANGED <<account, available>>
  BY DEF S!Restart
<1>. QED
  BY <1>2, <1>3, <1>4, <1>5, <1>6, <1>7, <1>8, <1>9, <1>10 DEF S!Next

(***************************************************************************)
(* The money of each user that is neither available nor held for a pending *)
(* buy covers the auto buy, and what the polling thread is about to give   *)
(* back.                                                                   *)
(***************************************************************************)
Together == A!BuyInv(Held)

LEMMA TogetherFrame ==
    ASSUME Together, A!Typed, UNCHANGED autos,
           \A u \in Users : A!Free(Held, u)' = A!Free(Held, u)
    PROVE  Together'
<1>1. A!Covered(Held)'
  BY DEF Together, A!BuyInv, A!Covered, A!Reserved, autos
<1>2. A!BuyFrame(Held)'
  <2>1. poll = "buy_write" => seen.user \in Users
    BY DEF A!Typed, A!Locals
  <2>2. UNCHANGED <<auto_buy, auto_pc, cmd, poll, seen>>
    BY DEF autos
  <2>. QED
    BY <2>1, <2>2 DEF Together, A!BuyInv, A!BuyFrame, A!KindOf
<1>. QED
  BY <1>1, <1>2 DEF Together, A!BuyInv

LEMMA TogetherAutos ==
    ASSUME IsFiniteSet(BuyIds), A!CancelsApart, WInv, Together, [A!Next]_(A!vars),
           UNCHANGED hold
    PROVE  Together'
<1>1. Held \in [Users -> Int]
  BY HeldType DEF WInv, B!IInv
<1>2. PICK X \in [Users -> Int] : X = Held
  BY <1>1
<1>3. Held' = X
  BY <1>2 DEF Held, B!CostIn
<1>4. A!BuyInv(X)
  BY <1>2 DEF Together
<1>5. A!BuyInv(X)'
  BY <1>4, AutosBuyStep DEF WInv
<1>. QED
  BY <1>3, <1>5 DEF Together, A!BuyInv, A!BuyFrame, A!Covered, A!Free

LEMMA TogetherStep ==
    ASSUME IsFiniteSet(BuyIds), A!CancelsApart, WInv, WInv', Together, [Next]_vars
    PROVE  Together'
<1>0. B!TypeOK /\ B!TypeOK' /\ A!Typed
  BY DEF WInv, B!IInv
<1>1. ASSUME B!MoneyMoves, UNCHANGED autos
      PROVE  Together'
  <2>1. \A u \in Users : A!Free(Held, u)' = A!Free(Held, u)
    BY <1>0, <1>1, BuysSlackStep DEF A!Free, B!Slack, Held
  <2>. QED
    BY <1>0, <1>1, <2>1, TogetherFrame
<1>2. ASSUME NEW u \in Users, BuysCommand(u)
      PROVE  Together'
  <2>1. UNCHANGED autos
    BY <1>2 DEF BuysCommand
  <2>2. CASE CommitRaises(u)
    <3>1. B!MoneyMoves
      BY <2>2, CommitRaisesKeeps DEF CommitRaises, db, B!MoneyMoves, B!Ledger!vars
    <3>. QED
      BY <1>1, <2>1, <3>1
  <2>3. CASE B!Next
    BY <1>1, <2>1, <2>3, BuysMoneyStep DEF WInv
  <2>4. CommitRaises(u) \/ B!Next
    BY <1>2, BuysCommands, SameSymbol DEF BuysCommand, B!Next, B!Threads
  <2>. QED
    BY <2>2, <2>3, <2>4
<1>3. CASE BuysStep
  BY <1>1, <1>3, BuysStepKeeps, BuysMoneyStep DEF WInv
<1>4. ASSUME S!Next, UNCHANGED buys, UNCHANGED autos
      PROVE  Together'
  <2>1. Held' = Held
    BY <1>4 DEF Held, B!CostIn, buys
  <2>2. \A u \in Users : A!Free(Held, u)' = A!Free(Held, u)
    BY <1>4, <2>1, SellsMoney DEF A!Free, WInv
  <2>. QED
    BY <1>0, <1>4, <2>2, TogetherFrame
<1>5. ASSUME NEW u \in Users, SellsCommand(u)
      PROVE  Together'
  BY <1>4, <1>5, SellsCommandKeeps
<1>6. CASE SellsStep
  BY <1>4, <1>6, SellsStepKeeps
<1>7. ASSUME NEW u \in Users, AutosCommand(u)
      PROVE  Together'
  BY <1>7, AutosCommandKeeps, TogetherAutos DEF buys
<1>8. CASE AutosStep
  BY <1>8, AutosStepKeeps, TogetherAutos DEF buys
<1>9. CASE Restart
  <2>1. A!Next /\ UNCHANGED hold
    BY <1>9, AutosFaults, BuysSteps DEF Restart, A!Next, B!Restart
  <2>. QED
    BY <2>1, TogetherAutos
<1>10. CASE UNCHANGED vars
  BY <1>10, TogetherAutos DEF vars, A!vars
<1>. QED
  BY <1>2, <1>3, <1>5, <1>6, <1>7, <1>8, <1>9, <1>10 DEF Next

LEMMA TogetherInit ==
    ASSUME IsFiniteSet(BuyIds), Init
    PROVE  Together
<1>1. A!Init
  BY DEF Init, Autos!Init, A!Init, Autos!NoCmd, A!NoCmd, Autos!NotSeen, A!NotSeen
<1>2. ASSUME NEW u \in Users
      PROVE  B!CostIn("held", u) = 0
  <2>1. \A b \in BuyIds : B!Shares("held", u)[b] = 0
    BY DEF Init, Buys!NoHold, B!Shares, B!Share
  <2>2. B!Shares("held", u) \in [BuyIds -> Int]
    BY <2>1 DEF B!Shares
  <2>. QED
    BY <2>1, <2>2, BuysConstants, SameFinite, B!CostIsSum, B!SumOfZeros
<1>3. MaxFunds - MaxFunds - 0 >= 0
  BY FundsAssumption
<1>4. A!Covered(Held)
  BY <1>1, <1>2, <1>3 DEF A!Init, A!Covered, A!Free, A!Reserved, Held
<1>5. A!BuyFrame(Held)
  BY <1>1, A!Places, BuysConstants, AutosConstants DEF A!Init, A!BuyFrame
<1>. QED
  BY <1>4, <1>5 DEF Together, A!BuyInv

(***************************************************************************)
(* The money of a user that is not available covers their pending buys and *)
(* their automatic buy together, as long as no CANCEL_SET_BUY is in        *)
(* progress during a pass.                                                 *)
(***************************************************************************)
THEOREM FundsReservedTogether ==
    ASSUME IsFiniteSet(BuyIds), "cancel_set_buy" \notin Overlapping
    PROVE  Spec => []ReservedTogether
<1>1. A!CancelsApart
  BY DEF A!CancelsApart
<1>2. WInv /\ Together => ReservedTogether
  <2>. SUFFICES ASSUME WInv, Together, NEW u \in Users
                PROVE  Buys!CostIn("held", u) + Autos!Reserved(u) <= account[u] - available[u]
    BY DEF ReservedTogether
  <2>1. A!Reserved(u) <= account[u] - available[u] - Held[u]
    BY DEF Together, A!BuyInv, A!Covered, A!Free
  <2>2. Held[u] = Buys!CostIn("held", u) /\ A!Reserved(u) = Autos!Reserved(u)
    BY SameSums DEF Held, B!CostIn, Buys!CostIn, A!Reserved, Autos!Reserved
  <2>3. A!Reserved(u) \in Nat /\ account[u] \in Int /\ available[u] \in Int
    BY A!ReservedType, BuysConstants, AutosConstants DEF WInv
  <2>4. Held[u] \in Int
    BY HeldType DEF WInv, B!IInv
  <2>. QED
    BY <2>1, <2>2, <2>3, <2>4
<1>3. Init => Together
  BY TogetherInit
<1>4. WInv /\ WInv' /\ Together /\ [Next]_vars => Together'
  BY <1>1, TogetherStep
<1>. QED
  BY <1>2, <1>3, <1>4, WInvHolds, PTL DEF Spec
=================================================================================
