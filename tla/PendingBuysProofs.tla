---------------------------- MODULE PendingBuysProofs ----------------------------
(***************************************************************************)
(* Proofs about PendingBuys, for any number of users, stocks and BUYs, any *)
(* prices and sums, and with or without exceptions and restarts.           *)
(***************************************************************************)
EXTENDS PendingBuys, SumsAndRows, TLAPS

USE PricesAssumption, DepositsAssumption, NoneIsNoPrice, DebtsAssumption,
    ThreadsAssumption, NoneAssumption, NoneIsNoBuy, SwitchesAssumption

-----------------------------------------------------------------------------
(***************************************************************************)
(* The inductive invariant.  What a thread is in the middle of is in its   *)
(* frame, and the reservation a BUY is about to make is fresh.  It says    *)
(* nothing of the funds, which other threads of the worker may take.       *)
(***************************************************************************)
FrameOK ==
    \A t \in Threads :
        /\ pc[t] \notin {"idle", "unarmed", "cancelled", "done"} => frame[t].user \in Users
        /\ pc[t] \in {"buy_reserve", "buy_record", "buy_swap", "buy_arm",
                      "commit_settle", "cancel_release"} => frame[t].buy \in Buy

ReserveReady ==
    pc[Main] = "buy_reserve" =>
        /\ hold[frame[Main].buy.id].state = "none"
        /\ Cost(frame[Main].buy) \in Costs

IInv ==
    /\ TypeOK
    /\ FrameOK
    /\ ReserveReady
    /\ DictHeld
    /\ CarriedHeld
    /\ OneOwner

-----------------------------------------------------------------------------
(***************************************************************************)
(* Lemmas on the operators the actions are built from.                     *)
(***************************************************************************)

(* The cost of a buy is a sum of money. *)
LEMMA CostType == \A b \in Buy : Cost(b) \in Nat
<1>. SUFFICES ASSUME NEW b \in Buy PROVE b.num_stocks * b.quote \in Nat
  BY DEF Cost
<1>1. b.num_stocks \in Nat /\ b.quote \in Nat
  BY DEF Buy
<1>2. \A m, n \in Nat : m * n \in Nat
  OBVIOUS
<1>. QED
  BY <1>1, <1>2

(* The frame of a thread that runs no handler. *)
LEMMA NoFrameType == NoFrame \in Frame
BY DEF NoFrame, Frame

(* What a BUY computes from its quote is a buy, of one of the costs. *)
LEMMA QuotedBuy ==
    ASSUME NEW id \in BuyIds, NEW s \in Stocks, NEW d \in Debts, NEW v \in Prices
    PROVE  LET b == [id |-> id, stock |-> s, num_stocks |-> d \div v, quote |-> v]
           IN  b \in Buy /\ Cost(b) \in Costs
<1>1. d \in Nat /\ v \in Nat \ {0}
  OBVIOUS
<1>2. d \div v \in Nat
  BY <1>1
<1>. QED
  BY <1>2 DEF Buy, Cost, Costs

(* A push leaves an array of holdings. *)
LEMMA PushedType ==
    ASSUME DbTypeOK, NEW u \in Users, NEW s \in Stocks, NEW h \in Holding
    PROVE  Pushed(u, s, h) \in [Users -> [Stocks -> Seq(Holding)]]
<1>1. stocks[u][s] \in Seq(Holding)
  BY DEF DbTypeOK
<1>2. Append(stocks[u][s], h) \in Seq(Holding)
  BY <1>1
<1>. QED
  BY <1>2 DEF Pushed, DbTypeOK

(* A positional update leaves an array of holdings.                        *)
LEMMA IncreasedType ==
    ASSUME DbTypeOK, NEW u \in Users, NEW s \in Stocks, Owns(u, s),
           NEW da \in Int, NEW dv \in Int
    PROVE  Increased(u, s, da, dv) \in [Users -> [Stocks -> Seq(Holding)]]
<1>. DEFINE q == stocks[u][s]
            h == [amount |-> q[1].amount + da, available |-> q[1].available + dv]
            r == [q EXCEPT ![1] = h]
<1>1. q \in Seq(Holding) /\ Len(q) \in Nat /\ Len(q) > 0
  BY DEF DbTypeOK, Owns
<1>2. q[1] \in Holding
  BY <1>1
<1>3. h \in Holding
  BY <1>2 DEF Holding
<1>4. r \in Seq(Holding)
  BY <1>1, <1>3
<1>5. Increased(u, s, da, dv) = [stocks EXCEPT ![u] = [stocks[u] EXCEPT ![s] = r]]
  BY DEF Increased
<1>. QED
  BY <1>4, <1>5 DEF DbTypeOK

-----------------------------------------------------------------------------
(***************************************************************************)
(* The initial state is well typed.                                        *)
(***************************************************************************)
LEMMA TypeInit == Init => TypeOK
BY DEF Init, DbInit, TypeOK, DbTypeOK, NoFrame, NoHold, Threads, MainPC, TimerPC, Frame

(* Every step keeps the state well typed.                                  *)
LEMMA TypeStep == TypeOK /\ FrameOK /\ CarriedHeld /\ [Next]_vars => TypeOK'
<1>. SUFFICES ASSUME TypeOK, FrameOK, CarriedHeld, [Next]_vars
              PROVE  TypeOK'
  OBVIOUS
<1>. USE DEF Threads, MainPC, TimerPC
<1>1. ASSUME NEW u \in Users, NEW a \in Deposits, MainIdle(Add(u, a))
      PROVE  TypeOK'
  BY <1>1 DEF MainIdle, Add, TypeOK, DbTypeOK, mem
<1>2. ASSUME NEW u \in Users, NEW s \in Stocks, NEW v \in Prices, MainIdle(Quote(u, s, v))
      PROVE  TypeOK'
  BY <1>2 DEF MainIdle, Quote, CacheQuote, TypeOK, DbTypeOK, mem
<1>3. ASSUME NEW u \in Users, NEW s \in Stocks, NEW d \in Debts, NEW id \in BuyIds,
             NEW v \in Prices, BuyCheck(u, s, d, id, v)
      PROVE  TypeOK'
  <2>. DEFINE b == [id |-> id, stock |-> s, num_stocks |-> d \div v, quote |-> v]
  <2>1. b \in Buy
    BY QuotedBuy
  <2>2. frame' = frame \/ frame' = [frame EXCEPT ![Main] =
                                       [user |-> u, buy |-> b, found |-> FALSE]]
    BY <1>3 DEF BuyCheck
  <2>3. frame' \in [Threads -> Frame]
    <3>1. [user |-> u, buy |-> b, found |-> FALSE] \in Frame
      BY <2>1 DEF Frame
    <3>2. frame \in [Threads -> Frame]
      BY DEF TypeOK
    <3>. HIDE DEF b
    <3>. QED
      BY <2>2, <3>1, <3>2
  <2>4. pc' = pc \/ pc' = [pc EXCEPT ![Main] = "buy_reserve"]
    BY <1>3 DEF BuyCheck, Goto
  <2>. QED
    BY <1>3, <2>3, <2>4 DEF BuyCheck, CacheQuote, TypeOK, DbTypeOK
<1>4. CASE BuyReserve
  <2>1. frame[Main].user \in Users /\ frame[Main].buy \in Buy
    BY <1>4 DEF BuyReserve, FrameOK
  <2>2. Cost(frame[Main].buy) \in Nat /\ frame[Main].buy.id \in BuyIds
    BY <2>1, CostType DEF Buy
  <2>. QED
    BY <1>4, <2>1, <2>2 DEF BuyReserve, Goto, TypeOK, DbTypeOK
<1>5. CASE BuyRecord
  <2>1. frame[Main].user \in Users /\ frame[Main].buy \in Buy
    BY <1>5 DEF BuyRecord, FrameOK
  <2>. QED
    BY <1>5, <2>1 DEF BuyRecord, Goto, TypeOK, DbTypeOK
<1>6. CASE BuySwap
  <2>1. frame[Main].user \in Users /\ frame[Main] \in Frame
    BY <1>6 DEF BuySwap, FrameOK, TypeOK
  <2>2. frame' \in [Threads -> Frame]
    BY <1>6, <2>1 DEF BuySwap, TypeOK, Frame
  <2>. QED
    BY <1>6, <2>1, <2>2 DEF BuySwap, Cancelled, TypeOK, DbTypeOK
<1>7. CASE BuyArm
  <2>1. frame[Main].user \in Users /\ frame[Main].buy.id \in BuyIds
    BY <1>7 DEF BuyArm, FrameOK, Buy
  <2>. QED
    BY <1>7, <2>1 DEF BuyArm, Started, TypeOK, DbTypeOK, Frame, NoFrame
<1>8. ASSUME NEW u \in Users, CommitTake(u)
      PROVE  TypeOK'
  <2>1. frame' \in [Threads -> Frame]
    BY <1>8 DEF CommitTake, Found, Owns, TypeOK, Frame
  <2>. QED
    BY <1>8, <2>1 DEF CommitTake, PopBuy, Cancelled, TypeOK, DbTypeOK
<1>9. CASE CommitSettle
  <2>. DEFINE u == frame[Main].user
              b == frame[Main].buy
  <2>1. u \in Users /\ b \in Buy /\ Cost(b) \in Nat
    BY <1>9, CostType DEF CommitSettle, FrameOK
  <2>2. b.num_stocks \in Int /\ b.stock \in Stocks /\ b.id \in BuyIds
    BY <2>1 DEF Buy
  <2>3. stocks' \in [Users -> [Stocks -> Seq(Holding)]]
    <3>1. [amount |-> b.num_stocks, available |-> b.num_stocks] \in Holding
      BY <2>2 DEF Holding
    <3>2. DbTypeOK
      BY DEF TypeOK
    <3>3. \/ stocks' = stocks
          \/ stocks' = Pushed(u, b.stock, [amount |-> b.num_stocks,
                                           available |-> b.num_stocks])
          \/ /\ Owns(u, b.stock)
             /\ stocks' = Increased(u, b.stock, b.num_stocks, b.num_stocks)
      BY <1>9 DEF CommitSettle
    <3>. QED
      BY <2>1, <2>2, <3>1, <3>2, <3>3, PushedType, IncreasedType DEF DbTypeOK
  <2>4. hold' = hold \/ hold' = [hold EXCEPT ![b.id].state = "spent"]
    BY <1>9 DEF CommitSettle
  <2>5. account' = account \/ account' = [account EXCEPT ![u] = @ - Cost(b)]
    BY <1>9 DEF CommitSettle
  <2>6. pc' = [pc EXCEPT ![Main] = "idle"] /\ frame' = [frame EXCEPT ![Main] = NoFrame]
    BY <1>9 DEF CommitSettle, End, Goto, EndPC
  <2>7. hold' \in [BuyIds -> [state : {"none", "held", "spent", "freed"},
                              user : Users \cup {None}, cost : Int]]
    BY <2>2, <2>4 DEF TypeOK
  <2>8. account' \in [Users -> Int]
    BY <2>1, <2>5 DEF TypeOK, DbTypeOK
  <2>9. frame' \in [Threads -> Frame]
    BY <2>6, NoFrameType DEF TypeOK
  <2>. QED
    BY <1>9, <2>3, <2>6, <2>7, <2>8, <2>9 DEF CommitSettle, TypeOK, DbTypeOK
<1>10. ASSUME NEW b \in BuyIds, Fire(b)
       PROVE  TypeOK'
  BY <1>10 DEF Fire, Goto, TypeOK, DbTypeOK
<1>11. ASSUME NEW t \in Threads, NEW u \in Users, CancelTimer(t, u)
       PROVE  TypeOK'
  <2>1. frame' \in [Threads -> Frame]
    BY <1>11 DEF CancelTimer, TypeOK, Frame
  <2>. QED
    BY <1>11, <2>1 DEF CancelTimer, Cancelled, TypeOK, DbTypeOK
<1>12. ASSUME NEW t \in Threads, CancelTake(t)
       PROVE  TypeOK'
  <2>1. frame[t].user \in Users /\ frame[t] \in Frame
    BY <1>12 DEF CancelTake, FrameOK, TypeOK
  <2>2. frame' \in [Threads -> Frame]
    <3>1. \/ frame' = [frame EXCEPT ![t] = NoFrame]
          \/ /\ uncommitted_buys[frame[t].user] # None
             /\ frame' = [frame EXCEPT ![t].buy = uncommitted_buys[frame[t].user]]
      BY <1>12 DEF CancelTake, End
    <3>2. uncommitted_buys[frame[t].user] \in Buy \cup {None}
      BY <2>1 DEF TypeOK
    <3>3. CASE frame' = [frame EXCEPT ![t] = NoFrame]
      BY <3>3, NoFrameType DEF TypeOK
    <3>4. CASE frame' = [frame EXCEPT ![t].buy = uncommitted_buys[frame[t].user]]
      BY <2>1, <3>2, <3>4 DEF TypeOK, Frame
    <3>. QED
      BY <3>1, <3>3, <3>4
  <2>3. pc' = [pc EXCEPT ![t] = "cancel_release"] \/ pc' = [pc EXCEPT ![t] = EndPC(t)]
    BY <1>12 DEF CancelTake, End, Goto
  <2>. QED
    BY <1>12, <2>1, <2>2, <2>3 DEF CancelTake, PopBuy, EndPC, TypeOK, DbTypeOK
<1>13. ASSUME NEW t \in Threads, CancelRelease(t)
       PROVE  TypeOK'
  <2>1. frame[t].user \in Users /\ frame[t].buy \in Buy /\ frame[t].buy.id \in BuyIds
    BY <1>13 DEF CancelRelease, FrameOK, Buy
  <2>2. Cost(frame[t].buy) \in Nat
    BY <2>1, CostType
  <2>3. hold' \in [BuyIds -> [state : {"none", "held", "spent", "freed"},
                              user : Users \cup {None}, cost : Int]]
    BY <1>13, <2>1 DEF CancelRelease, TypeOK
  <2>4. available' \in [Users -> Int]
    BY <1>13, <2>1, <2>2 DEF CancelRelease, TypeOK, DbTypeOK
  <2>5. frame' \in [Threads -> Frame]
    BY <1>13, NoFrameType DEF CancelRelease, End, TypeOK
  <2>. QED
    BY <1>13, <2>3, <2>4, <2>5
    DEF CancelRelease, End, Goto, EndPC, TypeOK, DbTypeOK
<1>14. ASSUME NEW t \in Threads, Raise(t)
       PROVE  TypeOK'
  BY <1>14 DEF Raise, End, Goto, EndPC, TypeOK, DbTypeOK, Frame, NoFrame
<1>15. CASE Restart
  BY <1>15 DEF Restart, EndPC, TypeOK, DbTypeOK, Frame, NoFrame
<1>16. CASE UNCHANGED vars
  BY <1>16 DEF vars, TypeOK, DbTypeOK
<1>. QED
  BY <1>1, <1>2, <1>3, <1>4, <1>5, <1>6, <1>7, <1>8, <1>9, <1>10, <1>11, <1>12,
     <1>13, <1>14, <1>15, <1>16 DEF Next, BuyStep, CancelStep

-----------------------------------------------------------------------------

(* What the invariant says of the reservation of a recorded buy, ...       *)
LEMMA DictState ==
    ASSUME IInv, NEW u \in Users, uncommitted_buys[u] # None
    PROVE  /\ uncommitted_buys[u].id \in BuyIds
           /\ hold[uncommitted_buys[u].id].state = "held"
           /\ hold[uncommitted_buys[u].id].user = u
<1>1. hold[uncommitted_buys[u].id] =
          [state |-> "held", user |-> u, cost |-> Cost(uncommitted_buys[u])]
  BY Zenon DEF IInv, DictHeld
<1>2. uncommitted_buys[u] \in Buy
  BY DEF IInv, TypeOK
<1>. QED
  BY <1>1, <1>2 DEF Buy

(* ... and of one that a thread carries.                                   *)
LEMMA CarriedState ==
    ASSUME IInv, NEW t \in Threads, Carries(t)
    PROVE  /\ frame[t].buy.id \in BuyIds
           /\ hold[frame[t].buy.id].state = "held"
           /\ hold[frame[t].buy.id].user = frame[t].user
           /\ hold[frame[t].buy.id].cost = Cost(frame[t].buy)
<1>1. hold[frame[t].buy.id] =
          [state |-> "held", user |-> frame[t].user, cost |-> Cost(frame[t].buy)]
  BY Zenon DEF IInv, CarriedHeld
<1>2. frame[t].buy \in Buy
  BY DEF IInv, FrameOK, Carries
<1>. QED
  BY <1>1, <1>2 DEF Buy

(* A thread in the middle of a handler keeps what it works on. *)
LEMMA FrameOKStep == IInv /\ [Next]_vars => FrameOK'
<1>. SUFFICES ASSUME IInv, [Next]_vars
              PROVE  FrameOK'
  OBVIOUS
<1>. USE DEF IInv, TypeOK, DbTypeOK, Threads, MainPC, TimerPC, Frame
<1>1. ASSUME NEW u \in Users, NEW a \in Deposits, MainIdle(Add(u, a))
      PROVE  FrameOK'
  BY <1>1 DEF MainIdle, Add, mem, FrameOK
<1>2. ASSUME NEW u \in Users, NEW s \in Stocks, NEW v \in Prices, MainIdle(Quote(u, s, v))
      PROVE  FrameOK'
  BY <1>2 DEF MainIdle, Quote, mem, FrameOK
<1>3. ASSUME NEW u \in Users, NEW s \in Stocks, NEW d \in Debts, NEW id \in BuyIds,
             NEW v \in Prices, BuyCheck(u, s, d, id, v)
      PROVE  FrameOK'
  <2>. DEFINE b == [id |-> id, stock |-> s, num_stocks |-> d \div v, quote |-> v]
  <2>1. b \in Buy
    BY QuotedBuy
  <2>2. \/ pc' = pc /\ frame' = frame
        \/ /\ pc' = [pc EXCEPT ![Main] = "buy_reserve"]
           /\ frame' = [frame EXCEPT ![Main] = [user |-> u, buy |-> b, found |-> FALSE]]
    BY <1>3 DEF BuyCheck, Goto
  <2>. HIDE DEF b
  <2>. QED
    BY <2>1, <2>2 DEF FrameOK
<1>4. CASE BuyReserve
  BY <1>4 DEF BuyReserve, Goto, FrameOK
<1>5. CASE BuyRecord
  BY <1>5 DEF BuyRecord, Goto, FrameOK
<1>6. CASE BuySwap
  <2>1. \A t \in Threads : frame'[t].user = frame[t].user /\ frame'[t].buy = frame[t].buy
    BY <1>6 DEF BuySwap
  <2>2. \A t \in BuyIds : pc'[t] = pc[t] \/ pc'[t] = "cancelled"
    BY <1>6 DEF BuySwap, Cancelled
  <2>3. pc[Main] = "buy_swap"
    BY <1>6 DEF BuySwap
  <2>. QED
    BY <2>1, <2>2, <2>3 DEF FrameOK
<1>7. CASE BuyArm
  BY <1>7 DEF BuyArm, Started, NoFrame, FrameOK
<1>8. ASSUME NEW u \in Users, CommitTake(u)
      PROVE  FrameOK'
  BY <1>8 DEF CommitTake, PopBuy, Cancelled, FrameOK
<1>9. CASE CommitSettle
  BY <1>9 DEF CommitSettle, End, EndPC, Goto, NoFrame, FrameOK
<1>10. ASSUME NEW b \in BuyIds, Fire(b)
      PROVE  FrameOK'
  BY <1>10 DEF Fire, Goto, FrameOK
<1>11. ASSUME NEW t \in Threads, NEW u \in Users, CancelTimer(t, u)
      PROVE  FrameOK'
  BY <1>11 DEF CancelTimer, Cancelled, FrameOK
<1>12. ASSUME NEW t \in Threads, CancelTake(t)
      PROVE  FrameOK'
  <2>1. \A x \in Threads \ {t} : pc'[x] = pc[x] /\ frame'[x] = frame[x]
    BY <1>12 DEF CancelTake, End, Goto
  <2>2. frame[t].user \in Users /\ frame[t] \in Frame
    BY <1>12 DEF CancelTake, FrameOK
  <2>3. \/ pc'[t] \in {"idle", "done"}
        \/ /\ pc'[t] = "cancel_release"
           /\ frame'[t].user = frame[t].user
           /\ frame'[t].buy \in Buy
    <3>1. uncommitted_buys[frame[t].user] \in Buy \cup {None}
      BY <2>2
    <3>. QED
      BY <1>12, <2>2, <3>1 DEF CancelTake, End, EndPC, Goto
  <2>. QED
    BY <2>1, <2>2, <2>3 DEF FrameOK
<1>13. ASSUME NEW t \in Threads, CancelRelease(t)
      PROVE  FrameOK'
  BY <1>13 DEF CancelRelease, End, EndPC, Goto, NoFrame, FrameOK
<1>14. ASSUME NEW t \in Threads, Raise(t)
      PROVE  FrameOK'
  BY <1>14 DEF Raise, MayRaise, End, EndPC, Goto, NoFrame, FrameOK
<1>15. CASE Restart
  BY <1>15 DEF Restart, EndPC, NoFrame, FrameOK
<1>16. CASE UNCHANGED vars
  BY <1>16 DEF vars, FrameOK
<1>. QED
  BY <1>1, <1>2, <1>3, <1>4, <1>5, <1>6, <1>7, <1>8,
     <1>9, <1>10, <1>11, <1>12, <1>13, <1>14, <1>15, <1>16
  DEF Next, BuyStep, CancelStep

(* Nothing else reserves for a BUY that is about to.                       *)
LEMMA ReserveReadyStep == IInv /\ [Next]_vars => ReserveReady'
<1>. SUFFICES ASSUME IInv, [Next]_vars
              PROVE  ReserveReady'
  OBVIOUS
<1>. USE DEF IInv, TypeOK, DbTypeOK, Threads, MainPC, TimerPC, Frame
<1>1. ASSUME NEW u \in Users, NEW a \in Deposits, MainIdle(Add(u, a))
      PROVE  ReserveReady'
  BY <1>1 DEF MainIdle, Add, mem, ReserveReady
<1>2. ASSUME NEW u \in Users, NEW s \in Stocks, NEW v \in Prices, MainIdle(Quote(u, s, v))
      PROVE  ReserveReady'
  BY <1>2 DEF MainIdle, Quote, mem, ReserveReady
<1>3. ASSUME NEW u \in Users, NEW s \in Stocks, NEW d \in Debts, NEW id \in BuyIds,
             NEW v \in Prices, BuyCheck(u, s, d, id, v)
      PROVE  ReserveReady'
  <2>. DEFINE b == [id |-> id, stock |-> s, num_stocks |-> d \div v, quote |-> v]
  <2>1. b \in Buy /\ Cost(b) \in Costs /\ b.id = id
    BY QuotedBuy
  <2>2. hold' = hold /\ hold[id].state = "none"
    BY <1>3 DEF BuyCheck
  <2>3. \/ pc' = pc /\ pc[Main] = "idle"
        \/ frame' = [frame EXCEPT ![Main] = [user |-> u, buy |-> b, found |-> FALSE]]
    BY <1>3 DEF BuyCheck, Goto
  <2>. HIDE DEF b
  <2>. QED
    BY <2>1, <2>2, <2>3 DEF ReserveReady
<1>4. CASE BuyReserve
  BY <1>4 DEF BuyReserve, Goto, ReserveReady
<1>5. CASE BuyRecord
  BY <1>5 DEF BuyRecord, Goto, ReserveReady
<1>6. CASE BuySwap
  BY <1>6 DEF BuySwap, Cancelled, ReserveReady
<1>7. CASE BuyArm
  BY <1>7 DEF BuyArm, Started, NoFrame, ReserveReady
<1>8. ASSUME NEW u \in Users, CommitTake(u)
      PROVE  ReserveReady'
  BY <1>8 DEF CommitTake, PopBuy, Cancelled, ReserveReady
<1>9. CASE CommitSettle
  BY <1>9 DEF CommitSettle, End, EndPC, Goto, NoFrame, ReserveReady
<1>10. ASSUME NEW b \in BuyIds, Fire(b)
      PROVE  ReserveReady'
  BY <1>10 DEF Fire, Goto, ReserveReady
<1>11. ASSUME NEW t \in Threads, NEW u \in Users, CancelTimer(t, u)
      PROVE  ReserveReady'
  BY <1>11 DEF CancelTimer, Cancelled, ReserveReady
<1>12. ASSUME NEW t \in Threads, CancelTake(t)
      PROVE  ReserveReady'
  BY <1>12 DEF CancelTake, PopBuy, End, EndPC, Goto, NoFrame, ReserveReady
<1>13. ASSUME NEW t \in Threads, CancelRelease(t)
      PROVE  ReserveReady'
  <2>1. CASE pc'[Main] # "buy_reserve"
    BY <2>1 DEF ReserveReady
  <2>2. CASE pc'[Main] = "buy_reserve"
    <3>1. t # Main /\ pc[Main] = "buy_reserve" /\ frame'[Main] = frame[Main]
      BY <1>13, <2>2 DEF CancelRelease, End, EndPC, Goto
    <3>2. frame[t].user \in Users /\ frame[t].buy \in Buy /\ frame[t].buy.id \in BuyIds
      BY <1>13 DEF CancelRelease, FrameOK, Buy
    <3>3. frame[Main].buy.id \in BuyIds
      BY <3>1 DEF FrameOK, Buy
    <3>4. hold[frame[t].buy.id].state = "held"
      BY <1>13, CarriedState DEF CancelRelease, Carries
    <3>5. hold'[frame[Main].buy.id].state = "none"
      BY <1>13, <3>1, <3>2, <3>3, <3>4 DEF CancelRelease, ReserveReady
    <3>. QED
      BY <3>1, <3>5 DEF ReserveReady
  <2>. QED
    BY <2>1, <2>2
<1>14. ASSUME NEW t \in Threads, Raise(t)
      PROVE  ReserveReady'
  BY <1>14 DEF Raise, MayRaise, End, EndPC, Goto, NoFrame, ReserveReady
<1>15. CASE Restart
  BY <1>15 DEF Restart, EndPC, NoFrame, ReserveReady
<1>16. CASE UNCHANGED vars
  BY <1>16 DEF vars, ReserveReady
<1>. QED
  BY <1>1, <1>2, <1>3, <1>4, <1>5, <1>6, <1>7, <1>8,
     <1>9, <1>10, <1>11, <1>12, <1>13, <1>14, <1>15, <1>16
  DEF Next, BuyStep, CancelStep

(* Whoever carries or records a buy is the only one to: settling the buy a *)
(* thread carries changes no reservation that another owner holds.         *)
LEMMA SettleKeepsOthers ==
    ASSUME IInv, NEW t \in Threads, Carries(t), ~Carries(t)', NEW x,
           \/ hold' = hold
           \/ hold' = [hold EXCEPT ![frame[t].buy.id].state = x],
           UNCHANGED uncommitted_buys,
           \A y \in Threads \ {t} : pc'[y] = pc[y] /\ frame'[y] = frame[y]
    PROVE  DictHeld' /\ CarriedHeld'
<1>. USE DEF IInv
<1>1. frame[t].buy \in Buy /\ frame[t].buy.id \in BuyIds
  BY DEF FrameOK, Carries, Buy
<1>2. \A i \in BuyIds \ {frame[t].buy.id} : hold'[i] = hold[i]
  BY <1>1 DEF TypeOK
<1>3. DictHeld'
  <2>. SUFFICES ASSUME NEW u \in Users, uncommitted_buys[u] # None
                PROVE  hold'[uncommitted_buys[u].id] =
                          [state |-> "held", user |-> u, cost |-> Cost(uncommitted_buys[u])]
    BY DEF DictHeld
  <2>1. uncommitted_buys[u].id \in BuyIds
    BY DEF TypeOK, Buy
  <2>2. uncommitted_buys[u].id # frame[t].buy.id
    BY DEF OneOwner, Recorded
  <2>. QED
    BY <1>2, <2>1, <2>2 DEF DictHeld
<1>4. CarriedHeld'
  <2>. SUFFICES ASSUME NEW y \in Threads, Carries(y)'
                PROVE  /\ frame'[y].user # None /\ frame'[y].buy # None
                       /\ hold'[frame'[y].buy.id] =
                             [state |-> "held", user |-> frame'[y].user,
                              cost |-> Cost(frame'[y].buy)]
    BY DEF CarriedHeld
  <2>1. y # t /\ Carries(y) /\ frame'[y] = frame[y]
    BY DEF Carries
  <2>2. frame[y].buy.id \in BuyIds /\ frame[y].buy.id # frame[t].buy.id
    BY <2>1 DEF FrameOK, Carries, Buy, OneOwner
  <2>3. hold'[frame[y].buy.id] = hold[frame[y].buy.id]
    BY <1>2, <2>2
  <2>. QED
    BY <2>1, <2>3 DEF CarriedHeld
<1>. QED
  BY <1>3, <1>4

(* A recorded buy stays a held reservation. *)
LEMMA DictHeldStep == IInv /\ [Next]_vars => DictHeld'
<1>. SUFFICES ASSUME IInv, [Next]_vars
              PROVE  DictHeld'
  OBVIOUS
<1>. USE DEF IInv, TypeOK, DbTypeOK, Threads, MainPC, TimerPC, Frame
<1>1. ASSUME NEW u \in Users, NEW a \in Deposits, MainIdle(Add(u, a))
      PROVE  DictHeld'
  BY <1>1 DEF MainIdle, Add, mem, DictHeld
<1>2. ASSUME NEW u \in Users, NEW s \in Stocks, NEW v \in Prices, MainIdle(Quote(u, s, v))
      PROVE  DictHeld'
  BY <1>2 DEF MainIdle, Quote, mem, DictHeld
<1>3. ASSUME NEW u \in Users, NEW s \in Stocks, NEW d \in Debts, NEW id \in BuyIds,
             NEW v \in Prices, BuyCheck(u, s, d, id, v)
      PROVE  DictHeld'
  BY <1>3 DEF BuyCheck, Goto, DictHeld
<1>4. CASE BuyReserve
  <2>1. frame[Main].buy.id \in BuyIds /\ hold[frame[Main].buy.id].state = "none"
    BY <1>4 DEF BuyReserve, FrameOK, ReserveReady, Buy
  <2>2. \A i \in BuyIds \ {frame[Main].buy.id} : hold'[i] = hold[i]
    BY <1>4 DEF BuyReserve
  <2>3. UNCHANGED uncommitted_buys
    BY <1>4 DEF BuyReserve
  <2>4. \A u \in Users : uncommitted_buys[u] # None =>
            uncommitted_buys[u].id \in BuyIds \ {frame[Main].buy.id}
    BY <2>1, DictState
  <2>. QED
    BY <2>2, <2>3, <2>4 DEF DictHeld
<1>5. CASE BuyRecord
  <2>1. hold[frame[Main].buy.id] =
          [state |-> "held", user |-> frame[Main].user, cost |-> Cost(frame[Main].buy)]
    BY <1>5, Zenon DEF BuyRecord, CarriedHeld, Carries
  <2>2. frame[Main].user \in Users
    BY <1>5 DEF BuyRecord, FrameOK
  <2>. QED
    BY <1>5, <2>1, <2>2 DEF BuyRecord, DictHeld
<1>6. CASE BuySwap
  BY <1>6 DEF BuySwap, Cancelled, DictHeld
<1>7. CASE BuyArm
  BY <1>7 DEF BuyArm, Started, NoFrame, DictHeld
<1>8. ASSUME NEW u \in Users, CommitTake(u)
      PROVE  DictHeld'
  BY <1>8 DEF CommitTake, PopBuy, Cancelled, DictHeld
<1>9. CASE CommitSettle
  <2>1. Carries(Main) /\ ~Carries(Main)'
    BY <1>9 DEF CommitSettle, Carries, End, EndPC, Goto
  <2>2. \/ hold' = hold
        \/ hold' = [hold EXCEPT ![frame[Main].buy.id].state = "spent"]
    BY <1>9 DEF CommitSettle
  <2>3. \A y \in Threads \ {Main} : pc'[y] = pc[y] /\ frame'[y] = frame[y]
    BY <1>9 DEF CommitSettle, End, Goto
  <2>. QED
    BY <1>9, <2>1, <2>2, <2>3, SettleKeepsOthers DEF CommitSettle
<1>10. ASSUME NEW b \in BuyIds, Fire(b)
      PROVE  DictHeld'
  BY <1>10 DEF Fire, Goto, DictHeld
<1>11. ASSUME NEW t \in Threads, NEW u \in Users, CancelTimer(t, u)
      PROVE  DictHeld'
  BY <1>11 DEF CancelTimer, Cancelled, DictHeld
<1>12. ASSUME NEW t \in Threads, CancelTake(t)
      PROVE  DictHeld'
  BY <1>12 DEF CancelTake, PopBuy, End, EndPC, Goto, NoFrame, DictHeld
<1>13. ASSUME NEW t \in Threads, CancelRelease(t)
      PROVE  DictHeld'
  <2>1. Carries(t) /\ ~Carries(t)'
    BY <1>13 DEF CancelRelease, Carries, End, EndPC, Goto
  <2>2. hold' = [hold EXCEPT ![frame[t].buy.id].state = "freed"]
    BY <1>13 DEF CancelRelease
  <2>3. \A y \in Threads \ {t} : pc'[y] = pc[y] /\ frame'[y] = frame[y]
    BY <1>13 DEF CancelRelease, End, Goto
  <2>. QED
    BY <1>13, <2>1, <2>2, <2>3, SettleKeepsOthers DEF CancelRelease
<1>14. ASSUME NEW t \in Threads, Raise(t)
      PROVE  DictHeld'
  BY <1>14 DEF Raise, MayRaise, End, EndPC, Goto, NoFrame, DictHeld
<1>15. CASE Restart
  BY <1>15 DEF Restart, EndPC, NoFrame, DictHeld
<1>16. CASE UNCHANGED vars
  BY <1>16 DEF vars, DictHeld
<1>. QED
  BY <1>1, <1>2, <1>3, <1>4, <1>5, <1>6, <1>7, <1>8,
     <1>9, <1>10, <1>11, <1>12, <1>13, <1>14, <1>15, <1>16
  DEF Next, BuyStep, CancelStep

(* A buy that a thread carries stays a held reservation. *)
LEMMA CarriedHeldStep == IInv /\ [Next]_vars => CarriedHeld'
<1>. SUFFICES ASSUME IInv, [Next]_vars
              PROVE  CarriedHeld'
  OBVIOUS
<1>. USE DEF IInv, TypeOK, DbTypeOK, Threads, MainPC, TimerPC, Frame
<1>1. ASSUME NEW u \in Users, NEW a \in Deposits, MainIdle(Add(u, a))
      PROVE  CarriedHeld'
  BY <1>1 DEF MainIdle, Add, mem, CarriedHeld, Carries
<1>2. ASSUME NEW u \in Users, NEW s \in Stocks, NEW v \in Prices, MainIdle(Quote(u, s, v))
      PROVE  CarriedHeld'
  BY <1>2 DEF MainIdle, Quote, mem, CarriedHeld, Carries
<1>3. ASSUME NEW u \in Users, NEW s \in Stocks, NEW d \in Debts, NEW id \in BuyIds,
             NEW v \in Prices, BuyCheck(u, s, d, id, v)
      PROVE  CarriedHeld'
  BY <1>3, ZenonT(40) DEF BuyCheck, Goto, CarriedHeld, Carries
<1>4. CASE BuyReserve
  <2>. DEFINE b == frame[Main].buy
  <2>1. /\ frame[Main].user \in Users /\ b \in Buy /\ b.id \in BuyIds
        /\ hold[b.id].state = "none" /\ pc[Main] = "buy_reserve"
    BY <1>4 DEF BuyReserve, FrameOK, ReserveReady, Buy
  <2>2. hold' = [hold EXCEPT ![b.id] =
                   [state |-> "held", user |-> frame[Main].user, cost |-> Cost(b)]]
    BY <1>4 DEF BuyReserve
  <2>3. frame' = frame /\ pc' = [pc EXCEPT ![Main] = "buy_record"]
    BY <1>4 DEF BuyReserve, Goto
  <2>. SUFFICES ASSUME NEW t \in Threads, Carries(t)'
                PROVE  /\ frame[t].user # None /\ frame[t].buy # None
                       /\ hold'[frame[t].buy.id] =
                             [state |-> "held", user |-> frame[t].user,
                              cost |-> Cost(frame[t].buy)]
    BY <2>3 DEF CarriedHeld
  <2>4. CASE t = Main
    BY <2>1, <2>2, <2>4
  <2>5. CASE t # Main
    <3>1. Carries(t) /\ frame[t].buy.id \in BuyIds
      BY <2>3, <2>5 DEF Carries, FrameOK, Buy
    <3>2. frame[t].buy.id # b.id
      BY <2>1, <3>1, CarriedState
    <3>3. hold'[frame[t].buy.id] = hold[frame[t].buy.id]
      BY <2>2, <3>1, <3>2
    <3>. QED
      BY <3>1, <3>3 DEF CarriedHeld
  <2>. QED
    BY <2>4, <2>5
<1>5. CASE BuyRecord
  BY <1>5 DEF BuyRecord, Goto, CarriedHeld, Carries
<1>6. CASE BuySwap
  BY <1>6 DEF BuySwap, Cancelled, CarriedHeld, Carries
<1>7. CASE BuyArm
  BY <1>7 DEF BuyArm, Started, NoFrame, CarriedHeld, Carries
<1>8. ASSUME NEW u \in Users, CommitTake(u)
      PROVE  CarriedHeld'
  <2>1. uncommitted_buys[u] \in Buy /\ u # None /\ hold' = hold
    BY <1>8 DEF CommitTake
  <2>2. hold[uncommitted_buys[u].id] =
          [state |-> "held", user |-> u, cost |-> Cost(uncommitted_buys[u])]
    BY <1>8, Zenon DEF CommitTake, DictHeld
  <2>3. frame'[Main].user = u /\ frame'[Main].buy = uncommitted_buys[u]
    BY <1>8 DEF CommitTake
  <2>4. \A t \in BuyIds : Carries(t)' => Carries(t) /\ frame'[t] = frame[t]
    BY <1>8 DEF CommitTake, Cancelled, Carries
  <2>. QED
    BY <2>1, <2>2, <2>3, <2>4 DEF CarriedHeld
<1>9. CASE CommitSettle
  <2>1. Carries(Main) /\ ~Carries(Main)'
    BY <1>9 DEF CommitSettle, Carries, End, EndPC, Goto
  <2>2. \/ hold' = hold
        \/ hold' = [hold EXCEPT ![frame[Main].buy.id].state = "spent"]
    BY <1>9 DEF CommitSettle
  <2>3. \A y \in Threads \ {Main} : pc'[y] = pc[y] /\ frame'[y] = frame[y]
    BY <1>9 DEF CommitSettle, End, Goto
  <2>. QED
    BY <1>9, <2>1, <2>2, <2>3, SettleKeepsOthers DEF CommitSettle
<1>10. ASSUME NEW b \in BuyIds, Fire(b)
      PROVE  CarriedHeld'
  BY <1>10 DEF Fire, Goto, CarriedHeld, Carries
<1>11. ASSUME NEW t \in Threads, NEW u \in Users, CancelTimer(t, u)
      PROVE  CarriedHeld'
  BY <1>11 DEF CancelTimer, Cancelled, CarriedHeld, Carries
<1>12. ASSUME NEW t \in Threads, CancelTake(t)
      PROVE  CarriedHeld'
  <2>. DEFINE u == frame[t].user
  <2>1. u \in Users /\ u # None /\ hold' = hold /\ frame[t] \in Frame
    BY <1>12 DEF CancelTake, FrameOK
  <2>2. \A y \in Threads \ {t} : pc'[y] = pc[y] /\ frame'[y] = frame[y]
    BY <1>12 DEF CancelTake, End, Goto
  <2>3. Carries(t)' => /\ uncommitted_buys[u] # None
                       /\ frame'[t].user = u /\ frame'[t].buy = uncommitted_buys[u]
    BY <1>12, <2>1 DEF CancelTake, Carries, End, EndPC, Goto
  <2>4. uncommitted_buys[u] # None =>
          hold[uncommitted_buys[u].id] =
            [state |-> "held", user |-> u, cost |-> Cost(uncommitted_buys[u])]
    BY <2>1, Zenon DEF DictHeld
  <2>5. \A y \in Threads \ {t} : Carries(y)' => Carries(y)
    BY <2>2 DEF Carries
  <2>. HIDE DEF u
  <2>. QED
    BY <2>1, <2>2, <2>3, <2>4, <2>5, ZenonT(40) DEF CarriedHeld
<1>13. ASSUME NEW t \in Threads, CancelRelease(t)
      PROVE  CarriedHeld'
  <2>1. Carries(t) /\ ~Carries(t)'
    BY <1>13 DEF CancelRelease, Carries, End, EndPC, Goto
  <2>2. hold' = [hold EXCEPT ![frame[t].buy.id].state = "freed"]
    BY <1>13 DEF CancelRelease
  <2>3. \A y \in Threads \ {t} : pc'[y] = pc[y] /\ frame'[y] = frame[y]
    BY <1>13 DEF CancelRelease, End, Goto
  <2>. QED
    BY <1>13, <2>1, <2>2, <2>3, SettleKeepsOthers DEF CancelRelease
<1>14. ASSUME NEW t \in Threads, Raise(t)
      PROVE  CarriedHeld'
  BY <1>14 DEF Raise, MayRaise, End, EndPC, Goto, NoFrame, CarriedHeld, Carries
<1>15. CASE Restart
  BY <1>15 DEF Restart, EndPC, NoFrame, CarriedHeld, Carries
<1>16. CASE UNCHANGED vars
  BY <1>16 DEF vars, CarriedHeld, Carries
<1>. QED
  BY <1>1, <1>2, <1>3, <1>4, <1>5, <1>6, <1>7, <1>8,
     <1>9, <1>10, <1>11, <1>12, <1>13, <1>14, <1>15, <1>16
  DEF Next, BuyStep, CancelStep

(* A buy never gets a second owner. *)
LEMMA OneOwnerStep == IInv /\ [Next]_vars => OneOwner'
<1>. SUFFICES ASSUME IInv, [Next]_vars
              PROVE  OneOwner'
  OBVIOUS
<1>. USE DEF IInv, TypeOK, DbTypeOK, Threads, MainPC, TimerPC, Frame
<1>1. ASSUME NEW u \in Users, NEW a \in Deposits, MainIdle(Add(u, a))
      PROVE  OneOwner'
  BY <1>1 DEF MainIdle, Add, mem, OneOwner, Carries, Recorded
<1>2. ASSUME NEW u \in Users, NEW s \in Stocks, NEW v \in Prices, MainIdle(Quote(u, s, v))
      PROVE  OneOwner'
  BY <1>2 DEF MainIdle, Quote, mem, OneOwner, Carries, Recorded
<1>3. ASSUME NEW u \in Users, NEW s \in Stocks, NEW d \in Debts, NEW id \in BuyIds,
             NEW v \in Prices, BuyCheck(u, s, d, id, v)
      PROVE  OneOwner'
  BY <1>3 DEF BuyCheck, Goto, OneOwner, Carries, Recorded
<1>4. CASE BuyReserve
  <2>1. /\ frame[Main].buy.id \in BuyIds /\ pc[Main] = "buy_reserve"
        /\ hold[frame[Main].buy.id].state = "none"
    BY <1>4 DEF BuyReserve, FrameOK, ReserveReady, Buy
  <2>2. UNCHANGED <<uncommitted_buys, frame>> /\ pc' = [pc EXCEPT ![Main] = "buy_record"]
    BY <1>4 DEF BuyReserve, Goto
  <2>3. \A t \in Threads : Carries(t)' => t = Main \/ Carries(t)
    BY <2>2 DEF Carries
  <2>4. \A t \in Threads : Carries(t) => frame[t].buy.id # frame[Main].buy.id
    BY <2>1, CarriedState
  <2>5. \A u \in Users : ~Recorded(frame[Main].buy.id, u)
    BY <2>1, DictState DEF Recorded
  <2>. QED
    BY <2>2, <2>3, <2>4, <2>5 DEF OneOwner, Recorded
<1>5. CASE BuyRecord
  BY <1>5 DEF BuyRecord, Goto, OneOwner, Carries, Recorded
<1>6. CASE BuySwap
  BY <1>6 DEF BuySwap, Cancelled, OneOwner, Carries, Recorded
<1>7. CASE BuyArm
  BY <1>7 DEF BuyArm, Started, NoFrame, OneOwner, Carries, Recorded
<1>8. ASSUME NEW u \in Users, CommitTake(u)
      PROVE  OneOwner'
  <2>. DEFINE b == uncommitted_buys[u]
  <2>1. b \in Buy /\ frame'[Main].buy = b
    BY <1>8 DEF CommitTake
  <2>2. uncommitted_buys' = [uncommitted_buys EXCEPT ![u] = None]
    BY <1>8 DEF CommitTake, PopBuy
  <2>3. \A t \in BuyIds : Carries(t)' => Carries(t) /\ frame'[t] = frame[t]
    BY <1>8 DEF CommitTake, Cancelled, Carries
  <2>4. \A t \in Threads : Carries(t) => frame[t].buy.id # b.id
    BY <2>1 DEF OneOwner, Recorded
  <2>5. \A x \in Users \ {u} : ~Recorded(b.id, x)
    <3>. SUFFICES ASSUME NEW x \in Users \ {u}, Recorded(b.id, x)
                  PROVE  FALSE
      OBVIOUS
    <3>1. hold[b.id].user = u
      BY <2>1, DictState
    <3>2. hold[b.id].user = x
      BY DictState DEF Recorded
    <3>. QED
      BY <3>1, <3>2
  <2>6. \A x \in Users, i \in BuyIds : Recorded(i, x)' => x # u /\ Recorded(i, x)
    BY <2>2 DEF Recorded
  <2>7. \A t \in BuyIds : Carries(t) => frame[t].buy.id \in BuyIds
    BY DEF FrameOK, Carries, Buy
  <2>8. b.id \in BuyIds
    BY <2>1 DEF Buy
  <2>. HIDE DEF b
  <2>9. \A t \in Threads, x \in Users : Carries(t)' => ~Recorded(frame[t].buy.id, x)'
    BY <2>1, <2>3, <2>5, <2>6, <2>7, <2>8 DEF OneOwner
  <2>. QED
    BY <2>1, <2>3, <2>4, <2>5, <2>6, <2>7, <2>8 DEF OneOwner
<1>9. CASE CommitSettle
  BY <1>9 DEF CommitSettle, End, EndPC, Goto, NoFrame, OneOwner, Carries, Recorded
<1>10. ASSUME NEW b \in BuyIds, Fire(b)
      PROVE  OneOwner'
  BY <1>10 DEF Fire, Goto, OneOwner, Carries, Recorded
<1>11. ASSUME NEW t \in Threads, NEW u \in Users, CancelTimer(t, u)
      PROVE  OneOwner'
  BY <1>11 DEF CancelTimer, Cancelled, OneOwner, Carries, Recorded
<1>12. ASSUME NEW t \in Threads, CancelTake(t)
      PROVE  OneOwner'
  <2>. DEFINE u == frame[t].user
              b == uncommitted_buys[u]
  <2>1. u \in Users /\ frame[t] \in Frame
    BY <1>12 DEF CancelTake, FrameOK
  <2>2. uncommitted_buys' = [uncommitted_buys EXCEPT ![u] = None]
    BY <1>12 DEF CancelTake, PopBuy
  <2>3. \A y \in Threads \ {t} : Carries(y)' => Carries(y) /\ frame'[y] = frame[y]
    BY <1>12 DEF CancelTake, End, Goto, Carries
  <2>4. Carries(t)' => b # None /\ frame'[t].buy = b
    BY <1>12, <2>1 DEF CancelTake, Carries, End, EndPC, Goto
  <2>5. b # None => \A y \in Threads : Carries(y) => frame[y].buy.id # b.id
    BY <2>1 DEF OneOwner, Recorded
  <2>6. b # None => \A x \in Users \ {u} : ~Recorded(b.id, x)
    <3>. SUFFICES ASSUME b # None, NEW x \in Users \ {u}, Recorded(b.id, x)
                  PROVE  FALSE
      OBVIOUS
    <3>1. hold[b.id].user = u
      BY <2>1, DictState
    <3>2. hold[b.id].user = x
      BY DictState DEF Recorded
    <3>. QED
      BY <2>1, <3>1, <3>2
  <2>7. \A x \in Users, i \in BuyIds : Recorded(i, x)' => x # u /\ Recorded(i, x)
    BY <2>1, <2>2 DEF Recorded
  <2>8. \A y \in Threads : Carries(y) => frame[y].buy.id \in BuyIds
    BY DEF FrameOK, Carries, Buy
  <2>9. b # None => b.id \in BuyIds
    BY <2>1 DEF Buy
  <2>. HIDE DEF u, b, IInv, TypeOK, DbTypeOK, Frame, MainPC, TimerPC
  <2>10. OneOwner
    BY DEF IInv
  <2>11. \A y \in Threads, x \in Users : Carries(y)' => ~Recorded(frame[y].buy.id, x)'
    BY <2>3, <2>4, <2>5, <2>6, <2>7, <2>8, <2>9, <2>10 DEF OneOwner
  <2>12. \A y1, y2 \in Threads :
            Carries(y1)' /\ Carries(y2)' /\ frame'[y1].buy.id = frame'[y2].buy.id => y1 = y2
    BY <2>3, <2>4, <2>5, <2>10 DEF OneOwner
  <2>. QED
    BY <2>11, <2>12, Zenon DEF OneOwner
<1>13. ASSUME NEW t \in Threads, CancelRelease(t)
      PROVE  OneOwner'
  BY <1>13 DEF CancelRelease, End, EndPC, Goto, NoFrame, OneOwner, Carries, Recorded
<1>14. ASSUME NEW t \in Threads, Raise(t)
      PROVE  OneOwner'
  BY <1>14 DEF Raise, MayRaise, End, EndPC, Goto, NoFrame, OneOwner, Carries, Recorded
<1>15. CASE Restart
  BY <1>15 DEF Restart, EndPC, NoFrame, OneOwner, Carries, Recorded
<1>16. CASE UNCHANGED vars
  BY <1>16 DEF vars, OneOwner, Carries, Recorded
<1>. QED
  BY <1>1, <1>2, <1>3, <1>4, <1>5, <1>6, <1>7, <1>8,
     <1>9, <1>10, <1>11, <1>12, <1>13, <1>14, <1>15, <1>16
  DEF Next, BuyStep, CancelStep

-----------------------------------------------------------------------------
(***************************************************************************)
(* The invariant holds in every reachable state.                           *)
(***************************************************************************)
LEMMA IInvInit == Init => IInv
<1>. SUFFICES ASSUME Init PROVE IInv
  OBVIOUS
<1>1. \A t \in Threads : pc[t] \in {"idle", "unarmed"}
  BY DEF Init
<1>2. \A u \in Users : uncommitted_buys[u] = None
  BY DEF Init
<1>3. Main \in Threads
  BY DEF Threads
<1>. QED
  BY <1>1, <1>2, <1>3, TypeInit
  DEF IInv, FrameOK, ReserveReady, DictHeld, CarriedHeld, OneOwner, Carries, Recorded

(* Every step keeps it.                                                    *)
LEMMA IInvStep == IInv /\ [Next]_vars => IInv'
BY TypeStep, FrameOKStep, ReserveReadyStep, DictHeldStep, CarriedHeldStep, OneOwnerStep
DEF IInv

(* The inductive invariant holds, with or without faults.                  *)
THEOREM IInvHolds == Spec => []IInv
BY IInvInit, IInvStep, PTL DEF Spec

(* Every variable keeps its type. *)
THEOREM TypeCorrect == Spec => []TypeOK
BY IInvHolds, PTL DEF IInv

(***************************************************************************)
(* Each buy has at most one owner, and what it settles is still held.      *)
(***************************************************************************)
THEOREM OwnersOnly == Spec => []SettledByOwnerOnly
BY IInvHolds, PTL DEF IInv, SettledByOwnerOnly

(***************************************************************************)
(* The funds a BUY has checked are still there when it is about to reserve *)
(* them: nothing of this module takes any in between.                      *)
(***************************************************************************)
FundsReady ==
    pc[Main] = "buy_reserve" => Cost(frame[Main].buy) <= available[frame[Main].user]

LEMMA FundsReadyInit == Init => FundsReady
BY DEF Init, FundsReady, Threads

LEMMA FundsReadyStep == IInv /\ FundsReady /\ [Next]_vars => FundsReady'
<1>. SUFFICES ASSUME IInv, FundsReady, [Next]_vars
              PROVE  FundsReady'
  OBVIOUS
<1>. USE DEF IInv, TypeOK, DbTypeOK, Threads, MainPC, TimerPC, Frame
<1>1. ASSUME NEW u \in Users, NEW a \in Deposits, MainIdle(Add(u, a))
      PROVE  FundsReady'
  BY <1>1 DEF MainIdle, Add, mem, FundsReady
<1>2. ASSUME NEW u \in Users, NEW s \in Stocks, NEW v \in Prices, MainIdle(Quote(u, s, v))
      PROVE  FundsReady'
  BY <1>2 DEF MainIdle, Quote, mem, FundsReady
<1>3. ASSUME NEW u \in Users, NEW s \in Stocks, NEW d \in Debts, NEW id \in BuyIds,
             NEW v \in Prices, BuyCheck(u, s, d, id, v)
      PROVE  FundsReady'
  <2>. DEFINE b == [id |-> id, stock |-> s, num_stocks |-> d \div v, quote |-> v]
  <2>1. \/ available' = available /\ pc' = pc /\ pc[Main] = "idle"
        \/ /\ available' = available
           /\ frame' = [frame EXCEPT ![Main] = [user |-> u, buy |-> b, found |-> FALSE]]
           /\ Cost(b) <= available[u]
    BY <1>3 DEF BuyCheck, BuyAccepted, Goto
  <2>. HIDE DEF b
  <2>. QED
    BY <2>1 DEF FundsReady
<1>4. CASE pc'[Main] # "buy_reserve"
  BY <1>4 DEF FundsReady
<1>5. ASSUME NEW t \in Threads, CancelRelease(t), pc'[Main] = "buy_reserve"
      PROVE  FundsReady'
  <2>1. t # Main /\ pc[Main] = "buy_reserve" /\ frame'[Main] = frame[Main]
    BY <1>5 DEF CancelRelease, End, EndPC, Goto
  <2>2. frame[t].user \in Users /\ frame[Main].user \in Users
    BY <1>5, <2>1 DEF CancelRelease, FrameOK
  <2>3. Cost(frame[t].buy) \in Nat /\ Cost(frame[Main].buy) \in Nat
    BY <1>5, <2>1, CostType DEF CancelRelease, FrameOK
  <2>4. available'[frame[Main].user] >= available[frame[Main].user]
    BY <1>5, <2>2, <2>3 DEF CancelRelease
  <2>5. available[frame[Main].user] \in Int /\ available'[frame[Main].user] \in Int
    BY <1>5, <2>2, <2>3 DEF CancelRelease
  <2>6. Cost(frame[Main].buy) <= available[frame[Main].user]
    BY <2>1 DEF FundsReady
  <2>. QED
    BY <2>1, <2>3, <2>4, <2>5, <2>6 DEF FundsReady
<1>6. ASSUME UNCHANGED available, pc[Main] = "buy_reserve",
             frame'[Main].user = frame[Main].user, frame'[Main].buy = frame[Main].buy
      PROVE  FundsReady'
  BY <1>6 DEF FundsReady
<1>7. ASSUME NEW b \in BuyIds, Fire(b)
      PROVE  FundsReady'
  BY <1>6, <1>7 DEF Fire, Goto, FundsReady
<1>8. ASSUME NEW t \in Threads, NEW u \in Users, CancelTimer(t, u)
      PROVE  FundsReady'
  BY <1>8 DEF CancelTimer, Cancelled, FundsReady
<1>9. ASSUME NEW t \in Threads, CancelTake(t)
      PROVE  FundsReady'
  BY <1>9 DEF CancelTake, PopBuy, End, EndPC, Goto, NoFrame, FundsReady
<1>10. ASSUME NEW t \in Threads, Raise(t)
      PROVE  FundsReady'
  BY <1>10 DEF Raise, MayRaise, End, EndPC, Goto, NoFrame, FundsReady
<1>11. ASSUME NEW u \in Users, CommitTake(u)
      PROVE  pc'[Main] # "buy_reserve"
  BY <1>11 DEF CommitTake, Cancelled
<1>12. BuyStep \/ CommitSettle \/ Restart => pc'[Main] # "buy_reserve"
  BY DEF BuyStep, BuyReserve, BuyRecord, BuySwap, BuyArm, CommitSettle, End, EndPC, Goto,
         Cancelled, Started, Restart
<1>13. CASE UNCHANGED vars
  BY <1>13 DEF vars, FundsReady
<1>. QED
  BY <1>1, <1>2, <1>3, <1>4, <1>5, <1>7, <1>8, <1>9, <1>10, <1>11, <1>12, <1>13
  DEF Next, CancelStep

(* The funds a BUY has checked are there until it has reserved them.       *)
THEOREM FundsStay == Spec => [](IInv /\ FundsReady)
BY IInvHolds, FundsReadyInit, FundsReadyStep, PTL DEF Spec

(***************************************************************************)
(* What a user has available never goes below zero: the funds are checked  *)
(* two steps before they are reserved, and in between they only grow.      *)
(***************************************************************************)
THEOREM NeverOverdrawn == Spec => []AvailableNonNegative
<1>1. Init => AvailableNonNegative
  <2>. SUFFICES ASSUME Init, NEW u \in Users PROVE available[u] >= 0
    BY DEF AvailableNonNegative
  <2>1. available[u] = 0
    BY DEF Init, DbInit
  <2>. QED
    BY <2>1
<1>2. IInv /\ FundsReady /\ AvailableNonNegative /\ [Next]_vars => AvailableNonNegative'
  <2>. SUFFICES ASSUME IInv, FundsReady, AvailableNonNegative, [Next]_vars
                PROVE  AvailableNonNegative'
    OBVIOUS
  <2>. USE DEF AvailableNonNegative
  <2>0. available \in [Users -> Int]
    BY DEF IInv, TypeOK, DbTypeOK
  <2>1. ASSUME NEW u \in Users, NEW a \in Deposits, MainIdle(Add(u, a))
        PROVE  AvailableNonNegative'
    BY <2>0, <2>1 DEF MainIdle, Add
  <2>2. CASE BuyReserve
    <3>. DEFINE u == frame[Main].user
                c == Cost(frame[Main].buy)
    <3>1. u \in Users /\ c \in Nat /\ c <= available[u]
      BY <2>2, CostType DEF BuyReserve, IInv, FrameOK, FundsReady, Threads
    <3>2. available' = [available EXCEPT ![u] = @ - c]
      BY <2>2 DEF BuyReserve
    <3>. HIDE DEF u, c
    <3>. QED
      BY <2>0, <3>1, <3>2
  <2>3. ASSUME NEW t \in Threads, CancelRelease(t)
        PROVE  AvailableNonNegative'
    <3>. DEFINE u == frame[t].user
                c == Cost(frame[t].buy)
    <3>1. u \in Users /\ c \in Nat
      BY <2>3, CostType DEF CancelRelease, IInv, FrameOK
    <3>2. available' = [available EXCEPT ![u] = @ + c]
      BY <2>3 DEF CancelRelease
    <3>. HIDE DEF u, c
    <3>. QED
      BY <2>0, <3>1, <3>2
  <2>4. CASE UNCHANGED available
    BY <2>4
  <2>. QED
    BY <2>1, <2>2, <2>3, <2>4
    DEF Next, vars, MainIdle, Quote, BuyCheck, BuyStep, BuyRecord, BuySwap, BuyArm,
        CommitTake, CommitSettle, Fire, CancelTimer, CancelStep, CancelTake, Raise, Restart
<1>. QED
  BY FundsStay, <1>1, <1>2, PTL DEF Spec

-----------------------------------------------------------------------------
(***************************************************************************)
(* How a step moves money: a reservation is taken from its user, and is    *)
(* spent or freed at most once, for its own user and its own cost,         *)
(* whatever order commands, timers, exceptions and restarts come in.       *)
(***************************************************************************)
Reserves(u, i, c) ==
    /\ hold[i].state = "none"
    /\ available' = [available EXCEPT ![u] = @ - c]
    /\ hold' = [hold EXCEPT ![i] = [state |-> "held", user |-> u, cost |-> c]]
    /\ UNCHANGED account

MoneyMoves ==
    \/ \E u \in Users, a \in Deposits : Ledger!Deposit(u, a)
    \/ \E u \in Users, i \in BuyIds, c \in Costs : Reserves(u, i, c)
    \/ \E i \in BuyIds : Ledger!Spend(i) \/ Ledger!Free(i)
    \/ UNCHANGED Ledger!vars

LEMMA MoneyStep == IInv /\ [Next]_vars => MoneyMoves
<1>. SUFFICES ASSUME IInv, [Next]_vars
              PROVE  MoneyMoves
  OBVIOUS
<1>1. ASSUME NEW u \in Users, NEW a \in Deposits, MainIdle(Add(u, a))
      PROVE  MoneyMoves
  <2>1. Ledger!Deposit(u, a)
    BY <1>1 DEF MainIdle, Add, Ledger!Deposit
  <2>. QED
    BY <2>1 DEF MoneyMoves
<1>2. CASE BuyReserve
  <2>. DEFINE u == frame[Main].user
              b == frame[Main].buy
  <2>1. u \in Users /\ b.id \in BuyIds /\ Cost(b) \in Costs
    BY <1>2 DEF BuyReserve, IInv, FrameOK, ReserveReady, Buy, Threads
  <2>2. Reserves(u, b.id, Cost(b))
    BY <1>2 DEF BuyReserve, IInv, ReserveReady, Reserves
  <2>. QED
    BY <2>1, <2>2 DEF MoneyMoves
<1>3. CASE CommitSettle
  <2>. DEFINE b == frame[Main].buy
  <2>1. Carries(Main) /\ Main \in Threads
    BY <1>3 DEF CommitSettle, Carries, Threads
  <2>2. b.id \in BuyIds /\ hold[b.id].state = "held"
    BY <2>1, CarriedState
  <2>3. hold[b.id].user = frame[Main].user /\ hold[b.id].cost = Cost(b)
    BY <2>1, CarriedState
  <2>4. Ledger!Spend(b.id) \/ UNCHANGED Ledger!vars
    BY <1>3, <2>2, <2>3 DEF CommitSettle, Ledger!Spend, Ledger!vars
  <2>. QED
    BY <2>2, <2>4 DEF MoneyMoves
<1>4. ASSUME NEW t \in Threads, CancelRelease(t)
      PROVE  MoneyMoves
  <2>. DEFINE b == frame[t].buy
  <2>1. Carries(t)
    BY <1>4 DEF CancelRelease, Carries
  <2>2. b.id \in BuyIds /\ hold[b.id].state = "held"
    BY <2>1, CarriedState
  <2>3. hold[b.id].user = frame[t].user /\ hold[b.id].cost = Cost(b)
    BY <2>1, CarriedState
  <2>4. Ledger!Free(b.id)
    BY <1>4, <2>2, <2>3 DEF CancelRelease, Ledger!Free
  <2>. QED
    BY <2>2, <2>4 DEF MoneyMoves
<1>5. CASE UNCHANGED <<account, available, hold>>
  BY <1>5 DEF Ledger!vars, MoneyMoves
<1>. QED
  BY <1>1, <1>2, <1>3, <1>4, <1>5
  DEF Next, vars, MainIdle, Quote, BuyCheck, BuyStep, BuyRecord, BuySwap, BuyArm,
      CommitTake, Fire, CancelTimer, CancelStep, CancelTake, Raise, Restart

(***************************************************************************)
(* The funds and their reservations implement Escrow: a reservation is     *)
(* covered when it is made.                                                *)
(***************************************************************************)
LEMMA LedgerStep == IInv /\ FundsReady /\ [Next]_vars => [Ledger!Next]_(Ledger!vars)
<1>. SUFFICES ASSUME IInv, FundsReady, [Next]_vars
              PROVE  Ledger!Next \/ UNCHANGED Ledger!vars
  OBVIOUS
<1>1. CASE BuyReserve
  <2>. DEFINE u == frame[Main].user
              b == frame[Main].buy
  <2>1. u \in Users /\ b.id \in BuyIds /\ Cost(b) \in Costs
    BY <1>1 DEF BuyReserve, IInv, FrameOK, ReserveReady, Buy, Threads
  <2>2. Ledger!Reserve(u, b.id, Cost(b))
    BY <1>1 DEF BuyReserve, IInv, ReserveReady, FundsReady, Ledger!Reserve
  <2>. QED
    BY <2>1, <2>2 DEF Ledger!Next
<1>2. ASSUME NEW i \in BuyIds, ~BuyReserve
      PROVE  hold'[i].state \in {hold[i].state, "spent", "freed"}
  <2>1. hold \in [BuyIds -> [state : {"none", "held", "spent", "freed"},
                             user : Users \cup {None}, cost : Int]]
    BY DEF IInv, TypeOK
  <2>2. CASE CommitSettle
    BY <2>1, <2>2 DEF CommitSettle
  <2>3. ASSUME NEW t \in Threads, CancelRelease(t)
        PROVE  hold'[i].state \in {hold[i].state, "spent", "freed"}
    BY <2>1, <2>3 DEF CancelRelease
  <2>4. CASE UNCHANGED hold
    BY <2>4
  <2>. QED
    BY <1>2, <2>2, <2>3, <2>4
    DEF Next, vars, MainIdle, Quote, BuyCheck, BuyStep, BuyRecord, BuySwap, BuyArm,
        CommitTake, Fire, CancelTimer, CancelStep, CancelTake, Raise, Restart
<1>3. ASSUME NEW u \in Users, NEW i \in BuyIds, NEW c \in Costs, Reserves(u, i, c), ~BuyReserve
      PROVE  FALSE
  <2>1. hold'[i].state = "held" /\ hold[i].state = "none"
    BY <1>3 DEF Reserves, IInv, TypeOK
  <2>. QED
    BY <1>2, <1>3, <2>1
<1>. QED
  BY <1>1, <1>3, MoneyStep DEF MoneyMoves, Ledger!Next

(***************************************************************************)
(* The handlers of BUY, COMMIT_BUY and CANCEL_BUY and their timers keep    *)
(* the promise of Escrow: money is reserved when it is there, and every    *)
(* reservation is spent or freed at most once.                             *)
(***************************************************************************)
THEOREM ImplementsEscrow == Spec => Implements
<1>1. Init => Ledger!Init
  BY DEF Init, DbInit, NoHold, Ledger!Init, Ledger!NoHold
<1>. QED
  BY FundsStay, LedgerStep, <1>1, PTL DEF Spec, Implements, Ledger!Spec

-----------------------------------------------------------------------------
(***************************************************************************)
(* What one reservation contributes to a sum of costs.                     *)
(***************************************************************************)
Share(h, state, u) == IF h.state = state /\ h.user = u THEN h.cost ELSE 0

Shares(state, u) == [b \in BuyIds |-> Share(hold[b], state, u)]

(* The sum of costs is the sum of these contributions.                     *)
LEMMA CostIsSum == \A state, u : CostIn(state, u) = SumFunction(Shares(state, u))
BY DEF CostIn, Shares, Share

(* When one reservation changes, the sums change by its contributions.     *)
LEMMA CostChanges ==
    ASSUME IsFiniteSet(BuyIds), TypeOK, TypeOK', NEW b \in BuyIds, NEW state, NEW u,
           \A x \in BuyIds \ {b} : hold'[x] = hold[x]
    PROVE  /\ CostIn(state, u)' =
                 CostIn(state, u) + Share(hold'[b], state, u) - Share(hold[b], state, u)
           /\ CostIn(state, u) \in Int
<1>1. PICK f : f = Shares(state, u)
  OBVIOUS
<1>2. PICK g : g = [x \in BuyIds |-> Share(hold'[x], state, u)]
  OBVIOUS
<1>3. f \in [BuyIds -> Int] /\ g \in [BuyIds -> Int]
  BY <1>1, <1>2 DEF Shares, Share, TypeOK
<1>4. \A x \in BuyIds \ {b} : g[x] = f[x]
  BY <1>1, <1>2 DEF Shares
<1>5. SumFunction(g) = SumFunction(f) + g[b] - f[b] /\ SumFunction(f) \in Int
  BY <1>3, <1>4, SumChanges, SumType
<1>6. CostIn(state, u) = SumFunction(f) /\ CostIn(state, u)' = SumFunction(g)
  BY <1>1, <1>2 DEF CostIn, Shares, Share
<1>7. g[b] = Share(hold'[b], state, u) /\ f[b] = Share(hold[b], state, u)
  BY <1>1, <1>2 DEF Shares
<1>. QED
  BY <1>5, <1>6, <1>7

(***************************************************************************)
(* A step changes what a user has and cannot spend by what it changes the  *)
(* cost of the reservations held.                                          *)
(***************************************************************************)
Slack(u) == account[u] - available[u] - CostIn("held", u)

LEMMA SlackStep ==
    ASSUME IsFiniteSet(BuyIds), TypeOK, TypeOK', MoneyMoves, NEW u \in Users
    PROVE  Slack(u)' = Slack(u)
<1>0. /\ account \in [Users -> Int] /\ available \in [Users -> Int]
      /\ hold \in [BuyIds -> [state : {"none", "held", "spent", "freed"},
                              user : Users \cup {None}, cost : Int]]
  BY DEF TypeOK, DbTypeOK
<1>1. ASSUME NEW w \in Users, NEW a \in Deposits, Ledger!Deposit(w, a)
      PROVE  Slack(u)' = Slack(u)
  <2>1. UNCHANGED hold /\ CostIn("held", u)' = CostIn("held", u) /\ a \in Int
    BY <1>1 DEF Ledger!Deposit, CostIn
  <2>2. \/ account'[u] = account[u] /\ available'[u] = available[u]
        \/ account'[u] = account[u] + a /\ available'[u] = available[u] + a
    BY <1>0, <1>1 DEF Ledger!Deposit
  <2>. QED
    BY <1>0, <2>1, <2>2 DEF Slack
<1>2. ASSUME NEW w \in Users, NEW b \in BuyIds, NEW c \in Costs, Reserves(w, b, c)
      PROVE  Slack(u)' = Slack(u)
  <2>1. /\ \A x \in BuyIds \ {b} : hold'[x] = hold[x]
        /\ hold'[b] = [state |-> "held", user |-> w, cost |-> c] /\ hold[b].state = "none"
    BY <1>0, <1>2 DEF Reserves
  <2>2. /\ CostIn("held", u)' =
              CostIn("held", u) + Share(hold'[b], "held", u) - Share(hold[b], "held", u)
        /\ CostIn("held", u) \in Int
    BY <2>1, CostChanges
  <2>3. Share(hold'[b], "held", u) = (IF w = u THEN c ELSE 0) /\ Share(hold[b], "held", u) = 0
    BY <2>1 DEF Share
  <2>4. c \in Int
    BY CostType, <1>2 DEF Costs
  <2>5. /\ account'[u] = account[u]
        /\ available'[u] = available[u] - (IF w = u THEN c ELSE 0)
    BY <1>0, <1>2, <2>4 DEF Reserves
  <2>. QED
    BY <1>0, <2>2, <2>3, <2>4, <2>5 DEF Slack
<1>3. ASSUME NEW b \in BuyIds, Ledger!Spend(b)
      PROVE  Slack(u)' = Slack(u)
  <2>1. /\ \A x \in BuyIds \ {b} : hold'[x] = hold[x]
        /\ hold'[b].state = "spent" /\ hold[b].state = "held" /\ hold[b].cost \in Int
    BY <1>0, <1>3 DEF Ledger!Spend
  <2>2. /\ CostIn("held", u)' =
              CostIn("held", u) + Share(hold'[b], "held", u) - Share(hold[b], "held", u)
        /\ CostIn("held", u) \in Int
    BY <2>1, CostChanges
  <2>3. /\ Share(hold'[b], "held", u) = 0
        /\ Share(hold[b], "held", u) = (IF hold[b].user = u THEN hold[b].cost ELSE 0)
    BY <2>1 DEF Share
  <2>4. /\ available'[u] = available[u]
        /\ account'[u] = account[u] - (IF hold[b].user = u THEN hold[b].cost ELSE 0)
    BY <1>0, <1>3, <2>1 DEF Ledger!Spend
  <2>. QED
    BY <1>0, <2>1, <2>2, <2>3, <2>4 DEF Slack
<1>4. ASSUME NEW b \in BuyIds, Ledger!Free(b)
      PROVE  Slack(u)' = Slack(u)
  <2>1. /\ \A x \in BuyIds \ {b} : hold'[x] = hold[x]
        /\ hold'[b].state = "freed" /\ hold[b].state = "held" /\ hold[b].cost \in Int
    BY <1>0, <1>4 DEF Ledger!Free
  <2>2. /\ CostIn("held", u)' =
              CostIn("held", u) + Share(hold'[b], "held", u) - Share(hold[b], "held", u)
        /\ CostIn("held", u) \in Int
    BY <2>1, CostChanges
  <2>3. /\ Share(hold'[b], "held", u) = 0
        /\ Share(hold[b], "held", u) = (IF hold[b].user = u THEN hold[b].cost ELSE 0)
    BY <2>1 DEF Share
  <2>4. /\ account'[u] = account[u]
        /\ available'[u] = available[u] + (IF hold[b].user = u THEN hold[b].cost ELSE 0)
    BY <1>0, <1>4, <2>1 DEF Ledger!Free
  <2>. QED
    BY <1>0, <2>1, <2>2, <2>3, <2>4 DEF Slack
<1>5. CASE UNCHANGED Ledger!vars
  BY <1>0, <1>5 DEF Ledger!vars, CostIn, Slack
<1>. QED
  BY <1>1, <1>2, <1>3, <1>4, <1>5 DEF MoneyMoves

(* The cost of the reservations in a state is an integer.                  *)
LEMMA CostInType ==
    IsFiniteSet(BuyIds) /\ TypeOK => \A u \in Users : CostIn("held", u) \in Int
<1>. SUFFICES ASSUME IsFiniteSet(BuyIds), TypeOK, NEW u \in Users
              PROVE  CostIn("held", u) \in Int
  OBVIOUS
<1>1. Shares("held", u) \in [BuyIds -> Int]
  BY DEF Shares, Share, TypeOK
<1>. QED
  BY <1>1, CostIsSum, SumType

LEMMA CostInTypeNext ==
    (IsFiniteSet(BuyIds) /\ TypeOK => \A u \in Users : CostIn("held", u) \in Int)'
BY CostInType, PTL

(***************************************************************************)
(* A user's money that is not available is what the reservations that are  *)
(* still held cost, to the unit, for any number of users and BUYs, prices  *)
(* and sums, exceptions and restarts.                                      *)
(***************************************************************************)
THEOREM FundsBalance ==
    ASSUME IsFiniteSet(BuyIds)
    PROVE  Spec => []Balanced
<1>1. Init => Balanced
  <2>. SUFFICES ASSUME Init, NEW u \in Users
                PROVE  account[u] - available[u] = CostIn("held", u)
    BY DEF Balanced
  <2>1. Shares("held", u) \in [BuyIds -> Int] /\ \A b \in BuyIds : Shares("held", u)[b] = 0
    BY DEF Init, NoHold, Shares, Share
  <2>2. CostIn("held", u) = 0
    BY <2>1, CostIsSum, SumOfZeros
  <2>. QED
    BY <2>2 DEF Init, DbInit
<1>2. ASSUME IInv, IInv', Balanced, [Next]_vars
      PROVE  Balanced'
  <2>. SUFFICES ASSUME NEW u \in Users
                PROVE  account'[u] - available'[u] = CostIn("held", u)'
    BY DEF Balanced
  <2>1. Slack(u)' = Slack(u)
    BY <1>2, MoneyStep, SlackStep DEF IInv
  <2>2. /\ account[u] \in Int /\ available[u] \in Int
        /\ account'[u] \in Int /\ available'[u] \in Int
    BY <1>2 DEF IInv, TypeOK, DbTypeOK
  <2>3. CostIn("held", u) \in Int /\ CostIn("held", u)' \in Int
    BY <1>2, CostInType, CostInTypeNext DEF IInv
  <2>4. account[u] - available[u] = CostIn("held", u)
    BY <1>2 DEF Balanced
  <2>. QED
    BY <2>1, <2>2, <2>3, <2>4 DEF Slack
<1>. QED
  BY IInvHolds, <1>1, <1>2, PTL DEF Spec

-----------------------------------------------------------------------------
(***************************************************************************)
(* Shares and what was paid for them.  A stock that somebody owns or is    *)
(* about to buy has its price in the cache, and a buy was made at it; a    *)
(* user has one element of a stock at most, which a COMMIT_BUY has found   *)
(* if it is there.                                                         *)
(***************************************************************************)
AtPrice(b) == quote_cache[b.stock] = b.quote

Priced ==
    /\ \A u \in Users, s \in Stocks :
          Owns(u, s) => quote_cache[s] # None /\ Len(stocks[u][s]) = 1
    /\ \A u \in Users : uncommitted_buys[u] # None => AtPrice(uncommitted_buys[u])
    /\ \A t \in Threads : frame[t].buy # None => AtPrice(frame[t].buy)
    /\ pc[Main] = "commit_settle" =>
          frame[Main].found = Owns(frame[Main].user, frame[Main].buy.stock)

(* A price that is in the cache stays.                                     *)
LEMMA CacheKept ==
    ASSUME TypeOK, [Next]_vars, NEW s \in Stocks, quote_cache[s] # None
    PROVE  quote_cache'[s] = quote_cache[s]
<1>0. quote_cache \in [Stocks -> Prices \cup {None}]
  BY DEF TypeOK, DbTypeOK
<1>1. ASSUME NEW x \in Stocks, NEW v \in QuoteOf(x), CacheQuote(x, v)
      PROVE  quote_cache'[s] = quote_cache[s]
  BY <1>0, <1>1 DEF QuoteOf, CacheQuote
<1>. QED
  BY <1>1
  DEF Next, vars, MainIdle, Add, Quote, BuyCheck, BuyStep, BuyReserve, BuyRecord, BuySwap, BuyArm,
      CommitTake, CommitSettle, Fire, CancelTimer, CancelStep, CancelTake, CancelRelease, Raise,
      Restart

(* Only a COMMIT_BUY changes the shares.                                   *)
LEMMA StocksKept ==
    ASSUME [Next]_vars, ~CommitSettle
    PROVE  UNCHANGED stocks
BY DEF Next, vars, MainIdle, Add, Quote, BuyCheck, BuyStep, BuyReserve, BuyRecord, BuySwap, BuyArm,
       CommitTake, Fire, CancelTimer, CancelStep, CancelTake, CancelRelease, Raise, Restart

(* Where pending buys come from: a BUY makes them from its quote.          *)
LEMMA BuysMove ==
    ASSUME IInv, [Next]_vars
    PROVE  /\ \A u \in Users : uncommitted_buys'[u] \in {uncommitted_buys[u], None, frame[Main].buy}
           /\ \A t \in Threads :
                 \/ frame'[t].buy \in {frame[t].buy, None}
                 \/ \E u \in Users : frame'[t].buy = uncommitted_buys[u]
                 \/ quote_cache'[frame'[t].buy.stock] = frame'[t].buy.quote
<1>0. /\ uncommitted_buys \in [Users -> Buy \cup {None}]
      /\ frame \in [Threads -> Frame] /\ Main \in Threads /\ FrameOK
      /\ quote_cache \in [Stocks -> Prices \cup {None}]
  BY DEF IInv, TypeOK, DbTypeOK, Threads
<1>1. ASSUME NEW u \in Users
      PROVE  uncommitted_buys'[u] \in {uncommitted_buys[u], None, frame[Main].buy}
  BY <1>0, ZenonT(40)
  DEF Next, vars, MainIdle, mem, BuyCheck, BuyStep, BuyReserve, BuyRecord, BuySwap, BuyArm,
      CommitTake, CommitSettle, Fire, CancelTimer, CancelStep, CancelTake, CancelRelease, Raise,
      Restart, PopBuy
<1>2. ASSUME NEW t \in Threads
      PROVE  \/ frame'[t].buy \in {frame[t].buy, None}
             \/ \E u \in Users : frame'[t].buy = uncommitted_buys[u]
             \/ quote_cache'[frame'[t].buy.stock] = frame'[t].buy.quote
  <2>1. ASSUME NEW u \in Users, NEW s \in Stocks, NEW d \in Debts, NEW id \in BuyIds,
               NEW v \in Prices, BuyCheck(u, s, d, id, v)
        PROVE  \/ frame'[t].buy = frame[t].buy
               \/ quote_cache'[frame'[t].buy.stock] = frame'[t].buy.quote
    <3>1. quote_cache'[s] = v
      BY <1>0, <2>1 DEF BuyCheck, CacheQuote
    <3>2. \/ frame'[t] = frame[t]
          \/ frame'[t].buy = [id |-> id, stock |-> s, num_stocks |-> d \div v, quote |-> v]
      BY <1>0, <2>1 DEF BuyCheck
    <3>. QED
      BY <3>1, <3>2
  <2>2. CASE BuyStep \/ Restart \/ UNCHANGED frame
    BY <1>0, <2>2
    DEF BuyStep, BuyReserve, BuyRecord, BuySwap, BuyArm, Restart, NoFrame, Frame
  <2>3. ASSUME NEW u \in Users, CommitTake(u)
        PROVE  frame'[t].buy = frame[t].buy \/ frame'[t].buy = uncommitted_buys[u]
    BY <1>0, <2>3 DEF CommitTake
  <2>4. ASSUME NEW x \in Threads, NEW u \in Users, CancelTimer(x, u)
        PROVE  frame'[t].buy \in {frame[t].buy, None}
    BY <1>0, <2>4 DEF CancelTimer
  <2>5. ASSUME NEW x \in Threads, CancelTake(x)
        PROVE  \/ frame'[t].buy \in {frame[t].buy, None}
               \/ \E u \in Users : frame'[t].buy = uncommitted_buys[u]
    <3>1. frame[x].user \in Users
      BY <1>0, <2>5 DEF CancelTake, FrameOK
    <3>2. CASE uncommitted_buys[frame[x].user] = None
      BY <1>0, <2>5, <3>2 DEF CancelTake, End, NoFrame
    <3>3. CASE uncommitted_buys[frame[x].user] # None
      <4>1. frame' = [frame EXCEPT ![x].buy = uncommitted_buys[frame[x].user]]
        BY <2>5, <3>3 DEF CancelTake
      <4>2. frame'[t].buy = frame[t].buy \/ frame'[t].buy = uncommitted_buys[frame[x].user]
        BY <1>0, <4>1 DEF Frame
      <4>. QED
        BY <3>1, <4>2
    <3>. QED
      BY <3>2, <3>3
  <2>6. ASSUME NEW x \in Threads, End(x)
        PROVE  frame'[t].buy \in {frame[t].buy, None}
    BY <1>0, <2>6 DEF End, NoFrame
  <2>. QED
    BY <2>1, <2>2, <2>3, <2>4, <2>5, <2>6, <1>0
    DEF Next, vars, MainIdle, mem, CommitSettle, Fire, CancelStep, CancelRelease, Raise
<1>. QED
  BY <1>1, <1>2

(* A COMMIT_BUY in progress was begun, or goes on.                         *)
LEMMA CommitGoesOn ==
    ASSUME IInv, [Next]_vars, pc'[Main] = "commit_settle"
    PROVE  \/ \E u \in Users : CommitTake(u)
           \/ pc[Main] = "commit_settle" /\ frame'[Main] = frame[Main] /\ ~CommitSettle
<1>0. /\ pc \in [Threads -> MainPC \cup TimerPC] /\ frame \in [Threads -> Frame]
      /\ Main \in Threads /\ BuyIds \subseteq Threads /\ Main \notin BuyIds
      /\ uncommitted_buy_timers \in [Users -> BuyIds \cup {None}] /\ FrameOK
  BY DEF IInv, TypeOK, Threads
<1>1. ~CommitSettle /\ ~BuyStep /\ ~Restart
  <2>1. ~CommitSettle /\ ~Restart
    BY <1>0 DEF CommitSettle, End, EndPC, Goto, Restart
  <2>2. ~BuyReserve /\ ~BuyRecord
    BY <1>0 DEF BuyReserve, BuyRecord, Goto
  <2>3. ~BuySwap /\ ~BuyArm
    <3>1. \A b : DOMAIN Cancelled(pc, b) = Threads
      BY <1>0 DEF Cancelled
    <3>. QED
      BY <1>0, <3>1 DEF BuySwap, BuyArm, Started
  <2>. QED
    BY <2>1, <2>2, <2>3 DEF BuyStep
<1>2. ASSUME NEW u \in Users, NEW s \in Stocks, NEW d \in Debts, NEW id \in BuyIds,
             NEW v \in Prices, BuyCheck(u, s, d, id, v)
      PROVE  FALSE
  BY <1>0, <1>2 DEF BuyCheck, Goto
<1>3. ASSUME NEW b \in BuyIds, Fire(b)
      PROVE  pc[Main] = "commit_settle" /\ frame'[Main] = frame[Main]
  BY <1>0, <1>3 DEF Fire, Goto
<1>4. ASSUME NEW t \in Threads, NEW u \in Users, CancelTimer(t, u)
      PROVE  pc[Main] = "commit_settle" /\ frame'[Main] = frame[Main]
  <2>1. \A b : DOMAIN Cancelled(pc, b) = Threads /\ Cancelled(pc, b)[Main] \in {pc[Main], "cancelled"}
    BY <1>0 DEF Cancelled
  <2>2. t # Main
    BY <1>0, <1>4, <2>1 DEF CancelTimer
  <2>. QED
    BY <1>0, <1>4, <2>1, <2>2 DEF CancelTimer
<1>5. ASSUME NEW t \in Threads, CancelStep(t) \/ Raise(t)
      PROVE  pc[Main] = "commit_settle" /\ frame'[Main] = frame[Main]
  <2>1. \/ End(t)
        \/ Goto(t, "cancel_release") /\ frame' = [frame EXCEPT ![t].buy =
                                                    uncommitted_buys[frame[t].user]]
    BY <1>5 DEF CancelStep, CancelTake, CancelRelease, Raise
  <2>2. t # Main
    BY <1>0, <2>1 DEF End, EndPC, Goto
  <2>. QED
    BY <1>0, <2>1, <2>2 DEF End, Goto
<1>. QED
  BY <1>1, <1>2, <1>3, <1>4, <1>5, <1>0 DEF Next, vars, MainIdle, mem

LEMMA AppendToNone == \A h : Len(Append(<< >>, h)) = 1 /\ Append(<< >>, h)[1] = h
OBVIOUS

(* What a COMMIT_BUY does to the shares of its user and stock.             *)
LEMMA Delivers ==
    ASSUME IInv, Priced, CommitSettle, NEW b, b = frame[Main].buy
    PROVE  /\ b \in Buy /\ frame[Main].user \in Users
           /\ quote_cache[b.stock] = b.quote
           /\ \A w \in Users, s \in Stocks :
                 ~(w = frame[Main].user /\ s = b.stock) => stocks'[w][s] = stocks[w][s]
           /\ Len(stocks'[frame[Main].user][b.stock]) = 1
           /\ stocks'[frame[Main].user][b.stock][1].amount =
                 (IF Owns(frame[Main].user, b.stock)
                  THEN stocks[frame[Main].user][b.stock][1].amount ELSE 0) + b.num_stocks
<1>1. /\ pc[Main] = "commit_settle" /\ b \in Buy /\ frame[Main].user \in Users
      /\ b.stock \in Stocks /\ b.num_stocks \in Int
      /\ quote_cache[b.stock] = b.quote
      /\ frame[Main].found = Owns(frame[Main].user, b.stock)
  BY DEF CommitSettle, IInv, FrameOK, Priced, AtPrice, Threads, Buy
<1>2. PICK u \in Users, s \in Stocks, n \in Int :
          u = frame[Main].user /\ s = b.stock /\ n = b.num_stocks
  BY <1>1
<1>3. /\ stocks \in [Users -> [Stocks -> Seq(Holding)]]
      /\ Owns(u, s) => Len(stocks[u][s]) = 1
  BY DEF IInv, TypeOK, DbTypeOK, Priced
<1>4. CASE Owns(u, s)
  <2>1. stocks' = [stocks EXCEPT ![u][s][1] = [amount |-> stocks[u][s][1].amount + n,
                                               available |-> stocks[u][s][1].available + n]]
    BY <1>1, <1>2, <1>4 DEF CommitSettle, Increased
  <2>2. \A w \in Users, x \in Stocks : ~(w = u /\ x = s) => stocks'[w][x] = stocks[w][x]
    BY <1>3, <2>1
  <2>3. /\ Len(stocks'[u][s]) = 1
        /\ stocks'[u][s][1] = [amount |-> stocks[u][s][1].amount + n,
                               available |-> stocks[u][s][1].available + n]
    <3>1. stocks[u][s] \in Seq(Holding) /\ Len(stocks[u][s]) = 1
      BY <1>3, <1>4
    <3>2. stocks'[u][s] = [stocks[u][s] EXCEPT ![1] =
              [amount |-> stocks[u][s][1].amount + n, available |-> stocks[u][s][1].available + n]]
      BY <1>3, <2>1
    <3>. QED
      BY <3>1, <3>2
  <2>4. stocks'[u][s][1].amount = stocks[u][s][1].amount + n
    BY <2>3
  <2>5. Len(stocks'[u][s]) = 1
    BY <2>3
  <2>. HIDE <1>3, <2>1, <2>3
  <2>. QED
    BY <1>1, <1>2, <1>4, <2>2, <2>4, <2>5
<1>5. CASE ~Owns(u, s)
  <2>1. stocks' = [stocks EXCEPT ![u][s] = Append(@, [amount |-> n, available |-> n])]
    BY <1>1, <1>2, <1>5 DEF CommitSettle, Pushed
  <2>2. \A w \in Users, x \in Stocks : ~(w = u /\ x = s) => stocks'[w][x] = stocks[w][x]
    BY <1>3, <2>1
  <2>3. stocks'[u][s] = Append(<< >>, [amount |-> n, available |-> n])
    BY <1>3, <1>5, <2>1 DEF Owns
  <2>4. Len(stocks'[u][s]) = 1 /\ stocks'[u][s][1].amount = n
    BY <2>3, AppendToNone
  <2>5. 0 + n = n
    OBVIOUS
  <2>. QED
    BY <1>1, <1>2, <1>5, <2>2, <2>4, <2>5
<1>. QED
  BY <1>4, <1>5

(* Every step keeps pending buys and shares at the prices in the cache.    *)
LEMMA PricedStep == IInv /\ IInv' /\ Priced /\ [Next]_vars => Priced'
<1>. SUFFICES ASSUME IInv, IInv', Priced, [Next]_vars PROVE Priced'
  OBVIOUS
<1>0. /\ TypeOK /\ Main \in Threads
      /\ uncommitted_buys' \in [Users -> Buy \cup {None}]
      /\ frame' \in [Threads -> Frame]
  BY DEF IInv, TypeOK, Threads
<1>1. ASSUME NEW u \in Users, NEW s \in Stocks, Owns(u, s)'
      PROVE  quote_cache'[s] # None /\ Len(stocks'[u][s]) = 1
  <2>1. CASE UNCHANGED stocks
    <3>1. Owns(u, s)
      BY <1>1, <2>1 DEF Owns
    <3>. QED
      BY <1>0, <2>1, <3>1, CacheKept DEF Priced
  <2>2. CASE CommitSettle
    <3>1. PICK b : b = frame[Main].buy
      OBVIOUS
    <3>2. CASE u = frame[Main].user /\ s = b.stock
      <4>1. b \in Buy /\ quote_cache[s] = b.quote /\ Len(stocks'[u][s]) = 1
        BY <2>2, <3>1, <3>2, Delivers
      <4>2. quote_cache[s] # None
        BY <4>1 DEF Buy
      <4>. QED
        BY <1>0, <4>1, <4>2, CacheKept
    <3>3. CASE ~(u = frame[Main].user /\ s = b.stock)
      <4>1. stocks'[u][s] = stocks[u][s] /\ Owns(u, s)
        BY <1>1, <2>2, <3>1, <3>3, Delivers DEF Owns
      <4>. QED
        BY <1>0, <4>1, CacheKept DEF Priced
    <3>. QED
      BY <3>2, <3>3
  <2>. QED
    BY <2>1, <2>2, StocksKept
<1>2. ASSUME NEW b \in Buy, AtPrice(b) PROVE AtPrice(b)'
  <2>1. quote_cache[b.stock] # None /\ b.stock \in Stocks
    BY <1>2 DEF AtPrice, Buy
  <2>. QED
    BY <1>0, <1>2, <2>1, CacheKept DEF AtPrice
<1>3. ASSUME NEW u \in Users, NEW b \in Buy, b = uncommitted_buys[u] PROVE AtPrice(b)'
  BY <1>2, <1>3 DEF Priced
<1>4. ASSUME NEW t \in Threads, NEW b \in Buy, b = frame[t].buy PROVE AtPrice(b)'
  BY <1>2, <1>4 DEF Priced
<1>5. /\ uncommitted_buys \in [Users -> Buy \cup {None}]
      /\ \A t \in Threads : frame[t].buy \in Buy \cup {None} /\ frame'[t].buy \in Buy \cup {None}
  BY <1>0 DEF TypeOK, Frame
<1>6. ASSUME NEW u \in Users, uncommitted_buys'[u] # None
      PROVE  quote_cache'[uncommitted_buys'[u].stock] = uncommitted_buys'[u].quote
  <2>1. PICK b : b = uncommitted_buys'[u]
    OBVIOUS
  <2>2. b \in Buy /\ (b = uncommitted_buys[u] \/ b = frame[Main].buy)
    BY <1>0, <1>6, <2>1, BuysMove
  <2>3. AtPrice(b)'
    BY <1>0, <1>3, <1>4, <2>2
  <2>. QED
    BY <2>1, <2>3 DEF AtPrice
<1>7. ASSUME NEW t \in Threads, frame'[t].buy # None
      PROVE  quote_cache'[frame'[t].buy.stock] = frame'[t].buy.quote
  <2>1. PICK b : b = frame'[t].buy
    OBVIOUS
  <2>2. /\ b \in Buy
        /\ \/ b = frame[t].buy
           \/ \E u \in Users : b = uncommitted_buys[u]
           \/ quote_cache'[b.stock] = b.quote
    BY <1>5, <1>7, <2>1, BuysMove
  <2>3. quote_cache'[b.stock] = b.quote
    BY <1>3, <1>4, <2>2 DEF AtPrice
  <2>. QED
    BY <2>1, <2>3
<1>8. ASSUME pc'[Main] = "commit_settle"
      PROVE  frame'[Main].found = (stocks'[frame'[Main].user][frame'[Main].buy.stock] # << >>)
  <2>1. ASSUME NEW u \in Users, CommitTake(u)
        PROVE  frame'[Main].found = (stocks'[frame'[Main].user][frame'[Main].buy.stock] # << >>)
    <3>1. frame \in [Threads -> Frame]
      BY <1>0 DEF TypeOK
    <3>. QED
      BY <1>0, <2>1, <3>1 DEF CommitTake, Found, Owns
  <2>2. ASSUME pc[Main] = "commit_settle", frame'[Main] = frame[Main], ~CommitSettle
        PROVE  frame'[Main].found = (stocks'[frame'[Main].user][frame'[Main].buy.stock] # << >>)
    BY <2>2, StocksKept DEF Priced, Owns
  <2>. QED
    BY <1>8, <2>1, <2>2, CommitGoesOn
<1>9. (\A u \in Users : uncommitted_buys[u] # None => AtPrice(uncommitted_buys[u]))'
  BY <1>6 DEF AtPrice
<1>10. (\A t \in Threads : frame[t].buy # None => AtPrice(frame[t].buy))'
  BY <1>7 DEF AtPrice
<1>11. (pc[Main] = "commit_settle" =>
          frame[Main].found = Owns(frame[Main].user, frame[Main].buy.stock))'
  BY <1>8 DEF Owns
<1>. QED
  BY <1>1, <1>9, <1>10, <1>11 DEF Priced

(* Nothing is priced at first.                                             *)
LEMMA PricedInit == Init => Priced
<1>. SUFFICES ASSUME Init PROVE Priced
  OBVIOUS
<1>1. \A u \in Users, s \in Stocks : ~Owns(u, s)
  BY DEF Init, DbInit, Owns
<1>2. /\ \A u \in Users : uncommitted_buys[u] = None
      /\ \A t \in Threads : frame[t].buy = None
      /\ pc[Main] = "idle"
  BY DEF Init, NoFrame, Threads
<1>. QED
  BY <1>1, <1>2 DEF Priced

(* What a stock that a user owns is worth at its price.                    *)
Worth(u, s) == IF Owns(u, s) THEN stocks[u][s][1].amount * quote_cache[s] ELSE 0

(* It is a number.                                                         *)
LEMMA WorthType ==
    TypeOK /\ Priced =>
        \A u \in Users, s \in Stocks :
            Worth(u, s) \in Int /\ (Owns(u, s) => stocks[u][s][1].amount \in Int)
<1>. SUFFICES ASSUME TypeOK, Priced, NEW u \in Users, NEW s \in Stocks, Owns(u, s)
              PROVE  /\ stocks[u][s][1].amount * quote_cache[s] \in Int
                     /\ stocks[u][s][1].amount \in Int
  BY DEF Worth
<1>1. stocks[u][s] \in Seq(Holding) /\ Len(stocks[u][s]) = 1
  BY DEF TypeOK, DbTypeOK, Priced
<1>2. stocks[u][s][1] \in Holding
  BY <1>1
<1>3. stocks[u][s][1].amount \in Int
  BY <1>2 DEF Holding
<1>4. quote_cache[s] \in Prices
  BY DEF TypeOK, DbTypeOK, Priced
<1>5. \A p \in Prices : p \in Int
  OBVIOUS
<1>6. quote_cache[s] \in Int
  BY <1>4, <1>5
<1>. QED
  BY <1>3, <1>6

(* The same of the next state.                                             *)
LEMMA WorthTypeNext ==
    (TypeOK /\ Priced =>
        \A u \in Users, s \in Stocks :
            Worth(u, s) \in Int /\ (Owns(u, s) => stocks[u][s][1].amount \in Int))'
BY WorthType, PTL

(* Nothing but a COMMIT_BUY changes what was spent, or its worth.          *)
LEMMA OthersSpendNothing ==
    ASSUME IsFiniteSet(BuyIds), IInv, IInv', Priced, [Next]_vars, ~CommitSettle, NEW u \in Users
    PROVE  CostIn("spent", u)' = CostIn("spent", u) /\ ValueOfShares(u)' = ValueOfShares(u)
<1>0. /\ hold \in [BuyIds -> [state : {"none", "held", "spent", "freed"},
                              user : Users \cup {None}, cost : Int]]
      /\ TypeOK
  BY DEF IInv, TypeOK
<1>1. \A b \in BuyIds : \/ hold'[b] = hold[b]
                        \/ hold[b].state # "spent" /\ hold'[b].state # "spent"
  <2>1. CASE BuyReserve
    <3>1. /\ hold' = [hold EXCEPT ![frame[Main].buy.id] =
                [state |-> "held", user |-> frame[Main].user, cost |-> Cost(frame[Main].buy)]]
          /\ hold[frame[Main].buy.id].state = "none"
      BY <2>1 DEF BuyReserve, IInv, ReserveReady
    <3>. QED
      BY <1>0, <3>1
  <2>2. ASSUME NEW t \in Threads, CancelRelease(t)
        PROVE  \A b \in BuyIds : \/ hold'[b] = hold[b]
                                 \/ hold[b].state # "spent" /\ hold'[b].state # "spent"
    <3>1. PICK i : i = frame[t].buy.id
      OBVIOUS
    <3>2. hold' = [hold EXCEPT ![i].state = "freed"] /\ hold[i].state = "held" /\ i \in BuyIds
      BY <2>2, <3>1, CarriedState DEF CancelRelease, Carries
    <3>3. hold'[i].state = "freed" /\ \A b \in BuyIds : b # i => hold'[b] = hold[b]
      BY <1>0, <3>2
    <3>. QED
      BY <3>2, <3>3
  <2>3. CASE UNCHANGED hold
    BY <2>3
  <2>. QED
    BY <2>1, <2>2, <2>3
    DEF Next, vars, MainIdle, BuyCheck, BuyStep, BuyRecord, BuySwap, BuyArm, CommitTake, Fire,
        CancelTimer, CancelStep, CancelTake, Raise, Restart
<1>2. \A b \in BuyIds : Share(hold'[b], "spent", u) = Share(hold[b], "spent", u)
  BY <1>1 DEF Share
<1>3. Shares("spent", u)' = Shares("spent", u)
  BY <1>2 DEF Shares
<1>4. CostIn("spent", u)' = SumFunction(Shares("spent", u)') /\ CostIn("spent", u) = SumFunction(Shares("spent", u))
  BY DEF CostIn, Shares, Share
<1>5. UNCHANGED stocks
  BY StocksKept
<1>6. \A s \in Stocks : Worth(u, s)' = Worth(u, s)
  BY <1>0, <1>5, CacheKept DEF Worth, Owns, Priced
<1>7. [s \in Stocks |-> Worth(u, s)]' = [s \in Stocks |-> Worth(u, s)]
  BY <1>6
<1>8. /\ ValueOfShares(u)' = SumFunction([s \in Stocks |-> Worth(u, s)]')
      /\ ValueOfShares(u) = SumFunction([s \in Stocks |-> Worth(u, s)])
  BY DEF ValueOfShares, Worth
<1>. QED
  BY <1>3, <1>4, <1>7, <1>8

(* A COMMIT_BUY delivers the shares that it pays for.                      *)
LEMMA SettleDelivers ==
    ASSUME IsFiniteSet(BuyIds), IsFiniteSet(Stocks), IInv, IInv', Priced, Priced', CommitSettle,
           NEW u \in Users, ValueOfShares(u) = CostIn("spent", u)
    PROVE  ValueOfShares(u)' = CostIn("spent", u)'
<1>1. PICK b : b = frame[Main].buy
  OBVIOUS
<1>2. PICK w : w = frame[Main].user
  OBVIOUS
<1>3. /\ b \in Buy /\ w \in Users /\ quote_cache[b.stock] = b.quote
      /\ \A v \in Users, s \in Stocks : ~(v = w /\ s = b.stock) => stocks'[v][s] = stocks[v][s]
      /\ Len(stocks'[w][b.stock]) = 1
      /\ stocks'[w][b.stock][1].amount =
            (IF Owns(w, b.stock) THEN stocks[w][b.stock][1].amount ELSE 0) + b.num_stocks
  BY <1>1, <1>2, Delivers
<1>4. /\ b.id \in BuyIds /\ hold[b.id].state = "held" /\ hold[b.id].user = w
      /\ hold[b.id].cost = Cost(b)
  BY <1>1, <1>2, CarriedState DEF CommitSettle, Carries, Threads
<1>5. hold' = [hold EXCEPT ![b.id].state = "spent"] /\ UNCHANGED quote_cache
  <2>1. frame[Main].found = Owns(w, b.stock)
    BY <1>1, <1>2 DEF CommitSettle, Priced
  <2>. QED
    BY <1>1, <1>2, <2>1 DEF CommitSettle
<1>6. /\ CostIn("spent", u)' = CostIn("spent", u) + (IF w = u THEN Cost(b) ELSE 0)
      /\ CostIn("spent", u) \in Int
  <2>0. hold \in [BuyIds -> [state : {"none", "held", "spent", "freed"},
                            user : Users \cup {None}, cost : Int]] /\ TypeOK /\ TypeOK'
    BY DEF IInv, TypeOK
  <2>1. /\ \A x \in BuyIds \ {b.id} : hold'[x] = hold[x]
        /\ hold'[b.id].state = "spent" /\ hold'[b.id].user = w /\ hold'[b.id].cost = Cost(b)
    BY <1>4, <1>5, <2>0
  <2>2. /\ CostIn("spent", u)' =
              CostIn("spent", u) + Share(hold'[b.id], "spent", u) - Share(hold[b.id], "spent", u)
        /\ CostIn("spent", u) \in Int
    BY <1>4, <2>0, <2>1, CostChanges
  <2>3. Share(hold'[b.id], "spent", u) = (IF w = u THEN Cost(b) ELSE 0)
        /\ Share(hold[b.id], "spent", u) = 0
    BY <1>4, <2>1 DEF Share
  <2>4. Cost(b) \in Int
    BY <1>3, CostType
  <2>. QED
    BY <2>2, <2>3, <2>4
<1>7. PICK f : f = [s \in Stocks |-> Worth(u, s)]
  OBVIOUS
<1>8. PICK g : g = [s \in Stocks |-> Worth(u, s)']
  OBVIOUS
<1>9. f \in [Stocks -> Int] /\ g \in [Stocks -> Int] /\ b.stock \in Stocks
  <2>1. \A s \in Stocks : Worth(u, s) \in Int
    BY WorthType DEF IInv
  <2>3. \A s \in Stocks : Worth(u, s)' \in Int
    BY WorthTypeNext DEF IInv
  <2>4. b.stock \in Stocks
    BY <1>3 DEF Buy
  <2>. QED
    BY <1>7, <1>8, <2>1, <2>3, <2>4
<1>10. \A s \in Stocks \ {b.stock} : g[s] = f[s]
  BY <1>3, <1>5, <1>7, <1>8 DEF Worth, Owns
<1>11. g[b.stock] = f[b.stock] + (IF w = u THEN Cost(b) ELSE 0)
  <2>1. CASE w # u
    BY <1>3, <1>5, <1>7, <1>8, <1>9, <2>1 DEF Worth, Owns
  <2>2. CASE w = u
    <3>1. g[b.stock] = stocks'[u][b.stock][1].amount * b.quote
      BY <1>3, <1>5, <1>8, <1>9, <2>2 DEF Worth, Owns
    <3>2. PICK a \in Int : a = (IF Owns(u, b.stock) THEN stocks[u][b.stock][1].amount ELSE 0)
      <4>1. Owns(u, b.stock) => stocks[u][b.stock][1].amount \in Int
        BY <1>9, WorthType DEF IInv
      <4>. QED
        BY <4>1
    <3>3. PICK n \in Int, q \in Int : n = b.num_stocks /\ q = b.quote
      <4>1. b.num_stocks \in Nat /\ b.quote \in Prices
        BY <1>3 DEF Buy
      <4>2. \A m \in Nat, p \in Prices : m \in Int /\ p \in Int
        OBVIOUS
      <4>3. b.num_stocks \in Int /\ b.quote \in Int
        BY <4>1, <4>2
      <4>. QED
        BY <4>3
    <3>4. f[b.stock] = a * q
      <4>1. 0 * q = 0
        BY <3>3
      <4>. QED
        BY <1>3, <1>7, <1>9, <3>2, <3>3, <4>1 DEF Worth
    <3>5. g[b.stock] = (a + n) * q
      BY <1>3, <2>2, <3>1, <3>2, <3>3
    <3>6. (a + n) * q = a * q + n * q
      BY <3>2, <3>3
    <3>7. Cost(b) = n * q
      BY <3>3 DEF Cost
    <3>. QED
      BY <2>2, <3>4, <3>5, <3>6, <3>7
  <2>. QED
    BY <2>1, <2>2
<1>12. SumFunction(g) = SumFunction(f) + g[b.stock] - f[b.stock] /\ SumFunction(f) \in Int
  BY <1>9, <1>10, SumChanges, SumType
<1>13. ValueOfShares(u) = SumFunction(f) /\ ValueOfShares(u)' = SumFunction(g)
  BY <1>7, <1>8 DEF ValueOfShares, Worth
<1>14. f[b.stock] \in Int /\ Cost(b) \in Int
  BY <1>3, <1>9, CostType
<1>. QED
  BY <1>6, <1>11, <1>12, <1>13, <1>14

(***************************************************************************)
(* The shares of a user are worth what the BUYs that were committed cost,  *)
(* and there is one element for each stock: nothing is delivered twice,    *)
(* unpaid, or beside what is there already, for any number of users,       *)
(* stocks and BUYs, any prices, exceptions and restarts.                   *)
(***************************************************************************)
THEOREM SharesArePaidFor ==
    ASSUME IsFiniteSet(BuyIds), IsFiniteSet(Stocks)
    PROVE  Spec => []SharesPaidFor
<1>. DEFINE Paid == Priced /\ \A u \in Users : ValueOfShares(u) = CostIn("spent", u)
<1>1. Init => Paid
  <2>. SUFFICES ASSUME Init PROVE Paid
    OBVIOUS
  <2>1. Priced
    BY PricedInit
  <2>2. ASSUME NEW u \in Users PROVE ValueOfShares(u) = CostIn("spent", u)
    <3>1. Shares("spent", u) \in [BuyIds -> Int] /\ \A b \in BuyIds : Shares("spent", u)[b] = 0
      BY DEF Init, NoHold, Shares, Share
    <3>2. CostIn("spent", u) = 0
      BY <3>1, CostIsSum, SumOfZeros
    <3>3. \A s \in Stocks : Worth(u, s) = 0
      BY DEF Init, DbInit, Owns, Worth
    <3>4. SumFunction([s \in Stocks |-> Worth(u, s)]) = 0
      BY <3>3, SumOfZeros
    <3>. QED
      BY <3>2, <3>4 DEF ValueOfShares, Worth
  <2>. QED
    BY <2>1, <2>2
<1>2. IInv /\ IInv' /\ Paid /\ [Next]_vars => Paid'
  <2>. SUFFICES ASSUME IInv, IInv', Paid, [Next]_vars PROVE Paid'
    OBVIOUS
  <2>1. Priced'
    BY PricedStep
  <2>2. ASSUME NEW u \in Users PROVE ValueOfShares(u)' = CostIn("spent", u)'
    BY <2>1, OthersSpendNothing, SettleDelivers
  <2>. QED
    BY <2>1, <2>2
<1>3. TypeOK /\ Paid => SharesPaidFor
  <2>. SUFFICES ASSUME TypeOK, Paid, NEW u \in Users, NEW s \in Stocks
                PROVE  Len(stocks[u][s]) <= 1
    BY DEF SharesPaidFor
  <2>1. \A q : q = << >> => Len(q) = 0
    OBVIOUS
  <2>2. Len(stocks[u][s]) = 0 \/ Len(stocks[u][s]) = 1
    BY <2>1 DEF Priced, Owns
  <2>3. \A n \in {0, 1} : n <= 1
    OBVIOUS
  <2>. QED
    BY <2>2, <2>3
<1>. HIDE DEF Paid
<1>. QED
  BY IInvHolds, TypeCorrect, <1>1, <1>2, <1>3, PTL DEF Spec

-----------------------------------------------------------------------------
(***************************************************************************)
(* Without faults every pending buy is guarded.  A timer in the dictionary *)
(* waits or has just expired, for the user it is filed under; and the      *)
(* timer of a BUY is new until the BUY starts it.                          *)
(***************************************************************************)
TimersOK ==
    \A u \in Users : uncommitted_buy_timers[u] # None =>
        /\ pc[uncommitted_buy_timers[u]] \in {"armed", "fired"}
        /\ frame[uncommitted_buy_timers[u]].user = u

FreshTimers ==
    /\ \A b \in BuyIds : hold[b].state = "none" => pc[b] = "unarmed"
    /\ pc[Main] \in {"buy_reserve", "buy_record", "buy_swap", "buy_arm"} =>
          pc[frame[Main].buy.id] = "unarmed"
    /\ pc[Main] \in {"buy_record", "buy_swap", "buy_arm"} =>
          hold[frame[Main].buy.id].state # "none"

GInv == TimersOK /\ FreshTimers /\ PendingGuarded

(* The timers in the dictionary are live, and filed under their user. *)
LEMMA TimersOKStep == IInv /\ GInv /\ ~CanRaise /\ ~CanRestart /\ [Next]_vars
                => TimersOK'
<1>. SUFFICES ASSUME IInv, GInv, ~CanRaise, ~CanRestart, [Next]_vars
              PROVE  TimersOK'
  OBVIOUS
<1>. USE DEF Threads
<1>0. /\ TimersOK /\ FreshTimers /\ PendingGuarded /\ FrameOK
      /\ uncommitted_buys \in [Users -> Buy \cup {None}]
      /\ uncommitted_buy_timers \in [Users -> BuyIds \cup {None}]
      /\ pc \in [Threads -> MainPC \cup TimerPC]
      /\ frame \in [Threads -> Frame]
      /\ hold \in [BuyIds -> [state : {"none", "held", "spent", "freed"},
                              user : Users \cup {None}, cost : Int]]
  BY DEF IInv, GInv, TypeOK
<1>1. ASSUME NEW u \in Users, NEW a \in Deposits, MainIdle(Add(u, a))
      PROVE  TimersOK'
  BY <1>0, <1>1 DEF MainIdle, Add, mem, TimersOK
<1>2. ASSUME NEW u \in Users, NEW s \in Stocks, NEW v \in Prices, MainIdle(Quote(u, s, v))
      PROVE  TimersOK'
  BY <1>0, <1>2 DEF MainIdle, Quote, mem, TimersOK
<1>3. ASSUME NEW u \in Users, NEW s \in Stocks, NEW d \in Debts, NEW id \in BuyIds,
             NEW v \in Prices, BuyCheck(u, s, d, id, v)
      PROVE  TimersOK'
  <2>1. UNCHANGED uncommitted_buy_timers
    BY <1>0, <1>3 DEF BuyCheck
  <2>2. \A b \in BuyIds : pc'[b] = pc[b] /\ frame'[b] = frame[b]
    BY <1>0, <1>3 DEF BuyCheck, Goto
  <2>. QED
    BY <1>0, <2>1, <2>2 DEF TimersOK
<1>4. CASE BuyReserve
  BY <1>0, <1>4 DEF BuyReserve, Goto, TimersOK
<1>5. CASE BuyRecord
  BY <1>0, <1>5 DEF BuyRecord, Goto, TimersOK
<1>6. CASE BuySwap
  <2>. DEFINE u == frame[Main].user
  <2>1. u \in Users /\ uncommitted_buy_timers' = [uncommitted_buy_timers EXCEPT ![u] = None]
    BY <1>0, <1>6 DEF BuySwap, FrameOK
  <2>2. \A b \in BuyIds : b # uncommitted_buy_timers[u] => pc'[b] = pc[b]
    BY <1>0, <1>6 DEF BuySwap, Cancelled
  <2>3. \A b \in BuyIds : frame'[b] = frame[b]
    BY <1>0, <1>6 DEF BuySwap
  <2>. HIDE DEF u
  <2>. QED
    BY <1>0, <2>1, <2>2, <2>3 DEF TimersOK
<1>7. CASE BuyArm
  <2>. DEFINE u == frame[Main].user
              id == frame[Main].buy.id
  <2>1. u \in Users /\ id \in BuyIds /\ pc[id] = "unarmed"
    BY <1>0, <1>7 DEF BuyArm, FrameOK, FreshTimers, Buy
  <2>2. uncommitted_buy_timers' = [uncommitted_buy_timers EXCEPT ![u] = id]
    BY <1>0, <1>7 DEF BuyArm
  <2>3. \A b \in BuyIds \ {id} : pc'[b] = pc[b] /\ frame'[b] = frame[b]
    BY <1>0, <1>7 DEF BuyArm, Started
  <2>4. pc'[id] = "armed" /\ frame'[id].user = u
    BY <1>0, <1>7, <2>1 DEF BuyArm, Started, NoFrame
  <2>. HIDE DEF u, id
  <2>. QED
    BY <1>0, <2>1, <2>2, <2>3, <2>4 DEF TimersOK
<1>8. ASSUME NEW u \in Users, CommitTake(u)
      PROVE  TimersOK'
  BY <1>0, <1>8 DEF CommitTake, PopBuy, Cancelled, TimersOK
<1>9. CASE CommitSettle
  BY <1>0, <1>9 DEF CommitSettle, End, EndPC, Goto, NoFrame, TimersOK
<1>10. ASSUME NEW b \in BuyIds, Fire(b)
      PROVE  TimersOK'
  BY <1>0, <1>10 DEF Fire, Goto, TimersOK
<1>11. ASSUME NEW t \in Threads, NEW u \in Users, CancelTimer(t, u)
      PROVE  TimersOK'
  BY <1>0, <1>11 DEF CancelTimer, Cancelled, TimersOK
<1>12. ASSUME NEW t \in Threads, CancelTake(t)
      PROVE  TimersOK'
  <2>1. UNCHANGED uncommitted_buy_timers /\ pc[t] = "cancel_take"
    BY <1>0, <1>12 DEF CancelTake
  <2>2. \A x \in Threads \ {t} : pc'[x] = pc[x] /\ frame'[x] = frame[x]
    BY <1>0, <1>12 DEF CancelTake, End, Goto
  <2>. QED
    BY <1>0, <2>1, <2>2 DEF TimersOK
<1>13. ASSUME NEW t \in Threads, CancelRelease(t)
      PROVE  TimersOK'
  BY <1>0, <1>13 DEF CancelRelease, End, EndPC, Goto, NoFrame, TimersOK
<1>14. ASSUME NEW t \in Threads, Raise(t)
      PROVE  TimersOK'
  BY <1>0, <1>14 DEF Raise, MayRaise, End, EndPC, Goto, NoFrame, TimersOK
<1>15. CASE Restart
  BY <1>0, <1>15 DEF Restart, EndPC, NoFrame, TimersOK
<1>16. CASE UNCHANGED vars
  BY <1>0, <1>16 DEF vars, TimersOK
<1>. QED
  BY <1>1, <1>2, <1>3, <1>4, <1>5, <1>6, <1>7, <1>8,
     <1>9, <1>10, <1>11, <1>12, <1>13, <1>14, <1>15, <1>16
  DEF Next, BuyStep, CancelStep

(* A timer is unarmed until its BUY arms it. *)
LEMMA FreshTimersStep == IInv /\ GInv /\ ~CanRaise /\ ~CanRestart /\ [Next]_vars
                => FreshTimers'
<1>. SUFFICES ASSUME IInv, GInv, ~CanRaise, ~CanRestart, [Next]_vars
              PROVE  FreshTimers'
  OBVIOUS
<1>. USE DEF Threads
<1>0. /\ TimersOK /\ FreshTimers /\ PendingGuarded /\ FrameOK
      /\ uncommitted_buys \in [Users -> Buy \cup {None}]
      /\ uncommitted_buy_timers \in [Users -> BuyIds \cup {None}]
      /\ pc \in [Threads -> MainPC \cup TimerPC]
      /\ frame \in [Threads -> Frame]
      /\ hold \in [BuyIds -> [state : {"none", "held", "spent", "freed"},
                              user : Users \cup {None}, cost : Int]]
  BY DEF IInv, GInv, TypeOK
<1>1. ASSUME NEW u \in Users, NEW a \in Deposits, MainIdle(Add(u, a))
      PROVE  FreshTimers'
  BY <1>0, <1>1 DEF MainIdle, Add, mem, FreshTimers
<1>2. ASSUME NEW u \in Users, NEW s \in Stocks, NEW v \in Prices, MainIdle(Quote(u, s, v))
      PROVE  FreshTimers'
  BY <1>0, <1>2 DEF MainIdle, Quote, mem, FreshTimers
<1>3. ASSUME NEW u \in Users, NEW s \in Stocks, NEW d \in Debts, NEW id \in BuyIds,
             NEW v \in Prices, BuyCheck(u, s, d, id, v)
      PROVE  FreshTimers'
  BY <1>0, <1>3 DEF BuyCheck, Goto, FreshTimers
<1>4. CASE BuyReserve
  <2>1. frame[Main].buy.id \in BuyIds /\ pc[Main] = "buy_reserve"
    BY <1>0, <1>4 DEF BuyReserve, FrameOK, Buy
  <2>. QED
    BY <1>0, <1>4, <2>1 DEF BuyReserve, Goto, FreshTimers
<1>5. CASE BuyRecord
  BY <1>0, <1>5 DEF BuyRecord, Goto, FreshTimers
<1>6. CASE BuySwap
  <2>1. \A b \in BuyIds : pc[b] = "unarmed" => pc'[b] = "unarmed"
    BY <1>0, <1>6 DEF BuySwap, Cancelled
  <2>2. hold' = hold /\ frame'[Main].buy = frame[Main].buy /\ pc[Main] = "buy_swap"
    BY <1>0, <1>6 DEF BuySwap
  <2>3. frame[Main].buy.id \in BuyIds
    BY <1>0, <2>2 DEF FrameOK, Buy
  <2>. QED
    BY <1>0, <2>1, <2>2, <2>3 DEF FreshTimers
<1>7. CASE BuyArm
  <2>. DEFINE id == frame[Main].buy.id
  <2>1. \A b \in BuyIds : b # id => pc'[b] = pc[b]
    BY <1>0, <1>7 DEF BuyArm, Started
  <2>2. hold' = hold /\ pc'[Main] = "idle" /\ pc[Main] = "buy_arm"
    BY <1>0, <1>7 DEF BuyArm, Started
  <2>3. hold[id].state # "none"
    BY <1>0, <2>2 DEF FreshTimers
  <2>. HIDE DEF id
  <2>. QED
    BY <1>0, <2>1, <2>2, <2>3 DEF FreshTimers
<1>8. ASSUME NEW u \in Users, CommitTake(u)
      PROVE  FreshTimers'
  BY <1>0, <1>8 DEF CommitTake, PopBuy, Cancelled, FreshTimers
<1>9. CASE CommitSettle
  <2>1. \A b \in BuyIds : pc'[b] = pc[b]
    BY <1>0, <1>9 DEF CommitSettle, End, Goto
  <2>2. pc'[Main] = "idle"
    BY <1>0, <1>9 DEF CommitSettle, End, EndPC, Goto
  <2>3. \A b \in BuyIds : hold'[b].state = "none" => hold[b].state = "none"
    BY <1>0, <1>9 DEF CommitSettle
  <2>. QED
    BY <1>0, <2>1, <2>2, <2>3 DEF FreshTimers
<1>10. ASSUME NEW b \in BuyIds, Fire(b)
      PROVE  FreshTimers'
  BY <1>0, <1>10 DEF Fire, Goto, FreshTimers
<1>11. ASSUME NEW t \in Threads, NEW u \in Users, CancelTimer(t, u)
      PROVE  FreshTimers'
  <2>1. \A b \in BuyIds : pc[b] = "unarmed" => pc'[b] = "unarmed"
    BY <1>0, <1>11 DEF CancelTimer, Cancelled
  <2>2. hold' = hold
    BY <1>0, <1>11 DEF CancelTimer
  <2>3. \/ pc'[Main] = "cancel_take"
        \/ pc'[Main] = pc[Main] /\ frame'[Main] = frame[Main]
    <3>1. CASE t = Main
      <4>1. Cancelled(pc, uncommitted_buy_timers[u]) \in [Threads -> MainPC \cup TimerPC]
        BY <1>0 DEF Cancelled, TimerPC
      <4>2. pc' = [Cancelled(pc, uncommitted_buy_timers[u]) EXCEPT ![Main] = "cancel_take"]
        BY <1>11, <3>1 DEF CancelTimer
      <4>. QED
        BY <4>1, <4>2
    <3>2. CASE t # Main
      <4>1. frame'[Main] = frame[Main]
        BY <1>11, <3>2 DEF CancelTimer
      <4>2. uncommitted_buy_timers[u] \in BuyIds \cup {None}
        BY <1>0
      <4>3. pc'[Main] = pc[Main]
        BY <1>0, <1>11, <3>2, <4>2 DEF CancelTimer, Cancelled
      <4>. QED
        BY <4>1, <4>3
    <3>. QED
      BY <3>1, <3>2
  <2>4. pc[Main] \in {"buy_reserve", "buy_record", "buy_swap", "buy_arm"}
          => frame[Main].buy.id \in BuyIds
    BY <1>0 DEF FrameOK, Buy
  <2>. QED
    BY <1>0, <2>1, <2>2, <2>3, <2>4 DEF FreshTimers
<1>12. ASSUME NEW t \in Threads, CancelTake(t)
      PROVE  FreshTimers'
  <2>1. \A b \in BuyIds : pc[b] = "unarmed" => pc'[b] = "unarmed"
    BY <1>0, <1>12 DEF CancelTake, End, Goto
  <2>2. hold' = hold
    BY <1>0, <1>12 DEF CancelTake
  <2>3. \/ pc'[Main] \in {"idle", "cancel_release"}
        \/ pc'[Main] = pc[Main] /\ frame'[Main] = frame[Main]
    BY <1>0, <1>12 DEF CancelTake, End, EndPC, Goto
  <2>4. pc[Main] \in {"buy_reserve", "buy_record", "buy_swap", "buy_arm"}
          => frame[Main].buy.id \in BuyIds
    BY <1>0 DEF FrameOK, Buy
  <2>. QED
    BY <1>0, <2>1, <2>2, <2>3, <2>4 DEF FreshTimers
<1>13. ASSUME NEW t \in Threads, CancelRelease(t)
      PROVE  FreshTimers'
  BY <1>0, <1>13 DEF CancelRelease, End, EndPC, Goto, NoFrame, FreshTimers
<1>14. ASSUME NEW t \in Threads, Raise(t)
      PROVE  FreshTimers'
  BY <1>0, <1>14 DEF Raise, MayRaise, End, EndPC, Goto, NoFrame, FreshTimers
<1>15. CASE Restart
  BY <1>0, <1>15 DEF Restart, EndPC, NoFrame, FreshTimers
<1>16. CASE UNCHANGED vars
  BY <1>0, <1>16 DEF vars, FreshTimers
<1>. QED
  BY <1>1, <1>2, <1>3, <1>4, <1>5, <1>6, <1>7, <1>8,
     <1>9, <1>10, <1>11, <1>12, <1>13, <1>14, <1>15, <1>16
  DEF Next, BuyStep, CancelStep

(* A pending buy keeps a guard. *)
LEMMA PendingGuardedStep == IInv /\ GInv /\ ~CanRaise /\ ~CanRestart /\ [Next]_vars
                => PendingGuarded'
<1>. SUFFICES ASSUME IInv, GInv, ~CanRaise, ~CanRestart, [Next]_vars
              PROVE  PendingGuarded'
  OBVIOUS
<1>. USE DEF Threads
<1>0. /\ TimersOK /\ FreshTimers /\ PendingGuarded /\ FrameOK
      /\ uncommitted_buys \in [Users -> Buy \cup {None}]
      /\ uncommitted_buy_timers \in [Users -> BuyIds \cup {None}]
      /\ pc \in [Threads -> MainPC \cup TimerPC]
      /\ frame \in [Threads -> Frame]
      /\ hold \in [BuyIds -> [state : {"none", "held", "spent", "freed"},
                              user : Users \cup {None}, cost : Int]]
  BY DEF IInv, GInv, TypeOK
<1>1. ASSUME NEW u \in Users, NEW a \in Deposits, MainIdle(Add(u, a))
      PROVE  PendingGuarded'
  BY <1>0, <1>1 DEF MainIdle, Add, mem, PendingGuarded, Guarded
<1>2. ASSUME NEW u \in Users, NEW s \in Stocks, NEW v \in Prices, MainIdle(Quote(u, s, v))
      PROVE  PendingGuarded'
  BY <1>0, <1>2 DEF MainIdle, Quote, mem, PendingGuarded, Guarded
<1>3. ASSUME NEW u \in Users, NEW s \in Stocks, NEW d \in Debts, NEW id \in BuyIds,
             NEW v \in Prices, BuyCheck(u, s, d, id, v)
      PROVE  PendingGuarded'
  <2>1. UNCHANGED <<uncommitted_buys, uncommitted_buy_timers>> /\ pc[Main] = "idle"
    BY <1>0, <1>3 DEF BuyCheck
  <2>2. \A b \in BuyIds : pc'[b] = pc[b] /\ frame'[b] = frame[b]
    BY <1>0, <1>3 DEF BuyCheck, Goto
  <2>. QED
    BY <1>0, <2>1, <2>2 DEF PendingGuarded, Guarded
<1>4. CASE BuyReserve
  BY <1>0, <1>4 DEF BuyReserve, Goto, PendingGuarded, Guarded
<1>5. CASE BuyRecord
  BY <1>0, <1>5 DEF BuyRecord, Goto, PendingGuarded, Guarded
<1>6. CASE BuySwap
  <2>. DEFINE u == frame[Main].user
  <2>1. u \in Users /\ uncommitted_buy_timers' = [uncommitted_buy_timers EXCEPT ![u] = None]
    BY <1>0, <1>6 DEF BuySwap, FrameOK
  <2>2. UNCHANGED uncommitted_buys /\ pc[Main] = "buy_swap" /\ pc'[Main] = "buy_arm"
    BY <1>0, <1>6 DEF BuySwap, Cancelled
  <2>3. \A b \in BuyIds : frame'[b] = frame[b]
    BY <1>0, <1>6 DEF BuySwap
  <2>4. frame'[Main].user = u
    BY <1>0, <1>6 DEF BuySwap
  <2>5. \A b \in BuyIds : pc[b] = "cancel_take" => pc'[b] = "cancel_take"
    BY <1>0, <1>6 DEF BuySwap, Cancelled
  <2>6. \A b \in BuyIds : b # uncommitted_buy_timers[u] => pc'[b] = pc[b]
    BY <1>0, <1>6 DEF BuySwap, Cancelled
  <2>. SUFFICES ASSUME NEW x \in Users, uncommitted_buys[x] # None, x # u
                PROVE  Guarded(x)'
    BY <1>0, <2>2, <2>4 DEF PendingGuarded, Guarded
  <2>7. CASE \E t \in Threads : pc[t] = "cancel_take" /\ frame[t].user = x
    BY <1>0, <2>2, <2>3, <2>5, <2>7 DEF Guarded
  <2>8. CASE /\ uncommitted_buy_timers[x] # None
             /\ pc[uncommitted_buy_timers[x]] \in {"armed", "fired"}
             /\ frame[uncommitted_buy_timers[x]].user = x
    <3>1. uncommitted_buy_timers[x] # uncommitted_buy_timers[u]
      BY <1>0, <2>1, <2>8 DEF TimersOK
    <3>. HIDE DEF u
    <3>. QED
      BY <1>0, <2>1, <2>3, <2>6, <2>8, <3>1 DEF Guarded
  <2>. QED
    BY <1>0, <2>2, <2>7, <2>8 DEF PendingGuarded, Guarded
<1>7. CASE BuyArm
  <2>0. PICK u \in Users, id \in BuyIds : u = frame[Main].user /\ id = frame[Main].buy.id
    BY <1>0, <1>7 DEF BuyArm, FrameOK, Buy
  <2>1. pc[id] = "unarmed"
    BY <1>0, <1>7, <2>0 DEF BuyArm, FreshTimers
  <2>2. uncommitted_buy_timers' = [uncommitted_buy_timers EXCEPT ![u] = id]
    BY <1>0, <1>7, <2>0 DEF BuyArm
  <2>3. \A b \in BuyIds \ {id} : pc'[b] = pc[b] /\ frame'[b] = frame[b]
    BY <1>0, <1>7, <2>0 DEF BuyArm, Started
  <2>4. pc'[id] = "armed" /\ frame'[id].user = u
    BY <1>0, <1>7, <2>0, <2>1 DEF BuyArm, Started, NoFrame
  <2>5. UNCHANGED uncommitted_buys /\ pc[Main] = "buy_arm"
    BY <1>0, <1>7, <2>0 DEF BuyArm
  <2>6. Guarded(u)'
    BY <1>0, <2>1, <2>2, <2>4 DEF Guarded
  <2>7. ASSUME NEW x \in Users, uncommitted_buys[x] # None, x # u
        PROVE  Guarded(x)'
    <3>1. \/ \E t \in Threads : pc[t] = "cancel_take" /\ frame[t].user = x
          \/ /\ uncommitted_buy_timers[x] # None
             /\ pc[uncommitted_buy_timers[x]] \in {"armed", "fired"}
             /\ frame[uncommitted_buy_timers[x]].user = x
      BY <1>0, <2>0, <2>5, <2>7 DEF PendingGuarded, Guarded
    <3>2. CASE \E t \in Threads : pc[t] = "cancel_take" /\ frame[t].user = x
      BY <1>0, <2>1, <2>3, <2>5, <3>2 DEF Guarded
    <3>3. CASE /\ uncommitted_buy_timers[x] # None
               /\ pc[uncommitted_buy_timers[x]] \in {"armed", "fired"}
               /\ frame[uncommitted_buy_timers[x]].user = x
      BY <1>0, <2>1, <2>2, <2>3, <2>7, <3>3 DEF Guarded
    <3>. QED
      BY <1>0, <3>1, <3>2, <3>3
  <2>. QED
    BY <1>0, <2>5, <2>6, <2>7 DEF PendingGuarded
<1>8. ASSUME NEW u \in Users, CommitTake(u)
      PROVE  PendingGuarded'
  <2>1. uncommitted_buy_timers' = [uncommitted_buy_timers EXCEPT ![u] = None]
    BY <1>0, <1>8 DEF CommitTake
  <2>2. pc[Main] = "idle" /\ \A b \in BuyIds : frame'[b] = frame[b]
    BY <1>0, <1>8 DEF CommitTake
  <2>3. \A b \in BuyIds : pc[b] = "cancel_take" => pc'[b] = "cancel_take"
    BY <1>0, <1>8 DEF CommitTake, Cancelled
  <2>4. \A b \in BuyIds : b # uncommitted_buy_timers[u] => pc'[b] = pc[b] /\ frame'[b] = frame[b]
    BY <1>0, <1>8 DEF CommitTake, Cancelled
  <2>5. uncommitted_buys' = [uncommitted_buys EXCEPT ![u] = None]
    BY <1>0, <1>8 DEF CommitTake, PopBuy
  <2>. SUFFICES ASSUME NEW x \in Users, uncommitted_buys[x] # None, x # u
                PROVE  Guarded(x)'
    BY <1>0, <2>5 DEF PendingGuarded
  <2>7. CASE \E y \in Threads : pc[y] = "cancel_take" /\ frame[y].user = x
    BY <1>0, <2>2, <2>3, <2>7 DEF Guarded
  <2>8. CASE /\ uncommitted_buy_timers[x] # None
             /\ pc[uncommitted_buy_timers[x]] \in {"armed", "fired"}
             /\ frame[uncommitted_buy_timers[x]].user = x
    <3>1. /\ uncommitted_buy_timers[x] # uncommitted_buy_timers[u]
          /\ uncommitted_buy_timers[x] \in BuyIds
      BY <1>0, <2>8 DEF TimersOK
    <3>. QED
      BY <1>0, <2>1, <2>4, <2>8, <3>1 DEF Guarded
  <2>. QED
    BY <1>0, <2>2, <2>7, <2>8 DEF PendingGuarded, Guarded
<1>9. CASE CommitSettle
  BY <1>0, <1>9 DEF CommitSettle, End, EndPC, Goto, NoFrame, PendingGuarded, Guarded
<1>10. ASSUME NEW b \in BuyIds, Fire(b)
      PROVE  PendingGuarded'
  BY <1>0, <1>10 DEF Fire, Goto, PendingGuarded, Guarded
<1>11. ASSUME NEW t \in Threads, NEW u \in Users, CancelTimer(t, u)
      PROVE  PendingGuarded'
  <2>1. uncommitted_buy_timers' = [uncommitted_buy_timers EXCEPT ![u] = None]
    BY <1>0, <1>11 DEF CancelTimer
  <2>2. /\ pc[t] \in {"idle", "fired"} /\ (t # Main => frame[t].user = u)
        /\ \A y \in Threads \ {t} : frame'[y] = frame[y]
    BY <1>0, <1>11 DEF CancelTimer
  <2>3. \A y \in Threads : pc[y] = "cancel_take" => pc'[y] = "cancel_take"
    BY <1>0, <1>11 DEF CancelTimer, Cancelled
  <2>4. \A b \in BuyIds : b # uncommitted_buy_timers[u] /\ frame[b].user # u
                           => pc'[b] = pc[b] /\ frame'[b] = frame[b]
    BY <1>0, <1>11, <2>2 DEF CancelTimer, Cancelled
  <2>5. uncommitted_buys' = uncommitted_buys
    BY <1>0, <1>11 DEF CancelTimer
  <2>6. Guarded(u)'
    <3>1. pc'[t] = "cancel_take" /\ frame'[t].user = u
      BY <1>0, <1>11 DEF CancelTimer, Cancelled
    <3>. QED
      BY <3>1 DEF Guarded
  <2>. SUFFICES ASSUME NEW x \in Users, uncommitted_buys[x] # None, x # u
                PROVE  Guarded(x)'
    BY <1>0, <2>5, <2>6 DEF PendingGuarded
  <2>7. CASE \E y \in Threads : pc[y] = "cancel_take" /\ frame[y].user = x
    BY <1>0, <2>2, <2>3, <2>7 DEF Guarded
  <2>8. CASE /\ uncommitted_buy_timers[x] # None
             /\ pc[uncommitted_buy_timers[x]] \in {"armed", "fired"}
             /\ frame[uncommitted_buy_timers[x]].user = x
    <3>1. /\ uncommitted_buy_timers[x] # uncommitted_buy_timers[u]
          /\ uncommitted_buy_timers[x] \in BuyIds
      BY <1>0, <2>8 DEF TimersOK
    <3>. QED
      BY <1>0, <2>1, <2>4, <2>8, <3>1 DEF Guarded
  <2>9. CASE pc[Main] \in {"buy_swap", "buy_arm"} /\ frame[Main].user = x
    <3>1. t # Main
      BY <1>0, <2>2, <2>9
    <3>2. pc'[Main] = pc[Main]
      BY <1>0, <1>11, <3>1 DEF CancelTimer, Cancelled
    <3>. QED
      BY <1>0, <2>2, <2>9, <3>1, <3>2 DEF Guarded
  <2>. QED
    BY <1>0, <2>7, <2>8, <2>9 DEF PendingGuarded, Guarded
<1>12. ASSUME NEW t \in Threads, CancelTake(t)
      PROVE  PendingGuarded'
  <2>. DEFINE u == frame[t].user
  <2>1. UNCHANGED uncommitted_buy_timers /\ pc[t] = "cancel_take"
    BY <1>0, <1>12 DEF CancelTake
  <2>2. \A y \in Threads \ {t} : pc'[y] = pc[y] /\ frame'[y] = frame[y]
    BY <1>0, <1>12 DEF CancelTake, End, Goto
  <2>3. uncommitted_buys' = [uncommitted_buys EXCEPT ![u] = None]
    BY <1>0, <1>12 DEF CancelTake, PopBuy
  <2>. SUFFICES ASSUME NEW x \in Users, uncommitted_buys[x] # None, x # u
                PROVE  Guarded(x)'
    BY <1>0, <2>3 DEF PendingGuarded
  <2>4. CASE \E y \in Threads : pc[y] = "cancel_take" /\ frame[y].user = x
    BY <1>0, <2>2, <2>4 DEF Guarded
  <2>5. CASE /\ uncommitted_buy_timers[x] # None
             /\ pc[uncommitted_buy_timers[x]] \in {"armed", "fired"}
             /\ frame[uncommitted_buy_timers[x]].user = x
    BY <1>0, <2>1, <2>2, <2>5 DEF Guarded
  <2>6. CASE pc[Main] \in {"buy_swap", "buy_arm"} /\ frame[Main].user = x
    BY <1>0, <2>1, <2>2, <2>6 DEF Guarded
  <2>. QED
    BY <1>0, <2>4, <2>5, <2>6 DEF PendingGuarded, Guarded
<1>13. ASSUME NEW t \in Threads, CancelRelease(t)
      PROVE  PendingGuarded'
  BY <1>0, <1>13 DEF CancelRelease, End, EndPC, Goto, NoFrame, PendingGuarded, Guarded
<1>14. ASSUME NEW t \in Threads, Raise(t)
      PROVE  PendingGuarded'
  BY <1>0, <1>14 DEF Raise, MayRaise, End, EndPC, Goto, NoFrame, PendingGuarded, Guarded
<1>15. CASE Restart
  BY <1>0, <1>15 DEF Restart, EndPC, NoFrame, PendingGuarded, Guarded
<1>16. CASE UNCHANGED vars
  BY <1>0, <1>16 DEF vars, PendingGuarded, Guarded
<1>. QED
  BY <1>1, <1>2, <1>3, <1>4, <1>5, <1>6, <1>7, <1>8,
     <1>9, <1>10, <1>11, <1>12, <1>13, <1>14, <1>15, <1>16
  DEF Next, BuyStep, CancelStep

(* There are no timers and no pending buys at first. *)
LEMMA GInvInit == Init => GInv
<1>. SUFFICES ASSUME Init PROVE GInv
  OBVIOUS
<1>1. \A t \in Threads : pc[t] = IF t = Main THEN "idle" ELSE "unarmed"
  BY DEF Init
<1>2. \A u \in Users : uncommitted_buys[u] = None /\ uncommitted_buy_timers[u] = None
  BY DEF Init
<1>. QED
  BY <1>1, <1>2 DEF GInv, TimersOK, FreshTimers, PendingGuarded, Threads

(***************************************************************************)
(* Without exceptions and restarts, every pending buy is guarded: a timer, *)
(* or a thread that will cancel it, is always on its way.                  *)
(***************************************************************************)
THEOREM AlwaysGuarded ==
    ASSUME ~CanRaise, ~CanRestart
    PROVE  Spec => []PendingGuarded
<1>1. Init => GInv
  BY GInvInit
<1>2. IInv /\ GInv /\ [Next]_vars => GInv'
  BY TimersOKStep, FreshTimersStep, PendingGuardedStep DEF GInv
<1>3. GInv => PendingGuarded
  BY DEF GInv
<1>. QED
  BY IInvHolds, <1>1, <1>2, <1>3, PTL DEF Spec
-----------------------------------------------------------------------------
(***************************************************************************)
(* Without faults a reservation is out of reach only when a later BUY has  *)
(* been recorded over it.                                                  *)
(***************************************************************************)

(* A pending buy that is taken out of the dictionary is carried.           *)
LEMMA TakenIsCarried ==
    ASSUME IInv, Next, ~CanRestart, NEW b \in BuyIds, NEW u \in Users, Recorded(b, u),
           uncommitted_buys'[u] = None
    PROVE  \E t \in Threads : Carried(b, t)'
<1>0. /\ uncommitted_buys \in [Users -> Buy \cup {None}]
      /\ uncommitted_buy_timers \in [Users -> BuyIds \cup {None}]
      /\ frame \in [Threads -> Frame] /\ FrameOK
      /\ pc \in [Threads -> MainPC \cup TimerPC]
      /\ Main \in Threads /\ BuyIds \subseteq Threads
      /\ uncommitted_buys[u] # None /\ uncommitted_buys[u].id = b
  BY DEF IInv, TypeOK, Threads, Recorded
<1>1. ASSUME NEW w \in Users, CommitTake(w)
      PROVE  Carried(b, Main)'
  <2>1. w = u
    BY <1>0, <1>1 DEF CommitTake, PopBuy
  <2>2. frame'[Main].buy = uncommitted_buys[u]
    BY <1>0, <1>1, <2>1 DEF CommitTake
  <2>3. pc'[Main] = "commit_settle"
    <3>1. DOMAIN Cancelled(pc, uncommitted_buy_timers[w]) = Threads
      BY <1>0 DEF Cancelled
    <3>. QED
      BY <1>0, <1>1, <3>1 DEF CommitTake
  <2>. QED
    BY <1>0, <2>2, <2>3 DEF Carried, Carries
<1>2. ASSUME NEW t \in Threads, CancelTake(t)
      PROVE  Carried(b, t)'
  <2>1. frame[t].user = u
    <3>1. uncommitted_buys' = [uncommitted_buys EXCEPT ![frame[t].user] = None]
      BY <1>2 DEF CancelTake, PopBuy
    <3>. QED
      BY <1>0, <3>1
  <2>2. /\ pc' = [pc EXCEPT ![t] = "cancel_release"]
        /\ frame' = [frame EXCEPT ![t].buy = uncommitted_buys[u]]
    BY <1>0, <1>2, <2>1 DEF CancelTake, Goto
  <2>3. pc'[t] = "cancel_release" /\ frame'[t].buy = uncommitted_buys[u]
    BY <1>0, <2>2 DEF Frame
  <2>. QED
    BY <1>0, <2>3 DEF Carried, Carries
<1>3. ~BuyRecord
  <2>1. ASSUME BuyRecord PROVE FALSE
    <3>1. frame[Main].buy \in Buy
      BY <1>0, <2>1 DEF BuyRecord, FrameOK
    <3>2. uncommitted_buys' = [uncommitted_buys EXCEPT ![frame[Main].user] = frame[Main].buy]
      BY <2>1 DEF BuyRecord
    <3>. QED
      BY <1>0, <3>1, <3>2
  <2>. QED
    BY <2>1
<1>4. uncommitted_buys' # uncommitted_buys
  BY <1>0
<1>. QED
  BY <1>1, <1>2, <1>3, <1>4, <1>0
  DEF Next, MainIdle, mem, BuyCheck, BuyStep, BuyReserve, BuySwap, BuyArm, CommitSettle, Fire,
      CancelTimer, CancelStep, CancelRelease, Raise, Restart

(* A carried buy stays where it is until it is recorded or settled.        *)
LEMMA CarriedStays ==
    ASSUME IInv, GInv, Priced, Next, ~CanRaise, ~CanRestart, NEW b \in BuyIds, NEW t \in Threads,
           Carried(b, t), hold'[b].state = "held"
    PROVE  Carried(b, t)' \/ \E u \in Users : Recorded(b, u)'
<1>0. /\ uncommitted_buys \in [Users -> Buy \cup {None}]
      /\ uncommitted_buy_timers \in [Users -> BuyIds \cup {None}]
      /\ frame \in [Threads -> Frame] /\ FrameOK
      /\ pc \in [Threads -> MainPC \cup TimerPC] /\ pc[Main] \in MainPC
      /\ hold \in [BuyIds -> [state : {"none", "held", "spent", "freed"},
                              user : Users \cup {None}, cost : Int]]
      /\ Main \in Threads /\ BuyIds \subseteq Threads
      /\ pc[t] \in {"buy_record", "commit_settle", "cancel_release"} /\ frame[t].buy.id = b
      /\ frame[t].buy \in Buy /\ frame[t].user \in Users
      /\ t # Main => pc[t] = "cancel_release"
  BY DEF IInv, TypeOK, Threads, Carried, Carries, FrameOK, TimerPC
<1>1. ASSUME pc'[t] = pc[t], frame'[t].buy = frame[t].buy
      PROVE  Carried(b, t)'
  BY <1>0, <1>1 DEF Carried, Carries
<1>2. CASE BuyRecord
  <2>1. CASE t = Main
    <3>1. uncommitted_buys'[frame[Main].user] = frame[Main].buy
      BY <1>0, <1>2, <2>1 DEF BuyRecord
    <3>. QED
      BY <1>0, <2>1, <3>1 DEF Recorded
  <2>2. CASE t # Main
    BY <1>0, <1>1, <1>2, <2>2 DEF BuyRecord, Goto
  <2>. QED
    BY <2>1, <2>2
<1>3. CASE CommitSettle
  <2>1. t # Main
    <3>1. ASSUME t = Main PROVE FALSE
      <4>1. frame[Main].found = Owns(frame[Main].user, frame[Main].buy.stock)
        BY <1>3 DEF CommitSettle, Priced
      <4>2. hold' = [hold EXCEPT ![b].state = "spent"]
        BY <1>0, <1>3, <3>1, <4>1 DEF CommitSettle
      <4>. QED
        BY <1>0, <4>2
    <3>. QED
      BY <3>1
  <2>. QED
    BY <1>0, <1>1, <1>3, <2>1 DEF CommitSettle, End, Goto
<1>4. ASSUME NEW x \in Threads, CancelRelease(x)
      PROVE  Carried(b, t)'
  <2>1. t # x
    <3>1. ASSUME t = x PROVE FALSE
      <4>1. hold' = [hold EXCEPT ![b].state = "freed"]
        BY <1>0, <1>4, <3>1 DEF CancelRelease
      <4>. QED
        BY <1>0, <4>1
    <3>. QED
      BY <3>1
  <2>. QED
    BY <1>0, <1>1, <1>4, <2>1 DEF CancelRelease, End, Goto
<1>5. ASSUME NEW x \in Threads, CancelTake(x)
      PROVE  Carried(b, t)'
  <2>1. t # x
    BY <1>0, <1>5 DEF CancelTake
  <2>. QED
    BY <1>0, <1>1, <1>5, <2>1 DEF CancelTake, End, Goto
<1>6. ASSUME NEW x \in Threads, NEW u \in Users, CancelTimer(x, u)
      PROVE  Carried(b, t)'
  <2>1. t # x
    BY <1>0, <1>6 DEF CancelTimer
  <2>2. Cancelled(pc, uncommitted_buy_timers[u])[t] = pc[t]
    BY <1>0 DEF Cancelled
  <2>3. pc'[t] = pc[t] /\ frame'[t] = frame[t]
    BY <1>0, <1>6, <2>1, <2>2 DEF CancelTimer
  <2>. QED
    BY <1>1, <2>3
<1>7. ASSUME NEW u \in Users, CommitTake(u)
      PROVE  Carried(b, t)'
  <2>1. t # Main
    BY <1>0, <1>7 DEF CommitTake
  <2>2. Cancelled(pc, uncommitted_buy_timers[u])[t] = pc[t]
    BY <1>0 DEF Cancelled
  <2>3. pc'[t] = pc[t] /\ frame'[t] = frame[t]
    BY <1>0, <1>7, <2>1, <2>2 DEF CommitTake
  <2>. QED
    BY <1>1, <2>3
<1>8. ASSUME NEW x \in BuyIds, Fire(x)
      PROVE  Carried(b, t)'
  BY <1>0, <1>1, <1>8 DEF Fire, Goto
<1>9. ASSUME NEW u \in Users, NEW s \in Stocks, NEW d \in Debts, NEW id \in BuyIds,
             NEW v \in Prices, BuyCheck(u, s, d, id, v)
      PROVE  Carried(b, t)'
  <2>1. t # Main
    BY <1>0, <1>9 DEF BuyCheck
  <2>. QED
    BY <1>0, <1>1, <1>9, <2>1 DEF BuyCheck, Goto
<1>10. CASE BuyReserve
  <2>1. t # Main
    BY <1>0, <1>10 DEF BuyReserve
  <2>. QED
    BY <1>0, <1>1, <1>10, <2>1 DEF BuyReserve, Goto
<1>11. CASE BuySwap
  <2>1. t # Main
    BY <1>0, <1>11 DEF BuySwap
  <2>2. Cancelled(pc, uncommitted_buy_timers[frame[Main].user])[t] = pc[t]
    BY <1>0 DEF Cancelled
  <2>3. pc'[t] = pc[t] /\ frame'[t] = frame[t]
    BY <1>0, <1>11, <2>1, <2>2 DEF BuySwap
  <2>. QED
    BY <1>1, <2>3
<1>12. CASE UNCHANGED <<pc, frame>>
  BY <1>1, <1>12
<1>13. CASE BuyArm
  <2>1. PICK i : i = frame[Main].buy.id
    OBVIOUS
  <2>2. pc[i] = "unarmed" /\ i # t /\ t # Main
    BY <1>0, <1>13, <2>1 DEF BuyArm, GInv, FreshTimers
  <2>3. /\ pc' = [[pc EXCEPT ![i] = "armed"] EXCEPT ![Main] = "idle"]
        /\ frame' = [frame EXCEPT ![Main] = NoFrame,
                                  ![i] = [NoFrame EXCEPT !.user = frame[Main].user]]
    BY <1>13, <2>1 DEF BuyArm, Started
  <2>4. pc'[t] = pc[t] /\ frame'[t] = frame[t]
    BY <1>0, <2>2, <2>3
  <2>. QED
    BY <1>1, <2>4
<1>. QED
  BY <1>2, <1>3, <1>4, <1>5, <1>6, <1>7, <1>8, <1>9, <1>10, <1>11, <1>12, <1>13, <1>1
  DEF Next, MainIdle, mem, BuyStep, CancelStep, Raise, Restart

(***************************************************************************)
(* Without exceptions and restarts the only step that takes a reservation  *)
(* that is still held out of reach is that of a BUY recorded over the one  *)
(* it belongs to: COMMIT_BUY, CANCEL_BUY and the timers lose none.         *)
(***************************************************************************)
THEOREM OnlyReplacementStrands ==
    ASSUME ~CanRaise, ~CanRestart
    PROVE  Spec => StrandedOnlyByReplacement
<1>. DEFINE Inv == IInv /\ GInv /\ Priced
            Step == \A b \in BuyIds :
                       Owned(b) /\ hold[b].state = "held" /\ hold'[b].state = "held" /\ ~Owned(b)'
                       => \E u \in Users : Recorded(b, u) /\ uncommitted_buys'[u] # None
<1>1. Init => GInv
  BY GInvInit
<1>2. IInv /\ GInv /\ [Next]_vars => GInv'
  BY TimersOKStep, FreshTimersStep, PendingGuardedStep DEF GInv
<1>3. Inv /\ Next => Step
  <2>. SUFFICES ASSUME Inv, Next, NEW b \in BuyIds, Owned(b), hold'[b].state = "held", ~Owned(b)'
                PROVE  \E u \in Users : Recorded(b, u) /\ uncommitted_buys'[u] # None
    OBVIOUS
  <2>1. ASSUME NEW t \in Threads, Carried(b, t) PROVE Owned(b)'
    BY <2>1, CarriedStays DEF Owned
  <2>2. PICK u \in Users : Recorded(b, u)
    BY <2>1 DEF Owned
  <2>3. uncommitted_buys'[u] # None
    BY <2>2, TakenIsCarried DEF Owned
  <2>. QED
    BY <2>2, <2>3
<1>4. Inv /\ [Next]_vars => [Step]_vars
  <2>1. CASE Next
    BY <1>3, <2>1
  <2>2. CASE UNCHANGED vars
    BY <2>2
  <2>. QED
    BY <2>1, <2>2
<1>. QED
  BY IInvHolds, PricedInit, PricedStep, <1>1, <1>2, <1>4, PTL DEF Spec, StrandedOnlyByReplacement
=================================================================================
