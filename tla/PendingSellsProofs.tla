--------------------------- MODULE PendingSellsProofs ---------------------------
(***************************************************************************)
(* Proofs about PendingSells, for any number of users, stocks and SELLs,   *)
(* any prices and sums, and with or without exceptions and restarts.       *)
(***************************************************************************)
EXTENDS PendingSells, SumsAndRows, TLAPS

USE ThreadsAssumption, NoneAssumption, NoneIsNoSell

-----------------------------------------------------------------------------
(***************************************************************************)
(* The inductive invariant.  What a thread is in the middle of is in its   *)
(* frame; and the sell that a SELL is about to record has never been       *)
(* recorded before.                                                        *)
(***************************************************************************)
FrameOK ==
    \A t \in Threads :
        /\ pc[t] \notin {"idle", "unarmed", "cancelled", "done"} => frame[t].user \in Users
        /\ pc[t] \in {"sell_pull", "sell_record", "sell_reserve", "sell_swap", "sell_arm",
                      "commit_settle", "cancel_release"} => frame[t].sell \in Sell

Fresh ==
    pc[Main] \in {"sell_pull", "sell_record"} => fate[frame[Main].sell.id].state = "new"

IInv == TypeOK /\ FrameOK /\ Fresh /\ SettledByOwnerOnly

-----------------------------------------------------------------------------
(***************************************************************************)
(* Lemmas on the operators the actions are built from.                     *)
(***************************************************************************)

(* A product of numbers is a number.                                       *)
LEMMA ProductType == \A m, n \in Nat : m * n \in Nat
OBVIOUS

(* What a sell pays is a sum of money.                                     *)
LEMMA ProfitType == \A x \in Sell : Profit(x) \in Nat
<1>. SUFFICES ASSUME NEW x \in Sell PROVE x.num_stocks * x.quote \in Nat
  BY DEF Profit
<1>1. x.num_stocks \in Nat /\ x.quote \in Nat
  BY PricesAssumption DEF Sell
<1>. QED
  BY <1>1, ProductType

(* The frame of a thread that runs no handler.                             *)
LEMMA NoFrameType == NoFrame \in Frame
BY DEF NoFrame, Frame

(* What a SELL computes from its quote is a sell.                          *)
LEMMA QuotedSell ==
    ASSUME NEW id \in SellIds, NEW s \in Stocks, NEW a \in Amounts, NEW v \in Prices
    PROVE  [id |-> id, stock |-> s, num_stocks |-> a \div v, quote |-> v] \in Sell
<1>1. a \in Nat /\ v \in Nat \ {0}
  BY AmountsAssumption, PricesAssumption
<1>2. a \div v \in Nat
  BY <1>1
<1>. QED
  BY <1>2 DEF Sell

(* A push leaves an array of holdings.                                     *)
LEMMA PushedType ==
    ASSUME DbTypeOK, NEW u \in Users, NEW s \in Stocks, NEW h \in Holding
    PROVE  Pushed(u, s, h) \in [Users -> [Stocks -> Seq(Holding)]]
<1>1. stocks[u][s] \in Seq(Holding)
  BY DEF DbTypeOK
<1>2. Append(stocks[u][s], h) \in Seq(Holding)
  BY <1>1
<1>. QED
  BY <1>2 DEF Pushed, DbTypeOK

(* A positional update leaves an array of holdings.                        *)
LEMMA IncreasedType ==
    ASSUME DbTypeOK, NEW u \in Users, NEW s \in Stocks, Owns(u, s),
           NEW da \in Int, NEW dv \in Int
    PROVE  Increased(u, s, da, dv) \in [Users -> [Stocks -> Seq(Holding)]]
<1>. DEFINE q == stocks[u][s]
            h == [amount |-> q[1].amount + da, available |-> q[1].available + dv]
            r == [q EXCEPT ![1] = h]
<1>1. q \in Seq(Holding) /\ Len(q) \in Nat /\ Len(q) > 0
  BY DEF DbTypeOK, Owns
<1>2. q[1] \in Holding
  BY <1>1
<1>3. h \in Holding
  BY <1>2 DEF Holding
<1>4. r \in Seq(Holding)
  BY <1>1, <1>3
<1>5. Increased(u, s, da, dv) = [stocks EXCEPT ![u] = [stocks[u] EXCEPT ![s] = r]]
  BY DEF Increased
<1>. QED
  BY <1>4, <1>5 DEF DbTypeOK

(* So does a pull.                                                         *)
LEMMA PulledType ==
    ASSUME DbTypeOK, NEW u \in Users, NEW s \in Stocks
    PROVE  [stocks EXCEPT ![u][s] = << >>] \in [Users -> [Stocks -> Seq(Holding)]]
BY DEF DbTypeOK

-----------------------------------------------------------------------------
(***************************************************************************)
(* Type correctness.                                                       *)
(***************************************************************************)

(* The initial state is well typed.                                        *)
LEMMA TypeInit == Init => TypeOK
<1>. SUFFICES ASSUME Init PROVE TypeOK
  OBVIOUS
<1>. USE DEF Init
<1>1. DbTypeOK
  <2>1. account \in [Users -> Int] /\ available \in [Users -> Int]
    BY FundsAssumption
  <2>. QED
    BY <2>1 DEF DbTypeOK
<1>2. NoFate \in Fate
  BY DEF NoFate, Fate
<1>. QED
  BY <1>1, <1>2, NoFrameType DEF TypeOK, Threads, MainPC, TimerPC

(* Every step keeps the state well typed.                                  *)
LEMMA TypeStep == TypeOK /\ FrameOK /\ [Next]_vars => TypeOK'
<1>. SUFFICES ASSUME TypeOK, FrameOK, [Next]_vars
              PROVE  TypeOK'
  OBVIOUS
<1>. USE DEF Threads, MainPC, TimerPC
<1>1. ASSUME NEW u \in Users, NEW s \in Stocks, NEW n \in Lots, NEW v \in Prices,
             Bought(u, s, n, v)
      PROVE  TypeOK'
  <2>1. n \in Nat /\ v \in Nat /\ n * v \in Nat
    BY AmountsAssumption, PricesAssumption, ProductType
  <2>2. stocks' \in [Users -> [Stocks -> Seq(Holding)]]
    <3>1. [amount |-> n, available |-> n] \in Holding
      BY <2>1 DEF Holding
    <3>2. DbTypeOK
      BY DEF TypeOK
    <3>3. \/ stocks' = Pushed(u, s, [amount |-> n, available |-> n])
          \/ Owns(u, s) /\ stocks' = Increased(u, s, n, n)
      BY <1>1 DEF Bought
    <3>. QED
      BY <2>1, <3>1, <3>2, <3>3, PushedType, IncreasedType
  <2>3. account' \in [Users -> Int] /\ available' \in [Users -> Int]
    <3>1. account \in [Users -> Int] /\ available \in [Users -> Int]
      BY DEF TypeOK, DbTypeOK
    <3>. DEFINE d == n * v
    <3>2. /\ account' = [account EXCEPT ![u] = @ - d]
          /\ available' = [available EXCEPT ![u] = @ - d] /\ d \in Nat
      BY <1>1, <2>1 DEF Bought
    <3>. HIDE DEF d
    <3>. QED
      BY <3>1, <3>2
  <2>. QED
    BY <1>1, <2>2, <2>3 DEF Bought, CacheQuote, mem, TypeOK, DbTypeOK
<1>2. ASSUME NEW u \in Users, NEW s \in Stocks, NEW a \in Amounts, NEW id \in SellIds,
             NEW v \in Prices, SellCheck(u, s, a, id, v)
      PROVE  TypeOK'
  <2>. DEFINE x == [id |-> id, stock |-> s, num_stocks |-> a \div v, quote |-> v]
              f == EnoughShares(x, stocks[u][s][1])
  <2>1. x \in Sell
    BY QuotedSell
  <2>2. \/ pc' = pc /\ frame' = frame
        \/ /\ pc' = [pc EXCEPT ![Main] = "sell_pull"] \/ pc' = [pc EXCEPT ![Main] = "sell_record"]
           /\ frame' = [frame EXCEPT ![Main] = [user |-> u, sell |-> x, found |-> f]]
    BY <1>2 DEF SellCheck, Goto
  <2>3. f \in BOOLEAN
    BY DEF EnoughShares
  <2>. HIDE DEF x, f
  <2>4. [user |-> u, sell |-> x, found |-> f] \in Frame
    BY <2>1, <2>3 DEF Frame
  <2>5. frame' \in [Threads -> Frame]
    BY <2>2, <2>4 DEF TypeOK
  <2>. QED
    BY <1>2, <2>2, <2>5 DEF SellCheck, CacheQuote, TypeOK, DbTypeOK
<1>3. CASE SellPull
  <2>1. frame[Main].user \in Users /\ frame[Main].sell.stock \in Stocks
    BY <1>3 DEF SellPull, FrameOK, Sell
  <2>2. stocks' \in [Users -> [Stocks -> Seq(Holding)]]
    BY <1>3, <2>1, PulledType DEF SellPull, TypeOK
  <2>3. frame' \in [Threads -> Frame]
    BY <1>3, NoFrameType DEF SellPull, End, TypeOK
  <2>4. pc' = [pc EXCEPT ![Main] = "sell_record"] \/ pc' = [pc EXCEPT ![Main] = "idle"]
    BY <1>3 DEF SellPull, End, EndPC, Goto
  <2>. QED
    BY <1>3, <2>2, <2>3, <2>4 DEF SellPull, TypeOK, DbTypeOK
<1>4. CASE SellRecord
  <2>. DEFINE u == frame[Main].user
              x == frame[Main].sell
              f == [state |-> "pending", set_aside |-> FALSE, user |-> u, sell |-> x]
  <2>1. u \in Users /\ x \in Sell
    BY <1>4 DEF SellRecord, FrameOK
  <2>2. f \in Fate
    BY <2>1 DEF Fate
  <2>3. fate' = [fate EXCEPT ![x.id] = f]
    BY <1>4 DEF SellRecord
  <2>4. fate' \in [SellIds -> Fate]
    BY <2>2, <2>3 DEF TypeOK
  <2>5. uncommitted_sells' \in [Users -> Sell \cup {None}]
    BY <1>4, <2>1 DEF SellRecord, TypeOK
  <2>. QED
    BY <1>4, <2>4, <2>5 DEF SellRecord, Goto, TypeOK, DbTypeOK
<1>5. CASE SellReserve
  <2>. DEFINE u == frame[Main].user
              x == frame[Main].sell
  <2>1. u \in Users /\ x \in Sell /\ x.id \in SellIds /\ x.stock \in Stocks
        /\ x.num_stocks \in Nat
    BY <1>5 DEF SellReserve, FrameOK, Sell
  <2>2. \/ /\ Owns(u, x.stock) /\ stocks' = Increased(u, x.stock, 0, -x.num_stocks)
           /\ fate' = [fate EXCEPT ![x.id].set_aside = TRUE]
        \/ UNCHANGED <<stocks, fate>>
    BY <1>5 DEF SellReserve
  <2>3. stocks' \in [Users -> [Stocks -> Seq(Holding)]]
    <3>1. -x.num_stocks \in Int /\ 0 \in Int
      BY <2>1
    <3>2. DbTypeOK
      BY DEF TypeOK
    <3>3. Owns(u, x.stock) => Increased(u, x.stock, 0, -x.num_stocks)
                                \in [Users -> [Stocks -> Seq(Holding)]]
      BY <2>1, <3>1, <3>2, IncreasedType
    <3>. QED
      BY <2>2, <3>2, <3>3 DEF DbTypeOK
  <2>4. fate' \in [SellIds -> Fate]
    <3>1. fate \in [SellIds -> Fate]
      BY DEF TypeOK
    <3>2. [fate[x.id] EXCEPT !.set_aside = TRUE] \in Fate
      BY <2>1, <3>1 DEF Fate
    <3>. QED
      BY <2>1, <2>2, <3>1, <3>2
  <2>5. frame' \in [Threads -> Frame]
    BY <1>5, NoFrameType DEF SellReserve, End, TypeOK
  <2>6. pc' = [pc EXCEPT ![Main] = "sell_swap"] \/ pc' = [pc EXCEPT ![Main] = "idle"]
    BY <1>5 DEF SellReserve, End, EndPC, Goto
  <2>. QED
    BY <1>5, <2>3, <2>4, <2>5, <2>6 DEF SellReserve, TypeOK, DbTypeOK
<1>6. CASE SellSwap
  <2>1. frame[Main].user \in Users /\ frame[Main] \in Frame
    BY <1>6 DEF SellSwap, FrameOK, TypeOK
  <2>2. frame' \in [Threads -> Frame]
    BY <1>6, <2>1 DEF SellSwap, TypeOK, Frame
  <2>. QED
    BY <1>6, <2>1, <2>2 DEF SellSwap, Cancelled, TypeOK, DbTypeOK
<1>7. CASE SellArm
  <2>1. frame[Main].user \in Users /\ frame[Main].sell.id \in SellIds
    BY <1>7 DEF SellArm, FrameOK, Sell
  <2>. QED
    BY <1>7, <2>1 DEF SellArm, Armed, Started, TypeOK, DbTypeOK, Frame, NoFrame
<1>8. ASSUME NEW u \in Users, CommitTake(u)
      PROVE  TypeOK'
  <2>1. frame' \in [Threads -> Frame]
    BY <1>8 DEF CommitTake, TypeOK, Frame
  <2>. QED
    BY <1>8, <2>1 DEF CommitTake, PopSell, Cancelled, TypeOK, DbTypeOK
<1>9. CASE CommitSettle
  <2>. DEFINE u == frame[Main].user
              x == frame[Main].sell
  <2>1. u \in Users /\ x \in Sell /\ Profit(x) \in Nat
    BY <1>9, ProfitType DEF CommitSettle, FrameOK
  <2>2. x.num_stocks \in Nat /\ x.stock \in Stocks /\ x.id \in SellIds
    BY <2>1 DEF Sell
  <2>3. \/ /\ Owns(u, x.stock) /\ stocks' = Increased(u, x.stock, -x.num_stocks, 0)
           /\ account' = [account EXCEPT ![u] = @ + Profit(x)]
           /\ available' = [available EXCEPT ![u] = @ + Profit(x)]
           /\ fate' = [fate EXCEPT ![x.id].state = "sold"]
        \/ UNCHANGED <<stocks, account, available, fate>>
    BY <1>9 DEF CommitSettle, Sold
  <2>4. stocks' \in [Users -> [Stocks -> Seq(Holding)]]
    <3>1. -x.num_stocks \in Int /\ 0 \in Int
      BY <2>2
    <3>2. DbTypeOK
      BY DEF TypeOK
    <3>3. Owns(u, x.stock) => Increased(u, x.stock, -x.num_stocks, 0)
                                \in [Users -> [Stocks -> Seq(Holding)]]
      BY <2>1, <2>2, <3>1, <3>2, IncreasedType
    <3>. QED
      BY <2>3, <3>2, <3>3 DEF DbTypeOK
  <2>5. account' \in [Users -> Int] /\ available' \in [Users -> Int]
    BY <2>1, <2>3 DEF TypeOK, DbTypeOK
  <2>6. fate' \in [SellIds -> Fate]
    BY <2>2, <2>3 DEF TypeOK, Fate
  <2>7. pc' = [pc EXCEPT ![Main] = "idle"] /\ frame' = [frame EXCEPT ![Main] = NoFrame]
    BY <1>9 DEF CommitSettle, End, Goto, EndPC
  <2>8. frame' \in [Threads -> Frame]
    BY <2>7, NoFrameType DEF TypeOK
  <2>. QED
    BY <1>9, <2>4, <2>5, <2>6, <2>7, <2>8 DEF CommitSettle, TypeOK, DbTypeOK
<1>10. ASSUME NEW b \in SellIds, Fire(b)
       PROVE  TypeOK'
  BY <1>10 DEF Fire, Goto, TypeOK, DbTypeOK
<1>11. ASSUME NEW t \in Threads, NEW u \in Users, CancelTimer(t, u)
       PROVE  TypeOK'
  <2>1. frame' \in [Threads -> Frame]
    BY <1>11 DEF CancelTimer, TypeOK, Frame
  <2>. QED
    BY <1>11, <2>1 DEF CancelTimer, Cancelled, TypeOK, DbTypeOK
<1>12. ASSUME NEW t \in Threads, CancelTake(t)
       PROVE  TypeOK'
  <2>1. frame[t].user \in Users /\ frame[t] \in Frame
    BY <1>12 DEF CancelTake, FrameOK, TypeOK
  <2>2. frame' \in [Threads -> Frame]
    <3>1. \/ frame' = [frame EXCEPT ![t] = NoFrame]
          \/ /\ uncommitted_sells[frame[t].user] # None
             /\ frame' = [frame EXCEPT ![t].sell = uncommitted_sells[frame[t].user]]
      BY <1>12 DEF CancelTake, End
    <3>2. uncommitted_sells[frame[t].user] \in Sell \cup {None}
      BY <2>1 DEF TypeOK
    <3>3. CASE frame' = [frame EXCEPT ![t] = NoFrame]
      BY <3>3, NoFrameType DEF TypeOK
    <3>4. CASE frame' = [frame EXCEPT ![t].sell = uncommitted_sells[frame[t].user]]
      BY <2>1, <3>2, <3>4 DEF TypeOK, Frame
    <3>. QED
      BY <3>1, <3>3, <3>4
  <2>3. pc' = [pc EXCEPT ![t] = "cancel_release"] \/ pc' = [pc EXCEPT ![t] = EndPC(t)]
    BY <1>12 DEF CancelTake, End, Goto
  <2>. QED
    BY <1>12, <2>1, <2>2, <2>3 DEF CancelTake, PopSell, EndPC, TypeOK, DbTypeOK
<1>13. ASSUME NEW t \in Threads, CancelRelease(t)
       PROVE  TypeOK'
  <2>. DEFINE u == frame[t].user
              x == frame[t].sell
  <2>1. u \in Users /\ x \in Sell /\ x.id \in SellIds /\ x.stock \in Stocks
        /\ x.num_stocks \in Nat
    BY <1>13 DEF CancelRelease, FrameOK, Sell
  <2>2. \/ /\ Owns(u, x.stock) /\ stocks' = Increased(u, x.stock, 0, x.num_stocks)
           /\ fate' = [fate EXCEPT ![x.id].state = "freed"]
        \/ UNCHANGED <<stocks, fate>>
    BY <1>13 DEF CancelRelease
  <2>3. stocks' \in [Users -> [Stocks -> Seq(Holding)]]
    <3>2. DbTypeOK
      BY DEF TypeOK
    <3>3. Owns(u, x.stock) => Increased(u, x.stock, 0, x.num_stocks)
                                \in [Users -> [Stocks -> Seq(Holding)]]
      BY <2>1, <3>2, IncreasedType
    <3>. QED
      BY <2>2, <3>2, <3>3 DEF DbTypeOK
  <2>4. fate' \in [SellIds -> Fate]
    BY <2>1, <2>2 DEF TypeOK, Fate
  <2>5. frame' \in [Threads -> Frame]
    BY <1>13, NoFrameType DEF CancelRelease, End, TypeOK
  <2>. QED
    BY <1>13, <2>3, <2>4, <2>5
    DEF CancelRelease, End, Goto, EndPC, TypeOK, DbTypeOK
<1>14. ASSUME NEW t \in Threads, Raise(t)
       PROVE  TypeOK'
  BY <1>14 DEF Raise, End, Goto, EndPC, TypeOK, DbTypeOK, Frame, NoFrame
<1>15. CASE Restart
  BY <1>15 DEF Restart, EndPC, TypeOK, DbTypeOK, Frame, NoFrame
<1>16. CASE UNCHANGED vars
  BY <1>16 DEF vars, TypeOK, DbTypeOK
<1>. QED
  BY <1>1, <1>2, <1>3, <1>4, <1>5, <1>6, <1>7, <1>8, <1>9, <1>10, <1>11, <1>12,
     <1>13, <1>14, <1>15, <1>16 DEF Next, SellStep, CancelStep

-----------------------------------------------------------------------------
(***************************************************************************)
(* What a thread works on.                                                 *)
(***************************************************************************)

(* A thread in the middle of a handler keeps what it works on.             *)
LEMMA FrameOKStep == IInv /\ [Next]_vars => FrameOK'
<1>. SUFFICES ASSUME IInv, [Next]_vars
              PROVE  FrameOK'
  OBVIOUS
<1>. USE DEF IInv, TypeOK, Threads, MainPC, TimerPC, Frame
<1>1. ASSUME NEW u \in Users, NEW s \in Stocks, NEW n \in Lots, NEW v \in Prices,
             Bought(u, s, n, v)
      PROVE  FrameOK'
  BY <1>1 DEF Bought, mem, FrameOK
<1>2. ASSUME NEW u \in Users, NEW s \in Stocks, NEW a \in Amounts, NEW id \in SellIds,
             NEW v \in Prices, SellCheck(u, s, a, id, v)
      PROVE  FrameOK'
  <2>. DEFINE x == [id |-> id, stock |-> s, num_stocks |-> a \div v, quote |-> v]
              f == EnoughShares(x, stocks[u][s][1])
  <2>1. x \in Sell
    BY QuotedSell
  <2>2. \/ pc' = pc /\ frame' = frame
        \/ /\ pc' = [pc EXCEPT ![Main] = "sell_pull"] \/ pc' = [pc EXCEPT ![Main] = "sell_record"]
           /\ frame' = [frame EXCEPT ![Main] = [user |-> u, sell |-> x, found |-> f]]
    BY <1>2 DEF SellCheck, Goto
  <2>. HIDE DEF x, f
  <2>. QED
    BY <2>1, <2>2 DEF FrameOK
<1>3. CASE SellPull
  BY <1>3 DEF SellPull, End, EndPC, Goto, NoFrame, FrameOK
<1>4. CASE SellRecord
  BY <1>4 DEF SellRecord, Goto, FrameOK
<1>5. CASE SellReserve
  BY <1>5 DEF SellReserve, End, EndPC, Goto, NoFrame, FrameOK
<1>6. CASE SellSwap
  <2>1. \A t \in Threads : frame'[t].user = frame[t].user /\ frame'[t].sell = frame[t].sell
    BY <1>6 DEF SellSwap
  <2>2. \A t \in SellIds : pc'[t] = pc[t] \/ pc'[t] = "cancelled"
    BY <1>6 DEF SellSwap, Cancelled
  <2>3. pc[Main] = "sell_swap"
    BY <1>6 DEF SellSwap
  <2>. QED
    BY <2>1, <2>2, <2>3 DEF FrameOK
<1>7. CASE SellArm
  BY <1>7 DEF SellArm, Armed, Started, NoFrame, FrameOK
<1>8. ASSUME NEW u \in Users, CommitTake(u)
      PROVE  FrameOK'
  BY <1>8 DEF CommitTake, PopSell, Cancelled, FrameOK
<1>9. CASE CommitSettle
  BY <1>9 DEF CommitSettle, End, EndPC, Goto, NoFrame, FrameOK
<1>10. ASSUME NEW b \in SellIds, Fire(b)
      PROVE  FrameOK'
  BY <1>10 DEF Fire, Goto, FrameOK
<1>11. ASSUME NEW t \in Threads, NEW u \in Users, CancelTimer(t, u)
      PROVE  FrameOK'
  BY <1>11 DEF CancelTimer, Cancelled, FrameOK
<1>12. ASSUME NEW t \in Threads, CancelTake(t)
      PROVE  FrameOK'
  <2>1. \A x \in Threads \ {t} : pc'[x] = pc[x] /\ frame'[x] = frame[x]
    BY <1>12 DEF CancelTake, End, Goto
  <2>2. frame[t].user \in Users /\ frame[t] \in Frame
    BY <1>12 DEF CancelTake, FrameOK
  <2>3. \/ pc'[t] \in {"idle", "done"}
        \/ /\ pc'[t] = "cancel_release"
           /\ frame'[t].user = frame[t].user
           /\ frame'[t].sell \in Sell
    <3>1. uncommitted_sells[frame[t].user] \in Sell \cup {None}
      BY <2>2
    <3>. QED
      BY <1>12, <2>2, <3>1 DEF CancelTake, End, EndPC, Goto
  <2>. QED
    BY <2>1, <2>2, <2>3 DEF FrameOK
<1>13. ASSUME NEW t \in Threads, CancelRelease(t)
      PROVE  FrameOK'
  BY <1>13 DEF CancelRelease, End, EndPC, Goto, NoFrame, FrameOK
<1>14. ASSUME NEW t \in Threads, Raise(t)
      PROVE  FrameOK'
  BY <1>14 DEF Raise, MayRaise, End, EndPC, Goto, NoFrame, FrameOK
<1>15. CASE Restart
  BY <1>15 DEF Restart, EndPC, NoFrame, FrameOK
<1>16. CASE UNCHANGED vars
  BY <1>16 DEF vars, FrameOK
<1>. QED
  BY <1>1, <1>2, <1>3, <1>4, <1>5, <1>6, <1>7, <1>8, <1>9, <1>10, <1>11, <1>12,
     <1>13, <1>14, <1>15, <1>16 DEF Next, SellStep, CancelStep

(* What the invariant says of a sell that is carried, ...                  *)
LEMMA CarriedState ==
    ASSUME IInv, NEW t \in Threads, Carries(t)
    PROVE  /\ frame[t].user \in Users /\ frame[t].sell \in Sell
           /\ frame[t].sell.id \in SellIds /\ OwnerMatches(frame[t].user, frame[t].sell)
<1>1. frame[t].user \in Users /\ frame[t].sell \in Sell
  BY DEF IInv, FrameOK, Carries
<1>. QED
  BY <1>1 DEF IInv, SettledByOwnerOnly, Sell

(* ... and of one that is in the dictionary.                               *)
LEMMA RecordedState ==
    ASSUME IInv, NEW u \in Users, uncommitted_sells[u] # None
    PROVE  /\ uncommitted_sells[u] \in Sell
           /\ uncommitted_sells[u].id \in SellIds /\ OwnerMatches(u, uncommitted_sells[u])
<1>1. uncommitted_sells[u] \in Sell
  BY DEF IInv, TypeOK
<1>. QED
  BY <1>1 DEF IInv, SettledByOwnerOnly, Sell

(* No other command or timer settles or records a sell that is not recorded yet. *)
LEMMA FreshStep == IInv /\ [Next]_vars => Fresh'
<1>. SUFFICES ASSUME IInv, [Next]_vars, pc'[Main] \in {"sell_pull", "sell_record"}
              PROVE  fate'[frame'[Main].sell.id].state = "new"
  BY DEF Fresh
<1>. USE DEF Threads
<1>0. pc \in [Threads -> MainPC \cup TimerPC] /\ frame \in [Threads -> Frame]
  BY DEF IInv, TypeOK
<1>1. CASE \E u \in Users, s \in Stocks, a \in Amounts, id \in SellIds, v \in Prices :
              SellCheck(u, s, a, id, v)
  <2>1. PICK u \in Users, s \in Stocks, a \in Amounts, id \in SellIds, v \in Prices :
            SellCheck(u, s, a, id, v)
    BY <1>1
  <2>. DEFINE x == [id |-> id, stock |-> s, num_stocks |-> a \div v, quote |-> v]
              f == EnoughShares(x, stocks[u][s][1])
  <2>2. fate' = fate /\ fate[id].state = "new" /\ pc[Main] = "idle" /\ x.id = id
    BY <2>1 DEF SellCheck
  <2>3. \/ pc' = pc
        \/ frame' = [frame EXCEPT ![Main] = [user |-> u, sell |-> x, found |-> f]]
    BY <2>1 DEF SellCheck
  <2>. HIDE DEF x, f
  <2>. QED
    BY <1>0, <2>2, <2>3
<1>2. CASE SellPull
  BY <1>0, <1>2 DEF SellPull, End, EndPC, Goto, IInv, Fresh
<1>3. CASE SellRecord \/ SellReserve \/ SellSwap \/ SellArm \/ CommitSettle
  <2>1. pc'[Main] \notin {"sell_pull", "sell_record"}
    BY <1>0, <1>3
    DEF SellRecord, SellReserve, SellSwap, SellArm, Armed, Started, Cancelled,
        CommitSettle, End, EndPC, Goto
  <2>. QED
    BY <2>1
<1>4. CASE \E t \in Threads : CancelRelease(t)
  <2>1. PICK t \in Threads : CancelRelease(t)
    BY <1>4
  <2>2. t # Main /\ pc[Main] = pc'[Main] /\ frame'[Main] = frame[Main]
    BY <1>0, <2>1 DEF CancelRelease, End, EndPC, Goto
  <2>3. /\ fate[frame[Main].sell.id].state = "new"
        /\ frame[Main].sell.id \in SellIds
    BY <2>2 DEF IInv, Fresh, FrameOK, Sell
  <2>4. frame[t].sell.id \in SellIds /\ fate[frame[t].sell.id].state = "pending"
    BY <2>1, CarriedState DEF CancelRelease, Carries, OwnerMatches
  <2>5. \/ fate' = fate
        \/ fate' = [fate EXCEPT ![frame[t].sell.id].state = "freed"]
    BY <2>1 DEF CancelRelease
  <2>6. fate \in [SellIds -> Fate]
    BY DEF IInv, TypeOK
  <2>. QED
    BY <2>2, <2>3, <2>4, <2>5, <2>6
<1>5. CASE \/ \E u \in Users, s \in Stocks, n \in Lots, v \in Prices : Bought(u, s, n, v)
           \/ \E u \in Users : CommitTake(u)
           \/ \E b \in SellIds : Fire(b)
           \/ \E t \in Threads, u \in Users : CancelTimer(t, u)
           \/ \E t \in Threads : CancelTake(t) \/ Raise(t)
           \/ Restart
           \/ UNCHANGED vars
  <2>1. /\ fate' = fate
        /\ pc'[Main] \in {"sell_pull", "sell_record"} =>
              pc[Main] = pc'[Main] /\ frame'[Main] = frame[Main]
    <3>1. CASE \E u \in Users, s \in Stocks, n \in Lots, v \in Prices : Bought(u, s, n, v)
      BY <3>1 DEF Bought, mem
    <3>2. CASE \E u \in Users : CommitTake(u)
      BY <1>0, <3>2 DEF CommitTake, Cancelled
    <3>3. CASE \E b \in SellIds : Fire(b)
      BY <1>0, <3>3 DEF Fire, Goto
    <3>4. CASE \E t \in Threads, u \in Users : CancelTimer(t, u)
      BY <1>0, <3>4 DEF CancelTimer, Cancelled
    <3>5. CASE \E t \in Threads : CancelTake(t) \/ Raise(t)
      BY <1>0, <3>5 DEF CancelTake, Raise, End, EndPC, Goto
    <3>6. CASE Restart
      BY <1>0, <3>6 DEF Restart, EndPC
    <3>7. CASE UNCHANGED vars
      BY <3>7 DEF vars
    <3>. QED
      BY <1>5, <3>1, <3>2, <3>3, <3>4, <3>5, <3>6, <3>7
  <2>. QED
    BY <2>1 DEF IInv, Fresh
<1>. QED
  BY <1>1, <1>2, <1>3, <1>4, <1>5 DEF Next, SellStep, CancelStep

-----------------------------------------------------------------------------
(***************************************************************************)
(* Who owns a sell.                                                        *)
(***************************************************************************)
SameFate(x) ==
    fate'[x].state = fate[x].state /\ fate'[x].user = fate[x].user /\ fate'[x].sell = fate[x].sell

SameLoad(t) == frame'[t].user = frame[t].user /\ frame'[t].sell = frame[t].sell

(* Owners that stay, or give up their sell, and sells whose fate changes only *)
(* when they have no owner any more.                                       *)
LEMMA OwnersKept ==
    ASSUME IInv,
           \A u \in Users : uncommitted_sells'[u] \in {uncommitted_sells[u], None},
           \A t \in Threads : Carries(t)' => Carries(t) /\ SameLoad(t),
           \A x \in SellIds :
               \/ SameFate(x)
               \/ /\ \A u \in Users : ~Recorded(x, u)'
                  /\ \A t \in Threads : Carries(t)' => frame'[t].sell.id # x
    PROVE  SettledByOwnerOnly'
<1>1. ASSUME NEW u \in Users, uncommitted_sells'[u] # None
      PROVE  OwnerMatches(u, uncommitted_sells[u])' /\ uncommitted_sells'[u] = uncommitted_sells[u]
  <2>1. uncommitted_sells'[u] = uncommitted_sells[u] /\ uncommitted_sells[u] # None
    BY <1>1
  <2>2. uncommitted_sells[u].id \in SellIds /\ OwnerMatches(u, uncommitted_sells[u])
    BY <2>1, RecordedState
  <2>3. SameFate(uncommitted_sells[u].id)
    BY <2>1, <2>2 DEF Recorded
  <2>. QED
    BY <2>1, <2>2, <2>3 DEF OwnerMatches, SameFate
<1>2. ASSUME NEW t \in Threads, Carries(t)'
      PROVE  OwnerMatches(frame[t].user, frame[t].sell)' /\ Carries(t) /\ SameLoad(t)
  <2>1. Carries(t) /\ SameLoad(t)
    BY <1>2
  <2>2. frame[t].sell.id \in SellIds /\ OwnerMatches(frame[t].user, frame[t].sell)
    BY <2>1, CarriedState
  <2>3. SameFate(frame[t].sell.id)
    BY <1>2, <2>1, <2>2 DEF SameLoad
  <2>. QED
    BY <2>1, <2>2, <2>3 DEF OwnerMatches, SameFate, SameLoad
<1>3. \A t \in Threads, u \in Users : Carries(t)' => ~Recorded(frame[t].sell.id, u)'
  <2>. SUFFICES ASSUME NEW t \in Threads, NEW u \in Users, Carries(t)',
                       Recorded(frame[t].sell.id, u)'
                PROVE  FALSE
    OBVIOUS
  <2>1. Carries(t) /\ SameLoad(t)
    BY <1>2
  <2>2. Recorded(frame[t].sell.id, u)
    BY <1>1, <2>1 DEF Recorded, SameLoad
  <2>. QED
    BY <2>1, <2>2 DEF IInv, SettledByOwnerOnly
<1>4. \A t1, t2 \in Threads :
          Carries(t1)' /\ Carries(t2)' /\ frame'[t1].sell.id = frame'[t2].sell.id => t1 = t2
  BY <1>2 DEF IInv, SettledByOwnerOnly, SameLoad
<1>. QED
  BY <1>1, <1>2, <1>3, <1>4 DEF SettledByOwnerOnly

(* The thread t takes the sell of u out of the dictionary.                 *)
LEMMA OwnerTakes ==
    ASSUME IInv, NEW t \in Threads, NEW u \in Users, uncommitted_sells[u] # None,
           uncommitted_sells' = [uncommitted_sells EXCEPT ![u] = None],
           frame'[t].user = u, frame'[t].sell = uncommitted_sells[u],
           \A y \in Threads \ {t} : Carries(y)' => Carries(y) /\ SameLoad(y),
           UNCHANGED fate
    PROVE  SettledByOwnerOnly'
<1>. DEFINE x == uncommitted_sells[u]
<1>0. uncommitted_sells \in [Users -> Sell \cup {None}]
  BY DEF IInv, TypeOK
<1>1. x \in Sell /\ OwnerMatches(u, x)
  BY RecordedState
<1>2. ~\E y \in Threads : Carries(y) /\ frame[y].sell.id = x.id
  BY DEF IInv, SettledByOwnerOnly, Recorded
<1>3. \A v \in Users \ {u} : ~Recorded(x.id, v)
  <2>. SUFFICES ASSUME NEW v \in Users \ {u}, Recorded(x.id, v) PROVE FALSE
    OBVIOUS
  <2>1. OwnerMatches(v, uncommitted_sells[v]) /\ uncommitted_sells[v].id = x.id
    BY RecordedState DEF Recorded
  <2>. QED
    BY <1>1, <2>1 DEF OwnerMatches
<1>4. \A v \in Users : uncommitted_sells'[v] # None =>
          v # u /\ uncommitted_sells'[v] = uncommitted_sells[v]
  BY <1>0
<1>5. \A v \in Users : uncommitted_sells'[v] # None => OwnerMatches(v, uncommitted_sells[v])'
  BY <1>4, RecordedState DEF OwnerMatches
<1>6. \A y \in Threads : Carries(y)' => OwnerMatches(frame[y].user, frame[y].sell)'
  <2>. SUFFICES ASSUME NEW y \in Threads, Carries(y)'
                PROVE  OwnerMatches(frame[y].user, frame[y].sell)'
    OBVIOUS
  <2>1. CASE y = t
    BY <1>1, <2>1 DEF OwnerMatches
  <2>2. CASE y # t
    BY <2>2, CarriedState DEF OwnerMatches, SameLoad
  <2>. QED
    BY <2>1, <2>2
<1>7. \A y \in Threads, v \in Users : Carries(y)' => ~Recorded(frame[y].sell.id, v)'
  <2>. SUFFICES ASSUME NEW y \in Threads, NEW v \in Users, Carries(y)',
                       Recorded(frame[y].sell.id, v)'
                PROVE  FALSE
    OBVIOUS
  <2>1. v # u /\ Recorded(frame'[y].sell.id, v)
    BY <1>4 DEF Recorded
  <2>2. CASE y = t
    BY <1>3, <2>1, <2>2
  <2>3. CASE y # t
    BY <2>1, <2>3 DEF IInv, SettledByOwnerOnly, SameLoad
  <2>. QED
    BY <2>2, <2>3
<1>8. \A y, z \in Threads :
          Carries(y)' /\ Carries(z)' /\ frame'[y].sell.id = frame'[z].sell.id => y = z
  <2>. SUFFICES ASSUME NEW y \in Threads, NEW z \in Threads, Carries(y)', Carries(z)',
                       frame'[y].sell.id = frame'[z].sell.id, y # z
                PROVE  FALSE
    OBVIOUS
  <2>1. CASE y = t
    BY <1>2, <2>1 DEF SameLoad
  <2>2. CASE z = t
    BY <1>2, <2>2 DEF SameLoad
  <2>3. CASE y # t /\ z # t
    BY <2>3 DEF IInv, SettledByOwnerOnly, SameLoad
  <2>. QED
    BY <2>1, <2>2, <2>3
<1>. QED
  BY <1>5, <1>6, <1>7, <1>8 DEF SettledByOwnerOnly

(* A step settles no sell but that of the thread that takes it.            *)
LEMMA OwnersStep == IInv /\ TypeOK' /\ [Next]_vars => SettledByOwnerOnly'
<1>. SUFFICES ASSUME IInv, TypeOK', [Next]_vars
              PROVE  SettledByOwnerOnly'
  OBVIOUS
<1>. USE DEF Threads
<1>0. /\ pc \in [Threads -> MainPC \cup TimerPC] /\ frame \in [Threads -> Frame]
      /\ fate \in [SellIds -> Fate] /\ uncommitted_sells \in [Users -> Sell \cup {None}]
  BY DEF IInv, TypeOK
<1>1. CASE /\ UNCHANGED <<uncommitted_sells, fate>>
           /\ \A t \in Threads : Carries(t)' => Carries(t) /\ SameLoad(t)
  BY <1>1, OwnersKept DEF SameFate
<1>2. CASE \E u \in Users, s \in Stocks, n \in Lots, v \in Prices : Bought(u, s, n, v)
  BY <1>1, <1>2 DEF Bought, mem, Carries, SameLoad
<1>3. CASE \E u \in Users, s \in Stocks, a \in Amounts, id \in SellIds, v \in Prices :
              SellCheck(u, s, a, id, v)
  BY <1>0, <1>1, <1>3 DEF SellCheck, Goto, Carries, SameLoad
<1>4. CASE SellPull \/ SellSwap \/ SellArm
  <2>1. UNCHANGED <<uncommitted_sells, fate>>
    BY <1>4 DEF SellPull, SellSwap, SellArm
  <2>2. ASSUME NEW t \in Threads, Carries(t)' PROVE Carries(t) /\ SameLoad(t)
    <3>1. CASE SellPull
      BY <1>0, <2>2, <3>1 DEF SellPull, End, EndPC, Goto, Carries, SameLoad
    <3>2. CASE SellSwap
      BY <1>0, <2>2, <3>2 DEF SellSwap, Cancelled, Carries, SameLoad
    <3>3. CASE SellArm
      BY <1>0, <2>2, <3>3 DEF SellArm, Armed, Started, Carries, SameLoad
    <3>. QED
      BY <1>4, <3>1, <3>2, <3>3
  <2>. QED
    BY <1>1, <2>1, <2>2
<1>5. CASE SellRecord
  <2>a. PICK u \in Users : u = frame[Main].user
    BY <1>5 DEF SellRecord, IInv, FrameOK
  <2>b. PICK x \in Sell : x = frame[Main].sell
    BY <1>5 DEF SellRecord, IInv, FrameOK
  <2>1. x.id \in SellIds /\ fate[x.id].state = "new"
    BY <1>5, <2>b DEF SellRecord, IInv, Fresh, Sell
  <2>2. /\ uncommitted_sells' = [uncommitted_sells EXCEPT ![u] = x]
        /\ fate' = [fate EXCEPT ![x.id] = [state |-> "pending", set_aside |-> FALSE,
                                           user |-> u, sell |-> x]]
        /\ frame' = frame
    BY <1>5, <2>a, <2>b DEF SellRecord
  <2>3. \A t \in Threads : Carries(t)' => Carries(t)
    BY <1>0, <1>5 DEF SellRecord, Goto, Carries
  <2>4. \A v \in Users \ {u} : uncommitted_sells'[v] = uncommitted_sells[v]
    BY <1>0, <2>2
  <2>5. \A i \in SellIds \ {x.id} : fate'[i] = fate[i]
    BY <1>0, <2>2
  <2>6. OwnerMatches(u, x)' /\ uncommitted_sells'[u] = x
    BY <1>0, <2>1, <2>2 DEF OwnerMatches
  <2>7. \A v \in Users : Recorded(x.id, v) => FALSE
    BY <2>1, RecordedState DEF Recorded, OwnerMatches
  <2>8. \A t \in Threads : Carries(t) => frame[t].sell.id # x.id
    BY <2>1, CarriedState DEF OwnerMatches
  <2>9. \A v \in Users : uncommitted_sells'[v] # None => OwnerMatches(v, uncommitted_sells[v])'
    <3>. SUFFICES ASSUME NEW v \in Users, uncommitted_sells'[v] # None
                  PROVE  OwnerMatches(v, uncommitted_sells[v])'
      OBVIOUS
    <3>1. CASE v = u
      BY <2>6, <3>1 DEF OwnerMatches
    <3>2. CASE v # u
      <4>1. /\ uncommitted_sells'[v] = uncommitted_sells[v] /\ uncommitted_sells[v] # None
            /\ uncommitted_sells[v].id # x.id
        BY <2>4, <2>7, <3>2 DEF Recorded
      <4>. QED
        BY <2>5, <4>1, RecordedState DEF OwnerMatches
    <3>. QED
      BY <3>1, <3>2
  <2>10. \A t \in Threads : Carries(t)' => OwnerMatches(frame[t].user, frame[t].sell)'
    <3>. SUFFICES ASSUME NEW t \in Threads, Carries(t)'
                  PROVE  OwnerMatches(frame[t].user, frame[t].sell)'
      OBVIOUS
    <3>1. Carries(t) /\ frame[t].sell.id \in SellIds /\ frame[t].sell.id # x.id
      BY <2>3, <2>8, CarriedState
    <3>. QED
      BY <2>2, <2>5, <3>1, CarriedState DEF OwnerMatches
  <2>11. \A t \in Threads, v \in Users : Carries(t)' => ~Recorded(frame[t].sell.id, v)'
    <3>. SUFFICES ASSUME NEW t \in Threads, NEW v \in Users, Carries(t)',
                         Recorded(frame[t].sell.id, v)'
                  PROVE  FALSE
      OBVIOUS
    <3>1. Carries(t) /\ frame'[t] = frame[t]
      BY <2>2, <2>3
    <3>2. CASE v = u
      BY <2>6, <2>8, <3>1, <3>2 DEF Recorded
    <3>3. CASE v # u
      BY <2>4, <3>1, <3>3 DEF Recorded, IInv, SettledByOwnerOnly
    <3>. QED
      BY <3>2, <3>3
  <2>12. \A t1, t2 \in Threads :
            Carries(t1)' /\ Carries(t2)' /\ frame'[t1].sell.id = frame'[t2].sell.id => t1 = t2
    BY <2>2, <2>3 DEF IInv, SettledByOwnerOnly
  <2>. QED
    BY <2>9, <2>10, <2>11, <2>12 DEF SettledByOwnerOnly
<1>6. CASE SellReserve
  <2>1. frame[Main].sell.id \in SellIds
    BY <1>6 DEF SellReserve, IInv, FrameOK, Sell
  <2>2. \A x \in SellIds : SameFate(x)
    BY <1>0, <1>6, <2>1 DEF SellReserve, SameFate, Fate
  <2>3. \A t \in Threads : Carries(t)' => Carries(t) /\ SameLoad(t)
    BY <1>0, <1>6 DEF SellReserve, End, EndPC, Goto, Carries, SameLoad
  <2>. QED
    BY <1>6, <2>2, <2>3, OwnersKept DEF SellReserve
<1>7. ASSUME NEW u \in Users, CommitTake(u)
      PROVE  SettledByOwnerOnly'
  <2>1. /\ uncommitted_sells[u] # None
        /\ uncommitted_sells' = [uncommitted_sells EXCEPT ![u] = None]
        /\ frame'[Main].user = u /\ frame'[Main].sell = uncommitted_sells[u]
        /\ UNCHANGED fate /\ Main \in Threads
    BY <1>0, <1>7 DEF CommitTake, PopSell
  <2>2. \A y \in Threads \ {Main} : Carries(y)' => Carries(y) /\ SameLoad(y)
    BY <1>0, <1>7 DEF CommitTake, Cancelled, Carries, SameLoad
  <2>. QED
    BY <2>1, <2>2, OwnerTakes
<1>8. ASSUME NEW t \in Threads, NEW s, Carries(t), ~Carries(t)',
             fate' = fate \/ fate' = [fate EXCEPT ![frame[t].sell.id].state = s],
             UNCHANGED uncommitted_sells,
             \A y \in Threads \ {t} : pc'[y] = pc[y] /\ frame'[y] = frame[y]
      PROVE  SettledByOwnerOnly'
  <2>a. PICK x \in SellIds : x = frame[t].sell.id
    BY <1>8, CarriedState
  <2>1. \A y \in Threads : Carries(y)' => y # t /\ Carries(y) /\ SameLoad(y)
    BY <1>8 DEF Carries, SameLoad
  <2>2. \A i \in SellIds \ {x} : SameFate(i)
    BY <1>0, <1>8, <2>a DEF SameFate
  <2>3. \A u \in Users : ~Recorded(x, u)'
    BY <1>8, <2>a DEF Recorded, IInv, SettledByOwnerOnly
  <2>4. \A y \in Threads : Carries(y)' => frame'[y].sell.id # x
    BY <1>8, <2>a, <2>1 DEF IInv, SettledByOwnerOnly, SameLoad
  <2>5. \A i \in SellIds : \/ SameFate(i)
                           \/ /\ \A u \in Users : ~Recorded(i, u)'
                              /\ \A y \in Threads : Carries(y)' => frame'[y].sell.id # i
    BY <2>2, <2>3, <2>4
  <2>. QED
    BY <1>8, <2>1, <2>5, OwnersKept
<1>9. CASE CommitSettle
  <2>1. /\ Carries(Main) /\ ~Carries(Main)' /\ UNCHANGED uncommitted_sells
        /\ fate' = fate \/ fate' = [fate EXCEPT ![frame[Main].sell.id].state = "sold"]
    BY <1>0, <1>9 DEF CommitSettle, Carries, End, EndPC, Goto
  <2>2. \A y \in Threads \ {Main} : pc'[y] = pc[y] /\ frame'[y] = frame[y]
    BY <1>0, <1>9 DEF CommitSettle, End, Goto
  <2>. QED
    BY <1>8, <2>1, <2>2
<1>10. ASSUME NEW t \in Threads, CancelRelease(t)
       PROVE  SettledByOwnerOnly'
  <2>1. /\ Carries(t) /\ ~Carries(t)' /\ UNCHANGED uncommitted_sells
        /\ fate' = fate \/ fate' = [fate EXCEPT ![frame[t].sell.id].state = "freed"]
    BY <1>0, <1>10 DEF CancelRelease, Carries, End, EndPC, Goto
  <2>2. \A y \in Threads \ {t} : pc'[y] = pc[y] /\ frame'[y] = frame[y]
    BY <1>0, <1>10 DEF CancelRelease, End, Goto
  <2>. QED
    BY <1>8, <2>1, <2>2
<1>11. CASE \E b \in SellIds : Fire(b)
  BY <1>0, <1>1, <1>11 DEF Fire, Goto, Carries, SameLoad
<1>12. ASSUME NEW t \in Threads, NEW u \in Users, CancelTimer(t, u)
       PROVE  SettledByOwnerOnly'
  <2>1. UNCHANGED <<uncommitted_sells, fate>>
    BY <1>12 DEF CancelTimer
  <2>2. \A y \in Threads : Carries(y)' => Carries(y) /\ SameLoad(y)
    BY <1>0, <1>12 DEF CancelTimer, Cancelled, Carries, SameLoad
  <2>. QED
    BY <1>1, <2>1, <2>2
<1>13. ASSUME NEW t \in Threads, CancelTake(t)
       PROVE  SettledByOwnerOnly'
  <2>. DEFINE u == frame[t].user
  <2>1. u \in Users /\ UNCHANGED fate /\ frame[t] \in Frame
        /\ uncommitted_sells' = [uncommitted_sells EXCEPT ![u] = None]
    BY <1>0, <1>13 DEF CancelTake, PopSell, IInv, FrameOK
  <2>2. \A y \in Threads \ {t} : Carries(y)' => Carries(y) /\ SameLoad(y)
    BY <1>0, <1>13 DEF CancelTake, End, Goto, Carries, SameLoad
  <2>3. CASE uncommitted_sells[u] = None
    <3>1. ~Carries(t)'
      BY <1>0, <1>13, <2>3 DEF CancelTake, End, EndPC, Goto, Carries
    <3>2. uncommitted_sells' = uncommitted_sells
      BY <1>0, <2>1, <2>3
    <3>. QED
      BY <1>1, <2>1, <2>2, <3>1, <3>2
  <2>4. CASE uncommitted_sells[u] # None
    <3>1. frame' = [frame EXCEPT ![t].sell = uncommitted_sells[u]]
      BY <1>13, <2>4 DEF CancelTake
    <3>2. frame'[t].user = u /\ frame'[t].sell = uncommitted_sells[u]
      BY <1>0, <2>1, <3>1 DEF Frame
    <3>. QED
      BY <2>1, <2>2, <2>4, <3>2, OwnerTakes
  <2>. QED
    BY <2>3, <2>4
<1>14. CASE \E t \in Threads : Raise(t)
  BY <1>0, <1>1, <1>14 DEF Raise, End, EndPC, Goto, Carries, SameLoad
<1>15. CASE Restart
  <2>1. \A t \in Threads : ~Carries(t)'
    BY <1>0, <1>15 DEF Restart, EndPC, Carries
  <2>2. \A u \in Users : uncommitted_sells'[u] = None
    BY <1>15 DEF Restart
  <2>. QED
    BY <2>1, <2>2 DEF SettledByOwnerOnly
<1>16. CASE UNCHANGED vars
  BY <1>1, <1>16 DEF vars, Carries, SameLoad
<1>. QED
  BY <1>2, <1>3, <1>4, <1>5, <1>6, <1>7, <1>9, <1>10, <1>11, <1>12, <1>13, <1>14,
     <1>15, <1>16 DEF Next, SellStep, CancelStep

-----------------------------------------------------------------------------
(* The invariant holds at first.                                           *)
LEMMA InvInit == Init => IInv
<1>. SUFFICES ASSUME Init PROVE IInv
  OBVIOUS
<1>1. TypeOK
  BY TypeInit
<1>2. FrameOK /\ Fresh
  BY DEF Init, FrameOK, Fresh, Threads
<1>3. SettledByOwnerOnly
  BY DEF Init, SettledByOwnerOnly, Carries, Threads
<1>. QED
  BY <1>1, <1>2, <1>3 DEF IInv

(* Every step keeps it.                                                    *)
LEMMA InvStep == IInv /\ [Next]_vars => IInv'
<1>1. IInv /\ [Next]_vars => TypeOK'
  BY TypeStep DEF IInv
<1>. QED
  BY <1>1, FrameOKStep, FreshStep, OwnersStep DEF IInv

(* The inductive invariant of PendingSells.                                *)
THEOREM InvHolds == Spec => []IInv
BY InvInit, InvStep, PTL DEF Spec

(***************************************************************************)
(* The state of the database, the dictionaries and the threads is well     *)
(* typed; a handler finds in its variables what it put there.              *)
(***************************************************************************)
THEOREM TypeCorrect == Spec => []TypeOK
<1>1. IInv => TypeOK
  BY DEF IInv
<1>. QED
  BY <1>1, InvHolds, PTL

(***************************************************************************)
(* A pending sell belongs to the dictionary or to one thread, COMMIT_SELL, *)
(* CANCEL_SELL or a timer, which alone settles it, for the user and the    *)
(* shares of the SELL; also when handlers raise and the worker restarts.   *)
(***************************************************************************)
THEOREM OwnersSettle == Spec => []SettledByOwnerOnly
<1>1. IInv => SettledByOwnerOnly
  BY DEF IInv
<1>. QED
  BY <1>1, InvHolds, PTL

-----------------------------------------------------------------------------
(***************************************************************************)
(* How the arrays of shares change.                                        *)
(***************************************************************************)

(* There is one element for a stock.                                       *)
OneEach == \A u \in Users, s \in Stocks : Owns(u, s) => Len(stocks[u][s]) = 1

(* What w has of y changes by da and dv, and nothing else does.            *)
Moved(w, y, da, dv) ==
    /\ \A u \in Users, s \in Stocks : ~(u = w /\ s = y) => stocks'[u][s] = stocks[u][s]
    /\ Len(stocks'[w][y]) = 1
    /\ stocks'[w][y][1] = [amount |-> AtHand(w, y).amount + da,
                           available |-> AtHand(w, y).available + dv]

(* What a user has of a stock is a number of shares.                       *)
LEMMA HandType ==
    DbTypeOK /\ OneEach =>
        \A u \in Users, s \in Stocks : AtHand(u, s).amount \in Int /\ AtHand(u, s).available \in Int
<1>. SUFFICES ASSUME DbTypeOK, OneEach, NEW u \in Users, NEW s \in Stocks
              PROVE  AtHand(u, s) \in Holding
  BY DEF Holding
<1>1. CASE Owns(u, s)
  <2>1. stocks[u][s] \in Seq(Holding) /\ Len(stocks[u][s]) = 1
    BY <1>1 DEF DbTypeOK, OneEach
  <2>2. stocks[u][s][1] \in Holding
    BY <2>1
  <2>. QED
    BY <1>1, <2>2 DEF AtHand
<1>2. CASE ~Owns(u, s)
  BY <1>2 DEF AtHand, Holding
<1>. QED
  BY <1>1, <1>2

(* The same of the next state.                                             *)
LEMMA HandTypeNext ==
    (DbTypeOK /\ OneEach =>
        \A u \in Users, s \in Stocks : AtHand(u, s).amount \in Int /\ AtHand(u, s).available \in Int)'
BY HandType, PTL

(* A positional update moves shares, ...                                   *)
LEMMA IncreaseMoves ==
    ASSUME DbTypeOK, OneEach, NEW w \in Users, NEW y \in Stocks, Owns(w, y),
           NEW da \in Int, NEW dv \in Int, stocks' = Increased(w, y, da, dv)
    PROVE  Moved(w, y, da, dv)
<1>. DEFINE h == [amount |-> stocks[w][y][1].amount + da,
                  available |-> stocks[w][y][1].available + dv]
<1>1. /\ stocks \in [Users -> [Stocks -> Seq(Holding)]]
      /\ stocks[w][y] \in Seq(Holding) /\ Len(stocks[w][y]) = 1
  BY DEF DbTypeOK, OneEach
<1>2. stocks' = [stocks EXCEPT ![w][y][1] = h]
  BY DEF Increased
<1>3. \A u \in Users, s \in Stocks : ~(u = w /\ s = y) => stocks'[u][s] = stocks[u][s]
  BY <1>1, <1>2
<1>4. stocks'[w][y] = [stocks[w][y] EXCEPT ![1] = h]
  BY <1>1, <1>2
<1>5. Len(stocks'[w][y]) = 1 /\ stocks'[w][y][1] = h
  BY <1>1, <1>4
<1>. QED
  BY <1>3, <1>5 DEF Moved, AtHand

LEMMA AppendToNone == \A h : Len(Append(<< >>, h)) = 1 /\ Append(<< >>, h)[1] = h
OBVIOUS

(* ... and so does a push where there was no element.                      *)
LEMMA PushMoves ==
    ASSUME DbTypeOK, NEW w \in Users, NEW y \in Stocks, ~Owns(w, y),
           NEW n \in Int, stocks' = Pushed(w, y, [amount |-> n, available |-> n])
    PROVE  Moved(w, y, n, n)
<1>1. stocks \in [Users -> [Stocks -> Seq(Holding)]] /\ stocks[w][y] = << >>
  BY DEF DbTypeOK, Owns
<1>2. \A u \in Users, s \in Stocks : ~(u = w /\ s = y) => stocks'[u][s] = stocks[u][s]
  BY <1>1 DEF Pushed
<1>3. PICK h \in Holding : h = [amount |-> n, available |-> n]
  BY DEF Holding
<1>4. stocks'[w][y] = Append(<< >>, h)
  BY <1>1, <1>3 DEF Pushed
<1>5. Len(stocks'[w][y]) = 1 /\ stocks'[w][y][1] = h
  BY <1>4, AppendToNone
<1>6. 0 + n = n
  OBVIOUS
<1>. QED
  BY <1>2, <1>3, <1>5, <1>6 DEF Moved, AtHand

(* What a user has then.                                                   *)
LEMMA HandMoved ==
    ASSUME OneEach, NEW w \in Users, NEW y \in Stocks, NEW da, NEW dv, Moved(w, y, da, dv)
    PROVE  /\ OneEach'
           /\ Owns(w, y)'
           /\ AtHand(w, y)' = [amount |-> AtHand(w, y).amount + da,
                               available |-> AtHand(w, y).available + dv]
           /\ \A u \in Users, s \in Stocks : ~(u = w /\ s = y) =>
                 AtHand(u, s)' = AtHand(u, s) /\ (Owns(u, s)' <=> Owns(u, s))
<1>1. \A q : Len(q) = 1 => q # << >>
  OBVIOUS
<1>2. Owns(w, y)'
  BY <1>1 DEF Moved, Owns
<1>3. ASSUME NEW u \in Users, NEW s \in Stocks, ~(u = w /\ s = y)
      PROVE  /\ AtHand(u, s)' = AtHand(u, s) /\ (Owns(u, s)' <=> Owns(u, s))
             /\ (Owns(u, s)' => Len(stocks'[u][s]) = 1)
  <2>1. stocks'[u][s] = stocks[u][s]
    BY <1>3 DEF Moved
  <2>. QED
    BY <2>1 DEF AtHand, Owns, OneEach
<1>4. \A u \in Users, s \in Stocks : Owns(u, s)' => Len(stocks'[u][s]) = 1
  BY <1>3 DEF Moved
<1>5. OneEach'
  BY <1>4 DEF OneEach, Owns
<1>6. AtHand(w, y)' = stocks'[w][y][1]
  BY <1>2 DEF AtHand, Owns
<1>. QED
  BY <1>2, <1>3, <1>5, <1>6 DEF Moved

(* A COMMIT_BUY delivers shares.                                           *)
LEMMA BoughtMoves ==
    ASSUME IInv, OneEach, NEW u \in Users, NEW s \in Stocks, NEW n \in Lots, NEW v \in Prices,
           Bought(u, s, n, v)
    PROVE  Moved(u, s, n, n)
<1>1. DbTypeOK /\ n \in Int
  BY AmountsAssumption DEF IInv, TypeOK
<1>2. IF Owns(u, s) THEN stocks' = Increased(u, s, n, n)
      ELSE stocks' = Pushed(u, s, [amount |-> n, available |-> n])
  BY DEF Bought
<1>. QED
  BY <1>1, <1>2, IncreaseMoves, PushMoves

(* A SELL sets shares aside.                                               *)
LEMMA ReserveMoves ==
    ASSUME IInv, OneEach, SellReserve, Owns(frame[Main].user, frame[Main].sell.stock)
    PROVE  Moved(frame[Main].user, frame[Main].sell.stock, 0, -frame[Main].sell.num_stocks)
<1>1. /\ DbTypeOK /\ frame[Main].user \in Users /\ frame[Main].sell \in Sell
  BY DEF IInv, TypeOK, SellReserve, FrameOK, Threads
<1>2. /\ frame[Main].sell.stock \in Stocks /\ -frame[Main].sell.num_stocks \in Int /\ 0 \in Int
  BY <1>1 DEF Sell
<1>3. stocks' = Increased(frame[Main].user, frame[Main].sell.stock, 0,
                          -frame[Main].sell.num_stocks)
  BY DEF SellReserve
<1>. QED
  BY <1>1, <1>2, <1>3, IncreaseMoves

(* A COMMIT_SELL takes them.                                               *)
LEMMA SettleMoves ==
    ASSUME IInv, OneEach, CommitSettle, Owns(frame[Main].user, frame[Main].sell.stock)
    PROVE  Moved(frame[Main].user, frame[Main].sell.stock, -frame[Main].sell.num_stocks, 0)
<1>1. /\ DbTypeOK /\ frame[Main].user \in Users /\ frame[Main].sell \in Sell
  BY DEF IInv, TypeOK, CommitSettle, FrameOK, Threads
<1>2. /\ frame[Main].sell.stock \in Stocks /\ -frame[Main].sell.num_stocks \in Int /\ 0 \in Int
  BY <1>1 DEF Sell
<1>3. stocks' = Increased(frame[Main].user, frame[Main].sell.stock,
                          -frame[Main].sell.num_stocks, 0)
  BY DEF CommitSettle, Sold
<1>. QED
  BY <1>1, <1>2, <1>3, IncreaseMoves

(* A CANCEL_SELL gives them back.                                          *)
LEMMA ReleaseMoves ==
    ASSUME IInv, OneEach, NEW t \in Threads, CancelRelease(t),
           Owns(frame[t].user, frame[t].sell.stock)
    PROVE  Moved(frame[t].user, frame[t].sell.stock, 0, frame[t].sell.num_stocks)
<1>1. /\ DbTypeOK /\ frame[t].user \in Users /\ frame[t].sell \in Sell
  BY DEF IInv, TypeOK, CancelRelease, FrameOK
<1>2. /\ frame[t].sell.stock \in Stocks /\ frame[t].sell.num_stocks \in Int /\ 0 \in Int
  BY <1>1 DEF Sell
<1>3. stocks' = Increased(frame[t].user, frame[t].sell.stock, 0, frame[t].sell.num_stocks)
  BY DEF CancelRelease
<1>. QED
  BY <1>1, <1>2, <1>3, IncreaseMoves

(* A SELL may remove an element.                                           *)
LEMMA PullMoves ==
    ASSUME IInv, OneEach, SellPull
    PROVE  /\ OneEach'
           /\ \E w \in Users, y \in Stocks :
                 /\ w = frame[Main].user /\ y = frame[Main].sell.stock
                 /\ ~Owns(w, y)'
                 /\ \A u \in Users, s \in Stocks : ~(u = w /\ s = y)
                       => AtHand(u, s)' = AtHand(u, s) /\ (Owns(u, s)' <=> Owns(u, s))
<1>1. /\ stocks \in [Users -> [Stocks -> Seq(Holding)]]
      /\ frame[Main].user \in Users /\ frame[Main].sell.stock \in Stocks
  BY DEF IInv, TypeOK, DbTypeOK, SellPull, FrameOK, Threads, Sell
<1>2. PICK w \in Users, y \in Stocks : w = frame[Main].user /\ y = frame[Main].sell.stock
  BY <1>1
<1>3. stocks' = [stocks EXCEPT ![w][y] = << >>]
  BY <1>2 DEF SellPull
<1>4. /\ stocks'[w][y] = << >>
      /\ \A u \in Users, s \in Stocks : ~(u = w /\ s = y) => stocks'[u][s] = stocks[u][s]
  BY <1>1, <1>3
<1>5. OneEach'
  BY <1>4 DEF OneEach, Owns
<1>6. ~Owns(w, y)'
  BY <1>4 DEF Owns
<1>7. \A u \in Users, s \in Stocks : ~(u = w /\ s = y)
          => AtHand(u, s)' = AtHand(u, s) /\ (Owns(u, s)' <=> Owns(u, s))
  BY <1>4 DEF Owns, AtHand
<1>. QED
  BY <1>2, <1>5, <1>6, <1>7

(* Nothing else changes the arrays.                                        *)
LEMMA StocksKept ==
    ASSUME [Next]_vars, ~SellPull,
           ~\E u \in Users, s \in Stocks, n \in Lots, v \in Prices : Bought(u, s, n, v),
           ~(SellReserve /\ Owns(frame[Main].user, frame[Main].sell.stock)),
           ~(CommitSettle /\ Owns(frame[Main].user, frame[Main].sell.stock)),
           ~\E t \in Threads : CancelRelease(t) /\ Owns(frame[t].user, frame[t].sell.stock)
    PROVE  UNCHANGED stocks
<1>1. SellReserve => UNCHANGED stocks
  BY DEF SellReserve
<1>2. CommitSettle => UNCHANGED stocks
  BY DEF CommitSettle
<1>3. \A t \in Threads : CancelRelease(t) => UNCHANGED stocks
  BY DEF CancelRelease
<1>4. SellStep => UNCHANGED stocks
  BY <1>1 DEF SellStep, SellRecord, SellSwap, SellArm
<1>5. \A u \in Users, s \in Stocks, a \in Amounts, id \in SellIds, v \in Prices :
          SellCheck(u, s, a, id, v) => UNCHANGED stocks
  BY DEF SellCheck
<1>6. \A t \in Threads : CancelStep(t) \/ Raise(t) => UNCHANGED stocks
  BY <1>3 DEF CancelStep, CancelTake, Raise
<1>7. /\ \A u \in Users : CommitTake(u) => UNCHANGED stocks
      /\ \A b \in SellIds : Fire(b) => UNCHANGED stocks
      /\ \A t \in Threads, u \in Users : CancelTimer(t, u) => UNCHANGED stocks
      /\ (Restart \/ UNCHANGED vars => UNCHANGED stocks)
  BY DEF CommitTake, Fire, CancelTimer, Restart, vars
<1>. QED
  BY <1>2, <1>4, <1>5, <1>6, <1>7 DEF Next

(* There stays one element for a stock.                                    *)
LEMMA OneEachStep == IInv /\ OneEach /\ [Next]_vars => OneEach'
<1>. SUFFICES ASSUME IInv, OneEach, [Next]_vars PROVE OneEach'
  OBVIOUS
<1>1. CASE SellPull
  BY <1>1, PullMoves
<1>2. ASSUME NEW u \in Users, NEW s \in Stocks, NEW n \in Lots, NEW v \in Prices,
             Bought(u, s, n, v)
      PROVE  OneEach'
  BY <1>2, BoughtMoves, HandMoved
<1>3. CASE SellReserve /\ Owns(frame[Main].user, frame[Main].sell.stock)
  <2>1. frame[Main].user \in Users /\ frame[Main].sell.stock \in Stocks
    BY <1>3 DEF IInv, SellReserve, FrameOK, Threads, Sell
  <2>. QED
    BY <1>3, <2>1, ReserveMoves, HandMoved
<1>4. CASE CommitSettle /\ Owns(frame[Main].user, frame[Main].sell.stock)
  <2>1. frame[Main].user \in Users /\ frame[Main].sell.stock \in Stocks
    BY <1>4 DEF IInv, CommitSettle, FrameOK, Threads, Sell
  <2>. QED
    BY <1>4, <2>1, SettleMoves, HandMoved
<1>5. ASSUME NEW t \in Threads, CancelRelease(t), Owns(frame[t].user, frame[t].sell.stock)
      PROVE  OneEach'
  <2>1. frame[t].user \in Users /\ frame[t].sell.stock \in Stocks
    BY <1>5 DEF IInv, CancelRelease, FrameOK, Sell
  <2>. QED
    BY <1>5, <2>1, ReleaseMoves, HandMoved
<1>6. CASE UNCHANGED stocks
  BY <1>6 DEF OneEach, Owns
<1>. QED
  BY <1>1, <1>2, <1>3, <1>4, <1>5, <1>6, StocksKept

-----------------------------------------------------------------------------
(***************************************************************************)
(* Prices.  A price stays in the cache, so that a sell and the shares it   *)
(* is of are at the price that is there; and an element that is about to   *)
(* be removed is empty.                                                    *)
(***************************************************************************)
AtPrice(x) == quote_cache[x.stock] = x.quote

Priced ==
    /\ OneEach
    /\ \A u \in Users, s \in Stocks : Owns(u, s) => quote_cache[s] # None
    /\ \A u \in Users : uncommitted_sells[u] # None => AtPrice(uncommitted_sells[u])
    /\ \A t \in Threads : frame[t].sell # None => AtPrice(frame[t].sell)
    /\ pc[Main] = "sell_pull" =>
          AtHand(frame[Main].user, frame[Main].sell.stock).amount = 0

(* A price that is in the cache stays.                                     *)
LEMMA CacheKept ==
    ASSUME TypeOK, [Next]_vars, NEW s \in Stocks, quote_cache[s] # None
    PROVE  quote_cache'[s] = quote_cache[s]
<1>0. quote_cache \in [Stocks -> Prices \cup {None}]
  BY DEF TypeOK, DbTypeOK
<1>1. ASSUME NEW x \in Stocks, NEW v \in QuoteOf(x), CacheQuote(x, v)
      PROVE  quote_cache'[s] = quote_cache[s]
  BY <1>0, <1>1 DEF QuoteOf, CacheQuote
<1>2. ASSUME NEW u \in Users, NEW x \in Stocks, NEW n \in Lots, NEW v \in Prices,
             Bought(u, x, n, v)
      PROVE  quote_cache'[s] = quote_cache[s]
  BY <1>1, <1>2 DEF Bought
<1>3. ASSUME NEW u \in Users, NEW x \in Stocks, NEW a \in Amounts, NEW id \in SellIds,
             NEW v \in Prices, SellCheck(u, x, a, id, v)
      PROVE  quote_cache'[s] = quote_cache[s]
  BY <1>1, <1>3 DEF SellCheck
<1>. QED
  BY <1>2, <1>3
  DEF Next, vars, SellStep, SellPull, SellRecord, SellReserve, SellSwap, SellArm, CommitTake,
      CommitSettle, Fire, CancelTimer, CancelStep, CancelTake, CancelRelease, Raise, Restart

(* Where pending sells come from: a SELL makes them from its quote.        *)
LEMMA SellsMove ==
    ASSUME IInv, [Next]_vars
    PROVE  /\ \A u \in Users :
                 uncommitted_sells'[u] \in {uncommitted_sells[u], None, frame[Main].sell}
           /\ \A t \in Threads :
                 \/ frame'[t].sell \in {frame[t].sell, None}
                 \/ \E u \in Users : frame'[t].sell = uncommitted_sells[u]
                 \/ quote_cache'[frame'[t].sell.stock] = frame'[t].sell.quote
<1>0. /\ uncommitted_sells \in [Users -> Sell \cup {None}]
      /\ frame \in [Threads -> Frame] /\ Main \in Threads /\ FrameOK
      /\ quote_cache \in [Stocks -> Prices \cup {None}]
  BY DEF IInv, TypeOK, DbTypeOK, Threads
<1>1. ASSUME NEW u \in Users
      PROVE  uncommitted_sells'[u] \in {uncommitted_sells[u], None, frame[Main].sell}
  <2>1. ASSUME NEW w, PopSell(w)
        PROVE  uncommitted_sells'[u] \in {uncommitted_sells[u], None}
    BY <1>0, <2>1 DEF PopSell
  <2>2. SellStep => uncommitted_sells'[u] \in {uncommitted_sells[u], frame[Main].sell}
    BY <1>0 DEF SellStep, SellPull, SellRecord, SellReserve, SellSwap, SellArm
  <2>3. \A w \in Users : CommitTake(w) => PopSell(w)
    BY DEF CommitTake
  <2>4. \A t \in Threads : CancelTake(t) => \E w : PopSell(w)
    BY DEF CancelTake
  <2>5. \A x \in Users, y \in Stocks, a \in Amounts, id \in SellIds, v \in Prices :
            SellCheck(x, y, a, id, v) => UNCHANGED uncommitted_sells
    BY DEF SellCheck
  <2>6. \A x \in Users, y \in Stocks, n \in Lots, v \in Prices :
            Bought(x, y, n, v) => UNCHANGED uncommitted_sells
    BY DEF Bought, mem
  <2>7. /\ CommitSettle => UNCHANGED uncommitted_sells
        /\ \A b \in SellIds : Fire(b) => UNCHANGED uncommitted_sells
        /\ \A t \in Threads, w \in Users : CancelTimer(t, w) => UNCHANGED uncommitted_sells
        /\ \A t \in Threads : CancelRelease(t) \/ Raise(t) => UNCHANGED uncommitted_sells
        /\ UNCHANGED vars => UNCHANGED uncommitted_sells
    BY DEF CommitSettle, Fire, CancelTimer, CancelRelease, Raise, vars
  <2>8. Restart => uncommitted_sells'[u] = None
    BY DEF Restart
  <2>. QED
    BY <2>1, <2>2, <2>3, <2>4, <2>5, <2>6, <2>7, <2>8 DEF Next, CancelStep
<1>2. ASSUME NEW t \in Threads
      PROVE  \/ frame'[t].sell \in {frame[t].sell, None}
             \/ \E u \in Users : frame'[t].sell = uncommitted_sells[u]
             \/ quote_cache'[frame'[t].sell.stock] = frame'[t].sell.quote
  <2>1. ASSUME NEW u \in Users, NEW s \in Stocks, NEW a \in Amounts, NEW id \in SellIds,
               NEW v \in Prices, SellCheck(u, s, a, id, v)
        PROVE  \/ frame'[t].sell = frame[t].sell
               \/ quote_cache'[frame'[t].sell.stock] = frame'[t].sell.quote
    <3>1. quote_cache'[s] = v
      BY <1>0, <2>1 DEF SellCheck, CacheQuote
    <3>. DEFINE x == [id |-> id, stock |-> s, num_stocks |-> a \div v, quote |-> v]
                f == EnoughShares(x, stocks[u][s][1])
    <3>2. \/ frame' = frame
          \/ frame' = [frame EXCEPT ![Main] = [user |-> u, sell |-> x, found |-> f]]
      BY <2>1 DEF SellCheck
    <3>3. x.stock = s /\ x.quote = v
      OBVIOUS
    <3>. HIDE DEF x, f
    <3>4. frame'[t] = frame[t] \/ frame'[t].sell = x
      BY <1>0, <3>2
    <3>. QED
      BY <3>1, <3>3, <3>4
  <2>2. CASE SellStep \/ CommitSettle \/ Restart \/ UNCHANGED frame
    BY <1>0, <2>2
    DEF SellStep, SellPull, SellRecord, SellReserve, SellSwap, SellArm, CommitSettle, End, Restart,
        NoFrame, Frame
  <2>3. ASSUME NEW u \in Users, CommitTake(u)
        PROVE  frame'[t].sell = frame[t].sell \/ frame'[t].sell = uncommitted_sells[u]
    BY <1>0, <2>3 DEF CommitTake
  <2>4. ASSUME NEW x \in Threads, NEW u \in Users, CancelTimer(x, u)
        PROVE  frame'[t].sell \in {frame[t].sell, None}
    BY <1>0, <2>4 DEF CancelTimer
  <2>5. ASSUME NEW x \in Threads, CancelTake(x)
        PROVE  \/ frame'[t].sell \in {frame[t].sell, None}
               \/ \E u \in Users : frame'[t].sell = uncommitted_sells[u]
    <3>1. frame[x].user \in Users
      BY <1>0, <2>5 DEF CancelTake, FrameOK
    <3>2. CASE uncommitted_sells[frame[x].user] = None
      BY <1>0, <2>5, <3>2 DEF CancelTake, End, NoFrame
    <3>3. CASE uncommitted_sells[frame[x].user] # None
      <4>1. frame' = [frame EXCEPT ![x].sell = uncommitted_sells[frame[x].user]]
        BY <2>5, <3>3 DEF CancelTake
      <4>2. frame'[t].sell = frame[t].sell \/ frame'[t].sell = uncommitted_sells[frame[x].user]
        BY <1>0, <4>1 DEF Frame
      <4>. QED
        BY <3>1, <4>2
    <3>. QED
      BY <3>2, <3>3
  <2>6. ASSUME NEW x \in Threads, End(x)
        PROVE  frame'[t].sell \in {frame[t].sell, None}
    BY <1>0, <2>6 DEF End, NoFrame
  <2>. QED
    BY <2>1, <2>2, <2>3, <2>4, <2>5, <2>6, <1>0, ZenonT(40)
    DEF Next, vars, Bought, mem, Fire, CancelStep, CancelRelease, Raise
<1>. QED
  BY <1>1, <1>2

(***************************************************************************)
(* A SELL that has not set its shares aside is in progress.                *)
(***************************************************************************)
Selling == {"sell_pull", "sell_record", "sell_reserve"}

(* It has just gone there, or other threads act.                           *)
LEMMA SellGoesOn ==
    ASSUME IInv, [Next]_vars, pc'[Main] \in Selling
    PROVE  \/ /\ pc[Main] = "idle"
              /\ \E u \in Users, s \in Stocks, a \in Amounts, id \in SellIds, v \in Prices :
                    SellCheck(u, s, a, id, v)
           \/ SellPull /\ pc'[Main] = "sell_record" /\ frame'[Main] = frame[Main]
           \/ SellRecord /\ pc'[Main] = "sell_reserve" /\ frame'[Main] = frame[Main]
           \/ /\ pc'[Main] = pc[Main] /\ frame'[Main] = frame[Main]
              /\ ~SellReserve /\ ~SellPull /\ ~SellRecord /\ ~CancelRelease(Main)
<1>0. /\ pc \in [Threads -> MainPC \cup TimerPC] /\ frame \in [Threads -> Frame]
      /\ Main \in Threads /\ SellIds \subseteq Threads /\ Main \notin SellIds
      /\ uncommitted_sell_timers \in [Users -> SellIds \cup {None}] /\ FrameOK
  BY DEF IInv, TypeOK, Threads
<1>1. /\ ~CommitSettle /\ ~Restart /\ ~SellReserve /\ ~CancelRelease(Main)
      /\ \A t \in Threads : End(t) => t # Main
  BY <1>0
  DEF CommitSettle, SellReserve, CancelRelease, End, EndPC, Goto, Restart, Selling
<1>2. ~SellSwap /\ ~SellArm
  <2>1. \A b : DOMAIN Cancelled(pc, b) = Threads
    BY <1>0 DEF Cancelled
  <2>. QED
    BY <1>0, <2>1 DEF SellSwap, SellArm, Armed, Started, Selling
<1>3. CASE SellPull
  BY <1>0, <1>1, <1>3 DEF SellPull, Goto
<1>4. CASE SellRecord
  BY <1>0, <1>4 DEF SellRecord, Goto
<1>5. ASSUME NEW u \in Users, CommitTake(u)
      PROVE  FALSE
  <2>1. DOMAIN Cancelled(pc, uncommitted_sell_timers[u]) = Threads
    BY <1>0 DEF Cancelled
  <2>. QED
    BY <1>0, <1>5, <2>1 DEF CommitTake, Selling
<1>6. ASSUME ~SellPull, ~SellRecord,
             ~\E u \in Users, s \in Stocks, a \in Amounts, id \in SellIds, v \in Prices :
                 SellCheck(u, s, a, id, v)
      PROVE  pc'[Main] = pc[Main] /\ frame'[Main] = frame[Main]
  <2>1. ASSUME NEW b \in SellIds, Fire(b)
        PROVE  pc'[Main] = pc[Main] /\ frame'[Main] = frame[Main]
    BY <1>0, <2>1 DEF Fire, Goto
  <2>2. ASSUME NEW t \in Threads, NEW u \in Users, CancelTimer(t, u)
        PROVE  pc'[Main] = pc[Main] /\ frame'[Main] = frame[Main]
    <3>1. \A b : /\ DOMAIN Cancelled(pc, b) = Threads
                 /\ Cancelled(pc, b)[Main] \in {pc[Main], "cancelled"}
      BY <1>0 DEF Cancelled
    <3>2. t # Main
      BY <1>0, <2>2, <3>1 DEF CancelTimer, Selling
    <3>. QED
      BY <1>0, <2>2, <3>1, <3>2 DEF CancelTimer, Selling
  <2>3. ASSUME NEW t \in Threads, CancelStep(t) \/ Raise(t)
        PROVE  pc'[Main] = pc[Main] /\ frame'[Main] = frame[Main]
    <3>1. \/ End(t)
          \/ Goto(t, "cancel_release") /\ frame' = [frame EXCEPT ![t].sell =
                                                      uncommitted_sells[frame[t].user]]
      BY <2>3 DEF CancelStep, CancelTake, CancelRelease, Raise
    <3>2. t # Main
      BY <1>0, <1>1, <3>1 DEF Goto, Selling
    <3>. QED
      BY <1>0, <3>1, <3>2 DEF End, Goto
  <2>4. ASSUME NEW u \in Users, NEW s \in Stocks, NEW n \in Lots, NEW v \in Prices,
               Bought(u, s, n, v)
        PROVE  pc'[Main] = pc[Main] /\ frame'[Main] = frame[Main]
    BY <2>4 DEF Bought, mem
  <2>. QED
    BY <1>1, <1>2, <1>5, <1>6, <2>1, <2>2, <2>3, <2>4 DEF Next, SellStep, vars
<1>7. ASSUME NEW u \in Users, NEW s \in Stocks, NEW a \in Amounts, NEW id \in SellIds,
             NEW v \in Prices, SellCheck(u, s, a, id, v)
      PROVE  pc[Main] = "idle"
  BY <1>7 DEF SellCheck
<1>. QED
  BY <1>1, <1>3, <1>4, <1>6, <1>7

(* What the other threads do meanwhile: they release shares.               *)
LEMMA WhileSelling ==
    ASSUME IInv, OneEach, [Next]_vars, pc[Main] \in Selling, ~SellReserve, ~SellPull, ~SellRecord
    PROVE  /\ \A u \in Users, s \in Stocks :
                 /\ AtHand(u, s)'.amount = AtHand(u, s).amount
                 /\ AtHand(u, s)'.available >= AtHand(u, s).available
           /\ \A x \in SellIds :
                 \/ fate'[x] = fate[x]
                 \/ /\ fate[x].state = "pending"
                    /\ fate'[x] = [fate[x] EXCEPT !.state = "freed"]
<1>0. /\ fate \in [SellIds -> Fate] /\ DbTypeOK
      /\ \A u \in Users, s \in Stocks :
            AtHand(u, s).amount \in Int /\ AtHand(u, s).available \in Int
  BY HandType DEF IInv, TypeOK
<1>1. /\ ~CommitSettle
      /\ ~\E u \in Users, s \in Stocks, n \in Lots, v \in Prices : Bought(u, s, n, v)
  <2>1. ~CommitSettle
    BY DEF CommitSettle, Selling
  <2>2. \A u \in Users, s \in Stocks, n \in Lots, v \in Prices : ~Bought(u, s, n, v)
    BY DEF Bought, Selling
  <2>. QED
    BY <2>1, <2>2
<1>2. ASSUME NEW t \in Threads, CancelRelease(t)
      PROVE  /\ \A u \in Users, s \in Stocks :
                   /\ AtHand(u, s)'.amount = AtHand(u, s).amount
                   /\ AtHand(u, s)'.available >= AtHand(u, s).available
             /\ \A x \in SellIds :
                   \/ fate'[x] = fate[x]
                   \/ /\ fate[x].state = "pending"
                      /\ fate'[x] = [fate[x] EXCEPT !.state = "freed"]
  <2>1. /\ frame[t].user \in Users /\ frame[t].sell \in Sell
        /\ frame[t].sell.id \in SellIds /\ fate[frame[t].sell.id].state = "pending"
    BY <1>2, CarriedState DEF CancelRelease, Carries, OwnerMatches
  <2>2. PICK w \in Users, y \in Stocks, n \in Nat, i \in SellIds :
            w = frame[t].user /\ y = frame[t].sell.stock /\ n = frame[t].sell.num_stocks
            /\ i = frame[t].sell.id
    BY <2>1 DEF Sell
  <2>3. CASE Owns(w, y)
    <3>1. Moved(w, y, 0, n)
      BY <1>2, <2>2, <2>3, ReleaseMoves
    <3>2. \A u \in Users, s \in Stocks :
              \/ AtHand(u, s)' = AtHand(u, s)
              \/ AtHand(u, s)' = [amount |-> AtHand(u, s).amount + 0,
                                  available |-> AtHand(u, s).available + n]
      BY <3>1, HandMoved
    <3>3. fate' = [fate EXCEPT ![i].state = "freed"]
      BY <1>2, <2>2, <2>3 DEF CancelRelease
    <3>4. \A x \in SellIds : x # i => fate'[x] = fate[x]
      BY <1>0, <3>3
    <3>5. fate'[i] = [fate[i] EXCEPT !.state = "freed"]
      BY <1>0, <3>3
    <3>6. ASSUME NEW u \in Users, NEW s \in Stocks
          PROVE  /\ AtHand(u, s)'.amount = AtHand(u, s).amount
                 /\ AtHand(u, s)'.available >= AtHand(u, s).available
      <4>1. PICK a \in Int, v \in Int : a = AtHand(u, s).amount /\ v = AtHand(u, s).available
        BY <1>0
      <4>2. v + n >= v /\ v >= v /\ a + 0 = a
        OBVIOUS
      <4>. QED
        BY <3>2, <4>1, <4>2
    <3>. QED
      BY <2>1, <2>2, <3>4, <3>5, <3>6
  <2>4. CASE ~Owns(w, y)
    <3>1. UNCHANGED <<stocks, fate>>
      BY <1>2, <2>2, <2>4 DEF CancelRelease
    <3>2. \A u \in Users, s \in Stocks : AtHand(u, s)' = AtHand(u, s)
      BY <3>1 DEF AtHand, Owns
    <3>. QED
      BY <1>0, <3>1, <3>2
  <2>. QED
    BY <2>3, <2>4
<1>3. ASSUME ~\E t \in Threads : CancelRelease(t)
      PROVE  UNCHANGED <<stocks, fate>>
  <2>1. UNCHANGED stocks
    BY <1>1, <1>3, StocksKept
  <2>2. UNCHANGED fate
    <3>1. SellSwap \/ SellArm \/ Restart \/ UNCHANGED vars => UNCHANGED fate
      BY DEF SellSwap, SellArm, Restart, vars
    <3>2. \A u \in Users, s \in Stocks, a \in Amounts, id \in SellIds, v \in Prices :
              SellCheck(u, s, a, id, v) => UNCHANGED fate
      BY DEF SellCheck
    <3>3. /\ \A u \in Users : CommitTake(u) => UNCHANGED fate
          /\ \A b \in SellIds : Fire(b) => UNCHANGED fate
          /\ \A t \in Threads, u \in Users : CancelTimer(t, u) => UNCHANGED fate
          /\ \A t \in Threads : CancelTake(t) \/ Raise(t) => UNCHANGED fate
      BY DEF CommitTake, Fire, CancelTimer, CancelTake, Raise
    <3>. QED
      BY <1>1, <1>3, <3>1, <3>2, <3>3 DEF Next, SellStep, CancelStep
  <2>. QED
    BY <2>1, <2>2
<1>4. ASSUME UNCHANGED <<stocks, fate>>
      PROVE  /\ \A u \in Users, s \in Stocks :
                   /\ AtHand(u, s)'.amount = AtHand(u, s).amount
                   /\ AtHand(u, s)'.available >= AtHand(u, s).available
             /\ \A x \in SellIds : fate'[x] = fate[x]
  <2>1. \A u \in Users, s \in Stocks : AtHand(u, s)' = AtHand(u, s)
    BY <1>4 DEF AtHand, Owns
  <2>. QED
    BY <1>0, <1>4, <2>1
<1>. QED
  BY <1>2, <1>3, <1>4

(* A stock that a user comes to own was delivered.                         *)
LEMMA OwnsOrBought ==
    ASSUME IInv, OneEach, [Next]_vars, NEW u \in Users, NEW s \in Stocks, Owns(u, s)'
    PROVE  Owns(u, s) \/ quote_cache'[s] # None
<1>1. CASE SellPull
  BY <1>1, PullMoves
<1>2. ASSUME NEW w \in Users, NEW y \in Stocks, NEW n \in Lots, NEW v \in Prices,
             Bought(w, y, n, v)
      PROVE  Owns(u, s) \/ quote_cache'[s] # None
  <2>1. quote_cache'[y] # None
    BY <1>2, NoneIsNoPrice DEF Bought, CacheQuote, IInv, TypeOK, DbTypeOK
  <2>2. ~(u = w /\ s = y) => (Owns(u, s)' <=> Owns(u, s))
    BY <1>2, BoughtMoves, HandMoved
  <2>. QED
    BY <2>1, <2>2
<1>3. ASSUME NEW w \in Users, NEW y \in Stocks, NEW da, NEW dv, Moved(w, y, da, dv), Owns(w, y)
      PROVE  Owns(u, s)
  BY <1>3, HandMoved
<1>4. CASE SellReserve /\ Owns(frame[Main].user, frame[Main].sell.stock)
  <2>1. frame[Main].user \in Users /\ frame[Main].sell.stock \in Stocks
    BY <1>4 DEF IInv, SellReserve, FrameOK, Threads, Sell
  <2>. QED
    BY <1>3, <1>4, <2>1, ReserveMoves
<1>5. CASE CommitSettle /\ Owns(frame[Main].user, frame[Main].sell.stock)
  <2>1. frame[Main].user \in Users /\ frame[Main].sell.stock \in Stocks
    BY <1>5 DEF IInv, CommitSettle, FrameOK, Threads, Sell
  <2>. QED
    BY <1>3, <1>5, <2>1, SettleMoves
<1>6. ASSUME NEW t \in Threads, CancelRelease(t), Owns(frame[t].user, frame[t].sell.stock)
      PROVE  Owns(u, s)
  <2>1. frame[t].user \in Users /\ frame[t].sell.stock \in Stocks
    BY <1>6 DEF IInv, CancelRelease, FrameOK, Sell
  <2>. QED
    BY <1>3, <1>6, <2>1, ReleaseMoves
<1>7. CASE UNCHANGED stocks
  BY <1>7 DEF Owns
<1>. QED
  BY <1>1, <1>2, <1>4, <1>5, <1>6, <1>7, StocksKept

(* An element that is to be removed stays empty.                           *)
LEMMA EmptyStep ==
    ASSUME IInv, Priced, [Next]_vars, pc'[Main] = "sell_pull"
    PROVE  \A u \in Users, s \in Stocks : u = frame'[Main].user /\ s = frame'[Main].sell.stock
               => AtHand(u, s)'.amount = 0
<1>. SUFFICES ASSUME NEW u \in Users, NEW s \in Stocks, u = frame'[Main].user,
                     s = frame'[Main].sell.stock
              PROVE  AtHand(u, s)'.amount = 0
  OBVIOUS
<1>0. /\ pc \in [Threads -> MainPC \cup TimerPC] /\ frame \in [Threads -> Frame]
      /\ Main \in Threads
  BY DEF IInv, TypeOK, Threads
<1>1. ASSUME NEW w \in Users, NEW y \in Stocks, NEW a \in Amounts, NEW id \in SellIds,
             NEW v \in Prices, SellCheck(w, y, a, id, v), pc[Main] = "idle"
      PROVE  AtHand(u, s)'.amount = 0
  <2>. DEFINE x == [id |-> id, stock |-> y, num_stocks |-> a \div v, quote |-> v]
              f == EnoughShares(x, stocks[w][y][1])
  <2>1. /\ stocks' = stocks
        /\ pc' # pc => /\ Owns(w, y)
                       /\ pc' = [pc EXCEPT ![Main] = IF stocks[w][y][1].amount = 0
                                                     THEN "sell_pull" ELSE "sell_record"]
                       /\ frame' = [frame EXCEPT ![Main] = [user |-> w, sell |-> x, found |-> f]]
    BY <1>1 DEF SellCheck, Goto
  <2>2. x.stock = y
    OBVIOUS
  <2>. HIDE DEF x, f
  <2>3. /\ Owns(w, y) /\ stocks[w][y][1].amount = 0 /\ u = w /\ s = y
    BY <1>0, <1>1, <2>1, <2>2
  <2>. QED
    BY <2>1, <2>3 DEF AtHand, Owns
<1>2. ASSUME pc'[Main] = pc[Main], frame'[Main] = frame[Main],
             ~SellReserve, ~SellPull, ~SellRecord
      PROVE  AtHand(u, s)'.amount = 0
  <2>1. AtHand(u, s).amount = 0
    BY <1>2 DEF Priced
  <2>2. AtHand(u, s)'.amount = AtHand(u, s).amount
    BY <1>2, WhileSelling DEF Priced, Selling
  <2>. QED
    BY <2>1, <2>2
<1>. QED
  BY <1>1, <1>2, SellGoesOn DEF Selling

(* Every step keeps pending sells and shares at the prices in the cache.   *)
LEMMA PricedStep == IInv /\ IInv' /\ Priced /\ [Next]_vars => Priced'
<1>. SUFFICES ASSUME IInv, IInv', Priced, [Next]_vars PROVE Priced'
  OBVIOUS
<1>0. /\ TypeOK /\ Main \in Threads /\ OneEach
      /\ uncommitted_sells' \in [Users -> Sell \cup {None}]
      /\ frame' \in [Threads -> Frame]
  BY DEF IInv, TypeOK, Threads, Priced
<1>1. ASSUME NEW u \in Users, NEW s \in Stocks, Owns(u, s)'
      PROVE  quote_cache'[s] # None
  <2>1. CASE Owns(u, s)
    <3>1. quote_cache[s] # None
      BY <2>1 DEF Priced
    <3>. QED
      BY <1>0, <3>1, CacheKept
  <2>. QED
    BY <1>0, <1>1, <2>1, OwnsOrBought
<1>2. ASSUME NEW b \in Sell, AtPrice(b) PROVE AtPrice(b)'
  <2>1. quote_cache[b.stock] # None /\ b.stock \in Stocks
    BY <1>2, NoneIsNoPrice DEF AtPrice, Sell
  <2>. QED
    BY <1>0, <1>2, <2>1, CacheKept DEF AtPrice
<1>3. ASSUME NEW u \in Users, NEW b \in Sell, b = uncommitted_sells[u] PROVE AtPrice(b)'
  BY <1>2, <1>3 DEF Priced
<1>4. ASSUME NEW t \in Threads, NEW b \in Sell, b = frame[t].sell PROVE AtPrice(b)'
  BY <1>2, <1>4 DEF Priced
<1>5. /\ uncommitted_sells \in [Users -> Sell \cup {None}]
      /\ \A t \in Threads : frame[t].sell \in Sell \cup {None} /\ frame'[t].sell \in Sell \cup {None}
  BY <1>0 DEF TypeOK, Frame
<1>6. ASSUME NEW u \in Users, uncommitted_sells'[u] # None
      PROVE  quote_cache'[uncommitted_sells'[u].stock] = uncommitted_sells'[u].quote
  <2>1. PICK b : b = uncommitted_sells'[u]
    OBVIOUS
  <2>2. b \in Sell /\ (b = uncommitted_sells[u] \/ b = frame[Main].sell)
    BY <1>0, <1>6, <2>1, SellsMove
  <2>3. AtPrice(b)'
    BY <1>0, <1>3, <1>4, <2>2
  <2>. QED
    BY <2>1, <2>3 DEF AtPrice
<1>7. ASSUME NEW t \in Threads, frame'[t].sell # None
      PROVE  quote_cache'[frame'[t].sell.stock] = frame'[t].sell.quote
  <2>1. PICK b : b = frame'[t].sell
    OBVIOUS
  <2>2. /\ b \in Sell
        /\ \/ b = frame[t].sell
           \/ \E u \in Users : b = uncommitted_sells[u]
           \/ quote_cache'[b.stock] = b.quote
    BY <1>5, <1>7, <2>1, SellsMove
  <2>3. quote_cache'[b.stock] = b.quote
    BY <1>3, <1>4, <2>2 DEF AtPrice
  <2>. QED
    BY <2>1, <2>3
<1>8. (\A u \in Users : uncommitted_sells[u] # None => AtPrice(uncommitted_sells[u]))'
  BY <1>6 DEF AtPrice
<1>9. (\A t \in Threads : frame[t].sell # None => AtPrice(frame[t].sell))'
  BY <1>7 DEF AtPrice
<1>10. (pc[Main] = "sell_pull" => AtHand(frame[Main].user, frame[Main].sell.stock).amount = 0)'
  <2>. SUFFICES ASSUME pc'[Main] = "sell_pull"
                PROVE  AtHand(frame[Main].user, frame[Main].sell.stock)'.amount = 0
    OBVIOUS
  <2>1. PICK u \in Users, s \in Stocks : u = frame'[Main].user /\ s = frame'[Main].sell.stock
    BY <1>0 DEF IInv, FrameOK, Sell
  <2>2. AtHand(u, s)'.amount = 0
    BY <2>1, EmptyStep
  <2>. QED
    BY <2>1, <2>2 DEF AtHand, Owns
<1>11. OneEach'
  BY <1>0, OneEachStep
<1>12. (\A u \in Users, s \in Stocks : Owns(u, s) => quote_cache[s] # None)'
  BY <1>1
<1>. QED
  BY <1>8, <1>9, <1>10, <1>11, <1>12 DEF Priced

(* Nobody owns or sells anything at first.                                 *)
LEMMA PricedInit == Init => Priced
<1>. SUFFICES ASSUME Init PROVE Priced
  OBVIOUS
<1>1. \A u \in Users, s \in Stocks : ~Owns(u, s)
  BY DEF Init, Owns
<1>2. /\ \A u \in Users : uncommitted_sells[u] = None
      /\ \A t \in Threads : frame[t].sell = None
      /\ pc[Main] = "idle"
  BY DEF Init, NoFrame, Threads
<1>. QED
  BY <1>1, <1>2 DEF Priced, OneEach

-----------------------------------------------------------------------------
(***************************************************************************)
(* What the users own.                                                     *)
(***************************************************************************)

(* What the stock s that u owns is worth at its price: ...                 *)
Worth(u, s) == IF Owns(u, s) THEN stocks[u][s][1].amount * quote_cache[s] ELSE 0

(* ... a number.                                                           *)
LEMMA WorthType == IInv /\ Priced => \A u \in Users, s \in Stocks : Worth(u, s) \in Int
<1>. SUFFICES ASSUME IInv, Priced, NEW u \in Users, NEW s \in Stocks, Owns(u, s)
              PROVE  stocks[u][s][1].amount * quote_cache[s] \in Int
  BY DEF Worth
<1>1. stocks[u][s][1].amount \in Int
  <2>1. AtHand(u, s) = stocks[u][s][1]
    BY DEF AtHand
  <2>2. AtHand(u, s).amount \in Int
    BY HandType DEF IInv, TypeOK, Priced
  <2>. QED
    BY <2>1, <2>2
<1>2. quote_cache[s] \in Int
  <2>1. quote_cache[s] \in Prices
    BY DEF IInv, TypeOK, DbTypeOK, Priced
  <2>2. \A v \in Prices : v \in Int
    BY PricesAssumption
  <2>. QED
    BY <2>1, <2>2
<1>. QED
  BY <1>1, <1>2

(* The same of the next state.                                             *)
LEMMA WorthTypeNext == (IInv /\ Priced => \A u \in Users, s \in Stocks : Worth(u, s) \in Int)'
BY WorthType, PTL

(* When the worth of one stock changes, so does what its owner has.        *)
LEMMA WorthChanges ==
    ASSUME IsFiniteSet(Stocks), IInv, IInv', Priced, Priced',
           NEW w \in Users, NEW y \in Stocks, NEW d \in Int,
           \A u \in Users, s \in Stocks : ~(u = w /\ s = y) => Worth(u, s)' = Worth(u, s),
           Worth(w, y)' = Worth(w, y) + d
    PROVE  \A u \in Users : /\ ValueOfShares(u) \in Int
                            /\ ValueOfShares(u)' = ValueOfShares(u) + (IF u = w THEN d ELSE 0)
<1>. SUFFICES ASSUME NEW u \in Users
              PROVE  /\ ValueOfShares(u) \in Int
                     /\ ValueOfShares(u)' = ValueOfShares(u) + (IF u = w THEN d ELSE 0)
  OBVIOUS
<1>1. PICK f : f = [s \in Stocks |-> Worth(u, s)]
  OBVIOUS
<1>2. PICK g : g = [s \in Stocks |-> Worth(u, s)']
  OBVIOUS
<1>3. f \in [Stocks -> Int] /\ g \in [Stocks -> Int]
  <2>1. \A s \in Stocks : Worth(u, s) \in Int
    BY WorthType
  <2>2. \A s \in Stocks : Worth(u, s)' \in Int
    BY WorthTypeNext
  <2>. QED
    BY <1>1, <1>2, <2>1, <2>2
<1>4. ValueOfShares(u) = SumFunction(f) /\ ValueOfShares(u)' = SumFunction(g)
  BY <1>1, <1>2 DEF ValueOfShares, Worth
<1>5. \A s \in Stocks \ {y} : g[s] = f[s]
  BY <1>1, <1>2
<1>6. g[y] = f[y] + (IF u = w THEN d ELSE 0)
  <2>1. CASE u = w
    BY <1>1, <1>2, <2>1
  <2>2. CASE u # w
    <3>1. g[y] = f[y] /\ f[y] \in Int
      BY <1>1, <1>2, <1>3, <2>2
    <3>. QED
      BY <2>2, <3>1
  <2>. QED
    BY <2>1, <2>2
<1>7. SumFunction(g) = SumFunction(f) + g[y] - f[y] /\ SumFunction(f) \in Int
  BY <1>3, <1>5, SumChanges, SumType
<1>8. f[y] \in Int
  BY <1>3
<1>. QED
  BY <1>4, <1>6, <1>7, <1>8

(* Its worth changes by the price of the shares that come or go.           *)
LEMMA WorthMoves ==
    ASSUME IInv, IInv', Priced, Priced', [Next]_vars,
           NEW w \in Users, NEW y \in Stocks, NEW da \in Int, NEW dv, Moved(w, y, da, dv),
           NEW q \in Int, q = quote_cache'[y]
    PROVE  /\ \A u \in Users, s \in Stocks : ~(u = w /\ s = y) => Worth(u, s)' = Worth(u, s)
           /\ Worth(w, y)' = Worth(w, y) + da * q
           /\ da * q \in Int
<1>0. OneEach /\ TypeOK
  BY DEF Priced, IInv
<1>1. /\ Owns(w, y)'
      /\ AtHand(w, y)'.amount = AtHand(w, y).amount + da
      /\ \A u \in Users, s \in Stocks : ~(u = w /\ s = y) =>
            AtHand(u, s)' = AtHand(u, s) /\ (Owns(u, s)' <=> Owns(u, s))
  BY <1>0, HandMoved
<1>2. ASSUME NEW u \in Users, NEW s \in Stocks, ~(u = w /\ s = y)
      PROVE  Worth(u, s)' = Worth(u, s)
  <2>1. CASE ~Owns(u, s)
    BY <1>1, <1>2, <2>1 DEF Worth
  <2>2. CASE Owns(u, s)
    <3>1. quote_cache'[s] = quote_cache[s]
      BY <1>0, <2>2, CacheKept DEF Priced
    <3>2. AtHand(u, s)' = AtHand(u, s) /\ Owns(u, s)'
      BY <1>1, <1>2, <2>2
    <3>. QED
      BY <2>2, <3>1, <3>2 DEF Worth, AtHand
  <2>. QED
    BY <2>1, <2>2
<1>3. Worth(w, y)' = AtHand(w, y)'.amount * q
  BY <1>1 DEF Worth, AtHand
<1>4. PICK a \in Int : a = AtHand(w, y).amount
  BY <1>0, HandType DEF TypeOK
<1>5. Worth(w, y) = a * q
  <2>1. CASE Owns(w, y)
    <3>1. quote_cache[y] = q
      BY <1>0, <2>1, CacheKept DEF Priced
    <3>. QED
      BY <1>4, <2>1, <3>1 DEF Worth, AtHand
  <2>2. CASE ~Owns(w, y)
    <3>1. a = 0 /\ 0 * q = 0
      BY <1>4, <2>2 DEF AtHand
    <3>. QED
      BY <2>2, <3>1 DEF Worth
  <2>. QED
    BY <2>1, <2>2
<1>6. (a + da) * q = a * q + da * q /\ da * q \in Int
  OBVIOUS
<1>. QED
  BY <1>1, <1>2, <1>3, <1>4, <1>5, <1>6

(* Steps that change neither.                                              *)
LEMMA WorthKept ==
    ASSUME IInv, IInv', Priced, Priced', [Next]_vars,
           \A u \in Users, s \in Stocks :
               AtHand(u, s)'.amount = AtHand(u, s).amount /\ (Owns(u, s)' <=> Owns(u, s))
    PROVE  \A u \in Users : ValueOfShares(u)' = ValueOfShares(u)
<1>1. ASSUME NEW u \in Users, NEW s \in Stocks
      PROVE  Worth(u, s)' = Worth(u, s)
  <2>1. CASE ~Owns(u, s)
    BY <2>1 DEF Worth
  <2>2. CASE Owns(u, s)
    <3>1. quote_cache'[s] = quote_cache[s]
      BY <2>2, CacheKept DEF Priced, IInv
    <3>. QED
      BY <2>2, <3>1 DEF Worth, AtHand
  <2>. QED
    BY <2>1, <2>2
<1>2. ASSUME NEW u \in Users
      PROVE  ValueOfShares(u)' = ValueOfShares(u)
  <2>1. [s \in Stocks |-> Worth(u, s)]' = [s \in Stocks |-> Worth(u, s)]
    BY <1>1
  <2>2. /\ ValueOfShares(u)' = SumFunction([s \in Stocks |-> Worth(u, s)]')
        /\ ValueOfShares(u) = SumFunction([s \in Stocks |-> Worth(u, s)])
    BY DEF ValueOfShares, Worth
  <2>. QED
    BY <2>1, <2>2
<1>. QED
  BY <1>2

Wealthy ==
    /\ Priced
    /\ \A u \in Users : account[u] = available[u] /\ account[u] + ValueOfShares(u) = MaxFunds

(* Steps that change neither money nor shares.                             *)
LEMMA SameWealth ==
    ASSUME IInv, IInv', Wealthy, Priced', [Next]_vars, UNCHANGED <<account, available>>,
           \A u \in Users, s \in Stocks :
               AtHand(u, s)'.amount = AtHand(u, s).amount /\ (Owns(u, s)' <=> Owns(u, s))
    PROVE  Wealthy'
BY WorthKept DEF Wealthy

(* A sum moves from the account into shares, or back.                      *)
LEMMA WealthMoves ==
    ASSUME IsFiniteSet(Stocks), IInv, IInv', Wealthy, Priced', [Next]_vars,
           NEW w \in Users, NEW y \in Stocks, NEW da \in Int, NEW dv, Moved(w, y, da, dv),
           NEW q \in Int, q = quote_cache'[y],
           account' = [account EXCEPT ![w] = @ - da * q],
           available' = [available EXCEPT ![w] = @ - da * q]
    PROVE  Wealthy'
<1>1. PICK d \in Int : d = da * q
  OBVIOUS
<1>2. \A u \in Users : /\ ValueOfShares(u) \in Int
                       /\ ValueOfShares(u)' = ValueOfShares(u) + (IF u = w THEN d ELSE 0)
  <2>1. /\ \A u \in Users, s \in Stocks : ~(u = w /\ s = y) => Worth(u, s)' = Worth(u, s)
        /\ Worth(w, y)' = Worth(w, y) + d
    BY <1>1, WorthMoves DEF Wealthy
  <2>. QED
    BY <2>1, WorthChanges DEF Wealthy
<1>3. /\ account \in [Users -> Int] /\ available \in [Users -> Int]
      /\ account' = [account EXCEPT ![w] = @ - d]
      /\ available' = [available EXCEPT ![w] = @ - d]
  BY <1>1 DEF IInv, TypeOK, DbTypeOK
<1>4. ASSUME NEW u \in Users
      PROVE  account'[u] = available'[u] /\ account'[u] + ValueOfShares(u)' = MaxFunds
  <2>1. PICK a \in Int, v \in Int : a = account[u] /\ v = ValueOfShares(u)
    BY <1>2, <1>3
  <2>2. a = available[u] /\ a + v = MaxFunds
    BY <2>1 DEF Wealthy
  <2>3. CASE u = w
    <3>1. account'[u] = a - d /\ available'[u] = a - d /\ ValueOfShares(u)' = v + d
      BY <1>2, <1>3, <2>1, <2>2, <2>3
    <3>. QED
      BY <2>2, <3>1
  <2>4. CASE u # w
    <3>1. account'[u] = a /\ available'[u] = a
      BY <1>3, <2>1, <2>2, <2>4
    <3>2. ValueOfShares(u)' = v + 0
      BY <1>2, <2>1, <2>4
    <3>. QED
      BY <2>1, <2>2, <3>1, <3>2
  <2>. QED
    BY <2>3, <2>4
<1>. QED
  BY <1>4 DEF Wealthy

(* Every step keeps what the users own.                                    *)
LEMMA WealthStep ==
    IsFiniteSet(Stocks) /\ IInv /\ IInv' /\ Wealthy /\ [Next]_vars => Wealthy'
<1>. SUFFICES ASSUME IsFiniteSet(Stocks), IInv, IInv', Wealthy, [Next]_vars PROVE Wealthy'
  OBVIOUS
<1>0. /\ Priced /\ Priced' /\ OneEach /\ Main \in Threads
      /\ \A v \in Prices : v \in Int
      /\ \A u \in Users, s \in Stocks : AtHand(u, s).amount \in Int
  <2>1. Priced /\ OneEach /\ Main \in Threads
    BY DEF Wealthy, Priced, Threads
  <2>2. Priced'
    BY <2>1, PricedStep
  <2>3. \A v \in Prices : v \in Int
    BY PricesAssumption
  <2>. QED
    BY <2>1, <2>2, <2>3, HandType DEF IInv, TypeOK
<1>1. ASSUME UNCHANGED <<stocks, account, available>>
      PROVE  Wealthy'
  <2>1. \A u \in Users, s \in Stocks :
            AtHand(u, s)'.amount = AtHand(u, s).amount /\ (Owns(u, s)' <=> Owns(u, s))
    BY <1>1 DEF AtHand, Owns
  <2>. QED
    BY <1>0, <1>1, <2>1, SameWealth
<1>2. ASSUME NEW w \in Users, NEW y \in Stocks, NEW dv, Moved(w, y, 0, dv), Owns(w, y),
             UNCHANGED <<account, available>>
      PROVE  Wealthy'
  <2>1. ASSUME NEW u \in Users, NEW s \in Stocks
        PROVE  AtHand(u, s)'.amount = AtHand(u, s).amount /\ (Owns(u, s)' <=> Owns(u, s))
    <3>1. CASE u = w /\ s = y
      <4>1. PICK a \in Int : a = AtHand(w, y).amount
        BY <1>0
      <4>2. Owns(w, y)' /\ AtHand(w, y)'.amount = a + 0
        BY <1>0, <1>2, <4>1, HandMoved
      <4>. QED
        BY <1>2, <3>1, <4>1, <4>2
    <3>2. CASE ~(u = w /\ s = y)
      BY <1>0, <1>2, <3>2, HandMoved
    <3>. QED
      BY <3>1, <3>2
  <2>. QED
    BY <1>0, <1>2, <2>1, SameWealth
<1>3. ASSUME NEW u \in Users, NEW s \in Stocks, NEW n \in Lots, NEW v \in Prices,
             Bought(u, s, n, v)
      PROVE  Wealthy'
  <2>1. n \in Int /\ v \in Int
    BY <1>0, AmountsAssumption
  <2>2. quote_cache'[s] = v
    BY <1>3 DEF Bought, CacheQuote, IInv, TypeOK, DbTypeOK
  <2>3. Moved(u, s, n, n)
    BY <1>0, <1>3, BoughtMoves
  <2>4. /\ account' = [account EXCEPT ![u] = @ - n * v]
        /\ available' = [available EXCEPT ![u] = @ - n * v]
    BY <1>3 DEF Bought
  <2>. QED
    BY <1>0, <2>1, <2>2, <2>3, <2>4, WealthMoves
<1>4. CASE SellPull
  <2>1. PICK w \in Users, y \in Stocks :
            /\ w = frame[Main].user /\ y = frame[Main].sell.stock
            /\ ~Owns(w, y)'
            /\ \A u \in Users, s \in Stocks : ~(u = w /\ s = y)
                  => AtHand(u, s)' = AtHand(u, s) /\ (Owns(u, s)' <=> Owns(u, s))
    BY <1>0, <1>4, PullMoves
  <2>2. Worth(w, y)' = 0
    BY <2>1 DEF Worth
  <2>3. Worth(w, y) = 0
    <3>1. AtHand(w, y).amount = 0
      BY <1>0, <1>4, <2>1 DEF SellPull, Priced
    <3>2. CASE Owns(w, y)
      <4>1. quote_cache[y] \in Int
        BY <1>0, <3>2 DEF Priced, IInv, TypeOK, DbTypeOK
      <4>2. Worth(w, y) = 0 * quote_cache[y]
        BY <3>1, <3>2 DEF Worth, AtHand
      <4>. QED
        BY <4>1, <4>2
    <3>3. CASE ~Owns(w, y)
      BY <3>3 DEF Worth
    <3>. QED
      BY <3>2, <3>3
  <2>4. ASSUME NEW u \in Users, NEW s \in Stocks, ~(u = w /\ s = y)
        PROVE  Worth(u, s)' = Worth(u, s)
    <3>1. CASE ~Owns(u, s)
      BY <2>1, <2>4, <3>1 DEF Worth
    <3>2. CASE Owns(u, s)
      <4>1. quote_cache'[s] = quote_cache[s]
        BY <1>0, <3>2, CacheKept DEF Priced, IInv
      <4>2. AtHand(u, s)' = AtHand(u, s) /\ Owns(u, s)'
        BY <2>1, <2>4, <3>2
      <4>. QED
        BY <3>2, <4>1, <4>2 DEF Worth, AtHand
    <3>. QED
      BY <3>1, <3>2
  <2>5. \A u \in Users : /\ ValueOfShares(u) \in Int
                         /\ ValueOfShares(u)' = ValueOfShares(u) + (IF u = w THEN 0 ELSE 0)
    <3>1. Worth(w, y)' = Worth(w, y) + 0
      BY <2>2, <2>3
    <3>. QED
      BY <1>0, <2>4, <3>1, WorthChanges
  <2>6. UNCHANGED <<account, available>>
    BY <1>4 DEF SellPull
  <2>7. \A u \in Users : ValueOfShares(u)' = ValueOfShares(u)
    BY <2>5
  <2>. QED
    BY <1>0, <2>6, <2>7 DEF Wealthy
<1>5. CASE SellReserve /\ Owns(frame[Main].user, frame[Main].sell.stock)
  <2>1. frame[Main].user \in Users /\ frame[Main].sell.stock \in Stocks
    BY <1>0, <1>5 DEF IInv, SellReserve, FrameOK, Sell
  <2>2. UNCHANGED <<account, available>>
    BY <1>5 DEF SellReserve
  <2>3. PICK dv : dv = -frame[Main].sell.num_stocks
    OBVIOUS
  <2>4. Moved(frame[Main].user, frame[Main].sell.stock, 0, dv)
    BY <1>0, <1>5, <2>3, ReserveMoves
  <2>. QED
    BY <1>2, <1>5, <2>1, <2>2, <2>4
<1>6. CASE CommitSettle /\ Owns(frame[Main].user, frame[Main].sell.stock)
  <2>1. PICK x : x = frame[Main].sell
    OBVIOUS
  <2>2. PICK w \in Users : w = frame[Main].user
    BY <1>0, <1>6 DEF IInv, CommitSettle, FrameOK
  <2>3. /\ x \in Sell /\ x.stock \in Stocks /\ x.num_stocks \in Nat /\ x.quote \in Prices
    BY <1>0, <1>6, <2>1 DEF IInv, CommitSettle, FrameOK, Sell
  <2>4. PICK y \in Stocks, n \in Nat, q \in Int : y = x.stock /\ n = x.num_stocks /\ q = x.quote
    BY <1>0, <2>3
  <2>5. quote_cache[y] = q /\ quote_cache'[y] = q
    <3>1. quote_cache[y] = q
      <4>1. x # None
        BY <2>3, NoneIsNoSell
      <4>. QED
        BY <1>0, <2>1, <2>4, <4>1 DEF Priced, AtPrice
    <3>2. UNCHANGED quote_cache
      BY <1>6 DEF CommitSettle
    <3>. QED
      BY <3>1, <3>2
  <2>6. Moved(w, y, -n, 0)
    BY <1>0, <1>6, <2>1, <2>2, <2>4, SettleMoves
  <2>7. /\ account' = [account EXCEPT ![w] = @ + n * q]
        /\ available' = [available EXCEPT ![w] = @ + n * q]
    BY <1>6, <2>1, <2>2, <2>4 DEF CommitSettle, Profit
  <2>8. PICK p \in Int : p = n * q /\ -p = (-n) * q
    OBVIOUS
  <2>9. /\ account' = [account EXCEPT ![w] = @ - (-n) * q]
        /\ available' = [available EXCEPT ![w] = @ - (-n) * q]
    <3>1. account \in [Users -> Int] /\ available \in [Users -> Int]
      BY DEF IInv, TypeOK, DbTypeOK
    <3>2. account[w] + p = account[w] - (-p) /\ available[w] + p = available[w] - (-p)
      BY <3>1
    <3>. QED
      BY <2>7, <2>8, <3>2
  <2>10. -n \in Int
    OBVIOUS
  <2>. QED
    BY <1>0, <2>5, <2>6, <2>9, <2>10, WealthMoves
<1>7. ASSUME NEW t \in Threads, CancelRelease(t), Owns(frame[t].user, frame[t].sell.stock)
      PROVE  Wealthy'
  <2>1. frame[t].user \in Users /\ frame[t].sell.stock \in Stocks
    BY <1>7 DEF IInv, CancelRelease, FrameOK, Sell
  <2>2. UNCHANGED <<account, available>>
    BY <1>7 DEF CancelRelease
  <2>3. PICK dv : dv = frame[t].sell.num_stocks
    OBVIOUS
  <2>4. Moved(frame[t].user, frame[t].sell.stock, 0, dv)
    BY <1>0, <1>7, <2>3, ReleaseMoves
  <2>. QED
    BY <1>2, <1>7, <2>1, <2>2, <2>4
<1>8. ASSUME ~SellPull,
             ~\E u \in Users, s \in Stocks, n \in Lots, v \in Prices : Bought(u, s, n, v),
             ~(SellReserve /\ Owns(frame[Main].user, frame[Main].sell.stock)),
             ~(CommitSettle /\ Owns(frame[Main].user, frame[Main].sell.stock)),
             ~\E t \in Threads : CancelRelease(t) /\ Owns(frame[t].user, frame[t].sell.stock)
      PROVE  UNCHANGED <<stocks, account, available>>
  <2>1. UNCHANGED stocks
    BY <1>8, StocksKept
  <2>2. SellStep \/ CommitSettle \/ Restart \/ UNCHANGED vars => UNCHANGED <<account, available>>
    <3>1. CommitSettle => UNCHANGED <<account, available>>
      BY <1>8 DEF CommitSettle
    <3>. QED
      BY <3>1 DEF SellStep, SellPull, SellRecord, SellReserve, SellSwap, SellArm, Restart, vars
  <2>3. \A u \in Users, s \in Stocks, a \in Amounts, id \in SellIds, v \in Prices :
            SellCheck(u, s, a, id, v) => UNCHANGED <<account, available>>
    BY DEF SellCheck
  <2>4. /\ \A u \in Users : CommitTake(u) => UNCHANGED <<account, available>>
        /\ \A b \in SellIds : Fire(b) => UNCHANGED <<account, available>>
        /\ \A t \in Threads, u \in Users : CancelTimer(t, u) => UNCHANGED <<account, available>>
        /\ \A t \in Threads :
              CancelTake(t) \/ CancelRelease(t) \/ Raise(t) => UNCHANGED <<account, available>>
    BY DEF CommitTake, Fire, CancelTimer, CancelTake, CancelRelease, Raise
  <2>5. UNCHANGED <<account, available>>
    BY <1>8, <2>2, <2>3, <2>4 DEF Next, CancelStep
  <2>. QED
    BY <2>1, <2>5
<1>. QED
  BY <1>1, <1>3, <1>4, <1>5, <1>6, <1>7, <1>8

(***************************************************************************)
(* A user's money and the value of their shares always add up to the funds *)
(* they started with: no COMMIT_SELL pays for shares that are kept, or     *)
(* takes shares that are not paid for, and a SELL removes no element with  *)
(* shares, however commands, timers, exceptions and restarts meet.         *)
(***************************************************************************)
THEOREM WealthIsKept ==
    ASSUME IsFiniteSet(Stocks)
    PROVE  Spec => []WealthKept
<1>1. Init => Wealthy
  <2>. SUFFICES ASSUME Init PROVE Wealthy
    OBVIOUS
  <2>1. ASSUME NEW u \in Users
        PROVE  account[u] = available[u] /\ account[u] + ValueOfShares(u) = MaxFunds
    <3>1. \A s \in Stocks : Worth(u, s) = 0
      BY DEF Init, Owns, Worth
    <3>2. SumFunction([s \in Stocks |-> Worth(u, s)]) = 0
      BY <3>1, SumOfZeros
    <3>3. ValueOfShares(u) = 0
      BY <3>2 DEF ValueOfShares, Worth
    <3>. QED
      BY <3>3, FundsAssumption DEF Init
  <2>. QED
    BY <2>1, PricedInit DEF Wealthy
<1>2. IInv /\ IInv' /\ Wealthy /\ [Next]_vars => Wealthy'
  BY WealthStep
<1>3. Wealthy => WealthKept
  BY DEF Wealthy, WealthKept
<1>. QED
  BY InvHolds, <1>1, <1>2, <1>3, PTL DEF Spec

-----------------------------------------------------------------------------
(***************************************************************************)
(* Without faults, the shares that pending sells withhold are there.  A    *)
(* sell that was recorded has set its shares aside, if it has any, unless  *)
(* its SELL is just about to; and the shares that the SELL has counted are *)
(* available until it sets them aside, since other threads only release.   *)
(***************************************************************************)
FateOK ==
    \A x \in SellIds :
        IF fate[x].state = "new" THEN fate[x] = NoFate
        ELSE fate[x].user \in Users /\ fate[x].sell \in Sell

Reserving(x) == pc[Main] = "sell_reserve" /\ frame[Main].sell.id = x

SetAsideFirst ==
    \A x \in SellIds : fate[x].state # "new" /\ fate[x].sell.num_stocks > 0
                       => fate[x].set_aside \/ Reserving(x)

Enough ==
    /\ pc[Main] \in {"sell_record", "sell_reserve"} =>
          frame[Main].sell.num_stocks <=
              AtHand(frame[Main].user, frame[Main].sell.stock).available
    /\ pc[Main] = "sell_pull" /\ frame[Main].found => frame[Main].sell.num_stocks = 0

Recording ==
    pc[Main] = "sell_reserve" =>
        LET f == fate[frame[Main].sell.id]
        IN  /\ f.state # "new" /\ ~f.set_aside
            /\ f.user = frame[Main].user /\ f.sell = frame[Main].sell

NotNegative ==
    \A u \in Users, s \in Stocks : AtHand(u, s).amount >= 0 /\ AtHand(u, s).available >= 0

Backed ==
    /\ Priced
    /\ FateOK
    /\ SetAsideFirst
    /\ Enough
    /\ Recording
    /\ NotNegative
    /\ SharesBalanced

(* A sell withholds a number of shares.                                    *)
LEMMA WithheldType ==
    FateOK => \A x \in SellIds, u \in Users, s \in Stocks : Withheld(fate[x], u, s) \in Int
<1>. SUFFICES ASSUME FateOK, NEW x \in SellIds, NEW u \in Users, NEW s \in Stocks,
                     fate[x].user = u
              PROVE  fate[x].sell.num_stocks \in Int
  BY DEF Withheld
<1>1. fate[x].sell \in Sell
  BY NoneAssumption DEF FateOK, NoFate
<1>2. fate[x].sell.num_stocks \in Nat
  BY <1>1 DEF Sell
<1>. QED
  BY <1>2

(* The same of the next state.                                             *)
LEMMA WithheldTypeNext ==
    (FateOK => \A x \in SellIds, u \in Users, s \in Stocks : Withheld(fate[x], u, s) \in Int)'
BY WithheldType, PTL

(* What the sells of a stock withhold is all there, and so is what one of  *)
(* them does, but while a SELL of it may be overtaken.                     *)
LEMMA AllWithheldIsThere ==
    ASSUME IsFiniteSet(SellIds), IInv, Backed, NEW u \in Users, NEW s \in Stocks,
           pc[Main] # "sell_reserve" \/ ~Owns(u, s)
    PROVE  /\ AtHand(u, s).available <= AtHand(u, s).amount
           /\ \A x \in SellIds :
                 Withheld(fate[x], u, s) <= AtHand(u, s).amount - AtHand(u, s).available
<1>0. FateOK /\ \A x \in SellIds : Withheld(fate[x], u, s) \in Int
  BY WithheldType DEF Backed
<1>1. ASSUME NEW x \in SellIds
      PROVE  0 <= Withheld(fate[x], u, s)
  <2>. SUFFICES ASSUME fate[x].user = u, fate[x].sell.stock = s
                PROVE  0 <= Withheld(fate[x], u, s)
    BY DEF Withheld
  <2>1. fate[x].state # "new" /\ fate[x].sell \in Sell
    BY <1>0, NoneAssumption DEF FateOK, NoFate
  <2>2. PICK n \in Nat : n = fate[x].sell.num_stocks
    BY <2>1 DEF Sell
  <2>3. n = 0 \/ fate[x].set_aside
    <3>1. ASSUME Reserving(x), ~fate[x].set_aside PROVE n = 0
      <4>1. fate[x].user = frame[Main].user /\ fate[x].sell = frame[Main].sell
        BY <3>1 DEF Reserving, Backed, Recording
      <4>2. n <= AtHand(u, s).available
        BY <2>2, <3>1, <4>1 DEF Reserving, Backed, Enough
      <4>3. AtHand(u, s).available = 0
        BY <3>1 DEF Reserving, AtHand
      <4>. QED
        BY <4>2, <4>3
    <3>2. n > 0 => fate[x].set_aside \/ Reserving(x)
      BY <2>1, <2>2 DEF Backed, SetAsideFirst
    <3>. QED
      BY <3>1, <3>2
  <2>4. Withheld(fate[x], u, s) = (IF fate[x].set_aside THEN n ELSE 0)
                                  - (IF fate[x].state \in {"sold", "freed"} THEN n ELSE 0)
    BY <2>2 DEF Withheld
  <2>. QED
    BY <2>3, <2>4
<1>2. PICK f : f = [x \in SellIds |-> Withheld(fate[x], u, s)]
  OBVIOUS
<1>3. f \in [SellIds -> Int] /\ \A x \in SellIds : f[x] >= 0
  BY <1>0, <1>1, <1>2
<1>4. AtHand(u, s).amount - AtHand(u, s).available = SumFunction(f)
  BY <1>2 DEF Backed, SharesBalanced
<1>5. \A x \in SellIds : f[x] <= SumFunction(f)
  BY <1>3, SumAtLeast
<1>6. 0 <= SumFunction(f)
  <2>. DEFINE z == [x \in SellIds |-> 0]
  <2>1. z \in [SellIds -> Int] /\ (\A x \in SellIds : z[x] = 0) /\ \A x \in SellIds : z[x] <= f[x]
    BY <1>3
  <2>. HIDE DEF z
  <2>2. SumFunction(z) = 0
    BY <2>1, SumOfZeros
  <2>3. SumFunction(z) <= SumFunction(f)
    BY <1>3, <2>1, SumGrows
  <2>. QED
    BY <2>2, <2>3
<1>7. AtHand(u, s).amount \in Int /\ AtHand(u, s).available \in Int
  BY HandType DEF IInv, TypeOK, Backed, Priced
<1>. QED
  BY <1>2, <1>4, <1>5, <1>6, <1>7

(* What becomes of a sell in a step.                                       *)
LEMMA FateMoves ==
    ASSUME IInv, [Next]_vars, NEW x \in SellIds
    PROVE  \/ fate'[x] = fate[x]
           \/ /\ SellRecord /\ x = frame[Main].sell.id /\ fate[x].state = "new"
              /\ fate'[x] = [state |-> "pending", set_aside |-> FALSE,
                             user |-> frame[Main].user, sell |-> frame[Main].sell]
           \/ /\ SellReserve /\ Owns(frame[Main].user, frame[Main].sell.stock)
              /\ x = frame[Main].sell.id
              /\ fate'[x] = [fate[x] EXCEPT !.set_aside = TRUE]
           \/ /\ CommitSettle /\ Owns(frame[Main].user, frame[Main].sell.stock)
              /\ x = frame[Main].sell.id /\ fate[x].state = "pending"
              /\ fate'[x] = [fate[x] EXCEPT !.state = "sold"]
           \/ \E t \in Threads :
                 /\ CancelRelease(t) /\ Owns(frame[t].user, frame[t].sell.stock)
                 /\ x = frame[t].sell.id /\ fate[x].state = "pending"
                 /\ fate'[x] = [fate[x] EXCEPT !.state = "freed"]
<1>0. fate \in [SellIds -> Fate] /\ Main \in Threads
  BY DEF IInv, TypeOK, Threads
<1>1. CASE SellRecord
  <2>1. fate[frame[Main].sell.id].state = "new"
    BY <1>1 DEF SellRecord, IInv, Fresh
  <2>2. fate' = [fate EXCEPT ![frame[Main].sell.id] =
                    [state |-> "pending", set_aside |-> FALSE,
                     user |-> frame[Main].user, sell |-> frame[Main].sell]]
    BY <1>1 DEF SellRecord
  <2>. QED
    BY <1>0, <1>1, <2>1, <2>2
<1>2. CASE SellReserve
  <2>1. \/ UNCHANGED fate
        \/ /\ Owns(frame[Main].user, frame[Main].sell.stock)
           /\ fate' = [fate EXCEPT ![frame[Main].sell.id].set_aside = TRUE]
    BY <1>2 DEF SellReserve
  <2>. QED
    BY <1>0, <1>2, <2>1
<1>3. CASE CommitSettle
  <2>1. fate[frame[Main].sell.id].state = "pending"
    BY <1>0, <1>3, CarriedState DEF CommitSettle, Carries, OwnerMatches
  <2>2. \/ UNCHANGED fate
        \/ /\ Owns(frame[Main].user, frame[Main].sell.stock)
           /\ fate' = [fate EXCEPT ![frame[Main].sell.id].state = "sold"]
    BY <1>3 DEF CommitSettle
  <2>. QED
    BY <1>0, <1>3, <2>1, <2>2
<1>4. ASSUME NEW t \in Threads, CancelRelease(t)
      PROVE  \/ fate'[x] = fate[x]
             \/ /\ Owns(frame[t].user, frame[t].sell.stock)
                /\ x = frame[t].sell.id /\ fate[x].state = "pending"
                /\ fate'[x] = [fate[x] EXCEPT !.state = "freed"]
  <2>1. fate[frame[t].sell.id].state = "pending"
    BY <1>4, CarriedState DEF CancelRelease, Carries, OwnerMatches
  <2>2. \/ UNCHANGED fate
        \/ /\ Owns(frame[t].user, frame[t].sell.stock)
           /\ fate' = [fate EXCEPT ![frame[t].sell.id].state = "freed"]
    BY <1>4 DEF CancelRelease
  <2>. QED
    BY <1>0, <2>1, <2>2
<1>5. SellPull \/ SellSwap \/ SellArm \/ Restart \/ UNCHANGED vars => UNCHANGED fate
  BY DEF SellPull, SellSwap, SellArm, Restart, vars
<1>6. \A u \in Users, s \in Stocks, a \in Amounts, id \in SellIds, v \in Prices :
          SellCheck(u, s, a, id, v) => UNCHANGED fate
  BY DEF SellCheck
<1>7. \A u \in Users, s \in Stocks, n \in Lots, v \in Prices : Bought(u, s, n, v) => UNCHANGED fate
  BY DEF Bought
<1>8. /\ \A u \in Users : CommitTake(u) => UNCHANGED fate
      /\ \A b \in SellIds : Fire(b) => UNCHANGED fate
      /\ \A t \in Threads, u \in Users : CancelTimer(t, u) => UNCHANGED fate
      /\ \A t \in Threads : CancelTake(t) \/ Raise(t) => UNCHANGED fate
  BY DEF CommitTake, Fire, CancelTimer, CancelTake, Raise
<1>9. UNCHANGED fate => fate'[x] = fate[x]
  OBVIOUS
<1>. HIDE <1>0
<1>. QED
  BY <1>1, <1>2, <1>3, <1>4, <1>5, <1>6, <1>7, <1>8, <1>9 DEF Next, SellStep, CancelStep

(* A sell that was recorded keeps its user and its shares.                 *)
LEMMA FateOKStep == IInv /\ FateOK /\ Recording /\ [Next]_vars => FateOK'
<1>. SUFFICES ASSUME IInv, FateOK, Recording, [Next]_vars, NEW x \in SellIds
              PROVE  IF fate'[x].state = "new" THEN fate'[x] = NoFate
                     ELSE fate'[x].user \in Users /\ fate'[x].sell \in Sell
  BY DEF FateOK
<1>0. fate \in [SellIds -> Fate] /\ Main \in Threads
  BY DEF IInv, TypeOK, Threads
<1>1. CASE SellRecord /\ fate'[x] = [state |-> "pending", set_aside |-> FALSE,
                                     user |-> frame[Main].user, sell |-> frame[Main].sell]
  <2>1. frame[Main].user \in Users /\ frame[Main].sell \in Sell
    BY <1>0, <1>1 DEF SellRecord, IInv, FrameOK
  <2>. QED
    BY <1>1, <2>1
<1>2. CASE SellReserve /\ x = frame[Main].sell.id /\ fate'[x] = [fate[x] EXCEPT !.set_aside = TRUE]
  <2>1. fate[x].state # "new"
    BY <1>2 DEF SellReserve, Recording
  <2>2. /\ fate'[x].state = fate[x].state /\ fate'[x].user = fate[x].user
        /\ fate'[x].sell = fate[x].sell
    BY <1>0, <1>2 DEF Fate
  <2>. QED
    BY <2>1, <2>2 DEF FateOK
<1>3. ASSUME NEW w \in {"sold", "freed"}, fate[x].state = "pending",
             fate'[x] = [fate[x] EXCEPT !.state = w]
      PROVE  fate'[x].state # "new" /\ fate'[x].user \in Users /\ fate'[x].sell \in Sell
  <2>1. /\ fate'[x].state = w /\ fate'[x].user = fate[x].user
        /\ fate'[x].sell = fate[x].sell
    BY <1>0, <1>3 DEF Fate
  <2>. QED
    BY <1>3, <2>1 DEF FateOK
<1>4. CASE fate'[x] = fate[x]
  BY <1>4 DEF FateOK
<1>. QED
  BY <1>1, <1>2, <1>3, <1>4, FateMoves

(* Without faults a SELL does not stop before it has set its shares aside. *)
LEMMA SellWaits ==
    ASSUME ~CanRaise, ~CanRestart, IInv, [Next]_vars, pc[Main] = "sell_reserve", ~SellReserve
    PROVE  /\ pc'[Main] = "sell_reserve" /\ frame'[Main] = frame[Main]
           /\ ~SellRecord /\ ~SellPull /\ ~CommitSettle
           /\ ~\E u \in Users, s \in Stocks, n \in Lots, v \in Prices : Bought(u, s, n, v)
<1>0. /\ pc \in [Threads -> MainPC \cup TimerPC] /\ frame \in [Threads -> Frame]
      /\ Main \in Threads /\ SellIds \subseteq Threads /\ Main \notin SellIds
      /\ uncommitted_sell_timers \in [Users -> SellIds \cup {None}]
  BY DEF IInv, TypeOK, Threads
<1>1. /\ ~SellStep /\ ~CommitSettle
      /\ \A u \in Users : ~CommitTake(u)
      /\ \A u \in Users, s \in Stocks, n \in Lots, v \in Prices : ~Bought(u, s, n, v)
      /\ \A u \in Users, s \in Stocks, a \in Amounts, id \in SellIds, v \in Prices :
            ~SellCheck(u, s, a, id, v)
  BY DEF SellStep, SellPull, SellRecord, SellSwap, SellArm, CommitSettle, CommitTake, Bought,
         SellCheck
<1>2. ASSUME NEW b \in SellIds, Fire(b)
      PROVE  pc'[Main] = pc[Main] /\ frame'[Main] = frame[Main]
  BY <1>0, <1>2 DEF Fire, Goto
<1>3. ASSUME NEW t \in Threads, NEW u \in Users, CancelTimer(t, u)
      PROVE  pc'[Main] = pc[Main] /\ frame'[Main] = frame[Main]
  <2>1. \A b : DOMAIN Cancelled(pc, b) = Threads /\ Cancelled(pc, b)[Main] = pc[Main]
    BY <1>0 DEF Cancelled
  <2>2. t # Main
    BY <1>3 DEF CancelTimer
  <2>. QED
    BY <1>0, <1>3, <2>1, <2>2 DEF CancelTimer
<1>4. ASSUME NEW t \in Threads, CancelStep(t) \/ Raise(t)
      PROVE  pc'[Main] = pc[Main] /\ frame'[Main] = frame[Main]
  <2>1. ~Raise(t)
    BY DEF Raise
  <2>2. \/ End(t)
        \/ Goto(t, "cancel_release") /\ frame' = [frame EXCEPT ![t].sell =
                                                    uncommitted_sells[frame[t].user]]
    BY <1>4, <2>1 DEF CancelStep, CancelTake, CancelRelease
  <2>3. t # Main
    BY <1>4, <2>1 DEF CancelStep, CancelTake, CancelRelease
  <2>. QED
    BY <1>0, <2>2, <2>3 DEF End, Goto
<1>5. UNCHANGED vars => pc'[Main] = pc[Main] /\ frame'[Main] = frame[Main]
  BY DEF vars
<1>6. ~Restart
  BY DEF Restart
<1>7. pc'[Main] = pc[Main] /\ frame'[Main] = frame[Main]
  BY <1>1, <1>2, <1>3, <1>4, <1>5, <1>6 DEF Next
<1>. QED
  BY <1>1, <1>7 DEF SellStep

(* What a SELL is about to set aside is in the record of its sell.         *)
LEMMA RecordingStep == IInv /\ Recording /\ [Next]_vars => Recording'
<1>. SUFFICES ASSUME IInv, Recording, [Next]_vars, pc'[Main] = "sell_reserve"
              PROVE  /\ fate'[frame'[Main].sell.id].state # "new"
                     /\ ~fate'[frame'[Main].sell.id].set_aside
                     /\ fate'[frame'[Main].sell.id].user = frame'[Main].user
                     /\ fate'[frame'[Main].sell.id].sell = frame'[Main].sell
  BY DEF Recording
<1>0. /\ pc \in [Threads -> MainPC \cup TimerPC] /\ frame \in [Threads -> Frame]
      /\ fate \in [SellIds -> Fate] /\ Main \in Threads
  BY DEF IInv, TypeOK, Threads
<1>1. ASSUME NEW u \in Users, NEW s \in Stocks, NEW a \in Amounts, NEW id \in SellIds,
             NEW v \in Prices, SellCheck(u, s, a, id, v), pc[Main] = "idle"
      PROVE  FALSE
  <2>1. pc' = pc \/ pc'[Main] \in {"sell_pull", "sell_record"}
    BY <1>0, <1>1 DEF SellCheck, Goto
  <2>. QED
    BY <1>1, <2>1
<1>2. CASE SellRecord /\ frame'[Main] = frame[Main]
  <2>1. frame[Main].sell.id \in SellIds
    BY <1>0, <1>2 DEF SellRecord, IInv, FrameOK, Sell
  <2>2. fate' = [fate EXCEPT ![frame[Main].sell.id] =
                    [state |-> "pending", set_aside |-> FALSE,
                     user |-> frame[Main].user, sell |-> frame[Main].sell]]
    BY <1>2 DEF SellRecord
  <2>3. fate'[frame[Main].sell.id] = [state |-> "pending", set_aside |-> FALSE,
                                      user |-> frame[Main].user, sell |-> frame[Main].sell]
    BY <1>0, <2>1, <2>2
  <2>. QED
    BY <1>2, <2>3
<1>3. CASE /\ pc'[Main] = pc[Main] /\ frame'[Main] = frame[Main]
           /\ ~SellReserve /\ ~SellPull /\ ~SellRecord
  <2>1. PICK x \in SellIds : x = frame[Main].sell.id
    BY <1>0, <1>3 DEF IInv, FrameOK, Sell
  <2>2. /\ fate[x].state # "new" /\ ~fate[x].set_aside
        /\ fate[x].user = frame[Main].user /\ fate[x].sell = frame[Main].sell
    BY <1>3, <2>1 DEF Recording
  <2>3. \/ fate'[x] = fate[x]
        \/ fate'[x] = [fate[x] EXCEPT !.state = "sold"]
        \/ fate'[x] = [fate[x] EXCEPT !.state = "freed"]
    BY <1>3, FateMoves
  <2>4. /\ fate'[x].state # "new" /\ fate'[x].set_aside = fate[x].set_aside
        /\ fate'[x].user = fate[x].user /\ fate'[x].sell = fate[x].sell
    BY <1>0, <2>2, <2>3 DEF Fate
  <2>. QED
    BY <1>3, <2>1, <2>2, <2>4
<1>. QED
  BY <1>1, <1>2, <1>3, SellGoesOn DEF Selling

(* A SELL goes on only with shares that are available.                     *)
LEMMA EnoughStep ==
    ASSUME IsFiniteSet(SellIds), IInv, IInv', Backed, [Next]_vars
    PROVE  Enough'
<1>0. /\ pc \in [Threads -> MainPC \cup TimerPC] /\ frame \in [Threads -> Frame]
      /\ Main \in Threads /\ Priced /\ OneEach /\ Enough
      /\ \A u \in Users, s \in Stocks :
            AtHand(u, s).amount \in Int /\ AtHand(u, s).available \in Int
  BY HandType DEF IInv, TypeOK, Threads, Backed, Priced
<1>. SUFFICES ASSUME pc'[Main] \in Selling,
                     NEW u \in Users, NEW s \in Stocks, NEW n \in Nat,
                     u = frame'[Main].user, s = frame'[Main].sell.stock,
                     n = frame'[Main].sell.num_stocks
              PROVE  IF pc'[Main] = "sell_pull" THEN frame'[Main].found => n = 0
                     ELSE n <= AtHand(u, s)'.available
  <2>1. pc'[Main] \in Selling => frame'[Main].user \in Users /\ frame'[Main].sell \in Sell
    BY <1>0 DEF IInv, FrameOK, Selling
  <2>2. pc'[Main] \in Selling =>
            \E u \in Users, s \in Stocks, n \in Nat :
               u = frame'[Main].user /\ s = frame'[Main].sell.stock
               /\ n = frame'[Main].sell.num_stocks
    BY <2>1 DEF Sell
  <2>. QED
    BY <2>2 DEF Enough, Selling, AtHand, Owns
<1>1. ASSUME NEW w \in Users, NEW y \in Stocks, NEW a \in Amounts, NEW id \in SellIds,
             NEW v \in Prices, SellCheck(w, y, a, id, v), pc[Main] = "idle"
      PROVE  IF pc'[Main] = "sell_pull" THEN frame'[Main].found => n = 0
             ELSE n <= AtHand(u, s)'.available
  <2>. DEFINE x == [id |-> id, stock |-> y, num_stocks |-> a \div v, quote |-> v]
              f == EnoughShares(x, stocks[w][y][1])
  <2>1. /\ stocks' = stocks
        /\ pc' # pc => /\ Owns(w, y) /\ (stocks[w][y][1].amount = 0 \/ f)
                       /\ pc' = [pc EXCEPT ![Main] = IF stocks[w][y][1].amount = 0
                                                     THEN "sell_pull" ELSE "sell_record"]
                       /\ frame' = [frame EXCEPT ![Main] = [user |-> w, sell |-> x, found |-> f]]
    BY <1>1 DEF SellCheck, Goto
  <2>2. x.stock = y /\ (f <=> x.num_stocks <= stocks[w][y][1].available)
    BY DEF EnoughShares
  <2>. HIDE DEF x, f
  <2>3. /\ Owns(w, y) /\ u = w /\ s = y /\ frame'[Main].found = f /\ n = x.num_stocks
        /\ pc'[Main] = IF stocks[w][y][1].amount = 0 THEN "sell_pull" ELSE "sell_record"
        /\ stocks[w][y][1].amount = 0 \/ f
    BY <1>0, <1>1, <2>1, <2>2 DEF Selling
  <2>4. AtHand(u, s) = stocks[w][y][1] /\ AtHand(u, s)' = AtHand(u, s)
    BY <2>1, <2>3 DEF AtHand, Owns
  <2>5. AtHand(u, s).available <= AtHand(u, s).amount
    BY <1>1, AllWithheldIsThere
  <2>. QED
    BY <1>0, <2>2, <2>3, <2>4, <2>5
<1>2. CASE SellPull /\ pc'[Main] = "sell_record" /\ frame'[Main] = frame[Main]
  <2>1. frame[Main].found /\ pc[Main] = "sell_pull"
    BY <1>0, <1>2 DEF SellPull, Goto, End, EndPC
  <2>2. n = 0
    BY <1>0, <1>2, <2>1 DEF Enough
  <2>3. ~Owns(u, s)'
    BY <1>0, <1>2, PullMoves
  <2>4. AtHand(u, s)'.available = 0
    BY <2>3 DEF AtHand, Owns
  <2>. QED
    BY <1>2, <2>2, <2>4
<1>3. CASE SellRecord /\ pc'[Main] = "sell_reserve" /\ frame'[Main] = frame[Main]
  <2>1. UNCHANGED stocks /\ pc[Main] = "sell_record"
    BY <1>3 DEF SellRecord
  <2>2. AtHand(u, s)' = AtHand(u, s)
    BY <2>1 DEF AtHand, Owns
  <2>3. n <= AtHand(u, s).available
    BY <1>0, <1>3, <2>1 DEF Enough
  <2>. QED
    BY <1>3, <2>2, <2>3
<1>4. CASE /\ pc'[Main] = pc[Main] /\ frame'[Main] = frame[Main]
           /\ ~SellReserve /\ ~SellPull /\ ~SellRecord
  <2>1. AtHand(u, s)'.available >= AtHand(u, s).available /\ AtHand(u, s)'.available \in Int
    <3>1. OneEach'
      BY <1>0, OneEachStep
    <3>2. DbTypeOK' /\ DbTypeOK
      BY DEF IInv, TypeOK
    <3>3. AtHand(u, s)'.available \in Int
      BY <3>1, <3>2, HandTypeNext
    <3>. QED
      BY <1>0, <1>4, <3>3, WhileSelling
  <2>2. CASE pc[Main] = "sell_pull"
    BY <1>0, <1>4, <2>2 DEF Enough
  <2>3. CASE pc[Main] # "sell_pull"
    <3>1. n <= AtHand(u, s).available
      BY <1>0, <1>4, <2>3 DEF Enough, Selling
    <3>2. PICK a \in Int, b \in Int : a = AtHand(u, s).available /\ b = AtHand(u, s)'.available
      BY <1>0, <2>1
    <3>3. n <= b
      BY <2>1, <3>1, <3>2
    <3>. QED
      BY <1>4, <2>3, <3>2, <3>3
  <2>. QED
    BY <2>2, <2>3
<1>. QED
  BY <1>1, <1>2, <1>3, <1>4, SellGoesOn

(* A sell that is recorded has set its shares aside, or is about to.       *)
LEMMA SetAsideFirstStep ==
    ASSUME ~CanRaise, ~CanRestart, IInv, Backed, [Next]_vars
    PROVE  SetAsideFirst'
<1>. SUFFICES ASSUME NEW x \in SellIds, fate'[x].state # "new", fate'[x].sell.num_stocks > 0
              PROVE  \/ fate'[x].set_aside
                     \/ pc'[Main] = "sell_reserve" /\ frame'[Main].sell.id = x
  BY DEF SetAsideFirst, Reserving
<1>0. /\ pc \in [Threads -> MainPC \cup TimerPC] /\ fate \in [SellIds -> Fate]
      /\ Main \in Threads
  BY DEF IInv, TypeOK, Threads
<1>1. CASE SellReserve /\ Owns(frame[Main].user, frame[Main].sell.stock)
           /\ x = frame[Main].sell.id
           /\ fate'[x] = [fate[x] EXCEPT !.set_aside = TRUE]
  BY <1>0, <1>1 DEF Fate
<1>2. CASE SellRecord /\ x = frame[Main].sell.id
  BY <1>0, <1>2 DEF SellRecord, Goto
<1>3. ASSUME NEW w \in {"sold", "freed"},
             \/ fate'[x] = fate[x]
             \/ fate[x].state = "pending" /\ fate'[x] = [fate[x] EXCEPT !.state = w]
      PROVE  \/ fate'[x].set_aside
             \/ pc'[Main] = "sell_reserve" /\ frame'[Main].sell.id = x
  <2>1. /\ fate[x].state # "new" /\ fate'[x].set_aside = fate[x].set_aside
        /\ fate'[x].sell = fate[x].sell
    BY <1>0, <1>3 DEF Fate
  <2>2. fate[x].set_aside \/ Reserving(x)
    BY <2>1 DEF Backed, SetAsideFirst
  <2>3. CASE Reserving(x) /\ ~SellReserve
    BY <2>3, SellWaits DEF Reserving
  <2>4. CASE Reserving(x) /\ SellReserve
    <3>1. PICK n \in Nat : n = frame[Main].sell.num_stocks
      BY <1>0, <2>4 DEF Reserving, IInv, FrameOK, Sell
    <3>2. fate[x].sell = frame[Main].sell
      BY <2>4 DEF Reserving, Backed, Recording
    <3>3. n <= AtHand(frame[Main].user, frame[Main].sell.stock).available
      BY <2>4, <3>1 DEF Reserving, Backed, Enough
    <3>4. CASE Owns(frame[Main].user, frame[Main].sell.stock)
      <4>1. fate' = [fate EXCEPT ![x].set_aside = TRUE]
        BY <2>4, <3>4 DEF SellReserve, Reserving
      <4>. QED
        BY <1>0, <4>1 DEF Fate
    <3>5. CASE ~Owns(frame[Main].user, frame[Main].sell.stock)
      <4>1. AtHand(frame[Main].user, frame[Main].sell.stock).available = 0
        BY <3>5 DEF AtHand
      <4>. QED
        BY <2>1, <3>1, <3>2, <3>3, <4>1
    <3>. QED
      BY <3>4, <3>5
  <2>. QED
    BY <2>1, <2>2, <2>3, <2>4
<1>. QED
  BY <1>1, <1>2, <1>3, FateMoves

(* Each step moves only shares that are there.                             *)
LEMMA NotNegativeStep ==
    ASSUME IsFiniteSet(SellIds), IInv, Backed, [Next]_vars
    PROVE  NotNegative'
<1>. SUFFICES ASSUME NEW u \in Users, NEW s \in Stocks
              PROVE  AtHand(u, s)'.amount >= 0 /\ AtHand(u, s)'.available >= 0
  BY DEF NotNegative
<1>0. /\ Priced /\ OneEach /\ AtHand(u, s).amount \in Int /\ AtHand(u, s).available \in Int
      /\ AtHand(u, s).amount >= 0 /\ AtHand(u, s).available >= 0
      /\ FateOK /\ \A x \in SellIds : Withheld(fate[x], u, s) \in Int
      /\ Main \in Threads /\ fate \in [SellIds -> Fate]
  BY HandType, WithheldType DEF IInv, TypeOK, Threads, Backed, Priced, NotNegative
<1>1. ASSUME NEW w \in Users, NEW y \in Stocks, NEW da \in Int, NEW dv \in Int,
             Moved(w, y, da, dv),
             u = w /\ s = y => /\ AtHand(u, s).amount + da >= 0
                               /\ AtHand(u, s).available + dv >= 0
      PROVE  AtHand(u, s)'.amount >= 0 /\ AtHand(u, s)'.available >= 0
  <2>1. IF u = w /\ s = y
        THEN AtHand(u, s)' = [amount |-> AtHand(u, s).amount + da,
                              available |-> AtHand(u, s).available + dv]
        ELSE AtHand(u, s)' = AtHand(u, s)
    BY <1>0, <1>1, HandMoved
  <2>. QED
    BY <1>0, <1>1, <2>1
<1>2. CASE SellPull
  <2>1. ~Owns(u, s)' \/ AtHand(u, s)' = AtHand(u, s)
    BY <1>0, <1>2, PullMoves
  <2>2. ~Owns(u, s)' => AtHand(u, s)' = [amount |-> 0, available |-> 0]
    BY DEF AtHand, Owns
  <2>. QED
    BY <1>0, <2>1, <2>2
<1>3. ASSUME NEW w \in Users, NEW y \in Stocks, NEW n \in Lots, NEW v \in Prices,
             Bought(w, y, n, v)
      PROVE  AtHand(u, s)'.amount >= 0 /\ AtHand(u, s)'.available >= 0
  <2>1. n \in Nat
    BY AmountsAssumption
  <2>2. Moved(w, y, n, n)
    BY <1>0, <1>3, BoughtMoves
  <2>. QED
    BY <1>0, <1>1, <2>1, <2>2
<1>4. CASE SellReserve /\ Owns(frame[Main].user, frame[Main].sell.stock)
  <2>1. pc[Main] = "sell_reserve" /\ frame[Main].user \in Users /\ frame[Main].sell \in Sell
    BY <1>0, <1>4 DEF SellReserve, IInv, FrameOK
  <2>2. PICK w \in Users, y \in Stocks, n \in Nat :
            w = frame[Main].user /\ y = frame[Main].sell.stock /\ n = frame[Main].sell.num_stocks
    BY <2>1 DEF Sell
  <2>3. Moved(w, y, 0, -n)
    BY <1>0, <1>4, <2>2, ReserveMoves
  <2>4. n <= AtHand(w, y).available
    BY <2>1, <2>2 DEF Backed, Enough
  <2>. QED
    BY <1>0, <1>1, <2>2, <2>3, <2>4
<1>5. CASE CommitSettle /\ Owns(frame[Main].user, frame[Main].sell.stock)
  <2>1. /\ pc[Main] = "commit_settle" /\ frame[Main].user \in Users /\ frame[Main].sell \in Sell
        /\ OwnerMatches(frame[Main].user, frame[Main].sell)
    BY <1>0, <1>5, CarriedState DEF CommitSettle, Carries
  <2>2. PICK w \in Users, y \in Stocks, n \in Nat, i \in SellIds :
            w = frame[Main].user /\ y = frame[Main].sell.stock /\ n = frame[Main].sell.num_stocks
            /\ i = frame[Main].sell.id
    BY <2>1 DEF Sell
  <2>3. Moved(w, y, -n, 0)
    BY <1>0, <1>5, <2>2, SettleMoves
  <2>4. /\ fate[i].state = "pending" /\ fate[i].user = w /\ fate[i].sell.stock = y
        /\ fate[i].sell.num_stocks = n
    BY <2>1, <2>2 DEF OwnerMatches
  <2>5. n = 0 \/ fate[i].set_aside
    BY <2>1, <2>4 DEF Backed, SetAsideFirst, Reserving
  <2>6. Withheld(fate[i], w, y) = n
    BY <2>2, <2>4, <2>5 DEF Withheld
  <2>7. u = w /\ s = y => n <= AtHand(u, s).amount - AtHand(u, s).available
    BY <2>1, <2>6, AllWithheldIsThere
  <2>. QED
    BY <1>0, <1>1, <2>3, <2>7
<1>6. ASSUME NEW t \in Threads, CancelRelease(t), Owns(frame[t].user, frame[t].sell.stock)
      PROVE  AtHand(u, s)'.amount >= 0 /\ AtHand(u, s)'.available >= 0
  <2>1. frame[t].user \in Users /\ frame[t].sell \in Sell
    BY <1>6 DEF CancelRelease, IInv, FrameOK
  <2>2. PICK w \in Users, y \in Stocks, n \in Nat :
            w = frame[t].user /\ y = frame[t].sell.stock /\ n = frame[t].sell.num_stocks
    BY <2>1 DEF Sell
  <2>3. Moved(w, y, 0, n)
    BY <1>0, <1>6, <2>2, ReleaseMoves
  <2>. QED
    BY <1>0, <1>1, <2>3
<1>7. CASE UNCHANGED stocks
  <2>1. AtHand(u, s)' = AtHand(u, s)
    BY <1>7 DEF AtHand, Owns
  <2>. QED
    BY <1>0, <2>1
<1>. QED
  BY <1>2, <1>3, <1>4, <1>5, <1>6, <1>7, StocksKept

(* What the sells of a user withhold of a stock together.                  *)
Withholds(u, s) == SumFunction([x \in SellIds |-> Withheld(fate[x], u, s)])

(* When the record of one sell changes, they withhold that much more, ...  *)
LEMMA WithholdsMove ==
    ASSUME IsFiniteSet(SellIds), FateOK, FateOK', NEW i \in SellIds,
           \A x \in SellIds : x # i => fate'[x] = fate[x]
    PROVE  \A u \in Users, s \in Stocks :
              /\ Withholds(u, s) \in Int /\ Withheld(fate[i], u, s) \in Int
              /\ Withholds(u, s)' = Withholds(u, s) + Withheld(fate'[i], u, s)
                                    - Withheld(fate[i], u, s)
<1>. SUFFICES ASSUME NEW u \in Users, NEW s \in Stocks
              PROVE  /\ Withholds(u, s) \in Int /\ Withheld(fate[i], u, s) \in Int
                     /\ Withholds(u, s)' = Withholds(u, s) + Withheld(fate'[i], u, s)
                                           - Withheld(fate[i], u, s)
  OBVIOUS
<1>1. PICK f : f = [x \in SellIds |-> Withheld(fate[x], u, s)]
  OBVIOUS
<1>2. PICK g : g = [x \in SellIds |-> Withheld(fate'[x], u, s)]
  OBVIOUS
<1>3. f \in [SellIds -> Int] /\ g \in [SellIds -> Int]
  <2>1. \A x \in SellIds : Withheld(fate[x], u, s) \in Int
    BY WithheldType
  <2>2. \A x \in SellIds : Withheld(fate'[x], u, s) \in Int
    BY WithheldTypeNext DEF Withheld
  <2>. QED
    BY <1>1, <1>2, <2>1, <2>2
<1>4. SumFunction(g) = SumFunction(f) + g[i] - f[i]
  <2>1. \A x \in SellIds \ {i} : g[x] = f[x]
    BY <1>1, <1>2
  <2>. QED
    BY <1>3, <2>1, SumChanges
<1>5. g[i] = Withheld(fate'[i], u, s) /\ f[i] = Withheld(fate[i], u, s)
  BY <1>1, <1>2
<1>6. SumFunction(f) \in Int /\ f[i] \in Int
  BY <1>3, SumType
<1>. QED
  BY <1>1, <1>2, <1>4, <1>5, <1>6 DEF Withholds

(* ... and when no sell withholds more or less, nor do they together.      *)
LEMMA WithholdsKept ==
    ASSUME \A x \in SellIds, u \in Users, s \in Stocks :
              Withheld(fate'[x], u, s) = Withheld(fate[x], u, s)
    PROVE  \A u \in Users, s \in Stocks : Withholds(u, s)' = Withholds(u, s)
<1>. SUFFICES ASSUME NEW u \in Users, NEW s \in Stocks
              PROVE  Withholds(u, s)' = Withholds(u, s)
  OBVIOUS
<1>1. [x \in SellIds |-> Withheld(fate'[x], u, s)] = [x \in SellIds |-> Withheld(fate[x], u, s)]
  OBVIOUS
<1>. QED
  BY <1>1 DEF Withholds

(* They withhold a number of shares.                                       *)
LEMMA WithholdsType ==
    IsFiniteSet(SellIds) /\ FateOK => \A u \in Users, s \in Stocks : Withholds(u, s) \in Int
<1>. SUFFICES ASSUME IsFiniteSet(SellIds), FateOK, NEW u \in Users, NEW s \in Stocks
              PROVE  Withholds(u, s) \in Int
  OBVIOUS
<1>1. [x \in SellIds |-> Withheld(fate[x], u, s)] \in [SellIds -> Int]
  BY WithheldType
<1>. QED
  BY <1>1, SumType DEF Withholds

(* What a sell withholds is what it has set aside, until it is settled.    *)
LEMMA WithheldBySell ==
    ASSUME NEW f, NEW w, NEW y, NEW n \in Nat,
           f.user = w, f.sell.stock = y, f.sell.num_stocks = n
    PROVE  \A u, s : Withheld(f, u, s) =
              IF u = w /\ s = y
              THEN (IF f.set_aside THEN n ELSE 0) - (IF f.state \in {"sold", "freed"} THEN n ELSE 0)
              ELSE 0
BY DEF Withheld

(* A SELL that sets n shares aside withholds n more.                       *)
LEMMA ReserveWithholds ==
    ASSUME IsFiniteSet(SellIds), IInv, FateOK, FateOK', Recording, SellReserve,
           NEW w \in Users, NEW y \in Stocks, NEW n \in Nat,
           w = frame[Main].user, y = frame[Main].sell.stock, n = frame[Main].sell.num_stocks,
           Owns(w, y)
    PROVE  \A u \in Users, s \in Stocks :
              Withholds(u, s)' = Withholds(u, s) + (IF u = w /\ s = y THEN n ELSE 0)
<1>1. pc[Main] = "sell_reserve" /\ frame[Main].sell \in Sell /\ fate \in [SellIds -> Fate]
  BY DEF SellReserve, IInv, FrameOK, TypeOK, Threads
<1>2. PICK i \in SellIds : i = frame[Main].sell.id
  BY <1>1 DEF Sell
<1>3. /\ fate[i].user = w /\ fate[i].sell.stock = y /\ fate[i].sell.num_stocks = n
      /\ ~fate[i].set_aside
  BY <1>1, <1>2 DEF Recording
<1>4. fate' = [fate EXCEPT ![i].set_aside = TRUE]
  BY <1>2 DEF SellReserve
<1>5. \A x \in SellIds : x # i => fate'[x] = fate[x]
  BY <1>1, <1>4
<1>6. /\ fate'[i].user = w /\ fate'[i].sell.stock = y /\ fate'[i].sell.num_stocks = n
      /\ fate'[i].set_aside /\ fate'[i].state = fate[i].state
  BY <1>1, <1>3, <1>4 DEF Fate
<1>7. PICK r \in Int : r = IF fate[i].state \in {"sold", "freed"} THEN n ELSE 0
  OBVIOUS
<1>8. \A u, s : /\ Withheld(fate[i], u, s) = IF u = w /\ s = y THEN 0 - r ELSE 0
                /\ Withheld(fate'[i], u, s) = IF u = w /\ s = y THEN n - r ELSE 0
  <2>1. \A u, s : Withheld(fate[i], u, s) = IF u = w /\ s = y THEN 0 - r ELSE 0
    <3>1. \A u, s : Withheld(fate[i], u, s) =
              IF u = w /\ s = y
              THEN (IF fate[i].set_aside THEN n ELSE 0)
                   - (IF fate[i].state \in {"sold", "freed"} THEN n ELSE 0)
              ELSE 0
      BY <1>3 DEF Withheld
    <3>2. ~fate[i].set_aside
      BY <1>3
    <3>. QED
      BY <1>7, <3>1, <3>2
  <2>2. \A u, s : Withheld(fate'[i], u, s) = IF u = w /\ s = y THEN n - r ELSE 0
    BY <1>6, <1>7, WithheldBySell
  <2>. QED
    BY <2>1, <2>2
<1>9. ASSUME NEW u \in Users, NEW s \in Stocks
      PROVE  Withholds(u, s)' = Withholds(u, s) + (IF u = w /\ s = y THEN n ELSE 0)
  <2>1. /\ Withholds(u, s) \in Int
        /\ Withholds(u, s)' = Withholds(u, s) + Withheld(fate'[i], u, s) - Withheld(fate[i], u, s)
    BY <1>5, WithholdsMove
  <2>2. CASE u = w /\ s = y
    <3>1. Withholds(u, s)' = Withholds(u, s) + (n - r) - (0 - r)
      BY <1>8, <2>1, <2>2
    <3>. QED
      BY <1>7, <2>1, <2>2, <3>1
  <2>3. CASE ~(u = w /\ s = y)
    <3>1. Withholds(u, s)' = Withholds(u, s) + 0 - 0
      BY <1>8, <2>1, <2>3
    <3>. QED
      BY <2>1, <2>3, <3>1
  <2>. QED
    BY <2>2, <2>3
<1>. QED
  BY <1>9

(* A sell of n shares that is settled withholds n less.                    *)
LEMMA SettleWithholds ==
    ASSUME IsFiniteSet(SellIds), IInv, FateOK, FateOK', NEW t \in Threads, Carries(t),
           \/ fate' = [fate EXCEPT ![frame[t].sell.id].state = "sold"]
           \/ fate' = [fate EXCEPT ![frame[t].sell.id].state = "freed"],
           NEW w \in Users, NEW y \in Stocks, NEW n \in Nat,
           w = frame[t].user, y = frame[t].sell.stock, n = frame[t].sell.num_stocks
    PROVE  \A u \in Users, s \in Stocks :
              Withholds(u, s)' = Withholds(u, s) + (IF u = w /\ s = y THEN -n ELSE 0)
<1>1. /\ frame[t].sell \in Sell /\ OwnerMatches(w, frame[t].sell)
      /\ fate \in [SellIds -> Fate]
  BY CarriedState DEF IInv, TypeOK
<1>2. PICK i \in SellIds : i = frame[t].sell.id
  BY <1>1 DEF Sell
<1>3. /\ fate[i].user = w /\ fate[i].sell.stock = y /\ fate[i].sell.num_stocks = n
      /\ fate[i].state = "pending"
  BY <1>1, <1>2 DEF OwnerMatches
<1>4. \A x \in SellIds : x # i => fate'[x] = fate[x]
  BY <1>1, <1>2
<1>5. /\ fate'[i].user = w /\ fate'[i].sell.stock = y /\ fate'[i].sell.num_stocks = n
      /\ fate'[i].state \in {"sold", "freed"} /\ fate'[i].set_aside = fate[i].set_aside
  BY <1>1, <1>2, <1>3, SMTT(30) DEF Fate
<1>6. PICK r \in Int : r = IF fate[i].set_aside THEN n ELSE 0
  OBVIOUS
<1>7. \A u, s : /\ Withheld(fate[i], u, s) = IF u = w /\ s = y THEN r - 0 ELSE 0
                /\ Withheld(fate'[i], u, s) = IF u = w /\ s = y THEN r - n ELSE 0
  <2>1. fate[i].state \notin {"sold", "freed"} /\ fate'[i].state \in {"sold", "freed"}
    BY <1>3, <1>5
  <2>2. CASE fate[i].set_aside
    <3>1. r = n /\ fate'[i].set_aside
      BY <1>5, <1>6, <2>2
    <3>2. \A u, s : Withheld(fate[i], u, s) = IF u = w /\ s = y THEN n - 0 ELSE 0
      BY <1>3, <2>1, <2>2, WithheldBySell
    <3>3. \A u, s : Withheld(fate'[i], u, s) = IF u = w /\ s = y THEN n - n ELSE 0
      BY <1>5, <2>1, <3>1, WithheldBySell
    <3>. QED
      BY <3>1, <3>2, <3>3
  <2>3. CASE ~fate[i].set_aside
    <3>1. r = 0 /\ ~fate'[i].set_aside
      BY <1>5, <1>6, <2>3
    <3>2. \A u, s : Withheld(fate[i], u, s) = IF u = w /\ s = y THEN 0 - 0 ELSE 0
      BY <1>3, <2>1, <2>3, WithheldBySell
    <3>3. \A u, s : Withheld(fate'[i], u, s) = IF u = w /\ s = y THEN 0 - n ELSE 0
      BY <1>5, <2>1, <3>1, WithheldBySell
    <3>. QED
      BY <3>1, <3>2, <3>3
  <2>. QED
    BY <2>2, <2>3
<1>8. ASSUME NEW u \in Users, NEW s \in Stocks
      PROVE  Withholds(u, s)' = Withholds(u, s) + (IF u = w /\ s = y THEN -n ELSE 0)
  <2>1. /\ Withholds(u, s) \in Int
        /\ Withholds(u, s)' = Withholds(u, s) + Withheld(fate'[i], u, s) - Withheld(fate[i], u, s)
    BY <1>4, WithholdsMove
  <2>2. CASE u = w /\ s = y
    <3>1. Withholds(u, s)' = Withholds(u, s) + (r - n) - (r - 0)
      BY <1>7, <2>1, <2>2
    <3>. QED
      BY <1>6, <2>1, <2>2, <3>1
  <2>3. CASE ~(u = w /\ s = y)
    <3>1. Withholds(u, s)' = Withholds(u, s) + 0 - 0
      BY <1>7, <2>1, <2>3
    <3>. QED
      BY <2>1, <2>3, <3>1
  <2>. QED
    BY <2>2, <2>3
<1>. QED
  BY <1>8

(* A sell that is recorded withholds nothing yet.                          *)
LEMMA RecordWithholds ==
    ASSUME IInv, FateOK, SellRecord
    PROVE  \A u \in Users, s \in Stocks : Withholds(u, s)' = Withholds(u, s)
<1>1. ASSUME NEW x \in SellIds, NEW u \in Users, NEW s \in Stocks
      PROVE  Withheld(fate'[x], u, s) = Withheld(fate[x], u, s)
  <2>0. fate \in [SellIds -> Fate] /\ Main \in Threads
    BY DEF IInv, TypeOK, Threads
  <2>1. PICK i \in SellIds, n \in Nat : i = frame[Main].sell.id /\ n = frame[Main].sell.num_stocks
    BY <2>0 DEF SellRecord, IInv, FrameOK, Sell
  <2>2. fate' = [fate EXCEPT ![i] = [state |-> "pending", set_aside |-> FALSE,
                                     user |-> frame[Main].user, sell |-> frame[Main].sell]]
    BY <2>1 DEF SellRecord
  <2>3. x # i => fate'[x] = fate[x]
    BY <2>0, <2>2
  <2>4. /\ fate'[i].state = "pending" /\ fate'[i].set_aside = FALSE
        /\ fate'[i].sell = frame[Main].sell
    BY <2>0, <2>2
  <2>5. Withheld(fate'[i], u, s) = 0
    BY <2>4 DEF Withheld
  <2>6. fate[i].user = None
    BY <2>0, <2>1 DEF SellRecord, IInv, Fresh, FateOK, NoFate
  <2>7. Withheld(fate[i], u, s) = 0
    BY <2>6 DEF Withheld
  <2>. QED
    BY <2>3, <2>5, <2>7
<1>. QED
  BY <1>1, WithholdsKept

(* When shares of one stock move as its sells account for, ...             *)
LEMMA BalanceMoves ==
    ASSUME IsFiniteSet(SellIds), IInv, IInv', OneEach, FateOK, SharesBalanced,
           NEW w \in Users, NEW y \in Stocks, NEW da \in Int, NEW dv \in Int,
           Moved(w, y, da, dv),
           \A u \in Users, s \in Stocks :
              Withholds(u, s)' = Withholds(u, s) + (IF u = w /\ s = y THEN da - dv ELSE 0)
    PROVE  SharesBalanced'
<1>. SUFFICES ASSUME NEW u \in Users, NEW s \in Stocks
              PROVE  AtHand(u, s)'.amount - AtHand(u, s)'.available = Withholds(u, s)'
  BY DEF SharesBalanced, AtHand, Owns, Withholds
<1>1. AtHand(u, s).amount - AtHand(u, s).available = Withholds(u, s)
  BY DEF SharesBalanced, Withholds
<1>2. IF u = w /\ s = y
      THEN AtHand(u, s)' = [amount |-> AtHand(u, s).amount + da,
                            available |-> AtHand(u, s).available + dv]
      ELSE AtHand(u, s)' = AtHand(u, s)
  BY HandMoved
<1>3. PICK a \in Int, v \in Int : a = AtHand(u, s).amount /\ v = AtHand(u, s).available
  BY HandType DEF IInv, TypeOK
<1>4. CASE u = w /\ s = y
  <2>1. Withholds(u, s)' = Withholds(u, s) + (da - dv)
    BY <1>4
  <2>2. AtHand(u, s)'.amount = a + da /\ AtHand(u, s)'.available = v + dv
    BY <1>2, <1>3, <1>4
  <2>3. a - v = Withholds(u, s)
    BY <1>1, <1>3
  <2>4. (a + da) - (v + dv) = (a - v) + (da - dv)
    BY <1>3
  <2>. QED
    BY <2>1, <2>2, <2>3, <2>4
<1>5. CASE ~(u = w /\ s = y)
  <2>1. Withholds(u, s)' = (a - v) + 0
    BY <1>1, <1>3, <1>5
  <2>2. AtHand(u, s)' = AtHand(u, s)
    BY <1>2, <1>5
  <2>. QED
    BY <1>3, <2>1, <2>2
<1>. QED
  BY <1>4, <1>5

(* ... or when neither changes, they stay in balance.                      *)
LEMMA BalanceKept ==
    ASSUME SharesBalanced,
           \A u \in Users, s \in Stocks :
              /\ AtHand(u, s)'.amount - AtHand(u, s)'.available
                    = AtHand(u, s).amount - AtHand(u, s).available
              /\ Withholds(u, s)' = Withholds(u, s)
    PROVE  SharesBalanced'
<1>. SUFFICES ASSUME NEW u \in Users, NEW s \in Stocks
              PROVE  AtHand(u, s)'.amount - AtHand(u, s)'.available = Withholds(u, s)'
  BY DEF SharesBalanced, AtHand, Owns, Withholds
<1>1. AtHand(u, s).amount - AtHand(u, s).available = Withholds(u, s)
  BY DEF SharesBalanced, Withholds
<1>. QED
  BY <1>1

(* Every step keeps the shares in balance.                                 *)
LEMMA BalanceStep ==
    ASSUME IsFiniteSet(SellIds), IInv, IInv', Backed, FateOK', [Next]_vars
    PROVE  SharesBalanced'
<1>0. /\ Priced /\ OneEach /\ FateOK /\ SharesBalanced /\ Main \in Threads
      /\ fate \in [SellIds -> Fate]
      /\ \A u \in Users, s \in Stocks : AtHand(u, s).amount \in Int /\ AtHand(u, s).available \in Int
  BY HandType DEF IInv, TypeOK, Threads, Backed, Priced
<1>a. ASSUME \A x \in SellIds : fate'[x] = fate[x]
      PROVE  \A u \in Users, s \in Stocks : Withholds(u, s)' = Withholds(u, s)
  BY <1>a, WithholdsKept
<1>1. CASE SellPull
  <2>1. UNCHANGED fate /\ pc[Main] = "sell_pull"
    BY <1>1 DEF SellPull
  <2>2. ASSUME NEW u \in Users, NEW s \in Stocks
        PROVE  AtHand(u, s)'.amount - AtHand(u, s)'.available
                  = AtHand(u, s).amount - AtHand(u, s).available
    <3>1. \/ AtHand(u, s)' = AtHand(u, s)
          \/ u = frame[Main].user /\ s = frame[Main].sell.stock /\ ~Owns(u, s)'
      <4>1. PICK w \in Users, y \in Stocks :
                /\ w = frame[Main].user /\ y = frame[Main].sell.stock /\ ~Owns(w, y)'
                /\ \A q \in Users, p \in Stocks :
                      ~(q = w /\ p = y) => AtHand(q, p)' = AtHand(q, p)
        BY <1>0, <1>1, PullMoves
      <4>2. CASE u = w /\ s = y
        BY <4>1, <4>2 DEF Owns
      <4>3. CASE ~(u = w /\ s = y)
        BY <4>1, <4>3
      <4>. QED
        BY <4>2, <4>3
    <3>2. CASE u = frame[Main].user /\ s = frame[Main].sell.stock /\ ~Owns(u, s)'
      <4>1. AtHand(u, s).amount = 0
        BY <1>0, <2>1, <3>2 DEF Priced
      <4>2. AtHand(u, s).available <= AtHand(u, s).amount
        BY <2>1, AllWithheldIsThere
      <4>3. AtHand(u, s).available >= 0
        BY DEF Backed, NotNegative
      <4>4. AtHand(u, s)' = [amount |-> 0, available |-> 0]
        BY <3>2 DEF AtHand, Owns
      <4>. QED
        BY <1>0, <4>1, <4>2, <4>3, <4>4
    <3>. QED
      BY <3>1, <3>2
  <2>. QED
    BY <1>0, <1>a, <2>1, <2>2, BalanceKept
<1>2. ASSUME NEW w \in Users, NEW y \in Stocks, NEW n \in Lots, NEW v \in Prices,
             Bought(w, y, n, v)
      PROVE  SharesBalanced'
  <2>1. n \in Int
    BY AmountsAssumption
  <2>2. Moved(w, y, n, n) /\ UNCHANGED fate
    BY <1>0, <1>2, BoughtMoves DEF Bought
  <2>3. ASSUME NEW u \in Users, NEW s \in Stocks
        PROVE  AtHand(u, s)'.amount - AtHand(u, s)'.available
                  = AtHand(u, s).amount - AtHand(u, s).available
    <3>1. \/ AtHand(u, s)' = AtHand(u, s)
          \/ AtHand(u, s)' = [amount |-> AtHand(u, s).amount + n,
                              available |-> AtHand(u, s).available + n]
      BY <1>0, <2>2, HandMoved
    <3>2. PICK a \in Int, b \in Int : a = AtHand(u, s).amount /\ b = AtHand(u, s).available
      BY <1>0
    <3>3. (a + n) - (b + n) = a - b
      BY <2>1
    <3>. QED
      BY <3>1, <3>2, <3>3
  <2>. QED
    BY <1>0, <1>a, <2>2, <2>3, BalanceKept
<1>3. CASE SellReserve /\ Owns(frame[Main].user, frame[Main].sell.stock)
  <2>1. frame[Main].user \in Users /\ frame[Main].sell \in Sell
    BY <1>0, <1>3 DEF SellReserve, IInv, FrameOK
  <2>2. PICK w \in Users, y \in Stocks, n \in Nat :
            w = frame[Main].user /\ y = frame[Main].sell.stock /\ n = frame[Main].sell.num_stocks
    BY <2>1 DEF Sell
  <2>3. Moved(w, y, 0, -n)
    BY <1>0, <1>3, <2>2, ReserveMoves
  <2>4. \A u \in Users, s \in Stocks :
            Withholds(u, s)' = Withholds(u, s) + (IF u = w /\ s = y THEN n ELSE 0)
    BY <1>0, <1>3, <2>2, ReserveWithholds DEF Backed
  <2>5. 0 \in Int /\ -n \in Int /\ 0 - (-n) = n
    OBVIOUS
  <2>. QED
    BY <1>0, <2>3, <2>4, <2>5, BalanceMoves
<1>4. ASSUME NEW t \in Threads, Carries(t), NEW a \in {"sold", "freed"},
             NEW da \in Int, NEW dv \in Int, da - dv = -frame[t].sell.num_stocks,
             Moved(frame[t].user, frame[t].sell.stock, da, dv),
             fate' = [fate EXCEPT ![frame[t].sell.id].state = a]
      PROVE  SharesBalanced'
  <2>1. frame[t].user \in Users /\ frame[t].sell \in Sell
    BY <1>4, CarriedState
  <2>2. PICK w \in Users, y \in Stocks, n \in Nat :
            w = frame[t].user /\ y = frame[t].sell.stock /\ n = frame[t].sell.num_stocks
    BY <2>1 DEF Sell
  <2>3. \A u \in Users, s \in Stocks :
            Withholds(u, s)' = Withholds(u, s) + (IF u = w /\ s = y THEN -n ELSE 0)
    <3>1. \/ fate' = [fate EXCEPT ![frame[t].sell.id].state = "sold"]
          \/ fate' = [fate EXCEPT ![frame[t].sell.id].state = "freed"]
      BY <1>4
    <3>2. Carries(t)
      BY <1>4
    <3>. QED
      BY <1>0, <2>2, <3>1, <3>2, SettleWithholds, SMTT(30)
  <2>4. Moved(w, y, da, dv) /\ da - dv = -n
    BY <1>4, <2>2
  <2>. QED
    BY <1>0, <1>4, <2>3, <2>4, BalanceMoves
<1>5. CASE CommitSettle /\ Owns(frame[Main].user, frame[Main].sell.stock)
  <2>1. /\ Carries(Main) /\ Moved(frame[Main].user, frame[Main].sell.stock,
                                  -frame[Main].sell.num_stocks, 0)
        /\ fate' = [fate EXCEPT ![frame[Main].sell.id].state = "sold"]
    BY <1>0, <1>5, SettleMoves DEF CommitSettle, Carries
  <2>2. PICK n \in Nat : n = frame[Main].sell.num_stocks
    BY <1>0, <2>1, CarriedState DEF Sell
  <2>3. 0 \in Int /\ -n \in Int /\ (-n) - 0 = -n
    OBVIOUS
  <2>. QED
    BY <1>0, <1>4, <2>1, <2>2, <2>3
<1>6. ASSUME NEW t \in Threads, CancelRelease(t), Owns(frame[t].user, frame[t].sell.stock)
      PROVE  SharesBalanced'
  <2>1. /\ Carries(t) /\ Moved(frame[t].user, frame[t].sell.stock, 0, frame[t].sell.num_stocks)
        /\ fate' = [fate EXCEPT ![frame[t].sell.id].state = "freed"]
    BY <1>0, <1>6, ReleaseMoves DEF CancelRelease, Carries
  <2>2. PICK n \in Nat : n = frame[t].sell.num_stocks
    BY <2>1, CarriedState DEF Sell
  <2>3. 0 \in Int /\ n \in Int /\ 0 - n = -n
    OBVIOUS
  <2>. QED
    BY <1>4, <2>1, <2>2, <2>3
<1>7. CASE SellRecord
  <2>1. UNCHANGED stocks
    BY <1>7 DEF SellRecord
  <2>2. \A u \in Users, s \in Stocks : AtHand(u, s)' = AtHand(u, s)
    BY <2>1 DEF AtHand, Owns
  <2>. QED
    BY <1>0, <1>7, <2>2, BalanceKept, RecordWithholds
<1>8. ASSUME UNCHANGED stocks, \A x \in SellIds : fate'[x] = fate[x]
      PROVE  SharesBalanced'
  <2>1. \A u \in Users, s \in Stocks : AtHand(u, s)' = AtHand(u, s)
    BY <1>8 DEF AtHand, Owns
  <2>. QED
    BY <1>0, <1>a, <1>8, <2>1, BalanceKept
<1>. HIDE <1>0
<1>9. ASSUME ~SellPull, ~SellRecord,
             ~\E u \in Users, s \in Stocks, n \in Lots, v \in Prices : Bought(u, s, n, v),
             ~(SellReserve /\ Owns(frame[Main].user, frame[Main].sell.stock)),
             ~(CommitSettle /\ Owns(frame[Main].user, frame[Main].sell.stock)),
             ~\E t \in Threads : CancelRelease(t) /\ Owns(frame[t].user, frame[t].sell.stock)
      PROVE  UNCHANGED stocks /\ \A x \in SellIds : fate'[x] = fate[x]
  <2>1. UNCHANGED stocks
    BY <1>9, StocksKept
  <2>2. \A x \in SellIds : fate'[x] = fate[x]
    BY <1>9, FateMoves
  <2>. QED
    BY <2>1, <2>2
<1>. QED
  BY <1>1, <1>2, <1>3, <1>5, <1>6, <1>7, <1>8, <1>9

(* Without faults, every step keeps what is withheld there.                *)
LEMMA BackedStep ==
    ASSUME ~CanRaise, ~CanRestart, IsFiniteSet(SellIds), IInv, IInv', Backed, [Next]_vars
    PROVE  Backed'
<1>1. Priced'
  BY PricedStep DEF Backed
<1>2. FateOK'
  BY FateOKStep DEF Backed
<1>3. Recording'
  BY RecordingStep DEF Backed
<1>4. SharesBalanced'
  BY <1>2, BalanceStep
<1>. QED
  BY <1>1, <1>2, <1>3, <1>4, SetAsideFirstStep, EnoughStep, NotNegativeStep DEF Backed

(* Nothing is withheld at first.                                           *)
LEMMA BackedInit == IsFiniteSet(SellIds) /\ Init => Backed
<1>. SUFFICES ASSUME IsFiniteSet(SellIds), Init PROVE Backed
  OBVIOUS
<1>1. \A x \in SellIds : fate[x] = NoFate
  BY DEF Init
<1>2. pc[Main] = "idle" /\ \A u \in Users, s \in Stocks : ~Owns(u, s)
  BY DEF Init, Owns, Threads
<1>3. \A u \in Users, s \in Stocks : AtHand(u, s) = [amount |-> 0, available |-> 0]
  BY <1>2 DEF AtHand
<1>4. SharesBalanced
  <2>1. ASSUME NEW u \in Users, NEW s \in Stocks
        PROVE  SumFunction([x \in SellIds |-> Withheld(fate[x], u, s)]) = 0
    <3>1. PICK f : f = [x \in SellIds |-> Withheld(fate[x], u, s)]
      OBVIOUS
    <3>2. \A x \in SellIds : Withheld(fate[x], u, s) = 0
      BY <1>1 DEF Withheld, NoFate
    <3>3. f \in [SellIds -> Int] /\ \A x \in SellIds : f[x] = 0
      BY <3>1, <3>2
    <3>4. SumFunction(f) = 0
      BY <3>3, SumOfZeros
    <3>. QED
      BY <3>1, <3>4
  <2>. QED
    BY <1>3, <2>1 DEF SharesBalanced
<1>5. FateOK /\ SetAsideFirst
  <2>. DEFINE q == NoFate
  <2>0. q.state = "new"
    BY DEF NoFate
  <2>. HIDE DEF q
  <2>1. \A x \in SellIds : fate[x].state = "new" /\ fate[x] = q
    BY <1>1, <2>0 DEF q
  <2>2. FateOK
    BY <2>1 DEF FateOK, q
  <2>3. SetAsideFirst
    BY <2>1 DEF SetAsideFirst
  <2>. QED
    BY <2>2, <2>3
<1>6. Enough /\ Recording
  BY <1>2 DEF Enough, Recording
<1>7. NotNegative
  BY <1>3 DEF NotNegative
<1>. QED
  BY <1>4, <1>5, <1>6, <1>7, PricedInit DEF Backed

(* Without faults, what pending sells withhold is there in every state.    *)
LEMMA BackedHolds ==
    ASSUME ~CanRaise, ~CanRestart, IsFiniteSet(SellIds)
    PROVE  Spec => []Backed
<1>1. Init => Backed
  BY BackedInit
<1>2. IInv /\ IInv' /\ Backed /\ [Next]_vars => Backed'
  BY BackedStep
<1>. QED
  BY InvHolds, <1>1, <1>2, PTL DEF Spec

(***************************************************************************)
(* Without faults, the shares of a stock that are not available are those  *)
(* set aside by sells that are neither sold nor freed.                     *)
(***************************************************************************)
THEOREM SharesBalance ==
    ASSUME ~CanRaise, ~CanRestart, IsFiniteSet(SellIds)
    PROVE  Spec => []SharesBalanced
<1>1. Backed => SharesBalanced
  BY DEF Backed
<1>. QED
  BY <1>1, BackedHolds, PTL

(***************************************************************************)
(* Without faults nobody sells shares they do not own, or offers more than *)
(* they own.                                                               *)
(***************************************************************************)
THEOREM NeverOversell ==
    ASSUME ~CanRaise, ~CanRestart, IsFiniteSet(SellIds)
    PROVE  Spec => []NeverOversold
<1>1. IInv /\ Backed => NeverOversold
  <2>. SUFFICES ASSUME IInv, Backed, NEW u \in Users, NEW s \in Stocks,
                       NEW i \in DOMAIN stocks[u][s]
                PROVE  /\ stocks[u][s][i].amount >= 0 /\ stocks[u][s][i].available >= 0
                       /\ pc[Main] = "idle" =>
                             stocks[u][s][i].available <= stocks[u][s][i].amount
    BY DEF NeverOversold
  <2>1. Owns(u, s) /\ i = 1
    <3>1. stocks[u][s] \in Seq(Holding)
      BY DEF IInv, TypeOK, DbTypeOK
    <3>2. Len(stocks[u][s]) \in Nat /\ i \in 1..Len(stocks[u][s])
      BY <3>1
    <3>3. Owns(u, s)
      BY <3>1, <3>2 DEF Owns
    <3>4. Len(stocks[u][s]) = 1
      BY <3>3 DEF Backed, Priced, OneEach
    <3>. QED
      BY <3>2, <3>3, <3>4
  <2>2. AtHand(u, s) = stocks[u][s][i]
    BY <2>1 DEF AtHand
  <2>3. AtHand(u, s).amount >= 0 /\ AtHand(u, s).available >= 0
    BY DEF Backed, NotNegative
  <2>4. pc[Main] = "idle" => AtHand(u, s).available <= AtHand(u, s).amount
    BY AllWithheldIsThere
  <2>. QED
    BY <2>2, <2>3, <2>4
<1>. QED
  BY <1>1, InvHolds, BackedHolds, PTL

-----------------------------------------------------------------------------
(***************************************************************************)
(* Without faults, shares that are set aside are out of reach only when a  *)
(* later SELL has been recorded over their sell.  For this, the timer that *)
(* a SELL starts is not one that carries a sell: it is new until then.     *)
(***************************************************************************)
Arming == {"sell_pull", "sell_record", "sell_reserve", "sell_swap", "sell_arm"}

FreshTimers ==
    /\ \A x \in SellIds : fate[x].state = "new" => pc[x] = "unarmed"
    /\ pc[Main] \in Arming => pc[frame[Main].sell.id] = "unarmed"
    /\ pc[Main] \in Arming \ {"sell_pull", "sell_record"} =>
          fate[frame[Main].sell.id].state # "new"

(* A SELL goes on with the sell it began with.                             *)
LEMMA SameSell ==
    ASSUME IInv, [Next]_vars, pc'[Main] \in Arming
    PROVE  \/ /\ pc'[Main] \in {"sell_pull", "sell_record"} /\ ~SellArm
              /\ fate[frame'[Main].sell.id].state = "new" /\ frame'[Main].sell.id \in SellIds
           \/ /\ pc[Main] \in Arming /\ ~SellArm /\ frame'[Main].sell = frame[Main].sell
              /\ \/ pc'[Main] \in {"sell_pull", "sell_record"}
                 \/ SellRecord
                 \/ pc[Main] \notin {"sell_pull", "sell_record"}
<1>0. /\ pc \in [Threads -> MainPC \cup TimerPC] /\ frame \in [Threads -> Frame]
      /\ Main \in Threads /\ SellIds \subseteq Threads /\ Main \notin SellIds
      /\ uncommitted_sell_timers \in [Users -> SellIds \cup {None}]
      /\ \A b : /\ DOMAIN Cancelled(pc, b) = Threads
                /\ Cancelled(pc, b)[Main] \in {pc[Main], "cancelled"}
  BY DEF IInv, TypeOK, Threads, Cancelled
<1>1. /\ ~SellArm /\ ~CommitSettle /\ ~Restart /\ \A t \in Threads : End(t) => t # Main
      /\ \A u \in Users : ~CommitTake(u)
  <2>1. ~SellArm
    BY <1>0 DEF SellArm, Armed, Started, Arming
  <2>2. \A t \in Threads : End(t) => t # Main
    BY <1>0 DEF End, EndPC, Goto, Arming
  <2>3. ~CommitSettle
    BY <1>0, <2>2 DEF CommitSettle
  <2>4. ~Restart
    BY <1>0 DEF Restart, EndPC, Arming
  <2>5. \A u \in Users : ~CommitTake(u)
    BY <1>0 DEF CommitTake, Arming
  <2>. QED
    BY <2>1, <2>2, <2>3, <2>4, <2>5
<1>2. CASE SellPull \/ SellRecord
  BY <1>0, <1>1, <1>2 DEF SellPull, SellRecord, Goto, Arming
<1>3. CASE SellReserve
  BY <1>0, <1>1, <1>3 DEF SellReserve, Arming
<1>4. CASE SellSwap
  BY <1>0, <1>1, <1>4 DEF SellSwap, Arming, Frame
<1>5. ASSUME pc'[Main] = pc[Main], frame'[Main] = frame[Main]
      PROVE  /\ pc[Main] \in Arming /\ ~SellArm /\ frame'[Main].sell = frame[Main].sell
             /\ \/ pc'[Main] \in {"sell_pull", "sell_record"}
                \/ pc[Main] \notin {"sell_pull", "sell_record"}
  BY <1>1, <1>5
<1>6. ASSUME NEW u \in Users, NEW s \in Stocks, NEW a \in Amounts, NEW id \in SellIds,
             NEW v \in Prices, SellCheck(u, s, a, id, v)
      PROVE  /\ pc'[Main] \in {"sell_pull", "sell_record"}
             /\ fate[frame'[Main].sell.id].state = "new" /\ frame'[Main].sell.id \in SellIds
  <2>. DEFINE x == [id |-> id, stock |-> s, num_stocks |-> a \div v, quote |-> v]
              f == EnoughShares(x, stocks[u][s][1])
  <2>1. /\ fate[id].state = "new" /\ pc[Main] = "idle"
        /\ pc' # pc => /\ \/ pc' = [pc EXCEPT ![Main] = "sell_pull"]
                          \/ pc' = [pc EXCEPT ![Main] = "sell_record"]
                       /\ frame' = [frame EXCEPT ![Main] = [user |-> u, sell |-> x, found |-> f]]
    BY <1>6 DEF SellCheck, Goto
  <2>2. x.id = id
    OBVIOUS
  <2>. HIDE DEF x, f
  <2>. QED
    BY <1>0, <2>1, <2>2 DEF Arming
<1>7. ASSUME NEW b \in SellIds, Fire(b)
      PROVE  pc'[Main] = pc[Main] /\ frame'[Main] = frame[Main]
  BY <1>0, <1>7 DEF Fire, Goto
<1>8. ASSUME NEW t \in Threads, NEW u \in Users, CancelTimer(t, u)
      PROVE  pc'[Main] = pc[Main] /\ frame'[Main] = frame[Main]
  <2>1. t # Main
    BY <1>0, <1>8 DEF CancelTimer, Arming
  <2>. QED
    BY <1>0, <1>8, <2>1 DEF CancelTimer, Arming
<1>9. ASSUME NEW t \in Threads, CancelStep(t) \/ Raise(t)
      PROVE  pc'[Main] = pc[Main] /\ frame'[Main] = frame[Main]
  <2>1. \/ End(t)
        \/ Goto(t, "cancel_release") /\ frame' = [frame EXCEPT ![t].sell =
                                                    uncommitted_sells[frame[t].user]]
    BY <1>9 DEF CancelStep, CancelTake, CancelRelease, Raise
  <2>2. t # Main
    BY <1>0, <1>1, <2>1 DEF Goto, Arming
  <2>. QED
    BY <1>0, <2>1, <2>2 DEF End, Goto
<1>10. ASSUME NEW u \in Users, NEW s \in Stocks, NEW n \in Lots, NEW v \in Prices,
              Bought(u, s, n, v)
       PROVE  pc'[Main] = pc[Main] /\ frame'[Main] = frame[Main]
  BY <1>10 DEF Bought, mem
<1>11. UNCHANGED vars => pc'[Main] = pc[Main] /\ frame'[Main] = frame[Main]
  BY DEF vars
<1>. HIDE <1>0
<1>. QED
  BY <1>1, <1>2, <1>3, <1>4, <1>5, <1>6, <1>7, <1>8, <1>9, <1>10, <1>11 DEF Next, SellStep

(* Only its own SELL starts a timer.                                       *)
LEMMA UnarmedStays ==
    ASSUME IInv, [Next]_vars, NEW b \in SellIds, pc[b] = "unarmed",
           ~(SellArm /\ b = frame[Main].sell.id)
    PROVE  pc'[b] = "unarmed"
<1>0. /\ pc \in [Threads -> MainPC \cup TimerPC] /\ Main \in Threads /\ b \in Threads
      /\ b # Main
      /\ \A y : DOMAIN Cancelled(pc, y) = Threads /\ Cancelled(pc, y)[b] = "unarmed"
  BY DEF IInv, TypeOK, Threads, Cancelled
<1>1. ASSUME NEW t \in Threads, NEW l, pc[t] # "unarmed" \/ t = Main, Goto(t, l)
      PROVE  pc'[b] = "unarmed"
  BY <1>0, <1>1 DEF Goto
<1>2. SellPull \/ SellRecord \/ SellReserve \/ CommitSettle => \E l : Goto(Main, l)
  BY DEF SellPull, SellRecord, SellReserve, CommitSettle, End
<1>3. SellSwap => pc'[b] = "unarmed"
  BY <1>0 DEF SellSwap
<1>4. SellArm => pc'[b] = "unarmed"
  BY <1>0 DEF SellArm, Armed, Started
<1>5. \A u \in Users : CommitTake(u) => pc'[b] = "unarmed"
  BY <1>0 DEF CommitTake
<1>6. \A t \in Threads, u \in Users : CancelTimer(t, u) => pc'[b] = "unarmed"
  <2>1. ASSUME NEW t \in Threads, NEW u \in Users, CancelTimer(t, u) PROVE pc'[b] = "unarmed"
    <3>1. t # b
      BY <1>0, <2>1 DEF CancelTimer
    <3>. QED
      BY <1>0, <2>1, <3>1 DEF CancelTimer
  <2>. QED
    BY <2>1
<1>7. \A t \in Threads : CancelStep(t) \/ Raise(t) => pc[t] # "unarmed" /\ \E l : Goto(t, l)
  BY DEF CancelStep, CancelTake, CancelRelease, Raise, MayRaise, End
<1>8. \A x \in SellIds : Fire(x) => pc[x] # "unarmed" /\ \E l : Goto(x, l)
  BY DEF Fire
<1>9. \A u \in Users, s \in Stocks, a \in Amounts, id \in SellIds, v \in Prices :
          SellCheck(u, s, a, id, v) => UNCHANGED pc \/ \E l : Goto(Main, l)
  BY DEF SellCheck
<1>10. \A u \in Users, s \in Stocks, n \in Lots, v \in Prices : Bought(u, s, n, v) => UNCHANGED pc
  BY DEF Bought, mem
<1>11. Restart => pc'[b] = "unarmed"
  BY <1>0 DEF Restart
<1>12. UNCHANGED vars => UNCHANGED pc
  BY DEF vars
<1>13. SellIds \subseteq Threads
  BY DEF Threads
<1>. QED
  BY <1>0, <1>1, <1>2, <1>3, <1>4, <1>5, <1>6, <1>7, <1>8, <1>9, <1>10, <1>11, <1>12, <1>13
  DEF Next, SellStep

(* The timer of a SELL is new until the SELL starts it.                    *)
LEMMA FreshTimersStep == IInv /\ IInv' /\ FreshTimers /\ [Next]_vars => FreshTimers'
<1>. SUFFICES ASSUME IInv, IInv', FreshTimers, [Next]_vars PROVE FreshTimers'
  OBVIOUS
<1>0. /\ fate \in [SellIds -> Fate] /\ Main \in Threads /\ frame \in [Threads -> Frame]
      /\ \A y : pc[Main] \in Arming => frame[Main].sell.id \in SellIds
  BY DEF IInv, TypeOK, Threads, FrameOK, Sell, Arming
<1>1. \A x \in SellIds : fate'[x].state = "new" => fate[x].state = "new"
  <2>. SUFFICES ASSUME NEW x \in SellIds, fate'[x].state = "new" PROVE fate[x].state = "new"
    OBVIOUS
  <2>1. fate[x] \in Fate
    BY <1>0
  <2>2. \/ fate'[x] = fate[x]
        \/ fate[x].state = "new"
        \/ fate'[x] = [fate[x] EXCEPT !.set_aside = TRUE]
        \/ fate'[x] = [fate[x] EXCEPT !.state = "sold"]
        \/ fate'[x] = [fate[x] EXCEPT !.state = "freed"]
    BY FateMoves
  <2>. QED
    BY <2>1, <2>2 DEF Fate
<1>2. \A x \in SellIds : fate'[x].state = "new" => pc'[x] = "unarmed"
  <2>. SUFFICES ASSUME NEW x \in SellIds, fate'[x].state = "new" PROVE pc'[x] = "unarmed"
    OBVIOUS
  <2>1. fate[x].state = "new" /\ pc[x] = "unarmed"
    BY <1>1 DEF FreshTimers
  <2>2. ~(SellArm /\ x = frame[Main].sell.id)
    BY <2>1 DEF SellArm, FreshTimers, Arming
  <2>. QED
    BY <2>1, <2>2, UnarmedStays
<1>3. ASSUME pc'[Main] \in Arming
      PROVE  /\ pc'[frame'[Main].sell.id] = "unarmed"
             /\ pc'[Main] \notin {"sell_pull", "sell_record"} =>
                   fate'[frame'[Main].sell.id].state # "new"
  <2>1. CASE /\ pc'[Main] \in {"sell_pull", "sell_record"} /\ ~SellArm
             /\ fate[frame'[Main].sell.id].state = "new" /\ frame'[Main].sell.id \in SellIds
    <3>1. pc[frame'[Main].sell.id] = "unarmed"
      BY <2>1 DEF FreshTimers
    <3>. QED
      BY <2>1, <3>1, UnarmedStays
  <2>2. CASE /\ pc[Main] \in Arming /\ ~SellArm /\ frame'[Main].sell = frame[Main].sell
             /\ \/ pc'[Main] \in {"sell_pull", "sell_record"}
                \/ SellRecord
                \/ pc[Main] \notin {"sell_pull", "sell_record"}
    <3>1. PICK x \in SellIds : x = frame[Main].sell.id
      BY <1>0, <2>2
    <3>2. pc'[x] = "unarmed"
      BY <2>2, <3>1, UnarmedStays DEF FreshTimers
    <3>3. CASE SellRecord
      <4>1. fate' = [fate EXCEPT ![x] = [state |-> "pending", set_aside |-> FALSE,
                                         user |-> frame[Main].user, sell |-> frame[Main].sell]]
        BY <3>1, <3>3 DEF SellRecord
      <4>2. fate'[x].state = "pending"
        BY <1>0, <4>1
      <4>. QED
        BY <2>2, <3>1, <3>2, <4>2
    <3>4. CASE pc[Main] \notin {"sell_pull", "sell_record"}
      <4>1. fate[x].state # "new"
        BY <2>2, <3>1, <3>4 DEF FreshTimers
      <4>2. fate'[x].state # "new"
        BY <1>1, <4>1
      <4>. QED
        BY <2>2, <3>1, <3>2, <4>2
    <3>. QED
      BY <2>2, <3>1, <3>2, <3>3, <3>4
  <2>. QED
    BY <1>3, <2>1, <2>2, SameSell
<1>. QED
  BY <1>2, <1>3 DEF FreshTimers

(* A pending sell that is taken out of the dictionary is carried.          *)
LEMMA TakenIsCarried ==
    ASSUME IInv, Next, ~CanRestart, NEW x \in SellIds, NEW u \in Users, Recorded(x, u),
           uncommitted_sells'[u] = None
    PROVE  \E t \in Threads : Carried(x, t)'
<1>0. /\ uncommitted_sells \in [Users -> Sell \cup {None}]
      /\ uncommitted_sell_timers \in [Users -> SellIds \cup {None}]
      /\ frame \in [Threads -> Frame] /\ FrameOK
      /\ pc \in [Threads -> MainPC \cup TimerPC]
      /\ Main \in Threads /\ SellIds \subseteq Threads
      /\ uncommitted_sells[u] # None /\ uncommitted_sells[u].id = x
  BY DEF IInv, TypeOK, Threads, Recorded
<1>1. ASSUME NEW w \in Users, CommitTake(w)
      PROVE  Carried(x, Main)'
  <2>1. w = u
    BY <1>0, <1>1 DEF CommitTake, PopSell
  <2>2. frame'[Main].sell = uncommitted_sells[u]
    BY <1>0, <1>1, <2>1 DEF CommitTake
  <2>3. pc'[Main] = "commit_settle"
    <3>1. DOMAIN Cancelled(pc, uncommitted_sell_timers[w]) = Threads
      BY <1>0 DEF Cancelled
    <3>. QED
      BY <1>0, <1>1, <3>1 DEF CommitTake
  <2>. QED
    BY <1>0, <2>2, <2>3 DEF Carried, Carries
<1>2. ASSUME NEW t \in Threads, CancelTake(t)
      PROVE  Carried(x, t)'
  <2>1. frame[t].user = u
    <3>1. uncommitted_sells' = [uncommitted_sells EXCEPT ![frame[t].user] = None]
      BY <1>2 DEF CancelTake, PopSell
    <3>. QED
      BY <1>0, <3>1
  <2>2. /\ pc' = [pc EXCEPT ![t] = "cancel_release"]
        /\ frame' = [frame EXCEPT ![t].sell = uncommitted_sells[u]]
    BY <1>0, <1>2, <2>1 DEF CancelTake, Goto
  <2>3. pc'[t] = "cancel_release" /\ frame'[t].sell = uncommitted_sells[u]
    BY <1>0, <2>2 DEF Frame
  <2>. QED
    BY <1>0, <2>3 DEF Carried, Carries
<1>3. ~SellRecord
  <2>1. ASSUME SellRecord PROVE FALSE
    <3>1. frame[Main].sell \in Sell
      BY <1>0, <2>1 DEF SellRecord, FrameOK
    <3>2. uncommitted_sells' = [uncommitted_sells EXCEPT ![frame[Main].user] = frame[Main].sell]
      BY <2>1 DEF SellRecord
    <3>. QED
      BY <1>0, <3>1, <3>2
  <2>. QED
    BY <2>1
<1>4. uncommitted_sells' # uncommitted_sells
  BY <1>0
<1>5. /\ ~SellPull /\ ~SellReserve /\ ~SellSwap /\ ~SellArm /\ ~CommitSettle /\ ~Restart
      /\ \A b \in SellIds : ~Fire(b)
      /\ \A t \in Threads : ~CancelRelease(t) /\ ~Raise(t)
      /\ \A t \in Threads, w \in Users : ~CancelTimer(t, w)
  BY <1>4 DEF SellPull, SellReserve, SellSwap, SellArm, CommitSettle, Restart, Fire,
              CancelRelease, Raise, CancelTimer
<1>6. \A w \in Users, s \in Stocks, n \in Lots, v \in Prices : ~Bought(w, s, n, v)
  BY <1>4 DEF Bought, mem
<1>7. \A w \in Users, s \in Stocks, a \in Amounts, id \in SellIds, v \in Prices :
          ~SellCheck(w, s, a, id, v)
  BY <1>4 DEF SellCheck
<1>. QED
  BY <1>0, <1>1, <1>2, <1>3, <1>5, <1>6, <1>7 DEF Next, SellStep, CancelStep

(* The shares of a sell that is carried and set them aside are still there *)
(* to be sold or freed.                                                    *)
LEMMA CarriedIsThere ==
    ASSUME IsFiniteSet(SellIds), IInv, Backed, NEW t \in Threads, Carries(t),
           fate[frame[t].sell.id].set_aside, frame[t].sell.num_stocks > 0
    PROVE  Owns(frame[t].user, frame[t].sell.stock)
<1>1. /\ frame[t].user \in Users /\ frame[t].sell \in Sell
      /\ OwnerMatches(frame[t].user, frame[t].sell)
  BY CarriedState
<1>2. PICK w \in Users, y \in Stocks, n \in Nat, i \in SellIds :
          w = frame[t].user /\ y = frame[t].sell.stock /\ n = frame[t].sell.num_stocks
          /\ i = frame[t].sell.id
  BY <1>1 DEF Sell
<1>3. Withheld(fate[i], w, y) = n
  <2>1. /\ fate[i].user = w /\ fate[i].sell.stock = y /\ fate[i].sell.num_stocks = n
        /\ fate[i].state = "pending" /\ fate[i].set_aside
    BY <1>1, <1>2 DEF OwnerMatches
  <2>. QED
    BY <2>1 DEF Withheld
<1>4. ~Owns(w, y) => n <= AtHand(w, y).amount - AtHand(w, y).available
  BY <1>3, AllWithheldIsThere
<1>5. ~Owns(w, y) => AtHand(w, y).amount = 0 /\ AtHand(w, y).available = 0
  BY DEF AtHand
<1>. QED
  BY <1>2, <1>4, <1>5

(* A carried sell whose shares stay set aside stays where it is.           *)
LEMMA CarriedStays ==
    ASSUME IsFiniteSet(SellIds), ~CanRaise, ~CanRestart, IInv, Backed, FreshTimers, Next,
           NEW x \in SellIds, NEW t \in Threads, Carried(x, t), Aside(x), Aside(x)'
    PROVE  Carried(x, t)'
<1>0. /\ uncommitted_sell_timers \in [Users -> SellIds \cup {None}]
      /\ frame \in [Threads -> Frame]
      /\ pc \in [Threads -> MainPC \cup TimerPC]
      /\ fate \in [SellIds -> Fate]
      /\ Main \in Threads /\ SellIds \subseteq Threads
      /\ pc[t] \in {"commit_settle", "cancel_release"} /\ frame[t].sell.id = x
      /\ fate[x].set_aside /\ frame[t].sell.num_stocks > 0 /\ Carries(t)
      /\ fate'[x].state = "pending"
  BY CarriedState DEF IInv, TypeOK, Threads, Carried, Carries, Aside, OwnerMatches
<1>00. Owns(frame[t].user, frame[t].sell.stock)
  BY <1>0, CarriedIsThere
<1>1. ASSUME pc'[t] = pc[t], frame'[t].sell = frame[t].sell
      PROVE  Carried(x, t)'
  BY <1>0, <1>1 DEF Carried, Carries
<1>2. CASE SellStep /\ ~SellArm
  <2>1. t # Main
    BY <1>0, <1>2 DEF SellStep, SellPull, SellRecord, SellReserve, SellSwap
  <2>2. CASE SellSwap
    <3>1. Cancelled(pc, uncommitted_sell_timers[frame[Main].user])[t] = pc[t]
      BY <1>0 DEF Cancelled
    <3>2. pc'[t] = pc[t] /\ frame'[t] = frame[t]
      BY <1>0, <2>1, <2>2, <3>1 DEF SellSwap
    <3>. QED
      BY <1>1, <3>2
  <2>3. CASE SellPull \/ SellRecord \/ SellReserve
    <3>1. pc'[t] = pc[t] /\ frame'[t] = frame[t]
      BY <1>0, <2>1, <2>3 DEF SellPull, SellRecord, SellReserve, End, Goto
    <3>. QED
      BY <1>1, <3>1
  <2>. QED
    BY <1>2, <2>2, <2>3 DEF SellStep
<1>3. CASE CommitSettle
  <2>1. t # Main
    <3>1. ASSUME t = Main PROVE FALSE
      <4>1. fate' = [fate EXCEPT ![x].state = "sold"]
        BY <1>0, <1>00, <1>3, <3>1 DEF CommitSettle
      <4>. QED
        BY <1>0, <4>1 DEF Fate
    <3>. QED
      BY <3>1
  <2>. QED
    BY <1>0, <1>1, <1>3, <2>1 DEF CommitSettle, End, Goto
<1>4. ASSUME NEW y \in Threads, CancelRelease(y)
      PROVE  Carried(x, t)'
  <2>1. t # y
    <3>1. ASSUME t = y PROVE FALSE
      <4>1. fate' = [fate EXCEPT ![x].state = "freed"]
        BY <1>0, <1>00, <1>4, <3>1 DEF CancelRelease
      <4>. QED
        BY <1>0, <4>1 DEF Fate
    <3>. QED
      BY <3>1
  <2>. QED
    BY <1>0, <1>1, <1>4, <2>1 DEF CancelRelease, End, Goto
<1>5. ASSUME NEW y \in Threads, CancelTake(y)
      PROVE  Carried(x, t)'
  <2>1. t # y
    BY <1>0, <1>5 DEF CancelTake
  <2>. QED
    BY <1>0, <1>1, <1>5, <2>1 DEF CancelTake, End, Goto
<1>6. ASSUME NEW y \in Threads, NEW u \in Users, CancelTimer(y, u)
      PROVE  Carried(x, t)'
  <2>1. t # y
    BY <1>0, <1>6 DEF CancelTimer
  <2>2. Cancelled(pc, uncommitted_sell_timers[u])[t] = pc[t]
    BY <1>0 DEF Cancelled
  <2>3. pc'[t] = pc[t] /\ frame'[t] = frame[t]
    BY <1>0, <1>6, <2>1, <2>2 DEF CancelTimer
  <2>. QED
    BY <1>1, <2>3
<1>7. ASSUME NEW u \in Users, CommitTake(u)
      PROVE  Carried(x, t)'
  <2>1. t # Main
    BY <1>0, <1>7 DEF CommitTake
  <2>2. Cancelled(pc, uncommitted_sell_timers[u])[t] = pc[t]
    BY <1>0 DEF Cancelled
  <2>3. pc'[t] = pc[t] /\ frame'[t] = frame[t]
    BY <1>0, <1>7, <2>1, <2>2 DEF CommitTake
  <2>. QED
    BY <1>1, <2>3
<1>8. ASSUME NEW y \in SellIds, Fire(y)
      PROVE  Carried(x, t)'
  BY <1>0, <1>1, <1>8 DEF Fire, Goto
<1>9. ASSUME NEW u \in Users, NEW s \in Stocks, NEW a \in Amounts, NEW id \in SellIds,
             NEW v \in Prices, SellCheck(u, s, a, id, v)
      PROVE  Carried(x, t)'
  <2>1. t # Main
    BY <1>0, <1>9 DEF SellCheck
  <2>. QED
    BY <1>0, <1>1, <1>9, <2>1 DEF SellCheck, Goto
<1>10. ASSUME NEW u \in Users, NEW s \in Stocks, NEW n \in Lots, NEW v \in Prices,
              Bought(u, s, n, v)
       PROVE  Carried(x, t)'
  BY <1>1, <1>10 DEF Bought, mem
<1>11. CASE SellArm
  <2>1. PICK i : i = frame[Main].sell.id
    OBVIOUS
  <2>2. pc[i] = "unarmed" /\ i # t /\ t # Main
    BY <1>0, <1>11, <2>1 DEF SellArm, FreshTimers, Arming
  <2>3. /\ pc' = [[pc EXCEPT ![i] = "armed"] EXCEPT ![Main] = "idle"]
        /\ frame' = [frame EXCEPT ![Main] = NoFrame,
                                  ![i] = [NoFrame EXCEPT !.user = frame[Main].user]]
    BY <1>11, <2>1 DEF SellArm, Armed, Started
  <2>4. pc'[t] = pc[t] /\ frame'[t] = frame[t]
    BY <1>0, <2>2, <2>3
  <2>. QED
    BY <1>1, <2>4
<1>12. ~Restart /\ \A y \in Threads : ~Raise(y)
  BY DEF Restart, Raise
<1>. QED
  BY <1>2, <1>3, <1>4, <1>5, <1>6, <1>7, <1>8, <1>9, <1>10, <1>11, <1>12
  DEF Next, CancelStep

(***************************************************************************)
(* Without exceptions and restarts the only step that takes shares out of  *)
(* reach that are set aside is that of a SELL recorded over the one they   *)
(* belong to: COMMIT_SELL, CANCEL_SELL and the timers lose none.           *)
(***************************************************************************)
THEOREM OnlyReplacementStrands ==
    ASSUME ~CanRaise, ~CanRestart, IsFiniteSet(SellIds)
    PROVE  Spec => StrandedOnlyByReplacement
<1>. DEFINE Step == \A x \in SellIds :
                       Owned(x) /\ Aside(x) /\ Aside(x)' /\ ~Owned(x)'
                       => \E u \in Users : Recorded(x, u) /\ uncommitted_sells'[u] # None
<1>1. Init => FreshTimers
  BY DEF Init, FreshTimers, Arming, Threads
<1>2. IInv /\ IInv' /\ FreshTimers /\ [Next]_vars => FreshTimers'
  BY FreshTimersStep
<1>3. IInv /\ FreshTimers /\ Backed /\ Next => Step
  <2>. SUFFICES ASSUME IInv, FreshTimers, Backed, Next, NEW x \in SellIds, Owned(x), Aside(x),
                       Aside(x)', ~Owned(x)'
                PROVE  \E u \in Users : Recorded(x, u) /\ uncommitted_sells'[u] # None
    OBVIOUS
  <2>1. ASSUME NEW t \in Threads, Carried(x, t) PROVE Owned(x)'
    BY <2>1, CarriedStays DEF Owned
  <2>2. PICK u \in Users : Recorded(x, u)
    BY <2>1 DEF Owned
  <2>3. uncommitted_sells'[u] # None
    BY <2>2, TakenIsCarried DEF Owned
  <2>. QED
    BY <2>2, <2>3
<1>4. IInv /\ FreshTimers /\ Backed /\ [Next]_vars => [Step]_vars
  <2>1. CASE Next
    BY <1>3, <2>1
  <2>2. CASE UNCHANGED vars
    BY <2>2
  <2>. QED
    BY <2>1, <2>2
<1>. QED
  BY InvHolds, BackedHolds, <1>1, <1>2, <1>4, PTL DEF Spec, StrandedOnlyByReplacement
===============================================================================
