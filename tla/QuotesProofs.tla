------------------------------ MODULE QuotesProofs ------------------------------
(***************************************************************************)
(* Proofs about Quotes, for any number of threads, stocks, sockets and     *)
(* faults.                                                                 *)
(***************************************************************************)
EXTENDS Quotes, TLAPS

(***************************************************************************)
(* A thread in get_quote has its argument; one in recv has a socket.       *)
(***************************************************************************)
Arguments ==
    \A t \in Threads :
        /\ pc[t] # "idle" => stock_name[t] \in Stocks
        /\ pc[t] = "receiving" => on[t] \in 1..Len(conn)

Typed == TypeOK /\ Arguments

(***************************************************************************)
(* Nothing is left on a socket: no request, and no answer.                 *)
(***************************************************************************)
Clean(k) == answers[k] = << >> /\ requests[k] = << >>

(***************************************************************************)
(* The thread t is waiting, or about to wait, for what arrives on k.       *)
(***************************************************************************)
Awaits(t, k) ==
    \/ pc[t] = "recv" /\ k = s
    \/ pc[t] = "receiving" /\ k = on[t]

(***************************************************************************)
(* What is on a socket belongs to the thread that awaits it.               *)
(***************************************************************************)
Own(t, k) ==
    /\ \A i \in DOMAIN answers[k] : answers[k][i] = stock_name[t]
    /\ \A i \in DOMAIN requests[k] : requests[k][i] = stock_name[t]

(***************************************************************************)
(* Nothing was sent on a new socket, and a closed one answers no more.     *)
(***************************************************************************)
Sockets ==
    \A k \in DOMAIN conn :
        /\ conn[k] = "new" => Clean(k)
        /\ conn[k] = "closed" => requests[k] = << >>

(***************************************************************************)
(* Unless threads overlapped: a socket holds one request or answer at      *)
(* most, of the thread that awaits it; and the current socket is clean, or *)
(* somebody awaits what is on it, or is about to replace it.               *)
(***************************************************************************)
AtMostOne == \A k \in DOMAIN conn : Len(answers[k]) + Len(requests[k]) <= 1

OwnAnswers == \A t \in Threads, k \in DOMAIN conn : Awaits(t, k) => Own(t, k)

Awaited == Clean(s) \/ \E t \in Threads : Awaits(t, s) \/ pc[t] = "except"

Alone == AtMostOne /\ OwnAnswers /\ Awaited

IInv == Typed /\ Sockets /\ (overlapped \/ Alone) /\ OwnPrice
-----------------------------------------------------------------------------
(***************************************************************************)
(* The lists of the sockets.                                               *)
(***************************************************************************)

(* What changes when the list of one socket does.                          *)
LEMMA OneChanged ==
    ASSUME NEW S, NEW f \in Seq(Seq(S)), NEW k \in DOMAIN f, NEW v \in Seq(S)
    PROVE  /\ [f EXCEPT ![k] = v] \in Seq(Seq(S))
           /\ Len([f EXCEPT ![k] = v]) = Len(f)
           /\ [f EXCEPT ![k] = v][k] = v
           /\ \A j \in DOMAIN f \ {k} : [f EXCEPT ![k] = v][j] = f[j]
OBVIOUS

(* A list that is given an element, loses its first ones, or the first one. *)
LEMMA Lists ==
    ASSUME NEW S, NEW q \in Seq(S)
    PROVE  /\ Len(q) \in Nat
           /\ \A x \in S : /\ Append(q, x) \in Seq(S)
                           /\ Len(Append(q, x)) = Len(q) + 1
                           /\ \A i \in DOMAIN Append(q, x) :
                                 (i \in DOMAIN q /\ Append(q, x)[i] = q[i]) \/ Append(q, x)[i] = x
           /\ \A n \in 1..Len(q) : /\ SubSeq(q, n + 1, Len(q)) \in Seq(S)
                                   /\ Len(SubSeq(q, n + 1, Len(q))) = Len(q) - n
                                   /\ \A i \in DOMAIN SubSeq(q, n + 1, Len(q)) :
                                         /\ i + n \in DOMAIN q
                                         /\ SubSeq(q, n + 1, Len(q))[i] = q[i + n]
           /\ q # << >> => /\ Tail(q) \in Seq(S) /\ Len(Tail(q)) = Len(q) - 1
                           /\ Head(q) \in S /\ Head(q) = q[1] /\ 1 \in DOMAIN q
                           /\ \A i \in DOMAIN Tail(q) : i + 1 \in DOMAIN q /\ Tail(q)[i] = q[i + 1]
<1>1. \A x \in S : /\ Append(q, x) \in Seq(S)
                   /\ Len(Append(q, x)) = Len(q) + 1
                   /\ \A i \in DOMAIN Append(q, x) :
                         (i \in DOMAIN q /\ Append(q, x)[i] = q[i]) \/ Append(q, x)[i] = x
  OBVIOUS
<1>2. ASSUME NEW n \in 1..Len(q)
      PROVE  /\ SubSeq(q, n + 1, Len(q)) \in Seq(S)
             /\ Len(SubSeq(q, n + 1, Len(q))) = Len(q) - n
             /\ \A i \in DOMAIN SubSeq(q, n + 1, Len(q)) :
                   /\ i + n \in DOMAIN q
                   /\ SubSeq(q, n + 1, Len(q))[i] = q[i + n]
  OBVIOUS
<1>3. q # << >> => /\ Tail(q) \in Seq(S) /\ Len(Tail(q)) = Len(q) - 1
                   /\ Head(q) \in S /\ Head(q) = q[1] /\ 1 \in DOMAIN q
                   /\ \A i \in DOMAIN Tail(q) : i + 1 \in DOMAIN q /\ Tail(q)[i] = q[i + 1]
  OBVIOUS
<1>. QED
  BY <1>1, <1>2, <1>3

(* An empty list, and a list of one element.                               *)
LEMMA Nothing == \A q : q = << >> => Len(q) = 0 /\ DOMAIN q = {}
OBVIOUS

(* A list that is given its first element.                                 *)
LEMMA Single ==
    \A q, x : q = Append(<< >>, x) => Len(q) = 1 /\ \A i \in DOMAIN q : q[i] = x
OBVIOUS

(* A list that is given one more.                                          *)
LEMMA OneMore ==
    ASSUME NEW S, NEW f \in Seq(S), NEW v \in S
    PROVE  /\ Append(f, v) \in Seq(S)
           /\ Len(Append(f, v)) = Len(f) + 1
           /\ DOMAIN Append(f, v) = DOMAIN f \cup {Len(f) + 1}
           /\ Append(f, v)[Len(f) + 1] = v
           /\ \A j \in DOMAIN f : Append(f, v)[j] = f[j] /\ j # Len(f) + 1
OBVIOUS

-----------------------------------------------------------------------------
(***************************************************************************)
(* Type correctness.                                                       *)
(***************************************************************************)

(* The initial state is well typed.                                        *)
LEMMA TypedInit == Init => Typed
<1>. SUFFICES ASSUME Init PROVE Typed
  OBVIOUS
<1>. USE DEF Init
<1>1. conn \in Seq({"new", "up", "closed"}) /\ Len(conn) = 1
  OBVIOUS
<1>2. requests \in Seq(Seq(Stocks)) /\ Len(requests) = 1
  <2>1. << >> \in Seq(Stocks)
    OBVIOUS
  <2>. QED
    BY <2>1
<1>3. answers \in Seq(Seq(Stocks)) /\ Len(answers) = 1
  <2>1. << >> \in Seq(Stocks)
    OBVIOUS
  <2>. QED
    BY <2>1
<1>4. MaxQuotes \in Nat /\ MaxFaults \in Nat
  BY BoundsAssumption
<1>5. /\ s \in 1..Len(conn) /\ hurried \subseteq 1..Len(conn)
      /\ quotes \in 0..MaxQuotes /\ faults \in 0..MaxFaults
  BY <1>1, <1>4
<1>6. /\ cache \in [Stocks -> Stocks \cup {None}]
      /\ pc \in [Threads -> PCs]
      /\ stock_name \in [Threads -> Stocks \cup {None}]
      /\ on \in [Threads -> 0..Len(conn)]
      /\ tries \in [Threads -> Nat]
  BY <1>1 DEF PCs
<1>7. shared \in BOOLEAN /\ overlapped \in BOOLEAN
  OBVIOUS
<1>8. Arguments
  BY DEF Arguments
<1>. QED
  BY <1>1, <1>2, <1>3, <1>5, <1>6, <1>7, <1>8 DEF Typed, TypeOK

(* A thread that goes on stays within get_quote.                           *)
LEMMA MovesOn ==
    ASSUME Typed, NEW t \in Threads, NEW l \in PCs,
           Stays(t, l) \/ (GoTo(t, l) /\ tries' = [tries EXCEPT ![t] = @ + 1])
    PROVE  /\ pc' = [pc EXCEPT ![t] = l]
           /\ pc' \in [Threads -> PCs] /\ tries' \in [Threads -> Nat]
<1>1. pc \in [Threads -> PCs] /\ tries \in [Threads -> Nat]
  BY DEF Typed, TypeOK
<1>2. pc' = [pc EXCEPT ![t] = l] /\ pc' \in [Threads -> PCs]
  BY <1>1 DEF Stays, GoTo
<1>3. CASE Stays(t, l)
  BY <1>1, <1>2, <1>3 DEF Stays
<1>4. CASE tries' = [tries EXCEPT ![t] = @ + 1]
  BY <1>1, <1>2, <1>4
<1>. QED
  BY <1>2, <1>3, <1>4

(* One that returns leaves it.                                             *)
LEMMA MovesOut ==
    ASSUME Typed, NEW t \in Threads, Returns(t)
    PROVE  /\ pc' = [pc EXCEPT ![t] = "idle"]
           /\ pc' \in [Threads -> PCs] /\ tries' \in [Threads -> Nat]
BY DEF Typed, TypeOK, Returns, GoTo, PCs

(* What a step of a thread does to its position.                           *)
LEMMA Moves ==
    ASSUME Typed, NEW t \in Threads, GetQuote(t)
    PROVE  /\ pc[t] # "idle"
           /\ \E l \in PCs : pc' = [pc EXCEPT ![t] = l]
           /\ tries' \in [Threads -> Nat]
           /\ UNCHANGED <<stock_name, quotes>>
<1>1. tries[t] \in Nat /\ PCs \subseteq PCs /\ "idle" \in PCs
  BY DEF Typed, TypeOK, PCs
<1>2. CASE Get(t) \/ Received(t)
  <2>1. \/ Returns(t)
        \/ Stays(t, "send")
    BY <1>2 DEF Get, Received
  <2>. QED
    BY <1>1, <1>2, <2>1, MovesOn, MovesOut DEF Get, Received, PCs
<1>3. CASE Send(t) \/ Recv(t)
  <2>1. Stays(t, "recv") \/ Stays(t, "except") \/ Stays(t, "receiving")
    BY <1>3 DEF Send, Recv
  <2>. QED
    BY <1>3, <2>1, MovesOn DEF Send, Recv, PCs
<1>4. CASE ReceivedNothing(t) \/ TimesOut(t) \/ Except(t)
  <2>1. Stays(t, "reconnect") \/ Stays(t, "except") \/ Stays(t, "connect")
    BY <1>4 DEF ReceivedNothing, AfterEmpty, TimesOut, Except
  <2>. QED
    BY <1>4, <2>1, MovesOn DEF ReceivedNothing, TimesOut, Except, PCs
<1>5. CASE Reconnect(t)
  <2>1. \/ Stays(t, "except")
        \/ GoTo(t, "get") /\ tries' = [tries EXCEPT ![t] = @ + 1]
    BY <1>5 DEF Reconnect
  <2>. QED
    BY <1>5, <2>1, MovesOn DEF Reconnect, PCs
<1>6. CASE ConnectAgain(t)
  <2>1. Stays(t, "get") \/ Raises(t)
    BY <1>6 DEF ConnectAgain
  <2>2. CASE Raises(t)
    <3>1. CASE Returns(t)
      BY <1>6, <3>1, MovesOut, <1>1 DEF ConnectAgain
    <3>2. CASE tries[t] > 0 /\ GoTo(t, "except") /\ tries' = [tries EXCEPT ![t] = @ - 1]
      <4>1. tries[t] - 1 \in Nat
        BY <1>1, <3>2
      <4>. QED
        BY <1>6, <3>2, <4>1 DEF ConnectAgain, GoTo, PCs, Typed, TypeOK
    <3>. QED
      BY <2>2, <3>1, <3>2 DEF Raises
  <2>. QED
    BY <1>6, <2>1, <2>2, MovesOn DEF ConnectAgain, PCs
<1>. QED
  BY <1>2, <1>3, <1>4, <1>5, <1>6 DEF GetQuote

(* The sockets and what is on them stay well typed.                        *)
SocketsTyped ==
    /\ s \in 1..Len(conn)
    /\ conn \in Seq({"new", "up", "closed"})
    /\ requests \in Seq(Seq(Stocks)) /\ answers \in Seq(Seq(Stocks))
    /\ Len(requests) = Len(conn) /\ Len(answers) = Len(conn)
    /\ hurried \subseteq 1..Len(conn)

(***************************************************************************)
(* What a step does to the sockets.                                        *)
(***************************************************************************)
Sends(t) ==
    /\ pc[t] = "send" /\ conn[s] = "up"
    /\ requests' = [requests EXCEPT ![s] = Append(@, stock_name[t])]
    /\ UNCHANGED <<s, conn, answers>>

Receives(t) ==
    /\ pc[t] = "receiving"
    /\ \E n \in 1..Len(answers[on[t]]) :
           answers' = [answers EXCEPT ![on[t]] = SubSeq(@, n + 1, Len(@))]
    /\ UNCHANGED <<s, conn, requests>>

Replaces(t) ==
    /\ pc[t] = "except"
    /\ s' = Len(conn) + 1
    /\ conn' = Append(conn, "new")
    /\ requests' = Append(requests, << >>)
    /\ answers' = Append(answers, << >>)

Connected ==
    /\ conn[s] = "new"
    /\ conn' = [conn EXCEPT ![s] = "up"]
    /\ UNCHANGED <<s, requests, answers>>

Untouched == UNCHANGED <<s, conn, requests, answers>>

(* Every step does one of these to the sockets.                            *)
LEMMA SocketSteps ==
    ASSUME [Next]_vars
    PROVE  \/ \E t \in Threads : Send(t) /\ Sends(t)
           \/ \E t \in Threads : Received(t) /\ Receives(t)
           \/ \E t \in Threads : Except(t) /\ Replaces(t)
           \/ \E t \in Threads : (Reconnect(t) \/ ConnectAgain(t)) /\ Connected
           \/ \E k \in DOMAIN conn : Answer(k) \/ Close(k)
           \/ Untouched
<1>1. ASSUME NEW t \in Threads, GetQuote(t)
      PROVE  \/ Send(t) /\ Sends(t)
             \/ Received(t) /\ Receives(t)
             \/ Except(t) /\ Replaces(t)
             \/ (Reconnect(t) \/ ConnectAgain(t)) /\ Connected
             \/ Untouched
  <2>1. CASE Get(t) \/ Recv(t) \/ ReceivedNothing(t) \/ TimesOut(t)
    BY <2>1 DEF Get, Recv, ReceivedNothing, TimesOut, socket, Untouched
  <2>2. CASE Send(t)
    BY <2>2 DEF Send, Sends, Untouched
  <2>3. CASE Received(t)
    BY <2>3 DEF Received, Receives
  <2>4. CASE Except(t)
    BY <2>4 DEF Except, NewSocket, Replaces
  <2>5. CASE Reconnect(t) \/ ConnectAgain(t)
    <3>1. Connects \/ IsConnected \/ CannotConnect
      BY <2>5 DEF Reconnect, ConnectAgain
    <3>. QED
      BY <2>5, <3>1 DEF Connects, IsConnected, CannotConnect, Connected, Untouched
  <2>. QED
    BY <1>1, <2>1, <2>2, <2>3, <2>4, <2>5 DEF GetQuote
<1>2. ASSUME NEW t \in Threads, NEW st \in Stocks, Ask(t, st)
      PROVE  Untouched
  BY <1>2 DEF Ask, socket, Untouched
<1>3. UNCHANGED vars => Untouched
  BY DEF vars, Untouched
<1>. QED
  BY <1>1, <1>2, <1>3 DEF Next

(* The sockets stay well typed.                                            *)
LEMMA SocketsTypedStep ==
    ASSUME Typed, [Next]_vars
    PROVE  SocketsTyped'
<1>0. SocketsTyped /\ DOMAIN conn = 1..Len(conn) /\ Len(conn) \in Nat
      /\ DOMAIN requests = DOMAIN conn /\ DOMAIN answers = DOMAIN conn
  BY DEF Typed, TypeOK, SocketsTyped
<1>. USE DEF SocketsTyped
<1>h. hurried' \subseteq 1..Len(conn)
  <2>1. ASSUME NEW t \in Threads, GetQuote(t) PROVE hurried' \subseteq 1..Len(conn)
    BY <1>0, <2>1
    DEF GetQuote, Get, Send, Recv, Received, ReceivedNothing, TimesOut, Reconnect, Except,
        ConnectAgain, Connects, IsConnected, CannotConnect, socket
  <2>. QED
    BY <1>0, <2>1 DEF Next, Ask, Answer, Close, vars, socket
<1>1. ASSUME NEW t \in Threads, Sends(t) PROVE SocketsTyped'
  <2>1. stock_name[t] \in Stocks
    BY <1>1 DEF Sends, Typed, Arguments
  <2>2. Append(requests[s], stock_name[t]) \in Seq(Stocks)
    BY <1>0, <2>1
  <2>3. requests' \in Seq(Seq(Stocks)) /\ Len(requests') = Len(requests)
    BY <1>0, <1>1, <2>2, OneChanged DEF Sends
  <2>. QED
    BY <1>0, <1>1, <1>h, <2>3 DEF Sends
<1>2. ASSUME NEW t \in Threads, Receives(t) PROVE SocketsTyped'
  <2>1. on[t] \in DOMAIN answers
    BY <1>0, <1>2 DEF Receives, Typed, Arguments
  <2>2. PICK n \in 1..Len(answers[on[t]]) :
            answers' = [answers EXCEPT ![on[t]] = SubSeq(@, n + 1, Len(@))]
    BY <1>2 DEF Receives
  <2>0. answers[on[t]] \in Seq(Stocks)
    BY <1>0, <2>1
  <2>3. SubSeq(answers[on[t]], n + 1, Len(answers[on[t]])) \in Seq(Stocks)
    BY <2>0, Lists
  <2>4. answers' \in Seq(Seq(Stocks)) /\ Len(answers') = Len(answers)
    BY <1>0, <2>1, <2>2, <2>3, OneChanged
  <2>. QED
    BY <1>0, <1>2, <1>h, <2>4 DEF Receives
<1>3. ASSUME NEW t \in Threads, Replaces(t) PROVE SocketsTyped'
  <2>1. << >> \in Seq(Stocks)
    OBVIOUS
  <2>2. /\ requests' \in Seq(Seq(Stocks)) /\ Len(requests') = Len(requests) + 1
        /\ answers' \in Seq(Seq(Stocks)) /\ Len(answers') = Len(answers) + 1
    <3>1. requests' = Append(requests, << >>) /\ answers' = Append(answers, << >>)
      BY <1>3 DEF Replaces
    <3>2. requests \in Seq(Seq(Stocks)) /\ answers \in Seq(Seq(Stocks))
      BY <1>0
    <3>3. Append(requests, << >>) \in Seq(Seq(Stocks)) /\ Len(Append(requests, << >>)) = Len(requests) + 1
      BY <2>1, <3>2, OneMore
    <3>4. Append(answers, << >>) \in Seq(Seq(Stocks)) /\ Len(Append(answers, << >>)) = Len(answers) + 1
      BY <2>1, <3>2, OneMore
    <3>. QED
      BY <3>1, <3>3, <3>4
  <2>3. conn' \in Seq({"new", "up", "closed"}) /\ Len(conn') = Len(conn) + 1
    BY <1>0, <1>3 DEF Replaces
  <2>. QED
    BY <1>0, <1>3, <1>h, <2>2, <2>3 DEF Replaces
<1>4. CASE Connected
  <2>1. conn' \in Seq({"new", "up", "closed"}) /\ Len(conn') = Len(conn)
    BY <1>0, <1>4 DEF Connected
  <2>. QED
    BY <1>0, <1>4, <1>h, <2>1 DEF Connected
<1>5. ASSUME NEW k \in DOMAIN conn, Answer(k) PROVE SocketsTyped'
  <2>1. requests[k] \in Seq(Stocks) /\ answers[k] \in Seq(Stocks) /\ requests[k] # << >>
    BY <1>0, <1>5 DEF Answer
  <2>2. Tail(requests[k]) \in Seq(Stocks) /\ Append(answers[k], Head(requests[k])) \in Seq(Stocks)
    BY <2>1
  <2>3. requests' \in Seq(Seq(Stocks)) /\ Len(requests') = Len(requests)
    BY <1>0, <1>5, <2>2, OneChanged DEF Answer
  <2>4. answers' \in Seq(Seq(Stocks)) /\ Len(answers') = Len(answers)
    BY <1>0, <1>5, <2>2, OneChanged DEF Answer
  <2>. QED
    BY <1>0, <1>5, <1>h, <2>3, <2>4 DEF Answer
<1>6. ASSUME NEW k \in DOMAIN conn, Close(k) PROVE SocketsTyped'
  <2>1. << >> \in Seq(Stocks)
    OBVIOUS
  <2>2. requests' \in Seq(Seq(Stocks)) /\ Len(requests') = Len(requests)
    BY <1>0, <1>6, <2>1, OneChanged DEF Close
  <2>3. conn' \in Seq({"new", "up", "closed"}) /\ Len(conn') = Len(conn)
    BY <1>0, <1>6 DEF Close
  <2>. QED
    BY <1>0, <1>6, <1>h, <2>2, <2>3 DEF Close
<1>7. CASE Untouched
  BY <1>0, <1>7, <1>h DEF Untouched
<1>. QED
  BY <1>1, <1>2, <1>3, <1>4, <1>5, <1>6, <1>7, SocketSteps

(* No step makes the list of sockets shorter.                              *)
LEMMA MoreSockets ==
    ASSUME Typed, [Next]_vars
    PROVE  DOMAIN conn \subseteq DOMAIN conn' /\ Len(conn) \in Nat /\ Len(conn') \in Nat
           /\ DOMAIN conn = 1..Len(conn) /\ DOMAIN conn' = 1..Len(conn')
<1>1. conn \in Seq({"new", "up", "closed"}) /\ conn' \in Seq({"new", "up", "closed"})
  BY SocketsTypedStep DEF Typed, TypeOK, SocketsTyped
<1>2. conn' = conn \/ Len(conn') = Len(conn) + 1 \/ Len(conn') = Len(conn)
  <2>1. ASSUME NEW t \in Threads, Replaces(t) PROVE Len(conn') = Len(conn) + 1
    BY <1>1, <2>1 DEF Replaces
  <2>2. ASSUME NEW k \in DOMAIN conn, Close(k) PROVE Len(conn') = Len(conn)
    BY <1>1, <2>2 DEF Close
  <2>3. CASE Connected
    BY <1>1, <2>3 DEF Connected
  <2>. QED
    BY <2>1, <2>2, <2>3, SocketSteps DEF Sends, Receives, Answer, Untouched
<1>. QED
  BY <1>1, <1>2

(* Every step keeps the state well typed.                                  *)
LEMMA TypedStep ==
    ASSUME Typed, Sockets, [Next]_vars
    PROVE  Typed'
<1>0. TypeOK /\ Arguments
  BY DEF Typed
<1>1. SocketsTyped'
  BY SocketsTypedStep
<1>2. on' \in [Threads -> 0..Len(conn)]
  <2>1. on \in [Threads -> 0..Len(conn)] /\ s \in 0..Len(conn) /\ 0 \in 0..Len(conn)
    BY <1>0 DEF TypeOK
  <2>2. ASSUME NEW t \in Threads, GetQuote(t) PROVE on' \in [Threads -> 0..Len(conn)]
    BY <2>1, <2>2
    DEF GetQuote, Get, Send, Recv, Received, ReceivedNothing, TimesOut, Reconnect, Except,
        ConnectAgain, Leaves
  <2>. QED
    BY <2>1, <2>2 DEF Next, Ask, Answer, Close, vars
<1>3. on' \in [Threads -> 0..Len(conn')]
  BY <1>2, MoreSockets
<1>4. /\ pc' \in [Threads -> PCs] /\ tries' \in [Threads -> Nat]
      /\ stock_name' \in [Threads -> Stocks \cup {None}]
      /\ quotes' \in 0..MaxQuotes
  <2>1. ASSUME NEW t \in Threads, GetQuote(t)
        PROVE  /\ pc' \in [Threads -> PCs] /\ tries' \in [Threads -> Nat]
               /\ UNCHANGED <<stock_name, quotes>>
    BY <2>1, Moves DEF Typed, TypeOK
  <2>2. ASSUME NEW t \in Threads, NEW st \in Stocks, Ask(t, st)
        PROVE  /\ pc' \in [Threads -> PCs] /\ tries' \in [Threads -> Nat]
               /\ stock_name' \in [Threads -> Stocks \cup {None}]
               /\ quotes' \in 0..MaxQuotes
    <3>1. "get" \in PCs /\ Stays(t, "get")
      BY <2>2 DEF PCs, Ask
    <3>2. quotes' \in 0..MaxQuotes
      BY <1>0, <2>2, BoundsAssumption DEF Ask, TypeOK
    <3>. QED
      BY <1>0, <2>2, <3>1, <3>2, MovesOn DEF Ask, TypeOK
  <2>. QED
    BY <1>0, <2>1, <2>2 DEF Next, Answer, Close, vars, TypeOK
<1>5. faults' \in 0..MaxFaults
  <2>1. \/ faults' = faults
        \/ faults < MaxFaults /\ faults' = faults + 1
    BY DEF Next, GetQuote, Get, Send, Recv, Received, ReceivedNothing, TimesOut, Reconnect,
           Except, ConnectAgain, Connects, IsConnected, CannotConnect, Ask, Answer, Close,
           Fault, vars
  <2>. QED
    BY <1>0, <2>1, BoundsAssumption DEF TypeOK
<1>6. cache' \in [Stocks -> Stocks \cup {None}]
  <2>1. ASSUME NEW t \in Threads, Received(t)
        PROVE  cache' \in [Stocks -> Stocks \cup {None}]
    <3>1. /\ pc[t] = "receiving" /\ stock_name[t] \in Stocks
          /\ answers[on[t]] \in Seq(Stocks)
      BY <1>0, <2>1 DEF Received, Arguments, TypeOK
    <3>2. PICK n \in 1..Len(answers[on[t]]) :
              cache' = [cache EXCEPT ![stock_name[t]] = Price(SubSeq(answers[on[t]], 1, n))]
      BY <2>1 DEF Received
    <3>3. Price(SubSeq(answers[on[t]], 1, n)) \in Stocks
      BY <3>1 DEF Price
    <3>. QED
      BY <1>0, <3>1, <3>2, <3>3 DEF TypeOK
  <2>. QED
    BY <1>0, <2>1
    DEF Next, GetQuote, Get, Send, Recv, ReceivedNothing, TimesOut, Reconnect, Except,
        ConnectAgain, Ask, Answer, Close, vars, TypeOK
<1>7. shared' \in BOOLEAN /\ overlapped' \in BOOLEAN
  BY <1>0
  DEF Next, GetQuote, Get, Send, Recv, Received, ReceivedNothing, TimesOut, Reconnect,
      Except, ConnectAgain, Ask, Answer, Close, vars, history, Others, TypeOK
<1>8. TypeOK'
  BY <1>1, <1>3, <1>4, <1>5, <1>6, <1>7 DEF TypeOK, SocketsTyped
<1>9. Arguments'
  <2>1. ASSUME NEW t \in Threads, GetQuote(t), NEW u \in Threads,
        pc'[u] # "idle"
        PROVE  pc[u] # "idle" /\ stock_name'[u] = stock_name[u]
    BY <1>0, <2>1, Moves DEF TypeOK
  <2>2. ASSUME NEW u \in Threads, pc'[u] # "idle"
        PROVE  stock_name'[u] \in Stocks
    <3>1. ASSUME NEW t \in Threads, NEW st \in Stocks, Ask(t, st)
          PROVE  stock_name'[u] \in Stocks
      BY <1>0, <2>2, <3>1 DEF Ask, Stays, GoTo, TypeOK, Arguments
    <3>. QED
      BY <1>0, <2>1, <2>2, <3>1 DEF Next, Answer, Close, vars, Arguments
  <2>3. ASSUME NEW u \in Threads, pc'[u] = "receiving"
        PROVE  on'[u] \in 1..Len(conn)
    <3>1. ASSUME NEW t \in Threads, Recv(t) PROVE on'[u] \in 1..Len(conn)
      BY <1>0, <2>3, <3>1 DEF Recv, Stays, GoTo, TypeOK, Arguments
    <3>2. ASSUME NEW t \in Threads, GetQuote(t), ~Recv(t)
          PROVE  pc[u] = "receiving" /\ on'[u] = on[u]
      BY <1>0, <2>3, <3>2
      DEF GetQuote, Get, Send, Received, ReceivedNothing, TimesOut, Reconnect, Except,
          ConnectAgain, Raises, Stays, Returns, GoTo, Leaves, AfterEmpty, TypeOK
    <3>3. ASSUME NEW t \in Threads, NEW st \in Stocks, Ask(t, st)
          PROVE  pc[u] = "receiving" /\ on'[u] = on[u]
      BY <1>0, <2>3, <3>3 DEF Ask, Stays, GoTo, TypeOK
    <3>. QED
      BY <1>0, <2>3, <3>1, <3>2, <3>3 DEF Next, Answer, Close, vars, Arguments
  <2>4. 1..Len(conn) \subseteq 1..Len(conn')
    BY MoreSockets
  <2>. QED
    BY <2>2, <2>3, <2>4 DEF Arguments
<1>. QED
  BY <1>8, <1>9 DEF Typed

-----------------------------------------------------------------------------
(***************************************************************************)
(* What is on the sockets, and whose it is.                                *)
(***************************************************************************)

(* What an executed step of the server or of a thread meets.               *)
LEMMA Lengths ==
    ASSUME Typed
    PROVE  /\ DOMAIN requests = DOMAIN conn /\ DOMAIN answers = DOMAIN conn
           /\ s \in DOMAIN conn
           /\ \A k \in DOMAIN conn : /\ requests[k] \in Seq(Stocks) /\ answers[k] \in Seq(Stocks)
                                     /\ Len(requests[k]) \in Nat /\ Len(answers[k]) \in Nat
                                     /\ (requests[k] = << >>) = (Len(requests[k]) = 0)
                                     /\ (answers[k] = << >>) = (Len(answers[k]) = 0)
           /\ \A t \in Threads : pc[t] = "receiving" => on[t] \in DOMAIN conn
<1>1. /\ conn \in Seq({"new", "up", "closed"})
      /\ requests \in Seq(Seq(Stocks)) /\ answers \in Seq(Seq(Stocks))
      /\ Len(requests) = Len(conn) /\ Len(answers) = Len(conn)
      /\ s \in 1..Len(conn)
      /\ \A t \in Threads : pc[t] = "receiving" => on[t] \in 1..Len(conn)
  BY DEF Typed, TypeOK, Arguments
<1>2. DOMAIN requests = DOMAIN conn /\ DOMAIN answers = DOMAIN conn /\ DOMAIN conn = 1..Len(conn)
  BY <1>1
<1>3. ASSUME NEW k \in DOMAIN conn
      PROVE  requests[k] \in Seq(Stocks) /\ answers[k] \in Seq(Stocks)
  BY <1>1, <1>2
<1>. QED
  BY <1>1, <1>2, <1>3

(* A new socket is clean, and a closed one has no requests.                *)
LEMMA SocketsStep ==
    ASSUME Typed, Sockets, [Next]_vars
    PROVE  Sockets'
<1>. SUFFICES ASSUME NEW k \in DOMAIN conn'
              PROVE  /\ conn'[k] = "new" => Clean(k)'
                     /\ conn'[k] = "closed" => requests'[k] = << >>
  BY DEF Sockets
<1>0. /\ conn \in Seq({"new", "up", "closed"})
      /\ requests \in Seq(Seq(Stocks)) /\ answers \in Seq(Seq(Stocks))
      /\ Len(requests) = Len(conn) /\ Len(answers) = Len(conn)
  BY DEF Typed, TypeOK
<1>1. ASSUME NEW t \in Threads, Sends(t)
      PROVE  /\ conn'[k] = "new" => Clean(k)'
             /\ conn'[k] = "closed" => requests'[k] = << >>
  BY <1>1, Lengths DEF Sends, Sockets, Clean
<1>2. ASSUME NEW t \in Threads, Receives(t)
      PROVE  /\ conn'[k] = "new" => Clean(k)'
             /\ conn'[k] = "closed" => requests'[k] = << >>
  <2>1. on[t] \in DOMAIN conn /\ answers[on[t]] # << >>
    BY <1>2, Lengths DEF Receives
  <2>. QED
    BY <1>2, <2>1, Lengths DEF Receives, Sockets, Clean
<1>3. ASSUME NEW t \in Threads, Replaces(t)
      PROVE  /\ conn'[k] = "new" => Clean(k)'
             /\ conn'[k] = "closed" => requests'[k] = << >>
  <2>1. << >> \in Seq(Stocks)
    OBVIOUS
  <2>2. CASE k = Len(conn) + 1
    BY <1>0, <1>3, <2>1, <2>2, OneMore DEF Replaces, Clean
  <2>3. CASE k \in DOMAIN conn
    <3>1. conn'[k] = conn[k]
      BY <1>0, <1>3, <2>3, OneMore DEF Replaces
    <3>2. requests'[k] = requests[k] /\ answers'[k] = answers[k]
      BY <1>0, <1>3, <2>1, <2>3, OneMore, Lengths DEF Replaces
    <3>. QED
      BY <2>3, <3>1, <3>2 DEF Sockets, Clean
  <2>4. k \in DOMAIN conn \/ k = Len(conn) + 1
    BY <1>0, <1>3, OneMore DEF Replaces
  <2>. QED
    BY <2>2, <2>3, <2>4
<1>4. CASE Connected
  BY <1>4, Lengths DEF Connected, Sockets, Clean
<1>5. ASSUME NEW j \in DOMAIN conn, Answer(j) \/ Close(j)
      PROVE  /\ conn'[k] = "new" => Clean(k)'
             /\ conn'[k] = "closed" => requests'[k] = << >>
  BY <1>5, Lengths DEF Answer, Close, Sockets, Clean
<1>6. CASE Untouched
  BY <1>6 DEF Untouched, Sockets, Clean
<1>. QED
  BY <1>1, <1>2, <1>3, <1>4, <1>5, <1>6, SocketSteps

(* What is on the sockets stays where no thread that waits, or gives up,   *)
(* moves, and none begins to wait.                                         *)
LEMMA Bystander ==
    ASSUME Alone, UNCHANGED <<s, requests, answers, on>>, DOMAIN conn' = DOMAIN conn,
           \A u \in Threads :
              /\ pc[u] \in {"recv", "receiving", "except"} => pc'[u] = pc[u]
              /\ pc'[u] \in {"recv", "receiving"} => pc'[u] = pc[u]
              /\ pc'[u] \in {"recv", "receiving"} => stock_name'[u] = stock_name[u]
    PROVE  Alone'
<1>1. ASSUME NEW u \in Threads, NEW k, Awaits(u, k)'
      PROVE  Awaits(u, k) /\ stock_name'[u] = stock_name[u]
  BY <1>1 DEF Awaits
<1>2. AtMostOne'
  BY DEF Alone, AtMostOne
<1>3. OwnAnswers'
  BY <1>1 DEF Alone, OwnAnswers, Own
<1>4. Awaited'
  BY DEF Alone, Awaited, Clean, Awaits
<1>. QED
  BY <1>2, <1>3, <1>4 DEF Alone

(* A thread that sends, without another one that waits or gives up.        *)
LEMMA SendAlone ==
    ASSUME Typed, Sockets, Alone, NEW t \in Threads, Send(t), ~overlapped'
    PROVE  Alone'
<1>0. pc \in [Threads -> PCs] /\ pc[t] = "send"
  BY DEF Typed, TypeOK, Send
<1>1. UNCHANGED <<s, conn, answers, on, stock_name>>
  BY DEF Send
<1>2. \A u \in Threads \ {t} : pc'[u] = pc[u]
  BY <1>0 DEF Send, Stays, GoTo
<1>3. pc'[t] = "recv" \/ (pc'[t] = "except" /\ UNCHANGED requests)
  BY <1>0 DEF Send, Stays, GoTo
<1>4. conn[s] = "new" \/ \A u \in Threads \ {t} : pc[u] \notin {"recv", "receiving", "except"}
  BY DEF Send, Others
<1>5. Clean(s)
  <2>1. CASE conn[s] = "new"
    BY <2>1, Lengths DEF Sockets
  <2>2. CASE conn[s] # "new"
    BY <2>2, <1>0, <1>4 DEF Alone, Awaited, Awaits
  <2>. QED
    BY <2>1, <2>2
<1>6. CASE conn[s] = "new"
  <2>1. UNCHANGED requests /\ pc'[t] = "except"
    BY <1>0, <1>6 DEF Send, Stays, GoTo
  <2>2. ASSUME NEW u \in Threads, NEW k, Awaits(u, k)'
        PROVE  Awaits(u, k)
    BY <2>1, <2>2, <1>1, <1>2 DEF Awaits
  <2>3. AtMostOne' /\ Awaited'
    BY <2>1, <1>1, <1>5 DEF Alone, AtMostOne, Awaited, Clean
  <2>4. OwnAnswers'
    BY <2>1, <2>2, <1>1 DEF Alone, OwnAnswers, Own
  <2>. QED
    BY <2>3, <2>4 DEF Alone
<1>7. CASE conn[s] # "new"
  <2>1. \A k \in DOMAIN conn \ {s} : requests'[k] = requests[k]
    BY Lengths DEF Send
  <2>2. requests'[s] = << >> \/ requests'[s] = Append(<< >>, stock_name[t])
    BY <1>5, Lengths DEF Send, Clean
  <2>3. /\ Len(requests'[s]) <= 1
        /\ \A i \in DOMAIN requests'[s] : requests'[s][i] = stock_name[t]
    <3>1. CASE requests'[s] = << >>
      BY <3>1, Nothing
    <3>2. CASE requests'[s] = Append(<< >>, stock_name[t])
      BY <3>2, Single
    <3>. QED
      BY <2>2, <3>1, <3>2
  <2>4. Len(requests'[s]) \in Nat
    BY <2>2, Nothing, Single
  <2>5. AtMostOne'
    <3>. SUFFICES ASSUME NEW k \in DOMAIN conn
                  PROVE  Len(answers[k]) + Len(requests'[k]) <= 1
      BY <1>1 DEF AtMostOne
    <3>1. CASE k = s
      BY <3>1, <1>5, <2>3, <2>4, Nothing DEF Clean
    <3>2. CASE k # s
      BY <3>2, <2>1 DEF Alone, AtMostOne
    <3>. QED
      BY <3>1, <3>2
  <2>6. OwnAnswers'
    <3>1. ASSUME NEW u \in Threads, NEW k, Awaits(u, k)'
          PROVE  u = t /\ k = s
      BY <3>1, <1>0, <1>1, <1>2, <1>3, <1>4, <1>7 DEF Awaits
    <3>2. Own(t, s)'
      BY <1>1, <1>5, <2>3 DEF Own, Clean
    <3>. QED
      BY <3>1, <3>2, <1>1 DEF OwnAnswers
  <2>7. Awaited'
    BY <1>1, <1>3 DEF Awaited, Awaits
  <2>. QED
    BY <2>5, <2>6, <2>7 DEF Alone
<1>. QED
  BY <1>6, <1>7

(* A thread that has sent goes into recv.                                  *)
LEMMA RecvAlone ==
    ASSUME Typed, Alone, NEW t \in Threads, Recv(t)
    PROVE  Alone'
<1>0. /\ pc \in [Threads -> PCs] /\ pc[t] = "recv"
      /\ on \in [Threads -> 0..Len(conn)]
  BY DEF Typed, TypeOK, Recv
<1>1. UNCHANGED <<s, conn, requests, answers, stock_name>>
  BY DEF Recv, socket
<1>2. \A u \in Threads \ {t} : pc'[u] = pc[u] /\ on'[u] = on[u]
  BY <1>0 DEF Recv, Stays, GoTo
<1>3. pc'[t] = "except" \/ (pc'[t] = "receiving" /\ on'[t] = s)
  BY <1>0 DEF Recv, Stays, GoTo
<1>4. ASSUME NEW u \in Threads, NEW k, Awaits(u, k)'
      PROVE  Awaits(u, k)
  BY <1>0, <1>1, <1>2, <1>3, <1>4 DEF Awaits
<1>5. ASSUME NEW u \in Threads, Awaits(u, s)
      PROVE  Awaits(u, s)' \/ pc'[u] = "except"
  BY <1>0, <1>1, <1>2, <1>3, <1>5 DEF Awaits
<1>6. ASSUME NEW u \in Threads, pc[u] = "except" PROVE pc'[u] = "except"
  BY <1>0, <1>2, <1>6
<1>7. AtMostOne'
  BY <1>1 DEF Alone, AtMostOne
<1>8. OwnAnswers'
  BY <1>1, <1>4 DEF Alone, OwnAnswers, Own
<1>9. Awaited'
  <2>1. (\E u \in Threads : Awaits(u, s) \/ pc[u] = "except")
        => \E u \in Threads : Awaits(u, s)' \/ pc'[u] = "except"
    BY <1>5, <1>6
  <2>. QED
    BY <1>1, <2>1 DEF Alone, Awaited, Clean, Awaits
<1>. QED
  BY <1>7, <1>8, <1>9 DEF Alone

(* A thread that no longer waits leaves nothing behind on its socket, or   *)
(* gives up.                                                               *)
LEMMA LeavesAlone ==
    ASSUME Typed, Sockets, Alone, NEW t \in Threads,
           Received(t) \/ ReceivedNothing(t) \/ TimesOut(t)
    PROVE  Alone'
<1>0. /\ pc \in [Threads -> PCs] /\ pc[t] = "receiving"
      /\ on \in [Threads -> 0..Len(conn)] /\ on[t] \in DOMAIN conn
  BY Lengths DEF Typed, TypeOK, Received, ReceivedNothing, TimesOut
<1>w. PICK w \in DOMAIN conn : w = on[t]
  BY <1>0
<1>1. UNCHANGED <<s, conn, requests, stock_name>>
  BY DEF Received, ReceivedNothing, TimesOut, socket
<1>2. \A u \in Threads \ {t} : pc'[u] = pc[u] /\ on'[u] = on[u]
  BY <1>0 DEF Received, ReceivedNothing, TimesOut, Stays, Returns, GoTo, Leaves
<1>3. pc'[t] \in {"idle", "reconnect", "except"}
  BY <1>0 DEF Received, ReceivedNothing, TimesOut, Stays, Returns, GoTo, AfterEmpty
<1>4. \A k \in DOMAIN conn \ {w} : answers'[k] = answers[k]
  BY <1>w, Lengths DEF Received, ReceivedNothing, TimesOut, socket
<1>5. Clean(w)' \/ (pc'[t] = "except" /\ UNCHANGED answers)
  <2>1. CASE Received(t)
    <3>1. PICK n \in 1..Len(answers[on[t]]) :
              answers' = [answers EXCEPT ![on[t]] = SubSeq(@, n + 1, Len(@))]
      BY <2>1 DEF Received
    <3>2. /\ answers[on[t]] \in Seq(Stocks) /\ requests[on[t]] \in Seq(Stocks)
          /\ Len(answers[on[t]]) \in Nat /\ Len(requests[on[t]]) \in Nat
          /\ Len(answers[on[t]]) + Len(requests[on[t]]) <= 1
      BY <1>0, Lengths DEF Alone, AtMostOne
    <3>3. n = Len(answers[on[t]]) /\ Len(requests[on[t]]) = 0
      <4>1. \A i, j, m \in Nat : i + j <= 1 /\ 1 <= m /\ m <= i => m = i /\ j = 0
        OBVIOUS
      <4>2. n \in Nat /\ 1 <= n /\ n <= Len(answers[on[t]])
        BY <3>2
      <4>. QED
        BY <3>2, <4>1, <4>2
    <3>4. answers'[on[t]] = << >>
      <4>1. answers'[on[t]] = SubSeq(answers[on[t]], n + 1, Len(answers[on[t]]))
        BY <1>0, <3>1, Lengths
      <4>. QED
        BY <3>2, <3>3, <4>1
    <3>5. requests'[on[t]] = << >>
      BY <1>0, <1>1, <3>3, Lengths
    <3>. QED
      BY <1>w, <3>4, <3>5 DEF Clean
  <2>2. CASE ReceivedNothing(t)
    <3>1. answers[on[t]] = << >> /\ requests[on[t]] = << >> /\ UNCHANGED answers
      BY <2>2, <1>0 DEF ReceivedNothing, socket, Sockets
    <3>. QED
      BY <3>1, <1>1, <1>w DEF Clean
  <2>3. CASE TimesOut(t)
    BY <2>3, <1>0 DEF TimesOut, Stays, GoTo, socket
  <2>. QED
    BY <2>1, <2>2, <2>3
<1>6. ASSUME NEW u \in Threads, NEW k, Awaits(u, k)'
      PROVE  Awaits(u, k) /\ u # t
  BY <1>0, <1>1, <1>2, <1>3, <1>6 DEF Awaits
<1>7. ASSUME NEW u \in Threads, u # t, Awaits(u, s) \/ pc[u] = "except"
      PROVE  Awaits(u, s)' \/ pc'[u] = "except"
  BY <1>1, <1>2, <1>7 DEF Awaits
<1>8. AtMostOne'
  <2>. SUFFICES ASSUME NEW k \in DOMAIN conn
                PROVE  Len(answers'[k]) + Len(requests[k]) <= 1
    BY <1>1 DEF AtMostOne
  <2>1. CASE answers'[k] = answers[k]
    BY <2>1 DEF Alone, AtMostOne
  <2>2. CASE k = w /\ Clean(w)'
    <3>1. answers'[k] = << >> /\ requests[k] = << >>
      BY <2>2, <1>1 DEF Clean
    <3>. QED
      BY <3>1, Nothing
  <2>. QED
    BY <1>4, <1>5, <2>1, <2>2
<1>9. OwnAnswers'
  <2>. SUFFICES ASSUME NEW u \in Threads, NEW k \in DOMAIN conn, Awaits(u, k)'
                PROVE  Own(u, k)'
    BY <1>1 DEF OwnAnswers
  <2>1. CASE answers'[k] = answers[k]
    BY <2>1, <1>1, <1>6 DEF Alone, OwnAnswers, Own
  <2>2. CASE k = w /\ Clean(w)'
    BY <2>2, Nothing DEF Clean, Own
  <2>. QED
    BY <1>4, <1>5, <2>1, <2>2
<1>10. Awaited'
  <2>1. CASE pc'[t] = "except"
    BY <2>1 DEF Awaited
  <2>2. CASE s = w /\ Clean(w)'
    BY <2>2, <1>1 DEF Awaited, Clean
  <2>3. CASE s # w
    <3>1. Clean(s) => Clean(s)'
      BY <2>3, <1>1, <1>4, Lengths DEF Clean
    <3>2. ~Awaits(t, s) /\ pc[t] # "except"
      BY <2>3, <1>0, <1>w DEF Awaits
    <3>3. (\E u \in Threads : Awaits(u, s) \/ pc[u] = "except")
          => \E u \in Threads : Awaits(u, s)' \/ pc'[u] = "except"
      BY <1>7, <3>2
    <3>. QED
      BY <1>1, <3>1, <3>3 DEF Alone, Awaited, Clean, Awaits
  <2>. QED
    BY <1>5, <2>1, <2>2, <2>3
<1>. QED
  BY <1>8, <1>9, <1>10 DEF Alone

(* A new socket is clean.                                                  *)
LEMMA ReplacesAlone ==
    ASSUME Typed, Alone, NEW t \in Threads, Except(t), Replaces(t)
    PROVE  Alone'
<1>0. /\ conn \in Seq({"new", "up", "closed"})
      /\ requests \in Seq(Seq(Stocks)) /\ answers \in Seq(Seq(Stocks))
      /\ Len(requests) = Len(conn) /\ Len(answers) = Len(conn)
      /\ pc \in [Threads -> PCs]
  BY DEF Typed, TypeOK
<1>1. << >> \in Seq(Stocks)
  OBVIOUS
<1>2. /\ DOMAIN conn' = DOMAIN conn \cup {s'}
      /\ s' = Len(conn) + 1
  BY <1>0, OneMore DEF Replaces
<1>3. requests'[s'] = << >> /\ \A k \in DOMAIN conn : requests'[k] = requests[k] /\ k # s'
  BY <1>0, <1>1, OneMore, Lengths DEF Replaces
<1>4. answers'[s'] = << >> /\ \A k \in DOMAIN conn : answers'[k] = answers[k]
  BY <1>0, <1>1, OneMore, Lengths DEF Replaces
<1>5. AtMostOne'
  <2>. SUFFICES ASSUME NEW k \in DOMAIN conn'
                PROVE  Len(answers'[k]) + Len(requests'[k]) <= 1
    BY DEF AtMostOne
  <2>1. CASE k = s'
    <3>1. Len(answers'[k]) = 0 /\ Len(requests'[k]) = 0
      BY <2>1, <1>3, <1>4, Nothing
    <3>. QED
      BY <3>1
  <2>2. CASE k \in DOMAIN conn
    BY <2>2, <1>3, <1>4 DEF Alone, AtMostOne
  <2>. QED
    BY <1>2, <2>1, <2>2
<1>6. OwnAnswers'
  <2>. SUFFICES ASSUME NEW u \in Threads, NEW k \in DOMAIN conn', Awaits(u, k)'
                PROVE  Own(u, k)'
    BY DEF OwnAnswers
  <2>1. CASE k = s'
    BY <2>1, <1>3, <1>4, Nothing DEF Own
  <2>2. CASE k # s'
    <3>1. UNCHANGED <<on, stock_name>> /\ pc'[u] = "receiving" /\ k = on[u] /\ k \in DOMAIN conn
      BY <2>2, <1>2 DEF Awaits, Except
    <3>2. pc[u] = "receiving"
      BY <1>0, <3>1 DEF Except, Stays, GoTo
    <3>. QED
      BY <3>1, <3>2, <1>3, <1>4 DEF Alone, OwnAnswers, Awaits, Own
  <2>. QED
    BY <2>1, <2>2
<1>7. Awaited'
  BY <1>3, <1>4 DEF Awaited, Clean
<1>. QED
  BY <1>5, <1>6, <1>7 DEF Alone

(* The server answers for the thread that waits, or closes.                *)
LEMMA ServerAlone ==
    ASSUME Typed, Sockets, Alone, NEW j \in DOMAIN conn, Answer(j) \/ Close(j)
    PROVE  Alone'
<1>1. UNCHANGED <<s, pc, on, stock_name>> /\ DOMAIN conn' = DOMAIN conn
  BY DEF Answer, Close
<1>2. \A k \in DOMAIN conn \ {j} : requests'[k] = requests[k] /\ answers'[k] = answers[k]
  BY Lengths DEF Answer, Close
<1>3. /\ requests[j] \in Seq(Stocks) /\ answers[j] \in Seq(Stocks)
      /\ Len(answers[j]) + Len(requests[j]) <= 1
      /\ Len(requests[j]) \in Nat /\ Len(answers[j]) \in Nat
  BY Lengths DEF Alone, AtMostOne
<1>4. /\ Len(answers'[j]) + Len(requests'[j]) <= 1
      /\ \A t \in Threads : Own(t, j) => Own(t, j)'
      /\ Clean(j) => Clean(j)'
  <2>1. CASE Answer(j)
    <3>1. /\ requests'[j] = Tail(requests[j]) /\ requests[j] # << >>
          /\ answers'[j] = Append(answers[j], Head(requests[j]))
      BY <2>1, Lengths DEF Answer
    <3>2. /\ Len(requests'[j]) = Len(requests[j]) - 1
          /\ Head(requests[j]) = requests[j][1] /\ 1 \in DOMAIN requests[j]
          /\ Head(requests[j]) \in Stocks
          /\ \A i \in DOMAIN requests'[j] :
                i + 1 \in DOMAIN requests[j] /\ requests'[j][i] = requests[j][i + 1]
      BY <1>3, <3>1, Lists
    <3>3. /\ Len(answers'[j]) = Len(answers[j]) + 1
          /\ \A i \in DOMAIN answers'[j] :
                \/ i \in DOMAIN answers[j] /\ answers'[j][i] = answers[j][i]
                \/ answers'[j][i] = Head(requests[j])
      BY <1>3, <3>1, <3>2, Lists
    <3>4. ASSUME NEW t \in Threads, Own(t, j) PROVE Own(t, j)'
      <4>1. \A i \in DOMAIN answers'[j] : answers'[j][i] = stock_name[t]
        BY <3>2, <3>3, <3>4 DEF Own
      <4>2. \A i \in DOMAIN requests'[j] : requests'[j][i] = stock_name[t]
        BY <3>2, <3>4 DEF Own
      <4>. QED
        BY <4>1, <4>2, <1>1 DEF Own
    <3>5. Len(answers'[j]) + Len(requests'[j]) <= 1
      <4>1. \A a \in Nat, b \in Nat : a + b <= 1 => (a + 1) + (b - 1) <= 1
        OBVIOUS
      <4>. QED
        BY <1>3, <3>2, <3>3, <4>1
    <3>6. ~Clean(j)
      BY <3>1 DEF Clean
    <3>. QED
      BY <3>4, <3>5, <3>6
  <2>2. CASE Close(j)
    <3>1. requests'[j] = << >> /\ answers'[j] = answers[j]
      BY <2>2, Lengths DEF Close
    <3>2. Len(requests'[j]) = 0 /\ DOMAIN requests'[j] = {}
      BY <3>1, Nothing
    <3>3. Len(answers'[j]) + Len(requests'[j]) <= 1
      <4>1. \A a \in Nat, b \in Nat : a + b <= 1 => a + 0 <= 1
        OBVIOUS
      <4>. QED
        BY <3>1, <3>2, <1>3, <4>1
    <3>4. \A t \in Threads : Own(t, j) => Own(t, j)'
      BY <3>1, <3>2, <1>1 DEF Own
    <3>. QED
      BY <3>1, <3>3, <3>4 DEF Clean
  <2>. QED
    BY <2>1, <2>2
<1>5. AtMostOne'
  <2>. SUFFICES ASSUME NEW k \in DOMAIN conn
                PROVE  Len(answers'[k]) + Len(requests'[k]) <= 1
    BY <1>1 DEF AtMostOne
  <2>. QED
    BY <1>2, <1>4 DEF Alone, AtMostOne
<1>6. OwnAnswers'
  <2>. SUFFICES ASSUME NEW u \in Threads, NEW k \in DOMAIN conn, Awaits(u, k)'
                PROVE  Own(u, k)'
    BY <1>1 DEF OwnAnswers
  <2>1. Own(u, k)
    BY <1>1 DEF Alone, OwnAnswers, Awaits
  <2>. QED
    BY <2>1, <1>1, <1>2, <1>4 DEF Own
<1>7. Awaited'
  <2>1. Clean(s) => Clean(s)'
    BY <1>1, <1>2, <1>4, Lengths DEF Clean
  <2>. QED
    BY <2>1, <1>1 DEF Alone, Awaited, Clean, Awaits
<1>. QED
  BY <1>5, <1>6, <1>7 DEF Alone

(* No step lets the threads overlap and forgets it.                        *)
LEMMA Overlap ==
    ASSUME TypeOK, [Next]_vars, overlapped
    PROVE  overlapped'
BY DEF Next, GetQuote, Get, Send, Recv, Received, ReceivedNothing, TimesOut, Reconnect,
       Except, ConnectAgain, Ask, Answer, Close, vars, history

(* As long as no threads have overlapped, what is on a socket is the       *)
(* answer, or the request, of the thread that waits for it.                *)
LEMMA AloneStep ==
    ASSUME Typed, Sockets, overlapped \/ Alone, [Next]_vars
    PROVE  overlapped' \/ Alone'
<1>. SUFFICES ASSUME ~overlapped' PROVE Alone'
  OBVIOUS
<1>0. Alone /\ pc \in [Threads -> PCs] /\ stock_name \in [Threads -> Stocks \cup {None}]
      /\ conn \in Seq({"new", "up", "closed"})
  BY Overlap DEF Typed, TypeOK
<1>1. ASSUME NEW t \in Threads, GetQuote(t) PROVE Alone'
  <2>1. CASE Get(t)
    <3>1. /\ UNCHANGED <<s, conn, requests, answers, on, stock_name>>
          /\ \A u \in Threads \ {t} : pc'[u] = pc[u]
          /\ pc[t] = "get" /\ pc'[t] \in {"idle", "send"}
      BY <1>0, <2>1 DEF Get, Returns, Stays, GoTo, socket
    <3>. QED
      BY <1>0, <3>1, Bystander
  <2>2. CASE Reconnect(t) \/ ConnectAgain(t)
    <3>1. Connects \/ IsConnected \/ CannotConnect
      BY <2>2 DEF Reconnect, ConnectAgain
    <3>2. UNCHANGED <<s, requests, answers>> /\ DOMAIN conn' = DOMAIN conn
      BY <1>0, <3>1 DEF Connects, IsConnected, CannotConnect
    <3>3. /\ UNCHANGED <<on, stock_name>>
          /\ \A u \in Threads \ {t} : pc'[u] = pc[u]
          /\ pc[t] \in {"reconnect", "connect"} /\ pc'[t] \in {"idle", "get", "except"}
      BY <1>0, <2>2 DEF Reconnect, ConnectAgain, Raises, Returns, Stays, GoTo
    <3>. QED
      BY <1>0, <3>2, <3>3, Bystander
  <2>3. CASE Except(t)
    BY <1>0, <2>3, ReplacesAlone DEF Except, NewSocket, Replaces
  <2>. QED
    BY <1>0, <1>1, <2>1, <2>2, <2>3, SendAlone, RecvAlone, LeavesAlone DEF GetQuote
<1>2. ASSUME NEW t \in Threads, NEW st \in Stocks, Ask(t, st) PROVE Alone'
  <2>1. /\ UNCHANGED <<s, conn, requests, answers, on>>
        /\ \A u \in Threads \ {t} : pc'[u] = pc[u] /\ stock_name'[u] = stock_name[u]
        /\ pc[t] = "idle" /\ pc'[t] = "get"
    BY <1>0, <1>2 DEF Ask, Stays, GoTo, socket
  <2>. QED
    BY <1>0, <2>1, Bystander
<1>3. CASE UNCHANGED vars
  BY <1>0, <1>3, Bystander DEF vars
<1>. QED
  BY <1>0, <1>1, <1>2, <1>3, ServerAlone DEF Next

(* And what is received is the price of the thread's own stock.            *)
LEMMA OwnPriceStep ==
    ASSUME Typed, overlapped \/ Alone, OwnPrice, [Next]_vars
    PROVE  OwnPrice'
<1>. SUFFICES ASSUME ~overlapped', NEW st \in Stocks PROVE cache'[st] \in {None, st}
  BY DEF OwnPrice
<1>0. /\ Alone /\ cache[st] \in {None, st}
      /\ cache \in [Stocks -> Stocks \cup {None}]
  BY Overlap DEF OwnPrice, Typed, TypeOK
<1>1. ASSUME NEW t \in Threads, Received(t)
      PROVE  cache'[st] \in {None, st}
  <2>1. /\ pc[t] = "receiving" /\ on[t] \in DOMAIN conn /\ stock_name[t] \in Stocks
        /\ answers[on[t]] \in Seq(Stocks)
    BY <1>1, Lengths DEF Received, Typed, Arguments
  <2>2. PICK n \in 1..Len(answers[on[t]]) :
            cache' = [cache EXCEPT ![stock_name[t]] = Price(SubSeq(answers[on[t]], 1, n))]
    BY <1>1 DEF Received
  <2>3. Price(SubSeq(answers[on[t]], 1, n)) = answers[on[t]][1] /\ 1 \in DOMAIN answers[on[t]]
    BY <2>1 DEF Price
  <2>4. answers[on[t]][1] = stock_name[t]
    BY <1>0, <2>1, <2>3 DEF Alone, OwnAnswers, Awaits, Own
  <2>. QED
    BY <1>0, <2>1, <2>2, <2>3, <2>4
<1>. QED
  BY <1>0, <1>1
  DEF Next, GetQuote, Get, Send, Recv, ReceivedNothing, TimesOut, Reconnect, Except,
      ConnectAgain, Ask, Answer, Close, vars

-----------------------------------------------------------------------------
(* The initial state has one new socket, and nothing on it.                *)
LEMMA Start == Init => IInv
<1>. SUFFICES ASSUME Init PROVE IInv
  OBVIOUS
<1>1. Typed
  BY TypedInit
<1>2. DOMAIN conn = {1} /\ s = 1 /\ Clean(1) /\ conn[1] = "new"
  BY DEF Init, Clean
<1>3. Sockets
  BY <1>2 DEF Sockets, Clean
<1>4. AtMostOne
  <2>1. Len(answers[1]) = 0 /\ Len(requests[1]) = 0
    BY <1>2, Nothing DEF Clean
  <2>2. Len(answers[1]) + Len(requests[1]) <= 1
    BY <2>1
  <2>. QED
    BY <1>2, <2>2 DEF AtMostOne
<1>5. OwnAnswers /\ Awaited
  BY <1>2 DEF OwnAnswers, Awaited, Awaits, Init
<1>6. OwnPrice
  BY DEF Init, OwnPrice
<1>. QED
  BY <1>1, <1>3, <1>4, <1>5, <1>6 DEF IInv, Alone

(***************************************************************************)
(* The inductive invariant: types; a socket that is new is clean, and a    *)
(* closed one has no requests; and as long as no threads have overlapped,  *)
(* what is on a socket is of the thread that waits for it.                 *)
(***************************************************************************)
THEOREM InvHolds == Spec => []IInv
<1>1. Init => IInv
  BY Start
<1>2. IInv /\ [Next]_vars => IInv'
  <2>. SUFFICES ASSUME IInv, [Next]_vars PROVE IInv'
    OBVIOUS
  <2>1. Typed /\ Sockets /\ (overlapped \/ Alone) /\ OwnPrice
    BY DEF IInv
  <2>2. Typed' /\ Sockets'
    BY <2>1, TypedStep, SocketsStep
  <2>3. (overlapped \/ Alone)'
    BY <2>1, AloneStep
  <2>4. OwnPrice'
    BY <2>1, OwnPriceStep
  <2>. QED
    BY <2>2, <2>3, <2>4 DEF IInv
<1>. QED
  BY <1>1, <1>2, PTL DEF Spec

(***************************************************************************)
(* Sockets, requests, answers and threads are what get_quote makes them.   *)
(***************************************************************************)
THEOREM TypeCorrect == Spec => []TypeOK
<1>1. IInv => TypeOK
  BY DEF IInv, Typed
<1>. QED
  BY <1>1, InvHolds, PTL

(***************************************************************************)
(* get_quote caches and returns the price of the stock it was asked for,   *)
(* for any number of threads, stocks, sockets and faults, unless a thread  *)
(* has sent while another one was waiting for its answer or had given it   *)
(* up.                                                                     *)
(***************************************************************************)
THEOREM OwnPriceHolds == Spec => []OwnPrice
<1>1. IInv => OwnPrice
  BY DEF IInv
<1>. QED
  BY <1>1, InvHolds, PTL

===============================================================================
