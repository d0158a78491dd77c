--------------------------------- MODULE Quotes ---------------------------------
(***************************************************************************)
(* get_quote of a worker (worker/src/legacy/quote.py), called by the main  *)
(* thread and by the polling thread.  They share the cache in redis and,   *)
(* without a lock, the global socket s.  The quote server answers the      *)
(* requests of a connection in their order, and may close it.              *)
(*                                                                         *)
(* A price stands for the stock that it is the price of.                   *)
(***************************************************************************)
EXTENDS Integers, Sequences, FiniteSets

CONSTANTS
    Threads,     \* the threads that ask for quotes
    Stocks,
    None,        \* Python's None
    MaxQuotes,   \* bound on the quotes (a bound of the model)
    MaxFaults,   \* bound on closed, refused and slow connections (likewise)
    MaxSockets   \* bound on the sockets (likewise: two threads can replace
                 \* each other's sockets for ever)

ASSUME NoneAssumption == None \notin Stocks
ASSUME BoundsAssumption == {MaxQuotes, MaxFaults, MaxSockets} \subseteq Nat

VARIABLES
    s,           \* the global: the number of the current socket
    conn,        \* the state of each socket that was created
    requests,    \* what the server has to answer on each of them
    answers,     \* what has arrived from it
    hurried,     \* the sockets that were left with a timeout of 2 seconds
    cache,       \* quote_cache: the price of each stock
    pc,          \* where each thread is in get_quote
    stock_name,  \* its argument
    on,          \* the socket on which the thread is in recv
    tries,       \* how many calls of get_quote around this one are in a try
    quotes,      \* how many quotes were asked for
    faults,      \* how many faults there were
    shared,      \* history: a thread needed the socket while another one did
    overlapped   \* history: a thread sent while another one had sent and not
                 \* received its answer or replaced the socket

vars == <<s, conn, requests, answers, hurried, cache, pc, stock_name, on, tries,
          quotes, faults, shared, overlapped>>
socket == <<s, conn, requests, answers, hurried>>
history == <<shared, overlapped>>

PCs == {"idle", "get", "send", "recv", "receiving", "reconnect", "except", "connect"}

TypeOK ==
    /\ s \in 1..Len(conn)
    /\ conn \in Seq({"new", "up", "closed"})
    /\ requests \in Seq(Seq(Stocks)) /\ answers \in Seq(Seq(Stocks))
    /\ Len(requests) = Len(conn) /\ Len(answers) = Len(conn)
    /\ hurried \subseteq 1..Len(conn)
    /\ cache \in [Stocks -> Stocks \cup {None}]
    /\ pc \in [Threads -> PCs]
    /\ stock_name \in [Threads -> Stocks \cup {None}]
    /\ on \in [Threads -> 0..Len(conn)]
    /\ tries \in [Threads -> Nat]
    /\ quotes \in 0..MaxQuotes /\ faults \in 0..MaxFaults
    /\ shared \in BOOLEAN /\ overlapped \in BOOLEAN

Init ==
    /\ s = 1
    /\ conn = <<"new">> /\ requests = << << >> >> /\ answers = << << >> >>
    /\ hurried = {}
    /\ cache = [st \in Stocks |-> None]
    /\ pc = [t \in Threads |-> "idle"]
    /\ stock_name = [t \in Threads |-> None]
    /\ on = [t \in Threads |-> 0]
    /\ tries = [t \in Threads |-> 0]
    /\ quotes = 0 /\ faults = 0
    /\ shared = FALSE /\ overlapped = FALSE

(***************************************************************************)
(* Variants of the definitions that follow, each with one mistake.         *)
(***************************************************************************)
SameSocket(c) == c
Whole(data) == data
RetryAtOnce == "get"

-----------------------------------------------------------------------------
GoTo(t, label) == pc' = [pc EXCEPT ![t] = label]
Stays(t, label) == GoTo(t, label) /\ UNCHANGED tries
Returns(t) == GoTo(t, "idle") /\ tries' = [tries EXCEPT ![t] = 0]
Fault == faults < MaxFaults /\ faults' = faults + 1
Others(t, labels) == \E u \in Threads \ {t} : pc[u] \in labels

(* A handler, or the polling thread, asks for the quote of a stock. *)
Ask(t, st) ==
    /\ pc[t] = "idle"
    /\ quotes < MaxQuotes
    /\ quotes' = quotes + 1
    /\ stock_name' = [stock_name EXCEPT ![t] = st]
    /\ Stays(t, "get")
    /\ UNCHANGED <<socket, cache, on, faults, history>>

(* quote_cache.get: the cached price, if there is one, is returned. *)
Get(t) ==
    /\ pc[t] = "get"
    /\ IF cache[stock_name[t]] # None
       THEN Returns(t) /\ UNCHANGED shared
       ELSE /\ Stays(t, "send")
            /\ shared' = (shared \/ Others(t, PCs \ {"idle", "get"}))
    /\ UNCHANGED <<socket, cache, stock_name, on, quotes, faults, overlapped>>

(***************************************************************************)
(* s.send: what is sent to a server that has closed the connection may be  *)
(* accepted by the operating system all the same.                          *)
(***************************************************************************)
Send(t) ==
    /\ pc[t] = "send"
    /\ \/ /\ conn[s] = "up"
          /\ requests' = [requests EXCEPT ![s] = Append(@, stock_name[t])]
          /\ Stays(t, "recv")
       \/ /\ conn[s] = "closed"
          /\ Stays(t, "recv") /\ UNCHANGED requests
       \/ /\ conn[s] # "up"
          /\ Stays(t, "except") /\ UNCHANGED requests
    /\ overlapped' =
          \/ overlapped
          \/ conn[s] # "new" /\ Others(t, {"recv", "receiving", "except"})
    /\ UNCHANGED <<s, conn, answers, hurried, cache, stock_name, on, quotes, faults, shared>>

(* s.recv, of the socket that s is by now. *)
Recv(t) ==
    /\ pc[t] = "recv"
    /\ \/ conn[s] = "new" /\ Stays(t, "except") /\ UNCHANGED on
       \/ conn[s] # "new" /\ Stays(t, "receiving") /\ on' = [on EXCEPT ![t] = s]
    /\ UNCHANGED <<socket, cache, stock_name, quotes, faults, history>>

(***************************************************************************)
(* What has arrived is received, up to 1024 bytes of it, whichever answers *)
(* these are; the first number is the price that is cached and returned.   *)
(***************************************************************************)
Price(data) == data[1]

Leaves(t) == on' = [on EXCEPT ![t] = 0]

Received(t) ==
    LET arrived == answers[on[t]]
    IN  /\ pc[t] = "receiving"
        /\ \E n \in 1..Len(arrived) :
              /\ answers' = [answers EXCEPT ![on[t]] = SubSeq(@, n + 1, Len(@))]
              /\ cache' = [cache EXCEPT ![stock_name[t]] = Price(SubSeq(arrived, 1, n))]
        /\ Leaves(t)
        /\ Returns(t)
        /\ UNCHANGED <<s, conn, requests, hurried, stock_name, quotes, faults, history>>

(***************************************************************************)
(* The connection is closed, and what had arrived has been read: recv      *)
(* returns nothing, and get_quote connects again; or it raises.            *)
(***************************************************************************)
AfterEmpty == "reconnect"

ReceivedNothing(t) ==
    /\ pc[t] = "receiving"
    /\ conn[on[t]] = "closed"
    /\ answers[on[t]] = << >>
    /\ Stays(t, AfterEmpty) \/ Stays(t, "except")
    /\ Leaves(t)
    /\ UNCHANGED <<socket, cache, stock_name, quotes, faults, history>>

TimesOut(t) ==
    /\ Fault
    /\ pc[t] = "receiving"
    /\ on[t] \in hurried
    /\ Stays(t, "except")
    /\ Leaves(t)
    /\ UNCHANGED <<socket, cache, stock_name, quotes, history>>

(***************************************************************************)
(* quote_server_connect, on the socket that s is by now.  Where it raises, *)
(* the socket keeps its timeout; a socket that was connected before cannot *)
(* be connected.                                                           *)
(***************************************************************************)
Connects ==
    /\ conn[s] = "new"
    /\ conn' = [conn EXCEPT ![s] = "up"]
    /\ hurried' = hurried \ {s}
    /\ UNCHANGED <<s, requests, answers, faults>>

IsConnected ==
    /\ conn[s] # "new"
    /\ hurried' = hurried \cup {s}
    /\ UNCHANGED <<s, conn, requests, answers, faults>>

CannotConnect ==
    /\ Fault
    /\ conn[s] = "new"
    /\ hurried' = hurried \cup {s}
    /\ UNCHANGED <<s, conn, requests, answers>>

(***************************************************************************)
(* After recv has returned nothing, inside the try, and so is the call of  *)
(* get_quote that follows.                                                 *)
(***************************************************************************)
Reconnect(t) ==
    /\ pc[t] = "reconnect"
    /\ \/ Connects /\ GoTo(t, "get") /\ tries' = [tries EXCEPT ![t] = @ + 1]
       \/ (IsConnected \/ CannotConnect) /\ Stays(t, "except")
    /\ UNCHANGED <<cache, stock_name, on, quotes, history>>

(***************************************************************************)
(* except socket.error: a new socket, which is connected.  After a timeout *)
(* get_quote begins again; every other exception leaves this call of it.   *)
(***************************************************************************)
NewSocket(c) == Len(conn) + 1

Except(t) ==
    /\ pc[t] = "except"
    /\ Len(conn) < MaxSockets
    /\ s' = NewSocket(s)
    /\ conn' = Append(conn, "new")
    /\ requests' = Append(requests, << >>)
    /\ answers' = Append(answers, << >>)
    /\ Stays(t, "connect")
    /\ UNCHANGED <<hurried, cache, stock_name, on, quotes, faults, history>>

Raises(t) ==
    \/ tries[t] = 0 /\ Returns(t)
    \/ tries[t] > 0 /\ GoTo(t, "except") /\ tries' = [tries EXCEPT ![t] = @ - 1]

ConnectAgain(t) ==
    /\ pc[t] = "connect"
    /\ \/ Connects /\ Stays(t, "get")
       \/ IsConnected /\ Raises(t)
       \/ CannotConnect /\ (Stays(t, "get") \/ Raises(t))
    /\ UNCHANGED <<cache, stock_name, on, quotes, history>>

-----------------------------------------------------------------------------
(* A socket that no variable holds any more is closed by the client. *)
Open(k) == k = s \/ \E t \in Threads : on[t] = k

(* The server answers the next request of a connection. *)
Answer(k) ==
    /\ Open(k)
    /\ conn[k] = "up"
    /\ requests[k] # << >>
    /\ requests' = [requests EXCEPT ![k] = Tail(@)]
    /\ answers' = [answers EXCEPT ![k] = Append(@, Head(requests[k]))]
    /\ UNCHANGED <<s, conn, hurried, cache, pc, stock_name, on, tries, quotes, faults, history>>

(* It closes a connection. *)
Close(k) ==
    /\ Fault
    /\ Open(k)
    /\ conn[k] = "up"
    /\ conn' = [conn EXCEPT ![k] = "closed"]
    /\ requests' = [requests EXCEPT ![k] = << >>]
    /\ UNCHANGED <<s, answers, hurried, cache, pc, stock_name, on, tries, quotes, history>>

GetQuote(t) ==
    \/ Get(t) \/ Send(t) \/ Recv(t) \/ Received(t) \/ ReceivedNothing(t)
    \/ TimesOut(t) \/ Reconnect(t) \/ Except(t) \/ ConnectAgain(t)

Next ==
    \/ \E t \in Threads : GetQuote(t) \/ \E st \in Stocks : Ask(t, st)
    \/ \E k \in DOMAIN conn : Answer(k) \/ Close(k)

Spec == Init /\ [][Next]_vars

(***************************************************************************)
(* The threads run, and the server answers what it does not refuse: with   *)
(* no timeout on recv, one that is silent stops the worker.                *)
(***************************************************************************)
Fairness ==
    /\ \A t \in Threads : WF_vars(GetQuote(t))
    /\ WF_vars(\E k \in DOMAIN conn : Answer(k))

FairSpec == Spec /\ Fairness

-----------------------------------------------------------------------------
(***************************************************************************)
(* The price that get_quote caches and returns is that of the stock it was *)
(* asked for, across closed connections, late answers and sockets that     *)
(* another thread has replaced, unless a thread has sent its request while *)
(* another one was waiting for its answer, or had given it up but not yet  *)
(* replaced the socket.                                                    *)
(***************************************************************************)
OwnPrice == overlapped \/ \A st \in Stocks : cache[st] \in {None, st}

(***************************************************************************)
(* However often its connection is closed, get_quote returns or raises,    *)
(* unless two threads have needed the socket at the same time.             *)
(***************************************************************************)
Answered == \A t \in Threads : pc[t] # "idle" ~> pc[t] = "idle" \/ shared
=================================================================================
