--------------------------------- MODULE Broker ---------------------------------
(***************************************************************************)
(* RabbitMQ, and the connections of the clients that the repository builds *)
(* on it: the consumers and the publishers of the manager and the workers. *)
(* The broker itself is not part of the repository; what the clients ask   *)
(* of it (exchanges, queues, bindings, acknowledgements) is.               *)
(*                                                                         *)
(* A direct exchange takes commands to the queue "frontend", and another   *)
(* one takes them to the queue of a worker; a fanout exchange takes        *)
(* responses to the queue "confirm" and to the queue of the request that   *)
(* waits in the frontend (reply_queue, in module Frontend).                *)
(***************************************************************************)
EXTENDS Integers, Sequences, FiniteSets, SequencesExt

CONSTANTS
    Commands,   \* the commands that users and workload files issue
    Dumplogs,   \* those that are DUMPLOG
    Workers,    \* the workers, and their queues
    Worker0,    \* the worker of "worker_queue_0"
    WorkerOf,   \* calculate_worker_index: hash of the command's user id
    UserOf,     \* the user of a command
    Starting,   \* the queues whose consumer has not connected yet at first
    Notice,     \* a response that answers no command
    None,       \* Python's None
    MaxFaults   \* bound on the faults (a bound of the model)

Queues == {"frontend", "confirm"} \cup Workers
Publishers == {"balancer"} \cup Workers

ASSUME CommandsAssumption == Dumplogs \subseteq Commands /\ Worker0 \in Workers
ASSUME RoutingAssumption == WorkerOf \in [Commands -> Workers] /\ DOMAIN UserOf = Commands
ASSUME SameUserSameWorker ==
    \A c, d \in Commands : UserOf[c] = UserOf[d] => WorkerOf[c] = WorkerOf[d]
ASSUME NamesAssumption ==
    /\ None \notin Commands \cup {Notice}
    /\ Notice \notin Commands
    /\ {"frontend", "confirm", "balancer"} \cap Workers = {}
ASSUME StartingAssumption == Starting \subseteq Queues
ASSUME FaultsAssumption == MaxFaults \in Nat

Messages == Commands \cup {Notice}

VARIABLES
    queue,       \* the messages of each queue, with those on their way to a
                 \* consumer that acknowledges automatically
    bound,       \* the queues that were declared and bound
    unacked,     \* the message a worker has not acknowledged
    consumer,    \* the connection of each queue's consumer
    publisher,   \* the connection of each publisher
    faults,      \* how many faults there were
    dropped      \* history: the messages that were lost for good

broker == <<queue, bound, unacked, consumer, publisher, faults, dropped>>

(***************************************************************************)
(* A broken connection does not work any more, but the client writes to it *)
(* until it notices; a publisher whose callback raised has ended.          *)
(***************************************************************************)
BrokerTypeOK ==
    /\ queue \in [Queues -> Seq(Messages)]
    /\ bound \subseteq Queues
    /\ unacked \in [Workers -> Messages \cup {None}]
    /\ consumer \in [Queues -> {"up", "down"}]
    /\ publisher \in [Publishers -> {"up", "broken", "down", "ended"}]
    /\ faults \in 0..MaxFaults
    /\ dropped \subseteq Messages

BrokerInit ==
    /\ queue = [q \in Queues |-> << >>]
    /\ bound = Queues \ Starting
    /\ unacked = [w \in Workers |-> None]
    /\ consumer = [q \in Queues |-> IF q \in Starting THEN "down" ELSE "up"]
    /\ publisher = [p \in Publishers |-> "up"]
    /\ faults = 0
    /\ dropped = {}

(***************************************************************************)
(* basic_publish of m, routed to queue q.  It is mandatory, but nobody     *)
(* listens for messages that come back: without the queue it is lost.      *)
(***************************************************************************)
Published(q, m) ==
    IF q \in bound
    THEN queue' = [queue EXCEPT ![q] = Append(@, m)] /\ UNCHANGED dropped
    ELSE dropped' = dropped \cup {m} /\ UNCHANGED queue

Delivered(q) == queue' = [queue EXCEPT ![q] = Tail(@)]

(***************************************************************************)
(* Connection, channel, exchange, queue, binding, basic_consume: the       *)
(* callbacks from on_connection_open to on_basic_qos_ok.  on_bindok: what  *)
(* is published from then on reaches the queue.                            *)
(***************************************************************************)
Bound(q) == bound' = bound \cup {q}

Connect(q) ==
    /\ consumer[q] = "down"
    /\ Bound(q)
    /\ consumer' = [consumer EXCEPT ![q] = "up"]
    /\ UNCHANGED <<queue, unacked, publisher, faults, dropped>>

(***************************************************************************)
(* run and on_connection_closed: 5 seconds after it has noticed that the   *)
(* connection is closed, a client opens a new one.                         *)
(***************************************************************************)
Reopened(state) == IF state = "down" THEN "up" ELSE state

ReconnectPublisher(p) ==
    /\ publisher[p] = "down"
    /\ publisher' = [publisher EXCEPT ![p] = Reopened(@)]
    /\ UNCHANGED <<queue, bound, unacked, consumer, faults, dropped>>

(***************************************************************************)
(* on_channel_closed of a publisher.  The manager's closes a connection    *)
(* that is closed already, which the client library may refuse: the        *)
(* exception ends the publishing thread.                                   *)
(***************************************************************************)
OnChannelClosed(p) ==
    /\ publisher[p] = "broken"
    /\ \E state \in {"down"} \cup (IF p = "balancer" THEN {"ended"} ELSE {}) :
          publisher' = [publisher EXCEPT ![p] = state]
    /\ UNCHANGED <<queue, bound, unacked, consumer, faults, dropped>>

-----------------------------------------------------------------------------
Fault == faults < MaxFaults /\ faults' = faults + 1

(***************************************************************************)
(* The connection of a consumer that acknowledges automatically breaks:    *)
(* the first n messages were on their way to it.                           *)
(***************************************************************************)
BreakAutoAck(q, n) ==
    /\ Fault
    /\ q \in {"frontend", "confirm"}
    /\ consumer[q] = "up"
    /\ n <= Len(queue[q])
    /\ queue' = [queue EXCEPT ![q] = SubSeq(@, n + 1, Len(@))]
    /\ dropped' = dropped \cup ToSet(SubSeq(queue[q], 1, n))
    /\ consumer' = [consumer EXCEPT ![q] = "down"]
    /\ UNCHANGED <<bound, unacked, publisher>>

(***************************************************************************)
(* The connection of a worker's consumer breaks, or its heartbeats stop    *)
(* while its callback waits for space in the buffer: what it has not       *)
(* acknowledged goes back to the head of the queue.                        *)
(***************************************************************************)
Requeued(w) ==
    /\ queue' = [queue EXCEPT ![w] = IF unacked[w] = None THEN @ ELSE <<unacked[w]>> \o @]
    /\ unacked' = [unacked EXCEPT ![w] = None]

BreakConsumer(w) ==
    /\ Fault
    /\ w \in Workers
    /\ consumer[w] = "up"
    /\ Requeued(w)
    /\ consumer' = [consumer EXCEPT ![w] = "down"]
    /\ UNCHANGED <<bound, publisher, dropped>>

BreakPublisher(p) ==
    /\ Fault
    /\ publisher[p] = "up"
    /\ publisher' = [publisher EXCEPT ![p] = "broken"]
    /\ UNCHANGED <<queue, bound, unacked, consumer, dropped>>
=================================================================================
