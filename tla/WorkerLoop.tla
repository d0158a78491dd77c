------------------------------- MODULE WorkerLoop -------------------------------
(***************************************************************************)
(* A worker as a client of the broker: the thread that consumes commands   *)
(* (worker/src/rabbitmq/consumer.py), the main loop that runs them         *)
(* (worker/src/main.py), and the thread that publishes the responses       *)
(* (worker/src/rabbitmq/publisher.py).  What the commands do is the        *)
(* subject of PendingBuys, PendingSells and AutoTrading.                   *)
(***************************************************************************)
EXTENDS Broker

CONSTANTS
    MAX_BUFFER_LENGTH,   \* of the worker's consumer
    MaxNotices           \* bound on the notices (a bound of the model)

ASSUME MaxBufferAssumption == MAX_BUFFER_LENGTH \in Nat \ {0}
ASSUME NoticesAssumption == MaxNotices \in Nat

VARIABLES
    alive,       \* the workers whose container runs
    looping,     \* those whose main loop runs
    incoming,    \* the message in queue_callback, or on its way to it
    buffer,      \* communication.buffer of each worker
    batch,       \* what the main loop has taken and not run yet
    responses,   \* the buffer of the publisher
    notices,     \* how many notices there were
    ran          \* history: the commands that were run, in their order

worker == <<alive, looping, incoming, buffer, batch, responses, notices, ran>>

WorkerTypeOK ==
    /\ alive \subseteq Workers /\ looping \subseteq Workers
    /\ incoming \in [Workers -> Commands \cup {None}]
    /\ buffer \in [Workers -> Seq(Commands)]
    /\ \A w \in Workers : Len(buffer[w]) <= MAX_BUFFER_LENGTH
    /\ batch \in [Workers -> Seq(Commands)]
    /\ responses \in [Workers -> Seq(Messages)]
    /\ notices \in 0..MaxNotices
    /\ ran \in Seq(Commands)

Nothing == [w \in Workers |-> << >>]

WorkerInit ==
    /\ alive = Workers /\ looping = Workers
    /\ incoming = [w \in Workers |-> None]
    /\ buffer = Nothing /\ batch = Nothing /\ responses = Nothing
    /\ notices = 0
    /\ ran = << >>

(***************************************************************************)
(* Variants of the definitions that follow, each with one mistake.         *)
(***************************************************************************)
OneMore(w) == Len(buffer[w]) <= MAX_BUFFER_LENGTH
NotCleared(w) == buffer[w]
Silent(c) == << >>

-----------------------------------------------------------------------------
(***************************************************************************)
(* With a prefetch count of 1, the broker delivers a message when the one  *)
(* before it was acknowledged.                                             *)
(***************************************************************************)
Deliver(w) ==
    /\ consumer[w] = "up"
    /\ unacked[w] = None
    /\ incoming[w] = None
    /\ queue[w] # << >>
    /\ unacked' = [unacked EXCEPT ![w] = Head(queue[w])]
    /\ incoming' = [incoming EXCEPT ![w] = Head(queue[w])]
    /\ Delivered(w)
    /\ UNCHANGED <<bound, consumer, publisher, faults, dropped>>
    /\ UNCHANGED <<alive, looping, buffer, batch, responses, notices, ran>>

(***************************************************************************)
(* queue_callback: waits while the buffer is full, appends the command and *)
(* acknowledges it; the acknowledgement arrives later, or never.           *)
(***************************************************************************)
HasSpace(w) == Len(buffer[w]) < MAX_BUFFER_LENGTH

QueueCallback(w) ==
    /\ incoming[w] # None
    /\ HasSpace(w)
    /\ buffer' = [buffer EXCEPT ![w] = Append(@, incoming[w])]
    /\ incoming' = [incoming EXCEPT ![w] = None]
    /\ UNCHANGED <<broker, alive, looping, batch, responses, notices, ran>>

AckArrives(w) ==
    /\ consumer[w] = "up"
    /\ unacked[w] # None /\ incoming[w] = None
    /\ unacked' = [unacked EXCEPT ![w] = None]
    /\ UNCHANGED <<queue, bound, consumer, publisher, faults, dropped>>
    /\ UNCHANGED worker

(***************************************************************************)
(* What was on its way when the connection broke does not arrive.          *)
(***************************************************************************)
NeverArrives(w) ==
    /\ consumer[w] = "down"
    /\ incoming[w] # None
    /\ incoming' = [incoming EXCEPT ![w] = None]
    /\ UNCHANGED <<broker, alive, looping, buffer, batch, responses, notices, ran>>

(***************************************************************************)
(* The main loop takes the whole buffer, then runs what it took from the   *)
(* first to the last; handle_command sends one response for each.          *)
(***************************************************************************)
Cleared(w) == << >>

TakeBuffer(w) ==
    /\ w \in alive \cap looping
    /\ batch[w] = << >>
    /\ buffer[w] # << >>
    /\ batch' = [batch EXCEPT ![w] = buffer[w]]
    /\ buffer' = [buffer EXCEPT ![w] = Cleared(w)]
    /\ UNCHANGED <<broker, alive, looping, incoming, responses, notices, ran>>

Response(c) == <<c>>

HandleCommand(w) ==
    /\ batch[w] # << >>
    /\ ran' = Append(ran, Head(batch[w]))
    /\ batch' = [batch EXCEPT ![w] = Tail(@)]
    /\ responses' = [responses EXCEPT ![w] = @ \o Response(Head(batch[w]))]
    /\ UNCHANGED <<broker, alive, looping, incoming, buffer, notices>>

(***************************************************************************)
(* The polling thread has carried out an automatic transaction and says so *)
(* on the same way.                                                        *)
(***************************************************************************)
Notify(w) ==
    /\ w \in alive
    /\ notices < MaxNotices
    /\ notices' = notices + 1
    /\ responses' = [responses EXCEPT ![w] = Append(@, Notice)]
    /\ UNCHANGED <<broker, alive, looping, incoming, buffer, batch, ran>>

(***************************************************************************)
(* publish_message of the worker: the first response goes to the fanout    *)
(* exchange, and so to the queue "confirm".                                *)
(***************************************************************************)
PublishResponse(w) ==
    LET m == Head(responses[w])
    IN  /\ responses[w] # << >>
        /\ publisher[w] \in {"up", "broken"}
        /\ responses' = [responses EXCEPT ![w] = Tail(@)]
        /\ IF publisher[w] = "up"
           THEN Published("confirm", m)
           ELSE dropped' = dropped \cup {m} /\ UNCHANGED queue
        /\ UNCHANGED <<bound, unacked, consumer, publisher, faults>>
        /\ UNCHANGED <<alive, looping, incoming, buffer, batch, notices, ran>>

-----------------------------------------------------------------------------
(***************************************************************************)
(* The container of a worker stops: what it held is lost, but what it had  *)
(* not acknowledged goes back to the queue.  It is not started again until *)
(* the manager is.                                                         *)
(***************************************************************************)
WorkerDies(w) ==
    /\ Fault
    /\ w \in alive
    /\ alive' = alive \ {w}
    /\ incoming' = [incoming EXCEPT ![w] = None]
    /\ buffer' = [buffer EXCEPT ![w] = << >>]
    /\ batch' = [batch EXCEPT ![w] = << >>]
    /\ responses' = [responses EXCEPT ![w] = << >>]
    /\ dropped' = dropped \cup ToSet(buffer[w] \o batch[w] \o responses[w])
    /\ Requeued(w)
    /\ consumer' = [consumer EXCEPT ![w] = "down"]
    /\ publisher' = [publisher EXCEPT ![w] = "down"]
    /\ UNCHANGED <<bound, looping, notices, ran>>

(***************************************************************************)
(* A command cannot be parsed, or the log of an exception raises: the main *)
(* loop ends with its batch, before or after the command has run, but the  *)
(* threads and the container do not.                                       *)
(***************************************************************************)
MainEnds(w) ==
    /\ Fault
    /\ batch[w] # << >>
    /\ looping' = looping \ {w}
    /\ batch' = [batch EXCEPT ![w] = << >>]
    /\ dropped' = dropped \cup ToSet(batch[w])
    /\ ran' = ran \/ ran' = Append(ran, Head(batch[w]))
    /\ UNCHANGED <<queue, bound, unacked, consumer, publisher, alive, incoming,
                   buffer, responses, notices>>

WorkerThreads(w) ==
    \/ Deliver(w) \/ QueueCallback(w) \/ AckArrives(w) \/ NeverArrives(w)
    \/ TakeBuffer(w) \/ HandleCommand(w)

WorkersRestart ==
    /\ alive' = Workers
    /\ looping' = looping \cup (Workers \ alive)
    /\ UNCHANGED <<incoming, buffer, batch, responses, notices, ran>>
=================================================================================
