--------------------------------- MODULE System ---------------------------------
(***************************************************************************)
(* The way of a command through the system, and of its response back:      *)
(* frontend or workload file, broker, manager, broker, worker, broker, and *)
(* from there to the manager's count and to the request that waits.        *)
(***************************************************************************)
EXTENDS Manager, WorkerLoop, Frontend

vars == <<queue, bound, unacked, consumer, publisher, faults, dropped,
          communication, send_buffer, publish_buffer, active_commands, workers,
          balancing, balanced, outstanding, forgotten, extras,
          alive, looping, incoming, buffer, batch, responses, notices, ran,
          asking, asked, reply_queue, answer, posted, submitted>>

TypeOK == BrokerTypeOK /\ ManagerTypeOK /\ WorkerTypeOK /\ FrontendTypeOK

Init == BrokerInit /\ ManagerInit /\ WorkerInit /\ FrontendInit

-----------------------------------------------------------------------------
(***************************************************************************)
(* A step of the manager, of a worker, of the frontend, of a connection.   *)
(***************************************************************************)
InTheManager(A) == A /\ UNCHANGED <<worker, frontend>>
InAWorker(A) == A /\ UNCHANGED <<manager, frontend>>
InTheFrontend(A) == A /\ UNCHANGED <<manager, worker>>
OfAConnection(A) == A /\ UNCHANGED <<manager, worker, frontend>>

(***************************************************************************)
(* A response goes to all queues that are bound to the fanout exchange.    *)
(***************************************************************************)
Respond(w) ==
    /\ PublishResponse(w)
    /\ IF publisher[w] = "up" THEN Replied(Head(responses[w])) ELSE UNCHANGED reply_queue
    /\ UNCHANGED <<manager, asking, asked, answer, posted, submitted>>

(***************************************************************************)
(* A client that is not dead connects again; the thread of a worker's      *)
(* consumer has left its callback by then.                                 *)
(***************************************************************************)
ConsumerBack(q) ==
    /\ q \in Workers => q \in alive /\ incoming[q] = None
    /\ OfAConnection(Connect(q))

PublisherBack(p) ==
    /\ p \in Workers => p \in alive
    /\ OfAConnection(OnChannelClosed(p) \/ ReconnectPublisher(p))

Breaks ==
    \/ \E q \in Queues : \E n \in 0..Len(queue[q]) : BreakAutoAck(q, n)
    \/ \E w \in Workers : BreakConsumer(w)
    \/ \E p \in Publishers : BreakPublisher(p)

Stops(w) == WorkerDies(w) \/ MainEnds(w)

(***************************************************************************)
(* The manager is started again, and starts the workers that are gone.     *)
(***************************************************************************)
Restarts ==
    /\ \E n \in 0..Len(queue["frontend"]), k \in 0..Len(queue["confirm"]) :
          ManagerRestarts(alive, n, k)
    /\ WorkersRestart
    /\ UNCHANGED frontend

Next ==
    \/ InTheManager(ManagerStep)
    \/ InTheManager(CannotParse)
    \/ \E w \in Workers : InAWorker(WorkerThreads(w) \/ Notify(w) \/ Stops(w)) \/ Respond(w)
    \/ InTheFrontend(FrontendStep)
    \/ \E q \in Queues : ConsumerBack(q)
    \/ \E p \in Publishers : PublisherBack(p)
    \/ OfAConnection(Breaks)
    \/ Restarts

Spec == Init /\ [][Next]_vars

(***************************************************************************)
(* The processes are scheduled, what a live connection carries arrives,    *)
(* and a client that is disconnected notices and connects again: the loops *)
(* in run, publish_message and both main functions have no exit.  Nothing  *)
(* more is needed of the threads of a process, since they hand on a finite *)
(* number of messages.  No command need ever be issued, but one that is    *)
(* asked for is published.                                                 *)
(***************************************************************************)
Fairness ==
    /\ WF_vars(InTheManager(ManagerStep))
    /\ \A w \in Workers : WF_vars(InAWorker(WorkerThreads(w)) \/ Respond(w))
    /\ WF_vars(InTheFrontend(PublishRequest \/ GetAnswer))
    /\ WF_vars((\E q \in Queues : ConsumerBack(q)) \/ \E p \in Publishers : PublisherBack(p))

FairSpec == Spec /\ Fairness

-----------------------------------------------------------------------------
Position(c) == CHOOSE i \in DOMAIN submitted : submitted[i] = c

(***************************************************************************)
(* "The requirement that each user's commands are executed synchronously"  *)
(* (README.md): a user's commands are run in the order they were issued,   *)
(* by whichever way they came; whatever is lost, delivered again, or       *)
(* started again on the way, none is run after a later one.  DUMPLOGs are  *)
(* left out: they go to Worker0, whichever worker has the commands before  *)
(* them, and wait for the count of active commands instead (Barrier).      *)
(***************************************************************************)
InOrder ==
    \A i, j \in DOMAIN ran :
        /\ i < j
        /\ UserOf[ran[i]] = UserOf[ran[j]]
        /\ {ran[i], ran[j]} \cap Dumplogs = {}
        => Position(ran[i]) <= Position(ran[j])

(***************************************************************************)
(* Where a command can be, from its publication to its execution.          *)
(***************************************************************************)
InManager ==
    queue["frontend"] \o communication \o send_buffer
    \o [i \in DOMAIN publish_buffer |-> publish_buffer[i][2]]

InWorker(w) ==
    queue[w] \o (IF incoming[w] = None THEN << >> ELSE <<incoming[w]>>)
    \o buffer[w] \o batch[w]

CountIn(c, s) == Cardinality({i \in DOMAIN s : s[i] = c})

Copies(c) ==
    CountIn(c, InManager) + CountIn(c, ran)
    + SumFunction([w \in Workers |-> CountIn(c, InWorker(w))])

(***************************************************************************)
(* A command is not run twice, but for a redelivery: there are no more     *)
(* copies of it than connections were broken, and one that is nowhere was  *)
(* lost: with a connection, a container, a main loop, or without a queue.  *)
(***************************************************************************)
RunOnce ==
    \A c \in ToSet(submitted) :
        /\ Copies(c) <= 1 + faults
        /\ Copies(c) = 0 => c \in dropped

(***************************************************************************)
(* The count of active commands is that of the commands counted since the  *)
(* manager was started whose response has not arrived, less the messages   *)
(* that answer none of them: a DUMPLOG never waits for more than the       *)
(* responses of its commands.                                              *)
(***************************************************************************)
CountCovers ==
    /\ active_commands <= Cardinality(outstanding)
    /\ Cardinality(outstanding) - extras <= active_commands

(***************************************************************************)
(* The loop in balance(), `while active_commands != 0`: when a DUMPLOG is  *)
(* sent, the commands before it have been run, those of an earlier life of *)
(* the manager included.  There are two conditions.  No message but their  *)
(* responses was ever taken for one of them (a notice, the response to     *)
(* another DUMPLOG, that of a command run twice or counted before a        *)
(* restart); and those that were outstanding when the manager was started  *)
(* again are not waited for, since the new count starts at 0.              *)
(***************************************************************************)
Barrier ==
    extras = 0 =>
        \A i, j \in DOMAIN balanced :
            i < j /\ balanced[i] \notin Dumplogs /\ balanced[j] \in Dumplogs
            => balanced[i] \in ToSet(ran) \cup forgotten

(***************************************************************************)
(* Something has been lost for good, or has ended for good.                *)
(***************************************************************************)
Interrupted ==
    \/ dropped \cap Commands # {}
    \/ ~balancing
    \/ publisher["balancer"] = "ended"
    \/ alive # Workers \/ looping # Workers

(***************************************************************************)
(* Otherwise every command is run in the end, also when a connection broke *)
(* on the way, and every request is answered.                              *)
(***************************************************************************)
Served == \A c \in Commands : c \in ToSet(submitted) ~> c \in ToSet(ran) \/ Interrupted

RequestAnswered == asking # None ~> asking = None \/ Interrupted

(***************************************************************************)
(* "Send commands to the backend.  Returns the response."  (send_command)  *)
(***************************************************************************)
AnswerIsOwn == \A c \in Web : answer[c] \in {None, c}
=================================================================================
