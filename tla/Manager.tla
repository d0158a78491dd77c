-------------------------------- MODULE Manager --------------------------------
(***************************************************************************)
(* The manager: the thread that consumes the commands (consumer.py), the   *)
(* main loop with the balancer (main.py, balancer.py), the thread that     *)
(* publishes them to the workers (publisher.py) and the thread that counts *)
(* the responses (confirms.py).  The threads share two buffers and the     *)
(* count of active commands, each with a mutex that is held for one        *)
(* access.                                                                 *)
(***************************************************************************)
EXTENDS Broker

CONSTANT BufferLimit   \* _MAX_BUFFER_LENGTH of the manager's consumer

ASSUME BufferLimitAssumption == BufferLimit \in Nat \ {0}

VARIABLES
    communication,     \* the buffer of the consumed commands
    send_buffer,       \* Balancer._send_buffer: those that balance() has taken
    publish_buffer,    \* the buffer of the publisher, in order of publication
    active_commands,   \* RuntimeData.active_commands
    workers,           \* the workers whose container main() has started
    balancing,         \* the main loop runs
    balanced,          \* history: the commands that were given to the publisher
    outstanding,       \* history: those counted whose response has not arrived
    forgotten,         \* history: those outstanding when the manager died
    extras             \* history: the other messages that were confirmed

manager == <<communication, send_buffer, publish_buffer, active_commands, workers,
             balancing, balanced, outstanding, forgotten, extras>>

ManagerTypeOK ==
    /\ communication \in Seq(Commands)
    /\ Len(communication) <= BufferLimit
    /\ send_buffer \in Seq(Commands)
    /\ publish_buffer \in Seq(Workers \X Commands)
    /\ active_commands \in Nat
    /\ workers \subseteq Workers
    /\ balancing \in BOOLEAN
    /\ balanced \in Seq(Commands)
    /\ outstanding \subseteq Commands /\ forgotten \subseteq Commands
    /\ extras \in Nat

ManagerInit ==
    /\ communication = << >> /\ send_buffer = << >> /\ publish_buffer = << >>
    /\ active_commands = 0
    /\ workers = Workers
    /\ balancing = TRUE
    /\ balanced = << >> /\ outstanding = {} /\ forgotten = {} /\ extras = 0

(***************************************************************************)
(* Variants of the definitions that follow, each with one mistake.         *)
(***************************************************************************)
RoundRobin(c) ==
    IF Len(balanced) % 2 = 0 THEN Worker0 ELSE CHOOSE w \in Workers : w # Worker0
Uncounted(n) == n
Unguarded(n) == TRUE
Undiminished(n) == n

-----------------------------------------------------------------------------
(***************************************************************************)
(* queue_callback of the consumer of "frontend".  The message was          *)
(* acknowledged when it was delivered; the callback waits while the buffer *)
(* is full.                                                                *)
(***************************************************************************)
Consume ==
    /\ consumer["frontend"] = "up"
    /\ queue["frontend"] # << >>
    /\ Len(communication) < BufferLimit
    /\ communication' = Append(communication, Head(queue["frontend"]))
    /\ Delivered("frontend")
    /\ UNCHANGED <<bound, unacked, consumer, publisher, faults, dropped>>
    /\ UNCHANGED <<send_buffer, publish_buffer, active_commands, workers, balancing,
                   balanced, outstanding, forgotten, extras>>

(***************************************************************************)
(* balance() takes the whole buffer; the main loop calls it again when it  *)
(* has gone through what it took.                                          *)
(***************************************************************************)
Balance ==
    /\ balancing
    /\ send_buffer = << >>
    /\ communication # << >>
    /\ send_buffer' = communication
    /\ communication' = << >>
    /\ UNCHANGED <<broker, publish_buffer, active_commands, workers, balancing,
                   balanced, outstanding, forgotten, extras>>

(***************************************************************************)
(* The worker of a command, and the count of the commands that are active. *)
(***************************************************************************)
Route(c) == WorkerOf[c]

Counted(n) == n + 1

(***************************************************************************)
(* balance() handles its next command.  A DUMPLOG waits until no command   *)
(* is active and is not counted.  A worker that was not started is None in *)
(* the list: the main thread ends on it.                                   *)
(***************************************************************************)
MaySend(n) == n = 0

ForwardDumplog ==
    LET c == Head(send_buffer)
    IN  /\ balancing
        /\ send_buffer # << >>
        /\ c \in Dumplogs
        /\ MaySend(active_commands)
        /\ send_buffer' = Tail(send_buffer)
        /\ publish_buffer' = Append(publish_buffer, <<Worker0, c>>)
        /\ balanced' = Append(balanced, c)
        /\ UNCHANGED <<broker, communication, active_commands, workers, balancing,
                       outstanding, forgotten, extras>>

Forward ==
    LET c == Head(send_buffer)
    IN  /\ balancing
        /\ send_buffer # << >>
        /\ c \notin Dumplogs
        /\ Route(c) \in workers
        /\ active_commands' = Counted(active_commands)
        /\ send_buffer' = Tail(send_buffer)
        /\ publish_buffer' = Append(publish_buffer, <<Route(c), c>>)
        /\ balanced' = Append(balanced, c)
        /\ outstanding' = outstanding \cup {c}
        /\ UNCHANGED <<broker, communication, workers, balancing, forgotten, extras>>

NoSuchWorker ==
    /\ balancing
    /\ send_buffer # << >>
    /\ Head(send_buffer) \notin Dumplogs
    /\ Route(Head(send_buffer)) \notin workers
    /\ balancing' = FALSE
    /\ UNCHANGED <<broker, communication, send_buffer, publish_buffer,
                   active_commands, workers, balanced, outstanding, forgotten, extras>>

(***************************************************************************)
(* parse_command raises (a message without a ']' before its first comma):  *)
(* the main loop ends, with what balance() has taken and not handed on.    *)
(***************************************************************************)
CannotParse ==
    /\ Fault
    /\ balancing
    /\ send_buffer # << >>
    /\ balancing' = FALSE
    /\ UNCHANGED <<queue, bound, unacked, consumer, publisher, dropped,
                   communication, send_buffer, publish_buffer, active_commands, workers,
                   balanced, outstanding, forgotten, extras>>

(***************************************************************************)
(* publish_message takes the buffer and publishes it from the first to the *)
(* last.  The channel is not in confirm mode: what is written to a broken  *)
(* connection is lost.                                                     *)
(***************************************************************************)
PublishCommand ==
    LET w == Head(publish_buffer)[1]
        c == Head(publish_buffer)[2]
    IN  /\ publish_buffer # << >>
        /\ publisher["balancer"] \in {"up", "broken"}
        /\ publish_buffer' = Tail(publish_buffer)
        /\ IF publisher["balancer"] = "up"
           THEN Published(w, c)
           ELSE dropped' = dropped \cup {c} /\ UNCHANGED queue
        /\ UNCHANGED <<bound, unacked, consumer, publisher, faults, communication,
                       send_buffer, active_commands, workers, balancing,
                       balanced, outstanding, forgotten, extras>>

(***************************************************************************)
(* Confirms.on_receive: whatever the message is, one active command less.  *)
(***************************************************************************)
Decremented(n) == IF n > 0 THEN n - 1 ELSE n

OnReceive ==
    LET m == Head(queue["confirm"])
    IN  /\ consumer["confirm"] = "up"
        /\ queue["confirm"] # << >>
        /\ active_commands' = Decremented(active_commands)
        /\ Delivered("confirm")
        /\ outstanding' = outstanding \ {m}
        /\ extras' = IF m \in outstanding THEN extras ELSE extras + 1
        /\ UNCHANGED <<bound, unacked, consumer, publisher, faults, dropped>>
        /\ UNCHANGED <<communication, send_buffer, publish_buffer, workers, balancing,
                       balanced, forgotten>>

-----------------------------------------------------------------------------
(***************************************************************************)
(* The manager dies and its container is started again: what it held is    *)
(* lost, with n and k messages on their way to it.  main() starts worker    *)
(* containers: those of the workers that run exist already and cannot be   *)
(* created, and stay None in the list.  The count starts at 0, whatever    *)
(* the workers still run: the history keeps what it no longer counts.      *)
(***************************************************************************)
ManagerRestarts(running, n, k) ==
    /\ Fault
    /\ n <= Len(queue["frontend"]) /\ k <= Len(queue["confirm"])
    /\ queue' = [queue EXCEPT !["frontend"] = SubSeq(@, n + 1, Len(@)),
                              !["confirm"] = SubSeq(@, k + 1, Len(@))]
    /\ dropped' = dropped \cup ToSet(SubSeq(queue["frontend"], 1, n))
                  \cup ToSet(SubSeq(queue["confirm"], 1, k))
                  \cup ToSet(communication \o send_buffer)
                  \cup {p[2] : p \in ToSet(publish_buffer)}
    /\ communication' = << >> /\ send_buffer' = << >> /\ publish_buffer' = << >>
    /\ active_commands' = 0
    /\ workers' = Workers \ running
    /\ balancing' = TRUE
    /\ outstanding' = {} /\ forgotten' = forgotten \cup outstanding
    /\ consumer' = [consumer EXCEPT !["frontend"] = "up", !["confirm"] = "up"]
    /\ publisher' = [publisher EXCEPT !["balancer"] = "up"]
    /\ bound' = bound \cup {"frontend", "confirm"}
    /\ UNCHANGED <<unacked, balanced, extras>>

(* The main loop. *)
BalancerStep == Balance \/ ForwardDumplog \/ Forward \/ NoSuchWorker

ManagerStep == Consume \/ BalancerStep \/ PublishCommand \/ OnReceive
=================================================================================
