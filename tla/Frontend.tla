-------------------------------- MODULE Frontend --------------------------------
(***************************************************************************)
(* The sources of commands: the web frontend, whose one thread handles one *)
(* request at a time and waits for its answer in send_command              *)
(* (frontend/src/command_interface.py), and frontend_proxy.py, which posts *)
(* the commands of a workload file and waits for nothing.                  *)
(***************************************************************************)
EXTENDS Broker

CONSTANTS
    Web,        \* the commands of the requests to the web frontend
    Workload    \* the commands of the workload file, in their order

ASSUME WebAssumption == Web \subseteq Commands
ASSUME WorkloadAssumption ==
    /\ Workload \in Seq(Commands \ Web)
    /\ IsInjective(Workload)

VARIABLES
    asking,       \* the request that is being handled
    asked,        \* its command has been published
    reply_queue,  \* the queue that was declared for its answer
    answer,       \* the answers the requests have returned
    posted,       \* the number of commands posted from the workload file
    submitted     \* history: the commands in the order of their publication

frontend == <<asking, asked, reply_queue, answer, posted, submitted>>

FrontendTypeOK ==
    /\ asking \in Web \cup {None}
    /\ asked \in BOOLEAN
    /\ reply_queue \in Seq(Messages)
    /\ answer \in [Web -> Messages \cup {None}]
    /\ posted \in 0..Len(Workload)
    /\ submitted \in Seq(Commands)

FrontendInit ==
    /\ asking = None /\ asked = FALSE
    /\ reply_queue = << >>
    /\ answer = [c \in Web |-> None]
    /\ posted = 0
    /\ submitted = << >>

(***************************************************************************)
(* send_command declares a queue and binds it to the fanout exchange...    *)
(***************************************************************************)
Ask(c) ==
    /\ asking = None
    /\ answer[c] = None
    /\ asking' = c /\ asked' = FALSE
    /\ reply_queue' = << >>
    /\ UNCHANGED <<broker, answer, posted, submitted>>

(***************************************************************************)
(* ... publishes the command...                                            *)
(***************************************************************************)
PublishRequest ==
    /\ asking # None
    /\ ~asked
    /\ asked' = TRUE
    /\ Published("frontend", asking)
    /\ submitted' = Append(submitted, asking)
    /\ UNCHANGED <<bound, unacked, consumer, publisher, faults>>
    /\ UNCHANGED <<asking, reply_queue, answer, posted>>

(***************************************************************************)
(* ... and takes the first message of its queue for the answer.  The queue *)
(* stays with the broker, but nobody reads it any more.                    *)
(***************************************************************************)
GetAnswer ==
    /\ asked
    /\ reply_queue # << >>
    /\ answer' = [answer EXCEPT ![asking] = Head(reply_queue)]
    /\ asking' = None /\ asked' = FALSE
    /\ reply_queue' = << >>
    /\ UNCHANGED <<broker, posted, submitted>>

(***************************************************************************)
(* A response m reaches the queue of the request, from the binding on.     *)
(***************************************************************************)
Listening == asking # None

Replied(m) ==
    reply_queue' = IF Listening THEN Append(reply_queue, m) ELSE reply_queue

(* frontend_proxy.py publishes the next line of its file. *)
Post ==
    /\ posted < Len(Workload)
    /\ posted' = posted + 1
    /\ Published("frontend", Workload[posted + 1])
    /\ submitted' = Append(submitted, Workload[posted + 1])
    /\ UNCHANGED <<bound, unacked, consumer, publisher, faults>>
    /\ UNCHANGED <<asking, asked, reply_queue, answer>>

FrontendStep == PublishRequest \/ GetAnswer \/ Post \/ \E c \in Web : Ask(c)
=================================================================================
