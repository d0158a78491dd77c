-------------------------------- MODULE SystemTypes --------------------------------
(***************************************************************************)
(* Type correctness of System, for any number of commands, workers and     *)
(* faults, any routing of users to workers and any bounds on the buffers.  *)
(***************************************************************************)
EXTENDS System, TLAPS

USE CommandsAssumption, RoutingAssumption, NamesAssumption, StartingAssumption,
    FaultsAssumption, BufferLimitAssumption, MaxBufferAssumption, NoticesAssumption,
    WebAssumption, WorkloadAssumption

-----------------------------------------------------------------------------
(***************************************************************************)
(* Only the queue "confirm" carries notices: what a worker is delivered,   *)
(* and has to acknowledge, is a command.                                   *)
(***************************************************************************)
CommandsOnly ==
    /\ \A q \in Queues \ {"confirm"} : queue[q] \in Seq(Commands)
    /\ unacked \in [Workers -> Commands \cup {None}]

Typed == TypeOK /\ CommandsOnly

-----------------------------------------------------------------------------
(***************************************************************************)
(* Lemmas on the operators the actions are built from.                     *)
(***************************************************************************)

(* A connection that breaks takes the first messages of a queue with it.   *)
LEMMA SuffixType ==
    ASSUME NEW S, NEW s \in Seq(S), NEW n \in 0..Len(s)
    PROVE  SubSeq(s, n + 1, Len(s)) \in Seq(S)
OBVIOUS

(* The elements of a sequence, and of its suffix.                          *)
LEMMA ToSetType == ASSUME NEW S, NEW s \in Seq(S) PROVE ToSet(s) \subseteq S
BY DEF ToSet

(* Publishing a message keeps the types of the queues.                     *)
LEMMA PublishedType ==
    ASSUME Typed, NEW q \in Queues, NEW m \in Messages, Published(q, m),
           q # "confirm" => m \in Commands
    PROVE  /\ queue' \in [Queues -> Seq(Messages)]
           /\ \A x \in Queues \ {"confirm"} : queue'[x] \in Seq(Commands)
           /\ dropped' \subseteq Messages
<1>. USE DEF Typed, TypeOK, BrokerTypeOK, CommandsOnly
<1>1. CASE q \in bound
  <2>1. queue' = [queue EXCEPT ![q] = Append(queue[q], m)] /\ dropped' = dropped
    BY <1>1 DEF Published
  <2>2. Append(queue[q], m) \in Seq(Messages)
    OBVIOUS
  <2>3. q # "confirm" => Append(queue[q], m) \in Seq(Commands)
    OBVIOUS
  <2>. QED
    BY <2>1, <2>2, <2>3
<1>2. CASE q \notin bound
  BY <1>2 DEF Published
<1>. QED
  BY <1>1, <1>2

(* A delivery takes the first message of a queue.                          *)
LEMMA DeliveredType ==
    ASSUME Typed, NEW q \in Queues, queue[q] # << >>, Delivered(q)
    PROVE  /\ queue' \in [Queues -> Seq(Messages)]
           /\ \A x \in Queues \ {"confirm"} : queue'[x] \in Seq(Commands)
           /\ Head(queue[q]) \in Messages
           /\ q # "confirm" => Head(queue[q]) \in Commands
<1>. USE DEF Typed, TypeOK, BrokerTypeOK, CommandsOnly
<1>1. queue' = [queue EXCEPT ![q] = Tail(queue[q])]
  BY DEF Delivered
<1>2. Tail(queue[q]) \in Seq(Messages) /\ Head(queue[q]) \in Messages
  OBVIOUS
<1>3. q # "confirm" => Tail(queue[q]) \in Seq(Commands) /\ Head(queue[q]) \in Commands
  OBVIOUS
<1>. QED
  BY <1>1, <1>2, <1>3

(* A message that was not acknowledged goes back to the head of its queue.  *)
LEMMA RequeuedType ==
    ASSUME Typed, NEW w \in Workers, Requeued(w)
    PROVE  /\ queue' \in [Queues -> Seq(Messages)]
           /\ CommandsOnly'
<1>. USE DEF Typed, TypeOK, BrokerTypeOK, CommandsOnly, Queues
<1>1. queue[w] \in Seq(Commands) /\ unacked[w] \in Commands \cup {None}
  OBVIOUS
<1>2. unacked[w] # None => <<unacked[w]>> \o queue[w] \in Seq(Commands)
  BY <1>1
<1>3. \A s \in Seq(Commands) : s \in Seq(Messages)
  BY DEF Messages
<1>4. queue' = [queue EXCEPT ![w] = IF unacked[w] = None THEN queue[w]
                                    ELSE <<unacked[w]>> \o queue[w]]
  BY DEF Requeued
<1>5. unacked' = [unacked EXCEPT ![w] = None]
  BY DEF Requeued
<1>. QED
  BY <1>1, <1>2, <1>3, <1>4, <1>5

-----------------------------------------------------------------------------
(***************************************************************************)
(* Every step keeps the types.                                             *)
(***************************************************************************)
LEMMA TypedInit == Init => Typed
<1>. SUFFICES ASSUME Init PROVE Typed
  OBVIOUS
<1>. USE DEF Init, Typed, TypeOK
<1>1. BrokerTypeOK /\ CommandsOnly
  BY DEF BrokerInit, BrokerTypeOK, CommandsOnly, Queues
<1>2. ManagerTypeOK
  BY DEF ManagerInit, ManagerTypeOK
<1>3. WorkerTypeOK
  BY DEF WorkerInit, WorkerTypeOK, Nothing
<1>4. FrontendTypeOK
  <2>1. 0 \in 0..Len(Workload)
    BY DEF FrontendInit
  <2>2. asking \in Web \cup {None} /\ asked \in BOOLEAN
    BY DEF FrontendInit
  <2>3. answer \in [Web -> Messages \cup {None}]
    BY DEF FrontendInit
  <2>. QED
    BY <2>1, <2>2, <2>3 DEF FrontendInit, FrontendTypeOK
<1>. QED
  BY <1>1, <1>2, <1>3, <1>4

(* The steps of the manager keep the types.                                *)
LEMMA ManagerStepTyped == Typed /\ InTheManager(ManagerStep) => Typed'
<1>. SUFFICES ASSUME Typed, InTheManager(ManagerStep)
              PROVE  Typed'
  OBVIOUS
<1>. USE DEF Typed, TypeOK
<1>0. UNCHANGED <<worker, frontend>>
  BY DEF InTheManager
<1>w. WorkerTypeOK'
  BY <1>0 DEF worker, WorkerTypeOK
<1>f. FrontendTypeOK'
  BY <1>0 DEF frontend, FrontendTypeOK
<1>1. CASE Consume
  <2>1. Delivered("frontend") /\ queue["frontend"] # << >> /\ "frontend" \in Queues
    BY <1>1 DEF Consume, Queues
  <2>2. BrokerTypeOK' /\ CommandsOnly' /\ Head(queue["frontend"]) \in Commands
    BY <1>1, <2>1, DeliveredType DEF Consume, BrokerTypeOK, CommandsOnly
  <2>3. ManagerTypeOK'
    BY <1>1, <2>2 DEF Consume, ManagerTypeOK
  <2>. QED
    BY <1>w, <1>f, <2>2, <2>3
<1>2. CASE Balance
  <2>1. BrokerTypeOK' /\ CommandsOnly'
    BY <1>2 DEF Balance, broker, BrokerTypeOK, CommandsOnly
  <2>2. ManagerTypeOK'
    BY <1>2 DEF Balance, ManagerTypeOK
  <2>. QED
    BY <1>w, <1>f, <2>1, <2>2
<1>3. CASE ForwardDumplog
  <2>1. BrokerTypeOK' /\ CommandsOnly'
    BY <1>3 DEF ForwardDumplog, broker, BrokerTypeOK, CommandsOnly
  <2>2. ManagerTypeOK'
    BY <1>3 DEF ForwardDumplog, ManagerTypeOK
  <2>. QED
    BY <1>w, <1>f, <2>1, <2>2
<1>4. CASE Forward
  <2>1. BrokerTypeOK' /\ CommandsOnly'
    BY <1>4 DEF Forward, broker, BrokerTypeOK, CommandsOnly
  <2>2. ManagerTypeOK'
    BY <1>4 DEF Forward, Route, Counted, ManagerTypeOK
  <2>. QED
    BY <1>w, <1>f, <2>1, <2>2
<1>5. CASE NoSuchWorker
  <2>1. BrokerTypeOK' /\ CommandsOnly'
    BY <1>5 DEF NoSuchWorker, broker, BrokerTypeOK, CommandsOnly
  <2>2. ManagerTypeOK'
    BY <1>5 DEF NoSuchWorker, ManagerTypeOK
  <2>. QED
    BY <1>w, <1>f, <2>1, <2>2
<1>6. CASE PublishCommand
  <2>1. Head(publish_buffer) \in Workers \X Commands
        /\ Tail(publish_buffer) \in Seq(Workers \X Commands)
    BY <1>6 DEF PublishCommand, ManagerTypeOK
  <2>. DEFINE w == Head(publish_buffer)[1]
              c == Head(publish_buffer)[2]
  <2>2. w \in Queues /\ c \in Commands /\ c \in Messages
    BY <2>1 DEF Queues, Messages
  <2>3. Published(w, c) \/ (dropped' = dropped \cup {c} /\ UNCHANGED queue)
    BY <1>6 DEF PublishCommand
  <2>4. /\ queue' \in [Queues -> Seq(Messages)]
        /\ \A x \in Queues \ {"confirm"} : queue'[x] \in Seq(Commands)
        /\ dropped' \subseteq Messages
    BY <2>2, <2>3, PublishedType DEF BrokerTypeOK, CommandsOnly
  <2>5. BrokerTypeOK' /\ CommandsOnly'
    BY <1>6, <2>4 DEF PublishCommand, BrokerTypeOK, CommandsOnly
  <2>6. ManagerTypeOK'
    BY <1>6, <2>1 DEF PublishCommand, ManagerTypeOK
  <2>. QED
    BY <1>w, <1>f, <2>5, <2>6
<1>7. CASE OnReceive
  <2>1. Delivered("confirm") /\ queue["confirm"] # << >> /\ "confirm" \in Queues
    BY <1>7 DEF OnReceive, Queues
  <2>2. BrokerTypeOK' /\ CommandsOnly'
    BY <1>7, <2>1, DeliveredType DEF OnReceive, BrokerTypeOK, CommandsOnly
  <2>3. ManagerTypeOK'
    BY <1>7 DEF OnReceive, Decremented, ManagerTypeOK
  <2>. QED
    BY <1>w, <1>f, <2>2, <2>3
<1>. QED
  BY <1>1, <1>2, <1>3, <1>4, <1>5, <1>6, <1>7
  DEF InTheManager, ManagerStep, BalancerStep

(* A command that cannot be parsed is one fault, and ends the main loop.   *)
LEMMA CannotParseIs ==
    ASSUME Typed, InTheManager(CannotParse)
    PROVE  /\ UNCHANGED <<queue, bound, unacked, consumer, publisher, dropped>>
           /\ UNCHANGED <<communication, send_buffer, publish_buffer, active_commands,
                          workers, balanced, outstanding, forgotten, extras>>
           /\ UNCHANGED <<worker, frontend>>
           /\ faults \in Nat /\ faults' = faults + 1 /\ faults' \in 0..MaxFaults
           /\ balancing' = FALSE
BY DEF InTheManager, CannotParse, Fault, Typed, TypeOK, BrokerTypeOK

LEMMA CannotParseTyped == Typed /\ InTheManager(CannotParse) => Typed'
<1>. SUFFICES ASSUME Typed, InTheManager(CannotParse) PROVE Typed'
  OBVIOUS
<1>. USE DEF Typed, TypeOK
<1>1. BrokerTypeOK' /\ CommandsOnly'
  BY CannotParseIs DEF BrokerTypeOK, CommandsOnly
<1>2. ManagerTypeOK'
  BY CannotParseIs DEF ManagerTypeOK
<1>3. WorkerTypeOK' /\ FrontendTypeOK'
  BY CannotParseIs DEF worker, frontend, WorkerTypeOK, FrontendTypeOK
<1>. QED
  BY <1>1, <1>2, <1>3

(* So do the steps of a worker.                                            *)
LEMMA WorkerStepTyped ==
    ASSUME Typed, NEW w \in Workers,
           InAWorker(WorkerThreads(w) \/ Notify(w) \/ Stops(w))
    PROVE  Typed'
<1>. USE DEF Typed, TypeOK
<1>0. UNCHANGED <<manager, frontend>>
  BY DEF InAWorker
<1>m. ManagerTypeOK'
  BY <1>0 DEF manager, ManagerTypeOK
<1>f. FrontendTypeOK'
  BY <1>0 DEF frontend, FrontendTypeOK
<1>q. w \in Queues
  BY DEF Queues
<1>1. CASE Deliver(w)
  <2>1. w # "confirm" /\ queue[w] # << >> /\ Delivered(w)
    BY <1>1 DEF Deliver
  <2>2. Head(queue[w]) \in Commands
    BY <1>q, <2>1, DeliveredType
  <2>3. BrokerTypeOK' /\ CommandsOnly'
    BY <1>1, <1>q, <2>1, <2>2, DeliveredType DEF Deliver, BrokerTypeOK, CommandsOnly
  <2>4. WorkerTypeOK'
    BY <1>1, <2>2 DEF Deliver, WorkerTypeOK
  <2>. QED
    BY <1>m, <1>f, <2>3, <2>4
<1>2. CASE QueueCallback(w)
  <2>1. BrokerTypeOK' /\ CommandsOnly'
    BY <1>2 DEF QueueCallback, broker, BrokerTypeOK, CommandsOnly
  <2>2. buffer[w] \in Seq(Commands) /\ incoming[w] \in Commands
    BY <1>2 DEF QueueCallback, WorkerTypeOK
  <2>3. /\ Append(buffer[w], incoming[w]) \in Seq(Commands)
        /\ Len(Append(buffer[w], incoming[w])) <= MAX_BUFFER_LENGTH
    BY <1>2, <2>2 DEF QueueCallback, HasSpace
  <2>4. WorkerTypeOK'
    BY <1>2, <2>3 DEF QueueCallback, WorkerTypeOK
  <2>. QED
    BY <1>m, <1>f, <2>1, <2>4
<1>3. CASE AckArrives(w)
  <2>1. BrokerTypeOK' /\ CommandsOnly'
    BY <1>3 DEF AckArrives, BrokerTypeOK, CommandsOnly
  <2>2. WorkerTypeOK'
    BY <1>3 DEF AckArrives, worker, WorkerTypeOK
  <2>. QED
    BY <1>m, <1>f, <2>1, <2>2
<1>4. CASE NeverArrives(w)
  <2>1. BrokerTypeOK' /\ CommandsOnly'
    BY <1>4 DEF NeverArrives, broker, BrokerTypeOK, CommandsOnly
  <2>2. WorkerTypeOK'
    BY <1>4 DEF NeverArrives, WorkerTypeOK
  <2>. QED
    BY <1>m, <1>f, <2>1, <2>2
<1>5. CASE TakeBuffer(w)
  <2>1. BrokerTypeOK' /\ CommandsOnly'
    BY <1>5 DEF TakeBuffer, broker, BrokerTypeOK, CommandsOnly
  <2>2. /\ buffer' = [buffer EXCEPT ![w] = << >>]
        /\ batch' = [batch EXCEPT ![w] = buffer[w]]
    BY <1>5 DEF TakeBuffer, Cleared
  <2>3. /\ buffer' \in [Workers -> Seq(Commands)]
        /\ \A x \in Workers : Len(buffer'[x]) <= MAX_BUFFER_LENGTH
    BY <2>2 DEF WorkerTypeOK
  <2>4. batch' \in [Workers -> Seq(Commands)]
    BY <2>2 DEF WorkerTypeOK
  <2>5. WorkerTypeOK'
    BY <1>5, <2>3, <2>4 DEF TakeBuffer, WorkerTypeOK
  <2>. QED
    BY <1>m, <1>f, <2>1, <2>5
<1>6. CASE HandleCommand(w)
  <2>1. BrokerTypeOK' /\ CommandsOnly'
    BY <1>6 DEF HandleCommand, broker, BrokerTypeOK, CommandsOnly
  <2>2. Head(batch[w]) \in Commands /\ Tail(batch[w]) \in Seq(Commands)
    BY <1>6 DEF HandleCommand, WorkerTypeOK
  <2>3. responses[w] \o <<Head(batch[w])>> \in Seq(Messages)
    BY <2>2 DEF WorkerTypeOK, Messages
  <2>4. /\ ran' \in Seq(Commands)
        /\ batch' \in [Workers -> Seq(Commands)]
        /\ responses' \in [Workers -> Seq(Messages)]
    BY <1>6, <2>2, <2>3, SMTT(30) DEF HandleCommand, Response, WorkerTypeOK
  <2>5. WorkerTypeOK'
    BY <1>6, <2>4 DEF HandleCommand, WorkerTypeOK
  <2>. QED
    BY <1>m, <1>f, <2>1, <2>5
<1>7. CASE Notify(w)
  <2>1. BrokerTypeOK' /\ CommandsOnly'
    BY <1>7 DEF Notify, broker, BrokerTypeOK, CommandsOnly
  <2>2. Append(responses[w], Notice) \in Seq(Messages)
    BY DEF WorkerTypeOK, Messages
  <2>3. WorkerTypeOK'
    BY <1>7, <2>2 DEF Notify, WorkerTypeOK
  <2>. QED
    BY <1>m, <1>f, <2>1, <2>3
<1>8. CASE WorkerDies(w)
  <2>1. Requeued(w)
    BY <1>8 DEF WorkerDies
  <2>2. queue' \in [Queues -> Seq(Messages)] /\ CommandsOnly'
    BY <2>1, RequeuedType
  <2>3. dropped' \subseteq Messages
    <3>1. buffer[w] \o batch[w] \o responses[w] \in Seq(Messages)
      <4>1. \A s \in Seq(Commands) : s \in Seq(Messages)
        BY DEF Messages
      <4>2. buffer[w] \in Seq(Messages) /\ batch[w] \in Seq(Messages)
        BY <4>1 DEF WorkerTypeOK
      <4>. QED
        BY <4>2 DEF WorkerTypeOK
    <3>2. ToSet(buffer[w] \o batch[w] \o responses[w]) \subseteq Messages
      BY <3>1, ToSetType
    <3>. QED
      BY <1>8, <3>2 DEF WorkerDies, BrokerTypeOK
  <2>4. faults' \in 0..MaxFaults
    BY <1>8 DEF WorkerDies, Fault, BrokerTypeOK
  <2>5. /\ consumer' \in [Queues -> {"up", "down"}]
        /\ publisher' \in [Publishers -> {"up", "broken", "down", "ended"}]
        /\ bound' \subseteq Queues
    BY <1>8 DEF WorkerDies, BrokerTypeOK
  <2>6. BrokerTypeOK'
    BY <2>2, <2>3, <2>4, <2>5 DEF BrokerTypeOK, CommandsOnly, Messages
  <2>7. WorkerTypeOK'
    <3>1. /\ alive' \subseteq Workers /\ incoming' \in [Workers -> Commands \cup {None}]
          /\ UNCHANGED <<looping, notices, ran>>
      BY <1>8 DEF WorkerDies, WorkerTypeOK
    <3>2. /\ buffer' \in [Workers -> Seq(Commands)] /\ batch' \in [Workers -> Seq(Commands)]
          /\ responses' \in [Workers -> Seq(Messages)]
      <4>1. << >> \in Seq(Commands) /\ << >> \in Seq(Messages)
        OBVIOUS
      <4>2. buffer' \in [Workers -> Seq(Commands)]
        <5>1. buffer \in [Workers -> Seq(Commands)] /\ buffer' = [buffer EXCEPT ![w] = << >>]
          BY <1>8 DEF WorkerDies, WorkerTypeOK
        <5>. QED
          BY <4>1, <5>1
      <4>3. batch' \in [Workers -> Seq(Commands)]
        <5>1. batch \in [Workers -> Seq(Commands)] /\ batch' = [batch EXCEPT ![w] = << >>]
          BY <1>8 DEF WorkerDies, WorkerTypeOK
        <5>. QED
          BY <4>1, <5>1
      <4>4. responses' \in [Workers -> Seq(Messages)]
        <5>1. /\ responses \in [Workers -> Seq(Messages)]
              /\ responses' = [responses EXCEPT ![w] = << >>]
          BY <1>8 DEF WorkerDies, WorkerTypeOK
        <5>. QED
          BY <4>1, <5>1
      <4>. QED
        BY <4>2, <4>3, <4>4
    <3>3. ASSUME NEW x \in Workers PROVE Len(buffer'[x]) <= MAX_BUFFER_LENGTH
      <4>1. buffer'[x] = buffer[x] \/ buffer'[x] = << >>
        BY <1>8 DEF WorkerDies, WorkerTypeOK
      <4>2. \A s : s = << >> => Len(s) = 0
        OBVIOUS
      <4>3. 0 <= MAX_BUFFER_LENGTH
        BY MaxBufferAssumption
      <4>. QED
        BY <4>1, <4>2, <4>3 DEF WorkerTypeOK
    <3>. QED
      BY <3>1, <3>2, <3>3 DEF WorkerTypeOK
  <2>. QED
    BY <1>m, <1>f, <2>2, <2>6, <2>7
<1>9. CASE MainEnds(w)
  <2>1. ToSet(batch[w]) \subseteq Messages /\ Head(batch[w]) \in Commands
    BY <1>9 DEF MainEnds, ToSet, WorkerTypeOK, Messages
  <2>2. BrokerTypeOK' /\ CommandsOnly'
    BY <1>9, <2>1 DEF MainEnds, Fault, BrokerTypeOK, CommandsOnly
  <2>3. ran' \in Seq(Commands)
    <3>1. ran \in Seq(Commands) /\ Append(ran, Head(batch[w])) \in Seq(Commands)
      BY <2>1 DEF WorkerTypeOK
    <3>2. ran' = ran \/ ran' = Append(ran, Head(batch[w]))
      BY <1>9 DEF MainEnds
    <3>. QED
      BY <3>1, <3>2
  <2>4. batch' \in [Workers -> Seq(Commands)]
    BY <1>9 DEF MainEnds, WorkerTypeOK
  <2>5. WorkerTypeOK'
    BY <1>9, <2>3, <2>4 DEF MainEnds, WorkerTypeOK
  <2>. QED
    BY <1>m, <1>f, <2>2, <2>5
<1>. QED
  BY <1>1, <1>2, <1>3, <1>4, <1>5, <1>6, <1>7, <1>8, <1>9
  DEF InAWorker, WorkerThreads, Stops

(* So does a worker that publishes a response.                             *)
LEMMA RespondTyped == ASSUME Typed, NEW w \in Workers, Respond(w) PROVE Typed'
<1>. USE DEF Typed, TypeOK
<1>1. Head(responses[w]) \in Messages /\ Tail(responses[w]) \in Seq(Messages)
  BY DEF Respond, PublishResponse, WorkerTypeOK
<1>2. /\ queue' \in [Queues -> Seq(Messages)]
      /\ \A x \in Queues \ {"confirm"} : queue'[x] \in Seq(Commands)
      /\ dropped' \subseteq Messages
  <2>1. \/ Published("confirm", Head(responses[w]))
        \/ dropped' = dropped \cup {Head(responses[w])} /\ UNCHANGED queue
    BY DEF Respond, PublishResponse
  <2>2. "confirm" \in Queues
    BY DEF Queues
  <2>. QED
    BY <1>1, <2>1, <2>2, PublishedType DEF BrokerTypeOK, CommandsOnly
<1>3. BrokerTypeOK' /\ CommandsOnly'
  BY <1>2 DEF Respond, PublishResponse, BrokerTypeOK, CommandsOnly
<1>4. ManagerTypeOK'
  BY DEF Respond, manager, ManagerTypeOK
<1>5. WorkerTypeOK'
  BY <1>1 DEF Respond, PublishResponse, WorkerTypeOK
<1>6. reply_queue' \in Seq(Messages)
  <2>1. /\ reply_queue \in Seq(Messages)
        /\ Append(reply_queue, Head(responses[w])) \in Seq(Messages)
    BY <1>1 DEF FrontendTypeOK
  <2>2. \/ reply_queue' = reply_queue
        \/ reply_queue' = Append(reply_queue, Head(responses[w]))
    BY DEF Respond, Replied
  <2>. QED
    BY <2>1, <2>2
<1>7. FrontendTypeOK'
  BY <1>6 DEF Respond, FrontendTypeOK
<1>. QED
  BY <1>3, <1>4, <1>5, <1>7

(* So do the steps of the frontend and of the workload file.               *)
LEMMA FrontendStepTyped == Typed /\ InTheFrontend(FrontendStep) => Typed'
<1>. SUFFICES ASSUME Typed, InTheFrontend(FrontendStep)
              PROVE  Typed'
  OBVIOUS
<1>. USE DEF Typed, TypeOK
<1>0. UNCHANGED <<manager, worker>>
  BY DEF InTheFrontend
<1>m. ManagerTypeOK'
  BY <1>0 DEF manager, ManagerTypeOK
<1>w. WorkerTypeOK'
  BY <1>0 DEF worker, WorkerTypeOK
<1>1. CASE PublishRequest
  <2>1. asking \in Commands /\ "frontend" \in Queues
    BY <1>1 DEF PublishRequest, FrontendTypeOK, Queues
  <2>2. BrokerTypeOK' /\ CommandsOnly'
    BY <1>1, <2>1, PublishedType DEF PublishRequest, BrokerTypeOK, CommandsOnly, Messages
  <2>3. FrontendTypeOK'
    BY <1>1, <2>1 DEF PublishRequest, FrontendTypeOK
  <2>. QED
    BY <1>m, <1>w, <2>2, <2>3
<1>2. CASE GetAnswer
  <2>1. BrokerTypeOK' /\ CommandsOnly'
    BY <1>2 DEF GetAnswer, broker, BrokerTypeOK, CommandsOnly
  <2>2. Head(reply_queue) \in Messages
    BY <1>2 DEF GetAnswer, FrontendTypeOK
  <2>3. answer' \in [Web -> Messages \cup {None}]
    BY <1>2, <2>2 DEF GetAnswer, FrontendTypeOK
  <2>4. asked' \in BOOLEAN
    BY <1>2, Zenon DEF GetAnswer
  <2>5. asking' = None /\ reply_queue' = << >> /\ UNCHANGED <<posted, submitted>>
    BY <1>2 DEF GetAnswer
  <2>6. FrontendTypeOK'
    BY <2>3, <2>4, <2>5 DEF FrontendTypeOK
  <2>. QED
    BY <1>m, <1>w, <2>1, <2>6
<1>3. CASE Post
  <2>1. Len(Workload) \in Nat /\ posted + 1 \in 1..Len(Workload)
    BY <1>3 DEF Post, FrontendTypeOK
  <2>2. Workload[posted + 1] \in Commands /\ "frontend" \in Queues
    BY <2>1 DEF Queues
  <2>3. BrokerTypeOK' /\ CommandsOnly'
    BY <1>3, <2>2, PublishedType DEF Post, BrokerTypeOK, CommandsOnly, Messages
  <2>4. FrontendTypeOK'
    BY <1>3, <2>1, <2>2 DEF Post, FrontendTypeOK
  <2>. QED
    BY <1>m, <1>w, <2>3, <2>4
<1>4. ASSUME NEW c \in Web, Ask(c)
      PROVE  Typed'
  <2>1. BrokerTypeOK' /\ CommandsOnly'
    BY <1>4 DEF Ask, broker, BrokerTypeOK, CommandsOnly
  <2>2. asked' \in BOOLEAN
    BY <1>4, Zenon DEF Ask
  <2>3. asking' \in Web /\ reply_queue' = << >> /\ UNCHANGED <<answer, posted, submitted>>
    BY <1>4 DEF Ask
  <2>4. FrontendTypeOK'
    BY <2>2, <2>3 DEF FrontendTypeOK
  <2>. QED
    BY <1>m, <1>w, <2>1, <2>4
<1>. QED
  BY <1>1, <1>2, <1>3, <1>4 DEF InTheFrontend, FrontendStep

(* So do connections that break and that are opened again.                 *)
LEMMA ConnectionTyped ==
    ASSUME Typed,
           \/ \E q \in Queues : ConsumerBack(q)
           \/ \E p \in Publishers : PublisherBack(p)
           \/ OfAConnection(Breaks)
    PROVE  Typed'
<1>. USE DEF Typed, TypeOK
<1>0. UNCHANGED <<manager, worker, frontend>>
  BY DEF ConsumerBack, PublisherBack, OfAConnection
<1>1. ManagerTypeOK'
  BY <1>0 DEF manager, ManagerTypeOK
<1>2. WorkerTypeOK'
  BY <1>0 DEF worker, WorkerTypeOK
<1>3. FrontendTypeOK'
  BY <1>0 DEF frontend, FrontendTypeOK
<1>4. ASSUME NEW q \in Queues, Connect(q)
      PROVE  BrokerTypeOK' /\ CommandsOnly'
  BY <1>4 DEF Connect, Bound, BrokerTypeOK, CommandsOnly
<1>5. ASSUME NEW p \in Publishers, OnChannelClosed(p) \/ ReconnectPublisher(p)
      PROVE  BrokerTypeOK' /\ CommandsOnly'
  <2>1. publisher' \in [Publishers -> {"up", "broken", "down", "ended"}]
    BY <1>5 DEF OnChannelClosed, ReconnectPublisher, Reopened, BrokerTypeOK
  <2>. QED
    BY <1>5, <2>1 DEF OnChannelClosed, ReconnectPublisher, BrokerTypeOK, CommandsOnly
<1>6. ASSUME NEW q \in Queues, NEW n \in 0..Len(queue[q]), BreakAutoAck(q, n)
      PROVE  BrokerTypeOK' /\ CommandsOnly'
  <2>1. SubSeq(queue[q], n + 1, Len(queue[q])) \in Seq(Messages)
    BY SuffixType DEF BrokerTypeOK
  <2>2. q # "confirm" => SubSeq(queue[q], n + 1, Len(queue[q])) \in Seq(Commands)
    BY SuffixType DEF CommandsOnly
  <2>3. ToSet(SubSeq(queue[q], 1, n)) \subseteq Messages
    BY DEF ToSet, BrokerTypeOK
  <2>4. queue' = [queue EXCEPT ![q] = SubSeq(queue[q], n + 1, Len(queue[q]))]
    BY <1>6 DEF BreakAutoAck
  <2>5. CommandsOnly'
    BY <1>6, <2>2, <2>4 DEF BreakAutoAck, CommandsOnly, BrokerTypeOK
  <2>6. queue' \in [Queues -> Seq(Messages)]
    BY <2>1, <2>4 DEF BrokerTypeOK
  <2>7. BrokerTypeOK'
    BY <1>6, <2>3, <2>6 DEF BreakAutoAck, Fault, BrokerTypeOK
  <2>. QED
    BY <2>5, <2>7
<1>7. ASSUME NEW w \in Workers, BreakConsumer(w)
      PROVE  BrokerTypeOK' /\ CommandsOnly'
  <2>1. queue' \in [Queues -> Seq(Messages)] /\ CommandsOnly'
    BY <1>7, RequeuedType DEF BreakConsumer
  <2>2. unacked' \in [Workers -> Messages \cup {None}]
    BY <2>1 DEF CommandsOnly, Messages
  <2>3. faults' \in 0..MaxFaults
    BY <1>7 DEF BreakConsumer, Fault, BrokerTypeOK
  <2>4. consumer' \in [Queues -> {"up", "down"}]
    BY <1>7 DEF BreakConsumer, BrokerTypeOK
  <2>. QED
    BY <1>7, <2>1, <2>2, <2>3, <2>4 DEF BreakConsumer, BrokerTypeOK
<1>8. ASSUME NEW p \in Publishers, BreakPublisher(p)
      PROVE  BrokerTypeOK' /\ CommandsOnly'
  BY <1>8 DEF BreakPublisher, Fault, BrokerTypeOK, CommandsOnly
<1>9. BrokerTypeOK' /\ CommandsOnly'
  BY <1>4, <1>5, <1>6, <1>7, <1>8 DEF ConsumerBack, PublisherBack, OfAConnection, Breaks
<1>. QED
  BY <1>1, <1>2, <1>3, <1>9

(* So does a manager that is started again, with the workers that are gone. *)
LEMMA RestartsTyped == Typed /\ Restarts => Typed'
<1>. SUFFICES ASSUME Typed,
                     NEW n \in 0..Len(queue["frontend"]), NEW k \in 0..Len(queue["confirm"]),
                     ManagerRestarts(alive, n, k), WorkersRestart, UNCHANGED frontend
              PROVE  Typed'
  BY DEF Restarts
<1>. USE DEF Typed, TypeOK
<1>. DEFINE f == SubSeq(queue["frontend"], n + 1, Len(queue["frontend"]))
            g == SubSeq(queue["confirm"], k + 1, Len(queue["confirm"]))
<1>1. /\ queue["frontend"] \in Seq(Commands) /\ queue["frontend"] \in Seq(Messages)
      /\ queue["confirm"] \in Seq(Messages)
  BY DEF BrokerTypeOK, CommandsOnly, Queues
<1>2. f \in Seq(Commands) /\ f \in Seq(Messages) /\ g \in Seq(Messages)
  BY <1>1, SuffixType
<1>3. queue' = [queue EXCEPT !["frontend"] = f, !["confirm"] = g]
  BY DEF ManagerRestarts
<1>4. dropped' \subseteq Messages
  <2>1. ToSet(SubSeq(queue["frontend"], 1, n)) \subseteq Messages
    BY <1>1 DEF ToSet
  <2>2. ToSet(SubSeq(queue["confirm"], 1, k)) \subseteq Messages
    BY <1>1 DEF ToSet
  <2>3. ToSet(communication \o send_buffer) \subseteq Messages
    <3>1. communication \o send_buffer \in Seq(Commands)
      BY DEF ManagerTypeOK
    <3>. QED
      BY <3>1, ToSetType DEF Messages
  <2>4. {p[2] : p \in ToSet(publish_buffer)} \subseteq Messages
    <3>1. ToSet(publish_buffer) \subseteq Workers \X Commands
      BY ToSetType DEF ManagerTypeOK
    <3>. QED
      BY <3>1 DEF Messages
  <2>5. dropped' = dropped \cup ToSet(SubSeq(queue["frontend"], 1, n))
                   \cup ToSet(SubSeq(queue["confirm"], 1, k))
                   \cup ToSet(communication \o send_buffer)
                   \cup {p[2] : p \in ToSet(publish_buffer)}
    BY DEF ManagerRestarts
  <2>. QED
    BY <2>1, <2>2, <2>3, <2>4, <2>5 DEF BrokerTypeOK
<1>. HIDE DEF f, g
<1>5. CommandsOnly'
  BY <1>2, <1>3 DEF ManagerRestarts, CommandsOnly, BrokerTypeOK, Queues
<1>6. queue' \in [Queues -> Seq(Messages)]
  BY <1>2, <1>3 DEF BrokerTypeOK, Queues
<1>7. BrokerTypeOK'
  <2>1. faults' \in 0..MaxFaults
    BY DEF ManagerRestarts, Fault, BrokerTypeOK
  <2>2. /\ consumer' \in [Queues -> {"up", "down"}]
        /\ publisher' \in [Publishers -> {"up", "broken", "down", "ended"}]
    BY DEF ManagerRestarts, BrokerTypeOK
  <2>3. bound' \subseteq Queues /\ unacked' = unacked
    BY DEF ManagerRestarts, BrokerTypeOK, Queues
  <2>. QED
    BY <1>4, <1>6, <2>1, <2>2, <2>3 DEF BrokerTypeOK
<1>8. ManagerTypeOK'
  BY DEF ManagerRestarts, ManagerTypeOK
<1>9. WorkerTypeOK'
  BY DEF WorkersRestart, WorkerTypeOK
<1>10. FrontendTypeOK'
  BY DEF frontend, FrontendTypeOK
<1>. QED
  BY <1>5, <1>7, <1>8, <1>9, <1>10

(* Nothing changes when nothing does.                                      *)
LEMMA StutterTyped == Typed /\ UNCHANGED vars => Typed'
BY ZenonT(40) DEF Typed, TypeOK, BrokerTypeOK, CommandsOnly, ManagerTypeOK, WorkerTypeOK,
       FrontendTypeOK, vars

(* Every variable keeps its type, and only "confirm" carries notices.      *)
THEOREM TypedHolds == Spec => []Typed
<1>1. Typed /\ [Next]_vars => Typed'
  BY ManagerStepTyped, CannotParseTyped, WorkerStepTyped, RespondTyped, FrontendStepTyped,
     ConnectionTyped, RestartsTyped, StutterTyped DEF Next
<1>. QED
  BY TypedInit, <1>1, PTL DEF Spec

(***************************************************************************)
(* Every variable of the frontend, the manager, the workers and the broker *)
(* keeps its type, for any number of workers, users and commands, and with *)
(* any faults.                                                             *)
(***************************************************************************)
THEOREM TypeCorrect == Spec => []TypeOK
BY TypedHolds, PTL DEF Typed
=====================================================================================
