-------------------------- MODULE ControlledWorker --------------------------
(***************************************************************************)
(* One worker process with the client that talks to it and the supervisor  *)
(* that owns both: packages/pi-adapter/src/controlled-worker-client.ts,    *)
(* controlled-broker-extension.ts (which speaks for the process) and       *)
(* apps/daemon/src/runtime/controlled-worker-supervisor.ts.  One action    *)
(* per event handler, timer and continuation of an await.                  *)
(*                                                                         *)
(* Abstractions.  A record from the process may arrive at any time until   *)
(* its pipes end, which covers every delay of the pipes; one that is       *)
(* malformed, out of place, over a limit or unknown is WorkerFails, and so *)
(* are a broken pipe and the timers that end in stop().  Event records     *)
(* between the prompt and agent_settled are WorkerTranscript's.  The       *)
(* preparation of a launch is one await.  Error codes are told apart only  *)
(* where the code does: "state" and "cleanup".                             *)
(***************************************************************************)
EXTENDS Naturals, FiniteSets

CONSTANTS
  BrokerIds,  \* identities of the process's broker requests
  MaxBroker   \* brokerPending: how many may be outstanding, a natural number

VARIABLES
  supervisor,  \* binding.state, its flags, and where its calls are
  client,      \* the client's fields and promises
  process,     \* the process and its pipes
  directory    \* does runDirectory, once the client knows it, exist?
vars == <<supervisor, client, process, directory>>

Commands == {"get_state", "get_messages", "prompt", "abort"}
Clients ==
  [state : {"ALLOCATED", "STARTING", "READY", "BUSY", "DRAINING", "STOPPED", "FAILED"},
   failure : {"none", "state", "cleanup", "other"},
   closing : BOOLEAN, closeObserved : BOOLEAN, terminal : BOOLEAN,
   start : {"none", "preparing", "launched", "cleaning", "resolved", "rejected"},
   closed : {"none", "pending", "resolved", "rejected"},     \* closePromise
   unspawned : {"none", "pending", "resolved", "rejected"},  \* unspawnedClose
   session : BOOLEAN, shutdown : BOOLEAN, inputEnded : BOOLEAN,
   cancelled : BOOLEAN, accepted : BOOLEAN, settled : BOOLEAN,
   killing : {"none", "term", "kill", "given_up"}, removal : BOOLEAN,
   requests : [Commands -> {"unsent", "pending", "resolved", "refused", "rejected"}],
   broker : [BrokerIds -> {"unused", "handling", "sent", "seen"}]]
Supervisors ==
  [binding : {"ALLOCATED", "STARTING", "READY", "BUSY", "DRAINING", "STOPPED", "FAILED"},
   start : {"none", "pending", "done"}, dispatch : {"none", "pending", "done"},
   cancelled : BOOLEAN, closed : BOOLEAN, answer : {"none", "evidence", "error"}]
Processes ==
  [life : {"none", "running", "exited"}, clean : BOOLEAN, eof : BOOLEAN]

Init ==
  /\ supervisor = [binding |-> "ALLOCATED", start |-> "none", dispatch |-> "none",
                   cancelled |-> FALSE, closed |-> FALSE, answer |-> "none"]
  /\ client = [state |-> "ALLOCATED", failure |-> "none",
               closing |-> FALSE, closeObserved |-> FALSE, terminal |-> FALSE,
               start |-> "none", closed |-> "none", unspawned |-> "none",
               session |-> FALSE, shutdown |-> FALSE, inputEnded |-> FALSE,
               cancelled |-> FALSE, accepted |-> FALSE, settled |-> FALSE,
               killing |-> "none", removal |-> FALSE, requests |-> [c \in Commands |-> "unsent"],
               broker |-> [b \in BrokerIds |-> "unused"]]
  /\ process = [life |-> "none", clean |-> FALSE, eof |-> FALSE]
  /\ directory = FALSE
-----------------------------------------------------------------------------
(* Helpers of the client.                                                  *)

Spawned == process.life # "none"
Failed == client.failure # "none"
Outstanding(c) == {b \in BrokerIds : c.broker[b] \in {"handling", "sent"}}
Rejected(requests) ==
  [c \in Commands |-> IF requests[c] = "pending" THEN "rejected" ELSE requests[c]]

\* stop(): the first failure ends everything, and the process is told to end.
Stopped(c, code, spawned) ==
  IF c.failure # "none" \/ c.closeObserved THEN c
  ELSE [c EXCEPT
          !.failure = code, !.state = "FAILED", !.requests = Rejected(@),
          !.start = IF @ = "launched" THEN "cleaning" ELSE @,
          !.terminal = @ \/ ~spawned,
          !.closed = IF ~spawned /\ @ = "pending" THEN "rejected" ELSE @,
          !.killing = IF spawned THEN "term" ELSE @]
Stop(code) == client' = Stopped(client, code, Spawned)

\* closeInputAfterBrokerDrain: standard input ends once every broker response was seen.
InputClosed(c) ==
  IF c.closing /\ ~c.inputEnded /\ c.failure = "none" /\ ~c.closeObserved /\ Outstanding(c) = {}
  THEN [c EXCEPT !.inputEnded = TRUE] ELSE c

\* A command is refused without being sent, or it waits for its response.
Send(c, command) ==
  IF c.failure # "none" \/ c.closing \/ c.closeObserved
       \/ c.state \notin {"READY", "BUSY", "DRAINING"}
       \/ (command = "prompt" /\ (c.state # "READY" \/ c.cancelled))
  THEN [c EXCEPT !.requests[command] = "rejected"]
  ELSE [c EXCEPT !.requests[command] = "pending",
                 !.state = IF command = "prompt" THEN "BUSY" ELSE "DRAINING",
                 !.cancelled = @ \/ command = "abort"]
-----------------------------------------------------------------------------
(* The supervisor's calls.                                                 *)

Start ==
  /\ supervisor.binding = "ALLOCATED" /\ ~supervisor.closed
  /\ supervisor' = [supervisor EXCEPT !.binding = "STARTING", !.start = "pending"]
  /\ client' = [client EXCEPT !.state = "STARTING", !.start = "preparing"]
  /\ UNCHANGED <<process, directory>>
\* The client's start() ended; the supervisor looks again whether it was closed meanwhile.
StartReturns ==
  /\ supervisor.start = "pending" /\ client.start \in {"resolved", "rejected"}
  /\ supervisor' = [supervisor EXCEPT
       !.start = "done",
       !.binding = IF client.start = "resolved" /\ ~supervisor.closed THEN "READY" ELSE "FAILED"]
  /\ UNCHANGED <<client, process, directory>>
Dispatch ==
  /\ supervisor.binding = "READY" /\ ~supervisor.closed /\ ~supervisor.cancelled
  /\ supervisor.dispatch = "none"
  /\ supervisor' = [supervisor EXCEPT !.binding = "BUSY", !.dispatch = "pending"]
  /\ client' = Send(client, "prompt")
  /\ UNCHANGED <<process, directory>>
DispatchReturns ==
  /\ supervisor.dispatch = "pending"
  /\ client.requests["prompt"] \in {"resolved", "refused", "rejected"}
  /\ supervisor' = [supervisor EXCEPT
       !.dispatch = "done",
       !.binding = IF client.requests["prompt"] = "resolved" THEN @ ELSE "FAILED"]
  /\ UNCHANGED <<client, process, directory>>
\* events(): the settled event passes by.
ObserveSettled ==
  /\ client.settled /\ supervisor.binding = "BUSY"
  /\ supervisor' = [supervisor EXCEPT !.binding = "DRAINING"]
  /\ UNCHANGED <<client, process, directory>>
\* snapshot(), or events() when the client's stream throws.
ObserveFailure ==
  /\ client.state = "FAILED" \/ (Failed /\ client.terminal)
  /\ supervisor.binding # "FAILED"
  /\ supervisor' = [supervisor EXCEPT !.binding = "FAILED"]
  /\ UNCHANGED <<client, process, directory>>
Abort ==
  /\ supervisor.binding \in {"READY", "BUSY", "DRAINING"} /\ ~supervisor.closed
  /\ client.requests["abort"] = "unsent"
  /\ supervisor' = [supervisor EXCEPT !.binding = "DRAINING", !.cancelled = TRUE]
  /\ client' = Send(client, "abort")
  /\ UNCHANGED <<process, directory>>
\* Before the process is spawned, closing alone keeps it from being spawned; after it,
\* a start in progress is rejected and standard input ends once the broker has drained.
Dispose ==
  /\ ~supervisor.closed
  /\ supervisor' = [supervisor EXCEPT
       !.closed = TRUE,
       !.binding = IF @ \in {"ALLOCATED", "STARTING", "FAILED", "STOPPED"} THEN @ ELSE "DRAINING"]
  /\ client' =
       IF client.closed = "none"
       THEN [client EXCEPT !.unspawned = "pending", !.closing = TRUE,
                           !.state = IF Failed THEN @ ELSE "DRAINING"]
       ELSE IF Failed \/ client.closeObserved THEN client
       ELSE InputClosed([client EXCEPT !.closing = TRUE, !.state = "DRAINING",
                           !.start = IF client.state = "STARTING" /\ @ = "launched"
                                     THEN "cleaning" ELSE @])
  /\ UNCHANGED <<process, directory>>
DisposeReturns ==
  /\ supervisor.closed /\ supervisor.answer = "none"
  /\ \E promise \in {client.closed, client.unspawned} :
       \/ /\ promise = "resolved"
          /\ supervisor' = [supervisor EXCEPT
               !.answer = "evidence",
               !.binding = IF client.state = "FAILED" THEN "FAILED" ELSE "STOPPED"]
       \/ /\ promise = "rejected"
          /\ supervisor' = [supervisor EXCEPT !.answer = "error", !.binding = "FAILED"]
  /\ UNCHANGED <<client, process, directory>>
-----------------------------------------------------------------------------
(* The client's start() and the close of a client that never spawned.      *)

PreparationFails ==
  /\ client.start = "preparing"
  /\ client' = [Stopped(client, "other", Spawned) EXCEPT !.start = "cleaning"]
  /\ directory' \in BOOLEAN
  /\ UNCHANGED <<supervisor, process>>
\* Mutant of PreparationEnds: closing is not looked at again before the spawn.
PreparationSpawns ==
  /\ client.start = "preparing"
  /\ directory' = TRUE
  /\ client' = [client EXCEPT !.start = "launched", !.closed = "pending"]
  /\ process' = [process EXCEPT !.life = "running"]
  /\ UNCHANGED supervisor
PreparationEnds ==
  /\ client.start = "preparing"
  /\ directory' = TRUE
  /\ \/ /\ client.closing
        /\ client' = [Stopped(client, "state", FALSE) EXCEPT !.start = "cleaning"]
        /\ UNCHANGED process
     \/ /\ ~client.closing
        /\ \/ /\ client' = [client EXCEPT !.start = "launched", !.closed = "pending"]
              /\ process' = [process EXCEPT !.life = "running"]
           \/ \* spawn() throws
              /\ client' = [Stopped([client EXCEPT !.closed = "pending"], "other", FALSE)
                             EXCEPT !.start = "cleaning"]
              /\ UNCHANGED process
  /\ UNCHANGED supervisor
\* The catch of start(): it waits for a spawned process to close before it rejects.
StartRejects ==
  /\ client.start = "cleaning"
  /\ Spawned => client.closed \in {"resolved", "rejected"}
  /\ client' = [client EXCEPT !.start = "rejected"]
  /\ directory' \in IF Spawned THEN {directory} ELSE {directory, FALSE}
  /\ UNCHANGED <<supervisor, process>>
\* Mutant of UnspawnedCloses: it does not wait for the preparation.
UnspawnedClosesEarly ==
  /\ client.unspawned = "pending" /\ directory' = FALSE
  /\ client' = [client EXCEPT
       !.unspawned = "resolved", !.terminal = TRUE,
       !.state = IF client.failure \in {"none", "state"} THEN "STOPPED" ELSE @]
  /\ UNCHANGED <<supervisor, process>>
UnspawnedCloses ==
  /\ client.unspawned = "pending" /\ client.start # "preparing"
  /\ \/ /\ directory' = FALSE
        /\ client' = [client EXCEPT
             !.unspawned = "resolved", !.terminal = TRUE,
             !.state = IF client.failure \in {"none", "state"} THEN "STOPPED" ELSE @]
     \/ directory /\ client' = [client EXCEPT !.unspawned = "rejected"] /\ UNCHANGED directory
  /\ UNCHANGED <<supervisor, process>>
-----------------------------------------------------------------------------
(* Records from the process; after a failure they are not read.            *)

Readable == Spawned /\ ~process.eof /\ ~Failed /\ ~client.closeObserved
Receive == Readable /\ UNCHANGED <<supervisor, process, directory>>
\* The record is acted on, or it is out of place and the client stops.
AcceptIf(condition, next) ==
  IF condition THEN client' = next ELSE Stop(IF client.closing THEN "state" ELSE "other")

HelloArrives ==
  /\ Receive
  /\ AcceptIf(~client.closing /\ ~client.session /\ client.state = "STARTING",
       [client EXCEPT !.session = TRUE,
          !.requests["get_state"] = "pending", !.requests["get_messages"] = "pending"])
ResponseArrives(command) ==
  /\ Receive /\ client.requests[command] = "pending"
  /\ \E outcome \in {"resolved", "refused"} :
       client' = [client EXCEPT
         !.requests[command] = outcome,
         !.accepted = IF command = "prompt" THEN outcome = "resolved" ELSE @,
         !.state = IF command = "prompt" /\ outcome = "refused" THEN "DRAINING" ELSE @]
\* Both receipts are there: the worker is ready unless it was closed meanwhile.
HandshakeCompletes ==
  /\ client.start \in {"launched", "cleaning", "rejected"} /\ ~Failed
  /\ {client.requests["get_state"], client.requests["get_messages"]} \subseteq {"resolved", "refused"}
  /\ client' =
       IF client.closing \/ client.terminal \/ client.state # "STARTING"
       THEN [client EXCEPT !.start = IF @ = "launched" THEN "cleaning" ELSE @]
       ELSE IF {client.requests["get_state"], client.requests["get_messages"]} = {"resolved"}
       THEN [client EXCEPT !.state = "READY", !.start = "resolved"]
       ELSE Stopped(client, "other", Spawned)
  /\ UNCHANGED <<supervisor, process, directory>>
AgentSettles ==
  /\ Receive
  /\ AcceptIf(client.accepted /\ ~client.settled,
              [client EXCEPT !.settled = TRUE, !.state = "DRAINING"])

BrokerRequestArrives(b) ==
  /\ Receive /\ client.broker[b] = "unused"
  /\ AcceptIf(/\ client.session /\ client.state = "BUSY" /\ ~client.cancelled /\ ~client.closing
              /\ Cardinality(Outstanding(client)) < MaxBroker,
              [client EXCEPT !.broker[b] = "handling"])
\* The supervisor's broker answers; it always does (ControlledBroker).
BrokerAnswers(b) ==
  /\ client.broker[b] = "handling" /\ ~Failed /\ ~client.closeObserved
  /\ client' = [client EXCEPT !.broker[b] = "sent"]
  /\ UNCHANGED <<supervisor, process, directory>>
ResponseSeen(b) ==
  /\ Receive
  /\ client.broker[b] = "sent"
  /\ client' = InputClosed([client EXCEPT !.broker[b] = "seen"])
\* The extension says goodbye only when none of its requests waits for a response, and
\* its receipts precede the goodbye on the same pipe.
ShutdownArrives ==
  /\ Receive /\ client.session /\ Outstanding(client) = {}
  /\ AcceptIf(client.closing /\ ~client.shutdown, [client EXCEPT !.shutdown = TRUE])
\* Anything else: a bad record, a limit, a broken pipe, an early end of the pipes; and
\* the timers: maxDurationMs, 1 s after the end of input, 100 ms after the end of a pipe.
WorkerFails ==
  /\ Spawned /\ ~Failed /\ ~client.closeObserved /\ Stop("other")
  /\ UNCHANGED <<supervisor, process, directory>>
-----------------------------------------------------------------------------
(* Ending the process.                                                     *)

Kill ==
  /\ client.killing = "term" /\ ~client.closeObserved
  /\ client' = [client EXCEPT !.killing = "kill"]
  /\ UNCHANGED <<supervisor, process, directory>>
\* Mutant of GiveUp: the caller waits for the process, however long it takes.
GiveUpNever == FALSE /\ UNCHANGED vars
\* One second after SIGKILL the process is let go of: nobody knows whether it ended.
GiveUp ==
  /\ client.killing = "kill" /\ ~client.closeObserved
  /\ client' = [client EXCEPT !.killing = "given_up", !.failure = "cleanup", !.terminal = TRUE,
                              !.closed = IF @ = "pending" THEN "rejected" ELSE @]
  /\ process' = [process EXCEPT !.eof = TRUE]
  /\ UNCHANGED <<supervisor, directory>>
ProcessExits ==
  /\ process.life = "running"
  /\ \E clean \in BOOLEAN : process' = [process EXCEPT !.life = "exited", !.clean = clean]
  /\ UNCHANGED <<supervisor, client, directory>>
PipesEnd ==
  /\ Spawned /\ ~process.eof
  /\ process' = [process EXCEPT !.eof = TRUE]
  /\ UNCHANGED <<supervisor, client, directory>>

CleanClose ==
  client.shutdown /\ process.clean /\ \A c \in Commands : client.requests[c] # "pending"
CloseEvent ==
  /\ process.life = "exited" /\ process.eof /\ ~client.closeObserved
  /\ LET c == IF client.closing /\ CleanClose THEN client ELSE Stopped(client, "other", TRUE) IN
     client' = [c EXCEPT !.closeObserved = TRUE, !.killing = "none",
                         !.state = IF c.failure = "none" THEN "STOPPED" ELSE "FAILED"]
  /\ UNCHANGED <<supervisor, process, directory>>
RemoveDirectory ==
  /\ client.closeObserved /\ ~client.removal
  /\ \/ /\ directory' = FALSE
        /\ client' = [client EXCEPT
             !.removal = TRUE, !.terminal = TRUE,
             !.closed = IF @ = "pending" THEN "resolved" ELSE @]
     \/ /\ client' = [client EXCEPT
             !.failure = "cleanup", !.removal = TRUE, !.terminal = TRUE,
             !.closed = IF @ = "pending" THEN "rejected" ELSE @]
        /\ UNCHANGED directory
  /\ UNCHANGED <<supervisor, process>>

Calls == Start \/ Dispatch \/ Abort \/ Dispose
Continuations ==
  \/ StartReturns \/ DispatchReturns \/ ObserveSettled \/ ObserveFailure \/ DisposeReturns
  \/ PreparationFails \/ PreparationEnds \/ StartRejects \/ UnspawnedCloses
  \/ HandshakeCompletes \/ CloseEvent \/ RemoveDirectory
Timers == WorkerFails \/ Kill \/ GiveUp
Arrivals ==
  \/ HelloArrives \/ AgentSettles \/ ShutdownArrives \/ ProcessExits \/ PipesEnd
  \/ \E c \in Commands : ResponseArrives(c)
  \/ \E b \in BrokerIds : BrokerRequestArrives(b) \/ BrokerAnswers(b) \/ ResponseSeen(b)
Next == Calls \/ Continuations \/ Timers \/ Arrivals
\* The event loop runs continuations and timers; nothing is assumed of the process.
Fairness == WF_vars(Continuations) /\ WF_vars(Timers)
Spec == Init /\ [][Next]_vars /\ Fairness
-----------------------------------------------------------------------------
\* The types of the variables; brokerPending keeps its limit.
TypeOK ==
  /\ supervisor \in Supervisors /\ client \in Clients
  /\ process \in Processes /\ directory \in BOOLEAN
  /\ Cardinality(Outstanding(client)) <= MaxBroker

\* Evidence of a close is of a process that has exited and whose directory is gone, and
\* evidence that nothing was spawned is of a client that has not and will not spawn.
EvidenceIsPhysical ==
  /\ client.closed = "resolved" =>
       process.life = "exited" /\ client.closeObserved /\ ~directory
  /\ client.unspawned = "resolved" =>
       process.life = "none" /\ ~directory /\ client.start # "preparing"

\* The worker as its owner sees it.
Custody == INSTANCE WorkerCustody WITH
  life <- process.life, asked <- supervisor.closed, answer <- supervisor.answer
CustodyKept == Custody!Spec

\* Disposal and start end, whatever the process does.
CallsReturn ==
  /\ supervisor.closed ~> supervisor.answer # "none"
  /\ supervisor.start = "pending" ~> supervisor.start = "done"
=============================================================================
