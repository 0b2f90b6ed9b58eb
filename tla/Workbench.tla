----------------------------- MODULE Workbench -----------------------------
(***************************************************************************)
(* The browser's workbench: the client of the session API                  *)
(* (apps/web/src/workbench.ts) and the controller of its pages             *)
(* (controller.ts).  The user's operations exclude each other, recoveries  *)
(* run beside them; every await of a response may be overtaken by another  *)
(* operation, by the end of the stream or by the loss of the identity.     *)
(*                                                                         *)
(* A generation that has moved on is a flag: #invalidate clears "valid" of *)
(* every read that waits, and streamGeneration++ forgets the watcher.  The *)
(* server is its revision, one commit each; a request it has not answered  *)
(* in time may still reach it.                                             *)
(*                                                                         *)
(* A page shows the snapshot, a selection (what search, explain, task and  *)
(* result read) and the body of a write's answer, each as of a revision.   *)
(* Two reads of the selection are of one facet of the code, and the later  *)
(* then supersedes the earlier, or of two.  A body is shown as of its      *)
(* commit.  Left out: the reads before an operation suspends the page and  *)
(* between two of its writes, and the plan that task.continue binds after  *)
(* its reads.                                                              *)
(***************************************************************************)
EXTENDS Naturals, FiniteSets

CONSTANTS
  Commands,    \* the user's commands, each submitted once
  Receipted,   \* those whose answer holds a receipt: all but memory.input and result.plan
  Bodied,      \* those whose answer holds evidence, a plan or a result
  Recoveries,  \* bound on the recoveries that run at once
  MaxTries,    \* bound on the attempts of a write
  MaxRevision, \* bound on the server's commits
  MaxFaults    \* bound on failed reads, ended streams and lost identities

VARIABLES
  revision, committed,  \* the server: its commits, and which of them is each command's, or 0
  requests,   \* the attempts not yet handled by the server
  reply,      \* what the server answered to the attempt in progress
  view,       \* WorkbenchView, with the event cursor
  write,      \* the write: its state, command, #pending and attempt
  operations, \* who waits for what: the user's operation and the recoveries
  watcher,    \* the stream of the current streamGeneration; "superseded": never opened
  timers,     \* scheduled recoveries: the cancellable one, those whose handle is lost
  recoveries, \* recoveryCount
  versions,   \* confirmedVersions
  confirmed,  \* the revision of the last commit the user saw confirmed
  faults
server == <<revision, committed, requests>>
screen == <<view, operations, watcher>>
upkeep == <<timers, recoveries, versions>>
vars == <<server, reply, screen, write, upkeep, confirmed, faults>>

Callers == {"user"} \cup Recoveries
Facets == {"snapshot", "selection", "body"}
None == MaxRevision + 1
Nothing == [f \in Facets |-> None]
Idle == [step |-> "none", valid |-> FALSE, served |-> None]
Reading(step) == [step |-> step, valid |-> TRUE, served |-> None]
Sending == [step |-> "writing", valid |-> TRUE, served |-> None]
NoWrite == [status |-> "idle", command |-> "none", pending |-> FALSE, retrying |-> FALSE, tries |-> 0]

Init ==
  /\ revision = 0 /\ committed = [k \in Commands |-> 0] /\ requests = {} /\ reply = "none"
  /\ view = [connection |-> "permission", shown |-> Nothing, cursor |-> FALSE]
  /\ write = NoWrite /\ operations = [c \in Callers |-> Idle]
  /\ watcher = "none" /\ timers = [held |-> 0, lost |-> 0] /\ recoveries = 0
  /\ versions = None /\ confirmed = 0 /\ faults = 0

Fault == faults < MaxFaults /\ faults' = faults + 1
\* #invalidate: nothing is shown, no read that waits is published, the stream is aborted.
Blank(connection) == [connection |-> connection, shown |-> Nothing, cursor |-> FALSE]
Outdated(ops) == [c \in Callers |-> [ops[c] EXCEPT !.valid = FALSE]]
Aborted == IF watcher = "streaming" THEN "ended" ELSE watcher
Invalidate(connection, ops) ==
  view' = Blank(connection) /\ operations' = Outdated(ops)
\* An operation begins by suspending the reads of the page.
SuspendReads(step) ==
  /\ view' = Blank("disconnected")
  /\ operations' = [Outdated(operations) EXCEPT !["user"] = step]
  /\ watcher' = "none" /\ timers' = [timers EXCEPT !.held = 0]
Free == operations["user"].step = "none"
Identified == view.connection # "permission"

(***************************************************************************)
(* The controller's operations.                                            *)
(***************************************************************************)
Connect ==
  /\ Free /\ ~Identified
  /\ operations' = [Outdated(operations) EXCEPT !["user"] = Reading("pairing")]
  /\ view' = Blank("pairing") /\ watcher' = "none" /\ timers' = [timers EXCEPT !.held = 0]
  /\ UNCHANGED <<server, reply, write, recoveries, versions, confirmed, faults>>
Go ==
  /\ Free /\ Identified /\ SuspendReads(Reading("refresh"))
  /\ UNCHANGED <<server, reply, write, recoveries, versions, confirmed, faults>>
\* #beginRead of a selection: another read of the same facet will not be published, and the
\* operation it was the last read of opens no stream.
Superseded(caller) == {c \in Callers \ {caller} : operations[c].step \in {"select", "look"}}
Select(caller, step, others) ==
  /\ others \subseteq Superseded(caller)
  /\ operations' = [c \in Callers |->
       IF c = caller THEN Reading(step)
       ELSE IF c \in others THEN [operations[c] EXCEPT !.valid = FALSE] ELSE operations[c]]
  /\ view' = [view EXCEPT !.shown["selection"] = None]
  /\ watcher' = IF \E c \in others : operations[c].step = "select" /\ operations[c].valid
                THEN "superseded" ELSE watcher
\* search, memoryDetail: a read that neither suspends nor watches.
Look(others) ==
  /\ Free /\ Identified /\ Select("user", "look", others)
  /\ UNCHANGED <<server, reply, write, timers, recoveries, versions, confirmed, faults>>
Sent(command, tries) == requests \cup {[command |-> command, try |-> tries]}
Unsent(command) == committed[command] = 0 /\ \A r \in requests : r.command # command
Submit(command) ==
  /\ write' = [status |-> "sending", command |-> command, pending |-> TRUE,
               retrying |-> FALSE, tries |-> 1]
  /\ requests' = Sent(command, 1)
\* A new command is refused while the fate of another is unknown.
Command(command) ==
  /\ Free /\ Identified /\ Unsent(command)
  /\ IF write.pending
     THEN SuspendReads(Idle) /\ UNCHANGED <<write, requests>>
     ELSE write.command # command /\ SuspendReads(Sending) /\ Submit(command)
  /\ UNCHANGED <<revision, committed, reply, recoveries, versions, confirmed, faults>>
\* The same body under the same idempotency key.
RetryUnknown ==
  /\ Free /\ Identified /\ write.pending /\ write.status = "unknown" /\ write.tries < MaxTries
  /\ operations' = [operations EXCEPT !["user"] = Sending]
  /\ write' = [write EXCEPT !.status = "sending", !.retrying = TRUE, !.tries = @ + 1]
  /\ requests' = Sent(write.command, write.tries + 1)
  /\ UNCHANGED <<revision, committed, reply, view, watcher, timers, recoveries, versions, confirmed, faults>>
DiscardUnknown ==
  /\ operations["user"].step # "writing" /\ Identified /\ write.pending
  /\ write' = [write EXCEPT !.status = "idle", !.pending = FALSE]
  /\ UNCHANGED <<server, reply, screen, timers, recoveries, versions, confirmed, faults>>
\* recover, by the user or by a timer; it does not wait for the user's operation.
Recover(caller) ==
  /\ caller # "user" /\ operations[caller].step = "none"
  /\ watcher' = "none"
  /\ IF Identified
     THEN /\ view' = Blank(view.connection)
          /\ operations' = [Outdated(operations) EXCEPT ![caller] = Reading("refresh")]
     ELSE UNCHANGED <<view, operations>>
  /\ UNCHANGED <<server, reply, write, versions, confirmed, faults>>
RecoverByUser(caller) == Recover(caller) /\ recoveries' = 0 /\ timers' = [timers EXCEPT !.held = 0]
TimerFires(caller) ==
  /\ \/ timers.held > 0
     \/ timers.lost > 0
  /\ timers' = [held |-> 0, lost |-> IF timers.held > 0 THEN timers.lost ELSE timers.lost - 1]
  /\ Recover(caller) /\ UNCHANGED recoveries

(***************************************************************************)
(* Reads.                                                                  *)
(***************************************************************************)
Serve(caller) ==
  /\ operations[caller].step \in {"pairing", "refresh", "context", "select", "look"}
  /\ operations[caller].served = None
  /\ operations' = [operations EXCEPT ![caller].served = revision]
  /\ UNCHANGED <<server, reply, view, watcher, write, upkeep, confirmed, faults>>
\* Mutant of Publishes: an answer is shown although the page has moved on.
PublishesLate(operation) == operation.served # None
\* #publishRead.
Publishes(operation) == operation.valid /\ operation.served # None
Refreshed(caller) ==
  /\ operations[caller].step \in {"pairing", "refresh"} /\ Publishes(operations[caller])
  /\ view' = [connection |-> "connected", cursor |-> TRUE,
              shown |-> [view.shown EXCEPT !["snapshot"] = operations[caller].served]]
  /\ operations' = [operations EXCEPT ![caller] = Reading("context")]
  /\ versions' = operations[caller].served
  /\ recoveries' = IF versions' = versions THEN recoveries ELSE 0
  /\ UNCHANGED <<server, reply, watcher, write, timers, confirmed, faults>>
\* The operation goes on to what its page has selected.
SelectMore(caller, others) ==
  /\ operations[caller].step = "context" /\ Publishes(operations[caller])
  /\ Select(caller, "select", others)
  /\ UNCHANGED <<server, reply, write, upkeep, confirmed, faults>>
ShowSelection(caller) ==
  view' = [view EXCEPT !.shown["selection"] = operations[caller].served]
\* The last read of an operation is there: the events are watched from the snapshot on.
Watch(caller) ==
  /\ Publishes(operations[caller])
  /\ \/ operations[caller].step = "context" /\ UNCHANGED view
     \/ operations[caller].step = "select" /\ ShowSelection(caller)
  /\ operations' = [operations EXCEPT ![caller] = Idle]
  /\ watcher' = IF view.cursor THEN "streaming" ELSE "ended"
  /\ UNCHANGED <<server, reply, write, upkeep, confirmed, faults>>
\* Shown also where nothing is watched: on a disconnected page, or after the last recovery.
Looked ==
  /\ operations["user"].step = "look" /\ Publishes(operations["user"])
  /\ operations' = [operations EXCEPT !["user"] = Idle]
  /\ ShowSelection("user")
  /\ UNCHANGED <<server, reply, watcher, write, upkeep, confirmed, faults>>
Cancelled(caller) ==
  /\ operations[caller].step \notin {"none", "writing"} /\ ~operations[caller].valid
  /\ operations' = [operations EXCEPT ![caller] = Idle]
  /\ UNCHANGED <<server, reply, view, watcher, write, timers, recoveries, versions, confirmed, faults>>
ReadFails(caller) ==
  /\ operations[caller].step \notin {"none", "writing"} /\ operations[caller].valid /\ Fault
  /\ Invalidate(IF operations[caller].step = "pairing" THEN "permission" ELSE "disconnected",
                [operations EXCEPT ![caller] = Idle])
  /\ watcher' = Aborted
  /\ UNCHANGED <<server, reply, write, timers, recoveries, versions, confirmed>>

(***************************************************************************)
(* The stream.                                                             *)
(***************************************************************************)
StreamEnds ==
  /\ watcher = "streaming" /\ Fault /\ watcher' = "ended"
  /\ Invalidate("disconnected", operations)
  /\ UNCHANGED <<server, reply, write, upkeep, confirmed>>
\* The controller's finally, for the stream of its current generation.
WatchReturns ==
  /\ watcher = "ended" /\ watcher' = "none"
  /\ IF view.connection \notin {"connected", "disconnected"} THEN UNCHANGED <<timers, recoveries>>
     ELSE IF recoveries >= 3 THEN UNCHANGED <<timers, recoveries>>
     ELSE /\ recoveries' = recoveries + 1
          /\ timers' = [held |-> 1, lost |-> timers.lost + timers.held]
  /\ UNCHANGED <<server, reply, view, operations, write, versions, confirmed, faults>>
LoseIdentity ==
  /\ Identified /\ Fault /\ Invalidate("permission", operations) /\ watcher' = Aborted
  /\ write' = [NoWrite EXCEPT !.command = write.command, !.tries = write.tries]
  /\ UNCHANGED <<server, reply, upkeep, confirmed>>

(***************************************************************************)
(* Writes.                                                                 *)
(***************************************************************************)
\* An attempt reaches the server, whether or not someone still waits for its answer.
Handle(request) ==
  /\ request \in requests /\ requests' = requests \ {request}
  /\ LET awaited == write.status = "sending" /\ write.command = request.command
                      /\ write.tries = request.try
     IN \/ \* committed, now or before
           /\ \/ committed[request.command] # 0 /\ UNCHANGED <<revision, committed>>
              \/ /\ committed[request.command] = 0 /\ revision < MaxRevision
                 /\ committed' = [committed EXCEPT ![request.command] = revision + 1]
                 /\ revision' = revision + 1
           /\ reply' = IF awaited THEN "success" ELSE reply
        \/ \* refused, though perhaps committed before
           /\ reply' = IF awaited THEN "rejected" ELSE reply
           /\ UNCHANGED <<revision, committed>>
  /\ UNCHANGED <<screen, write, upkeep, confirmed, faults>>
OthersCommit ==
  /\ revision < MaxRevision /\ revision' = revision + 1
  /\ UNCHANGED <<committed, requests, reply, screen, write, upkeep, confirmed, faults>>
Writing == operations["user"].step = "writing"
\* The write is known to be committed: what was read before is withdrawn.  The body of the
\* answer is shown unless the reads of the page have moved on or the body may no longer be read.
Succeeds ==
  /\ Writing /\ write.status = "sending" /\ reply = "success" /\ reply' = "none"
  /\ \E body \in BOOLEAN :
       /\ body => write.command \in Bodied /\ operations["user"].valid
       /\ body \/ write.command \in Receipted
       /\ view' = [Blank(view.connection) EXCEPT !.shown["body"] =
                     IF body THEN committed[write.command] ELSE None]
  /\ confirmed' = committed[write.command]
  /\ watcher' = Aborted
  /\ UNCHANGED <<revision, committed, upkeep, faults>>
\* A retry ends there, with nothing read and nothing watched.
Confirmed ==
  /\ Succeeds /\ UNCHANGED requests
  /\ write' = [write EXCEPT !.pending = FALSE, !.status =
                 IF write.command \in Receipted THEN "confirmed" ELSE "received"]
  /\ operations' = [Outdated(operations) EXCEPT !["user"] =
       IF write.retrying THEN Idle ELSE Reading("refresh")]
\* createTask and saveMemory go on to their next write.
NextWrite(command) ==
  /\ ~write.retrying /\ write.command # command /\ Unsent(command)
  /\ Succeeds /\ Submit(command)
  /\ operations' = [Outdated(operations) EXCEPT !["user"] = Sending]
\* Mutant of Refused: a refused retry is a refused command.
RefusedAnyway == reply = "rejected"
Refused == reply = "rejected" /\ ~write.retrying
\* No answer, a refusal, or an answer without a receipt whose body can no longer be shown
\* (its time is over: a fault).  createTask reads on, whatever became of its plan.
NotConfirmed ==
  /\ Writing /\ write.status = "sending" /\ reply' = "none"
  /\ \/ reply = "none" /\ Fault
     \/ reply = "rejected" /\ UNCHANGED faults
     \/ /\ reply = "success" /\ write.command \notin Receipted
        /\ IF operations["user"].valid THEN Fault ELSE UNCHANGED faults
  /\ write' = [write EXCEPT !.status = IF Refused THEN "rejected" ELSE "unknown", !.pending = ~Refused]
  /\ view' = Blank(IF Refused THEN view.connection ELSE "disconnected")
  /\ \E next \in {Idle, Reading("refresh")} :
       /\ next # Idle => ~write.retrying /\ write.command \notin Receipted
       /\ operations' = [Outdated(operations) EXCEPT !["user"] = next]
  /\ watcher' = Aborted
  /\ UNCHANGED <<server, upkeep, confirmed>>
\* The identity was lost while the write waited.
WriteLost ==
  /\ Writing /\ write.status # "sending" /\ reply' = "none"
  /\ operations' = [operations EXCEPT !["user"] = Idle]
  /\ UNCHANGED <<server, view, watcher, write, timers, recoveries, versions, confirmed, faults>>

Next ==
  \/ Connect \/ Go \/ RetryUnknown \/ DiscardUnknown
  \/ \E c \in Commands : Command(c) \/ NextWrite(c)
  \/ \E others \in SUBSET Callers : Look(others) \/ \E c \in Callers : SelectMore(c, others)
  \/ \E c \in Callers : RecoverByUser(c) \/ TimerFires(c)
  \/ \E c \in Callers : Serve(c) \/ Refreshed(c) \/ Watch(c) \/ Cancelled(c) \/ ReadFails(c)
  \/ Looked \/ StreamEnds \/ WatchReturns \/ LoseIdentity
  \/ (\E r \in requests : Handle(r)) \/ OthersCommit \/ Confirmed \/ NotConfirmed \/ WriteLost
Spec == Init /\ [][Next]_vars

(***************************************************************************)
(* Properties.                                                             *)
(***************************************************************************)
\* A command the user is told was rejected is not committed, and no attempt of it is on its
\* way to the server.
RejectedIsUncommitted == write.status = "rejected" => Unsent(write.command)
\* Whatever the page shows was read after the last commit the user saw confirmed, or is its
\* body; and a snapshot is followed by a stream, or an operation that ends in one is under way,
\* unless that operation's last read was superseded by the user's.
Underway(c) == operations[c].valid /\ operations[c].step \in {"context", "select"}
ShownIsCurrent ==
  /\ \A f \in Facets : view.shown[f] # None => view.shown[f] >= confirmed
  /\ view.shown["snapshot"] # None =>
       watcher \in {"streaming", "superseded"} \/ \E c \in Callers : Underway(c)
=============================================================================
