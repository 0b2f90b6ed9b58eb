------------------------------- MODULE TaskRows -------------------------------
(***************************************************************************)
(* The rows of the task store and the validation that reads them.  Every   *)
(* transaction of packages/memory-store/src/{task-store-v1,task-execution- *)
(* store-v1}.ts ends with validateRows of both engines over all the tables,*)
(* and so does every open: a row that one operation writes and another     *)
(* operation's rows contradict makes the store refuse, as corrupt, what it *)
(* has just accepted, or all of itself.  The tables are written here by    *)
(* the operations, each with the columns its own INSERTs name, and read    *)
(* back by the conjuncts of RowsValid.                                     *)
(*                                                                         *)
(* Abstractions.  One session.  A table is the sequence of its rows in     *)
(* insertion order, so an outbox cursor is an index.  Bodies (request      *)
(* texts, criteria, working states), identities, times and privacy are     *)
(* left out; "facts" are the edges of task_content_dependency_v1 into a    *)
(* version that its readers look for: <<"run", attempt, revision>> an      *)
(* execution snapshot, <<"event", 0, row>> a runtime event, <<"decision",  *)
(* 0, revision>> and <<"result", 0, revision>> the coordinator's and the   *)
(* verifier's word on that version.  "about" is the part of an event's     *)
(* payload that is read back: a state, and the attempt and number of an    *)
(* input or of an execution's snapshot.  Stale callers are TaskSession's;  *)
(* the caller here is the present owner.  Leases do not lapse.             *)
(***************************************************************************)
EXTENDS Integers, Sequences, SequencesExt, FiniteSets

CONSTANTS
  Names,           \* the tasks, by name
  Consumers,
  MaxVersions,     \* bound on the versions of a task
  MaxAttemptRows,  \* bound on the attempts of a task
  MaxFences,       \* bound on restarts of the daemon and on restores
  MaxSnapshots,    \* bound on the snapshots of an execution
  MaxInputs,       \* bound on the runtime's inputs
  MaxMessages,     \* bound on events and model requests together
  MaxAcks          \* bound on a consumer's acknowledgements

VARIABLES
  recovery,   \* store_state.recovery_epoch: every epoch up to it was begun
  sessions,   \* session_revision_v1; session_v1 repeats the last one
  versions,   \* task_snapshot_v1 by task
  attempts,   \* task_attempt_v1 by task
  receipts,   \* task_receipt_v1
  inputs,     \* task_input_v1
  outbox,     \* task_outbox_v1
  runs,       \* task_execution_snapshot_v1 by task and attempt
  events,     \* task_execution_event_v1 with its acknowledgement
  requests,   \* task_model_request_v1
  consumers   \* task_consumer_v1
taskRows == <<versions, attempts, receipts, inputs>>
runRows == <<runs, events, requests>>
rowsVars == <<recovery, sessions, taskRows, outbox, runRows, consumers>>

Session == "session"
\* A task's name is not the session's.
ASSUME TaskRowsAssumption == MaxAttemptRows \in Nat /\ Session \notin Names
AttemptNumbers == 1..MaxAttemptRows
Terminal == {"COMPLETED", "PARTIAL", "FAILED", "CANCELLED", "UNVERIFIABLE"}
MaxOf(S) == CHOOSE n \in S : \A m \in S : m <= n
Nothing == <<"none", 0, 0>>

RowsInit ==
  /\ recovery = 0 /\ sessions = <<>>
  /\ versions = [t \in Names |-> <<>>] /\ attempts = [t \in Names |-> <<>>]
  /\ receipts = <<>> /\ inputs = <<>> /\ outbox = <<>>
  /\ runs = [t \in Names |-> [k \in AttemptNumbers |-> <<>>]]
  /\ events = <<>> /\ requests = <<>>
  /\ consumers = [c \in Consumers |-> 0]
-----------------------------------------------------------------------------
(* What an operation reads.                                                *)

Owner == Last(sessions)
Exists(t) == versions[t] # <<>>
Current(t) == Last(versions[t])
Attempt(t) == IF Exists(t) THEN Current(t).attempt ELSE 0
Run(t, k) == Last(runs[t][k])
HasRun(t, k) == k \in AttemptNumbers /\ runs[t][k] # <<>>
IsOpen(t, k) == HasRun(t, k) /\ ~Run(t, k).closed
IsClosed(t, k) == HasRun(t, k) /\ Run(t, k).closed
Latest(t) == {k \in AttemptNumbers : HasRun(t, k) /\ \A j \in AttemptNumbers : HasRun(t, j) => j <= k}
OpenLatest(t) == \E k \in Latest(t) : IsOpen(t, k)
ClosedLatest(t) == \E k \in Latest(t) : IsClosed(t, k)
UserCommand(t) ==
  /\ sessions # <<>> /\ Exists(t)
  /\ \A k \in Latest(t) : IsOpen(t, k) => Run(t, k).epoch = Owner.epoch
CurrentTask(t) == sessions # <<>> /\ Exists(t) /\ Current(t).epoch = Owner.epoch
Owned(t) ==
  /\ CurrentTask(t) /\ HasRun(t, Attempt(t))
  /\ Run(t, Attempt(t)).epoch = Owner.epoch /\ Run(t, Attempt(t)).recovery = recovery
-----------------------------------------------------------------------------
(* Rows as they are written.                                               *)

OutboxRow(type, of, revision, about) ==
  [type |-> type, of |-> of, revision |-> revision, about |-> about,
   epoch |-> Owner.epoch, recovery |-> recovery, publish |-> "pending"]
SessionRow(reason, owner, epoch, authorized, epochOfRecovery, cursor) ==
  [reason |-> reason, owner |-> owner, epoch |-> epoch, authorized |-> authorized,
   recovery |-> epochOfRecovery, cursor |-> cursor]
\* A version as the reducer returns it.
To(v, state) == [v EXCEPT !.state = state, !.pausing = FALSE, !.outcome = "none"]
FirstVersion(attempt, intent) ==
  [state |-> "CREATED", pausing |-> FALSE, attempt |-> attempt, intent |-> intent,
   outcome |-> "none", epoch |-> 0, recovery |-> 0, facts |-> {}]
States(v, states) == [i \in DOMAIN states |-> To(v, states[i])]
Restarted(v, bump) == States(FirstVersion(v.attempt + 1, v.intent + bump), <<"CREATED", "READY">>)
Stopped(v) == States(v, <<"CANCELLING", "CANCELLED">>)

ReplacesAttempt(t, span) ==
  \E i \in DOMAIN span : span[i].state \in {"CANCELLED", "PAUSED"} \/ span[i].attempt # Attempt(t)
\* A user's command keeps the closed execution that let it stop or replace the attempt.
ClosedFact(t, kind, span) ==
  IF kind # "task.runtime" /\ IsClosed(t, Attempt(t)) /\ ReplacesAttempt(t, span)
  THEN {<<"run", Attempt(t), Len(runs[t][Attempt(t)])>>} ELSE {}

\* A new attempt by a user authorizes a fenced session, in the same transaction.
Reauthorizes(t, kind, span) ==
  /\ ~Owner.authorized /\ kind # "task.runtime"
  /\ ~Exists(t) \/ Last(span).attempt # Attempt(t)
VersionEvents(t, span) ==
  [i \in DOMAIN span |->
    OutboxRow(IF Len(versions[t]) + i = 1 THEN "task.created" ELSE "task.state_changed", t,
              Len(versions[t]) + i, <<span[i].state, 0, 0>>)]
FencedEvent == OutboxRow("session.owner_fenced", Session, Len(sessions) + 1, Nothing)
\* Mutant of Published: the authorization is published when the task is.
PublishedLast(t, kind, span, earlier) ==
  outbox \o earlier \o VersionEvents(t, span)
    \o (IF Reauthorizes(t, kind, span) THEN <<FencedEvent>> ELSE <<>>)
Published(t, kind, span, earlier) ==
  outbox \o earlier \o (IF Reauthorizes(t, kind, span) THEN <<FencedEvent>> ELSE <<>>)
    \o VersionEvents(t, span)
Authorize(t, kind, span, earlier) ==
  IF Reauthorizes(t, kind, span)
  THEN sessions' = Append(sessions, SessionRow("reauthorized", Owner.owner, Owner.epoch, TRUE,
                                               recovery, Len(outbox) + Len(earlier) + 1))
  ELSE UNCHANGED sessions
AttemptRow(v) == [state |-> v.state, intent |-> v.intent, active |-> v.state \notin Terminal]
AttemptRows(t, span) ==
  [k \in 1..Last(span).attempt |->
    LET mine == {i \in DOMAIN span : span[i].attempt = k} IN
    IF mine # {} THEN AttemptRow(span[MaxOf(mine)]) ELSE attempts[t][k]]
InputsAt(t, k) == {i \in DOMAIN inputs : inputs[i].task = t /\ inputs[i].attempt = k}
InputRow(t, version, revision, kind) ==
  [task |-> t, attempt |-> version.attempt, intent |-> version.intent, revision |-> revision,
   kind |-> kind, epoch |-> Owner.epoch,
   ordinal |-> MaxOf({0} \cup {inputs[i].ordinal : i \in InputsAt(t, version.attempt)}) + 1]
Internal == {"task.runtime", "task.verify"}
\* executeTask, once its command is reduced to a span of versions: the authorization it may
\* give, its versions with their events, its input and its receipt, as one transaction.
\* earlier: the rows the same transaction has already published; event: what settled it.
Execute(t, kind, span, facts, earlier, event) ==
  LET stored == [i \in DOMAIN span |-> [span[i] EXCEPT !.epoch = Owner.epoch,
                   !.recovery = recovery, !.facts = facts \cup ClosedFact(t, kind, span)]]
      revision == Len(versions[t]) + Len(span) IN
  /\ revision <= MaxVersions /\ Last(span).attempt <= MaxAttemptRows
  /\ Authorize(t, kind, span, earlier)
  /\ versions' = [versions EXCEPT ![t] = @ \o stored]
  /\ attempts' = [attempts EXCEPT ![t] = AttemptRows(t, span)]
  /\ outbox' = Published(t, kind, span, earlier)
  /\ inputs' = Append(inputs, InputRow(t, Last(span), revision,
                                       IF kind \in Internal THEN "internal" ELSE "user"))
  /\ receipts' = Append(receipts, [task |-> t, kind |-> kind, revision |-> revision, input |-> 0,
                                   cursor |-> Len(Published(t, kind, span, earlier)), event |-> event])
  /\ UNCHANGED <<recovery, consumers>>
User(t, kind, span, facts) ==
  UserCommand(t) /\ Execute(t, kind, span, facts, <<>>, 0) /\ UNCHANGED runRows
Runtime(t, states, facts) ==
  /\ sessions # <<>> /\ Exists(t)
  /\ Execute(t, "task.runtime", States(Current(t), states), facts, <<>>, 0)
  /\ UNCHANGED runRows
-----------------------------------------------------------------------------
(* Users' commands.                                                        *)

CreateSession ==
  /\ sessions = <<>>
  /\ sessions' = <<SessionRow("created", 1, 1, TRUE, recovery, 1)>>
  /\ outbox' = <<[type |-> "session.created", of |-> Session, revision |-> 1, about |-> Nothing,
                  epoch |-> 1, recovery |-> recovery, publish |-> "pending"]>>
  /\ receipts' = <<[task |-> Session, kind |-> "session.create", revision |-> 1, input |-> 0,
                    cursor |-> 1, event |-> 0]>>
  /\ UNCHANGED <<recovery, versions, attempts, inputs, runRows, consumers>>
Create(t) ==
  /\ sessions # <<>> /\ ~Exists(t)
  /\ Execute(t, "task.create", States(FirstVersion(1, 1), <<"CREATED", "READY">>), {}, <<>>, 0)
  /\ UNCHANGED runRows
Cancel(t) ==
  /\ Exists(t) /\ Current(t).state \notin Terminal \cup {"CANCELLING"}
  /\ User(t, "task.cancel",
          IF OpenLatest(t) THEN States(Current(t), <<"CANCELLING">>) ELSE Stopped(Current(t)), {})
Pause(t) ==
  /\ Exists(t) /\ Current(t).state = "RUNNING" /\ ~Current(t).pausing
  /\ User(t, "task.pause", <<[Current(t) EXCEPT !.pausing = TRUE, !.outcome = "none"]>>, {})
Retry(t) ==
  /\ Exists(t) /\ Current(t).state \in Terminal /\ ~OpenLatest(t)
  /\ User(t, "task.retry", Restarted(Current(t), 0), {})
Continue(t) ==
  /\ Exists(t) /\ ~OpenLatest(t)
  /\ \/ /\ Current(t).state \in Terminal
        /\ User(t, "task.continue", Restarted(Current(t), 0), {})
     \/ /\ \/ Current(t).state = "PAUSED"
           \/ Current(t).state = "READY" /\ (Current(t).epoch # Owner.epoch \/ ClosedLatest(t))
        /\ User(t, "task.continue", Stopped(Current(t)) \o Restarted(Current(t), 0), {})
Revise(t) ==
  /\ Exists(t) /\ ~OpenLatest(t) /\ Current(t).state # "CANCELLING"
  /\ User(t, "task.revise-request",
          (IF Current(t).state \in Terminal THEN <<>> ELSE Stopped(Current(t)))
            \o Restarted(Current(t), 1), {})
\* The decision a task waits for was made of the version before the wait.
Respond(t) ==
  /\ Exists(t) /\ Current(t).state = "WAITING_INPUT" /\ ~OpenLatest(t)
  /\ User(t, "task.respond",
          IF Current(t).epoch = Owner.epoch THEN States(Current(t), <<"READY">>)
          ELSE Stopped(Current(t)) \o Restarted(Current(t), 0),
          {<<"decision", 0, Len(versions[t]) - 1>>})
\* A result of the present version; when it may be asked for is OutcomeVerification's.
Verify(t) ==
  /\ CurrentTask(t) /\ Owner.authorized /\ Current(t).state \in Terminal \cup {"VERIFYING"}
  /\ HasRun(t, Attempt(t)) /\ Run(t, Attempt(t)).dispatched
  /\ \E state \in (IF Current(t).state = "VERIFYING" THEN {"COMPLETED", "UNVERIFIABLE"}
                   ELSE {Current(t).state}) :
       User(t, "task.verify", <<[To(Current(t), state) EXCEPT !.outcome = "verified"]>>,
            {<<"result", 0, Len(versions[t])>>})
-----------------------------------------------------------------------------
(* The runtime's commands.                                                 *)

CurrentRun(t) == <<"run", Attempt(t), Len(runs[t][Attempt(t)])>>
CognitiveWait(t) ==
  /\ CurrentTask(t) /\ Current(t).state = "READY" /\ ~OpenLatest(t)
  /\ Runtime(t, <<"WAITING_INPUT">>, {<<"decision", 0, Len(versions[t])>>})
Start(t) ==
  /\ CurrentTask(t) /\ Current(t).state = "READY"
  /\ HasRun(t, Attempt(t)) /\ Run(t, Attempt(t)).state = "READY"
  /\ Runtime(t, <<"RUNNING">>, {CurrentRun(t)})
ConfirmStop(t) ==
  /\ Exists(t) /\ Current(t).state = "CANCELLING" /\ IsClosed(t, Attempt(t))
  /\ Runtime(t, <<"CANCELLED">>, {CurrentRun(t)})
ConfirmPause(t) ==
  /\ Exists(t) /\ Current(t).state = "RUNNING" /\ Current(t).pausing /\ IsClosed(t, Attempt(t))
  /\ Runtime(t, <<"PAUSED">>, {CurrentRun(t)})
Interrupted(t) ==
  /\ sessions # <<>> /\ Exists(t) /\ Current(t).state \in {"RUNNING", "VERIFYING"}
  /\ IsClosed(t, Attempt(t))
  /\ LET last == [To(Current(t), "UNVERIFIABLE") EXCEPT !.outcome = "unverifiable"] IN
     Execute(t, "task.runtime",
             IF Current(t).state = "RUNNING" THEN <<To(Current(t), "VERIFYING"), last>> ELSE <<last>>,
             {CurrentRun(t)}, <<>>, 0)
  /\ UNCHANGED runRows
RecordRuntimeInput(t) ==
  /\ CurrentTask(t) /\ Owner.authorized /\ Current(t).state = "READY" /\ ~OpenLatest(t)
  /\ Cardinality({i \in DOMAIN inputs : inputs[i].kind = "runtime"}) < MaxInputs
  /\ LET row == InputRow(t, Current(t), Len(versions[t]), "runtime") IN
     /\ inputs' = Append(inputs, row)
     /\ outbox' = Append(outbox, OutboxRow("task.input_committed", t, row.revision,
                                           <<"none", row.attempt, row.ordinal>>))
     /\ receipts' = Append(receipts, [task |-> t, kind |-> "task.runtime-input", revision |-> row.revision,
                             input |-> Len(inputs) + 1, cursor |-> Len(outbox) + 1, event |-> 0])
  /\ UNCHANGED <<recovery, sessions, versions, attempts, runRows, consumers>>
-----------------------------------------------------------------------------
(* Executions.                                                             *)

InputsOf(t) ==
  {i \in InputsAt(t, Attempt(t)) : inputs[i].kind = "runtime" /\ inputs[i].epoch = Owner.epoch}
Fenced(t) == Owned(t) /\ Owner.authorized
AllocateExecution(t) ==
  /\ CurrentTask(t) /\ Owner.authorized /\ Current(t).state = "READY"
  /\ ~HasRun(t, Attempt(t))
  /\ ~\E k \in AttemptNumbers : IsOpen(t, k) /\ Run(t, k).epoch = Owner.epoch
  /\ \E i \in InputsOf(t) :
       runs' = [runs EXCEPT ![t][Attempt(t)] =
                 <<[state |-> "ALLOCATED", dispatched |-> FALSE, closed |-> FALSE, input |-> i,
                    epoch |-> Owner.epoch, recovery |-> recovery, written |-> recovery,
                    at |-> Len(versions[t])]>>]
  /\ UNCHANGED <<recovery, sessions, taskRows, outbox, events, requests, consumers>>
\* #append: the next snapshot of the execution, of the task as it is now.
AdvanceSnapshot(t, snapshot) ==
  /\ Len(runs[t][Attempt(t)]) < MaxSnapshots
  /\ runs' = [runs EXCEPT ![t][Attempt(t)] =
                Append(@, [snapshot EXCEPT !.at = Len(versions[t]), !.written = recovery])]
Silently(t, snapshot) ==
  AdvanceSnapshot(t, snapshot)
    /\ UNCHANGED <<recovery, sessions, taskRows, outbox, events, requests, consumers>>
MarkExecutionReady(t) ==
  /\ Fenced(t) /\ Run(t, Attempt(t)).state = "ALLOCATED"
  /\ Silently(t, [Run(t, Attempt(t)) EXCEPT !.state = "READY"])
MarkExecutionDispatched(t) ==
  /\ Fenced(t) /\ Current(t).state = "RUNNING" /\ Run(t, Attempt(t)).state = "READY"
  /\ Silently(t, [Run(t, Attempt(t)) EXCEPT !.state = "BUSY", !.dispatched = TRUE])
ObserveExecutionBinding(t) ==
  /\ Fenced(t) /\ Run(t, Attempt(t)).state \in {"READY", "BUSY", "DRAINING"}
  /\ \E state \in {"DRAINING", Run(t, Attempt(t)).state} :
       /\ state = "DRAINING" => Run(t, Attempt(t)).state # "READY"
       /\ Silently(t, [Run(t, Attempt(t)) EXCEPT !.state = state])
\* A complete close also tells the consumers, of the task's present version.
CloseSnapshot(t) ==
  /\ AdvanceSnapshot(t, [Run(t, Attempt(t)) EXCEPT !.state = "STOPPED", !.closed = TRUE])
  /\ outbox' = Append(outbox, OutboxRow("task.execution_closed", t, Len(versions[t]),
                                        <<"none", Attempt(t), Len(runs[t][Attempt(t)]) + 1>>))
  /\ UNCHANGED <<recovery, sessions, taskRows, events, requests, consumers>>
\* The evidence of a close may still be incomplete.
CloseExecution(t) ==
  Owned(t) /\ IsOpen(t, Attempt(t)) /\ (CloseSnapshot(t) \/ Silently(t, Run(t, Attempt(t))))
RecoverExecutionClose(t) ==
  /\ sessions # <<>> /\ Exists(t) /\ IsOpen(t, Attempt(t)) /\ Current(t).state \notin Terminal
  /\ Run(t, Attempt(t)).epoch < Owner.epoch /\ Run(t, Attempt(t)).recovery = recovery
  /\ CloseSnapshot(t)
Messages == Len(events) + Len(requests)
Working(t) == Fenced(t) /\ Run(t, Attempt(t)).state \in {"BUSY", "DRAINING"}
RecordModelRequest(t) ==
  /\ Fenced(t) /\ Run(t, Attempt(t)).state = "BUSY" /\ Current(t).state = "RUNNING"
  /\ Messages < MaxMessages
  /\ requests' = Append(requests,
       [task |-> t, attempt |-> Attempt(t), revision |-> Len(versions[t]), epoch |-> Owner.epoch,
        run |-> Len(runs[t][Attempt(t)])])
  /\ UNCHANGED <<recovery, sessions, taskRows, outbox, runs, events, consumers>>
EventRow(t, ack) ==
  [task |-> t, attempt |-> Attempt(t), revision |-> Len(versions[t]), epoch |-> Owner.epoch,
   recovery |-> recovery, run |-> Len(runs[t][Attempt(t)]), cursor |-> Len(outbox) + 1, ack |-> ack]
Progress(t) == OutboxRow("task.progress", t, Len(versions[t]), <<"working", 0, 0>>)
Ingest(t) ==
  /\ Working(t) /\ Messages < MaxMessages
  /\ outbox' = Append(outbox, Progress(t))
  /\ events' = Append(events, EventRow(t, Len(outbox) + 1))
  /\ UNCHANGED <<recovery, sessions, taskRows, runs, requests, consumers>>
\* The settled event and what it makes of the task are one transaction.
IngestSettlement(t) ==
  /\ Working(t) /\ Messages < MaxMessages /\ Current(t).state = "RUNNING"
  /\ Execute(t, "task.runtime", States(Current(t), <<"VERIFYING">>),
             {<<"event", 0, Len(events) + 1>>}, <<Progress(t)>>, Len(events) + 1)
  /\ events' = Append(events, EventRow(t, Len(outbox) + 2))
  /\ UNCHANGED <<runs, requests>>
-----------------------------------------------------------------------------
(* Consumers, restarts and recoveries.                                     *)

Acknowledge(c) ==
  /\ consumers[c] < Len(outbox) /\ consumers[c] < MaxAcks
  /\ consumers' = [consumers EXCEPT ![c] = @ + 1]
  /\ outbox' = [outbox EXCEPT ![consumers[c] + 1].publish =
                 IF @ = "pending" THEN "published" ELSE @]
  /\ UNCHANGED <<recovery, sessions, taskRows, runRows>>
Fences == recovery + (IF sessions = <<>> THEN 0 ELSE Owner.owner - 1)
\* Another daemon instance opens the store.
FenceRestartedOwners ==
  /\ sessions # <<>> /\ Fences < MaxFences
  /\ sessions' = Append(sessions, SessionRow("owner-fenced", Owner.owner + 1, Owner.epoch + 1,
                                             FALSE, recovery, Len(outbox) + 1))
  /\ outbox' = Append(outbox, [OutboxRow("session.owner_fenced", Session, Len(sessions) + 1, Nothing)
                                 EXCEPT !.epoch = Owner.epoch + 1])
  /\ UNCHANGED <<recovery, taskRows, runRows, consumers>>
\* A RESTORE_BEGIN is applied: what was not delivered may never have been.
QuarantineRecovery ==
  /\ Fences < MaxFences
  /\ recovery' = recovery + 1
  /\ outbox' = [i \in DOMAIN outbox |-> [outbox[i] EXCEPT !.publish = "quarantined"]]
  /\ IF sessions = <<>> THEN UNCHANGED sessions
     ELSE sessions' = Append(sessions, SessionRow("recovery-fenced", Owner.owner, Owner.epoch + 1,
                                                  FALSE, recovery + 1, 0))
  /\ UNCHANGED <<taskRows, runRows, consumers>>

TaskStep(t) ==
  \/ Create(t) \/ Cancel(t) \/ Pause(t) \/ Retry(t) \/ Continue(t) \/ Revise(t) \/ Respond(t)
  \/ Verify(t) \/ CognitiveWait(t) \/ Start(t) \/ ConfirmStop(t) \/ ConfirmPause(t)
  \/ Interrupted(t) \/ RecordRuntimeInput(t) \/ AllocateExecution(t) \/ MarkExecutionReady(t)
  \/ MarkExecutionDispatched(t) \/ ObserveExecutionBinding(t) \/ CloseExecution(t)
  \/ RecoverExecutionClose(t) \/ RecordModelRequest(t) \/ Ingest(t) \/ IngestSettlement(t)
RowsNext ==
  \/ CreateSession \/ FenceRestartedOwners \/ QuarantineRecovery
  \/ \E t \in Names : TaskStep(t)
  \/ \E c \in Consumers : Acknowledge(c)
RowsSpec == RowsInit /\ [][RowsNext]_rowsVars
-----------------------------------------------------------------------------
(* Validation: what validateRows of the two engines reads back.            *)

SessionEvents == {"session.created", "session.owner_fenced"}
VersionTypes == {"task.created", "task.state_changed"}

SessionStep(before, after) ==
  CASE after.reason = "owner-fenced" ->
         /\ after.owner # before.owner /\ after.epoch = before.epoch + 1 /\ ~after.authorized
         /\ after.recovery = before.recovery
    [] after.reason = "reauthorized" ->
         /\ after.owner = before.owner /\ after.epoch = before.epoch
         /\ after.authorized /\ ~before.authorized /\ after.recovery = before.recovery
    [] after.reason = "recovery-fenced" ->
         /\ after.owner = before.owner /\ after.epoch = before.epoch + 1 /\ ~after.authorized
         /\ after.recovery > before.recovery
    [] OTHER -> FALSE
SessionLinked(i) ==
  LET row == sessions[i] IN
  IF row.reason = "recovery-fenced" THEN row.cursor = 0
  ELSE /\ row.cursor \in DOMAIN outbox
       /\ LET event == outbox[row.cursor] IN
          /\ event.of = Session /\ event.revision = i
          /\ event.epoch = row.epoch /\ event.recovery = row.recovery
          /\ event.type = IF row.reason = "created" THEN "session.created" ELSE "session.owner_fenced"
RecoveryFenced == {i \in DOMAIN sessions : sessions[i].reason = "recovery-fenced"}
SessionsValid == sessions # <<>> =>
  /\ LET first == sessions[1] IN
     first.reason = "created" /\ first.epoch = 1 /\ first.authorized
  /\ {sessions[i].recovery : i \in RecoveryFenced} = (sessions[1].recovery + 1)..recovery
  /\ \A i, j \in RecoveryFenced : i < j => sessions[i].recovery < sessions[j].recovery
  /\ \A i \in DOMAIN sessions :
       /\ sessions[i].recovery <= recovery /\ SessionLinked(i)
       /\ i > 1 => SessionStep(sessions[i - 1], sessions[i])
  /\ Owner.recovery = recovery /\ Owner.epoch <= Len(sessions)

\* What a version's outcome has to do with its state.
OutcomeValid(v) ==
  /\ v.outcome = "unverifiable" => v.state = "UNVERIFIABLE"
  /\ v.outcome = "verified" => v.state \in Terminal
  /\ v.state \in Terminal => v.outcome # "none" \/ v.state = "CANCELLED"
VersionsOf(t, k) == {i \in DOMAIN versions[t] : versions[t][i].attempt = k}
AttemptValid(t, k) ==
  /\ \E i \in VersionsOf(t, k) :
       (\A j \in VersionsOf(t, k) : i <= j) /\ versions[t][i].state = "CREATED"
  /\ \E i \in VersionsOf(t, k) :
       (\A j \in VersionsOf(t, k) : j <= i) /\ attempts[t][k] = AttemptRow(versions[t][i])
  /\ \A i \in VersionsOf(t, k) : versions[t][i].intent = attempts[t][k].intent
  /\ k < Len(attempts[t]) => ~attempts[t][k].active
AttemptsValid == \A t \in Names :
  /\ \A i \in DOMAIN versions[t] : OutcomeValid(versions[t][i])
  /\ \A i \in 2..Len(versions[t]) :
       versions[t][i].attempt \in {versions[t][i - 1].attempt, versions[t][i - 1].attempt + 1}
  /\ \A k \in DOMAIN attempts[t] : AttemptValid(t, k)
  /\ Exists(t) => Len(attempts[t]) = Attempt(t)

\* The spans of versions each command may write, and the steps inside one.
Spans(kind) ==
  LET new == <<"CREATED", "READY">>  ended == <<"CANCELLING", "CANCELLED">> IN
  CASE kind = "task.create" \/ kind = "task.retry" -> {new}
    [] kind = "task.cancel" -> {<<"CANCELLING">>, ended}
    [] kind = "task.pause" -> {<<"RUNNING">>}
    [] kind = "task.continue" -> {<<"READY">>, new, ended \o new}
    [] kind = "task.revise-request" -> {new, ended \o new}
    [] kind = "task.respond" -> {<<"READY">>, ended \o new}
    [] kind = "task.runtime" -> {<<"VERIFYING", "UNVERIFIABLE">>} \cup
         {<<s>> : s \in {"READY", "RUNNING", "VERIFYING", "CANCELLED", "PAUSED", "UNVERIFIABLE", "WAITING_INPUT"}}
    [] kind = "task.verify" -> {<<s>> : s \in Terminal}
StateStep(before) ==
  CASE before = "CREATED" -> {"READY"}
    [] before = "READY" -> {"RUNNING", "CANCELLING", "WAITING_INPUT"}
    [] before = "RUNNING" -> {"RUNNING", "VERIFYING", "PAUSED", "CANCELLING"}
    [] before = "VERIFYING" -> {"UNVERIFIABLE", "CANCELLING"}
    [] before = "WAITING_INPUT" -> {"READY", "CANCELLING"}
    [] before = "PAUSED" -> {"CANCELLING"}
    [] before = "CANCELLING" -> {"CANCELLED"}
    [] OTHER -> {}
MetadataStep(kind, before, after) ==
  IF after.attempt # before.attempt
  THEN /\ before.state \in Terminal /\ after.state = "CREATED"
       /\ after.intent = before.intent + (IF kind = "task.revise-request" THEN 1 ELSE 0)
       /\ kind \in {"task.retry", "task.continue", "task.revise-request", "task.respond"}
  ELSE /\ after.intent = before.intent
       /\ IF kind = "task.verify"
          THEN before.state = "VERIFYING" \/ (before.state \in Terminal /\ after.state = before.state)
          ELSE after.state \in StateStep(before.state)

Commands(t) == {j \in DOMAIN receipts : receipts[j].task = t /\ receipts[j].kind # "task.runtime-input"}
\* The version the command before it ended at.
StartOf(r) ==
  MaxOf({0} \cup {receipts[j].revision : j \in {i \in Commands(r.task) : receipts[i].revision < r.revision}})
\* #commandMetadata
MetadataValid(t, kind, start, end) ==
  /\ [i \in 1..(end - start) |-> versions[t][start + i].state] \in Spans(kind)
  /\ start = 0 => versions[t][1].intent = 1
  /\ \A i \in (start + 1)..end : i > 1 => MetadataStep(kind, versions[t][i - 1], versions[t][i])
  /\ kind \in {"task.retry", "task.revise-request"} => versions[t][end].attempt # versions[t][start].attempt
  /\ kind = "task.pause" => versions[t][start].state = "RUNNING"
  /\ kind = "task.respond" => versions[t][start].state = "WAITING_INPUT"
\* The session's row in force before an outbox row.
Authority(epochOfRecovery, cursor) ==
  {i \in DOMAIN sessions : sessions[i].recovery <= epochOfRecovery
                             /\ (sessions[i].cursor = 0 \/ sessions[i].cursor < cursor)}
AuthorityAt(cursor) == sessions[MaxOf(Authority(outbox[cursor].recovery, cursor))]
VersionCursors(t, start, end) ==
  {c \in DOMAIN outbox : /\ outbox[c].of = t /\ outbox[c].type \in VersionTypes
                         /\ outbox[c].revision \in (start + 1)..end}
\* The events of a span stand together and in order, the last at the command's cursor.
SpanPublished(t, start, r) ==
  LET first == r.cursor - (r.revision - start) + 1 IN
  /\ VersionCursors(t, start, r.revision) = first..r.cursor
  /\ \A c \in first..r.cursor : outbox[c].revision = start + (c - first) + 1
  /\ start = 0 \/ versions[t][start].attempt # versions[t][r.revision].attempt =>
       Authority(outbox[first].recovery, first) # {} /\ AuthorityAt(first).authorized
\* Execution snapshots that a span of versions cites as the proof of its command.
RunFacts(t, revision, k) ==
  {i \in DOMAIN runs[t][k] : <<"run", k, i>> \in versions[t][revision].facts}
Starts(kind, final) == kind = "task.runtime" /\ final.state = "RUNNING"
ClosesRun(kind, final) == kind = "task.runtime" /\ final.state \in {"CANCELLED", "PAUSED", "UNVERIFIABLE"}
Proofs(t, k, revision, kind, final) ==
  {i \in RunFacts(t, revision, k) :
    LET run == runs[t][k][i] IN
    IF Starts(kind, final)
    THEN run.state = "READY" /\ ~run.closed /\ ~run.dispatched /\ run.epoch = final.epoch
    ELSE run.state = "STOPPED" /\ run.closed /\ run.epoch <= final.epoch}
ProofValid(t, kind, start, end) ==
  LET final == versions[t][end]  k == versions[t][start].attempt
      replaces == start > 0 /\ \E i \in (start + 1)..end :
        versions[t][i].state \in {"CANCELLED", "PAUSED"} \/ versions[t][i].attempt # k IN
  /\ \A i \in (start + 1)..end : versions[t][i].epoch = final.epoch
  /\ kind \in Internal /\ final.state = "WAITING_INPUT" =>
       start > 0 /\ {f \in final.facts : f[1] = "decision"} = {<<"decision", 0, start>>}
  /\ Starts(kind, final) \/ ClosesRun(kind, final) \/ (kind \notin Internal /\ replaces /\ HasRun(t, k)) =>
       /\ start > 0 /\ HasRun(t, k)
       /\ \E proof \in Proofs(t, k, start + 1, kind, final) :
            /\ Proofs(t, k, start + 1, kind, final) = {proof}
            /\ \A i \in (start + 1)..end : proof \in RunFacts(t, i, k)
CommandsValid == \A t \in Names :
  /\ \A j \in Commands(t) :
       LET r == receipts[j]  start == StartOf(r) IN
       /\ r.revision \in (start + 1)..(start + 16) /\ r.revision <= Len(versions[t])
       /\ (start = 0) = (r.kind = "task.create")
       /\ MetadataValid(t, r.kind, start, r.revision)
       /\ SpanPublished(t, start, r)
       /\ ProofValid(t, r.kind, start, r.revision)
  /\ Exists(t) => \E j \in Commands(t) : receipts[j].revision = Len(versions[t])

\* An input row and its receipt.
Match(i, j) ==
  /\ receipts[j].task = inputs[i].task /\ receipts[j].revision = inputs[i].revision
  /\ IF inputs[i].kind = "runtime" THEN receipts[j].kind = "task.runtime-input" /\ receipts[j].input = i
     ELSE /\ receipts[j].kind # "task.runtime-input"
          /\ (receipts[j].kind \in Internal) = (inputs[i].kind = "internal")
InputValid(row, receipt) ==
  /\ row.revision \in DOMAIN versions[row.task]
  /\ LET version == versions[row.task][row.revision] IN
     /\ version.attempt = row.attempt /\ version.intent = row.intent /\ version.epoch = row.epoch
     /\ attempts[row.task][row.attempt].intent = row.intent
     /\ row.kind = "runtime" => version.state = "READY"
     /\ receipt.kind = "task.verify" => <<"result", 0, row.revision - 1>> \in version.facts
InputsValid ==
  /\ \A i \in DOMAIN inputs : \E j \in DOMAIN receipts :
       /\ Match(i, j) /\ InputValid(inputs[i], receipts[j])
       /\ \A k \in DOMAIN receipts : Match(i, k) => k = j
       /\ \A k \in DOMAIN inputs : Match(k, j) => k = i
  /\ \A j \in DOMAIN receipts : receipts[j].task # Session => \E i \in DOMAIN inputs : Match(i, j)
  /\ \A i, j \in DOMAIN inputs :
       i < j /\ inputs[i].task = inputs[j].task /\ inputs[i].attempt = inputs[j].attempt =>
         /\ inputs[i].ordinal < inputs[j].ordinal /\ inputs[i].revision <= inputs[j].revision
         /\ \A m, n \in DOMAIN receipts : Match(i, m) /\ Match(j, n) => receipts[m].cursor < receipts[n].cursor
  /\ \A i \in DOMAIN inputs : inputs[i].ordinal > 1 =>
       \E j \in InputsAt(inputs[i].task, inputs[i].attempt) : inputs[j].ordinal = inputs[i].ordinal - 1
ReceiptValid(r) ==
  /\ r.cursor \in DOMAIN outbox
  /\ LET event == outbox[r.cursor] IN
     /\ event.of = r.task /\ event.revision = r.revision
     /\ event.type = CASE r.task = Session -> "session.created"
                       [] r.kind = "task.runtime-input" -> "task.input_committed"
                       [] OTHER -> "task.state_changed"
ReceiptsValid == \A i \in DOMAIN receipts : ReceiptValid(receipts[i])
-----------------------------------------------------------------------------
(* The outbox, against the rows its events announce.                       *)

Delivered == MaxOf({consumers[c] : c \in Consumers} \cup {0})
PublishState(c, delivered) ==
  IF outbox[c].recovery < recovery THEN "quarantined" ELSE IF c <= delivered THEN "published" ELSE "pending"
\* The task's last version announced by then.
Announced(t, c) == {d \in 1..c : outbox[d].of = t /\ outbox[d].type \in VersionTypes}
HeadAt(t, c) == MaxOf({0} \cup {outbox[d].revision : d \in Announced(t, c)})
SessionEventValid(c) ==
  LET row == outbox[c] IN
  /\ row.revision \in DOMAIN sessions /\ sessions[row.revision].cursor = c
  /\ \A d \in 1..(c - 1) : outbox[d].of = Session => outbox[d].revision < row.revision
  /\ row.type = "session.created" =>
       row.epoch = 1 /\ \E i \in DOMAIN receipts : receipts[i].task = Session /\ receipts[i].cursor = c
  /\ sessions[row.revision].reason = "reauthorized" =>
       /\ c < Len(outbox) /\ outbox[c + 1].type \in VersionTypes
       /\ \E j \in Commands(outbox[c + 1].of) :
            LET r == receipts[j]  start == StartOf(r) IN
            /\ r.kind \in {"task.create", "task.retry", "task.continue", "task.revise-request", "task.respond"}
            /\ outbox[c + 1].revision = start + 1
            /\ start = 0 \/ versions[r.task][start].attempt # versions[r.task][r.revision].attempt
VersionEventValid(c) ==
  LET row == outbox[c]  version == versions[row.of][row.revision] IN
  /\ HeadAt(row.of, c - 1) + 1 = row.revision /\ (row.type = "task.created") = (row.revision = 1)
  /\ row.about = <<version.state, 0, 0>> /\ version.recovery = row.recovery /\ version.epoch = row.epoch
InputEventValid(c) ==
  LET row == outbox[c] IN
  \E i \in DOMAIN inputs :
    /\ inputs[i].task = row.of /\ <<"none", inputs[i].attempt, inputs[i].ordinal>> = row.about
    /\ inputs[i].kind = "runtime" /\ inputs[i].revision = row.revision /\ inputs[i].epoch = row.epoch
    /\ \E j \in DOMAIN receipts : receipts[j].cursor = c /\ Match(i, j)
ClosedEventValid(c) ==
  LET row == outbox[c]  k == row.about[2]  i == row.about[3] IN
  /\ k \in AttemptNumbers /\ i \in DOMAIN runs[row.of][k] /\ versions[row.of][row.revision].attempt = k
  /\ LET run == runs[row.of][k][i] IN
     /\ run.state = "STOPPED" /\ run.closed /\ run.epoch <= row.epoch /\ run.recovery = row.recovery
     /\ run.at = row.revision
ProgressValid(c) ==
  LET row == outbox[c] IN
  \E e \in DOMAIN events :
    /\ events[e].cursor = c /\ events[e].task = row.of /\ events[e].revision = row.revision
    /\ events[e].epoch = row.epoch /\ events[e].recovery = row.recovery
TaskEventValid(c) ==
  LET row == outbox[c] IN
  /\ row.revision \in DOMAIN versions[row.of]
  /\ row.type # "task.execution_closed" => versions[row.of][row.revision].epoch = row.epoch
  /\ Authority(row.recovery, c) # {}
  /\ LET authority == AuthorityAt(c) IN
     /\ authority.epoch = row.epoch /\ authority.recovery = row.recovery
     /\ row.type = "task.input_committed" => authority.authorized
  /\ row.type \notin VersionTypes => HeadAt(row.of, c) = row.revision
  /\ CASE row.type \in VersionTypes -> VersionEventValid(c)
       [] row.type = "task.input_committed" -> InputEventValid(c)
       [] row.type = "task.execution_closed" -> ClosedEventValid(c)
       [] row.type = "task.progress" -> ProgressValid(c)
OutboxValid ==
  /\ LET delivered == Delivered IN
     \A c \in DOMAIN outbox :
       /\ outbox[c].recovery <= recovery /\ outbox[c].publish = PublishState(c, delivered)
       /\ IF outbox[c].type \in SessionEvents THEN SessionEventValid(c) ELSE TaskEventValid(c)
  /\ \A t \in Names : \A i \in DOMAIN versions[t] :
       \E c \in Announced(t, Len(outbox)) : outbox[c].revision = i
  /\ \A t \in Names, k \in AttemptNumbers : \A i \in DOMAIN runs[t][k] : runs[t][k][i].closed =>
       \E c \in DOMAIN outbox : outbox[c].type = "task.execution_closed" /\ outbox[c].of = t /\ outbox[c].about = <<"none", k, i>>
  /\ \A i \in DOMAIN inputs : inputs[i].kind = "runtime" =>
       \E c \in DOMAIN outbox : outbox[c].type = "task.input_committed" /\ outbox[c].of = inputs[i].task
                                  /\ outbox[c].about = <<"none", inputs[i].attempt, inputs[i].ordinal>>
-----------------------------------------------------------------------------
(* The execution store's tables.                                           *)

SnapshotStep(before, after, task) ==
  /\ ~before.closed
  /\ before.dispatched => after.dispatched
  /\ \/ before.state = after.state \/ after.state = "STOPPED"
     \/ <<before.state, after.state>> \in {<<"ALLOCATED", "READY">>, <<"READY", "BUSY">>, <<"BUSY", "DRAINING">>}
  /\ before.at <= after.at /\ before.input = after.input
  /\ before.state = "READY" /\ after.state = "BUSY" => task.state = "RUNNING"
SnapshotValid(t, k, i) ==
  LET run == runs[t][k][i]  first == runs[t][k][1]  task == versions[t][run.at] IN
  /\ run.epoch = first.epoch /\ run.recovery = first.recovery
  /\ run.written = run.recovery     \* claimBody: the body was written in the row's recovery epoch
  /\ LET input == inputs[run.input] IN
     /\ input.kind = "runtime" /\ input.task = t /\ input.attempt = k /\ input.epoch = run.epoch
     /\ input.revision <= first.at /\ input.intent = task.intent
  /\ task.attempt = k /\ (task.epoch = run.epoch \/ (run.closed /\ task.epoch > run.epoch))
  /\ IF i = 1
     THEN /\ run.state = "ALLOCATED" /\ ~run.dispatched /\ ~run.closed
          /\ task.state = "READY" /\ task.epoch = run.epoch
     ELSE SnapshotStep(runs[t][k][i - 1], run, task)
RunsValid == \A t \in Names, k \in AttemptNumbers : \A i \in DOMAIN runs[t][k] : SnapshotValid(t, k, i)
\* An event or a request leans on a snapshot of a working execution.
Leans(row) ==
  LET run == runs[row.task][row.attempt][row.run]  task == versions[row.task][row.revision] IN
  /\ run.state \in {"BUSY", "DRAINING"} /\ run.dispatched /\ ~run.closed /\ row.revision >= run.at
  /\ run.epoch = row.epoch /\ task.attempt = row.attempt /\ task.epoch = row.epoch
Ordered(rows) == \A i, j \in DOMAIN rows :
  i < j /\ rows[i].task = rows[j].task /\ rows[i].attempt = rows[j].attempt =>
    rows[i].revision <= rows[j].revision /\ rows[i].run <= rows[j].run
Settlements(e) == {i \in DOMAIN receipts : receipts[i].event = e}
\* A settled event and its command: adjacent in the outbox, the one citing the other.
SettlementValid(e, r) ==
  LET row == events[e]  final == versions[row.task][r.revision] IN
  /\ r.kind = "task.runtime" /\ r.task = row.task
  /\ StartOf(r) = row.revision
  /\ row.cursor < Len(outbox)
  /\ LET first == outbox[row.cursor + 1] IN
     /\ first.type = "task.state_changed" /\ first.of = row.task /\ first.revision = row.revision + 1
     /\ first.epoch = row.epoch /\ first.recovery = row.recovery /\ row.cursor + 1 <= r.cursor
  /\ final.state = "VERIFYING" /\ final.attempt = row.attempt /\ final.epoch = row.epoch
  /\ <<"event", 0, e>> \in final.facts
EventsValid ==
  /\ Ordered(events)
  /\ \A i \in 2..Len(events) : events[i - 1].cursor < events[i].cursor
  /\ \A e \in DOMAIN events :
       /\ Leans(events[e]) /\ events[e].cursor \in DOMAIN outbox /\ outbox[events[e].cursor].type = "task.progress"
       /\ \A i, j \in Settlements(e) : i = j
       /\ \A i \in Settlements(e) : SettlementValid(e, receipts[i])
       /\ events[e].ack = MaxOf({events[e].cursor} \cup {receipts[i].cursor : i \in Settlements(e)})
  /\ \A i \in DOMAIN receipts :
       receipts[i].kind = "task.runtime" /\ versions[receipts[i].task][receipts[i].revision].state = "VERIFYING" =>
         LET e == receipts[i].event IN
         /\ e \in DOMAIN events /\ events[e].task = receipts[i].task
         /\ {f \in versions[receipts[i].task][receipts[i].revision].facts : f[1] = "event"} = {<<"event", 0, e>>}
RequestsValid ==
  /\ Ordered(requests)
  /\ \A i \in DOMAIN requests :
       /\ Leans(requests[i]) /\ runs[requests[i].task][requests[i].attempt][requests[i].run].state = "BUSY"
       /\ versions[requests[i].task][requests[i].revision].state = "RUNNING"

\* validateRows of both engines: what every transaction and every open checks.
RowsValid ==
  /\ SessionsValid /\ AttemptsValid /\ CommandsValid /\ InputsValid /\ ReceiptsValid
  /\ OutboxValid /\ RunsValid /\ EventsValid /\ RequestsValid
=============================================================================
