----------------------------- MODULE TaskSession -----------------------------
(***************************************************************************)
(* One Session, its Tasks and their executions, as the Store keeps them:   *)
(* packages/memory-store/src/{task-store-v1,task-execution-store-v1,       *)
(* outcome-store-v1}.ts with the reducer apps/daemon/src/task-service/     *)
(* task-reducer.ts.  One action per Store operation; each is one SQLite    *)
(* transaction, so one step.  Every operation takes the caller's context   *)
(* epoch ctx: a caller of an old owner is one whose ctx is not the         *)
(* session's.  A call that throws changes nothing and is no step.          *)
(*                                                                         *)
(* Abstractions.  A task is its last version: attempt number, state, the   *)
(* pause flag, the owner epoch of that version, and three facts of the     *)
(* current attempt: the epoch it was created in (born), the epoch of its   *)
(* last runtime input (0: none), its verification plan.  CREATED is never  *)
(* a last version (every CREATED is followed by READY in its transaction); *)
(* nothing the Store accepts reaches WAITING_APPROVAL or                   *)
(* NEEDS_RECONCILIATION.  Callers with a stale revision are refused and    *)
(* change nothing, so revisions are left out; so are events, model         *)
(* requests and receipts, which change none of this state.                 *)
(***************************************************************************)
EXTENDS Integers

CONSTANTS
  TaskIds,      \* the tasks of the session
  MaxAttempts,  \* bound on the attempts of a task
  MaxEpoch      \* bound on the session's owner epochs

ASSUME TaskSessionAssumption == MaxAttempts \in Nat \ {0} /\ MaxEpoch \in Nat \ {0}

VARIABLES
  session,     \* session_v1: owner_epoch, requires_reauthorization
  tasks,       \* task_v1 joined to its current task_snapshot_v1
  executions   \* task_execution_v1 by task and attempt (one per attempt, ever)
vars == <<session, tasks, executions>>

Attempts == 1..MaxAttempts
Epochs == 1..MaxEpoch
Verified == {"COMPLETED", "PARTIAL", "FAILED", "UNVERIFIABLE"}
Terminal == Verified \cup {"CANCELLED"}
Unfinished == {"READY", "RUNNING", "WAITING_INPUT", "PAUSED", "VERIFYING", "CANCELLING"}

Sessions == [epoch : Epochs, unauthorized : BOOLEAN]
Tasks == [attempt : Attempts, state : Terminal \cup Unfinished, pausing : BOOLEAN,
          epoch : Epochs, born : Epochs, input : {0} \cup Epochs,
          plan : {"none", "bound", "used"}]
Executions == [state : {"ALLOCATED", "READY", "BUSY", "DRAINING", "STOPPED"},
               epoch : Epochs, dispatched : BOOLEAN, lapsed : BOOLEAN]
NoTask == [attempt |-> 0, state |-> "NONE"]
NoExecution == [state |-> "NONE"]

Exists(t) == tasks[t] # NoTask
Allocated(t, k) == executions[t][k] # NoExecution
\* body.closed: complete close evidence makes the binding STOPPED; partial evidence
\* changes nothing else.
IsOpen(t, k) == Allocated(t, k) /\ executions[t][k].state # "STOPPED"
\* executionForReduction: the execution of the latest attempt that has one.
LatestExecution(t) ==
  {k \in Attempts : Allocated(t, k) /\ \A j \in Attempts : j > k => ~Allocated(t, j)}
OpenLatest(t) == \E k \in LatestExecution(t) : IsOpen(t, k)
ClosedLatest(t) == \E k \in LatestExecution(t) : ~IsOpen(t, k)

Init ==
  /\ session = [epoch |-> 1, unauthorized |-> FALSE]
  /\ tasks = [t \in TaskIds |-> NoTask]
  /\ executions = [t \in TaskIds |-> [k \in Attempts |-> NoExecution]]
-----------------------------------------------------------------------------
(* Admission of a caller.                                                  *)

Owner(ctx) == ctx = session.epoch
\* A user's command: refused as recovery_required while an older owner's
\* execution is not closed.
UserCommand(t, ctx) ==
  /\ Owner(ctx) /\ Exists(t)
  /\ ~\E k \in LatestExecution(t) : IsOpen(t, k) /\ executions[t][k].epoch < ctx
\* Runtime events other than confirm-stop, confirm-pause and interrupted, and
\* every execution operation but recovery: the last version is this owner's.
CurrentTask(t, ctx) == Owner(ctx) /\ Exists(t) /\ tasks[t].epoch = ctx
Owned(t, ctx) ==
  /\ CurrentTask(t, ctx)
  /\ Allocated(t, tasks[t].attempt) /\ executions[t][tasks[t].attempt].epoch = ctx
\* checkFence: authorized session, an input of this attempt and owner, a live lease.
Fenced(t, ctx) == ~session.unauthorized /\ tasks[t].input = ctx
Leased(t, ctx) == Fenced(t, ctx) /\ ~executions[t][tasks[t].attempt].lapsed

Current(t) == executions[t][tasks[t].attempt]
HasOpen(t) == IsOpen(t, tasks[t].attempt)
HasClosed(t) == Allocated(t, tasks[t].attempt) /\ ~HasOpen(t)

\* persistVersion: the new last version carries the caller's epoch.
Write(t, ctx, version) == tasks' = [tasks EXCEPT ![t] = [version EXCEPT !.epoch = ctx]]
Enter(t, ctx, state) == Write(t, ctx, [tasks[t] EXCEPT !.state = state, !.pausing = FALSE])
Change(t, ctx, state) == Enter(t, ctx, state) /\ UNCHANGED <<session, executions>>

FirstVersion(k, ctx) ==
  [attempt |-> k, state |-> "READY", pausing |-> FALSE, epoch |-> ctx, born |-> ctx,
   input |-> 0, plan |-> "none"]
\* A new attempt by a user's command is the authorization a fenced session waits for.
BeginAttempt(t, ctx) ==
  /\ tasks[t].attempt < MaxAttempts
  /\ tasks' = [tasks EXCEPT ![t] = FirstVersion(tasks[t].attempt + 1, ctx)]
  /\ session' = [session EXCEPT !.unauthorized = FALSE]
  /\ UNCHANGED executions
-----------------------------------------------------------------------------
(* User commands.                                                          *)

Create(t, ctx) ==
  /\ Owner(ctx) /\ ~Exists(t)
  /\ tasks' = [tasks EXCEPT ![t] = FirstVersion(1, ctx)]
  /\ session' = [session EXCEPT !.unauthorized = FALSE]
  /\ UNCHANGED executions
\* Mutant of Cancel: confirmed at once, whatever is still running.
CancelAtOnce(t, ctx) ==
  /\ UserCommand(t, ctx) /\ tasks[t].state \in Unfinished \ {"CANCELLING"}
  /\ Change(t, ctx, "CANCELLED")
\* Without an open execution the same transaction confirms the stop.
Cancel(t, ctx) ==
  /\ UserCommand(t, ctx) /\ tasks[t].state \in Unfinished \ {"CANCELLING"}
  /\ Change(t, ctx, IF OpenLatest(t) THEN "CANCELLING" ELSE "CANCELLED")
Pause(t, ctx) ==
  /\ UserCommand(t, ctx) /\ tasks[t].state = "RUNNING" /\ ~tasks[t].pausing
  /\ Write(t, ctx, [tasks[t] EXCEPT !.pausing = TRUE]) /\ UNCHANGED <<session, executions>>
Retry(t, ctx) ==
  /\ UserCommand(t, ctx) /\ tasks[t].state \in Terminal /\ ~OpenLatest(t)
  /\ BeginAttempt(t, ctx)
\* From PAUSED, or from READY when the owner changed or the latest execution is
\* closed: cancel, confirm, retry and prepare in one transaction.
Continue(t, ctx) ==
  /\ UserCommand(t, ctx) /\ ~OpenLatest(t)
  /\ \/ tasks[t].state \in Terminal \cup {"PAUSED"}
     \/ tasks[t].state = "READY" /\ (tasks[t].epoch # ctx \/ ClosedLatest(t))
  /\ BeginAttempt(t, ctx)
\* An attempt already CANCELLING cannot be cancelled again, so not revised.
Revise(t, ctx) ==
  /\ UserCommand(t, ctx) /\ tasks[t].state # "CANCELLING" /\ ~OpenLatest(t)
  /\ BeginAttempt(t, ctx)
\* Mutant of Respond: the answer resumes the old attempt under the new owner.
RespondResuming(t, ctx) ==
  /\ UserCommand(t, ctx) /\ tasks[t].state = "WAITING_INPUT" /\ ~OpenLatest(t)
  /\ Change(t, ctx, "READY")
\* Under another owner the answer starts a new attempt.
Respond(t, ctx) ==
  /\ UserCommand(t, ctx) /\ tasks[t].state = "WAITING_INPUT" /\ ~OpenLatest(t)
  /\ IF tasks[t].epoch = ctx THEN Change(t, ctx, "READY") ELSE BeginAttempt(t, ctx)
-----------------------------------------------------------------------------
(* Runtime commands.                                                       *)

\* A committed decision asks the user; the decision itself is CognitiveBoundary's.
CognitiveWait(t, ctx) ==
  /\ CurrentTask(t, ctx) /\ tasks[t].state = "READY" /\ ~OpenLatest(t)
  /\ Change(t, ctx, "WAITING_INPUT")
Start(t, ctx) ==
  /\ CurrentTask(t, ctx) /\ tasks[t].state = "READY"
  /\ Allocated(t, tasks[t].attempt) /\ Current(t).state = "READY" /\ ~Current(t).dispatched
  /\ Change(t, ctx, "RUNNING")
ConfirmStop(t, ctx) ==
  /\ Owner(ctx) /\ Exists(t) /\ tasks[t].state = "CANCELLING" /\ HasClosed(t)
  /\ Change(t, ctx, "CANCELLED")
ConfirmPause(t, ctx) ==
  /\ Owner(ctx) /\ Exists(t) /\ tasks[t].state = "RUNNING" /\ tasks[t].pausing /\ HasClosed(t)
  /\ Change(t, ctx, "PAUSED")
\* All criteria unknown: finalized as UNVERIFIABLE.
Interrupted(t, ctx) ==
  /\ Owner(ctx) /\ Exists(t) /\ tasks[t].state \in {"RUNNING", "VERIFYING"} /\ HasClosed(t)
  /\ Change(t, ctx, "UNVERIFIABLE")
-----------------------------------------------------------------------------
(* Inputs, executions and their events.                                    *)

RecordRuntimeInput(t, ctx) ==
  /\ CurrentTask(t, ctx) /\ ~session.unauthorized
  /\ tasks[t].state = "READY" /\ ~OpenLatest(t)
  /\ tasks' = [tasks EXCEPT ![t].input = ctx]
  /\ UNCHANGED <<session, executions>>
\* Mutant of AllocateExecution: a stopped worker of the attempt is replaced.
AllocateAgain(t, ctx) ==
  /\ CurrentTask(t, ctx) /\ Fenced(t, ctx) /\ ~HasOpen(t)
  /\ tasks[t].state = "READY"
  /\ executions' = [executions EXCEPT ![t][tasks[t].attempt] =
                     [state |-> "ALLOCATED", epoch |-> ctx, dispatched |-> FALSE, lapsed |-> FALSE]]
  /\ UNCHANGED <<session, tasks>>
AllocateExecution(t, ctx) ==
  /\ CurrentTask(t, ctx) /\ Fenced(t, ctx)
  /\ ~Allocated(t, tasks[t].attempt)
  /\ tasks[t].state = "READY"
  /\ ~\E k \in Attempts : IsOpen(t, k) /\ executions[t][k].epoch = ctx
  /\ executions' = [executions EXCEPT ![t][tasks[t].attempt] =
                     [state |-> "ALLOCATED", epoch |-> ctx, dispatched |-> FALSE, lapsed |-> FALSE]]
  /\ UNCHANGED <<session, tasks>>

Update(t, execution) ==
  /\ executions' = [executions EXCEPT ![t][tasks[t].attempt] = execution]
  /\ UNCHANGED <<session, tasks>>
MarkExecutionReady(t, ctx) ==
  /\ Owned(t, ctx) /\ Leased(t, ctx) /\ Current(t).state = "ALLOCATED"
  /\ Update(t, [Current(t) EXCEPT !.state = "READY"])
MarkExecutionDispatched(t, ctx) ==
  /\ Owned(t, ctx) /\ Leased(t, ctx)
  /\ tasks[t].state = "RUNNING" /\ Current(t).state = "READY" /\ ~Current(t).dispatched
  /\ Update(t, [Current(t) EXCEPT !.state = "BUSY", !.dispatched = TRUE])
ObserveExecutionBinding(t, ctx) ==
  /\ Owned(t, ctx) /\ Leased(t, ctx) /\ Current(t).state = "BUSY"
  /\ Update(t, [Current(t) EXCEPT !.state = "DRAINING"])
\* Mutant of IngestSettled: a cancellation was requested.
IngestAfterCancel(t, ctx) ==
  /\ Owned(t, ctx) /\ Leased(t, ctx) /\ Current(t).dispatched
  /\ Current(t).state \in {"BUSY", "DRAINING"}
  /\ tasks[t].state \in {"RUNNING", "CANCELLING"}
  /\ Change(t, ctx, "VERIFYING")
\* The settled event and the task's VERIFYING commit together or not at all.
IngestSettled(t, ctx) ==
  /\ Owned(t, ctx) /\ Leased(t, ctx) /\ Current(t).dispatched
  /\ Current(t).state \in {"BUSY", "DRAINING"}
  /\ tasks[t].state = "RUNNING"
  /\ Change(t, ctx, "VERIFYING")
\* An observed stop is a fact: no lease is needed to record it.
CloseExecution(t, ctx) ==
  /\ Owned(t, ctx) /\ HasOpen(t)
  /\ Update(t, [Current(t) EXCEPT !.state = "STOPPED"])
\* task_attempt_v1.active: the attempt has not ended.
CanRecoverClose(t) == HasOpen(t) /\ tasks[t].state \notin Terminal
\* The new owner records the close that the holder of the process observed.
RecoverExecutionClose(t, ctx) ==
  /\ Owner(ctx) /\ Exists(t) /\ CanRecoverClose(t)
  /\ Current(t).epoch < ctx /\ tasks[t].epoch <= ctx
  /\ Update(t, [Current(t) EXCEPT !.state = "STOPPED"])
-----------------------------------------------------------------------------
(* Verification.                                                           *)

BindPlan(t, ctx) ==
  /\ CurrentTask(t, ctx) /\ ~session.unauthorized
  /\ tasks[t].state = "READY" /\ tasks[t].plan = "none"
  /\ Allocated(t, tasks[t].attempt) => ~Current(t).dispatched
  /\ tasks' = [tasks EXCEPT ![t].plan = "bound"]
  /\ UNCHANGED <<session, executions>>
\* Mutant of Results: a cancelled attempt is verified like any other.
ResultsAnew(t) == Verified
\* appendTaskOutcome: a result that was committed, or a cancellation, stands.
Results(t) == IF tasks[t].state = "VERIFYING" THEN Verified ELSE {tasks[t].state}
\* A result may be committed while the execution is still open, once dispatched.
Verify(t, ctx) ==
  /\ UserCommand(t, ctx) /\ CurrentTask(t, ctx) /\ ~session.unauthorized
  /\ tasks[t].plan # "none" /\ tasks[t].state \in Terminal \cup {"VERIFYING"}
  /\ \/ LatestExecution(t) = {} /\ tasks[t].state = "CANCELLED"
     \/ /\ Owned(t, ctx) /\ ~Current(t).lapsed
        /\ IF tasks[t].state = "CANCELLED" THEN HasClosed(t) ELSE Current(t).dispatched
  /\ \E result \in Results(t) :
       Write(t, ctx, [tasks[t] EXCEPT !.state = result, !.plan = "used"])
  /\ UNCHANGED <<session, executions>>
\* The user's word on an earlier result; any later owner may record it.
Feedback(t, ctx) ==
  /\ UserCommand(t, ctx) /\ tasks[t].plan = "used" /\ tasks[t].state \in Terminal
  /\ LatestExecution(t) = {} \/ Allocated(t, tasks[t].attempt)
  /\ Write(t, ctx, tasks[t]) /\ UNCHANGED <<session, executions>>
-----------------------------------------------------------------------------
(* Time and restarts.                                                      *)

\* notAfter passes, or a cognition or policy epoch of the fence moves on.
FenceLapses(t, k) ==
  /\ Allocated(t, k) /\ ~executions[t][k].lapsed
  /\ executions' = [executions EXCEPT ![t][k].lapsed = TRUE]
  /\ UNCHANGED <<session, tasks>>
\* A new daemon instance opens the store: the old owner is fenced off.
FenceRestartedOwners ==
  /\ session.epoch < MaxEpoch
  /\ session' = [epoch |-> session.epoch + 1, unauthorized |-> TRUE]
  /\ UNCHANGED <<tasks, executions>>

Step(t, ctx) ==
  \/ Create(t, ctx) \/ Cancel(t, ctx) \/ Pause(t, ctx) \/ Retry(t, ctx)
  \/ Continue(t, ctx) \/ Revise(t, ctx) \/ Respond(t, ctx)
  \/ CognitiveWait(t, ctx) \/ Start(t, ctx) \/ ConfirmStop(t, ctx)
  \/ ConfirmPause(t, ctx) \/ Interrupted(t, ctx)
  \/ RecordRuntimeInput(t, ctx) \/ AllocateExecution(t, ctx)
  \/ MarkExecutionReady(t, ctx) \/ MarkExecutionDispatched(t, ctx)
  \/ ObserveExecutionBinding(t, ctx) \/ IngestSettled(t, ctx)
  \/ CloseExecution(t, ctx) \/ RecoverExecutionClose(t, ctx)
  \/ BindPlan(t, ctx) \/ Verify(t, ctx) \/ Feedback(t, ctx)
Next ==
  \/ \E t \in TaskIds, ctx \in Epochs : Step(t, ctx)
  \/ \E t \in TaskIds, k \in Attempts : FenceLapses(t, k)
  \/ FenceRestartedOwners

Spec == Init /\ [][Next]_vars
-----------------------------------------------------------------------------
\* Rows have the columns and ranges of the schema.
TypeOK ==
  /\ session \in Sessions
  /\ tasks \in [TaskIds -> Tasks \cup {NoTask}]
  /\ executions \in [TaskIds -> [Attempts -> Executions \cup {NoExecution}]]

\* An unclosed execution belongs to the task's current attempt, and that attempt
\* is neither at rest nor waiting for the user: no task is reported stopped, and
\* none is worked on a second time, while a worker may still be running for it.
StoppedMeansStopped ==
  \A t \in TaskIds, k \in Attempts : IsOpen(t, k) =>
    /\ Exists(t) /\ k = tasks[t].attempt
    /\ tasks[t].state \notin {"CANCELLED", "PAUSED", "WAITING_INPUT"}

\* After a restart no attempt of an earlier owner is worked on: an unclosed
\* execution of the present owner is of an attempt this owner was asked for, in
\* an authorized session.  One task's new attempt authorizes the session for
\* every task of it, so this rests on the epochs of versions, inputs and leases.
WorkIsReauthorized ==
  \A t \in TaskIds, k \in Attempts :
    IsOpen(t, k) /\ executions[t][k].epoch = session.epoch =>
      /\ ~session.unauthorized
      /\ Exists(t) /\ tasks[t].born = session.epoch

\* A task shows a verified result, or waits for one, only if a worker of that very
\* attempt received the work; UNVERIFIABLE alone may follow a worker that never did.
ResultsAreWorkedFor ==
  \A t \in TaskIds : Exists(t) /\ tasks[t].state \in Verified \cup {"VERIFYING"} =>
    /\ Allocated(t, tasks[t].attempt)
    /\ ~Current(t).dispatched => tasks[t].state = "UNVERIFIABLE" /\ HasClosed(t)

\* What the proofs of TaskSessionProofs show to be inductive, for one task, its
\* executions and the session: no execution is of a later attempt than the current
\* one, an execution carries the epoch its attempt was created in, and an attempt
\* created in the session's present epoch has authorized the session.
Sane(task, runs, s) ==
  /\ \A k \in Attempts : runs[k] # NoExecution =>
       /\ task # NoTask /\ k <= task.attempt
       /\ runs[k].state # "STOPPED" =>
            k = task.attempt /\ task.state \notin {"CANCELLED", "PAUSED", "WAITING_INPUT"}
  /\ task # NoTask =>
       /\ task.born <= task.epoch /\ task.epoch <= s.epoch
       /\ task.state \in {"READY", "WAITING_INPUT"} => task.born = task.epoch
       /\ task.born = s.epoch => ~s.unauthorized
       /\ runs[task.attempt] # NoExecution => runs[task.attempt].epoch = task.born
       /\ task.state \in Verified \cup {"VERIFYING"} =>
            /\ runs[task.attempt] # NoExecution
            /\ ~runs[task.attempt].dispatched =>
                 task.state = "UNVERIFIABLE" /\ runs[task.attempt].state = "STOPPED"
Inductive == TypeOK /\ \A t \in TaskIds : Sane(tasks[t], executions[t], session)

\* Owner fencing: whatever a caller of an old or a new owner does, an execution of
\* an earlier owner can only be closed, and a closed one never changes again.
FencedExecutionsOnlyClose ==
  [][\A t \in TaskIds, k \in Attempts :
       Allocated(t, k) /\ (executions[t][k].epoch < session.epoch \/ ~IsOpen(t, k)) =>
         LET old == executions[t][k]  new == executions'[t][k] IN
         /\ new.epoch = old.epoch /\ new.dispatched = old.dispatched
         /\ new.state # old.state => IsOpen(t, k) /\ new.state = "STOPPED"]_vars

\* A result that arrives after the cancellation does not win: an attempt leaves
\* CANCELLING only as CANCELLED, and only once its worker is observed closed.
CancellationWaitsForClose ==
  [][\A t \in TaskIds : tasks[t].state = "CANCELLING" /\ tasks'[t] # tasks[t] =>
       tasks'[t].state = "CANCELLED" /\ HasClosed(t)]_vars

\* docs/architecture/persistent-task-sessions.md:37 lets the new owner append the close
\* that the retained Supervisor observed: an unclosed execution of an earlier owner
\* can be closed.
CustodyRecoverable ==
  \A t \in TaskIds : OpenLatest(t) /\ Current(t).epoch < session.epoch => CanRecoverClose(t)

\* What the Store's rows say of the custody of workers, and that it implements
\* ExecutionCustody: work is begun once per attempt, in order, under an authorized
\* owner, is never handed over, and a task at rest has none.
Begun == [t \in TaskIds |-> {k \in Attempts : Allocated(t, k)}]
Held == [t \in TaskIds |->
          {<<k, executions[t][k].epoch>> : k \in {j \in Attempts : IsOpen(t, j)}}]
Resting == [t \in TaskIds |-> tasks[t].state \in {"CANCELLED", "PAUSED"}]
Custody == INSTANCE ExecutionCustody WITH
  epoch <- session.epoch, authorized <- ~session.unauthorized,
  begun <- Begun, held <- Held, resting <- Resting
CustodyKept == Custody!Spec
=============================================================================
