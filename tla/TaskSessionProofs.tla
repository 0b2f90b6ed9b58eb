--------------------------- MODULE TaskSessionProofs ---------------------------
(***************************************************************************)
(* TaskSession for every set of tasks and every bound: Inductive is an     *)
(* invariant, the safety properties of the runs follow from it, and the    *)
(* Store implements ExecutionCustody.  Then the two other closed systems   *)
(* of MCTaskSession, each with an invariant of its own: the outbox for     *)
(* every set of commands and consumers (OutboxInductive), the cognitive    *)
(* boundary for every set of coordinators and every bound                  *)
(* (BoundaryInductive).                                                    *)
(***************************************************************************)
EXTENDS MCTaskSession, Sequences, TLAPS

USE TaskSessionAssumption DEF Attempts, Epochs

\* What the invariant says of a task that exists.
LEMMA TaskFacts ==
  ASSUME Inductive, NEW t \in TaskIds, Exists(t)
  PROVE  /\ tasks[t] \in Tasks /\ tasks[t].attempt \in Attempts
         /\ session \in Sessions /\ session.epoch \in Epochs
         /\ executions[t] \in [Attempts -> Executions \cup {NoExecution}]
         /\ Sane(tasks[t], executions[t], session)
  BY DEF Inductive, TypeOK, Exists, Tasks, Sessions

\* An unclosed execution is the latest one.
LEMMA OpenIsLatest ==
  ASSUME Inductive, NEW t \in TaskIds, NEW k \in Attempts, IsOpen(t, k)
  PROVE  Exists(t) /\ k = tasks[t].attempt /\ k \in LatestExecution(t) /\ OpenLatest(t)
<1>1. Sane(tasks[t], executions[t], session)
  BY DEF Inductive
<1>2. Exists(t) /\ k = tasks[t].attempt
  BY <1>1 DEF Sane, IsOpen, Allocated, Exists
<1>3. \A j \in Attempts : Allocated(t, j) => j <= tasks[t].attempt
  BY <1>1 DEF Sane, Allocated
<1>4. k \in LatestExecution(t)
  <2>1. \A j \in Attempts : j > k => ~Allocated(t, j)
    BY <1>2, <1>3
  <2> QED BY <2>1 DEF LatestExecution, IsOpen
<1> QED BY <1>2, <1>4 DEF OpenLatest

\* A transaction that writes one task's version, and may authorize the session.
LEMMA PutTask ==
  ASSUME Inductive, NEW t \in TaskIds, NEW v \in Tasks,
         tasks' = [tasks EXCEPT ![t] = v], UNCHANGED executions,
         session' \in Sessions, session'.epoch = session.epoch,
         ~session.unauthorized => ~session'.unauthorized,
         Sane(v, executions[t], session')
  PROVE  Inductive'
<1>1. TypeOK'
  BY DEF Inductive, TypeOK
<1>2. ASSUME NEW u \in TaskIds
      PROVE  Sane(tasks'[u], executions'[u], session')
  <2>1. CASE u = t
    BY <2>1 DEF Inductive, TypeOK
  <2>2. CASE u # t
    <3>1. tasks'[u] = tasks[u] /\ executions'[u] = executions[u]
      BY <2>2 DEF Inductive, TypeOK
    <3>2. Sane(tasks[u], executions[u], session)
      BY DEF Inductive
    <3> QED BY <3>1, <3>2 DEF Sane
  <2> QED BY <2>1, <2>2
<1> QED BY <1>1, <1>2 DEF Inductive

\* A transaction that writes one execution.
LEMMA PutExecution ==
  ASSUME Inductive, NEW t \in TaskIds, NEW k \in Attempts, NEW e \in Executions,
         executions' = [executions EXCEPT ![t][k] = e], UNCHANGED <<session, tasks>>,
         Sane(tasks[t], [executions[t] EXCEPT ![k] = e], session)
  PROVE  Inductive'
<1>1. /\ executions'[t] = [executions[t] EXCEPT ![k] = e]
      /\ \A u \in TaskIds : u # t => executions'[u] = executions[u]
      /\ executions' \in [TaskIds -> [Attempts -> Executions \cup {NoExecution}]]
  BY DEF Inductive, TypeOK
<1>2. TypeOK'
  BY <1>1 DEF Inductive, TypeOK
<1>3. ASSUME NEW u \in TaskIds
      PROVE  Sane(tasks'[u], executions'[u], session')
  <2>1. CASE u = t
    BY <2>1, <1>1
  <2>2. CASE u # t
    BY <2>2, <1>1 DEF Inductive
  <2> QED BY <2>1, <2>2
<1> QED BY <1>2, <1>3 DEF Inductive

\* A new version of the same attempt, written by the owner.
LEMMA VersionKeeps ==
  ASSUME Inductive, NEW t \in TaskIds, NEW v \in Tasks, Exists(t),
         tasks' = [tasks EXCEPT ![t] = v], UNCHANGED <<session, executions>>,
         v.attempt = tasks[t].attempt, v.born = tasks[t].born,
         v.epoch \in {tasks[t].epoch, session.epoch},
         v.state \in {"READY", "WAITING_INPUT"} => v.born = v.epoch,
         v.state \in {"CANCELLED", "PAUSED", "WAITING_INPUT"} => \A k \in Attempts : ~IsOpen(t, k),
         v.state \in Verified \cup {"VERIFYING"} =>
           /\ Allocated(t, tasks[t].attempt)
           /\ ~Current(t).dispatched => v.state = "UNVERIFIABLE" /\ Current(t).state = "STOPPED"
  PROVE  Inductive'
<1>1. Sane(tasks[t], executions[t], session) /\ tasks[t] # NoTask
      /\ tasks[t].attempt \in Attempts
      /\ tasks[t].born \in Epochs /\ tasks[t].epoch \in Epochs /\ session.epoch \in Epochs
  BY TaskFacts DEF Exists, Tasks
<1>2. v # NoTask
  BY DEF Tasks, NoTask
<1>3. Sane(v, executions[t], session)
  BY <1>1, <1>2 DEF Sane, IsOpen, Allocated, Current
<1> QED BY <1>3, PutTask, TaskFacts

\* A new version of the same attempt that enters a state.
LEMMA ChangeKeeps ==
  ASSUME Inductive, NEW t \in TaskIds, NEW ctx \in Epochs, NEW state \in Terminal \cup Unfinished,
         Owner(ctx), Exists(t), Change(t, ctx, state),
         state \in {"READY", "WAITING_INPUT"} => tasks[t].born = ctx,
         state \in {"CANCELLED", "PAUSED", "WAITING_INPUT"} => \A k \in Attempts : ~IsOpen(t, k),
         state \in Verified \cup {"VERIFYING"} =>
           /\ Allocated(t, tasks[t].attempt)
           /\ ~Current(t).dispatched => state = "UNVERIFIABLE" /\ Current(t).state = "STOPPED"
  PROVE  Inductive'
<1> DEFINE v == [[tasks[t] EXCEPT !.state = state, !.pausing = FALSE] EXCEPT !.epoch = ctx]
<1>1. v \in Tasks /\ v.attempt = tasks[t].attempt /\ v.born = tasks[t].born
      /\ v.epoch = session.epoch /\ v.state = state
  BY TaskFacts DEF Tasks, Owner
<1>2. tasks' = [tasks EXCEPT ![t] = v] /\ UNCHANGED <<session, executions>>
  BY DEF Change, Enter, Write
<1>3. v.epoch = ctx
  OBVIOUS
<1> HIDE DEF v
<1> QED BY <1>1, <1>2, <1>3, VersionKeeps

\* A new state of an execution: same owner, no dispatch undone, no closed one reopened.
LEMMA ExecutionKeeps ==
  ASSUME Inductive, NEW t \in TaskIds, NEW k \in Attempts, NEW e \in Executions, Allocated(t, k),
         executions' = [executions EXCEPT ![t][k] = e], UNCHANGED <<session, tasks>>,
         e.epoch = executions[t][k].epoch,
         executions[t][k].dispatched => e.dispatched,
         e.state # "STOPPED" => IsOpen(t, k)
  PROVE  Inductive'
<1> DEFINE runs == [executions[t] EXCEPT ![k] = e]
<1>1. e # NoExecution
  BY DEF Executions, NoExecution
<1>2. /\ executions[t] \in [Attempts -> Executions \cup {NoExecution}]
      /\ Sane(tasks[t], executions[t], session)
  BY DEF Inductive, TypeOK
<1>3. runs[k] = e /\ \A j \in Attempts : j # k => runs[j] = executions[t][j]
  BY <1>2
<1>4. tasks[t] # NoTask => tasks[t].attempt \in Attempts
  BY TaskFacts DEF Exists
<1> HIDE DEF runs
<1>5. Sane(tasks[t], runs, session)
  BY <1>1, <1>2, <1>3, <1>4 DEF Sane, IsOpen, Allocated
<1> QED BY <1>5, PutExecution DEF runs

\* An operation on the current execution.
LEMMA UpdateKeeps ==
  ASSUME Inductive, NEW t \in TaskIds, NEW e \in Executions, Exists(t),
         Allocated(t, tasks[t].attempt), Update(t, e),
         e.epoch = Current(t).epoch, Current(t).dispatched => e.dispatched,
         e.state # "STOPPED" => HasOpen(t)
  PROVE  Inductive'
BY TaskFacts, ExecutionKeeps DEF Update, Current, HasOpen

\* A user's command that begins the next attempt.
LEMMA BeginKeeps ==
  ASSUME Inductive, NEW t \in TaskIds, NEW ctx \in Epochs,
         Owner(ctx), Exists(t), ~OpenLatest(t), BeginAttempt(t, ctx)
  PROVE  Inductive'
<1> DEFINE v == FirstVersion(tasks[t].attempt + 1, ctx)
<1>1. tasks[t].attempt \in Attempts /\ tasks[t].attempt + 1 \in Attempts
  BY TaskFacts DEF BeginAttempt
<1>2. v \in Tasks /\ v.attempt = tasks[t].attempt + 1 /\ v.born = ctx
      /\ v.epoch = ctx /\ v.state = "READY" /\ v # NoTask
  BY <1>1 DEF FirstVersion, Tasks, NoTask, Unfinished
<1>3. /\ tasks' = [tasks EXCEPT ![t] = v] /\ UNCHANGED executions
      /\ session' \in Sessions /\ session'.epoch = session.epoch /\ ~session'.unauthorized
  BY DEF BeginAttempt, Inductive, TypeOK, Sessions
<1> HIDE DEF v
<1>4. Sane(tasks[t], executions[t], session) /\ tasks[t] # NoTask /\ ctx = session.epoch
  BY TaskFacts DEF Owner, Exists
<1>5. \A k \in Attempts : ~IsOpen(t, k)
  BY OpenIsLatest
<1>6. \A k \in Attempts : executions[t][k] # NoExecution => k <= tasks[t].attempt
  BY <1>4 DEF Sane
<1>7. executions[t][v.attempt] = NoExecution
  BY <1>1, <1>2, <1>6
<1>8. Sane(v, executions[t], session')
  BY <1>1, <1>2, <1>3, <1>4, <1>5, <1>6, <1>7
     DEF Sane, IsOpen, Allocated, Verified
<1> QED BY <1>2, <1>3, <1>8, PutTask
-----------------------------------------------------------------------------
(* The steps.                                                              *)

\* A user's command begins a task, or its next attempt, or writes its last version.
LEMMA UserStepKeeps ==
  ASSUME Inductive, NEW t \in TaskIds, NEW ctx \in Epochs,
         \/ Create(t, ctx) \/ Cancel(t, ctx) \/ Pause(t, ctx) \/ Retry(t, ctx)
         \/ Continue(t, ctx) \/ Revise(t, ctx) \/ Respond(t, ctx)
  PROVE  Inductive'
<1>1. CASE Create(t, ctx)
  <2> DEFINE v == FirstVersion(1, ctx)
  <2>1. v \in Tasks /\ v.attempt = 1 /\ v.born = ctx
        /\ v.epoch = ctx /\ v.state = "READY" /\ v # NoTask
    BY DEF FirstVersion, Tasks, NoTask, Unfinished
  <2>2. /\ tasks' = [tasks EXCEPT ![t] = v] /\ UNCHANGED executions
        /\ session' \in Sessions /\ session'.epoch = session.epoch /\ ~session'.unauthorized
        /\ ctx = session.epoch /\ tasks[t] = NoTask
    BY <1>1 DEF Create, Inductive, TypeOK, Sessions, Owner, Exists
  <2> HIDE DEF v
  <2>3. \A k \in Attempts : executions[t][k] = NoExecution
    BY <2>2 DEF Inductive, Sane
  <2>4. Sane(v, executions[t], session')
    BY <2>1, <2>2, <2>3 DEF Sane, Verified
  <2> QED BY <2>1, <2>2, <2>4, PutTask
<1>2. CASE Cancel(t, ctx)
  <2> DEFINE state == IF OpenLatest(t) THEN "CANCELLING" ELSE "CANCELLED"
  <2>1. Owner(ctx) /\ Exists(t) /\ Change(t, ctx, state)
    BY <1>2 DEF Cancel, UserCommand
  <2>2. state = "CANCELLED" => \A k \in Attempts : ~IsOpen(t, k)
    BY OpenIsLatest
  <2>3. /\ state \in Terminal \cup Unfinished
        /\ state \notin {"READY", "WAITING_INPUT", "PAUSED"} /\ state \notin Verified \cup {"VERIFYING"}
    BY DEF Terminal, Unfinished, Verified
  <2> HIDE DEF state
  <2> QED BY <2>1, <2>2, <2>3, ChangeKeeps
<1>3. CASE Pause(t, ctx)
  <2> DEFINE v == [[tasks[t] EXCEPT !.pausing = TRUE] EXCEPT !.epoch = ctx]
  <2>1. Owner(ctx) /\ Exists(t) /\ tasks[t].state = "RUNNING"
    BY <1>3 DEF Pause, UserCommand
  <2>2. v \in Tasks /\ v.attempt = tasks[t].attempt /\ v.born = tasks[t].born
        /\ v.epoch = session.epoch /\ v.state = "RUNNING"
    BY <2>1, TaskFacts DEF Tasks, Owner
  <2>3. tasks' = [tasks EXCEPT ![t] = v] /\ UNCHANGED <<session, executions>>
    BY <1>3 DEF Pause, Write
  <2> HIDE DEF v
  <2> QED BY <2>1, <2>2, <2>3, VersionKeeps DEF Verified
<1>4. CASE Retry(t, ctx) \/ Continue(t, ctx) \/ Revise(t, ctx)
  BY <1>4, BeginKeeps DEF Retry, Continue, Revise, UserCommand
<1>5. CASE Respond(t, ctx)
  <2>1. Owner(ctx) /\ Exists(t) /\ ~OpenLatest(t) /\ tasks[t].state = "WAITING_INPUT"
    BY <1>5 DEF Respond, UserCommand
  <2>2. CASE tasks[t].epoch = ctx
    <3>1. tasks[t].born = ctx
      BY <2>1, <2>2, TaskFacts DEF Sane, Exists
    <3>2. Change(t, ctx, "READY")
      BY <1>5, <2>2 DEF Respond
    <3>3. "READY" \in Terminal \cup Unfinished /\ "READY" \notin Verified
      BY DEF Unfinished, Verified
    <3> QED BY <2>1, <3>1, <3>2, <3>3, ChangeKeeps
  <2>3. CASE tasks[t].epoch # ctx
    BY <1>5, <2>1, <2>3, BeginKeeps DEF Respond
  <2> QED BY <2>2, <2>3
<1> QED BY <1>1, <1>2, <1>3, <1>4, <1>5

\* A runtime command moves the current attempt.
LEMMA RuntimeStepKeeps ==
  ASSUME Inductive, NEW t \in TaskIds, NEW ctx \in Epochs,
         \/ CognitiveWait(t, ctx) \/ Start(t, ctx) \/ ConfirmStop(t, ctx)
         \/ ConfirmPause(t, ctx) \/ Interrupted(t, ctx) \/ IngestSettled(t, ctx)
  PROVE  Inductive'
<1>1. Owner(ctx) /\ Exists(t)
  BY DEF CognitiveWait, Start, ConfirmStop, ConfirmPause, Interrupted, IngestSettled, Owned, CurrentTask
<1>2. Sane(tasks[t], executions[t], session) /\ tasks[t].attempt \in Attempts
  BY <1>1, TaskFacts
<1>3. HasClosed(t) => \A k \in Attempts : ~IsOpen(t, k)
  BY <1>2, OpenIsLatest DEF HasClosed, HasOpen
<1>4. HasClosed(t) => Allocated(t, tasks[t].attempt) /\ Current(t).state = "STOPPED"
  BY DEF HasClosed, HasOpen, IsOpen, Current
<1>5. /\ {"WAITING_INPUT", "RUNNING", "PAUSED", "CANCELLED", "UNVERIFIABLE", "VERIFYING"}
           \subseteq Terminal \cup Unfinished
      /\ {"WAITING_INPUT", "RUNNING", "PAUSED", "CANCELLED"} \cap (Verified \cup {"VERIFYING"}) = {}
  BY DEF Terminal, Unfinished, Verified
<1>6. CASE CognitiveWait(t, ctx)
  <2>1. tasks[t].born = ctx /\ Change(t, ctx, "WAITING_INPUT") /\ \A k \in Attempts : ~IsOpen(t, k)
    BY <1>1, <1>2, <1>6, OpenIsLatest DEF CognitiveWait, CurrentTask, Sane, Exists
  <2> QED BY <1>1, <1>5, <2>1, ChangeKeeps
<1>7. CASE Start(t, ctx)
  BY <1>1, <1>5, <1>7, ChangeKeeps DEF Start
<1>8. CASE ConfirmStop(t, ctx)
  BY <1>1, <1>3, <1>5, <1>8, ChangeKeeps DEF ConfirmStop
<1>9. CASE ConfirmPause(t, ctx)
  BY <1>1, <1>3, <1>5, <1>9, ChangeKeeps DEF ConfirmPause
<1>10. CASE Interrupted(t, ctx)
  BY <1>1, <1>4, <1>5, <1>10, ChangeKeeps DEF Interrupted
<1>11. CASE IngestSettled(t, ctx)
  BY <1>1, <1>5, <1>11, ChangeKeeps DEF IngestSettled, Owned
<1> QED BY <1>6, <1>7, <1>8, <1>9, <1>10, <1>11

\* Inputs, plans, results and feedback leave the attempt and the owner of its work alone.
LEMMA RecordStepKeeps ==
  ASSUME Inductive, NEW t \in TaskIds, NEW ctx \in Epochs,
         \/ RecordRuntimeInput(t, ctx) \/ BindPlan(t, ctx) \/ Verify(t, ctx) \/ Feedback(t, ctx)
  PROVE  Inductive'
<1>1. Owner(ctx) /\ Exists(t)
  BY DEF RecordRuntimeInput, BindPlan, Verify, Feedback, CurrentTask, UserCommand
<1>2. /\ Sane(tasks[t], executions[t], session) /\ tasks[t].attempt \in Attempts
      /\ tasks[t] \in Tasks /\ tasks[t] # NoTask /\ ctx = session.epoch
      /\ executions[t] \in [Attempts -> Executions \cup {NoExecution}]
  BY <1>1, TaskFacts DEF Owner, Exists
<1>3. tasks[t].state \in {"CANCELLED", "WAITING_INPUT", "PAUSED"} => \A k \in Attempts : ~IsOpen(t, k)
  BY <1>2 DEF Sane, IsOpen, Allocated
<1>4. CASE RecordRuntimeInput(t, ctx)
  <2> DEFINE v == [tasks[t] EXCEPT !.input = ctx]
  <2>1. v \in Tasks /\ v.attempt = tasks[t].attempt /\ v.born = tasks[t].born
        /\ v.epoch = tasks[t].epoch /\ v.state = "READY"
    BY <1>2, <1>4 DEF Tasks, RecordRuntimeInput
  <2>2. tasks' = [tasks EXCEPT ![t] = v] /\ UNCHANGED <<session, executions>>
    BY <1>2, <1>4 DEF RecordRuntimeInput, Inductive, TypeOK
  <2>3. v.born = v.epoch
    BY <1>2, <1>4, <2>1 DEF RecordRuntimeInput, Sane
  <2> HIDE DEF v
  <2> QED BY <1>1, <2>1, <2>2, <2>3, VersionKeeps DEF Verified
<1>5. CASE BindPlan(t, ctx)
  <2> DEFINE v == [tasks[t] EXCEPT !.plan = "bound"]
  <2>1. v \in Tasks /\ v.attempt = tasks[t].attempt /\ v.born = tasks[t].born
        /\ v.epoch = tasks[t].epoch /\ v.state = "READY"
    BY <1>2, <1>5 DEF Tasks, BindPlan
  <2>2. tasks' = [tasks EXCEPT ![t] = v] /\ UNCHANGED <<session, executions>>
    BY <1>2, <1>5 DEF BindPlan, Inductive, TypeOK
  <2>3. v.born = v.epoch
    BY <1>2, <1>5, <2>1 DEF BindPlan, Sane
  <2> HIDE DEF v
  <2> QED BY <1>1, <2>1, <2>2, <2>3, VersionKeeps DEF Verified
<1>6. CASE Verify(t, ctx)
  <2>1. PICK result \in Results(t) :
          Write(t, ctx, [tasks[t] EXCEPT !.state = result, !.plan = "used"])
    BY <1>6 DEF Verify
  <2> DEFINE v == [[tasks[t] EXCEPT !.state = result, !.plan = "used"] EXCEPT !.epoch = ctx]
  <2>2. tasks[t].state \in Terminal \cup {"VERIFYING"}
    BY <1>6 DEF Verify
  <2>3. result \in Terminal
    BY <2>1, <2>2 DEF Results, Terminal, Verified
  <2>4. v \in Tasks /\ v.attempt = tasks[t].attempt /\ v.born = tasks[t].born
        /\ v.epoch = ctx /\ v.state = result
    BY <1>2, <2>3 DEF Tasks
  <2>5. tasks' = [tasks EXCEPT ![t] = v] /\ UNCHANGED <<session, executions>>
    BY <1>6, <2>1 DEF Write, Verify
  <2>6. result = "CANCELLED" => tasks[t].state = "CANCELLED"
    BY <2>1 DEF Results, Verified
  <2>7. result \in Verified =>
          /\ Allocated(t, tasks[t].attempt) /\ Current(t).dispatched
    BY <1>6, <2>1, <2>2 DEF Verify, Results, Owned, Verified, Terminal
  <2> HIDE DEF v
  <2>8. result \notin {"READY", "WAITING_INPUT", "PAUSED", "VERIFYING"}
    BY <2>3 DEF Terminal, Verified
  <2> QED BY <1>1, <1>2, <1>3, <2>4, <2>5, <2>6, <2>7, <2>8, VersionKeeps
<1>7. CASE Feedback(t, ctx)
  <2> DEFINE v == [tasks[t] EXCEPT !.epoch = ctx]
  <2>1. tasks[t].state \in Terminal
    BY <1>7 DEF Feedback
  <2>2. v \in Tasks /\ v.attempt = tasks[t].attempt /\ v.born = tasks[t].born
        /\ v.epoch = ctx /\ v.state = tasks[t].state
    BY <1>2 DEF Tasks
  <2>3. tasks' = [tasks EXCEPT ![t] = v] /\ UNCHANGED <<session, executions>>
    BY <1>7 DEF Write, Feedback
  <2> HIDE DEF v
  <2>4. tasks[t].state \notin {"READY", "WAITING_INPUT", "PAUSED"}
    BY <2>1 DEF Terminal, Verified
  <2>5. tasks[t].state \in Verified \cup {"VERIFYING"} =>
          /\ Allocated(t, tasks[t].attempt)
          /\ ~Current(t).dispatched => tasks[t].state = "UNVERIFIABLE" /\ Current(t).state = "STOPPED"
    BY <1>2 DEF Sane, Allocated, Current
  <2> QED BY <1>1, <1>2, <1>3, <2>2, <2>3, <2>4, <2>5, VersionKeeps
<1> QED BY <1>4, <1>5, <1>6, <1>7

\* An execution is allocated for the current attempt, by the owner it was begun for.
LEMMA AllocateKeeps ==
  ASSUME Inductive, NEW t \in TaskIds, NEW ctx \in Epochs, AllocateExecution(t, ctx)
  PROVE  Inductive'
<1> DEFINE k == tasks[t].attempt
           e == [state |-> "ALLOCATED", epoch |-> ctx, dispatched |-> FALSE, lapsed |-> FALSE]
           runs == [executions[t] EXCEPT ![k] = e]
<1>1. /\ Owner(ctx) /\ Exists(t) /\ tasks[t].epoch = ctx /\ tasks[t].state = "READY"
      /\ executions' = [executions EXCEPT ![t][k] = e] /\ UNCHANGED <<session, tasks>>
  BY DEF AllocateExecution, CurrentTask
<1>2. /\ e \in Executions /\ e # NoExecution /\ e.state = "ALLOCATED" /\ e.epoch = ctx
      /\ k \in Attempts /\ k = tasks[t].attempt /\ tasks[t] # NoTask
      /\ executions[t] \in [Attempts -> Executions \cup {NoExecution}]
      /\ Sane(tasks[t], executions[t], session)
  BY <1>1, TaskFacts DEF Executions, NoExecution, Exists
<1>3. runs[k] = e /\ \A j \in Attempts : j # k => runs[j] = executions[t][j]
  BY <1>2
<1>4. "READY" \notin {"CANCELLED", "PAUSED", "WAITING_INPUT"} /\ "READY" \notin Verified \cup {"VERIFYING"}
  BY DEF Verified
<1> HIDE DEF e, k, runs
<1>5. tasks[t].born = ctx
  BY <1>1, <1>2 DEF Sane
<1>6. Sane(tasks[t], runs, session)
  BY <1>1, <1>2, <1>3, <1>4, <1>5 DEF Sane
<1>7. Sane(tasks[t], [executions[t] EXCEPT ![k] = e], session)
  BY <1>6 DEF runs
<1> QED BY <1>1, <1>2, <1>7, PutExecution

\* The operations on the current execution keep its owner and its dispatch.
LEMMA ExecutionStepKeeps ==
  ASSUME Inductive, NEW t \in TaskIds, NEW ctx \in Epochs,
         \/ MarkExecutionReady(t, ctx) \/ MarkExecutionDispatched(t, ctx)
         \/ ObserveExecutionBinding(t, ctx)
         \/ CloseExecution(t, ctx) \/ RecoverExecutionClose(t, ctx)
  PROVE  Inductive'
<1>1. Exists(t) /\ Allocated(t, tasks[t].attempt)
  BY DEF MarkExecutionReady, MarkExecutionDispatched, ObserveExecutionBinding,
         CloseExecution, RecoverExecutionClose, CanRecoverClose, Owned, CurrentTask, HasOpen, IsOpen
<1>2. Current(t) \in Executions
  BY <1>1, TaskFacts DEF Current, Allocated
<1>3. Current(t).state \in {"ALLOCATED", "READY", "BUSY"} => HasOpen(t)
  BY <1>1 DEF HasOpen, IsOpen, Current
<1>4. CASE MarkExecutionReady(t, ctx)
  <2> DEFINE e == [Current(t) EXCEPT !.state = "READY"]
  <2>1. Update(t, e) /\ HasOpen(t)
    BY <1>3, <1>4 DEF MarkExecutionReady
  <2>2. e \in Executions /\ e.epoch = Current(t).epoch /\ e.dispatched = Current(t).dispatched
    BY <1>2 DEF Executions
  <2> HIDE DEF e
  <2> QED BY <1>1, <2>1, <2>2, UpdateKeeps
<1>5. CASE MarkExecutionDispatched(t, ctx)
  <2> DEFINE e == [Current(t) EXCEPT !.state = "BUSY", !.dispatched = TRUE]
  <2>1. Update(t, e) /\ HasOpen(t)
    BY <1>3, <1>5 DEF MarkExecutionDispatched
  <2>2. e \in Executions /\ e.epoch = Current(t).epoch /\ e.dispatched
    BY <1>2 DEF Executions
  <2> HIDE DEF e
  <2> QED BY <1>1, <2>1, <2>2, UpdateKeeps
<1>6. CASE ObserveExecutionBinding(t, ctx)
  <2> DEFINE e == [Current(t) EXCEPT !.state = "DRAINING"]
  <2>1. Update(t, e) /\ HasOpen(t)
    BY <1>3, <1>6 DEF ObserveExecutionBinding
  <2>2. e \in Executions /\ e.epoch = Current(t).epoch /\ e.dispatched = Current(t).dispatched
    BY <1>2 DEF Executions
  <2> HIDE DEF e
  <2> QED BY <1>1, <2>1, <2>2, UpdateKeeps
<1>7. CASE CloseExecution(t, ctx) \/ RecoverExecutionClose(t, ctx)
  <2> DEFINE e == [Current(t) EXCEPT !.state = "STOPPED"]
  <2>1. Update(t, e)
    BY <1>7 DEF CloseExecution, RecoverExecutionClose
  <2>2. e \in Executions /\ e.epoch = Current(t).epoch
        /\ e.dispatched = Current(t).dispatched /\ e.state = "STOPPED"
    BY <1>2 DEF Executions
  <2> HIDE DEF e
  <2> QED BY <1>1, <2>1, <2>2, UpdateKeeps
<1> QED BY <1>4, <1>5, <1>6, <1>7

\* A lease lapses: no state, owner or dispatch changes.
LEMMA LapseKeeps ==
  ASSUME Inductive, NEW t \in TaskIds, NEW k \in Attempts, FenceLapses(t, k)
  PROVE  Inductive'
<1> DEFINE e == [executions[t][k] EXCEPT !.lapsed = TRUE]
<1>1. executions[t][k] \in Executions
  BY DEF Inductive, TypeOK, FenceLapses, Allocated
<1>2. executions' = [executions EXCEPT ![t][k] = e] /\ UNCHANGED <<session, tasks>>
  <2>1. executions' = [executions EXCEPT ![t][k].lapsed = TRUE]
    BY DEF FenceLapses
  <2> QED BY <2>1 DEF FenceLapses
<1>3. e \in Executions /\ e.epoch = executions[t][k].epoch
      /\ e.dispatched = executions[t][k].dispatched /\ e.state = executions[t][k].state
  BY <1>1 DEF Executions
<1>4. Allocated(t, k)
  BY DEF FenceLapses
<1> HIDE DEF e
<1> QED BY <1>2, <1>3, <1>4, ExecutionKeeps DEF IsOpen

\* A new owner: every attempt was begun for an earlier one.
LEMMA RestartKeeps ==
  ASSUME Inductive, FenceRestartedOwners
  PROVE  Inductive'
<1>1. /\ session' = [epoch |-> session.epoch + 1, unauthorized |-> TRUE]
      /\ session.epoch \in Epochs /\ session.epoch < MaxEpoch /\ UNCHANGED <<tasks, executions>>
  BY DEF FenceRestartedOwners, Inductive, TypeOK, Sessions
<1>2. session' \in Sessions
  BY <1>1 DEF Sessions
<1>3. TypeOK'
  BY <1>1, <1>2 DEF Inductive, TypeOK
<1>4. ASSUME NEW u \in TaskIds
      PROVE  Sane(tasks[u], executions[u], session')
  <2>1. Sane(tasks[u], executions[u], session)
    BY DEF Inductive
  <2>2. tasks[u] # NoTask => tasks[u].born \in Epochs /\ tasks[u].epoch \in Epochs
    BY TaskFacts DEF Exists, Tasks
  <2>3. session'.epoch = session.epoch + 1
    BY <1>1
  <2>4. tasks[u] # NoTask => tasks[u].epoch <= session'.epoch /\ tasks[u].born # session'.epoch
    BY <1>1, <2>1, <2>2, <2>3 DEF Sane
  <2> QED BY <2>1, <2>4 DEF Sane
<1> QED BY <1>1, <1>3, <1>4 DEF Inductive

\* No step breaks the invariant.
LEMMA StepKeeps ==
  ASSUME Inductive, [Next]_vars
  PROVE  Inductive'
<1>1. CASE UNCHANGED vars
  BY <1>1 DEF vars, Inductive, TypeOK, Sane
<1>2. ASSUME NEW t \in TaskIds, NEW ctx \in Epochs, Step(t, ctx)
      PROVE  Inductive'
  BY <1>2, UserStepKeeps, RuntimeStepKeeps, RecordStepKeeps, AllocateKeeps, ExecutionStepKeeps DEF Step
<1> QED BY <1>1, <1>2, LapseKeeps, RestartKeeps DEF Next

\* Inductive is an invariant of TaskSession, for every set of tasks and all bounds.
THEOREM Invariance == Spec => []Inductive
<1>1. Init => Inductive
  BY DEF Init, Inductive, TypeOK, Sessions, Sane, NoTask, NoExecution
<1>2. Inductive /\ [Next]_vars => Inductive'
  BY StepKeeps
<1> QED BY <1>1, <1>2, PTL DEF Spec
-----------------------------------------------------------------------------
(* The properties of the runs.                                             *)

\* Every row keeps the columns and ranges of its table.
THEOREM TypeCorrect == Spec => []TypeOK
<1>1. Inductive => TypeOK
  BY DEF Inductive
<1> QED BY <1>1, Invariance, PTL

\* A task that is reported stopped, or is worked on again, has no worker left behind.
THEOREM StoppedTasksHaveNoWorker == Spec => []StoppedMeansStopped
<1>1. Inductive => StoppedMeansStopped
  BY DEF Inductive, Sane, StoppedMeansStopped, IsOpen, Allocated, Exists
<1> QED BY <1>1, Invariance, PTL

\* After a restart, no attempt of an earlier owner is worked on before a user asks again.
THEOREM NoWorkWithoutReauthorization == Spec => []WorkIsReauthorized
<1>1. ASSUME Inductive, NEW t \in TaskIds, NEW k \in Attempts,
             IsOpen(t, k), executions[t][k].epoch = session.epoch
      PROVE  ~session.unauthorized /\ Exists(t) /\ tasks[t].born = session.epoch
  BY <1>1, OpenIsLatest DEF Inductive, Sane, IsOpen, Allocated, Exists
<1>2. Inductive => WorkIsReauthorized
  BY <1>1 DEF WorkIsReauthorized
<1> QED BY <1>2, Invariance, PTL

\* A verified result is of work that was dispatched for that very attempt.
THEOREM ResultsNeedWork == Spec => []ResultsAreWorkedFor
<1>1. Inductive => ResultsAreWorkedFor
  BY DEF Inductive, Sane, ResultsAreWorkedFor, Current, Allocated, HasClosed, HasOpen, IsOpen, Exists
<1> QED BY <1>1, Invariance, PTL
-----------------------------------------------------------------------------
(* What a step may never do.                                               *)

\* A fenced or closed execution changes, if at all, by its close.
LEMMA FencedStep ==
  ASSUME Inductive, Next, NEW t \in TaskIds, NEW k \in Attempts,
         Allocated(t, k), executions[t][k].epoch < session.epoch \/ ~IsOpen(t, k)
  PROVE  /\ executions'[t][k].epoch = executions[t][k].epoch
         /\ executions'[t][k].dispatched = executions[t][k].dispatched
         /\ executions'[t][k].state # executions[t][k].state =>
              IsOpen(t, k) /\ executions'[t][k].state = "STOPPED"
<1> DEFINE Kept == /\ executions'[t][k].epoch = executions[t][k].epoch
                   /\ executions'[t][k].dispatched = executions[t][k].dispatched
                   /\ executions'[t][k].state # executions[t][k].state =>
                        IsOpen(t, k) /\ executions'[t][k].state = "STOPPED"
<1>1. /\ executions \in [TaskIds -> [Attempts -> Executions \cup {NoExecution}]]
      /\ executions[t][k] \in Executions /\ executions[t][k].epoch \in Epochs
      /\ session.epoch \in Epochs
  BY DEF Inductive, TypeOK, Allocated, Executions, Sessions
<1>2. CASE UNCHANGED executions
  BY <1>2
<1>3. ASSUME NEW u \in TaskIds, NEW ctx \in Epochs, Exists(u), Owner(ctx),
             Current(u).epoch = ctx, HasOpen(u), NEW e, Update(u, e)
      PROVE  Kept
  <2>1. ~(u = t /\ tasks[u].attempt = k)
    BY <1>1, <1>3 DEF Owner, HasOpen, Current
  <2>2. executions'[t][k] = executions[t][k]
    BY <1>1, <1>3, <2>1 DEF Update
  <2> QED BY <2>2
<1>4. ASSUME NEW u \in TaskIds, Exists(u), HasOpen(u),
             Update(u, [Current(u) EXCEPT !.state = "STOPPED"])
      PROVE  Kept
  <2>1. CASE u = t /\ tasks[u].attempt = k
    <3>1. executions'[t][k] = [executions[t][k] EXCEPT !.state = "STOPPED"]
      BY <1>1, <1>4, <2>1 DEF Update, Current
    <3> QED BY <1>1, <1>4, <2>1, <3>1 DEF HasOpen, Executions
  <2>2. CASE ~(u = t /\ tasks[u].attempt = k)
    <3>1. executions'[t][k] = executions[t][k]
      BY <1>1, <1>4, <2>2 DEF Update
    <3> QED BY <3>1
  <2> QED BY <2>1, <2>2
<1>5. ASSUME NEW u \in TaskIds, NEW ctx \in Epochs, Step(u, ctx)
      PROVE  Kept
  <2>1. CASE \/ Create(u, ctx) \/ Cancel(u, ctx) \/ Pause(u, ctx) \/ Retry(u, ctx)
             \/ Continue(u, ctx) \/ Revise(u, ctx) \/ Respond(u, ctx)
             \/ CognitiveWait(u, ctx) \/ Start(u, ctx) \/ ConfirmStop(u, ctx)
             \/ ConfirmPause(u, ctx) \/ Interrupted(u, ctx) \/ IngestSettled(u, ctx)
             \/ RecordRuntimeInput(u, ctx) \/ BindPlan(u, ctx) \/ Verify(u, ctx) \/ Feedback(u, ctx)
    BY <1>2, <2>1 DEF Create, Cancel, Pause, Retry, Continue, Revise, Respond, CognitiveWait,
         Start, ConfirmStop, ConfirmPause, Interrupted, IngestSettled, RecordRuntimeInput,
         BindPlan, Verify, Feedback, Change, BeginAttempt
  <2>2. CASE AllocateExecution(u, ctx)
    <3>1. ~(u = t /\ tasks[u].attempt = k)
      BY <2>2 DEF AllocateExecution
    <3>2. executions'[t][k] = executions[t][k]
      BY <1>1, <2>2, <3>1 DEF AllocateExecution
    <3> QED BY <3>2
  <2>3. CASE MarkExecutionReady(u, ctx) \/ MarkExecutionDispatched(u, ctx)
             \/ ObserveExecutionBinding(u, ctx)
    <3>1. Owner(ctx) /\ Exists(u) /\ Current(u).epoch = ctx /\ HasOpen(u)
      BY <2>3 DEF MarkExecutionReady, MarkExecutionDispatched, ObserveExecutionBinding, Owned,
                  CurrentTask, Current, HasOpen, IsOpen
    <3> QED BY <1>3, <2>3, <3>1
            DEF MarkExecutionReady, MarkExecutionDispatched, ObserveExecutionBinding
  <2>4. CASE CloseExecution(u, ctx) \/ RecoverExecutionClose(u, ctx)
    BY <1>4, <2>4 DEF CloseExecution, RecoverExecutionClose, CanRecoverClose, Owned, CurrentTask
  <2> QED BY <1>5, <2>1, <2>2, <2>3, <2>4 DEF Step
<1>6. ASSUME NEW u \in TaskIds, NEW j \in Attempts, FenceLapses(u, j)
      PROVE  Kept
  <2>1. executions' = [executions EXCEPT ![u][j].lapsed = TRUE]
    BY <1>6 DEF FenceLapses
  <2>2. executions'[t][k] \in {executions[t][k], [executions[t][k] EXCEPT !.lapsed = TRUE]}
    BY <1>1, <2>1
  <2> QED BY <1>1, <2>2 DEF Executions
<1>7. FenceRestartedOwners => Kept
  BY <1>2 DEF FenceRestartedOwners
<1> QED BY <1>5, <1>6, <1>7 DEF Next

\* Owner fencing: an execution of an earlier owner can only be closed, by no matter whom.
THEOREM FencingHolds == Spec => FencedExecutionsOnlyClose
<1> DEFINE A == \A t \in TaskIds, k \in Attempts :
       Allocated(t, k) /\ (executions[t][k].epoch < session.epoch \/ ~IsOpen(t, k)) =>
         LET old == executions[t][k]  new == executions'[t][k] IN
         /\ new.epoch = old.epoch /\ new.dispatched = old.dispatched
         /\ new.state # old.state => IsOpen(t, k) /\ new.state = "STOPPED"
<1>1. Inductive /\ [Next]_vars => [A]_vars
  BY FencedStep
<1> QED BY <1>1, Invariance, PTL DEF Spec, FencedExecutionsOnlyClose

\* An attempt that is being cancelled moves only to CANCELLED, once its worker is closed.
LEMMA CancellingStep ==
  ASSUME Inductive, Next, NEW t \in TaskIds, tasks[t].state = "CANCELLING", tasks'[t] # tasks[t]
  PROVE  tasks'[t].state = "CANCELLED" /\ HasClosed(t)
<1>1. tasks \in [TaskIds -> Tasks \cup {NoTask}] /\ tasks[t] # NoTask
  BY DEF Inductive, TypeOK, NoTask
<1>2. ASSUME NEW u \in TaskIds, NEW ctx \in Epochs, Step(u, ctx)
      PROVE  tasks'[t].state = "CANCELLED" /\ HasClosed(t)
  <2>1. UNCHANGED tasks \/ \E v : tasks' = [tasks EXCEPT ![u] = v]
    BY <1>2 DEF Step, Create, Cancel, Pause, Retry, Continue, Revise, Respond, CognitiveWait,
         Start, ConfirmStop, ConfirmPause, Interrupted, RecordRuntimeInput, AllocateExecution,
         MarkExecutionReady, MarkExecutionDispatched, ObserveExecutionBinding, IngestSettled,
         CloseExecution, RecoverExecutionClose, BindPlan, Verify, Feedback,
         Update, Change, Enter, Write, BeginAttempt
  <2>2. u = t
    BY <1>1, <2>1
  <2>3. ~\/ Create(t, ctx) \/ Cancel(t, ctx) \/ Pause(t, ctx) \/ Retry(t, ctx)
         \/ Continue(t, ctx) \/ Revise(t, ctx) \/ Respond(t, ctx)
         \/ CognitiveWait(t, ctx) \/ Start(t, ctx) \/ ConfirmPause(t, ctx) \/ Interrupted(t, ctx)
         \/ RecordRuntimeInput(t, ctx) \/ IngestSettled(t, ctx)
         \/ BindPlan(t, ctx) \/ Verify(t, ctx) \/ Feedback(t, ctx)
    BY <1>1 DEF Create, Cancel, Pause, Retry, Continue, Revise, Respond, CognitiveWait, Start,
         ConfirmPause, Interrupted, RecordRuntimeInput, IngestSettled, BindPlan, Verify, Feedback,
         Exists, Terminal, Verified
  <2>4. ~\/ AllocateExecution(t, ctx)
         \/ MarkExecutionReady(t, ctx) \/ MarkExecutionDispatched(t, ctx)
         \/ ObserveExecutionBinding(t, ctx) \/ CloseExecution(t, ctx) \/ RecoverExecutionClose(t, ctx)
    BY DEF AllocateExecution, MarkExecutionReady, MarkExecutionDispatched,
         ObserveExecutionBinding, CloseExecution, RecoverExecutionClose, Update
  <2>5. ConfirmStop(t, ctx)
    BY <1>2, <2>2, <2>3, <2>4 DEF Step
  <2> QED BY <1>1, <2>5 DEF ConfirmStop, Change, Enter, Write, Exists, Tasks
<1>3. ~(\E u \in TaskIds, k \in Attempts : FenceLapses(u, k)) /\ ~FenceRestartedOwners
  BY DEF FenceLapses, FenceRestartedOwners
<1> QED BY <1>2, <1>3 DEF Next

\* A late result never overtakes a cancellation, and the cancellation waits for the worker.
THEOREM CancellationHolds == Spec => CancellationWaitsForClose
<1> DEFINE A == \A t \in TaskIds : tasks[t].state = "CANCELLING" /\ tasks'[t] # tasks[t] =>
                  tasks'[t].state = "CANCELLED" /\ HasClosed(t)
<1>1. Inductive /\ [Next]_vars => [A]_vars
  BY CancellingStep
<1> QED BY <1>1, Invariance, PTL DEF Spec, CancellationWaitsForClose
-----------------------------------------------------------------------------
(* TaskSession implements ExecutionCustody.                                *)

\* A transaction that writes a version leaves the executions' part alone, and its task's
\* rest is that of the version written.
LEMMA WriteMaps ==
  ASSUME Inductive, NEW t \in TaskIds, NEW v, tasks' = [tasks EXCEPT ![t] = v],
         UNCHANGED executions
  PROVE  /\ Begun' = Begun /\ Held' = Held
         /\ Resting' = [Resting EXCEPT ![t] = v.state \in {"CANCELLED", "PAUSED"}]
<1>1. Begun' = Begun /\ Held' = Held
  BY DEF Begun, Held, Allocated, IsOpen
<1>2. \A u \in TaskIds : tasks'[u] = IF u = t THEN v ELSE tasks[u]
  BY DEF Inductive, TypeOK
<1>3. Resting' = [Resting EXCEPT ![t] = v.state \in {"CANCELLED", "PAUSED"}]
  <2> DEFINE r == v.state \in {"CANCELLED", "PAUSED"}
  <2>1. /\ Resting = [u \in TaskIds |-> Resting[u]]
        /\ Resting' = [u \in TaskIds |-> Resting'[u]]
    BY DEF Resting
  <2>2. \A u \in TaskIds : Resting'[u] = IF u = t THEN r ELSE Resting[u]
    <3> SUFFICES ASSUME NEW u \in TaskIds
                 PROVE  Resting'[u] = IF u = t THEN r ELSE Resting[u]
      OBVIOUS
    <3>1. Resting'[u] = (tasks'[u].state \in {"CANCELLED", "PAUSED"})
      BY Zenon DEF Resting
    <3>2. Resting[u] = (tasks[u].state \in {"CANCELLED", "PAUSED"})
      BY Zenon DEF Resting
    <3>3. CASE u = t
      <4>1. tasks'[u] = v
        BY <1>2, <3>3
      <4> QED BY <3>1, <3>3, <4>1, Zenon
    <3>4. CASE u # t
      <4>1. tasks'[u] = tasks[u]
        BY <1>2, <3>4
      <4> QED BY <3>1, <3>2, <3>4, <4>1, Zenon
    <3> QED BY <3>3, <3>4
  <2> HIDE DEF r
  <2>3. Resting' = [Resting EXCEPT ![t] = r]
    BY <2>1, <2>2
  <2> QED BY <2>3 DEF r
<1> QED BY <1>1, <1>3

\* A version that is as much at rest as the last one is no step of the custody.
LEMMA SameRest ==
  ASSUME Inductive, NEW t \in TaskIds, NEW v, tasks' = [tasks EXCEPT ![t] = v],
         UNCHANGED <<session, executions>>,
         v.state \in {"CANCELLED", "PAUSED"} <=> tasks[t].state \in {"CANCELLED", "PAUSED"}
  PROVE  UNCHANGED Custody!custody
<1>1. Begun' = Begun /\ Held' = Held
      /\ Resting' = [Resting EXCEPT ![t] = v.state \in {"CANCELLED", "PAUSED"}]
  BY WriteMaps
<1>2. Resting[t] = (v.state \in {"CANCELLED", "PAUSED"})
  BY DEF Resting
<1>3. Resting' = Resting
  BY <1>1, <1>2 DEF Resting
<1> QED BY <1>1, <1>3 DEF Custody!custody

\* A user's command that begins an attempt authorizes the owner and ends the rest.
LEMMA BeginMaps ==
  ASSUME Inductive, NEW t \in TaskIds, NEW v, tasks' = [tasks EXCEPT ![t] = v],
         v.state = "READY", UNCHANGED executions,
         session' = [session EXCEPT !.unauthorized = FALSE]
  PROVE  Custody!Authorize
<1>1. session'.epoch = session.epoch /\ (~session'.unauthorized) = TRUE
  BY DEF Inductive, TypeOK, Sessions
<1>2. Begun' = Begun /\ Held' = Held /\ Resting' = [Resting EXCEPT ![t] = FALSE]
  <2> DEFINE r == v.state \in {"CANCELLED", "PAUSED"}
  <2>1. Begun' = Begun /\ Held' = Held /\ Resting' = [Resting EXCEPT ![t] = r]
    BY WriteMaps
  <2>2. r = FALSE
    OBVIOUS
  <2> HIDE DEF r
  <2> QED BY <2>1, <2>2
<1> QED BY <1>1, <1>2 DEF Custody!Authorize

\* A task comes to rest only when no worker of it is left.
LEMMA RestMaps ==
  ASSUME Inductive, NEW t \in TaskIds, NEW v, tasks' = [tasks EXCEPT ![t] = v],
         v.state \in {"CANCELLED", "PAUSED"}, UNCHANGED <<session, executions>>,
         \A k \in Attempts : ~IsOpen(t, k), tasks[t].state \notin {"CANCELLED", "PAUSED"}
  PROVE  Custody!Rest(t)
<1>1. Begun' = Begun /\ Held' = Held /\ Resting' = [Resting EXCEPT ![t] = TRUE]
  BY WriteMaps
<1>2. ~Resting[t] /\ Held[t] = {}
  BY DEF Resting, Held
<1> QED BY <1>1, <1>2 DEF Custody!Rest

\* An execution that keeps its owner and stays open is no step of the custody.
LEMMA SameCustody ==
  ASSUME Inductive, NEW t \in TaskIds, NEW k \in Attempts, NEW e \in Executions, Allocated(t, k),
         executions' = [executions EXCEPT ![t][k] = e], UNCHANGED <<session, tasks>>,
         e.epoch = executions[t][k].epoch, e.state # "STOPPED" <=> IsOpen(t, k)
  PROVE  UNCHANGED Custody!custody
<1>1. \A u \in TaskIds, j \in Attempts :
        executions'[u][j] = IF u = t /\ j = k THEN e ELSE executions[u][j]
  BY DEF Inductive, TypeOK
<1>2. e # NoExecution
  BY DEF Executions, NoExecution
<1>3. \A u \in TaskIds, j \in Attempts :
        /\ Allocated(u, j)' <=> Allocated(u, j)
        /\ IsOpen(u, j)' <=> IsOpen(u, j)
        /\ executions'[u][j].epoch = executions[u][j].epoch
  BY <1>1, <1>2 DEF Allocated, IsOpen
<1>4. Begun' = Begun
  BY <1>3 DEF Begun
<1>5. \A u \in TaskIds : {j \in Attempts : IsOpen(u, j)}' = {j \in Attempts : IsOpen(u, j)}
  BY <1>3
<1>6. \A u \in TaskIds :
        {<<j, executions'[u][j].epoch>> : j \in {i \in Attempts : IsOpen(u, i)}'}
          = {<<j, executions[u][j].epoch>> : j \in {i \in Attempts : IsOpen(u, i)}}
  BY <1>3, <1>5
<1>7. Held' = Held
  BY <1>6 DEF Held
<1> QED BY <1>4, <1>7 DEF Custody!custody, Resting

\* A close gives the only unclosed execution up.
LEMMA CloseMaps ==
  ASSUME Inductive, NEW t \in TaskIds, NEW k \in Attempts, IsOpen(t, k),
         executions' = [executions EXCEPT ![t][k] = [executions[t][k] EXCEPT !.state = "STOPPED"]],
         UNCHANGED <<session, tasks>>
  PROVE  Custody!Release(t)
<1> DEFINE e == [executions[t][k] EXCEPT !.state = "STOPPED"]
<1>1. /\ executions[t][k] \in Executions
      /\ \A u \in TaskIds, j \in Attempts :
           executions'[u][j] = IF u = t /\ j = k THEN e ELSE executions[u][j]
  BY DEF Inductive, TypeOK, IsOpen, Allocated
<1>2. e # NoExecution /\ e.state = "STOPPED"
  BY <1>1 DEF Executions, NoExecution
<1> HIDE DEF e
<1>3. \A u \in TaskIds, j \in Attempts : Allocated(u, j)' <=> Allocated(u, j)
  BY <1>1, <1>2 DEF Allocated, IsOpen
<1>4. Begun' = Begun
  BY <1>3 DEF Begun
<1>5. \A j \in Attempts : ~IsOpen(t, j)'
  BY <1>1, <1>2, OpenIsLatest DEF IsOpen, Allocated
<1>6. Held'[t] = {}
  BY <1>5 DEF Held
<1>7. \A u \in TaskIds : u # t => Held'[u] = Held[u]
  BY <1>1 DEF Held, IsOpen, Allocated
<1>8. Held' = [Held EXCEPT ![t] = {}]
  BY <1>6, <1>7 DEF Held
<1>9. Held[t] # {}
  BY DEF Held
<1> QED BY <1>4, <1>8, <1>9 DEF Custody!Release, Resting

\* An allocation begins the current attempt: later than any other, and alone.
LEMMA AllocateMaps ==
  ASSUME Inductive, NEW t \in TaskIds, NEW ctx \in Epochs, AllocateExecution(t, ctx)
  PROVE  Custody!Begin(t, tasks[t].attempt)
<1> DEFINE k == tasks[t].attempt
           e == [state |-> "ALLOCATED", epoch |-> ctx, dispatched |-> FALSE, lapsed |-> FALSE]
<1>1. /\ Owner(ctx) /\ Exists(t) /\ tasks[t].state = "READY" /\ ~session.unauthorized
      /\ ~Allocated(t, k) /\ ctx = session.epoch
      /\ executions' = [executions EXCEPT ![t][k] = e] /\ UNCHANGED <<session, tasks>>
  BY DEF AllocateExecution, CurrentTask, Fenced, Owner
<1>2. k \in Attempts /\ Sane(tasks[t], executions[t], session)
  BY <1>1, TaskFacts
<1>3. \A u \in TaskIds, j \in Attempts :
        executions'[u][j] = IF u = t /\ j = k THEN e ELSE executions[u][j]
  BY <1>1, <1>2 DEF Inductive, TypeOK
<1>4. e # NoExecution /\ e.state # "STOPPED" /\ e.epoch = session.epoch
  BY <1>1 DEF NoExecution
<1>5. \A j \in Attempts : ~IsOpen(t, j)
  BY <1>1, OpenIsLatest DEF IsOpen
<1>6. Held[t] = {} /\ ~Resting[t]
  BY <1>1, <1>5 DEF Held, Resting
<1>7. \A j \in Begun[t] : j < k
  <2>1. ASSUME NEW j \in Attempts, Allocated(t, j)
        PROVE  j <= k /\ j # k
    BY <1>1, <1>2, <2>1 DEF Sane, Allocated
  <2> QED BY <1>2, <2>1 DEF Begun
<1> HIDE DEF e
<1>8. Begun' = [Begun EXCEPT ![t] = @ \cup {k}]
  <2>1. \A u \in TaskIds, j \in Attempts : Allocated(u, j)' <=> Allocated(u, j) \/ (u = t /\ j = k)
    BY <1>3, <1>4 DEF Allocated
  <2>2. \A u \in TaskIds : Begun'[u] = IF u = t THEN Begun[u] \cup {k} ELSE Begun[u]
    BY <1>2, <2>1 DEF Begun
  <2> QED BY <2>2 DEF Begun
<1>9. Held' = [Held EXCEPT ![t] = {<<k, session.epoch>>}]
  <2>1. \A j \in Attempts : IsOpen(t, j)' <=> j = k
    BY <1>2, <1>3, <1>4, <1>5 DEF IsOpen, Allocated
  <2>2. executions'[t][k].epoch = session.epoch
    BY <1>2, <1>3, <1>4
  <2>3. Held'[t] = {<<k, session.epoch>>}
    BY <1>2, <2>1, <2>2 DEF Held
  <2>4. \A u \in TaskIds : u # t => Held'[u] = Held[u]
    BY <1>3 DEF Held, IsOpen, Allocated
  <2> QED BY <2>3, <2>4 DEF Held
<1> QED BY <1>1, <1>6, <1>7, <1>8, <1>9 DEF Custody!Begin, Resting

\* The commands of users and of the runtime, as the custody sees them.
LEMMA CommandMaps ==
  ASSUME Inductive, NEW t \in TaskIds, NEW ctx \in Epochs,
         \/ Create(t, ctx) \/ Cancel(t, ctx) \/ Pause(t, ctx) \/ Retry(t, ctx)
         \/ Continue(t, ctx) \/ Revise(t, ctx) \/ Respond(t, ctx)
         \/ CognitiveWait(t, ctx) \/ Start(t, ctx) \/ ConfirmStop(t, ctx)
         \/ ConfirmPause(t, ctx) \/ Interrupted(t, ctx) \/ IngestSettled(t, ctx)
  PROVE  Custody!Authorize \/ Custody!Rest(t) \/ UNCHANGED Custody!custody
<1>1. tasks[t] # NoTask => tasks[t] \in Tasks
  BY DEF Inductive, TypeOK
<1>2. ASSUME BeginAttempt(t, ctx) PROVE Custody!Authorize
  <2> DEFINE v == FirstVersion(tasks[t].attempt + 1, ctx)
  <2>1. /\ tasks' = [tasks EXCEPT ![t] = v] /\ v.state = "READY" /\ UNCHANGED executions
        /\ session' = [session EXCEPT !.unauthorized = FALSE]
    BY <1>2 DEF BeginAttempt, FirstVersion
  <2> HIDE DEF v
  <2> QED BY <2>1, BeginMaps
<1>3. ASSUME NEW state, Exists(t), Change(t, ctx, state),
             state \in {"CANCELLED", "PAUSED"} <=> tasks[t].state \in {"CANCELLED", "PAUSED"}
      PROVE  UNCHANGED Custody!custody
  <2> DEFINE v == [[tasks[t] EXCEPT !.state = state, !.pausing = FALSE] EXCEPT !.epoch = ctx]
  <2>1. tasks' = [tasks EXCEPT ![t] = v] /\ UNCHANGED <<session, executions>>
    BY <1>3 DEF Change, Enter, Write
  <2>2. v.state = state
    BY <1>1, <1>3 DEF Exists, Tasks
  <2> HIDE DEF v
  <2> QED BY <1>3, <2>1, <2>2, SameRest
<1>4. ASSUME NEW state \in {"CANCELLED", "PAUSED"}, Exists(t), Change(t, ctx, state),
             \A k \in Attempts : ~IsOpen(t, k)
      PROVE  Custody!Rest(t) \/ UNCHANGED Custody!custody
  <2>1. CASE tasks[t].state \in {"CANCELLED", "PAUSED"}
    BY <1>3, <1>4, <2>1
  <2>2. CASE tasks[t].state \notin {"CANCELLED", "PAUSED"}
    <3> DEFINE v == [[tasks[t] EXCEPT !.state = state, !.pausing = FALSE] EXCEPT !.epoch = ctx]
    <3>1. tasks' = [tasks EXCEPT ![t] = v] /\ UNCHANGED <<session, executions>>
      BY <1>4 DEF Change, Enter, Write
    <3>2. v.state = state
      BY <1>1, <1>4 DEF Exists, Tasks
    <3> HIDE DEF v
    <3> QED BY <1>4, <2>2, <3>1, <3>2, RestMaps
  <2> QED BY <2>1, <2>2
<1>5. HasClosed(t) /\ Exists(t) => \A k \in Attempts : ~IsOpen(t, k)
  BY OpenIsLatest DEF HasClosed, HasOpen
<1>6. CASE Create(t, ctx)
  <2> DEFINE v == FirstVersion(1, ctx)
  <2>1. /\ tasks' = [tasks EXCEPT ![t] = v] /\ v.state = "READY" /\ UNCHANGED executions
        /\ session' = [session EXCEPT !.unauthorized = FALSE]
    BY <1>6 DEF Create, FirstVersion
  <2> HIDE DEF v
  <2> QED BY <2>1, BeginMaps
<1>7. CASE Cancel(t, ctx)
  <2>1. Exists(t)
    BY <1>7 DEF Cancel, UserCommand
  <2>2. CASE OpenLatest(t)
    <3>1. PICK k \in Attempts : IsOpen(t, k)
      BY <2>2 DEF OpenLatest, LatestExecution
    <3>2. tasks[t].state \notin {"CANCELLED", "PAUSED"}
      BY <3>1 DEF Inductive, Sane, IsOpen, Allocated
    <3>3. Change(t, ctx, "CANCELLING")
      BY <1>7, <2>2 DEF Cancel
    <3> QED BY <1>3, <2>1, <3>2, <3>3
  <2>3. CASE ~OpenLatest(t)
    <3>1. Change(t, ctx, "CANCELLED") /\ \A k \in Attempts : ~IsOpen(t, k)
      BY <1>7, <2>3, OpenIsLatest DEF Cancel
    <3> QED BY <1>4, <2>1, <3>1
  <2> QED BY <2>2, <2>3
<1>8. CASE Pause(t, ctx)
  <2> DEFINE v == [[tasks[t] EXCEPT !.pausing = TRUE] EXCEPT !.epoch = ctx]
  <2>1. tasks' = [tasks EXCEPT ![t] = v] /\ UNCHANGED <<session, executions>>
        /\ tasks[t].state = "RUNNING" /\ Exists(t)
    BY <1>8 DEF Pause, Write, UserCommand
  <2>2. v.state = tasks[t].state
    BY <1>1, <2>1 DEF Exists, Tasks
  <2> HIDE DEF v
  <2> QED BY <2>1, <2>2, SameRest
<1>9. CASE Retry(t, ctx) \/ Continue(t, ctx) \/ Revise(t, ctx)
  BY <1>2, <1>9 DEF Retry, Continue, Revise
<1>10. CASE Respond(t, ctx)
  BY <1>2, <1>3, <1>10 DEF Respond, UserCommand
<1>11. CASE CognitiveWait(t, ctx) \/ Start(t, ctx) \/ IngestSettled(t, ctx)
  BY <1>3, <1>11 DEF CognitiveWait, Start, IngestSettled, Owned, CurrentTask
<1>12. CASE ConfirmStop(t, ctx) \/ ConfirmPause(t, ctx)
  BY <1>4, <1>5, <1>12 DEF ConfirmStop, ConfirmPause
<1>13. CASE Interrupted(t, ctx)
  BY <1>3, <1>13 DEF Interrupted
<1> QED BY <1>6, <1>7, <1>8, <1>9, <1>10, <1>11, <1>12, <1>13

\* Records of inputs, plans and results do not touch the custody.
LEMMA RecordMaps ==
  ASSUME Inductive, NEW t \in TaskIds, NEW ctx \in Epochs,
         \/ RecordRuntimeInput(t, ctx) \/ BindPlan(t, ctx) \/ Verify(t, ctx) \/ Feedback(t, ctx)
  PROVE  UNCHANGED Custody!custody
<1>1. tasks[t] \in Tasks
  BY DEF RecordRuntimeInput, BindPlan, Verify, Feedback, CurrentTask, UserCommand, Exists,
         Inductive, TypeOK
<1>2. ASSUME NEW v, tasks' = [tasks EXCEPT ![t] = v], UNCHANGED <<session, executions>>,
             v.state = tasks[t].state
      PROVE  UNCHANGED Custody!custody
  BY <1>2, SameRest
<1>3. CASE RecordRuntimeInput(t, ctx)
  <2> DEFINE v == [tasks[t] EXCEPT !.input = ctx]
  <2>1. tasks' = [tasks EXCEPT ![t] = v] /\ UNCHANGED <<session, executions>>
    BY <1>3 DEF RecordRuntimeInput, Inductive, TypeOK
  <2>2. v.state = tasks[t].state
    BY <1>1 DEF Tasks
  <2> HIDE DEF v
  <2> QED BY <1>2, <2>1, <2>2
<1>4. CASE BindPlan(t, ctx)
  <2> DEFINE v == [tasks[t] EXCEPT !.plan = "bound"]
  <2>1. tasks' = [tasks EXCEPT ![t] = v] /\ UNCHANGED <<session, executions>>
    BY <1>4 DEF BindPlan, Inductive, TypeOK
  <2>2. v.state = tasks[t].state
    BY <1>1 DEF Tasks
  <2> HIDE DEF v
  <2> QED BY <1>2, <2>1, <2>2
<1>5. CASE Verify(t, ctx)
  <2>1. PICK result \in Results(t) :
          Write(t, ctx, [tasks[t] EXCEPT !.state = result, !.plan = "used"])
    BY <1>5 DEF Verify
  <2> DEFINE v == [[tasks[t] EXCEPT !.state = result, !.plan = "used"] EXCEPT !.epoch = ctx]
  <2>2. tasks' = [tasks EXCEPT ![t] = v] /\ UNCHANGED <<session, executions>>
    BY <1>5, <2>1 DEF Write, Verify
  <2>3. v.state = result
    BY <1>1 DEF Tasks
  <2>4. result \in {"CANCELLED", "PAUSED"} <=> tasks[t].state \in {"CANCELLED", "PAUSED"}
    BY <2>1 DEF Results, Verified
  <2> HIDE DEF v
  <2> QED BY <2>2, <2>3, <2>4, SameRest
<1>6. CASE Feedback(t, ctx)
  <2> DEFINE v == [tasks[t] EXCEPT !.epoch = ctx]
  <2>1. tasks' = [tasks EXCEPT ![t] = v] /\ UNCHANGED <<session, executions>>
    BY <1>6 DEF Write, Feedback
  <2>2. v.state = tasks[t].state
    BY <1>1 DEF Tasks
  <2> HIDE DEF v
  <2> QED BY <1>2, <2>1, <2>2
<1> QED BY <1>3, <1>4, <1>5, <1>6

\* The operations on the current execution: its close releases it, the others keep it.
LEMMA ExecutionMaps ==
  ASSUME Inductive, NEW t \in TaskIds, NEW ctx \in Epochs,
         \/ MarkExecutionReady(t, ctx) \/ MarkExecutionDispatched(t, ctx)
         \/ ObserveExecutionBinding(t, ctx)
         \/ CloseExecution(t, ctx) \/ RecoverExecutionClose(t, ctx)
  PROVE  Custody!Release(t) \/ UNCHANGED Custody!custody
<1>1. Exists(t) /\ Allocated(t, tasks[t].attempt) /\ HasOpen(t)
  BY DEF MarkExecutionReady, MarkExecutionDispatched, ObserveExecutionBinding,
         CloseExecution, RecoverExecutionClose, CanRecoverClose, Owned, CurrentTask,
         HasOpen, IsOpen, Current
<1>2. Current(t) \in Executions /\ tasks[t].attempt \in Attempts
  BY <1>1, TaskFacts DEF Current, Allocated
<1>3. ASSUME NEW e \in Executions, Update(t, e), e.epoch = Current(t).epoch, e.state # "STOPPED"
      PROVE  UNCHANGED Custody!custody
  BY <1>1, <1>2, <1>3, SameCustody DEF Update, Current, HasOpen
<1>4. CASE MarkExecutionReady(t, ctx)
  <2> DEFINE e == [Current(t) EXCEPT !.state = "READY"]
  <2>1. Update(t, e) /\ e \in Executions /\ e.epoch = Current(t).epoch /\ e.state = "READY"
    BY <1>2, <1>4 DEF MarkExecutionReady, Executions
  <2> HIDE DEF e
  <2> QED BY <1>3, <2>1
<1>5. CASE MarkExecutionDispatched(t, ctx)
  <2> DEFINE e == [Current(t) EXCEPT !.state = "BUSY", !.dispatched = TRUE]
  <2>1. Update(t, e) /\ e \in Executions /\ e.epoch = Current(t).epoch /\ e.state = "BUSY"
    BY <1>2, <1>5 DEF MarkExecutionDispatched, Executions
  <2> HIDE DEF e
  <2> QED BY <1>3, <2>1
<1>6. CASE ObserveExecutionBinding(t, ctx)
  <2> DEFINE e == [Current(t) EXCEPT !.state = "DRAINING"]
  <2>1. Update(t, e) /\ e \in Executions /\ e.epoch = Current(t).epoch /\ e.state = "DRAINING"
    BY <1>2, <1>6 DEF ObserveExecutionBinding, Executions
  <2> HIDE DEF e
  <2> QED BY <1>3, <2>1
<1>7. CASE CloseExecution(t, ctx) \/ RecoverExecutionClose(t, ctx)
  BY <1>1, <1>2, <1>7, CloseMaps DEF CloseExecution, RecoverExecutionClose, Update, Current, HasOpen
<1> QED BY <1>4, <1>5, <1>6, <1>7

\* A lapsed lease does not touch the custody.
LEMMA LapseMaps ==
  ASSUME Inductive, NEW t \in TaskIds, NEW k \in Attempts, FenceLapses(t, k)
  PROVE  UNCHANGED Custody!custody
<1> DEFINE e == [executions[t][k] EXCEPT !.lapsed = TRUE]
<1>1. executions[t][k] \in Executions /\ Allocated(t, k)
  BY DEF Inductive, TypeOK, FenceLapses, Allocated
<1>2. executions' = [executions EXCEPT ![t][k] = e] /\ UNCHANGED <<session, tasks>>
  <2>1. executions' = [executions EXCEPT ![t][k].lapsed = TRUE]
    BY DEF FenceLapses
  <2> QED BY <2>1 DEF FenceLapses
<1>3. e \in Executions /\ e.epoch = executions[t][k].epoch /\ e.state = executions[t][k].state
  BY <1>1 DEF Executions
<1> HIDE DEF e
<1> QED BY <1>1, <1>2, <1>3, SameCustody DEF IsOpen

\* Every step of the Store is a step of the custody or leaves it unchanged.
LEMMA StepMaps ==
  ASSUME Inductive, [Next]_vars
  PROVE  [Custody!Next]_(Custody!custody)
<1>1. CASE UNCHANGED vars
  BY <1>1 DEF vars, Custody!custody, Begun, Held, Resting, Allocated, IsOpen
<1>2. ASSUME NEW t \in TaskIds, NEW ctx \in Epochs, Step(t, ctx)
      PROVE  Custody!Next \/ UNCHANGED Custody!custody
  <2>1. CASE AllocateExecution(t, ctx)
    <3>1. Custody!Begin(t, tasks[t].attempt)
      BY <2>1, AllocateMaps
    <3>2. tasks[t].attempt \in Attempts
      BY <2>1, TaskFacts DEF AllocateExecution, CurrentTask
    <3> QED BY <3>1, <3>2 DEF Custody!Next
  <2> QED BY <1>2, <2>1, CommandMaps, RecordMaps, ExecutionMaps DEF Step, Custody!Next
<1>3. ASSUME FenceRestartedOwners
      PROVE  Custody!Replace
  BY <1>3 DEF FenceRestartedOwners, Inductive, TypeOK, Sessions, Custody!Replace,
              Begun, Held, Resting, Allocated, IsOpen
<1> QED BY <1>1, <1>2, <1>3, LapseMaps DEF Next, Custody!Next

\* The Store's rows, with the owner epochs and the leases on them, implement the custody:
\* exclusive work, begun once per attempt and only under an authorized owner, never
\* handed to another owner, and none of a task that is at rest.
THEOREM CustodyImplemented == Spec => CustodyKept
<1>1. Init => Custody!Init
  <2> SUFFICES ASSUME Init PROVE Custody!Init
    OBVIOUS
  <2>1. session.epoch = 1 /\ (~session.unauthorized) = TRUE
    BY DEF Init
  <2>2. \A t \in TaskIds, k \in Attempts : ~Allocated(t, k) /\ ~IsOpen(t, k)
    BY DEF Init, Allocated, IsOpen
  <2>3. Begun = [t \in TaskIds |-> {}] /\ Held = [t \in TaskIds |-> {}]
    BY <2>2 DEF Begun, Held
  <2>4. \A t \in TaskIds : (tasks[t].state \in {"CANCELLED", "PAUSED"}) = FALSE
    <3>1. \A t \in TaskIds : tasks[t].state = "NONE"
      BY DEF Init, NoTask
    <3> SUFFICES ASSUME NEW t \in TaskIds
                 PROVE  (tasks[t].state \in {"CANCELLED", "PAUSED"}) = FALSE
      OBVIOUS
    <3>2. ("NONE" \in {"CANCELLED", "PAUSED"}) = FALSE
      OBVIOUS
    <3> QED BY <3>1, <3>2
  <2>5. Resting = [t \in TaskIds |-> FALSE]
    BY <2>4 DEF Resting
  <2> QED BY <2>1, <2>3, <2>5 DEF Custody!Init
<1>2. Inductive /\ [Next]_vars => [Custody!Next]_(Custody!custody)
  BY StepMaps
<1> QED BY <1>1, <1>2, Invariance, PTL DEF Spec, CustodyKept, Custody!Spec

-----------------------------------------------------------------------------
(* The outbox.                                                             *)

Records == [workspace : {"mine", "other"}, command : Commands \cup {Outbox!NoCommand}]
\* Every event of a command has its receipt, every receipt its event, and a key one receipt.
Receipted ==
  /\ outbox \in Seq(Records)
  /\ receipts \subseteq [command : Commands, at : Nat]
  /\ \A r \in receipts : r.at \in 1..Len(outbox) /\ outbox[r.at].command = r.command
  /\ \A k \in 1..Len(outbox) : outbox[k].command # Outbox!NoCommand =>
       \E r \in receipts : r.command = outbox[k].command /\ r.at = k
  /\ \A r, s \in receipts : r.command.key = s.command.key => r = s
Answered ==
  \A a \in answers :
    /\ a.at \in 1..Len(outbox)
    /\ outbox[a.at].command.key = a.command.key
    /\ outbox[a.at].command.expected = a.command.expected
\* The events of the workspace up to a cursor.
UpTo(cursor) == {k \in 1..cursor : outbox[k].workspace = "mine"}
\* c is the consumer that is furthest.
Furthest(c) ==
  /\ c \in Consumers /\ \A d \in Consumers : consumers[d] <= consumers[c]
  /\ consumers[c] # 0 => outbox[consumers[c]].workspace = "mine"
  /\ published = UpTo(consumers[c])
Acknowledged ==
  /\ consumers \in [Consumers -> 0..Len(outbox)]
  /\ \E c \in Consumers : Furthest(c)
OutboxInductive == Receipted /\ Answered /\ Acknowledged

LEMMA OutboxStarts == Outbox!Init => OutboxInductive
<1> SUFFICES ASSUME Outbox!Init PROVE OutboxInductive
  OBVIOUS
<1> USE DEF Outbox!Init
<1>1. Receipted /\ Answered
  BY DEF Receipted, Answered, Records
<1>2. PICK c : c \in Consumers
  BY OutboxAssumption
<1>3. Furthest(c)
  BY <1>2 DEF Furthest, UpTo
<1> QED BY <1>1, <1>2, <1>3 DEF OutboxInductive, Acknowledged

\* The log grows by one event, and nothing else changes but the receipt and the answers.
LEMMA RecordKeepsCursors ==
  ASSUME Receipted, Acknowledged, NEW workspace \in {"mine", "other"},
         NEW c \in Commands \cup {Outbox!NoCommand}, Outbox!Record(workspace, c),
         UNCHANGED <<consumers, published>>
  PROVE  /\ Acknowledged'
         /\ outbox' \in Seq(Records) /\ Len(outbox') = Len(outbox) + 1
         /\ \A k \in 1..Len(outbox) : outbox'[k] = outbox[k]
         /\ outbox'[Len(outbox')] = [workspace |-> workspace, command |-> c]
<1>1. /\ outbox' \in Seq(Records) /\ Len(outbox') = Len(outbox) + 1
      /\ \A k \in 1..Len(outbox) : outbox'[k] = outbox[k]
      /\ outbox'[Len(outbox')] = [workspace |-> workspace, command |-> c]
  BY DEF Receipted, Outbox!Record, Records
<1>2. PICK d \in Consumers : Furthest(d)
  BY DEF Acknowledged
<1>3. consumers' \in [Consumers -> 0..Len(outbox')] /\ Len(outbox) \in Nat
  BY <1>1 DEF Acknowledged, Receipted
<1>4. Furthest(d)'
  <2>1. consumers[d] \in 0..Len(outbox)
    BY DEF Acknowledged
  <2> QED BY <1>1, <1>2, <1>3, <2>1 DEF Furthest, UpTo
<1> QED BY <1>1, <1>3, <1>4 DEF Acknowledged

LEMMA ExecuteKeeps ==
  ASSUME OutboxInductive, NEW c \in Commands, Outbox!ExecuteTask(c)
  PROVE  OutboxInductive'
<1>1. CASE /\ \E r \in Outbox!Earlier(c) : Outbox!Replays(c, r) /\ Outbox!Answer(c, r.at)
           /\ UNCHANGED <<outbox, receipts, purged, consumers, published>>
  <2>1. Receipted' /\ Acknowledged'
    BY <1>1 DEF OutboxInductive, Receipted, Acknowledged, Furthest, UpTo
  <2>2. PICK r \in receipts : /\ r.command.key = c.key /\ r.command.expected = c.expected
                              /\ Outbox!Answer(c, r.at)
    BY <1>1 DEF Outbox!Earlier, Outbox!Replays
  <2>3. Answered'
    BY <1>1, <2>2 DEF OutboxInductive, Receipted, Answered, Outbox!Answer
  <2> QED BY <2>1, <2>3 DEF OutboxInductive
<1>2. CASE /\ Outbox!Earlier(c) = {} /\ Outbox!Record("mine", c) /\ Outbox!Answer(c, Len(outbox'))
           /\ receipts' = receipts \cup {[command |-> c, at |-> Len(outbox')]}
           /\ UNCHANGED <<purged, consumers, published>>
  <2>1. /\ Acknowledged'
        /\ outbox' \in Seq(Records) /\ Len(outbox') = Len(outbox) + 1
        /\ \A k \in 1..Len(outbox) : outbox'[k] = outbox[k]
        /\ outbox'[Len(outbox')] = [workspace |-> "mine", command |-> c]
    BY <1>2, RecordKeepsCursors DEF OutboxInductive
  <2>2. Len(outbox) \in Nat
    BY DEF OutboxInductive, Receipted
  <2>3. \A r \in receipts : r.command.key # c.key
    BY <1>2 DEF Outbox!Earlier
  <2>4. Receipted'
    <3>1. receipts' \subseteq [command : Commands, at : Nat]
      BY <1>2, <2>1, <2>2 DEF OutboxInductive, Receipted
    <3>2. \A r \in receipts' : r.at \in 1..Len(outbox') /\ outbox'[r.at].command = r.command
      BY <1>2, <2>1, <2>2 DEF OutboxInductive, Receipted
    <3>3. \A k \in 1..Len(outbox') : outbox'[k].command # Outbox!NoCommand =>
            \E r \in receipts' : r.command = outbox'[k].command /\ r.at = k
      <4> SUFFICES ASSUME NEW k \in 1..Len(outbox'), outbox'[k].command # Outbox!NoCommand
                   PROVE  \E r \in receipts' : r.command = outbox'[k].command /\ r.at = k
        OBVIOUS
      <4>1. CASE k = Len(outbox')
        <5>1. PICK r \in receipts' : r = [command |-> c, at |-> k]
          BY <1>2, <4>1
        <5> QED BY <2>1, <4>1, <5>1
      <4>2. CASE k \in 1..Len(outbox)
        <5>1. outbox'[k] = outbox[k] /\ receipts \subseteq receipts'
          BY <1>2, <2>1, <4>2
        <5> QED BY <4>2, <5>1 DEF OutboxInductive, Receipted
      <4> QED BY <2>1, <2>2, <4>1, <4>2
    <3>4. \A r, s \in receipts' : r.command.key = s.command.key => r = s
      BY <1>2, <2>3 DEF OutboxInductive, Receipted
    <3> QED BY <2>1, <3>1, <3>2, <3>3, <3>4 DEF Receipted
  <2>5. Answered'
    BY <1>2, <2>1, <2>2 DEF OutboxInductive, Answered, Outbox!Answer
  <2> QED BY <2>1, <2>4, <2>5 DEF OutboxInductive
<1> QED BY <1>1, <1>2 DEF Outbox!ExecuteTask

LEMMA OtherEventKeeps ==
  ASSUME OutboxInductive, NEW workspace \in {"mine", "other"}, Outbox!OtherEvent(workspace)
  PROVE  OutboxInductive'
<1>1. /\ Acknowledged'
      /\ outbox' \in Seq(Records) /\ Len(outbox') = Len(outbox) + 1
      /\ \A k \in 1..Len(outbox) : outbox'[k] = outbox[k]
      /\ outbox'[Len(outbox')] = [workspace |-> workspace, command |-> Outbox!NoCommand]
  BY RecordKeepsCursors DEF OutboxInductive, Outbox!OtherEvent
<1>2. Len(outbox) \in Nat /\ UNCHANGED <<receipts, answers>>
  BY DEF OutboxInductive, Receipted, Outbox!OtherEvent
<1>3. Receipted' /\ Answered'
  BY <1>1, <1>2 DEF OutboxInductive, Receipted, Answered
<1> QED BY <1>1, <1>3 DEF OutboxInductive

LEMMA AcknowledgeKeeps ==
  ASSUME OutboxInductive, NEW c \in Consumers, NEW event \in Nat, NEW expected \in Nat,
         Outbox!AcknowledgeOutbox(c, event, expected)
  PROVE  OutboxInductive'
<1>1. /\ consumers[c] = expected /\ consumers' = [consumers EXCEPT ![c] = event]
      /\ published' = published \cup {event}
      /\ UNCHANGED <<outbox, receipts, answers>>
  BY DEF Outbox!AcknowledgeOutbox
<1>2. /\ event \in expected + 1..Len(outbox) /\ outbox[event].workspace = "mine"
      /\ \A k \in expected + 1..Len(outbox) : outbox[k].workspace = "mine" => event <= k
  BY DEF Outbox!AcknowledgeOutbox, Outbox!IsNext, Outbox!MineAfter
<1>3. Receipted' /\ Answered'
  BY <1>1 DEF OutboxInductive, Receipted, Answered
<1>4. PICK d \in Consumers : Furthest(d)
  BY DEF OutboxInductive, Acknowledged
<1>5. consumers' \in [Consumers -> 0..Len(outbox')] /\ Len(outbox) \in Nat
  BY <1>1, <1>2 DEF OutboxInductive, Acknowledged, Receipted
<1>6. /\ consumers[d] \in 0..Len(outbox) /\ consumers[c] \in 0..Len(outbox)
      /\ consumers[c] <= consumers[d]
  BY <1>4 DEF OutboxInductive, Acknowledged, Furthest
<1>7. CASE consumers[c] = consumers[d]
  \* c becomes the furthest one, and the next event is all there is between the cursors.
  <2>1. UpTo(event) = UpTo(consumers[d]) \cup {event}
    BY <1>1, <1>2, <1>5, <1>6, <1>7 DEF UpTo
  <2>2. Furthest(c)'
    BY <1>1, <1>2, <1>4, <1>5, <1>6, <1>7, <2>1 DEF Furthest, UpTo, OutboxInductive, Acknowledged
  <2> QED BY <1>3, <1>5, <2>2 DEF OutboxInductive, Acknowledged
<1>8. CASE consumers[c] # consumers[d]
  \* The furthest consumer has published that event before.
  <2>1. c # d /\ consumers'[d] = consumers[d]
    BY <1>1, <1>8 DEF OutboxInductive, Acknowledged
  <2>2. event <= consumers[d]
    BY <1>1, <1>2, <1>4, <1>5, <1>6, <1>8 DEF Furthest
  <2>3. event \in published
    BY <1>2, <1>4, <1>6, <2>2 DEF Furthest, UpTo
  <2>4. Furthest(d)'
    BY <1>1, <1>4, <1>5, <1>6, <2>1, <2>2, <2>3 DEF Furthest, UpTo, OutboxInductive, Acknowledged
  <2> QED BY <1>3, <1>5, <2>4 DEF OutboxInductive, Acknowledged
<1> QED BY <1>7, <1>8

LEMMA OutboxStep == OutboxInductive /\ Outbox!Next => OutboxInductive'
<1> SUFFICES ASSUME OutboxInductive, Outbox!Next PROVE OutboxInductive'
  OBVIOUS
<1>1. CASE \E c \in Commands : Outbox!ExecuteTask(c)
  BY <1>1, ExecuteKeeps
<1>2. CASE \E w \in {"mine", "other"} : Outbox!OtherEvent(w)
  BY <1>2, OtherEventKeeps
<1>3. CASE \E r \in receipts \ purged : Outbox!PurgeBody(r)
  BY <1>3 DEF Outbox!PurgeBody, OutboxInductive, Receipted, Answered, Acknowledged, Furthest, UpTo
<1>4. CASE \E c \in Consumers, event \in 1..MaxEvents, expected \in 0..MaxEvents :
             Outbox!AcknowledgeOutbox(c, event, expected)
  BY <1>4, AcknowledgeKeeps
<1> QED BY <1>1, <1>2, <1>3, <1>4 DEF Outbox!Next

LEMMA OutboxMeans ==
  OutboxInductive => Outbox!CommittedOnce /\ Outbox!PublishedInOrder
<1> SUFFICES ASSUME OutboxInductive PROVE Outbox!CommittedOnce /\ Outbox!PublishedInOrder
  OBVIOUS
<1>1. Outbox!CommittedOnce
  <2>1. ASSUME NEW j \in 1..Len(outbox), NEW k \in 1..Len(outbox),
               outbox[j].command # Outbox!NoCommand,
               outbox[j].command.key = outbox[k].command.key
        PROVE  j = k
    <3>1. outbox[j].command \in Commands /\ outbox[k].command \in Commands \cup {Outbox!NoCommand}
      BY <2>1 DEF OutboxInductive, Receipted, Records
    <3>2. outbox[k].command # Outbox!NoCommand
      BY <2>1, <3>1, OutboxAssumption DEF Commands, Outbox!NoCommand
    <3> QED BY <2>1, <3>2 DEF OutboxInductive, Receipted
  <2> QED BY <2>1 DEF Outbox!CommittedOnce, OutboxInductive, Answered
<1>2. Outbox!PublishedInOrder
  <2>1. PICK c \in Consumers : Furthest(c)
    BY DEF OutboxInductive, Acknowledged
  <2>2. consumers[c] \in 0..Len(outbox) /\ Len(outbox) \in Nat
    BY DEF OutboxInductive, Acknowledged, Receipted
  <2>3. UpTo(consumers[c]) = Outbox!MineAfter(0) \ Outbox!MineAfter(consumers[c])
    BY <2>2 DEF UpTo, Outbox!MineAfter
  <2> QED BY <2>1, <2>3 DEF Furthest, Outbox!PublishedInOrder
<1> QED BY <1>1, <1>2

\* Whatever was lost, sent again, changed or purged, a command has one effect and its answers
\* name it; what consumers have published is a prefix of the workspace's events
\* (TaskStoreV1's receipts and acknowledgeOutbox).
THEOREM OutboxIsKept == MCSpec => []OutboxKept
<1>1. MCInit => (IsOutbox => OutboxInductive)
  BY OutboxStarts DEF MCInit, IsSession, IsOutbox, IsBoundary
<1>2. (IsOutbox => OutboxInductive) /\ [MCNext]_<<part, vars, outboxVars, boundaryVars>>
        => (IsOutbox => OutboxInductive)'
  <2> SUFFICES ASSUME IsOutbox => OutboxInductive,
                      [MCNext]_<<part, vars, outboxVars, boundaryVars>>, IsOutbox'
               PROVE  OutboxInductive'
    OBVIOUS
  <2>1. IsOutbox
    BY DEF IsOutbox, MCNext
  <2>2. CASE Outbox!Next
    BY <2>1, <2>2, OutboxStep
  <2>3. CASE UNCHANGED outboxVars
    BY <2>1, <2>3 DEF outboxVars, OutboxInductive, Receipted, Answered, Acknowledged, Furthest,
       UpTo
  <2> QED BY <2>2, <2>3 DEF MCNext
<1>3. (IsOutbox => OutboxInductive) => OutboxKept
  BY OutboxMeans DEF OutboxKept
<1> QED BY <1>1, <1>2, <1>3, PTL DEF MCSpec

-----------------------------------------------------------------------------
(* The cognitive boundary.                                                 *)

Worlds == 1..MaxWorld
Capsules ==
  [revision : 0..MaxRevision, world : 0..MaxWorld, more : BOOLEAN,
   by : Coordinators \cup {"none"}]
Actions == {"clarify", "retrieve", "execute", "stop"}
Places == {"idle", "creating", "loop", "stopping", "asking", "asked", "waiting", "running",
           "starting", "left"}
Calls == [capsule : Capsules, heard : 0..MaxWorld]
Decisions == [action : Actions, count : 0..2, at : Worlds]
Boundaries ==
  [status : {"none", "open", "decided", "stopped"}, capsule : Capsules,
   calls : Seq(Calls), decisions : Seq(Decisions)]
Coordinations ==
  [at : Places, capsule : Capsules, count : 0..2, previous : Actions \cup {"none"},
   purpose : {"initial", "repair", "retrieval"}]
BoundaryTypes ==
  /\ world \in Worlds
  /\ task \in [revision : Boundary!Revisions, state : {"READY", "WAITING_INPUT", "RUNNING"},
               owned : BOOLEAN, started : 0..MaxWorld]
  /\ boundaries \in [Boundary!Revisions -> Boundaries]
  /\ heard \in [Boundary!Revisions -> Nat]
  /\ coordinators \in [Coordinators -> Coordinations]
\* Whoever coordinates has a capsule of a revision of the task, and whoever asks a call.
Placed == \A c \in Coordinators :
  /\ coordinators[c].at # "idle" => coordinators[c].capsule.revision \in Boundary!Revisions
  /\ coordinators[c].at \in {"asking", "asked"} => coordinators[c].count \in 1..2
\* How often the model was heard of a boundary: of every call but perhaps the last.
Counted(b) ==
  IF b.calls = <<>> THEN 0
  ELSE IF b.calls[Len(b.calls)].heard = 0 THEN Len(b.calls) - 1 ELSE Len(b.calls)
\* A boundary asks twice at most, the second time when the first was heard; what was heard
\* was heard in the world of its capsule; and a decision was heard.
SoundBoundary(b) ==
  /\ Len(b.calls) \in 0..2
  /\ \A k \in 1..Len(b.calls) : k < Len(b.calls) => b.calls[k].heard > 0
  /\ \A k \in 1..Len(b.calls) :
       b.calls[k].heard > 0 => b.calls[k].heard = b.calls[k].capsule.world
  /\ \A k \in 1..Len(b.decisions) : b.decisions[k].action # "stop" =>
       /\ b.decisions[k].count \in 1..Len(b.calls)
       /\ b.calls[b.decisions[k].count].heard > 0
       /\ b.decisions[k].at = b.calls[b.decisions[k].count].heard
  /\ b.status = "decided" =>
       /\ b.calls # <<>> /\ b.calls[Len(b.calls)].capsule = b.capsule
       /\ b.calls[Len(b.calls)].heard > 0
Sound == \A r \in Boundary!Revisions :
  /\ SoundBoundary(boundaries[r]) /\ heard[r] = Counted(boundaries[r])
  /\ boundaries[r].status # "none" => boundaries[r].capsule.revision = r
\* The task runs since the revision of a decided boundary, in the world it was heard in.
Started ==
  task.state = "RUNNING" =>
    /\ task.revision - 1 \in Boundary!Revisions
    /\ boundaries[task.revision - 1].status = "decided"
    /\ LET b == boundaries[task.revision - 1]
       IN task.started = b.calls[Len(b.calls)].heard
BoundaryInductive == BoundaryTypes /\ Placed /\ Sound /\ Started

LEMMA IdleTyped == Boundary!Idle \in Coordinations /\ Boundary!Idle.at = "idle"
<1>1. 0 \in 0..MaxWorld /\ 0 \in 0..MaxRevision /\ 0 \in 0..2
  BY BoundaryAssumption
<1>2. Boundary!NoCapsule \in Capsules
  BY <1>1 DEF Boundary!NoCapsule, Capsules
<1> QED BY <1>1, <1>2 DEF Boundary!Idle, Coordinations, Places

LEMMA BoundaryStarts == Boundary!Init => BoundaryInductive
<1> SUFFICES ASSUME Boundary!Init PROVE BoundaryInductive
  OBVIOUS
<1> DEFINE R == Boundary!Revisions
<1>1. 1 \in R /\ 1 \in Worlds /\ 0 \in 0..MaxWorld /\ 0 \in 0..MaxRevision /\ 0 \in 0..2
  BY BoundaryAssumption DEF Boundary!Revisions, Worlds
<1>2. Boundary!NoCapsule \in Capsules
  BY <1>1 DEF Boundary!NoCapsule, Capsules
<1>3. Boundary!NoBoundary \in Boundaries
  BY <1>2 DEF Boundary!NoBoundary, Boundaries
<1>4. Boundary!Idle \in Coordinations /\ Boundary!Idle.at = "idle"
  BY IdleTyped
<1>5. BoundaryTypes
  BY <1>1, <1>3, <1>4 DEF Boundary!Init, BoundaryTypes
<1>6. Placed
  BY <1>4 DEF Boundary!Init, Placed
<1>7. SoundBoundary(Boundary!NoBoundary) /\ Counted(Boundary!NoBoundary) = 0
  BY DEF SoundBoundary, Counted, Boundary!NoBoundary
<1>8. Sound
  BY <1>7 DEF Boundary!Init, Sound, Boundary!NoBoundary
<1>9. Started
  BY DEF Boundary!Init, Started
<1> QED BY <1>5, <1>6, <1>8, <1>9 DEF BoundaryInductive

-----------------------------------------------------------------------------
(* What a step may change.                                                 *)

\* What was decided or stopped keeps.
Standing == \A r \in Boundary!Revisions :
  boundaries[r].status \in {"decided", "stopped"} => boundaries'[r] = boundaries[r]

LEMMA CoordinatorMoves ==
  ASSUME BoundaryTypes, Placed, NEW c \in Coordinators, NEW x \in Coordinations,
         coordinators' = [coordinators EXCEPT ![c] = x],
         x.at # "idle" => x.capsule.revision \in Boundary!Revisions,
         x.at \in {"asking", "asked"} => x.count \in 1..2
  PROVE  coordinators' \in [Coordinators -> Coordinations] /\ Placed'
  BY DEF BoundaryTypes, Placed

LEMMA StartedStands ==
  ASSUME Started, Standing, task'.state = task.state, task'.revision = task.revision,
         task'.started = task.started
  PROVE  Started'
  BY DEF Started, Standing

LEMMA BoundaryIsWritten ==
  ASSUME BoundaryTypes, Sound, NEW r \in Boundary!Revisions, NEW b \in Boundaries,
         SoundBoundary(b), b.capsule.revision = r, boundaries' = [boundaries EXCEPT ![r] = b],
         heard' = [heard EXCEPT ![r] = Counted(b)],
         boundaries[r].status \in {"none", "open"} \/ b = boundaries[r]
  PROVE  /\ boundaries' \in [Boundary!Revisions -> Boundaries]
         /\ heard' \in [Boundary!Revisions -> Nat]
         /\ Sound' /\ Standing
<1>1. Counted(b) \in Nat
  BY DEF Counted, Boundaries
<1>2. /\ boundaries' \in [Boundary!Revisions -> Boundaries]
      /\ heard' \in [Boundary!Revisions -> Nat]
  BY <1>1 DEF BoundaryTypes
<1>3. Sound' /\ Standing
  BY DEF BoundaryTypes, Sound, Standing
<1> QED BY <1>2, <1>3

\* A step that leaves the rows and the task to the others.
LEMMA OnlyMoves ==
  ASSUME BoundaryInductive, UNCHANGED <<world, boundaries, heard>>,
         task'.state = task.state, task'.revision = task.revision, task'.started = task.started,
         task'.owned \in BOOLEAN, task' = [task EXCEPT !.owned = task'.owned],
         coordinators' \in [Coordinators -> Coordinations], Placed'
  PROVE  BoundaryInductive' /\ Standing
<1>1. task' \in [revision : Boundary!Revisions, state : {"READY", "WAITING_INPUT", "RUNNING"},
                 owned : BOOLEAN, started : 0..MaxWorld]
  BY DEF BoundaryInductive, BoundaryTypes
<1>2. BoundaryTypes'
  BY <1>1 DEF BoundaryInductive, BoundaryTypes
<1>3. Sound' /\ Standing
  BY DEF BoundaryInductive, Sound, Standing
<1>4. Started'
  BY <1>3, StartedStands DEF BoundaryInductive
<1> QED BY <1>2, <1>3, <1>4 DEF BoundaryInductive

\* A step that writes one boundary and moves its coordinator.
LEMMA WritesAndMoves ==
  ASSUME BoundaryInductive, UNCHANGED <<world, task>>,
         NEW r \in Boundary!Revisions, NEW b \in Boundaries,
         SoundBoundary(b), b.capsule.revision = r, boundaries' = [boundaries EXCEPT ![r] = b],
         heard' = [heard EXCEPT ![r] = Counted(b)],
         boundaries[r].status \in {"none", "open"} \/ b = boundaries[r],
         coordinators' \in [Coordinators -> Coordinations], Placed'
  PROVE  BoundaryInductive' /\ Standing
<1>1. /\ boundaries' \in [Boundary!Revisions -> Boundaries]
      /\ heard' \in [Boundary!Revisions -> Nat]
      /\ Sound' /\ Standing
  BY BoundaryIsWritten DEF BoundaryInductive
<1>2. BoundaryTypes'
  BY <1>1 DEF BoundaryInductive, BoundaryTypes
<1>3. Started'
  BY <1>1, StartedStands DEF BoundaryInductive
<1> QED BY <1>1, <1>2, <1>3 DEF BoundaryInductive
-----------------------------------------------------------------------------
(* The coordinator.                                                        *)

LEMMA CompiledTyped ==
  ASSUME BoundaryTypes, NEW c \in Coordinators, NEW more \in BOOLEAN
  PROVE  /\ Boundary!Compiled(c, more) \in Capsules
         /\ Boundary!Compiled(c, more).revision \in Boundary!Revisions
  BY BoundaryAssumption DEF Boundary!Compiled, Capsules, BoundaryTypes, Boundary!Revisions, Worlds

\* To(c, at), for a place that is not waiting for an answer unless it was before.
LEMMA ToMoves ==
  ASSUME BoundaryTypes, Placed, NEW c \in Coordinators, NEW at \in Places,
         coordinators[c].at # "idle", Boundary!To(c, at),
         at \in {"asking", "asked"} => coordinators[c].at \in {"asking", "asked"}
  PROVE  coordinators' \in [Coordinators -> Coordinations] /\ Placed'
<1>1. PICK x : x = [coordinators[c] EXCEPT !.at = at]
  OBVIOUS
<1>2. /\ x \in Coordinations /\ x.at = at /\ x.capsule = coordinators[c].capsule
      /\ x.count = coordinators[c].count
  BY <1>1 DEF BoundaryTypes, Coordinations
<1>3. coordinators' = [coordinators EXCEPT ![c] = x]
  BY <1>1 DEF Boundary!To, BoundaryTypes
<1>4. coordinators[c].capsule.revision \in Boundary!Revisions
  BY DEF Placed
<1>5. x.at \in {"asking", "asked"} => x.count \in 1..2
  BY <1>2 DEF Placed
<1> QED BY <1>2, <1>3, <1>4, <1>5, CoordinatorMoves

LEMMA CoordinateKeeps ==
  ASSUME BoundaryInductive, NEW c \in Coordinators, Boundary!Begin(c)
  PROVE  BoundaryInductive' /\ Standing
<1>1. BoundaryTypes /\ Placed
  BY DEF BoundaryInductive
<1>2. PICK capsule \in Capsules : /\ capsule = Boundary!Compiled(c, FALSE)
                                  /\ capsule.revision \in Boundary!Revisions
  <2>1. \A more \in BOOLEAN : /\ Boundary!Compiled(c, more) \in Capsules
                              /\ Boundary!Compiled(c, more).revision \in Boundary!Revisions
    BY <1>1, CompiledTyped
  <2> QED BY <2>1
<1>3. PICK x : x = [Boundary!Idle EXCEPT !.at = "creating", !.capsule = capsule]
  OBVIOUS
<1>4. x \in Coordinations /\ x.at = "creating" /\ x.capsule = capsule
  BY <1>3, IdleTyped DEF Coordinations, Places
<1>5. coordinators' = [coordinators EXCEPT ![c] = x]
  BY <1>2, <1>3 DEF Boundary!Begin
<1>6. coordinators' \in [Coordinators -> Coordinations] /\ Placed'
  BY <1>1, <1>2, <1>4, <1>5, CoordinatorMoves
<1> QED BY <1>1, <1>6, OnlyMoves DEF Boundary!Begin, BoundaryTypes

\* The boundary a capsule opens or finds.
LEMMA OpenedTyped ==
  ASSUME NEW prior \in Boundaries, NEW capsule \in Capsules,
         NEW b, b = Boundary!Opened(prior, capsule)
  PROVE  /\ b \in Boundaries /\ b.calls = prior.calls /\ b.decisions = prior.decisions
         /\ \/ prior.status # "none" /\ b = prior
            \/ prior.status = "none" /\ b.status = "open" /\ b.capsule = capsule
  BY DEF Boundary!Opened, Boundaries

LEMMA AdoptTyped ==
  ASSUME NEW b \in Boundaries, Len(b.calls) \in 0..2, NEW c \in Coordinators,
         NEW at \in Places \ {"asking", "asked"}, b.capsule.revision \in Boundary!Revisions,
         BoundaryTypes, Placed, Boundary!Adopt(c, b, at)
  PROVE  coordinators' \in [Coordinators -> Coordinations] /\ Placed'
<1>1. PICK calls \in Seq(Calls) : calls = b.calls
  BY DEF Boundaries
<1>2. PICK decisions \in Seq(Decisions) : decisions = b.decisions
  BY DEF Boundaries
<1>4. Boundary!Last(b.decisions) \in Actions \cup {"none"}
  <2>1. CASE decisions = <<>>
    BY <1>2, <2>1 DEF Boundary!Last
  <2>2. CASE decisions # <<>>
    <3>1. decisions[Len(decisions)] \in Decisions
      BY <2>2
    <3> QED BY <1>2, <2>2, <3>1 DEF Boundary!Last, Decisions
  <2> QED BY <2>1, <2>2
<1>5. b.capsule \in Capsules
  BY DEF Boundaries
<1>6. PICK purpose \in {"initial", "repair"} :
        purpose = IF b.calls = <<>> THEN "initial" ELSE "repair"
  OBVIOUS
<1>7. PICK x : x = [at |-> at, capsule |-> b.capsule, count |-> Len(b.calls),
                    previous |-> Boundary!Last(b.decisions), purpose |-> purpose]
  OBVIOUS
<1>8. x \in Coordinations /\ x.at = at /\ x.capsule = b.capsule
  BY <1>4, <1>5, <1>7 DEF Coordinations
<1>9. coordinators' = [coordinators EXCEPT ![c] = x]
  BY <1>6, <1>7 DEF Boundary!Adopt
<1> QED BY <1>8, <1>9, CoordinatorMoves

LEMMA OpenBoundaryKeeps ==
  ASSUME BoundaryInductive, NEW c \in Coordinators, Boundary!OpenBoundary(c)
  PROVE  BoundaryInductive' /\ Standing
<1> DEFINE capsule == coordinators[c].capsule
           r == capsule.revision
           prior == boundaries[r]
<1>1. BoundaryTypes /\ Placed /\ Sound
  BY DEF BoundaryInductive
<1>2. r \in Boundary!Revisions /\ capsule \in Capsules /\ prior \in Boundaries
  BY <1>1 DEF Boundary!OpenBoundary, Boundary!Resumes, Placed, BoundaryTypes, Coordinations
<1>3. PICK b : b = Boundary!Opened(prior, capsule)
  OBVIOUS
<1>4. PICK at \in {"waiting", "running", "left", "loop", "stopping"} : Boundary!Adopt(c, b, at)
  BY <1>3 DEF Boundary!OpenBoundary, Boundary!Follow
<1>5. boundaries' = [boundaries EXCEPT ![r] = b] /\ UNCHANGED <<world, task, heard>>
  BY <1>3 DEF Boundary!OpenBoundary, Boundary!Store
<1>6. /\ SoundBoundary(prior) /\ heard[r] = Counted(prior)
      /\ prior.status # "none" => prior.capsule.revision = r
  BY <1>1, <1>2 DEF Sound
<1>7. /\ b \in Boundaries /\ b.calls = prior.calls /\ b.decisions = prior.decisions
      /\ \/ prior.status # "none" /\ b = prior
         \/ prior.status = "none" /\ b.status = "open" /\ b.capsule = capsule
  BY <1>2, <1>3, OpenedTyped
<1>8. b.capsule.revision = r
  BY <1>6, <1>7
<1>9. SoundBoundary(b) /\ Counted(b) = Counted(prior)
  BY <1>6, <1>7 DEF SoundBoundary, Counted
<1>10. heard' = [heard EXCEPT ![r] = Counted(b)]
  BY <1>1, <1>2, <1>5, <1>6, <1>9 DEF BoundaryTypes
<1>11. coordinators' \in [Coordinators -> Coordinations] /\ Placed'
  <2>1. Len(b.calls) \in 0..2
    BY <1>7, <1>9 DEF SoundBoundary, Boundaries
  <2>2. at \in Places \ {"asking", "asked"}
    BY DEF Places
  <2> QED BY <1>1, <1>2, <1>4, <1>7, <1>8, <2>1, <2>2, AdoptTyped
<1> QED BY <1>2, <1>5, <1>7, <1>8, <1>9, <1>10, <1>11, WritesAndMoves

\* A further call of the model, not heard yet.
Called(prior, capsule) ==
  [prior EXCEPT !.capsule = capsule,
                !.calls = Append(prior.calls, [capsule |-> capsule, heard |-> 0])]

LEMMA CallIsSound ==
  ASSUME NEW prior \in Boundaries, SoundBoundary(prior), NEW capsule \in Capsules,
         prior.status = "open", Len(prior.calls) \in 0..1,
         prior.calls # <<>> => prior.calls[1].heard > 0,
         NEW b, b = Called(prior, capsule)
  PROVE  /\ b \in Boundaries /\ b.capsule = capsule /\ b.status = "open"
         /\ Len(b.calls) \in 1..2
         /\ SoundBoundary(b) /\ Counted(b) = Counted(prior)
<1>1. PICK call : call = [capsule |-> capsule, heard |-> 0]
  OBVIOUS
<1> call \in Calls
  <2>1. 0 \in 0..MaxWorld
    BY BoundaryAssumption
  <2> QED BY <1>1, <2>1 DEF Calls
<1>2. PICK calls : calls = prior.calls
  OBVIOUS
<1> calls \in Seq(Calls)
  BY <1>2 DEF Boundaries
<1>3. /\ b \in Boundaries /\ b.capsule = capsule /\ b.status = "open"
      /\ b.calls = Append(calls, call) /\ b.decisions = prior.decisions
  <2>1. b = [prior EXCEPT !.capsule = capsule, !.calls = Append(calls, call)]
    BY <1>1, <1>2 DEF Called
  <2>2. Append(calls, call) \in Seq(Calls)
    OBVIOUS
  <2> QED BY <2>1, <2>2 DEF Boundaries
<1>4. /\ Len(b.calls) = Len(calls) + 1 /\ Len(calls) \in 0..1
      /\ \A k \in 1..Len(calls) : b.calls[k] = calls[k]
      /\ b.calls[Len(b.calls)].heard = 0 /\ b.calls # <<>>
  BY <1>1, <1>2, <1>3
<1>5. \A k \in 1..Len(calls) : calls[k].heard > 0
  BY <1>2, <1>4
<1>6. SoundBoundary(b)
  BY <1>2, <1>3, <1>4, <1>5 DEF SoundBoundary
<1>7. Counted(b) = Counted(prior)
  BY <1>2, <1>4, <1>5 DEF Counted
<1> QED BY <1>3, <1>4, <1>6, <1>7

LEMMA ReserveKeeps ==
  ASSUME BoundaryInductive, NEW c \in Coordinators, Boundary!ReserveDecisionCall(c)
  PROVE  BoundaryInductive' /\ Standing
<1> DEFINE capsule == coordinators[c].capsule
           r == capsule.revision
           prior == boundaries[r]
<1>1. BoundaryTypes /\ Placed /\ Sound
  BY DEF BoundaryInductive
<1>2. r \in Boundary!Revisions /\ capsule \in Capsules /\ prior \in Boundaries
  BY <1>1 DEF Boundary!ReserveDecisionCall, Boundary!Goes, Placed, BoundaryTypes, Coordinations
<1>3. PICK b : b = Called(prior, capsule)
  OBVIOUS
<1>4. /\ prior.status = "open" /\ Len(prior.calls) \in 0..1
      /\ prior.calls # <<>> => prior.calls[1].heard > 0
  <2>1. prior.status = "open" /\ Len(prior.calls) < 2
        /\ (prior.calls # <<>> => prior.calls[1].heard > 0)
    BY DEF Boundary!ReserveDecisionCall, Boundary!Reservable, Boundary!Boundary
  <2>2. PICK n \in 0..2 : n = Len(prior.calls)
    BY <1>1, <1>2 DEF Sound, SoundBoundary
  <2>3. n \in 0..1
    <3>1. n < 2
      BY <2>1, <2>2, Zenon
    <3> QED BY <2>2, <3>1
  <2> QED BY <2>1, <2>2, <2>3
<1>5. /\ boundaries' = [boundaries EXCEPT ![r] = b]
      /\ coordinators' = [coordinators EXCEPT ![c].at = "asking", ![c].count = Len(b.calls)]
      /\ UNCHANGED <<world, task, heard>>
  BY <1>3 DEF Boundary!ReserveDecisionCall, Boundary!Boundary, Boundary!Store, Called
<1>6. SoundBoundary(prior) /\ heard[r] = Counted(prior)
  BY <1>1, <1>2 DEF Sound
<1>7. /\ b \in Boundaries /\ b.capsule = capsule /\ b.status = "open"
      /\ Len(b.calls) \in 1..2
      /\ SoundBoundary(b) /\ Counted(b) = Counted(prior)
  BY <1>2, <1>3, <1>4, <1>6, CallIsSound
<1>8. heard' = [heard EXCEPT ![r] = Counted(b)]
  BY <1>1, <1>2, <1>5, <1>6, <1>7 DEF BoundaryTypes
<1>9. PICK x : x = [coordinators[c] EXCEPT !.at = "asking", !.count = Len(b.calls)]
  OBVIOUS
<1>10. x \in Coordinations /\ x.at = "asking" /\ x.capsule = capsule /\ x.count \in 1..2
  <2>1. PICK n \in 1..2 : n = Len(b.calls)
    BY <1>7
  <2>2. n \in 0..2 /\ coordinators[c] \in Coordinations
    BY <1>1 DEF BoundaryTypes
  <2> QED BY <1>9, <2>1, <2>2 DEF Coordinations, Places
<1>11. coordinators' = [coordinators EXCEPT ![c] = x]
  BY <1>1, <1>5, <1>9 DEF BoundaryTypes
<1>12. coordinators' \in [Coordinators -> Coordinations] /\ Placed'
  BY <1>1, <1>2, <1>10, <1>11, CoordinatorMoves
<1> QED BY <1>2, <1>4, <1>5, <1>7, <1>8, <1>12, WritesAndMoves

LEMMA ReplaceKeeps ==
  ASSUME BoundaryInductive, NEW c \in Coordinators, Boundary!Replace(c)
  PROVE  BoundaryInductive' /\ Standing
<1>1. BoundaryTypes /\ Placed
  BY DEF BoundaryInductive
<1>2. coordinators[c].at = "loop" /\ coordinators[c] \in Coordinations
  BY <1>1 DEF Boundary!Replace, Boundary!Goes, BoundaryTypes
<1>3. PICK capsule \in Capsules : /\ capsule = Boundary!Compiled(c, TRUE)
                                  /\ capsule.revision \in Boundary!Revisions
  <2>1. \A more \in BOOLEAN : /\ Boundary!Compiled(c, more) \in Capsules
                              /\ Boundary!Compiled(c, more).revision \in Boundary!Revisions
    BY <1>1, CompiledTyped
  <2> QED BY <2>1
<1>4. coordinators' \in [Coordinators -> Coordinations] /\ Placed'
  <2>1. CASE Boundary!To(c, "stopping")
    <3>1. "stopping" \in Places /\ coordinators[c].at # "idle"
      BY <1>2 DEF Places
    <3> QED BY <1>1, <2>1, <3>1, ToMoves
  <2>2. CASE coordinators' = [coordinators EXCEPT ![c].capsule = Boundary!Compiled(c, TRUE),
                                                  ![c].purpose = "retrieval"]
    <3>1. PICK x : x = [coordinators[c] EXCEPT !.capsule = capsule, !.purpose = "retrieval"]
      OBVIOUS
    <3>2. x \in Coordinations /\ x.at = "loop" /\ x.capsule = capsule
      BY <1>2, <3>1 DEF Coordinations
    <3>3. coordinators' = [coordinators EXCEPT ![c] = x]
      BY <1>1, <1>3, <2>2, <3>1 DEF BoundaryTypes
    <3> QED BY <1>1, <1>3, <3>2, <3>3, CoordinatorMoves
  <2> QED BY <2>1, <2>2 DEF Boundary!Replace
<1> QED BY <1>1, <1>4, OnlyMoves DEF Boundary!Replace, BoundaryTypes

\* The request of the last call is received.
Received(prior, n, w) == [prior EXCEPT !.calls = [prior.calls EXCEPT ![n] = [prior.calls[n] EXCEPT !.heard = w]]]

\* Its capsule was compiled in the world w.
Unheard(prior, n, w) ==
  /\ SoundBoundary(prior) /\ prior.status = "open" /\ Len(prior.calls) = n
  /\ prior.calls[n].heard = 0 /\ prior.calls[n].capsule.world = w

LEMMA ReceivedIsSound ==
  ASSUME NEW prior \in Boundaries, NEW n \in 1..2, NEW w \in Worlds, NEW b,
         Unheard(prior, n, w), b = Received(prior, n, w)
  PROVE  /\ b \in Boundaries /\ b.capsule = prior.capsule
         /\ SoundBoundary(b) /\ Counted(b) = Counted(prior) + 1
<1> USE DEF Unheard
<1>1. PICK calls : calls = prior.calls
  OBVIOUS
<1>2. calls \in Seq(Calls) /\ Len(calls) = n /\ n \in 1..Len(calls)
  BY <1>1 DEF Boundaries
<1>3. PICK call : call = [calls[n] EXCEPT !.heard = w]
  OBVIOUS
<1>4. call \in Calls /\ call.heard = w /\ call.capsule = calls[n].capsule
  <2>1. calls[n] \in Calls
    BY <1>2
  <2>2. w \in 0..MaxWorld
    BY BoundaryAssumption DEF Worlds
  <2> QED BY <1>3, <2>1, <2>2 DEF Calls
<1>5. PICK more : more = [calls EXCEPT ![n] = call]
  OBVIOUS
<1>6. /\ more \in Seq(Calls) /\ Len(more) = n /\ more[n] = call
      /\ \A k \in 1..n : k # n => more[k] = calls[k]
  BY <1>2, <1>4, <1>5
<1>7. /\ b \in Boundaries /\ b.capsule = prior.capsule /\ b.status = "open"
      /\ b.calls = more /\ b.decisions = prior.decisions
  <2>1. b = [prior EXCEPT !.calls = more]
    BY <1>1, <1>3, <1>5 DEF Received
  <2> QED BY <1>6, <2>1 DEF Boundaries
<1>8. w > 0 /\ n > 0 /\ more # <<>> /\ calls # <<>>
  BY <1>2, <1>6, BoundaryAssumption DEF Worlds
<1>9. Counted(b) = Counted(prior) + 1
  BY <1>1, <1>2, <1>4, <1>6, <1>7, <1>8 DEF Counted
<1>10. \A k \in 1..n : /\ k < n => more[k].heard > 0
                       /\ more[k].heard > 0 => more[k].heard = more[k].capsule.world
  BY <1>1, <1>2, <1>4, <1>6 DEF SoundBoundary
<1>11. \A k \in 1..Len(b.decisions) : b.decisions[k].action # "stop" =>
         /\ b.decisions[k].count \in 1..n
         /\ more[b.decisions[k].count].heard > 0
         /\ b.decisions[k].at = more[b.decisions[k].count].heard
  <2> SUFFICES ASSUME NEW k \in 1..Len(prior.decisions), prior.decisions[k].action # "stop"
               PROVE  /\ prior.decisions[k].count \in 1..n
                      /\ more[prior.decisions[k].count].heard > 0
                      /\ prior.decisions[k].at = more[prior.decisions[k].count].heard
    BY <1>7
  <2>1. PICK m : m = prior.decisions[k].count
    OBVIOUS
  <2>2. m \in 1..n /\ calls[m].heard > 0 /\ prior.decisions[k].at = calls[m].heard
    BY <1>1, <1>2, <2>1 DEF SoundBoundary
  <2>3. m # n /\ more[m] = calls[m]
    BY <1>1, <1>6, <2>2
  <2> QED BY <2>1, <2>2, <2>3
<1>12. SoundBoundary(b)
  BY <1>6, <1>7, <1>10, <1>11 DEF SoundBoundary
<1> QED BY <1>7, <1>9, <1>12

LEMMA RequestKeeps ==
  ASSUME BoundaryInductive, NEW c \in Coordinators, Boundary!RecordDecisionRequest(c)
  PROVE  BoundaryInductive' /\ Standing
<1> DEFINE capsule == coordinators[c].capsule
           r == capsule.revision
           prior == boundaries[r]
           n == coordinators[c].count
<1>1. BoundaryTypes /\ Placed /\ Sound
  BY DEF BoundaryInductive
<1>2. /\ r \in Boundary!Revisions /\ capsule \in Capsules /\ prior \in Boundaries
      /\ n \in 1..2 /\ coordinators[c].at = "asking"
  BY <1>1 DEF Boundary!RecordDecisionRequest, Placed, BoundaryTypes, Coordinations
<1>3. /\ prior.status = "open" /\ Len(prior.calls) = n /\ world \in Worlds
      /\ prior.calls[n].heard = 0 /\ prior.calls[n].capsule = capsule
      /\ capsule.world = world
  BY <1>1 DEF Boundary!RecordDecisionRequest, Boundary!Boundary, Boundary!Current, BoundaryTypes
<1>4. SoundBoundary(prior) /\ heard[r] = Counted(prior) /\ prior.capsule.revision = r
  BY <1>1, <1>2, <1>3 DEF Sound
<1>5. PICK b : b = Received(prior, n, world)
  OBVIOUS
<1>6. /\ b \in Boundaries /\ b.capsule = prior.capsule
      /\ SoundBoundary(b) /\ Counted(b) = Counted(prior) + 1
  <2>1. PICK p \in Boundaries : p = prior
    BY <1>2
  <2>2. PICK m \in 1..2 : m = n
    BY <1>2
  <2>3. PICK w \in Worlds : w = world
    BY <1>3
  <2>4. Unheard(p, m, w) /\ b = Received(p, m, w)
    BY <1>3, <1>4, <1>5, <2>1, <2>2, <2>3 DEF Unheard
  <2>5. /\ b \in Boundaries /\ b.capsule = p.capsule
        /\ SoundBoundary(b) /\ Counted(b) = Counted(p) + 1
    BY <2>1, <2>2, <2>3, <2>4, ReceivedIsSound
  <2> QED BY <2>1, <2>5
<1>7. boundaries' = [boundaries EXCEPT ![r] = b]
  BY <1>5 DEF Boundary!RecordDecisionRequest, Received
<1>8. heard' = [heard EXCEPT ![r] = Counted(b)]
  BY <1>4, <1>6 DEF Boundary!RecordDecisionRequest
<1>9. coordinators' \in [Coordinators -> Coordinations] /\ Placed'
  <2>1. Boundary!To(c, "asked") /\ "asked" \in Places /\ coordinators[c].at # "idle"
    BY <1>2 DEF Boundary!RecordDecisionRequest, Places
  <2> QED BY <1>1, <1>2, <2>1, ToMoves
<1>10. UNCHANGED <<world, task>>
  BY DEF Boundary!RecordDecisionRequest
<1> QED BY <1>2, <1>3, <1>4, <1>6, <1>7, <1>8, <1>9, <1>10, WritesAndMoves

LEMMA UnusableKeeps ==
  ASSUME BoundaryInductive, NEW c \in Coordinators, Boundary!Unusable(c)
  PROVE  BoundaryInductive' /\ Standing
<1>1. BoundaryTypes /\ Placed
  BY DEF BoundaryInductive
<1>2. coordinators[c].at = "asked" /\ coordinators[c] \in Coordinations
  BY <1>1 DEF Boundary!Unusable, Boundary!Resumes, BoundaryTypes
<1>3. PICK at \in {"stopping", "loop"} : at = IF coordinators[c].count = 2 THEN "stopping" ELSE "loop"
  OBVIOUS
<1>4. PICK x : x = [coordinators[c] EXCEPT !.at = at, !.purpose = "repair"]
  OBVIOUS
<1>5. x \in Coordinations /\ x.at = at /\ x.capsule = coordinators[c].capsule
  BY <1>2, <1>4 DEF Coordinations, Places
<1>6. coordinators' = [coordinators EXCEPT ![c] = x]
  BY <1>1, <1>3, <1>4 DEF BoundaryTypes, Boundary!Unusable
<1>7. coordinators' \in [Coordinators -> Coordinations] /\ Placed'
  <2>1. x.capsule.revision \in Boundary!Revisions
    BY <1>1, <1>2, <1>5 DEF Placed
  <2> QED BY <1>1, <1>5, <1>6, <2>1, CoordinatorMoves
<1> QED BY <1>1, <1>7, OnlyMoves DEF Boundary!Unusable, BoundaryTypes

\* A decision on what was asked last, by the model if it is none to stop.
Decides(prior, action, w) ==
  /\ SoundBoundary(prior) /\ prior.status = "open"
  /\ action # "stop" =>
       /\ prior.calls # <<>> /\ prior.calls[Len(prior.calls)].capsule = prior.capsule
       /\ prior.calls[Len(prior.calls)].heard = w

LEMMA DecisionIsSound ==
  ASSUME NEW prior \in Boundaries, NEW action \in Actions, world \in Worlds,
         Decides(prior, action, world), NEW b, b = Boundary!Decided(prior, action)
  PROVE  /\ b \in Boundaries /\ b.capsule = prior.capsule
         /\ SoundBoundary(b) /\ Counted(b) = Counted(prior)
<1>1. PICK status \in {"open", "stopped", "decided"} :
        /\ status = CASE action = "retrieve" -> "open" [] action = "stop" -> "stopped"
                      [] OTHER -> "decided"
        /\ status = "decided" => action # "stop"
  OBVIOUS
<1>2. PICK decisions : decisions = prior.decisions
  OBVIOUS
<1>3. decisions \in Seq(Decisions) /\ Len(prior.calls) \in 0..2
  BY <1>2 DEF Boundaries, Decides, SoundBoundary
<1>4. PICK d : d = [action |-> action, count |-> Len(prior.calls), at |-> world]
  OBVIOUS
<1>5. d \in Decisions
  BY <1>3, <1>4 DEF Decisions
<1>6. PICK more : more = Append(decisions, d)
  OBVIOUS
<1>7. /\ more \in Seq(Decisions) /\ Len(more) = Len(decisions) + 1
      /\ more[Len(decisions) + 1] = d
      /\ \A k \in 1..Len(decisions) : more[k] = decisions[k]
  BY <1>3, <1>5, <1>6
<1>8. /\ b \in Boundaries /\ b.capsule = prior.capsule /\ b.status = status
      /\ b.calls = prior.calls /\ b.decisions = more
  <2>1. b = [prior EXCEPT !.status = status, !.decisions = more]
    BY <1>1, <1>2, <1>4, <1>6 DEF Boundary!Decided
  <2> QED BY <1>7, <2>1 DEF Boundaries
<1>9. Counted(b) = Counted(prior)
  BY <1>8 DEF Counted
<1>10. \A k \in 1..Len(more) : more[k].action # "stop" =>
         /\ more[k].count \in 1..Len(prior.calls)
         /\ prior.calls[more[k].count].heard > 0
         /\ more[k].at = prior.calls[more[k].count].heard
  <2> SUFFICES ASSUME NEW k \in 1..Len(more), more[k].action # "stop"
               PROVE  /\ more[k].count \in 1..Len(prior.calls)
                      /\ prior.calls[more[k].count].heard > 0
                      /\ more[k].at = prior.calls[more[k].count].heard
    OBVIOUS
  <2>1. CASE k \in 1..Len(decisions)
    BY <1>2, <1>7, <2>1 DEF Decides, SoundBoundary
  <2>2. CASE k \notin 1..Len(decisions)
    <3>1. k = Len(decisions) + 1 /\ more[k] = d
      BY <1>3, <1>7, <2>2
    <3>2. action # "stop" /\ d.count = Len(prior.calls) /\ d.at = world
      BY <1>4, <3>1
    <3>3. /\ prior.calls # <<>> /\ prior.calls[Len(prior.calls)].heard = world
      BY <3>2 DEF Decides
    <3>4. Len(prior.calls) \in 1..Len(prior.calls) /\ world > 0
      BY <3>3, BoundaryAssumption DEF Worlds, Boundaries
    <3> QED BY <3>1, <3>2, <3>3, <3>4
  <2> QED BY <2>1, <2>2
<1>11. b.status = "decided" =>
         /\ b.calls # <<>> /\ b.calls[Len(b.calls)].capsule = b.capsule
         /\ b.calls[Len(b.calls)].heard > 0
  BY <1>1, <1>8, BoundaryAssumption DEF Decides, Worlds
<1>12. SoundBoundary(b)
  BY <1>8, <1>10, <1>11 DEF SoundBoundary, Decides
<1> QED BY <1>8, <1>9, <1>12

LEMMA DecisionKeeps ==
  ASSUME BoundaryInductive, NEW r \in Boundary!Revisions, NEW action \in Actions,
         Decides(boundaries[r], action, world),
         Boundary!Store(r, Boundary!Decided(boundaries[r], action)),
         UNCHANGED <<world, task, heard>>,
         coordinators' \in [Coordinators -> Coordinations], Placed'
  PROVE  BoundaryInductive' /\ Standing
<1>1. BoundaryTypes /\ Sound /\ world \in Worlds
  BY DEF BoundaryInductive, BoundaryTypes
<1>2. PICK prior \in Boundaries : prior = boundaries[r]
  BY <1>1 DEF BoundaryTypes
<1>3. PICK b : b = Boundary!Decided(prior, action)
  OBVIOUS
<1>4. Decides(prior, action, world) /\ prior.status = "open"
  BY <1>2 DEF Decides
<1>5. /\ b \in Boundaries /\ b.capsule = prior.capsule
      /\ SoundBoundary(b) /\ Counted(b) = Counted(prior)
  BY <1>1, <1>2, <1>3, <1>4, DecisionIsSound
<1>6. heard[r] = Counted(prior) /\ prior.capsule.revision = r
  BY <1>1, <1>2, <1>4 DEF Sound
<1>7. /\ boundaries' = [boundaries EXCEPT ![r] = b]
      /\ heard' = [heard EXCEPT ![r] = Counted(b)]
  BY <1>1, <1>2, <1>3, <1>5, <1>6 DEF Boundary!Store, BoundaryTypes
<1> QED BY <1>2, <1>4, <1>5, <1>6, <1>7, WritesAndMoves

LEMMA CommitKeeps ==
  ASSUME BoundaryInductive, NEW c \in Coordinators, NEW action \in Actions,
         Boundary!CommitDecision(c, action)
  PROVE  BoundaryInductive' /\ Standing
<1> DEFINE capsule == coordinators[c].capsule
           r == capsule.revision
           n == Len(boundaries[r].calls)
<1>1. BoundaryTypes /\ Placed /\ Sound
  BY DEF BoundaryInductive
<1>2. /\ r \in Boundary!Revisions /\ boundaries[r] \in Boundaries
      /\ coordinators[c] \in Coordinations
      /\ coordinators[c].at = "asked" /\ coordinators[c].count \in 1..2
  BY <1>1 DEF Boundary!CommitDecision, Boundary!Resumes, Placed, BoundaryTypes, Coordinations
<1>3. /\ boundaries[r].status = "open" /\ boundaries[r].capsule = capsule
      /\ capsule.world = world /\ n = coordinators[c].count
      /\ boundaries[r].calls[n].heard > 0
  BY DEF Boundary!CommitDecision, Boundary!Committable, Boundary!Boundary, Boundary!Current
<1>4. boundaries[r].calls[n].capsule = capsule
  <2>1. PICK h : boundaries[r].calls[n] = [capsule |-> capsule, heard |-> h]
    BY DEF Boundary!CommitDecision, Boundary!Boundary
  <2> QED BY <2>1
<1>5. SoundBoundary(boundaries[r])
  BY <1>1, <1>2 DEF Sound
<1>6. Decides(boundaries[r], action, world)
  <2>1. n \in 1..n /\ boundaries[r].calls # <<>>
    BY <1>2, <1>3
  <2>2. boundaries[r].calls[n].heard = world
    BY <1>3, <1>4, <1>5, <2>1 DEF SoundBoundary
  <2> QED BY <1>3, <1>4, <1>5, <2>1, <2>2 DEF Decides
<1>7. /\ Boundary!Store(r, Boundary!Decided(boundaries[r], action))
      /\ UNCHANGED <<world, task, heard>>
  BY DEF Boundary!CommitDecision, Boundary!Boundary
<1>8. coordinators' \in [Coordinators -> Coordinations] /\ Placed'
  <2>1. PICK at \in {"loop", "waiting", "running", "left"} :
          at = IF action = "retrieve" THEN "loop" ELSE Boundary!Follow(action)
    BY DEF Boundary!Follow
  <2>2. PICK x : x = [coordinators[c] EXCEPT !.previous = action, !.at = at]
    OBVIOUS
  <2>3. x \in Coordinations /\ x.at = at /\ x.capsule = capsule
    BY <1>2, <2>2 DEF Coordinations, Places
  <2>4. coordinators' = [coordinators EXCEPT ![c] = x]
    BY <1>1, <2>1, <2>2 DEF BoundaryTypes, Boundary!CommitDecision
  <2> QED BY <1>1, <1>2, <2>3, <2>4, CoordinatorMoves
<1> QED BY <1>2, <1>6, <1>7, <1>8, DecisionKeeps

LEMMA StopKeeps ==
  ASSUME BoundaryInductive, NEW c \in Coordinators, Boundary!Stop(c)
  PROVE  BoundaryInductive' /\ Standing
<1> DEFINE r == coordinators[c].capsule.revision
<1>1. BoundaryTypes /\ Placed /\ Sound
  BY DEF BoundaryInductive
<1>2. coordinators[c].at \in {"stopping", "loop"}
  BY DEF Boundary!Stop, Boundary!Goes
<1>3. r \in Boundary!Revisions
  BY <1>1, <1>2 DEF Placed
<1>4. boundaries[r].status = "open"
  BY DEF Boundary!Stop, Boundary!Committable, Boundary!Boundary
<1>5. Decides(boundaries[r], "stop", world)
  BY <1>1, <1>3, <1>4 DEF Decides, Sound
<1>6. coordinators' \in [Coordinators -> Coordinations] /\ Placed'
  <2>1. Boundary!To(c, "left") /\ "left" \in Places /\ coordinators[c].at # "idle"
    BY <1>2 DEF Boundary!Stop, Places
  <2> QED BY <1>1, <2>1, ToMoves
<1>7. /\ Boundary!Store(r, Boundary!Decided(boundaries[r], "stop"))
      /\ UNCHANGED <<world, task, heard>>
  BY DEF Boundary!Stop, Boundary!Boundary
<1>8. "stop" \in Actions
  BY DEF Actions
<1> QED BY <1>3, <1>5, <1>6, <1>7, <1>8, DecisionKeeps

LEMMA HandOverKeeps ==
  ASSUME BoundaryInductive, NEW c \in Coordinators, Boundary!Execute(c)
  PROVE  BoundaryInductive' /\ Standing
<1>1. BoundaryTypes /\ Placed
  BY DEF BoundaryInductive
<1>2. Boundary!To(c, "starting") /\ "starting" \in Places /\ coordinators[c].at = "running"
  BY DEF Boundary!Execute, Boundary!Goes, Places
<1>3. coordinators' \in [Coordinators -> Coordinations] /\ Placed'
  BY <1>1, <1>2, ToMoves
<1> QED BY <1>1, <1>3, OnlyMoves DEF Boundary!Execute, BoundaryTypes

LEMMA FailKeeps ==
  ASSUME BoundaryInductive, NEW c \in Coordinators, Boundary!Fail(c)
  PROVE  BoundaryInductive' /\ Standing
<1>1. BoundaryTypes /\ Placed
  BY DEF BoundaryInductive
<1>2. coordinators' \in [Coordinators -> Coordinations] /\ Placed'
  BY <1>1, IdleTyped, CoordinatorMoves DEF Boundary!Fail
<1> QED BY <1>1, <1>2, OnlyMoves DEF Boundary!Fail, BoundaryTypes

-----------------------------------------------------------------------------
(* The task, and what it is decided in.                                    *)

LEMMA TaskMoves ==
  ASSUME BoundaryInductive, UNCHANGED <<boundaries, heard>>, world' \in Worlds,
         task' \in [revision : Boundary!Revisions, state : {"READY", "WAITING_INPUT", "RUNNING"},
                    owned : BOOLEAN, started : 0..MaxWorld],
         coordinators' \in [Coordinators -> Coordinations], Placed', Started'
  PROVE  BoundaryInductive' /\ Standing
<1>1. BoundaryTypes'
  BY DEF BoundaryInductive, BoundaryTypes
<1>2. Sound' /\ Standing
  BY DEF BoundaryInductive, Sound, Standing
<1> QED BY <1>1, <1>2 DEF BoundaryInductive

LEMMA WaitKeeps ==
  ASSUME BoundaryInductive, NEW c \in Coordinators, Boundary!CognitiveWait(c)
  PROVE  BoundaryInductive' /\ Standing
<1> DEFINE r == coordinators[c].capsule.revision
<1>1. BoundaryTypes /\ Placed /\ Started
  BY DEF BoundaryInductive
<1>2. Boundary!To(c, "left") /\ "left" \in Places /\ coordinators[c].at = "waiting"
  BY DEF Boundary!CognitiveWait, Boundary!Goes, Places
<1>3. coordinators' \in [Coordinators -> Coordinations] /\ Placed'
  BY <1>1, <1>2, ToMoves
<1>4. UNCHANGED <<world, boundaries, heard>>
  BY DEF Boundary!CognitiveWait
<1>5. CASE UNCHANGED task
  BY <1>1, <1>3, <1>4, <1>5, OnlyMoves DEF BoundaryTypes
<1>6. CASE task.revision = r /\ r < MaxRevision
           /\ task' = [task EXCEPT !.revision = r + 1, !.state = "WAITING_INPUT"]
  <2>1. PICK q : q = r + 1
    OBVIOUS
  <2>2. q \in Boundary!Revisions
    BY <1>1, <1>6, <2>1, BoundaryAssumption DEF BoundaryTypes, Boundary!Revisions
  <2>3. task' \in [revision : Boundary!Revisions, state : {"READY", "WAITING_INPUT", "RUNNING"},
                   owned : BOOLEAN, started : 0..MaxWorld]
        /\ task'.state = "WAITING_INPUT"
    BY <1>1, <1>6, <2>1, <2>2 DEF BoundaryTypes
  <2>4. Started' /\ world' \in Worlds
    BY <1>1, <1>4, <2>3 DEF Started, BoundaryTypes
  <2> QED BY <1>3, <1>4, <2>3, <2>4, TaskMoves
<1> QED BY <1>5, <1>6 DEF Boundary!CognitiveWait

LEMMA StartKeeps ==
  ASSUME BoundaryInductive, NEW c \in Coordinators, Boundary!Start(c)
  PROVE  BoundaryInductive' /\ Standing
<1> DEFINE capsule == coordinators[c].capsule
           r == capsule.revision
           b == boundaries[r]
<1>1. BoundaryTypes /\ Placed /\ Sound
  BY DEF BoundaryInductive
<1>2. Boundary!To(c, "left") /\ "left" \in Places /\ coordinators[c].at = "starting"
  BY DEF Boundary!Start, Boundary!Resumes, Places
<1>3. coordinators' \in [Coordinators -> Coordinations] /\ Placed'
  BY <1>1, <1>2, ToMoves
<1>4. r \in Boundary!Revisions
  BY <1>1, <1>2 DEF Placed
<1>5. /\ b.status = "decided" /\ b.capsule = capsule
      /\ r = task.revision /\ capsule.world = world
      /\ task.revision < MaxRevision /\ UNCHANGED <<world, boundaries, heard>>
  BY DEF Boundary!Start, Boundary!RuntimeCurrent, Boundary!Current
<1>6. /\ b.calls # <<>> /\ b.calls[Len(b.calls)].heard = world
  <2>1. SoundBoundary(b) /\ b \in Boundaries
    BY <1>1, <1>4 DEF Sound, BoundaryTypes
  <2>2. /\ b.calls # <<>> /\ b.calls[Len(b.calls)].capsule = capsule
        /\ b.calls[Len(b.calls)].heard > 0
    BY <1>5, <2>1 DEF SoundBoundary
  <2>3. Len(b.calls) \in 1..Len(b.calls)
    <3>1. PICK calls \in Seq(Calls) : calls = b.calls
      BY <2>1 DEF Boundaries
    <3> QED BY <2>2, <3>1
  <2> QED BY <1>5, <2>1, <2>2, <2>3 DEF SoundBoundary
<1>7. PICK q : q = task.revision + 1
  OBVIOUS
<1>8. q \in Boundary!Revisions /\ q - 1 = task.revision
  BY <1>1, <1>5, <1>7, BoundaryAssumption DEF BoundaryTypes, Boundary!Revisions
<1>9. /\ task' = [task EXCEPT !.revision = q, !.state = "RUNNING", !.started = world]
  BY <1>7 DEF Boundary!Start
<1>10. world \in Worlds /\ world \in 0..MaxWorld /\ world' \in Worlds
  BY <1>1, <1>5, BoundaryAssumption DEF BoundaryTypes, Worlds
<1>11. /\ task' \in [revision : Boundary!Revisions, state : {"READY", "WAITING_INPUT", "RUNNING"},
                    owned : BOOLEAN, started : 0..MaxWorld]
       /\ task'.revision = q /\ task'.started = world
  BY <1>1, <1>8, <1>9, <1>10 DEF BoundaryTypes
<1>12. Started'
  BY <1>4, <1>5, <1>6, <1>8, <1>11 DEF Started
<1> QED BY <1>3, <1>5, <1>10, <1>11, <1>12, TaskMoves

LEMMA WorldChangesKeeps ==
  ASSUME BoundaryInductive, Boundary!WorldChanges
  PROVE  BoundaryInductive' /\ Standing
<1>1. BoundaryTypes /\ Placed /\ Started
  BY DEF BoundaryInductive
<1>2. UNCHANGED <<task, boundaries, heard, coordinators>>
  BY DEF Boundary!WorldChanges
<1>3. world' \in Worlds
  BY <1>1, BoundaryAssumption DEF Boundary!WorldChanges, BoundaryTypes, Worlds
<1>4. Placed' /\ Started'
  BY <1>1, <1>2 DEF Placed, Started
<1> QED BY <1>1, <1>2, <1>3, <1>4, TaskMoves DEF BoundaryTypes

LEMMA UserMovesKeeps ==
  ASSUME BoundaryInductive, Boundary!UserMoves
  PROVE  BoundaryInductive' /\ Standing
<1>1. BoundaryTypes /\ Placed
  BY DEF BoundaryInductive
<1>2. UNCHANGED <<world, boundaries, heard, coordinators>>
  BY DEF Boundary!UserMoves
<1>3. PICK q : q = task.revision + 1
  OBVIOUS
<1>4. q \in Boundary!Revisions /\ 0 \in 0..MaxWorld
  BY <1>1, <1>3, BoundaryAssumption DEF Boundary!UserMoves, BoundaryTypes, Boundary!Revisions
<1>5. task' = [revision |-> q, state |-> "READY", owned |-> TRUE, started |-> 0]
  BY <1>3 DEF Boundary!UserMoves
<1>6. task' \in [revision : Boundary!Revisions, state : {"READY", "WAITING_INPUT", "RUNNING"},
                 owned : BOOLEAN, started : 0..MaxWorld]
  BY <1>4, <1>5
<1>7. Placed' /\ Started'
  BY <1>1, <1>2, <1>5 DEF Placed, Started
<1> QED BY <1>1, <1>2, <1>6, <1>7, TaskMoves DEF BoundaryTypes

LEMMA BoundaryRestartKeeps ==
  ASSUME BoundaryInductive, Boundary!Restart
  PROVE  BoundaryInductive' /\ Standing
<1>1. BoundaryTypes
  BY DEF BoundaryInductive
<1>2. coordinators' \in [Coordinators -> Coordinations] /\ Placed'
  BY IdleTyped DEF Boundary!Restart, Placed
<1>3. /\ task' = [task EXCEPT !.owned = FALSE]
      /\ UNCHANGED <<world, boundaries, heard>>
  BY DEF Boundary!Restart
<1>4. /\ task'.owned = FALSE /\ task'.state = task.state /\ task'.revision = task.revision
      /\ task'.started = task.started
  BY <1>1, <1>3 DEF BoundaryTypes
<1> QED BY <1>2, <1>3, <1>4, OnlyMoves

-----------------------------------------------------------------------------
(* Every step, and what it means.                                          *)

LEMMA BoundaryStep ==
  ASSUME BoundaryInductive, Boundary!Next
  PROVE  BoundaryInductive' /\ Standing
<1>1. CASE Boundary!WorldChanges
  BY <1>1, WorldChangesKeeps
<1>2. CASE Boundary!UserMoves
  BY <1>2, UserMovesKeeps
<1>3. CASE Boundary!Restart
  BY <1>3, BoundaryRestartKeeps
<1>4. ASSUME NEW c \in Coordinators, NEW action \in Actions, Boundary!CommitDecision(c, action)
      PROVE  BoundaryInductive' /\ Standing
  BY <1>4, CommitKeeps
<1>5. ASSUME NEW c \in Coordinators,
             \/ Boundary!Begin(c) \/ Boundary!OpenBoundary(c) \/ Boundary!Replace(c)
             \/ Boundary!ReserveDecisionCall(c) \/ Boundary!RecordDecisionRequest(c)
             \/ Boundary!Unusable(c) \/ Boundary!Stop(c) \/ Boundary!CognitiveWait(c)
             \/ Boundary!Execute(c) \/ Boundary!Start(c) \/ Boundary!Fail(c)
      PROVE  BoundaryInductive' /\ Standing
  BY <1>5, CoordinateKeeps, OpenBoundaryKeeps, ReplaceKeeps, ReserveKeeps, RequestKeeps,
     UnusableKeeps, StopKeeps, WaitKeeps, HandOverKeeps, StartKeeps, FailKeeps
<1> QED BY <1>1, <1>2, <1>3, <1>4, <1>5 DEF Boundary!Next, Actions

\* A task comes to wait for input by the wait of a boundary decided to clarify.
LEMMA WaitsForAQuestion ==
  ASSUME BoundaryInductive, Boundary!Next,
         task.state # "WAITING_INPUT", task'.state = "WAITING_INPUT"
  PROVE  /\ task'.revision = task.revision + 1
         /\ boundaries[task.revision].status = "decided"
         /\ Boundary!Last(boundaries[task.revision].decisions) = "clarify"
<1>1. task \in [revision : Boundary!Revisions, state : {"READY", "WAITING_INPUT", "RUNNING"},
                owned : BOOLEAN, started : 0..MaxWorld]
  BY DEF BoundaryInductive, BoundaryTypes
<1>2. ASSUME NEW c \in Coordinators, Boundary!CognitiveWait(c)
      PROVE  /\ task'.revision = task.revision + 1
             /\ boundaries[task.revision].status = "decided"
             /\ Boundary!Last(boundaries[task.revision].decisions) = "clarify"
  BY <1>1, <1>2 DEF Boundary!CognitiveWait, Boundary!Boundary
<1>3. ASSUME NEW c \in Coordinators
      PROVE  /\ ~Boundary!Start(c)
             /\ ~(Boundary!Begin(c) \/ Boundary!OpenBoundary(c) \/ Boundary!Replace(c)
                  \/ Boundary!ReserveDecisionCall(c) \/ Boundary!RecordDecisionRequest(c)
                  \/ Boundary!Unusable(c) \/ Boundary!Stop(c) \/ Boundary!Execute(c)
                  \/ Boundary!Fail(c))
             /\ \A action : ~Boundary!CommitDecision(c, action)
  <2>1. ~Boundary!Start(c)
    BY <1>1 DEF Boundary!Start
  <2>2. UNCHANGED task => FALSE
    OBVIOUS
  <2>3. ~(Boundary!Begin(c) \/ Boundary!OpenBoundary(c) \/ Boundary!Replace(c)
          \/ Boundary!ReserveDecisionCall(c) \/ Boundary!RecordDecisionRequest(c))
    BY <2>2 DEF Boundary!Begin, Boundary!OpenBoundary, Boundary!Replace,
       Boundary!ReserveDecisionCall, Boundary!RecordDecisionRequest
  <2>4. ~(Boundary!Unusable(c) \/ Boundary!Stop(c) \/ Boundary!Execute(c) \/ Boundary!Fail(c))
        /\ \A action : ~Boundary!CommitDecision(c, action)
    BY <2>2 DEF Boundary!Unusable, Boundary!Stop, Boundary!Execute, Boundary!Fail,
       Boundary!CommitDecision
  <2> QED BY <2>1, <2>3, <2>4
<1>4. ~Boundary!WorldChanges /\ ~Boundary!UserMoves /\ ~Boundary!Restart
  BY <1>1 DEF Boundary!WorldChanges, Boundary!UserMoves, Boundary!Restart
<1> QED BY <1>2, <1>3, <1>4 DEF Boundary!Next

LEMMA BoundaryMeans ==
  ASSUME BoundaryInductive
  PROVE  Boundary!HeardAtMostTwice /\ Boundary!ActsAsAsked
<1>1. Boundary!HeardAtMostTwice
  <2> SUFFICES ASSUME NEW r \in Boundary!Revisions PROVE heard[r] <= 2
    BY DEF Boundary!HeardAtMostTwice
  <2>1. PICK b \in Boundaries : b = boundaries[r]
    BY DEF BoundaryInductive, BoundaryTypes
  <2>2. Len(b.calls) \in 0..2 /\ heard[r] = Counted(b)
    BY <2>1 DEF BoundaryInductive, Sound, SoundBoundary
  <2>3. b.calls # <<>> => Len(b.calls) \in 1..2
    <3>1. PICK calls \in Seq(Calls) : calls = b.calls
      BY DEF Boundaries
    <3> QED BY <2>2, <3>1
  <2>4. Counted(b) \in 0..2
    BY <2>3 DEF Counted
  <2> QED BY <2>2, <2>4
<1>2. ASSUME NEW r \in Boundary!Revisions, NEW k \in 1..Len(boundaries[r].decisions),
             boundaries[r].decisions[k].action # "stop"
      PROVE  boundaries[r].decisions[k].at
               = boundaries[r].calls[boundaries[r].decisions[k].count].heard
  BY <1>2 DEF BoundaryInductive, Sound, SoundBoundary
<1>3. task.state = "RUNNING" =>
        LET b == boundaries[task.revision - 1] IN task.started = b.calls[Len(b.calls)].heard
  BY DEF BoundaryInductive, Started
<1>4. Boundary!ActsAsAsked
  BY <1>2, <1>3 DEF Boundary!ActsAsAsked
<1> QED BY <1>1, <1>4

LEMMA BoundaryInvariance == MCSpec => [](IsBoundary => BoundaryInductive)
<1>1. MCInit => (IsBoundary => BoundaryInductive)
  BY BoundaryStarts DEF MCInit, IsSession, IsOutbox, IsBoundary
<1>2. (IsBoundary => BoundaryInductive) /\ [MCNext]_<<part, vars, outboxVars, boundaryVars>>
        => (IsBoundary => BoundaryInductive)'
  <2> SUFFICES ASSUME IsBoundary => BoundaryInductive,
                      [MCNext]_<<part, vars, outboxVars, boundaryVars>>, IsBoundary'
               PROVE  BoundaryInductive'
    OBVIOUS
  <2>1. IsBoundary
    BY DEF IsBoundary, MCNext
  <2>2. CASE Boundary!Next
    BY <2>1, <2>2, BoundaryStep
  <2>3. CASE UNCHANGED boundaryVars
    BY <2>1, <2>3 DEF boundaryVars, BoundaryInductive, BoundaryTypes, Placed, Sound, Started
  <2> QED BY <2>2, <2>3 DEF MCNext
<1> QED BY <1>1, <1>2, PTL DEF MCSpec

\* What errors, retries, restarts and new capsules cannot break: at a revision of the task
\* the model hears at most two requests, and a decision of the model and the run that starts
\* on it find the world the model was asked in (cognitive-coordinator.ts).
THEOREM ModelIsAskedAndAnswered == MCSpec => []AskedAndAnswered
<1>1. (IsBoundary => BoundaryInductive) => AskedAndAnswered
  BY BoundaryMeans DEF AskedAndAnswered
<1> QED BY <1>1, BoundaryInvariance, PTL

\* What a coordinator decided or stopped no later one changes, and a task comes to wait for
\* input only by the wait of a boundary that was decided to clarify (context-store-v1.ts).
THEOREM DecidedStands == MCSpec => DecisionsStand
<1>1. (IsBoundary => BoundaryInductive) /\ [MCNext]_<<part, vars, outboxVars, boundaryVars>>
        => [IsBoundary => Boundary!Stands]_boundaryVars
  <2> SUFFICES ASSUME IsBoundary, BoundaryInductive,
                      [MCNext]_<<part, vars, outboxVars, boundaryVars>>
               PROVE  Boundary!Stands \/ UNCHANGED boundaryVars
    BY DEF MCNext, IsBoundary, IsSession, IsOutbox
  <2>1. CASE Boundary!Next
    BY <2>1, BoundaryStep, WaitsForAQuestion DEF Boundary!Stands, Standing
  <2> QED BY <2>1 DEF MCNext
<1> QED BY <1>1, BoundaryInvariance, PTL DEF MCSpec, DecisionsStand
=============================================================================
