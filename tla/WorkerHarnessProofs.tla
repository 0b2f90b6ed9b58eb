-------------------------- MODULE WorkerHarnessProofs --------------------------
(***************************************************************************)
(* WorkerHarness for every set of tasks, all bounds, with and without      *)
(* faults: a supervisor is let go only after its worker's end was observed,*)
(* recorded and cleaned up, whoever observes it first (the run, a stop, a  *)
(* lifecycle operation or the next daemon owner); the Store's word on a    *)
(* process is physical; unfinished work has its supervisor; and work       *)
(* begins only as it was admitted.                                         *)
(*                                                                         *)
(* The invariant ties together four actors that share one JavaScript       *)
(* thread but interleave at every await: Rows (what the Store says of      *)
(* executions), Processes (what is true of them), Retained (the supervisor *)
(* the harness keeps), OneRun (what executeTask knows between two awaits), *)
(* OneOperation (what a lifecycle operation has established so far) and    *)
(* Duties (whose task still needs a worker's end).                         *)
(***************************************************************************)
EXTENDS WorkerHarness, FiniteSetTheorems, TLAPS

USE WorkerHarnessAssumption

Allocated(t, k) == executions[t][k] # Store!NoExecution
Stopped(t, k) == executions[t][k].state = "STOPPED"
OnDuty(t) == tasks[t] # Store!NoTask /\ tasks[t].state \in {"RUNNING", "CANCELLING"}

\* An execution is of an attempt its task had; only the present attempt's may be open.
Rows == \A t \in TaskIds, k \in Attempts : Allocated(t, k) =>
  /\ tasks[t] # Store!NoTask /\ k <= tasks[t].attempt
  /\ ~Stopped(t, k) => k = tasks[t].attempt
\* Evidence is of a process that is not running and never will; a closed execution has
\* evidence; a worker nobody retains is closed and its directory removed.
Processes == \A t \in TaskIds, k \in Attempts :
  /\ ~Allocated(t, k) => workers[t][k].life = "none"
  /\ workers[t][k].answer = "evidence" => workers[t][k].asked /\ workers[t][k].life # "running"
  /\ Allocated(t, k) /\ Stopped(t, k) => workers[t][k].answer = "evidence"
  /\ Allocated(t, k) /\ ~Held(t, k) => Stopped(t, k) /\ workers[t][k].root = "removed"
\* A retained supervisor is of an allocated execution, closed once its task is settled.
Retained ==
  /\ live.task = "none" => live = NoLive
  /\ live # NoLive =>
       /\ live.task \in TaskIds /\ live.attempt \in Attempts
       /\ Allocated(live.task, live.attempt)
       /\ live.domainSettled => Stopped(live.task, live.attempt)
\* A run has the supervisor it allocated until it finishes, whatever stops it; it goes from
\* its readiness to the task's start without an await.
OneRun ==
  /\ run # NoRun => run.task \in TaskIds /\ run.attempt \in Attempts
  /\ run.at = "creating" => live = NoLive
  /\ run.at \notin {"idle", "creating"} => Held(run.task, run.attempt) /\ ~live.runFinished
  /\ run.at = "commanding" => thread = "run" /\ ~live.suspended
  /\ run.collecting = "settled" => thread = "collect"
\* No work is admitted during a lifecycle operation or before a close; the reconciliation
\* of a suspended worker keeps it until its directory is gone.
OneOperation ==
  /\ lifecycle # NoLifecycle \/ daemon.closing => daemon.restarting
  /\ lifecycle.operation = "none" <=> lifecycle = NoLifecycle
  /\ lifecycle.at \in {"retainedDisposing", "retainedSettling", "retainedClosing", "retainedSerial"} =>
       live.suspended
  /\ lifecycle.at = "retainedSerial" => workers[live.task][live.attempt].root = "removed"
\* A task that is running or being cancelled has the retained supervisor, unsettled.
Duties == \A t \in TaskIds : OnDuty(t) => Held(t, tasks[t].attempt) /\ ~live.domainSettled

Inductive ==
  TypeOK /\ Rows /\ Processes /\ Retained /\ OneRun /\ OneOperation /\ Duties
-----------------------------------------------------------------------------
(* What the Store's operations do to executions and to duties.             *)

\* No execution begins or ends.
SameExecutions == \A t \in TaskIds, k \in Attempts :
  /\ Allocated(t, k)' <=> Allocated(t, k)
  /\ Allocated(t, k) => (Stopped(t, k)' <=> Stopped(t, k))
\* The retained worker's execution, and no other, is closed.
ClosesRetained ==
  /\ Allocated(live.task, live.attempt) /\ executions'[live.task][live.attempt].state = "STOPPED"
  /\ \A t \in TaskIds, k \in Attempts :
       /\ Allocated(t, k)' <=> Allocated(t, k)
       /\ Allocated(t, k) /\ ~Held(t, k) => (Stopped(t, k)' <=> Stopped(t, k))
\* Whoever is on duty afterwards has the supervisor that is retained now.
DutiesHeld == \A t \in TaskIds :
  OnDuty(t)' => Held(t, tasks'[t].attempt) /\ ~live.domainSettled
NoDuty == \A t \in TaskIds : ~OnDuty(t)'
RowsKept == Store!TypeOK' /\ Rows'
Quiet == RowsKept /\ SameExecutions /\ DutiesHeld

\* What the invariant says of a task's rows.
LEMMA StoreTypes ==
  ASSUME Inductive, NEW t \in TaskIds
  PROVE  /\ Attempts = Store!Attempts
         /\ session \in Store!Sessions /\ session.epoch \in Store!Epochs
         /\ tasks \in [TaskIds -> Store!Tasks \cup {Store!NoTask}]
         /\ tasks[t] # Store!NoTask => tasks[t] \in Store!Tasks /\ tasks[t].attempt \in Attempts
         /\ executions \in [TaskIds -> [Attempts -> Store!Executions \cup {Store!NoExecution}]]
         /\ executions[t] \in [Attempts -> Store!Executions \cup {Store!NoExecution}]
BY DEF Inductive, TypeOK, Store!TypeOK, Store!Sessions, Store!Tasks, Attempts, Store!Attempts

\* An execution that is not closed is the retained one, of its task's present attempt.
LEMMA OpenIsHeld ==
  ASSUME Inductive, NEW t \in TaskIds, NEW k \in Attempts, Allocated(t, k), ~Stopped(t, k)
  PROVE  Held(t, k) /\ tasks[t] # Store!NoTask /\ k = tasks[t].attempt /\ ~live.domainSettled
         /\ live # NoLive
<1>1. Held(t, k) /\ tasks[t] # Store!NoTask /\ k = tasks[t].attempt
  BY DEF Inductive, Processes, Rows
<1>2. live # NoLive
  <2>1. k # 0
    BY DEF Attempts
  <2> QED BY <1>1, <2>1 DEF Held, NoLive
<1> QED BY <1>1, <1>2 DEF Inductive, Retained, Held

\* A transaction that writes one version.
LEMMA PutVersion ==
  ASSUME Inductive, NEW t \in TaskIds, NEW v \in Store!Tasks,
         tasks' = [tasks EXCEPT ![t] = v], executions' = executions, session' \in Store!Sessions,
         \A k \in Attempts : Allocated(t, k) =>
           k <= v.attempt /\ (~Stopped(t, k) => k = v.attempt),
         v.state \in {"RUNNING", "CANCELLING"} => Held(t, v.attempt) /\ ~live.domainSettled
  PROVE  Quiet
<1>1. /\ tasks'[t] = v /\ v # Store!NoTask
      /\ \A u \in TaskIds : u # t => tasks'[u] = tasks[u]
  <2>1. v.attempt # 0
    BY DEF Store!Tasks, Store!Attempts
  <2>2. v # Store!NoTask
    BY <2>1 DEF Store!NoTask
  <2> QED BY <2>2, StoreTypes
<1>2. Store!TypeOK'
  BY DEF Inductive, TypeOK, Store!TypeOK
<1>3. Rows'
  <2> SUFFICES ASSUME NEW u \in TaskIds, NEW k \in Attempts, Allocated(u, k)'
               PROVE  /\ tasks'[u] # Store!NoTask /\ k <= tasks'[u].attempt
                      /\ ~Stopped(u, k)' => k = tasks'[u].attempt
    BY DEF Rows, Attempts
  <2>1. Allocated(u, k) /\ (Stopped(u, k)' <=> Stopped(u, k))
    BY DEF Allocated, Stopped
  <2> QED BY <2>1, <1>1 DEF Inductive, Rows
<1>4. SameExecutions
  BY DEF SameExecutions, Allocated, Stopped
<1>5. DutiesHeld
  BY <1>1 DEF DutiesHeld, OnDuty, Inductive, Duties
<1> QED BY <1>2, <1>3, <1>4, <1>5 DEF Quiet, RowsKept

\* A transaction that writes one execution of a task's present attempt.
LEMMA PutExecution ==
  ASSUME Inductive, NEW t \in TaskIds, tasks[t] # Store!NoTask,
         NEW k \in Attempts, NEW e \in Store!Executions,
         Allocated(t, k) \/ k = tasks[t].attempt,
         Allocated(t, k) /\ e.state # "STOPPED" => ~Stopped(t, k),
         executions' = [executions EXCEPT ![t][k] = e], UNCHANGED <<session, tasks>>
  PROVE  /\ RowsKept /\ DutiesHeld
         /\ Allocated(t, k)' /\ (Stopped(t, k)' <=> e.state = "STOPPED")
         /\ \A u \in TaskIds, j \in Attempts : <<u, j>> # <<t, k>> =>
              executions'[u][j] = executions[u][j]
<1>1. /\ executions'[t][k] = e /\ e # Store!NoExecution
      /\ executions'[t] = [executions[t] EXCEPT ![k] = e]
      /\ \A u \in TaskIds : u # t => executions'[u] = executions[u]
  BY StoreTypes DEF Store!Executions, Store!NoExecution
<1>2. \A u \in TaskIds, j \in Attempts : <<u, j>> # <<t, k>> => executions'[u][j] = executions[u][j]
  BY <1>1, StoreTypes
<1>3. Store!TypeOK'
  <2>1. executions'[t] \in [Attempts -> Store!Executions \cup {Store!NoExecution}]
    BY <1>1, StoreTypes
  <2> QED BY <1>1, <2>1, StoreTypes DEF Inductive, TypeOK, Store!TypeOK
<1>4. Allocated(t, k)' /\ (Stopped(t, k)' <=> e.state = "STOPPED")
  BY <1>1 DEF Allocated, Stopped
<1>5. Rows'
  <2> SUFFICES ASSUME NEW u \in TaskIds, NEW j \in Attempts, Allocated(u, j)'
               PROVE  /\ tasks[u] # Store!NoTask /\ j <= tasks[u].attempt
                      /\ ~Stopped(u, j)' => j = tasks[u].attempt
    BY DEF Rows, Attempts
  <2>1. CASE <<u, j>> = <<t, k>>
    BY <2>1, <1>4, StoreTypes DEF Inductive, Rows, Attempts
  <2>2. CASE <<u, j>> # <<t, k>>
    <3>1. Allocated(u, j) /\ (Stopped(u, j)' <=> Stopped(u, j))
      BY <2>2, <1>2 DEF Allocated, Stopped
    <3> QED BY <3>1 DEF Inductive, Rows
  <2> QED BY <2>1, <2>2
<1>6. DutiesHeld
  BY DEF DutiesHeld, OnDuty, Inductive, Duties
<1> QED BY <1>2, <1>3, <1>4, <1>5, <1>6 DEF RowsKept

\* A new state of an execution that is neither its beginning nor its end.
LEMMA ExecutionMoves ==
  ASSUME Inductive, NEW t \in TaskIds, NEW k \in Attempts, NEW e \in Store!Executions, Allocated(t, k),
         e.state = "STOPPED" <=> Stopped(t, k),
         executions' = [executions EXCEPT ![t][k] = e], UNCHANGED <<session, tasks>>
  PROVE  Quiet
<1>1. tasks[t] # Store!NoTask
  BY DEF Inductive, Rows
<1>2. /\ RowsKept /\ DutiesHeld
      /\ Allocated(t, k)' /\ (Stopped(t, k)' <=> e.state = "STOPPED")
      /\ \A u \in TaskIds, j \in Attempts : <<u, j>> # <<t, k>> =>
           executions'[u][j] = executions[u][j]
  BY <1>1, PutExecution
<1>3. SameExecutions
  <2> SUFFICES ASSUME NEW u \in TaskIds, NEW j \in Attempts
               PROVE  /\ Allocated(u, j)' <=> Allocated(u, j)
                      /\ Allocated(u, j) => (Stopped(u, j)' <=> Stopped(u, j))
    BY DEF SameExecutions, Attempts
  <2>1. CASE <<u, j>> = <<t, k>>
    BY <2>1, <1>2
  <2>2. CASE <<u, j>> # <<t, k>>
    BY <2>2, <1>2 DEF Allocated, Stopped
  <2> QED BY <2>1, <2>2
<1> QED BY <1>2, <1>3 DEF Quiet

\* An unclosed execution is the latest.
LEMMA OpenIsLatest ==
  ASSUME Inductive, NEW t \in TaskIds
  PROVE  Store!OpenLatest(t) <=> \E k \in Attempts : Allocated(t, k) /\ ~Stopped(t, k)
<1>1. ASSUME NEW k \in Attempts, Allocated(t, k), ~Stopped(t, k)
      PROVE  Store!OpenLatest(t)
  <2>1. \A j \in Attempts : Allocated(t, j) => j <= k
    BY <1>1 DEF Inductive, Rows
  <2>2. k \in Store!LatestExecution(t)
    BY <1>1, <2>1 DEF Store!LatestExecution, Store!Allocated, Allocated, Attempts, Store!Attempts
  <2> QED BY <1>1, <2>2 DEF Store!OpenLatest, Store!IsOpen, Store!Allocated, Allocated, Stopped
<1>2. ASSUME Store!OpenLatest(t)
      PROVE  \E k \in Attempts : Allocated(t, k) /\ ~Stopped(t, k)
  BY <1>2 DEF Store!OpenLatest, Store!LatestExecution, Store!IsOpen, Store!Allocated, Allocated,
              Stopped, Attempts, Store!Attempts
<1> QED BY <1>1, <1>2

\* A new attempt.
LEMMA BeginIsQuiet ==
  ASSUME Inductive, NEW t \in TaskIds, NEW ctx \in Store!Epochs, tasks[t] # Store!NoTask,
         ~Store!OpenLatest(t), Store!BeginAttempt(t, ctx)
  PROVE  Quiet
<1> DEFINE v == Store!FirstVersion(tasks[t].attempt + 1, ctx)
<1>1. tasks[t].attempt \in Attempts /\ tasks[t].attempt + 1 \in Attempts
  BY StoreTypes DEF Store!BeginAttempt, Attempts
<1>2. v \in Store!Tasks /\ v.attempt = tasks[t].attempt + 1 /\ v.state = "READY"
  BY <1>1 DEF Store!FirstVersion, Store!Tasks, Store!Unfinished, Store!Attempts, Attempts
<1>3. /\ tasks' = [tasks EXCEPT ![t] = v] /\ executions' = executions
      /\ session' \in Store!Sessions
  BY StoreTypes DEF Store!BeginAttempt, Store!Sessions
<1> HIDE DEF v
<1>4. \A k \in Attempts : Allocated(t, k) => k <= v.attempt /\ Stopped(t, k)
  BY <1>1, <1>2, OpenIsLatest DEF Inductive, Rows, Attempts
<1> QED BY <1>2, <1>3, <1>4, PutVersion

\* A new version of the same attempt.
LEMMA VersionIsQuiet ==
  ASSUME Inductive, NEW t \in TaskIds, NEW v \in Store!Tasks, tasks[t] # Store!NoTask,
         tasks' = [tasks EXCEPT ![t] = v], UNCHANGED <<session, executions>>,
         v.attempt = tasks[t].attempt,
         v.state \in {"RUNNING", "CANCELLING"} => Held(t, tasks[t].attempt) /\ ~live.domainSettled
  PROVE  Quiet
<1>1. session' \in Store!Sessions
  BY StoreTypes
<1>2. \A k \in Attempts : Allocated(t, k) => k <= v.attempt /\ (~Stopped(t, k) => k = v.attempt)
  BY DEF Inductive, Rows
<1> QED BY <1>1, <1>2, PutVersion

\* The present attempt enters a state.
LEMMA ChangeIsQuiet ==
  ASSUME Inductive, NEW t \in TaskIds, NEW ctx \in Store!Epochs,
         NEW state \in Store!Terminal \cup Store!Unfinished, tasks[t] # Store!NoTask,
         Store!Change(t, ctx, state),
         state \in {"RUNNING", "CANCELLING"} => Held(t, tasks[t].attempt) /\ ~live.domainSettled
  PROVE  /\ Quiet /\ executions' = executions
         /\ tasks'[t].state = state /\ tasks'[t].attempt = tasks[t].attempt
         /\ \A u \in TaskIds : u # t => tasks'[u] = tasks[u]
<1> DEFINE v == [[tasks[t] EXCEPT !.state = state, !.pausing = FALSE] EXCEPT !.epoch = ctx]
<1>1. v \in Store!Tasks /\ v.attempt = tasks[t].attempt /\ v.state = state
  BY StoreTypes DEF Store!Tasks
<1>2. tasks' = [tasks EXCEPT ![t] = v] /\ UNCHANGED <<session, executions>>
  BY DEF Store!Change, Store!Enter, Store!Write
<1> HIDE DEF v
<1>3. tasks'[t] = v /\ \A u \in TaskIds : u # t => tasks'[u] = tasks[u]
  BY <1>2, StoreTypes
<1>4. Quiet
  BY <1>1, <1>2, VersionIsQuiet
<1> QED BY <1>1, <1>2, <1>3, <1>4

\* The commands of users.
LEMMA UserStepIsQuiet ==
  ASSUME Inductive, NEW t \in TaskIds, NEW ctx \in Store!Epochs,
         \/ Store!Create(t, ctx) \/ Store!Cancel(t, ctx) \/ Store!Pause(t, ctx)
         \/ Store!Retry(t, ctx) \/ Store!Continue(t, ctx) \/ Store!Revise(t, ctx)
  PROVE  Quiet
<1>1. CASE Store!Create(t, ctx)
  <2> DEFINE v == Store!FirstVersion(1, ctx)
  <2>1. v \in Store!Tasks /\ v.attempt = 1 /\ v.state = "READY"
    BY DEF Store!FirstVersion, Store!Tasks, Store!Unfinished, Store!Attempts
  <2>2. /\ tasks' = [tasks EXCEPT ![t] = v] /\ executions' = executions
        /\ session' \in Store!Sessions /\ tasks[t] = Store!NoTask
    BY <1>1, StoreTypes DEF Store!Create, Store!Sessions, Store!Exists
  <2> HIDE DEF v
  <2>3. \A k \in Attempts : ~Allocated(t, k)
    BY <2>2 DEF Inductive, Rows
  <2> QED BY <2>1, <2>2, <2>3, PutVersion
<1>2. CASE Store!Cancel(t, ctx)
  <2> DEFINE state == IF Store!OpenLatest(t) THEN "CANCELLING" ELSE "CANCELLED"
  <2>1. tasks[t] # Store!NoTask /\ Store!Change(t, ctx, state)
    BY <1>2 DEF Store!Cancel, Store!UserCommand, Store!Exists
  <2>2. state \in Store!Terminal \cup Store!Unfinished /\ state # "RUNNING"
    BY DEF Store!Terminal, Store!Unfinished
  <2>3. state = "CANCELLING" => Held(t, tasks[t].attempt) /\ ~live.domainSettled
    BY OpenIsLatest, OpenIsHeld
  <2> HIDE DEF state
  <2> QED BY <2>1, <2>2, <2>3, ChangeIsQuiet
<1>3. CASE Store!Pause(t, ctx)
  <2> DEFINE v == [[tasks[t] EXCEPT !.pausing = TRUE] EXCEPT !.epoch = ctx]
  <2>1. tasks[t] # Store!NoTask /\ tasks[t].state = "RUNNING"
    BY <1>3 DEF Store!Pause, Store!UserCommand, Store!Exists
  <2>2. v \in Store!Tasks /\ v.attempt = tasks[t].attempt
    BY <2>1, StoreTypes DEF Store!Tasks
  <2>3. tasks' = [tasks EXCEPT ![t] = v] /\ UNCHANGED <<session, executions>>
    BY <1>3 DEF Store!Pause, Store!Write
  <2> HIDE DEF v
  <2>4. Held(t, tasks[t].attempt) /\ ~live.domainSettled
    BY <2>1 DEF Inductive, Duties, OnDuty
  <2> QED BY <2>1, <2>2, <2>3, <2>4, VersionIsQuiet
<1>4. CASE Store!Retry(t, ctx) \/ Store!Continue(t, ctx) \/ Store!Revise(t, ctx)
  BY <1>4, BeginIsQuiet DEF Store!Retry, Store!Continue, Store!Revise, Store!UserCommand, Store!Exists
<1> QED BY <1>1, <1>2, <1>3, <1>4

\* What a run does between its start and the end of its events.
LEMMA RunStepIsQuiet ==
  ASSUME Inductive, NEW t \in TaskIds, NEW ctx,
         \/ Store!RecordRuntimeInput(t, ctx) \/ Store!Start(t, ctx) \/ Store!IngestSettled(t, ctx)
  PROVE  Quiet
<1>1. ctx \in Store!Epochs /\ tasks[t] # Store!NoTask
  BY StoreTypes DEF Store!RecordRuntimeInput, Store!Start, Store!IngestSettled, Store!Owned,
     Store!CurrentTask, Store!Owner, Store!Exists
<1>2. CASE Store!RecordRuntimeInput(t, ctx)
  <2> DEFINE v == [tasks[t] EXCEPT !.input = ctx]
  <2>1. v \in Store!Tasks /\ v.attempt = tasks[t].attempt /\ v.state = tasks[t].state
    BY <1>1, StoreTypes DEF Store!Tasks
  <2>2. tasks' = [tasks EXCEPT ![t] = v] /\ UNCHANGED <<session, executions>> /\ v.state = "READY"
    BY <1>2, <2>1 DEF Store!RecordRuntimeInput
  <2> HIDE DEF v
  <2> QED BY <1>1, <2>1, <2>2, VersionIsQuiet
<1>3. CASE Store!Start(t, ctx)
  <2>1. Allocated(t, tasks[t].attempt) /\ ~Stopped(t, tasks[t].attempt) /\ Store!Change(t, ctx, "RUNNING")
    BY <1>3 DEF Store!Start, Store!Allocated, Allocated, Store!Current, Stopped
  <2>2. Held(t, tasks[t].attempt) /\ ~live.domainSettled
    BY <1>1, <2>1, OpenIsHeld, StoreTypes
  <2>3. "RUNNING" \in Store!Terminal \cup Store!Unfinished
    BY DEF Store!Unfinished
  <2> QED BY <1>1, <2>1, <2>2, <2>3, ChangeIsQuiet
<1>4. CASE Store!IngestSettled(t, ctx)
  <2>1. Store!Change(t, ctx, "VERIFYING") /\ "VERIFYING" \in Store!Terminal \cup Store!Unfinished
    BY <1>4 DEF Store!IngestSettled, Store!Unfinished
  <2> QED BY <1>1, <2>1, ChangeIsQuiet
<1> QED BY <1>2, <1>3, <1>4

\* What a run records of its execution.
LEMMA MarkIsQuiet ==
  ASSUME Inductive, NEW t \in TaskIds, NEW ctx,
         \/ Store!MarkExecutionReady(t, ctx) \/ Store!MarkExecutionDispatched(t, ctx)
         \/ Store!ObserveExecutionBinding(t, ctx)
  PROVE  Quiet
<1> DEFINE k == tasks[t].attempt
<1>1. /\ tasks[t] # Store!NoTask /\ Allocated(t, k) /\ k \in Attempts
      /\ executions[t][k] \in Store!Executions
  BY StoreTypes DEF Store!MarkExecutionReady, Store!MarkExecutionDispatched,
     Store!ObserveExecutionBinding, Store!Owned, Store!CurrentTask, Store!Exists, Store!Allocated, Allocated
<1>2. ~Stopped(t, k)
  BY DEF Store!MarkExecutionReady, Store!MarkExecutionDispatched, Store!ObserveExecutionBinding,
     Store!Current, Stopped
<1>3. CASE Store!MarkExecutionReady(t, ctx)
  <2> DEFINE e == [executions[t][k] EXCEPT !.state = "READY"]
  <2>1. executions' = [executions EXCEPT ![t][k] = e] /\ UNCHANGED <<session, tasks>>
    BY <1>3 DEF Store!MarkExecutionReady, Store!Update, Store!Current
  <2>2. e \in Store!Executions /\ e.state # "STOPPED"
    BY <1>1 DEF Store!Executions
  <2> HIDE DEF e, k
  <2> QED BY <1>1, <1>2, <2>1, <2>2, ExecutionMoves
<1>4. CASE Store!MarkExecutionDispatched(t, ctx)
  <2> DEFINE e == [executions[t][k] EXCEPT !.state = "BUSY", !.dispatched = TRUE]
  <2>1. executions' = [executions EXCEPT ![t][k] = e] /\ UNCHANGED <<session, tasks>>
    BY <1>4 DEF Store!MarkExecutionDispatched, Store!Update, Store!Current
  <2>2. e \in Store!Executions /\ e.state # "STOPPED"
    BY <1>1 DEF Store!Executions
  <2> HIDE DEF e, k
  <2> QED BY <1>1, <1>2, <2>1, <2>2, ExecutionMoves
<1>5. CASE Store!ObserveExecutionBinding(t, ctx)
  <2> DEFINE e == [executions[t][k] EXCEPT !.state = "DRAINING"]
  <2>1. executions' = [executions EXCEPT ![t][k] = e] /\ UNCHANGED <<session, tasks>>
    BY <1>5 DEF Store!ObserveExecutionBinding, Store!Update, Store!Current
  <2>2. e \in Store!Executions /\ e.state # "STOPPED"
    BY <1>1 DEF Store!Executions
  <2> HIDE DEF e, k
  <2> QED BY <1>1, <1>2, <2>1, <2>2, ExecutionMoves
<1> QED BY <1>3, <1>4, <1>5

\* A lease that lapses, a new owner.
LEMMA OthersAreQuiet ==
  ASSUME Inductive,
         \/ \E t \in TaskIds, k \in Attempts : Store!FenceLapses(t, k)
         \/ Store!FenceRestartedOwners \/ UNCHANGED store
  PROVE  Quiet
<1>1. ASSUME NEW t \in TaskIds, NEW k \in Attempts, Store!FenceLapses(t, k)
      PROVE  Quiet
  <2> DEFINE e == [executions[t][k] EXCEPT !.lapsed = TRUE]
  <2>1. executions[t][k] \in Store!Executions /\ Allocated(t, k)
    BY <1>1, StoreTypes DEF Store!FenceLapses, Store!Allocated, Allocated
  <2>2. executions' = [executions EXCEPT ![t][k] = e] /\ UNCHANGED <<session, tasks>>
    <3>1. executions' = [executions EXCEPT ![t][k].lapsed = TRUE]
      BY <1>1 DEF Store!FenceLapses
    <3> QED BY <1>1, <3>1 DEF Store!FenceLapses
  <2>3. e \in Store!Executions /\ (e.state = "STOPPED" <=> Stopped(t, k))
    BY <2>1 DEF Store!Executions, Stopped
  <2> HIDE DEF e
  <2> QED BY <2>1, <2>2, <2>3, ExecutionMoves
<1>2. CASE Store!FenceRestartedOwners \/ UNCHANGED store
  <2>1. session' \in Store!Sessions /\ UNCHANGED <<tasks, executions>>
    <3>1. session \in Store!Sessions
      BY DEF Inductive, TypeOK, Store!TypeOK
    <3>2. CASE Store!FenceRestartedOwners
      BY <3>1, <3>2 DEF Store!FenceRestartedOwners, Store!Sessions, Store!Epochs
    <3>3. CASE UNCHANGED store
      BY <3>1, <3>3 DEF store
    <3> QED BY <1>2, <3>2, <3>3
  <2>2. Store!TypeOK'
    BY <2>1 DEF Inductive, TypeOK, Store!TypeOK
  <2>3. Rows' /\ SameExecutions /\ DutiesHeld
    BY <2>1 DEF Inductive, Rows, Duties, SameExecutions, DutiesHeld, Allocated, Stopped, OnDuty
  <2> QED BY <2>2, <2>3 DEF Quiet, RowsKept
<1> QED BY <1>1, <1>2

\* What closes an execution closes the retained one: no other is open.
LEMMA CloseIsOfRetained ==
  ASSUME Inductive, NEW t \in TaskIds, NEW ctx,
         Store!CloseExecution(t, ctx) \/ Store!RecoverExecutionClose(t, ctx)
  PROVE  RowsKept /\ DutiesHeld /\ ClosesRetained
<1>1. Store!HasOpen(t) /\ tasks[t] # Store!NoTask
  BY DEF Store!CloseExecution, Store!RecoverExecutionClose, Store!CanRecoverClose, Store!Owned,
     Store!CurrentTask, Store!Exists
<1>0. PICK k \in Attempts : k = tasks[t].attempt
  BY <1>1, StoreTypes
<1> DEFINE e == [executions[t][k] EXCEPT !.state = "STOPPED"]
<1>2. k \in Attempts /\ Allocated(t, k) /\ ~Stopped(t, k) /\ executions[t][k] \in Store!Executions
  BY <1>0, <1>1, StoreTypes DEF Store!HasOpen, Store!IsOpen, Store!Allocated, Allocated, Stopped
<1>3. Held(t, k)
  BY <1>2, OpenIsHeld
<1>4. executions' = [executions EXCEPT ![t][k] = e] /\ UNCHANGED <<session, tasks>>
  BY <1>0 DEF Store!CloseExecution, Store!RecoverExecutionClose, Store!Update, Store!Current
<1>5. e \in Store!Executions /\ e.state = "STOPPED"
  BY <1>2 DEF Store!Executions
<1> HIDE DEF e
<1>6. /\ RowsKept /\ DutiesHeld
      /\ Allocated(t, k)' /\ Stopped(t, k)'
      /\ \A u \in TaskIds, j \in Attempts : <<u, j>> # <<t, k>> =>
           executions'[u][j] = executions[u][j]
  BY <1>1, <1>2, <1>4, <1>5, PutExecution
<1>7. ASSUME NEW u \in TaskIds, NEW j \in Attempts
      PROVE  /\ Allocated(u, j)' <=> Allocated(u, j)
             /\ Allocated(u, j) /\ ~Held(u, j) => (Stopped(u, j)' <=> Stopped(u, j))
  <2>1. CASE <<u, j>> = <<t, k>>
    BY <2>1, <1>2, <1>3, <1>6
  <2>2. CASE <<u, j>> # <<t, k>>
    BY <2>2, <1>6 DEF Allocated, Stopped
  <2> QED BY <2>1, <2>2
<1>8. live.task = t /\ live.attempt = k
  BY <1>3 DEF Held
<1>9. /\ Allocated(live.task, live.attempt)
      /\ executions'[live.task][live.attempt].state = "STOPPED"
  BY <1>2, <1>6, <1>8 DEF Allocated, Stopped
<1> QED BY <1>6, <1>7, <1>9 DEF ClosesRetained, Attempts

\* A close that the retained worker's evidence allows.
LEMMA ClosingCloses ==
  ASSUME Inductive, live # NoLive, NEW ctx,
         \/ CloseThrough(ctx) \/ RecoverClose \/ (run.task = live.task /\ CloseOwned)
  PROVE  RowsKept /\ DutiesHeld /\ ClosesRetained
<1>1. live.task \in TaskIds /\ Allocated(live.task, live.attempt)
  BY DEF Inductive, Retained
<1>2. CASE Closed /\ UNCHANGED store
  <2>1. Quiet
    BY <1>2, OthersAreQuiet
  <2>2. executions[live.task][live.attempt].state = "STOPPED" /\ UNCHANGED executions
    BY <1>2 DEF Closed, Execution, store
  <2> QED BY <1>1, <2>1, <2>2 DEF Quiet, ClosesRetained, Allocated, Stopped
<1>3. CASE \E c : \/ Store!CloseExecution(live.task, c)
                  \/ Store!RecoverExecutionClose(live.task, c)
  BY <1>1, <1>3, CloseIsOfRetained
<1> QED BY <1>2, <1>3 DEF CloseThrough, RecoverClose, CloseOwned

\* The settlement of a closed worker leaves nobody on duty.
LEMMA SettlingSettles ==
  ASSUME Inductive, live # NoLive, NEW b \in BOOLEAN, Settles(b)
  PROVE  /\ RowsKept /\ SameExecutions /\ DutiesHeld /\ NoDuty
         /\ Stopped(live.task, live.attempt)
<1>1. live.task \in TaskIds /\ Allocated(live.task, live.attempt) /\ Stopped(live.task, live.attempt)
  BY DEF Inductive, Retained, Settles, Closed, Execution, Stopped
<1>2. \A u \in TaskIds : OnDuty(u) => live.task = u /\ live.attempt = tasks[u].attempt
  BY DEF Inductive, Duties, Held
<1>3. CASE Unsettled(b)
  <2> DEFINE t == live.task
  <2>1. /\ \/ Store!ConfirmStop(t, session.epoch) \/ Store!ConfirmPause(t, session.epoch)
           \/ Store!Interrupted(t, session.epoch)
        /\ t \in TaskIds
    BY <1>1, <1>3 DEF Settles, Settlement
  <2>2. PICK state \in {"CANCELLED", "PAUSED", "UNVERIFIABLE"} : Store!Change(t, session.epoch, state)
    BY <2>1 DEF Store!ConfirmStop, Store!ConfirmPause, Store!Interrupted
  <2>3. tasks[t] # Store!NoTask
    BY <2>1 DEF Store!ConfirmStop, Store!ConfirmPause, Store!Interrupted, Store!Exists
  <2>4. state \in Store!Terminal \cup Store!Unfinished
    BY DEF Store!Terminal, Store!Unfinished, Store!Verified
  <2>5. session.epoch \in Store!Epochs
    BY <2>1, StoreTypes
  <2> HIDE DEF t
  <2>6. /\ Quiet /\ tasks'[t].state = state
        /\ \A u \in TaskIds : u # t => tasks'[u] = tasks[u]
    BY <2>1, <2>2, <2>3, <2>4, <2>5, ChangeIsQuiet
  <2>7. ASSUME NEW u \in TaskIds, OnDuty(u)'
        PROVE  FALSE
    <3>1. CASE u = t
      BY <2>6, <2>7, <3>1 DEF OnDuty
    <3>2. CASE u # t
      BY <2>6, <2>7, <3>2, <1>2 DEF OnDuty, t
    <3> QED BY <3>1, <3>2
  <2> QED BY <1>1, <2>6, <2>7 DEF Quiet, NoDuty
<1>4. CASE ~Unsettled(b)
  <2>1. UNCHANGED store
    BY <1>4 DEF Settles
  <2>2. Quiet
    BY <2>1, OthersAreQuiet
  <2>3. ASSUME NEW u \in TaskIds, OnDuty(u)
        PROVE  FALSE
    BY <1>2, <1>4, <2>3 DEF Unsettled, OnDuty
  <2> QED BY <1>1, <2>1, <2>2, <2>3 DEF Quiet, NoDuty, OnDuty, store
<1> QED BY <1>3, <1>4

-----------------------------------------------------------------------------
(* What a continuation does to the supervisor it is about.                 *)

\* The retained supervisor stays, its worker is perhaps asked to end, and its execution is
\* closed only on evidence.
SameWorker ==
  \/ live' = live
  \/ /\ live # NoLive /\ live' \in LiveWorkers
     /\ live'.task = live.task /\ live'.attempt = live.attempt
     /\ live.suspended => live'.suspended
AsksAtMost ==
  \/ workers' = workers
  \/ live # NoLive /\ workers' = Ask(live.task, live.attempt)
EndsOnEvidence ==
  \/ SameExecutions
  \/ live # NoLive /\ ClosesRetained /\ Worker.answer = "evidence"
\* The supervisor's task is settled only when nobody is on duty.
SettlesLast ==
  \/ DutiesHeld /\ live'.domainSettled = live.domainSettled
  \/ NoDuty /\ live # NoLive /\ Stopped(live.task, live.attempt)
Carries == RowsKept /\ SameWorker /\ AsksAtMost /\ EndsOnEvidence /\ SettlesLast

LEMMA LiveFacts ==
  ASSUME Inductive
  PROVE  /\ live \in LiveWorkers /\ NoLive \in LiveWorkers
         /\ live # NoLive =>
              /\ live.task \in TaskIds /\ live.attempt \in Attempts
              /\ Allocated(live.task, live.attempt) /\ live.attempt # 0 /\ Held(live.task, live.attempt)
         /\ live = NoLive => \A t \in TaskIds, k \in Attempts : ~Held(t, k)
<1>1. NoLive \in LiveWorkers
  BY DEF NoLive, LiveWorkers
<1>2. live = NoLive => live.attempt = 0
  BY DEF NoLive
<1> QED BY <1>1, <1>2 DEF Inductive, TypeOK, Retained, Attempts, Held

LEMMA WorkerTypes ==
  ASSUME Inductive, NEW t \in TaskIds, NEW k \in Attempts
  PROVE  workers \in [TaskIds -> [Attempts -> Workers]] /\ workers[t][k] \in Workers
BY DEF Inductive, TypeOK

\* The retained worker changes.
LEMMA BecomingBecomes ==
  ASSUME Inductive, live # NoLive, NEW w \in Workers, Becomes(w)
  PROVE  /\ workers' \in [TaskIds -> [Attempts -> Workers]]
         /\ workers'[live.task][live.attempt] = w
         /\ \A t \in TaskIds, k \in Attempts : ~Held(t, k) => workers'[t][k] = workers[t][k]
<1>1. live.task \in TaskIds /\ live.attempt \in Attempts
  BY LiveFacts
<1>2. workers \in [TaskIds -> [Attempts -> Workers]]
  BY DEF Inductive, TypeOK
<1>3. /\ workers'[live.task] = [workers[live.task] EXCEPT ![live.attempt] = w]
      /\ \A t \in TaskIds : t # live.task => workers'[t] = workers[t]
      /\ workers' \in [TaskIds -> [Attempts -> Workers]]
  BY <1>1, <1>2 DEF Becomes
<1>4. ASSUME NEW t \in TaskIds, NEW k \in Attempts, ~Held(t, k)
      PROVE  workers'[t][k] = workers[t][k]
  <2>1. CASE t = live.task
    BY <1>1, <1>2, <1>3, <1>4, <2>1 DEF Held
  <2>2. CASE t # live.task
    BY <1>3, <2>2
  <2> QED BY <2>1, <2>2
<1> QED BY <1>1, <1>2, <1>3, <1>4

\* What asking changes of any worker.
LEMMA AskingAsks ==
  ASSUME Inductive, AsksAtMost
  PROVE  /\ workers' \in [TaskIds -> [Attempts -> Workers]]
         /\ \A t \in TaskIds, k \in Attempts :
              /\ workers'[t][k].life = workers[t][k].life
              /\ workers'[t][k].answer = workers[t][k].answer
              /\ workers'[t][k].root = workers[t][k].root
              /\ workers[t][k].asked => workers'[t][k].asked
<1>1. CASE workers' = workers
  BY <1>1 DEF Inductive, TypeOK
<1>2. CASE live # NoLive /\ workers' = Ask(live.task, live.attempt)
  <2> DEFINE w == [Worker EXCEPT !.asked = TRUE]
  <2>1. live.task \in TaskIds /\ live.attempt \in Attempts /\ Worker \in Workers
    BY <1>2, LiveFacts, WorkerTypes DEF Worker
  <2>2. w \in Workers /\ w.life = Worker.life /\ w.answer = Worker.answer /\ w.root = Worker.root
        /\ w.asked
    BY <2>1 DEF Workers
  <2>3. Becomes(w)
    <3>1. workers' = [workers EXCEPT ![live.task][live.attempt].asked = TRUE]
      BY <1>2 DEF Ask
    <3> QED BY <3>1 DEF Worker, Becomes
  <2> HIDE DEF w
  <2>4. /\ workers' \in [TaskIds -> [Attempts -> Workers]]
        /\ workers'[live.task][live.attempt] = w
        /\ \A t \in TaskIds, k \in Attempts : ~Held(t, k) => workers'[t][k] = workers[t][k]
    BY <1>2, <2>2, <2>3, BecomingBecomes
  <2>5. ASSUME NEW t \in TaskIds, NEW k \in Attempts
        PROVE  /\ workers'[t][k].life = workers[t][k].life
               /\ workers'[t][k].answer = workers[t][k].answer
               /\ workers'[t][k].root = workers[t][k].root
               /\ workers[t][k].asked => workers'[t][k].asked
    <3>1. CASE Held(t, k)
      BY <2>2, <2>4, <3>1 DEF Worker, Held
    <3>2. CASE ~Held(t, k)
      <4>1. workers'[t][k] = workers[t][k]
        BY <2>4, <3>2
      <4> QED BY <4>1
    <3> QED BY <3>1, <3>2
  <2> QED BY <2>4, <2>5
<1> QED BY <1>1, <1>2 DEF AsksAtMost

LEMMA CarryingCarries ==
  ASSUME Inductive, Carries
  PROVE  Store!TypeOK' /\ Rows' /\ Processes' /\ Retained' /\ Duties'
         /\ workers' \in [TaskIds -> [Attempts -> Workers]] /\ live' \in LiveWorkers
<1>1. /\ Store!TypeOK' /\ Rows' /\ live' \in LiveWorkers
      /\ live'.task = live.task /\ live'.attempt = live.attempt
      /\ live' = NoLive <=> live = NoLive
  BY LiveFacts DEF Carries, RowsKept, SameWorker, NoLive
<1>2. \A t \in TaskIds, k \in Attempts : Held(t, k)' <=> Held(t, k)
  BY <1>1 DEF Held
<1>3. Processes'
  <2> SUFFICES ASSUME NEW t \in TaskIds, NEW k \in Attempts
               PROVE  /\ ~Allocated(t, k)' => workers'[t][k].life = "none"
                      /\ workers'[t][k].answer = "evidence" =>
                           workers'[t][k].asked /\ workers'[t][k].life # "running"
                      /\ Allocated(t, k)' /\ Stopped(t, k)' => workers'[t][k].answer = "evidence"
                      /\ Allocated(t, k)' /\ ~Held(t, k)' =>
                           Stopped(t, k)' /\ workers'[t][k].root = "removed"
    BY DEF Processes, Attempts
  <2>1. /\ Allocated(t, k)' <=> Allocated(t, k)
        /\ Allocated(t, k) => (Stopped(t, k) /\ ~Held(t, k) => Stopped(t, k)')
        /\ Allocated(t, k) /\ Stopped(t, k)' => Stopped(t, k) \/ workers[t][k].answer = "evidence"
    BY DEF Carries, EndsOnEvidence, SameExecutions, ClosesRetained, Worker, Held
  <2>2. /\ workers'[t][k].life = workers[t][k].life
        /\ workers'[t][k].answer = workers[t][k].answer
        /\ workers'[t][k].root = workers[t][k].root
        /\ workers[t][k].asked => workers'[t][k].asked
    BY AskingAsks DEF Carries
  <2> QED BY <1>2, <2>1, <2>2 DEF Inductive, Processes
<1>4. Retained'
  <2>1. live' # NoLive => live'.task \in TaskIds /\ live'.attempt \in Attempts
    BY <1>1, LiveFacts
  <2>2. live'.task = "none" => live' = NoLive
    BY <1>1 DEF Inductive, Retained
  <2>3. live # NoLive => executions'[live.task][live.attempt] # Store!NoExecution
    BY LiveFacts DEF Carries, EndsOnEvidence, SameExecutions, ClosesRetained, Allocated
  <2>4. live # NoLive /\ Stopped(live.task, live.attempt) =>
          executions'[live.task][live.attempt].state = "STOPPED"
    BY LiveFacts DEF Carries, EndsOnEvidence, SameExecutions, ClosesRetained, Stopped
  <2>5. live # NoLive /\ live'.domainSettled => Stopped(live.task, live.attempt)
    BY DEF Carries, SettlesLast, Inductive, Retained
  <2> QED BY <1>1, <2>1, <2>2, <2>3, <2>4, <2>5 DEF Retained, Allocated, Stopped, Attempts
<1>5. Duties'
  BY <1>1 DEF Carries, SettlesLast, DutiesHeld, NoDuty, Duties, Held
<1> QED BY <1>1, <1>3, <1>4, <1>5, AskingAsks DEF Carries

\* A supervisor is let go.
LetsGo ==
  /\ UNCHANGED <<store, workers>> /\ live # NoLive /\ live' = NoLive
  /\ live.domainSettled /\ Worker.root = "removed"
LEMMA LettingGo ==
  ASSUME Inductive, LetsGo
  PROVE  Store!TypeOK' /\ Rows' /\ Processes' /\ Retained' /\ Duties'
         /\ workers' \in [TaskIds -> [Attempts -> Workers]] /\ live' \in LiveWorkers
<1>1. /\ live.task \in TaskIds /\ live.attempt \in Attempts
      /\ Stopped(live.task, live.attempt)
  BY LiveFacts DEF Inductive, Retained, LetsGo
<1>2. Quiet
  BY OthersAreQuiet DEF LetsGo
<1>3. Processes'
  <2> SUFFICES ASSUME NEW t \in TaskIds, NEW k \in Attempts
               PROVE  /\ ~Allocated(t, k) => workers[t][k].life = "none"
                      /\ workers[t][k].answer = "evidence" =>
                           workers[t][k].asked /\ workers[t][k].life # "running"
                      /\ Allocated(t, k) /\ Stopped(t, k) => workers[t][k].answer = "evidence"
                      /\ Allocated(t, k) => Stopped(t, k) /\ workers[t][k].root = "removed"
    BY DEF Processes, Attempts, LetsGo, store, Allocated, Stopped
  <2>1. CASE Held(t, k)
    BY <1>1, <2>1 DEF Inductive, Processes, LetsGo, Worker, Held
  <2>2. CASE ~Held(t, k)
    BY <2>2 DEF Inductive, Processes
  <2> QED BY <2>1, <2>2
<1>4. Retained'
  BY DEF Retained, LetsGo
<1>5. Duties'
  <2>1. \A t \in TaskIds : ~OnDuty(t)
    BY DEF LetsGo, Inductive, Duties
  <2> QED BY <2>1 DEF Duties, OnDuty, LetsGo, store
<1> QED BY <1>2, <1>3, <1>4, <1>5, LiveFacts DEF Quiet, RowsKept, LetsGo, Inductive, TypeOK

\* The worker of the retained supervisor moves by itself.
LEMMA WorkerMoves ==
  ASSUME Inductive, WorkerContinues
  PROVE  /\ Processes' /\ workers' \in [TaskIds -> [Attempts -> Workers]]
         /\ \A t \in TaskIds, k \in Attempts :
              workers[t][k].root = "removed" => workers'[t][k].root = "removed"
<1>1. /\ live # NoLive /\ UNCHANGED <<store, live>>
      /\ live.task \in TaskIds /\ live.attempt \in Attempts /\ Allocated(live.task, live.attempt)
      /\ Worker \in Workers
  <2>1. live # NoLive /\ UNCHANGED <<store, live>>
    BY DEF WorkerContinues, Spawns, Exits, Answers, Closes, WorkerStep
  <2> QED BY <2>1, LiveFacts, WorkerTypes DEF Worker
<1>2. PICK w \in Workers :
        /\ Becomes(w)
        /\ w.answer = "evidence" => w.asked /\ w.life # "running"
        /\ Worker.answer = "evidence" => w.answer = "evidence"
        /\ Worker.root = "removed" => w.root = "removed"
  <2>0. /\ Worker.answer = "evidence" => Worker.asked /\ Worker.life # "running"
        /\ Worker.asked \in BOOLEAN
    BY <1>1 DEF Inductive, Processes, Worker, Workers
  <2>1. CASE Spawns
    <3> DEFINE w == [Worker EXCEPT !.life = "running"]
    <3>1. w \in Workers /\ w.answer = Worker.answer /\ w.root = Worker.root
      BY <1>1 DEF Workers
    <3>2. Becomes(w) /\ ~Worker.asked
      BY <2>1 DEF Spawns
    <3> HIDE DEF w
    <3> QED BY <2>0, <3>1, <3>2
  <2>2. CASE Exits
    <3> DEFINE w == [Worker EXCEPT !.life = "exited"]
    <3>1. w \in Workers /\ w.answer = Worker.answer /\ w.root = Worker.root /\ w.asked = Worker.asked
          /\ w.life = "exited"
      BY <1>1 DEF Workers
    <3>2. Becomes(w)
      BY <2>2 DEF Exits
    <3> HIDE DEF w
    <3> QED BY <2>0, <3>1, <3>2
  <2>3. ASSUME NEW answer \in {"evidence", "error"}, Worker.asked, Worker.answer = "none",
               answer = "evidence" => Worker.life # "running",
               Becomes([Worker EXCEPT !.answer = answer])
        PROVE  \E w \in Workers :
                 /\ Becomes(w)
                 /\ w.answer = "evidence" => w.asked /\ w.life # "running"
                 /\ Worker.answer = "evidence" => w.answer = "evidence"
                 /\ Worker.root = "removed" => w.root = "removed"
    <3> DEFINE w == [Worker EXCEPT !.answer = answer]
    <3>1. w \in Workers /\ w.answer = answer /\ w.root = Worker.root /\ w.asked = Worker.asked
          /\ w.life = Worker.life
      BY <1>1 DEF Workers
    <3>2. Becomes(w)
      BY <2>3
    <3> HIDE DEF w
    <3> QED BY <2>3, <3>1, <3>2
  <2>4. CASE Answers
    BY <2>3, <2>4 DEF Answers
  <2>5. ASSUME NEW root \in {"removed", "stuck"}, Worker.root = "kept",
               Becomes([Worker EXCEPT !.root = root])
        PROVE  \E w \in Workers :
                 /\ Becomes(w)
                 /\ w.answer = "evidence" => w.asked /\ w.life # "running"
                 /\ Worker.answer = "evidence" => w.answer = "evidence"
                 /\ Worker.root = "removed" => w.root = "removed"
    <3> DEFINE w == [Worker EXCEPT !.root = root]
    <3>1. w \in Workers /\ w.answer = Worker.answer /\ w.asked = Worker.asked /\ w.life = Worker.life
      BY <1>1 DEF Workers
    <3>2. Becomes(w)
      BY <2>5
    <3> HIDE DEF w
    <3> QED BY <2>0, <2>5, <3>1, <3>2
  <2>6. CASE Closes
    BY <2>5, <2>6 DEF Closes
  <2> QED BY <2>1, <2>2, <2>4, <2>6 DEF WorkerContinues
<1>3. /\ workers' \in [TaskIds -> [Attempts -> Workers]]
      /\ workers'[live.task][live.attempt] = w
      /\ \A t \in TaskIds, k \in Attempts : ~Held(t, k) => workers'[t][k] = workers[t][k]
  BY <1>1, <1>2, BecomingBecomes
<1>4. ASSUME NEW t \in TaskIds, NEW k \in Attempts
      PROVE  /\ ~Allocated(t, k) => workers'[t][k].life = "none"
             /\ workers'[t][k].answer = "evidence" =>
                  workers'[t][k].asked /\ workers'[t][k].life # "running"
             /\ Allocated(t, k) /\ Stopped(t, k) => workers'[t][k].answer = "evidence"
             /\ Allocated(t, k) /\ ~Held(t, k) =>
                  Stopped(t, k) /\ workers'[t][k].root = "removed"
             /\ workers[t][k].root = "removed" => workers'[t][k].root = "removed"
  <2>1. CASE Held(t, k)
    <3>1. workers'[t][k] = w /\ workers[t][k] = Worker /\ Held(t, k) /\ Allocated(t, k)
      BY <1>1, <1>3, <2>1 DEF Worker, Held
    <3> QED BY <1>2, <3>1 DEF Inductive, Processes
  <2>2. CASE ~Held(t, k)
    <3>1. workers'[t][k] = workers[t][k]
      BY <1>3, <2>2
    <3> QED BY <3>1 DEF Inductive, Processes
  <2> QED BY <2>1, <2>2
<1>5. Processes'
  BY <1>1, <1>4 DEF Processes, Allocated, Stopped, Held, store, Attempts
<1> QED BY <1>3, <1>4, <1>5

-----------------------------------------------------------------------------
(* What a continuation does to the run and to the lifecycle operation.     *)

Custody ==
  /\ Store!TypeOK /\ Rows /\ Processes /\ Retained /\ Duties
  /\ workers \in [TaskIds -> [Attempts -> Workers]] /\ live \in LiveWorkers
RunPart == run \in Runs /\ (run.at = "idle" <=> run = NoRun) /\ OneRun
OperationPart == lifecycle \in Lifecycles /\ daemon \in Daemons /\ OneOperation
Rest ==
  /\ serial \in Seq(TaskIds) /\ Len(serial) <= MaxQueue
  /\ thread \in {"free", "run", "collect", "stop", "lifecycle"}

LEMMA Parts == Inductive <=> Custody /\ RunPart /\ OperationPart /\ Rest
BY DEF Inductive, TypeOK, Custody, RunPart, OperationPart, Rest
LEMMA PartsNext == Custody' /\ RunPart' /\ OperationPart' /\ Rest' => Inductive'
BY Parts, PTL

\* The retained supervisor is the same, and its run has not finished in this step.
Retains ==
  \/ live' = live
  \/ /\ live # NoLive
     /\ live'.task = live.task /\ live'.attempt = live.attempt /\ live'.runFinished = live.runFinished

LEMMA QuietCarries ==
  ASSUME Inductive, Quiet, SameWorker, AsksAtMost, live'.domainSettled = live.domainSettled
  PROVE  Custody'
BY CarryingCarries DEF Carries, Quiet, EndsOnEvidence, SettlesLast, Custody

\* The run is elsewhere, or where it was.
LEMMA RunGoes ==
  ASSUME Inductive, Retains, run' \in Runs, run.at # "idle",
         run'.task = run.task, run'.attempt = run.attempt,
         run'.at = run.at \/ run.at # "creating",
         run'.at \notin {"idle", "creating"} \/ run'.at = run.at,
         run'.at = "commanding" => thread' = "run" /\ ~live'.suspended,
         run'.collecting # "settled" \/ (run'.collecting = run.collecting /\ thread # "collect")
           \/ thread' = "collect"
  PROVE  RunPart'
<1>1. run' # NoRun /\ run # NoRun /\ run'.at # "idle"
  BY DEF NoRun, Inductive, TypeOK
<1>2. /\ run'.task \in TaskIds /\ run'.attempt \in Attempts
      /\ run'.at = "creating" => live' = NoLive
      /\ run'.at # "creating" => Held(run.task, run.attempt)' /\ ~live'.runFinished
      /\ run'.collecting = "settled" => thread' = "collect"
  BY <1>1 DEF Inductive, OneRun, Retains, Held
<1> QED BY <1>1, <1>2 DEF RunPart, OneRun, Held, Attempts

LEMMA RunStands ==
  ASSUME Inductive, Retains, run' = run,
         run.at # "commanding" \/ (thread' = thread /\ live'.suspended = live.suspended),
         thread # "collect" \/ thread' = thread
  PROVE  RunPart'
BY DEF Inductive, TypeOK, RunPart, OneRun, Retains, Held, Attempts

LEMMA RunEnds ==
  ASSUME run' = NoRun
  PROVE  RunPart'
BY DEF RunPart, OneRun, Runs, NoRun

\* The operation goes on as if nothing had happened, or fails.
LEMMA OperationStands ==
  ASSUME Inductive, daemon' \in Daemons,
         daemon'.closing = daemon.closing, daemon'.restarting = daemon.restarting,
         lifecycle' \in Lifecycles, lifecycle'.operation = lifecycle.operation,
         lifecycle' = lifecycle \/ (lifecycle'.at = "failed" /\ lifecycle # NoLifecycle),
         live.suspended => live'.suspended /\ live'.task = live.task /\ live'.attempt = live.attempt,
         \A t \in TaskIds, k \in Attempts : workers[t][k].root = "removed" => workers'[t][k].root = "removed"
  PROVE  OperationPart'
<1>1. live.suspended => live.task \in TaskIds /\ live.attempt \in Attempts
  BY LiveFacts DEF NoLive
<1>2. lifecycle' = NoLifecycle <=> lifecycle = NoLifecycle
  BY DEF NoLifecycle, Inductive, OneOperation
<1> QED BY <1>1, <1>2 DEF OperationPart, OneOperation, Inductive

\* The operation goes on to a point where it knows nothing of a suspended worker.
LEMMA OperationGoes ==
  ASSUME Inductive, daemon' \in Daemons,
         daemon'.closing = daemon.closing, daemon'.restarting = daemon.restarting,
         lifecycle.operation # "none",
         NEW at \in {"begin", "visit", "stopRetained", "stopAll", "serial", "failed"},
         lifecycle' = [lifecycle EXCEPT !.at = at]
  PROVE  OperationPart'
<1>1. lifecycle' \in Lifecycles /\ lifecycle'.operation = lifecycle.operation /\ lifecycle'.at = at
  BY DEF Inductive, TypeOK, Lifecycles
<1>2. lifecycle' # NoLifecycle /\ lifecycle # NoLifecycle
  BY <1>1 DEF NoLifecycle
<1> QED BY <1>1, <1>2 DEF OperationPart, OneOperation, Inductive

\* An operation that ends admits work again, unless a close waits or has drained.
LEMMA OperationEnds ==
  ASSUME Inductive, NEW d \in Daemons, Ends(d)
  PROVE  OperationPart'
<1>1. lifecycle' = NoLifecycle
  BY DEF Ends
<1>2. daemon' \in Daemons /\ (daemon'.closing => daemon'.restarting)
  <2>1. CASE lifecycle.operation = "close"
    <3> DEFINE e == [d EXCEPT !.closing = FALSE]
    <3>1. e \in Daemons /\ e.closing = FALSE
      BY DEF Daemons
    <3>2. daemon' = [e EXCEPT !.restarting = d.drained]
      BY <2>1 DEF Ends
    <3> HIDE DEF e
    <3> QED BY <3>1, <3>2 DEF Daemons
  <2>2. CASE lifecycle.operation # "close"
    BY <2>2 DEF Ends, Daemons
  <2> QED BY <2>1, <2>2
<1> QED BY <1>1, <1>2 DEF OperationPart, OneOperation, NoLifecycle, Lifecycles

\* What a stop is called for.
LEMMA StopCalledStops ==
  ASSUME Inductive, NEW t, t # "none", StopCalled(t)
  PROVE  SameWorker /\ Retains /\ AsksAtMost
         /\ live'.domainSettled = live.domainSettled /\ live'.suspended = live.suspended
         /\ live'.task = live.task /\ live'.attempt = live.attempt
<1>1. CASE Stoppable(t)
  <2>1. live.task = t /\ live # NoLive /\ live \in LiveWorkers
    BY <1>1, LiveFacts DEF Stoppable, NoLive
  <2>2. live' = [live EXCEPT !.stopping = "disposing"] /\ workers' = Ask(t, live.attempt)
    BY <1>1 DEF StopCalled
  <2> QED BY <2>1, <2>2 DEF SameWorker, Retains, AsksAtMost, LiveWorkers
<1>2. CASE ~Stoppable(t)
  BY <1>2 DEF StopCalled, SameWorker, Retains, AsksAtMost
<1> QED BY <1>1, <1>2

-----------------------------------------------------------------------------
(* One lemma per group of continuations.                                   *)

LEMMA UsersKeep ==
  ASSUME Inductive, NEW t \in TaskIds, AskForWork(t) \/ AskToStop(t) \/ RunTask(t)
  PROVE  Inductive'
<1>1. thread = "free" /\ thread' = "free" /\ UNCHANGED <<run, lifecycle, daemon>>
  BY DEF AskForWork, AskToStop, RunTask
<1>2. Quiet
  <2>1. session.epoch \in Store!Epochs
    BY StoreTypes
  <2>2. CASE UNCHANGED store
    BY <2>2, OthersAreQuiet
  <2> QED BY <2>1, <2>2, UserStepIsQuiet DEF AskForWork, AskToStop, RunTask, store
<1>3. SameWorker /\ Retains /\ AsksAtMost
      /\ live'.domainSettled = live.domainSettled
      /\ (live.suspended => live'.suspended /\ live'.task = live.task /\ live'.attempt = live.attempt)
  <2>1. CASE StopCalled(t)
    BY <2>1, StopCalledStops
  <2>2. CASE UNCHANGED <<live, workers>>
    BY <2>2 DEF SameWorker, Retains, AsksAtMost
  <2> QED BY <2>1, <2>2 DEF AskForWork, AskToStop, RunTask
<1>4. Custody'
  BY <1>2, <1>3, QuietCarries
<1>5. RunPart'
  BY <1>1, <1>3, RunStands DEF Inductive, OneRun
<1>6. OperationPart'
  BY <1>1, <1>3, OperationStands, AskingAsks DEF Inductive, TypeOK
<1>7. Rest'
  <2>1. serial \in Seq(TaskIds) /\ Len(serial) <= MaxQueue
    BY DEF Inductive, TypeOK
  <2>2. serial' = serial \/ (Len(serial) < MaxQueue /\ serial' = Append(serial, t))
    BY DEF AskForWork, AskToStop, RunTask, Enqueue
  <2>3. serial' \in Seq(TaskIds) /\ Len(serial') <= MaxQueue
    BY <2>1, <2>2
  <2> QED BY <1>1, <2>3 DEF Rest
<1> QED BY <1>4, <1>5, <1>6, <1>7, PartsNext

LEMMA LapseKeeps ==
  ASSUME Inductive, NEW t \in TaskIds, NEW k \in Attempts, FenceLapses(t, k)
  PROVE  Inductive'
<1>1. thread = "free" /\ UNCHANGED <<workers, live, run, serial, lifecycle, daemon, thread>>
      /\ Store!FenceLapses(t, k)
  BY DEF FenceLapses
<1>2. SameWorker /\ Retains /\ AsksAtMost
  BY <1>1 DEF SameWorker, Retains, AsksAtMost
<1>3. Quiet
  BY <1>1, OthersAreQuiet
<1>4. Custody'
  BY <1>1, <1>2, <1>3, QuietCarries
<1>5. RunPart'
  BY <1>1, <1>2, RunStands
<1>6. OperationPart'
  BY <1>1, <1>2, OperationStands, AskingAsks DEF Inductive, TypeOK
<1>7. Rest'
  BY <1>1 DEF Rest, Inductive, TypeOK
<1> QED BY <1>4, <1>5, <1>6, <1>7, PartsNext

\* A lifecycle operation or a close is called for.
LEMMA CallsKeep ==
  ASSUME Inductive, CallClose \/ CloseBegins \/ \E o \in Operations \ {"close"} : CallLifecycle(o)
  PROVE  Inductive'
<1>1. thread = "free" /\ UNCHANGED <<store, workers, live, run, serial, thread>>
  BY DEF CallClose, CloseBegins, CallLifecycle
<1>2. SameWorker /\ Retains /\ AsksAtMost
  BY <1>1 DEF SameWorker, Retains, AsksAtMost
<1>3. Custody'
  BY <1>1, <1>2, QuietCarries, OthersAreQuiet
<1>4. RunPart'
  BY <1>1, <1>2, RunStands
<1>5. Rest'
  BY <1>1 DEF Rest, Inductive, TypeOK
<1>6. CASE CallClose
  <2> DEFINE d == [daemon EXCEPT !.closing = TRUE]
  <2>1. d \in Daemons /\ d.closing
    BY DEF Inductive, TypeOK, Daemons
  <2>2. daemon' = [d EXCEPT !.restarting = TRUE] /\ lifecycle' = lifecycle
    BY <1>6 DEF CallClose
  <2> HIDE DEF d
  <2>3. daemon' \in Daemons /\ daemon'.restarting
    BY <2>1, <2>2 DEF Daemons
  <2>4. OperationPart'
    BY <1>1, <2>2, <2>3 DEF OperationPart, OneOperation, Inductive, TypeOK
  <2> QED BY <1>3, <1>4, <1>5, <2>4, PartsNext
<1>7. CASE CloseBegins
  <2>1. lifecycle' = [operation |-> "close", at |-> "begin"] /\ daemon' = daemon /\ daemon.closing
    BY <1>7 DEF CloseBegins
  <2>2. OperationPart'
    BY <2>1 DEF OperationPart, OneOperation, Inductive, TypeOK, Lifecycles, NoLifecycle
  <2> QED BY <1>3, <1>4, <1>5, <2>2, PartsNext
<1>8. CASE \E o \in Operations \ {"close"} : CallLifecycle(o)
  <2>1. PICK o \in Operations \ {"close"} : CallLifecycle(o)
    BY <1>8
  <2>2. lifecycle' = [operation |-> o, at |-> "begin"] /\ daemon' = [daemon EXCEPT !.restarting = TRUE]
    BY <2>1 DEF CallLifecycle
  <2>3. lifecycle' \in Lifecycles /\ lifecycle'.operation # "none" /\ lifecycle'.at = "begin"
    BY <2>2 DEF Lifecycles
  <2>4. daemon' \in Daemons /\ daemon'.restarting
    BY <2>2 DEF Inductive, TypeOK, Daemons
  <2>5. OperationPart'
    BY <2>3, <2>4 DEF OperationPart, OneOperation, NoLifecycle
  <2> QED BY <1>3, <1>4, <1>5, <2>5, PartsNext
<1> QED BY <1>6, <1>7, <1>8

\* The worker's own steps.
LEMMA WorkersKeep ==
  ASSUME Inductive, WorkerContinues
  PROVE  Inductive'
<1>1. /\ live # NoLive /\ UNCHANGED <<store, live, run, serial, lifecycle, daemon, thread>>
  BY DEF WorkerContinues, Spawns, Exits, Answers, Closes, WorkerStep
<1>2. Processes' /\ workers' \in [TaskIds -> [Attempts -> Workers]]
  BY WorkerMoves
<1>3. Custody'
  BY <1>1, <1>2 DEF Custody, Inductive, TypeOK, Store!TypeOK, Rows, Retained, Duties, store,
     Allocated, Stopped, Held, OnDuty
<1>4. RunPart'
  BY <1>1, RunStands DEF Retains
<1>5. OperationPart'
  BY <1>1, WorkerMoves, OperationStands DEF Inductive, TypeOK
<1>6. Rest'
  BY <1>1 DEF Rest, Inductive, TypeOK
<1> QED BY <1>3, <1>4, <1>5, <1>6, PartsNext

\* The places of a run that has its supervisor.
Places ==
  {"starting", "commanding", "marking", "dispatching", "observing", "disposing", "settling", "stopping",
   "joining", "awaiting", "clearing", "clearSettling", "finishing", "left"}

\* A continuation of a run that has its supervisor.
LEMMA RunStepKeeps ==
  ASSUME Inductive, run.at \notin {"idle", "creating"}, thread # "collect", Carries, Retains,
         NEW at \in Places, run' = [run EXCEPT !.at = at],
         at = "commanding" => thread' = "run" /\ ~live'.suspended,
         UNCHANGED <<serial, lifecycle, daemon>>, thread' \in {"free", "run"}
  PROVE  Inductive'
<1>1. run' \in Runs /\ run'.at = at /\ run'.task = run.task /\ run'.attempt = run.attempt
      /\ run'.collecting = run.collecting
  BY DEF Inductive, TypeOK, Runs, Places
<1>2. RunPart'
  BY <1>1, RunGoes DEF Places
<1>3. Custody'
  BY CarryingCarries DEF Custody
<1>4. live.suspended => live'.suspended /\ live'.task = live.task /\ live'.attempt = live.attempt
  BY DEF Carries, SameWorker
<1>5. OperationPart'
  BY <1>4, OperationStands, AskingAsks DEF Carries, Inductive, TypeOK
<1>6. Rest'
  BY DEF Rest, Inductive, TypeOK
<1> QED BY <1>2, <1>3, <1>5, <1>6, PartsNext

\* The supervisor of a run is the retained one.
LEMMA RunIsHeld ==
  ASSUME Inductive, run.at \notin {"idle", "creating"}
  PROVE  /\ live # NoLive /\ live.task = run.task /\ live.attempt = run.attempt
         /\ run.task \in TaskIds /\ run.task # "none"
<1>1. run # NoRun
  BY DEF NoRun
<1> QED BY <1>1 DEF Inductive, OneRun, Held, NoLive

\* finally and catch.
LEMMA Finishing ==
  ASSUME Inductive, run.at \notin {"idle", "creating"}, Finishes \/ Catches
  PROVE  /\ AsksAtMost
         /\ \E at \in Places \ {"commanding"} : run' = [run EXCEPT !.at = at]
<1>1. CASE Finishes
  BY <1>1, RunIsHeld DEF Finishes, Goto, AsksAtMost, Places
<1>2. CASE Catches
  BY <1>1, <1>2, RunIsHeld DEF Catches, Goto, AsksAtMost, Places
<1> QED BY <1>1, <1>2

\* A continuation that ends in finally or catch, whatever it did in the Store.
LEMMA FinishingKeeps ==
  ASSUME Inductive, run.at \notin {"idle", "creating"}, thread # "collect", Finishes \/ Catches,
         RowsKept, SameWorker, Retains, EndsOnEvidence, SettlesLast,
         UNCHANGED <<serial, lifecycle, daemon>>, thread' \in {"free", "run"}
  PROVE  Inductive'
BY Finishing, RunStepKeeps DEF Carries

\* A continuation that only goes on.
LEMMA GoingKeeps ==
  ASSUME Inductive, run.at \notin {"idle", "creating"}, thread # "collect",
         NEW at \in Places, Goto(at), at = "commanding" => thread' = "run" /\ ~live'.suspended,
         RowsKept, SameWorker, AsksAtMost, Retains, EndsOnEvidence, SettlesLast,
         UNCHANGED <<serial, lifecycle, daemon>>, thread' \in {"free", "run"}
  PROVE  Inductive'
BY RunStepKeeps DEF Carries, Goto

\* What holds of a continuation that moves no supervisor and begins and ends no execution.
LEMMA QuietlyCarries ==
  ASSUME Inductive, Quiet, live' = live
  PROVE  RowsKept /\ SameWorker /\ Retains /\ EndsOnEvidence /\ SettlesLast
BY DEF Quiet, SameWorker, Retains, EndsOnEvidence, SettlesLast
LEMMA NothingCarries ==
  ASSUME Inductive, UNCHANGED store, live' = live
  PROVE  RowsKept /\ SameWorker /\ Retains /\ EndsOnEvidence /\ SettlesLast
BY QuietlyCarries, OthersAreQuiet

LEMMA StartedKeeps ==
  ASSUME Inductive, Started
  PROVE  Inductive'
<1> DEFINE Ready == Store!MarkExecutionReady(run.task, run.epoch)
<1>1. run.at = "starting" /\ thread = "free" /\ live' = live /\ UNCHANGED <<serial, lifecycle, daemon>>
  BY DEF Started, Running, RunStep
<1>2. \/ UNCHANGED store /\ (Finishes \/ Catches) /\ thread' = thread
      \/ Ready /\ Goto("commanding") /\ thread' = "run" /\ UNCHANGED workers /\ ~live.suspended
  BY DEF Started, Commit, Throws, Suspended
<1>3. CASE UNCHANGED store /\ (Finishes \/ Catches) /\ thread' = thread
  BY <1>1, <1>3, NothingCarries, FinishingKeeps
<1>4. CASE Ready /\ Goto("commanding") /\ thread' = "run" /\ UNCHANGED workers /\ ~live.suspended
  <2>1. Quiet
    BY <1>1, <1>4, MarkIsQuiet, RunIsHeld
  <2>2. "commanding" \in Places /\ AsksAtMost
    BY <1>4 DEF Places, AsksAtMost
  <2> QED BY <1>1, <1>4, <2>1, <2>2, QuietlyCarries, GoingKeeps
<1> QED BY <1>2, <1>3, <1>4

LEMMA CommandKeeps ==
  ASSUME Inductive, Command
  PROVE  Inductive'
<1> DEFINE Begin1 == Store!Start(run.task, session.epoch)
<1>1. run.at = "commanding" /\ thread = "run" /\ UNCHANGED <<serial, lifecycle, daemon>>
  BY DEF Command, RunStep
<1>2. \/ StopCalled(run.task) /\ Goto("stopping") /\ thread' = "free" /\ UNCHANGED store
      \/ Begin1 /\ Goto("marking") /\ UNCHANGED <<workers, live, thread>>
      \/ UNCHANGED store /\ Catches /\ thread' = "free" /\ UNCHANGED live
  BY DEF Command, Commit, Throws
<1>3. CASE StopCalled(run.task) /\ Goto("stopping") /\ thread' = "free" /\ UNCHANGED store
  <2>1. SameWorker /\ Retains /\ AsksAtMost /\ live'.domainSettled = live.domainSettled
    BY <1>1, <1>3, StopCalledStops, RunIsHeld
  <2>2. Quiet
    BY <1>3, OthersAreQuiet
  <2>3. RowsKept /\ EndsOnEvidence /\ SettlesLast
    BY <2>1, <2>2 DEF Quiet, EndsOnEvidence, SettlesLast
  <2>4. "stopping" \in Places
    BY DEF Places
  <2> QED BY <1>1, <1>3, <2>1, <2>3, <2>4, GoingKeeps
<1>4. CASE Begin1 /\ Goto("marking") /\ UNCHANGED <<workers, live, thread>>
  <2>1. Quiet
    BY <1>1, <1>4, RunStepIsQuiet, RunIsHeld
  <2>2. "marking" \in Places /\ AsksAtMost
    BY <1>4 DEF Places, AsksAtMost
  <2> QED BY <1>1, <1>4, <2>1, <2>2, QuietlyCarries, GoingKeeps
<1>5. CASE UNCHANGED store /\ Catches /\ thread' = "free" /\ UNCHANGED live
  BY <1>1, <1>5, NothingCarries, FinishingKeeps
<1> QED BY <1>2, <1>3, <1>4, <1>5

LEMMA MarkKeeps ==
  ASSUME Inductive, Mark
  PROVE  Inductive'
<1>1. run.at = "marking" /\ thread = "run" /\ thread' = "free" /\ UNCHANGED <<live, serial, lifecycle, daemon>>
  BY DEF Mark, RunStep
<1>2. \/ /\ Store!MarkExecutionDispatched(run.task, run.epoch) /\ UNCHANGED workers
         /\ run' = [run EXCEPT !.at = "dispatching", !.collecting = "events"]
      \/ UNCHANGED store /\ Catches
  BY DEF Mark, Commit, Throws
<1>3. CASE UNCHANGED store /\ Catches
  BY <1>1, <1>3, NothingCarries, FinishingKeeps
<1>4. CASE /\ Store!MarkExecutionDispatched(run.task, run.epoch) /\ UNCHANGED workers
           /\ run' = [run EXCEPT !.at = "dispatching", !.collecting = "events"]
  <2>1. Quiet
    BY <1>1, <1>4, MarkIsQuiet, RunIsHeld
  <2>2. SameWorker /\ AsksAtMost /\ Retains
    BY <1>1, <1>4 DEF SameWorker, AsksAtMost, Retains
  <2>3. Custody'
    BY <1>1, <2>1, <2>2, QuietCarries
  <2> DEFINE r == [run EXCEPT !.at = "dispatching"]
  <2>4. r \in Runs /\ r.at = "dispatching" /\ r.task = run.task /\ r.attempt = run.attempt
    BY DEF Inductive, TypeOK, Runs
  <2>5. run' = [r EXCEPT !.collecting = "events"]
    BY <1>4
  <2> HIDE DEF r
  <2>6. run' \in Runs /\ run'.at = "dispatching" /\ run'.task = run.task /\ run'.attempt = run.attempt
        /\ run'.collecting = "events"
    BY <2>4, <2>5 DEF Runs
  <2>7. RunPart'
    BY <1>1, <2>2, <2>6, RunGoes
  <2>8. OperationPart'
    BY <1>1, <2>2, OperationStands, AskingAsks DEF Inductive, TypeOK
  <2>9. Rest'
    BY <1>1 DEF Rest, Inductive, TypeOK
  <2> QED BY <2>3, <2>7, <2>8, <2>9, PartsNext
<1> QED BY <1>2, <1>3, <1>4

LEMMA DispatchKeeps ==
  ASSUME Inductive, DispatchReturns \/ Observed
  PROVE  Inductive'
<1>1. /\ run.at \in {"dispatching", "observing"} /\ thread = "free" /\ thread' = "free"
      /\ UNCHANGED <<store, live, serial, lifecycle, daemon>>
  BY DEF DispatchReturns, Observed, Running, RunStep
<1>2. RowsKept /\ SameWorker /\ Retains /\ EndsOnEvidence /\ SettlesLast
  BY <1>1, NothingCarries
<1>3. \/ Finishes \/ Catches
      \/ \E at \in {"observing", "joining"} : Goto(at) /\ UNCHANGED workers
      \/ Goto("disposing") /\ workers' = Ask(run.task, run.attempt)
  BY DEF DispatchReturns, Observed
<1>4. CASE Finishes \/ Catches
  BY <1>1, <1>2, <1>4, FinishingKeeps
<1>5. CASE \E at \in {"observing", "joining"} : Goto(at) /\ UNCHANGED workers
  BY <1>1, <1>2, <1>5, GoingKeeps DEF Places, AsksAtMost
<1>6. CASE Goto("disposing") /\ workers' = Ask(run.task, run.attempt)
  <2>1. AsksAtMost
    BY <1>1, <1>6, RunIsHeld DEF AsksAtMost
  <2> QED BY <1>1, <1>2, <1>6, <2>1, GoingKeeps DEF Places
<1> QED BY <1>3, <1>4, <1>5, <1>6

LEMMA DisposedKeeps ==
  ASSUME Inductive, Disposed \/ Cleared
  PROVE  Inductive'
<1>1. /\ run.at \in {"disposing", "clearing"} /\ thread = "free" /\ live' = live
      /\ UNCHANGED <<serial, lifecycle, daemon>>
  BY DEF Disposed, Cleared, Running, RunStep
<1>2. live # NoLive /\ live.task = run.task
  BY <1>1, RunIsHeld
<1>3. \/ UNCHANGED store /\ (Finishes \/ Catches) /\ thread' = thread
      \/ /\ Worker.answer = "evidence" /\ (CloseOwned \/ CloseThrough(run.epoch))
         /\ \E at \in {"settling", "clearSettling"} : Goto(at)
         /\ thread' = "run" /\ UNCHANGED workers
  BY DEF Disposed, Cleared, Commit, Throws
<1>4. CASE UNCHANGED store /\ (Finishes \/ Catches) /\ thread' = thread
  BY <1>1, <1>4, NothingCarries, FinishingKeeps
<1>5. CASE /\ Worker.answer = "evidence" /\ (CloseOwned \/ CloseThrough(run.epoch))
           /\ \E at \in {"settling", "clearSettling"} : Goto(at)
           /\ thread' = "run" /\ UNCHANGED workers
  <2>1. RowsKept /\ DutiesHeld /\ ClosesRetained
    BY <1>2, <1>5, ClosingCloses
  <2>2. EndsOnEvidence /\ SettlesLast /\ SameWorker /\ Retains /\ AsksAtMost
    BY <1>1, <1>2, <1>5, <2>1 DEF EndsOnEvidence, SettlesLast, SameWorker, Retains, AsksAtMost
  <2> QED BY <1>1, <1>5, <2>1, <2>2, GoingKeeps DEF Places
<1> QED BY <1>3, <1>4, <1>5

LEMMA SettleKeeps ==
  ASSUME Inductive, SettleRun \/ SettleCleared
  PROVE  Inductive'
<1>1. /\ run.at \in {"settling", "clearSettling"} /\ thread = "run" /\ thread' = "free"
      /\ UNCHANGED <<serial, lifecycle, daemon>> /\ (Finishes \/ Catches)
  BY DEF SettleRun, SettleCleared, RunStep
<1>2. live # NoLive
  BY <1>1, RunIsHeld
<1>3. \/ Settles(FALSE) /\ live' = [live EXCEPT !.domainSettled = TRUE]
      \/ UNCHANGED store /\ live' = live
  BY DEF SettleRun, SettleCleared, SettlementThrows
<1>4. CASE Settles(FALSE) /\ live' = [live EXCEPT !.domainSettled = TRUE]
  <2>1. RowsKept /\ SameExecutions /\ NoDuty /\ Stopped(live.task, live.attempt)
    BY <1>2, <1>4, SettlingSettles
  <2>2. SameWorker /\ Retains
    BY <1>2, <1>4, LiveFacts DEF SameWorker, Retains, LiveWorkers
  <2>3. EndsOnEvidence /\ SettlesLast
    BY <1>2, <2>1 DEF EndsOnEvidence, SettlesLast
  <2> QED BY <1>1, <2>1, <2>2, <2>3, FinishingKeeps
<1>5. CASE UNCHANGED store /\ live' = live
  BY <1>1, <1>5, NothingCarries, FinishingKeeps
<1> QED BY <1>3, <1>4, <1>5

LEMMA JoinedKeeps ==
  ASSUME Inductive, Joined
  PROVE  Inductive'
<1>1. /\ run.at \in {"stopping", "joining", "awaiting"} /\ thread = "free" /\ thread' = "free"
      /\ UNCHANGED <<store, live, serial, lifecycle, daemon>> /\ Finishes
  BY DEF Joined, Running, RunStep
<1> QED BY <1>1, NothingCarries, FinishingKeeps

\* The head of the queue begins, or is dropped.
LEMMA BeginKeeps ==
  ASSUME Inductive, BeginRun
  PROVE  Inductive'
<1> DEFINE t == Head(serial)
<1>1. /\ run.at = "idle" /\ thread = "free" /\ serial # <<>> /\ serial' = Tail(serial)
      /\ UNCHANGED <<workers, live, thread, lifecycle, daemon>>
  BY DEF BeginRun, Running, RunStep
<1>2. \/ UNCHANGED store /\ run' = run
      \/ /\ live = NoLive /\ Store!RecordRuntimeInput(t, session.epoch)
         /\ run' = [NoRun EXCEPT !.at = "creating", !.task = t,
                      !.attempt = tasks[t].attempt, !.epoch = session.epoch]
  BY DEF BeginRun, Commit, Throws
<1>3. t \in TaskIds /\ serial' \in Seq(TaskIds) /\ Len(serial') <= MaxQueue
  BY <1>1 DEF Inductive, TypeOK
<1>4. SameWorker /\ AsksAtMost /\ Retains
  BY <1>1 DEF SameWorker, AsksAtMost, Retains
<1>5. OperationPart' /\ Rest'
  <2>1. OperationPart'
    BY <1>1, <1>4, OperationStands, AskingAsks DEF Inductive, TypeOK
  <2> QED BY <1>1, <1>3, <2>1 DEF Rest
<1>6. CASE UNCHANGED store /\ run' = run
  <2>1. Custody'
    BY <1>1, <1>4, <1>6, OthersAreQuiet, QuietCarries
  <2>2. RunPart'
    BY <1>1, <1>4, <1>6, RunStands
  <2> QED BY <1>5, <2>1, <2>2, PartsNext
<1>7. CASE /\ live = NoLive /\ Store!RecordRuntimeInput(t, session.epoch)
           /\ run' = [NoRun EXCEPT !.at = "creating", !.task = t,
                        !.attempt = tasks[t].attempt, !.epoch = session.epoch]
  <2>1. Quiet
    BY <1>3, <1>7, RunStepIsQuiet
  <2>2. Custody'
    BY <1>1, <1>4, <2>1, QuietCarries
  <2>3. tasks[t].attempt \in Attempts /\ session.epoch \in Store!Epochs
    BY <1>3, <1>7, StoreTypes DEF Store!RecordRuntimeInput, Store!CurrentTask, Store!Exists
  <2> HIDE DEF t
  <2>4. run' = [at |-> "creating", task |-> t, attempt |-> tasks[t].attempt,
                epoch |-> session.epoch, collecting |-> "none"]
    BY <1>7 DEF NoRun
  <2>5. run' \in Runs
    BY <1>3, <2>3, <2>4 DEF Runs, Store!Epochs
  <2>6. RunPart'
    BY <1>1, <1>3, <1>7, <2>3, <2>4, <2>5 DEF RunPart, OneRun, NoRun, Attempts
  <2> QED BY <1>5, <2>2, <2>6, PartsNext
<1> QED BY <1>2, <1>6, <1>7

\* A supervisor that has just been retained.
Fresh(u, j) == [NoLive EXCEPT !.task = u, !.attempt = j]
LEMMA FreshSupervisor ==
  ASSUME NEW u \in TaskIds, NEW j \in Attempts, NEW l, l = Fresh(u, j)
  PROVE  /\ l \in LiveWorkers /\ l.task = u /\ l.attempt = j /\ ~l.domainSettled
         /\ ~l.runFinished /\ ~l.suspended
<1>1. l = [task |-> u, attempt |-> j, runFinished |-> FALSE, domainSettled |-> FALSE,
           stopping |-> "none", suspended |-> FALSE]
  BY DEF Fresh, NoLive
<1> QED BY <1>1 DEF LiveWorkers, Fresh, NoLive

\* The execution of a run is allocated and its supervisor retained.
LEMMA AllocationKeeps ==
  ASSUME Inductive, run.at = "creating", Unmoved, Store!AllocateExecution(run.task, run.epoch),
         live' = Fresh(run.task, run.attempt), UNCHANGED workers
  PROVE  Custody' /\ live'.task = run.task /\ live'.attempt = run.attempt
         /\ ~live'.runFinished /\ ~live'.suspended
<1>1. live = NoLive
  BY DEF Inductive, OneRun
<1>2. PICK u \in TaskIds, j \in Attempts : u = run.task /\ j = run.attempt
  BY DEF Inductive, OneRun, NoRun
<1> DEFINE e == [state |-> "ALLOCATED", epoch |-> run.epoch, dispatched |-> FALSE, lapsed |-> FALSE]
<1>3. /\ tasks[u] # Store!NoTask /\ tasks[u].attempt = j /\ tasks[u].state = "READY"
      /\ UNCHANGED <<session, tasks>> /\ executions' = [executions EXCEPT ![u][j] = e]
  BY <1>2 DEF Unmoved, Store!AllocateExecution, Store!CurrentTask, Store!Exists
<1>4. ~Allocated(u, j)
  BY <1>2, <1>3 DEF Store!AllocateExecution, Store!Allocated, Allocated
<1>5. e \in Store!Executions /\ e.state = "ALLOCATED"
  BY <1>2, StoreTypes DEF Store!Executions, Store!AllocateExecution, Store!CurrentTask, Store!Owner
<1> HIDE DEF e
<1>7. /\ RowsKept /\ DutiesHeld /\ Allocated(u, j)' /\ (Stopped(u, j)' <=> e.state = "STOPPED")
      /\ \A v \in TaskIds, i \in Attempts : <<v, i>> # <<u, j>> => executions'[v][i] = executions[v][i]
  BY <1>2, <1>3, <1>4, <1>5, PutExecution
<1>8. /\ live' \in LiveWorkers /\ live'.task = u /\ live'.attempt = j /\ ~live'.domainSettled
      /\ ~live'.runFinished /\ ~live'.suspended
  BY <1>2, FreshSupervisor
<1>9. \A v \in TaskIds, i \in Attempts : Held(v, i)' <=> <<v, i>> = <<u, j>>
  BY <1>8 DEF Held
<1>10. Processes'
  <2> SUFFICES ASSUME NEW v \in TaskIds, NEW i \in Attempts
               PROVE  /\ ~Allocated(v, i)' => workers[v][i].life = "none"
                      /\ workers[v][i].answer = "evidence" =>
                           workers[v][i].asked /\ workers[v][i].life # "running"
                      /\ Allocated(v, i)' /\ Stopped(v, i)' => workers[v][i].answer = "evidence"
                      /\ Allocated(v, i)' /\ ~Held(v, i)' =>
                           Stopped(v, i)' /\ workers[v][i].root = "removed"
    BY DEF Processes, Attempts
  <2>1. CASE <<v, i>> = <<u, j>>
    BY <1>2, <1>5, <1>7, <1>9, <2>1 DEF Inductive, Processes
  <2>2. CASE <<v, i>> # <<u, j>>
    <3>1. Allocated(v, i)' <=> Allocated(v, i)
      BY <1>7, <2>2 DEF Allocated
    <3>2. Stopped(v, i)' <=> Stopped(v, i)
      BY <1>7, <2>2 DEF Stopped
    <3>3. ~Held(v, i)
      BY <1>1, LiveFacts
    <3> QED BY <3>1, <3>2, <3>3 DEF Inductive, Processes
  <2> QED BY <2>1, <2>2
<1>11. Retained'
  <2>1. live'.task # "none" /\ live'.task \in TaskIds /\ live'.attempt \in Attempts
    BY <1>2, <1>8
  <2>2. executions'[live'.task][live'.attempt] # Store!NoExecution
    BY <1>7, <1>8 DEF Allocated
  <2> QED BY <1>8, <2>1, <2>2 DEF Retained, Attempts, Allocated
<1>12. Duties'
  <2>1. \A v \in TaskIds : ~OnDuty(v)
    BY <1>1, LiveFacts, StoreTypes DEF Inductive, Duties, OnDuty
  <2> QED BY <1>3, <2>1 DEF Duties, OnDuty
<1> QED BY <1>2, <1>7, <1>8, <1>10, <1>11, <1>12 DEF Custody, RowsKept, Inductive, TypeOK

LEMMA AdmitKeeps ==
  ASSUME Inductive, Admit \/ LetGo
  PROVE  Inductive'
<1>1. /\ run.at = "creating" /\ thread = "free" /\ live = NoLive
      /\ UNCHANGED <<workers, serial, lifecycle, thread>>
  BY DEF Admit, LetGo, Inductive, OneRun
<1>2. Rest'
  BY <1>1 DEF Rest, Inductive, TypeOK
<1>3. ASSUME UNCHANGED store, live' = live
      PROVE  Custody'
  BY <1>1, <1>3, OthersAreQuiet, QuietCarries DEF SameWorker, AsksAtMost
<1>4. ASSUME daemon' \in Daemons, daemon'.closing = daemon.closing, daemon'.restarting = daemon.restarting
      PROVE  OperationPart'
  <2>1. ~live.suspended
    BY <1>1 DEF NoLive
  <2> QED BY <1>1, <1>4, <2>1, OperationStands DEF Inductive, TypeOK
<1>5. \A x \in {"none", "held", "stuck"} :
        LET d == [daemon EXCEPT !.unallocated = x] IN
        d \in Daemons /\ d.closing = daemon.closing /\ d.restarting = daemon.restarting
  BY DEF Inductive, TypeOK, Daemons
<1>6. CASE run' = NoRun /\ UNCHANGED <<store, live>>
           /\ (daemon' = daemon \/ \E x \in {"none", "stuck"} : daemon' = [daemon EXCEPT !.unallocated = x])
  <2>1. OperationPart'
    BY <1>4, <1>5, <1>6 DEF Inductive, TypeOK
  <2> QED BY <1>2, <1>3, <1>6, <2>1, RunEnds, PartsNext
<1>7. CASE run' = run /\ UNCHANGED <<store, live>> /\ daemon' = [daemon EXCEPT !.unallocated = "held"]
  <2>1. OperationPart'
    BY <1>4, <1>5, <1>7
  <2>2. RunPart'
    BY <1>1, <1>7, RunStands DEF Retains
  <2> QED BY <1>2, <1>3, <1>7, <2>1, <2>2, PartsNext
<1>8. CASE /\ Unmoved /\ Store!AllocateExecution(run.task, run.epoch)
           /\ live' = Fresh(run.task, run.attempt)
           /\ run' = [run EXCEPT !.at = "starting"] /\ daemon' = daemon
  <2>1. Custody' /\ live'.task = run.task /\ live'.attempt = run.attempt /\ ~live'.runFinished
    BY <1>1, <1>8, AllocationKeeps
  <2>2. run' \in Runs /\ run'.at = "starting" /\ run'.task = run.task /\ run'.attempt = run.attempt
        /\ run'.collecting = run.collecting
    BY <1>8 DEF Inductive, TypeOK, Runs
  <2>3. run # NoRun /\ run' # NoRun
    BY <1>1, <2>2 DEF NoRun
  <2>4. RunPart'
    BY <1>1, <2>1, <2>2, <2>3 DEF RunPart, OneRun, Inductive, Held, Attempts
  <2>5. OperationPart'
    BY <1>4, <1>8 DEF Inductive, TypeOK
  <2> QED BY <1>2, <2>1, <2>4, <2>5, PartsNext
<1>9. \/ run' = NoRun /\ UNCHANGED <<store, live>>
         /\ (daemon' = daemon \/ \E x \in {"none", "stuck"} : daemon' = [daemon EXCEPT !.unallocated = x])
      \/ run' = run /\ UNCHANGED <<store, live>> /\ daemon' = [daemon EXCEPT !.unallocated = "held"]
      \/ /\ Unmoved /\ Store!AllocateExecution(run.task, run.epoch)
         /\ live' = Fresh(run.task, run.attempt)
         /\ run' = [run EXCEPT !.at = "starting"] /\ daemon' = daemon
  BY DEF Admit, LetGo, Commit, Fresh
<1> QED BY <1>6, <1>7, <1>8, <1>9

\* The end of a run, after which its supervisor may be let go.
LEMMA FinishKeeps ==
  ASSUME Inductive, FinishRun \/ LeaveRun
  PROVE  Inductive'
<1> DEFINE finished == [live EXCEPT !.runFinished = TRUE]
<1>1. /\ run.at \in {"finishing", "left"} /\ thread = "free" /\ run' = NoRun
      /\ UNCHANGED <<store, workers, serial, thread, lifecycle, daemon>>
  BY DEF FinishRun, LeaveRun, Running, RunStep
<1>2. live # NoLive /\ live \in LiveWorkers
  BY <1>1, RunIsHeld, LiveFacts
<1>3. /\ finished \in LiveWorkers /\ finished.task = live.task /\ finished.attempt = live.attempt
      /\ finished.suspended = live.suspended /\ finished.domainSettled = live.domainSettled
  BY <1>2 DEF LiveWorkers
<1>4. \/ live' = finished
      \/ /\ live' = NoLive /\ finished.domainSettled /\ Worker.root = "removed" /\ ~live.suspended
  <2> HIDE DEF finished
  <2>1. CASE FinishRun
    BY <2>1 DEF FinishRun, Released, finished
  <2>2. CASE LeaveRun
    BY <2>2 DEF LeaveRun, finished
  <2> QED BY <2>1, <2>2
<1> HIDE DEF finished
<1>5. Custody'
  <2>1. CASE live' = finished
    <3>1. SameWorker /\ AsksAtMost
      BY <1>1, <1>2, <1>3, <2>1 DEF SameWorker, AsksAtMost
    <3> QED BY <1>1, <1>3, <2>1, <3>1, OthersAreQuiet, QuietCarries
  <2>2. CASE live' = NoLive /\ finished.domainSettled /\ Worker.root = "removed"
    BY <1>1, <1>2, <1>3, <2>2, LettingGo DEF LetsGo, Custody
  <2> QED BY <1>4, <2>1, <2>2
<1>6. OperationPart'
  BY <1>1, <1>3, <1>4, OperationStands DEF Inductive, TypeOK
<1>7. Rest'
  BY <1>1 DEF Rest, Inductive, TypeOK
<1> QED BY <1>1, <1>5, <1>6, <1>7, RunEnds, PartsNext

\* The events of a run.
LEMMA EventsKeep ==
  ASSUME Inductive, CollectSettled \/ IngestSettled \/ StreamBreaks \/ StreamEnds
  PROVE  Inductive'
<1>1. /\ run.collecting \in {"events", "settled"} /\ UNCHANGED <<workers, live, serial, lifecycle, daemon>>
      /\ thread \in {"free", "collect"} /\ thread' \in {"free", "collect"}
  BY DEF CollectSettled, IngestSettled, StreamBreaks, StreamEnds, Collecting, Inductive, OneRun
<1>2. run # NoRun /\ run.at # "idle" /\ run.task \in TaskIds
  BY <1>1 DEF NoRun, Inductive, TypeOK, OneRun
<1>3. Quiet
  <2>1. CASE UNCHANGED store
    BY <2>1, OthersAreQuiet
  <2>2. CASE Store!ObserveExecutionBinding(run.task, run.epoch)
    BY <1>2, <2>2, MarkIsQuiet
  <2>3. CASE Store!IngestSettled(run.task, run.epoch)
    BY <1>2, <2>3, RunStepIsQuiet
  <2> QED BY <2>1, <2>2, <2>3 DEF CollectSettled, IngestSettled, StreamBreaks, StreamEnds, Commit, Throws
<1>4. SameWorker /\ AsksAtMost /\ Retains
  BY <1>1 DEF SameWorker, AsksAtMost, Retains
<1>5. Custody'
  BY <1>1, <1>3, <1>4, QuietCarries
<1>6. PICK c \in {"settled", "ended", "threw"} :
        run' = [run EXCEPT !.collecting = c] /\ (c = "settled" => thread' = "collect")
  BY DEF CollectSettled, IngestSettled, StreamBreaks, StreamEnds
<1>7. run' \in Runs /\ run'.at = run.at /\ run'.task = run.task /\ run'.attempt = run.attempt
      /\ run'.collecting = c
  BY <1>6 DEF Inductive, TypeOK, Runs
<1>8. run.at # "commanding"
  BY <1>1 DEF Inductive, OneRun
<1>9. RunPart'
  BY <1>2, <1>4, <1>6, <1>7, <1>8, RunGoes
<1>10. OperationPart'
  BY <1>1, <1>4, OperationStands, AskingAsks DEF Inductive, TypeOK
<1>11. Rest'
  BY <1>1 DEF Rest, Inductive, TypeOK
<1> QED BY <1>5, <1>9, <1>10, <1>11, PartsNext

\* How far a stop is changes nothing else of the supervisor.
LEMMA StopGoes ==
  ASSUME Inductive, live # NoLive, NEW next \in {"none", "settling", "done"}, StopGoto(next)
  PROVE  SameWorker /\ Retains /\ live'.suspended = live.suspended
         /\ live'.domainSettled = live.domainSettled
BY LiveFacts DEF StopGoto, SameWorker, Retains, LiveWorkers

\* A continuation of a stop or of a lifecycle operation: no run is where it holds the thread.
LEMMA OthersKeep ==
  ASSUME Inductive, Carries, Retains, OperationPart', UNCHANGED <<run, serial>>,
         thread \in {"free", "stop", "lifecycle"}, thread' \in {"free", "stop", "lifecycle"}
  PROVE  Inductive'
<1>1. run.at # "commanding"
  BY DEF Inductive, OneRun
<1>2. RunPart'
  BY <1>1, RunStands
<1>3. Custody'
  BY CarryingCarries DEF Custody
<1>4. Rest'
  BY DEF Rest, Inductive, TypeOK
<1> QED BY <1>2, <1>3, <1>4, PartsNext

LEMMA StopStepKeeps ==
  ASSUME Inductive, Carries, Retains, UNCHANGED <<run, serial, lifecycle, daemon>>,
         thread \in {"free", "stop"}, thread' \in {"free", "stop"}
  PROVE  Inductive'
<1>1. live.suspended => live'.suspended /\ live'.task = live.task /\ live'.attempt = live.attempt
  BY DEF Carries, SameWorker
<1>2. OperationPart'
  BY <1>1, OperationStands, AskingAsks DEF Carries, Inductive, TypeOK
<1> QED BY <1>2, OthersKeep

\* A stop that fails wakes whoever awaits it.
LEMMA StopFailsKeeps ==
  ASSUME Inductive, live # NoLive, StopFails, UNCHANGED store, UNCHANGED <<serial, daemon>>,
         thread \in {"free", "stop"}, thread' = "free"
  PROVE  Inductive'
<1>1. SameWorker /\ Retains /\ AsksAtMost /\ live'.suspended = live.suspended
      /\ live'.domainSettled = live.domainSettled
  BY StopGoes DEF StopFails, AsksAtMost
<1>2. Custody'
  BY <1>1, OthersAreQuiet, QuietCarries
<1>3. RunPart'
  <2>1. PICK at : /\ run' = [run EXCEPT !.at = at]
                  /\ \/ at = run.at
                     \/ /\ run.at \in {"stopping", "joining", "awaiting"}
                        /\ at \in {"left", "clearing", "finishing"}
    BY DEF StopFails
  <2>2. run \in Runs /\ run.at # "commanding"
    BY DEF Inductive, TypeOK, OneRun
  <2>3. CASE at = run.at
    <3>1. run' = run
      BY <2>1, <2>2, <2>3 DEF Runs
    <3> QED BY <1>1, <2>2, <3>1, RunStands
  <2>4. CASE /\ run.at \in {"stopping", "joining", "awaiting"}
             /\ at \in {"left", "clearing", "finishing"}
    <3>1. run' \in Runs /\ run'.at = at /\ run'.task = run.task /\ run'.attempt = run.attempt
          /\ run'.collecting = run.collecting
      BY <2>1, <2>2, <2>4 DEF Runs
    <3> QED BY <1>1, <2>4, <3>1, RunGoes
  <2> QED BY <2>1, <2>3, <2>4
<1>4. OperationPart'
  <2>1. PICK at : /\ lifecycle' = [lifecycle EXCEPT !.at = at]
                  /\ \/ at = lifecycle.at
                     \/ lifecycle.at \in {"stopRetained", "stopAll"} /\ at = "failed"
    BY DEF StopFails
  <2>2. /\ lifecycle' \in Lifecycles /\ lifecycle'.operation = lifecycle.operation
        /\ lifecycle' = lifecycle \/ (lifecycle'.at = "failed" /\ lifecycle # NoLifecycle)
    BY <2>1 DEF Inductive, TypeOK, Lifecycles, NoLifecycle
  <2>3. live.suspended => live'.task = live.task /\ live'.attempt = live.attempt
    BY <1>1 DEF SameWorker
  <2> QED BY <1>1, <2>2, <2>3, OperationStands, AskingAsks DEF Inductive, TypeOK
<1>5. Rest'
  BY DEF Rest, Inductive, TypeOK
<1> QED BY <1>2, <1>3, <1>4, <1>5, PartsNext

LEMMA StopDisposedKeeps ==
  ASSUME Inductive, StopDisposed
  PROVE  Inductive'
<1>1. live # NoLive /\ thread = "free" /\ UNCHANGED <<serial, daemon>>
  BY DEF StopDisposed, StopStep
<1>2. \/ StopFails /\ UNCHANGED store /\ thread' = thread
      \/ StopGoto("done") /\ UNCHANGED <<store, workers, run, lifecycle, thread>>
      \/ /\ Worker.answer = "evidence" /\ CloseThrough(session.epoch) /\ StopGoto("settling")
         /\ thread' = "stop" /\ UNCHANGED <<workers, run, lifecycle>>
  BY DEF StopDisposed, Commit, Throws
<1>3. CASE StopFails /\ UNCHANGED store /\ thread' = thread
  BY <1>1, <1>3, StopFailsKeeps
<1>4. CASE StopGoto("done") /\ UNCHANGED <<store, workers, run, lifecycle, thread>>
  <2>1. Quiet /\ SameWorker /\ Retains /\ live'.domainSettled = live.domainSettled
    BY <1>1, <1>4, OthersAreQuiet, StopGoes
  <2>2. Carries
    BY <1>4, <2>1 DEF Carries, Quiet, AsksAtMost, EndsOnEvidence, SettlesLast
  <2> QED BY <1>1, <1>4, <2>1, <2>2, StopStepKeeps
<1>5. CASE /\ Worker.answer = "evidence" /\ CloseThrough(session.epoch) /\ StopGoto("settling")
           /\ thread' = "stop" /\ UNCHANGED <<workers, run, lifecycle>>
  <2>1. RowsKept /\ DutiesHeld /\ ClosesRetained
    BY <1>1, <1>5, ClosingCloses
  <2>2. SameWorker /\ Retains /\ live'.domainSettled = live.domainSettled
    BY <1>1, <1>5, StopGoes
  <2>3. Carries
    BY <1>1, <1>5, <2>1, <2>2 DEF Carries, AsksAtMost, EndsOnEvidence, SettlesLast
  <2> QED BY <1>1, <1>5, <2>2, <2>3, StopStepKeeps
<1> QED BY <1>2, <1>3, <1>4, <1>5

LEMMA SettleStopKeeps ==
  ASSUME Inductive, SettleStop
  PROVE  Inductive'
<1>1. live # NoLive /\ live \in LiveWorkers /\ thread = "stop" /\ thread' = "free"
      /\ UNCHANGED <<serial, daemon>>
  BY LiveFacts DEF SettleStop, StopStep
<1>2. \/ StopFails /\ UNCHANGED store
      \/ /\ Settles(FALSE) /\ UNCHANGED <<workers, run, lifecycle>>
         /\ live' = [live EXCEPT !.domainSettled = TRUE, !.stopping = "closing"]
  BY DEF SettleStop, SettlementThrows
<1>3. CASE StopFails /\ UNCHANGED store
  BY <1>1, <1>3, StopFailsKeeps
<1>4. CASE /\ Settles(FALSE) /\ UNCHANGED <<workers, run, lifecycle>>
           /\ live' = [live EXCEPT !.domainSettled = TRUE, !.stopping = "closing"]
  <2>1. RowsKept /\ SameExecutions /\ NoDuty /\ Stopped(live.task, live.attempt)
    BY <1>1, <1>4, SettlingSettles
  <2> DEFINE l == [live EXCEPT !.domainSettled = TRUE]
  <2>2. l \in LiveWorkers /\ l.task = live.task /\ l.attempt = live.attempt
        /\ l.suspended = live.suspended /\ l.runFinished = live.runFinished
    BY <1>1 DEF LiveWorkers
  <2>3. live' = [l EXCEPT !.stopping = "closing"]
    BY <1>4
  <2> HIDE DEF l
  <2>4. SameWorker /\ Retains
    BY <1>1, <2>2, <2>3 DEF SameWorker, Retains, LiveWorkers
  <2>5. Carries
    BY <1>1, <1>4, <2>1, <2>4 DEF Carries, AsksAtMost, EndsOnEvidence, SettlesLast
  <2> QED BY <1>1, <1>4, <2>4, <2>5, StopStepKeeps
<1> QED BY <1>2, <1>3, <1>4

\* A stop that has closed the supervisor may let it go, unless a run still knows it.
LEMMA StopClosesKeeps ==
  ASSUME Inductive, StopCloses
  PROVE  Inductive'
<1> DEFINE l == [live EXCEPT !.stopping = "done"]
<1>1. live # NoLive /\ live \in LiveWorkers /\ thread = "free" /\ thread' = "free"
      /\ UNCHANGED <<store, serial, daemon>>
  BY LiveFacts DEF StopCloses, StopStep
<1>2. l \in LiveWorkers /\ l.task = live.task /\ l.attempt = live.attempt /\ l.suspended = live.suspended
      /\ l.runFinished = live.runFinished /\ l.domainSettled = live.domainSettled
  BY <1>1 DEF LiveWorkers
<1> HIDE DEF l
<1>3. \/ StopFails
      \/ live' = l /\ UNCHANGED <<workers, run, lifecycle>>
      \/ /\ live' = NoLive /\ l.runFinished /\ l.domainSettled /\ ~l.suspended /\ Worker.root = "removed"
         /\ UNCHANGED <<workers, run, lifecycle>>
  BY DEF StopCloses, Released, l
<1>4. CASE StopFails
  BY <1>1, <1>4, StopFailsKeeps
<1>5. CASE live' = l /\ UNCHANGED <<workers, run, lifecycle>>
  <2>1. SameWorker /\ Retains
    BY <1>1, <1>2, <1>5 DEF SameWorker, Retains
  <2>2. Carries
    BY <1>1, <1>2, <1>5, <2>1, OthersAreQuiet DEF Carries, Quiet, AsksAtMost, EndsOnEvidence, SettlesLast
  <2> QED BY <1>1, <1>5, <2>1, <2>2, StopStepKeeps
<1>6. CASE /\ live' = NoLive /\ l.runFinished /\ l.domainSettled /\ ~l.suspended /\ Worker.root = "removed"
           /\ UNCHANGED <<workers, run, lifecycle>>
  <2>1. Custody'
    BY <1>1, <1>2, <1>6, LettingGo DEF LetsGo, Custody
  <2>2. RunPart'
    <3>1. run.at \in {"idle", "creating"} /\ run.at # "creating"
      BY <1>1, <1>2, <1>6 DEF Inductive, OneRun
    <3>2. run = NoRun
      BY <3>1 DEF Inductive, TypeOK
    <3> QED BY <1>6, <3>2, RunEnds
  <2>3. OperationPart'
    BY <1>1, <1>2, <1>6, OperationStands DEF Inductive, TypeOK
  <2>4. Rest'
    BY <1>1 DEF Rest, Inductive, TypeOK
  <2> QED BY <2>1, <2>2, <2>3, <2>4, PartsNext
<1> QED BY <1>3, <1>4, <1>5, <1>6

\* The reconciliation of a suspended worker goes on.
LEMMA OperationHolds ==
  ASSUME Inductive, live.suspended, SameWorker, daemon' = daemon, lifecycle.operation # "none",
         NEW at \in {"retainedDisposing", "retainedSettling", "retainedClosing", "retainedSerial"},
         lifecycle' = [lifecycle EXCEPT !.at = at],
         at = "retainedSerial" => live' = live /\ workers' = workers /\ Worker.root = "removed"
  PROVE  OperationPart'
<1>1. lifecycle' \in Lifecycles /\ lifecycle'.operation = lifecycle.operation /\ lifecycle'.at = at
  BY DEF Inductive, TypeOK, Lifecycles
<1>2. lifecycle' # NoLifecycle /\ lifecycle # NoLifecycle
  BY <1>1 DEF NoLifecycle
<1>3. live'.suspended
  BY DEF SameWorker
<1> QED BY <1>1, <1>2, <1>3 DEF OperationPart, OneOperation, Inductive, TypeOK, Worker

\* A continuation of an operation that moves no supervisor.
LEMMA OperationKeeps ==
  ASSUME Inductive, Quiet, live' = live, AsksAtMost, OperationPart', UNCHANGED <<run, serial>>,
         thread = "free", thread' = "free"
  PROVE  Inductive'
BY OthersKeep, QuietlyCarries DEF Carries

LEMMA PresentEnds ==
  ASSUME Inductive, Ends(daemon)
  PROVE  OperationPart'
BY OperationEnds DEF Inductive, TypeOK

\* The replacement of the control plane, done or failed.
LEMMA ReplacementIsQuiet ==
  ASSUME Inductive, lifecycle.operation # "none",
         (Replaces /\ (Ends(Replaced) \/ Visit(Replaced))) \/ ReplacementFails
  PROVE  (UNCHANGED store \/ Store!FenceRestartedOwners) /\ OperationPart'
<1>1. \A r \in {"ready", "reopen", "fence", "fenced"} :
        LET d == [daemon EXCEPT !.replacement = r] IN
        d \in Daemons /\ d.closing = daemon.closing /\ d.restarting = daemon.restarting
  BY DEF Inductive, TypeOK, Daemons
<1>2. CASE Replaces /\ Ends(Replaced)
  BY <1>1, <1>2, OperationEnds DEF Replaced, Replaces
<1>3. CASE Replaces /\ Visit(Replaced)
  <2>1. /\ daemon' \in Daemons /\ daemon'.closing = daemon.closing
        /\ daemon'.restarting = daemon.restarting
    BY <1>1, <1>3 DEF Replaced, Visit
  <2> QED BY <1>3, <2>1, OperationGoes DEF Replaces, Visit
<1>4. CASE ReplacementFails
  <2>1. \/ UNCHANGED store /\ \E phase \in {"reopen", "fence"} : Ends([daemon EXCEPT !.replacement = phase])
        \/ Store!FenceRestartedOwners /\ Ends([daemon EXCEPT !.replacement = "fenced"])
        \/ UNCHANGED store /\ Ends(daemon)
    BY <1>4 DEF ReplacementFails
  <2> QED BY <1>1, <2>1, OperationEnds, PresentEnds
<1> QED BY <1>2, <1>3, <1>4

LEMMA BeginsKeep ==
  ASSUME Inductive, Begin
  PROVE  Inductive'
<1>1. /\ lifecycle.operation # "none" /\ thread = "free" /\ thread' = "free"
      /\ UNCHANGED <<run, serial, workers>>
  BY DEF Begin, LifecycleStep
<1>2. AsksAtMost
  BY <1>1 DEF AsksAtMost
<1>3. (UNCHANGED store \/ Store!FenceRestartedOwners) /\ OperationPart'
  <2>1. CASE Ends(daemon) /\ UNCHANGED store
    BY <2>1, PresentEnds
  <2>2. CASE Visit(daemon) /\ UNCHANGED store
    BY <1>1, <2>2, OperationGoes DEF Visit, Inductive, TypeOK
  <2>3. CASE (Replaces /\ (Ends(Replaced) \/ Visit(Replaced))) \/ ReplacementFails
    BY <1>1, <2>3, ReplacementIsQuiet
  <2>4. CASE Ends([daemon EXCEPT !.closed = TRUE]) /\ UNCHANGED store
    <3>1. [daemon EXCEPT !.closed = TRUE] \in Daemons
      BY DEF Inductive, TypeOK, Daemons
    <3> QED BY <2>4, <3>1, OperationEnds
  <2> QED BY <2>1, <2>2, <2>3, <2>4 DEF Begin
<1>4. SameWorker /\ Retains /\ live'.domainSettled = live.domainSettled
  <2>1. CASE live' = live
    BY <2>1 DEF SameWorker, Retains
  <2>2. CASE live # NoLive /\ live' = [live EXCEPT !.suspended = TRUE]
    BY <2>2, LiveFacts DEF SameWorker, Retains, LiveWorkers
  <2> QED BY <2>1, <2>2 DEF Begin
<1>5. Quiet
  BY <1>3, OthersAreQuiet
<1>6. Carries
  BY <1>2, <1>4, <1>5 DEF Carries, Quiet, EndsOnEvidence, SettlesLast
<1> QED BY <1>1, <1>3, <1>4, <1>6, OthersKeep

\* The reconciliation is over: what is left is stopped, or admitted again.
LEMMA ReconciledKeeps ==
  ASSUME Inductive, Reconciled, lifecycle.operation # "none", UNCHANGED <<run, serial, store>>,
         thread = "free", thread' = "free"
  PROVE  Inductive'
<1>1. CASE Ends(daemon) /\ UNCHANGED <<live, workers>>
  BY <1>1, PresentEnds, OperationKeeps, OthersAreQuiet DEF AsksAtMost
<1>2. CASE LifecycleGoto("stopAll") /\ UNCHANGED <<live, workers>>
  <2>1. OperationPart'
    BY <1>2, OperationGoes DEF LifecycleGoto, Inductive, TypeOK
  <2> QED BY <1>2, <2>1, OperationKeeps, OthersAreQuiet DEF AsksAtMost
<1>3. CASE LifecycleGoto("stopAll") /\ live # NoLive /\ StopCalled(live.task)
  <2>1. OperationPart'
    BY <1>3, OperationGoes DEF LifecycleGoto, Inductive, TypeOK
  <2>2. live.task # "none"
    BY <1>3 DEF Inductive, Retained
  <2>3. SameWorker /\ Retains /\ AsksAtMost /\ live'.domainSettled = live.domainSettled
    BY <1>3, <2>2, StopCalledStops
  <2>4. Carries
    BY <2>3, OthersAreQuiet DEF Carries, Quiet, EndsOnEvidence, SettlesLast
  <2> QED BY <2>1, <2>3, <2>4, OthersKeep
<1> QED BY <1>1, <1>2, <1>3 DEF Reconciled

LEMMA VisitsKeep ==
  ASSUME Inductive, Visits \/ RetainedStopped
  PROVE  Inductive'
<1>1. /\ lifecycle.operation # "none" /\ thread = "free" /\ thread' = "free"
      /\ UNCHANGED <<run, serial, store>>
  BY DEF Visits, RetainedStopped, LifecycleStep
<1>2. CASE Reconciled
  BY <1>1, <1>2, ReconciledKeeps
<1>3. CASE LifecycleGoto("stopRetained") /\ live # NoLive /\ StopCalled(live.task)
  <2>1. OperationPart'
    BY <1>1, <1>3, OperationGoes DEF LifecycleGoto, Inductive, TypeOK
  <2>2. live.task # "none"
    BY <1>3 DEF Inductive, Retained
  <2>3. SameWorker /\ Retains /\ AsksAtMost /\ live'.domainSettled = live.domainSettled
    BY <1>3, <2>2, StopCalledStops
  <2>4. Carries
    BY <1>1, <2>3, OthersAreQuiet DEF Carries, Quiet, EndsOnEvidence, SettlesLast
  <2> QED BY <1>1, <2>1, <2>3, <2>4, OthersKeep
<1>4. CASE /\ live # NoLive /\ live.suspended /\ LifecycleGoto("retainedDisposing")
           /\ workers' = Ask(live.task, live.attempt) /\ UNCHANGED live
  <2>1. AsksAtMost /\ SameWorker
    BY <1>4 DEF AsksAtMost, SameWorker
  <2>2. OperationPart'
    BY <1>1, <1>4, <2>1, OperationHolds DEF LifecycleGoto
  <2> QED BY <1>1, <1>4, <2>1, <2>2, OperationKeeps, OthersAreQuiet
<1>5. CASE Ends(daemon) /\ UNCHANGED <<live, workers>>
  BY <1>1, <1>5, PresentEnds, OperationKeeps, OthersAreQuiet DEF AsksAtMost
<1> QED BY <1>2, <1>3, <1>4, <1>5 DEF Visits, RetainedStopped

LEMMA RetainedKeeps ==
  ASSUME Inductive, RetainedDisposed
  PROVE  Inductive'
<1>1. /\ lifecycle.operation # "none" /\ thread = "free" /\ live.suspended /\ live # NoLive
      /\ UNCHANGED <<run, serial, workers, live>>
  BY DEF RetainedDisposed, LifecycleStep, Inductive, OneOperation, NoLive
<1>2. \/ Ends(daemon) /\ UNCHANGED store /\ thread' = thread
      \/ /\ Worker.answer = "evidence" /\ RecoverClose /\ LifecycleGoto("retainedSettling")
         /\ thread' = "lifecycle"
  BY DEF RetainedDisposed, Commit, Throws
<1>3. CASE Ends(daemon) /\ UNCHANGED store /\ thread' = thread
  BY <1>1, <1>3, PresentEnds, OperationKeeps, OthersAreQuiet DEF AsksAtMost
<1>4. CASE /\ Worker.answer = "evidence" /\ RecoverClose /\ LifecycleGoto("retainedSettling")
           /\ thread' = "lifecycle"
  <2>1. RowsKept /\ DutiesHeld /\ ClosesRetained
    BY <1>1, <1>4, ClosingCloses
  <2>2. SameWorker /\ Retains
    BY <1>1 DEF SameWorker, Retains
  <2>3. OperationPart'
    BY <1>1, <1>4, <2>2, OperationHolds DEF LifecycleGoto
  <2>4. Carries
    BY <1>1, <1>4, <2>1, <2>2 DEF Carries, AsksAtMost, EndsOnEvidence, SettlesLast
  <2> QED BY <1>1, <1>4, <2>2, <2>3, <2>4, OthersKeep
<1> QED BY <1>2, <1>3, <1>4

LEMMA SettleRetainedKeeps ==
  ASSUME Inductive, SettleRetained
  PROVE  Inductive'
<1>1. /\ lifecycle.operation # "none" /\ thread = "lifecycle" /\ thread' = "free" /\ live.suspended
      /\ live # NoLive /\ UNCHANGED <<run, serial, workers>>
  BY DEF SettleRetained, LifecycleStep, Inductive, OneOperation, NoLive
<1>2. \/ Ends(daemon) /\ UNCHANGED store /\ UNCHANGED live
      \/ /\ Settles(TRUE) /\ live' = [live EXCEPT !.domainSettled = TRUE]
         /\ LifecycleGoto("retainedClosing")
  BY DEF SettleRetained, SettlementThrows
<1>3. CASE Ends(daemon) /\ UNCHANGED store /\ UNCHANGED live
  <2>1. Carries /\ Retains
    BY <1>1, <1>3, NothingCarries DEF Carries, AsksAtMost
  <2> QED BY <1>1, <1>3, <2>1, PresentEnds, OthersKeep
<1>4. CASE /\ Settles(TRUE) /\ live' = [live EXCEPT !.domainSettled = TRUE]
           /\ LifecycleGoto("retainedClosing")
  <2>1. RowsKept /\ SameExecutions /\ NoDuty /\ Stopped(live.task, live.attempt)
    BY <1>1, <1>4, SettlingSettles
  <2>2. SameWorker /\ Retains
    BY <1>1, <1>4, LiveFacts DEF SameWorker, Retains, LiveWorkers
  <2>3. OperationPart'
    BY <1>1, <1>4, <2>2, OperationHolds DEF LifecycleGoto
  <2>4. Carries
    BY <1>1, <2>1, <2>2 DEF Carries, AsksAtMost, EndsOnEvidence, SettlesLast
  <2> QED BY <1>1, <2>2, <2>3, <2>4, OthersKeep
<1> QED BY <1>2, <1>3, <1>4

LEMMA RetainedEndsKeeps ==
  ASSUME Inductive, RetainedCloses \/ AllStopped \/ Drained \/ LifecycleFails
  PROVE  Inductive'
<1>1. /\ lifecycle.operation # "none" /\ thread = "free" /\ thread' = "free"
      /\ UNCHANGED <<run, serial, workers, live>>
  BY DEF RetainedCloses, AllStopped, Drained, LifecycleFails, LifecycleStep
<1>2. SameWorker /\ AsksAtMost
  BY <1>1 DEF SameWorker, AsksAtMost
<1>3. (UNCHANGED store \/ Store!FenceRestartedOwners) /\ OperationPart'
  <2>1. CASE RetainedCloses
    <3>1. live.suspended
      BY <2>1 DEF RetainedCloses, LifecycleStep, Inductive, OneOperation
    <3>2. CASE LifecycleGoto("retainedSerial") /\ Worker.root = "removed"
      BY <1>1, <1>2, <2>1, <3>1, <3>2, OperationHolds DEF LifecycleGoto, RetainedCloses
    <3> QED BY <2>1, <3>2, PresentEnds DEF RetainedCloses
  <2>2. CASE AllStopped
    BY <1>1, <2>2, OperationGoes DEF AllStopped, LifecycleGoto, Inductive, TypeOK
  <2>3. CASE Drained
    <3> DEFINE d == [daemon EXCEPT !.drained = TRUE]
    <3>1. d \in Daemons
      BY DEF Inductive, TypeOK, Daemons
    <3>2. \/ UNCHANGED store /\ (Ends(daemon) \/ Ends(d) \/ Ends([daemon EXCEPT !.drained = TRUE, !.closed = TRUE]))
          \/ (Replaces /\ Ends(Replaced)) \/ ReplacementFails
      BY <2>3 DEF Drained
    <3>3. [daemon EXCEPT !.drained = TRUE, !.closed = TRUE] = [d EXCEPT !.closed = TRUE]
      OBVIOUS
    <3> HIDE DEF d
    <3>4. [d EXCEPT !.closed = TRUE] \in Daemons
      BY <3>1 DEF Daemons
    <3> QED BY <1>1, <3>1, <3>2, <3>3, <3>4, PresentEnds, OperationEnds, ReplacementIsQuiet
  <2>4. CASE LifecycleFails
    BY <2>4, PresentEnds DEF LifecycleFails
  <2> QED BY <2>1, <2>2, <2>3, <2>4
<1>4. Quiet
  BY <1>3, OthersAreQuiet
<1> QED BY <1>1, <1>2, <1>3, <1>4, OperationKeeps

\* The reconciliation lets the suspended worker go once its run has.
LEMMA RetainedReleasedKeeps ==
  ASSUME Inductive, RetainedReleased
  PROVE  Inductive'
<1>1. /\ lifecycle.operation # "none" /\ thread = "free" /\ thread' = "free" /\ run = NoRun
      /\ lifecycle.at = "retainedSerial" /\ UNCHANGED <<run, serial, store, workers>>
  BY DEF RetainedReleased, LifecycleStep, Idle
<1>2. live.suspended /\ Worker.root = "removed" /\ live # NoLive
  BY <1>1 DEF Inductive, OneOperation, Worker, NoLive
<1>3. live' = live \/ (live' = NoLive /\ live.domainSettled)
  BY DEF RetainedReleased, Released
<1>4. Custody'
  <2>1. CASE live' = live
    BY <1>1, <2>1, OthersAreQuiet, QuietCarries DEF SameWorker, AsksAtMost
  <2>2. CASE live' = NoLive /\ live.domainSettled
    BY <1>1, <1>2, <2>2, LettingGo DEF LetsGo, Custody
  <2> QED BY <1>3, <2>1, <2>2
<1>5. OperationPart'
  <2>1. Ends(daemon) \/ LifecycleGoto("stopAll")
    BY DEF RetainedReleased
  <2> QED BY <1>1, <2>1, PresentEnds, OperationGoes DEF LifecycleGoto, Inductive, TypeOK
<1>6. Rest'
  BY <1>1 DEF Rest, Inductive, TypeOK
<1> QED BY <1>1, <1>4, <1>5, <1>6, RunEnds, PartsNext

-----------------------------------------------------------------------------
(* The invariant, and what follows from it.                                *)

LEMMA InitInductive == Init => Inductive
<1> SUFFICES ASSUME Init
             PROVE  Inductive
  OBVIOUS
<1>1. /\ session = [epoch |-> 1, unauthorized |-> FALSE]
      /\ tasks = [t \in TaskIds |-> Store!NoTask]
      /\ executions = [t \in TaskIds |-> [k \in Attempts |-> Store!NoExecution]]
  BY DEF Init, Store!Init, Store!Attempts, Attempts
<1>2. Store!TypeOK
  BY <1>1 DEF Store!TypeOK, Store!Sessions, Store!Epochs, Store!Attempts, Attempts
<1>3. \A t \in TaskIds, k \in Attempts :
        /\ ~Allocated(t, k) /\ tasks[t] = Store!NoTask
        /\ workers[t][k] = [life |-> "none", asked |-> FALSE, answer |-> "none", root |-> "kept"]
  BY <1>1 DEF Init, Allocated
<1>4. Custody
  <2>1. workers \in [TaskIds -> [Attempts -> Workers]] /\ live \in LiveWorkers
    BY DEF Init, Workers, LiveWorkers, NoLive
  <2>2. Rows /\ Processes /\ Retained
    BY <1>3 DEF Rows, Processes, Retained, Init
  <2>3. Duties
    BY <1>1 DEF Duties, OnDuty
  <2> QED BY <1>2, <2>1, <2>2, <2>3 DEF Custody
<1>5. RunPart /\ OperationPart /\ Rest
  <2>1. RunPart
    BY DEF Init, RunPart, OneRun, NoRun, Runs
  <2>2. OperationPart
    BY DEF Init, OperationPart, OneOperation, NoLifecycle, Lifecycles, Daemons
  <2>3. Rest
    BY DEF Init, Rest
  <2> QED BY <2>1, <2>2, <2>3
<1> QED BY <1>4, <1>5, Parts

LEMMA StepKeeps ==
  ASSUME Inductive, [Next]_vars
  PROVE  Inductive'
<1>1. CASE Users
  BY <1>1, UsersKeep, CallsKeep DEF Users
<1>2. CASE RunContinues
  BY <1>2, BeginKeeps, AdmitKeeps, StartedKeeps, CommandKeeps, MarkKeeps, DispatchKeeps, DisposedKeeps,
     SettleKeeps, JoinedKeeps, FinishKeeps DEF RunContinues
<1>3. CASE EventsArrive \/ StreamContinues
  BY <1>3, EventsKeep DEF EventsArrive, StreamContinues
<1>4. CASE StopContinues
  BY <1>4, StopDisposedKeeps, SettleStopKeeps, StopClosesKeeps DEF StopContinues
<1>5. CASE LifecycleContinues
  BY <1>5, CallsKeep, BeginsKeep, VisitsKeep, RetainedKeeps, SettleRetainedKeeps, RetainedEndsKeeps,
     RetainedReleasedKeeps DEF LifecycleContinues
<1>6. CASE WorkerContinues
  BY <1>6, WorkersKeep
<1>7. CASE \E t \in TaskIds, k \in Attempts : FenceLapses(t, k)
  BY <1>7, LapseKeeps
<1>8. CASE UNCHANGED vars
  <2>1. SameWorker /\ AsksAtMost /\ Retains /\ UNCHANGED <<store, run, serial, lifecycle, daemon, thread>>
    BY <1>8 DEF vars, store, SameWorker, AsksAtMost, Retains
  <2>2. Custody'
    BY <1>8, <2>1, OthersAreQuiet, QuietCarries DEF vars
  <2>3. RunPart'
    BY <1>8, <2>1, RunStands DEF vars
  <2>4. OperationPart'
    BY <1>8, <2>1, OperationStands, AskingAsks DEF vars, Inductive, TypeOK
  <2>5. Rest'
    BY <2>1 DEF Rest, Inductive, TypeOK
  <2> QED BY <2>2, <2>3, <2>4, <2>5, PartsNext
<1> QED BY <1>1, <1>2, <1>3, <1>4, <1>5, <1>6, <1>7, <1>8 DEF Next

LEMMA CustodyMeans ==
  ASSUME Inductive PROVE SaidIsPhysical /\ ForgottenIsFinished /\ ObligationIsHeld
<1>1. SaidIsPhysical
  BY DEF Inductive, Processes, SaidIsPhysical, ForgottenIsFinished, ClosedIsPhysical, Allocated,
         Stopped
<1>2. ObligationIsHeld
  BY DEF Inductive, Duties, OnDuty, ObligationIsHeld, Store!Exists
<1> QED BY <1>1, <1>2 DEF SaidIsPhysical

LEMMA OneRuns == ASSUME Inductive PROVE OneProcess
<1> DEFINE S == {p \in TaskIds \X Attempts : workers[p[1]][p[2]].life = "running"}
           T == {<<live.task, live.attempt>>}
<1>1. ASSUME NEW t \in TaskIds, NEW k \in Attempts, workers[t][k].life = "running"
      PROVE  Held(t, k)
  BY <1>1 DEF Inductive, Processes
<1>2. S \subseteq T
  BY <1>1 DEF Held
<1>3. IsFiniteSet(T) /\ Cardinality(T) = 1
  BY FS_Singleton
<1> HIDE DEF T
<1>4. Cardinality(S) <= 1
  BY <1>2, <1>3, FS_Subset
<1> QED BY <1>4 DEF OneProcess

\* The rows, the processes, the supervisor, the run, the lifecycle operation and the tasks'
\* duties agree whatever was interleaved.
THEOREM Invariance == Spec => []Inductive
<1>1. Init => Inductive
  BY InitInductive
<1>2. Inductive /\ [Next]_vars => Inductive'
  BY StepKeeps
<1> QED BY <1>1, <1>2, PTL DEF Spec

\* releaseClosedCustody and the close of an execution say of a process only what is so:
\* whoever was let go is closed in the Store, is not running and left nothing behind, and a
\* closed execution has no process, now or later.
THEOREM LetGoIsGone == Spec => []SaidIsPhysical
<1>1. Inductive => SaidIsPhysical
  BY CustodyMeans
<1> QED BY <1>1, Invariance, PTL

\* A task that is running or being cancelled is in the hands of the retained supervisor of
\* its present attempt, which has not settled it yet: nobody is forgotten.
THEOREM NobodyIsForgotten == Spec => []ObligationIsHeld
<1>1. Inductive => ObligationIsHeld
  BY CustodyMeans
<1> QED BY <1>1, Invariance, PTL

\* Whoever runs is the retained supervisor's worker, so no two processes run at once, though
\* a new owner of the Store would be allowed a second one.
THEOREM OneProcessAtMost == Spec => []OneProcess
<1>1. Inductive => OneProcess
  BY OneRuns
<1> QED BY <1>1, Invariance, PTL

-----------------------------------------------------------------------------
(* What a step does in the Store.                                          *)

\* A transaction of the Store by its present owner, other than the task's start.
Transacts(t, ctx) ==
  \/ Store!Create(t, ctx) \/ Store!Cancel(t, ctx) \/ Store!Pause(t, ctx) \/ Store!Retry(t, ctx)
  \/ Store!Continue(t, ctx) \/ Store!Revise(t, ctx)
  \/ Store!ConfirmStop(t, ctx) \/ Store!ConfirmPause(t, ctx) \/ Store!Interrupted(t, ctx)
  \/ Store!RecordRuntimeInput(t, ctx) \/ Store!AllocateExecution(t, ctx)
  \/ Store!MarkExecutionReady(t, ctx) \/ Store!MarkExecutionDispatched(t, ctx)
  \/ Store!ObserveExecutionBinding(t, ctx) \/ Store!IngestSettled(t, ctx)
  \/ Store!CloseExecution(t, ctx) \/ Store!RecoverExecutionClose(t, ctx)
TransactsOne == \E t \in TaskIds, ctx \in Store!Epochs : Transacts(t, ctx)
\* The task of the run begins, read again as it was admitted.
StartsAdmitted ==
  /\ run.task \in TaskIds /\ session.epoch \in Store!Epochs /\ Store!Start(run.task, session.epoch)
  /\ Unmoved /\ ~daemon.restarting /\ ~live.suspended
ByRule ==
  \/ UNCHANGED store \/ Store!FenceRestartedOwners \/ TransactsOne \/ StartsAdmitted
  \/ \E t \in TaskIds, k \in Attempts : Store!FenceLapses(t, k)

\* A transaction is its present owner's.
LEMMA OwnersTransact ==
  ASSUME Inductive, NEW t \in TaskIds, NEW ctx, Transacts(t, ctx)
  PROVE  TransactsOne
<1>1. ctx = session.epoch
  BY DEF Transacts, Store!Create, Store!Cancel, Store!Pause, Store!Retry, Store!Continue, Store!Revise,
     Store!ConfirmStop, Store!ConfirmPause, Store!Interrupted, Store!RecordRuntimeInput,
     Store!AllocateExecution, Store!MarkExecutionReady, Store!MarkExecutionDispatched,
     Store!ObserveExecutionBinding, Store!IngestSettled, Store!CloseExecution,
     Store!RecoverExecutionClose, Store!UserCommand, Store!Owned, Store!CurrentTask, Store!Owner
<1> QED BY <1>1, StoreTypes DEF TransactsOne

\* The closes and settlements are of the retained worker.
LEMMA RetainedTransacts ==
  ASSUME Inductive, live # NoLive, NEW ctx, NEW b,
         CloseThrough(ctx) \/ RecoverClose \/ Settles(b)
  PROVE  UNCHANGED store \/ TransactsOne
<1>1. live.task \in TaskIds
  BY LiveFacts
<1>2. UNCHANGED store \/ \E c : Transacts(live.task, c)
  BY DEF CloseThrough, RecoverClose, Settles, Settlement, Transacts
<1> QED BY <1>1, <1>2, OwnersTransact

LEMMA RunsByRule ==
  ASSUME Inductive, RunContinues
  PROVE  ByRule
<1>1. run.at # "idle" => run.task \in TaskIds
  BY DEF Inductive, OneRun, NoRun
<1>2. run.at \notin {"idle", "creating"} => live # NoLive
  BY RunIsHeld
<1>3. CASE BeginRun
  <2>1. serial # <<>> => Head(serial) \in TaskIds
    BY DEF Inductive, TypeOK
  <2>2. UNCHANGED store \/ (serial # <<>> /\ \E c : Transacts(Head(serial), c))
    BY <1>3 DEF BeginRun, Commit, Throws, Transacts
  <2> QED BY <2>1, <2>2, OwnersTransact DEF ByRule
<1>4. CASE Admit \/ LetGo \/ Started \/ Mark
  <2>1. UNCHANGED store \/ (run.at # "idle" /\ \E c : Transacts(run.task, c))
    BY <1>4 DEF Admit, LetGo, Started, Mark, Running, RunStep, Commit, Throws, Transacts
  <2> QED BY <1>1, <2>1, OwnersTransact DEF ByRule
<1>5. CASE Command
  <2>1. UNCHANGED store \/ StartsAdmitted
    BY <1>1, <1>5, StoreTypes DEF Command, RunStep, Commit, Throws, StartsAdmitted, Inductive, OneRun
  <2> QED BY <2>1 DEF ByRule
<1>6. CASE DispatchReturns \/ Observed \/ Joined \/ FinishRun \/ LeaveRun
  BY <1>6 DEF DispatchReturns, Observed, Joined, FinishRun, LeaveRun, ByRule
<1>7. CASE Disposed
  <2>1. UNCHANGED store \/ (run.at # "idle" /\ Transacts(run.task, run.epoch))
    BY <1>7 DEF Disposed, Running, RunStep, Commit, Throws, CloseOwned, Transacts
  <2> QED BY <1>1, <2>1, OwnersTransact DEF ByRule
<1>8. CASE SettleRun \/ Cleared \/ SettleCleared
  <2>1. live # NoLive
    BY <1>2, <1>8 DEF SettleRun, Cleared, SettleCleared, Running, RunStep
  <2>2. UNCHANGED store \/ CloseThrough(run.epoch) \/ Settles(FALSE)
    BY <1>8 DEF SettleRun, Cleared, SettleCleared, Commit, Throws, SettlementThrows
  <2> QED BY <2>1, <2>2, RetainedTransacts DEF ByRule
<1> QED BY <1>3, <1>4, <1>5, <1>6, <1>7, <1>8 DEF RunContinues

\* Every step of the harness is a step of the Store's protocol, or leaves it alone.
LEMMA StepIsByRule ==
  ASSUME Inductive, [Next]_vars
  PROVE  ByRule
<1>1. CASE Users
  <2>1. UNCHANGED store \/ \E t \in TaskIds : Transacts(t, session.epoch)
    BY <1>1 DEF Users, AskForWork, AskToStop, RunTask, CallLifecycle, CallClose, Transacts, store
  <2> QED BY <2>1, OwnersTransact DEF ByRule
<1>2. CASE EventsArrive \/ StreamContinues
  <2>1. UNCHANGED store \/ (run.collecting # "none" /\ Transacts(run.task, run.epoch))
    BY <1>2 DEF EventsArrive, StreamContinues, CollectSettled, IngestSettled, StreamBreaks, StreamEnds,
       Collecting, Commit, Throws, Transacts
  <2>2. run.collecting # "none" => run.task \in TaskIds
    BY DEF Inductive, OneRun, NoRun
  <2> QED BY <2>1, <2>2, OwnersTransact DEF ByRule
<1>3. CASE StopContinues
  <2>1. live # NoLive /\ (UNCHANGED store \/ CloseThrough(session.epoch) \/ Settles(FALSE))
    BY <1>3 DEF StopContinues, StopDisposed, SettleStop, StopCloses, StopStep, Commit, Throws,
       SettlementThrows
  <2> QED BY <2>1, RetainedTransacts DEF ByRule
<1>4. CASE LifecycleContinues
  <2>1. CASE RetainedDisposed \/ SettleRetained
    <3>1. live # NoLive
      <4>1. lifecycle.at \in {"retainedDisposing", "retainedSettling"}
        BY <2>1 DEF RetainedDisposed, SettleRetained, LifecycleStep
      <4>2. live.suspended
        BY <4>1 DEF Inductive, OneOperation
      <4> QED BY <4>2 DEF NoLive
    <3>2. UNCHANGED store \/ RecoverClose \/ Settles(TRUE)
      BY <2>1 DEF RetainedDisposed, SettleRetained, Commit, Throws, SettlementThrows
    <3> QED BY <3>1, <3>2, RetainedTransacts DEF ByRule
  <2>2. CASE Begin \/ Drained
    BY <2>2 DEF Begin, Drained, Replaces, ReplacementFails, ByRule
  <2>3. CASE CloseBegins \/ Visits \/ RetainedStopped \/ RetainedCloses \/ RetainedReleased \/ AllStopped
             \/ LifecycleFails
    BY <2>3 DEF CloseBegins, Visits, RetainedStopped, RetainedCloses, RetainedReleased, AllStopped,
       LifecycleFails, ByRule
  <2> QED BY <1>4, <2>1, <2>2, <2>3 DEF LifecycleContinues
<1>5. CASE WorkerContinues
  BY <1>5 DEF WorkerContinues, Spawns, Exits, Answers, Closes, WorkerStep, ByRule
<1>6. CASE \E t \in TaskIds, k \in Attempts : FenceLapses(t, k)
  BY <1>6 DEF FenceLapses, ByRule
<1>7. CASE UNCHANGED vars
  BY <1>7 DEF vars, store, ByRule
<1> QED BY <1>1, <1>2, <1>3, <1>4, <1>5, <1>6, <1>7, RunsByRule DEF Next

\* Only the start of a task makes it RUNNING.
LEMMA OnlyStartsRun ==
  ASSUME Inductive, NEW u \in TaskIds, NEW t \in TaskIds, NEW ctx, Transacts(u, ctx),
         Store!Exists(t), tasks[t].state = "READY"
  PROVE  tasks'[t].state # "RUNNING"
<1>1. tasks \in [TaskIds -> Store!Tasks \cup {Store!NoTask}]
  BY StoreTypes
<1>2. ASSUME NEW v, tasks' = [tasks EXCEPT ![u] = v], v.state # "RUNNING"
      PROVE  tasks'[t].state # "RUNNING"
  BY <1>1, <1>2
<1>3. ASSUME NEW state, Store!Change(u, ctx, state), state # "RUNNING", tasks[u] # Store!NoTask
      PROVE  tasks'[t].state # "RUNNING"
  <2> DEFINE v == [[tasks[u] EXCEPT !.state = state, !.pausing = FALSE] EXCEPT !.epoch = ctx]
  <2>1. tasks' = [tasks EXCEPT ![u] = v]
    BY <1>3 DEF Store!Change, Store!Enter, Store!Write
  <2>2. v.state = state
    BY <1>3, StoreTypes DEF Store!Tasks
  <2> HIDE DEF v
  <2> QED BY <1>2, <1>3, <2>1, <2>2
<1>4. ASSUME Store!BeginAttempt(u, ctx)
      PROVE  tasks'[t].state # "RUNNING"
  BY <1>2, <1>4 DEF Store!BeginAttempt, Store!FirstVersion
<1>5. CASE Store!Create(u, ctx)
  BY <1>2, <1>5 DEF Store!Create, Store!FirstVersion
<1>6. CASE Store!Retry(u, ctx) \/ Store!Continue(u, ctx) \/ Store!Revise(u, ctx)
  BY <1>4, <1>6 DEF Store!Retry, Store!Continue, Store!Revise
<1>7. CASE Store!Pause(u, ctx)
  <2>1. u # t
    BY <1>7 DEF Store!Pause
  <2>2. tasks'[t] = tasks[t]
    BY <1>1, <1>7, <2>1 DEF Store!Pause, Store!Write
  <2> QED BY <2>2
<1>8. CASE Store!RecordRuntimeInput(u, ctx)
  <2> DEFINE v == [tasks[u] EXCEPT !.input = ctx]
  <2>1. tasks' = [tasks EXCEPT ![u] = v] /\ tasks[u].state = "READY" /\ tasks[u] # Store!NoTask
    BY <1>8 DEF Store!RecordRuntimeInput, Store!CurrentTask, Store!Exists
  <2>2. v.state = "READY"
    BY <2>1, StoreTypes DEF Store!Tasks
  <2> HIDE DEF v
  <2> QED BY <1>2, <2>1, <2>2
<1>9. CASE \/ Store!Cancel(u, ctx) \/ Store!ConfirmStop(u, ctx) \/ Store!ConfirmPause(u, ctx)
           \/ Store!Interrupted(u, ctx) \/ Store!IngestSettled(u, ctx)
  <2>1. /\ tasks[u] # Store!NoTask
        /\ \E state \in {"CANCELLING", "CANCELLED", "PAUSED", "UNVERIFIABLE", "VERIFYING"} :
             Store!Change(u, ctx, state)
    BY <1>9 DEF Store!Cancel, Store!ConfirmStop, Store!ConfirmPause, Store!Interrupted,
       Store!IngestSettled, Store!UserCommand, Store!Owned, Store!CurrentTask, Store!Exists
  <2> QED BY <1>3, <2>1
<1>10. CASE \/ Store!AllocateExecution(u, ctx) \/ Store!MarkExecutionReady(u, ctx)
            \/ Store!MarkExecutionDispatched(u, ctx) \/ Store!ObserveExecutionBinding(u, ctx)
            \/ Store!CloseExecution(u, ctx) \/ Store!RecoverExecutionClose(u, ctx)
  <2>1. tasks' = tasks
    BY <1>10 DEF Store!AllocateExecution, Store!MarkExecutionReady, Store!MarkExecutionDispatched,
       Store!ObserveExecutionBinding, Store!CloseExecution, Store!RecoverExecutionClose, Store!Update
  <2> QED BY <2>1
<1> QED BY <1>5, <1>6, <1>7, <1>8, <1>9, <1>10 DEF Transacts

LEMMA BeginningStep ==
  ASSUME Inductive, [Next]_vars, NEW t \in TaskIds,
         Store!Exists(t), tasks[t].state = "READY", tasks'[t].state = "RUNNING"
  PROVE  /\ run.task = t /\ run.attempt = tasks[t].attempt
         /\ ~live.suspended /\ ~daemon.restarting
<1>1. tasks' # tasks
  OBVIOUS
<1>2. ~TransactsOne
  BY OnlyStartsRun DEF TransactsOne
<1>3. StartsAdmitted
  BY <1>1, <1>2, StepIsByRule DEF ByRule, store, Store!FenceRestartedOwners, Store!FenceLapses
<1>4. run.task = t
  <2>1. \A u \in TaskIds : u # run.task => tasks'[u] = tasks[u]
    BY <1>3, StoreTypes DEF StartsAdmitted, Store!Start, Store!Change, Store!Enter, Store!Write
  <2> QED BY <2>1
<1> QED BY <1>3, <1>4 DEF StartsAdmitted, Unmoved

\* A task begins only as it was admitted: READY in the attempt its worker was started for,
\* its supervisor not suspended, no lifecycle operation in progress.
THEOREM WorkBeginsAsAdmitted == Spec => BeginsAsAdmitted
<1>1. Inductive /\ [Next]_vars =>
        [\A t \in TaskIds : Store!Exists(t) /\ tasks[t].state = "READY" /\ tasks'[t].state = "RUNNING" =>
           /\ run.task = t /\ run.attempt = tasks[t].attempt
           /\ ~live.suspended /\ ~daemon.restarting]_vars
  BY BeginningStep
<1> QED BY <1>1, Invariance, PTL DEF Spec, BeginsAsAdmitted

\* Whatever executeTask, stop, the lifecycle operations and the users interleave, the Store
\* sees nothing but its own protocol: every transaction is by the present owner and allowed.
THEOREM StoreProtocolKept == Spec => Store!Spec
<1>1. Init => Store!Init
  BY DEF Init
<1>2. Inductive /\ [Next]_vars => [Store!Next]_(Store!vars)
  <2> SUFFICES ASSUME Inductive, [Next]_vars
               PROVE  [Store!Next]_(Store!vars)
    OBVIOUS
  <2>1. CASE UNCHANGED store
    BY <2>1 DEF store, Store!vars
  <2>2. CASE Store!FenceRestartedOwners
    BY <2>2 DEF Store!Next
  <2>3. CASE TransactsOne
    BY <2>3 DEF TransactsOne, Transacts, Store!Next, Store!Step
  <2>4. CASE StartsAdmitted
    BY <2>4 DEF StartsAdmitted, Store!Next, Store!Step
  <2>5. CASE \E t \in TaskIds, k \in Attempts : Store!FenceLapses(t, k)
    BY <2>5 DEF Store!Next, Attempts, Store!Attempts
  <2> QED BY <2>1, <2>2, <2>3, <2>4, <2>5, StepIsByRule DEF ByRule
<1> QED BY <1>1, <1>2, Invariance, PTL DEF Spec, Store!Spec

=============================================================================
