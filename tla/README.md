# Zhiwei in TLA+

This directory is a verification development of the repository's TypeScript code: TLA+
modules of its core logic, TLC runs that check them on small instances, and proofs of the
results that matter most, for every value of the constants, checked by TLAPS.  The code
under `src/` is the reference; every definition listed in `PROJECT.json` ("map") is a
translation of the lines named there.

Zhiwei is a local daemon that runs *tasks* for a user with the help of a model.  A task
has attempts; an attempt is worked on by one controlled worker process; what the worker
reports is verified before a result is shown.  Everything the system knows is in one
SQLite database per data root, next to an independent *control root* whose recovery
journal keeps the user's irrevocable wishes (forget this, restore that) apart from the
database that a restore may turn back.

- [1. Inventory](#1-inventory)
- [2. Modules](#2-modules)
- [3. Runs](#3-runs)
- [4. Proofs](#4-proofs)
- [5. Findings](#5-findings)
- [6. Plan](#6-plan)
- [7. What is not modelled](#7-what-is-not-modelled)

## 1. Inventory

Sources are abbreviated: MS is `src/packages/memory-store/src`, CC
`src/packages/cognition-core/src`, PI `src/packages/pi-adapter/src`, D
`src/apps/daemon/src`.  The last column says where the component is modelled.

| Component | Code | State | Operations | Module |
|---|---|---|---|---|
| Task rules | CC/`task-transitions.ts`, CC/`outcome-rules.ts`, `packages/domain/src/task.ts` | none: a Task value with its attempts and outcomes | 13 actions, retry, revise, append an outcome | TaskRules, TaskHistory |
| Task store | MS/`task-store-v1.ts`, D/`task-service/task-reducer.ts` | sessions with owner epochs, task versions, runtime inputs, receipts, outbox, working states, pending decisions | user and runtime commands, fencing of restarted owners, outbox consumers | TaskSession, ProductOutbox, TaskRows |
| Execution store | MS/`task-execution-store-v1.ts` | one execution per attempt: lease, binding, event streams, model requests, close evidence | allocate, ready, dispatch, observe, ingest, close, recover the close | TaskSession, TaskRows |
| Outcome verification | MS/`outcome-store-v1.ts`, D/`result-service/` | plans, snapshots, observations, results, uses | bind a plan, verify, feedback, commit | OutcomeVerification; what it does to a task: TaskSession |
| Worker harness | D/`task-service/synthetic-harness.ts`, `application.ts` | live workers, a serial queue, retained supervisors | run, stop, suspend, reconcile, restart, close | WorkerHarness |
| Controlled broker | D/`infrastructure/controlled-broker.ts` | queue, action count, reservations, deadline | handle, dispose | ControlledBroker |
| Controlled worker | PI/`controlled-worker-client.ts`, D/`runtime/controlled-worker-supervisor.ts` | process state, outstanding broker records, timers | start, prompt, broker records, drain, stop, dispose | ControlledWorker, WorkerCustody |
| Cognitive coordinator, context store | D/`task-service/cognitive-coordinator.ts`, MS/`context-store-v1.ts` | capsules, boundaries, decision calls, decisions | capture, reserve, decide, commit | CognitiveBoundary |
| Recovery journal | MS/`recovery-journal-v2.ts` | log, head, installation, temporaries | initialize, append, reconcile the head | RecoveryJournal, ControlRecord |
| Synthetic recovery, lock | MS/`synthetic-recovery-v2.ts`, MS/`coordinator-lock-v2.ts` | generations, the active one, snapshots, catalog, purge records | create, open, capture, restore, purge, close | StoreRecovery |
| Cognitive store, content files | MS/`cognitive-store-v2.ts`, MS/`content-files-v2.ts` | scopes with epochs, contents and their files, observations, claims, dependencies, applied control sequence | transactions under a fence, control intents, memory commands; reserve, publish, remove | CognitiveStore, StoreRecovery |
| Observation ledger | MS/`sqlite-observation-ledger.ts` | normalized events with identities and source sequences | append, replay, read | ObservationLedger |
| Session API, CLI | D/`session-api/`, `apps/cli/src/session-client.ts` | streams, cursors, drains; revisions seen | routes, event streams, following a stream | EventStream |
| Workbench | `apps/web/src/` | view, commands of unknown fate, a stream | commands, recovery | Workbench |
| Runtime events | `packages/protocol/src/runtime-event-stream-v1*.ts` | a trace and its open lifecycles | accept an event | section 7 |
| Memory, goal, hypothesis rules | CC/`memory-transitions-v2.ts`, ... | none | pure transitions | section 7 |
| Budget selection | `packages/context-compiler/src/budget-selection.ts` | none | select under a budget | section 7 |
| Parsers, evaluation | `packages/protocol`, `packages/evals` | none | validation, test drivers | section 7 |

**How they interact.**  The workbench and the CLI send commands over HTTP; the Session API
calls the task service, which calls the task store.  The reducer turns a command into task
versions with the task rules, and the store checks what the reducer returned against the
stored history before it writes it, in one SQLite transaction.  The worker harness reads
the stored task, allocates an execution, starts a worker process and dispatches the
prompt; the worker's model and tool calls come back through the broker; its events are
ingested by the execution store, where the *settled* event moves the task to VERIFYING.
The outcome store turns observations into a result.  Everything the store publishes goes
to the outbox, which the Session API streams.  A control intent is written to the recovery
journal first and to the database second; no read is served in between.

**What is hard, and what makes each part correct.**

- *Task rules.*  Two packages state the same rules: the transitions and the store's own
  check of each version.  They must agree; no sequence of accepted calls may leave a task
  the next call refuses; a cancellation and unknown effects must not be lost; COMPLETED
  must be earned.
- *Store, executions and owners.*  A daemon may be replaced at any time while workers run.
  Each call carries its owner's epoch.  One task's new attempt authorizes the session for
  all of them, so an attempt of an earlier owner must be kept from running by the epochs
  of its versions, inputs and lease.  A late result must not overtake a cancellation, and
  a task reported as stopped must have no worker.
- *Harness, broker, worker.*  Asynchronous owners with awaits: state read before an await
  and used after it; a stop that runs in the background; a close and its settlement in two
  transactions; timers that race with the exit of a process; a queue at its limits.
- *Context store.*  A decision call is reserved before the model is awaited and its result
  is committed only on a capsule that is still current.
- *Journal, recovery, content files.*  Several files and a database that no transaction
  spans: every crash in between must leave a state that is recovered or refused, never one
  that is read as current.  A restored generation must obey every later intent.
- *Outbox, cursors, workbench.*  Lost answers, repeated commands, slow and returning
  consumers: once, in order, nothing skipped.

The hazards themselves, each at its line and with the properties that would catch it, are
the list "hazards" of `PROJECT.json`.

## 2. Modules

### TaskRules and TaskHistory: the rules of one task

`TaskRules` has the pure operators: the records of `domain/src/task.ts`, the attempt
changes of `task-transitions.ts`, the derivation and classification of outcomes, the
assertion of a whole history (`AssertTask`), and the store's independent check
(`HistoryExtension`, `assertTaskHistoryExtensionV1`).  `TaskHistory` has one variable,
`task`, and one action per `TaskAction` and per exported function; an action is enabled
exactly when the call returns instead of throwing.  Times are dropped, a contract stands
for the text of an intent, evidence is an identity with a revision.  The constant
`ReuseOutcomeIds` separates the store as a caller, which takes a fresh outcome identity
for a new attempt, from any other caller of the package.

### TaskSession and ExecutionCustody: one session, its tasks and their executions

`TaskSession` models the rows `session_v1`, `task_v1` with its current version, and
`task_execution_v1`, one action per store operation: each is one SQLite transaction, so one
step.  Every action takes the *caller's* owner epoch, and callers of every epoch, old and
new, act at any time: this is how a replaced daemon, a late worker event and a new owner
interleave.  `FenceRestartedOwners` is the restart.  The reducer's and the rules' part of
an operation is inlined: a task is its last version, with the facts of the current attempt
that decide anything (state, pause flag, epochs, runtime input, plan).  `FenceLapses` is
the expiry that makes a call of the right owner fail.

`ExecutionCustody` is the abstract promise: work on a task is exclusive, begun once per
attempt and in order, only under an authorized owner, never handed to another owner, and a
task at rest (cancelled, paused) has no worker.  `CustodyKept` is the refinement, with the
mapping at the end of `TaskSession`.

### RecoveryJournal and ControlRecord: three files and a crash anywhere

`RecoveryJournal` models `recovery.log`, `recovery.head`, `installation.json` and the
temporary files of the latter.  An append or a reconciliation is a sequence of file
operations (`stage` says which comes next), and a crash or an error may cut it off before,
between or *within* them: `TearLine` leaves half a line, `BreakInstallation` half a
temporary file, `Fail` everything done so far.  The code keeps nothing in memory between
calls, so a crash and an exception are the same step.  Checksums are positions, because
the log is only appended to.  The temporary of `installation.json` is named by a digest of
its contents, so a later attempt to publish the same epoch meets what an earlier one left;
the temporaries of the head carry a new record or the time of the attempt and are never
met again (assuming two attempts differ in time).

`ControlRecord` is the abstract promise to the one writer: a sequence of decisions that
only grows, each operation decided once, restores in the order of their epochs, nothing
decided or confirmed while an earlier decision is not anchored.  `ControlRecordKept` is the
refinement.  The abstract record is what StoreRecovery and CognitiveStore use for the journal.  It
promises safety only: half a line, or half an installation temporary, stops the journal for good,
and both users have that as a step of their own.

### ControlledBroker: one request at a time, with budgets

`handle()` chains each request behind the ones before it, so `queue` is a sequence and only
its head is performed; `stage` says at which await.  `dispose()` closes admission at once and
cleans up when the requests accepted before it are answered; requests accepted after it are
refused when their turn comes.  A failing await, a refused receiver and an expired deadline
are steps of their own.  Effects (a receiver call, a draft file, its record) are kept apart
from the answer, because a late refusal comes after the effect.

### ControlledWorker and WorkerCustody: a process, its client and its supervisor

Three actors: the process (which may answer, say goodbye, fail, exit or hang), the client
with its promises and timers, and the supervisor's calls.  Every event handler, timer and
continuation of an await is an action; `stop()`, `send()` and the other helpers that
several handlers call are operators on the client's record.  `WorkerCustody` is what the
owner of a worker may rely on: spawned at most once and never after its disposal was asked
for, and evidence only of a process that is not running.  `CustodyKept` is the refinement.

### WorkerHarness: the owner of workers, over TaskSession

`WorkerHarness` composes the Store (`Store == INSTANCE TaskSession`: its actions are called
with the epoch the code calls them with) and one worker per execution, of which it assumes
what `WorkerCustody` promises.  Four things interleave: the run of `executeTask`, the loop
over its events, `stop()`, and a lifecycle operation (interrupt, reconcile, restart, close);
`run.at`, `run.collecting`, `live.stopping` and `lifecycle.at` say where each awaits.  A
continuation with several transactions takes one step per transaction and keeps `thread` in
between, so the state between them is visible to the invariants and to nobody else.  Any
transaction may throw (`Throws`), and what the code does then is part of the action.

### TaskRows: what the operations write and the validation reads

Every transaction of the task and execution stores ends with `validateRows` of both engines
over all the tables, and so does every open.  A row that one operation writes and another
operation's rows contradict would make the store refuse, as corrupt, what it accepted a moment
ago, or all of itself at the next start.  `TaskRows` has one variable per table; each operation
writes the columns its INSERTs name, and `RowsValid` reads them back conjunct by conjunct as
`validateRows` does.  A restart (`FenceRestartedOwners`) and a restore
(`QuarantineRecovery`) come at any moment.  The caller is the present owner (stale callers
are TaskSession's) and there is one session.

### ProductOutbox and EventStream: once, in order, nothing skipped

`ProductOutbox` has the receipts and the outbox: commands that are sent again under the same
key, the same or another identity, to the same or a later daemon, and consumers that
acknowledge events.  `EventStream` is a stream of those events to one client: pages, cursors
only their process can read, a socket that asks to wait, connections that are cut, drained or
lost with what was written and not read, a restart.

### CognitiveBoundary: at most two questions, one decision

`coordinateTaskV1` and the context store.  A coordination captures what the model will see,
reserves a call before it asks, and commits a decision only on a capsule that is still current;
several coordinations of one task, and the world they read, interleave at every await, and any
transaction may throw.  The capsule is the value it was read from, the world a number.

### StoreRecovery: generations, snapshots, restores and purges

The coordinator of `synthetic-recovery-v2.ts` over the journal's promise.  Every call is
synchronous, so one runs at a time and each durable step (a transaction, a file, a rename) is an
action; between two of them the call may throw or the process end.  Each database (the
generations and the snapshots) is a record of what is available in it and how much of the
journal it has applied.  A call may also be cut off within a line of the journal or within its
installation temporary (`CutOff`): the journal is then `damaged`, and every later open refuses.

### CognitiveStore: what can be read, and what it rests on

One scope of `cognitive-store-v2.ts` with its files: observations, versions of a claim,
accepted candidates and managed bodies, each with a content; what rests on what; intents that
forget or restrict; the two-step purge of bytes.  A fence vouches for what its reader saw;
epochs are compared for equality only, so the model keeps which fences are current.  Deciding an
intent is one step, as `ControlRecord` promises, or its line is cut off (`CutOff`): the gate is then
`"broken"`, and stays so over every restart.

### OutcomeVerification, ObservationLedger, Workbench

`OutcomeVerification`: the plan that is bound before the work, verifications that are prepared,
read and committed in two transactions, single criteria judged by the user, retries, lost
answers, a restart, expiry.  `ObservationLedger`: batches of several processes, identities that
are hashes, replays, a reader in pages; every transaction validates all rows first.  `Steps` is the
loop of `appendBatch`, a recursive function over the prefixes of the batch.  The pages of this
reader and of the event stream's replays are `FirstOf` of the module `Pages`: the first so many of
a set of positions, in order, which is what an `ORDER BY` with a `LIMIT` (or a `slice`) returns.

`Workbench`: the browser's client and controller, whose awaits are overtaken by another
operation, the end of the stream or the loss of the identity, and whose requests may reach the
server after they were given up.  A page shows three kinds of things, each as of a revision of the
server: the snapshot, a *selection* (what `search`, `explain`, `task` and `result` read) and the
*body* of a write's answer.  Only a snapshot is followed by a stream.  A search is also published
on a page that is disconnected or has run out of recoveries, and a confirmed write publishes its
body although, after a retry, nothing reads or watches again.  `Receipted` and `Bodied` say which
commands are answered with a receipt and which with a body: `memory.input` and `result.plan` have no
receipt, so their answer is not believed once its body may no longer be shown.  A second read of
one facet supersedes the first (`Superseded`), which is the one way to a snapshot without a stream
(section 5).

### The MC modules

An MC module instantiates closed systems that do not interact and lets a behaviour choose one
of them (`part`, or `component`): the variables of the others keep their initial value, or are
`Off`.  This checks each system exactly as a run of its own would, since the state of a
behaviour is that of its one system; what it saves is the number of configurations.
`MCTaskHistory` has the task rules and the ledger; `MCTaskSession` the session, the outbox and
the boundary; `MCStreams` the journal, the event stream and a small forgetting store;
`MCControlled` the broker and the worker; `MCWorkerHarness` the harness and the rows;
`MCStores` the cognitive store, a harness with two tasks, the page and the verification.

## 3. Runs

| Run | Instance | Shows |
|---|---|---|
| `task_history` | 2 attempts, 2 outcome identities, 2 contracts, one external action, revisions to 11, 2 outcomes per attempt; ledger: 2 senders, 4 events of which two share a slot, batches of up to 2, pages of 2, 1 lost answer | no accepted call leaves a refused task (`NeverWedged`); rules and store agree (`StoreAcceptsEveryStep`); `CompletedIsEarned`; the ledger's answers and refusals stand (`LedgerStands`), its reader misses no row (`ReaderMissesNothing`) |
| `task_history_reuse` | the same rules with a caller that reuses outcome identities | finding 1 |
| `task_session` | 2 tasks of 1 attempt with 2 owners, or 1 task of 3 attempts with 3 owners; outbox: 8 commands over 2 keys and 2 identities, 2 consumers, 4 events; boundary: 2 coordinations, 2 revisions, 2 worlds | `StoppedMeansStopped`, `WorkIsReauthorized`, a verified result is of an attempt whose worker received the work (`ResultsAreWorkedFor`), `CancellationWaitsForClose`, the refinement `CustodyKept`; `OutboxKept`; at most two questions and a decision in the world of its question (`AskedAndAnswered`), `DecisionsStand` |
| `task_session_custody` | 1 task, 1 attempt, 2 owners | finding 2 |
| `recovery_journal` | 3 operations, each as a forget or as a restore from either epoch, 3 records; stream: 4 events, replays of 2 rows, 2 faults; store: a claim and 2 bodies, one intent, one crash | the refinement `ControlRecordKept`, `EveryGapIsClosed`; `SeesEveryEvent`, `StreamCatchesUp`; a prepared forget completes through every crash but one within a line of the journal (`ForgetCompletes`) |
| `recovery_journal_lag` | the same journal with 2 records | finding 3 |
| `controlled` | 3 request identities of each kind, a queue of 2, 2 actions, model calls and units of output, 1 token and tool call; worker: 2 broker requests, room for 1 | `BudgetsHold`, `EffectsHappenOnce`, `DisposalCompletes`; `EvidenceIsPhysical`, the refinement `WorkerCustodyKept`, `CallsReturn` |
| `worker_harness` | 1 task, 1 attempt, 2 owners, everything may fail; rows: one task, 6 versions, 2 attempts, one restart or restore, 4 snapshots of executions, one event or model request, one acknowledgement | `SaidIsPhysical`, `ObligationIsHeld`, `BeginsAsAdmitted`; what the operations write, the validation accepts (`RowsValid`) |
| `worker_harness_cancels` | 1 task, 2 owners, no failures | the liveness `CancellationCompletes`, `LifecycleEnds` |
| `store_recovery` | 1 content, 1 snapshot, 3 generations, 2 restores, a restriction, 3 intents, 1 fault | `ForgottenStaysForgotten`, `SelectionIsWhole`, `PurgedMeansGone`; unless a switch or a journal file is cut off, the store is readable again (`Reopens`) |
| `store_recovery_restricted` | 1 content, 1 snapshot, 2 generations, 2 intents, no fault | finding 4 |
| `cognitive_store` | 1 observation, 2 versions of a claim, 2 bodies, 1 candidate, 1 intent, 1 fault; harness: 2 tasks, interruption, no failures; page: 2 commands of 2 tries, one with a receipt and both with a body, 1 recovery, 1 failed read; verification: 1 verify, 2 feedbacks, 1 owner change, 2 worlds | `ReadableIsGrounded`, `FreshMeansUnchanged`; `TwoTasksInCustody`; `ShownIsTrue`; `VerificationsStand`, `VerdictsAreCurrent` |

**Why the bounds are enough.**  A task's attempts interact only through identities and
through the order of the outcomes, so two attempts with two outcomes each reach every
pair; eleven revisions are enough for the longest attempt (create, ready, run, pause or
cancel, unknown effects, reconcile, finalize, recheck) followed by a second one that ends.
Two senders whose batches overlap in an event, disagree on one and come out of order meet
every refusal of the ledger.  In the session, tasks interact only through the session's
authorization, so two of them show it (`Bounded` keeps them to one attempt each); three
attempts and three owners give an execution that is old by one owner and one that is old by
two.  Three records give the journal a forget between two restores and the reverse.  The
broker's requests meet only in the queue and in the budgets: a queue of two has a request
behind the one that awaits, and a third identity finds it full.  Two broker records and room
for one fill the worker's limit and free it again.  The harness has one retained worker at a
time, so what matters is the worker and the next one; `Operations` and `Faults` name what each
of its runs leaves out, because all of it at once is out of reach.  One content is enough for a
copy that is ahead and one that is behind; three generations let a restored one be left for
another restore.  In the cognitive store two versions and two bodies give chains of three and a
dependent written before and after the intent.  Two of the runs bound combinations rather
than each count by itself (`Bounded`).  In `cognitive_store` a page sees a second commit only
when both are of its own two commands and the one in hand is at its first try: one commit is
enough for an answer that is lost, late or behind, two for one that is behind another.  In
`worker_harness` the rows have a sixth version only where nothing was acknowledged, no message
was written and no execution has a fourth snapshot, and a fourth snapshot of an execution only
where nothing was acknowledged.  The theorems of section 4 do not depend on any
of these bounds.  Model values that no definition tells apart are symmetric, except in the
runs that check liveness.

**Coverage of the sums.**  A behaviour of an MC module stays in one part, so every part's
sub-actions are taken in that part's states; each of them was found to be taken in the run that
names it.

**Deadlock** is not checked: at the bounds every part has states from which nothing is left to
do (a task whose attempts are used up, a broker and a worker that are disposed of, a harness
that is closed), and a journal whose log ends in half a line stops for good, as its
documentation says it must.  What must not stop is stated as liveness instead.

**Fairness.**  `RecoveryJournal` assumes that a journal in need of recovery is reconciled again
and again (every start of the daemon calls `reconcileControl`), that no file operation fails at
every attempt (strong fairness of each operation, since failures come between attempts) and
that a call that cannot go on throws.  The liveness excludes a temporary file that was cut off
within itself: with one, recovery fails for ever, which is finding 3.  `ControlledBroker`
assumes that an await ends, one way or the other.  `ControlledWorker` assumes that the event
loop runs continuations and timers; nothing is assumed of the process, except that SIGKILL or
giving up ends the wait for it.  `WorkerHarness` assumes that every await ends: its workers have
a deadline after which the client ends them and answers, which is what `CallsReturn` shows.
The fairness is strong because a ready continuation is disabled while another one has the
thread, although it stays in the event loop's queue.  Nothing is assumed of users: after a
failure `CancellationCompletes` would need one who retries, so it is checked without failures.
`StoreRecovery` assumes that a call in progress goes on and that the daemon is started again
after it ended; faults are bounded.  `Reopens` excepts the two states that no fairness gets out
of, because every opening refuses them: the *footprint* that a crash in the middle of a switch
leaves, by design, and a journal with half a line (`recovery-journal-v2.ts:360`, as
`persistence-and-recovery.md` says) or half an installation temporary (`:319`, finding 3).  `EventStream`
assumes that microtasks and pumps run and that a full socket drains or is given up; a client
need not read.  `CognitiveStore` assumes the restart after a crash and that the call goes on, which
does not make an append succeed: it may be cut off instead, and `ForgetCompletes` excepts the
half line that leaves.  That the journal has room (`MAX_LOG_BYTES`) and that no body expires meanwhile is the model's (time is left out), and matters: see section 5.
The other parts assume no fairness.

## 4. Proofs

| Module | Proves, for every value of the constants |
|---|---|
| `TaskHistoryProofs` | `Inductive`, types, `NeverWedged` for the store's choice of identities, `StoreAcceptsEveryStep`, `CompletedIsEarned`, `CancellationSticks`, `EffectsNeverForgotten`; of the ledger `LedgerInductive`, `LedgerStands`, `ReaderMissesNothing` |
| `TaskSessionProofs` | `Inductive`, types, `StoppedMeansStopped`, `WorkIsReauthorized`, `ResultsAreWorkedFor`, `FencedExecutionsOnlyClose`, `CancellationWaitsForClose`, the refinement of `ExecutionCustody`; of the outbox `OutboxInductive`, `OutboxKept`; of the boundary `BoundaryInductive`, `AskedAndAnswered`, `DecisionsStand` |
| `RecoveryJournalProofs` | `Inductive`, types, `CrashesAreConsistent`, `ReturnedIsAnchored`, the refinement of `ControlRecord`; of the event stream `StreamInductive`, `SeesEveryEvent` |
| `ControlledProofs` | of the broker `Inductive`, types, `EffectsHappenOnce`, `ReceivedIsCommitted`, `NothingOutlivesDisposal`, `BudgetsHold`; of the worker `WorkerInductive`, types with the limit of broker requests, `EvidenceIsPhysical`, the refinement of `WorkerCustody` |
| `WorkerHarnessProofs` | `Inductive`, `SaidIsPhysical`, `ObligationIsHeld`, `OneProcess`, `BeginsAsAdmitted`, the refinement of `TaskSession` |
| `TaskRowsInvariant` | of the rows of the task store: the invariant `RowsInv`, and every step that is not a command keeps it |
| `StoreProofs` | of the rows `RowsAlwaysValid`: every transaction leaves rows that both engines accept; of StoreRecovery `Inductive`, `ForgottenStaysForgotten`, `SelectionIsWhole`, `PurgedMeansGone` |
| `CognitiveStoreProofs` | `Inductive`, `ReadableIsGrounded`, `FreshMeansUnchanged`; of the verification `OutcomeInductive`, `VerificationsStand`, `VerdictsAreCurrent`; of the page `PageInductive`, `ShownIsTrue`; of the harness with two tasks `TwoTasksInCustody` |

**Assumptions.**  `CriteriaAssumption`: an intent has a required criterion, and the
model-assisted ones are among its criteria (`assertTaskIntent` refuses anything else).
`JournalAssumption`: intents have a Boolean kind, a natural expected epoch and an operation.
The others say that bounds are numbers, that the marks a model uses for "nobody" or "nothing"
are no identities (`"none"` is no task, `"restrict"` no content), and that the first generation
is one of the generations: `TaskHistoryAssumption`, `TaskSessionAssumption`,
`ControlledBrokerAssumption`, `WorkerAssumption`, `WorkerHarnessAssumption`,
`RecoveryAssumption`, `CognitiveAssumption`, `OutboxAssumption` (some name a consumer
can have), `BoundaryAssumption`, `TwoTasksAssumption`, `PageAssumption`,
`OutcomeAssumption`, `LedgerAssumption` (sequences are numbers), `StreamAssumption` and
`TaskRowsAssumption` (no task has the session's name).  TLC evaluates each of them in the runs of the module.

**TaskHistory.**  `NeverWedged` is not inductive: it says that each attempt is legal, but
not that an attempt without a result has no outcomes, and a rule that appends to leftover
outcomes would break it.  `Inductive` adds that fact (`SoundAttempt`) and, for the store as
the caller, that outcome identities are not shared between attempts.  Each action replaces
the last attempt or appends one; a lemma per kind of change shows that the result is sound,
and the action properties follow from what the change leaves of the old attempt.

**TaskSession.**  `WorkIsReauthorized` is not inductive: that an open execution of the
present owner is of an attempt born under it depends on every execution carrying the epoch
in which its attempt was created, on READY and WAITING_INPUT tasks having been written in
that same epoch, and on an attempt of the present epoch having authorized the session.
`Sane` collects these facts per task; `Inductive` says them of all.  The proof has one lemma
for a step that writes a task version, one for a step that writes an execution, and one per
operation on top of them.  The refinement maps each operation to a beginning, a release, a
rest, an authorization or a replacement of the custody, or to no step.

**The outbox and the boundary.**  They are parts of `MCTaskSession`, so their theorems are about
`MCSpec` and are in `TaskSessionProofs`.  Of the outbox, that a command has one effect needs the
receipts and the events to be matched in both directions (`Receipted`), and that what was
published has no gap needs one consumer that is ahead of all the others, whose cursor is at an
event of the workspace (`Furthest`): the others acknowledge what was published before.  Of the boundary,
"heard at most twice" counts at the model, while the guards count reserved calls; `Sound` ties
the two, call by call: a second call exists only if the first was heard, and what was heard was
heard in the world of the call's own capsule.  A decision is committed only on the capsule of the last call
while it is current, hence in the world of that call.

**TaskRows.**  `RowsAlwaysValid` is of any tasks, consumers, attempts, restarts and restores, with
no bound on the versions, messages or acknowledgements.  Its difficulty is its breadth: `RowsValid`
reads every table against the others, and most of its conjuncts are about the place of a row, not
its content.  One fact makes it tractable.  An operation appends, and changes no column that the
validation reads, except for what was delivered (`Grows`), so a row that was valid is found valid
again (the lemmas `...Stay` and `...Grow`), and only the rows a step adds are left.  `RowsValid`
alone does not say enough of the tables for those.  `RowsInv` adds

- `VersionsKept`: versions are of the owners and attempts so far, in order, and a stopped attempt
  stays stopped; without the first, the next version could be of an earlier owner than its predecessor;
- `RunsKept`: an execution is of a begun attempt, and while it is open its owner is that of the
  task's present version.  This is the fact with the longest history: it ties allocation, which
  checks the owner, to a command that comes many steps later and cites the execution as proof;
- `ReceiptsKept`: a receipt and its input stand at the same place, so that a new pair matches
  nothing older; and a command's receipt is later, in revision and in cursor, than those before;
- `OutboxKept`: the last version a task announced is its present one, so the next event's revision
  is the next;
- `MessagesKept` and `Opened`: what a message names is there, and before the session there is nothing.

An event is published under the authority of the session at its cursor and its recovery epoch.  A
later revision of the session has a later cursor, or a later recovery epoch, or both, so the answer for an
old event never changes; that is why a restore, which has no event of its own, may come at any moment.
Commands write up to four versions with a possible reauthorization before them: what such a span
may be is said once (`Legal`, with `Commits` for the transaction), each command is shown to be legal, and the
invariant is shown for all legal ones together (`StoreProofs`).

**RecoveryJournal.**  `Inductive` adds to the two invariants that epochs grow along the log
(which induction over the log would give) and what a call in progress knows: from the
publication of the installation's epoch on, the head is the tail, and the append's own
intent is at the tail.  The first is needed because publishing the head and the epoch must
not move either back; the second because a returned record must be the one under the head.
The refinement maps a written line to a decision, a returned record to its confirmation and
every other step to the opening or shutting of the record.

**ControlledBroker.**  That an identity is acted on once depends on where the performance of
the oldest request is: `Inductive` says of each stage what has been recorded so far, that
every recorded, committed or received request has been seen, and that files without a record
are those of the request that is being performed.  The disposal needs that cleaning up
happens only when no performance is under way.  That budgets hold rests on what each stage
reserved before it awaited.

**WorkerHarness.**  `Inductive` has a part per place where the harness keeps something: the rows
of the Store against the live record (`Rows`), the processes against the rows (`Processes`), the
retained supervisors (`Retained`), where the run and the operation stand (`OneRun`,
`OneOperation`), and which task is on duty (`Duties`).  The stated invariants are far from
inductive: that a running task has its supervisor depends on what every continuation that is
still to come will do, hence on a sentence per `at`.  It was checked with TLC on an instance with
all operations and all faults (5.0 million states) and on one with two tasks (1.9 million) before
it was proved.  The proof found that `ObligationIsHeld` needs no exception: a task is on duty
only while its supervisor's domain is not settled, also between two transactions of one
continuation.  That each step is a step of `TaskSession` is the refinement
(`StoreProtocolKept`): the harness calls the Store only as its protocol allows, so what
`TaskSessionProofs` proves of the Store holds in the composition.  `MCStores` has the harness as an
instance of `WorkerHarnessProofs`, so the theorem on its two tasks only cites what is proved here.  `OneProcess` is stronger than
what the Store enforces: the Store would let a new owner start a second worker.

**StoreRecovery.**  `ForgottenStaysForgotten` speaks of the selected generation at a moment when
the gate is open.  What is inductive speaks of every copy at every moment: a copy remembers how
much of the journal it has applied, and nothing forgotten within that part is available in it
(`Databases`).  A restore copies both together, so it may go back to any snapshot; opening
applies the rest of the journal before the gate opens.  `Disk` says what the half-made files of
each call may be, that the purge record of a copy is ahead of the loss of its bytes, and that
the selected generation is never among the copies a call works on.

**CognitiveStore.**  Grounding, privacy and bytes turn out to hold at every step; only "not
forgotten" needs the gate, because an intent is decided before it is applied.  The argument is
that an intent takes away a set that is closed under "rests on" (`#affectedContents`), and that
every later write refuses evidence outside of what is available.  `Inductive` adds to it the
state of the control sequence and what the call in progress still has to do with its files.

**The verification and the page.**  They are parts of `MCStores`, and their theorems are about
its `MCSpec`.  That results form a chain rests on what a prepared verification knows: as long as
the task is at the revision at which it was prepared, the last result is still the one it was
prepared on (`Vouched`), because every step that adds a result moves the task.  That a carried
verdict is of the present world needs each verdict of a result to be of the world of the
verification it came from (`Following`): the sources of that verification are what `Carried`
asks for.  Of the page, `Served` says that a read which may still be published was served after
the last commit the user saw confirmed, since a confirmation outdates every read that waits; and
`Answered` that the first attempt of a write is the only one of its command as long as nobody has
retried it, which is why only the refusal of a first attempt is told as a rejection.  What is shown
keeps to that commit facet by facet: a confirmation withdraws the snapshot and the selection and
leaves the body as of itself.  That a snapshot is followed cannot be said of the other two facets,
and needs the operation that published it to be at a later read of its own, still valid.

**ControlledWorker.**  Two races decide whether evidence of a close is true.  A disposal may
overtake a start: as long as nothing was spawned all it can do is raise `closing`, which the end
of the preparation looks at again, so `WorkerInductive` says that a pending close of a client
that never spawned means `closing`, a closed supervisor and no process (`Closing`).  A failure may
overtake a close: `stop()` rejects the promise of the close only when there is no process,
giving up only while the promise is pending, and the one step that resolves it, the removal of
the directory, follows the close event, which follows the exit (`Spawning`).  Neither
holds by itself: that nothing has failed and nobody is being killed before the spawn is needed
to know that the timers of the kill cannot touch a client that is still preparing.  The
refinement maps the spawn, the exit, `dispose` and its answer to the steps of `WorkerCustody`
and everything else to no step.  The worker is one part of `MCControlled`, so its theorems are
about `MCSpec`.

**The ledger.**  It is a part of `MCTaskHistory`, and its theorems are about that `MCSpec`.
Neither that answers stand nor that refusals are final is inductive: a refusal is a fact about a
ledger that has grown since.  What lasts is the reason.  A batch in conflict has an event whose
slot another event has, in the ledger or in the batch itself (`Clashes`); a batch refused for its
order, although its own order is right, has an event that is not in the ledger and that its stream
has passed (`Misses`).  Both survive every append (`RefusalsLast`), because the ledger only grows
at its end and in each stream's order, and both keep the batch out (`RefusedIsAbsent`).  What a
batch makes of a ledger is shown by induction over its events (`BatchKeeps`).  `LedgerInductive`
carries `ReadsInOrder` along: what was read is, position by position, the session's rows up to the
cursor, two pages in a row join to one stretch (`PagesJoin`), and a page that is not full has
reached the end.

**The event stream.**  It is a part of `MCStreams`.  `SeesEveryEvent` compares the client with the
present outbox, but the frames on the wire may come from a process, and an outbox, that no longer
exist.  `StreamInductive` therefore says that what is on the wire is a *stretch* of some outbox:
the frames of all the rows of the workspace between the client's cursor and a later one, in
order, perhaps with an end after them (`Sending`); that this outbox is the present one if the
client's cursor is of the present process; and that an open stream goes on exactly where the
stretch ends.  A stretch can be joined with the next replay (`CoveredJoin`), cut anywhere
(`CoveredPrefix`) and shortened by the frame that was read (`CoveredTail`); and it stays one when the outbox
grows (`CoveredGrows`).  A frame therefore carries exactly the revision after the one the
client knows (`FrameCounts`), which is why the tracker never asks for a new snapshot.  A full
socket, a drained one, a restart on a restored outbox and a snapshot whose pages were
read between commits all keep this.

**Types.**  The `TypeOK` of these modules is part of the inductive invariant and a theorem where
it is stated for itself.

**Only model-checked.**  Every invariant and every action property of a passing run has its
theorem; what has none is liveness (`EveryGapIsClosed`, `DisposalCompletes`, `CallsReturn`, `CancellationCompletes`,
`LifecycleEnds`, `Reopens`, `StreamCatchesUp`, `ForgetCompletes`), since the prover knows nothing
of fairness and `ENABLED`.  The library's induction theorems take an operator as a parameter, which
no prover here can instantiate; the induction over naturals that the ledger and the pages need
is proved for sets instead (`Reached`), from the well-founded order of the finite sets, and so is
that a set of numbers with a bound has a greatest one (`LeastNatural`, `MaxExists`), which the
cursors, ordinals and authorities of TaskRows ask for; each module that needs such a lemma has it.  Induction over other data is not used, and no module uses a RECURSIVE operator.

**Proved without a run.**  `CancellationSticks`, `EffectsNeverForgotten`,
`FencedExecutionsOnlyClose`, `CrashesAreConsistent`,
`ReturnedIsAnchored`, `ReceivedIsCommitted`, `NothingOutlivesDisposal` and the refinement of
`TaskSession` are settled by their theorems; the runs spend their time on what is not.

## 5. Findings

1. **An outcome identity may be reused across attempts**
   (`CC/task-transitions.ts:236`, run `task_history_reuse`).  Finalizing refuses it; appending
   the first outcome of a cancelled attempt does not, and every later call on the returned
   task throws.  The store never offers such an identity; a direct user of the package can.
2. **A result committed before the worker closes cannot be taken over by a new owner**
   (`MS/task-execution-store-v1.ts:459`, run `task_session_custody`).  After a restart the
   new owner can neither record the close, because the attempt is no longer active, nor
   accept a user command, because the execution is open.
3. **Half a temporary file blocks recovery for good**
   (`MS/recovery-journal-v2.ts:319`, run `recovery_journal_lag`).  A reconciliation cut off
   while it creates the temporary of `installation.json` makes every later one fail with
   corruption, although the log and the head are whole.
4. **A restriction may be lost by a restore** (`MS/cognitive-store-v2.ts:1061`, run
   `store_recovery_restricted`).  A workspace is restricted to local use and a snapshot is
   restored that is older than the registration of the workspace's own scope: the intent is
   applied again, finds no scope and therefore no content, and the contents are for models again.

**Behaviours worth knowing** that no document contradicts and no run shows as a violation,
because the model leaves out what they need or because they are refusals:

- A prepared `memory.forget` whose own body expired before the intent was decided makes every
  open fail (`MS/cognitive-store-v2.ts:1669`); the store stays in recovery.
- A scope-wide shortening of retention or restriction makes later writes that were not clamped
  to it fail as "corruption" (`MS/cognitive-store-v2.ts:1431`), and so does a wall clock that was
  set back, until it catches up (`:318`).
- A decision call that was reserved but never received makes each later coordination of that
  revision of the task fail with "conflict", and so does a boundary whose capsule is stale, until
  the task has a new revision.
- A verification or feedback that is sent again after the policy changed is answered
  "unavailable" although it was committed; an expired prepared verification can only be replaced
  by a new command.
- A batch the ledger refused for its order may be accepted later.
- After a restore, an open execution of the former recovery epoch can never be closed.
- `reviseGoal` lets a dropped criterion come back at revision 1 with another text.
- A search of the user while a recovery awaits the last read of the same facet cancels that read,
  and the recovery ends without opening its stream (`apps/web/src/workbench.ts:183`,
  `controller.ts:82`): the page is connected, shows a snapshot and does not follow it until the user
  navigates or recovers.  `ShownIsTrue` excepts it (`watcher = "superseded"`).
- A recovery timer of the page whose handle was lost (`apps/web/src/controller.ts:67`) may fire
  during a later operation.

## 6. Plan

The modules of the plan are all in section 2, except for those that section 7 explains, and its
theorems are in section 4.  What would extend it:

| Step | Of | What | Why |
|---|---|---|---|
| 1 | TaskRows, TaskSession | that each operation of the rows is a step of the session's protocol | both are translated from the same operations; the refinement would join what is proved of each |
| 2 | ProductOutbox, EventStream | one outbox, from the commit to the client | the two theorems meet at the outbox, which each has for itself |

## 7. What is not modelled

**Of the components that are modelled**: times and their parsing, texts, byte capacities of
records, the contents of events and receipts, the working states of tasks, the checkpoints of the
runtime's source streams, the event records a worker sends between its prompt and
`agent_settled`, the expiry of leases of the page, goals and hypotheses, retention, the
suppression of sources.  The revision of a task is left out of TaskSession because a call with a
stale one is refused and changes nothing.  A power loss that undoes the directory entries of a
root under initialization is left out of RecoveryJournal.

**Of the system**:

- *The coordinator lock* is SQLite's exclusive transaction on a file of its own; what it gives,
  one coordinator per root, is what StoreRecovery assumes.
- *The grammar of runtime traces and the records of a prompt* are checked event by event by one
  function with no concurrency; the harness sees only that a trace was accepted or not.
- *Memory, goal and hypothesis transitions* and *the selection of materials under a budget* are
  pure, sequential and covered by table tests; the fences and dependencies around them, where
  order matters, are in CognitiveStore.
- *The CLI's commands, the parsers of `packages/protocol`, authentication and HTTP* are
  sequential I/O or shape checks; their rules appear where a model depends on them.
- *The evaluation scenarios* are drivers over the other components, and about 20 000 of the
  repository's 45 000 lines, `scripts/*.mjs`, are checks of its build, captures of a third-party
  program and fixtures.  The schemas are SQL.
