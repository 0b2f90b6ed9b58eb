---------------------------- MODULE WorkerHarness ----------------------------
(***************************************************************************)
(* The asynchronous owner of workers: apps/daemon/src/task-service/        *)
(* synthetic-harness.ts, with the user commands of application.ts, over    *)
(* the Store's operations (TaskSession) and one worker process per         *)
(* execution (what WorkerCustody promises of it).                          *)
(*                                                                         *)
(* One JavaScript thread runs everything.  An action is a continuation: a  *)
(* user's command, or what runs from the end of an await to the next one.  *)
(* A continuation with several Store transactions is a step per            *)
(* transaction, and "thread" names it so that nothing else runs before it  *)
(* is done.  Any transaction may throw (Faults), a refused one does.       *)
(*                                                                         *)
(* Abstractions.  executeTask refuses to begin while "live" has an entry,  *)
(* so the map is one record.  Evidence that is not complete closes no      *)
(* execution and is an error here.  runCognitiveTask's decision and the    *)
(* verification of results are other modules'; the HTTP server is the time *)
(* its close takes.                                                        *)
(***************************************************************************)
EXTENDS Naturals, Sequences, FiniteSets

CONSTANTS
  TaskIds, MaxAttempts, MaxEpoch,  \* as in TaskSession
  MaxQueue,                        \* bound on the runs that wait in "serial"
  Operations,                      \* bound: the lifecycle operations that are called
  Faults                           \* may transactions, processes and files fail?

ASSUME WorkerHarnessAssumption ==
  /\ MaxAttempts \in Nat \ {0} /\ MaxEpoch \in Nat \ {0}
  /\ MaxQueue \in Nat /\ Faults \in BOOLEAN /\ "none" \notin TaskIds
  /\ Operations \subseteq {"interrupt", "reconcile", "restart", "close"}

VARIABLES
  session, tasks, executions,  \* the Store's rows
  workers,    \* the supervisor and process of each execution
  live,       \* the retained supervisor, if any
  run,        \* the executeTask in progress
  serial,     \* the runs that wait for it
  lifecycle,  \* the interrupt, reconcile, restart or close in progress
  daemon,     \* the flags of the harness
  thread      \* which continuation is between two of its transactions
store == <<session, tasks, executions>>
vars == <<session, tasks, executions, workers, live, run, serial, lifecycle, daemon, thread>>

Store == INSTANCE TaskSession

Attempts == 1..MaxAttempts
Workers ==
  [life : {"none", "running", "exited"}, asked : BOOLEAN,
   answer : {"none", "evidence", "error"},   \* of dispose
   root : {"kept", "removed", "stuck"}]      \* of close
LiveWorkers ==
  [task : TaskIds \cup {"none"}, attempt : {0} \cup Attempts, runFinished : BOOLEAN, domainSettled : BOOLEAN,
   stopping : {"none", "disposing", "settling", "closing", "done"}, suspended : BOOLEAN]
NoLive == [task |-> "none", attempt |-> 0, runFinished |-> FALSE, domainSettled |-> FALSE,
           stopping |-> "none", suspended |-> FALSE]
Runs ==
  [at : {"idle", "creating", "starting", "commanding", "marking", "dispatching",
         "observing", "disposing", "settling", "stopping", "joining", "awaiting",
         "clearing", "clearSettling", "finishing", "left"},
   task : TaskIds \cup {"none"}, attempt : {0} \cup Attempts, epoch : 0..MaxEpoch,
   collecting : {"none", "events", "settled", "ended", "threw"}]
NoRun == [at |-> "idle", task |-> "none", attempt |-> 0, epoch |-> 0,
          collecting |-> "none"]
Lifecycles ==
  [operation : {"none", "interrupt", "reconcile", "restart", "close"},
   at : {"begin", "visit", "stopRetained", "retainedDisposing", "retainedSettling",
         "retainedClosing", "retainedSerial", "stopAll", "serial", "failed"}]
NoLifecycle == [operation |-> "none", at |-> "begin"]
Daemons ==
  [replacement : {"ready", "reopen", "fence", "fenced"}, restarting : BOOLEAN,
   closing : BOOLEAN, drained : BOOLEAN, closed : BOOLEAN, unallocated : {"none", "held", "stuck"}]

Init ==
  /\ Store!Init
  /\ workers = [t \in TaskIds |-> [k \in Attempts |->
                  [life |-> "none", asked |-> FALSE, answer |-> "none", root |-> "kept"]]]
  /\ live = NoLive /\ run = NoRun /\ serial = <<>> /\ lifecycle = NoLifecycle
  /\ daemon = [replacement |-> "ready", restarting |-> FALSE, closing |-> FALSE,
               drained |-> FALSE, closed |-> FALSE, unallocated |-> "none"]
  /\ thread = "free"
-----------------------------------------------------------------------------
(* The Store as the harness sees it, and what several continuations share. *)

\* store(): throws while the control plane is being replaced and after the shutdown.
Available == daemon.replacement = "ready" /\ ~daemon.drained /\ ~daemon.closed
\* runTask and executeTask admit work.
Admitting == Available /\ ~daemon.restarting
Commit(operation) == Available /\ operation
Throws(operation) == (~Available \/ Faults \/ ~ENABLED operation) /\ UNCHANGED store

Worker == workers[live.task][live.attempt]
Execution == executions[live.task][live.attempt]
Closed == Execution # Store!NoExecution /\ Execution.state = "STOPPED"
\* runtime.dispose: asked once, answered once; the answer is kept.
Ask(t, k) == [workers EXCEPT ![t][k].asked = TRUE]

\* stop(taskId): a stop in progress is joined.
Stoppable(t) == live.task = t /\ live.stopping = "none"
StopCalled(t) ==
  IF Stoppable(t)
  THEN live' = [live EXCEPT !.stopping = "disposing"] /\ workers' = Ask(t, live.attempt)
  ELSE UNCHANGED <<live, workers>>

\* Mutant of Released: the durable close is enough.
ReleasedEarly(l) == IF Available /\ Closed THEN NoLive ELSE l
\* releaseClosedCustody.
Released(l) ==
  IF l.runFinished /\ l.domainSettled /\ Available /\ Closed THEN NoLive ELSE l

\* settleClosedWorker: which command the closed worker's task still needs, if any.
Unsettled(interruptSettled) ==
  /\ tasks[live.task].attempt = live.attempt
  /\ tasks[live.task].state \in
       {"CANCELLING", "RUNNING"} \cup IF interruptSettled THEN {"VERIFYING"} ELSE {}
Settlement ==
  LET t == live.task IN
  \/ Store!ConfirmStop(t, session.epoch)
  \/ Store!ConfirmPause(t, session.epoch)
  \/ ~tasks[t].pausing /\ Store!Interrupted(t, session.epoch)
Settles(interruptSettled) ==
  /\ Available /\ Closed
  /\ IF Unsettled(interruptSettled) THEN Settlement ELSE UNCHANGED store
SettlementThrows(interruptSettled) ==
  /\ \/ ~Available \/ ~Closed
     \/ Unsettled(interruptSettled) /\ (Faults \/ ~ENABLED Settlement)
  /\ UNCHANGED store
\* Mutant of CloseThrough: the close of the process goes unrecorded.
CloseNothing(ctx) == UNCHANGED store
\* closeExecution where it is not closed yet.
CloseThrough(ctx) ==
  IF Closed THEN UNCHANGED store ELSE Store!CloseExecution(live.task, ctx)
-----------------------------------------------------------------------------
(* User commands; each may start a run or a stop in the same continuation. *)

\* runTask: admitted runs wait their turn.
Enqueue(t) ==
  IF Admitting THEN Len(serial) < MaxQueue /\ serial' = Append(serial, t) ELSE UNCHANGED serial
\* create, retry, continue, revise-request: the attempt is run at once.
AskForWork(t) ==
  /\ thread = "free" /\ Available
  /\ \/ Store!Create(t, session.epoch) \/ Store!Retry(t, session.epoch)
     \/ Store!Continue(t, session.epoch) \/ Store!Revise(t, session.epoch)
  /\ Enqueue(t)
  /\ UNCHANGED <<workers, live, run, lifecycle, daemon, thread>>
AskToStop(t) ==
  /\ thread = "free" /\ Available
  /\ Store!Cancel(t, session.epoch) \/ Store!Pause(t, session.epoch)
  /\ StopCalled(t)
  /\ UNCHANGED <<run, serial, lifecycle, daemon, thread>>
RunTask(t) ==
  /\ thread = "free" /\ Admitting /\ Store!Exists(t) /\ tasks[t].state = "READY"
  /\ Enqueue(t)
  /\ UNCHANGED <<session, tasks, executions, workers, live, run, lifecycle, daemon, thread>>
FenceLapses(t, k) ==
  /\ thread = "free" /\ Store!FenceLapses(t, k)
  /\ UNCHANGED <<workers, live, run, serial, lifecycle, daemon, thread>>
-----------------------------------------------------------------------------
(* executeTask.                                                            *)

RunStep(at) == run.at = at /\ UNCHANGED <<lifecycle, daemon>>
Running(at) == thread = "free" /\ RunStep(at)
Goto(at) == run' = [run EXCEPT !.at = at]
\* The task as it was admitted: READY in the same attempt.
Unmoved == tasks[run.task].attempt = run.attempt /\ tasks[run.task].state = "READY"
Suspended == live.suspended
Stopping == live.stopping # "none"

\* Mutant of BeginRun: nobody looks whether an earlier worker is still retained.
BeginBeside ==
  /\ Running("idle") /\ serial # <<>>
  /\ serial' = Tail(serial)
  /\ LET t == Head(serial) IN
     /\ Admitting /\ tasks[t].state = "READY" /\ Commit(Store!RecordRuntimeInput(t, session.epoch))
     /\ run' = [NoRun EXCEPT !.at = "creating", !.task = t,
                  !.attempt = tasks[t].attempt, !.epoch = session.epoch]
  /\ UNCHANGED <<workers, live, thread>>
\* The head of the queue begins, unless it is not wanted any more.
BeginRun ==
  /\ Running("idle") /\ serial # <<>>
  /\ serial' = Tail(serial)
  /\ LET t == Head(serial) IN
     \/ /\ ~Admitting \/ tasks[t].state # "READY" \/ live # NoLive \/ daemon.unallocated # "none"
        /\ UNCHANGED <<store, run>>
     \/ /\ Admitting /\ tasks[t].state = "READY" /\ live = NoLive /\ daemon.unallocated = "none"
        /\ \/ /\ Commit(Store!RecordRuntimeInput(t, session.epoch))
              /\ run' = [NoRun EXCEPT !.at = "creating", !.task = t,
                           !.attempt = tasks[t].attempt, !.epoch = session.epoch]
           \/ Throws(Store!RecordRuntimeInput(t, session.epoch)) /\ UNCHANGED run
  /\ UNCHANGED <<workers, live, thread>>
\* The supervisor is there and has no process yet: allocate, retain and start, or let go.
Admit ==
  /\ thread = "free" /\ run.at = "creating" /\ daemon.unallocated = "none"
  /\ LET Allocate == Store!AllocateExecution(run.task, run.epoch) IN
     \/ \* it could not be created
        /\ Faults /\ run' = NoRun /\ UNCHANGED <<store, live, daemon>>
     \/ /\ Unmoved /\ ~daemon.restarting /\ ~daemon.closed /\ Commit(Allocate)
        /\ live' = [NoLive EXCEPT !.task = run.task, !.attempt = run.attempt]
        /\ run' = [run EXCEPT !.at = "starting"]
        /\ UNCHANGED daemon
     \/ /\ ~Available \/ ~Unmoved \/ daemon.restarting \/ Throws(Allocate)
        /\ daemon' = [daemon EXCEPT !.unallocated = "held"]
        /\ UNCHANGED <<store, live, run>>
  /\ UNCHANGED <<workers, serial, lifecycle, thread>>
\* finally, for a supervisor that was not retained: its close may fail for good.
LetGo ==
  /\ thread = "free" /\ run.at = "creating" /\ daemon.unallocated = "held"
  /\ \/ daemon' = [daemon EXCEPT !.unallocated = "none"]
     \/ Faults /\ daemon' = [daemon EXCEPT !.unallocated = "stuck"]
  /\ run' = NoRun
  /\ UNCHANGED <<store, workers, live, serial, lifecycle, thread>>

\* finally: a suspended worker is left to the reconciliation, any other is closed.
Finishes ==
  IF Suspended THEN Goto("left") /\ UNCHANGED workers
  ELSE Goto("finishing") /\ workers' = Ask(run.task, run.attempt)
\* catch: as finally for a suspended worker; a stop is joined; anything else is disposed of.
Catches ==
  IF Suspended THEN Finishes
  ELSE IF Stopping THEN Goto("awaiting") /\ UNCHANGED workers
  ELSE Goto("clearing") /\ workers' = Ask(run.task, run.attempt)
\* start() of the supervisor resolves or rejects.
Started ==
  /\ Running("starting")
  /\ LET Ready == Store!MarkExecutionReady(run.task, run.epoch) IN
     \/ /\ Worker.asked \/ Faults
        /\ Catches /\ UNCHANGED <<store, live, thread>>
     \/ /\ Worker.life # "none" /\ Suspended
        /\ Finishes /\ UNCHANGED <<store, live, thread>>
     \/ /\ Worker.life # "none" /\ ~Suspended
        /\ \/ /\ Commit(Ready) /\ Goto("commanding") /\ thread' = "run"
              /\ UNCHANGED <<workers, live>>
           \/ Throws(Ready) /\ Catches /\ UNCHANGED <<live, thread>>
  /\ UNCHANGED serial
\* Mutant of Command: the task is not read again.
CommandUnread ==
  /\ RunStep("commanding") /\ thread = "run"
  /\ LET Begin == Store!Start(run.task, session.epoch) IN
     \/ Commit(Begin) /\ Goto("marking") /\ UNCHANGED <<workers, live, thread>>
     \/ Throws(Begin) /\ Catches /\ thread' = "free" /\ UNCHANGED live
  /\ UNCHANGED serial
\* The task is read again: what came in between stops the worker instead.
Command ==
  /\ RunStep("commanding") /\ thread = "run"
  /\ LET Begin == Store!Start(run.task, session.epoch) IN
     IF daemon.restarting \/ daemon.closed \/ ~Unmoved
     THEN /\ StopCalled(run.task) /\ Goto("stopping") /\ thread' = "free" /\ UNCHANGED store
     ELSE \/ Commit(Begin) /\ Goto("marking") /\ UNCHANGED <<workers, live, thread>>
          \/ Throws(Begin) /\ Catches /\ thread' = "free" /\ UNCHANGED live
  /\ UNCHANGED serial
\* events() is being read from here on; the prompt is marked as dispatched, then sent.
Mark ==
  /\ RunStep("marking") /\ thread = "run"
  /\ LET Dispatched == Store!MarkExecutionDispatched(run.task, run.epoch) IN
     \/ Commit(Dispatched) /\ run' = [run EXCEPT !.at = "dispatching", !.collecting = "events"]
        /\ UNCHANGED workers
     \/ Throws(Dispatched) /\ Catches
  /\ thread' = "free" /\ UNCHANGED <<live, serial>>
DispatchReturns ==
  /\ Running("dispatching")
  /\ \/ Goto("observing") /\ UNCHANGED workers
     \/ (Faults \/ Worker.asked) /\ Catches
  /\ UNCHANGED <<store, live, serial, thread>>

\* The settled event: the binding is observed, then the event is ingested.
Collecting(now) ==
  /\ run.collecting = now
  /\ UNCHANGED <<workers, live, serial, lifecycle, daemon>>
CollectSettled ==
  /\ Collecting("events") /\ thread = "free" /\ ~Stopping /\ ~Suspended /\ Worker.life # "none"
  /\ LET Observe == Store!ObserveExecutionBinding(run.task, run.epoch) IN
     \/ Commit(Observe) /\ run' = [run EXCEPT !.collecting = "settled"] /\ thread' = "collect"
     \/ Throws(Observe) /\ run' = [run EXCEPT !.collecting = "threw"] /\ UNCHANGED thread
IngestSettled ==
  /\ Collecting("settled") /\ thread' = "free"
  /\ LET Ingest == Store!IngestSettled(run.task, run.epoch) IN
     \/ Commit(Ingest) /\ run' = [run EXCEPT !.collecting = "ended"]
     \/ Throws(Ingest) /\ run' = [run EXCEPT !.collecting = "threw"]
\* At its next event the loop sees the stop or the suspension.
StreamBreaks ==
  /\ Collecting("events") /\ thread = "free" /\ (Stopping \/ Suspended)
  /\ run' = [run EXCEPT !.collecting = "ended"] /\ UNCHANGED <<store, thread>>
\* The stream ends with the process, or throws with the client.
StreamEnds ==
  /\ Collecting("events") /\ thread = "free"
  /\ Worker.life = "exited" \/ Worker.answer # "none"
  /\ run' \in {[run EXCEPT !.collecting = "ended"], [run EXCEPT !.collecting = "threw"]}
  /\ UNCHANGED <<store, thread>>
Observed ==
  /\ Running("observing") /\ run.collecting \in {"ended", "threw"}
  /\ IF run.collecting = "threw" THEN Catches
     ELSE IF Suspended THEN Finishes
     ELSE IF Stopping THEN Goto("joining") /\ UNCHANGED workers
     ELSE Goto("disposing") /\ workers' = Ask(run.task, run.attempt)
  /\ UNCHANGED <<store, live, serial, thread>>
\* closeExecution of the run's own owner: the same evidence again changes nothing.
CloseOwned ==
  \/ Closed /\ Store!Owned(run.task, run.epoch) /\ UNCHANGED store
  \/ Store!CloseExecution(run.task, run.epoch)
Disposed ==
  /\ Running("disposing") /\ Worker.answer # "none"
  /\ \/ Worker.answer = "error" /\ Catches /\ UNCHANGED <<store, thread>>
     \/ /\ Worker.answer = "evidence"
        /\ \/ Commit(CloseOwned) /\ Goto("settling") /\ thread' = "run" /\ UNCHANGED workers
           \/ Throws(CloseOwned) /\ Catches /\ UNCHANGED thread
  /\ UNCHANGED <<live, serial>>
SettleRun ==
  /\ RunStep("settling") /\ thread = "run" /\ thread' = "free"
  /\ \/ Settles(FALSE) /\ live' = [live EXCEPT !.domainSettled = TRUE] /\ Finishes
     \/ SettlementThrows(FALSE) /\ Catches /\ UNCHANGED live
  /\ UNCHANGED serial
\* catch, disposed: what the worker's end still asks for is done, then the error goes on.
Cleared ==
  /\ Running("clearing") /\ Worker.answer # "none"
  /\ \/ Worker.answer = "error" /\ Finishes /\ UNCHANGED <<store, thread>>
     \/ /\ Worker.answer = "evidence"
        /\ \/ Commit(CloseThrough(run.epoch)) /\ Goto("clearSettling") /\ thread' = "run"
              /\ UNCHANGED workers
           \/ Throws(CloseThrough(run.epoch)) /\ Finishes /\ UNCHANGED thread
  /\ UNCHANGED <<live, serial>>
SettleCleared ==
  /\ RunStep("clearSettling") /\ thread = "run" /\ thread' = "free" /\ Finishes
  /\ \/ Settles(FALSE) /\ live' = [live EXCEPT !.domainSettled = TRUE]
     \/ SettlementThrows(FALSE) /\ UNCHANGED live
  /\ UNCHANGED serial
\* Mutant of Joined: what failed in the meantime is not resumed.
JoinedPartly ==
  /\ Running("stopping") \/ Running("joining")
  /\ live.stopping = "done" /\ Finishes
  /\ UNCHANGED <<store, live, serial, thread>>
\* A stop that was joined has ended well.
Joined ==
  /\ \E at \in {"stopping", "joining", "awaiting"} : Running(at)
  /\ live.stopping = "done" /\ Finishes
  /\ UNCHANGED <<store, live, serial, thread>>
FinishRun ==
  /\ Running("finishing") /\ Worker.root # "kept"
  /\ LET finished == [live EXCEPT !.runFinished = TRUE] IN
     live' = IF Worker.root = "removed" /\ ~live.suspended THEN Released(finished) ELSE finished
  /\ run' = NoRun
  /\ UNCHANGED <<store, workers, serial, thread>>
LeaveRun ==
  /\ Running("left")
  /\ live' = [live EXCEPT !.runFinished = TRUE] /\ run' = NoRun
  /\ UNCHANGED <<store, workers, serial, thread>>
-----------------------------------------------------------------------------
(* stop().                                                                 *)

StopStep(now) == live # NoLive /\ live.stopping = now /\ UNCHANGED <<serial, daemon>>
StopGoto(next) == live' = [live EXCEPT !.stopping = next]
\* The retained supervisor stays; whoever awaits the stop sees it rejected.
StopFails ==
  /\ StopGoto("none")
  /\ run' = [run EXCEPT !.at =
       IF live.suspended /\ @ \in {"stopping", "joining", "awaiting"} THEN "left"
       ELSE IF @ \in {"stopping", "joining"} THEN "clearing"
       ELSE IF @ = "awaiting" THEN "finishing" ELSE @]
  /\ lifecycle' = [lifecycle EXCEPT !.at = IF @ \in {"stopRetained", "stopAll"} THEN "failed" ELSE @]
  /\ UNCHANGED workers
\* Mutant of StopDisposed: the close is recorded before the process is gone.
StopUndisposed ==
  /\ StopStep("disposing") /\ thread = "free"
  /\ Commit(CloseThrough(session.epoch)) /\ StopGoto("settling") /\ thread' = "stop"
  /\ UNCHANGED <<workers, run, lifecycle>>
StopDisposed ==
  /\ StopStep("disposing") /\ thread = "free" /\ Worker.answer # "none"
  /\ \/ Worker.answer = "error" /\ StopFails /\ UNCHANGED <<store, thread>>
     \/ /\ Worker.answer = "evidence" /\ live.suspended
        /\ StopGoto("done") /\ UNCHANGED <<store, workers, run, lifecycle, thread>>
     \/ /\ Worker.answer = "evidence" /\ ~live.suspended
        /\ \/ /\ Commit(CloseThrough(session.epoch)) /\ StopGoto("settling") /\ thread' = "stop"
              /\ UNCHANGED <<workers, run, lifecycle>>
           \/ Throws(CloseThrough(session.epoch)) /\ StopFails /\ UNCHANGED thread
SettleStop ==
  /\ StopStep("settling") /\ thread = "stop" /\ thread' = "free"
  /\ \/ /\ Settles(FALSE)
        /\ live' = [live EXCEPT !.domainSettled = TRUE, !.stopping = "closing"]
        /\ UNCHANGED <<workers, run, lifecycle>>
     \/ SettlementThrows(FALSE) /\ StopFails
StopCloses ==
  /\ StopStep("closing") /\ thread = "free" /\ Worker.root # "kept"
  /\ \/ Worker.root = "stuck" /\ StopFails
     \/ /\ Worker.root = "removed"
        /\ live' = LET l == [live EXCEPT !.stopping = "done"] IN
                     IF l.suspended THEN l ELSE Released(l)
        /\ UNCHANGED <<workers, run, lifecycle>>
  /\ UNCHANGED <<store, thread>>
-----------------------------------------------------------------------------
(* interruptControlPlane, reconcileRetainedWorkers, restart, close.        *)

\* Owners that the operation's replacements of the control plane may need.
Owners(operation) ==
  (IF daemon.replacement \in {"ready", "fenced"} THEN 0 ELSE 1)
    + (IF operation = "restart" \/ (operation = "interrupt" /\ daemon.replacement = "ready") THEN 1 ELSE 0)
CallLifecycle(operation) ==
  /\ thread = "free" /\ lifecycle = NoLifecycle
  /\ ~daemon.closed /\ ~daemon.restarting /\ ~daemon.drained
  /\ session.epoch + Owners(operation) <= MaxEpoch
  /\ lifecycle' = [operation |-> operation, at |-> "begin"]
  /\ daemon' = [daemon EXCEPT !.restarting = TRUE]
  /\ UNCHANGED <<store, workers, live, run, serial, thread>>
\* close() waits its turn.
CallClose ==
  /\ thread = "free" /\ ~daemon.closed /\ ~daemon.closing /\ "close" \in Operations
  /\ daemon' = [daemon EXCEPT !.closing = TRUE, !.restarting = TRUE]
  /\ UNCHANGED <<store, workers, live, run, serial, lifecycle, thread>>
CloseBegins ==
  /\ thread = "free" /\ daemon.closing /\ lifecycle = NoLifecycle
  /\ lifecycle' = [operation |-> "close", at |-> "begin"]
  /\ UNCHANGED <<store, workers, live, run, serial, daemon, thread>>

LifecycleStep(at) ==
  /\ lifecycle.operation # "none" /\ lifecycle.at = at /\ UNCHANGED <<run, serial>>
LifecycleGoto(at) == lifecycle' = [lifecycle EXCEPT !.at = at] /\ UNCHANGED daemon
\* finally: work is admitted again, unless a close is waiting or has drained.
Ends(d) ==
  /\ lifecycle' = NoLifecycle
  /\ daemon' = IF lifecycle.operation = "close"
               THEN [d EXCEPT !.closing = FALSE, !.restarting = d.drained]
               ELSE [d EXCEPT !.restarting = d.closing]
\* replaceControlPlane: close and reopen the Store as a new owner, then fence the old one;
\* what is uncertain is tried again with the same identity.
Replaces == IF daemon.replacement = "fenced" THEN UNCHANGED store ELSE Store!FenceRestartedOwners
Replaced == [daemon EXCEPT !.replacement = "ready"]
ReplacementFails ==
  /\ Faults
  /\ \/ /\ daemon.replacement # "fenced"
        /\ \E phase \in {"reopen", "fence"} :
             /\ daemon.replacement = "fence" => phase = "fence"
             /\ Ends([daemon EXCEPT !.replacement = phase])
        /\ UNCHANGED store
     \/ daemon.replacement # "fenced" /\ Store!FenceRestartedOwners
        /\ Ends([daemon EXCEPT !.replacement = "fenced"])
     \/ daemon.replacement = "fenced" /\ Ends(daemon) /\ UNCHANGED store
Visit(d) == lifecycle' = [lifecycle EXCEPT !.at = "visit"] /\ daemon' = d
Begin ==
  /\ LifecycleStep("begin") /\ thread = "free"
  /\ \/ \* the HTTP server does not close
        /\ Faults /\ lifecycle.operation # "reconcile" /\ Ends(daemon) /\ UNCHANGED <<store, live>>
     \/ /\ lifecycle.operation = "interrupt"
        /\ live' = IF live = NoLive THEN live ELSE [live EXCEPT !.suspended = TRUE]
        /\ (Replaces /\ Ends(Replaced)) \/ ReplacementFails
     \/ /\ lifecycle.operation # "interrupt" /\ ~daemon.drained /\ UNCHANGED live
        /\ \/ daemon.replacement = "ready" /\ Visit(daemon) /\ UNCHANGED store
           \/ daemon.replacement # "ready" /\ ((Replaces /\ Visit(Replaced)) \/ ReplacementFails)
     \/ \* a close that had drained before
        /\ daemon.drained /\ UNCHANGED <<store, live>>
        /\ Ends([daemon EXCEPT !.closed = TRUE]) \/ (Faults /\ Ends(daemon))
  /\ UNCHANGED <<workers, thread>>
\* reconcileRetained is done: restart and close stop what is left.
Reconciled ==
  IF lifecycle.operation = "reconcile"
  THEN Ends(daemon) /\ UNCHANGED <<live, workers>>
  ELSE /\ LifecycleGoto("stopAll")
       /\ IF live = NoLive THEN UNCHANGED <<live, workers>> ELSE StopCalled(live.task)
Visits ==
  /\ LifecycleStep("visit") /\ thread = "free"
  /\ IF live = NoLive \/ (~live.suspended /\ ~live.runFinished) THEN Reconciled
     ELSE IF ~live.suspended THEN LifecycleGoto("stopRetained") /\ StopCalled(live.task)
     ELSE \/ /\ LifecycleGoto("retainedDisposing")
             /\ workers' = Ask(live.task, live.attempt) /\ UNCHANGED live
          \/ Faults /\ Ends(daemon) /\ UNCHANGED <<live, workers>>
  /\ UNCHANGED <<store, thread>>
RetainedStopped ==
  /\ LifecycleStep("stopRetained") /\ thread = "free"
  /\ live = NoLive \/ live.stopping = "done"
  /\ Reconciled /\ UNCHANGED <<store, thread>>
RecoverClose ==
  IF Closed THEN UNCHANGED store ELSE Store!RecoverExecutionClose(live.task, session.epoch)
RetainedDisposed ==
  /\ LifecycleStep("retainedDisposing") /\ thread = "free" /\ Worker.answer # "none"
  /\ \/ Worker.answer = "error" /\ Ends(daemon) /\ UNCHANGED <<store, thread>>
     \/ /\ Worker.answer = "evidence"
        /\ \/ Commit(RecoverClose) /\ LifecycleGoto("retainedSettling") /\ thread' = "lifecycle"
           \/ Throws(RecoverClose) /\ Ends(daemon) /\ UNCHANGED thread
  /\ UNCHANGED <<workers, live>>
SettleRetained ==
  /\ LifecycleStep("retainedSettling") /\ thread = "lifecycle" /\ thread' = "free"
  /\ \/ /\ Settles(TRUE) /\ live' = [live EXCEPT !.domainSettled = TRUE]
        /\ LifecycleGoto("retainedClosing")
     \/ SettlementThrows(TRUE) /\ Ends(daemon) /\ UNCHANGED live
  /\ UNCHANGED workers
RetainedCloses ==
  /\ LifecycleStep("retainedClosing") /\ thread = "free" /\ Worker.root # "kept"
  /\ IF Worker.root = "removed" THEN LifecycleGoto("retainedSerial") ELSE Ends(daemon)
  /\ UNCHANGED <<store, workers, live, thread>>
Idle == run = NoRun /\ serial = <<>>
RetainedReleased ==
  /\ LifecycleStep("retainedSerial") /\ thread = "free" /\ Idle
  /\ live' = Released(live)
  /\ IF lifecycle.operation = "reconcile" THEN Ends(daemon) ELSE LifecycleGoto("stopAll")
  /\ UNCHANGED <<store, workers, thread>>
AllStopped ==
  /\ LifecycleStep("stopAll") /\ thread = "free"
  /\ live = NoLive \/ live.stopping = "done"
  /\ LifecycleGoto("serial") /\ UNCHANGED <<store, workers, live, thread>>
Drained ==
  /\ LifecycleStep("serial") /\ thread = "free" /\ Idle
  /\ \/ /\ live # NoLive \/ daemon.unallocated # "none"
        /\ Ends(daemon) /\ UNCHANGED store
     \/ /\ live = NoLive /\ daemon.unallocated = "none" /\ lifecycle.operation = "restart"
        /\ (Replaces /\ Ends(Replaced)) \/ ReplacementFails
     \/ /\ live = NoLive /\ daemon.unallocated = "none" /\ lifecycle.operation = "close"
        /\ \/ Ends([daemon EXCEPT !.drained = TRUE, !.closed = TRUE])
           \/ Faults /\ Ends([daemon EXCEPT !.drained = TRUE])
        /\ UNCHANGED store
  /\ UNCHANGED <<workers, live, thread>>
LifecycleFails ==
  /\ LifecycleStep("failed") /\ thread = "free"
  /\ Ends(daemon) /\ UNCHANGED <<store, workers, live, thread>>
-----------------------------------------------------------------------------
(* The worker of an execution (ControlledWorker).                          *)

WorkerStep == thread = "free" /\ live # NoLive
  /\ UNCHANGED <<store, live, run, serial, lifecycle, daemon, thread>>
Becomes(w) == workers' = [workers EXCEPT ![live.task][live.attempt] = w]
Spawns ==
  /\ WorkerStep /\ run.at = "starting" /\ Worker.life = "none" /\ ~Worker.asked
  /\ Becomes([Worker EXCEPT !.life = "running"])
Exits ==
  /\ WorkerStep /\ Worker.life = "running" /\ Becomes([Worker EXCEPT !.life = "exited"])
\* dispose answers: evidence of a process that is not running, or an error.
Answers ==
  /\ WorkerStep /\ Worker.asked /\ Worker.answer = "none"
  /\ \/ Worker.life # "running" /\ Becomes([Worker EXCEPT !.answer = "evidence"])
     \/ Faults /\ Becomes([Worker EXCEPT !.answer = "error"])
\* supervisor.close: the answer of dispose, then the removal of its directory.
Closes ==
  /\ WorkerStep /\ Worker.answer # "none" /\ Worker.root = "kept"
  /\ run.at = "finishing" \/ live.stopping = "closing" \/ lifecycle.at = "retainedClosing"
  /\ \/ Worker.answer = "evidence" /\ Becomes([Worker EXCEPT !.root = "removed"])
     \/ Faults /\ Becomes([Worker EXCEPT !.root = "stuck"])

Users ==
  \/ \E t \in TaskIds : AskForWork(t) \/ AskToStop(t) \/ RunTask(t)
  \/ \E operation \in Operations \ {"close"} : CallLifecycle(operation)
  \/ CallClose
RunContinues ==
  \/ BeginRun \/ Admit \/ LetGo \/ Started \/ Command \/ Mark \/ DispatchReturns \/ Observed
  \/ Disposed \/ SettleRun \/ Cleared \/ SettleCleared \/ Joined \/ FinishRun \/ LeaveRun
EventsArrive == CollectSettled \/ StreamBreaks
StreamContinues == IngestSettled \/ StreamEnds
StopContinues == StopDisposed \/ SettleStop \/ StopCloses
LifecycleContinues ==
  \/ CloseBegins \/ Begin \/ Visits \/ RetainedStopped \/ RetainedDisposed \/ SettleRetained
  \/ RetainedCloses \/ RetainedReleased \/ AllStopped \/ Drained \/ LifecycleFails
WorkerContinues == Spawns \/ Exits \/ Answers \/ Closes
Next ==
  \/ Users \/ RunContinues \/ EventsArrive \/ StreamContinues \/ StopContinues
  \/ LifecycleContinues \/ WorkerContinues
  \/ \E t \in TaskIds, k \in Attempts : FenceLapses(t, k)
\* Every await ends: a worker has a deadline (maxDurationMs) after which its client ends it
\* and answers.  What is ready waits in the event loop while another continuation has the
\* thread, hence strong fairness.
Fairness ==
  /\ SF_vars(RunContinues) /\ SF_vars(StreamContinues) /\ SF_vars(StopContinues)
  /\ SF_vars(LifecycleContinues) /\ SF_vars(WorkerContinues)
Spec == Init /\ [][Next]_vars /\ Fairness
-----------------------------------------------------------------------------
\* The types of the variables; the Store's own are TaskSession's.
TypeOK ==
  /\ Store!TypeOK
  /\ workers \in [TaskIds -> [Attempts -> Workers]]
  /\ live \in LiveWorkers /\ run \in Runs
  /\ serial \in Seq(TaskIds) /\ Len(serial) <= MaxQueue
  /\ lifecycle \in Lifecycles /\ daemon \in Daemons
  /\ thread \in {"free", "run", "collect", "stop", "lifecycle"}
  /\ run.at = "idle" <=> run = NoRun

Held(t, k) == live.task = t /\ live.attempt = k
\* Whoever has been let go is gone: an execution whose supervisor is not retained is
\* closed in the Store, its process is not running and its directory is removed.
ForgottenIsFinished ==
  \A t \in TaskIds, k \in Attempts : executions[t][k] # Store!NoExecution /\ ~Held(t, k) =>
    /\ executions[t][k].state = "STOPPED"
    /\ workers[t][k].life # "running" /\ workers[t][k].root = "removed"

\* The Store's word on a process is physical: a closed execution has none, now or later.
ClosedIsPhysical ==
  \A t \in TaskIds, k \in Attempts : executions[t][k] # Store!NoExecution
      /\ executions[t][k].state = "STOPPED" =>
    workers[t][k].life # "running" /\ workers[t][k].asked

\* What is said of a process that has been let go, or closed in the Store, is physical.
SaidIsPhysical == ForgottenIsFinished /\ ClosedIsPhysical

\* A task that is running or being cancelled has somebody who will settle it: the
\* retained supervisor of its current attempt, which has not done so yet.
ObligationIsHeld ==
  \A t \in TaskIds : Store!Exists(t) /\ tasks[t].state \in {"RUNNING", "CANCELLING"} =>
    Held(t, tasks[t].attempt) /\ ~live.domainSettled

\* No two processes run at once, although the Store would allow a new owner a second one.
OneProcess ==
  Cardinality({p \in TaskIds \X Attempts : workers[p[1]][p[2]].life = "running"}) <= 1

\* A task's work begins only if nobody asked for it to stop in the meantime: it is
\* RUNNING only from a READY of the very attempt its worker was started for, outside
\* of every lifecycle operation.
BeginsAsAdmitted ==
  [][\A t \in TaskIds : Store!Exists(t) /\ tasks[t].state = "READY" /\ tasks'[t].state = "RUNNING" =>
       /\ run.task = t /\ run.attempt = tasks[t].attempt
       /\ ~live.suspended /\ ~daemon.restarting]_vars

\* A cancellation that was accepted is confirmed, unless its worker was suspended by an
\* interruption (reconcileRetainedWorkers is then called for).
CancellationCompletes ==
  \A t \in TaskIds :
    Store!Exists(t) /\ tasks[t].state = "CANCELLING" ~>
      tasks[t].state # "CANCELLING" \/ Suspended
\* Every lifecycle operation ends, whatever it waits for.
LifecycleEnds == lifecycle # NoLifecycle ~> lifecycle = NoLifecycle
=============================================================================
