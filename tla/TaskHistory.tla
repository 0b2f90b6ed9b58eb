----------------------------- MODULE TaskHistory -----------------------------
(***************************************************************************)
(* One Task under every sequence of calls of packages/cognition-core/src/  *)
(* task-transitions.ts: one action per TaskAction, and retryTask,          *)
(* reviseTaskIntent and appendTaskOutcome.                                 *)
(*                                                                         *)
(* A call whose expected revision, intent revision, attempt or receipt is  *)
(* not the current one throws and changes nothing, so only the calls that  *)
(* pass checkChange and checkReceipt are steps here; the callers that hold *)
(* stale coordinates are those of TaskSession.                             *)
(***************************************************************************)
EXTENDS TaskRules

CONSTANTS
  ReuseOutcomeIds,  \* may a caller offer an outcome identity of another attempt?
  MaxRevision,      \* bound on the task's revisions
  MaxAttempts,      \* bound on attempts
  MaxOutcomes       \* bound on the outcomes of one attempt

ASSUME TaskHistoryAssumption ==
  /\ ReuseOutcomeIds \in BOOLEAN
  /\ MaxRevision \in Nat /\ MaxAttempts \in Nat /\ MaxOutcomes \in Nat

VARIABLE task

Current == Latest(task)

\* References a caller can name: one revision per identity.
Refs == {refs \in SUBSET [id : ActionIds, revision : 1..2] : DistinctIds(refs)}

\* Without reuse, a caller behaves as TaskStoreEngineV1.executeTask does: the
\* identity of the attempt's own outcomes, else one no attempt has.
OfferedOutcomeId(id) ==
  \/ ReuseOutcomeIds
  \/ IF Len(Current.outcomes) > 0
     THEN id = Last(Current.outcomes).id
     ELSE \A i \in 1..Len(task.attempts) :
            \A k \in 1..Len(task.attempts[i].outcomes) : task.attempts[i].outcomes[k].id # id

Init == \E id \in AttemptIds, contract \in Contracts : task = NewTask(id, contract)

\* checkChange: the whole history is asserted before any rule applies.
CanChange == AssertTask(task) /\ task.revision < MaxRevision
Active == CanChange /\ ~IsTerminal(Current)
Replace(a) == task' = Commit(task, a)
-----------------------------------------------------------------------------
Prepare == Active /\ Current.state = "CREATED" /\ Replace(MoveTo(Current, "READY"))
WaitInput == Active /\ Current.state \in {"CREATED", "READY"} /\ Replace(MoveTo(Current, "WAITING_INPUT"))
WaitApproval == Active /\ Current.state = "READY" /\ Replace(MoveTo(Current, "WAITING_APPROVAL"))
\* Mutant of Continue: a paused attempt resumes without a checkpoint contract.
ContinuePaused ==
  /\ Active
  /\ Current.state \in {"WAITING_INPUT", "WAITING_APPROVAL", "PAUSED"}
  /\ Replace(MoveTo(Current, "READY"))
Continue ==
  /\ Active
  /\ Current.state \in {"WAITING_INPUT", "WAITING_APPROVAL"}
  /\ Replace(MoveTo(Current, "READY"))
Start == Active /\ Current.state = "READY" /\ Replace(MoveTo(Current, "RUNNING"))
Settled ==
  /\ Active
  /\ Current.state = "RUNNING"
  /\ \E completeness \in {"complete", "incomplete"} : Replace(Settle(Current, completeness))
AskPause ==
  /\ Active
  /\ Current.state = "RUNNING" /\ ~Current.pauseRequested
  /\ Replace(RequestPause(Current))
\* Offered with no unresolved actions; with any, the call throws.
Pause ==
  /\ Active
  /\ Current.state = "RUNNING" /\ Current.pauseRequested
  /\ Replace(ConfirmPause(Current))
Cancel == Active /\ ~Current.cancellationRequested /\ Replace(RequestCancel(Current))
Stop ==
  /\ Active
  /\ Current.state = "CANCELLING"
  /\ \E refs \in Refs : Current.unresolved \subseteq refs /\ Replace(ConfirmStop(Current, refs))
LoseEffects ==
  /\ Active
  /\ Current.state \in {"RUNNING", "CANCELLING"}
  /\ \E refs \in Refs \ {{}} :
       /\ \A r \in refs, u \in Current.unresolved : u.id = r.id => u.revision = r.revision
       /\ Replace(EffectsUnknown(Current, refs))
ReconcileEffects ==
  /\ Active
  /\ Current.state = "NEEDS_RECONCILIATION"
  /\ \E refs \in Refs \ {{}} : refs = Current.unresolved /\ Replace(Reconcile(Current))
FinalizeTask ==
  /\ Active
  /\ Current.state = "VERIFYING"
  /\ \E id \in OutcomeIds, results \in Results :
       /\ OfferedOutcomeId(id)
       /\ \A i \in 1..(Len(task.attempts) - 1) :
            \A k \in 1..Len(task.attempts[i].outcomes) : task.attempts[i].outcomes[k].id # id
       /\ CanDeriveOutcome(Current, id, Len(Current.outcomes) + 1)
       /\ Replace(Finalize(Current, DeriveOutcome(Current, id, Len(Current.outcomes) + 1, results)))
-----------------------------------------------------------------------------
FreshAttemptId(id) == \A i \in 1..Len(task.attempts) : task.attempts[i].id # id
CanAddAttempt == CanChange /\ IsTerminal(Current) /\ Len(task.attempts) < MaxAttempts

Retry ==
  /\ CanAddAttempt
  /\ \E id \in AttemptIds :
       FreshAttemptId(id) /\ task' = CommitNew(task, InitialAttempt(id, Current.intent))
ReviseIntent ==
  /\ CanAddAttempt
  /\ \E id \in AttemptIds, contract \in Contracts \ {Current.intent.contract} :
       /\ FreshAttemptId(id)
       /\ task' = CommitNew(task, InitialAttempt(id,
                    [revision |-> Current.intent.revision + 1, contract |-> contract]))
\* appendTaskOutcome of a VERIFYING attempt is FinalizeTask.
RecheckOutcome ==
  /\ CanChange /\ IsTerminal(Current)
  /\ Len(Current.outcomes) < MaxOutcomes
  /\ \E id \in OutcomeIds, results \in Results :
       /\ OfferedOutcomeId(id)
       /\ CanDeriveOutcome(Current, id, Len(Current.outcomes) + 1)
       /\ LET next == AppendOutcome(Current,
                        DeriveOutcome(Current, id, Len(Current.outcomes) + 1, results))
          IN OutcomeHistoryOK(next) /\ Replace(next)

Next ==
  \/ Prepare \/ WaitInput \/ WaitApproval \/ Continue \/ Start \/ Settled
  \/ AskPause \/ Pause \/ Cancel \/ Stop \/ LoseEffects \/ ReconcileEffects
  \/ FinalizeTask \/ Retry \/ ReviseIntent \/ RecheckOutcome

Spec == Init /\ [][Next]_task
-----------------------------------------------------------------------------
\* The record keeps the types of domain/src/task.ts.
TypeOK == task \in Tasks

\* An attempt has outcomes only once it is terminal: no line of the code says so
\* and every rule relies on it (appendTaskOutcome sends a VERIFYING attempt to
\* finalize for this reason).
SoundAttempt(a) ==
  /\ a \in Attempts
  /\ AttemptOK(a)
  /\ ~IsTerminal(a) => Len(a.outcomes) = 0

Sound(t) ==
  /\ t \in Tasks
  /\ TaskOK(t)
  /\ \A i \in 1..Len(t.attempts) : SoundAttempt(t.attempts[i])

\* The invariant the proofs of TaskHistoryProofs show to be inductive.
Inductive == Sound(task) /\ (~ReuseOutcomeIds => OutcomeIdsUnique(task))

\* A chain of accepted calls never leaves a task that the next call's
\* assertTask refuses: such a task could be neither finished nor retried.
NeverWedged == AssertTask(task)

\* The same, without the identities of outcomes.
WellFormed == TaskOK(task)

\* The store's independent check, assertTaskHistoryExtensionV1, accepts every
\* version these rules produce: the two were written apart and must agree.
StoreAcceptsEveryStep == [][HistoryExtension(task, task')]_task

\* A requested cancellation is never dropped: the attempt it was asked of keeps
\* the request, and can end in no terminal state but CANCELLED.
CancellationSticks ==
  [][\A i \in 1..Len(task.attempts) :
       task.attempts[i].cancellationRequested =>
         /\ task'.attempts[i].cancellationRequested
         /\ IsTerminal(task'.attempts[i]) => task'.attempts[i].state = "CANCELLED"]_task

\* Actions with unknown effects leave the record in one way: all of them, at
\* their original revisions, when a NEEDS_RECONCILIATION attempt is reconciled.
EffectsNeverForgotten ==
  [][\A i \in 1..Len(task.attempts) :
       LET old == task.attempts[i]  new == task'.attempts[i] IN
       \/ old.unresolved \subseteq new.unresolved
       \/ /\ old.state = "NEEDS_RECONCILIATION" /\ new.state = "VERIFYING"
          /\ new.unresolved = {} /\ new.completeness = "complete"]_task

\* COMPLETED was earned: complete execution, and every required criterion
\* passed by a method that is not the model's own word.
CompletedIsEarned ==
  \A i \in 1..Len(task.attempts) :
    task.attempts[i].state = "COMPLETED" =>
      /\ task.attempts[i].completeness = "complete"
      /\ \A c \in Required : /\ task.attempts[i].outcomes[1].results[c] = "pass"
                             /\ c \notin ModelAssisted
=============================================================================
