------------------------------ MODULE TaskRules ------------------------------
(***************************************************************************)
(* The pure rules of one Task: packages/domain/src/task.ts,                *)
(* packages/cognition-core/src/{task-transitions,outcome-rules}.ts, and    *)
(* the check packages/memory-store/src/task-store-v1.ts makes of every     *)
(* version a reducer returns.  No state here: TaskHistory and TaskSession  *)
(* build their actions from these operators.                               *)
(*                                                                         *)
(* Abstractions.  A Task is its revision and its attempts; its state and   *)
(* intent are those of the last attempt, as commit() keeps them.  Times    *)
(* are dropped (the caller's clock never goes back).  An evidence         *)
(* reference is a record [id, revision]; a contract stands for the request,*)
(* the constraints and the criteria of an intent; every contract has the   *)
(* same Criteria.  A criterion result is its checked status.               *)
(***************************************************************************)
EXTENDS Integers, Sequences, SequencesExt

CONSTANTS
  AttemptIds,     \* identities an attempt may take
  OutcomeIds,     \* identities an outcome may take
  Contracts,      \* what an intent may ask for
  Criteria,       \* acceptance criteria of every intent
  Required,       \* the criteria marked required
  ModelAssisted,  \* the criteria whose method is "model-assisted"
  ActionIds       \* identities of external actions with unknown effects

\* assertTaskIntent: criteria are required, at least one of them mandatory.
ASSUME CriteriaAssumption ==
  /\ Required \subseteq Criteria /\ Required # {}
  /\ ModelAssisted \subseteq Criteria

TerminalStates == {"COMPLETED", "PARTIAL", "FAILED", "CANCELLED", "UNVERIFIABLE"}
UnsettledStates == {"CREATED", "READY", "RUNNING", "WAITING_INPUT", "WAITING_APPROVAL", "PAUSED"}
TaskStates == TerminalStates \cup UnsettledStates
                \cup {"VERIFYING", "CANCELLING", "NEEDS_RECONCILIATION"}
OutcomeStatuses == {"completed", "partial", "failed", "cancelled", "unverifiable"}
ResultStatuses == {"pass", "fail", "unknown", "not-applicable"}
Completeness == {"not-settled", "complete", "incomplete"}

Intents == [revision : Nat \ {0}, contract : Contracts]
EvidenceRefs == [id : ActionIds, revision : Nat \ {0}]
Results == [Criteria -> ResultStatuses]
Outcomes == [id : OutcomeIds, revision : Nat \ {0},
             status : OutcomeStatuses, results : Results]
Attempts == [id : AttemptIds, intent : Intents, state : TaskStates,
             pauseRequested : BOOLEAN, cancellationRequested : BOOLEAN,
             completeness : Completeness, outcomes : Seq(Outcomes),
             unresolved : SUBSET EvidenceRefs]
Tasks == [revision : Nat \ {0}, attempts : Seq(Attempts)]

IsTerminal(a) == a.state \in TerminalStates
Latest(t) == t.attempts[Len(t.attempts)]
\* The terminal state an outcome status names (status.toUpperCase()).
StateOf(status) ==
  CASE status = "completed" -> "COMPLETED"
    [] status = "partial" -> "PARTIAL"
    [] status = "failed" -> "FAILED"
    [] status = "cancelled" -> "CANCELLED"
    [] status = "unverifiable" -> "UNVERIFIABLE"
-----------------------------------------------------------------------------
(* Outcomes.                                                               *)

\* A model's own verdict is recorded as unknown.
CheckedResults(results) ==
  [c \in Criteria |-> IF c \in ModelAssisted /\ results[c] \in {"pass", "fail"}
                      THEN "unknown" ELSE results[c]]

\* Mutant of Classify: an incomplete execution may count as completed.
ClassifyAnyExecution(completeness, results) ==
  IF \A c \in Required : results[c] = "pass" THEN "completed"
  ELSE IF \E c \in Criteria : results[c] = "pass" THEN "partial"
  ELSE IF \E c \in Criteria : results[c] = "fail" THEN "failed"
  ELSE "unverifiable"

\* First match wins: completed, then partial, then failed.
Classify(completeness, results) ==
  IF completeness = "complete" /\ \A c \in Required : results[c] = "pass" THEN "completed"
  ELSE IF \E c \in Criteria : results[c] = "pass" THEN "partial"
  ELSE IF \E c \in Criteria : results[c] = "fail" THEN "failed"
  ELSE "unverifiable"

StatusFor(a, results) ==
  IF a.cancellationRequested THEN "cancelled" ELSE Classify(a.completeness, results)

\* assertTaskOutcomeHistory and assertOutcomeHistoryStatus.
OutcomeHistoryOK(a) ==
  /\ \A i \in 1..Len(a.outcomes) :
       /\ a.outcomes[i].revision = i
       /\ a.outcomes[i].id = a.outcomes[1].id
       /\ \A c \in ModelAssisted : a.outcomes[i].results[c] \notin {"pass", "fail"}
       /\ a.outcomes[i].status = StatusFor(a, a.outcomes[i].results)
  /\ Len(a.outcomes) > 0 => a.completeness # "not-settled"
  /\ Len(a.outcomes) > 0 /\ IsTerminal(a) => StateOf(a.outcomes[1].status) = a.state
  /\ Len(a.outcomes) > 0 /\ a.cancellationRequested => a.completeness = "complete"

\* The guards of deriveOutcome, for an outcome with this identity and revision.
CanDeriveOutcome(a, id, revision) ==
  /\ ~a.pauseRequested
  /\ \/ a.state \in {"VERIFYING", "CANCELLED"}
     \/ IsTerminal(a) /\ Len(a.outcomes) > 0
  /\ a.unresolved = {}
  /\ a.completeness # "not-settled"
  /\ a.state = "CANCELLED" => a.cancellationRequested
  /\ a.cancellationRequested => /\ a.completeness = "complete"
                                /\ a.state \in {"VERIFYING", "CANCELLED"}
  /\ a.state = "COMPLETED" => a.completeness = "complete"
  /\ OutcomeHistoryOK(a)
  /\ \A i \in 1..Len(a.outcomes) : a.outcomes[i].id = id
  /\ revision = Len(a.outcomes) + 1

DeriveOutcome(a, id, revision, results) ==
  [id |-> id, revision |-> revision, results |-> CheckedResults(results),
   status |-> StatusFor(a, CheckedResults(results))]
-----------------------------------------------------------------------------
(* Attempts: the effect of each TaskAction on the current one.             *)

InitialAttempt(id, intent) ==
  [id |-> id, intent |-> intent, state |-> "CREATED",
   pauseRequested |-> FALSE, cancellationRequested |-> FALSE,
   completeness |-> "not-settled", outcomes |-> <<>>, unresolved |-> {}]

MoveTo(a, state) == [a EXCEPT !.state = state]
Settle(a, completeness) ==
  [a EXCEPT !.state = "VERIFYING", !.completeness = completeness, !.pauseRequested = FALSE]
RequestPause(a) == [a EXCEPT !.pauseRequested = TRUE]
ConfirmPause(a) == [a EXCEPT !.state = "PAUSED", !.pauseRequested = FALSE]
\* Mutant of RequestCancel: a pending pause survives the cancellation.
CancelKeepingPause(a) == [a EXCEPT !.state = "CANCELLING", !.cancellationRequested = TRUE]
RequestCancel(a) ==
  [a EXCEPT !.state = "CANCELLING", !.cancellationRequested = TRUE, !.pauseRequested = FALSE]
ConfirmStop(a, refs) ==
  [a EXCEPT !.state = IF refs = {} THEN "CANCELLED" ELSE "NEEDS_RECONCILIATION",
            !.completeness = IF refs = {} THEN "complete" ELSE "incomplete",
            !.unresolved = refs]
EffectsUnknown(a, refs) ==
  [a EXCEPT !.state = "NEEDS_RECONCILIATION", !.completeness = "incomplete",
            !.pauseRequested = FALSE,
            !.unresolved = @ \cup {r \in refs : \A u \in @ : u.id # r.id}]
Reconcile(a) ==
  [a EXCEPT !.state = "VERIFYING", !.completeness = "complete",
            !.pauseRequested = FALSE, !.unresolved = {}]
Finalize(a, outcome) ==
  [a EXCEPT !.state = StateOf(outcome.status), !.outcomes = Append(@, outcome)]
AppendOutcome(a, outcome) == [a EXCEPT !.outcomes = Append(@, outcome)]

\* assertTaskEvidence: no identity twice.
DistinctIds(refs) == \A x, y \in refs : x.id = y.id => x = y
-----------------------------------------------------------------------------
(* assertTask: what every rule demands of the task it is given.            *)

AttemptOK(a) ==
  /\ OutcomeHistoryOK(a)
  /\ a.pauseRequested => a.state = "RUNNING"
  /\ a.cancellationRequested =>
       a.state \in {"CANCELLING", "NEEDS_RECONCILIATION", "VERIFYING", "CANCELLED"}
  /\ a.state = "CANCELLING" => a.cancellationRequested
  /\ a.state = "CANCELLED" => a.cancellationRequested /\ a.completeness = "complete"
  /\ a.state \in {"VERIFYING"} \cup (TerminalStates \ {"CANCELLED"}) => a.completeness # "not-settled"
  /\ a.state \in UnsettledStates => a.completeness = "not-settled" /\ Len(a.outcomes) = 0
  /\ IsTerminal(a) /\ a.state # "CANCELLED" =>
       Len(a.outcomes) > 0 /\ StateOf(a.outcomes[1].status) = a.state
  /\ DistinctIds(a.unresolved)
  /\ a.unresolved # {} => a.state \in {"CANCELLING", "NEEDS_RECONCILIATION"}
  /\ a.state = "NEEDS_RECONCILIATION" => a.unresolved # {} /\ a.completeness = "incomplete"

\* No attempt shares its identity, or the identity of its outcomes, with another.
AttemptIdsUnique(t) ==
  \A i, j \in 1..Len(t.attempts) : t.attempts[i].id = t.attempts[j].id => i = j
OutcomeIdsUnique(t) ==
  \A i, j \in 1..Len(t.attempts) :
    /\ Len(t.attempts[i].outcomes) > 0 /\ Len(t.attempts[j].outcomes) > 0
    /\ t.attempts[i].outcomes[1].id = t.attempts[j].outcomes[1].id
    => i = j

\* An intent changes by one revision at a time, never under the same revision.
IntentFollows(next, prior) ==
  /\ next.revision \in {prior.revision, prior.revision + 1}
  /\ next.revision = prior.revision => next = prior

TaskOK(t) ==
  /\ Len(t.attempts) > 0
  /\ \A i \in 1..Len(t.attempts) : AttemptOK(t.attempts[i])
  /\ \A i \in 1..(Len(t.attempts) - 1) :
       /\ IsTerminal(t.attempts[i])
       /\ IntentFollows(t.attempts[i + 1].intent, t.attempts[i].intent)
  /\ AttemptIdsUnique(t)

AssertTask(t) == TaskOK(t) /\ OutcomeIdsUnique(t)
-----------------------------------------------------------------------------
(* commit: replace the current attempt, or append a new one.               *)

Commit(t, a) ==
  [revision |-> t.revision + 1, attempts |-> [t.attempts EXCEPT ![Len(t.attempts)] = a]]
CommitNew(t, a) == [revision |-> t.revision + 1, attempts |-> Append(t.attempts, a)]
NewTask(id, contract) ==
  [revision |-> 1,
   attempts |-> <<InitialAttempt(id, [revision |-> 1, contract |-> contract])>>]
-----------------------------------------------------------------------------
(* assertTaskHistoryExtensionV1: the store's own check of a version,       *)
(* written apart from the rules above and trusting none of them.           *)

AllowedMoves ==
  [CREATED |-> {"READY", "WAITING_INPUT", "CANCELLING"},
   READY |-> {"RUNNING", "WAITING_INPUT", "WAITING_APPROVAL", "CANCELLING"},
   RUNNING |-> {"RUNNING", "VERIFYING", "PAUSED", "CANCELLING", "NEEDS_RECONCILIATION"},
   VERIFYING |-> TerminalStates \cup {"CANCELLING"},
   WAITING_INPUT |-> {"READY", "CANCELLING"},
   WAITING_APPROVAL |-> {"READY", "CANCELLING"},
   PAUSED |-> {"CANCELLING"},
   CANCELLING |-> {"CANCELLED", "NEEDS_RECONCILIATION"},
   NEEDS_RECONCILIATION |-> {"VERIFYING", "CANCELLING"}]

\* What a version must look like on its own.
StoredVersionOK(t) ==
  /\ \A i \in 1..(Len(t.attempts) - 1) : IsTerminal(t.attempts[i])
  /\ OutcomeIdsUnique(t)
  /\ \A i \in 1..Len(t.attempts) :
       LET a == t.attempts[i] IN
       /\ IsTerminal(a) /\ a.state # "CANCELLED" => Len(a.outcomes) > 0
       /\ ~IsTerminal(a) => Len(a.outcomes) = 0
       /\ Len(a.outcomes) > 0 =>
            /\ StateOf(a.outcomes[1].status) = a.state
            /\ (a.state = "CANCELLED") <=> (Last(a.outcomes).status = "cancelled")

\* How the current attempt of a version may differ from that of the one before.
StoredAttemptStep(old, new) ==
  /\ new.id = old.id /\ new.intent = old.intent
  /\ Len(new.outcomes) \in {Len(old.outcomes), Len(old.outcomes) + 1}
  /\ IsPrefix(old.outcomes, new.outcomes)
  /\ ~IsTerminal(old) =>
       /\ new.state \in AllowedMoves[old.state]
       /\ old.cancellationRequested => new.cancellationRequested
       /\ old.state = "RUNNING" /\ new.state = "RUNNING" => ~old.pauseRequested /\ new.pauseRequested
  /\ IsTerminal(old) =>
       /\ new = [old EXCEPT !.outcomes = new.outcomes]
       /\ Len(new.outcomes) = Len(old.outcomes) + 1

StoredNewAttempt(old, new) ==
  /\ IsTerminal(old)
  /\ new = InitialAttempt(new.id, new.intent)
  /\ IntentFollows(new.intent, old.intent)

HistoryExtension(prior, next) ==
  LET n == Len(prior.attempts) IN
  /\ StoredVersionOK(next)
  /\ next.revision = prior.revision + 1
  /\ \/ /\ Len(next.attempts) = n
        /\ \A i \in 1..(n - 1) : next.attempts[i] = prior.attempts[i]
        /\ StoredAttemptStep(prior.attempts[n], next.attempts[n])
     \/ /\ Len(next.attempts) = n + 1
        /\ \A i \in 1..n : next.attempts[i] = prior.attempts[i]
        /\ StoredNewAttempt(prior.attempts[n], next.attempts[n + 1])
=============================================================================
