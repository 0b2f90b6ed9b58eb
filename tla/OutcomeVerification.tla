------------------------- MODULE OutcomeVerification -------------------------
(***************************************************************************)
(* The verification of one attempt's outcome: the plan bound before the    *)
(* work, verifications that are prepared, read and committed, and the      *)
(* user's feedback on single criteria (packages/memory-store/src/          *)
(* outcome-store-v1.ts, apps/daemon/src/result-service/service.ts).        *)
(*                                                                         *)
(* A request is two Store transactions with the reading of artifacts       *)
(* between them, on one thread; it may fail after the first, or its answer *)
(* may be lost, and the client sends the same command again.  World is all *)
(* that the cognition fences compare; a forgotten source takes the bodies  *)
(* of the verifications and results that rest on it.  Time is a small      *)
(* counter, Ttl how long a verification stays valid.                       *)
(***************************************************************************)
EXTENDS Naturals, Sequences

CONSTANTS
  VerifyCommands,    \* the verify commands the clients send
  FeedbackCommands,  \* their feedback commands
  Checked,           \* criteria an artifact, a test or a tool's receipt can show
  Confirmed,         \* criteria the user confirms
  Verdicts,          \* what a check or a user may find, besides "unknown"
  Ttl, MaxTime,      \* the lifetime of a verification; bound on the time
  MaxWorld           \* bound on the changes of policy and sources

VARIABLES
  now,            \* the clock
  world,          \* the epochs of the fences
  owner,          \* the session's owner epoch
  task,           \* its revision, state, owner and number of outcomes
  execution,      \* the fence of its execution, once dispatched
  plan,           \* the revision the plan was bound at, or 0
  verifications,  \* outcome_verification_v1
  results,        \* task_result_v1, with the observations of each
  client,         \* by command: what it says and how far it is
  thread          \* the command between its two transactions, or "free"
vars == <<now, world, owner, task, execution, plan, verifications, results, client, thread>>

Commands == VerifyCommands \union FeedbackCommands
Criteria == Checked \union Confirmed
NoExecution == [at |-> 0, world |-> 0, owner |-> 0, notAfter |-> 0]
Unsent == [at |-> "idle", revision |-> 0, outcome |-> 0, criterion |-> "none", says |-> "none"]
Init ==
  /\ now = 0 /\ world = 1 /\ owner = 1 /\ thread = "free" /\ plan = 0
  /\ task = [revision |-> 1, state |-> "READY", owner |-> 1, outcomes |-> 0]
  /\ execution = NoExecution /\ verifications = <<>> /\ results = <<>>
  /\ client = [k \in Commands |-> Unsent]

Terminal == task.state \in {"DONE", "CANCELLED"}
Of(k) == {v \in DOMAIN verifications : verifications[v].command = k}
VerificationOf(k) == CHOOSE v \in Of(k) : TRUE
ResultOf(v) == {r \in DOMAIN results : results[r].verification = v}
\* #availableSources: the fences are those of the verification and nothing it read is gone.
AvailableSources(v) == verifications[v].world = world /\ ~verifications[v].gone
\* #origin: a verification stands on the execution's own fence, feedback does not.
Origin(k) == k \in VerifyCommands =>
  IF task.state = "CANCELLED" /\ execution = NoExecution THEN TRUE
  ELSE execution # NoExecution /\ execution.owner = owner /\ execution.world = world
       /\ execution.notAfter > now

(***************************************************************************)
(* The task and the world around the requests.                             *)
(***************************************************************************)
BindPlan ==
  /\ thread = "free" /\ task.state = "READY" /\ task.owner = owner
  /\ plan = 0 /\ execution = NoExecution
  /\ plan' = task.revision
  /\ UNCHANGED <<now, world, owner, task, execution, verifications, results, client, thread>>
Moves(state) == task' = [task EXCEPT !.revision = @ + 1, !.state = state]
Start ==
  /\ thread = "free" /\ task.state = "READY" /\ task.owner = owner /\ Moves("RUNNING")
  /\ execution' = [at |-> task.revision, world |-> world, owner |-> owner, notAfter |-> MaxTime]
  /\ UNCHANGED <<now, world, owner, plan, verifications, results, client, thread>>
Settle ==
  /\ thread = "free"
  /\ \/ task.state = "RUNNING" /\ Moves("VERIFYING")
     \/ task.state \in {"READY", "RUNNING", "VERIFYING"} /\ Moves("CANCELLED")
  /\ UNCHANGED <<now, world, owner, execution, plan, verifications, results, client, thread>>
\* A new owner; the work of the old one is settled as interrupted, with an outcome of its own.
Restart ==
  /\ owner < 2 /\ owner' = owner + 1 /\ thread' = "free"
  /\ IF task.state \in {"RUNNING", "VERIFYING"}
     THEN task' = [task EXCEPT !.revision = @ + 1, !.state = "DONE", !.outcomes = @ + 1]
     ELSE UNCHANGED task
  /\ UNCHANGED <<now, world, execution, plan, verifications, results, client>>
Tick ==
  /\ now < MaxTime /\ now' = now + 1
  /\ UNCHANGED <<world, owner, task, execution, plan, verifications, results, client, thread>>
ChangeWorld ==
  /\ thread = "free" /\ world < MaxWorld /\ world' = world + 1
  /\ \E gone \in BOOLEAN :
       /\ verifications' = [v \in DOMAIN verifications |->
            [verifications[v] EXCEPT !.gone = @ \/ gone]]
       /\ results' = [r \in DOMAIN results |-> [results[r] EXCEPT !.gone = @ \/ gone]]
  /\ UNCHANGED <<now, owner, task, execution, plan, client, thread>>

(***************************************************************************)
(* The requests.                                                           *)
(***************************************************************************)
\* The client words its command, on what it last saw.
Send(k) ==
  /\ client[k].at = "idle"
  /\ \E c \in Confirmed, says \in Verdicts :
       client' = [client EXCEPT ![k] = [at |-> "sent", revision |-> task.revision,
         outcome |-> task.outcomes,
         criterion |-> IF k \in FeedbackCommands THEN c ELSE "none",
         says |-> IF k \in FeedbackCommands THEN says ELSE "none"]]
  /\ UNCHANGED <<now, world, owner, task, execution, plan, verifications, results, thread>>

NotAfter(k) ==
  IF k \in VerifyCommands /\ execution # NoExecution /\ execution.notAfter < now + Ttl
  THEN execution.notAfter ELSE now + Ttl
\* #prepare, of a command that was never prepared.
MayPrepare(k) ==
  /\ task.revision = client[k].revision
  /\ task.state = "VERIFYING" \/ Terminal
  /\ k \in VerifyCommands => task.owner = owner
  /\ plan # 0
  /\ results = <<>> \/ ~results[Len(results)].gone
  /\ k \in FeedbackCommands =>
       results # <<>> /\ Terminal /\ client[k].outcome = results[Len(results)].outcome
  /\ Origin(k) /\ NotAfter(k) > now
Prepare(k) ==
  /\ thread = "free" /\ client[k].at = "sent" /\ Of(k) = {}
  /\ IF MayPrepare(k)
     THEN /\ verifications' = Append(verifications,
               [command |-> k, revision |-> task.revision, owner |-> owner, world |-> world,
                notAfter |-> NotAfter(k), previous |-> Len(results), gone |-> FALSE])
          /\ thread' = k /\ UNCHANGED client
     ELSE client' = [client EXCEPT ![k].at = "refused"] /\ UNCHANGED <<verifications, thread>>
  /\ UNCHANGED <<now, world, owner, task, execution, plan, results>>
\* #prepare, of a command sent again: its own snapshot, or the result it has.
PrepareAgain(k) ==
  /\ thread = "free" /\ client[k].at = "sent" /\ Of(k) # {}
  /\ LET v == VerificationOf(k) IN
     IF verifications[v].gone \/ (ResultOf(v) # {} /\ ~AvailableSources(v))
     THEN client' = [client EXCEPT ![k].at = "refused"] /\ UNCHANGED thread
     ELSE IF ResultOf(v) # {} THEN client' = [client EXCEPT ![k].at = "done"] /\ UNCHANGED thread
     ELSE thread' = k /\ UNCHANGED client
  /\ UNCHANGED <<now, world, owner, task, execution, plan, verifications, results>>
\* The request fails between its transactions, or the answer to it is lost.
Fail(k) ==
  /\ \/ thread = k /\ thread' = "free" /\ UNCHANGED client
     \/ client[k].at = "done" /\ client' = [client EXCEPT ![k].at = "sent"] /\ UNCHANGED thread
  /\ UNCHANGED <<now, world, owner, task, execution, plan, verifications, results>>

\* Mutant of Guard: the task may have moved on since the verification was prepared.
GuardFences(k, v) ==
  /\ verifications[v].owner = owner /\ now < verifications[v].notAfter
  /\ k \in VerifyCommands => task.owner = owner
  /\ AvailableSources(v) /\ Origin(k)
\* #guard: everything the verification was prepared on is still so.
Guard(k, v) ==
  /\ verifications[v].owner = owner /\ now < verifications[v].notAfter
  /\ task.revision = verifications[v].revision
  /\ k \in VerifyCommands => task.owner = owner
  /\ AvailableSources(v) /\ Origin(k)
Observed(status, v) == [status |-> status, world |-> world, notAfter |-> verifications[v].notAfter]
\* Mutant of Carried: the sources of the previous result are not asked for.
CarriedBlindly(previous, c) == results[previous].observations[c].notAfter > now
\* What feedback on another criterion keeps of the previous result.
Carried(previous, c) ==
  /\ AvailableSources(results[previous].verification)
  /\ results[previous].observations[c].notAfter > now
Observation(k, v, c, read) ==
  LET previous == verifications[v].previous IN
  IF k \in VerifyCommands
  THEN Observed(IF c \in Confirmed \/ task.state = "CANCELLED" THEN "unknown" ELSE read[c], v)
  ELSE IF c = client[k].criterion THEN Observed(client[k].says, v)
  ELSE IF Carried(previous, c) THEN results[previous].observations[c]
  ELSE Observed("unknown", v)
Commit(k) ==
  /\ thread = k /\ thread' = "free"
  /\ LET v == VerificationOf(k) IN
     IF Guard(k, v)
     THEN \E read \in [Checked -> Verdicts \union {"unknown"}] :
            /\ results' = Append(results,
                 [verification |-> v, outcome |-> task.outcomes + 1, gone |-> FALSE,
                  observations |-> [c \in Criteria |-> Observation(k, v, c, read)]])
            /\ task' = [task EXCEPT !.revision = @ + 1, !.outcomes = @ + 1,
                                    !.state = IF @ = "CANCELLED" THEN @ ELSE "DONE"]
            /\ client' = [client EXCEPT ![k].at = "done"]
     ELSE client' = [client EXCEPT ![k].at = "refused"] /\ UNCHANGED <<results, task>>
  /\ UNCHANGED <<now, world, owner, execution, plan, verifications>>

Next ==
  \/ BindPlan \/ Start \/ Settle \/ Restart \/ Tick \/ ChangeWorld
  \/ \E k \in Commands : Send(k) \/ Prepare(k) \/ PrepareAgain(k) \/ Fail(k) \/ Commit(k)
Spec == Init /\ [][Next]_vars

(***************************************************************************)
(* Properties.                                                             *)
(***************************************************************************)
\* A verdict that enters a result was found in the present world and has not expired,
\* however many feedbacks carried it over (outcome-store-v1.ts:229).
VerdictsAreCurrent ==
  Len(results') > Len(results) =>
    \A c \in Criteria : LET o == results'[Len(results')].observations[c] IN
      o.status # "unknown" => o.world = world /\ o.notAfter > now
\* Each result was prepared knowing the one before it, is the only one of its command, and is
\* one outcome of the task; a retry, a failure or a late feedback adds none and loses none.
ResultsFollow ==
  /\ \A r \in DOMAIN results : /\ verifications[results[r].verification].previous = r - 1
                               /\ ResultOf(results[r].verification) = {r}
  /\ \A k \in Commands : \A v, w \in Of(k) : v = w
  /\ results # <<>> => results[Len(results)].outcome = task.outcomes
\* What is verified was planned before the work began.
PlannedFirst == results # <<>> =>
  plan # 0 /\ (execution # NoExecution => plan <= execution.at)
VerificationsStand == ResultsFollow /\ PlannedFirst
=============================================================================
