------------------------------ MODULE MCStores ------------------------------
(* Four closed systems, one of them in a behaviour: the cognitive store (which keeps its   *)
(* initial state in the others), the worker harness with two tasks, the web workbench and  *)
(* the verification of outcomes (Off in the others' behaviours).                           *)
EXTENDS CognitiveStore, TLC

CONSTANTS
  TwoTasks, TheirAttempts, TheirOwners, TheirQueue, TheirOperations, TheirFaults,
  PageCommands, PageReceipted, PageBodied, Recoveries, PageTries, PageRevisions, PageFaults,
  VerifyCommands, Feedbacks, Checked, Judged, Verdicts, Ttl, MaxTime, MaxWorld
ASSUME TwoTasksAssumption ==
  /\ "none" \notin TwoTasks /\ TheirQueue \in Nat
  /\ TheirAttempts \in Nat \ {0} /\ TheirOwners \in Nat \ {0}
  /\ TheirOperations \subseteq {"interrupt", "reconcile", "restart", "close"} /\ TheirFaults \in BOOLEAN
ASSUME PageAssumption ==
  PageRevisions \in Nat /\ PageReceipted \cup PageBodied = PageCommands
ASSUME OutcomeAssumption ==
  /\ Ttl \in Nat /\ MaxTime \in Nat /\ "free" \notin VerifyCommands \cup Feedbacks
VARIABLES
  part,
  session, tasks, executions, workers, live, run, serial, lifecycle, daemon, thread,
  revision, committed, requests, reply, view, write, operations, watcher, timers, recoveries,
  versions, confirmed, readFaults,
  now, world, owner, task, execution, plan, verifications, results, client, turn
\* With its theorems: they are what TwoTasksInCustody is proved from.
Harness == INSTANCE WorkerHarnessProofs WITH
  TaskIds <- TwoTasks, MaxAttempts <- TheirAttempts, MaxEpoch <- TheirOwners,
  MaxQueue <- TheirQueue, Operations <- TheirOperations, Faults <- TheirFaults
Page == INSTANCE Workbench WITH
  Commands <- PageCommands, Receipted <- PageReceipted, Bodied <- PageBodied,
  MaxTries <- PageTries, MaxRevision <- PageRevisions,
  MaxFaults <- PageFaults, faults <- readFaults
Outcome == INSTANCE OutcomeVerification WITH
  FeedbackCommands <- Feedbacks, Confirmed <- Judged, thread <- turn
harnessVars == <<session, tasks, executions, workers, live, run, serial, lifecycle, daemon, thread>>
pageVars == <<revision, committed, requests, reply, view, write, operations, watcher,
              timers, recoveries, versions, confirmed, readFaults>>
outcomeVars == <<now, world, owner, task, execution, plan, verifications, results, client, turn>>

Symmetry == Permutations(Feedbacks)

Off == "off"
IsStore == part = "store"
IsHarness == part = "harness"
IsPage == part = "page"
IsOutcome == part = "outcome"
OffHarness == session = Off /\ tasks = Off /\ executions = Off /\ workers = Off /\ live = Off
  /\ run = Off /\ serial = Off /\ lifecycle = Off /\ daemon = Off /\ thread = Off
OffPage == revision = Off /\ committed = Off /\ requests = Off /\ reply = Off /\ view = Off
  /\ write = Off /\ operations = Off /\ watcher = Off /\ timers = Off /\ recoveries = Off
  /\ versions = Off /\ confirmed = Off /\ readFaults = Off
OffOutcome == now = Off /\ world = Off /\ owner = Off /\ task = Off /\ execution = Off
  /\ plan = Off /\ verifications = Off /\ results = Off /\ client = Off /\ turn = Off
MCInit ==
  /\ Init
  /\ \/ IsStore /\ OffHarness /\ OffPage /\ OffOutcome
     \/ IsHarness /\ Harness!Init /\ OffPage /\ OffOutcome
     \/ IsPage /\ Page!Init /\ OffHarness /\ OffOutcome
     \/ IsOutcome /\ Outcome!Init /\ OffHarness /\ OffPage
MCNext ==
  \/ IsStore /\ Next /\ UNCHANGED <<part, harnessVars, pageVars, outcomeVars>>
  \/ IsHarness /\ Harness!Next /\ UNCHANGED <<part, vars, pageVars, outcomeVars>>
  \/ IsPage /\ Page!Next /\ UNCHANGED <<part, vars, harnessVars, outcomeVars>>
  \/ IsOutcome /\ Outcome!Next /\ UNCHANGED <<part, vars, harnessVars, pageVars>>
MCSpec == MCInit /\ [][MCNext]_<<part, vars, harnessVars, pageVars, outcomeVars>>

\* Where the run looks: a page sees a second commit only when both are of its own commands
\* and the command in hand is at its first try.
Bounded == IsPage =>
  \/ revision <= 1
  \/ write.tries <= 1 /\ \A own \in PageCommands : committed[own] # 0

\* WorkerHarness's, for two tasks: no two processes run at once, and whoever was let go is gone.
TwoTasksInCustody == IsHarness =>
  Harness!OneProcess /\ Harness!ForgottenIsFinished /\ Harness!ObligationIsHeld
\* Workbench's: a write reported as rejected was not committed, nothing shown is older than
\* the last confirmed commit, and a snapshot is followed by a stream.
ShownIsTrue == IsPage => Page!RejectedIsUncommitted /\ Page!ShownIsCurrent
\* OutcomeVerification's: each result follows from the one before it and was planned first.
VerificationsStand == IsOutcome => Outcome!VerificationsStand
\* OutcomeVerification's: the verdicts of a new result were found in the present world.
VerdictsAreCurrent == [][IsOutcome => Outcome!VerdictsAreCurrent]_outcomeVars
=============================================================================
