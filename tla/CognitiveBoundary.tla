------------------------- MODULE CognitiveBoundary -------------------------
(***************************************************************************)
(* The cognitive boundary of a task: the coordinator that asks a model at  *)
(* most twice what to do next (apps/daemon/src/task-service/               *)
(* cognitive-coordinator.ts), the capsules, calls and decisions it leaves  *)
(* in the Store (packages/memory-store/src/context-store-v1.ts), and what  *)
(* follows a decision: the task waits for input or its run starts.         *)
(*                                                                         *)
(* One JavaScript thread: a step is a Store transaction, "thread" names    *)
(* the coordinator that is between two of them, and what others do happens *)
(* while a model is created or asked.  Any transaction may throw (Fail),   *)
(* and the task is coordinated again.  All a capsule was read from, the    *)
(* task apart, is one number: the world.  A capsule is the value it holds. *)
(***************************************************************************)
EXTENDS Naturals, Sequences, FiniteSets

CONSTANTS
  Coordinators, \* calls of coordinateTask at a time
  MaxRevision,  \* bound on the revisions of the task
  MaxWorld      \* bound on the changes of memories, policy and sources

VARIABLES
  world,        \* what #view reads besides the task
  task,         \* its revision, state, owner, and the world its run started in
  boundaries,   \* cognitive_boundary_v1, _call_v1 and _decision_v1, by task revision
  heard,        \* the requests the model received, by task revision
  coordinators, \* how far each call of coordinateTask is
  thread        \* which of them is between two transactions
vars == <<world, task, boundaries, heard, coordinators, thread>>

Revisions == 1..MaxRevision
NoCapsule == [revision |-> 0, world |-> 0, more |-> FALSE, by |-> "none"]
NoBoundary == [status |-> "none", capsule |-> NoCapsule, calls |-> <<>>, decisions |-> <<>>]
Idle == [at |-> "idle", capsule |-> NoCapsule, count |-> 0, previous |-> "none", purpose |-> "initial"]

Init ==
  /\ world = 1 /\ thread = "free"
  /\ task = [revision |-> 1, state |-> "READY", owned |-> TRUE, started |-> 0]
  /\ boundaries = [r \in Revisions |-> NoBoundary]
  /\ heard = [r \in Revisions |-> 0]
  /\ coordinators = [c \in Coordinators |-> Idle]

\* #current: the read set of a capsule, read again, is the same.
Current(capsule) ==
  /\ task.owned /\ task.state = "READY"
  /\ capsule.revision = task.revision /\ capsule.world = world
Compiled(c, more) == [revision |-> task.revision, world |-> world, more |-> more, by |-> c]
Last(decisions) == IF decisions = <<>> THEN "none" ELSE decisions[Len(decisions)].action
Boundary(c) == boundaries[coordinators[c].capsule.revision]
Waits(r) == task.state = "WAITING_INPUT" /\ task.revision = r + 1 /\ Last(boundaries[r].decisions) = "clarify"
\* Between two transactions only the coordinator itself goes on.
Goes(c, at) == coordinators[c].at = at /\ thread = c
Resumes(c, at) == coordinators[c].at = at /\ thread = "free" /\ thread' = c
To(c, at) == coordinators' = [coordinators EXCEPT ![c].at = at]
Store(r, boundary) == boundaries' = [boundaries EXCEPT ![r] = boundary]

(***************************************************************************)
(* The coordinator.                                                        *)
(***************************************************************************)
\* coordinateTask: the initial capsule, then the model is created.
Begin(c) ==
  /\ coordinators[c].at = "idle" /\ thread = "free"
  /\ task.owned /\ task.state = "READY"
  /\ coordinators' = [coordinators EXCEPT ![c] = [Idle EXCEPT !.at = "creating", !.capsule = Compiled(c, FALSE)]]
  /\ UNCHANGED <<world, task, boundaries, heard, thread>>
\* What follows from the last decision, at once or found by a later call.
Follow(action) == CASE action = "clarify" -> "waiting" [] action = "execute" -> "running" [] OTHER -> "left"
Adopt(c, boundary, at) ==
  coordinators' = [coordinators EXCEPT ![c] =
    [at |-> at, capsule |-> boundary.capsule, count |-> Len(boundary.calls),
     previous |-> Last(boundary.decisions),
     purpose |-> IF boundary.calls = <<>> THEN "initial" ELSE "repair"]]
\* Mutant of Opened: a boundary for every capsule.
OpenedAnew(prior, capsule) ==
  IF prior.capsule # capsule THEN [NoBoundary EXCEPT !.status = "open", !.capsule = capsule] ELSE prior
\* A boundary is opened once for a task revision.
Opened(prior, capsule) ==
  IF prior.status = "none" THEN [prior EXCEPT !.status = "open", !.capsule = capsule] ELSE prior
OpenBoundary(c) ==
  /\ Resumes(c, "creating")
  /\ LET r == coordinators[c].capsule.revision
         boundary == Opened(boundaries[r], coordinators[c].capsule) IN
     /\ Waits(r) \/ (Current(coordinators[c].capsule) /\ Current(boundary.capsule))
     /\ Store(r, boundary)
     /\ \/ boundary.status # "open" /\ Adopt(c, boundary, Follow(Last(boundary.decisions)))
        \/ boundary.status = "open" /\ \E at \in {"loop", "stopping"} : Adopt(c, boundary, at)
  /\ UNCHANGED <<world, task, heard>>
\* A retrieval: another capsule, unless it holds what the first one held.
Replace(c) ==
  /\ Goes(c, "loop") /\ coordinators[c].count < 2 /\ coordinators[c].previous = "retrieve"
  /\ coordinators[c].purpose # "retrieval"
  /\ task.owned /\ task.state = "READY" /\ task.revision = coordinators[c].capsule.revision
  /\ \/ To(c, "stopping")
     \/ coordinators' = [coordinators EXCEPT ![c].capsule = Compiled(c, TRUE), ![c].purpose = "retrieval"]
  /\ UNCHANGED <<world, task, boundaries, heard, thread>>
Reservable(boundary, purpose) ==
  /\ boundary.status = "open" /\ Len(boundary.calls) < 2
  /\ (boundary.calls = <<>>) = (purpose = "initial")
  /\ boundary.calls # <<>> => boundary.calls[1].heard > 0
  /\ purpose = "retrieval" =>
       boundary.decisions # <<>> /\ Last(boundary.decisions) = "retrieve"
         /\ boundary.decisions[Len(boundary.decisions)].count = 1
\* reserveDecisionCall; its copy of the boundary is read again, then the model is asked.
ReserveDecisionCall(c) ==
  /\ Goes(c, "loop") /\ coordinators[c].count < 2
  /\ coordinators[c].previous = "retrieve" => coordinators[c].purpose = "retrieval"
  /\ Current(coordinators[c].capsule) /\ Reservable(Boundary(c), coordinators[c].purpose)
  /\ LET capsule == coordinators[c].capsule
         boundary == [Boundary(c) EXCEPT !.capsule = capsule,
                        !.calls = Append(@, [capsule |-> capsule, heard |-> 0])] IN
     /\ Store(capsule.revision, boundary)
     /\ coordinators' = [coordinators EXCEPT ![c].at = "asking", ![c].count = Len(boundary.calls)]
  /\ thread' = "free" /\ UNCHANGED <<world, task, heard>>
\* recordDecisionRequest, in the same continuation as the model's receipt.
RecordDecisionRequest(c) ==
  /\ coordinators[c].at = "asking" /\ thread = "free"
  /\ LET n == coordinators[c].count IN
     /\ Current(coordinators[c].capsule) /\ Boundary(c).status = "open"
     /\ Len(Boundary(c).calls) = n /\ Boundary(c).calls[n] = [capsule |-> coordinators[c].capsule, heard |-> 0]
     /\ boundaries' = [boundaries EXCEPT ![coordinators[c].capsule.revision].calls[n].heard = world]
     /\ heard' = [heard EXCEPT ![coordinators[c].capsule.revision] = @ + 1]
  /\ To(c, "asked") /\ UNCHANGED <<world, task, thread>>
\* The answer is no decision, or none that holds for the capsule: it is repaired once.
Unusable(c) ==
  /\ Resumes(c, "asked") /\ Current(coordinators[c].capsule)
  /\ coordinators' = [coordinators EXCEPT ![c].at = IF coordinators[c].count = 2 THEN "stopping" ELSE "loop",
                                          ![c].purpose = "repair"]
  /\ UNCHANGED <<world, task, boundaries, heard>>
\* Mutant of Committable: what the model was asked on may have changed.
CommittableLate(c, capsule) == Boundary(c).status = "open" /\ Boundary(c).capsule = capsule
Committable(c, capsule) ==
  Current(capsule) /\ Boundary(c).status = "open" /\ Boundary(c).capsule = capsule
Decided(boundary, action) ==
  [boundary EXCEPT
     !.status = CASE action = "retrieve" -> "open" [] action = "stop" -> "stopped" [] OTHER -> "decided",
     !.decisions = Append(@, [action |-> action, count |-> Len(boundary.calls), at |-> world])]
\* commitDecision of the model's proposal.
CommitDecision(c, action) ==
  /\ Resumes(c, "asked") /\ (action = "retrieve" => coordinators[c].count < 2)
  /\ LET capsule == coordinators[c].capsule  n == Len(Boundary(c).calls) IN
     /\ Committable(c, capsule) /\ Len(Boundary(c).decisions) < 3
     /\ n = coordinators[c].count /\ Boundary(c).calls[n] = [capsule |-> capsule, heard |-> Boundary(c).calls[n].heard]
     /\ Boundary(c).calls[n].heard > 0
     /\ Boundary(c).decisions # <<>> => Boundary(c).decisions[Len(Boundary(c).decisions)].count # n
     /\ Store(capsule.revision, Decided(Boundary(c), action))
  /\ coordinators' = [coordinators EXCEPT ![c].previous = action,
       ![c].at = IF action = "retrieve" THEN "loop" ELSE Follow(action)]
  /\ UNCHANGED <<world, task, heard>>
\* commitDecision of the coordinator's own stop.
Stop(c) ==
  /\ Goes(c, "stopping") \/ (Goes(c, "loop") /\ coordinators[c].count = 2)
  /\ Committable(c, coordinators[c].capsule) /\ Len(Boundary(c).decisions) < 3
  /\ Store(coordinators[c].capsule.revision, Decided(Boundary(c), "stop"))
  /\ To(c, "left") /\ UNCHANGED <<world, task, heard, thread>>
\* cognitive-wait, whose key is the boundary's: committed now, or before.
CognitiveWait(c) ==
  /\ Goes(c, "waiting")
  /\ LET r == coordinators[c].capsule.revision IN
     \/ /\ task.revision = r /\ r < MaxRevision /\ Boundary(c).status = "decided"
        /\ Last(Boundary(c).decisions) = "clarify" /\ Current(Boundary(c).capsule)
        /\ task' = [task EXCEPT !.revision = r + 1, !.state = "WAITING_INPUT"]
     \/ Waits(r) /\ UNCHANGED task
  /\ To(c, "left") /\ UNCHANGED <<world, boundaries, heard, thread>>
\* executeTask with the compiled capsule, up to the task's start.
Execute(c) ==
  /\ Goes(c, "running") /\ To(c, "starting") /\ thread' = "free"
  /\ UNCHANGED <<world, task, boundaries, heard>>
RuntimeCurrent(capsule) ==
  /\ boundaries[capsule.revision].status = "decided" /\ boundaries[capsule.revision].capsule = capsule
  /\ Last(boundaries[capsule.revision].decisions) = "execute" /\ Current(capsule)
Start(c) ==
  /\ Resumes(c, "starting") /\ RuntimeCurrent(coordinators[c].capsule) /\ task.revision < MaxRevision
  /\ task' = [task EXCEPT !.revision = @ + 1, !.state = "RUNNING", !.started = world]
  /\ To(c, "left") /\ UNCHANGED <<world, boundaries, heard>>
\* Returned, refused or thrown: the rows stay as they are.
Fail(c) ==
  /\ coordinators[c].at # "idle" /\ thread \in {c, "free"} /\ thread' = "free"
  /\ coordinators' = [coordinators EXCEPT ![c] = Idle]
  /\ UNCHANGED <<world, task, boundaries, heard>>

(***************************************************************************)
(* What happens meanwhile.                                                 *)
(***************************************************************************)
WorldChanges ==
  /\ thread = "free" /\ world < MaxWorld /\ world' = world + 1
  /\ UNCHANGED <<task, boundaries, heard, coordinators, thread>>
\* The answer to the question, a revised request, a retry: a new revision of this owner.
UserMoves ==
  /\ thread = "free" /\ task.revision < MaxRevision
  /\ task' = [revision |-> task.revision + 1, state |-> "READY", owned |-> TRUE, started |-> 0]
  /\ UNCHANGED <<world, boundaries, heard, coordinators, thread>>
\* A later owner epoch, whose tasks wait to be authorised again.
Restart ==
  /\ task.owned /\ task' = [task EXCEPT !.owned = FALSE]
  /\ coordinators' = [c \in Coordinators |-> Idle] /\ thread' = "free"
  /\ UNCHANGED <<world, boundaries, heard>>

Next ==
  \/ \E c \in Coordinators :
       \/ Begin(c) \/ OpenBoundary(c) \/ Replace(c) \/ ReserveDecisionCall(c)
       \/ RecordDecisionRequest(c) \/ Unusable(c) \/ Stop(c) \/ CognitiveWait(c)
       \/ Execute(c) \/ Start(c) \/ Fail(c)
       \/ \E action \in {"clarify", "retrieve", "execute", "stop"} : CommitDecision(c, action)
  \/ WorldChanges \/ UserMoves \/ Restart
Spec == Init /\ [][Next]_vars

(***************************************************************************)
(* Properties.                                                             *)
(***************************************************************************)
\* Errors, retries, restarts and new capsules give no further call: at one task revision
\* the model is heard at most twice, counted at the model (context-store-v1.ts:309).
HeardAtMostTwice == \A r \in Revisions : heard[r] <= 2
\* A model's decision, and a run that starts on one, find the world in which the model was
\* asked (cognitive-coordinator.ts:51): nothing changed while the answer was awaited.
ActsAsAsked ==
  /\ \A r \in Revisions : \A k \in 1..Len(boundaries[r].decisions) :
       LET d == boundaries[r].decisions[k] IN
       d.action # "stop" => d.at = boundaries[r].calls[d.count].heard
  /\ task.state = "RUNNING" =>
       LET b == boundaries[task.revision - 1] IN task.started = b.calls[Len(b.calls)].heard
\* A boundary that was decided or stopped keeps its calls and its decisions, whoever
\* coordinates the task again; a task waits only for the question of the last one.
Stands ==
  /\ \A r \in Revisions :
       boundaries[r].status \in {"decided", "stopped"} => boundaries'[r] = boundaries[r]
  /\ (task.state # "WAITING_INPUT" /\ task'.state = "WAITING_INPUT") =>
       /\ task'.revision = task.revision + 1
       /\ boundaries[task.revision].status = "decided"
       /\ Last(boundaries[task.revision].decisions) = "clarify"
DecisionsStand == [][Stands]_vars
=============================================================================
