---------------------------- MODULE MCTaskSession ----------------------------
(* The task store's closed systems on small instances, one of them in a behaviour: the     *)
(* session, with two tasks of one attempt each or one task with all its attempts and every *)
(* owner; the outbox; the cognitive boundary.  The session keeps its initial state, the    *)
(* others are Off, while another is the part.  Task identities are symmetric.              *)
EXTENDS TaskSession, FiniteSets, TLC

CONSTANTS CommandIds, Keys, Expected, Consumers, MaxEvents, Coordinators, MaxRevision, MaxWorld
ASSUME OutboxAssumption == "none" \notin Keys /\ Consumers # {}
ASSUME BoundaryAssumption ==
  /\ MaxRevision \in Nat \ {0} /\ MaxWorld \in Nat \ {0} /\ "free" \notin Coordinators
VARIABLES
  part,
  outbox, receipts, purged, consumers, published, answers,
  world, task, boundaries, heard, coordinators, thread
Commands == [id : CommandIds, key : Keys, expected : Expected]
Outbox == INSTANCE ProductOutbox
Boundary == INSTANCE CognitiveBoundary
outboxVars == <<outbox, receipts, purged, consumers, published, answers>>
boundaryVars == <<world, task, boundaries, heard, coordinators, thread>>

Off == "off"
IsSession == part = "session"
IsOutbox == part = "outbox"
IsBoundary == part = "boundary"
OffOutbox == outbox = Off /\ receipts = Off /\ purged = Off /\ consumers = Off /\ published = Off
  /\ answers = Off
OffBoundary == world = Off /\ task = Off /\ boundaries = Off /\ heard = Off /\ coordinators = Off
  /\ thread = Off
MCInit ==
  /\ Init
  /\ \/ IsSession /\ OffOutbox /\ OffBoundary
     \/ IsOutbox /\ Outbox!Init /\ OffBoundary
     \/ IsBoundary /\ Boundary!Init /\ OffOutbox
MCNext ==
  \/ IsSession /\ Next /\ UNCHANGED <<part, outboxVars, boundaryVars>>
  \/ IsOutbox /\ Outbox!Next /\ UNCHANGED <<part, vars, boundaryVars>>
  \/ IsBoundary /\ Boundary!Next /\ UNCHANGED <<part, vars, outboxVars>>
MCSpec == MCInit /\ [][MCNext]_<<part, vars, outboxVars, boundaryVars>>

Symmetric == Permutations(TaskIds)
Bounded ==
  \/ Cardinality({t \in TaskIds : Exists(t)}) <= 1
  \/ session.epoch <= 2 /\ \A t \in TaskIds : tasks[t].attempt <= 1

\* ProductOutbox's: a command has one effect, however often it is sent, and a consumer
\* acknowledged all the events up to its cursor.
OutboxKept == IsOutbox => Outbox!CommittedOnce /\ Outbox!PublishedInOrder
\* CognitiveBoundary's: the model hears at most two requests of a task revision, and a
\* decision finds the world the model was asked in.
AskedAndAnswered == IsBoundary => Boundary!HeardAtMostTwice /\ Boundary!ActsAsAsked
\* CognitiveBoundary's: what was decided keeps, and a task waits only for a question.
DecisionsStand == [][IsBoundary => Boundary!Stands]_boundaryVars
=============================================================================
