-------------------------- MODULE ControlledBroker --------------------------
(***************************************************************************)
(* The broker that serves one worker's model and tool requests:            *)
(* apps/daemon/src/infrastructure/controlled-broker.ts.  handle() chains   *)
(* each request behind the ones before it, so requests are performed one   *)
(* at a time; perform() is one step up to its first await and one step     *)
(* after each; dispose() closes admission at once and cleans up when the   *)
(* requests accepted before it are answered.                               *)
(*                                                                         *)
(* Abstractions.  A request is its identity, its kind and, for a model     *)
(* invocation, the tokens it reserves; that its contents are acceptable    *)
(* (declared tools, the one known resource) is a choice.  Sizes in bytes   *)
(* are small numbers.  The several checks of the draft directory are one   *)
(* await.  An await may fail with an input/output error at any time.       *)
(***************************************************************************)
EXTENDS Naturals, FiniteSets, SequencesExt

CONSTANTS
  RequestIds,        \* the identities requests carry
  Sizes,             \* sizes of replies and drafts
  MaxQueued,         \* MAX_QUEUED
  MaxActions,        \* MAX_ACTIONS
  MaxModelRequests,  \* spec.bounds.maxModelRequests
  MaxToolCalls,      \* spec.bounds.maxToolCalls
  MaxTokens,         \* spec.bounds.maxTokens
  MaxOutput          \* spec.bounds.maxOutputBytes

ASSUME ControlledBrokerAssumption ==
  /\ Sizes \subseteq Nat /\ IsFiniteSet(RequestIds)
  /\ {MaxQueued, MaxActions, MaxModelRequests, MaxToolCalls, MaxTokens, MaxOutput} \subseteq Nat

VARIABLES
  queue,      \* accepted requests without an answer, the oldest first
  stage,      \* where the performance of the oldest request awaits
  closed,     \* dispose() was called
  expired,    \* the clock is outside startedAt..deadline
  draining,   \* how many answers the disposal still waits for
  cleanup,    \* snapshot().cleanup
  seen,       \* identities of the requests performed
  requests,   \* model requests recorded, in order
  committed,  \* those whose durable-input hook returned
  received,   \* those the receiver was given, in order
  toolCalls, reserved, output,  \* what was used of the budgets
  files,      \* draft files in the broker's directory, by request
  drafts,     \* drafts recorded as saved, by request
  accepted    \* requests answered with ok
gate == <<closed, expired, cleanup>>
ledger == <<requests, committed, received, reserved>>
disk == <<files, drafts>>
vars == <<queue, stage, gate, draining, seen, ledger, toolCalls, output, disk, accepted>>

Kinds == {"model", "memory", "file", "draft"}
Requests ==
  [id : RequestIds, kind : {"model"}, tokens : 1..MaxTokens]
    \cup [id : RequestIds, kind : Kinds \ {"model"}, tokens : {0}]
Stages == {"waiting", "stat", "read", "inspect", "write"}

Init ==
  /\ queue = <<>> /\ stage = "waiting"
  /\ closed = FALSE /\ expired = FALSE /\ draining = 0 /\ cleanup = "pending"
  /\ seen = {} /\ requests = <<>> /\ committed = {} /\ received = <<>>
  /\ toolCalls = 0 /\ reserved = 0 /\ output = 0
  /\ files = <<>> /\ drafts = <<>> /\ accepted = {}
-----------------------------------------------------------------------------
\* A full queue refuses at once; a refusal changes nothing and is no step.
Handle(r) ==
  /\ Len(queue) < MaxQueued
  /\ queue' = Append(queue, r)
  /\ UNCHANGED <<stage, gate, draining, seen, ledger, toolCalls, output, disk, accepted>>

Admitted == ~closed /\ ~expired
Fits(bytes) == output + bytes <= MaxOutput
First == queue[1]
\* The oldest request is answered and the next one may begin.
Answer ==
  /\ queue' = Tail(queue) /\ stage' = "waiting"
  /\ draining' = IF draining > 0 THEN draining - 1 ELSE 0
Refuse == Answer /\ UNCHANGED accepted
Accept == Answer /\ accepted' = accepted \cup {First}
AcceptIf(condition) == IF condition THEN Accept ELSE Refuse
Proceed(next) == stage' = next /\ UNCHANGED <<queue, draining, accepted>>
At(place) == queue # <<>> /\ stage = place

\* Mutant of Performable: the limit of actions is one too late.
PerformableOnceMore == Admitted /\ First.id \notin seen /\ Cardinality(seen) <= MaxActions
Performable == Admitted /\ First.id \notin seen /\ Cardinality(seen) < MaxActions
BeginRefused ==
  /\ At("waiting") /\ ~Performable /\ Refuse
  /\ UNCHANGED <<gate, seen, ledger, toolCalls, output, disk>>
Begin(kind) ==
  /\ At("waiting") /\ Performable /\ First.kind = kind
  /\ seen' = seen \cup {First.id}

Reserve(bytes) ==
  /\ Len(requests) < MaxModelRequests
  /\ reserved + First.tokens <= MaxTokens /\ bytes <= First.tokens /\ Fits(bytes)
\* The durable-input hook, then the receiver, then the observing hook: each may throw.
Deliver ==
  \/ /\ committed' \in {committed, committed \cup {First.id}}
     /\ UNCHANGED received /\ Refuse
  \/ /\ committed' = committed \cup {First.id}
     /\ received' = Append(received, First.id) /\ (Refuse \/ Accept)
InvokeModel ==
  /\ Begin("model")
  /\ \/ /\ Refuse /\ UNCHANGED <<ledger, output>>
     \/ \E bytes \in Sizes :
          /\ Reserve(bytes)
          /\ output' = output + bytes /\ reserved' = reserved + First.tokens
          /\ requests' = Append(requests, First.id)
          /\ Deliver
  /\ UNCHANGED <<gate, toolCalls, disk>>

\* A tool call is counted before anything else can refuse it.
CallTool(kind) ==
  /\ Begin(kind) /\ toolCalls < MaxToolCalls
  /\ toolCalls' = toolCalls + 1
  /\ UNCHANGED <<gate, ledger, disk>>
\* So does a broker without a tool profile, whose limit is zero.
RefuseTool ==
  /\ \E kind \in Kinds \ {"model"} : Begin(kind)
  /\ toolCalls >= MaxToolCalls /\ Refuse
  /\ UNCHANGED <<gate, ledger, toolCalls, output, disk>>
ReadMemory ==
  /\ CallTool("memory")
  /\ \/ Refuse /\ UNCHANGED output
     \/ \E bytes \in Sizes : Fits(bytes) /\ output' = output + bytes /\ Accept
ReadFile ==
  /\ CallTool("file") /\ UNCHANGED output
  /\ Refuse \/ Proceed("stat")
WriteDraft ==
  /\ CallTool("draft")
  /\ \/ Refuse /\ UNCHANGED output
     \/ \E bytes \in Sizes : Fits(bytes) /\ output' = output + bytes /\ Proceed("inspect")
-----------------------------------------------------------------------------
(* What follows an await.                                                  *)

StatReturns ==
  /\ At("stat")
  /\ \/ Refuse /\ UNCHANGED output
     \/ \E bytes \in Sizes :
          Admitted /\ Fits(bytes) /\ output' = output + bytes /\ Proceed("read")
  /\ UNCHANGED <<gate, seen, ledger, toolCalls, disk>>
ReadReturns ==
  /\ At("read")
  /\ Refuse \/ AcceptIf(Admitted)
  /\ UNCHANGED <<gate, seen, ledger, toolCalls, output, disk>>
\* The draft is created under a new name; its bytes follow.
InspectReturns ==
  /\ At("inspect")
  /\ \/ Refuse /\ UNCHANGED files
     \/ Admitted /\ files' = Append(files, First.id) /\ Proceed("write")
  /\ UNCHANGED <<gate, seen, ledger, toolCalls, output, drafts>>
\* Mutant of WriteReturns: a failed write is tried again under another name.
WriteAgain ==
  /\ At("write")
  /\ \/ Refuse /\ UNCHANGED <<files, drafts>>
     \/ files' = Append(files, First.id) /\ Proceed("write") /\ UNCHANGED drafts
     \/ drafts' = Append(drafts, First.id) /\ AcceptIf(Admitted) /\ UNCHANGED files
  /\ UNCHANGED <<gate, seen, ledger, toolCalls, output>>
\* A failed write leaves its file; a saved draft is recorded even when its answer is late.
WriteReturns ==
  /\ At("write")
  /\ \/ Refuse /\ UNCHANGED drafts
     \/ drafts' = Append(drafts, First.id) /\ AcceptIf(Admitted)
  /\ UNCHANGED <<gate, seen, ledger, toolCalls, output, files>>
-----------------------------------------------------------------------------
\* Admission closes synchronously; the tail of the queue at that moment is awaited.
Dispose ==
  /\ ~closed /\ closed' = TRUE /\ draining' = Len(queue)
  /\ UNCHANGED <<queue, stage, expired, cleanup, seen, ledger, toolCalls, output, disk, accepted>>
\* Mutant of Drained: whatever arrives later is waited for too.
DrainedForever == closed /\ queue = <<>>
Drained == closed /\ draining = 0
Cleanup ==
  /\ Drained /\ cleanup = "pending"
  /\ \/ cleanup' = "disposed" /\ files' = <<>>
     \/ cleanup' = "cleanup_failed" /\ files' \in {files, <<>>}
  /\ UNCHANGED <<queue, stage, closed, expired, draining, seen, ledger, toolCalls, output,
                 drafts, accepted>>
\* Date.now() may step either way.
ClockMoves ==
  /\ expired' = ~expired
  /\ UNCHANGED <<queue, stage, closed, draining, cleanup, seen, ledger, toolCalls, output,
                 disk, accepted>>

Perform ==
  \/ BeginRefused \/ InvokeModel \/ RefuseTool \/ ReadMemory \/ ReadFile \/ WriteDraft
  \/ StatReturns \/ ReadReturns \/ InspectReturns \/ WriteReturns
Next ==
  \/ \E r \in Requests : Handle(r)
  \/ Perform \/ Dispose \/ Cleanup \/ ClockMoves
\* Microtasks run and file operations return: the event loop is fair.
Fairness == WF_vars(Perform) /\ WF_vars(Cleanup)
Spec == Init /\ [][Next]_vars /\ Fairness
-----------------------------------------------------------------------------
TypeOK ==
  /\ queue \in Seq(Requests) /\ stage \in Stages
  /\ closed \in BOOLEAN /\ expired \in BOOLEAN /\ draining \in Nat
  /\ cleanup \in {"pending", "disposed", "cleanup_failed"}
  /\ seen \subseteq RequestIds /\ committed \subseteq RequestIds
  /\ {requests, received, files, drafts} \subseteq Seq(RequestIds)
  /\ {toolCalls, reserved, output} \subseteq Nat
  /\ accepted \subseteq Requests

\* No retry, refusal or failure gives a budget back or goes past it.
BudgetsHold ==
  /\ Len(queue) <= MaxQueued /\ Cardinality(seen) <= MaxActions
  /\ Len(requests) <= MaxModelRequests /\ reserved <= MaxTokens
  /\ toolCalls <= MaxToolCalls /\ output <= MaxOutput

\* A request sent again, after an answer, a refusal or a lost answer, is not
\* performed again: one invocation and one draft file for each identity, ever.
EffectsHappenOnce ==
  IsInjective(requests) /\ IsInjective(received) /\ IsInjective(files)

\* The receiver is given only what was recorded and durably committed before.
ReceivedIsCommitted == ToSet(received) \subseteq ToSet(requests) \cap committed

\* Once the directory is given up no request is in the middle of using it, and a
\* disposed broker leaves no file behind.
NothingOutlivesDisposal ==
  cleanup # "pending" => stage = "waiting" /\ (cleanup = "disposed" => files = <<>>)

\* What ControlledProofs shows to be inductive: an identity used anywhere was
\* seen, the oldest request has no file before its write begins, and a closed broker
\* waits for the request it is performing.
Inductive ==
  /\ TypeOK
  /\ EffectsHappenOnce /\ ReceivedIsCommitted
  /\ ToSet(requests) \cup ToSet(files) \subseteq seen
  /\ stage # "waiting" =>
       /\ queue # <<>> /\ First.id \in seen
       /\ closed => draining > 0
       /\ stage = "inspect" => First.id \notin ToSet(files)
  /\ draining <= Len(queue)
  /\ cleanup # "pending" => closed /\ draining = 0
  /\ cleanup = "disposed" => files = <<>>

\* Disposal ends although the worker keeps sending requests.
DisposalCompletes == closed ~> cleanup # "pending"
=============================================================================
