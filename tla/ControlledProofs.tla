--------------------------- MODULE ControlledProofs ---------------------------
(***************************************************************************)
(* The controlled broker and the controlled worker, for every set of       *)
(* requests, every bound and every size.                                   *)
(*                                                                         *)
(* Of the broker, Inductive is an invariant, so a request's effects happen *)
(* once, only what was committed is received, and nothing outlives the     *)
(* disposal.                                                               *)
(*                                                                         *)
(* Of the worker (a part of MCControlled, so its definitions are Worker's) *)
(* the evidence its supervisor gives is true of the process, and the three *)
(* actors together implement WorkerCustody, on which WorkerHarness rests.  *)
(* The argument follows two races.  A disposal may overtake a start: as    *)
(* long as nothing was spawned it can only raise "closing", which the end  *)
(* of the preparation looks at again (Closing).  A failure may overtake a  *)
(* close: the promise of the close is settled with evidence only by the    *)
(* removal that follows the close event (Spawning).                        *)
(***************************************************************************)
EXTENDS MCControlled, FiniteSetTheorems, TLAPS

\* Inductive, by the variables each part is about.
QueueOK ==
  /\ queue \in Seq(Requests) /\ stage \in Stages
  /\ draining \in Nat /\ draining <= Len(queue)
LedgerOK ==
  /\ seen \subseteq RequestIds /\ committed \subseteq RequestIds
  /\ requests \in Seq(RequestIds) /\ received \in Seq(RequestIds)
  /\ IsInjective(requests) /\ IsInjective(received)
  /\ ToSet(received) \subseteq ToSet(requests) \cap committed
  /\ ToSet(requests) \subseteq seen
DiskOK ==
  /\ files \in Seq(RequestIds) /\ drafts \in Seq(RequestIds)
  /\ IsInjective(files) /\ ToSet(files) \subseteq seen
BudgetOK ==
  /\ toolCalls \in Nat /\ reserved \in Nat /\ output \in Nat
  /\ accepted \subseteq Requests
GateOK ==
  /\ closed \in BOOLEAN /\ expired \in BOOLEAN
  /\ cleanup \in {"pending", "disposed", "cleanup_failed"}
  /\ cleanup # "pending" => closed /\ draining = 0
  /\ cleanup = "disposed" => files = <<>>
StageOK ==
  stage # "waiting" =>
    /\ queue # <<>> /\ First.id \in seen
    /\ closed => draining > 0
    /\ stage = "inspect" => First.id \notin ToSet(files)

Whole == QueueOK /\ LedgerOK /\ DiskOK /\ BudgetOK /\ GateOK /\ StageOK

LEMMA Parts == Inductive <=> Whole
<1>1. TypeOK <=>
        /\ queue \in Seq(Requests) /\ stage \in Stages
        /\ closed \in BOOLEAN /\ expired \in BOOLEAN /\ draining \in Nat
        /\ cleanup \in {"pending", "disposed", "cleanup_failed"}
        /\ seen \subseteq RequestIds /\ committed \subseteq RequestIds
        /\ requests \in Seq(RequestIds) /\ received \in Seq(RequestIds)
        /\ files \in Seq(RequestIds) /\ drafts \in Seq(RequestIds)
        /\ toolCalls \in Nat /\ reserved \in Nat /\ output \in Nat
        /\ accepted \subseteq Requests
  BY Zenon DEF TypeOK
<1>2. ToSet(requests) \cup ToSet(files) \subseteq seen
        <=> ToSet(requests) \subseteq seen /\ ToSet(files) \subseteq seen
  OBVIOUS
<1> QED
  BY <1>1, <1>2, Zenon
  DEF Inductive, EffectsHappenOnce, ReceivedIsCommitted, QueueOK, LedgerOK, DiskOK,
      BudgetOK, GateOK, StageOK, Whole
-----------------------------------------------------------------------------
(* Sequences that grow at the end, and the queue that shrinks at the front. *)

LEMMA AppendAdds ==
  ASSUME NEW S, NEW s \in Seq(S), NEW e \in S
  PROVE  /\ Append(s, e) \in Seq(S)
         /\ ToSet(Append(s, e)) = ToSet(s) \cup {e}
         /\ IsInjective(s) /\ e \notin ToSet(s) => IsInjective(Append(s, e))
<1>1. /\ Append(s, e) \in Seq(S) /\ DOMAIN Append(s, e) = 1..(Len(s) + 1)
      /\ DOMAIN s = 1..Len(s) /\ Len(s) \in Nat
      /\ \A i \in 1..Len(s) : Append(s, e)[i] = s[i]
      /\ Append(s, e)[Len(s) + 1] = e
  OBVIOUS
<1>2. ToSet(Append(s, e)) = ToSet(s) \cup {e}
  BY <1>1 DEF ToSet
<1>3. IsInjective(s) /\ e \notin ToSet(s) => IsInjective(Append(s, e))
  BY <1>1 DEF ToSet, IsInjective
<1> QED BY <1>1, <1>2, <1>3

LEMMA EmptyIsInjective == IsInjective(<<>>) /\ ToSet(<<>>) = {}
  BY DEF IsInjective, ToSet

\* The identity of the request being performed.
LEMMA FirstIsRequest ==
  ASSUME QueueOK, queue # <<>>
  PROVE  First \in Requests /\ First.id \in RequestIds /\ First.tokens \in Nat
         /\ Len(queue) \in Nat \ {0}
<1>1. First \in Requests /\ Len(queue) \in Nat \ {0}
  BY DEF QueueOK, First
<1> QED BY <1>1, ControlledBrokerAssumption DEF Requests

\* An answer takes the oldest request off the queue and off what is waited for.
LEMMA AnswerShrinks ==
  ASSUME QueueOK, queue # <<>>, Answer
  PROVE  QueueOK' /\ StageOK' /\ (draining = 0 => draining' = 0)
<1>1. Tail(queue) \in Seq(Requests) /\ Len(Tail(queue)) = Len(queue) - 1 /\ Len(queue) \in Nat \ {0}
  BY DEF QueueOK
<1>2. draining' \in Nat /\ draining' <= Len(queue') /\ (draining = 0 => draining' = 0)
  BY <1>1 DEF QueueOK, Answer
<1> QED BY <1>1, <1>2 DEF QueueOK, StageOK, Answer, Stages
-----------------------------------------------------------------------------
LEMMA InitHolds == Init => Whole
<1> SUFFICES ASSUME Init PROVE Whole
  OBVIOUS
<1>1. QueueOK /\ StageOK
  BY DEF Init, QueueOK, StageOK, Stages
<1>2. LedgerOK /\ DiskOK
  BY EmptyIsInjective DEF Init, LedgerOK, DiskOK
<1>3. BudgetOK
  BY DEF Init, BudgetOK
<1>4. GateOK
  BY Zenon DEF Init, GateOK
<1> QED BY <1>1, <1>2, <1>3, <1>4 DEF Whole

LEMMA HandleKeeps ==
  ASSUME Whole, NEW r \in Requests, Handle(r)
  PROVE  Whole'
<1>0. QueueOK /\ LedgerOK /\ DiskOK /\ BudgetOK /\ GateOK /\ StageOK
  BY DEF Whole
<1>1. QueueOK'
  BY <1>0 DEF QueueOK, Handle
<1>2. queue # <<>> => First' = First /\ queue' # <<>>
  BY <1>0 DEF QueueOK, Handle, First
<1>3. StageOK'
  BY <1>0, <1>2, Zenon DEF StageOK, Handle, gate, disk
<1>4. LedgerOK' /\ DiskOK'
  BY <1>0 DEF LedgerOK, DiskOK, Handle, ledger, disk
<1>5. BudgetOK' /\ GateOK'
  BY <1>0, Zenon DEF BudgetOK, GateOK, Handle, gate, disk, ledger
<1> QED BY <1>1, <1>3, <1>4, <1>5 DEF Whole

\* A request refused before anything was done for it.
LEMMA BeginRefusedKeeps ==
  ASSUME Whole, BeginRefused
  PROVE  Whole'
<1>0. QueueOK /\ LedgerOK /\ DiskOK /\ BudgetOK /\ GateOK /\ StageOK
  BY DEF Whole
<1>1. queue # <<>> /\ Answer
  BY DEF BeginRefused, At, Refuse
<1>2. QueueOK' /\ StageOK' /\ (draining = 0 => draining' = 0)
  BY <1>0, <1>1, AnswerShrinks
<1>3. LedgerOK' /\ DiskOK'
  BY <1>0 DEF LedgerOK, DiskOK, BeginRefused, ledger, disk
<1>4. BudgetOK' /\ GateOK'
  BY <1>0, <1>2, Zenon DEF BudgetOK, GateOK, BeginRefused, Refuse, gate, disk, ledger
<1> QED BY <1>2, <1>3, <1>4 DEF Whole

\* What a request's first step does to the queue and to the identities seen.
LEMMA BeginSees ==
  ASSUME Whole, NEW kind, Begin(kind)
  PROVE  /\ queue # <<>> /\ stage = "waiting" /\ First.id \in RequestIds /\ ~closed
         /\ First.id \notin seen /\ seen' = seen \cup {First.id} /\ seen' \subseteq RequestIds
         /\ First.id \notin ToSet(requests) /\ First.id \notin ToSet(files)
         /\ First.id \notin ToSet(received) /\ First \in Requests /\ First.tokens \in Nat
<1>1. /\ queue # <<>> /\ stage = "waiting" /\ First.id \notin seen /\ ~closed
      /\ seen' = seen \cup {First.id}
  BY DEF Begin, At, Performable, Admitted
<1>2. First.id \in RequestIds /\ First \in Requests /\ First.tokens \in Nat
  BY <1>1, FirstIsRequest DEF Whole
<1> QED BY <1>1, <1>2 DEF Whole, LedgerOK, DiskOK

\* An invocation: refused, or recorded, committed and received at most once.
LEMMA InvokeModelKeeps ==
  ASSUME Whole, InvokeModel
  PROVE  Whole'
<1>0. QueueOK /\ LedgerOK /\ DiskOK /\ BudgetOK /\ GateOK /\ StageOK
  BY DEF Whole
<1>1. Begin("model") /\ Answer /\ UNCHANGED <<gate, toolCalls, disk>>
      /\ accepted' \in {accepted, accepted \cup {First}}
  BY DEF InvokeModel, Deliver, Refuse, Accept
<1>2. QueueOK' /\ StageOK' /\ (draining = 0 => draining' = 0)
  BY <1>0, <1>1, BeginSees, AnswerShrinks
<1>3. LedgerOK' /\ reserved' \in Nat /\ output' \in Nat
  <2>1. CASE UNCHANGED <<ledger, output>>
    BY <1>0, <1>1, <2>1, BeginSees DEF LedgerOK, BudgetOK, ledger
  <2>2. CASE \E bytes \in Sizes :
               /\ output' = output + bytes /\ reserved' = reserved + First.tokens
               /\ requests' = Append(requests, First.id) /\ Deliver
    <3>1. reserved' \in Nat /\ output' \in Nat
      BY <1>0, <1>1, <2>2, BeginSees, ControlledBrokerAssumption DEF BudgetOK
    <3>2. /\ requests' \in Seq(RequestIds) /\ IsInjective(requests')
          /\ ToSet(requests') = ToSet(requests) \cup {First.id}
      BY <1>0, <1>1, <2>2, BeginSees, AppendAdds DEF LedgerOK
    <3>3. CASE received' = received /\ committed' \in {committed, committed \cup {First.id}}
      BY <1>0, <1>1, <3>1, <3>2, <3>3, BeginSees DEF LedgerOK
    <3>4. CASE received' = Append(received, First.id) /\ committed' = committed \cup {First.id}
      <4>1. /\ received' \in Seq(RequestIds) /\ IsInjective(received')
            /\ ToSet(received') = ToSet(received) \cup {First.id}
        BY <1>0, <1>1, <3>4, BeginSees, AppendAdds DEF LedgerOK
      <4> QED BY <1>0, <1>1, <3>1, <3>2, <3>4, <4>1, BeginSees DEF LedgerOK
    <3> QED BY <2>2, <3>1, <3>3, <3>4 DEF Deliver
  <2> QED BY <2>1, <2>2, Zenon DEF InvokeModel
<1>4. DiskOK'
  BY <1>0, <1>1, BeginSees DEF DiskOK, disk
<1>5. BudgetOK'
  BY <1>0, <1>1, <1>3, BeginSees DEF BudgetOK
<1>6. GateOK'
  BY <1>0, <1>1, <1>2, Zenon DEF GateOK, gate, disk
<1> QED BY <1>2, <1>3, <1>4, <1>5, <1>6 DEF Whole

\* A tool call's first step: answered, or gone on to its first await.
LEMMA ToolKeeps ==
  ASSUME Whole, RefuseTool \/ ReadMemory \/ ReadFile \/ WriteDraft
  PROVE  Whole'
<1>0. QueueOK /\ LedgerOK /\ DiskOK /\ BudgetOK /\ GateOK /\ StageOK
  BY DEF Whole
<1>1. PICK kind : Begin(kind)
  BY Zenon DEF RefuseTool, ReadMemory, ReadFile, WriteDraft, CallTool
<1>2. /\ UNCHANGED <<gate, ledger, disk>> /\ toolCalls' \in {toolCalls, toolCalls + 1}
      /\ output' = output \/ \E bytes \in Sizes : output' = output + bytes
      /\ \/ Answer /\ accepted' \in {accepted, accepted \cup {First}}
         \/ Proceed("stat") \/ Proceed("inspect")
  BY DEF RefuseTool, ReadMemory, ReadFile, WriteDraft, CallTool, Refuse, Accept
<1>3. LedgerOK' /\ DiskOK'
  BY <1>0, <1>1, <1>2, BeginSees DEF LedgerOK, DiskOK, ledger, disk
<1>4. BudgetOK'
  BY <1>0, <1>1, <1>2, BeginSees, ControlledBrokerAssumption DEF BudgetOK, ledger, Proceed
<1>5. CASE Answer
  <2>1. QueueOK' /\ StageOK' /\ (draining = 0 => draining' = 0)
    BY <1>0, <1>1, <1>5, BeginSees, AnswerShrinks
  <2>2. GateOK'
    BY <1>0, <1>2, <2>1, Zenon DEF GateOK, gate, disk
  <2> QED BY <1>3, <1>4, <2>1, <2>2 DEF Whole
<1>6. CASE Proceed("stat") \/ Proceed("inspect")
  <2>1. UNCHANGED <<queue, draining>> /\ stage' \in Stages
    BY <1>6 DEF Proceed, Stages
  <2>2. QueueOK' /\ First' = First
    BY <1>0, <2>1 DEF QueueOK, First
  <2>3. StageOK'
    BY <1>0, <1>1, <1>2, <2>1, <2>2, BeginSees, Zenon DEF StageOK, gate, disk
  <2>4. GateOK'
    BY <1>0, <1>2, <2>1, Zenon DEF GateOK, gate, disk
  <2> QED BY <1>3, <1>4, <2>2, <2>3, <2>4 DEF Whole
<1> QED BY <1>2, <1>5, <1>6

\* What follows the awaits of a file read.
LEMMA FileReturnsKeeps ==
  ASSUME Whole, StatReturns \/ ReadReturns
  PROVE  Whole'
<1>0. QueueOK /\ LedgerOK /\ DiskOK /\ BudgetOK /\ GateOK /\ StageOK
  BY DEF Whole
<1>1. /\ queue # <<>> /\ stage # "waiting" /\ First.id \in seen
      /\ UNCHANGED <<gate, seen, ledger, toolCalls, disk>>
      /\ output' = output \/ \E bytes \in Sizes : output' = output + bytes
      /\ \/ Answer /\ accepted' \in {accepted, accepted \cup {First}}
         \/ Proceed("read")
  BY <1>0 DEF StatReturns, ReadReturns, At, AcceptIf, Refuse, Accept, StageOK
<1>2. LedgerOK' /\ DiskOK'
  BY <1>0, <1>1 DEF LedgerOK, DiskOK, ledger, disk
<1>3. BudgetOK'
  BY <1>0, <1>1, FirstIsRequest, ControlledBrokerAssumption DEF BudgetOK, ledger, Proceed
<1>4. CASE Answer
  <2>1. QueueOK' /\ StageOK' /\ (draining = 0 => draining' = 0)
    BY <1>0, <1>1, <1>4, AnswerShrinks
  <2>2. GateOK'
    BY <1>0, <1>1, <2>1, Zenon DEF GateOK, gate, disk
  <2> QED BY <1>2, <1>3, <2>1, <2>2 DEF Whole
<1>5. CASE Proceed("read")
  <2>1. QueueOK' /\ First' = First
    BY <1>0, <1>5 DEF QueueOK, First, Proceed, Stages
  <2>2. StageOK'
    BY <1>0, <1>1, <1>5, <2>1 DEF StageOK, gate, Proceed
  <2>3. GateOK'
    BY <1>0, <1>1, <1>5, Zenon DEF GateOK, gate, disk, Proceed
  <2> QED BY <1>2, <1>3, <2>1, <2>2, <2>3 DEF Whole
<1> QED BY <1>1, <1>4, <1>5

\* The draft's file is created once, and only in a directory not given up.
LEMMA InspectReturnsKeeps ==
  ASSUME Whole, InspectReturns
  PROVE  Whole'
<1>0. QueueOK /\ LedgerOK /\ DiskOK /\ BudgetOK /\ GateOK /\ StageOK
  BY DEF Whole
<1>1. /\ queue # <<>> /\ stage = "inspect" /\ First.id \in seen /\ First.id \notin ToSet(files)
      /\ UNCHANGED <<gate, seen, ledger, toolCalls, output, drafts>>
  BY <1>0, Zenon DEF InspectReturns, At, StageOK
<1>2. LedgerOK'
  BY <1>0, <1>1 DEF LedgerOK, ledger
<1>3. CASE Refuse /\ UNCHANGED files
  <2>1. QueueOK' /\ StageOK' /\ (draining = 0 => draining' = 0)
    BY <1>0, <1>1, <1>3, AnswerShrinks DEF Refuse
  <2>2. GateOK' /\ BudgetOK' /\ DiskOK'
    BY <1>0, <1>1, <1>3, <2>1, Zenon DEF GateOK, BudgetOK, DiskOK, gate, disk, ledger, Refuse
  <2> QED BY <1>2, <2>1, <2>2 DEF Whole
<1>4. CASE Admitted /\ files' = Append(files, First.id) /\ Proceed("write")
  <2>1. QueueOK' /\ First' = First
    BY <1>0, <1>4 DEF QueueOK, First, Proceed, Stages
  <2>2. DiskOK'
    <3>1. First.id \in RequestIds
      BY <1>0, <1>1, FirstIsRequest
    <3> QED BY <1>0, <1>1, <1>4, <3>1, AppendAdds DEF DiskOK
  <2>3. cleanup = "pending" /\ UNCHANGED <<closed, expired, cleanup, draining>>
    BY <1>0, <1>1, <1>4, Zenon DEF GateOK, Admitted, gate, Proceed
  <2>4. StageOK'
    BY <1>1, <1>4, <2>1, <2>3, Zenon DEF StageOK, Admitted, Proceed
  <2>5. GateOK'
    BY <1>0, <2>3, Zenon DEF GateOK
  <2>6. BudgetOK'
    BY <1>0, <1>1, <1>4, Zenon DEF BudgetOK, ledger, Proceed
  <2> QED BY <1>2, <2>1, <2>2, <2>4, <2>5, <2>6 DEF Whole
<1> QED BY <1>3, <1>4 DEF InspectReturns

LEMMA WriteReturnsKeeps ==
  ASSUME Whole, WriteReturns
  PROVE  Whole'
<1>0. QueueOK /\ LedgerOK /\ DiskOK /\ BudgetOK /\ GateOK /\ StageOK
  BY DEF Whole
<1>1. /\ queue # <<>> /\ Answer /\ UNCHANGED <<gate, seen, ledger, toolCalls, output, files>>
      /\ drafts' = drafts \/ drafts' = Append(drafts, First.id)
      /\ accepted' \in {accepted, accepted \cup {First}}
  BY DEF WriteReturns, At, AcceptIf, Refuse, Accept
<1>2. QueueOK' /\ StageOK' /\ (draining = 0 => draining' = 0)
  BY <1>0, <1>1, AnswerShrinks
<1>3. First.id \in RequestIds /\ First \in Requests
  BY <1>0, <1>1, FirstIsRequest
<1>4. LedgerOK' /\ BudgetOK'
  BY <1>0, <1>1, <1>3 DEF LedgerOK, BudgetOK, ledger
<1>5. DiskOK'
  BY <1>0, <1>1, <1>3, AppendAdds DEF DiskOK
<1>6. GateOK'
  BY <1>0, <1>1, <1>2, Zenon DEF GateOK, gate
<1> QED BY <1>2, <1>4, <1>5, <1>6 DEF Whole

\* Closing counts what is queued; nothing is being performed when that reaches zero.
LEMMA GateKeeps ==
  ASSUME Whole, Dispose \/ Cleanup \/ ClockMoves
  PROVE  Whole'
<1>0. QueueOK /\ LedgerOK /\ DiskOK /\ BudgetOK /\ GateOK /\ StageOK
  BY DEF Whole
<1>1. UNCHANGED <<queue, stage, seen, ledger, toolCalls, output, drafts, accepted>>
  BY DEF Dispose, Cleanup, ClockMoves, disk
<1>2. LedgerOK' /\ BudgetOK' /\ First' = First
  BY <1>0, <1>1 DEF LedgerOK, BudgetOK, ledger, First
<1>3. CASE Dispose
  <2>1. QueueOK' /\ (queue # <<>> => draining' > 0)
    BY <1>0, <1>3 DEF Dispose, QueueOK
  <2>2. StageOK'
    BY <1>0, <1>1, <1>2, <1>3, <2>1, Zenon DEF Dispose, StageOK, disk
  <2>3. GateOK' /\ DiskOK'
    BY <1>0, <1>1, <1>3, Zenon DEF Dispose, GateOK, DiskOK, disk
  <2> QED BY <1>2, <2>1, <2>2, <2>3 DEF Whole
<1>4. CASE Cleanup
  <2>1. closed /\ draining = 0 /\ stage = "waiting" /\ UNCHANGED <<closed, expired, draining>>
    BY <1>0, <1>4 DEF Cleanup, Drained, StageOK
  <2>2. QueueOK' /\ StageOK'
    BY <1>0, <1>1, <2>1 DEF QueueOK, StageOK
  <2>3. GateOK'
    <3>1. /\ cleanup' \in {"disposed", "cleanup_failed"}
          /\ cleanup' = "disposed" => files' = <<>>
      BY <1>4 DEF Cleanup
    <3> QED BY <1>0, <2>1, <3>1, Zenon DEF GateOK
  <2>4. DiskOK'
    <3>1. files' = files \/ files' = <<>>
      BY <1>4 DEF Cleanup
    <3>2. files' \in Seq(RequestIds) /\ IsInjective(files') /\ ToSet(files') \subseteq seen
      <4>1. CASE files' = files
        BY <1>0, <4>1 DEF DiskOK
      <4>2. CASE files' = <<>>
        BY <4>2, EmptyIsInjective
      <4> QED BY <3>1, <4>1, <4>2
    <3> QED BY <1>0, <1>1, <3>2 DEF DiskOK
  <2> QED BY <1>2, <2>2, <2>3, <2>4 DEF Whole
<1>5. CASE ClockMoves
  <2>1. QueueOK' /\ StageOK' /\ DiskOK'
    BY <1>0, <1>1, <1>2, <1>5 DEF QueueOK, StageOK, DiskOK, ClockMoves, disk
  <2>2. GateOK'
    BY <1>0, <1>5, Zenon DEF ClockMoves, GateOK, disk
  <2> QED BY <1>2, <2>1, <2>2 DEF Whole
<1> QED BY <1>3, <1>4, <1>5
-----------------------------------------------------------------------------
LEMMA StutterKeeps == Whole /\ UNCHANGED vars => Whole'
<1> SUFFICES ASSUME Whole, UNCHANGED vars PROVE Whole'
  OBVIOUS
<1>1. QueueOK' /\ LedgerOK' /\ DiskOK'
  BY DEF Whole, vars, QueueOK, LedgerOK, DiskOK, ledger, disk
<1>2. BudgetOK' /\ GateOK' /\ StageOK'
  BY Zenon DEF Whole, vars, BudgetOK, GateOK, StageOK, First, gate, disk, ledger
<1> QED BY <1>1, <1>2 DEF Whole

\* handle, perform and dispose keep Inductive: queue, budget books, directory and gate
\* stay consistent across every await, for any requests, sizes and bounds.
THEOREM Invariance == Spec => []Inductive
<1>1. Whole /\ [Next]_vars => Whole'
  <2> SUFFICES ASSUME Whole, [Next]_vars PROVE Whole'
    OBVIOUS
  <2>1. ASSUME NEW r \in Requests, Handle(r) PROVE Whole'
    BY <2>1, HandleKeeps
  <2>2. CASE Perform
    BY <2>2, BeginRefusedKeeps, InvokeModelKeeps, ToolKeeps, FileReturnsKeeps,
       InspectReturnsKeeps, WriteReturnsKeeps
    DEF Perform
  <2>3. CASE Dispose \/ Cleanup \/ ClockMoves
    BY <2>3, GateKeeps
  <2>4. CASE UNCHANGED vars
    BY <2>4, StutterKeeps
  <2> QED BY <2>1, <2>2, <2>3, <2>4 DEF Next
<1> QED BY <1>1, InitHolds, Parts, PTL DEF Spec

\* Every variable of the broker keeps its type.
THEOREM TypeCorrect == Spec => []TypeOK
<1>1. Inductive => TypeOK
  BY DEF Inductive
<1> QED BY <1>1, Invariance, PTL

\* perform() remembers an identity before its first effect and forgets none: a request
\* sent again is never recorded, received or written a second time.
THEOREM OnceOnly == Spec => []EffectsHappenOnce
<1>1. Inductive => EffectsHappenOnce
  BY DEF Inductive
<1> QED BY <1>1, Invariance, PTL

\* receiveSyntheticModel runs only behind the record and the durable-input hook.
THEOREM CommittedFirst == Spec => []ReceivedIsCommitted
<1>1. Inductive => ReceivedIsCommitted
  BY DEF Inductive
<1> QED BY <1>1, Invariance, PTL

\* dispose() awaits what was accepted before it: when the directory is given up no
\* request is in the middle of using it, and a disposed one holds no file.
THEOREM DisposalIsLast == Spec => []NothingOutlivesDisposal
<1>1. Inductive => NothingOutlivesDisposal
  <2> SUFFICES ASSUME Inductive, cleanup # "pending"
               PROVE  stage = "waiting" /\ (cleanup = "disposed" => files = <<>>)
    BY DEF NothingOutlivesDisposal
  <2> QED BY DEF Inductive
<1> QED BY <1>1, Invariance, PTL
-----------------------------------------------------------------------------
(* The budgets: each action can exceed only those it spends from.          *)

QueueFits == Len(queue) <= MaxQueued
ActionsFit == Cardinality(seen) <= MaxActions
ModelFits == Len(requests) <= MaxModelRequests /\ reserved <= MaxTokens
ToolsFit == toolCalls <= MaxToolCalls /\ output <= MaxOutput
BudgetsFit == QueueFits /\ ActionsFit /\ ModelFits /\ ToolsFit

LEMMA BudgetsAre == BudgetsFit <=> BudgetsHold
  BY DEF BudgetsFit, BudgetsHold, QueueFits, ActionsFit, ModelFits, ToolsFit

LEMMA BoundsAreNat ==
  /\ MaxQueued \in Nat /\ MaxActions \in Nat /\ MaxModelRequests \in Nat
  /\ MaxToolCalls \in Nat /\ MaxTokens \in Nat /\ MaxOutput \in Nat
  BY ControlledBrokerAssumption

\* An identity is added to those seen only below the limit of actions.
LEMMA BeginCounts ==
  ASSUME LedgerOK, ActionsFit, NEW kind, Begin(kind)
  PROVE  ActionsFit'
<1>1. IsFiniteSet(seen)
  BY FS_Subset, ControlledBrokerAssumption DEF LedgerOK
<1>2. Cardinality(seen) \in Nat /\ Cardinality(seen) < MaxActions
      /\ First.id \notin seen /\ seen' = seen \cup {First.id}
  BY <1>1, FS_CardinalityType DEF Begin, Performable
<1>3. Cardinality(seen') = Cardinality(seen) + 1
  BY <1>1, <1>2, FS_AddElement
<1> QED BY <1>2, <1>3, BoundsAreNat DEF ActionsFit

\* An answer, or an await that goes on, lets no request in.
LEMMA QueueShrinks ==
  ASSUME QueueOK, queue # <<>>, QueueFits, Answer \/ UNCHANGED queue
  PROVE  QueueFits'
<1>1. Len(Tail(queue)) = Len(queue) - 1 /\ Len(queue) \in Nat
  BY DEF QueueOK
<1> QED BY <1>1, BoundsAreNat DEF QueueFits, Answer

LEMMA InvokeModelFits ==
  ASSUME Whole, BudgetsFit, InvokeModel
  PROVE  BudgetsFit'
<1>0. QueueOK /\ LedgerOK /\ BudgetOK
  BY DEF Whole
<1>1. Begin("model") /\ queue # <<>> /\ UNCHANGED toolCalls /\ Answer
  BY DEF InvokeModel, Begin, At, Deliver, Refuse, Accept
<1>2. QueueFits' /\ ActionsFit'
  BY <1>0, <1>1, QueueShrinks, BeginCounts DEF BudgetsFit
<1>3. First.tokens \in Nat
  BY <1>0, <1>1, FirstIsRequest
<1>4. CASE UNCHANGED <<ledger, output>>
  BY <1>1, <1>2, <1>4 DEF BudgetsFit, ModelFits, ToolsFit, ledger
<1>5. ASSUME NEW bytes \in Sizes, Reserve(bytes),
             output' = output + bytes, reserved' = reserved + First.tokens,
             requests' = Append(requests, First.id)
      PROVE  ModelFits' /\ ToolsFit'
  <2>1. Len(requests') = Len(requests) + 1 /\ Len(requests) \in Nat
    BY <1>0, <1>5 DEF LedgerOK
  <2> QED
    BY <1>0, <1>1, <1>3, <1>5, <2>1, BoundsAreNat, ControlledBrokerAssumption
    DEF BudgetsFit, ModelFits, ToolsFit, Reserve, Fits, BudgetOK
<1> QED BY <1>2, <1>4, <1>5 DEF InvokeModel, BudgetsFit

\* A tool call is counted before it is refused, and its bytes before it is answered.
LEMMA ToolFits ==
  ASSUME Whole, BudgetsFit, RefuseTool \/ ReadMemory \/ ReadFile \/ WriteDraft
  PROVE  BudgetsFit'
<1>0. QueueOK /\ LedgerOK /\ BudgetOK
  BY DEF Whole
<1>1. PICK kind \in Kinds : Begin(kind)
  BY DEF RefuseTool, ReadMemory, ReadFile, WriteDraft, CallTool, Kinds
<1>2. queue # <<>> /\ (Answer \/ UNCHANGED queue) /\ UNCHANGED ledger
  BY <1>1 DEF Begin, At, RefuseTool, ReadMemory, ReadFile, WriteDraft, CallTool, Refuse,
              Accept, Proceed
<1>3. QueueFits' /\ ActionsFit' /\ ModelFits'
  BY <1>0, <1>1, <1>2, QueueShrinks, BeginCounts DEF BudgetsFit, ModelFits, ledger
<1>4. toolCalls' = toolCalls \/ (toolCalls < MaxToolCalls /\ toolCalls' = toolCalls + 1)
  BY DEF RefuseTool, ReadMemory, ReadFile, WriteDraft, CallTool
<1>5. output' = output \/ \E bytes \in Sizes : Fits(bytes) /\ output' = output + bytes
  BY DEF RefuseTool, ReadMemory, ReadFile, WriteDraft
<1>6. ToolsFit'
  BY <1>0, <1>4, <1>5, BoundsAreNat DEF BudgetsFit, ToolsFit, Fits, BudgetOK
<1> QED BY <1>3, <1>6 DEF BudgetsFit

LEMMA ReturnsFit ==
  ASSUME Whole, BudgetsFit,
         BeginRefused \/ StatReturns \/ ReadReturns \/ InspectReturns \/ WriteReturns
  PROVE  BudgetsFit'
<1>0. QueueOK /\ BudgetOK
  BY DEF Whole
<1>1. queue # <<>> /\ (Answer \/ UNCHANGED queue) /\ UNCHANGED <<seen, ledger, toolCalls>>
  BY DEF At, BeginRefused, StatReturns, ReadReturns, InspectReturns, WriteReturns, Refuse,
         Accept, AcceptIf, Proceed
<1>2. output' = output \/ \E bytes \in Sizes : Fits(bytes) /\ output' = output + bytes
  BY DEF BeginRefused, StatReturns, ReadReturns, InspectReturns, WriteReturns
<1>3. QueueFits' /\ ActionsFit' /\ ModelFits'
  BY <1>0, <1>1, QueueShrinks DEF BudgetsFit, ActionsFit, ModelFits, ledger
<1>4. ToolsFit'
  BY <1>0, <1>1, <1>2, BoundsAreNat DEF BudgetsFit, ToolsFit, Fits, BudgetOK
<1> QED BY <1>3, <1>4 DEF BudgetsFit

LEMMA BudgetsKeep == Whole /\ BudgetsFit /\ [Next]_vars => BudgetsFit'
<1> SUFFICES ASSUME Whole, BudgetsFit, [Next]_vars PROVE BudgetsFit'
  OBVIOUS
<1>1. ASSUME NEW r \in Requests, Handle(r) PROVE BudgetsFit'
  <2>1. Len(queue') = Len(queue) + 1 /\ Len(queue) \in Nat
    BY <1>1 DEF Whole, QueueOK, Handle
  <2> QED
    BY <1>1, <2>1, BoundsAreNat
    DEF Handle, ledger, BudgetsFit, QueueFits, ActionsFit, ModelFits, ToolsFit
<1>2. CASE Perform
  BY <1>2, InvokeModelFits, ToolFits, ReturnsFit DEF Perform
<1>3. CASE Dispose \/ Cleanup \/ ClockMoves \/ UNCHANGED vars
  BY <1>3 DEF Dispose, Cleanup, ClockMoves, vars, ledger, BudgetsFit, QueueFits, ActionsFit,
              ModelFits, ToolsFit
<1> QED BY <1>1, <1>2, <1>3 DEF Next

\* perform() spends before it acts and gives nothing back: no retry, refusal, failure or
\* disposal lets a worker go past a budget, for any requests, sizes and bounds.
THEOREM BudgetsAreKept == Spec => []BudgetsHold
<1>1. Init => BudgetsFit
  BY BoundsAreNat, FS_EmptySet
  DEF Init, BudgetsFit, QueueFits, ActionsFit, ModelFits, ToolsFit
<1>2. Spec => []Whole
  BY Invariance, Parts, PTL
<1> QED BY <1>1, <1>2, BudgetsKeep, BudgetsAre, PTL DEF Spec
-----------------------------------------------------------------------------
(* The controlled worker.                                                *)

Types ==
  /\ supervisor \in Worker!Supervisors /\ client \in Worker!Clients
  /\ process \in Worker!Processes /\ directory \in BOOLEAN
\* The outstanding broker requests, of which the limit speaks, are finitely many.
Room ==
  /\ IsFiniteSet(Worker!Outstanding(client))
  /\ Cardinality(Worker!Outstanding(client)) <= MaxBroker
\* A client is started once; the promise of a close exists from the attempt to spawn on,
\* and a close is observed of a process that has exited.
Spawning ==
  /\ supervisor.binding = "ALLOCATED" => client.start = "none"
  /\ client.start \in {"none", "preparing"} =>
       /\ process.life = "none" /\ client.closed = "none"
       /\ client.failure = "none" /\ client.killing = "none"
  /\ process.life = "none" => client.closed \in {"none", "rejected"}
  /\ client.closed = "none" => process.life = "none"
  /\ client.closeObserved => process.life = "exited"
\* A disposal that came before the spawn keeps it from happening.
Closing ==
  /\ client.unspawned # "none" => client.closing /\ supervisor.closed /\ process.life = "none"
  /\ supervisor.closed /\ client.start = "preparing" => client.closing

WorkerInductive == Types /\ Room /\ Spawning /\ Closing /\ EvidenceIsPhysical
-----------------------------------------------------------------------------
(* The helpers of the client.                                              *)

LEMMA FailureTyped ==
  ASSUME NEW c \in Worker!Clients, NEW code \in {"state", "cleanup", "other"},
         NEW requests_ \in
           [Worker!Commands -> {"unsent", "pending", "resolved", "refused", "rejected"}],
         NEW start \in {"none", "preparing", "launched", "cleaning", "resolved", "rejected"}
  PROVE  [c EXCEPT !.failure = code, !.state = "FAILED", !.requests = requests_, !.start = start]
           \in Worker!Clients
  BY DEF Worker!Clients

LEMMA EndTyped ==
  ASSUME NEW c \in Worker!Clients, NEW terminal \in BOOLEAN,
         NEW closed_ \in {"none", "pending", "resolved", "rejected"},
         NEW killing \in {"none", "term", "kill", "given_up"}
  PROVE  [c EXCEPT !.terminal = terminal, !.closed = closed_, !.killing = killing]
           \in Worker!Clients
  BY DEF Worker!Clients

\* What stop() leaves of a client c: it settles neither close with evidence nor undoes one.
Kept(c, s, spawned) ==
  /\ s \in Worker!Clients
  /\ s.start = c.start \/ (c.start = "launched" /\ s.start = "cleaning")
  /\ s.closed = c.closed \/ (~spawned /\ s.closed = "rejected" /\ c.closed = "pending")
  /\ s.unspawned = c.unspawned /\ s.closing = c.closing
  /\ s.closeObserved = c.closeObserved /\ s.broker = c.broker

LEMMA StopKeeps ==
  ASSUME NEW c \in Worker!Clients, NEW code \in {"state", "cleanup", "other"},
         NEW spawned \in BOOLEAN
  PROVE  Kept(c, Worker!Stopped(c, code, spawned), spawned)
<1> DEFINE s == Worker!Stopped(c, code, spawned)
<1>1. CASE c.failure # "none" \/ c.closeObserved
  BY <1>1 DEF Worker!Stopped, Kept
<1>2. CASE ~(c.failure # "none" \/ c.closeObserved)
  <2> DEFINE failed(requests_, start) ==
        [c EXCEPT !.failure = code, !.state = "FAILED", !.requests = requests_, !.start = start]
  <2>1. PICK requests_ \in
               [Worker!Commands -> {"unsent", "pending", "resolved", "refused", "rejected"}] :
          requests_ = Worker!Rejected(c.requests)
    BY DEF Worker!Clients, Worker!Rejected
  <2>2. PICK start \in {"none", "preparing", "launched", "cleaning", "resolved", "rejected"} :
          start = IF c.start = "launched" THEN "cleaning" ELSE c.start
    BY DEF Worker!Clients
  <2>3. PICK terminal \in BOOLEAN : terminal = (c.terminal \/ ~spawned)
    BY DEF Worker!Clients
  <2>4. PICK closed_ \in {"none", "pending", "resolved", "rejected"} :
          closed_ = IF ~spawned /\ c.closed = "pending" THEN "rejected" ELSE c.closed
    BY DEF Worker!Clients
  <2>5. PICK killing \in {"none", "term", "kill", "given_up"} :
          killing = IF spawned THEN "term" ELSE c.killing
    BY DEF Worker!Clients
  <2>6. s = [failed(requests_, start) EXCEPT !.terminal = terminal, !.closed = closed_,
                                             !.killing = killing]
    BY <1>2, <2>1, <2>2, <2>3, <2>4, <2>5 DEF Worker!Stopped, Worker!Clients
  <2>7. PICK f \in Worker!Clients : f = failed(requests_, start)
    BY FailureTyped
  <2>8. /\ f.start = start /\ f.closed = c.closed
        /\ f.unspawned = c.unspawned /\ f.closing = c.closing
        /\ f.closeObserved = c.closeObserved /\ f.broker = c.broker
    BY <2>7 DEF Worker!Clients
  <2>9. s = [f EXCEPT !.terminal = terminal, !.closed = closed_, !.killing = killing]
    BY <2>6, <2>7
  <2>10. s \in Worker!Clients
    <3>1. \A t \in BOOLEAN : [f EXCEPT !.terminal = t, !.closed = closed_, !.killing = killing]
            \in Worker!Clients
      BY EndTyped
    <3> QED BY <2>9, <3>1
  <2>11. /\ s.start = f.start /\ s.closed = closed_
         /\ s.unspawned = f.unspawned /\ s.closing = f.closing
         /\ s.closeObserved = f.closeObserved /\ s.broker = f.broker
    BY <2>9 DEF Worker!Clients
  <2> HIDE DEF s
  <2>12. Kept(c, s, spawned)
    BY <2>2, <2>4, <2>8, <2>10, <2>11 DEF Kept
  <2> QED BY <2>12 DEF s
<1> QED BY <1>1, <1>2

LEMMA InputKeeps ==
  ASSUME NEW c \in Worker!Clients, NEW s, s = Worker!InputClosed(c)
  PROVE  /\ s \in Worker!Clients
         /\ s.start = c.start /\ s.closed = c.closed /\ s.unspawned = c.unspawned
         /\ s.closing = c.closing /\ s.closeObserved = c.closeObserved /\ s.broker = c.broker
         /\ s.failure = c.failure /\ s.killing = c.killing
  BY DEF Worker!InputClosed, Worker!Clients

LEMMA SendKeeps ==
  ASSUME NEW c \in Worker!Clients, NEW command \in Worker!Commands,
         NEW s, s = Worker!Send(c, command)
  PROVE  /\ s \in Worker!Clients
         /\ s.start = c.start /\ s.closed = c.closed /\ s.unspawned = c.unspawned
         /\ s.closing = c.closing /\ s.closeObserved = c.closeObserved /\ s.broker = c.broker
         /\ s.failure = c.failure /\ s.killing = c.killing
  BY DEF Worker!Send, Worker!Clients, Worker!Commands
-----------------------------------------------------------------------------
(* Steps that neither spawn nor close anything.                            *)

\* The client goes on, but its promises of a close and what it knows of one stay.
Quiet ==
  /\ client' \in Worker!Clients
  /\ \/ client'.start = client.start
     \/ client.start \notin {"none", "preparing"} /\ client'.start \in {"cleaning", "resolved"}
  /\ client.start \in {"none", "preparing"} =>
       client'.failure = client.failure /\ client'.killing = client.killing
  /\ client'.closed = client.closed /\ client'.unspawned = client.unspawned
  /\ client'.closing = client.closing /\ client'.closeObserved = client.closeObserved
\* The process, its directory and the closing of the supervisor stay.
Still ==
  /\ supervisor' \in Worker!Supervisors /\ supervisor'.closed = supervisor.closed
  /\ supervisor'.binding = "ALLOCATED" => supervisor.binding = "ALLOCATED"
  /\ process' \in Worker!Processes /\ process'.life = process.life
  /\ directory' = directory
Safe == Types /\ Spawning /\ Closing /\ EvidenceIsPhysical

LEMMA QuietIsSafe == Safe /\ Quiet /\ Still => Safe'
  BY DEF Safe, Quiet, Still, Types, Spawning, Closing, EvidenceIsPhysical,
         Worker!EvidenceIsPhysical
-----------------------------------------------------------------------------
(* The supervisor's calls.                                                 *)

LEMMA StartSafe == Safe /\ Worker!Start => Safe'
<1> SUFFICES ASSUME Safe, Worker!Start PROVE Safe'
  OBVIOUS
<1>1. /\ supervisor' \in Worker!Supervisors /\ ~supervisor.closed /\ ~supervisor'.closed
      /\ supervisor'.binding = "STARTING"
      /\ UNCHANGED <<process, directory>>
  BY DEF Safe, Types, Worker!Start, Worker!Supervisors
<1>2. /\ client' \in Worker!Clients /\ client'.start = "preparing"
      /\ client'.closed = client.closed /\ client'.unspawned = client.unspawned
      /\ client'.closing = client.closing /\ client'.closeObserved = client.closeObserved
      /\ client'.failure = client.failure /\ client'.killing = client.killing
  BY DEF Safe, Types, Worker!Start, Worker!Clients
<1>3. client.start = "none" /\ client.unspawned = "none"
  BY <1>1 DEF Safe, Spawning, Closing, Worker!Start
<1> QED BY <1>1, <1>2, <1>3 DEF Safe, Types, Spawning, Closing, EvidenceIsPhysical,
          Worker!EvidenceIsPhysical

LEMMA SupervisorSafe ==
  ASSUME Safe,
         \/ Worker!StartReturns \/ Worker!DispatchReturns \/ Worker!ObserveSettled
         \/ Worker!ObserveFailure \/ Worker!DisposeReturns
  PROVE  Safe'
<1>1. /\ supervisor' \in Worker!Supervisors /\ supervisor'.closed = supervisor.closed
      /\ supervisor'.binding = "ALLOCATED" => supervisor.binding = "ALLOCATED"
  BY DEF Safe, Types, Worker!StartReturns, Worker!DispatchReturns, Worker!ObserveSettled,
         Worker!ObserveFailure, Worker!DisposeReturns, Worker!Supervisors
<1>2. UNCHANGED <<client, process, directory>>
  BY DEF Worker!StartReturns, Worker!DispatchReturns, Worker!ObserveSettled,
         Worker!ObserveFailure, Worker!DisposeReturns
<1> QED BY <1>1, <1>2, QuietIsSafe DEF Quiet, Still, Safe, Types

LEMMA SendSafe == Safe /\ (Worker!Dispatch \/ Worker!Abort) => Safe'
<1> SUFFICES ASSUME Safe, Worker!Dispatch \/ Worker!Abort PROVE Safe'
  OBVIOUS
<1>1. /\ supervisor' \in Worker!Supervisors /\ supervisor'.closed = supervisor.closed
      /\ supervisor'.binding = "ALLOCATED" => supervisor.binding = "ALLOCATED"
  BY DEF Safe, Types, Worker!Dispatch, Worker!Abort, Worker!Supervisors
<1>2. UNCHANGED <<process, directory>>
  BY DEF Worker!Dispatch, Worker!Abort
<1>3. PICK command \in Worker!Commands : client' = Worker!Send(client, command)
  BY DEF Worker!Dispatch, Worker!Abort, Worker!Commands
<1>4. Quiet
  BY <1>3, SendKeeps DEF Quiet, Safe, Types
<1> QED BY <1>1, <1>2, <1>4, QuietIsSafe DEF Still, Safe, Types

LEMMA DisposeSafe == Safe /\ Worker!Dispose => Safe'
<1> SUFFICES ASSUME Safe, Worker!Dispose PROVE Safe'
  OBVIOUS
<1>1. /\ supervisor' \in Worker!Supervisors /\ supervisor'.closed
      /\ supervisor'.binding = "ALLOCATED" => supervisor.binding = "ALLOCATED"
  BY DEF Safe, Types, Worker!Dispose, Worker!Supervisors
<1>2. UNCHANGED <<process, directory>>
  BY DEF Worker!Dispose
<1>3. CASE client.closed = "none"
  <2>1. /\ client' \in Worker!Clients
        /\ client'.unspawned = "pending" /\ client'.closing
        /\ client'.start = client.start /\ client'.closed = client.closed
        /\ client'.closeObserved = client.closeObserved
        /\ client'.failure = client.failure /\ client'.killing = client.killing
    BY <1>3 DEF Safe, Types, Worker!Dispose, Worker!Clients
  <2> QED BY <1>1, <1>2, <1>3, <2>1 DEF Safe, Types, Spawning, Closing, EvidenceIsPhysical,
            Worker!EvidenceIsPhysical
<1>4. CASE client.closed # "none"
  <2> DEFINE start == IF client.state = "STARTING" /\ client.start = "launched"
                      THEN "cleaning" ELSE client.start
             c == [client EXCEPT !.closing = TRUE, !.state = "DRAINING", !.start = start]
  <2>1. client' = client \/ client' = Worker!InputClosed(c)
    BY <1>4 DEF Worker!Dispose
  <2>2. start \in {"none", "preparing", "launched", "cleaning", "resolved", "rejected"}
    BY DEF Safe, Types, Worker!Clients
  <2>3. start = client.start \/ (client.start = "launched" /\ start = "cleaning")
    OBVIOUS
  <2> HIDE DEF start
  <2>4. /\ c \in Worker!Clients /\ c.start = start
        /\ c.closed = client.closed /\ c.unspawned = client.unspawned /\ c.closing
        /\ c.closeObserved = client.closeObserved
        /\ c.failure = client.failure /\ c.killing = client.killing
    BY <2>2 DEF Safe, Types, Worker!Clients
  <2> HIDE DEF c
  <2>5. CASE client' = Worker!InputClosed(c)
    <3>1. /\ client' \in Worker!Clients /\ client'.start = start
          /\ client'.closed = client.closed /\ client'.unspawned = client.unspawned
          /\ client'.closing /\ client'.closeObserved = client.closeObserved
          /\ client'.failure = client.failure /\ client'.killing = client.killing
      BY <2>4, <2>5, InputKeeps
    <3> QED BY <1>1, <1>2, <1>4, <2>3, <3>1 DEF Safe, Types, Spawning, Closing,
              EvidenceIsPhysical, Worker!EvidenceIsPhysical
  <2>6. CASE client' = client
    BY <1>1, <1>2, <1>4, <2>6 DEF Safe, Types, Spawning, Closing, EvidenceIsPhysical,
       Worker!EvidenceIsPhysical
  <2> QED BY <2>1, <2>5, <2>6
<1> QED BY <1>3, <1>4
-----------------------------------------------------------------------------
(* The start of the client, and the close of one that never spawned.       *)

\* A preparation that ends without a process, whichever way.
Unprepared ==
  /\ client' \in Worker!Clients /\ client'.start = "cleaning"
  /\ client'.closed \in {"none", "rejected"} /\ client'.unspawned = client.unspawned
  /\ client'.closing = client.closing /\ client'.closeObserved = client.closeObserved

LEMMA UnpreparedIsSafe ==
  ASSUME Safe, Unprepared, client.start = "preparing", directory' \in BOOLEAN,
         UNCHANGED <<supervisor, process>>
  PROVE  Safe'
  BY DEF Safe, Unprepared, Types, Spawning, Closing, EvidenceIsPhysical,
         Worker!EvidenceIsPhysical

LEMMA StopUnprepares ==
  ASSUME Safe, client.start = "preparing",
         NEW c \in Worker!Clients,
         c.closed \in {"none", "pending"}, c.unspawned = client.unspawned,
         c.closing = client.closing, c.closeObserved = client.closeObserved,
         NEW code \in {"state", "cleanup", "other"}, 
         client' = [Worker!Stopped(c, code, FALSE) EXCEPT !.start = "cleaning"],
         c.closed = "pending" => Worker!Stopped(c, code, FALSE).closed = "rejected"
  PROVE  Unprepared
<1>1. PICK s : s = Worker!Stopped(c, code, FALSE)
  OBVIOUS
<1>2. Kept(c, s, FALSE)
  <2>1. \A spawned \in BOOLEAN : Kept(c, Worker!Stopped(c, code, spawned), spawned)
    BY StopKeeps
  <2> QED BY <1>1, <2>1
<1>3. client' = [s EXCEPT !.start = "cleaning"]
  BY <1>1
<1>4. s.closed \in {"none", "rejected"}
  BY <1>1, <1>2 DEF Kept
<1> s \in Worker!Clients
  BY <1>2 DEF Kept
<1>5. client' \in Worker!Clients /\ client'.start = "cleaning"
  BY <1>3 DEF Worker!Clients
<1>6. /\ client'.closed = s.closed /\ client'.unspawned = s.unspawned
      /\ client'.closing = s.closing /\ client'.closeObserved = s.closeObserved
  BY <1>3 DEF Worker!Clients
<1> QED BY <1>2, <1>4, <1>5, <1>6 DEF Unprepared, Kept

LEMMA PreparationFailsSafe == Safe /\ Worker!PreparationFails => Safe'
<1> SUFFICES ASSUME Safe, Worker!PreparationFails PROVE Safe'
  OBVIOUS
<1>1. client.closed = "none" /\ ~Worker!Spawned
  BY DEF Safe, Spawning, Worker!PreparationFails, Worker!Spawned
<1>2. client' = [Worker!Stopped(client, "other", FALSE) EXCEPT !.start = "cleaning"]
  <2>1. Worker!Spawned = FALSE
    BY <1>1 DEF Worker!Spawned
  <2> QED BY <2>1 DEF Worker!PreparationFails
<1>3. Unprepared
  BY <1>1, <1>2, StopUnprepares DEF Safe, Types, Worker!PreparationFails
<1> QED BY <1>3, UnpreparedIsSafe DEF Worker!PreparationFails

LEMMA PreparationEndsSafe == Safe /\ Worker!PreparationEnds => Safe'
<1> SUFFICES ASSUME Safe, Worker!PreparationEnds PROVE Safe'
  OBVIOUS
<1>1. /\ client.start = "preparing" /\ client.closed = "none" /\ process.life = "none"
      /\ directory' = TRUE /\ UNCHANGED supervisor
      /\ client.failure = "none" /\ ~client.closeObserved
  BY DEF Safe, Spawning, Worker!PreparationEnds
<1>2. CASE /\ client' = [Worker!Stopped(client, "state", FALSE) EXCEPT !.start = "cleaning"]
           /\ UNCHANGED process
  BY <1>1, <1>2, StopUnprepares, UnpreparedIsSafe DEF Safe, Types
<1>3. CASE /\ ~client.closing
           /\ client' = [client EXCEPT !.start = "launched", !.closed = "pending"]
           /\ process' = [process EXCEPT !.life = "running"]
  <2>1. /\ client' \in Worker!Clients /\ client'.start = "launched" /\ client'.closed = "pending"
        /\ client'.unspawned = client.unspawned /\ client'.closing = client.closing
        /\ client'.closeObserved = client.closeObserved
    BY <1>3 DEF Safe, Types, Worker!Clients
  <2>2. process' \in Worker!Processes /\ process'.life = "running"
    BY <1>3 DEF Safe, Types, Worker!Processes
  <2> QED BY <1>1, <1>3, <2>1, <2>2 DEF Safe, Types, Spawning, Closing, EvidenceIsPhysical,
            Worker!EvidenceIsPhysical
<1>4. CASE /\ client' = [Worker!Stopped([client EXCEPT !.closed = "pending"], "other", FALSE)
                           EXCEPT !.start = "cleaning"]
           /\ UNCHANGED process
  <2> DEFINE c == [client EXCEPT !.closed = "pending"]
  <2>1. /\ c \in Worker!Clients /\ c.closed = "pending" /\ c.unspawned = client.unspawned
        /\ c.closing = client.closing /\ c.closeObserved = client.closeObserved
        /\ c.failure = "none"
    BY <1>1 DEF Safe, Types, Worker!Clients
  <2> HIDE DEF c
  <2>2. Worker!Stopped(c, "other", FALSE).closed = "rejected"
    BY <1>1, <2>1 DEF Worker!Stopped, Worker!Clients
  <2>3. client' = [Worker!Stopped(c, "other", FALSE) EXCEPT !.start = "cleaning"]
    BY <1>4 DEF c
  <2>4. Unprepared
    BY <1>1, <2>1, <2>2, <2>3, StopUnprepares
  <2> QED BY <1>1, <1>4, <2>4, UnpreparedIsSafe
<1> QED BY <1>2, <1>3, <1>4 DEF Worker!PreparationEnds

LEMMA StartRejectsSafe == Safe /\ Worker!StartRejects => Safe'
<1> SUFFICES ASSUME Safe, Worker!StartRejects PROVE Safe'
  OBVIOUS
<1>1. /\ client' \in Worker!Clients /\ client'.start = "rejected"
      /\ client'.closed = client.closed /\ client'.unspawned = client.unspawned
      /\ client'.closing = client.closing /\ client'.closeObserved = client.closeObserved
  BY DEF Safe, Types, Worker!StartRejects, Worker!Clients
<1>2. UNCHANGED <<supervisor, process>> /\ client.start = "cleaning"
  BY DEF Worker!StartRejects
<1>3. directory' \in BOOLEAN /\ (directory' => directory)
  BY DEF Safe, Types, Worker!StartRejects
<1> QED BY <1>1, <1>2, <1>3 DEF Safe, Types, Spawning, Closing, EvidenceIsPhysical,
          Worker!EvidenceIsPhysical

LEMMA UnspawnedClosesSafe == Safe /\ Worker!UnspawnedCloses => Safe'
<1> SUFFICES ASSUME Safe, Worker!UnspawnedCloses PROVE Safe'
  OBVIOUS
<1>1. /\ client.unspawned = "pending" /\ client.start # "preparing"
      /\ UNCHANGED <<supervisor, process>>
  BY DEF Worker!UnspawnedCloses
<1>2. \/ ~directory' /\ client'.unspawned = "resolved"
      \/ directory' = directory /\ client'.unspawned = "rejected"
  BY DEF Safe, Types, Worker!UnspawnedCloses, Worker!Clients
<1>3. client' \in Worker!Clients /\ directory' \in BOOLEAN
  <2>1. CASE client' = [client EXCEPT !.unspawned = "rejected"] /\ UNCHANGED directory
    BY <2>1 DEF Safe, Types, Worker!Clients
  <2>2. CASE /\ client' = [client EXCEPT !.unspawned = "resolved", !.terminal = TRUE,
                   !.state = IF client.failure \in {"none", "state"} THEN "STOPPED"
                             ELSE client.state]
             /\ directory' = FALSE
    BY <2>2 DEF Safe, Types, Worker!Clients
  <2> QED BY <2>1, <2>2 DEF Worker!UnspawnedCloses
<1>4. /\ client'.start = client.start /\ client'.closed = client.closed
      /\ client'.closing = client.closing /\ client'.closeObserved = client.closeObserved
      /\ client'.failure = client.failure /\ client'.killing = client.killing
  BY DEF Safe, Types, Worker!UnspawnedCloses, Worker!Clients
<1> QED BY <1>1, <1>2, <1>3, <1>4 DEF Safe, Types, Spawning, Closing, EvidenceIsPhysical,
          Worker!EvidenceIsPhysical
-----------------------------------------------------------------------------
(* Records from the process, answers to it and the failure of either.      *)

\* What reads from a process, or answers it, has spawned it.
LEMMA SpawnedIsStarted ==
  Safe /\ process.life # "none" => client.start \notin {"none", "preparing"}
  BY DEF Safe, Spawning

LEMMA StopIsQuiet ==
  ASSUME Safe, client.start \notin {"none", "preparing"},
         NEW code \in {"state", "cleanup", "other"}, Worker!Stop(code)
  PROVE  Quiet
<1>1. PICK spawned \in BOOLEAN : spawned = Worker!Spawned
  BY DEF Worker!Spawned
<1>2. client' = Worker!Stopped(client, code, spawned)
  BY <1>1 DEF Worker!Stop
<1>3. Kept(client, client', spawned)
  <2>1. \A b \in BOOLEAN : Kept(client, Worker!Stopped(client, code, b), b)
    BY StopKeeps DEF Safe, Types
  <2> QED BY <1>2, <2>1
<1>4. ~spawned => client.closed # "pending"
  BY <1>1 DEF Safe, Spawning, Worker!Spawned
<1>5. client'.closed = client.closed
  BY <1>3, <1>4 DEF Kept
<1> QED BY <1>3, <1>5 DEF Quiet, Kept

LEMMA ArrivalSafe ==
  ASSUME Safe,
         \/ Worker!HelloArrives \/ Worker!AgentSettles \/ Worker!ShutdownArrives
         \/ \E b \in BrokerIds : Worker!BrokerRequestArrives(b) \/ Worker!ResponseSeen(b)
         \/ \E c \in Worker!Commands : Worker!ResponseArrives(c)
         \/ Worker!WorkerFails
  PROVE  Safe'
<1>1. process.life # "none" /\ UNCHANGED <<supervisor, process, directory>>
  BY DEF Worker!HelloArrives, Worker!AgentSettles, Worker!ShutdownArrives,
     Worker!BrokerRequestArrives, Worker!ResponseSeen, Worker!ResponseArrives,
     Worker!WorkerFails, Worker!Receive, Worker!Readable, Worker!Spawned
<1>2. Still
  BY <1>1 DEF Still, Safe, Types
<1>3. client.start \notin {"none", "preparing"}
  BY <1>1, SpawnedIsStarted
<1>4. CASE \E code \in {"state", "cleanup", "other"} : Worker!Stop(code)
  BY <1>2, <1>3, <1>4, StopIsQuiet, QuietIsSafe
<1>5. CASE client' = [client EXCEPT !.session = TRUE, !.requests["get_state"] = "pending",
                                    !.requests["get_messages"] = "pending"]
  <2>1. Quiet
    BY <1>3, <1>5 DEF Quiet, Safe, Types, Worker!Clients, Worker!Commands
  <2> QED BY <1>2, <2>1, QuietIsSafe
<1>6. CASE client' = [client EXCEPT !.settled = TRUE, !.state = "DRAINING"]
  <2>1. Quiet
    BY <1>3, <1>6 DEF Quiet, Safe, Types, Worker!Clients
  <2> QED BY <1>2, <2>1, QuietIsSafe
<1>7. CASE client' = [client EXCEPT !.shutdown = TRUE]
  <2>1. Quiet
    BY <1>3, <1>7 DEF Quiet, Safe, Types, Worker!Clients
  <2> QED BY <1>2, <2>1, QuietIsSafe
<1>8. CASE \E b \in BrokerIds : client' = [client EXCEPT !.broker[b] = "handling"]
  <2>1. Quiet
    BY <1>3, <1>8 DEF Quiet, Safe, Types, Worker!Clients
  <2> QED BY <1>2, <2>1, QuietIsSafe
<1>9. CASE \E b \in BrokerIds : Worker!ResponseSeen(b)
  <2>1. PICK b \in BrokerIds :
          client' = Worker!InputClosed([client EXCEPT !.broker[b] = "seen"])
    BY <1>9 DEF Worker!ResponseSeen
  <2>2. PICK c : c = [client EXCEPT !.broker[b] = "seen"]
    OBVIOUS
  <2>3. /\ c \in Worker!Clients /\ c.start = client.start /\ c.closed = client.closed
        /\ c.unspawned = client.unspawned /\ c.closing = client.closing
        /\ c.closeObserved = client.closeObserved
    BY <2>2 DEF Safe, Types, Worker!Clients
  <2>4. Quiet
    BY <1>3, <2>1, <2>2, <2>3, InputKeeps DEF Quiet
  <2> QED BY <1>2, <2>4, QuietIsSafe
<1>10. CASE \E command \in Worker!Commands : Worker!ResponseArrives(command)
  <2>1. PICK command \in Worker!Commands, outcome \in {"resolved", "refused"} :
          client' = [client EXCEPT
            !.requests[command] = outcome,
            !.accepted = IF command = "prompt" THEN outcome = "resolved" ELSE client.accepted,
            !.state = IF command = "prompt" /\ outcome = "refused" THEN "DRAINING"
                      ELSE client.state]
    BY <1>10 DEF Worker!ResponseArrives
  <2>2. PICK accepted_ \in BOOLEAN :
          accepted_ = IF command = "prompt" THEN outcome = "resolved" ELSE client.accepted
    BY DEF Safe, Types, Worker!Clients
  <2>3. PICK state \in {"ALLOCATED", "STARTING", "READY", "BUSY", "DRAINING", "STOPPED", "FAILED"} :
          state = IF command = "prompt" /\ outcome = "refused" THEN "DRAINING"
                  ELSE client.state
    BY DEF Safe, Types, Worker!Clients
  <2>4. client' = [client EXCEPT !.requests[command] = outcome, !.accepted = accepted_,
                                 !.state = state]
    BY <2>1, <2>2, <2>3
  <2>5. Quiet
    BY <1>3, <2>4 DEF Quiet, Safe, Types, Worker!Clients
  <2> QED BY <1>2, <2>5, QuietIsSafe
<1> QED BY <1>4, <1>5, <1>6, <1>7, <1>8, <1>9, <1>10
        DEF Worker!HelloArrives, Worker!AgentSettles, Worker!ShutdownArrives,
            Worker!BrokerRequestArrives, Worker!WorkerFails, Worker!AcceptIf

LEMMA HandshakeSafe == Safe /\ Worker!HandshakeCompletes => Safe'
<1> SUFFICES ASSUME Safe, Worker!HandshakeCompletes PROVE Safe'
  OBVIOUS
<1>1. /\ client.start \in {"launched", "cleaning", "rejected"}
      /\ UNCHANGED <<supervisor, process, directory>>
  BY DEF Worker!HandshakeCompletes
<1>2. Still
  BY <1>1 DEF Still, Safe, Types
<1>3. CASE client' = [client EXCEPT !.start = IF client.start = "launched" THEN "cleaning"
                                              ELSE client.start]
  <2>1. Quiet
    BY <1>1, <1>3 DEF Quiet, Safe, Types, Worker!Clients
  <2> QED BY <1>2, <2>1, QuietIsSafe
<1>4. CASE client' = [client EXCEPT !.state = "READY", !.start = "resolved"]
  <2>1. Quiet
    BY <1>1, <1>4 DEF Quiet, Safe, Types, Worker!Clients
  <2> QED BY <1>2, <2>1, QuietIsSafe
<1>5. CASE Worker!Stop("other")
  BY <1>1, <1>2, <1>5, StopIsQuiet, QuietIsSafe
<1> QED BY <1>3, <1>4, <1>5 DEF Worker!HandshakeCompletes, Worker!Stop

LEMMA BrokerAnswersSafe ==
  ASSUME Safe, NEW b \in BrokerIds, Worker!BrokerAnswers(b)
  PROVE  Safe'
<1>1. Still /\ client' = [client EXCEPT !.broker[b] = "sent"]
  BY DEF Still, Safe, Types, Worker!BrokerAnswers
<1>2. Quiet
  BY <1>1 DEF Quiet, Safe, Types, Worker!Clients
<1> QED BY <1>1, <1>2, QuietIsSafe
-----------------------------------------------------------------------------
(* The end of the process.                                                 *)

LEMMA KillSafe == Safe /\ Worker!Kill => Safe'
<1> SUFFICES ASSUME Safe, Worker!Kill PROVE Safe'
  OBVIOUS
<1>1. Still /\ client' = [client EXCEPT !.killing = "kill"]
  BY DEF Still, Safe, Types, Worker!Kill
<1>2. client.start \notin {"none", "preparing"}
  BY DEF Safe, Spawning, Worker!Kill
<1>3. Quiet
  BY <1>1, <1>2 DEF Quiet, Safe, Types, Worker!Clients
<1> QED BY <1>1, <1>3, QuietIsSafe

LEMMA PipesEndSafe == Safe /\ Worker!PipesEnd => Safe'
<1> SUFFICES ASSUME Safe, Worker!PipesEnd PROVE Safe'
  OBVIOUS
<1>1. Still /\ UNCHANGED client
  BY DEF Still, Safe, Types, Worker!PipesEnd, Worker!Processes
<1> QED BY <1>1, QuietIsSafe DEF Quiet, Safe, Types

LEMMA ExitSafe == Safe /\ Worker!ProcessExits => Safe'
<1> SUFFICES ASSUME Safe, Worker!ProcessExits PROVE Safe'
  OBVIOUS
<1>1. /\ process.life = "running" /\ process'.life = "exited"
      /\ process' \in Worker!Processes /\ UNCHANGED <<supervisor, client, directory>>
  BY DEF Safe, Types, Worker!ProcessExits, Worker!Processes
<1> QED BY <1>1 DEF Safe, Types, Spawning, Closing, EvidenceIsPhysical,
          Worker!EvidenceIsPhysical

LEMMA GiveUpSafe == Safe /\ Worker!GiveUp => Safe'
<1> SUFFICES ASSUME Safe, Worker!GiveUp PROVE Safe'
  OBVIOUS
<1>1. /\ process'.life = process.life /\ process' \in Worker!Processes
      /\ UNCHANGED <<supervisor, directory>>
  BY DEF Safe, Types, Worker!GiveUp, Worker!Processes
<1>2. PICK closed_ \in {"none", "pending", "resolved", "rejected"} :
        closed_ = IF client.closed = "pending" THEN "rejected" ELSE client.closed
  BY DEF Safe, Types, Worker!Clients
<1>3. client' = [client EXCEPT !.killing = "given_up", !.failure = "cleanup", !.terminal = TRUE,
                               !.closed = closed_]
  BY <1>2 DEF Worker!GiveUp
<1>4. client' \in Worker!Clients
  BY <1>3 DEF Safe, Types, Worker!Clients
<1>5. /\ client'.start = client.start /\ client'.closed = closed_
      /\ client'.unspawned = client.unspawned /\ client'.closing = client.closing
      /\ client'.closeObserved = client.closeObserved
  BY <1>3 DEF Safe, Types, Worker!Clients
<1>6. client.killing # "none"
  BY DEF Worker!GiveUp
<1> QED BY <1>1, <1>2, <1>4, <1>5, <1>6 DEF Safe, Types, Spawning, Closing,
          EvidenceIsPhysical, Worker!EvidenceIsPhysical

LEMMA CloseEventSafe == Safe /\ Worker!CloseEvent => Safe'
<1> SUFFICES ASSUME Safe, Worker!CloseEvent PROVE Safe'
  OBVIOUS
<1>1. /\ process.life = "exited" /\ UNCHANGED <<supervisor, process, directory>>
  BY DEF Worker!CloseEvent
<1>2. client.start \notin {"none", "preparing"}
  BY <1>1, SpawnedIsStarted
<1>3. PICK c :
        /\ c = client \/ c = Worker!Stopped(client, "other", TRUE)
        /\ client' = [c EXCEPT !.closeObserved = TRUE, !.killing = "none",
                               !.state = IF c.failure = "none" THEN "STOPPED" ELSE "FAILED"]
  BY DEF Worker!CloseEvent
<1>4. Kept(client, c, TRUE)
  <2>1. \A spawned \in BOOLEAN :
          Kept(client, Worker!Stopped(client, "other", spawned), spawned)
    BY StopKeeps DEF Safe, Types
  <2>2. CASE c = client
    BY <2>2 DEF Kept, Safe, Types
  <2> QED BY <1>3, <2>1, <2>2
<1> c \in Worker!Clients
  BY <1>4 DEF Kept
<1>5. PICK state \in {"STOPPED", "FAILED"} :
        state = IF c.failure = "none" THEN "STOPPED" ELSE "FAILED"
  OBVIOUS
<1>6. client' = [c EXCEPT !.closeObserved = TRUE, !.killing = "none", !.state = state]
  BY <1>3, <1>5
<1>7. client' \in Worker!Clients
  BY <1>6 DEF Worker!Clients
<1>8. /\ client'.start = c.start /\ client'.closed = c.closed
      /\ client'.unspawned = c.unspawned /\ client'.closing = c.closing
      /\ client'.closeObserved
  BY <1>6 DEF Worker!Clients
<1> QED BY <1>1, <1>2, <1>4, <1>7, <1>8 DEF Kept, Safe, Types, Spawning, Closing,
          EvidenceIsPhysical, Worker!EvidenceIsPhysical

\* The only place where the promise of a close is settled with evidence.
LEMMA RemoveDirectorySafe == Safe /\ Worker!RemoveDirectory => Safe'
<1> SUFFICES ASSUME Safe, Worker!RemoveDirectory PROVE Safe'
  OBVIOUS
<1>1. client.closeObserved /\ UNCHANGED <<supervisor, process>>
  BY DEF Worker!RemoveDirectory
<1>2. client.start \notin {"none", "preparing"} /\ process.life = "exited"
  BY <1>1 DEF Safe, Spawning
<1>3. CASE /\ directory' = FALSE
           /\ client' = [client EXCEPT
                !.removal = TRUE, !.terminal = TRUE,
                !.closed = IF client.closed = "pending" THEN "resolved" ELSE client.closed]
  <2>1. PICK closed_ \in {"none", "pending", "resolved", "rejected"} :
          closed_ = IF client.closed = "pending" THEN "resolved" ELSE client.closed
    BY DEF Safe, Types, Worker!Clients
  <2>2. client' = [client EXCEPT !.removal = TRUE, !.terminal = TRUE, !.closed = closed_]
    BY <1>3, <2>1
  <2>3. /\ client' \in Worker!Clients
        /\ client'.start = client.start /\ client'.closed = closed_
        /\ client'.unspawned = client.unspawned /\ client'.closing = client.closing
        /\ client'.closeObserved
    BY <1>1, <2>2 DEF Safe, Types, Worker!Clients
  <2> QED BY <1>1, <1>2, <1>3, <2>1, <2>3 DEF Safe, Types, Spawning, Closing,
            EvidenceIsPhysical, Worker!EvidenceIsPhysical
<1>4. CASE /\ client' = [client EXCEPT
                !.failure = "cleanup", !.removal = TRUE, !.terminal = TRUE,
                !.closed = IF client.closed = "pending" THEN "rejected" ELSE client.closed]
           /\ UNCHANGED directory
  <2>1. PICK closed_ \in {"none", "pending", "resolved", "rejected"} :
          closed_ = IF client.closed = "pending" THEN "rejected" ELSE client.closed
    BY DEF Safe, Types, Worker!Clients
  <2>2. client' = [client EXCEPT !.failure = "cleanup", !.removal = TRUE, !.terminal = TRUE,
                                 !.closed = closed_]
    BY <1>4, <2>1
  <2>3. /\ client' \in Worker!Clients
        /\ client'.start = client.start /\ client'.closed = closed_
        /\ client'.unspawned = client.unspawned /\ client'.closing = client.closing
        /\ client'.closeObserved
    BY <1>1, <2>2 DEF Safe, Types, Worker!Clients
  <2> QED BY <1>1, <1>2, <1>4, <2>1, <2>3 DEF Safe, Types, Spawning, Closing,
            EvidenceIsPhysical, Worker!EvidenceIsPhysical
<1> QED BY <1>3, <1>4 DEF Worker!RemoveDirectory

LEMMA WorkerStepSafe == Safe /\ Worker!Next => Safe'
  BY StartSafe, SupervisorSafe, SendSafe, DisposeSafe, PreparationFailsSafe,
     PreparationEndsSafe, StartRejectsSafe, UnspawnedClosesSafe, ArrivalSafe, HandshakeSafe,
     BrokerAnswersSafe, KillSafe, PipesEndSafe, ExitSafe, GiveUpSafe, CloseEventSafe,
     RemoveDirectorySafe
  DEF Worker!Next, Worker!Calls, Worker!Continuations, Worker!Timers, Worker!Arrivals
-----------------------------------------------------------------------------
(* The limit of the outstanding broker requests.                           *)

\* Only the four events of a broker request touch the requests.
LEMMA OthersLeaveTheBroker ==
  ASSUME Types,
         \/ Worker!Calls \/ Worker!Continuations \/ Worker!Timers
         \/ Worker!HelloArrives \/ Worker!AgentSettles \/ Worker!ShutdownArrives
         \/ Worker!ProcessExits \/ Worker!PipesEnd
         \/ \E c \in Worker!Commands : Worker!ResponseArrives(c)
  PROVE  client'.broker = client.broker
<1> client \in Worker!Clients
  BY DEF Types
<1>1. \A c \in Worker!Clients, code \in {"state", "cleanup", "other"}, b \in BOOLEAN :
        /\ Worker!Stopped(c, code, b) \in Worker!Clients
        /\ Worker!Stopped(c, code, b).broker = c.broker
  <2>1. \A c \in Worker!Clients, code \in {"state", "cleanup", "other"}, b \in BOOLEAN :
          Kept(c, Worker!Stopped(c, code, b), b)
    BY StopKeeps
  <2>2. \A c, s, b : Kept(c, s, b) => s \in Worker!Clients /\ s.broker = c.broker
    BY DEF Kept
  <2> QED BY <2>1, <2>2, Zenon
<1>2. Worker!Spawned \in BOOLEAN
  BY DEF Worker!Spawned
<1>3. ASSUME NEW code \in {"state", "cleanup", "other"}, Worker!Stop(code)
      PROVE  client'.broker = client.broker
  BY <1>1, <1>2, <1>3 DEF Worker!Stop
<1>4. CASE Worker!Start \/ Worker!Dispatch \/ Worker!Abort
  <2>1. CASE Worker!Start
    BY <2>1 DEF Worker!Start, Worker!Clients
  <2>2. CASE Worker!Dispatch \/ Worker!Abort
    BY <2>2, SendKeeps DEF Worker!Dispatch, Worker!Abort, Worker!Commands
  <2> QED BY <1>4, <2>1, <2>2
<1>5. CASE Worker!Dispose
  <2>1. CASE client.closed = "none"
    BY <1>5, <2>1 DEF Worker!Dispose, Worker!Clients
  <2>2. CASE client.closed # "none"
    <3> DEFINE start == IF client.state = "STARTING" /\ client.start = "launched"
                        THEN "cleaning" ELSE client.start
               c == [client EXCEPT !.closing = TRUE, !.state = "DRAINING", !.start = start]
    <3>1. client' = client \/ client' = Worker!InputClosed(c)
      BY <1>5, <2>2 DEF Worker!Dispose
    <3>2. start \in {"none", "preparing", "launched", "cleaning", "resolved", "rejected"}
      BY DEF Worker!Clients
    <3> HIDE DEF start
    <3>3. c \in Worker!Clients /\ c.broker = client.broker
      BY <3>2 DEF Worker!Clients
    <3> HIDE DEF c
    <3> QED BY <3>1, <3>3, InputKeeps
  <2> QED BY <2>1, <2>2
<1>6. CASE Worker!PreparationFails \/ Worker!PreparationEnds
  <2>1. PICK c \in Worker!Clients, code \in {"state", "cleanup", "other"},
             spawned \in BOOLEAN :
          /\ c.broker = client.broker
          /\ \/ client' = [Worker!Stopped(c, code, spawned) EXCEPT !.start = "cleaning"]
             \/ client' = [client EXCEPT !.start = "launched", !.closed = "pending"]
    <3>1. CASE Worker!PreparationFails
      BY <1>2, <3>1 DEF Worker!PreparationFails
    <3>2. CASE Worker!PreparationEnds
      <4> DEFINE c == [client EXCEPT !.closed = "pending"]
      <4>1. c \in Worker!Clients /\ c.broker = client.broker
        BY DEF Worker!Clients
      <4>2. \/ client' = [Worker!Stopped(client, "state", FALSE) EXCEPT !.start = "cleaning"]
            \/ client' = [Worker!Stopped(c, "other", FALSE) EXCEPT !.start = "cleaning"]
            \/ client' = [client EXCEPT !.start = "launched", !.closed = "pending"]
        BY <3>2 DEF Worker!PreparationEnds
      <4> HIDE DEF c
      <4> QED BY <4>1, <4>2
    <3> QED BY <1>6, <3>1, <3>2
  <2>2. PICK s : s = Worker!Stopped(c, code, spawned)
    OBVIOUS
  <2>3. s \in Worker!Clients /\ s.broker = client.broker
    <3>1. \A b \in BOOLEAN : /\ Worker!Stopped(c, code, b) \in Worker!Clients
                             /\ Worker!Stopped(c, code, b).broker = c.broker
      BY <1>1
    <3> QED BY <2>1, <2>2, <3>1
  <2>4. \/ client' = [s EXCEPT !.start = "cleaning"]
        \/ client' = [client EXCEPT !.start = "launched", !.closed = "pending"]
    BY <2>1, <2>2, Zenon
  <2>5. CASE client' = [s EXCEPT !.start = "cleaning"]
    BY <2>3, <2>5 DEF Worker!Clients
  <2>6. CASE client' = [client EXCEPT !.start = "launched", !.closed = "pending"]
    BY <2>6 DEF Worker!Clients
  <2> QED BY <2>4, <2>5, <2>6
<1>7. CASE Worker!StartRejects \/ Worker!UnspawnedCloses
  BY <1>7 DEF Worker!StartRejects, Worker!UnspawnedCloses, Worker!Clients
<1>8. CASE Worker!HandshakeCompletes
  <2>1. CASE Worker!Stop("other")
    BY <1>3, <2>1
  <2>2. CASE ~Worker!Stop("other")
    BY <1>8, <2>2 DEF Worker!HandshakeCompletes, Worker!Stop, Worker!Clients
  <2> QED BY <2>1, <2>2
<1>9. CASE Worker!CloseEvent
  <2>1. PICK c :
        /\ c = client \/ c = Worker!Stopped(client, "other", TRUE)
        /\ client' = [c EXCEPT !.closeObserved = TRUE, !.killing = "none",
                               !.state = IF c.failure = "none" THEN "STOPPED" ELSE "FAILED"]
    BY <1>9 DEF Worker!CloseEvent
  <2>2. c \in Worker!Clients /\ c.broker = client.broker
    <3>1. \A b \in BOOLEAN : /\ Worker!Stopped(client, "other", b) \in Worker!Clients
                             /\ Worker!Stopped(client, "other", b).broker = client.broker
      BY <1>1
    <3> QED BY <2>1, <3>1
  <2> QED BY <2>1, <2>2 DEF Worker!Clients
<1>10. CASE Worker!RemoveDirectory \/ Worker!Kill \/ Worker!GiveUp
  BY <1>10 DEF Worker!RemoveDirectory, Worker!Kill, Worker!GiveUp, Worker!Clients
<1>11. CASE Worker!WorkerFails
  BY <1>3, <1>11 DEF Worker!WorkerFails
<1>12. CASE Worker!HelloArrives \/ Worker!AgentSettles \/ Worker!ShutdownArrives
  <2>1. CASE \E code \in {"state", "cleanup", "other"} : Worker!Stop(code)
    BY <1>3, <2>1
  <2>2. CASE ~\E code \in {"state", "cleanup", "other"} : Worker!Stop(code)
    BY <1>12, <2>2 DEF Worker!HelloArrives, Worker!AgentSettles, Worker!ShutdownArrives,
       Worker!AcceptIf, Worker!Clients
  <2> QED BY <2>1, <2>2
<1>13. CASE \E c \in Worker!Commands : Worker!ResponseArrives(c)
  BY <1>13 DEF Worker!ResponseArrives, Worker!Clients
<1>14. CASE \/ Worker!StartReturns \/ Worker!DispatchReturns \/ Worker!ObserveSettled
            \/ Worker!ObserveFailure \/ Worker!DisposeReturns
            \/ Worker!ProcessExits \/ Worker!PipesEnd
  BY <1>14 DEF Worker!StartReturns, Worker!DispatchReturns, Worker!ObserveSettled,
     Worker!ObserveFailure, Worker!DisposeReturns, Worker!ProcessExits, Worker!PipesEnd
<1> QED BY <1>4, <1>5, <1>6, <1>7, <1>8, <1>9, <1>10, <1>11, <1>12, <1>13, <1>14
        DEF Worker!Calls, Worker!Continuations, Worker!Timers

\* The worker's own instance of FiniteSets counts as this module's does.
LEMMA CountsAgree == \A S : Worker!Cardinality(S) = Cardinality(S)
  BY DEF Worker!Cardinality, Cardinality

LEMMA RoomKept == Types /\ Room /\ Worker!Next => Room'
<1> SUFFICES ASSUME Types, Room, Worker!Next PROVE Room'
  OBVIOUS
<1> DEFINE out == Worker!Outstanding(client)
<1>0. Cardinality(out) \in Nat /\ IsFiniteSet(out) /\ Cardinality(out) <= MaxBroker
  BY FS_CardinalityType DEF Room
<1>1. CASE client'.broker = client.broker
  BY <1>0, <1>1 DEF Room, Worker!Outstanding
<1>2. ASSUME NEW b \in BrokerIds, Worker!BrokerRequestArrives(b)
      PROVE  Room'
  <2>1. CASE \E code \in {"state", "cleanup", "other"} : Worker!Stop(code)
    <3>1. PICK code \in {"state", "cleanup", "other"}, spawned \in BOOLEAN :
            client' = Worker!Stopped(client, code, spawned)
      BY <2>1 DEF Worker!Stop, Worker!Spawned
    <3>2. \A t \in BOOLEAN : Kept(client, Worker!Stopped(client, code, t), t)
      BY StopKeeps DEF Types
    <3>3. Kept(client, client', spawned)
      BY <3>1, <3>2
    <3> QED BY <1>1, <3>3 DEF Kept
  <2>2. CASE /\ Cardinality(out) < MaxBroker
             /\ client' = [client EXCEPT !.broker[b] = "handling"]
    <3>1. Worker!Outstanding(client') = out \cup {b}
      BY <2>2 DEF Types, Worker!Clients, Worker!Outstanding
    <3>2. b \notin out
      BY <1>2 DEF Worker!BrokerRequestArrives, Worker!Outstanding
    <3>3. IsFiniteSet(out \cup {b}) /\ Cardinality(out \cup {b}) = Cardinality(out) + 1
      BY <1>0, <3>2, FS_AddElement
    <3>4. Cardinality(out) < MaxBroker
      BY <2>2
    <3> HIDE DEF out
    <3>5. Cardinality(out) + 1 <= MaxBroker
      BY <1>0, <3>4, WorkerAssumption
    <3> QED BY <3>1, <3>3, <3>5 DEF Room
  <2>3. PICK code : code = IF client.closing THEN "state" ELSE "other"
    OBVIOUS
  <2>4. \/ Worker!Stop(code)
        \/ Cardinality(out) < MaxBroker /\ client' = [client EXCEPT !.broker[b] = "handling"]
    BY <1>2, <2>3, CountsAgree DEF Worker!BrokerRequestArrives, Worker!AcceptIf
  <2> QED BY <2>1, <2>2, <2>3, <2>4
<1>3. ASSUME NEW b \in BrokerIds, Worker!BrokerAnswers(b) \/ Worker!ResponseSeen(b)
      PROVE  Room'
  <2>1. Worker!Outstanding(client') \subseteq out
    <3>1. CASE Worker!BrokerAnswers(b)
      BY <3>1 DEF Types, Worker!Clients, Worker!Outstanding, Worker!BrokerAnswers
    <3>2. CASE Worker!ResponseSeen(b)
      <4>1. PICK c : /\ c = [client EXCEPT !.broker[b] = "seen"]
                     /\ client' = Worker!InputClosed(c)
        BY <3>2 DEF Worker!ResponseSeen
      <4>2. c \in Worker!Clients /\ Worker!Outstanding(c) \subseteq out
        BY <4>1 DEF Types, Worker!Clients, Worker!Outstanding
      <4>3. client'.broker = c.broker
        BY <4>1, <4>2, InputKeeps
      <4> QED BY <4>2, <4>3 DEF Worker!Outstanding
    <3> QED BY <1>3, <3>1, <3>2
  <2>2. /\ IsFiniteSet(Worker!Outstanding(client'))
        /\ Cardinality(Worker!Outstanding(client')) <= Cardinality(out)
    BY <1>0, <2>1, FS_Subset
  <2>3. Cardinality(Worker!Outstanding(client')) \in Nat
    BY <2>2, FS_CardinalityType
  <2> HIDE DEF out
  <2> QED BY <1>0, <2>2, <2>3, WorkerAssumption DEF Room
<1> QED BY <1>1, <1>2, <1>3, OthersLeaveTheBroker DEF Worker!Next, Worker!Arrivals
-----------------------------------------------------------------------------
(* The invariant, and what it says of the runs' properties.                *)

LEMMA Initially == MCInit => WorkerInductive
<1> SUFFICES ASSUME MCInit PROVE WorkerInductive
  OBVIOUS
<1> USE DEF MCInit, Worker!Init
<1>1. Types
  BY DEF Types, Worker!Supervisors, Worker!Clients, Worker!Processes, Worker!Commands
<1>2. Room
  <2>1. Worker!Outstanding(client) = {}
    <3>1. client.broker = [b \in BrokerIds |-> "unused"]
      OBVIOUS
    <3> HIDE DEF MCInit, Worker!Init
    <3> QED BY <3>1 DEF Worker!Outstanding
  <2>2. IsFiniteSet({}) /\ Cardinality({}) = 0
    BY FS_EmptySet
  <2> HIDE DEF MCInit, Worker!Init
  <2> QED BY <2>1, <2>2, WorkerAssumption DEF Room
<1>3. Spawning /\ Closing /\ EvidenceIsPhysical
  BY DEF Spawning, Closing, EvidenceIsPhysical, Worker!EvidenceIsPhysical
<1> QED BY <1>1, <1>2, <1>3 DEF WorkerInductive

LEMMA StepKeeps ==
  WorkerInductive /\ [MCNext]_<<component, vars, worker>> => WorkerInductive'
<1> SUFFICES ASSUME WorkerInductive, [MCNext]_<<component, vars, worker>>
             PROVE  WorkerInductive'
  OBVIOUS
<1>1. CASE Worker!Next
  BY <1>1, WorkerStepSafe, RoomKept DEF WorkerInductive, Safe
<1>2. CASE UNCHANGED worker
  BY <1>2 DEF worker, WorkerInductive, Types, Room, Spawning, Closing, EvidenceIsPhysical,
     Worker!EvidenceIsPhysical
<1> QED BY <1>1, <1>2 DEF MCNext

\* In every state of every behaviour a client is started once, its close is observed of a
\* process that has exited, and a disposal that came first keeps it from spawning
\* (ControlledWorkerClient.start, close and #closed).
THEOREM WorkerInvariance == MCSpec => []WorkerInductive
  BY Initially, StepKeeps, PTL DEF MCSpec

\* The variables keep their types, and brokerPending its limit (controlled-worker-client.ts).
THEOREM WorkerTypes == MCSpec => []Worker!TypeOK
<1>1. WorkerInductive => Worker!TypeOK
  BY CountsAgree DEF WorkerInductive, Types, Room, Worker!TypeOK
<1> QED BY <1>1, WorkerInvariance, PTL

\* Whatever races with it, evidence of a close is of a process that has exited and whose
\* directory is gone, and evidence that nothing was spawned is of a client that will not
\* spawn (ControlledWorkerClient's close evidence).
THEOREM EvidenceHolds == MCSpec => []EvidenceIsPhysical
<1>1. WorkerInductive => EvidenceIsPhysical
  BY DEF WorkerInductive
<1> QED BY <1>1, WorkerInvariance, PTL
-----------------------------------------------------------------------------
(* The worker is in custody as WorkerCustody tells.                        *)

\* Most steps are none of their owner's business.
LEMMA OthersStutter ==
  ASSUME Types,
         \/ Worker!Start \/ Worker!StartReturns \/ Worker!Dispatch \/ Worker!DispatchReturns
         \/ Worker!ObserveSettled \/ Worker!ObserveFailure \/ Worker!Abort
         \/ Worker!PreparationFails \/ Worker!StartRejects \/ Worker!UnspawnedCloses
         \/ Worker!HandshakeCompletes \/ Worker!CloseEvent \/ Worker!RemoveDirectory
         \/ Worker!WorkerFails \/ Worker!Kill \/ Worker!GiveUp
         \/ Worker!HelloArrives \/ Worker!AgentSettles \/ Worker!ShutdownArrives
         \/ Worker!PipesEnd
         \/ \E c \in Worker!Commands : Worker!ResponseArrives(c)
         \/ \E b \in BrokerIds : \/ Worker!BrokerRequestArrives(b) \/ Worker!BrokerAnswers(b)
                                 \/ Worker!ResponseSeen(b)
  PROVE  UNCHANGED Worker!Custody!custody
<1>1. CASE UNCHANGED <<supervisor, process>>
  BY <1>1 DEF Worker!Custody!custody
<1>2. CASE \/ Worker!Start \/ Worker!StartReturns \/ Worker!Dispatch
           \/ Worker!DispatchReturns \/ Worker!ObserveSettled \/ Worker!ObserveFailure
           \/ Worker!Abort
  BY <1>2 DEF Types, Worker!Supervisors, Worker!Custody!custody, Worker!Start,
     Worker!StartReturns, Worker!Dispatch, Worker!DispatchReturns, Worker!ObserveSettled,
     Worker!ObserveFailure, Worker!Abort
<1>3. CASE Worker!GiveUp \/ Worker!PipesEnd
  BY <1>3 DEF Types, Worker!Processes, Worker!Custody!custody, Worker!GiveUp, Worker!PipesEnd
<1> QED BY <1>1, <1>2, <1>3
        DEF Worker!PreparationFails, Worker!StartRejects, Worker!UnspawnedCloses,
            Worker!HandshakeCompletes, Worker!CloseEvent, Worker!RemoveDirectory,
            Worker!WorkerFails, Worker!Kill, Worker!HelloArrives, Worker!AgentSettles,
            Worker!ShutdownArrives, Worker!ResponseArrives, Worker!BrokerRequestArrives,
            Worker!BrokerAnswers, Worker!ResponseSeen, Worker!Receive

LEMMA PreparationSpawnsOnce ==
  WorkerInductive /\ Worker!PreparationEnds => [Worker!Custody!Next]_Worker!Custody!custody
<1> SUFFICES ASSUME WorkerInductive, Worker!PreparationEnds
             PROVE  [Worker!Custody!Next]_Worker!Custody!custody
  OBVIOUS
<1>1. CASE UNCHANGED process
  BY <1>1 DEF Worker!PreparationEnds, Worker!Custody!custody
<1>2. CASE ~client.closing /\ process' = [process EXCEPT !.life = "running"]
  <2>1. process.life = "none" /\ ~supervisor.closed /\ UNCHANGED supervisor
    BY <1>2 DEF WorkerInductive, Spawning, Closing, Worker!PreparationEnds
  <2>2. process'.life = "running"
    BY <1>2 DEF WorkerInductive, Types, Worker!Processes
  <2> QED BY <2>1, <2>2 DEF Worker!Custody!Next, Worker!Custody!Spawn
<1> QED BY <1>1, <1>2 DEF Worker!PreparationEnds

LEMMA DisposalIsAnswered ==
  WorkerInductive /\ Worker!DisposeReturns => Worker!Custody!Answer
<1> SUFFICES ASSUME WorkerInductive, Worker!DisposeReturns
             PROVE  Worker!Custody!Answer
  OBVIOUS
<1>1. /\ supervisor.closed /\ supervisor.answer = "none" /\ supervisor'.closed
      /\ supervisor'.answer \in {"evidence", "error"} /\ UNCHANGED process
  BY DEF WorkerInductive, Types, Worker!Supervisors, Worker!DisposeReturns
<1>2. supervisor'.answer = "evidence" =>
        client.closed = "resolved" \/ client.unspawned = "resolved"
  BY DEF WorkerInductive, Types, Worker!Supervisors, Worker!DisposeReturns
<1>3. supervisor'.answer = "evidence" => process.life # "running"
  BY <1>2 DEF WorkerInductive, EvidenceIsPhysical, Worker!EvidenceIsPhysical
<1> QED BY <1>1, <1>3 DEF Worker!Custody!Answer

LEMMA CustodyStep ==
  WorkerInductive /\ [MCNext]_<<component, vars, worker>>
    => [Worker!Custody!Next]_Worker!Custody!custody
<1> SUFFICES ASSUME WorkerInductive, [MCNext]_<<component, vars, worker>>
             PROVE  [Worker!Custody!Next]_Worker!Custody!custody
  OBVIOUS
<1>1. Types
  BY DEF WorkerInductive
<1>2. CASE Worker!ProcessExits
  <2>1. /\ process.life = "running" /\ process'.life = "exited"
        /\ UNCHANGED supervisor
    BY <1>1, <1>2 DEF Types, Worker!Processes, Worker!ProcessExits
  <2> QED BY <2>1 DEF Worker!Custody!Next, Worker!Custody!Exit
<1>3. CASE Worker!Dispose
  <2>1. /\ ~supervisor.closed /\ supervisor'.closed = TRUE
        /\ supervisor'.answer = supervisor.answer /\ UNCHANGED process
    BY <1>1, <1>3 DEF Types, Worker!Supervisors, Worker!Dispose
  <2> QED BY <2>1 DEF Worker!Custody!Next, Worker!Custody!Ask
<1>4. CASE Worker!DisposeReturns
  BY <1>4, DisposalIsAnswered DEF Worker!Custody!Next
<1>5. CASE Worker!PreparationEnds
  BY <1>5, PreparationSpawnsOnce
<1>6. CASE UNCHANGED worker
  BY <1>6 DEF worker, Worker!Custody!custody
<1> QED BY <1>1, <1>2, <1>3, <1>4, <1>5, <1>6, OthersStutter
        DEF MCNext, Worker!Next, Worker!Calls, Worker!Continuations, Worker!Timers,
            Worker!Arrivals

\* The client, its process and its supervisor implement WorkerCustody: at most one spawn,
\* none after a disposal was asked for, and evidence only of a process that does not run
\* (ControlledWorkerSupervisor.dispose).
THEOREM CustodyImplemented == MCSpec => WorkerCustodyKept
<1>1. MCInit => Worker!Custody!Init
  BY DEF MCInit, Worker!Init, Worker!Custody!Init
<1> QED BY <1>1, CustodyStep, WorkerInvariance, PTL
        DEF MCSpec, WorkerCustodyKept, Worker!CustodyKept, Worker!Custody!Spec
=============================================================================
