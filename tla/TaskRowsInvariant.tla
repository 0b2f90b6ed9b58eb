-------------------------- MODULE TaskRowsInvariant --------------------------
(***************************************************************************)
(* TaskRows for every set of tasks and consumers and every bound: the      *)
(* invariant behind RowsValid, and what no step on the executions, the     *)
(* session or the outbox undoes.                                           *)
(*                                                                         *)
(* The argument.  An operation appends to the tables and changes none of   *)
(* the columns that validateRows reads (Grows), so every row that was      *)
(* valid is found valid again (the lemmas ...Stay and ...Grow), and only   *)
(* the new rows are left to look at.  What a new row needs of the tables,  *)
(* RowsInv keeps beside RowsValid: the versions of a task are of the       *)
(* attempts and owners so far (VersionsKept), an open execution is of the  *)
(* owner of its task (RunsKept), a receipt and its input stand at the same *)
(* place (ReceiptsKept), every version was announced (OutboxKept), and     *)
(* what an event or a request names is there (MessagesKept).  Which        *)
(* authority an event was published under is a question about the session  *)
(* at its cursor: a later revision has a later cursor or epoch, so the     *)
(* answer stays.                                                           *)
(*                                                                         *)
(* StoreProofs has the commands, which write several versions at once.     *)
(***************************************************************************)
EXTENDS TaskRows, FiniteSetTheorems, TLAPS

-----------------------------------------------------------------------------
(* The inductive invariant.                                                *)

TaskStates == Terminal \cup
  {"CREATED", "READY", "RUNNING", "VERIFYING", "WAITING_INPUT", "PAUSED", "CANCELLING"}
CommandKinds ==
  {"task.create", "task.cancel", "task.pause", "task.continue", "task.retry", "task.revise-request",
   "task.respond", "task.runtime", "task.verify"}
Outcomes == {"none", "verified", "unverifiable"}
Reasons == {"created", "owner-fenced", "reauthorized", "recovery-fenced"}
RunStates == {"ALLOCATED", "READY", "BUSY", "DRAINING", "STOPPED"}
EventTypes ==
  VersionTypes \cup {"task.input_committed", "task.execution_closed", "task.progress"}
About == TaskStates \cup {"none", "working", "run", "event", "decision", "result"}
Facts == About \X Nat \X Nat
VersionRows ==
  [state : TaskStates, pausing : BOOLEAN, attempt : Nat, intent : Nat, outcome : Outcomes,
   epoch : Nat, recovery : Nat, facts : SUBSET Facts]
SessionRows ==
  [reason : Reasons, owner : Nat, epoch : Nat, authorized : BOOLEAN, recovery : Nat, cursor : Nat]
ReceiptRows ==
  [task : Names \cup {Session}, kind : CommandKinds \cup {"session.create", "task.runtime-input"}, revision : Nat,
   input : Nat, cursor : Nat, event : Nat]
InputRows ==
  [task : Names, attempt : AttemptNumbers, intent : Nat, revision : Nat, kind : {"user", "internal", "runtime"}, epoch : Nat,
   ordinal : Nat]
OutboxRows ==
  [type : SessionEvents \cup EventTypes, of : Names \cup {Session}, revision : Nat, about : Facts, epoch : Nat,
   recovery : Nat, publish : {"pending", "published", "quarantined"}]
RunRows ==
  [state : RunStates, dispatched : BOOLEAN, closed : BOOLEAN, input : Nat, epoch : Nat, recovery : Nat,
   written : Nat, at : Nat]
EventRows ==
  [task : Names, attempt : AttemptNumbers, revision : Nat, epoch : Nat, recovery : Nat, run : Nat,
   cursor : Nat, ack : Nat]
RequestRows ==
  [task : Names, attempt : AttemptNumbers, revision : Nat, epoch : Nat, run : Nat]
Rounds == [state : TaskStates, intent : Nat, active : BOOLEAN]
\* What every table relies on: the bound on attempts is a number, the session is no task.
Bounds == MaxAttemptRows \in Nat /\ Session \notin Names
TypeOK ==
  /\ Bounds
  /\ recovery \in Nat /\ sessions \in Seq(SessionRows)
  /\ versions \in [Names -> Seq(VersionRows)] /\ attempts \in [Names -> Seq(Rounds)]
  /\ receipts \in Seq(ReceiptRows) /\ inputs \in Seq(InputRows) /\ outbox \in Seq(OutboxRows)
  /\ runs \in [Names -> [AttemptNumbers -> Seq(RunRows)]]
  /\ events \in Seq(EventRows) /\ requests \in Seq(RequestRows)
  /\ consumers \in [Consumers -> Nat]

\* Before the session there is nothing.
Opened == sessions = <<>> =>
  /\ receipts = <<>> /\ inputs = <<>> /\ outbox = <<>>
  /\ \A t \in Names : versions[t] = <<>>
\* No version is of an owner to come, and the last of a task is never a first one.
Halted == Terminal \cup {"PAUSED", "CANCELLING"}
VersionsKept == \A t \in Names :
  /\ Exists(t) => Current(t).state # "CREATED" /\ Attempt(t) \in AttemptNumbers
  /\ \A i \in DOMAIN versions[t] :
       /\ versions[t][i].epoch <= Owner.epoch
       /\ versions[t][i].attempt \in 1..Attempt(t)
       /\ \A j \in 1..i : versions[t][j].attempt <= versions[t][i].attempt
       /\ versions[t][i].attempt = Attempt(t) /\ versions[t][i].state \in Halted =>
            Current(t).state \in Halted
       /\ \A f \in versions[t][i].facts : f[1] = "run" =>
            f[2] \in AttemptNumbers /\ f[3] \in DOMAIN runs[t][f[2]]
\* An execution is of a begun attempt, and of the present owner of the task while it is open.
RunsKept == \A t \in Names : \A k \in AttemptNumbers :
  /\ runs[t][k] # <<>> => k <= Attempt(t)
  /\ \A i \in DOMAIN runs[t][k] :
       LET run == runs[t][k][i] IN
       /\ run.at \in DOMAIN versions[t] /\ run.input \in DOMAIN inputs
       /\ run.closed = (run.state = "STOPPED")
       /\ run.state \in {"ALLOCATED", "READY"} => ~run.dispatched
       /\ run.state \in {"BUSY", "DRAINING"} => run.dispatched
  /\ IsOpen(t, k) /\ k = Attempt(t) => Current(t).epoch = Run(t, k).epoch
\* A receipt is the session's, the input's or a command's, and a command's ends later than
\* those before it.  An input and its receipt are written together.
ReceiptsKept ==
  /\ \A j \in DOMAIN receipts :
       /\ (receipts[j].task = Session) = (j = 1)
       /\ (receipts[j].kind = "session.create") = (j = 1)
       /\ j > 1 => receipts[j].revision \in DOMAIN versions[receipts[j].task]
       /\ receipts[j].event <= Len(events)
       /\ \A i \in 1..(j - 1) :
            /\ receipts[i].cursor < receipts[j].cursor
            /\ receipts[i].task = receipts[j].task /\ j \in Commands(receipts[j].task) =>
                 receipts[i].revision < receipts[j].revision
  /\ sessions # <<>> => Len(receipts) = Len(inputs) + 1
  /\ \A i \in DOMAIN inputs : Match(i, i + 1) /\ inputs[i].ordinal \in 1..i
\* Every event is about what its type says, and a task's versions were all announced.
OutboxKept ==
  /\ \A c \in DOMAIN outbox :
       /\ (outbox[c].of = Session) = (outbox[c].type \in SessionEvents)
       /\ outbox[c].type \in SessionEvents \cup EventTypes
  /\ \A t \in Names : HeadAt(t, Len(outbox)) = Len(versions[t])
  /\ \A c \in Consumers : consumers[c] <= Len(outbox)
\* What an event or a request names is there.
MessagesKept ==
  /\ \A e \in DOMAIN events :
       /\ events[e].revision \in DOMAIN versions[events[e].task]
       /\ events[e].run \in DOMAIN runs[events[e].task][events[e].attempt]
  /\ \A e \in DOMAIN requests :
       /\ requests[e].revision \in DOMAIN versions[requests[e].task]
       /\ requests[e].run \in DOMAIN runs[requests[e].task][requests[e].attempt]
RowsInv ==
  /\ TypeOK /\ RowsValid
  /\ Opened /\ VersionsKept /\ RunsKept /\ ReceiptsKept /\ OutboxKept /\ MessagesKept

-----------------------------------------------------------------------------
(* Maxima and sequences.                                                   *)

LEMMA MaxIs ==
  ASSUME NEW S, S \subseteq Int, NEW m \in S, \A n \in S : n <= m
  PROVE  MaxOf(S) = m
<1>1. \A x \in S : (\A n \in S : n <= x) => x = m
  OBVIOUS
<1> QED BY <1>1 DEF MaxOf

\* Every nonempty set of numbers has a least one, because smaller numbers have fewer below them.
LEMMA LeastNatural ==
  ASSUME NEW T, T \subseteq Nat, T # {}
  PROVE  \E n \in T : \A m \in T : n <= m
<1> DEFINE U == {0..(n - 1) : n \in T}
<1>1. U \subseteq FiniteSubsetsOf(Nat) /\ U # {}
  <2>1. ASSUME NEW n \in T PROVE 0..(n - 1) \in SUBSET Nat /\ IsFiniteSet(0..(n - 1))
    <3>1. n - 1 \in Int /\ 0 \in Int
      OBVIOUS
    <3> QED BY <3>1, FS_Interval
  <2> QED BY <2>1 DEF FiniteSubsetsOf
<1>2. PICK x \in U : \A y \in U : ~(<<y, x>> \in StrictSubsetOrdering(Nat))
  <2> HIDE DEF U
  <2> QED BY <1>1, FS_StrictSubsetOrderingWellFounded, WFMin
<1>3. PICK n \in T : x = 0..(n - 1)
  OBVIOUS
<1>4. ASSUME NEW m \in T, m < n PROVE FALSE
  <2>1. 0..(m - 1) \in U
    OBVIOUS
  <2>2. 0..(m - 1) \in SUBSET Nat /\ x \in SUBSET Nat /\ 0..(m - 1) \subseteq x
    BY <1>3, <1>4
  <2>3. m \in x /\ m \notin 0..(m - 1)
    BY <1>3, <1>4
  <2>4. <<0..(m - 1), x>> \in StrictSubsetOrdering(Nat)
    BY <2>2, <2>3 DEF StrictSubsetOrdering
  <2> QED BY <1>2, <2>1, <2>4
<1> QED BY <1>4

\* The greatest of some numbers up to a bound is one of them.
LEMMA MaxExists ==
  ASSUME NEW n \in Nat, NEW S, S \subseteq 0..n, S # {}
  PROVE  MaxOf(S) \in S /\ \A m \in S : m <= MaxOf(S)
<1> DEFINE T == {n - m : m \in S}
<1>1. T \subseteq Nat /\ T # {}
  <2>1. ASSUME NEW m \in S PROVE n - m \in Nat
    OBVIOUS
  <2> QED BY <2>1
<1>2. PICK l \in T : \A k \in T : l <= k
  <2> HIDE DEF T
  <2> QED BY <1>1, LeastNatural
<1>3. PICK x \in S : l = n - x
  BY <1>2
<1>4. \A m \in S : m <= x
  <2> SUFFICES ASSUME NEW m \in S PROVE m <= x
    OBVIOUS
  <2>1. l <= n - m
    BY <1>2
  <2>2. m \in 0..n /\ x \in 0..n
    OBVIOUS
  <2> HIDE DEF T
  <2> QED BY <1>3, <2>1, <2>2
<1> QED BY <1>3, <1>4 DEF MaxOf

\* Sequences are equal when their elements are.
LEMMA SameSequence ==
  ASSUME NEW S, NEW p \in Seq(S), NEW q \in Seq(S), Len(p) = Len(q),
         \A i \in 1..Len(p) : p[i] = q[i]
  PROVE  p = q
  OBVIOUS

\* The elements of two sequences in one.
LEMMA Concatenated ==
  ASSUME NEW S, NEW p \in Seq(S), NEW q \in Seq(S), NEW all, all = p \o q
  PROVE  /\ all \in Seq(S) /\ Len(all) = Len(p) + Len(q)
         /\ \A i \in 1..Len(p) : all[i] = p[i]
         /\ \A i \in 1..Len(q) : all[Len(p) + i] = q[i]
  OBVIOUS

\* A function with one value replaced.
LEMMA Put ==
  ASSUME NEW S, NEW T, NEW f \in [S -> T], NEW x \in S, NEW y \in T, NEW g, g = [f EXCEPT ![x] = y]
  PROVE  g \in [S -> T] /\ g[x] = y /\ \A z \in S : z # x => g[z] = f[z]
  OBVIOUS

\* The elements of a sequence with one more.
LEMMA Appended ==
  ASSUME NEW S, NEW p \in Seq(S), NEW x \in S
  PROVE  /\ Append(p, x) \in Seq(S) /\ Len(Append(p, x)) = Len(p) + 1
         /\ \A i \in 1..Len(p) : Append(p, x)[i] = p[i]
         /\ Append(p, x)[Len(p) + 1] = x
         /\ DOMAIN Append(p, x) = 1..(Len(p) + 1) /\ DOMAIN p = 1..Len(p)
  OBVIOUS

-----------------------------------------------------------------------------
(* The tables are tables.                                                  *)

LEMMA Tables ==
  ASSUME TypeOK
  PROVE  /\ Len(sessions) \in Nat /\ DOMAIN sessions = 1..Len(sessions)
         /\ Len(receipts) \in Nat /\ DOMAIN receipts = 1..Len(receipts)
         /\ Len(inputs) \in Nat /\ DOMAIN inputs = 1..Len(inputs)
         /\ Len(outbox) \in Nat /\ DOMAIN outbox = 1..Len(outbox)
         /\ Len(events) \in Nat /\ DOMAIN events = 1..Len(events)
         /\ Len(requests) \in Nat /\ DOMAIN requests = 1..Len(requests)
         /\ \A i \in DOMAIN sessions : sessions[i] \in SessionRows
         /\ \A i \in DOMAIN receipts : receipts[i] \in ReceiptRows
         /\ \A i \in DOMAIN inputs : inputs[i] \in InputRows
         /\ \A i \in DOMAIN outbox : outbox[i] \in OutboxRows
         /\ \A i \in DOMAIN events : events[i] \in EventRows
         /\ \A i \in DOMAIN requests : requests[i] \in RequestRows
  BY DEF TypeOK

\* The rows of a task are typed, the last one its present version.
LEMMA TaskTables ==
  ASSUME TypeOK, NEW t \in Names
  PROVE  /\ versions[t] \in Seq(VersionRows) /\ attempts[t] \in Seq(Rounds)
         /\ Len(versions[t]) \in Nat /\ DOMAIN versions[t] = 1..Len(versions[t])
         /\ Len(attempts[t]) \in Nat /\ DOMAIN attempts[t] = 1..Len(attempts[t])
         /\ \A i \in DOMAIN versions[t] : versions[t][i] \in VersionRows
         /\ \A k \in DOMAIN attempts[t] : attempts[t][k] \in Rounds
         /\ Exists(t) => /\ Len(versions[t]) >= 1 /\ Current(t) = versions[t][Len(versions[t])]
                         /\ Current(t) \in VersionRows /\ Attempt(t) = Current(t).attempt
         /\ ~Exists(t) => Len(versions[t]) = 0 /\ Attempt(t) = 0
         /\ Attempt(t) \in Nat
<1>1. versions[t] \in Seq(VersionRows) /\ attempts[t] \in Seq(Rounds)
  BY DEF TypeOK
<1>2. CASE Exists(t)
  <2>1. Len(versions[t]) >= 1 /\ versions[t][Len(versions[t])] \in VersionRows
    BY <1>1, <1>2 DEF Exists
  <2>2. versions[t][Len(versions[t])].attempt \in Nat
    BY <2>1 DEF VersionRows
  <2> QED BY <1>1, <1>2, <2>1, <2>2 DEF Exists, Current, Attempt, Last
<1>3. CASE ~Exists(t)
  BY <1>1, <1>3 DEF Exists, Attempt
<1> QED BY <1>2, <1>3

\* The rows of an execution are typed, the last one its present snapshot.
LEMMA RunTables ==
  ASSUME TypeOK, NEW t \in Names, NEW k \in AttemptNumbers
  PROVE  /\ runs[t][k] \in Seq(RunRows) /\ Len(runs[t][k]) \in Nat
         /\ DOMAIN runs[t][k] = 1..Len(runs[t][k])
         /\ \A i \in DOMAIN runs[t][k] : runs[t][k][i] \in RunRows
         /\ HasRun(t, k) => /\ Len(runs[t][k]) >= 1 /\ Run(t, k) = runs[t][k][Len(runs[t][k])]
                            /\ Run(t, k) \in RunRows
         /\ HasRun(t, k) = (runs[t][k] # <<>>) /\ (HasRun(t, k) \/ Len(runs[t][k]) = 0)
<1>1. runs[t][k] \in Seq(RunRows)
  BY DEF TypeOK
<1>2. CASE HasRun(t, k)
  BY <1>1, <1>2 DEF HasRun, Run, Last
<1>3. CASE ~HasRun(t, k)
  BY <1>1, <1>3 DEF HasRun
<1> QED BY <1>2, <1>3

\* The present owner is the last revision of the session.
LEMMA OwnerIs ==
  ASSUME TypeOK, sessions # <<>>
  PROVE  /\ Len(sessions) >= 1 /\ Owner = sessions[Len(sessions)] /\ Owner \in SessionRows
         /\ Owner.epoch \in Nat /\ Owner.owner \in Nat /\ Owner.authorized \in BOOLEAN
<1>1. Len(sessions) >= 1 /\ Owner = sessions[Len(sessions)] /\ Owner \in SessionRows
  BY DEF TypeOK, Owner, Last
<1> QED BY <1>1 DEF SessionRows

-----------------------------------------------------------------------------
(* A command.                                                              *)

\* What a command that is done may commit, of a task and what the store holds of it.
StepOK(kind, before, after) ==
  MetadataStep(kind, before, after) /\ after.attempt \in {before.attempt, before.attempt + 1}
Started(t, span, p) ==
  /\ \A i \in 1..p : span[i].attempt = Attempt(t) /\ span[i].intent = Current(t).intent
  /\ \A i \in (p + 1)..Len(span) :
       /\ span[i].attempt = Attempt(t) + 1 /\ span[i].intent = span[p + 1].intent
       /\ span[i].state \notin Halted
  /\ p < Len(span) => span[p + 1].state = "CREATED"
  /\ p < Len(span) /\ p > 0 => span[p].state \in Terminal
  /\ p > 0 => Exists(t)
  /\ p = 0 /\ Exists(t) => Current(t).state \in Terminal
Renewing == {"task.create", "task.retry", "task.continue", "task.revise-request", "task.respond"}
Cited(t, k) == {i \in DOMAIN runs[t][k] : i = Len(runs[t][k])}
Legal(t, kind, span, facts, event) ==
  LET n == Len(span)  final == span[Len(span)]
      replaces == Exists(t) /\ ReplacesAttempt(t, span) IN
  /\ span \in Seq(VersionRows) /\ Len(span) \in 1..16 /\ facts \in SUBSET Facts
  /\ kind \in CommandKinds
  /\ (kind = "task.create") = ~Exists(t) /\ sessions # <<>>
  /\ [i \in 1..n |-> span[i].state] \in Spans(kind) /\ final.state # "CREATED"
  /\ \A i \in 1..n : OutcomeValid(span[i])
  /\ ~Exists(t) => span[1].intent = 1
  /\ Exists(t) => StepOK(kind, Current(t), span[1])
  /\ \A i \in 2..n : StepOK(kind, span[i - 1], span[i])
  /\ \E p \in 0..n : Started(t, span, p)
  /\ final.attempt # Attempt(t) => kind \in Renewing
  /\ kind \in {"task.retry", "task.revise-request"} => final.attempt # Attempt(t)
  /\ kind = "task.pause" => Current(t).state = "RUNNING"
  /\ kind = "task.respond" => Current(t).state = "WAITING_INPUT"
  /\ kind = "task.verify" => <<"result", 0, Len(versions[t])>> \in facts /\ n = 1
  /\ kind \in Internal /\ final.state = "WAITING_INPUT" =>
       Exists(t) /\ {f \in facts : f[1] = "decision"} = {<<"decision", 0, Len(versions[t])>>}
  /\ kind = "task.runtime" /\ final.state = "VERIFYING" =>
       event # 0 /\ {f \in facts : f[1] = "event"} = {<<"event", 0, event>>}
  /\ \A f \in facts : f[1] = "run" => kind = "task.runtime" /\ f = CurrentRun(t) /\ HasRun(t, Attempt(t))
  /\ kind = "task.runtime" /\ final.state = "RUNNING" =>
       /\ HasRun(t, Attempt(t)) /\ CurrentRun(t) \in facts
       /\ Run(t, Attempt(t)).state = "READY" /\ Run(t, Attempt(t)).epoch = Owner.epoch
  /\ kind = "task.runtime" /\ final.state \in {"CANCELLED", "PAUSED", "UNVERIFIABLE"} =>
       IsClosed(t, Attempt(t)) /\ CurrentRun(t) \in facts
  /\ kind \notin Internal /\ replaces => ~IsOpen(t, Attempt(t))
  /\ IsOpen(t, Attempt(t)) => Run(t, Attempt(t)).epoch = Owner.epoch
  /\ Exists(t) /\ final.attempt = Attempt(t) /\ Halted \cap ({Current(t).state} \cup {span[i].state : i \in 1..n}) # {}
       => final.state \in Halted
Commits(t, kind, span, facts, earlier, event) ==
  /\ Execute(t, kind, span, facts, earlier, event) /\ Legal(t, kind, span, facts, event)
  /\ UNCHANGED <<runs, requests>>
  /\ \/ event = 0 /\ earlier = <<>> /\ UNCHANGED events
     \/ /\ event = Len(events) + 1 /\ earlier = <<Progress(t)>> /\ kind = "task.runtime"
        /\ Working(t) /\ Current(t).state = "RUNNING" /\ span = States(Current(t), <<"VERIFYING">>)
        /\ events' = Append(events, EventRow(t, Len(outbox) + 2))

\* The rows that a commit writes.
Lead(t, kind, span, earlier) ==
  Len(outbox) + Len(earlier) + (IF Reauthorizes(t, kind, span) THEN 1 ELSE 0)
Holds(v, w, facts) ==
  /\ v.state = w.state /\ v.pausing = w.pausing /\ v.attempt = w.attempt /\ v.intent = w.intent
  /\ v.outcome = w.outcome /\ v.epoch = Owner.epoch /\ v.recovery = recovery /\ v.facts = facts

\* The fact a user's command keeps of a closed execution is a fact.
LEMMA FactsTyped ==
  ASSUME TypeOK, NEW t \in Names, NEW kind, NEW span
  PROVE  ClosedFact(t, kind, span) \in SUBSET Facts
<1>1. CASE IsClosed(t, Attempt(t))
  <2>1. Attempt(t) \in AttemptNumbers /\ Attempt(t) \in Nat
    BY <1>1, TaskTables DEF IsClosed, HasRun
  <2>2. Len(runs[t][Attempt(t)]) \in Nat
    BY <2>1, RunTables
  <2> QED BY <2>1, <2>2 DEF ClosedFact, Facts, About
<1>2. CASE ~IsClosed(t, Attempt(t))
  BY <1>2 DEF ClosedFact
<1> QED BY <1>1, <1>2

\* The columns executeTask adds to a version, and the ones it keeps.
LEMMA SpanRow ==
  ASSUME TypeOK, NEW w \in VersionRows, NEW all \in SUBSET Facts, sessions # <<>>
  PROVE  /\ [w EXCEPT !.epoch = Owner.epoch, !.recovery = recovery, !.facts = all] \in VersionRows
         /\ Holds([w EXCEPT !.epoch = Owner.epoch, !.recovery = recovery, !.facts = all], w, all)
<1>1. Owner.epoch \in Nat /\ recovery \in Nat
  BY OwnerIs DEF TypeOK
<1> QED BY <1>1 DEF VersionRows, Holds

\* executeTask appends the span to the versions of its task and leaves the other tasks.
LEMMA CommitVersions ==
  ASSUME TypeOK, NEW t \in Names, NEW kind, NEW span, NEW facts, NEW earlier, NEW event,
         Commits(t, kind, span, facts, earlier, event)
  PROVE  /\ versions' \in [Names -> Seq(VersionRows)]
         /\ Len(versions'[t]) = Len(versions[t]) + Len(span)
         /\ \A i \in 1..Len(versions[t]) : versions'[t][i] = versions[t][i]
         /\ \A i \in 1..Len(span) : Holds(versions'[t][Len(versions[t]) + i], span[i],
                                          facts \cup ClosedFact(t, kind, span))
         /\ \A u \in Names : u # t => versions'[u] = versions[u]
<1> DEFINE all == facts \cup ClosedFact(t, kind, span)
           Of(w) == [w EXCEPT !.epoch = Owner.epoch, !.recovery = recovery, !.facts = all]
           stored == [i \in DOMAIN span |-> Of(span[i])]
<1>1. span \in Seq(VersionRows) /\ facts \in SUBSET Facts /\ sessions # <<>>
  BY DEF Commits, Legal
<1>2. all \in SUBSET Facts
  BY <1>1, FactsTyped
<1>3. ASSUME NEW i \in 1..Len(span)
      PROVE  Of(span[i]) \in VersionRows /\ Holds(Of(span[i]), span[i], all)
  <2>1. span[i] \in VersionRows
    BY <1>1
  <2> QED BY <1>1, <1>2, <2>1, SpanRow
<1>4. versions' = [versions EXCEPT ![t] = @ \o stored]
  BY DEF Commits, Execute
<1>5. DOMAIN span = 1..Len(span) /\ Len(span) \in Nat
  BY <1>1
<1> HIDE DEF Of, all
<1>6. stored \in Seq(VersionRows) /\ Len(stored) = Len(span) /\ \A i \in 1..Len(span) : stored[i] = Of(span[i])
  BY <1>3, <1>5
<1> HIDE DEF stored
<1>7. versions[t] \in Seq(VersionRows) /\ t \in DOMAIN versions
  BY DEF TypeOK
<1>8. versions'[t] = versions[t] \o stored
  BY <1>4, <1>7
<1>9. \A u \in Names : u # t => versions'[u] = versions[u]
  BY <1>4 DEF TypeOK
<1>10. PICK old \in Seq(VersionRows) : old = versions[t]
  BY <1>7
<1>11. PICK new \in Seq(VersionRows) : new = stored
  BY <1>6
<1>12. PICK joined : joined = old \o new
  OBVIOUS
<1>13. joined \in Seq(VersionRows) /\ Len(joined) = Len(old) + Len(new)
       /\ (\A i \in 1..Len(old) : joined[i] = old[i])
       /\ (\A i \in 1..Len(new) : joined[Len(old) + i] = new[i])
  BY <1>12
<1>14. versions'[t] = joined
  BY <1>8, <1>10, <1>11, <1>12
<1>15. ASSUME NEW i \in 1..Len(span) PROVE Holds(joined[Len(old) + i], span[i], all)
  <2>1. joined[Len(old) + i] = new[i]
    BY <1>6, <1>11, <1>13
  <2>2. new[i] = Of(span[i])
    BY <1>6, <1>11
  <2> QED BY <1>3, <2>1, <2>2
<1>16. versions' \in [Names -> Seq(VersionRows)]
  <2>1. versions' = [versions EXCEPT ![t] = joined]
    BY <1>4, <1>7, <1>8, <1>14
  <2>2. versions \in [Names -> Seq(VersionRows)]
    BY DEF TypeOK
  <2> QED BY <1>13, <2>1, <2>2, Put
<1>17. Len(new) = Len(span)
  BY <1>6, <1>11
<1> QED BY <1>9, <1>10, <1>13, <1>14, <1>15, <1>16, <1>17 DEF all

\* An event of the owner is a row of the outbox.
LEMMA Typed ==
  ASSUME TypeOK, sessions # <<>>, NEW of \in Names \cup {Session}, NEW type \in SessionEvents \cup EventTypes,
         NEW revision \in Nat, NEW about \in Facts
  PROVE  /\ OutboxRow(type, of, revision, about) \in OutboxRows
         /\ OutboxRow(type, of, revision, about).type = type
         /\ OutboxRow(type, of, revision, about).of = of
         /\ OutboxRow(type, of, revision, about).revision = revision
         /\ OutboxRow(type, of, revision, about).about = about
         /\ OutboxRow(type, of, revision, about).epoch = Owner.epoch
         /\ OutboxRow(type, of, revision, about).recovery = recovery
         /\ OutboxRow(type, of, revision, about).publish = "pending"
<1>1. Owner.epoch \in Nat /\ recovery \in Nat
  BY OwnerIs DEF TypeOK
<1> QED BY <1>1 DEF OutboxRow, OutboxRows

VersionEvent(t, span, i) ==
  OutboxRow(IF Len(versions[t]) + i = 1 THEN "task.created" ELSE "task.state_changed", t,
            Len(versions[t]) + i, <<span[i].state, 0, 0>>)

\* executeTask's events: the progress, the new authority, then one for each version.
LEMMA CommitOutbox ==
  ASSUME TypeOK, NEW t \in Names, NEW kind, NEW span, NEW facts, NEW earlier, NEW event,
         Commits(t, kind, span, facts, earlier, event)
  PROVE  /\ outbox' \in Seq(OutboxRows) /\ Lead(t, kind, span, earlier) \in Nat
         /\ Len(outbox') = Lead(t, kind, span, earlier) + Len(span)
         /\ Lead(t, kind, span, earlier) >= Len(outbox) + Len(earlier)
         /\ (earlier = <<>> /\ Len(earlier) = 0) \/ (earlier = <<Progress(t)>> /\ Len(earlier) = 1)
         /\ \A c \in 1..Len(outbox) : outbox'[c] = outbox[c]
         /\ event # 0 => outbox'[Len(outbox) + 1] = Progress(t) /\ Len(earlier) = 1
         /\ event = 0 => Len(earlier) = 0
         /\ Reauthorizes(t, kind, span) => outbox'[Lead(t, kind, span, earlier)] = FencedEvent
         /\ \A i \in 1..Len(span) : outbox'[Lead(t, kind, span, earlier) + i] = VersionEvent(t, span, i)
<1> DEFINE reauthorized == IF Reauthorizes(t, kind, span) THEN <<FencedEvent>> ELSE <<>>
           announced == VersionEvents(t, span)
<1>1. span \in Seq(VersionRows) /\ sessions # <<>> /\ Len(span) \in 1..16
  BY DEF Commits, Legal
<1>2. (earlier = <<>> /\ event = 0) \/ (earlier = <<Progress(t)>> /\ event = Len(events) + 1)
  BY DEF Commits
<1>3. Len(versions[t]) \in Nat /\ Len(sessions) \in Nat /\ Len(outbox) \in Nat /\ outbox \in Seq(OutboxRows)
      /\ Len(events) \in Nat
  BY TaskTables, Tables DEF TypeOK
<1>4. Progress(t) \in OutboxRows
  <2>1. <<"working", 0, 0>> \in Facts
    BY DEF Facts, About
  <2> QED BY <1>1, <1>3, <2>1, Typed DEF Progress, EventTypes
<1>5. earlier \in Seq(OutboxRows) /\ (event # 0 => Len(earlier) = 1 /\ earlier[1] = Progress(t))
      /\ (event = 0 => Len(earlier) = 0)
      /\ ((earlier = <<>> /\ Len(earlier) = 0) \/ (earlier = <<Progress(t)>> /\ Len(earlier) = 1))
  <2>1. CASE earlier = <<>> /\ event = 0
    BY <2>1
  <2>2. CASE earlier = <<Progress(t)>> /\ event = Len(events) + 1
    BY <1>3, <1>4, <2>2
  <2> QED BY <1>2, <2>1, <2>2
<1>6. FencedEvent \in OutboxRows
  <2>1. Nothing \in Facts
    BY DEF Facts, Nothing, About
  <2>2. Session \in Names \cup {Session} /\ Len(sessions) + 1 \in Nat
        /\ "session.owner_fenced" \in SessionEvents \cup EventTypes
    BY <1>3 DEF SessionEvents
  <2> QED BY <1>1, <2>1, <2>2, Typed DEF FencedEvent
<1>7. /\ reauthorized \in Seq(OutboxRows)
      /\ Len(reauthorized) = IF Reauthorizes(t, kind, span) THEN 1 ELSE 0
      /\ Reauthorizes(t, kind, span) => reauthorized[1] = FencedEvent
  BY <1>6
<1>8. ASSUME NEW i \in 1..Len(span) PROVE VersionEvent(t, span, i) \in OutboxRows
  <2>3. span[i] \in VersionRows
    BY <1>1
  <2>1. span[i].state \in TaskStates
    BY <2>3 DEF VersionRows
  <2>2. <<span[i].state, 0, 0>> \in Facts
    BY <2>1 DEF Facts, About
  <2>4. Len(versions[t]) + i \in Nat /\ t \in Names \cup {Session}
        /\ (IF Len(versions[t]) + i = 1 THEN "task.created" ELSE "task.state_changed")
             \in SessionEvents \cup EventTypes
    BY <1>1, <1>3 DEF EventTypes, VersionTypes
  <2> QED BY <1>1, <2>2, <2>4, Typed DEF VersionEvent
<1>9. announced \in Seq(OutboxRows) /\ Len(announced) = Len(span)
      /\ \A i \in 1..Len(span) : announced[i] = VersionEvent(t, span, i)
  <2>1. announced = [i \in 1..Len(span) |-> VersionEvent(t, span, i)]
    BY <1>1 DEF VersionEvents, VersionEvent
  <2> QED BY <1>1, <1>8, <2>1
<1>10. outbox' = ((outbox \o earlier) \o reauthorized) \o announced
  BY DEF Commits, Execute, Published
<1> HIDE DEF reauthorized, announced
<1>11. PICK first : first = outbox \o earlier
  OBVIOUS
<1>12. PICK second : second = first \o reauthorized
  OBVIOUS
<1>13. first \in Seq(OutboxRows) /\ Len(first) = Len(outbox) + Len(earlier)
       /\ (\A c \in 1..Len(outbox) : first[c] = outbox[c])
       /\ (\A c \in 1..Len(earlier) : first[Len(outbox) + c] = earlier[c])
  BY <1>3, <1>5, <1>11, Concatenated
<1>14. second \in Seq(OutboxRows) /\ Len(second) = Len(first) + Len(reauthorized)
       /\ (\A c \in 1..Len(first) : second[c] = first[c])
       /\ (\A c \in 1..Len(reauthorized) : second[Len(first) + c] = reauthorized[c])
  <2>1. first \in Seq(OutboxRows) /\ reauthorized \in Seq(OutboxRows)
    BY <1>7, <1>13
  <2> QED BY <1>12, <2>1, Concatenated
<1>15. outbox' \in Seq(OutboxRows) /\ Len(outbox') = Len(second) + Len(announced)
       /\ (\A c \in 1..Len(second) : outbox'[c] = second[c])
       /\ (\A c \in 1..Len(announced) : outbox'[Len(second) + c] = announced[c])
  <2>1. PICK third : third = second \o announced
    OBVIOUS
  <2>2. outbox' = third
    BY <1>10, <1>11, <1>12, <2>1
  <2>3. announced \in Seq(OutboxRows)
    BY <1>9
  <2>4. third \in Seq(OutboxRows) /\ Len(third) = Len(second) + Len(announced)
        /\ (\A c \in 1..Len(second) : third[c] = second[c])
        /\ (\A c \in 1..Len(announced) : third[Len(second) + c] = announced[c])
    <3>1. second \in Seq(OutboxRows)
      BY <1>14
    <3> QED BY <2>1, <2>3, <3>1, Concatenated
  <2> QED BY <2>2, <2>4
<1>16. Len(earlier) \in Nat /\ Len(reauthorized) \in Nat
  BY <1>5, <1>7
<1>17. Len(second) = Lead(t, kind, span, earlier) /\ Lead(t, kind, span, earlier) \in Nat
       /\ Lead(t, kind, span, earlier) >= Len(outbox) + Len(earlier)
  BY <1>3, <1>7, <1>13, <1>14, <1>16 DEF Lead
<1>18. \A c \in 1..Len(outbox) : outbox'[c] = outbox[c]
  BY <1>3, <1>13, <1>14, <1>15, <1>16
<1>19. event # 0 => outbox'[Len(outbox) + 1] = Progress(t)
  <2> SUFFICES ASSUME event # 0 PROVE outbox'[Len(outbox) + 1] = Progress(t)
    OBVIOUS
  <2>1. first[Len(outbox) + 1] = Progress(t) /\ Len(outbox) + 1 \in 1..Len(first)
    <3>1. Len(earlier) = 1 /\ earlier[1] = Progress(t) /\ 1 \in 1..Len(earlier)
      BY <1>5
    <3> QED BY <1>3, <1>13, <3>1
  <2>2. Len(outbox) + 1 \in 1..Len(second)
    BY <1>3, <1>14, <1>16, <2>1
  <2> QED BY <1>14, <1>15, <2>1, <2>2
<1>20. Reauthorizes(t, kind, span) => outbox'[Lead(t, kind, span, earlier)] = FencedEvent
  <2> SUFFICES ASSUME Reauthorizes(t, kind, span) PROVE outbox'[Len(second)] = FencedEvent
    BY <1>17
  <2>1. Len(reauthorized) = 1 /\ second[Len(first) + 1] = FencedEvent /\ Len(second) = Len(first) + 1
    BY <1>7, <1>14
  <2>2. Len(second) \in 1..Len(second)
    BY <1>3, <1>13, <1>16, <2>1
  <2> QED BY <1>15, <2>1, <2>2
<1> QED BY <1>5, <1>9, <1>15, <1>17, <1>18, <1>19, <1>20

\* executeTask appends a revision to the session when it reauthorizes, and else none.
LEMMA CommitSessions ==
  ASSUME TypeOK, NEW t \in Names, NEW kind, NEW span, NEW facts, NEW earlier, NEW event,
         Commits(t, kind, span, facts, earlier, event)
  PROVE  /\ sessions' \in Seq(SessionRows) /\ sessions' # <<>>
         /\ \A i \in 1..Len(sessions) : sessions'[i] = sessions[i]
         /\ ~Reauthorizes(t, kind, span) => sessions' = sessions
         /\ Reauthorizes(t, kind, span) =>
              /\ Len(sessions') = Len(sessions) + 1
              /\ sessions'[Len(sessions) + 1].reason = "reauthorized"
              /\ sessions'[Len(sessions) + 1].owner = Owner.owner
              /\ sessions'[Len(sessions) + 1].epoch = Owner.epoch
              /\ sessions'[Len(sessions) + 1].authorized
              /\ sessions'[Len(sessions) + 1].recovery = recovery
              /\ sessions'[Len(sessions) + 1].cursor = Lead(t, kind, span, earlier)
              /\ ~Owner.authorized
         /\ Owner'.epoch = Owner.epoch
<1>1. sessions # <<>> /\ Authorize(t, kind, span, earlier)
  BY DEF Commits, Legal, Execute
<1>2. Lead(t, kind, span, earlier) \in Nat
  BY CommitOutbox
<1>3. Owner = sessions[Len(sessions)] /\ Owner \in SessionRows /\ Len(sessions) >= 1 /\ Len(sessions) \in Nat
      /\ sessions \in Seq(SessionRows) /\ recovery \in Nat
  BY <1>1, OwnerIs, Tables DEF TypeOK
<1>4. CASE Reauthorizes(t, kind, span)
  <2> DEFINE row == SessionRow("reauthorized", Owner.owner, Owner.epoch, TRUE, recovery,
                               Len(outbox) + Len(earlier) + 1)
  <2>1. sessions' = Append(sessions, row)
    BY <1>1, <1>4 DEF Authorize
  <2>2. Len(outbox) + Len(earlier) + 1 = Lead(t, kind, span, earlier)
    BY <1>4 DEF Lead
  <2>3. row \in SessionRows /\ row.reason = "reauthorized" /\ row.owner = Owner.owner
        /\ row.epoch = Owner.epoch /\ row.authorized /\ row.recovery = recovery
        /\ row.cursor = Lead(t, kind, span, earlier)
    BY <1>2, <1>3, <2>2 DEF SessionRow, SessionRows, Reasons
  <2> HIDE DEF row
  <2>4. sessions' \in Seq(SessionRows) /\ Len(sessions') = Len(sessions) + 1
        /\ sessions'[Len(sessions) + 1] = row /\ \A i \in 1..Len(sessions) : sessions'[i] = sessions[i]
    BY <1>3, <2>1, <2>3, Appended
  <2>5. sessions' # <<>> /\ Owner' = row
    BY <1>3, <2>4 DEF Owner, Last
  <2> QED BY <1>4, <2>3, <2>4, <2>5 DEF Reauthorizes
<1>5. CASE ~Reauthorizes(t, kind, span)
  <2>1. sessions' = sessions
    BY <1>1, <1>5 DEF Authorize
  <2> QED BY <1>1, <1>3, <1>5, <2>1 DEF Owner
<1> QED BY <1>4, <1>5

\* The highest ordinal of an attempt's inputs, 0 when it has none.
Highest(t, k, m) ==
  /\ m \in 0..Len(inputs) /\ \A i \in InputsAt(t, k) : inputs[i].ordinal <= m
  /\ m > 0 => \E i \in InputsAt(t, k) : inputs[i].ordinal = m

\* The ordinal of the last input of an attempt is one of its ordinals.
LEMMA NextOrdinal ==
  ASSUME TypeOK, ReceiptsKept, NEW t \in Names, NEW k,
         NEW m, m = MaxOf({0} \cup {inputs[i].ordinal : i \in InputsAt(t, k)})
  PROVE  Highest(t, k, m)
<1> DEFINE S == {0} \cup {inputs[i].ordinal : i \in InputsAt(t, k)}
<1>1. Len(inputs) \in Nat /\ DOMAIN inputs = 1..Len(inputs)
  BY Tables
<1>2. ASSUME NEW i \in InputsAt(t, k) PROVE inputs[i].ordinal \in 1..Len(inputs)
  <2>1. i \in 1..Len(inputs) /\ inputs[i].ordinal \in 1..i
    BY <1>1 DEF InputsAt, ReceiptsKept
  <2> QED BY <1>1, <2>1
<1>3. S \subseteq 0..Len(inputs) /\ S # {}
  BY <1>1, <1>2
<1>4. m = MaxOf(S)
  OBVIOUS
<1>5. m \in S /\ \A n \in S : n <= m
  <2> HIDE DEF S
  <2> QED BY <1>1, <1>3, <1>4, MaxExists
<1>6. m \in 0..Len(inputs)
  <2> HIDE DEF S
  <2> QED BY <1>3, <1>5
<1>7. m > 0 => \E i \in InputsAt(t, k) : inputs[i].ordinal = m
  <2> SUFFICES ASSUME m > 0 PROVE \E i \in InputsAt(t, k) : inputs[i].ordinal = m
    OBVIOUS
  <2>1. m # 0
    BY <1>6
  <2>2. m \in {inputs[i].ordinal : i \in InputsAt(t, k)}
    BY <1>5, <2>1
  <2> QED BY <2>2
<1> QED BY <1>5, <1>6, <1>7 DEF Highest

\* The last version of a span is of the present attempt or of the next one.
LEMMA FinalAttempt ==
  ASSUME TypeOK, VersionsKept, NEW t \in Names, NEW kind, NEW span, NEW facts, NEW earlier, NEW event,
         Commits(t, kind, span, facts, earlier, event)
  PROVE  /\ Len(span) \in 1..16 /\ Last(span) = span[Len(span)] /\ Last(span) \in VersionRows
         /\ Last(span).attempt \in AttemptNumbers /\ Last(span).attempt \in {Attempt(t), Attempt(t) + 1}
         /\ Attempt(t) \in Nat /\ (Exists(t) => Attempt(t) \in AttemptNumbers) /\ (~Exists(t) => Attempt(t) = 0)
         /\ \A i \in 1..Len(span) : span[i] \in VersionRows
         /\ Len(versions[t]) + Len(span) <= MaxVersions
<1>0. span \in Seq(VersionRows) /\ Len(span) \in 1..16
  BY DEF Commits, Legal
<1>1. span \in Seq(VersionRows) /\ Len(span) \in 1..16 /\ Last(span).attempt <= MaxAttemptRows
      /\ Len(versions[t]) + Len(span) <= MaxVersions
  BY DEF Commits, Legal, Execute
<1>2. PICK p \in 0..Len(span) : Started(t, span, p)
  BY DEF Commits, Legal
<1>3. /\ Attempt(t) \in Nat /\ (Exists(t) => Attempt(t) \in AttemptNumbers) /\ (~Exists(t) => Attempt(t) = 0)
  <2>1. Attempt(t) \in Nat /\ (~Exists(t) => Attempt(t) = 0)
    BY TaskTables
  <2>2. Exists(t) => Attempt(t) \in AttemptNumbers
    BY DEF VersionsKept
  <2> QED BY <2>1, <2>2
<1>4. Last(span) = span[Len(span)] /\ Last(span) \in VersionRows /\ \A i \in 1..Len(span) : span[i] \in VersionRows
  <2>1. \A i \in 1..Len(span) : span[i] \in VersionRows
    BY <1>0
  <2>2. PICK n \in 1..16 : n = Len(span)
    BY <1>0
  <2>3. n \in 1..n
    OBVIOUS
  <2> QED BY <2>1, <2>2, <2>3 DEF Last
<1>5. CASE p = Len(span)
  <2>1. Last(span).attempt = Attempt(t) /\ Exists(t)
    BY <1>1, <1>2, <1>4, <1>5 DEF Started
  <2> QED BY <1>1, <1>3, <1>4, <2>1
<1>6. CASE p # Len(span)
  <2>1. Last(span).attempt = Attempt(t) + 1
    BY <1>1, <1>2, <1>4, <1>6 DEF Started
  <2>2. Last(span).attempt \in Nat
    BY <1>4 DEF VersionRows
  <2> QED BY <1>1, <1>3, <1>4, <2>1, <2>2 DEF AttemptNumbers
<1> QED BY <1>5, <1>6

\* executeTask appends one receipt and one input, which name its last version.
LEMMA CommitRows ==
  ASSUME TypeOK, ReceiptsKept, VersionsKept,
         NEW t \in Names, NEW kind, NEW span, NEW facts, NEW earlier, NEW event,
         Commits(t, kind, span, facts, earlier, event)
  PROVE  /\ receipts' \in Seq(ReceiptRows) /\ Len(receipts') = Len(receipts) + 1
         /\ \A j \in 1..Len(receipts) : receipts'[j] = receipts[j]
         /\ receipts'[Len(receipts) + 1] =
              [task |-> t, kind |-> kind, revision |-> Len(versions[t]) + Len(span), input |-> 0,
               cursor |-> Len(outbox'), event |-> event]
         /\ inputs' \in Seq(InputRows) /\ Len(inputs') = Len(inputs) + 1
         /\ \A i \in 1..Len(inputs) : inputs'[i] = inputs[i]
         /\ inputs'[Len(inputs) + 1] = InputRow(t, Last(span), Len(versions[t]) + Len(span),
                                               IF kind \in Internal THEN "internal" ELSE "user")
         /\ inputs'[Len(inputs) + 1].ordinal \in 1..(Len(inputs) + 1)
<1>1. Len(outbox') \in Nat /\ Len(versions[t]) + Len(span) \in Nat /\ event \in Nat /\ kind \in CommandKinds
  <2>1. Len(span) \in Nat /\ Len(outbox') = Lead(t, kind, span, earlier) + Len(span)
    BY CommitOutbox, FinalAttempt
  <2>2. Lead(t, kind, span, earlier) \in Nat /\ Len(versions[t]) \in Nat /\ Len(events) \in Nat
    BY CommitOutbox, TaskTables, Tables
  <2>3. event = 0 \/ event = Len(events) + 1
    <3>1. CASE event = 0 /\ earlier = <<>> /\ UNCHANGED events
      BY <3>1
    <3>2. CASE event = Len(events) + 1
      BY <3>2
    <3> QED BY <3>1, <3>2 DEF Commits
  <2>4. kind \in CommandKinds
    BY DEF Commits, Legal
  <2> QED BY <2>1, <2>2, <2>3, <2>4
<1> DEFINE row == [task |-> t, kind |-> kind, revision |-> Len(versions[t]) + Len(span), input |-> 0,
                   cursor |-> Len(outbox'), event |-> event]
<1>2. receipts' = Append(receipts, row)
  <2>1. receipts' = Append(receipts, [task |-> t, kind |-> kind, revision |-> Len(versions[t]) + Len(span),
          input |-> 0, cursor |-> Len(Published(t, kind, span, earlier)), event |-> event])
    BY DEF Commits, Execute
  <2>2. outbox' = Published(t, kind, span, earlier)
    BY DEF Commits, Execute
  <2> QED BY <2>1, <2>2
<1>3. row \in ReceiptRows
  BY <1>1 DEF ReceiptRows
<1>4. receipts \in Seq(ReceiptRows) /\ inputs \in Seq(InputRows)
  BY DEF TypeOK
<1> HIDE DEF row
<1>5. /\ receipts' \in Seq(ReceiptRows) /\ Len(receipts') = Len(receipts) + 1
      /\ \A j \in 1..Len(receipts) : receipts'[j] = receipts[j]
      /\ receipts'[Len(receipts) + 1] = row
  BY <1>2, <1>3, <1>4, Appended
<1> DEFINE as == IF kind \in Internal THEN "internal" ELSE "user"
           input == InputRow(t, Last(span), Len(versions[t]) + Len(span), as)
<1>6. inputs' = Append(inputs, input)
  BY DEF Commits, Execute
<1>7. PICK m : m = MaxOf({0} \cup {inputs[i].ordinal : i \in InputsAt(t, Last(span).attempt)})
  OBVIOUS
<1>8. m \in 0..Len(inputs) /\ Len(inputs) \in Nat
  <2>1. Highest(t, Last(span).attempt, m)
    BY <1>7, NextOrdinal
  <2> QED BY <2>1, Tables DEF Highest
<1>9. input \in InputRows /\ input.ordinal = m + 1
  <2>1. Last(span).attempt \in AttemptNumbers /\ Last(span).intent \in Nat /\ Owner.epoch \in Nat
    <3>1. Last(span) \in VersionRows /\ Last(span).attempt \in AttemptNumbers
      BY FinalAttempt
    <3>2. sessions # <<>>
      BY DEF Commits, Legal
    <3> QED BY <3>1, <3>2, OwnerIs DEF VersionRows
  <2>2. as \in {"user", "internal", "runtime"}
    OBVIOUS
  <2>3. m + 1 \in Nat
    BY <1>8
  <2> HIDE DEF as
  <2> QED BY <1>1, <1>7, <2>1, <2>2, <2>3 DEF InputRow, InputRows
<1> HIDE DEF input
<1>10. /\ inputs' \in Seq(InputRows) /\ Len(inputs') = Len(inputs) + 1
       /\ \A i \in 1..Len(inputs) : inputs'[i] = inputs[i]
       /\ inputs'[Len(inputs) + 1] = input
  BY <1>4, <1>6, <1>9, Appended
<1>11. inputs'[Len(inputs) + 1].ordinal \in 1..(Len(inputs) + 1)
  BY <1>8, <1>9, <1>10
<1> QED BY <1>5, <1>10, <1>11 DEF row, input

\* executeTask writes the rows of the attempts that the span touches.
LEMMA CommitAttempts ==
  ASSUME TypeOK, AttemptsValid, VersionsKept,
         NEW t \in Names, NEW kind, NEW span, NEW facts, NEW earlier, NEW event,
         Commits(t, kind, span, facts, earlier, event), NEW p \in 0..Len(span), Started(t, span, p)
  PROVE  /\ attempts' \in [Names -> Seq(Rounds)]
         /\ \A u \in Names : u # t => attempts'[u] = attempts[u]
         /\ Len(attempts'[t]) = Last(span).attempt
         /\ \A k \in 1..Len(attempts'[t]) : k < Attempt(t) => attempts'[t][k] = attempts[t][k]
         /\ attempts'[t][Last(span).attempt] = AttemptRow(Last(span))
         /\ p < Len(span) /\ p > 0 => attempts'[t][Attempt(t)] = AttemptRow(span[p])
         /\ p = 0 /\ Exists(t) => attempts'[t][Attempt(t)] = attempts[t][Attempt(t)]
         /\ p = Len(span) => Last(span).attempt = Attempt(t)
         /\ p < Len(span) => Last(span).attempt = Attempt(t) + 1
<1>1. attempts' = [attempts EXCEPT ![t] = AttemptRows(t, span)]
  BY DEF Commits, Execute
<1>2. PICK n \in 1..16 : n = Len(span)
  BY FinalAttempt
<1>3. PICK a \in Nat : a = Attempt(t)
  BY FinalAttempt
<1>4. PICK z \in Nat : z = Last(span).attempt
  BY FinalAttempt DEF AttemptNumbers
<1>5. Last(span) = span[n] /\ z \in 1..MaxAttemptRows /\ \A i \in 1..n : span[i] \in VersionRows
  BY <1>2, <1>4, FinalAttempt DEF AttemptNumbers
<1>6. DOMAIN span = 1..n
  BY <1>2 DEF Commits, Legal
<1>7. /\ \A i \in 1..p : span[i].attempt = a
      /\ \A i \in (p + 1)..n : span[i].attempt = a + 1
      /\ p > 0 => Exists(t)
  BY <1>2, <1>3 DEF Started
<1>8. (p = n => z = a) /\ (p < n => z = a + 1) /\ p \in 0..n
  BY <1>2, <1>4, <1>5, <1>7
<1> DEFINE Mine(k) == {i \in 1..n : span[i].attempt = k}
           Row(k) == IF Mine(k) # {} THEN AttemptRow(span[MaxOf(Mine(k))]) ELSE attempts[t][k]
<1>9. AttemptRows(t, span) = [k \in 1..z |-> Row(k)]
  BY <1>4, <1>6 DEF AttemptRows
<1>10. Mine(z) # {} /\ MaxOf(Mine(z)) = n
  <2>1. n \in Mine(z) /\ Mine(z) \subseteq Int /\ \A i \in Mine(z) : i <= n
    BY SMTT(30), <1>4, <1>5
  <2> HIDE DEF Mine
  <2> QED BY <2>1, MaxIs
<1>11. ASSUME p < n, p > 0 PROVE Mine(a) # {} /\ MaxOf(Mine(a)) = p
  <2>1. p \in Mine(a) /\ Mine(a) \subseteq Int
    BY <1>7, <1>8, <1>11
  <2>2. ASSUME NEW i \in Mine(a) PROVE i <= p
    BY <1>7, <1>8
  <2> HIDE DEF Mine
  <2> QED BY <2>1, <2>2, MaxIs
<1>12. ASSUME NEW k \in Nat, k < a PROVE Mine(k) = {}
  BY <1>7, <1>8, <1>12
<1>13. ASSUME p = 0 PROVE Mine(a) = {}
  BY <1>7, <1>8, <1>13
<1>14. Exists(t) => Len(attempts[t]) = a
  BY <1>3 DEF AttemptsValid
<1>15. Row(z) = AttemptRow(Last(span))
  BY <1>5, <1>10
<1>16. p < n /\ p > 0 => Row(a) = AttemptRow(span[p])
  BY <1>11
<1>17. p = 0 => Row(a) = attempts[t][a]
  BY <1>13
<1>18. \A k \in Nat : k < a => Row(k) = attempts[t][k]
  BY <1>12
<1>19. ASSUME NEW v \in VersionRows PROVE AttemptRow(v) \in Rounds
  BY DEF AttemptRow, Rounds, VersionRows
<1>20. attempts[t] \in Seq(Rounds) /\ (a > 0 => Len(attempts[t]) = a)
  BY <1>3, <1>14, TaskTables
<1>21. ASSUME NEW k \in 1..z PROVE Row(k) \in Rounds
  <2>1. a > 0 => \A j \in 1..a : attempts[t][j] \in Rounds
    BY <1>20
  <2>2. CASE k = z
    BY <1>5, <1>15, <1>19, <2>2
  <2>3. CASE k < z /\ k = a
    <3>1. p < n /\ a > 0
      BY <1>8, <2>3
    <3> HIDE DEF Row
    <3>2. CASE p > 0
      BY <1>5, <1>8, <1>16, <1>19, <2>3, <3>1, <3>2
    <3>3. CASE p = 0
      BY <1>17, <2>1, <2>3, <3>1, <3>3
    <3> QED BY <1>8, <3>2, <3>3
  <2>4. CASE k < a
    <3> HIDE DEF Row
    <3> QED BY <1>18, <2>1, <2>4
  <2> QED BY <1>8, <2>2, <2>3, <2>4
<1> HIDE DEF Row, Mine
<1>22. PICK new : new = [k \in 1..z |-> Row(k)]
  OBVIOUS
<1>23. new \in Seq(Rounds) /\ Len(new) = z /\ \A k \in 1..z : new[k] = Row(k)
  BY <1>21, <1>22
<1>24. attempts' = [attempts EXCEPT ![t] = new] /\ attempts \in [Names -> Seq(Rounds)]
  BY <1>1, <1>9, <1>22 DEF TypeOK
<1>25. /\ attempts' \in [Names -> Seq(Rounds)] /\ attempts'[t] = new
       /\ \A u \in Names : u # t => attempts'[u] = attempts[u]
  BY <1>23, <1>24, Put
<1>26. Exists(t) => a >= 1
  BY <1>3, FinalAttempt DEF AttemptNumbers
<1>27. \A k \in 1..z : k < a => new[k] = attempts[t][k]
  BY <1>18, <1>23
<1>28. new[z] = AttemptRow(Last(span))
  BY <1>5, <1>15, <1>23
<1>29. p < n /\ p > 0 => new[a] = AttemptRow(span[p])
  BY <1>7, <1>8, <1>16, <1>23, <1>26
<1>30. p = 0 /\ Exists(t) => new[a] = attempts[t][a]
  BY SMTT(30), <1>5, <1>8, <1>17, <1>23, <1>26
<1> QED BY <1>2, <1>3, <1>4, <1>8, <1>23, <1>25, <1>27, <1>28, <1>29, <1>30

\* executeTask leaves typed tables.
LEMMA CommitTypes ==
  ASSUME TypeOK, AttemptsValid, ReceiptsKept, VersionsKept,
         NEW t \in Names, NEW kind, NEW span, NEW facts, NEW earlier, NEW event,
         Commits(t, kind, span, facts, earlier, event)
  PROVE  TypeOK'
<1>1. PICK p \in 0..Len(span) : Started(t, span, p)
  BY DEF Commits, Legal
<1>2. versions' \in [Names -> Seq(VersionRows)] /\ attempts' \in [Names -> Seq(Rounds)]
  BY <1>1, CommitVersions, CommitAttempts
<1>3. receipts' \in Seq(ReceiptRows) /\ inputs' \in Seq(InputRows)
  BY CommitRows
<1>4. outbox' \in Seq(OutboxRows) /\ sessions' \in Seq(SessionRows)
  BY CommitOutbox, CommitSessions
<1>5. UNCHANGED <<recovery, consumers, runs, requests>>
  BY DEF Commits, Execute
<1>6. events' \in Seq(EventRows)
  <2>1. CASE UNCHANGED events
    BY <2>1 DEF TypeOK
  <2>2. CASE events' = Append(events, EventRow(t, Len(outbox) + 2)) /\ Working(t)
    <3>1. Attempt(t) \in AttemptNumbers /\ sessions # <<>>
      BY <2>2 DEF Working, Fenced, Owned, HasRun, CurrentTask
    <3>2. Len(runs[t][Attempt(t)]) \in Nat /\ Len(versions[t]) \in Nat /\ Len(outbox) \in Nat
          /\ Owner.epoch \in Nat /\ recovery \in Nat
      BY <3>1, RunTables, TaskTables, Tables, OwnerIs DEF TypeOK
    <3>3. EventRow(t, Len(outbox) + 2) \in EventRows
      BY <3>1, <3>2 DEF EventRow, EventRows
    <3>4. events \in Seq(EventRows)
      BY DEF TypeOK
    <3> QED BY <2>2, <3>3, <3>4, Appended
  <2> QED BY <2>1, <2>2 DEF Commits
<1> QED BY <1>2, <1>3, <1>4, <1>5, <1>6 DEF TypeOK

-----------------------------------------------------------------------------
(* Growth: every operation appends to the tables, and what it appends is   *)
(* told from what was there.                                               *)

Extends(old, new) == Len(old) <= Len(new) /\ \A i \in 1..Len(old) : new[i] = old[i]
SameEvent(row, new) ==
  /\ new.type = row.type /\ new.of = row.of /\ new.revision = row.revision /\ new.about = row.about
  /\ new.epoch = row.epoch /\ new.recovery = row.recovery
Grows ==
  /\ recovery <= recovery' /\ Extends(sessions, sessions') /\ Extends(receipts, receipts')
  /\ Extends(inputs, inputs') /\ Extends(events, events') /\ Extends(requests, requests')
  /\ \A t \in Names : Extends(versions[t], versions'[t])
  /\ \A t \in Names, k \in AttemptNumbers : Extends(runs[t][k], runs'[t][k])
  /\ Len(outbox) <= Len(outbox') /\ \A c \in 1..Len(outbox) : SameEvent(outbox[c], outbox'[c])
  /\ \A i \in 1..Len(sessions') : i > Len(sessions) =>
       sessions'[i].cursor > Len(outbox) \/ (sessions'[i].cursor = 0 /\ sessions'[i].recovery > recovery)
  /\ \A j \in 1..Len(receipts') : j > Len(receipts) =>
       /\ receipts'[j].event = 0 \/ receipts'[j].event > Len(events)
       /\ receipts'[j].task \in Names /\ receipts'[j].kind # "task.runtime-input" =>
            receipts'[j].revision > Len(versions[receipts'[j].task])
  /\ \A c \in 1..Len(outbox') :
       c > Len(outbox) /\ outbox'[c].type \in VersionTypes /\ outbox'[c].of \in Names =>
         outbox'[c].revision > Len(versions[outbox'[c].of])
  /\ \A t \in Names, k \in AttemptNumbers : runs[t][k] = <<>> /\ runs'[t][k] # <<>> =>
       Exists(t) /\ k = Attempt(t) /\ Current(t).state = "READY"

\* The columns of the tables.
Columned ==
  /\ DOMAIN sessions = 1..Len(sessions) /\ DOMAIN receipts = 1..Len(receipts)
  /\ DOMAIN inputs = 1..Len(inputs) /\ DOMAIN outbox = 1..Len(outbox)
  /\ DOMAIN events = 1..Len(events) /\ DOMAIN requests = 1..Len(requests)
  /\ Len(sessions) \in Nat /\ Len(receipts) \in Nat /\ Len(inputs) \in Nat
  /\ Len(outbox) \in Nat /\ Len(events) \in Nat /\ Len(requests) \in Nat /\ recovery \in Nat
  /\ \A i \in 1..Len(sessions) : /\ sessions[i].epoch \in Nat /\ sessions[i].recovery \in Nat
                                 /\ sessions[i].cursor \in Nat /\ sessions[i].owner \in Nat
                                 /\ sessions[i].authorized \in BOOLEAN
  /\ \A j \in 1..Len(receipts) : /\ receipts[j].revision \in Nat /\ receipts[j].cursor \in Nat
                                 /\ receipts[j].event \in Nat /\ receipts[j].input \in Nat
                                 /\ receipts[j].task \in Names \cup {Session}
  /\ \A i \in 1..Len(inputs) : /\ inputs[i].revision \in Nat /\ inputs[i].ordinal \in Nat
                               /\ inputs[i].task \in Names /\ inputs[i].attempt \in AttemptNumbers
                               /\ inputs[i].intent \in Nat /\ inputs[i].epoch \in Nat
                               /\ inputs[i].kind \in {"user", "internal", "runtime"}
  /\ \A c \in 1..Len(outbox) : /\ outbox[c].revision \in Nat /\ outbox[c].recovery \in Nat
                               /\ outbox[c].epoch \in Nat /\ outbox[c].of \in Names \cup {Session}
  /\ \A e \in 1..Len(events) : /\ events[e].task \in Names /\ events[e].attempt \in AttemptNumbers
                               /\ events[e].revision \in Nat /\ events[e].run \in Nat
                               /\ events[e].cursor \in Nat /\ events[e].epoch \in Nat
                               /\ events[e].recovery \in Nat /\ events[e].ack \in Nat
  /\ \A e \in 1..Len(requests) : /\ requests[e].task \in Names /\ requests[e].attempt \in AttemptNumbers
                                 /\ requests[e].revision \in Nat /\ requests[e].run \in Nat
                                 /\ requests[e].epoch \in Nat
VersionsColumned == \A t \in Names :
  /\ Len(versions[t]) \in Nat /\ DOMAIN versions[t] = 1..Len(versions[t])
  /\ \A i \in 1..Len(versions[t]) :
       /\ versions[t][i] \in VersionRows /\ versions[t][i].state \in TaskStates
       /\ versions[t][i].attempt \in Nat /\ versions[t][i].intent \in Nat /\ versions[t][i].epoch \in Nat
       /\ versions[t][i].facts \in SUBSET Facts
RunsColumned == \A t \in Names, k \in AttemptNumbers :
  /\ Len(runs[t][k]) \in Nat /\ DOMAIN runs[t][k] = 1..Len(runs[t][k])
  /\ \A i \in 1..Len(runs[t][k]) :
       /\ runs[t][k][i] \in RunRows /\ runs[t][k][i].state \in RunStates
       /\ runs[t][k][i].closed \in BOOLEAN /\ runs[t][k][i].dispatched \in BOOLEAN
       /\ runs[t][k][i].input \in Nat /\ runs[t][k][i].epoch \in Nat
       /\ runs[t][k][i].recovery \in Nat /\ runs[t][k][i].at \in Nat

\* The columns of the rows are typed.
LEMMA Columns == TypeOK => Columned
<1> SUFFICES ASSUME TypeOK PROVE Columned
  OBVIOUS
<1>1. \A i \in 1..Len(sessions) : /\ sessions[i].epoch \in Nat /\ sessions[i].recovery \in Nat
                                  /\ sessions[i].cursor \in Nat /\ sessions[i].owner \in Nat
                                  /\ sessions[i].authorized \in BOOLEAN
  BY Tables DEF SessionRows
<1>2. \A j \in 1..Len(receipts) : /\ receipts[j].revision \in Nat /\ receipts[j].cursor \in Nat
                                  /\ receipts[j].event \in Nat /\ receipts[j].input \in Nat
                                  /\ receipts[j].task \in Names \cup {Session}
  BY Tables DEF ReceiptRows
<1>3. \A i \in 1..Len(inputs) : /\ inputs[i].revision \in Nat /\ inputs[i].ordinal \in Nat
                                /\ inputs[i].task \in Names /\ inputs[i].attempt \in AttemptNumbers
                                /\ inputs[i].intent \in Nat /\ inputs[i].epoch \in Nat
                                /\ inputs[i].kind \in {"user", "internal", "runtime"}
  BY Tables DEF InputRows
<1>4. \A c \in 1..Len(outbox) : /\ outbox[c].revision \in Nat /\ outbox[c].recovery \in Nat
                                /\ outbox[c].epoch \in Nat /\ outbox[c].of \in Names \cup {Session}
  BY Tables DEF OutboxRows
<1>5. \A e \in 1..Len(events) : /\ events[e].task \in Names /\ events[e].attempt \in AttemptNumbers
                                /\ events[e].revision \in Nat /\ events[e].run \in Nat
                                /\ events[e].cursor \in Nat /\ events[e].epoch \in Nat
                                /\ events[e].recovery \in Nat /\ events[e].ack \in Nat
  BY Tables DEF EventRows
<1>6. \A e \in 1..Len(requests) : /\ requests[e].task \in Names /\ requests[e].attempt \in AttemptNumbers
                                  /\ requests[e].revision \in Nat /\ requests[e].run \in Nat
                                  /\ requests[e].epoch \in Nat
  BY Tables DEF RequestRows
<1>7. recovery \in Nat
  BY DEF TypeOK
<1> QED BY <1>1, <1>2, <1>3, <1>4, <1>5, <1>6, <1>7, Tables DEF Columned

\* So they are after a step.
LEMMA ColumnsAfter == TypeOK' => Columned'
  BY Columns, PTL

\* The columns of the versions are typed.
LEMMA VersionColumns == TypeOK => VersionsColumned
<1> SUFFICES ASSUME TypeOK, NEW t \in Names PROVE VersionsColumned!(t)
  BY DEF VersionsColumned
<1>1. Len(versions[t]) \in Nat /\ DOMAIN versions[t] = 1..Len(versions[t])
      /\ \A i \in 1..Len(versions[t]) : versions[t][i] \in VersionRows
  BY TaskTables
<1> QED BY <1>1 DEF VersionRows

\* So they are after a step.
LEMMA VersionColumnsAfter == TypeOK' => VersionsColumned'
  BY VersionColumns, PTL

\* The columns of the snapshots are typed.
LEMMA RunColumns == TypeOK => RunsColumned
<1> SUFFICES ASSUME TypeOK, NEW t \in Names, NEW k \in AttemptNumbers PROVE RunsColumned!(t, k)
  BY DEF RunsColumned
<1>1. Len(runs[t][k]) \in Nat /\ DOMAIN runs[t][k] = 1..Len(runs[t][k])
      /\ \A i \in 1..Len(runs[t][k]) : runs[t][k][i] \in RunRows
  BY RunTables
<1> QED BY <1>1 DEF RunRows

\* So they are after a step.
LEMMA RunColumnsAfter == TypeOK' => RunsColumned'
  BY RunColumns, PTL

\* What a command started from, no later row changes.
LEMMA StartStays ==
  ASSUME TypeOK, TypeOK', Grows, NEW r \in ReceiptRows, r.task \in Names, r.revision <= Len(versions[r.task])
  PROVE  StartOf(r)' = StartOf(r)
<1> DEFINE Before == {receipts[j].revision : j \in {i \in Commands(r.task) : receipts[i].revision < r.revision}}
           After == {receipts'[j].revision : j \in {i \in Commands(r.task)' : receipts'[i].revision < r.revision}}
<1>1. DOMAIN receipts = 1..Len(receipts) /\ DOMAIN receipts' = 1..Len(receipts') /\ Len(receipts) \in Nat
      /\ Len(receipts') \in Nat /\ Len(versions[r.task]) \in Nat /\ r.revision \in Nat
      /\ (\A i \in 1..Len(receipts') : receipts'[i].revision \in Nat)
  <2>1. r.revision \in Nat
    BY DEF ReceiptRows
  <2>2. Len(versions[r.task]) \in Nat
    BY VersionColumns DEF VersionsColumned
  <2> QED BY <2>1, <2>2, Columns, ColumnsAfter DEF Columned
<1>2. Len(receipts) <= Len(receipts') /\ \A i \in 1..Len(receipts) : receipts'[i] = receipts[i]
  BY DEF Grows, Extends
<1>3. ASSUME NEW j \in 1..Len(receipts'), j > Len(receipts), receipts'[j].task = r.task,
             receipts'[j].kind # "task.runtime-input"
      PROVE  ~(receipts'[j].revision < r.revision)
  BY <1>1, <1>3 DEF Grows
<1>4. {i \in Commands(r.task)' : receipts'[i].revision < r.revision}
        = {i \in Commands(r.task) : receipts[i].revision < r.revision}
  <2>1. ASSUME NEW i, i \in Commands(r.task)', receipts'[i].revision < r.revision
        PROVE  i \in Commands(r.task) /\ receipts[i].revision < r.revision
    BY SMTT(30), <1>1, <1>2, <1>3, <2>1 DEF Commands
  <2>2. ASSUME NEW i, i \in Commands(r.task), receipts[i].revision < r.revision
        PROVE  i \in Commands(r.task)' /\ receipts'[i].revision < r.revision
    BY <1>1, <1>2, <2>2 DEF Commands
  <2> QED BY <2>1, <2>2
<1>5. \A i \in Commands(r.task) : receipts'[i] = receipts[i]
  BY <1>1, <1>2 DEF Commands
<1>6. After = Before
  BY <1>4, <1>5
<1>7. StartOf(r) = MaxOf({0} \cup Before) /\ StartOf(r)' = MaxOf({0} \cup After)
  BY DEF StartOf
<1> QED BY <1>6, <1>7

\* The versions announced up to a cursor stay the same.
LEMMA AnnouncedStays ==
  ASSUME TypeOK, TypeOK', Grows, NEW t \in Names, NEW c \in 0..Len(outbox)
  PROVE  Announced(t, c)' = Announced(t, c) /\ HeadAt(t, c)' = HeadAt(t, c)
<1>1. Len(outbox) \in Nat
  BY Tables
<1>2. ASSUME NEW d \in 1..c PROVE outbox'[d].of = outbox[d].of /\ outbox'[d].type = outbox[d].type
                                    /\ outbox'[d].revision = outbox[d].revision
  BY <1>1 DEF Grows, SameEvent
<1>3. Announced(t, c)' = Announced(t, c)
  BY <1>2 DEF Announced
<1>4. \A d \in Announced(t, c) : outbox'[d].revision = outbox[d].revision
  BY <1>2 DEF Announced
<1>5. {outbox'[d].revision : d \in Announced(t, c)'} = {outbox[d].revision : d \in Announced(t, c)}
  BY <1>3, <1>4
<1> QED BY <1>3, <1>5 DEF HeadAt

\* So does the authority an old event was published under.
LEMMA AuthorityStays ==
  ASSUME TypeOK, TypeOK', Grows, NEW c \in 1..Len(outbox), outbox[c].recovery <= recovery
  PROVE  /\ Authority(outbox[c].recovery, c)' = Authority(outbox[c].recovery, c)
         /\ Authority(outbox[c].recovery, c) # {} => AuthorityAt(c)' = AuthorityAt(c)
<1>1. Len(outbox) \in Nat /\ Len(sessions) \in Nat /\ Len(sessions') \in Nat
      /\ DOMAIN sessions = 1..Len(sessions) /\ DOMAIN sessions' = 1..Len(sessions')
      /\ (\A i \in 1..Len(sessions') : sessions'[i].cursor \in Nat /\ sessions'[i].recovery \in Nat)
      /\ outbox[c].recovery \in Nat /\ recovery \in Nat
      /\ (\A i \in 1..Len(sessions) : sessions[i].cursor \in Nat /\ sessions[i].recovery \in Nat)
  BY Columns, ColumnsAfter DEF Columned
<1>2. outbox'[c].recovery = outbox[c].recovery
  BY DEF Grows, SameEvent
<1>3. Len(sessions) <= Len(sessions') /\ \A i \in 1..Len(sessions) : sessions'[i] = sessions[i]
  BY DEF Grows, Extends
<1>4. ASSUME NEW i \in 1..Len(sessions'), i > Len(sessions)
      PROVE  ~(sessions'[i].recovery <= outbox[c].recovery /\ (sessions'[i].cursor = 0 \/ sessions'[i].cursor < c))
  BY SMTT(30), <1>1, <1>4 DEF Grows
<1>5. Authority(outbox[c].recovery, c)' = Authority(outbox[c].recovery, c)
  <2>1. ASSUME NEW i, i \in Authority(outbox[c].recovery, c)' PROVE i \in Authority(outbox[c].recovery, c)
    BY SMTT(30), <1>1, <1>2, <1>3, <1>4, <2>1 DEF Authority
  <2>2. ASSUME NEW i, i \in Authority(outbox[c].recovery, c) PROVE i \in Authority(outbox[c].recovery, c)'
    BY <1>1, <1>2, <1>3, <2>2 DEF Authority
  <2> QED BY <2>1, <2>2
<1>6. ASSUME Authority(outbox[c].recovery, c) # {} PROVE AuthorityAt(c)' = AuthorityAt(c)
  <2>1. PICK m : m = MaxOf(Authority(outbox[c].recovery, c))
    OBVIOUS
  <2>2. m \in Authority(outbox[c].recovery, c)
    <3>1. Authority(outbox[c].recovery, c) \subseteq 0..Len(sessions)
      BY <1>1 DEF Authority
    <3> QED BY <1>1, <1>6, <2>1, <3>1, MaxExists
  <2>3. m \in 1..Len(sessions)
    BY <1>1, <2>2 DEF Authority
  <2>4. AuthorityAt(c) = sessions[m] /\ AuthorityAt(c)' = sessions'[m]
    BY <1>2, <1>5, <2>1 DEF AuthorityAt
  <2> QED BY <1>3, <2>3, <2>4
<1> QED BY <1>5, <1>6

\* The span of an old command stays one that its kind allows.
LEMMA MetadataStays ==
  ASSUME TypeOK, TypeOK', Grows, NEW t \in Names, NEW kind, NEW start \in Nat, NEW end \in Nat,
         start < end, end <= Len(versions[t]), MetadataValid(t, kind, start, end),
         kind \in {"task.pause", "task.retry", "task.revise-request", "task.respond"} => start > 0
  PROVE  MetadataValid(t, kind, start, end)'
<1>1. Len(versions[t]) \in Nat /\ Len(versions'[t]) \in Nat
  BY VersionColumns, VersionColumnsAfter DEF VersionsColumned
<1>2. \A i \in 1..Len(versions[t]) : versions'[t][i] = versions[t][i]
  BY DEF Grows, Extends
<1>3. [i \in 1..(end - start) |-> versions'[t][start + i].state] = [i \in 1..(end - start) |-> versions[t][start + i].state]
  <2>1. ASSUME NEW i \in 1..(end - start) PROVE versions'[t][start + i].state = versions[t][start + i].state
    BY <1>1, <1>2
  <2> QED BY <2>1
<1>4. start > 0 => versions'[t][start] = versions[t][start] /\ versions'[t][end] = versions[t][end]
  BY <1>1, <1>2
<1>5. start = 0 /\ end > 0 => versions'[t][1] = versions[t][1]
  BY <1>1, <1>2
<1>6. ASSUME NEW i \in (start + 1)..end, i > 1
      PROVE  versions'[t][i] = versions[t][i] /\ versions'[t][i - 1] = versions[t][i - 1]
  BY <1>1, <1>2, <1>6
<1>7. start = 0 => versions'[t][1].intent = 1
  BY <1>5 DEF MetadataValid
<1>8. ASSUME NEW i \in (start + 1)..end, i > 1 PROVE MetadataStep(kind, versions'[t][i - 1], versions'[t][i])
  BY <1>6, <1>8 DEF MetadataValid
<1>9. /\ kind \in {"task.retry", "task.revise-request"} => versions'[t][end].attempt # versions'[t][start].attempt
      /\ kind = "task.pause" => versions'[t][start].state = "RUNNING"
      /\ kind = "task.respond" => versions'[t][start].state = "WAITING_INPUT"
  BY <1>4 DEF MetadataValid
<1>10. [i \in 1..(end - start) |-> versions'[t][start + i].state] \in Spans(kind)
  BY <1>3 DEF MetadataValid
<1> QED BY <1>7, <1>8, <1>9, <1>10 DEF MetadataValid

\* Its events stay together and in order.
LEMMA SpanStays ==
  ASSUME TypeOK, TypeOK', Grows, NEW t \in Names, NEW start \in Nat, NEW r \in ReceiptRows,
         start < r.revision, r.revision <= Len(versions[t]), SpanPublished(t, start, r),
         \A c \in 1..Len(outbox) : outbox[c].recovery <= recovery
  PROVE  SpanPublished(t, start, r)'
<1>1. Len(versions[t]) \in Nat /\ Len(versions'[t]) \in Nat /\ r.revision \in Nat /\ r.cursor \in Nat
  BY VersionColumns, VersionColumnsAfter DEF VersionsColumned, ReceiptRows
<1>2. \A i \in 1..Len(versions[t]) : versions'[t][i] = versions[t][i]
  BY DEF Grows, Extends
<1>3. PICK first \in Int : first = r.cursor - (r.revision - start) + 1
  BY <1>1
<1>4. VersionCursors(t, start, r.revision) = first..r.cursor
      /\ \A c \in first..r.cursor : outbox[c].revision = start + (c - first) + 1
  BY <1>3 DEF SpanPublished
<1>5. Len(outbox) \in Nat /\ Len(outbox') \in Nat /\ DOMAIN outbox = 1..Len(outbox) /\ DOMAIN outbox' = 1..Len(outbox')
      /\ Len(outbox) <= Len(outbox')
  BY Columns, ColumnsAfter DEF Columned, Grows
<1>6. \A c \in 1..Len(outbox) : /\ outbox'[c].of = outbox[c].of /\ outbox'[c].type = outbox[c].type
                                /\ outbox'[c].revision = outbox[c].revision
  BY DEF Grows, SameEvent
<1>7. \A c \in 1..Len(outbox') : c > Len(outbox) /\ outbox'[c].type \in VersionTypes /\ outbox'[c].of = t =>
        outbox'[c].revision > Len(versions[t])
  BY DEF Grows
<1>8. VersionCursors(t, start, r.revision)' = VersionCursors(t, start, r.revision)
  <2>1. ASSUME NEW c, c \in VersionCursors(t, start, r.revision)' PROVE c \in VersionCursors(t, start, r.revision)
    BY SMTT(30), <1>1, <1>5, <1>6, <1>7, <2>1 DEF VersionCursors
  <2>2. ASSUME NEW c, c \in VersionCursors(t, start, r.revision) PROVE c \in VersionCursors(t, start, r.revision)'
    BY <1>1, <1>5, <1>6, <2>2 DEF VersionCursors
  <2> QED BY <2>1, <2>2
<1>9. \A c \in first..r.cursor : c \in 1..Len(outbox)
  BY <1>4, <1>5 DEF VersionCursors
<1>10. \A c \in first..r.cursor : outbox'[c].revision = start + (c - first) + 1
  BY <1>4, <1>6, <1>9
<1>11. first \in 1..Len(outbox)
  <2>1. first <= r.cursor
    BY <1>1, <1>3
  <2> QED BY <1>1, <1>9, <2>1
<1>12. outbox'[first].recovery = outbox[first].recovery
  BY <1>11 DEF Grows, SameEvent
<1>13. start = 0 \/ (versions'[t][start] = versions[t][start] /\ versions'[t][r.revision] = versions[t][r.revision])
  BY <1>1, <1>2
<1>14. Authority(outbox[first].recovery, first)' = Authority(outbox[first].recovery, first)
       /\ (Authority(outbox[first].recovery, first) # {} => AuthorityAt(first)' = AuthorityAt(first))
  BY <1>11, AuthorityStays
<1>15. (start = 0 \/ versions[t][start].attempt # versions[t][r.revision].attempt) =>
         Authority(outbox[first].recovery, first) # {} /\ AuthorityAt(first).authorized
  BY <1>3 DEF SpanPublished
<1>16. (start = 0 \/ versions'[t][start].attempt # versions'[t][r.revision].attempt) =>
         (Authority(outbox[first].recovery, first) # {})' /\ AuthorityAt(first)'.authorized
  BY <1>13, <1>14, <1>15
<1> QED BY <1>3, <1>4, <1>8, <1>10, <1>16 DEF SpanPublished

\* Its proof stays the only one.
LEMMA ProofStays ==
  ASSUME TypeOK, TypeOK', Grows, VersionsKept, NEW t \in Names, NEW kind, NEW start \in Nat, NEW end \in Nat,
         start < end, end <= Len(versions[t]), ProofValid(t, kind, start, end)
  PROVE  ProofValid(t, kind, start, end)'
<1>1. Len(versions[t]) \in Nat /\ Len(versions'[t]) \in Nat
      /\ DOMAIN versions[t] = 1..Len(versions[t])
      /\ \A i \in 1..Len(versions[t]) : versions[t][i].attempt \in Nat
  BY VersionColumns, VersionColumnsAfter DEF VersionsColumned
<1>2. \A i \in 1..Len(versions[t]) : versions'[t][i] = versions[t][i]
  BY DEF Grows, Extends
<1>3. PICK final : final = versions[t][end]
  OBVIOUS
<1>4. versions'[t][end] = final /\ \A i \in (start + 1)..end : versions'[t][i] = versions[t][i]
  BY SMTT(30), <1>1, <1>2, <1>3
<1>5. start > 0 => versions'[t][start] = versions[t][start]
  BY <1>1, <1>2
<1>6. Exists(t) /\ Attempt(t) \in AttemptNumbers /\ Attempt(t) \in Nat
  BY <1>1, TaskTables DEF VersionsKept
<1>7. ASSUME start > 0 PROVE versions[t][start].attempt \in 1..Attempt(t) /\ versions[t][start].attempt \in AttemptNumbers
  <2>1. start \in DOMAIN versions[t]
    BY <1>1, <1>7
  <2>2. versions[t][start].attempt \in 1..Attempt(t)
    BY <2>1 DEF VersionsKept
  <2>3. MaxAttemptRows \in Nat
    BY DEF TypeOK, Bounds
  <2> QED BY <1>6, <2>2, <2>3 DEF AttemptNumbers
<1>k. PICK k : k = versions[t][start].attempt
  OBVIOUS
<1>7k. start > 0 => k \in AttemptNumbers /\ k \in 1..Attempt(t)
  BY <1>7, <1>k
<1>8. ASSUME NEW i \in (start + 1)..end, k \in AttemptNumbers
      PROVE  RunFacts(t, i, k)' = RunFacts(t, i, k)
             /\ \A p \in RunFacts(t, i, k) : runs'[t][k][p] = runs[t][k][p]
  <2>1. versions'[t][i] = versions[t][i] /\ i \in DOMAIN versions[t]
    BY <1>1, <1>4
  <2>2. DOMAIN runs[t][k] = 1..Len(runs[t][k]) /\ DOMAIN runs'[t][k] = 1..Len(runs'[t][k])
        /\ Len(runs[t][k]) \in Nat /\ Len(runs'[t][k]) \in Nat
    BY <1>8, RunColumns, RunColumnsAfter DEF RunsColumned
  <2>3. Len(runs[t][k]) <= Len(runs'[t][k]) /\ \A p \in 1..Len(runs[t][k]) : runs'[t][k][p] = runs[t][k][p]
    BY <1>8 DEF Grows, Extends
  <2>4. ASSUME NEW p, <<"run", k, p>> \in versions[t][i].facts PROVE p \in DOMAIN runs[t][k]
    <3>1. PICK f \in versions[t][i].facts : f = <<"run", k, p>>
      BY <2>4
    <3>2. f[1] = "run" /\ f[2] = k /\ f[3] = p
      BY <3>1
    <3> QED BY <2>1, <3>2 DEF VersionsKept
  <2>5. ASSUME NEW p PROVE p \in RunFacts(t, i, k)' <=> p \in RunFacts(t, i, k)
    BY SMTT(30), <2>1, <2>2, <2>3, <2>4 DEF RunFacts
  <2>6. \A p \in RunFacts(t, i, k) : runs'[t][k][p] = runs[t][k][p]
    BY <2>2, <2>3 DEF RunFacts
  <2> QED BY <2>5, <2>6
<1> DEFINE replaces == start > 0 /\ \E i \in (start + 1)..end :
             versions[t][i].state \in {"CANCELLED", "PAUSED"} \/ versions[t][i].attempt # k
           replacesAfter == start > 0 /\ \E i \in (start + 1)..end :
             versions'[t][i].state \in {"CANCELLED", "PAUSED"} \/ versions'[t][i].attempt # k
<1>9. ASSUME start > 0, replaces, HasRun(t, k)' PROVE HasRun(t, k)
  <2>1. k \in AttemptNumbers
    BY <1>7k, <1>9
  <2>2. SUFFICES ASSUME runs[t][k] = <<>>, runs'[t][k] # <<>> PROVE FALSE
    BY <1>9, <2>1 DEF HasRun
  <2>3. k = Attempt(t) /\ Current(t).state = "READY"
    BY <2>1, <2>2 DEF Grows
  <2>4. PICK i \in (start + 1)..end : versions[t][i].state \in {"CANCELLED", "PAUSED"} \/ versions[t][i].attempt # k
    BY <1>9
  <2>5. i \in DOMAIN versions[t] /\ start \in 1..i /\ start \in DOMAIN versions[t]
    BY <1>1, <1>9
  <2>6. versions[t][i].attempt \in 1..Attempt(t) /\ k <= versions[t][i].attempt
    BY <1>k, <2>5 DEF VersionsKept
  <2>7. versions[t][i].attempt = Attempt(t)
    BY <1>6, <2>3, <2>6
  <2>8. versions[t][i].state \in Halted
    BY <2>3, <2>4, <2>7 DEF Halted, Terminal
  <2>9. Current(t).state \in Halted
    BY <2>5, <2>7, <2>8 DEF VersionsKept
  <2> QED BY <2>3, <2>9 DEF Halted, Terminal
<1>10. start > 0 => (HasRun(t, k) => HasRun(t, k)')
  <2> SUFFICES ASSUME start > 0, HasRun(t, k) PROVE HasRun(t, k)'
    OBVIOUS
  <2>1. k \in AttemptNumbers
    BY <1>7k
  <2>2. Len(runs[t][k]) \in Nat /\ Len(runs'[t][k]) \in Nat /\ Len(runs[t][k]) <= Len(runs'[t][k]) /\ Len(runs[t][k]) >= 1
    BY <2>1, RunTables, RunColumns, RunColumnsAfter DEF RunsColumned, Grows, Extends
  <2>3. runs'[t][k] # <<>>
    BY <2>2
  <2> QED BY <2>1, <2>3 DEF HasRun
<1>11. start > 0 => Proofs(t, k, start + 1, kind, final)' = Proofs(t, k, start + 1, kind, final)
                     /\ RunFacts(t, start + 1, k)' = RunFacts(t, start + 1, k)
  <2> SUFFICES ASSUME start > 0
               PROVE  Proofs(t, k, start + 1, kind, final)' = Proofs(t, k, start + 1, kind, final)
                      /\ RunFacts(t, start + 1, k)' = RunFacts(t, start + 1, k)
    OBVIOUS
  <2>1. RunFacts(t, start + 1, k)' = RunFacts(t, start + 1, k)
        /\ \A p \in RunFacts(t, start + 1, k) : runs'[t][k][p] = runs[t][k][p]
    BY SMTT(30), <1>1, <1>7k, <1>8
  <2>2. ASSUME NEW p \in RunFacts(t, start + 1, k)
        PROVE  p \in Proofs(t, k, start + 1, kind, final)' <=> p \in Proofs(t, k, start + 1, kind, final)
    BY <2>1 DEF Proofs
  <2> QED BY <2>1, <2>2 DEF Proofs
<1> DEFINE needed == Starts(kind, final) \/ ClosesRun(kind, final) \/ (kind \notin Internal /\ replaces /\ HasRun(t, k))
           neededAfter == Starts(kind, final) \/ ClosesRun(kind, final) \/ (kind \notin Internal /\ replacesAfter /\ HasRun(t, k)')
<1>12. needed => /\ start > 0 /\ HasRun(t, k)
                 /\ \E p \in Proofs(t, k, start + 1, kind, final) :
                      /\ Proofs(t, k, start + 1, kind, final) = {p}
                      /\ \A i \in (start + 1)..end : p \in RunFacts(t, i, k)
  BY <1>3, <1>k DEF ProofValid
<1>13. replacesAfter => replaces
  BY <1>4
<1>14. neededAfter => needed
  BY <1>9, <1>13
<1>15. neededAfter => /\ start > 0 /\ HasRun(t, k)'
                      /\ \E p \in Proofs(t, k, start + 1, kind, final)' :
                           /\ Proofs(t, k, start + 1, kind, final)' = {p}
                           /\ \A i \in (start + 1)..end : p \in RunFacts(t, i, k)'
  <2> HIDE DEF needed
  <2> SUFFICES ASSUME needed
               PROVE  /\ start > 0 /\ HasRun(t, k)'
                      /\ \E p \in Proofs(t, k, start + 1, kind, final)' :
                           /\ Proofs(t, k, start + 1, kind, final)' = {p}
                           /\ \A i \in (start + 1)..end : p \in RunFacts(t, i, k)'
    BY <1>14
  <2>1. start > 0 /\ HasRun(t, k)' /\ k \in AttemptNumbers
    BY <1>7k, <1>10, <1>12
  <2>2. PICK p \in Proofs(t, k, start + 1, kind, final) :
          Proofs(t, k, start + 1, kind, final) = {p} /\ \A i \in (start + 1)..end : p \in RunFacts(t, i, k)
    BY <1>12
  <2>3. \A i \in (start + 1)..end : p \in RunFacts(t, i, k)'
    BY <1>8, <2>1, <2>2
  <2> QED BY <1>11, <2>1, <2>2, <2>3
<1>16. start > 0 => k = versions'[t][start].attempt
  BY <1>5, <1>k
<1>17. /\ \A i \in (start + 1)..end : versions'[t][i].epoch = final.epoch
       /\ kind \in Internal /\ final.state = "WAITING_INPUT" =>
            start > 0 /\ {f \in final.facts : f[1] = "decision"} = {<<"decision", 0, start>>}
  BY <1>3, <1>4 DEF ProofValid
<1>18. CASE start > 0
  BY <1>4, <1>15, <1>16, <1>17, <1>18 DEF ProofValid
<1>19. CASE start = 0
  <2>1. ~neededAfter /\ ~replacesAfter
    BY <1>15, <1>19
  <2> QED BY <1>4, <1>17, <1>19, <2>1 DEF ProofValid
<1> QED BY <1>18, <1>19

CommandOK(t, j) ==
  LET r == receipts[j]  start == StartOf(r) IN
  /\ r.revision \in (start + 1)..(start + 16) /\ r.revision <= Len(versions[t])
  /\ (start = 0) = (r.kind = "task.create")
  /\ MetadataValid(t, r.kind, start, r.revision)
  /\ SpanPublished(t, start, r)
  /\ ProofValid(t, r.kind, start, r.revision)

\* A command starts from the last earlier command of its task.
LEMMA StartIs ==
  ASSUME TypeOK, NEW r \in ReceiptRows
  PROVE  /\ StartOf(r) \in Nat /\ StartOf(r) <= r.revision
         /\ \A j \in Commands(r.task) : receipts[j].revision < r.revision => receipts[j].revision <= StartOf(r)
         /\ StartOf(r) > 0 => \E j \in Commands(r.task) : receipts[j].revision = StartOf(r) /\ StartOf(r) < r.revision
<1> DEFINE Before == {j \in Commands(r.task) : receipts[j].revision < r.revision}
           S == {0} \cup {receipts[j].revision : j \in Before}
<1>1. r.revision \in Nat /\ \A j \in Commands(r.task) : receipts[j].revision \in Nat
  BY Columns DEF ReceiptRows, Columned, Commands
<1>2. S \subseteq 0..r.revision /\ S # {}
  BY <1>1
<1>3. StartOf(r) = MaxOf(S)
  BY DEF StartOf
<1>4. StartOf(r) \in S /\ \A n \in S : n <= StartOf(r)
  <2> HIDE DEF S
  <2> QED BY <1>1, <1>2, <1>3, MaxExists
<1>5. StartOf(r) \in 0..r.revision
  <2> HIDE DEF S
  <2> QED BY <1>2, <1>4
<1>6. \A j \in Before : receipts[j].revision <= StartOf(r)
  BY <1>4
<1>7. StartOf(r) > 0 => \E j \in Before : receipts[j].revision = StartOf(r)
  BY <1>4
<1> HIDE DEF S
<1> QED BY <1>1, <1>5, <1>6, <1>7

\* An old command is found valid again.
LEMMA CommandStays ==
  ASSUME RowsInv, TypeOK', Grows, NEW t \in Names, NEW j \in Commands(t)
  PROVE  /\ j \in Commands(t)' /\ CommandOK(t, j)' /\ receipts'[j] = receipts[j]
         /\ StartOf(receipts[j])' = StartOf(receipts[j])
<1>1. TypeOK /\ CommandsValid /\ OutboxValid /\ VersionsKept
  BY DEF RowsInv, RowsValid
<1>2. PICK r \in ReceiptRows : r = receipts[j]
  BY <1>1, Tables DEF Commands
<1>3. PICK start \in Nat : start = StartOf(r)
  BY <1>1, StartIs
<1>4. /\ r.revision \in (start + 1)..(start + 16) /\ r.revision <= Len(versions[t])
      /\ (start = 0) = (r.kind = "task.create")
      /\ MetadataValid(t, r.kind, start, r.revision)
      /\ SpanPublished(t, start, r)
      /\ ProofValid(t, r.kind, start, r.revision)
  BY <1>1, <1>2, <1>3 DEF CommandsValid
<1>5. r.task = t /\ r.kind # "task.runtime-input" /\ j \in DOMAIN receipts
  BY <1>2 DEF Commands
<1>6. Len(receipts) \in Nat /\ Len(receipts') \in Nat /\ DOMAIN receipts = 1..Len(receipts) /\ DOMAIN receipts' = 1..Len(receipts')
      /\ \A c \in 1..Len(outbox) : outbox[c].recovery <= recovery
  BY <1>1, Columns, ColumnsAfter DEF Columned, OutboxValid
<1>7. receipts'[j] = r /\ j \in DOMAIN receipts'
  BY SMTT(30), <1>2, <1>5, <1>6 DEF Grows, Extends
<1>8. j \in Commands(t)'
  BY <1>5, <1>7 DEF Commands
<1>9. StartOf(r)' = start
  BY <1>1, <1>3, <1>4, <1>5, StartStays
<1>10. r.revision \in Nat /\ Len(versions[t]) \in Nat /\ Len(versions'[t]) \in Nat /\ start < r.revision
       /\ Len(versions[t]) <= Len(versions'[t]) /\ r.revision <= Len(versions[t])
  <2>1. r.revision \in Nat
    BY DEF ReceiptRows
  <2>2. Len(versions[t]) \in Nat /\ Len(versions'[t]) \in Nat
    BY <1>1, VersionColumns, VersionColumnsAfter DEF VersionsColumned
  <2>3. Len(versions[t]) <= Len(versions'[t])
    BY DEF Grows, Extends
  <2> QED BY <1>4, <2>1, <2>2, <2>3
<1>11. r.kind \in {"task.pause", "task.retry", "task.revise-request", "task.respond"} => start > 0
  BY <1>4
<1>12. MetadataValid(t, r.kind, start, r.revision)'
  BY <1>1, <1>4, <1>10, <1>11, MetadataStays
<1>13. SpanPublished(t, start, r)'
  BY <1>1, <1>4, <1>6, <1>10, SpanStays
<1>14. ProofValid(t, r.kind, start, r.revision)'
  BY <1>1, <1>4, <1>10, ProofStays
<1>15. r.revision <= Len(versions'[t])
  BY <1>10
<1>16. receipts'[j] = receipts[j] /\ StartOf(receipts[j])' = StartOf(receipts[j])
  BY <1>2, <1>3, <1>7, <1>9
<1> QED BY <1>4, <1>7, <1>8, <1>9, <1>12, <1>13, <1>14, <1>15, <1>16 DEF CommandOK

\* The commands are valid after a step whose new ones are.
LEMMA CommandsGrow ==
  ASSUME RowsInv, TypeOK', Grows,
         \A t \in Names : \A j \in Commands(t)' : j > Len(receipts) => CommandOK(t, j)',
         \A t \in Names : versions'[t] # versions[t] =>
           \E j \in Commands(t)' : receipts'[j].revision = Len(versions'[t])
  PROVE  CommandsValid'
<1>1. TypeOK /\ CommandsValid
  BY DEF RowsInv, RowsValid
<1>2. Len(receipts) \in Nat /\ Len(receipts') \in Nat /\ DOMAIN receipts = 1..Len(receipts) /\ DOMAIN receipts' = 1..Len(receipts')
  BY <1>1, Columns, ColumnsAfter DEF Columned
<1>3. ASSUME NEW t \in Names, NEW j, j \in Commands(t)' PROVE CommandOK(t, j)'
  <2>1. j \in 1..Len(receipts') /\ receipts'[j].task = t /\ receipts'[j].kind # "task.runtime-input"
    BY <1>2, <1>3 DEF Commands
  <2>2. CASE j > Len(receipts)
    BY <1>3, <2>2
  <2>3. CASE j <= Len(receipts)
    <3>1. j \in 1..Len(receipts) /\ receipts'[j] = receipts[j]
      BY <1>2, <2>1, <2>3 DEF Grows, Extends
    <3>2. j \in Commands(t)
      BY <1>2, <2>1, <3>1 DEF Commands
    <3> QED BY <3>2, CommandStays
  <2> QED BY <1>2, <2>1, <2>2, <2>3
<1>4. ASSUME NEW t \in Names, Exists(t)'
      PROVE  \E j \in Commands(t)' : receipts'[j].revision = Len(versions'[t])
  <2>1. CASE versions'[t] # versions[t]
    BY <2>1
  <2>2. CASE versions'[t] = versions[t]
    <3>1. PICK j \in Commands(t) : receipts[j].revision = Len(versions[t])
      BY <1>1, <1>4, <2>2 DEF CommandsValid, Exists
    <3> QED BY <2>2, <3>1, CommandStays
  <2> QED BY <2>1, <2>2
<1> QED BY <1>3, <1>4 DEF CommandsValid, CommandOK

\* An old snapshot is found valid again.
LEMMA SnapshotStays ==
  ASSUME RowsInv, TypeOK', Grows, NEW t \in Names, NEW k \in AttemptNumbers, NEW i \in DOMAIN runs[t][k]
  PROVE  SnapshotValid(t, k, i)'
<1>1. TypeOK /\ RunsValid /\ RunsKept
  BY DEF RowsInv, RowsValid
<1>2. DOMAIN runs[t][k] = 1..Len(runs[t][k]) /\ Len(runs[t][k]) \in Nat
      /\ \A p \in 1..Len(runs[t][k]) : runs'[t][k][p] = runs[t][k][p]
  BY <1>1, RunColumns DEF RunsColumned, Grows, Extends
<1>3. PICK run : run = runs[t][k][i]
  OBVIOUS
<1>4. runs'[t][k][i] = run /\ runs'[t][k][1] = runs[t][k][1] /\ (i # 1 => runs'[t][k][i - 1] = runs[t][k][i - 1])
  BY SMTT(30), <1>2, <1>3
<1>5. run.at \in DOMAIN versions[t] /\ run.input \in DOMAIN inputs
  BY <1>1, <1>3 DEF RunsKept
<1>6. versions'[t][run.at] = versions[t][run.at] /\ inputs'[run.input] = inputs[run.input]
  BY <1>1, <1>5, VersionColumns, Columns DEF VersionsColumned, Columned, Grows, Extends
<1>7. SnapshotValid(t, k, i)
  BY <1>1 DEF RunsValid
<1> QED BY <1>3, <1>4, <1>6, <1>7 DEF SnapshotValid

\* The executions are valid after a step whose new snapshots are.
LEMMA RunsGrow ==
  ASSUME RowsInv, TypeOK', Grows,
         \A t \in Names, k \in AttemptNumbers : \A i \in 1..Len(runs'[t][k]) : i > Len(runs[t][k]) => SnapshotValid(t, k, i)'
  PROVE  RunsValid'
<1>1. TypeOK
  BY DEF RowsInv
<1>2. ASSUME NEW t \in Names, NEW k \in AttemptNumbers, NEW i \in DOMAIN runs'[t][k] PROVE SnapshotValid(t, k, i)'
  <2>1. i \in 1..Len(runs'[t][k]) /\ Len(runs[t][k]) \in Nat /\ DOMAIN runs[t][k] = 1..Len(runs[t][k])
    BY <1>1, RunColumns, RunColumnsAfter DEF RunsColumned
  <2>2. CASE i > Len(runs[t][k])
    BY <2>1, <2>2
  <2>3. CASE i <= Len(runs[t][k])
    <3>1. i \in DOMAIN runs[t][k]
      BY <2>1, <2>3
    <3> QED BY <3>1, SnapshotStays
  <2> QED BY <2>1, <2>2, <2>3
<1> QED BY <1>2 DEF RunsValid

\* An old event or request leans on the same version and snapshot.
LEMMA LeansStays ==
  ASSUME TypeOK, TypeOK', Grows, NEW row, row.task \in Names, row.attempt \in AttemptNumbers,
         row.revision \in DOMAIN versions[row.task], row.run \in DOMAIN runs[row.task][row.attempt], Leans(row)
  PROVE  Leans(row)'
<1>1. PICK t \in Names, k \in AttemptNumbers, n \in {row.revision}, m \in {row.run} : t = row.task /\ k = row.attempt /\ n = row.revision /\ m = row.run
  OBVIOUS
<1>2. n \in 1..Len(versions[t]) /\ m \in 1..Len(runs[t][k])
  BY <1>1, VersionColumns, RunColumns DEF VersionsColumned, RunsColumned
<1>3. versions'[t][n] = versions[t][n]
  BY <1>2 DEF Grows, Extends
<1>4. runs'[t][k][m] = runs[t][k][m]
  BY <1>2 DEF Grows, Extends
<1> QED BY <1>1, <1>3, <1>4 DEF Leans

\* An old receipt is found valid again.
LEMMA ReceiptStays ==
  ASSUME TypeOK, TypeOK', Grows, NEW r, ReceiptValid(r)
  PROVE  ReceiptValid(r)'
<1>1. r.cursor \in 1..Len(outbox) /\ DOMAIN outbox' = 1..Len(outbox') /\ Len(outbox) \in Nat /\ Len(outbox') \in Nat
  BY Columns, ColumnsAfter DEF Columned, ReceiptValid
<1>2. SameEvent(outbox[r.cursor], outbox'[r.cursor]) /\ r.cursor \in 1..Len(outbox')
  BY <1>1 DEF Grows
<1> QED BY <1>1, <1>2 DEF ReceiptValid, SameEvent

\* The receipts are valid after a step whose new ones are.
LEMMA ReceiptsGrow ==
  ASSUME RowsInv, TypeOK', Grows,
         \A j \in 1..Len(receipts') : j > Len(receipts) => ReceiptValid(receipts[j])'
  PROVE  ReceiptsValid'
<1>1. TypeOK /\ ReceiptsValid
  BY DEF RowsInv, RowsValid
<1>2. Len(receipts) \in Nat /\ DOMAIN receipts = 1..Len(receipts) /\ DOMAIN receipts' = 1..Len(receipts')
  BY <1>1, Columns, ColumnsAfter DEF Columned
<1>3. ASSUME NEW j \in DOMAIN receipts' PROVE ReceiptValid(receipts[j])'
  <2>1. j \in 1..Len(receipts')
    BY <1>2
  <2>2. CASE j > Len(receipts)
    BY <2>1, <2>2
  <2>3. CASE j <= Len(receipts)
    <3>1. j \in DOMAIN receipts /\ receipts'[j] = receipts[j]
      BY <1>2, <2>1, <2>3 DEF Grows, Extends
    <3>2. PICK r : r = receipts[j]
      OBVIOUS
    <3>3. ReceiptValid(r)'
      BY <1>1, <3>1, <3>2, ReceiptStays DEF ReceiptsValid
    <3> QED BY <3>1, <3>2, <3>3
  <2> QED BY <1>2, <2>1, <2>2, <2>3
<1> QED BY <1>3 DEF ReceiptsValid

\* The command an old event settled is found valid again.
LEMMA SettlementStays ==
  ASSUME RowsInv, TypeOK', Grows, NEW e \in DOMAIN events, NEW j \in Settlements(e)
  PROVE  SettlementValid(e, receipts[j])' /\ receipts'[j] = receipts[j]
<1>1. TypeOK /\ EventsValid /\ ReceiptsKept /\ CommandsValid /\ MessagesKept
  BY DEF RowsInv, RowsValid
<1>2. PICK r \in ReceiptRows : r = receipts[j]
  BY <1>1, Tables DEF Settlements
<1>3. PICK row \in EventRows : row = events[e]
  BY <1>1, Tables
<1>4. SettlementValid(e, r)
  BY <1>1, <1>2 DEF EventsValid
<1>5. j \in 1..Len(receipts) /\ e \in 1..Len(events)
  BY <1>1, Columns DEF Columned, Settlements
<1>6. receipts'[j] = r /\ events'[e] = row
  BY <1>2, <1>3, <1>5 DEF Grows, Extends
<1>7. r.task = row.task /\ r.task \in Names /\ r.kind = "task.runtime"
  BY <1>3, <1>4 DEF SettlementValid, EventRows
<1>8. j \in Commands(r.task)
  BY <1>1, <1>2, <1>5, <1>7, Columns DEF Columned, Commands
<1>9. r.revision <= Len(versions[r.task]) /\ r.revision \in Nat /\ StartOf(r) < r.revision /\ StartOf(r) \in Nat
  <2>1. r.revision \in (StartOf(r) + 1)..(StartOf(r) + 16) /\ r.revision <= Len(versions[r.task])
    BY <1>2, <1>1, <1>7, <1>8 DEF CommandsValid
  <2>2. StartOf(r) \in Nat /\ r.revision \in Nat
    BY <1>1, StartIs DEF ReceiptRows
  <2> QED BY <2>1, <2>2
<1>10. StartOf(r)' = StartOf(r)
  BY <1>1, <1>7, <1>9, StartStays
<1>11. versions'[r.task][r.revision] = versions[r.task][r.revision]
  <2>1. r.revision \in 1..Len(versions[r.task])
    <3>1. Len(versions[r.task]) \in Nat
      BY <1>1, <1>7, VersionColumns DEF VersionsColumned
    <3> QED BY <1>9, <3>1
  <2> QED BY Zenon, <1>7, <2>1 DEF Grows, Extends
<1>12. row.cursor \in Nat /\ row.cursor < Len(outbox) /\ Len(outbox) \in Nat /\ Len(outbox') \in Nat /\ Len(outbox) <= Len(outbox')
  BY <1>1, <1>3, <1>4, Columns, ColumnsAfter DEF Columned, SettlementValid, EventRows, Grows
<1>13. SameEvent(outbox[row.cursor + 1], outbox'[row.cursor + 1])
  BY <1>12 DEF Grows
<1>14. PICK final : final = versions[row.task][r.revision]
  OBVIOUS
<1>15. PICK first : first = outbox[row.cursor + 1]
  OBVIOUS
<1>16. /\ StartOf(r) = row.revision
       /\ first.type = "task.state_changed" /\ first.of = row.task /\ first.revision = row.revision + 1
       /\ first.epoch = row.epoch /\ first.recovery = row.recovery /\ row.cursor + 1 <= r.cursor
       /\ final.state = "VERIFYING" /\ final.attempt = row.attempt /\ final.epoch = row.epoch
       /\ <<"event", 0, e>> \in final.facts
  BY <1>3, <1>4, <1>14, <1>15 DEF SettlementValid
<1>17. versions'[row.task][r.revision] = final
  BY <1>7, <1>11, <1>14
<1>18. PICK after : after = outbox'[row.cursor + 1]
  OBVIOUS
<1>19. after.type = first.type /\ after.of = first.of /\ after.revision = first.revision /\ after.epoch = first.epoch
       /\ after.recovery = first.recovery
  BY <1>13, <1>15, <1>18 DEF SameEvent
<1>20. row.cursor < Len(outbox')
  BY <1>12
<1>21. SettlementValid(e, r)'
  BY <1>6, <1>7, <1>10, <1>16, <1>17, <1>18, <1>19, <1>20 DEF SettlementValid
<1> QED BY <1>2, <1>6, <1>21

OrderedPair(i, j, rows) ==
  i < j /\ rows[i].task = rows[j].task /\ rows[i].attempt = rows[j].attempt =>
    rows[i].revision <= rows[j].revision /\ rows[i].run <= rows[j].run

\* Rows stay in order when the new ones follow.
LEMMA OrderedGrows ==
  ASSUME NEW S, NEW old \in Seq(S), NEW new \in Seq(S), Extends(old, new), Ordered(old),
         \A j \in 1..Len(new) : j > Len(old) => \A i \in 1..Len(new) : OrderedPair(i, j, new)
  PROVE  Ordered(new)
<1>1. DOMAIN new = 1..Len(new) /\ DOMAIN old = 1..Len(old) /\ Len(old) \in Nat /\ Len(new) \in Nat
  OBVIOUS
<1>2. ASSUME NEW i \in 1..Len(new), NEW j \in 1..Len(new) PROVE OrderedPair(i, j, new)
  <2>1. CASE j > Len(old)
    BY <2>1
  <2>2. CASE j <= Len(old) /\ i < j
    <3>1. i \in 1..Len(old) /\ j \in 1..Len(old)
      BY <1>1, <2>2
    <3>2. new[i] = old[i] /\ new[j] = old[j]
      BY <3>1 DEF Extends
    <3> QED BY <1>1, <3>1, <3>2 DEF Ordered, OrderedPair
  <2>3. CASE ~(i < j)
    BY <2>3 DEF OrderedPair
  <2> QED BY <1>1, <2>1, <2>2, <2>3
<1> QED BY <1>1, <1>2 DEF Ordered, OrderedPair

EventOK(e) ==
  /\ Leans(events[e]) /\ events[e].cursor \in DOMAIN outbox /\ outbox[events[e].cursor].type = "task.progress"
  /\ \A i, j \in Settlements(e) : i = j
  /\ \A i \in Settlements(e) : SettlementValid(e, receipts[i])
  /\ events[e].ack = MaxOf({events[e].cursor} \cup {receipts[i].cursor : i \in Settlements(e)})

\* An old event of a worker is found valid again.
LEMMA EventStays ==
  ASSUME RowsInv, TypeOK', Grows, NEW e \in DOMAIN events
  PROVE  EventOK(e)' /\ events'[e] = events[e]
<1>1. TypeOK /\ EventsValid /\ MessagesKept
  BY DEF RowsInv, RowsValid
<1>2. /\ DOMAIN events = 1..Len(events) /\ Len(events) \in Nat /\ Len(receipts) \in Nat /\ Len(receipts') \in Nat
      /\ DOMAIN receipts = 1..Len(receipts) /\ DOMAIN receipts' = 1..Len(receipts')
      /\ DOMAIN outbox = 1..Len(outbox) /\ DOMAIN outbox' = 1..Len(outbox') /\ Len(outbox) \in Nat /\ Len(outbox') \in Nat
  BY <1>1, Columns, ColumnsAfter DEF Columned
<1>3. PICK row \in EventRows : row = events[e]
  BY <1>1, Tables
<1>4. events'[e] = row
  BY <1>2, <1>3 DEF Grows, Extends
<1>5. Settlements(e)' = Settlements(e)
  <2>1. \A j \in 1..Len(receipts') : j > Len(receipts) => receipts'[j].event # e
    <3> SUFFICES ASSUME NEW j \in 1..Len(receipts'), j > Len(receipts) PROVE receipts'[j].event # e
      OBVIOUS
    <3>1. receipts'[j].event = 0 \/ receipts'[j].event > Len(events)
      BY DEF Grows
    <3> QED BY <1>2, <3>1
  <2>2. Len(receipts) <= Len(receipts') /\ \A j \in 1..Len(receipts) : receipts'[j] = receipts[j]
    BY DEF Grows, Extends
  <2>3. ASSUME NEW j PROVE j \in Settlements(e)' <=> j \in Settlements(e)
    BY <1>2, <2>1, <2>2 DEF Settlements
  <2> QED BY <2>3
<1>6. \A j \in Settlements(e) : receipts'[j] = receipts[j] /\ SettlementValid(e, receipts[j])'
  BY SettlementStays
<1>7. Leans(row)'
  <2>1. row.task \in Names /\ row.attempt \in AttemptNumbers
    BY DEF EventRows
  <2>2. row.revision \in DOMAIN versions[row.task] /\ row.run \in DOMAIN runs[row.task][row.attempt]
    BY <1>1, <1>3 DEF MessagesKept
  <2>3. Leans(row)
    BY <1>1, <1>3 DEF EventsValid
  <2> QED BY <1>1, <2>1, <2>2, <2>3, LeansStays
<1>8. /\ row.cursor \in DOMAIN outbox /\ outbox[row.cursor].type = "task.progress"
      /\ \A i, j \in Settlements(e) : i = j
      /\ row.ack = MaxOf({row.cursor} \cup {receipts[i].cursor : i \in Settlements(e)})
  BY <1>1, <1>3 DEF EventsValid
<1>9. row.cursor \in DOMAIN outbox' /\ outbox'[row.cursor].type = "task.progress"
  BY <1>2, <1>8 DEF Grows, SameEvent
<1>10. {receipts'[i].cursor : i \in Settlements(e)'} = {receipts[i].cursor : i \in Settlements(e)}
  BY <1>5, <1>6
<1>11. row.ack = MaxOf({row.cursor} \cup {receipts'[i].cursor : i \in Settlements(e)'})
  BY <1>8, <1>10
<1> QED BY <1>3, <1>4, <1>5, <1>6, <1>7, <1>8, <1>9, <1>11 DEF EventOK

SettlesOK(i) ==
  receipts[i].kind = "task.runtime" /\ versions[receipts[i].task][receipts[i].revision].state = "VERIFYING" =>
    LET e == receipts[i].event IN
    /\ e \in DOMAIN events /\ events[e].task = receipts[i].task
    /\ {f \in versions[receipts[i].task][receipts[i].revision].facts : f[1] = "event"} = {<<"event", 0, e>>}

\* The workers' events are valid after a step whose new ones are.
LEMMA EventsGrow ==
  ASSUME RowsInv, TypeOK', Grows,
         \A j \in 1..Len(events') : j > Len(events) =>
           /\ \A i \in 1..Len(events') : OrderedPair(i, j, events')
           /\ j > 1 => events'[j - 1].cursor < events'[j].cursor
           /\ EventOK(j)',
         \A i \in 1..Len(receipts') : i > Len(receipts) => SettlesOK(i)'
  PROVE  EventsValid'
<1>1. TypeOK /\ EventsValid /\ ReceiptsKept
  BY DEF RowsInv, RowsValid
<1>2. /\ DOMAIN events = 1..Len(events) /\ Len(events) \in Nat /\ DOMAIN events' = 1..Len(events') /\ Len(events') \in Nat
      /\ Len(receipts) \in Nat /\ Len(receipts') \in Nat
      /\ DOMAIN receipts = 1..Len(receipts) /\ DOMAIN receipts' = 1..Len(receipts')
  BY <1>1, Columns, ColumnsAfter DEF Columned
<1>3. Len(events) <= Len(events') /\ \A j \in 1..Len(events) : events'[j] = events[j]
  BY DEF Grows, Extends
<1>4. Ordered(events)'
  <2>1. events \in Seq(EventRows) /\ events' \in Seq(EventRows) /\ Extends(events, events') /\ Ordered(events)
    BY <1>1 DEF TypeOK, Grows, EventsValid
  <2>2. Ordered(events')
    BY <2>1, OrderedGrows
  <2> QED BY <2>2 DEF Ordered
<1>5. ASSUME NEW i \in 2..Len(events') PROVE events'[i - 1].cursor < events'[i].cursor
  <2>1. CASE i > Len(events)
    BY <1>2, <2>1
  <2>2. CASE i <= Len(events)
    <3>1. i \in 2..Len(events) /\ i - 1 \in 1..Len(events) /\ i \in 1..Len(events)
      BY <1>2, <2>2
    <3> QED BY <1>1, <1>3, <3>1 DEF EventsValid
  <2> QED BY <1>2, <2>1, <2>2
<1>6. ASSUME NEW e \in DOMAIN events' PROVE EventOK(e)'
  <2>1. CASE e > Len(events)
    BY <1>2, <2>1
  <2>2. CASE e <= Len(events)
    <3>1. e \in DOMAIN events
      BY <1>2, <2>2
    <3> QED BY <3>1, EventStays
  <2> QED BY <1>2, <2>1, <2>2
<1>7. ASSUME NEW i \in DOMAIN receipts' PROVE SettlesOK(i)'
  <2>1. CASE i > Len(receipts)
    BY <1>2, <2>1
  <2>2. CASE i <= Len(receipts)
    <3>1. i \in DOMAIN receipts /\ receipts'[i] = receipts[i] /\ i \in 1..Len(receipts)
      BY <1>2, <2>2 DEF Grows, Extends
    <3>2. PICK r \in ReceiptRows : r = receipts[i]
      BY <1>1, <3>1, Tables
    <3>3. CASE r.kind # "task.runtime"
      BY <3>1, <3>2, <3>3 DEF SettlesOK
    <3>4. CASE r.kind = "task.runtime"
      <4>1. i # 1 /\ r.task # Session
        BY <1>1, <3>1, <3>2, <3>4 DEF ReceiptsKept
      <4>2. r.task \in Names
        BY <4>1 DEF ReceiptRows
      <4>3. r.revision \in DOMAIN versions[r.task]
        <5>1. i > 1
          BY <1>2, <3>1, <4>1
        <5>2. receipts[i].revision \in DOMAIN versions[receipts[i].task]
          BY <1>1, <3>1, <5>1 DEF ReceiptsKept
        <5> QED BY <3>2, <5>2
      <4>4. versions'[r.task][r.revision] = versions[r.task][r.revision]
        <5>1. PICK t \in Names, n \in {r.revision} : t = r.task /\ n = r.revision
          BY <4>2
        <5>2. n \in 1..Len(versions[t])
          BY <1>1, <4>3, <5>1, VersionColumns DEF VersionsColumned
        <5>3. versions'[t][n] = versions[t][n]
          BY <5>2 DEF Grows, Extends
        <5> QED BY <5>1, <5>3
      <4>5. SettlesOK(i)
        BY <1>1, <3>1 DEF EventsValid, SettlesOK
      <4>6. ASSUME NEW e \in DOMAIN events PROVE e \in DOMAIN events' /\ events'[e] = events[e]
        BY <1>2, <1>3
      <4>7. PICK v : v = versions[r.task][r.revision]
        OBVIOUS
      <4>8. PICK e : e = r.event
        OBVIOUS
      <4>9. v.state = "VERIFYING" => /\ e \in DOMAIN events /\ events[e].task = r.task
                                     /\ {f \in v.facts : f[1] = "event"} = {<<"event", 0, e>>}
        BY <3>2, <3>4, <4>5, <4>7, <4>8 DEF SettlesOK
      <4> QED BY <3>1, <3>2, <4>4, <4>6, <4>7, <4>8, <4>9 DEF SettlesOK
    <3> QED BY <3>3, <3>4
  <2> QED BY <1>2, <2>1, <2>2
<1> QED BY <1>4, <1>5, <1>6, <1>7 DEF EventsValid, EventOK, SettlesOK

RequestOK(i) ==
  /\ Leans(requests[i]) /\ runs[requests[i].task][requests[i].attempt][requests[i].run].state = "BUSY"
  /\ versions[requests[i].task][requests[i].revision].state = "RUNNING"

\* So are the model requests.
LEMMA RequestsGrow ==
  ASSUME RowsInv, TypeOK', Grows,
         \A j \in 1..Len(requests') : j > Len(requests) =>
           (\A i \in 1..Len(requests') : OrderedPair(i, j, requests')) /\ RequestOK(j)'
  PROVE  RequestsValid'
<1>1. TypeOK /\ RequestsValid /\ MessagesKept
  BY DEF RowsInv, RowsValid
<1>2. DOMAIN requests = 1..Len(requests) /\ Len(requests) \in Nat /\ DOMAIN requests' = 1..Len(requests') /\ Len(requests') \in Nat
  BY <1>1, Columns, ColumnsAfter DEF Columned
<1>3. Len(requests) <= Len(requests') /\ \A j \in 1..Len(requests) : requests'[j] = requests[j]
  BY DEF Grows, Extends
<1>4. Ordered(requests)'
  <2>1. requests \in Seq(RequestRows) /\ requests' \in Seq(RequestRows) /\ Extends(requests, requests') /\ Ordered(requests)
    BY <1>1 DEF TypeOK, Grows, RequestsValid
  <2>2. Ordered(requests')
    BY <2>1, OrderedGrows
  <2> QED BY <2>2 DEF Ordered
<1>5. ASSUME NEW e \in DOMAIN requests' PROVE RequestOK(e)'
  <2>1. CASE e > Len(requests)
    BY <1>2, <2>1
  <2>2. CASE e <= Len(requests)
    <3>1. e \in DOMAIN requests /\ e \in 1..Len(requests)
      BY <1>2, <2>2
    <3>2. PICK row \in RequestRows : row = requests[e]
      BY <1>1, <3>1, Tables
    <3>3. requests'[e] = row
      BY <1>3, <3>1, <3>2
    <3>4. PICK t \in Names, k \in AttemptNumbers, n \in {row.revision}, m \in {row.run} : t = row.task /\ k = row.attempt /\ n = row.revision /\ m = row.run
      BY DEF RequestRows
    <3>5. n \in DOMAIN versions[t] /\ m \in DOMAIN runs[t][k] /\ Leans(row)
          /\ runs[t][k][m].state = "BUSY" /\ versions[t][n].state = "RUNNING"
      BY <1>1, <3>1, <3>2, <3>4 DEF MessagesKept, RequestsValid
    <3>6. Leans(row)'
      BY <1>1, <3>4, <3>5, LeansStays
    <3>7. versions'[t][n] = versions[t][n] /\ runs'[t][k][m] = runs[t][k][m]
      <4>1. n \in 1..Len(versions[t]) /\ m \in 1..Len(runs[t][k])
        BY <1>1, <3>5, VersionColumns, RunColumns DEF VersionsColumned, RunsColumned
      <4>2. Extends(versions[t], versions'[t]) /\ Extends(runs[t][k], runs'[t][k])
        BY DEF Grows
      <4> QED BY <4>1, <4>2 DEF Extends
    <3> QED BY <3>3, <3>4, <3>5, <3>6, <3>7 DEF RequestOK
  <2> QED BY <1>2, <2>1, <2>2
<1> QED BY <1>4, <1>5 DEF RequestsValid, RequestOK

\* A command names a version of its task, after the one it started from.
LEMMA RevisionIs ==
  ASSUME RowsInv, NEW t \in Names, NEW j \in Commands(t)
  PROVE  /\ receipts[j] \in ReceiptRows /\ receipts[j].task = t /\ j \in 1..Len(receipts)
         /\ receipts[j].revision \in 1..Len(versions[t])
         /\ StartOf(receipts[j]) \in Nat /\ StartOf(receipts[j]) < receipts[j].revision
<1>1. TypeOK /\ CommandsValid
  BY DEF RowsInv, RowsValid
<1>2. PICK r \in ReceiptRows : r = receipts[j]
  BY <1>1, Tables DEF Commands
<1>3. r.task = t /\ j \in 1..Len(receipts)
  BY <1>1, <1>2, Columns DEF Commands, Columned
<1>4. r.revision \in (StartOf(r) + 1)..(StartOf(r) + 16) /\ r.revision <= Len(versions[t])
  BY <1>1, <1>2 DEF CommandsValid
<1>5. StartOf(r) \in Nat /\ r.revision \in Nat /\ Len(versions[t]) \in Nat
  BY <1>1, StartIs, VersionColumns DEF ReceiptRows, VersionsColumned
<1>6. r.revision \in 1..Len(versions[t]) /\ StartOf(r) < r.revision
  BY <1>4, <1>5
<1> QED BY <1>2, <1>3, <1>5, <1>6

RenewedBy(j, c) ==
  LET r == receipts[j]  start == StartOf(r) IN
  /\ r.kind \in Renewing
  /\ outbox[c + 1].revision = start + 1
  /\ start = 0 \/ versions[r.task][start].attempt # versions[r.task][r.revision].attempt

\* An old event of the session is found valid again.
LEMMA SessionEventStays ==
  ASSUME RowsInv, TypeOK', Grows, NEW c \in DOMAIN outbox, outbox[c].type \in SessionEvents
  PROVE  SessionEventValid(c)'
<1>1. TypeOK /\ OutboxValid /\ OutboxKept
  BY DEF RowsInv, RowsValid
<1>2. /\ DOMAIN sessions = 1..Len(sessions) /\ DOMAIN sessions' = 1..Len(sessions') /\ Len(sessions) \in Nat /\ Len(sessions') \in Nat
      /\ DOMAIN receipts = 1..Len(receipts) /\ DOMAIN receipts' = 1..Len(receipts') /\ Len(receipts) \in Nat /\ Len(receipts') \in Nat
      /\ DOMAIN outbox = 1..Len(outbox) /\ DOMAIN outbox' = 1..Len(outbox') /\ Len(outbox) \in Nat /\ Len(outbox') \in Nat
  BY <1>1, Columns, ColumnsAfter DEF Columned
<1>3. /\ Len(sessions) <= Len(sessions') /\ (\A i \in 1..Len(sessions) : sessions'[i] = sessions[i])
      /\ Len(receipts) <= Len(receipts') /\ (\A i \in 1..Len(receipts) : receipts'[i] = receipts[i])
      /\ Len(outbox) <= Len(outbox')
  BY DEF Grows, Extends
<1>4. \A d \in 1..Len(outbox) : /\ outbox'[d].type = outbox[d].type /\ outbox'[d].of = outbox[d].of
                                /\ outbox'[d].revision = outbox[d].revision /\ outbox'[d].epoch = outbox[d].epoch
  BY DEF Grows, SameEvent
<1>5. SessionEventValid(c)
  BY <1>1 DEF OutboxValid
<1>6. PICK n : n = outbox[c].revision
  OBVIOUS
<1>7. n \in DOMAIN sessions /\ sessions[n].cursor = c /\ outbox'[c].revision = n /\ sessions'[n] = sessions[n] /\ n \in DOMAIN sessions'
  BY <1>2, <1>3, <1>4, <1>5, <1>6 DEF SessionEventValid
<1>8. \A d \in 1..(c - 1) : outbox'[d].of = Session => outbox'[d].revision < n
  <2> SUFFICES ASSUME NEW d \in 1..(c - 1), outbox'[d].of = Session PROVE outbox'[d].revision < n
    OBVIOUS
  <2>1. d \in 1..Len(outbox)
    BY <1>2
  <2> QED BY <1>4, <1>5, <1>6, <2>1 DEF SessionEventValid
<1>9. outbox'[c].type = "session.created" =>
        outbox'[c].epoch = 1 /\ \E i \in DOMAIN receipts' : receipts'[i].task = Session /\ receipts'[i].cursor = c
  <2> SUFFICES ASSUME outbox'[c].type = "session.created"
               PROVE  outbox'[c].epoch = 1 /\ \E i \in DOMAIN receipts' : receipts'[i].task = Session /\ receipts'[i].cursor = c
    OBVIOUS
  <2>1. outbox[c].epoch = 1 /\ \E i \in DOMAIN receipts : receipts[i].task = Session /\ receipts[i].cursor = c
    BY <1>2, <1>4, <1>5 DEF SessionEventValid
  <2> QED BY <1>2, <1>3, <1>4, <2>1
<1>10. ASSUME sessions[n].reason = "reauthorized"
       PROVE  /\ c < Len(outbox') /\ outbox'[c + 1].type \in VersionTypes
              /\ \E j \in Commands(outbox[c + 1].of)' : RenewedBy(j, c)'
  <2>1. c < Len(outbox) /\ outbox[c + 1].type \in VersionTypes
        /\ \E j \in Commands(outbox[c + 1].of) : RenewedBy(j, c)
    BY <1>5, <1>6, <1>10 DEF SessionEventValid, RenewedBy, Renewing
  <2>2. c + 1 \in 1..Len(outbox)
    BY <1>2, <2>1
  <2>3. PICK t \in Names : t = outbox[c + 1].of
    <3>1. outbox[c + 1].of # Session
      BY <1>1, <1>2, <2>1, <2>2 DEF OutboxKept, VersionTypes, SessionEvents
    <3> QED BY <1>1, <2>2, <3>1, Columns DEF Columned
  <2>4. PICK j \in Commands(t) : RenewedBy(j, c)
    BY <2>1, <2>3
  <2>5. j \in Commands(t)' /\ receipts'[j] = receipts[j] /\ StartOf(receipts[j])' = StartOf(receipts[j])
    BY CommandStays
  <2>6. PICK r \in ReceiptRows, start \in Nat : r = receipts[j] /\ start = StartOf(r)
    BY RevisionIs
  <2>7. r.task = t /\ r.revision \in 1..Len(versions[t]) /\ start < r.revision /\ Len(versions[t]) \in Nat
    BY <1>1, <2>6, RevisionIs, VersionColumns DEF VersionsColumned
  <2>8. versions'[t][r.revision] = versions[t][r.revision] /\ (start = 0 \/ versions'[t][start] = versions[t][start])
    <3>1. start = 0 \/ start \in 1..Len(versions[t])
      BY <2>7
    <3> QED BY <2>7, <3>1 DEF Grows, Extends
  <2>9. outbox'[c + 1].of = t /\ outbox'[c + 1].type = outbox[c + 1].type /\ outbox'[c + 1].revision = outbox[c + 1].revision
    BY <1>4, <2>2, <2>3
  <2>10. RenewedBy(j, c)'
    <3>1. StartOf(r)' = start /\ receipts'[j] = r
      BY <2>5, <2>6
    <3>2. r.kind \in Renewing /\ outbox[c + 1].revision = start + 1
          /\ (start = 0 \/ versions[t][start].attempt # versions[t][r.revision].attempt)
      BY <2>4, <2>6, <2>7 DEF RenewedBy
    <3>3. outbox'[c + 1].revision = start + 1 /\ (start = 0 \/ versions'[t][start].attempt # versions'[t][r.revision].attempt)
      BY <2>8, <2>9, <3>2
    <3> QED BY <2>7, <3>1, <3>2, <3>3 DEF RenewedBy
  <2>11. \E i \in Commands(outbox[c + 1].of)' : RenewedBy(i, c)'
    BY <2>5, <2>9, <2>10
  <2>12. c < Len(outbox')
    BY <1>2, <1>3, <2>1
  <2> QED BY <2>1, <2>9, <2>11, <2>12
<1> QED BY <1>6, <1>7, <1>8, <1>9, <1>10 DEF SessionEventValid, RenewedBy, Renewing

TaskEvent(c) ==
  /\ outbox[c].type \in VersionTypes => VersionEventValid(c)
  /\ outbox[c].type = "task.input_committed" => InputEventValid(c)
  /\ outbox[c].type = "task.execution_closed" => ClosedEventValid(c)
  /\ outbox[c].type = "task.progress" => ProgressValid(c)

\* What validateRows asks of a task's event, without the names of its conjuncts.
LEMMA TaskEventIs ==
  ASSUME NEW c, outbox[c].type \in EventTypes
  PROVE  TaskEventValid(c) <=>
           LET row == outbox[c]  authority == AuthorityAt(c) IN
           /\ row.revision \in DOMAIN versions[row.of]
           /\ row.type # "task.execution_closed" => versions[row.of][row.revision].epoch = row.epoch
           /\ Authority(row.recovery, c) # {}
           /\ authority.epoch = row.epoch /\ authority.recovery = row.recovery
           /\ row.type = "task.input_committed" => authority.authorized
           /\ row.type \notin VersionTypes => HeadAt(row.of, c) = row.revision
           /\ TaskEvent(c)
<1>1. CASE outbox[c].type \in VersionTypes
  BY <1>1 DEF TaskEventValid, TaskEvent, VersionTypes
<1>2. CASE outbox[c].type = "task.input_committed"
  BY <1>2 DEF TaskEventValid, TaskEvent, VersionTypes
<1>3. CASE outbox[c].type = "task.execution_closed"
  BY <1>3 DEF TaskEventValid, TaskEvent, VersionTypes
<1>4. CASE outbox[c].type = "task.progress"
  BY <1>4 DEF TaskEventValid, TaskEvent, VersionTypes
<1> QED BY <1>1, <1>2, <1>3, <1>4 DEF EventTypes

TaskEventOK(c) ==
  /\ outbox[c].revision \in DOMAIN versions[outbox[c].of]
  /\ outbox[c].type # "task.execution_closed" =>
       versions[outbox[c].of][outbox[c].revision].epoch = outbox[c].epoch
  /\ Authority(outbox[c].recovery, c) # {}
  /\ AuthorityAt(c).epoch = outbox[c].epoch /\ AuthorityAt(c).recovery = outbox[c].recovery
  /\ outbox[c].type = "task.input_committed" => AuthorityAt(c).authorized
  /\ outbox[c].type \notin VersionTypes => HeadAt(outbox[c].of, c) = outbox[c].revision
  /\ TaskEvent(c)

\* The same of every event,
LEMMA TaskEventIff == \A c : outbox[c].type \in EventTypes => (TaskEventValid(c) <=> TaskEventOK(c))
  BY TaskEventIs DEF TaskEventOK

\* and after a step.
LEMMA TaskEventIffAfter == \A c : outbox'[c].type \in EventTypes => (TaskEventValid(c)' <=> TaskEventOK(c)')
<1>1. (\A c : outbox[c].type \in EventTypes => (TaskEventValid(c) <=> TaskEventOK(c)))'
  BY TaskEventIff, PTL
<1> QED BY <1>1

\* An old event of a task is found valid again.
LEMMA TaskEventStays ==
  ASSUME RowsInv, TypeOK', Grows, NEW c \in DOMAIN outbox, outbox[c].type \in EventTypes
  PROVE  TaskEventValid(c)'
<1>1. TypeOK /\ OutboxValid /\ OutboxKept
  BY DEF RowsInv, RowsValid
<1>2. /\ DOMAIN inputs = 1..Len(inputs) /\ DOMAIN inputs' = 1..Len(inputs') /\ Len(inputs) \in Nat /\ Len(inputs') \in Nat
      /\ DOMAIN receipts = 1..Len(receipts) /\ DOMAIN receipts' = 1..Len(receipts') /\ Len(receipts) \in Nat /\ Len(receipts') \in Nat
      /\ DOMAIN outbox = 1..Len(outbox) /\ DOMAIN outbox' = 1..Len(outbox') /\ Len(outbox) \in Nat /\ Len(outbox') \in Nat
      /\ DOMAIN events = 1..Len(events) /\ DOMAIN events' = 1..Len(events') /\ Len(events) \in Nat /\ Len(events') \in Nat
  BY <1>1, Columns, ColumnsAfter DEF Columned
<1>3. /\ Len(inputs) <= Len(inputs') /\ (\A i \in 1..Len(inputs) : inputs'[i] = inputs[i])
      /\ Len(receipts) <= Len(receipts') /\ (\A i \in 1..Len(receipts) : receipts'[i] = receipts[i])
      /\ Len(events) <= Len(events') /\ (\A i \in 1..Len(events) : events'[i] = events[i])
  BY DEF Grows, Extends
<1>4. PICK row \in OutboxRows : row = outbox[c]
  BY <1>1, Tables
<1>5. PICK new \in OutboxRows : new = outbox'[c]
  <2>1. c \in DOMAIN outbox' /\ outbox' \in Seq(OutboxRows)
    BY SMTT(30), <1>2 DEF Grows, TypeOK
  <2> QED BY <2>1
<1>6. /\ new.type = row.type /\ new.of = row.of /\ new.revision = row.revision /\ new.about = row.about
      /\ new.epoch = row.epoch /\ new.recovery = row.recovery
  BY <1>2, <1>4, <1>5 DEF Grows, SameEvent
<1>7. PICK t \in Names : t = row.of
  <2>1. row.of # Session
    BY <1>1, <1>4 DEF OutboxKept, EventTypes, SessionEvents, VersionTypes
  <2> QED BY <2>1 DEF OutboxRows
<1>8. TaskEventOK(c)
  <2>1. outbox[c].type \notin SessionEvents
    BY DEF SessionEvents, EventTypes, VersionTypes
  <2>2. TaskEventValid(c)
    BY <1>1, <2>1 DEF OutboxValid
  <2> QED BY <2>2, TaskEventIff
<1>9. PICK n : n = row.revision
  OBVIOUS
<1>10. n \in DOMAIN versions[t] /\ (row.type # "task.execution_closed" => versions[t][n].epoch = row.epoch)
  BY <1>4, <1>7, <1>8, <1>9 DEF TaskEventOK
<1>11. n \in DOMAIN versions'[t] /\ versions'[t][n] = versions[t][n]
  <2>1. /\ DOMAIN versions[t] = 1..Len(versions[t]) /\ DOMAIN versions'[t] = 1..Len(versions'[t])
        /\ Len(versions[t]) \in Nat /\ Len(versions'[t]) \in Nat
    BY <1>1, VersionColumns, VersionColumnsAfter DEF VersionsColumned
  <2>2. Len(versions[t]) <= Len(versions'[t]) /\ \A i \in 1..Len(versions[t]) : versions'[t][i] = versions[t][i]
    BY DEF Grows, Extends
  <2> QED BY <1>10, <2>1, <2>2
<1>12. c \in 1..Len(outbox) /\ row.recovery <= recovery
  BY <1>1, <1>2, <1>4 DEF OutboxValid
<1>13. Authority(outbox[c].recovery, c)' # {} /\ AuthorityAt(c)' = AuthorityAt(c)
  BY <1>1, <1>4, <1>8, <1>12, AuthorityStays DEF TaskEventOK
<1>14. HeadAt(t, c)' = HeadAt(t, c) /\ HeadAt(t, c - 1)' = HeadAt(t, c - 1)
  <2>1. c \in 0..Len(outbox) /\ c - 1 \in 0..Len(outbox)
    BY <1>2
  <2> QED BY <1>1, <2>1, AnnouncedStays
<1>15. row.type \in VersionTypes => VersionEventValid(c)'
  <2> SUFFICES ASSUME row.type \in VersionTypes PROVE VersionEventValid(c)'
    OBVIOUS
  <2>1. VersionEventValid(c)
    BY <1>4, <1>8 DEF TaskEventOK, TaskEvent
  <2>2. PICK v : v = versions[t][n]
    OBVIOUS
  <2>3. /\ HeadAt(t, c - 1) + 1 = n /\ (row.type = "task.created") = (n = 1)
        /\ row.about = <<v.state, 0, 0>> /\ v.recovery = row.recovery /\ v.epoch = row.epoch
    BY <1>4, <1>7, <1>9, <2>1, <2>2 DEF VersionEventValid
  <2>4. HeadAt(t, c - 1)' + 1 = n /\ versions'[t][n] = v
    BY <1>11, <1>14, <2>2, <2>3
  <2>5. HeadAt(outbox[c].of, c - 1)' = HeadAt(t, c - 1)'
    BY <1>5, <1>6, <1>7
  <2> QED BY <1>5, <1>6, <1>7, <1>9, <2>3, <2>4, <2>5 DEF VersionEventValid
<1>16. row.type = "task.input_committed" => InputEventValid(c)'
  <2> SUFFICES ASSUME row.type = "task.input_committed" PROVE InputEventValid(c)'
    OBVIOUS
  <2>1. InputEventValid(c)
    BY <1>4, <1>8 DEF TaskEventOK, TaskEvent
  <2>2. PICK i \in DOMAIN inputs, j \in DOMAIN receipts :
          /\ inputs[i].task = row.of /\ <<"none", inputs[i].attempt, inputs[i].ordinal>> = row.about
          /\ inputs[i].kind = "runtime" /\ inputs[i].revision = row.revision /\ inputs[i].epoch = row.epoch
          /\ receipts[j].cursor = c /\ Match(i, j)
    BY <1>4, <2>1 DEF InputEventValid
  <2>3. i \in DOMAIN inputs' /\ inputs'[i] = inputs[i] /\ j \in DOMAIN receipts' /\ receipts'[j] = receipts[j]
    BY <1>2, <1>3
  <2>4. Match(i, j)'
    BY <2>2, <2>3 DEF Match
  <2> QED BY <1>5, <1>6, <2>2, <2>3, <2>4 DEF InputEventValid
<1>17. row.type = "task.execution_closed" => ClosedEventValid(c)'
  <2> SUFFICES ASSUME row.type = "task.execution_closed" PROVE ClosedEventValid(c)'
    OBVIOUS
  <2>1. ClosedEventValid(c)
    BY <1>4, <1>8 DEF TaskEventOK, TaskEvent
  <2>2. PICK k, i : k = row.about[2] /\ i = row.about[3]
    OBVIOUS
  <2>3. k \in AttemptNumbers /\ i \in DOMAIN runs[t][k] /\ versions[t][n].attempt = k
    BY <1>4, <1>7, <1>9, <2>1, <2>2 DEF ClosedEventValid
  <2>4. PICK run : run = runs[t][k][i]
    OBVIOUS
  <2>5. run.state = "STOPPED" /\ run.closed /\ run.epoch <= row.epoch /\ run.recovery = row.recovery /\ run.at = n
    BY Zenon, <1>4, <1>7, <1>9, <2>1, <2>2, <2>4 DEF ClosedEventValid
  <2>6. i \in DOMAIN runs'[t][k] /\ runs'[t][k][i] = run
    <3>1. /\ DOMAIN runs[t][k] = 1..Len(runs[t][k]) /\ DOMAIN runs'[t][k] = 1..Len(runs'[t][k])
          /\ Len(runs[t][k]) \in Nat /\ Len(runs'[t][k]) \in Nat
      BY <1>1, <2>3, RunColumns, RunColumnsAfter DEF RunsColumned
    <3>2. Len(runs[t][k]) <= Len(runs'[t][k]) /\ \A p \in 1..Len(runs[t][k]) : runs'[t][k][p] = runs[t][k][p]
      BY <2>3 DEF Grows, Extends
    <3> QED BY <2>3, <2>4, <3>1, <3>2
  <2> QED BY <1>5, <1>6, <1>7, <1>9, <1>11, <2>2, <2>3, <2>5, <2>6 DEF ClosedEventValid
<1>18. row.type = "task.progress" => ProgressValid(c)'
  <2> SUFFICES ASSUME row.type = "task.progress" PROVE ProgressValid(c)'
    OBVIOUS
  <2>1. ProgressValid(c)
    BY <1>4, <1>8 DEF TaskEventOK, TaskEvent
  <2>2. PICK e \in DOMAIN events :
          /\ events[e].cursor = c /\ events[e].task = row.of /\ events[e].revision = row.revision
          /\ events[e].epoch = row.epoch /\ events[e].recovery = row.recovery
    BY <1>4, <2>1 DEF ProgressValid
  <2>3. e \in DOMAIN events' /\ events'[e] = events[e]
    BY <1>2, <1>3
  <2> QED BY <1>5, <1>6, <2>2, <2>3 DEF ProgressValid
<1>19. TaskEvent(c)'
  BY <1>5, <1>6, <1>15, <1>16, <1>17, <1>18 DEF TaskEvent
<1>20. PICK a : a = AuthorityAt(c)
  OBVIOUS
<1>21. /\ a.epoch = row.epoch /\ a.recovery = row.recovery /\ (row.type = "task.input_committed" => a.authorized)
       /\ (row.type \notin VersionTypes => HeadAt(t, c) = n)
  BY <1>4, <1>7, <1>8, <1>9, <1>20 DEF TaskEventOK
<1>22. HeadAt(outbox[c].of, c)' = HeadAt(t, c)'
  BY <1>5, <1>6, <1>7
<1>23. TaskEventOK(c)'
  <2>1. outbox'[c].revision \in DOMAIN versions'[outbox'[c].of]
        /\ (outbox'[c].type # "task.execution_closed" =>
             versions'[outbox'[c].of][outbox'[c].revision].epoch = outbox'[c].epoch)
    BY <1>5, <1>6, <1>7, <1>9, <1>10, <1>11
  <2>2. AuthorityAt(c)'.epoch = outbox'[c].epoch /\ AuthorityAt(c)'.recovery = outbox'[c].recovery
        /\ (outbox'[c].type = "task.input_committed" => AuthorityAt(c)'.authorized)
    BY <1>5, <1>6, <1>13, <1>20, <1>21
  <2>3. outbox'[c].type \notin VersionTypes => HeadAt(outbox[c].of, c)' = outbox'[c].revision
    BY <1>5, <1>6, <1>9, <1>14, <1>21, <1>22
  <2> QED BY <1>13, <1>19, <2>1, <2>2, <2>3 DEF TaskEventOK
<1>24. outbox'[c].type \in EventTypes
  BY <1>4, <1>5, <1>6
<1> QED BY <1>23, <1>24, TaskEventIffAfter

\* The last acknowledged cursor is one of the outbox.
LEMMA DeliveredIs ==
  ASSUME TypeOK, OutboxKept
  PROVE  Delivered \in 0..Len(outbox) /\ \A c \in Consumers : consumers[c] <= Delivered
<1> DEFINE S == {consumers[c] : c \in Consumers} \cup {0}
<1>1. Len(outbox) \in Nat /\ \A c \in Consumers : consumers[c] \in 0..Len(outbox)
  BY Tables DEF TypeOK, OutboxKept
<1>2. S \subseteq 0..Len(outbox) /\ S # {}
  BY <1>1
<1>3. Delivered = MaxOf(S)
  BY DEF Delivered
<1>4. Delivered \in S /\ \A n \in S : n <= Delivered
  <2> HIDE DEF S
  <2> QED BY <1>1, <1>2, <1>3, MaxExists
<1>5. Delivered \in 0..Len(outbox)
  <2> HIDE DEF S
  <2> QED BY <1>2, <1>4
<1> QED BY <1>4, <1>5

\* The published state of every row, after an operation that publishes new ones.
PublishKept == \A c \in 1..Len(outbox) :
  outbox[c].recovery <= recovery /\ outbox[c].publish = PublishState(c, Delivered)

\* New events are pending, of the present epoch, and old ones stay as they were.
LEMMA PublishGrows ==
  ASSUME RowsInv, TypeOK', UNCHANGED <<recovery, consumers>>,
         Len(outbox) <= Len(outbox'), \A c \in 1..Len(outbox) : outbox'[c] = outbox[c],
         \A c \in 1..Len(outbox') : c > Len(outbox) => outbox'[c].recovery = recovery /\ outbox'[c].publish = "pending"
  PROVE  PublishKept'
<1>1. TypeOK /\ OutboxValid /\ OutboxKept
  BY DEF RowsInv, RowsValid
<1>2. /\ Len(outbox) \in Nat /\ Len(outbox') \in Nat /\ recovery \in Nat
      /\ DOMAIN outbox = 1..Len(outbox)
  BY <1>1, Columns, ColumnsAfter DEF Columned
<1>3. Delivered' = Delivered
  BY DEF Delivered
<1>4. PICK d \in 0..Len(outbox) : d = Delivered
  BY <1>1, DeliveredIs
<1>5. ASSUME NEW c \in 1..Len(outbox')
      PROVE  outbox'[c].recovery <= recovery /\ outbox'[c].publish = PublishState(c, d)'
  <2>1. CASE c <= Len(outbox)
    <3>1. c \in 1..Len(outbox) /\ outbox'[c] = outbox[c]
      BY <1>2, <2>1
    <3>2. outbox[c].recovery <= recovery /\ outbox[c].publish = PublishState(c, d)
      BY <1>1, <1>2, <1>4, <3>1 DEF OutboxValid
    <3> QED BY <3>1, <3>2 DEF PublishState
  <2>2. CASE c > Len(outbox)
    <3>1. outbox'[c].recovery = recovery /\ outbox'[c].publish = "pending"
      BY <2>2
    <3>2. ~(c <= d) /\ ~(recovery < recovery)
      BY <1>2, <1>4, <2>2
    <3> QED BY <1>2, <3>1, <3>2 DEF PublishState
  <2> QED BY <1>2, <2>1, <2>2
<1>6. Delivered' = d
  BY <1>3, <1>4
<1> QED BY <1>5, <1>6 DEF PublishKept

EventValid(c) == IF outbox[c].type \in SessionEvents THEN SessionEventValid(c) ELSE TaskEventValid(c)
VersionAnnounced(t, i) == \E c \in Announced(t, Len(outbox)) : outbox[c].revision = i
CloseAnnounced(t, k, i) ==
  \E c \in 1..Len(outbox) :
    outbox[c].type = "task.execution_closed" /\ outbox[c].of = t /\ outbox[c].about = <<"none", k, i>>
InputAnnounced(t, k, n) ==
  \E c \in 1..Len(outbox) :
    outbox[c].type = "task.input_committed" /\ outbox[c].of = t /\ outbox[c].about = <<"none", k, n>>

\* The outbox is valid after a step whose new events are, and which announces what it writes.
LEMMA OutboxGrow ==
  ASSUME RowsInv, TypeOK', Grows, PublishKept',
         \A c \in 1..Len(outbox') : c > Len(outbox) => EventValid(c)',
         \A t \in Names : \A i \in 1..Len(versions'[t]) : i > Len(versions[t]) => VersionAnnounced(t, i)',
         \A t \in Names, k \in AttemptNumbers : \A i \in 1..Len(runs'[t][k]) :
           i > Len(runs[t][k]) /\ runs'[t][k][i].closed => CloseAnnounced(t, k, i)',
         \A i \in 1..Len(inputs') : i > Len(inputs) /\ inputs'[i].kind = "runtime" =>
           \E row \in {inputs'[i]} : InputAnnounced(row.task, row.attempt, row.ordinal)'
  PROVE  OutboxValid'
<1>1. TypeOK /\ OutboxValid /\ OutboxKept
  BY DEF RowsInv, RowsValid
<1>2. /\ Len(outbox) \in Nat /\ Len(outbox') \in Nat /\ DOMAIN outbox = 1..Len(outbox) /\ DOMAIN outbox' = 1..Len(outbox')
      /\ Len(inputs) \in Nat /\ Len(inputs') \in Nat /\ DOMAIN inputs = 1..Len(inputs) /\ DOMAIN inputs' = 1..Len(inputs')
  BY <1>1, Columns, ColumnsAfter DEF Columned
<1>3. /\ Len(outbox) <= Len(outbox') /\ Len(inputs) <= Len(inputs')
      /\ \A c \in 1..Len(outbox) : /\ outbox'[c].type = outbox[c].type /\ outbox'[c].of = outbox[c].of
                                   /\ outbox'[c].revision = outbox[c].revision /\ outbox'[c].about = outbox[c].about
      /\ \A i \in 1..Len(inputs) : inputs'[i] = inputs[i]
  BY DEF Grows, SameEvent, Extends
<1>4. ASSUME NEW c \in DOMAIN outbox' PROVE EventValid(c)'
  <2>1. CASE c > Len(outbox)
    BY <1>2, <2>1
  <2>2. CASE c <= Len(outbox)
    <3>1. c \in DOMAIN outbox /\ c \in 1..Len(outbox)
      BY <1>2, <2>2
    <3>2. CASE outbox[c].type \in SessionEvents
      <4>1. SessionEventValid(c)'
        BY <3>1, <3>2, SessionEventStays
      <4> QED BY <1>3, <3>1, <3>2, <4>1 DEF EventValid
    <3>3. CASE outbox[c].type \notin SessionEvents
      <4>1. outbox[c].type \in EventTypes
        BY <1>1, <3>1, <3>3 DEF OutboxKept
      <4>2. TaskEventValid(c)'
        BY <3>1, <4>1, TaskEventStays
      <4> QED BY <1>3, <3>1, <3>3, <4>2 DEF EventValid
    <3> QED BY <3>2, <3>3
  <2> QED BY <1>2, <2>1, <2>2
<1>5. ASSUME NEW t \in Names, NEW i \in DOMAIN versions'[t]
      PROVE  VersionAnnounced(t, i)'
  <2>1. /\ DOMAIN versions[t] = 1..Len(versions[t]) /\ DOMAIN versions'[t] = 1..Len(versions'[t])
        /\ Len(versions[t]) \in Nat /\ Len(versions'[t]) \in Nat
    BY <1>1, VersionColumns, VersionColumnsAfter DEF VersionsColumned
  <2>2. CASE i > Len(versions[t])
    BY <2>1, <2>2
  <2>3. CASE i <= Len(versions[t])
    <3>1. i \in DOMAIN versions[t]
      BY <2>1, <2>3
    <3>2. PICK c \in Announced(t, Len(outbox)) : outbox[c].revision = i
      BY <1>1, <3>1 DEF OutboxValid
    <3>3. c \in 1..Len(outbox) /\ c \in 1..Len(outbox') /\ outbox[c].of = t /\ outbox[c].type \in VersionTypes
      BY <1>2, <1>3, <3>2 DEF Announced
    <3>4. c \in Announced(t, Len(outbox))'
      BY <1>3, <3>3 DEF Announced
    <3> QED BY <1>3, <3>2, <3>3, <3>4 DEF VersionAnnounced
  <2> QED BY <2>1, <2>2, <2>3
<1>6. ASSUME NEW t \in Names, NEW k \in AttemptNumbers, NEW i \in DOMAIN runs'[t][k], runs'[t][k][i].closed
      PROVE  CloseAnnounced(t, k, i)'
  <2>1. /\ DOMAIN runs[t][k] = 1..Len(runs[t][k]) /\ DOMAIN runs'[t][k] = 1..Len(runs'[t][k])
        /\ Len(runs[t][k]) \in Nat /\ Len(runs'[t][k]) \in Nat
    BY <1>1, RunColumns, RunColumnsAfter DEF RunsColumned
  <2>2. CASE i > Len(runs[t][k])
    BY <1>6, <2>1, <2>2
  <2>3. CASE i <= Len(runs[t][k])
    <3>0. Extends(runs[t][k], runs'[t][k]) /\ i \in 1..Len(runs[t][k])
      BY <2>1, <2>3 DEF Grows
    <3>1. i \in DOMAIN runs[t][k] /\ runs'[t][k][i] = runs[t][k][i]
      BY <2>1, <3>0 DEF Extends
    <3>5. runs[t][k][i].closed
      BY <1>6, <3>1
    <3>2. \E c \in DOMAIN outbox : /\ outbox[c].type = "task.execution_closed" /\ outbox[c].of = t
                                   /\ outbox[c].about = <<"none", k, i>>
      <4>1. \A u \in Names, l \in AttemptNumbers : \A n \in DOMAIN runs[u][l] : runs[u][l][n].closed =>
              \E c \in DOMAIN outbox : /\ outbox[c].type = "task.execution_closed" /\ outbox[c].of = u
                                       /\ outbox[c].about = <<"none", l, n>>
        BY <1>1 DEF OutboxValid
      <4> QED BY Zenon, <3>1, <3>5, <4>1
    <3>3. PICK c \in 1..Len(outbox) : /\ outbox[c].type = "task.execution_closed" /\ outbox[c].of = t
                                      /\ outbox[c].about = <<"none", k, i>>
      BY <1>2, <3>2
    <3>4. c \in 1..Len(outbox')
      BY <1>2, <1>3
    <3> QED BY <1>3, <3>3, <3>4 DEF CloseAnnounced
  <2> QED BY <2>1, <2>2, <2>3
<1>7. ASSUME NEW i \in DOMAIN inputs', inputs'[i].kind = "runtime", NEW row, row = inputs'[i]
      PROVE  InputAnnounced(row.task, row.attempt, row.ordinal)'
  <2>1. CASE i > Len(inputs)
    BY <1>2, <1>7, <2>1
  <2>2. CASE i <= Len(inputs)
    <3>1. i \in DOMAIN inputs /\ inputs[i] = row
      BY <1>2, <1>3, <1>7, <2>2
    <3>2. \E c \in DOMAIN outbox : /\ outbox[c].type = "task.input_committed" /\ outbox[c].of = row.task
                                   /\ outbox[c].about = <<"none", row.attempt, row.ordinal>>
      <4>1. \A n \in DOMAIN inputs : inputs[n].kind = "runtime" =>
              \E c \in DOMAIN outbox : /\ outbox[c].type = "task.input_committed" /\ outbox[c].of = inputs[n].task
                                       /\ outbox[c].about = <<"none", inputs[n].attempt, inputs[n].ordinal>>
        BY <1>1 DEF OutboxValid
      <4> QED BY <1>7, <3>1, <4>1
    <3>3. PICK c \in 1..Len(outbox) : /\ outbox[c].type = "task.input_committed" /\ outbox[c].of = row.task
                                      /\ outbox[c].about = <<"none", row.attempt, row.ordinal>>
      BY <1>2, <3>2
    <3>4. c \in 1..Len(outbox')
      BY <1>2, <1>3
    <3> QED BY <1>3, <3>3, <3>4 DEF InputAnnounced
  <2> QED BY <1>2, <2>1, <2>2
<1>8. \A c \in DOMAIN outbox' : outbox'[c].recovery <= recovery' /\ outbox'[c].publish = PublishState(c, Delivered)'
  BY <1>2 DEF PublishKept
<1>9. \A t \in Names : \A i \in DOMAIN versions'[t] :
        \E c \in Announced(t, Len(outbox))' : outbox'[c].revision = i
  BY <1>5 DEF VersionAnnounced
<1>10. \A t \in Names, k \in AttemptNumbers : \A i \in DOMAIN runs'[t][k] : runs'[t][k][i].closed =>
         \E c \in DOMAIN outbox' : /\ outbox'[c].type = "task.execution_closed" /\ outbox'[c].of = t
                                   /\ outbox'[c].about = <<"none", k, i>>
  <2> SUFFICES ASSUME NEW t \in Names, NEW k \in AttemptNumbers, NEW i \in DOMAIN runs'[t][k], runs'[t][k][i].closed
               PROVE  \E c \in DOMAIN outbox' : /\ outbox'[c].type = "task.execution_closed" /\ outbox'[c].of = t
                                                /\ outbox'[c].about = <<"none", k, i>>
    OBVIOUS
  <2>1. CloseAnnounced(t, k, i)'
    BY <1>6
  <2> QED BY <1>2, <2>1 DEF CloseAnnounced
<1>11. \A i \in DOMAIN inputs' : inputs'[i].kind = "runtime" =>
         \E c \in DOMAIN outbox' : /\ outbox'[c].type = "task.input_committed" /\ outbox'[c].of = inputs'[i].task
                                   /\ outbox'[c].about = <<"none", inputs'[i].attempt, inputs'[i].ordinal>>
  BY <1>2, <1>7 DEF InputAnnounced
<1> QED BY <1>4, <1>8, <1>9, <1>10, <1>11 DEF OutboxValid, EventValid

\* An input's intent is its version's, and so its attempt's.
IntentsKept == \A t \in Names : \A i \in DOMAIN versions[t] :
  attempts[t][versions[t][i].attempt].intent = versions[t][i].intent

\* An attempt's versions have the intent of its row.
LEMMA IntentsHold == TypeOK /\ AttemptsValid /\ VersionsKept => IntentsKept
<1> SUFFICES ASSUME TypeOK, AttemptsValid, VersionsKept, NEW t \in Names, NEW i \in DOMAIN versions[t]
             PROVE  attempts[t][versions[t][i].attempt].intent = versions[t][i].intent
  BY DEF IntentsKept
<1>1. PICK k : k = versions[t][i].attempt
  OBVIOUS
<1>2. Exists(t)
  BY TaskTables
<1>3. Len(attempts[t]) = Attempt(t) /\ DOMAIN attempts[t] = 1..Len(attempts[t])
  BY <1>2, TaskTables DEF AttemptsValid
<1>4. k \in DOMAIN attempts[t]
  BY <1>1, <1>3 DEF VersionsKept
<1>5. AttemptValid(t, k)
  BY <1>4 DEF AttemptsValid
<1>6. i \in VersionsOf(t, k)
  BY <1>1 DEF VersionsOf
<1> QED BY <1>1, <1>5, <1>6 DEF AttemptValid

\* So they have after a step.
LEMMA IntentsHoldAfter == TypeOK' /\ AttemptsValid' /\ VersionsKept' => IntentsKept'
  BY IntentsHold, PTL

\* The receipt of an input is the one written with it.
LEMMA MatchIs ==
  ASSUME RowsInv, sessions # <<>>, NEW i \in DOMAIN inputs, NEW j \in DOMAIN receipts
  PROVE  Match(i, j) <=> j = i + 1
<1>1. TypeOK /\ InputsValid /\ ReceiptsKept
  BY DEF RowsInv, RowsValid
<1>2. /\ DOMAIN inputs = 1..Len(inputs) /\ Len(inputs) \in Nat
      /\ DOMAIN receipts = 1..Len(receipts) /\ Len(receipts) = Len(inputs) + 1
  BY <1>1, Columns DEF Columned, ReceiptsKept
<1>3. Match(i, i + 1) /\ i + 1 \in DOMAIN receipts
  BY <1>1, <1>2 DEF ReceiptsKept
<1>4. PICK k \in DOMAIN receipts : \A l \in DOMAIN receipts : Match(i, l) => l = k
  BY <1>1 DEF InputsValid
<1> QED BY <1>3, <1>4

\* Any row follows the session.
LEMMA Opening ==
  ASSUME RowsInv, DOMAIN inputs # {} \/ (\E t \in Names : versions[t] # <<>>) \/ DOMAIN receipts # {} \/ DOMAIN outbox # {}
  PROVE  sessions # <<>>
<1>1. Opened
  BY DEF RowsInv
<1> QED BY <1>1 DEF Opened

\* An input as its receipt is written with it.
InputKept(i) ==
  LET row == inputs[i] IN
  /\ row.revision \in DOMAIN versions[row.task]
  /\ versions[row.task][row.revision].attempt = row.attempt
  /\ versions[row.task][row.revision].intent = row.intent
  /\ versions[row.task][row.revision].epoch = row.epoch
  /\ row.kind = "runtime" => versions[row.task][row.revision].state = "READY"
  /\ receipts[i + 1].kind = "task.verify" => <<"result", 0, row.revision - 1>> \in versions[row.task][row.revision].facts
  /\ receipts[i + 1].task \in Names

\* An input and its receipt stand at the same place.
LEMMA InputIs ==
  ASSUME RowsInv, NEW i \in DOMAIN inputs
  PROVE  InputKept(i) /\ i + 1 \in DOMAIN receipts
<1>1. TypeOK /\ InputsValid /\ ReceiptsKept /\ sessions # <<>>
  BY Opening DEF RowsInv, RowsValid
<1>2. PICK j \in DOMAIN receipts : Match(i, j) /\ InputValid(inputs[i], receipts[j])
  BY <1>1 DEF InputsValid
<1>3. j = i + 1
  BY <1>1, <1>2, MatchIs
<1>4. inputs[i].task \in Names /\ receipts[i + 1].task = inputs[i].task
  BY <1>1, <1>2, <1>3, Columns DEF Columned, Match
<1> QED BY <1>2, <1>3, <1>4 DEF InputValid, InputKept

\* An old input is found valid again.
LEMMA InputStays ==
  ASSUME RowsInv, TypeOK', Grows, NEW i \in DOMAIN inputs
  PROVE  /\ inputs'[i] = inputs[i] /\ receipts'[i + 1] = receipts[i + 1]
         /\ i + 1 \in 1..Len(receipts) /\ InputKept(i)'
         /\ inputs[i].revision \in 1..Len(versions[inputs[i].task])
<1>1. TypeOK
  BY DEF RowsInv
<1>2. InputKept(i) /\ i + 1 \in DOMAIN receipts
  BY InputIs
<1>3. /\ DOMAIN inputs = 1..Len(inputs) /\ DOMAIN receipts = 1..Len(receipts)
      /\ DOMAIN inputs' = 1..Len(inputs') /\ Len(inputs) \in Nat /\ Len(inputs') \in Nat
  BY <1>1, Columns, ColumnsAfter DEF Columned
<1>4. inputs'[i] = inputs[i] /\ receipts'[i + 1] = receipts[i + 1]
  BY <1>2, <1>3 DEF Grows, Extends
<1>5. PICK t \in Names, n \in {inputs[i].revision} : t = inputs[i].task
  BY <1>1, <1>3, Columns DEF Columned
<1>6. /\ n \in DOMAIN versions[t] /\ DOMAIN versions[t] = 1..Len(versions[t]) /\ DOMAIN versions'[t] = 1..Len(versions'[t])
      /\ Len(versions[t]) \in Nat /\ Len(versions'[t]) \in Nat
  BY <1>1, <1>2, <1>5, VersionColumns, VersionColumnsAfter DEF InputKept, VersionsColumned
<1>7. Extends(versions[t], versions'[t])
  BY DEF Grows
<1>8. n \in DOMAIN versions'[t] /\ versions'[t][n] = versions[t][n]
  BY <1>6, <1>7 DEF Extends
<1>9. InputKept(i)'
  BY <1>2, <1>4, <1>5, <1>8 DEF InputKept
<1> QED BY <1>2, <1>3, <1>4, <1>5, <1>6, <1>9

\* What the input that an operation appends owes to those before it.
After(i, k) == inputs[i].task = inputs[k].task /\ inputs[i].attempt = inputs[k].attempt =>
  inputs[i].ordinal < inputs[k].ordinal /\ inputs[i].revision <= inputs[k].revision
NewInput(k) ==
  /\ InputKept(k) /\ Match(k, k + 1)
  /\ \A i \in 1..(k - 1) : ~Match(i, k + 1) /\ After(i, k)
  /\ \A j \in 1..k : ~Match(k, j)
  /\ inputs[k].ordinal > 1 =>
       \E i \in InputsAt(inputs[k].task, inputs[k].attempt) : inputs[i].ordinal = inputs[k].ordinal - 1

\* It matches the same receipts.
LEMMA MatchStays ==
  ASSUME RowsInv, TypeOK', Grows, NEW i \in DOMAIN inputs, NEW j \in DOMAIN receipts
  PROVE  Match(i, j)' <=> Match(i, j)
<1>1. TypeOK
  BY DEF RowsInv
<1>2. inputs'[i] = inputs[i] /\ receipts'[j] = receipts[j]
  BY <1>1, Columns DEF Columned, Grows, Extends
<1> QED BY <1>2 DEF Match

\* The inputs are valid after a step that appends a valid one with its receipt.
LEMMA InputsGrow ==
  ASSUME RowsInv, TypeOK', Grows, AttemptsValid', VersionsKept', sessions # <<>>,
         NEW n \in Nat, n = Len(inputs), Len(inputs') = n + 1, Len(receipts') = n + 2,
         receipts'[n + 2].cursor > Len(outbox), NewInput(n + 1)'
  PROVE  InputsValid'
<1>1. TypeOK /\ InputsValid /\ ReceiptsKept /\ ReceiptsValid
  BY DEF RowsInv, RowsValid
<1>2. Len(receipts) = n + 1
  BY <1>1 DEF ReceiptsKept
<1>3. /\ DOMAIN inputs = 1..n /\ DOMAIN receipts = 1..(n + 1)
      /\ DOMAIN inputs' = 1..(n + 1) /\ DOMAIN receipts' = 1..(n + 2)
  BY <1>1, <1>2, Columns, ColumnsAfter DEF Columned
<1>4. ASSUME NEW i \in 1..(n + 1), NEW j \in 1..(n + 2) PROVE Match(i, j)' <=> j = i + 1
  <2>1. CASE i <= n /\ j <= n + 1
    <3>1. i \in DOMAIN inputs /\ j \in DOMAIN receipts
      BY <1>3, <2>1
    <3> QED BY <3>1, MatchIs, MatchStays
  <2>2. CASE i = n + 1 /\ j <= n + 1
    BY <2>2 DEF NewInput
  <2>3. CASE i <= n /\ j = n + 2
    <3>1. ~Match(i, n + 2)'
      BY <2>3 DEF NewInput
    <3> QED BY <2>3, <3>1
  <2>4. CASE i = n + 1 /\ j = n + 2
    <3>1. Match(n + 1, n + 2)'
      BY DEF NewInput
    <3> QED BY <2>4, <3>1
  <2> QED BY <2>1, <2>2, <2>3, <2>4
<1>5. ASSUME NEW i \in 1..(n + 1) PROVE InputKept(i)'
  <2>1. CASE i = n + 1
    BY <2>1 DEF NewInput
  <2>2. CASE i <= n
    <3>1. i \in DOMAIN inputs
      BY <1>3, <2>2
    <3> QED BY <3>1, InputStays
  <2> QED BY <2>1, <2>2
<1>6. ASSUME NEW i \in 1..(n + 1) PROVE InputValid(inputs[i], receipts[i + 1])'
  <2>1. PICK row \in InputRows : row = inputs'[i]
    <3>1. inputs' \in Seq(InputRows) /\ i \in DOMAIN inputs'
      BY <1>3 DEF TypeOK
    <3> QED BY <3>1
  <2>2. PICK r : r = receipts'[i + 1]
    OBVIOUS
  <2>3. PICK v : v = versions'[row.task][row.revision]
    OBVIOUS
  <2>4. /\ row.revision \in DOMAIN versions'[row.task]
        /\ v.attempt = row.attempt /\ v.intent = row.intent /\ v.epoch = row.epoch
        /\ (row.kind = "runtime" => v.state = "READY")
        /\ (r.kind = "task.verify" => <<"result", 0, row.revision - 1>> \in v.facts)
    BY <1>5, <2>1, <2>2, <2>3 DEF InputKept
  <2>5. attempts'[row.task][row.attempt].intent = row.intent
    <3>1. row.task \in Names
      BY DEF InputRows
    <3>2. attempts'[row.task][v.attempt].intent = v.intent
      BY <2>3, <2>4, <3>1, IntentsHoldAfter DEF IntentsKept
    <3> QED BY <2>4, <3>2
  <2> QED BY <2>1, <2>2, <2>3, <2>4, <2>5 DEF InputValid
<1>7. ASSUME NEW i \in DOMAIN inputs'
      PROVE  \E j \in DOMAIN receipts' :
               /\ Match(i, j)' /\ InputValid(inputs[i], receipts[j])'
               /\ \A k \in DOMAIN receipts' : Match(i, k)' => k = j
               /\ \A k \in DOMAIN inputs' : Match(k, j)' => k = i
  <2>1. i \in 1..(n + 1) /\ i + 1 \in 1..(n + 2)
    BY <1>3
  <2>2. InputValid(inputs[i], receipts[i + 1])'
    BY <1>6, <2>1
  <2>3. \A k \in DOMAIN receipts' : Match(i, k)' => k = i + 1
    BY <1>3, <1>4, <2>1
  <2>4. \A k \in DOMAIN inputs' : Match(k, i + 1)' => k = i
    BY <1>3, <1>4, <2>1
  <2>5. Match(i, i + 1)'
    BY <1>4, <2>1
  <2> QED BY <1>3, <2>1, <2>2, <2>3, <2>4, <2>5
<1>8. ASSUME NEW j \in DOMAIN receipts', receipts'[j].task # Session
      PROVE  \E i \in DOMAIN inputs' : Match(i, j)'
  <2>1. j # 1
    <3>1. receipts[1].task = Session /\ 1 \in DOMAIN receipts
      BY <1>1, <1>3 DEF ReceiptsKept
    <3>2. receipts'[1] = receipts[1]
      BY <1>2 DEF Grows, Extends
    <3> QED BY <1>8, <3>1, <3>2
  <2>2. j - 1 \in 1..(n + 1) /\ j \in 1..(n + 2) /\ j = (j - 1) + 1
    BY <1>3, <2>1
  <2>3. PICK i \in 1..(n + 1) : i = j - 1
    BY <2>2
  <2>4. Match(i, j)'
    BY <1>4, <2>2, <2>3
  <2> QED BY <1>3, <2>4
<1>9. ASSUME NEW i \in DOMAIN inputs', NEW j \in DOMAIN inputs',
             i < j, inputs'[i].task = inputs'[j].task, inputs'[i].attempt = inputs'[j].attempt
      PROVE  /\ inputs'[i].ordinal < inputs'[j].ordinal /\ inputs'[i].revision <= inputs'[j].revision
             /\ \A k, l \in DOMAIN receipts' : Match(i, k)' /\ Match(j, l)' => receipts'[k].cursor < receipts'[l].cursor
  <2>1. i \in 1..(n + 1) /\ j \in 1..(n + 1) /\ i + 1 \in 1..(n + 1) /\ j + 1 \in 1..(n + 2) /\ i \in 1..n
    BY <1>3, <1>9
  <2>2. CASE j = n + 1
    <3>1. After(i, n + 1)'
      BY <2>1, <2>2 DEF NewInput
    <3>2. inputs'[i].ordinal < inputs'[j].ordinal /\ inputs'[i].revision <= inputs'[j].revision
      BY <1>9, <2>2, <3>1 DEF After
    <3>3. receipts'[i + 1].cursor \in 1..Len(outbox) /\ Len(outbox) \in Nat
      <4>1. receipts'[i + 1] = receipts[i + 1] /\ i + 1 \in DOMAIN receipts
        BY <1>2, <1>3, <2>1 DEF Grows, Extends
      <4>2. receipts[i + 1].cursor \in DOMAIN outbox
        BY <1>1, <4>1 DEF ReceiptsValid, ReceiptValid
      <4> QED BY <1>1, <4>1, <4>2, Tables
    <3>4. receipts'[j + 1].cursor \in Nat
      BY <1>3, <2>1, ColumnsAfter DEF Columned
    <3>5. receipts'[i + 1].cursor < receipts'[j + 1].cursor
      BY SMTT(30), <2>2, <3>3, <3>4
    <3> QED BY <1>3, <1>4, <2>1, <3>2, <3>5
  <2>3. CASE j <= n
    <3>1. i \in DOMAIN inputs /\ j \in DOMAIN inputs /\ i + 1 \in DOMAIN receipts /\ j + 1 \in DOMAIN receipts
      BY <1>3, <2>1, <2>3
    <3>2. /\ inputs'[i] = inputs[i] /\ inputs'[j] = inputs[j]
          /\ receipts'[i + 1] = receipts[i + 1] /\ receipts'[j + 1] = receipts[j + 1]
      BY <3>1, InputStays
    <3>3. Match(i, i + 1) /\ Match(j, j + 1)
      BY <3>1, MatchIs
    <3>4. /\ inputs[i].ordinal < inputs[j].ordinal /\ inputs[i].revision <= inputs[j].revision
          /\ receipts[i + 1].cursor < receipts[j + 1].cursor
      <4>1. inputs[i].task = inputs[j].task /\ inputs[i].attempt = inputs[j].attempt
        BY <1>9, <3>2
      <4> QED BY <1>1, <1>9, <3>1, <3>3, <4>1 DEF InputsValid
    <3> QED BY <1>3, <1>4, <2>1, <3>2, <3>4
  <2> QED BY <2>1, <2>2, <2>3
<1>10. ASSUME NEW i \in DOMAIN inputs', inputs'[i].ordinal > 1, NEW row, row = inputs'[i]
       PROVE  \E j \in InputsAt(row.task, row.attempt)' : inputs'[j].ordinal = row.ordinal - 1
  <2>1. CASE i = n + 1
    BY <1>10, <2>1 DEF NewInput, InputsAt
  <2>2. CASE i <= n
    <3>1. i \in DOMAIN inputs
      BY <1>3, <2>2
    <3>2. inputs[i] = row
      BY <1>10, <3>1, InputStays
    <3>3. PICK j \in InputsAt(row.task, row.attempt) : inputs[j].ordinal = row.ordinal - 1
      BY <1>1, <1>10, <3>1, <3>2 DEF InputsValid
    <3>4. j \in DOMAIN inputs /\ inputs[j].task = row.task /\ inputs[j].attempt = row.attempt
      BY <3>3 DEF InputsAt
    <3>5. inputs'[j] = inputs[j] /\ j \in DOMAIN inputs'
      BY <1>3, <3>4, InputStays
    <3>6. j \in InputsAt(row.task, row.attempt)'
      BY <3>4, <3>5 DEF InputsAt
    <3> QED BY <3>3, <3>5, <3>6
  <2> QED BY <1>3, <2>1, <2>2
<1>11. \A i \in DOMAIN inputs' : inputs'[i].ordinal > 1 =>
         \E j \in InputsAt(inputs[i].task, inputs[i].attempt)' : inputs'[j].ordinal = inputs'[i].ordinal - 1
  BY <1>10
<1> QED BY <1>7, <1>8, <1>9, <1>11 DEF InputsValid

\* An old revision of the session keeps its event.
LEMMA LinkStays ==
  ASSUME RowsInv, TypeOK', Grows, NEW i \in DOMAIN sessions
  PROVE  SessionLinked(i)' /\ sessions'[i] = sessions[i]
<1>1. TypeOK /\ SessionsValid
  BY DEF RowsInv, RowsValid
<1>2. /\ DOMAIN sessions = 1..Len(sessions) /\ Len(sessions) \in Nat
      /\ DOMAIN outbox = 1..Len(outbox) /\ DOMAIN outbox' = 1..Len(outbox') /\ Len(outbox) \in Nat /\ Len(outbox') \in Nat
  BY <1>1, Columns, ColumnsAfter DEF Columned
<1>3. PICK row : row = sessions[i]
  OBVIOUS
<1>4. sessions'[i] = row
  BY <1>2, <1>3 DEF Grows, Extends
<1>5. SessionLinked(i)
  <2>1. sessions # <<>>
    BY <1>1, Tables
  <2> QED BY <1>1, <2>1 DEF SessionsValid
<1>6. CASE row.reason = "recovery-fenced"
  BY <1>3, <1>4, <1>5, <1>6 DEF SessionLinked
<1>7. CASE row.reason # "recovery-fenced"
  <2>1. PICK c : c = row.cursor
    OBVIOUS
  <2>2. /\ c \in 1..Len(outbox) /\ outbox[c].of = Session /\ outbox[c].revision = i
        /\ outbox[c].epoch = row.epoch /\ outbox[c].recovery = row.recovery
        /\ outbox[c].type = IF row.reason = "created" THEN "session.created" ELSE "session.owner_fenced"
    BY <1>2, <1>3, <1>5, <1>7, <2>1 DEF SessionLinked
  <2>3. SameEvent(outbox[c], outbox'[c]) /\ c \in 1..Len(outbox')
    BY <1>2, <2>2 DEF Grows
  <2>4. PICK new : new = outbox'[c]
    OBVIOUS
  <2>5. /\ new.of = Session /\ new.revision = i /\ new.epoch = row.epoch /\ new.recovery = row.recovery
        /\ new.type = IF row.reason = "created" THEN "session.created" ELSE "session.owner_fenced"
    BY <2>2, <2>3, <2>4 DEF SameEvent
  <2>6. sessions'[i].cursor = c /\ outbox'[sessions'[i].cursor] = new /\ sessions'[i].cursor \in DOMAIN outbox'
        /\ sessions'[i].reason = row.reason /\ sessions'[i].epoch = row.epoch /\ sessions'[i].recovery = row.recovery
    BY <1>2, <1>4, <2>1, <2>3, <2>4
  <2> QED BY <1>3, <1>4, <1>7, <2>5, <2>6 DEF SessionLinked
<1> QED BY <1>3, <1>4, <1>6, <1>7

\* A session that is left as it was stays valid.
LEMMA SessionsSame ==
  ASSUME RowsInv, TypeOK', Grows, sessions' = sessions, recovery' = recovery
  PROVE  SessionsValid'
<1>1. SessionsValid
  BY DEF RowsInv, RowsValid
<1>2. \A i \in DOMAIN sessions : SessionLinked(i)'
  BY LinkStays
<1>3. RecoveryFenced' = RecoveryFenced /\ Owner' = Owner
  BY DEF RecoveryFenced, Owner
<1> QED BY <1>1, <1>2, <1>3 DEF SessionsValid

\* The session is valid after a revision that follows the last and has its event.
LEMMA SessionsGrow ==
  ASSUME RowsInv, TypeOK', Grows, NEW n \in Nat \ {0}, n = Len(sessions), Len(sessions') = n + 1,
         NEW row, row = sessions'[n + 1],
         \/ recovery' = recovery /\ row.reason # "recovery-fenced"
         \/ recovery' = recovery + 1 /\ row.reason = "recovery-fenced",
         SessionStep(Owner, row), row.recovery = recovery', row.epoch <= Owner.epoch + 1, SessionLinked(n + 1)'
  PROVE  SessionsValid'
<1>1. TypeOK /\ SessionsValid
  BY DEF RowsInv, RowsValid
<1>2. /\ DOMAIN sessions = 1..n /\ DOMAIN sessions' = 1..(n + 1) /\ recovery \in Nat /\ recovery' \in Nat
      /\ \A i \in 1..n : sessions'[i] = sessions[i] /\ SessionLinked(i)'
      /\ \A i \in 1..n : sessions[i].recovery \in Nat
  BY <1>1, Columns, ColumnsAfter, LinkStays DEF Columned
<1>3. sessions # <<>> /\ sessions' # <<>> /\ Owner = sessions[n] /\ Owner' = sessions'[n + 1]
  <2>1. sessions # <<>> /\ sessions' # <<>>
    BY <1>2
  <2> QED BY <2>1 DEF Owner, Last
<1>4. \A i \in 1..n : sessions[i].recovery <= recovery
  BY <1>1, <1>2, <1>3 DEF SessionsValid
<1>5. ASSUME NEW i \in RecoveryFenced, NEW j \in RecoveryFenced, i < j
      PROVE  sessions[i].recovery < sessions[j].recovery
  BY <1>1, <1>3, <1>5 DEF SessionsValid
<1>6. {sessions[i].recovery : i \in RecoveryFenced} = (sessions[1].recovery + 1)..recovery
  BY <1>1, <1>3 DEF SessionsValid
<1>7. RecoveryFenced' = RecoveryFenced \cup (IF row.reason = "recovery-fenced" THEN {n + 1} ELSE {})
  BY <1>2 DEF RecoveryFenced
<1>8. \A i \in RecoveryFenced : i \in 1..n /\ sessions'[i] = sessions[i]
  BY <1>2 DEF RecoveryFenced
<1>9. {sessions'[i].recovery : i \in RecoveryFenced'} = (sessions'[1].recovery + 1)..recovery'
  <2>1. sessions'[1] = sessions[1] /\ sessions[1].recovery \in Nat /\ sessions[1].recovery <= recovery
    BY <1>2, <1>4
  <2>2. {sessions'[i].recovery : i \in RecoveryFenced} = (sessions[1].recovery + 1)..recovery
    BY <1>6, <1>8
  <2>3. CASE row.reason = "recovery-fenced"
    <3>1. RecoveryFenced' = RecoveryFenced \cup {n + 1} /\ recovery' = recovery + 1
      BY <1>7, <2>3
    <3>2. {sessions'[i].recovery : i \in RecoveryFenced'}
            = {sessions'[i].recovery : i \in RecoveryFenced} \cup {sessions'[n + 1].recovery}
      BY <3>1
    <3>3. sessions'[n + 1].recovery = recovery + 1
      BY <3>1
    <3>4. ((sessions[1].recovery + 1)..recovery) \cup {recovery + 1} = (sessions[1].recovery + 1)..(recovery + 1)
      BY <1>2, <2>1
    <3> QED BY <2>1, <2>2, <3>1, <3>2, <3>3, <3>4
  <2>4. CASE row.reason # "recovery-fenced"
    <3>1. RecoveryFenced' = RecoveryFenced /\ recovery' = recovery
      BY <1>7, <2>4
    <3> QED BY <2>1, <2>2, <3>1
  <2> QED BY <2>3, <2>4
<1>10. ASSUME NEW i \in RecoveryFenced', NEW j \in RecoveryFenced', i < j
       PROVE  sessions'[i].recovery < sessions'[j].recovery
  <2>1. CASE i \in RecoveryFenced /\ j \in RecoveryFenced
    BY <1>5, <1>8, <1>10, <2>1
  <2>2. CASE j = n + 1 /\ row.reason = "recovery-fenced"
    <3>1. i \in RecoveryFenced /\ i \in 1..n
      BY <1>7, <1>8, <1>10, <2>2
    <3>2. sessions'[i].recovery <= recovery /\ sessions'[i].recovery \in Nat
      BY <1>2, <1>4, <3>1
    <3> QED BY <1>2, <2>2, <3>2
  <2>3. i \in RecoveryFenced
    BY <1>7, <1>8, <1>10
  <2> QED BY <1>7, <2>1, <2>2, <2>3
<1>11. ASSUME NEW i \in DOMAIN sessions'
       PROVE  /\ sessions'[i].recovery <= recovery' /\ SessionLinked(i)'
              /\ i > 1 => SessionStep(sessions'[i - 1], sessions'[i])
  <2>1. CASE i = n + 1
    <3>1. sessions'[n] = sessions[n] /\ i - 1 = n
      BY <1>2, <2>1
    <3> QED BY <1>2, <1>3, <2>1, <3>1
  <2>2. CASE i <= n
    <3>1. sessions'[i] = sessions[i] /\ SessionLinked(i)' /\ sessions[i].recovery <= recovery /\ sessions[i].recovery \in Nat
      BY <1>2, <1>4, <2>2
    <3>2. i > 1 => sessions'[i - 1] = sessions[i - 1] /\ SessionStep(sessions[i - 1], sessions[i])
      BY <1>1, <1>2, <1>3, <2>2 DEF SessionsValid
    <3> QED BY <1>2, <3>1, <3>2
  <2> QED BY <1>2, <2>1, <2>2
<1>12. /\ sessions'[1].reason = "created" /\ sessions'[1].epoch = 1 /\ sessions'[1].authorized
  <2>1. sessions'[1] = sessions[1]
    BY <1>2
  <2> QED BY <1>1, <1>3, <2>1 DEF SessionsValid
<1>13. Owner'.recovery = recovery' /\ Owner'.epoch <= Len(sessions')
  <2>1. Owner.epoch <= n /\ Owner.epoch \in Nat /\ row.epoch \in Nat
    <3>1. row.epoch \in Nat
      BY <1>2, ColumnsAfter DEF Columned
    <3> QED BY <1>1, <1>3, <3>1, OwnerIs DEF SessionsValid
  <2> QED BY <1>3, <2>1
<1> QED BY <1>9, <1>10, <1>11, <1>12, <1>13 DEF SessionsValid

Succeeds(new, old) == new = old \/ (old.epoch \in Nat /\ new.epoch \in Nat /\ old.epoch <= new.epoch)

\* Versions that are left as they were stay valid under a later owner.
LEMMA VersionsSame ==
  ASSUME RowsInv, TypeOK', Grows, versions' = versions, attempts' = attempts, Succeeds(Owner', Owner)
  PROVE  AttemptsValid' /\ VersionsKept'
<1>1. TypeOK /\ AttemptsValid /\ VersionsKept
  BY DEF RowsInv, RowsValid
<1>2. AttemptsValid'
  BY <1>1 DEF AttemptsValid, AttemptValid, VersionsOf, Exists, Attempt, Current
<1>3. ASSUME NEW t \in Names PROVE Exists(t)' = Exists(t) /\ Attempt(t)' = Attempt(t) /\ Current(t)' = Current(t)
  BY DEF Exists, Attempt, Current
<1>4. ASSUME NEW t \in Names, NEW i \in DOMAIN versions'[t]
      PROVE  versions'[t][i].epoch <= Owner'.epoch
  <2>1. versions[t][i].epoch \in Nat /\ versions[t][i].epoch <= Owner.epoch
    BY <1>1, VersionColumns DEF VersionsColumned, VersionsKept
  <2>2. CASE Owner' = Owner
    BY <2>1, <2>2
  <2>3. CASE Owner.epoch \in Nat /\ Owner'.epoch \in Nat /\ Owner.epoch <= Owner'.epoch
    BY <2>1, <2>3
  <2> QED BY <2>2, <2>3 DEF Succeeds
<1>5. ASSUME NEW t \in Names, NEW i \in DOMAIN versions'[t], NEW f \in versions'[t][i].facts, f[1] = "run"
      PROVE  f[2] \in AttemptNumbers /\ f[3] \in DOMAIN runs'[t][f[2]]
  <2>1. f[2] \in AttemptNumbers /\ f[3] \in DOMAIN runs[t][f[2]]
    BY <1>1, <1>5 DEF VersionsKept
  <2>2. PICK k \in AttemptNumbers : k = f[2]
    BY <2>1
  <2>3. /\ DOMAIN runs[t][k] = 1..Len(runs[t][k]) /\ DOMAIN runs'[t][k] = 1..Len(runs'[t][k])
        /\ Len(runs[t][k]) \in Nat /\ Len(runs'[t][k]) \in Nat
    BY <1>1, RunColumns, RunColumnsAfter DEF RunsColumned
  <2>4. Len(runs[t][k]) <= Len(runs'[t][k])
    BY DEF Grows, Extends
  <2> QED BY SMTT(30), <2>1, <2>2, <2>3, <2>4
<1>6. ASSUME NEW t \in Names
      PROVE  /\ Exists(t)' => Current(t)'.state # "CREATED" /\ Attempt(t)' \in AttemptNumbers
             /\ \A i \in DOMAIN versions'[t] :
                  /\ versions'[t][i].attempt \in 1..Attempt(t)'
                  /\ \A j \in 1..i : versions'[t][j].attempt <= versions'[t][i].attempt
                  /\ versions'[t][i].attempt = Attempt(t)' /\ versions'[t][i].state \in Halted =>
                       Current(t)'.state \in Halted
  BY <1>1, <1>3 DEF VersionsKept
<1> QED BY <1>2, <1>4, <1>5, <1>6 DEF VersionsKept

NewEvents == \A c \in 1..Len(outbox') : c > Len(outbox) =>
  /\ outbox'[c].type \in (SessionEvents \cup EventTypes) \ VersionTypes
  /\ (outbox'[c].of = Session) = (outbox'[c].type \in SessionEvents)

\* Events that are not a version's leave the heads of the tasks.
LEMMA OutboxSame ==
  ASSUME RowsInv, TypeOK', Grows, versions' = versions, NewEvents,
         \A c \in Consumers : consumers'[c] <= Len(outbox')
  PROVE  /\ OutboxKept'
         /\ \A t \in Names : \A d \in 0..Len(outbox') : d >= Len(outbox) => HeadAt(t, d)' = Len(versions[t])
<1>1. TypeOK /\ OutboxKept
  BY DEF RowsInv
<1>2. /\ Len(outbox) \in Nat /\ Len(outbox') \in Nat /\ DOMAIN outbox = 1..Len(outbox) /\ DOMAIN outbox' = 1..Len(outbox')
  BY <1>1, Columns, ColumnsAfter DEF Columned
<1>3. /\ Len(outbox) <= Len(outbox')
      /\ \A c \in 1..Len(outbox) : /\ outbox'[c].type = outbox[c].type /\ outbox'[c].of = outbox[c].of
                                   /\ outbox'[c].revision = outbox[c].revision
  BY DEF Grows, SameEvent
<1>4. ASSUME NEW t \in Names, NEW d \in 0..Len(outbox'), d >= Len(outbox) PROVE HeadAt(t, d)' = Len(versions[t])
  <2>1. PICK n \in Nat : n = Len(outbox)
    BY <1>2
  <2>2. Announced(t, d)' = Announced(t, n)
    BY <1>2, <1>3, <1>4, <2>1 DEF Announced, NewEvents
  <2>3. \A c \in Announced(t, n) : outbox'[c].revision = outbox[c].revision
    BY <1>3, <2>1 DEF Announced
  <2>4. {outbox'[c].revision : c \in Announced(t, d)'} = {outbox[c].revision : c \in Announced(t, n)}
    BY <2>2, <2>3
  <2>5. HeadAt(t, n) = Len(versions[t])
    BY <1>1, <2>1 DEF OutboxKept
  <2> QED BY <2>4, <2>5 DEF HeadAt
<1>5. \A t \in Names : HeadAt(t, Len(outbox))' = Len(versions'[t])
  BY <1>2, <1>3, <1>4
<1>6. ASSUME NEW c \in DOMAIN outbox'
      PROVE  /\ (outbox'[c].of = Session) = (outbox'[c].type \in SessionEvents)
             /\ outbox'[c].type \in SessionEvents \cup EventTypes
  <2>1. CASE c > Len(outbox)
    BY <1>2, <2>1 DEF NewEvents
  <2>2. CASE c <= Len(outbox)
    <3>1. c \in 1..Len(outbox) /\ c \in DOMAIN outbox
      BY <1>2, <2>2
    <3> QED BY <1>1, <1>3, <3>1 DEF OutboxKept
  <2> QED BY <1>2, <2>1, <2>2
<1> QED BY <1>4, <1>5, <1>6 DEF OutboxKept

\* Receipts and inputs that are left as they were keep their facts.
LEMMA ReceiptsSame ==
  ASSUME RowsInv, TypeOK', Grows, inputs' = inputs, receipts' = receipts, sessions' # <<>> => sessions # <<>>
  PROVE  ReceiptsKept'
<1>1. TypeOK /\ ReceiptsKept
  BY DEF RowsInv
<1>2. /\ DOMAIN receipts = 1..Len(receipts) /\ Len(receipts) \in Nat /\ Len(events) \in Nat /\ Len(events') \in Nat
      /\ DOMAIN inputs = 1..Len(inputs) /\ Len(inputs) \in Nat
      /\ \A j \in 1..Len(receipts) : receipts[j].event \in Nat /\ receipts[j].task \in Names \cup {Session}
  BY <1>1, Columns, ColumnsAfter DEF Columned
<1>3. \A t : Commands(t)' = Commands(t)
  BY DEF Commands
<1>4. ASSUME NEW j \in DOMAIN receipts
      PROVE  receipts'[j].event <= Len(events')
  <2>1. receipts[j].event <= Len(events)
    BY <1>1 DEF ReceiptsKept
  <2>2. Len(events) <= Len(events')
    BY DEF Grows, Extends
  <2> QED BY <1>2, <2>1, <2>2
<1>5. ASSUME NEW j \in DOMAIN receipts, j > 1
      PROVE  receipts'[j].revision \in DOMAIN versions'[receipts'[j].task]
  <2>1. receipts[j].task # Session /\ receipts[j].revision \in DOMAIN versions[receipts[j].task]
    BY <1>1, <1>5 DEF ReceiptsKept
  <2>2. PICK t \in Names, n \in {receipts[j].revision} : t = receipts[j].task
    BY <1>2, <2>1
  <2>3. /\ DOMAIN versions[t] = 1..Len(versions[t]) /\ DOMAIN versions'[t] = 1..Len(versions'[t])
        /\ Len(versions[t]) \in Nat /\ Len(versions'[t]) \in Nat /\ Len(versions[t]) <= Len(versions'[t])
    BY <1>1, VersionColumns, VersionColumnsAfter DEF VersionsColumned, Grows, Extends
  <2> QED BY <2>1, <2>2, <2>3
<1>6. \A i \in DOMAIN inputs' : Match(i, i + 1)' /\ inputs'[i].ordinal \in 1..i
  BY <1>1 DEF ReceiptsKept, Match
<1>7. \A j \in DOMAIN receipts :
        /\ (receipts[j].task = Session) = (j = 1)
        /\ (receipts[j].kind = "session.create") = (j = 1)
        /\ \A i \in 1..(j - 1) :
            /\ receipts[i].cursor < receipts[j].cursor
            /\ receipts[i].task = receipts[j].task /\ j \in Commands(receipts[j].task) =>
                 receipts[i].revision < receipts[j].revision
  BY <1>1 DEF ReceiptsKept
<1>8. sessions' # <<>> => Len(receipts') = Len(inputs') + 1
  BY <1>1 DEF ReceiptsKept
<1> QED BY <1>3, <1>4, <1>5, <1>6, <1>7, <1>8 DEF ReceiptsKept

\* New events and requests name rows there are.
LEMMA MessagesGrow ==
  ASSUME RowsInv, TypeOK', Grows,
         \A e \in 1..Len(events') : e > Len(events) =>
           /\ events'[e].revision \in DOMAIN versions'[events'[e].task]
           /\ events'[e].run \in DOMAIN runs'[events'[e].task][events'[e].attempt],
         \A e \in 1..Len(requests') : e > Len(requests) =>
           /\ requests'[e].revision \in DOMAIN versions'[requests'[e].task]
           /\ requests'[e].run \in DOMAIN runs'[requests'[e].task][requests'[e].attempt]
  PROVE  MessagesKept'
<1>1. TypeOK /\ MessagesKept
  BY DEF RowsInv
<1>2. /\ DOMAIN events = 1..Len(events) /\ DOMAIN events' = 1..Len(events') /\ Len(events) \in Nat
      /\ DOMAIN requests = 1..Len(requests) /\ DOMAIN requests' = 1..Len(requests') /\ Len(requests) \in Nat
      /\ (\A e \in 1..Len(events) : events[e].task \in Names /\ events[e].attempt \in AttemptNumbers)
      /\ (\A e \in 1..Len(requests) : requests[e].task \in Names /\ requests[e].attempt \in AttemptNumbers)
  BY <1>1, Columns, ColumnsAfter DEF Columned
<1>3. ASSUME NEW t \in Names, NEW k \in AttemptNumbers
      PROVE  DOMAIN versions[t] \subseteq DOMAIN versions'[t] /\ DOMAIN runs[t][k] \subseteq DOMAIN runs'[t][k]
  <2>1. Extends(versions[t], versions'[t]) /\ Extends(runs[t][k], runs'[t][k])
    BY DEF Grows
  <2>2. /\ DOMAIN versions[t] = 1..Len(versions[t]) /\ DOMAIN versions'[t] = 1..Len(versions'[t])
        /\ Len(versions[t]) \in Nat /\ Len(versions'[t]) \in Nat
    BY <1>1, VersionColumns, VersionColumnsAfter DEF VersionsColumned
  <2>3. /\ DOMAIN runs[t][k] = 1..Len(runs[t][k]) /\ DOMAIN runs'[t][k] = 1..Len(runs'[t][k])
        /\ Len(runs[t][k]) \in Nat /\ Len(runs'[t][k]) \in Nat
    BY <1>1, RunColumns, RunColumnsAfter DEF RunsColumned
  <2> QED BY <2>1, <2>2, <2>3 DEF Extends
<1>4. ASSUME NEW e \in DOMAIN events'
      PROVE  /\ events'[e].revision \in DOMAIN versions'[events'[e].task]
             /\ events'[e].run \in DOMAIN runs'[events'[e].task][events'[e].attempt]
  <2>1. CASE e > Len(events)
    BY <1>2, <2>1
  <2>2. CASE e <= Len(events)
    <3>1. e \in DOMAIN events /\ events'[e] = events[e]
      BY SMTT(30), <1>2, <2>2 DEF Grows, Extends
    <3>2. PICK row : row = events[e]
      OBVIOUS
    <3>3. row.revision \in DOMAIN versions[row.task] /\ row.run \in DOMAIN runs[row.task][row.attempt]
      BY <1>1, <3>1, <3>2 DEF MessagesKept
    <3>4. row.task \in Names /\ row.attempt \in AttemptNumbers
      BY <1>2, <3>1, <3>2
    <3> QED BY <1>3, <3>1, <3>2, <3>3, <3>4
  <2> QED BY <1>2, <2>1, <2>2
<1>5. ASSUME NEW e \in DOMAIN requests'
      PROVE  /\ requests'[e].revision \in DOMAIN versions'[requests'[e].task]
             /\ requests'[e].run \in DOMAIN runs'[requests'[e].task][requests'[e].attempt]
  <2>1. CASE e > Len(requests)
    BY <1>2, <2>1
  <2>2. CASE e <= Len(requests)
    <3>1. e \in DOMAIN requests /\ requests'[e] = requests[e]
      BY SMTT(30), <1>2, <2>2 DEF Grows, Extends
    <3>2. PICK row : row = requests[e]
      OBVIOUS
    <3>3. row.revision \in DOMAIN versions[row.task] /\ row.run \in DOMAIN runs[row.task][row.attempt]
      BY <1>1, <3>1, <3>2 DEF MessagesKept
    <3>4. row.task \in Names /\ row.attempt \in AttemptNumbers
      BY <1>2, <3>1, <3>2
    <3> QED BY <1>3, <3>1, <3>2, <3>3, <3>4
  <2> QED BY <1>2, <2>1, <2>2
<1> QED BY <1>4, <1>5 DEF MessagesKept

\* A step that leaves the tables of the tasks leaves them valid.
LEMMA TasksSame ==
  ASSUME RowsInv, TypeOK', Grows, UNCHANGED taskRows, Succeeds(Owner', Owner), sessions' # <<>> => sessions # <<>>
  PROVE  /\ AttemptsValid' /\ CommandsValid' /\ InputsValid' /\ ReceiptsValid'
         /\ VersionsKept' /\ ReceiptsKept'
<1>1. versions' = versions /\ attempts' = attempts /\ receipts' = receipts /\ inputs' = inputs
  BY DEF taskRows
<1>2. TypeOK /\ InputsValid
  BY DEF RowsInv, RowsValid
<1>3. Len(receipts) \in Nat /\ DOMAIN receipts = 1..Len(receipts)
  BY <1>2, Tables
<1>4. AttemptsValid' /\ VersionsKept'
  BY <1>1, VersionsSame
<1>5. ASSUME NEW t \in Names, NEW j \in Commands(t)', j > Len(receipts) PROVE CommandOK(t, j)'
  BY <1>1, <1>3, <1>5 DEF Commands
<1>6. CommandsValid'
  BY <1>1, <1>5, CommandsGrow
<1>7. InputsValid'
  BY <1>1, <1>2 DEF InputsValid, Match, InputValid, InputsAt
<1>8. ReceiptsValid'
  BY <1>1, <1>3, ReceiptsGrow
<1>9. ReceiptsKept'
  BY <1>1, ReceiptsSame
<1> QED BY <1>4, <1>6, <1>7, <1>8, <1>9

\* A step that leaves the executions leaves them valid.
LEMMA RunsSame ==
  ASSUME RowsInv, TypeOK', Grows, versions' = versions, runs' = runs
  PROVE  RunsValid' /\ RunsKept'
<1>1. TypeOK /\ RunsKept
  BY DEF RowsInv
<1>2. ASSUME NEW t \in Names, NEW k \in AttemptNumbers, NEW i \in 1..Len(runs'[t][k]), i > Len(runs[t][k])
      PROVE  SnapshotValid(t, k, i)'
  <2>1. Len(runs[t][k]) \in Nat
    BY <1>1, RunTables
  <2> QED BY <1>2, <2>1
<1>3. RunsValid'
  BY <1>2, RunsGrow
<1>4. DOMAIN inputs \subseteq DOMAIN inputs'
  BY SMTT(30), <1>1, Columns, ColumnsAfter DEF Columned, Grows, Extends
<1>5. ASSUME NEW t \in Names, NEW k \in AttemptNumbers
      PROVE  IsOpen(t, k)' = IsOpen(t, k) /\ Attempt(t)' = Attempt(t) /\ Current(t)' = Current(t) /\ Run(t, k)' = Run(t, k)
  BY DEF IsOpen, HasRun, Run, Attempt, Current, Exists
<1>6. RunsKept'
  BY <1>1, <1>4, <1>5 DEF RunsKept
<1> QED BY <1>3, <1>6

\* A step that leaves the workers' events, and settles none, leaves them valid.
LEMMA EventsSame ==
  ASSUME RowsInv, TypeOK', Grows, events' = events,
         \A j \in 1..Len(receipts') : j > Len(receipts) => receipts'[j].kind # "task.runtime"
  PROVE  EventsValid'
<1>1. TypeOK
  BY DEF RowsInv
<1>2. Len(events) \in Nat
  BY <1>1, Tables
<1>3. \A i \in 1..Len(receipts') : i > Len(receipts) => SettlesOK(i)'
  BY DEF SettlesOK
<1>4. \A j \in 1..Len(events') : ~(j > Len(events))
  BY <1>2
<1> QED BY <1>3, <1>4, EventsGrow

\* Model requests that are left as they were stay valid.
LEMMA RequestsSame ==
  ASSUME RowsInv, TypeOK', Grows, requests' = requests
  PROVE  RequestsValid'
<1>1. TypeOK
  BY DEF RowsInv
<1>2. Len(requests) \in Nat
  BY <1>1, Tables
<1>3. \A j \in 1..Len(requests') : ~(j > Len(requests))
  BY <1>2
<1> QED BY <1>3, RequestsGrow

\* So do the events, when no command settles one.
LEMMA MessagesSame ==
  ASSUME RowsInv, TypeOK', Grows, UNCHANGED <<events, requests>>,
         \A j \in 1..Len(receipts') : j > Len(receipts) => receipts'[j].kind # "task.runtime"
  PROVE  EventsValid' /\ RequestsValid' /\ MessagesKept'
<1>1. TypeOK
  BY DEF RowsInv
<1>2. Len(events) \in Nat /\ Len(requests) \in Nat
  BY <1>1, Tables
<1>3. (\A j \in 1..Len(events') : ~(j > Len(events))) /\ (\A j \in 1..Len(requests') : ~(j > Len(requests)))
  BY <1>2
<1>4. MessagesKept'
  BY <1>3, MessagesGrow
<1> QED BY <1>4, EventsSame, RequestsSame

\* A row that is the same has the same columns.
LEMMA SameRow == ASSUME NEW row PROVE SameEvent(row, row)
  BY DEF SameEvent

\* A table that is the same has grown.
LEMMA SameTable == ASSUME NEW S, NEW rows \in Seq(S) PROVE Extends(rows, rows)
  BY DEF Extends
\* The outbox grows by other events than a version's.
Quiet == \A c \in 1..Len(outbox') : c > Len(outbox) => outbox'[c].type \notin VersionTypes

\* A step that leaves the tables of the tasks, and appends to the others, has grown.
LEMMA GrowsBy ==
  ASSUME TypeOK, TypeOK', recovery <= recovery', Extends(sessions, sessions'), UNCHANGED taskRows,
         \A i \in 1..Len(sessions') : i > Len(sessions) =>
           sessions'[i].cursor > Len(outbox) \/ (sessions'[i].cursor = 0 /\ sessions'[i].recovery > recovery),
         \A t \in Names, k \in AttemptNumbers : Extends(runs[t][k], runs'[t][k]),
         \A t \in Names, k \in AttemptNumbers : runs[t][k] = <<>> /\ runs'[t][k] # <<>> =>
           Exists(t) /\ k = Attempt(t) /\ Current(t).state = "READY",
         Extends(events, events'), Extends(requests, requests'), Len(outbox) <= Len(outbox'),
         \A c \in 1..Len(outbox) : SameEvent(outbox[c], outbox'[c]), Quiet
  PROVE  Grows
<1>1. versions' = versions /\ receipts' = receipts /\ inputs' = inputs
  BY DEF taskRows
<1>2. Extends(receipts, receipts') /\ Extends(inputs, inputs')
  <2>1. receipts \in Seq(ReceiptRows) /\ inputs \in Seq(InputRows)
    BY DEF TypeOK
  <2> QED BY <1>1, <2>1, SameTable
<1>3. ASSUME NEW t \in Names PROVE Extends(versions[t], versions'[t])
  <2>1. versions[t] \in Seq(VersionRows)
    BY TaskTables
  <2> QED BY <1>1, <2>1, SameTable
<1>4. \A j \in 1..Len(receipts') : ~(j > Len(receipts))
  <2>1. Len(receipts) \in Nat
    BY Tables
  <2> QED BY <1>1, <2>1
<1>5. \A c \in 1..Len(outbox') :
        c > Len(outbox) /\ outbox'[c].type \in VersionTypes /\ outbox'[c].of \in Names =>
          outbox'[c].revision > Len(versions[outbox'[c].of])
  BY DEF Quiet
<1> QED BY <1>2, <1>3, <1>4, <1>5 DEF Grows

\* Executions that are the same have grown, and none has begun.
LEMMA RunsExtend ==
  ASSUME TypeOK, runs' = runs
  PROVE  /\ \A t \in Names, k \in AttemptNumbers : Extends(runs[t][k], runs'[t][k])
         /\ \A t \in Names, k \in AttemptNumbers : ~(runs[t][k] = <<>> /\ runs'[t][k] # <<>>)
<1>1. ASSUME NEW t \in Names, NEW k \in AttemptNumbers PROVE Extends(runs[t][k], runs'[t][k])
  <2>1. runs[t][k] \in Seq(RunRows)
    BY RunTables
  <2> QED BY <2>1, SameTable
<1> QED BY <1>1

\* A sequence with one element replaced.
LEMMA Replaced ==
  ASSUME NEW S, NEW p \in Seq(S), NEW i \in 1..Len(p), NEW x \in S, NEW q, q = [p EXCEPT ![i] = x]
  PROVE  q \in Seq(S) /\ Len(q) = Len(p) /\ q[i] = x /\ \A j \in 1..Len(p) : j # i => q[j] = p[j]
  OBVIOUS

\* The parts of the invariant after a step.
LEMMA Preserved ==
  ASSUME TypeOK', SessionsValid', AttemptsValid', CommandsValid', InputsValid', ReceiptsValid',
         OutboxValid', RunsValid', EventsValid', RequestsValid',
         Opened', VersionsKept', RunsKept', ReceiptsKept', OutboxKept', MessagesKept'
  PROVE  RowsInv'
  BY DEF RowsInv, RowsValid

\* An operation that opens no execution, announces no version and receives nothing.
LEMMA OutboxQuiet ==
  ASSUME RowsInv, TypeOK', Grows, PublishKept', UNCHANGED <<versions, runs, inputs>>,
         \A c \in 1..Len(outbox') : c > Len(outbox) => EventValid(c)'
  PROVE  OutboxValid'
<1>1. TypeOK
  BY DEF RowsInv
<1>2. \A t \in Names : \A i \in 1..Len(versions'[t]) : ~(i > Len(versions[t]))
  <2>1. \A t \in Names : Len(versions[t]) \in Nat
    BY <1>1, VersionColumns DEF VersionsColumned
  <2> QED BY <2>1
<1>3. \A t \in Names, k \in AttemptNumbers : \A i \in 1..Len(runs'[t][k]) : ~(i > Len(runs[t][k]))
  <2>1. \A t \in Names, k \in AttemptNumbers : Len(runs[t][k]) \in Nat
    BY <1>1, RunColumns DEF RunsColumned
  <2> QED BY <2>1
<1>4. \A i \in 1..Len(inputs') : ~(i > Len(inputs))
  <2>1. Len(inputs) \in Nat
    BY <1>1, Tables
  <2> QED BY <2>1
<1> QED BY <1>2, <1>3, <1>4, OutboxGrow

\* The rows are valid after an acknowledgement.
LEMMA AcknowledgeKeeps ==
  ASSUME RowsInv, NEW k \in Consumers, Acknowledge(k)
  PROVE  RowsInv'
<1>1. TypeOK /\ OutboxKept /\ OutboxValid /\ Opened
  BY DEF RowsInv, RowsValid
<1>2. UNCHANGED taskRows /\ UNCHANGED <<recovery, sessions>> /\ UNCHANGED runRows
      /\ UNCHANGED <<versions, attempts, receipts, inputs, runs, events, requests>>
  BY DEF Acknowledge, taskRows, runRows
<1>3. PICK n \in Nat : n = consumers[k]
  BY <1>1 DEF TypeOK
<1>4. outbox \in Seq(OutboxRows) /\ Len(outbox) \in Nat /\ DOMAIN outbox = 1..Len(outbox)
      /\ consumers \in [Consumers -> Nat] /\ recovery \in Nat /\ sessions \in Seq(SessionRows)
      /\ events \in Seq(EventRows) /\ requests \in Seq(RequestRows)
  BY <1>1, Tables DEF TypeOK
<1>5. n + 1 \in 1..Len(outbox) /\ consumers' = [consumers EXCEPT ![k] = n + 1]
  BY <1>3, <1>4 DEF Acknowledge
<1>6. PICK row \in OutboxRows : row = outbox[n + 1]
  BY <1>4, <1>5
<1>7. PICK state \in {"pending", "published", "quarantined"} :
        state = IF row.publish = "pending" THEN "published" ELSE row.publish
  <2>1. row.publish \in {"pending", "published", "quarantined"}
    BY DEF OutboxRows
  <2>2. CASE row.publish = "pending"
    BY <2>2
  <2>3. CASE row.publish # "pending"
    BY <2>1, <2>3
  <2> QED BY <2>2, <2>3
<1>71. PICK new : new = [row EXCEPT !.publish = state]
  OBVIOUS
<1>72. new \in OutboxRows /\ SameEvent(row, new) /\ new.publish = state
  BY <1>71 DEF OutboxRows, SameEvent
<1>8. outbox' = [outbox EXCEPT ![n + 1] = new]
  BY <1>3, <1>4, <1>5, <1>6, <1>7, <1>71 DEF Acknowledge
<1>9. /\ outbox' \in Seq(OutboxRows) /\ Len(outbox') = Len(outbox) /\ outbox'[n + 1] = new
      /\ \A c \in 1..Len(outbox) : c # n + 1 => outbox'[c] = outbox[c]
  BY <1>4, <1>5, <1>72, <1>8, Replaced
<1>10. consumers' \in [Consumers -> Nat] /\ consumers'[k] = n + 1 /\ \A c \in Consumers : c # k => consumers'[c] = consumers[c]
  BY <1>4, <1>5
<1>11. TypeOK'
  BY <1>1, <1>2, <1>9, <1>10 DEF TypeOK, Bounds
<1>12. \A c \in 1..Len(outbox) : SameEvent(outbox[c], outbox'[c])
  BY <1>6, <1>72, <1>9, SameRow
<1>13. \A c \in 1..Len(outbox') : ~(c > Len(outbox))
  BY <1>4, <1>9
<1>14. Grows
  <2>1. Extends(sessions, sessions') /\ Extends(events, events') /\ Extends(requests, requests')
    BY <1>2, <1>4, SameTable
  <2>2. \A i \in 1..Len(sessions') : ~(i > Len(sessions))
    BY <1>2, <1>4
  <2>3. recovery <= recovery' /\ Len(outbox) <= Len(outbox')
    BY <1>2, <1>4, <1>9
  <2>4. Quiet
    BY <1>13 DEF Quiet
  <2> QED BY <1>1, <1>2, <1>11, <1>12, <2>1, <2>2, <2>3, <2>4, RunsExtend, GrowsBy
<1>15. PICK d \in Nat : /\ d = Delivered /\ \A c \in Consumers : consumers[c] <= d
                        /\ d = 0 \/ \E c \in Consumers : consumers[c] = d
  <2> DEFINE S == {consumers[c] : c \in Consumers} \cup {0}
  <2>1. S \subseteq 0..Len(outbox) /\ S # {}
    BY <1>1, <1>4 DEF OutboxKept
  <2>2. Delivered = MaxOf(S)
    BY DEF Delivered
  <2>3. Delivered \in S /\ \A m \in S : m <= Delivered
    <3> HIDE DEF S
    <3> QED BY <1>4, <2>1, <2>2, MaxExists
  <2> QED BY Zenon, <1>4, <2>3
<1>16. PICK e \in Nat : e = Delivered' /\ e = IF n + 1 > d THEN n + 1 ELSE d
  <2> DEFINE T == {consumers'[c] : c \in Consumers} \cup {0}
             e == IF n + 1 > d THEN n + 1 ELSE d
  <2>1. T \subseteq Int
    BY <1>10
  <2>2. e \in T
    <3>1. CASE n + 1 > d
      BY <1>10, <3>1
    <3>2. CASE ~(n + 1 > d)
      <4>1. d # 0 /\ n # d
        BY <3>2
      <4>2. PICK c \in Consumers : consumers[c] = d
        BY <1>15, <4>1
      <4>3. c # k
        BY <1>3, <4>1, <4>2
      <4> QED BY <1>10, <3>2, <4>2, <4>3
    <3> QED BY <3>1, <3>2
  <2>3. \A m \in T : m <= e
    <3>1. ASSUME NEW c \in Consumers PROVE consumers'[c] <= e
      <4>1. CASE c = k
        BY <1>10, <4>1
      <4>2. CASE c # k
        <5>1. consumers[c] <= d /\ consumers[c] \in Nat /\ consumers'[c] = consumers[c]
          BY <1>4, <1>10, <1>15, <4>2
        <5> QED BY <5>1
      <4> QED BY <4>1, <4>2
    <3> QED BY <3>1
  <2>4. Delivered' = MaxOf(T)
    BY DEF Delivered
  <2>5. MaxOf(T) = e
    <3> HIDE DEF T, e
    <3> QED BY <2>1, <2>2, <2>3, MaxIs
  <2>6. e \in Nat
    BY <1>3, <1>15
  <2>7. e = IF n + 1 > d THEN n + 1 ELSE d
    OBVIOUS
  <2>8. Delivered' = e
    BY Zenon, <2>4, <2>5
  <2> HIDE DEF T, e
  <2> QED BY Zenon, <2>6, <2>7, <2>8
<1>17. n <= d
  BY <1>3, <1>15
<1>18. ASSUME NEW c \in 1..Len(outbox)
       PROVE  outbox'[c].recovery <= recovery /\ outbox'[c].publish = PublishState(c, e)'
  <2>1. outbox[c].recovery <= recovery /\ outbox[c].publish = PublishState(c, d) /\ outbox'[c].recovery = outbox[c].recovery
    BY <1>1, <1>4, <1>12, <1>15 DEF OutboxValid, SameEvent
  <2>2. CASE c = n + 1
    <3>1. outbox'[c].publish = state /\ outbox'[c].recovery = row.recovery
      BY <1>72, <1>9, <2>2 DEF SameEvent
    <3>2. c <= e
      BY <1>16, <1>17, <2>2
    <3>3. PublishState(c, e)' = IF row.recovery < recovery THEN "quarantined" ELSE "published"
      BY <1>2, <3>1, <3>2 DEF PublishState
    <3>4. row.publish = IF row.recovery < recovery THEN "quarantined" ELSE IF n + 1 <= d THEN "published" ELSE "pending"
      BY <1>6, <2>1, <2>2 DEF PublishState
    <3>5. CASE row.recovery < recovery
      BY <1>6, <1>7, <2>1, <2>2, <3>1, <3>3, <3>4, <3>5
    <3>6. CASE ~(row.recovery < recovery)
      BY <1>6, <1>7, <2>1, <2>2, <3>1, <3>3, <3>4, <3>6
    <3> QED BY <3>5, <3>6
  <2>3. CASE c # n + 1
    <3>1. outbox'[c] = outbox[c]
      BY <1>9, <2>3
    <3>2. c <= e <=> c <= d
      BY <1>4, <1>16, <1>17, <2>3
    <3> QED BY <1>2, <2>1, <3>1, <3>2 DEF PublishState
  <2> QED BY <2>2, <2>3
<1>19. PublishKept'
  BY <1>2, <1>9, <1>16, <1>18 DEF PublishKept
<1>20. OutboxValid'
  BY <1>2, <1>11, <1>13, <1>14, <1>19, OutboxQuiet
<1>21. SessionsValid'
  BY <1>2, <1>11, <1>14, SessionsSame
<1>22. AttemptsValid' /\ CommandsValid' /\ InputsValid' /\ ReceiptsValid' /\ VersionsKept' /\ ReceiptsKept'
  <2>1. Succeeds(Owner', Owner) /\ (sessions' # <<>> => sessions # <<>>)
    BY <1>2 DEF Owner, Succeeds
  <2> QED BY <1>2, <1>11, <1>14, <2>1, TasksSame
<1>23. RunsValid' /\ RunsKept'
  BY <1>2, <1>11, <1>14, RunsSame
<1>24. EventsValid' /\ RequestsValid' /\ MessagesKept'
  <2>1. \A j \in 1..Len(receipts') : ~(j > Len(receipts))
    BY <1>1, <1>2, Tables
  <2> QED BY <1>2, <1>11, <1>14, <2>1, MessagesSame
<1>25. OutboxKept'
  <2>1. NewEvents
    BY <1>13 DEF NewEvents
  <2>2. \A c \in Consumers : consumers'[c] <= Len(outbox')
    BY <1>1, <1>5, <1>9, <1>10 DEF OutboxKept
  <2> QED BY <1>2, <1>11, <1>14, <2>1, <2>2, OutboxSame
<1>26. Opened'
  <2>1. sessions # <<>>
    BY <1>4, <1>5, Opening
  <2> QED BY <1>2, <2>1 DEF Opened
<1> QED BY <1>11, <1>20, <1>21, <1>22, <1>23, <1>24, <1>25, <1>26, Preserved

\* What the owner of an execution finds: the task, the execution, the input.
LEMMA OwnedIs ==
  ASSUME RowsInv, NEW t \in Names, Owned(t),
         NEW a, a = Attempt(t), NEW n, n = Len(versions[t]), NEW m, m = Len(runs[t][a])
  PROVE  /\ a \in AttemptNumbers /\ n \in Nat \ {0} /\ m \in Nat \ {0} /\ sessions # <<>> /\ Exists(t)
         /\ versions[t][n] = Current(t) /\ versions[t][n] \in VersionRows
         /\ versions[t][n].attempt = a /\ versions[t][n].epoch = Owner.epoch
         /\ runs[t][a][m] = Run(t, a) /\ runs[t][a][m] \in RunRows /\ HasRun(t, a)
         /\ runs[t][a][m].epoch = Owner.epoch /\ runs[t][a][m].recovery = recovery
         /\ runs[t][a][m].at \in 1..n /\ runs[t][a][m].input \in DOMAIN inputs
         /\ runs[t][a][m].closed = (runs[t][a][m].state = "STOPPED")
         /\ runs[t][a][m].state \in {"ALLOCATED", "READY"} => ~runs[t][a][m].dispatched
         /\ runs[t][a][m].state \in {"BUSY", "DRAINING"} => runs[t][a][m].dispatched
<1>1. TypeOK /\ RunsKept
  BY DEF RowsInv
<1>2. sessions # <<>> /\ Exists(t) /\ Current(t).epoch = Owner.epoch /\ HasRun(t, a)
      /\ Run(t, a).epoch = Owner.epoch /\ Run(t, a).recovery = recovery
  BY DEF Owned, CurrentTask
<1>3. a \in AttemptNumbers
  BY <1>2 DEF HasRun
<1>4. n \in Nat \ {0} /\ versions[t][n] = Current(t) /\ versions[t][n] \in VersionRows /\ versions[t][n].attempt = a
      /\ DOMAIN versions[t] = 1..n
  BY <1>1, <1>2, TaskTables
<1>5. m \in Nat \ {0} /\ runs[t][a][m] = Run(t, a) /\ runs[t][a][m] \in RunRows /\ DOMAIN runs[t][a] = 1..m
  BY <1>1, <1>2, <1>3, RunTables
<1>6. /\ runs[t][a][m].at \in 1..n /\ runs[t][a][m].input \in DOMAIN inputs
      /\ runs[t][a][m].closed = (runs[t][a][m].state = "STOPPED")
      /\ runs[t][a][m].state \in {"ALLOCATED", "READY"} => ~runs[t][a][m].dispatched
      /\ runs[t][a][m].state \in {"BUSY", "DRAINING"} => runs[t][a][m].dispatched
  <2>1. m \in DOMAIN runs[t][a]
    BY <1>5
  <2> QED BY <1>1, <1>3, <1>4, <2>1 DEF RunsKept
<1> QED BY <1>2, <1>3, <1>4, <1>5, <1>6

\* A message of a working execution leans on its present snapshot, and follows those before it.
LEMMA LeansNow ==
  ASSUME RowsInv, NEW t \in Names, Working(t),
         NEW a, a = Attempt(t), NEW n, n = Len(versions[t]), NEW m, m = Len(runs[t][a]),
         NEW row, row.task = t, row.attempt = a, row.revision = n, row.run = m, row.epoch = Owner.epoch
  PROVE  /\ Leans(row)
         /\ \A e \in DOMAIN events : events[e].task = t /\ events[e].attempt = a =>
              events[e].revision <= n /\ events[e].run <= m
         /\ \A e \in DOMAIN requests : requests[e].task = t /\ requests[e].attempt = a =>
              requests[e].revision <= n /\ requests[e].run <= m
<1>1. Owned(t) /\ Run(t, a).state \in {"BUSY", "DRAINING"}
  BY DEF Working, Fenced
<1>2. Leans(row)
  <2>1. /\ versions[t][n].attempt = a /\ versions[t][n].epoch = Owner.epoch
        /\ runs[t][a][m] = Run(t, a) /\ runs[t][a][m].epoch = Owner.epoch
        /\ runs[t][a][m].at \in 1..n /\ runs[t][a][m].closed = (runs[t][a][m].state = "STOPPED")
        /\ runs[t][a][m].state \in {"BUSY", "DRAINING"} => runs[t][a][m].dispatched
        /\ n \in Nat
    BY <1>1, OwnedIs
  <2>2. runs[t][a][m].state \in {"BUSY", "DRAINING"} /\ ~runs[t][a][m].closed /\ runs[t][a][m].dispatched
    BY <1>1, <2>1
  <2>3. runs[row.task][row.attempt][row.run] = runs[t][a][m] /\ versions[row.task][row.revision] = versions[t][n]
    OBVIOUS
  <2> QED BY <2>1, <2>2, <2>3 DEF Leans
<1>3. a \in AttemptNumbers /\ DOMAIN versions[t] = 1..n /\ DOMAIN runs[t][a] = 1..m
  <2>1. a \in AttemptNumbers /\ TypeOK
    BY <1>1, OwnedIs DEF RowsInv
  <2> QED BY <2>1, TaskTables, RunTables
<1>4. MessagesKept
  BY DEF RowsInv
<1>5. \A e \in DOMAIN events : events[e].task = t /\ events[e].attempt = a =>
        events[e].revision <= n /\ events[e].run <= m
  BY <1>3, <1>4 DEF MessagesKept
<1>6. \A e \in DOMAIN requests : requests[e].task = t /\ requests[e].attempt = a =>
        requests[e].revision <= n /\ requests[e].run <= m
  BY <1>3, <1>4 DEF MessagesKept
<1> QED BY <1>2, <1>5, <1>6

\* The rows are valid after a model request.
LEMMA RequestKeeps ==
  ASSUME RowsInv, NEW t \in Names, RecordModelRequest(t)
  PROVE  RowsInv'
<1>1. TypeOK /\ Opened
  BY DEF RowsInv
<1>2. UNCHANGED taskRows /\ UNCHANGED <<recovery, sessions, outbox, consumers>>
      /\ UNCHANGED <<versions, attempts, receipts, inputs, runs, events>>
  BY DEF RecordModelRequest, taskRows
<1>3. PICK a : a = Attempt(t)
  OBVIOUS
<1>4. PICK n : n = Len(versions[t])
  OBVIOUS
<1>5. PICK m : m = Len(runs[t][a])
  OBVIOUS
<1>6. Working(t) /\ Owned(t) /\ Run(t, a).state = "BUSY" /\ Current(t).state = "RUNNING"
  BY <1>3 DEF RecordModelRequest, Working, Fenced
<1>7. /\ a \in AttemptNumbers /\ n \in Nat \ {0} /\ m \in Nat \ {0} /\ sessions # <<>>
      /\ versions[t][n] = Current(t) /\ runs[t][a][m] = Run(t, a) /\ Owner.epoch \in Nat
  BY <1>1, <1>3, <1>4, <1>5, <1>6, OwnedIs, OwnerIs
<1>8. PICK row : row = [task |-> t, attempt |-> a, revision |-> n, epoch |-> Owner.epoch, run |-> m]
  OBVIOUS
<1>9. row \in RequestRows /\ row.task = t /\ row.attempt = a /\ row.revision = n /\ row.run = m /\ row.epoch = Owner.epoch
  BY <1>7, <1>8 DEF RequestRows
<1>10. requests' = Append(requests, row)
  BY <1>3, <1>4, <1>5, <1>8 DEF RecordModelRequest
<1>11. PICK l \in Nat : l = Len(requests)
  BY Zenon, <1>1, Tables
<1>12. /\ requests \in Seq(RequestRows) /\ requests' \in Seq(RequestRows) /\ Len(requests') = l + 1
       /\ \A i \in 1..l : requests'[i] = requests[i]
       /\ requests'[l + 1] = row /\ DOMAIN requests = 1..l
  BY <1>1, <1>9, <1>10, <1>11, Appended DEF TypeOK
<1>13. TypeOK'
  BY <1>1, <1>2, <1>12 DEF TypeOK, Bounds
<1>14. sessions \in Seq(SessionRows) /\ events \in Seq(EventRows) /\ Len(outbox) \in Nat /\ recovery \in Nat /\ Len(sessions) \in Nat
  BY <1>1, Tables DEF TypeOK
<1>15. Grows
  <2>1. Extends(sessions, sessions') /\ Extends(events, events') /\ Extends(requests, requests')
    <3>1. Extends(sessions, sessions') /\ Extends(events, events')
      BY <1>2, <1>14, SameTable
    <3> QED BY <3>1, <1>11, <1>12 DEF Extends
  <2>2. \A i \in 1..Len(sessions') : ~(i > Len(sessions))
    BY <1>2, <1>14
  <2>3. recovery <= recovery' /\ Len(outbox) <= Len(outbox')
    BY <1>2, <1>14
  <2>4. Quiet
    BY <1>2, <1>14 DEF Quiet
  <2>5. \A c \in 1..Len(outbox) : SameEvent(outbox[c], outbox'[c])
    BY <1>2, SameRow
  <2> QED BY <1>1, <1>2, <1>13, <2>1, <2>2, <2>3, <2>4, <2>5, RunsExtend, GrowsBy
<1>16. SessionsValid'
  BY <1>2, <1>13, <1>15, SessionsSame
<1>17. AttemptsValid' /\ CommandsValid' /\ InputsValid' /\ ReceiptsValid' /\ VersionsKept' /\ ReceiptsKept'
  <2>1. Succeeds(Owner', Owner) /\ (sessions' # <<>> => sessions # <<>>)
    BY <1>2 DEF Owner, Succeeds
  <2> QED BY <1>2, <1>13, <1>15, <2>1, TasksSame
<1>18. RunsValid' /\ RunsKept'
  BY <1>2, <1>13, <1>15, RunsSame
<1>19. EventsValid'
  <2>1. \A j \in 1..Len(receipts') : ~(j > Len(receipts))
    BY <1>1, <1>2, Tables
  <2> QED BY <1>2, <1>13, <1>15, <2>1, EventsSame
<1>20. RequestsValid'
  <2>1. ASSUME NEW j \in 1..Len(requests'), j > Len(requests)
        PROVE  (\A i \in 1..Len(requests') : OrderedPair(i, j, requests')) /\ RequestOK(j)'
    <3>1. j = l + 1
      BY <1>11, <1>12, <2>1
    <3>21. \A e \in DOMAIN requests : requests[e].task = t /\ requests[e].attempt = a =>
            requests[e].revision <= n /\ requests[e].run <= m
      BY SMTT(30), <1>3, <1>4, <1>5, <1>6, <1>9, LeansNow
    <3>2. \A e \in 1..l : requests[e].task = t /\ requests[e].attempt = a =>
            requests[e].revision <= n /\ requests[e].run <= m
      BY <1>12, <3>21
    <3>3. \A i \in 1..Len(requests') : OrderedPair(i, j, requests')
      BY <1>9, <1>12, <3>1, <3>2 DEF OrderedPair
    <3>4. Leans(row)
      BY <1>3, <1>4, <1>5, <1>6, <1>9, LeansNow
    <3>5. Leans(row)'
      <4>1. DOMAIN versions[t] = 1..n /\ DOMAIN runs[t][a] = 1..m
        BY <1>1, <1>4, <1>5, <1>7, TaskTables, RunTables
      <4>2. row.task \in Names /\ row.attempt \in AttemptNumbers /\ row.revision \in DOMAIN versions[row.task]
            /\ row.run \in DOMAIN runs[row.task][row.attempt]
        BY <1>7, <1>9, <4>1
      <4> QED BY <1>1, <1>13, <1>15, <3>4, <4>2, LeansStays
    <3>6. requests'[j] = row
      BY <1>12, <3>1
    <3>7. RequestOK(j)'
      BY <1>2, <1>6, <1>7, <1>9, <3>5, <3>6 DEF RequestOK
    <3> QED BY <3>3, <3>7
  <2> QED BY <1>13, <1>15, <2>1, RequestsGrow
<1>21. MessagesKept'
  <2>1. \A e \in 1..Len(events') : ~(e > Len(events))
    BY <1>1, <1>2, Tables
  <2>2. ASSUME NEW e \in 1..Len(requests'), e > Len(requests)
        PROVE  /\ requests'[e].revision \in DOMAIN versions'[requests'[e].task]
               /\ requests'[e].run \in DOMAIN runs'[requests'[e].task][requests'[e].attempt]
    <3>1. requests'[e] = row
      BY <1>11, <1>12, <2>2
    <3>2. DOMAIN versions[t] = 1..n /\ DOMAIN runs[t][a] = 1..m
      BY <1>1, <1>4, <1>5, <1>7, TaskTables, RunTables
    <3> QED BY <1>2, <1>7, <1>9, <3>1, <3>2
  <2> QED BY <1>13, <1>15, <2>1, <2>2, MessagesGrow
<1>22. OutboxValid' /\ OutboxKept'
  <2>1. \A c \in 1..Len(outbox') : ~(c > Len(outbox))
    BY <1>2, <1>14
  <2>2. PublishKept'
    BY <1>2, <1>13, <1>14, <2>1, PublishGrows
  <2>3. OutboxValid'
    BY <1>2, <1>13, <1>15, <2>1, <2>2, OutboxQuiet
  <2>4. NewEvents /\ \A c \in Consumers : consumers'[c] <= Len(outbox')
    BY <1>2, <2>1 DEF NewEvents, RowsInv, OutboxKept
  <2> QED BY <1>2, <1>13, <1>15, <2>3, <2>4, OutboxSame
<1>23. Opened'
  BY <1>2, <1>7 DEF Opened
<1> QED BY <1>13, <1>16, <1>17, <1>18, <1>19, <1>20, <1>21, <1>22, <1>23, Preserved

\* The events of the session name its rows.
LEMMA SessionEventsBefore ==
  ASSUME RowsInv, NEW d \in 1..Len(outbox), outbox[d].of = Session
  PROVE  outbox[d].revision \in 1..Len(sessions) /\ outbox[d].type \in SessionEvents
<1>1. TypeOK /\ OutboxKept /\ OutboxValid
  BY DEF RowsInv, RowsValid
<1>2. d \in DOMAIN outbox /\ DOMAIN sessions = 1..Len(sessions)
  BY <1>1, Tables
<1>3. outbox[d].type \in SessionEvents
  BY <1>1, <1>2 DEF OutboxKept
<1>4. SessionEventValid(d)
  BY <1>1, <1>2, <1>3 DEF OutboxValid
<1> QED BY <1>2, <1>3, <1>4 DEF SessionEventValid

\* The rows are valid after a restart of the daemon.
LEMMA FenceKeeps ==
  ASSUME RowsInv, FenceRestartedOwners
  PROVE  RowsInv'
<1>1. TypeOK /\ Opened /\ OutboxKept
  BY DEF RowsInv
<1>2. UNCHANGED taskRows /\ UNCHANGED runRows /\ UNCHANGED <<recovery, consumers>> /\ sessions # <<>>
      /\ UNCHANGED <<versions, attempts, receipts, inputs, runs, events, requests>>
  BY DEF FenceRestartedOwners, taskRows, runRows
<1>3. PICK n \in Nat \ {0} : n = Len(sessions)
  <2>1. Len(sessions) \in Nat /\ Len(sessions) >= 1
    BY <1>1, <1>2, OwnerIs, Tables
  <2> QED BY <2>1
<1>4. PICK l \in Nat : l = Len(outbox)
  BY <1>1, Tables
<1>5. PICK e \in Nat : e = Owner.epoch
  BY <1>1, <1>2, OwnerIs
<1>6. PICK o \in Nat : o = Owner.owner
  BY <1>1, <1>2, OwnerIs
<1>7. /\ sessions \in Seq(SessionRows) /\ outbox \in Seq(OutboxRows) /\ recovery \in Nat
      /\ DOMAIN sessions = 1..n /\ DOMAIN outbox = 1..l /\ Owner = sessions[n]
      /\ events \in Seq(EventRows) /\ requests \in Seq(RequestRows)
  BY <1>1, <1>2, <1>3, <1>4, OwnerIs, Tables DEF TypeOK
<1>8. PICK row : row = SessionRow("owner-fenced", o + 1, e + 1, FALSE, recovery, l + 1)
  OBVIOUS
<1>9. /\ row \in SessionRows /\ row.reason = "owner-fenced" /\ row.owner = o + 1 /\ row.epoch = e + 1
      /\ row.authorized = FALSE /\ row.recovery = recovery /\ row.cursor = l + 1
  BY <1>7, <1>8 DEF SessionRow, SessionRows, Reasons
<1>10. sessions' = Append(sessions, row)
  BY <1>4, <1>5, <1>6, <1>8 DEF FenceRestartedOwners
<1>11. /\ sessions' \in Seq(SessionRows) /\ Len(sessions') = n + 1 /\ sessions'[n + 1] = row
       /\ \A i \in 1..n : sessions'[i] = sessions[i]
       /\ DOMAIN sessions' = 1..(n + 1)
  BY <1>3, <1>7, <1>9, <1>10, Appended
<1>12. PICK base \in OutboxRows :
         /\ base = OutboxRow("session.owner_fenced", Session, n + 1, Nothing)
         /\ base.type = "session.owner_fenced" /\ base.of = Session /\ base.revision = n + 1
         /\ base.recovery = recovery /\ base.publish = "pending"
  <2>1. Nothing \in Facts
    BY DEF Facts, Nothing, About
  <2>2. Session \in Names \cup {Session} /\ n + 1 \in Nat
        /\ "session.owner_fenced" \in SessionEvents \cup EventTypes
    BY DEF SessionEvents
  <2> DEFINE b == OutboxRow("session.owner_fenced", Session, n + 1, Nothing)
  <2>3. /\ b \in OutboxRows /\ b.type = "session.owner_fenced" /\ b.of = Session /\ b.revision = n + 1
        /\ b.recovery = recovery /\ b.publish = "pending"
    BY <1>1, <1>2, <2>1, <2>2, Typed
  <2>4. b = OutboxRow("session.owner_fenced", Session, n + 1, Nothing)
    OBVIOUS
  <2> HIDE DEF b
  <2> QED BY <2>3, <2>4
<1>13. PICK event : event = [base EXCEPT !.epoch = e + 1]
  OBVIOUS
<1>14. /\ event \in OutboxRows /\ event.type = "session.owner_fenced" /\ event.of = Session
       /\ event.revision = n + 1 /\ event.recovery = recovery /\ event.publish = "pending" /\ event.epoch = e + 1
  BY <1>12, <1>13 DEF OutboxRows
<1>15. outbox' = Append(outbox, event)
  BY <1>3, <1>5, <1>12, <1>13 DEF FenceRestartedOwners
<1>16. /\ outbox' \in Seq(OutboxRows) /\ Len(outbox') = l + 1 /\ outbox'[l + 1] = event
       /\ \A c \in 1..l : outbox'[c] = outbox[c]
       /\ DOMAIN outbox' = 1..(l + 1)
  BY <1>4, <1>7, <1>14, <1>15, Appended
<1>17. TypeOK'
  BY <1>1, <1>2, <1>11, <1>16 DEF TypeOK, Bounds
<1>18. Quiet
  BY <1>4, <1>14, <1>16 DEF Quiet, VersionTypes
<1>19. Grows
  <2>1. Extends(sessions, sessions') /\ Extends(events, events') /\ Extends(requests, requests')
    <3>1. Extends(events, events') /\ Extends(requests, requests')
      BY <1>2, <1>7, SameTable
    <3> QED BY <3>1, <1>3, <1>11 DEF Extends
  <2>2. \A i \in 1..Len(sessions') : i > Len(sessions) => sessions'[i].cursor > Len(outbox)
    BY <1>3, <1>4, <1>9, <1>11
  <2>3. recovery <= recovery' /\ Len(outbox) <= Len(outbox')
    BY <1>2, <1>4, <1>7, <1>16
  <2>5. \A c \in 1..Len(outbox) : SameEvent(outbox[c], outbox'[c])
    BY <1>4, <1>16, SameRow
  <2> QED BY <1>1, <1>2, <1>17, <1>18, <2>1, <2>2, <2>3, <2>5, RunsExtend, GrowsBy
<1>20. Owner' = row /\ sessions' # <<>>
  BY <1>11 DEF Owner, Last
<1>21. SessionsValid'
  <2>1. SessionLinked(n + 1)'
    BY <1>2, <1>9, <1>11, <1>14, <1>16 DEF SessionLinked
  <2>2. SessionStep(Owner, row)
    <3>1. Owner.recovery = recovery
      BY <1>2 DEF RowsInv, RowsValid, SessionsValid
    <3> QED BY <1>5, <1>6, <1>9, <3>1 DEF SessionStep
  <2> QED BY <1>2, <1>3, <1>5, <1>9, <1>11, <1>17, <1>19, <2>1, <2>2, SessionsGrow
<1>22. AttemptsValid' /\ CommandsValid' /\ InputsValid' /\ ReceiptsValid' /\ VersionsKept' /\ ReceiptsKept'
  <2>1. Succeeds(Owner', Owner)
    BY <1>5, <1>9, <1>20 DEF Succeeds
  <2> QED BY <1>2, <1>17, <1>19, <2>1, TasksSame
<1>23. RunsValid' /\ RunsKept'
  BY <1>2, <1>17, <1>19, RunsSame
<1>24. EventsValid' /\ RequestsValid' /\ MessagesKept'
  <2>1. \A j \in 1..Len(receipts') : ~(j > Len(receipts))
    BY <1>1, <1>2, Tables
  <2> QED BY <1>2, <1>17, <1>19, <2>1, MessagesSame
<1>25. OutboxValid'
  <2>1. PublishKept'
    BY <1>2, <1>4, <1>14, <1>16, <1>17, PublishGrows
  <2>2. ASSUME NEW c \in 1..Len(outbox'), c > Len(outbox) PROVE EventValid(c)'
    <3>1. c = l + 1
      BY <1>4, <1>16, <2>2
    <3>2. \A d \in 1..l : outbox'[d].of = Session => outbox'[d].revision < n + 1
      BY <1>3, <1>4, <1>16, SessionEventsBefore
    <3>3. SessionEventValid(c)'
      BY <1>9, <1>11, <1>14, <1>16, <3>1, <3>2 DEF SessionEventValid
    <3> QED BY <1>14, <1>16, <3>1, <3>3 DEF EventValid, SessionEvents
  <2> QED BY <1>2, <1>17, <1>19, <2>1, <2>2, OutboxQuiet
<1>26. OutboxKept'
  <2>1. NewEvents
    BY <1>4, <1>14, <1>16 DEF NewEvents, SessionEvents, VersionTypes
  <2>2. \A c \in Consumers : consumers'[c] <= Len(outbox')
    <3>1. \A c \in Consumers : consumers[c] <= l /\ consumers[c] \in Nat
      BY <1>1, <1>4 DEF OutboxKept, TypeOK
    <3> QED BY <1>2, <1>16, <3>1
  <2> QED BY <1>2, <1>17, <1>19, <2>1, <2>2, OutboxSame
<1>27. Opened'
  BY <1>20 DEF Opened
<1> QED BY <1>17, <1>21, <1>22, <1>23, <1>24, <1>25, <1>26, <1>27, Preserved

\* The rows are valid after a restore.
LEMMA QuarantineKeeps ==
  ASSUME RowsInv, QuarantineRecovery
  PROVE  RowsInv'
<1>1. TypeOK /\ Opened /\ OutboxKept /\ OutboxValid
  BY DEF RowsInv, RowsValid
<1>2. UNCHANGED taskRows /\ UNCHANGED runRows /\ UNCHANGED <<consumers>> /\ recovery' = recovery + 1
      /\ UNCHANGED <<versions, attempts, receipts, inputs, runs, events, requests>>
  BY DEF QuarantineRecovery, taskRows, runRows
<1>4. PICK l \in Nat : l = Len(outbox)
  BY <1>1, Tables
<1>7. /\ sessions \in Seq(SessionRows) /\ outbox \in Seq(OutboxRows) /\ recovery \in Nat
      /\ DOMAIN outbox = 1..l
      /\ events \in Seq(EventRows) /\ requests \in Seq(RequestRows)
  BY <1>1, <1>4, Tables DEF TypeOK
<1>8. ASSUME NEW x \in OutboxRows
      PROVE  [x EXCEPT !.publish = "quarantined"] \in OutboxRows /\ SameEvent(x, [x EXCEPT !.publish = "quarantined"])
             /\ [x EXCEPT !.publish = "quarantined"].publish = "quarantined"
  BY DEF OutboxRows, SameEvent
<1>9. /\ outbox' \in Seq(OutboxRows) /\ Len(outbox') = l /\ DOMAIN outbox' = 1..l
      /\ \A c \in 1..l : SameEvent(outbox[c], outbox'[c]) /\ outbox'[c].publish = "quarantined"
  <2>1. outbox' = [i \in 1..l |-> [outbox[i] EXCEPT !.publish = "quarantined"]]
    BY <1>7 DEF QuarantineRecovery
  <2>2. \A c \in 1..l : outbox[c] \in OutboxRows
    BY <1>7
  <2>3. \A c \in 1..l : outbox'[c] \in OutboxRows /\ SameEvent(outbox[c], outbox'[c]) /\ outbox'[c].publish = "quarantined"
    <3>1. ASSUME NEW c \in 1..l
          PROVE  outbox'[c] \in OutboxRows /\ SameEvent(outbox[c], outbox'[c]) /\ outbox'[c].publish = "quarantined"
      <4>1. PICK x \in OutboxRows : x = outbox[c]
        BY <2>2
      <4>2. outbox'[c] = [x EXCEPT !.publish = "quarantined"]
        BY <2>1, <4>1
      <4> QED BY <1>8, <4>1, <4>2
    <3> QED BY <3>1
  <2>4. DOMAIN outbox' = 1..l
    BY <2>1
  <2>5. outbox' \in Seq(OutboxRows) /\ Len(outbox') = l
    <3>1. PICK q : q = outbox'
      OBVIOUS
    <3>2. q \in [1..l -> OutboxRows]
      <4>1. q = [i \in 1..l |-> q[i]]
        BY <2>1, <3>1
      <4>2. \A c \in 1..l : q[c] \in OutboxRows
        BY <2>3, <3>1
      <4> QED BY <4>1, <4>2
    <3>3. q \in Seq(OutboxRows) /\ Len(q) = l
      BY <3>2
    <3> QED BY <3>1, <3>3
  <2> QED BY <2>3, <2>4, <2>5
<1>10. PICK n \in Nat : n = Len(sessions)
  BY <1>1, Tables
<1>11. /\ sessions' \in Seq(SessionRows)
       /\ sessions # <<>> =>
            /\ n > 0 /\ Len(sessions') = n + 1 /\ Owner' = sessions'[n + 1]
            /\ \A i \in 1..n : sessions'[i] = sessions[i]
            /\ sessions'[n + 1].reason = "recovery-fenced" /\ sessions'[n + 1].owner = Owner.owner
            /\ sessions'[n + 1].epoch = Owner.epoch + 1 /\ sessions'[n + 1].authorized = FALSE
            /\ sessions'[n + 1].recovery = recovery + 1 /\ sessions'[n + 1].cursor = 0
       /\ sessions = <<>> => sessions' = sessions
  <2>1. CASE sessions = <<>>
    BY <1>7, <2>1 DEF QuarantineRecovery
  <2>2. CASE sessions # <<>>
    <3>1. PICK row : row = SessionRow("recovery-fenced", Owner.owner, Owner.epoch + 1, FALSE, recovery + 1, 0)
      OBVIOUS
    <3>2. /\ row \in SessionRows /\ row.reason = "recovery-fenced" /\ row.owner = Owner.owner
          /\ row.epoch = Owner.epoch + 1 /\ row.authorized = FALSE /\ row.recovery = recovery + 1 /\ row.cursor = 0
      <4>1. Owner.epoch \in Nat /\ Owner.owner \in Nat
        BY <1>1, <2>2, OwnerIs
      <4> QED BY SMTT(30), <1>7, <3>1, <4>1 DEF SessionRow, SessionRows, Reasons
    <3>3. sessions' = Append(sessions, row)
      BY <2>2, <3>1 DEF QuarantineRecovery
    <3>4. /\ sessions' \in Seq(SessionRows) /\ Len(sessions') = n + 1 /\ sessions'[n + 1] = row
          /\ \A i \in 1..n : sessions'[i] = sessions[i]
      BY <1>7, <1>10, <3>2, <3>3, Appended
    <3>5. n > 0
      BY <1>7, <1>10, <2>2
    <3> QED BY <1>10, <2>2, <3>2, <3>4, <3>5 DEF Owner, Last
  <2> QED BY <2>1, <2>2
<1>12. TypeOK'
  BY <1>1, <1>2, <1>7, <1>9, <1>11 DEF TypeOK, Bounds
<1>13. Extends(sessions, sessions') /\ Len(sessions') \in Nat
  <2>1. CASE sessions = <<>>
    BY <1>7, <1>11, <2>1, SameTable
  <2>2. CASE sessions # <<>>
    BY <1>10, <1>11, <2>2 DEF Extends
  <2> QED BY <2>1, <2>2
<1>14. \A c \in 1..Len(outbox') : ~(c > Len(outbox))
  BY <1>4, <1>9
<1>15. Grows
  <2>1. Extends(events, events') /\ Extends(requests, requests')
    BY <1>2, <1>7, SameTable
  <2>2. ASSUME NEW i \in 1..Len(sessions'), i > Len(sessions)
        PROVE  sessions'[i].cursor = 0 /\ sessions'[i].recovery > recovery
    <3>1. sessions # <<>>
      BY <1>7, <1>11, <2>2
    <3>2. i = n + 1
      BY <1>10, <1>11, <2>2, <3>1
    <3> QED BY <1>7, <1>11, <3>1, <3>2
  <2>3. recovery <= recovery' /\ Len(outbox) <= Len(outbox')
    BY <1>2, <1>4, <1>7, <1>9
  <2>4. Quiet
    BY <1>14 DEF Quiet
  <2>5. \A c \in 1..Len(outbox) : SameEvent(outbox[c], outbox'[c])
    BY <1>4, <1>9
  <2> QED BY <1>1, <1>2, <1>12, <1>13, <2>1, <2>2, <2>3, <2>4, <2>5, RunsExtend, GrowsBy
<1>16. SessionsValid'
  <2>1. CASE sessions = <<>>
    BY <1>11, <2>1 DEF SessionsValid
  <2>2. CASE sessions # <<>>
    <3>1. PICK row : row = sessions'[n + 1]
      OBVIOUS
    <3>2. Owner.recovery = recovery /\ Owner.epoch \in Nat
      BY <1>1, <2>2, OwnerIs DEF RowsInv, RowsValid, SessionsValid
    <3>3. SessionStep(Owner, row)
      BY SMTT(30), <1>7, <1>11, <2>2, <3>1, <3>2 DEF SessionStep
    <3>4. SessionLinked(n + 1)'
      BY <1>11, <2>2, <3>1 DEF SessionLinked
    <3>5. n \in Nat \ {0}
      BY <1>11, <2>2
    <3> QED BY <1>2, <1>10, <1>11, <1>12, <1>15, <2>2, <3>1, <3>2, <3>3, <3>4, <3>5, SessionsGrow
  <2> QED BY <2>1, <2>2
<1>17. sessions' # <<>> => sessions # <<>>
  BY <1>11
<1>18. AttemptsValid' /\ CommandsValid' /\ InputsValid' /\ ReceiptsValid' /\ VersionsKept' /\ ReceiptsKept'
  <2>1. Succeeds(Owner', Owner)
    <3>1. CASE sessions = <<>>
      BY <1>11, <3>1 DEF Succeeds, Owner
    <3>2. CASE sessions # <<>>
      <4>1. Owner.epoch \in Nat /\ Owner'.epoch = Owner.epoch + 1
        BY <1>1, <1>11, <3>2, OwnerIs
      <4> QED BY <4>1 DEF Succeeds
    <3> QED BY <3>1, <3>2
  <2> QED BY <1>2, <1>12, <1>15, <1>17, <2>1, TasksSame
<1>23. RunsValid' /\ RunsKept'
  BY <1>2, <1>12, <1>15, RunsSame
<1>24. EventsValid' /\ RequestsValid' /\ MessagesKept'
  <2>1. \A j \in 1..Len(receipts') : ~(j > Len(receipts))
    BY <1>1, <1>2, Tables
  <2> QED BY <1>2, <1>12, <1>15, <2>1, MessagesSame
<1>25. OutboxValid'
  <2>1. PublishKept'
    <3>1. ASSUME NEW c \in 1..l
          PROVE  outbox'[c].recovery <= recovery' /\ outbox'[c].recovery < recovery' /\ outbox'[c].publish = "quarantined"
      <4>1. outbox[c].recovery <= recovery /\ outbox[c].recovery \in Nat
        <5>1. outbox[c] \in OutboxRows /\ c \in DOMAIN outbox
          BY <1>7
        <5> QED BY <1>1, <5>1 DEF OutboxValid, OutboxRows
      <4>2. outbox'[c].recovery = outbox[c].recovery
        BY <1>9 DEF SameEvent
      <4> QED BY <1>2, <1>7, <1>9, <4>1, <4>2
    <3> QED BY <1>9, <3>1 DEF PublishKept, PublishState
  <2> QED BY <1>2, <1>12, <1>14, <1>15, <2>1, OutboxQuiet
<1>26. OutboxKept'
  <2>1. NewEvents
    BY <1>14 DEF NewEvents
  <2>2. \A c \in Consumers : consumers'[c] <= Len(outbox')
    BY <1>1, <1>2, <1>4, <1>9 DEF OutboxKept
  <2> QED BY <1>2, <1>12, <1>15, <2>1, <2>2, OutboxSame
<1>27. Opened'
  <2>1. CASE sessions = <<>>
    <3>1. outbox = <<>> /\ receipts = <<>> /\ inputs = <<>> /\ \A t \in Names : versions[t] = <<>>
      BY <1>1, <2>1 DEF Opened
    <3>2. outbox' = <<>>
      BY <1>4, <1>9, <3>1
    <3> QED BY <1>2, <3>1, <3>2 DEF Opened
  <2>2. CASE sessions # <<>>
    BY <1>11, <2>2 DEF Opened
  <2> QED BY <2>1, <2>2
<1> QED BY <1>12, <1>16, <1>18, <1>23, <1>24, <1>25, <1>26, <1>27, Preserved

\* The session's last row is in force after its cursor.
LastInForce == \A c \in 1..Len(outbox) :
  sessions # <<>> /\ Owner.recovery <= outbox[c].recovery /\ Owner.cursor < c =>
    Authority(outbox[c].recovery, c) # {} /\ AuthorityAt(c) = Owner

\* The last authority before a cursor is the one in force.
LEMMA InForce == TypeOK => LastInForce
<1> SUFFICES ASSUME TypeOK, NEW c \in 1..Len(outbox), sessions # <<>>, Owner.recovery <= outbox[c].recovery,
                    Owner.cursor < c
             PROVE  Authority(outbox[c].recovery, c) # {} /\ AuthorityAt(c) = Owner
  BY DEF LastInForce
<1>1. PICK n \in Nat : n = Len(sessions) /\ n >= 1 /\ Owner = sessions[n] /\ DOMAIN sessions = 1..n
  BY Zenon, OwnerIs, Tables
<1>2. PICK S : S = Authority(outbox[c].recovery, c)
  OBVIOUS
<1>3. n \in S /\ S \subseteq Int /\ \A i \in S : i <= n
  BY <1>1, <1>2 DEF Authority
<1>4. MaxOf(S) = n
  BY <1>3, MaxIs
<1> QED BY <1>1, <1>2, <1>3, <1>4 DEF AuthorityAt

\* So it is after a step.
LEMMA InForceAfter == TypeOK' => LastInForce'
  BY InForce, PTL

\* The owner is of the present recovery epoch.
LEMMA OwnerNow ==
  ASSUME RowsInv, sessions # <<>>
  PROVE  Owner.recovery = recovery /\ Owner.cursor \in 0..Len(outbox)
<1>1. TypeOK /\ SessionsValid
  BY DEF RowsInv, RowsValid
<1>2. PICK n \in Nat : n = Len(sessions) /\ n >= 1 /\ Owner = sessions[n] /\ DOMAIN sessions = 1..n
  BY Zenon, <1>1, OwnerIs, Tables
<1>3. Owner.recovery = recovery /\ SessionLinked(n)
  BY <1>1, <1>2 DEF SessionsValid
<1>4. Len(outbox) \in Nat /\ DOMAIN outbox = 1..Len(outbox)
  BY <1>1, Tables
<1> QED BY <1>2, <1>3, <1>4 DEF SessionLinked

\* A worker's event, with its progress in the outbox.
LEMMA IngestKeeps ==
  ASSUME RowsInv, NEW t \in Names, Ingest(t)
  PROVE  RowsInv'
<1>1. TypeOK /\ Opened /\ OutboxKept /\ EventsValid /\ ReceiptsKept /\ Session \notin Names
  BY DEF RowsInv, RowsValid, TypeOK, Bounds
<1>2. UNCHANGED taskRows /\ UNCHANGED <<recovery, sessions, consumers>>
      /\ UNCHANGED <<versions, attempts, receipts, inputs, runs, requests>>
  BY DEF Ingest, taskRows
<1>3. PICK a : a = Attempt(t)
  OBVIOUS
<1>4. PICK n : n = Len(versions[t])
  OBVIOUS
<1>5. PICK m : m = Len(runs[t][a])
  OBVIOUS
<1>6. Working(t) /\ Owned(t)
  BY DEF Ingest, Working, Fenced
<1>7. /\ a \in AttemptNumbers /\ n \in Nat \ {0} /\ m \in Nat \ {0} /\ sessions # <<>>
      /\ versions[t][n].epoch = Owner.epoch /\ Owner.epoch \in Nat
  BY <1>1, <1>3, <1>4, <1>5, <1>6, OwnedIs, OwnerIs
<1>8. PICK l \in Nat : l = Len(outbox)
  BY <1>1, Tables
<1>9. PICK ev \in Nat : ev = Len(events)
  BY <1>1, Tables
<1>10. PICK row : row = [task |-> t, attempt |-> a, revision |-> n, epoch |-> Owner.epoch,
                         recovery |-> recovery, run |-> m, cursor |-> l + 1, ack |-> l + 1]
  OBVIOUS
<1>11. row \in EventRows /\ row.task = t /\ row.attempt = a /\ row.revision = n /\ row.run = m
       /\ row.epoch = Owner.epoch /\ row.recovery = recovery /\ row.cursor = l + 1 /\ row.ack = l + 1
  <2>1. recovery \in Nat
    BY <1>1 DEF TypeOK
  <2> QED BY <1>7, <1>10, <2>1 DEF EventRows
<1>12. events' = Append(events, row)
  BY <1>3, <1>4, <1>5, <1>8, <1>10 DEF Ingest, EventRow
<1>13. /\ events \in Seq(EventRows) /\ events' \in Seq(EventRows) /\ Len(events') = ev + 1
       /\ \A i \in 1..ev : events'[i] = events[i]
       /\ events'[ev + 1] = row /\ DOMAIN events = 1..ev /\ DOMAIN events' = 1..(ev + 1)
  BY <1>1, <1>9, <1>11, <1>12, Appended DEF TypeOK
<1>14. PICK event \in OutboxRows :
         /\ event = Progress(t) /\ event.type = "task.progress" /\ event.of = t /\ event.revision = n
         /\ event.epoch = Owner.epoch /\ event.recovery = recovery /\ event.publish = "pending"
  <2>1. <<"working", 0, 0>> \in Facts
    BY DEF Facts, About
  <2>2. t \in Names \cup {Session} /\ n \in Nat /\ "task.progress" \in SessionEvents \cup EventTypes
    BY <1>7 DEF EventTypes
  <2> QED BY <1>1, <1>4, <1>7, <2>1, <2>2, Typed DEF Progress
<1>15. outbox' = Append(outbox, event)
  BY <1>14 DEF Ingest
<1>16. /\ outbox \in Seq(OutboxRows) /\ outbox' \in Seq(OutboxRows) /\ Len(outbox') = l + 1 /\ outbox'[l + 1] = event
       /\ \A c \in 1..l : outbox'[c] = outbox[c]
       /\ DOMAIN outbox' = 1..(l + 1) /\ DOMAIN outbox = 1..l
  BY <1>1, <1>8, <1>14, <1>15, Appended DEF TypeOK
<1>17. TypeOK'
  BY <1>1, <1>2, <1>13, <1>16 DEF TypeOK, Bounds
<1>18. Quiet
  BY <1>8, <1>14, <1>16 DEF Quiet, VersionTypes
<1>19. sessions \in Seq(SessionRows) /\ requests \in Seq(RequestRows) /\ recovery \in Nat /\ Len(sessions) \in Nat
  BY <1>1, Tables DEF TypeOK
<1>20. Grows
  <2>1. Extends(sessions, sessions') /\ Extends(events, events') /\ Extends(requests, requests')
    <3>1. Extends(sessions, sessions') /\ Extends(requests, requests')
      BY <1>2, <1>19, SameTable
    <3> QED BY <3>1, <1>9, <1>13 DEF Extends
  <2>2. \A i \in 1..Len(sessions') : ~(i > Len(sessions))
    BY <1>2, <1>19
  <2>3. recovery <= recovery' /\ Len(outbox) <= Len(outbox')
    BY <1>2, <1>8, <1>16, <1>19
  <2>5. \A c \in 1..Len(outbox) : SameEvent(outbox[c], outbox'[c])
    BY <1>8, <1>16, SameRow
  <2> QED BY <1>1, <1>2, <1>17, <1>18, <2>1, <2>2, <2>3, <2>5, RunsExtend, GrowsBy
<1>21. SessionsValid'
  BY <1>2, <1>17, <1>20, SessionsSame
<1>22. AttemptsValid' /\ CommandsValid' /\ InputsValid' /\ ReceiptsValid' /\ VersionsKept' /\ ReceiptsKept'
  <2>1. Succeeds(Owner', Owner) /\ (sessions' # <<>> => sessions # <<>>)
    BY <1>2 DEF Owner, Succeeds
  <2> QED BY <1>2, <1>17, <1>20, <2>1, TasksSame
<1>23. RunsValid' /\ RunsKept'
  BY <1>2, <1>17, <1>20, RunsSame
<1>24. RequestsValid'
  BY <1>2, <1>17, <1>20, RequestsSame
<1>25. DOMAIN versions[t] = 1..n /\ DOMAIN runs[t][a] = 1..m
  BY <1>1, <1>4, <1>5, <1>7, TaskTables, RunTables
<1>26. EventsValid'
  <2>1. ASSUME NEW j \in 1..Len(events'), j > Len(events)
        PROVE  /\ \A i \in 1..Len(events') : OrderedPair(i, j, events')
               /\ j > 1 => events'[j - 1].cursor < events'[j].cursor
               /\ EventOK(j)'
    <3>1. j = ev + 1
      BY <1>9, <1>13, <2>1
    <3>2. \A e \in DOMAIN events : events[e].task = t /\ events[e].attempt = a =>
            events[e].revision <= n /\ events[e].run <= m
      BY SMTT(30), <1>3, <1>4, <1>5, <1>6, <1>11, LeansNow
    <3>3. \A i \in 1..Len(events') : OrderedPair(i, j, events')
      BY <1>11, <1>13, <3>1, <3>2 DEF OrderedPair
    <3>4. j > 1 => events'[j - 1].cursor < events'[j].cursor
      <4>1. ASSUME j > 1 PROVE events[ev].cursor \in 1..l
        <5>1. ev \in DOMAIN events
          BY <1>13, <3>1, <4>1
        <5> QED BY <1>1, <1>16, <5>1 DEF EventsValid
      <4> QED BY <1>11, <1>13, <3>1, <4>1
    <3>5. Leans(row)
      BY <1>3, <1>4, <1>5, <1>6, <1>11, LeansNow
    <3>6. Leans(row)'
      <4>2. row.task \in Names /\ row.attempt \in AttemptNumbers /\ row.revision \in DOMAIN versions[row.task]
            /\ row.run \in DOMAIN runs[row.task][row.attempt]
        BY <1>7, <1>11, <1>25
      <4> QED BY <1>1, <1>17, <1>20, <3>5, <4>2, LeansStays
    <3>7. events'[j] = row
      BY <1>13, <3>1
    <3>8. Settlements(j)' = {}
      <4>1. \A i \in DOMAIN receipts : receipts[i].event <= ev /\ receipts[i].event \in Nat
        BY Zenon, <1>1, <1>9, Columns DEF ReceiptsKept, Columned
      <4> QED BY <1>2, <3>1, <4>1 DEF Settlements
    <3>9. events'[j].ack = MaxOf({events'[j].cursor} \cup {receipts'[i].cursor : i \in Settlements(j)'})
      <4>1. {events'[j].cursor} \cup {receipts'[i].cursor : i \in Settlements(j)'} = {l + 1}
        BY <1>11, <3>7, <3>8
      <4>2. MaxOf({l + 1}) = l + 1
        <5>1. PICK z \in Nat : z = l + 1
          OBVIOUS
        <5>2. PICK S : S = {z}
          OBVIOUS
        <5>3. S \subseteq Int /\ z \in S /\ \A y \in S : y <= z
          BY <5>2
        <5>4. MaxOf(S) = z
          BY <5>3, MaxIs
        <5> QED BY <5>1, <5>2, <5>4
      <4> QED BY <1>11, <3>7, <4>1, <4>2
    <3>10. EventOK(j)'
      <4>1. events'[j].cursor \in DOMAIN outbox' /\ outbox'[events'[j].cursor].type = "task.progress"
        BY <1>11, <1>14, <1>16, <3>7
      <4> QED BY <3>6, <3>7, <3>8, <3>9, <4>1 DEF EventOK
    <3> QED BY <3>3, <3>4, <3>10
  <2>2. \A i \in 1..Len(receipts') : ~(i > Len(receipts))
    BY <1>1, <1>2, Tables
  <2> QED BY <1>17, <1>20, <2>1, <2>2, EventsGrow
<1>27. MessagesKept'
  <2>1. \A e \in 1..Len(requests') : ~(e > Len(requests))
    BY <1>1, <1>2, Tables
  <2>2. ASSUME NEW e \in 1..Len(events'), e > Len(events)
        PROVE  /\ events'[e].revision \in DOMAIN versions'[events'[e].task]
               /\ events'[e].run \in DOMAIN runs'[events'[e].task][events'[e].attempt]
    <3>1. events'[e] = row
      BY <1>9, <1>13, <2>2
    <3> QED BY SMTT(30), <1>2, <1>7, <1>11, <1>25, <3>1
  <2> QED BY <1>17, <1>20, <2>1, <2>2, MessagesGrow
<1>28. OutboxKept' /\ HeadAt(t, l + 1)' = n
  <2>1. NewEvents
    BY <1>1, <1>8, <1>14, <1>16 DEF NewEvents, SessionEvents, VersionTypes, EventTypes
  <2>2. \A c \in Consumers : consumers'[c] <= Len(outbox')
    <3>1. \A c \in Consumers : consumers[c] <= l /\ consumers[c] \in Nat
      BY <1>1, <1>8 DEF OutboxKept, TypeOK
    <3> QED BY <1>2, <1>16, <3>1
  <2>3. l + 1 \in 0..Len(outbox') /\ l + 1 >= Len(outbox)
    BY <1>8, <1>16
  <2> QED BY <1>2, <1>4, <1>17, <1>20, <2>1, <2>2, <2>3, OutboxSame
<1>29. OutboxValid'
  <2>1. PublishKept'
    BY <1>2, <1>8, <1>14, <1>16, <1>17, PublishGrows
  <2>2. ASSUME NEW c \in 1..Len(outbox'), c > Len(outbox) PROVE EventValid(c)'
    <3>1. c = l + 1 /\ outbox'[c] = event
      BY <1>8, <1>16, <2>2
    <3>2. Authority(outbox[c].recovery, c)' # {} /\ AuthorityAt(c)' = Owner
      <4>1. Owner' = Owner /\ sessions' # <<>>
        BY <1>2, <1>7 DEF Owner
      <4>2. Owner.recovery = recovery /\ Owner.cursor \in 0..l
        BY <1>7, <1>8, OwnerNow
      <4>3. Owner'.recovery <= outbox'[c].recovery /\ Owner'.cursor < c
        BY <1>14, <1>19, <3>1, <4>1, <4>2
      <4> QED BY <1>17, <4>1, <4>3, InForceAfter DEF LastInForce
    <3>3. ProgressValid(c)'
      BY <1>11, <1>13, <1>14, <3>1 DEF ProgressValid
    <3>4. TaskEvent(c)'
      BY <1>14, <3>1, <3>3 DEF TaskEvent, VersionTypes
    <3>5. TaskEventOK(c)'
      <4>1. outbox'[c].revision \in DOMAIN versions'[outbox'[c].of]
            /\ versions'[outbox'[c].of][outbox'[c].revision].epoch = outbox'[c].epoch
        BY <1>2, <1>7, <1>14, <1>25, <3>1
      <4>2. AuthorityAt(c)'.epoch = outbox'[c].epoch /\ AuthorityAt(c)'.recovery = outbox'[c].recovery
        BY <1>7, <1>14, <3>1, <3>2, OwnerNow
      <4>3. HeadAt(outbox[c].of, c)' = outbox'[c].revision
        <5>1. HeadAt(t, c)' = n
          BY <1>28, <3>1
        <5>2. outbox'[c].of = t /\ outbox'[c].revision = n
          BY <1>14, <3>1
        <5> QED BY <5>1, <5>2
      <4>4. outbox'[c].type = "task.progress"
        BY <1>14, <3>1
      <4> QED BY <3>2, <3>4, <4>1, <4>2, <4>3, <4>4 DEF TaskEventOK
    <3>6. TaskEventValid(c)'
      <4>1. outbox'[c].type \in EventTypes
        BY <1>14, <3>1 DEF EventTypes
      <4> QED BY <3>5, <4>1, TaskEventIffAfter
    <3> QED BY <1>14, <3>1, <3>6 DEF EventValid, SessionEvents
  <2> QED BY <1>2, <1>17, <1>20, <2>1, <2>2, OutboxQuiet
<1>30. Opened'
  BY <1>2, <1>7 DEF Opened
<1> QED BY <1>17, <1>21, <1>22, <1>23, <1>24, <1>26, <1>27, <1>28, <1>29, <1>30, Preserved

RunAppends(t, a, run) == runs' = [runs EXCEPT ![t][a] = Append(@, run)]

\* A snapshot more.
LEMMA RunAppended ==
  ASSUME TypeOK, NEW t \in Names, NEW a \in AttemptNumbers, NEW m, m = Len(runs[t][a]), NEW run \in RunRows,
         RunAppends(t, a, run)
  PROVE  /\ runs' \in [Names -> [AttemptNumbers -> Seq(RunRows)]] /\ m \in Nat
         /\ Len(runs'[t][a]) = m + 1 /\ runs'[t][a][m + 1] = run
         /\ \A i \in 1..m : runs'[t][a][i] = runs[t][a][i]
         /\ \A u \in Names, k \in AttemptNumbers : u # t \/ k # a => runs'[u][k] = runs[u][k]
         /\ DOMAIN runs'[t][a] = 1..(m + 1) /\ DOMAIN runs[t][a] = 1..m
         /\ \A u \in Names, k \in AttemptNumbers : Extends(runs[u][k], runs'[u][k])
         /\ \A u \in Names, k \in AttemptNumbers : runs[u][k] = <<>> /\ runs'[u][k] # <<>> => u = t /\ k = a /\ m = 0
<1>1. runs \in [Names -> [AttemptNumbers -> Seq(RunRows)]]
  BY DEF TypeOK
<1>2. PICK old \in Seq(RunRows) : old = runs[t][a]
  BY <1>1
<1>3. PICK new : new = Append(old, run)
  OBVIOUS
<1>4. /\ new \in Seq(RunRows) /\ m \in Nat /\ Len(new) = m + 1 /\ new[m + 1] = run
      /\ (\A i \in 1..m : new[i] = old[i]) /\ DOMAIN new = 1..(m + 1) /\ DOMAIN old = 1..m
  BY <1>2, <1>3, Appended
<1>5. PICK row \in [AttemptNumbers -> Seq(RunRows)] : row = runs[t]
  BY <1>1
<1>6. PICK after : after = [row EXCEPT ![a] = new]
  OBVIOUS
<1>7. after \in [AttemptNumbers -> Seq(RunRows)] /\ after[a] = new /\ \A k \in AttemptNumbers : k # a => after[k] = row[k]
  BY <1>4, <1>6
<1>8. runs' = [runs EXCEPT ![t] = after]
  BY <1>1, <1>2, <1>3, <1>5, <1>6 DEF RunAppends
<1>9. /\ runs' \in [Names -> [AttemptNumbers -> Seq(RunRows)]] /\ runs'[t] = after
      /\ \A u \in Names : u # t => runs'[u] = runs[u]
  BY <1>1, <1>7, <1>8
<1>10. runs'[t][a] = new /\ \A u \in Names, k \in AttemptNumbers : u # t \/ k # a => runs'[u][k] = runs[u][k]
  BY <1>5, <1>7, <1>9
<1>11. ASSUME NEW u \in Names, NEW k \in AttemptNumbers PROVE Extends(runs[u][k], runs'[u][k])
  <2>1. CASE u # t \/ k # a
    <3>1. runs[u][k] \in Seq(RunRows)
      BY <1>1
    <3> QED BY <1>10, <2>1, <3>1, SameTable
  <2>2. CASE u = t /\ k = a
    BY <1>2, <1>4, <1>10, <2>2 DEF Extends
  <2> QED BY <2>1, <2>2
<1>12. runs[t][a] = <<>> => m = 0
  OBVIOUS
<1> QED BY <1>2, <1>4, <1>9, <1>10, <1>11, <1>12

RunAdded(t, a, m, run) ==
  /\ versions' = versions /\ inputs' = inputs /\ a \in AttemptNumbers /\ a = Attempt(t)
  /\ m \in Nat /\ m = Len(runs[t][a]) /\ Exists(t) /\ run \in RunRows
  /\ Len(runs'[t][a]) = m + 1 /\ runs'[t][a][m + 1] = run
  /\ \A i \in 1..m : runs'[t][a][i] = runs[t][a][i]
  /\ \A u \in Names, k \in AttemptNumbers : u # t \/ k # a => runs'[u][k] = runs[u][k]
  /\ run.at \in DOMAIN versions[t] /\ run.input \in DOMAIN inputs /\ run.closed = (run.state = "STOPPED")
  /\ run.state \in {"ALLOCATED", "READY"} => ~run.dispatched
  /\ run.state \in {"BUSY", "DRAINING"} => run.dispatched
  /\ Current(t).epoch = run.epoch

\* The executions are valid after a valid snapshot more.
LEMMA RunsKeep ==
  ASSUME RowsInv, TypeOK', Grows, NEW t \in Names, NEW a, NEW m, NEW run, RunAdded(t, a, m, run),
         SnapshotValid(t, a, m + 1)'
  PROVE  RunsValid' /\ RunsKept'
<1> USE DEF RunAdded
<1>1. TypeOK /\ RunsKept
  BY DEF RowsInv
<1>2. RunsValid'
  <2>1. ASSUME NEW u \in Names, NEW k \in AttemptNumbers, NEW i \in 1..Len(runs'[u][k]), i > Len(runs[u][k])
        PROVE  SnapshotValid(u, k, i)'
    <3>1. u = t /\ k = a
      <4>1. runs'[u][k] = runs[u][k] => FALSE
        <5>1. Len(runs[u][k]) \in Nat
          BY <1>1, RunTables
        <5> QED BY <2>1, <5>1
      <4> QED BY <4>1
    <3>2. i = m + 1
      BY <2>1, <3>1
    <3> QED BY <3>1, <3>2
  <2> QED BY <2>1, RunsGrow
<1>3. ASSUME NEW u \in Names, NEW k \in AttemptNumbers
      PROVE  /\ runs'[u][k] # <<>> => k <= Attempt(u)'
             /\ \A i \in DOMAIN runs'[u][k] :
                  LET r == runs'[u][k][i] IN
                  /\ r.at \in DOMAIN versions'[u] /\ r.input \in DOMAIN inputs'
                  /\ r.closed = (r.state = "STOPPED")
                  /\ r.state \in {"ALLOCATED", "READY"} => ~r.dispatched
                  /\ r.state \in {"BUSY", "DRAINING"} => r.dispatched
             /\ IsOpen(u, k)' /\ k = Attempt(u)' => Current(u)'.epoch = Run(u, k)'.epoch
  <2>1. Attempt(u)' = Attempt(u) /\ Current(u)' = Current(u) /\ Attempt(u) \in Nat
    BY <1>1, TaskTables DEF Attempt, Current, Exists
  <2>2. /\ runs[u][k] # <<>> => k <= Attempt(u)
        /\ \A i \in DOMAIN runs[u][k] :
             LET r == runs[u][k][i] IN
             /\ r.at \in DOMAIN versions[u] /\ r.input \in DOMAIN inputs
             /\ r.closed = (r.state = "STOPPED")
             /\ r.state \in {"ALLOCATED", "READY"} => ~r.dispatched
             /\ r.state \in {"BUSY", "DRAINING"} => r.dispatched
        /\ IsOpen(u, k) /\ k = Attempt(u) => Current(u).epoch = Run(u, k).epoch
    BY <1>1 DEF RunsKept
  <2>3. CASE u # t \/ k # a
    <3>1. runs'[u][k] = runs[u][k]
      BY <2>3
    <3>2. IsOpen(u, k)' = IsOpen(u, k) /\ Run(u, k)' = Run(u, k)
      BY <3>1 DEF IsOpen, HasRun, Run
    <3> QED BY <2>1, <2>2, <3>1, <3>2
  <2>4. CASE u = t /\ k = a
    <3>1. DOMAIN runs'[t][a] = 1..(m + 1) /\ DOMAIN runs[t][a] = 1..m
      <4>1. DOMAIN runs'[t][a] = 1..Len(runs'[t][a])
        BY RunColumnsAfter DEF RunsColumned
      <4>2. DOMAIN runs[t][a] = 1..Len(runs[t][a])
        BY <1>1, RunTables
      <4> QED BY <4>1, <4>2
    <3>2. ASSUME NEW i \in DOMAIN runs'[u][k]
          PROVE  LET r == runs'[u][k][i] IN
                  /\ r.at \in DOMAIN versions'[u] /\ r.input \in DOMAIN inputs'
                  /\ r.closed = (r.state = "STOPPED")
                  /\ r.state \in {"ALLOCATED", "READY"} => ~r.dispatched
                  /\ r.state \in {"BUSY", "DRAINING"} => r.dispatched
      <4>1. CASE i = m + 1
        BY <2>4, <4>1
      <4>2. CASE i # m + 1
        <5>1. i \in DOMAIN runs[t][a] /\ runs'[u][k][i] = runs[t][a][i]
          <6>1. i \in 1..m
            <7>1. i \in 1..(m + 1) /\ m \in Nat
              BY <2>4, <3>1
            <7> QED BY <4>2, <7>1
          <6>2. \A j \in 1..m : runs'[t][a][j] = runs[t][a][j]
            OBVIOUS
          <6> QED BY <2>4, <3>1, <6>1, <6>2
        <5> QED BY <2>2, <2>4, <5>1
      <4> QED BY <4>1, <4>2
    <3>3. Run(u, k)' = run
      BY <2>4 DEF Run, Last
    <3> QED BY <2>1, <2>4, <3>2, <3>3
  <2> QED BY <2>3, <2>4
<1>4. RunsKept'
  BY <1>3 DEF RunsKept
<1> QED BY <1>2, <1>4

\* What a snapshot keeps of the one before it, and what becomes of the rest.
Follows(before, next, task) ==
  /\ next.epoch = before.epoch /\ next.recovery = before.recovery /\ next.input = before.input
  /\ before.dispatched => next.dispatched
  /\ \/ before.state = next.state \/ next.state = "STOPPED"
     \/ <<before.state, next.state>> \in {<<"ALLOCATED", "READY">>, <<"READY", "BUSY">>, <<"BUSY", "DRAINING">>}
  /\ before.state = "READY" /\ next.state = "BUSY" => task.state = "RUNNING"
  /\ next.state \in {"ALLOCATED", "READY"} => ~next.dispatched
  /\ next.state \in {"BUSY", "DRAINING"} => next.dispatched
\* The next snapshot of an open execution.
Advances(t, a, m, n, before, run, j) ==
  /\ versions' = versions /\ inputs' = inputs /\ a \in AttemptNumbers /\ a = Attempt(t)
  /\ m \in Nat \ {0} /\ m = Len(runs[t][a]) /\ n = Len(versions[t]) /\ Exists(t) /\ IsOpen(t, a)
  /\ before = runs[t][a][m] /\ run \in RunRows /\ j = m + 1 /\ runs'[t][a][j] = run
  /\ \A i \in 1..m : runs'[t][a][i] = runs[t][a][i]
  /\ Follows(before, run, Current(t)) /\ run.at = n /\ run.written = run.recovery

\* A snapshot that follows the present one is valid.
LEMMA NextSnapshot ==
  ASSUME RowsInv, TypeOK', Grows, NEW t \in Names, NEW a, NEW m, NEW n, NEW before, NEW run, NEW j,
         Advances(t, a, m, n, before, run, j)
  PROVE  SnapshotValid(t, a, j)' /\ Current(t).epoch = run.epoch
<1> USE DEF Follows, Advances
<1>1. TypeOK /\ RunsKept /\ RunsValid /\ AttemptsValid /\ VersionsKept
  BY DEF RowsInv, RowsValid
<1>2. n \in Nat \ {0} /\ Current(t) = versions[t][n] /\ versions[t][n].attempt = a /\ DOMAIN versions[t] = 1..n
  BY <1>1, TaskTables
<1>3. before = Run(t, a) /\ ~before.closed /\ DOMAIN runs[t][a] = 1..m
  BY <1>1, RunTables DEF IsOpen
<1>4. Current(t).epoch = before.epoch
  BY <1>1, <1>3 DEF RunsKept
<1>5. SnapshotValid(t, a, m)
  <2>1. m \in DOMAIN runs[t][a]
    BY <1>3
  <2> QED BY <1>1, <2>1 DEF RunsValid
<1>6. PICK old : old = versions[t][before.at]
  OBVIOUS
<1>7. PICK input : input = inputs[before.input]
  OBVIOUS
<1>8. PICK first : first = runs[t][a][1]
  OBVIOUS
<1>9. /\ before.epoch = first.epoch /\ before.recovery = first.recovery
      /\ input.kind = "runtime" /\ input.task = t /\ input.attempt = a /\ input.epoch = before.epoch
      /\ input.revision <= first.at /\ input.intent = old.intent /\ old.attempt = a
  BY Zenon, <1>5, <1>6, <1>7, <1>8 DEF SnapshotValid
<1>10. before.at \in 1..n
  <2>1. m \in DOMAIN runs[t][a]
    BY <1>3
  <2> QED BY <1>1, <1>2, <2>1 DEF RunsKept
<1>11. versions[t][n].intent = old.intent
  <2>1. IntentsKept
    BY <1>1, IntentsHold
  <2>2. before.at \in DOMAIN versions[t] /\ n \in DOMAIN versions[t]
    BY <1>2, <1>10
  <2>3. attempts[t][versions[t][before.at].attempt].intent = versions[t][before.at].intent
        /\ attempts[t][versions[t][n].attempt].intent = versions[t][n].intent
    BY Zenon, <2>1, <2>2 DEF IntentsKept
  <2> QED BY <1>2, <1>6, <1>9, <2>3
<1>12. PICK task : task = versions[t][n]
  OBVIOUS
<1>13. SnapshotStep(before, run, task)
  <2>1. before.at <= run.at
    BY <1>2, <1>10
  <2> QED BY <1>2, <1>3, <1>12, <2>1 DEF SnapshotStep
<1>14. runs'[t][a][1] = first /\ runs'[t][a][m] = before
  BY SMTT(30), <1>8
<1>15. SnapshotValid(t, a, j)'
  <2>1. j # 1 /\ j - 1 = m
    OBVIOUS
  <2>2. versions'[t][run.at] = task /\ inputs'[run.input] = input
    BY <1>7, <1>12
  <2>3. run.epoch = first.epoch /\ run.recovery = first.recovery /\ run.written = run.recovery
    BY <1>9
  <2>4. input.kind = "runtime" /\ input.task = t /\ input.attempt = a /\ input.epoch = run.epoch
        /\ input.revision <= first.at /\ input.intent = task.intent
    BY <1>9, <1>11, <1>12
  <2>5. task.attempt = a /\ task.epoch = run.epoch
    BY <1>2, <1>4, <1>12
  <2> QED BY <1>13, <1>14, <2>1, <2>2, <2>3, <2>4, <2>5 DEF SnapshotValid
<1> QED BY <1>4, <1>15

\* A snapshot alone appends to one table.
LEMMA SilentGrows ==
  ASSUME RowsInv, NEW t \in Names, NEW a \in AttemptNumbers, a = Attempt(t), Exists(t), NEW run \in RunRows,
         RunAppends(t, a, run), runs[t][a] = <<>> => Current(t).state = "READY",
         UNCHANGED <<recovery, sessions, taskRows, outbox, events, requests, consumers>>
  PROVE  TypeOK' /\ Grows
<1>1. TypeOK
  BY DEF RowsInv
<1>2. UNCHANGED taskRows /\ UNCHANGED <<recovery, sessions, consumers, outbox>>
      /\ UNCHANGED <<versions, attempts, receipts, inputs, events, requests>>
  BY DEF taskRows
<1>3. PICK m : m = Len(runs[t][a])
  OBVIOUS
<1>4. /\ runs' \in [Names -> [AttemptNumbers -> Seq(RunRows)]] /\ m \in Nat
      /\ \A u \in Names, k \in AttemptNumbers : Extends(runs[u][k], runs'[u][k])
      /\ \A u \in Names, k \in AttemptNumbers : runs[u][k] = <<>> /\ runs'[u][k] # <<>> => u = t /\ k = a
  BY <1>1, <1>3, RunAppended
<1>5. TypeOK'
  BY <1>1, <1>2, <1>4 DEF TypeOK, Bounds
<1>6. sessions \in Seq(SessionRows) /\ requests \in Seq(RequestRows) /\ events \in Seq(EventRows)
      /\ recovery \in Nat /\ Len(sessions) \in Nat /\ Len(outbox) \in Nat
  BY <1>1, Tables DEF TypeOK
<1>7. Grows
  <2>1. Extends(sessions, sessions') /\ Extends(events, events') /\ Extends(requests, requests')
    BY <1>2, <1>6, SameTable
  <2>2. \A i \in 1..Len(sessions') : ~(i > Len(sessions))
    BY <1>2, <1>6
  <2>3. recovery <= recovery' /\ Len(outbox) <= Len(outbox')
    BY <1>2, <1>6
  <2>4. Quiet
    BY <1>2, <1>6 DEF Quiet
  <2>5. \A c \in 1..Len(outbox) : SameEvent(outbox[c], outbox'[c])
    BY <1>2, SameRow
  <2>6. \A u \in Names, k \in AttemptNumbers : runs[u][k] = <<>> /\ runs'[u][k] # <<>> =>
          Exists(u) /\ k = Attempt(u) /\ Current(u).state = "READY"
    BY <1>4
  <2> QED BY <1>1, <1>2, <1>4, <1>5, <2>1, <2>2, <2>3, <2>4, <2>5, <2>6, GrowsBy
<1> QED BY <1>5, <1>7

\* A valid snapshot alone keeps the rows valid.
LEMMA SilentKeeps ==
  ASSUME RowsInv, NEW t \in Names, NEW a \in AttemptNumbers, a = Attempt(t), Exists(t), NEW run \in RunRows,
         RunAppends(t, a, run), runs[t][a] = <<>> => Current(t).state = "READY",
         UNCHANGED <<recovery, sessions, taskRows, outbox, events, requests, consumers>>,
         run.at \in DOMAIN versions[t], run.input \in DOMAIN inputs, ~run.closed, run.state # "STOPPED",
         run.state \in {"ALLOCATED", "READY"} => ~run.dispatched,
         run.state \in {"BUSY", "DRAINING"} => run.dispatched,
         Current(t).epoch = run.epoch, NEW m, m = Len(runs[t][a]), SnapshotValid(t, a, m + 1)'
  PROVE  RowsInv'
<1>1. TypeOK /\ Opened
  BY DEF RowsInv
<1>2. UNCHANGED taskRows /\ UNCHANGED <<recovery, sessions, consumers, outbox>>
      /\ UNCHANGED <<versions, attempts, receipts, inputs, events, requests>>
  BY DEF taskRows
<1>4. /\ m \in Nat /\ Len(runs'[t][a]) = m + 1 /\ runs'[t][a][m + 1] = run
      /\ (\A i \in 1..m : runs'[t][a][i] = runs[t][a][i])
      /\ (\A u \in Names, k \in AttemptNumbers : u # t \/ k # a => runs'[u][k] = runs[u][k])
  BY <1>1, RunAppended
<1>5. TypeOK' /\ Grows
  BY SilentGrows
<1>6. SessionsValid'
  BY <1>2, <1>5, SessionsSame
<1>7. AttemptsValid' /\ CommandsValid' /\ InputsValid' /\ ReceiptsValid' /\ VersionsKept' /\ ReceiptsKept'
  <2>1. Succeeds(Owner', Owner) /\ (sessions' # <<>> => sessions # <<>>)
    BY <1>2 DEF Owner, Succeeds
  <2> QED BY <1>2, <1>5, <2>1, TasksSame
<1>8. RunsValid' /\ RunsKept'
  <2>2. run.closed = (run.state = "STOPPED")
    <3>1. run.closed \in BOOLEAN
      BY DEF RunRows
    <3> QED BY <3>1
  <2>3. RunAdded(t, a, m, run)
    BY <1>2, <1>4, <2>2 DEF RunAdded
  <2> QED BY <1>5, <2>3, RunsKeep
<1>9. EventsValid' /\ RequestsValid' /\ MessagesKept'
  <2>1. \A j \in 1..Len(receipts') : ~(j > Len(receipts))
    BY <1>1, <1>2, Tables
  <2> QED BY <1>2, <1>5, <2>1, MessagesSame
<1>10. \A c \in 1..Len(outbox') : ~(c > Len(outbox))
  BY <1>1, <1>2, Tables
<1>11. OutboxValid'
  <2>1. PublishKept'
    <3>1. Len(outbox) <= Len(outbox')
      BY <1>1, <1>2, Tables
    <3> QED BY <1>2, <1>5, <1>10, <3>1, PublishGrows
  <2>2. \A u \in Names : \A i \in 1..Len(versions'[u]) : ~(i > Len(versions[u]))
    <3>1. \A u \in Names : Len(versions[u]) \in Nat
      BY <1>1, VersionColumns DEF VersionsColumned
    <3> QED BY <1>2, <3>1
  <2>3. \A i \in 1..Len(inputs') : ~(i > Len(inputs))
    BY <1>1, <1>2, Tables
  <2>4. \A u \in Names, k \in AttemptNumbers : \A i \in 1..Len(runs'[u][k]) :
          ~(i > Len(runs[u][k]) /\ runs'[u][k][i].closed)
    <3>1. ASSUME NEW u \in Names, NEW k \in AttemptNumbers, NEW i \in 1..Len(runs'[u][k]), i > Len(runs[u][k])
          PROVE  ~runs'[u][k][i].closed
      <4>1. CASE u # t \/ k # a
        <5>1. Len(runs[u][k]) \in Nat /\ runs'[u][k] = runs[u][k]
          BY <1>1, <1>4, <4>1, RunTables
        <5> QED BY <3>1, <5>1
      <4>2. CASE u = t /\ k = a
        <5>1. i = m + 1
          BY <1>4, <3>1, <4>2
        <5> QED BY <1>4, <4>2, <5>1
      <4> QED BY <4>1, <4>2
    <3> QED BY <3>1
  <2> QED BY <1>5, <1>10, <2>1, <2>2, <2>3, <2>4, OutboxGrow
<1>12. OutboxKept'
  <2>1. NewEvents
    BY <1>10 DEF NewEvents
  <2>2. \A c \in Consumers : consumers'[c] <= Len(outbox')
    BY <1>2 DEF RowsInv, OutboxKept
  <2> QED BY <1>2, <1>5, <2>1, <2>2, OutboxSame
<1>13. Opened'
  BY <1>1, <1>2 DEF Opened
<1> QED BY <1>5, <1>6, <1>7, <1>8, <1>9, <1>11, <1>12, <1>13, Preserved

\* So does one that follows the present one and closes nothing.
LEMMA SilentlyKeeps ==
  ASSUME RowsInv, NEW t \in Names, NEW a, a = Attempt(t), Exists(t), IsOpen(t, a),
         NEW before, before = Run(t, a), before.recovery = recovery,
         NEW next \in RunRows, Follows(before, next, Current(t)), ~next.closed, next.state # "STOPPED",
         Silently(t, next)
  PROVE  RowsInv'
<1>1. TypeOK /\ RunsKept
  BY DEF RowsInv
<1>2. a \in AttemptNumbers /\ HasRun(t, a) /\ ~before.closed
  BY DEF IsOpen, HasRun
<1>3. PICK n \in Nat \ {0} : n = Len(versions[t]) /\ DOMAIN versions[t] = 1..n
  BY <1>1, TaskTables
<1>4. PICK m \in Nat \ {0} : m = Len(runs[t][a]) /\ before = runs[t][a][m] /\ DOMAIN runs[t][a] = 1..m
  BY <1>1, <1>2, RunTables
<1>5. PICK run : run = [next EXCEPT !.at = n, !.written = recovery]
  OBVIOUS
<1>6. /\ run \in RunRows /\ run.at = n /\ run.written = recovery /\ run.state = next.state
      /\ run.dispatched = next.dispatched /\ run.closed = next.closed /\ run.input = next.input
      /\ run.epoch = next.epoch /\ run.recovery = next.recovery
  <2>1. recovery \in Nat
    BY <1>1 DEF TypeOK
  <2> QED BY <1>3, <1>5, <2>1 DEF RunRows
<1>7. RunAppends(t, a, run)
      /\ UNCHANGED <<recovery, sessions, taskRows, outbox, events, requests, consumers>>
  BY <1>3, <1>5 DEF Silently, AdvanceSnapshot, RunAppends
<1>8. runs[t][a] # <<>>
  BY <1>1, <1>2, RunTables
<1>9. TypeOK' /\ Grows
  BY <1>2, <1>6, <1>7, <1>8, SilentGrows
<1>10. runs'[t][a][m + 1] = run /\ \A i \in 1..m : runs'[t][a][i] = runs[t][a][i]
  BY SMTT(30), <1>1, <1>2, <1>4, <1>6, <1>7, RunAppended
<1>101. PICK j : j = m + 1
  OBVIOUS
<1>102. runs'[t][a][j] = run
  BY <1>10, <1>101
<1>11. versions' = versions /\ inputs' = inputs
  BY <1>7 DEF taskRows
<1>12. SnapshotValid(t, a, m + 1)' /\ Current(t).epoch = run.epoch
  <2>1. Follows(before, run, Current(t))
    BY <1>6 DEF Follows
  <2>2. run.at = n /\ run.written = run.recovery
    BY <1>6 DEF Follows
  <2>3. SnapshotValid(t, a, j)' /\ Current(t).epoch = run.epoch
    <3>1. Advances(t, a, m, n, before, run, j)
      BY <1>2, <1>3, <1>4, <1>6, <1>10, <1>101, <1>102, <1>11, <2>1, <2>2 DEF Advances
    <3> QED BY <1>9, <3>1, NextSnapshot
  <2> QED BY <1>101, <2>3
<1>13. run.at \in DOMAIN versions[t] /\ run.input \in DOMAIN inputs
  <2>1. before.input \in DOMAIN inputs
    <3>1. m \in DOMAIN runs[t][a]
      BY <1>4
    <3> QED BY <1>1, <1>2, <1>4, <3>1 DEF RunsKept
  <2> QED BY <1>3, <1>6, <2>1 DEF Follows
<1>14. /\ run.state \in {"ALLOCATED", "READY"} => ~run.dispatched
       /\ run.state \in {"BUSY", "DRAINING"} => run.dispatched
  BY <1>6 DEF Follows
<1> QED BY <1>2, <1>4, <1>6, <1>7, <1>8, <1>12, <1>13, <1>14, SilentKeeps

\* So does a close, with its event.
LEMMA CloseKeeps ==
  ASSUME RowsInv, NEW t \in Names, NEW a, a = Attempt(t), sessions # <<>>, Exists(t), IsOpen(t, a),
         Run(t, a).recovery = recovery, CloseSnapshot(t)
  PROVE  RowsInv'
<1>1. TypeOK /\ RunsKept /\ OutboxKept /\ VersionsKept /\ Session \notin Names
  BY DEF RowsInv, TypeOK, Bounds
<1>2. a \in AttemptNumbers /\ HasRun(t, a)
  BY DEF IsOpen, HasRun
<1>3. PICK n \in Nat \ {0} : /\ n = Len(versions[t]) /\ DOMAIN versions[t] = 1..n
                             /\ Current(t) = versions[t][n] /\ versions[t][n].attempt = a
  BY <1>1, TaskTables
<1>4. PICK m \in Nat \ {0} : m = Len(runs[t][a]) /\ Run(t, a) = runs[t][a][m] /\ DOMAIN runs[t][a] = 1..m
                             /\ runs[t][a][m] \in RunRows
  BY <1>1, <1>2, RunTables
<1>5. PICK before \in RunRows : before = Run(t, a)
  BY <1>4
<1>6. PICK next : next = [before EXCEPT !.state = "STOPPED", !.closed = TRUE]
  OBVIOUS
<1>7. PICK run : run = [next EXCEPT !.at = n, !.written = recovery]
  OBVIOUS
<1>8. /\ run \in RunRows /\ run.at = n /\ run.written = recovery /\ run.state = "STOPPED"
      /\ run.dispatched = before.dispatched /\ run.closed = TRUE /\ run.input = before.input
      /\ run.epoch = before.epoch /\ run.recovery = before.recovery
  <2>1. recovery \in Nat
    BY <1>1 DEF TypeOK
  <2>2. /\ next \in RunRows /\ next.state = "STOPPED" /\ next.dispatched = before.dispatched
        /\ next.closed = TRUE /\ next.input = before.input /\ next.epoch = before.epoch
        /\ next.recovery = before.recovery
    BY <1>6 DEF RunRows, RunStates
  <2> QED BY Zenon, <1>3, <1>7, <2>1, <2>2 DEF RunRows
<1>9. PICK l \in Nat : l = Len(outbox)
  BY Zenon, <1>1, Tables
<1>10. /\ RunAppends(t, a, run)
       /\ outbox' = Append(outbox, OutboxRow("task.execution_closed", t, n, <<"none", a, m + 1>>))
       /\ UNCHANGED taskRows /\ UNCHANGED <<recovery, sessions, consumers>>
       /\ UNCHANGED <<versions, attempts, receipts, inputs, events, requests>>
  BY <1>3, <1>4, <1>5, <1>6, <1>7 DEF CloseSnapshot, AdvanceSnapshot, RunAppends, taskRows
<1>11. /\ runs' \in [Names -> [AttemptNumbers -> Seq(RunRows)]]
       /\ Len(runs'[t][a]) = m + 1 /\ runs'[t][a][m + 1] = run
       /\ (\A i \in 1..m : runs'[t][a][i] = runs[t][a][i])
       /\ (\A u \in Names, k \in AttemptNumbers : u # t \/ k # a => runs'[u][k] = runs[u][k])
       /\ DOMAIN runs'[t][a] = 1..(m + 1)
       /\ (\A u \in Names, k \in AttemptNumbers : Extends(runs[u][k], runs'[u][k]))
       /\ \A u \in Names, k \in AttemptNumbers : ~(runs[u][k] = <<>> /\ runs'[u][k] # <<>>)
  BY SMTT(30), <1>1, <1>2, <1>4, <1>8, <1>10, RunAppended
<1>12. PICK event \in OutboxRows :
         /\ event = OutboxRow("task.execution_closed", t, n, <<"none", a, m + 1>>)
         /\ event.type = "task.execution_closed" /\ event.of = t /\ event.revision = n
         /\ event.about = <<"none", a, m + 1>>
         /\ event.epoch = Owner.epoch /\ event.recovery = recovery /\ event.publish = "pending"
  <2>1. <<"none", a, m + 1>> \in Facts
    <3>1. a \in Nat /\ m + 1 \in Nat
      BY <1>1, TaskTables
    <3> QED BY <3>1 DEF Facts, About
  <2>2. t \in Names \cup {Session} /\ n \in Nat /\ "task.execution_closed" \in SessionEvents \cup EventTypes
    BY DEF EventTypes
  <2> QED BY <1>1, <2>1, <2>2, Typed
<1>13. /\ outbox \in Seq(OutboxRows) /\ outbox' \in Seq(OutboxRows) /\ Len(outbox') = l + 1 /\ outbox'[l + 1] = event
       /\ (\A c \in 1..l : outbox'[c] = outbox[c])
       /\ DOMAIN outbox' = 1..(l + 1) /\ DOMAIN outbox = 1..l
  BY <1>1, <1>9, <1>10, <1>12, Appended DEF TypeOK
<1>14. TypeOK'
  BY <1>1, <1>10, <1>11, <1>13 DEF TypeOK, Bounds
<1>15. Quiet
  BY <1>9, <1>12, <1>13 DEF Quiet, VersionTypes
<1>16. sessions \in Seq(SessionRows) /\ requests \in Seq(RequestRows) /\ events \in Seq(EventRows)
       /\ recovery \in Nat /\ Len(sessions) \in Nat
  BY <1>1, Tables DEF TypeOK
<1>17. Grows
  <2>1. Extends(sessions, sessions') /\ Extends(events, events') /\ Extends(requests, requests')
    BY <1>10, <1>16, SameTable
  <2>2. \A i \in 1..Len(sessions') : ~(i > Len(sessions))
    BY <1>10, <1>16
  <2>3. recovery <= recovery' /\ Len(outbox) <= Len(outbox')
    BY <1>9, <1>10, <1>13, <1>16
  <2>5. \A c \in 1..Len(outbox) : SameEvent(outbox[c], outbox'[c])
    BY <1>9, <1>13, SameRow
  <2> QED BY <1>1, <1>10, <1>11, <1>14, <1>15, <2>1, <2>2, <2>3, <2>5, GrowsBy
<1>18. SessionsValid'
  BY <1>10, <1>14, <1>17, SessionsSame
<1>19. AttemptsValid' /\ CommandsValid' /\ InputsValid' /\ ReceiptsValid' /\ VersionsKept' /\ ReceiptsKept'
  <2>1. Succeeds(Owner', Owner) /\ (sessions' # <<>> => sessions # <<>>)
    BY <1>10 DEF Owner, Succeeds
  <2> QED BY <1>10, <1>14, <1>17, <2>1, TasksSame
<1>20. SnapshotValid(t, a, m + 1)' /\ Current(t).epoch = run.epoch
  <2>1. PICK j : j = m + 1
    OBVIOUS
  <2>2. Follows(before, run, Current(t))
    BY <1>8 DEF Follows
  <2>3. run.written = run.recovery
    BY <1>5, <1>8
  <2>4. Advances(t, a, m, n, before, run, j)
    BY <1>2, <1>3, <1>4, <1>5, <1>8, <1>10, <1>11, <2>1, <2>2, <2>3 DEF Advances
  <2> QED BY <1>14, <1>17, <2>1, <2>4, NextSnapshot
<1>21. RunsValid' /\ RunsKept'
  <2>1. run.at \in DOMAIN versions[t] /\ run.input \in DOMAIN inputs
    <3>1. m \in DOMAIN runs[t][a]
      BY <1>4
    <3>2. before.input \in DOMAIN inputs
      BY <1>1, <1>2, <1>4, <1>5, <3>1 DEF RunsKept
    <3> QED BY <1>3, <1>8, <3>2
  <2>2. /\ run.closed = (run.state = "STOPPED")
        /\ run.state \in {"ALLOCATED", "READY"} => ~run.dispatched
        /\ run.state \in {"BUSY", "DRAINING"} => run.dispatched
    BY <1>8
  <2>3. RunAdded(t, a, m, run)
    BY <1>2, <1>4, <1>8, <1>10, <1>11, <1>20, <2>1, <2>2 DEF RunAdded
  <2> QED BY <1>14, <1>17, <1>20, <2>3, RunsKeep
<1>22. EventsValid' /\ RequestsValid' /\ MessagesKept'
  <2>1. \A j \in 1..Len(receipts') : ~(j > Len(receipts))
    BY <1>1, <1>10, Tables
  <2> QED BY <1>10, <1>14, <1>17, <2>1, MessagesSame
<1>23. OutboxKept' /\ HeadAt(t, l + 1)' = n
  <2>1. NewEvents
    BY <1>1, <1>9, <1>12, <1>13 DEF NewEvents, SessionEvents, VersionTypes, EventTypes
  <2>2. \A c \in Consumers : consumers'[c] <= Len(outbox')
    <3>1. \A c \in Consumers : consumers[c] <= l /\ consumers[c] \in Nat
      BY <1>1, <1>9 DEF OutboxKept, TypeOK
    <3> QED BY <1>10, <1>13, <3>1
  <2>3. l + 1 \in 0..Len(outbox') /\ l + 1 >= Len(outbox)
    BY <1>9, <1>13
  <2> QED BY <1>3, <1>10, <1>14, <1>17, <2>1, <2>2, <2>3, OutboxSame
<1>24. OutboxValid'
  <2>1. PublishKept'
    <3>1. Len(outbox) <= Len(outbox') /\ \A c \in 1..Len(outbox) : outbox'[c] = outbox[c]
      BY <1>9, <1>13
    <3>2. \A c \in 1..Len(outbox') : c > Len(outbox) => outbox'[c].recovery = recovery /\ outbox'[c].publish = "pending"
      BY <1>9, <1>12, <1>13
    <3> QED BY <1>10, <1>14, <3>1, <3>2, PublishGrows
  <2>2. ASSUME NEW c \in 1..Len(outbox'), c > Len(outbox) PROVE EventValid(c)'
    <3>1. c = l + 1 /\ outbox'[c] = event
      BY <1>9, <1>13, <2>2
    <3>2. Authority(outbox[c].recovery, c)' # {} /\ AuthorityAt(c)' = Owner
      <4>1. Owner' = Owner /\ sessions' # <<>>
        BY <1>10 DEF Owner
      <4>2. Owner.recovery = recovery /\ Owner.cursor \in 0..l
        BY <1>9, OwnerNow
      <4>3. Owner'.recovery <= outbox'[c].recovery /\ Owner'.cursor < c
        BY SMTT(30), <1>12, <1>16, <3>1, <4>1, <4>2
      <4> QED BY <1>14, <4>1, <4>3, InForceAfter DEF LastInForce
    <3>3. ClosedEventValid(c)'
      <4>1. event.about[2] = a /\ event.about[3] = m + 1
        BY <1>12
      <4>2. m + 1 \in DOMAIN runs'[t][a] /\ versions'[t][n].attempt = a
        BY <1>3, <1>10, <1>11
      <4>3. run.epoch <= event.epoch
        <5>1. Current(t).epoch <= Owner.epoch
          <6>1. n \in DOMAIN versions[t]
            BY <1>3
          <6> QED BY <1>1, <1>3, <6>1 DEF VersionsKept
        <5> QED BY <1>12, <1>20, <5>1
      <4>4. run.recovery = event.recovery /\ run.at = event.revision
        BY <1>5, <1>8, <1>12
      <4>5. PICK k : k = a
        OBVIOUS
      <4>6. PICK i : i = m + 1
        OBVIOUS
      <4>7. /\ outbox'[c].about[2] = k /\ outbox'[c].about[3] = i /\ outbox'[c].of = t
            /\ outbox'[c].revision = n /\ runs'[t][k][i] = run
        BY <1>11, <1>12, <3>1, <4>1, <4>5, <4>6
      <4>8. k \in AttemptNumbers /\ i \in DOMAIN runs'[t][k] /\ versions'[t][n].attempt = k
        BY <1>2, <4>2, <4>5, <4>6
      <4>9. run.state = "STOPPED" /\ run.closed /\ run.epoch <= outbox'[c].epoch
            /\ run.recovery = outbox'[c].recovery /\ run.at = n
        BY <1>8, <1>12, <3>1, <4>3, <4>4
      <4> QED BY <4>7, <4>8, <4>9 DEF ClosedEventValid
    <3>4. TaskEvent(c)'
      BY <1>12, <3>1, <3>3 DEF TaskEvent, VersionTypes
    <3>5. TaskEventOK(c)'
      <4>1. outbox'[c].revision \in DOMAIN versions'[outbox'[c].of]
        BY SMTT(30), <1>3, <1>10, <1>12, <3>1
      <4>2. AuthorityAt(c)'.epoch = outbox'[c].epoch /\ AuthorityAt(c)'.recovery = outbox'[c].recovery
        BY <1>12, <3>1, <3>2, OwnerNow
      <4>3. HeadAt(outbox[c].of, c)' = outbox'[c].revision
        <5>1. HeadAt(t, c)' = n
          BY <1>23, <3>1
        <5>2. outbox'[c].of = t /\ outbox'[c].revision = n
          BY <1>12, <3>1
        <5> QED BY <5>1, <5>2
      <4>4. outbox'[c].type = "task.execution_closed"
        BY <1>12, <3>1
      <4> QED BY <3>2, <3>4, <4>1, <4>2, <4>3, <4>4 DEF TaskEventOK
    <3>6. TaskEventValid(c)'
      <4>1. outbox'[c].type \in EventTypes
        BY <1>12, <3>1 DEF EventTypes
      <4> QED BY <3>5, <4>1, TaskEventIffAfter
    <3> QED BY <1>12, <3>1, <3>6 DEF EventValid, SessionEvents
  <2>3. \A u \in Names : \A i \in 1..Len(versions'[u]) : ~(i > Len(versions[u]))
    <3>1. \A u \in Names : Len(versions[u]) \in Nat
      BY <1>1, VersionColumns DEF VersionsColumned
    <3> QED BY <1>10, <3>1
  <2>4. \A i \in 1..Len(inputs') : ~(i > Len(inputs))
    BY <1>1, <1>10, Tables
  <2>5. ASSUME NEW u \in Names, NEW k \in AttemptNumbers, NEW i \in 1..Len(runs'[u][k]), i > Len(runs[u][k])
        PROVE  CloseAnnounced(u, k, i)'
    <3>1. CASE u # t \/ k # a
      <4>1. Len(runs[u][k]) \in Nat /\ runs'[u][k] = runs[u][k]
        BY <1>1, <1>11, <3>1, RunTables
      <4> QED BY <2>5, <4>1
    <3>2. CASE u = t /\ k = a
      <4>1. i = m + 1
        BY <1>4, <1>11, <2>5, <3>2
      <4>2. l + 1 \in 1..Len(outbox')
        BY <1>13
      <4> QED BY <1>12, <1>13, <3>2, <4>1, <4>2 DEF CloseAnnounced
    <3> QED BY <3>1, <3>2
  <2> QED BY <1>14, <1>17, <2>1, <2>2, <2>3, <2>4, <2>5, OutboxGrow
<1>25. Opened'
  BY <1>10 DEF Opened
<1> QED BY <1>14, <1>18, <1>19, <1>21, <1>22, <1>23, <1>24, <1>25, Preserved

\* An execution of the owner that has not stopped is open.
LEMMA ExecutionOpen ==
  ASSUME RowsInv, NEW t \in Names, Owned(t), NEW a, a = Attempt(t), NEW before, before = Run(t, a),
         before.state # "STOPPED"
  PROVE  /\ before \in RunRows /\ IsOpen(t, a) /\ Exists(t) /\ before.recovery = recovery /\ ~before.closed
         /\ before.state \in {"ALLOCATED", "READY"} => ~before.dispatched
         /\ before.state \in {"BUSY", "DRAINING"} => before.dispatched
<1>1. PICK n : n = Len(versions[t])
  OBVIOUS
<1>2. PICK m : m = Len(runs[t][a])
  OBVIOUS
<1>3. /\ runs[t][a][m] = Run(t, a) /\ runs[t][a][m] \in RunRows /\ HasRun(t, a) /\ Exists(t)
      /\ runs[t][a][m].recovery = recovery
      /\ runs[t][a][m].closed = (runs[t][a][m].state = "STOPPED")
      /\ runs[t][a][m].state \in {"ALLOCATED", "READY"} => ~runs[t][a][m].dispatched
      /\ runs[t][a][m].state \in {"BUSY", "DRAINING"} => runs[t][a][m].dispatched
  BY <1>1, <1>2, OwnedIs
<1>4. ~before.closed
  BY <1>3
<1> QED BY <1>3, <1>4 DEF IsOpen

\* The rows are valid after a ready execution.
LEMMA MarkReadyKeeps ==
  ASSUME RowsInv, NEW t \in Names, MarkExecutionReady(t)
  PROVE  RowsInv'
<1>1. PICK a : a = Attempt(t)
  OBVIOUS
<1>2. PICK before : before = Run(t, a)
  OBVIOUS
<1>3. Owned(t) /\ before.state = "ALLOCATED" /\ Silently(t, [before EXCEPT !.state = "READY"])
  BY <1>1, <1>2 DEF MarkExecutionReady, Fenced
<1>4. /\ before \in RunRows /\ IsOpen(t, a) /\ Exists(t) /\ before.recovery = recovery /\ ~before.closed
      /\ ~before.dispatched
  BY <1>1, <1>2, <1>3, ExecutionOpen
<1>5. PICK next : next = [before EXCEPT !.state = "READY"]
  OBVIOUS
<1>6. /\ next \in RunRows /\ next.state = "READY" /\ ~next.closed /\ ~next.dispatched
      /\ next.epoch = before.epoch /\ next.recovery = before.recovery /\ next.input = before.input
  BY <1>4, <1>5 DEF RunRows, RunStates
<1>7. Follows(before, next, Current(t))
  BY <1>3, <1>4, <1>6 DEF Follows
<1>8. Silently(t, next)
  BY <1>3, <1>5
<1> QED BY <1>1, <1>2, <1>4, <1>6, <1>7, <1>8, SilentlyKeeps

\* The rows are valid after a dispatched execution.
LEMMA MarkDispatchedKeeps ==
  ASSUME RowsInv, NEW t \in Names, MarkExecutionDispatched(t)
  PROVE  RowsInv'
<1>1. PICK a : a = Attempt(t)
  OBVIOUS
<1>2. PICK before : before = Run(t, a)
  OBVIOUS
<1>3. Owned(t) /\ before.state = "READY" /\ Current(t).state = "RUNNING"
      /\ Silently(t, [before EXCEPT !.state = "BUSY", !.dispatched = TRUE])
  BY <1>1, <1>2 DEF MarkExecutionDispatched, Fenced
<1>4. /\ before \in RunRows /\ IsOpen(t, a) /\ Exists(t) /\ before.recovery = recovery /\ ~before.closed
      /\ ~before.dispatched
  BY <1>1, <1>2, <1>3, ExecutionOpen
<1>5. PICK next : next = [before EXCEPT !.state = "BUSY", !.dispatched = TRUE]
  OBVIOUS
<1>6. /\ next \in RunRows /\ next.state = "BUSY" /\ ~next.closed /\ next.dispatched
      /\ next.epoch = before.epoch /\ next.recovery = before.recovery /\ next.input = before.input
  BY <1>4, <1>5 DEF RunRows, RunStates
<1>7. Follows(before, next, Current(t))
  BY <1>3, <1>4, <1>6 DEF Follows
<1>8. Silently(t, next)
  BY <1>3, <1>5
<1> QED BY <1>1, <1>2, <1>4, <1>6, <1>7, <1>8, SilentlyKeeps

\* The rows are valid after an observed binding.
LEMMA ObserveKeeps ==
  ASSUME RowsInv, NEW t \in Names, ObserveExecutionBinding(t)
  PROVE  RowsInv'
<1>1. PICK a : a = Attempt(t)
  OBVIOUS
<1>2. PICK before : before = Run(t, a)
  OBVIOUS
<1>3. Owned(t) /\ before.state \in {"READY", "BUSY", "DRAINING"}
  BY <1>1, <1>2 DEF ObserveExecutionBinding, Fenced
<1>4. PICK state \in {"DRAINING", before.state} :
        (state = "DRAINING" => before.state # "READY") /\ Silently(t, [before EXCEPT !.state = state])
  BY <1>1, <1>2 DEF ObserveExecutionBinding
<1>5. /\ before \in RunRows /\ IsOpen(t, a) /\ Exists(t) /\ before.recovery = recovery /\ ~before.closed
      /\ before.state \in {"ALLOCATED", "READY"} => ~before.dispatched
      /\ before.state \in {"BUSY", "DRAINING"} => before.dispatched
  BY <1>1, <1>2, <1>3, ExecutionOpen
<1>6. PICK next : next = [before EXCEPT !.state = state]
  OBVIOUS
<1>7. /\ next \in RunRows /\ next.state = state /\ ~next.closed /\ next.dispatched = before.dispatched
      /\ next.epoch = before.epoch /\ next.recovery = before.recovery /\ next.input = before.input
  <2>1. state \in RunStates
    BY <1>3 DEF RunStates
  <2> QED BY <1>5, <1>6, <2>1 DEF RunRows
<1>8. Follows(before, next, Current(t))
  BY <1>3, <1>4, <1>5, <1>7 DEF Follows
<1>9. Silently(t, next) /\ next.state # "STOPPED"
  BY <1>3, <1>4, <1>6, <1>7
<1> QED BY <1>1, <1>2, <1>5, <1>7, <1>8, <1>9, SilentlyKeeps

\* The rows are valid after a close.
LEMMA CloseExecutionKeeps ==
  ASSUME RowsInv, NEW t \in Names, CloseExecution(t)
  PROVE  RowsInv'
<1>1. PICK a : a = Attempt(t)
  OBVIOUS
<1>2. PICK before : before = Run(t, a)
  OBVIOUS
<1>3. Owned(t) /\ IsOpen(t, a) /\ (CloseSnapshot(t) \/ Silently(t, before))
  BY <1>1, <1>2 DEF CloseExecution
<1>4. before.state # "STOPPED"
  <2>1. PICK n : n = Len(versions[t])
    OBVIOUS
  <2>2. PICK m : m = Len(runs[t][a])
    OBVIOUS
  <2>3. runs[t][a][m] = before /\ runs[t][a][m].closed = (runs[t][a][m].state = "STOPPED")
    BY <1>1, <1>2, <1>3, <2>1, <2>2, OwnedIs
  <2> QED BY <1>2, <1>3, <2>3 DEF IsOpen
<1>5. /\ before \in RunRows /\ Exists(t) /\ before.recovery = recovery /\ ~before.closed
      /\ before.state \in {"ALLOCATED", "READY"} => ~before.dispatched
      /\ before.state \in {"BUSY", "DRAINING"} => before.dispatched
  BY <1>1, <1>2, <1>3, <1>4, ExecutionOpen
<1>6. CASE CloseSnapshot(t)
  <2>1. sessions # <<>>
    BY <1>3 DEF Owned, CurrentTask
  <2> QED BY <1>1, <1>2, <1>3, <1>5, <1>6, <2>1, CloseKeeps
<1>7. CASE Silently(t, before)
  <2>1. Follows(before, before, Current(t))
    BY <1>5 DEF Follows
  <2> QED BY <1>1, <1>2, <1>3, <1>4, <1>5, <1>7, <2>1, SilentlyKeeps
<1> QED BY <1>3, <1>6, <1>7

\* The rows are valid after a close after a restart.
LEMMA RecoverCloseKeeps ==
  ASSUME RowsInv, NEW t \in Names, RecoverExecutionClose(t)
  PROVE  RowsInv'
<1>1. PICK a : a = Attempt(t)
  OBVIOUS
<1>2. sessions # <<>> /\ Exists(t) /\ IsOpen(t, a) /\ Run(t, a).recovery = recovery /\ CloseSnapshot(t)
  BY <1>1 DEF RecoverExecutionClose
<1> QED BY <1>1, <1>2, CloseKeeps

\* The rows are valid after an allocation.
LEMMA AllocateKeeps ==
  ASSUME RowsInv, NEW t \in Names, AllocateExecution(t)
  PROVE  RowsInv'
<1>1. TypeOK /\ AttemptsValid /\ VersionsKept
  BY DEF RowsInv, RowsValid
<1>2. PICK a : a = Attempt(t)
  OBVIOUS
<1>3. sessions # <<>> /\ Exists(t) /\ Current(t).epoch = Owner.epoch /\ Current(t).state = "READY"
      /\ ~HasRun(t, a)
  BY <1>2 DEF AllocateExecution, CurrentTask
<1>4. PICK n \in Nat \ {0} : /\ n = Len(versions[t]) /\ DOMAIN versions[t] = 1..n
                             /\ Current(t) = versions[t][n] /\ versions[t][n].attempt = a
  BY <1>1, <1>2, <1>3, TaskTables
<1>5. a \in AttemptNumbers
  BY <1>1, <1>2, <1>3 DEF VersionsKept
<1>6. runs[t][a] = <<>>
  BY <1>3, <1>5 DEF HasRun
<1>7. PICK i \in InputsOf(t) :
        runs' = [runs EXCEPT ![t][a] =
                  <<[state |-> "ALLOCATED", dispatched |-> FALSE, closed |-> FALSE, input |-> i,
                     epoch |-> Owner.epoch, recovery |-> recovery, written |-> recovery, at |-> n]>>]
  BY <1>2, <1>4 DEF AllocateExecution
<1>8. PICK run : run = [state |-> "ALLOCATED", dispatched |-> FALSE, closed |-> FALSE, input |-> i,
                        epoch |-> Owner.epoch, recovery |-> recovery, written |-> recovery, at |-> n]
  OBVIOUS
<1>9. i \in DOMAIN inputs /\ inputs[i].task = t /\ inputs[i].attempt = a /\ inputs[i].kind = "runtime"
      /\ inputs[i].epoch = Owner.epoch
  BY <1>2 DEF InputsOf, InputsAt
<1>10. /\ run \in RunRows /\ run.state = "ALLOCATED" /\ ~run.dispatched /\ ~run.closed /\ run.input = i
       /\ run.epoch = Owner.epoch /\ run.recovery = recovery /\ run.written = recovery /\ run.at = n
  <2>1. Owner.epoch \in Nat /\ recovery \in Nat /\ i \in Nat
    BY SMTT(30), <1>1, <1>3, <1>9, OwnerIs, Tables DEF TypeOK
  <2> QED BY <1>4, <1>8, <2>1 DEF RunRows, RunStates
<1>11. RunAppends(t, a, run)
  <2>1. Append(runs[t][a], run) = <<run>>
    BY <1>6
  <2>2. runs \in [Names -> [AttemptNumbers -> Seq(RunRows)]]
    BY <1>1 DEF TypeOK
  <2> QED BY <1>5, <1>7, <1>8, <2>1, <2>2 DEF RunAppends
<1>12. UNCHANGED <<recovery, sessions, taskRows, outbox, events, requests, consumers>>
  BY DEF AllocateExecution
<1>13. TypeOK' /\ Grows
  BY <1>2, <1>3, <1>5, <1>10, <1>11, <1>12, SilentGrows
<1>14. runs'[t][a][1] = run
  <2>1. PICK m : m = Len(runs[t][a])
    OBVIOUS
  <2>2. m = 0
    BY <1>6, <2>1
  <2>3. runs'[t][a][m + 1] = run
    BY <1>1, <1>5, <1>10, <1>11, <2>1, RunAppended
  <2> QED BY <2>2, <2>3
<1>15. versions' = versions /\ inputs' = inputs
  BY <1>12 DEF taskRows
<1>16. inputs[i].revision \in 1..n /\ versions[t][inputs[i].revision].attempt = a
       /\ inputs[i].intent = versions[t][inputs[i].revision].intent
  BY <1>4, <1>9, InputIs DEF InputKept
<1>17. inputs[i].intent = versions[t][n].intent
  <2>1. IntentsKept
    BY <1>1, IntentsHold
  <2>2. inputs[i].revision \in DOMAIN versions[t] /\ n \in DOMAIN versions[t]
    BY <1>4, <1>16
  <2>3. attempts[t][versions[t][inputs[i].revision].attempt].intent = versions[t][inputs[i].revision].intent
        /\ attempts[t][versions[t][n].attempt].intent = versions[t][n].intent
    BY <2>1, <2>2 DEF IntentsKept
  <2> QED BY <1>4, <1>16, <2>3
<1>18. SnapshotValid(t, a, 1)'
  <2>1. PICK input : input = inputs[i]
    OBVIOUS
  <2>2. PICK task : task = versions[t][n]
    OBVIOUS
  <2>3. input.kind = "runtime" /\ input.task = t /\ input.attempt = a /\ input.epoch = run.epoch
        /\ input.revision <= run.at /\ input.intent = task.intent
    BY <1>4, <1>9, <1>10, <1>16, <1>17, <2>1, <2>2
  <2>4. task.attempt = a /\ task.epoch = run.epoch /\ task.state = "READY"
    BY <1>3, <1>4, <1>10, <2>2
  <2>5. inputs'[run.input] = input /\ versions'[t][run.at] = task
    BY <1>10, <1>15, <2>1, <2>2
  <2> QED BY <1>10, <1>14, <2>3, <2>4, <2>5 DEF SnapshotValid
<1>19. PICK m : m = Len(runs[t][a]) /\ m + 1 = 1
  BY <1>6
<1>20. SnapshotValid(t, a, m + 1)'
  BY <1>18, <1>19
<1>21. Current(t).epoch = run.epoch /\ run.at \in DOMAIN versions[t] /\ run.input \in DOMAIN inputs
       /\ run.state # "STOPPED" /\ run.state \notin {"BUSY", "DRAINING"}
  BY <1>3, <1>4, <1>9, <1>10
<1> QED BY <1>2, <1>3, <1>5, <1>10, <1>11, <1>12, <1>19, <1>20, <1>21, SilentKeeps

\* A sequence of one element.
LEMMA Single ==
  ASSUME NEW S, NEW x \in S, NEW p, p = <<x>>
  PROVE  p \in Seq(S) /\ Len(p) = 1 /\ p[1] = x /\ DOMAIN p = 1..1 /\ p # <<>>
  OBVIOUS

\* The rows are valid after the session.
LEMMA CreateSessionKeeps ==
  ASSUME RowsInv, CreateSession
  PROVE  RowsInv'
<1>1. TypeOK /\ Opened /\ OutboxKept /\ AttemptsValid /\ sessions = <<>> /\ Session \notin Names
  BY DEF RowsInv, RowsValid, TypeOK, Bounds, CreateSession
<1>2. UNCHANGED runRows
      /\ UNCHANGED <<recovery, consumers, versions, attempts, inputs, runs, events, requests>>
  BY DEF CreateSession, runRows
<1>3. receipts = <<>> /\ inputs = <<>> /\ outbox = <<>> /\ \A t \in Names : versions[t] = <<>>
  BY <1>1 DEF Opened
<1>4. recovery \in Nat /\ events \in Seq(EventRows) /\ requests \in Seq(RequestRows)
  BY <1>1 DEF TypeOK
<1>5. PICK row : row = SessionRow("created", 1, 1, TRUE, recovery, 1)
  OBVIOUS
<1>6. /\ row \in SessionRows /\ row.reason = "created" /\ row.owner = 1 /\ row.epoch = 1
      /\ row.authorized = TRUE /\ row.recovery = recovery /\ row.cursor = 1
  BY <1>4, <1>5 DEF SessionRow, SessionRows, Reasons
<1>7. PICK event : event = [type |-> "session.created", of |-> Session, revision |-> 1, about |-> Nothing,
                            epoch |-> 1, recovery |-> recovery, publish |-> "pending"]
  OBVIOUS
<1>8. /\ event \in OutboxRows /\ event.type = "session.created" /\ event.of = Session /\ event.revision = 1
      /\ event.epoch = 1 /\ event.recovery = recovery /\ event.publish = "pending"
  <2>1. Nothing \in Facts
    BY DEF Facts, Nothing, About
  <2> QED BY <1>4, <1>7, <2>1 DEF OutboxRows, SessionEvents
<1>9. PICK receipt : receipt = [task |-> Session, kind |-> "session.create", revision |-> 1, input |-> 0,
                                cursor |-> 1, event |-> 0]
  OBVIOUS
<1>10. /\ receipt \in ReceiptRows /\ receipt.task = Session /\ receipt.kind = "session.create"
       /\ receipt.revision = 1 /\ receipt.cursor = 1 /\ receipt.event = 0
  BY <1>9 DEF ReceiptRows
<1>11. sessions' \in Seq(SessionRows) /\ Len(sessions') = 1 /\ sessions'[1] = row /\ DOMAIN sessions' = 1..1
       /\ sessions' # <<>>
  <2>1. sessions' = <<row>>
    BY <1>5 DEF CreateSession
  <2> QED BY <1>6, <2>1, Single
<1>12. outbox' \in Seq(OutboxRows) /\ Len(outbox') = 1 /\ outbox'[1] = event /\ DOMAIN outbox' = 1..1
  BY <1>7, <1>8, Single DEF CreateSession
<1>13. receipts' \in Seq(ReceiptRows) /\ Len(receipts') = 1 /\ receipts'[1] = receipt /\ DOMAIN receipts' = 1..1
  BY <1>9, <1>10, Single DEF CreateSession
<1>14. TypeOK'
  BY <1>1, <1>2, <1>11, <1>12, <1>13 DEF TypeOK, Bounds
<1>15. Len(sessions) = 0 /\ Len(receipts) = 0 /\ Len(inputs) = 0 /\ Len(outbox) = 0
  BY <1>1, <1>3
<1>16. Grows
  <2>1. Extends(events, events') /\ Extends(requests, requests')
    BY <1>2, <1>4, SameTable
  <2>2. Extends(sessions, sessions') /\ Extends(receipts, receipts') /\ Extends(inputs, inputs')
    BY <1>2, <1>11, <1>13, <1>15 DEF Extends
  <2>3. \A t \in Names : Extends(versions[t], versions'[t])
    BY <1>2, <1>3 DEF Extends
  <2>4. (\A t \in Names, k \in AttemptNumbers : Extends(runs[t][k], runs'[t][k]))
        /\ \A t \in Names, k \in AttemptNumbers : ~(runs[t][k] = <<>> /\ runs'[t][k] # <<>>)
    BY <1>1, <1>2, RunsExtend
  <2>5. recovery <= recovery' /\ Len(outbox) <= Len(outbox') /\ \A c \in 1..Len(outbox) : SameEvent(outbox[c], outbox'[c])
    BY <1>2, <1>4, <1>12, <1>15
  <2>6. \A i \in 1..Len(sessions') : sessions'[i].cursor > Len(outbox)
    BY <1>6, <1>11, <1>15
  <2>7. \A j \in 1..Len(receipts') : receipts'[j].event = 0 /\ receipts'[j].task \notin Names
    BY <1>1, <1>10, <1>13
  <2>8. \A c \in 1..Len(outbox') : outbox'[c].of \notin Names
    BY <1>1, <1>8, <1>12
  <2> QED BY <2>1, <2>2, <2>3, <2>4, <2>5, <2>6, <2>7, <2>8 DEF Grows
<1>17. SessionsValid'
  <2>1. SessionLinked(1)'
    BY <1>6, <1>8, <1>11, <1>12 DEF SessionLinked
  <2>2. RecoveryFenced' = {}
    BY <1>6, <1>11 DEF RecoveryFenced
  <2>3. Owner' = row
    BY <1>11 DEF Owner, Last
  <2>4. (sessions'[1].recovery + 1)..recovery' = {}
    BY <1>2, <1>4, <1>6, <1>11
  <2>5. {sessions'[i].recovery : i \in RecoveryFenced'} = (sessions'[1].recovery + 1)..recovery'
    BY <2>2, <2>4
  <2>6. \A i \in DOMAIN sessions' : sessions'[i].recovery <= recovery' /\ SessionLinked(i)'
          /\ (i > 1 => SessionStep(sessions'[i - 1], sessions'[i]))
    BY <1>2, <1>4, <1>6, <1>11, <2>1
  <2> QED BY <1>2, <1>6, <1>11, <2>2, <2>3, <2>5, <2>6 DEF SessionsValid
<1>18. AttemptsValid' /\ VersionsKept'
  <2>1. AttemptsValid'
    BY <1>1, <1>2 DEF AttemptsValid, AttemptValid, VersionsOf, Exists, Attempt, Current
  <2>2. VersionsKept'
    BY <1>2, <1>3 DEF VersionsKept, Exists
  <2> QED BY <2>1, <2>2
<1>19. CommandsValid'
  <2>1. \A t \in Names : Commands(t)' = {}
    BY <1>1, <1>10, <1>13 DEF Commands
  <2> QED BY <1>2, <1>3, <2>1 DEF CommandsValid, Exists
<1>20. InputsValid'
  BY <1>2, <1>3, <1>10, <1>13 DEF InputsValid
<1>21. ReceiptsValid' /\ ReceiptsKept'
  <2>1. ReceiptValid(receipt)'
    BY <1>8, <1>10, <1>12 DEF ReceiptValid
  <2>2. ReceiptsValid'
    BY <1>13, <2>1 DEF ReceiptsValid
  <2>3. ReceiptsKept'
    <3>1. Len(events') \in Nat
      BY <1>1, <1>2, Tables
    <3>2. \A j \in DOMAIN receipts' : j = 1 /\ receipts'[j] = receipt
      BY <1>13
    <3>3. \A i \in 1..(1 - 1) : FALSE
      OBVIOUS
    <3>4. DOMAIN inputs' = {} /\ Len(receipts') = Len(inputs') + 1
      BY <1>2, <1>3, <1>13
    <3> QED BY <1>10, <3>1, <3>2, <3>3, <3>4 DEF ReceiptsKept
  <2> QED BY <2>2, <2>3
<1>22. RunsValid' /\ RunsKept'
  BY <1>2, <1>14, <1>16, RunsSame
<1>23. EventsValid' /\ RequestsValid' /\ MessagesKept'
  <2>1. \A j \in 1..Len(receipts') : receipts'[j].kind # "task.runtime"
    BY <1>10, <1>13
  <2> QED BY <1>2, <1>14, <1>16, <2>1, MessagesSame
<1>24. OutboxValid'
  <2>1. PublishKept'
    <3>1. Len(outbox) <= Len(outbox') /\ \A c \in 1..Len(outbox) : outbox'[c] = outbox[c]
      BY <1>12, <1>15
    <3>2. \A c \in 1..Len(outbox') : c > Len(outbox) => outbox'[c].recovery = recovery /\ outbox'[c].publish = "pending"
      BY <1>8, <1>12
    <3> QED BY <1>2, <1>14, <3>1, <3>2, PublishGrows
  <2>2. ASSUME NEW c \in 1..Len(outbox'), c > Len(outbox) PROVE EventValid(c)'
    <3>1. c = 1
      BY <1>12
    <3>2. SessionEventValid(c)'
      <4>1. 1 \in DOMAIN receipts'
        BY <1>13
      <4>2. \A d \in 1..(c - 1) : FALSE
        BY <3>1
      <4> QED BY <1>6, <1>8, <1>10, <1>11, <1>12, <1>13, <3>1, <4>1, <4>2 DEF SessionEventValid
    <3> QED BY <1>8, <1>12, <3>1, <3>2 DEF EventValid, SessionEvents
  <2> QED BY <1>2, <1>14, <1>16, <2>1, <2>2, OutboxQuiet
<1>25. OutboxKept'
  <2>1. NewEvents
    BY <1>8, <1>12 DEF NewEvents, SessionEvents, VersionTypes
  <2>2. \A c \in Consumers : consumers'[c] <= Len(outbox')
    <3>1. \A c \in Consumers : consumers[c] <= 0 /\ consumers[c] \in Nat
      BY <1>1, <1>15 DEF OutboxKept, TypeOK
    <3> QED BY <1>2, <1>12, <3>1
  <2> QED BY <1>2, <1>14, <1>16, <2>1, <2>2, OutboxSame
<1>26. Opened'
  BY <1>11 DEF Opened
<1> QED BY <1>14, <1>17, <1>18, <1>19, <1>20, <1>21, <1>22, <1>23, <1>24, <1>25, <1>26, Preserved

\* A new input and its receipt.
NewReceipt(j) ==
  /\ receipts[j].task \in Names /\ receipts[j].kind # "session.create"
  /\ receipts[j].revision \in DOMAIN versions[receipts[j].task] /\ receipts[j].event <= Len(events)

\* The receipts keep their places after one more, with its input.
LEMMA ReceiptsGrowBy ==
  ASSUME RowsInv, TypeOK', Grows, sessions # <<>>, NEW n \in Nat, n = Len(inputs), Len(inputs') = n + 1,
         Len(receipts') = n + 2, NewReceipt(n + 2)', receipts'[n + 2].cursor > Len(outbox),
         Match(n + 1, n + 2)', inputs'[n + 1].ordinal \in 1..(n + 1)
  PROVE  ReceiptsKept'
<1>1. TypeOK /\ ReceiptsKept /\ ReceiptsValid /\ Session \notin Names
  BY DEF RowsInv, RowsValid, TypeOK, Bounds
<1>2. /\ Len(receipts) = n + 1 /\ DOMAIN receipts = 1..(n + 1) /\ DOMAIN receipts' = 1..(n + 2)
      /\ DOMAIN inputs = 1..n /\ DOMAIN inputs' = 1..(n + 1)
      /\ Len(events) \in Nat /\ Len(events') \in Nat /\ Len(outbox) \in Nat /\ DOMAIN outbox = 1..Len(outbox)
  BY <1>1, Columns, ColumnsAfter DEF ReceiptsKept, Columned
<1>3. Len(events) <= Len(events') /\ (\A j \in 1..(n + 1) : receipts'[j] = receipts[j])
      /\ \A i \in 1..n : inputs'[i] = inputs[i]
  BY <1>2 DEF Grows, Extends
<1>4. \A j \in 1..(n + 1) : receipts[j].cursor \in 1..Len(outbox) /\ receipts[j].event \in Nat
                             /\ receipts[j].revision \in Nat
  BY <1>1, <1>2, Columns DEF ReceiptsValid, ReceiptValid, Columned
<1>5. /\ receipts'[n + 2].task \in Names /\ receipts'[n + 2].kind # "session.create"
      /\ receipts'[n + 2].revision \in DOMAIN versions'[receipts'[n + 2].task]
      /\ receipts'[n + 2].event <= Len(events')
  BY DEF NewReceipt
<1>6. ASSUME NEW t \in Names
      PROVE  Len(versions[t]) \in Nat /\ DOMAIN versions[t] = 1..Len(versions[t])
             /\ DOMAIN versions[t] \subseteq DOMAIN versions'[t]
  <2>1. Len(versions[t]) \in Nat /\ DOMAIN versions[t] = 1..Len(versions[t])
    BY <1>1, VersionColumns DEF VersionsColumned
  <2>2. Len(versions'[t]) \in Nat /\ DOMAIN versions'[t] = 1..Len(versions'[t])
    BY VersionColumnsAfter DEF VersionsColumned
  <2>3. Len(versions[t]) <= Len(versions'[t])
    BY DEF Grows, Extends
  <2> QED BY <2>1, <2>2, <2>3
<1>7. ASSUME NEW j \in 1..(n + 1)
      PROVE  /\ (receipts'[j].task = Session) = (j = 1)
             /\ (receipts'[j].kind = "session.create") = (j = 1)
             /\ j > 1 => receipts'[j].revision \in DOMAIN versions'[receipts'[j].task]
             /\ receipts'[j].event <= Len(events')
             /\ \A i \in 1..(j - 1) :
                  /\ receipts'[i].cursor < receipts'[j].cursor
                  /\ receipts'[i].task = receipts'[j].task /\ j \in Commands(receipts[j].task)' =>
                       receipts'[i].revision < receipts'[j].revision
  <2>1. /\ (receipts[j].task = Session) = (j = 1)
        /\ (receipts[j].kind = "session.create") = (j = 1)
        /\ j > 1 => receipts[j].revision \in DOMAIN versions[receipts[j].task]
        /\ receipts[j].event <= Len(events)
        /\ \A i \in 1..(j - 1) :
             /\ receipts[i].cursor < receipts[j].cursor
             /\ receipts[i].task = receipts[j].task /\ j \in Commands(receipts[j].task) =>
                  receipts[i].revision < receipts[j].revision
    BY <1>1, <1>2 DEF ReceiptsKept
  <2>2. receipts'[j] = receipts[j] /\ \A i \in 1..(j - 1) : receipts'[i] = receipts[i]
    BY SMTT(30), <1>3
  <2>3. j \in Commands(receipts[j].task)' => j \in Commands(receipts[j].task)
    BY <1>2, <2>2 DEF Commands
  <2>4. receipts[j].event <= Len(events')
    BY <1>2, <1>3, <1>4, <2>1
  <2>5. j > 1 => receipts[j].revision \in DOMAIN versions'[receipts[j].task]
    <3>1. receipts[j].task \in Names \cup {Session}
      BY <1>1, <1>2, Columns DEF Columned
    <3> QED BY <1>6, <2>1, <3>1
  <2> QED BY <2>1, <2>2, <2>3, <2>4, <2>5
<1>8. ASSUME NEW i \in 1..(n + 1)
      PROVE  /\ receipts'[i].cursor < receipts'[n + 2].cursor
             /\ receipts'[i].task = receipts'[n + 2].task /\ n + 2 \in Commands(receipts[n + 2].task)' =>
                  receipts'[i].revision < receipts'[n + 2].revision
  <2>1. receipts'[i] = receipts[i] /\ receipts[i].cursor \in 1..Len(outbox)
    BY <1>3, <1>4
  <2>2. receipts'[n + 2].cursor \in Nat /\ receipts'[n + 2].revision \in Nat
    BY <1>2, ColumnsAfter DEF Columned
  <2>3. ASSUME receipts[i].task = receipts'[n + 2].task, n + 2 \in Commands(receipts[n + 2].task)'
        PROVE  receipts[i].revision < receipts'[n + 2].revision
    <3>1. PICK t \in Names : t = receipts'[n + 2].task
      BY <1>5
    <3>2. receipts'[n + 2].kind # "task.runtime-input"
      BY <2>3 DEF Commands
    <3>3. receipts'[n + 2].revision > Len(versions[t])
      <4>1. n + 2 \in 1..Len(receipts') /\ n + 2 > Len(receipts)
        BY <1>2
      <4> QED BY <1>5, <3>1, <3>2, <4>1 DEF Grows
    <3>4. i > 1
      BY SMTT(30), <1>1, <1>2, <2>3, <3>1 DEF ReceiptsKept
    <3>5. receipts[i].revision \in DOMAIN versions[t]
      BY <1>1, <1>2, <2>3, <3>1, <3>4 DEF ReceiptsKept
    <3> QED BY <1>6, <2>2, <3>3, <3>5
  <2> QED BY SMTT(30), <1>2, <2>1, <2>2, <2>3
<1>9. /\ (receipts'[n + 2].task = Session) = (n + 2 = 1)
      /\ (receipts'[n + 2].kind = "session.create") = (n + 2 = 1)
  BY <1>1, <1>5
<1>10. ASSUME NEW i \in 1..(n + 1) PROVE Match(i, i + 1)' /\ inputs'[i].ordinal \in 1..i
  <2>1. CASE i = n + 1
    <3>1. PICK m : m = n + 1
      OBVIOUS
    <3>2. m + 1 = n + 2
      BY <3>1
    <3> QED BY <2>1, <3>1, <3>2
  <2>2. CASE i # n + 1
    <3>1. i \in DOMAIN inputs /\ i + 1 \in DOMAIN receipts
      BY <1>2, <2>2
    <3>2. Match(i, i + 1) /\ inputs[i].ordinal \in 1..i
      BY <1>1, <3>1 DEF ReceiptsKept
    <3>3. PICK k : k = i + 1
      OBVIOUS
    <3>4. Match(i, k)' <=> Match(i, k)
      BY <3>1, <3>3, MatchStays
    <3>5. Match(i, k)'
      BY <3>2, <3>3, <3>4
    <3> QED BY <1>2, <1>3, <3>1, <3>2, <3>3, <3>5
  <2> QED BY <2>1, <2>2
<1>11. sessions' # <<>> => Len(receipts') = Len(inputs') + 1
  OBVIOUS
<1>12. ASSUME NEW j \in DOMAIN receipts'
       PROVE  /\ (receipts'[j].task = Session) = (j = 1)
              /\ (receipts'[j].kind = "session.create") = (j = 1)
              /\ j > 1 => receipts'[j].revision \in DOMAIN versions'[receipts'[j].task]
              /\ receipts'[j].event <= Len(events')
              /\ \A i \in 1..(j - 1) :
                   /\ receipts'[i].cursor < receipts'[j].cursor
                   /\ receipts'[i].task = receipts'[j].task /\ j \in Commands(receipts[j].task)' =>
                        receipts'[i].revision < receipts'[j].revision
  <2>1. CASE j \in 1..(n + 1)
    BY <1>7, <2>1
  <2>2. CASE j = n + 2
    <3>1. \A i \in 1..(j - 1) : i \in 1..(n + 1)
      BY <2>2
    <3> QED BY <1>5, <1>8, <1>9, <2>2, <3>1
  <2> QED BY <1>2, <2>1, <2>2
<1> QED BY <1>2, <1>10, <1>11, <1>12 DEF ReceiptsKept

\* The input that an operation appends to those of an attempt.
Received(t, a, n, m, row) ==
  /\ a \in AttemptNumbers /\ n \in Nat /\ n = Len(inputs) /\ Len(inputs') = n + 1 /\ inputs'[n + 1] = row
  /\ row \in InputRows /\ row.task = t /\ row.attempt = a /\ row.revision >= Len(versions[t])
  /\ m = MaxOf({0} \cup {inputs[i].ordinal : i \in InputsAt(t, a)}) /\ row.ordinal = m + 1

\* The input follows the attempt's others, by the next ordinal.
LEMMA Ordinals ==
  ASSUME RowsInv, TypeOK', Grows, NEW t \in Names, NEW a, NEW n, NEW m, NEW row, Received(t, a, n, m, row)
  PROVE  /\ \A i \in 1..n : After(i, n + 1)'
         /\ row.ordinal > 1 => \E i \in InputsAt(row.task, row.attempt)' : inputs'[i].ordinal = row.ordinal - 1
         /\ row.ordinal \in 1..(n + 1)
<1>1. TypeOK /\ ReceiptsKept
  BY DEF RowsInv
<1>2. /\ a \in AttemptNumbers /\ n \in Nat /\ n = Len(inputs) /\ Len(inputs') = n + 1 /\ inputs'[n + 1] = row
      /\ row \in InputRows /\ row.task = t /\ row.attempt = a /\ row.revision >= Len(versions[t])
      /\ row.ordinal = m + 1
  BY DEF Received
<1>3. /\ m \in 0..n /\ \A i \in InputsAt(t, a) : inputs[i].ordinal <= m
      /\ m > 0 => \E i \in InputsAt(t, a) : inputs[i].ordinal = m
  <2>1. m = MaxOf({0} \cup {inputs[i].ordinal : i \in InputsAt(t, a)})
    BY DEF Received
  <2>2. Highest(t, a, m)
    BY <1>1, <2>1, NextOrdinal
  <2> QED BY <1>2, <2>2 DEF Highest
<1>4. DOMAIN inputs = 1..n /\ DOMAIN inputs' = 1..(n + 1)
  BY <1>1, <1>2, Columns, ColumnsAfter DEF Columned
<1>5. ASSUME NEW i \in 1..n
      PROVE  /\ inputs'[i] = inputs[i] /\ inputs[i].ordinal \in Nat /\ inputs[i].revision \in Nat
             /\ inputs[i].revision \in 1..Len(versions[inputs[i].task])
  <2>1. i \in DOMAIN inputs
    BY <1>4
  <2> QED BY <1>1, <1>2, <2>1, InputStays, Columns DEF Columned
<1>6. Len(versions[t]) \in Nat /\ row.revision \in Nat /\ row.ordinal \in Nat
  BY <1>1, <1>2, TaskTables DEF InputRows
<1>7. ASSUME NEW i \in 1..n, inputs[i].task = t, inputs[i].attempt = a
      PROVE  inputs[i].ordinal < row.ordinal /\ inputs[i].revision <= row.revision
  <2>1. i \in InputsAt(t, a)
    BY <1>4, <1>7 DEF InputsAt
  <2>2. inputs[i].ordinal <= m
    BY <1>3, <2>1
  <2>3. inputs[i].revision \in 1..Len(versions[t])
    BY <1>5, <1>7
  <2> QED BY <1>2, <1>3, <1>5, <1>6, <2>2, <2>3
<1>8. \A i \in 1..n : After(i, n + 1)'
  BY <1>2, <1>5, <1>7 DEF After
<1>9. ASSUME row.ordinal > 1
      PROVE  \E i \in InputsAt(row.task, row.attempt)' : inputs'[i].ordinal = row.ordinal - 1
  <2>1. PICK i \in InputsAt(t, a) : inputs[i].ordinal = m
    BY <1>2, <1>3, <1>9
  <2>2. i \in 1..n /\ inputs[i].task = t /\ inputs[i].attempt = a
    BY <1>4 DEF InputsAt
  <2>3. inputs'[i] = inputs[i] /\ i \in DOMAIN inputs'
    BY <1>2, <1>4, <1>5, <2>2
  <2>4. i \in InputsAt(row.task, row.attempt)'
    BY <1>2, <2>2, <2>3 DEF InputsAt
  <2>5. inputs'[i].ordinal = row.ordinal - 1
    BY <1>2, <1>3, <2>1, <2>3
  <2> QED BY <2>4, <2>5
<1>10. row.ordinal \in 1..(n + 1)
  BY <1>2, <1>3
<1> QED BY <1>8, <1>9, <1>10

\* The receipt is the input's and no other's.
LEMMA RecordedInput ==
  ASSUME RowsInv, TypeOK', Grows, sessions # <<>>, NEW t \in Names, NEW a, NEW n, NEW m, NEW row,
         Received(t, a, n, m, row), Len(receipts') = n + 2, NEW r, r = receipts'[n + 2],
         r.task = t, r.revision = row.revision,
         \/ row.kind = "runtime" /\ r.kind = "task.runtime-input" /\ r.input = n + 1
         \/ /\ row.kind # "runtime" /\ r.kind # "task.runtime-input" /\ (r.kind \in Internal) = (row.kind = "internal")
            /\ row.revision > Len(versions[t]),
         InputKept(n + 1)'
  PROVE  NewInput(n + 1)' /\ Match(n + 1, n + 2)' /\ inputs'[n + 1].ordinal \in 1..(n + 1)
<1>1. TypeOK /\ ReceiptsKept /\ Session \notin Names
  BY DEF RowsInv, TypeOK, Bounds
<1>2. /\ n \in Nat /\ n = Len(inputs) /\ Len(inputs') = n + 1 /\ inputs'[n + 1] = row
      /\ row.task = t /\ row.attempt = a
  BY DEF Received
<1>3. Len(receipts) = n + 1
  BY <1>1, <1>2 DEF ReceiptsKept
<1>4. DOMAIN inputs = 1..n /\ DOMAIN receipts = 1..(n + 1)
  BY <1>1, <1>2, <1>3, Columns DEF Columned
<1>5. Match(n + 1, n + 2)'
  BY <1>2 DEF Match
<1>6. Len(versions[t]) \in Nat /\ DOMAIN versions[t] = 1..Len(versions[t])
  BY <1>1, TaskTables
<1>7. ASSUME NEW i \in 1..n PROVE ~Match(i, n + 2)'
  <2>1. inputs'[i] = inputs[i] /\ inputs[i].revision \in 1..Len(versions[inputs[i].task])
    <3>1. i \in DOMAIN inputs
      BY <1>4
    <3> QED BY <3>1, InputStays
  <2>2. CASE row.kind = "runtime" /\ r.kind = "task.runtime-input" /\ r.input = n + 1
    <3>1. i # n + 1
      BY <1>2
    <3> QED BY <2>2, <3>1 DEF Match
  <2>3. CASE row.revision > Len(versions[t])
    <3>1. inputs[i].task = t => inputs[i].revision # row.revision
      BY <1>6, <2>1, <2>3
    <3> QED BY <2>1, <3>1 DEF Match
  <2> QED BY <2>2, <2>3
<1>8. ASSUME NEW j \in 1..(n + 1) PROVE ~Match(n + 1, j)'
  <2>1. receipts'[j] = receipts[j] /\ j \in DOMAIN receipts
    BY <1>2, <1>3, <1>4 DEF Grows, Extends
  <2>2. SUFFICES ASSUME receipts[j].task = t, receipts[j].revision = row.revision,
                        IF row.kind = "runtime" THEN receipts[j].kind = "task.runtime-input" /\ receipts[j].input = n + 1
                        ELSE receipts[j].kind # "task.runtime-input"
                 PROVE  FALSE
    BY <1>2, <2>1 DEF Match
  <2>3. j # 1
    BY <1>1, <2>1, <2>2 DEF ReceiptsKept
  <2>4. receipts[j].revision \in DOMAIN versions[receipts[j].task]
    BY <1>1, <1>2, <2>1, <2>3 DEF ReceiptsKept
  <2>5. receipts[j].revision \in 1..Len(versions[t])
    BY <1>6, <2>2, <2>4
  <2>6. CASE row.kind = "runtime"
    <3>1. PICK i \in 1..n : i + 1 = j
      <4>1. j - 1 \in 1..n /\ (j - 1) + 1 = j
        BY <1>2, <2>3
      <4> QED BY <4>1
    <3>2. Match(i, j)
      BY <1>1, <1>4, <3>1 DEF ReceiptsKept
    <3>3. i # n + 1
      BY <1>2
    <3> QED BY <2>2, <2>6, <3>2, <3>3 DEF Match
  <2>7. CASE row.kind # "runtime" /\ row.revision > Len(versions[t])
    BY <1>6, <2>2, <2>5, <2>7
  <2> QED BY <2>6, <2>7
<1>9. /\ \A i \in 1..n : After(i, n + 1)'
      /\ row.ordinal > 1 => \E i \in InputsAt(row.task, row.attempt)' : inputs'[i].ordinal = row.ordinal - 1
      /\ row.ordinal \in 1..(n + 1)
  BY Ordinals
<1>10. PICK k \in Nat : k = n + 1
  BY <1>2
<1>11. k + 1 = n + 2 /\ k - 1 = n
  BY <1>2, <1>10
<1>12. InputKept(k)' /\ Match(k, k + 1)' /\ (\A i \in 1..(k - 1) : ~Match(i, k + 1)' /\ After(i, k)')
       /\ \A j \in 1..k : ~Match(k, j)'
  BY <1>5, <1>7, <1>8, <1>9, <1>10, <1>11
<1>13. inputs'[k].ordinal > 1 =>
         \E i \in InputsAt(inputs[k].task, inputs[k].attempt)' : inputs'[i].ordinal = inputs'[k].ordinal - 1
  BY <1>2, <1>9, <1>10
<1>14. NewInput(k)'
  BY <1>12, <1>13 DEF NewInput
<1> QED BY <1>2, <1>5, <1>9, <1>10, <1>14

\* The rows are valid after the runtime's input.
LEMMA RuntimeInputKeeps ==
  ASSUME RowsInv, NEW t \in Names, RecordRuntimeInput(t)
  PROVE  RowsInv'
<1>1. TypeOK /\ Opened /\ OutboxKept /\ VersionsKept /\ ReceiptsKept /\ Session \notin Names
  BY DEF RowsInv, TypeOK, Bounds
<1>2. UNCHANGED <<recovery, sessions, consumers>> /\ UNCHANGED <<versions, attempts, runs, events, requests>>
  BY DEF RecordRuntimeInput, runRows
<1>3. sessions # <<>> /\ Exists(t) /\ Current(t).epoch = Owner.epoch /\ Owner.authorized /\ Current(t).state = "READY"
  BY DEF RecordRuntimeInput, CurrentTask
<1>4. PICK v \in Nat \ {0} : /\ v = Len(versions[t]) /\ versions[t][v] = Current(t) /\ v \in DOMAIN versions[t]
                             /\ Current(t) \in VersionRows /\ Attempt(t) = Current(t).attempt
  <2>1. /\ Len(versions[t]) \in Nat /\ Len(versions[t]) >= 1 /\ Current(t) = versions[t][Len(versions[t])]
        /\ Current(t) \in VersionRows /\ Attempt(t) = Current(t).attempt /\ DOMAIN versions[t] = 1..Len(versions[t])
    BY <1>1, <1>3, TaskTables
  <2> QED BY <2>1
<1>5. PICK a \in AttemptNumbers : a = Current(t).attempt
  BY <1>1, <1>3, <1>4 DEF VersionsKept
<1>6. PICK n \in Nat : n = Len(inputs)
  BY Zenon, <1>1, Tables
<1>7. PICK l \in Nat : l = Len(outbox)
  BY <1>1, Tables
<1>8. Len(receipts) = n + 1
  BY <1>1, <1>3, <1>6 DEF ReceiptsKept
<1>9. PICK m : m = MaxOf({0} \cup {inputs[i].ordinal : i \in InputsAt(t, a)})
  OBVIOUS
<1>10. m \in Nat
  <2>1. m \in 0..Len(inputs)
    <3>1. Highest(t, a, m)
      BY <1>1, <1>9, NextOrdinal
    <3> QED BY <3>1 DEF Highest
  <2> QED BY <1>6, <2>1
<1>11. Owner.epoch \in Nat /\ recovery \in Nat /\ Current(t).intent \in Nat
  BY <1>1, <1>3, <1>4, OwnerIs DEF TypeOK, VersionRows
<1>12. PICK row : row = [task |-> t, attempt |-> a, intent |-> Current(t).intent, revision |-> v,
                         kind |-> "runtime", epoch |-> Owner.epoch, ordinal |-> m + 1]
  OBVIOUS
<1>13. /\ row \in InputRows /\ row.task = t /\ row.attempt = a /\ row.intent = Current(t).intent /\ row.revision = v
       /\ row.kind = "runtime" /\ row.epoch = Owner.epoch /\ row.ordinal = m + 1
  BY <1>10, <1>11, <1>12 DEF InputRows
<1>14. row = InputRow(t, Current(t), Len(versions[t]), "runtime")
  BY <1>4, <1>5, <1>9, <1>12 DEF InputRow
<1>15. PICK r : r = [task |-> t, kind |-> "task.runtime-input", revision |-> v, input |-> n + 1,
                     cursor |-> l + 1, event |-> 0]
  OBVIOUS
<1>16. /\ r \in ReceiptRows /\ r.task = t /\ r.kind = "task.runtime-input" /\ r.revision = v /\ r.input = n + 1
       /\ r.cursor = l + 1 /\ r.event = 0
  BY <1>15 DEF ReceiptRows
<1>17. inputs' = Append(inputs, row) /\ receipts' = Append(receipts, r)
  BY <1>6, <1>7, <1>13, <1>14, <1>15 DEF RecordRuntimeInput
<1>18. PICK event \in OutboxRows :
         /\ event = OutboxRow("task.input_committed", t, v, <<"none", a, m + 1>>)
         /\ event.type = "task.input_committed" /\ event.of = t /\ event.revision = v
         /\ event.about = <<"none", a, m + 1>>
         /\ event.epoch = Owner.epoch /\ event.recovery = recovery /\ event.publish = "pending"
  <2>1. <<"none", a, m + 1>> \in Facts
    BY <1>10 DEF Facts, About, AttemptNumbers
  <2>2. t \in Names \cup {Session} /\ v \in Nat /\ "task.input_committed" \in SessionEvents \cup EventTypes
    BY DEF EventTypes
  <2> QED BY <1>1, <1>3, <2>1, <2>2, Typed
<1>19. outbox' = Append(outbox, event)
  BY <1>13, <1>14, <1>18 DEF RecordRuntimeInput
<1>20. /\ inputs' \in Seq(InputRows) /\ Len(inputs') = n + 1 /\ inputs'[n + 1] = row
       /\ \A i \in 1..n : inputs'[i] = inputs[i]
  BY <1>1, <1>6, <1>13, <1>17, Appended DEF TypeOK
<1>21. /\ receipts' \in Seq(ReceiptRows) /\ Len(receipts') = n + 2 /\ receipts'[n + 2] = r
       /\ \A i \in 1..(n + 1) : receipts'[i] = receipts[i]
  <2>1. PICK k \in Nat : k = n + 1
    OBVIOUS
  <2>2. /\ receipts' \in Seq(ReceiptRows) /\ Len(receipts') = k + 1 /\ receipts'[k + 1] = r
        /\ \A i \in 1..k : receipts'[i] = receipts[i]
    BY SMTT(30), <1>1, <1>8, <1>16, <1>17, <2>1, Appended DEF TypeOK
  <2>3. k + 1 = n + 2
    BY <2>1
  <2> QED BY <2>1, <2>2, <2>3
<1>22. /\ outbox \in Seq(OutboxRows) /\ outbox' \in Seq(OutboxRows) /\ Len(outbox') = l + 1 /\ outbox'[l + 1] = event
       /\ \A c \in 1..l : outbox'[c] = outbox[c]
       /\ DOMAIN outbox' = 1..(l + 1) /\ DOMAIN outbox = 1..l
  BY <1>1, <1>7, <1>18, <1>19, Appended DEF TypeOK
<1>23. TypeOK'
  BY <1>1, <1>2, <1>20, <1>21, <1>22 DEF TypeOK, Bounds
<1>24. sessions \in Seq(SessionRows) /\ requests \in Seq(RequestRows) /\ events \in Seq(EventRows) /\ Len(sessions) \in Nat
  BY <1>1, Tables DEF TypeOK
<1>25. Grows
  <2>1. Extends(sessions, sessions') /\ Extends(events, events') /\ Extends(requests, requests')
    BY <1>2, <1>24, SameTable
  <2>2. Extends(receipts, receipts') /\ Extends(inputs, inputs')
    BY <1>6, <1>8, <1>20, <1>21 DEF Extends
  <2>3. \A i \in 1..Len(sessions') : ~(i > Len(sessions))
    BY <1>2, <1>24
  <2>4. recovery <= recovery' /\ Len(outbox) <= Len(outbox')
    BY <1>2, <1>7, <1>11, <1>22
  <2>5. \A c \in 1..Len(outbox) : SameEvent(outbox[c], outbox'[c])
    BY <1>7, <1>22, SameRow
  <2>6. \A u \in Names : Extends(versions[u], versions'[u])
    <3> SUFFICES ASSUME NEW u \in Names PROVE Extends(versions[u], versions'[u])
      OBVIOUS
    <3>1. versions[u] \in Seq(VersionRows)
      BY <1>1, TaskTables
    <3> QED BY <1>2, <3>1, SameTable
  <2>7. \A j \in 1..Len(receipts') : j > Len(receipts) =>
          /\ receipts'[j].event = 0 \/ receipts'[j].event > Len(events)
          /\ receipts'[j].task \in Names /\ receipts'[j].kind # "task.runtime-input" =>
               receipts'[j].revision > Len(versions[receipts'[j].task])
    <3> SUFFICES ASSUME NEW j \in 1..Len(receipts'), j > Len(receipts)
                 PROVE  receipts'[j].event = 0 /\ receipts'[j].kind = "task.runtime-input"
      OBVIOUS
    <3>1. j = n + 2
      BY <1>8, <1>21
    <3> QED BY <1>16, <1>21, <3>1
  <2>8. \A c \in 1..Len(outbox') : c > Len(outbox) => outbox'[c].type \notin VersionTypes
    <3> SUFFICES ASSUME NEW c \in 1..Len(outbox'), c > Len(outbox) PROVE outbox'[c].type = "task.input_committed"
      BY DEF VersionTypes
    <3>1. c = l + 1
      BY <1>7, <1>22
    <3> QED BY <1>18, <1>22, <3>1
  <2> QED BY <1>1, <1>2, <2>1, <2>2, <2>3, <2>4, <2>5, <2>6, <2>7, <2>8, RunsExtend DEF Grows
<1>26. SessionsValid'
  BY <1>2, <1>23, <1>25, SessionsSame
<1>27. AttemptsValid' /\ VersionsKept'
  <2>1. Succeeds(Owner', Owner)
    BY <1>2 DEF Owner, Succeeds
  <2> QED BY <1>2, <1>23, <1>25, <2>1, VersionsSame
<1>28. \A j \in 1..Len(receipts') : j > Len(receipts) => receipts'[j] = r
  <2> SUFFICES ASSUME NEW j \in 1..Len(receipts'), j > Len(receipts) PROVE j = n + 2
    BY <1>21
  <2> QED BY <1>8, <1>21
<1>29. CommandsValid'
  <2>1. \A u \in Names : \A j \in Commands(u)' : ~(j > Len(receipts))
    <3> SUFFICES ASSUME NEW u \in Names, NEW j \in Commands(u)', j > Len(receipts) PROVE FALSE
      OBVIOUS
    <3>1. j \in 1..Len(receipts') /\ receipts'[j].kind # "task.runtime-input"
      BY <1>21 DEF Commands
    <3> QED BY <1>16, <1>28, <3>1
  <2> QED BY <1>2, <1>23, <1>25, <2>1, CommandsGrow
<1>30. NewInput(n + 1)' /\ Match(n + 1, n + 2)' /\ inputs'[n + 1].ordinal \in 1..(n + 1)
  <2>1. Received(t, a, n, m, row)
    BY <1>4, <1>6, <1>9, <1>13, <1>20 DEF Received
  <2>2. InputKept(n + 1)'
    <3>1. PICK k \in Nat : k = n + 1
      OBVIOUS
    <3>2. inputs'[k] = row /\ receipts'[k + 1] = r
      BY <1>20, <1>21, <3>1
    <3>3. InputKept(k)'
      BY SMTT(30), <1>2, <1>3, <1>4, <1>5, <1>13, <1>16, <3>2 DEF InputKept
    <3> QED BY <3>1, <3>3
  <2> QED BY <1>3, <1>13, <1>16, <1>20, <1>21, <1>23, <1>25, <2>1, <2>2, RecordedInput
<1>31. receipts'[n + 2].cursor > Len(outbox)
  BY <1>7, <1>16, <1>21
<1>32. InputsValid'
  BY <1>3, <1>6, <1>20, <1>21, <1>23, <1>25, <1>27, <1>30, <1>31, InputsGrow
<1>33. ReceiptsValid'
  <2>1. ReceiptValid(r)'
    BY <1>1, <1>16, <1>18, <1>22 DEF ReceiptValid
  <2> QED BY <1>23, <1>25, <1>28, <2>1, ReceiptsGrow
<1>34. ReceiptsKept'
  <2>1. NewReceipt(n + 2)'
    <3>1. r.event <= Len(events')
      BY <1>1, <1>2, <1>16, Tables
    <3> QED BY <1>2, <1>4, <1>16, <1>21, <3>1 DEF NewReceipt
  <2> QED BY <1>3, <1>6, <1>20, <1>21, <1>23, <1>25, <1>30, <1>31, <2>1, ReceiptsGrowBy
<1>35. RunsValid' /\ RunsKept'
  BY <1>2, <1>23, <1>25, RunsSame
<1>36. EventsValid' /\ RequestsValid' /\ MessagesKept'
  BY <1>2, <1>16, <1>23, <1>25, <1>28, MessagesSame
<1>37. OutboxKept' /\ HeadAt(t, l + 1)' = v
  <2>1. NewEvents
    <3> SUFFICES ASSUME NEW c \in 1..Len(outbox'), c > Len(outbox)
                 PROVE  /\ outbox'[c].type \in (SessionEvents \cup EventTypes) \ VersionTypes
                        /\ (outbox'[c].of = Session) = (outbox'[c].type \in SessionEvents)
      BY DEF NewEvents
    <3>1. outbox'[c] = event
      BY <1>7, <1>22
    <3> QED BY <1>1, <1>18, <3>1 DEF SessionEvents, VersionTypes, EventTypes
  <2>2. \A c \in Consumers : consumers'[c] <= Len(outbox')
    <3>1. \A c \in Consumers : consumers[c] <= l /\ consumers[c] \in Nat
      BY <1>1, <1>7 DEF OutboxKept, TypeOK
    <3> QED BY <1>2, <1>22, <3>1
  <2>3. l + 1 \in 0..Len(outbox') /\ l + 1 >= Len(outbox)
    BY <1>7, <1>22
  <2> QED BY <1>2, <1>4, <1>23, <1>25, <2>1, <2>2, <2>3, OutboxSame
<1>38. OutboxValid'
  <2>1. PublishKept'
    BY <1>2, <1>7, <1>18, <1>22, <1>23, PublishGrows
  <2>2. ASSUME NEW c \in 1..Len(outbox'), c > Len(outbox) PROVE EventValid(c)'
    <3>1. c = l + 1 /\ outbox'[c] = event
      BY <1>7, <1>22, <2>2
    <3>2. Authority(outbox[c].recovery, c)' # {} /\ AuthorityAt(c)' = Owner
      <4>1. Owner' = Owner /\ sessions' # <<>>
        BY <1>2, <1>3 DEF Owner
      <4>2. Owner.recovery = recovery /\ Owner.cursor \in 0..l
        BY <1>3, <1>7, OwnerNow
      <4>3. Owner'.recovery <= outbox'[c].recovery /\ Owner'.cursor < c
        BY <1>11, <1>18, <3>1, <4>1, <4>2
      <4> QED BY <1>23, <4>1, <4>3, InForceAfter DEF LastInForce
    <3>3. InputEventValid(c)'
      <4>1. PICK i \in DOMAIN inputs' : i = n + 1
        BY <1>20
      <4>2. PICK j \in DOMAIN receipts' : j = n + 2
        BY <1>21
      <4>3. Match(i, j)'
        BY <1>30, <4>1, <4>2
      <4>4. inputs'[i] = row /\ receipts'[j] = r
        BY <1>20, <1>21, <4>1, <4>2
      <4> QED BY <1>13, <1>16, <1>18, <3>1, <4>3, <4>4 DEF InputEventValid
    <3>4. TaskEvent(c)'
      BY <1>18, <3>1, <3>3 DEF TaskEvent, VersionTypes
    <3>5. TaskEventOK(c)'
      <4>1. outbox'[c].revision \in DOMAIN versions'[outbox'[c].of]
            /\ versions'[outbox'[c].of][outbox'[c].revision].epoch = outbox'[c].epoch
        BY <1>2, <1>3, <1>4, <1>18, <3>1
      <4>2. AuthorityAt(c)'.epoch = outbox'[c].epoch /\ AuthorityAt(c)'.recovery = outbox'[c].recovery
            /\ AuthorityAt(c)'.authorized
        BY <1>3, <1>18, <3>1, <3>2, OwnerNow
      <4>3. HeadAt(outbox[c].of, c)' = outbox'[c].revision
        <5>1. HeadAt(t, c)' = v
          BY <1>37, <3>1
        <5>2. outbox'[c].of = t /\ outbox'[c].revision = v
          BY <1>18, <3>1
        <5> QED BY <5>1, <5>2
      <4> QED BY <3>2, <3>4, <4>1, <4>2, <4>3 DEF TaskEventOK
    <3>6. TaskEventValid(c)'
      <4>1. outbox'[c].type \in EventTypes
        BY <1>18, <3>1 DEF EventTypes
      <4> QED BY <3>5, <4>1, TaskEventIffAfter
    <3> QED BY <1>18, <3>1, <3>6 DEF EventValid, SessionEvents
  <2>3. \A u \in Names : \A i \in 1..Len(versions'[u]) : ~(i > Len(versions[u]))
    <3> SUFFICES ASSUME NEW u \in Names, NEW i \in 1..Len(versions'[u]) PROVE ~(i > Len(versions[u]))
      OBVIOUS
    <3>1. versions'[u] = versions[u] /\ Len(versions[u]) \in Nat
      BY <1>1, <1>2, TaskTables
    <3> QED BY <3>1
  <2>4. \A u \in Names, k \in AttemptNumbers : \A i \in 1..Len(runs'[u][k]) : ~(i > Len(runs[u][k]))
    <3> SUFFICES ASSUME NEW u \in Names, NEW k \in AttemptNumbers, NEW i \in 1..Len(runs'[u][k])
                 PROVE  ~(i > Len(runs[u][k]))
      OBVIOUS
    <3>1. runs'[u][k] = runs[u][k] /\ Len(runs[u][k]) \in Nat
      BY <1>1, <1>2, RunTables
    <3> QED BY <3>1
  <2>5. ASSUME NEW i \in 1..Len(inputs'), i > Len(inputs)
        PROVE  \E w \in {inputs'[i]} : InputAnnounced(w.task, w.attempt, w.ordinal)'
    <3>1. inputs'[i] = row
      <4>1. i = n + 1
        BY <1>6, <1>20, <2>5
      <4> QED BY <1>20, <4>1
    <3>2. PICK u \in Names, k \in AttemptNumbers, o \in Nat : u = row.task /\ k = row.attempt /\ o = row.ordinal
      BY <1>10, <1>13
    <3>3. l + 1 \in 1..Len(outbox')
      BY <1>22
    <3>4. InputAnnounced(u, k, o)'
      BY <1>13, <1>18, <1>22, <3>2, <3>3 DEF InputAnnounced
    <3> QED BY <3>1, <3>2, <3>4
  <2> QED BY <1>23, <1>25, <2>1, <2>2, <2>3, <2>4, <2>5, OutboxGrow
<1>39. Opened'
  BY <1>2, <1>3 DEF Opened
<1> QED BY <1>23, <1>26, <1>27, <1>29, <1>32, <1>33, <1>34, <1>35, <1>36, <1>37, <1>38, <1>39, Preserved

=============================================================================
