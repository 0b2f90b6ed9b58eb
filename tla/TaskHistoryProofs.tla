-------------------------- MODULE TaskHistoryProofs --------------------------
(***************************************************************************)
(* What TaskHistory promises of every task, for every number of attempts,  *)
(* outcomes, criteria and actions.  The inductive invariant is Sound: the  *)
(* type, what assertTask demands, and a fact no line of the code states    *)
(* but all of it relies on, that an attempt has outcomes only once it is   *)
(* terminal.                                                               *)
(*                                                                         *)
(* At the end, the observation ledger that MCTaskHistory puts beside it:   *)
(* for every set of events, every batch and every size of a page.          *)
(***************************************************************************)
EXTENDS MCTaskHistory, Pages, Integers, FiniteSetTheorems, TLAPS

-----------------------------------------------------------------------------
(* A page: FirstOf holds the first of the positions in order, whatever the positions and   *)
(* the limit.  That there is one is shown by induction over the limit, which rests on the  *)
(* finite sets: smaller numbers have fewer below them.                                     *)

\* Every nonempty set of numbers has a least one, because smaller numbers have fewer below them.
LEMMA LeastNatural ==
  ASSUME NEW T, T \subseteq Nat, T # {}
  PROVE  \E n \in T : \A m \in T : n <= m
<1> DEFINE U == {0..(n - 1) : n \in T}
<1>1. U \subseteq FiniteSubsetsOf(Nat) /\ U # {}
  <2>1. ASSUME NEW n \in T PROVE 0..(n - 1) \in SUBSET Nat /\ IsFiniteSet(0..(n - 1))
    <3>1. n - 1 \in Int /\ 0 \in Int
      OBVIOUS
    <3> QED BY <3>1, FS_Interval
  <2> QED BY <2>1 DEF FiniteSubsetsOf
<1>2. PICK x \in U : \A y \in U : ~(<<y, x>> \in StrictSubsetOrdering(Nat))
  <2> HIDE DEF U
  <2> QED BY <1>1, FS_StrictSubsetOrderingWellFounded, WFMin
<1>3. PICK n \in T : x = 0..(n - 1)
  OBVIOUS
<1>4. ASSUME NEW m \in T, m < n PROVE FALSE
  <2>1. 0..(m - 1) \in U
    OBVIOUS
  <2>2. 0..(m - 1) \in SUBSET Nat /\ x \in SUBSET Nat /\ 0..(m - 1) \subseteq x
    BY <1>3, <1>4
  <2>3. m \in x /\ m \notin 0..(m - 1)
    BY <1>3, <1>4
  <2>4. <<0..(m - 1), x>> \in StrictSubsetOrdering(Nat)
    BY <2>2, <2>3 DEF StrictSubsetOrdering
  <2> QED BY <1>2, <2>1, <2>4
<1> QED BY <1>4

\* An invariant of the numbers: what holds of the first and of the next of each, holds of all.
LEMMA Reached ==
  ASSUME NEW T, 0 \in T, \A n \in Nat : n \in T => n + 1 \in T
  PROVE  Nat \subseteq T
<1> SUFFICES ASSUME Nat \ T # {} PROVE FALSE
  OBVIOUS
<1>1. PICK n \in Nat \ T : \A m \in Nat \ T : n <= m
  BY LeastNatural
<1>2. n # 0 /\ n - 1 \in Nat /\ n - 1 \in T
  BY <1>1
<1> QED BY <1>1, <1>2

\* There is such a page: a row is added to the one before it.
LEMMA PageExists ==
  ASSUME NEW positions, positions \subseteq Nat, NEW limit \in Nat
  PROVE  \E page \in UNION {[1..n -> positions] : n \in 0..limit} :
           Ascending(page) /\ Covers(page, positions, limit)
<1> DEFINE Is(page, l) == /\ page \in Seq(positions) /\ Len(page) <= l
                          /\ Ascending(page) /\ Covers(page, positions, l)
           T == {l \in Nat : \E page : Is(page, l)}
<1>1. 0 \in T
  <2>1. Is(<<>>, 0)
    BY DEF Ascending, Covers
  <2> QED BY <2>1
<1>2. ASSUME NEW l \in Nat, l \in T PROVE l + 1 \in T
  <2>1. PICK page : Is(page, l)
    BY <1>2
  <2>2. /\ page \in Seq(positions) /\ Len(page) \in Nat /\ DOMAIN page = 1..Len(page)
        /\ \A i \in 1..Len(page) : page[i] \in positions
    BY <2>1
  <2>3. CASE positions \subseteq On(page)
    <3>1. Covers(page, positions, l + 1)
      BY <2>3 DEF Covers
    <3>2. Len(page) <= l + 1
      BY <2>1, <2>2
    <3>3. Is(page, l + 1)
      BY <2>1, <3>1, <3>2
    <3> QED BY <3>3
  <2>4. CASE ~(positions \subseteq On(page))
    <3>1. PICK k \in positions \ On(page) : \A j \in positions \ On(page) : k <= j
      <4>1. positions \ On(page) # {} /\ positions \ On(page) \subseteq Nat
        BY <2>4
      <4> QED BY <4>1, LeastNatural
    <3>2. Len(page) = l /\ \A i \in DOMAIN page : page[i] < k
      BY <2>1, <3>1 DEF Covers
    <3>3. PICK new : new = Append(page, k)
      OBVIOUS
    <3>4. /\ new \in Seq(positions) /\ Len(new) = l + 1 /\ new[l + 1] = k
          /\ DOMAIN new = 1..(l + 1) /\ \A i \in 1..l : new[i] = page[i]
      BY <2>2, <3>1, <3>2, <3>3
    <3>5. Ascending(new)
      <4>1. ASSUME NEW i \in 1..(l + 1), NEW j \in 1..(l + 1), i < j PROVE new[i] < new[j]
        <5>1. i \in 1..l /\ (j \in 1..l \/ j = l + 1)
          BY <4>1
        <5> QED BY <2>1, <2>2, <3>2, <3>4, <4>1, <5>1 DEF Ascending
      <4> QED BY <3>4, <4>1 DEF Ascending
    <3>6. Covers(new, positions, l + 1)
      <4>1. On(page) \subseteq On(new) /\ k \in On(new)
        BY <2>2, <3>2, <3>4 DEF On
      <4>2. ASSUME NEW j \in positions \ On(new)
            PROVE  Len(new) = l + 1 /\ \A i \in DOMAIN new : new[i] < j
        <5>1. j \in positions \ On(page) /\ j # k /\ j \in Nat /\ k \in Nat
          BY <4>1, <4>2
        <5>2. k < j
          BY <3>1, <5>1
        <5>3. \A i \in 1..l : page[i] < j
          BY <2>1, <2>2, <3>2, <5>1 DEF Covers
        <5> QED BY <3>4, <5>2, <5>3
      <4> QED BY <4>2 DEF Covers
    <3> QED BY <3>4, <3>5, <3>6
  <2> QED BY <2>3, <2>4
<1> HIDE DEF T
<1>3. limit \in T
  BY <1>1, <1>2, Reached
<1> USE DEF T
<1>4. PICK page : Is(page, limit)
  BY <1>3
<1>5. page \in [1..Len(page) -> positions] /\ Len(page) \in 0..limit
  BY <1>4
<1> QED BY <1>4, <1>5

\* A query with a limit has an answer: the first of the positions, in order, no more than the limit,
\* and fewer only if these are all (the rows readSession and replay return).
LEMMA PageIs ==
  ASSUME NEW positions, positions \subseteq Nat, NEW limit \in Nat,
         NEW page, page = FirstOf(positions, limit)
  PROVE  /\ page \in Seq(positions) /\ Len(page) <= limit
         /\ Ascending(page) /\ Covers(page, positions, limit)
<1>1. page \in UNION {[1..n -> positions] : n \in 0..limit} /\ Ascending(page)
      /\ Covers(page, positions, limit)
  BY PageExists DEF FirstOf
<1>2. PICK n \in 0..limit : page \in [1..n -> positions]
  BY <1>1
<1>3. page \in Seq(positions) /\ Len(page) = n
  BY <1>2
<1> QED BY <1>1, <1>2, <1>3

-----------------------------------------------------------------------------
(* One attempt: each rule keeps it sound, given the rule's guard.          *)

\* An attempt without outcomes has a history every rule accepts.
LEMMA EmptyHistory ==
  ASSUME NEW a, a.outcomes = <<>>
  PROVE  OutcomeHistoryOK(a)
  BY DEF OutcomeHistoryOK

\* Only a terminal attempt has outcomes.
LEMMA NoOutcomes ==
  ASSUME NEW a, SoundAttempt(a), ~IsTerminal(a)
  PROVE  a.outcomes = <<>>
  BY DEF SoundAttempt, Attempts

\* Every rule but the two that record an outcome: the attempt was not terminal,
\* keeps its (empty) outcomes, and its control fields agree with its new state.
LEMMA MoveIsSound ==
  ASSUME NEW a, SoundAttempt(a), ~IsTerminal(a),
         NEW b \in Attempts, b.outcomes = a.outcomes,
         b.state \notin TerminalStates \ {"CANCELLED"},
         b.pauseRequested => b.state = "RUNNING",
         b.cancellationRequested =>
           b.state \in {"CANCELLING", "NEEDS_RECONCILIATION", "VERIFYING", "CANCELLED"},
         b.state \in {"CANCELLING", "CANCELLED"} => b.cancellationRequested,
         b.state = "CANCELLED" => b.completeness = "complete",
         b.state = "VERIFYING" => b.completeness # "not-settled",
         b.state \in UnsettledStates => b.completeness = "not-settled",
         DistinctIds(b.unresolved),
         b.unresolved # {} => b.state \in {"CANCELLING", "NEEDS_RECONCILIATION"},
         b.state = "NEEDS_RECONCILIATION" => b.unresolved # {} /\ b.completeness = "incomplete"
  PROVE  SoundAttempt(b)
<1>1. b.outcomes = <<>> /\ Len(b.outcomes) = 0
  BY NoOutcomes
<1>2. OutcomeHistoryOK(b)
  BY <1>1, EmptyHistory
<1>3. AttemptOK(b)
  BY <1>1, <1>2 DEF AttemptOK, IsTerminal, TerminalStates
<1>. QED
  BY <1>1, <1>3 DEF SoundAttempt

\* prepare, wait-input, wait-approval, continue and start.
LEMMA MoveToIsSound ==
  ASSUME NEW a,
         SoundAttempt(a),
         NEW s \in {"READY", "RUNNING", "WAITING_INPUT", "WAITING_APPROVAL"},
         a.state \in {"CREATED", "READY", "WAITING_INPUT", "WAITING_APPROVAL"}
  PROVE  SoundAttempt(MoveTo(a, s))
<1> DEFINE b == MoveTo(a, s)
<1>1. b \in Attempts
  BY DEF SoundAttempt, Attempts, MoveTo, TaskStates, UnsettledStates
<1>2. /\ b.state = s
      /\ b.outcomes = a.outcomes
      /\ b.pauseRequested = a.pauseRequested
      /\ b.cancellationRequested = a.cancellationRequested
      /\ b.completeness = a.completeness
      /\ b.unresolved = a.unresolved
  BY DEF SoundAttempt, Attempts, MoveTo
<1>. HIDE DEF b
<1>3. SoundAttempt(b)
  BY <1>1, <1>2, MoveIsSound DEF SoundAttempt, AttemptOK, IsTerminal, TerminalStates, UnsettledStates
<1>. QED
  BY <1>3 DEF b

\* settled: a running attempt that settles is one to verify.
LEMMA SettleIsSound ==
  ASSUME NEW a,
         SoundAttempt(a),
         a.state = "RUNNING",
         NEW c \in {"complete", "incomplete"}
  PROVE  SoundAttempt(Settle(a, c))
<1> DEFINE b == Settle(a, c)
<1>1. b \in Attempts
  BY DEF SoundAttempt, Attempts, Settle, TaskStates, Completeness
<1>2. /\ b.state = "VERIFYING"
      /\ b.outcomes = a.outcomes
      /\ b.pauseRequested = FALSE
      /\ b.cancellationRequested = a.cancellationRequested
      /\ b.completeness = c
      /\ b.unresolved = a.unresolved
  BY DEF SoundAttempt, Attempts, Settle
<1>. HIDE DEF b
<1>3. SoundAttempt(b)
  BY <1>1, <1>2, MoveIsSound DEF SoundAttempt, AttemptOK, IsTerminal, TerminalStates, UnsettledStates
<1>. QED
  BY <1>3 DEF b

\* request-pause: a running attempt may be asked to pause.
LEMMA RequestPauseIsSound ==
  ASSUME NEW a,
         SoundAttempt(a),
         a.state = "RUNNING"
  PROVE  SoundAttempt(RequestPause(a))
<1> DEFINE b == RequestPause(a)
<1>1. b \in Attempts
  BY DEF SoundAttempt, Attempts, RequestPause
<1>2. /\ b.state = a.state
      /\ b.outcomes = a.outcomes
      /\ b.pauseRequested = TRUE
      /\ b.cancellationRequested = a.cancellationRequested
      /\ b.completeness = a.completeness
      /\ b.unresolved = a.unresolved
  BY DEF SoundAttempt, Attempts, RequestPause
<1>. HIDE DEF b
<1>3. SoundAttempt(b)
  BY <1>1, <1>2, MoveIsSound DEF SoundAttempt, AttemptOK, IsTerminal, TerminalStates, UnsettledStates
<1>. QED
  BY <1>3 DEF b

\* confirm-pause: the pause is taken and its request dropped.
LEMMA ConfirmPauseIsSound ==
  ASSUME NEW a,
         SoundAttempt(a),
         a.state = "RUNNING"
  PROVE  SoundAttempt(ConfirmPause(a))
<1> DEFINE b == ConfirmPause(a)
<1>1. b \in Attempts
  BY DEF SoundAttempt, Attempts, ConfirmPause, TaskStates, UnsettledStates
<1>2. /\ b.state = "PAUSED"
      /\ b.outcomes = a.outcomes
      /\ b.pauseRequested = FALSE
      /\ b.cancellationRequested = a.cancellationRequested
      /\ b.completeness = a.completeness
      /\ b.unresolved = a.unresolved
  BY DEF SoundAttempt, Attempts, ConfirmPause
<1>. HIDE DEF b
<1>3. SoundAttempt(b)
  BY <1>1, <1>2, MoveIsSound DEF SoundAttempt, AttemptOK, IsTerminal, TerminalStates, UnsettledStates
<1>. QED
  BY <1>3 DEF b

\* cancel: any attempt that has not ended may be asked to stop.
LEMMA RequestCancelIsSound ==
  ASSUME NEW a,
         SoundAttempt(a),
         ~IsTerminal(a)
  PROVE  SoundAttempt(RequestCancel(a))
<1> DEFINE b == RequestCancel(a)
<1>1. b \in Attempts
  BY DEF SoundAttempt, Attempts, RequestCancel, TaskStates
<1>2. /\ b.state = "CANCELLING"
      /\ b.outcomes = a.outcomes
      /\ b.pauseRequested = FALSE
      /\ b.cancellationRequested = TRUE
      /\ b.completeness = a.completeness
      /\ b.unresolved = a.unresolved
  BY DEF SoundAttempt, Attempts, RequestCancel
<1>. HIDE DEF b
<1>3. SoundAttempt(b)
  BY <1>1, <1>2, MoveIsSound DEF SoundAttempt, AttemptOK, IsTerminal, TerminalStates, UnsettledStates
<1>. QED
  BY <1>3 DEF b

\* confirm-stop: cancelled without unknown effects, to be reconciled with them.
LEMMA ConfirmStopIsSound ==
  ASSUME NEW a,
         SoundAttempt(a),
         a.state = "CANCELLING",
         NEW refs \in SUBSET EvidenceRefs,
         DistinctIds(refs)
  PROVE  SoundAttempt(ConfirmStop(a, refs))
<1> DEFINE b == ConfirmStop(a, refs)
<1>1. b \in Attempts
  BY DEF SoundAttempt, Attempts, ConfirmStop, TaskStates, TerminalStates, Completeness
<1>2. /\ b.state = IF refs = {} THEN "CANCELLED" ELSE "NEEDS_RECONCILIATION"
      /\ b.outcomes = a.outcomes
      /\ b.pauseRequested = a.pauseRequested
      /\ b.cancellationRequested = a.cancellationRequested
      /\ b.completeness = IF refs = {} THEN "complete" ELSE "incomplete"
      /\ b.unresolved = refs
  BY DEF SoundAttempt, Attempts, ConfirmStop
<1>. HIDE DEF b
<1>3. SoundAttempt(b)
  BY <1>1, <1>2, MoveIsSound DEF SoundAttempt, AttemptOK, IsTerminal, TerminalStates, UnsettledStates
<1>. QED
  BY <1>3 DEF b

\* effects-unknown: the references collected so far keep distinct identities.
LEMMA EffectsUnknownIsSound ==
  ASSUME NEW a, SoundAttempt(a), a.state \in {"RUNNING", "CANCELLING"},
         NEW refs \in SUBSET EvidenceRefs, DistinctIds(refs), refs # {},
         \A r \in refs, u \in a.unresolved : u.id = r.id => u.revision = r.revision
  PROVE  SoundAttempt(EffectsUnknown(a, refs))
<1> DEFINE b == EffectsUnknown(a, refs)
           all == a.unresolved \cup {r \in refs : \A u \in a.unresolved : u.id # r.id}
<1>1. all \in SUBSET EvidenceRefs /\ DistinctIds(all) /\ all # {}
  BY DEF DistinctIds, SoundAttempt, AttemptOK, Attempts
<1>2. b = [a EXCEPT !.state = "NEEDS_RECONCILIATION", !.completeness = "incomplete",
                    !.pauseRequested = FALSE, !.unresolved = all]
  BY DEF EffectsUnknown, SoundAttempt, Attempts
<1>. HIDE DEF all, b
<1>3. b \in Attempts
  BY <1>1, <1>2 DEF SoundAttempt, Attempts, TaskStates, Completeness
<1>4. /\ b.state = "NEEDS_RECONCILIATION" /\ b.completeness = "incomplete"
      /\ b.pauseRequested = FALSE /\ b.unresolved = all /\ b.outcomes = a.outcomes
      /\ b.cancellationRequested = a.cancellationRequested
  BY <1>2 DEF SoundAttempt, Attempts
<1>5. SoundAttempt(b)
  BY <1>1, <1>3, <1>4, MoveIsSound DEF IsTerminal, TerminalStates, UnsettledStates
<1>. QED
  BY <1>5 DEF b

\* reconcile: the attempt is to be verified, with nothing unresolved.
LEMMA ReconcileIsSound ==
  ASSUME NEW a,
         SoundAttempt(a),
         a.state = "NEEDS_RECONCILIATION"
  PROVE  SoundAttempt(Reconcile(a))
<1> DEFINE b == Reconcile(a)
<1>1. b \in Attempts
  BY DEF SoundAttempt, Attempts, Reconcile, TaskStates, Completeness
<1>2. /\ b.state = "VERIFYING"
      /\ b.outcomes = a.outcomes
      /\ b.pauseRequested = FALSE
      /\ b.cancellationRequested = a.cancellationRequested
      /\ b.completeness = "complete"
      /\ b.unresolved = {}
  BY DEF SoundAttempt, Attempts, Reconcile
<1>. HIDE DEF b
<1>3. SoundAttempt(b)
  BY <1>1, <1>2, MoveIsSound DEF SoundAttempt, AttemptOK, IsTerminal, TerminalStates, UnsettledStates, DistinctIds
<1>. QED
  BY <1>3 DEF b

-----------------------------------------------------------------------------
(* Outcomes.                                                               *)

\* The checked results hold no verdict of a model.
LEMMA CheckedResultsType ==
  ASSUME NEW results \in Results
  PROVE  /\ CheckedResults(results) \in Results
         /\ \A c \in ModelAssisted : CheckedResults(results)[c] \notin {"pass", "fail"}
  BY CriteriaAssumption DEF CheckedResults, Results, ResultStatuses

\* A status is "cancelled" exactly when a cancellation was requested.
LEMMA StatusForType ==
  ASSUME NEW a, NEW results
  PROVE  /\ StatusFor(a, results) \in OutcomeStatuses
         /\ StatusFor(a, results) = "cancelled" <=> a.cancellationRequested
  BY DEF StatusFor, Classify, OutcomeStatuses

\* Each outcome status names a terminal state, and only "cancelled" and "completed" theirs.
LEMMA StateOfType ==
  /\ \A s \in OutcomeStatuses : StateOf(s) \in TerminalStates
  /\ \A s \in OutcomeStatuses : StateOf(s) = "CANCELLED" <=> s = "cancelled"
  /\ \A s \in OutcomeStatuses : StateOf(s) = "COMPLETED" <=> s = "completed"
  BY DEF StateOf, OutcomeStatuses, TerminalStates

\* A derived outcome carries the identity, revision and status the history demands.
LEMMA DeriveOutcomeType ==
  ASSUME NEW a, NEW id \in OutcomeIds, NEW n \in Nat \ {0}, NEW results \in Results
  PROVE  LET o == DeriveOutcome(a, id, n, results) IN
         /\ o \in Outcomes
         /\ o.id = id /\ o.revision = n
         /\ o.status = StatusFor(a, o.results)
         /\ \A c \in ModelAssisted : o.results[c] \notin {"pass", "fail"}
  BY CheckedResultsType, StatusForType DEF DeriveOutcome, Outcomes

\* finalize: the first outcome ends the attempt in the state it names.
LEMMA FinalizeIsSound ==
  ASSUME NEW a, SoundAttempt(a), a.state = "VERIFYING",
         NEW id \in OutcomeIds, NEW n \in Nat \ {0}, NEW results \in Results,
         CanDeriveOutcome(a, id, n)
  PROVE  LET o == DeriveOutcome(a, id, n, results) IN
         /\ SoundAttempt(Finalize(a, o))
         /\ Finalize(a, o).outcomes = <<o>>
<1> DEFINE o == DeriveOutcome(a, id, n, results)
           b == Finalize(a, o)
<1>1. o \in Outcomes /\ o.revision = n /\ o.status = StatusFor(a, o.results)
      /\ \A c \in ModelAssisted : o.results[c] \notin {"pass", "fail"}
  BY DeriveOutcomeType
<1>2. /\ StateOf(o.status) \in TerminalStates
      /\ StateOf(o.status) = "CANCELLED" <=> a.cancellationRequested
  BY <1>1, StatusForType, StateOfType
<1>3. a.outcomes = <<>> /\ n = 1
  BY NoOutcomes DEF IsTerminal, TerminalStates, CanDeriveOutcome
<1>4. /\ a.completeness # "not-settled" /\ a.pauseRequested = FALSE /\ a.unresolved = {}
      /\ a.cancellationRequested => a.completeness = "complete"
  BY DEF CanDeriveOutcome, SoundAttempt, Attempts
<1>. HIDE DEF o
<1>5. b \in Attempts
  <2>1. Append(a.outcomes, o) \in Seq(Outcomes)
    BY <1>1 DEF SoundAttempt, Attempts
  <2>2. StateOf(o.status) \in TaskStates
    BY <1>2 DEF TaskStates
  <2>. QED
    BY <2>1, <2>2 DEF SoundAttempt, Attempts, Finalize
<1>6. /\ b.state = StateOf(o.status) /\ b.outcomes = <<o>>
      /\ b.pauseRequested = a.pauseRequested /\ b.completeness = a.completeness
      /\ b.cancellationRequested = a.cancellationRequested /\ b.unresolved = a.unresolved
  BY <1>3 DEF SoundAttempt, Attempts, Finalize
<1>. HIDE DEF b
<1>7. StatusFor(b, o.results) = StatusFor(a, o.results)
  BY <1>6 DEF StatusFor
<1>8. Len(b.outcomes) = 1 /\ b.outcomes[1] = o
  BY <1>6
<1>9. OutcomeHistoryOK(b)
  <2>1. \A i \in 1..Len(b.outcomes) : b.outcomes[i] = o /\ i = 1
    BY <1>8
  <2>. QED
    BY <2>1, <1>1, <1>3, <1>4, <1>6, <1>7, <1>8 DEF OutcomeHistoryOK
<1>10. AttemptOK(b)
  BY <1>2, <1>4, <1>6, <1>8, <1>9
  DEF AttemptOK, IsTerminal, TerminalStates, UnsettledStates, DistinctIds
<1>11. SoundAttempt(b)
  BY <1>2, <1>5, <1>6, <1>10 DEF SoundAttempt, IsTerminal
<1>. QED
  BY <1>6, <1>11 DEF b, o

\* A recheck of a terminal attempt: the identity is the one it has, if it has one.
LEMMA AppendOutcomeIsSound ==
  ASSUME NEW a, SoundAttempt(a), IsTerminal(a), NEW o \in Outcomes,
         OutcomeHistoryOK(AppendOutcome(a, o))
  PROVE  /\ SoundAttempt(AppendOutcome(a, o))
         /\ AppendOutcome(a, o).outcomes = Append(a.outcomes, o)
         /\ AppendOutcome(a, o).state = a.state
<1> DEFINE b == AppendOutcome(a, o)
<1>1. b \in Attempts
  BY DEF SoundAttempt, Attempts, AppendOutcome
<1>2. /\ b.state = a.state /\ b.outcomes = Append(a.outcomes, o)
      /\ b.pauseRequested = a.pauseRequested /\ b.completeness = a.completeness
      /\ b.cancellationRequested = a.cancellationRequested /\ b.unresolved = a.unresolved
  BY DEF SoundAttempt, Attempts, AppendOutcome
<1>. HIDE DEF b
<1>3. a.outcomes \in Seq(Outcomes)
  BY DEF SoundAttempt, Attempts
<1>4. /\ Len(b.outcomes) = Len(a.outcomes) + 1
      /\ Len(a.outcomes) > 0 => b.outcomes[1] = a.outcomes[1]
  BY <1>2, <1>3
<1>5. OutcomeHistoryOK(b)
  BY DEF b
<1>6. AttemptOK(b)
  <2>1. Len(a.outcomes) \in Nat /\ Len(b.outcomes) > 0
    BY <1>3, <1>4
  <2>2. b.state # "CANCELLED" => StateOf(b.outcomes[1].status) = b.state
    BY <1>2, <1>4 DEF SoundAttempt, AttemptOK
  <2>3. AttemptOK(a)
    BY DEF SoundAttempt
  <2>. QED
    BY <1>2, <1>5, <2>1, <2>2, <2>3 DEF AttemptOK, IsTerminal, TerminalStates, UnsettledStates
<1>7. SoundAttempt(b)
  BY <1>1, <1>2, <1>6 DEF SoundAttempt, IsTerminal
<1>. QED
  BY <1>2, <1>7 DEF b

\* A new attempt starts with nothing settled, requested or unresolved.
LEMMA InitialAttemptIsSound ==
  ASSUME NEW id \in AttemptIds, NEW intent \in Intents
  PROVE  SoundAttempt(InitialAttempt(id, intent))
<1> DEFINE b == InitialAttempt(id, intent)
<1>1. b \in Attempts
  BY DEF InitialAttempt, Attempts, TaskStates, UnsettledStates, Completeness
<1>2. /\ b.state = "CREATED" /\ b.outcomes = <<>> /\ b.unresolved = {}
      /\ b.pauseRequested = FALSE /\ b.cancellationRequested = FALSE
      /\ b.completeness = "not-settled"
  BY DEF InitialAttempt
<1>3. OutcomeHistoryOK(b)
  BY <1>2, EmptyHistory
<1>. HIDE DEF b
<1>4. SoundAttempt(b)
  BY <1>1, <1>2, <1>3
  DEF SoundAttempt, AttemptOK, IsTerminal, TerminalStates, UnsettledStates, DistinctIds
<1>. QED
  BY <1>4 DEF b

-----------------------------------------------------------------------------
(* One task: replacing its last attempt, or adding one.                    *)

\* A sound task has a last attempt, and it is sound.
LEMMA LatestIsSound ==
  ASSUME NEW t, Sound(t)
  PROVE  /\ Len(t.attempts) \in Nat \ {0} /\ t.attempts \in Seq(Attempts)
         /\ Latest(t) = t.attempts[Len(t.attempts)]
         /\ SoundAttempt(Latest(t)) /\ Latest(t) \in Attempts
  BY DEF Sound, TaskOK, Tasks, Latest, SoundAttempt

\* Replacing the last attempt leaves the earlier ones where they are.
LEMMA CommitShape ==
  ASSUME NEW t, Sound(t), NEW b \in Attempts
  PROVE  LET u == Commit(t, b)  n == Len(t.attempts) IN
         /\ u \in Tasks /\ u.revision = t.revision + 1
         /\ Len(u.attempts) = n
         /\ u.attempts[n] = b
         /\ \A i \in 1..(n - 1) : u.attempts[i] = t.attempts[i]
  BY LatestIsSound DEF Commit, Sound, Tasks

\* Appending an attempt leaves the earlier ones where they are.
LEMMA CommitNewShape ==
  ASSUME NEW t, Sound(t), NEW b \in Attempts
  PROVE  LET u == CommitNew(t, b)  n == Len(t.attempts) IN
         /\ u \in Tasks /\ u.revision = t.revision + 1
         /\ Len(u.attempts) = n + 1
         /\ u.attempts[n + 1] = b
         /\ \A i \in 1..n : u.attempts[i] = t.attempts[i]
  BY LatestIsSound DEF CommitNew, Sound, Tasks

\* A sound attempt of the same identity and intent may replace the last one.
LEMMA CommitIsSound ==
  ASSUME NEW t, Sound(t), NEW b, SoundAttempt(b),
         b.id = Latest(t).id, b.intent = Latest(t).intent
  PROVE  Sound(Commit(t, b))
<1> DEFINE u == Commit(t, b)
           n == Len(t.attempts)
<1>1. /\ u \in Tasks /\ Len(u.attempts) = n /\ u.attempts[n] = b
      /\ \A i \in 1..(n - 1) : u.attempts[i] = t.attempts[i]
  BY CommitShape DEF SoundAttempt
<1>2. n \in Nat \ {0} /\ b.id = t.attempts[n].id /\ b.intent = t.attempts[n].intent
  BY LatestIsSound
<1>. HIDE DEF u, n
<1>3. \A i \in 1..n : /\ u.attempts[i].id = t.attempts[i].id
                      /\ u.attempts[i].intent = t.attempts[i].intent
  BY <1>1, <1>2
<1>4. \A i \in 1..n : SoundAttempt(u.attempts[i])
  BY <1>1, <1>2 DEF Sound, n
<1>5. TaskOK(u)
  <2>1. \A i \in 1..(n - 1) : /\ IsTerminal(u.attempts[i])
                             /\ IntentFollows(u.attempts[i + 1].intent, u.attempts[i].intent)
    <3>. SUFFICES ASSUME NEW i \in 1..(n - 1)
                  PROVE  /\ IsTerminal(u.attempts[i])
                         /\ IntentFollows(u.attempts[i + 1].intent, u.attempts[i].intent)
      OBVIOUS
    <3>1. i \in 1..n /\ i + 1 \in 1..n
      BY <1>2
    <3>2. IsTerminal(t.attempts[i]) /\ IntentFollows(t.attempts[i + 1].intent, t.attempts[i].intent)
      BY DEF Sound, TaskOK, n
    <3>. QED
      BY <1>1, <1>3, <3>1, <3>2
  <2>2. AttemptIdsUnique(u)
    BY <1>1, <1>3 DEF AttemptIdsUnique, Sound, TaskOK, n
  <2>3. Len(u.attempts) > 0 /\ \A i \in 1..Len(u.attempts) : AttemptOK(u.attempts[i])
    BY <1>1, <1>2, <1>4 DEF SoundAttempt
  <2>. QED
    BY <1>1, <2>1, <2>2, <2>3 DEF TaskOK
<1>. QED
  BY <1>1, <1>4, <1>5 DEF Sound, u

\* A sound attempt with a fresh identity may follow one that has ended.
LEMMA CommitNewIsSound ==
  ASSUME NEW t, Sound(t), IsTerminal(Latest(t)),
         NEW b, SoundAttempt(b), IntentFollows(b.intent, Latest(t).intent),
         \A i \in 1..Len(t.attempts) : t.attempts[i].id # b.id
  PROVE  Sound(CommitNew(t, b))
<1> DEFINE u == CommitNew(t, b)
           n == Len(t.attempts)
<1>1. /\ u \in Tasks /\ Len(u.attempts) = n + 1 /\ u.attempts[n + 1] = b
      /\ \A i \in 1..n : u.attempts[i] = t.attempts[i]
  BY CommitNewShape DEF SoundAttempt
<1>2. n \in Nat \ {0} /\ Latest(t) = t.attempts[n]
  BY LatestIsSound
<1>. HIDE DEF u
<1>4. \A i \in 1..(n + 1) : SoundAttempt(u.attempts[i])
  BY <1>1, <1>2 DEF Sound
<1>5. TaskOK(u)
  <2>1. \A i \in 1..n : /\ IsTerminal(u.attempts[i])
                       /\ IntentFollows(u.attempts[i + 1].intent, u.attempts[i].intent)
    <3>. SUFFICES ASSUME NEW i \in 1..n
                  PROVE  /\ IsTerminal(u.attempts[i])
                         /\ IntentFollows(u.attempts[i + 1].intent, u.attempts[i].intent)
      OBVIOUS
    <3>1. CASE i = n
      BY <1>1, <1>2, <3>1
    <3>2. CASE i # n
      <4>1. i \in 1..(n - 1) /\ i + 1 \in 1..n
        BY <1>2, <3>2
      <4>2. IsTerminal(t.attempts[i]) /\ IntentFollows(t.attempts[i + 1].intent, t.attempts[i].intent)
        BY <4>1 DEF Sound, TaskOK
      <4>. QED
        BY <1>1, <4>1, <4>2
    <3>. QED
      BY <3>1, <3>2
  <2>2. AttemptIdsUnique(u)
    <3>1. \A i, j \in 1..n : t.attempts[i].id = t.attempts[j].id => i = j
      BY DEF Sound, TaskOK, AttemptIdsUnique
    <3>2. \A i \in 1..(n + 1) : i = n + 1 \/ (i \in 1..n /\ u.attempts[i].id = t.attempts[i].id)
      BY <1>1, <1>2
    <3>3. \A i \in 1..n : u.attempts[i].id # b.id
      BY <1>1
    <3>. QED
      BY <1>1, <3>1, <3>2, <3>3 DEF AttemptIdsUnique
  <2>3. Len(u.attempts) > 0 /\ \A i \in 1..Len(u.attempts) : AttemptOK(u.attempts[i])
    BY <1>1, <1>2, <1>4 DEF SoundAttempt
  <2>. QED
    BY <1>1, <1>2, <2>1, <2>2, <2>3 DEF TaskOK
<1>. QED
  BY <1>1, <1>4, <1>5 DEF Sound, u

\* The identities of outcomes stay apart when the last attempt keeps its own
\* identity, or takes one no earlier attempt has.
LEMMA CommitKeepsOutcomeIds ==
  ASSUME NEW t, Sound(t), OutcomeIdsUnique(t), NEW b \in Attempts,
         \/ Len(b.outcomes) = 0
         \/ Len(Latest(t).outcomes) > 0 /\ b.outcomes[1].id = Latest(t).outcomes[1].id
         \/ \A i \in 1..(Len(t.attempts) - 1) :
              Len(t.attempts[i].outcomes) > 0 => t.attempts[i].outcomes[1].id # b.outcomes[1].id
  PROVE  OutcomeIdsUnique(Commit(t, b))
<1> DEFINE u == Commit(t, b)
           n == Len(t.attempts)
<1>1. /\ Len(u.attempts) = n /\ u.attempts[n] = b
      /\ \A i \in 1..(n - 1) : u.attempts[i] = t.attempts[i]
  BY CommitShape
<1>2. n \in Nat \ {0} /\ Latest(t) = t.attempts[n]
  BY LatestIsSound
<1>. HIDE DEF u, n
<1>3. \A i \in 1..n : i = n \/ u.attempts[i] = t.attempts[i]
  BY <1>1, <1>2
<1>4. \A i \in 1..n : i = n \/ i \in 1..(n - 1)
  BY <1>2
<1>5. \A i, j \in 1..n :
        /\ Len(t.attempts[i].outcomes) > 0 /\ Len(t.attempts[j].outcomes) > 0
        /\ t.attempts[i].outcomes[1].id = t.attempts[j].outcomes[1].id
        => i = j
  BY DEF OutcomeIdsUnique, n
<1>6. n \in 1..n
  BY <1>2
<1>7. \A i \in 1..n : Len(u.attempts[i].outcomes) > 0 /\ Len(b.outcomes) > 0
                      /\ u.attempts[i].outcomes[1].id = b.outcomes[1].id => i = n
  <2>. SUFFICES ASSUME NEW i \in 1..n, i # n,
                       Len(u.attempts[i].outcomes) > 0, Len(b.outcomes) > 0,
                       u.attempts[i].outcomes[1].id = b.outcomes[1].id
                PROVE  FALSE
    OBVIOUS
  <2>1. i \in 1..(n - 1) /\ u.attempts[i] = t.attempts[i]
    BY <1>3, <1>4
  <2>2. CASE Len(Latest(t).outcomes) > 0 /\ b.outcomes[1].id = Latest(t).outcomes[1].id
    BY <1>2, <1>5, <1>6, <2>1, <2>2
  <2>3. CASE \A k \in 1..(Len(t.attempts) - 1) :
               Len(t.attempts[k].outcomes) > 0 => t.attempts[k].outcomes[1].id # b.outcomes[1].id
    BY <2>1, <2>3 DEF n
  <2>. QED
    BY <2>2, <2>3
<1>8. \A i, j \in 1..n :
        /\ Len(u.attempts[i].outcomes) > 0 /\ Len(u.attempts[j].outcomes) > 0
        /\ u.attempts[i].outcomes[1].id = u.attempts[j].outcomes[1].id
        => i = j
  <2>. SUFFICES ASSUME NEW i \in 1..n, NEW j \in 1..n,
                       Len(u.attempts[i].outcomes) > 0, Len(u.attempts[j].outcomes) > 0,
                       u.attempts[i].outcomes[1].id = u.attempts[j].outcomes[1].id
                PROVE  i = j
    OBVIOUS
  <2>1. CASE i = n
    BY <1>1, <1>7, <2>1
  <2>2. CASE j = n
    BY <1>1, <1>7, <2>2
  <2>3. CASE i # n /\ j # n
    BY <1>3, <1>5, <2>3
  <2>. QED
    BY <2>1, <2>2, <2>3
<1>. QED
  BY <1>1, <1>8 DEF OutcomeIdsUnique, u

\* A new attempt has no outcome, so identities of outcomes stay apart.
LEMMA CommitNewKeepsOutcomeIds ==
  ASSUME NEW t, Sound(t), OutcomeIdsUnique(t), NEW b \in Attempts, Len(b.outcomes) = 0
  PROVE  OutcomeIdsUnique(CommitNew(t, b))
<1> DEFINE u == CommitNew(t, b)
           n == Len(t.attempts)
<1>1. /\ Len(u.attempts) = n + 1 /\ u.attempts[n + 1] = b
      /\ \A i \in 1..n : u.attempts[i] = t.attempts[i]
  BY CommitNewShape
<1>2. n \in Nat
  BY LatestIsSound
<1>. HIDE DEF u
<1>3. \A i \in 1..(n + 1) : Len(u.attempts[i].outcomes) > 0 => i \in 1..n
  BY <1>1, <1>2
<1>. QED
  BY <1>1, <1>3 DEF OutcomeIdsUnique, u

-----------------------------------------------------------------------------
(* One call: what it makes of the last attempt, or the attempt it adds.    *)

EffectsKept(old, new) ==
  \/ old.unresolved \subseteq new.unresolved
  \/ /\ old.state = "NEEDS_RECONCILIATION" /\ new.state = "VERIFYING"
     /\ new.unresolved = {} /\ new.completeness = "complete"

OutcomeIdApart(t, b) ==
  \/ Len(b.outcomes) = 0
  \/ Len(Latest(t).outcomes) > 0 /\ b.outcomes[1].id = Latest(t).outcomes[1].id
  \/ \A i \in 1..(Len(t.attempts) - 1) :
       Len(t.attempts[i].outcomes) > 0 => t.attempts[i].outcomes[1].id # b.outcomes[1].id

\* A rule replaced the last attempt of t by b.
Replaced(t, b) ==
  /\ SoundAttempt(b)
  /\ StoredAttemptStep(Latest(t), b)
  /\ EffectsKept(Latest(t), b)
  /\ ~ReuseOutcomeIds => OutcomeIdApart(t, b)

\* A retry or a revision added the attempt b to t.
Added(t, b) ==
  /\ IsTerminal(Latest(t))
  /\ SoundAttempt(b)
  /\ StoredNewAttempt(Latest(t), b)
  /\ \A i \in 1..Len(t.attempts) : t.attempts[i].id # b.id

\* The references the rules are offered are evidence with distinct identities.
LEMMA RefsAreEvidence == \A refs \in Refs : refs \in SUBSET EvidenceRefs /\ DistinctIds(refs)
  BY DEF Refs, EvidenceRefs

\* The moves that leave the outcomes alone.
LEMMA MoveIsReplacement ==
  ASSUME NEW t, Sound(t), ~IsTerminal(Latest(t)), NEW b, SoundAttempt(b),
         b.id = Latest(t).id, b.intent = Latest(t).intent, b.outcomes = Latest(t).outcomes,
         b.state \in AllowedMoves[Latest(t).state],
         Latest(t).cancellationRequested => b.cancellationRequested,
         Latest(t).state = "RUNNING" /\ b.state = "RUNNING"
           => ~Latest(t).pauseRequested /\ b.pauseRequested,
         EffectsKept(Latest(t), b)
  PROVE  Replaced(t, b)
<1>1. b.outcomes = <<>> /\ Len(b.outcomes) = 0 /\ Latest(t).outcomes = <<>>
  BY LatestIsSound, NoOutcomes
<1>2. IsPrefix(Latest(t).outcomes, b.outcomes)
  BY <1>1 DEF IsPrefix
<1>. QED
  BY <1>1, <1>2 DEF Replaced, StoredAttemptStep, OutcomeIdApart

\* prepare puts a sound attempt in the place of the last one.
LEMMA PrepareReplaces ==
  ASSUME Sound(task), Prepare
  PROVE  \E b : Replaced(task, b) /\ task' = Commit(task, b)
<1> DEFINE a == Current
<1> DEFINE b == MoveTo(a, "READY")
<1>1. /\ SoundAttempt(a) /\ a \in Attempts /\ a = Latest(task)
      /\ ~IsTerminal(a) /\ a.state = "CREATED"
  BY LatestIsSound DEF Prepare, Active, Current
<1>2. task' = Commit(task, b)
  BY DEF Prepare, Replace
<1>3. SoundAttempt(b)
  BY <1>1, MoveToIsSound
<1>4. /\ b.id = a.id /\ b.intent = a.intent
      /\ b.state = "READY"
      /\ b.outcomes = a.outcomes
      /\ b.pauseRequested = a.pauseRequested
      /\ b.cancellationRequested = a.cancellationRequested
      /\ b.completeness = a.completeness
      /\ b.unresolved = a.unresolved
  BY <1>1 DEF MoveTo, Attempts
<1>. HIDE DEF a, b
<1>5. b.state \in AllowedMoves[a.state]
  BY <1>1, <1>4 DEF AllowedMoves
<1>6. EffectsKept(a, b)
  BY <1>1, <1>4 DEF EffectsKept
<1>7. Replaced(task, b)
  BY <1>1, <1>3, <1>4, <1>5, <1>6, MoveIsReplacement
<1>. QED
  BY <1>2, <1>7

\* wait-input puts a sound attempt in the place of the last one.
LEMMA WaitInputReplaces ==
  ASSUME Sound(task), WaitInput
  PROVE  \E b : Replaced(task, b) /\ task' = Commit(task, b)
<1> DEFINE a == Current
<1> DEFINE b == MoveTo(a, "WAITING_INPUT")
<1>1. /\ SoundAttempt(a) /\ a \in Attempts /\ a = Latest(task)
      /\ ~IsTerminal(a) /\ a.state \in {"CREATED", "READY"}
  BY LatestIsSound DEF WaitInput, Active, Current
<1>2. task' = Commit(task, b)
  BY DEF WaitInput, Replace
<1>3. SoundAttempt(b)
  BY <1>1, MoveToIsSound
<1>4. /\ b.id = a.id /\ b.intent = a.intent
      /\ b.state = "WAITING_INPUT"
      /\ b.outcomes = a.outcomes
      /\ b.pauseRequested = a.pauseRequested
      /\ b.cancellationRequested = a.cancellationRequested
      /\ b.completeness = a.completeness
      /\ b.unresolved = a.unresolved
  BY <1>1 DEF MoveTo, Attempts
<1>. HIDE DEF a, b
<1>5. b.state \in AllowedMoves[a.state]
  BY <1>1, <1>4 DEF AllowedMoves
<1>6. EffectsKept(a, b)
  BY <1>1, <1>4 DEF EffectsKept
<1>7. Replaced(task, b)
  BY <1>1, <1>3, <1>4, <1>5, <1>6, MoveIsReplacement
<1>. QED
  BY <1>2, <1>7

\* wait-approval puts a sound attempt in the place of the last one.
LEMMA WaitApprovalReplaces ==
  ASSUME Sound(task), WaitApproval
  PROVE  \E b : Replaced(task, b) /\ task' = Commit(task, b)
<1> DEFINE a == Current
<1> DEFINE b == MoveTo(a, "WAITING_APPROVAL")
<1>1. /\ SoundAttempt(a) /\ a \in Attempts /\ a = Latest(task)
      /\ ~IsTerminal(a) /\ a.state = "READY"
  BY LatestIsSound DEF WaitApproval, Active, Current
<1>2. task' = Commit(task, b)
  BY DEF WaitApproval, Replace
<1>3. SoundAttempt(b)
  BY <1>1, MoveToIsSound
<1>4. /\ b.id = a.id /\ b.intent = a.intent
      /\ b.state = "WAITING_APPROVAL"
      /\ b.outcomes = a.outcomes
      /\ b.pauseRequested = a.pauseRequested
      /\ b.cancellationRequested = a.cancellationRequested
      /\ b.completeness = a.completeness
      /\ b.unresolved = a.unresolved
  BY <1>1 DEF MoveTo, Attempts
<1>. HIDE DEF a, b
<1>5. b.state \in AllowedMoves[a.state]
  BY <1>1, <1>4 DEF AllowedMoves
<1>6. EffectsKept(a, b)
  BY <1>1, <1>4 DEF EffectsKept
<1>7. Replaced(task, b)
  BY <1>1, <1>3, <1>4, <1>5, <1>6, MoveIsReplacement
<1>. QED
  BY <1>2, <1>7

\* continue puts a sound attempt in the place of the last one.
LEMMA ContinueReplaces ==
  ASSUME Sound(task), Continue
  PROVE  \E b : Replaced(task, b) /\ task' = Commit(task, b)
<1> DEFINE a == Current
<1> DEFINE b == MoveTo(a, "READY")
<1>1. /\ SoundAttempt(a) /\ a \in Attempts /\ a = Latest(task)
      /\ ~IsTerminal(a) /\ a.state \in {"WAITING_INPUT", "WAITING_APPROVAL"}
  BY LatestIsSound DEF Continue, Active, Current
<1>2. task' = Commit(task, b)
  BY DEF Continue, Replace
<1>3. SoundAttempt(b)
  BY <1>1, MoveToIsSound
<1>4. /\ b.id = a.id /\ b.intent = a.intent
      /\ b.state = "READY"
      /\ b.outcomes = a.outcomes
      /\ b.pauseRequested = a.pauseRequested
      /\ b.cancellationRequested = a.cancellationRequested
      /\ b.completeness = a.completeness
      /\ b.unresolved = a.unresolved
  BY <1>1 DEF MoveTo, Attempts
<1>. HIDE DEF a, b
<1>5. b.state \in AllowedMoves[a.state]
  BY <1>1, <1>4 DEF AllowedMoves
<1>6. EffectsKept(a, b)
  BY <1>1, <1>4 DEF EffectsKept
<1>7. Replaced(task, b)
  BY <1>1, <1>3, <1>4, <1>5, <1>6, MoveIsReplacement
<1>. QED
  BY <1>2, <1>7

\* start puts a sound attempt in the place of the last one.
LEMMA StartReplaces ==
  ASSUME Sound(task), Start
  PROVE  \E b : Replaced(task, b) /\ task' = Commit(task, b)
<1> DEFINE a == Current
<1> DEFINE b == MoveTo(a, "RUNNING")
<1>1. /\ SoundAttempt(a) /\ a \in Attempts /\ a = Latest(task)
      /\ ~IsTerminal(a) /\ a.state = "READY"
  BY LatestIsSound DEF Start, Active, Current
<1>2. task' = Commit(task, b)
  BY DEF Start, Replace
<1>3. SoundAttempt(b)
  BY <1>1, MoveToIsSound
<1>4. /\ b.id = a.id /\ b.intent = a.intent
      /\ b.state = "RUNNING"
      /\ b.outcomes = a.outcomes
      /\ b.pauseRequested = a.pauseRequested
      /\ b.cancellationRequested = a.cancellationRequested
      /\ b.completeness = a.completeness
      /\ b.unresolved = a.unresolved
  BY <1>1 DEF MoveTo, Attempts
<1>. HIDE DEF a, b
<1>5. b.state \in AllowedMoves[a.state]
  BY <1>1, <1>4 DEF AllowedMoves
<1>6. EffectsKept(a, b)
  BY <1>1, <1>4 DEF EffectsKept
<1>7. Replaced(task, b)
  BY <1>1, <1>3, <1>4, <1>5, <1>6, MoveIsReplacement
<1>. QED
  BY <1>2, <1>7

\* settled puts a sound attempt in the place of the last one.
LEMMA SettledReplaces ==
  ASSUME Sound(task), Settled
  PROVE  \E b : Replaced(task, b) /\ task' = Commit(task, b)
<1> DEFINE a == Current
<1>0. PICK c \in {"complete", "incomplete"} :
         task' = Commit(task, Settle(a, c))
  BY DEF Settled, Replace
<1> DEFINE b == Settle(a, c)
<1>1. /\ SoundAttempt(a) /\ a \in Attempts /\ a = Latest(task)
      /\ ~IsTerminal(a) /\ a.state = "RUNNING"
  BY LatestIsSound DEF Settled, Active, Current
<1>2. task' = Commit(task, b)
  BY <1>0
<1>3. SoundAttempt(b)
  BY <1>0, <1>1, SettleIsSound
<1>4. /\ b.id = a.id /\ b.intent = a.intent
      /\ b.state = "VERIFYING"
      /\ b.outcomes = a.outcomes
      /\ b.pauseRequested = FALSE
      /\ b.cancellationRequested = a.cancellationRequested
      /\ b.completeness = c
      /\ b.unresolved = a.unresolved
  BY <1>1 DEF Settle, Attempts
<1>. HIDE DEF a, b
<1>5. b.state \in AllowedMoves[a.state]
  BY <1>0, <1>1, <1>4 DEF AllowedMoves
<1>6. EffectsKept(a, b)
  BY <1>0, <1>1, <1>4 DEF EffectsKept
<1>7. Replaced(task, b)
  BY <1>1, <1>3, <1>4, <1>5, <1>6, MoveIsReplacement
<1>. QED
  BY <1>2, <1>7

\* request-pause puts a sound attempt in the place of the last one.
LEMMA AskPauseReplaces ==
  ASSUME Sound(task), AskPause
  PROVE  \E b : Replaced(task, b) /\ task' = Commit(task, b)
<1> DEFINE a == Current
<1> DEFINE b == RequestPause(a)
<1>1. /\ SoundAttempt(a) /\ a \in Attempts /\ a = Latest(task)
      /\ ~IsTerminal(a) /\ a.state = "RUNNING" /\ ~a.pauseRequested
  BY LatestIsSound DEF AskPause, Active, Current
<1>2. task' = Commit(task, b)
  BY DEF AskPause, Replace
<1>3. SoundAttempt(b)
  BY <1>1, RequestPauseIsSound
<1>4. /\ b.id = a.id /\ b.intent = a.intent
      /\ b.state = a.state
      /\ b.outcomes = a.outcomes
      /\ b.pauseRequested = TRUE
      /\ b.cancellationRequested = a.cancellationRequested
      /\ b.completeness = a.completeness
      /\ b.unresolved = a.unresolved
  BY <1>1 DEF RequestPause, Attempts
<1>. HIDE DEF a, b
<1>5. b.state \in AllowedMoves[a.state]
  BY <1>1, <1>4 DEF AllowedMoves
<1>6. EffectsKept(a, b)
  BY <1>1, <1>4 DEF EffectsKept
<1>7. Replaced(task, b)
  BY <1>1, <1>3, <1>4, <1>5, <1>6, MoveIsReplacement
<1>. QED
  BY <1>2, <1>7

\* confirm-pause puts a sound attempt in the place of the last one.
LEMMA PauseReplaces ==
  ASSUME Sound(task), Pause
  PROVE  \E b : Replaced(task, b) /\ task' = Commit(task, b)
<1> DEFINE a == Current
<1> DEFINE b == ConfirmPause(a)
<1>1. /\ SoundAttempt(a) /\ a \in Attempts /\ a = Latest(task)
      /\ ~IsTerminal(a) /\ a.state = "RUNNING"
  BY LatestIsSound DEF Pause, Active, Current
<1>2. task' = Commit(task, b)
  BY DEF Pause, Replace
<1>3. SoundAttempt(b)
  BY <1>1, ConfirmPauseIsSound
<1>4. /\ b.id = a.id /\ b.intent = a.intent
      /\ b.state = "PAUSED"
      /\ b.outcomes = a.outcomes
      /\ b.pauseRequested = FALSE
      /\ b.cancellationRequested = a.cancellationRequested
      /\ b.completeness = a.completeness
      /\ b.unresolved = a.unresolved
  BY <1>1 DEF ConfirmPause, Attempts
<1>. HIDE DEF a, b
<1>5. b.state \in AllowedMoves[a.state]
  BY <1>1, <1>4 DEF AllowedMoves
<1>6. EffectsKept(a, b)
  BY <1>1, <1>4 DEF EffectsKept
<1>7. Replaced(task, b)
  BY <1>1, <1>3, <1>4, <1>5, <1>6, MoveIsReplacement
<1>. QED
  BY <1>2, <1>7

\* cancel puts a sound attempt in the place of the last one.
LEMMA CancelReplaces ==
  ASSUME Sound(task), Cancel
  PROVE  \E b : Replaced(task, b) /\ task' = Commit(task, b)
<1> DEFINE a == Current
<1> DEFINE b == RequestCancel(a)
<1>1. /\ SoundAttempt(a) /\ a \in Attempts /\ a = Latest(task)
      /\ ~IsTerminal(a) /\ ~a.cancellationRequested
  BY LatestIsSound DEF Cancel, Active, Current
<1>2. task' = Commit(task, b)
  BY DEF Cancel, Replace
<1>3. SoundAttempt(b)
  BY <1>1, RequestCancelIsSound
<1>4. /\ b.id = a.id /\ b.intent = a.intent
      /\ b.state = "CANCELLING"
      /\ b.outcomes = a.outcomes
      /\ b.pauseRequested = FALSE
      /\ b.cancellationRequested = TRUE
      /\ b.completeness = a.completeness
      /\ b.unresolved = a.unresolved
  BY <1>1 DEF RequestCancel, Attempts
<1>. HIDE DEF a, b
<1>5. b.state \in AllowedMoves[a.state]
  BY <1>1, <1>4 DEF AllowedMoves, Attempts, TaskStates, UnsettledStates, TerminalStates, IsTerminal, SoundAttempt, AttemptOK
<1>6. EffectsKept(a, b)
  BY <1>1, <1>4 DEF EffectsKept
<1>7. Replaced(task, b)
  BY <1>1, <1>3, <1>4, <1>5, <1>6, MoveIsReplacement
<1>. QED
  BY <1>2, <1>7

\* confirm-stop puts a sound attempt in the place of the last one.
LEMMA StopReplaces ==
  ASSUME Sound(task), Stop
  PROVE  \E b : Replaced(task, b) /\ task' = Commit(task, b)
<1> DEFINE a == Current
<1>0. PICK refs \in Refs :
         a.unresolved \subseteq refs /\ task' = Commit(task, ConfirmStop(a, refs))
  BY DEF Stop, Replace
<1> DEFINE b == ConfirmStop(a, refs)
<1>1. /\ SoundAttempt(a) /\ a \in Attempts /\ a = Latest(task)
      /\ ~IsTerminal(a) /\ a.state = "CANCELLING"
  BY LatestIsSound DEF Stop, Active, Current
<1>2. task' = Commit(task, b)
  BY <1>0
<1>3. SoundAttempt(b)
  BY <1>0, <1>1, ConfirmStopIsSound, RefsAreEvidence
<1>4. /\ b.id = a.id /\ b.intent = a.intent
      /\ b.state = IF refs = {} THEN "CANCELLED" ELSE "NEEDS_RECONCILIATION"
      /\ b.outcomes = a.outcomes
      /\ b.pauseRequested = a.pauseRequested
      /\ b.cancellationRequested = a.cancellationRequested
      /\ b.completeness = IF refs = {} THEN "complete" ELSE "incomplete"
      /\ b.unresolved = refs
  BY <1>1 DEF ConfirmStop, Attempts
<1>. HIDE DEF a, b
<1>5. b.state \in AllowedMoves[a.state]
  BY <1>0, <1>1, <1>4 DEF AllowedMoves
<1>6. EffectsKept(a, b)
  BY <1>0, <1>1, <1>4 DEF EffectsKept
<1>7. Replaced(task, b)
  BY <1>1, <1>3, <1>4, <1>5, <1>6, MoveIsReplacement
<1>. QED
  BY <1>2, <1>7

\* effects-unknown puts a sound attempt in the place of the last one.
LEMMA LoseEffectsReplaces ==
  ASSUME Sound(task), LoseEffects
  PROVE  \E b : Replaced(task, b) /\ task' = Commit(task, b)
<1> DEFINE a == Current
<1>0. PICK refs \in Refs \ {{}} :
         (\A r \in refs, u \in a.unresolved : u.id = r.id => u.revision = r.revision) /\ task' = Commit(task, EffectsUnknown(a, refs))
  BY DEF LoseEffects, Replace
<1> DEFINE b == EffectsUnknown(a, refs)
<1>1. /\ SoundAttempt(a) /\ a \in Attempts /\ a = Latest(task)
      /\ ~IsTerminal(a) /\ a.state \in {"RUNNING", "CANCELLING"}
  BY LatestIsSound DEF LoseEffects, Active, Current
<1>2. task' = Commit(task, b)
  BY <1>0
<1>3. SoundAttempt(b)
  BY <1>0, <1>1, EffectsUnknownIsSound, RefsAreEvidence
<1>4. /\ b.id = a.id /\ b.intent = a.intent
      /\ b.state = "NEEDS_RECONCILIATION"
      /\ b.outcomes = a.outcomes
      /\ b.pauseRequested = FALSE
      /\ b.cancellationRequested = a.cancellationRequested
      /\ b.completeness = "incomplete"
      /\ b.unresolved = a.unresolved \cup {r \in refs : \A u \in a.unresolved : u.id # r.id}
  BY <1>1 DEF EffectsUnknown, Attempts
<1>. HIDE DEF a, b
<1>5. b.state \in AllowedMoves[a.state]
  BY <1>0, <1>1, <1>4 DEF AllowedMoves
<1>6. EffectsKept(a, b)
  BY <1>0, <1>1, <1>4 DEF EffectsKept
<1>7. Replaced(task, b)
  BY <1>1, <1>3, <1>4, <1>5, <1>6, MoveIsReplacement
<1>. QED
  BY <1>2, <1>7

\* reconcile puts a sound attempt in the place of the last one.
LEMMA ReconcileEffectsReplaces ==
  ASSUME Sound(task), ReconcileEffects
  PROVE  \E b : Replaced(task, b) /\ task' = Commit(task, b)
<1> DEFINE a == Current
<1> DEFINE b == Reconcile(a)
<1>1. /\ SoundAttempt(a) /\ a \in Attempts /\ a = Latest(task)
      /\ ~IsTerminal(a) /\ a.state = "NEEDS_RECONCILIATION"
  BY LatestIsSound DEF ReconcileEffects, Active, Current
<1>2. task' = Commit(task, b)
  BY DEF ReconcileEffects, Replace
<1>3. SoundAttempt(b)
  BY <1>1, ReconcileIsSound
<1>4. /\ b.id = a.id /\ b.intent = a.intent
      /\ b.state = "VERIFYING"
      /\ b.outcomes = a.outcomes
      /\ b.pauseRequested = FALSE
      /\ b.cancellationRequested = a.cancellationRequested
      /\ b.completeness = "complete"
      /\ b.unresolved = {}
  BY <1>1 DEF Reconcile, Attempts
<1>. HIDE DEF a, b
<1>5. b.state \in AllowedMoves[a.state]
  BY <1>1, <1>4 DEF AllowedMoves
<1>6. EffectsKept(a, b)
  BY <1>1, <1>4 DEF EffectsKept
<1>7. Replaced(task, b)
  BY <1>1, <1>3, <1>4, <1>5, <1>6, MoveIsReplacement
<1>. QED
  BY <1>2, <1>7

\* finalize puts a sound attempt in the place of the last one.
LEMMA FinalizeTaskReplaces ==
  ASSUME Sound(task), FinalizeTask
  PROVE  \E b : Replaced(task, b) /\ task' = Commit(task, b)
<1> DEFINE a == Current
           n == Len(a.outcomes) + 1
<1>1. PICK id \in OutcomeIds, results \in Results :
        /\ \A i \in 1..(Len(task.attempts) - 1) :
             \A k \in 1..Len(task.attempts[i].outcomes) : task.attempts[i].outcomes[k].id # id
        /\ CanDeriveOutcome(a, id, n)
        /\ task' = Commit(task, Finalize(a, DeriveOutcome(a, id, n, results)))
  BY DEF FinalizeTask, Replace
<1> DEFINE o == DeriveOutcome(a, id, n, results)
           b == Finalize(a, o)
<1>2. /\ SoundAttempt(a) /\ a \in Attempts /\ a = Latest(task)
      /\ a.state = "VERIFYING" /\ a.outcomes = <<>> /\ n = 1
  BY LatestIsSound, NoOutcomes DEF FinalizeTask, Active, Current
<1>3. /\ SoundAttempt(b) /\ b.outcomes = <<o>> /\ o \in Outcomes /\ o.id = id
      /\ StateOf(o.status) \in TerminalStates
  <2>1. n \in Nat \ {0}
    BY <1>2
  <2>0. \A k \in Nat \ {0} : /\ DeriveOutcome(a, id, k, results) \in Outcomes
                            /\ DeriveOutcome(a, id, k, results).id = id
    BY DeriveOutcomeType
  <2>2. o \in Outcomes /\ o.id = id
    BY <2>0, <2>1
  <2>3. SoundAttempt(b) /\ b.outcomes = <<o>>
    BY <1>1, <1>2, <2>1, FinalizeIsSound
  <2>4. o.status \in OutcomeStatuses
    BY <2>2 DEF Outcomes
  <2>. QED
    BY <2>2, <2>3, <2>4, StateOfType
<1>4. b = [a EXCEPT !.state = StateOf(o.status), !.outcomes = Append(@, o)]
  BY DEF Finalize
<1>. HIDE DEF a, o, b
<1>5. StoredAttemptStep(a, b)
  <2>1. IsPrefix(a.outcomes, b.outcomes) /\ Len(b.outcomes) = 1
    BY <1>2, <1>3 DEF IsPrefix
  <2>2. b.state \in AllowedMoves[a.state]
    BY <1>2, <1>3, <1>4 DEF AllowedMoves, Attempts
  <2>. QED
    BY <1>2, <1>3, <1>4, <2>1, <2>2 DEF StoredAttemptStep, Attempts, IsTerminal, TerminalStates
<1>6. OutcomeIdApart(task, b)
  <2>1. \A i \in 1..(Len(task.attempts) - 1) :
          Len(task.attempts[i].outcomes) > 0 => task.attempts[i].outcomes[1].id # id
    <3>. SUFFICES ASSUME NEW i \in 1..(Len(task.attempts) - 1),
                         Len(task.attempts[i].outcomes) > 0
                  PROVE  task.attempts[i].outcomes[1].id # id
      OBVIOUS
    <3>1. i \in 1..Len(task.attempts)
      BY LatestIsSound
    <3>2. Len(task.attempts[i].outcomes) \in Nat
      BY <3>1 DEF Sound, SoundAttempt, Attempts
    <3>. QED
      BY <1>1, <3>2
  <2>. QED
    BY <1>3, <2>1 DEF OutcomeIdApart
<1>7. EffectsKept(a, b)
  BY <1>2, <1>4 DEF EffectsKept, Attempts
<1>. QED
  BY <1>1, <1>2, <1>3, <1>5, <1>6, <1>7 DEF Replaced, a, b, o

\* A recheck puts a sound attempt in the place of the last one.
LEMMA RecheckOutcomeReplaces ==
  ASSUME Sound(task), RecheckOutcome
  PROVE  \E b : Replaced(task, b) /\ task' = Commit(task, b)
<1> DEFINE a == Current
           n == Len(a.outcomes) + 1
<1>1. PICK id \in OutcomeIds, results \in Results :
        /\ OfferedOutcomeId(id)
        /\ CanDeriveOutcome(a, id, n)
        /\ OutcomeHistoryOK(AppendOutcome(a, DeriveOutcome(a, id, n, results)))
        /\ task' = Commit(task, AppendOutcome(a, DeriveOutcome(a, id, n, results)))
  BY DEF RecheckOutcome, Replace
<1> DEFINE o == DeriveOutcome(a, id, n, results)
           b == AppendOutcome(a, o)
<1>2. /\ SoundAttempt(a) /\ a \in Attempts /\ a = Latest(task)
      /\ IsTerminal(a) /\ a.outcomes \in Seq(Outcomes)
  BY LatestIsSound DEF RecheckOutcome, Current, Attempts
<1>3. o \in Outcomes /\ o.id = id
  <2>1. n \in Nat \ {0}
    BY <1>2
  <2>2. \A k \in Nat \ {0} : /\ DeriveOutcome(a, id, k, results) \in Outcomes
                            /\ DeriveOutcome(a, id, k, results).id = id
    BY DeriveOutcomeType
  <2>. QED
    BY <2>1, <2>2
<1>4. SoundAttempt(b) /\ b.outcomes = Append(a.outcomes, o) /\ b.state = a.state
  BY <1>1, <1>2, <1>3, AppendOutcomeIsSound
<1>5. b = [a EXCEPT !.outcomes = b.outcomes]
  BY <1>2, <1>4 DEF AppendOutcome, Attempts
<1>6. \A k \in 1..Len(a.outcomes) : a.outcomes[k].id = id
  BY <1>1 DEF CanDeriveOutcome
<1>7. ~ReuseOutcomeIds /\ Len(a.outcomes) = 0 =>
        \A i \in 1..Len(task.attempts) :
          \A k \in 1..Len(task.attempts[i].outcomes) : task.attempts[i].outcomes[k].id # id
  BY <1>1, <1>2 DEF OfferedOutcomeId
<1>. HIDE DEF a, o, b
<1>8. StoredAttemptStep(a, b)
  <2>1. IsPrefix(a.outcomes, b.outcomes) /\ Len(b.outcomes) = Len(a.outcomes) + 1
    BY <1>2, <1>3, <1>4 DEF IsPrefix
  <2>2. b.id = a.id /\ b.intent = a.intent
    BY <1>2, <1>5 DEF Attempts
  <2>. QED
    BY <1>2, <1>5, <2>1, <2>2 DEF StoredAttemptStep
<1>9. ~ReuseOutcomeIds => OutcomeIdApart(task, b)
  <2>1. Len(b.outcomes) = Len(a.outcomes) + 1 /\ Len(a.outcomes) \in Nat
    BY <1>2, <1>3, <1>4
  <2>2. CASE Len(a.outcomes) > 0
    <3>1. b.outcomes[1] = a.outcomes[1]
      BY <1>2, <1>3, <1>4, <2>2
    <3>. QED
      BY <1>2, <2>2, <3>1 DEF OutcomeIdApart
  <2>3. CASE Len(a.outcomes) = 0
    <3>1. b.outcomes[1] = o
      BY <1>2, <1>3, <1>4, <2>3
    <3>2. \A i \in 1..(Len(task.attempts) - 1) :
            /\ i \in 1..Len(task.attempts)
            /\ Len(task.attempts[i].outcomes) \in Nat
      BY LatestIsSound DEF Sound, SoundAttempt, Attempts
    <3>. QED
      BY <1>3, <1>7, <2>3, <3>1, <3>2 DEF OutcomeIdApart
  <2>. QED
    BY <2>1, <2>2, <2>3
<1>10. EffectsKept(a, b)
  BY <1>2, <1>5 DEF EffectsKept, Attempts
<1>. QED
  BY <1>1, <1>2, <1>4, <1>8, <1>9, <1>10 DEF Replaced, a, b, o

\* retry adds a fresh attempt after one that has ended.
LEMMA RetryAdds ==
  ASSUME Sound(task), Retry
  PROVE  \E b : Added(task, b) /\ task' = CommitNew(task, b)
<1>1. PICK id \in AttemptIds :
        FreshAttemptId(id) /\ task' = CommitNew(task, InitialAttempt(id, Current.intent))
  BY DEF Retry
<1> DEFINE b == InitialAttempt(id, Current.intent)
<1>2. Current = Latest(task) /\ Current \in Attempts /\ IsTerminal(Current)
  BY LatestIsSound DEF Retry, CanAddAttempt, Current
<1>3. SoundAttempt(b) /\ b.id = id /\ b.intent = Current.intent
  BY <1>2, InitialAttemptIsSound DEF Attempts, InitialAttempt
<1>4. StoredNewAttempt(Current, b)
  BY <1>2, <1>3 DEF StoredNewAttempt, IntentFollows
<1>. HIDE DEF b
<1>5. Added(task, b)
  BY <1>1, <1>2, <1>3, <1>4 DEF Added, FreshAttemptId
<1>. QED
  BY <1>1, <1>5 DEF b

\* revise adds a fresh attempt after one that has ended.
LEMMA ReviseIntentAdds ==
  ASSUME Sound(task), ReviseIntent
  PROVE  \E b : Added(task, b) /\ task' = CommitNew(task, b)
<1>1. PICK id \in AttemptIds, contract \in Contracts :
        /\ FreshAttemptId(id)
        /\ task' = CommitNew(task, InitialAttempt(id,
                     [revision |-> Current.intent.revision + 1, contract |-> contract]))
  BY DEF ReviseIntent
<1> DEFINE intent == [revision |-> Current.intent.revision + 1, contract |-> contract]
           b == InitialAttempt(id, intent)
<1>2. Current = Latest(task) /\ Current \in Attempts /\ IsTerminal(Current)
  BY LatestIsSound DEF ReviseIntent, CanAddAttempt, Current
<1>3. Current.intent.revision \in Nat \ {0}
  BY <1>2 DEF Attempts, Intents
<1>4. intent \in Intents
  BY <1>3 DEF Intents
<1>5. SoundAttempt(b) /\ b.id = id /\ b.intent = intent
  BY <1>4, InitialAttemptIsSound DEF InitialAttempt
<1>6. IntentFollows(intent, Current.intent)
  BY <1>3 DEF IntentFollows
<1>7. StoredNewAttempt(Current, b)
  BY <1>2, <1>5, <1>6 DEF StoredNewAttempt
<1>. HIDE DEF b
<1>8. Added(task, b)
  BY <1>1, <1>2, <1>5, <1>7 DEF Added, FreshAttemptId
<1>. QED
  BY <1>1, <1>8 DEF b

\* Every step replaces the last attempt or adds one.
LEMMA StepIsReplacementOrAddition ==
  ASSUME Sound(task), Next
  PROVE  \/ \E b : Replaced(task, b) /\ task' = Commit(task, b)
         \/ \E b : Added(task, b) /\ task' = CommitNew(task, b)
<1>1. CASE Prepare  BY <1>1, PrepareReplaces
<1>2. CASE WaitInput  BY <1>2, WaitInputReplaces
<1>3. CASE WaitApproval  BY <1>3, WaitApprovalReplaces
<1>4. CASE Continue  BY <1>4, ContinueReplaces
<1>5. CASE Start  BY <1>5, StartReplaces
<1>6. CASE Settled  BY <1>6, SettledReplaces
<1>7. CASE AskPause  BY <1>7, AskPauseReplaces
<1>8. CASE Pause  BY <1>8, PauseReplaces
<1>9. CASE Cancel  BY <1>9, CancelReplaces
<1>10. CASE Stop  BY <1>10, StopReplaces
<1>11. CASE LoseEffects  BY <1>11, LoseEffectsReplaces
<1>12. CASE ReconcileEffects  BY <1>12, ReconcileEffectsReplaces
<1>13. CASE FinalizeTask  BY <1>13, FinalizeTaskReplaces
<1>14. CASE Retry  BY <1>14, RetryAdds
<1>15. CASE ReviseIntent  BY <1>15, ReviseIntentAdds
<1>16. CASE RecheckOutcome  BY <1>16, RecheckOutcomeReplaces
<1>. QED
  BY <1>1, <1>2, <1>3, <1>4, <1>5, <1>6, <1>7, <1>8, <1>9, <1>10, <1>11, <1>12,
     <1>13, <1>14, <1>15, <1>16 DEF Next

-----------------------------------------------------------------------------
(* One call, seen from the whole task.                                     *)

\* What the rules demand of a task is what the store demands of a version on its own.
LEMMA SoundIsStored ==
  ASSUME NEW t, Sound(t), OutcomeIdsUnique(t)
  PROVE  StoredVersionOK(t)
<1>1. \A i \in 1..(Len(t.attempts) - 1) : IsTerminal(t.attempts[i])
  BY DEF Sound, TaskOK
<1>2. ASSUME NEW i \in 1..Len(t.attempts), Len(t.attempts[i].outcomes) > 0
      PROVE  LET a == t.attempts[i] IN
             /\ IsTerminal(a)
             /\ StateOf(a.outcomes[1].status) = a.state
             /\ (a.state = "CANCELLED") <=> (Last(a.outcomes).status = "cancelled")
  <2> DEFINE a == t.attempts[i]
             k == Len(a.outcomes)
  <2>1. SoundAttempt(a) /\ a.outcomes \in Seq(Outcomes) /\ k > 0 /\ AttemptOK(a)
    BY <1>2 DEF Sound, SoundAttempt, Attempts
  <2>. HIDE DEF a
  <2>2. IsTerminal(a) /\ OutcomeHistoryOK(a) /\ k \in Nat
    BY <2>1 DEF SoundAttempt, AttemptOK
  <2>3. \A j \in 1..k : a.outcomes[j].status = StatusFor(a, a.outcomes[j].results)
    BY <2>2 DEF OutcomeHistoryOK
  <2>4. \A j \in 1..k : a.outcomes[j].status = "cancelled" <=> a.cancellationRequested
    BY <2>3, StatusForType
  <2>5. /\ StateOf(a.outcomes[1].status) = a.state
        /\ a.outcomes[1].status \in OutcomeStatuses
    BY <2>1, <2>2, <2>3, StatusForType DEF OutcomeHistoryOK
  <2>6. a.state = "CANCELLED" <=> a.cancellationRequested
    BY <2>1, <2>4, <2>5, StateOfType
  <2>. QED
    BY <2>1, <2>2, <2>4, <2>5, <2>6 DEF Last, a
<1>3. \A i \in 1..Len(t.attempts) :
        LET a == t.attempts[i] IN
        /\ Len(a.outcomes) \in Nat
        /\ IsTerminal(a) /\ a.state # "CANCELLED" => Len(a.outcomes) > 0
  BY DEF Sound, SoundAttempt, Attempts, AttemptOK
<1>. QED
  BY <1>1, <1>2, <1>3 DEF StoredVersionOK

\* A replacement is sound, and the store accepts it as the next version.
LEMMA ReplacedResult ==
  ASSUME NEW t, Sound(t), NEW b, Replaced(t, b)
  PROVE  /\ Sound(Commit(t, b))
         /\ ~ReuseOutcomeIds /\ OutcomeIdsUnique(t) => OutcomeIdsUnique(Commit(t, b))
         /\ OutcomeIdsUnique(Commit(t, b)) => HistoryExtension(t, Commit(t, b))
<1>1. SoundAttempt(b) /\ b \in Attempts /\ StoredAttemptStep(Latest(t), b)
  BY DEF Replaced, SoundAttempt
<1>2. Sound(Commit(t, b))
  BY <1>1, CommitIsSound DEF StoredAttemptStep
<1>3. ~ReuseOutcomeIds /\ OutcomeIdsUnique(t) => OutcomeIdsUnique(Commit(t, b))
  BY <1>1, CommitKeepsOutcomeIds DEF Replaced, OutcomeIdApart
<1>4. OutcomeIdsUnique(Commit(t, b)) => HistoryExtension(t, Commit(t, b))
  BY <1>1, <1>2, CommitShape, SoundIsStored, LatestIsSound DEF HistoryExtension
<1>. QED
  BY <1>2, <1>3, <1>4

\* An addition is sound, and the store accepts it as the next version.
LEMMA AddedResult ==
  ASSUME NEW t, Sound(t), NEW b, Added(t, b)
  PROVE  /\ Sound(CommitNew(t, b))
         /\ ~ReuseOutcomeIds /\ OutcomeIdsUnique(t) => OutcomeIdsUnique(CommitNew(t, b))
         /\ OutcomeIdsUnique(CommitNew(t, b)) => HistoryExtension(t, CommitNew(t, b))
<1>1. SoundAttempt(b) /\ b \in Attempts /\ StoredNewAttempt(Latest(t), b)
  BY DEF Added, SoundAttempt
<1>2. Len(b.outcomes) = 0
  BY <1>1 DEF StoredNewAttempt, InitialAttempt
<1>3. Sound(CommitNew(t, b))
  BY <1>1, CommitNewIsSound DEF Added, StoredNewAttempt
<1>4. ~ReuseOutcomeIds /\ OutcomeIdsUnique(t) => OutcomeIdsUnique(CommitNew(t, b))
  BY <1>1, <1>2, CommitNewKeepsOutcomeIds
<1>5. OutcomeIdsUnique(CommitNew(t, b)) => HistoryExtension(t, CommitNew(t, b))
  BY <1>1, <1>3, CommitNewShape, SoundIsStored, LatestIsSound DEF HistoryExtension
<1>. QED
  BY <1>3, <1>4, <1>5
-----------------------------------------------------------------------------
(* The theorems.                                                           *)

\* A created task satisfies the invariant.
LEMMA InitIsInductive == Init => Inductive
<1>. SUFFICES ASSUME NEW id \in AttemptIds, NEW contract \in Contracts,
                     task = NewTask(id, contract)
              PROVE  Inductive
  BY DEF Init
<1> DEFINE b == InitialAttempt(id, [revision |-> 1, contract |-> contract])
<1>1. SoundAttempt(b) /\ b \in Attempts
  BY InitialAttemptIsSound DEF Intents, SoundAttempt
<1>. HIDE DEF b
<1>2. task.attempts = <<b>> /\ task.revision = 1 /\ task \in Tasks
  BY <1>1 DEF NewTask, Tasks, b
<1>3. Len(task.attempts) = 1 /\ task.attempts[1] = b
  BY <1>2
<1>4. TaskOK(task)
  BY <1>1, <1>3 DEF TaskOK, SoundAttempt, AttemptIdsUnique
<1>. QED
  BY <1>1, <1>2, <1>3, <1>4 DEF Inductive, Sound, OutcomeIdsUnique

\* No step breaks the invariant.
LEMMA StepIsInductive == Inductive /\ [Next]_task => Inductive'
<1>. SUFFICES ASSUME Inductive, [Next]_task
              PROVE  Inductive'
  OBVIOUS
<1>1. CASE UNCHANGED task
  BY <1>1 DEF Inductive
<1>2. CASE Next
  <2>1. CASE \E b : Replaced(task, b) /\ task' = Commit(task, b)
    BY <2>1, ReplacedResult DEF Inductive
  <2>2. CASE \E b : Added(task, b) /\ task' = CommitNew(task, b)
    BY <2>2, AddedResult DEF Inductive
  <2>. QED
    BY <1>2, <2>1, <2>2, StepIsReplacementOrAddition DEF Inductive
<1>. QED
  BY <1>1, <1>2

\* The invariant holds throughout, for every caller.
THEOREM Invariance == Spec => []Inductive
<1>. QED
  BY InitIsInductive, StepIsInductive, PTL DEF Spec

\* The record keeps its shape, for every caller (types of domain/src/task.ts).
THEOREM TypeCorrect == Spec => []TypeOK
<1>1. Inductive => TypeOK
  BY DEF Inductive, Sound, TypeOK
<1>. QED
  BY <1>1, Invariance, PTL

\* However the calls are ordered, and whoever chooses the outcome identities,
\* the history stays one that assertTask accepts but for those identities.
THEOREM AlwaysWellFormed == Spec => []WellFormed
<1>1. Inductive => WellFormed
  BY DEF Inductive, Sound, WellFormed
<1>. QED
  BY <1>1, Invariance, PTL

\* With the identities TaskStoreEngineV1.executeTask offers, no accepted call
\* leaves a task that the next call's assertTask refuses.
THEOREM StoreCallersNeverWedge ==
  ASSUME ReuseOutcomeIds = FALSE
  PROVE  Spec => []NeverWedged
<1>1. Inductive => NeverWedged
  BY DEF Inductive, Sound, NeverWedged, AssertTask
<1>. QED
  BY <1>1, Invariance, PTL

\* The store's assertTaskHistoryExtensionV1 accepts every version the rules of
\* cognition-core produce for it.
THEOREM StoreAgrees ==
  ASSUME ReuseOutcomeIds = FALSE
  PROVE  Spec => StoreAcceptsEveryStep
<1>1. Inductive /\ [Next]_task => [HistoryExtension(task, task')]_task
  <2>. SUFFICES ASSUME Inductive, Next
                PROVE  HistoryExtension(task, task')
    OBVIOUS
  <2>1. Sound(task) /\ OutcomeIdsUnique(task)
    BY DEF Inductive
  <2>2. CASE \E b : Replaced(task, b) /\ task' = Commit(task, b)
    BY <2>1, <2>2, ReplacedResult
  <2>3. CASE \E b : Added(task, b) /\ task' = CommitNew(task, b)
    BY <2>1, <2>3, AddedResult
  <2>. QED
    BY <2>1, <2>2, <2>3, StepIsReplacementOrAddition
<1>. QED
  BY <1>1, Invariance, PTL DEF Spec, StoreAcceptsEveryStep

\* A task is COMPLETED only by complete execution and by required criteria that
\* passed otherwise than on the model's word (classifyResults, checkedResult).
THEOREM CompletionIsEarned == Spec => []CompletedIsEarned
<1>1. Inductive => CompletedIsEarned
  <2>. SUFFICES ASSUME Inductive, NEW i \in 1..Len(task.attempts),
                       task.attempts[i].state = "COMPLETED"
                PROVE  /\ task.attempts[i].completeness = "complete"
                       /\ \A c \in Required : /\ task.attempts[i].outcomes[1].results[c] = "pass"
                                              /\ c \notin ModelAssisted
    BY DEF CompletedIsEarned
  <2> DEFINE a == task.attempts[i]
             o == a.outcomes[1]
  <2>1. AttemptOK(a) /\ OutcomeHistoryOK(a) /\ a.outcomes \in Seq(Outcomes)
    BY DEF Inductive, Sound, SoundAttempt, AttemptOK, Attempts
  <2>2. Len(a.outcomes) > 0 /\ StateOf(o.status) = "COMPLETED"
    BY <2>1 DEF AttemptOK, IsTerminal, TerminalStates
  <2>3. /\ o.status = StatusFor(a, o.results)
        /\ \A c \in ModelAssisted : o.results[c] \notin {"pass", "fail"}
    BY <2>1, <2>2 DEF OutcomeHistoryOK
  <2>4. o.status = "completed"
    BY <2>2, <2>3, StatusForType, StateOfType
  <2>. HIDE DEF a
  <2>5. a.completeness = "complete" /\ \A c \in Required : o.results[c] = "pass"
    BY <2>3, <2>4 DEF StatusFor, Classify
  <2>. QED
    BY <2>3, <2>5 DEF a
<1>. QED
  BY <1>1, Invariance, PTL

\* A cancellation once requested stays requested, and ends its attempt as
\* CANCELLED or not at all.
THEOREM CancellationAlwaysSticks == Spec => CancellationSticks
<1> DEFINE Sticks(t, u) ==
             \A i \in 1..Len(t.attempts) :
               t.attempts[i].cancellationRequested =>
                 /\ u.attempts[i].cancellationRequested
                 /\ IsTerminal(u.attempts[i]) => u.attempts[i].state = "CANCELLED"
<1>1. ASSUME NEW a, SoundAttempt(a), a.cancellationRequested, IsTerminal(a)
      PROVE  a.state = "CANCELLED"
  BY <1>1 DEF SoundAttempt, AttemptOK, IsTerminal, TerminalStates
<1>2. ASSUME Inductive, NEW b, Replaced(task, b), task' = Commit(task, b)
      PROVE  Sticks(task, task')
  <2> DEFINE n == Len(task.attempts)
  <2>1. /\ task'.attempts[n] = b
        /\ \A i \in 1..(n - 1) : task'.attempts[i] = task.attempts[i]
    BY <1>2, CommitShape DEF Inductive, Replaced, SoundAttempt
  <2>2. n \in Nat \ {0} /\ Latest(task) = task.attempts[n] /\ SoundAttempt(task.attempts[n])
    BY <1>2, LatestIsSound DEF Inductive
  <2>3. task.attempts[n].cancellationRequested => b.cancellationRequested
    BY <1>2, <2>2 DEF Replaced, StoredAttemptStep, SoundAttempt, Attempts
  <2>. SUFFICES ASSUME NEW i \in 1..n, task.attempts[i].cancellationRequested
                PROVE  /\ task'.attempts[i].cancellationRequested
                       /\ IsTerminal(task'.attempts[i]) => task'.attempts[i].state = "CANCELLED"
    OBVIOUS
  <2>4. CASE i = n
    BY <1>1, <1>2, <2>1, <2>3, <2>4 DEF Replaced
  <2>5. CASE i # n
    <3>1. i \in 1..(n - 1) /\ SoundAttempt(task.attempts[i])
      BY <1>2, <2>2, <2>5 DEF Inductive, Sound
    <3>. QED
      BY <1>1, <2>1, <3>1
  <2>. QED
    BY <2>4, <2>5
<1>3. ASSUME Inductive, NEW b, Added(task, b), task' = CommitNew(task, b)
      PROVE  Sticks(task, task')
  <2>1. \A i \in 1..Len(task.attempts) : /\ task'.attempts[i] = task.attempts[i]
                                         /\ SoundAttempt(task.attempts[i])
    BY <1>3, CommitNewShape DEF Inductive, Sound, Added, SoundAttempt
  <2>. QED
    BY <1>1, <2>1
<1>4. Inductive /\ [Next]_task => [Sticks(task, task')]_task
  BY <1>2, <1>3, StepIsReplacementOrAddition DEF Inductive
<1>. QED
  BY <1>4, Invariance, PTL DEF Spec, CancellationSticks

\* Actions with unknown effects stay on record, at their revisions, until a
\* reconciliation of all of them.
THEOREM EffectsAreNeverForgotten == Spec => EffectsNeverForgotten
<1> DEFINE Kept(t, u) == \A i \in 1..Len(t.attempts) : EffectsKept(t.attempts[i], u.attempts[i])
<1>1. ASSUME Inductive, NEW b, Replaced(task, b), task' = Commit(task, b)
      PROVE  Kept(task, task')
  <2> DEFINE n == Len(task.attempts)
  <2>1. /\ task'.attempts[n] = b
        /\ \A i \in 1..(n - 1) : task'.attempts[i] = task.attempts[i]
    BY <1>1, CommitShape DEF Inductive, Replaced, SoundAttempt
  <2>2. n \in Nat \ {0} /\ Latest(task) = task.attempts[n]
    BY <1>1, LatestIsSound DEF Inductive
  <2>3. EffectsKept(task.attempts[n], b)
    BY <1>1, <2>2 DEF Replaced
  <2>4. \A i \in 1..n : i = n \/ i \in 1..(n - 1)
    BY <2>2
  <2>. QED
    BY <2>1, <2>3, <2>4 DEF EffectsKept
<1>2. ASSUME Inductive, NEW b, Added(task, b), task' = CommitNew(task, b)
      PROVE  Kept(task, task')
  <2>1. \A i \in 1..Len(task.attempts) : task'.attempts[i] = task.attempts[i]
    BY <1>2, CommitNewShape DEF Inductive, Added, SoundAttempt
  <2>. QED
    BY <2>1 DEF EffectsKept
<1>3. Inductive /\ [Next]_task => [Kept(task, task')]_task
  BY <1>1, <1>2, StepIsReplacementOrAddition DEF Inductive
<1>4. Kept(task, task') <=>
        \A i \in 1..Len(task.attempts) :
          LET old == task.attempts[i]  new == task'.attempts[i] IN
          \/ old.unresolved \subseteq new.unresolved
          \/ /\ old.state = "NEEDS_RECONCILIATION" /\ new.state = "VERIFYING"
             /\ new.unresolved = {} /\ new.completeness = "complete"
  BY DEF EffectsKept
<1>. HIDE DEF Kept
<1>5. Inductive /\ [Next]_task =>
        [\A i \in 1..Len(task.attempts) :
           LET old == task.attempts[i]  new == task'.attempts[i] IN
           \/ old.unresolved \subseteq new.unresolved
           \/ /\ old.state = "NEEDS_RECONCILIATION" /\ new.state = "VERIFYING"
              /\ new.unresolved = {} /\ new.completeness = "complete"]_task
  BY <1>3, <1>4
<1>. QED
  BY <1>5, Invariance, PTL DEF Spec, EffectsNeverForgotten

-----------------------------------------------------------------------------
(* The observation ledger.                                                 *)

States == [ledger : Seq(Events), rowIds : Seq(Nat), error : {"none", "conflict", "sequence"}]
Grown(old, new) == Len(old) <= Len(new) /\ \A k \in 1..Len(old) : new[k] = old[k]
\* An event of the batch has the slot of another event, in the ledger or in the batch itself.
Clashes(batch, ledger) == \E j \in DOMAIN batch :
  \/ \E k \in DOMAIN ledger :
       Ledger!EventId(ledger[k]) = Ledger!EventId(batch[j]) /\ ledger[k] # batch[j]
  \/ \E i \in DOMAIN batch :
       Ledger!EventId(batch[i]) = Ledger!EventId(batch[j]) /\ batch[i] # batch[j]
\* An event of the batch is not in the ledger and its stream has gone past it.
Misses(batch, ledger) == \E j \in DOMAIN batch :
  Ledger!Passed(ledger, batch[j]) /\ \A k \in DOMAIN ledger : ledger[k] # batch[j]

\* What the first n events of a batch made of a ledger.
After(st, n, ledger, batch) ==
  /\ st \in States /\ Ledger!Valid(st.ledger) /\ Grown(ledger, st.ledger)
  /\ \A k \in Len(ledger) + 1..Len(st.ledger) : \E j \in 1..n : st.ledger[k] = batch[j]
  /\ st.error = "none" =>
       /\ Len(st.rowIds) = n
       /\ \A j \in 1..n : st.rowIds[j] \in DOMAIN st.ledger /\ st.ledger[st.rowIds[j]] = batch[j]
  /\ st.error = "conflict" => Clashes(batch, ledger)
  /\ st.error = "sequence" /\ Ledger!Valid(batch) => Misses(batch, ledger)
  /\ Ledger!InLedger(batch, ledger) => st.error = "none" /\ st.ledger = ledger

LEMMA LedgerConstants ==
  /\ MaxBatch \in Nat /\ Limit \in Nat
  /\ \A e \in Events : e.sequence \in Nat
  BY LedgerAssumption

\* A readable ledger has one row for a slot.
LEMMA OneRowOfASlot ==
  ASSUME NEW ledger \in Seq(Events), Ledger!Valid(ledger),
         NEW i \in DOMAIN ledger, NEW j \in DOMAIN ledger,
         Ledger!EventId(ledger[i]) = Ledger!EventId(ledger[j])
  PROVE  i = j
<1>1. i \in Nat /\ j \in Nat /\ ledger[i] \in Events /\ ledger[j] \in Events
  OBVIOUS
<1>2. ledger[i].stream = ledger[j].stream /\ ledger[i].sequence = ledger[j].sequence
  BY DEF Ledger!EventId
<1>3. ledger[i].sequence \in Nat
  BY <1>1, LedgerConstants
<1>4. ~(i < j) /\ ~(j < i)
  BY <1>1, <1>2, <1>3 DEF Ledger!Valid
<1> QED BY <1>1, <1>4

\* The steps of a batch follow from one another.
LEMMA StepsFollow ==
  ASSUME NEW ledger, NEW batch, Len(batch) \in Nat
  PROVE  /\ Ledger!Steps(ledger, batch)[0] = [ledger |-> ledger, rowIds |-> <<>>, error |-> "none"]
         /\ \A k \in 1..Len(batch) : Ledger!Steps(ledger, batch)[k]
              = Ledger!AppendOne(Ledger!Steps(ledger, batch)[k - 1], batch[k])
<1> DEFINE Nothing == [ledger |-> ledger, rowIds |-> <<>>, error |-> "none"]
           Is(f, n) == f = [k \in 0..n |-> IF k = 0 THEN Nothing
                                           ELSE Ledger!AppendOne(f[k - 1], batch[k])]
           T == {n \in Nat : \E f : Is(f, n)}
<1>1. 0 \in T
  <2>1. Is([k \in 0..0 |-> Nothing], 0)
    OBVIOUS
  <2> QED BY <2>1
<1>2. ASSUME NEW n \in Nat, n \in T PROVE n + 1 \in T
  <2>1. PICK f : Is(f, n)
    BY <1>2
  <2>2. PICK g : g = [k \in 0..(n + 1) |-> IF k = n + 1 THEN Ledger!AppendOne(f[n], batch[n + 1])
                                           ELSE f[k]]
    OBVIOUS
  <2>3. ASSUME NEW k \in 0..(n + 1)
        PROVE  g[k] = IF k = 0 THEN Nothing ELSE Ledger!AppendOne(g[k - 1], batch[k])
    <3>1. CASE k = 0
      BY <2>1, <2>2, <3>1
    <3>2. CASE k \in 1..n
      BY <2>1, <2>2, <3>2
    <3>3. CASE k = n + 1
      BY <2>1, <2>2, <3>3
    <3> QED BY <3>1, <3>2, <3>3
  <2>4. Is(g, n + 1)
    BY <2>2, <2>3
  <2> QED BY <2>4
<1>3. Len(batch) \in T
  <2> HIDE DEF T
  <2> QED BY <1>1, <1>2, Reached
<1>4. Is(Ledger!Steps(ledger, batch), Len(batch))
  BY <1>3 DEF Ledger!Steps
<1> QED BY <1>4

\* The four ends of one event: found, in conflict, out of order, or inserted.
LEMMA EventEnds ==
  ASSUME NEW st \in States, st.error = "none", NEW event \in Events,
         NEW new, new = Ledger!AppendOne(st, event)
  PROVE  \/ \E k \in DOMAIN st.ledger :
              /\ Ledger!EventId(st.ledger[k]) = Ledger!EventId(event)
              /\ \/ /\ st.ledger[k] = event
                    /\ new = [st EXCEPT !.rowIds = Append(st.rowIds, k)]
                 \/ /\ st.ledger[k] # event
                    /\ new = [st EXCEPT !.error = "conflict"]
         \/ /\ Ledger!Passed(st.ledger, event)
            /\ \A k \in DOMAIN st.ledger : Ledger!EventId(st.ledger[k]) # Ledger!EventId(event)
            /\ new = [st EXCEPT !.error = "sequence"]
         \/ /\ ~Ledger!Passed(st.ledger, event)
            /\ \A k \in DOMAIN st.ledger : Ledger!EventId(st.ledger[k]) # Ledger!EventId(event)
            /\ new = [st EXCEPT !.ledger = Append(st.ledger, event),
                                !.rowIds = Append(st.rowIds, Len(st.ledger) + 1)]
<1> DEFINE existing == Ledger!Existing(st.ledger, event)
<1>1. CASE existing # {}
  <2>1. PICK k : k = CHOOSE j \in existing : TRUE
    OBVIOUS
  <2>2. k \in existing
    BY <1>1, <2>1
  <2>3. k \in DOMAIN st.ledger /\ Ledger!EventId(st.ledger[k]) = Ledger!EventId(event)
    BY <2>2 DEF Ledger!Existing
  <2>4. new = IF st.ledger[k] = event THEN [st EXCEPT !.rowIds = Append(@, k)]
              ELSE [st EXCEPT !.error = "conflict"]
    BY <1>1, <2>1 DEF Ledger!AppendOne, Ledger!Failed
  <2> QED BY <2>3, <2>4
<1>2. CASE existing = {}
  <2>1. \A k \in DOMAIN st.ledger : Ledger!EventId(st.ledger[k]) # Ledger!EventId(event)
    BY <1>2 DEF Ledger!Existing
  <2>2. new = IF Ledger!Passed(st.ledger, event) THEN [st EXCEPT !.error = "sequence"]
              ELSE [st EXCEPT !.ledger = Append(@, event), !.rowIds = Append(@, Len(st.ledger) + 1)]
    BY <1>2 DEF Ledger!AppendOne, Ledger!Failed, Ledger!Inserted
  <2> QED BY <2>1, <2>2
<1> QED BY <1>1, <1>2

\* Every event of a batch leaves the ledger readable, and answers or refuses for good.
LEMMA EventKeeps ==
  ASSUME NEW ledger \in Seq(Events), Ledger!Valid(ledger), NEW batch \in Seq(Events),
         NEW n \in Nat, n + 1 \in 1..Len(batch), NEW st, After(st, n, ledger, batch),
         NEW new, new = Ledger!AppendOne(st, batch[n + 1])
  PROVE  After(new, n + 1, ledger, batch)
<1>0. PICK event : event = batch[n + 1]
  OBVIOUS
<1>1. /\ st \in States /\ st.ledger \in Seq(Events) /\ st.rowIds \in Seq(Nat)
      /\ st.error \in {"none", "conflict", "sequence"}
      /\ Len(ledger) \in Nat /\ Len(st.ledger) \in Nat /\ event \in Events
      /\ Len(batch) \in Nat /\ DOMAIN batch = 1..Len(batch)
      /\ DOMAIN ledger = 1..Len(ledger) /\ DOMAIN st.ledger = 1..Len(st.ledger)
      /\ event = batch[n + 1] /\ n + 1 \in DOMAIN batch
  BY <1>0 DEF After, States
<1>2. CASE st.error # "none"
  <2>1. new = st
    BY <1>2 DEF Ledger!AppendOne
  <2>2. ASSUME NEW k \in Len(ledger) + 1..Len(st.ledger)
        PROVE  \E j \in 1..(n + 1) : st.ledger[k] = batch[j]
    BY DEF After
  <2> QED BY <1>2, <2>1, <2>2 DEF After
<1>3. CASE /\ st.error = "none"
           /\ \E k \in DOMAIN st.ledger : st.ledger[k] = event /\ new = [st EXCEPT !.rowIds = Append(st.rowIds, k)]
  <2>1. PICK k \in DOMAIN st.ledger : st.ledger[k] = event /\ new = [st EXCEPT !.rowIds = Append(st.rowIds, k)]
    BY <1>3
  <2>2. /\ new \in States /\ new.ledger = st.ledger /\ new.error = "none"
        /\ new.rowIds = Append(st.rowIds, k)
    <3>1. Append(st.rowIds, k) \in Seq(Nat)
      BY <1>1, <2>1
    <3> QED BY <1>1, <1>3, <2>1, <3>1 DEF States
  <2>3. Len(st.rowIds) = n /\ \A j \in 1..n : st.rowIds[j] \in DOMAIN st.ledger /\ st.ledger[st.rowIds[j]] = batch[j]
    BY <1>3 DEF After
  <2>4. /\ Len(new.rowIds) = n + 1 /\ new.rowIds[n + 1] = k
        /\ \A j \in 1..n : new.rowIds[j] = st.rowIds[j]
    BY <1>1, <2>2, <2>3
  <2>5. ASSUME NEW j \in 1..(n + 1)
        PROVE  new.rowIds[j] \in DOMAIN st.ledger /\ st.ledger[new.rowIds[j]] = batch[j]
    <3>1. j \in 1..n \/ j = n + 1
      OBVIOUS
    <3> QED BY <1>0, <2>1, <2>3, <2>4, <3>1
  <2>6. ASSUME NEW i \in Len(ledger) + 1..Len(st.ledger)
        PROVE  \E j \in 1..(n + 1) : st.ledger[i] = batch[j]
    BY DEF After
  <2>7. Ledger!InLedger(batch, ledger) => st.ledger = ledger
    BY DEF After
  <2> QED BY <2>2, <2>4, <2>5, <2>6, <2>7 DEF After
<1>4. CASE /\ st.error = "none" /\ new = [st EXCEPT !.error = "conflict"]
           /\ \E k \in DOMAIN st.ledger : Ledger!EventId(st.ledger[k]) = Ledger!EventId(event) /\ st.ledger[k] # event
  <2>1. PICK k \in DOMAIN st.ledger : Ledger!EventId(st.ledger[k]) = Ledger!EventId(event) /\ st.ledger[k] # event
    BY <1>4
  <2>2. new \in States /\ new.ledger = st.ledger /\ new.error = "conflict"
    BY <1>1, <1>4 DEF States
  <2>3. Clashes(batch, ledger)
    <3>1. CASE k \in DOMAIN ledger
      <4>1. st.ledger[k] = ledger[k]
        BY <1>1, <3>1 DEF After, Grown
      <4> QED BY <1>1, <2>1, <3>1, <4>1 DEF Clashes
    <3>2. CASE k \notin DOMAIN ledger
      <4>1. PICK j \in 1..n : st.ledger[k] = batch[j]
        BY <1>1, <3>2 DEF After
      <4>2. j \in DOMAIN batch /\ n + 1 \in DOMAIN batch
        BY <1>1
      <4> QED BY <1>0, <2>1, <4>1, <4>2 DEF Clashes
    <3> QED BY <3>1, <3>2
  <2>4. ASSUME NEW i \in Len(ledger) + 1..Len(st.ledger)
        PROVE  \E j \in 1..(n + 1) : st.ledger[i] = batch[j]
    BY DEF After
  <2>5. ~Ledger!InLedger(batch, ledger)
    <3>1. SUFFICES ASSUME Ledger!InLedger(batch, ledger) PROVE FALSE
      OBVIOUS
    <3>2. st.ledger = ledger
      BY <3>1 DEF After
    <3>3. event \in Ledger!Range(ledger)
      BY <1>1, <3>1 DEF Ledger!InLedger, Ledger!Range
    <3>4. PICK i \in DOMAIN ledger : ledger[i] = event
      BY <3>3 DEF Ledger!Range
    <3> QED BY <2>1, <3>2, <3>4, OneRowOfASlot
  <2> QED BY <2>2, <2>3, <2>4, <2>5 DEF After
<1>5. CASE /\ st.error = "none" /\ new = [st EXCEPT !.error = "sequence"]
           /\ Ledger!Passed(st.ledger, event)
           /\ \A k \in DOMAIN st.ledger : Ledger!EventId(st.ledger[k]) # Ledger!EventId(event)
  <2>1. PICK k \in DOMAIN st.ledger : /\ st.ledger[k].stream = event.stream
                                      /\ event.sequence <= st.ledger[k].sequence
    BY <1>5 DEF Ledger!Passed
  <2>2. new \in States /\ new.ledger = st.ledger /\ new.error = "sequence"
    BY <1>1, <1>5 DEF States
  <2>3. ASSUME NEW i \in DOMAIN ledger PROVE ledger[i] # event
    BY <1>1, <1>5 DEF After, Grown
  <2>4. ASSUME Ledger!Valid(batch) PROVE Misses(batch, ledger)
    <3>1. CASE k \in DOMAIN ledger
      <4>1. st.ledger[k] = ledger[k]
        BY <1>1, <3>1 DEF After, Grown
      <4>2. Ledger!Passed(ledger, event)
        BY <2>1, <3>1, <4>1 DEF Ledger!Passed
      <4> QED BY <1>1, <2>3, <4>2 DEF Misses
    <3>2. CASE k \notin DOMAIN ledger
      <4>1. PICK j \in 1..n : st.ledger[k] = batch[j]
        BY <1>1, <3>2 DEF After
      <4>2. j \in DOMAIN batch /\ n + 1 \in DOMAIN batch /\ j < n + 1
        BY <1>1
      <4>3. batch[j].sequence < event.sequence
        BY <1>0, <2>1, <2>4, <4>1, <4>2 DEF Ledger!Valid
      <4>4. batch[j].sequence \in Nat /\ event.sequence \in Nat
        BY <1>1, <4>2, LedgerConstants
      <4> QED BY <2>1, <4>1, <4>3, <4>4
    <3> QED BY <3>1, <3>2
  <2>5. ASSUME NEW i \in Len(ledger) + 1..Len(st.ledger)
        PROVE  \E j \in 1..(n + 1) : st.ledger[i] = batch[j]
    BY DEF After
  <2>6. ~Ledger!InLedger(batch, ledger)
    <3>1. SUFFICES ASSUME Ledger!InLedger(batch, ledger) PROVE FALSE
      OBVIOUS
    <3>2. event \in Ledger!Range(ledger)
      BY <1>1, <3>1 DEF Ledger!InLedger, Ledger!Range
    <3> QED BY <2>3, <3>2 DEF Ledger!Range
  <2> QED BY <2>2, <2>4, <2>5, <2>6 DEF After
<1>6. CASE /\ st.error = "none"
           /\ new = [st EXCEPT !.ledger = Append(st.ledger, event),
                               !.rowIds = Append(st.rowIds, Len(st.ledger) + 1)]
           /\ ~Ledger!Passed(st.ledger, event)
           /\ \A k \in DOMAIN st.ledger : Ledger!EventId(st.ledger[k]) # Ledger!EventId(event)
  <2>1. /\ Append(st.ledger, event) \in Seq(Events)
        /\ Append(st.rowIds, Len(st.ledger) + 1) \in Seq(Nat)
    BY <1>1
  <2>2. /\ new \in States /\ new.ledger = Append(st.ledger, event) /\ new.error = "none"
        /\ new.rowIds = Append(st.rowIds, Len(st.ledger) + 1)
    BY <1>1, <1>6, <2>1 DEF States
  <2>3. /\ Len(new.ledger) = Len(st.ledger) + 1 /\ new.ledger[Len(st.ledger) + 1] = event
        /\ \A k \in 1..Len(st.ledger) : new.ledger[k] = st.ledger[k]
        /\ DOMAIN new.ledger = 1..(Len(st.ledger) + 1)
    BY <1>1, <2>2
  <2>4. Len(st.rowIds) = n /\ \A j \in 1..n : st.rowIds[j] \in DOMAIN st.ledger /\ st.ledger[st.rowIds[j]] = batch[j]
    BY <1>6 DEF After
  <2>5. /\ Len(new.rowIds) = n + 1 /\ new.rowIds[n + 1] = Len(st.ledger) + 1
        /\ \A j \in 1..n : new.rowIds[j] = st.rowIds[j]
    BY <1>1, <2>2, <2>4
  <2>6. ASSUME NEW j \in 1..(n + 1)
        PROVE  new.rowIds[j] \in DOMAIN new.ledger /\ new.ledger[new.rowIds[j]] = batch[j]
    <3>1. CASE j \in 1..n
      <4>1. PICK k \in 1..Len(st.ledger) : k = st.rowIds[j] /\ st.ledger[k] = batch[j]
        BY <1>1, <2>4, <3>1
      <4>2. new.rowIds[j] = k
        BY <2>5, <3>1, <4>1
      <4>3. new.ledger[k] = batch[j]
        BY <2>3, <4>1
      <4>4. k \in 1..(Len(st.ledger) + 1)
        BY <1>1, <4>1
      <4> QED BY <2>3, <4>2, <4>3, <4>4
    <3>2. CASE j = n + 1
      BY <1>1, <2>3, <2>5, <3>2
    <3> QED BY <3>1, <3>2
  <2>7. Ledger!Valid(new.ledger)
    <3>1. ASSUME NEW i \in 1..(Len(st.ledger) + 1), NEW j \in 1..(Len(st.ledger) + 1),
                 i < j, new.ledger[i].stream = new.ledger[j].stream
          PROVE  new.ledger[i].sequence < new.ledger[j].sequence
      <4>1. i \in 1..Len(st.ledger) /\ new.ledger[i] = st.ledger[i]
        BY <1>1, <2>3, <3>1
      <4>2. CASE j \in 1..Len(st.ledger)
        <5>1. new.ledger[j] = st.ledger[j]
          BY <2>3, <4>2
        <5>2. Ledger!Valid(st.ledger)
          BY DEF After
        <5> QED BY <1>1, <3>1, <4>1, <4>2, <5>1, <5>2 DEF Ledger!Valid
      <4>3. CASE j = Len(st.ledger) + 1
        <5>1. new.ledger[j] = event /\ st.ledger[i].stream = event.stream /\ i \in DOMAIN st.ledger
          BY <1>1, <2>3, <3>1, <4>1, <4>3
        <5>2. ~(event.sequence <= st.ledger[i].sequence)
          BY <1>6, <5>1 DEF Ledger!Passed
        <5>3. st.ledger[i] \in Events
          BY <1>1, <5>1
        <5>4. st.ledger[i].sequence \in Nat /\ event.sequence \in Nat
          BY <1>1, <5>3, LedgerConstants
        <5>5. st.ledger[i].sequence < event.sequence
          BY <5>2, <5>4
        <5> QED BY <4>1, <5>1, <5>5
      <4>4. Len(st.ledger) \in Nat
        BY <1>1
      <4>5. j \in 1..Len(st.ledger) \/ j = Len(st.ledger) + 1
        BY <4>4
      <4> QED BY <4>2, <4>3, <4>5
    <3> QED BY <2>3, <3>1 DEF Ledger!Valid
  <2>8. Grown(ledger, new.ledger)
    <3>1. Grown(ledger, st.ledger)
      BY DEF After
    <3>2. Len(ledger) <= Len(new.ledger)
      BY <1>1, <2>3, <3>1 DEF Grown
    <3>3. ASSUME NEW k \in 1..Len(ledger) PROVE new.ledger[k] = ledger[k]
      <4>1. k \in 1..Len(st.ledger) /\ st.ledger[k] = ledger[k]
        BY <1>1, <3>1 DEF Grown
      <4> QED BY <2>3, <4>1
    <3> QED BY <3>2, <3>3 DEF Grown
  <2>9. ASSUME NEW i \in Len(ledger) + 1..Len(new.ledger)
        PROVE  \E j \in 1..(n + 1) : new.ledger[i] = batch[j]
    <3>1. CASE i \in 1..Len(st.ledger)
      <4>1. PICK j \in 1..n : st.ledger[i] = batch[j]
        BY <1>1, <3>1 DEF After
      <4> QED BY <2>3, <3>1, <4>1
    <3>2. CASE i = Len(st.ledger) + 1
      BY <1>0, <2>3, <3>2
    <3> QED BY <1>1, <2>3, <3>1, <3>2
  <2>10. ~Ledger!InLedger(batch, ledger)
    <3>1. SUFFICES ASSUME Ledger!InLedger(batch, ledger) PROVE FALSE
      OBVIOUS
    <3>2. st.ledger = ledger
      BY <3>1 DEF After
    <3>3. event \in Ledger!Range(ledger)
      BY <1>1, <3>1 DEF Ledger!InLedger, Ledger!Range
    <3>4. PICK i \in DOMAIN ledger : ledger[i] = event
      BY <3>3 DEF Ledger!Range
    <3> QED BY <1>6, <3>2, <3>4
  <2> QED BY <2>2, <2>5, <2>6, <2>7, <2>8, <2>9, <2>10 DEF After
<1>7. CASE st.error = "none"
  <2>1. new = Ledger!AppendOne(st, event)
    BY <1>0
  <2>2. CASE \E k \in DOMAIN st.ledger :
              /\ Ledger!EventId(st.ledger[k]) = Ledger!EventId(event)
              /\ \/ /\ st.ledger[k] = event
                    /\ new = [st EXCEPT !.rowIds = Append(st.rowIds, k)]
                 \/ /\ st.ledger[k] # event
                    /\ new = [st EXCEPT !.error = "conflict"]
    BY <1>3, <1>4, <1>7, <2>2
  <2>3. CASE /\ Ledger!Passed(st.ledger, event)
             /\ \A k \in DOMAIN st.ledger : Ledger!EventId(st.ledger[k]) # Ledger!EventId(event)
             /\ new = [st EXCEPT !.error = "sequence"]
    BY <1>5, <1>7, <2>3
  <2>4. CASE /\ ~Ledger!Passed(st.ledger, event)
             /\ \A k \in DOMAIN st.ledger : Ledger!EventId(st.ledger[k]) # Ledger!EventId(event)
             /\ new = [st EXCEPT !.ledger = Append(st.ledger, event),
                                 !.rowIds = Append(st.rowIds, Len(st.ledger) + 1)]
    BY <1>6, <1>7, <2>4
  <2>5. event \in Events /\ st \in States
    BY <1>1
  <2>6. \/ \E k \in DOMAIN st.ledger :
              /\ Ledger!EventId(st.ledger[k]) = Ledger!EventId(event)
              /\ \/ /\ st.ledger[k] = event
                    /\ new = [st EXCEPT !.rowIds = Append(st.rowIds, k)]
                 \/ /\ st.ledger[k] # event
                    /\ new = [st EXCEPT !.error = "conflict"]
        \/ /\ Ledger!Passed(st.ledger, event)
           /\ \A k \in DOMAIN st.ledger : Ledger!EventId(st.ledger[k]) # Ledger!EventId(event)
           /\ new = [st EXCEPT !.error = "sequence"]
        \/ /\ ~Ledger!Passed(st.ledger, event)
           /\ \A k \in DOMAIN st.ledger : Ledger!EventId(st.ledger[k]) # Ledger!EventId(event)
           /\ new = [st EXCEPT !.ledger = Append(st.ledger, event),
                               !.rowIds = Append(st.rowIds, Len(st.ledger) + 1)]
    BY <1>7, <2>1, <2>5, EventEnds
  <2> QED BY <2>2, <2>3, <2>4, <2>6
<1> QED BY <1>2, <1>7

\* What a whole batch made of a ledger.
LEMMA BatchKeeps ==
  ASSUME NEW ledger \in Seq(Events), Ledger!Valid(ledger), NEW batch \in Seq(Events)
  PROVE  After(Ledger!Appended(ledger, batch), Len(batch), ledger, batch)
<1> DEFINE T == {n \in Nat : n <= Len(batch) => After(Ledger!Steps(ledger, batch)[n], n, ledger, batch)}
<1>1. Len(batch) \in Nat
  OBVIOUS
<1>2. 0 \in T
  <2>1. PICK st : st = [ledger |-> ledger, rowIds |-> <<>>, error |-> "none"]
    OBVIOUS
  <2>2. st \in States /\ st.ledger = ledger /\ st.rowIds = <<>> /\ st.error = "none"
    BY <2>1 DEF States
  <2>3. After(st, 0, ledger, batch)
    BY <2>2 DEF After, Grown
  <2> QED BY <1>1, <2>1, <2>3, StepsFollow
<1>3. ASSUME NEW n \in Nat, n \in T PROVE n + 1 \in T
  <2>1. SUFFICES ASSUME n + 1 <= Len(batch)
                 PROVE  After(Ledger!Steps(ledger, batch)[n + 1], n + 1, ledger, batch)
    OBVIOUS
  <2>2. After(Ledger!Steps(ledger, batch)[n], n, ledger, batch) /\ n + 1 \in 1..Len(batch)
    BY <1>1, <1>3, <2>1
  <2>3. Ledger!Steps(ledger, batch)[n + 1]
          = Ledger!AppendOne(Ledger!Steps(ledger, batch)[n], batch[n + 1])
    <3>1. n + 1 - 1 = n
      OBVIOUS
    <3>2. \A k \in 1..Len(batch) : Ledger!Steps(ledger, batch)[k]
            = Ledger!AppendOne(Ledger!Steps(ledger, batch)[k - 1], batch[k])
      BY <1>1, StepsFollow
    <3> QED BY <2>2, <3>1, <3>2
  <2> QED BY <2>2, <2>3, EventKeeps
<1>4. Len(batch) \in T
  <2> HIDE DEF T
  <2> QED BY <1>1, <1>2, <1>3, Reached
<1> QED BY <1>1, <1>4 DEF Ledger!Appended

-----------------------------------------------------------------------------
(* The ledger and its reader, step by step.                                *)

Senderships == [batch : Seq(Events), rowIds : Seq(Nat),
                state : {"idle", "sent", "appended", "conflict", "sequence"}]
Readers == [after : Nat, read : Seq(Events), ended : BOOLEAN]
LedgerTypes ==
  /\ rows \in Seq(Events) /\ sender \in [Senders -> Senderships]
  /\ reader \in Readers /\ reader.after <= Len(rows)
RefusedForGood == \A s \in Senders :
  /\ sender[s].state = "conflict" => Clashes(sender[s].batch, rows)
  /\ sender[s].state = "sequence" /\ Ledger!Valid(sender[s].batch) => Misses(sender[s].batch, rows)
LedgerInductive == LedgerTypes /\ Ledger!Valid(rows) /\ RefusedForGood /\ Ledger!ReadsInOrder

\* A clash or a miss stays one as the ledger grows, and such a batch is not in it.
LEMMA RefusalsLast ==
  ASSUME NEW old \in Seq(Events), NEW new \in Seq(Events), Grown(old, new), Ledger!Valid(new),
         NEW batch \in Seq(Events)
  PROVE  /\ Clashes(batch, old) => Clashes(batch, new)
         /\ Misses(batch, old) => Misses(batch, new)
<1>1. /\ Len(old) \in Nat /\ Len(new) \in Nat /\ DOMAIN old = 1..Len(old) /\ DOMAIN new = 1..Len(new)
      /\ Len(old) <= Len(new)
  BY DEF Grown
<1>2. ASSUME NEW k \in DOMAIN old PROVE k \in DOMAIN new /\ new[k] = old[k]
  BY <1>1 DEF Grown
<1>3. ASSUME Clashes(batch, old) PROVE Clashes(batch, new)
  BY <1>2, <1>3 DEF Clashes
<1>4. ASSUME Misses(batch, old) PROVE Misses(batch, new)
  <2>1. PICK j \in DOMAIN batch : Ledger!Passed(old, batch[j]) /\ \A k \in DOMAIN old : old[k] # batch[j]
    BY <1>4 DEF Misses
  <2>2. PICK k \in DOMAIN old : old[k].stream = batch[j].stream /\ batch[j].sequence <= old[k].sequence
    BY <2>1 DEF Ledger!Passed
  <2>3. Ledger!Passed(new, batch[j])
    BY <1>2, <2>2 DEF Ledger!Passed
  <2>4. ASSUME NEW i \in DOMAIN new, new[i] = batch[j] PROVE FALSE
    <3>1. i \notin DOMAIN old
      BY <1>2, <2>1, <2>4
    <3>2. k < i /\ k \in DOMAIN new /\ new[k] = old[k]
      BY <1>1, <1>2, <3>1
    <3>3. new[k].sequence < new[i].sequence
      BY <2>2, <2>4, <3>2 DEF Ledger!Valid
    <3>4. new[k] \in Events /\ new[i] \in Events
      BY <1>1, <3>2
    <3>5. new[k].sequence \in Nat /\ new[i].sequence \in Nat
      BY <3>4, LedgerConstants
    <3> QED BY <2>2, <2>4, <3>2, <3>3, <3>5
  <2> QED BY <2>3, <2>4 DEF Misses
<1> QED BY <1>3, <1>4

LEMMA RefusedIsAbsent ==
  ASSUME NEW ledger \in Seq(Events), Ledger!Valid(ledger), NEW batch \in Seq(Events),
         Clashes(batch, ledger) \/ Misses(batch, ledger)
  PROVE  ~Ledger!InLedger(batch, ledger)
<1>1. SUFFICES ASSUME Ledger!InLedger(batch, ledger) PROVE FALSE
  OBVIOUS
<1>2. ASSUME NEW j \in DOMAIN batch PROVE \E k \in DOMAIN ledger : ledger[k] = batch[j]
  BY <1>1 DEF Ledger!InLedger, Ledger!Range
<1>3. CASE Misses(batch, ledger)
  BY <1>2, <1>3 DEF Misses
<1>4. CASE Clashes(batch, ledger)
  <2>1. PICK j \in DOMAIN batch :
          \/ \E k \in DOMAIN ledger :
               Ledger!EventId(ledger[k]) = Ledger!EventId(batch[j]) /\ ledger[k] # batch[j]
          \/ \E i \in DOMAIN batch :
               Ledger!EventId(batch[i]) = Ledger!EventId(batch[j]) /\ batch[i] # batch[j]
    BY <1>4 DEF Clashes
  <2>2. PICK m \in DOMAIN ledger : ledger[m] = batch[j]
    BY <1>2
  <2>3. CASE \E k \in DOMAIN ledger :
               Ledger!EventId(ledger[k]) = Ledger!EventId(batch[j]) /\ ledger[k] # batch[j]
    <3>1. PICK k \in DOMAIN ledger :
               Ledger!EventId(ledger[k]) = Ledger!EventId(batch[j]) /\ ledger[k] # batch[j]
      BY <2>3
    <3>2. Ledger!EventId(ledger[k]) = Ledger!EventId(ledger[m])
      BY <2>2, <3>1
    <3> QED BY <2>2, <3>1, <3>2, OneRowOfASlot
  <2>4. CASE \E i \in DOMAIN batch :
               Ledger!EventId(batch[i]) = Ledger!EventId(batch[j]) /\ batch[i] # batch[j]
    <3>1. PICK i \in DOMAIN batch :
               Ledger!EventId(batch[i]) = Ledger!EventId(batch[j]) /\ batch[i] # batch[j]
      BY <2>4
    <3>2. PICK k \in DOMAIN ledger : ledger[k] = batch[i]
      BY <1>2
    <3>3. Ledger!EventId(ledger[k]) = Ledger!EventId(ledger[m])
      BY <2>2, <3>1, <3>2
    <3> QED BY <2>2, <3>1, <3>2, <3>3, OneRowOfASlot
  <2> QED BY <2>1, <2>3, <2>4
<1> QED BY <1>3, <1>4

\* What LedgerStands says follows.
LEMMA LedgerStandsFollows ==
  ASSUME LedgerInductive
  PROVE  Ledger!LedgerStands
<1>1. rows \in Seq(Events) /\ Ledger!Valid(rows)
  BY DEF LedgerInductive, LedgerTypes
<1>2. ASSUME NEW batch \in Ledger!Batches, Ledger!InLedger(batch, rows)
      PROVE  /\ Ledger!Appended(rows, batch).error = "none"
             /\ \A k \in DOMAIN batch : rows[Ledger!Appended(rows, batch).rowIds[k]] = batch[k]
  <2>1. batch \in Seq(Events)
    <3>1. PICK n \in 1..MaxBatch : batch \in [1..n -> Events]
      BY DEF Ledger!Batches
    <3> QED BY <3>1, LedgerConstants
  <2>2. PICK st : st = Ledger!Appended(rows, batch)
    OBVIOUS
  <2>3. After(st, Len(batch), rows, batch)
    BY <1>1, <2>1, <2>2, BatchKeeps
  <2>4. st.error = "none" /\ st.ledger = rows
    BY <1>2, <2>3 DEF After
  <2>5. \A k \in 1..Len(batch) : st.ledger[st.rowIds[k]] = batch[k]
    BY <2>3, <2>4 DEF After
  <2> QED BY <2>1, <2>2, <2>4, <2>5
<1>3. ASSUME NEW s \in Senders
      PROVE  /\ sender[s].state # "corruption"
             /\ sender[s].state = "conflict" \/ (sender[s].state = "sequence" /\ Ledger!Valid(sender[s].batch))
                  => ~Ledger!InLedger(sender[s].batch, rows)
  <2>1. sender[s] \in Senderships
    BY DEF LedgerInductive, LedgerTypes
  <2>2. sender[s].batch \in Seq(Events) /\ sender[s].state # "corruption"
    BY <2>1 DEF Senderships
  <2>3. /\ sender[s].state = "conflict" => Clashes(sender[s].batch, rows)
        /\ sender[s].state = "sequence" /\ Ledger!Valid(sender[s].batch) => Misses(sender[s].batch, rows)
    BY DEF LedgerInductive, RefusedForGood
  <2> QED BY <1>1, <2>2, <2>3, RefusedIsAbsent
<1> QED BY <1>1, <1>2, <1>3
        DEF Ledger!LedgerStands, Ledger!StaysReadable, Ledger!AnswersStand, Ledger!RefusalsStand

-----------------------------------------------------------------------------
(* The reader.                                                             *)

LEMMA SessionPositions ==
  ASSUME NEW ledger \in Seq(Events), NEW positions, positions \subseteq Nat,
         NEW k
  PROVE  k \in Ledger!OfSession(ledger, positions) <=>
           k \in positions /\ k \in 1..Len(ledger) /\ ledger[k].stream = Ledger!Session
  BY DEF Ledger!OfSession

\* The page a process reads.
LEMMA PageRead ==
  ASSUME NEW ledger \in Seq(Events), NEW a \in Nat, NEW page, page = Ledger!PageOf(ledger, a)
  PROVE  LET found == Ledger!OfSession(ledger, a + 1..Len(ledger))
         IN /\ page \in Seq(found) /\ Len(page) <= Limit
            /\ Ascending(page) /\ Covers(page, found, Limit)
<1> DEFINE found == Ledger!OfSession(ledger, a + 1..Len(ledger))
<1>1. found \subseteq Nat
  BY DEF Ledger!OfSession
<1>2. page = FirstOf(found, Limit)
  BY DEF Ledger!PageOf, Ledger!FirstOf, FirstOf, Ledger!Ascending, Ascending,
         Ledger!Covers, Covers, Ledger!On, On
<1> HIDE DEF found
<1>3. page \in Seq(found) /\ Len(page) <= Limit /\ Ascending(page) /\ Covers(page, found, Limit)
  BY <1>1, <1>2, PageIs, LedgerConstants
<1> QED BY <1>3 DEF found

\* Pages in a row are the rows of the session in a row.
LEMMA PagesJoin ==
  ASSUME NEW ledger \in Seq(Events), NEW a \in 0..Len(ledger), NEW b \in a..Len(ledger),
         NEW read \in Seq(Events), Ledger!AreOfSession(read, ledger, 1..a),
         NEW page \in Seq(Ledger!OfSession(ledger, a + 1..b)), Ascending(page),
         Ledger!OfSession(ledger, a + 1..b) \subseteq On(page)
  PROVE  Ledger!AreOfSession(read \o [k \in 1..Len(page) |-> ledger[page[k]]], ledger, 1..b)
<1>1. PICK at \in [DOMAIN read -> Ledger!OfSession(ledger, 1..a)] :
        /\ Ledger!Ascending(at) /\ Ledger!OfSession(ledger, 1..a) \subseteq Ledger!On(at)
        /\ \A k \in DOMAIN read : read[k] = ledger[at[k]]
  BY DEF Ledger!AreOfSession
<1>2. PICK m \in Nat : m = Len(read)
  OBVIOUS
<1>3. PICK n \in Nat : n = Len(page)
  OBVIOUS
<1>4. /\ DOMAIN read = 1..m /\ DOMAIN page = 1..n /\ a \in Nat /\ b \in Nat /\ a <= b
      /\ Len(ledger) \in Nat /\ b <= Len(ledger)
  BY <1>2, <1>3
<1>5. ASSUME NEW k \in 1..m
      PROVE  at[k] \in 1..a /\ at[k] \in 1..Len(ledger) /\ ledger[at[k]].stream = Ledger!Session
  BY <1>1, <1>4 DEF Ledger!OfSession
<1>6. ASSUME NEW k \in 1..n
      PROVE  /\ page[k] \in a + 1..b /\ page[k] \in 1..Len(ledger)
             /\ ledger[page[k]].stream = Ledger!Session
  <2>1. page[k] \in Ledger!OfSession(ledger, a + 1..b)
    BY <1>4
  <2> QED BY <2>1 DEF Ledger!OfSession
<1>7. PICK all : all = [k \in 1..(m + n) |-> IF k <= m THEN at[k] ELSE page[k - m]]
  OBVIOUS
<1>8. PICK events : events = read \o [k \in 1..Len(page) |-> ledger[page[k]]]
  OBVIOUS
<1>9. /\ DOMAIN events = 1..(m + n)
      /\ \A k \in 1..m : events[k] = read[k]
      /\ \A k \in 1..n : events[m + k] = ledger[page[k]]
  <2>1. PICK more : more = [k \in 1..n |-> ledger[page[k]]]
    OBVIOUS
  <2>2. more \in Seq(Events) /\ Len(more) = n
    <3>1. ASSUME NEW k \in 1..n PROVE ledger[page[k]] \in Events
      <4>1. page[k] \in 1..Len(ledger)
        BY <1>6
      <4> QED BY <4>1
    <3>2. more \in [1..n -> Events]
      BY <2>1, <3>1
    <3> QED BY <3>2
  <2>3. events = read \o more
    BY <1>3, <1>8, <2>1
  <2> QED BY <1>2, <2>1, <2>2, <2>3
<1>10. ASSUME NEW k \in 1..(m + n)
       PROVE  \/ k \in 1..m /\ all[k] = at[k] /\ events[k] = read[k]
              \/ k - m \in 1..n /\ all[k] = page[k - m] /\ events[k] = ledger[page[k - m]]
  <2>1. CASE k <= m
    BY <1>7, <1>9, <2>1
  <2>2. CASE ~(k <= m)
    <3>1. k - m \in 1..n /\ m + (k - m) = k
      BY <2>2
    <3> QED BY <1>7, <1>9, <2>2, <3>1
  <2> QED BY <2>1, <2>2
<1>11. ASSUME NEW k \in 1..(m + n)
       PROVE  /\ all[k] \in 1..b /\ all[k] \in 1..Len(ledger)
              /\ ledger[all[k]].stream = Ledger!Session /\ events[k] = ledger[all[k]]
  <2>1. CASE k \in 1..m /\ all[k] = at[k] /\ events[k] = read[k]
    <3>1. at[k] \in 1..a /\ at[k] \in 1..Len(ledger) /\ ledger[at[k]].stream = Ledger!Session
      BY <1>5, <2>1
    <3>2. at[k] \in 1..b
      BY <1>4, <3>1
    <3>3. read[k] = ledger[at[k]]
      BY <1>1, <1>4, <2>1
    <3> QED BY <2>1, <3>1, <3>2, <3>3
  <2>2. CASE k - m \in 1..n /\ all[k] = page[k - m] /\ events[k] = ledger[page[k - m]]
    BY <1>4, <1>6, <2>2
  <2> QED BY <1>10, <2>1, <2>2
<1>12. all \in [DOMAIN events -> Ledger!OfSession(ledger, 1..b)]
  BY <1>7, <1>9, <1>11 DEF Ledger!OfSession
<1>13. Ledger!Ascending(all)
  <2>1. ASSUME NEW i \in 1..(m + n), NEW j \in 1..(m + n), i < j PROVE all[i] < all[j]
    <3>1. CASE j <= m
      <4>1. i \in 1..m /\ j \in 1..m
        BY <2>1, <3>1
      <4>2. all[i] = at[i] /\ all[j] = at[j] /\ DOMAIN at = 1..m
        BY <1>1, <1>4, <1>7, <2>1, <3>1
      <4> QED BY <1>1, <2>1, <4>1, <4>2 DEF Ledger!Ascending
    <3>2. CASE ~(i <= m)
      <4>1. i - m \in 1..n /\ j - m \in 1..n /\ i - m < j - m
        BY <2>1, <3>2
      <4>2. all[i] = page[i - m] /\ all[j] = page[j - m]
        BY <1>7, <2>1, <3>2
      <4> QED BY <1>4, <4>1, <4>2 DEF Ascending
    <3>3. CASE i <= m /\ ~(j <= m)
      <4>1. i \in 1..m /\ j - m \in 1..n
        BY <3>3
      <4>2. all[i] = at[i] /\ all[j] = page[j - m]
        BY <1>7, <3>3
      <4>3. at[i] \in 1..a /\ page[j - m] \in a + 1..b
        BY <1>5, <1>6, <4>1
      <4> QED BY <1>4, <4>2, <4>3
    <3> QED BY <2>1, <3>1, <3>2, <3>3
  <2> QED BY <1>7, <2>1 DEF Ledger!Ascending
<1>14. ASSUME NEW p \in Ledger!OfSession(ledger, 1..b) PROVE p \in Ledger!On(all)
  <2>1. p \in 1..b /\ p \in 1..Len(ledger) /\ ledger[p].stream = Ledger!Session
    BY DEF Ledger!OfSession
  <2>2. CASE p <= a
    <3>1. p \in Ledger!OfSession(ledger, 1..a)
      BY <1>4, <2>1, <2>2 DEF Ledger!OfSession
    <3>2. PICK k \in 1..m : at[k] = p
      BY <1>1, <1>4, <3>1 DEF Ledger!On
    <3>3. k \in 1..(m + n) /\ all[k] = p
      BY <1>7, <3>2
    <3> QED BY <1>7, <3>3 DEF Ledger!On
  <2>3. CASE ~(p <= a)
    <3>1. p \in Ledger!OfSession(ledger, a + 1..b)
      BY <1>4, <2>1, <2>3 DEF Ledger!OfSession
    <3>2. PICK k \in 1..n : page[k] = p
      BY <1>4, <3>1 DEF On
    <3>3. m + k \in 1..(m + n) /\ all[m + k] = p
      BY <1>7, <3>2
    <3> QED BY <1>7, <3>3 DEF Ledger!On
  <2> QED BY <2>2, <2>3
<1>15. Ledger!AreOfSession(events, ledger, 1..b)
  BY <1>9, <1>11, <1>12, <1>13, <1>14 DEF Ledger!AreOfSession
<1> QED BY <1>8, <1>15

\* A page leaves the reader with all of its session up to its cursor, a short one with all of it.
LEMMA ReadKeeps ==
  ASSUME LedgerTypes, Ledger!Valid(rows), Ledger!ReadsInOrder, Ledger!ReadPage
  PROVE  /\ LedgerTypes' /\ Ledger!ReadsInOrder'
         /\ reader'.ended => Ledger!AreOfSession(reader'.read, rows, 1..Len(rows))
<1> DEFINE Behind(b) == Ledger!OfSession(rows, reader.after + 1..b)
<1>1. /\ rows \in Seq(Events) /\ Len(rows) \in Nat /\ reader.after \in 0..Len(rows)
      /\ reader.after \in Nat /\ reader.read \in Seq(Events)
  BY DEF LedgerTypes, Readers
<1>2. PICK page : page = Ledger!PageOf(rows, reader.after)
  OBVIOUS
<1>3. /\ reader' = [after |-> IF page = <<>> THEN reader.after ELSE Ledger!Last(page),
                    read |-> reader.read \o [k \in 1..Len(page) |-> rows[page[k]]],
                    ended |-> Len(page) < Limit]
      /\ rows' = rows /\ sender' = sender
  BY <1>2 DEF Ledger!ReadPage
<1>4. /\ page \in Seq(Behind(Len(rows))) /\ Len(page) <= Limit
      /\ Ascending(page) /\ Covers(page, Behind(Len(rows)), Limit)
  BY <1>1, <1>2, PageRead
<1>5. PICK n \in Nat : n = Len(page)
  BY <1>4
<1>6. DOMAIN page = 1..n
  BY <1>4, <1>5
<1>7. ASSUME NEW k \in 1..n
      PROVE  page[k] \in reader.after + 1..Len(rows) /\ rows[page[k]].stream = Ledger!Session
  <2>1. page[k] \in Behind(Len(rows))
    BY <1>4, <1>6
  <2> QED BY <2>1 DEF Ledger!OfSession
<1>8. Ledger!AreOfSession(reader.read, rows, 1..reader.after)
  BY DEF Ledger!ReadsInOrder
<1>9. reader.read \o [k \in 1..Len(page) |-> rows[page[k]]] \in Seq(Events)
  <2>1. ASSUME NEW k \in 1..n PROVE rows[page[k]] \in Events
    <3>1. page[k] \in 1..Len(rows)
      BY <1>1, <1>7
    <3> QED BY <1>1, <3>1
  <2>2. [k \in 1..n |-> rows[page[k]]] \in Seq(Events)
    <3>1. [k \in 1..n |-> rows[page[k]]] \in [1..n -> Events]
      BY <2>1
    <3> QED BY <3>1
  <2> QED BY <1>1, <1>5, <2>2
\* The cursor behind the page: all rows of the session up to it are on the page.
<1>10. PICK after : after = reader'.after
  OBVIOUS
<1>11. after \in reader.after..Len(rows) /\ page \in Seq(Behind(after)) /\ Behind(after) \subseteq On(page)
  <2>1. CASE page = <<>>
    <3>1. after = reader.after
      BY <1>3, <1>10, <2>1
    <3>2. Behind(after) = {}
      BY <1>1, <3>1 DEF Ledger!OfSession
    <3>3. <<>> \in Seq({}) /\ after \in reader.after..Len(rows)
      BY <1>1, <3>1
    <3> QED BY <2>1, <3>2, <3>3
  <2>2. CASE page # <<>>
    <3>1. n \in 1..n /\ after = page[n]
      BY <1>3, <1>4, <1>5, <1>10, <2>2 DEF Ledger!Last
    <3>2. after \in reader.after + 1..Len(rows) /\ after \in Nat
      BY <1>1, <1>7, <3>1
    <3>3. ASSUME NEW k \in 1..n PROVE page[k] \in Behind(after)
      <4>1. page[k] \in reader.after + 1..Len(rows) /\ rows[page[k]].stream = Ledger!Session
        BY <1>7
      <4>2. k = n \/ page[k] < page[n]
        BY <1>4, <1>6, <3>1 DEF Ascending
      <4>3. page[k] \in reader.after + 1..after /\ page[k] \in 1..Len(rows)
        BY <1>1, <3>1, <3>2, <4>1, <4>2
      <4> QED BY <1>1, <4>1, <4>3 DEF Ledger!OfSession
    <3>4. page \in Seq(Behind(after))
      <4> HIDE DEF Behind
      <4>1. page \in [1..n -> Behind(after)]
        BY <1>4, <1>6, <3>3
      <4> QED BY <4>1
    <3>5. ASSUME NEW p \in Behind(after) PROVE p \in On(page)
      <4>1. p \in Behind(Len(rows)) /\ p \in Nat /\ p <= after
        BY <1>1, <3>2 DEF Ledger!OfSession
      <4>2. CASE p \notin On(page)
        <5>1. page[n] < p
          BY <1>4, <1>6, <3>1, <4>1, <4>2 DEF Covers
        <5> QED BY <3>1, <3>2, <4>1, <5>1
      <4> QED BY <4>2
    <3> QED BY <1>1, <3>2, <3>4, <3>5
  <2> QED BY <2>1, <2>2
<1>12. Ledger!AreOfSession(reader'.read, rows, 1..after)
  <2>1. reader'.read = reader.read \o [k \in 1..Len(page) |-> rows[page[k]]]
    BY <1>3
  <2> QED BY <1>1, <1>4, <1>8, <1>11, <2>1, PagesJoin
<1>13. ASSUME reader'.ended PROVE Ledger!AreOfSession(reader'.read, rows, 1..Len(rows))
  <2>1. reader'.read = reader.read \o [k \in 1..Len(page) |-> rows[page[k]]] /\ Len(page) < Limit
    BY <1>3, <1>13
  <2>2. Behind(Len(rows)) \subseteq On(page)
    <3>1. Len(page) # Limit
      BY <1>5, <2>1, LedgerConstants
    <3> QED BY <1>4, <3>1 DEF Covers
  <2>3. Len(rows) \in reader.after..Len(rows)
    BY <1>1
  <2> QED BY <1>1, <1>4, <1>8, <2>1, <2>2, <2>3, PagesJoin
<1>14. reader' \in Readers /\ reader'.after <= Len(rows)
  <2>1. after \in Nat /\ after <= Len(rows)
    BY <1>1, <1>11
  <2> QED BY <1>3, <1>9, <1>10, <2>1 DEF Readers
<1>15. LedgerTypes'
  BY <1>3, <1>14 DEF LedgerTypes
<1>16. Ledger!ReadsInOrder'
  BY <1>3, <1>10, <1>12 DEF Ledger!ReadsInOrder
<1> QED BY <1>13, <1>15, <1>16

\* What was read stays what is up to the cursor while the ledger grows.
LEMMA GrowthKeepsReading ==
  ASSUME NEW old \in Seq(Events), NEW new \in Seq(Events), Grown(old, new), NEW a \in 0..Len(old),
         NEW read, Ledger!AreOfSession(read, old, 1..a)
  PROVE  Ledger!AreOfSession(read, new, 1..a)
<1>1. /\ Len(old) \in Nat /\ Len(new) \in Nat /\ DOMAIN old = 1..Len(old) /\ DOMAIN new = 1..Len(new)
      /\ Len(old) <= Len(new)
  BY DEF Grown
<1>2. Ledger!OfSession(new, 1..a) = Ledger!OfSession(old, 1..a)
  BY <1>1 DEF Grown, Ledger!OfSession
<1>3. \A k \in Ledger!OfSession(old, 1..a) : new[k] = old[k]
  BY <1>1 DEF Grown, Ledger!OfSession
<1> QED BY <1>2, <1>3 DEF Ledger!AreOfSession

LEMMA LedgerStep ==
  ASSUME LedgerInductive, Ledger!Next
  PROVE  LedgerInductive' /\ Ledger!EndIsTheEnd
<1>1. /\ LedgerTypes /\ Ledger!Valid(rows) /\ RefusedForGood /\ Ledger!ReadsInOrder
      /\ rows \in Seq(Events) /\ sender \in [Senders -> Senderships] /\ reader.after \in 0..Len(rows)
  BY DEF LedgerInductive, LedgerTypes, Readers
<1>2. CASE Ledger!ReadPage
  <2>1. rows' = rows /\ sender' = sender
    BY <1>2 DEF Ledger!ReadPage
  <2>2. Ledger!Valid(rows)' /\ RefusedForGood'
    BY <1>1, <2>1 DEF RefusedForGood
  <2>3. LedgerTypes' /\ Ledger!ReadsInOrder' /\ Ledger!EndIsTheEnd
    BY <1>1, <1>2, ReadKeeps DEF Ledger!EndIsTheEnd
  <2> QED BY <2>2, <2>3 DEF LedgerInductive
<1>3. ASSUME UNCHANGED <<rows, reader>>, sender' \in [Senders -> Senderships], RefusedForGood'
      PROVE  LedgerInductive'
  BY <1>1, <1>3 DEF LedgerInductive, LedgerTypes, Ledger!ReadsInOrder
<1>4. ASSUME NEW s \in Senders, Ledger!Send(s) PROVE LedgerInductive' /\ UNCHANGED reader
  <2>1. PICK batch \in Ledger!Batches :
          sender' = [sender EXCEPT ![s] = [Ledger!Idle EXCEPT !.batch = batch, !.state = "sent"]]
    BY <1>4 DEF Ledger!Send
  <2>2. batch \in Seq(Events)
    <3>1. PICK n \in 1..MaxBatch : batch \in [1..n -> Events]
      BY DEF Ledger!Batches
    <3> QED BY <3>1, LedgerConstants
  <2>3. PICK new : new = [Ledger!Idle EXCEPT !.batch = batch, !.state = "sent"]
    OBVIOUS
  <2>4. new \in Senderships /\ new.state = "sent"
    <3>1. Ledger!Idle \in Senderships
      BY DEF Ledger!Idle, Senderships
    <3> HIDE DEF Ledger!Idle
    <3> QED BY <2>2, <2>3, <3>1 DEF Senderships
  <2>5. rows' = rows /\ reader' = reader
    BY <1>4 DEF Ledger!Send
  <2>6. sender' = [sender EXCEPT ![s] = new]
    BY <2>1, <2>3
  <2>7. sender' \in [Senders -> Senderships]
    BY <1>1, <2>4, <2>6
  <2>8. RefusedForGood'
    BY <1>1, <2>4, <2>5, <2>6 DEF RefusedForGood
  <2> QED BY <1>3, <2>5, <2>7, <2>8
<1>5. ASSUME NEW s \in Senders, Ledger!AppendBatch(s) PROVE LedgerInductive' /\ UNCHANGED reader
  <2>1. PICK mine \in Senderships : mine = sender[s]
    BY <1>1
  <2>2. PICK result : result = Ledger!Appended(rows, mine.batch)
    OBVIOUS
  <2>3. /\ rows' = IF result.error = "none" THEN result.ledger ELSE rows
        /\ sender' = [sender EXCEPT ![s] = IF result.error = "none"
             THEN [mine EXCEPT !.state = "appended", !.rowIds = result.rowIds]
             ELSE [mine EXCEPT !.state = result.error]]
        /\ reader' = reader
    BY <1>1, <1>5, <2>1, <2>2 DEF Ledger!AppendBatch
  <2>4. mine.batch \in Seq(Events)
    BY DEF Senderships
  <2>5. After(result, Len(mine.batch), rows, mine.batch)
    BY <1>1, <2>2, <2>4, BatchKeeps
  <2>6. /\ result.ledger \in Seq(Events) /\ result.rowIds \in Seq(Nat)
        /\ result.error \in {"none", "conflict", "sequence"}
    BY <2>5 DEF After, States
  <2>7. rows' \in Seq(Events) /\ Grown(rows, rows') /\ Ledger!Valid(rows)'
    <3>1. Grown(rows, rows) /\ Grown(rows, result.ledger) /\ Ledger!Valid(result.ledger)
      <4>1. Len(rows) \in Nat
        BY <1>1
      <4> QED BY <2>5, <4>1 DEF After, Grown
    <3> QED BY <1>1, <2>3, <2>6, <3>1
  <2>8. PICK new : new = IF result.error = "none"
             THEN [mine EXCEPT !.state = "appended", !.rowIds = result.rowIds]
             ELSE [mine EXCEPT !.state = result.error]
    OBVIOUS
  <2>9. new \in Senderships /\ new.batch = mine.batch
        /\ new.state = IF result.error = "none" THEN "appended" ELSE result.error
    BY <2>6, <2>8 DEF Senderships
  <2>10. sender' = [sender EXCEPT ![s] = new]
    BY <2>3, <2>8
  <2>11. sender' \in [Senders -> Senderships]
    BY <1>1, <2>9, <2>10
  <2>12. ASSUME NEW t \in Senders
         PROVE  /\ sender'[t].state = "conflict" => Clashes(sender'[t].batch, rows')
                /\ sender'[t].state = "sequence" /\ Ledger!Valid(sender'[t].batch)
                     => Misses(sender'[t].batch, rows')
    <3>1. CASE t = s
      <4>1. sender'[t] = new
        BY <1>1, <2>10, <3>1
      <4>2. result.error # "none" => rows' = rows
        BY <2>3
      <4> QED BY <2>5, <2>6, <2>9, <4>1, <4>2 DEF After
    <3>2. CASE t # s
      <4>1. sender'[t] = sender[t] /\ sender[t].batch \in Seq(Events)
        BY <1>1, <2>10, <3>2 DEF Senderships
      <4>2. /\ sender[t].state = "conflict" => Clashes(sender[t].batch, rows)
            /\ sender[t].state = "sequence" /\ Ledger!Valid(sender[t].batch)
                     => Misses(sender[t].batch, rows)
        BY <1>1 DEF RefusedForGood
      <4>3. Ledger!Valid(rows')
        BY <2>7
      <4> QED BY <1>1, <2>7, <4>1, <4>2, <4>3, RefusalsLast
    <3> QED BY <3>1, <3>2
  <2>13. RefusedForGood'
    BY <2>12 DEF RefusedForGood
  <2>14. Ledger!ReadsInOrder'
    <3>1. Ledger!AreOfSession(reader.read, rows, 1..reader.after)
      BY <1>1 DEF Ledger!ReadsInOrder
    <3>2. Ledger!AreOfSession(reader.read, rows', 1..reader.after)
      BY <1>1, <2>7, <3>1, GrowthKeepsReading
    <3> QED BY <2>3, <3>2 DEF Ledger!ReadsInOrder
  <2>15. LedgerTypes'
    <3>1. Len(rows) \in Nat /\ Len(rows') \in Nat /\ Len(rows) <= Len(rows')
      BY <1>1, <2>7 DEF Grown
    <3>2. reader \in Readers /\ reader.after <= Len(rows) /\ reader.after \in Nat
      BY <1>1 DEF LedgerTypes, Readers
    <3>3. reader.after <= Len(rows')
      BY <3>1, <3>2
    <3> QED BY <2>3, <2>7, <2>11, <3>2, <3>3 DEF LedgerTypes
  <2> QED BY <2>3, <2>7, <2>13, <2>14, <2>15 DEF LedgerInductive
<1>6. ASSUME NEW s \in Senders, Ledger!Lose(s) PROVE LedgerInductive' /\ UNCHANGED reader
  <2>1. PICK mine \in Senderships : mine = sender[s]
    BY <1>1
  <2>2. PICK new : new = [mine EXCEPT !.state = "sent", !.rowIds = <<>>]
    OBVIOUS
  <2>3. new \in Senderships /\ new.state = "sent"
    <3>1. <<>> \in Seq(Nat)
      OBVIOUS
    <3> QED BY <2>2, <3>1 DEF Senderships
  <2>4. sender' = [sender EXCEPT ![s] = new] /\ rows' = rows /\ reader' = reader
    BY <1>1, <1>6, <2>1, <2>2 DEF Ledger!Lose
  <2>5. sender' \in [Senders -> Senderships]
    BY <1>1, <2>3, <2>4
  <2>6. RefusedForGood'
    BY <1>1, <2>3, <2>4 DEF RefusedForGood
  <2> QED BY <1>3, <2>4, <2>5, <2>6
<1>7. ASSUME NEW s \in Senders, Ledger!Done(s) PROVE LedgerInductive' /\ UNCHANGED reader
  <2>1. sender' = [sender EXCEPT ![s] = Ledger!Idle] /\ rows' = rows /\ reader' = reader
    BY <1>7 DEF Ledger!Done
  <2>2. Ledger!Idle \in Senderships /\ Ledger!Idle.state = "idle"
    BY DEF Ledger!Idle, Senderships
  <2>3. sender' \in [Senders -> Senderships]
    BY <1>1, <2>1, <2>2
  <2>4. RefusedForGood'
    BY <1>1, <2>1, <2>2 DEF RefusedForGood
  <2> QED BY <1>3, <2>1, <2>3, <2>4
\* Only ReadPage changes the reader's record to another, and a page it reads twice is the same.
<1>8. ASSUME ~Ledger!ReadPage PROVE Ledger!EndIsTheEnd
  BY <1>8 DEF Ledger!EndIsTheEnd
<1>9. CASE ~Ledger!ReadPage
  BY <1>4, <1>5, <1>6, <1>7, <1>8, <1>9 DEF Ledger!Next
<1> QED BY <1>2, <1>9

-----------------------------------------------------------------------------
(* The theorems.                                                           *)

\* LedgerInductive is an invariant of the ledger.
THEOREM LedgerInvariance == MCSpec => [](IsLedger => LedgerInductive)
<1> DEFINE Inv == IsLedger => LedgerInductive
<1>1. MCInit => Inv
  <2>1. ASSUME Ledger!Init PROVE LedgerInductive
    <3>1. rows = <<>> /\ sender = [s \in Senders |-> Ledger!Idle]
          /\ reader = [after |-> 0, read |-> <<>>, ended |-> FALSE]
      BY <2>1 DEF Ledger!Init
    <3>2. Ledger!Idle \in Senderships /\ Ledger!Idle.state = "idle"
      BY DEF Ledger!Idle, Senderships
    <3>3. LedgerTypes /\ RefusedForGood
      BY <3>1, <3>2 DEF LedgerTypes, Readers, RefusedForGood
    <3>4. Ledger!Valid(rows)
      BY <3>1 DEF Ledger!Valid
    <3>5. Ledger!ReadsInOrder
      <4>1. PICK at : at = <<>>
        OBVIOUS
      <4>2. Ledger!OfSession(rows, 1..0) = {}
        BY <3>1 DEF Ledger!OfSession
      <4>3. at \in [DOMAIN reader.read -> {}] /\ DOMAIN at = {} /\ DOMAIN reader.read = {}
        BY <3>1, <4>1
      <4> QED BY <3>1, <4>2, <4>3 DEF Ledger!ReadsInOrder, Ledger!AreOfSession, Ledger!Ascending
    <3> QED BY <3>3, <3>4, <3>5 DEF LedgerInductive
  <2> QED BY <2>1 DEF MCInit, IsLedger, IsHistory
<1>2. Inv /\ [MCNext]_<<part, task, ledgerVars>> => Inv'
  <2>1. ASSUME Inv, IsLedger, Ledger!Next, UNCHANGED part PROVE Inv'
    BY <2>1, LedgerStep DEF IsLedger
  <2>2. ASSUME Inv, UNCHANGED <<part, ledgerVars>> PROVE Inv'
    BY <2>2 DEF IsLedger, ledgerVars, LedgerInductive, LedgerTypes, RefusedForGood, Ledger!ReadsInOrder
  <2> QED BY <2>1, <2>2 DEF MCNext
<1> QED BY <1>1, <1>2, PTL DEF MCSpec

\* What the ledger accepted or refused stands, and it stays readable, for all events and batches.
THEOREM LedgerKept == MCSpec => []LedgerStands
<1>1. (IsLedger => LedgerInductive) => LedgerStands
  BY LedgerStandsFollows DEF LedgerStands
<1> QED BY <1>1, LedgerInvariance, PTL

\* A reader in pages of any size reads every row of its session once, in order.
THEOREM NothingMissed == MCSpec => ReaderMissesNothing
<1>1. (IsLedger => LedgerInductive) => (IsLedger => Ledger!ReadsInOrder)
  BY DEF LedgerInductive
<1>2. (IsLedger => LedgerInductive) /\ [MCNext]_<<part, task, ledgerVars>>
        => [IsLedger => Ledger!EndIsTheEnd]_ledgerVars
  <2>1. ASSUME LedgerInductive, Ledger!Next PROVE Ledger!EndIsTheEnd
    BY <2>1, LedgerStep
  <2> QED BY <2>1 DEF MCNext
<1> QED BY <1>1, <1>2, LedgerInvariance, PTL DEF MCSpec, ReaderMissesNothing
=============================================================================
