------------------------ MODULE RecoveryJournalProofs ------------------------
(***************************************************************************)
(* RecoveryJournal for every set of intents and every size of the log:     *)
(* Inductive is an invariant, and the three files implement ControlRecord. *)
(*                                                                         *)
(* Then the event stream that MCStreams puts beside it, for every outbox,  *)
(* every size of a page and any number of restarts: StreamInductive is an  *)
(* invariant, and the client misses no event of its workspace.             *)
(***************************************************************************)
EXTENDS MCStreams, Pages, Integers, FiniteSetTheorems, TLAPS

-----------------------------------------------------------------------------
(* A page: FirstOf holds the first of the positions in order, whatever the positions and   *)
(* the limit.  That there is one is shown by induction over the limit, which rests on the  *)
(* finite sets: smaller numbers have fewer below them.                                     *)

\* Every nonempty set of numbers has a least one, because smaller numbers have fewer below them.
LEMMA LeastNatural ==
  ASSUME NEW T, T \subseteq Nat, T # {}
  PROVE  \E n \in T : \A m \in T : n <= m
<1> DEFINE U == {0..(n - 1) : n \in T}
<1>1. U \subseteq FiniteSubsetsOf(Nat) /\ U # {}
  <2>1. ASSUME NEW n \in T PROVE 0..(n - 1) \in SUBSET Nat /\ IsFiniteSet(0..(n - 1))
    <3>1. n - 1 \in Int /\ 0 \in Int
      OBVIOUS
    <3> QED BY <3>1, FS_Interval
  <2> QED BY <2>1 DEF FiniteSubsetsOf
<1>2. PICK x \in U : \A y \in U : ~(<<y, x>> \in StrictSubsetOrdering(Nat))
  <2> HIDE DEF U
  <2> QED BY <1>1, FS_StrictSubsetOrderingWellFounded, WFMin
<1>3. PICK n \in T : x = 0..(n - 1)
  OBVIOUS
<1>4. ASSUME NEW m \in T, m < n PROVE FALSE
  <2>1. 0..(m - 1) \in U
    OBVIOUS
  <2>2. 0..(m - 1) \in SUBSET Nat /\ x \in SUBSET Nat /\ 0..(m - 1) \subseteq x
    BY <1>3, <1>4
  <2>3. m \in x /\ m \notin 0..(m - 1)
    BY <1>3, <1>4
  <2>4. <<0..(m - 1), x>> \in StrictSubsetOrdering(Nat)
    BY <2>2, <2>3 DEF StrictSubsetOrdering
  <2> QED BY <1>2, <2>1, <2>4
<1> QED BY <1>4

\* An invariant of the numbers: what holds of the first and of the next of each, holds of all.
LEMMA Reached ==
  ASSUME NEW T, 0 \in T, \A n \in Nat : n \in T => n + 1 \in T
  PROVE  Nat \subseteq T
<1> SUFFICES ASSUME Nat \ T # {} PROVE FALSE
  OBVIOUS
<1>1. PICK n \in Nat \ T : \A m \in Nat \ T : n <= m
  BY LeastNatural
<1>2. n # 0 /\ n - 1 \in Nat /\ n - 1 \in T
  BY <1>1
<1> QED BY <1>1, <1>2

\* There is such a page: a row is added to the one before it.
LEMMA PageExists ==
  ASSUME NEW positions, positions \subseteq Nat, NEW limit \in Nat
  PROVE  \E page \in UNION {[1..n -> positions] : n \in 0..limit} :
           Ascending(page) /\ Covers(page, positions, limit)
<1> DEFINE Is(page, l) == /\ page \in Seq(positions) /\ Len(page) <= l
                          /\ Ascending(page) /\ Covers(page, positions, l)
           T == {l \in Nat : \E page : Is(page, l)}
<1>1. 0 \in T
  <2>1. Is(<<>>, 0)
    BY DEF Ascending, Covers
  <2> QED BY <2>1
<1>2. ASSUME NEW l \in Nat, l \in T PROVE l + 1 \in T
  <2>1. PICK page : Is(page, l)
    BY <1>2
  <2>2. /\ page \in Seq(positions) /\ Len(page) \in Nat /\ DOMAIN page = 1..Len(page)
        /\ \A i \in 1..Len(page) : page[i] \in positions
    BY <2>1
  <2>3. CASE positions \subseteq On(page)
    <3>1. Covers(page, positions, l + 1)
      BY <2>3 DEF Covers
    <3>2. Len(page) <= l + 1
      BY <2>1, <2>2
    <3>3. Is(page, l + 1)
      BY <2>1, <3>1, <3>2
    <3> QED BY <3>3
  <2>4. CASE ~(positions \subseteq On(page))
    <3>1. PICK k \in positions \ On(page) : \A j \in positions \ On(page) : k <= j
      <4>1. positions \ On(page) # {} /\ positions \ On(page) \subseteq Nat
        BY <2>4
      <4> QED BY <4>1, LeastNatural
    <3>2. Len(page) = l /\ \A i \in DOMAIN page : page[i] < k
      BY <2>1, <3>1 DEF Covers
    <3>3. PICK new : new = Append(page, k)
      OBVIOUS
    <3>4. /\ new \in Seq(positions) /\ Len(new) = l + 1 /\ new[l + 1] = k
          /\ DOMAIN new = 1..(l + 1) /\ \A i \in 1..l : new[i] = page[i]
      BY <2>2, <3>1, <3>2, <3>3
    <3>5. Ascending(new)
      <4>1. ASSUME NEW i \in 1..(l + 1), NEW j \in 1..(l + 1), i < j PROVE new[i] < new[j]
        <5>1. i \in 1..l /\ (j \in 1..l \/ j = l + 1)
          BY <4>1
        <5> QED BY <2>1, <2>2, <3>2, <3>4, <4>1, <5>1 DEF Ascending
      <4> QED BY <3>4, <4>1 DEF Ascending
    <3>6. Covers(new, positions, l + 1)
      <4>1. On(page) \subseteq On(new) /\ k \in On(new)
        BY <2>2, <3>2, <3>4 DEF On
      <4>2. ASSUME NEW j \in positions \ On(new)
            PROVE  Len(new) = l + 1 /\ \A i \in DOMAIN new : new[i] < j
        <5>1. j \in positions \ On(page) /\ j # k /\ j \in Nat /\ k \in Nat
          BY <4>1, <4>2
        <5>2. k < j
          BY <3>1, <5>1
        <5>3. \A i \in 1..l : page[i] < j
          BY <2>1, <2>2, <3>2, <5>1 DEF Covers
        <5> QED BY <3>4, <5>2, <5>3
      <4> QED BY <4>2 DEF Covers
    <3> QED BY <3>4, <3>5, <3>6
  <2> QED BY <2>3, <2>4
<1> HIDE DEF T
<1>3. limit \in T
  BY <1>1, <1>2, Reached
<1> USE DEF T
<1>4. PICK page : Is(page, limit)
  BY <1>3
<1>5. page \in [1..Len(page) -> positions] /\ Len(page) \in 0..limit
  BY <1>4
<1> QED BY <1>4, <1>5

\* A query with a limit has an answer: the first of the positions, in order, no more than the limit,
\* and fewer only if these are all (the rows readSession and replay return).
LEMMA PageIs ==
  ASSUME NEW positions, positions \subseteq Nat, NEW limit \in Nat,
         NEW page, page = FirstOf(positions, limit)
  PROVE  /\ page \in Seq(positions) /\ Len(page) <= limit
         /\ Ascending(page) /\ Covers(page, positions, limit)
<1>1. page \in UNION {[1..n -> positions] : n \in 0..limit} /\ Ascending(page)
      /\ Covers(page, positions, limit)
  BY PageExists DEF FirstOf
<1>2. PICK n \in 0..limit : page \in [1..n -> positions]
  BY <1>1
<1>3. page \in Seq(positions) /\ Len(page) = n
  BY <1>2
<1> QED BY <1>1, <1>2, <1>3

\* The placeholder of a call without an intent is none of the callers' intents.
LEMMA NoIntentIsNone ==
  ASSUME NEW i \in Intents
  PROVE  i # NoIntent
  BY JournalAssumption DEF NoIntent

\* What a position of a well-formed log holds.
LEMMA RecordAt ==
  ASSUME TypeOK, NEW k \in 1..Len(log)
  PROVE  log[k] \in Records /\ log[k].intent \in Intents /\ log[k].epoch \in Nat
<1>1. log[k] \in Records
  BY DEF TypeOK
<1> QED BY <1>1 DEF Records

\* Every position of a well-formed log has a natural epoch.
LEMMA EpochIsNat ==
  ASSUME TypeOK, NEW n \in 0..Len(log)
  PROVE  EpochAt(n) \in Nat
<1>1. CASE n = 0
  BY <1>1 DEF EpochAt
<1>2. CASE n # 0
  <2>1. Len(log) \in Nat /\ n \in 1..Len(log)
    BY <1>2 DEF TypeOK
  <2> QED BY <1>2, <2>1, RecordAt DEF EpochAt
<1> QED BY <1>1, <1>2

LEMMA TailIsTyped ==
  ASSUME TypeOK
  PROVE  DurableTail \in [sequence : Nat, epoch : Nat] /\ Len(log) \in Nat
  BY EpochIsNat DEF DurableTail, TypeOK

LEMMA InitHolds == Init => Inductive
<1> SUFFICES ASSUME Init PROVE Inductive
  OBVIOUS
<1>1. TypeOK
  <2>1. torn \in BOOLEAN /\ log \in Seq(Records) /\ created \in 0..3
    <3>1. log \in Seq(Records) /\ created \in 0..3
      BY DEF Init
    <3>2. torn \in BOOLEAN
      BY Zenon DEF Init
    <3> QED BY <3>1, <3>2
  <2>2. head \in [sequence : Nat, epoch : Nat] /\ installation \in Nat
    BY DEF Init
  <2>3. /\ staged \subseteq Nat /\ broken \subseteq Nat /\ returned \subseteq Intents
        /\ stage \in Stages /\ request \in Intents \cup {NoIntent}
    BY DEF Init, Stages
  <2> QED BY <2>1, <2>2, <2>3 DEF TypeOK
<1>2. Len(log) = 0 /\ EpochAt(0) = 0 /\ head.sequence = 0 /\ head.epoch = 0
  BY DEF Init, EpochAt
<1>3. Consistent /\ EpochsGrow /\ ReturnedIsAnchored /\ Underway
  BY <1>2 DEF Init, Consistent, EpochsGrow, ReturnedIsAnchored, Underway
<1> QED BY <1>1, <1>3 DEF Inductive, CrashesAreConsistent

\* A step that writes no line and publishes nothing keeps the facts about the files.
LEMMA SameFiles ==
  ASSUME Inductive, UNCHANGED <<log, head, installation>>, TypeOK',
         returned' = returned, Underway'
  PROVE  Inductive'
  BY DEF Inductive, CrashesAreConsistent, Consistent, ReturnedIsAnchored, EpochsGrow, EpochAt

\* The epoch of a position is at most that of a later one, and the installation is behind.
LEMMA EpochOrder ==
  ASSUME Inductive, NEW m \in 0..Len(log), NEW n \in 0..Len(log), m <= n
  PROVE  EpochAt(m) <= EpochAt(n)
<1>1. EpochAt(n) \in Nat
  BY EpochIsNat DEF Inductive
<1>2. CASE m = 0
  BY <1>1, <1>2 DEF EpochAt
<1>3. CASE m # 0
  BY <1>3, TailIsTyped DEF EpochAt, EpochsGrow, Inductive
<1> QED BY <1>2, <1>3

LEMMA InstallationIsBehind ==
  ASSUME Inductive
  PROVE  installation <= DurableTail.epoch
<1>1. head.sequence \in 0..Len(log) /\ Len(log) \in 0..Len(log)
  BY TailIsTyped DEF Inductive, TypeOK, CrashesAreConsistent, Consistent
<1>2. /\ EpochAt(head.sequence) <= EpochAt(Len(log))
      /\ EpochAt(head.sequence) \in Nat /\ EpochAt(Len(log)) \in Nat
  BY <1>1, EpochOrder, EpochIsNat, TailIsTyped DEF Inductive
<1>3. installation <= EpochAt(head.sequence) /\ installation \in Nat
  BY DEF Inductive, TypeOK, CrashesAreConsistent, Consistent
<1> QED BY <1>2, <1>3 DEF DurableTail

LEMMA WriteLineHolds ==
  ASSUME Inductive, NEW i \in Intents, WriteLine(i)
  PROVE  Inductive'
<1> DEFINE r == Record(i)
<1>1. r \in Records /\ log' = Append(log, r) /\ Len(log) \in Nat
  BY TailIsTyped, JournalAssumption DEF WriteLine, Record, Records, Inductive
<1>2. /\ log' \in Seq(Records) /\ Len(log') = Len(log) + 1
      /\ \A k \in 1..Len(log) : log'[k] = log[k]
      /\ log'[Len(log) + 1] = r
  BY <1>1 DEF Inductive, TypeOK
<1>3. TypeOK'
  BY <1>2 DEF WriteLine, Inductive, TypeOK, Stages
<1>4. \A n \in 0..Len(log) : EpochAt(n)' = EpochAt(n)
  BY <1>2 DEF EpochAt
<1>5. r.intent = i /\ r.epoch = EpochAt(Len(log)) + (IF i.restore THEN 1 ELSE 0)
  BY DEF Record, DurableTail
<1> HIDE DEF r
<1>6. Consistent'
  <2>1. \A j, k \in 1..Len(log') :
          log'[j].intent.operation = log'[k].intent.operation => j = k
    <3>1. \A k \in 1..Len(log) : log[k].intent.operation # i.operation
      BY DEF WriteLine, Appendable, Known
    <3>2. \A j, k \in 1..Len(log) :
            log[j].intent.operation = log[k].intent.operation => j = k
      BY DEF Inductive, CrashesAreConsistent, Consistent
    <3> QED BY <1>1, <1>2, <1>5, <3>1, <3>2
  <2>2. ASSUME NEW k \in 1..Len(log')
        PROVE  /\ log'[k].intent.restore => log'[k].intent.expected = EpochAt(k - 1)'
               /\ log'[k].epoch = EpochAt(k - 1)' + (IF log'[k].intent.restore THEN 1 ELSE 0)
    <3>1. CASE k \in 1..Len(log)
      <4>1. EpochAt(k - 1)' = EpochAt(k - 1)
        BY <1>1, <1>4, <3>1
      <4> QED BY <1>2, <3>1, <4>1 DEF Inductive, CrashesAreConsistent, Consistent
    <3>2. CASE k = Len(log) + 1
      <4>1. EpochAt(k - 1)' = EpochAt(Len(log))
        BY <1>1, <1>4, <3>2
      <4>2. i.restore => i.expected = EpochAt(Len(log))
        BY DEF WriteLine, Appendable, DurableTail
      <4> QED BY <1>2, <1>5, <3>2, <4>1, <4>2
    <3> QED BY <1>1, <1>2, <3>1, <3>2
  <2>3. head' = head /\ installation' = installation /\ head.sequence \in 0..Len(log)
    BY <1>1 DEF WriteLine, Inductive, TypeOK, CrashesAreConsistent, Consistent
  <2>4. EpochAt(head.sequence)' = EpochAt(head.sequence)
    BY <1>2, <2>3 DEF EpochAt
  <2> QED BY <1>1, <1>2, <2>1, <2>2, <2>3, <2>4 DEF Consistent, Inductive, CrashesAreConsistent
<1>7. ReturnedIsAnchored'
  <2>1. returned' = returned /\ head' = head /\ installation' = installation
    BY DEF WriteLine
  <2>2. head.sequence \in Nat /\ head.sequence <= Len(log)
    BY DEF Inductive, TypeOK, CrashesAreConsistent, Consistent
  <2> QED BY <1>1, <1>2, <2>1, <2>2 DEF ReturnedIsAnchored, Inductive
<1>8. Underway'
  BY <1>1, <1>2, <1>5 DEF WriteLine, Underway
<1>9. EpochsGrow'
  <2>1. ASSUME NEW k \in 1..Len(log)
        PROVE  log[k].epoch <= r.epoch
    <3>1. log[k].epoch \in Nat /\ EpochAt(Len(log)) \in Nat
      BY RecordAt, EpochIsNat, TailIsTyped DEF Inductive
    <3>2. log[k].epoch <= EpochAt(Len(log))
      BY TailIsTyped DEF EpochAt, EpochsGrow, Inductive
    <3> QED BY <1>5, <3>1, <3>2
  <2>2. r.epoch \in Nat
    BY <1>1 DEF Records
  <2> QED BY <1>1, <1>2, <2>1, <2>2 DEF EpochsGrow, Inductive
<1> QED BY <1>3, <1>6, <1>7, <1>8, <1>9 DEF Inductive, CrashesAreConsistent

LEMMA RepeatHolds ==
  ASSUME Inductive, NEW i \in Intents, Repeat(i)
  PROVE  Inductive'
<1>1. TypeOK' /\ Consistent' /\ EpochsGrow' /\ Underway'
  BY DEF Repeat, files, Inductive, TypeOK, CrashesAreConsistent, Consistent, EpochsGrow,
         EpochAt, Underway, DurableTail
<1>2. \E k \in 1..head.sequence : log[k].intent = i /\ log[k].epoch <= installation
  <2>1. PICK k \in 1..Len(log) : log[k].intent = i
    BY DEF Repeat
  <2>2. head.sequence = Len(log) /\ installation = EpochAt(Len(log))
    BY DEF Repeat, RecoveryRequired, DurableTail
  <2>3. log[k].epoch <= EpochAt(Len(log))
    BY <2>1, TailIsTyped DEF EpochAt, EpochsGrow, Inductive
  <2> QED BY <2>1, <2>2, <2>3
<1>3. ReturnedIsAnchored'
  BY <1>2 DEF Repeat, files, ReturnedIsAnchored, Inductive
<1> QED BY <1>1, <1>3 DEF Inductive, CrashesAreConsistent

LEMMA PublishHeadHolds ==
  ASSUME Inductive, PublishHead
  PROVE  Inductive'
<1>1. /\ head' = DurableTail /\ UNCHANGED <<log, installation, returned, request>>
      /\ Len(log) \in Nat /\ DurableTail \in [sequence : Nat, epoch : Nat]
  BY TailIsTyped DEF PublishHead, Inductive
<1>2. TypeOK'
  BY <1>1 DEF PublishHead, Inductive, TypeOK, Stages
<1>3. Consistent'
  BY <1>1, InstallationIsBehind DEF DurableTail, Consistent, CrashesAreConsistent, Inductive,
     EpochAt
<1>4. ReturnedIsAnchored'
  <2>1. head.sequence \in Nat /\ head.sequence <= Len(log) /\ head'.sequence = Len(log)
    BY <1>1 DEF Inductive, TypeOK, CrashesAreConsistent, Consistent, DurableTail
  <2> QED BY <1>1, <2>1 DEF ReturnedIsAnchored, Inductive
<1>5. EpochsGrow' /\ Underway'
  BY <1>1 DEF PublishHead, EpochsGrow, Underway, Inductive, DurableTail, EpochAt
<1> QED BY <1>2, <1>3, <1>4, <1>5 DEF Inductive, CrashesAreConsistent

LEMMA RenameInstallationHolds ==
  ASSUME Inductive, RenameInstallation
  PROVE  Inductive'
<1>1. /\ installation' = DurableTail.epoch /\ UNCHANGED <<log, head, returned, request>>
      /\ DurableTail \in [sequence : Nat, epoch : Nat] /\ head = DurableTail
  BY TailIsTyped DEF RenameInstallation, Inductive, Underway
<1>2. TypeOK'
  BY <1>1 DEF RenameInstallation, Inductive, TypeOK, Stages
<1>3. Consistent'
  BY <1>1 DEF Consistent, CrashesAreConsistent, Inductive, EpochAt
<1>4. ReturnedIsAnchored'
  <2>1. \A k \in 1..head.sequence : log[k].epoch \in Nat
    <3>1. head.sequence <= Len(log) /\ head.sequence \in Nat /\ Len(log) \in Nat
      BY TailIsTyped DEF Inductive, TypeOK, CrashesAreConsistent, Consistent
    <3> QED BY <3>1, RecordAt DEF Inductive
  <2>2. installation <= installation' /\ installation \in Nat /\ installation' \in Nat
    BY <1>1, InstallationIsBehind DEF Inductive, TypeOK
  <2> QED BY <1>1, <2>1, <2>2 DEF ReturnedIsAnchored, Inductive
<1>5. EpochsGrow' /\ Underway'
  BY <1>1 DEF RenameInstallation, EpochsGrow, Underway, Inductive, DurableTail, EpochAt
<1> QED BY <1>2, <1>3, <1>4, <1>5 DEF Inductive, CrashesAreConsistent

LEMMA ReturnHolds ==
  ASSUME Inductive, Return
  PROVE  Inductive'
<1>1. UNCHANGED <<log, head, installation>> /\ request' = NoIntent
  BY DEF Return, files
<1>2. TypeOK'
  BY DEF Return, files, Inductive, TypeOK, Stages
<1>3. Consistent' /\ EpochsGrow' /\ Underway'
  BY <1>1 DEF Return, Consistent, EpochsGrow, Underway, CrashesAreConsistent, Inductive, EpochAt
<1>4. ReturnedIsAnchored'
  <2>1. CASE request = NoIntent
    BY <1>1, <2>1 DEF Return, ReturnedIsAnchored, Inductive
  <2>2. CASE request # NoIntent
    <3>1. Len(log) > 0 /\ log[Len(log)].intent = request
      BY <2>2 DEF Inductive, Underway
    <3>2. head.sequence = Len(log) /\ installation = log[Len(log)].epoch /\ installation \in Nat
      BY <3>1 DEF Return, RecoveryRequired, DurableTail, EpochAt, Inductive, TypeOK
    <3>3. Len(log) \in 1..head.sequence
      BY <3>1, <3>2, TailIsTyped DEF Inductive
    <3>4. returned' = returned \cup {request}
      BY <2>2 DEF Return
    <3> QED BY <1>1, <3>1, <3>2, <3>3, <3>4 DEF ReturnedIsAnchored, Inductive
  <2> QED BY <2>1, <2>2
<1> QED BY <1>2, <1>3, <1>4 DEF Inductive, CrashesAreConsistent

\* The other steps change none of the facts about the files.
LEMMA OthersHold ==
  ASSUME Inductive,
         \/ Create \/ Reconcile \/ StageInstallation \/ BreakInstallation \/ Fail
         \/ \E i \in Intents : TearLine(i)
  PROVE  Inductive'
<1>1. UNCHANGED <<log, head, installation, returned>>
  BY DEF Create, Reconcile, StageInstallation, BreakInstallation, Fail, TearLine, files
<1>2. TypeOK'
  <2>1. CASE Create
    BY <2>1 DEF Create, Inductive, TypeOK, Underway, Stages
  <2>2. CASE StageInstallation \/ BreakInstallation
    BY <2>2, TailIsTyped DEF StageInstallation, BreakInstallation, Inductive, TypeOK, Stages
  <2>3. CASE Reconcile \/ Fail \/ \E i \in Intents : TearLine(i)
    BY <2>3 DEF Reconcile, Fail, TearLine, files, Inductive, TypeOK, Stages
  <2> QED BY <2>1, <2>2, <2>3
<1>3. Underway'
  <2>1. DurableTail' = DurableTail
    BY <1>1 DEF DurableTail, EpochAt
  <2>2. CASE Create
    BY <1>1, <2>1, <2>2 DEF Create, Inductive, TypeOK, Underway
  <2>3. CASE StageInstallation \/ BreakInstallation
    BY <1>1, <2>1, <2>3 DEF StageInstallation, BreakInstallation, Inductive, Underway
  <2>4. CASE Reconcile \/ Fail
    BY <1>1, <2>1, <2>4 DEF Reconcile, Fail, files, Inductive, Underway
  <2>5. CASE \E i \in Intents : TearLine(i)
    BY <1>1, <2>1, <2>5 DEF TearLine, Inductive, Underway
  <2> QED BY <2>2, <2>3, <2>4, <2>5
<1> QED BY <1>1, <1>2, <1>3, SameFiles

LEMMA StepHolds == Inductive /\ [Next]_vars => Inductive'
<1> SUFFICES ASSUME Inductive, [Next]_vars PROVE Inductive'
  OBVIOUS
<1>1. CASE UNCHANGED vars
  <2>1. TypeOK' /\ Underway'
    BY <1>1 DEF vars, files, Inductive, TypeOK, Underway, DurableTail, EpochAt
  <2> QED BY <1>1, <2>1, SameFiles DEF vars, files
<1>2. CASE \E i \in Intents : WriteLine(i) \/ Repeat(i)
  BY <1>2, WriteLineHolds, RepeatHolds
<1>3. CASE PublishHead \/ RenameInstallation \/ Return
  BY <1>3, PublishHeadHolds, RenameInstallationHolds, ReturnHolds
<1> QED BY <1>1, <1>2, <1>3, OthersHold DEF Next

\* Inductive holds in every reachable state.
THEOREM Invariance == Spec => []Inductive
<1> QED BY InitHolds, StepHolds, PTL DEF Spec

\* Every variable keeps its type: the files hold what their formats say.
THEOREM TypeCorrect == Spec => []TypeOK
<1>1. Inductive => TypeOK
  BY DEF Inductive
<1> QED BY <1>1, Invariance, PTL

\* Wherever an operation of the journal is cut off, its files pass inspection, but for a
\* line cut off within itself and an initialization cut off.
THEOREM CrashConsistency == Spec => []CrashesAreConsistent
<1>1. Inductive => CrashesAreConsistent
  BY DEF Inductive
<1> QED BY <1>1, Invariance, PTL

\* A returned record stays under the head and within the installation's epoch.
THEOREM ReturnsAreFinal == Spec => []ReturnedIsAnchored
<1>1. Inductive => ReturnedIsAnchored
  BY DEF Inductive
<1> QED BY <1>1, Invariance, PTL
-----------------------------------------------------------------------------
DecidedIntents == [k \in 1..Len(log) |-> log[k].intent]
Settled == Ready /\ ~RecoveryRequired

\* The decisions are a sequence as long as the log.
LEMMA DecisionsAreASequence ==
  ASSUME TypeOK
  PROVE  /\ DecidedIntents \in Seq(Intents) /\ Len(DecidedIntents) = Len(log)
         /\ Control!Decided = {log[k].intent : k \in 1..Len(log)}
<1>1. Len(log) \in Nat
  BY TailIsTyped
<1>2. \A k \in 1..Len(log) : log[k].intent \in Intents
  BY RecordAt
<1>3. DecidedIntents \in Seq(Intents) /\ Len(DecidedIntents) = Len(log)
  BY <1>1, <1>2 DEF DecidedIntents
<1>4. Control!Decided = {DecidedIntents[k] : k \in 1..Len(DecidedIntents)}
  BY DEF Control!Decided, DecidedIntents
<1> QED BY <1>3, <1>4 DEF DecidedIntents

\* A step that writes no line and returns nothing opens the record, shuts it or is no step.
LEMMA QuietMaps ==
  ASSUME UNCHANGED <<log, returned>>
  PROVE  [Control!Next]_(Control!control)
<1>1. UNCHANGED <<DecidedIntents, DurableTail, returned>>
  BY DEF DecidedIntents, DurableTail, EpochAt
<1>2. CASE ~Settled'
  BY <1>1, <1>2 DEF Control!Next, Control!Shut, Settled, DecidedIntents
<1>3. CASE Settled' /\ ~Settled
  BY <1>1, <1>3 DEF Control!Next, Control!Open, Settled, DecidedIntents
<1>4. CASE Settled' /\ Settled
  BY <1>1, <1>4 DEF Control!control, Settled, DecidedIntents
<1> QED BY <1>2, <1>3, <1>4

\* append's line is a decision.
LEMMA WriteLineMaps ==
  ASSUME Inductive, NEW i \in Intents, WriteLine(i)
  PROVE  Control!Decide(i)
<1>1. TypeOK /\ Len(log) \in Nat /\ log' = Append(log, Record(i)) /\ returned' = returned
  BY TailIsTyped DEF Inductive, WriteLine
<1>2. /\ Len(log') = Len(log) + 1 /\ log'[Len(log) + 1] = Record(i)
      /\ \A k \in 1..Len(log) : log'[k] = log[k]
  BY <1>1 DEF TypeOK
<1>3. DecidedIntents' = Append(DecidedIntents, i)
  <2>1. Record(i).intent = i
    BY DEF Record
  <2>2. DecidedIntents' = [k \in 1..(Len(log) + 1) |->
                             IF k \in 1..Len(log) THEN log[k].intent ELSE i]
    BY <1>1, <1>2, <2>1 DEF DecidedIntents
  <2> HIDE DEF DecidedIntents
  <2> QED BY <1>1, <2>2, DecisionsAreASequence DEF DecidedIntents
<1>4. DurableTail.epoch' = DurableTail.epoch + (IF i.restore THEN 1 ELSE 0)
  BY <1>1, <1>2 DEF DurableTail, EpochAt, Record
<1>5. \A d \in Control!Decided : d.operation # i.operation
  BY <1>1, DecisionsAreASequence DEF WriteLine, Appendable, Known
<1>6. Settled /\ ~Settled' /\ (i.restore => i.expected = DurableTail.epoch)
  BY DEF WriteLine, Appendable, Settled, Ready
<1> QED BY <1>1, <1>3, <1>4, <1>5, <1>6 DEF Control!Decide, Settled, DecidedIntents

\* Returning a record confirms a decision.
LEMMA ConfirmMaps ==
  ASSUME Inductive, NEW i, \E k \in 1..Len(log) : log[k].intent = i,
         UNCHANGED log, returned' = returned \cup {i}, Settled'
  PROVE  Control!Settle
<1>1. i \in Control!Decided
  BY DecisionsAreASequence DEF Inductive
<1>2. UNCHANGED <<DecidedIntents, DurableTail>>
  BY DEF DecidedIntents, DurableTail, EpochAt
<1> QED BY <1>1, <1>2 DEF Control!Settle, Settled, DecidedIntents

LEMMA StepMaps ==
  ASSUME Inductive, [Next]_vars
  PROVE  [Control!Next]_(Control!control)
<1>1. ASSUME NEW i \in Intents, WriteLine(i)
      PROVE  Control!Next
  BY <1>1, WriteLineMaps DEF Control!Next
<1>2. ASSUME NEW i \in Intents, Repeat(i)
      PROVE  Control!Next
  <2>1. Settled'
    BY <1>2 DEF Repeat, files, Settled, Ready, Inspectable, Consistent, RecoveryRequired,
       DurableTail, EpochAt
  <2> QED BY <1>2, <2>1, ConfirmMaps DEF Repeat, files, Control!Next
<1>3. CASE Return
  <2>1. CASE request = NoIntent
    BY <1>3, <2>1, QuietMaps DEF Return, files
  <2>2. CASE request # NoIntent
    <3>1. Settled'
      BY <1>3 DEF Return, files, Settled, Ready, Inspectable, Consistent, RecoveryRequired,
         DurableTail, EpochAt
    <3>2. \E k \in 1..Len(log) : log[k].intent = request
      <4>1. Len(log) \in Nat /\ Len(log) > 0 /\ log[Len(log)].intent = request
        BY <2>2, TailIsTyped DEF Inductive, Underway
      <4> QED BY <4>1
    <3> QED BY <1>3, <2>2, <3>1, <3>2, ConfirmMaps DEF Return, files, Control!Next
  <2> QED BY <2>1, <2>2
<1>4. CASE \/ Create \/ Reconcile \/ PublishHead \/ StageInstallation \/ BreakInstallation
           \/ RenameInstallation \/ Fail \/ UNCHANGED vars
           \/ \E i \in Intents : TearLine(i)
  BY <1>4, QuietMaps DEF Create, Reconcile, PublishHead, StageInstallation, BreakInstallation,
     RenameInstallation, Fail, TearLine, vars, files
<1> QED BY <1>1, <1>2, <1>3, <1>4 DEF Next

\* The journal's three files implement one record of decisions: append's line decides,
\* nothing decided is withdrawn or decided twice, restores follow their epochs, and nothing
\* is decided or confirmed while an earlier decision is not anchored.
THEOREM ControlRecordImplemented == Spec => ControlRecordKept
<1>1. Init => Control!Init
  <2> SUFFICES ASSUME Init PROVE Control!Init
    OBVIOUS
  <2>1. Len(log) = 0 /\ DurableTail.epoch = 0 /\ returned = {} /\ ~Settled
    BY DEF Init, DurableTail, EpochAt, Settled, Ready
  <2>2. DecidedIntents = <<>>
    BY <2>1 DEF DecidedIntents
  <2> QED BY <2>1, <2>2 DEF Control!Init, Settled, DecidedIntents
<1>2. Inductive /\ [Next]_vars => [Control!Next]_(Control!control)
  BY StepMaps
<1> QED BY <1>1, <1>2, Invariance, PTL DEF Spec, ControlRecordKept, Control!Spec

-----------------------------------------------------------------------------
(* The event stream.                                                       *)

OutboxRows == [workspace : Stream!Workspaces, entity : Stream!Entities]
\* The counting of one outbox o, which need not be the present one.
MineIn(o, a, c) == {k \in a + 1..c : o[k].workspace = "mine"}
Changes(o, e, c) == {k \in 1..c : o[k] = [workspace |-> "mine", entity |-> e]}
RevisionIn(o, e, c) == Cardinality(Changes(o, e, c))
KnownIn(o, c) == [e \in Stream!Entities |-> RevisionIn(o, e, c)]
FrameOf(o, p, k) == [kind |-> "event", process |-> p, at |-> k,
                     entity |-> o[k].entity, revision |-> RevisionIn(o, o[k].entity, k)]
FramesOf(o, p, ats) == [i \in 1..Len(ats) |-> FrameOf(o, p, ats[i])]
\* ats are the rows of the workspace behind a and up to c.
Covered(o, a, c, ats) ==
  /\ a \in Nat /\ c \in a..Len(o) /\ ats \in Seq(Nat)
  /\ Ascending(ats) /\ On(ats) = MineIn(o, a, c)

LEMMA SameCardinality ==
  ASSUME NEW S
  PROVE  Stream!Cardinality(S) = Cardinality(S)
  BY DEF Stream!Cardinality, Cardinality

LEMMA RevisionsAgree ==
  /\ \A e, c : Stream!RevisionAt(e, c) = RevisionIn(outbox, e, c)
  /\ \A c : Stream!Known(c) = KnownIn(outbox, c)
<1>1. ASSUME NEW e, NEW c PROVE Stream!RevisionAt(e, c) = RevisionIn(outbox, e, c)
  BY SameCardinality DEF Stream!RevisionAt, RevisionIn, Changes
<1>2. ASSUME NEW c PROVE Stream!Known(c) = KnownIn(outbox, c)
  BY <1>1 DEF Stream!Known, KnownIn
<1> QED BY <1>1, <1>2

LEMMA RevisionIsNat ==
  ASSUME NEW o, NEW e, NEW c \in Nat
  PROVE  IsFiniteSet(Changes(o, e, c)) /\ RevisionIn(o, e, c) \in Nat
<1>1. IsFiniteSet(1..c) /\ Changes(o, e, c) \subseteq 1..c
  BY FS_Interval DEF Changes
<1>2. IsFiniteSet(Changes(o, e, c))
  BY <1>1, FS_Subset
<1> QED BY <1>2, FS_CardinalityType DEF RevisionIn

\* Between two rows of the workspace nothing is counted; a row counts for its entity.
LEMMA OneRowCounts ==
  ASSUME NEW o \in Seq(OutboxRows), NEW a \in Nat, NEW b \in a + 1..Len(o), MineIn(o, a, b) = {b},
         NEW e \in Stream!Entities
  PROVE  RevisionIn(o, e, b) = IF e = o[b].entity THEN RevisionIn(o, e, a) + 1 ELSE RevisionIn(o, e, a)
<1>1. /\ Len(o) \in Nat /\ DOMAIN o = 1..Len(o) /\ b \in Nat /\ a < b /\ b <= Len(o)
      /\ \A k \in 1..Len(o) : o[k] \in OutboxRows
  OBVIOUS
<1>2. o[b].workspace = "mine" /\ o[b] \in OutboxRows /\ b \in 1..Len(o)
  BY <1>1 DEF MineIn
<1>3. ASSUME NEW k \in a + 1..b, k # b PROVE o[k] # [workspace |-> "mine", entity |-> e]
  BY <1>3 DEF MineIn
<1>4. CASE e = o[b].entity
  <2>1. o[b] = [workspace |-> "mine", entity |-> e]
    BY <1>2, <1>4 DEF OutboxRows
  <2>2. Changes(o, e, b) = Changes(o, e, a) \cup {b} /\ b \notin Changes(o, e, a)
    BY <1>1, <1>3, <2>1 DEF Changes
  <2>3. IsFiniteSet(Changes(o, e, a))
    BY RevisionIsNat
  <2> QED BY <1>4, <2>2, <2>3, FS_AddElement DEF RevisionIn
<1>5. CASE e # o[b].entity
  <2>1. o[b] # [workspace |-> "mine", entity |-> e]
    BY <1>5
  <2>2. Changes(o, e, b) = Changes(o, e, a)
    BY <1>1, <1>3, <2>1 DEF Changes
  <2> QED BY <1>5, <2>2 DEF RevisionIn
<1> QED BY <1>4, <1>5

\* An outbox that has grown counts the same up to where it was.
LEMMA GrowthCounts ==
  ASSUME NEW o \in Seq(OutboxRows), NEW row \in OutboxRows, NEW e, NEW c \in 0..Len(o)
  PROVE  RevisionIn(Append(o, row), e, c) = RevisionIn(o, e, c)
<1>1. Changes(Append(o, row), e, c) = Changes(o, e, c)
  BY DEF Changes
<1> QED BY <1>1 DEF RevisionIn

LEMMA CoveredTypes ==
  ASSUME NEW o \in Seq(OutboxRows), NEW a, NEW c, NEW ats, Covered(o, a, c, ats)
  PROVE  /\ a \in Nat /\ c \in Nat /\ a <= c /\ c <= Len(o) /\ Len(o) \in Nat
         /\ ats \in Seq(Nat) /\ Len(ats) \in Nat /\ DOMAIN ats = 1..Len(ats)
         /\ \A i \in 1..Len(ats) : ats[i] \in a + 1..c /\ ats[i] \in Nat /\ o[ats[i]].workspace = "mine"
<1>1. a \in Nat /\ c \in Nat /\ a <= c /\ c <= Len(o) /\ Len(o) \in Nat
  BY DEF Covered
<1>2. ats \in Seq(Nat) /\ Len(ats) \in Nat /\ DOMAIN ats = 1..Len(ats)
  BY DEF Covered
<1>3. ASSUME NEW i \in 1..Len(ats)
      PROVE  ats[i] \in a + 1..c /\ ats[i] \in Nat /\ o[ats[i]].workspace = "mine"
  <2>1. ats[i] \in MineIn(o, a, c)
    BY <1>2 DEF Covered, On
  <2> QED BY <1>1, <2>1 DEF MineIn
<1> QED BY <1>1, <1>2, <1>3

\* Two stretches in a row are one.
LEMMA CoveredJoin ==
  ASSUME NEW o \in Seq(OutboxRows), NEW a, NEW b, NEW c, NEW p, NEW q,
         Covered(o, a, b, p), Covered(o, b, c, q)
  PROVE  Covered(o, a, c, p \o q)
<1>1. PICK m \in Nat : m = Len(p)
  BY CoveredTypes
<1>2. PICK n \in Nat : n = Len(q)
  BY CoveredTypes
<1>3. /\ a \in Nat /\ b \in Nat /\ c \in Nat /\ a <= b /\ b <= c /\ c <= Len(o) /\ Len(o) \in Nat
      /\ p \in Seq(Nat) /\ q \in Seq(Nat) /\ DOMAIN p = 1..m /\ DOMAIN q = 1..n
  BY <1>1, <1>2, CoveredTypes
<1>4. /\ \A i \in 1..m : p[i] \in a + 1..b /\ p[i] \in Nat
      /\ \A i \in 1..n : q[i] \in b + 1..c /\ q[i] \in Nat
  BY <1>1, <1>2, CoveredTypes
<1>5. PICK all : all = p \o q
  OBVIOUS
<1>6. /\ all \in Seq(Nat) /\ DOMAIN all = 1..(m + n)
      /\ \A i \in 1..m : all[i] = p[i]
      /\ \A i \in 1..n : all[m + i] = q[i]
  BY <1>1, <1>2, <1>3, <1>5
<1>7. ASSUME NEW i \in 1..(m + n)
      PROVE  (i \in 1..m /\ all[i] = p[i]) \/ (i - m \in 1..n /\ all[i] = q[i - m])
  <2>1. CASE i <= m
    BY <1>6, <2>1
  <2>2. CASE ~(i <= m)
    <3>1. i - m \in 1..n /\ m + (i - m) = i
      BY <2>2
    <3> QED BY <1>6, <3>1
  <2> QED BY <2>1, <2>2
<1>8. Ascending(all)
  <2>1. ASSUME NEW i \in 1..(m + n), NEW j \in 1..(m + n), i < j PROVE all[i] < all[j]
    <3>1. CASE i \in 1..m /\ all[i] = p[i]
      <4>1. CASE j \in 1..m /\ all[j] = p[j]
        BY <1>3, <2>1, <3>1, <4>1 DEF Covered, Ascending
      <4>2. CASE j - m \in 1..n /\ all[j] = q[j - m]
        <5>1. p[i] \in a + 1..b /\ q[j - m] \in b + 1..c
          BY <1>4, <3>1, <4>2
        <5> QED BY <1>3, <3>1, <4>2, <5>1
      <4> QED BY <1>7, <4>1, <4>2
    <3>2. CASE i - m \in 1..n /\ all[i] = q[i - m]
      <4>1. j - m \in 1..n /\ i - m < j - m /\ ~(j \in 1..m)
        BY <2>1, <3>2
      <4>2. all[j] = q[j - m]
        BY <1>7, <4>1
      <4> QED BY <1>3, <3>2, <4>1, <4>2 DEF Covered, Ascending
    <3> QED BY <1>7, <3>1, <3>2
  <2> QED BY <1>6, <2>1 DEF Ascending
<1>9. On(all) = On(p) \cup On(q)
  <2>1. ASSUME NEW x \in On(all) PROVE x \in On(p) \cup On(q)
    <3>1. PICK i \in 1..(m + n) : x = all[i]
      BY <1>6 DEF On
    <3> QED BY <1>3, <1>7, <3>1 DEF On
  <2>2. ASSUME NEW x \in On(p) PROVE x \in On(all)
    <3>1. PICK i \in 1..m : x = p[i]
      BY <1>3 DEF On
    <3>2. i \in 1..(m + n) /\ x = all[i]
      BY <1>6, <3>1
    <3> QED BY <1>6, <3>2 DEF On
  <2>3. ASSUME NEW x \in On(q) PROVE x \in On(all)
    <3>1. PICK i \in 1..n : x = q[i]
      BY <1>3 DEF On
    <3>2. m + i \in 1..(m + n) /\ x = all[m + i]
      BY <1>6, <3>1
    <3> QED BY <1>6, <3>2 DEF On
  <2> QED BY <2>1, <2>2, <2>3
<1>10. MineIn(o, a, c) = MineIn(o, a, b) \cup MineIn(o, b, c)
  BY <1>3 DEF MineIn
<1>11. On(p) = MineIn(o, a, b) /\ On(q) = MineIn(o, b, c)
  BY DEF Covered
<1>12. c \in a..Len(o)
  BY <1>3
<1> QED BY <1>3, <1>5, <1>6, <1>8, <1>9, <1>10, <1>11, <1>12 DEF Covered

\* The first n of a stretch are a stretch.
LEMMA CoveredPrefix ==
  ASSUME NEW o \in Seq(OutboxRows), NEW a, NEW c, NEW p, Covered(o, a, c, p), NEW n \in 0..Len(p)
  PROVE  Covered(o, a, IF n = 0 THEN a ELSE p[n], SubSeq(p, 1, n))
<1>1. /\ a \in Nat /\ c \in Nat /\ a <= c /\ c <= Len(o) /\ Len(o) \in Nat
      /\ p \in Seq(Nat) /\ Len(p) \in Nat /\ DOMAIN p = 1..Len(p)
      /\ \A i \in 1..Len(p) : p[i] \in a + 1..c /\ p[i] \in Nat /\ o[p[i]].workspace = "mine"
  BY CoveredTypes
<1>2. Ascending(p) /\ On(p) = MineIn(o, a, c)
  BY DEF Covered
<1>3. PICK b : b = IF n = 0 THEN a ELSE p[n]
  OBVIOUS
<1>4. PICK q : q = SubSeq(p, 1, n)
  OBVIOUS
<1>5. q \in Seq(Nat) /\ DOMAIN q = 1..n /\ \A i \in 1..n : q[i] = p[i]
  BY <1>1, <1>4
<1>6. b \in a..Len(o) /\ b \in Nat /\ b <= c
  <2>1. CASE n = 0
    BY <1>1, <1>3, <2>1
  <2>2. CASE n # 0
    <3>1. n \in 1..Len(p)
      BY <2>2
    <3> QED BY <1>1, <1>3, <2>2, <3>1
  <2> QED BY <2>1, <2>2
<1>7. Ascending(q)
  <2>1. ASSUME NEW i \in 1..n, NEW j \in 1..n, i < j PROVE q[i] < q[j]
    <3>1. i \in 1..Len(p) /\ j \in 1..Len(p)
      BY <1>1
    <3>2. p[i] < p[j]
      BY <1>1, <1>2, <2>1, <3>1 DEF Ascending
    <3> QED BY <1>5, <3>2
  <2> QED BY <1>5, <2>1 DEF Ascending
<1>8. ASSUME NEW x \in On(q) PROVE x \in MineIn(o, a, b)
  <2>1. PICK i \in 1..n : x = p[i]
    BY <1>5 DEF On
  <2>2. i \in 1..Len(p) /\ n \in 1..Len(p) /\ b = p[n] /\ i <= n
    BY <1>1, <1>3, <2>1
  <2>3. i = n \/ p[i] < p[n]
    <3>1. i = n \/ i < n
      BY <1>1, <2>2
    <3> QED BY <1>1, <1>2, <2>2, <3>1 DEF Ascending
  <2>4. x \in a + 1..b
    BY <1>1, <1>6, <2>1, <2>2, <2>3
  <2> QED BY <1>1, <2>1, <2>2, <2>4 DEF MineIn
<1>9. ASSUME NEW x \in MineIn(o, a, b) PROVE x \in On(q)
  <2>1. x \in a + 1..b /\ x \in Nat /\ o[x].workspace = "mine"
    BY <1>1, <1>6 DEF MineIn
  <2>2. x \in MineIn(o, a, c)
    BY <1>1, <1>6, <2>1 DEF MineIn
  <2>3. PICK i \in 1..Len(p) : x = p[i]
    BY <1>1, <1>2, <2>2 DEF On
  <2>4. n # 0 /\ n \in 1..Len(p) /\ b = p[n]
    BY <1>1, <1>3, <2>1
  <2>5. ~(n < i)
    <3>1. n < i => p[n] < p[i]
      BY <1>1, <1>2, <2>3, <2>4 DEF Ascending
    <3>2. x <= b
      BY <1>1, <1>6, <2>1
    <3> QED BY <1>6, <2>1, <2>3, <2>4, <3>1, <3>2
  <2>6. i \in 1..n /\ q[i] = x
    BY <1>5, <2>3, <2>5
  <2> QED BY <1>5, <2>6 DEF On
<1>10. On(q) = MineIn(o, a, b)
  BY <1>8, <1>9
<1>11. Covered(o, a, b, q)
  BY <1>1, <1>5, <1>6, <1>7, <1>10 DEF Covered
<1> QED BY <1>3, <1>4, <1>11

\* Behind the first row of a stretch the others are one.
LEMMA CoveredTail ==
  ASSUME NEW o \in Seq(OutboxRows), NEW a, NEW c, NEW p, Covered(o, a, c, p), p # <<>>
  PROVE  /\ p[1] \in a + 1..Len(o) /\ MineIn(o, a, p[1]) = {p[1]}
         /\ Covered(o, p[1], c, Tail(p))
<1>1. /\ a \in Nat /\ c \in Nat /\ a <= c /\ c <= Len(o) /\ Len(o) \in Nat
      /\ p \in Seq(Nat) /\ Len(p) \in Nat /\ DOMAIN p = 1..Len(p)
      /\ \A i \in 1..Len(p) : p[i] \in a + 1..c /\ p[i] \in Nat /\ o[p[i]].workspace = "mine"
  BY CoveredTypes
<1>2. Ascending(p) /\ On(p) = MineIn(o, a, c)
  BY DEF Covered
<1>3. 1 \in 1..Len(p)
  BY <1>1
<1>4. PICK n \in Nat : Len(p) = n + 1
  <2>1. Len(p) - 1 \in Nat /\ Len(p) = (Len(p) - 1) + 1
    BY <1>1, <1>3
  <2> QED BY <2>1
<1>5. PICK q : q = Tail(p)
  OBVIOUS
<1>6. q \in Seq(Nat) /\ DOMAIN q = 1..n /\ \A i \in 1..n : q[i] = p[i + 1]
  BY <1>1, <1>3, <1>4, <1>5
<1>7. ASSUME NEW i \in 1..n PROVE p[1] < p[i + 1]
  <2>1. i + 1 \in 1..Len(p) /\ 1 < i + 1
    BY <1>4
  <2> QED BY <1>1, <1>2, <1>3, <2>1 DEF Ascending
<1>8. p[1] \in a + 1..c /\ p[1] \in Nat /\ o[p[1]].workspace = "mine"
  BY <1>1, <1>3
<1>9. ASSUME NEW x \in MineIn(o, a, c) PROVE x = p[1] \/ \E i \in 1..n : x = q[i]
  <2>1. PICK j \in 1..Len(p) : x = p[j]
    BY <1>1, <1>2 DEF On
  <2>2. CASE j = 1
    BY <2>1, <2>2
  <2>3. CASE j # 1
    <3>1. j - 1 \in 1..n /\ (j - 1) + 1 = j
      BY <1>4, <2>1, <2>3
    <3> QED BY <1>6, <2>1, <3>1
  <2> QED BY <2>2, <2>3
<1>10. MineIn(o, a, p[1]) = {p[1]}
  <2>1. p[1] \in MineIn(o, a, p[1])
    BY <1>1, <1>8 DEF MineIn
  <2>2. ASSUME NEW x \in MineIn(o, a, p[1]), x # p[1] PROVE FALSE
    <3>1. x \in MineIn(o, a, c) /\ x \in Nat /\ x <= p[1]
      BY <1>1, <1>8 DEF MineIn
    <3>2. PICK i \in 1..n : x = p[i + 1]
      BY <1>6, <1>9, <2>2, <3>1
    <3> QED BY <1>7, <1>8, <3>1, <3>2
  <2> QED BY <2>1, <2>2
<1>11. Ascending(q)
  <2>1. ASSUME NEW i \in 1..n, NEW j \in 1..n, i < j PROVE q[i] < q[j]
    <3>1. i + 1 \in 1..Len(p) /\ j + 1 \in 1..Len(p) /\ i + 1 < j + 1
      BY <1>4, <2>1
    <3> QED BY <1>1, <1>2, <1>6, <3>1 DEF Ascending
  <2> QED BY <1>6, <2>1 DEF Ascending
<1>12. ASSUME NEW x \in On(q) PROVE x \in MineIn(o, p[1], c)
  <2>1. PICK i \in 1..n : x = p[i + 1]
    BY <1>6 DEF On
  <2>2. i + 1 \in 1..Len(p)
    BY <1>4
  <2>3. x \in a + 1..c /\ x \in Nat /\ o[x].workspace = "mine" /\ p[1] < x
    BY <1>1, <1>7, <2>1, <2>2
  <2> QED BY <1>1, <1>8, <2>3 DEF MineIn
<1>13. ASSUME NEW x \in MineIn(o, p[1], c) PROVE x \in On(q)
  <2>1. x \in MineIn(o, a, c) /\ x # p[1]
    BY <1>1, <1>8 DEF MineIn
  <2> QED BY <1>6, <1>9, <2>1 DEF On
<1>14. On(q) = MineIn(o, p[1], c)
  BY <1>12, <1>13
<1>15. c \in p[1]..Len(o)
  BY <1>1, <1>8
<1>16. Covered(o, p[1], c, q)
  BY <1>6, <1>8, <1>11, <1>14, <1>15 DEF Covered
<1> QED BY <1>1, <1>5, <1>8, <1>10, <1>16

LEMMA CoveredGrows ==
  ASSUME NEW o \in Seq(OutboxRows), NEW row \in OutboxRows, NEW a, NEW c, NEW p, Covered(o, a, c, p)
  PROVE  Covered(Append(o, row), a, c, p)
<1>1. a \in Nat /\ c \in Nat /\ a <= c /\ c <= Len(o) /\ Len(o) \in Nat
  BY CoveredTypes
<1>2. PICK new : new = Append(o, row)
  OBVIOUS
<1>3. Len(new) = Len(o) + 1 /\ \A k \in 1..Len(o) : new[k] = o[k]
  BY <1>2
<1>4. MineIn(new, a, c) = MineIn(o, a, c)
  BY <1>1, <1>3 DEF MineIn
<1>5. c \in a..Len(new)
  BY <1>1, <1>3
<1> QED BY <1>2, <1>4, <1>5 DEF Covered

-----------------------------------------------------------------------------
(* The rows of a replay.                                                   *)

Marked(o, c) == c = 0 \/ (c \in 1..Len(o) /\ o[c].workspace = "mine")

LEMMA MineAfterIs ==
  ASSUME outbox \in Seq(OutboxRows), NEW a \in Nat
  PROVE  Stream!MineAfter(a) = MineIn(outbox, a, Len(outbox)) /\ Stream!MineAfter(a) \subseteq Nat
  BY DEF Stream!MineAfter, MineIn

\* The watermark is the last row of the workspace.
LEMMA WatermarkIs ==
  ASSUME outbox \in Seq(OutboxRows)
  PROVE  /\ Stream!Watermark \in 0..Len(outbox) /\ Marked(outbox, Stream!Watermark)
         /\ Stream!MineAfter(Stream!Watermark) = {}
<1> DEFINE T == {k \in 0..Len(outbox) : Stream!MineAfter(k) = {}}
<1>1. Len(outbox) \in Nat
  OBVIOUS
<1>2. Len(outbox) \in T
  BY <1>1 DEF Stream!MineAfter
<1>3. PICK k \in T : \A j \in T : k <= j
  <2> HIDE DEF T
  <2>1. T \subseteq Nat
    BY DEF T
  <2> QED BY <1>2, <2>1, LeastNatural
<1>4. k \in 0..Len(outbox) /\ k \in Nat /\ Stream!MineAfter(k) = {}
  BY <1>1, <1>3
<1>5. ASSUME k # 0 PROVE k \in Stream!MineAfter(k - 1)
  <2>1. k - 1 \in 0..Len(outbox) /\ k - 1 \notin T
    BY <1>1, <1>3, <1>4, <1>5
  <2>2. PICK x : x \in Stream!MineAfter(k - 1)
    BY <2>1
  <2>3. x \in (k - 1) + 1..Len(outbox) /\ outbox[x].workspace = "mine"
    BY <2>2 DEF Stream!MineAfter
  <2>4. x \notin k + 1..Len(outbox)
    BY <1>4, <2>3 DEF Stream!MineAfter
  <2>5. x = k
    <3>1. x \in k..Len(outbox)
      BY <1>4, <2>3
    <3> QED BY <1>1, <1>4, <2>4, <3>1
  <2> QED BY <2>2, <2>5
<1>6. \E j \in 0..Len(outbox) : Stream!MineAfter(j) = {} /\ (j = 0 \/ j \in Stream!MineAfter(j - 1))
  BY <1>4, <1>5
<1>7. /\ Stream!Watermark \in 0..Len(outbox) /\ Stream!MineAfter(Stream!Watermark) = {}
      /\ (Stream!Watermark = 0 \/ Stream!Watermark \in Stream!MineAfter(Stream!Watermark - 1))
  BY <1>6 DEF Stream!Watermark
<1>8. PICK w : w = Stream!Watermark
  OBVIOUS
<1>9. Marked(outbox, w)
  <2>1. w \in 0..Len(outbox) /\ (w = 0 \/ w \in Stream!MineAfter(w - 1))
    BY <1>7, <1>8
  <2>2. CASE w \in Stream!MineAfter(w - 1)
    <3>1. outbox[w].workspace = "mine" /\ w \in (w - 1) + 1..Len(outbox)
      BY <2>2 DEF Stream!MineAfter
    <3> QED BY <1>1, <2>1, <3>1 DEF Marked
  <2> QED BY <2>1, <2>2 DEF Marked
<1> QED BY <1>7, <1>8, <1>9

\* A replay holds the first rows of the workspace behind a cursor.
LEMMA ReplayCovers ==
  ASSUME outbox \in Seq(OutboxRows), NEW a \in 0..Len(outbox), Marked(outbox, a),
         NEW page, page = Stream!Page(a)
  PROVE  /\ page \in Seq(Nat)
         /\ \A n \in 0..Len(page) :
              LET c == IF n = 0 THEN a ELSE page[n]
              IN Covered(outbox, a, c, SubSeq(page, 1, n)) /\ Marked(outbox, c)
         /\ ~Stream!HasMore(a) => Covered(outbox, a, Stream!Watermark, SubSeq(page, 1, Len(page)))
<1>1. Len(outbox) \in Nat /\ a \in Nat /\ MaxRows \in Nat
  BY StreamAssumption
<1>2. PICK found : found = Stream!MineAfter(a)
  OBVIOUS
<1>3. found \subseteq Nat /\ found = MineIn(outbox, a, Len(outbox))
  BY <1>1, <1>2, MineAfterIs
<1>4. page = FirstOf(found, MaxRows)
  BY <1>2 DEF Stream!Page, Stream!FirstOf, FirstOf, Stream!Ascending, Ascending,
              Stream!Covers, Covers, Stream!On, On
<1>5. page \in Seq(found) /\ Len(page) <= MaxRows /\ Ascending(page) /\ Covers(page, found, MaxRows)
  BY <1>1, <1>3, <1>4, PageIs
<1>6. PICK m \in Nat : m = Len(page)
  BY <1>5
<1>7. DOMAIN page = 1..m /\ \A i \in 1..m : page[i] \in found
  BY <1>5, <1>6
<1>8. page \in Seq(Nat)
  <2>1. page \in [1..m -> Nat]
    BY <1>3, <1>5, <1>7
  <2> QED BY <2>1
<1>9. ASSUME NEW i \in 1..m
      PROVE  page[i] \in a + 1..Len(outbox) /\ page[i] \in Nat /\ outbox[page[i]].workspace = "mine"
  BY <1>1, <1>3, <1>7 DEF MineIn
<1>10. SubSeq(page, 1, m) = page
  BY <1>6, <1>8
<1>11. PICK last : last = IF m = 0 THEN a ELSE page[m]
  OBVIOUS
<1>12. Covered(outbox, a, last, page)
  <2>1. last \in a..Len(outbox) /\ last \in Nat
    BY <1>1, <1>9, <1>11
  <2>2. ASSUME NEW i \in 1..m PROVE page[i] \in MineIn(outbox, a, last)
    <3>1. m \in 1..m /\ last = page[m] /\ (i = m \/ i < m)
      BY <1>11
    <3>2. page[i] <= last
      BY <1>5, <1>7, <1>9, <3>1 DEF Ascending
    <3> QED BY <1>1, <1>9, <2>1, <3>2 DEF MineIn
  <2>3. ASSUME NEW x \in MineIn(outbox, a, last) PROVE x \in On(page)
    <3>1. x \in found /\ x \in Nat /\ x \in a + 1..last
      BY <1>1, <1>3, <2>1 DEF MineIn
    <3>2. m \in 1..m /\ last = page[m]
      BY <1>1, <1>6, <1>11, <3>1
    <3>3. ~(page[m] < x)
      BY <1>1, <1>9, <3>1, <3>2
    <3> QED BY <1>5, <1>7, <3>1, <3>2, <3>3 DEF Covers
  <2>4. On(page) = MineIn(outbox, a, last)
    BY <1>7, <2>2, <2>3 DEF On
  <2> QED BY <1>1, <1>5, <1>8, <2>1, <2>4 DEF Covered
<1>13. ASSUME NEW n \in 0..m
       PROVE  LET c == IF n = 0 THEN a ELSE page[n]
              IN Covered(outbox, a, c, SubSeq(page, 1, n)) /\ Marked(outbox, c)
  <2>1. Covered(outbox, a, IF n = 0 THEN a ELSE page[n], SubSeq(page, 1, n))
    BY <1>6, <1>12, CoveredPrefix
  <2>2. Marked(outbox, IF n = 0 THEN a ELSE page[n])
    <3>1. CASE n = 0
      BY <3>1
    <3>2. CASE n # 0
      <4>1. n \in 1..m
        BY <3>2
      <4>2. page[n] \in 1..Len(outbox) /\ outbox[page[n]].workspace = "mine"
        BY <1>1, <1>9, <4>1
      <4> QED BY <3>2, <4>2 DEF Marked
    <3> QED BY <3>1, <3>2
  <2> QED BY <2>1, <2>2
<1>14. ASSUME ~Stream!HasMore(a) PROVE Covered(outbox, a, Stream!Watermark, page)
  <2>1. found \subseteq On(page)
    BY <1>2, <1>14 DEF Stream!HasMore, Stream!On, On
  <2>2. PICK w : w = Stream!Watermark
    OBVIOUS
  <2>3. w \in 0..Len(outbox) /\ Stream!MineAfter(w) = {}
    BY <2>2, WatermarkIs
  <2>4. w \in a..Len(outbox) /\ w \in Nat
    <3>1. CASE w < a
      <4>1. a \in w + 1..Len(outbox) /\ outbox[a].workspace = "mine"
        BY <1>1, <2>3, <3>1 DEF Marked
      <4> QED BY <2>3, <4>1 DEF Stream!MineAfter
    <3> QED BY <1>1, <2>3, <3>1
  <2>5. found \subseteq MineIn(outbox, a, w)
    <3>1. ASSUME NEW x \in found, w < x PROVE FALSE
      <4>1. x \in w + 1..Len(outbox) /\ outbox[x].workspace = "mine"
        BY <1>1, <1>3, <2>4, <3>1 DEF MineIn
      <4> QED BY <2>3, <4>1 DEF Stream!MineAfter
    <3>2. ASSUME NEW x \in found PROVE x \in MineIn(outbox, a, w)
      BY <1>1, <1>3, <2>4, <3>1 DEF MineIn
    <3> QED BY <3>2
  <2>6. MineIn(outbox, a, w) \subseteq found
    BY <1>1, <1>3, <2>4 DEF MineIn
  <2>7. On(page) = MineIn(outbox, a, w)
    BY <1>7, <2>1, <2>5, <2>6 DEF On
  <2>8. Covered(outbox, a, w, page)
    BY <1>1, <1>5, <1>8, <2>4, <2>7 DEF Covered
  <2> QED BY <2>2, <2>8
<1> QED BY <1>6, <1>8, <1>10, <1>13, <1>14

-----------------------------------------------------------------------------
(* The frames of a stretch.                                                *)

Frames(o, p) == {FrameOf(o, p, k) : k \in Nat}

LEMMA FramesAre ==
  ASSUME NEW o, NEW p, NEW ats \in Seq(Nat)
  PROVE  /\ FramesOf(o, p, ats) \in Seq(Frames(o, p)) /\ Len(FramesOf(o, p, ats)) = Len(ats)
         /\ \A i \in 1..Len(ats) : FramesOf(o, p, ats)[i] = FrameOf(o, p, ats[i])
<1>1. Len(ats) \in Nat /\ \A i \in 1..Len(ats) : FrameOf(o, p, ats[i]) \in Frames(o, p)
  BY DEF Frames
<1>2. FramesOf(o, p, ats) \in [1..Len(ats) -> Frames(o, p)]
  BY <1>1 DEF FramesOf
<1>3. FramesOf(o, p, ats) \in Seq(Frames(o, p)) /\ Len(FramesOf(o, p, ats)) = Len(ats)
  BY <1>1, <1>2
<1> QED BY <1>3 DEF FramesOf

LEMMA SameSequence ==
  ASSUME NEW S, NEW p \in Seq(S), NEW q \in Seq(S), Len(p) = Len(q),
         \A i \in 1..Len(p) : p[i] = q[i]
  PROVE  p = q
  OBVIOUS

LEMMA Concatenated ==
  ASSUME NEW S, NEW p \in Seq(S), NEW q \in Seq(S)
  PROVE  /\ p \o q \in Seq(S) /\ Len(p \o q) = Len(p) + Len(q)
         /\ \A i \in 1..Len(p) : (p \o q)[i] = p[i]
         /\ \A i \in 1..Len(q) : (p \o q)[Len(p) + i] = q[i]
  OBVIOUS

LEMMA FramesJoin ==
  ASSUME NEW o, NEW p, NEW a \in Seq(Nat), NEW b \in Seq(Nat)
  PROVE  FramesOf(o, p, a \o b) = FramesOf(o, p, a) \o FramesOf(o, p, b)
<1>1. PICK m \in Nat : m = Len(a)
  OBVIOUS
<1>2. PICK n \in Nat : n = Len(b)
  OBVIOUS
<1>3. PICK all : all = a \o b
  OBVIOUS
<1>4. /\ all \in Seq(Nat) /\ Len(all) = m + n
      /\ \A i \in 1..m : all[i] = a[i]
      /\ \A i \in 1..n : all[m + i] = b[i]
  BY <1>1, <1>2, <1>3
<1>5. PICK f : f = FramesOf(o, p, a)
  OBVIOUS
<1>6. PICK g : g = FramesOf(o, p, b)
  OBVIOUS
<1>7. PICK h : h = FramesOf(o, p, all)
  OBVIOUS
<1>8. /\ f \in Seq(Frames(o, p)) /\ Len(f) = m /\ \A i \in 1..m : f[i] = FrameOf(o, p, a[i])
      /\ g \in Seq(Frames(o, p)) /\ Len(g) = n /\ \A i \in 1..n : g[i] = FrameOf(o, p, b[i])
      /\ h \in Seq(Frames(o, p)) /\ Len(h) = m + n /\ \A i \in 1..(m + n) : h[i] = FrameOf(o, p, all[i])
  <2>1. f \in Seq(Frames(o, p)) /\ Len(f) = m /\ \A i \in 1..m : f[i] = FrameOf(o, p, a[i])
    BY <1>1, <1>5, FramesAre
  <2>2. g \in Seq(Frames(o, p)) /\ Len(g) = n /\ \A i \in 1..n : g[i] = FrameOf(o, p, b[i])
    BY <1>2, <1>6, FramesAre
  <2>3. h \in Seq(Frames(o, p)) /\ Len(h) = m + n /\ \A i \in 1..(m + n) : h[i] = FrameOf(o, p, all[i])
    <3>1. all \in Seq(Nat)
      BY <1>4
    <3>2. /\ h \in Seq(Frames(o, p)) /\ Len(h) = Len(all)
          /\ \A i \in 1..Len(all) : h[i] = FrameOf(o, p, all[i])
      BY <1>7, <3>1, FramesAre
    <3>3. Len(all) = m + n
      BY <1>4
    <3> QED BY <3>2, <3>3
  <2> QED BY <2>1, <2>2, <2>3
<1>9. PICK j : j = f \o g
  OBVIOUS
<1>10. /\ j \in Seq(Frames(o, p)) /\ Len(j) = m + n
       /\ \A i \in 1..m : j[i] = f[i]
       /\ \A i \in 1..n : j[m + i] = g[i]
  <2>1. f \in Seq(Frames(o, p)) /\ g \in Seq(Frames(o, p)) /\ Len(f) = m /\ Len(g) = n
    BY <1>8
  <2>2. PICK S : S = Frames(o, p)
    OBVIOUS
  <2>3. f \in Seq(S) /\ g \in Seq(S)
    BY <2>1, <2>2
  <2>4. /\ f \o g \in Seq(S) /\ Len(f \o g) = Len(f) + Len(g)
        /\ \A i \in 1..Len(f) : (f \o g)[i] = f[i]
        /\ \A i \in 1..Len(g) : (f \o g)[Len(f) + i] = g[i]
    BY <2>3, Concatenated
  <2> QED BY <1>9, <2>1, <2>2, <2>4
<1>11. ASSUME NEW i \in 1..(m + n) PROVE h[i] = j[i]
  <2>1. CASE i \in 1..m
    BY <1>4, <1>8, <1>10, <2>1
  <2>2. CASE i \notin 1..m
    <3>1. i - m \in 1..n /\ m + (i - m) = i
      BY <2>2
    <3>2. all[i] = b[i - m] /\ j[i] = g[i - m]
      BY <1>4, <1>10, <3>1
    <3> QED BY <1>8, <3>1, <3>2
  <2> QED BY <2>1, <2>2
<1>12. h = j
  BY <1>8, <1>10, <1>11, SameSequence
<1> QED BY <1>3, <1>5, <1>6, <1>7, <1>9, <1>12

LEMMA FramesPrefix ==
  ASSUME NEW o, NEW p, NEW a \in Seq(Nat), NEW n \in 0..Len(a)
  PROVE  /\ SubSeq(a, 1, n) \in Seq(Nat) /\ Len(SubSeq(a, 1, n)) = n
         /\ SubSeq(FramesOf(o, p, a), 1, n) = FramesOf(o, p, SubSeq(a, 1, n))
<1>1. PICK b : b = SubSeq(a, 1, n)
  OBVIOUS
<1>2. Len(a) \in Nat /\ n \in Nat
  OBVIOUS
<1>3. b \in Seq(Nat) /\ Len(b) = n /\ \A i \in 1..n : b[i] = a[i]
  BY <1>1, <1>2
<1>4. PICK f : f = FramesOf(o, p, a)
  OBVIOUS
<1>5. PICK g : g = FramesOf(o, p, b)
  OBVIOUS
<1>6. /\ f \in Seq(Frames(o, p)) /\ Len(f) = Len(a) /\ \A i \in 1..Len(a) : f[i] = FrameOf(o, p, a[i])
      /\ g \in Seq(Frames(o, p)) /\ Len(g) = n /\ \A i \in 1..n : g[i] = FrameOf(o, p, b[i])
  BY <1>3, <1>4, <1>5, FramesAre
<1>7. PICK h : h = SubSeq(f, 1, n)
  OBVIOUS
<1>8. h \in Seq(Frames(o, p)) /\ Len(h) = n /\ \A i \in 1..n : h[i] = f[i]
  BY <1>2, <1>6, <1>7
<1>9. \A i \in 1..n : h[i] = g[i]
  BY <1>2, <1>3, <1>6, <1>8
<1>10. h = g
  BY <1>6, <1>8, <1>9, SameSequence
<1> QED BY <1>1, <1>3, <1>4, <1>5, <1>7, <1>10

LEMMA FramesTail ==
  ASSUME NEW o, NEW p, NEW a \in Seq(Nat), a # <<>>
  PROVE  /\ Tail(FramesOf(o, p, a)) = FramesOf(o, p, Tail(a))
         /\ Tail(a) \in Seq(Nat)
<1>1. PICK b : b = Tail(a)
  OBVIOUS
<1>2. PICK n \in Nat : Len(a) = n + 1
  <2>1. Len(a) \in Nat /\ Len(a) # 0
    OBVIOUS
  <2>2. Len(a) - 1 \in Nat /\ Len(a) = (Len(a) - 1) + 1
    BY <2>1
  <2> QED BY <2>2
<1>3. b \in Seq(Nat) /\ Len(b) = n /\ \A i \in 1..n : b[i] = a[i + 1]
  BY <1>1, <1>2
<1>4. PICK f : f = FramesOf(o, p, a)
  OBVIOUS
<1>5. PICK g : g = FramesOf(o, p, b)
  OBVIOUS
<1>6. /\ f \in Seq(Frames(o, p)) /\ Len(f) = n + 1 /\ \A i \in 1..(n + 1) : f[i] = FrameOf(o, p, a[i])
      /\ g \in Seq(Frames(o, p)) /\ Len(g) = n /\ \A i \in 1..n : g[i] = FrameOf(o, p, b[i])
  <2>1. f \in Seq(Frames(o, p)) /\ Len(f) = n + 1 /\ \A i \in 1..(n + 1) : f[i] = FrameOf(o, p, a[i])
    BY <1>2, <1>4, FramesAre
  <2>2. g \in Seq(Frames(o, p)) /\ Len(g) = n /\ \A i \in 1..n : g[i] = FrameOf(o, p, b[i])
    BY <1>3, <1>5, FramesAre
  <2> QED BY <2>1, <2>2
<1>7. PICK h : h = Tail(f)
  OBVIOUS
<1>8. h \in Seq(Frames(o, p)) /\ Len(h) = n /\ \A i \in 1..n : h[i] = f[i + 1]
  BY <1>2, <1>6, <1>7
<1>9. ASSUME NEW i \in 1..n PROVE h[i] = g[i]
  <2>1. i + 1 \in 1..(n + 1)
    OBVIOUS
  <2> QED BY <1>3, <1>6, <1>8, <2>1
<1>10. h = g
  BY <1>6, <1>8, <1>9, SameSequence
<1> QED BY <1>1, <1>3, <1>4, <1>5, <1>7, <1>10

LEMMA FramesGrow ==
  ASSUME NEW o \in Seq(OutboxRows), NEW row \in OutboxRows, NEW p,
         NEW ats \in Seq(Nat), \A i \in 1..Len(ats) : ats[i] \in 1..Len(o)
  PROVE  FramesOf(Append(o, row), p, ats) = FramesOf(o, p, ats)
<1>1. ASSUME NEW i \in 1..Len(ats) PROVE FrameOf(Append(o, row), p, ats[i]) = FrameOf(o, p, ats[i])
  <2>1. PICK k \in 1..Len(o) : k = ats[i]
    OBVIOUS
  <2>2. Append(o, row)[k] = o[k] /\ k \in 0..Len(o)
    OBVIOUS
  <2>3. FrameOf(Append(o, row), p, k) = FrameOf(o, p, k)
    BY <2>2, GrowthCounts DEF FrameOf
  <2> QED BY <2>1, <2>3
<1> QED BY <1>1 DEF FramesOf

-----------------------------------------------------------------------------
(* The invariant of the stream.                                            *)

Ends == {[kind |-> "stream.error"], [kind |-> "end"]}
Tokens == [process : Nat, at : Nat]
Connections == [open : BOOLEAN, after : Nat, waiting : BOOLEAN, scheduled : BOOLEAN]
Followers == [mode : {"idle", "reading", "streaming"}, token : Tokens, asOf : Tokens,
              known : [Stream!Entities -> Nat], draft : [Stream!Entities -> Nat]]
StreamTypes ==
  /\ outbox \in Seq(OutboxRows) /\ process \in Nat \ {0}
  /\ stream \in Connections /\ client \in Followers
  /\ client.token.process <= process /\ client.asOf.process <= process
\* A cursor this process can read stands for the revisions known with it.
KnownAt(token, known) ==
  token.process = process => token.at \in 0..Len(outbox) /\ known = KnownIn(outbox, token.at)
Resting == client.mode # "streaming" =>
  ~stream.open /\ wire = <<>> /\ KnownAt(client.token, client.known)
Reading == client.mode = "reading" => KnownAt(client.asOf, client.draft)
\* The wire holds the frames of a stretch that begins at the client's cursor, in the outbox o
\* of the process that sent them; while it is open the stream goes on where the stretch ends.
Sending(o, c, ats) ==
  /\ o \in Seq(OutboxRows) /\ Covered(o, client.token.at, c, ats)
  /\ client.known = KnownIn(o, client.token.at)
  /\ client.token.process = process => o = outbox
  /\ stream.open => /\ client.token.process = process /\ stream.after = c /\ Marked(o, c)
                    /\ wire = FramesOf(o, client.token.process, ats)
  /\ \/ wire = FramesOf(o, client.token.process, ats)
     \/ \E e \in Ends : wire = Append(FramesOf(o, client.token.process, ats), e)
Streaming == client.mode = "streaming" => \E o, c, ats : Sending(o, c, ats)
StreamInductive == StreamTypes /\ Resting /\ Reading /\ Streaming

LEMMA StreamFacts ==
  ASSUME StreamTypes
  PROVE  /\ outbox \in Seq(OutboxRows) /\ Len(outbox) \in Nat /\ process \in Nat /\ process # 0
         /\ stream \in Connections /\ stream.open \in BOOLEAN /\ stream.after \in Nat
         /\ client \in Followers /\ client.mode \in {"idle", "reading", "streaming"}
         /\ client.token \in Tokens /\ client.token.process \in Nat /\ client.token.at \in Nat
         /\ client.asOf \in Tokens /\ client.asOf.process \in Nat /\ client.asOf.at \in Nat
         /\ client.known \in [Stream!Entities -> Nat] /\ client.draft \in [Stream!Entities -> Nat]
         /\ client.token.process <= process /\ client.asOf.process <= process
  BY DEF StreamTypes, Connections, Followers, Tokens

LEMMA KnownType ==
  ASSUME NEW o, NEW c \in Nat
  PROVE  KnownIn(o, c) \in [Stream!Entities -> Nat]
  BY RevisionIsNat DEF KnownIn

\* What the client is sent next is what it counts on.
LEMMA NextIsExpected ==
  ASSUME StreamTypes, NEW o, NEW c, NEW ats, Sending(o, c, ats), wire # <<>>, Head(wire).kind = "event"
  PROVE  /\ ats # <<>> /\ Head(wire) = FrameOf(o, client.token.process, ats[1])
         /\ Tail(wire) = FramesOf(o, client.token.process, Tail(ats))
              \/ \E e \in Ends : Tail(wire) = Append(FramesOf(o, client.token.process, Tail(ats)), e)
         /\ stream.open => Tail(wire) = FramesOf(o, client.token.process, Tail(ats))
<1>1. /\ o \in Seq(OutboxRows) /\ Covered(o, client.token.at, c, ats) /\ ats \in Seq(Nat)
      /\ \/ wire = FramesOf(o, client.token.process, ats)
         \/ \E e \in Ends : wire = Append(FramesOf(o, client.token.process, ats), e)
  BY DEF Sending, Covered
<1>2. PICK f : f = FramesOf(o, client.token.process, ats)
  OBVIOUS
<1>3. PICK S : S = Frames(o, client.token.process)
  OBVIOUS
<1>4. /\ f \in Seq(S) /\ Len(f) = Len(ats) /\ Len(ats) \in Nat
      /\ \A i \in 1..Len(ats) : f[i] = FrameOf(o, client.token.process, ats[i])
  BY <1>1, <1>2, <1>3, FramesAre
<1>5. ats # <<>>
  <2>1. SUFFICES ASSUME ats = <<>> PROVE FALSE
    OBVIOUS
  <2>2. f = <<>>
    BY <1>4, <2>1
  <2>3. PICK e \in Ends : wire = Append(f, e)
    BY <1>1, <1>2, <2>2
  <2>4. wire = <<e>>
    BY <2>2, <2>3
  <2>5. Head(wire) = e
    BY <2>4
  <2> QED BY <2>5 DEF Ends
<1>6. 1 \in 1..Len(ats) /\ f # <<>> /\ Len(f) # 0
  BY <1>1, <1>4, <1>5
<1>7. Tail(f) = FramesOf(o, client.token.process, Tail(ats))
  BY <1>1, <1>2, <1>5, FramesTail
<1>8. CASE wire = f
  BY <1>4, <1>5, <1>6, <1>7, <1>8
<1>9. CASE wire # f
  <2>1. PICK e \in Ends : wire = Append(f, e)
    BY <1>1, <1>2, <1>9
  <2>2. Head(wire) = f[1] /\ Tail(wire) = Append(Tail(f), e)
    <3>1. PICK R : R = S \cup {e}
      OBVIOUS
    <3>2. f \in Seq(R) /\ e \in R /\ Len(f) \in Nat /\ 1 <= Len(f)
      BY <1>4, <1>6, <3>1
    <3>3. wire \in Seq(R) /\ Len(wire) = Len(f) + 1 /\ wire[1] = f[1]
      BY <2>1, <3>2
    <3>4. Tail(f) \in Seq(R) /\ Len(Tail(f)) = Len(f) - 1
      BY <1>6, <3>2
    <3>5. PICK t : t = Append(Tail(f), e)
      OBVIOUS
    <3>6. t \in Seq(R) /\ Len(t) = Len(f) /\ t[Len(f)] = e
          /\ \A i \in 1..(Len(f) - 1) : t[i] = Tail(f)[i]
      BY <3>2, <3>4, <3>5
    <3>7. Tail(wire) \in Seq(R) /\ Len(Tail(wire)) = Len(f)
      BY <3>2, <3>3
    <3>8. ASSUME NEW i \in 1..Len(f) PROVE Tail(wire)[i] = t[i]
      <4>1. Tail(wire)[i] = wire[i + 1]
        BY <3>2, <3>3
      <4>2. CASE i = Len(f)
        <5>1. wire[Len(f) + 1] = e
          BY <2>1, <3>2
        <5> QED BY <3>6, <4>1, <4>2, <5>1
      <4>3. CASE i # Len(f)
        <5>1. i \in 1..(Len(f) - 1) /\ i + 1 \in 1..Len(f)
          BY <3>2, <4>3
        <5>2. wire[i + 1] = f[i + 1]
          BY <2>1, <3>2, <5>1
        <5>3. Tail(f)[i] = f[i + 1]
          BY <1>6, <3>2, <5>1
        <5> QED BY <3>6, <4>1, <5>1, <5>2, <5>3
      <4> QED BY <4>2, <4>3
    <3>9. Tail(wire) = t
      BY <3>6, <3>7, <3>8, SameSequence
    <3> QED BY <3>3, <3>5, <3>9
  <2>3. ~stream.open
    BY <1>2, <1>9 DEF Sending
  <2> QED BY <1>4, <1>5, <1>6, <1>7, <2>1, <2>2, <2>3
<1> QED BY <1>8, <1>9

\* What the client knows before and after a frame.
LEMMA FrameCounts ==
  ASSUME StreamTypes, NEW o, NEW c, NEW ats, Sending(o, c, ats), ats # <<>>,
         NEW k, k = ats[1], NEW e, e = o[k].entity
  PROVE  /\ k \in Nat /\ e \in Stream!Entities /\ RevisionIn(o, e, k) = client.known[e] + 1
         /\ KnownIn(o, k) = [client.known EXCEPT ![e] = RevisionIn(o, e, k)]
         /\ Covered(o, k, c, Tail(ats))
<1>1. o \in Seq(OutboxRows) /\ Covered(o, client.token.at, c, ats) /\ client.known = KnownIn(o, client.token.at)
  BY DEF Sending
<1>2. PICK a \in Nat : a = client.token.at
  BY StreamFacts
<1>4. k \in a + 1..Len(o) /\ MineIn(o, a, k) = {k} /\ Covered(o, k, c, Tail(ats))
  BY <1>1, <1>2, CoveredTail
<1>6. k \in Nat /\ e \in Stream!Entities
  <2>1. k \in 1..Len(o) /\ k \in Nat
    BY <1>1, <1>2, <1>4
  <2>2. o[k] \in OutboxRows
    BY <1>1, <2>1
  <2> QED BY <2>1, <2>2 DEF OutboxRows
<1>7. \A d \in Stream!Entities :
        RevisionIn(o, d, k) = IF d = e THEN RevisionIn(o, d, a) + 1 ELSE RevisionIn(o, d, a)
  BY <1>1, <1>2, <1>4, OneRowCounts
<1>8. client.known = KnownIn(o, a)
  BY <1>1, <1>2
<1>9. \A d \in Stream!Entities : client.known[d] = RevisionIn(o, d, a)
  BY <1>8 DEF KnownIn
<1>10. RevisionIn(o, e, k) = client.known[e] + 1
  BY <1>6, <1>7, <1>9
<1>11. KnownIn(o, k) = [client.known EXCEPT ![e] = RevisionIn(o, e, k)]
  <2>1. [client.known EXCEPT ![e] = RevisionIn(o, e, k)]
          = [d \in Stream!Entities |-> IF d = e THEN RevisionIn(o, e, k) ELSE RevisionIn(o, d, a)]
    BY <1>8 DEF KnownIn
  <2>2. \A d \in Stream!Entities :
          RevisionIn(o, d, k) = IF d = e THEN RevisionIn(o, e, k) ELSE RevisionIn(o, d, a)
    BY <1>7
  <2> QED BY <2>1, <2>2 DEF KnownIn
<1> QED BY <1>4, <1>6, <1>10, <1>11

\* What SeesEveryEvent says follows.
LEMMA SeesEveryEventFollows ==
  ASSUME StreamInductive
  PROVE  Stream!SeesEveryEvent
<1>1. StreamTypes /\ Resting /\ Streaming
  BY DEF StreamInductive
<1>2. ASSUME Stream!Readable(client.token) PROVE client.known = Stream!Known(client.token.at)
  <2>1. client.token.process = process
    BY <1>2 DEF Stream!Readable
  <2>2. client.known = KnownIn(outbox, client.token.at)
    <3>1. CASE client.mode = "streaming"
      BY <1>1, <2>1, <3>1 DEF Streaming, Sending
    <3>2. CASE client.mode # "streaming"
      BY <1>1, <2>1, <3>2 DEF Resting, KnownAt
    <3> QED BY <3>1, <3>2
  <2> QED BY <2>2, RevisionsAgree
<1>3. ASSUME client.mode = "streaming", wire # <<>>, Head(wire).kind = "event"
      PROVE  Stream!Accepts(Head(wire))
  <2>1. PICK o, c, ats : Sending(o, c, ats)
    BY <1>1, <1>3 DEF Streaming
  <2>2. ats # <<>> /\ Head(wire) = FrameOf(o, client.token.process, ats[1])
    BY <1>1, <1>3, <2>1, NextIsExpected
  <2>3. PICK e : e = o[ats[1]].entity
    OBVIOUS
  <2>4. e \in Stream!Entities /\ RevisionIn(o, e, ats[1]) = client.known[e] + 1
    BY <1>1, <2>1, <2>2, <2>3, FrameCounts
  <2>5. Head(wire).entity = e /\ Head(wire).revision = client.known[e] + 1
    BY <2>2, <2>3, <2>4 DEF FrameOf
  <2>6. client.known[e] \in Nat
    BY <1>1, <2>4, StreamFacts
  <2> QED BY <2>5, <2>6 DEF Stream!Accepts
<1> QED BY <1>2, <1>3 DEF Stream!SeesEveryEvent

-----------------------------------------------------------------------------
(* The steps of the server.                                                *)

\* A step that leaves everything but the flags of the connection.
LEMMA FlagsStep ==
  ASSUME StreamInductive, stream' \in Connections, stream'.open = stream.open,
         stream'.after = stream.after, UNCHANGED <<outbox, process, wire, client>>
  PROVE  StreamInductive'
<1>1. StreamTypes' /\ Resting' /\ Reading'
  BY DEF StreamInductive, StreamTypes, Resting, Reading, KnownAt
<1>2. ASSUME NEW o, NEW c, NEW ats, Sending(o, c, ats) PROVE Sending(o, c, ats)'
  BY <1>2 DEF Sending
<1>3. Streaming'
  BY <1>2 DEF StreamInductive, Streaming
<1> QED BY <1>1, <1>3 DEF StreamInductive

LEMMA NotifyKeeps ==
  ASSUME StreamInductive, Stream!Notify \/ Stream!Heartbeat \/ Stream!Drain
  PROVE  StreamInductive'
<1>1. PICK s \in Connections : s = stream
  BY DEF StreamInductive, StreamTypes
<1>2. /\ s.open \in BOOLEAN /\ s.waiting \in BOOLEAN /\ s.scheduled \in BOOLEAN
  BY DEF Connections
<1>3. CASE Stream!Notify
  <2>1. stream' = [s EXCEPT !.scheduled = s.scheduled \/ (s.open /\ ~s.waiting)]
    BY <1>1, <1>3 DEF Stream!Notify, Stream!Woken
  <2>2. (s.scheduled \/ (s.open /\ ~s.waiting)) \in BOOLEAN
    OBVIOUS
  <2>3. stream' \in Connections /\ stream'.open = s.open /\ stream'.after = s.after
    BY <1>2, <2>1, <2>2 DEF Connections
  <2> QED BY <1>1, <1>3, <2>3, FlagsStep DEF Stream!Notify
<1>4. CASE Stream!Heartbeat
  <2>1. stream' = [s EXCEPT !.waiting = TRUE]
    BY <1>1, <1>4 DEF Stream!Heartbeat
  <2>2. stream' \in Connections /\ stream'.open = s.open /\ stream'.after = s.after
    BY <1>2, <2>1 DEF Connections
  <2> QED BY <1>1, <1>4, <2>2, FlagsStep DEF Stream!Heartbeat
<1>5. CASE Stream!Drain
  <2>1. stream' = [s EXCEPT !.waiting = FALSE, !.scheduled = TRUE]
    BY <1>1, <1>5 DEF Stream!Drain, Stream!Drained
  <2>2. stream' \in Connections /\ stream'.open = s.open /\ stream'.after = s.after
    BY <1>2, <2>1 DEF Connections
  <2> QED BY <1>1, <1>5, <2>2, FlagsStep DEF Stream!Drain
<1> QED BY <1>3, <1>4, <1>5

LEMMA CommitKeeps ==
  ASSUME StreamInductive, NEW w \in Stream!Workspaces, NEW e \in Stream!Entities, Stream!Commit(w, e)
  PROVE  StreamInductive'
<1>1. PICK row \in OutboxRows : row = [workspace |-> w, entity |-> e]
  BY DEF OutboxRows
<1>2. /\ outbox' = Append(outbox, row) /\ process' = process /\ stream' = stream /\ wire' = wire
      /\ client' = client
  BY <1>1 DEF Stream!Commit
<1>3. StreamTypes
  BY DEF StreamInductive
<1>4. outbox \in Seq(OutboxRows) /\ Len(outbox) \in Nat /\ outbox' \in Seq(OutboxRows)
      /\ Len(outbox') = Len(outbox) + 1 /\ \A k \in 1..Len(outbox) : outbox'[k] = outbox[k]
  BY <1>2, <1>3, StreamFacts
<1>5. StreamTypes'
  BY <1>2, <1>3, <1>4 DEF StreamTypes
<1>6. ASSUME NEW k \in 0..Len(outbox) PROVE KnownIn(outbox', k) = KnownIn(outbox, k)
  BY <1>2, <1>4, GrowthCounts DEF KnownIn
<1>7. ASSUME NEW token, NEW known, KnownAt(token, known)
      PROVE  token.process = process =>
               token.at \in 0..Len(outbox') /\ known = KnownIn(outbox', token.at)
  BY <1>4, <1>6, <1>7 DEF KnownAt
<1>8. Resting' /\ Reading'
  BY <1>2, <1>7 DEF StreamInductive, Resting, Reading, KnownAt
<1>9. ASSUME NEW o, NEW c, NEW ats, Sending(o, c, ats), o # outbox
      PROVE  Sending(o, c, ats)'
  <2>1. client.token.process # process /\ ~stream.open
    BY <1>9 DEF Sending
  <2> QED BY <1>2, <1>9, <2>1 DEF Sending
<1>10. ASSUME NEW c, NEW ats, Sending(outbox, c, ats)
       PROVE  \E o : Sending(o, c, ats)'
  <2>1. Covered(outbox, client.token.at, c, ats)
    BY <1>10 DEF Sending
  <2>2. PICK new : new = outbox'
    OBVIOUS
  <2>3. new \in Seq(OutboxRows) /\ Covered(new, client.token.at, c, ats)
    BY <1>2, <1>4, <2>1, <2>2, CoveredGrows
  <2>4. /\ client.token.at \in 0..Len(outbox) /\ c \in Nat /\ c <= Len(outbox) /\ ats \in Seq(Nat)
        /\ \A i \in 1..Len(ats) : ats[i] \in 1..Len(outbox)
    <3>1. /\ client.token.at \in Nat /\ c \in Nat /\ client.token.at <= c /\ c <= Len(outbox)
          /\ ats \in Seq(Nat)
          /\ \A i \in 1..Len(ats) : ats[i] \in client.token.at + 1..c /\ ats[i] \in Nat
      BY <1>4, <2>1, CoveredTypes
    <3>2. ASSUME NEW i \in 1..Len(ats) PROVE ats[i] \in 1..Len(outbox)
      <4>1. ats[i] \in client.token.at + 1..c /\ ats[i] \in Nat
        BY <3>1
      <4> QED BY <1>4, <3>1, <4>1
    <3> QED BY <1>4, <3>1, <3>2
  <2>5. KnownIn(new, client.token.at) = KnownIn(outbox, client.token.at)
    BY <1>6, <2>2, <2>4
  <2>6. FramesOf(new, client.token.process, ats) = FramesOf(outbox, client.token.process, ats)
    BY <1>2, <1>4, <2>2, <2>4, FramesGrow
  <2>7. Marked(outbox, c) => Marked(new, c)
    BY <1>4, <2>2 DEF Marked
  <2>8. Sending(new, c, ats)'
    <3>1. /\ client.known = KnownIn(outbox, client.token.at)
          /\ client.token.process = process => new = outbox'
          /\ stream.open => /\ client.token.process = process /\ stream.after = c
                            /\ Marked(outbox, c)
                            /\ wire = FramesOf(outbox, client.token.process, ats)
          /\ \/ wire = FramesOf(outbox, client.token.process, ats)
             \/ \E x \in Ends : wire = Append(FramesOf(outbox, client.token.process, ats), x)
      BY <1>10, <2>2 DEF Sending
    <3> QED BY <1>2, <2>3, <2>5, <2>6, <2>7, <3>1 DEF Sending
  <2> QED BY <2>8
<1>11. Streaming'
  <2>1. ASSUME client.mode = "streaming" PROVE \E o, c, ats : Sending(o, c, ats)'
    <3>1. PICK o, c, ats : Sending(o, c, ats)
      BY <2>1 DEF StreamInductive, Streaming
    <3> QED BY <1>9, <1>10, <3>1
  <2> QED BY <1>2, <2>1 DEF Streaming
<1> QED BY <1>5, <1>8, <1>11 DEF StreamInductive

\* A connection that is cut leaves the client the first frames of the stretch and an end.
LEMMA CutKeeps ==
  ASSUME StreamInductive, stream.open, Stream!Cut, stream' = Stream!Closed, client' = client,
         StreamTypes', \/ process' = process /\ outbox' = outbox
                       \/ process' = process + 1
  PROVE  StreamInductive'
<1>1. StreamTypes /\ client.mode = "streaming"
  BY DEF StreamInductive, Resting
<1>2. PICK o, c, ats : Sending(o, c, ats)
  BY <1>1 DEF StreamInductive, Streaming
<1>3. PICK p : p = client.token.process
  OBVIOUS
<1>4. /\ o \in Seq(OutboxRows) /\ Covered(o, client.token.at, c, ats) /\ ats \in Seq(Nat)
      /\ client.known = KnownIn(o, client.token.at)
      /\ p = process /\ o = outbox /\ wire = FramesOf(o, p, ats)
  BY <1>2, <1>3 DEF Sending, Covered
<1>5. PICK n \in 0..Len(wire) : wire' = Append(SubSeq(wire, 1, n), Stream!Ended("end"))
  BY DEF Stream!Cut
<1>6. Len(wire) = Len(ats) /\ n \in 0..Len(ats)
  <2>1. Len(wire) = Len(ats)
    BY <1>4, FramesAre
  <2> QED BY <1>5, <2>1
<1>7. PICK few : few = SubSeq(ats, 1, n)
  OBVIOUS
<1>8. PICK b : b = IF n = 0 THEN client.token.at ELSE ats[n]
  OBVIOUS
<1>9. Covered(o, client.token.at, b, few)
  BY <1>4, <1>6, <1>7, <1>8, CoveredPrefix
<1>10. SubSeq(wire, 1, n) = FramesOf(o, p, few)
  BY <1>4, <1>6, <1>7, FramesPrefix
<1>11. \E e \in Ends : wire' = Append(FramesOf(o, p, few), e)
  BY <1>5, <1>10 DEF Ends, Stream!Ended
<1>12. process \in Nat
  BY <1>1, StreamFacts
<1>13. stream'.open = FALSE
  BY DEF Stream!Closed
<1>14. client.token.process = process' => o = outbox'
  <2>1. CASE process' = process /\ outbox' = outbox
    BY <1>4, <2>1
  <2>2. CASE process' = process + 1
    <3>1. process' # process
      BY <1>12, <2>2
    <3> QED BY <1>3, <1>4, <3>1
  <2> QED BY <2>1, <2>2
<1>15. Sending(o, b, few)'
  BY <1>3, <1>4, <1>9, <1>11, <1>13, <1>14 DEF Sending
<1>16. Resting' /\ Reading' /\ Streaming'
  BY <1>1, <1>15 DEF Resting, Reading, Streaming
<1> QED BY <1>16 DEF StreamInductive

LEMMA CutsKeep ==
  ASSUME StreamInductive, Stream!SlowConsumer \/ Stream!Disconnect
  PROVE  StreamInductive'
<1>1. /\ stream.open /\ Stream!Cut /\ stream' = Stream!Closed /\ client' = client
      /\ process' = process /\ outbox' = outbox
  BY DEF Stream!SlowConsumer, Stream!Disconnect
<1>2. Stream!Closed \in Connections
  BY DEF Stream!Closed, Connections
<1>3. StreamTypes'
  BY <1>1, <1>2 DEF StreamInductive, StreamTypes
<1> QED BY <1>1, <1>3, CutKeeps

LEMMA RestartKeeps ==
  ASSUME StreamInductive, Stream!Restart
  PROVE  StreamInductive'
<1>1. /\ process' = process + 1 /\ stream' = Stream!Closed /\ client' = client
      /\ IF stream.open THEN Stream!Cut ELSE wire' = wire
  BY DEF Stream!Restart
<1>2. Stream!Closed \in Connections /\ Stream!Closed.open = FALSE
  BY DEF Stream!Closed, Connections
<1>3. StreamTypes /\ process \in Nat /\ outbox \in Seq(OutboxRows) /\ Len(outbox) \in Nat
      /\ client.token.process \in Nat /\ client.asOf.process \in Nat
      /\ client.token.process <= process /\ client.asOf.process <= process
  BY StreamFacts DEF StreamInductive
<1>4. outbox' \in Seq(OutboxRows)
  <2>1. PICK n \in 1..Len(outbox) :
          outbox' = Append(SubSeq(outbox, 1, n), [workspace |-> "mine", entity |-> "session"])
    BY DEF Stream!Restart
  <2>2. SubSeq(outbox, 1, n) \in Seq(OutboxRows)
    BY <1>3
  <2>3. [workspace |-> "mine", entity |-> "session"] \in OutboxRows
    BY DEF OutboxRows, Stream!Workspaces, Stream!Entities
  <2> QED BY <2>1, <2>2, <2>3
<1>5. StreamTypes'
  <2>1. process' \in Nat \ {0} /\ client.token.process <= process' /\ client.asOf.process <= process'
    BY <1>1, <1>3
  <2> QED BY <1>1, <1>2, <1>3, <1>4, <2>1 DEF StreamTypes
<1>6. client.token.process # process' /\ client.asOf.process # process'
  BY <1>1, <1>3
<1>7. CASE stream.open
  BY <1>1, <1>5, <1>7, CutKeeps
<1>8. CASE ~stream.open
  <2>1. wire' = wire
    BY <1>1, <1>8
  <2>2. Resting' /\ Reading'
    BY <1>1, <1>2, <1>6, <2>1 DEF StreamInductive, Resting, Reading, KnownAt
  <2>3. ASSUME NEW o, NEW c, NEW ats, Sending(o, c, ats) PROVE Sending(o, c, ats)'
    BY <1>1, <1>2, <1>6, <2>1, <2>3 DEF Sending
  <2>4. Streaming'
    BY <1>1, <2>3 DEF StreamInductive, Streaming
  <2> QED BY <1>5, <2>2, <2>4 DEF StreamInductive
<1> QED BY <1>7, <1>8

-----------------------------------------------------------------------------
(* A replay is written to the wire.                                        *)

\* What is written goes on where the stretch ended.
LEMMA PumpedGoesOn ==
  ASSUME StreamTypes, NEW a \in Nat, NEW c \in Nat, NEW ats, Covered(outbox, a, c, ats), Marked(outbox, c),
         NEW frames, frames = FramesOf(outbox, process, ats), Stream!Pumped(c, frames)
  PROVE  /\ stream' \in Connections
         /\ \E d, more :
              /\ Covered(outbox, a, d, more)
              /\ \/ stream'.open /\ stream'.after = d /\ Marked(outbox, d)
                    /\ wire' = FramesOf(outbox, process, more)
                 \/ ~stream'.open /\ \E e \in Ends : wire' = Append(FramesOf(outbox, process, more), e)
<1>1. outbox \in Seq(OutboxRows) /\ Len(outbox) \in Nat /\ process \in Nat
  BY StreamFacts
<1>2. c \in 0..Len(outbox) /\ ats \in Seq(Nat)
  BY <1>1, CoveredTypes
<1>3. PICK page : page = Stream!Page(c)
  OBVIOUS
<1>4. /\ page \in Seq(Nat)
      /\ \A n \in 0..Len(page) :
              LET d == IF n = 0 THEN c ELSE page[n]
              IN Covered(outbox, c, d, SubSeq(page, 1, n)) /\ Marked(outbox, d)
      /\ ~Stream!HasMore(c) => Covered(outbox, c, Stream!Watermark, SubSeq(page, 1, Len(page)))
  BY <1>1, <1>2, <1>3, ReplayCovers
<1>5. PICK written \in 0..Len(page) :
        LET sent == frames \o [k \in 1..written |-> Stream!Frame(page[k])] IN
        \/ /\ written > 0
           /\ stream' = [open |-> TRUE, after |-> IF written = Len(page) THEN page[written]
                                                  ELSE Stream!Behind(c, page, written),
                         waiting |-> TRUE, scheduled |-> FALSE]
           /\ wire' = sent /\ UNCHANGED streamFaults
        \/ /\ written = Len(page)
           /\ stream' = [open |-> TRUE, after |-> Stream!Behind(c, page, written),
                         waiting |-> FALSE, scheduled |-> Stream!HasMore(c)]
           /\ wire' = sent /\ UNCHANGED streamFaults
        \/ Stream!Fault /\ stream' = Stream!Closed /\ wire' = Append(sent, Stream!Ended("stream.error"))
  BY <1>3 DEF Stream!Pumped
<1>6. PICK few : few = SubSeq(page, 1, written)
  OBVIOUS
<1>7. few \in Seq(Nat) /\ Len(few) = written /\ \A k \in 1..written : few[k] = page[k]
  <2>1. page \in Seq(Nat) /\ Len(page) \in Nat /\ written \in 0..Len(page)
    BY <1>4
  <2> QED BY <1>6, <2>1
<1>8. PICK more : more = ats \o few
  OBVIOUS
<1>9. frames \o [k \in 1..written |-> Stream!Frame(page[k])] = FramesOf(outbox, process, more)
  <2>1. ASSUME NEW k \in 1..written PROVE Stream!Frame(page[k]) = FrameOf(outbox, process, few[k])
    <3>1. few[k] = page[k]
      BY <1>7
    <3> QED BY <3>1, RevisionsAgree DEF Stream!Frame, FrameOf
  <2>2. [k \in 1..written |-> Stream!Frame(page[k])] = FramesOf(outbox, process, few)
    <3>1. Len(few) = written
      BY <1>7
    <3>2. PICK g : g = [k \in 1..Len(few) |-> FrameOf(outbox, process, few[k])]
      OBVIOUS
    <3>3. g = FramesOf(outbox, process, few)
      BY <3>2 DEF FramesOf
    <3>4. g = [k \in 1..written |-> Stream!Frame(page[k])]
      BY <2>1, <3>1, <3>2
    <3> QED BY <3>3, <3>4
  <2>3. PICK x : x = [k \in 1..written |-> Stream!Frame(page[k])]
    OBVIOUS
  <2>4. FramesOf(outbox, process, more) = FramesOf(outbox, process, ats) \o FramesOf(outbox, process, few)
    BY <1>2, <1>7, <1>8, FramesJoin
  <2>5. frames \o x = FramesOf(outbox, process, more)
    BY <2>2, <2>3, <2>4
  <2> QED BY <2>3, <2>5
<1>10. PICK b : b = IF written = 0 THEN c ELSE page[written]
  OBVIOUS
<1>11. Covered(outbox, c, b, few) /\ Marked(outbox, b)
  BY <1>4, <1>5, <1>6, <1>10
<1>12. Covered(outbox, a, b, more)
  BY <1>1, <1>8, <1>11, CoveredJoin
<1>13. b \in Nat
  BY <1>1, <1>12, CoveredTypes
<1>14. Stream!HasMore(c) \in BOOLEAN
  BY DEF Stream!HasMore
<1>15. CASE /\ wire' = frames \o [k \in 1..written |-> Stream!Frame(page[k])]
            /\ \/ stream' = [open |-> TRUE, after |-> b, waiting |-> TRUE, scheduled |-> FALSE]
               \/ stream' = [open |-> TRUE, after |-> b, waiting |-> FALSE, scheduled |-> Stream!HasMore(c)]
  <2>1. stream' \in Connections /\ stream'.open /\ stream'.after = b
    <3>1. CASE stream' = [open |-> TRUE, after |-> b, waiting |-> TRUE, scheduled |-> FALSE]
      BY <1>13, <3>1 DEF Connections
    <3>2. CASE stream' = [open |-> TRUE, after |-> b, waiting |-> FALSE, scheduled |-> Stream!HasMore(c)]
      BY <1>13, <1>14, <3>2 DEF Connections
    <3> QED BY <1>15, <3>1, <3>2
  <2> QED BY <1>9, <1>11, <1>12, <1>15, <2>1
<1>16. CASE /\ wire' = frames \o [k \in 1..written |-> Stream!Frame(page[k])]
            /\ written = Len(page) /\ ~Stream!HasMore(c)
            /\ stream' = [open |-> TRUE, after |-> Stream!Watermark,
                          waiting |-> FALSE, scheduled |-> Stream!HasMore(c)]
  <2>1. PICK w : w = Stream!Watermark
    OBVIOUS
  <2>2. Covered(outbox, c, w, few) /\ Marked(outbox, w)
    BY <1>1, <1>4, <1>6, <1>16, <2>1, WatermarkIs
  <2>3. Covered(outbox, a, w, more)
    BY <1>1, <1>8, <2>2, CoveredJoin
  <2>4. w \in Nat
    BY <1>1, <2>3, CoveredTypes
  <2>5. stream' \in Connections /\ stream'.open /\ stream'.after = w
    BY <1>14, <1>16, <2>1, <2>4 DEF Connections
  <2> QED BY <1>9, <1>16, <2>2, <2>3, <2>5
<1>17. CASE /\ stream' = Stream!Closed
            /\ wire' = Append(frames \o [k \in 1..written |-> Stream!Frame(page[k])],
                              Stream!Ended("stream.error"))
  <2>1. stream' \in Connections /\ ~stream'.open
    BY <1>17 DEF Stream!Closed, Connections
  <2>2. \E e \in Ends : wire' = Append(FramesOf(outbox, process, more), e)
    BY <1>9, <1>17 DEF Ends, Stream!Ended
  <2> QED BY <1>12, <2>1, <2>2
<1>18. written > 0 => b = page[written]
  BY <1>5, <1>10
<1>19. Stream!Behind(c, page, written)
         = IF written = Len(page) /\ ~Stream!HasMore(c) THEN Stream!Watermark ELSE b
  BY <1>10 DEF Stream!Behind
<1>20. CASE /\ written > 0
            /\ stream' = [open |-> TRUE, after |-> IF written = Len(page) THEN page[written]
                                                   ELSE Stream!Behind(c, page, written),
                          waiting |-> TRUE, scheduled |-> FALSE]
            /\ wire' = frames \o [k \in 1..written |-> Stream!Frame(page[k])]
  <2>1. stream' = [open |-> TRUE, after |-> b, waiting |-> TRUE, scheduled |-> FALSE]
    BY <1>18, <1>19, <1>20
  <2> QED BY <1>15, <1>20, <2>1
<1>21. CASE /\ written = Len(page)
            /\ stream' = [open |-> TRUE, after |-> Stream!Behind(c, page, written),
                          waiting |-> FALSE, scheduled |-> Stream!HasMore(c)]
            /\ wire' = frames \o [k \in 1..written |-> Stream!Frame(page[k])]
  BY <1>15, <1>16, <1>19, <1>21
<1> QED BY <1>5, <1>17, <1>20, <1>21

LEMMA PumpKeeps ==
  ASSUME StreamInductive, Stream!Pump
  PROVE  StreamInductive'
<1>1. /\ stream.open /\ outbox' = outbox /\ process' = process /\ client' = client
      /\ IF stream.waiting
         THEN stream' = [stream EXCEPT !.scheduled = FALSE] /\ UNCHANGED <<wire, streamFaults>>
         ELSE Stream!Pumped(stream.after, wire)
  BY DEF Stream!Pump
<1>2. StreamTypes /\ client.mode = "streaming"
  BY <1>1 DEF StreamInductive, Resting
<1>3. CASE stream.waiting
  <2>1. PICK s \in Connections : s = stream
    BY <1>2 DEF StreamTypes
  <2>2. stream' = [s EXCEPT !.scheduled = FALSE] /\ wire' = wire
    BY <1>1, <1>3, <2>1
  <2>3. stream' \in Connections /\ stream'.open = s.open /\ stream'.after = s.after
    BY <2>2 DEF Connections
  <2> QED BY <1>1, <2>1, <2>2, <2>3, FlagsStep
<1>4. CASE ~stream.waiting
  <2>1. Stream!Pumped(stream.after, wire)
    BY <1>1, <1>4
  <2>2. PICK o, c, ats : Sending(o, c, ats)
    BY <1>2 DEF StreamInductive, Streaming
  <2>3. PICK a : a = client.token.at
    OBVIOUS
  <2>4. /\ o = outbox /\ client.token.process = process /\ Covered(outbox, a, c, ats)
        /\ stream.after = c /\ Marked(outbox, c) /\ wire = FramesOf(outbox, process, ats)
        /\ client.known = KnownIn(outbox, a)
    BY <1>1, <2>2, <2>3 DEF Sending
  <2>5. a \in Nat /\ c \in Nat
    BY <1>2, <2>3, <2>4, StreamFacts
  <2>6. Stream!Pumped(c, wire)
    BY <2>1, <2>4
  <2>7. stream' \in Connections
    BY <1>2, <2>4, <2>5, <2>6, PumpedGoesOn
  <2>8. PICK d, more :
          /\ Covered(outbox, a, d, more)
          /\ \/ stream'.open /\ stream'.after = d /\ Marked(outbox, d)
                /\ wire' = FramesOf(outbox, process, more)
             \/ ~stream'.open /\ \E e \in Ends : wire' = Append(FramesOf(outbox, process, more), e)
    BY <1>2, <2>4, <2>5, <2>6, PumpedGoesOn
  <2>9. outbox \in Seq(OutboxRows)
    BY <1>2, StreamFacts
  <2>10. Sending(outbox, d, more)'
    BY <1>1, <2>3, <2>4, <2>8, <2>9 DEF Sending
  <2>11. StreamTypes' /\ Resting' /\ Reading' /\ Streaming'
    BY <1>1, <1>2, <2>7, <2>10 DEF StreamTypes, Resting, Reading, Streaming
  <2> QED BY <2>11 DEF StreamInductive
<1> QED BY <1>3, <1>4

-----------------------------------------------------------------------------
(* The steps of the client.                                                *)

\* A client that has read its pages, or has nothing, does not follow a stream.
LEMMA AdoptKeeps ==
  ASSUME StreamInductive, client.mode # "streaming", NEW token \in Tokens,
         NEW known \in [Stream!Entities -> Nat], token.process <= process, KnownAt(token, known),
         Stream!Adopt(token, known), UNCHANGED <<outbox, process, stream, wire>>
  PROVE  StreamInductive'
<1>1. PICK f \in Followers : f = client
  BY StreamFacts DEF StreamInductive
<1>2. client' = [f EXCEPT !.mode = "idle", !.token = token, !.known = known, !.asOf = Stream!NoToken]
  BY <1>1 DEF Stream!Adopt
<1>3. Stream!NoToken \in Tokens /\ Stream!NoToken.process = 0
  BY DEF Stream!NoToken, Tokens
<1>4. /\ client' \in Followers /\ client'.mode = "idle" /\ client'.token = token
      /\ client'.known = known /\ client'.asOf = Stream!NoToken
  BY <1>2, <1>3 DEF Followers
<1>5. StreamTypes /\ process \in Nat
  BY StreamFacts DEF StreamInductive
<1>6. StreamTypes'
  BY <1>3, <1>4, <1>5 DEF StreamTypes
<1>7. Resting'
  BY <1>4 DEF StreamInductive, Resting, KnownAt
<1>8. Reading' /\ Streaming'
  BY <1>4 DEF Reading, Streaming
<1> QED BY <1>6, <1>7, <1>8 DEF StreamInductive

\* A client that gives up has no cursor; the wire is empty and the stream closed.
LEMMA GiveUpKeeps ==
  ASSUME StreamInductive, Stream!GiveUp, UNCHANGED <<outbox, process>>,
         wire' = <<>>, stream' \in Connections, ~stream'.open
  PROVE  StreamInductive'
<1>1. PICK f \in Followers : f = client
  BY StreamFacts DEF StreamInductive
<1>2. client' = [f EXCEPT !.mode = "idle", !.token = Stream!NoToken, !.asOf = Stream!NoToken]
  BY <1>1 DEF Stream!GiveUp
<1>3. Stream!NoToken \in Tokens /\ Stream!NoToken.process = 0
  BY DEF Stream!NoToken, Tokens
<1>4. /\ client' \in Followers /\ client'.mode = "idle" /\ client'.token = Stream!NoToken
      /\ client'.asOf = Stream!NoToken
  BY <1>2, <1>3 DEF Followers
<1>5. StreamTypes /\ process \in Nat /\ process # 0
  BY StreamFacts DEF StreamInductive
<1>6. StreamTypes'
  BY <1>3, <1>4, <1>5 DEF StreamTypes
<1>7. Resting'
  BY <1>3, <1>4, <1>5 DEF Resting, KnownAt
<1>8. Reading' /\ Streaming'
  BY <1>4 DEF Reading, Streaming
<1> QED BY <1>6, <1>7, <1>8 DEF StreamInductive

LEMMA PagesKeep ==
  ASSUME StreamInductive, Stream!FirstPage \/ Stream!NextPage
  PROVE  StreamInductive'
<1>1. StreamTypes /\ Reading /\ process \in Nat /\ outbox \in Seq(OutboxRows)
  BY StreamFacts DEF StreamInductive
<1>2. PICK w : w = Stream!Watermark
  OBVIOUS
<1>3. w \in 0..Len(outbox) /\ w \in Nat
  <2>1. w \in 0..Len(outbox)
    BY <1>1, <1>2, WatermarkIs
  <2> QED BY <1>1, <2>1
<1>4. Stream!Known(w) = KnownIn(outbox, w) /\ KnownIn(outbox, w) \in [Stream!Entities -> Nat]
  BY <1>3, RevisionsAgree, KnownType
<1>5. CASE Stream!FirstPage
  <2>1. PICK asOf : asOf = [process |-> process, at |-> w]
    OBVIOUS
  <2>2. asOf \in Tokens /\ asOf.process = process /\ asOf.at = w
    BY <1>1, <1>3, <2>1 DEF Tokens
  <2>3. KnownAt(asOf, KnownIn(outbox, w))
    BY <1>3, <2>2 DEF KnownAt
  <2>4. /\ client.mode = "idle" /\ UNCHANGED <<outbox, process, stream, wire>>
        /\ \/ Stream!Adopt(asOf, Stream!Known(w))
           \/ client' = [client EXCEPT !.mode = "reading", !.asOf = asOf, !.draft = Stream!Known(w)]
    BY <1>2, <1>5, <2>1 DEF Stream!FirstPage
  <2>5. CASE Stream!Adopt(asOf, Stream!Known(w))
    BY <1>1, <1>4, <2>2, <2>3, <2>4, <2>5, AdoptKeeps
  <2>6. CASE client' = [client EXCEPT !.mode = "reading", !.asOf = asOf, !.draft = Stream!Known(w)]
    <3>1. PICK f \in Followers : f = client
      BY <1>1, StreamFacts
    <3>2. client' = [f EXCEPT !.mode = "reading", !.asOf = asOf, !.draft = KnownIn(outbox, w)]
      BY <1>4, <2>6, <3>1
    <3>3. /\ client' \in Followers /\ client'.mode = "reading" /\ client'.token = f.token
          /\ client'.known = f.known /\ client'.asOf = asOf /\ client'.draft = KnownIn(outbox, w)
      BY <1>4, <2>2, <3>2 DEF Followers
    <3>4. StreamTypes'
      BY <1>1, <2>2, <2>4, <3>1, <3>3 DEF StreamTypes
    <3>5. Resting'
      BY <2>4, <3>1, <3>3 DEF StreamInductive, Resting, KnownAt
    <3>6. Reading' /\ Streaming'
      BY <2>3, <2>4, <3>3 DEF Reading, Streaming, KnownAt
    <3> QED BY <3>4, <3>5, <3>6 DEF StreamInductive
  <2> QED BY <2>4, <2>5, <2>6
<1>6. CASE Stream!NextPage
  <2>1. /\ client.mode = "reading" /\ UNCHANGED <<outbox, process, stream, wire>>
        /\ IF Stream!Continues(client.asOf)
           THEN Stream!Adopt(client.asOf, [client.draft EXCEPT !["task"] = Stream!RevisionAt("task", w)])
           ELSE Stream!GiveUp
    BY <1>2, <1>6 DEF Stream!NextPage
  <2>2. CASE Stream!Continues(client.asOf)
    <3>1. client.asOf.process = process /\ client.asOf.at = w
      BY <1>2, <2>2 DEF Stream!Continues, Stream!Readable
    <3>2. KnownAt(client.asOf, client.draft)
      BY <1>1, <2>1 DEF Reading
    <3>3. client.draft = KnownIn(outbox, w)
      BY <3>1, <3>2 DEF KnownAt
    <3>4. [client.draft EXCEPT !["task"] = Stream!RevisionAt("task", w)] = client.draft
      <4>1. Stream!RevisionAt("task", w) = RevisionIn(outbox, "task", w)
        BY RevisionsAgree
      <4>2. client.draft = [e \in Stream!Entities |-> RevisionIn(outbox, e, w)]
        BY <3>3 DEF KnownIn
      <4> QED BY <4>1, <4>2
    <3>5. /\ client.asOf \in Tokens /\ client.asOf.process <= process
          /\ client.draft \in [Stream!Entities -> Nat]
      BY <1>1, StreamFacts
    <3>6. Stream!Adopt(client.asOf, client.draft)
      BY <2>1, <2>2, <3>4
    <3> QED BY <2>1, <3>2, <3>5, <3>6, AdoptKeeps
  <2>3. CASE ~Stream!Continues(client.asOf)
    <3>1. ~stream.open /\ wire = <<>> /\ stream \in Connections
      BY <1>1, <2>1 DEF StreamInductive, Resting, StreamTypes
    <3> QED BY <2>1, <2>3, <3>1, GiveUpKeeps
  <2> QED BY <2>2, <2>3
<1> QED BY <1>5, <1>6

LEMMA ConnectKeeps ==
  ASSUME StreamInductive, Stream!Connect
  PROVE  StreamInductive'
<1>1. StreamTypes /\ Resting
  BY DEF StreamInductive
<1>2. /\ client.mode = "idle" /\ ~stream.open /\ wire = <<>> /\ outbox' = outbox /\ process' = process
      /\ KnownAt(client.token, client.known)
  BY <1>1 DEF Stream!Connect, Resting
<1>3. PICK a \in Nat : a = client.token.at
  BY <1>1, StreamFacts
<1>4. outbox \in Seq(OutboxRows) /\ Len(outbox) \in Nat
  BY <1>1, StreamFacts
<1>5. CASE Stream!GiveUp /\ UNCHANGED <<stream, wire>>
  <2>1. stream \in Connections
    BY <1>1 DEF StreamTypes
  <2> QED BY <1>2, <1>5, <2>1, GiveUpKeeps
<1>6. CASE /\ Stream!Readable(client.token) /\ Stream!Replayable(client.token.at)
           /\ Stream!Pumped(client.token.at, <<>>)
           /\ client' = [client EXCEPT !.mode = "streaming"]
  <2>1. client.token.process = process /\ a \in 0..Len(outbox) /\ client.known = KnownIn(outbox, a)
    BY <1>2, <1>3, <1>6 DEF Stream!Readable, KnownAt
  <2>2. Marked(outbox, a)
    BY <1>3, <1>6 DEF Stream!Replayable, Stream!MineAfter, Marked
  <2>3. Covered(outbox, a, a, <<>>)
    <3>1. MineIn(outbox, a, a) = {} /\ On(<<>>) = {} /\ Ascending(<<>>)
      BY <1>3 DEF MineIn, On, Ascending
    <3>2. a \in a..Len(outbox) /\ <<>> \in Seq(Nat)
      BY <1>3, <1>4, <2>1
    <3> QED BY <3>1, <3>2 DEF Covered
  <2>4. FramesOf(outbox, process, <<>>) = <<>>
    BY DEF FramesOf
  <2>5. Stream!Pumped(a, <<>>)
    BY <1>3, <1>6
  <2>6. stream' \in Connections
    BY <1>1, <2>2, <2>3, <2>4, <2>5, PumpedGoesOn
  <2>7. PICK d, more :
          /\ Covered(outbox, a, d, more)
          /\ \/ stream'.open /\ stream'.after = d /\ Marked(outbox, d)
                /\ wire' = FramesOf(outbox, process, more)
             \/ ~stream'.open /\ \E e \in Ends : wire' = Append(FramesOf(outbox, process, more), e)
    BY <1>1, <2>2, <2>3, <2>4, <2>5, PumpedGoesOn
  <2>8. PICK f \in Followers : f = client
    BY <1>1, StreamFacts
  <2>9. client' = [f EXCEPT !.mode = "streaming"]
    BY <1>6, <2>8
  <2>10. /\ client' \in Followers /\ client'.mode = "streaming" /\ client'.token = f.token
         /\ client'.known = f.known /\ client'.asOf = f.asOf
    BY <2>9 DEF Followers
  <2>11. Sending(outbox, d, more)'
    <3>1. client'.token.at = a /\ client'.token.process = process /\ client'.known = KnownIn(outbox, a)
      BY <1>3, <2>1, <2>8, <2>10
    <3> QED BY <1>2, <1>4, <2>7, <3>1 DEF Sending
  <2>12. StreamTypes'
    BY <1>1, <1>2, <2>6, <2>8, <2>10 DEF StreamTypes
  <2>13. Resting' /\ Reading' /\ Streaming'
    BY <2>10, <2>11 DEF Resting, Reading, Streaming
  <2> QED BY <2>12, <2>13 DEF StreamInductive
<1> QED BY <1>5, <1>6 DEF Stream!Connect

LEMMA ReceiveKeeps ==
  ASSUME StreamInductive, Stream!Receive
  PROVE  StreamInductive'
<1>1. StreamTypes
  BY DEF StreamInductive
<1>2. client.mode = "streaming" /\ wire # <<>> /\ outbox' = outbox /\ process' = process
  BY DEF Stream!Receive
<1>3. PICK o, c, ats : Sending(o, c, ats)
  BY <1>2 DEF StreamInductive, Streaming
<1>4. PICK frame : frame = Head(wire)
  OBVIOUS
<1>5. Stream!Closed \in Connections /\ ~Stream!Closed.open
  BY DEF Stream!Closed, Connections
<1>6. PICK f \in Followers : f = client
  BY <1>1, StreamFacts
<1>7. CASE frame.kind = "event"
  <2>1. Head(wire).kind = "event"
    BY <1>4, <1>7
  <2>2. /\ ats # <<>> /\ frame = FrameOf(o, client.token.process, ats[1])
        /\ Tail(wire) = FramesOf(o, client.token.process, Tail(ats))
              \/ \E e \in Ends : Tail(wire) = Append(FramesOf(o, client.token.process, Tail(ats)), e)
        /\ stream.open => Tail(wire) = FramesOf(o, client.token.process, Tail(ats))
    BY <1>1, <1>2, <1>3, <1>4, <2>1, NextIsExpected
  <2>3. PICK k : k = ats[1]
    OBVIOUS
  <2>4. PICK e : e = o[k].entity
    OBVIOUS
  <2>5. /\ k \in Nat /\ e \in Stream!Entities /\ RevisionIn(o, e, k) = client.known[e] + 1
        /\ KnownIn(o, k) = [client.known EXCEPT ![e] = RevisionIn(o, e, k)]
        /\ Covered(o, k, c, Tail(ats))
    BY <1>1, <1>3, <2>2, <2>3, <2>4, FrameCounts
  <2>6. /\ frame.process = client.token.process /\ frame.at = k /\ frame.entity = e
        /\ frame.revision = RevisionIn(o, e, k)
    BY <2>2, <2>3, <2>4 DEF FrameOf
  <2>7. client.known[e] \in Nat
    BY <1>1, <2>5, StreamFacts
  <2>8. Stream!Accepts(frame)
    BY <2>5, <2>6, <2>7 DEF Stream!Accepts
  <2>9. /\ client' = [client EXCEPT !.token = [process |-> frame.process, at |-> frame.at],
                        !.known[frame.entity] = IF frame.revision < @ THEN @ ELSE frame.revision]
        /\ wire' = Tail(wire) /\ stream' = stream
    BY <1>4, <1>7, <2>8 DEF Stream!Receive
  <2>10. PICK token \in Tokens : token = [process |-> client.token.process, at |-> k]
    BY <1>1, <2>5, StreamFacts DEF Tokens
  <2>11. PICK known : known = [f.known EXCEPT ![e] = RevisionIn(o, e, k)]
    OBVIOUS
  <2>12. known = KnownIn(o, k) /\ known \in [Stream!Entities -> Nat]
    <3>1. known = [client.known EXCEPT ![e] = RevisionIn(o, e, k)]
      BY <1>6, <2>11
    <3>2. known = KnownIn(o, k)
      BY <2>5, <3>1
    <3>3. k \in Nat
      BY <2>5
    <3>4. KnownIn(o, k) \in [Stream!Entities -> Nat]
      BY <3>3, KnownType
    <3> QED BY <3>2, <3>4
  <2>13. client' = [f EXCEPT !.token = token, !.known = known]
    <3>1. (IF frame.revision < client.known[e] THEN client.known[e] ELSE frame.revision) = RevisionIn(o, e, k)
      BY <2>5, <2>6, <2>7
    <3>2. client' = [f EXCEPT !.token = [process |-> frame.process, at |-> frame.at],
                        !.known = [f.known EXCEPT ![e] = IF frame.revision < f.known[e] THEN f.known[e] ELSE frame.revision]]
      BY <1>6, <2>6, <2>9
    <3> QED BY <1>6, <2>6, <2>10, <2>11, <3>1, <3>2
  <2>14. /\ client' \in Followers /\ client'.mode = f.mode /\ client'.token = token
         /\ client'.known = known /\ client'.asOf = f.asOf
    BY <2>12, <2>13 DEF Followers
  <2>15. token.process = client.token.process /\ token.at = k
    BY <2>10
  <2>16. Sending(o, c, Tail(ats))'
    <3>1. /\ o \in Seq(OutboxRows) /\ (client.token.process = process => o = outbox)
          /\ stream.open => client.token.process = process /\ stream.after = c /\ Marked(o, c)
      BY <1>3 DEF Sending
    <3> QED BY <1>2, <2>2, <2>5, <2>9, <2>12, <2>14, <2>15, <3>1 DEF Sending
  <2>17. StreamTypes'
    BY <1>1, <1>2, <1>6, <2>9, <2>14, <2>15 DEF StreamTypes
  <2>18. Resting' /\ Reading' /\ Streaming'
    BY <1>2, <1>6, <2>14, <2>16 DEF Resting, Reading, Streaming
  <2> QED BY <2>17, <2>18 DEF StreamInductive
\* An end is the last frame, and the stream is closed.
<1>8. CASE frame.kind # "event"
  <2>1. ~stream.open
    <3>1. SUFFICES ASSUME stream.open PROVE FALSE
      OBVIOUS
    <3>2. wire = FramesOf(o, client.token.process, ats) /\ ats \in Seq(Nat)
      BY <1>3, <3>1 DEF Sending, Covered
    <3>3. PICK S : S = Frames(o, client.token.process)
      OBVIOUS
    <3>4. wire \in Seq(S) /\ Len(wire) = Len(ats)
          /\ \A i \in 1..Len(ats) : wire[i] = FrameOf(o, client.token.process, ats[i])
      BY <3>2, <3>3, FramesAre
    <3>5. Len(ats) \in Nat /\ 1 \in 1..Len(ats)
      BY <1>2, <3>2, <3>4
    <3>6. frame = FrameOf(o, client.token.process, ats[1])
      BY <1>2, <1>4, <3>4, <3>5
    <3> QED BY <1>8, <3>6 DEF FrameOf
  <2>2. /\ wire' = <<>> /\ stream' = stream
        /\ Stream!GiveUp \/ client' = [client EXCEPT !.mode = "idle"]
    BY <1>4, <1>8 DEF Stream!Receive
  <2>3. stream \in Connections
    BY <1>1 DEF StreamTypes
  <2>4. CASE Stream!GiveUp
    BY <1>2, <2>1, <2>2, <2>3, <2>4, GiveUpKeeps
  <2>5. CASE client' = [client EXCEPT !.mode = "idle"]
    <3>1. client' = [f EXCEPT !.mode = "idle"]
      BY <1>6, <2>5
    <3>2. /\ client' \in Followers /\ client'.mode = "idle" /\ client'.token = f.token
          /\ client'.known = f.known /\ client'.asOf = f.asOf
      BY <3>1 DEF Followers
    <3>3. client.token.process = process =>
            client.token.at \in 0..Len(outbox) /\ client.known = KnownIn(outbox, client.token.at)
      <4>1. ASSUME client.token.process = process PROVE client.token.at \in 0..Len(outbox)
        <5>1. Covered(outbox, client.token.at, c, ats)
          BY <1>3, <4>1 DEF Sending
        <5>2. outbox \in Seq(OutboxRows)
          BY <1>1, StreamFacts
        <5>3. /\ client.token.at \in Nat /\ c \in Nat /\ client.token.at <= c /\ c <= Len(outbox)
              /\ Len(outbox) \in Nat
          BY <5>1, <5>2, CoveredTypes
        <5> QED BY <5>3
      <4> QED BY <1>3, <4>1 DEF Sending
    <3>4. StreamTypes'
      BY <1>1, <1>2, <1>6, <2>2, <3>2 DEF StreamTypes
    <3>5. Resting' /\ Reading' /\ Streaming'
      BY <1>2, <1>6, <2>1, <2>2, <3>2, <3>3 DEF Resting, Reading, Streaming, KnownAt
    <3> QED BY <3>4, <3>5 DEF StreamInductive
  <2> QED BY <2>2, <2>4, <2>5
<1> QED BY <1>7, <1>8

-----------------------------------------------------------------------------
(* The theorem.                                                            *)

LEMMA StreamStep ==
  ASSUME StreamInductive, Stream!Next
  PROVE  StreamInductive'
BY NotifyKeeps, CommitKeeps, CutsKeep, RestartKeeps, PumpKeeps, PagesKeep, ConnectKeeps, ReceiveKeeps
   DEF Stream!Next

\* StreamInductive is an invariant of the stream: what is on the wire is a stretch of one outbox,
\* which begins at the client's cursor.
THEOREM StreamInvariance == MCSpec => [](IsStream => StreamInductive)
<1> DEFINE Inv == IsStream => StreamInductive
<1>1. MCInit => Inv
  <2>1. ASSUME Stream!Init PROVE StreamInductive
    <3>1. /\ outbox = <<[workspace |-> "mine", entity |-> "session"]>> /\ process = 1
          /\ stream = Stream!Closed /\ wire = <<>>
          /\ client = [mode |-> "idle", token |-> Stream!NoToken,
                       known |-> [e \in Stream!Entities |-> 0],
                       draft |-> [e \in Stream!Entities |-> 0], asOf |-> Stream!NoToken]
      BY <2>1 DEF Stream!Init
    <3>2. outbox \in Seq(OutboxRows)
      <4>1. [workspace |-> "mine", entity |-> "session"] \in OutboxRows
        BY DEF OutboxRows, Stream!Workspaces, Stream!Entities
      <4> QED BY <3>1, <4>1
    <3>3. Stream!Closed \in Connections /\ ~Stream!Closed.open
      BY DEF Stream!Closed, Connections
    <3>4. Stream!NoToken \in Tokens /\ Stream!NoToken.process = 0
      BY DEF Stream!NoToken, Tokens
    <3>5. [e \in Stream!Entities |-> 0] \in [Stream!Entities -> Nat]
      OBVIOUS
    <3>6. client \in Followers
      BY <3>1, <3>4, <3>5 DEF Followers
    <3>7. client.token = Stream!NoToken /\ client.asOf = Stream!NoToken /\ client.mode = "idle"
      BY <3>1
    <3>8. StreamTypes
      BY <3>1, <3>2, <3>3, <3>4, <3>6, <3>7 DEF StreamTypes
    <3>9. Resting /\ Reading /\ Streaming
      BY <3>1, <3>3, <3>4, <3>7 DEF Resting, Reading, Streaming, KnownAt
    <3> QED BY <3>8, <3>9 DEF StreamInductive
  <2> QED BY <2>1 DEF MCInit, IsStream, IsJournal, IsStore
<1>2. Inv /\ [MCNext]_<<part, vars, streamVars, storeVars>> => Inv'
  <2>1. ASSUME Inv, IsStream, Stream!Next, UNCHANGED part PROVE Inv'
    BY <2>1, StreamStep DEF IsStream
  <2>2. ASSUME Inv, UNCHANGED <<part, streamVars>> PROVE Inv'
    <3>1. UNCHANGED <<outbox, process, stream, wire, client>> /\ part' = part
      BY <2>2 DEF streamVars
    <3>2. ASSUME NEW o, NEW c, NEW ats, Sending(o, c, ats) PROVE Sending(o, c, ats)'
      BY <3>1, <3>2 DEF Sending
    <3>3. StreamInductive => StreamInductive'
      BY <3>1, <3>2 DEF StreamInductive, StreamTypes, Resting, Reading, KnownAt, Streaming
    <3> QED BY <2>2, <3>1, <3>3 DEF IsStream
  <2> QED BY <2>1, <2>2 DEF MCNext
<1> QED BY <1>1, <1>2, PTL DEF MCSpec

\* A client with a cursor knows the outbox at that cursor, for every size of the outbox and the pages.
THEOREM EveryEventSeen == MCSpec => []SeesEveryEvent
<1>1. (IsStream => StreamInductive) => SeesEveryEvent
  BY SeesEveryEventFollows DEF SeesEveryEvent
<1> QED BY <1>1, StreamInvariance, PTL
=============================================================================
