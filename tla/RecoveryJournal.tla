--------------------------- MODULE RecoveryJournal ---------------------------
(***************************************************************************)
(* The recovery journal, packages/memory-store/src/recovery-journal-v2.ts: *)
(* the log of control intents, its head and the installation's recovery    *)
(* epoch are three files, written one after the other by a single writer.  *)
(* One action per file operation that can fail or be cut off by a crash.   *)
(* The journal keeps nothing in memory between calls, so a crash and an    *)
(* operation that throws are the same step (Fail).                         *)
(*                                                                         *)
(* Abstractions.  The log is only ever appended to, so a checksum is the   *)
(* position of its record.  A write is flushed before the next begins, so  *)
(* after a crash a file holds what was written to it, but for the          *)
(* operation in progress: a cut-off line of the log (torn) or a cut-off    *)
(* temporary of the installation file.  The temporary's name is a digest   *)
(* of its contents, so of its epoch: an attempt to publish an epoch finds  *)
(* what an earlier attempt left under that name.  The temporaries of the   *)
(* head hold a record not yet tried or the time of the attempt, so no      *)
(* later attempt uses their names.                                         *)
(***************************************************************************)
EXTENDS Naturals, Sequences

CONSTANTS
  Intents,  \* the control intents the callers may submit
  MaxLog    \* MAX_LOG_BYTES, in records

ASSUME JournalAssumption ==
  /\ MaxLog \in Nat
  /\ \A i \in Intents : /\ i.restore \in BOOLEAN /\ i.expected \in Nat
                        /\ "none" # i.operation

VARIABLES
  created,       \* how many of the three files the initialization has made
  log,           \* recovery.log: records, each an intent and its epoch
  torn,          \* does recovery.log end in a cut-off line?
  head,          \* recovery.head: sequence and epoch of the last anchored record
  installation,  \* installation.json: recoveryEpoch
  staged,        \* the epochs with a complete temporary of installation.json
  broken,        \* the epochs with a cut-off temporary of installation.json
  stage,         \* the next file operation of the call in progress
  request,       \* the intent of the append in progress
  returned       \* the intents whose append has returned its record
files == <<created, log, torn, head, installation, staged, broken>>
vars == <<files, stage, request, returned>>

NoIntent == [operation |-> "none", restore |-> FALSE, expected |-> 0]
Stages == {"create", "idle", "head", "installation", "rename", "check"}
Records == [intent : Intents, epoch : Nat]

EpochAt(n) == IF n = 0 THEN 0 ELSE log[n].epoch
DurableTail == [sequence |-> Len(log), epoch |-> EpochAt(Len(log))]

\* What #inspect accepts; anything else is "corruption", or a missing file.
Consistent ==
  /\ \A j, k \in 1..Len(log) :
       log[j].intent.operation = log[k].intent.operation => j = k
  /\ \A k \in 1..Len(log) :
       /\ log[k].intent.restore => log[k].intent.expected = EpochAt(k - 1)
       /\ log[k].epoch = EpochAt(k - 1) + (IF log[k].intent.restore THEN 1 ELSE 0)
  /\ head.sequence <= Len(log)
  /\ head.epoch = EpochAt(head.sequence)
  /\ installation <= head.epoch
Inspectable == created = 3 /\ ~torn /\ Consistent
RecoveryRequired == head.sequence # Len(log) \/ installation # DurableTail.epoch
-----------------------------------------------------------------------------
Init ==
  /\ created = 0 /\ log = <<>> /\ torn = FALSE
  /\ head = [sequence |-> 0, epoch |-> 0] /\ installation = 0
  /\ staged = {} /\ broken = {}
  /\ stage = "create" /\ request = NoIntent /\ returned = {}

\* initializeRecoveryJournalV2 makes the files one by one; an existing root, however
\* incomplete, is never initialized again.
Create ==
  /\ stage = "create"
  /\ created' = created + 1
  /\ stage' = IF created = 2 THEN "idle" ELSE "create"
  /\ UNCHANGED <<log, torn, head, installation, staged, broken, request, returned>>

Ready == stage = "idle" /\ Inspectable
Known(i) == \E k \in 1..Len(log) : log[k].intent.operation = i.operation
Appendable(i) ==
  /\ Ready /\ ~RecoveryRequired /\ ~Known(i)
  /\ i.restore => i.expected = DurableTail.epoch
  /\ Len(log) < MaxLog
Record(i) == [intent |-> i, epoch |-> DurableTail.epoch + (IF i.restore THEN 1 ELSE 0)]

\* append writes its line.  From here on the intent cannot be withdrawn.
WriteLine(i) ==
  /\ Appendable(i)
  /\ log' = Append(log, Record(i))
  /\ stage' = "head" /\ request' = i
  /\ UNCHANGED <<created, torn, head, installation, staged, broken, returned>>
\* The write is cut off within the line.
TearLine(i) ==
  /\ Appendable(i)
  /\ torn' = TRUE
  /\ UNCHANGED <<created, log, head, installation, staged, broken, stage, request, returned>>
\* append of an operation the log has: the same intent gets its record again.
Repeat(i) ==
  /\ Ready /\ ~RecoveryRequired
  /\ \E k \in 1..Len(log) : log[k].intent = i
  /\ returned' = returned \cup {i}
  /\ UNCHANGED <<files, stage, request>>
\* Mutants of Reconcile: the log is cut back to the head; only a lagging head is repaired.
ReconcileByTrimming ==
  /\ Ready /\ RecoveryRequired
  /\ log' = SubSeq(log, 1, head.sequence)
  /\ stage' = "head" /\ request' = NoIntent
  /\ UNCHANGED <<created, torn, head, installation, staged, broken, returned>>
ReconcileHeadOnly ==
  /\ Ready /\ head.sequence # Len(log)
  /\ stage' = "head" /\ request' = NoIntent
  /\ UNCHANGED <<files, returned>>
\* reconcileDurableHead with the expected tail; it flushes the log again and goes on as
\* append does.
Reconcile ==
  /\ Ready /\ RecoveryRequired
  /\ stage' = "head" /\ request' = NoIntent
  /\ UNCHANGED <<files, returned>>

\* atomicFile of recovery.head.
PublishHead ==
  /\ stage = "head"
  /\ head' = DurableTail
  /\ stage' = IF installation = DurableTail.epoch THEN "check" ELSE "installation"
  /\ UNCHANGED <<created, log, torn, installation, staged, broken, request, returned>>
\* atomicFile of installation.json: create the temporary, or find it complete.
StageInstallation ==
  /\ stage = "installation" /\ DurableTail.epoch \notin broken
  /\ staged' = staged \cup {DurableTail.epoch}
  /\ stage' = "rename"
  /\ UNCHANGED <<created, log, torn, head, installation, broken, request, returned>>
\* The creation of the temporary is cut off.
BreakInstallation ==
  /\ stage = "installation" /\ DurableTail.epoch \notin staged \cup broken
  /\ broken' = broken \cup {DurableTail.epoch}
  /\ stage' = "idle" /\ request' = NoIntent
  /\ UNCHANGED <<created, log, torn, head, installation, staged, returned>>
RenameInstallation ==
  /\ stage = "rename"
  /\ installation' = DurableTail.epoch
  /\ staged' = staged \ {DurableTail.epoch}
  /\ stage' = "check"
  /\ UNCHANGED <<created, log, torn, head, broken, request, returned>>
\* append inspects the files once more before it returns; reconcileDurableHead reads them.
Return ==
  /\ stage = "check" /\ Inspectable /\ ~RecoveryRequired
  /\ returned' = IF request = NoIntent THEN returned ELSE returned \cup {request}
  /\ stage' = "idle" /\ request' = NoIntent
  /\ UNCHANGED files
\* A crash, an I/O error, or a temporary that is not what it should be ("corruption").
Fail ==
  /\ stage # "idle"
  /\ stage' = "idle" /\ request' = NoIntent
  /\ UNCHANGED <<files, returned>>

Next ==
  \/ Create \/ Reconcile \/ PublishHead \/ StageInstallation \/ BreakInstallation
  \/ RenameInstallation \/ Return \/ Fail
  \/ \E i \in Intents : WriteLine(i) \/ TearLine(i) \/ Repeat(i)
Spec == Init /\ [][Next]_vars

\* A journal that needs recovery is reconciled again and again (every start of the daemon
\* does), no file operation fails at every attempt, and a call that cannot go on throws.
FairSpec ==
  /\ Spec
  /\ SF_vars(Reconcile) /\ SF_vars(PublishHead) /\ SF_vars(StageInstallation)
  /\ SF_vars(RenameInstallation) /\ SF_vars(Return) /\ WF_vars(Fail)
-----------------------------------------------------------------------------
TypeOK ==
  /\ created \in 0..3 /\ log \in Seq(Records) /\ torn \in BOOLEAN
  /\ head \in [sequence : Nat, epoch : Nat] /\ installation \in Nat
  /\ staged \subseteq Nat /\ broken \subseteq Nat
  /\ stage \in Stages /\ request \in Intents \cup {NoIntent} /\ returned \subseteq Intents

\* A crash or an error between any two of append's and reconcileDurableHead's file
\* operations leaves files that #inspect accepts (lines 363-386): the epochs in the log are
\* those of its restores, no operation is twice in it, the head is on the log and the
\* installation's epoch is not ahead of the head's.
CrashesAreConsistent == Consistent

\* What the calls in progress add: a file is still to be made, the head is the tail when the installation's epoch is
\* published, and an append in progress has its intent at the tail.
Underway ==
  /\ stage = "create" => created < 3
  /\ stage \in {"installation", "rename", "check"} => head = DurableTail
  /\ request # NoIntent => Len(log) > 0 /\ log[Len(log)].intent = request

\* When append has returned a record (lines 412-416 and 454-456), the head covers it and
\* the installation has its epoch, whatever fails afterwards: the caller may act on the
\* intent, because every later start sees it.
ReturnedIsAnchored ==
  \A i \in returned : \E k \in 1..head.sequence :
    log[k].intent = i /\ log[k].epoch <= installation

\* What induction over the log would give of Consistent, kept as a fact of its own.
EpochsGrow ==
  \A j, k \in 1..Len(log) : j <= k => log[j].epoch <= log[k].epoch

\* The inductive invariant of the proofs.
Inductive == TypeOK /\ CrashesAreConsistent /\ ReturnedIsAnchored /\ EpochsGrow /\ Underway

\* The files together behave like one record of decisions (ControlRecord): append's line
\* is the decision (the "irrevocable" point of line 443), nothing decided is withdrawn or
\* repeated, and nothing is decided or confirmed while an earlier decision is not anchored.
Control == INSTANCE ControlRecord WITH
  decided <- [k \in 1..Len(log) |-> log[k].intent], epoch <- DurableTail.epoch,
  confirmed <- returned, settled <- Ready /\ ~RecoveryRequired
ControlRecordKept == Control!Spec

\* Under repeated reconciliation a journal whose last call was cut off anywhere but within
\* a line or a temporary file is current again: reconcileDurableHead repairs every crash
\* between two file operations (lines 466-487).
EveryGapIsClosed == RecoveryRequired ~> ~RecoveryRequired \/ broken # {}

\* docs/architecture/persistence-and-recovery.md:260: when a complete record is on disk
\* and the head has not advanced, a start records the recovery, advances the head and
\* applies the intents.  So a lagging head does not stay in need of recovery.
LaggingHeadIsRecovered == head.sequence < Len(log) ~> ~RecoveryRequired
=============================================================================
