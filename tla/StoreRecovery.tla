---------------------------- MODULE StoreRecovery ----------------------------
(***************************************************************************)
(* The recovery coordinator, packages/memory-store/src/                    *)
(* synthetic-recovery-v2.ts, with the part of the cognitive store          *)
(* (cognitive-store-v2.ts) it rests on: control intents are decided in the *)
(* journal, then applied to the product database of the active generation. *)
(* Snapshots are copies of that database; a restore builds a new           *)
(* generation from one and switches to it; a purge erases the copies.      *)
(*                                                                         *)
(* One coordinator holds the container's mutex and every call is           *)
(* synchronous, so one call runs at a time, one action per durable step:   *)
(* a transaction, a file written, a rename.  Between two steps a call may  *)
(* throw (Fail) or the process may end (Crash).                            *)
(*                                                                         *)
(* The journal is its promise, ControlRecord, which RecoveryJournal        *)
(* implements, and that it may be lost for good: a line of its log or the  *)
(* temporary of its installation file that is cut off refuses every later  *)
(* call (CutOff).  A file being written is torn until its last byte is     *)
(* flushed; only files that are read again while torn are told apart.      *)
(* Bodies of a copy are there or not; digests and inventories, which       *)
(* refuse files that were changed from outside, are left out.              *)
(***************************************************************************)
EXTENDS Naturals, Sequences, FiniteSets

CONSTANTS
  Contents,     \* contents, each written and forgotten at most once
  Snapshots,    \* snapshot identities
  Generations,  \* generation identities
  First,        \* the generation made by create
  Restores,     \* operation identities of restores
  Restricts,    \* may the user restrict the workspace to local use?
  MaxDecided,   \* bound on the intents decided
  MaxFaults     \* bound on crashes and failed calls

ASSUME RecoveryAssumption ==
  /\ First \in Generations /\ {MaxDecided, MaxFaults} \subseteq Nat
  /\ "restrict" \notin Contents

VARIABLES
  decided, epoch, confirmed, settled,  \* the journal, see ControlRecord
  damaged,   \* is one of its files cut off for good?
  applied,   \* of each copy: how many decided intents its database has applied
  content,   \* of each copy: the state of each content row in its database
  parent,    \* of each copy: is the workspace's scope registered in its database?
  written,   \* when each content was written: 1 + the intents decided before, or 0
  tree,      \* of each copy: its directory
  receipt,   \* of each generation: the selection written inside it
  catalog,   \* of each snapshot: is it registered?
  purge,     \* of each copy: the state its purge record tells
  pending,   \* of each copy: a purge record not yet renamed into place
  active,    \* the file that selects the active generation
  footprint, \* .synthetic-active.<id>.next
  store,     \* the generation the process has opened, or none
  selected,  \* the selection the process remembers
  doing,     \* the call in progress: its next step
  job,       \* its arguments
  faults
journal == <<decided, epoch, confirmed, settled, damaged>>
database == <<applied, content, parent, written>>
catalogue == <<catalog, purge, pending>>
selection == <<active, footprint, receipt>>
memory == <<store, selected>>
vars == <<journal, database, tree, catalogue, selection, memory, doing, job, faults>>

Forget(c) == [operation |-> c, restore |-> FALSE, expected |-> 0]
Restriction == [operation |-> "restrict", restore |-> FALSE, expected |-> 0]
Restore(o, e) == [operation |-> o, restore |-> TRUE, expected |-> e]
Intents == {Restriction} \cup {Forget(c) : c \in Contents}
           \cup {Restore(o, e) : o \in Restores, e \in 0..Cardinality(Restores)}
Journal == INSTANCE ControlRecord

Copies == Snapshots \cup Generations
None == "none"
NoJob == [kind |-> None, copy |-> None, from |-> None, operation |-> None, rest |-> {}]
NoSelection == [generation |-> None, number |-> 0, snapshot |-> None,
                operation |-> None, epoch |-> 0]
FirstSelection == [NoSelection EXCEPT !.generation = First, !.number = 1]

\* Which contents the first n decided intents forget; do they restrict the workspace?
Forgotten(n) == {decided[k].operation : k \in {j \in 1..n : ~decided[j].restore}}
Restricted(n) == "restrict" \in Forgotten(n)
Available == {"model-allowed", "local-only"}

\* Mutant of ApplyPending: only the last record is applied.
ApplyLast(d) ==
  /\ applied' = [applied EXCEPT ![d] = Len(decided)]
  /\ content' = [content EXCEPT ![d] = [c \in Contents |->
       IF content[d][c] \in Available
          /\ c \in Forgotten(Len(decided)) \ Forgotten(Len(decided) - 1)
       THEN "revoked" ELSE content[d][c]]]
  /\ UNCHANGED <<parent, written>>
\* #applyRecord over the pending records, in one transaction.  The contents live in
\* scopes below the workspace's; a target scope the database does not know has none.
ApplyPending(d) ==
  /\ applied' = [applied EXCEPT ![d] = Len(decided)]
  /\ content' = [content EXCEPT ![d] = [c \in Contents |->
       IF content[d][c] \in Available /\ c \in Forgotten(Len(decided)) THEN "revoked"
       ELSE IF content[d][c] = "model-allowed" /\ parent[d] /\ Restricted(Len(decided))
       THEN "local-only" ELSE content[d][c]]]
  /\ UNCHANGED <<parent, written>>
\* assertCurrentAnchor: the copy's intents are the first ones of the journal.
Anchored(n) == settled /\ n <= Len(decided)

Idle == doing = "idle"
\* #check: the selection on disk is the one the process works with.
Checked == footprint = None /\ active = selected
\* The store's gate is open from the end of a reconciliation to the next decision.
Ready == Idle /\ store # None /\ Checked /\ settled /\ applied[store] = Len(decided)

Init ==
  /\ Journal!Init /\ damaged = FALSE
  /\ applied = [d \in Copies |-> 0]
  /\ content = [d \in Copies |-> [c \in Contents |-> "absent"]]
  /\ parent = [d \in Copies |-> FALSE] /\ written = [c \in Contents |-> 0]
  /\ tree = [d \in Copies |-> IF d = First THEN "whole" ELSE None]
  /\ receipt = [g \in Generations |-> IF g = First THEN FirstSelection ELSE NoSelection]
  /\ catalog = [s \in Snapshots |-> None]
  /\ purge = [d \in Copies |-> None] /\ pending = [d \in Copies |-> None]
  /\ active = FirstSelection /\ footprint = None
  /\ store = None /\ selected = NoSelection
  /\ doing = "down" /\ job = NoJob /\ faults = 0
-----------------------------------------------------------------------------
(* Opening.                                                                *)

\* open: a damaged journal, a switch footprint, or a receipt that is not the selection,
\* refuses for good.
Open ==
  /\ doing = "down" /\ ~damaged /\ footprint = None
  /\ tree[active.generation] = "whole" /\ receipt[active.generation] = active
  /\ store' = active.generation /\ selected' = active /\ doing' = "reconcile"
  /\ UNCHANGED <<journal, database, tree, catalogue, selection, job, faults>>

\* Mutant of SettleJournal: a head behind a restore is not moved.
SettleForgets ==
  /\ doing = "reconcile" /\ Journal!Open /\ \A k \in 1..Len(decided) : k = Len(decided) => ~decided[k].restore
  /\ UNCHANGED <<damaged, database, tree, catalogue, selection, memory, doing, job, faults>>
\* reconcileControl: the journal settles its own files first, unless it is cut off there.
SettleJournal ==
  /\ doing = "reconcile" /\ Journal!Open
  /\ UNCHANGED <<damaged, database, tree, catalogue, selection, memory, doing, job, faults>>
Reconcile ==
  /\ doing = "reconcile" /\ Anchored(applied[store])
  /\ ApplyPending(store) /\ doing' = "idle"
  /\ UNCHANGED <<journal, tree, catalogue, selection, memory, job, faults>>

Close ==
  /\ Idle
  /\ store' = None /\ selected' = NoSelection /\ doing' = "down"
  /\ UNCHANGED <<journal, database, tree, catalogue, selection, job, faults>>
-----------------------------------------------------------------------------
(* Writing, forgetting and erasing content of the active generation.       *)

\* Under a restriction it knows, the store's own row check refuses a content for models.
Write(c) ==
  /\ Ready /\ written[c] = 0 /\ ~(parent[store] /\ Restricted(Len(decided)))
  /\ content' = [content EXCEPT ![store][c] = "model-allowed"]
  /\ written' = [written EXCEPT ![c] = Len(decided) + 1]
  /\ UNCHANGED <<journal, applied, parent, tree, catalogue, selection, memory, doing, job, faults>>
RegisterWorkspace ==
  /\ Ready /\ Restricts /\ ~parent[store]
  /\ parent' = [parent EXCEPT ![store] = TRUE]
  /\ UNCHANGED <<journal, applied, content, written, tree, catalogue, selection, memory,
                 doing, job, faults>>

\* applyControlIntent: resolve, close the gate, decide, apply, open the gate.
Resolved(i) ==
  /\ Ready /\ Len(decided) < MaxDecided
  /\ \/ i = Restriction /\ parent[store]
     \/ \E c \in Contents : i = Forget(c) /\ content[store][c] # "absent"
Control(i) ==
  /\ Resolved(i) /\ Journal!Decide(i) /\ doing' = "confirm"
  /\ job' = [NoJob EXCEPT !.kind = "apply", !.copy = store]
  /\ UNCHANGED <<damaged, database, tree, catalogue, selection, memory, faults>>
\* The append returns its record.
Confirm ==
  /\ doing = "confirm" /\ Journal!Settle /\ decided[Len(decided)] \in confirmed'
  /\ doing' = job.kind
  /\ UNCHANGED <<damaged, database, tree, catalogue, selection, memory, job, faults>>
Apply ==
  /\ doing = "apply" /\ ApplyPending(job.copy) /\ doing' = "idle" /\ job' = NoJob
  /\ UNCHANGED <<journal, tree, catalogue, selection, memory, faults>>

PurgeContent(c) ==
  /\ Ready /\ content[store][c] = "revoked"
  /\ content' = [content EXCEPT ![store][c] = "purged"]
  /\ UNCHANGED <<journal, applied, parent, written, tree, catalogue, selection, memory,
                 doing, job, faults>>
-----------------------------------------------------------------------------
(* Capturing a snapshot.                                                   *)

\* The directory must be new, and nothing forgotten may still have a body.
Capture(s) ==
  /\ Ready /\ tree[s] = None
  /\ tree' = [tree EXCEPT ![s] = "partial"]
  /\ IF \E c \in Contents : content[store][c] = "revoked"
     THEN UNCHANGED <<doing, job>>
     ELSE doing' = "export" /\ job' = [NoJob EXCEPT !.kind = "capture", !.copy = s]
  /\ UNCHANGED <<journal, database, catalogue, selection, memory, faults>>
\* The database, the bodies and, last, the manifest.
Export ==
  /\ doing = "export" /\ doing' = "register"
  /\ applied' = [applied EXCEPT ![job.copy] = applied[store]]
  /\ content' = [content EXCEPT ![job.copy] = content[store]]
  /\ parent' = [parent EXCEPT ![job.copy] = parent[store]] /\ UNCHANGED written
  /\ tree' = [tree EXCEPT ![job.copy] = "whole"]
  /\ UNCHANGED <<journal, catalogue, selection, memory, job, faults>>
\* The registration makes a snapshot restorable; while it is written it is torn.
Register ==
  /\ doing = "register"
  /\ \/ /\ catalog[job.copy] = None
        /\ catalog' = [catalog EXCEPT ![job.copy] = "torn"]
        /\ UNCHANGED <<doing, job>>
     \/ /\ catalog[job.copy] = "torn"
        /\ catalog' = [catalog EXCEPT ![job.copy] = "whole"]
        /\ doing' = "idle" /\ job' = NoJob
  /\ UNCHANGED <<journal, database, tree, purge, pending, selection, memory, faults>>
-----------------------------------------------------------------------------
(* Restoring one.                                                          *)

Known(o) == \E k \in 1..Len(decided) : decided[k].operation = o
Restorable(s) ==
  /\ pending[s] = None /\ purge[s] = None
  /\ catalog[s] = "whole" /\ tree[s] = "whole" /\ Anchored(applied[s])

\* A repeated operation is answered from the selection and changes nothing.
BeginRestore(s, g, o) ==
  /\ Ready /\ Len(decided) < MaxDecided /\ selected.operation # o /\ ~Known(o) /\ Restorable(s) /\ tree[g] = None
  /\ tree' = [tree EXCEPT ![g] = "partial"]
  /\ doing' = "copy"
  /\ job' = [kind |-> "restore", copy |-> g, from |-> s, operation |-> o, rest |-> {}]
  /\ UNCHANGED <<journal, database, catalogue, selection, memory, faults>>
CopySnapshot ==
  /\ doing = "copy" /\ doing' = "candidate"
  /\ applied' = [applied EXCEPT ![job.copy] = applied[job.from]]
  /\ content' = [content EXCEPT ![job.copy] = content[job.from]]
  /\ parent' = [parent EXCEPT ![job.copy] = parent[job.from]] /\ UNCHANGED written
  /\ tree' = [tree EXCEPT ![job.copy] = "whole"]
  /\ UNCHANGED <<journal, catalogue, selection, memory, job, faults>>
\* The live store is closed; the candidate applies what it has missed, unseen.
OpenCandidate ==
  /\ doing = "candidate" /\ Anchored(applied[job.copy])
  /\ store' = None /\ ApplyPending(job.copy) /\ doing' = "advance"
  /\ UNCHANGED <<journal, tree, catalogue, selection, selected, job, faults>>
\* RESTORE_BEGIN: the epoch is advanced for good before the switch.
Advance ==
  /\ doing = "advance" /\ Journal!Decide(Restore(job.operation, epoch)) /\ doing' = "confirm"
  /\ UNCHANGED <<damaged, database, tree, catalogue, selection, memory, job, faults>>
ApplyRestore ==
  /\ doing = "restore" /\ ApplyPending(job.copy) /\ doing' = "receipt"
  /\ UNCHANGED <<journal, tree, catalogue, selection, memory, job, faults>>
NextSelection == [generation |-> job.copy, number |-> selected.number + 1,
                  snapshot |-> job.from, operation |-> job.operation, epoch |-> epoch]
WriteReceipt ==
  /\ doing = "receipt" /\ receipt' = [receipt EXCEPT ![job.copy] = NextSelection]
  /\ doing' = "footprint"
  /\ UNCHANGED <<journal, database, tree, catalogue, active, footprint, memory, job, faults>>
WriteFootprint ==
  /\ doing = "footprint" /\ Checked /\ footprint' = job.copy /\ doing' = "switch"
  /\ UNCHANGED <<journal, database, tree, catalogue, active, receipt, memory, job, faults>>
\* The rename, atomic: from here the candidate is the active generation.
Switch ==
  /\ doing = "switch" /\ active' = receipt[job.copy] /\ footprint' = None
  /\ doing' = "adopt"
  /\ UNCHANGED <<journal, database, tree, catalogue, receipt, memory, job, faults>>
Adopt ==
  /\ doing = "adopt" /\ store' = job.copy /\ selected' = active
  /\ doing' = "idle" /\ job' = NoJob
  /\ UNCHANGED <<journal, database, tree, catalogue, selection, faults>>
-----------------------------------------------------------------------------
(* Purging every copy but the active generation.                           *)

\* Mutant of Purgeable: the active generation is no exception.
AllCopies == {d \in Copies : tree[d] # None}
Purgeable == {d \in Copies : tree[d] # None /\ d # selected.generation}
\* #writePurgeRecord first puts into place what an earlier call left; it reads it
\* before, so a torn one fails the purge of this copy.
FinishOld(d) ==
  /\ pending[d] \in {"pending", "failed", "purged"}
  /\ purge' = [purge EXCEPT ![d] = pending[d]]
  /\ pending' = [pending EXCEPT ![d] = None]
  /\ UNCHANGED <<doing, job>>
WriteRecord(d, state) ==
  /\ pending[d] = None
  /\ pending' = [pending EXCEPT ![d] = "torn"]
  /\ UNCHANGED purge /\ doing' = "record" /\ job' = [job EXCEPT !.kind = state]
FinishRecord ==
  /\ doing = "record"
  /\ \/ /\ pending[job.copy] = "torn"
        /\ pending' = [pending EXCEPT ![job.copy] = job.kind]
        /\ UNCHANGED <<purge, doing>>
     \/ /\ pending[job.copy] # "torn"
        /\ purge' = [purge EXCEPT ![job.copy] = pending[job.copy]]
        /\ pending' = [pending EXCEPT ![job.copy] = None]
        /\ doing' = IF job.kind = "pending" THEN "erase" ELSE "target"
  /\ UNCHANGED <<journal, database, tree, catalog, selection, memory, job, faults>>

BeginPurge ==
  /\ Ready /\ Purgeable # {}
  /\ doing' = "target" /\ job' = [NoJob EXCEPT !.rest = Purgeable]
  /\ UNCHANGED <<journal, database, tree, catalogue, selection, memory, faults>>
NextTarget ==
  /\ doing = "target"
  /\ IF job.rest = {}
     THEN doing' = "idle" /\ job' = NoJob
     ELSE LET d == CHOOSE d \in job.rest : d \in Snapshots \/ job.rest \cap Snapshots = {}
          IN  /\ job' = [job EXCEPT !.copy = d, !.rest = job.rest \ {d}]
              /\ doing' = IF Checked THEN "revoke" ELSE "target"
  /\ UNCHANGED <<journal, database, tree, catalogue, selection, memory, faults>>
\* The revocation is durable before the first byte is removed.
Revoke ==
  /\ doing = "revoke"
  /\ \/ FinishOld(job.copy)
     \/ WriteRecord(job.copy, "pending")
     \/ /\ pending[job.copy] = "torn" /\ doing' = "target"
        /\ UNCHANGED <<purge, pending, job>>
  /\ UNCHANGED <<journal, database, tree, catalog, selection, memory, faults>>
\* Mutant of Erase: a file that cannot be removed is passed over.
EraseSome ==
  /\ doing = "erase"
  /\ \/ /\ tree[job.copy] \notin {"erased", "empty"}
        /\ \E left \in {"erased", "empty"} : tree' = [tree EXCEPT ![job.copy] = left]
        /\ UNCHANGED <<purge, pending, doing, job>>
     \/ /\ tree[job.copy] \in {"erased", "empty"} /\ WriteRecord(job.copy, "purged")
        /\ UNCHANGED tree
  /\ UNCHANGED <<journal, database, catalog, selection, memory, faults>>
\* purgeCopyFiles: one unlink after the other, then the record says purged.
Erase ==
  /\ doing = "erase"
  /\ \/ /\ tree[job.copy] # "empty"
        /\ \E left \in {"erased", "empty"} : tree' = [tree EXCEPT ![job.copy] = left]
        /\ UNCHANGED <<purge, pending, doing, job>>
     \/ /\ tree[job.copy] = "empty" /\ WriteRecord(job.copy, "purged")
        /\ UNCHANGED tree
  /\ UNCHANGED <<journal, database, catalog, selection, memory, faults>>
\* The diagnostic of a failed purge; if it cannot be written the record stays.
RecordFailure ==
  /\ doing = "failed"
  /\ \/ FinishOld(job.copy)
     \/ WriteRecord(job.copy, "failed")
     \/ /\ pending[job.copy] = "torn" /\ doing' = "target"
        /\ UNCHANGED <<purge, pending, job>>
  /\ UNCHANGED <<journal, database, tree, catalog, selection, memory, faults>>
-----------------------------------------------------------------------------
Purging == doing \in {"revoke", "record", "erase"}
Restoring ==
  \/ doing \in {"advance", "receipt", "footprint", "switch", "adopt", "restore"}
  \/ doing = "confirm" /\ job.kind = "restore"

\* A call throws: a purge records it and goes on; a restore past the point where it
\* closed the live store, and an opening, leave no store; a torn file stays torn.
Throws ==
  IF Purging THEN doing' = "failed" /\ UNCHANGED <<job, memory>>
  ELSE IF doing = "failed" THEN doing' = "target" /\ UNCHANGED <<job, memory>>
  ELSE /\ job' = NoJob
       /\ IF doing = "reconcile"
          THEN doing' = "down" /\ store' = None /\ selected' = NoSelection
          ELSE /\ doing' = "idle" /\ UNCHANGED selected
               /\ store' = IF Restoring THEN None ELSE store
Fail ==
  /\ doing \notin {"down", "idle", "target"} /\ faults < MaxFaults
  /\ faults' = faults + 1 /\ Throws
  /\ UNCHANGED <<journal, database, tree, catalogue, selection>>

ProcessEnds == store' = None /\ selected' = NoSelection /\ doing' = "down" /\ job' = NoJob
Crash ==
  /\ doing # "down" /\ faults < MaxFaults /\ faults' = faults + 1 /\ ProcessEnds
  /\ UNCHANGED <<journal, database, tree, catalogue, selection>>

\* The journal is about to write a line: of a control intent, or of RESTORE_BEGIN.
Appending ==
  \/ \E i \in Intents : Resolved(i) /\ ~Known(i.operation)
  \/ doing = "advance" /\ settled
\* It publishes the epoch of the restore it decided last.
Installing ==
  /\ doing \in {"confirm", "reconcile"} /\ ~settled
  /\ decided # <<>> /\ decided[Len(decided)].restore
\* Cut off within the line, or within the temporary installation file, by an error or a crash.
CutOff ==
  /\ Appending \/ Installing
  /\ faults < MaxFaults /\ faults' = faults + 1 /\ (Throws \/ ProcessEnds)
  /\ Journal!Shut /\ damaged' = TRUE
  /\ UNCHANGED <<database, tree, catalogue, selection>>

\* The steps of a call that is in progress.
Step ==
  \/ SettleJournal \/ Reconcile \/ Confirm \/ Apply
  \/ Export \/ Register
  \/ CopySnapshot \/ OpenCandidate \/ Advance \/ ApplyRestore
  \/ WriteReceipt \/ WriteFootprint \/ Switch \/ Adopt
  \/ NextTarget \/ Revoke \/ FinishRecord \/ Erase \/ RecordFailure
Next ==
  \/ Open \/ Close \/ Step \/ Fail \/ Crash \/ CutOff \/ BeginPurge
  \/ RegisterWorkspace \/ \E i \in Intents : Control(i)
  \/ \E c \in Contents : (Write(c) \/ PurgeContent(c))
  \/ \E s \in Snapshots : Capture(s)
  \/ \E s \in Snapshots, g \in Generations, o \in Restores : BeginRestore(s, g, o)

\* Every call is one synchronous function; a coordinator that is down is opened again,
\* and one that has no usable store is closed.
Fairness == WF_vars(Step) /\ WF_vars(Open) /\ WF_vars(Close /\ ~Ready)
Spec == Init /\ [][Next]_vars /\ Fairness
-----------------------------------------------------------------------------
(* Properties.                                                             *)

\* What is forgotten stays forgotten: while the store may be read, nothing that any
\* decided intent forgets is readable in it, whichever snapshot it was restored from
\* and wherever the process was cut off between a decision and its application.
ForgottenStaysForgotten ==
  Ready => \A c \in Forgotten(Len(decided)) \cap Contents : content[store][c] \notin Available
\* What is restricted stays restricted: once the workspace is restricted to local use,
\* nothing written before is for models again, whatever is restored.
RestrictedStaysRestricted ==
  Ready => \A k \in 1..Len(decided), c \in Contents :
             decided[k] = Restriction /\ written[c] \in 1..k => content[store][c] # "model-allowed"

\* The selection on disk always names a generation that can be opened: complete, with
\* the receipt that repeats it, never erased, never ahead of the journal.
SelectionIsWhole ==
  /\ tree[active.generation] = "whole"
  /\ receipt[active.generation] = active
  /\ purge[active.generation] = None
  /\ applied[active.generation] <= Len(decided)

\* managedCopies: what it says of the backups of a content, when it can say anything.
Listed == {d \in Copies : tree[d] # None /\ d # active.generation}
ListingFails ==
  \/ \E d \in Listed : pending[d] # None
  \/ \E s \in Snapshots : catalog[s] = "torn"
BackupState ==
  IF \E d \in Listed : purge[d] = "failed" THEN "failed"
  ELSE IF \E d \in Listed : purge[d] \in {None, "pending"} THEN "pending"
  ELSE IF Listed # {} THEN "purged" ELSE "outside"

\* A purge that is reported is done: when the store reports the backups of a content as
\* purged, no snapshot and no inactive generation has a byte left; and a copy that has
\* lost a byte has a record that says so, which refuses its restoration.
PurgedMeansGone ==
  /\ (Ready /\ ~ListingFails /\ BackupState = "purged") =>
       \A d \in Copies \ {active.generation} : tree[d] \in {None, "empty"}
  /\ \A d \in Copies : tree[d] \in {"erased", "empty"} => purge[d] # None

\* Whatever was cut off, the store becomes readable again, but for the two states that every
\* opening refuses: the footprint of a switch, and a journal cut off within one of its files.
Reopens == []<>(Ready \/ footprint # None \/ damaged)
=============================================================================
