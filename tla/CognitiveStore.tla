--------------------------- MODULE CognitiveStore ---------------------------
(***************************************************************************)
(* One scope of the cognitive store, packages/memory-store/src/            *)
(* cognitive-store-v2.ts with content-files-v2.ts: contents and their      *)
(* files; the observations, versions of a claim, candidate snapshots and   *)
(* managed bodies that hold them; what each rests on; the control intents  *)
(* that forget or restrict them; the purge of their bytes.                 *)
(*                                                                         *)
(* Every call is synchronous and every transaction validates all rows, so  *)
(* one action is one transaction or one effect on a file, and the process  *)
(* may end between two of them or inside one.  A call the code refuses     *)
(* changes nothing and has no action.  Each entity has a content of its    *)
(* own and bears its name; a body is recorded as an observation too.       *)
(* Fences are compared for equality and epochs only grow: in place of      *)
(* epochs the model keeps whether a fence is still the current one.        *)
(* Deciding an intent is one step, as ControlRecord promises, or its line  *)
(* is cut off and the journal refuses every later call (CutOff).  Time,    *)
(* retention, streams, source suppression, the pending revision of a       *)
(* candidate and the size limit of the journal are left out.               *)
(***************************************************************************)
EXTENDS Naturals, Sequences, FiniteSets

CONSTANTS
  Observations, \* observations appended with a content staged before
  MaxVersion,   \* bound on the versions of the one claim
  Bodies,       \* managed bodies: the commands of a task or of the memory service
  Snapshots,    \* accepted candidates
  Scope,        \* the target that names the whole scope
  MaxDecided,   \* bound on the intents decided
  MaxStaged,    \* bound on the contents staged and not yet used
  MaxRests,     \* bound on the dependencies or evidence a call names
  MaxFaults     \* bound on the crashes and failed appends

Versions == 1..MaxVersion
Entities == Observations \cup Versions \cup Bodies \cup Snapshots
Sources == Observations \cup Bodies
None == "none"
ASSUME CognitiveAssumption ==
  MaxVersion \in Nat /\ Bodies # {} /\ Snapshots # {} /\ Scope \notin Entities

VARIABLES
  content,  \* content_object.state; "reserved" is staged without a digest
  local,    \* the contents whose privacy is local-only
  stale,    \* the staged contents whose fence is no longer current
  file,     \* each content's file
  entity,   \* each entity's own row: its availability, of a version its status
  rests,    \* what each entity rests on: the rows of the dependency tables
  current,  \* claim.current_version; 0 while there is no claim
  fresh,    \* is the fence that some caller holds current?
  decided,  \* the journal's intents
  applied,  \* how many of them the database has applied
  command,  \* the version that a prepared memory.forget names, or 0
  gate,     \* "open", "closed" while control is applied, "down", "broken" for good
  call,     \* the next step of the call in progress, and its content
  faults
rows == <<content, local, stale, entity, rests, current>>
control == <<decided, applied, command, gate>>
vars == <<rows, file, fresh, control, call, faults>>

NoCall == [step |-> None, of |-> Scope]
ControlIntents == [kind : {"forget", "restrict"}, target : Entities \cup {Scope}]
Staged == {"reserved", "staged"}

Init ==
  /\ content = [x \in Entities |-> "absent"] /\ local = {} /\ stale = {}
  /\ file = [x \in Entities |-> None] /\ entity = [x \in Entities |-> None]
  /\ rests = [x \in Entities |-> {}] /\ current = 0
  /\ fresh = FALSE
  /\ decided = <<>> /\ applied = 0 /\ command = 0 /\ gate = "open"
  /\ call = NoCall /\ faults = 0

\* What searchMemories and readContent may hand to a model.
Live(x) == content[x] = "available" /\ entity[x] \in {"available", "ACTIVE"}
Offered == {x \in Entities \ local : Live(x)}
Correctable == current > 0 /\ content[current] = "available"
               /\ entity[current] \in {"ACTIVE", "DISPUTED"}
Ready == gate = "open" /\ call = NoCall
Has(kind, target) == [kind |-> kind, target |-> target] \in {decided[k] : k \in DOMAIN decided}
\* #notForgotten for the scope; at the end of a transaction every content must be as
\* private as the intents decided so far say.
Writable(private) == ~Has("forget", Scope) /\ (Has("restrict", Scope) => private)

\* Mutant of Bump: the fences stay current.
NoBump(changed) == UNCHANGED <<fresh, stale>>
\* #bump: the fences read before are no longer current.
Bump(changed) ==
  IF changed THEN /\ fresh' = FALSE
                  /\ stale' = {x \in Entities : content'[x] \in Staged}
  ELSE UNCHANGED <<fresh, stale>>

ReadFence ==
  /\ Ready /\ ~fresh
  /\ fresh' = TRUE
  /\ UNCHANGED <<rows, file, control, call, faults>>
-----------------------------------------------------------------------------
(* Contents and their files.                                               *)

\* stageContent: a row is reserved before any byte is written.
Reserve(x, private) ==
  /\ Ready /\ fresh /\ Writable(private) /\ content[x] = "absent" /\ file[x] = None
  /\ Cardinality({y \in Entities : content[y] \in Staged}) < MaxStaged
  /\ content' = [content EXCEPT ![x] = "reserved"]
  /\ local' = IF private THEN local \cup {x} ELSE local
  /\ call' = [step |-> "stage", of |-> x]
  /\ UNCHANGED <<stale, file, entity, rests, current, fresh, control, faults>>
WriteFile ==
  /\ call.step = "stage"
  /\ file' = [file EXCEPT ![call.of] = "staging"]
  /\ call' = [call EXCEPT !.step = "publish"]
  /\ UNCHANGED <<rows, fresh, control, faults>>
PublishFile ==
  /\ call.step = "publish"
  /\ file' = [file EXCEPT ![call.of] = "published"]
  /\ call' = [call EXCEPT !.step = "digest"]
  /\ UNCHANGED <<rows, fresh, control, faults>>
RecordDigest ==
  /\ call.step = "digest"
  /\ content' = [content EXCEPT ![call.of] = "staged"]
  /\ call' = NoCall
  /\ UNCHANGED <<local, stale, file, entity, rests, current, fresh, control, faults>>

\* purgeContent: the bytes first, then the row.
RemoveBytes(x) ==
  /\ Ready /\ content[x] = "revoked"
  /\ file' = [file EXCEPT ![x] = None]
  /\ call' = [step |-> "purge", of |-> x]
  /\ UNCHANGED <<rows, fresh, control, faults>>
MarkPurged ==
  /\ call.step = "purge"
  /\ content' = [content EXCEPT ![call.of] = "purged"]
  /\ entity' = [entity EXCEPT ![call.of] = IF @ = "revoked" THEN "purged" ELSE @]
  /\ call' = NoCall
  /\ UNCHANGED <<local, stale, file, rests, current, fresh, control, faults>>
\* collectStagedContent, without the purges that follow.
CollectStaged ==
  /\ Ready /\ \E x \in Entities : content[x] \in Staged
  /\ content' = [x \in Entities |-> IF content[x] \in Staged THEN "revoked" ELSE content[x]]
  /\ stale' = {}
  /\ UNCHANGED <<local, file, entity, rests, current, fresh, control, call, faults>>
\* Mutant of CollectOrphans: only readable rows name their files.
CollectUnread ==
  /\ Ready /\ \E x \in Entities : file[x] # None /\ content[x] # "available"
  /\ file' = [x \in Entities |-> IF content[x] = "available" THEN file[x] ELSE None]
  /\ UNCHANGED <<rows, fresh, control, call, faults>>
\* collectOrphanFiles: files that no row names.
CollectOrphans ==
  /\ Ready /\ \E x \in Entities : file[x] # None /\ content[x] = "absent"
  /\ file' = [x \in Entities |-> IF content[x] = "absent" THEN None ELSE file[x]]
  /\ UNCHANGED <<rows, fresh, control, call, faults>>
-----------------------------------------------------------------------------
(* Commits.                                                                *)

\* #validateEvidence and #memoryEvidence: sources that may still be read.
Evidence(on, private) ==
  /\ on \subseteq {x \in Sources : Live(x)}
  /\ on \cap local # {} => private
\* Identities of contents are random and never used again.
Unused(xs) == CHOOSE x \in xs : \A y \in xs :
  content[y] = "absent" /\ file[y] = None => content[x] = "absent" /\ file[x] = None
\* The files and rows of new contents, written in the transaction that uses them.
New(xs, private) ==
  /\ \A x \in xs : content[x] = "absent" /\ file[x] = None
  /\ content' = [x \in Entities |-> IF x \in xs THEN "available" ELSE content[x]]
  /\ file' = [x \in Entities |-> IF x \in xs THEN "published" ELSE file[x]]
  /\ local' = IF private THEN local \cup xs ELSE local

AppendObservation(o) ==
  /\ Ready /\ fresh /\ Writable(TRUE) /\ content[o] = "staged" /\ o \notin stale
  /\ content' = [content EXCEPT ![o] = "available"]
  /\ entity' = [entity EXCEPT ![o] = "available"]
  /\ UNCHANGED <<local, stale, file, rests, current, fresh, control, call, faults>>

\* Mutant of BodyPrivacy: the body is as private as its writer asks.
AsAsked(on, private) == private
\* #writeTaskBody: a body is as private as what it rests on.
BodyPrivacy(on, private) == private \/ on \cap local # {}
\* captureMemory, recordCommandEvidence, recordResultInput: a body and its observation.
WriteBody(on, private) ==
  LET b == Unused(Bodies) IN
  /\ Ready /\ Writable(BodyPrivacy(on, private))
  /\ \A x \in on : content[x] = "available"
  /\ New({b}, BodyPrivacy(on, private))
  /\ entity' = [entity EXCEPT ![b] = "available"]
  /\ rests' = [rests EXCEPT ![b] = on]
  /\ UNCHANGED <<stale, current, fresh, control, call, faults>>

\* The current version's new status; #invalidateDependents revokes the accepted
\* candidates that rest on it.
Supersede(status) == [x \in Entities |->
  IF x = current THEN status
  ELSE IF x \in Snapshots /\ current \in rests[x] /\ entity[x] = "available" THEN "revoked"
  ELSE entity[x]]

\* memory.remember and memory.correct: the command's body, the claim, the accepted
\* candidate, all in one transaction.
Remember(on, private) ==
  LET v == current + 1  b == Unused(Bodies)  s == Unused(Snapshots) IN
  /\ Ready /\ Writable(private) /\ Evidence(on, private)
  /\ v \in Versions /\ (current > 0 => Correctable /\ (private <=> current \in local))
  /\ New({v, b, s}, private)
  /\ entity' = [Supersede("SUPERSEDED") EXCEPT ![v] = "ACTIVE", ![b] = "available",
                                               ![s] = "available"]
  /\ rests' = [rests EXCEPT ![v] = on \cup {b}, ![b] = on \cup {v}, ![s] = on \cup {v, b}]
  /\ current' = v
  /\ Bump(TRUE)
  /\ UNCHANGED <<control, call, faults>>

\* memory.dispute: the command's body rests on the version it disputes.
Dispute(on) ==
  LET b == Unused(Bodies) IN
  /\ Ready /\ Correctable /\ entity[current] = "ACTIVE"
  /\ Writable(current \in local) /\ Evidence(on, current \in local)
  /\ New({b}, current \in local)
  /\ entity' = [Supersede("DISPUTED") EXCEPT ![b] = "available"]
  /\ rests' = [rests EXCEPT ![b] = on \cup {current}]
  /\ Bump(TRUE)
  /\ UNCHANGED <<current, control, call, faults>>
-----------------------------------------------------------------------------
(* Control.                                                                *)

\* Mutant of Affected: only what rests on a target itself.
DirectlyAffected(xs) == xs \cup {x \in Entities : rests[x] \cap xs # {}}
\* #affectedContents: the least set with the targets and all that rests on a member.
Affected(xs) ==
  LET closed == {ys \in SUBSET Entities : xs \subseteq ys /\
                   \A x \in Entities : rests[x] \cap ys # {} => x \in ys}
  IN  {x \in Entities : \A ys \in closed : x \in ys}
Targets(intent) == {x \in Entities : content[x] # "absent" /\ intent.target \in {x, Scope}}

\* applyControlIntent, up to the journal's answer.
Resolved(intent) ==
  /\ Ready /\ Len(decided) < MaxDecided
  /\ ~Has(intent.kind, intent.target) /\ (intent.target = Scope \/ Targets(intent) # {})
Decide(intent) ==
  /\ Resolved(intent)
  /\ decided' = Append(decided, intent) /\ gate' = "closed"
  /\ UNCHANGED <<rows, file, fresh, applied, command, call, faults>>
\* memory.forget: the command's body is durable before the journal knows of it.
PrepareForget ==
  LET b == Unused(Bodies) IN
  /\ Ready /\ current > 0 /\ entity[current] # "FORGOTTEN" /\ ~Has("forget", Scope)
  /\ New({b}, TRUE)
  /\ entity' = [entity EXCEPT ![b] = "available"]
  /\ command' = current /\ gate' = "closed"
  /\ UNCHANGED <<stale, rests, current, fresh, decided, applied, call, faults>>
Forgetting == [kind |-> "forget", target |-> command]
\* #resumeMemoryForget, by the call or after a restart: the journal takes an intent once.
Resuming ==
  gate = "closed" /\ command > 0 /\ applied = Len(decided) /\ ~Has("forget", command)
DecideForget ==
  /\ Resuming
  /\ decided' = Append(decided, Forgetting)
  /\ UNCHANGED <<rows, file, fresh, applied, command, gate, call, faults>>
FinishForget ==
  /\ gate = "closed" /\ command > 0 /\ applied = Len(decided) /\ Has("forget", command)
  /\ command' = 0 /\ gate' = "open"
  /\ UNCHANGED <<rows, file, fresh, decided, applied, call, faults>>

\* #applyRecord for FORGET: contents revoked, versions forgotten, others revoked.
Forget(xs) ==
  /\ content' = [x \in Entities |-> IF x \in xs /\ content[x] # "purged" THEN "revoked"
                                    ELSE content[x]]
  /\ entity' = [x \in Entities |->
       IF x \notin xs \/ entity[x] = None THEN entity[x]
       ELSE IF x \in Versions THEN "FORGOTTEN"
       ELSE IF entity[x] = "available" THEN "revoked" ELSE entity[x]]
  /\ UNCHANGED local
Restrict(xs) == local' = local \cup xs /\ UNCHANGED <<content, entity>>
\* #reconcileJournalControl: one transaction; reads are gated until all is applied.
Apply ==
  /\ gate = "closed" /\ applied < Len(decided)
  /\ LET intent == decided[applied + 1] IN
     \E xs \in {Affected(Targets(intent))} :
       /\ IF intent.kind = "forget" THEN Forget(xs) ELSE Restrict(xs)
       /\ Bump(xs # {})
  /\ applied' = applied + 1
  /\ gate' = IF applied' = Len(decided) /\ command = 0 THEN "open" ELSE "closed"
  /\ UNCHANGED <<rests, current, file, decided, command, call, faults>>
-----------------------------------------------------------------------------
(* Crash and restart.                                                      *)

\* An error or a crash leaves half of an intent's line in the journal: it decides nothing,
\* and neither this process nor any later one may read or decide again.
CutOff ==
  /\ Resuming \/ \E i \in ControlIntents : Resolved(i)
  /\ faults < MaxFaults /\ faults' = faults + 1
  /\ gate' = "broken" /\ fresh' = FALSE
  /\ UNCHANGED <<rows, file, decided, applied, command, call>>
Crash ==
  /\ gate \notin {"down", "broken"} /\ faults < MaxFaults
  /\ gate' = "down" /\ call' = NoCall /\ faults' = faults + 1
  /\ fresh' = FALSE
  /\ UNCHANGED <<rows, file, decided, applied, command>>
\* Inside a transaction: its rows are lost and some of its bytes stay.
CrashInside(xs) ==
  /\ Ready /\ faults < MaxFaults
  /\ \A x \in xs : content[x] = "absent" /\ file[x] = None
  /\ file' = [x \in Entities |-> IF x \in xs THEN "published" ELSE file[x]]
  /\ gate' = "down" /\ faults' = faults + 1 /\ fresh' = FALSE
  /\ UNCHANGED <<rows, decided, applied, command, call>>
\* Mutant of Open: a prepared memory.forget is not taken up again.
OpenForgetful ==
  /\ gate = "down"
  /\ gate' = IF applied = Len(decided) THEN "open" ELSE "closed"
  /\ UNCHANGED <<rows, file, fresh, decided, applied, command, call, faults>>
\* open: reconcileControl, then the prepared memory.forgets.
Open ==
  /\ gate = "down"
  /\ gate' = IF applied = Len(decided) /\ command = 0 THEN "open" ELSE "closed"
  /\ UNCHANGED <<rows, file, fresh, decided, applied, command, call, faults>>

Named(xs) == {on \in SUBSET xs : Cardinality(on) <= MaxRests}
Next ==
  \/ ReadFence \/ WriteFile \/ PublishFile \/ RecordDigest \/ MarkPurged
  \/ CollectStaged \/ CollectOrphans
  \/ \E o \in Observations, p \in BOOLEAN : Reserve(o, p)
  \/ \E x \in Entities : RemoveBytes(x)
  \/ \E o \in Observations : AppendObservation(o)
  \/ \E on \in Named(Entities), p \in BOOLEAN : WriteBody(on, p)
  \/ \E on \in Named(Sources), p \in BOOLEAN : Remember(on, p)
  \/ \E on \in Named(Sources) : Dispute(on)
  \/ \E i \in ControlIntents : Decide(i)
  \/ PrepareForget
  \/ DecideForget \/ FinishForget \/ Apply \/ CutOff \/ Crash \/ Open
  \/ CrashInside({Unused(Bodies)})
Spec == Init /\ [][Next]_vars
\* The daemon is started again after a crash; a call in progress goes on.  An append may
\* still be cut off instead, and then nothing is asked of the store any more.
FairSpec == Spec /\ WF_vars(Open) /\ WF_vars(Apply) /\ WF_vars(DecideForget)
                 /\ WF_vars(FinishForget)
-----------------------------------------------------------------------------
\* Whenever anything can be read, nothing readable rests on a content that was
\* forgotten: #affectedContents follows the edges of four tables once, at the time of
\* the intent, and every later write must refuse such evidence (lines 699, 824, 1080).
GroundedInAvailable ==
  gate = "open" =>
    \A x \in Entities : content[x] = "available" =>
      /\ \A y \in rests[x] : content[y] = "available"
      /\ ~Has("forget", x)
      /\ x \in Versions => entity[x] # "FORGOTTEN"

\* Whatever rests on a local-only content is local-only, be it restricted before the
\* dependent was written or after (lines 504, 709, 1150).
LocalOnlySpreads ==
  gate = "open" => \A x \in Entities :
    content[x] = "available" /\ rests[x] \cap local # {} => x \in local

\* A current fence vouches for everything its reader could offer a model: each step
\* that takes something away also bumps an epoch (#bump, line 621).
UnchangedWhileFresh == fresh /\ fresh' => Offered \subseteq Offered'
FreshMeansUnchanged == [][UnchangedWhileFresh]_vars

\* A readable content has its published bytes, at every crash point; a purged one has none.
BytesBehindRows ==
  \A x \in Entities : /\ content[x] \in {"staged", "available"} => file[x] = "published"
                      /\ content[x] = "purged" => file[x] = None

\* What can be read is grounded, as private as its evidence, and has its bytes.
ReadableIsGrounded == GroundedInAvailable /\ LocalOnlySpreads /\ BytesBehindRows
\* A prepared memory.forget completes, through any crash (lines 1648 and 1665) but the one
\* exception: within a line of the journal, which no later open reads past.
ForgetCompletes == \A v \in Versions :
  command = v ~> \/ command = 0 /\ entity[v] = "FORGOTTEN" /\ gate = "open"
                 \/ gate = "broken"
=============================================================================
