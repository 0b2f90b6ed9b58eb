------------------------ MODULE CognitiveStoreProofs ------------------------
(***************************************************************************)
(* CognitiveStore for every set of observations, bodies and snapshots, any *)
(* number of versions, intents and crashes: what can be read rests only on *)
(* what can be read, is as private as that, and has its bytes; and a fence *)
(* that is current vouches for everything it was read with.                *)
(*                                                                         *)
(* The argument.  Grounding holds at every step, also while control is     *)
(* being applied: an intent takes away a set that is closed under "rests   *)
(* on" (AffectedIsClosed), and a write only rests on what is available at  *)
(* that moment.  What the journal has decided and the database has not yet *)
(* applied is behind the gate (ControlOK).                                 *)
(*                                                                         *)
(* The other systems of MCStores follow: the verification of outcomes, the *)
(* page, and the harness, whose theorems are WorkerHarnessProofs'.         *)
(***************************************************************************)
EXTENDS MCStores, Sequences, TLAPS

-----------------------------------------------------------------------------
(* The invariant.                                                          *)

ContentStates == {"absent", "reserved", "staged", "available", "revoked", "purged"}
EntityStates == {None, "available", "revoked", "purged", "ACTIVE", "DISPUTED", "SUPERSEDED",
                 "FORGOTTEN"}
Gone == {"revoked", "purged"}

RowsOK ==
  /\ content \in [Entities -> ContentStates] /\ local \subseteq Entities
  /\ stale \subseteq Entities /\ file \in [Entities -> {None, "staging", "published"}]
  /\ entity \in [Entities -> EntityStates] /\ rests \in [Entities -> SUBSET Entities]
  /\ current \in 0..MaxVersion /\ fresh \in BOOLEAN
\* Only a row that exists is private, current, or rests on something.
ExistingOK ==
  /\ \A x \in Entities : content[x] \in {"absent", "reserved", "staged"} => rests[x] = {}
  /\ \A x \in local : content[x] # "absent"
  /\ current > 0 => content[current] # "absent"
\* What is available rests on what is available, and is as private.
GroundedOK ==
  \A x \in Entities : content[x] = "available" =>
    /\ \A y \in rests[x] : content[y] = "available"
    /\ rests[x] \cap local # {} => x \in local
ForgottenOK == \A x \in Entities : entity[x] = "FORGOTTEN" => content[x] \in Gone
\* An intent names what exists; once it is applied its target is gone for good.
ControlOK ==
  /\ decided \in Seq(ControlIntents) /\ applied \in Nat /\ applied <= Len(decided)
  /\ command \in Versions \cup {0} /\ gate \in {"open", "closed", "down", "broken"}
  /\ gate = "open" => applied = Len(decided) /\ command = 0
  /\ command # 0 => content[command] # "absent"
  /\ \A k \in 1..Len(decided), x \in Entities :
       decided[k].kind = "forget" /\ decided[k].target = x =>
         /\ content[x] # "absent"
         /\ k <= applied => content[x] \in Gone
\* A call in progress holds the gate open and its content in the state it left.
CallOK ==
  /\ call \in [step : {None, "stage", "publish", "digest", "purge"},
               of : Entities \cup {Scope}]
  /\ call # NoCall => gate = "open" /\ call.of \in Entities
  /\ call.step \in {"stage", "publish", "digest"} => content[call.of] = "reserved"
  /\ call.step = "digest" => file[call.of] = "published"
  /\ call.step = "purge" => content[call.of] = "revoked" /\ file[call.of] = None
Rows == RowsOK /\ ExistingOK /\ GroundedOK /\ ForgottenOK /\ BytesBehindRows
Inductive == Rows /\ ControlOK /\ CallOK
-----------------------------------------------------------------------------
(* What an intent affects, and which identity is chosen.                   *)

LEMMA AffectedIsClosed ==
  ASSUME RowsOK, NEW xs \in SUBSET Entities
  PROVE  /\ xs \subseteq Affected(xs) /\ Affected(xs) \subseteq Entities
         /\ \A x \in Entities : rests[x] \cap Affected(xs) # {} => x \in Affected(xs)
         /\ \A x \in Affected(xs) : x \in xs \/ rests[x] # {}
<1> DEFINE closed == {ys \in SUBSET Entities : xs \subseteq ys /\
                        \A x \in Entities : rests[x] \cap ys # {} => x \in ys}
           all == xs \cup {x \in Entities : rests[x] # {}}
<1>1. Affected(xs) = {x \in Entities : \A ys \in closed : x \in ys}
  BY DEF Affected
<1>2. all \in closed
  OBVIOUS
<1>3. xs \subseteq Affected(xs) /\ Affected(xs) \subseteq Entities
  BY <1>1
<1>4. ASSUME NEW x \in Entities, rests[x] \cap Affected(xs) # {} PROVE x \in Affected(xs)
  <2>1. PICK y \in rests[x] : \A ys \in closed : y \in ys
    BY <1>1, <1>4
  <2>2. \A ys \in closed : x \in ys
    BY <2>1
  <2> QED BY <1>1, <2>2
<1>5. \A x \in Affected(xs) : x \in xs \/ rests[x] # {}
  BY <1>1, <1>2
<1> QED BY <1>3, <1>4, <1>5

LEMMA UnusedIsOne ==
  ASSUME NEW xs, xs # {}
  PROVE  Unused(xs) \in xs
<1> DEFINE Fits(x) == \A y \in xs : content[y] = "absent" /\ file[y] = None
                                    => content[x] = "absent" /\ file[x] = None
<1>1. \E x \in xs : Fits(x)
  <2>1. CASE \E y \in xs : content[y] = "absent" /\ file[y] = None
    BY <2>1
  <2>2. CASE ~\E y \in xs : content[y] = "absent" /\ file[y] = None
    BY <2>2
  <2> QED BY <2>1, <2>2
<1> QED BY <1>1, Zenon DEF Unused

LEMMA IdentitiesAre ==
  /\ Unused(Bodies) \in Bodies /\ Unused(Snapshots) \in Snapshots
  /\ Bodies \subseteq Entities /\ Snapshots \subseteq Entities
  /\ Versions \subseteq Entities /\ Observations \subseteq Entities /\ Sources \subseteq Entities
  BY UnusedIsOne, CognitiveAssumption DEF Entities, Sources

\* While the store is ready every decided intent is applied.
LEMMA ReadyIs ==
  ASSUME Inductive, Ready
  PROVE  /\ applied = Len(decided) /\ command = 0 /\ gate = "open" /\ call = NoCall
         /\ call.step = None
  BY DEF Inductive, ControlOK, Ready, NoCall
-----------------------------------------------------------------------------
(* The rows.                                                               *)

LEMMA RowsStay ==
  ASSUME Rows, UNCHANGED <<content, local, file, entity, rests, current>>,
         stale' \in SUBSET Entities, fresh' \in BOOLEAN
  PROVE  Rows'
  BY DEF Rows, RowsOK, ExistingOK, GroundedOK, ForgottenOK, BytesBehindRows

LEMMA ControlStays ==
  ASSUME ControlOK, UNCHANGED <<decided, applied, command, gate>>,
         \A x \in Entities : /\ content[x] # "absent" => content'[x] # "absent"
                             /\ content[x] \in Gone => content'[x] \in Gone
  PROVE  ControlOK'
<1>1. /\ decided \in Seq(ControlIntents) /\ applied \in Nat /\ applied <= Len(decided)
      /\ command \in Versions \cup {0} /\ Versions \subseteq Entities
      /\ command # 0 => content[command] # "absent"
  BY IdentitiesAre DEF ControlOK
<1>2. ASSUME NEW k \in 1..Len(decided), NEW x \in Entities, decided[k].kind = "forget",
             decided[k].target = x
      PROVE  content'[x] # "absent" /\ (k <= applied => content'[x] \in Gone)
  BY <1>2 DEF ControlOK
<1>3. command # 0 => content'[command] # "absent"
  BY <1>1
<1> QED BY <1>1, <1>2, <1>3 DEF ControlOK

\* A transaction that writes new contents, each resting on new or available ones.
LEMMA NewRows ==
  ASSUME Rows, NEW xs \in SUBSET Entities, NEW private \in BOOLEAN, New(xs, private),
         entity' \in [Entities -> EntityStates], rests' \in [Entities -> SUBSET Entities],
         \A x \in Entities : entity'[x] = "FORGOTTEN" => entity[x] = "FORGOTTEN",
         \A x \in Entities \ xs : rests'[x] = rests[x],
         \A x \in xs : \A y \in rests'[x] : y \in xs \/ content[y] = "available",
         \A x \in xs : \A y \in rests'[x] : y \in local /\ y \notin xs => private,
         current' = current \/ current' \in xs, current' \in 0..MaxVersion,
         stale' \in SUBSET Entities, fresh' \in BOOLEAN
  PROVE  /\ Rows'
         /\ \A x \in Entities : /\ content[x] # "absent" => content'[x] # "absent"
                                /\ content[x] \in Gone => content'[x] \in Gone
<1>1. \A x \in Entities : /\ content'[x] = IF x \in xs THEN "available" ELSE content[x]
                          /\ file'[x] = IF x \in xs THEN "published" ELSE file[x]
  BY DEF New
<1>2. \A x \in xs : content[x] = "absent" /\ x \notin local /\ rests[x] = {}
  BY DEF New, Rows, ExistingOK
<1>3. \A x \in Entities : x \in local' <=> x \in local \/ (private /\ x \in xs)
  BY DEF New
<1>4. RowsOK'
  BY DEF Rows, RowsOK, New, ContentStates
<1>5. ExistingOK'
  <2>1. \A x \in Entities : content'[x] \in {"absent", "reserved", "staged"} => rests'[x] = {}
    BY <1>1 DEF Rows, ExistingOK
  <2>2. \A x \in local' : content'[x] # "absent"
    BY <1>1, <1>4, <1>3 DEF Rows, RowsOK, ExistingOK
  <2>3. current' > 0 => content'[current'] # "absent"
    <3>1. CASE current' \in xs
      BY <1>1, <3>1
    <3>2. CASE current' = current /\ current' \notin xs
      <4>1. current > 0 => current \in Entities
        BY IdentitiesAre, CognitiveAssumption DEF Rows, RowsOK, Versions
      <4> QED BY <1>1, <3>2, <4>1 DEF Rows, ExistingOK
    <3> QED BY <3>1, <3>2
  <2> QED BY <2>1, <2>2, <2>3 DEF ExistingOK
<1>6. GroundedOK'
  <2> SUFFICES ASSUME NEW x \in Entities, content'[x] = "available"
               PROVE  /\ \A y \in rests'[x] : content'[y] = "available"
                      /\ rests'[x] \cap local' # {} => x \in local'
    BY DEF GroundedOK
  <2>1. CASE x \in xs
    <3>1. rests'[x] \subseteq Entities
      BY DEF Entities
    <3>2. \A y \in rests'[x] : content'[y] = "available"
      BY <1>1, <2>1, <3>1
    <3>3. rests'[x] \cap local' # {} => x \in local'
      BY <1>2, <1>3, <2>1, <3>1
    <3> QED BY <3>2, <3>3
  <2>2. CASE x \notin xs
    <3>1. rests'[x] = rests[x] /\ rests[x] \subseteq Entities /\ content[x] = "available"
      BY <1>1, <2>2 DEF Rows, RowsOK
    <3>2. \A y \in rests[x] : content[y] = "available" /\ y \notin xs
      BY <1>2, <3>1 DEF Rows, GroundedOK
    <3>3. rests[x] \cap local # {} => x \in local
      BY <3>1 DEF Rows, GroundedOK
    <3> QED BY <1>1, <1>3, <3>1, <3>2, <3>3
  <2> QED BY <2>1, <2>2
<1>7. ForgottenOK'
  BY <1>1, <1>2 DEF Rows, ForgottenOK, Gone
<1>8. BytesBehindRows'
  BY <1>1 DEF Rows, BytesBehindRows
<1>9. \A x \in Entities : /\ content[x] # "absent" => content'[x] # "absent"
                          /\ content[x] \in Gone => content'[x] \in Gone
  BY <1>1, <1>2 DEF Gone
<1> QED BY <1>4, <1>5, <1>6, <1>7, <1>8, <1>9 DEF Rows
-----------------------------------------------------------------------------
(* The actions.                                                            *)

\* Whatever the new fences are.
LEMMA FencesAre ==
  ASSUME RowsOK, NEW changed \in BOOLEAN, Bump(changed)
  PROVE  stale' \in SUBSET Entities /\ fresh' \in BOOLEAN
  BY DEF RowsOK, Bump

LEMMA NoCallIsOK == call' = NoCall => CallOK'
  BY DEF CallOK, NoCall, None

\* A transaction of a ready store that leaves control and calls alone.
LEMMA ReadyStays ==
  ASSUME Inductive, Ready, UNCHANGED <<control, call>>, Rows',
         \A x \in Entities : /\ content[x] # "absent" => content'[x] # "absent"
                             /\ content[x] \in Gone => content'[x] \in Gone
  PROVE  Inductive'
<1>1. ControlOK'
  BY ControlStays DEF Inductive, control
<1>2. CallOK'
  BY ReadyIs, NoCallIsOK DEF control
<1> QED BY <1>1, <1>2 DEF Inductive

LEMMA WriteBodyKeeps ==
  ASSUME Inductive, NEW on \in SUBSET Entities, NEW private \in BOOLEAN, WriteBody(on, private)
  PROVE  Inductive'
<1> DEFINE b == Unused(Bodies)
<1>1. /\ b \in Entities /\ {b} \in SUBSET Entities /\ BodyPrivacy(on, private) \in BOOLEAN
      /\ Ready /\ \A x \in on : content[x] = "available"
      /\ New({b}, BodyPrivacy(on, private))
      /\ entity' = [entity EXCEPT ![b] = "available"] /\ rests' = [rests EXCEPT ![b] = on]
      /\ UNCHANGED <<stale, current, fresh, control, call>> /\ Rows
  BY IdentitiesAre DEF WriteBody, BodyPrivacy, Inductive
<1> HIDE DEF b
<1>2. /\ entity' \in [Entities -> EntityStates] /\ rests' \in [Entities -> SUBSET Entities]
      /\ \A x \in Entities : entity'[x] = "FORGOTTEN" => entity[x] = "FORGOTTEN"
      /\ \A x \in Entities \ {b} : rests'[x] = rests[x]
      /\ rests'[b] = on
      /\ current' = current /\ current' \in 0..MaxVersion
      /\ stale' \in SUBSET Entities /\ fresh' \in BOOLEAN
  BY <1>1 DEF Rows, RowsOK, EntityStates
<1>3. \A x \in {b} : \A y \in rests'[x] :
        /\ y \in {b} \/ content[y] = "available"
        /\ y \in local /\ y \notin {b} => BodyPrivacy(on, private)
  BY <1>1, <1>2 DEF BodyPrivacy
<1>4. Rows' /\ \A x \in Entities : /\ content[x] # "absent" => content'[x] # "absent"
                                   /\ content[x] \in Gone => content'[x] \in Gone
  BY <1>1, <1>2, <1>3, NewRows
<1> QED BY <1>1, <1>4, ReadyStays

LEMMA PrepareForgetKeeps ==
  ASSUME Inductive, PrepareForget
  PROVE  Inductive'
<1> DEFINE b == Unused(Bodies)
<1>1. /\ b \in Entities /\ {b} \in SUBSET Entities /\ Ready /\ New({b}, TRUE) /\ Rows
      /\ entity' = [entity EXCEPT ![b] = "available"]
      /\ UNCHANGED <<stale, rests, current, fresh>> /\ content[b] = "absent"
  BY IdentitiesAre DEF PrepareForget, Inductive, New
<1>2. /\ current > 0 /\ command' = current /\ gate' = "closed"
      /\ UNCHANGED <<decided, applied, call>>
  BY DEF PrepareForget
<1> HIDE DEF b
<1>3. /\ entity' \in [Entities -> EntityStates] /\ rests' \in [Entities -> SUBSET Entities]
      /\ \A x \in Entities : entity'[x] = "FORGOTTEN" => entity[x] = "FORGOTTEN"
      /\ rests'[b] = {} /\ rests' = rests
      /\ current' = current /\ current' \in 0..MaxVersion
      /\ stale' \in SUBSET Entities /\ fresh' \in BOOLEAN
  BY <1>1 DEF Rows, RowsOK, ExistingOK, EntityStates
<1>4. \A x \in {b} : \A y \in rests'[x] :
        /\ y \in {b} \/ content[y] = "available"
        /\ y \in local /\ y \notin {b} => TRUE
  BY <1>3
<1>5. Rows' /\ \A x \in Entities : /\ content[x] # "absent" => content'[x] # "absent"
                                   /\ content[x] \in Gone => content'[x] \in Gone
  BY <1>1, <1>3, <1>4, NewRows
<1>6. command' \in Versions /\ content[current] # "absent" /\ current \in Entities
  BY <1>1, <1>2, IdentitiesAre, CognitiveAssumption
  DEF Rows, RowsOK, ExistingOK, Versions
<1>7. ControlOK'
  <2>1. ASSUME NEW k \in 1..Len(decided), NEW x \in Entities, decided[k].kind = "forget",
               decided[k].target = x
        PROVE  content'[x] # "absent" /\ (k <= applied => content'[x] \in Gone)
    BY <1>5, <2>1 DEF Inductive, ControlOK
  <2> QED BY <1>2, <1>5, <1>6, <2>1 DEF Inductive, ControlOK
<1>8. CallOK'
  BY <1>1, <1>2, ReadyIs, NoCallIsOK
<1> QED BY <1>5, <1>7, <1>8 DEF Inductive

\* The entity rows behind a new version, or a dispute of the current one.
LEMMA SupersedeIs ==
  ASSUME RowsOK, NEW status \in {"SUPERSEDED", "DISPUTED"}
  PROVE  /\ Supersede(status) \in [Entities -> EntityStates]
         /\ \A x \in Entities : Supersede(status)[x] # "FORGOTTEN" \/ entity[x] = "FORGOTTEN"
  BY DEF RowsOK, Supersede, EntityStates

LEMMA DisputeKeeps ==
  ASSUME Inductive, NEW on \in SUBSET Sources, Dispute(on)
  PROVE  Inductive'
<1> DEFINE b == Unused(Bodies)  private == current \in local
<1>a. b \in Entities /\ {b} \in SUBSET Entities /\ private \in BOOLEAN /\ Rows
  BY IdentitiesAre DEF Inductive
<1>b. /\ Ready /\ New({b}, private) /\ Bump(TRUE) /\ UNCHANGED <<current, control, call>>
      /\ entity' = [Supersede("DISPUTED") EXCEPT ![b] = "available"]
      /\ rests' = [rests EXCEPT ![b] = on \cup {current}]
  BY Zenon DEF Dispute
<1>c. on \subseteq Entities /\ (\A x \in on : content[x] = "available")
      /\ (on \cap local # {} => private)
  BY IdentitiesAre DEF Dispute, Evidence, Live
<1>d. current \in Entities /\ content[current] = "available"
  BY <1>a, IdentitiesAre, CognitiveAssumption DEF Dispute, Correctable, Rows, RowsOK, Versions
<1>1. /\ b \in Entities /\ {b} \in SUBSET Entities /\ private \in BOOLEAN /\ Ready /\ Rows
      /\ on \subseteq Entities /\ \A x \in on : content[x] = "available"
  BY <1>a, <1>b, <1>c
<1>2. stale' \in SUBSET Entities /\ fresh' \in BOOLEAN
  BY <1>1, <1>b, FencesAre DEF Rows
<1> HIDE DEF b, private
<1>3. /\ entity' \in [Entities -> EntityStates] /\ rests' \in [Entities -> SUBSET Entities]
      /\ \A x \in Entities : entity'[x] = "FORGOTTEN" => entity[x] = "FORGOTTEN"
      /\ \A x \in Entities \ {b} : rests'[x] = rests[x]
      /\ rests'[b] = on \cup {current}
      /\ current' = current /\ current' \in 0..MaxVersion
  BY <1>1, <1>b, <1>d, SupersedeIs DEF Rows, RowsOK, EntityStates
<1>4. \A x \in {b} : \A y \in rests'[x] :
        /\ y \in {b} \/ content[y] = "available"
        /\ y \in local /\ y \notin {b} => private
  BY <1>c, <1>d, <1>3 DEF private
<1>5. Rows' /\ \A x \in Entities : /\ content[x] # "absent" => content'[x] # "absent"
                                   /\ content[x] \in Gone => content'[x] \in Gone
  BY <1>1, <1>b, <1>2, <1>3, <1>4, NewRows
<1> QED BY <1>b, <1>5, ReadyStays

LEMMA RememberKeeps ==
  ASSUME Inductive, NEW on \in SUBSET Sources, NEW private \in BOOLEAN, Remember(on, private)
  PROVE  Inductive'
<1> DEFINE v == current + 1  b == Unused(Bodies)  s == Unused(Snapshots)
           xs == {v, b, s}
<1>a. b \in Entities /\ s \in Entities /\ Rows
  BY IdentitiesAre DEF Inductive
<1>b. /\ Ready /\ New({v, b, s}, private) /\ Bump(TRUE) /\ UNCHANGED <<control, call>>
      /\ entity' = [Supersede("SUPERSEDED") EXCEPT ![v] = "ACTIVE", ![b] = "available",
                                                   ![s] = "available"]
      /\ rests' = [rests EXCEPT ![v] = on \cup {b}, ![b] = on \cup {v}, ![s] = on \cup {v, b}]
      /\ current' = v /\ v \in Versions
  BY Zenon DEF Remember
<1>c. on \subseteq Entities /\ (\A x \in on : content[x] = "available")
      /\ (on \cap local # {} => private)
  BY IdentitiesAre DEF Remember, Evidence, Live
<1>d. v \in Entities /\ v \in 0..MaxVersion
  BY <1>b, IdentitiesAre, CognitiveAssumption DEF Versions
<1>1. xs \in SUBSET Entities /\ current' \in xs /\ current' \in 0..MaxVersion /\ New(xs, private)
  BY <1>a, <1>b, <1>d
<1>2. stale' \in SUBSET Entities /\ fresh' \in BOOLEAN
  BY <1>a, <1>b, FencesAre DEF Rows
<1> HIDE DEF b, v, s
<1>3. /\ entity' \in [Entities -> EntityStates]
      /\ \A x \in Entities : entity'[x] = "FORGOTTEN" => entity[x] = "FORGOTTEN"
  BY <1>a, <1>b, SupersedeIs DEF Rows, RowsOK, EntityStates
<1>4. /\ rests' \in [Entities -> SUBSET Entities]
      /\ \A x \in Entities \ xs : rests'[x] = rests[x]
      /\ \A x \in xs : rests'[x] \subseteq on \cup xs
  <2>1. rests \in [Entities -> SUBSET Entities] /\ {v, b, s} \subseteq Entities
    BY <1>a, <1>d DEF Rows, RowsOK
  <2>2. \A x \in Entities : rests'[x] =
          IF x = s THEN on \cup {v, b}
          ELSE IF x = b THEN on \cup {v} ELSE IF x = v THEN on \cup {b} ELSE rests[x]
    BY <1>b, <2>1
  <2> QED BY <1>b, <1>c, <2>1, <2>2
<1>5. \A x \in xs : \A y \in rests'[x] :
        /\ y \in xs \/ content[y] = "available"
        /\ y \in local /\ y \notin xs => private
  BY <1>c, <1>4
<1> HIDE DEF xs
<1>6. Rows' /\ \A x \in Entities : /\ content[x] # "absent" => content'[x] # "absent"
                                   /\ content[x] \in Gone => content'[x] \in Gone
  BY <1>1, <1>a, <1>2, <1>3, <1>4, <1>5, NewRows
<1> QED BY <1>b, <1>6, ReadyStays

LEMMA ReserveKeeps ==
  ASSUME Inductive, NEW o \in Observations, NEW private \in BOOLEAN, Reserve(o, private)
  PROVE  Inductive'
<1>1. /\ o \in Entities /\ content[o] = "absent" /\ file[o] = None /\ Ready
      /\ content' = [content EXCEPT ![o] = "reserved"]
      /\ local' = IF private THEN local \cup {o} ELSE local
      /\ call' = [step |-> "stage", of |-> o]
      /\ UNCHANGED <<stale, file, entity, rests, current, fresh, control>>
  BY IdentitiesAre DEF Reserve
<1>2. \A x \in Entities : content'[x] = IF x = o THEN "reserved" ELSE content[x]
  BY <1>1 DEF Inductive, Rows, RowsOK
<1>3. o \notin local /\ rests[o] = {}
  BY <1>1 DEF Inductive, Rows, ExistingOK
<1>4. RowsOK' /\ ForgottenOK' /\ BytesBehindRows'
  BY <1>1, <1>2 DEF Inductive, Rows, RowsOK, ForgottenOK, BytesBehindRows, ContentStates, Gone
<1>5. ExistingOK'
  <2>1. current > 0 => current \in Entities
    BY IdentitiesAre, CognitiveAssumption DEF Inductive, Rows, RowsOK, Versions
  <2> QED BY <1>1, <1>2, <1>3, <2>1 DEF Inductive, Rows, RowsOK, ExistingOK
<1>6. GroundedOK'
  <2> SUFFICES ASSUME NEW x \in Entities, content'[x] = "available"
               PROVE  /\ \A y \in rests[x] : content'[y] = "available"
                      /\ rests[x] \cap local' # {} => x \in local'
    BY <1>1 DEF GroundedOK
  <2>1. content[x] = "available" /\ rests[x] \subseteq Entities
    BY <1>2 DEF Inductive, Rows, RowsOK
  <2>2. \A y \in rests[x] : content[y] = "available" /\ y # o
    BY <1>1, <2>1 DEF Inductive, Rows, GroundedOK
  <2> QED BY <1>1, <1>2, <2>1, <2>2 DEF Inductive, Rows, GroundedOK
<1>7. ControlOK'
  BY <1>1, <1>2, ControlStays DEF Inductive, control, Gone
<1>8. CallOK'
  BY <1>1, <1>2, ReadyIs DEF CallOK, control
<1> QED BY <1>4, <1>5, <1>6, <1>7, <1>8 DEF Inductive, Rows

\* The steps of a call on the file and the row of its content.
LEMMA CallIs ==
  ASSUME Inductive, call.step # None
  PROVE  /\ call.of \in Entities /\ gate = "open"
         /\ call.step \in {"stage", "publish", "digest"} => content[call.of] = "reserved"
         /\ call.step = "digest" => file[call.of] = "published"
         /\ call.step = "purge" => content[call.of] = "revoked" /\ file[call.of] = None
  BY DEF Inductive, CallOK, NoCall

LEMMA FileStepsKeep ==
  ASSUME Inductive, WriteFile \/ PublishFile
  PROVE  Inductive'
<1> DEFINE x == call.of
<1>1. /\ x \in Entities /\ content[x] = "reserved" /\ gate = "open"
      /\ UNCHANGED <<rows, fresh, control>>
      /\ call' \in [step : {"publish", "digest"}, of : Entities] /\ call'.of = x
      /\ \E f \in {"staging", "published"} :
           /\ file' = [file EXCEPT ![x] = f]
           /\ call'.step = "digest" => f = "published"
  BY CallIs DEF WriteFile, PublishFile, None, Inductive, CallOK
<1> HIDE DEF x
<1>2. RowsOK' /\ BytesBehindRows' /\ (call'.step = "digest" => file'[x] = "published")
  BY <1>1 DEF Inductive, Rows, RowsOK, BytesBehindRows, rows
<1>3. ExistingOK' /\ GroundedOK' /\ ForgottenOK'
  BY <1>1 DEF Inductive, Rows, ExistingOK, GroundedOK, ForgottenOK, rows
<1>4. ControlOK'
  BY <1>1, ControlStays DEF Inductive, rows, control
<1>5. CallOK'
  BY <1>1, <1>2 DEF CallOK, rows, control
<1> QED BY <1>2, <1>3, <1>4, <1>5 DEF Inductive, Rows

\* Only an observation's row, and nothing that rests on it, is staged or purged here.
LEMMA RowStepsKeep ==
  ASSUME Inductive, RecordDigest \/ MarkPurged
  PROVE  Inductive'
<1> DEFINE x == call.of
<1>1. CASE RecordDigest
  <2>1. /\ x \in Entities /\ content[x] = "reserved" /\ file[x] = "published"
        /\ content' = [content EXCEPT ![x] = "staged"] /\ call' = NoCall
        /\ UNCHANGED <<local, stale, file, entity, rests, current, fresh, control>>
    BY <1>1, CallIs DEF RecordDigest, None
  <2> HIDE DEF x
  <2>2. \A y \in Entities : content'[y] = IF y = x THEN "staged" ELSE content[y]
    BY <2>1 DEF Inductive, Rows, RowsOK
  <2>3. RowsOK' /\ ForgottenOK' /\ BytesBehindRows'
    BY <2>1, <2>2 DEF Inductive, Rows, RowsOK, ForgottenOK, BytesBehindRows, ContentStates, Gone
  <2>4. current > 0 => current \in Entities
    BY IdentitiesAre, CognitiveAssumption DEF Inductive, Rows, RowsOK, Versions
  <2>5. ExistingOK'
    BY <2>1, <2>2, <2>4 DEF Inductive, Rows, RowsOK, ExistingOK
  <2>6. GroundedOK'
    BY <2>1, <2>2 DEF Inductive, Rows, RowsOK, GroundedOK
  <2>7. ControlOK' /\ CallOK'
    BY <2>1, <2>2, ControlStays, NoCallIsOK DEF Inductive, control, Gone
  <2> QED BY <2>3, <2>5, <2>6, <2>7 DEF Inductive, Rows
<1>2. CASE MarkPurged
  <2>1. /\ x \in Entities /\ content[x] = "revoked" /\ file[x] = None
        /\ content' = [content EXCEPT ![x] = "purged"] /\ call' = NoCall
        /\ entity' = [entity EXCEPT ![x] = IF @ = "revoked" THEN "purged" ELSE @]
        /\ UNCHANGED <<local, stale, file, rests, current, fresh, control>>
    BY <1>2, CallIs DEF MarkPurged, None
  <2> HIDE DEF x
  <2>2. \A y \in Entities : /\ content'[y] = IF y = x THEN "purged" ELSE content[y]
                            /\ entity'[y] = "FORGOTTEN" => entity[y] = "FORGOTTEN"
    BY <2>1 DEF Inductive, Rows, RowsOK
  <2>3. RowsOK'
    BY <2>1 DEF Inductive, Rows, RowsOK, ContentStates, EntityStates
  <2>4. ForgottenOK' /\ BytesBehindRows'
    BY <2>1, <2>2 DEF Inductive, Rows, ForgottenOK, BytesBehindRows, Gone
  <2>5. current > 0 => current \in Entities
    BY IdentitiesAre, CognitiveAssumption DEF Inductive, Rows, RowsOK, Versions
  <2>6. ExistingOK'
    BY <2>1, <2>2, <2>5 DEF Inductive, Rows, RowsOK, ExistingOK
  <2>7. GroundedOK'
    BY <2>1, <2>2 DEF Inductive, Rows, RowsOK, GroundedOK
  <2>8. ControlOK' /\ CallOK'
    BY <2>1, <2>2, ControlStays, NoCallIsOK DEF Inductive, control, Gone
  <2> QED BY <2>3, <2>4, <2>6, <2>7, <2>8 DEF Inductive, Rows
<1> QED BY <1>1, <1>2

LEMMA RemoveBytesKeeps ==
  ASSUME Inductive, NEW x \in Entities, RemoveBytes(x)
  PROVE  Inductive'
<1>1. /\ Ready /\ content[x] = "revoked" /\ file' = [file EXCEPT ![x] = None]
      /\ call' = [step |-> "purge", of |-> x] /\ UNCHANGED <<rows, fresh, control>>
  BY DEF RemoveBytes
<1>2. RowsOK' /\ BytesBehindRows' /\ file'[x] = None
  BY <1>1 DEF Inductive, Rows, RowsOK, BytesBehindRows, rows
<1>3. ExistingOK' /\ GroundedOK' /\ ForgottenOK'
  BY <1>1 DEF Inductive, Rows, ExistingOK, GroundedOK, ForgottenOK, rows
<1>4. ControlOK'
  BY <1>1, ControlStays DEF Inductive, rows, control
<1>5. CallOK'
  BY <1>1, <1>2, ReadyIs DEF CallOK, rows, control
<1> QED BY <1>2, <1>3, <1>4, <1>5 DEF Inductive, Rows

LEMMA CollectKeeps ==
  ASSUME Inductive, CollectStaged \/ CollectOrphans
  PROVE  Inductive'
<1>1. CASE CollectStaged
  <2>1. /\ Ready /\ UNCHANGED <<local, file, entity, rests, current, fresh, control, call>>
        /\ stale' = {}
        /\ content' = [x \in Entities |-> IF content[x] \in Staged THEN "revoked"
                                          ELSE content[x]]
    BY <1>1 DEF CollectStaged
  <2>2. \A x \in Entities :
          content'[x] = IF content[x] \in Staged THEN "revoked" ELSE content[x]
    BY <2>1
  <2>3. RowsOK' /\ ForgottenOK' /\ BytesBehindRows'
    BY <2>1, <2>2 DEF Inductive, Rows, RowsOK, ForgottenOK, BytesBehindRows, ContentStates,
       Gone, Staged
  <2>4. current > 0 => current \in Entities
    BY IdentitiesAre, CognitiveAssumption DEF Inductive, Rows, RowsOK, Versions
  <2>5. ExistingOK'
    BY <2>1, <2>2, <2>4 DEF Inductive, Rows, RowsOK, ExistingOK, Staged
  <2>6. GroundedOK'
    BY <2>1, <2>2 DEF Inductive, Rows, RowsOK, GroundedOK, Staged
  <2>7. \A x \in Entities : /\ content[x] # "absent" => content'[x] # "absent"
                            /\ content[x] \in Gone => content'[x] \in Gone
    BY <2>2 DEF Gone, Staged
  <2> QED BY <2>1, <2>3, <2>5, <2>6, <2>7, ReadyStays DEF Rows
<1>2. CASE CollectOrphans
  <2>1. /\ Ready /\ UNCHANGED <<rows, fresh, control, call>>
        /\ file' = [x \in Entities |-> IF content[x] = "absent" THEN None ELSE file[x]]
    BY <1>2 DEF CollectOrphans
  <2>2. RowsOK' /\ BytesBehindRows'
    BY <2>1 DEF Inductive, Rows, RowsOK, BytesBehindRows, rows
  <2>3. ExistingOK' /\ GroundedOK' /\ ForgottenOK'
    BY <2>1 DEF Inductive, Rows, ExistingOK, GroundedOK, ForgottenOK, rows
  <2> QED BY <2>1, <2>2, <2>3, ReadyStays DEF Rows, rows
<1> QED BY <1>1, <1>2

LEMMA AppendObservationKeeps ==
  ASSUME Inductive, NEW o \in Observations, AppendObservation(o)
  PROVE  Inductive'
<1>1. /\ o \in Entities /\ Ready /\ content[o] = "staged"
      /\ content' = [content EXCEPT ![o] = "available"]
      /\ entity' = [entity EXCEPT ![o] = "available"]
      /\ UNCHANGED <<local, stale, file, rests, current, fresh, control, call>>
  BY IdentitiesAre DEF AppendObservation
<1>2. \A x \in Entities : /\ content'[x] = IF x = o THEN "available" ELSE content[x]
                          /\ entity'[x] = IF x = o THEN "available" ELSE entity[x]
  BY <1>1 DEF Inductive, Rows, RowsOK
<1>3. RowsOK'
  BY <1>1 DEF Inductive, Rows, RowsOK, ContentStates, EntityStates
<1>4. ForgottenOK' /\ BytesBehindRows'
  BY <1>1, <1>2 DEF Inductive, Rows, ForgottenOK, BytesBehindRows, Gone
<1>5. current > 0 => current \in Entities
  BY IdentitiesAre, CognitiveAssumption DEF Inductive, Rows, RowsOK, Versions
<1>6. ExistingOK' /\ rests[o] = {}
  BY <1>1, <1>2, <1>5 DEF Inductive, Rows, RowsOK, ExistingOK
<1>7. GroundedOK'
  BY <1>1, <1>2, <1>6 DEF Inductive, Rows, RowsOK, GroundedOK
<1>8. \A x \in Entities : /\ content[x] # "absent" => content'[x] # "absent"
                          /\ content[x] \in Gone => content'[x] \in Gone
  BY <1>1, <1>2 DEF Gone
<1> QED BY <1>1, <1>3, <1>4, <1>6, <1>7, <1>8, ReadyStays DEF Rows

\* A fence read, a line cut off, a crash, a restart: rows stay, and no call is in progress.
LEMMA RestartKeeps ==
  ASSUME Inductive,
         ReadFence \/ CutOff \/ Crash \/ Open \/ FinishForget \/ CrashInside({Unused(Bodies)})
  PROVE  Inductive'
<1>1. UNCHANGED <<rows, decided, applied>>
  BY DEF ReadFence, CutOff, Crash, Open, FinishForget, CrashInside, control
<1>2. \A x \in Entities : content[x] # "absent" => file'[x] = file[x]
  BY DEF ReadFence, CutOff, Crash, Open, FinishForget, CrashInside, Inductive, Rows, RowsOK
<1>3. file' \in [Entities -> {None, "staging", "published"}] /\ fresh' \in BOOLEAN
  BY DEF ReadFence, CutOff, Crash, Open, FinishForget, CrashInside, Inductive, Rows, RowsOK
<1>4. RowsOK' /\ ExistingOK' /\ GroundedOK' /\ ForgottenOK'
  BY <1>1, <1>3 DEF Inductive, Rows, RowsOK, ExistingOK, GroundedOK, ForgottenOK, rows
<1>5. BytesBehindRows'
  BY <1>1, <1>2 DEF Inductive, Rows, BytesBehindRows, rows
<1>6. /\ gate' \in {"open", "closed", "down", "broken"} /\ command' \in {command, 0}
      /\ gate' = "open" => applied = Len(decided) /\ command' = 0
  BY DEF ReadFence, CutOff, Crash, Open, FinishForget, CrashInside, control, Inductive, ControlOK
<1>7. ControlOK'
  BY <1>1, <1>6 DEF Inductive, ControlOK, rows
<1>8. CASE call' = NoCall
  BY <1>4, <1>5, <1>7, <1>8, NoCallIsOK DEF Inductive, Rows
<1>9. CASE call' # NoCall
  <2>1. call' = call /\ ~ReadFence /\ ~CrashInside({Unused(Bodies)})
    BY <1>9 DEF ReadFence, CutOff, Crash, Open, FinishForget, CrashInside, Ready
  <2>2. gate # "open"
    BY <1>9, <2>1 DEF CutOff, Resolved, Resuming, Ready, Crash, Open, FinishForget
  <2> QED BY <1>9, <2>1, <2>2 DEF Inductive, CallOK
<1> QED BY <1>8, <1>9

\* What the journal takes next is behind every database.
LEMMA DecideKeeps ==
  ASSUME Inductive, NEW intent \in ControlIntents, decided' = Append(decided, intent),
         gate' = "closed", call' = NoCall, UNCHANGED <<rows, file, fresh, applied, command>>,
         intent.target \in Entities => content[intent.target] # "absent"
  PROVE  Inductive'
<1>1. Rows'
  BY DEF Inductive, Rows, RowsOK, ExistingOK, GroundedOK, ForgottenOK, BytesBehindRows, rows
<1>2. /\ decided' \in Seq(ControlIntents) /\ Len(decided') = Len(decided) + 1
      /\ Len(decided) \in Nat /\ decided'[Len(decided')] = intent
      /\ \A k \in 1..Len(decided) : decided'[k] = decided[k]
  BY DEF Inductive, ControlOK
<1>3. applied' \in Nat /\ applied' <= Len(decided) /\ applied' = applied
  BY DEF Inductive, ControlOK
<1>4. ASSUME NEW k \in 1..Len(decided'), NEW x \in Entities, decided'[k].kind = "forget",
             decided'[k].target = x
      PROVE  content'[x] # "absent" /\ (k <= applied' => content'[x] \in Gone)
  <2>1. CASE k \in 1..Len(decided)
    BY <1>2, <1>3, <1>4, <2>1 DEF Inductive, ControlOK, rows
  <2>2. CASE k \notin 1..Len(decided)
    <3>1. k = Len(decided')
      BY <1>2, <2>2
    <3> QED BY <1>2, <1>3, <1>4, <3>1 DEF rows
  <2> QED BY <2>1, <2>2
<1>5. ControlOK'
  BY <1>2, <1>3, <1>4 DEF Inductive, ControlOK, rows
<1> QED BY <1>1, <1>5, NoCallIsOK DEF Inductive

LEMMA DecisionsKeep ==
  ASSUME Inductive, NEW intent \in ControlIntents, Decide(intent) \/ DecideForget
  PROVE  Inductive'
<1>1. CASE Decide(intent)
  <2>1. intent.target \in Entities => content[intent.target] # "absent"
    BY <1>1, CognitiveAssumption DEF Decide, Resolved, Targets
  <2>2. call' = NoCall
    BY <1>1 DEF Decide, Resolved, Ready
  <2> QED BY <1>1, <2>1, <2>2, DecideKeeps DEF Decide
<1>2. CASE DecideForget
  <2>1. /\ command \in Versions /\ content[command] # "absent"
        /\ decided' = Append(decided, Forgetting) /\ gate' = "closed"
        /\ call' = call /\ gate = "closed"
        /\ UNCHANGED <<rows, file, fresh, applied, command>>
    BY <1>2 DEF DecideForget, Resuming, Inductive, ControlOK
  <2>2. Forgetting \in ControlIntents /\ Forgetting.target = command
    BY <2>1, IdentitiesAre DEF Forgetting, ControlIntents
  <2>3. call' = NoCall
    BY <2>1 DEF Inductive, CallOK
  <2> QED BY <2>1, <2>2, <2>3, DecideKeeps
<1> QED BY <1>1, <1>2

\* An intent takes away, or keeps from models, a set closed under "rests on".
LEMMA ApplyKeeps ==
  ASSUME Inductive, Apply
  PROVE  Inductive'
<1> DEFINE intent == decided[applied + 1]
           xs == Affected(Targets(intent))
<1>1. /\ gate = "closed" /\ applied < Len(decided) /\ applied' = applied + 1
      /\ IF intent.kind = "forget" THEN Forget(xs) ELSE Restrict(xs)
      /\ Bump(xs # {})
      /\ gate' = IF applied' = Len(decided) /\ command = 0 THEN "open" ELSE "closed"
      /\ UNCHANGED <<rests, current, file, decided, command, call>>
  BY DEF Apply
<1>2. /\ applied \in Nat /\ Len(decided) \in Nat /\ applied + 1 \in 1..Len(decided)
      /\ intent \in ControlIntents
  BY <1>1 DEF Inductive, ControlOK
<1>3. Targets(intent) \in SUBSET Entities /\ \A x \in Targets(intent) : content[x] # "absent"
  BY DEF Targets
<1>4. /\ Targets(intent) \subseteq xs /\ xs \subseteq Entities
      /\ \A x \in Entities : rests[x] \cap xs # {} => x \in xs
      /\ \A x \in xs : x \in Targets(intent) \/ rests[x] # {}
  BY <1>3, AffectedIsClosed DEF Inductive, Rows
<1>5. \A x \in xs : content[x] # "absent"
  BY <1>3, <1>4 DEF Inductive, Rows, ExistingOK
<1>6. intent.kind = "forget" /\ intent.target \in Entities => intent.target \in xs
  BY <1>2, <1>4 DEF Inductive, ControlOK, Targets
<1>7. call' = NoCall
  BY <1>1 DEF Inductive, CallOK
<1>8. stale' \in SUBSET Entities /\ fresh' \in BOOLEAN
  BY <1>1, FencesAre DEF Inductive, Rows
<1> HIDE DEF xs
<1>9. Rows' /\ \A x \in Entities : /\ content[x] # "absent" => content'[x] # "absent"
                                   /\ content[x] \in Gone => content'[x] \in Gone
                                   /\ intent.kind = "forget" /\ x \in xs => content'[x] \in Gone
  <2>1. CASE intent.kind = "forget"
    <3>1. /\ UNCHANGED <<local, rests, current, file>>
          /\ content' = [x \in Entities |-> IF x \in xs /\ content[x] # "purged" THEN "revoked"
                                            ELSE content[x]]
          /\ entity' = [x \in Entities |->
               IF x \notin xs \/ entity[x] = None THEN entity[x]
               ELSE IF x \in Versions THEN "FORGOTTEN"
               ELSE IF entity[x] = "available" THEN "revoked" ELSE entity[x]]
      BY <1>1, <2>1 DEF Forget
    <3>2. RowsOK'
      BY <1>8, <3>1 DEF Inductive, Rows, RowsOK, ContentStates, EntityStates
    <3>3. \A x \in Entities :
            /\ content'[x] = IF x \in xs /\ content[x] # "purged" THEN "revoked" ELSE content[x]
            /\ entity'[x] = "FORGOTTEN" => x \in xs \/ entity[x] = "FORGOTTEN"
      BY <3>1
    <3>4. ForgottenOK' /\ BytesBehindRows'
      BY <3>1, <3>3 DEF Inductive, Rows, ForgottenOK, BytesBehindRows, Gone
    <3>5. current > 0 => current \in Entities
      BY IdentitiesAre, CognitiveAssumption DEF Inductive, Rows, RowsOK, Versions
    <3>6. ExistingOK'
      BY <3>1, <3>3, <3>5 DEF Inductive, Rows, RowsOK, ExistingOK
    <3>7. GroundedOK'
      BY <1>4, <3>1, <3>3 DEF Inductive, Rows, RowsOK, GroundedOK
    <3> QED BY <3>2, <3>3, <3>4, <3>6, <3>7 DEF Rows, Gone
  <2>2. CASE intent.kind # "forget"
    <3>1. local' = local \cup xs /\ UNCHANGED <<content, entity, rests, current, file>>
      BY <1>1, <2>2 DEF Restrict
    <3>2. RowsOK' /\ ForgottenOK' /\ BytesBehindRows'
      BY <1>4, <1>8, <3>1 DEF Inductive, Rows, RowsOK, ForgottenOK, BytesBehindRows
    <3>3. ExistingOK'
      BY <1>5, <3>1 DEF Inductive, Rows, ExistingOK
    <3>4. GroundedOK'
      BY <1>4, <3>1 DEF Inductive, Rows, GroundedOK
    <3> QED BY <2>2, <3>1, <3>2, <3>3, <3>4 DEF Rows
  <2> QED BY <2>1, <2>2
<1>10. ASSUME NEW k \in 1..Len(decided), NEW x \in Entities, decided[k].kind = "forget",
              decided[k].target = x
       PROVE  content'[x] # "absent" /\ (k <= applied + 1 => content'[x] \in Gone)
  <2>1. content'[x] # "absent" /\ (k <= applied => content'[x] \in Gone)
    BY <1>9, <1>10 DEF Inductive, ControlOK
  <2>2. k = applied + 1 => content'[x] \in Gone
    BY <1>6, <1>9, <1>10
  <2> QED BY <1>2, <2>1, <2>2
<1>11. command # 0 => command \in Entities /\ content'[command] # "absent"
  BY <1>9, IdentitiesAre DEF Inductive, ControlOK
<1>12. ControlOK'
  BY <1>1, <1>2, <1>10, <1>11 DEF Inductive, ControlOK
<1> QED BY <1>7, <1>9, <1>12, NoCallIsOK DEF Inductive

LEMMA StutterKeeps == Inductive /\ UNCHANGED vars => Inductive'
  BY DEF Inductive, Rows, RowsOK, ExistingOK, GroundedOK, ForgottenOK, BytesBehindRows,
     ControlOK, CallOK, vars, rows, control

LEMMA InitHolds == Init => Inductive
<1> SUFFICES ASSUME Init PROVE Inductive
  OBVIOUS
<1>1. Rows
  <2>1. RowsOK
    <3>1. content \in [Entities -> ContentStates] /\ entity \in [Entities -> EntityStates]
          /\ file \in [Entities -> {None, "staging", "published"}]
      BY DEF Init, ContentStates, EntityStates
    <3>2. rests \in [Entities -> SUBSET Entities] /\ local \subseteq Entities
          /\ stale \subseteq Entities /\ fresh \in BOOLEAN
      BY Zenon DEF Init
    <3>3. current \in 0..MaxVersion
      BY CognitiveAssumption DEF Init
    <3> QED BY <3>1, <3>2, <3>3 DEF RowsOK
  <2>2. ExistingOK /\ GroundedOK /\ ForgottenOK /\ BytesBehindRows
    BY DEF Init, ExistingOK, GroundedOK, ForgottenOK, BytesBehindRows, None
  <2> QED BY <2>1, <2>2 DEF Rows
<1>2. ControlOK /\ CallOK
  BY DEF Init, ControlOK, CallOK, NoCall, None
<1> QED BY <1>1, <1>2 DEF Inductive

LEMMA NextKeeps == Inductive /\ [Next]_vars => Inductive'
<1> SUFFICES ASSUME Inductive, [Next]_vars PROVE Inductive'
  OBVIOUS
<1>1. CASE ReadFence \/ CutOff \/ Crash \/ Open \/ FinishForget \/ CrashInside({Unused(Bodies)})
  BY <1>1, RestartKeeps
<1>2. CASE \/ WriteFile \/ PublishFile \/ RecordDigest \/ MarkPurged \/ CollectStaged
           \/ CollectOrphans \/ PrepareForget \/ Apply
  BY <1>2, FileStepsKeep, RowStepsKeep, CollectKeeps, PrepareForgetKeeps, ApplyKeeps
<1>3. ASSUME NEW o \in Observations, NEW p \in BOOLEAN, Reserve(o, p) \/ AppendObservation(o)
      PROVE  Inductive'
  BY <1>3, ReserveKeeps, AppendObservationKeeps
<1>4. ASSUME NEW x \in Entities, RemoveBytes(x) PROVE Inductive'
  BY <1>4, RemoveBytesKeeps
<1>5. ASSUME NEW on \in Named(Entities), NEW p \in BOOLEAN, WriteBody(on, p) PROVE Inductive'
  BY <1>5, WriteBodyKeeps DEF Named
<1>6. ASSUME NEW on \in Named(Sources), NEW p \in BOOLEAN, Remember(on, p) \/ Dispute(on)
      PROVE  Inductive'
  BY <1>6, RememberKeeps, DisputeKeeps DEF Named
<1>7. ASSUME NEW i \in ControlIntents, Decide(i) PROVE Inductive'
  BY <1>7, DecisionsKeep
<1>8. CASE DecideForget
  <2>1. [kind |-> "forget", target |-> Scope] \in ControlIntents
    BY DEF ControlIntents
  <2> QED BY <1>8, <2>1, DecisionsKeep
<1>9. CASE UNCHANGED vars
  BY <1>9, StutterKeeps
<1>10. TRUE \in BOOLEAN
  OBVIOUS
<1> QED BY <1>1, <1>2, <1>3, <1>4, <1>5, <1>6, <1>7, <1>8, <1>9, <1>10, Zenon DEF Next
-----------------------------------------------------------------------------
(* The theorems.                                                           *)

\* Every transaction, file effect, crash and restart keeps rows, files, intents and calls
\* consistent.
THEOREM Invariance == Spec => []Inductive
  BY InitHolds, NextKeeps, PTL DEF Spec

\* stageContent, the commits of captureMemory, remember, correct and dispute, the control
\* intents and purgeContent: what can be read rests on what can be read, is as private as
\* that, was not forgotten, and has its published bytes.
THEOREM ReadableStaysGrounded == Spec => []ReadableIsGrounded
<1>1. Inductive => GroundedInAvailable
  <2> SUFFICES ASSUME Inductive, gate = "open", NEW x \in Entities, content[x] = "available"
               PROVE  /\ \A y \in rests[x] : content[y] = "available"
                      /\ ~Has("forget", x)
                      /\ x \in Versions => entity[x] # "FORGOTTEN"
    BY DEF GroundedInAvailable
  <2>1. \A y \in rests[x] : content[y] = "available"
    BY DEF Inductive, Rows, GroundedOK
  <2>2. ASSUME Has("forget", x) PROVE FALSE
    <3>1. decided \in Seq(ControlIntents) /\ applied = Len(decided)
      BY DEF Inductive, ControlOK
    <3>2. PICK k \in 1..Len(decided) : decided[k] = [kind |-> "forget", target |-> x]
      BY <2>2, <3>1 DEF Has
    <3>3. decided[k].kind = "forget" /\ decided[k].target = x
      BY <3>2
    <3>4. content[x] \in Gone
      BY <3>1, <3>3 DEF Inductive, ControlOK
    <3> QED BY <3>4 DEF Gone
  <2>3. entity[x] # "FORGOTTEN"
    BY DEF Inductive, Rows, ForgottenOK, Gone
  <2> QED BY <2>1, <2>2, <2>3
<1>2. Inductive => LocalOnlySpreads
  BY DEF Inductive, Rows, GroundedOK, LocalOnlySpreads
<1>3. Inductive => BytesBehindRows
  BY DEF Inductive, Rows
<1> QED BY <1>1, <1>2, <1>3, Invariance, PTL DEF ReadableIsGrounded

\* #bump: a step that takes something from what a model could be offered also makes every
\* fence read before it out of date.
THEOREM FencesVouch == Spec => FreshMeansUnchanged
<1>1. Inductive /\ [Next]_vars => [UnchangedWhileFresh]_vars
  <2> SUFFICES ASSUME Inductive, Next, fresh', NEW x \in Offered
               PROVE  x \in Offered'
    BY DEF UnchangedWhileFresh
  <2>1. x \in Entities /\ x \notin local /\ content[x] = "available"
        /\ entity[x] \in {"available", "ACTIVE"}
    BY DEF Offered, Live
  <2> SUFFICES content'[x] = "available" /\ x \notin local'
               /\ entity'[x] \in {"available", "ACTIVE"}
    BY <2>1 DEF Offered, Live
  <2>2. CASE \/ ReadFence \/ WriteFile \/ PublishFile \/ CollectOrphans \/ DecideForget
             \/ FinishForget \/ Open \/ (\E y \in Entities : RemoveBytes(y))
             \/ \E i \in ControlIntents : Decide(i)
    <3>1. UNCHANGED <<content, local, entity>>
      BY <2>2 DEF ReadFence, WriteFile, PublishFile, CollectOrphans, DecideForget,
         FinishForget, Open, RemoveBytes, Decide, rows
    <3> QED BY <2>1, <3>1
  <2>3. fresh' \in BOOLEAN /\ content \in [Entities -> ContentStates]
        /\ entity \in [Entities -> EntityStates]
    BY NextKeeps DEF Inductive, Rows, RowsOK
  <2>4. CASE \/ CutOff \/ Crash \/ CrashInside({Unused(Bodies)})
             \/ (\E on \in Named(Sources), p \in BOOLEAN : Remember(on, p))
             \/ \E on \in Named(Sources) : Dispute(on)
    <3>1. fresh' = FALSE
      BY <2>4 DEF CutOff, Crash, CrashInside, Remember, Dispute, Bump
    <3> QED BY <3>1
  <2>5. CASE Apply
    <3> DEFINE xs == Affected(Targets(decided[applied + 1]))
    <3>1. /\ Bump(xs # {})
          /\ IF decided[applied + 1].kind = "forget" THEN Forget(xs) ELSE Restrict(xs)
      BY <2>5 DEF Apply
    <3> HIDE DEF xs
    <3>2. xs = {}
      BY <3>1 DEF Bump
    <3> QED BY <2>1, <3>1, <3>2 DEF Forget, Restrict
  <2>6. ASSUME NEW o \in Observations, NEW p \in BOOLEAN, Reserve(o, p) \/ AppendObservation(o)
        PROVE  content'[x] = "available" /\ x \notin local'
               /\ entity'[x] \in {"available", "ACTIVE"}
    BY <2>1, <2>3, <2>6 DEF Reserve, AppendObservation
  <2>7. CASE RecordDigest \/ MarkPurged \/ CollectStaged
    <3>1. CASE RecordDigest \/ MarkPurged
      <4>1. content[call.of] # "available"
        BY <3>1, CallIs DEF RecordDigest, MarkPurged, None
      <4> QED BY <2>1, <2>3, <3>1, <4>1 DEF RecordDigest, MarkPurged
    <3>2. CASE CollectStaged
      BY <2>1, <3>2 DEF CollectStaged, Staged
    <3> QED BY <2>7, <3>1, <3>2
  <2>8. CASE \/ PrepareForget
             \/ \E on \in Named(Entities), p \in BOOLEAN : WriteBody(on, p)
    <3> DEFINE b == Unused(Bodies)
    <3>1. /\ b \in Entities
          /\ \E private \in BOOLEAN : New({b}, private)
          /\ entity' = [entity EXCEPT ![b] = "available"]
      BY <2>8, IdentitiesAre DEF PrepareForget, WriteBody, BodyPrivacy
    <3> HIDE DEF b
    <3> QED BY <2>1, <2>3, <3>1 DEF New
  <2> QED BY <2>2, <2>4, <2>5, <2>6, <2>7, <2>8, Zenon DEF Next
<1> QED BY <1>1, Invariance, PTL DEF Spec, FreshMeansUnchanged

-----------------------------------------------------------------------------
(* The verification of outcomes.  A result is prepared on the one before   *)
(* it and committed only while the task is at the revision at which it was *)
(* prepared, so the results form one chain; and what feedback carries over *)
(* was seen in the world of the verification it was prepared in.           *)

OutcomeCommands == VerifyCommands \cup Feedbacks
Statuses == Verdicts \cup {"unknown", "none"}
Prepared ==
  [command : OutcomeCommands, revision : Nat, owner : Nat, world : Nat, notAfter : Nat,
   previous : Nat, gone : BOOLEAN]
Seen == [status : Statuses, world : Nat, notAfter : Nat]
Results ==
  [verification : Nat, outcome : Nat, gone : BOOLEAN,
   observations : [Checked \cup Judged -> Seen]]
OutcomeTasks ==
  [revision : Nat, owner : Nat, outcomes : Nat,
   state : {"READY", "RUNNING", "VERIFYING", "DONE", "CANCELLED"}]
OutcomeExecutions == [at : Nat, world : Nat, owner : Nat, notAfter : Nat]
Clients ==
  [at : {"idle", "sent", "refused", "done"}, revision : Nat, outcome : Nat,
   criterion : Judged \cup {"none"}, says : Verdicts \cup {"none"}]
OutcomeTypes ==
  /\ now \in Nat /\ world \in Nat /\ owner \in Nat /\ plan \in Nat
  /\ turn \in OutcomeCommands \cup {"free"}
  /\ task \in OutcomeTasks /\ execution \in OutcomeExecutions
  /\ verifications \in Seq(Prepared) /\ results \in Seq(Results)
  /\ client \in [OutcomeCommands -> Clients]
\* One verification of a command; what was prepared at the task's present revision knows the
\* last result, and feedback was prepared on a result.
Vouched ==
  /\ \A v \in 1..Len(verifications) :
       /\ verifications[v].revision <= task.revision
       /\ verifications[v].revision = task.revision => verifications[v].previous = Len(results)
       /\ verifications[v].command \notin VerifyCommands => verifications[v].previous # 0
       /\ plan # 0
  /\ \A v, w \in 1..Len(verifications) :
       verifications[v].command = verifications[w].command => v = w
  /\ turn # "free" => \E v \in 1..Len(verifications) : verifications[v].command = turn
\* Each result was prepared at an earlier revision, on the result before it, and what was seen
\* then was seen in the world it was prepared in.
Following ==
  /\ \A r \in 1..Len(results) :
       /\ results[r].verification \in 1..Len(verifications)
       /\ LET v == verifications[results[r].verification]
          IN /\ v.previous = r - 1 /\ v.revision < task.revision
             /\ \A c \in Checked \cup Judged :
                  results[r].observations[c].status # "unknown" =>
                    results[r].observations[c].world = v.world
  /\ results # <<>> => /\ results[Len(results)].outcome = task.outcomes
                       /\ task.state \in {"DONE", "CANCELLED"}
PlanFirst ==
  /\ plan <= task.revision
  /\ execution # Outcome!NoExecution => plan <= execution.at
OutcomeInductive == OutcomeTypes /\ Vouched /\ Following /\ PlanFirst

USE OutcomeAssumption

LEMMA OutcomeStarts == Outcome!Init => OutcomeInductive
<1> SUFFICES ASSUME Outcome!Init PROVE OutcomeInductive
  OBVIOUS
<1> USE DEF Outcome!Init, Outcome!NoExecution
<1>1. OutcomeTypes
  BY DEF OutcomeTypes, OutcomeCommands, Outcome!Commands, Outcome!Unsent, OutcomeTasks,
     OutcomeExecutions, Clients
<1>2. Vouched /\ Following
  BY DEF Vouched, Following
<1>3. PlanFirst
  BY DEF PlanFirst
<1> QED BY <1>1, <1>2, <1>3 DEF OutcomeInductive

LEMMA RowsTyped ==
  ASSUME OutcomeTypes
  PROVE  /\ Len(verifications) \in Nat /\ Len(results) \in Nat
         /\ \A v \in 1..Len(verifications) :
              verifications[v] \in Prepared /\ verifications[v].revision \in Nat
         /\ \A r \in 1..Len(results) : results[r] \in Results
         /\ task.revision \in Nat /\ task.outcomes \in Nat
<1>1. verifications \in Seq(Prepared) /\ results \in Seq(Results) /\ task \in OutcomeTasks
  BY DEF OutcomeTypes
<1>2. /\ Len(verifications) \in Nat /\ Len(results) \in Nat
      /\ \A v \in 1..Len(verifications) : verifications[v] \in Prepared
      /\ \A r \in 1..Len(results) : results[r] \in Results
  BY <1>1
<1>3. \A v \in 1..Len(verifications) : verifications[v].revision \in Nat
  BY <1>2 DEF Prepared
<1> QED BY <1>1, <1>2, <1>3 DEF OutcomeTasks

LEMMA MovesTyped ==
  ASSUME OutcomeTypes, NEW state \in {"READY", "RUNNING", "VERIFYING", "DONE", "CANCELLED"},
         \/ task' = [task EXCEPT !.revision = task.revision + 1, !.state = state]
         \/ task' = [task EXCEPT !.revision = task.revision + 1, !.state = state,
                                 !.outcomes = task.outcomes + 1]
  PROVE  task' \in OutcomeTasks
<1>1. task \in OutcomeTasks
  BY DEF OutcomeTypes
<1>2. PICK n : n = task.revision + 1
  OBVIOUS
<1>3. PICK o : o = task.outcomes + 1
  OBVIOUS
<1>4. n \in Nat /\ o \in Nat
  BY <1>1, <1>2, <1>3 DEF OutcomeTasks
<1>5. CASE task' = [task EXCEPT !.revision = n, !.state = state]
  BY <1>1, <1>4, <1>5 DEF OutcomeTasks
<1>6. CASE task' = [task EXCEPT !.revision = n, !.state = state, !.outcomes = o]
  BY <1>1, <1>4, <1>6 DEF OutcomeTasks
<1> QED BY <1>2, <1>3, <1>5, <1>6

\* A step that adds neither a verification nor a result.
LEMMA NothingAdded ==
  ASSUME OutcomeInductive, UNCHANGED <<verifications, results>>,
         OutcomeTypes', PlanFirst',
         plan # 0 => plan' # 0, task'.revision >= task.revision,
         (task'.outcomes = task.outcomes /\ task'.state = task.state) \/ results = <<>>,
         turn' # "free" => \E v \in 1..Len(verifications) : verifications[v].command = turn'
  PROVE  OutcomeInductive'
<1>1. /\ task.revision \in Nat /\ task'.revision \in Nat /\ Len(verifications) \in Nat
      /\ \A v \in 1..Len(verifications) : verifications[v].revision \in Nat
  BY RowsTyped DEF OutcomeInductive, OutcomeTypes, OutcomeTasks
<1>2. ASSUME NEW v \in 1..Len(verifications)
      PROVE  /\ verifications[v].revision <= task'.revision
             /\ verifications[v].revision = task'.revision =>
                  verifications[v].previous = Len(results)
             /\ verifications[v].command \notin VerifyCommands => verifications[v].previous # 0
             /\ plan' # 0
  <2>1. verifications[v].revision \in Nat
    BY <1>1
  <2>2. /\ verifications[v].revision <= task.revision
        /\ verifications[v].revision = task.revision =>
             verifications[v].previous = Len(results)
        /\ verifications[v].command \notin VerifyCommands => verifications[v].previous # 0
        /\ plan # 0
    BY DEF OutcomeInductive, Vouched
  <2> QED BY <1>1, <2>1, <2>2
<1>3. Vouched'
  BY <1>2 DEF OutcomeInductive, Vouched
<1>4. Following'
  <2>1. ASSUME NEW r \in 1..Len(results)
        PROVE  verifications[results[r].verification].revision < task'.revision
    <3>1. /\ results[r].verification \in 1..Len(verifications)
          /\ verifications[results[r].verification].revision < task.revision
      BY DEF OutcomeInductive, Following
    <3>2. verifications[results[r].verification].revision \in Nat
      BY <1>1, <3>1
    <3> QED BY <1>1, <3>1, <3>2
  <2> QED BY <2>1 DEF OutcomeInductive, Following
<1> QED BY <1>3, <1>4 DEF OutcomeInductive

LEMMA BindPlanKeeps ==
  ASSUME OutcomeInductive, Outcome!BindPlan PROVE OutcomeInductive'
<1> USE DEF Outcome!BindPlan
<1>1. OutcomeTypes'
  BY DEF OutcomeInductive, OutcomeTypes, OutcomeTasks
<1>2. PlanFirst'
  BY DEF OutcomeInductive, OutcomeTypes, PlanFirst, OutcomeTasks, OutcomeExecutions
<1>3. plan = 0 /\ task'.revision >= task.revision
  BY DEF OutcomeInductive, OutcomeTypes, OutcomeTasks
<1> QED BY <1>1, <1>2, <1>3, NothingAdded

LEMMA StartKeeps ==
  ASSUME OutcomeInductive, Outcome!Start PROVE OutcomeInductive'
<1>1. OutcomeTypes /\ Following /\ PlanFirst
  BY DEF OutcomeInductive
<1>2. /\ task' = [task EXCEPT !.revision = task.revision + 1, !.state = "RUNNING"]
      /\ execution' = [at |-> task.revision, world |-> world, owner |-> owner, notAfter |-> MaxTime]
      /\ UNCHANGED <<now, world, owner, plan, verifications, results, client, turn>>
      /\ task.state = "READY" /\ turn = "free"
  BY DEF Outcome!Start, Outcome!Moves
<1>3. OutcomeTypes'
  <2>1. task' \in OutcomeTasks
    BY <1>1, <1>2, MovesTyped
  <2>2. execution' \in OutcomeExecutions
    BY <1>1, <1>2 DEF OutcomeTypes, OutcomeTasks, OutcomeExecutions
  <2> QED BY <1>1, <1>2, <2>1, <2>2 DEF OutcomeTypes
<1>4. PlanFirst' /\ task'.revision >= task.revision
  BY <1>1, <1>2 DEF OutcomeTypes, PlanFirst, OutcomeTasks, OutcomeExecutions
<1>5. results = <<>>
  BY <1>1, <1>2 DEF Following
<1> QED BY <1>2, <1>3, <1>4, <1>5, NothingAdded

LEMMA SettleKeeps ==
  ASSUME OutcomeInductive, Outcome!Settle PROVE OutcomeInductive'
<1>1. OutcomeTypes /\ Following /\ PlanFirst
  BY DEF OutcomeInductive
<1>2. PICK state \in {"VERIFYING", "CANCELLED"} :
        task' = [task EXCEPT !.revision = task.revision + 1, !.state = state]
  BY DEF Outcome!Settle, Outcome!Moves
<1>3. /\ UNCHANGED <<now, world, owner, execution, plan, verifications, results, client, turn>>
      /\ task.state \in {"READY", "RUNNING", "VERIFYING"} /\ turn = "free"
  BY DEF Outcome!Settle
<1>4. OutcomeTypes'
  <2>1. task' \in OutcomeTasks
    BY <1>1, <1>2, MovesTyped
  <2> QED BY <1>1, <1>3, <2>1 DEF OutcomeTypes
<1>5. PlanFirst' /\ task'.revision >= task.revision
  BY <1>1, <1>2, <1>3 DEF OutcomeTypes, PlanFirst, OutcomeTasks, OutcomeExecutions
<1>6. results = <<>>
  BY <1>1, <1>3 DEF Following
<1> QED BY <1>3, <1>4, <1>5, <1>6, NothingAdded

LEMMA OutcomeRestartKeeps ==
  ASSUME OutcomeInductive, Outcome!Restart PROVE OutcomeInductive'
<1>1. OutcomeTypes /\ Following /\ PlanFirst
  BY DEF OutcomeInductive
<1>2. /\ UNCHANGED <<now, world, execution, plan, verifications, results, client>>
      /\ turn' = "free" /\ owner' = owner + 1
  BY DEF Outcome!Restart
<1>3. CASE task.state \in {"RUNNING", "VERIFYING"}
  <2>1. task' = [task EXCEPT !.revision = task.revision + 1, !.state = "DONE",
                             !.outcomes = task.outcomes + 1]
    BY <1>3 DEF Outcome!Restart
  <2>2. OutcomeTypes'
    <3>1. task' \in OutcomeTasks
      BY <1>1, <2>1, MovesTyped
    <3> QED BY <1>1, <1>2, <3>1 DEF OutcomeTypes
  <2>3. PlanFirst' /\ task'.revision >= task.revision
    BY <1>1, <1>2, <2>1 DEF OutcomeTypes, PlanFirst, OutcomeTasks, OutcomeExecutions
  <2>4. results = <<>>
    BY <1>1, <1>3 DEF Following
  <2> QED BY <1>2, <2>2, <2>3, <2>4, NothingAdded
<1>4. CASE UNCHANGED task
  <2>1. OutcomeTypes'
    BY <1>1, <1>2, <1>4 DEF OutcomeTypes
  <2>2. PlanFirst' /\ task'.revision >= task.revision
    BY <1>1, <1>2, <1>4 DEF OutcomeTypes, PlanFirst, OutcomeTasks, OutcomeExecutions
  <2> QED BY <1>2, <1>4, <2>1, <2>2, NothingAdded
<1> QED BY <1>3, <1>4 DEF Outcome!Restart

LEMMA TickKeeps ==
  ASSUME OutcomeInductive, Outcome!Tick PROVE OutcomeInductive'
<1> USE DEF Outcome!Tick
<1>1. OutcomeTypes' /\ PlanFirst'
  BY DEF OutcomeInductive, OutcomeTypes, PlanFirst, OutcomeTasks, OutcomeExecutions
<1>2. task'.revision >= task.revision
  BY DEF OutcomeInductive, OutcomeTypes, OutcomeTasks
<1> QED BY <1>1, <1>2, NothingAdded DEF OutcomeInductive, Vouched

\* A step of the clients that writes no row.
LEMMA OnlyClients ==
  ASSUME OutcomeInductive,
         UNCHANGED <<now, world, owner, task, execution, plan, verifications, results>>,
         NEW k \in OutcomeCommands, NEW state,
         state \in Clients,
         client' = [client EXCEPT ![k] = state],
         turn' \in {"free", turn} \/ (turn' = k /\ Outcome!Of(k) # {})
  PROVE  OutcomeInductive'
<1>1. OutcomeTypes /\ Vouched /\ PlanFirst
  BY DEF OutcomeInductive
<1>2. Outcome!Of(k) # {} => \E v \in 1..Len(verifications) : verifications[v].command = k
  BY <1>1 DEF Outcome!Of, OutcomeTypes
<1>3. turn' # "free" => \E v \in 1..Len(verifications) : verifications[v].command = turn'
  BY <1>1, <1>2 DEF Vouched
<1>4. OutcomeTypes'
  BY <1>1 DEF OutcomeTypes
<1>5. PlanFirst' /\ task'.revision >= task.revision
  BY <1>1 DEF OutcomeTypes, PlanFirst, OutcomeTasks, OutcomeExecutions
<1> QED BY <1>3, <1>4, <1>5, NothingAdded

LEMMA SendKeeps ==
  ASSUME OutcomeInductive, NEW k \in OutcomeCommands, Outcome!Send(k) PROVE OutcomeInductive'
<1>1. PICK c \in Judged, says \in Verdicts :
        client' = [client EXCEPT ![k] = [at |-> "sent", revision |-> task.revision,
          outcome |-> task.outcomes, criterion |-> IF k \in Feedbacks THEN c ELSE "none",
          says |-> IF k \in Feedbacks THEN says ELSE "none"]]
  BY DEF Outcome!Send
<1>2. PICK criterion \in Judged \cup {"none"} : criterion = IF k \in Feedbacks THEN c ELSE "none"
  OBVIOUS
<1>3. PICK said \in Verdicts \cup {"none"} : said = IF k \in Feedbacks THEN says ELSE "none"
  OBVIOUS
<1>4. PICK state : state = [at |-> "sent", revision |-> task.revision,
        outcome |-> task.outcomes, criterion |-> criterion, says |-> said]
  OBVIOUS
<1>5. state \in Clients
  BY <1>4, RowsTyped DEF Clients, OutcomeInductive
<1>6. client' = [client EXCEPT ![k] = state]
  BY <1>1, <1>2, <1>3, <1>4
<1>7. UNCHANGED <<now, world, owner, task, execution, plan, verifications, results, turn>>
  BY DEF Outcome!Send
<1> QED BY <1>5, <1>6, <1>7, OnlyClients

\* The client of a command is told the end of a request, or is told nothing.
LEMMA ClientIsTold ==
  ASSUME OutcomeTypes, NEW k \in OutcomeCommands, NEW at \in {"sent", "refused", "done"},
         client' = [client EXCEPT ![k].at = at]
  PROVE  \E state \in Clients : client' = [client EXCEPT ![k] = state]
<1>1. PICK state : state = [client[k] EXCEPT !.at = at]
  OBVIOUS
<1>2. client \in [OutcomeCommands -> Clients]
  BY DEF OutcomeTypes
<1>3. state \in Clients
  BY <1>1, <1>2 DEF Clients
<1>4. client' = [client EXCEPT ![k] = state]
  BY <1>1, <1>2
<1> QED BY <1>3, <1>4

LEMMA ClientIsNotTold ==
  ASSUME OutcomeTypes, NEW k \in OutcomeCommands, UNCHANGED client
  PROVE  \E state \in Clients : client' = [client EXCEPT ![k] = state]
<1>1. client \in [OutcomeCommands -> Clients]
  BY DEF OutcomeTypes
<1> QED BY <1>1

LEMMA PrepareAgainKeeps ==
  ASSUME OutcomeInductive, NEW k \in OutcomeCommands, Outcome!PrepareAgain(k)
  PROVE  OutcomeInductive'
<1>1. OutcomeTypes
  BY DEF OutcomeInductive
<1>2. /\ UNCHANGED <<now, world, owner, task, execution, plan, verifications, results>>
      /\ Outcome!Of(k) # {}
      /\ \/ UNCHANGED turn /\ \E at \in {"refused", "done"} : client' = [client EXCEPT ![k].at = at]
         \/ turn' = k /\ UNCHANGED client
  BY DEF Outcome!PrepareAgain
<1>3. PICK state \in Clients : client' = [client EXCEPT ![k] = state]
  BY <1>1, <1>2, ClientIsTold, ClientIsNotTold
<1> QED BY <1>2, <1>3, OnlyClients

LEMMA FailKeeps ==
  ASSUME OutcomeInductive, NEW k \in OutcomeCommands, Outcome!Fail(k) PROVE OutcomeInductive'
<1>1. OutcomeTypes
  BY DEF OutcomeInductive
<1>2. /\ UNCHANGED <<now, world, owner, task, execution, plan, verifications, results>>
      /\ turn' \in {"free", turn}
      /\ \/ UNCHANGED client
         \/ client' = [client EXCEPT ![k].at = "sent"]
  BY DEF Outcome!Fail
<1>3. PICK state \in Clients : client' = [client EXCEPT ![k] = state]
  BY <1>1, <1>2, ClientIsTold, ClientIsNotTold
<1> QED BY <1>2, <1>3, OnlyClients

\* A verification is added, prepared on the last result at the task's revision.
LEMMA VerificationAdded ==
  ASSUME OutcomeInductive, NEW v \in Prepared, Outcome!Of(v.command) = {},
         v.revision = task.revision, v.previous = Len(results), plan # 0,
         v.command \notin VerifyCommands => results # <<>>,
         verifications' = Append(verifications, v), turn' = v.command,
         UNCHANGED <<now, world, owner, task, execution, plan, results, client>>
  PROVE  OutcomeInductive'
<1> DEFINE n == Len(verifications)
<1>1. OutcomeTypes /\ Vouched /\ Following /\ PlanFirst
  BY DEF OutcomeInductive
<1>2. /\ n \in Nat /\ verifications \in Seq(Prepared) /\ results \in Seq(Results)
      /\ task.revision \in Nat
  BY <1>1, RowsTyped DEF OutcomeTypes
<1>3. /\ verifications' \in Seq(Prepared) /\ Len(verifications') = n + 1
      /\ verifications'[n + 1] = v
      /\ \A w \in 1..n : verifications'[w] = verifications[w]
  BY <1>2
<1>4. \A w \in 1..n : verifications[w].command # v.command
  BY <1>2 DEF Outcome!Of
<1>5. v.command \in OutcomeCommands
  BY DEF Prepared
<1>6. OutcomeTypes'
  BY <1>1, <1>3, <1>5 DEF OutcomeTypes
<1>7. v.command \notin VerifyCommands => v.previous # 0
  BY <1>2
<1>8. Vouched'
  <2>1. ASSUME NEW w \in 1..(n + 1)
        PROVE  /\ verifications'[w].revision <= task.revision
               /\ verifications'[w].revision = task.revision =>
                    verifications'[w].previous = Len(results)
               /\ verifications'[w].command \notin VerifyCommands => verifications'[w].previous # 0
    <3>1. CASE w \in 1..n
      BY <1>1, <1>3, <3>1 DEF Vouched
    <3>2. CASE w = n + 1
      BY <1>2, <1>3, <1>7, <3>2
    <3> QED BY <1>2, <3>1, <3>2
  <2>2. ASSUME NEW w \in 1..(n + 1), NEW u \in 1..(n + 1),
               verifications'[w].command = verifications'[u].command
        PROVE  w = u
    <3>1. CASE w \in 1..n /\ u \in 1..n
      BY <1>1, <1>3, <2>2, <3>1 DEF Vouched
    <3>2. CASE w = n + 1 \/ u = n + 1
      BY <1>2, <1>3, <1>4, <2>2, <3>2
    <3> QED BY <1>2, <3>1, <3>2
  <2>3. \E w \in 1..(n + 1) : verifications'[w].command = turn'
    BY <1>2, <1>3
  <2> QED BY <1>3, <2>1, <2>2, <2>3 DEF Vouched
<1>9. Following'
  <2>1. ASSUME NEW r \in 1..Len(results)
        PROVE  /\ results[r].verification \in 1..(n + 1)
               /\ verifications'[results[r].verification] = verifications[results[r].verification]
    <3>1. results[r].verification \in 1..n
      BY <1>1 DEF Following
    <3> QED BY <1>2, <1>3, <3>1
  <2> QED BY <1>1, <1>3, <2>1 DEF Following
<1>10. PlanFirst'
  BY <1>1 DEF PlanFirst
<1> QED BY <1>6, <1>8, <1>9, <1>10 DEF OutcomeInductive

LEMMA PrepareKeeps ==
  ASSUME OutcomeInductive, NEW k \in OutcomeCommands, Outcome!Prepare(k) PROVE OutcomeInductive'
<1>1. OutcomeTypes
  BY DEF OutcomeInductive
<1>2. /\ UNCHANGED <<now, world, owner, task, execution, plan, results>>
      /\ Outcome!Of(k) = {}
  BY DEF Outcome!Prepare
<1>3. CASE Outcome!MayPrepare(k)
  <2>1. PICK v : v = [command |-> k, revision |-> task.revision, owner |-> owner, world |-> world,
                      notAfter |-> Outcome!NotAfter(k), previous |-> Len(results), gone |-> FALSE]
    OBVIOUS
  <2>2. verifications' = Append(verifications, v) /\ turn' = k /\ UNCHANGED client
    BY <1>3, <2>1 DEF Outcome!Prepare
  <2>3. Outcome!NotAfter(k) \in Nat
    <3>1. now \in Nat /\ Ttl \in Nat /\ execution \in OutcomeExecutions
      BY <1>1 DEF OutcomeTypes
    <3>2. now + Ttl \in Nat /\ execution.notAfter \in Nat
      BY <3>1 DEF OutcomeExecutions
    <3> QED BY <3>2 DEF Outcome!NotAfter
  <2>4. v \in Prepared
    <3>1. task.revision \in Nat /\ Len(results) \in Nat /\ owner \in Nat /\ world \in Nat
      BY <1>1, RowsTyped DEF OutcomeTypes
    <3> QED BY <2>1, <2>3, <3>1 DEF Prepared
  <2>5. plan # 0 /\ (k \notin VerifyCommands => results # <<>>)
    BY <1>3 DEF Outcome!MayPrepare, OutcomeCommands
  <2> QED BY <1>2, <2>1, <2>2, <2>4, <2>5, VerificationAdded
<1>4. CASE ~Outcome!MayPrepare(k)
  <2>1. client' = [client EXCEPT ![k].at = "refused"] /\ UNCHANGED <<verifications, turn>>
    BY <1>4 DEF Outcome!Prepare
  <2>2. PICK state \in Clients : client' = [client EXCEPT ![k] = state]
    BY <1>1, <2>1, ClientIsTold
  <2> QED BY <1>2, <2>1, <2>2, OnlyClients
<1> QED BY <1>3, <1>4

LEMMA SequenceOf ==
  ASSUME NEW S, NEW n \in Nat, NEW s, DOMAIN s = 1..n, s = [k \in 1..n |-> s[k]],
         \A k \in 1..n : s[k] \in S
  PROVE  s \in Seq(S) /\ Len(s) = n
<1>1. s \in [1..n -> S]
  OBVIOUS
<1> QED BY <1>1

LEMMA ChangeWorldKeeps ==
  ASSUME OutcomeInductive, Outcome!ChangeWorld PROVE OutcomeInductive'
<1> DEFINE n == Len(verifications)
           m == Len(results)
<1>1. OutcomeTypes /\ Vouched /\ Following /\ PlanFirst
  BY DEF OutcomeInductive
<1>2. /\ UNCHANGED <<now, owner, task, execution, plan, client, turn>> /\ turn = "free"
      /\ world' = world + 1
  BY DEF Outcome!ChangeWorld
<1>3. PICK gone \in BOOLEAN :
        /\ verifications' = [v \in DOMAIN verifications |->
             [verifications[v] EXCEPT !.gone = verifications[v].gone \/ gone]]
        /\ results' = [r \in DOMAIN results |->
             [results[r] EXCEPT !.gone = results[r].gone \/ gone]]
  BY DEF Outcome!ChangeWorld
<1>4. /\ verifications \in Seq(Prepared) /\ results \in Seq(Results)
      /\ DOMAIN verifications = 1..n /\ DOMAIN results = 1..m /\ n \in Nat /\ m \in Nat
  BY <1>1 DEF OutcomeTypes
<1>5. ASSUME NEW v \in 1..n
      PROVE  /\ verifications'[v] \in Prepared
             /\ verifications'[v].revision = verifications[v].revision
             /\ verifications'[v].previous = verifications[v].previous
             /\ verifications'[v].command = verifications[v].command
             /\ verifications'[v].world = verifications[v].world
  <2>1. PICK g \in BOOLEAN : verifications'[v] = [verifications[v] EXCEPT !.gone = g]
    BY <1>3, <1>4
  <2>2. verifications[v] \in Prepared
    BY <1>4
  <2> QED BY <2>1, <2>2 DEF Prepared
<1>6. ASSUME NEW r \in 1..m
      PROVE  /\ results'[r] \in Results
             /\ results'[r].verification = results[r].verification
             /\ results'[r].outcome = results[r].outcome
             /\ results'[r].observations = results[r].observations
  <2>1. PICK g \in BOOLEAN : results'[r] = [results[r] EXCEPT !.gone = g]
    BY <1>3, <1>4
  <2>2. results[r] \in Results
    BY <1>4
  <2> QED BY <2>1, <2>2 DEF Results
<1>7. /\ DOMAIN verifications' = 1..n /\ DOMAIN results' = 1..m
      /\ verifications' = [v \in 1..n |-> verifications'[v]]
      /\ results' = [r \in 1..m |-> results'[r]]
  BY <1>3, <1>4
<1>8. /\ verifications' \in Seq(Prepared) /\ Len(verifications') = n
      /\ results' \in Seq(Results) /\ Len(results') = m
  <2>1. PICK s : s = verifications'
    OBVIOUS
  <2>2. s \in Seq(Prepared) /\ Len(s) = n
    BY <1>4, <1>5, <1>7, <2>1, SequenceOf
  <2>3. PICK t : t = results'
    OBVIOUS
  <2>4. t \in Seq(Results) /\ Len(t) = m
    BY <1>4, <1>6, <1>7, <2>3, SequenceOf
  <2> QED BY <2>1, <2>2, <2>3, <2>4
<1>9. OutcomeTypes'
  BY <1>1, <1>2, <1>8 DEF OutcomeTypes
<1>10. Vouched'
  BY <1>1, <1>2, <1>5, <1>8 DEF Vouched
<1>11. Following'
  <2>1. ASSUME NEW r \in 1..m
        PROVE  LET v == results[r].verification IN
               /\ v \in 1..n
               /\ verifications'[v].previous = r - 1 /\ verifications'[v].revision < task.revision
               /\ \A c \in Checked \cup Judged :
                    results[r].observations[c].status # "unknown" =>
                      results[r].observations[c].world = verifications'[v].world
    <3>1. PICK v : v = results[r].verification
      OBVIOUS
    <3>2. /\ v \in 1..n
          /\ verifications[v].previous = r - 1 /\ verifications[v].revision < task.revision
          /\ \A c \in Checked \cup Judged :
               results[r].observations[c].status # "unknown" =>
                 results[r].observations[c].world = verifications[v].world
      BY <1>1, <3>1 DEF Following
    <3> QED BY <1>5, <3>1, <3>2
  <2>2. results' # <<>> =>
          /\ results'[m].outcome = task.outcomes /\ task.state \in {"DONE", "CANCELLED"}
    <3> SUFFICES ASSUME results' # <<>>
                 PROVE  results'[m].outcome = task.outcomes /\ task.state \in {"DONE", "CANCELLED"}
      OBVIOUS
    <3>1. m \in 1..m /\ results # <<>>
      BY <1>4, <1>8
    <3> QED BY <1>1, <1>6, <3>1 DEF Following
  <2> QED BY <1>2, <1>6, <1>8, <2>1, <2>2 DEF Following
<1>12. PlanFirst'
  BY <1>1, <1>2 DEF PlanFirst
<1> QED BY <1>9, <1>10, <1>11, <1>12 DEF OutcomeInductive

-----------------------------------------------------------------------------
(* The commit.                                                             *)

\* The verification of the command in progress, and what the guard found of it.
LEMMA Guarded ==
  ASSUME OutcomeInductive, NEW k \in OutcomeCommands, turn = k, NEW v,
         v = Outcome!VerificationOf(k)
  PROVE  /\ v \in 1..Len(verifications) /\ verifications[v] \in Prepared
         /\ verifications[v].command = k
<1>1. OutcomeTypes /\ Vouched
  BY DEF OutcomeInductive
<1>2. k # "free"
  BY DEF OutcomeCommands
<1>3. PICK w \in 1..Len(verifications) : verifications[w].command = k
  BY <1>1, <1>2 DEF Vouched
<1>4. verifications \in Seq(Prepared)
  BY <1>1 DEF OutcomeTypes
<1>5. w \in Outcome!Of(k)
  BY <1>3, <1>4 DEF Outcome!Of
<1>6. v \in Outcome!Of(k)
  BY <1>5 DEF Outcome!VerificationOf
<1> QED BY <1>4, <1>6 DEF Outcome!Of

\* What is observed of a criterion, if it is a verdict, was found in the present world and has
\* not expired.
LEMMA ObservedNow ==
  ASSUME OutcomeInductive, NEW k \in OutcomeCommands, turn = k, NEW v,
         v = Outcome!VerificationOf(k), Outcome!Guard(k, v),
         NEW c \in Checked \cup Judged, NEW read \in [Checked -> Verdicts \cup {"unknown"}],
         NEW o, o = Outcome!Observation(k, v, c, read)
  PROVE  /\ o \in Seen
         /\ o.status # "unknown" => o.world = world /\ o.notAfter > now
<1>1. /\ v \in 1..Len(verifications) /\ verifications[v] \in Prepared
      /\ verifications[v].command = k
  BY Guarded
<1>2. /\ verifications[v].world = world /\ now < verifications[v].notAfter
      /\ task.revision = verifications[v].revision
  BY DEF Outcome!Guard, Outcome!AvailableSources
<1>3. OutcomeTypes /\ Vouched /\ Following
  BY DEF OutcomeInductive
<1>4. world \in Nat /\ now \in Nat /\ verifications[v].notAfter \in Nat
  BY <1>1, <1>3 DEF OutcomeTypes, Prepared
<1>5. ASSUME NEW status \in Statuses
      PROVE  /\ Outcome!Observed(status, v) \in Seen
             /\ Outcome!Observed(status, v).world = world
             /\ Outcome!Observed(status, v).notAfter > now
  BY <1>2, <1>4 DEF Outcome!Observed, Seen
<1>6. CASE k \in VerifyCommands
  <2>1. PICK status \in Statuses : o = Outcome!Observed(status, v)
    <3>1. CASE c \in Judged \/ task.state = "CANCELLED"
      BY <1>6, <3>1 DEF Outcome!Observation, Statuses
    <3>2. CASE ~(c \in Judged \/ task.state = "CANCELLED")
      <4>1. read[c] \in Statuses
        BY <3>2 DEF Statuses
      <4> QED BY <1>6, <3>2, <4>1 DEF Outcome!Observation
    <3> QED BY <3>1, <3>2
  <2> QED BY <1>5, <2>1
<1>7. CASE k \notin VerifyCommands
  <2>1. CASE c = client[k].criterion
    <3>1. client[k].says \in Statuses
      BY <1>3 DEF OutcomeTypes, Clients, Statuses
    <3>2. o = Outcome!Observed(client[k].says, v)
      BY <1>7, <2>1 DEF Outcome!Observation
    <3> QED BY <1>5, <3>1, <3>2
  <2>2. CASE c # client[k].criterion /\ Outcome!Carried(verifications[v].previous, c)
    <3>1. PICK p : p = verifications[v].previous
      OBVIOUS
    <3>2. p = Len(results) /\ p # 0
      BY <1>1, <1>2, <1>3, <1>7, <3>1 DEF Vouched
    <3>3. p \in 1..Len(results) /\ results[p] \in Results
      BY <1>3, <3>2, RowsTyped
    <3>4. o = results[p].observations[c]
      BY <1>7, <2>2, <3>1 DEF Outcome!Observation
    <3>5. o \in Seen
      BY <3>3, <3>4 DEF Results
    <3>6. verifications[results[p].verification].world = world /\ o.notAfter > now
      BY <2>2, <3>1, <3>4 DEF Outcome!Carried, Outcome!AvailableSources
    <3>7. o.status # "unknown" => o.world = verifications[results[p].verification].world
      BY <1>3, <3>3, <3>4 DEF Following
    <3> QED BY <3>5, <3>6, <3>7
  <2>3. CASE c # client[k].criterion /\ ~Outcome!Carried(verifications[v].previous, c)
    <3>1. o = Outcome!Observed("unknown", v)
      BY <1>7, <2>3 DEF Outcome!Observation
    <3> QED BY <1>5, <3>1 DEF Statuses
  <2> QED BY <2>1, <2>2, <2>3
<1> QED BY <1>6, <1>7

LEMMA ResultAdded ==
  ASSUME OutcomeInductive, NEW v \in 1..Len(verifications), NEW result \in Results,
         verifications[v].revision = task.revision,
         result.verification = v, result.outcome = task.outcomes + 1,
         \A c \in Checked \cup Judged : result.observations[c].status # "unknown" =>
           result.observations[c].world = verifications[v].world,
         results' = Append(results, result),
         NEW state \in {"DONE", "CANCELLED"},
         task' = [task EXCEPT !.revision = task.revision + 1, !.state = state,
                              !.outcomes = task.outcomes + 1],
         NEW k \in OutcomeCommands, client' = [client EXCEPT ![k].at = "done"],
         turn' = "free", UNCHANGED <<now, world, owner, execution, plan, verifications>>
  PROVE  OutcomeInductive'
<1> DEFINE m == Len(results)
<1>1. OutcomeTypes /\ Vouched /\ Following /\ PlanFirst
  BY DEF OutcomeInductive
<1>2. /\ results \in Seq(Results) /\ m \in Nat /\ Len(verifications) \in Nat
      /\ task.revision \in Nat /\ task.outcomes \in Nat
      /\ \A w \in 1..Len(verifications) : verifications[w].revision \in Nat
  BY <1>1, RowsTyped DEF OutcomeTypes
<1>3. /\ results' \in Seq(Results) /\ Len(results') = m + 1 /\ results'[m + 1] = result
      /\ \A r \in 1..m : results'[r] = results[r]
  BY <1>2
<1>4. task' \in OutcomeTasks
  BY <1>1, MovesTyped
<1>5. /\ task'.revision = task.revision + 1 /\ task'.outcomes = task.outcomes + 1
      /\ task'.state = state
  <2>1. task \in OutcomeTasks
    BY <1>1 DEF OutcomeTypes
  <2> QED BY <2>1 DEF OutcomeTasks
<1>6. client' \in [OutcomeCommands -> Clients]
  <2>1. PICK told \in Clients : client' = [client EXCEPT ![k] = told]
    BY <1>1, ClientIsTold
  <2> QED BY <1>1, <2>1 DEF OutcomeTypes
<1>7. OutcomeTypes'
  BY <1>1, <1>3, <1>4, <1>6 DEF OutcomeTypes
<1>8. \A w \in 1..Len(verifications) : verifications[w].revision < task'.revision
  BY <1>1, <1>2, <1>5 DEF Vouched
<1>9. Vouched'
  <2>1. \A w \in 1..Len(verifications) :
          /\ verifications[w].revision <= task'.revision
          /\ verifications[w].revision # task'.revision
    BY <1>2, <1>5, <1>8
  <2> QED BY <1>1, <2>1 DEF Vouched
<1>10. Following'
  <2>1. ASSUME NEW r \in 1..(m + 1), NEW w, w = results'[r].verification
        PROVE  /\ w \in 1..Len(verifications)
               /\ verifications[w].previous = r - 1 /\ verifications[w].revision < task'.revision
               /\ \A c \in Checked \cup Judged :
                    results'[r].observations[c].status # "unknown" =>
                      results'[r].observations[c].world = verifications[w].world
    <3>1. CASE r \in 1..m
      BY <1>1, <1>3, <1>8, <2>1, <3>1 DEF Following
    <3>2. CASE r = m + 1
      <4>1. verifications[v].previous = m
        BY <1>1 DEF Vouched
      <4>2. r - 1 = m /\ results'[r] = result
        BY <1>2, <1>3, <3>2
      <4>3. w = v
        BY <2>1, <4>2
      <4>4. verifications[v].previous = r - 1 /\ verifications[v].revision < task'.revision
        BY <1>8, <4>1, <4>2
      <4>5. \A c \in Checked \cup Judged :
              results'[r].observations[c].status # "unknown" =>
                results'[r].observations[c].world = verifications[v].world
        BY <4>2
      <4> QED BY <4>3, <4>4, <4>5
    <3> QED BY <1>2, <3>1, <3>2
  <2>2. results'[m + 1].outcome = task'.outcomes /\ task'.state \in {"DONE", "CANCELLED"}
    BY <1>3, <1>5
  <2> QED BY <1>3, <2>1, <2>2 DEF Following
<1>11. PlanFirst'
  BY <1>1, <1>2, <1>5 DEF PlanFirst, OutcomeTypes
<1> QED BY <1>7, <1>9, <1>10, <1>11 DEF OutcomeInductive

\* A commit adds the result its verification was prepared for, of verdicts that hold now.
LEMMA CommitKeeps ==
  ASSUME OutcomeInductive, NEW k \in OutcomeCommands, Outcome!Commit(k)
  PROVE  /\ OutcomeInductive'
         /\ Len(results') > Len(results) =>
              \A c \in Checked \cup Judged :
                LET o == results'[Len(results')].observations[c] IN
                o.status # "unknown" => o.world = world /\ o.notAfter > now
<1>1. OutcomeTypes /\ Vouched
  BY DEF OutcomeInductive
<1>2. PICK v : v = Outcome!VerificationOf(k)
  OBVIOUS
<1>3. turn = k /\ turn' = "free" /\ UNCHANGED <<now, world, owner, execution, plan, verifications>>
  BY DEF Outcome!Commit
<1>4. /\ v \in 1..Len(verifications) /\ verifications[v] \in Prepared
      /\ verifications[v].command = k
  BY <1>2, <1>3, Guarded
<1>5. CASE Outcome!Guard(k, v)
  <2>1. PICK read \in [Checked -> Verdicts \cup {"unknown"}] :
          /\ results' = Append(results,
               [verification |-> v, outcome |-> task.outcomes + 1, gone |-> FALSE,
                observations |-> [c \in Checked \cup Judged |->
                                    Outcome!Observation(k, v, c, read)]])
          /\ task' = [task EXCEPT !.revision = task.revision + 1, !.outcomes = task.outcomes + 1,
               !.state = IF task.state = "CANCELLED" THEN task.state ELSE "DONE"]
          /\ client' = [client EXCEPT ![k].at = "done"]
    BY <1>2, <1>5 DEF Outcome!Commit, Outcome!Criteria
  <2>2. ASSUME NEW c \in Checked \cup Judged
        PROVE  /\ Outcome!Observation(k, v, c, read) \in Seen
               /\ Outcome!Observation(k, v, c, read).status # "unknown" =>
                    /\ Outcome!Observation(k, v, c, read).world = world
                    /\ Outcome!Observation(k, v, c, read).notAfter > now
    BY <1>2, <1>3, <1>5, <2>1, ObservedNow
  <2>3. PICK seen : seen = [c \in Checked \cup Judged |-> Outcome!Observation(k, v, c, read)]
    OBVIOUS
  <2>4. /\ seen \in [Checked \cup Judged -> Seen]
        /\ \A c \in Checked \cup Judged :
             seen[c].status # "unknown" => seen[c].world = world /\ seen[c].notAfter > now
    BY <2>2, <2>3
  <2>5. PICK result : result = [verification |-> v, outcome |-> task.outcomes + 1,
                                gone |-> FALSE, observations |-> seen]
    OBVIOUS
  <2>6. /\ result \in Results /\ result.verification = v /\ result.outcome = task.outcomes + 1
        /\ result.observations = seen
    <3>1. v \in Nat /\ task.outcomes + 1 \in Nat
      BY <1>1, <1>4, RowsTyped
    <3> QED BY <2>4, <2>5, <3>1 DEF Results
  <2>7. results' = Append(results, result)
    BY <2>1, <2>3, <2>5
  <2>8. PICK state \in {"DONE", "CANCELLED"} :
          state = IF task.state = "CANCELLED" THEN task.state ELSE "DONE"
    OBVIOUS
  <2>9. task' = [task EXCEPT !.revision = task.revision + 1, !.state = state,
                             !.outcomes = task.outcomes + 1]
    BY <2>1, <2>8
  <2>10. verifications[v].revision = task.revision /\ verifications[v].world = world
    BY <1>5 DEF Outcome!Guard, Outcome!AvailableSources
  <2>11. OutcomeInductive'
    <3>1. \A c \in Checked \cup Judged : result.observations[c].status # "unknown" =>
            result.observations[c].world = verifications[v].world
      BY <2>4, <2>6, <2>10
    <3>2. client' = [client EXCEPT ![k].at = "done"]
      BY <2>1
    <3> QED BY <1>3, <1>4, <2>6, <2>7, <2>8, <2>9, <2>10, <3>1, <3>2, ResultAdded
  <2>12. results'[Len(results')].observations = seen
    <3>1. results \in Seq(Results)
      BY <1>1 DEF OutcomeTypes
    <3> QED BY <2>6, <2>7, <3>1
  <2> QED BY <2>4, <2>11, <2>12
<1>6. CASE ~Outcome!Guard(k, v)
  <2>1. client' = [client EXCEPT ![k].at = "refused"] /\ UNCHANGED <<results, task>>
    BY <1>2, <1>6 DEF Outcome!Commit
  <2>2. PICK state \in Clients : client' = [client EXCEPT ![k] = state]
    BY <1>1, <2>1, ClientIsTold
  <2>3. OutcomeInductive'
    BY <1>3, <2>1, <2>2, OnlyClients
  <2>4. ~(Len(results') > Len(results))
    BY <1>1, <2>1, RowsTyped
  <2> QED BY <2>3, <2>4
<1> QED BY <1>5, <1>6

-----------------------------------------------------------------------------
(* Every step, and what it means.                                          *)

LEMMA OutcomeStep ==
  ASSUME OutcomeInductive, Outcome!Next PROVE OutcomeInductive' /\ Outcome!VerdictsAreCurrent
<1>1. ASSUME NEW k \in OutcomeCommands, Outcome!Commit(k)
      PROVE  OutcomeInductive' /\ Outcome!VerdictsAreCurrent
  BY <1>1, CommitKeeps DEF Outcome!VerdictsAreCurrent, Outcome!Criteria
<1>2. ASSUME NEW k \in OutcomeCommands,
             Outcome!Send(k) \/ Outcome!Prepare(k) \/ Outcome!PrepareAgain(k) \/ Outcome!Fail(k)
      PROVE  OutcomeInductive' /\ UNCHANGED results
  <2>1. OutcomeInductive'
    BY <1>2, SendKeeps, PrepareKeeps, PrepareAgainKeeps, FailKeeps
  <2>2. UNCHANGED results
    BY <1>2 DEF Outcome!Send, Outcome!Prepare, Outcome!PrepareAgain, Outcome!Fail
  <2> QED BY <2>1, <2>2
<1>3. ASSUME Outcome!BindPlan \/ Outcome!Start \/ Outcome!Settle \/ Outcome!Restart \/ Outcome!Tick
      PROVE  OutcomeInductive' /\ UNCHANGED results
  <2>1. OutcomeInductive'
    BY <1>3, BindPlanKeeps, StartKeeps, SettleKeeps, OutcomeRestartKeeps, TickKeeps
  <2>2. UNCHANGED results
    BY <1>3 DEF Outcome!BindPlan, Outcome!Start, Outcome!Settle, Outcome!Restart, Outcome!Tick
  <2> QED BY <2>1, <2>2
<1>4. ASSUME Outcome!ChangeWorld PROVE OutcomeInductive' /\ Len(results') = Len(results)
  <2>1. /\ results \in Seq(Results) /\ results' \in Seq(Results)
        /\ DOMAIN results' = DOMAIN results
    BY <1>4, ChangeWorldKeeps DEF OutcomeInductive, OutcomeTypes, Outcome!ChangeWorld
  <2> QED BY <1>4, <2>1, ChangeWorldKeeps
<1>5. Len(results) \in Nat
  BY RowsTyped DEF OutcomeInductive
<1>6. UNCHANGED results \/ Len(results') = Len(results) => Outcome!VerdictsAreCurrent
  BY <1>5 DEF Outcome!VerdictsAreCurrent
<1> QED BY <1>1, <1>2, <1>3, <1>4, <1>6 DEF Outcome!Next, OutcomeCommands, Outcome!Commands

LEMMA OutcomeMeans == ASSUME OutcomeInductive PROVE Outcome!VerificationsStand
<1>1. OutcomeTypes /\ Vouched /\ Following /\ PlanFirst
  BY DEF OutcomeInductive
<1>2. /\ DOMAIN results = 1..Len(results) /\ DOMAIN verifications = 1..Len(verifications)
      /\ Len(results) \in Nat
  BY <1>1 DEF OutcomeTypes
<1>3. ASSUME NEW r \in DOMAIN results
      PROVE  /\ verifications[results[r].verification].previous = r - 1
             /\ Outcome!ResultOf(results[r].verification) = {r}
  <2>1. \A q \in 1..Len(results) : verifications[results[q].verification].previous = q - 1
    BY <1>1 DEF Following
  <2>2. \A q \in 1..Len(results) : results[q].verification = results[r].verification => q = r
    BY <1>2, <2>1
  <2> QED BY <1>2, <2>1, <2>2 DEF Outcome!ResultOf
<1>4. ASSUME NEW k \in Outcome!Commands, NEW v \in Outcome!Of(k), NEW w \in Outcome!Of(k)
      PROVE  v = w
  BY <1>1, <1>2 DEF Outcome!Of, Vouched
<1>5. results # <<>> => results[Len(results)].outcome = task.outcomes
  BY <1>1 DEF Following
<1>6. Outcome!PlannedFirst
  <2> SUFFICES ASSUME results # <<>>
               PROVE  plan # 0 /\ (execution # Outcome!NoExecution => plan <= execution.at)
    BY DEF Outcome!PlannedFirst
  <2>1. 1 \in 1..Len(results)
    BY <1>1, <1>2 DEF OutcomeTypes
  <2>2. results[1].verification \in 1..Len(verifications)
    BY <1>1, <2>1 DEF Following
  <2> QED BY <1>1, <2>2 DEF Vouched, PlanFirst
<1> QED BY <1>3, <1>4, <1>5, <1>6 DEF Outcome!VerificationsStand, Outcome!ResultsFollow

LEMMA OutcomeInvariance == MCSpec => [](IsOutcome => OutcomeInductive)
<1>1. MCInit => (IsOutcome => OutcomeInductive)
  BY OutcomeStarts DEF MCInit, IsStore, IsHarness, IsPage, IsOutcome
<1>2. (IsOutcome => OutcomeInductive)
        /\ [MCNext]_<<part, vars, harnessVars, pageVars, outcomeVars>>
        => (IsOutcome => OutcomeInductive)'
  <2> SUFFICES ASSUME IsOutcome => OutcomeInductive,
                      [MCNext]_<<part, vars, harnessVars, pageVars, outcomeVars>>, IsOutcome'
               PROVE  OutcomeInductive'
    OBVIOUS
  <2>1. IsOutcome
    BY DEF IsOutcome, MCNext
  <2>2. CASE Outcome!Next
    BY <2>1, <2>2, OutcomeStep
  <2>3. CASE UNCHANGED outcomeVars
    BY <2>1, <2>3 DEF outcomeVars, OutcomeInductive, OutcomeTypes, Vouched, Following, PlanFirst
  <2> QED BY <2>2, <2>3 DEF MCNext
<1> QED BY <1>1, <1>2, PTL DEF MCSpec

\* Retries, failures, restarts, lost answers and late feedback neither repeat nor lose a result:
\* each follows the one before it, is the only one of its command, and was planned before the
\* work began (outcome-store-v1.ts).
THEOREM ResultsStand == MCSpec => []VerificationsStand
<1>1. (IsOutcome => OutcomeInductive) => VerificationsStand
  BY OutcomeMeans DEF VerificationsStand
<1> QED BY <1>1, OutcomeInvariance, PTL

\* However often feedback carries a verdict over, it enters a result only in the world in
\* which it was found and before it expires (outcome-store-v1.ts:229).
THEOREM VerdictsHoldNow == MCSpec => VerdictsAreCurrent
<1>1. (IsOutcome => OutcomeInductive)
        /\ [MCNext]_<<part, vars, harnessVars, pageVars, outcomeVars>>
        => [IsOutcome => Outcome!VerdictsAreCurrent]_outcomeVars
  <2> SUFFICES ASSUME IsOutcome, OutcomeInductive,
                      [MCNext]_<<part, vars, harnessVars, pageVars, outcomeVars>>
               PROVE  Outcome!VerdictsAreCurrent \/ UNCHANGED outcomeVars
    OBVIOUS
  <2>1. CASE Outcome!Next
    BY <2>1, OutcomeStep
  <2>2. CASE UNCHANGED outcomeVars
    BY <2>2
  <2> QED BY <2>1, <2>2 DEF MCNext, IsOutcome, IsStore, IsHarness, IsPage
<1> QED BY <1>1, OutcomeInvariance, PTL DEF MCSpec, VerdictsAreCurrent

-----------------------------------------------------------------------------
(* The page.  A read that may still be published was served after the last *)
(* commit the user saw confirmed, whatever the page did since it began;    *)
(* and the first attempt of a write is the only one of its command, so its *)
(* refusal leaves nothing of the command behind.                           *)

Read == 0..(PageRevisions + 1)
Steps == {"none", "pairing", "refresh", "context", "select", "look", "writing"}
Reads == [step : Steps, valid : BOOLEAN, served : Read]
Views ==
  [connection : {"permission", "pairing", "connected", "disconnected"},
   shown : [Page!Facets -> Read], cursor : BOOLEAN]
Watchers == {"none", "streaming", "ended", "superseded"}
Opened == {"streaming", "superseded"}
WriteRecords ==
  [status : {"idle", "sending", "unknown", "confirmed", "received", "rejected"},
   command : PageCommands \cup {"none"}, pending : BOOLEAN, retrying : BOOLEAN, tries : Nat]
Writes == {w \in WriteRecords : w.status = "idle" \/ w.command \in PageCommands}
PageTypes ==
  /\ revision \in 0..PageRevisions /\ confirmed \in 0..PageRevisions
  /\ committed \in [PageCommands -> 0..revision]
  /\ requests \subseteq [command : PageCommands, try : Nat]
  /\ reply \in {"none", "success", "rejected"}
  /\ view \in Views /\ write \in Writes
  /\ operations \in [Page!Callers -> Reads]
  /\ watcher \in Watchers
\* A write is answered to whoever waits for it, and its first attempt is the only one of its
\* command: refused, it leaves none on its way and nothing committed.
Answered ==
  /\ reply # "none" => operations["user"].step = "writing"
  /\ write.status = "sending" => operations["user"].step = "writing"
  /\ write.status = "sending" /\ ~write.retrying =>
       /\ write.tries = 1
       /\ \A r \in requests : r.command = write.command =>
            r.try = 1 /\ reply = "none" /\ committed[write.command] = 0
       /\ reply = "rejected" => Page!Unsent(write.command)
  /\ write.status = "rejected" => Page!Unsent(write.command)
\* What a read may still publish was served after the last commit seen confirmed.
Served ==
  /\ confirmed <= revision
  /\ \A c \in Page!Callers : operations[c].valid /\ operations[c].served # Page!None =>
       operations[c].served >= confirmed
Followed == watcher \in Opened \/ \E c \in Page!Callers : Page!Underway(c)
\* Nothing shown is older than that; only the snapshot is promised to be followed.
Shown ==
  /\ \A f \in Page!Facets : view.shown[f] # Page!None => view.shown[f] >= confirmed
  /\ view.shown["snapshot"] # Page!None =>
       view.cursor /\ view.connection = "connected" /\ Followed
PageInductive == PageTypes /\ Answered /\ Served /\ Shown

HIDE OutcomeAssumption
USE PageAssumption

LEMMA ReadsTyped ==
  /\ Page!None \in Read /\ Page!Idle \in Reads /\ Page!Idle.step = "none"
  /\ Page!Idle.served = Page!None /\ Page!Idle.valid = FALSE
  /\ \A step \in Steps : /\ Page!Reading(step) \in Reads /\ Page!Reading(step).step = step
                         /\ Page!Reading(step).served = Page!None /\ Page!Reading(step).valid
<1>1. Page!None \in Read
  BY DEF Page!None, Read
<1> QED BY <1>1 DEF Page!Idle, Page!Reading, Reads, Steps

LEMMA BlankTyped ==
  ASSUME NEW connection \in {"permission", "pairing", "connected", "disconnected"}
  PROVE  Page!Blank(connection) \in Views /\ Page!Blank(connection).shown = Page!Nothing
  BY ReadsTyped DEF Page!Blank, Page!Nothing, Views

LEMMA PageStarts == Page!Init => PageInductive
<1> SUFFICES ASSUME Page!Init PROVE PageInductive
  OBVIOUS
<1> USE DEF Page!Init
<1>1. view \in Views /\ view.shown = Page!Nothing
  BY ReadsTyped DEF Page!Nothing, Views
<1>2. write \in Writes /\ write.status = "idle"
  BY DEF Page!NoWrite, Writes, WriteRecords
<1>3. /\ operations \in [Page!Callers -> Reads]
      /\ \A c \in Page!Callers : operations[c].served = Page!None
  BY ReadsTyped
<1>4. 0 \in 0..PageRevisions /\ committed \in [PageCommands -> 0..revision]
  OBVIOUS
<1>5. PageTypes
  BY <1>1, <1>2, <1>3, <1>4 DEF PageTypes, Watchers
<1>6. Answered
  BY <1>2 DEF Answered
<1>7. Served /\ Shown
  BY <1>1, <1>3 DEF Served, Shown, Page!Nothing, Page!Facets
<1> QED BY <1>5, <1>6, <1>7 DEF PageInductive

-----------------------------------------------------------------------------
(* What a step may change.                                                 *)

LEMMA Outdating ==
  ASSUME NEW ops \in [Page!Callers -> Reads], NEW new, new = Page!Outdated(ops)
  PROVE  /\ new \in [Page!Callers -> Reads]
         /\ \A d \in Page!Callers : new[d].valid = FALSE /\ new[d].step = ops[d].step
<1>1. ASSUME NEW d \in Page!Callers
      PROVE  /\ new[d] \in Reads /\ new[d].valid = FALSE /\ new[d].step = ops[d].step
  <2>1. new[d] = [ops[d] EXCEPT !.valid = FALSE]
    BY DEF Page!Outdated
  <2> QED BY <2>1 DEF Reads
<1>2. new = [d \in Page!Callers |-> new[d]]
  BY DEF Page!Outdated
<1> QED BY <1>1, <1>2

\* All reads that wait are outdated; of c it is said what it does now.
LEMMA SuspendedBut ==
  ASSUME PageTypes, Served, UNCHANGED <<revision, confirmed>>, NEW c \in Page!Callers,
         NEW x \in Reads, x.served = Page!None,
         operations' = [Page!Outdated(operations) EXCEPT ![c] = x]
  PROVE  /\ operations' \in [Page!Callers -> Reads] /\ Served' /\ operations'[c] = x
         /\ \A d \in Page!Callers \ {c} :
              operations'[d].valid = FALSE /\ operations'[d].step = operations[d].step
<1>1. PICK new : new = Page!Outdated(operations)
  OBVIOUS
<1>2. /\ new \in [Page!Callers -> Reads]
      /\ \A d \in Page!Callers : new[d].valid = FALSE /\ new[d].step = operations[d].step
  BY <1>1, Outdating DEF PageTypes
<1>3. operations' = [new EXCEPT ![c] = x]
  BY <1>1
<1> QED BY <1>2, <1>3 DEF Served

LEMMA SuspendedAll ==
  ASSUME PageTypes, confirmed' <= revision', NEW ops \in [Page!Callers -> Reads],
         operations' = Page!Outdated(ops)
  PROVE  /\ operations' \in [Page!Callers -> Reads] /\ Served'
         /\ \A d \in Page!Callers : operations'[d].step = ops[d].step
<1>1. PICK new : new = Page!Outdated(ops)
  OBVIOUS
<1>2. /\ new \in [Page!Callers -> Reads]
      /\ \A d \in Page!Callers : new[d].valid = FALSE /\ new[d].step = ops[d].step
  BY <1>1, Outdating
<1> QED BY <1>1, <1>2 DEF Served

\* One operation goes on; what it was served, if anything, is new enough.
LEMMA OneGoesOn ==
  ASSUME PageTypes, Served, UNCHANGED <<revision, confirmed>>, NEW c \in Page!Callers,
         NEW x \in Reads, x.valid /\ x.served # Page!None => x.served >= confirmed,
         operations' = [operations EXCEPT ![c] = x]
  PROVE  /\ operations' \in [Page!Callers -> Reads] /\ Served' /\ operations'[c] = x
         /\ \A d \in Page!Callers \ {c} : operations'[d] = operations[d]
  BY DEF PageTypes, Served

\* A step that only the page makes: the writes are as before.
LEMMA PageMoves ==
  ASSUME PageInductive, UNCHANGED <<revision, committed, requests, reply, write, confirmed>>,
         operations' \in [Page!Callers -> Reads], view' \in Views,
         watcher' \in Watchers,
         operations["user"].step = "writing" => operations'["user"].step = "writing",
         Served', Shown'
  PROVE  PageInductive'
<1>1. PageTypes'
  BY DEF PageInductive, PageTypes
<1>2. Answered'
  BY DEF PageInductive, Answered, Page!Unsent
<1> QED BY <1>1, <1>2 DEF PageInductive

LEMMA NothingShown ==
  ASSUME view'.shown = Page!Nothing
  PROVE  Shown'
  BY DEF Shown, Page!Nothing, Page!Facets

LEMMA UserCalls == "user" \in Page!Callers
  BY DEF Page!Callers

-----------------------------------------------------------------------------
(* Operations and reads.                                                   *)

Places == {"permission", "pairing", "connected", "disconnected"}

LEMMA BeginsAnew ==
  ASSUME PageInductive, operations["user"].step = "none",
         UNCHANGED <<revision, committed, requests, reply, write, confirmed>>,
         NEW step \in {"none", "pairing", "refresh"}, NEW x, x = Page!Idle \/ x = Page!Reading(step),
         operations' = [Page!Outdated(operations) EXCEPT !["user"] = x],
         NEW connection \in Places, view' = Page!Blank(connection), watcher' = "none"
  PROVE  PageInductive'
<1>1. x \in Reads /\ x.served = Page!None
  BY ReadsTyped DEF Steps
<1>2. operations' \in [Page!Callers -> Reads] /\ Served'
  BY <1>1, UserCalls, SuspendedBut DEF PageInductive
<1>3. view' \in Views /\ Shown'
  BY BlankTyped, NothingShown DEF Places
<1> QED BY <1>2, <1>3, PageMoves DEF Watchers

LEMMA ConnectKeeps == ASSUME PageInductive, Page!Connect PROVE PageInductive'
  BY BeginsAnew DEF Page!Connect, Page!Free, Page!server, Places

LEMMA GoKeeps == ASSUME PageInductive, Page!Go PROVE PageInductive'
  BY BeginsAnew DEF Page!Go, Page!SuspendReads, Page!Free, Page!server, Places

\* The page shows another selection, if anything else, and it is not too old.
Rereads ==
  /\ view' \in Views /\ view'.connection = view.connection /\ view'.cursor = view.cursor
  /\ \A f \in Page!Facets : view'.shown[f] # Page!None => view'.shown[f] >= confirmed
  /\ view'.shown["snapshot"] = view.shown["snapshot"]

LEMMA SameView == ASSUME PageInductive, UNCHANGED view PROVE Rereads
  BY DEF PageInductive, PageTypes, Shown, Rereads

LEMMA OtherSelection ==
  ASSUME PageInductive, NEW v \in Read, v # Page!None => v >= confirmed,
         view' = [view EXCEPT !.shown["selection"] = v]
  PROVE  Rereads
<1>1. view \in Views /\ Shown
  BY DEF PageInductive, PageTypes
<1>2. view'.shown = [view.shown EXCEPT !["selection"] = v] /\ view' \in Views
  BY <1>1 DEF Views, Page!Facets
<1>3. view'.connection = view.connection /\ view'.cursor = view.cursor
  BY <1>1 DEF Views
<1>4. \A f \in Page!Facets : view'.shown[f] = IF f = "selection" THEN v ELSE view.shown[f]
  BY <1>1, <1>2 DEF Views
<1> QED BY <1>1, <1>2, <1>3, <1>4 DEF Shown, Rereads, Page!Facets

\* Reads go on, or end, and the page shows what it showed or another selection.
LEMMA ShownStays ==
  ASSUME PageInductive, Rereads, confirmed' = confirmed,
         view.shown["snapshot"] # Page!None => Followed'
  PROVE  Shown'
  BY DEF PageInductive, Shown, Rereads

\* A read of c goes on, or ends.
Leads(x) == x.valid /\ x.step \in {"context", "select"}
LEMMA ReadMoves ==
  ASSUME PageInductive, NEW c \in Page!Callers, operations[c].step # "writing",
         UNCHANGED <<revision, committed, requests, reply, write, confirmed>>, Rereads,
         NEW x \in Reads, x.valid /\ x.served # Page!None => x.served >= confirmed,
         operations' = [operations EXCEPT ![c] = x], watcher' \in Watchers,
         view.shown["snapshot"] # Page!None =>
           watcher' \in Opened \/ (watcher' = watcher /\ (Page!Underway(c) => Leads(x)))
  PROVE  PageInductive'
<1>1. PageTypes /\ Served /\ Shown
  BY DEF PageInductive
<1>2. /\ operations' \in [Page!Callers -> Reads] /\ Served' /\ operations'[c] = x
      /\ \A d \in Page!Callers \ {c} : operations'[d] = operations[d]
  BY <1>1, OneGoesOn
<1>3. view.shown["snapshot"] # Page!None => Followed'
  <2> SUFFICES ASSUME view.shown["snapshot"] # Page!None, watcher' \notin Opened PROVE Followed'
    BY DEF Followed
  <2>1. PICK d \in Page!Callers : Page!Underway(d)
    BY <1>1 DEF Shown, Followed
  <2>2. Page!Underway(d)'
    BY <1>2, <2>1 DEF Page!Underway, Leads
  <2> QED BY <2>2 DEF Followed
<1>4. Shown' /\ view' \in Views
  BY <1>3, ShownStays DEF Rereads
<1>5. operations["user"].step = "writing" => operations'["user"].step = "writing"
  BY <1>2, UserCalls
<1> QED BY <1>2, <1>4, <1>5, PageMoves

\* A selection begins; the reads of its facet will not be published.
LEMMA SelectKeeps ==
  ASSUME PageInductive, NEW c \in Page!Callers, NEW step \in {"select", "look"},
         NEW others, Page!Select(c, step, others), operations[c].step # "writing",
         Page!Underway(c) => step = "select",
         UNCHANGED <<revision, committed, requests, reply, write, confirmed>>
  PROVE  PageInductive'
<1>1. PageTypes /\ Served /\ Shown
  BY DEF PageInductive
<1>2. PICK x \in Reads : /\ x = Page!Reading(step) /\ x.served = Page!None
                         /\ x.step = step /\ x.valid
  BY ReadsTyped DEF Steps
<1>3. /\ operations' = [d \in Page!Callers |->
            IF d = c THEN x ELSE IF d \in others THEN [operations[d] EXCEPT !.valid = FALSE]
            ELSE operations[d]]
      /\ \A d \in others : operations[d].step \in {"select", "look"}
      /\ watcher' = IF \E d \in others : operations[d].step = "select" /\ operations[d].valid
                    THEN "superseded" ELSE watcher
      /\ view' = [view EXCEPT !.shown["selection"] = Page!None]
  BY <1>2 DEF Page!Select, Page!Superseded
<1>4. ASSUME NEW d \in Page!Callers
      PROVE  /\ operations'[d] \in Reads
             /\ d = c => operations'[d] = x
             /\ d # c /\ d \in others =>
                  ~operations'[d].valid /\ operations'[d].step = operations[d].step
             /\ d # c /\ d \notin others => operations'[d] = operations[d]
  <2>1. operations[d] \in Reads
    BY <1>1 DEF PageTypes
  <2> QED BY <1>2, <1>3, <2>1 DEF Reads
<1>5. operations' \in [Page!Callers -> Reads]
  BY <1>3, <1>4
<1>6. Served'
  BY <1>1, <1>2, <1>4 DEF Served
<1>7. Followed => Followed'
  <2>1. CASE watcher \in Opened
    BY <1>3, <2>1 DEF Followed, Opened
  <2>2. ASSUME NEW d \in Page!Callers, Page!Underway(d) PROVE Followed'
    <3>1. CASE d = c
      BY <1>2, <1>4, <2>2, <3>1 DEF Followed, Page!Underway
    <3>2. CASE d # c /\ d \in others
      BY <1>3, <2>2, <3>2 DEF Followed, Page!Underway, Opened
    <3>3. CASE d # c /\ d \notin others
      BY <1>4, <2>2, <3>3 DEF Followed, Page!Underway
    <3> QED BY <3>1, <3>2, <3>3
  <2> QED BY <2>1, <2>2 DEF Followed
<1>8. Rereads
  BY <1>3, ReadsTyped, OtherSelection
<1>9. Shown' /\ view' \in Views
  BY <1>1, <1>7, <1>8, ShownStays DEF Rereads, Shown
<1>10. operations["user"].step = "writing" => operations'["user"].step = "writing"
  BY <1>4, UserCalls
<1>11. watcher' \in Watchers
  BY <1>1, <1>3 DEF PageTypes, Watchers
<1> QED BY <1>5, <1>6, <1>9, <1>10, <1>11, PageMoves

LEMMA LookKeeps ==
  ASSUME PageInductive, NEW others, Page!Look(others) PROVE PageInductive'
  BY UserCalls, SelectKeeps DEF Page!Look, Page!Free, Page!server, Page!Underway

LEMMA SelectMoreKeeps ==
  ASSUME PageInductive, NEW c \in Page!Callers, NEW others, Page!SelectMore(c, others)
  PROVE  PageInductive'
  BY SelectKeeps DEF Page!SelectMore, Page!server

LEMMA ServeKeeps ==
  ASSUME PageInductive, NEW c \in Page!Callers, Page!Serve(c) PROVE PageInductive'
<1>1. PICK x : x = [operations[c] EXCEPT !.served = revision]
  OBVIOUS
<1>2. /\ operations' = [operations EXCEPT ![c] = x]
      /\ operations[c].step # "writing"
      /\ UNCHANGED <<revision, committed, requests, reply, write, confirmed, view, watcher>>
  BY <1>1 DEF Page!Serve, Page!server
<1>3. operations[c] \in Reads /\ revision \in Read
  BY DEF PageInductive, PageTypes, Read
<1>4. /\ x \in Reads /\ x.served = revision /\ x.step = operations[c].step
      /\ x.valid = operations[c].valid
  BY <1>1, <1>3 DEF Reads
<1>5. revision >= confirmed
  BY DEF PageInductive, PageTypes, Served
<1>6. watcher' \in Watchers /\ Rereads
  BY <1>2, SameView DEF PageInductive, PageTypes
<1>7. Page!Underway(c) => Leads(x)
  BY <1>4 DEF Page!Underway, Leads
<1> QED BY <1>2, <1>4, <1>5, <1>6, <1>7, ReadMoves

LEMMA RefreshedKeeps ==
  ASSUME PageInductive, NEW c \in Page!Callers, Page!Refreshed(c) PROVE PageInductive'
<1>1. PageTypes /\ Served
  BY DEF PageInductive
<1>2. PICK x \in Reads : /\ x = Page!Reading("context") /\ x.served = Page!None
                         /\ x.step = "context" /\ x.valid
  BY ReadsTyped DEF Steps
<1>3. /\ operations' = [operations EXCEPT ![c] = x]
      /\ operations[c].step \in {"pairing", "refresh"}
      /\ operations[c].valid /\ operations[c].served # Page!None
      /\ view' = [connection |-> "connected", cursor |-> TRUE,
                  shown |-> [view.shown EXCEPT !["snapshot"] = operations[c].served]]
      /\ UNCHANGED <<revision, committed, requests, reply, write, confirmed, watcher>>
  BY <1>2 DEF Page!Refreshed, Page!Publishes, Page!server
<1>4. /\ operations' \in [Page!Callers -> Reads] /\ Served' /\ operations'[c] = x
      /\ \A d \in Page!Callers \ {c} : operations'[d] = operations[d]
  BY <1>1, <1>2, <1>3, OneGoesOn
<1>5. operations[c].served \in Read /\ operations[c].served >= confirmed
  BY <1>1, <1>3 DEF PageTypes, Reads, Served
<1>6. Followed'
  BY <1>2, <1>4 DEF Followed, Page!Underway
<1>7. /\ view' \in Views
      /\ \A f \in Page!Facets :
           view'.shown[f] = IF f = "snapshot" THEN operations[c].served ELSE view.shown[f]
  <2>1. view \in Views
    BY <1>1 DEF PageTypes
  <2> QED BY <1>3, <1>5, <2>1 DEF Views
<1>8. Shown'
  BY <1>3, <1>5, <1>6, <1>7 DEF Shown, PageInductive
<1>9. operations["user"].step = "writing" => operations'["user"].step = "writing"
  BY <1>3, <1>4, UserCalls
<1>10. watcher' \in Watchers
  BY <1>1, <1>3 DEF PageTypes
<1> QED BY <1>3, <1>4, <1>7, <1>8, <1>9, <1>10, PageMoves

LEMMA ShowSelectionIs ==
  ASSUME PageInductive, NEW c \in Page!Callers, Page!Publishes(operations[c]),
         Page!ShowSelection(c)
  PROVE  Rereads
<1>1. operations[c].served \in Read /\ operations[c].served >= confirmed
  BY DEF PageInductive, PageTypes, Reads, Served, Page!Publishes
<1> QED BY <1>1, OtherSelection DEF Page!ShowSelection

LEMMA WatchKeeps ==
  ASSUME PageInductive, NEW c \in Page!Callers, Page!Watch(c) PROVE PageInductive'
<1>1. PICK x \in Reads : x = Page!Idle /\ x.served = Page!None
  BY ReadsTyped
<1>2. /\ operations' = [operations EXCEPT ![c] = x] /\ operations[c].step # "writing"
      /\ UNCHANGED <<revision, committed, requests, reply, write, confirmed>>
      /\ watcher' = IF view.cursor THEN "streaming" ELSE "ended"
  BY <1>1 DEF Page!Watch, Page!server
<1>3. Rereads
  BY SameView, ShowSelectionIs DEF Page!Watch
<1>4. view.shown["snapshot"] # Page!None => watcher' \in Opened
  BY <1>2 DEF PageInductive, Shown, Opened
<1>5. watcher' \in Watchers
  BY <1>2 DEF Watchers
<1> QED BY <1>1, <1>2, <1>3, <1>4, <1>5, ReadMoves

LEMMA EndsIdle ==
  ASSUME PageInductive, NEW c \in Page!Callers,
         operations[c].step # "writing" /\ ~Page!Underway(c), Rereads,
         UNCHANGED <<revision, committed, requests, reply, write, confirmed, watcher>>,
         operations' = [operations EXCEPT ![c] = Page!Idle]
  PROVE  PageInductive'
<1>1. PICK x \in Reads : x = Page!Idle /\ x.served = Page!None
  BY ReadsTyped
<1>2. watcher' \in Watchers
  BY DEF PageInductive, PageTypes
<1> QED BY <1>1, <1>2, ReadMoves

LEMMA LookedKeeps == ASSUME PageInductive, Page!Looked PROVE PageInductive'
<1>1. Rereads
  BY UserCalls, ShowSelectionIs DEF Page!Looked
<1> QED BY <1>1, UserCalls, EndsIdle DEF Page!Looked, Page!server, Page!Underway

LEMMA CancelledKeeps ==
  ASSUME PageInductive, NEW c \in Page!Callers, Page!Cancelled(c) PROVE PageInductive'
  BY SameView, EndsIdle DEF Page!Cancelled, Page!server, Page!Underway

\* #invalidate, after one operation became idle or none did.
LEMMA Invalidates ==
  ASSUME PageInductive, UNCHANGED <<revision, committed, requests, reply, write, confirmed>>,
         NEW connection \in Places, NEW ops \in [Page!Callers -> Reads],
         Page!Invalidate(connection, ops),
         operations["user"].step = "writing" => ops["user"].step = "writing",
         watcher' \in Watchers
  PROVE  PageInductive'
<1>1. PageTypes /\ confirmed' <= revision'
  BY DEF PageInductive, Served
<1>2. operations' = Page!Outdated(ops) /\ view' = Page!Blank(connection)
  BY DEF Page!Invalidate
<1>3. /\ operations' \in [Page!Callers -> Reads] /\ Served'
      /\ \A d \in Page!Callers : operations'[d].step = ops[d].step
  BY <1>1, <1>2, SuspendedAll
<1>4. view' \in Views /\ Shown'
  BY <1>2, BlankTyped, NothingShown DEF Places
<1> QED BY <1>3, <1>4, UserCalls, PageMoves

LEMMA AbortedTyped ==
  ASSUME PageInductive PROVE Page!Aborted \in Watchers
  BY DEF PageInductive, PageTypes, Page!Aborted, Watchers

LEMMA ReadFailsKeeps ==
  ASSUME PageInductive, NEW c \in Page!Callers, Page!ReadFails(c) PROVE PageInductive'
<1>1. PICK ops : ops = [operations EXCEPT ![c] = Page!Idle]
  OBVIOUS
<1>2. PICK connection \in Places :
        connection = IF operations[c].step = "pairing" THEN "permission" ELSE "disconnected"
  BY DEF Places
<1>3. /\ Page!Invalidate(connection, ops) /\ watcher' = Page!Aborted
      /\ operations[c].step # "writing"
      /\ UNCHANGED <<revision, committed, requests, reply, write, confirmed>>
  BY <1>1, <1>2 DEF Page!ReadFails, Page!server
<1>4. /\ ops \in [Page!Callers -> Reads]
      /\ operations["user"].step = "writing" => ops["user"].step = "writing"
  BY <1>1, <1>3, UserCalls, ReadsTyped DEF PageInductive, PageTypes
<1> QED BY <1>3, <1>4, AbortedTyped, Invalidates

LEMMA StreamEndsKeeps == ASSUME PageInductive, Page!StreamEnds PROVE PageInductive'
<1>1. operations \in [Page!Callers -> Reads]
  BY DEF PageInductive, PageTypes
<1> QED BY <1>1, Invalidates DEF Page!StreamEnds, Page!server, Places, Watchers

LEMMA WatchReturnsKeeps == ASSUME PageInductive, Page!WatchReturns PROVE PageInductive'
<1>1. /\ watcher = "ended" /\ watcher' = "none"
      /\ UNCHANGED <<revision, committed, requests, reply, write, confirmed, view, operations>>
  BY DEF Page!WatchReturns, Page!server
<1>2. Served' /\ Shown'
  BY <1>1 DEF PageInductive, Served, Shown, Followed, Opened, Page!Underway
<1> QED BY <1>1, <1>2, PageMoves DEF PageInductive, PageTypes, Watchers

LEMMA RecoverKeeps ==
  ASSUME PageInductive, NEW c \in Page!Callers, Page!Recover(c), UNCHANGED revision
  PROVE  PageInductive'
<1>1. /\ c # "user" /\ watcher' = "none"
      /\ UNCHANGED <<revision, committed, requests, reply, write, confirmed>>
  BY DEF Page!Recover, Page!server
<1>2. PageTypes /\ Served /\ Shown
  BY DEF PageInductive
<1>3. CASE Page!Identified
  <2>1. PICK x \in Reads : x = Page!Reading("refresh") /\ x.served = Page!None
    BY ReadsTyped DEF Steps
  <2>2. /\ view' = Page!Blank(view.connection)
        /\ operations' = [Page!Outdated(operations) EXCEPT ![c] = x]
    BY <1>3, <2>1 DEF Page!Recover
  <2>3. /\ operations' \in [Page!Callers -> Reads] /\ Served'
        /\ operations'["user"].step = operations["user"].step
    BY <1>1, <1>2, <2>1, <2>2, UserCalls, SuspendedBut
  <2>4. view.connection \in {"permission", "pairing", "connected", "disconnected"}
    BY <1>2 DEF PageTypes, Views
  <2>5. view' \in Views /\ Shown'
    BY <2>2, <2>4, BlankTyped, NothingShown
  <2> QED BY <1>1, <2>3, <2>5, PageMoves DEF Watchers
<1>4. CASE ~Page!Identified
  <2>1. UNCHANGED <<view, operations>> /\ view.shown["snapshot"] = Page!None
    BY <1>2, <1>4 DEF Page!Recover, Page!Identified, Shown
  <2>2. Served' /\ Shown'
    BY <1>1, <1>2, <2>1 DEF Served, Shown
  <2> QED BY <1>1, <1>2, <2>1, <2>2, PageMoves DEF PageTypes, Watchers
<1> QED BY <1>3, <1>4

LEMMA RecoverByUserKeeps ==
  ASSUME PageInductive, NEW c \in Page!Callers, Page!RecoverByUser(c) PROVE PageInductive'
<1>1. Page!Recover(c) /\ UNCHANGED revision
  BY DEF Page!RecoverByUser, Page!Recover, Page!server
<1> QED BY <1>1, RecoverKeeps

LEMMA TimerFiresKeeps ==
  ASSUME PageInductive, NEW c \in Page!Callers, Page!TimerFires(c) PROVE PageInductive'
<1>1. Page!Recover(c) /\ UNCHANGED revision
  BY DEF Page!TimerFires, Page!Recover, Page!server
<1> QED BY <1>1, RecoverKeeps

-----------------------------------------------------------------------------
(* Writes.                                                                 *)

\* A step is made of what the page shows and of what it says about the write.
LEMMA WriteMoves ==
  ASSUME PageInductive, revision' \in 0..PageRevisions, confirmed' \in 0..PageRevisions,
         committed' \in [PageCommands -> 0..revision'], requests' \subseteq [command : PageCommands, try : Nat],
         reply' \in {"none", "success", "rejected"}, view' \in Views, write' \in Writes,
         operations' \in [Page!Callers -> Reads], watcher' \in Watchers,
         Answered', Served', Shown'
  PROVE  PageInductive'
  BY DEF PageInductive, PageTypes

LEMMA SendingTyped ==
  Page!Sending \in Reads /\ Page!Sending.step = "writing" /\ Page!Sending.served = Page!None
  BY ReadsTyped DEF Page!Sending, Reads, Steps

LEMMA SubmitIs ==
  ASSUME PageTypes, NEW k \in PageCommands, Page!Unsent(k), Page!Submit(k),
         UNCHANGED <<revision, committed>>, reply' = "none",
         operations'["user"].step = "writing"
  PROVE  /\ write' \in Writes /\ requests' \subseteq [command : PageCommands, try : Nat]
         /\ Answered'
<1>1. /\ write' = [status |-> "sending", command |-> k, pending |-> TRUE,
                   retrying |-> FALSE, tries |-> 1]
      /\ requests' = requests \cup {[command |-> k, try |-> 1]}
  BY DEF Page!Submit, Page!Sent
<1>2. write' \in Writes
  BY <1>1 DEF Writes, WriteRecords
<1>3. requests' \subseteq [command : PageCommands, try : Nat]
  <2>1. [command |-> k, try |-> 1] \in [command : PageCommands, try : Nat]
    OBVIOUS
  <2> QED BY <1>1, <2>1 DEF PageTypes
<1>4. committed'[k] = 0 /\ \A r \in requests' : r.command = k => r.try = 1
  BY <1>1 DEF Page!Unsent
<1> QED BY <1>1, <1>2, <1>3, <1>4 DEF Answered

LEMMA CommandKeeps ==
  ASSUME PageInductive, NEW k \in PageCommands, Page!Command(k) PROVE PageInductive'
<1>1. /\ operations["user"].step = "none" /\ Page!Unsent(k)
      /\ UNCHANGED <<revision, committed, reply, confirmed>>
  BY DEF Page!Command, Page!Free
<1>2. PageTypes /\ Answered /\ Served
  BY DEF PageInductive
<1>3. CASE write.pending
  <2>1. PICK x \in Reads : x = Page!Idle /\ x.served = Page!None
    BY ReadsTyped
  <2>2. /\ operations' = [Page!Outdated(operations) EXCEPT !["user"] = x]
        /\ view' = Page!Blank("disconnected") /\ watcher' = "none"
        /\ UNCHANGED <<write, requests>>
    BY <1>3, <2>1 DEF Page!Command, Page!SuspendReads
  <2> QED BY <1>1, <2>1, <2>2, BeginsAnew DEF Places
<1>4. CASE ~write.pending
  <2>1. PICK x \in Reads : x = Page!Sending /\ x.served = Page!None /\ x.step = "writing"
    BY SendingTyped
  <2>2. /\ operations' = [Page!Outdated(operations) EXCEPT !["user"] = x]
        /\ view' = Page!Blank("disconnected") /\ watcher' = "none" /\ Page!Submit(k)
    BY <1>4, <2>1 DEF Page!Command, Page!SuspendReads
  <2>3. /\ operations' \in [Page!Callers -> Reads] /\ Served' /\ operations'["user"] = x
    BY <1>1, <1>2, <2>1, <2>2, UserCalls, SuspendedBut
  <2>4. view' \in Views /\ Shown' /\ watcher' \in Watchers
    BY <2>2, BlankTyped, NothingShown DEF Watchers
  <2>5. reply' = "none"
    BY <1>1, <1>2 DEF Answered, PageTypes
  <2>6. /\ write' \in Writes /\ requests' \subseteq [command : PageCommands, try : Nat]
        /\ Answered'
    BY <1>1, <1>2, <2>1, <2>2, <2>3, <2>5, SubmitIs
  <2> QED BY <1>1, <1>2, <2>3, <2>4, <2>5, <2>6, WriteMoves DEF PageTypes
<1> QED BY <1>3, <1>4

\* The user's operation changes, no read of the page waited in it.
LEMMA UserMoves ==
  ASSUME PageInductive, UNCHANGED <<revision, committed, confirmed, view, watcher>>,
         ~Page!Underway("user"), NEW x \in Reads, x.served = Page!None,
         operations' = [operations EXCEPT !["user"] = x],
         requests' \subseteq [command : PageCommands, try : Nat],
         reply' \in {"none", "success", "rejected"}, write' \in Writes, Answered'
  PROVE  PageInductive'
<1>1. PageTypes /\ Served /\ Shown
  BY DEF PageInductive
<1>2. /\ operations' \in [Page!Callers -> Reads] /\ Served'
      /\ \A d \in Page!Callers \ {"user"} : operations'[d] = operations[d]
  BY <1>1, UserCalls, OneGoesOn
<1>3. Followed => Followed'
  BY <1>2 DEF Followed, Page!Underway
<1>4. Shown'
  BY <1>1, <1>3 DEF Shown
<1> QED BY <1>1, <1>2, <1>4, WriteMoves DEF PageTypes

LEMMA RetryUnknownKeeps == ASSUME PageInductive, Page!RetryUnknown PROVE PageInductive'
<1>1. PageTypes /\ Answered
  BY DEF PageInductive
<1>2. PICK x \in Reads : x = Page!Sending /\ x.served = Page!None /\ x.step = "writing"
  BY SendingTyped
<1>3. PICK n \in Nat : n = write.tries + 1
  BY <1>1 DEF PageTypes, Writes, WriteRecords
<1>4. /\ operations' = [operations EXCEPT !["user"] = x] /\ operations["user"].step = "none"
      /\ write' = [write EXCEPT !.status = "sending", !.retrying = TRUE, !.tries = n]
      /\ requests' = requests \cup {[command |-> write.command, try |-> n]}
      /\ write.pending /\ write.status = "unknown"
      /\ UNCHANGED <<revision, committed, confirmed, view, watcher, reply>>
  BY <1>2, <1>3 DEF Page!RetryUnknown, Page!Free, Page!Sent
<1>5. write \in WriteRecords /\ write.command \in PageCommands
  BY <1>1, <1>4 DEF PageTypes, Writes
<1>6. write' \in WriteRecords /\ write'.command = write.command /\ write'.retrying
  BY <1>3, <1>4, <1>5 DEF WriteRecords
<1>7. requests' \subseteq [command : PageCommands, try : Nat]
  <2>1. [command |-> write.command, try |-> n] \in [command : PageCommands, try : Nat]
    BY <1>3, <1>5
  <2> QED BY <1>1, <1>4, <2>1 DEF PageTypes
<1>8. operations'["user"].step = "writing" /\ write'.status = "sending"
  BY <1>1, <1>2, <1>4, <1>5, UserCalls DEF PageTypes, WriteRecords
<1>9. Answered'
  BY <1>6, <1>8 DEF Answered
<1>10. ~Page!Underway("user")
  BY <1>4 DEF Page!Underway
<1> QED BY <1>1, <1>2, <1>4, <1>5, <1>6, <1>7, <1>9, <1>10, UserMoves DEF PageTypes, Writes

LEMMA DiscardUnknownKeeps == ASSUME PageInductive, Page!DiscardUnknown PROVE PageInductive'
<1>1. PageTypes /\ Answered /\ Served /\ Shown
  BY DEF PageInductive
<1>2. /\ write' = [write EXCEPT !.status = "idle", !.pending = FALSE]
      /\ UNCHANGED <<revision, committed, requests, reply, view, operations, watcher, confirmed>>
  BY DEF Page!DiscardUnknown, Page!server, Page!screen
<1>3. write \in WriteRecords
  BY <1>1 DEF PageTypes, Writes
<1>4. write' \in WriteRecords /\ write'.status = "idle"
  BY <1>2, <1>3 DEF WriteRecords
<1>5. Answered'
  BY <1>1, <1>2, <1>4 DEF Answered
<1>6. Served' /\ Shown'
  BY <1>1, <1>2 DEF Served, Shown, Followed, Page!Underway
<1> QED BY <1>1, <1>2, <1>4, <1>5, <1>6, WriteMoves DEF PageTypes, Writes

LEMMA LoseIdentityKeeps == ASSUME PageInductive, Page!LoseIdentity PROVE PageInductive'
<1>1. PageTypes /\ Answered /\ Served
  BY DEF PageInductive
<1>2. /\ view' = Page!Blank("permission") /\ operations' = Page!Outdated(operations)
      /\ watcher' = Page!Aborted
      /\ write' = [Page!NoWrite EXCEPT !.command = write.command, !.tries = write.tries]
      /\ UNCHANGED <<revision, committed, requests, reply, confirmed>>
  BY DEF Page!LoseIdentity, Page!Invalidate, Page!server
<1>3. operations \in [Page!Callers -> Reads] /\ confirmed' <= revision'
  BY <1>1, <1>2 DEF PageTypes, Served
<1>4. /\ operations' \in [Page!Callers -> Reads] /\ Served'
      /\ operations'["user"].step = operations["user"].step
  BY <1>1, <1>2, <1>3, UserCalls, SuspendedAll
<1>5. view' \in Views /\ Shown'
  BY <1>2, BlankTyped, NothingShown
<1>6. write \in WriteRecords
  BY <1>1 DEF PageTypes, Writes
<1>7. write' \in WriteRecords /\ write'.status = "idle"
  BY <1>2, <1>6 DEF WriteRecords, Page!NoWrite
<1>8. Answered'
  BY <1>1, <1>2, <1>4, <1>7 DEF Answered
<1> QED BY <1>1, <1>2, <1>4, <1>5, <1>7, <1>8, AbortedTyped, WriteMoves DEF PageTypes, Writes

-----------------------------------------------------------------------------
(* The server, and what the user hears of it.                              *)

\* The server moves on: nothing on the page is older than what was confirmed because of it.
LEMMA ServerMoves ==
  ASSUME PageInductive, UNCHANGED <<view, write, operations, watcher, confirmed>>,
         revision' \in 0..PageRevisions, revision' >= revision,
         committed' \in [PageCommands -> 0..revision'],
         requests' \subseteq requests, reply' \in {"none", "success", "rejected"}, Answered'
  PROVE  PageInductive'
<1>1. PageTypes /\ Served /\ Shown
  BY DEF PageInductive
<1>2. Served'
  BY <1>1 DEF PageTypes, Served
<1>3. Shown'
  BY <1>1 DEF Shown, Followed, Page!Underway
<1> QED BY <1>1, <1>2, <1>3, WriteMoves DEF PageTypes

LEMMA OthersCommitKeeps == ASSUME PageInductive, Page!OthersCommit PROVE PageInductive'
<1>1. /\ revision' = revision + 1 /\ revision < PageRevisions
      /\ UNCHANGED <<committed, requests, reply, view, write, operations, watcher, confirmed>>
  BY DEF Page!OthersCommit, Page!screen
<1>2. PageTypes /\ Answered
  BY DEF PageInductive
<1>3. Answered'
  BY <1>1, <1>2 DEF Answered, Page!Unsent
<1>4. /\ revision' \in 0..PageRevisions /\ revision' >= revision
      /\ committed' \in [PageCommands -> 0..revision']
  BY <1>1, <1>2 DEF PageTypes
<1> QED BY <1>1, <1>2, <1>3, <1>4, ServerMoves DEF PageTypes

\* Only the awaited attempt is answered; a command whose attempt it was has no other.
LEMMA HandleKeeps ==
  ASSUME PageInductive, NEW r \in requests, Page!Handle(r) PROVE PageInductive'
<1> DEFINE awaited == /\ write.status = "sending" /\ write.command = r.command
                      /\ write.tries = r.try
<1>1. PageTypes /\ Answered
  BY DEF PageInductive
<1>2. /\ requests' = requests \ {r}
      /\ UNCHANGED <<view, write, operations, watcher, confirmed>>
  BY DEF Page!Handle, Page!screen
<1>3. \/ /\ \/ committed[r.command] # 0 /\ UNCHANGED <<revision, committed>>
            \/ /\ committed[r.command] = 0 /\ revision < PageRevisions
               /\ committed' = [committed EXCEPT ![r.command] = revision + 1]
               /\ revision' = revision + 1
         /\ reply' = IF awaited THEN "success" ELSE reply
      \/ /\ reply' = IF awaited THEN "rejected" ELSE reply
         /\ UNCHANGED <<revision, committed>>
  BY DEF Page!Handle
<1>4. r \in [command : PageCommands, try : Nat]
  BY <1>1 DEF PageTypes
<1>5. ASSUME NEW q \in requests, q.command = r.command, q.try = r.try PROVE q = r
  BY <1>1, <1>4, <1>5 DEF PageTypes
<1>6. revision' \in 0..PageRevisions /\ revision' >= revision
  BY <1>1, <1>3 DEF PageTypes
<1>7. /\ committed' \in [PageCommands -> 0..revision']
      /\ \A k \in PageCommands \ {r.command} : committed'[k] = committed[k]
  BY <1>1, <1>3, <1>4 DEF PageTypes
<1>8. /\ awaited => reply' \in {"success", "rejected"}
      /\ ~awaited => reply' = reply
      /\ reply' = "rejected" /\ awaited => committed' = committed
  BY <1>3
<1>9. write.status = "sending" /\ ~write.retrying /\ write.command = r.command =>
        awaited /\ \A q \in requests' : q.command # write.command
  BY <1>1, <1>2, <1>5 DEF Answered
<1>10. write.status = "rejected" => r.command # write.command
  BY <1>1 DEF Answered, Page!Unsent
<1>11. (reply' # "none" => operations'["user"].step = "writing")
       /\ (write'.status = "sending" => operations'["user"].step = "writing")
  BY <1>1, <1>2, <1>8 DEF Answered
<1>12. ASSUME write.status = "sending", ~write.retrying
       PROVE  /\ write.tries = 1
              /\ \A q \in requests' : q.command = write.command =>
                   q.try = 1 /\ reply' = "none" /\ committed'[write.command] = 0
              /\ reply' = "rejected" => Page!Unsent(write.command)'
  <2>1. CASE write.command = r.command
    <3>1. committed[write.command] = 0
      BY <1>1, <1>12, <2>1 DEF Answered
    <3> QED BY <1>1, <1>2, <1>8, <1>9, <1>12, <2>1, <3>1 DEF Answered, Page!Unsent
  <2>2. CASE write.command # r.command
    <3>1. reply' = reply
      BY <1>8, <2>2
    <3>2. write.command \in PageCommands
      BY <1>1, <1>12 DEF PageTypes, Writes
    <3> QED BY <1>1, <1>2, <1>7, <1>12, <2>2, <3>1, <3>2 DEF Answered, Page!Unsent
  <2> QED BY <2>1, <2>2
<1>13. write.status = "rejected" => Page!Unsent(write.command)'
  BY <1>1, <1>2, <1>7, <1>10 DEF Answered, Page!Unsent, PageTypes, Writes
<1>14. Answered'
  BY <1>2, <1>11, <1>12, <1>13 DEF Answered, Page!Unsent
<1>15. reply' \in {"none", "success", "rejected"}
  BY <1>1, <1>8 DEF PageTypes
<1> QED BY <1>2, <1>6, <1>7, <1>14, <1>15, ServerMoves

\* The answer is heard: the user's operation goes on or ends.
LEMMA AnswerHeard ==
  ASSUME PageInductive, UNCHANGED <<revision, committed, requests>>,
         confirmed' \in 0..PageRevisions, reply' = "none", view' \in Views, Shown',
         watcher' = Page!Aborted, operations' \in [Page!Callers -> Reads], Served',
         write' \in Writes, write'.status # "sending",
         write'.status = "rejected" => Page!Unsent(write'.command)
  PROVE  PageInductive'
<1>1. PageTypes
  BY DEF PageInductive
<1>2. Answered'
  BY DEF Answered, Page!Unsent
<1> QED BY <1>1, <1>2, AbortedTyped, WriteMoves DEF PageTypes

\* A body is as old as the commit it answers.
LEMMA SucceedsIs ==
  ASSUME PageInductive, Page!Succeeds
  PROVE  /\ write.command \in PageCommands /\ write \in WriteRecords
         /\ confirmed' \in 0..PageRevisions /\ confirmed' <= revision
         /\ reply' = "none" /\ watcher' = Page!Aborted
         /\ UNCHANGED <<revision, committed>>
         /\ view' \in Views /\ Shown'
<1>1. PageTypes
  BY DEF PageInductive
<1>2. /\ write.status = "sending" /\ reply' = "none" /\ watcher' = Page!Aborted
      /\ confirmed' = committed[write.command] /\ UNCHANGED <<revision, committed>>
  BY DEF Page!Succeeds
<1>3. write.command \in PageCommands /\ write \in WriteRecords
  BY <1>1, <1>2 DEF PageTypes, Writes
<1>4. confirmed' \in 0..PageRevisions /\ confirmed' <= revision /\ confirmed' \in Read
  BY <1>1, <1>2, <1>3 DEF PageTypes, Read
<1>5. PICK connection \in Places : connection = view.connection
  BY <1>1 DEF PageTypes, Views, Places
<1>6. PICK v \in Read : /\ v = confirmed' \/ v = Page!None
                        /\ view' = [Page!Blank(connection) EXCEPT !.shown["body"] = v]
  BY <1>2, <1>4, <1>5, ReadsTyped DEF Page!Succeeds
<1>7. PICK blank \in Views : blank = Page!Blank(connection) /\ blank.shown = Page!Nothing
  BY BlankTyped DEF Places
<1>8. /\ view' \in Views
      /\ \A f \in Page!Facets : view'.shown[f] = IF f = "body" THEN v ELSE Page!None
  BY <1>6, <1>7 DEF Views, Page!Nothing, Page!Facets
<1>9. Shown'
  BY <1>4, <1>6, <1>8 DEF Shown, Page!Facets
<1> QED BY <1>2, <1>3, <1>4, <1>8, <1>9

\* The reads that wait are outdated, the user's operation begins another step.
LEMMA UserAnew ==
  ASSUME PageTypes, confirmed' <= revision', NEW x \in Reads, x.served = Page!None,
         operations' = [Page!Outdated(operations) EXCEPT !["user"] = x]
  PROVE  operations' \in [Page!Callers -> Reads] /\ Served' /\ operations'["user"] = x
<1>1. PICK new : new = Page!Outdated(operations)
  OBVIOUS
<1>2. /\ new \in [Page!Callers -> Reads]
      /\ \A d \in Page!Callers : new[d].valid = FALSE
  BY <1>1, Outdating DEF PageTypes
<1> QED BY <1>1, <1>2, UserCalls DEF Served

LEMMA ConfirmedKeeps == ASSUME PageInductive, Page!Confirmed PROVE PageInductive'
<1>1. PageTypes
  BY DEF PageInductive
<1>2. PICK x \in Reads : /\ x = IF write.retrying THEN Page!Idle ELSE Page!Reading("refresh")
                         /\ x.served = Page!None
  BY ReadsTyped DEF Steps
<1>3. PICK status \in {"confirmed", "received"} :
        status = IF write.command \in PageReceipted THEN "confirmed" ELSE "received"
  OBVIOUS
<1>4. /\ Page!Succeeds /\ UNCHANGED requests
      /\ write' = [write EXCEPT !.pending = FALSE, !.status = status]
      /\ operations' = [Page!Outdated(operations) EXCEPT !["user"] = x]
  BY <1>2, <1>3 DEF Page!Confirmed
<1>5. /\ write.command \in PageCommands /\ write \in WriteRecords
      /\ confirmed' \in 0..PageRevisions /\ confirmed' <= revision
      /\ reply' = "none" /\ watcher' = Page!Aborted
      /\ UNCHANGED <<revision, committed>> /\ view' \in Views /\ Shown'
  BY <1>4, SucceedsIs
<1>6. operations' \in [Page!Callers -> Reads] /\ Served'
  BY <1>1, <1>2, <1>4, <1>5, UserAnew
<1>7. write' \in Writes /\ write'.status = status
  BY <1>3, <1>4, <1>5 DEF Writes, WriteRecords
<1> QED BY <1>3, <1>4, <1>5, <1>6, <1>7, AnswerHeard

LEMMA NextWriteKeeps ==
  ASSUME PageInductive, NEW k \in PageCommands, Page!NextWrite(k) PROVE PageInductive'
<1>1. PageTypes
  BY DEF PageInductive
<1>2. PICK x \in Reads : x = Page!Sending /\ x.served = Page!None /\ x.step = "writing"
  BY SendingTyped
<1>3. /\ Page!Succeeds /\ Page!Unsent(k) /\ Page!Submit(k)
      /\ operations' = [Page!Outdated(operations) EXCEPT !["user"] = x]
  BY <1>2 DEF Page!NextWrite
<1>4. /\ confirmed' \in 0..PageRevisions /\ confirmed' <= revision
      /\ reply' = "none" /\ watcher' = Page!Aborted
      /\ UNCHANGED <<revision, committed>> /\ view' \in Views /\ Shown'
  BY <1>3, SucceedsIs
<1>5. operations' \in [Page!Callers -> Reads] /\ Served' /\ operations'["user"] = x
  BY <1>1, <1>2, <1>3, <1>4, UserAnew
<1>6. /\ write' \in Writes /\ requests' \subseteq [command : PageCommands, try : Nat]
      /\ Answered'
  BY <1>1, <1>2, <1>3, <1>4, <1>5, SubmitIs
<1> QED BY <1>1, <1>4, <1>5, <1>6, AbortedTyped, WriteMoves DEF PageTypes

LEMMA NotConfirmedKeeps == ASSUME PageInductive, Page!NotConfirmed PROVE PageInductive'
<1>1. PageTypes /\ Answered /\ Served
  BY DEF PageInductive
<1>2. PICK connection \in Places :
        connection = IF Page!Refused THEN view.connection ELSE "disconnected"
  BY <1>1 DEF PageTypes, Views, Places
<1>3. PICK status \in {"rejected", "unknown"} :
        status = IF Page!Refused THEN "rejected" ELSE "unknown"
  OBVIOUS
<1>4. PICK left \in BOOLEAN : left = ~Page!Refused
  OBVIOUS
<1>5. PICK next \in Reads :
        /\ next.served = Page!None
        /\ operations' = [Page!Outdated(operations) EXCEPT !["user"] = next]
  <2>1. PICK next \in {Page!Idle, Page!Reading("refresh")} :
          operations' = [Page!Outdated(operations) EXCEPT !["user"] = next]
    BY DEF Page!NotConfirmed
  <2>2. next \in Reads /\ next.served = Page!None
    BY <2>1, ReadsTyped DEF Steps
  <2> QED BY <2>1, <2>2
<1>6. /\ write' = [write EXCEPT !.status = status, !.pending = left]
      /\ view' = Page!Blank(connection)
      /\ watcher' = Page!Aborted /\ reply' = "none" /\ write.status = "sending"
      /\ UNCHANGED <<revision, committed, requests, confirmed>>
  BY <1>2, <1>3, <1>4 DEF Page!NotConfirmed, Page!server
<1>7. confirmed' <= revision'
  BY <1>1, <1>6 DEF Served
<1>8. operations' \in [Page!Callers -> Reads] /\ Served'
  BY <1>1, <1>5, <1>7, UserAnew
<1>9. write \in WriteRecords /\ write.command \in PageCommands
  BY <1>1, <1>6 DEF PageTypes, Writes
<1>10. write' \in WriteRecords /\ write'.status = status /\ write'.command = write.command
  BY <1>3, <1>4, <1>6, <1>9 DEF WriteRecords
<1>11. status = "rejected" => Page!Unsent(write.command)
  BY <1>1, <1>3, <1>6 DEF Page!Refused, Answered
<1>12. write' \in Writes
  BY <1>9, <1>10 DEF Writes
<1>13. view' \in Views /\ Shown'
  BY <1>6, BlankTyped, NothingShown DEF Places
<1> QED BY <1>1, <1>3, <1>6, <1>8, <1>10, <1>11, <1>12, <1>13, AnswerHeard DEF PageTypes

LEMMA WriteLostKeeps == ASSUME PageInductive, Page!WriteLost PROVE PageInductive'
<1>1. PageTypes /\ Answered
  BY DEF PageInductive
<1>2. PICK x \in Reads : x = Page!Idle /\ x.served = Page!None
  BY ReadsTyped
<1>3. /\ operations["user"].step = "writing" /\ write.status # "sending" /\ reply' = "none"
      /\ operations' = [operations EXCEPT !["user"] = x]
      /\ UNCHANGED <<revision, committed, requests, view, watcher, write, confirmed>>
  BY <1>2 DEF Page!WriteLost, Page!Writing, Page!server
<1>4. Answered'
  BY <1>1, <1>3 DEF Answered, Page!Unsent
<1>5. ~Page!Underway("user")
  BY <1>3 DEF Page!Underway
<1> QED BY <1>1, <1>2, <1>3, <1>4, <1>5, UserMoves DEF PageTypes

-----------------------------------------------------------------------------
(* Every step, and what it means.                                          *)

LEMMA PageStep == ASSUME PageInductive, Page!Next PROVE PageInductive'
<1>1. CASE Page!Connect \/ Page!Go \/ Page!RetryUnknown \/ Page!DiscardUnknown
  BY <1>1, ConnectKeeps, GoKeeps, RetryUnknownKeeps, DiscardUnknownKeeps
<1>2. ASSUME NEW k \in PageCommands, Page!Command(k) \/ Page!NextWrite(k)
      PROVE  PageInductive'
  BY <1>2, CommandKeeps, NextWriteKeeps
<1>3. ASSUME NEW c \in Page!Callers, Page!RecoverByUser(c) \/ Page!TimerFires(c)
      PROVE  PageInductive'
  BY <1>3, RecoverByUserKeeps, TimerFiresKeeps
<1>4. ASSUME NEW c \in Page!Callers,
             Page!Serve(c) \/ Page!Refreshed(c) \/ Page!Watch(c) \/ Page!Cancelled(c)
               \/ Page!ReadFails(c)
      PROVE  PageInductive'
  BY <1>4, ServeKeeps, RefreshedKeeps, WatchKeeps, CancelledKeeps, ReadFailsKeeps
<1>5. CASE Page!Looked \/ Page!StreamEnds \/ Page!WatchReturns \/ Page!LoseIdentity
  BY <1>5, LookedKeeps, StreamEndsKeeps, WatchReturnsKeeps, LoseIdentityKeeps
<1>6. ASSUME NEW others \in SUBSET Page!Callers,
             Page!Look(others) \/ \E c \in Page!Callers : Page!SelectMore(c, others)
      PROVE  PageInductive'
  BY <1>6, LookKeeps, SelectMoreKeeps
<1>7. ASSUME NEW r \in requests, Page!Handle(r) PROVE PageInductive'
  BY <1>7, HandleKeeps
<1>8. CASE Page!OthersCommit \/ Page!Confirmed \/ Page!NotConfirmed \/ Page!WriteLost
  BY <1>8, OthersCommitKeeps, ConfirmedKeeps, NotConfirmedKeeps, WriteLostKeeps
<1> QED BY <1>1, <1>2, <1>3, <1>4, <1>5, <1>6, <1>7, <1>8 DEF Page!Next

LEMMA PageMeans ==
  ASSUME PageInductive PROVE Page!RejectedIsUncommitted /\ Page!ShownIsCurrent
  BY DEF PageInductive, Answered, Shown, Followed, Opened,
         Page!RejectedIsUncommitted, Page!ShownIsCurrent

LEMMA PageInvariance == MCSpec => [](IsPage => PageInductive)
<1>1. MCInit => (IsPage => PageInductive)
  BY PageStarts DEF MCInit, IsStore, IsHarness, IsPage, IsOutcome
<1>2. (IsPage => PageInductive)
        /\ [MCNext]_<<part, vars, harnessVars, pageVars, outcomeVars>>
        => (IsPage => PageInductive)'
  <2> SUFFICES ASSUME IsPage => PageInductive,
                      [MCNext]_<<part, vars, harnessVars, pageVars, outcomeVars>>, IsPage'
               PROVE  PageInductive'
    OBVIOUS
  <2>1. IsPage
    BY DEF IsPage, MCNext
  <2>2. CASE Page!Next
    BY <2>1, <2>2, PageStep
  <2>3. CASE UNCHANGED pageVars
    BY <2>1, <2>3 DEF pageVars, PageInductive, PageTypes, Answered, Page!Unsent, Served, Shown,
                        Followed, Page!Underway
  <2> QED BY <2>2, <2>3 DEF MCNext
<1> QED BY <1>1, <1>2, PTL DEF MCSpec

\* In whatever order answers, timers, lost identities and ended streams reach the page: a write
\* reported as rejected was not committed and no attempt of it is on its way; nothing the page
\* shows is older than the last commit it confirmed to the user; and a snapshot is followed by a
\* stream or by an operation that opens one, unless the last read of that operation was
\* superseded (workbench.ts, controller.ts).
THEOREM PageIsTrue == MCSpec => []ShownIsTrue
<1>1. (IsPage => PageInductive) => ShownIsTrue
  BY PageMeans DEF ShownIsTrue
<1> QED BY <1>1, PageInvariance, PTL

-----------------------------------------------------------------------------
(* The harness.  What WorkerHarnessProofs proves of it holds of the one of *)
(* this system, whose tasks, bounds and faults are its constants.          *)

LEMMA HarnessAssumed == Harness!WorkerHarnessAssumption
  BY TwoTasksAssumption DEF Harness!WorkerHarnessAssumption

LEMMA HarnessInvariance == MCSpec => [](IsHarness => Harness!Inductive)
<1>1. MCInit => (IsHarness => Harness!Inductive)
  BY HarnessAssumed, Harness!InitInductive DEF MCInit, IsStore, IsHarness, IsPage, IsOutcome
<1>2. (IsHarness => Harness!Inductive)
        /\ [MCNext]_<<part, vars, harnessVars, pageVars, outcomeVars>>
        => (IsHarness => Harness!Inductive)'
  <2> SUFFICES ASSUME IsHarness => Harness!Inductive,
                      [MCNext]_<<part, vars, harnessVars, pageVars, outcomeVars>>, IsHarness'
               PROVE  Harness!Inductive'
    OBVIOUS
  <2>1. IsHarness
    BY DEF IsHarness, MCNext
  <2>2. CASE Harness!Next
    BY <2>1, <2>2, HarnessAssumed, Harness!StepKeeps
  <2>3. CASE UNCHANGED harnessVars
    <3>1. UNCHANGED Harness!vars
      BY <2>3 DEF harnessVars, Harness!vars
    <3> QED BY <2>1, <3>1, HarnessAssumed, Harness!StepKeeps
  <2> QED BY <2>2, <2>3 DEF MCNext
<1> QED BY <1>1, <1>2, PTL DEF MCSpec

\* Whatever their lifecycle operations, owners and failures: two tasks' workers never run at
\* once, and nobody's supervisor is let go before its end or missed while its work is unfinished
\* (synthetic-harness.ts).
THEOREM TwoTasksStayInCustody == MCSpec => []TwoTasksInCustody
<1>1. Harness!Inductive =>
        Harness!OneProcess /\ Harness!ForgottenIsFinished /\ Harness!ObligationIsHeld
  BY HarnessAssumed, Harness!CustodyMeans, Harness!OneRuns
<1>2. (IsHarness => Harness!Inductive) => TwoTasksInCustody
  BY <1>1 DEF TwoTasksInCustody
<1> QED BY <1>2, HarnessInvariance, PTL
=============================================================================
