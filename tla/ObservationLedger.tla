-------------------------- MODULE ObservationLedger --------------------------
(***************************************************************************)
(* The observation ledger                                                  *)
(* (packages/memory-store/src/sqlite-observation-ledger.ts): several       *)
(* processes append batches of normalized runtime events to one database,  *)
(* and a reader follows one session in pages.                              *)
(*                                                                         *)
(* The eventId of an event is the hash of its source slot (stream and      *)
(* sequence), its idempotency key the hash of its whole draft: two events  *)
(* with one key are one event.  Every transaction, the first of an open    *)
(* included, validates every row before it does anything.  A process may   *)
(* die, or lose the answer, before or after its transaction commits, and   *)
(* then sends the same batch again.  The row id is the position in rows;   *)
(* a row holds its event's columns and is decoded to the event.            *)
(***************************************************************************)
EXTENDS Integers, Sequences, SequencesExt, Pages

CONSTANTS
  Senders,      \* the processes that append
  Events,       \* what they append: records with a stream, a sequence and a body
  MaxBatch,     \* bound on the events of a batch
  MaxFaults,    \* bound on lost answers
  Limit         \* the reader's page size

VARIABLES
  rows,     \* runtime_events, by row_id
  sender,   \* by sender: the batch it wants appended and what it knows of it
  reader,   \* the session's reader: its afterRowId, what it has read, is it at the end?
  faults
vars == <<rows, sender, reader, faults>>

Session == "session"
Batches == UNION {[1..n -> Events] : n \in 1..MaxBatch}
EventId(event) == <<event.stream, event.sequence>>
InLedger(batch, ledger) == Range(batch) \subseteq Range(ledger)

\* validateAllRuntimeRows: in row order every stream's sequence increases.
Valid(ledger) == \A j, k \in DOMAIN ledger :
  j < k /\ ledger[j].stream = ledger[k].stream => ledger[j].sequence < ledger[k].sequence

\* The stream of an event has come as far as its sequence, or further.
Passed(ledger, event) == \E k \in DOMAIN ledger :
  ledger[k].stream = event.stream /\ event.sequence <= ledger[k].sequence
Existing(ledger, event) == {k \in DOMAIN ledger : EventId(ledger[k]) = EventId(event)}
Failed(state, code) == [state EXCEPT !.error = code]
Inserted(state, event) ==
  [state EXCEPT !.ledger = Append(@, event), !.rowIds = Append(@, Len(state.ledger) + 1)]
\* Mutant of AppendOne: the sequence is checked before the identity.
AppendSequenceFirst(state, event) ==
  IF state.error # "none" THEN state
  ELSE IF Passed(state.ledger, event) THEN Failed(state, "sequence")
  ELSE Inserted(state, event)
\* One event of a batch, against the rows there were and those the batch inserted before it.
AppendOne(state, event) ==
  LET existing == Existing(state.ledger, event) IN
  IF state.error # "none" THEN state
  ELSE IF existing # {}
  THEN LET k == CHOOSE k \in existing : TRUE IN
       IF state.ledger[k] = event THEN [state EXCEPT !.rowIds = Append(@, k)]
       ELSE Failed(state, "conflict")
  ELSE IF Passed(state.ledger, event) THEN Failed(state, "sequence")
  ELSE Inserted(state, event)
\* What the events of a batch make of the ledger, one after the other.
Steps(ledger, batch) ==
  LET step[k \in 0..Len(batch)] ==
        IF k = 0 THEN [ledger |-> ledger, rowIds |-> <<>>, error |-> "none"]
        ELSE AppendOne(step[k - 1], batch[k])
  IN step
Appended(ledger, batch) ==
  IF Valid(ledger) THEN Steps(ledger, batch)[Len(batch)]
  ELSE [ledger |-> ledger, rowIds |-> <<>>, error |-> "corruption"]

Idle == [batch |-> <<>>, state |-> "idle", rowIds |-> <<>>]
Init ==
  /\ rows = <<>> /\ faults = 0
  /\ sender = [s \in Senders |-> Idle]
  /\ reader = [after |-> 0, read |-> <<>>, ended |-> FALSE]

Send(s) ==
  /\ sender[s].state = "idle"
  /\ \E batch \in Batches : sender' = [sender EXCEPT ![s] = [Idle EXCEPT !.batch = batch, !.state = "sent"]]
  /\ UNCHANGED <<rows, reader, faults>>

\* The transaction that appends a batch: it commits all of it or rolls back.
AppendBatch(s) ==
  /\ sender[s].state = "sent"
  /\ LET result == Appended(rows, sender[s].batch) IN
     /\ rows' = IF result.error = "none" THEN result.ledger ELSE rows
     /\ sender' = [sender EXCEPT ![s] = IF result.error = "none"
                     THEN [@ EXCEPT !.state = "appended", !.rowIds = result.rowIds]
                     ELSE [@ EXCEPT !.state = result.error]]
  /\ UNCHANGED <<reader, faults>>

\* The sender's process ends, or its answer is lost, before or after the commit.
Lose(s) ==
  /\ sender[s].state \in {"sent", "appended", "conflict", "sequence"} /\ faults < MaxFaults
  /\ faults' = faults + 1 /\ sender' = [sender EXCEPT ![s].state = "sent", ![s].rowIds = <<>>]
  /\ UNCHANGED <<rows, reader>>
Done(s) ==
  /\ sender[s].state \in {"appended", "conflict", "sequence"}
  /\ sender' = [sender EXCEPT ![s] = Idle] /\ UNCHANGED <<rows, reader, faults>>

OfSession(ledger, positions) == {k \in positions \cap DOMAIN ledger : ledger[k].stream = Session}
\* Mutant of PageOf: the limit is applied before the session's rows are selected.
PageOfAnything(ledger, rowId) == FirstOf(OfSession(ledger, rowId + 1..rowId + Limit), Limit)
\* readSession: the rows of the session behind a row id, at most Limit of them.
PageOf(ledger, rowId) == FirstOf(OfSession(ledger, rowId + 1..Len(ledger)), Limit)
ReadPage ==
  /\ Valid(rows)
  /\ LET page == PageOf(rows, reader.after) IN
     reader' = [after |-> IF page = <<>> THEN reader.after ELSE Last(page),
                read |-> reader.read \o [k \in 1..Len(page) |-> rows[page[k]]],
                ended |-> Len(page) < Limit]
  /\ UNCHANGED <<rows, sender, faults>>

Next == ReadPage \/ \E s \in Senders : Send(s) \/ AppendBatch(s) \/ Lose(s) \/ Done(s)
Spec == Init /\ [][Next]_vars

(***************************************************************************)
(* Properties.                                                             *)
(***************************************************************************)
\* No batch the ledger accepts makes it refuse to be opened or read.
StaysReadable == Valid(rows)
\* A batch that is in the ledger is answered with its rows however often it is sent again and
\* whatever was appended since.
AnswersStand == \A batch \in Batches :
  InLedger(batch, rows) =>
    LET result == Appended(rows, batch)
    IN result.error = "none" /\ \A k \in DOMAIN batch : rows[result.rowIds[k]] = batch[k]
\* A refusal is final: a batch refused for a conflict, or refused although its own order is
\* right, is not in the ledger as a whole, then or later, and nobody meets corruption.
RefusalsStand == \A s \in Senders :
  /\ sender[s].state # "corruption"
  /\ sender[s].state = "conflict" \/ (sender[s].state = "sequence" /\ Valid(sender[s].batch))
       => ~InLedger(sender[s].batch, rows)
LedgerStands == StaysReadable /\ AnswersStand /\ RefusalsStand
\* A reader that goes from page to page has read every row of its session up to its cursor
\* once and in order, and when a short page tells it to stop it has missed none.
AreOfSession(events, ledger, positions) ==
  \E at \in [DOMAIN events -> OfSession(ledger, positions)] :
    /\ Ascending(at) /\ OfSession(ledger, positions) \subseteq On(at)
    /\ \A k \in DOMAIN events : events[k] = ledger[at[k]]
ReadsInOrder == AreOfSession(reader.read, rows, 1..reader.after)
EndIsTheEnd == (ReadPage /\ reader'.ended) => AreOfSession(reader'.read, rows, 1..Len(rows))
ReaderMissesNothing == []ReadsInOrder /\ [][EndIsTheEnd]_vars
=============================================================================
