--------------------------- MODULE ProductOutbox ---------------------------
(***************************************************************************)
(* The commands of one principal, their receipts and the outbox of a Task  *)
(* Store (packages/memory-store/src/task-store-v1.ts).  A client that got  *)
(* no answer sends the command again, under the same idempotency key and   *)
(* the same or a new command id, to the same or to a later daemon; a       *)
(* consumer acknowledges the events of a workspace one at a time.          *)
(*                                                                         *)
(* The commands are of one kind and one task; what else they say is the    *)
(* revision they expect, and why else a reducer refuses them is any choice *)
(* (TaskSession).  Every commit is one transaction with its event and its  *)
(* receipt.  Both workspaces draw their cursors from the one outbox.       *)
(***************************************************************************)
EXTENDS Naturals, Sequences, FiniteSets

CONSTANTS
  Commands,   \* what clients send: [id, key, expected]
  Consumers,  \* who acknowledges
  MaxEvents   \* bound on the outbox

VARIABLES
  outbox,     \* task_outbox_v1: the workspace and the command of each event
  receipts,   \* task_receipt_v1: commands, with the cursor of their commit
  purged,     \* the receipts whose body is gone
  consumers,  \* task_consumer_v1: the cursor of each consumer
  published,  \* the cursors with publish_state "published"
  answers     \* the receipts clients were given: [command, at]
vars == <<outbox, receipts, purged, consumers, published, answers>>

NoCommand == [id |-> "none", key |-> "none", expected |-> 0]
MineAfter(cursor) == {k \in cursor + 1..Len(outbox) : outbox[k].workspace = "mine"}
Revision == Cardinality({k \in MineAfter(0) : outbox[k].command # NoCommand})

Init ==
  /\ outbox = <<>> /\ receipts = {} /\ purged = {} /\ published = {} /\ answers = {}
  /\ consumers = [c \in Consumers |-> 0]

\* Mutant of Earlier: a retry is known by its command id only.
SameId(c) == {r \in receipts : r.command.id = c.id}
\* The receipts a command may be a retry of.
Earlier(c) == {r \in receipts : r.command.id = c.id \/ r.command.key = c.key}
\* The one it is: one receipt, of its key, with a body of the same meaning.
Replays(c, r) ==
  /\ Earlier(c) = {r} /\ r.command.key = c.key
  /\ r \notin purged /\ r.command.expected = c.expected
\* The answer may be lost.
Answer(c, at) == answers' \in {answers, answers \cup {[command |-> c, at |-> at]}}
Record(workspace, c) ==
  /\ Len(outbox) < MaxEvents
  /\ outbox' = Append(outbox, [workspace |-> workspace, command |-> c])
ExecuteTask(c) ==
  /\ \/ /\ \E r \in Earlier(c) : Replays(c, r) /\ Answer(c, r.at)
        /\ UNCHANGED <<outbox, receipts>>
     \/ /\ Earlier(c) = {} /\ Revision = c.expected
        /\ Record("mine", c) /\ Answer(c, Len(outbox'))
        /\ receipts' = receipts \cup {[command |-> c, at |-> Len(outbox')]}
  /\ UNCHANGED <<purged, consumers, published>>
\* Events without a command of this principal: a fence, an input, another workspace's.
OtherEvent(workspace) ==
  /\ Record(workspace, NoCommand)
  /\ UNCHANGED <<receipts, purged, consumers, published, answers>>
PurgeBody(r) ==
  /\ purged' = purged \cup {r}
  /\ UNCHANGED <<outbox, receipts, consumers, published, answers>>

IsNext(event, cursor) ==
  event \in MineAfter(cursor) /\ \A k \in MineAfter(cursor) : event <= k
\* acknowledgeOutbox with the consumer's cursor as its caller last knew it.
AcknowledgeOutbox(consumer, event, expected) ==
  /\ consumers[consumer] = expected /\ IsNext(event, expected)
  /\ consumers' = [consumers EXCEPT ![consumer] = event]
  /\ published' = published \cup {event}
  /\ UNCHANGED <<outbox, receipts, purged, answers>>

Next ==
  \/ \E c \in Commands : ExecuteTask(c)
  \/ \E w \in {"mine", "other"} : OtherEvent(w)
  \/ \E r \in receipts \ purged : PurgeBody(r)
  \/ \E c \in Consumers, event \in 1..MaxEvents, expected \in 0..MaxEvents :
       AcknowledgeOutbox(c, event, expected)
Spec == Init /\ [][Next]_vars

(***************************************************************************)
(* Properties.                                                             *)
(***************************************************************************)
\* Whatever was lost, sent again, changed or purged: a key is committed at most once, and
\* every answer a client was given for it names that one commit.
CommittedOnce ==
  /\ \A j, k \in 1..Len(outbox) :
       (outbox[j].command # NoCommand /\ outbox[j].command.key = outbox[k].command.key) => j = k
  /\ \A a \in answers :
       /\ outbox[a.at].command.key = a.command.key
       /\ outbox[a.at].command.expected = a.command.expected
\* What consumers have published is all of the workspace's events up to the cursor of the
\* furthest one: none is skipped.
PublishedInOrder ==
  \E c \in Consumers :
    published = MineAfter(0) \ MineAfter(consumers[c])
=============================================================================
