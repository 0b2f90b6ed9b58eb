---------------------------- MODULE EventStream ----------------------------
(***************************************************************************)
(* The product's event stream: the rows a Task Store replays from its      *)
(* outbox (packages/memory-store/src/task-store-v1.ts), the server that    *)
(* writes them to one connection (apps/daemon/src/session-api/server.ts)   *)
(* under cursors only this process can read (cursor.ts), and a client that *)
(* reads a snapshot in pages, follows the stream and resumes from its last *)
(* cursor (apps/cli/src/session-client.ts).                                *)
(*                                                                         *)
(* A commit appends to the outbox and wakes the listeners in a microtask;  *)
(* opening a stream, and every pump, runs to its end in one go.  How much  *)
(* the socket takes before it asks to wait, and when a token or a          *)
(* qualification expires, is any choice.  wire holds what was written and  *)
(* not yet read; a connection that breaks loses a suffix of it.            *)
(***************************************************************************)
EXTENDS Naturals, Sequences, FiniteSets, Pages

CONSTANTS
  MaxEvents,    \* bound on the outbox
  MaxRows,      \* the rows of one replay
  MaxFaults     \* bound on restarts, lost connections, expiries and heartbeats

VARIABLES
  outbox,   \* task_outbox_v1; its cursors are the positions
  noticed,  \* is a listener's microtask queued?
  process,  \* the API process, whose keys the cursors are sealed with
  faults,   \* how many faults so far
  stream,   \* the server's side of the connection
  wire,     \* the frames written and not yet read by the client
  client    \* the client's cursor, the revisions it knows and a snapshot it reads
vars == <<outbox, noticed, process, faults, stream, wire, client>>

Workspaces == {"mine", "other"}
Entities == {"session", "task"}
NoToken == [process |-> 0, at |-> 0]
Closed == [open |-> FALSE, after |-> 0, waiting |-> FALSE, scheduled |-> FALSE]

RevisionAt(entity, cursor) ==
  Cardinality({k \in 1..cursor : outbox[k] = [workspace |-> "mine", entity |-> entity]})
Known(cursor) == [e \in Entities |-> RevisionAt(e, cursor)]
MineAfter(cursor) == {k \in cursor + 1..Len(outbox) : outbox[k].workspace = "mine"}
Watermark == CHOOSE k \in 0..Len(outbox) : MineAfter(k) = {} /\ (k = 0 \/ k \in MineAfter(k - 1))
\* The rows of a replay: the first MaxRows cursors after one, in order.
Page(after) == FirstOf(MineAfter(after), MaxRows)
HasMore(after) == ~(MineAfter(after) \subseteq On(Page(after)))
\* A replay fails with "sequence" for a cursor that is no row of the workspace.
Replayable(after) == after = 0 \/ after \in MineAfter(0)

Init ==
  /\ outbox = <<[workspace |-> "mine", entity |-> "session"]>> /\ noticed = FALSE
  /\ process = 1 /\ faults = 0 /\ stream = Closed /\ wire = <<>>
  /\ client = [mode |-> "idle", token |-> NoToken, known |-> [e \in Entities |-> 0],
               draft |-> [e \in Entities |-> 0], asOf |-> NoToken]

Commit(workspace, entity) ==
  /\ Len(outbox) < MaxEvents
  /\ outbox' = Append(outbox, [workspace |-> workspace, entity |-> entity])
  /\ noticed' = TRUE
  /\ UNCHANGED <<process, faults, stream, wire, client>>
Woken(s) == [s EXCEPT !.scheduled = s.scheduled \/ (s.open /\ ~s.waiting)]
Notify ==
  /\ noticed /\ noticed' = FALSE
  /\ stream' = Woken(stream)
  /\ UNCHANGED <<outbox, process, faults, wire, client>>

(***************************************************************************)
(* The server's side.                                                      *)
(***************************************************************************)
Frame(cursor) == [kind |-> "event", process |-> process, at |-> cursor,
                  entity |-> outbox[cursor].entity, revision |-> RevisionAt(outbox[cursor].entity, cursor)]
Ended(kind) == [kind |-> kind]
Fault == faults < MaxFaults /\ faults' = faults + 1

\* Mutant of Behind: the rows a full socket did not take are not read again.
BehindAll(after, page, written) == IF HasMore(after) THEN page[Len(page)] ELSE Watermark
\* Where a pump continues: behind the last row written, or behind all of them.
Behind(after, page, written) ==
  IF written = Len(page) /\ ~HasMore(after) THEN Watermark
  ELSE IF written = 0 THEN after ELSE page[written]

\* Rows are written until the socket is full, all are written, or one may not be.
Pumped(after, frames) ==
  LET page == Page(after) IN
  \E written \in 0..Len(page) :
    LET sent == frames \o [k \in 1..written |-> Frame(page[k])] IN
    \/ /\ written > 0
       /\ stream' = [open |-> TRUE, after |-> IF written = Len(page) THEN page[written]
                                              ELSE Behind(after, page, written),
                     waiting |-> TRUE, scheduled |-> FALSE]
       /\ wire' = sent /\ UNCHANGED faults
    \/ /\ written = Len(page)
       /\ stream' = [open |-> TRUE, after |-> Behind(after, page, written),
                     waiting |-> FALSE, scheduled |-> HasMore(after)]
       /\ wire' = sent /\ UNCHANGED faults
    \/ Fault /\ stream' = Closed /\ wire' = Append(sent, Ended("stream.error"))
Pump ==
  /\ stream.open /\ stream.scheduled
  /\ IF stream.waiting
     THEN stream' = [stream EXCEPT !.scheduled = FALSE] /\ UNCHANGED <<wire, faults>>
     ELSE Pumped(stream.after, wire)
  /\ UNCHANGED <<outbox, noticed, process, client>>
Heartbeat ==
  /\ stream.open /\ ~stream.waiting /\ Fault
  /\ stream' = [stream EXCEPT !.waiting = TRUE]
  /\ UNCHANGED <<outbox, noticed, process, wire, client>>
\* Mutant of Drained: the drained stream waits for the next commit.
DrainedOnly(s) == [s EXCEPT !.waiting = FALSE]
Drained(s) == [s EXCEPT !.waiting = FALSE, !.scheduled = TRUE]
Drain ==
  /\ stream.open /\ stream.waiting /\ stream' = Drained(stream)
  /\ UNCHANGED <<outbox, noticed, process, faults, wire, client>>
\* The connection ends: what was not read may be lost, in any case its end.
Cut == \E n \in 0..Len(wire) : wire' = Append(SubSeq(wire, 1, n), Ended("end"))
SlowConsumer ==
  /\ stream.open /\ stream.waiting /\ stream' = Closed /\ Cut
  /\ UNCHANGED <<outbox, noticed, process, faults, client>>
Disconnect ==
  /\ stream.open /\ Fault /\ stream' = Closed /\ Cut
  /\ UNCHANGED <<outbox, noticed, process, client>>
\* Another process, perhaps on a restored and so shorter outbox: the owners of the sessions
\* are fenced, the keys are new.
Restart ==
  /\ Fault /\ process' = process + 1
  /\ \E n \in 1..Len(outbox) :
       /\ n < MaxEvents
       /\ outbox' = Append(SubSeq(outbox, 1, n), [workspace |-> "mine", entity |-> "session"])
  /\ noticed' = FALSE /\ stream' = Closed
  /\ IF stream.open THEN Cut ELSE UNCHANGED wire
  /\ UNCHANGED client

(***************************************************************************)
(* The client's side, with the requests it makes.                          *)
(***************************************************************************)
Readable(token) == token.process = process
Adopt(token, known) ==
  client' = [client EXCEPT !.mode = "idle", !.token = token, !.known = known, !.asOf = NoToken]
GiveUp == client' = [client EXCEPT !.mode = "idle", !.token = NoToken, !.asOf = NoToken]
\* The first page holds the session, a second one the task if there is one.
FirstPage ==
  /\ client.mode = "idle" /\ wire = <<>>
  /\ LET asOf == [process |-> process, at |-> Watermark] IN
     IF RevisionAt("task", Watermark) = 0 THEN Adopt(asOf, Known(Watermark))
     ELSE client' = [client EXCEPT !.mode = "reading", !.asOf = asOf, !.draft = Known(Watermark)]
  /\ UNCHANGED <<outbox, noticed, process, faults, stream, wire>>
Continues(asOf) == Readable(asOf) /\ Watermark = asOf.at
NextPage ==
  /\ client.mode = "reading"
  /\ IF Continues(client.asOf)
     THEN Adopt(client.asOf, [client.draft EXCEPT !["task"] = RevisionAt("task", Watermark)])
     ELSE GiveUp
  /\ UNCHANGED <<outbox, noticed, process, faults, stream, wire>>
Connect ==
  /\ client.mode = "idle" /\ client.token # NoToken /\ ~stream.open /\ wire = <<>>
  /\ \/ /\ Readable(client.token) /\ Replayable(client.token.at)
        /\ Pumped(client.token.at, <<>>)
        /\ client' = [client EXCEPT !.mode = "streaming"]
     \/ /\ ~Readable(client.token) \/ ~Replayable(client.token.at)
        /\ GiveUp /\ UNCHANGED <<stream, wire, faults>>
     \/ Fault /\ GiveUp /\ UNCHANGED <<stream, wire>>
  /\ UNCHANGED <<outbox, noticed, process>>
\* What the client's tracker makes of an event.
Accepts(frame) ==
  client.known[frame.entity] = 0 \/ frame.revision <= client.known[frame.entity] + 1
Receive ==
  /\ client.mode = "streaming" /\ wire # <<>>
  /\ LET frame == Head(wire) IN
     \/ /\ frame.kind = "event"
        /\ IF Accepts(frame)
           THEN /\ client' = [client EXCEPT !.token = [process |-> frame.process, at |-> frame.at],
                     !.known[frame.entity] = IF frame.revision < @ THEN @ ELSE frame.revision]
                /\ wire' = Tail(wire) /\ UNCHANGED stream
           ELSE GiveUp /\ wire' = <<>> /\ stream' = Closed
     \/ /\ frame.kind = "stream.error" /\ GiveUp /\ wire' = <<>> /\ UNCHANGED stream
     \/ /\ frame.kind = "end" /\ client' = [client EXCEPT !.mode = "idle"]
        /\ wire' = <<>> /\ UNCHANGED stream
  /\ UNCHANGED <<outbox, noticed, process, faults>>

Next ==
  \/ \E w \in Workspaces, e \in Entities : Commit(w, e)
  \/ Notify \/ Pump \/ Heartbeat \/ Drain \/ SlowConsumer \/ Disconnect \/ Restart
  \/ FirstPage \/ NextPage \/ Connect \/ Receive
Fairness == WF_vars(Notify) /\ WF_vars(Pump) /\ WF_vars(Drain \/ SlowConsumer)
Spec == Init /\ [][Next]_vars
FairSpec == Spec /\ Fairness

(***************************************************************************)
(* Properties.                                                             *)
(***************************************************************************)
\* A client with a cursor knows exactly the revisions of the outbox at that cursor, whatever
\* was lost, repeated, resumed or read in pages between commits, if the server still reads
\* the cursor; and no event it is sent ever makes its tracker ask for a new snapshot.
SeesEveryEvent ==
  /\ (client.token # NoToken /\ Readable(client.token)) => client.known = Known(client.token.at)
  /\ (client.mode = "streaming" /\ wire # <<>> /\ Head(wire).kind = "event") => Accepts(Head(wire))
\* A stream is written all the rows of the outbox, or ends: no wake-up is lost between a
\* commit, a full socket and its drain.
StreamCatchesUp == []<>(~stream.open \/ stream.after = Watermark)
=============================================================================
