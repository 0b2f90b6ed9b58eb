----------------------------- MODULE StoreProofs -----------------------------
(***************************************************************************)
(* The stores' promises to their next reader.  First, the rows of the task *)
(* store (TaskRows): RowsAlwaysValid, from the invariant of                *)
(* TaskRowsInvariant.  A command's transaction is first said by the        *)
(* lengths of the tables before it and by what it adds at each place       *)
(* (Written), then every part of the invariant is shown of the rows it     *)
(* adds.  A command of the user or of the runtime need then only show that *)
(* its span is one its kind allows, and cites what that kind must cite     *)
(* (Shaped, Cites).                                                        *)
(*                                                                         *)
(* Then StoreRecovery for every set of contents, snapshots, generations    *)
(* and restores and any number of faults: what was forgotten is not        *)
(* readable again, the selected generation can be opened, and a copy       *)
(* reported as purged is gone.  Each copy remembers how much of the        *)
(* journal its database has applied, and nothing forgotten within that     *)
(* part is available in it; copying a database copies both (Databases).    *)
(* Between two steps a call works on a copy other than the active          *)
(* generation until the rename, and a purge record is ahead of the bytes   *)
(* it speaks of (Disk), so a failure or a crash at any step leaves only    *)
(* what the disk may hold.                                                 *)
(***************************************************************************)
EXTENDS TaskRowsInvariant, StoreRecovery

-----------------------------------------------------------------------------
(* The rows of the task store: what a commit has written.                 *)

Is(row, type, of, revision, about) ==
  /\ row.type = type /\ row.of = of /\ row.revision = revision /\ row.about = about
  /\ row.epoch = Owner.epoch /\ row.recovery = recovery /\ row.publish = "pending"
VersionType(i) == IF i = 1 THEN "task.created" ELSE "task.state_changed"
WroteVersions(t, span, all, n, m) ==
  /\ n \in Nat /\ n = Len(versions[t]) /\ m \in 1..16 /\ m = Len(span)
  /\ DOMAIN versions[t] = 1..n /\ DOMAIN versions'[t] = 1..(n + m)
  /\ Len(versions'[t]) = n + m /\ \A i \in 1..n : versions'[t][i] = versions[t][i]
  /\ \A i \in 1..m : Holds(versions'[t][n + i], span[i], all) /\ span[i] \in VersionRows
  /\ \A u \in Names : u # t => versions'[u] = versions[u]
WroteSessions(again, l) ==
  /\ sessions # <<>> /\ sessions' # <<>>
  /\ \A i \in 1..Len(sessions) : sessions'[i] = sessions[i]
  /\ ~again => sessions' = sessions
  /\ again => /\ Len(sessions') = Len(sessions) + 1
              /\ sessions'[Len(sessions) + 1].reason = "reauthorized"
              /\ sessions'[Len(sessions) + 1].owner = Owner.owner
              /\ sessions'[Len(sessions) + 1].epoch = Owner.epoch
              /\ sessions'[Len(sessions) + 1].authorized
              /\ sessions'[Len(sessions) + 1].recovery = recovery
              /\ sessions'[Len(sessions) + 1].cursor = l
              /\ ~Owner.authorized
  /\ Owner'.epoch = Owner.epoch /\ Owner.epoch \in Nat
WroteEvents(t, span, event, again, n, m, s, l) ==
  /\ s \in Nat /\ s = Len(outbox) /\ again \in BOOLEAN /\ l \in Nat
  /\ \/ event = 0 /\ ~again /\ l = s
     \/ event = 0 /\ again /\ l = s + 1
     \/ event # 0 /\ ~again /\ l = s + 1
  /\ Len(outbox') = l + m /\ DOMAIN outbox' = 1..(l + m) /\ DOMAIN outbox = 1..s
  /\ \A c \in 1..s : outbox'[c] = outbox[c]
  /\ event # 0 => Is(outbox'[s + 1], "task.progress", t, n, <<"working", 0, 0>>)
  /\ again => Is(outbox'[l], "session.owner_fenced", Session, Len(sessions) + 1, Nothing)
  /\ \A i \in 1..m : Is(outbox'[l + i], VersionType(n + i), t, n + i, <<span[i].state, 0, 0>>)
WroteReceipt(t, kind, span, event, n, m, l, q) ==
  /\ q \in Nat /\ q = Len(inputs) /\ Len(inputs') = q + 1 /\ Len(receipts) = q + 1 /\ Len(receipts') = q + 2
  /\ DOMAIN receipts' = 1..(q + 2) /\ DOMAIN inputs' = 1..(q + 1)
  /\ \A i \in 1..q : inputs'[i] = inputs[i]
  /\ \A i \in 1..(q + 1) : receipts'[i] = receipts[i]
  /\ receipts'[q + 2] = [task |-> t, kind |-> kind, revision |-> n + m, input |-> 0, cursor |-> l + m, event |-> event]
  /\ inputs'[q + 1] = InputRow(t, span[m], n + m, IF kind \in Internal THEN "internal" ELSE "user")
  /\ inputs'[q + 1] \in InputRows
WroteMessage(t, kind, span, event, n, m, s) ==
  \/ event = 0 /\ events' = events
  \/ /\ event = Len(events) + 1 /\ event \in Nat \ {0} /\ kind = "task.runtime"
     /\ Working(t) /\ Current(t).state = "RUNNING" /\ m = 1
     /\ span[1].state = "VERIFYING" /\ span[1].attempt = Attempt(t)
     /\ Len(events') = event /\ (\A e \in 1..Len(events) : events'[e] = events[e])
     /\ events'[event] \in EventRows /\ events'[event] = EventRow(t, s + 2)
WroteAttempts(t, span, m, p) ==
  /\ Started(t, span, p) /\ span[m].attempt \in AttemptNumbers
  /\ \A u \in Names : u # t => attempts'[u] = attempts[u]
  /\ Len(attempts'[t]) = span[m].attempt
  /\ \A k \in 1..Len(attempts'[t]) : k < Attempt(t) => attempts'[t][k] = attempts[t][k]
  /\ attempts'[t][span[m].attempt] = AttemptRow(span[m])
  /\ p < m /\ p > 0 => attempts'[t][Attempt(t)] = AttemptRow(span[p])
  /\ p = 0 /\ Exists(t) => attempts'[t][Attempt(t)] = attempts[t][Attempt(t)]
  /\ p = m => span[m].attempt = Attempt(t)
  /\ p < m => span[m].attempt = Attempt(t) + 1
Written(t, kind, span, facts, event, again, n, m, s, l, q) ==
  /\ Legal(t, kind, span, facts, event) /\ again = Reauthorizes(t, kind, span)
  /\ UNCHANGED <<recovery, consumers, runs, requests>>
  /\ WroteVersions(t, span, facts \cup ClosedFact(t, kind, span), n, m)
  /\ \E p \in 0..m : WroteAttempts(t, span, m, p)
  /\ WroteSessions(again, l) /\ WroteEvents(t, span, event, again, n, m, s, l)
  /\ WroteReceipt(t, kind, span, event, n, m, l, q) /\ WroteMessage(t, kind, span, event, n, m, s)

\* The columns of an event.
LEMMA RowIs ==
  ASSUME TypeOK, sessions # <<>>, NEW of \in Names \cup {Session}, NEW type \in SessionEvents \cup EventTypes,
         NEW revision \in Nat, NEW about \in Facts
  PROVE  Is(OutboxRow(type, of, revision, about), type, of, revision, about)
BY Typed DEF Is

\* executeTask, said by the lengths of the tables before it.
LEMMA CommitWrites ==
  ASSUME RowsInv, NEW t \in Names, NEW kind, NEW span, NEW facts, NEW earlier, NEW event,
         Commits(t, kind, span, facts, earlier, event),
         NEW again, again = Reauthorizes(t, kind, span), NEW n, n = Len(versions[t]), NEW m, m = Len(span),
         NEW s, s = Len(outbox), NEW l, l = Lead(t, kind, span, earlier), NEW q, q = Len(inputs)
  PROVE  TypeOK' /\ Written(t, kind, span, facts, event, again, n, m, s, l, q)
<1>1. TypeOK /\ AttemptsValid /\ ReceiptsKept /\ VersionsKept
  BY DEF RowsInv, RowsValid
<1>2. TypeOK'
  BY <1>1, CommitTypes
<1>3. Legal(t, kind, span, facts, event) /\ UNCHANGED <<recovery, consumers, runs, requests>> /\ sessions # <<>>
  BY Zenon DEF Commits, Execute, Legal
<1>4. m \in 1..16 /\ Last(span) = span[m] /\ (\A i \in 1..m : span[i] \in VersionRows) /\ n \in Nat
  BY <1>1, FinalAttempt, TaskTables
<1>5. WroteVersions(t, span, facts \cup ClosedFact(t, kind, span), n, m)
  <2>1. /\ Len(versions'[t]) = n + m /\ (\A i \in 1..n : versions'[t][i] = versions[t][i])
        /\ (\A i \in 1..m : Holds(versions'[t][n + i], span[i], facts \cup ClosedFact(t, kind, span)))
        /\ \A u \in Names : u # t => versions'[u] = versions[u]
    BY <1>1, CommitVersions
  <2>2. DOMAIN versions[t] = 1..n
    BY <1>1, TaskTables
  <2>3. DOMAIN versions'[t] = 1..(n + m)
    BY <1>2, <2>1, VersionColumnsAfter DEF VersionsColumned
  <2> QED BY <1>4, <2>1, <2>2, <2>3 DEF WroteVersions
<1>6. WroteSessions(again, l)
  <2>1. Owner.epoch \in Nat
    BY <1>1, <1>3, OwnerIs
  <2> QED BY <1>1, <1>3, <2>1, CommitSessions DEF WroteSessions
<1>7. event = 0 \/ event = Len(events) + 1
  BY DEF Commits
<1>8. Len(events) \in Nat /\ s \in Nat /\ q \in Nat /\ DOMAIN outbox = 1..s /\ Len(sessions) \in Nat
  BY <1>1, Tables
<1>9. l \in Nat /\ Len(outbox') = l + m /\ (\A c \in 1..s : outbox'[c] = outbox[c])
      /\ (event # 0 => outbox'[s + 1] = Progress(t) /\ Len(earlier) = 1) /\ (event = 0 => Len(earlier) = 0)
      /\ (again => outbox'[l] = FencedEvent)
      /\ \A i \in 1..m : outbox'[l + i] = VersionEvent(t, span, i)
  BY <1>1, CommitOutbox
<1>10. WroteEvents(t, span, event, again, n, m, s, l)
  <2>1. \/ event = 0 /\ ~again /\ l = s
        \/ event = 0 /\ again /\ l = s + 1
        \/ event # 0 /\ ~again /\ l = s + 1
    <3>1. PICK z \in Nat : z = Len(earlier)
      BY <1>7, <1>8, <1>9
    <3>2. l = s + z + (IF again THEN 1 ELSE 0)
      BY <3>1 DEF Lead
    <3>3. event # 0 => ~again
      BY <1>7 DEF Commits, Reauthorizes
    <3>4. s \in Nat /\ (event # 0 => z = 1) /\ (event = 0 => z = 0)
      BY <1>8, <1>9, <3>1
    <3>5. CASE again
      BY <3>2, <3>3, <3>4, <3>5
    <3>6. CASE ~again
      BY <3>2, <3>4, <3>6
    <3> QED BY <3>5, <3>6
  <2>2. again \in BOOLEAN
    BY DEF Reauthorizes
  <2>3. DOMAIN outbox' = 1..(l + m)
    BY <1>2, <1>9, ColumnsAfter DEF Columned
  <2>4. Is(Progress(t), "task.progress", t, n, <<"working", 0, 0>>)
    <3>1. <<"working", 0, 0>> \in Facts /\ t \in Names \cup {Session} /\ "task.progress" \in SessionEvents \cup EventTypes
      BY DEF Facts, About, EventTypes
    <3> QED BY <1>1, <1>3, <1>4, <3>1, RowIs DEF Progress
  <2>5. Is(FencedEvent, "session.owner_fenced", Session, Len(sessions) + 1, Nothing)
    <3>1. Nothing \in Facts /\ Session \in Names \cup {Session} /\ "session.owner_fenced" \in SessionEvents \cup EventTypes
      BY DEF Facts, Nothing, About, SessionEvents
    <3>2. Len(sessions) + 1 \in Nat
      BY <1>8
    <3> QED BY <1>1, <1>3, <3>1, <3>2, RowIs DEF FencedEvent
  <2>6. ASSUME NEW i \in 1..m
        PROVE  Is(VersionEvent(t, span, i), VersionType(n + i), t, n + i, <<span[i].state, 0, 0>>)
    <3>1. span[i].state \in TaskStates
      BY <1>4 DEF VersionRows
    <3>2. <<span[i].state, 0, 0>> \in Facts
      BY <3>1 DEF Facts, About
    <3>3. n + i \in Nat /\ t \in Names \cup {Session} /\ VersionType(n + i) \in SessionEvents \cup EventTypes
      BY <1>4 DEF EventTypes, VersionTypes, VersionType
    <3>4. VersionEvent(t, span, i) = OutboxRow(VersionType(n + i), t, n + i, <<span[i].state, 0, 0>>)
      BY DEF VersionEvent, VersionType
    <3> QED BY <1>1, <1>3, <3>2, <3>3, <3>4, RowIs
  <2> QED BY <1>8, <1>9, <2>1, <2>2, <2>3, <2>4, <2>5, <2>6 DEF WroteEvents
<1>11. WroteReceipt(t, kind, span, event, n, m, l, q)
  <2>1. Len(receipts) = q + 1
    BY <1>1, <1>3 DEF ReceiptsKept
  <2>2. /\ receipts' \in Seq(ReceiptRows) /\ Len(receipts') = Len(receipts) + 1
        /\ \A j \in 1..Len(receipts) : receipts'[j] = receipts[j]
        /\ receipts'[Len(receipts) + 1] =
              [task |-> t, kind |-> kind, revision |-> n + m, input |-> 0, cursor |-> Len(outbox'), event |-> event]
        /\ inputs' \in Seq(InputRows) /\ Len(inputs') = q + 1
        /\ (\A i \in 1..q : inputs'[i] = inputs[i])
        /\ inputs'[q + 1] = InputRow(t, Last(span), n + m, IF kind \in Internal THEN "internal" ELSE "user")
    BY <1>1, CommitRows
  <2>3. q + 1 \in Nat /\ (q + 1) + 1 = q + 2
    BY <1>8
  <2>4. inputs'[q + 1] \in InputRows
    BY <1>8, <2>2
  <2>5. DOMAIN receipts' = 1..(q + 2) /\ DOMAIN inputs' = 1..(q + 1)
    BY <2>1, <2>2, <2>3
  <2> QED BY <1>4, <1>8, <1>9, <2>1, <2>2, <2>3, <2>4, <2>5 DEF WroteReceipt
<1>12. WroteMessage(t, kind, span, event, n, m, s)
  <2>1. CASE event = 0 /\ UNCHANGED events
    BY <2>1 DEF WroteMessage
  <2>2. CASE /\ event = Len(events) + 1 /\ kind = "task.runtime"
             /\ Working(t) /\ Current(t).state = "RUNNING" /\ span = States(Current(t), <<"VERIFYING">>)
             /\ events' = Append(events, EventRow(t, Len(outbox) + 2))
    <3>1. PICK new : new = EventRow(t, s + 2)
      OBVIOUS
    <3>2. events' = Append(events, new) /\ events \in Seq(EventRows)
      BY <1>1, <2>2, <3>1 DEF TypeOK
    <3>3. events' \in Seq(EventRows)
      BY <1>2 DEF TypeOK
    <3>4. Len(events') = event /\ (\A e \in 1..Len(events) : events'[e] = events[e]) /\ events'[event] = new
          /\ event \in 1..Len(events')
      BY <1>8, <2>2, <3>2
    <3>5. events'[event] \in EventRows
      BY <3>3, <3>4
    <3>6. Exists(t) /\ Current(t) \in VersionRows /\ Attempt(t) = Current(t).attempt
      BY <1>1, <2>2, TaskTables DEF Working, Fenced, Owned, CurrentTask
    <3>7. span = [i \in 1..1 |-> To(Current(t), <<"VERIFYING">>[i])]
      BY <2>2 DEF States
    <3>8. m = 1 /\ span[1] = To(Current(t), "VERIFYING")
      BY <1>4, <3>7
    <3>9. span[1].state = "VERIFYING" /\ span[1].attempt = Attempt(t)
      BY <3>6, <3>8 DEF To, VersionRows
    <3> QED BY <1>8, <2>2, <3>1, <3>4, <3>5, <3>8, <3>9 DEF WroteMessage
  <2> QED BY <2>1, <2>2 DEF Commits
<1>13. \E p \in 0..m : WroteAttempts(t, span, m, p)
  <2>1. PICK p \in 0..Len(span) : Started(t, span, p)
    BY DEF Commits, Legal
  <2>2. Last(span).attempt \in AttemptNumbers
    BY <1>1, FinalAttempt
  <2>3. /\ attempts' \in [Names -> Seq(Rounds)]
        /\ \A u \in Names : u # t => attempts'[u] = attempts[u]
        /\ Len(attempts'[t]) = Last(span).attempt
        /\ \A k \in 1..Len(attempts'[t]) : k < Attempt(t) => attempts'[t][k] = attempts[t][k]
        /\ attempts'[t][Last(span).attempt] = AttemptRow(Last(span))
        /\ p < Len(span) /\ p > 0 => attempts'[t][Attempt(t)] = AttemptRow(span[p])
        /\ p = 0 /\ Exists(t) => attempts'[t][Attempt(t)] = attempts[t][Attempt(t)]
        /\ p = Len(span) => Last(span).attempt = Attempt(t)
        /\ p < Len(span) => Last(span).attempt = Attempt(t) + 1
    BY <1>1, <2>1, CommitAttempts
  <2> QED BY <1>4, <2>1, <2>2, <2>3 DEF WroteAttempts
<1> QED BY <1>2, <1>3, <1>5, <1>6, <1>10, <1>11, <1>12, <1>13 DEF Written

\* The rows a commit publishes: an event's progress, an authorization, its versions.
RowIsNew(c, t, span, event, again, n, m, s, l) ==
  \/ event # 0 /\ c = s + 1 /\ Is(outbox'[c], "task.progress", t, n, <<"working", 0, 0>>)
  \/ again /\ c = l /\ l > s /\ Is(outbox'[c], "session.owner_fenced", Session, Len(sessions) + 1, Nothing)
  \/ \E i \in 1..m : c = l + i /\ Is(outbox'[c], VersionType(n + i), t, n + i, <<span[i].state, 0, 0>>)

\* An event that executeTask adds is the progress, the new authority or one of a version.
LEMMA NewRows ==
  ASSUME NEW t, NEW span, NEW event, NEW again, NEW n, NEW m, NEW s, NEW l,
         WroteEvents(t, span, event, again, n, m, s, l), NEW c \in 1..Len(outbox'), c > s, m \in 1..16
  PROVE  RowIsNew(c, t, span, event, again, n, m, s, l)
<1>1. /\ s \in Nat /\ again \in BOOLEAN /\ l \in Nat
      /\ \/ event = 0 /\ ~again /\ l = s
         \/ event = 0 /\ again /\ l = s + 1
         \/ event # 0 /\ ~again /\ l = s + 1
      /\ Len(outbox') = l + m
      /\ event # 0 => Is(outbox'[s + 1], "task.progress", t, n, <<"working", 0, 0>>)
      /\ again => Is(outbox'[l], "session.owner_fenced", Session, Len(sessions) + 1, Nothing)
      /\ \A i \in 1..m : Is(outbox'[l + i], VersionType(n + i), t, n + i, <<span[i].state, 0, 0>>)
  BY DEF WroteEvents
<1>2. c \in 1..(l + m)
  BY <1>1
<1>3. CASE c > l
  <2>1. PICK i \in 1..m : c = l + i
    <3>0. l \in Nat
      BY <1>1
    <3>1. c - l \in 1..m /\ c = l + (c - l)
      BY <3>0, <1>2, <1>3
    <3> QED BY <3>1
  <2>2. Is(outbox'[l + i], VersionType(n + i), t, n + i, <<span[i].state, 0, 0>>)
    BY <1>1
  <2> QED BY <2>1, <2>2 DEF RowIsNew
<1>4. CASE c <= l /\ c = s + 1 /\ event # 0
  BY <1>1, <1>4 DEF RowIsNew
<1>5. CASE c <= l /\ ~(c = s + 1 /\ event # 0)
  <2>1. again /\ c = l /\ l > s
    <3>1. s \in Nat /\ l \in Nat /\ c \in Int
      BY <1>1, <1>2
    <3> QED BY <1>1, <1>5, <3>1
  <2> QED BY <1>1, <2>1 DEF RowIsNew
<1>6. c > l \/ c <= l
  <2>1. l \in Nat /\ c \in Int
    BY <1>1, <1>2
  <2> QED BY <2>1
<1> QED BY <1>3, <1>4, <1>5, <1>6

\* A version event is one, and the other rows are none.
LEMMA TypesApart ==
  /\ \A i : VersionType(i) \in VersionTypes /\ VersionType(i) \in EventTypes /\ VersionType(i) \notin SessionEvents
            /\ VersionType(i) # "task.input_committed" /\ VersionType(i) # "task.execution_closed"
            /\ VersionType(i) # "task.progress"
  /\ "task.progress" \notin VersionTypes /\ "session.owner_fenced" \notin VersionTypes
  /\ "task.progress" \in EventTypes /\ "task.progress" \notin SessionEvents
  /\ "session.owner_fenced" \in SessionEvents /\ "session.created" \notin VersionTypes
  BY DEF VersionType, VersionTypes, EventTypes, SessionEvents

\* executeTask only appends.
LEMMA CommitGrows ==
  ASSUME RowsInv, TypeOK', NEW t \in Names, NEW kind, NEW span, NEW facts, NEW event, NEW again, NEW n, NEW m,
         NEW s, NEW l, NEW q, Written(t, kind, span, facts, event, again, n, m, s, l, q)
  PROVE  Grows
<1>1. TypeOK /\ Session \notin Names
  BY DEF RowsInv, TypeOK, Bounds
<1>2. UNCHANGED <<recovery, runs, requests>>
  BY DEF Written
<1>3. /\ n \in Nat /\ n = Len(versions[t]) /\ m \in 1..16 /\ Len(versions'[t]) = n + m
      /\ (\A i \in 1..n : versions'[t][i] = versions[t][i])
      /\ \A u \in Names : u # t => versions'[u] = versions[u]
  BY DEF Written, WroteVersions
<1>4. WroteSessions(again, l) /\ WroteEvents(t, span, event, again, n, m, s, l)
  BY DEF Written
<1>5. /\ s \in Nat /\ s = Len(outbox) /\ again \in BOOLEAN /\ l \in Nat
      /\ \/ event = 0 /\ ~again /\ l = s
         \/ event = 0 /\ again /\ l = s + 1
         \/ event # 0 /\ ~again /\ l = s + 1
      /\ Len(outbox') = l + m /\ \A c \in 1..s : outbox'[c] = outbox[c]
  BY <1>4 DEF WroteEvents
<1>6. /\ q \in Nat /\ q = Len(inputs) /\ Len(inputs') = q + 1 /\ Len(receipts) = q + 1 /\ Len(receipts') = q + 2
      /\ (\A i \in 1..q : inputs'[i] = inputs[i]) /\ (\A i \in 1..(q + 1) : receipts'[i] = receipts[i])
      /\ receipts'[q + 2].revision = n + m /\ receipts'[q + 2].event = event /\ receipts'[q + 2].task = t
  <2>1. WroteReceipt(t, kind, span, event, n, m, l, q)
    BY DEF Written
  <2> QED BY <2>1 DEF WroteReceipt
<1>7. (event = 0 /\ events' = events) \/ (event = Len(events) + 1 /\ Len(events') = event /\ \A e \in 1..Len(events) : events'[e] = events[e])
  BY DEF Written, WroteMessage
<1>8. Len(events) \in Nat /\ Len(sessions) \in Nat /\ recovery \in Nat /\ requests \in Seq(RequestRows)
  BY <1>1, Tables DEF TypeOK
<1>9. recovery <= recovery' /\ Extends(requests, requests')
  BY <1>2, <1>8, SameTable
<1>10. Extends(sessions, sessions')
  BY <1>4, <1>8 DEF WroteSessions, Extends
<1>11. Extends(receipts, receipts') /\ Extends(inputs, inputs')
  BY <1>6 DEF Extends
<1>12. Extends(events, events')
  BY <1>7, <1>8 DEF Extends
<1>13. \A u \in Names : Extends(versions[u], versions'[u])
  <2> SUFFICES ASSUME NEW u \in Names PROVE Extends(versions[u], versions'[u])
    OBVIOUS
  <2>1. CASE u = t
    BY <1>3, <2>1 DEF Extends
  <2>2. CASE u # t
    <3>1. versions[u] \in Seq(VersionRows)
      BY <1>1, TaskTables
    <3> QED BY <1>3, <2>2, <3>1, SameTable
  <2> QED BY <2>1, <2>2
<1>14. Len(outbox) <= Len(outbox') /\ \A c \in 1..Len(outbox) : SameEvent(outbox[c], outbox'[c])
  <2>1. l \in Nat
    BY <1>5
  <2>2. s \in Nat /\ s <= l
    BY <1>5
  <2>3. m \in 1..16
    BY <1>3
  <2>4. s <= l + m
    BY <2>1, <2>2, <2>3
  <2>5. Len(outbox) <= Len(outbox')
    BY <1>5, <2>4
  <2> QED BY <1>5, <2>5, SameRow
<1>15. ASSUME NEW i \in 1..Len(sessions'), i > Len(sessions) PROVE sessions'[i].cursor > Len(outbox)
  <2>1. again /\ Len(sessions') = Len(sessions) + 1 /\ sessions'[Len(sessions) + 1].cursor = l
    BY <1>4, <1>5, <1>8, <1>15 DEF WroteSessions
  <2>2. i = Len(sessions) + 1 /\ l > s
    BY <1>5, <1>8, <1>15, <2>1
  <2> QED BY <1>5, <2>1, <2>2
<1>16. ASSUME NEW j \in 1..Len(receipts'), j > Len(receipts)
       PROVE  /\ receipts'[j].event = 0 \/ receipts'[j].event > Len(events)
              /\ receipts'[j].revision > Len(versions[receipts'[j].task])
  <2>1. j = q + 2
    BY <1>6, <1>16
  <2>2. event = 0 \/ event > Len(events)
    BY <1>7, <1>8
  <2>3. n + m > n
    <3>1. n \in Nat
      BY <1>3
    <3>2. m \in 1..16
      BY <1>3
    <3> QED BY <3>1, <3>2
  <2> QED BY <1>3, <1>6, <2>1, <2>2, <2>3
<1>17. ASSUME NEW c \in 1..Len(outbox'), c > Len(outbox), outbox'[c].type \in VersionTypes
       PROVE  outbox'[c].revision > Len(versions[outbox'[c].of])
  <2>1. PICK i \in 1..m : Is(outbox'[c], VersionType(n + i), t, n + i, <<span[i].state, 0, 0>>)
    <3>1. c > s /\ m \in 1..16
      BY <1>3, <1>5, <1>17
    <3>2. \/ event # 0 /\ c = s + 1 /\ Is(outbox'[c], "task.progress", t, n, <<"working", 0, 0>>)
          \/ again /\ c = l /\ l > s /\ Is(outbox'[c], "session.owner_fenced", Session, Len(sessions) + 1, Nothing)
          \/ \E i \in 1..m : c = l + i /\ Is(outbox'[c], VersionType(n + i), t, n + i, <<span[i].state, 0, 0>>)
      <4>1. RowIsNew(c, t, span, event, again, n, m, s, l)
        BY <1>4, <3>1, NewRows
      <4> QED BY <4>1 DEF RowIsNew
    <3>3. outbox'[c].type # "task.progress" /\ outbox'[c].type # "session.owner_fenced"
      BY <1>17, TypesApart
    <3> QED BY <3>2, <3>3 DEF Is
  <2>2. n \in Nat
    BY <1>3
  <2>3. n + i > n
    BY <2>2
  <2> QED BY <1>3, <2>1, <2>3 DEF Is
<1> QED BY <1>1, <1>2, <1>9, <1>10, <1>11, <1>12, <1>13, <1>14, <1>15, <1>16, <1>17, RunsExtend DEF Grows

\* The session after a commit, and the owner then.
LEMMA CommitSession ==
  ASSUME RowsInv, TypeOK', Grows, NEW t \in Names, NEW kind, NEW span, NEW facts, NEW event, NEW again, NEW n, NEW m,
         NEW s, NEW l, NEW q, Written(t, kind, span, facts, event, again, n, m, s, l, q)
  PROVE  SessionsValid' /\ Opened'
<1>1. TypeOK /\ sessions # <<>> /\ sessions' # <<>>
  BY DEF RowsInv, Written, WroteSessions
<1>2. recovery' = recovery /\ WroteSessions(again, l) /\ WroteEvents(t, span, event, again, n, m, s, l) /\ m \in 1..16
  BY DEF Written, WroteVersions
<1>3. again \in BOOLEAN
  BY <1>2 DEF WroteEvents
<1>4. CASE ~again
  <2>1. sessions' = sessions
    BY <1>2, <1>4 DEF WroteSessions
  <2> QED BY <1>1, <1>2, <2>1, SessionsSame DEF Opened
<1>5. CASE again
  <2>1. PICK x \in Nat \ {0} : x = Len(sessions) /\ Owner \in SessionRows
    <3>1. Len(sessions) \in Nat /\ Len(sessions) >= 1 /\ Owner \in SessionRows
      BY <1>1, OwnerIs, Tables
    <3> QED BY <3>1
  <2>2. PICK row : row = sessions'[x + 1]
    OBVIOUS
  <2>3. /\ Len(sessions') = x + 1 /\ row.reason = "reauthorized" /\ row.owner = Owner.owner /\ row.epoch = Owner.epoch
        /\ row.authorized /\ row.recovery = recovery /\ row.cursor = l /\ ~Owner.authorized
    BY <1>2, <1>5, <2>1, <2>2 DEF WroteSessions
  <2>4. Owner.recovery = recovery /\ Owner.epoch \in Nat
    BY <1>1, OwnerNow, OwnerIs
  <2>5. SessionStep(Owner, row)
    BY <2>3, <2>4 DEF SessionStep
  <2>6. l \in 1..(l + m) /\ DOMAIN outbox' = 1..(l + m) /\ Is(outbox'[l], "session.owner_fenced", Session, x + 1, Nothing)
    <3>1. l \in Nat
      BY <1>2 DEF WroteEvents
    <3>2. s \in Nat /\ l = s + 1
      BY <1>2, <1>5 DEF WroteEvents
    <3>3. m \in 1..16
      BY <1>2
    <3>4. l \in 1..(l + m)
      BY <3>1, <3>2, <3>3
    <3> QED BY <1>2, <1>5, <2>1, <3>4 DEF WroteEvents
  <2>7. SessionLinked(x + 1)'
    BY <2>2, <2>3, <2>6 DEF SessionLinked, Is
  <2>8. SessionsValid'
    BY <1>2, <2>1, <2>2, <2>3, <2>4, <2>5, <2>7, SessionsGrow
  <2> QED BY <1>1, <2>8 DEF Opened
<1> QED BY <1>3, <1>4, <1>5

\* A number up to a sum is up to the first part or beyond it.
LEMMA Earlier ==
  ASSUME NEW n \in Nat, NEW m \in Nat, NEW i \in 1..(n + m)
  PROVE  i \in 1..n \/ \E x \in 1..m : i = n + x
<1>1. CASE i > n
  <2>1. i - n \in 1..m /\ i = n + (i - n)
    BY <1>1
  <2> QED BY <2>1
<1> QED BY <1>1

\* The versions after a commit: those before it, and its span.
VersionsAre(t, span, all, n, m, a, b) ==
  /\ n \in Nat /\ m \in 1..16 /\ a \in Nat /\ b \in Nat
  /\ DOMAIN versions[t] = 1..n /\ DOMAIN versions'[t] = 1..(n + m)
  /\ (n > 0 <=> Exists(t)) /\ a = Attempt(t) /\ (n = 0 => a = 0) /\ (n > 0 => versions[t][n] = Current(t) /\ versions[t][n].attempt = a)
  /\ \A i \in 1..n : versions'[t][i] = versions[t][i] /\ versions[t][i].attempt \in 1..a
  /\ \A i \in 1..m :
       /\ versions'[t][n + i].state = span[i].state /\ versions'[t][n + i].outcome = span[i].outcome
       /\ versions'[t][n + i].attempt = span[i].attempt /\ versions'[t][n + i].intent = span[i].intent
       /\ versions'[t][n + i].epoch = Owner.epoch /\ versions'[t][n + i].recovery = recovery
       /\ versions'[t][n + i].facts = all
  /\ Current(t)' = versions'[t][n + m] /\ Attempt(t)' = b /\ b = span[m].attempt /\ b \in AttemptNumbers
  /\ Exists(t)'

\* The versions after executeTask: the old ones, then the span.
LEMMA CommitSpan ==
  ASSUME RowsInv, TypeOK', NEW t \in Names, NEW kind, NEW span, NEW facts, NEW event, NEW again, NEW n, NEW m,
         NEW s, NEW l, NEW q, Written(t, kind, span, facts, event, again, n, m, s, l, q),
         NEW all, all = facts \cup ClosedFact(t, kind, span),
         NEW a, a = Attempt(t), NEW b, b = span[m].attempt
  PROVE  VersionsAre(t, span, all, n, m, a, b)
<1>1. TypeOK /\ VersionsKept
  BY DEF RowsInv
<1>2. /\ n \in Nat /\ n = Len(versions[t]) /\ m \in 1..16 /\ m = Len(span)
      /\ DOMAIN versions[t] = 1..n /\ DOMAIN versions'[t] = 1..(n + m)
      /\ Len(versions'[t]) = n + m /\ (\A i \in 1..n : versions'[t][i] = versions[t][i])
      /\ \A i \in 1..m : Holds(versions'[t][n + i], span[i], all) /\ span[i] \in VersionRows
  BY DEF Written, WroteVersions
<1>3. \A i \in 1..m :
       /\ versions'[t][n + i].state = span[i].state /\ versions'[t][n + i].outcome = span[i].outcome
       /\ versions'[t][n + i].attempt = span[i].attempt /\ versions'[t][n + i].intent = span[i].intent
       /\ versions'[t][n + i].epoch = Owner.epoch /\ versions'[t][n + i].recovery = recovery
       /\ versions'[t][n + i].facts = all
  BY <1>2 DEF Holds
<1>4. (n > 0 <=> Exists(t)) /\ a \in Nat /\ (n = 0 => a = 0) /\ (n > 0 => versions[t][n] = Current(t) /\ versions[t][n].attempt = a)
  <2>1. CASE Exists(t)
    <3>1. n >= 1 /\ Current(t) = versions[t][n] /\ Attempt(t) = Current(t).attempt /\ Attempt(t) \in Nat
      BY <1>1, <1>2, <2>1, TaskTables
    <3> QED BY <1>2, <2>1, <3>1
  <2>2. CASE ~Exists(t)
    <3>1. n = 0 /\ Attempt(t) = 0
      BY <1>1, <1>2, <2>2, TaskTables
    <3> QED BY <2>2, <3>1
  <2> QED BY <2>1, <2>2
<1>5. \A i \in 1..n : versions[t][i].attempt \in 1..a
  BY <1>1, <1>2 DEF VersionsKept
<1>6. span[m].attempt \in AttemptNumbers
  BY DEF Written, WroteAttempts
<1>7. b \in AttemptNumbers /\ b \in Nat
  BY <1>6 DEF AttemptNumbers
<1>8. Exists(t)' /\ Current(t)' = versions'[t][n + m]
  <2>1. versions'[t] # <<>>
    <3>1. n \in Nat
      BY <1>2
    <3>2. m \in 1..16
      BY <1>2
    <3>3. n + m # 0
      BY <3>1, <3>2
    <3> QED BY <1>2, <3>3
  <2> QED BY <1>2, <2>1 DEF Exists, Current, Last
<1>9. Attempt(t)' = b
  <2>1. m \in 1..m
    BY <1>2
  <2>2. versions'[t][n + m].attempt = b
    BY <1>3, <2>1
  <2> QED BY <1>8, <2>2 DEF Attempt
<1> QED BY <1>2, <1>3, <1>4, <1>5, <1>7, <1>8, <1>9 DEF VersionsAre

\* The attempts of a commit's span: p of the present one, the rest of the next.
AttemptsAre(span, m, a, b, p) ==
  /\ p \in 0..m /\ \A i \in 1..m : span[i].attempt = (IF i <= p THEN a ELSE a + 1)
  /\ b = IF p = m THEN a ELSE a + 1

\* The attempts after executeTask: those of the span, up to one new one.
LEMMA CommitRounds ==
  ASSUME RowsInv, TypeOK', NEW t \in Names, NEW span, NEW all, NEW n, NEW m, NEW a, NEW b, NEW p,
         VersionsAre(t, span, all, n, m, a, b), WroteAttempts(t, span, m, p), p \in 0..m, m = Len(span)
  PROVE  AttemptsAre(span, m, a, b, p)
<1>1. m \in 1..16 /\ a = Attempt(t) /\ b = span[m].attempt
  BY DEF VersionsAre
<1>2. /\ \A i \in 1..p : span[i].attempt = a
      /\ \A i \in (p + 1)..m : span[i].attempt = a + 1
  BY <1>1 DEF WroteAttempts, Started
<1>3. ASSUME NEW i \in 1..m PROVE span[i].attempt = (IF i <= p THEN a ELSE a + 1)
  <2>1. m \in 1..16
    BY <1>1
  <2>2. CASE i <= p
    <3>1. i \in 1..p
      BY <2>2
    <3> QED BY <1>2, <2>2, <3>1
  <2>3. CASE ~(i <= p)
    <3>1. i \in (p + 1)..m
      BY <2>1, <2>3
    <3> QED BY <1>2, <2>3, <3>1
  <2> QED BY <2>2, <2>3
<1>4. b = IF p = m THEN a ELSE a + 1
  <2>1. m \in 1..16
    BY <1>1
  <2>2. m \in 1..m
    BY <2>1
  <2>3. m <= p <=> p = m
    BY <2>1
  <2> QED BY <1>1, <1>3, <2>2, <2>3
<1> QED BY <1>3, <1>4 DEF AttemptsAre

\* executeTask keeps the facts of the versions.
LEMMA CommitVersionsKept ==
  ASSUME RowsInv, TypeOK', NEW t \in Names, NEW kind, NEW span, NEW facts, NEW event, NEW again, NEW n, NEW m,
         NEW s, NEW l, NEW q, Written(t, kind, span, facts, event, again, n, m, s, l, q)
  PROVE  VersionsKept'
<1>1. TypeOK /\ VersionsKept
  BY DEF RowsInv
<1>2. /\ runs' = runs /\ Owner'.epoch = Owner.epoch /\ Owner.epoch \in Nat
      /\ \A u \in Names : u # t => versions'[u] = versions[u]
  BY DEF Written, WroteSessions, WroteVersions
<1>3. PICK all : all = facts \cup ClosedFact(t, kind, span)
  OBVIOUS
<1>4. PICK a : a = Attempt(t)
  OBVIOUS
<1>5. PICK b : b = span[m].attempt
  OBVIOUS
<1>6. VersionsAre(t, span, all, n, m, a, b)
  BY <1>1, <1>3, <1>4, <1>5, CommitSpan
<1>7. PICK p \in 0..m : WroteAttempts(t, span, m, p)
  BY DEF Written
<1>8. m = Len(span)
  BY DEF Written, WroteVersions
<1>9. AttemptsAre(span, m, a, b, p)
  BY <1>1, <1>6, <1>7, <1>8, CommitRounds
<1>10. /\ n \in Nat /\ m \in 1..16 /\ a \in Nat /\ b \in Nat
       /\ DOMAIN versions[t] = 1..n /\ DOMAIN versions'[t] = 1..(n + m)
       /\ (n > 0 <=> Exists(t)) /\ a = Attempt(t) /\ (n > 0 => versions[t][n] = Current(t) /\ versions[t][n].attempt = a)
       /\ \A i \in 1..n : versions'[t][i] = versions[t][i] /\ versions[t][i].attempt \in 1..a
  BY <1>6 DEF VersionsAre
<1>11. \A i \in 1..m :
         /\ versions'[t][n + i].state = span[i].state
         /\ versions'[t][n + i].attempt = span[i].attempt
         /\ versions'[t][n + i].epoch = Owner.epoch
         /\ versions'[t][n + i].facts = all
  BY <1>6 DEF VersionsAre
<1>12. /\ Current(t)' = versions'[t][n + m] /\ Attempt(t)' = b /\ b = span[m].attempt /\ b \in AttemptNumbers
  BY <1>6 DEF VersionsAre
<1>13. \A i \in 1..m : span[i].attempt = (IF i <= p THEN a ELSE a + 1)
  BY <1>9 DEF AttemptsAre
<1>14. (p = m => b = a) /\ (p # m => b = a + 1)
  BY <1>9 DEF AttemptsAre
<1>15. Legal(t, kind, span, facts, event)
  BY DEF Written
<1>16. n \in Nat
  BY <1>10
<1>17. m \in 1..16
  BY <1>10
<1>18. a \in Nat
  BY <1>10
<1>19. m \in 1..m
  BY <1>17
\* the last state
<1>20. Current(t)'.state = span[m].state /\ span[m].state # "CREATED"
  BY <1>8, <1>11, <1>12, <1>15, <1>19 DEF Legal
<1>21. ASSUME NEW i \in 1..m, span[i].attempt = b, span[i].state \in Halted PROVE span[m].state \in Halted
  <2>1. CASE b = a
    <3>1. p = m
      BY <1>14, <1>18, <2>1
    <3>2. m \in 1..m /\ i \in 1..m
      BY <1>17
    <3>4. p > 0
      BY <1>17, <3>1
    <3>3. Exists(t)
      BY <1>7, <3>4 DEF WroteAttempts, Started
    <3>5. Halted \cap ({Current(t).state} \cup {span[x].state : x \in 1..Len(span)}) # {}
      BY <1>8, <1>21, <3>2
    <3>6. span[Len(span)].attempt = Attempt(t)
      BY <1>4, <1>5, <1>8, <2>1
    <3> QED BY <1>8, <1>15, <3>3, <3>5, <3>6 DEF Legal
  <2>2. CASE b # a
    <3>1. b = a + 1
      BY <1>14, <2>2
    <3>2. ~(i <= p)
      BY <1>13, <1>18, <1>21, <3>1
    <3>3. i \in (p + 1)..Len(span)
      BY <1>8, <1>17, <3>2
    <3>4. span[i].state \notin Halted
      BY <1>7, <3>3 DEF WroteAttempts, Started
    <3> QED BY <1>21, <3>4
  <2> QED BY <2>1, <2>2
<1>22. ASSUME Exists(t), Current(t).state \in Halted, b = a PROVE span[m].state \in Halted
  <2>1. Halted \cap ({Current(t).state} \cup {span[x].state : x \in 1..Len(span)}) # {}
    BY <1>22
  <2>2. span[Len(span)].attempt = Attempt(t)
    BY <1>4, <1>5, <1>8, <1>22
  <2> QED BY <1>8, <1>15, <1>22, <2>1, <2>2 DEF Legal
\* the facts
<1>23. ASSUME NEW f \in all, f[1] = "run" PROVE f[2] \in AttemptNumbers /\ f[3] \in DOMAIN runs[t][f[2]]
  <2>1. f = CurrentRun(t) /\ HasRun(t, Attempt(t))
    <3>1. CASE f \in facts
      BY <1>15, <1>23, <3>1 DEF Legal
    <3>2. CASE f \in ClosedFact(t, kind, span)
      BY <3>2 DEF ClosedFact, CurrentRun, IsClosed
    <3> QED BY <1>3, <3>1, <3>2
  <2>2. a \in AttemptNumbers
    BY <1>4, <2>1 DEF HasRun
  <2>3. PICK z \in Nat : z = Len(runs[t][a]) /\ z >= 1 /\ DOMAIN runs[t][a] = 1..z
    BY <1>1, <1>4, <2>1, <2>2, RunTables
  <2>4. f = <<"run", a, z>>
    BY <1>4, <2>1, <2>3 DEF CurrentRun
  <2> QED BY <2>2, <2>3, <2>4
<1>24. ASSUME NEW i \in 1..n
       PROVE  /\ versions'[t][i] = versions[t][i] /\ versions[t][i].epoch <= Owner.epoch
              /\ versions[t][i].attempt \in 1..a
              /\ \A j \in 1..i : versions[t][j].attempt <= versions[t][i].attempt
              /\ versions[t][i].attempt = a /\ versions[t][i].state \in Halted => Current(t).state \in Halted
              /\ \A f \in versions[t][i].facts : f[1] = "run" =>
                   f[2] \in AttemptNumbers /\ f[3] \in DOMAIN runs[t][f[2]]
  BY <1>1, <1>4, <1>10 DEF VersionsKept
<1>25. a <= b
  BY <1>14, <1>18
<1>26. ASSUME NEW i \in DOMAIN versions'[t]
       PROVE  /\ versions'[t][i].epoch <= Owner.epoch
              /\ versions'[t][i].attempt \in 1..b
              /\ \A j \in 1..i : versions'[t][j].attempt <= versions'[t][i].attempt
              /\ versions'[t][i].attempt = b /\ versions'[t][i].state \in Halted => span[m].state \in Halted
              /\ \A f \in versions'[t][i].facts : f[1] = "run" =>
                   f[2] \in AttemptNumbers /\ f[3] \in DOMAIN runs[t][f[2]]
  <2>1. i \in 1..(n + m)
    BY <1>10
  <2>2. CASE i \in 1..n
    <3>1. \A j \in 1..i : j \in 1..n
      BY <1>16, <2>2
    <3>2. \A j \in 1..i : versions'[t][j] = versions[t][j]
      BY <1>10, <3>1
    <3>3. versions'[t][i].attempt \in 1..b
      <4>1. versions'[t][i].attempt \in 1..a
        BY <1>24, <2>2
      <4>2. b \in Nat
        BY <1>10
      <4> QED BY <1>18, <1>25, <4>1, <4>2
    <3>4. ASSUME versions'[t][i].attempt = b, versions'[t][i].state \in Halted PROVE span[m].state \in Halted
      <4>1. b = a
        <5>1. b \in 1..a
          BY <1>10, <2>2, <3>4
        <5> QED BY <1>18, <1>25, <5>1
      <4>2. Exists(t)
        BY <1>10, <2>2
      <4> QED BY <1>22, <1>24, <2>2, <3>4, <4>1, <4>2
    <3> QED BY <1>24, <2>2, <3>2, <3>3, <3>4
  <2>3. ASSUME NEW x \in 1..m, i = n + x
        PROVE  /\ versions'[t][i].epoch <= Owner.epoch
               /\ versions'[t][i].attempt \in 1..b
               /\ \A j \in 1..i : versions'[t][j].attempt <= versions'[t][i].attempt
               /\ versions'[t][i].attempt = b /\ versions'[t][i].state \in Halted => span[m].state \in Halted
               /\ \A f \in versions'[t][i].facts : f[1] = "run" =>
                    f[2] \in AttemptNumbers /\ f[3] \in DOMAIN runs[t][f[2]]
    <3>1. versions'[t][i].state = span[x].state /\ versions'[t][i].attempt = span[x].attempt
          /\ versions'[t][i].epoch = Owner.epoch /\ versions'[t][i].facts = all
      BY <1>11, <2>3
    <3>2. span[x].attempt = (IF x <= p THEN a ELSE a + 1)
      BY <1>13
    <3>3. x <= p => p > 0
      OBVIOUS
    <3>4. p > 0 => a >= 1
      <4>1. p > 0 => Exists(t)
        BY <1>7 DEF WroteAttempts, Started
      <4>2. n > 0 => a >= 1
        <5>1. n > 0 => n \in 1..n
          BY <1>16
        <5> QED BY <1>10, <1>18, <5>1
      <4> QED BY <1>10, <4>1, <4>2
    <3>5. span[x].attempt \in 1..b
      <4>1. CASE x <= p /\ p = m
        BY <1>14, <1>18, <3>2, <3>3, <3>4, <4>1
      <4>2. CASE x <= p /\ p # m
        BY <1>14, <1>18, <3>2, <3>3, <3>4, <4>2
      <4>3. CASE ~(x <= p)
        <5>1. p # m
          BY <4>3
        <5> QED BY <1>14, <1>18, <3>2, <4>3, <5>1
      <4> QED BY <4>1, <4>2, <4>3
    <3>6. ASSUME NEW j \in 1..i PROVE versions'[t][j].attempt <= span[x].attempt
      <4>1. CASE j \in 1..n
        <5>1. versions'[t][j].attempt \in 1..a
          BY <1>10, <4>1
        <5> QED BY <1>18, <3>2, <5>1
      <4>2. ASSUME NEW y \in 1..m, j = n + y PROVE versions'[t][j].attempt <= span[x].attempt
        <5>1. y <= x
          BY <1>16, <2>3, <4>2
        <5>2. versions'[t][j].attempt = (IF y <= p THEN a ELSE a + 1)
          BY <1>11, <1>13, <4>2
        <5>3. CASE y <= p
          BY <1>18, <3>2, <5>2, <5>3
        <5>4. CASE ~(y <= p)
          BY <1>18, <3>2, <5>1, <5>2, <5>4
        <5> QED BY <5>3, <5>4
      <4>3. j \in 1..(n + m)
        BY <1>16, <1>17, <2>3
      <4>4. j \in 1..n \/ \E y \in 1..m : j = n + y
        <5>1. m \in Nat
          BY <1>17
        <5> QED BY <1>16, <4>3, <5>1, Earlier
      <4> QED BY <4>1, <4>2, <4>4
    <3> QED BY <1>2, <1>21, <1>23, <3>1, <3>5, <3>6
  <2>4. i \in 1..n \/ \E x \in 1..m : i = n + x
    <3>1. m \in Nat
      BY <1>17
    <3> QED BY <1>16, <2>1, <3>1, Earlier
  <2> QED BY <2>2, <2>3, <2>4
<1>27. ASSUME NEW u \in Names
       PROVE  /\ Exists(u)' => Current(u)'.state # "CREATED" /\ Attempt(u)' \in AttemptNumbers
              /\ \A i \in DOMAIN versions'[u] :
                   /\ versions'[u][i].epoch <= Owner'.epoch
                   /\ versions'[u][i].attempt \in 1..Attempt(u)'
                   /\ \A j \in 1..i : versions'[u][j].attempt <= versions'[u][i].attempt
                   /\ versions'[u][i].attempt = Attempt(u)' /\ versions'[u][i].state \in Halted =>
                        Current(u)'.state \in Halted
                   /\ \A f \in versions'[u][i].facts : f[1] = "run" =>
                        f[2] \in AttemptNumbers /\ f[3] \in DOMAIN runs'[u][f[2]]
  <2>1. CASE u = t
    BY <1>2, <1>12, <1>20, <1>26, <2>1
  <2>2. CASE u # t
    <3>1. versions'[u] = versions[u]
      BY <1>2, <2>2
    <3>2. Exists(u)' = Exists(u) /\ Current(u)' = Current(u) /\ Attempt(u)' = Attempt(u)
      BY <3>1 DEF Exists, Current, Attempt
    <3> QED BY <1>1, <1>2, <3>1, <3>2 DEF VersionsKept
  <2> QED BY <2>1, <2>2
<1> QED BY <1>27 DEF VersionsKept

\* The row of an attempt has two of a version's columns.
LEMMA SameRound ==
  ASSUME NEW v, NEW w, v.state = w.state, v.intent = w.intent
  PROVE  AttemptRow(v) = AttemptRow(w)
  BY DEF AttemptRow

\* These columns.
LEMMA RoundIs ==
  ASSUME NEW v
  PROVE  AttemptRow(v).intent = v.intent /\ (v.state \in Terminal => ~AttemptRow(v).active)
  BY DEF AttemptRow

\* The rows of the attempts are those of their last versions.
LEMMA CommitAttemptsKept ==
  ASSUME RowsInv, TypeOK', NEW t \in Names, NEW kind, NEW span, NEW facts, NEW event, NEW again, NEW n, NEW m,
         NEW s, NEW l, NEW q, Written(t, kind, span, facts, event, again, n, m, s, l, q)
  PROVE  AttemptsValid'
<1>1. TypeOK /\ VersionsKept /\ AttemptsValid
  BY DEF RowsInv, RowsValid
<1>2. \A u \in Names : u # t => versions'[u] = versions[u]
  BY DEF Written, WroteVersions
<1>3. PICK all : all = facts \cup ClosedFact(t, kind, span)
  OBVIOUS
<1>4. PICK a : a = Attempt(t)
  OBVIOUS
<1>5. PICK b : b = span[m].attempt
  OBVIOUS
<1>6. VersionsAre(t, span, all, n, m, a, b)
  BY <1>1, <1>3, <1>4, <1>5, CommitSpan
<1>7. PICK p \in 0..m : WroteAttempts(t, span, m, p)
  BY DEF Written
<1>8. m = Len(span)
  BY DEF Written, WroteVersions
<1>9. AttemptsAre(span, m, a, b, p)
  BY <1>1, <1>6, <1>7, <1>8, CommitRounds
<1>10. /\ DOMAIN versions[t] = 1..n /\ DOMAIN versions'[t] = 1..(n + m)
       /\ (n > 0 <=> Exists(t)) /\ a = Attempt(t) /\ (n > 0 => versions[t][n] = Current(t) /\ versions[t][n].attempt = a)
       /\ \A i \in 1..n : versions'[t][i] = versions[t][i] /\ versions[t][i].attempt \in 1..a
  BY <1>6 DEF VersionsAre
<1>11. \A i \in 1..m :
         /\ versions'[t][n + i].state = span[i].state /\ versions'[t][n + i].outcome = span[i].outcome
         /\ versions'[t][n + i].attempt = span[i].attempt /\ versions'[t][n + i].intent = span[i].intent
  BY <1>6 DEF VersionsAre
<1>12. Attempt(t)' = b /\ b \in AttemptNumbers
  BY <1>6 DEF VersionsAre
<1>13. \A i \in 1..m : span[i].attempt = (IF i <= p THEN a ELSE a + 1)
  BY <1>9 DEF AttemptsAre
<1>14. (p = m => b = a) /\ (p # m => b = a + 1)
  BY <1>9 DEF AttemptsAre
<1>15. Legal(t, kind, span, facts, event)
  BY DEF Written
<1>16. n \in Nat
  BY <1>6 DEF VersionsAre
<1>17. m \in 1..16
  BY <1>6 DEF VersionsAre
<1>18. a \in Nat
  BY <1>6 DEF VersionsAre
<1>19. m \in Nat
  BY <1>17
<1>20. ASSUME NEW i \in 1..(n + m) PROVE i \in 1..n \/ \E x \in 1..m : i = n + x
  BY <1>16, <1>19, Earlier
<1>21. /\ \A u \in Names : u # t => attempts'[u] = attempts[u]
       /\ Len(attempts'[t]) = b
       /\ \A k \in 1..b : k < a => attempts'[t][k] = attempts[t][k]
       /\ attempts'[t][b] = AttemptRow(span[m])
       /\ p < m /\ p > 0 => attempts'[t][a] = AttemptRow(span[p])
       /\ p = 0 /\ Exists(t) => attempts'[t][a] = attempts[t][a]
  BY <1>4, <1>5, <1>7 DEF WroteAttempts
<1>22. /\ \A i \in 1..p : span[i].intent = Current(t).intent
       /\ \A i \in (p + 1)..m : span[i].intent = span[p + 1].intent
       /\ p < m => span[p + 1].state = "CREATED"
       /\ p < m /\ p > 0 => span[p].state \in Terminal
       /\ p > 0 => Exists(t)
       /\ p = 0 /\ Exists(t) => Current(t).state \in Terminal
  BY <1>7, <1>8 DEF WroteAttempts, Started
<1>23. DOMAIN attempts'[t] = 1..b
  <2>1. attempts'[t] \in Seq(Rounds)
    BY DEF TypeOK
  <2> QED BY <1>21, <2>1
\* outcomes
<1>24. ASSUME NEW i \in 1..(n + m) PROVE OutcomeValid(versions'[t][i])
  <2>1. CASE i \in 1..n
    <3>1. OutcomeValid(versions[t][i])
      BY <1>1, <1>10, <2>1 DEF AttemptsValid
    <3> QED BY <1>10, <2>1, <3>1
  <2>2. ASSUME NEW x \in 1..m, i = n + x PROVE OutcomeValid(versions'[t][i])
    <3>1. OutcomeValid(span[x])
      BY <1>8, <1>15 DEF Legal
    <3> QED BY <1>11, <2>2, <3>1 DEF OutcomeValid
  <2> QED BY <1>20, <2>1, <2>2
\* attempts one after the other
<1>25. ASSUME NEW i \in 2..(n + m)
       PROVE  versions'[t][i].attempt \in {versions'[t][i - 1].attempt, versions'[t][i - 1].attempt + 1}
  <2>1. CASE i \in 1..n
    <3>1. i \in 2..n /\ i \in 1..n /\ i - 1 \in 1..n
      BY <1>16, <2>1
    <3>2. versions[t][i].attempt \in {versions[t][i - 1].attempt, versions[t][i - 1].attempt + 1}
      <4>1. i \in 2..Len(versions[t])
        BY <3>1 DEF Written, WroteVersions
      <4> QED BY <1>1, <4>1 DEF AttemptsValid
    <3> QED BY <1>10, <3>1, <3>2
  <2>2. ASSUME NEW x \in 1..m, i = n + x
        PROVE  versions'[t][i].attempt \in {versions'[t][i - 1].attempt, versions'[t][i - 1].attempt + 1}
    <3>1. CASE x = 1
      <4>1. n > 0 /\ i - 1 = n /\ n \in 1..n
        BY <1>16, <2>2, <3>1
      <4>2. Exists(t)
        BY <1>10, <4>1
      <4>3. StepOK(kind, Current(t), span[1])
        BY <1>15, <4>2 DEF Legal
      <4>4. versions'[t][n].attempt = Current(t).attempt
        BY <1>10, <4>1
      <4>5. span[1].attempt \in {Current(t).attempt, Current(t).attempt + 1}
        BY <4>3 DEF StepOK
      <4> QED BY <1>11, <2>2, <3>1, <4>1, <4>4, <4>5
    <3>2. CASE x # 1
      <4>1. PICK y \in 1..m : x - 1 = y
        <5>1. x - 1 \in 1..m
          BY <1>17, <3>2
        <5> QED BY <5>1
      <4>2. x \in 2..Len(span)
        BY <1>8, <1>17, <3>2
      <4>3. StepOK(kind, span[x - 1], span[x])
        BY <1>15, <4>2 DEF Legal
      <4>4. span[x].attempt \in {span[y].attempt, span[y].attempt + 1}
        BY <4>1, <4>3 DEF StepOK
      <4>5. i - 1 = n + y
        BY <1>16, <2>2, <4>1
      <4> QED BY <1>11, <2>2, <4>4, <4>5
    <3> QED BY <3>1, <3>2
  <2>3. i \in 1..(n + m)
    BY <1>16, <1>17
  <2> QED BY <1>20, <2>1, <2>2, <2>3
\* the versions of each attempt
<1>26. ASSUME NEW k, NEW i \in VersionsOf(t, k) PROVE i \in VersionsOf(t, k)' /\ i \in 1..n /\ versions'[t][i] = versions[t][i]
  <2>1. i \in 1..n /\ versions[t][i].attempt = k
    BY <1>10, <1>26 DEF VersionsOf
  <2>2. i \in 1..(n + m)
    BY <1>16, <1>17, <2>1
  <2> QED BY <1>10, <2>1, <2>2 DEF VersionsOf
<1>27. ASSUME NEW k, NEW i \in VersionsOf(t, k)'
       PROVE  (i \in 1..n /\ i \in VersionsOf(t, k)) \/ \E x \in 1..m : i = n + x /\ span[x].attempt = k
  <2>1. i \in 1..(n + m) /\ versions'[t][i].attempt = k
    BY <1>10 DEF VersionsOf
  <2>2. CASE i \in 1..n
    BY <1>10, <2>1, <2>2 DEF VersionsOf
  <2>3. ASSUME NEW x \in 1..m, i = n + x PROVE span[x].attempt = k
    BY <1>11, <2>1, <2>3
  <2> QED BY <1>20, <2>1, <2>2, <2>3
<1>28. Exists(t) => Len(attempts[t]) = a /\ DOMAIN attempts[t] = 1..a /\ a >= 1
  <2>1. Exists(t) => Len(attempts[t]) = a /\ DOMAIN attempts[t] = 1..a
    BY <1>1, <1>4, TaskTables DEF AttemptsValid
  <2>2. n > 0 => n \in 1..n
    BY <1>16
  <2>3. Exists(t) => a \in 1..a
    BY <1>10, <2>2
  <2> QED BY <1>18, <2>1, <2>3
<1>29. ASSUME NEW k \in 1..b, k < a PROVE AttemptValid(t, k)'
  <2>1. n > 0 /\ Exists(t)
    <3>1. a # 0
      BY <1>18, <1>29
    <3>2. ~Exists(t) => a = 0
      BY <1>4 DEF Attempt
    <3> QED BY <1>10, <3>1, <3>2
  <2>2. k \in DOMAIN attempts[t] /\ k < Len(attempts[t])
    BY <1>18, <1>28, <1>29, <2>1
  <2>3. AttemptValid(t, k)
    BY <1>1, <2>2 DEF AttemptsValid
  <2>4. VersionsOf(t, k)' = VersionsOf(t, k)
    <3>1. \A x \in 1..m : span[x].attempt # k
      BY <1>13, <1>18, <1>29
    <3> QED BY <1>26, <1>27, <3>1
  <2>5. \A i \in VersionsOf(t, k) : versions'[t][i] = versions[t][i]
    BY <1>26
  <2>6. attempts'[t][k] = attempts[t][k]
    BY <1>21, <1>29
  <2>7. ~attempts[t][k].active
    BY <2>2, <2>3 DEF AttemptValid
  <2>8. \E i \in VersionsOf(t, k)' :
          (\A j \in VersionsOf(t, k)' : i <= j) /\ versions'[t][i].state = "CREATED"
    BY <2>3, <2>4, <2>5 DEF AttemptValid
  <2>9. \E i \in VersionsOf(t, k)' :
          (\A j \in VersionsOf(t, k)' : j <= i) /\ attempts'[t][k] = AttemptRow(versions'[t][i])
    BY <2>3, <2>4, <2>5, <2>6 DEF AttemptValid
  <2>10. \A i \in VersionsOf(t, k)' : versions'[t][i].intent = attempts'[t][k].intent
    BY <2>3, <2>4, <2>5, <2>6 DEF AttemptValid
  <2> QED BY <2>6, <2>7, <2>8, <2>9, <2>10 DEF AttemptValid
<1>30. ASSUME Exists(t), NEW k \in 1..b, k = a PROVE AttemptValid(t, k)'
  <2>1. n > 0 /\ versions[t][n] = Current(t) /\ n \in VersionsOf(t, a) /\ n \in 1..n
    <3>1. n > 0 /\ n \in 1..n
      BY <1>10, <1>16, <1>30
    <3> QED BY <1>10, <3>1 DEF VersionsOf
  <2>2. AttemptValid(t, a) /\ a \in DOMAIN attempts[t]
    <3>1. a \in DOMAIN attempts[t]
      BY <1>18, <1>28, <1>30
    <3> QED BY <1>1, <3>1 DEF AttemptsValid
  <2>3. \A i \in VersionsOf(t, a) : versions[t][i].intent = attempts[t][a].intent
    BY <2>2 DEF AttemptValid
  <2>4. attempts[t][a].intent = Current(t).intent
    BY <2>1, <2>3
  <2>5. ASSUME NEW x \in 1..m, span[x].attempt = a PROVE x \in 1..p
    BY <1>13, <1>18, <2>5
  <2>6. \E i \in VersionsOf(t, a)' : (\A j \in VersionsOf(t, a)' : i <= j) /\ versions'[t][i].state = "CREATED"
    <3>1. PICK i \in VersionsOf(t, a) : (\A j \in VersionsOf(t, a) : i <= j) /\ versions[t][i].state = "CREATED"
      BY <2>2 DEF AttemptValid
    <3>2. i \in VersionsOf(t, a)' /\ i \in 1..n /\ versions'[t][i] = versions[t][i]
      BY <1>26
    <3>3. ASSUME NEW j \in VersionsOf(t, a)' PROVE i <= j
      <4>1. ASSUME NEW x \in 1..m, j = n + x PROVE i <= j
        BY <1>16, <3>2, <4>1
      <4> QED BY <1>27, <3>1, <4>1
    <3> QED BY <3>1, <3>2, <3>3
  <2>7. CASE p > 0
    <3>1. p \in 1..m /\ span[p].attempt = a /\ p \in 1..p
      BY <1>13, <1>17, <2>7
    <3>2. attempts'[t][a] = AttemptRow(span[p])
      <4>1. CASE p = m
        BY <1>14, <1>21, <4>1
      <4>2. CASE p # m
        <5>1. p < m
          BY <1>17, <4>2
        <5> QED BY <1>21, <2>7, <5>1
      <4> QED BY <4>1, <4>2
    <3>3. AttemptRow(versions'[t][n + p]) = AttemptRow(span[p])
      BY <1>11, <3>1, SameRound
    <3>4. n + p \in VersionsOf(t, a)'
      <4>1. n + p \in 1..(n + m)
        BY <1>16, <1>17, <3>1
      <4> QED BY <1>10, <1>11, <3>1, <4>1 DEF VersionsOf
    <3>5. ASSUME NEW j \in VersionsOf(t, a)' PROVE j <= n + p
      <4>1. ASSUME NEW x \in 1..m, j = n + x, span[x].attempt = a PROVE j <= n + p
        <5>1. x \in 1..p
          BY <2>5, <4>1
        <5> QED BY <1>16, <4>1, <5>1
      <4>2. j \in 1..n => j <= n + p
        BY <1>16, <3>1
      <4> QED BY <1>27, <4>1, <4>2
    <3>6. \E i \in VersionsOf(t, a)' : (\A j \in VersionsOf(t, a)' : j <= i) /\ attempts'[t][a] = AttemptRow(versions'[t][i])
      BY <3>2, <3>3, <3>4, <3>5
    <3>7. attempts'[t][a].intent = Current(t).intent
      <4>1. AttemptRow(span[p]).intent = span[p].intent
        BY RoundIs
      <4> QED BY <1>22, <3>1, <3>2, <4>1
    <3>8. \A i \in VersionsOf(t, a)' : versions'[t][i].intent = attempts'[t][a].intent
      <4>1. ASSUME NEW i \in VersionsOf(t, a)' PROVE versions'[t][i].intent = Current(t).intent
        <5>1. ASSUME NEW x \in 1..m, i = n + x, span[x].attempt = a PROVE versions'[t][i].intent = Current(t).intent
          <6>1. x \in 1..p
            BY <2>5, <5>1
          <6> QED BY <1>11, <1>22, <5>1, <6>1
        <5>2. i \in 1..n /\ i \in VersionsOf(t, a) => versions'[t][i].intent = Current(t).intent
          BY <1>10, <2>3, <2>4
        <5> QED BY <1>27, <5>1, <5>2
      <4> QED BY <3>7, <4>1
    <3>9. a < Len(attempts'[t]) => ~attempts'[t][a].active
      <4>1. a < b => p < m
        <5>1. p = m => b = a
          BY <1>14
        <5> QED BY <1>17, <1>18, <5>1
      <4>2. span[p].state \in Terminal => ~AttemptRow(span[p]).active
        BY RoundIs
      <4> QED BY <1>21, <1>22, <2>7, <3>2, <4>1, <4>2
    <3> QED BY <1>30, <2>6, <3>6, <3>8, <3>9 DEF AttemptValid
  <2>8. CASE p = 0
    <3>1. VersionsOf(t, a)' = VersionsOf(t, a)
      <4>1. \A x \in 1..m : span[x].attempt # a
        BY <1>13, <1>18, <2>8
      <4> QED BY <1>26, <1>27, <4>1
    <3>2. attempts'[t][a] = attempts[t][a]
      BY <1>21, <1>30, <2>8
    <3>3. \A i \in VersionsOf(t, a) : versions'[t][i] = versions[t][i]
      BY <1>26
    <3>4. PICK i \in VersionsOf(t, a) : (\A j \in VersionsOf(t, a) : j <= i) /\ attempts[t][a] = AttemptRow(versions[t][i])
      BY <2>2 DEF AttemptValid
    <3>5. \E x \in VersionsOf(t, a)' : (\A j \in VersionsOf(t, a)' : j <= x) /\ attempts'[t][a] = AttemptRow(versions'[t][x])
      BY <3>1, <3>2, <3>3, <3>4
    <3>6. \A x \in VersionsOf(t, a)' : versions'[t][x].intent = attempts'[t][a].intent
      BY <2>3, <3>1, <3>2, <3>3
    <3>7. ~attempts'[t][a].active
      <4>1. i \in 1..n /\ n <= i
        BY <1>10, <2>1, <3>4 DEF VersionsOf
      <4>2. i = n
        BY <1>16, <4>1
      <4>3. attempts[t][a] = AttemptRow(Current(t))
        BY <2>1, <3>4, <4>2
      <4>4. Current(t).state \in Terminal
        BY <1>22, <1>30, <2>8
      <4> QED BY <3>2, <4>3, <4>4, RoundIs
    <3> QED BY <1>30, <2>6, <3>5, <3>6, <3>7 DEF AttemptValid
  <2> QED BY <2>7, <2>8
<1>31. ASSUME p # m, NEW k \in 1..b, k = a + 1 PROVE AttemptValid(t, k)'
  <2>1. b = k /\ k # a
    BY <1>14, <1>18, <1>31
  <2>2. ASSUME NEW x \in 1..m, span[x].attempt = k PROVE x \in (p + 1)..m
    BY <1>13, <1>18, <1>31, <2>2
  <2>3. PICK z \in 1..m : z = p + 1
    <3>1. p + 1 \in 1..m
      BY <1>17, <1>31
    <3> QED BY <3>1
  <2>4. span[z].attempt = k /\ span[m].attempt = k /\ m \in 1..m /\ m \in z..m
    <3>1. ~(z <= p) /\ ~(m <= p) /\ m \in 1..m
      BY <1>17, <1>31, <2>3
    <3> QED BY <1>13, <1>17, <1>31, <3>1
  <2>5. ASSUME NEW x \in 1..m, span[x].attempt = k PROVE n + x \in VersionsOf(t, k)'
    <3>1. n + x \in 1..(n + m)
      BY <1>16, <1>17
    <3> QED BY <1>10, <1>11, <2>5, <3>1 DEF VersionsOf
  <2>6. ASSUME NEW i \in VersionsOf(t, k)' PROVE \E x \in z..m : i = n + x /\ x \in 1..m
    <3>1. i \notin VersionsOf(t, k)
      <4>1. \A y \in 1..n : versions[t][y].attempt # k
        BY <1>10, <1>18, <1>31
      <4> QED BY <1>10, <4>1 DEF VersionsOf
    <3>2. PICK x \in 1..m : i = n + x /\ span[x].attempt = k
      BY <1>27, <3>1
    <3>3. x \in z..m
      BY <2>2, <2>3, <3>2
    <3> QED BY <3>2, <3>3
  <2>7. \E i \in VersionsOf(t, k)' : (\A j \in VersionsOf(t, k)' : i <= j) /\ versions'[t][i].state = "CREATED"
    <3>1. n + z \in VersionsOf(t, k)'
      BY <2>4, <2>5
    <3>2. ASSUME NEW j \in VersionsOf(t, k)' PROVE n + z <= j
      <4>1. PICK x \in z..m : j = n + x
        BY <2>6
      <4> QED BY <1>16, <4>1
    <3>3. versions'[t][n + z].state = "CREATED"
      <4>1. p < m
        BY <1>17, <1>31
      <4> QED BY <1>11, <1>22, <2>3, <4>1
    <3> QED BY <3>1, <3>2, <3>3
  <2>8. \E i \in VersionsOf(t, k)' : (\A j \in VersionsOf(t, k)' : j <= i) /\ attempts'[t][k] = AttemptRow(versions'[t][i])
    <3>1. n + m \in VersionsOf(t, k)'
      BY <2>4, <2>5
    <3>2. ASSUME NEW j \in VersionsOf(t, k)' PROVE j <= n + m
      <4>1. PICK x \in z..m : j = n + x
        BY <2>6
      <4> QED BY <1>16, <1>17, <4>1
    <3>3. AttemptRow(versions'[t][n + m]) = AttemptRow(span[m])
      BY <1>11, <2>4, SameRound
    <3> QED BY <1>21, <2>1, <3>1, <3>2, <3>3
  <2>9. \A i \in VersionsOf(t, k)' : versions'[t][i].intent = attempts'[t][k].intent
    <3>1. \A x \in z..m : span[x].intent = span[z].intent
      BY <1>22, <2>3
    <3>2. attempts'[t][k].intent = span[z].intent
      <4>1. AttemptRow(span[m]).intent = span[m].intent
        BY RoundIs
      <4> QED BY <1>21, <2>1, <2>4, <3>1, <4>1
    <3>3. ASSUME NEW i \in VersionsOf(t, k)' PROVE versions'[t][i].intent = span[z].intent
      <4>1. PICK x \in z..m : i = n + x /\ x \in 1..m
        BY <2>6
      <4> QED BY <1>11, <3>1, <4>1
    <3> QED BY <3>2, <3>3
  <2>10. ~(k < Len(attempts'[t]))
    BY <1>21, <2>1
  <2> QED BY <2>7, <2>8, <2>9, <2>10 DEF AttemptValid
<1>32. ASSUME NEW k \in 1..b PROVE AttemptValid(t, k)'
  <2>1. CASE k < a
    BY <1>29, <2>1
  <2>2. CASE k = a
    <3>1. Exists(t)
      <4>1. ~Exists(t) => a = 0
        BY <1>4 DEF Attempt
      <4> QED BY <2>2, <4>1
    <3> QED BY <1>30, <2>2, <3>1
  <2>3. CASE k > a
    <3>1. p # m /\ k = a + 1
      BY <1>14, <1>18, <2>3
    <3> QED BY <1>31, <3>1
  <2> QED BY <1>18, <2>1, <2>2, <2>3
<1>33. ASSUME NEW u \in Names
       PROVE  /\ \A i \in DOMAIN versions'[u] : OutcomeValid(versions'[u][i])
              /\ \A i \in 2..Len(versions'[u]) :
                   versions'[u][i].attempt \in {versions'[u][i - 1].attempt, versions'[u][i - 1].attempt + 1}
              /\ \A k \in DOMAIN attempts'[u] : AttemptValid(u, k)'
              /\ Exists(u)' => Len(attempts'[u]) = Attempt(u)'
  <2>1. CASE u = t
    <3>1. Len(versions'[t]) = n + m
      BY DEF Written, WroteVersions
    <3> QED BY <1>10, <1>12, <1>21, <1>23, <1>24, <1>25, <1>32, <2>1, <3>1
  <2>2. CASE u # t
    <3>1. versions'[u] = versions[u] /\ attempts'[u] = attempts[u]
      BY <1>2, <1>21, <2>2
    <3>2. Exists(u)' = Exists(u) /\ Attempt(u)' = Attempt(u)
      BY <3>1 DEF Exists, Current, Attempt
    <3>3. \A k \in DOMAIN attempts[u] : AttemptValid(u, k)
      BY <1>1 DEF AttemptsValid
    <3>4. \A k \in DOMAIN attempts'[u] : AttemptValid(u, k)'
      BY <3>1, <3>3 DEF AttemptValid, VersionsOf
    <3> QED BY <1>1, <3>1, <3>2, <3>4 DEF AttemptsValid
  <2> QED BY <2>1, <2>2
<1> QED BY <1>33 DEF AttemptsValid

\* The executions are of the present attempt still, or of one that ended.
LEMMA CommitRuns ==
  ASSUME RowsInv, TypeOK', Grows, NEW t \in Names, NEW kind, NEW span, NEW facts, NEW event, NEW again, NEW n, NEW m,
         NEW s, NEW l, NEW q, Written(t, kind, span, facts, event, again, n, m, s, l, q)
  PROVE  RunsValid' /\ RunsKept'
<1>1. TypeOK /\ RunsKept
  BY DEF RowsInv
<1>2. runs' = runs /\ (\A u \in Names : u # t => versions'[u] = versions[u]) /\ Legal(t, kind, span, facts, event)
  BY DEF Written, WroteVersions
<1>3. PICK all : all = facts \cup ClosedFact(t, kind, span)
  OBVIOUS
<1>4. PICK a : a = Attempt(t)
  OBVIOUS
<1>5. PICK b : b = span[m].attempt
  OBVIOUS
<1>6. VersionsAre(t, span, all, n, m, a, b)
  BY <1>1, <1>3, <1>4, <1>5, CommitSpan
<1>7. PICK p \in 0..m : WroteAttempts(t, span, m, p)
  BY DEF Written
<1>8. m = Len(span)
  BY DEF Written, WroteVersions
<1>9. AttemptsAre(span, m, a, b, p)
  BY <1>1, <1>6, <1>7, <1>8, CommitRounds
<1>10. DOMAIN versions[t] = 1..n /\ DOMAIN versions'[t] = 1..(n + m)
  BY <1>6 DEF VersionsAre
<1>11. n \in Nat
  BY <1>6 DEF VersionsAre
<1>12. m \in 1..16
  BY <1>6 DEF VersionsAre
<1>13. a \in Nat /\ b \in Nat
  BY <1>6 DEF VersionsAre
<1>14. b = a \/ b = a + 1
  BY <1>9 DEF AttemptsAre
<1>15. Current(t)' = versions'[t][n + m] /\ Attempt(t)' = b
  BY <1>6 DEF VersionsAre
<1>16. Current(t)'.epoch = Owner.epoch
  <2>1. m \in 1..m
    BY <1>12
  <2>2. versions'[t][n + m].epoch = Owner.epoch
    BY <1>6, <2>1 DEF VersionsAre
  <2> QED BY <1>15, <2>2
<1>17. RunsValid'
  <2>1. \A u \in Names, k \in AttemptNumbers : \A i \in 1..Len(runs'[u][k]) : ~(i > Len(runs[u][k]))
    <3> SUFFICES ASSUME NEW u \in Names, NEW k \in AttemptNumbers, NEW i \in 1..Len(runs'[u][k])
                 PROVE  ~(i > Len(runs[u][k]))
      OBVIOUS
    <3>1. runs'[u][k] = runs[u][k] /\ Len(runs[u][k]) \in Nat
      BY <1>1, <1>2, RunTables
    <3> QED BY <3>1
  <2> QED BY <2>1, RunsGrow
<1>18. \A u \in Names, k \in AttemptNumbers : /\ HasRun(u, k)' = HasRun(u, k) /\ IsOpen(u, k)' = IsOpen(u, k)
                                           /\ Run(u, k)' = Run(u, k)
  BY <1>2 DEF HasRun, IsOpen, Run
<1>19. ASSUME NEW u \in Names, NEW k \in AttemptNumbers
       PROVE  /\ runs'[u][k] # <<>> => k <= Attempt(u)'
              /\ \A i \in DOMAIN runs'[u][k] :
                   LET run == runs'[u][k][i] IN
                   /\ run.at \in DOMAIN versions'[u] /\ run.input \in DOMAIN inputs'
                   /\ run.closed = (run.state = "STOPPED")
                   /\ run.state \in {"ALLOCATED", "READY"} => ~run.dispatched
                   /\ run.state \in {"BUSY", "DRAINING"} => run.dispatched
              /\ IsOpen(u, k)' /\ k = Attempt(u)' => Current(u)'.epoch = Run(u, k)'.epoch
  <2>1. /\ runs[u][k] # <<>> => k <= Attempt(u)
        /\ \A i \in DOMAIN runs[u][k] :
             LET run == runs[u][k][i] IN
             /\ run.at \in DOMAIN versions[u] /\ run.input \in DOMAIN inputs
             /\ run.closed = (run.state = "STOPPED")
             /\ run.state \in {"ALLOCATED", "READY"} => ~run.dispatched
             /\ run.state \in {"BUSY", "DRAINING"} => run.dispatched
        /\ IsOpen(u, k) /\ k = Attempt(u) => Current(u).epoch = Run(u, k).epoch
    BY <1>1 DEF RunsKept
  <2>2. \A i \in DOMAIN inputs : i \in DOMAIN inputs'
    <3>1. DOMAIN inputs = 1..q /\ DOMAIN inputs' = 1..(q + 1) /\ q \in Nat
      BY <1>1, Tables DEF Written, WroteReceipt
    <3> QED BY <3>1
  <2>3. \A i \in DOMAIN versions[t] : i \in DOMAIN versions'[t]
    BY <1>10, <1>11, <1>12
  <2>4. k \in Nat
    BY DEF AttemptNumbers
  <2>5. CASE u = t
    <3>1. runs'[t][k] # <<>> => k <= b
      BY <1>2, <1>4, <1>13, <1>14, <2>1, <2>4, <2>5
    <3>2. ASSUME IsOpen(t, k), k = b PROVE Owner.epoch = Run(t, k).epoch
      <4>1. runs[t][k] # <<>>
        BY <3>2 DEF IsOpen, HasRun
      <4>2. k <= a
        BY <1>4, <2>1, <2>5, <4>1
      <4>3. k = a
        BY <1>13, <1>14, <2>4, <3>2, <4>2
      <4> QED BY <1>2, <1>4, <3>2, <4>3 DEF Legal
    <3> QED BY <1>2, <1>15, <1>16, <1>18, <2>1, <2>2, <2>3, <2>5, <3>1, <3>2
  <2>6. CASE u # t
    <3>1. versions'[u] = versions[u]
      BY <1>2, <2>6
    <3>2. Current(u)' = Current(u) /\ Attempt(u)' = Attempt(u)
      BY <3>1 DEF Exists, Current, Attempt
    <3> QED BY <1>2, <1>18, <2>1, <2>2, <3>1, <3>2
  <2> QED BY <2>5, <2>6
<1>20. RunsKept'
  BY <1>19 DEF RunsKept
<1> QED BY <1>17, <1>20

\* The input and the receipt match.
LEMMA CommitReceives ==
  ASSUME RowsInv, TypeOK', Grows, AttemptsValid', VersionsKept',
         NEW t \in Names, NEW kind, NEW span, NEW facts, NEW event, NEW again, NEW n, NEW m,
         NEW s, NEW l, NEW q, Written(t, kind, span, facts, event, again, n, m, s, l, q)
  PROVE  InputsValid' /\ ReceiptsValid' /\ ReceiptsKept'
<1>1. TypeOK /\ ReceiptsKept /\ Session \notin Names
  BY DEF RowsInv, TypeOK, Bounds
<1>2. Legal(t, kind, span, facts, event) /\ sessions # <<>> /\ m = Len(span)
  BY DEF Written, WroteVersions, Legal
<1>3. PICK all : all = facts \cup ClosedFact(t, kind, span)
  OBVIOUS
<1>4. PICK a : a = Attempt(t)
  OBVIOUS
<1>5. PICK b : b = span[m].attempt
  OBVIOUS
<1>6. VersionsAre(t, span, all, n, m, a, b)
  BY <1>1, <1>3, <1>4, <1>5, CommitSpan
<1>7. DOMAIN versions[t] = 1..n /\ DOMAIN versions'[t] = 1..(n + m) /\ b \in AttemptNumbers
  BY <1>6 DEF VersionsAre
<1>8. n \in Nat
  BY <1>6 DEF VersionsAre
<1>9. m \in 1..16
  BY <1>6 DEF VersionsAre
<1>10. m \in 1..m
  BY <1>9
<1>11. /\ versions'[t][n + m].attempt = b /\ versions'[t][n + m].intent = span[m].intent
       /\ versions'[t][n + m].epoch = Owner.epoch /\ versions'[t][n + m].facts = all
  BY <1>5, <1>6, <1>10 DEF VersionsAre
<1>12. WroteReceipt(t, kind, span, event, n, m, l, q) /\ WroteEvents(t, span, event, again, n, m, s, l)
  BY DEF Written
<1>13. /\ q \in Nat /\ q = Len(inputs) /\ Len(inputs') = q + 1 /\ Len(receipts) = q + 1 /\ Len(receipts') = q + 2
  BY <1>12 DEF WroteReceipt
<1>14. PICK r : r = receipts'[q + 2]
  OBVIOUS
<1>15. r.task = t /\ r.kind = kind /\ r.revision = n + m /\ r.cursor = l + m /\ r.event = event
  BY <1>12, <1>14 DEF WroteReceipt
<1>16. PICK row : row = inputs'[q + 1]
  OBVIOUS
<1>17. PICK mx : mx = MaxOf({0} \cup {inputs[i].ordinal : i \in InputsAt(t, b)})
  OBVIOUS
<1>18. /\ row \in InputRows /\ row.task = t /\ row.attempt = b /\ row.intent = span[m].intent /\ row.revision = n + m
       /\ row.kind = (IF kind \in Internal THEN "internal" ELSE "user") /\ row.epoch = Owner.epoch
       /\ row.ordinal = mx + 1
  BY <1>5, <1>12, <1>16, <1>17 DEF WroteReceipt, InputRow
<1>19. n + m > n /\ n + m \in 1..(n + m) /\ n + m \in Nat
  BY <1>8, <1>9
<1>20. Received(t, b, q, mx, row)
  <2>1. row.revision >= Len(versions[t])
    <3>1. n = Len(versions[t])
      BY DEF Written, WroteVersions
    <3> QED BY SMTT(30), <1>8, <1>9, <1>18, <3>1
  <2> QED BY <1>7, <1>13, <1>16, <1>17, <1>18, <2>1 DEF Received
<1>21. kind \in CommandKinds
  BY <1>2 DEF Legal
<1>22. kind # "task.runtime-input" /\ kind # "session.create"
  BY <1>21 DEF CommandKinds
<1>23. InputKept(q + 1)'
  <2>1. PICK k \in Nat : k = q + 1
    BY <1>13
  <2>2. inputs'[k] = row /\ receipts'[k + 1] = r
    <3>1. k + 1 = q + 2
      BY <1>13, <2>1
    <3> QED BY <1>14, <1>16, <2>1, <3>1
  <2>3. ASSUME kind = "task.verify" PROVE <<"result", 0, row.revision - 1>> \in all
    <3>1. m = 1 /\ <<"result", 0, Len(versions[t])>> \in facts
      BY <1>2, <2>3 DEF Legal
    <3>2. n = Len(versions[t])
      BY DEF Written, WroteVersions
    <3>3. row.revision - 1 = n
      BY <1>8, <1>18, <3>1
    <3> QED BY <1>3, <3>1, <3>2, <3>3
  <2>4. row.kind # "runtime"
    BY <1>18
  <2>5. InputKept(k)'
    BY <1>7, <1>11, <1>15, <1>18, <1>19, <2>2, <2>3, <2>4 DEF InputKept
  <2> QED BY <2>1, <2>5
<1>24. NewInput(q + 1)' /\ Match(q + 1, q + 2)' /\ inputs'[q + 1].ordinal \in 1..(q + 1)
  <2>1. row.kind # "runtime" /\ r.kind # "task.runtime-input" /\ (r.kind \in Internal) = (row.kind = "internal")
    BY <1>15, <1>18, <1>22
  <2>2. row.revision > Len(versions[t])
    <3>1. n = Len(versions[t])
      BY DEF Written, WroteVersions
    <3> QED BY <1>18, <1>19, <3>1
  <2>3. r.revision = row.revision
    BY <1>15, <1>18
  <2> QED BY <1>2, <1>13, <1>14, <1>15, <1>20, <1>23, <2>1, <2>2, <2>3, RecordedInput
<1>25. /\ s = Len(outbox) /\ DOMAIN outbox' = 1..(l + m)
       /\ \A i \in 1..m : Is(outbox'[l + i], VersionType(n + i), t, n + i, <<span[i].state, 0, 0>>)
  BY <1>12 DEF WroteEvents
<1>26. s \in Nat /\ l \in Nat /\ s <= l
  BY <1>12 DEF WroteEvents
<1>27. s < l + m /\ l + m \in 1..(l + m)
  BY <1>9, <1>26
<1>28. receipts'[q + 2].cursor > Len(outbox)
  BY <1>14, <1>15, <1>25, <1>27, <1>26
<1>29. InputsValid'
  BY <1>2, <1>13, <1>24, <1>28, InputsGrow
<1>30. n + m # 1
  <2>1. ASSUME n = 0 PROVE m = 2
    <3>1. ~Exists(t)
      BY <1>6, <2>1 DEF VersionsAre
    <3>2. kind = "task.create"
      BY <1>2, <3>1 DEF Legal
    <3>3. [i \in 1..m |-> span[i].state] \in Spans(kind)
      BY <1>2 DEF Legal
    <3>4. PICK states : states = [i \in 1..m |-> span[i].state]
      OBVIOUS
    <3>7. Spans("task.create") = {<<"CREATED", "READY">>}
      BY DEF Spans
    <3>8. states \in Spans("task.create")
      BY <3>2, <3>3, <3>4
    <3>5. states = <<"CREATED", "READY">>
      BY <3>7, <3>8
    <3>6. DOMAIN states = 1..2 /\ DOMAIN states = 1..m
      <4>1. DOMAIN states = 1..m
        BY <3>4
      <4>2. DOMAIN states = 1..2
        BY <3>5
      <4> QED BY <4>1, <4>2
    <3> QED BY SMTT(30), <1>9, <3>6
  <2> QED BY <1>8, <1>9, <2>1
<1>31. ReceiptsValid'
  <2>1. Is(outbox'[l + m], VersionType(n + m), t, n + m, <<span[m].state, 0, 0>>)
    BY <1>10, <1>25
  <2>2. outbox'[l + m].type = "task.state_changed" /\ outbox'[l + m].of = t /\ outbox'[l + m].revision = n + m
    BY <1>30, <2>1 DEF Is, VersionType
  <2>3. ReceiptValid(r)'
    BY <1>1, <1>15, <1>22, <1>25, <1>27, <2>2 DEF ReceiptValid
  <2>4. \A j \in 1..Len(receipts') : j > Len(receipts) => receipts'[j] = r
    <3> SUFFICES ASSUME NEW j \in 1..Len(receipts'), j > Len(receipts) PROVE j = q + 2
      BY <1>14
    <3> QED BY <1>13
  <2> QED BY <2>3, <2>4, ReceiptsGrow
<1>32. ReceiptsKept'
  <2>1. NewReceipt(q + 2)'
    <3>1. r.event <= Len(events')
      <4>1. Len(events) \in Nat
        BY <1>1, Tables
      <4> QED BY <1>15, <4>1 DEF Written, WroteMessage
    <3> QED BY <1>7, <1>14, <1>15, <1>19, <1>22, <3>1 DEF NewReceipt
  <2> QED BY <1>2, <1>13, <1>24, <1>28, <2>1, ReceiptsGrowBy
<1> QED BY <1>29, <1>31, <1>32

\* A commit's command starts where its task was.
LEMMA CommitStart ==
  ASSUME RowsInv, TypeOK', Grows, NEW t \in Names, NEW kind, NEW span, NEW facts, NEW event, NEW again, NEW n, NEW m,
         NEW s, NEW l, NEW q, Written(t, kind, span, facts, event, again, n, m, s, l, q),
         NEW r, r = receipts'[q + 2]
  PROVE  /\ r \in ReceiptRows /\ r.task = t /\ r.kind = kind /\ r.revision = n + m /\ r.cursor = l + m /\ r.event = event
         /\ Commands(t)' = Commands(t) \cup {q + 2} /\ (\A u \in Names : u # t => Commands(u)' = Commands(u))
         /\ StartOf(r)' = n
<1>1. TypeOK /\ CommandsValid /\ Session \notin Names
  BY DEF RowsInv, RowsValid, TypeOK, Bounds
<1>2. WroteReceipt(t, kind, span, event, n, m, l, q) /\ Legal(t, kind, span, facts, event)
  BY DEF Written
<1>3. /\ q \in Nat /\ DOMAIN receipts = 1..(q + 1) /\ DOMAIN receipts' = 1..(q + 2)
      /\ \A i \in 1..(q + 1) : receipts'[i] = receipts[i]
  BY <1>1, <1>2, Tables DEF WroteReceipt
<1>4. r.task = t /\ r.kind = kind /\ r.revision = n + m /\ r.cursor = l + m /\ r.event = event
  BY <1>2 DEF WroteReceipt
<1>5. r \in ReceiptRows
  <2>1. q + 2 \in DOMAIN receipts'
    BY <1>3
  <2>2. \A i \in DOMAIN receipts' : receipts'[i] \in ReceiptRows
    <3>1. receipts' \in Seq(ReceiptRows)
      BY DEF TypeOK
    <3> QED BY <3>1
  <2> QED BY <2>1, <2>2
<1>6. kind # "task.runtime-input"
  BY <1>2 DEF Legal, CommandKinds
<1>7. n \in Nat
  BY DEF Written, WroteVersions
<1>8. m \in 1..16
  BY DEF Written, WroteVersions
<1>9. Commands(t)' = Commands(t) \cup {q + 2}
  <2>1. \A j \in 1..(q + 2) : j = q + 2 \/ j \in 1..(q + 1)
    BY <1>3
  <2>2. Commands(t)' = {j \in 1..(q + 2) : receipts'[j].task = t /\ receipts'[j].kind # "task.runtime-input"}
    BY <1>3 DEF Commands
  <2>3. Commands(t) = {j \in 1..(q + 1) : receipts[j].task = t /\ receipts[j].kind # "task.runtime-input"}
    BY <1>3 DEF Commands
  <2>4. receipts'[q + 2].task = t /\ receipts'[q + 2].kind # "task.runtime-input" /\ q + 2 \in 1..(q + 2)
    BY <1>3, <1>4, <1>6
  <2>5. 1..(q + 1) \subseteq 1..(q + 2)
    BY <1>3
  <2>6. ASSUME NEW j \in Commands(t)' PROVE j \in Commands(t) \cup {q + 2}
    <3>1. j \in 1..(q + 2) /\ receipts'[j].task = t /\ receipts'[j].kind # "task.runtime-input"
      BY <2>2, <2>6
    <3> QED BY <1>3, <2>1, <2>3, <3>1
  <2>7. ASSUME NEW j \in Commands(t) PROVE j \in Commands(t)'
    <3>1. j \in 1..(q + 1) /\ receipts[j].task = t /\ receipts[j].kind # "task.runtime-input"
      BY <2>3, <2>7
    <3> QED BY <1>3, <2>2, <2>5, <3>1
  <2>8. q + 2 \in Commands(t)'
    BY <2>2, <2>4
  <2> QED BY <2>6, <2>7, <2>8
<1>10. ASSUME NEW u \in Names, u # t PROVE Commands(u)' = Commands(u)
  <2>1. Commands(u)' = {j \in 1..(q + 2) : receipts'[j].task = u /\ receipts'[j].kind # "task.runtime-input"}
    BY <1>3 DEF Commands
  <2>2. Commands(u) = {j \in 1..(q + 1) : receipts[j].task = u /\ receipts[j].kind # "task.runtime-input"}
    BY <1>3 DEF Commands
  <2>3. \A j \in 1..(q + 2) : j = q + 2 \/ j \in 1..(q + 1)
    BY <1>3
  <2>4. receipts'[q + 2].task # u
    BY <1>4, <1>10
  <2>5. 1..(q + 1) \subseteq 1..(q + 2)
    BY <1>3
  <2> QED BY <1>3, <2>1, <2>2, <2>3, <2>4, <2>5
<1>11. StartOf(r)' = n
  <2> DEFINE S == {0} \cup {receipts'[j].revision : j \in {i \in Commands(t)' : receipts'[i].revision < n + m}}
  <2>1. StartOf(r)' = MaxOf(S)
    BY <1>4 DEF StartOf
  <2>2. ASSUME NEW j \in Commands(t)', receipts'[j].revision < n + m
        PROVE  receipts'[j].revision \in 0..n
    <3>1. CASE j = q + 2
      <4>1. receipts'[j].revision = n + m /\ n + m \in Nat
        BY <1>4, <1>7, <1>8, <3>1
      <4> QED BY <2>2, <4>1
    <3>2. CASE j \in Commands(t)
      <4>1. j \in 1..(q + 1)
        BY <1>3, <3>2 DEF Commands
      <4>2. receipts[j].revision \in 1..Len(versions[t])
        BY <3>2, RevisionIs
      <4>3. n = Len(versions[t])
        BY DEF Written, WroteVersions
      <4>4. receipts'[j] = receipts[j]
        BY <1>3, <4>1
      <4> QED BY <1>7, <4>2, <4>3, <4>4
    <3> QED BY <1>9, <2>2, <3>1, <3>2
  <2>3. S \subseteq Int /\ \A x \in S : x <= n
    <3>1. \A x \in S : x \in 0..n
      BY <1>7, <2>2
    <3> HIDE DEF S
    <3> QED BY <1>7, <3>1
  <2>4. n \in S
    <3>1. CASE n = 0
      BY <3>1
    <3>2. CASE n # 0
      <4>1. n = Len(versions[t])
        BY DEF Written, WroteVersions
      <4>2. Exists(t)
        BY <1>1, <3>2, <4>1, TaskTables
      <4>3. PICK j \in Commands(t) : receipts[j].revision = n
        BY <1>1, <4>1, <4>2 DEF CommandsValid
      <4>4. j \in 1..(q + 1) /\ j \in Commands(t)'
        BY <1>3, <1>9 DEF Commands
      <4>5. receipts'[j].revision = n
        BY <1>3, <4>3, <4>4
      <4>6. n < n + m
        BY <1>7, <1>8
      <4> QED BY <4>4, <4>5, <4>6
    <3> QED BY <3>1, <3>2
  <2>5. MaxOf(S) = n
    <3> HIDE DEF S
    <3> QED BY <2>3, <2>4, MaxIs
  <2> QED BY <2>1, <2>5
<1> QED BY <1>4, <1>5, <1>9, <1>10, <1>11

\* A step is of states, attempts and intents alone.
LEMMA SameStep ==
  ASSUME NEW kind, NEW v, NEW w, NEW x, NEW y, MetadataStep(kind, v, w),
         x.state = v.state, x.attempt = v.attempt, x.intent = v.intent,
         y.state = w.state, y.attempt = w.attempt, y.intent = w.intent
  PROVE  MetadataStep(kind, x, y)
  BY DEF MetadataStep

\* The span is one that its command allows.
LEMMA CommitMetadata ==
  ASSUME RowsInv, TypeOK', NEW t \in Names, NEW kind, NEW span, NEW facts, NEW event, NEW all,
         NEW n, NEW m, NEW a, NEW b, VersionsAre(t, span, all, n, m, a, b), Legal(t, kind, span, facts, event), m = Len(span)
  PROVE  MetadataValid(t, kind, n, n + m)'
<1>1. n \in Nat
  BY DEF VersionsAre
<1>2. m \in 1..16
  BY DEF VersionsAre
<1>3. \A i \in 1..m :
       /\ versions'[t][n + i].state = span[i].state /\ versions'[t][n + i].attempt = span[i].attempt
       /\ versions'[t][n + i].intent = span[i].intent
  BY DEF VersionsAre
<1>4. (n + m) - n = m /\ m \in 1..m /\ 1 \in 1..m
  BY <1>1, <1>2
<1>5. [i \in 1..((n + m) - n) |-> versions'[t][n + i].state] \in Spans(kind)
  <2>1. [i \in 1..m |-> span[i].state] \in Spans(kind)
    BY DEF Legal
  <2>2. [i \in 1..m |-> versions'[t][n + i].state] = [i \in 1..m |-> span[i].state]
    BY <1>3
  <2> QED BY <1>4, <2>1, <2>2
<1>6. n = 0 => versions'[t][1].intent = 1
  <2>1. ASSUME n = 0 PROVE versions'[t][1].intent = 1
    <3>1. ~Exists(t)
      BY <1>1, <2>1 DEF VersionsAre
    <3>2. span[1].intent = 1
      BY <3>1 DEF Legal
    <3>3. n + 1 = 1
      BY <2>1
    <3> QED BY <1>3, <1>4, <3>2, <3>3
  <2> QED BY <2>1
<1>7. n > 0 => Exists(t) /\ versions'[t][n] = Current(t)
  <2>1. ASSUME n > 0 PROVE Exists(t) /\ versions'[t][n] = Current(t)
    <3>1. n \in 1..n
      BY <1>1, <2>1
    <3>2. versions'[t][n] = versions[t][n]
      BY <3>1 DEF VersionsAre
    <3>3. Exists(t) /\ versions[t][n] = Current(t)
      BY <2>1 DEF VersionsAre
    <3> QED BY <3>2, <3>3
  <2> QED BY <2>1
<1>8. ASSUME NEW i \in (n + 1)..(n + m), i > 1 PROVE MetadataStep(kind, versions'[t][i - 1], versions'[t][i])
  <2>1. PICK x \in 1..m : i = n + x
    <3>1. i - n \in 1..m /\ i = n + (i - n)
      BY <1>1, <1>2
    <3> QED BY <3>1
  <2>2. CASE x = 1
    <3>1. i - 1 = n /\ n > 0
      BY <1>1, <1>8, <2>1, <2>2
    <3>2. MetadataStep(kind, Current(t), span[1])
      BY <1>7, <3>1 DEF Legal, StepOK
    <3>3. PICK v, w : v = versions'[t][n] /\ w = versions'[t][n + x]
      OBVIOUS
    <3>4. v = Current(t)
      BY <1>7, <3>1, <3>3
    <3>5. w.state = span[1].state /\ w.attempt = span[1].attempt /\ w.intent = span[1].intent
      BY <1>3, <1>4, <2>2, <3>3
    <3>6. MetadataStep(kind, v, w)
      BY <3>2, <3>4, <3>5, SameStep
    <3> QED BY <2>1, <3>1, <3>3, <3>6
  <2>3. CASE x # 1
    <3>1. x \in 2..m /\ x - 1 \in 1..m /\ i - 1 = n + (x - 1)
      BY <1>1, <1>2, <2>1, <2>3
    <3>2. MetadataStep(kind, span[x - 1], span[x])
      BY <3>1 DEF Legal, StepOK
    <3>3. PICK v, w : v = versions'[t][n + (x - 1)] /\ w = versions'[t][n + x]
      OBVIOUS
    <3>4. v.state = span[x - 1].state /\ v.attempt = span[x - 1].attempt /\ v.intent = span[x - 1].intent
      BY <1>3, <3>1, <3>3
    <3>5. w.state = span[x].state /\ w.attempt = span[x].attempt /\ w.intent = span[x].intent
      BY <1>3, <3>3
    <3>6. MetadataStep(kind, v, w)
      BY <3>2, <3>4, <3>5, SameStep
    <3> QED BY <2>1, <3>1, <3>3, <3>6
  <2> QED BY <2>2, <2>3
<1>9. kind # "task.create" => n > 0
  BY <1>1 DEF Legal, VersionsAre
<1>10. kind \in {"task.retry", "task.revise-request"} => versions'[t][n + m].attempt # versions'[t][n].attempt
  <2>1. ASSUME kind \in {"task.retry", "task.revise-request"} PROVE versions'[t][n + m].attempt # versions'[t][n].attempt
    <3>1. n > 0
      BY <1>9, <2>1
    <3>2. versions'[t][n].attempt = a /\ a = Attempt(t)
      <4>1. VersionsAre(t, span, all, n, m, a, b)
        BY <1>1
      <4>2. n \in Nat /\ a = Attempt(t) /\ (n > 0 => versions[t][n] = Current(t) /\ versions[t][n].attempt = a)
            /\ \A i \in 1..n : versions'[t][i] = versions[t][i]
        BY <4>1 DEF VersionsAre
      <4>3. n \in 1..n
        BY <3>1, <4>2
      <4> QED BY <3>1, <4>2, <4>3
    <3>3. span[m].attempt # Attempt(t)
      BY <2>1 DEF Legal
    <3> QED BY <1>3, <1>4, <3>2, <3>3
  <2> QED BY <2>1
<1>11. /\ kind = "task.pause" => versions'[t][n].state = "RUNNING"
       /\ kind = "task.respond" => versions'[t][n].state = "WAITING_INPUT"
  <2>1. /\ kind = "task.pause" => Current(t).state = "RUNNING"
        /\ kind = "task.respond" => Current(t).state = "WAITING_INPUT"
    BY DEF Legal
  <2> QED BY <1>7, <1>9, <2>1
<1>12. MetadataValid(t, kind, n, n + m)'
  BY <1>5, <1>6, <1>8, <1>10, <1>11 DEF MetadataValid
<1> QED BY <1>12

\* The owner after a commit is in force for the rows it publishes, and authorized for a new attempt's.
LEMMA CommitAuthority ==
  ASSUME RowsInv, TypeOK', NEW t \in Names, NEW kind, NEW span, NEW facts, NEW event, NEW again, NEW n, NEW m,
         NEW s, NEW l, NEW q, Written(t, kind, span, facts, event, again, n, m, s, l, q)
  PROVE  /\ recovery' = recovery /\ Owner'.recovery = recovery /\ Owner'.epoch = Owner.epoch
         /\ \A c \in 1..Len(outbox') : c > s /\ (~again \/ c > l) =>
              /\ Authority(outbox[c].recovery, c)' # {} /\ AuthorityAt(c)' = Owner'
              /\ outbox'[c].recovery = recovery /\ outbox'[c].epoch = Owner.epoch
         /\ ~Exists(t) \/ span[m].attempt # Attempt(t) => Owner'.authorized
<1>1. TypeOK
  BY DEF RowsInv
<1>2. WroteSessions(again, l) /\ WroteEvents(t, span, event, again, n, m, s, l) /\ again = Reauthorizes(t, kind, span)
  BY DEF Written
<1>3. sessions # <<>> /\ sessions' # <<>> /\ again \in BOOLEAN /\ recovery' = recovery /\ Owner'.epoch = Owner.epoch
  BY <1>2 DEF WroteSessions, WroteEvents, Written
<1>4. Owner.recovery = recovery /\ Owner.cursor \in 0..s
  BY <1>2, <1>3, OwnerNow DEF WroteEvents
<1>5. s \in Nat /\ l \in Nat /\ s <= l
  BY <1>2 DEF WroteEvents
<1>6. recovery \in Nat
  BY <1>1 DEF TypeOK
<1>7. again => /\ Owner' = sessions'[Len(sessions) + 1] /\ Owner'.cursor = l /\ Owner'.recovery = recovery
               /\ Owner'.authorized
  <2>1. ASSUME again PROVE Owner' = sessions'[Len(sessions) + 1]
    <3>1. Len(sessions') = Len(sessions) + 1
      BY <1>2, <2>1 DEF WroteSessions
    <3>2. Owner' = sessions'[Len(sessions')]
      BY DEF Owner, Last
    <3> QED BY <3>1, <3>2
  <2> QED BY <1>2, <2>1 DEF WroteSessions
<1>8. ~again => Owner' = Owner
  BY <1>2 DEF WroteSessions, Owner
<1>9. Owner'.recovery = recovery
  BY <1>3, <1>4, <1>7, <1>8
<1>10. ASSUME NEW c \in 1..Len(outbox'), c > s, ~again \/ c > l
       PROVE  /\ Authority(outbox[c].recovery, c)' # {} /\ AuthorityAt(c)' = Owner'
              /\ outbox'[c].recovery = recovery /\ outbox'[c].epoch = Owner.epoch
  <2>1. m \in 1..16
    BY DEF Written, WroteVersions
  <2>2. outbox'[c].recovery = recovery /\ outbox'[c].epoch = Owner.epoch
    <3>1. RowIsNew(c, t, span, event, again, n, m, s, l)
      BY <1>2, <1>10, <2>1, NewRows
    <3>2. \/ event # 0 /\ c = s + 1 /\ Is(outbox'[c], "task.progress", t, n, <<"working", 0, 0>>)
          \/ \E i \in 1..m : c = l + i /\ Is(outbox'[c], VersionType(n + i), t, n + i, <<span[i].state, 0, 0>>)
      BY <1>10, <3>1 DEF RowIsNew
    <3> QED BY <3>2 DEF Is
  <2>3. Owner'.cursor < c
    <3>1. CASE again
      BY <1>7, <1>10, <3>1
    <3>2. CASE ~again
      BY <1>4, <1>5, <1>8, <1>10, <3>2
    <3> QED BY <3>1, <3>2
  <2>4. Owner'.recovery <= outbox'[c].recovery
    BY <1>6, <1>9, <2>2
  <2>5. LastInForce'
    BY InForceAfter
  <2>6. Authority(outbox[c].recovery, c)' # {} /\ AuthorityAt(c)' = Owner'
    BY <1>3, <2>3, <2>4, <2>5 DEF LastInForce
  <2> QED BY <2>2, <2>6
<1>11. ~Exists(t) \/ span[m].attempt # Attempt(t) => Owner'.authorized
  <2>1. ASSUME ~Exists(t) \/ span[m].attempt # Attempt(t) PROVE Owner'.authorized
    <3>1. m = Len(span) /\ Legal(t, kind, span, facts, event)
      BY DEF Written, WroteVersions
    <3>2. kind # "task.runtime"
      BY <2>1, <3>1 DEF Legal, Renewing
    <3>3. ~Owner.authorized => Reauthorizes(t, kind, span)
      BY <2>1, <3>1, <3>2 DEF Reauthorizes, Last
    <3> QED BY <1>2, <1>7, <1>8, <3>3
  <2> QED BY <2>1
<1> QED BY <1>3, <1>9, <1>10, <1>11

\* The events of the span stand together and in order.
LEMMA CommitPublished ==
  ASSUME RowsInv, TypeOK', NEW t \in Names, NEW kind, NEW span, NEW facts, NEW event, NEW again, NEW n, NEW m,
         NEW s, NEW l, NEW q, Written(t, kind, span, facts, event, again, n, m, s, l, q),
         NEW r, r.revision = n + m, r.cursor = l + m
  PROVE  SpanPublished(t, n, r)'
<1>1. TypeOK /\ OutboxValid /\ OutboxKept /\ Session \notin Names
  BY DEF RowsInv, RowsValid, TypeOK, Bounds
<1>2. n \in Nat
  BY DEF Written, WroteVersions
<1>3. m \in 1..16
  BY DEF Written, WroteVersions
<1>4. WroteEvents(t, span, event, again, n, m, s, l)
  BY DEF Written
<1>5. s \in Nat /\ l \in Nat /\ s <= l
  BY <1>4 DEF WroteEvents
<1>6. l \in Nat
  BY <1>5
<1>7. DOMAIN outbox' = 1..(l + m) /\ Len(outbox') = l + m /\ DOMAIN outbox = 1..s /\ \A c \in 1..s : outbox'[c] = outbox[c]
  BY <1>4 DEF WroteEvents
<1>8. r.cursor - (r.revision - n) + 1 = l + 1
  BY <1>2, <1>3, <1>6
<1>9. \A i \in 1..m : Is(outbox'[l + i], VersionType(n + i), t, n + i, <<span[i].state, 0, 0>>)
  BY <1>4 DEF WroteEvents
<1>10. ASSUME NEW c \in (l + 1)..(l + m)
       PROVE  /\ outbox'[c].of = t /\ outbox'[c].type \in VersionTypes /\ outbox'[c].revision = n + (c - (l + 1)) + 1
              /\ outbox'[c].revision \in (n + 1)..(n + m) /\ c \in 1..(l + m)
  <2>1. PICK i \in 1..m : c = l + i
    <3>1. c - l \in 1..m /\ c = l + (c - l)
      BY <1>3, <1>6
    <3> QED BY <3>1
  <2>2. outbox'[c].of = t /\ outbox'[c].type = VersionType(n + i) /\ outbox'[c].revision = n + i
    BY <1>9, <2>1 DEF Is
  <2>3. n + i = n + (c - (l + 1)) + 1 /\ n + i \in (n + 1)..(n + m) /\ c \in 1..(l + m)
    BY <1>2, <1>3, <1>6, <2>1
  <2> QED BY <2>2, <2>3, TypesApart
<1>11. ASSUME NEW c \in 1..(l + m), outbox'[c].of = t, outbox'[c].type \in VersionTypes,
              outbox'[c].revision \in (n + 1)..(n + m)
       PROVE  c \in (l + 1)..(l + m)
  <2>1. CASE c <= s
    <3>1. c \in 1..s /\ outbox'[c] = outbox[c]
      BY <1>5, <1>7, <2>1
    <3>2. outbox[c].type \notin SessionEvents
      BY <1>11, <3>1 DEF VersionTypes, SessionEvents
    <3>3. TaskEventValid(c)
      BY <1>1, <1>7, <3>1, <3>2 DEF OutboxValid
    <3>4. outbox[c].revision \in DOMAIN versions[t]
      BY <1>11, <3>1, <3>3 DEF TaskEventValid
    <3>5. DOMAIN versions[t] = 1..n
      BY DEF Written, WroteVersions
    <3>6. outbox[c].revision \in 1..n /\ outbox[c].revision \in (n + 1)..(n + m)
      BY <1>11, <3>1, <3>4, <3>5
    <3> QED BY <1>2, <3>6
  <2>2. CASE c > s
    <3>1. \/ event # 0 /\ c = s + 1 /\ Is(outbox'[c], "task.progress", t, n, <<"working", 0, 0>>)
          \/ again /\ c = l /\ l > s /\ Is(outbox'[c], "session.owner_fenced", Session, Len(sessions) + 1, Nothing)
          \/ \E i \in 1..m : c = l + i /\ Is(outbox'[c], VersionType(n + i), t, n + i, <<span[i].state, 0, 0>>)
      <4>1. c \in 1..Len(outbox')
        BY <1>7
      <4>2. RowIsNew(c, t, span, event, again, n, m, s, l)
        BY <1>3, <1>4, <2>2, <4>1, NewRows
      <4> QED BY <4>2 DEF RowIsNew
    <3>2. PICK i \in 1..m : c = l + i
      BY <1>1, <1>11, <3>1, TypesApart DEF Is
    <3> QED BY <1>3, <1>6, <3>2
  <2> QED BY <1>5, <2>1, <2>2
<1>12. VersionCursors(t, n, n + m)' = (l + 1)..(l + m)
  BY <1>7, <1>10, <1>11 DEF VersionCursors
<1>13. n = 0 \/ versions'[t][n].attempt # versions'[t][n + m].attempt =>
         Authority(outbox[l + 1].recovery, l + 1)' # {} /\ AuthorityAt(l + 1)'.authorized
  <2>1. ASSUME n = 0 \/ versions'[t][n].attempt # versions'[t][n + m].attempt
        PROVE  Authority(outbox[l + 1].recovery, l + 1)' # {} /\ AuthorityAt(l + 1)'.authorized
    <3>1. PICK all : all = facts \cup ClosedFact(t, kind, span)
      OBVIOUS
    <3>2. PICK a : a = Attempt(t)
      OBVIOUS
    <3>3. PICK b : b = span[m].attempt
      OBVIOUS
    <3>4. VersionsAre(t, span, all, n, m, a, b)
      BY <3>1, <3>2, <3>3, CommitSpan
    <3>5. n = 0 => ~Exists(t)
      BY <1>2, <3>4 DEF VersionsAre
    <3>6. n # 0 => versions'[t][n].attempt = a
      <4>1. ASSUME n # 0 PROVE versions'[t][n].attempt = a
        <5>1. n \in 1..n /\ n > 0
          BY <1>2, <4>1
        <5>2. versions'[t][n] = versions[t][n]
          BY <3>4, <5>1 DEF VersionsAre
        <5>3. versions[t][n].attempt = a
          BY <3>4, <5>1 DEF VersionsAre
        <5> QED BY <5>2, <5>3
      <4> QED BY <4>1
    <3>7. versions'[t][n + m].attempt = span[m].attempt
      <4>1. m \in 1..m
        BY <1>3
      <4> QED BY <3>4, <4>1 DEF VersionsAre
    <3>8. ~Exists(t) \/ span[m].attempt # Attempt(t)
      BY <2>1, <3>2, <3>5, <3>6, <3>7
    <3>9. l + 1 \in 1..Len(outbox') /\ l + 1 > s /\ l + 1 > l
      BY <1>3, <1>5, <1>6, <1>7
    <3>10. Authority(outbox[l + 1].recovery, l + 1)' # {} /\ AuthorityAt(l + 1)' = Owner'
      BY <3>9, CommitAuthority
    <3>11. Owner'.authorized
      BY <3>8, CommitAuthority
    <3> QED BY <3>10, <3>11
  <2> QED BY <2>1
<1>14. \A c \in (l + 1)..(l + m) : outbox'[c].revision = n + (c - (l + 1)) + 1
  BY <1>10
<1>16. PICK first : first = r.cursor - (r.revision - n) + 1
  OBVIOUS
<1>17. first = l + 1
  BY <1>8, <1>16
<1>18. /\ VersionCursors(t, n, r.revision)' = first..r.cursor
       /\ \A c \in first..r.cursor : outbox'[c].revision = n + (c - first) + 1
  BY <1>12, <1>14, <1>17
<1>19. n = 0 \/ versions'[t][n].attempt # versions'[t][r.revision].attempt =>
         Authority(outbox[first].recovery, first)' # {} /\ AuthorityAt(first)'.authorized
  BY <1>13, <1>17
<1> QED BY <1>16, <1>18, <1>19 DEF SpanPublished

\* A closed execution is a proof that the session's owner may give.
LEMMA ClosedIs ==
  ASSUME RowsInv, NEW t \in Names, NEW a, a = Attempt(t), IsClosed(t, a), NEW x, x = Len(runs[t][a])
  PROVE  /\ x \in DOMAIN runs[t][a] /\ runs[t][a][x].state = "STOPPED" /\ runs[t][a][x].closed
         /\ runs[t][a][x].epoch <= Owner.epoch /\ HasRun(t, a)
<1>1. TypeOK /\ RunsKept /\ RunsValid /\ VersionsKept
  BY DEF RowsInv, RowsValid
<1>2. a \in AttemptNumbers /\ HasRun(t, a) /\ Run(t, a).closed
  BY DEF IsClosed, HasRun
<1>3. x \in DOMAIN runs[t][a] /\ Run(t, a) = runs[t][a][x]
  <2>1. Len(runs[t][a]) >= 1 /\ Len(runs[t][a]) \in Nat /\ DOMAIN runs[t][a] = 1..Len(runs[t][a])
    BY <1>1, <1>2, RunTables
  <2>2. Run(t, a) = runs[t][a][x]
    BY <1>1, <1>2, RunTables
  <2> QED BY <2>1, <2>2
<1>4. PICK run \in RunRows : run = runs[t][a][x]
  BY <1>1, <1>2, <1>3, RunTables
<1>5. run.closed /\ run.at \in DOMAIN versions[t] /\ run.closed = (run.state = "STOPPED")
  BY <1>1, <1>2, <1>3, <1>4 DEF RunsKept
<1>6. PICK task \in VersionRows : task = versions[t][run.at]
  BY <1>1, <1>5, TaskTables
<1>7. task.epoch = run.epoch \/ task.epoch > run.epoch
  <2>1. SnapshotValid(t, a, x)
    BY <1>1, <1>2, <1>3 DEF RunsValid
  <2> QED BY Zenon, <1>4, <1>6, <2>1 DEF SnapshotValid
<1>8. task.epoch <= Owner.epoch
  BY <1>1, <1>5, <1>6 DEF VersionsKept
<1>9. run.epoch \in Nat /\ task.epoch \in Nat /\ Owner.epoch \in Nat
  <2>1. sessions # <<>>
    BY <1>1, <1>5, Opening
  <2>2. Owner.epoch \in Nat
    BY <1>1, <2>1, OwnerIs
  <2> QED BY <1>4, <1>6, <2>2 DEF RunRows, VersionRows
<1>10. run.epoch <= Owner.epoch
  BY <1>7, <1>8, <1>9
<1> QED BY <1>2, <1>3, <1>4, <1>5, <1>10

\* The execution that a command's facts cite is the attempt's, as it is.
LEMMA FactsCite ==
  ASSUME NEW t \in Names, NEW kind, NEW span, NEW facts, NEW event, Legal(t, kind, span, facts, event),
         NEW all, all = facts \cup ClosedFact(t, kind, span), NEW a, a = Attempt(t), NEW x, x = Len(runs[t][a]),
         x \in DOMAIN runs[t][a], <<"run", a, x>> \in all
  PROVE  {i \in DOMAIN runs[t][a] : <<"run", a, i>> \in all} = {x}
<1>1. ASSUME NEW i \in DOMAIN runs[t][a], <<"run", a, i>> \in all PROVE i = x
  <2>1. CASE <<"run", a, i>> \in facts
    <3>1. <<"run", a, i>> = CurrentRun(t)
      BY <2>1 DEF Legal
    <3> QED BY <3>1 DEF CurrentRun
  <2>2. CASE <<"run", a, i>> \in ClosedFact(t, kind, span)
    <3>1. <<"run", a, i>> = <<"run", a, x>>
      BY <2>2 DEF ClosedFact
    <3> QED BY <3>1
  <2> QED BY <1>1, <2>1, <2>2
<1> QED BY <1>1

\* The proof the command needs is the only one of its version.
LEMMA CommitProof ==
  ASSUME RowsInv, TypeOK', runs' = runs, NEW t \in Names, NEW kind, NEW span, NEW facts, NEW event,
         NEW all, all = facts \cup ClosedFact(t, kind, span),
         NEW n, NEW m, NEW a, NEW b, VersionsAre(t, span, all, n, m, a, b), Legal(t, kind, span, facts, event), m = Len(span)
  PROVE  ProofValid(t, kind, n, n + m)'
<1>1. TypeOK /\ RunsKept
  BY DEF RowsInv
<1>2. n \in Nat
  BY DEF VersionsAre
<1>3. m \in 1..16
  BY DEF VersionsAre
<1>4. \A i \in 1..m :
       /\ versions'[t][n + i].state = span[i].state /\ versions'[t][n + i].attempt = span[i].attempt
       /\ versions'[t][n + i].epoch = Owner.epoch /\ versions'[t][n + i].facts = all
  BY DEF VersionsAre
<1>5. ASSUME NEW i \in (n + 1)..(n + m)
      PROVE  \E x \in 1..m : /\ i = n + x /\ versions'[t][i].state = span[x].state /\ versions'[t][i].attempt = span[x].attempt
                             /\ versions'[t][i].epoch = Owner.epoch /\ versions'[t][i].facts = all
  <2>1. PICK x \in 1..m : i = n + x
    <3>1. i - n \in 1..m /\ i = n + (i - n)
      BY <1>2, <1>3
    <3> QED BY <3>1
  <2> QED BY <1>4, <2>1
<1>6. PICK final : final = versions'[t][n + m]
  OBVIOUS
<1>7. m \in 1..m
  BY <1>3
<1>8. final.state = span[m].state /\ final.epoch = Owner.epoch /\ final.facts = all
  BY <1>4, <1>6, <1>7
<1>9. n > 0 => Exists(t) /\ versions'[t][n].attempt = a
  <2>1. ASSUME n > 0 PROVE Exists(t) /\ versions'[t][n].attempt = a
    <3>1. n \in 1..n
      BY <1>2, <2>1
    <3>2. versions'[t][n] = versions[t][n] /\ Exists(t) /\ versions[t][n].attempt = a
      BY <2>1, <3>1 DEF VersionsAre
    <3> QED BY <3>2
  <2> QED BY <2>1
<1>10. a = Attempt(t) /\ (n = 0 => a = 0) /\ (kind # "task.create" => n > 0)
  BY <1>2 DEF Legal, VersionsAre
<1>11. HasRun(t, a) => n > 0
  BY <1>2, <1>10 DEF HasRun, AttemptNumbers
<1>12. PICK k : k = versions'[t][n].attempt
  OBVIOUS
<1>13. \A i \in (n + 1)..(n + m) : versions'[t][i].epoch = final.epoch
  BY <1>5, <1>8
<1>14. kind \in Internal /\ final.state = "WAITING_INPUT" =>
         n > 0 /\ {f \in final.facts : f[1] = "decision"} = {<<"decision", 0, n>>}
  <2>1. ASSUME kind \in Internal, final.state = "WAITING_INPUT"
        PROVE  n > 0 /\ {f \in final.facts : f[1] = "decision"} = {<<"decision", 0, n>>}
    <3>1. {f \in facts : f[1] = "decision"} = {<<"decision", 0, Len(versions[t])>>}
      BY <1>8, <2>1 DEF Legal
    <3>2. n = Len(versions[t])
      <4>1. DOMAIN versions[t] = 1..n /\ DOMAIN versions[t] = 1..Len(versions[t]) /\ Len(versions[t]) \in Nat
        BY <1>1, TaskTables DEF VersionsAre
      <4> QED BY <1>2, <4>1
    <3>3. \A f \in ClosedFact(t, kind, span) : f[1] = "run"
      BY DEF ClosedFact
    <3>4. {f \in all : f[1] = "decision"} = {f \in facts : f[1] = "decision"}
      BY <3>3
    <3>5. kind # "task.create"
      BY <2>1 DEF Internal
    <3> QED BY <1>8, <1>10, <3>1, <3>2, <3>4, <3>5
  <2> QED BY <2>1
<1> DEFINE replaces == n > 0 /\ \E i \in (n + 1)..(n + m) :
             versions'[t][i].state \in {"CANCELLED", "PAUSED"} \/ versions'[t][i].attempt # k
           Needs == Starts(kind, final) \/ ClosesRun(kind, final) \/ (kind \notin Internal /\ replaces /\ HasRun(t, k)')
           Found == \E proof \in Proofs(t, k, n + 1, kind, final)' :
             /\ Proofs(t, k, n + 1, kind, final)' = {proof}
             /\ \A i \in (n + 1)..(n + m) : proof \in RunFacts(t, i, k)'
<1>15. PICK x : x = Len(runs[t][a])
  OBVIOUS
<1>16. ASSUME HasRun(t, a), k = a, x \in DOMAIN runs[t][a], <<"run", a, x>> \in all,
              IF Starts(kind, final)
              THEN runs[t][a][x].state = "READY" /\ ~runs[t][a][x].closed /\ ~runs[t][a][x].dispatched
                   /\ runs[t][a][x].epoch = final.epoch
              ELSE runs[t][a][x].state = "STOPPED" /\ runs[t][a][x].closed /\ runs[t][a][x].epoch <= final.epoch
       PROVE  n > 0 /\ HasRun(t, k)' /\ Found
  <2>1. {i \in DOMAIN runs[t][a] : <<"run", a, i>> \in all} = {x}
    BY SMTT(30), <1>10, <1>15, <1>16, FactsCite
  <2>2. \A i \in (n + 1)..(n + m) : RunFacts(t, i, k)' = {x}
    <3> SUFFICES ASSUME NEW i \in (n + 1)..(n + m) PROVE RunFacts(t, i, k)' = {x}
      OBVIOUS
    <3>1. versions'[t][i].facts = all
      BY <1>5
    <3>2. RunFacts(t, i, k)' = {j \in DOMAIN runs[t][a] : <<"run", a, j>> \in versions'[t][i].facts}
      BY <1>16 DEF RunFacts
    <3> QED BY <2>1, <3>1, <3>2
  <2>3. n + 1 \in (n + 1)..(n + m)
    BY <1>2, <1>3
  <2>4. Proofs(t, k, n + 1, kind, final)' = {x}
    <3>1. RunFacts(t, n + 1, k)' = {x}
      BY <2>2, <2>3
    <3>2. runs'[t][k][x] = runs[t][a][x]
      BY <1>16
    <3>3. (Starts(kind, final) => /\ runs'[t][k][x].state = "READY" /\ ~runs'[t][k][x].closed
                                  /\ ~runs'[t][k][x].dispatched /\ runs'[t][k][x].epoch = final.epoch)
          /\ (~Starts(kind, final) => /\ runs'[t][k][x].state = "STOPPED" /\ runs'[t][k][x].closed
                                      /\ runs'[t][k][x].epoch <= final.epoch)
      BY <1>16, <3>2
    <3>4. Starts(kind, final)' = Starts(kind, final)
      BY DEF Starts
    <3> QED BY <3>1, <3>3, <3>4 DEF Proofs
  <2>5. HasRun(t, k)'
    BY <1>16 DEF HasRun
  <2> QED BY <1>11, <1>16, <2>2, <2>4, <2>5
<1>17. ASSUME Starts(kind, final) PROVE n > 0 /\ HasRun(t, k)' /\ Found
  <2>1. kind = "task.runtime" /\ span[Len(span)].state = "RUNNING"
    BY <1>8, <1>17 DEF Starts
  <2>2. HasRun(t, a) /\ CurrentRun(t) \in facts /\ Run(t, a).state = "READY" /\ Run(t, a).epoch = Owner.epoch
    BY <1>10, <2>1 DEF Legal
  <2>3. a \in AttemptNumbers
    BY <2>2 DEF HasRun
  <2>4. x \in DOMAIN runs[t][a] /\ Run(t, a) = runs[t][a][x]
    <3>1. Len(runs[t][a]) >= 1 /\ Len(runs[t][a]) \in Nat /\ DOMAIN runs[t][a] = 1..Len(runs[t][a])
      BY <1>1, <2>2, <2>3, RunTables
    <3>2. Run(t, a) = runs[t][a][x]
      BY <1>1, <1>15, <2>2, <2>3, RunTables
    <3> QED BY <1>15, <3>1, <3>2
  <2>5. ~runs[t][a][x].dispatched /\ runs[t][a][x].closed = (runs[t][a][x].state = "STOPPED")
    BY <1>1, <2>2, <2>3, <2>4 DEF RunsKept
  <2>6. <<"run", a, x>> \in all
    BY <1>10, <1>15, <2>2 DEF CurrentRun
  <2>7. n > 0 /\ k = a
    BY <1>9, <1>11, <1>12, <2>2
  <2>8. runs[t][a][x].state = "READY" /\ ~runs[t][a][x].closed /\ runs[t][a][x].epoch = final.epoch
    BY <1>8, <2>2, <2>4, <2>5
  <2> QED BY <1>16, <1>17, <2>2, <2>4, <2>5, <2>6, <2>7, <2>8
<1>18. ASSUME ~Starts(kind, final), IsClosed(t, a), <<"run", a, x>> \in all PROVE n > 0 /\ HasRun(t, k)' /\ Found
  <2>1. /\ x \in DOMAIN runs[t][a] /\ runs[t][a][x].state = "STOPPED" /\ runs[t][a][x].closed
        /\ runs[t][a][x].epoch <= Owner.epoch /\ HasRun(t, a)
    BY <1>10, <1>15, <1>18, ClosedIs
  <2>2. n > 0 /\ k = a
    BY <1>9, <1>11, <1>12, <2>1
  <2>3. runs[t][a][x].epoch <= final.epoch
    BY <1>8, <2>1
  <2> QED BY <1>16, <1>18, <2>1, <2>2, <2>3
<1>19. ASSUME ClosesRun(kind, final) PROVE n > 0 /\ HasRun(t, k)' /\ Found
  <2>1. kind = "task.runtime" /\ span[Len(span)].state \in {"CANCELLED", "PAUSED", "UNVERIFIABLE"}
    BY <1>8, <1>19 DEF ClosesRun
  <2>2. IsClosed(t, a) /\ CurrentRun(t) \in facts
    BY <1>10, <2>1 DEF Legal
  <2>3. <<"run", a, x>> \in all
    BY <1>10, <1>15, <2>2 DEF CurrentRun
  <2>4. ~Starts(kind, final)
    BY <1>19 DEF ClosesRun, Starts
  <2> QED BY <1>18, <2>2, <2>3, <2>4
<1>20. ASSUME kind \notin Internal, replaces, HasRun(t, k)' PROVE n > 0 /\ HasRun(t, k)' /\ Found
  <2>1. n > 0 /\ k = a /\ Exists(t)
    BY <1>9, <1>12, <1>20
  <2>2. PICK i \in (n + 1)..(n + m) : versions'[t][i].state \in {"CANCELLED", "PAUSED"} \/ versions'[t][i].attempt # k
    BY <1>20
  <2>3. PICK y \in 1..m : versions'[t][i].state = span[y].state /\ versions'[t][i].attempt = span[y].attempt
    BY <1>5
  <2>4. ReplacesAttempt(t, span)
    <3>1. y \in DOMAIN span
      BY DEF Legal
    <3> QED BY <1>10, <2>1, <2>2, <2>3, <3>1 DEF ReplacesAttempt
  <2>5. ~IsOpen(t, a)
    BY <1>10, <1>20, <2>1, <2>4 DEF Legal
  <2>6. HasRun(t, a)
    BY <1>20, <2>1 DEF HasRun
  <2>7. IsClosed(t, a) /\ kind # "task.runtime"
    BY <1>20, <2>5, <2>6 DEF IsClosed, IsOpen, Internal
  <2>8. <<"run", a, x>> \in all
    BY <1>10, <1>15, <2>4, <2>7 DEF ClosedFact
  <2>9. ~Starts(kind, final)
    BY <2>7 DEF Starts
  <2> QED BY <1>18, <2>7, <2>8, <2>9
<1>21. Needs => n > 0 /\ HasRun(t, k)' /\ Found
  <2> HIDE DEF Found, replaces
  <2> QED BY <1>17, <1>19, <1>20
<1> QED BY <1>6, <1>12, <1>13, <1>14, <1>21 DEF ProofValid, Starts, ClosesRun

\* The commands are valid.
LEMMA CommitCommands ==
  ASSUME RowsInv, TypeOK', Grows, NEW t \in Names, NEW kind, NEW span, NEW facts, NEW event, NEW again, NEW n, NEW m,
         NEW s, NEW l, NEW q, Written(t, kind, span, facts, event, again, n, m, s, l, q)
  PROVE  CommandsValid'
<1>1. TypeOK
  BY DEF RowsInv
<1>2. PICK r : r = receipts'[q + 2]
  OBVIOUS
<1>3. /\ r \in ReceiptRows /\ r.task = t /\ r.kind = kind /\ r.revision = n + m /\ r.cursor = l + m /\ r.event = event
      /\ Commands(t)' = Commands(t) \cup {q + 2} /\ (\A u \in Names : u # t => Commands(u)' = Commands(u))
      /\ StartOf(r)' = n
  BY <1>2, CommitStart
<1>4. PICK all : all = facts \cup ClosedFact(t, kind, span)
  OBVIOUS
<1>5. PICK a : a = Attempt(t)
  OBVIOUS
<1>6. PICK b : b = span[m].attempt
  OBVIOUS
<1>7. VersionsAre(t, span, all, n, m, a, b)
  BY <1>4, <1>5, <1>6, CommitSpan
<1>8. n \in Nat
  BY <1>7 DEF VersionsAre
<1>9. m \in 1..16
  BY <1>7 DEF VersionsAre
<1>10. Legal(t, kind, span, facts, event) /\ m = Len(span) /\ Len(versions'[t]) = n + m /\ runs' = runs
       /\ \A u \in Names : u # t => versions'[u] = versions[u]
  BY DEF Written, WroteVersions
<1>11. CommandOK(t, q + 2)'
  <2>1. n + m \in (n + 1)..(n + 16) /\ n + m <= Len(versions'[t])
    <3>1. Len(versions'[t]) = n + m
      BY <1>10
    <3> QED BY <1>8, <1>9, <3>1
  <2>2. (n = 0) = (kind = "task.create")
    <3>1. (kind = "task.create") = ~Exists(t)
      BY <1>10 DEF Legal
    <3>2. n > 0 <=> Exists(t)
      BY <1>7 DEF VersionsAre
    <3> QED BY <1>8, <3>1, <3>2
  <2>3. MetadataValid(t, kind, n, n + m)'
    BY <1>7, <1>10, CommitMetadata
  <2>4. SpanPublished(t, n, r)'
    BY <1>3, CommitPublished
  <2>5. ProofValid(t, kind, n, n + m)'
    BY <1>4, <1>7, <1>10, CommitProof
  <2>6. PICK e : e = n + m
    OBVIOUS
  <2>7. /\ r.revision \in (n + 1)..(n + 16) /\ r.revision <= Len(versions'[t])
        /\ (n = 0) = (r.kind = "task.create")
        /\ MetadataValid(t, r.kind, n, r.revision)' /\ SpanPublished(t, n, r)' /\ ProofValid(t, r.kind, n, r.revision)'
    <3>1. MetadataValid(t, kind, n, e)' /\ ProofValid(t, kind, n, e)' /\ r.revision = e
      BY <1>3, <2>3, <2>5, <2>6
    <3> QED BY <1>3, <2>1, <2>2, <2>4, <3>1
  <2> QED BY <1>2, <1>3, <2>7 DEF CommandOK
<1>12. \A u \in Names : \A j \in Commands(u)' : j > Len(receipts) => CommandOK(u, j)'
  <2> SUFFICES ASSUME NEW u \in Names, NEW j \in Commands(u)', j > Len(receipts) PROVE u = t /\ j = q + 2
    BY <1>11
  <2>1. \A i \in DOMAIN receipts : ~(i > Len(receipts))
    BY <1>1, Tables
  <2>2. j \notin Commands(u)
    BY <2>1 DEF Commands
  <2> QED BY <1>3, <2>2
<1>13. \A u \in Names : versions'[u] # versions[u] =>
         \E j \in Commands(u)' : receipts'[j].revision = Len(versions'[u])
  <2>1. q + 2 \in Commands(t)' /\ receipts'[q + 2].revision = Len(versions'[t])
    BY <1>2, <1>3, <1>10
  <2> QED BY <1>10, <2>1
<1> QED BY <1>12, <1>13, CommandsGrow

\* What the task's head is, on the way to a commit's last event.
LEMMA CommitHeads ==
  ASSUME RowsInv, TypeOK', Grows, NEW t \in Names, NEW kind, NEW span, NEW facts, NEW event, NEW again, NEW n, NEW m,
         NEW s, NEW l, NEW q, Written(t, kind, span, facts, event, again, n, m, s, l, q), NEW i \in 0..m
  PROVE  HeadAt(t, l + i)' = n + i
<1>1. TypeOK /\ OutboxKept /\ Session \notin Names
  BY DEF RowsInv, TypeOK, Bounds
<1>2. n \in Nat
  BY DEF Written, WroteVersions
<1>3. m \in 1..16
  BY DEF Written, WroteVersions
<1>4. WroteEvents(t, span, event, again, n, m, s, l)
  BY DEF Written
<1>5. s \in Nat /\ l \in Nat /\ s <= l /\ s = Len(outbox)
  BY <1>4 DEF WroteEvents
<1>6. l \in Nat
  BY <1>5
<1>7. DOMAIN outbox' = 1..(l + m) /\ Len(outbox') = l + m
  BY <1>4 DEF WroteEvents
<1>8. HeadAt(t, s) = n /\ HeadAt(t, s)' = n /\ Announced(t, s)' = Announced(t, s)
  <2>1. HeadAt(t, s) = n
    BY <1>1, <1>5 DEF Written, WroteVersions, OutboxKept
  <2>2. s \in 0..Len(outbox)
    BY <1>5
  <2> QED BY <1>1, <2>1, <2>2, AnnouncedStays
<1>17. ASSUME NEW c \in 1..Len(outbox'), c > s
       PROVE  \/ event # 0 /\ c = s + 1 /\ Is(outbox'[c], "task.progress", t, n, <<"working", 0, 0>>)
              \/ again /\ c = l /\ l > s /\ Is(outbox'[c], "session.owner_fenced", Session, Len(sessions) + 1, Nothing)
              \/ \E j \in 1..m : c = l + j /\ Is(outbox'[c], VersionType(n + j), t, n + j, <<span[j].state, 0, 0>>)
  <2>1. RowIsNew(c, t, span, event, again, n, m, s, l)
    BY <1>3, <1>4, <1>17, NewRows
  <2> QED BY <2>1 DEF RowIsNew
<1> DEFINE A == Announced(t, s)'  B == Announced(t, l + i)'  New == {l + j : j \in 1..i}
           S == {0} \cup {outbox'[d].revision : d \in A}  T == {0} \cup {outbox'[d].revision : d \in B}
<1>9. \A j \in 1..m : Is(outbox'[l + j], VersionType(n + j), t, n + j, <<span[j].state, 0, 0>>)
  BY <1>4 DEF WroteEvents
<1>10. B = A \cup New
  <2>1. ASSUME NEW d \in B PROVE d \in A \cup New
    <3>1. d \in 1..(l + i) /\ outbox'[d].of = t /\ outbox'[d].type \in VersionTypes
      BY <2>1 DEF Announced
    <3>2. CASE d <= s
      <4>1. d \in 1..s
        BY <1>5, <1>6, <3>1, <3>2
      <4> QED BY <3>1, <4>1 DEF Announced
    <3>3. CASE d > s
      <4>1. d \in 1..Len(outbox')
        BY <1>3, <1>6, <1>7, <3>1
      <4>2. \/ event # 0 /\ d = s + 1 /\ Is(outbox'[d], "task.progress", t, n, <<"working", 0, 0>>)
            \/ again /\ d = l /\ l > s /\ Is(outbox'[d], "session.owner_fenced", Session, Len(sessions) + 1, Nothing)
            \/ \E j \in 1..m : d = l + j /\ Is(outbox'[d], VersionType(n + j), t, n + j, <<span[j].state, 0, 0>>)
        BY <1>17, <3>3, <4>1
      <4>3. PICK j \in 1..m : d = l + j
        BY <1>1, <3>1, <4>2, TypesApart DEF Is
      <4>4. j \in 1..i
        BY <1>3, <1>6, <3>1, <4>3
      <4> QED BY <4>3, <4>4
    <3> QED BY <1>5, <3>1, <3>2, <3>3
  <2>2. ASSUME NEW d \in A PROVE d \in B
    <3>1. d \in 1..s /\ outbox'[d].of = t /\ outbox'[d].type \in VersionTypes
      BY <2>2 DEF Announced
    <3>2. d \in 1..(l + i)
      BY <1>5, <1>6, <3>1
    <3> QED BY <3>1, <3>2 DEF Announced
  <2>3. ASSUME NEW j \in 1..i PROVE l + j \in B
    <3>1. j \in 1..m /\ l + j \in 1..(l + i)
      BY <1>3, <1>6
    <3>2. outbox'[l + j].of = t /\ outbox'[l + j].type = VersionType(n + j)
      BY <1>9, <3>1 DEF Is
    <3>3. outbox'[l + j].type \in VersionTypes
      BY <3>2, TypesApart
    <3> QED BY <3>1, <3>2, <3>3 DEF Announced
  <2> HIDE DEF A, B
  <2> QED BY <2>1, <2>2, <2>3
<1>11. \A j \in 1..i : outbox'[l + j].revision = n + j
  <2> SUFFICES ASSUME NEW j \in 1..i PROVE outbox'[l + j].revision = n + j
    OBVIOUS
  <2>1. j \in 1..m
    BY <1>3
  <2> QED BY <1>9, <2>1 DEF Is
<1>12. MaxOf(S) = n
  BY <1>8 DEF HeadAt
<1>13. S \subseteq 0..n /\ n \in S
  <2>1. \A d \in A : outbox'[d].revision \in Nat
    <3> SUFFICES ASSUME NEW d \in A PROVE outbox'[d].revision \in Nat
      OBVIOUS
    <3>1. d \in 1..Len(outbox')
      <4>1. d \in 1..s
        BY DEF Announced
      <4> QED BY <1>3, <1>5, <1>6, <1>7, <4>1
    <3> QED BY <3>1, ColumnsAfter DEF Columned
  <2>2. \A c \in A : c \in 1..s /\ outbox'[c] .revision = outbox[c].revision
    <3> SUFFICES ASSUME NEW c \in A PROVE c \in 1..s /\ outbox'[c].revision = outbox[c].revision
      OBVIOUS
    <3>1. c \in 1..s
      BY DEF Announced
    <3> QED BY <1>4, <3>1 DEF WroteEvents
  <2>3. \A d \in A : outbox'[d].revision <= n
    <3> SUFFICES ASSUME NEW d \in A PROVE outbox'[d].revision <= n
      OBVIOUS
    <3>1. d \in Announced(t, s) /\ d \in 1..s /\ outbox'[d] = outbox[d]
      BY <1>4, <1>8, <2>2 DEF WroteEvents
    <3>2. outbox[d].type \notin SessionEvents /\ outbox[d].of = t
      BY <3>1 DEF Announced, VersionTypes, SessionEvents
    <3>3. DOMAIN outbox = 1..s
      BY <1>4 DEF WroteEvents
    <3>4. TaskEventValid(d)
      BY <3>1, <3>2, <3>3 DEF RowsInv, RowsValid, OutboxValid
    <3>5. outbox[d].revision \in DOMAIN versions[t]
      BY <3>2, <3>4 DEF TaskEventValid
    <3>6. DOMAIN versions[t] = 1..n
      BY DEF Written, WroteVersions
    <3> QED BY <1>2, <3>1, <3>5, <3>6
  <2>4. S \subseteq 0..n
    <3>1. \A x \in S : x \in 0..n
      BY <1>2, <2>1, <2>3
    <3> HIDE DEF S
    <3> QED BY <3>1
  <2>5. S # {}
    OBVIOUS
  <2> HIDE DEF S
  <2>6. MaxOf(S) \in S
    BY <1>2, <2>4, <2>5, MaxExists
  <2> QED BY <1>12, <2>4, <2>6
<1>14. T = S \cup {n + j : j \in 1..i}
  <2>1. {outbox'[d].revision : d \in New} = {n + j : j \in 1..i}
    BY <1>11
  <2> HIDE DEF A, B
  <2> QED BY <1>10, <2>1
<1>15. HeadAt(t, l + i)' = MaxOf(T)
  BY DEF HeadAt
<1>16. MaxOf(T) = n + i
  <2>1. \A x \in T : x \in 0..(n + i)
    <3> HIDE DEF S, T
    <3> QED BY <1>2, <1>3, <1>13, <1>14
  <2>2. n + i \in T
    <3>1. CASE i = 0
      BY <1>2, <1>13, <1>14, <3>1
    <3>2. CASE i # 0
      <4>1. i \in 1..i
        BY <1>3, <3>2
      <4> QED BY <1>14, <4>1
    <3> QED BY <3>1, <3>2
  <2>3. n + i \in Nat
    BY <1>2, <1>3
  <2> HIDE DEF T
  <2> QED BY <2>1, <2>2, <2>3, MaxIs
<1> QED BY <1>15, <1>16

\* The heads of the tasks are announced.
LEMMA CommitOutboxKept ==
  ASSUME RowsInv, TypeOK', Grows, NEW t \in Names, NEW kind, NEW span, NEW facts, NEW event, NEW again, NEW n, NEW m,
         NEW s, NEW l, NEW q, Written(t, kind, span, facts, event, again, n, m, s, l, q)
  PROVE  OutboxKept'
<1>1. TypeOK /\ OutboxKept /\ Session \notin Names
  BY DEF RowsInv, TypeOK, Bounds
<1>2. n \in Nat
  BY DEF Written, WroteVersions
<1>3. m \in 1..16
  BY DEF Written, WroteVersions
<1>4. WroteEvents(t, span, event, again, n, m, s, l)
  BY DEF Written
<1>5. s \in Nat /\ l \in Nat /\ s <= l /\ s = Len(outbox)
  BY <1>4 DEF WroteEvents
<1>6. l \in Nat
  BY <1>5
<1>7. DOMAIN outbox' = 1..(l + m) /\ Len(outbox') = l + m /\ DOMAIN outbox = 1..s /\ \A c \in 1..s : outbox'[c] = outbox[c]
  BY <1>4 DEF WroteEvents
<1>8. ASSUME NEW c \in 1..Len(outbox'), c > s
      PROVE  \/ event # 0 /\ c = s + 1 /\ Is(outbox'[c], "task.progress", t, n, <<"working", 0, 0>>)
             \/ again /\ c = l /\ l > s /\ Is(outbox'[c], "session.owner_fenced", Session, Len(sessions) + 1, Nothing)
             \/ \E i \in 1..m : c = l + i /\ Is(outbox'[c], VersionType(n + i), t, n + i, <<span[i].state, 0, 0>>)
  <2>1. RowIsNew(c, t, span, event, again, n, m, s, l)
    BY <1>3, <1>4, <1>8, NewRows
  <2> QED BY <2>1 DEF RowIsNew
<1>9. ASSUME NEW c \in DOMAIN outbox'
      PROVE  /\ (outbox'[c].of = Session) = (outbox'[c].type \in SessionEvents)
             /\ outbox'[c].type \in SessionEvents \cup EventTypes
  <2>1. CASE c <= s
    <3>1. c \in 1..s /\ outbox'[c] = outbox[c]
      BY <1>5, <1>7, <2>1
    <3> QED BY <1>1, <1>7, <3>1 DEF OutboxKept
  <2>2. CASE c > s
    <3>1. c \in 1..Len(outbox')
      BY <1>7
    <3> QED BY <1>1, <1>8, <2>2, <3>1, TypesApart DEF Is
  <2>3. c \in Nat
    BY <1>7
  <2> QED BY <1>5, <2>1, <2>2, <2>3
<1>10. ASSUME NEW u \in Names PROVE HeadAt(u, Len(outbox))' = Len(versions'[u])
  <2>1. CASE u = t
    <3>1. m \in 0..m
      BY <1>3
    <3>2. HeadAt(t, l + m)' = n + m
      BY <3>1, CommitHeads
    <3>3. Len(versions'[t]) = n + m
      BY DEF Written, WroteVersions
    <3>4. PICK e : e = l + m
      OBVIOUS
    <3>5. Len(outbox') = e /\ HeadAt(t, e)' = n + m
      BY <1>7, <3>2, <3>4
    <3> QED BY <2>1, <3>3, <3>5
  <2>2. CASE u # t
    <3>1. HeadAt(u, s) = Len(versions[u])
      BY <1>1, <1>5 DEF OutboxKept
    <3>2. s \in 0..Len(outbox)
      BY <1>5
    <3>3. HeadAt(u, s)' = HeadAt(u, s)
      BY <1>1, <3>2, AnnouncedStays
    <3>4. PICK e \in Nat : e = l + m
      BY <1>3, <1>6
    <3>5. Announced(u, e)' = Announced(u, s)'
      <4>1. ASSUME NEW d \in Announced(u, e)' PROVE d \in Announced(u, s)'
        <5>1. d \in 1..e /\ outbox'[d].of = u /\ outbox'[d].type \in VersionTypes
          BY DEF Announced
        <5>2. d \in 1..Len(outbox')
          BY <1>7, <3>4, <5>1
        <5>3. ~(d > s)
          BY <1>1, <1>8, <2>2, <5>1, <5>2 DEF Is
        <5>4. d \in 1..s
          BY <1>5, <5>1, <5>3
        <5> QED BY <5>1, <5>4 DEF Announced
      <4>2. ASSUME NEW d \in Announced(u, s)' PROVE d \in Announced(u, e)'
        <5>1. d \in 1..s /\ outbox'[d].of = u /\ outbox'[d].type \in VersionTypes
          BY DEF Announced
        <5>2. d \in 1..e
          BY <1>3, <1>5, <1>6, <3>4, <5>1
        <5> QED BY <5>1, <5>2 DEF Announced
      <4> QED BY <4>1, <4>2
    <3>6. HeadAt(u, e)' = HeadAt(u, s)'
      BY <3>5 DEF HeadAt
    <3>7. versions'[u] = versions[u]
      BY <2>2 DEF Written, WroteVersions
    <3>8. Len(outbox') = e
      BY <1>7, <3>4
    <3> QED BY <3>1, <3>3, <3>6, <3>7, <3>8
  <2> QED BY <2>1, <2>2
<1>11. ASSUME NEW c \in Consumers PROVE consumers'[c] <= Len(outbox')
  <2>1. consumers[c] <= s /\ consumers[c] \in Nat
    BY <1>1, <1>5 DEF OutboxKept, TypeOK
  <2>2. consumers'[c] = consumers[c]
    BY DEF Written
  <2> QED BY <1>3, <1>5, <1>6, <1>7, <2>1, <2>2
<1> QED BY <1>9, <1>10, <1>11 DEF OutboxKept

\* The event that a commit settles was ingested in front of it.
LEMMA CommitProgress ==
  ASSUME RowsInv, TypeOK', Grows, NEW t \in Names, NEW kind, NEW span, NEW facts, NEW event, NEW again, NEW n, NEW m,
         NEW s, NEW l, NEW q, Written(t, kind, span, facts, event, again, n, m, s, l, q), event # 0
  PROVE  TaskEventValid(s + 1)' /\ outbox'[s + 1].type \notin SessionEvents
<1>1. TypeOK
  BY DEF RowsInv
<1>2. n \in Nat
  BY DEF Written, WroteVersions
<1>3. m \in 1..16
  BY DEF Written, WroteVersions
<1>4. WroteEvents(t, span, event, again, n, m, s, l)
  BY DEF Written
<1>5. s \in Nat /\ s = Len(outbox) /\ l = s + 1 /\ ~again /\ Len(outbox') = l + m
  BY <1>4 DEF WroteEvents
<1>6. PICK c : c = s + 1
  OBVIOUS
<1>7. c \in 1..Len(outbox') /\ c > s /\ c = l + 0 /\ 0 \in 0..m
  BY <1>3, <1>5, <1>6
<1>8. PICK row : row = outbox'[c]
  OBVIOUS
<1>9. row.type = "task.progress" /\ row.of = t /\ row.revision = n /\ row.epoch = Owner.epoch /\ row.recovery = recovery
  BY <1>4, <1>6, <1>8 DEF WroteEvents, Is
<1>10. /\ Working(t) /\ Owned(t) /\ event \in Nat \ {0} /\ Len(events') = event /\ events'[event] = EventRow(t, s + 2)
  BY DEF Written, WroteMessage, Working, Fenced
<1>11. n \in Nat \ {0} /\ versions[t][n].epoch = Owner.epoch
  <2>1. n = Len(versions[t])
    BY DEF Written, WroteVersions
  <2>2. PICK a : a = Attempt(t)
    OBVIOUS
  <2>3. PICK x : x = Len(runs[t][a])
    OBVIOUS
  <2> QED BY <1>10, <2>1, <2>2, <2>3, OwnedIs
<1>12. n \in 1..n /\ n \in 1..(n + m)
  BY <1>2, <1>3, <1>11
<1>13. n \in DOMAIN versions'[t] /\ versions'[t][n].epoch = Owner.epoch
  <2>1. DOMAIN versions'[t] = 1..(n + m) /\ versions'[t][n] = versions[t][n]
    BY <1>12 DEF Written, WroteVersions
  <2> QED BY <1>11, <1>12, <2>1
<1>14. Authority(outbox[c].recovery, c)' # {} /\ AuthorityAt(c)' = Owner'
  BY <1>5, <1>7, CommitAuthority
<1>15. Owner'.epoch = Owner.epoch /\ Owner'.recovery = recovery
  BY CommitAuthority
<1>16. HeadAt(t, c)' = n
  <2>1. HeadAt(t, l + 0)' = n + 0
    BY <1>7, CommitHeads
  <2>2. n + 0 = n
    BY <1>2
  <2> QED BY <1>7, <2>1, <2>2
<1>17. ProgressValid(c)'
  <2>1. DOMAIN events' = 1..event /\ event \in 1..event
    BY <1>10, ColumnsAfter DEF Columned
  <2>2. PICK e : e = events'[event]
    OBVIOUS
  <2>3. n = Len(versions[t]) /\ c = Len(outbox) + 1
    BY <1>5, <1>6 DEF Written, WroteVersions
  <2>4. e.cursor = c /\ e.task = t /\ e.revision = n /\ e.epoch = Owner.epoch /\ e.recovery = recovery
    BY <1>10, <2>2, <2>3 DEF EventRow
  <2>5. event \in DOMAIN events'
    BY <2>1
  <2> QED BY <1>8, <1>9, <2>2, <2>4, <2>5 DEF ProgressValid
<1>18. TaskEvent(c)'
  BY <1>8, <1>9, <1>17 DEF TaskEvent, VersionTypes
<1>19. HeadAt(outbox[c].of, c)' = outbox'[c].revision
  <2>1. outbox'[c].of = t /\ outbox'[c].revision = n
    BY <1>8, <1>9
  <2> QED BY <1>16, <2>1
<1>20. TaskEventOK(c)'
  <2>1. outbox'[c].revision \in DOMAIN versions'[outbox'[c].of]
        /\ versions'[outbox'[c].of][outbox'[c].revision].epoch = outbox'[c].epoch
    BY <1>8, <1>9, <1>13
  <2>2. AuthorityAt(c)'.epoch = outbox'[c].epoch /\ AuthorityAt(c)'.recovery = outbox'[c].recovery
    BY <1>8, <1>9, <1>14, <1>15
  <2>3. outbox'[c].type = "task.progress"
    BY <1>8, <1>9
  <2> QED BY <1>14, <1>18, <1>19, <2>1, <2>2, <2>3 DEF TaskEventOK
<1>21. TaskEventValid(c)'
  <2>1. outbox'[c].type \in EventTypes
    BY <1>8, <1>9, TypesApart
  <2> QED BY <1>20, <2>1, TaskEventIffAfter
<1> QED BY <1>6, <1>8, <1>9, <1>21, TypesApart

\* The authorization that a commit publishes is of the new attempt that its next event starts.
LEMMA CommitFenced ==
  ASSUME RowsInv, TypeOK', Grows, NEW t \in Names, NEW kind, NEW span, NEW facts, NEW event, NEW again, NEW n, NEW m,
         NEW s, NEW l, NEW q, Written(t, kind, span, facts, event, again, n, m, s, l, q), Reauthorizes(t, kind, span)
  PROVE  SessionEventValid(l)' /\ outbox'[l].type \in SessionEvents
<1>1. TypeOK /\ Session \notin Names
  BY DEF RowsInv, TypeOK, Bounds
<1>2. n \in Nat
  BY DEF Written, WroteVersions
<1>3. m \in 1..16
  BY DEF Written, WroteVersions
<1>4. WroteEvents(t, span, event, again, n, m, s, l) /\ WroteSessions(again, l) /\ again = Reauthorizes(t, kind, span)
  BY DEF Written
<1>5. s \in Nat /\ s = Len(outbox) /\ l = s + 1 /\ Len(outbox') = l + m /\ \A c \in 1..s : outbox'[c] = outbox[c]
  BY <1>4 DEF WroteEvents
<1>6. l \in Nat
  BY <1>5
<1>7. PICK ns \in Nat : ns = Len(sessions)
  BY <1>1, Tables
<1>8. PICK row : row = outbox'[l]
  OBVIOUS
<1>9. row.type = "session.owner_fenced" /\ row.of = Session /\ row.revision = ns + 1
  BY <1>4, <1>7, <1>8 DEF WroteEvents, Is
<1>10. PICK now : now = sessions'[ns + 1]
  OBVIOUS
<1>11. Len(sessions') = ns + 1 /\ now.cursor = l /\ now.reason = "reauthorized"
  BY <1>4, <1>7, <1>10 DEF WroteSessions
<1>12. ns + 1 \in DOMAIN sessions'
  <2>1. DOMAIN sessions' = 1..Len(sessions')
    BY ColumnsAfter DEF Columned
  <2> QED BY <1>7, <1>11, <2>1
<1>13. \A d \in 1..(l - 1) : outbox'[d].of = Session => outbox'[d].revision < row.revision
  <2> SUFFICES ASSUME NEW d \in 1..(l - 1), outbox'[d].of = Session PROVE outbox'[d].revision < row.revision
    OBVIOUS
  <2>1. d \in 1..Len(outbox) /\ outbox'[d] = outbox[d]
    BY <1>5
  <2>2. outbox[d].revision \in 1..Len(sessions)
    BY <2>1, SessionEventsBefore
  <2> QED BY <1>7, <1>9, <2>1, <2>2
<1>14. Legal(t, kind, span, facts, event) /\ m = Len(span)
  BY DEF Written, WroteVersions
<1>15. PICK all : all = facts \cup ClosedFact(t, kind, span)
  OBVIOUS
<1>16. PICK a : a = Attempt(t)
  OBVIOUS
<1>17. PICK b : b = span[m].attempt
  OBVIOUS
<1>18. VersionsAre(t, span, all, n, m, a, b)
  BY <1>15, <1>16, <1>17, CommitSpan
<1>19. PICK r : r = receipts'[q + 2]
  OBVIOUS
<1>20. r.task = t /\ r.kind = kind /\ r.revision = n + m /\ q + 2 \in Commands(t)' /\ StartOf(r)' = n
  <2>1. /\ r \in ReceiptRows /\ r.task = t /\ r.kind = kind /\ r.revision = n + m /\ r.cursor = l + m /\ r.event = event
        /\ Commands(t)' = Commands(t) \cup {q + 2} /\ (\A u \in Names : u # t => Commands(u)' = Commands(u))
        /\ StartOf(r)' = n
    BY <1>19, CommitStart
  <2> QED BY <2>1
<1>21. n > 0 => versions'[t][n].attempt = a
  <2>1. ASSUME n > 0 PROVE versions'[t][n].attempt = a
    <3>1. n \in 1..n
      BY <1>2, <2>1
    <3>2. versions'[t][n] = versions[t][n] /\ versions[t][n].attempt = a
      BY <1>18, <2>1, <3>1 DEF VersionsAre
    <3> QED BY <3>2
  <2> QED BY <2>1
<1>22. versions'[t][n + m].attempt = b
  <2>1. m \in 1..m
    BY <1>3
  <2> QED BY <1>17, <1>18, <2>1 DEF VersionsAre
<1>23. n = 0 \/ versions'[t][n].attempt # versions'[t][n + m].attempt
  <2>1. ~Exists(t) \/ b # a
    BY <1>4, <1>14, <1>16, <1>17 DEF Reauthorizes, Last
  <2>2. n > 0 <=> Exists(t)
    BY <1>18 DEF VersionsAre
  <2> QED BY <1>2, <1>21, <1>22, <2>1, <2>2
<1>24. kind \in Renewing
  <2>1. ~Exists(t) \/ span[m].attempt # Attempt(t)
    BY <1>4, <1>14 DEF Reauthorizes, Last
  <2> QED BY <1>14, <2>1 DEF Legal, Renewing
<1>25. 1 \in 1..m /\ l + 1 \in 1..(l + m) /\ l < l + m
  BY <1>3, <1>6
<1>26. PICK next : next = outbox'[l + 1]
  OBVIOUS
<1>27. next.type = VersionType(n + 1) /\ next.of = t /\ next.revision = n + 1
  BY <1>4, <1>25, <1>26 DEF WroteEvents, Is
<1>28. next.type \in VersionTypes
  BY <1>27, TypesApart
<1>29. l < Len(outbox')
  BY <1>5, <1>25
<1>30. \E j \in Commands(t)' :
         /\ receipts'[j].kind \in {"task.create", "task.retry", "task.continue", "task.revise-request", "task.respond"}
         /\ outbox'[l + 1].revision = StartOf(receipts[j])' + 1
         /\ StartOf(receipts[j])' = 0 \/ versions'[receipts'[j].task][StartOf(receipts[j])'].attempt
                                          # versions'[receipts'[j].task][receipts'[j].revision].attempt
  <2>1. StartOf(receipts[q + 2])' = n
    BY <1>19, <1>20
  <2> QED BY <1>19, <1>20, <1>23, <1>24, <1>26, <1>27, <2>1 DEF Renewing
<1>31. outbox'[l + 1].of = t /\ outbox'[l + 1].type \in VersionTypes
  BY <1>26, <1>27, <1>28
<1>32. \E j \in Commands(outbox[l + 1].of)' :
         /\ receipts'[j].kind \in {"task.create", "task.retry", "task.continue", "task.revise-request", "task.respond"}
         /\ outbox'[l + 1].revision = StartOf(receipts[j])' + 1
         /\ StartOf(receipts[j])' = 0 \/ versions'[receipts'[j].task][StartOf(receipts[j])'].attempt
                                          # versions'[receipts'[j].task][receipts'[j].revision].attempt
  BY <1>30, <1>31
<1>33. outbox'[l].type # "session.created" /\ outbox'[l].revision = ns + 1
  BY <1>8, <1>9
<1>34. outbox'[l].revision \in DOMAIN sessions' /\ sessions'[outbox'[l].revision].cursor = l
  BY <1>10, <1>11, <1>12, <1>33
<1>35. SessionEventValid(l)'
  BY <1>8, <1>13, <1>29, <1>31, <1>32, <1>33, <1>34 DEF SessionEventValid
<1>36. outbox'[l].type \in SessionEvents
  BY <1>8, <1>9 DEF SessionEvents
<1> QED BY <1>35, <1>36

\* A version's event is of that version, next to the head there was.
LEMMA CommitAnnounces ==
  ASSUME RowsInv, TypeOK', Grows, NEW t \in Names, NEW kind, NEW span, NEW facts, NEW event, NEW again, NEW n, NEW m,
         NEW s, NEW l, NEW q, Written(t, kind, span, facts, event, again, n, m, s, l, q), NEW i \in 1..m
  PROVE  /\ TaskEventValid(l + i)' /\ outbox'[l + i].type \notin SessionEvents
         /\ VersionAnnounced(t, n + i)'
<1>1. TypeOK
  BY DEF RowsInv
<1>2. n \in Nat
  BY DEF Written, WroteVersions
<1>3. m \in 1..16
  BY DEF Written, WroteVersions
<1>4. WroteEvents(t, span, event, again, n, m, s, l)
  BY DEF Written
<1>5. s \in Nat /\ l \in Nat /\ s <= l /\ Len(outbox') = l + m /\ again \in BOOLEAN
  BY <1>4 DEF WroteEvents
<1>6. l \in Nat
  BY <1>5
<1>7. PICK c \in Nat : c = l + i
  BY <1>3, <1>6
<1>8. PICK v \in Nat : v = n + i
  BY <1>2, <1>3
<1>9. c \in 1..Len(outbox') /\ c > s /\ c > l /\ c - 1 = l + (i - 1) /\ i - 1 \in 0..m
  BY <1>3, <1>5, <1>6, <1>7
<1>10. PICK row : row = outbox'[c]
  OBVIOUS
<1>11. /\ row.type = VersionType(v) /\ row.of = t /\ row.revision = v /\ row.about = <<span[i].state, 0, 0>>
       /\ row.epoch = Owner.epoch /\ row.recovery = recovery
  BY <1>4, <1>7, <1>8, <1>10 DEF WroteEvents, Is
<1>12. PICK version : version = versions'[t][v]
  OBVIOUS
<1>13. version.state = span[i].state /\ version.epoch = Owner.epoch /\ version.recovery = recovery
  BY <1>8, <1>12 DEF Written, WroteVersions, Holds
<1>14. v \in DOMAIN versions'[t]
  <2>1. DOMAIN versions'[t] = 1..(n + m)
    BY DEF Written, WroteVersions
  <2> QED BY SMTT(30), <1>2, <1>3, <1>8, <2>1
<1>15. Authority(outbox[c].recovery, c)' # {} /\ AuthorityAt(c)' = Owner'
  BY <1>9, CommitAuthority
<1>16. Owner'.epoch = Owner.epoch /\ Owner'.recovery = recovery
  BY CommitAuthority
<1>17. HeadAt(t, c - 1)' + 1 = v
  <2>1. PICK k : k = i - 1
    OBVIOUS
  <2>2. k \in 0..m /\ c - 1 = l + k
    BY <1>9, <2>1
  <2>3. HeadAt(t, l + k)' = n + k
    BY <2>2, CommitHeads
  <2>4. HeadAt(t, c - 1)' = n + k
    BY <2>2, <2>3
  <2> QED BY <1>2, <1>3, <1>8, <2>1, <2>4
<1>18. row.type \in VersionTypes /\ row.type \in EventTypes /\ row.type \notin SessionEvents
       /\ row.type # "task.input_committed" /\ row.type # "task.execution_closed" /\ row.type # "task.progress"
  BY <1>11, TypesApart
<1>19. VersionEventValid(c)'
  <2>1. HeadAt(outbox[c].of, c - 1)' + 1 = outbox'[c].revision
    <3>1. outbox'[c].of = t /\ outbox'[c].revision = v
      BY <1>10, <1>11
    <3> QED BY <1>17, <3>1
  <2>2. (row.type = "task.created") = (row.revision = 1)
    BY <1>11 DEF VersionType
  <2>3. versions'[outbox'[c].of][outbox'[c].revision] = version
    BY <1>10, <1>11, <1>12
  <2>4. /\ outbox'[c].about = <<version.state, 0, 0>> /\ version.recovery = outbox'[c].recovery
        /\ version.epoch = outbox'[c].epoch
    BY <1>10, <1>11, <1>13
  <2>5. (outbox'[c].type = "task.created") = (outbox'[c].revision = 1)
    BY <1>10, <2>2
  <2> QED BY <2>1, <2>3, <2>4, <2>5 DEF VersionEventValid
<1>20. TaskEvent(c)'
  BY <1>10, <1>18, <1>19 DEF TaskEvent
<1>21. TaskEventOK(c)'
  <2>1. outbox'[c].revision \in DOMAIN versions'[outbox'[c].of]
        /\ versions'[outbox'[c].of][outbox'[c].revision].epoch = outbox'[c].epoch
    BY <1>10, <1>11, <1>12, <1>13, <1>14
  <2>2. AuthorityAt(c)'.epoch = outbox'[c].epoch /\ AuthorityAt(c)'.recovery = outbox'[c].recovery
    BY <1>10, <1>11, <1>15, <1>16
  <2>3. outbox'[c].type \in VersionTypes /\ outbox'[c].type # "task.input_committed"
    BY <1>10, <1>18
  <2> QED BY <1>15, <1>20, <2>1, <2>2, <2>3 DEF TaskEventOK
<1>22. TaskEventValid(c)'
  <2>1. outbox'[c].type \in EventTypes
    BY <1>10, <1>18
  <2> QED BY <1>21, <2>1, TaskEventIffAfter
<1>23. VersionAnnounced(t, v)'
  <2>1. c \in Announced(t, Len(outbox))' /\ outbox'[c].revision = v
    BY <1>9, <1>10, <1>11, <1>18 DEF Announced
  <2> QED BY <2>1 DEF VersionAnnounced
<1> QED BY <1>7, <1>8, <1>10, <1>18, <1>22, <1>23

\* The outbox is valid.
LEMMA CommitOutboxValid ==
  ASSUME RowsInv, TypeOK', Grows, NEW t \in Names, NEW kind, NEW span, NEW facts, NEW event, NEW again, NEW n, NEW m,
         NEW s, NEW l, NEW q, Written(t, kind, span, facts, event, again, n, m, s, l, q)
  PROVE  OutboxValid'
<1>1. TypeOK
  BY DEF RowsInv
<1>2. n \in Nat
  BY DEF Written, WroteVersions
<1>3. m \in 1..16
  BY DEF Written, WroteVersions
<1>4. WroteEvents(t, span, event, again, n, m, s, l)
  BY DEF Written
<1>5. s \in Nat /\ l \in Nat /\ s <= l /\ s = Len(outbox) /\ Len(outbox') = l + m /\ \A c \in 1..s : outbox'[c] = outbox[c]
  BY <1>4 DEF WroteEvents
<1>6. ASSUME NEW c \in 1..Len(outbox'), c > s
      PROVE  \/ event # 0 /\ c = s + 1 /\ Is(outbox'[c], "task.progress", t, n, <<"working", 0, 0>>)
             \/ again /\ c = l /\ l > s /\ Is(outbox'[c], "session.owner_fenced", Session, Len(sessions) + 1, Nothing)
             \/ \E i \in 1..m : c = l + i /\ Is(outbox'[c], VersionType(n + i), t, n + i, <<span[i].state, 0, 0>>)
  <2>1. RowIsNew(c, t, span, event, again, n, m, s, l)
    BY <1>3, <1>4, <1>6, NewRows
  <2> QED BY <2>1 DEF RowIsNew
<1>7. PublishKept'
  <2>1. \A c \in 1..Len(outbox') : c > Len(outbox) => outbox'[c].recovery = recovery /\ outbox'[c].publish = "pending"
    BY <1>5, <1>6 DEF Is
  <2>2. Len(outbox) <= Len(outbox')
    <3>1. l \in Nat
      BY <1>5
    <3> QED BY <1>3, <1>5, <3>1
  <2>3. UNCHANGED <<recovery, consumers>>
    BY DEF Written
  <2> QED BY <1>5, <2>1, <2>2, <2>3, PublishGrows
<1>8. ASSUME NEW c \in 1..Len(outbox'), c > Len(outbox) PROVE EventValid(c)'
  <2>1. CASE event # 0 /\ c = s + 1
    <3>1. TaskEventValid(s + 1)' /\ outbox'[s + 1].type \notin SessionEvents
      BY <2>1, CommitProgress
    <3>2. TaskEventValid(c)' /\ outbox'[c].type \notin SessionEvents
      BY <2>1, <3>1
    <3> QED BY <3>2 DEF EventValid
  <2>2. CASE again /\ c = l
    <3>1. SessionEventValid(l)' /\ outbox'[l].type \in SessionEvents
      <4>1. Reauthorizes(t, kind, span)
        BY <2>2 DEF Written
      <4> QED BY <4>1, CommitFenced
    <3>2. SessionEventValid(c)' /\ outbox'[c].type \in SessionEvents
      BY <2>2, <3>1
    <3> QED BY <3>2 DEF EventValid
  <2>3. CASE \E i \in 1..m : c = l + i
    <3>1. PICK i \in 1..m : c = l + i
      BY <2>3
    <3>2. TaskEventValid(l + i)' /\ outbox'[l + i].type \notin SessionEvents
      BY CommitAnnounces
    <3>3. TaskEventValid(c)' /\ outbox'[c].type \notin SessionEvents
      BY <3>1, <3>2
    <3> QED BY <3>3 DEF EventValid
  <2> QED BY <1>5, <1>6, <1>8, <2>1, <2>2, <2>3
<1>9. ASSUME NEW u \in Names, NEW j \in 1..Len(versions'[u]), j > Len(versions[u]) PROVE VersionAnnounced(u, j)'
  <2>1. Len(versions'[t]) = n + m /\ n = Len(versions[t]) /\ \A x \in Names : x # t => versions'[x] = versions[x]
    BY DEF Written, WroteVersions
  <2>2. CASE u = t
    <3>1. PICK i \in 1..m : j = n + i
      <4>1. j \in 1..(n + m) /\ j > n
        BY <1>9, <2>1, <2>2
      <4>2. j - n \in 1..m /\ j = n + (j - n)
        BY <1>2, <1>3, <4>1
      <4> QED BY <4>2
    <3>2. VersionAnnounced(t, n + i)'
      BY CommitAnnounces
    <3> QED BY <2>2, <3>1, <3>2
  <2>3. CASE u # t
    <3>1. versions'[u] = versions[u] /\ Len(versions[u]) \in Nat
      BY <1>1, <2>1, <2>3, TaskTables
    <3>2. FALSE
      BY <1>9, <3>1
    <3> QED BY <3>2
  <2> QED BY <2>2, <2>3
<1>10. \A u \in Names, k \in AttemptNumbers : \A i \in 1..Len(runs'[u][k]) : ~(i > Len(runs[u][k]))
  <2>1. runs' = runs
    BY DEF Written
  <2> QED BY <1>1, <2>1, RunTables
<1>11. \A i \in 1..Len(inputs') : i > Len(inputs) => inputs'[i].kind # "runtime"
  <2>1. /\ q \in Nat /\ q = Len(inputs) /\ Len(inputs') = q + 1
        /\ inputs'[q + 1] = InputRow(t, span[m], n + m, IF kind \in Internal THEN "internal" ELSE "user")
    BY DEF Written, WroteReceipt
  <2>2. inputs'[q + 1].kind # "runtime"
    BY <2>1 DEF InputRow
  <2> SUFFICES ASSUME NEW i \in 1..Len(inputs'), i > Len(inputs) PROVE i = q + 1
    BY <2>2
  <2> QED BY <2>1
<1>12. \A i \in 1..Len(inputs') : i > Len(inputs) /\ inputs'[i].kind = "runtime" =>
         \E row \in {inputs'[i]} : InputAnnounced(row.task, row.attempt, row.ordinal)'
  BY <1>11
<1>13. \A u \in Names, k \in AttemptNumbers : \A i \in 1..Len(runs'[u][k]) :
         i > Len(runs[u][k]) /\ runs'[u][k][i].closed => CloseAnnounced(u, k, i)'
  BY <1>10
<1> QED BY <1>7, <1>8, <1>9, <1>12, <1>13, OutboxGrow

\* The event that a commit settles, and the command that settles it.
LEMMA CommitSettles ==
  ASSUME RowsInv, TypeOK', Grows, NEW t \in Names, NEW kind, NEW span, NEW facts, NEW event, NEW again, NEW n, NEW m,
         NEW s, NEW l, NEW q, Written(t, kind, span, facts, event, again, n, m, s, l, q), event # 0
  PROVE  /\ \A i \in 1..Len(events') : OrderedPair(i, event, events')
         /\ event > 1 => events'[event - 1].cursor < events'[event].cursor
         /\ EventOK(event)'
         /\ events'[event].task = t /\ event \in DOMAIN events' /\ event = Len(events) + 1 /\ Len(events') = event
         /\ events'[event].revision \in DOMAIN versions'[t]
         /\ events'[event].run \in DOMAIN runs'[t][events'[event].attempt]
<1>1. TypeOK /\ EventsValid /\ ReceiptsKept
  BY DEF RowsInv, RowsValid
<1>2. n \in Nat
  BY DEF Written, WroteVersions
<1>3. WroteEvents(t, span, event, again, n, m, s, l) /\ WroteReceipt(t, kind, span, event, n, m, l, q)
  BY DEF Written
<1>4. /\ Working(t) /\ Owned(t) /\ event \in Nat \ {0} /\ event = Len(events) + 1 /\ m = 1
      /\ kind = "task.runtime" /\ span[1].state = "VERIFYING" /\ span[1].attempt = Attempt(t)
      /\ Len(events') = event /\ (\A e \in 1..Len(events) : events'[e] = events[e])
      /\ events'[event] = EventRow(t, s + 2)
  BY DEF Written, WroteMessage, Working, Fenced
<1>5. s \in Nat /\ s = Len(outbox) /\ l = s + 1 /\ Len(outbox') = l + 1 /\ DOMAIN outbox' = 1..(l + 1)
  BY <1>3, <1>4 DEF WroteEvents
<1>6. PICK ev \in Nat : ev = Len(events)
  BY <1>1, Tables
<1>7. PICK a : a = Attempt(t)
  OBVIOUS
<1>8. PICK x : x = Len(runs[t][a])
  OBVIOUS
<1>9. n = Len(versions[t])
  BY DEF Written, WroteVersions
<1>10. /\ a \in AttemptNumbers /\ n \in Nat \ {0} /\ x \in Nat \ {0} /\ sessions # <<>>
       /\ versions[t][n].epoch = Owner.epoch /\ versions[t][n].attempt = a
  BY <1>4, <1>7, <1>8, <1>9, OwnedIs
<1>11. PICK row : row = events'[event]
  OBVIOUS
<1>12. /\ row.task = t /\ row.attempt = a /\ row.revision = n /\ row.epoch = Owner.epoch /\ row.recovery = recovery
       /\ row.run = x /\ row.cursor = s + 1 /\ row.ack = s + 2
  BY <1>4, <1>5, <1>7, <1>8, <1>9, <1>11 DEF EventRow
<1>13. DOMAIN versions[t] = 1..n /\ DOMAIN runs[t][a] = 1..x /\ DOMAIN events = 1..ev /\ DOMAIN events' = 1..event
  <2>1. DOMAIN versions[t] = 1..n
    BY <1>1, <1>9, TaskTables
  <2>2. DOMAIN runs[t][a] = 1..x
    BY <1>1, <1>8, <1>10, RunTables
  <2>3. DOMAIN events = 1..ev /\ DOMAIN events' = 1..event
    BY <1>1, <1>4, <1>6, Columns, ColumnsAfter DEF Columned
  <2> QED BY <2>1, <2>2, <2>3
<1>14. Leans(row) /\ \A e \in DOMAIN events : events[e].task = t /\ events[e].attempt = a =>
         events[e].revision <= n /\ events[e].run <= x
  <2>1. /\ Leans(row)
        /\ \A e \in DOMAIN events : events[e].task = t /\ events[e].attempt = a =>
             events[e].revision <= n /\ events[e].run <= x
        /\ \A e \in DOMAIN requests : requests[e].task = t /\ requests[e].attempt = a =>
             requests[e].revision <= n /\ requests[e].run <= x
    BY <1>4, <1>7, <1>8, <1>9, <1>12, LeansNow
  <2> QED BY <2>1
<1>15. \A i \in 1..Len(events') : OrderedPair(i, event, events')
  <2> SUFFICES ASSUME NEW i \in 1..Len(events'), i < event, events'[i].task = t, events'[i].attempt = a
               PROVE  events'[i].revision <= n /\ events'[i].run <= x
    BY <1>11, <1>12 DEF OrderedPair
  <2>1. i \in 1..ev
    BY <1>4, <1>6
  <2>2. events'[i] = events[i]
    BY <1>4, <1>6, <2>1
  <2> QED BY <1>13, <1>14, <2>1, <2>2
<1>16. event > 1 => events'[event - 1].cursor < events'[event].cursor
  <2>1. ASSUME event > 1 PROVE events'[event - 1].cursor < events'[event].cursor
    <3>1. ev \in DOMAIN events /\ event - 1 = ev
      BY <1>4, <1>6, <1>13, <2>1
    <3>2. events[ev].cursor \in DOMAIN outbox
      BY <1>1, <3>1 DEF EventsValid
    <3>3. DOMAIN outbox = 1..s
      BY <1>3 DEF WroteEvents
    <3>4. events'[ev] = events[ev]
      BY <1>4, <1>6, <1>13, <3>1
    <3> QED BY <1>5, <1>11, <1>12, <3>1, <3>2, <3>3, <3>4
  <2> QED BY <2>1
<1>17. Leans(row)'
  <2>1. row.task \in Names /\ row.attempt \in AttemptNumbers /\ row.revision \in DOMAIN versions[row.task]
        /\ row.run \in DOMAIN runs[row.task][row.attempt]
    BY <1>10, <1>12, <1>13
  <2> QED BY <1>1, <1>14, <2>1, LeansStays
<1>18. PICK r : r = receipts'[q + 2]
  OBVIOUS
<1>19. r.task = t /\ r.kind = kind /\ r.revision = n + 1 /\ r.cursor = l + 1 /\ r.event = event /\ StartOf(r)' = n
  <2>1. /\ r \in ReceiptRows /\ r.task = t /\ r.kind = kind /\ r.revision = n + m /\ r.cursor = l + m /\ r.event = event
        /\ Commands(t)' = Commands(t) \cup {q + 2} /\ (\A u \in Names : u # t => Commands(u)' = Commands(u))
        /\ StartOf(r)' = n
    BY <1>18, CommitStart
  <2> QED BY <1>4, <2>1
<1>20. Settlements(event)' = {q + 2}
  <2>1. /\ q \in Nat /\ Len(receipts) = q + 1 /\ DOMAIN receipts' = 1..(q + 2)
        /\ \A i \in 1..(q + 1) : receipts'[i] = receipts[i]
    BY <1>3 DEF WroteReceipt
  <2>2. DOMAIN receipts = 1..(q + 1)
    BY <1>1, <2>1, Tables
  <2>3. \A i \in 1..(q + 1) : receipts[i].event <= ev /\ receipts[i].event \in Nat
    BY <1>1, <1>6, <2>1, <2>2, Columns DEF ReceiptsKept, Columned
  <2>4. \A i \in 1..(q + 1) : receipts'[i].event # event
    BY <1>4, <1>6, <2>1, <2>3
  <2>5. \A i \in 1..(q + 2) : i = q + 2 \/ i \in 1..(q + 1)
    BY <2>1
  <2>6. q + 2 \in 1..(q + 2)
    BY <2>1
  <2> QED BY <1>18, <1>19, <2>1, <2>4, <2>5, <2>6 DEF Settlements
<1>21. PICK all : all = facts \cup ClosedFact(t, kind, span)
  OBVIOUS
<1>22. PICK b : b = span[m].attempt
  OBVIOUS
<1>23. VersionsAre(t, span, all, n, m, a, b)
  BY <1>7, <1>21, <1>22, CommitSpan
<1>24. PICK final : final = versions'[t][n + 1]
  OBVIOUS
<1>25. final.state = "VERIFYING" /\ final.attempt = a /\ final.epoch = Owner.epoch /\ final.facts = all
  <2>1. 1 \in 1..m
    BY <1>4
  <2> QED BY <1>4, <1>7, <1>23, <1>24, <2>1 DEF VersionsAre
<1>26. <<"event", 0, event>> \in all
  <2>1. Len(span) = 1
    BY <1>4 DEF Written, WroteVersions
  <2>2. {f \in facts : f[1] = "event"} = {<<"event", 0, event>>}
    BY <1>4, <2>1 DEF Written, Legal
  <2> QED BY <1>21, <2>2
<1>27. PICK first : first = outbox'[l + 1]
  OBVIOUS
<1>28. /\ first.type = "task.state_changed" /\ first.of = t /\ first.revision = n + 1
       /\ first.epoch = Owner.epoch /\ first.recovery = recovery
  <2>1. 1 \in 1..m
    BY <1>4
  <2>2. first.type = VersionType(n + 1) /\ first.of = t /\ first.revision = n + 1
        /\ first.epoch = Owner.epoch /\ first.recovery = recovery
    BY <1>3, <1>27, <2>1 DEF WroteEvents, Is
  <2>3. n + 1 # 1
    BY <1>10
  <2> QED BY <2>2, <2>3 DEF VersionType
<1>29. SettlementValid(event, r)'
  <2>1. row.cursor < Len(outbox') /\ row.cursor + 1 = l + 1 /\ row.cursor + 1 <= r.cursor
    BY <1>5, <1>12, <1>19
  <2>2. /\ outbox'[row.cursor + 1].type = "task.state_changed" /\ outbox'[row.cursor + 1].of = t
        /\ outbox'[row.cursor + 1].revision = n + 1 /\ outbox'[row.cursor + 1].epoch = Owner.epoch
        /\ outbox'[row.cursor + 1].recovery = recovery
    BY <1>27, <1>28, <2>1
  <2>3. versions'[row.task][r.revision] = final
    BY <1>12, <1>19, <1>24
  <2>4. r.kind = "task.runtime" /\ r.task = row.task /\ StartOf(r)' = row.revision
    BY <1>4, <1>12, <1>19
  <2> QED BY <1>11, <1>12, <1>25, <1>26, <2>1, <2>2, <2>3, <2>4 DEF SettlementValid
<1>30. row.ack = MaxOf({row.cursor} \cup {receipts'[i].cursor : i \in Settlements(event)'})
  <2>1. PICK y \in Nat : y = s + 1
    BY <1>5
  <2>2. PICK z \in Nat : z = s + 2
    BY <1>5
  <2>3. PICK S : S = {y, z}
    OBVIOUS
  <2>4. {row.cursor} \cup {receipts'[i].cursor : i \in Settlements(event)'} = S
    <3>1. receipts'[q + 2].cursor = z /\ row.cursor = y
      BY <1>5, <1>12, <1>18, <1>19, <2>1, <2>2
    <3> QED BY <1>20, <2>3, <3>1
  <2>5. S \subseteq Int /\ z \in S /\ \A k \in S : k <= z
    BY <1>5, <2>1, <2>2, <2>3
  <2>6. MaxOf(S) = z
    BY <2>5, MaxIs
  <2> QED BY <1>12, <2>2, <2>4, <2>6
<1>31. EventOK(event)'
  <2>1. row.cursor \in DOMAIN outbox'
    BY <1>5, <1>12
  <2>2. outbox'[row.cursor].type = "task.progress"
    BY <1>3, <1>12 DEF WroteEvents, Is
  <2>3. \A i \in Settlements(event)' : receipts'[i] = r
    BY <1>18, <1>20
  <2>4. \A i, j \in Settlements(event)' : i = j
    BY <1>20
  <2>5. \A i \in Settlements(event)' : SettlementValid(event, receipts[i])'
    BY <1>29, <2>3
  <2> QED BY <1>11, <1>17, <1>30, <2>1, <2>2, <2>4, <2>5 DEF EventOK
<1>32. row.revision \in DOMAIN versions'[t] /\ row.run \in DOMAIN runs'[t][row.attempt]
  <2>1. DOMAIN versions'[t] = 1..(n + 1) /\ runs' = runs
    BY <1>4 DEF Written, WroteVersions
  <2>2. n \in 1..(n + 1) /\ x \in 1..x
    BY <1>10
  <2> QED BY <1>12, <1>13, <2>1, <2>2
<1>33. event \in DOMAIN events'
  BY <1>4, <1>13
<1> QED BY <1>4, <1>11, <1>12, <1>15, <1>16, <1>31, <1>32, <1>33

\* The events and requests are valid.
LEMMA CommitMessages ==
  ASSUME RowsInv, TypeOK', Grows, NEW t \in Names, NEW kind, NEW span, NEW facts, NEW event, NEW again, NEW n, NEW m,
         NEW s, NEW l, NEW q, Written(t, kind, span, facts, event, again, n, m, s, l, q)
  PROVE  EventsValid' /\ RequestsValid' /\ MessagesKept'
<1>1. TypeOK
  BY DEF RowsInv
<1>2. WroteMessage(t, kind, span, event, n, m, s) /\ requests' = requests /\ Legal(t, kind, span, facts, event)
  BY DEF Written
<1>3. RequestsValid'
  BY <1>2, RequestsSame
<1>4. event # 0 =>
         /\ \A i \in 1..Len(events') : OrderedPair(i, event, events')
         /\ event > 1 => events'[event - 1].cursor < events'[event].cursor
         /\ EventOK(event)'
         /\ events'[event].task = t /\ event \in DOMAIN events' /\ event = Len(events) + 1 /\ Len(events') = event
         /\ events'[event].revision \in DOMAIN versions'[t]
         /\ events'[event].run \in DOMAIN runs'[t][events'[event].attempt]
  BY CommitSettles
<1>5. PICK ev \in Nat : ev = Len(events)
  BY <1>1, Tables
<1>6. event = 0 => Len(events') = ev
  BY <1>2, <1>5 DEF WroteMessage
<1>7. ASSUME NEW j \in 1..Len(events'), j > Len(events) PROVE event # 0 /\ j = event
  <2>1. event # 0
    BY <1>5, <1>6, <1>7
  <2>2. event = ev + 1 /\ Len(events') = event
    BY <1>4, <1>5, <2>1
  <2> QED BY <1>5, <1>7, <2>1, <2>2
<1>8. SettlesOK(q + 2)'
  <2>1. PICK r : r = receipts'[q + 2]
    OBVIOUS
  <2>2. r.task = t /\ r.kind = kind /\ r.revision = n + m /\ r.event = event
    <3>1. /\ r \in ReceiptRows /\ r.task = t /\ r.kind = kind /\ r.revision = n + m /\ r.cursor = l + m /\ r.event = event
          /\ Commands(t)' = Commands(t) \cup {q + 2} /\ (\A u \in Names : u # t => Commands(u)' = Commands(u))
          /\ StartOf(r)' = n
      BY <2>1, CommitStart
    <3> QED BY <3>1
  <2>3. PICK all : all = facts \cup ClosedFact(t, kind, span)
    OBVIOUS
  <2>4. PICK a : a = Attempt(t)
    OBVIOUS
  <2>5. PICK b : b = span[m].attempt
    OBVIOUS
  <2>6. VersionsAre(t, span, all, n, m, a, b)
    BY <2>3, <2>4, <2>5, CommitSpan
  <2>7. PICK final : final = versions'[t][n + m]
    OBVIOUS
  <2>8. final.state = span[m].state /\ final.facts = all
    <3>1. m \in 1..16
      BY <2>6 DEF VersionsAre
    <3>2. m \in 1..m
      BY <3>1
    <3> QED BY <2>6, <2>7, <3>2 DEF VersionsAre
  <2>9. ASSUME kind = "task.runtime", final.state = "VERIFYING"
        PROVE  event # 0 /\ {f \in final.facts : f[1] = "event"} = {<<"event", 0, event>>}
    <3>1. m = Len(span)
      BY DEF Written, WroteVersions
    <3>2. event # 0 /\ {f \in facts : f[1] = "event"} = {<<"event", 0, event>>}
      BY <1>2, <2>8, <2>9, <3>1 DEF Legal
    <3>3. ClosedFact(t, kind, span) = {}
      BY <2>9 DEF ClosedFact
    <3>4. all = facts
      BY <2>3, <3>3
    <3> QED BY <2>8, <3>2, <3>4
  <2>10. versions'[receipts'[q + 2].task][receipts'[q + 2].revision] = final
    BY <2>1, <2>2, <2>7
  <2>11. receipts'[q + 2].kind = kind /\ receipts'[q + 2].event = event /\ receipts'[q + 2].task = t
    BY <2>1, <2>2
  <2> QED BY <1>4, <2>9, <2>10, <2>11 DEF SettlesOK
<1>9. EventsValid'
  <2>1. \A j \in 1..Len(events') : j > Len(events) =>
           /\ \A i \in 1..Len(events') : OrderedPair(i, j, events')
           /\ j > 1 => events'[j - 1].cursor < events'[j].cursor
           /\ EventOK(j)'
    <3> SUFFICES ASSUME NEW j \in 1..Len(events'), j > Len(events)
                 PROVE  /\ \A i \in 1..Len(events') : OrderedPair(i, j, events')
                        /\ j > 1 => events'[j - 1].cursor < events'[j].cursor
                        /\ EventOK(j)'
      OBVIOUS
    <3>1. event # 0 /\ j = event
      BY <1>7
    <3> QED BY <1>4, <3>1
  <2>2. \A i \in 1..Len(receipts') : i > Len(receipts) => SettlesOK(i)'
    <3> SUFFICES ASSUME NEW i \in 1..Len(receipts'), i > Len(receipts) PROVE i = q + 2
      BY <1>8
    <3>1. q \in Nat /\ Len(receipts) = q + 1 /\ Len(receipts') = q + 2
      BY DEF Written, WroteReceipt
    <3> QED BY <3>1
  <2> QED BY <2>1, <2>2, EventsGrow
<1>10. MessagesKept'
  <2>1. \A e \in 1..Len(requests') : ~(e > Len(requests))
    BY <1>1, <1>2, Tables
  <2>2. \A e \in 1..Len(events') : e > Len(events) =>
           /\ events'[e].revision \in DOMAIN versions'[events'[e].task]
           /\ events'[e].run \in DOMAIN runs'[events'[e].task][events'[e].attempt]
    BY <1>4, <1>7
  <2> QED BY <2>1, <2>2, MessagesGrow
<1> QED BY <1>3, <1>9, <1>10

\* A command that is done leaves the store as it promises.
LEMMA CommitKeeps ==
  ASSUME RowsInv, NEW t \in Names, NEW kind, NEW span, NEW facts, NEW earlier, NEW event,
         Commits(t, kind, span, facts, earlier, event)
  PROVE  RowsInv'
<1>1. PICK again : again = Reauthorizes(t, kind, span)
  OBVIOUS
<1>2. PICK n : n = Len(versions[t])
  OBVIOUS
<1>3. PICK m : m = Len(span)
  OBVIOUS
<1>4. PICK s : s = Len(outbox)
  OBVIOUS
<1>5. PICK l : l = Lead(t, kind, span, earlier)
  OBVIOUS
<1>6. PICK q : q = Len(inputs)
  OBVIOUS
<1>7. TypeOK' /\ Written(t, kind, span, facts, event, again, n, m, s, l, q)
  BY <1>1, <1>2, <1>3, <1>4, <1>5, <1>6, CommitWrites
<1>8. Grows
  BY <1>7, CommitGrows
<1>9. SessionsValid' /\ Opened'
  BY <1>7, <1>8, CommitSession
<1>10. VersionsKept'
  BY <1>7, CommitVersionsKept
<1>11. AttemptsValid'
  BY <1>7, CommitAttemptsKept
<1>12. RunsValid' /\ RunsKept'
  BY <1>7, <1>8, CommitRuns
<1>13. InputsValid' /\ ReceiptsValid' /\ ReceiptsKept'
  BY <1>7, <1>8, <1>10, <1>11, CommitReceives
<1>14. CommandsValid'
  BY <1>7, <1>8, CommitCommands
<1>15. OutboxKept'
  BY <1>7, <1>8, CommitOutboxKept
<1>16. OutboxValid'
  BY <1>7, <1>8, CommitOutboxValid
<1>17. EventsValid' /\ RequestsValid' /\ MessagesKept'
  BY <1>7, <1>8, CommitMessages
<1> QED BY <1>7, <1>9, <1>10, <1>11, <1>12, <1>13, <1>14, <1>15, <1>16, <1>17, Preserved

-----------------------------------------------------------------------------
(* The commands.                                                           *)

\* A version as the reducer returns it, of an attempt and an intent.
Reduced(w, state, attempt, intent) ==
  w \in VersionRows /\ w.state = state /\ w.attempt = attempt /\ w.intent = intent /\ w.outcome = "none"

\* What the reducer returns for a state.
LEMMA ToIs ==
  ASSUME NEW v \in VersionRows, NEW state \in TaskStates
  PROVE  Reduced(To(v, state), state, v.attempt, v.intent)
BY DEF To, VersionRows, Outcomes, Reduced

\* The version an attempt begins from.
LEMMA FirstIs ==
  ASSUME NEW attempt \in Nat, NEW intent \in Nat
  PROVE  FirstVersion(attempt, intent) \in VersionRows
         /\ FirstVersion(attempt, intent).attempt = attempt /\ FirstVersion(attempt, intent).intent = intent
BY DEF FirstVersion, VersionRows, TaskStates, Outcomes

\* A span of one state,
LEMMA OneIs ==
  ASSUME NEW v \in VersionRows, NEW state \in TaskStates, NEW span, span = States(v, <<state>>)
  PROVE  /\ span \in Seq(VersionRows) /\ Len(span) = 1 /\ Reduced(span[1], state, v.attempt, v.intent)
         /\ span = <<To(v, state)>>
<1>1. PICK states : states = <<state>>
  OBVIOUS
<1>2. DOMAIN states = 1..1 /\ states[1] = state
  BY <1>1
<1>3. PICK w \in VersionRows : w = To(v, state)
  BY ToIs DEF Reduced
<1>4. span = [i \in 1..1 |-> To(v, states[i])]
  BY <1>1, <1>2 DEF States
<1>5. \A i \in 1..1 : states[i] = state
  BY <1>2
<1>6. span = [i \in 1..1 |-> w]
  BY <1>3, <1>4, <1>5
<1>7. span = <<w>>
  BY <1>6
<1>8. Reduced(w, state, v.attempt, v.intent)
  BY <1>3, ToIs
<1>9. span \in Seq(VersionRows) /\ Len(span) = 1 /\ span[1] = w
  <2>1. w \in VersionRows
    BY <1>3
  <2>2. <<w>> \in Seq(VersionRows) /\ Len(<<w>>) = 1 /\ <<w>>[1] = w
    BY <2>1
  <2> QED BY <1>7, <2>2
<1>10. span = <<To(v, state)>>
  BY <1>3, <1>7
<1> QED BY <1>8, <1>9, <1>10

\* of two,
LEMMA TwoIs ==
  ASSUME NEW v \in VersionRows, NEW x \in TaskStates, NEW y \in TaskStates, NEW span, span = States(v, <<x, y>>)
  PROVE  /\ span \in Seq(VersionRows) /\ Len(span) = 2
         /\ Reduced(span[1], x, v.attempt, v.intent) /\ Reduced(span[2], y, v.attempt, v.intent)
<1>1. PICK states : states = <<x, y>>
  OBVIOUS
<1>2. DOMAIN states = 1..2 /\ states[1] = x /\ states[2] = y
  BY <1>1
<1>3. PICK w, z : w = To(v, x) /\ z = To(v, y)
  OBVIOUS
<1>4. Reduced(w, x, v.attempt, v.intent) /\ Reduced(z, y, v.attempt, v.intent)
  BY <1>3, ToIs
<1>5. span = [i \in 1..2 |-> To(v, states[i])]
  BY <1>1, <1>2 DEF States
<1>6. DOMAIN span = 1..2 /\ span[1] = w /\ span[2] = z
  BY <1>2, <1>3, <1>5
<1>7. w \in VersionRows /\ z \in VersionRows
  BY <1>4 DEF Reduced
<1>8. span \in [1..2 -> VersionRows]
  <2>1. \A i \in 1..2 : i = 1 \/ i = 2
    OBVIOUS
  <2>2. \A i \in 1..2 : span[i] \in VersionRows
    BY <1>6, <1>7, <2>1
  <2> QED BY <1>5, <2>2
<1>9. span \in Seq(VersionRows) /\ Len(span) = 2
  BY <1>8
<1> QED BY <1>4, <1>6, <1>9

\* of a stop,
LEMMA StoppedIs ==
  ASSUME NEW v \in VersionRows, NEW span, span = Stopped(v)
  PROVE  /\ span \in Seq(VersionRows) /\ Len(span) = 2
         /\ Reduced(span[1], "CANCELLING", v.attempt, v.intent) /\ Reduced(span[2], "CANCELLED", v.attempt, v.intent)
<1>1. "CANCELLING" \in TaskStates /\ "CANCELLED" \in TaskStates
  BY DEF TaskStates, Terminal
<1>2. span = States(v, <<"CANCELLING", "CANCELLED">>)
  BY DEF Stopped
<1> QED BY <1>1, <1>2, TwoIs

\* of a new attempt,
LEMMA NewIs ==
  ASSUME NEW attempt \in Nat, NEW intent \in Nat, NEW span, span = States(FirstVersion(attempt, intent), <<"CREATED", "READY">>)
  PROVE  /\ span \in Seq(VersionRows) /\ Len(span) = 2
         /\ Reduced(span[1], "CREATED", attempt, intent) /\ Reduced(span[2], "READY", attempt, intent)
<1>1. "CREATED" \in TaskStates /\ "READY" \in TaskStates
  BY DEF TaskStates
<1>2. PICK v \in VersionRows : v = FirstVersion(attempt, intent) /\ v.attempt = attempt /\ v.intent = intent
  BY FirstIs
<1>3. /\ span \in Seq(VersionRows) /\ Len(span) = 2
      /\ Reduced(span[1], "CREATED", v.attempt, v.intent) /\ Reduced(span[2], "READY", v.attempt, v.intent)
  BY <1>1, <1>2, TwoIs
<1> QED BY <1>2, <1>3

\* of the attempt that follows,
LEMMA RestartedIs ==
  ASSUME NEW v \in VersionRows, NEW bump \in 0..1, NEW span, span = Restarted(v, bump)
  PROVE  /\ span \in Seq(VersionRows) /\ Len(span) = 2
         /\ Reduced(span[1], "CREATED", v.attempt + 1, v.intent + bump)
         /\ Reduced(span[2], "READY", v.attempt + 1, v.intent + bump)
<1>1. v.attempt + 1 \in Nat /\ v.intent + bump \in Nat
  <2>1. v.attempt \in Nat /\ v.intent \in Nat
    BY DEF VersionRows
  <2>2. v.attempt \in Nat
    BY <2>1
  <2>3. v.intent \in Nat
    BY <2>1
  <2> QED BY <2>2, <2>3
<1>2. span = States(FirstVersion(v.attempt + 1, v.intent + bump), <<"CREATED", "READY">>)
  BY DEF Restarted
<1> QED BY <1>1, <1>2, NewIs

\* and of a stop with the attempt that follows.
LEMMA AgainIs ==
  ASSUME NEW v \in VersionRows, NEW bump \in 0..1, NEW span, span = Stopped(v) \o Restarted(v, bump)
  PROVE  /\ span \in Seq(VersionRows) /\ Len(span) = 4
         /\ Reduced(span[1], "CANCELLING", v.attempt, v.intent) /\ Reduced(span[2], "CANCELLED", v.attempt, v.intent)
         /\ Reduced(span[3], "CREATED", v.attempt + 1, v.intent + bump)
         /\ Reduced(span[4], "READY", v.attempt + 1, v.intent + bump)
<1>1. PICK x : x = Stopped(v)
  OBVIOUS
<1>2. PICK y : y = Restarted(v, bump)
  OBVIOUS
<1>3. /\ x \in Seq(VersionRows) /\ Len(x) = 2
      /\ Reduced(x[1], "CANCELLING", v.attempt, v.intent) /\ Reduced(x[2], "CANCELLED", v.attempt, v.intent)
  BY <1>1, StoppedIs
<1>4. /\ y \in Seq(VersionRows) /\ Len(y) = 2
      /\ Reduced(y[1], "CREATED", v.attempt + 1, v.intent + bump) /\ Reduced(y[2], "READY", v.attempt + 1, v.intent + bump)
  BY <1>2, RestartedIs
<1>5. /\ span \in Seq(VersionRows) /\ Len(span) = 2 + 2
      /\ \A i \in 1..2 : span[i] = x[i]
      /\ \A i \in 1..2 : span[2 + i] = y[i]
  <2>1. span = x \o y
    BY <1>1, <1>2
  <2>2. x \in Seq(VersionRows) /\ y \in Seq(VersionRows)
    BY <1>3, <1>4
  <2>3. /\ span \in Seq(VersionRows) /\ Len(span) = Len(x) + Len(y)
        /\ \A i \in 1..Len(x) : span[i] = x[i]
        /\ \A i \in 1..Len(y) : span[Len(x) + i] = y[i]
    BY <2>1, <2>2, Concatenated
  <2> QED BY <1>3, <1>4, <2>3
<1>6. span[1] = x[1] /\ span[2] = x[2]
  BY <1>5
<1>7. span[3] = y[1] /\ span[4] = y[2]
  <2>1. 1 \in 1..2 /\ 2 \in 1..2 /\ 2 + 1 = 3 /\ 2 + 2 = 4
    OBVIOUS
  <2> QED BY <1>5, <2>1
<1> QED BY <1>3, <1>4, <1>5, <1>6, <1>7

\* What a command makes of its task, and what it leans on: together, that it is legal.
Shaped(t, kind, span) ==
  LET n == Len(span)  final == span[Len(span)] IN
  /\ span \in Seq(VersionRows) /\ Len(span) \in 1..16 /\ kind \in CommandKinds
  /\ (kind = "task.create") = ~Exists(t) /\ sessions # <<>>
  /\ [i \in 1..n |-> span[i].state] \in Spans(kind) /\ final.state # "CREATED"
  /\ \A i \in 1..n : OutcomeValid(span[i])
  /\ ~Exists(t) => span[1].intent = 1
  /\ Exists(t) => StepOK(kind, Current(t), span[1])
  /\ \A i \in 2..n : StepOK(kind, span[i - 1], span[i])
  /\ \E p \in 0..n : Started(t, span, p)
  /\ final.attempt # Attempt(t) => kind \in Renewing
  /\ kind \in {"task.retry", "task.revise-request"} => final.attempt # Attempt(t)
  /\ Exists(t) /\ final.attempt = Attempt(t) /\ Halted \cap ({Current(t).state} \cup {span[i].state : i \in 1..n}) # {}
       => final.state \in Halted
Cites(t, kind, span, facts, event) ==
  LET n == Len(span)  final == span[Len(span)]
      replaces == Exists(t) /\ ReplacesAttempt(t, span) IN
  /\ facts \in SUBSET Facts
  /\ kind = "task.pause" => Current(t).state = "RUNNING"
  /\ kind = "task.respond" => Current(t).state = "WAITING_INPUT"
  /\ kind = "task.verify" => <<"result", 0, Len(versions[t])>> \in facts /\ n = 1
  /\ kind \in Internal /\ final.state = "WAITING_INPUT" =>
       Exists(t) /\ {f \in facts : f[1] = "decision"} = {<<"decision", 0, Len(versions[t])>>}
  /\ kind = "task.runtime" /\ final.state = "VERIFYING" =>
       event # 0 /\ {f \in facts : f[1] = "event"} = {<<"event", 0, event>>}
  /\ \A f \in facts : f[1] = "run" => kind = "task.runtime" /\ f = CurrentRun(t) /\ HasRun(t, Attempt(t))
  /\ kind = "task.runtime" /\ final.state = "RUNNING" =>
       /\ HasRun(t, Attempt(t)) /\ CurrentRun(t) \in facts
       /\ Run(t, Attempt(t)).state = "READY" /\ Run(t, Attempt(t)).epoch = Owner.epoch
  /\ kind = "task.runtime" /\ final.state \in {"CANCELLED", "PAUSED", "UNVERIFIABLE"} =>
       IsClosed(t, Attempt(t)) /\ CurrentRun(t) \in facts
  /\ kind \notin Internal /\ replaces => ~IsOpen(t, Attempt(t))
  /\ IsOpen(t, Attempt(t)) => Run(t, Attempt(t)).epoch = Owner.epoch

\* A span of a legal shape with the facts its command cites is legal.
LEMMA LegalIs ==
  ASSUME NEW t, NEW kind, NEW span, NEW facts, NEW event, Shaped(t, kind, span), Cites(t, kind, span, facts, event)
  PROVE  Legal(t, kind, span, facts, event)
BY DEF Legal, Shaped, Cites

\* The spans that the commands may write.
New == <<"CREATED", "READY">>
Ended == <<"CANCELLING", "CANCELLED">>

\* The spans the operations write are among those validateMetadataSpan allows.
LEMMA SpansAre ==
  /\ New \in Spans("task.create") /\ New \in Spans("task.retry") /\ New \in Spans("task.continue")
  /\ New \in Spans("task.revise-request")
  /\ Ended \in Spans("task.cancel") /\ <<"CANCELLING">> \in Spans("task.cancel")
  /\ <<"RUNNING">> \in Spans("task.pause") /\ <<"READY">> \in Spans("task.respond")
  /\ Ended \o New \in Spans("task.continue") /\ Ended \o New \in Spans("task.revise-request")
  /\ Ended \o New \in Spans("task.respond") /\ <<"VERIFYING", "UNVERIFIABLE">> \in Spans("task.runtime")
  /\ \A s \in {"READY", "RUNNING", "VERIFYING", "CANCELLED", "PAUSED", "UNVERIFIABLE", "WAITING_INPUT"} :
       <<s>> \in Spans("task.runtime")
  /\ \A s \in Terminal : <<s>> \in Spans("task.verify")
<1>1. New \in Spans("task.create") /\ New \in Spans("task.retry") /\ New \in Spans("task.continue")
  BY DEF Spans, New
<1>2. New \in Spans("task.revise-request")
  BY DEF Spans, New
<1>3. Ended \in Spans("task.cancel") /\ <<"CANCELLING">> \in Spans("task.cancel")
  BY DEF Spans, Ended
<1>4. <<"RUNNING">> \in Spans("task.pause") /\ <<"READY">> \in Spans("task.respond")
  BY DEF Spans
<1>5. Ended \o New \in Spans("task.continue") /\ Ended \o New \in Spans("task.revise-request")
  BY DEF Spans, Ended, New
<1>6. Ended \o New \in Spans("task.respond")
  BY DEF Spans, Ended, New
<1>7. <<"VERIFYING", "UNVERIFIABLE">> \in Spans("task.runtime")
  BY DEF Spans
<1>8. \A s \in {"READY", "RUNNING", "VERIFYING", "CANCELLED", "PAUSED", "UNVERIFIABLE", "WAITING_INPUT"} :
       <<s>> \in Spans("task.runtime")
  BY DEF Spans
<1>9. \A s \in Terminal : <<s>> \in Spans("task.verify")
  BY DEF Spans
<1> QED BY <1>1, <1>2, <1>3, <1>4, <1>5, <1>6, <1>7, <1>8, <1>9

\* A task that can be stopped steps to a stop.
LEMMA Stops ==
  ASSUME NEW kind, kind # "task.verify", NEW v \in VersionRows, NEW w, v.state \notin Terminal \cup {"CANCELLING", "CREATED"},
         Reduced(w, "CANCELLING", v.attempt, v.intent)
  PROVE  StepOK(kind, v, w)
<1>1. v.state \in {"READY", "RUNNING", "VERIFYING", "WAITING_INPUT", "PAUSED"}
  BY DEF VersionRows, TaskStates
<1>2. "CANCELLING" \in StateStep(v.state)
  BY <1>1 DEF StateStep
<1> QED BY <1>2 DEF StepOK, MetadataStep, Reduced

\* The steps of a stop,
LEMMA Ends ==
  ASSUME NEW kind, kind # "task.verify", NEW v, NEW w, NEW attempt, NEW intent,
         Reduced(v, "CANCELLING", attempt, intent), Reduced(w, "CANCELLED", attempt, intent)
  PROVE  StepOK(kind, v, w)
<1>1. "CANCELLED" \in StateStep("CANCELLING")
  BY DEF StateStep
<1> QED BY <1>1 DEF StepOK, MetadataStep, Reduced

\* of a readiness,
LEMMA Readies ==
  ASSUME NEW kind, kind # "task.verify", NEW v, NEW w, NEW attempt, NEW intent,
         Reduced(v, "CREATED", attempt, intent), Reduced(w, "READY", attempt, intent)
  PROVE  StepOK(kind, v, w)
<1>1. "READY" \in StateStep("CREATED")
  BY DEF StateStep
<1> QED BY <1>1 DEF StepOK, MetadataStep, Reduced

\* and of a restart.
LEMMA Restarts ==
  ASSUME NEW kind, NEW bump, NEW v \in VersionRows, NEW w, v.state \in Terminal,
         \/ kind \in {"task.retry", "task.continue", "task.respond"} /\ bump = 0
         \/ kind = "task.revise-request" /\ bump = 1,
         Reduced(w, "CREATED", v.attempt + 1, v.intent + bump)
  PROVE  StepOK(kind, v, w)
<1>1. v.attempt \in Nat
  BY DEF VersionRows
<1>2. v.attempt + 1 # v.attempt
  BY <1>1
<1>3. w.attempt = v.attempt + 1 /\ w.state = "CREATED" /\ w.intent = v.intent + bump
  BY DEF Reduced
<1>4. bump = (IF kind = "task.revise-request" THEN 1 ELSE 0)
  OBVIOUS
<1> QED BY <1>2, <1>3, <1>4 DEF StepOK, MetadataStep

\* Only a cancelled end has no outcome.
LEMMA Outcome ==
  ASSUME NEW w, NEW state, NEW attempt, NEW intent, Reduced(w, state, attempt, intent), state \in Terminal => state = "CANCELLED"
  PROVE  OutcomeValid(w)
BY DEF Reduced, OutcomeValid

\* The present version of a task.
LEMMA CurrentIs ==
  ASSUME RowsInv, NEW t \in Names, Exists(t), NEW v, v = Current(t)
  PROVE  /\ v \in VersionRows /\ Attempt(t) = v.attempt /\ v.attempt \in Nat /\ v.intent \in Nat
         /\ v.state \in TaskStates /\ v.state # "CREATED" /\ v.attempt \in AttemptNumbers
<1>1. TypeOK /\ VersionsKept
  BY DEF RowsInv
<1>2. v \in VersionRows /\ Attempt(t) = v.attempt
  BY <1>1, TaskTables
<1>3. v.state # "CREATED" /\ v.attempt \in AttemptNumbers
  BY <1>1, <1>2 DEF VersionsKept
<1> QED BY <1>2, <1>3 DEF VersionRows

\* One version, of the same attempt.
LEMMA ShapeOne ==
  ASSUME RowsInv, NEW t \in Names, Exists(t), sessions # <<>>, NEW v, v = Current(t), NEW w \in VersionRows,
         NEW span, span = <<w>>, w.attempt = v.attempt, w.intent = v.intent, w.state # "CREATED", OutcomeValid(w),
         NEW kind \in CommandKinds \ {"task.create", "task.retry", "task.revise-request"}, <<w.state>> \in Spans(kind),
         IF kind = "task.verify" THEN v.state = "VERIFYING" \/ (v.state \in Terminal /\ w.state = v.state)
         ELSE w.state \in StateStep(v.state),
         v.state \in Halted => w.state \in Halted
  PROVE  Shaped(t, kind, span)
<1>1. Attempt(t) = v.attempt
  BY CurrentIs
<1>2. span \in Seq(VersionRows) /\ Len(span) = 1 /\ span[1] = w
  <2>1. <<w>> \in Seq(VersionRows) /\ Len(<<w>>) = 1 /\ <<w>>[1] = w
    OBVIOUS
  <2> QED BY <2>1
<1>3. [i \in 1..1 |-> span[i].state] \in Spans(kind)
  <2>1. [i \in 1..1 |-> w.state] = <<w.state>>
    OBVIOUS
  <2>2. \A i \in 1..1 : span[i].state = w.state
    BY <1>2
  <2>3. [i \in 1..1 |-> span[i].state] = [i \in 1..1 |-> w.state]
    BY <2>2
  <2> QED BY <2>1, <2>3
<1>4. \A i \in 1..1 : OutcomeValid(span[i])
  BY <1>2
<1>5. StepOK(kind, v, w)
  BY DEF StepOK, MetadataStep
<1>6. Started(t, span, 1)
  <2>1. \A i \in 1..1 : span[i].attempt = Attempt(t) /\ span[i].intent = Current(t).intent
    BY <1>1, <1>2
  <2>2. \A i \in (1 + 1)..1 : FALSE
    OBVIOUS
  <2> QED BY <1>2, <2>1, <2>2 DEF Started
<1>7. \E p \in 0..1 : Started(t, span, p)
  BY <1>6
<1>8. \A i \in 2..1 : StepOK(kind, span[i - 1], span[i])
  OBVIOUS
<1>9. Halted \cap ({v.state} \cup {span[i].state : i \in 1..1}) # {} => w.state \in Halted
  BY <1>2
<1>10. 1 \in 1..16
  OBVIOUS
<1> QED BY <1>1, <1>2, <1>3, <1>4, <1>5, <1>7, <1>8, <1>9, <1>10 DEF Shaped

\* The states of a span of two,
LEMMA TwoStates ==
  ASSUME NEW span, NEW x, NEW y, span[1].state = x, span[2].state = y
  PROVE  [i \in 1..2 |-> span[i].state] = <<x, y>>
<1>1. PICK f : f = [i \in 1..2 |-> span[i].state]
  OBVIOUS
<1>2. f[1] = x /\ f[2] = y /\ DOMAIN f = 1..2
  BY <1>1
<1>3. \A i \in 1..2 : i = 1 \/ i = 2
  OBVIOUS
<1>4. f = [i \in 1..2 |-> IF i = 1 THEN x ELSE y]
  BY <1>1, <1>2, <1>3
<1>5. <<x, y>> = [i \in 1..2 |-> IF i = 1 THEN x ELSE y]
  OBVIOUS
<1> QED BY <1>1, <1>4, <1>5

\* Two versions of the same attempt: a stop, or the end of an interrupted run.
LEMMA ShapeTwo ==
  ASSUME RowsInv, NEW t \in Names, Exists(t), sessions # <<>>, NEW v, v = Current(t), NEW x, NEW y, NEW span,
         span \in Seq(VersionRows), Len(span) = 2, span[1] = x, span[2] = y,
         x.attempt = v.attempt, x.intent = v.intent, y.attempt = v.attempt, y.intent = v.intent,
         OutcomeValid(x), OutcomeValid(y),
         NEW kind \in CommandKinds \ {"task.create", "task.retry", "task.revise-request"},
         <<x.state, y.state>> \in Spans(kind), StepOK(kind, v, x), StepOK(kind, x, y), y.state \in Halted, y.state # "CREATED"
  PROVE  Shaped(t, kind, span)
<1>1. Attempt(t) = v.attempt
  BY CurrentIs
<1>2. \A i \in 1..2 : i = 1 \/ i = 2
  OBVIOUS
<1>3. [i \in 1..2 |-> span[i].state] \in Spans(kind)
  BY TwoStates
<1>4. \A i \in 1..2 : OutcomeValid(span[i])
  BY <1>2
<1>5. \A i \in 2..2 : StepOK(kind, span[i - 1], span[i])
  OBVIOUS
<1>6. Started(t, span, 2)
  <2>1. \A i \in 1..2 : span[i].attempt = Attempt(t) /\ span[i].intent = Current(t).intent
    BY <1>1, <1>2
  <2>2. \A i \in (2 + 1)..2 : FALSE
    OBVIOUS
  <2> QED BY <2>1, <2>2 DEF Started
<1>7. 2 \in 0..2 /\ 2 \in 1..16
  OBVIOUS
<1>8. \E p \in 0..2 : Started(t, span, p)
  BY <1>6, <1>7
<1> QED BY <1>1, <1>3, <1>4, <1>5, <1>7, <1>8 DEF Shaped

\* The first two of a new attempt.
LEMMA ShapeNew ==
  ASSUME RowsInv, NEW t \in Names, sessions # <<>>, NEW kind \in CommandKinds, NEW attempt, NEW intent, NEW span,
         span \in Seq(VersionRows), Len(span) = 2, attempt \in Nat,
         Reduced(span[1], "CREATED", attempt, intent), Reduced(span[2], "READY", attempt, intent),
         New \in Spans(kind), (kind = "task.create") = ~Exists(t), ~Exists(t) => intent = 1,
         attempt = Attempt(t) + 1, kind \in Renewing, kind # "task.verify",
         Exists(t) => Current(t).state \in Terminal /\ StepOK(kind, Current(t), span[1])
  PROVE  Shaped(t, kind, span)
<1>1. /\ span[1].state = "CREATED" /\ span[1].attempt = attempt /\ span[1].intent = intent
      /\ span[2].state = "READY" /\ span[2].attempt = attempt /\ span[2].intent = intent
  BY DEF Reduced
<1>2. \A i \in 1..2 : i = 1 \/ i = 2
  OBVIOUS
<1>3. [i \in 1..2 |-> span[i].state] \in Spans(kind)
  <2>1. [i \in 1..2 |-> span[i].state] = <<"CREATED", "READY">>
    BY <1>1, TwoStates
  <2> QED BY <2>1 DEF New
<1>4. \A i \in 1..2 : OutcomeValid(span[i])
  <2>1. "CREATED" \notin Terminal /\ "READY" \notin Terminal
    BY DEF Terminal
  <2>2. OutcomeValid(span[1])
    BY <2>1, Outcome
  <2>3. OutcomeValid(span[2])
    BY <2>1, Outcome
  <2> QED BY <1>2, <2>2, <2>3
<1>5. StepOK(kind, span[1], span[2])
  BY Readies
<1>6. \A i \in 2..2 : StepOK(kind, span[i - 1], span[i])
  BY <1>5
<1>7. Attempt(t) \in Nat
  <2>1. TypeOK
    BY DEF RowsInv
  <2> QED BY <2>1, TaskTables
<1>8. attempt # Attempt(t)
  BY <1>7
<1>9. Started(t, span, 0)
  <2>1. \A i \in 1..0 : FALSE
    OBVIOUS
  <2>2. \A i \in (0 + 1)..2 : span[i].attempt = Attempt(t) + 1 /\ span[i].intent = span[0 + 1].intent /\ span[i].state \notin Halted
    BY <1>1, <1>2 DEF Halted, Terminal
  <2> QED BY <1>1, <2>1, <2>2 DEF Started
<1>10. 0 \in 0..2 /\ 2 \in 1..16
  OBVIOUS
<1>11. \E p \in 0..2 : Started(t, span, p)
  BY <1>9, <1>10
<1> QED BY <1>1, <1>3, <1>4, <1>6, <1>8, <1>10, <1>11 DEF Shaped

\* and of a stop with a new attempt.
LEMMA FourStates ==
  ASSUME NEW span, span[1].state = "CANCELLING", span[2].state = "CANCELLED",
         span[3].state = "CREATED", span[4].state = "READY"
  PROVE  [i \in 1..4 |-> span[i].state] = Ended \o New
<1>1. PICK x : x = <<"CANCELLING", "CANCELLED">>
  OBVIOUS
<1>2. PICK y : y = <<"CREATED", "READY">>
  OBVIOUS
<1>3. x \in Seq({"CANCELLING", "CANCELLED"}) /\ y \in Seq({"CREATED", "READY"}) /\ Len(x) = 2 /\ Len(y) = 2
      /\ x[1] = "CANCELLING" /\ x[2] = "CANCELLED" /\ y[1] = "CREATED" /\ y[2] = "READY"
  BY <1>1, <1>2
<1> DEFINE S == {"CANCELLING", "CANCELLED", "CREATED", "READY"}
<1>4. x \in Seq(S) /\ y \in Seq(S)
  <2>1. x \in Seq(S)
    BY <1>1
  <2>2. y \in Seq(S)
    BY <1>2
  <2> QED BY <2>1, <2>2
<1>5. PICK z : z = x \o y
  OBVIOUS
<1>6. /\ z \in Seq(S) /\ Len(z) = Len(x) + Len(y)
      /\ \A i \in 1..Len(x) : z[i] = x[i]
      /\ \A i \in 1..Len(y) : z[Len(x) + i] = y[i]
  BY <1>4, <1>5, Concatenated
<1>7. Len(z) = 4 /\ z[1] = "CANCELLING" /\ z[2] = "CANCELLED" /\ z[3] = "CREATED" /\ z[4] = "READY"
  <2>1. 1 \in 1..2 /\ 2 \in 1..2 /\ 2 + 1 = 3 /\ 2 + 2 = 4
    OBVIOUS
  <2> QED BY <1>3, <1>6, <2>1
<1>8. PICK f : f = [i \in 1..4 |-> span[i].state]
  OBVIOUS
<1>9. \A i \in 1..4 : i = 1 \/ i = 2 \/ i = 3 \/ i = 4
  OBVIOUS
<1>10. \A i \in 1..4 : f[i] = z[i]
  BY <1>7, <1>8, <1>9
<1>11. z = [i \in 1..4 |-> z[i]]
  <2>1. z \in [1..Len(z) -> S]
    BY <1>6
  <2>2. z \in [1..4 -> S]
    BY <1>7, <2>1
  <2> HIDE DEF S
  <2> QED BY <2>2
<1>12. f = z
  BY <1>8, <1>10, <1>11
<1> QED BY <1>1, <1>2, <1>5, <1>8, <1>12 DEF Ended, New

\* A stop, and the first two versions of a new attempt.
LEMMA ShapeAgain ==
  ASSUME RowsInv, NEW t \in Names, Exists(t), sessions # <<>>, NEW v, v = Current(t),
         v.state \notin Terminal \cup {"CANCELLING"}, NEW bump \in 0..1, NEW span, span = Stopped(v) \o Restarted(v, bump),
         NEW kind, \/ kind \in {"task.continue", "task.respond"} /\ bump = 0
                   \/ kind = "task.revise-request" /\ bump = 1
  PROVE  Shaped(t, kind, span)
<1>1. v \in VersionRows /\ Attempt(t) = v.attempt /\ v.attempt \in Nat /\ v.intent \in Nat /\ v.state # "CREATED"
  BY CurrentIs
<1>2. PICK a \in Nat : a = v.attempt
  BY <1>1
<1>3. PICK j : j = v.intent + bump
  OBVIOUS
<1>4. /\ span \in Seq(VersionRows) /\ Len(span) = 4
      /\ Reduced(span[1], "CANCELLING", v.attempt, v.intent) /\ Reduced(span[2], "CANCELLED", v.attempt, v.intent)
      /\ Reduced(span[3], "CREATED", v.attempt + 1, v.intent + bump)
      /\ Reduced(span[4], "READY", v.attempt + 1, v.intent + bump)
  BY <1>1, AgainIs
<1>5. /\ Reduced(span[1], "CANCELLING", a, v.intent) /\ Reduced(span[2], "CANCELLED", a, v.intent)
      /\ Reduced(span[3], "CREATED", a + 1, j) /\ Reduced(span[4], "READY", a + 1, j)
  BY <1>2, <1>3, <1>4
<1>6. /\ span[1].state = "CANCELLING" /\ span[1].attempt = a /\ span[1].intent = v.intent
      /\ span[2].state = "CANCELLED" /\ span[2].attempt = a /\ span[2].intent = v.intent
      /\ span[3].state = "CREATED" /\ span[3].attempt = a + 1 /\ span[3].intent = j
      /\ span[4].state = "READY" /\ span[4].attempt = a + 1 /\ span[4].intent = j
  BY <1>5 DEF Reduced
<1>7. \A i \in 1..4 : i = 1 \/ i = 2 \/ i = 3 \/ i = 4
  OBVIOUS
<1>8. [i \in 1..4 |-> span[i].state] \in Spans(kind)
  <2>1. [i \in 1..4 |-> span[i].state] = Ended \o New
    <3>1. /\ span[1].state = "CANCELLING" /\ span[2].state = "CANCELLED"
          /\ span[3].state = "CREATED" /\ span[4].state = "READY"
      BY <1>6
    <3> QED BY ONLY <3>1, FourStates
  <2> QED BY <2>1, SpansAre
<1>9. \A i \in 1..4 : OutcomeValid(span[i])
  <2>1. "CREATED" \notin Terminal /\ "READY" \notin Terminal /\ "CANCELLING" \notin Terminal
    BY DEF Terminal
  <2>2. OutcomeValid(span[1])
    BY <1>5, <2>1, Outcome
  <2>3. OutcomeValid(span[2])
    BY <1>5, Outcome
  <2>4. OutcomeValid(span[3])
    BY <1>5, <2>1, Outcome
  <2>5. OutcomeValid(span[4])
    BY <1>5, <2>1, Outcome
  <2> QED BY <1>7, <2>2, <2>3, <2>4, <2>5
<1>10. kind # "task.verify" /\ kind # "task.create" /\ kind # "task.retry" /\ kind \in Renewing /\ kind \in CommandKinds
  BY DEF Renewing, CommandKinds
<1>11. StepOK(kind, v, span[1])
  BY <1>1, <1>4, <1>10, Stops
<1>12. StepOK(kind, span[1], span[2])
  BY <1>5, <1>10, Ends
<1>13. StepOK(kind, span[2], span[3])
  <2>1. PICK w \in VersionRows : w = span[2]
    BY <1>5 DEF Reduced
  <2>2. w.state \in Terminal /\ w.attempt = v.attempt /\ w.intent = v.intent
    BY <1>4, <2>1 DEF Reduced, Terminal
  <2>3. Reduced(span[3], "CREATED", w.attempt + 1, w.intent + bump)
    BY <1>4, <2>2
  <2>4. StepOK(kind, w, span[3])
    BY <2>2, <2>3, Restarts
  <2> QED BY <2>1, <2>4
<1>14. StepOK(kind, span[3], span[4])
  BY <1>5, <1>10, Readies
<1>15. \A i \in 2..4 : StepOK(kind, span[i - 1], span[i])
  <2> SUFFICES ASSUME NEW i \in 2..4 PROVE StepOK(kind, span[i - 1], span[i])
    OBVIOUS
  <2>1. (i = 2 /\ i - 1 = 1) \/ (i = 3 /\ i - 1 = 2) \/ (i = 4 /\ i - 1 = 3)
    OBVIOUS
  <2> QED BY <1>12, <1>13, <1>14, <2>1
<1>16. Started(t, span, 2)
  <2>1. \A i \in 1..2 : span[i].attempt = Attempt(t) /\ span[i].intent = Current(t).intent
    <3>1. \A i \in 1..2 : i = 1 \/ i = 2
      OBVIOUS
    <3>2. Attempt(t) = a /\ Current(t).intent = v.intent
      BY <1>1, <1>2
    <3> QED BY ONLY <1>6, <3>1, <3>2
  <2>2. \A i \in (2 + 1)..4 : span[i].attempt = Attempt(t) + 1 /\ span[i].intent = span[2 + 1].intent /\ span[i].state \notin Halted
    <3>1. \A i \in (2 + 1)..4 : i = 3 \/ i = 4
      OBVIOUS
    <3>2. 2 + 1 = 3
      OBVIOUS
    <3>3. span[2 + 1].intent = j
      BY <1>6, <3>2
    <3>4. span[3].state \notin Halted /\ span[4].state \notin Halted
      BY <1>6 DEF Halted, Terminal
    <3>5. Attempt(t) = a
      BY <1>1, <1>2
    <3> QED BY ONLY <1>6, <3>1, <3>3, <3>4, <3>5
  <2>3. span[2 + 1].state = "CREATED"
    <3>1. 2 + 1 = 3
      OBVIOUS
    <3> QED BY <1>6, <3>1
  <2>4. span[2].state \in Terminal
    BY <1>6 DEF Terminal
  <2> QED BY SMTT(30), <1>4, <2>1, <2>2, <2>3, <2>4 DEF Started
<1>17. 2 \in 0..4 /\ 4 \in 1..16
  OBVIOUS
<1>18. \E p \in 0..4 : Started(t, span, p)
  BY <1>16, <1>17
<1>19. span[4].attempt # Attempt(t)
  BY <1>1, <1>2, <1>6
<1> QED BY Zenon, <1>4, <1>6, <1>8, <1>9, <1>10, <1>11, <1>15, <1>17, <1>18, <1>19 DEF Shaped

\* The execution of the present attempt is the one that the user's guards look at.
LEMMA OpenIs ==
  ASSUME RowsInv, NEW t \in Names, Exists(t)
  PROVE  /\ UserCommand(t) /\ IsOpen(t, Attempt(t)) => Run(t, Attempt(t)).epoch = Owner.epoch
         /\ CurrentTask(t) /\ IsOpen(t, Attempt(t)) => Run(t, Attempt(t)).epoch = Owner.epoch
         /\ ~OpenLatest(t) => ~IsOpen(t, Attempt(t))
<1>1. RunsKept
  BY DEF RowsInv
<1>2. \A k \in AttemptNumbers : HasRun(t, k) => k <= Attempt(t)
  BY <1>1 DEF RunsKept, HasRun
<1>3. HasRun(t, Attempt(t)) => Attempt(t) \in Latest(t)
  BY <1>2 DEF Latest, HasRun
<1>4. UserCommand(t) /\ IsOpen(t, Attempt(t)) => Run(t, Attempt(t)).epoch = Owner.epoch
  BY <1>3 DEF UserCommand, IsOpen
<1>5. ~OpenLatest(t) => ~IsOpen(t, Attempt(t))
  BY <1>3 DEF OpenLatest, IsOpen
<1>6. CurrentTask(t) /\ IsOpen(t, Attempt(t)) => Run(t, Attempt(t)).epoch = Owner.epoch
  <2>1. IsOpen(t, Attempt(t)) => Current(t).epoch = Run(t, Attempt(t)).epoch
    BY <1>1 DEF RunsKept, IsOpen, HasRun
  <2> QED BY <2>1 DEF CurrentTask
<1> QED BY <1>4, <1>5, <1>6

\* What a user's command leans on: that it replaces no working attempt.
LEMMA UserCites ==
  ASSUME RowsInv, NEW t \in Names, NEW kind, kind \notin Internal, NEW span, NEW facts, facts \in SUBSET Facts,
         \A f \in facts : f[1] # "run",
         kind = "task.pause" => Current(t).state = "RUNNING",
         kind = "task.respond" => Current(t).state = "WAITING_INPUT",
         ~ReplacesAttempt(t, span) \/ ~IsOpen(t, Attempt(t)),
         Exists(t) /\ UserCommand(t)
  PROVE  Cites(t, kind, span, facts, 0)
<1>1. IsOpen(t, Attempt(t)) => Run(t, Attempt(t)).epoch = Owner.epoch
  BY OpenIs
<1>2. kind # "task.verify" /\ kind # "task.runtime"
  BY DEF Internal
<1> QED BY <1>1, <1>2 DEF Cites

\* A command that is legal leaves the store as it promises.
LEMMA CommandKeeps ==
  ASSUME RowsInv, NEW t \in Names, NEW kind, NEW span, NEW facts, Shaped(t, kind, span), Cites(t, kind, span, facts, 0),
         Execute(t, kind, span, facts, <<>>, 0), UNCHANGED runRows
  PROVE  RowsInv'
<1>1. Legal(t, kind, span, facts, 0)
  BY LegalIs
<1>2. UNCHANGED <<runs, requests>> /\ UNCHANGED events
  BY DEF runRows
<1>3. Commits(t, kind, span, facts, <<>>, 0)
  BY <1>1, <1>2 DEF Commits
<1> QED BY <1>3, CommitKeeps

\* A user's command of a legal shape keeps the rows valid.
LEMMA UserKeeps ==
  ASSUME RowsInv, NEW t \in Names, Exists(t), NEW kind, kind \notin Internal, NEW span, NEW facts, facts \in SUBSET Facts,
         \A f \in facts : f[1] # "run",
         kind = "task.pause" => Current(t).state = "RUNNING",
         kind = "task.respond" => Current(t).state = "WAITING_INPUT",
         ~ReplacesAttempt(t, span) \/ ~OpenLatest(t),
         sessions # <<>> => Shaped(t, kind, span), User(t, kind, span, facts)
  PROVE  RowsInv'
<1>1. UserCommand(t) /\ Execute(t, kind, span, facts, <<>>, 0) /\ UNCHANGED runRows
  BY DEF User
<1>2. ~ReplacesAttempt(t, span) \/ ~IsOpen(t, Attempt(t))
  BY OpenIs
<1>3. Cites(t, kind, span, facts, 0)
  BY <1>1, <1>2, UserCites
<1>4. Shaped(t, kind, span)
  BY <1>1 DEF UserCommand
<1> QED BY <1>1, <1>3, <1>4, CommandKeeps

\* The first two versions of the attempt after one that is over.
LEMMA ShapeAfter ==
  ASSUME RowsInv, NEW t \in Names, Exists(t), sessions # <<>>, NEW v, v = Current(t), v.state \in Terminal,
         NEW bump \in 0..1, NEW span, span = Restarted(v, bump),
         NEW kind, \/ kind \in {"task.retry", "task.continue"} /\ bump = 0
                   \/ kind = "task.revise-request" /\ bump = 1
  PROVE  Shaped(t, kind, span)
<1>1. v \in VersionRows /\ Attempt(t) = v.attempt /\ v.attempt \in Nat /\ v.intent \in Nat
  BY CurrentIs
<1>2. PICK a : a = v.attempt + 1
  OBVIOUS
<1>3. PICK j : j = v.intent + bump
  OBVIOUS
<1>4. /\ span \in Seq(VersionRows) /\ Len(span) = 2
      /\ Reduced(span[1], "CREATED", v.attempt + 1, v.intent + bump)
      /\ Reduced(span[2], "READY", v.attempt + 1, v.intent + bump)
  BY <1>1, RestartedIs
<1>5. Reduced(span[1], "CREATED", a, j) /\ Reduced(span[2], "READY", a, j)
  BY <1>2, <1>3, <1>4
<1>6. a \in Nat /\ a = Attempt(t) + 1
  <2>1. v.attempt \in Nat
    BY <1>1
  <2> QED BY <1>1, <1>2, <2>1
<1>7. New \in Spans(kind)
  BY SpansAre
<1>8. kind \in CommandKinds /\ kind \in Renewing /\ kind # "task.verify" /\ kind # "task.create"
  BY DEF CommandKinds, Renewing
<1>9. StepOK(kind, v, span[1])
  <2>1. \/ kind \in {"task.retry", "task.continue", "task.respond"} /\ bump = 0
        \/ kind = "task.revise-request" /\ bump = 1
    OBVIOUS
  <2> QED BY <1>1, <1>4, <2>1, Restarts
<1>10. (kind = "task.create") = ~Exists(t)
  BY <1>8
<1>11. Current(t).state \in Terminal /\ StepOK(kind, Current(t), span[1])
  BY <1>9
<1> QED BY <1>4, <1>5, <1>6, <1>7, <1>8, <1>10, <1>11, ShapeNew

\* The rows are valid after task.create.
LEMMA CreateKeeps ==
  ASSUME RowsInv, NEW t \in Names, Create(t)
  PROVE  RowsInv'
<1>1. PICK span : span = States(FirstVersion(1, 1), <<"CREATED", "READY">>)
  OBVIOUS
<1>2. /\ sessions # <<>> /\ ~Exists(t) /\ UNCHANGED runRows
      /\ Execute(t, "task.create", span, {}, <<>>, 0)
  BY <1>1 DEF Create
<1>3. /\ span \in Seq(VersionRows) /\ Len(span) = 2
      /\ Reduced(span[1], "CREATED", 1, 1) /\ Reduced(span[2], "READY", 1, 1)
  BY <1>1, NewIs
<1>4. Attempt(t) = 0
  BY <1>2 DEF Attempt
<1>5. Shaped(t, "task.create", span)
  <2>1. New \in Spans("task.create")
    BY SpansAre
  <2>2. "task.create" \in CommandKinds /\ "task.create" \in Renewing
    BY DEF CommandKinds, Renewing
  <2>3. 1 = Attempt(t) + 1 /\ 1 \in Nat
    BY <1>4
  <2>4. ("task.create" = "task.create") = ~Exists(t)
    BY <1>2
  <2> QED BY <1>2, <1>3, <2>1, <2>2, <2>3, <2>4, ShapeNew
<1>6. Cites(t, "task.create", span, {}, 0)
  <2>1. ~IsOpen(t, Attempt(t))
    <3>1. 0 \notin AttemptNumbers
      BY DEF AttemptNumbers
    <3> QED BY <1>4, <3>1 DEF IsOpen, HasRun
  <2> QED BY <2>1 DEF Cites, Internal
<1> QED BY <1>2, <1>5, <1>6, CommandKeeps

\* The rows are valid after task.retry.
LEMMA RetryKeeps ==
  ASSUME RowsInv, NEW t \in Names, Retry(t)
  PROVE  RowsInv'
<1>1. PICK v : v = Current(t)
  OBVIOUS
<1>2. PICK span : span = Restarted(v, 0)
  OBVIOUS
<1>3. Exists(t) /\ v.state \in Terminal /\ ~OpenLatest(t) /\ User(t, "task.retry", span, {})
  BY <1>1, <1>2 DEF Retry
<1>4. sessions # <<>> => Shaped(t, "task.retry", span)
  BY <1>1, <1>2, <1>3, ShapeAfter
<1>5. "task.retry" \notin Internal /\ {} \in SUBSET Facts
  BY DEF Internal
<1> QED BY <1>3, <1>4, <1>5, UserKeeps

\* A version that goes on with the attempt replaces nothing.
LEMMA GoesOn ==
  ASSUME NEW t, NEW w, NEW span, span = <<w>>, w.state \notin {"CANCELLED", "PAUSED"}, w.attempt = Attempt(t)
  PROVE  ~ReplacesAttempt(t, span)
<1>1. DOMAIN span = 1..1 /\ span[1] = w
  OBVIOUS
<1> QED BY <1>1 DEF ReplacesAttempt

\* The rows are valid after task.cancel.
LEMMA CancelKeeps ==
  ASSUME RowsInv, NEW t \in Names, Cancel(t)
  PROVE  RowsInv'
<1>1. PICK v : v = Current(t)
  OBVIOUS
<1>2. PICK span : span = IF OpenLatest(t) THEN States(v, <<"CANCELLING">>) ELSE Stopped(v)
  OBVIOUS
<1>3. Exists(t) /\ v.state \notin Terminal \cup {"CANCELLING"} /\ User(t, "task.cancel", span, {})
  BY <1>1, <1>2 DEF Cancel
<1>4. /\ v \in VersionRows /\ Attempt(t) = v.attempt /\ v.attempt \in Nat /\ v.intent \in Nat
      /\ v.state \in TaskStates /\ v.state # "CREATED"
  BY <1>1, <1>3, CurrentIs
<1>5. "task.cancel" \notin Internal /\ {} \in SUBSET Facts
      /\ "task.cancel" \in CommandKinds \ {"task.create", "task.retry", "task.revise-request"}
  BY DEF Internal, CommandKinds
<1>6. "CANCELLING" \in Halted /\ "CANCELLED" \in Halted /\ "CANCELLING" \in TaskStates /\ "CANCELLING" \notin Terminal
  BY DEF Halted, Terminal, TaskStates
<1>7. "CANCELLING" \in StateStep(v.state)
  <2>1. v.state \in {"READY", "RUNNING", "VERIFYING", "WAITING_INPUT", "PAUSED"}
    BY <1>3, <1>4 DEF TaskStates
  <2> QED BY <2>1 DEF StateStep
<1>8. ASSUME OpenLatest(t), sessions # <<>> PROVE Shaped(t, "task.cancel", span) /\ ~ReplacesAttempt(t, span)
  <2>1. PICK w : w = To(v, "CANCELLING")
    OBVIOUS
  <2>2. Reduced(w, "CANCELLING", v.attempt, v.intent)
    BY <1>4, <1>6, <2>1, ToIs
  <2>3. span = States(v, <<"CANCELLING">>)
    BY <1>2, <1>8
  <2>4. span = <<w>>
    BY <1>4, <1>6, <2>1, <2>3, OneIs
  <2>5. w \in VersionRows /\ w.state = "CANCELLING" /\ w.attempt = v.attempt /\ w.intent = v.intent
    BY <2>2 DEF Reduced
  <2>6. OutcomeValid(w)
    BY <1>6, <2>2, Outcome
  <2>7. <<w.state>> \in Spans("task.cancel")
    BY <2>5, SpansAre
  <2>8. IF "task.cancel" = "task.verify" THEN v.state = "VERIFYING" \/ (v.state \in Terminal /\ w.state = v.state)
        ELSE w.state \in StateStep(v.state)
    BY <1>7, <2>5
  <2>9. v.state \in Halted => w.state \in Halted
    BY <1>6, <2>5
  <2>10. Shaped(t, "task.cancel", span)
    BY <1>1, <1>3, <1>5, <1>8, <2>4, <2>5, <2>6, <2>7, <2>8, <2>9, ShapeOne
  <2>11. ~ReplacesAttempt(t, span)
    BY <1>4, <2>4, <2>5, GoesOn
  <2> QED BY <2>10, <2>11
<1>9. ASSUME ~OpenLatest(t), sessions # <<>> PROVE Shaped(t, "task.cancel", span)
  <2>1. span = Stopped(v)
    BY <1>2, <1>9
  <2>2. /\ span \in Seq(VersionRows) /\ Len(span) = 2
        /\ Reduced(span[1], "CANCELLING", v.attempt, v.intent) /\ Reduced(span[2], "CANCELLED", v.attempt, v.intent)
    BY <1>4, <2>1, StoppedIs
  <2>3. PICK x : x = span[1]
    OBVIOUS
  <2>4. PICK y : y = span[2]
    OBVIOUS
  <2>5. Reduced(x, "CANCELLING", v.attempt, v.intent) /\ Reduced(y, "CANCELLED", v.attempt, v.intent)
    BY <2>2, <2>3, <2>4
  <2>6. /\ x.state = "CANCELLING" /\ x.attempt = v.attempt /\ x.intent = v.intent
        /\ y.state = "CANCELLED" /\ y.attempt = v.attempt /\ y.intent = v.intent
    BY <2>5 DEF Reduced
  <2>7. OutcomeValid(x) /\ OutcomeValid(y)
    <3>1. OutcomeValid(x)
      BY <1>6, <2>5, Outcome
    <3>2. OutcomeValid(y)
      BY <2>5, Outcome
    <3> QED BY <3>1, <3>2
  <2>8. <<x.state, y.state>> \in Spans("task.cancel")
    <3>1. <<"CANCELLING", "CANCELLED">> \in Spans("task.cancel")
      BY SpansAre DEF Ended
    <3> QED BY <2>6, <3>1
  <2>9. StepOK("task.cancel", v, x)
    BY <1>3, <1>4, <2>5, Stops
  <2>10. StepOK("task.cancel", x, y)
    BY <2>5, Ends
  <2>11. y.state \in Halted /\ y.state # "CREATED"
    BY <1>6, <2>6
  <2> QED BY <1>1, <1>3, <1>5, <1>9, <2>2, <2>3, <2>4, <2>6, <2>7, <2>8, <2>9, <2>10, <2>11, ShapeTwo
<1>10. sessions # <<>>
  BY <1>3 DEF User, UserCommand
<1>11. Shaped(t, "task.cancel", span) /\ (~ReplacesAttempt(t, span) \/ ~OpenLatest(t))
  BY <1>8, <1>9, <1>10
<1> QED BY <1>3, <1>5, <1>11, UserKeeps

\* The rows are valid after task.pause.
LEMMA PauseKeeps ==
  ASSUME RowsInv, NEW t \in Names, Pause(t)
  PROVE  RowsInv'
<1>1. PICK v : v = Current(t)
  OBVIOUS
<1>2. PICK w : w = [v EXCEPT !.pausing = TRUE, !.outcome = "none"]
  OBVIOUS
<1>3. PICK span : span = <<w>>
  OBVIOUS
<1>4. Exists(t) /\ v.state = "RUNNING" /\ User(t, "task.pause", span, {})
  BY <1>1, <1>2, <1>3 DEF Pause
<1>5. v \in VersionRows /\ Attempt(t) = v.attempt
  BY <1>1, <1>4, CurrentIs
<1>6. w \in VersionRows /\ w.state = "RUNNING" /\ w.attempt = v.attempt /\ w.intent = v.intent /\ w.outcome = "none"
  BY <1>2, <1>4, <1>5 DEF VersionRows, Outcomes
<1>7. "task.pause" \notin Internal /\ {} \in SUBSET Facts
      /\ "task.pause" \in CommandKinds \ {"task.create", "task.retry", "task.revise-request"}
  BY DEF Internal, CommandKinds
<1>8. OutcomeValid(w)
  BY <1>6 DEF OutcomeValid, Terminal
<1>9. <<w.state>> \in Spans("task.pause")
  BY <1>6, SpansAre
<1>10. IF "task.pause" = "task.verify" THEN v.state = "VERIFYING" \/ (v.state \in Terminal /\ w.state = v.state)
       ELSE w.state \in StateStep(v.state)
  BY <1>4, <1>6 DEF StateStep
<1>11. v.state \in Halted => w.state \in Halted
  BY <1>4, <1>6
<1>12. sessions # <<>>
  BY <1>4 DEF User, UserCommand
<1>13. w.state # "CREATED" /\ w.state \notin {"CANCELLED", "PAUSED"}
  BY <1>6
<1>14. Shaped(t, "task.pause", span)
  BY <1>1, <1>3, <1>4, <1>6, <1>7, <1>8, <1>9, <1>10, <1>11, <1>12, <1>13, ShapeOne
<1>15. ~ReplacesAttempt(t, span)
  BY <1>3, <1>5, <1>6, <1>13, GoesOn
<1> QED BY <1>1, <1>4, <1>7, <1>14, <1>15, UserKeeps

\* The rows are valid after task.continue.
LEMMA ContinueKeeps ==
  ASSUME RowsInv, NEW t \in Names, Continue(t)
  PROVE  RowsInv'
<1>1. PICK v : v = Current(t)
  OBVIOUS
<1>2. Exists(t) /\ ~OpenLatest(t)
  BY DEF Continue
<1>3. "task.continue" \notin Internal /\ {} \in SUBSET Facts
  BY DEF Internal
<1>4. ASSUME v.state \in Terminal, User(t, "task.continue", Restarted(v, 0), {})
      PROVE  RowsInv'
  <2>1. PICK span : span = Restarted(v, 0)
    OBVIOUS
  <2>2. User(t, "task.continue", span, {})
    BY <1>4, <2>1
  <2>3. sessions # <<>> => Shaped(t, "task.continue", span)
    BY <1>1, <1>2, <1>4, <2>1, ShapeAfter
  <2> QED BY <1>2, <1>3, <2>2, <2>3, UserKeeps
<1>5. ASSUME v.state \in {"PAUSED", "READY"}, User(t, "task.continue", Stopped(v) \o Restarted(v, 0), {})
      PROVE  RowsInv'
  <2>1. PICK span : span = Stopped(v) \o Restarted(v, 0)
    OBVIOUS
  <2>2. User(t, "task.continue", span, {})
    BY <1>5, <2>1
  <2>3. v.state \notin Terminal \cup {"CANCELLING"}
    BY <1>5 DEF Terminal
  <2>4. 0 \in 0..1 /\ (("task.continue" \in {"task.continue", "task.respond"} /\ 0 = 0) \/ ("task.continue" = "task.revise-request" /\ 0 = 1))
    OBVIOUS
  <2>5. sessions # <<>> => Shaped(t, "task.continue", span)
    BY <1>1, <1>2, <2>1, <2>3, <2>4, ShapeAgain
  <2> QED BY <1>2, <1>3, <2>2, <2>5, UserKeeps
<1> QED BY <1>1, <1>4, <1>5 DEF Continue

\* An empty sequence before another.
LEMMA NothingFirst ==
  ASSUME NEW S, NEW p \in Seq(S)
  PROVE  <<>> \o p = p
OBVIOUS

\* The rows are valid after task.revise-request.
LEMMA ReviseKeeps ==
  ASSUME RowsInv, NEW t \in Names, Revise(t)
  PROVE  RowsInv'
<1>1. PICK v : v = Current(t)
  OBVIOUS
<1>2. PICK span : span = (IF v.state \in Terminal THEN <<>> ELSE Stopped(v)) \o Restarted(v, 1)
  OBVIOUS
<1>3. Exists(t) /\ ~OpenLatest(t) /\ v.state # "CANCELLING" /\ User(t, "task.revise-request", span, {})
  BY <1>1, <1>2 DEF Revise
<1>4. "task.revise-request" \notin Internal /\ {} \in SUBSET Facts
  BY DEF Internal
<1>5. v \in VersionRows
  BY <1>1, <1>3, CurrentIs
<1>6. ASSUME v.state \in Terminal, sessions # <<>> PROVE Shaped(t, "task.revise-request", span)
  <2>1. PICK new : new = Restarted(v, 1)
    OBVIOUS
  <2>2. new \in Seq(VersionRows)
    BY <1>5, <2>1, RestartedIs
  <2>3. span = new
    <3>1. span = <<>> \o new
      BY <1>2, <1>6, <2>1
    <3> QED BY <2>2, <3>1, NothingFirst
  <2> QED BY <1>1, <1>3, <1>6, <2>1, <2>3, ShapeAfter
<1>7. ASSUME v.state \notin Terminal, sessions # <<>> PROVE Shaped(t, "task.revise-request", span)
  <2>1. span = Stopped(v) \o Restarted(v, 1)
    BY <1>2, <1>7
  <2>2. v.state \notin Terminal \cup {"CANCELLING"}
    BY <1>3, <1>7
  <2>3. 1 \in 0..1 /\ (("task.revise-request" \in {"task.continue", "task.respond"} /\ 1 = 0) \/ ("task.revise-request" = "task.revise-request" /\ 1 = 1))
    OBVIOUS
  <2> QED BY <1>1, <1>3, <1>7, <2>1, <2>2, <2>3, ShapeAgain
<1>8. sessions # <<>> => Shaped(t, "task.revise-request", span)
  BY <1>6, <1>7
<1> QED BY <1>3, <1>4, <1>8, UserKeeps

\* The rows are valid after task.respond.
LEMMA RespondKeeps ==
  ASSUME RowsInv, NEW t \in Names, Respond(t)
  PROVE  RowsInv'
<1>1. PICK v : v = Current(t)
  OBVIOUS
<1>2. PICK span : span = IF v.epoch = Owner.epoch THEN States(v, <<"READY">>) ELSE Stopped(v) \o Restarted(v, 0)
  OBVIOUS
<1>3. PICK n : n = Len(versions[t])
  OBVIOUS
<1>4. PICK facts : facts = {<<"decision", 0, n - 1>>}
  OBVIOUS
<1>5. Exists(t) /\ v.state = "WAITING_INPUT" /\ ~OpenLatest(t) /\ User(t, "task.respond", span, facts)
  BY <1>1, <1>2, <1>3, <1>4 DEF Respond
<1>6. v \in VersionRows /\ Attempt(t) = v.attempt
  BY <1>1, <1>5, CurrentIs
<1>7. n \in Nat /\ n >= 1
  <2>1. TypeOK
    BY DEF RowsInv
  <2> QED BY <1>3, <1>5, <2>1, TaskTables
<1>8. facts \in SUBSET Facts /\ \A f \in facts : f[1] # "run"
  <2>1. PICK k \in Nat : k = n - 1
    BY <1>7
  <2>2. facts = {<<"decision", 0, k>>}
    BY <1>4, <2>1
  <2>3. "decision" \in About
    BY DEF About
  <2> QED BY <2>1, <2>2, <2>3 DEF Facts
<1>9. "task.respond" \notin Internal
      /\ "task.respond" \in CommandKinds \ {"task.create", "task.retry", "task.revise-request"}
  BY DEF Internal, CommandKinds
<1>10. ASSUME v.epoch = Owner.epoch, sessions # <<>> PROVE Shaped(t, "task.respond", span)
  <2>1. PICK w : w = To(v, "READY")
    OBVIOUS
  <2>2. "READY" \in TaskStates /\ "READY" \notin Terminal
    BY DEF TaskStates, Terminal
  <2>3. Reduced(w, "READY", v.attempt, v.intent)
    BY <1>6, <2>1, <2>2, ToIs
  <2>4. span = States(v, <<"READY">>)
    BY <1>2, <1>10
  <2>5. span = <<w>>
    BY <1>6, <2>1, <2>2, <2>4, OneIs
  <2>6. w \in VersionRows /\ w.state = "READY" /\ w.attempt = v.attempt /\ w.intent = v.intent /\ w.state # "CREATED"
    BY <2>3 DEF Reduced
  <2>7. OutcomeValid(w)
    BY <2>2, <2>3, Outcome
  <2>8. <<w.state>> \in Spans("task.respond")
    BY <2>6, SpansAre
  <2>9. IF "task.respond" = "task.verify" THEN v.state = "VERIFYING" \/ (v.state \in Terminal /\ w.state = v.state)
        ELSE w.state \in StateStep(v.state)
    BY <1>5, <2>6 DEF StateStep
  <2>10. v.state \in Halted => w.state \in Halted
    BY <1>5 DEF Halted, Terminal
  <2> QED BY <1>1, <1>5, <1>9, <1>10, <2>5, <2>6, <2>7, <2>8, <2>9, <2>10, ShapeOne
<1>11. ASSUME v.epoch # Owner.epoch, sessions # <<>> PROVE Shaped(t, "task.respond", span)
  <2>1. span = Stopped(v) \o Restarted(v, 0)
    BY <1>2, <1>11
  <2>2. v.state \notin Terminal \cup {"CANCELLING"}
    BY <1>5 DEF Terminal
  <2>3. 0 \in 0..1 /\ (("task.respond" \in {"task.continue", "task.respond"} /\ 0 = 0) \/ ("task.respond" = "task.revise-request" /\ 0 = 1))
    OBVIOUS
  <2> QED BY <1>1, <1>5, <1>11, <2>1, <2>2, <2>3, ShapeAgain
<1>12. sessions # <<>> => Shaped(t, "task.respond", span)
  BY <1>10, <1>11
<1> QED BY <1>1, <1>5, <1>8, <1>9, <1>12, UserKeeps

\* One version of the runtime's.
LEMMA RuntimeShape ==
  ASSUME RowsInv, NEW t \in Names, Exists(t), sessions # <<>>, NEW v, v = Current(t), NEW w \in VersionRows,
         NEW state, NEW span, span = <<w>>, w.state = state, w.attempt = v.attempt, w.intent = v.intent, OutcomeValid(w),
         state \in {"READY", "RUNNING", "VERIFYING", "CANCELLED", "PAUSED", "UNVERIFIABLE", "WAITING_INPUT"},
         state \in StateStep(v.state), v.state \in Halted => state \in Halted
  PROVE  Shaped(t, "task.runtime", span)
<1>1. "task.runtime" \in CommandKinds \ {"task.create", "task.retry", "task.revise-request"}
  BY DEF CommandKinds
<1>2. <<w.state>> \in Spans("task.runtime")
  BY SpansAre
<1>3. IF "task.runtime" = "task.verify" THEN v.state = "VERIFYING" \/ (v.state \in Terminal /\ w.state = v.state)
      ELSE w.state \in StateStep(v.state)
  OBVIOUS
<1>4. w.state # "CREATED" /\ (v.state \in Halted => w.state \in Halted)
  OBVIOUS
<1> QED BY <1>1, <1>2, <1>3, <1>4, ShapeOne

\* A version as the reducer returns it, by the runtime.
LEMMA ReducedShape ==
  ASSUME RowsInv, NEW t \in Names, Exists(t), sessions # <<>>, NEW v, v = Current(t),
         NEW state \in {"READY", "RUNNING", "VERIFYING", "CANCELLED", "PAUSED", "WAITING_INPUT"},
         NEW span, span = States(v, <<state>>),
         state \in StateStep(v.state), v.state \in Halted => state \in Halted
  PROVE  /\ Shaped(t, "task.runtime", span) /\ Len(span) = 1 /\ span[Len(span)].state = state
<1>1. v \in VersionRows
  BY CurrentIs
<1>2. state \in TaskStates /\ (state \in Terminal => state = "CANCELLED")
  BY DEF TaskStates, Terminal
<1>3. /\ span \in Seq(VersionRows) /\ Len(span) = 1 /\ Reduced(span[1], state, v.attempt, v.intent)
      /\ span = <<To(v, state)>>
  BY <1>1, <1>2, OneIs
<1>4. PICK w : w = To(v, state)
  OBVIOUS
<1>5. Reduced(w, state, v.attempt, v.intent)
  BY <1>1, <1>2, <1>4, ToIs
<1>6. w \in VersionRows /\ w.state = state /\ w.attempt = v.attempt /\ w.intent = v.intent
  BY <1>5 DEF Reduced
<1>7. OutcomeValid(w)
  BY <1>2, <1>5, Outcome
<1>8. state \in {"READY", "RUNNING", "VERIFYING", "CANCELLED", "PAUSED", "UNVERIFIABLE", "WAITING_INPUT"}
  OBVIOUS
<1>9. span = <<w>>
  BY <1>3, <1>4
<1>10. Shaped(t, "task.runtime", span)
  BY <1>6, <1>7, <1>8, <1>9, RuntimeShape
<1>11. span[1].state = state
  BY <1>3 DEF Reduced
<1> QED BY <1>3, <1>10, <1>11

\* A command of the runtime that cites the execution of the present attempt.
LEMMA RunCites ==
  ASSUME RowsInv, NEW t \in Names, Exists(t), HasRun(t, Attempt(t)), NEW span, NEW facts, facts = {CurrentRun(t)},
         NEW state, state = span[Len(span)].state, state \notin {"WAITING_INPUT", "VERIFYING"},
         state = "RUNNING" => Run(t, Attempt(t)).state = "READY" /\ Run(t, Attempt(t)).epoch = Owner.epoch,
         state \in {"CANCELLED", "PAUSED", "UNVERIFIABLE"} => IsClosed(t, Attempt(t)),
         IsClosed(t, Attempt(t)) \/ CurrentTask(t)
  PROVE  Cites(t, "task.runtime", span, facts, 0)
<1>1. TypeOK
  BY DEF RowsInv
<1>2. IsOpen(t, Attempt(t)) => Run(t, Attempt(t)).epoch = Owner.epoch
  BY OpenIs DEF IsOpen, IsClosed
<1>3. facts \in SUBSET Facts
  <2>1. PICK a : a = Attempt(t)
    OBVIOUS
  <2>2. PICK x : x = Len(runs[t][a])
    OBVIOUS
  <2>3. a \in AttemptNumbers
    BY <2>1 DEF HasRun
  <2>4. a \in Nat
    BY <2>3 DEF AttemptNumbers
  <2>5. x \in Nat
    BY <1>1, <2>2, <2>3, RunTables
  <2>6. CurrentRun(t) = <<"run", a, x>>
    BY <2>1, <2>2 DEF CurrentRun
  <2>7. "run" \in About
    BY DEF About
  <2>8. CurrentRun(t) \in Facts
    BY <2>4, <2>5, <2>6, <2>7 DEF Facts
  <2> QED BY <2>8
<1>4. CurrentRun(t) \in facts /\ \A f \in facts : f = CurrentRun(t)
  OBVIOUS
<1>5. "task.runtime" \in Internal
  BY DEF Internal
<1> QED BY <1>2, <1>3, <1>4, <1>5 DEF Cites

\* The rows are valid after a wait for the user.
LEMMA CognitiveWaitKeeps ==
  ASSUME RowsInv, NEW t \in Names, CognitiveWait(t)
  PROVE  RowsInv'
<1>1. PICK v : v = Current(t)
  OBVIOUS
<1>2. PICK span : span = States(v, <<"WAITING_INPUT">>)
  OBVIOUS
<1>3. PICK n : n = Len(versions[t])
  OBVIOUS
<1>4. PICK facts : facts = {<<"decision", 0, n>>}
  OBVIOUS
<1>5. /\ CurrentTask(t) /\ v.state = "READY" /\ sessions # <<>> /\ Exists(t)
      /\ Execute(t, "task.runtime", span, facts, <<>>, 0) /\ UNCHANGED runRows
  BY <1>1, <1>2, <1>3, <1>4 DEF CognitiveWait, Runtime
<1>6. Shaped(t, "task.runtime", span) /\ Len(span) = 1 /\ span[Len(span)].state = "WAITING_INPUT"
  <2>1. "WAITING_INPUT" \in StateStep(v.state)
    BY <1>5 DEF StateStep
  <2>2. v.state \notin Halted
    BY <1>5 DEF Halted, Terminal
  <2> QED BY <1>1, <1>2, <1>5, <2>1, <2>2, ReducedShape
<1>7. n \in Nat
  <2>1. TypeOK
    BY DEF RowsInv
  <2> QED BY <1>3, <2>1, TaskTables
<1>8. facts \in SUBSET Facts /\ (\A f \in facts : f[1] # "run") /\ {f \in facts : f[1] = "decision"} = {<<"decision", 0, n>>}
  <2>1. "decision" \in About
    BY DEF About
  <2>2. facts \in SUBSET Facts
    BY <1>4, <1>7, <2>1 DEF Facts
  <2> QED BY <1>4, <2>2
<1>9. IsOpen(t, Attempt(t)) => Run(t, Attempt(t)).epoch = Owner.epoch
  BY <1>5, OpenIs
<1>10. Cites(t, "task.runtime", span, facts, 0)
  <2>1. "task.runtime" \in Internal
    BY DEF Internal
  <2> QED BY <1>3, <1>5, <1>6, <1>8, <1>9, <2>1 DEF Cites
<1> QED BY <1>5, <1>6, <1>10, CommandKeeps

\* The rows are valid after a start.
LEMMA StartKeeps ==
  ASSUME RowsInv, NEW t \in Names, Start(t)
  PROVE  RowsInv'
<1>1. PICK v : v = Current(t)
  OBVIOUS
<1>2. PICK span : span = States(v, <<"RUNNING">>)
  OBVIOUS
<1>3. PICK facts : facts = {CurrentRun(t)}
  OBVIOUS
<1>4. /\ CurrentTask(t) /\ v.state = "READY" /\ HasRun(t, Attempt(t)) /\ Run(t, Attempt(t)).state = "READY"
      /\ sessions # <<>> /\ Exists(t)
      /\ Execute(t, "task.runtime", span, facts, <<>>, 0) /\ UNCHANGED runRows
  BY <1>1, <1>2, <1>3 DEF Start, Runtime
<1>5. Shaped(t, "task.runtime", span) /\ Len(span) = 1 /\ span[Len(span)].state = "RUNNING"
  <2>1. "RUNNING" \in StateStep(v.state)
    BY <1>4 DEF StateStep
  <2>2. v.state \notin Halted
    BY <1>4 DEF Halted, Terminal
  <2> QED BY <1>1, <1>2, <1>4, <2>1, <2>2, ReducedShape
<1>6. Run(t, Attempt(t)).epoch = Owner.epoch
  <2>1. PICK a : a = Attempt(t)
    OBVIOUS
  <2>2. a \in AttemptNumbers
    BY <1>4, <2>1 DEF HasRun
  <2>3. TypeOK /\ RunsKept
    BY DEF RowsInv
  <2>4. PICK x : x = Len(runs[t][a])
    OBVIOUS
  <2>5. Run(t, a) = runs[t][a][x] /\ x \in DOMAIN runs[t][a]
    BY <1>4, <2>1, <2>2, <2>3, <2>4, RunTables
  <2>6. \A i \in DOMAIN runs[t][a] : runs[t][a][i].closed = (runs[t][a][i].state = "STOPPED")
    BY <2>2, <2>3 DEF RunsKept
  <2>7. ~Run(t, a).closed
    BY <1>4, <2>1, <2>5, <2>6
  <2> QED BY <1>4, <2>1, <2>7, OpenIs DEF IsOpen
<1>7. Cites(t, "task.runtime", span, facts, 0)
  <2>1. PICK state : state = "RUNNING"
    OBVIOUS
  <2>2. state = span[Len(span)].state /\ state \notin {"WAITING_INPUT", "VERIFYING"} /\ state \notin {"CANCELLED", "PAUSED", "UNVERIFIABLE"}
    BY <1>5, <2>1
  <2> QED BY <1>3, <1>4, <1>6, <2>2, RunCites
<1> QED BY <1>4, <1>5, <1>7, CommandKeeps

\* A stop or a pause that the closed execution confirms.
LEMMA ConfirmKeeps ==
  ASSUME RowsInv, NEW t \in Names, Exists(t), IsClosed(t, Attempt(t)), NEW state,
         \/ Current(t).state = "CANCELLING" /\ state = "CANCELLED"
         \/ Current(t).state = "RUNNING" /\ state = "PAUSED",
         Runtime(t, <<state>>, {CurrentRun(t)})
  PROVE  RowsInv'
<1>1. PICK v : v = Current(t)
  OBVIOUS
<1>2. PICK span : span = States(v, <<state>>)
  OBVIOUS
<1>3. PICK facts : facts = {CurrentRun(t)}
  OBVIOUS
<1>4. sessions # <<>> /\ Execute(t, "task.runtime", span, facts, <<>>, 0) /\ UNCHANGED runRows
  BY <1>1, <1>2, <1>3 DEF Runtime
<1>5. Shaped(t, "task.runtime", span) /\ Len(span) = 1 /\ span[Len(span)].state = state
  <2>1. state \in StateStep(v.state)
    BY <1>1 DEF StateStep
  <2>2. state \in Halted
    BY DEF Halted, Terminal
  <2>3. state \in {"READY", "RUNNING", "VERIFYING", "CANCELLED", "PAUSED", "WAITING_INPUT"}
    OBVIOUS
  <2> QED BY <1>1, <1>2, <1>4, <2>1, <2>2, <2>3, ReducedShape
<1>6. Cites(t, "task.runtime", span, facts, 0)
  <2>1. HasRun(t, Attempt(t))
    BY DEF IsClosed
  <2>2. state = span[Len(span)].state /\ state \notin {"WAITING_INPUT", "VERIFYING"} /\ state # "RUNNING"
    BY <1>5
  <2> QED BY <1>3, <2>1, <2>2, RunCites
<1> QED BY <1>4, <1>5, <1>6, CommandKeeps

\* The rows are valid after a confirmed stop.
LEMMA ConfirmStopKeeps ==
  ASSUME RowsInv, NEW t \in Names, ConfirmStop(t)
  PROVE  RowsInv'
BY ConfirmKeeps DEF ConfirmStop

\* The rows are valid after a confirmed pause.
LEMMA ConfirmPauseKeeps ==
  ASSUME RowsInv, NEW t \in Names, ConfirmPause(t)
  PROVE  RowsInv'
BY ConfirmKeeps DEF ConfirmPause

\* The rows are valid after an interruption.
LEMMA InterruptedKeeps ==
  ASSUME RowsInv, NEW t \in Names, Interrupted(t)
  PROVE  RowsInv'
<1>1. PICK v : v = Current(t)
  OBVIOUS
<1>2. PICK y : y = [To(v, "UNVERIFIABLE") EXCEPT !.outcome = "unverifiable"]
  OBVIOUS
<1>3. PICK x : x = To(v, "VERIFYING")
  OBVIOUS
<1>4. PICK span : span = IF v.state = "RUNNING" THEN <<x, y>> ELSE <<y>>
  OBVIOUS
<1>5. PICK facts : facts = {CurrentRun(t)}
  OBVIOUS
<1>6. /\ sessions # <<>> /\ Exists(t) /\ v.state \in {"RUNNING", "VERIFYING"} /\ IsClosed(t, Attempt(t))
      /\ Execute(t, "task.runtime", span, facts, <<>>, 0) /\ UNCHANGED runRows
  BY <1>1, <1>2, <1>3, <1>4, <1>5 DEF Interrupted
<1>7. v \in VersionRows
  BY <1>1, <1>6, CurrentIs
<1>8. x \in VersionRows /\ x.state = "VERIFYING" /\ x.attempt = v.attempt /\ x.intent = v.intent /\ x.outcome = "none"
  <2>1. "VERIFYING" \in TaskStates
    BY DEF TaskStates
  <2>2. Reduced(x, "VERIFYING", v.attempt, v.intent)
    BY <1>3, <1>7, <2>1, ToIs
  <2> QED BY <2>2 DEF Reduced
<1>9. y \in VersionRows /\ y.state = "UNVERIFIABLE" /\ y.attempt = v.attempt /\ y.intent = v.intent /\ y.outcome = "unverifiable"
  <2>1. PICK w : w = To(v, "UNVERIFIABLE")
    OBVIOUS
  <2>2. "UNVERIFIABLE" \in TaskStates
    BY DEF TaskStates, Terminal
  <2>3. Reduced(w, "UNVERIFIABLE", v.attempt, v.intent)
    BY <1>7, <2>1, <2>2, ToIs
  <2>4. y = [w EXCEPT !.outcome = "unverifiable"]
    BY <1>2, <2>1
  <2> QED BY <2>3, <2>4 DEF Reduced, VersionRows, Outcomes
<1>10. OutcomeValid(x) /\ OutcomeValid(y)
  BY <1>8, <1>9 DEF OutcomeValid, Terminal
<1>11. "UNVERIFIABLE" \in Halted /\ "UNVERIFIABLE" \in StateStep("VERIFYING") /\ "VERIFYING" \in StateStep("RUNNING")
  BY DEF Halted, Terminal, StateStep
<1>12. ASSUME v.state = "RUNNING" PROVE Shaped(t, "task.runtime", span) /\ span[Len(span)].state = "UNVERIFIABLE"
  <2>1. span = <<x, y>>
    BY <1>4, <1>12
  <2>2. span \in Seq(VersionRows) /\ Len(span) = 2 /\ span[1] = x /\ span[2] = y
    BY <1>8, <1>9, <2>1
  <2>3. <<x.state, y.state>> \in Spans("task.runtime")
    BY <1>8, <1>9, SpansAre
  <2>4. "task.runtime" \in CommandKinds \ {"task.create", "task.retry", "task.revise-request"}
    BY DEF CommandKinds
  <2>5. StepOK("task.runtime", v, x) /\ StepOK("task.runtime", x, y)
    BY <1>8, <1>9, <1>11, <1>12 DEF StepOK, MetadataStep
  <2>6. y.state \in Halted /\ y.state # "CREATED"
    BY <1>9, <1>11
  <2>7. Shaped(t, "task.runtime", span)
    BY <1>1, <1>6, <1>8, <1>9, <1>10, <2>2, <2>3, <2>4, <2>5, <2>6, ShapeTwo
  <2> QED BY <1>9, <2>2, <2>7
<1>13. ASSUME v.state = "VERIFYING" PROVE Shaped(t, "task.runtime", span) /\ span[Len(span)].state = "UNVERIFIABLE"
  <2>1. span = <<y>>
    BY <1>4, <1>13
  <2>2. Len(span) = 1 /\ span[1] = y
    BY <2>1
  <2>3. PICK state : state = "UNVERIFIABLE"
    OBVIOUS
  <2>4. /\ y.state = state /\ state \in StateStep(v.state) /\ (v.state \in Halted => state \in Halted)
        /\ state \in {"READY", "RUNNING", "VERIFYING", "CANCELLED", "PAUSED", "UNVERIFIABLE", "WAITING_INPUT"}
    BY <1>9, <1>11, <1>13, <2>3
  <2>5. Shaped(t, "task.runtime", span)
    BY <1>1, <1>6, <1>9, <1>10, <2>1, <2>4, RuntimeShape
  <2> QED BY <1>9, <2>2, <2>5
<1>14. Shaped(t, "task.runtime", span) /\ span[Len(span)].state = "UNVERIFIABLE"
  BY <1>6, <1>12, <1>13
<1>15. Cites(t, "task.runtime", span, facts, 0)
  <2>1. HasRun(t, Attempt(t))
    BY <1>6 DEF IsClosed
  <2>2. PICK state : state = "UNVERIFIABLE"
    OBVIOUS
  <2>3. state = span[Len(span)].state /\ state \notin {"WAITING_INPUT", "VERIFYING"} /\ state # "RUNNING"
    BY <1>14, <2>2
  <2> QED BY <1>5, <1>6, <2>1, <2>3, RunCites
<1> QED BY <1>6, <1>14, <1>15, CommandKeeps

\* The rows are valid after a verification.
LEMMA VerifyKeeps ==
  ASSUME RowsInv, NEW t \in Names, Verify(t)
  PROVE  RowsInv'
<1>1. PICK v : v = Current(t)
  OBVIOUS
<1>2. PICK n : n = Len(versions[t])
  OBVIOUS
<1>3. PICK facts : facts = {<<"result", 0, n>>}
  OBVIOUS
<1>4. Exists(t) /\ sessions # <<>> /\ CurrentTask(t) /\ v.state \in Terminal \cup {"VERIFYING"}
  BY <1>1 DEF Verify, CurrentTask
<1>5. PICK state : /\ state \in (IF v.state = "VERIFYING" THEN {"COMPLETED", "UNVERIFIABLE"} ELSE {v.state})
                   /\ User(t, "task.verify", <<[To(v, state) EXCEPT !.outcome = "verified"]>>, facts)
  BY <1>1, <1>2, <1>3 DEF Verify
<1>6. state \in Terminal /\ (v.state = "VERIFYING" \/ (v.state \in Terminal /\ state = v.state))
  BY <1>4, <1>5 DEF Terminal
<1>7. PICK u : u = To(v, state)
  OBVIOUS
<1>8. PICK w : w = [u EXCEPT !.outcome = "verified"]
  OBVIOUS
<1>9. PICK span : span = <<w>>
  OBVIOUS
<1>10. Execute(t, "task.verify", span, facts, <<>>, 0) /\ UNCHANGED runRows
  BY <1>5, <1>7, <1>8, <1>9 DEF User
<1>11. v \in VersionRows
  BY <1>1, <1>4, CurrentIs
<1>12. w \in VersionRows /\ w.state = state /\ w.attempt = v.attempt /\ w.intent = v.intent /\ w.outcome = "verified"
  <2>1. state \in TaskStates
    BY <1>6 DEF TaskStates
  <2>2. Reduced(u, state, v.attempt, v.intent)
    BY <1>7, <1>11, <2>1, ToIs
  <2> QED BY <1>8, <2>2 DEF Reduced, VersionRows, Outcomes
<1>13. OutcomeValid(w)
  BY <1>6, <1>12 DEF OutcomeValid
<1>14. Shaped(t, "task.verify", span)
  <2>1. "task.verify" \in CommandKinds \ {"task.create", "task.retry", "task.revise-request"}
    BY DEF CommandKinds
  <2>2. <<w.state>> \in Spans("task.verify")
    BY <1>6, <1>12, SpansAre
  <2>3. IF "task.verify" = "task.verify" THEN v.state = "VERIFYING" \/ (v.state \in Terminal /\ w.state = v.state)
        ELSE w.state \in StateStep(v.state)
    BY <1>6, <1>12
  <2>4. w.state # "CREATED" /\ (v.state \in Halted => w.state \in Halted)
    BY <1>6, <1>12 DEF Halted, Terminal
  <2> QED BY <1>1, <1>4, <1>9, <1>12, <1>13, <2>1, <2>2, <2>3, <2>4, ShapeOne
<1>15. Cites(t, "task.verify", span, facts, 0)
  <2>1. n \in Nat
    <3>1. TypeOK
      BY DEF RowsInv
    <3> QED BY <1>2, <3>1, TaskTables
  <2>2. facts \in SUBSET Facts
    <3>1. "result" \in About
      BY DEF About
    <3> QED BY <1>3, <2>1, <3>1 DEF Facts
  <2>3. \A f \in facts : f[1] # "run"
    BY <1>3
  <2>4. Len(span) = 1 /\ span[Len(span)].state = state /\ state # "WAITING_INPUT"
    <3>1. Len(span) = 1 /\ span[1] = w
      BY <1>9
    <3> QED BY <1>6, <1>12, <3>1 DEF Terminal
  <2>5. IsOpen(t, Attempt(t)) => Run(t, Attempt(t)).epoch = Owner.epoch
    BY <1>4, OpenIs
  <2>6. "task.verify" \in Internal /\ <<"result", 0, n>> \in facts
    BY <1>3 DEF Internal
  <2> QED BY <1>2, <2>2, <2>3, <2>4, <2>5, <2>6 DEF Cites
<1> QED BY <1>10, <1>14, <1>15, CommandKeeps

\* The rows are valid after a settled event with what it makes of the task.
LEMMA IngestSettledKeeps ==
  ASSUME RowsInv, NEW t \in Names, IngestSettlement(t)
  PROVE  RowsInv'
<1>1. PICK v : v = Current(t)
  OBVIOUS
<1>2. PICK span : span = States(v, <<"VERIFYING">>)
  OBVIOUS
<1>3. PICK event : event = Len(events) + 1
  OBVIOUS
<1>4. PICK facts : facts = {<<"event", 0, event>>}
  OBVIOUS
<1>5. /\ Working(t) /\ v.state = "RUNNING"
      /\ Execute(t, "task.runtime", span, facts, <<Progress(t)>>, event)
      /\ events' = Append(events, EventRow(t, Len(outbox) + 2)) /\ UNCHANGED <<runs, requests>>
  BY <1>1, <1>2, <1>3, <1>4 DEF IngestSettlement
<1>6. CurrentTask(t) /\ sessions # <<>> /\ Exists(t)
  BY <1>5 DEF Working, Fenced, Owned, CurrentTask
<1>7. Shaped(t, "task.runtime", span) /\ Len(span) = 1 /\ span[Len(span)].state = "VERIFYING"
  <2>1. "VERIFYING" \in StateStep(v.state)
    BY <1>5 DEF StateStep
  <2>2. v.state \notin Halted
    BY <1>5 DEF Halted, Terminal
  <2> QED BY <1>1, <1>2, <1>6, <2>1, <2>2, ReducedShape
<1>8. event \in Nat \ {0}
  <2>1. PICK l \in Nat : l = Len(events)
    <3>1. TypeOK
      BY DEF RowsInv
    <3> QED BY <3>1, Tables
  <2> QED BY <1>3, <2>1
<1>9. facts \in SUBSET Facts /\ (\A f \in facts : f[1] # "run") /\ {f \in facts : f[1] = "event"} = {<<"event", 0, event>>}
  <2>1. "event" \in About
    BY DEF About
  <2>2. facts \in SUBSET Facts
    BY <1>4, <1>8, <2>1 DEF Facts
  <2> QED BY <1>4, <2>2
<1>10. IsOpen(t, Attempt(t)) => Run(t, Attempt(t)).epoch = Owner.epoch
  BY <1>6, OpenIs
<1>11. Cites(t, "task.runtime", span, facts, event)
  <2>1. "task.runtime" \in Internal
    BY DEF Internal
  <2> QED BY <1>7, <1>8, <1>9, <1>10, <2>1 DEF Cites
<1>12. Legal(t, "task.runtime", span, facts, event)
  BY <1>7, <1>11, LegalIs
<1>13. Commits(t, "task.runtime", span, facts, <<Progress(t)>>, event)
  BY <1>1, <1>2, <1>3, <1>5, <1>12 DEF Commits
<1> QED BY <1>13, CommitKeeps

\* A stuttering step.
LEMMA StutterKeeps ==
  ASSUME RowsInv, UNCHANGED rowsVars
  PROVE  RowsInv'
<1>1. TypeOK /\ Opened
  BY DEF RowsInv
<1>2. UNCHANGED taskRows /\ UNCHANGED runRows /\ UNCHANGED <<recovery, sessions, outbox, consumers>>
      /\ UNCHANGED <<versions, attempts, receipts, inputs, runs, events, requests>>
  BY DEF rowsVars, taskRows, runRows
<1>13. TypeOK'
  BY <1>1, <1>2 DEF TypeOK, Bounds
<1>14. /\ sessions \in Seq(SessionRows) /\ events \in Seq(EventRows) /\ requests \in Seq(RequestRows)
       /\ Len(outbox) \in Nat /\ recovery \in Nat /\ Len(sessions) \in Nat
  BY <1>1, Tables DEF TypeOK
<1>15. Grows
  <2>1. Extends(sessions, sessions') /\ Extends(events, events') /\ Extends(requests, requests')
    BY <1>2, <1>14, SameTable
  <2>2. \A i \in 1..Len(sessions') : ~(i > Len(sessions))
    BY <1>2, <1>14
  <2>3. recovery <= recovery' /\ Len(outbox) <= Len(outbox')
    BY <1>2, <1>14
  <2>4. Quiet
    BY <1>2, <1>14 DEF Quiet
  <2>5. \A c \in 1..Len(outbox) : SameEvent(outbox[c], outbox'[c])
    BY <1>2, SameRow
  <2> QED BY <1>1, <1>2, <1>13, <2>1, <2>2, <2>3, <2>4, <2>5, RunsExtend, GrowsBy
<1>16. SessionsValid'
  BY <1>2, <1>13, <1>15, SessionsSame
<1>17. AttemptsValid' /\ CommandsValid' /\ InputsValid' /\ ReceiptsValid' /\ VersionsKept' /\ ReceiptsKept'
  <2>1. Succeeds(Owner', Owner) /\ (sessions' # <<>> => sessions # <<>>)
    BY <1>2 DEF Owner, Succeeds
  <2> QED BY <1>2, <1>13, <1>15, <2>1, TasksSame
<1>18. RunsValid' /\ RunsKept'
  BY <1>2, <1>13, <1>15, RunsSame
<1>19. EventsValid' /\ RequestsValid' /\ MessagesKept'
  <2>1. \A j \in 1..Len(receipts') : ~(j > Len(receipts))
    BY <1>1, <1>2, Tables
  <2> QED BY <1>2, <1>13, <1>15, <2>1, MessagesSame
<1>22. OutboxValid' /\ OutboxKept'
  <2>1. \A c \in 1..Len(outbox') : ~(c > Len(outbox))
    BY <1>2, <1>14
  <2>2. PublishKept'
    BY <1>2, <1>13, <1>14, <2>1, PublishGrows
  <2>3. OutboxValid'
    BY <1>2, <1>13, <1>15, <2>1, <2>2, OutboxQuiet
  <2>4. NewEvents /\ \A c \in Consumers : consumers'[c] <= Len(outbox')
    BY <1>2, <2>1 DEF NewEvents, RowsInv, OutboxKept
  <2> QED BY <1>2, <1>13, <1>15, <2>3, <2>4, OutboxSame
<1>23. Opened'
  BY <1>1, <1>2 DEF Opened
<1> QED BY <1>13, <1>16, <1>17, <1>18, <1>19, <1>22, <1>23, Preserved

\* Whatever an operation on a task does.
LEMMA StepKeeps ==
  ASSUME RowsInv, NEW t \in Names, TaskStep(t)
  PROVE  RowsInv'
<1>1. CASE Create(t) \/ Cancel(t) \/ Pause(t) \/ Retry(t) \/ Continue(t) \/ Revise(t) \/ Respond(t)
  BY <1>1, CreateKeeps, CancelKeeps, PauseKeeps, RetryKeeps, ContinueKeeps, ReviseKeeps, RespondKeeps
<1>2. CASE Verify(t) \/ CognitiveWait(t) \/ Start(t) \/ ConfirmStop(t) \/ ConfirmPause(t) \/ Interrupted(t)
  BY <1>2, VerifyKeeps, CognitiveWaitKeeps, StartKeeps, ConfirmStopKeeps, ConfirmPauseKeeps, InterruptedKeeps
<1>3. CASE RecordRuntimeInput(t) \/ AllocateExecution(t) \/ MarkExecutionReady(t) \/ MarkExecutionDispatched(t)
           \/ ObserveExecutionBinding(t) \/ CloseExecution(t) \/ RecoverExecutionClose(t)
  BY <1>3, RuntimeInputKeeps, AllocateKeeps, MarkReadyKeeps, MarkDispatchedKeeps, ObserveKeeps,
     CloseExecutionKeeps, RecoverCloseKeeps
<1>4. CASE RecordModelRequest(t) \/ Ingest(t) \/ IngestSettlement(t)
  BY <1>4, RequestKeeps, IngestKeeps, IngestSettledKeeps
<1> QED BY <1>1, <1>2, <1>3, <1>4 DEF TaskStep

\* The invariant is inductive,
LEMMA RowsStep == RowsInv /\ [RowsNext]_rowsVars => RowsInv'
<1> SUFFICES ASSUME RowsInv, [RowsNext]_rowsVars PROVE RowsInv'
  OBVIOUS
<1>1. CASE CreateSession \/ FenceRestartedOwners \/ QuarantineRecovery
  BY <1>1, CreateSessionKeeps, FenceKeeps, QuarantineKeeps
<1>2. CASE \E t \in Names : TaskStep(t)
  BY <1>2, StepKeeps
<1>3. CASE \E c \in Consumers : Acknowledge(c)
  BY <1>3, AcknowledgeKeeps
<1>4. CASE UNCHANGED rowsVars
  BY <1>4, StutterKeeps
<1> QED BY <1>1, <1>2, <1>3, <1>4 DEF RowsNext

\* and holds before anything is written.
LEMMA RowsBegin == Bounds /\ RowsInit => RowsInv
<1> SUFFICES ASSUME Bounds, RowsInit PROVE RowsInv
  OBVIOUS
<1>1. /\ recovery = 0 /\ sessions = <<>> /\ receipts = <<>> /\ inputs = <<>> /\ outbox = <<>>
      /\ events = <<>> /\ requests = <<>> /\ versions = [t \in Names |-> <<>>] /\ attempts = [t \in Names |-> <<>>]
      /\ runs = [t \in Names |-> [k \in AttemptNumbers |-> <<>>]] /\ consumers = [c \in Consumers |-> 0]
  BY DEF RowsInit
<1>2. TypeOK
  BY <1>1 DEF TypeOK
<1>3. \A t \in Names : versions[t] = <<>> /\ attempts[t] = <<>> /\ ~Exists(t)
  BY <1>1 DEF Exists
<1>4. \A t \in Names : \A k \in AttemptNumbers : runs[t][k] = <<>>
  BY <1>1
<1>5. DOMAIN receipts = {} /\ DOMAIN inputs = {} /\ DOMAIN outbox = {} /\ DOMAIN events = {} /\ DOMAIN requests = {}
      /\ Len(outbox) = 0 /\ Len(events) = 0 /\ Len(receipts) = 0
      /\ (\A t \in Names : DOMAIN versions[t] = {} /\ DOMAIN attempts[t] = {} /\ Len(versions[t]) = 0)
      /\ \A t \in Names : \A k \in AttemptNumbers : DOMAIN runs[t][k] = {}
  BY <1>1, <1>3, <1>4
<1>6. SessionsValid /\ Opened
  BY <1>1, <1>3 DEF SessionsValid, Opened
<1>7. AttemptsValid
  <2>1. \A t \in Names : \A i \in 2..Len(versions[t]) : FALSE
    BY <1>5
  <2> QED BY <1>3, <1>5, <2>1 DEF AttemptsValid
<1>8. CommandsValid
  BY <1>3, <1>5 DEF CommandsValid, Commands
<1>9. InputsValid /\ ReceiptsValid
  BY <1>5 DEF InputsValid, ReceiptsValid
<1>10. OutboxValid
  BY <1>4, <1>5 DEF OutboxValid
<1>11. RunsValid
  BY <1>5 DEF RunsValid
<1>12. EventsValid /\ RequestsValid
  <2>1. \A i \in 2..Len(events) : FALSE
    BY <1>5
  <2> QED BY <1>5, <2>1 DEF EventsValid, RequestsValid, Ordered
<1>13. VersionsKept
  BY <1>3, <1>5 DEF VersionsKept
<1>14. RunsKept
  BY <1>4, <1>5 DEF RunsKept, IsOpen, HasRun
<1>15. ReceiptsKept
  BY <1>1, <1>5 DEF ReceiptsKept
<1>16. OutboxKept
  <2>1. \A t \in Names : HeadAt(t, Len(outbox)) = Len(versions[t])
    <3> TAKE t \in Names
    <3>1. \A d \in 1..0 : FALSE
      OBVIOUS
    <3>2. Announced(t, 0) = {}
      BY <3>1 DEF Announced
    <3>3. HeadAt(t, 0) = MaxOf({0})
      BY <3>2 DEF HeadAt
    <3>4. MaxOf({0}) = 0
      BY MaxIs
    <3> QED BY <1>5, <3>3, <3>4
  <2>2. \A c \in Consumers : consumers[c] <= Len(outbox)
    BY <1>1, <1>5
  <2> QED BY <1>5, <2>1, <2>2 DEF OutboxKept
<1>17. MessagesKept
  BY <1>5 DEF MessagesKept
<1> QED BY <1>2, <1>6, <1>7, <1>8, <1>9, <1>10, <1>11, <1>12, <1>13, <1>14, <1>15, <1>16, <1>17 DEF RowsInv, RowsValid

\* Every transaction leaves rows that both engines accept: what an operation writes, the
\* validation of the next transaction and of the next open reads back.
THEOREM RowsAlwaysValid == RowsSpec => []RowsValid
<1>1. RowsInit => RowsInv
  BY RowsBegin, TaskRowsAssumption DEF Bounds
<1>2. RowsInv /\ [RowsNext]_rowsVars => RowsInv'
  BY RowsStep
<1>3. RowsInv => RowsValid
  BY DEF RowsInv
<1> QED BY <1>1, <1>2, <1>3, PTL DEF RowsSpec

-----------------------------------------------------------------------------
(* The invariant.                                                          *)

\* The journal's intents, whatever epoch a restore expected.
Decisions == [operation : Contents \cup Restores \cup {"restrict"}, restore : BOOLEAN,
              expected : Nat]
ContentStates == {"absent", "model-allowed", "local-only", "revoked", "purged"}
Forgets(k, c) == ~decided[k].restore /\ decided[k].operation = c

JournalOK == decided \in Seq(Decisions) /\ epoch \in Nat
DatabaseOK ==
  /\ applied \in [Copies -> Nat] /\ content \in [Copies -> [Contents -> ContentStates]]
  /\ parent \in [Copies -> BOOLEAN] /\ written \in [Contents -> Nat]
\* A database has applied no more than was decided, and all that it says it has.
AppliedOK ==
  /\ \A d \in Copies : applied[d] <= Len(decided)
  /\ \A d \in Copies, c \in Contents, k \in 1..Len(decided) :
       k <= applied[d] /\ Forgets(k, c) => content[d][c] \notin Available
\* Only what was once written is found in a copy, or forgotten.
WrittenOK ==
  /\ \A d \in Copies, c \in Contents : content[d][c] # "absent" => written[c] # 0
  /\ \A c \in Contents, k \in 1..Len(decided) : Forgets(k, c) => written[c] # 0
Databases == JournalOK /\ DatabaseOK /\ AppliedOK /\ WrittenOK

Selections == [generation : Generations, number : Nat, snapshot : Snapshots \cup {None},
               operation : Restores \cup {None}, epoch : Nat]
Recorded == {"pending", "failed", "purged"}
Phases == {"down", "idle", "reconcile", "confirm", "apply", "export", "register", "copy",
           "candidate", "advance", "restore", "receipt", "footprint", "switch", "adopt",
           "target", "revoke", "record", "erase", "failed"}
Jobs == [kind : {None, "apply", "capture", "restore"} \cup Recorded,
         copy : Copies \cup {None}, from : Snapshots \cup {None},
         operation : Restores \cup {None}, rest : SUBSET Copies]

FilesOK ==
  /\ tree \in [Copies -> {None, "partial", "whole", "erased", "empty"}]
  /\ catalog \in [Snapshots -> {None, "torn", "whole"}]
  /\ purge \in [Copies -> Recorded \cup {None}]
  /\ pending \in [Copies -> Recorded \cup {None, "torn"}]
SelectionOK ==
  /\ receipt \in [Generations -> Selections \cup {NoSelection}]
  /\ active \in Selections /\ selected \in Selections \cup {NoSelection}
  /\ footprint \in Generations \cup {None} /\ store \in Generations \cup {None}
\* The active generation is complete and no purge speaks of it.
ActiveOK ==
  /\ tree[active.generation] = "whole" /\ purge[active.generation] = None
  /\ receipt[active.generation] = active
\* A copy that lost a byte has a record, and one whose record says purged lost them all.
PurgeOK == \A d \in Copies :
  /\ purge[d] # None => tree[d] # None
  /\ tree[d] \in {"erased", "empty"} => purge[d] # None
  /\ purge[d] = "purged" \/ pending[d] = "purged" => tree[d] = "empty"

Building ==
  \/ doing \in {"candidate", "advance", "restore", "receipt", "footprint", "switch"}
  \/ doing = "confirm" /\ job.kind = "restore"
CandidateOK ==
  /\ doing = "copy" \/ Building =>
       /\ job.kind = "restore" /\ job.copy \in Generations /\ job.copy # active.generation
       /\ job.from \in Snapshots /\ job.operation \in Restores /\ purge[job.copy] = None
       /\ selected \in Selections
  /\ doing = "copy" => tree[job.copy] = "partial"
  /\ Building => tree[job.copy] = "whole"
  /\ doing \in {"footprint", "switch"} =>
       receipt[job.copy] \in Selections /\ receipt[job.copy].generation = job.copy
  /\ doing = "adopt" => job.copy \in Generations
CallOK ==
  /\ doing \in Phases /\ job \in Jobs
  /\ doing \in {"reconcile", "export"} => store \in Generations
  /\ doing = "confirm" => job.kind \in {"apply", "restore"} /\ job.copy \in Copies
  /\ doing = "apply" => job.copy \in Copies
  /\ doing \in {"export", "register"} => job.copy \in Snapshots
  /\ doing = "export" => tree[job.copy] = "partial"
Targets == {d \in Copies : tree[d] # None /\ d # active.generation}
TargetOK ==
  /\ doing \in {"target", "revoke", "record", "erase", "failed"} => job.rest \subseteq Targets
  /\ doing \in {"revoke", "record", "erase", "failed"} => job.copy \in Targets
  /\ doing = "record" =>
       /\ job.kind \in Recorded /\ pending[job.copy] \in {"torn", job.kind}
       /\ job.kind = "purged" => tree[job.copy] = "empty"
  /\ doing = "erase" => purge[job.copy] # None
Disk == FilesOK /\ SelectionOK /\ ActiveOK /\ PurgeOK /\ CandidateOK /\ CallOK /\ TargetOK

Inductive == Databases /\ Disk
-----------------------------------------------------------------------------
(* The databases.                                                          *)

LEMMA DatabasesStay ==
  ASSUME Databases, UNCHANGED <<decided, epoch, database>>
  PROVE  Databases'
  BY DEF Databases, JournalOK, DatabaseOK, AppliedOK, WrittenOK, Forgets, database

\* Applying what is pending in one transaction leaves nothing forgotten readable.
LEMMA ApplyKeeps ==
  ASSUME Databases, NEW d \in Copies, ApplyPending(d), UNCHANGED <<decided, epoch>>
  PROVE  Databases'
<1>1. JournalOK' /\ DatabaseOK'
  BY DEF Databases, JournalOK, DatabaseOK, ApplyPending, ContentStates
<1>2. \A e \in Copies : applied'[e] = IF e = d THEN Len(decided) ELSE applied[e]
  BY DEF Databases, DatabaseOK, ApplyPending
<1>3. \A e \in Copies \ {d} : content'[e] = content[e]
  BY DEF Databases, DatabaseOK, ApplyPending
<1>4. ASSUME NEW c \in Contents, NEW k \in 1..Len(decided), Forgets(k, c)
      PROVE  content'[d][c] \notin Available
  <2>1. c \in Forgotten(Len(decided))
    BY <1>4 DEF Forgotten, Forgets
  <2> QED BY <2>1 DEF Databases, DatabaseOK, ApplyPending, Available
<1>5. AppliedOK'
  BY <1>2, <1>3, <1>4 DEF Databases, JournalOK, AppliedOK, Forgets
<1>6. \A c \in Contents : content'[d][c] # "absent" => content[d][c] # "absent"
  BY DEF Databases, DatabaseOK, ApplyPending, Available
<1>7. WrittenOK'
  BY <1>3, <1>6 DEF Databases, WrittenOK, Forgets, ApplyPending
<1> QED BY <1>1, <1>5, <1>7 DEF Databases

\* A copy of a database knows as much of the journal as its original.
LEMMA CopyKeeps ==
  ASSUME Databases, NEW a \in Copies, NEW b \in Copies,
         applied' = [applied EXCEPT ![a] = applied[b]],
         content' = [content EXCEPT ![a] = content[b]],
         parent' = [parent EXCEPT ![a] = parent[b]],
         UNCHANGED <<decided, epoch, written>>
  PROVE  Databases'
<1>1. JournalOK' /\ DatabaseOK'
  BY DEF Databases, JournalOK, DatabaseOK
<1>2. \A e \in Copies : \E o \in Copies : applied'[e] = applied[o] /\ content'[e] = content[o]
  BY DEF Databases, DatabaseOK
<1>3. AppliedOK' /\ WrittenOK'
  BY <1>2 DEF Databases, AppliedOK, WrittenOK, Forgets
<1> QED BY <1>1, <1>3 DEF Databases

\* What is decided now is ahead of every database.
LEMMA DecideKeeps ==
  ASSUME Databases, NEW i \in Decisions, Journal!Decide(i), UNCHANGED database,
         ~i.restore /\ i.operation \in Contents => written[i.operation] # 0
  PROVE  Databases'
<1>1. /\ decided' = Append(decided, i) /\ decided \in Seq(Decisions)
      /\ epoch \in Nat /\ epoch' \in Nat
  BY DEF Databases, JournalOK, Journal!Decide
<1>2. /\ decided' \in Seq(Decisions) /\ Len(decided') = Len(decided) + 1
      /\ Len(decided) \in Nat /\ decided'[Len(decided')] = i
      /\ \A k \in 1..Len(decided) : decided'[k] = decided[k]
  BY <1>1
<1>3. JournalOK' /\ DatabaseOK'
  BY <1>1, <1>2 DEF Databases, JournalOK, DatabaseOK, database
<1>4. AppliedOK'
  <2>1. \A d \in Copies : applied'[d] = applied[d] /\ applied[d] \in Nat
                          /\ applied[d] <= Len(decided)
    BY DEF Databases, DatabaseOK, AppliedOK, database
  <2>2. \A d \in Copies : applied'[d] <= Len(decided')
    BY <1>2, <2>1
  <2>3. ASSUME NEW d \in Copies, NEW c \in Contents, NEW k \in 1..Len(decided'),
               k <= applied'[d], Forgets(k, c)'
        PROVE  content'[d][c] \notin Available
    <3>1. k \in 1..Len(decided) /\ decided'[k] = decided[k]
      BY <1>2, <2>1, <2>3
    <3>2. Forgets(k, c)
      BY <3>1, <2>3 DEF Forgets
    <3> QED BY <2>1, <2>3, <3>1, <3>2 DEF Databases, AppliedOK, database
  <2> QED BY <2>2, <2>3 DEF AppliedOK
<1>5. WrittenOK'
  <2>1. ASSUME NEW c \in Contents, NEW k \in 1..Len(decided'), Forgets(k, c)'
        PROVE  written'[c] # 0
    <3>1. CASE k = Len(decided')
      BY <1>2, <2>1, <3>1 DEF Forgets, database
    <3>2. CASE k # Len(decided')
      <4>1. k \in 1..Len(decided) /\ Forgets(k, c)
        BY <1>2, <2>1, <3>2 DEF Forgets
      <4> QED BY <4>1 DEF Databases, WrittenOK, database
    <3> QED BY <3>1, <3>2
  <2> QED BY <2>1 DEF Databases, WrittenOK, database
<1> QED BY <1>3, <1>4, <1>5 DEF Databases

\* The store of a coordinator that is ready has applied every intent.
LEMMA ReadyIs ==
  ASSUME Disk, Ready
  PROVE  /\ store \in Generations /\ store \in Copies
         /\ selected = active /\ active \in Selections /\ applied[store] = Len(decided)
  BY DEF Disk, SelectionOK, Ready, Checked, Copies

LEMMA WritesKeep ==
  ASSUME Databases, Disk, NEW c \in Contents, Write(c) \/ PurgeContent(c) \/ RegisterWorkspace
  PROVE  Databases'
<1>1. Ready /\ store \in Copies /\ applied[store] = Len(decided)
  BY ReadyIs DEF Write, PurgeContent, RegisterWorkspace
<1>2. CASE RegisterWorkspace
  BY <1>1, <1>2 DEF RegisterWorkspace, journal, Databases, JournalOK, DatabaseOK, AppliedOK,
                    WrittenOK, Forgets
<1>3. CASE Write(c)
  <2>1. JournalOK' /\ DatabaseOK'
    BY <1>3, <1>1 DEF Write, journal, Databases, JournalOK, DatabaseOK, ContentStates
  <2>2. \A k \in 1..Len(decided) : ~Forgets(k, c)
    BY <1>3 DEF Write, Databases, WrittenOK
  <2>3. \A d \in Copies, e \in Contents :
          content'[d][e] = IF d = store /\ e = c THEN "model-allowed" ELSE content[d][e]
    BY <1>3, <1>1 DEF Write, Databases, DatabaseOK
  <2>4. AppliedOK'
    BY <1>3, <2>2, <2>3 DEF Write, journal, Databases, AppliedOK, Forgets
  <2>5. \A e \in Contents : written'[e] = IF e = c THEN Len(decided) + 1 ELSE written[e]
    BY <1>3 DEF Write, Databases, DatabaseOK
  <2>6. WrittenOK'
    BY <1>3, <2>2, <2>3, <2>5 DEF Write, journal, Databases, JournalOK, WrittenOK, Forgets
  <2> QED BY <2>1, <2>4, <2>6 DEF Databases
<1>4. CASE PurgeContent(c)
  <2>1. JournalOK' /\ DatabaseOK'
    BY <1>4, <1>1 DEF PurgeContent, journal, Databases, JournalOK, DatabaseOK, ContentStates
  <2>2. \A d \in Copies, e \in Contents :
          content'[d][e] = IF d = store /\ e = c THEN "purged" ELSE content[d][e]
    BY <1>4, <1>1 DEF PurgeContent, Databases, DatabaseOK
  <2>3. AppliedOK' /\ WrittenOK'
    BY <1>4, <2>2 DEF PurgeContent, journal, Databases, AppliedOK, WrittenOK, Forgets, Available
  <2> QED BY <2>1, <2>3 DEF Databases
<1> QED BY <1>2, <1>3, <1>4

LEMMA ControlKeeps ==
  ASSUME Databases, Disk, NEW i \in Intents, Control(i)
  PROVE  Databases'
<1>1. store \in Copies /\ Journal!Decide(i) /\ UNCHANGED database
  BY ReadyIs DEF Control, Resolved
<1>2. CASE i = Restriction
  <2>1. i \in Decisions /\ i.operation \notin Contents
    BY <1>2, RecoveryAssumption DEF Restriction, Decisions
  <2> QED BY <1>1, <2>1, DecideKeeps
<1>3. ASSUME NEW c \in Contents, i = Forget(c), content[store][c] # "absent"
      PROVE  Databases'
  <2>1. i \in Decisions /\ i.operation = c
    BY <1>3 DEF Forget, Decisions
  <2>2. written[c] # 0
    BY <1>1, <1>3 DEF Databases, WrittenOK
  <2> QED BY <1>1, <2>1, <2>2, DecideKeeps
<1> QED BY <1>2, <1>3 DEF Control, Resolved

LEMMA AdvanceKeeps ==
  ASSUME Databases, Disk, Advance
  PROVE  Databases'
<1>1. job.operation \in Restores /\ epoch \in Nat
  BY DEF Disk, CandidateOK, Building, Advance, Databases, JournalOK
<1>2. Restore(job.operation, epoch) \in Decisions /\ Restore(job.operation, epoch).restore
  BY <1>1 DEF Restore, Decisions
<1> QED BY <1>2, DecideKeeps DEF Advance

LEMMA DatabasesKeep == Databases /\ Disk /\ [Next]_vars => Databases'
<1> SUFFICES ASSUME Databases, Disk, [Next]_vars PROVE Databases'
  OBVIOUS
<1>1. CASE Reconcile \/ Apply \/ OpenCandidate \/ ApplyRestore
  <2>1. \E d \in Copies : ApplyPending(d) /\ UNCHANGED <<decided, epoch>>
    BY <1>1 DEF Reconcile, Apply, OpenCandidate, ApplyRestore, journal, Disk, CallOK,
                CandidateOK, Building, Copies
  <2> QED BY <2>1, ApplyKeeps
<1>2. CASE Export \/ CopySnapshot
  <2>1. \E a, b \in Copies :
          /\ applied' = [applied EXCEPT ![a] = applied[b]]
          /\ content' = [content EXCEPT ![a] = content[b]]
          /\ parent' = [parent EXCEPT ![a] = parent[b]]
    BY <1>2 DEF Export, CopySnapshot, Disk, CallOK, CandidateOK, Copies
  <2>2. UNCHANGED <<decided, epoch, written>>
    BY <1>2 DEF Export, CopySnapshot, journal
  <2> QED BY <2>1, <2>2, CopyKeeps
<1>3. CASE Advance
  BY <1>3, AdvanceKeeps
<1>4. ASSUME NEW i \in Intents, Control(i) PROVE Databases'
  BY <1>4, ControlKeeps
<1>5. ASSUME NEW c \in Contents, Write(c) \/ PurgeContent(c) PROVE Databases'
  BY <1>5, WritesKeep
<1>6. CASE RegisterWorkspace
  BY <1>6, ReadyIs DEF RegisterWorkspace, journal, Databases, JournalOK, DatabaseOK, AppliedOK,
                       WrittenOK, Forgets
<1>7. CASE SettleJournal \/ Confirm \/ CutOff
  <2>1. UNCHANGED <<decided, epoch, database>>
    BY <1>7 DEF SettleJournal, Confirm, CutOff, Journal!Open, Journal!Settle, Journal!Shut
  <2> QED BY <2>1, DatabasesStay
<1>8. CASE \/ Open \/ Close \/ Register \/ WriteReceipt \/ WriteFootprint \/ Switch \/ Adopt
           \/ NextTarget \/ Revoke \/ FinishRecord \/ Erase \/ RecordFailure \/ Fail \/ Crash
           \/ BeginPurge \/ (\E s \in Snapshots : Capture(s)) \/ UNCHANGED vars
           \/ \E s \in Snapshots, g \in Generations, o \in Restores : BeginRestore(s, g, o)
  <2> SUFFICES UNCHANGED <<journal, database>>
    BY DatabasesStay DEF journal
  <2>1. CASE UNCHANGED vars
    BY <2>1 DEF vars
  <2>2. ASSUME NEW s \in Snapshots, Capture(s)
        PROVE  UNCHANGED <<journal, database>>
    BY <2>2 DEF Capture
  <2>3. ASSUME NEW s \in Snapshots, NEW g \in Generations, NEW o \in Restores,
               BeginRestore(s, g, o)
        PROVE  UNCHANGED <<journal, database>>
    BY <2>3 DEF BeginRestore
  <2>4. CASE \/ BeginPurge \/ Open \/ Close \/ Register \/ WriteReceipt \/ WriteFootprint \/ Switch
             \/ Adopt \/ NextTarget \/ Revoke \/ FinishRecord \/ Erase \/ RecordFailure \/ Fail \/ Crash
    BY <2>4 DEF BeginPurge, Open, Close, Register, WriteReceipt, WriteFootprint, Switch, Adopt, NextTarget,
       Revoke, FinishRecord, Erase, RecordFailure, Fail, Crash
  <2> QED BY <1>8, <2>1, <2>2, <2>3, <2>4
<1> QED BY <1>1, <1>2, <1>3, <1>4, <1>5, <1>6, <1>7, <1>8, Zenon DEF Next, Step
-----------------------------------------------------------------------------
(* The disk and the call in progress.                                      *)

\* FilesOK, ActiveOK and PurgeOK are about the disk alone.
LEMMA FilesStay ==
  ASSUME Disk, UNCHANGED <<tree, catalogue, selection>>
  PROVE  FilesOK' /\ ActiveOK' /\ PurgeOK'
  BY DEF Disk, FilesOK, ActiveOK, PurgeOK, catalogue, selection

LEMMA DiskStay ==
  ASSUME Disk, UNCHANGED <<tree, catalogue, selection, memory, doing, job>>
  PROVE  Disk'
<1>1. FilesOK' /\ ActiveOK' /\ PurgeOK'
  BY FilesStay
<1>2. SelectionOK'
  BY DEF Disk, SelectionOK, selection, memory
<1>3. CandidateOK' /\ CallOK' /\ TargetOK'
  BY DEF Disk, CandidateOK, CallOK, TargetOK, Building, Targets, catalogue, selection, memory
<1> QED BY <1>1, <1>2, <1>3 DEF Disk

\* A call that is over, and a process that ends, have nothing in progress.
LEMMA RestIsDisk ==
  ASSUME Disk, UNCHANGED <<tree, catalogue, selection>>, doing' \in {"down", "idle"},
         job' \in Jobs, store' \in Generations \cup {None},
         selected' \in Selections \cup {NoSelection}
  PROVE  Disk'
<1>1. FilesOK' /\ ActiveOK' /\ PurgeOK'
  BY FilesStay
<1>2. SelectionOK'
  BY DEF Disk, SelectionOK, selection
<1>3. CandidateOK' /\ CallOK' /\ TargetOK'
  BY DEF CandidateOK, CallOK, TargetOK, Building, Phases
<1> QED BY <1>1, <1>2, <1>3 DEF Disk

LEMMA NoJobIsJob == NoJob \in Jobs
  BY DEF NoJob, Jobs

LEMMA EndsKeep ==
  ASSUME Disk, Reconcile \/ Close \/ Adopt \/ Apply
  PROVE  Disk'
<1>1. /\ UNCHANGED <<tree, catalogue, selection>> /\ doing' \in {"down", "idle"}
      /\ job' \in Jobs /\ store' \in Generations \cup {None}
      /\ selected' \in Selections \cup {NoSelection}
  BY NoJobIsJob DEF Disk, SelectionOK, CandidateOK, CallOK, Reconcile, Close, Adopt, Apply,
     selection, memory, catalogue
<1> QED BY <1>1, RestIsDisk

\* A call that throws, and a process that ends, leave every file as it is.
LEMMA ThrowsKeep ==
  ASSUME Disk, UNCHANGED <<tree, catalogue, selection>>, Throws \/ ProcessEnds
  PROVE  Disk'
<1>1. CASE Throws /\ (Purging \/ doing = "failed")
  <2>1. doing' \in {"failed", "target"} /\ doing \in {"revoke", "record", "erase", "failed"}
        /\ UNCHANGED <<job, memory>>
    BY <1>1 DEF Throws, Purging
  <2>2. FilesOK' /\ ActiveOK' /\ PurgeOK'
    BY FilesStay
  <2>3. SelectionOK' /\ CandidateOK' /\ CallOK' /\ TargetOK'
    BY <2>1 DEF Disk, SelectionOK, CandidateOK, CallOK, TargetOK, Building, Targets,
       Phases, catalogue, selection, memory
  <2> QED BY <2>2, <2>3 DEF Disk
<1>2. CASE Throws /\ ~(Purging \/ doing = "failed")
  <2>1. doing' \in {"down", "idle"} /\ job' \in Jobs /\ store' \in Generations \cup {None}
        /\ selected' \in Selections \cup {NoSelection}
    BY <1>2, NoJobIsJob DEF Throws, Disk, SelectionOK
  <2> QED BY <2>1, RestIsDisk
<1>3. CASE ProcessEnds
  <2>1. doing' \in {"down", "idle"} /\ job' \in Jobs /\ store' \in Generations \cup {None}
        /\ selected' \in Selections \cup {NoSelection}
    BY <1>3, NoJobIsJob DEF ProcessEnds
  <2> QED BY <2>1, RestIsDisk
<1> QED BY <1>1, <1>2, <1>3

LEMMA FailKeeps ==
  ASSUME Disk, Fail \/ Crash \/ CutOff
  PROVE  Disk'
<1>1. UNCHANGED <<tree, catalogue, selection>> /\ (Throws \/ ProcessEnds)
  BY DEF Fail, Crash, CutOff
<1> QED BY <1>1, ThrowsKeep

LEMMA OpenKeeps ==
  ASSUME Disk, Open
  PROVE  Disk'
<1>1. FilesOK' /\ ActiveOK' /\ PurgeOK'
  BY FilesStay DEF Open
<1>2. SelectionOK' /\ CandidateOK' /\ CallOK' /\ TargetOK'
  BY DEF Open, Disk, SelectionOK, CandidateOK, CallOK, TargetOK, Building, Phases, Selections,
         selection
<1> QED BY <1>1, <1>2 DEF Disk

LEMMA ControlIsDisk ==
  ASSUME Disk, NEW i \in Intents, Control(i)
  PROVE  Disk'
<1>1. FilesOK' /\ ActiveOK' /\ PurgeOK'
  BY FilesStay DEF Control
<1>2. job' \in Jobs /\ job'.kind = "apply" /\ job'.copy \in Copies
  BY ReadyIs DEF Control, Resolved, NoJob, Jobs
<1>3. SelectionOK' /\ CandidateOK' /\ CallOK' /\ TargetOK'
  BY <1>2 DEF Control, Disk, SelectionOK, CandidateOK, CallOK, TargetOK, Building, Phases,
              selection, memory
<1> QED BY <1>1, <1>3 DEF Disk

\* The steps of a call that touch the journal and the databases only.
LEMMA MovesKeep ==
  ASSUME Disk, Confirm \/ OpenCandidate \/ Advance \/ ApplyRestore
  PROVE  Disk'
<1>1. UNCHANGED <<tree, catalogue, selection>>
  BY DEF Confirm, OpenCandidate, Advance, ApplyRestore
<1>2. FilesOK' /\ ActiveOK' /\ PurgeOK'
  BY <1>1, FilesStay
<1>3. UNCHANGED <<job, selected>> /\ store' \in {store, None}
  BY DEF Confirm, OpenCandidate, Advance, ApplyRestore, memory
<1>4. SelectionOK'
  BY <1>1, <1>3 DEF Disk, SelectionOK, selection
<1>5. CASE OpenCandidate \/ Advance \/ ApplyRestore
  <2>1. Building /\ job.kind = "restore"
        /\ doing' \in {"advance", "confirm", "receipt"}
    BY <1>5 DEF OpenCandidate, Advance, ApplyRestore, Building, Disk, CandidateOK
  <2> QED
    BY <1>1, <1>2, <1>3, <1>4, <1>5, <2>1
    DEF Disk, CandidateOK, CallOK, TargetOK, Building, Phases, Copies, catalogue, selection
<1>6. CASE Confirm
  <2>1. doing = "confirm" /\ doing' = job.kind /\ job.kind \in {"apply", "restore"}
    BY <1>6 DEF Confirm, Disk, CallOK
  <2> QED
    BY <1>1, <1>2, <1>3, <1>4, <2>1
    DEF Disk, CandidateOK, CallOK, TargetOK, Building, Phases, catalogue, selection
<1> QED BY <1>5, <1>6

LEMMA CaptureKeeps ==
  ASSUME Disk, NEW s \in Snapshots, Capture(s)
  PROVE  Disk'
<1>1. /\ s \in Copies /\ s # active.generation /\ tree[s] = None /\ doing = "idle"
      /\ tree' = [tree EXCEPT ![s] = "partial"]
      /\ UNCHANGED <<catalogue, selection, memory>>
  BY DEF Capture, Ready, Idle, Disk, ActiveOK, None, Copies
<1>2. FilesOK' /\ PurgeOK'
  BY <1>1 DEF Disk, FilesOK, PurgeOK, catalogue
<1>3. ActiveOK' /\ SelectionOK'
  BY <1>1 DEF Disk, FilesOK, ActiveOK, SelectionOK, Selections, Copies, catalogue, selection,
              memory
<1>4. CASE UNCHANGED <<doing, job>>
  BY <1>1, <1>2, <1>3, <1>4 DEF Disk, CandidateOK, CallOK, TargetOK, Building
<1>5. CASE doing' = "export" /\ job' = [NoJob EXCEPT !.kind = "capture", !.copy = s]
  <2>1. job' \in Jobs /\ job'.copy = s
    BY <1>1, <1>5 DEF NoJob, Jobs
  <2>2. tree'[s] = "partial" /\ store' \in Generations
    BY <1>1, ReadyIs DEF Disk, FilesOK, Capture, memory
  <2> QED
    BY <1>2, <1>3, <1>5, <2>1, <2>2 DEF Disk, CandidateOK, CallOK, TargetOK, Building, Phases
<1> QED BY <1>4, <1>5 DEF Capture

LEMMA ExportKeeps ==
  ASSUME Disk, Export \/ Register
  PROVE  Disk'
<1>1. CASE Export
  <2>1. /\ job.copy \in Snapshots /\ job.copy \in Copies /\ tree[job.copy] = "partial"
        /\ tree' = [tree EXCEPT ![job.copy] = "whole"]
        /\ UNCHANGED <<catalogue, selection, memory, job>> /\ doing' = "register"
    BY <1>1 DEF Export, Disk, CallOK, Copies
  <2>2. FilesOK' /\ PurgeOK'
    BY <2>1 DEF Disk, FilesOK, PurgeOK, catalogue, None
  <2>3. ActiveOK' /\ SelectionOK'
    BY <2>1 DEF Disk, FilesOK, ActiveOK, SelectionOK, Selections, Copies, catalogue, selection,
                memory
  <2> QED
    BY <2>1, <2>2, <2>3 DEF Disk, CandidateOK, CallOK, TargetOK, Building, Phases
<1>2. CASE Register
  <2>1. /\ job.copy \in Snapshots
        /\ catalog' \in [Snapshots -> {None, "torn", "whole"}]
        /\ UNCHANGED <<tree, purge, pending, selection, memory>>
    BY <1>2 DEF Register, Disk, CallOK, FilesOK
  <2>2. FilesOK' /\ PurgeOK' /\ ActiveOK' /\ SelectionOK'
    BY <2>1 DEF Disk, FilesOK, PurgeOK, ActiveOK, SelectionOK, selection, memory
  <2>3. UNCHANGED <<doing, job>> \/ (doing' = "idle" /\ job' = NoJob)
    BY <1>2 DEF Register
  <2>4. doing = "register"
    BY <1>2 DEF Register
  <2>5. CandidateOK' /\ CallOK' /\ TargetOK'
    BY <2>1, <2>3, <2>4, NoJobIsJob
    DEF Disk, CandidateOK, CallOK, TargetOK, Building, Phases
  <2> QED BY <2>2, <2>5 DEF Disk
<1> QED BY <1>1, <1>2

LEMMA BeginRestoreKeeps ==
  ASSUME Disk, NEW s \in Snapshots, NEW g \in Generations, NEW o \in Restores,
         BeginRestore(s, g, o)
  PROVE  Disk'
<1>1. /\ g \in Copies /\ g # active.generation /\ tree[g] = None /\ purge[g] = None
      /\ tree' = [tree EXCEPT ![g] = "partial"] /\ selected \in Selections
      /\ UNCHANGED <<catalogue, selection, memory>> /\ doing' = "copy"
  BY ReadyIs DEF BeginRestore, Disk, FilesOK, ActiveOK, PurgeOK, None, Copies
<1>2. FilesOK' /\ PurgeOK'
  BY <1>1 DEF Disk, FilesOK, PurgeOK, catalogue
<1>3. ActiveOK' /\ SelectionOK'
  BY <1>1 DEF Disk, FilesOK, ActiveOK, SelectionOK, Selections, Copies, catalogue, selection,
              memory
<1>4. job' \in Jobs /\ job'.kind = "restore" /\ job'.copy = g /\ job'.from = s
      /\ job'.operation = o
  BY <1>1 DEF BeginRestore, Jobs
<1>5. CandidateOK'
  BY <1>1, <1>4 DEF Disk, FilesOK, CandidateOK, Building, catalogue, selection, memory
<1>6. CallOK' /\ TargetOK'
  BY <1>1, <1>4 DEF CallOK, TargetOK, Phases
<1> QED BY <1>2, <1>3, <1>5, <1>6 DEF Disk

LEMMA CopyIsDisk ==
  ASSUME Disk, CopySnapshot
  PROVE  Disk'
<1>1. /\ job.copy \in Generations /\ job.copy \in Copies /\ tree[job.copy] = "partial"
      /\ tree' = [tree EXCEPT ![job.copy] = "whole"] /\ doing' = "candidate"
      /\ doing = "copy" /\ UNCHANGED <<catalogue, selection, memory, job>>
  BY DEF CopySnapshot, Disk, CandidateOK, Copies
<1>2. FilesOK' /\ PurgeOK'
  BY <1>1 DEF Disk, FilesOK, PurgeOK, catalogue, None
<1>3. ActiveOK' /\ SelectionOK'
  BY <1>1 DEF Disk, FilesOK, ActiveOK, SelectionOK, Selections, Copies, catalogue, selection,
              memory
<1>4. CandidateOK' /\ CallOK' /\ TargetOK'
  BY <1>1 DEF Disk, FilesOK, CandidateOK, CallOK, TargetOK, Building, Phases, catalogue,
              selection, memory
<1> QED BY <1>2, <1>3, <1>4 DEF Disk

\* The receipt is written inside a generation that is not selected yet.
LEMMA WriteReceiptKeeps ==
  ASSUME Databases, Disk, WriteReceipt
  PROVE  Disk'
<1>1. /\ doing = "receipt" /\ doing' = "footprint"
      /\ receipt' = [receipt EXCEPT ![job.copy] = NextSelection]
      /\ job.copy \in Generations /\ job.copy # active.generation
      /\ job.from \in Snapshots /\ job.operation \in Restores /\ selected \in Selections
      /\ UNCHANGED <<tree, catalogue, active, footprint, memory, job>>
  BY DEF WriteReceipt, Disk, CandidateOK, Building
<1>2. NextSelection \in Selections /\ NextSelection.generation = job.copy
  BY <1>1 DEF NextSelection, Selections, Databases, JournalOK
<1>3. FilesOK' /\ PurgeOK'
  BY <1>1 DEF Disk, FilesOK, PurgeOK, catalogue
<1>4. SelectionOK' /\ receipt'[job.copy] = NextSelection
      /\ receipt'[active.generation] = receipt[active.generation]
  BY <1>1, <1>2 DEF Disk, SelectionOK, Selections, memory
<1>5. ActiveOK'
  BY <1>1, <1>4 DEF Disk, ActiveOK, catalogue
<1>6. CandidateOK' /\ CallOK' /\ TargetOK'
  BY <1>1, <1>2, <1>4
  DEF Disk, CandidateOK, CallOK, TargetOK, Building, Phases, catalogue, memory
<1> QED BY <1>3, <1>4, <1>5, <1>6 DEF Disk

LEMMA WriteFootprintKeeps ==
  ASSUME Disk, WriteFootprint
  PROVE  Disk'
<1>1. /\ doing = "footprint" /\ doing' = "switch" /\ footprint' \in Generations
      /\ UNCHANGED <<tree, catalogue, active, receipt, memory, job>>
  BY DEF WriteFootprint, Disk, CandidateOK, Building
<1>2. FilesOK' /\ PurgeOK' /\ ActiveOK'
  BY <1>1 DEF Disk, FilesOK, PurgeOK, ActiveOK, catalogue
<1>3. SelectionOK'
  BY <1>1 DEF Disk, SelectionOK, memory
<1>4. CandidateOK' /\ CallOK' /\ TargetOK'
  BY <1>1 DEF Disk, CandidateOK, CallOK, TargetOK, Building, Phases, catalogue, memory
<1> QED BY <1>2, <1>3, <1>4 DEF Disk

\* The rename selects a generation that is complete and repeats its selection.
LEMMA SwitchKeeps ==
  ASSUME Disk, Switch
  PROVE  Disk'
<1>1. /\ doing = "switch" /\ doing' = "adopt" /\ job.copy \in Generations
      /\ tree[job.copy] = "whole" /\ purge[job.copy] = None
      /\ receipt[job.copy] \in Selections /\ receipt[job.copy].generation = job.copy
      /\ active' = receipt[job.copy] /\ footprint' = None
      /\ UNCHANGED <<tree, catalogue, receipt, memory, job>>
  BY DEF Switch, Disk, CandidateOK, Building
<1>2. FilesOK' /\ PurgeOK' /\ ActiveOK'
  BY <1>1 DEF Disk, FilesOK, PurgeOK, ActiveOK, catalogue
<1>3. SelectionOK'
  BY <1>1 DEF Disk, SelectionOK, memory
<1>4. CandidateOK' /\ CallOK' /\ TargetOK'
  BY <1>1 DEF Disk, CandidateOK, CallOK, TargetOK, Building, Phases, catalogue, memory
<1> QED BY <1>2, <1>3, <1>4 DEF Disk
-----------------------------------------------------------------------------
(* Purging: the target is never the active generation, and its record is   *)
(* written before its bytes are removed.                                   *)

LEMMA BeginPurgeKeeps ==
  ASSUME Disk, BeginPurge
  PROVE  Disk'
<1>1. Purgeable = Targets
  BY ReadyIs DEF BeginPurge, Purgeable, Targets
<1>2. job' \in Jobs /\ job'.rest = Targets
  BY <1>1 DEF BeginPurge, NoJob, Jobs, Targets
<1>3. doing' = "target" /\ UNCHANGED <<tree, catalogue, selection, memory>>
  BY DEF BeginPurge
<1>4. FilesOK' /\ ActiveOK' /\ PurgeOK'
  BY <1>3, FilesStay
<1>5. SelectionOK' /\ CandidateOK' /\ CallOK' /\ TargetOK'
  BY <1>2, <1>3 DEF Disk, SelectionOK, CandidateOK, CallOK, TargetOK, Building, Phases, Targets,
     selection, memory
<1> QED BY <1>4, <1>5 DEF Disk

LEMMA NextTargetKeeps ==
  ASSUME Disk, NextTarget
  PROVE  Disk'
<1>1. UNCHANGED <<tree, catalogue, selection, memory>> /\ doing = "target"
  BY DEF NextTarget
<1>2. CASE job.rest = {}
  BY <1>1, <1>2, RestIsDisk, NoJobIsJob DEF NextTarget, Disk, SelectionOK, memory
<1>3. CASE job.rest # {}
  <2> DEFINE d == CHOOSE d \in job.rest : d \in Snapshots \/ job.rest \cap Snapshots = {}
  <2>1. d \in job.rest
    BY <1>3
  <2>2. job' = [[job EXCEPT !.copy = d] EXCEPT !.rest = job.rest \ {d}]
        /\ doing' \in {"revoke", "target"}
    BY <1>3, Zenon DEF NextTarget
  <2> HIDE DEF d
  <2>3. job.rest \subseteq Targets /\ job \in Jobs
    BY <1>1 DEF Disk, TargetOK, CallOK
  <2> DEFINE j == [job EXCEPT !.copy = d]
  <2>4. j \in Jobs /\ j.copy = d
    BY <2>1, <2>3 DEF Jobs, Targets
  <2>5. job' = [j EXCEPT !.rest = job.rest \ {d}]
    BY <2>2
  <2> HIDE DEF j
  <2>6. job' \in Jobs /\ job'.copy = d /\ job'.rest = job.rest \ {d}
    BY <2>3, <2>4, <2>5 DEF Jobs
  <2>7. FilesOK' /\ ActiveOK' /\ PurgeOK'
    BY <1>1, FilesStay
  <2>8. SelectionOK' /\ CandidateOK' /\ CallOK' /\ TargetOK'
    BY <1>1, <2>1, <2>2, <2>3, <2>6 DEF Disk, SelectionOK, CandidateOK, CallOK, TargetOK,
       Building, Phases, Targets, selection, memory
  <2> QED BY <2>7, <2>8 DEF Disk
<1> QED BY <1>2, <1>3

\* A record left by an earlier call is put into place: it was true when it was written.
LEMMA FinishOldKeeps ==
  ASSUME Disk, doing \in {"revoke", "failed"}, FinishOld(job.copy),
         UNCHANGED <<tree, catalog, selection, memory>>
  PROVE  Disk'
<1>1. job.copy \in Targets /\ job.copy \in Copies /\ tree[job.copy] # None
      /\ job.copy # active.generation
  BY DEF Disk, TargetOK, Targets
<1>2. FilesOK' /\ PurgeOK' /\ ActiveOK'
  BY <1>1 DEF FinishOld, Disk, FilesOK, PurgeOK, ActiveOK, SelectionOK, Selections, Recorded,
     Copies, None, selection
<1>3. SelectionOK' /\ CandidateOK' /\ CallOK' /\ TargetOK'
  BY DEF FinishOld, Disk, SelectionOK, CandidateOK, CallOK, TargetOK, Building, Targets,
     selection, memory
<1> QED BY <1>2, <1>3 DEF Disk

\* A record being written says what is the case.
LEMMA WriteRecordKeeps ==
  ASSUME Disk, doing \in {"revoke", "erase", "failed"}, NEW state \in Recorded,
         WriteRecord(job.copy, state), state = "purged" => tree[job.copy] = "empty",
         UNCHANGED <<tree, catalog, selection, memory>>
  PROVE  Disk'
<1>1. job.copy \in Targets /\ job.copy \in Copies
  BY DEF Disk, TargetOK, Targets
<1>2. job' \in Jobs /\ job'.kind = state /\ job'.copy = job.copy /\ job'.rest = job.rest
  BY DEF WriteRecord, Disk, CallOK, Jobs
<1>3. FilesOK' /\ PurgeOK' /\ ActiveOK'
  BY <1>1 DEF WriteRecord, Disk, FilesOK, PurgeOK, ActiveOK, selection
<1>4. pending'[job.copy] = "torn" /\ doing' = "record"
  BY <1>1 DEF WriteRecord, Disk, FilesOK
<1>5. SelectionOK' /\ CandidateOK' /\ CallOK'
  BY <1>2, <1>4 DEF Disk, SelectionOK, CandidateOK, CallOK, Building, Phases, selection, memory
<1>6. TargetOK'
  BY <1>2, <1>4 DEF Disk, TargetOK, Targets, selection
<1> QED BY <1>3, <1>5, <1>6 DEF Disk

LEMMA RevokeKeeps ==
  ASSUME Disk, Revoke \/ RecordFailure
  PROVE  Disk'
<1>1. doing \in {"revoke", "failed"} /\ UNCHANGED <<tree, catalog, selection, memory>>
  BY DEF Revoke, RecordFailure
<1>2. CASE FinishOld(job.copy)
  BY <1>1, <1>2, FinishOldKeeps
<1>3. ASSUME NEW state \in {"pending", "failed"}, WriteRecord(job.copy, state)
      PROVE  Disk'
  BY <1>1, <1>3, WriteRecordKeeps DEF Recorded
<1>4. CASE doing' = "target" /\ UNCHANGED <<purge, pending, job>>
  <2>1. FilesOK' /\ ActiveOK' /\ PurgeOK'
    BY <1>1, <1>4, FilesStay DEF catalogue
  <2>2. SelectionOK' /\ CandidateOK' /\ CallOK' /\ TargetOK'
    BY <1>1, <1>4 DEF Disk, SelectionOK, CandidateOK, CallOK, TargetOK, Building, Phases,
       Targets, selection, memory
  <2> QED BY <2>1, <2>2 DEF Disk
<1> QED BY <1>2, <1>3, <1>4 DEF Revoke, RecordFailure

\* Bytes are removed behind a record; the record says purged when none is left.
LEMMA EraseKeeps ==
  ASSUME Disk, Erase
  PROVE  Disk'
<1>1. /\ job.copy \in Targets /\ job.copy \in Copies /\ purge[job.copy] # None
      /\ job.copy # active.generation /\ doing = "erase" /\ tree[job.copy] # None
      /\ UNCHANGED <<catalog, selection, memory>>
  BY DEF Erase, Disk, TargetOK, Targets
<1>2. CASE tree[job.copy] = "empty" /\ WriteRecord(job.copy, "purged") /\ UNCHANGED tree
  BY <1>1, <1>2, WriteRecordKeeps DEF Recorded
<1>3. ASSUME NEW left \in {"erased", "empty"}, tree[job.copy] # "empty",
             tree' = [tree EXCEPT ![job.copy] = left],
             UNCHANGED <<purge, pending, doing, job>>
      PROVE  Disk'
  <2>1. FilesOK' /\ PurgeOK' /\ ActiveOK'
    BY <1>1, <1>3 DEF Disk, FilesOK, PurgeOK, ActiveOK, SelectionOK, Selections, Copies, None,
       selection
  <2>2. \A d \in Copies : tree'[d] = IF d = job.copy THEN left ELSE tree[d]
    BY <1>3 DEF Disk, FilesOK
  <2>3. Targets' = Targets
    BY <1>1, <2>2 DEF Targets, None, selection
  <2>4. SelectionOK' /\ CandidateOK' /\ CallOK' /\ TargetOK'
    BY <1>1, <1>3, <2>3 DEF Disk, SelectionOK, CandidateOK, CallOK, TargetOK, Building,
       selection, memory
  <2> QED BY <2>1, <2>4 DEF Disk
<1> QED BY <1>2, <1>3 DEF Erase

LEMMA FinishRecordKeeps ==
  ASSUME Disk, FinishRecord
  PROVE  Disk'
<1>1. /\ job.copy \in Targets /\ job.copy \in Copies /\ tree[job.copy] # None
      /\ job.copy # active.generation /\ doing = "record"
      /\ job.kind \in Recorded /\ pending[job.copy] \in {"torn", job.kind}
      /\ job.kind = "purged" => tree[job.copy] = "empty"
      /\ UNCHANGED <<tree, catalog, selection, memory, job>>
  BY DEF FinishRecord, Disk, TargetOK, Targets
<1>2. CASE /\ pending' = [pending EXCEPT ![job.copy] = job.kind]
           /\ UNCHANGED <<purge, doing>>
  <2>1. FilesOK' /\ PurgeOK' /\ ActiveOK' /\ pending'[job.copy] = job.kind
    BY <1>1, <1>2 DEF Disk, FilesOK, PurgeOK, ActiveOK, Recorded, selection
  <2>2. SelectionOK' /\ CandidateOK' /\ CallOK' /\ TargetOK'
    BY <1>1, <1>2, <2>1 DEF Disk, SelectionOK, CandidateOK, CallOK, TargetOK, Building,
       Targets, selection, memory
  <2> QED BY <2>1, <2>2 DEF Disk
<1>3. CASE /\ pending[job.copy] # "torn"
           /\ purge' = [purge EXCEPT ![job.copy] = pending[job.copy]]
           /\ pending' = [pending EXCEPT ![job.copy] = None]
           /\ doing' = IF job.kind = "pending" THEN "erase" ELSE "target"
  <2>1. FilesOK' /\ PurgeOK' /\ purge'[job.copy] # None
    BY <1>1, <1>3 DEF Disk, FilesOK, PurgeOK, Recorded, None
  <2>2. ActiveOK'
    BY <1>1, <1>3 DEF Disk, FilesOK, ActiveOK, SelectionOK, Selections, Copies, selection
  <2>3. SelectionOK' /\ CandidateOK' /\ CallOK' /\ TargetOK'
    BY <1>1, <1>3, <2>1 DEF Disk, SelectionOK, CandidateOK, CallOK, TargetOK, Building, Phases,
       Targets, selection, memory
  <2> QED BY <2>1, <2>2, <2>3 DEF Disk
<1> QED BY <1>2, <1>3 DEF FinishRecord

LEMMA DiskKeeps == Databases /\ Disk /\ [Next]_vars => Disk'
<1> SUFFICES ASSUME Databases, Disk, [Next]_vars PROVE Disk'
  OBVIOUS
<1>1. CASE \/ SettleJournal \/ RegisterWorkspace \/ UNCHANGED vars
           \/ \E c \in Contents : (Write(c) \/ PurgeContent(c))
  <2>1. UNCHANGED <<tree, catalogue, selection, memory, doing, job>>
    BY <1>1 DEF SettleJournal, RegisterWorkspace, Write, PurgeContent, vars
  <2> QED BY <2>1, DiskStay
<1>2. CASE Reconcile \/ Close \/ Adopt \/ Apply \/ Fail \/ Crash \/ CutOff \/ Open
  BY <1>2, EndsKeep, FailKeeps, OpenKeeps
<1>3. ASSUME NEW i \in Intents, Control(i) PROVE Disk'
  BY <1>3, ControlIsDisk
<1>4. CASE Confirm \/ OpenCandidate \/ Advance \/ ApplyRestore \/ Export \/ Register
  BY <1>4, MovesKeep, ExportKeeps
<1>5. ASSUME NEW s \in Snapshots, Capture(s) PROVE Disk'
  BY <1>5, CaptureKeeps
<1>6. ASSUME NEW s \in Snapshots, NEW g \in Generations, NEW o \in Restores,
             BeginRestore(s, g, o)
      PROVE  Disk'
  BY <1>6, BeginRestoreKeeps
<1>7. CASE CopySnapshot \/ WriteReceipt \/ WriteFootprint \/ Switch
  BY <1>7, CopyIsDisk, WriteReceiptKeeps, WriteFootprintKeeps, SwitchKeeps
<1>8. CASE BeginPurge \/ NextTarget \/ Revoke \/ RecordFailure \/ Erase \/ FinishRecord
  BY <1>8, BeginPurgeKeeps, NextTargetKeeps, RevokeKeeps, EraseKeeps, FinishRecordKeeps
<1> QED BY <1>1, <1>2, <1>3, <1>4, <1>5, <1>6, <1>7, <1>8, Zenon DEF Next, Step
-----------------------------------------------------------------------------
(* The theorems.                                                           *)

LEMMA InitHolds == Init => Databases /\ Disk
<1> SUFFICES ASSUME Init PROVE Databases /\ Disk
  OBVIOUS
<1>1. decided = <<>> /\ epoch = 0
  BY DEF Init, Journal!Init
<1>2. Databases
  BY <1>1 DEF Init, Databases, JournalOK, DatabaseOK, AppliedOK, WrittenOK, ContentStates
<1>3. FirstSelection \in Selections /\ FirstSelection.generation = First
  BY RecoveryAssumption DEF FirstSelection, NoSelection, Selections
<1>4. First \in Copies /\ First \in Generations
  BY RecoveryAssumption DEF Copies
<1>5. FilesOK /\ PurgeOK /\ ActiveOK
  BY <1>3, <1>4 DEF Init, FilesOK, PurgeOK, ActiveOK, None, Recorded
<1>6. SelectionOK
  BY <1>3 DEF Init, SelectionOK
<1>7. CandidateOK /\ CallOK /\ TargetOK
  BY NoJobIsJob DEF Init, CandidateOK, CallOK, TargetOK, Building, Phases
<1> QED BY <1>2, <1>5, <1>6, <1>7 DEF Disk

\* Every step of every call, a failure of it and a crash keep the databases behind the
\* journal and the selected generation out of the calls' way.
THEOREM Invariance == Spec => []Inductive
<1>1. Inductive /\ [Next]_vars => Inductive'
  BY DatabasesKeep, DiskKeeps DEF Inductive
<1>2. Init => Inductive
  BY InitHolds DEF Inductive
<1> QED BY <1>1, <1>2, PTL DEF Spec

\* applyControlIntent, captureSyntheticSnapshot and restoreSyntheticSnapshot: a content a
\* decided intent forgets is not readable while the gate is open, in no generation,
\* whatever snapshot it came from and wherever the process was cut off.
THEOREM ForgettingIsFinal == Spec => []ForgottenStaysForgotten
<1>1. Inductive => ForgottenStaysForgotten
  <2> SUFFICES ASSUME Inductive, Ready,
                      NEW c \in Forgotten(Len(decided)) \cap Contents
               PROVE  content[store][c] \notin Available
    BY DEF ForgottenStaysForgotten
  <2>1. store \in Copies /\ applied[store] = Len(decided)
    BY ReadyIs DEF Inductive
  <2>2. PICK k \in 1..Len(decided) : Forgets(k, c)
    BY DEF Forgotten, Forgets
  <2> QED BY <2>1, <2>2 DEF Inductive, Databases, JournalOK, AppliedOK
<1> QED BY <1>1, Invariance, PTL

\* restoreSyntheticSnapshot and purgeManagedCopies: whatever fails or ends the process,
\* the selection names a complete generation that repeats it and no purge speaks of.
THEOREM SelectionStaysWhole == Spec => []SelectionIsWhole
<1>1. Inductive => SelectionIsWhole
  BY DEF Inductive, Databases, AppliedOK, Disk, ActiveOK, SelectionOK, Selections, Copies,
         SelectionIsWhole
<1> QED BY <1>1, Invariance, PTL

\* purgeManagedCopies and managedCopies: what is reported as purged has no byte left, and
\* no copy loses a byte before the record that refuses its restoration.
THEOREM PurgesAreTrue == Spec => []PurgedMeansGone
<1>1. Inductive => PurgedMeansGone
  <2> SUFFICES ASSUME Inductive PROVE PurgedMeansGone
    OBVIOUS
  <2>1. \A d \in Copies : tree[d] \in {"erased", "empty"} => purge[d] # None
    BY DEF Inductive, Disk, PurgeOK
  <2>2. ASSUME BackupState = "purged", NEW d \in Copies \ {active.generation},
               tree[d] # None
        PROVE  tree[d] = "empty"
    <3>1. d \in Listed
      BY <2>2 DEF Listed
    <3>2. purge[d] \notin {"failed", "pending", None}
      BY <2>2, <3>1 DEF BackupState
    <3>3. purge[d] = "purged"
      BY <3>2 DEF Inductive, Disk, FilesOK, Recorded
    <3> QED BY <3>3 DEF Inductive, Disk, PurgeOK
  <2> QED BY <2>1, <2>2 DEF PurgedMeansGone
<1> QED BY <1>1, Invariance, PTL

=============================================================================
