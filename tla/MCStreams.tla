------------------------------ MODULE MCStreams ------------------------------
(* Three closed systems that must reach something, one of them in a behaviour,             *)
(* the others keep their initial state or are Off: the recovery journal, a client of the   *)
(* event stream, and a small cognitive store that forgets.                                 *)
EXTENDS MCRecoveryJournal

CONSTANTS MaxEvents, MaxRows, Bodies, Snapshots, Scope
ASSUME StreamAssumption == MaxEvents \in Nat /\ MaxRows \in Nat
VARIABLES
  part,
  outbox, noticed, process, streamFaults, stream, wire, client,
  content, local, stale, file, entity, rests, current, fresh, decided, applied, command,
  gate, call, faults
Stream == INSTANCE EventStream WITH faults <- streamFaults, MaxFaults <- 2
Store == INSTANCE CognitiveStore WITH
  Observations <- {}, MaxVersion <- 1, MaxDecided <- 1, MaxStaged <- 0, MaxRests <- 1, MaxFaults <- 1
streamVars == <<outbox, noticed, process, streamFaults, stream, wire, client>>
storeVars == <<content, local, stale, file, entity, rests, current, fresh, decided, applied, command,
               gate, call, faults>>

Off == "off"
IsJournal == part = "journal"
IsStream == part = "stream"
IsStore == part = "store"
OffStream == outbox = Off /\ noticed = Off /\ process = Off /\ streamFaults = Off /\ stream = Off
  /\ wire = Off /\ client = Off
OffStore == content = Off /\ local = Off /\ stale = Off /\ file = Off /\ entity = Off /\ rests = Off
  /\ current = Off /\ fresh = Off /\ decided = Off /\ applied = Off /\ command = Off /\ gate = Off
  /\ call = Off /\ faults = Off
MCInit ==
  /\ Init
  /\ \/ IsJournal /\ OffStream /\ OffStore
     \/ IsStream /\ Stream!Init /\ OffStore
     \/ IsStore /\ Store!Init /\ OffStream
MCNext ==
  \/ IsJournal /\ Next /\ UNCHANGED <<part, streamVars, storeVars>>
  \/ IsStream /\ Stream!Next /\ UNCHANGED <<part, vars, storeVars>>
  \/ IsStore /\ Store!Next /\ UNCHANGED <<part, vars, streamVars>>
MCFairness ==
  /\ SF_vars(IsJournal /\ Reconcile) /\ SF_vars(IsJournal /\ PublishHead)
  /\ SF_vars(IsJournal /\ StageInstallation) /\ SF_vars(IsJournal /\ RenameInstallation)
  /\ SF_vars(IsJournal /\ Return) /\ WF_vars(IsJournal /\ Fail)
  /\ WF_streamVars(IsStream /\ Stream!Notify) /\ WF_streamVars(IsStream /\ Stream!Pump)
  /\ WF_streamVars(IsStream /\ (Stream!Drain \/ Stream!SlowConsumer))
  /\ WF_storeVars(IsStore /\ Store!Open) /\ WF_storeVars(IsStore /\ Store!Apply)
  /\ WF_storeVars(IsStore /\ Store!DecideForget) /\ WF_storeVars(IsStore /\ Store!FinishForget)
MCSpec == MCInit /\ [][MCNext]_<<part, vars, streamVars, storeVars>> /\ MCFairness

\* EventStream's: a client with a cursor knows the outbox at that cursor.
SeesEveryEvent == IsStream => Stream!SeesEveryEvent
\* EventStream's: a stream is written all the rows of the outbox, or ends.
StreamCatchesUp == []<>(IsStream => ~stream.open \/ stream.after = Stream!Watermark)
\* CognitiveStore's: a prepared memory.forget completes, through any crash but one within
\* a line of the journal.
ForgetCompletes == \A v \in Store!Versions :
  (IsStore /\ command = v) ~>
    (IsStore /\ \/ command = 0 /\ entity[v] = "FORGOTTEN" /\ gate = "open"
                \/ gate = "broken")
=============================================================================
