---------------------------- MODULE MCControlled ----------------------------
(* The controlled broker and the controlled worker on small instances, one or the other in *)
(* a behaviour: each is a closed system of its own, the other keeps its initial state. *)
EXTENDS ControlledBroker

CONSTANTS BrokerIds, MaxBroker
ASSUME WorkerAssumption == MaxBroker \in Nat
VARIABLES component, supervisor, client, process, directory
Worker == INSTANCE ControlledWorker
worker == <<supervisor, client, process, directory>>

IsBroker == component = "broker"
IsWorker == component = "worker"
MCInit == component \in {"broker", "worker"} /\ Init /\ Worker!Init
MCNext ==
  \/ IsBroker /\ Next /\ UNCHANGED <<component, worker>>
  \/ IsWorker /\ Worker!Next /\ UNCHANGED <<component, vars>>
MCFairness ==
  /\ WF_vars(IsBroker /\ Perform) /\ WF_vars(IsBroker /\ Cleanup)
  /\ WF_worker(IsWorker /\ Worker!Continuations)
  /\ WF_worker(IsWorker /\ Worker!Timers)
MCSpec == MCInit /\ [][MCNext]_<<component, vars, worker>> /\ MCFairness

\* ControlledWorker's: evidence of a close, or of no spawn, is true of the process.
EvidenceIsPhysical == Worker!EvidenceIsPhysical
\* ControlledWorker's: the worker is in custody as WorkerCustody tells.
WorkerCustodyKept == Worker!CustodyKept
\* ControlledWorker's: start and disposal end, whatever the process does.
CallsReturn == Worker!CallsReturn
=============================================================================
