-------------------------- MODULE ExecutionCustody --------------------------
(***************************************************************************)
(* What the Store promises about the workers of a Session's tasks, without *)
(* its rows and commands: work on a task is exclusive, is begun only under *)
(* the present and authorized owner, once per attempt and in the order of  *)
(* the attempts, is never handed to another owner, and a task at rest      *)
(* (cancelled or paused) has no worker.  TaskSession implements it.        *)
(***************************************************************************)
EXTENDS Integers

CONSTANTS TaskIds, Attempts, Epochs

VARIABLES
  epoch,       \* the owner's epoch
  authorized,  \* has a user authorized work under this owner?
  begun,       \* by task: the attempts whose work was begun
  held,        \* by task: the attempts at work, each with its owner's epoch
  resting      \* by task: cancelled or paused

custody == <<epoch, authorized, begun, held, resting>>

Init ==
  /\ epoch = 1 /\ authorized = TRUE
  /\ begun = [t \in TaskIds |-> {}]
  /\ held = [t \in TaskIds |-> {}]
  /\ resting = [t \in TaskIds |-> FALSE]

Begin(t, k) ==
  /\ authorized /\ held[t] = {} /\ ~resting[t]
  /\ \A j \in begun[t] : j < k
  /\ begun' = [begun EXCEPT ![t] = @ \cup {k}]
  /\ held' = [held EXCEPT ![t] = {<<k, epoch>>}]
  /\ UNCHANGED <<epoch, authorized, resting>>
Release(t) ==
  /\ held[t] # {}
  /\ held' = [held EXCEPT ![t] = {}]
  /\ UNCHANGED <<epoch, authorized, begun, resting>>
Rest(t) ==
  /\ ~resting[t] /\ held[t] = {}
  /\ resting' = [resting EXCEPT ![t] = TRUE]
  /\ UNCHANGED <<epoch, authorized, begun, held>>
\* A user command makes the task workable again, or the session authorized.
Authorize ==
  /\ authorized' = TRUE
  /\ \E t \in TaskIds : resting' = [resting EXCEPT ![t] = FALSE]
  /\ UNCHANGED <<epoch, begun, held>>
Replace ==
  /\ epoch' = epoch + 1 /\ epoch' \in Epochs
  /\ authorized' = FALSE
  /\ UNCHANGED <<begun, held, resting>>

Next ==
  \/ \E t \in TaskIds, k \in Attempts : Begin(t, k)
  \/ \E t \in TaskIds : Release(t) \/ Rest(t)
  \/ Authorize \/ Replace
Spec == Init /\ [][Next]_custody
=============================================================================
