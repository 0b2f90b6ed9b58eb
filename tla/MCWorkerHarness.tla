--------------------------- MODULE MCWorkerHarness ---------------------------
(* Two closed systems, one of them in a behaviour: the harness with its workers, and the   *)
(* rows of the task store.  Each keeps its initial state while the other moves; a run says *)
(* which ("Parts") it checks.                                                              *)
EXTENDS WorkerHarness, TaskRows

CONSTANT Parts
VARIABLE part

IsHarness == part = "harness"
IsRows == part = "rows"
MCInit == Init /\ RowsInit /\ part \in Parts
MCNext ==
  \/ IsHarness /\ Next /\ UNCHANGED <<part, rowsVars>>
  \/ IsRows /\ RowsNext /\ UNCHANGED <<part, vars>>
MCFairness ==
  /\ SF_vars(IsHarness /\ RunContinues) /\ SF_vars(IsHarness /\ StreamContinues)
  /\ SF_vars(IsHarness /\ StopContinues) /\ SF_vars(IsHarness /\ LifecycleContinues)
  /\ SF_vars(IsHarness /\ WorkerContinues)
MCSpec == MCInit /\ [][MCNext]_<<part, vars, rowsVars>> /\ MCFairness

\* Where the run looks at the rows: a version beyond the fifth, a snapshot of an execution
\* beyond the third, acknowledgements and messages, but not everything at once.
Few == \A name \in Names : Len(versions[name]) <= 5
Short == \A name \in Names, number \in AttemptNumbers : Len(runs[name][number]) <= 3
Unacknowledged == \A consumer \in Consumers : consumers[consumer] = 0
Bounded == IsRows =>
  /\ Unacknowledged \/ Short
  /\ Few \/ (Unacknowledged /\ Short /\ Messages = 0)
=============================================================================
