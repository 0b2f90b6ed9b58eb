---------------------------- MODULE MCTaskHistory ----------------------------
(* Two closed systems, one of them in a behaviour: one task's history (which keeps its     *)
(* initial state in the other) and the observation ledger.                                 *)
EXTENDS TaskHistory, TLC

CONSTANTS Senders, Events, MaxBatch, Limit
ASSUME LedgerAssumption ==
  /\ MaxBatch \in Nat /\ Limit \in Nat
  /\ \A e \in Events : e.sequence \in Nat
VARIABLES part, rows, sender, reader, faults
Ledger == INSTANCE ObservationLedger WITH MaxFaults <- 1
ledgerVars == <<rows, sender, reader, faults>>

Event(s, n, b) == [stream |-> s, sequence |-> n, body |-> b]
MCEvents == {Event("session", 1, "a"), Event("session", 1, "b"), Event("session", 2, "a"),
             Event("other", 1, "a")}
Symmetric == Permutations(AttemptIds) \cup Permutations(OutcomeIds) \cup Permutations(Contracts)

Off == "off"
IsHistory == part = "history"
IsLedger == part = "ledger"
OffLedger == rows = Off /\ sender = Off /\ reader = Off /\ faults = Off
MCInit ==
  /\ Init
  /\ \/ IsHistory /\ OffLedger
     \/ IsLedger /\ Ledger!Init
MCNext ==
  \/ IsHistory /\ Next /\ UNCHANGED <<part, ledgerVars>>
  \/ IsLedger /\ Ledger!Next /\ UNCHANGED <<part, task>>
MCSpec == MCInit /\ [][MCNext]_<<part, task, ledgerVars>>

\* ObservationLedger's: what the ledger accepted or refused stands, and it stays readable.
LedgerStands == IsLedger => Ledger!LedgerStands
\* ObservationLedger's: a reader in pages reads every row of its session once and in order.
ReaderMissesNothing ==
  [](IsLedger => Ledger!ReadsInOrder) /\ [][IsLedger => Ledger!EndIsTheEnd]_ledgerVars
=============================================================================
