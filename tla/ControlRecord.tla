---------------------------- MODULE ControlRecord ----------------------------
(***************************************************************************)
(* What the recovery journal promises its one writer, without its files:   *)
(* intents are decided one at a time, each operation once, restores in the *)
(* order of their epochs; what is decided stays decided; a decision is     *)
(* made and confirmed only while the journal is settled, that is, while    *)
(* nothing decided is still unconfirmed on disk.  RecoveryJournal          *)
(* implements it.                                                          *)
(***************************************************************************)
EXTENDS Naturals, Sequences

CONSTANTS Intents

VARIABLES
  decided,    \* the intents, in the order of their decision
  epoch,      \* the recovery epoch: how many restores were decided
  confirmed,  \* the intents whose caller was told so
  settled     \* may the journal be read as current?

control == <<decided, epoch, confirmed, settled>>

Decided == {decided[k] : k \in 1..Len(decided)}

Init == decided = <<>> /\ epoch = 0 /\ confirmed = {} /\ settled = FALSE

Decide(i) ==
  /\ settled
  /\ \A d \in Decided : d.operation # i.operation
  /\ i.restore => i.expected = epoch
  /\ decided' = Append(decided, i)
  /\ epoch' = epoch + (IF i.restore THEN 1 ELSE 0)
  /\ settled' = FALSE
  /\ UNCHANGED confirmed
\* The files agree again, and with that a caller may learn its answer.
Settle ==
  /\ settled' = TRUE
  /\ \E i \in Decided : confirmed' = confirmed \cup {i}
  /\ UNCHANGED <<decided, epoch>>
Open ==
  /\ ~settled /\ settled' = TRUE
  /\ UNCHANGED <<decided, epoch, confirmed>>
Shut ==
  /\ settled' = FALSE
  /\ UNCHANGED <<decided, epoch, confirmed>>

Next == \/ \E i \in Intents : Decide(i)
        \/ Settle \/ Open \/ Shut
Spec == Init /\ [][Next]_control
=============================================================================
