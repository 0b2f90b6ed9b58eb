-------------------------- MODULE MCRecoveryJournal --------------------------
(* RecoveryJournal on small instances: three operations, each submitted as a forget or as *)
(* a restore from either epoch, so that the same operation may come back as another intent. *)
EXTENDS RecoveryJournal

MCIntents == [operation : {"o1", "o2", "o3"}, restore : {FALSE}, expected : {0}]
        \cup [operation : {"o1", "o2", "o3"}, restore : {TRUE}, expected : {0, 1}]
=============================================================================
