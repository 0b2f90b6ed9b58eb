---------------------------- MODULE WorkerCustody ----------------------------
(***************************************************************************)
(* What whoever owns a worker may rely on: its process is spawned at most  *)
(* once and never after its disposal was asked for, and evidence of a      *)
(* close is given only of a process that is not running.  An error says    *)
(* nothing of the process.  ControlledWorker implements it.                *)
(***************************************************************************)
VARIABLES
  life,    \* of the process: "none", "running" or "exited"
  asked,   \* was disposal asked for?
  answer   \* to that: "none", "evidence" or "error"

custody == <<life, asked, answer>>

Init == life = "none" /\ asked = FALSE /\ answer = "none"
Spawn == life = "none" /\ ~asked /\ life' = "running" /\ UNCHANGED <<asked, answer>>
Exit == life = "running" /\ life' = "exited" /\ UNCHANGED <<asked, answer>>
Ask == ~asked /\ asked' = TRUE /\ UNCHANGED <<life, answer>>
Answer ==
  /\ asked /\ answer = "none"
  /\ answer' \in IF life = "running" THEN {"error"} ELSE {"evidence", "error"}
  /\ UNCHANGED <<life, asked>>

Next == Spawn \/ Exit \/ Ask \/ Answer
Spec == Init /\ [][Next]_custody
=============================================================================
