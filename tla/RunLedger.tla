------------------------------ MODULE RunLedger ------------------------------
(***************************************************************************)
(* What the run index promises the rest of the research programme: a run   *)
(* is opened once, ends once, and counts as COMPLETED only when its        *)
(* evidence was sealed before.  Nothing is said of processes or files.     *)
(***************************************************************************)
CONSTANT Runs

VARIABLES
  status,   \* "none", "RUNNING" or how the run ended
  sealed    \* runs whose evidence is complete and read-only

vars == <<status, sealed>>

Init ==
  /\ status = [r \in Runs |-> "none"]
  /\ sealed = {}

Open(r) ==
  /\ status[r] = "none"
  /\ status' = [status EXCEPT ![r] = "RUNNING"]
  /\ UNCHANGED sealed

\* Evidence is sealed while the run is open, or after it was given up on.
Seal(r) ==
  /\ status[r] \notin {"none", "COMPLETED"}
  /\ sealed' = sealed \cup {r}
  /\ UNCHANGED status

Complete(r) ==
  /\ status[r] = "RUNNING"
  /\ r \in sealed
  /\ status' = [status EXCEPT ![r] = "COMPLETED"]
  /\ UNCHANGED sealed

Fail(r) ==
  /\ status[r] = "RUNNING"
  /\ status' = [status EXCEPT ![r] = "FAILED"]
  /\ UNCHANGED sealed

\* One transaction gives up on several runs.
GiveUp(S) ==
  /\ \A r \in S : status[r] = "RUNNING"
  /\ status' = [r \in Runs |-> IF r \in S THEN "INCOMPLETE" ELSE status[r]]
  /\ UNCHANGED sealed

Next ==
  \/ \E r \in Runs : Open(r) \/ Seal(r) \/ Complete(r) \/ Fail(r)
  \/ \E S \in SUBSET Runs : GiveUp(S)

Spec == Init /\ [][Next]_vars
=============================================================================
