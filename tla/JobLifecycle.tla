---------------------------- MODULE JobLifecycle ----------------------------
(***************************************************************************)
(* What a search job promises to the client that polls it, and nothing     *)
(* about how the worker keeps the promise: the job is created once, the    *)
(* set of sources it has reported on only grows, it ends at most once, and *)
(* nothing changes after it has ended.                                     *)
(*                                                                         *)
(* SearchWorker implements this specification (SearchWorker!Lifecycle),    *)
(* and every job of JobCreation does, as far as its creation goes          *)
(* (JobCreation_proofs!JobsLiveOnce).                                      *)
(***************************************************************************)
CONSTANT Sources        \* the connectors a live scan visits

VARIABLES
  status,               \* what GET /search/jobs/{id} says of the job
  scanned               \* the sources the job has reported a timing for

vars == <<status, scanned>>

Outcomes == {"completed", "partial", "failed"}

\* A later report covers at least what an earlier one covered.
Grown == {S \in SUBSET Sources : scanned \subseteq S}

Init ==
  /\ status = "absent"
  /\ scanned = {}

Create ==
  /\ status = "absent"
  /\ status' = "active"
  /\ scanned' = {}

Report ==
  /\ status = "active"
  /\ scanned' \in Grown
  /\ UNCHANGED status

Finish ==
  /\ status = "active"
  /\ status' \in Outcomes
  /\ scanned' \in Grown

Next == Create \/ Report \/ Finish

Spec == Init /\ [][Next]_vars
=============================================================================
