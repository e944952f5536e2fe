---------------------------- MODULE RunLifecycle ----------------------------
(***************************************************************************)
(* What the code keeps of the promise of RunStatus (tempest_api/schemas/   *)
(* enums.py) for one run row, with everything that can fail or interleave. *)
(*                                                                         *)
(* The comment there promises more: PENDING, then COMPLETE with a verdict  *)
(* or CANCELLED with none, both final.  Uploads and a failure after the    *)
(* commit of the ingest break that (README, section 4): an upload may      *)
(* complete a run that was cancelled, and an error may replace a verdict.  *)
(* What is left, and stated here: a run that was cancelled never gets the  *)
(* verdict of its own prove nor its error, a run that has either is never  *)
(* cancelled, an error is never replaced by the prove's verdict, and only  *)
(* a complete run is pruned, for good.                                     *)
(***************************************************************************)
CONSTANT NoVerdict  \* runs.verdict is NULL

VARIABLES status, verdict

Init == status = "absent" /\ verdict = NoVerdict

Open == status = "absent" /\ status' = "PENDING" /\ verdict' = verdict

Live == status \in {"PENDING", "COMPLETE"}
Unclaimed == verdict \in {NoVerdict, "uploaded"}

\* The ingest of the run's own prove.
Prove == Live /\ Unclaimed /\ status' = "COMPLETE" /\ verdict' = "proved"

\* The ingest of a bundle that somebody uploads into the run.
Upload == (Live \/ status = "CANCELLED") /\ status' = "COMPLETE" /\ verdict' = "uploaded"

Fail == Live /\ status' = "COMPLETE" /\ verdict' = "ERROR"

Cancel == Live /\ Unclaimed /\ status' = "CANCELLED" /\ verdict' = verdict

Prune == status = "COMPLETE" /\ status' = "gone" /\ verdict' = NoVerdict

Next == Open \/ Prove \/ Upload \/ Fail \/ Cancel \/ Prune

Spec == Init /\ [][Next]_<<status, verdict>>
=============================================================================
