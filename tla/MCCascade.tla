----------------------------- MODULE MCCascade -----------------------------
(* Runs of the orchestrator in different minutes, as the schedule queues   *)
(* them.                                                                   *)
EXTENDS Cascade

MCSeed == [r \in 1 .. MaxRuns |-> r]
=============================================================================
