--------------------------- MODULE MCWorkflowRuns ---------------------------
(* Instances of WorkflowRuns for TLC: two runs of one repository; the first *)
(* is run twice, the second is only queued.                                 *)
EXTENDS WorkflowRuns

CONSTANTS web

RepoOfRuns == [r \in Runs |-> web]
Rerun == [r \in Runs |-> IF r = 1 THEN 4 ELSE 1]
=============================================================================
