----------------------------- MODULE MCEdgeLink -----------------------------
(* Instances of EdgeLink for TLC: which executions share an instance. *)
EXTENDS EdgeLinkProps

OwnInstances == [e \in Execs |-> e]
=============================================================================
