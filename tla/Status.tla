------------------------------- MODULE Status -------------------------------
(***************************************************************************)
(* The lifecycle states of a deploy or an execution and the aggregation    *)
(* that derives a deploy's state from its executions (model/model.go).     *)
(* The code aggregates a list; only the set of states in it matters, since *)
(* "all identical" is "the set is a singleton".                            *)
(***************************************************************************)

Statuses == {"queued", "dispatching", "running", "succeeded", "failed",
             "superseded", "unreachable", "canceled"}

TerminalStatuses == {"succeeded", "failed", "superseded", "unreachable", "canceled"}

Terminal(s) == s \in TerminalStatuses

\* The states that make the aggregate of a mixed rollout read failed.
BadStatuses == {"failed", "unreachable", "canceled"}

\* An execution some executor may be working on.
InFlightStatusesMut == Statuses \ {"queued"}
InFlightStatuses == {"dispatching", "running"}

AllTerminal(S) == \A s \in S : Terminal(s)

AggregateStatusQueued(S) ==
  IF "queued" \in S /\ S \cap {"dispatching", "running"} = {} THEN "queued"
  ELSE IF \E s \in S : S = {s} THEN CHOOSE s \in S : TRUE
  ELSE IF S \cap BadStatuses # {} THEN "failed" ELSE "running"

\* The statuses of the executions, as a set, to the status of the deploy.
AggregateStatus(S) ==
  IF S = {} THEN "queued"
  ELSE IF \E s \in S : S = {s} THEN CHOOSE s \in S : TRUE
  ELSE IF S \cap BadStatuses # {} THEN "failed" ELSE "running"
=============================================================================
