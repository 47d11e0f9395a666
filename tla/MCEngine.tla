------------------------------ MODULE MCEngine ------------------------------
(* Instances of Engine for TLC: pipelines as services declare them.         *)
EXTENDS Engine

CONSTANTS v1, v2, nil

Plain(op) == [op |-> op, retries |-> Unset, timed |-> FALSE]
Timed(op, n) == [op |-> op, retries |-> n, timed |-> TRUE]

PullBetween == <<Timed("image.pin", 1), Plain("compose.up"), Plain("compose.pull"), Plain("compose.up")>>
FromImage == <<Timed("image.extract", Unset), Plain("run")>>
FromArtifact == <<Timed("artifact.extract", 1)>>

Services == {PullBetween, FromImage, FromArtifact}
=============================================================================
