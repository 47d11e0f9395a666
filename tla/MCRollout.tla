----------------------------- MODULE MCRollout -----------------------------
(* Instances of Rollout for TLC: rollouts, and the requests that may come. *)
EXTENDS RolloutProps, TLC

CONSTANTS v1, v2, nil
AnyImage == Permutations(Images)

OneWave == [d \in Deploys |-> [i \in Instances |-> 0]]
OneByOne == [d \in Deploys |-> [i \in Instances |-> i]]
Both == [d \in Deploys |-> [i \in Instances |-> IF d = 1 THEN 0 ELSE i]]

Deploy == [targets |-> Instances, digest |-> nil]
PinnedDeploy == [targets |-> Instances, digest |-> v1]
Task == [targets |-> {1}, digest |-> nil]

\* How much goes wrong in one behaviour.
OneMishap == crashes + stops + faults <= 1
TwoMishaps == crashes + stops + faults <= 2

OnlyDeploy == [d \in Deploys |-> {Deploy}]
OnlyPinned == [d \in Deploys |-> {PinnedDeploy}]
TaskFirst == [d \in Deploys |-> IF d = 1 THEN {Deploy, Task} ELSE {Deploy}]
=============================================================================
