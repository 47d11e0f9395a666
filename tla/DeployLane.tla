----------------------------- MODULE DeployLane -----------------------------
(***************************************************************************)
(* What one service promises about its deploys, with everything inside a   *)
(* rollout left out: deploys run strictly one after the other, a waiting   *)
(* one is given up only in favour of another that waits (or because main   *)
(* is shutting down), and what has ended never comes back.                 *)
(***************************************************************************)
CONSTANTS Deploys
VARIABLES life,     \* absent, waiting, active, ended
          closing   \* main is shutting down

vars == <<life, closing>>

Init == life = [d \in Deploys |-> "absent"] /\ closing = FALSE

Become(d, from, to) ==
  /\ life[d] = from
  /\ life' = [life EXCEPT ![d] = to]
  /\ UNCHANGED closing

Arrive(d) == Become(d, "absent", "waiting")
Reject(d) == Become(d, "absent", "ended")
Begin(d) == Become(d, "waiting", "active") /\ \A e \in Deploys : life[e] # "active"
End(d) == Become(d, "active", "ended")
GiveUp(d) ==
  /\ Become(d, "waiting", "ended")
  /\ closing \/ \E e \in Deploys \ {d} : life[e] = "waiting"
Toggle == closing' = ~closing /\ UNCHANGED life

Next ==
  \/ Toggle
  \/ \E d \in Deploys : Arrive(d) \/ Reject(d) \/ Begin(d) \/ End(d) \/ GiveUp(d)

Spec == Init /\ [][Next]_vars
=============================================================================
