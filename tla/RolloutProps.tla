---------------------------- MODULE RolloutProps ----------------------------
(***************************************************************************)
(* What Rollout is checked for: safety, liveness, the refinement of        *)
(* DeployLane, and claims of the documentation that the code breaks.       *)
(***************************************************************************)
EXTENDS Rollout

-----------------------------------------------------------------------------
(* Safety                                                                   *)

\* Strict per-service serialization: the executors of two deploys of the
\* service are never at work at the same time (scheduler.go package comment).
AtWork(d) == \E i \in Instances : worker[d][i].pc \in {"acquire", "execute"}
OneRollout == \A d, e \in Deploys : AtWork(d) /\ AtWork(e) => d = e

\* Notify fires at most once for a deploy, whichever of the many recomputes
\* of its executions and waves comes last (deploys.go:224-231).
NotifyOnce == \A d \in Deploys : notified[d] <= 1

\* A deploy with finished_at holds no execution that can still move (no
\* follower is told Done while an instance is queued or running,
\* deploys.go:238-242), and reads succeeded only if the executor of every
\* instance said so.
FinishIsTrue ==
  /\ \A d \in Deploys : finished[d] => \A i \in Targets(d) : Terminal(exec[d][i])
  /\ \A d \in Deploys : dstatus[d] = "succeeded" => \A i \in Targets(d) : answer[d][i] = "ok"

\* No pipeline is handed to an executor twice, whatever crashes, restarts and
\* recoveries happen: a migration in it never runs twice.
LaunchedOnce == \A d \in Deploys, i \in Instances : launched[d][i] <= 1

\* An execution is started only after the executors of all earlier waves
\* reported success (PRD: wave gating).
WaveGate ==
  \A d \in Deploys : \A i, j \in Targets(d) :
    WaveOf[d][i] < WaveOf[d][j] /\ launched[d][j] > 0 => answer[d][i] = "ok"

\* Every instance of a rollout that pins an image pins the same one.
OneImage ==
  \A d \in Deploys : \A i, j \in Instances :
    pinned[d][i] # NoImage /\ pinned[d][j] # NoImage => pinned[d][i] = pinned[d][j]

\* While main serves, a deploy that is not finished is in somebody's hands:
\* its handler's, the pending slot's or a loop's.  Only a deploy whose
\* executions had all settled when main died may be left out, and any whose
\* statements fail.
Owned(d) == \/ handler[d] \in {"stored", "superseding"}
            \/ pending = d
            \/ run[d].pc # "off"
NoOrphan ==
  proc \in {"wiring", "up"} /\ faults = 0 =>
    \A d \in Deploys : dstatus[d] # NoRow /\ ~finished[d] /\ Unsettled(d) => Owned(d)

\* A settled execution never changes again (it may be deleted by retention).
SettledStays ==
  \A d \in Deploys, i \in Instances :
    Terminal(exec[d][i]) => exec'[d][i] \in {exec[d][i], NoRow}
ExecutionsFinal == [][SettledStays]_exec

\* A rollout that started never reads queued again: recovery would take it
\* for one that never ran.
NeverRequeued ==
  [][\A d \in Deploys :
       dstatus[d] \notin {"queued", NoRow} => dstatus'[d] # "queued"]_dstatus

-----------------------------------------------------------------------------
(* The inductive invariant behind the safety theorems                       *)

On(d) == run[d].pc # "off"

\* svcState.busy guards the loop: one deploy at most is in it, its workers
\* live only while it waits for them, and nothing runs before Recover ends.
SlotInv ==
  /\ \A d, e \in Deploys : On(d) /\ On(e) => d = e
  /\ \A d \in Deploys : On(d) => busy
  /\ \A d \in Deploys, i \in Instances :
       worker[d][i].pc # "off" => run[d].pc \in {"first", "join"}
  /\ proc \in {"down", "recovering"} => ~busy

\* Before CreateDeploy nobody knows the deploy.
Unborn(d) == handler[d] \in {"none", "built"}
Untouched(d) ==
  /\ dstatus[d] = NoRow /\ ~finished[d] /\ ~On(d) /\ pending # d
  /\ d \notin recov.ids /\ d \notin recov.todo /\ recov.half # d /\ recov.latest # d
  /\ \A p \in Members : rc[d][p].pc = "idle"
  /\ \A i \in Instances : exec[d][i] = NoRow /\ launched[d][i] = 0
BornInv == \A d \in Deploys : Unborn(d) => Untouched(d)

\* Whoever wins the compare-and-set on finished_at is the only one to notify.
NotifyInv ==
  \A d \in Deploys :
    /\ notified[d] > 0 => finished[d] /\ notified[d] = 1
    /\ \A p, q \in Members : rc[d][p].pc = "notify" =>
         /\ finished[d] /\ notified[d] = 0
         /\ rc[d][q].pc = "notify" => p = q

\* What was launched left the states from which it could be launched.
LaunchInv ==
  \A d \in Deploys, i \in Instances : launched[d][i] > 0 =>
    launched[d][i] = 1 /\ exec[d][i] \notin {"queued", "dispatching"}

\* The four parts together are preserved by every step.
SafetyInv == SlotInv /\ BornInv /\ NotifyInv /\ LaunchInv

-----------------------------------------------------------------------------
(* Waves, hand-overs, rows and recovery: the invariants behind the rest     *)

Passed(d, i) == WaveOf[d][i] \notin run[d].waves
Clear(d, i) == \A k \in Targets(d) : WaveOf[d][k] < WaveOf[d][i] => answer[d][k] = "ok"
Admitted(d, i) == i \in Targets(d) /\ Passed(d, i) /\ Clear(d, i)

\* What an executor answered stands, and a worker was let in by the answers of
\* all earlier waves.
ReportedOf(d) ==
  \A i \in Instances :
    /\ launched[d][i] = 0 => answer[d][i] = "none"
    /\ launched[d][i] > 0 /\ i \in Targets(d) => Clear(d, i)
AnswerOf(d) ==
  \A i \in Instances :
    /\ worker[d][i].pc = "execute" => launched[d][i] > 0 /\ answer[d][i] = "none"
    /\ worker[d][i].pc = "done" /\ worker[d][i].ok => answer[d][i] = "ok"
    /\ worker[d][i].pc # "off" => Admitted(d, i)

\* Unless the rollout failed or main is stopping, whoever is behind the current
\* wave succeeded, and whoever is in it may be launched.
GateOf(d) ==
  /\ run[d].pc \in {"first", "join"} => ~run[d].failed
  /\ run[d].pc = "sweep" => Gated(d)
  /\ run[d].pc = "first" =>
       \A i, j \in Instances : worker[d][i].pc # "off" /\ worker[d][j].pc # "off" => i = j
  /\ run[d].pc \in {"first", "fan"} /\ ~run[d].failed => \A i \in run[d].todo : Admitted(d, i)
  /\ run[d].pc \in {"wave", "first", "fan", "join"} /\ ~Gated(d) =>
       \A i \in Targets(d) : Passed(d, i) =>
         \/ answer[d][i] = "ok" \/ worker[d][i].pc # "off"
         \/ run[d].pc \in {"first", "fan"} /\ i \in run[d].todo
GateInv == \A d \in Deploys : ReportedOf(d) /\ AnswerOf(d) /\ GateOf(d)

\* A deploy is handed from its handler to the pending slot to the loop, and
\* before the loop has it nothing of it moves; the one that is being superseded
\* has settled.
Fresh(d) == dstatus[d] = "queued" /\ ~InFlight(d) /\ ~On(d)
HandInv ==
  /\ \A d \in Deploys : On(d) => handler[d] = "done" /\ pending # d
  /\ \A d \in Deploys : handler[d] \in {"stored", "superseding"} => Fresh(d) /\ pending # d
  /\ pending # None => handler[pending] = "done" /\ Fresh(pending)
  /\ \A d, e \in Deploys : handler[d] = "superseding" =>
       /\ pending # None /\ ~Unsettled(pending)
       /\ handler[e] = "superseding" => d = e
  /\ proc \in {"down", "recovering", "wiring"} =>
       pending = None /\ \A d \in Deploys : handler[d] \in {"none", "done"}

\* A recompute belongs to a rollout that still has its rows, and what it has
\* read stays true until it writes.
AllSucceeded(d) == \A i \in Targets(d) : exec[d][i] = "succeeded"
Moved(d) == \E i \in Targets(d) : exec[d][i] # "queued"
LoopOf(d) ==
  /\ run[d].pc = "load" => dstatus[d] = "queued"
  /\ run[d].pc \notin {"off", "load", "next"} => Targets(d) # {}
  /\ rc[d][Loop].pc # "idle" => run[d].pc \in {"wave", "clean"}
  /\ \A i \in Instances : rc[d][i].pc # "idle" =>
       worker[d][i].pc # "off" /\ exec[d][i] # "queued"
ReadOf(d, p) ==
  rc[d][p].pc = "write" =>
    /\ rc[d][p].over => ~Unsettled(d)
    /\ rc[d][p].agg = "succeeded" => AllSucceeded(d)
    /\ rc[d][p].agg = "queued" => p = Loop /\ dstatus[d] = "queued"
    /\ rc[d][p].agg # "queued" => Moved(d)

\* What the rows of a deploy say of its executions.
RowOf(d) ==
  /\ dstatus[d] = NoRow => Targets(d) = {}
  /\ finished[d] => ~Unsettled(d)
  /\ dstatus[d] = "succeeded" => AllSucceeded(d)
  /\ dstatus[d] \notin {"queued", NoRow} /\ Targets(d) # {} => Moved(d)
  /\ \A i \in Instances : exec[d][i] = "succeeded" => answer[d][i] = "ok"
LoopInv == \A d \in Deploys : LoopOf(d) /\ \A p \in Members : ReadOf(d, p)
RowInv == \A d \in Deploys : RowOf(d)

\* How far Recover is: what is in flight or half done is still to be closed,
\* then nothing is in flight, and what has not settled is on its list.
Hanging(d) == dstatus[d] # NoRow /\ ~finished[d] /\ Unsettled(d)
ClosingInv ==
  /\ \A d \in Deploys : InFlight(d) => d \in recov.todo /\ d # recov.half
  /\ \A d \in recov.ids : Targets(d) # {} /\ (d \notin recov.todo => ~Unsettled(d))
  /\ \A d \in Deploys \ recov.todo : Hanging(d) => dstatus[d] = "queued"
  /\ recov.half \in recov.todo \cup {None}
RecomputingInv ==
  /\ recov.half = None
  /\ \A d \in Deploys : ~InFlight(d) /\ (Hanging(d) => dstatus[d] = "queued")
  /\ \A d \in recov.todo : Targets(d) # {} /\ ~Unsettled(d)
SupersedingInv ==
  /\ \A d \in Deploys : ~InFlight(d) /\ (Hanging(d) => d \in recov.todo \cup {recov.latest})
  /\ recov.half # None => recov.half \in recov.todo /\ ~Unsettled(recov.half)
  /\ recov.latest # None => dstatus[recov.latest] = "queued" /\ recov.latest \notin recov.todo
RecovInv ==
  /\ RecovAt("select") => recov.half = None
  /\ RecovAt("close") => ClosingInv
  /\ RecovAt("recompute") => RecomputingInv
  /\ RecovAt("supersede") => SupersedingInv

\* While no statement fails, an execution in flight has a worker that drives it,
\* what the loop has left behind has settled, and no deploy is orphaned.
TrackInv ==
  \A d \in Deploys, i \in Instances :
    /\ worker[d][i].pc = "acquire" => exec[d][i] = "dispatching"
    /\ worker[d][i].pc = "execute" => exec[d][i] = "running"
    /\ faults = 0 /\ proc \notin {"down", "recovering"} =>
         /\ exec[d][i] = "dispatching" => worker[d][i].pc = "acquire"
         /\ exec[d][i] = "running" => worker[d][i].pc = "execute"
         /\ worker[d][i].pc = "done" => Terminal(exec[d][i])
LeftInv ==
  faults = 0 => \A d \in Deploys :
    /\ run[d].pc \in {"clean", "next"} => ~Unsettled(d)
    /\ run[d].pc \in {"wave", "first", "fan", "join", "sweep"} =>
         \A i \in Targets(d) : Passed(d, i) =>
           Terminal(exec[d][i]) \/ worker[d][i].pc # "off" \/ i \in run[d].todo
    /\ \A i \in run[d].todo : worker[d][i].pc = "off"
    /\ run[d].pc \in {"wave", "join"} => run[d].todo = {}

\* The instance that resolves the image: the first of the first wave.
Leads(d, i, S) ==
  /\ i \in S
  /\ \A j \in S : WaveOf[d][i] <= WaveOf[d][j]
  /\ \A j \in S : WaveOf[d][i] = WaveOf[d][j] => i <= j
LeadsPin ==
  \A d \in Deploys : \A t \in Triggers[d] : t.digest = NoImage =>
    \A i \in t.targets : Leads(d, i, t.targets) => i \in Pinners
Lead(d, i) == Leads(d, i, Targets(d))
Pins(d, v) == \A i \in Instances : pinned[d][i] \in {NoImage, v}
Pinned(d) == \E i \in Instances : pinned[d][i] # NoImage

\* If the lead pins, nobody pins before it has and all others pin what it did;
\* after a crash that forgot it, the lead is never launched again, which gates
\* the rest.
PinnedOf(d) ==
  /\ \A i \in Instances : launched[d][i] = 0 => pinned[d][i] = NoImage
  /\ \E v \in Digests : Pins(d, v)
  /\ IF digest[d] # NoImage THEN Pins(d, digest[d])
     ELSE \A i \in Instances : Lead(d, i) => i \in Pinners /\ (Pinned(d) => launched[d][i] > 0)
PromotedOf(d) ==
  run[d].pc \notin {"off", "load", "next"} =>
    IF run[d].digest # NoImage
      THEN /\ Pins(d, run[d].digest) /\ digest[d] \in {NoImage, run[d].digest}
           /\ digest[d] = NoImage => \A i \in Instances : Lead(d, i) => launched[d][i] > 0
      ELSE /\ digest[d] = NoImage
           /\ run[d].pc = "wave" /\ ~Gated(d) =>
                run[d].waves = {WaveOf[d][i] : i \in Targets(d)}
           /\ run[d].pc = "fan" => run[d].failed
           /\ run[d].pc # "join"
ResolvedOf(d) ==
  \A i \in Instances : worker[d][i].pc # "off" =>
    /\ worker[d][i].digest # NoImage => launched[d][i] > 0
    /\ run[d].pc = "join" => worker[d][i].digest \in {NoImage, run[d].digest}
    /\ run[d].pc = "first" =>
         /\ run[d].digest = NoImage /\ Lead(d, i)
         /\ worker[d][i].pc = "execute" => ~Pinned(d)
         /\ worker[d][i].digest # NoImage => Pins(d, worker[d][i].digest)
         /\ worker[d][i].ok => worker[d][i].digest # NoImage
ImageInv == \A d \in Deploys : PinnedOf(d) /\ PromotedOf(d) /\ ResolvedOf(d)

-----------------------------------------------------------------------------
(* Claims of the documentation that the code does not keep                  *)

\* "Terminal reports whether no further transition can happen from s"
\* (model.go:28): a deploy with finished_at reads a terminal status.
FinishedReadsTerminal ==
  \A d \in Deploys : finished[d] /\ dstatus[d] # NoRow => Terminal(dstatus[d])

\* "RecoverInFlight closes out every rollout the previous process left
\* unfinished" (deploys.go:306): once main serves, every deploy that is not
\* finished is in somebody's hands.
RecoveryClosesAll ==
  proc = "up" => \A d \in Deploys : dstatus[d] # NoRow /\ ~finished[d] => Owned(d)

-----------------------------------------------------------------------------
(* Liveness, and what the service promises                                  *)

\* Requests need not arrive and main need not stop or crash, but goroutines
\* run on: Acquire and Execute are bounded by their timeouts.
HandlerGoesOn(d) == handler[d] # "none" /\ Handler(d)
Fairness ==
  /\ \A d \in Deploys : WF_vars(HandlerGoesOn(d)) /\ WF_vars(LoopStep(d))
  /\ \A d \in Deploys, i \in Instances : WF_vars(WorkerStep(d, i))
  /\ \A d \in Deploys, p \in Members : WF_vars(RecomputeStep(d, p))
  /\ WF_vars(Recovery) /\ WF_vars(Wire) /\ WF_vars(Start) /\ WF_vars(Exit)

FairSpec == Spec /\ Fairness

\* Every deploy whose row was written finishes in the end, across graceful
\* restarts of main, even if its handler dies between CreateDeploy and
\* Enqueue, unless a statement fails.
EveryDeployFinishes ==
  \A d \in Deploys : (dstatus[d] # NoRow) ~> (finished[d] \/ faults > 0)

\* What an observer of the executions sees of a deploy.
Ended(d) == finished[d] \/ (Targets(d) # {} /\ ~Unsettled(d))
Life(d) ==
  IF Ended(d) THEN "ended"
  ELSE IF dstatus[d] = NoRow THEN "absent"
  ELSE IF \A i \in Targets(d) : exec[d][i] = "queued" THEN "waiting" ELSE "active"

Lane == INSTANCE DeployLane WITH life <- [d \in Deploys |-> Life(d)], closing <- RootDone
\* Until something fails, the service does what DeployLane says.
Smooth == faults = 0 /\ crashes = 0
KeepsLane == Lane!Init /\ [][Smooth' => Lane!Next]_(Lane!vars)

-----------------------------------------------------------------------------
(* What the refinement rests on                                             *)

\* A deploy nobody has begun; what is written of a deploy fits its rows.
Untried(d) == Targets(d) # {} /\ \A i \in Targets(d) : exec[d][i] = "queued"
StoredOf(d) ==
  /\ dstatus[d] # NoRow => Targets(d) # {} \/ finished[d]
  /\ finished[d] => dstatus[d] # "queued"
  /\ \A p \in Members : rc[d][p].pc = "write" /\ rc[d][p].over => Terminal(rc[d][p].agg)
  /\ handler[d] \in {"stored", "superseding"} => Untried(d)

\* Unless something failed, what the loop does not have has not begun or is
\* over, and says so, but for one that is being superseded.
GivingUp(d) == (Locked /\ pending = d) \/ (RecovAt("supersede") /\ recov.half = d)
WaitsOf(d) ==
  run[d].pc = "off" =>
    /\ Targets(d) = {} \/ Untried(d) \/ ~Unsettled(d)
    /\ dstatus[d] = "queued" => Untried(d) \/ GivingUp(d)
    /\ Terminal(dstatus[d]) => finished[d]

\* What the loop has it took untouched and leaves finished, and it cancels
\* nothing of a rollout that has not begun unless main stops.
TakenOf(d) ==
  /\ run[d].pc # "off" => \A i \in Instances : exec[d][i] # "superseded"
  /\ run[d].pc = "load" => Untried(d)
  /\ run[d].pc \notin {"off", "load", "clean", "next"} /\ run[d].failed => Moved(d)
  /\ run[d].pc = "clean" =>
       /\ rc[d][Loop].pc \in {"idle", "notify"} => finished[d]
       /\ rc[d][Loop].pc = "write" => rc[d][Loop].over
  /\ run[d].pc = "next" => finished[d]

\* Recovery finds nothing to close, and gives up for one it will enqueue.
RestartInv ==
  /\ RecovAt("close") \/ RecovAt("recompute") => recov.ids = {} /\ recov.todo = {}
  /\ RecovAt("supersede") /\ recov.todo # {} => recov.latest # None

LaneInv ==
  /\ Locked => busy
  /\ \A d \in Deploys : StoredOf(d)
  /\ Smooth => RestartInv /\ \A d \in Deploys : WaitsOf(d) /\ TakenOf(d)

=============================================================================
