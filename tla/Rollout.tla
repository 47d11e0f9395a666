------------------------------ MODULE Rollout ------------------------------
(***************************************************************************)
(* One service of hookploy main: the webhook handlers that accept deploys, *)
(* the scheduler that runs them one at a time, and the SQLite rows both    *)
(* write (scheduler/scheduler.go, store/deploys.go, httpapi/webhook.go,    *)
(* cli/cmd_main.go).  Services share nothing but the process, so one is    *)
(* enough.                                                                 *)
(*                                                                         *)
(* The store has a single connection: each SQL statement is one atomic     *)
(* step and goroutines interleave between statements.  A goroutine is a    *)
(* program counter: handler[d] serves the request that creates deploy d,   *)
(* run[d] is the scheduler loop while it runs d, worker[d][i] drives the   *)
(* execution of d on instance i, and rc[d][p] is the recompute that p (the *)
(* loop or a worker) is in the middle of.                                  *)
(***************************************************************************)
EXTENDS Status, Naturals, FiniteSets

CONSTANTS
  Deploys,     \* deploys in order of created_at: 1, 2, ...
  Instances,   \* instances in order of declaration: 1, 2, ...
  WaveOf,      \* the wave of each instance in the rollout a deploy was built from
  Pinners,     \* instances whose pipeline has image.pin (`on:` can drop it)
  Images,      \* digests :latest may resolve to
  NoImage,     \* the empty digest
  Triggers,    \* what the request for a deploy may ask: [targets, digest]
  Keep,        \* RetainPerService
  MaxCrashes, MaxStops, MaxFaults   \* bounds on the environment

None == 0      \* no deploy
Loop == 0      \* the loop, among the goroutines of a rollout
Members == Instances \cup {Loop}
NoRow == "absent"

ASSUME DeploysAssumption == Deploys \subseteq Nat \ {0} /\ IsFiniteSet(Deploys)
ASSUME InstancesAssumption ==
  Instances \subseteq Nat \ {0} /\ IsFiniteSet(Instances) /\ Instances # {}
ASSUME WaveAssumption == WaveOf \in [Deploys -> [Instances -> Nat]]
ASSUME ImageAssumption == NoImage \notin Images /\ Pinners \subseteq Instances
ASSUME TriggerAssumption ==
  Triggers \in [Deploys -> SUBSET [targets : (SUBSET Instances) \ {{}},
                                    digest : Images \cup {NoImage}]]
ASSUME BoundAssumption ==
  Keep \in Nat /\ MaxCrashes \in Nat /\ MaxStops \in Nat /\ MaxFaults \in Nat

VARIABLES
  dstatus,   \* deploys.status, NoRow when there is no such row
  finished,  \* deploys.finished_at IS NOT NULL
  digest,    \* deploys.digest
  exec,      \* executions.status, NoRow for an instance the deploy leaves out
  proc,      \* where the main process is: down, recovering, wiring, up, stopping
  recov,     \* where Scheduler.Recover is
  wired,     \* Scheduler.Notify is set
  handler,   \* the webhook handler of each deploy
  busy, pending,   \* svcState
  run, worker, rc, \* goroutines of a rollout
  launched,  \* history: how often an execution was handed to its executor
  answer,    \* history: what the executor answered
  pinned,    \* history: the digest an execution pinned
  notified,  \* history: how often Notify was called for a deploy
  crashes, stops, faults

db      == <<dstatus, finished, digest, exec>>
rollout == <<run, worker, rc>>
history == <<launched, answer, pinned, notified>>
bounds  == <<crashes, stops, faults>>
vars == <<db, proc, recov, wired, handler, busy, pending, rollout, history, bounds>>

-----------------------------------------------------------------------------
(* Data                                                                     *)

Digests == Images \cup {NoImage}

RunPcs == {"off", "load", "wave", "first", "fan", "join", "sweep", "clean", "next"}
Runs == [pc : RunPcs, waves : SUBSET Nat, todo : SUBSET Instances,
         digest : Digests, failed : BOOLEAN]
NoRun == [pc |-> "off", waves |-> {}, todo |-> {}, digest |-> NoImage, failed |-> FALSE]

WorkerPcs == {"off", "start", "acquire", "execute", "done"}
Workers == [pc : WorkerPcs, ok : BOOLEAN, digest : Digests]
NoWorker == [pc |-> "off", ok |-> FALSE, digest |-> NoImage]
Spawned == [NoWorker EXCEPT !.pc = "start"]

RecomputePcs == {"idle", "read", "write", "notify"}
Recomputes == [pc : RecomputePcs, agg : Statuses, over : BOOLEAN]
NoRecompute == [pc |-> "idle", agg |-> "queued", over |-> FALSE]
Recompute == [NoRecompute EXCEPT !.pc = "read"]

RecovPcs == {"off", "select", "close", "recompute", "supersede"}
Recoveries == [pc : RecovPcs, ids : SUBSET Deploys, todo : SUBSET Deploys,
               half : Deploys \cup {None}, latest : Deploys \cup {None}]
NoRecovery == [pc |-> "off", ids |-> {}, todo |-> {}, half |-> None, latest |-> None]

HandlerPcs == {"none", "built", "stored", "superseding", "done"}

First(x, S) == x \in S /\ \A y \in S : x <= y
Last(x, S) == x \in S /\ \A y \in S : y <= x

Targets(d) == {i \in Instances : exec[d][i] # NoRow}
ExecStatuses(d) == {exec[d][i] : i \in Targets(d)}

RowsOK ==
  /\ dstatus \in [Deploys -> Statuses \cup {NoRow}]
  /\ finished \in [Deploys -> BOOLEAN]
  /\ digest \in [Deploys -> Digests]
  /\ exec \in [Deploys -> [Instances -> Statuses \cup {NoRow}]]

ProcessOK ==
  /\ proc \in {"down", "recovering", "wiring", "up", "stopping"}
  /\ recov \in Recoveries
  /\ wired \in BOOLEAN
  /\ handler \in [Deploys -> HandlerPcs]
  /\ busy \in BOOLEAN
  /\ pending \in Deploys \cup {None}
  /\ crashes \in Nat /\ stops \in Nat /\ faults \in Nat

RolloutOK ==
  /\ run \in [Deploys -> Runs]
  /\ worker \in [Deploys -> [Instances -> Workers]]
  /\ rc \in [Deploys -> [Members -> Recomputes]]

HistoryOK ==
  /\ launched \in [Deploys -> [Instances -> Nat]]
  /\ answer \in [Deploys -> [Instances -> {"none", "ok", "failed"}]]
  /\ pinned \in [Deploys -> [Instances -> Digests]]
  /\ notified \in [Deploys -> Nat]

\* The rows, the process's variables, the goroutines and the history keep
\* their types.
TypeOK == RowsOK /\ ProcessOK /\ RolloutOK /\ HistoryOK

NoGoroutines ==
  /\ run = [d \in Deploys |-> NoRun]
  /\ worker = [d \in Deploys |-> [i \in Instances |-> NoWorker]]
  /\ rc = [d \in Deploys |-> [p \in Members |-> NoRecompute]]

Init ==
  /\ dstatus = [d \in Deploys |-> NoRow]
  /\ finished = [d \in Deploys |-> FALSE]
  /\ digest = [d \in Deploys |-> NoImage]
  /\ exec = [d \in Deploys |-> [i \in Instances |-> NoRow]]
  /\ proc = "down" /\ recov = NoRecovery /\ wired = FALSE
  /\ handler = [d \in Deploys |-> "none"]
  /\ busy = FALSE /\ pending = None
  /\ NoGoroutines
  /\ launched = [d \in Deploys |-> [i \in Instances |-> 0]]
  /\ answer = [d \in Deploys |-> [i \in Instances |-> "none"]]
  /\ pinned = [d \in Deploys |-> [i \in Instances |-> NoImage]]
  /\ notified = [d \in Deploys |-> 0]
  /\ crashes = 0 /\ stops = 0 /\ faults = 0

-----------------------------------------------------------------------------
(* SQL statements of the store                                              *)

\* TransitionExecution only wins if the row is still in the `from` status.
StillIn(d, i, from) == exec[d][i] = from

\* Scheduler.transition: the guarded UPDATE and, if it won, the recompute by
\* the worker of i, which runs to its end before the worker goes on.
Transition(d, i, from, to) ==
  IF StillIn(d, i, from)
    THEN /\ exec' = [exec EXCEPT ![d][i] = to]
         /\ rc' = [rc EXCEPT ![d][i] = Recompute]
    ELSE UNCHANGED <<exec, rc>>

\* UPDATE executions SET status = to WHERE deploy_id = d AND status IN from.
Sweep(d, from, to) ==
  exec' = [exec EXCEPT ![d] =
             [i \in Instances |-> IF exec[d][i] \in from THEN to ELSE exec[d][i]]]

\* A rollout is over when the aggregate is terminal and every execution is.
IsOverMut(S) == Terminal(AggregateStatus(S))
IsOver(S) == Terminal(AggregateStatus(S)) /\ AllTerminal(S)

\* The terminal UPDATE is a compare-and-set on finished_at.
CanFinishMut(d) == TRUE
CanFinish(d) == ~finished[d]

WriteDeploy(d, agg, over) ==
  IF over
    THEN IF CanFinish(d)
           THEN /\ dstatus' = [dstatus EXCEPT ![d] = agg]
                /\ finished' = [finished EXCEPT ![d] = TRUE]
           ELSE UNCHANGED <<dstatus, finished>>
    ELSE dstatus' = [dstatus EXCEPT ![d] = agg] /\ UNCHANGED finished

\* The second UPDATE of MarkDeploySuperseded.
SupersedeRow(d) ==
  IF dstatus[d] = "queued"
    THEN /\ dstatus' = [dstatus EXCEPT ![d] = "superseded"]
         /\ finished' = [finished EXCEPT ![d] = TRUE]
    ELSE UNCHANGED <<dstatus, finished>>

Newer(d) == {e \in Deploys : dstatus[e] # NoRow /\ e > d}
Expired == {d \in Deploys : Terminal(dstatus[d]) /\ Cardinality(Newer(d)) >= Keep}

-----------------------------------------------------------------------------
(* The webhook handler (httpapi/webhook.go enqueue)                         *)

Serving == proc \in {"up", "stopping"}     \* httpServer.Shutdown may time out
Locked == \E d \in Deploys : handler[d] = "superseding"   \* Scheduler.mu
Fault == faults < MaxFaults /\ faults' = faults + 1       \* a statement fails

\* BuildDeploy stamps created_at: deploys are numbered in that order.
Build(d) ==
  /\ proc = "up" /\ handler[d] = "none"
  /\ \A e \in Deploys : e < d => handler[e] # "none"
  /\ handler' = [handler EXCEPT ![d] = "built"]
  /\ UNCHANGED <<db, proc, recov, wired, busy, pending, rollout, history, bounds>>

\* BuildDeploy fails: the deploy is created failed, and notified right away.
CreateBroken(d) ==
  /\ Serving /\ handler[d] = "built"
  /\ handler' = [handler EXCEPT ![d] = "done"]
  /\ dstatus' = [dstatus EXCEPT ![d] = "failed"]
  /\ finished' = [finished EXCEPT ![d] = TRUE]
  /\ notified' = [notified EXCEPT ![d] = @ + 1]
  /\ UNCHANGED <<digest, exec, proc, recov, wired, busy, pending, rollout,
                 launched, answer, pinned, bounds>>

Create(d) ==
  /\ Serving /\ handler[d] = "built"
  /\ handler' = [handler EXCEPT ![d] = "stored"]
  /\ \E t \in Triggers[d] :
       /\ dstatus' = [dstatus EXCEPT ![d] = "queued"]
       /\ digest' = [digest EXCEPT ![d] = t.digest]
       /\ exec' = [exec EXCEPT ![d] =
                     [i \in Instances |-> IF i \in t.targets THEN "queued" ELSE NoRow]]
  /\ UNCHANGED <<finished, proc, recov, wired, busy, pending, rollout, history, bounds>>

CreateFails(d) ==
  /\ Serving /\ handler[d] = "built" /\ Fault
  /\ handler' = [handler EXCEPT ![d] = "done"]
  /\ UNCHANGED <<db, proc, recov, wired, busy, pending, rollout, history, crashes, stops>>

\* A loop that will run d starts.
StartLoop(d) ==
  /\ busy' = TRUE
  /\ run' = [run EXCEPT ![d] = [NoRun EXCEPT !.pc = "load"]]

ServiceFreeMut == TRUE
ServiceFree == ~busy

\* Enqueue, service idle.
EnqueueFree(d) ==
  /\ Serving /\ handler[d] = "stored" /\ ~Locked /\ ServiceFree
  /\ handler' = [handler EXCEPT ![d] = "done"]
  /\ StartLoop(d)
  /\ UNCHANGED <<db, proc, recov, wired, pending, worker, rc, history, bounds>>

\* Enqueue, service busy, nobody waiting.
EnqueueWait(d) ==
  /\ Serving /\ handler[d] = "stored" /\ ~Locked /\ ~ServiceFree /\ pending = None
  /\ handler' = [handler EXCEPT ![d] = "done"]
  /\ pending' = d
  /\ UNCHANGED <<db, proc, recov, wired, busy, rollout, history, bounds>>

\* Enqueue, service busy, another deploy waiting: it is superseded in two
\* statements, with the mutex held.
EnqueueReplace(d) ==
  /\ Serving /\ handler[d] = "stored" /\ ~Locked /\ ~ServiceFree /\ pending # None
  /\ handler' = [handler EXCEPT ![d] = "superseding"]
  /\ Sweep(pending, {"queued"}, "superseded")
  /\ UNCHANGED <<dstatus, finished, digest, proc, recov, wired, busy, pending,
                 rollout, history, bounds>>

EnqueueReplaced(d) ==
  /\ Serving /\ handler[d] = "superseding"
  /\ handler' = [handler EXCEPT ![d] = "done"]
  /\ SupersedeRow(pending)
  /\ pending' = d
  /\ UNCHANGED <<digest, exec, proc, recov, wired, busy, rollout, history, bounds>>

\* Either statement fails: the error is ignored and d takes the slot.
ReplaceFails(d) ==
  /\ Serving /\ Fault
  /\ \/ handler[d] = "stored" /\ ~Locked /\ ~ServiceFree /\ pending # None
     \/ handler[d] = "superseding"
  /\ handler' = [handler EXCEPT ![d] = "done"]
  /\ pending' = d
  /\ UNCHANGED <<db, proc, recov, wired, busy, rollout, history, crashes, stops>>

\* A webhook, a manual deploy or a task: they differ in what they ask for
\* (Triggers), and one that is refused leaves no trace.
Handler(d) ==
  \/ Build(d) \/ CreateBroken(d) \/ Create(d) \/ CreateFails(d)
  \/ EnqueueFree(d) \/ EnqueueWait(d)
  \/ EnqueueReplace(d) \/ EnqueueReplaced(d) \/ ReplaceFails(d)

-----------------------------------------------------------------------------
(* The scheduler loop (loop and runDeploy)                                  *)

RootDone == proc = "stopping"     \* Shutdown has canceled the root context
At(d, pc) == run[d].pc = pc /\ rc[d][Loop].pc = "idle"
WaveMembers(d, w) == {i \in Targets(d) : WaveOf[d][i] = w}
Becomes(d, r) == run' = [run EXCEPT ![d] = r]
Goto(d, pc) == Becomes(d, [run[d] EXCEPT !.pc = pc])
ByLoop == UNCHANGED <<proc, recov, wired, handler, crashes, stops>>

\* GetDeploy and ListExecutions; a deploy that is not queued is skipped.
Load(d) ==
  /\ At(d, "load")
  /\ IF dstatus[d] = "queued" /\ Targets(d) # {}
       THEN Becomes(d, [pc |-> "wave", waves |-> {WaveOf[d][i] : i \in Targets(d)},
                        todo |-> {}, digest |-> digest[d], failed |-> FALSE])
       ELSE Goto(d, "next")
  /\ UNCHANGED <<db, busy, pending, worker, rc, history, faults>> /\ ByLoop

LoadFails(d) ==
  /\ At(d, "load") /\ Fault
  /\ Goto(d, "next")
  /\ UNCHANGED <<db, busy, pending, worker, rc, history>> /\ ByLoop

\* A wave gated by an earlier failure (or by shutdown) is canceled.
GatedMut(d) == RootDone
Gated(d) == run[d].failed \/ RootDone

NextWave(d, w) == At(d, "wave") /\ First(w, run[d].waves)
Begun(d, w, pc, todo) ==
  Becomes(d, [run[d] EXCEPT !.waves = @ \ {w}, !.pc = pc, !.todo = todo])

CancelWave(d) ==
  /\ \E w \in run[d].waves : NextWave(d, w) /\ Begun(d, w, "sweep", WaveMembers(d, w))
  /\ Gated(d)
  /\ UNCHANGED <<db, busy, pending, worker, rc, history, faults>> /\ ByLoop

\* Without a digest, the first instance of the wave runs alone.
FirstAlone(d) ==
  /\ ~Gated(d) /\ run[d].digest = NoImage
  /\ \E w \in run[d].waves : \E first \in WaveMembers(d, w) :
       /\ NextWave(d, w) /\ First(first, WaveMembers(d, w))
       /\ Begun(d, w, "first", WaveMembers(d, w) \ {first})
       /\ worker' = [worker EXCEPT ![d][first] = Spawned]
  /\ UNCHANGED <<db, busy, pending, rc, history, faults>> /\ ByLoop

WholeWave(d) ==
  /\ ~Gated(d) /\ run[d].digest # NoImage
  /\ \E w \in run[d].waves : NextWave(d, w) /\ Begun(d, w, "fan", WaveMembers(d, w))
  /\ UNCHANGED <<db, busy, pending, worker, rc, history, faults>> /\ ByLoop

WorkersDone(d) == \A i \in Instances : worker[d][i].pc \in {"off", "done"} /\ rc[d][i].pc = "idle"
Collected(d) == worker' = [worker EXCEPT ![d] = [i \in Instances |-> NoWorker]]

\* The digest the first instance resolved is promoted to the rollout.
PromotedMut(d, resolved) == run[d].digest
Promoted(d, resolved) == IF resolved # NoImage THEN resolved ELSE run[d].digest

JoinFirst(d) ==
  /\ At(d, "first") /\ WorkersDone(d)
  /\ \E i \in Instances :
       /\ worker[d][i].pc = "done"
       /\ LET new == Promoted(d, worker[d][i].digest)
          IN  /\ Becomes(d, [run[d] EXCEPT !.pc = "fan", !.digest = new,
                                           !.failed = ~worker[d][i].ok])
              /\ \/ digest' = [digest EXCEPT ![d] = new] /\ UNCHANGED faults
                 \/ new # run[d].digest /\ Fault /\ UNCHANGED digest
  /\ Collected(d)
  /\ UNCHANGED <<dstatus, finished, exec, busy, pending, rc, history>> /\ ByLoop

\* The rest of the wave runs in parallel.
FanOut(d) ==
  /\ At(d, "fan") /\ run[d].todo # {} /\ ~run[d].failed
  /\ worker' = [worker EXCEPT ![d] =
                  [i \in Instances |-> IF i \in run[d].todo THEN Spawned ELSE NoWorker]]
  /\ Becomes(d, [run[d] EXCEPT !.pc = "join", !.todo = {}])
  /\ UNCHANGED <<db, busy, pending, rc, history, faults>> /\ ByLoop

EndWave(d) ==
  /\ rc' = [rc EXCEPT ![d][Loop] = Recompute]
  /\ UNCHANGED <<db, busy, pending, history, faults>> /\ ByLoop

Join(d) ==
  /\ At(d, "join") /\ WorkersDone(d)
  /\ Becomes(d, [run[d] EXCEPT !.pc = "wave",
        !.failed = \E i \in Instances : worker[d][i].pc = "done" /\ ~worker[d][i].ok])
  /\ Collected(d)
  /\ EndWave(d)

\* The wave held nothing but its first instance, or its siblings are canceled.
FanDone(d) ==
  /\ At(d, "fan") /\ run[d].todo = {}
  /\ Goto(d, "wave")
  /\ EndWave(d) /\ UNCHANGED worker

\* One sibling of a failed first instance, or one member of a gated wave, is
\* canceled: no recompute follows.
CancelOne(d) ==
  /\ \/ At(d, "fan") /\ run[d].failed
     \/ At(d, "sweep")
  /\ \E i \in run[d].todo :
       /\ First(i, run[d].todo)
       /\ Becomes(d, [run[d] EXCEPT !.todo = @ \ {i}])
       /\ \/ /\ exec' = IF StillIn(d, i, "queued")
                            THEN [exec EXCEPT ![d][i] = "canceled"] ELSE exec
             /\ UNCHANGED faults
          \/ Fault /\ UNCHANGED exec
  /\ UNCHANGED <<dstatus, finished, digest, busy, pending, worker, rc, history>> /\ ByLoop

SweepDone(d) ==
  /\ At(d, "sweep") /\ run[d].todo = {}
  /\ Goto(d, "wave")
  /\ UNCHANGED <<db, busy, pending, worker, rc, history, faults>> /\ ByLoop

\* After the last wave: the closing recompute, then retention.
LastWaveDone(d) ==
  /\ At(d, "wave") /\ run[d].waves = {}
  /\ Goto(d, "clean")
  /\ EndWave(d) /\ UNCHANGED worker

Cleanup(d) ==
  /\ At(d, "clean")
  /\ \/ /\ dstatus' = [e \in Deploys |-> IF e \in Expired THEN NoRow ELSE dstatus[e]]
        /\ exec' = [e \in Deploys |->
                      IF e \in Expired THEN [i \in Instances |-> NoRow] ELSE exec[e]]
        /\ UNCHANGED faults
     \/ Fault /\ UNCHANGED <<dstatus, exec>>
  /\ Goto(d, "next")
  /\ UNCHANGED <<finished, digest, busy, pending, worker, rc, history>> /\ ByLoop

\* The loop takes the pending deploy, or frees the service.
TakesPendingMut == FALSE
TakesPending == pending # None /\ ~RootDone
SlotAfter == None

NextDeploy(d) ==
  /\ At(d, "next") /\ ~Locked
  /\ IF TakesPending
       THEN /\ run' = [run EXCEPT ![d] = NoRun, ![pending] = [NoRun EXCEPT !.pc = "load"]]
            /\ pending' = SlotAfter /\ UNCHANGED busy
       ELSE /\ run' = [run EXCEPT ![d] = NoRun]
            /\ busy' = FALSE /\ UNCHANGED pending
  /\ UNCHANGED <<db, worker, rc, history, faults>> /\ ByLoop

LoopStep(d) ==
  \/ Load(d) \/ LoadFails(d) \/ CancelWave(d) \/ FirstAlone(d) \/ WholeWave(d) \/ JoinFirst(d) \/ FanOut(d) \/ Join(d)
  \/ FanDone(d) \/ CancelOne(d) \/ SweepDone(d) \/ LastWaveDone(d) \/ Cleanup(d) \/ NextDeploy(d)

-----------------------------------------------------------------------------
(* The worker of one execution (runExecution)                               *)

WorkerAt(d, i, pc) == worker[d][i].pc = pc /\ rc[d][i].pc = "idle"
Stopped(ok, resolved) == [pc |-> "done", ok |-> ok, digest |-> resolved]
ByWorker == UNCHANGED <<dstatus, finished, digest, busy, pending, run, notified>> /\ ByLoop

Dispatch(d, i) ==
  /\ WorkerAt(d, i, "start")
  /\ Transition(d, i, "queued", "dispatching")
  /\ worker' = [worker EXCEPT ![d][i] =
                  IF StillIn(d, i, "queued") THEN [@ EXCEPT !.pc = "acquire"]
                  ELSE Stopped(FALSE, NoImage)]
  /\ UNCHANGED <<launched, answer, pinned, faults>> /\ ByWorker

\* Registry.Acquire returned an executor: it runs the execution next.
Launch(d, i) ==
  /\ WorkerAt(d, i, "acquire")
  /\ Transition(d, i, "dispatching", "running")
  /\ IF StillIn(d, i, "dispatching")
       THEN /\ worker' = [worker EXCEPT ![d][i].pc = "execute"]
            /\ launched' = [launched EXCEPT ![d][i] = @ + 1]
       ELSE /\ worker' = [worker EXCEPT ![d][i] = Stopped(FALSE, NoImage)]
            /\ UNCHANGED launched
  /\ UNCHANGED <<answer, pinned, faults>> /\ ByWorker

\* No executor within the window, or the root context is done.
AcquireFails(d, i) ==
  /\ WorkerAt(d, i, "acquire")
  /\ \E to \in {"unreachable"} \cup (IF RootDone THEN {"failed"} ELSE {}) :
       Transition(d, i, "dispatching", to)
  /\ worker' = [worker EXCEPT ![d][i] = Stopped(FALSE, NoImage)]
  /\ UNCHANGED <<launched, answer, pinned, faults>> /\ ByWorker

\* The digest an executor reports: the rollout's if it has one, else what
\* image.pin resolved :latest to (a failure may strike before that).
Resolves(d, i, ok) ==
  IF i \notin Pinners \/ run[d].digest # NoImage THEN {run[d].digest}
  ELSE IF ok THEN Images ELSE Digests

\* Execute returns: done, failed (or timed out, or a corrupt snapshot), or
\* the edge vanished.  `lost`: the closing statement fails, which is ignored.
Execute(d, i) ==
  /\ WorkerAt(d, i, "execute")
  /\ \E to \in {"succeeded", "failed", "unreachable"}, lost \in BOOLEAN :
       LET ok == to = "succeeded"
       IN  /\ IF lost THEN Fault /\ UNCHANGED <<exec, rc>>
              ELSE Transition(d, i, "running", to) /\ UNCHANGED faults
           /\ answer' = [answer EXCEPT ![d][i] = IF ok THEN "ok" ELSE "failed"]
           /\ \E resolved \in Resolves(d, i, ok) :
                /\ worker' = [worker EXCEPT ![d][i] = Stopped(ok, resolved)]
                /\ pinned' = IF i \in Pinners THEN [pinned EXCEPT ![d][i] = resolved]
                             ELSE pinned
  /\ UNCHANGED launched /\ ByWorker

\* The statement that would dispatch or start the execution fails.
TransitionFails(d, i) ==
  /\ WorkerAt(d, i, "start") \/ WorkerAt(d, i, "acquire")
  /\ Fault
  /\ worker' = [worker EXCEPT ![d][i] = Stopped(FALSE, NoImage)]
  /\ UNCHANGED <<exec, rc, launched, answer, pinned>> /\ ByWorker

WorkerStep(d, i) ==
  \/ Dispatch(d, i) \/ Launch(d, i) \/ AcquireFails(d, i) \/ Execute(d, i)
  \/ TransitionFails(d, i)

-----------------------------------------------------------------------------
(* Scheduler.recompute by the loop or a worker of d: a SELECT of the        *)
(* statuses, an UPDATE of the deploy, and Notify if that ended the rollout. *)

ByRecompute == UNCHANGED <<digest, exec, busy, pending, run, worker,
                           launched, answer, pinned>> /\ ByLoop
RecomputeEnds(d, p) == rc' = [rc EXCEPT ![d][p] = NoRecompute]

RecomputeRead(d, p) ==
  /\ rc[d][p].pc = "read"
  /\ rc' = [rc EXCEPT ![d][p] = [pc |-> "write", agg |-> AggregateStatus(ExecStatuses(d)),
                                 over |-> IsOver(ExecStatuses(d))]]
  /\ UNCHANGED <<dstatus, finished, notified, faults>> /\ ByRecompute

RecomputeWrite(d, p) ==
  /\ rc[d][p].pc = "write"
  /\ WriteDeploy(d, rc[d][p].agg, rc[d][p].over)
  /\ IF rc[d][p].over /\ CanFinish(d) /\ wired
       THEN rc' = [rc EXCEPT ![d][p].pc = "notify"]
       ELSE RecomputeEnds(d, p)
  /\ UNCHANGED <<notified, faults>> /\ ByRecompute

RecomputeNotify(d, p) ==
  /\ rc[d][p].pc = "notify"
  /\ notified' = [notified EXCEPT ![d] = @ + 1]
  /\ RecomputeEnds(d, p)
  /\ UNCHANGED <<dstatus, finished, faults>> /\ ByRecompute

RecomputeFails(d, p) ==
  /\ rc[d][p].pc \in {"read", "write"} /\ Fault
  /\ RecomputeEnds(d, p)
  /\ UNCHANGED <<dstatus, finished, notified>> /\ ByRecompute

RecomputeStep(d, p) ==
  \/ RecomputeRead(d, p) \/ RecomputeWrite(d, p) \/ RecomputeNotify(d, p)
  \/ RecomputeFails(d, p)

-----------------------------------------------------------------------------
(* Process start: Scheduler.Recover, before the listeners are up            *)

RecovAt(pc) == proc = "recovering" /\ recov.pc = pc
ByRecovery == UNCHANGED <<digest, wired, handler, pending, worker, rc, history, bounds>>

\* The SELECT of RecoverInFlight.
InFlight(d) == \E i \in Instances : exec[d][i] \in InFlightStatuses
Unsettled(d) == \E i \in Targets(d) : ~Terminal(exec[d][i])
LeftUnfinishedMut == {d \in Deploys : ~finished[d] /\ InFlight(d)}
LeftUnfinished ==
  {d \in Deploys : /\ dstatus[d] # NoRow /\ ~finished[d] /\ Unsettled(d)
                   /\ dstatus[d] # "queued" \/ InFlight(d)}

RecoverSelect ==
  /\ RecovAt("select")
  /\ recov' = [recov EXCEPT !.pc = "close", !.ids = LeftUnfinished, !.todo = LeftUnfinished]
  /\ UNCHANGED <<dstatus, finished, exec, proc, busy, run>> /\ ByRecovery

\* Per deploy: dispatching and running executions failed, then queued ones
\* canceled.
RecoverFailMut(d) ==   \* interrupted executions are put back
  /\ RecovAt("close") /\ recov.half = None /\ d \in recov.todo
  /\ Sweep(d, InFlightStatuses, "queued")
  /\ recov' = [recov EXCEPT !.todo = @ \ {d}]
  /\ UNCHANGED <<dstatus, finished, proc, busy, run>> /\ ByRecovery
RecoverFail(d) ==
  /\ RecovAt("close") /\ recov.half = None /\ d \in recov.todo
  /\ Sweep(d, InFlightStatuses, "failed")
  /\ recov' = [recov EXCEPT !.half = d]
  /\ UNCHANGED <<dstatus, finished, proc, busy, run>> /\ ByRecovery

RecoverCancel(d) ==
  /\ RecovAt("close") /\ recov.half = d
  /\ Sweep(d, {"queued"}, "canceled")
  /\ recov' = [recov EXCEPT !.half = None, !.todo = @ \ {d}]
  /\ UNCHANGED <<dstatus, finished, proc, busy, run>> /\ ByRecovery

RecoverClosed ==
  /\ RecovAt("close") /\ recov.todo = {}
  /\ recov' = [recov EXCEPT !.pc = "recompute", !.todo = recov.ids]
  /\ UNCHANGED <<dstatus, finished, exec, proc, busy, run>> /\ ByRecovery

\* RecomputeDeployStatus without Notify; nothing else runs yet.
RecoverRecompute(d) ==
  /\ RecovAt("recompute") /\ d \in recov.todo
  /\ WriteDeploy(d, AggregateStatus(ExecStatuses(d)), IsOver(ExecStatuses(d)))
  /\ recov' = [recov EXCEPT !.todo = @ \ {d}]
  /\ UNCHANGED <<exec, proc, busy, run>> /\ ByRecovery

\* ListQueuedDeploys.
Waiting == {d \in Deploys : dstatus[d] = "queued"}

\* All but the newest are superseded, oldest first.
RecoverList ==
  /\ RecovAt("recompute") /\ recov.todo = {}
  /\ \E latest \in Deploys \cup {None} :
       /\ IF Waiting = {} THEN latest = None ELSE Last(latest, Waiting)
       /\ recov' = [recov EXCEPT !.pc = "supersede", !.todo = Waiting \ {latest},
                                 !.latest = latest]
  /\ UNCHANGED <<dstatus, finished, exec, proc, busy, run>> /\ ByRecovery

RecoverSupersede ==
  /\ RecovAt("supersede") /\ recov.half = None
  /\ \E d \in recov.todo :
       /\ First(d, recov.todo)
       /\ Sweep(d, {"queued"}, "superseded")
       /\ recov' = [recov EXCEPT !.half = d]
  /\ UNCHANGED <<dstatus, finished, proc, busy, run>> /\ ByRecovery

RecoverSuperseded ==
  /\ RecovAt("supersede") /\ recov.half # None
  /\ SupersedeRow(recov.half)
  /\ recov' = [recov EXCEPT !.half = None, !.todo = @ \ {recov.half}]
  /\ UNCHANGED <<exec, proc, busy, run>> /\ ByRecovery

\* Recover's last call is Enqueue: a loop may start before Notify is set.
RecoverEnqueue ==
  /\ RecovAt("supersede") /\ recov.todo = {}
  /\ IF recov.latest # None THEN StartLoop(recov.latest) ELSE UNCHANGED <<busy, run>>
  /\ proc' = "wiring" /\ recov' = NoRecovery
  /\ UNCHANGED <<dstatus, finished, exec>> /\ ByRecovery

Recovery ==
  \/ RecoverSelect \/ RecoverClosed \/ RecoverList
  \/ RecoverSupersede \/ RecoverSuperseded \/ RecoverEnqueue
  \/ \E d \in Deploys : RecoverFail(d) \/ RecoverCancel(d) \/ RecoverRecompute(d)

-----------------------------------------------------------------------------
(* The main process (cli/cmd_main.go)                                       *)

\* sched.Notify = notifier.Notify, then the listeners come up.
Wire ==
  /\ proc = "wiring"
  /\ proc' = "up" /\ wired' = TRUE
  /\ UNCHANGED <<db, recov, handler, busy, pending, rollout, history, bounds>>

\* Everything in memory is gone; a handler in flight never continues.  (An error
\* in Recover also ends the process: it is one of the crashes.)
Dies ==
  /\ proc' = "down" /\ recov' = NoRecovery /\ wired' = FALSE
  /\ handler' = [d \in Deploys |-> IF handler[d] = "none" THEN "none" ELSE "done"]
  /\ busy' = FALSE /\ pending' = None
  /\ run' = [d \in Deploys |-> NoRun]
  /\ worker' = [d \in Deploys |-> [i \in Instances |-> NoWorker]]
  /\ rc' = [d \in Deploys |-> [p \in Members |-> NoRecompute]]
  /\ UNCHANGED <<db, history, faults>>

Start ==
  /\ proc = "down"
  /\ proc' = "recovering" /\ recov' = [NoRecovery EXCEPT !.pc = "select"]
  /\ UNCHANGED <<db, wired, handler, busy, pending, rollout, history, bounds>>

Crash ==
  /\ proc # "down" /\ crashes < MaxCrashes
  /\ crashes' = crashes + 1 /\ UNCHANGED stops
  /\ Dies

\* A signal: the root context is canceled, and the loops are waited for.
Stop ==
  /\ proc = "up" /\ stops < MaxStops
  /\ proc' = "stopping" /\ stops' = stops + 1
  /\ UNCHANGED <<db, recov, wired, handler, busy, pending, rollout, history, crashes, faults>>

Exit ==
  /\ proc = "stopping" /\ ~busy
  /\ Dies /\ UNCHANGED <<crashes, stops>>

\* Every deploy of the model was served: nothing is left to do.
AllServed ==
  /\ proc = "up" /\ ~busy /\ \A d \in Deploys : handler[d] = "done"
  /\ UNCHANGED vars

Next ==
  \/ \E d \in Deploys : Handler(d) \/ LoopStep(d)
  \/ \E d \in Deploys, i \in Instances : WorkerStep(d, i)
  \/ \E d \in Deploys, p \in Members : RecomputeStep(d, p)
  \/ Recovery
  \/ Wire \/ Start \/ Crash \/ Stop \/ Exit \/ AllServed

Spec == Init /\ [][Next]_vars
=============================================================================
