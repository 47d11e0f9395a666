--------------------------- MODULE RolloutProofs ----------------------------
(***************************************************************************)
(* Theorems about Rollout, for every set of deploys and instances, every   *)
(* rollout and any number of crashes, restarts and failing statements:     *)
(* the types, one rollout at a time, one notification per deploy, one      *)
(* launch per execution, and settled executions that never move again.     *)
(***************************************************************************)
EXTENDS RolloutProps, TLAPS

-----------------------------------------------------------------------------
(* Values                                                                   *)

LEMMA AggregateType == ASSUME NEW S \in SUBSET Statuses PROVE AggregateStatus(S) \in Statuses
  BY DEF AggregateStatus, Statuses

LEMMA StatusesOf ==
  ASSUME RowsOK, NEW d \in Deploys PROVE ExecStatuses(d) \in SUBSET Statuses
  BY DEF RowsOK, ExecStatuses, Targets, NoRow

LEMMA ConstantTypes ==
  /\ NoRun \in Runs /\ [NoRun EXCEPT !.pc = "load"] \in Runs
  /\ NoWorker \in Workers /\ Spawned \in Workers
  /\ NoRecompute \in Recomputes /\ Recompute \in Recomputes
  /\ NoRecovery \in Recoveries /\ [NoRecovery EXCEPT !.pc = "select"] \in Recoveries
  BY DEF NoRun, Runs, RunPcs, NoWorker, Spawned, Workers, WorkerPcs, NoRecompute, Recompute,
     Recomputes, RecomputePcs, NoRecovery, Recoveries, RecovPcs, Digests, None, Statuses

\* What the loop does to its own record.
LEMMA RunMoves ==
  ASSUME NEW r \in Runs, NEW pc \in RunPcs
  PROVE  /\ [r EXCEPT !.pc = pc] \in Runs
         /\ \A todo \in SUBSET Instances :
              /\ [r EXCEPT !.todo = todo] \in Runs
              /\ [r EXCEPT !.pc = pc, !.todo = todo] \in Runs
              /\ \A w : [r EXCEPT !.waves = @ \ {w}, !.pc = pc, !.todo = todo] \in Runs
         /\ \A failed \in BOOLEAN :
              /\ [r EXCEPT !.pc = pc, !.failed = failed] \in Runs
              /\ \A new \in Digests :
                   [r EXCEPT !.pc = pc, !.digest = new, !.failed = failed] \in Runs
  BY DEF Runs

LEMMA RunTypes ==
  ASSUME RolloutOK, NEW d \in Deploys
  PROVE  /\ run[d] \in Runs /\ run[d].todo \in SUBSET Instances /\ run[d].digest \in Digests
         /\ run[d].pc \in RunPcs /\ run[d].waves \in SUBSET Nat
         /\ \A r \in Runs : Becomes(d, r) => run' \in [Deploys -> Runs]
<1>1. run[d] \in Runs BY DEF RolloutOK
<1>2. \A r \in Runs : Becomes(d, r) => run' \in [Deploys -> Runs] BY DEF RolloutOK, Becomes
<1>3. QED BY <1>1, <1>2 DEF Runs

LEMMA WorkerTypes ==
  ASSUME RolloutOK, NEW d \in Deploys, NEW i \in Instances
  PROVE  /\ worker[d][i] \in Workers
         /\ \A pc \in WorkerPcs : [worker[d][i] EXCEPT !.pc = pc] \in Workers
         /\ worker[d][i].ok \in BOOLEAN /\ worker[d][i].digest \in Digests
         /\ \A v \in Workers :
              [worker EXCEPT ![d][i] = v] \in [Deploys -> [Instances -> Workers]]
<1>1. worker[d][i] \in Workers BY DEF RolloutOK
<1>2. \A v \in Workers :
        [worker EXCEPT ![d][i] = v] \in [Deploys -> [Instances -> Workers]]
  BY DEF RolloutOK
<1>3. QED BY <1>1, <1>2 DEF Workers

LEMMA RecomputeTypes ==
  ASSUME RolloutOK, NEW d \in Deploys, NEW p \in Members
  PROVE  /\ rc[d][p] \in Recomputes /\ rc[d][p].agg \in Statuses /\ rc[d][p].over \in BOOLEAN
         /\ \A c \in Recomputes : [rc EXCEPT ![d][p] = c] \in [Deploys -> [Members -> Recomputes]]
<1>1. rc[d][p] \in Recomputes BY DEF RolloutOK
<1>2. \A c \in Recomputes : [rc EXCEPT ![d][p] = c] \in [Deploys -> [Members -> Recomputes]]
  BY DEF RolloutOK
<1>3. QED BY <1>1, <1>2 DEF Recomputes

-----------------------------------------------------------------------------
(* Type correctness                                                         *)

LEMMA InitType == ASSUME Init PROVE TypeOK
<1>1. RolloutOK BY ConstantTypes DEF Init, NoGoroutines, RolloutOK
<1>2. RowsOK BY DEF Init, RowsOK, Digests
<1>3. ProcessOK BY ConstantTypes DEF Init, ProcessOK, HandlerPcs, None
<1>4. HistoryOK BY DEF Init, HistoryOK, Digests
<1>5. QED BY <1>1, <1>2, <1>3, <1>4 DEF TypeOK

LEMMA HandlerType == ASSUME TypeOK, NEW d \in Deploys, Handler(d) PROVE TypeOK'
<1>1. RowsOK'
  <2> USE DEF RowsOK, db
  <2>1. CASE Create(d)
    <3>1. Triggers[d] \subseteq [targets : (SUBSET Instances) \ {{}}, digest : Digests]
      BY TriggerAssumption DEF Digests
    <3>2. QED BY <2>1, <3>1 DEF Create, Digests, Statuses, TypeOK
  <2>2. CASE CreateBroken(d) BY <2>2 DEF CreateBroken, Statuses, TypeOK
  <2>3. CASE EnqueueReplace(d)
    <3>1. pending \in Deploys BY <2>3 DEF EnqueueReplace, TypeOK, ProcessOK, None
    <3>2. exec' \in [Deploys -> [Instances -> Statuses \cup {NoRow}]]
      BY <2>3, <3>1 DEF EnqueueReplace, Sweep, Statuses, TypeOK
    <3>3. QED BY <2>3, <3>2 DEF EnqueueReplace, TypeOK
  <2>4. CASE EnqueueReplaced(d) BY <2>4 DEF EnqueueReplaced, SupersedeRow, Statuses, TypeOK
  <2>5. CASE Build(d) \/ CreateFails(d) \/ EnqueueFree(d) \/ EnqueueWait(d) \/ ReplaceFails(d)
    BY <2>5 DEF Build, CreateFails, EnqueueFree, EnqueueWait, ReplaceFails, TypeOK
  <2>6. QED BY <2>1, <2>2, <2>3, <2>4, <2>5 DEF Handler
<1>2. ProcessOK'
  <2> USE DEF ProcessOK, bounds, HandlerPcs, TypeOK
  <2>1. CASE Build(d) \/ CreateBroken(d) \/ Create(d) \/ CreateFails(d)
    BY <2>1 DEF Build, CreateBroken, Create, CreateFails, Fault
  <2>2. CASE EnqueueFree(d) \/ EnqueueWait(d) \/ EnqueueReplace(d)
    BY <2>2 DEF EnqueueFree, EnqueueWait, EnqueueReplace, StartLoop
  <2>3. CASE EnqueueReplaced(d) \/ ReplaceFails(d)
    BY <2>3 DEF EnqueueReplaced, ReplaceFails, Fault
  <2>4. QED BY <2>1, <2>2, <2>3 DEF Handler
<1>3. RolloutOK'
  <2>1. CASE EnqueueFree(d)
    <3>1. run' \in [Deploys -> Runs]
      BY <2>1, ConstantTypes DEF EnqueueFree, StartLoop, TypeOK, RolloutOK
    <3>2. QED BY <2>1, <3>1 DEF EnqueueFree, RolloutOK, TypeOK
  <2>2. CASE UNCHANGED rollout BY <2>2 DEF rollout, RolloutOK, TypeOK
  <2>3. QED
    BY <2>1, <2>2 DEF Handler, Build, CreateBroken, Create, CreateFails, EnqueueWait,
       EnqueueReplace, EnqueueReplaced, ReplaceFails
<1>4. HistoryOK'
  <2>1. CASE CreateBroken(d) BY <2>1 DEF CreateBroken, HistoryOK, TypeOK
  <2>2. CASE UNCHANGED history BY <2>2 DEF history, HistoryOK, TypeOK
  <2>3. QED
    BY <2>1, <2>2 DEF Handler, Build, Create, CreateFails, EnqueueFree, EnqueueWait,
       EnqueueReplace, EnqueueReplaced, ReplaceFails
<1>5. QED BY <1>1, <1>2, <1>3, <1>4 DEF TypeOK

LEMMA LoopType == ASSUME TypeOK, NEW d \in Deploys, LoopStep(d) PROVE TypeOK'
<1> USE DEF TypeOK
<1>1. RowsOK'
  <2>1. CASE JoinFirst(d)
    <3>1. PICK i \in Instances :
            digest' \in {[digest EXCEPT ![d] = Promoted(d, worker[d][i].digest)], digest}
      BY <2>1 DEF JoinFirst
    <3>2. Promoted(d, worker[d][i].digest) \in Digests BY RunTypes, WorkerTypes DEF Promoted
    <3>3. digest' \in [Deploys -> Digests] BY <3>1, <3>2 DEF RowsOK
    <3>4. QED BY <2>1, <3>3 DEF JoinFirst, RowsOK
  <2>2. CASE CancelOne(d)
    <3>1. PICK i \in run[d].todo :
            \/ exec' = IF StillIn(d, i, "queued") THEN [exec EXCEPT ![d][i] = "canceled"] ELSE exec
            \/ UNCHANGED exec
      BY <2>2 DEF CancelOne
    <3>2. exec' \in [Deploys -> [Instances -> Statuses \cup {NoRow}]]
      <4>1. i \in Instances /\ "canceled" \in Statuses BY RunTypes DEF Statuses
      <4>2. QED BY <3>1, <4>1 DEF RowsOK
    <3>3. QED BY <2>2, <3>2 DEF CancelOne, RowsOK
  <2>3. CASE Cleanup(d) BY <2>3 DEF Cleanup, RowsOK
  <2>4. CASE UNCHANGED db BY <2>4 DEF db, RowsOK
  <2>5. QED
    BY <2>1, <2>2, <2>3, <2>4 DEF LoopStep, Load, LoadFails, CancelWave, FirstAlone, WholeWave,
       FanOut, Join, FanDone, SweepDone, LastWaveDone, EndWave, NextDeploy
<1>2. ProcessOK'
  <2> USE DEF ProcessOK, ByLoop
  <2>1. CASE NextDeploy(d) BY <2>1 DEF NextDeploy, SlotAfter
  <2>2. CASE LoadFails(d) \/ JoinFirst(d) \/ CancelOne(d) \/ Cleanup(d)
    <3>1. Fault \/ UNCHANGED faults BY <2>2 DEF LoadFails, JoinFirst, CancelOne, Cleanup
    <3>2. faults' \in Nat BY <3>1 DEF Fault
    <3>3. QED BY <2>2, <3>2 DEF LoadFails, JoinFirst, CancelOne, Cleanup
  <2>3. CASE UNCHANGED <<busy, pending, faults>> /\ ByLoop BY <2>3
  <2>4. QED
    BY <2>1, <2>2, <2>3 DEF LoopStep, Load, CancelWave, FirstAlone, WholeWave,
       FanOut, Join, FanDone, SweepDone, LastWaveDone, EndWave
<1>3. run' \in [Deploys -> Runs]
  <2>r. run[d] \in Runs BY RunTypes
  <2>1. CASE Load(d)
    <3>1. {WaveOf[d][i] : i \in Targets(d)} \in SUBSET Nat BY WaveAssumption DEF Targets
    <3>2. [pc |-> "wave", waves |-> {WaveOf[d][i] : i \in Targets(d)}, todo |-> {},
           digest |-> digest[d], failed |-> FALSE] \in Runs
      BY <3>1 DEF Runs, RunPcs, RowsOK
    <3>3. [run[d] EXCEPT !.pc = "next"] \in Runs BY <2>r, RunMoves DEF RunPcs
    <3>4. QED BY <2>1, <3>2, <3>3, RunTypes DEF Load, Goto
  <2>2. ASSUME NEW pc \in RunPcs, Goto(d, pc) PROVE run' \in [Deploys -> Runs]
    BY <2>2, <2>r, RunTypes, RunMoves DEF Goto
  <2>3. CASE LoadFails(d) \/ FanDone(d) \/ SweepDone(d) \/ LastWaveDone(d) \/ Cleanup(d)
    BY <2>2, <2>3 DEF LoadFails, FanDone, SweepDone, LastWaveDone, Cleanup, RunPcs
  <2>4. CASE CancelWave(d) \/ FirstAlone(d) \/ WholeWave(d)
    <3>1. PICK w \in Nat, pc \in RunPcs, todo \in SUBSET Instances : Begun(d, w, pc, todo)
      <4>1. \A w : WaveMembers(d, w) \in SUBSET Instances BY DEF WaveMembers, Targets
      <4>2. QED BY <2>4, <4>1, RunTypes DEF CancelWave, FirstAlone, WholeWave, RunPcs
    <3>2. [run[d] EXCEPT !.waves = @ \ {w}, !.pc = pc, !.todo = todo] \in Runs
      BY <2>r, RunMoves
    <3>3. QED BY <3>1, <3>2, RunTypes DEF Begun
  <2>5. CASE JoinFirst(d)
    <3>1. PICK i \in Instances :
            Becomes(d, [run[d] EXCEPT !.pc = "fan",
                          !.digest = Promoted(d, worker[d][i].digest), !.failed = ~worker[d][i].ok])
      BY <2>5 DEF JoinFirst
    <3>2. Promoted(d, worker[d][i].digest) \in Digests BY RunTypes, WorkerTypes DEF Promoted
    <3>3. (~worker[d][i].ok) \in BOOLEAN BY WorkerTypes
    <3>4. [run[d] EXCEPT !.pc = "fan", !.digest = Promoted(d, worker[d][i].digest),
                         !.failed = ~worker[d][i].ok] \in Runs
      BY <2>r, <3>2, <3>3, RunMoves DEF RunPcs
    <3>5. QED BY <3>1, <3>4, RunTypes
  <2>6. CASE FanOut(d)
    <3>1. [run[d] EXCEPT !.pc = "join", !.todo = {}] \in Runs BY <2>r, RunMoves DEF RunPcs
    <3>2. QED BY <2>6, <3>1, RunTypes DEF FanOut
  <2>7. CASE Join(d)
    <3>1. PICK failed \in BOOLEAN : Becomes(d, [run[d] EXCEPT !.pc = "wave", !.failed = failed])
      BY <2>7 DEF Join
    <3>2. [run[d] EXCEPT !.pc = "wave", !.failed = failed] \in Runs
      BY <2>r, RunMoves DEF RunPcs
    <3>3. QED BY <3>1, <3>2, RunTypes
  <2>8. CASE CancelOne(d)
    <3>1. PICK i : Becomes(d, [run[d] EXCEPT !.todo = @ \ {i}])
      BY <2>8 DEF CancelOne
    <3>2. run[d].todo \ {i} \in SUBSET Instances BY RunTypes
    <3>3. [run[d] EXCEPT !.todo = @ \ {i}] \in Runs BY <2>r, <3>2 DEF Runs
    <3>4. QED BY <3>1, <3>3, RunTypes
  <2>9. CASE NextDeploy(d) BY <2>9, ConstantTypes DEF NextDeploy, RolloutOK
  <2>10. QED
    BY <2>1, <2>3, <2>4, <2>5, <2>6, <2>7, <2>8, <2>9 DEF LoopStep
<1>4. worker' \in [Deploys -> [Instances -> Workers]]
  <2> USE DEF RolloutOK
  <2>1. CASE FirstAlone(d)
    <3>1. PICK first \in Instances : worker' = [worker EXCEPT ![d][first] = Spawned]
      BY <2>1 DEF FirstAlone, WaveMembers, Targets
    <3>2. QED BY <3>1, WorkerTypes, ConstantTypes
  <2>2. CASE FanOut(d) BY <2>2, ConstantTypes DEF FanOut
  <2>3. CASE JoinFirst(d) \/ Join(d)
    <3>1. worker' = [worker EXCEPT ![d] = [i \in Instances |-> NoWorker]]
      BY <2>3 DEF JoinFirst, Join, Collected
    <3>2. QED BY <3>1, ConstantTypes
  <2>4. CASE UNCHANGED worker BY <2>4
  <2>5. QED
    BY <2>1, <2>2, <2>3, <2>4 DEF LoopStep, Load, LoadFails, CancelWave, WholeWave, FanDone,
       CancelOne, SweepDone, LastWaveDone, Cleanup, NextDeploy
<1>5. rc' \in [Deploys -> [Members -> Recomputes]]
  <2>1. CASE EndWave(d) BY <2>1, RecomputeTypes, ConstantTypes DEF EndWave, Members
  <2>2. CASE UNCHANGED rc BY <2>2 DEF RolloutOK
  <2>3. QED
    BY <2>1, <2>2 DEF LoopStep, Load, LoadFails, CancelWave, FirstAlone, WholeWave, JoinFirst,
       FanOut, Join, FanDone, CancelOne, SweepDone, LastWaveDone, Cleanup, NextDeploy
<1>6. HistoryOK'
  <2>1. UNCHANGED history
    BY DEF LoopStep, Load, LoadFails, CancelWave, FirstAlone, WholeWave, JoinFirst, FanOut,
       Join, FanDone, CancelOne, SweepDone, LastWaveDone, Cleanup, NextDeploy, EndWave
  <2>2. QED BY <2>1 DEF history, HistoryOK
<1>7. QED BY <1>1, <1>2, <1>3, <1>4, <1>5, <1>6 DEF RolloutOK

LEMMA WorkerType ==
  ASSUME TypeOK, NEW d \in Deploys, NEW i \in Instances, WorkerStep(d, i) PROVE TypeOK'
<1> USE DEF TypeOK
<1> DEFINE GoesOn == \E v \in Workers : worker' = [worker EXCEPT ![d][i] = v]
<1>1. Stopped(FALSE, NoImage) \in Workers
  BY ImageAssumption DEF Stopped, Workers, WorkerPcs, Digests
<1>2. ASSUME NEW from, NEW to \in Statuses,
             Transition(d, i, from, to) \/ UNCHANGED <<exec, rc>>
      PROVE  /\ exec' \in [Deploys -> [Instances -> Statuses \cup {NoRow}]]
             /\ rc' \in [Deploys -> [Members -> Recomputes]]
  <2>1. [exec EXCEPT ![d][i] = to] \in [Deploys -> [Instances -> Statuses \cup {NoRow}]]
    BY DEF RowsOK
  <2>2. [rc EXCEPT ![d][i] = Recompute] \in [Deploys -> [Members -> Recomputes]]
    BY RecomputeTypes, ConstantTypes DEF Members
  <2>3. QED BY <1>2, <2>1, <2>2 DEF Transition, RowsOK, RolloutOK
<1>4. ASSUME GoesOn PROVE worker' \in [Deploys -> [Instances -> Workers]]
  BY <1>4, WorkerTypes
<1>5. ByWorker BY DEF WorkerStep, Dispatch, Launch, AcquireFails, Execute, TransitionFails
<1>6. CASE Dispatch(d, i) \/ Launch(d, i) \/ AcquireFails(d, i) \/ TransitionFails(d, i)
  <2>1. PICK from \in Statuses, to \in Statuses : Transition(d, i, from, to) \/ UNCHANGED <<exec, rc>>
    BY <1>6 DEF Dispatch, Launch, AcquireFails, TransitionFails, Statuses
  <2>2. GoesOn
    <3>1. /\ [worker[d][i] EXCEPT !.pc = "acquire"] \in Workers
          /\ [worker[d][i] EXCEPT !.pc = "execute"] \in Workers
      BY WorkerTypes DEF WorkerPcs
    <3>2. CASE Dispatch(d, i) BY <1>1, <3>1, <3>2 DEF Dispatch
    <3>3. CASE Launch(d, i) BY <1>1, <3>1, <3>3 DEF Launch
    <3>4. CASE AcquireFails(d, i) \/ TransitionFails(d, i)
      BY <1>1, <3>4 DEF AcquireFails, TransitionFails
    <3>5. QED BY <1>6, <3>2, <3>3, <3>4
  <2>3. HistoryOK'
    <3>0. [launched EXCEPT ![d][i] = @ + 1] \in [Deploys -> [Instances -> Nat]]
      BY DEF HistoryOK
    <3>1. launched' \in [Deploys -> [Instances -> Nat]]
      BY <1>6, <3>0 DEF Dispatch, Launch, AcquireFails, TransitionFails, HistoryOK
    <3>2. UNCHANGED <<answer, pinned, notified>>
      BY <1>5, <1>6 DEF Dispatch, Launch, AcquireFails, TransitionFails, ByWorker
    <3>3. QED BY <3>1, <3>2 DEF HistoryOK
  <2>4. faults' \in Nat
    <3>1. Fault \/ UNCHANGED faults
      BY <1>6 DEF Dispatch, Launch, AcquireFails, TransitionFails
    <3>2. QED BY <3>1 DEF Fault, ProcessOK
  <2>5. ProcessOK' BY <1>5, <2>4 DEF ByWorker, ByLoop, ProcessOK
  <2>6. RowsOK' BY <1>2, <1>5, <2>1 DEF ByWorker, RowsOK
  <2>7. RolloutOK' BY <1>2, <1>4, <1>5, <2>1, <2>2 DEF ByWorker, RolloutOK
  <2>8. QED BY <2>3, <2>5, <2>6, <2>7
<1>7. CASE Execute(d, i)
  <2>1. PICK to \in {"succeeded", "failed", "unreachable"}, lost \in BOOLEAN :
          /\ IF lost THEN Fault /\ UNCHANGED <<exec, rc>>
             ELSE Transition(d, i, "running", to) /\ UNCHANGED faults
          /\ answer' = [answer EXCEPT ![d][i] = IF to = "succeeded" THEN "ok" ELSE "failed"]
          /\ \E resolved \in Resolves(d, i, to = "succeeded") :
               /\ worker' = [worker EXCEPT ![d][i] = Stopped(to = "succeeded", resolved)]
               /\ pinned' = IF i \in Pinners THEN [pinned EXCEPT ![d][i] = resolved]
                            ELSE pinned
    BY <1>7 DEF Execute
  <2>2. PICK resolved \in Resolves(d, i, to = "succeeded") :
          /\ worker' = [worker EXCEPT ![d][i] = Stopped(to = "succeeded", resolved)]
          /\ pinned' = IF i \in Pinners THEN [pinned EXCEPT ![d][i] = resolved] ELSE pinned
    BY <2>1
  <2>3. resolved \in Digests
    <3>1. run[d].digest \in Digests BY RunTypes
    <3>2. QED BY <3>1 DEF Resolves, Digests
  <2>4. Stopped(to = "succeeded", resolved) \in Workers
    BY <2>3 DEF Stopped, Workers, WorkerPcs
  <2>5. worker' \in [Deploys -> [Instances -> Workers]] BY <1>4, <2>2, <2>4
  <2>6. answer' \in [Deploys -> [Instances -> {"none", "ok", "failed"}]]
    BY <2>1 DEF HistoryOK
  <2>7. pinned' \in [Deploys -> [Instances -> Digests]] BY <2>2, <2>3 DEF HistoryOK
  <2>8. HistoryOK' BY <1>5, <1>7, <2>6, <2>7 DEF Execute, ByWorker, HistoryOK
  <2>9. faults' \in Nat BY <2>1 DEF Fault, ProcessOK
  <2>10. ProcessOK' BY <1>5, <2>9 DEF ByWorker, ByLoop, ProcessOK
  <2>11. to \in Statuses BY DEF Statuses
  <2>12. RowsOK' BY <1>2, <1>5, <2>1, <2>11 DEF ByWorker, RowsOK
  <2>13. RolloutOK' BY <1>2, <1>5, <2>1, <2>5, <2>11 DEF ByWorker, RolloutOK
  <2>14. QED BY <2>8, <2>10, <2>12, <2>13
<1>8. QED BY <1>6, <1>7 DEF WorkerStep

LEMMA WriteType ==
  ASSUME RowsOK, NEW d \in Deploys, NEW agg \in Statuses, NEW over, WriteDeploy(d, agg, over)
  PROVE  /\ dstatus' \in [Deploys -> Statuses \cup {NoRow}]
         /\ finished' \in [Deploys -> BOOLEAN]
  BY DEF RowsOK, WriteDeploy

LEMMA RecomputeType ==
  ASSUME TypeOK, NEW d \in Deploys, NEW p \in Members, RecomputeStep(d, p) PROVE TypeOK'
<1> USE DEF TypeOK
<1>1. ByRecompute
  BY DEF RecomputeStep, RecomputeRead, RecomputeWrite, RecomputeNotify, RecomputeFails
<1>2. PICK c \in Recomputes : rc' = [rc EXCEPT ![d][p] = c]
  <2>1. CASE RecomputeRead(d, p)
    <3>1. AggregateStatus(ExecStatuses(d)) \in Statuses BY AggregateType, StatusesOf
    <3>2. IsOver(ExecStatuses(d)) \in BOOLEAN BY DEF IsOver, Terminal, AllTerminal
    <3>3. [pc |-> "write", agg |-> AggregateStatus(ExecStatuses(d)),
           over |-> IsOver(ExecStatuses(d))] \in Recomputes
      BY <3>1, <3>2 DEF Recomputes, RecomputePcs
    <3>4. QED BY <2>1, <3>3 DEF RecomputeRead
  <2>2. CASE RecomputeWrite(d, p)
    <3>1. [rc[d][p] EXCEPT !.pc = "notify"] \in Recomputes
      BY RecomputeTypes DEF Recomputes, RecomputePcs
    <3>2. QED BY <2>2, <3>1, ConstantTypes DEF RecomputeWrite, RecomputeEnds
  <2>3. CASE RecomputeNotify(d, p) \/ RecomputeFails(d, p)
    BY <2>3, ConstantTypes DEF RecomputeNotify, RecomputeFails, RecomputeEnds
  <2>4. QED BY <2>1, <2>2, <2>3 DEF RecomputeStep
<1>3. RolloutOK' BY <1>1, <1>2, RecomputeTypes DEF ByRecompute, RolloutOK
<1>4. RowsOK'
  <2>1. CASE RecomputeWrite(d, p)
    <3>1. rc[d][p].agg \in Statuses BY RecomputeTypes
    <3>2. /\ dstatus' \in [Deploys -> Statuses \cup {NoRow}]
          /\ finished' \in [Deploys -> BOOLEAN]
      BY <2>1, <3>1, WriteType DEF RecomputeWrite
    <3>3. QED BY <1>1, <3>2 DEF ByRecompute, RowsOK
  <2>2. CASE UNCHANGED <<dstatus, finished>> BY <1>1, <2>2 DEF ByRecompute, RowsOK
  <2>3. QED BY <2>1, <2>2 DEF RecomputeStep, RecomputeRead, RecomputeNotify, RecomputeFails
<1>5. faults' \in Nat
  <2>1. Fault \/ UNCHANGED faults
    BY DEF RecomputeStep, RecomputeRead, RecomputeWrite, RecomputeNotify, RecomputeFails
  <2>2. QED BY <2>1 DEF Fault, ProcessOK
<1>6. notified' \in [Deploys -> Nat]
  <2>1. [notified EXCEPT ![d] = @ + 1] \in [Deploys -> Nat] BY DEF HistoryOK
  <2>2. QED BY <2>1 DEF RecomputeStep, RecomputeRead, RecomputeWrite, RecomputeNotify, RecomputeFails, HistoryOK
<1>7. ProcessOK' BY <1>1, <1>5 DEF ByRecompute, ByLoop, ProcessOK
<1>8. HistoryOK' BY <1>1, <1>6 DEF ByRecompute, HistoryOK
<1>9. QED BY <1>3, <1>4, <1>7, <1>8

LEMMA RecoveryType == ASSUME TypeOK, Recovery PROVE TypeOK'
<1> USE DEF TypeOK
<1>1. ByRecovery
  BY DEF Recovery, RecoverSelect, RecoverClosed, RecoverList, RecoverSupersede,
     RecoverSuperseded, RecoverEnqueue, RecoverFail, RecoverCancel, RecoverRecompute
<1>2. recov' \in Recoveries
  <2> USE DEF ProcessOK, Recoveries, RecovPcs
  <2>1. CASE RecoverSelect BY <2>1 DEF RecoverSelect, LeftUnfinished
  <2>2. CASE RecoverClosed BY <2>2 DEF RecoverClosed
  <2>3. CASE RecoverList
    <3>1. PICK latest \in Deploys \cup {None} :
            recov' = [recov EXCEPT !.pc = "supersede", !.todo = Waiting \ {latest},
                                   !.latest = latest]
      BY <2>3 DEF RecoverList
    <3>2. QED BY <3>1 DEF Waiting
  <2>4. CASE RecoverSupersede BY <2>4 DEF RecoverSupersede
  <2>5. CASE RecoverSuperseded BY <2>5 DEF RecoverSuperseded, None
  <2>6. CASE RecoverEnqueue BY <2>6, ConstantTypes DEF RecoverEnqueue
  <2>7. ASSUME NEW d \in Deploys, RecoverFail(d) \/ RecoverCancel(d) \/ RecoverRecompute(d)
        PROVE  recov' \in Recoveries
    BY <2>7 DEF RecoverFail, RecoverCancel, RecoverRecompute, None
  <2>8. QED BY <2>1, <2>2, <2>3, <2>4, <2>5, <2>6, <2>7 DEF Recovery
<1>3. exec' \in [Deploys -> [Instances -> Statuses \cup {NoRow}]]
  <2>1. ASSUME NEW d \in Deploys, NEW from, NEW to \in Statuses, Sweep(d, from, to)
        PROVE  exec' \in [Deploys -> [Instances -> Statuses \cup {NoRow}]]
    BY <2>1 DEF Sweep, RowsOK
  <2>2. CASE RecoverSupersede
    <3>1. PICK d \in Deploys : Sweep(d, {"queued"}, "superseded")
      BY <2>2 DEF RecoverSupersede, ProcessOK, Recoveries
    <3>2. QED BY <2>1, <3>1 DEF Statuses
  <2>3. ASSUME NEW d \in Deploys, RecoverFail(d) \/ RecoverCancel(d)
        PROVE  exec' \in [Deploys -> [Instances -> Statuses \cup {NoRow}]]
    BY <2>1, <2>3 DEF RecoverFail, RecoverCancel, Statuses
  <2>4. CASE UNCHANGED exec BY <2>4 DEF RowsOK
  <2>5. QED
    BY <2>2, <2>3, <2>4 DEF Recovery, RecoverSelect, RecoverClosed, RecoverList,
       RecoverSuperseded, RecoverEnqueue, RecoverRecompute
<1>4. /\ dstatus' \in [Deploys -> Statuses \cup {NoRow}]
      /\ finished' \in [Deploys -> BOOLEAN]
  <2>1. ASSUME NEW d \in Deploys, RecoverRecompute(d)
        PROVE  /\ dstatus' \in [Deploys -> Statuses \cup {NoRow}]
               /\ finished' \in [Deploys -> BOOLEAN]
    <3>1. AggregateStatus(ExecStatuses(d)) \in Statuses BY AggregateType, StatusesOf
    <3>2. QED BY <2>1, <3>1, WriteType DEF RecoverRecompute
  <2>2. CASE RecoverSuperseded BY <2>2 DEF RecoverSuperseded, SupersedeRow, RowsOK, Statuses
  <2>3. CASE UNCHANGED <<dstatus, finished>> BY <2>3 DEF RowsOK
  <2>4. QED
    BY <2>1, <2>2, <2>3 DEF Recovery, RecoverSelect, RecoverClosed, RecoverList,
       RecoverSupersede, RecoverEnqueue, RecoverFail, RecoverCancel
<1>5. run' \in [Deploys -> Runs] /\ busy' \in BOOLEAN
  <2>1. CASE RecoverEnqueue
    BY <2>1, ConstantTypes DEF RecoverEnqueue, StartLoop, RolloutOK, ProcessOK
  <2>2. CASE UNCHANGED <<busy, run>> BY <2>2 DEF RolloutOK, ProcessOK
  <2>3. QED
    BY <2>1, <2>2 DEF Recovery, RecoverSelect, RecoverClosed, RecoverList, RecoverSupersede,
       RecoverSuperseded, RecoverFail, RecoverCancel, RecoverRecompute
<1>6. proc' \in {proc, "wiring"}
  BY DEF Recovery, RecoverSelect, RecoverClosed, RecoverList, RecoverSupersede,
     RecoverSuperseded, RecoverEnqueue, RecoverFail, RecoverCancel, RecoverRecompute
<1>7. ProcessOK' BY <1>1, <1>2, <1>5, <1>6 DEF ByRecovery, bounds, ProcessOK
<1>8. RowsOK' /\ RolloutOK' /\ HistoryOK'
  BY <1>1, <1>3, <1>4, <1>5 DEF ByRecovery, history, RowsOK, RolloutOK, HistoryOK
<1>9. QED BY <1>7, <1>8

LEMMA ProcessType ==
  ASSUME TypeOK, Wire \/ Start \/ Crash \/ Stop \/ Exit \/ AllServed PROVE TypeOK'
<1> USE DEF TypeOK, db, rollout, history, bounds
<1>1. ASSUME Dies, stops' \in Nat, crashes' \in Nat PROVE TypeOK'
  <2>1. RolloutOK' BY <1>1, ConstantTypes DEF Dies, RolloutOK
  <2>2. handler' \in [Deploys -> HandlerPcs] BY <1>1 DEF Dies, HandlerPcs
  <2>3. ProcessOK' BY <1>1, <2>2, ConstantTypes DEF Dies, ProcessOK
  <2>4. RowsOK' /\ HistoryOK' BY <1>1 DEF Dies, RowsOK, HistoryOK
  <2>5. QED BY <2>1, <2>3, <2>4
<1>2. CASE Wire BY <1>2 DEF Wire, RowsOK, ProcessOK, RolloutOK, HistoryOK
<1>3. CASE Start BY <1>3, ConstantTypes DEF Start, RowsOK, ProcessOK, RolloutOK, HistoryOK
<1>4. CASE Crash BY <1>1, <1>4 DEF Crash, ProcessOK
<1>5. CASE Stop BY <1>5 DEF Stop, RowsOK, ProcessOK, RolloutOK, HistoryOK
<1>6. CASE Exit BY <1>1, <1>6 DEF Exit, ProcessOK
<1>7. CASE AllServed BY <1>7 DEF AllServed, vars, RowsOK, ProcessOK, RolloutOK, HistoryOK
<1>8. QED BY <1>2, <1>3, <1>4, <1>5, <1>6, <1>7

LEMMA TypeStep == ASSUME TypeOK, [Next]_vars PROVE TypeOK'
<1>1. CASE Next
  BY <1>1, HandlerType, LoopType, WorkerType, RecomputeType, RecoveryType, ProcessType DEF Next
<1>2. CASE UNCHANGED vars
  BY <1>2 DEF vars, db, rollout, history, bounds, TypeOK, RowsOK, ProcessOK, RolloutOK, HistoryOK
<1>3. QED BY <1>1, <1>2

\* The rows, counters and goroutines of Rollout keep their types, whatever
\* handlers, loops, workers and recoveries interleave.
THEOREM TypeCorrect == Spec => []TypeOK
  BY InitType, TypeStep, PTL DEF Spec

-----------------------------------------------------------------------------
(***************************************************************************)
(* SafetyInv is inductive, and what follows from it.                       *)
(***************************************************************************)

LEMMA InitSafety == ASSUME Init PROVE SafetyInv
<1>1. /\ \A d \in Deploys : ~On(d)
      /\ \A d \in Deploys, i \in Instances : worker[d][i].pc = "off"
      /\ \A d \in Deploys, p \in Members : rc[d][p].pc = "idle"
  BY DEF Init, NoGoroutines, NoRun, NoWorker, NoRecompute, On
<1>2. SlotInv BY <1>1 DEF Init, SlotInv
<1>3. BornInv
  <2>1. \A d \in Deploys : d # None BY DeploysAssumption DEF None
  <2>2. QED BY <1>1, <2>1 DEF Init, BornInv, Untouched, NoRecovery
<1>4. NotifyInv BY <1>1 DEF Init, NotifyInv
<1>5. LaunchInv BY DEF Init, LaunchInv
<1>6. QED BY <1>2, <1>3, <1>4, <1>5 DEF SafetyInv

-----------------------------------------------------------------------------
(* Handlers                                                                 *)

LEMMA HandlerSafety ==
  ASSUME TypeOK, SafetyInv, NEW d \in Deploys, Handler(d) PROVE SafetyInv'
<1> USE DEF TypeOK, SafetyInv
<1> run \in [Deploys -> Runs] /\ handler \in [Deploys -> HandlerPcs]
  BY DEF RolloutOK, ProcessOK
<1>1. UNCHANGED <<worker, rc, proc, recov, launched>>
  BY DEF Handler, Build, CreateBroken, Create, CreateFails, EnqueueFree, EnqueueWait,
     EnqueueReplace, EnqueueReplaced, ReplaceFails, rollout, history
<1>2. \/ UNCHANGED <<run, busy>>
      \/ ~busy /\ StartLoop(d) /\ Serving /\ ~Unborn(d)
  BY DEF Handler, Build, CreateBroken, Create, CreateFails, EnqueueFree, EnqueueWait, ServiceFree,
     EnqueueReplace, EnqueueReplaced, ReplaceFails, rollout, Unborn
<1>3. /\ \A e \in Deploys \ {d} : handler'[e] = handler[e]
      /\ Unborn(d)' => Unborn(d) /\ UNCHANGED <<db, pending, run, notified>>
  <2>1. \E pc : handler' = [handler EXCEPT ![d] = pc]
    BY DEF Handler, Build, CreateBroken, Create, CreateFails, EnqueueFree, EnqueueWait,
       EnqueueReplace, EnqueueReplaced, ReplaceFails
  <2>2. Unborn(d)' => Build(d)
    BY DEF Handler, CreateBroken, Create, CreateFails, EnqueueFree, EnqueueWait,
       EnqueueReplace, EnqueueReplaced, ReplaceFails, Unborn
  <2>3. QED BY <2>1, <2>2 DEF Build, Unborn, rollout, history
<1>4. pending # None => pending \in Deploys /\ ~Unborn(pending)
  BY DEF ProcessOK, BornInv, Untouched
<1>5. SlotInv'
  <2>1. CASE UNCHANGED <<run, busy>> BY <1>1, <2>1 DEF SlotInv, On
  <2>2. CASE ~busy /\ StartLoop(d) /\ Serving
    <3>1. \A e \in Deploys : ~On(e) BY <2>2 DEF SlotInv
    <3>2. \A e \in Deploys : On(e)' => e = d BY <3>1, <2>2 DEF StartLoop, On
    <3>3. \A e \in Deploys, i \in Instances : worker'[e][i].pc = "off"
      BY <1>1, <3>1 DEF SlotInv, On
    <3>4. QED BY <1>1, <2>2, <3>2, <3>3 DEF SlotInv, StartLoop, Serving
  <2>3. QED BY <1>2, <2>1, <2>2
<1>6. ASSUME NEW e \in Deploys, Unborn(e)'
      PROVE  /\ Unborn(e) /\ dstatus'[e] = dstatus[e] /\ finished'[e] = finished[e]
             /\ run'[e] = run[e] /\ exec'[e] = exec[e] /\ pending' # e
  <2>1. CASE e = d BY <1>3, <1>6, <2>1 DEF db, BornInv, Untouched
  <2>2. CASE e # d
    <3>1. Unborn(e) BY <1>3, <1>6, <2>2 DEF Unborn
    <3>2. e # pending BY <1>4, <3>1 DEF BornInv, Untouched
    <3>3. run'[e] = run[e] BY <1>2, <2>2 DEF StartLoop
    <3>4. exec'[e] = exec[e]
      BY <2>2, <3>2 DEF Handler, Build, CreateBroken, Create, CreateFails, EnqueueFree,
         EnqueueWait, EnqueueReplace, EnqueueReplaced, ReplaceFails, db, Sweep, RowsOK
    <3>5. dstatus'[e] = dstatus[e] /\ finished'[e] = finished[e]
      BY <2>2, <3>2 DEF Handler, Build, CreateBroken, Create, CreateFails, EnqueueFree,
         EnqueueWait, EnqueueReplace, EnqueueReplaced, ReplaceFails, db, SupersedeRow, RowsOK
    <3>6. pending' # e
      BY <2>2, <3>2 DEF Handler, Build, CreateBroken, Create, CreateFails, EnqueueFree,
         EnqueueWait, EnqueueReplace, EnqueueReplaced, ReplaceFails
    <3>7. QED BY <3>1, <3>3, <3>4, <3>5, <3>6
  <2>3. QED BY <2>1, <2>2
<1>7. BornInv' BY <1>1, <1>6 DEF BornInv, Untouched, On
<1>8. NotifyInv'
  <2>1. CASE CreateBroken(d)
    <3>1. ~finished[d] /\ \A p \in Members : rc[d][p].pc = "idle"
      BY <2>1 DEF CreateBroken, BornInv, Untouched, Unborn
    <3>2. notified[d] = 0 BY <3>1 DEF NotifyInv, HistoryOK
    <3>3. /\ notified' = [notified EXCEPT ![d] = 1]
          /\ finished' = [finished EXCEPT ![d] = TRUE]
      BY <2>1, <3>2 DEF CreateBroken
    <3>4. QED BY <1>1, <3>1, <3>3 DEF NotifyInv, HistoryOK, RowsOK
  <2>2. CASE ~CreateBroken(d)
    <3>1. UNCHANGED notified /\ \A e \in Deploys : finished[e] => finished'[e]
      BY <2>2 DEF Handler, Build, Create, CreateFails, EnqueueFree, EnqueueWait, EnqueueReplace,
         EnqueueReplaced, ReplaceFails, db, history, SupersedeRow, RowsOK
    <3>2. QED BY <1>1, <3>1 DEF NotifyInv
  <2>3. QED BY <2>1, <2>2
<1>9. LaunchInv'
  <2>1. CASE Create(d)
    <3>1. \A i \in Instances : launched[d][i] = 0 BY <2>1 DEF Create, BornInv, Untouched, Unborn
    <3>2. \A e \in Deploys \ {d} : exec'[e] = exec[e] BY <2>1 DEF Create, RowsOK
    <3>3. QED BY <1>1, <3>1, <3>2 DEF LaunchInv
  <2>2. CASE EnqueueReplace(d)
    <3>1. \A e \in Deploys, i \in Instances : exec'[e][i] \in {exec[e][i], "superseded"}
      BY <2>2 DEF EnqueueReplace, Sweep, RowsOK
    <3>2. QED BY <1>1, <3>1 DEF LaunchInv
  <2>3. CASE UNCHANGED exec BY <1>1, <2>3 DEF LaunchInv
  <2>4. QED
    BY <2>1, <2>2, <2>3 DEF Handler, Build, CreateBroken, CreateFails, EnqueueFree, EnqueueWait,
       EnqueueReplaced, ReplaceFails, db
<1>10. QED BY <1>5, <1>7, <1>8, <1>9

-----------------------------------------------------------------------------
(* The loop                                                                 *)

LEMMA LoopSafety ==
  ASSUME TypeOK, SafetyInv, NEW d \in Deploys, LoopStep(d) PROVE SafetyInv'
<1> USE DEF TypeOK, SafetyInv
<1> /\ run \in [Deploys -> Runs] /\ worker \in [Deploys -> [Instances -> Workers]]
    /\ rc \in [Deploys -> [Members -> Recomputes]]
  BY DEF RolloutOK
<1>1. UNCHANGED <<proc, recov, handler, finished, launched, notified>>
  BY DEF LoopStep, Load, LoadFails, CancelWave, FirstAlone, WholeWave, JoinFirst, FanOut,
     Join, FanDone, CancelOne, SweepDone, LastWaveDone, Cleanup, NextDeploy, EndWave, ByLoop,
     db, history
<1>2. On(d) /\ busy /\ \A e \in Deploys \ {d} : ~On(e)
  <2>1. On(d)
    BY DEF LoopStep, Load, LoadFails, CancelWave, FirstAlone, WholeWave, JoinFirst, FanOut,
       Join, FanDone, CancelOne, SweepDone, LastWaveDone, Cleanup, NextDeploy, NextWave, At, On
  <2>2. QED BY <2>1 DEF SlotInv
<1>3. \A e \in Deploys : Unborn(e)' => Unborn(e) /\ e # d BY <1>1, <1>2 DEF BornInv, Untouched, Unborn
<1>4. ASSUME NEW e \in Deploys, e # d
      PROVE  /\ exec'[e] = exec[e] \/ (Cleanup(d) /\ e \in Expired)
             /\ worker'[e] = worker[e] /\ rc'[e] = rc[e]
             /\ dstatus'[e] = dstatus[e] \/ (Cleanup(d) /\ e \in Expired)
  <2>1. worker'[e] = worker[e] /\ rc'[e] = rc[e]
    BY <1>4 DEF LoopStep, Load, LoadFails, CancelWave, FirstAlone, WholeWave, JoinFirst, FanOut,
       Join, FanDone, CancelOne, SweepDone, LastWaveDone, Cleanup, NextDeploy, EndWave, Collected
  <2>2. exec'[e] = exec[e] \/ (Cleanup(d) /\ e \in Expired)
    BY <1>4 DEF LoopStep, Load, LoadFails, CancelWave, FirstAlone, WholeWave, JoinFirst, FanOut,
       Join, FanDone, CancelOne, SweepDone, LastWaveDone, Cleanup, NextDeploy, EndWave, db, RowsOK
  <2>3. dstatus'[e] = dstatus[e] \/ (Cleanup(d) /\ e \in Expired)
    BY <1>4 DEF LoopStep, Load, LoadFails, CancelWave, FirstAlone, WholeWave, JoinFirst, FanOut,
       Join, FanDone, CancelOne, SweepDone, LastWaveDone, Cleanup, NextDeploy, EndWave, db, RowsOK
  <2>4. QED BY <2>1, <2>2, <2>3
<1>5. ASSUME ~NextDeploy(d) PROVE SlotInv' /\ BornInv'
  <2>1. UNCHANGED <<busy, pending>>
    BY <1>5 DEF LoopStep, Load, LoadFails, CancelWave, FirstAlone, WholeWave, JoinFirst, FanOut,
       Join, FanDone, CancelOne, SweepDone, LastWaveDone, Cleanup, EndWave
  <2>2. \E r : Becomes(d, r)
    BY <1>5 DEF LoopStep, Load, LoadFails, CancelWave, FirstAlone, WholeWave, JoinFirst, FanOut,
       Join, FanDone, CancelOne, SweepDone, LastWaveDone, Cleanup, Begun, Goto
  <2>3. \A e \in Deploys \ {d} : run'[e] = run[e] BY <2>2 DEF Becomes
  <2>4. ASSUME NEW i \in Instances, worker'[d][i].pc # "off"
        PROVE  run'[d].pc \in {"first", "join"}
    <3>1. CASE FirstAlone(d) BY <3>1 DEF FirstAlone, Begun, Becomes, Runs
    <3>2. CASE FanOut(d) BY <3>2 DEF FanOut, Becomes, Runs
    <3>3. CASE JoinFirst(d) \/ Join(d)
      <4>1. worker' = [worker EXCEPT ![d] = [j \in Instances |-> NoWorker]]
        BY <3>3 DEF JoinFirst, Join, Collected
      <4>2. QED BY <2>4, <4>1 DEF NoWorker
    <3>4. CASE UNCHANGED worker /\ run[d].pc \notin {"first", "join"}
      BY <2>4, <3>4 DEF SlotInv
    <3>5. QED
      BY <1>5, <3>1, <3>2, <3>3, <3>4 DEF LoopStep, Load, LoadFails, CancelWave, WholeWave,
         FanDone, CancelOne, SweepDone, LastWaveDone, Cleanup, NextWave, At
  <2>5. SlotInv'
    <3>1. \A e \in Deploys : On(e)' => On(e) BY <1>2, <2>3 DEF On
    <3>2. \A e \in Deploys, i \in Instances :
            worker'[e][i].pc # "off" => run'[e].pc \in {"first", "join"}
      BY <1>4, <2>3, <2>4 DEF SlotInv
    <3>3. QED BY <1>1, <2>1, <3>1, <3>2 DEF SlotInv
  <2>6. BornInv'
    <3>1. ASSUME NEW e \in Deploys, Unborn(e)'
          PROVE  /\ Unborn(e) /\ dstatus'[e] = dstatus[e] /\ exec'[e] = exec[e]
                 /\ run'[e] = run[e] /\ rc'[e] = rc[e]
      <4>1. Unborn(e) /\ e # d BY <1>3, <3>1
      <4>2. e \notin Expired BY <4>1 DEF BornInv, Untouched, Expired, Terminal, TerminalStatuses, NoRow
      <4>3. QED BY <1>4, <2>3, <4>1, <4>2
    <3>2. ASSUME NEW e \in Deploys, Unborn(e)' PROVE Untouched(e)'
      <4>1. Untouched(e) BY <3>1, <3>2 DEF BornInv
      <4>2. QED BY <1>1, <2>1, <3>1, <3>2, <4>1 DEF Untouched, On
    <3>3. QED BY <3>2 DEF BornInv
  <2>7. QED BY <2>5, <2>6
<1>6. ASSUME NextDeploy(d) PROVE SlotInv' /\ BornInv'
  <2>1. /\ UNCHANGED <<db, worker, rc>>
        /\ \/ /\ pending \in Deploys /\ UNCHANGED busy /\ pending' = None
              /\ run' = [run EXCEPT ![d] = NoRun, ![pending] = [NoRun EXCEPT !.pc = "load"]]
           \/ busy' = FALSE /\ UNCHANGED pending /\ run' = [run EXCEPT ![d] = NoRun]
    BY <1>6 DEF NextDeploy, TakesPending, SlotAfter, ProcessOK
  <2>2. \A e \in Deploys : On(e)' => e = pending /\ UNCHANGED busy
    <3>1. NoRun.pc = "off" BY DEF NoRun
    <3>2. \A e \in Deploys : run'[e].pc # "off" => e = pending /\ UNCHANGED busy
      <4>1. CASE run' = [run EXCEPT ![d] = NoRun] BY <1>2, <3>1, <4>1 DEF On
      <4>2. CASE /\ pending \in Deploys /\ UNCHANGED busy
                 /\ run' = [run EXCEPT ![d] = NoRun, ![pending] = [NoRun EXCEPT !.pc = "load"]]
        <5>1. \A e \in Deploys : e # d /\ e # pending => run'[e] = run[e] BY <4>2
        <5>2. d # pending => run'[d] = NoRun BY <4>2
        <5>3. QED BY <1>2, <3>1, <4>2, <5>1, <5>2 DEF On
      <4>3. QED BY <2>1, <4>1, <4>2
    <3>3. QED BY <3>2 DEF On
  <2>3. \A e \in Deploys, i \in Instances : worker'[e][i].pc = "off"
    BY <1>2, <1>6, <2>1 DEF SlotInv, NextDeploy, At, On
  <2>4. proc \notin {"down", "recovering"} BY <1>2 DEF SlotInv
  <2>5. SlotInv'
    <3>1. \A e \in Deploys : On(e)' => busy' BY <1>2, <2>2
    <3>2. QED BY <1>1, <2>2, <2>3, <2>4, <3>1 DEF SlotInv
  <2>6. BornInv'
    <3>1. \A e \in Deploys : e # None BY DeploysAssumption DEF None
    <3>2. \A e \in Deploys : Unborn(e)' => Unborn(e) /\ ~On(e)' /\ pending' # e
      BY <1>3, <2>1, <2>2, <3>1 DEF BornInv, Untouched
    <3>3. ASSUME NEW e \in Deploys, Unborn(e)' PROVE Untouched(e)'
      <4>1. Untouched(e) /\ ~On(e)' /\ pending' # e BY <3>2, <3>3 DEF BornInv
      <4>2. QED BY <1>1, <2>1, <4>1 DEF Untouched, db
    <3>4. QED BY <3>3 DEF BornInv
  <2>7. QED BY <2>5, <2>6
<1>7. NotifyInv'
  <2>1. \A e \in Deploys, p \in Members : rc'[e][p].pc = "notify" => rc[e][p].pc = "notify"
    <3>1. UNCHANGED rc \/ rc' = [rc EXCEPT ![d][Loop] = Recompute]
      BY DEF LoopStep, Load, LoadFails, CancelWave, FirstAlone, WholeWave, JoinFirst, FanOut,
         Join, FanDone, CancelOne, SweepDone, LastWaveDone, Cleanup, NextDeploy, EndWave
    <3>2. Recompute.pc = "read" BY DEF Recompute, NoRecompute
    <3>3. QED BY <3>1, <3>2
  <2>2. QED BY <1>1, <2>1 DEF NotifyInv
<1>8. LaunchInv'
  <2>1. \A e \in Deploys, i \in Instances : exec'[e][i] \in {exec[e][i], "canceled", NoRow}
    <3>1. CASE CancelOne(d)
      <4>1. PICK i \in Instances : exec' = [exec EXCEPT ![d][i] = "canceled"] \/ exec' = exec
        BY <3>1, RunTypes DEF CancelOne
      <4>2. exec \in [Deploys -> [Instances -> Statuses \cup {NoRow}]] BY DEF RowsOK
      <4>3. \A e \in Deploys, j \in Instances :
              [exec EXCEPT ![d][i] = "canceled"][e][j] \in {exec[e][j], "canceled"}
        BY <4>2
      <4>4. QED BY <4>1, <4>3
    <3>2. CASE Cleanup(d) BY <3>2 DEF Cleanup
    <3>3. CASE UNCHANGED exec BY <3>3
    <3>4. QED
      BY <3>1, <3>2, <3>3 DEF LoopStep, Load, LoadFails, CancelWave, FirstAlone, WholeWave,
         JoinFirst, FanOut, Join, FanDone, SweepDone, LastWaveDone, NextDeploy, EndWave, db
  <2>2. QED BY <1>1, <2>1 DEF LaunchInv, NoRow
<1>9. QED BY <1>5, <1>6, <1>7, <1>8

-----------------------------------------------------------------------------
(* Workers and recomputes                                                   *)

LEMMA WorkerSafety ==
  ASSUME TypeOK, SafetyInv, NEW d \in Deploys, NEW i \in Instances, WorkerStep(d, i)
  PROVE  SafetyInv'
<1> USE DEF TypeOK, SafetyInv
<1> /\ worker \in [Deploys -> [Instances -> Workers]]
    /\ rc \in [Deploys -> [Members -> Recomputes]]
    /\ exec \in [Deploys -> [Instances -> Statuses \cup {NoRow}]]
    /\ launched \in [Deploys -> [Instances -> Nat]]
    /\ i \in Members
  BY DEF RolloutOK, RowsOK, HistoryOK, Members
<1>1. ByWorker /\ worker[d][i].pc # "off"
  BY DEF WorkerStep, Dispatch, Launch, AcquireFails, Execute, TransitionFails, WorkerAt
<1>2. On(d) /\ ~Unborn(d)
  <2>1. On(d) BY <1>1 DEF SlotInv, On
  <2>2. QED BY <2>1 DEF BornInv, Untouched
<1>3. PICK v : worker' = [worker EXCEPT ![d][i] = v]
  BY DEF WorkerStep, Dispatch, Launch, AcquireFails, Execute, TransitionFails
<1>4. UNCHANGED rc \/ rc' = [rc EXCEPT ![d][i] = Recompute]
  BY DEF WorkerStep, Dispatch, Launch, AcquireFails, Execute, TransitionFails, Transition
<1>5. \/ UNCHANGED <<exec, launched>>
      \/ /\ exec[d][i] = "queued" /\ UNCHANGED launched
         /\ exec' = [exec EXCEPT ![d][i] = "dispatching"]
      \/ /\ exec[d][i] = "dispatching" /\ launched' = [launched EXCEPT ![d][i] = @ + 1]
         /\ exec' = [exec EXCEPT ![d][i] = "running"]
      \/ /\ UNCHANGED launched
         /\ \E to \in {"unreachable", "failed", "succeeded"} :
              exec' = [exec EXCEPT ![d][i] = to]
  <2>1. CASE Dispatch(d, i) BY <2>1 DEF Dispatch, Transition, StillIn
  <2>2. CASE Launch(d, i) BY <2>2 DEF Launch, Transition, StillIn
  <2>3. CASE AcquireFails(d, i) BY <2>3 DEF AcquireFails, Transition
  <2>4. CASE Execute(d, i) BY <2>4 DEF Execute, Transition
  <2>5. CASE TransitionFails(d, i) BY <2>5 DEF TransitionFails
  <2>6. QED BY <2>1, <2>2, <2>3, <2>4, <2>5 DEF WorkerStep
<1>6. SlotInv'
  <2>1. \A e \in Deploys, j \in Instances : worker'[e][j].pc # "off" => worker[e][j].pc # "off"
    BY <1>1, <1>3
  <2>2. QED BY <1>1, <2>1 DEF ByWorker, ByLoop, SlotInv, On
<1>7. BornInv'
  <2>1. ASSUME NEW e \in Deploys, Unborn(e)' PROVE Untouched(e)'
    <3>1. Unborn(e) /\ e # d BY <1>1, <1>2, <2>1 DEF ByWorker, ByLoop, Unborn
    <3>2. rc'[e] = rc[e] /\ exec'[e] = exec[e] /\ launched'[e] = launched[e]
      BY <1>4, <1>5, <3>1
    <3>3. Untouched(e) BY <3>1 DEF BornInv
    <3>4. QED BY <1>1, <3>2, <3>3 DEF ByWorker, ByLoop, Untouched, On
  <2>2. QED BY <2>1 DEF BornInv
<1>8. NotifyInv'
  <2>1. Recompute.pc = "read" BY DEF Recompute, NoRecompute
  <2>2. \A e \in Deploys, p \in Members : rc'[e][p].pc = "notify" => rc[e][p].pc = "notify"
    BY <1>4, <2>1
  <2>3. QED BY <1>1, <2>2 DEF ByWorker, NotifyInv
<1>9. LaunchInv'
  <2>1. exec[d][i] \in {"queued", "dispatching"} => launched[d][i] = 0
    BY DEF LaunchInv
  <2>2. CASE UNCHANGED <<exec, launched>> BY <2>2 DEF LaunchInv
  <2>3. CASE /\ exec[d][i] = "queued" /\ UNCHANGED launched
             /\ exec' = [exec EXCEPT ![d][i] = "dispatching"]
    BY <2>1, <2>3 DEF LaunchInv
  <2>4. CASE /\ exec[d][i] = "dispatching" /\ launched' = [launched EXCEPT ![d][i] = @ + 1]
             /\ exec' = [exec EXCEPT ![d][i] = "running"]
    BY <2>1, <2>4 DEF LaunchInv
  <2>5. CASE /\ UNCHANGED launched
             /\ \E to \in {"unreachable", "failed", "succeeded"} :
                  exec' = [exec EXCEPT ![d][i] = to]
    BY <2>5 DEF LaunchInv
  <2>6. QED BY <1>5, <2>2, <2>3, <2>4, <2>5
<1>10. QED BY <1>6, <1>7, <1>8, <1>9

LEMMA RecomputeSafety ==
  ASSUME TypeOK, SafetyInv, NEW d \in Deploys, NEW p \in Members, RecomputeStep(d, p)
  PROVE  SafetyInv'
<1> USE DEF TypeOK, SafetyInv
<1> /\ rc \in [Deploys -> [Members -> Recomputes]] /\ finished \in [Deploys -> BOOLEAN]
    /\ dstatus \in [Deploys -> Statuses \cup {NoRow}] /\ notified \in [Deploys -> Nat]
  BY DEF RolloutOK, RowsOK, HistoryOK
<1>1. ByRecompute /\ rc[d][p].pc # "idle"
  BY DEF RecomputeStep, RecomputeRead, RecomputeWrite, RecomputeNotify, RecomputeFails
<1>2. ~Unborn(d) BY <1>1 DEF BornInv, Untouched
<1>3. PICK c : rc' = [rc EXCEPT ![d][p] = c]
  BY DEF RecomputeStep, RecomputeRead, RecomputeWrite, RecomputeNotify, RecomputeFails,
     RecomputeEnds
<1>4. \A e \in Deploys \ {d} :
        dstatus'[e] = dstatus[e] /\ finished'[e] = finished[e] /\ notified'[e] = notified[e]
  BY DEF RecomputeStep, RecomputeRead, RecomputeWrite, RecomputeNotify, RecomputeFails,
     WriteDeploy
<1>5. SlotInv' BY <1>1 DEF ByRecompute, ByLoop, SlotInv, On
<1>6. BornInv'
  <2>1. ASSUME NEW e \in Deploys, Unborn(e)' PROVE Untouched(e)'
    <3>1. Unborn(e) /\ e # d BY <1>1, <1>2, <2>1 DEF ByRecompute, ByLoop, Unborn
    <3>2. rc'[e] = rc[e] /\ Untouched(e) BY <1>3, <3>1 DEF BornInv
    <3>3. QED BY <1>1, <1>4, <3>1, <3>2 DEF ByRecompute, ByLoop, Untouched, On
  <2>2. QED BY <2>1 DEF BornInv
<1>7. LaunchInv' BY <1>1 DEF ByRecompute, LaunchInv
<1>8. NotifyInv'
  <2>1. NoRecompute.pc = "idle" BY DEF NoRecompute
  <2>2. CASE rc[d][p].pc = "write" /\ ~finished[d] /\ finished'[d] /\ UNCHANGED notified
    <3>1. notified[d] = 0 /\ \A q \in Members : rc[d][q].pc # "notify"
      BY <2>2 DEF NotifyInv
    <3>2. \A q \in Members : rc'[d][q].pc = "notify" => q = p BY <1>3, <3>1
    <3>3. \A e \in Deploys \ {d} : rc'[e] = rc[e] BY <1>3
    <3>4. QED BY <1>4, <2>2, <3>1, <3>2, <3>3 DEF NotifyInv
  <2>3. CASE RecomputeNotify(d, p)
    <3>1. finished[d] /\ notified[d] = 0 /\ \A q \in Members : rc[d][q].pc = "notify" => p = q
      BY <2>3 DEF RecomputeNotify, NotifyInv
    <3>2. notified'[d] = 1 /\ UNCHANGED finished BY <2>3, <3>1 DEF RecomputeNotify
    <3>3. rc' = [rc EXCEPT ![d][p] = NoRecompute] BY <2>3 DEF RecomputeNotify, RecomputeEnds
    <3>4. \A q \in Members : rc'[d][q].pc # "notify" BY <2>1, <3>1, <3>3
    <3>5. \A e \in Deploys \ {d} : rc'[e] = rc[e] BY <1>3
    <3>6. QED BY <1>4, <3>1, <3>2, <3>4, <3>5 DEF NotifyInv
  <2>4. CASE UNCHANGED <<finished, notified>> /\ c.pc # "notify"
    <3>1. \A e \in Deploys, q \in Members : rc'[e][q].pc = "notify" => rc[e][q].pc = "notify"
      BY <1>3, <2>4
    <3>2. QED BY <2>4, <3>1 DEF NotifyInv
  <2>5. QED
    <3>1. c = rc'[d][p] BY <1>3
    <3>2. CASE RecomputeRead(d, p) \/ RecomputeFails(d, p)
      BY <2>1, <2>4, <3>1, <3>2 DEF RecomputeRead, RecomputeFails, RecomputeEnds
    <3>3. CASE RecomputeWrite(d, p)
      <4>1. CASE rc[d][p].over /\ ~finished[d]
        BY <2>2, <3>3, <4>1 DEF RecomputeWrite, WriteDeploy, CanFinish
      <4>2. CASE ~(rc[d][p].over /\ ~finished[d])
        BY <2>1, <2>4, <3>1, <3>3, <4>2 DEF RecomputeWrite, WriteDeploy, CanFinish, RecomputeEnds
      <4>3. QED BY <4>1, <4>2
    <3>4. QED BY <2>3, <3>2, <3>3 DEF RecomputeStep
<1>9. QED BY <1>5, <1>6, <1>7, <1>8

-----------------------------------------------------------------------------
(* Recovery and the process                                                 *)

LEMMA RecoverySafety == ASSUME TypeOK, SafetyInv, Recovery PROVE SafetyInv'
<1> USE DEF TypeOK, SafetyInv
<1> /\ run \in [Deploys -> Runs] /\ finished \in [Deploys -> BOOLEAN] /\ recov \in Recoveries
    /\ dstatus \in [Deploys -> Statuses \cup {NoRow}]
    /\ exec \in [Deploys -> [Instances -> Statuses \cup {NoRow}]]
  BY DEF RolloutOK, RowsOK, ProcessOK
<1>1. ByRecovery /\ proc = "recovering"
  BY DEF Recovery, RecoverSelect, RecoverClosed, RecoverList, RecoverSupersede, RecovAt,
     RecoverSuperseded, RecoverEnqueue, RecoverFail, RecoverCancel, RecoverRecompute
<1>2. ~busy /\ \A e \in Deploys : ~On(e) /\ \A i \in Instances : worker[e][i].pc = "off"
  BY <1>1 DEF SlotInv, On
<1>3. /\ recov.ids \subseteq Deploys /\ recov.todo \subseteq Deploys
      /\ recov.half \in Deploys \cup {None} /\ recov.latest \in Deploys \cup {None}
  BY DEF Recoveries
<1>4. \A e \in Deploys : finished[e] => finished'[e]
  BY DEF Recovery, RecoverSelect, RecoverClosed, RecoverList, RecoverSupersede,
     RecoverSuperseded, RecoverEnqueue, RecoverFail, RecoverCancel, RecoverRecompute,
     SupersedeRow, WriteDeploy
<1>5. \A e \in Deploys, i \in Instances :
        exec'[e][i] \in {exec[e][i], "failed", "canceled", "superseded"}
  <2>1. ASSUME NEW d \in Deploys, NEW from, NEW to \in {"failed", "canceled", "superseded"},
               Sweep(d, from, to)
        PROVE  \A e \in Deploys, i \in Instances :
                 exec'[e][i] \in {exec[e][i], "failed", "canceled", "superseded"}
    BY <2>1 DEF Sweep
  <2>2. CASE RecoverSupersede
    <3>1. PICK d \in Deploys : Sweep(d, {"queued"}, "superseded")
      BY <1>3, <2>2 DEF RecoverSupersede
    <3>2. QED BY <2>1, <3>1
  <2>3. CASE \E d \in Deploys : RecoverFail(d) \/ RecoverCancel(d)
    BY <2>1, <2>3 DEF RecoverFail, RecoverCancel
  <2>4. CASE UNCHANGED exec BY <2>4
  <2>5. QED
    BY <2>2, <2>3, <2>4 DEF Recovery, RecoverSelect, RecoverClosed, RecoverList,
       RecoverSuperseded, RecoverEnqueue, RecoverRecompute
<1>6. SlotInv'
  <2>1. CASE RecoverEnqueue
    <3>1. \A e \in Deploys : On(e)' => e = recov.latest /\ busy'
      BY <1>2, <2>1 DEF RecoverEnqueue, StartLoop, On
    <3>2. QED BY <1>1, <1>2, <2>1, <3>1 DEF RecoverEnqueue, ByRecovery, SlotInv
  <2>2. CASE ~RecoverEnqueue
    <3>1. UNCHANGED <<proc, busy, run>>
      BY <2>2 DEF Recovery, RecoverSelect, RecoverClosed, RecoverList, RecoverSupersede,
         RecoverSuperseded, RecoverFail, RecoverCancel, RecoverRecompute
    <3>2. QED BY <1>1, <3>1 DEF ByRecovery, SlotInv, On
  <2>3. QED BY <2>1, <2>2
<1>7. BornInv'
  <2>1. ASSUME NEW e \in Deploys, Unborn(e)' PROVE Untouched(e)'
    <3>1. Unborn(e) BY <1>1, <2>1 DEF ByRecovery, Unborn
    <3>2. Untouched(e) BY <3>1 DEF BornInv
    <3>3. dstatus'[e] = dstatus[e] /\ finished'[e] = finished[e] /\ exec'[e] = exec[e]
      BY <3>2 DEF Recovery, RecoverSelect, RecoverClosed, RecoverList, RecoverSupersede,
         RecoverSuperseded, RecoverEnqueue, RecoverFail, RecoverCancel, RecoverRecompute,
         SupersedeRow, WriteDeploy, Sweep, Untouched
    <3>4. /\ e \notin recov'.ids /\ e \notin recov'.todo
          /\ recov'.half # e /\ recov'.latest # e
      <4>1. e # None BY DeploysAssumption DEF None
      <4>2. e \notin LeftUnfinished /\ e \notin Waiting
        BY <3>2 DEF Untouched, LeftUnfinished, Waiting, NoRow
      <4> USE <3>2 DEF Untouched, Recoveries
      <4>3. CASE RecoverSelect \/ RecoverClosed BY <4>2, <4>3 DEF RecoverSelect, RecoverClosed
      <4>4. CASE RecoverList
        <5>1. PICK latest \in Deploys \cup {None} :
                /\ latest \in Waiting \/ latest = None
                /\ recov' = [recov EXCEPT !.pc = "supersede", !.todo = Waiting \ {latest},
                                          !.latest = latest]
          BY <4>4 DEF RecoverList, Last
        <5>2. QED BY <4>1, <4>2, <5>1
      <4>5. CASE RecoverSupersede
        <5>1. PICK d \in recov.todo : recov' = [recov EXCEPT !.half = d]
          BY <4>5 DEF RecoverSupersede
        <5>2. QED BY <5>1
      <4>s. CASE RecoverSuperseded
        <5>1. recov' = [recov EXCEPT !.half = None, !.todo = @ \ {recov.half}]
          BY <4>s DEF RecoverSuperseded
        <5>2. QED BY <4>1, <5>1
      <4>6. CASE RecoverEnqueue BY <4>1, <4>6 DEF RecoverEnqueue, NoRecovery
      <4>7. ASSUME NEW d \in Deploys, RecoverFail(d) \/ RecoverCancel(d) \/ RecoverRecompute(d)
            PROVE  /\ e \notin recov'.ids /\ e \notin recov'.todo
                   /\ recov'.half # e /\ recov'.latest # e
        <5>1. CASE RecoverFail(d) BY <5>1 DEF RecoverFail
        <5>2. CASE RecoverCancel(d) BY <4>1, <5>2 DEF RecoverCancel
        <5>3. CASE RecoverRecompute(d) BY <5>3 DEF RecoverRecompute
        <5>4. QED BY <4>7, <5>1, <5>2, <5>3
      <4>8. QED BY <4>3, <4>4, <4>5, <4>s, <4>6, <4>7 DEF Recovery
    <3>5. ~On(e)'
      BY <1>2, <3>2 DEF Recovery, RecoverSelect, RecoverClosed, RecoverList, RecoverSupersede,
         RecoverSuperseded, RecoverEnqueue, RecoverFail, RecoverCancel, RecoverRecompute,
         StartLoop, Untouched, On
    <3>6. QED BY <1>1, <3>2, <3>3, <3>4, <3>5 DEF ByRecovery, history, Untouched
  <2>2. QED BY <2>1 DEF BornInv
<1>8. NotifyInv' BY <1>1, <1>4 DEF ByRecovery, history, NotifyInv
<1>9. LaunchInv' BY <1>1, <1>5 DEF ByRecovery, history, LaunchInv
<1>10. QED BY <1>6, <1>7, <1>8, <1>9

LEMMA ProcessSafety ==
  ASSUME TypeOK, SafetyInv, Wire \/ Start \/ Crash \/ Stop \/ Exit \/ AllServed
  PROVE  SafetyInv'
<1> USE DEF TypeOK, SafetyInv, db, rollout, history
<1>1. ASSUME Dies PROVE SafetyInv'
  <2>1. /\ \A d \in Deploys : ~On(d)'
        /\ \A d \in Deploys, i \in Instances : worker'[d][i].pc = "off"
        /\ \A d \in Deploys, p \in Members : rc'[d][p].pc = "idle"
    BY <1>1 DEF Dies, NoRun, NoWorker, NoRecompute, On
  <2>2. SlotInv' BY <1>1, <2>1 DEF Dies, SlotInv
  <2>3. BornInv'
    <3>1. ASSUME NEW d \in Deploys, Unborn(d)' PROVE Untouched(d)'
      <4>1. Untouched(d) BY <1>1, <3>1 DEF Dies, Unborn, BornInv
      <4>2. d # None BY DeploysAssumption DEF None
      <4>3. QED BY <1>1, <2>1, <4>1, <4>2 DEF Dies, Untouched, NoRecovery
    <3>2. QED BY <3>1 DEF BornInv
  <2>4. NotifyInv' BY <1>1, <2>1 DEF Dies, NotifyInv
  <2>5. LaunchInv' BY <1>1 DEF Dies, LaunchInv
  <2>6. QED BY <2>2, <2>3, <2>4, <2>5
<1>2. ASSUME UNCHANGED <<db, handler, busy, pending, rollout, history>>,
             recov' = recov \/ recov' = [NoRecovery EXCEPT !.pc = "select"],
             proc' \in {"down", "recovering"} => proc \in {"down", "recovering"}
      PROVE  SafetyInv'
  <2>1. SlotInv' BY <1>2 DEF SlotInv, On
  <2>2. BornInv'
    <3>1. ASSUME NEW d \in Deploys, Unborn(d)' PROVE Untouched(d)'
      <4>1. Untouched(d) BY <1>2, <3>1 DEF Unborn, BornInv
      <4>2. d # None BY DeploysAssumption DEF None
      <4>3. QED BY <1>2, <4>1, <4>2 DEF Untouched, On, NoRecovery
    <3>2. QED BY <3>1 DEF BornInv
  <2>3. NotifyInv' /\ LaunchInv' BY <1>2 DEF NotifyInv, LaunchInv
  <2>4. QED BY <2>1, <2>2, <2>3
<1>3. CASE Crash \/ Exit BY <1>1, <1>3 DEF Crash, Exit
<1>4. CASE Wire \/ Start \/ Stop BY <1>2, <1>4 DEF Wire, Start, Stop
<1>5. CASE AllServed BY <1>2, <1>5 DEF AllServed, vars
<1>6. QED BY <1>3, <1>4, <1>5

LEMMA SafetyStep == ASSUME TypeOK, SafetyInv, [Next]_vars PROVE SafetyInv'
<1>1. CASE Next
  BY <1>1, HandlerSafety, LoopSafety, WorkerSafety, RecomputeSafety, RecoverySafety,
     ProcessSafety DEF Next
<1>2. CASE UNCHANGED vars
  BY <1>2 DEF vars, db, rollout, history, bounds, SafetyInv, SlotInv, BornInv, NotifyInv,
     LaunchInv, On, Unborn, Untouched
<1>3. QED BY <1>1, <1>2

-----------------------------------------------------------------------------
(* Settled executions                                                       *)

LEMMA SweepFinal ==
  ASSUME RowsOK, NEW d, NEW from, NEW to, Sweep(d, from, to), \A s \in from : ~Terminal(s)
  PROVE  SettledStays
  BY DEF Sweep, SettledStays, RowsOK

LEMMA TransitionFinal ==
  ASSUME RowsOK, NEW d \in Deploys, NEW i \in Instances, NEW from, NEW to,
         Transition(d, i, from, to), ~Terminal(from)
  PROVE  SettledStays
  BY DEF Transition, StillIn, SettledStays, RowsOK

LEMMA FinalStep == ASSUME TypeOK, SafetyInv, Next PROVE SettledStays
<1> USE DEF TypeOK
<1>0. /\ ~Terminal("queued") /\ ~Terminal("dispatching") /\ ~Terminal("running")
      /\ ~Terminal(NoRow)
  BY DEF Terminal, TerminalStatuses, NoRow
<1>u. CASE UNCHANGED exec BY <1>u DEF SettledStays
<1>1. ASSUME NEW d \in Deploys, Handler(d) PROVE SettledStays
  <2>1. CASE Create(d)
    <3>1. \A i \in Instances : exec[d][i] = NoRow
      BY <2>1 DEF SafetyInv, BornInv, Untouched, Unborn, Create
    <3>2. \A e \in Deploys \ {d} : exec'[e] = exec[e] BY <2>1 DEF Create, RowsOK
    <3>3. QED BY <1>0, <3>1, <3>2 DEF SettledStays
  <2>2. CASE EnqueueReplace(d) BY <1>0, <2>2, SweepFinal DEF EnqueueReplace
  <2>3. QED
    BY <1>1, <1>u, <2>1, <2>2 DEF Handler, Build, CreateBroken, CreateFails, EnqueueFree,
       EnqueueWait, EnqueueReplaced, ReplaceFails, db
<1>2. ASSUME NEW d \in Deploys, LoopStep(d) PROVE SettledStays
  <2>1. CASE CancelOne(d)
    <3>1. PICK i \in Instances :
            \/ exec' = IF StillIn(d, i, "queued") THEN [exec EXCEPT ![d][i] = "canceled"] ELSE exec
            \/ UNCHANGED exec
      BY <2>1, RunTypes DEF CancelOne
    <3>2. QED BY <1>0, <1>u, <3>1 DEF StillIn, SettledStays, RowsOK
  <2>2. CASE Cleanup(d) BY <2>2 DEF Cleanup, SettledStays
  <2>3. QED
    BY <1>2, <1>u, <2>1, <2>2 DEF LoopStep, Load, LoadFails, CancelWave, FirstAlone, WholeWave,
       JoinFirst, FanOut, Join, FanDone, SweepDone, LastWaveDone, NextDeploy, EndWave, db
<1>3. ASSUME NEW d \in Deploys, NEW i \in Instances, WorkerStep(d, i) PROVE SettledStays
  <2>1. CASE Dispatch(d, i) BY <1>0, <2>1, TransitionFinal DEF Dispatch
  <2>2. CASE Launch(d, i) BY <1>0, <2>2, TransitionFinal DEF Launch
  <2>3. CASE AcquireFails(d, i) BY <1>0, <2>3, TransitionFinal DEF AcquireFails
  <2>4. CASE Execute(d, i)
    <3>1. UNCHANGED exec \/ \E to : Transition(d, i, "running", to) BY <2>4 DEF Execute
    <3>2. QED BY <1>0, <1>u, <3>1, TransitionFinal
  <2>5. CASE TransitionFails(d, i) BY <1>u, <2>5 DEF TransitionFails
  <2>6. QED BY <1>3, <2>1, <2>2, <2>3, <2>4, <2>5 DEF WorkerStep
<1>4. ASSUME NEW d \in Deploys, NEW p \in Members, RecomputeStep(d, p) PROVE SettledStays
  BY <1>4, <1>u DEF RecomputeStep, RecomputeRead, RecomputeWrite, RecomputeNotify,
     RecomputeFails, ByRecompute
<1>5. ASSUME Recovery PROVE SettledStays
  <2>1. CASE RecoverSupersede BY <1>0, <2>1, SweepFinal DEF RecoverSupersede
  <2>2. ASSUME NEW d \in Deploys, RecoverFail(d) PROVE SettledStays
    BY <1>0, <2>2, SweepFinal DEF RecoverFail, InFlightStatuses
  <2>3. ASSUME NEW d \in Deploys, RecoverCancel(d) PROVE SettledStays
    BY <1>0, <2>3, SweepFinal DEF RecoverCancel
  <2>4. QED
    BY <1>5, <1>u, <2>1, <2>2, <2>3 DEF Recovery, RecoverSelect, RecoverClosed, RecoverList,
       RecoverSuperseded, RecoverEnqueue, RecoverRecompute
<1>6. ASSUME Wire \/ Start \/ Crash \/ Stop \/ Exit \/ AllServed PROVE SettledStays
  BY <1>6, <1>u DEF Wire, Start, Crash, Stop, Exit, AllServed, Dies, db, vars
<1>7. QED BY <1>1, <1>2, <1>3, <1>4, <1>5, <1>6 DEF Next

-----------------------------------------------------------------------------
(* Theorems                                                                 *)

\* The slot, birth, notification and launch parts of SafetyInv hold in every
\* reachable state: they are the argument behind the theorems below.
THEOREM Safety == Spec => []SafetyInv
  BY InitType, InitSafety, TypeStep, SafetyStep, PTL DEF Spec

\* Strict serialization (scheduler.go): the executors of two deploys of a
\* service are never at work at the same time.
THEOREM Serialized == Spec => []OneRollout
<1>1. SafetyInv => OneRollout BY DEF SafetyInv, SlotInv, OneRollout, AtWork, On
<1>2. QED BY <1>1, Safety, PTL

\* Notify fires at most once for a deploy, whichever recompute ends it.
THEOREM NotifiedOnce == Spec => []NotifyOnce
<1>1. TypeOK /\ SafetyInv => NotifyOnce
  BY DEF TypeOK, HistoryOK, SafetyInv, NotifyInv, NotifyOnce
<1>2. QED BY <1>1, TypeCorrect, Safety, PTL

\* No execution is handed to an executor twice, across crashes and restarts.
THEOREM NeverRelaunched == Spec => []LaunchedOnce
<1>1. TypeOK /\ SafetyInv => LaunchedOnce
  BY DEF TypeOK, HistoryOK, SafetyInv, LaunchInv, LaunchedOnce
<1>2. QED BY <1>1, TypeCorrect, Safety, PTL

\* A settled execution never changes again, except that retention deletes it.
THEOREM SettledForGood == Spec => ExecutionsFinal
<1>1. TypeOK /\ SafetyInv /\ [Next]_vars => [SettledStays]_exec
  BY FinalStep DEF vars, db
<1>2. QED BY <1>1, TypeCorrect, Safety, PTL DEF Spec, ExecutionsFinal

=============================================================================
