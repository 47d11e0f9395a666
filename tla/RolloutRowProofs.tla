-------------------------- MODULE RolloutRowProofs --------------------------
(***************************************************************************)
(* Theorems about Rollout: a wave starts only when the waves before it let *)
(* it, what the rows of a deploy say is true, no deploy is forgotten while *)
(* no statement fails, the instances of a rollout run the same image, and  *)
(* until something fails Rollout implements DeployLane.                    *)
(***************************************************************************)
EXTENDS RolloutProofs

(* Waves: GateInv is inductive.                                             *)

Alike(e) == /\ run'[e] = run[e] /\ worker'[e] = worker[e]
            /\ launched'[e] = launched[e] /\ answer'[e] = answer[e]
            /\ Targets(e)' = Targets(e)
            /\ RootDone => RootDone'

LEMMA GateFrame ==
  ASSUME NEW e \in Deploys, ReportedOf(e), AnswerOf(e), GateOf(e), Alike(e)
  PROVE  ReportedOf(e)' /\ AnswerOf(e)' /\ GateOf(e)'
<1> USE DEF Alike
<1>1. \A i \in Instances :
        (Clear(e, i)' <=> Clear(e, i)) /\ (Admitted(e, i)' <=> Admitted(e, i))
  BY DEF Admitted, Passed, Clear
<1>2. ReportedOf(e)' BY <1>1 DEF ReportedOf
<1>3. AnswerOf(e)' BY <1>1 DEF AnswerOf
<1>4. GateOf(e)' BY DEF GateOf, Admitted, Passed, Clear, Gated
<1>5. QED BY <1>2, <1>3, <1>4

LEMMA GateIdle ==
  ASSUME NEW e \in Deploys, run'[e].pc \in {"off", "load", "next", "clean"},
         \A i \in Instances : worker'[e][i].pc = "off"
  PROVE  AnswerOf(e)' /\ GateOf(e)'
  BY DEF AnswerOf, GateOf

\* Rows may be deleted.
LEMMA ReportedFrame ==
  ASSUME NEW e \in Deploys, ReportedOf(e), launched'[e] = launched[e], answer'[e] = answer[e],
         Targets(e)' \subseteq Targets(e)
  PROVE  ReportedOf(e)'
  BY DEF ReportedOf, Clear

LEMMA SweepTargets ==
  ASSUME TypeOK, NEW d, NEW from, NEW to \in Statuses, Sweep(d, from, to), NoRow \notin from
  PROVE  \A e \in Deploys : Targets(e)' = Targets(e)
  BY DEF TypeOK, RowsOK, Sweep, Targets, Statuses, NoRow
LEMMA InitGate == ASSUME Init PROVE GateInv
<1>1. ASSUME NEW d \in Deploys PROVE ReportedOf(d) /\ AnswerOf(d) /\ GateOf(d)
  <2>1. run[d].pc = "off" /\ \A i \in Instances : worker[d][i].pc = "off"
    BY DEF Init, NoGoroutines, NoRun, NoWorker
  <2>2. QED BY <2>1 DEF Init, ReportedOf, AnswerOf, GateOf
<1>2. QED BY <1>1 DEF GateInv

LEMMA HandlerGate ==
  ASSUME TypeOK, SafetyInv, GateInv, NEW d \in Deploys, Handler(d) PROVE GateInv'
<1>1. UNCHANGED <<worker, launched, answer, proc>>
  BY DEF Handler, Build, CreateBroken, Create, CreateFails, EnqueueFree, EnqueueWait,
     EnqueueReplace, EnqueueReplaced, ReplaceFails, rollout, history
<1>2. ASSUME NEW e \in Deploys PROVE ReportedOf(e)' /\ AnswerOf(e)' /\ GateOf(e)'
  <2>1. ReportedOf(e) /\ AnswerOf(e) /\ GateOf(e) BY DEF GateInv
  <2>2. CASE e = d /\ (Create(d) \/ EnqueueFree(d))
    <3>1. run'[e].pc \in {"off", "load"} /\ ~On(e)
      <4>1. CASE Create(d)
        <5>1. ~On(d) BY <4>1 DEF SafetyInv, BornInv, Untouched, Unborn, Create
        <5>2. QED BY <2>2, <4>1, <5>1 DEF On, Create, rollout
      <4>2. CASE EnqueueFree(d)
        <5>1. ~On(d) BY <4>2 DEF SafetyInv, SlotInv, EnqueueFree, ServiceFree
        <5>2. QED BY <2>2, <4>2, <5>1 DEF TypeOK, RolloutOK, EnqueueFree, StartLoop
      <4>3. QED BY <2>2, <4>1, <4>2
    <3>2. \A i \in Instances : worker'[e][i].pc = "off"
      BY <1>1, <3>1 DEF SafetyInv, SlotInv, On
    <3>3. CASE Create(d)
      <4>1. \A i \in Instances : launched[d][i] = 0
        BY <3>3 DEF SafetyInv, BornInv, Untouched, Unborn, Create
      <4>2. ReportedOf(e)' BY <1>1, <2>1, <2>2, <4>1 DEF ReportedOf
      <4>3. QED BY <3>1, <3>2, <4>2, GateIdle
    <3>4. CASE EnqueueFree(d)
      <4>1. Targets(e)' = Targets(e) BY <3>4 DEF EnqueueFree, db, Targets
      <4>2. ReportedOf(e)' BY <1>1, <2>1, <4>1, ReportedFrame
      <4>3. QED BY <3>1, <3>2, <4>2, GateIdle
    <3>5. QED BY <2>2, <3>3, <3>4
  <2>3. CASE ~(e = d /\ (Create(d) \/ EnqueueFree(d)))
    <3>1. run'[e] = run[e]
      BY <2>3 DEF Handler, Build, CreateBroken, Create, CreateFails, EnqueueFree, EnqueueWait,
         EnqueueReplace, EnqueueReplaced, ReplaceFails, rollout, StartLoop, TypeOK, RolloutOK
    <3>2. Targets(e)' = Targets(e)
      <4>1. CASE EnqueueReplace(d)
        BY <4>1, SweepTargets DEF EnqueueReplace, Statuses, NoRow
      <4>2. CASE ~EnqueueReplace(d)
        <5>1. exec'[e] = exec[e]
          BY <2>3, <4>2 DEF Handler, Build, CreateBroken, Create, CreateFails, EnqueueFree, EnqueueWait,
             EnqueueReplaced, ReplaceFails, db, TypeOK, RowsOK
        <5>2. QED BY <5>1 DEF Targets
      <4>3. QED BY <4>1, <4>2
    <3>3. Alike(e) BY <1>1, <3>1, <3>2 DEF Alike, RootDone
    <3>4. QED BY <2>1, <3>3, GateFrame
  <2>4. QED BY <2>2, <2>3
<1>3. QED BY <1>2 DEF GateInv

\* What a step of the worker of i does: w is its next record, s the status of
\* the execution.
WorkerDoes(d, i, w, s) ==
  \/ /\ worker[d][i].pc = "start" /\ exec[d][i] = "queued"
     /\ w = [worker[d][i] EXCEPT !.pc = "acquire"] /\ s = "dispatching"
     /\ UNCHANGED <<launched, answer, pinned>>
  \/ /\ worker[d][i].pc = "acquire" /\ exec[d][i] = "dispatching"
     /\ w = [worker[d][i] EXCEPT !.pc = "execute"] /\ s = "running"
     /\ launched' = [launched EXCEPT ![d][i] = @ + 1]
     /\ UNCHANGED <<answer, pinned>>
  \/ /\ worker[d][i].pc \in {"start", "acquire"}
     /\ w = Stopped(FALSE, NoImage)
     /\ \/ s = exec[d][i] /\ rc' = rc
        \/ worker[d][i].pc = "acquire" /\ exec[d][i] = "dispatching" /\ s \in {"unreachable", "failed"}
     /\ faults' # faults \/ s # exec[d][i] \/ (worker[d][i].pc = "start" /\ exec[d][i] # "queued")
          \/ (worker[d][i].pc = "acquire" /\ exec[d][i] # "dispatching")
     /\ UNCHANGED <<launched, answer, pinned>>
  \/ /\ worker[d][i].pc = "execute" /\ UNCHANGED launched
     /\ \E ok \in BOOLEAN : \E resolved \in Resolves(d, i, ok) :
          /\ answer' = [answer EXCEPT ![d][i] = IF ok THEN "ok" ELSE "failed"]
          /\ pinned' = IF i \in Pinners THEN [pinned EXCEPT ![d][i] = resolved] ELSE pinned
          /\ w = Stopped(ok, resolved)
          /\ \/ exec[d][i] = "running" /\ s = "succeeded" /\ ok
             \/ exec[d][i] = "running" /\ s \in {"failed", "unreachable"} /\ ~ok
             \/ s = exec[d][i] /\ rc' = rc /\ (exec[d][i] = "running" => faults' # faults)

LEMMA WorkerEffect ==
  ASSUME TypeOK, NEW d \in Deploys, NEW i \in Instances, WorkerStep(d, i)
  PROVE  /\ UNCHANGED <<dstatus, finished, digest, busy, pending, run, notified,
                        proc, recov, wired, handler>>
         /\ faults' = faults \/ faults' = faults + 1
         /\ rc[d][i].pc = "idle" /\ (UNCHANGED rc \/ rc' = [rc EXCEPT ![d][i] = Recompute])
         /\ \E w \in Workers, s \in Statuses \cup {NoRow} :
              /\ worker' = [worker EXCEPT ![d][i] = w]
              /\ exec' = [exec EXCEPT ![d][i] = s]
              /\ WorkerDoes(d, i, w, s)
<1> USE DEF TypeOK
<1> /\ worker \in [Deploys -> [Instances -> Workers]]
    /\ exec \in [Deploys -> [Instances -> Statuses \cup {NoRow}]]
    /\ faults \in Nat
  BY DEF RolloutOK, RowsOK, ProcessOK
<1>1. ByWorker
  BY DEF WorkerStep, Dispatch, Launch, AcquireFails, Execute, TransitionFails
<1>2. /\ faults' = faults \/ faults' = faults + 1
      /\ rc[d][i].pc = "idle" /\ (UNCHANGED rc \/ rc' = [rc EXCEPT ![d][i] = Recompute])
  BY DEF WorkerStep, Dispatch, Launch, AcquireFails, Execute, TransitionFails, Transition, Fault, WorkerAt
<1>3. exec = [exec EXCEPT ![d][i] = exec[d][i]] /\ exec[d][i] \in Statuses \cup {NoRow} OBVIOUS
<1>4. /\ [worker[d][i] EXCEPT !.pc = "acquire"] \in Workers
      /\ [worker[d][i] EXCEPT !.pc = "execute"] \in Workers
      /\ Stopped(FALSE, NoImage) \in Workers
  BY WorkerTypes, ImageAssumption DEF WorkerPcs, Stopped, Workers, Digests
<1>5. \E w \in Workers, s \in Statuses \cup {NoRow} :
        /\ worker' = [worker EXCEPT ![d][i] = w]
        /\ exec' = [exec EXCEPT ![d][i] = s]
        /\ WorkerDoes(d, i, w, s)
  <2>1. CASE Dispatch(d, i)
    <3>1. CASE exec[d][i] = "queued"
      BY <1>4, <2>1, <3>1 DEF Dispatch, Transition, StillIn, WorkerAt, WorkerDoes, Statuses
    <3>2. CASE exec[d][i] # "queued"
      BY <1>3, <1>4, <2>1, <3>2 DEF Dispatch, Transition, StillIn, WorkerAt, WorkerDoes
    <3>3. QED BY <3>1, <3>2
  <2>2. CASE Launch(d, i)
    <3>1. CASE exec[d][i] = "dispatching"
      BY <1>4, <2>2, <3>1 DEF Launch, Transition, StillIn, WorkerAt, WorkerDoes, Statuses
    <3>2. CASE exec[d][i] # "dispatching"
      BY <1>3, <1>4, <2>2, <3>2 DEF Launch, Transition, StillIn, WorkerAt, WorkerDoes
    <3>3. QED BY <3>1, <3>2
  <2>3. CASE AcquireFails(d, i)
    <3>1. PICK to \in {"unreachable", "failed"} : Transition(d, i, "dispatching", to)
      BY <2>3 DEF AcquireFails
    <3>2. CASE exec[d][i] = "dispatching"
      BY <1>4, <2>3, <3>1, <3>2 DEF AcquireFails, Transition, StillIn, WorkerAt, WorkerDoes, Statuses
    <3>3. CASE exec[d][i] # "dispatching"
      BY <1>3, <1>4, <2>3, <3>1, <3>3 DEF AcquireFails, Transition, StillIn, WorkerAt, WorkerDoes
    <3>4. QED BY <3>2, <3>3
  <2>4. CASE TransitionFails(d, i)
    <3>1. faults' # faults BY <2>4 DEF TransitionFails, Fault
    <3>2. /\ worker[d][i].pc \in {"start", "acquire"}
          /\ UNCHANGED <<exec, rc, launched, answer, pinned>>
      BY <2>4 DEF TransitionFails, WorkerAt
    <3>3. WorkerDoes(d, i, Stopped(FALSE, NoImage), exec[d][i])
      BY <3>1, <3>2 DEF WorkerDoes
    <3>4. QED BY <1>3, <1>4, <2>4, <3>3 DEF TransitionFails
  <2>5. CASE Execute(d, i)
    <3>1. PICK to \in {"succeeded", "failed", "unreachable"}, lost \in BOOLEAN :
            /\ IF lost THEN Fault /\ UNCHANGED <<exec, rc>>
               ELSE Transition(d, i, "running", to) /\ UNCHANGED faults
            /\ answer' = [answer EXCEPT ![d][i] = IF to = "succeeded" THEN "ok" ELSE "failed"]
            /\ \E resolved \in Resolves(d, i, to = "succeeded") :
                 /\ worker' = [worker EXCEPT ![d][i] = Stopped(to = "succeeded", resolved)]
                 /\ pinned' = IF i \in Pinners THEN [pinned EXCEPT ![d][i] = resolved]
                              ELSE pinned
      BY <2>5 DEF Execute
    <3>2. PICK resolved \in Resolves(d, i, to = "succeeded") :
            /\ worker' = [worker EXCEPT ![d][i] = Stopped(to = "succeeded", resolved)]
            /\ pinned' = IF i \in Pinners THEN [pinned EXCEPT ![d][i] = resolved] ELSE pinned
      BY <3>1
    <3>3. Stopped(to = "succeeded", resolved) \in Workers
      <4>1. resolved \in Digests BY RunTypes DEF Resolves, Digests
      <4>2. QED BY <4>1 DEF Stopped, Workers, WorkerPcs
    <3>4. worker[d][i].pc = "execute" /\ UNCHANGED launched BY <2>5 DEF Execute, WorkerAt
    <3>5. CASE ~lost /\ exec[d][i] = "running"
      <4>1. exec' = [exec EXCEPT ![d][i] = to] /\ to \in Statuses
        BY <3>1, <3>5 DEF Transition, StillIn, Statuses
      <4>2. WorkerDoes(d, i, Stopped(to = "succeeded", resolved), to)
        BY <3>1, <3>2, <3>4, <3>5 DEF WorkerDoes
      <4>3. QED BY <3>2, <3>3, <4>1, <4>2
    <3>6. CASE lost \/ exec[d][i] # "running"
      <4>1. UNCHANGED <<exec, rc>> BY <3>1, <3>6 DEF Transition, StillIn
      <4>2. exec[d][i] = "running" => faults' # faults BY <3>1, <3>6 DEF Fault
      <4>3. WorkerDoes(d, i, Stopped(to = "succeeded", resolved), exec[d][i])
        BY <3>1, <3>2, <3>4, <4>1, <4>2 DEF WorkerDoes
      <4>4. QED BY <1>3, <3>2, <3>3, <4>1, <4>3
    <3>7. QED BY <3>5, <3>6
  <2>6. QED BY <2>1, <2>2, <2>3, <2>4, <2>5 DEF WorkerStep
<1>6. QED BY <1>1, <1>2, <1>5 DEF ByWorker, ByLoop

LEMMA WorkerTargets ==
  ASSUME TypeOK, NEW d \in Deploys, NEW i \in Instances, WorkerStep(d, i)
  PROVE  \A e \in Deploys : Targets(e)' = Targets(e)
<1> exec \in [Deploys -> [Instances -> Statuses \cup {NoRow}]] BY DEF TypeOK, RowsOK
<1>1. PICK w \in Workers, s \in Statuses \cup {NoRow} :
        exec' = [exec EXCEPT ![d][i] = s] /\ WorkerDoes(d, i, w, s)
  BY WorkerEffect
<1>2. s = NoRow <=> exec[d][i] = NoRow BY <1>1 DEF WorkerDoes, NoRow
<1>3. QED BY <1>1, <1>2 DEF Targets

LEMMA WorkerGate ==
  ASSUME TypeOK, SafetyInv, GateInv, NEW d \in Deploys, NEW i \in Instances, WorkerStep(d, i)
  PROVE  GateInv'
<1> USE DEF TypeOK
<1> /\ worker \in [Deploys -> [Instances -> Workers]]
    /\ exec \in [Deploys -> [Instances -> Statuses \cup {NoRow}]]
    /\ launched \in [Deploys -> [Instances -> Nat]]
    /\ answer \in [Deploys -> [Instances -> {"none", "ok", "failed"}]]
  BY DEF RolloutOK, RowsOK, HistoryOK
<1>1. PICK w \in Workers, s \in Statuses \cup {NoRow} :
        worker' = [worker EXCEPT ![d][i] = w] /\ WorkerDoes(d, i, w, s)
  BY WorkerEffect
<1>2. UNCHANGED <<run, proc>> /\ \A e \in Deploys : Targets(e)' = Targets(e)
  BY WorkerEffect, WorkerTargets
<1>3. ReportedOf(d) /\ AnswerOf(d) /\ GateOf(d) BY DEF GateInv
<1>4. /\ launched' = launched \/ launched' = [launched EXCEPT ![d][i] = @ + 1]
      /\ \/ answer' = answer
         \/ /\ worker[d][i].pc = "execute" /\ UNCHANGED launched
            /\ \E a \in {"ok", "failed"} : answer' = [answer EXCEPT ![d][i] = a]
  BY <1>1 DEF WorkerDoes
<1>a. /\ \A e \in Deploys \ {d} : launched'[e] = launched[e] /\ answer'[e] = answer[e]
      /\ \A j \in Instances \ {i} : launched'[d][j] = launched[d][j] /\ answer'[d][j] = answer[d][j]
  BY <1>4
<1>b. /\ answer[d][i] = "ok" => answer'[d][i] = "ok"
      /\ launched'[d][i] = 0 => answer'[d][i] = "none"
      /\ worker[d][i].pc # "off" /\ w.pc # "off"
  <2>1. answer[d][i] = "ok" => answer'[d][i] = "ok" BY <1>3, <1>4 DEF AnswerOf
  <2>2. launched'[d][i] = 0 => answer'[d][i] = "none" BY <1>3, <1>4 DEF ReportedOf, AnswerOf
  <2>3. worker[d][i].pc # "off" /\ w.pc # "off" BY <1>1 DEF WorkerDoes, Stopped, Workers
  <2>4. QED BY <2>1, <2>2, <2>3
<1>c. ASSUME NEW j \in Instances
      PROVE  /\ answer[d][j] = "ok" => answer'[d][j] = "ok"
             /\ worker'[d][j].pc = "off" <=> worker[d][j].pc = "off"
             /\ launched'[d][j] = 0 => answer'[d][j] = "none"
  <2>1. CASE j = i BY <1>1, <1>b, <2>1
  <2>2. CASE j # i BY <1>1, <1>3, <1>a, <2>2 DEF ReportedOf
  <2>3. QED BY <2>1, <2>2
<1>5. \A j \in Instances :
        (Clear(d, j) => Clear(d, j)') /\ (Admitted(d, j) => Admitted(d, j)')
  BY <1>2, <1>c DEF Clear, Admitted, Passed, Targets
<1>r. ReportedOf(d)'
  <2>1. launched'[d][i] > 0 => launched[d][i] > 0 \/ worker[d][i].pc # "off"
    BY <1>b
  <2>2. \A j \in Instances : launched'[d][j] > 0 => launched[d][j] > 0 \/ worker[d][j].pc # "off"
    BY <1>a, <2>1
  <2>3. QED BY <1>2, <1>3, <1>c, <1>5, <2>2 DEF ReportedOf, AnswerOf, Admitted
<1>6. AnswerOf(d)'
  <2>1. w.pc = "execute" => launched'[d][i] > 0 /\ answer'[d][i] = "none"
    <3>1. exec[d][i] = "dispatching" => launched[d][i] = 0
      BY DEF SafetyInv, LaunchInv
    <3>2. QED BY <1>1, <1>3, <3>1 DEF WorkerDoes, ReportedOf, AnswerOf, Stopped, Workers
  <2>2. w.pc = "done" /\ w.ok => answer'[d][i] = "ok"
    BY <1>1 DEF WorkerDoes, Stopped, Workers
  <2>3. \A j \in Instances : worker'[d][j].pc # "off" => Admitted(d, j)'
    BY <1>3, <1>c, <1>5 DEF AnswerOf
  <2>4. \A j \in Instances \ {i} : worker'[d][j] = worker[d][j] BY <1>1
  <2>5. worker'[d][i] = w BY <1>1
  <2>6. \A j \in Instances \ {i} :
          /\ worker'[d][j].pc = "execute" => launched'[d][j] > 0 /\ answer'[d][j] = "none"
          /\ worker'[d][j].pc = "done" /\ worker'[d][j].ok => answer'[d][j] = "ok"
    BY <1>3, <1>a, <2>4 DEF AnswerOf
  <2>7. ASSUME NEW j \in Instances
        PROVE  /\ worker'[d][j].pc = "execute" => launched'[d][j] > 0 /\ answer'[d][j] = "none"
               /\ worker'[d][j].pc = "done" /\ worker'[d][j].ok => answer'[d][j] = "ok"
    <3>1. CASE j = i BY <2>1, <2>2, <2>5, <3>1
    <3>2. CASE j # i BY <2>6, <3>2
    <3>3. QED BY <3>1, <3>2
  <2>8. QED BY <2>3, <2>7 DEF AnswerOf
<1>7. GateOf(d)'
  <2>1. \A i1, j \in Instances : worker'[d][i1].pc # "off" /\ worker'[d][j].pc # "off" =>
          worker[d][i1].pc # "off" /\ worker[d][j].pc # "off"
    BY <1>c
  <2>2. Gated(d)' = Gated(d) /\ run'[d] = run[d] /\ Targets(d)' = Targets(d) BY <1>2 DEF Gated, RootDone
  <2>3. \A j \in Instances : Passed(d, j)' <=> Passed(d, j) BY <1>2 DEF Passed
  <2>4. Targets(d) \subseteq Instances /\ run[d].todo \subseteq Instances BY RunTypes DEF Targets
  <2>5. run'[d].pc \in {"wave", "first", "fan", "join"} /\ ~Gated(d)' =>
          \A j \in Targets(d)' : Passed(d, j)' =>
            \/ answer'[d][j] = "ok" \/ worker'[d][j].pc # "off"
            \/ run'[d].pc \in {"first", "fan"} /\ j \in run'[d].todo
    BY <1>3, <1>c, <2>2, <2>3, <2>4 DEF GateOf
  <2>6. run'[d].pc \in {"first", "fan"} /\ ~run'[d].failed => \A j \in run'[d].todo : Admitted(d, j)'
    BY <1>3, <1>5, <2>2, <2>4 DEF GateOf
  <2>7. QED BY <1>3, <2>1, <2>2, <2>5, <2>6 DEF GateOf
<1>8. ASSUME NEW e \in Deploys, e # d PROVE ReportedOf(e)' /\ AnswerOf(e)' /\ GateOf(e)'
  <2>1. worker'[e] = worker[e] BY <1>1, <1>8
  <2>2. launched'[e] = launched[e] /\ answer'[e] = answer[e] BY <1>8, <1>a
  <2>3. Alike(e) BY <1>2, <2>1, <2>2 DEF Alike, RootDone
  <2>4. QED BY <2>3, GateFrame DEF GateInv
<1>9. QED BY <1>r, <1>6, <1>7, <1>8 DEF GateInv

LEMMA LoopEffect ==
  ASSUME TypeOK, SafetyInv, NEW d \in Deploys, LoopStep(d)
  PROVE  /\ UNCHANGED <<proc, recov, wired, handler, finished, launched, answer, pinned, notified>>
         /\ On(d)
         /\ \A e \in Deploys \ {d} :
              /\ ~On(e) /\ rc'[e] = rc[e] /\ worker'[e] = worker[e]
              /\ run'[e] = run[e] \/ (NextDeploy(d) /\ e = pending /\ run'[e].pc = "load")
              /\ run'[e].pc \in {"off", "load"}
              /\ \A i \in Instances : worker'[e][i].pc = "off"
<1> USE DEF TypeOK
<1> run \in [Deploys -> Runs] /\ worker \in [Deploys -> [Instances -> Workers]]
    /\ rc \in [Deploys -> [Members -> Recomputes]]
  BY DEF RolloutOK
<1>1. UNCHANGED <<proc, recov, wired, handler, finished, launched, answer, pinned, notified>>
  BY DEF LoopStep, Load, LoadFails, CancelWave, FirstAlone, WholeWave, JoinFirst, FanOut,
     Join, FanDone, CancelOne, SweepDone, LastWaveDone, Cleanup, NextDeploy, EndWave, ByLoop,
     db, history
<1>2. On(d)
  BY DEF LoopStep, Load, LoadFails, CancelWave, FirstAlone, WholeWave, JoinFirst, FanOut,
     Join, FanDone, CancelOne, SweepDone, LastWaveDone, Cleanup, NextDeploy, NextWave, At, On
<1>3. ASSUME NEW e \in Deploys \ {d}
      PROVE  /\ ~On(e) /\ rc'[e] = rc[e] /\ worker'[e] = worker[e]
             /\ run'[e] = run[e] \/ (NextDeploy(d) /\ e = pending /\ run'[e].pc = "load")
             /\ run'[e].pc \in {"off", "load"}
             /\ \A i \in Instances : worker'[e][i].pc = "off"
  <2>1. ~On(e) BY <1>2 DEF SafetyInv, SlotInv
  <2>t. \A i \in Instances : worker[e][i].pc = "off" BY <2>1 DEF On, SafetyInv, SlotInv
  <2>2. rc'[e] = rc[e] /\ worker'[e] = worker[e]
    BY DEF LoopStep, Load, LoadFails, CancelWave, FirstAlone, WholeWave, JoinFirst, FanOut,
       Join, FanDone, CancelOne, SweepDone, LastWaveDone, Cleanup, NextDeploy, EndWave, Collected
  <2>3. CASE NextDeploy(d)
    <3>1. \/ run' = [run EXCEPT ![d] = NoRun, ![pending] = [NoRun EXCEPT !.pc = "load"]]
          \/ run' = [run EXCEPT ![d] = NoRun]
      BY <2>3 DEF NextDeploy
    <3>2. [NoRun EXCEPT !.pc = "load"].pc = "load" BY DEF NoRun
    <3>3. run'[e] = run[e] \/ (e = pending /\ run'[e].pc = "load") BY <3>1, <3>2
    <3>4. QED BY <2>1, <2>t, <2>2, <2>3, <3>3 DEF On
  <2>4. CASE ~NextDeploy(d)
    <3>1. \E r : Becomes(d, r)
      BY <2>4 DEF LoopStep, Load, LoadFails, CancelWave, FirstAlone, WholeWave, JoinFirst, FanOut,
         Join, FanDone, CancelOne, SweepDone, LastWaveDone, Cleanup, Begun, Goto
    <3>2. run'[e] = run[e] BY <3>1 DEF Becomes
    <3>3. QED BY <2>1, <2>t, <2>2, <3>2 DEF On
  <2>5. QED BY <2>3, <2>4
<1>4. QED BY <1>1, <1>2, <1>3

LEMMA LoopGate ==
  ASSUME TypeOK, SafetyInv, GateInv, NEW d \in Deploys, LoopStep(d) PROVE GateInv'
<1> USE DEF TypeOK
<1> run \in [Deploys -> Runs] /\ worker \in [Deploys -> [Instances -> Workers]]
  BY DEF RolloutOK
<1>1. UNCHANGED <<proc, launched, answer>> /\ On(d) BY LoopEffect
<1>2. AnswerOf(d) /\ GateOf(d) BY DEF GateInv
<1>3. ASSUME NEW e \in Deploys PROVE ReportedOf(e)'
  <2>1. Targets(e)' \subseteq Targets(e)
    <3>1. CASE UNCHANGED exec BY <3>1 DEF Targets
    <3>2. CASE CancelOne(d)
      <4>1. exec \in [Deploys -> [Instances -> Statuses \cup {NoRow}]] BY DEF RowsOK
      <4>2. PICK i \in Instances : \/ (exec' = [exec EXCEPT ![d][i] = "canceled"] /\ exec[d][i] = "queued")
                                 \/ exec' = exec
        BY <3>2, RunTypes DEF CancelOne, StillIn
      <4>3. QED BY <4>1, <4>2 DEF Targets, NoRow
    <3>3. CASE Cleanup(d) BY <3>3 DEF Cleanup, Targets
    <3>4. QED
      BY <3>1, <3>2, <3>3 DEF LoopStep, Load, LoadFails, CancelWave, FirstAlone, WholeWave, JoinFirst, FanOut,
         Join, FanDone, SweepDone, LastWaveDone, NextDeploy, EndWave, db
  <2>2. QED BY <1>1, <2>1, ReportedFrame DEF GateInv
<1>4. ASSUME NEW e \in Deploys, e # d PROVE AnswerOf(e)' /\ GateOf(e)'
  BY <1>4, LoopEffect, GateIdle
<1>5. run[d].pc \notin {"first", "join"} => \A i \in Instances : worker[d][i].pc = "off"
  BY DEF SafetyInv, SlotInv
<1>6. ASSUME LoadFails(d) \/ LastWaveDone(d) \/ Cleanup(d) \/ NextDeploy(d)
      PROVE  AnswerOf(d)' /\ GateOf(d)'
  <2>1. \A i \in Instances : worker'[d][i].pc = "off"
    BY <1>5, <1>6 DEF LoadFails, LastWaveDone, Cleanup, NextDeploy, At
  <2>2. run'[d].pc \in {"off", "load", "next", "clean"}
    <3>1. run[d] \in Runs OBVIOUS
    <3>2. CASE LoadFails(d) \/ LastWaveDone(d) \/ Cleanup(d)
      BY <3>1, <3>2 DEF LoadFails, LastWaveDone, Cleanup, Goto, Becomes, Runs
    <3>3. CASE NextDeploy(d) BY <3>3 DEF NextDeploy, NoRun
    <3>4. QED BY <1>6, <3>2, <3>3
  <2>3. QED BY <2>1, <2>2, GateIdle
<1>7. Targets(d)' = Targets(d) \/ Cleanup(d)
  <2>1. CASE UNCHANGED exec BY <2>1 DEF Targets
  <2>2. CASE CancelOne(d)
    <3>1. exec \in [Deploys -> [Instances -> Statuses \cup {NoRow}]] BY DEF RowsOK
    <3>2. PICK i \in Instances : \/ (exec' = [exec EXCEPT ![d][i] = "canceled"] /\ exec[d][i] = "queued")
                               \/ exec' = exec
      BY <2>2, RunTypes DEF CancelOne, StillIn
    <3>3. QED BY <3>1, <3>2 DEF Targets, NoRow
  <2>3. QED
    BY <2>1, <2>2 DEF LoopStep, Load, LoadFails, CancelWave, FirstAlone, WholeWave, JoinFirst, FanOut,
       Join, FanDone, SweepDone, LastWaveDone, NextDeploy, EndWave, db
<1>8. run[d] \in Runs /\ run[d].todo \in SUBSET Instances /\ Targets(d) \subseteq Instances
      /\ WaveOf[d] \in [Instances -> Nat] /\ run[d].waves \subseteq Nat
  BY RunTypes, WaveAssumption DEF Targets
<1>9. ASSUME run'[d].waves = run[d].waves, ~Cleanup(d), NEW i \in Instances
      PROVE  (Admitted(d, i) => Admitted(d, i)') /\ (Passed(d, i)' <=> Passed(d, i))
  BY <1>1, <1>7, <1>9 DEF Admitted, Clear, Passed
<1>10. Gated(d)' <=> run'[d].failed \/ RootDone BY <1>1 DEF Gated, RootDone
<1>11. ASSUME \A i \in Instances : worker'[d][i].pc = "off"
       PROVE  AnswerOf(d)'
  BY <1>11 DEF AnswerOf
<1>12. ASSUME Load(d) PROVE AnswerOf(d)' /\ GateOf(d)'
  <2>1. \A i \in Instances : worker'[d][i].pc = "off" BY <1>5, <1>12 DEF Load, At
  <2>2. CASE run'[d].pc = "next" BY <2>1, <2>2, GateIdle
  <2>3. CASE run'[d].pc # "next"
    <3>1. run'[d].pc = "wave" /\ run'[d].waves = {WaveOf[d][i] : i \in Targets(d)}
      BY <1>8, <1>12, <2>3 DEF Load, Goto, Becomes, Runs
    <3>2. Targets(d)' = Targets(d) BY <1>12 DEF Load, Targets, db
    <3>3. \A i \in Targets(d)' : ~Passed(d, i)' BY <3>1, <3>2 DEF Passed
    <3>4. QED BY <2>1, <3>1, <3>3 DEF AnswerOf, GateOf
  <2>4. QED BY <2>2, <2>3
<1>13. ASSUME CancelWave(d) PROVE AnswerOf(d)' /\ GateOf(d)'
  <2>1. \A i \in Instances : worker'[d][i].pc = "off"
    BY <1>5, <1>13 DEF CancelWave, NextWave, At
  <2>2. run'[d].pc = "sweep" /\ run'[d].failed = run[d].failed
    BY <1>8, <1>13 DEF CancelWave, Begun, Becomes, Runs
  <2>3. Gated(d)' BY <1>10, <1>13, <2>2 DEF CancelWave, Gated
  <2>4. QED BY <2>1, <2>2, <2>3 DEF AnswerOf, GateOf
<1>14. ASSUME SweepDone(d) PROVE AnswerOf(d)' /\ GateOf(d)'
  <2>1. \A i \in Instances : worker'[d][i].pc = "off" BY <1>5, <1>14 DEF SweepDone, At
  <2>2. run'[d].pc = "wave" /\ run'[d].failed = run[d].failed
    BY <1>8, <1>14 DEF SweepDone, Goto, Becomes, Runs
  <2>3. Gated(d)' BY <1>2, <1>10, <1>14, <2>2 DEF SweepDone, At, GateOf, Gated
  <2>4. QED BY <2>1, <2>2, <2>3 DEF AnswerOf, GateOf
<1>15. ASSUME NEW w \in run[d].waves, NextWave(d, w), ~Gated(d), ~Cleanup(d),
              run'[d].waves = run[d].waves \ {w}
       PROVE  /\ \A i \in WaveMembers(d, w) : Admitted(d, i)'
              /\ \A i \in Targets(d) : Passed(d, i)' => answer'[d][i] = "ok" \/ i \in WaveMembers(d, w)
  <2>1. \A k \in Targets(d) : Passed(d, k) => answer[d][k] = "ok"
    BY <1>2, <1>5, <1>8, <1>15 DEF NextWave, At, GateOf
  <2>2. \A k \in Targets(d) : WaveOf[d][k] < w => answer[d][k] = "ok"
    BY <1>8, <1>15, <2>1 DEF NextWave, First, Passed
  <2>3. \A i \in WaveMembers(d, w) : Admitted(d, i)'
    BY <1>1, <1>7, <1>15, <2>2 DEF WaveMembers, Admitted, Clear, Passed
  <2>4. \A i \in Targets(d) : Passed(d, i)' => Passed(d, i) \/ i \in WaveMembers(d, w)
    BY <1>15 DEF Passed, WaveMembers
  <2>5. QED BY <1>1, <2>1, <2>3, <2>4
<1>16. ASSUME FirstAlone(d) PROVE AnswerOf(d)' /\ GateOf(d)'
  <2>0. PICK w \in run[d].waves : \E first \in WaveMembers(d, w) :
          /\ NextWave(d, w) /\ Begun(d, w, "first", WaveMembers(d, w) \ {first})
          /\ worker' = [worker EXCEPT ![d][first] = Spawned]
    BY <1>16 DEF FirstAlone
  <2>1. PICK first \in WaveMembers(d, w) :
          /\ NextWave(d, w) /\ Begun(d, w, "first", WaveMembers(d, w) \ {first})
          /\ worker' = [worker EXCEPT ![d][first] = Spawned]
    BY <2>0
  <2>2. /\ run'[d].pc = "first" /\ run'[d].failed = run[d].failed
        /\ run'[d].todo = WaveMembers(d, w) \ {first} /\ run'[d].waves = run[d].waves \ {w}
    BY <1>8, <2>1 DEF Begun, Becomes, Runs
  <2>3. ~Cleanup(d) /\ ~Gated(d) /\ Targets(d)' = Targets(d) /\ first \in Instances
    BY <1>16, <2>1 DEF FirstAlone, Cleanup, At, NextWave, db, Targets, WaveMembers
  <2>4. /\ \A i \in WaveMembers(d, w) : Admitted(d, i)'
        /\ \A i \in Targets(d) : Passed(d, i)' => answer'[d][i] = "ok" \/ i \in WaveMembers(d, w)
    BY <1>15, <2>1, <2>2, <2>3
  <2>5. /\ worker'[d][first].pc = "start"
        /\ \A i \in Instances : i # first => worker'[d][i].pc = "off"
    BY <1>5, <2>1, <2>3 DEF NextWave, At, Spawned, NoWorker
  <2>6. AnswerOf(d)' BY <2>4, <2>5 DEF AnswerOf
  <2>7. ~run'[d].failed BY <2>2, <2>3 DEF Gated
  <2>8. QED BY <2>2, <2>3, <2>4, <2>5, <2>6, <2>7 DEF GateOf
<1>17. ASSUME WholeWave(d) PROVE AnswerOf(d)' /\ GateOf(d)'
  <2>1. PICK w \in run[d].waves : NextWave(d, w) /\ Begun(d, w, "fan", WaveMembers(d, w))
    BY <1>17 DEF WholeWave
  <2>2. /\ run'[d].pc = "fan" /\ run'[d].todo = WaveMembers(d, w)
        /\ run'[d].waves = run[d].waves \ {w}
    BY <1>8, <2>1 DEF Begun, Becomes, Runs
  <2>3. ~Cleanup(d) /\ ~Gated(d) /\ Targets(d)' = Targets(d)
    BY <1>17, <2>1 DEF WholeWave, Cleanup, At, NextWave, db, Targets
  <2>4. /\ \A i \in WaveMembers(d, w) : Admitted(d, i)'
        /\ \A i \in Targets(d) : Passed(d, i)' => answer'[d][i] = "ok" \/ i \in WaveMembers(d, w)
    BY <1>15, <2>1, <2>2, <2>3
  <2>5. \A i \in Instances : worker'[d][i].pc = "off"
    BY <1>5, <1>17, <2>1 DEF WholeWave, NextWave, At
  <2>6. AnswerOf(d)' BY <2>5 DEF AnswerOf
  <2>7. QED BY <2>2, <2>3, <2>4, <2>6 DEF GateOf
<1>18. ASSUME JoinFirst(d) PROVE AnswerOf(d)' /\ GateOf(d)'
  <2>1. PICK i \in Instances :
          /\ worker[d][i].pc = "done"
          /\ Becomes(d, [run[d] EXCEPT !.pc = "fan", !.digest = Promoted(d, worker[d][i].digest),
                                       !.failed = ~worker[d][i].ok])
    BY <1>18 DEF JoinFirst
  <2>2. /\ run'[d].pc = "fan" /\ run'[d].failed = ~worker[d][i].ok
        /\ run'[d].todo = run[d].todo /\ run'[d].waves = run[d].waves
    BY <1>8, <2>1 DEF Becomes, Runs
  <2>3. /\ ~Cleanup(d) /\ Targets(d)' = Targets(d) /\ run[d].pc = "first"
        /\ \A j \in Instances : worker'[d][j].pc = "off"
    BY <1>18 DEF JoinFirst, Cleanup, At, Targets, Collected, NoWorker
  <2>4. AnswerOf(d)' BY <1>11, <2>3
  <2>5. ~run[d].failed BY <1>2, <2>3 DEF GateOf
  <2>6. \A j \in run'[d].todo : Admitted(d, j)' BY <1>2, <1>8, <1>9, <2>2, <2>3, <2>5 DEF GateOf
  <2>7. ASSUME ~Gated(d)', NEW j \in Targets(d), Passed(d, j)'
        PROVE  answer'[d][j] = "ok" \/ j \in run'[d].todo
    <3>1. ~Gated(d) /\ worker[d][i].ok BY <1>10, <2>2, <2>5, <2>7 DEF Gated
    <3>2. Passed(d, j) BY <1>8, <1>9, <2>2, <2>3, <2>7
    <3>3. answer[d][j] = "ok" \/ worker[d][j].pc # "off" \/ j \in run[d].todo
      BY <1>2, <2>3, <3>1, <3>2 DEF GateOf
    <3>4. worker[d][j].pc # "off" => j = i BY <1>2, <1>8, <2>1, <2>3 DEF GateOf
    <3>5. answer[d][i] = "ok" BY <1>2, <2>1, <3>1 DEF AnswerOf
    <3>6. QED BY <1>1, <2>2, <3>3, <3>4, <3>5
  <2>8. QED BY <2>2, <2>3, <2>4, <2>6, <2>7 DEF GateOf
<1>19. ASSUME FanOut(d) PROVE AnswerOf(d)' /\ GateOf(d)'
  <2>1. /\ run'[d].pc = "join" /\ run'[d].failed = run[d].failed /\ ~run[d].failed
        /\ run'[d].todo = {} /\ run'[d].waves = run[d].waves /\ run[d].pc = "fan"
    BY <1>8, <1>19 DEF FanOut, At, Becomes, Runs
  <2>2. ~Cleanup(d) /\ Targets(d)' = Targets(d) BY <1>19, <2>1 DEF FanOut, Cleanup, At, db, Targets
  <2>3. \A j \in Instances : worker'[d][j] = IF j \in run[d].todo THEN Spawned ELSE NoWorker
    BY <1>19 DEF FanOut
  <2>4. Spawned.pc = "start" /\ NoWorker.pc = "off" BY DEF Spawned, NoWorker
  <2>5. \A j \in run[d].todo : Admitted(d, j)' BY <1>2, <1>8, <1>9, <2>1, <2>2 DEF GateOf
  <2>6. AnswerOf(d)' BY <2>3, <2>4, <2>5 DEF AnswerOf
  <2>7. ASSUME ~Gated(d)', NEW j \in Targets(d), Passed(d, j)'
        PROVE  answer'[d][j] = "ok" \/ worker'[d][j].pc # "off"
    <3>1. ~Gated(d) /\ Passed(d, j) BY <1>8, <1>9, <1>10, <2>1, <2>2, <2>7 DEF Gated
    <3>2. answer[d][j] = "ok" \/ worker[d][j].pc # "off" \/ j \in run[d].todo
      BY <1>2, <2>1, <3>1 DEF GateOf
    <3>3. worker[d][j].pc = "off" BY <1>5, <1>8, <2>1
    <3>4. QED BY <1>1, <1>8, <2>3, <2>4, <3>2, <3>3
  <2>8. QED BY <2>1, <2>2, <2>6, <2>7 DEF GateOf
<1>20. ASSUME Join(d) PROVE AnswerOf(d)' /\ GateOf(d)'
  <2>1. /\ run'[d].pc = "wave" /\ run'[d].waves = run[d].waves /\ run[d].pc = "join"
        /\ run'[d].failed = \E i \in Instances : worker[d][i].pc = "done" /\ ~worker[d][i].ok
    BY <1>8, <1>20 DEF Join, At, Becomes, Runs
  <2>2. /\ ~Cleanup(d) /\ Targets(d)' = Targets(d)
        /\ \A j \in Instances : worker'[d][j].pc = "off"
        /\ \A j \in Instances : worker[d][j].pc \in {"off", "done"}
    BY <1>20, <2>1 DEF Join, Cleanup, At, Targets, Collected, NoWorker, EndWave, db, WorkersDone
  <2>3. AnswerOf(d)' BY <1>11, <2>1, <2>2
  <2>4. ASSUME ~Gated(d)', NEW j \in Targets(d), Passed(d, j)' PROVE answer'[d][j] = "ok"
    <3>1. ~Gated(d) /\ Passed(d, j)
      BY <1>2, <1>8, <1>9, <1>10, <2>1, <2>2, <2>4 DEF Gated, GateOf
    <3>2. answer[d][j] = "ok" \/ worker[d][j].pc # "off" BY <1>2, <2>1, <3>1 DEF GateOf
    <3>3. worker[d][j].pc # "off" => answer[d][j] = "ok"
      BY <1>2, <1>8, <1>10, <2>1, <2>2, <2>4 DEF AnswerOf
    <3>4. QED BY <1>1, <3>2, <3>3
  <2>5. QED BY <2>1, <2>2, <2>3, <2>4 DEF GateOf
<1>21. ASSUME FanDone(d) PROVE AnswerOf(d)' /\ GateOf(d)'
  <2>1. /\ run'[d].pc = "wave" /\ run'[d].waves = run[d].waves /\ run[d].pc = "fan"
        /\ run'[d].failed = run[d].failed /\ run[d].todo = {}
    BY <1>8, <1>21 DEF FanDone, At, Goto, Becomes, Runs
  <2>2. /\ ~Cleanup(d) /\ Targets(d)' = Targets(d)
        /\ \A j \in Instances : worker'[d][j].pc = "off"
    BY <1>5, <1>21, <2>1 DEF FanDone, Cleanup, At, Targets, EndWave, db
  <2>3. AnswerOf(d)' BY <1>11, <2>1, <2>2
  <2>4. ASSUME ~Gated(d)', NEW j \in Targets(d), Passed(d, j)' PROVE answer'[d][j] = "ok"
    <3>1. ~Gated(d) /\ Passed(d, j) BY <1>8, <1>9, <1>10, <2>1, <2>2, <2>4 DEF Gated
    <3>2. QED BY <1>1, <1>2, <1>5, <1>8, <2>1, <3>1 DEF GateOf
  <2>5. QED BY <2>1, <2>2, <2>3, <2>4 DEF GateOf
<1>22. ASSUME CancelOne(d) PROVE AnswerOf(d)' /\ GateOf(d)'
  <2>1. /\ run'[d].pc = run[d].pc /\ run'[d].waves = run[d].waves
        /\ run'[d].failed = run[d].failed /\ ~Cleanup(d) /\ run[d].pc \in {"fan", "sweep"}
        /\ UNCHANGED worker
    BY <1>8, <1>22 DEF CancelOne, At, Becomes, Runs, Cleanup
  <2>2. Gated(d) BY <1>2, <1>22 DEF CancelOne, At, GateOf, Gated
  <2>3. Gated(d)' BY <1>10, <2>1, <2>2 DEF Gated
  <2>4. AnswerOf(d)' BY <1>5, <1>11, <2>1
  <2>5. run[d].pc = "fan" => run[d].failed BY <1>22 DEF CancelOne, At
  <2>6. QED BY <2>1, <2>3, <2>4, <2>5 DEF GateOf
<1>23. QED
  BY <1>3, <1>4, <1>6, <1>12, <1>13, <1>14, <1>16, <1>17, <1>18, <1>19, <1>20, <1>21, <1>22
     DEF LoopStep, GateInv

LEMMA RecomputeGate ==
  ASSUME TypeOK, GateInv, NEW d \in Deploys, NEW p \in Members, RecomputeStep(d, p)
  PROVE  GateInv'
<1>1. ByRecompute
  BY DEF RecomputeStep, RecomputeRead, RecomputeWrite, RecomputeNotify, RecomputeFails
<1>2. \A e \in Deploys : Alike(e) BY <1>1 DEF ByRecompute, ByLoop, Alike, Targets, RootDone
<1>3. QED BY <1>2, GateFrame DEF GateInv

\* Recovery sweeps executions, and its last step may start a loop.
LEMMA RecoveryEffect ==
  ASSUME TypeOK, SafetyInv, Recovery
  PROVE  /\ proc = "recovering" /\ proc' # "stopping"
         /\ UNCHANGED <<digest, wired, handler, pending, worker, rc, history, bounds>>
         /\ \A e \in Deploys :
              /\ Targets(e)' = Targets(e)
              /\ ~On(e) /\ \A i \in Instances : worker[e][i].pc = "off"
              /\ run'[e] = run[e] \/ (RecoverEnqueue /\ e = recov.latest /\ run'[e].pc = "load")
<1> USE DEF TypeOK
<1> run \in [Deploys -> Runs] BY DEF RolloutOK
<1>1. ByRecovery /\ proc = "recovering"
  BY DEF Recovery, RecoverSelect, RecoverClosed, RecoverList, RecoverSupersede, RecovAt,
     RecoverSuperseded, RecoverEnqueue, RecoverFail, RecoverCancel, RecoverRecompute
<1>2. proc' # "stopping"
  BY <1>1 DEF Recovery, RecoverSelect, RecoverClosed, RecoverList, RecoverSupersede,
     RecoverSuperseded, RecoverEnqueue, RecoverFail, RecoverCancel, RecoverRecompute
<1>3. \A e \in Deploys : ~On(e) /\ \A i \in Instances : worker[e][i].pc = "off"
  BY <1>1 DEF SafetyInv, SlotInv, On
<1>4. \A e \in Deploys : Targets(e)' = Targets(e)
  <2>1. CASE UNCHANGED exec BY <2>1 DEF Targets
  <2>2. CASE RecoverSupersede
    <3>1. PICK d \in recov.todo : Sweep(d, {"queued"}, "superseded") BY <2>2 DEF RecoverSupersede
    <3>2. QED BY <3>1, SweepTargets DEF Statuses, NoRow
  <2>3. CASE \E d \in Deploys : RecoverFail(d) \/ RecoverCancel(d)
    <3>1. PICK d \in Deploys : \/ Sweep(d, InFlightStatuses, "failed")
                               \/ Sweep(d, {"queued"}, "canceled")
      BY <2>3 DEF RecoverFail, RecoverCancel
    <3>2. CASE Sweep(d, InFlightStatuses, "failed")
      BY <3>2, SweepTargets DEF Statuses, NoRow, InFlightStatuses
    <3>3. CASE Sweep(d, {"queued"}, "canceled") BY <3>3, SweepTargets DEF Statuses, NoRow
    <3>4. QED BY <3>1, <3>2, <3>3
  <2>4. QED
    BY <2>1, <2>2, <2>3 DEF Recovery, RecoverSelect, RecoverClosed, RecoverList,
       RecoverSuperseded, RecoverEnqueue, RecoverRecompute
<1>5. \A e \in Deploys : run'[e] = run[e] \/ (RecoverEnqueue /\ e = recov.latest /\ run'[e].pc = "load")
  <2>1. CASE RecoverEnqueue BY <2>1 DEF RecoverEnqueue, StartLoop, NoRun
  <2>2. CASE ~RecoverEnqueue
    BY <2>2 DEF Recovery, RecoverSelect, RecoverClosed, RecoverList, RecoverSupersede,
       RecoverSuperseded, RecoverFail, RecoverCancel, RecoverRecompute
  <2>3. QED BY <2>1, <2>2
<1>6. QED BY <1>1, <1>2, <1>3, <1>4, <1>5 DEF ByRecovery

LEMMA RecoveryGate == ASSUME TypeOK, SafetyInv, GateInv, Recovery PROVE GateInv'
<1>1. UNCHANGED <<worker, launched, answer>> BY RecoveryEffect DEF history
<1>2. ASSUME NEW e \in Deploys PROVE ReportedOf(e)' /\ AnswerOf(e)' /\ GateOf(e)'
  <2>1. run'[e].pc \in {"off", "load"} BY RecoveryEffect DEF On
  <2>2. \A i \in Instances : worker'[e][i].pc = "off" BY <1>1, RecoveryEffect
  <2>3. ReportedOf(e)' BY <1>1, RecoveryEffect, ReportedFrame DEF GateInv
  <2>4. QED BY <2>1, <2>2, <2>3, GateIdle
<1>3. QED BY <1>2 DEF GateInv

LEMMA ProcessGate ==
  ASSUME TypeOK, GateInv, Wire \/ Start \/ Crash \/ Stop \/ Exit \/ AllServed PROVE GateInv'
<1>1. CASE Crash \/ Exit
  <2>1. Dies BY <1>1 DEF Crash, Exit
  <2>2. ASSUME NEW e \in Deploys PROVE ReportedOf(e)' /\ AnswerOf(e)' /\ GateOf(e)'
    <3>1. run'[e].pc = "off" /\ \A i \in Instances : worker'[e][i].pc = "off"
      BY <2>1 DEF Dies, NoRun, NoWorker
    <3>2. launched'[e] = launched[e] /\ answer'[e] = answer[e] /\ Targets(e)' = Targets(e)
      BY <2>1 DEF Dies, history, db, Targets
    <3>3. ReportedOf(e)' BY <3>2, ReportedFrame DEF GateInv
    <3>4. QED BY <3>1, <3>3, GateIdle
  <2>3. QED BY <2>2 DEF GateInv
<1>2. CASE Wire \/ Start \/ Stop \/ AllServed
  <2>1. \A e \in Deploys : Alike(e)
    BY <1>2 DEF Wire, Start, Stop, AllServed, vars, db, rollout, history, Alike, RootDone, Targets
  <2>2. QED BY <2>1, GateFrame DEF GateInv
<1>3. QED BY <1>1, <1>2

LEMMA GateStep == ASSUME TypeOK, SafetyInv, GateInv, [Next]_vars PROVE GateInv'
<1>1. CASE Next
  BY <1>1, HandlerGate, LoopGate, WorkerGate, RecomputeGate, RecoveryGate, ProcessGate DEF Next
<1>2. CASE UNCHANGED vars
  <2>1. \A e \in Deploys : Alike(e)
    BY <1>2 DEF vars, db, rollout, history, Alike, RootDone, Targets
  <2>2. QED BY <2>1, GateFrame DEF GateInv
<1>3. QED BY <1>1, <1>2

LEMMA GateHolds == Spec => []GateInv
  BY InitGate, GateStep, TypeCorrect, Safety, PTL DEF Spec

\* Wave gating (PRD): an execution is started only after the executors of all
\* earlier waves of its rollout reported success.
THEOREM WavesAreGated == Spec => []WaveGate
<1>1. GateInv => WaveGate
  BY DEF GateInv, ReportedOf, Clear, WaveGate, Targets
<1>2. QED BY <1>1, GateHolds, PTL

-----------------------------------------------------------------------------
(***************************************************************************)
(* Rows: HandInv, LoopInv, RowInv and RecovInv are inductive.              *)
(***************************************************************************)

\* An execution only moves on: never back to queued, and never once settled.
MovesOn(e) ==
  /\ Targets(e)' = Targets(e)
  /\ \A i \in Instances : \/ exec'[e][i] = exec[e][i]
                          \/ ~Terminal(exec[e][i]) /\ exec'[e][i] \in Statuses \ {"queued"}
Deleted(e) == Targets(e)' = {} /\ \A i \in Instances : exec'[e][i] = NoRow

LEMMA SweepMoves ==
  ASSUME RowsOK, NEW d, NEW from \in SUBSET {"queued", "dispatching", "running"},
         NEW to \in Statuses \ {"queued"}, Sweep(d, from, to), NEW e \in Deploys
  PROVE  MovesOn(e)
<1>1. \A s \in from : ~Terminal(s) /\ s # NoRow BY DEF Terminal, TerminalStatuses, NoRow
<1>2. \A i \in Instances : \/ exec'[e][i] = exec[e][i]
                           \/ exec[e][i] \in from /\ exec'[e][i] = to
  BY DEF RowsOK, Sweep
<1>3. to # NoRow BY DEF Statuses, NoRow
<1>4. QED BY <1>1, <1>2, <1>3 DEF MovesOn, Targets

LEMMA StillMoves == ASSUME NEW e \in Deploys, exec'[e] = exec[e] PROVE MovesOn(e)
  BY DEF MovesOn, Targets

LEMMA ExecStep ==
  ASSUME TypeOK, SafetyInv, Next, NEW e \in Deploys
  PROVE  \/ MovesOn(e)
         \/ Create(e)
         \/ Deleted(e) /\ e \in Expired /\ \E d \in Deploys : Cleanup(d)
<1> USE DEF TypeOK
<1>1. CASE \E d \in Deploys : Handler(d)
  <2>1. PICK d \in Deploys : Handler(d) BY <1>1
  <2>2. CASE exec'[e] = exec[e] BY <2>2, StillMoves
  <2>3. CASE EnqueueReplace(d)
    BY <2>3, SweepMoves DEF EnqueueReplace, Statuses
  <2>4. CASE Create(d)
    <3>1. e # d => exec'[e] = exec[e] BY <2>4 DEF Create, RowsOK
    <3>2. QED BY <2>2, <2>4, <3>1
  <2>5. UNCHANGED exec \/ EnqueueReplace(d) \/ Create(d)
    BY <2>1 DEF Handler, Build, CreateBroken, CreateFails, EnqueueFree, EnqueueWait,
       EnqueueReplaced, ReplaceFails, db
  <2>6. QED BY <2>2, <2>3, <2>4, <2>5
<1>2. CASE \E d \in Deploys : LoopStep(d)
  <2>1. PICK d \in Deploys : LoopStep(d) BY <1>2
  <2>2. CASE exec'[e] = exec[e] BY <2>2, StillMoves
  <2>3. CASE CancelOne(d)
    <3>1. PICK i \in Instances : \/ (exec' = [exec EXCEPT ![d][i] = "canceled"] /\ exec[d][i] = "queued")
                               \/ exec' = exec
      BY <2>3, RunTypes DEF CancelOne, StillIn
    <3>2. QED
      BY <2>2, <3>1 DEF RowsOK, MovesOn, Targets, NoRow, Statuses, Terminal, TerminalStatuses
  <2>4. CASE Cleanup(d) BY <2>2, <2>4 DEF Cleanup, Deleted, Targets
  <2>5. QED
    BY <2>1, <2>2, <2>3, <2>4 DEF LoopStep, Load, LoadFails, CancelWave, FirstAlone, WholeWave,
       JoinFirst, FanOut, Join, FanDone, SweepDone, LastWaveDone, NextDeploy, EndWave, db
<1>3. CASE \E d \in Deploys, i \in Instances : WorkerStep(d, i)
  <2>1. PICK d \in Deploys, i \in Instances : WorkerStep(d, i) BY <1>3
  <2>2. PICK w \in Workers, s \in Statuses \cup {NoRow} :
          exec' = [exec EXCEPT ![d][i] = s] /\ WorkerDoes(d, i, w, s)
    BY <2>1, WorkerEffect
  <2>3. s = exec[d][i] \/ (~Terminal(exec[d][i]) /\ s \in Statuses \ {"queued"})
    BY <2>2 DEF WorkerDoes, Statuses, Terminal, TerminalStatuses
  <2>4. Targets(e)' = Targets(e) BY <2>1, WorkerTargets
  <2>5. QED BY <2>2, <2>3, <2>4 DEF RowsOK, MovesOn
<1>4. CASE \E d \in Deploys, p \in Members : RecomputeStep(d, p)
  BY <1>4, StillMoves DEF RecomputeStep, RecomputeRead, RecomputeWrite, RecomputeNotify,
     RecomputeFails, ByRecompute
<1>5. CASE Recovery
  <2>1. CASE exec'[e] = exec[e] BY <2>1, StillMoves
  <2>2. CASE RecoverSupersede BY <2>2, SweepMoves DEF RecoverSupersede, Statuses
  <2>3. CASE \E d \in Deploys : RecoverFail(d) \/ RecoverCancel(d)
    BY <2>3, SweepMoves DEF RecoverFail, RecoverCancel, Statuses, InFlightStatuses
  <2>4. QED
    BY <1>5, <2>1, <2>2, <2>3 DEF Recovery, RecoverSelect, RecoverClosed, RecoverList,
       RecoverSuperseded, RecoverEnqueue, RecoverRecompute
<1>6. CASE Wire \/ Start \/ Crash \/ Stop \/ Exit \/ AllServed
  BY <1>6, StillMoves DEF Wire, Start, Crash, Stop, Exit, AllServed, Dies, db, vars
<1>7. QED BY <1>1, <1>2, <1>3, <1>4, <1>5, <1>6 DEF Next

LEMMA MovesKeep ==
  ASSUME NEW e \in Deploys, MovesOn(e)
  PROVE  /\ ~Unsettled(e) => ~Unsettled(e)'
         /\ AllSucceeded(e) => AllSucceeded(e)'
         /\ Moved(e) => Moved(e)'
  BY DEF MovesOn, Unsettled, AllSucceeded, Moved, Terminal, TerminalStatuses, Targets, Statuses

-----------------------------------------------------------------------------
(* Hand-overs                                                               *)

LEMMA IdleOff ==
  ASSUME SafetyInv, LoopInv, NEW d \in Deploys, ~On(d)
  PROVE  /\ \A i \in Instances : worker[d][i].pc = "off"
         /\ \A p \in Members : rc[d][p].pc = "idle"
<1>1. \A i \in Instances : worker[d][i].pc = "off" BY DEF SafetyInv, SlotInv, On
<1>2. run[d].pc = "off" BY DEF On
<1>3. QED BY <1>1, <1>2 DEF LoopInv, LoopOf, Members

LEMMA FreshKept ==
  ASSUME NEW e \in Deploys, Fresh(e), dstatus'[e] = dstatus[e], exec'[e] = exec[e],
         run'[e] = run[e]
  PROVE  Fresh(e)'
  BY DEF Fresh, InFlight, On

LEMMA InitHand == ASSUME Init PROVE HandInv
  BY DEF Init, NoGoroutines, NoRun, On, HandInv

LEMMA HandlerHand ==
  ASSUME TypeOK, SafetyInv, HandInv, NEW d \in Deploys, Handler(d) PROVE HandInv'
<1> USE DEF TypeOK
<1> /\ handler \in [Deploys -> HandlerPcs] /\ run \in [Deploys -> Runs]
    /\ pending \in Deploys \cup {None} /\ None \notin Deploys
    /\ dstatus \in [Deploys -> Statuses \cup {NoRow}]
    /\ exec \in [Deploys -> [Instances -> Statuses \cup {NoRow}]]
  BY DeploysAssumption DEF ProcessOK, RolloutOK, RowsOK, None
<1>1. proc' = proc /\ proc \notin {"down", "recovering", "wiring"}
  BY DEF Handler, Build, CreateBroken, Create, CreateFails, EnqueueFree, EnqueueWait,
     EnqueueReplace, EnqueueReplaced, ReplaceFails, Serving
<1>2. handler[d] \in {"none", "built"} => ~On(d) /\ pending # d
  BY DEF SafetyInv, BornInv, Unborn, Untouched
<1>3. CASE Build(d) \/ CreateFails(d)
  <2>1. UNCHANGED <<db, pending, run>> /\ \E pc \in {"built", "done"} : handler' = [handler EXCEPT ![d] = pc]
    BY <1>3 DEF Build, CreateFails, rollout
  <2>2. handler[d] \in {"none", "built"} BY <1>3 DEF Build, CreateFails
  <2>3. \A e \in Deploys : Fresh(e) => Fresh(e)' BY <2>1, FreshKept DEF db
  <2>4. QED BY <1>1, <1>2, <2>1, <2>2, <2>3 DEF HandInv, On, Unsettled, Targets, db
<1>4. CASE CreateBroken(d) \/ Create(d)
  <2>1. /\ handler[d] = "built" /\ UNCHANGED <<pending, run>>
        /\ \A e \in Deploys \ {d} : dstatus'[e] = dstatus[e] /\ exec'[e] = exec[e]
    BY <1>4 DEF CreateBroken, Create, rollout
  <2>2. \A e \in Deploys \ {d} : Fresh(e) => Fresh(e)' BY <2>1, FreshKept
  <2>3. \/ handler' = [handler EXCEPT ![d] = "done"]
        \/ handler' = [handler EXCEPT ![d] = "stored"] /\ Fresh(d)'
    <3>1. CASE CreateBroken(d) BY <3>1 DEF CreateBroken
    <3>2. CASE Create(d)
      <4>1. \A i \in Instances : exec'[d][i] \in {"queued", NoRow} BY <3>2 DEF Create
      <4>2. dstatus'[d] = "queued" BY <3>2 DEF Create
      <4>3. ~On(d)' BY <1>2, <2>1 DEF On
      <4>4. Fresh(d)' BY <4>1, <4>2, <4>3 DEF Fresh, InFlight, InFlightStatuses, NoRow
      <4>5. QED BY <3>2, <4>4 DEF Create
    <3>3. QED BY <1>4, <3>1, <3>2
  <2>4. pending # None => (~Unsettled(pending) => ~Unsettled(pending)')
    BY <1>2, <2>1 DEF Unsettled, Targets
  <2>5. QED BY <1>1, <1>2, <2>1, <2>2, <2>3, <2>4 DEF HandInv, On
<1>5. CASE EnqueueFree(d)
  <2>1. /\ handler[d] = "stored" /\ ~Locked /\ ~busy /\ handler' = [handler EXCEPT ![d] = "done"]
        /\ UNCHANGED <<db, pending>> /\ run' = [run EXCEPT ![d] = [NoRun EXCEPT !.pc = "load"]]
    BY <1>5 DEF EnqueueFree, StartLoop, ServiceFree
  <2>2. \A e \in Deploys \ {d} : Fresh(e) => Fresh(e)' BY <2>1, FreshKept DEF db
  <2>3. \A e \in Deploys : On(e)' => e = d
    <3>1. \A e \in Deploys : ~On(e) BY <2>1 DEF SafetyInv, SlotInv
    <3>2. QED BY <2>1, <3>1 DEF On
  <2>4. pending # d BY <2>1 DEF HandInv
  <2>5. QED BY <1>1, <2>1, <2>2, <2>3, <2>4 DEF HandInv, Locked
<1>6. CASE EnqueueWait(d)
  <2>1. /\ handler[d] = "stored" /\ ~Locked /\ handler' = [handler EXCEPT ![d] = "done"]
        /\ UNCHANGED <<db, run>> /\ pending' = d
    BY <1>6 DEF EnqueueWait, rollout
  <2>2. \A e \in Deploys : Fresh(e) => Fresh(e)' BY <2>1, FreshKept DEF db
  <2>3. Fresh(d) BY <2>1 DEF HandInv
  <2>4. QED BY <1>1, <2>1, <2>2, <2>3 DEF HandInv, Locked, Fresh, On
<1>7. CASE EnqueueReplace(d)
  <2>1. /\ handler[d] = "stored" /\ ~Locked /\ handler' = [handler EXCEPT ![d] = "superseding"]
        /\ UNCHANGED <<dstatus, run, pending>> /\ pending \in Deploys
        /\ Sweep(pending, {"queued"}, "superseded")
    BY <1>7 DEF EnqueueReplace, rollout
  <2>2. Fresh(d) /\ pending # d /\ Fresh(pending) BY <2>1 DEF HandInv
  <2>3. \A e \in Deploys \ {pending} : Fresh(e) => Fresh(e)'
    <3>1. \A e \in Deploys \ {pending} : exec'[e] = exec[e] BY <2>1 DEF Sweep
    <3>2. QED BY <2>1, <3>1, FreshKept
  <2>4. \A i \in Instances : exec'[pending][i] \in {exec[pending][i], "superseded"} \ {"queued"}
    BY <2>1 DEF Sweep
  <2>5. Fresh(pending)' BY <2>1, <2>2, <2>4 DEF Fresh, InFlight, InFlightStatuses, On
  <2>6. ~Unsettled(pending)'
    <3>1. \A i \in Instances : exec[pending][i] \notin {"dispatching", "running"}
      BY <2>2 DEF Fresh, InFlight, InFlightStatuses
    <3>2. \A i \in Instances : exec'[pending][i] \in TerminalStatuses \cup {NoRow}
      BY <2>1, <2>4, <3>1 DEF Statuses, TerminalStatuses
    <3>3. QED BY <2>1, <3>2 DEF Unsettled, Targets, Terminal
  <2>7. QED BY <1>1, <2>1, <2>2, <2>3, <2>5, <2>6 DEF HandInv, Locked, On
<1>8. CASE EnqueueReplaced(d) \/ ReplaceFails(d)
  <2>1. /\ handler[d] \in {"stored", "superseding"} /\ handler' = [handler EXCEPT ![d] = "done"]
        /\ pending' = d /\ UNCHANGED <<exec, run>> /\ pending # None
        /\ \A e \in Deploys : e # pending => dstatus'[e] = dstatus[e]
        /\ handler[d] = "stored" => ~Locked
    BY <1>8 DEF EnqueueReplaced, ReplaceFails, SupersedeRow, rollout, db, HandInv
  <2>2. \A e \in Deploys : handler'[e] # "superseding" BY <2>1 DEF HandInv, Locked
  <2>3. \A e \in Deploys \ {pending} : Fresh(e) => Fresh(e)' BY <2>1, FreshKept
  <2>4. Fresh(d) /\ pending # d BY <2>1 DEF HandInv
  <2>5. QED BY <1>1, <2>1, <2>2, <2>3, <2>4 DEF HandInv, Fresh, On
<1>9. QED BY <1>3, <1>4, <1>5, <1>6, <1>7, <1>8 DEF Handler

LEMMA LoopHand ==
  ASSUME TypeOK, SafetyInv, HandInv, NEW d \in Deploys, LoopStep(d) PROVE HandInv'
<1> /\ pending \in Deploys \cup {None} /\ None \notin Deploys
    /\ exec \in [Deploys -> [Instances -> Statuses \cup {NoRow}]]
    /\ dstatus \in [Deploys -> Statuses \cup {NoRow}]
  BY DeploysAssumption DEF TypeOK, ProcessOK, RowsOK, None
<1>1. /\ UNCHANGED <<handler, proc>> /\ On(d)
      /\ \A e \in Deploys \ {d} :
           ~On(e) /\ (run'[e] = run[e] \/ (NextDeploy(d) /\ e = pending /\ run'[e].pc = "load"))
  BY LoopEffect
<1>2. handler[d] = "done" /\ pending # d BY <1>1 DEF HandInv
<1>3. ASSUME NEW e \in Deploys \ {d}, dstatus[e] = "queued"
      PROVE  dstatus'[e] = "queued" /\ exec'[e] = exec[e]
  <2>1. e \notin Expired BY <1>3 DEF Expired, Terminal, TerminalStatuses
  <2>2. CASE Cleanup(d) BY <1>3, <2>1, <2>2 DEF Cleanup
  <2>3. CASE CancelOne(d) BY <1>3, <2>3 DEF CancelOne
  <2>4. CASE UNCHANGED <<dstatus, exec>> BY <1>3, <2>4
  <2>5. QED
    BY <2>2, <2>3, <2>4 DEF LoopStep, Load, LoadFails, CancelWave, FirstAlone, WholeWave,
       JoinFirst, FanOut, Join, FanDone, SweepDone, LastWaveDone, NextDeploy, EndWave, db
<1>4. ASSUME NEW e \in Deploys, Fresh(e), run'[e] = run[e] PROVE Fresh(e)'
  <2>1. e # d /\ dstatus[e] = "queued" BY <1>1, <1>4 DEF Fresh
  <2>2. QED BY <1>3, <1>4, <2>1, FreshKept DEF Fresh
<1>5. CASE NextDeploy(d)
  <2>1. UNCHANGED <<dstatus, exec>> /\ ~Locked BY <1>5 DEF NextDeploy, db
  <2>2. \/ /\ pending # None /\ pending' = None
           /\ run' = [run EXCEPT ![d] = NoRun, ![pending] = [NoRun EXCEPT !.pc = "load"]]
        \/ pending' = pending /\ run' = [run EXCEPT ![d] = NoRun]
    BY <1>5 DEF NextDeploy, SlotAfter, TakesPending
  <2>3. \A e \in Deploys : On(e)' => e = pending /\ pending' = None
    <3>1. \A e \in Deploys : e # d /\ e # pending => run'[e] = run[e] BY <1>1
    <3>2. NoRun.pc = "off" BY DEF NoRun
    <3>3. run'[d] = NoRun BY <1>2, <2>2 DEF TypeOK, RolloutOK
    <3>4. pending' = pending => \A e \in Deploys \ {d} : run'[e] = run[e]
      BY <1>2, <2>2 DEF TypeOK, RolloutOK
    <3>5. QED BY <1>1, <2>2, <3>1, <3>2, <3>3, <3>4 DEF On
  <2>4. \A e \in Deploys : On(e)' => handler[e] = "done" BY <2>3 DEF HandInv
  <2>5. \A e \in Deploys : handler[e] \in {"stored", "superseding"} => Fresh(e)' /\ pending' # e
    <3>1. \A e \in Deploys : handler[e] \in {"stored", "superseding"} =>
            e # d /\ e # pending /\ Fresh(e)
      BY <1>2 DEF HandInv
    <3>2. QED BY <1>1, <1>4, <2>2, <3>1
  <2>6. ASSUME pending' # None PROVE handler[pending] = "done" /\ Fresh(pending)'
    <3>1. pending' = pending /\ run' = [run EXCEPT ![d] = NoRun] /\ pending \in Deploys BY <2>2, <2>6
    <3>2. \A e \in Deploys : e = pending => Fresh(e)'
      <4>1. \A e \in Deploys : e = pending => run'[e] = run[e] /\ Fresh(e)
        BY <1>2, <2>6, <3>1 DEF HandInv, TypeOK, RolloutOK
      <4>2. QED BY <1>4, <4>1
    <3>3. QED BY <2>6, <3>1, <3>2 DEF HandInv
  <2>7. \A e \in Deploys : handler[e] # "superseding" BY <2>1 DEF Locked
  <2>8. proc \in {"down", "recovering", "wiring"} => pending' = None BY <2>2 DEF HandInv
  <2>9. \A e \in Deploys : On(e)' => pending' # e BY <2>3
  <2>10. pending' # None => pending' = pending BY <2>2
  <2>11. QED BY <1>1, <2>4, <2>5, <2>6, <2>7, <2>8, <2>9, <2>10 DEF HandInv
<1>6. CASE ~NextDeploy(d)
  <2>1. UNCHANGED pending /\ \A e \in Deploys \ {d} : run'[e] = run[e]
    BY <1>1, <1>6 DEF LoopStep, Load, LoadFails, CancelWave, FirstAlone, WholeWave,
       JoinFirst, FanOut, Join, FanDone, CancelOne, SweepDone, LastWaveDone, Cleanup, EndWave
  <2>2. \A e \in Deploys : On(e)' => On(e) BY <1>1, <2>1 DEF On
  <2>3. \A e \in Deploys : Fresh(e) => Fresh(e)' BY <1>1, <1>4, <2>1 DEF Fresh
  <2>4. pending # None /\ ~Unsettled(pending) => ~Unsettled(pending)'
    <3>1. \A e \in Deploys : e = pending => e # d /\ dstatus[e] = "queued"
      BY <1>2 DEF HandInv, Fresh
    <3>2. \A e \in Deploys : e = pending => exec'[e] = exec[e] BY <1>3, <3>1
    <3>3. QED BY <2>1, <3>2 DEF Unsettled, Targets
  <2>5. QED BY <1>1, <2>1, <2>2, <2>3, <2>4 DEF HandInv
<1>7. QED BY <1>5, <1>6

\* A rollout in the loop touches no deploy that waits.
LEMMA WorkerHand ==
  ASSUME TypeOK, SafetyInv, HandInv, NEW d \in Deploys, NEW i \in Instances, WorkerStep(d, i)
  PROVE  HandInv'
<1>1. UNCHANGED <<dstatus, pending, run, proc, handler>> BY WorkerEffect
<1>2. PICK s : exec' = [exec EXCEPT ![d][i] = s] BY WorkerEffect
<1>3. On(d)
  BY DEF WorkerStep, Dispatch, Launch, AcquireFails, Execute, TransitionFails, WorkerAt,
     SafetyInv, SlotInv, On
<1>4. \A e \in Deploys \ {d} : exec'[e] = exec[e] BY <1>2
<1>5. \A e \in Deploys : Fresh(e) => Fresh(e)' BY <1>1, <1>3, <1>4, FreshKept DEF Fresh
<1>6. pending # d BY <1>3 DEF HandInv
<1>7. pending \in Deploys /\ ~Unsettled(pending) => ~Unsettled(pending)'
  BY <1>1, <1>4, <1>6 DEF Unsettled, Targets
<1>8. pending \in Deploys \cup {None} BY DEF TypeOK, ProcessOK
<1>9. QED BY <1>1, <1>5, <1>7, <1>8 DEF HandInv, On

LEMMA RecomputeEffect ==
  ASSUME TypeOK, NEW d \in Deploys, NEW p \in Members, RecomputeStep(d, p)
  PROVE  /\ UNCHANGED <<digest, exec, busy, pending, run, worker, launched, answer, pinned,
                        proc, recov, wired, handler>>
         /\ rc[d][p].pc # "idle"
         /\ \A e \in Deploys \ {d} :
              dstatus'[e] = dstatus[e] /\ finished'[e] = finished[e] /\ rc'[e] = rc[e]
         /\ \A q \in Members \ {p} : rc'[d][q] = rc[d][q]
<1>1. UNCHANGED <<digest, exec, busy, pending, run, worker, launched, answer, pinned,
                  proc, recov, wired, handler>>
  BY DEF RecomputeStep, RecomputeRead, RecomputeWrite, RecomputeNotify, RecomputeFails,
     ByRecompute, ByLoop
<1>2. rc[d][p].pc # "idle"
  BY DEF RecomputeStep, RecomputeRead, RecomputeWrite, RecomputeNotify, RecomputeFails
<1>3. \A e \in Deploys \ {d} :
        dstatus'[e] = dstatus[e] /\ finished'[e] = finished[e]
  BY DEF RecomputeStep, RecomputeRead, RecomputeWrite, RecomputeNotify, RecomputeFails,
     WriteDeploy, TypeOK, RowsOK
<1>4. \E c : rc' = [rc EXCEPT ![d][p] = c]
  BY DEF RecomputeStep, RecomputeRead, RecomputeWrite, RecomputeNotify, RecomputeFails,
     RecomputeEnds
<1>5. (\A e \in Deploys \ {d} : rc'[e] = rc[e]) /\ \A q \in Members \ {p} : rc'[d][q] = rc[d][q]
  BY <1>4 DEF TypeOK, RolloutOK
<1>6. QED BY <1>1, <1>2, <1>3, <1>5

LEMMA RecomputeHand ==
  ASSUME TypeOK, SafetyInv, LoopInv, HandInv, NEW d \in Deploys, NEW p \in Members,
         RecomputeStep(d, p)
  PROVE  HandInv'
<1>1. UNCHANGED <<exec, pending, run, proc, handler>> /\ rc[d][p].pc # "idle"
      /\ \A e \in Deploys \ {d} : dstatus'[e] = dstatus[e]
  BY RecomputeEffect
<1>2. On(d) BY <1>1, IdleOff
<1>3. \A e \in Deploys : Fresh(e) => Fresh(e)' BY <1>1, <1>2, FreshKept DEF Fresh
<1>4. Unsettled(pending)' = Unsettled(pending) BY <1>1 DEF Unsettled, Targets
<1>5. pending \in Deploys \cup {None} BY DEF TypeOK, ProcessOK
<1>6. QED BY <1>1, <1>3, <1>4, <1>5 DEF HandInv, On

LEMMA RecoveryHand == ASSUME TypeOK, SafetyInv, HandInv, Recovery PROVE HandInv'
<1>1. /\ proc = "recovering" /\ UNCHANGED <<handler, pending>>
      /\ \A e \in Deploys : ~On(e) /\ (run'[e] = run[e] \/ (e = recov.latest /\ run'[e].pc = "load"))
  BY RecoveryEffect
<1>2. pending = None /\ \A e \in Deploys : handler[e] \in {"none", "done"} BY <1>1 DEF HandInv
<1>3. \A e \in Deploys : On(e)' => handler[e] = "done"
  <2>1. \A e \in Deploys : e = recov.latest => ~Unborn(e) BY DEF SafetyInv, BornInv, Untouched
  <2>2. QED BY <1>1, <1>2, <2>1 DEF On, Unborn
<1>4. None \notin Deploys BY DeploysAssumption DEF None
<1>5. QED BY <1>1, <1>2, <1>3, <1>4 DEF HandInv

LEMMA ProcessHand ==
  ASSUME TypeOK, HandInv, Wire \/ Start \/ Crash \/ Stop \/ Exit \/ AllServed PROVE HandInv'
<1>1. CASE Crash \/ Exit
  <2>1. Dies BY <1>1 DEF Crash, Exit
  <2>2. \A d \in Deploys : ~On(d)' /\ handler'[d] \in {"none", "done"}
    BY <2>1 DEF Dies, On, NoRun
  <2>3. pending' = None BY <2>1 DEF Dies
  <2>4. QED BY <2>2, <2>3 DEF HandInv
<1>2. CASE Wire \/ Start \/ Stop \/ AllServed
  BY <1>2 DEF Wire, Start, Stop, AllServed, vars, db, rollout, HandInv, Fresh, InFlight, On,
     Unsettled, Targets
<1>3. QED BY <1>1, <1>2

-----------------------------------------------------------------------------
(* The loop and its recomputes                                              *)

LEMMA LoopIsNoInstance == Loop \notin Instances BY InstancesAssumption DEF Loop

LEMMA LoopAtRest ==
  ASSUME NEW e \in Deploys, \A p \in Members : rc'[e][p].pc = "idle",
         run'[e].pc = "off" \/ (run'[e].pc = "load" /\ dstatus'[e] = "queued")
  PROVE  LoopOf(e)'
  BY DEF LoopOf, Members

LEMMA LoopFrame ==
  ASSUME NEW e \in Deploys, LoopOf(e), run'[e] = run[e], rc'[e] = rc[e],
         worker'[e] = worker[e], exec'[e] = exec[e], dstatus'[e] = dstatus[e]
  PROVE  LoopOf(e)'
  BY DEF LoopOf, Targets

\* The rows of a deploy that is in the loop are out of the handlers' reach.
LEMMA HandlerRows ==
  ASSUME TypeOK, SafetyInv, HandInv, NEW d \in Deploys, Handler(d), NEW e \in Deploys, On(e)
  PROVE  run'[e] = run[e] /\ exec'[e] = exec[e] /\ dstatus'[e] = dstatus[e]
<1>1. handler[e] = "done" /\ pending # e BY DEF HandInv
<1>2. e # d
  BY <1>1 DEF Handler, Build, CreateBroken, Create, CreateFails, EnqueueFree, EnqueueWait,
     EnqueueReplace, EnqueueReplaced, ReplaceFails
<1>3. run'[e] = run[e]
  BY <1>2 DEF Handler, Build, CreateBroken, Create, CreateFails, EnqueueFree, EnqueueWait,
     EnqueueReplace, EnqueueReplaced, ReplaceFails, StartLoop, rollout, TypeOK, RolloutOK
<1>4. exec'[e] = exec[e]
  BY <1>1, <1>2 DEF Handler, Build, CreateBroken, Create, CreateFails, EnqueueFree, EnqueueWait,
     EnqueueReplace, EnqueueReplaced, ReplaceFails, Sweep, db, TypeOK, RowsOK
<1>5. dstatus'[e] = dstatus[e]
  BY <1>1, <1>2 DEF Handler, Build, CreateBroken, Create, CreateFails, EnqueueFree, EnqueueWait,
     EnqueueReplace, EnqueueReplaced, ReplaceFails, SupersedeRow, db, TypeOK, RowsOK
<1>6. QED BY <1>3, <1>4, <1>5

LEMMA HandlerLoop ==
  ASSUME TypeOK, SafetyInv, HandInv, LoopInv, NEW d \in Deploys, Handler(d),
         NEW e \in Deploys
  PROVE  LoopOf(e)'
<1>1. UNCHANGED <<worker, rc>>
  BY DEF Handler, Build, CreateBroken, Create, CreateFails, EnqueueFree, EnqueueWait,
     EnqueueReplace, EnqueueReplaced, ReplaceFails, rollout
<1>2. CASE On(e) BY <1>1, <1>2, HandlerRows, LoopFrame DEF LoopInv
<1>3. CASE ~On(e)
  <2>1. \A p \in Members : rc'[e][p].pc = "idle" BY <1>1, <1>3, IdleOff
  <2>2. CASE e = d /\ EnqueueFree(d)
    <3>1. Fresh(e) BY <2>2 DEF EnqueueFree, HandInv
    <3>2. run'[e].pc = "load" /\ dstatus'[e] = "queued"
      BY <2>2, <3>1 DEF EnqueueFree, StartLoop, db, Fresh, TypeOK, RolloutOK, NoRun
    <3>3. QED BY <2>1, <3>2, LoopAtRest
  <2>3. CASE ~(e = d /\ EnqueueFree(d))
    <3>1. run'[e] = run[e]
      BY <2>3 DEF Handler, Build, CreateBroken, Create, CreateFails, EnqueueFree, EnqueueWait,
         EnqueueReplace, EnqueueReplaced, ReplaceFails, StartLoop, rollout, TypeOK, RolloutOK
    <3>2. QED BY <1>3, <2>1, <3>1, LoopAtRest DEF On
  <2>4. QED BY <2>2, <2>3
<1>4. QED BY <1>2, <1>3

LEMMA LoopRest ==
  ASSUME SafetyInv, LoopInv, NEW d \in Deploys, LoopStep(d)
  PROVE  \A p \in Members : rc[d][p].pc = "idle"
<1>1. rc[d][Loop].pc = "idle"
  BY DEF LoopStep, Load, LoadFails, CancelWave, FirstAlone, WholeWave, JoinFirst, FanOut,
     Join, FanDone, CancelOne, SweepDone, LastWaveDone, Cleanup, NextDeploy, NextWave, At
<1>2. \A i \in Instances : rc[d][i].pc = "idle"
  <2>1. CASE JoinFirst(d) \/ Join(d) BY <2>1 DEF JoinFirst, Join, WorkersDone
  <2>2. CASE run[d].pc \notin {"first", "join"}
    BY <2>2 DEF SafetyInv, SlotInv, LoopInv, LoopOf
  <2>3. QED
    BY <2>1, <2>2 DEF LoopStep, Load, LoadFails, CancelWave, FirstAlone, WholeWave, FanOut,
       FanDone, CancelOne, SweepDone, LastWaveDone, Cleanup, NextDeploy, NextWave, At
<1>3. QED BY <1>1, <1>2 DEF Members

LEMMA LoopLoop ==
  ASSUME TypeOK, SafetyInv, HandInv, LoopInv, NEW d \in Deploys, LoopStep(d), NEW e \in Deploys
  PROVE  LoopOf(e)'
<1> run \in [Deploys -> Runs] /\ rc \in [Deploys -> [Members -> Recomputes]]
  BY DEF TypeOK, RolloutOK
<1>1. \A p \in Members : rc[d][p].pc = "idle" BY LoopRest
<1>2. CASE e # d
  <2>1. /\ ~On(e) /\ rc'[e] = rc[e] /\ run'[e].pc \in {"off", "load"}
        /\ run'[e] = run[e] \/ (NextDeploy(d) /\ e = pending)
    BY <1>2, LoopEffect
  <2>2. \A p \in Members : rc'[e][p].pc = "idle" BY <2>1, IdleOff
  <2>3. run'[e].pc = "load" => dstatus'[e] = "queued"
    <3>1. CASE run'[e] = run[e] BY <2>1, <3>1 DEF On
    <3>2. CASE NextDeploy(d) /\ e = pending
      <4>1. pending # None BY <3>2, DeploysAssumption DEF None
      <4>2. dstatus[e] = "queued" BY <3>2, <4>1 DEF HandInv, Fresh
      <4>3. QED BY <3>2, <4>2 DEF NextDeploy, db
    <3>3. QED BY <2>1, <3>1, <3>2
  <2>4. QED BY <2>1, <2>2, <2>3, LoopAtRest
<1>3. CASE e = d /\ NextDeploy(d)
  <2>1. On(d) /\ pending # d BY LoopEffect DEF HandInv
  <2>2. run'[d].pc = "off" BY <1>3, <2>1 DEF NextDeploy, NoRun
  <2>3. UNCHANGED rc BY <1>3 DEF NextDeploy
  <2>4. QED BY <1>1, <1>3, <2>2, <2>3, LoopAtRest
<1>4. CASE e = d /\ ~NextDeploy(d)
  <2>1. run[d] \in Runs OBVIOUS
  <2>2. \/ rc' = rc
        \/ rc' = [rc EXCEPT ![d][Loop] = Recompute] /\ run'[d].pc \in {"wave", "clean"}
    <3>1. CASE Join(d) BY <2>1, <3>1 DEF Join, EndWave, Becomes, Runs
    <3>2. CASE FanDone(d) \/ LastWaveDone(d)
      BY <2>1, <3>2 DEF FanDone, LastWaveDone, EndWave, Goto, Becomes, Runs
    <3>3. UNCHANGED rc \/ Join(d) \/ FanDone(d) \/ LastWaveDone(d)
      BY <1>4 DEF LoopStep, Load, LoadFails, CancelWave, FirstAlone, WholeWave, JoinFirst, FanOut,
         CancelOne, SweepDone, Cleanup
    <3>4. QED BY <3>1, <3>2, <3>3
  <2>3. \A i \in Instances : rc'[d][i].pc = "idle"
    <3>1. \A i \in Instances : i # Loop /\ i \in Members BY LoopIsNoInstance DEF Members
    <3>2. QED BY <1>1, <2>2, <3>1
  <2>4. rc'[d][Loop].pc # "idle" => run'[d].pc \in {"wave", "clean"}
    BY <1>1, <2>2 DEF Members
  <2>5. run'[d].pc # "load" /\ (run'[d].pc \in {"off", "next"} \/ Targets(d)' # {})
    <3>1. CASE Load(d)
      <4>1. CASE Targets(d) # {}
        <5>1. Targets(d)' # {} BY <3>1, <4>1 DEF Load, db, Targets
        <5>2. run'[d].pc \in {"wave", "next"} BY <2>1, <3>1 DEF Load, Goto, Becomes, Runs
        <5>3. QED BY <5>1, <5>2
      <4>2. CASE Targets(d) = {} BY <2>1, <3>1, <4>2 DEF Load, Goto, Becomes, Runs
      <4>3. QED BY <4>1, <4>2
    <3>2. CASE LoadFails(d) \/ Cleanup(d)
      BY <2>1, <3>2 DEF LoadFails, Cleanup, Goto, Becomes, Runs
    <3>3. CASE ~(Load(d) \/ LoadFails(d) \/ Cleanup(d))
      <4>1. run[d].pc \in {"wave", "first", "fan", "join", "sweep"}
        BY <1>4, <3>3 DEF LoopStep, CancelWave, FirstAlone, WholeWave, JoinFirst, FanOut,
           Join, FanDone, CancelOne, SweepDone, LastWaveDone, NextWave, At
      <4>2. Targets(d) # {} BY <4>1 DEF LoopInv, LoopOf
      <4>3. run'[d].pc \in {"wave", "first", "fan", "join", "sweep", "clean"}
        <5>1. CASE CancelWave(d) \/ WholeWave(d)
          BY <2>1, <5>1 DEF CancelWave, WholeWave, Begun, Becomes, Runs
        <5>2. CASE FirstAlone(d) BY <2>1, <5>2 DEF FirstAlone, Begun, Becomes, Runs
        <5>3. CASE JoinFirst(d) BY <2>1, <5>3 DEF JoinFirst, Becomes, Runs
        <5>4. CASE FanOut(d) \/ Join(d)
          <6>1. CASE FanOut(d) BY <2>1, <6>1 DEF FanOut, Becomes, Runs
          <6>2. CASE Join(d) BY <2>1, <6>2 DEF Join, Becomes, Runs
          <6>3. QED BY <5>4, <6>1, <6>2
        <5>5. CASE FanDone(d) \/ SweepDone(d) \/ LastWaveDone(d)
          BY <2>1, <5>5 DEF FanDone, SweepDone, LastWaveDone, Goto, Becomes, Runs
        <5>6. CASE CancelOne(d) BY <2>1, <4>1, <5>6 DEF CancelOne, Becomes, Runs
        <5>7. QED
          BY <1>4, <3>3, <5>1, <5>2, <5>3, <5>4, <5>5, <5>6 DEF LoopStep
      <4>4. Targets(d)' = Targets(d)
        <5>1. Next BY DEF Next
        <5>2. ~Create(d)
          <6>1. handler[d] = "done" BY LoopEffect DEF HandInv
          <6>2. QED BY <6>1 DEF Create
        <5>3. UNCHANGED exec \/ CancelOne(d)
          BY <1>4, <3>3 DEF LoopStep, CancelWave, FirstAlone, WholeWave, JoinFirst, FanOut,
             Join, FanDone, SweepDone, LastWaveDone, EndWave, db
        <5>4. CASE CancelOne(d)
          <6>1. PICK i \in Instances :
                  \/ exec' = [exec EXCEPT ![d][i] = "canceled"] /\ exec[d][i] = "queued"
                  \/ exec' = exec
            BY <5>4, RunTypes DEF CancelOne, StillIn, TypeOK
          <6>2. QED BY <6>1 DEF TypeOK, RowsOK, Targets, NoRow
        <5>5. QED BY <5>3, <5>4 DEF Targets
      <4>5. QED BY <4>2, <4>3, <4>4
    <3>4. QED BY <3>1, <3>2, <3>3
  <2>6. QED BY <1>4, <2>3, <2>4, <2>5 DEF LoopOf
<1>5. QED BY <1>2, <1>3, <1>4

LEMMA WorkerLoop ==
  ASSUME TypeOK, SafetyInv, LoopInv, NEW d \in Deploys, NEW i \in Instances, WorkerStep(d, i),
         NEW e \in Deploys
  PROVE  LoopOf(e)'
<1> /\ rc \in [Deploys -> [Members -> Recomputes]] /\ worker \in [Deploys -> [Instances -> Workers]]
    /\ exec \in [Deploys -> [Instances -> Statuses \cup {NoRow}]]
  BY DEF TypeOK, RolloutOK, RowsOK
<1>1. /\ UNCHANGED <<dstatus, run>>
      /\ rc' = rc \/ rc' = [rc EXCEPT ![d][i] = Recompute]
  BY WorkerEffect
<1>2. PICK w \in Workers, s \in Statuses \cup {NoRow} :
        /\ worker' = [worker EXCEPT ![d][i] = w] /\ exec' = [exec EXCEPT ![d][i] = s]
        /\ WorkerDoes(d, i, w, s)
  BY WorkerEffect
<1>3. CASE e # d BY <1>1, <1>2, <1>3, LoopFrame DEF LoopInv
<1>4. CASE e = d
  <2>1. Targets(d)' = Targets(d) BY WorkerTargets
  <2>2. i # Loop /\ i \in Members BY LoopIsNoInstance DEF Members
  <2>3. rc'[d][Loop] = rc[d][Loop] BY <1>1, <2>2 DEF Members
  <2>4. w.pc # "off" BY <1>2 DEF WorkerDoes, Stopped, Workers
  <2>5. rc'[d][i].pc # "idle" => s # "queued"
    <3>1. rc[d][i].pc = "idle" BY WorkerEffect
    <3>2. rc' = rc => rc'[d][i].pc = "idle" BY <3>1
    <3>3. s = "queued" => rc' = rc
      <4>1. ASSUME s = "queued" PROVE rc' = rc
        <5>1. s # exec[d][i] => s \in {"dispatching", "running", "unreachable", "failed", "succeeded"}
          BY <1>2 DEF WorkerDoes
        <5>2. exec[d][i] = "queued" /\ exec' = exec BY <4>1, <5>1, <1>2
        <5>3. QED BY <5>2, <1>2 DEF WorkerDoes, WorkerStep, Dispatch, Launch, AcquireFails,
                Execute, TransitionFails, Transition, StillIn
      <4>2. QED BY <4>1
    <3>4. QED BY <3>2, <3>3
  <2>6. \A j \in Instances \ {i} : rc'[d][j] = rc[d][j] /\ worker'[d][j] = worker[d][j]
                                   /\ exec'[d][j] = exec[d][j]
    BY <1>1, <1>2 DEF Members
  <2>7. worker'[d][i] = w /\ exec'[d][i] = s BY <1>2
  <2>8. LoopOf(d) BY DEF LoopInv
  <2>9. \A j \in Instances : rc'[d][j].pc # "idle" => worker'[d][j].pc # "off" /\ exec'[d][j] # "queued"
    <3>1. ASSUME NEW j \in Instances, rc'[d][j].pc # "idle"
          PROVE  worker'[d][j].pc # "off" /\ exec'[d][j] # "queued"
      <4>1. CASE j = i BY <2>4, <2>5, <2>7, <3>1, <4>1
      <4>2. CASE j # i BY <2>6, <2>8, <3>1, <4>2 DEF LoopOf
      <4>3. QED BY <4>1, <4>2
    <3>2. QED BY <3>1
  <2>10. QED BY <1>1, <1>4, <2>1, <2>3, <2>8, <2>9 DEF LoopOf
<1>5. QED BY <1>3, <1>4

LEMMA RecomputeLoop ==
  ASSUME TypeOK, SafetyInv, LoopInv, NEW d \in Deploys, NEW p \in Members, RecomputeStep(d, p),
         NEW e \in Deploys
  PROVE  LoopOf(e)'
<1>1. UNCHANGED <<run, exec, worker>> /\ rc[d][p].pc # "idle" BY RecomputeEffect
<1>2. \A f \in Deploys \ {d} : dstatus'[f] = dstatus[f] /\ rc'[f] = rc[f] BY RecomputeEffect
<1>3. \A q \in Members \ {p} : rc'[d][q] = rc[d][q] BY RecomputeEffect
<1>4. CASE e # d BY <1>1, <1>2, <1>4, LoopFrame DEF LoopInv
<1>5. CASE e = d
  <2>1. run[d].pc # "load"
    BY <1>1 DEF Members, LoopInv, LoopOf, SafetyInv, SlotInv
  <2>2. \A q \in Members : rc'[d][q].pc # "idle" => rc[d][q].pc # "idle" BY <1>1, <1>3
  <2>3. QED BY <1>1, <1>5, <2>1, <2>2 DEF LoopInv, LoopOf, Targets, Members
<1>6. QED BY <1>4, <1>5

LEMMA RecoveryLoop ==
  ASSUME TypeOK, SafetyInv, LoopInv, RecovInv, Recovery, NEW e \in Deploys
  PROVE  LoopOf(e)'
<1>1. ~On(e) /\ UNCHANGED rc /\ (run'[e] = run[e] \/ (RecoverEnqueue /\ e = recov.latest /\ run'[e].pc = "load"))
  BY RecoveryEffect
<1>2. \A p \in Members : rc'[e][p].pc = "idle" BY <1>1, IdleOff
<1>3. CASE run'[e] = run[e] BY <1>1, <1>2, <1>3, LoopAtRest DEF On
<1>4. CASE RecoverEnqueue /\ e = recov.latest /\ run'[e].pc = "load"
  <2>1. recov.latest # None BY <1>4, DeploysAssumption DEF None
  <2>2. dstatus[e] = "queued" BY <1>4, <2>1 DEF RecoverEnqueue, RecovInv, SupersedingInv
  <2>3. dstatus'[e] = "queued" BY <1>4, <2>2 DEF RecoverEnqueue
  <2>4. QED BY <1>2, <1>4, <2>3, LoopAtRest
<1>5. QED BY <1>1, <1>3, <1>4

LEMMA ProcessLoop ==
  ASSUME LoopInv, Wire \/ Start \/ Crash \/ Stop \/ Exit \/ AllServed, NEW e \in Deploys
  PROVE  LoopOf(e)'
<1>1. CASE Crash \/ Exit
  <2>1. Dies BY <1>1 DEF Crash, Exit
  <2>2. run'[e].pc = "off" /\ \A p \in Members : rc'[e][p].pc = "idle"
    BY <2>1 DEF Dies, NoRun, NoRecompute
  <2>3. QED BY <2>2, LoopAtRest
<1>2. CASE Wire \/ Start \/ Stop \/ AllServed
  BY <1>2, LoopFrame DEF LoopInv, Wire, Start, Stop, AllServed, vars, db, rollout
<1>3. QED BY <1>1, <1>2

LEMMA LoopKept ==
  ASSUME TypeOK, SafetyInv, HandInv, LoopInv, RecovInv, Next
  PROVE  \A e \in Deploys : LoopOf(e)'
<1> TAKE e \in Deploys
<1>1. CASE \E d \in Deploys : Handler(d) BY <1>1, HandlerLoop
<1>2. CASE \E d \in Deploys : LoopStep(d) BY <1>2, LoopLoop
<1>3. CASE \E d \in Deploys, i \in Instances : WorkerStep(d, i) BY <1>3, WorkerLoop
<1>4. CASE \E d \in Deploys, p \in Members : RecomputeStep(d, p) BY <1>4, RecomputeLoop
<1>5. CASE Recovery BY <1>5, RecoveryLoop
<1>6. CASE Wire \/ Start \/ Crash \/ Stop \/ Exit \/ AllServed BY <1>6, ProcessLoop
<1>7. QED BY <1>1, <1>2, <1>3, <1>4, <1>5, <1>6 DEF Next

\* A recompute reads the truth: only the loop's can find everything queued.
LEMMA ReadsTruth ==
  ASSUME TypeOK, SafetyInv, GateInv, LoopInv, RowInv, NEW d \in Deploys, NEW p \in Members,
         RecomputeRead(d, p)
  PROVE  ReadOf(d, p)'
<1> DEFINE S == ExecStatuses(d)
<1> /\ rc \in [Deploys -> [Members -> Recomputes]]
    /\ exec \in [Deploys -> [Instances -> Statuses \cup {NoRow}]]
  BY DEF TypeOK, RolloutOK, RowsOK
<1>1. rc'[d][p] = [pc |-> "write", agg |-> AggregateStatus(S), over |-> IsOver(S)]
      /\ UNCHANGED <<exec, dstatus>>
  BY DEF RecomputeRead, ByRecompute
<1>2. Targets(d) # {}
  <2>1. rc[d][p].pc = "read" BY DEF RecomputeRead
  <2>2. run[d].pc \in {"wave", "clean", "first", "join"}
    BY <2>1 DEF LoopInv, LoopOf, Members, SafetyInv, SlotInv
  <2>3. QED BY <2>2 DEF LoopInv, LoopOf
<1>3. S # {} /\ \A i \in Targets(d) : exec[d][i] \in S BY <1>2 DEF ExecStatuses
<1>4. AggregateStatus(S) = "succeeded" => AllSucceeded(d)
  <2>1. AggregateStatus(S) = "succeeded" => S = {"succeeded"} BY <1>3 DEF AggregateStatus
  <2>2. QED BY <1>3, <2>1 DEF AllSucceeded
<1>5. IsOver(S) => ~Unsettled(d) BY <1>3 DEF IsOver, AllTerminal, Unsettled
<1>6. AggregateStatus(S) # "queued" => Moved(d)
  <2>1. ASSUME ~Moved(d) PROVE S = {"queued"} BY <1>3, <2>1 DEF Moved, ExecStatuses
  <2>2. AggregateStatus({"queued"}) = "queued" BY DEF AggregateStatus
  <2>3. QED BY <2>1, <2>2
<1>7. AggregateStatus(S) = "queued" => p = Loop /\ dstatus[d] = "queued"
  <2>1. ASSUME AggregateStatus(S) = "queued" PROVE \A i \in Targets(d) : exec[d][i] = "queued"
    <3>1. S = {"queued"} BY <1>3, <2>1 DEF AggregateStatus
    <3>2. QED BY <1>3, <3>1
  <2>2. ASSUME NEW i \in Instances, p = i PROVE i \in Targets(d) /\ exec[d][i] # "queued"
    <3>1. worker[d][i].pc # "off" /\ exec[d][i] # "queued"
      BY <2>2 DEF RecomputeRead, LoopInv, LoopOf
    <3>2. QED BY <3>1 DEF GateInv, AnswerOf, Admitted
  <2>3. ~Moved(d) => dstatus[d] = "queued" BY <1>2 DEF RowInv, RowOf
  <2>4. QED BY <2>1, <2>2, <2>3 DEF Moved, Members
<1>8. Targets(d)' = Targets(d) BY <1>1 DEF Targets
<1>9. /\ Unsettled(d)' = Unsettled(d) /\ AllSucceeded(d)' = AllSucceeded(d) /\ Moved(d)' = Moved(d)
  BY <1>1, <1>8 DEF Unsettled, AllSucceeded, Moved
<1>10. QED BY <1>1, <1>4, <1>5, <1>6, <1>7, <1>9 DEF ReadOf

\* Nothing takes the ground from under a recompute that has read.
LEMMA ReadKept ==
  ASSUME TypeOK, SafetyInv, HandInv, LoopInv, Next, NEW e \in Deploys, NEW p \in Members,
         rc[e][p].pc = "write", rc'[e][p] = rc[e][p]
  PROVE  ReadOf(e, p)'
<1> rc \in [Deploys -> [Members -> Recomputes]] BY DEF TypeOK, RolloutOK
<1>1. On(e) BY IdleOff
<1>2. \A d \in Deploys : ~LoopStep(d)
  <2>1. ASSUME NEW d \in Deploys, LoopStep(d) PROVE FALSE
    <3>1. CASE d = e BY <2>1, <3>1, LoopRest
    <3>2. CASE d # e BY <1>1, <2>1, <3>2, LoopEffect
    <3>3. QED BY <3>1, <3>2
  <2>2. QED BY <2>1
<1>3. MovesOn(e)
  <2>1. ~Create(e) BY <1>1 DEF HandInv, Create
  <2>2. \A d \in Deploys : ~Cleanup(d) BY <1>2 DEF LoopStep
  <2>3. QED BY <2>1, <2>2, ExecStep
<1>4. ASSUME rc[e][p].agg = "queued", p = Loop PROVE dstatus'[e] = dstatus[e]
  <2>1. CASE \E d \in Deploys : Handler(d) BY <1>1, <2>1, HandlerRows
  <2>2. CASE \E d \in Deploys, i \in Instances : WorkerStep(d, i) BY <2>2, WorkerEffect
  <2>3. ASSUME NEW d \in Deploys, NEW q \in Members, RecomputeStep(d, q)
        PROVE  dstatus'[e] = dstatus[e]
    <3>1. CASE d # e BY <2>3, <3>1, RecomputeEffect
    <3>2. CASE d = e /\ q # p
      <4>1. rc[e][q].pc # "idle" BY <2>3, <3>2, RecomputeEffect
      <4>2. q \in Instances BY <1>4, <3>2 DEF Members
      <4>3. worker[e][q].pc # "off" BY <4>1, <4>2 DEF LoopInv, LoopOf
      <4>4. run[e].pc \in {"first", "join"} BY <4>2, <4>3 DEF SafetyInv, SlotInv
      <4>5. QED BY <1>4, <4>4 DEF LoopInv, LoopOf
    <3>3. CASE d = e /\ q = p
      <4>1. rc[e][p] \in Recomputes OBVIOUS
      <4>2. QED
        BY <2>3, <3>3, <4>1 DEF RecomputeStep, RecomputeRead, RecomputeWrite, RecomputeNotify,
           RecomputeFails, RecomputeEnds, NoRecompute, Recomputes
    <3>4. QED BY <3>1, <3>2, <3>3
  <2>4. CASE Recovery BY <1>1, <2>4, RecoveryEffect
  <2>5. CASE Wire \/ Start \/ Crash \/ Stop \/ Exit \/ AllServed
    BY <2>5 DEF Wire, Start, Crash, Stop, Exit, AllServed, Dies, db, vars
  <2>6. QED BY <1>2, <2>1, <2>2, <2>3, <2>4, <2>5 DEF Next
<1>5. QED BY <1>3, <1>4, MovesKeep DEF ReadOf, LoopInv

LEMMA ReadStep ==
  ASSUME TypeOK, SafetyInv, GateInv, HandInv, LoopInv, RowInv, Next
  PROVE  \A e \in Deploys : \A p \in Members : ReadOf(e, p)'
<1> TAKE e \in Deploys
<1> TAKE p \in Members
<1> rc \in [Deploys -> [Members -> Recomputes]] BY DEF TypeOK, RolloutOK
<1>1. CASE rc'[e][p] = rc[e][p] BY <1>1, ReadKept DEF ReadOf
<1>2. CASE rc'[e][p].pc # "write" BY <1>2 DEF ReadOf
<1>3. CASE RecomputeRead(e, p) BY <1>3, ReadsTruth
<1>4. ASSUME NEW d \in Deploys, LoopStep(d) PROVE rc'[e][p] = rc[e][p] \/ rc'[e][p].pc # "write"
  <2>1. CASE e # d BY <1>4, <2>1, LoopEffect
  <2>2. CASE e = d
    <3>1. UNCHANGED rc \/ rc' = [rc EXCEPT ![d][Loop] = Recompute]
      BY <1>4 DEF LoopStep, Load, LoadFails, CancelWave, FirstAlone, WholeWave, JoinFirst, FanOut,
         Join, FanDone, CancelOne, SweepDone, LastWaveDone, Cleanup, NextDeploy, EndWave
    <3>2. Recompute.pc = "read" BY DEF Recompute, NoRecompute
    <3>3. QED BY <2>2, <3>1, <3>2 DEF Members
  <2>3. QED BY <2>1, <2>2
<1>5. ASSUME NEW d \in Deploys, NEW i \in Instances, WorkerStep(d, i)
      PROVE  rc'[e][p] = rc[e][p] \/ rc'[e][p].pc # "write"
  <2>1. UNCHANGED rc \/ rc' = [rc EXCEPT ![d][i] = Recompute] BY <1>5, WorkerEffect
  <2>2. Recompute.pc = "read" BY DEF Recompute, NoRecompute
  <2>3. QED BY <2>1, <2>2 DEF Members
<1>6. ASSUME NEW d \in Deploys, NEW q \in Members, RecomputeStep(d, q)
      PROVE  rc'[e][p] = rc[e][p] \/ rc'[e][p].pc # "write" \/ RecomputeRead(e, p)
  <2>1. CASE e # d \/ p # q BY <1>6, <2>1, RecomputeEffect
  <2>2. CASE e = d /\ p = q
    <3>1. rc[e][p] \in Recomputes OBVIOUS
    <3>2. QED BY <1>6, <2>2, <3>1 DEF RecomputeStep, RecomputeWrite, RecomputeNotify,
            RecomputeFails, RecomputeEnds, NoRecompute, Recomputes
  <2>3. QED BY <2>1, <2>2
<1>7. \A d \in Deploys : Handler(d) => UNCHANGED rc
  BY DEF Handler, Build, CreateBroken, Create, CreateFails, EnqueueFree, EnqueueWait,
     EnqueueReplace, EnqueueReplaced, ReplaceFails, rollout
<1>8. CASE Recovery BY <1>1, <1>8, RecoveryEffect
<1>9. CASE Wire \/ Start \/ Crash \/ Stop \/ Exit \/ AllServed
  <2>1. CASE Crash \/ Exit BY <1>2, <2>1 DEF Crash, Exit, Dies, NoRecompute
  <2>2. CASE Wire \/ Start \/ Stop \/ AllServed
    BY <1>1, <2>2 DEF Wire, Start, Stop, AllServed, vars, rollout
  <2>3. QED BY <1>9, <2>1, <2>2
<1>10. QED BY <1>1, <1>2, <1>3, <1>4, <1>5, <1>6, <1>7, <1>8, <1>9 DEF Next

LEMMA LoopInvStep ==
  ASSUME TypeOK, SafetyInv, GateInv, HandInv, LoopInv, RowInv, RecovInv, Next
  PROVE  LoopInv'
  BY LoopKept, ReadStep DEF LoopInv

-----------------------------------------------------------------------------
(* The rows                                                                 *)

\* An execution reads succeeded only if its executor said so.
Answered(e) == \A i \in Instances : exec[e][i] = "succeeded" => answer[e][i] = "ok"

LEMMA SweepAnswered ==
  ASSUME RowsOK, NEW d, NEW from, NEW to, Sweep(d, from, to), to # "succeeded", UNCHANGED answer,
         NEW e \in Deploys, Answered(e)
  PROVE  Answered(e)'
  BY DEF RowsOK, Sweep, Answered

LEMMA AnsweredStep ==
  ASSUME TypeOK, GateInv, RowInv, Next, NEW e \in Deploys
  PROVE  Answered(e)'
<1> /\ exec \in [Deploys -> [Instances -> Statuses \cup {NoRow}]]
    /\ answer \in [Deploys -> [Instances -> {"none", "ok", "failed"}]]
  BY DEF TypeOK, RowsOK, HistoryOK
<1>1. Answered(e) BY DEF RowInv, RowOf, Answered
<1>2. CASE UNCHANGED <<exec, answer>> BY <1>1, <1>2 DEF Answered
<1>3. CASE \E d \in Deploys : Handler(d)
  <2>1. PICK d \in Deploys : Handler(d) BY <1>3
  <2>2. CASE EnqueueReplace(d) BY <1>1, <2>2, SweepAnswered DEF EnqueueReplace, history, TypeOK
  <2>3. CASE Create(d) BY <1>1, <2>3 DEF Create, history, NoRow, Answered
  <2>4. QED
    BY <1>2, <2>1, <2>2, <2>3 DEF Handler, Build, CreateBroken, CreateFails, EnqueueFree,
       EnqueueWait, EnqueueReplaced, ReplaceFails, db, history
<1>4. CASE \E d \in Deploys : LoopStep(d)
  <2>1. PICK d \in Deploys : LoopStep(d) BY <1>4
  <2>2. CASE CancelOne(d)
    <3>1. UNCHANGED answer BY <2>2 DEF CancelOne, history
    <3>2. PICK i : exec' = [exec EXCEPT ![d][i] = "canceled"] \/ exec' = exec
      BY <2>2 DEF CancelOne
    <3>3. QED BY <1>1, <3>1, <3>2 DEF Answered
  <2>3. CASE Cleanup(d) BY <1>1, <2>3 DEF Cleanup, history, Answered, NoRow
  <2>4. QED
    BY <1>2, <2>1, <2>2, <2>3 DEF LoopStep, Load, LoadFails, CancelWave, FirstAlone, WholeWave,
       JoinFirst, FanOut, Join, FanDone, SweepDone, LastWaveDone, NextDeploy, EndWave, db, history
<1>5. CASE \E d \in Deploys, i \in Instances : WorkerStep(d, i)
  <2>1. PICK d \in Deploys, i \in Instances : WorkerStep(d, i) BY <1>5
  <2>2. PICK w \in Workers, s \in Statuses \cup {NoRow} :
          exec' = [exec EXCEPT ![d][i] = s] /\ WorkerDoes(d, i, w, s)
    BY <2>1, WorkerEffect
  <2>3. CASE UNCHANGED answer
    <3>1. s = exec[d][i] \/ s # "succeeded"
      <4>1. CASE worker[d][i].pc # "execute" BY <2>2, <4>1 DEF WorkerDoes
      <4>2. CASE worker[d][i].pc = "execute"
        <5>1. answer[d][i] = "none" BY <4>2 DEF GateInv, AnswerOf
        <5>2. answer'[d][i] # "none" BY <2>2, <4>2 DEF WorkerDoes
        <5>3. QED BY <2>3, <5>1, <5>2
      <4>3. QED BY <4>1, <4>2
    <3>2. QED BY <1>1, <2>2, <2>3, <3>1 DEF Answered
  <2>4. CASE worker[d][i].pc = "execute"
    <3>1. answer[d][i] = "none" /\ exec[d][i] # "succeeded"
      BY <2>4 DEF GateInv, AnswerOf, RowInv, RowOf
    <3>2. PICK a : answer' = [answer EXCEPT ![d][i] = a] /\ (s = "succeeded" => a = "ok")
      BY <2>2, <2>4, <3>1 DEF WorkerDoes
    <3>3. QED BY <1>1, <2>2, <3>2 DEF Answered
  <2>5. QED BY <2>2, <2>3, <2>4 DEF WorkerDoes
<1>6. CASE \E d \in Deploys, p \in Members : RecomputeStep(d, p) BY <1>2, <1>6, RecomputeEffect
<1>7. CASE Recovery
  <2>1. UNCHANGED answer
    BY <1>7 DEF Recovery, RecoverSelect, RecoverClosed, RecoverList, RecoverSupersede,
       RecoverSuperseded, RecoverEnqueue, RecoverFail, RecoverCancel, RecoverRecompute,
       ByRecovery, history
  <2>2. CASE RecoverSupersede BY <1>1, <2>1, <2>2, SweepAnswered DEF RecoverSupersede, TypeOK
  <2>3. CASE \E d \in Deploys : RecoverFail(d) \/ RecoverCancel(d)
    BY <1>1, <2>1, <2>3, SweepAnswered DEF RecoverFail, RecoverCancel, TypeOK
  <2>4. QED
    BY <1>2, <1>7, <2>1, <2>2, <2>3 DEF Recovery, RecoverSelect, RecoverClosed, RecoverList,
       RecoverSuperseded, RecoverEnqueue, RecoverRecompute
<1>8. CASE Wire \/ Start \/ Crash \/ Stop \/ Exit \/ AllServed
  BY <1>2, <1>8 DEF Wire, Start, Crash, Stop, Exit, AllServed, Dies, db, history, vars
<1>9. QED BY <1>3, <1>4, <1>5, <1>6, <1>7, <1>8 DEF Next

LEMMA RowKept ==
  ASSUME NEW e \in Deploys, RowOf(e), MovesOn(e), dstatus'[e] = dstatus[e],
         finished'[e] = finished[e], Answered(e)'
  PROVE  RowOf(e)'
<1>1. Targets(e)' = Targets(e) BY DEF MovesOn
<1>2. QED BY <1>1, MovesKeep DEF RowOf, Answered

\* A settled deploy may be closed as superseded.
LEMMA RowSuperseded ==
  ASSUME TypeOK, RowInv, NEW d \in Deploys, ~Unsettled(d), SupersedeRow(d), UNCHANGED exec,
         NEW e \in Deploys, Answered(e)'
  PROVE  RowOf(e)'
<1> dstatus \in [Deploys -> Statuses \cup {NoRow}] /\ finished \in [Deploys -> BOOLEAN]
  BY DEF TypeOK, RowsOK
<1>1. MovesOn(e) BY StillMoves
<1>2. RowOf(e) BY DEF RowInv
<1>3. CASE dstatus'[e] = dstatus[e] /\ finished'[e] = finished[e] BY <1>1, <1>2, <1>3, RowKept
<1>4. CASE e = d /\ dstatus'[d] = "superseded"
  <2>1. Targets(d) # {} => Moved(d) BY DEF Moved, Unsettled, Terminal, TerminalStatuses
  <2>2. Targets(d)' = Targets(d) BY DEF Targets
  <2>3. ~Unsettled(d)' /\ (Moved(d) => Moved(d)') BY <1>1, <1>4, MovesKeep
  <2>4. QED BY <1>4, <2>1, <2>2, <2>3 DEF RowOf, Answered, NoRow
<1>5. QED BY <1>3, <1>4 DEF SupersedeRow

\* A recompute writes what is true.
LEMMA RowWritten ==
  ASSUME TypeOK, RowInv, NEW d \in Deploys, NEW agg \in Statuses, NEW over \in BOOLEAN,
         WriteDeploy(d, agg, over), UNCHANGED exec,
         over => ~Unsettled(d), agg = "succeeded" => AllSucceeded(d), agg # "queued" => Moved(d),
         NEW e \in Deploys, Answered(e)'
  PROVE  RowOf(e)'
<1> dstatus \in [Deploys -> Statuses \cup {NoRow}] /\ finished \in [Deploys -> BOOLEAN]
  BY DEF TypeOK, RowsOK
<1>1. MovesOn(e) BY StillMoves
<1>2. RowOf(e) BY DEF RowInv
<1>3. CASE dstatus'[e] = dstatus[e] /\ finished'[e] = finished[e] BY <1>1, <1>2, <1>3, RowKept
<1>4. CASE e = d /\ dstatus'[d] = agg /\ (finished'[d] = finished[d] \/ over)
  <2>1. Targets(d)' = Targets(d) BY DEF Targets
  <2>2. agg # NoRow BY DEF Statuses, NoRow
  <2>3. finished'[d] => ~Unsettled(d)' BY <1>1, <1>2, <1>4, MovesKeep DEF RowOf
  <2>4. (agg = "succeeded" => AllSucceeded(d)') /\ (agg # "queued" => Moved(d)')
    BY <1>1, <1>4, MovesKeep
  <2>5. QED BY <1>4, <2>1, <2>2, <2>3, <2>4 DEF RowOf, Answered
<1>5. QED BY <1>3, <1>4 DEF WriteDeploy

LEMMA RowStep ==
  ASSUME TypeOK, SafetyInv, GateInv, HandInv, LoopInv, RowInv, RecovInv, Next
  PROVE  RowInv'
<1> SUFFICES ASSUME NEW e \in Deploys PROVE RowOf(e)' BY DEF RowInv
<1> /\ dstatus \in [Deploys -> Statuses \cup {NoRow}] /\ finished \in [Deploys -> BOOLEAN]
    /\ handler \in [Deploys -> HandlerPcs] /\ pending \in Deploys \cup {None}
  BY DEF TypeOK, RowsOK, ProcessOK
<1>1. Answered(e)' BY AnsweredStep
<1>2. RowOf(e) BY DEF RowInv
<1>3. CASE dstatus'[e] = dstatus[e] /\ finished'[e] = finished[e] /\ MovesOn(e)
  BY <1>1, <1>2, <1>3, RowKept
<1>4. CASE Create(e)
  <2>1. ~finished[e] BY <1>4 DEF Create, SafetyInv, BornInv, Unborn, Untouched
  <2>2. dstatus'[e] = "queued" /\ ~finished'[e] BY <1>4, <2>1 DEF Create
  <2>3. QED BY <1>1, <2>2 DEF RowOf, Answered, NoRow
<1>5. CASE \E d \in Deploys : Cleanup(d)
  <2>1. CASE e \in Expired /\ dstatus'[e] = NoRow
    <3>1. Targets(e)' = {} BY <1>5, <2>1 DEF Cleanup, Expired, Targets, Terminal,
            TerminalStatuses, NoRow
    <3>2. QED BY <1>1, <2>1, <3>1 DEF RowOf, Answered, Unsettled, NoRow
  <2>2. CASE dstatus'[e] = dstatus[e] /\ exec'[e] = exec[e]
    BY <1>3, <1>5, <2>2, StillMoves DEF Cleanup
  <2>3. QED BY <1>5, <2>1, <2>2 DEF Cleanup
<1>6. MovesOn(e) \/ Create(e) \/ \E d \in Deploys : Cleanup(d) BY ExecStep
<1>7. ASSUME MovesOn(e) PROVE RowOf(e)'
  <2>1. CASE \E d \in Deploys : Handler(d)
    <3>1. PICK d \in Deploys : Handler(d) BY <2>1
    <3>2. CASE Create(d)
      <4>1. e # d => dstatus'[e] = dstatus[e] /\ finished'[e] = finished[e] BY <3>2 DEF Create
      <4>2. QED BY <1>3, <1>4, <1>7, <3>2, <4>1
    <3>3. CASE CreateBroken(d)
      <4>1. e # d => dstatus'[e] = dstatus[e] /\ finished'[e] = finished[e]
        BY <3>3 DEF CreateBroken
      <4>2. ASSUME e = d PROVE RowOf(e)'
        <5>1. Targets(e)' = {}
          BY <3>3, <4>2 DEF CreateBroken, SafetyInv, BornInv, Unborn, Untouched, Targets
        <5>2. dstatus'[e] = "failed" BY <3>3, <4>2 DEF CreateBroken
        <5>3. QED BY <1>1, <5>1, <5>2 DEF RowOf, Answered, Unsettled, NoRow
      <4>3. QED BY <1>3, <1>7, <4>1, <4>2
    <3>4. CASE EnqueueReplaced(d)
      <4>1. pending \in Deploys /\ ~Unsettled(pending) /\ SupersedeRow(pending) /\ UNCHANGED exec
        BY <3>4 DEF EnqueueReplaced, HandInv
      <4>2. QED BY <1>1, <4>1, RowSuperseded
    <3>5. QED
      BY <1>3, <1>7, <3>1, <3>2, <3>3, <3>4 DEF Handler, Build, CreateFails, EnqueueFree,
         EnqueueWait, EnqueueReplace, ReplaceFails, db
  <2>2. CASE \E d \in Deploys : LoopStep(d)
    BY <1>3, <1>5, <1>7, <2>2 DEF LoopStep, Load, LoadFails, CancelWave, FirstAlone, WholeWave,
       JoinFirst, FanOut, Join, FanDone, CancelOne, SweepDone, LastWaveDone, NextDeploy, EndWave, db
  <2>3. CASE \E d \in Deploys, i \in Instances : WorkerStep(d, i) BY <1>3, <1>7, <2>3, WorkerEffect
  <2>4. CASE \E d \in Deploys, p \in Members : RecomputeStep(d, p)
    <3>1. PICK d \in Deploys, p \in Members : RecomputeStep(d, p) BY <2>4
    <3>2. CASE RecomputeWrite(d, p)
      <4>1. rc[d][p].pc = "write" /\ WriteDeploy(d, rc[d][p].agg, rc[d][p].over) /\ UNCHANGED exec
        BY <3>2 DEF RecomputeWrite, ByRecompute
      <4>2. rc[d][p].agg \in Statuses /\ rc[d][p].over \in BOOLEAN
        BY RecomputeTypes DEF TypeOK
      <4>3. ReadOf(d, p) BY DEF LoopInv
      <4>4. QED BY <1>1, <4>1, <4>2, <4>3, RowWritten DEF ReadOf
    <3>3. QED
      BY <1>3, <1>7, <3>1, <3>2 DEF RecomputeStep, RecomputeRead, RecomputeNotify, RecomputeFails
  <2>5. CASE Recovery
    <3>1. CASE UNCHANGED <<dstatus, finished>> BY <1>3, <1>7, <3>1
    <3>2. ASSUME NEW d \in Deploys, RecoverRecompute(d) PROVE RowOf(e)'
      <4>1. Targets(d) # {} /\ ~Unsettled(d)
        BY <3>2 DEF RecoverRecompute, RecovInv, RecomputingInv
      <4>2. DEFINE S == ExecStatuses(d)
      <4>3. S # {} /\ \A i \in Targets(d) : exec[d][i] \in S BY <4>1 DEF ExecStatuses
      <4>4. AggregateStatus(S) \in Statuses BY StatusesOf, AggregateType DEF TypeOK
      <4>5. IsOver(S) \in BOOLEAN BY DEF IsOver, Terminal, AllTerminal
      <4>6. AggregateStatus(S) = "succeeded" => AllSucceeded(d)
        <5>1. AggregateStatus(S) = "succeeded" => S = {"succeeded"} BY <4>3 DEF AggregateStatus
        <5>2. QED BY <4>3, <5>1 DEF AllSucceeded
      <4>7. Moved(d) BY <4>1 DEF Unsettled, Moved, Terminal, TerminalStatuses
      <4>8. WriteDeploy(d, AggregateStatus(S), IsOver(S)) /\ UNCHANGED exec
        BY <3>2 DEF RecoverRecompute
      <4>9. QED BY <1>1, <4>1, <4>4, <4>5, <4>6, <4>7, <4>8, RowWritten
    <3>3. CASE RecoverSuperseded
      <4>1. recov.half \in Deploys
        BY <3>3 DEF RecoverSuperseded, TypeOK, ProcessOK, Recoveries
      <4>2. ~Unsettled(recov.half) BY <3>3 DEF RecoverSuperseded, RecovInv, SupersedingInv
      <4>3. SupersedeRow(recov.half) /\ UNCHANGED exec BY <3>3 DEF RecoverSuperseded
      <4>4. QED BY <1>1, <4>1, <4>2, <4>3, RowSuperseded
    <3>4. QED
      BY <2>5, <3>1, <3>2, <3>3 DEF Recovery, RecoverSelect, RecoverClosed, RecoverList,
         RecoverSupersede, RecoverEnqueue, RecoverFail, RecoverCancel
  <2>6. CASE Wire \/ Start \/ Crash \/ Stop \/ Exit \/ AllServed
    BY <1>3, <1>7, <2>6 DEF Wire, Start, Crash, Stop, Exit, AllServed, Dies, db, vars
  <2>7. QED BY <2>1, <2>2, <2>3, <2>4, <2>5, <2>6 DEF Next
<1>8. QED BY <1>4, <1>5, <1>6, <1>7

-----------------------------------------------------------------------------
(* Recovery                                                                 *)

\* Nothing but Recover happens while main recovers.
LEMMA RecoversAlone ==
  ASSUME TypeOK, SafetyInv, LoopInv, Next, proc' = "recovering"
  PROVE  Recovery \/ Start \/ (UNCHANGED vars)
<1>1. CASE \E d \in Deploys : Handler(d)
  BY <1>1 DEF Handler, Build, CreateBroken, Create, CreateFails, EnqueueFree, EnqueueWait,
     EnqueueReplace, EnqueueReplaced, ReplaceFails, Serving
<1>2. ASSUME proc = "recovering" PROVE \A d \in Deploys : ~On(d)
  BY <1>2 DEF SafetyInv, SlotInv
<1>3. ASSUME NEW d \in Deploys, LoopStep(d) PROVE FALSE BY <1>2, <1>3, LoopEffect
<1>4. ASSUME NEW d \in Deploys, NEW i \in Instances, WorkerStep(d, i) PROVE FALSE
  <2>1. worker[d][i].pc # "off"
    BY <1>4 DEF WorkerStep, Dispatch, Launch, AcquireFails, Execute, TransitionFails, WorkerAt
  <2>2. proc' = proc BY <1>4, WorkerEffect
  <2>3. QED BY <1>2, <2>1, <2>2, IdleOff
<1>5. ASSUME NEW d \in Deploys, NEW p \in Members, RecomputeStep(d, p) PROVE FALSE
  <2>1. rc[d][p].pc # "idle" /\ proc' = proc BY <1>5, RecomputeEffect
  <2>2. QED BY <1>2, <2>1, IdleOff
<1>6. CASE Wire \/ Crash \/ Stop \/ Exit \/ AllServed
  BY <1>6 DEF Wire, Crash, Stop, Exit, AllServed, Dies
<1>7. QED BY <1>1, <1>3, <1>4, <1>5, <1>6 DEF Next

\* A sweep by Recover keeps what has settled, and what hangs hung before.
LEMMA SweepRecovers ==
  ASSUME TypeOK, NEW d \in Deploys, NEW from \in SUBSET {"queued", "dispatching", "running"},
         NEW to \in TerminalStatuses, Sweep(d, from, to), UNCHANGED <<dstatus, finished>>
  PROVE  \A e \in Deploys :
           /\ Targets(e)' = Targets(e)
           /\ ~Unsettled(e) => ~Unsettled(e)'
           /\ Hanging(e)' => Hanging(e)
           /\ InFlight(e)' => InFlight(e)
           /\ e = d /\ InFlightStatuses \subseteq from => ~InFlight(e)'
           /\ e = d /\ ~InFlight(d) /\ "queued" \in from => ~Unsettled(e)'
<1> TAKE e \in Deploys
<1>1. to \in Statuses \ {"queued", "dispatching", "running"} BY DEF TerminalStatuses, Statuses
<1>2. MovesOn(e) BY <1>1, SweepMoves DEF TypeOK
<1>3. Targets(e)' = Targets(e) BY <1>2 DEF MovesOn
<1>4. ~Unsettled(e) => ~Unsettled(e)' BY <1>2, MovesKeep
<1>5. Hanging(e)' => Hanging(e) BY <1>4 DEF Hanging
<1>6. \A i \in Instances : exec'[e][i] = exec[e][i] \/ (e = d /\ exec'[e][i] = to)
  BY DEF Sweep, TypeOK, RowsOK
<1>7. InFlight(e)' => InFlight(e) BY <1>1, <1>6 DEF InFlight, InFlightStatuses
<1>8. \A i \in Instances : exec'[d][i] \notin from BY <1>1 DEF Sweep, TypeOK, RowsOK
<1>9. e = d /\ InFlightStatuses \subseteq from => ~InFlight(e)'
  BY <1>8 DEF InFlight, InFlightStatuses
<1>10. ASSUME e = d, ~InFlight(d), "queued" \in from PROVE ~Unsettled(e)'
  <2>1. \A i \in Instances : exec'[d][i] \notin {"queued", "dispatching", "running"}
    BY <1>1, <1>6, <1>8, <1>10 DEF InFlight, InFlightStatuses
  <2>2. \A i \in Instances : exec'[d][i] \in Statuses \cup {NoRow}
    BY <1>1, <1>6, <1>10 DEF TypeOK, RowsOK
  <2>3. QED
    BY <1>10, <2>1, <2>2 DEF Unsettled, Targets, Terminal, TerminalStatuses, Statuses
<1>11. QED BY <1>3, <1>4, <1>5, <1>7, <1>9, <1>10

LEMMA SelectCloses ==
  ASSUME TypeOK, RowInv, RecovInv, RecoverSelect PROVE RecovInv'
<1> recov \in Recoveries BY DEF TypeOK, ProcessOK
<1>1. /\ recov' = [recov EXCEPT !.pc = "close", !.ids = LeftUnfinished, !.todo = LeftUnfinished]
      /\ recov.half = None /\ UNCHANGED <<dstatus, finished, exec>>
  BY DEF RecoverSelect, RecovInv
<1>2. recov'.pc = "close" /\ recov'.ids = LeftUnfinished /\ recov'.todo = LeftUnfinished
      /\ recov'.half = None
  BY <1>1 DEF Recoveries
<1>3. \A d \in Deploys : InFlight(d) => d \in LeftUnfinished
  <2>1. \A d \in Deploys : InFlight(d) => Targets(d) # {} /\ Unsettled(d)
    BY DEF InFlight, InFlightStatuses, Targets, Unsettled, Terminal, TerminalStatuses, NoRow
  <2>2. QED BY <2>1 DEF RowInv, RowOf, LeftUnfinished
<1>4. \A d \in LeftUnfinished : Targets(d) # {} BY DEF LeftUnfinished, Unsettled
<1>5. \A d \in Deploys : Hanging(d) /\ d \notin LeftUnfinished => dstatus[d] = "queued"
  BY DEF Hanging, LeftUnfinished
<1>6. None \notin Deploys BY DeploysAssumption DEF None
<1>7. \A d \in Deploys : InFlight(d)' = InFlight(d) /\ Targets(d)' = Targets(d) /\ Hanging(d)' = Hanging(d)
  BY <1>1 DEF InFlight, Targets, Hanging, Unsettled
<1>8. ClosingInv'
  <2>1. LeftUnfinished \subseteq Deploys BY DEF LeftUnfinished
  <2>2. QED BY <1>1, <1>2, <1>3, <1>4, <1>5, <1>6, <1>7, <2>1 DEF ClosingInv
<1>9. QED BY <1>2, <1>8 DEF RecovInv, RecovAt

LEMMA CloseCloses ==
  ASSUME TypeOK, RecovInv, NEW d \in Deploys, RecoverFail(d) \/ RecoverCancel(d) PROVE RecovInv'
<1> recov \in Recoveries BY DEF TypeOK, ProcessOK
<1>1. ClosingInv /\ recov.pc = "close" /\ UNCHANGED <<dstatus, finished>>
  BY DEF RecoverFail, RecoverCancel, RecovInv, RecovAt
<1>2. None \notin Deploys BY DeploysAssumption DEF None
<1>3. CASE RecoverFail(d)
  <2>1. d \in recov.todo /\ recov' = [recov EXCEPT !.half = d] /\ Sweep(d, InFlightStatuses, "failed")
    BY <1>3 DEF RecoverFail
  <2>2. recov'.pc = "close" /\ recov'.half = d /\ recov'.todo = recov.todo /\ recov'.ids = recov.ids
    BY <1>1, <2>1 DEF Recoveries
  <2>3. \A e \in Deploys :
           /\ Targets(e)' = Targets(e)
           /\ ~Unsettled(e) => ~Unsettled(e)'
           /\ Hanging(e)' => Hanging(e)
           /\ InFlight(e)' => InFlight(e) /\ e # d
    BY <1>1, <2>1, SweepRecovers DEF InFlightStatuses, TerminalStatuses
  <2>4. recov.ids \subseteq Deploys BY DEF Recoveries
  <2>5. ClosingInv' BY <1>1, <2>1, <2>2, <2>3, <2>4 DEF ClosingInv
  <2>6. QED BY <2>2, <2>5 DEF RecovInv, RecovAt
<1>4. CASE RecoverCancel(d)
  <2>1. /\ recov.half = d /\ Sweep(d, {"queued"}, "canceled")
        /\ recov' = [recov EXCEPT !.half = None, !.todo = @ \ {d}]
    BY <1>4 DEF RecoverCancel
  <2>2. recov'.pc = "close" /\ recov'.half = None /\ recov'.todo = recov.todo \ {d}
        /\ recov'.ids = recov.ids
    BY <1>1, <2>1 DEF Recoveries
  <2>3. ~InFlight(d) BY <1>1, <2>1 DEF ClosingInv
  <2>4. \A e \in Deploys :
           /\ Targets(e)' = Targets(e)
           /\ ~Unsettled(e) => ~Unsettled(e)'
           /\ Hanging(e)' => Hanging(e)
           /\ InFlight(e)' => InFlight(e)
           /\ e = d => ~Unsettled(e)'
    BY <1>1, <2>1, <2>3, SweepRecovers DEF TerminalStatuses
  <2>5. recov.ids \subseteq Deploys BY DEF Recoveries
  <2>6. \A e \in Deploys : InFlight(e)' => e \in recov'.todo /\ e # recov'.half
    BY <1>1, <1>2, <2>2, <2>3, <2>4 DEF ClosingInv
  <2>7. \A e \in recov'.ids : Targets(e)' # {} /\ (e \notin recov'.todo => ~Unsettled(e)')
    BY <1>1, <2>2, <2>4, <2>5 DEF ClosingInv
  <2>8. \A e \in Deploys \ recov'.todo : Hanging(e)' => dstatus'[e] = "queued"
    BY <1>1, <2>2, <2>4 DEF ClosingInv, Hanging
  <2>9. ClosingInv' BY <2>2, <2>6, <2>7, <2>8 DEF ClosingInv
  <2>10. QED BY <2>2, <2>9 DEF RecovInv, RecovAt
<1>5. QED BY <1>3, <1>4

LEMMA RecomputeRecovers ==
  ASSUME TypeOK, RecovInv, RecoverClosed \/ RecoverList \/ \E d \in Deploys : RecoverRecompute(d)
  PROVE  RecovInv'
<1> recov \in Recoveries BY DEF TypeOK, ProcessOK
<1>1. UNCHANGED exec BY DEF RecoverClosed, RecoverList, RecoverRecompute
<1>2. \A e \in Deploys : InFlight(e)' = InFlight(e) /\ Targets(e)' = Targets(e)
                         /\ Unsettled(e)' = Unsettled(e)
  BY <1>1 DEF InFlight, Targets, Unsettled
<1>3. CASE RecoverClosed
  <2>1. ClosingInv /\ recov.todo = {} /\ UNCHANGED <<dstatus, finished>>
        /\ recov' = [recov EXCEPT !.pc = "recompute", !.todo = recov.ids]
    BY <1>3 DEF RecoverClosed, RecovInv
  <2>2. recov'.pc = "recompute" /\ recov'.todo = recov.ids /\ recov'.half = recov.half
        /\ recov.ids \subseteq Deploys
    BY <2>1 DEF Recoveries
  <2>3. \A e \in Deploys : Hanging(e)' = Hanging(e) BY <1>2, <2>1 DEF Hanging
  <2>4. RecomputingInv' BY <1>2, <2>1, <2>2, <2>3 DEF ClosingInv, RecomputingInv
  <2>5. QED BY <2>2, <2>4 DEF RecovInv, RecovAt
<1>4. ASSUME NEW d \in Deploys, RecoverRecompute(d) PROVE RecovInv'
  <2>1. RecomputingInv /\ recov.pc = "recompute" /\ d \in recov.todo
        /\ recov' = [recov EXCEPT !.todo = @ \ {d}]
        /\ WriteDeploy(d, AggregateStatus(ExecStatuses(d)), IsOver(ExecStatuses(d)))
    BY <1>4 DEF RecoverRecompute, RecovInv, RecovAt
  <2>2. recov'.pc = "recompute" /\ recov'.todo = recov.todo \ {d} /\ recov'.half = recov.half
        /\ recov.todo \subseteq Deploys
    BY <2>1 DEF Recoveries
  <2>3. \A e \in Deploys \ {d} : dstatus'[e] = dstatus[e] /\ finished'[e] = finished[e]
    BY <2>1 DEF WriteDeploy, TypeOK, RowsOK
  <2>4. ~Unsettled(d) BY <2>1 DEF RecomputingInv
  <2>5. \A e \in Deploys : Hanging(e)' => dstatus'[e] = "queued"
    BY <1>2, <2>1, <2>3, <2>4 DEF Hanging, RecomputingInv
  <2>6. RecomputingInv' BY <1>2, <2>1, <2>2, <2>5 DEF RecomputingInv
  <2>7. QED BY <2>2, <2>6 DEF RecovInv, RecovAt
<1>5. CASE RecoverList
  <2>1. RecomputingInv /\ UNCHANGED <<dstatus, finished>> BY <1>5 DEF RecoverList, RecovInv
  <2>2. PICK latest \in Deploys \cup {None} :
          /\ IF Waiting = {} THEN latest = None ELSE Last(latest, Waiting)
          /\ recov' = [recov EXCEPT !.pc = "supersede", !.todo = Waiting \ {latest},
                                    !.latest = latest]
    BY <1>5 DEF RecoverList
  <2>3. recov'.pc = "supersede" /\ recov'.todo = Waiting \ {latest} /\ recov'.latest = latest
        /\ recov'.half = recov.half
    BY <2>2 DEF Recoveries
  <2>4. recov.half = None BY <2>1 DEF RecomputingInv
  <2>5. \A e \in Deploys : Hanging(e)' => e \in Waiting
    BY <1>2, <2>1 DEF Hanging, Waiting, RecomputingInv
  <2>6. latest # None => latest \in Waiting BY <2>2 DEF Last
  <2>7. SupersedingInv'
    BY <1>2, <2>1, <2>3, <2>4, <2>5, <2>6 DEF SupersedingInv, RecomputingInv, Waiting
  <2>8. QED BY <2>3, <2>7 DEF RecovInv, RecovAt
<1>6. QED BY <1>3, <1>4, <1>5

LEMMA SupersedeRecovers ==
  ASSUME TypeOK, RecovInv, RecoverSupersede \/ RecoverSuperseded PROVE RecovInv'
<1> recov \in Recoveries BY DEF TypeOK, ProcessOK
<1> recov.todo \subseteq Deploys BY DEF Recoveries
<1>1. SupersedingInv /\ recov.pc = "supersede"
  BY DEF RecoverSupersede, RecoverSuperseded, RecovInv, RecovAt
<1>2. CASE RecoverSupersede
  <2>1. PICK d \in recov.todo : /\ Sweep(d, {"queued"}, "superseded")
                                /\ recov' = [recov EXCEPT !.half = d]
    BY <1>2 DEF RecoverSupersede
  <2>2. recov'.pc = "supersede" /\ recov'.half = d /\ recov'.todo = recov.todo
        /\ recov'.latest = recov.latest /\ UNCHANGED <<dstatus, finished>>
    BY <1>1, <1>2, <2>1 DEF Recoveries, RecoverSupersede
  <2>3. ~InFlight(d) BY <1>1 DEF SupersedingInv
  <2>4. \A e \in Deploys :
           /\ Hanging(e)' => Hanging(e)
           /\ InFlight(e)' => InFlight(e)
           /\ e = d => ~Unsettled(e)'
    BY <2>1, <2>2, <2>3, SweepRecovers DEF TerminalStatuses
  <2>5. SupersedingInv' BY <1>1, <2>2, <2>4 DEF SupersedingInv
  <2>6. QED BY <2>2, <2>5 DEF RecovInv, RecovAt
<1>3. CASE RecoverSuperseded
  <2>1. /\ recov.half # None /\ SupersedeRow(recov.half) /\ UNCHANGED exec
        /\ recov' = [recov EXCEPT !.half = None, !.todo = @ \ {recov.half}]
    BY <1>3 DEF RecoverSuperseded
  <2>2. recov'.pc = "supersede" /\ recov'.half = None /\ recov'.todo = recov.todo \ {recov.half}
        /\ recov'.latest = recov.latest
    BY <1>1, <2>1 DEF Recoveries
  <2>3. recov.half \in recov.todo /\ ~Unsettled(recov.half) BY <1>1, <2>1 DEF SupersedingInv
  <2>4. \A e \in Deploys : InFlight(e)' = InFlight(e) /\ Unsettled(e)' = Unsettled(e)
    BY <2>1 DEF InFlight, Unsettled, Targets
  <2>5. \A e \in Deploys : e # recov.half => dstatus'[e] = dstatus[e] /\ finished'[e] = finished[e]
    BY <2>1 DEF SupersedeRow, TypeOK, RowsOK
  <2>6. \A e \in Deploys : Hanging(e)' => Hanging(e) /\ e # recov.half
    BY <2>3, <2>4, <2>5 DEF Hanging
  <2>7. recov.latest # None => dstatus'[recov.latest] = "queued"
    <3>1. recov.latest \in Deploys \cup {None} BY DEF Recoveries
    <3>2. QED BY <1>1, <2>3, <2>5, <3>1 DEF SupersedingInv
  <2>8. SupersedingInv' BY <1>1, <2>2, <2>4, <2>6, <2>7 DEF SupersedingInv
  <2>9. QED BY <2>2, <2>8 DEF RecovInv, RecovAt
<1>4. QED BY <1>2, <1>3

LEMMA RecovStep ==
  ASSUME TypeOK, SafetyInv, LoopInv, RowInv, RecovInv, Next PROVE RecovInv'
<1>1. CASE proc' # "recovering" BY <1>1 DEF RecovInv, RecovAt
<1>2. CASE Start BY <1>2 DEF Start, RecovInv, RecovAt, NoRecovery
<1>3. CASE UNCHANGED vars
  BY <1>3 DEF vars, db, RecovInv, RecovAt, ClosingInv, RecomputingInv, SupersedingInv, Hanging,
     InFlight, Unsettled, Targets
<1>4. CASE Recovery
  <2>1. CASE RecoverEnqueue BY <2>1 DEF RecoverEnqueue, RecovInv, RecovAt
  <2>2. QED
    BY <1>4, <2>1, SelectCloses, CloseCloses, RecomputeRecovers, SupersedeRecovers DEF Recovery
<1>5. QED BY <1>1, <1>2, <1>3, <1>4, RecoversAlone

-----------------------------------------------------------------------------
(* Theorems                                                                 *)

RowsInv == HandInv /\ LoopInv /\ RowInv /\ RecovInv

LEMMA InitRows == ASSUME Init PROVE RowsInv
<1>1. HandInv BY InitHand
<1>2. LoopInv BY DEF Init, NoGoroutines, NoRun, NoRecompute, LoopInv, LoopOf, ReadOf, Members
<1>3. RowInv BY DEF Init, RowInv, RowOf, Targets, Unsettled, NoRow
<1>4. RecovInv BY DEF Init, RecovInv, RecovAt
<1>5. QED BY <1>1, <1>2, <1>3, <1>4 DEF RowsInv

LEMMA HandStep ==
  ASSUME TypeOK, SafetyInv, LoopInv, HandInv, Next PROVE HandInv'
<1>1. CASE \E d \in Deploys : Handler(d) BY <1>1, HandlerHand
<1>2. CASE \E d \in Deploys : LoopStep(d) BY <1>2, LoopHand
<1>3. CASE \E d \in Deploys, i \in Instances : WorkerStep(d, i) BY <1>3, WorkerHand
<1>4. CASE \E d \in Deploys, p \in Members : RecomputeStep(d, p) BY <1>4, RecomputeHand
<1>5. CASE Recovery BY <1>5, RecoveryHand
<1>6. CASE Wire \/ Start \/ Crash \/ Stop \/ Exit \/ AllServed BY <1>6, ProcessHand
<1>7. QED BY <1>1, <1>2, <1>3, <1>4, <1>5, <1>6 DEF Next

LEMMA RowsStep ==
  ASSUME TypeOK, SafetyInv, GateInv, RowsInv, [Next]_vars PROVE RowsInv'
<1>1. CASE Next BY <1>1, HandStep, LoopInvStep, RowStep, RecovStep DEF RowsInv
<1>2. CASE UNCHANGED vars
  BY <1>2 DEF vars, db, rollout, history, RowsInv, HandInv, LoopInv, RowInv, RecovInv, RecovAt,
     Fresh, InFlight, On, LoopOf, ReadOf, RowOf, ClosingInv, RecomputingInv, SupersedingInv,
     Hanging, Unsettled, Targets, Moved, AllSucceeded
<1>3. QED BY <1>1, <1>2

LEMMA RowsHold == Spec => []RowsInv
<1>1. Init => RowsInv BY InitRows
<1>2. TypeOK /\ SafetyInv /\ GateInv /\ RowsInv /\ [Next]_vars => RowsInv' BY RowsStep
<1>3. QED BY <1>1, <1>2, TypeCorrect, Safety, GateHolds, PTL DEF Spec

\* A deploy with finished_at holds no execution that can still move, and one
\* that reads succeeded was reported done by the executor of every instance,
\* however the recomputes of loop and workers, the supersede of a handler and
\* the recovery of a new process interleave.
THEOREM FinishedIsTrue == Spec => []FinishIsTrue
<1>1. RowsInv => FinishIsTrue
  <2>1. ASSUME RowsInv, NEW d \in Deploys, finished[d]
        PROVE  \A i \in Targets(d) : Terminal(exec[d][i])
    BY <2>1 DEF RowsInv, RowInv, RowOf, Unsettled
  <2>2. ASSUME RowsInv, NEW d \in Deploys, dstatus[d] = "succeeded"
        PROVE  \A i \in Targets(d) : answer[d][i] = "ok"
    <3>1. \A i \in Targets(d) : i \in Instances BY DEF Targets
    <3>2. QED BY <2>2, <3>1 DEF RowsInv, RowInv, RowOf, AllSucceeded
  <2>3. QED BY <2>1, <2>2 DEF FinishIsTrue
<1>2. QED BY <1>1, RowsHold, PTL

LEMMA RequeueStep ==
  ASSUME TypeOK, SafetyInv, RowsInv, Next, NEW d \in Deploys, dstatus[d] \notin {"queued", NoRow}
  PROVE  dstatus'[d] # "queued"
<1> dstatus \in [Deploys -> Statuses \cup {NoRow}] BY DEF TypeOK, RowsOK
<1>1. CASE UNCHANGED dstatus BY <1>1
<1>2. ASSUME NEW e \in Deploys, SupersedeRow(e) PROVE dstatus'[d] # "queued"
  BY <1>2 DEF SupersedeRow
<1>3. CASE \E e \in Deploys : Handler(e)
  <2>1. PICK e \in Deploys : Handler(e) BY <1>3
  <2>2. CASE EnqueueReplaced(e)
    <3>1. pending \in Deploys BY <2>2 DEF EnqueueReplaced, RowsInv, HandInv, TypeOK, ProcessOK
    <3>2. QED BY <1>2, <2>2, <3>1 DEF EnqueueReplaced
  <2>3. CASE Create(e)
    <3>1. e # d BY <2>3 DEF Create, SafetyInv, BornInv, Unborn, Untouched
    <3>2. QED BY <2>3, <3>1 DEF Create
  <2>4. CASE CreateBroken(e) BY <2>4 DEF CreateBroken
  <2>5. QED
    BY <1>1, <2>1, <2>2, <2>3, <2>4 DEF Handler, Build, CreateFails, EnqueueFree, EnqueueWait,
       EnqueueReplace, ReplaceFails, db
<1>4. CASE \E e \in Deploys : LoopStep(e)
  <2>1. PICK e \in Deploys : LoopStep(e) BY <1>4
  <2>2. CASE Cleanup(e) BY <2>2 DEF Cleanup, NoRow
  <2>3. QED
    BY <1>1, <2>1, <2>2 DEF LoopStep, Load, LoadFails, CancelWave, FirstAlone, WholeWave,
       JoinFirst, FanOut, Join, FanDone, CancelOne, SweepDone, LastWaveDone, NextDeploy, EndWave, db
<1>5. CASE \E e \in Deploys, i \in Instances : WorkerStep(e, i) BY <1>1, <1>5, WorkerEffect
<1>6. CASE \E e \in Deploys, p \in Members : RecomputeStep(e, p)
  <2>1. PICK e \in Deploys, p \in Members : RecomputeStep(e, p) BY <1>6
  <2>2. CASE RecomputeWrite(e, p)
    <3>1. ReadOf(e, p) BY DEF RowsInv, LoopInv
    <3>2. QED BY <2>2, <3>1 DEF RecomputeWrite, WriteDeploy, ReadOf
  <2>3. QED
    BY <1>1, <2>1, <2>2 DEF RecomputeStep, RecomputeRead, RecomputeNotify, RecomputeFails
<1>7. CASE Recovery
  <2>1. ASSUME NEW e \in Deploys, RecoverRecompute(e) PROVE dstatus'[d] # "queued"
    <3>1. Targets(e) # {} /\ ~Unsettled(e)
      BY <2>1 DEF RecoverRecompute, RowsInv, RecovInv, RecomputingInv
    <3>2. DEFINE S == ExecStatuses(e)
    <3>3. S # {} /\ "queued" \notin S
      BY <3>1 DEF ExecStatuses, Unsettled, Terminal, TerminalStatuses
    <3>4. AggregateStatus(S) # "queued" BY <3>3 DEF AggregateStatus
    <3>5. QED BY <2>1, <3>4 DEF RecoverRecompute, WriteDeploy
  <2>2. CASE RecoverSuperseded
    BY <1>2, <2>2 DEF RecoverSuperseded, TypeOK, ProcessOK, Recoveries
  <2>3. QED
    BY <1>1, <1>7, <2>1, <2>2 DEF Recovery, RecoverSelect, RecoverClosed, RecoverList,
       RecoverSupersede, RecoverEnqueue, RecoverFail, RecoverCancel
<1>8. CASE Wire \/ Start \/ Crash \/ Stop \/ Exit \/ AllServed
  BY <1>1, <1>8 DEF Wire, Start, Crash, Stop, Exit, AllServed, Dies, db, vars
<1>9. QED BY <1>3, <1>4, <1>5, <1>6, <1>7, <1>8 DEF Next

\* A rollout that started never reads queued again, whatever its recomputes
\* have read and whoever writes its row meanwhile: recovery would take it for
\* one that never ran.
THEOREM StartedForGood == Spec => NeverRequeued
<1> DEFINE Kept == \A d \in Deploys : dstatus[d] \notin {"queued", NoRow} => dstatus'[d] # "queued"
<1>1. TypeOK /\ SafetyInv /\ RowsInv /\ [Next]_vars => [Kept]_dstatus
  <2>1. ASSUME TypeOK, SafetyInv, RowsInv, Next PROVE Kept BY <2>1, RequeueStep
  <2>2. UNCHANGED vars => UNCHANGED dstatus BY DEF vars, db
  <2>3. QED BY <2>1, <2>2
<1>2. QED BY <1>1, TypeCorrect, Safety, RowsHold, PTL DEF Spec, NeverRequeued

-----------------------------------------------------------------------------
(* While no statement fails, nothing the loop leaves behind is unsettled.   *)

LEMMA FaultsGrow ==
  ASSUME TypeOK, SafetyInv, Next, faults' = 0 PROVE faults = 0
<1> faults \in Nat BY DEF TypeOK, ProcessOK
<1>1. ASSUME NEW d \in Deploys, Handler(d) PROVE faults = 0
  <2>1. CASE CreateFails(d) \/ ReplaceFails(d) BY <2>1 DEF CreateFails, ReplaceFails, Fault
  <2>2. CASE Build(d) \/ CreateBroken(d) \/ Create(d) BY <2>2 DEF Build, CreateBroken, Create, bounds
  <2>3. CASE EnqueueFree(d) \/ EnqueueWait(d) \/ EnqueueReplace(d) \/ EnqueueReplaced(d)
    BY <2>3 DEF EnqueueFree, EnqueueWait, EnqueueReplace, EnqueueReplaced, bounds
  <2>4. QED BY <1>1, <2>1, <2>2, <2>3 DEF Handler
<1>2. ASSUME NEW d \in Deploys, LoopStep(d) PROVE faults = 0
  <2>1. CASE LoadFails(d) BY <2>1 DEF LoadFails, Fault
  <2>2. CASE JoinFirst(d)
    <3>1. UNCHANGED faults \/ Fault BY <2>2 DEF JoinFirst
    <3>2. QED BY <3>1 DEF Fault
  <2>3. CASE CancelOne(d)
    <3>1. UNCHANGED faults \/ Fault BY <2>3 DEF CancelOne
    <3>2. QED BY <3>1 DEF Fault
  <2>4. CASE Cleanup(d)
    <3>1. UNCHANGED faults \/ Fault BY <2>4 DEF Cleanup
    <3>2. QED BY <3>1 DEF Fault
  <2>5. CASE Load(d) \/ CancelWave(d) \/ FirstAlone(d) \/ WholeWave(d) \/ FanOut(d)
    BY <2>5 DEF Load, CancelWave, FirstAlone, WholeWave, FanOut
  <2>6. CASE Join(d) \/ FanDone(d) \/ SweepDone(d) \/ LastWaveDone(d) \/ NextDeploy(d)
    BY <2>6 DEF Join, FanDone, SweepDone, LastWaveDone, NextDeploy, EndWave
  <2>7. QED BY <1>2, <2>1, <2>2, <2>3, <2>4, <2>5, <2>6 DEF LoopStep
<1>3. ASSUME NEW d \in Deploys, NEW i \in Instances, WorkerStep(d, i) PROVE faults = 0
  BY <1>3, WorkerEffect
<1>4. ASSUME NEW d \in Deploys, NEW p \in Members, RecomputeStep(d, p) PROVE faults = 0
  BY <1>4 DEF RecomputeStep, RecomputeRead, RecomputeWrite, RecomputeNotify, RecomputeFails, Fault
<1>5. CASE Recovery BY <1>5, RecoveryEffect DEF bounds
<1>6. CASE Wire \/ Start \/ Crash \/ Stop \/ Exit \/ AllServed
  BY <1>6 DEF Wire, Start, Crash, Stop, Exit, AllServed, Dies, vars, bounds
<1>7. QED BY <1>1, <1>2, <1>3, <1>4, <1>5, <1>6 DEF Next

-----------------------------------------------------------------------------
(* Every execution in flight has its worker                                 *)

\* The part of TrackInv about one deploy.
Tracked(d) == \A i \in Instances :
  /\ exec[d][i] = "dispatching" => worker[d][i].pc = "acquire"
  /\ exec[d][i] = "running" => worker[d][i].pc = "execute"
  /\ worker[d][i].pc = "done" => Terminal(exec[d][i])
Driven(d) == \A i \in Instances :
  /\ worker[d][i].pc = "acquire" => exec[d][i] = "dispatching"
  /\ worker[d][i].pc = "execute" => exec[d][i] = "running"
Watched == faults = 0 /\ proc \notin {"down", "recovering"}

LEMMA TrackParts == TrackInv <=> \A d \in Deploys : Driven(d) /\ (Watched => Tracked(d))
  BY DEF TrackInv, Driven, Tracked, Watched

\* Without workers, it is enough that nothing is in flight.
LEMMA TrackIdle ==
  ASSUME NEW e \in Deploys, \A i \in Instances : worker'[e][i].pc = "off"
  PROVE  Driven(e)' /\ (~InFlight(e)' => Tracked(e)')
  BY DEF Driven, Tracked, InFlight, InFlightStatuses

LEMMA TrackSame ==
  ASSUME NEW e \in Deploys, exec'[e] = exec[e], worker'[e] = worker[e]
  PROVE  (Driven(e) => Driven(e)') /\ (Tracked(e) => Tracked(e)')
  BY DEF Driven, Tracked

LEMMA IdleNotInFlight ==
  ASSUME NEW e \in Deploys, Tracked(e), \A i \in Instances : worker[e][i].pc \in {"off", "done"}
  PROVE  ~InFlight(e)
  BY DEF Tracked, InFlight, InFlightStatuses, Terminal, TerminalStatuses

LEMMA HandlerTrack ==
  ASSUME TypeOK, SafetyInv, HandInv, LoopInv, NEW d \in Deploys, Handler(d), NEW e \in Deploys,
         Driven(e), Watched => Tracked(e), Watched' => Watched
  PROVE  Driven(e)' /\ (Watched' => Tracked(e)')
<1> exec \in [Deploys -> [Instances -> Statuses \cup {NoRow}]] BY DEF TypeOK, RowsOK
<1>1. UNCHANGED worker
  BY DEF Handler, Build, CreateBroken, Create, CreateFails, EnqueueFree, EnqueueWait,
     EnqueueReplace, EnqueueReplaced, ReplaceFails, rollout
<1>2. CASE On(e) BY <1>1, <1>2, HandlerRows, TrackSame
<1>3. CASE ~On(e)
  <2>1. \A i \in Instances : worker[e][i].pc = "off" BY <1>3, IdleOff
  <2>2. ~InFlight(e) => ~InFlight(e)'
    <3>1. \A i \in Instances : exec'[e][i] \in {exec[e][i], "queued", "superseded", NoRow}
      BY DEF Handler, Build, CreateBroken, Create, CreateFails, EnqueueFree, EnqueueWait,
         EnqueueReplace, EnqueueReplaced, ReplaceFails, Sweep, db
    <3>2. QED BY <3>1 DEF InFlight, InFlightStatuses, NoRow
  <2>3. QED BY <1>1, <2>1, <2>2, TrackIdle, IdleNotInFlight
<1>4. QED BY <1>2, <1>3

\* No step of a loop takes an execution in flight out of its worker's hands.
LEMMA LoopTrack ==
  ASSUME TypeOK, SafetyInv, HandInv, LoopInv, NEW d \in Deploys, LoopStep(d), NEW e \in Deploys,
         Driven(e), Watched => Tracked(e), Watched' => Watched
  PROVE  Driven(e)' /\ (Watched' => Tracked(e)')
<1> /\ exec \in [Deploys -> [Instances -> Statuses \cup {NoRow}]]
    /\ worker \in [Deploys -> [Instances -> Workers]]
  BY DEF TypeOK, RowsOK, RolloutOK
<1>1. ~InFlight(e) => ~InFlight(e)'
  <2>1. UNCHANGED exec \/ CancelOne(d) \/ Cleanup(d)
    BY DEF LoopStep, Load, LoadFails, CancelWave, FirstAlone, WholeWave, JoinFirst, FanOut,
       Join, FanDone, SweepDone, LastWaveDone, NextDeploy, EndWave, db
  <2>2. \A i \in Instances : exec'[e][i] \in {exec[e][i], "canceled", NoRow}
    <3>1. CASE CancelOne(d)
      <4>1. PICK i : exec' = [exec EXCEPT ![d][i] = "canceled"] \/ exec' = exec
        BY <3>1 DEF CancelOne
      <4>2. QED BY <4>1
    <3>2. CASE Cleanup(d) BY <3>2 DEF Cleanup
    <3>3. QED BY <2>1, <3>1, <3>2
  <2>3. QED BY <2>2 DEF InFlight, InFlightStatuses, NoRow
<1>2. CASE \A i \in Instances : worker'[e][i].pc = "off" /\ worker[e][i].pc \in {"off", "done"}
  BY <1>1, <1>2, TrackIdle, IdleNotInFlight
<1>3. CASE e # d BY <1>2, <1>3, LoopEffect
<1>4. CASE e = d /\ run[d].pc \notin {"first", "join"}
  <2>1. \A i \in Instances : worker[d][i].pc = "off" BY <1>4 DEF SafetyInv, SlotInv
  <2>2. CASE FirstAlone(d) \/ FanOut(d)
    <3>1. \A i \in Instances : worker'[d][i].pc \in {"off", "start"}
      <4>1. Spawned.pc = "start" /\ NoWorker.pc = "off" BY DEF Spawned, NoWorker
      <4>2. CASE FirstAlone(d)
        <5>1. PICK first : worker' = [worker EXCEPT ![d][first] = Spawned] BY <4>2 DEF FirstAlone
        <5>2. QED BY <2>1, <4>1, <5>1
      <4>3. CASE FanOut(d) BY <4>1, <4>3 DEF FanOut
      <4>4. QED BY <2>2, <4>2, <4>3
    <3>2. UNCHANGED exec BY <2>2 DEF FirstAlone, FanOut, db
    <3>3. QED BY <1>4, <2>1, <3>1, <3>2 DEF Driven, Tracked
  <2>3. CASE UNCHANGED worker BY <1>2, <1>4, <2>1, <2>3
  <2>4. QED
    BY <1>4, <2>2, <2>3 DEF LoopStep, Load, LoadFails, CancelWave, WholeWave, JoinFirst, Join,
       FanDone, CancelOne, SweepDone, LastWaveDone, Cleanup, NextDeploy, At
<1>5. CASE e = d /\ run[d].pc \in {"first", "join"}
  <2>1. JoinFirst(d) \/ Join(d)
    BY <1>5 DEF LoopStep, Load, LoadFails, CancelWave, FirstAlone, WholeWave, FanOut,
       FanDone, CancelOne, SweepDone, LastWaveDone, Cleanup, NextDeploy, NextWave, At
  <2>2. \A i \in Instances : worker[d][i].pc \in {"off", "done"} /\ worker'[d][i] = NoWorker
    <3>1. WorkersDone(d) /\ Collected(d) BY <2>1 DEF JoinFirst, Join
    <3>2. QED BY <3>1 DEF WorkersDone, Collected
  <2>3. QED BY <1>2, <1>5, <2>2 DEF NoWorker
<1>6. QED BY <1>3, <1>4, <1>5

LEMMA WorkerTrack ==
  ASSUME TypeOK, GateInv, NEW d \in Deploys, NEW i \in Instances, WorkerStep(d, i),
         NEW e \in Deploys, Driven(e), Watched => Tracked(e), Watched' => Watched
  PROVE  Driven(e)' /\ (Watched' => Tracked(e)')
<1> /\ exec \in [Deploys -> [Instances -> Statuses \cup {NoRow}]]
    /\ worker \in [Deploys -> [Instances -> Workers]]
  BY DEF TypeOK, RowsOK, RolloutOK
<1>1. PICK w \in Workers, s \in Statuses \cup {NoRow} :
        /\ worker' = [worker EXCEPT ![d][i] = w] /\ exec' = [exec EXCEPT ![d][i] = s]
        /\ WorkerDoes(d, i, w, s)
  BY WorkerEffect
<1>2. CASE e # d BY <1>1, <1>2, TrackSame
<1>3. CASE e = d
  <2>1. \A j \in Instances \ {i} : worker'[d][j] = worker[d][j] /\ exec'[d][j] = exec[d][j]
    BY <1>1
  <2>2. worker'[d][i] = w /\ exec'[d][i] = s BY <1>1
  <2>3. (w.pc = "acquire" => s = "dispatching") /\ (w.pc = "execute" => s = "running")
    BY <1>1 DEF WorkerDoes, Stopped, Workers
  <2>4. ASSUME Watched' PROVE /\ s = "dispatching" => w.pc = "acquire"
                              /\ s = "running" => w.pc = "execute"
                              /\ w.pc = "done" => Terminal(s)
    <3>1. Tracked(d) /\ ~(faults' # faults) BY <1>3, <2>4 DEF Watched
    <3>2. CASE worker[d][i].pc = "start"
      <4>1. i \in Targets(d) BY <3>2 DEF GateInv, AnswerOf, Admitted
      <4>2. exec[d][i] \notin {"dispatching", "running", NoRow} BY <3>1, <3>2, <4>1 DEF Tracked, Targets
      <4>3. exec[d][i] = "queued" \/ Terminal(exec[d][i])
        BY <4>2 DEF Statuses, Terminal, TerminalStatuses
      <4>4. CASE s = "dispatching" /\ w = [worker[d][i] EXCEPT !.pc = "acquire"]
        BY <4>4 DEF Workers
      <4>5. CASE w = Stopped(FALSE, NoImage) /\ s = exec[d][i] /\ exec[d][i] # "queued"
        BY <4>2, <4>3, <4>5 DEF Stopped
      <4>6. QED BY <1>1, <3>1, <3>2, <4>4, <4>5 DEF WorkerDoes
    <3>3. CASE worker[d][i].pc = "acquire"
      <4>1. exec[d][i] = "dispatching" BY <1>3, <3>3 DEF Driven
      <4>2. CASE s = "running" /\ w = [worker[d][i] EXCEPT !.pc = "execute"]
        BY <4>2 DEF Workers
      <4>3. CASE w = Stopped(FALSE, NoImage) /\ s \in {"unreachable", "failed"}
        BY <4>3 DEF Stopped, Terminal, TerminalStatuses
      <4>4. QED BY <1>1, <3>1, <3>3, <4>1, <4>2, <4>3 DEF WorkerDoes
    <3>4. CASE worker[d][i].pc = "execute"
      <4>1. exec[d][i] = "running" BY <1>3, <3>4 DEF Driven
      <4>2. w.pc = "done" /\ s \in {"succeeded", "failed", "unreachable"}
        BY <1>1, <3>1, <3>4, <4>1 DEF WorkerDoes, Stopped
      <4>3. QED BY <4>2 DEF Terminal, TerminalStatuses
    <3>5. QED BY <1>1, <3>2, <3>3, <3>4 DEF WorkerDoes
  <2>5. Driven(d)'
    <3>1. ASSUME NEW j \in Instances
          PROVE  /\ worker'[d][j].pc = "acquire" => exec'[d][j] = "dispatching"
                 /\ worker'[d][j].pc = "execute" => exec'[d][j] = "running"
      BY <1>3, <2>1, <2>2, <2>3 DEF Driven
    <3>2. QED BY <3>1 DEF Driven
  <2>6. ASSUME Watched' PROVE Tracked(d)'
    <3>1. ASSUME NEW j \in Instances
          PROVE  /\ exec'[d][j] = "dispatching" => worker'[d][j].pc = "acquire"
                 /\ exec'[d][j] = "running" => worker'[d][j].pc = "execute"
                 /\ worker'[d][j].pc = "done" => Terminal(exec'[d][j])
      <4>1. CASE j = i BY <2>2, <2>4, <2>6, <4>1
      <4>2. CASE j # i BY <1>3, <2>1, <2>6, <4>2 DEF Tracked
      <4>3. QED BY <4>1, <4>2
    <3>2. QED BY <3>1 DEF Tracked
  <2>7. QED BY <1>3, <2>5, <2>6
<1>4. QED BY <1>2, <1>3

LEMMA RecoveryTrack ==
  ASSUME TypeOK, SafetyInv, RecovInv, Recovery, NEW e \in Deploys
  PROVE  Driven(e)' /\ (Watched' => Tracked(e)')
<1>1. proc = "recovering" /\ UNCHANGED worker /\ \A i \in Instances : worker[e][i].pc = "off"
  BY RecoveryEffect
<1>2. ASSUME Watched' PROVE ~InFlight(e)'
  <2>1. RecoverEnqueue
    BY <1>1, <1>2 DEF Watched, Recovery, RecoverSelect, RecoverClosed, RecoverList,
       RecoverSupersede, RecoverSuperseded, RecoverFail, RecoverCancel, RecoverRecompute
  <2>2. ~InFlight(e) BY <2>1 DEF RecoverEnqueue, RecovInv, SupersedingInv
  <2>3. QED BY <2>1, <2>2 DEF RecoverEnqueue, InFlight
<1>3. QED BY <1>1, <1>2, TrackIdle

LEMMA TrackStep ==
  ASSUME TypeOK, SafetyInv, GateInv, RowsInv, TrackInv, Next PROVE TrackInv'
<1> SUFFICES ASSUME NEW e \in Deploys PROVE Driven(e)' /\ (Watched' => Tracked(e)')
  BY DEF TrackInv, Driven, Tracked, Watched
<1>1. Driven(e) /\ (Watched => Tracked(e)) BY TrackParts
<1> USE DEF RowsInv
<1>2. faults' = 0 => faults = 0 BY FaultsGrow
<1>3. CASE \E d \in Deploys : Handler(d)
  <2>1. proc' = proc
    BY <1>3 DEF Handler, Build, CreateBroken, Create, CreateFails, EnqueueFree, EnqueueWait,
       EnqueueReplace, EnqueueReplaced, ReplaceFails
  <2>2. QED BY <1>1, <1>2, <1>3, <2>1, HandlerTrack DEF Watched
<1>4. CASE \E d \in Deploys : LoopStep(d)
  <2>1. proc' = proc BY <1>4, LoopEffect
  <2>2. QED BY <1>1, <1>2, <1>4, <2>1, LoopTrack DEF Watched
<1>5. CASE \E d \in Deploys, i \in Instances : WorkerStep(d, i)
  <2>1. proc' = proc BY <1>5, WorkerEffect
  <2>2. QED BY <1>1, <1>2, <1>5, <2>1, WorkerTrack DEF Watched
<1>6. CASE \E d \in Deploys, p \in Members : RecomputeStep(d, p)
  <2>1. UNCHANGED <<proc, exec, worker>> BY <1>6, RecomputeEffect
  <2>2. QED BY <1>1, <1>2, <2>1, TrackSame DEF Watched
<1>7. CASE Recovery BY <1>7, RecoveryTrack
<1>8. CASE Crash \/ Exit
  <2>1. proc' = "down" /\ \A i \in Instances : worker'[e][i].pc = "off"
    BY <1>8 DEF Crash, Exit, Dies, NoWorker
  <2>2. QED BY <2>1, TrackIdle DEF Watched
<1>9. CASE Wire \/ Start \/ Stop \/ AllServed
  <2>1. UNCHANGED <<exec, worker>> /\ (Watched' => Watched)
    BY <1>2, <1>9 DEF Wire, Start, Stop, AllServed, vars, db, rollout, Watched
  <2>2. QED BY <1>1, <2>1, TrackSame
<1>10. QED BY <1>3, <1>4, <1>5, <1>6, <1>7, <1>8, <1>9 DEF Next

-----------------------------------------------------------------------------
(* The loop leaves nothing unsettled behind                                 *)

LeftOf(d) ==
  /\ run[d].pc \in {"clean", "next"} => ~Unsettled(d)
  /\ run[d].pc \in {"wave", "first", "fan", "join", "sweep"} =>
       \A i \in Targets(d) : Passed(d, i) =>
         Terminal(exec[d][i]) \/ worker[d][i].pc # "off" \/ i \in run[d].todo
  /\ \A i \in run[d].todo : worker[d][i].pc = "off"
  /\ run[d].pc \in {"wave", "join"} => run[d].todo = {}

LEMMA LeftParts == LeftInv <=> (faults = 0 => \A d \in Deploys : LeftOf(d))
  BY DEF LeftInv, LeftOf

LEMMA LeftIdle ==
  ASSUME NEW e \in Deploys, run'[e].pc \in {"off", "load"}, \A i \in Instances : worker'[e][i].pc = "off",
         run'[e].todo \subseteq Instances
  PROVE  LeftOf(e)'
  BY DEF LeftOf

LEMMA LeftKept ==
  ASSUME TypeOK, NEW e \in Deploys, LeftOf(e), MovesOn(e), run'[e] = run[e],
         \A i \in Instances : worker'[e][i].pc = "off" <=> worker[e][i].pc = "off"
  PROVE  LeftOf(e)'
<1>1. run[e].todo \subseteq Instances BY RunTypes DEF TypeOK
<1>2. /\ ~Unsettled(e) => ~Unsettled(e)'
      /\ \A i \in Instances : Terminal(exec[e][i]) => Terminal(exec'[e][i])
      /\ Targets(e)' = Targets(e) /\ Targets(e) \subseteq Instances
  BY MovesKeep DEF MovesOn, Targets
<1>3. QED BY <1>1, <1>2 DEF LeftOf, Passed

\* Without workers what has been passed has settled or is on the list.
LEMMA LeftWave ==
  ASSUME NEW d \in Deploys, LeftOf(d), run[d].pc \in {"wave", "fan", "sweep"},
         \A i \in Instances : worker[d][i].pc = "off"
  PROVE  \A i \in Targets(d) : Passed(d, i) => Terminal(exec[d][i]) \/ i \in run[d].todo
  BY DEF LeftOf, Targets

\* The step of a loop on its own deploy, when no statement fails.
LEMMA LoopLeft ==
  ASSUME TypeOK, SafetyInv, HandInv, LoopInv, NEW d \in Deploys, LoopStep(d), ~NextDeploy(d),
         faults' = 0, faults = 0, Tracked(d), LeftOf(d)
  PROVE  LeftOf(d)'
<1> DEFINE r == run[d]
<1> /\ exec \in [Deploys -> [Instances -> Statuses \cup {NoRow}]]
    /\ worker \in [Deploys -> [Instances -> Workers]]
    /\ run \in [Deploys -> Runs] /\ r \in Runs /\ r.todo \in SUBSET Instances
  BY RunTypes DEF TypeOK, RowsOK, RolloutOK
<1> ~Fault BY DEF Fault
<1> Targets(d) \subseteq Instances BY DEF Targets
<1>1. r.pc \notin {"first", "join"} => \A i \in Instances : worker[d][i].pc = "off"
  BY DEF SafetyInv, SlotInv
<1>2. ASSUME UNCHANGED exec
      PROVE  Targets(d)' = Targets(d) /\ Unsettled(d)' = Unsettled(d)
  BY <1>2 DEF Targets, Unsettled
<1>3. CASE Load(d)
  <2>1. r.pc = "load" /\ UNCHANGED <<exec, worker>> BY <1>3 DEF Load, At, db
  <2>2. dstatus[d] = "queued" BY <2>1 DEF LoopInv, LoopOf
  <2>3. CASE Targets(d) # {}
    <3>1. run'[d].pc = "wave" /\ run'[d].todo = {} /\ run'[d].waves = {WaveOf[d][i] : i \in Targets(d)}
      BY <1>3, <2>2, <2>3 DEF Load, Becomes
    <3>2. \A i \in Targets(d)' : ~Passed(d, i)' BY <1>2, <2>1, <3>1 DEF Passed
    <3>3. QED BY <3>1, <3>2 DEF LeftOf
  <2>4. CASE Targets(d) = {}
    <3>1. ~Unsettled(d)' BY <1>2, <2>1, <2>4 DEF Unsettled
    <3>2. run'[d] = [r EXCEPT !.pc = "next"] BY <1>3, <2>4 DEF Load, Goto, Becomes
    <3>3. run'[d].pc = "next" /\ run'[d].todo = r.todo BY <3>2 DEF Runs
    <3>4. QED BY <1>1, <2>1, <3>1, <3>3 DEF LeftOf
  <2>5. QED BY <2>3, <2>4
<1>4. CASE CancelWave(d) \/ WholeWave(d)
  <2>1. PICK w \in r.waves, pc \in {"sweep", "fan"} :
          run'[d] = [r EXCEPT !.waves = @ \ {w}, !.pc = pc, !.todo = WaveMembers(d, w)]
    BY <1>4 DEF CancelWave, WholeWave, Begun, Becomes
  <2>2. r.pc = "wave" /\ UNCHANGED <<exec, worker>>
    BY <1>4 DEF CancelWave, WholeWave, NextWave, At, db
  <2>3. run'[d].pc = pc /\ run'[d].waves = r.waves \ {w} /\ run'[d].todo = WaveMembers(d, w)
    BY <2>1 DEF Runs
  <2>4. r.todo = {} BY <2>2 DEF LeftOf
  <2>5. \A i \in Targets(d) : Passed(d, i)' => Passed(d, i) \/ i \in WaveMembers(d, w)
    BY <2>3 DEF Passed, WaveMembers
  <2>6. \A i \in Targets(d) : Passed(d, i) => Terminal(exec[d][i]) BY <1>1, <2>2, <2>4, LeftWave
  <2>7. WaveMembers(d, w) \subseteq Instances BY DEF WaveMembers
  <2>8. QED BY <1>1, <1>2, <2>2, <2>3, <2>5, <2>6, <2>7 DEF LeftOf
<1>5. CASE FirstAlone(d)
  <2>1. PICK w \in r.waves, first \in Instances :
          /\ first \in WaveMembers(d, w)
          /\ run'[d] = [r EXCEPT !.waves = @ \ {w}, !.pc = "first",
                                 !.todo = WaveMembers(d, w) \ {first}]
          /\ worker' = [worker EXCEPT ![d][first] = Spawned]
    BY <1>5 DEF FirstAlone, Begun, Becomes, WaveMembers
  <2>2. r.pc = "wave" /\ UNCHANGED exec BY <1>5 DEF FirstAlone, NextWave, At, db
  <2>3. /\ run'[d].pc = "first" /\ run'[d].waves = r.waves \ {w}
        /\ run'[d].todo = WaveMembers(d, w) \ {first}
    BY <2>1 DEF Runs
  <2>4. r.todo = {} BY <2>2 DEF LeftOf
  <2>5. \A i \in Targets(d) : Passed(d, i)' => Passed(d, i) \/ i \in WaveMembers(d, w)
    BY <2>3 DEF Passed, WaveMembers
  <2>6. \A i \in Targets(d) : Passed(d, i) => Terminal(exec[d][i]) BY <1>1, <2>2, <2>4, LeftWave
  <2>7. WaveMembers(d, w) \subseteq Instances BY DEF WaveMembers
  <2>8. /\ worker'[d][first].pc # "off"
        /\ \A i \in Instances \ {first} : worker'[d][i].pc = "off"
    BY <1>1, <2>1, <2>2 DEF Spawned, NoWorker
  <2>9. \A i \in Targets(d) : Passed(d, i)' =>
          Terminal(exec[d][i]) \/ worker'[d][i].pc # "off" \/ i \in run'[d].todo
    BY <2>3, <2>5, <2>6, <2>8
  <2>10. QED BY <1>2, <2>2, <2>3, <2>7, <2>8, <2>9 DEF LeftOf
<1>6. CASE JoinFirst(d) \/ Join(d)
  <2>1. /\ \A i \in Instances : worker[d][i].pc \in {"off", "done"} /\ worker'[d][i].pc = "off"
        /\ UNCHANGED exec
    <3>1. WorkersDone(d) /\ Collected(d) BY <1>6 DEF JoinFirst, Join
    <3>2. UNCHANGED exec BY <1>6 DEF JoinFirst, Join, EndWave, db
    <3>3. QED BY <3>1, <3>2 DEF WorkersDone, Collected, NoWorker
  <2>2. /\ r.pc \in {"first", "join"} /\ run'[d].waves = r.waves /\ run'[d].todo = r.todo
        /\ run'[d].pc = IF r.pc = "first" THEN "fan" ELSE "wave"
    <3>1. CASE JoinFirst(d)
      <4>1. PICK new, failed : run'[d] = [r EXCEPT !.pc = "fan", !.digest = new, !.failed = failed]
        BY <3>1 DEF JoinFirst, Becomes
      <4>2. QED BY <3>1, <4>1 DEF Runs, JoinFirst, At
    <3>2. CASE Join(d)
      <4>1. PICK failed : run'[d] = [r EXCEPT !.pc = "wave", !.failed = failed]
        BY <3>2 DEF Join, Becomes
      <4>2. QED BY <3>2, <4>1 DEF Runs, Join, At
    <3>3. QED BY <1>6, <3>1, <3>2
  <2>3. \A i \in Targets(d) : Passed(d, i) => Terminal(exec[d][i]) \/ i \in r.todo
    BY <2>1, <2>2 DEF LeftOf, Tracked
  <2>4. QED BY <1>2, <2>1, <2>2, <2>3 DEF LeftOf, Passed
<1>7. CASE FanOut(d)
  <2>1. /\ r.pc = "fan" /\ UNCHANGED exec
        /\ run'[d] = [r EXCEPT !.pc = "join", !.todo = {}]
        /\ \A i \in Instances : worker'[d][i] = IF i \in r.todo THEN Spawned ELSE NoWorker
    BY <1>7 DEF FanOut, At, db, Becomes
  <2>2. run'[d].pc = "join" /\ run'[d].waves = r.waves /\ run'[d].todo = {} BY <2>1 DEF Runs
  <2>3. \A i \in Targets(d) : Passed(d, i) => Terminal(exec[d][i]) \/ i \in r.todo
    BY <1>1, <2>1, LeftWave
  <2>4. Spawned.pc # "off" BY DEF Spawned, NoWorker
  <2>5. QED BY <1>2, <2>1, <2>2, <2>3, <2>4 DEF LeftOf, Passed
<1>8. CASE FanDone(d) \/ SweepDone(d) \/ LastWaveDone(d)
  <2>1. r.todo = {}
    BY <1>8 DEF FanDone, SweepDone, LastWaveDone, At, LeftOf
  <2>2. r.pc \in {"wave", "fan", "sweep"} /\ UNCHANGED <<exec, worker>>
    BY <1>8 DEF FanDone, SweepDone, LastWaveDone, At, EndWave, db
  <2>3. \A i \in Targets(d) : Passed(d, i) => Terminal(exec[d][i])
    BY <1>1, <2>1, <2>2, LeftWave
  <2>4. PICK pc \in {"wave", "clean"} : run'[d] = [r EXCEPT !.pc = pc] /\ (pc = "clean" => r.waves = {})
    BY <1>8 DEF FanDone, SweepDone, LastWaveDone, Goto, Becomes
  <2>5. run'[d].pc = pc /\ run'[d].waves = r.waves /\ run'[d].todo = r.todo BY <2>4 DEF Runs
  <2>6. pc = "clean" => ~Unsettled(d)
    <3>1. pc = "clean" => \A i \in Targets(d) : Passed(d, i) BY <2>4 DEF Passed
    <3>2. QED BY <2>3, <3>1 DEF Unsettled
  <2>7. QED BY <1>2, <2>1, <2>2, <2>3, <2>5, <2>6 DEF LeftOf, Passed
<1>9. CASE CancelOne(d)
  <2>1. PICK i \in r.todo :
          /\ run'[d] = [r EXCEPT !.todo = @ \ {i}]
          /\ exec' = IF exec[d][i] = "queued" THEN [exec EXCEPT ![d][i] = "canceled"] ELSE exec
    BY <1>9 DEF CancelOne, Becomes, StillIn
  <2>2. r.pc \in {"fan", "sweep"} /\ UNCHANGED worker BY <1>9 DEF CancelOne, At
  <2>3. run'[d].pc = r.pc /\ run'[d].waves = r.waves /\ run'[d].todo = r.todo \ {i}
    BY <2>1 DEF Runs
  <2>4. i \in Targets(d) => Terminal(exec'[d][i])
    <3>1. exec[d][i] \notin {"dispatching", "running"} BY <1>1, <2>2 DEF Tracked
    <3>2. CASE exec[d][i] = "queued" BY <2>1, <3>2 DEF Terminal, TerminalStatuses
    <3>3. CASE exec[d][i] # "queued"
      BY <2>1, <3>1, <3>3 DEF Targets, Statuses, Terminal, TerminalStatuses
    <3>4. QED BY <3>2, <3>3
  <2>5. \A j \in Instances : j # i => exec'[d][j] = exec[d][j] BY <2>1
  <2>6. Targets(d)' = Targets(d) BY <2>1, <2>5 DEF Targets, NoRow
  <2>7. \A j \in Targets(d) : Passed(d, j) => Terminal(exec[d][j]) \/ j \in r.todo
    BY <1>1, <2>2, LeftWave
  <2>8. \A j \in Targets(d) : Passed(d, j) => Terminal(exec'[d][j]) \/ j \in run'[d].todo
    BY <2>3, <2>4, <2>5, <2>7
  <2>9. QED BY <1>1, <2>2, <2>3, <2>6, <2>8 DEF LeftOf, Passed
<1>10. CASE Cleanup(d)
  <2>1. r.pc = "clean" /\ UNCHANGED worker /\ run'[d] = [r EXCEPT !.pc = "next"]
    BY <1>10 DEF Cleanup, At, Goto, Becomes
  <2>2. run'[d].pc = "next" /\ run'[d].todo = r.todo BY <2>1 DEF Runs
  <2>3. exec'[d] = exec[d] \/ Targets(d)' = {} BY <1>10 DEF Cleanup, Targets
  <2>4. ~Unsettled(d) BY <2>1 DEF LeftOf
  <2>5. ~Unsettled(d)' BY <2>3, <2>4 DEF Unsettled, Targets
  <2>6. QED BY <1>1, <2>1, <2>2, <2>5 DEF LeftOf
<1>11. CASE LoadFails(d) BY <1>11 DEF LoadFails
<1>12. QED
  BY <1>3, <1>4, <1>5, <1>6, <1>7, <1>8, <1>9, <1>10, <1>11 DEF LoopStep

LEMMA LeftStep ==
  ASSUME TypeOK, TypeOK', SafetyInv, SafetyInv', GateInv, RowsInv, TrackInv, LeftInv, Next
  PROVE  LeftInv'
<1> USE DEF RowsInv
<1> SUFFICES ASSUME faults' = 0, NEW e \in Deploys PROVE LeftOf(e)' BY DEF LeftInv, LeftOf
<1>1. faults = 0 /\ LeftOf(e) BY FaultsGrow, LeftParts
<1>2. run'[e].todo \subseteq Instances BY DEF TypeOK, RolloutOK, Runs
<1>3. ASSUME run'[e].pc \in {"off", "load"} PROVE LeftOf(e)'
  <2>1. \A i \in Instances : worker'[e][i].pc = "off" BY <1>3 DEF SafetyInv, SlotInv
  <2>2. QED BY <1>2, <1>3, <2>1, LeftIdle
<1>4. ASSUME run'[e] = run[e], ~On(e) PROVE LeftOf(e)' BY <1>3, <1>4 DEF On
<1>5. ASSUME On(e), exec'[e] = exec[e], run'[e] = run[e], worker'[e] = worker[e] PROVE LeftOf(e)'
  BY <1>1, <1>5, StillMoves, LeftKept
<1>6. ASSUME NEW d \in Deploys, Handler(d) PROVE LeftOf(e)'
  <2>1. UNCHANGED worker
    BY <1>6 DEF Handler, Build, CreateBroken, Create, CreateFails, EnqueueFree, EnqueueWait,
       EnqueueReplace, EnqueueReplaced, ReplaceFails, rollout
  <2>2. CASE On(e) BY <1>5, <1>6, <2>1, <2>2, HandlerRows
  <2>3. CASE ~On(e)
    <3>1. run'[e] = run[e] \/ run'[e].pc = "load"
      BY <1>6 DEF Handler, Build, CreateBroken, Create, CreateFails, EnqueueFree, EnqueueWait,
         EnqueueReplace, EnqueueReplaced, ReplaceFails, StartLoop, rollout, NoRun, TypeOK, RolloutOK
    <3>2. QED BY <1>3, <1>4, <2>3, <3>1
  <2>4. QED BY <2>2, <2>3
<1>7. ASSUME NEW d \in Deploys, LoopStep(d) PROVE LeftOf(e)'
  <2>1. CASE e # d BY <1>3, <1>7, <2>1, LoopEffect
  <2>2. CASE e = d /\ NextDeploy(d)
    <3>1. pending # d BY <1>7, LoopEffect DEF HandInv
    <3>2. run'[d].pc = "off" BY <2>2, <3>1 DEF NextDeploy, NoRun, TypeOK, RolloutOK
    <3>3. QED BY <1>3, <2>2, <3>2
  <2>3. CASE e = d /\ ~NextDeploy(d)
    <3>1. Tracked(d)
      <4>1. On(d) BY <1>7, LoopEffect
      <4>2. proc \notin {"down", "recovering"} BY <4>1 DEF SafetyInv, SlotInv
      <4>3. QED BY <1>1, <4>2, TrackParts DEF Watched
    <3>2. QED BY <1>1, <1>7, <2>3, <3>1, LoopLeft
  <2>4. QED BY <2>1, <2>2, <2>3
<1>8. ASSUME NEW d \in Deploys, NEW i \in Instances, WorkerStep(d, i) PROVE LeftOf(e)'
  <2>1. UNCHANGED run BY <1>8, WorkerEffect
  <2>2. PICK w \in Workers, s \in Statuses \cup {NoRow} :
          worker' = [worker EXCEPT ![d][i] = w] /\ WorkerDoes(d, i, w, s)
    BY <1>8, WorkerEffect
  <2>3. w.pc # "off" /\ worker[d][i].pc # "off"
    BY <2>2 DEF WorkerDoes, Stopped, Workers
  <2>4. \A j \in Instances : worker'[e][j].pc = "off" <=> worker[e][j].pc = "off"
    <3>1. worker \in [Deploys -> [Instances -> Workers]] BY DEF TypeOK, RolloutOK
    <3>2. ASSUME NEW j \in Instances PROVE worker'[e][j].pc = "off" <=> worker[e][j].pc = "off"
      <4>1. CASE e = d /\ j = i BY <2>2, <2>3, <3>1, <4>1
      <4>2. CASE ~(e = d /\ j = i) BY <2>2, <3>1, <4>2
      <4>3. QED BY <4>1, <4>2
    <3>3. QED BY <3>2
  <2>5. MovesOn(e)
    <3>1. UNCHANGED handler BY <1>8, WorkerEffect
    <3>2. \A f \in Deploys : ~Create(f) BY <3>1 DEF Create, TypeOK, ProcessOK
    <3>3. ASSUME NEW f \in Deploys, Cleanup(f) PROVE FALSE
      <4>1. run[f] \in Runs BY DEF TypeOK, RolloutOK
      <4>2. run[f].pc = "clean" /\ run'[f].pc = "next"
        BY <3>3, <4>1 DEF Cleanup, At, Goto, Becomes, Runs, TypeOK, RolloutOK
      <4>3. QED BY <2>1, <4>2
    <3>4. QED BY <3>2, <3>3, ExecStep
  <2>6. QED BY <1>1, <2>1, <2>4, <2>5, LeftKept
<1>9. ASSUME NEW d \in Deploys, NEW p \in Members, RecomputeStep(d, p) PROVE LeftOf(e)'
  <2>1. UNCHANGED <<exec, run, worker>> BY <1>9, RecomputeEffect
  <2>2. QED BY <1>4, <1>5, <2>1
<1>10. CASE Recovery BY <1>3, <1>4, <1>10, RecoveryEffect
<1>11. CASE Wire \/ Start \/ Crash \/ Stop \/ Exit \/ AllServed
  <2>1. CASE Crash \/ Exit BY <1>3, <2>1 DEF Crash, Exit, Dies, NoRun
  <2>2. CASE Wire \/ Start \/ Stop \/ AllServed
    <3>1. UNCHANGED <<exec, run, worker>> BY <2>2 DEF Wire, Start, Stop, AllServed, vars, db, rollout
    <3>2. QED BY <1>4, <1>5, <3>1
  <2>3. QED BY <1>11, <2>1, <2>2
<1>12. QED BY <1>6, <1>7, <1>8, <1>9, <1>10, <1>11 DEF Next

-----------------------------------------------------------------------------
(* No deploy is forgotten                                                   *)

LEMMA HangsOn ==
  ASSUME TypeOK, SafetyInv, RowsInv, Next, NEW e \in Deploys, Hanging(e)'
  PROVE  \/ Hanging(e) \/ Create(e) \/ On(e)
<1> USE DEF RowsInv
<1> /\ dstatus \in [Deploys -> Statuses \cup {NoRow}] /\ finished \in [Deploys -> BOOLEAN]
  BY DEF TypeOK, RowsOK
<1>1. Targets(e)' # {} BY DEF Hanging, Unsettled
<1>2. SUFFICES ASSUME ~Create(e) PROVE Hanging(e) \/ On(e) OBVIOUS
<1>3. MovesOn(e) BY <1>1, <1>2, ExecStep DEF Deleted
<1>4. Unsettled(e) BY <1>3, MovesKeep DEF Hanging
<1>5. dstatus[e] # NoRow BY <1>4 DEF RowInv, RowOf, Unsettled
<1>6. ~finished[e] BY <1>4 DEF RowInv, RowOf
<1>7. QED BY <1>4, <1>5, <1>6 DEF Hanging

LEMMA OrphanStep ==
  ASSUME TypeOK, SafetyInv, RowsInv, LeftInv, NoOrphan, Next PROVE NoOrphan'
<1> USE DEF RowsInv
<1> /\ handler \in [Deploys -> HandlerPcs] /\ run \in [Deploys -> Runs]
    /\ pending \in Deploys \cup {None}
  BY DEF TypeOK, ProcessOK, RolloutOK
<1> SUFFICES ASSUME proc' \in {"wiring", "up"}, faults' = 0, NEW e \in Deploys, Hanging(e)'
             PROVE  Owned(e)'
  BY DEF NoOrphan, Hanging
<1>1. faults = 0 /\ (Hanging(e) \/ Create(e) \/ On(e)) BY FaultsGrow, HangsOn
<1>2. ASSUME On(e), run'[e] = run[e] PROVE Owned(e)' BY <1>2 DEF Owned, On
<1>3. proc \in {"wiring", "up"} /\ Hanging(e) => Owned(e) BY <1>1 DEF NoOrphan, Hanging
<1>4. ASSUME NEW d \in Deploys, Handler(d) PROVE Owned(e)'
  <2>1. proc' = proc
    BY <1>4 DEF Handler, Build, CreateBroken, Create, CreateFails, EnqueueFree, EnqueueWait,
       EnqueueReplace, EnqueueReplaced, ReplaceFails
  <2>2. CASE Create(e) BY <2>2 DEF Create, Owned
  <2>3. CASE On(e) BY <1>2, <1>4, <2>3, HandlerRows
  <2>4. CASE Hanging(e) /\ ~On(e)
    <3>1. handler[e] \in {"stored", "superseding"} \/ pending = e BY <1>3, <2>1, <2>4 DEF Owned, On
    <3>2. CASE e = d /\ handler[e] \in {"stored", "superseding"}
      <4>1. CASE EnqueueFree(d) BY <3>2, <4>1 DEF EnqueueFree, StartLoop, Owned, NoRun
      <4>2. CASE ~EnqueueFree(d)
        BY <1>4, <3>2, <4>2 DEF Handler, Build, CreateBroken, Create, CreateFails, EnqueueWait,
           EnqueueReplace, EnqueueReplaced, ReplaceFails, Owned
      <4>3. QED BY <4>1, <4>2
    <3>3. CASE e # d /\ handler[e] \in {"stored", "superseding"}
      BY <1>4, <3>3 DEF Handler, Build, CreateBroken, Create, CreateFails, EnqueueFree,
         EnqueueWait, EnqueueReplace, EnqueueReplaced, ReplaceFails, Owned
    <3>4. CASE pending = e
      <4>1. ~EnqueueReplaced(d)
        <5>1. EnqueueReplaced(d) => ~Unsettled(pending) BY DEF EnqueueReplaced, HandInv
        <5>2. QED BY <2>4, <3>4, <5>1 DEF Hanging
      <4>2. ~ReplaceFails(d) /\ ~EnqueueWait(d)
        BY <1>1, <3>4, DeploysAssumption DEF ReplaceFails, Fault, EnqueueWait, None
      <4>3. QED
        BY <1>4, <3>4, <4>1, <4>2 DEF Handler, Build, CreateBroken, Create, CreateFails,
           EnqueueFree, EnqueueReplace, Owned
    <3>5. QED BY <3>1, <3>2, <3>3, <3>4
  <2>5. QED BY <1>1, <2>2, <2>3, <2>4
<1>5. ASSUME NEW d \in Deploys, LoopStep(d) PROVE Owned(e)'
  <2>1. /\ On(d) /\ UNCHANGED <<proc, handler>>
        /\ \A f \in Deploys \ {d} : ~On(f) BY <1>5, LoopEffect
  <2>2. ~Create(e)
    <3>1. Create(e) => handler'[e] # handler[e] BY DEF Create
    <3>2. QED BY <2>1, <3>1
  <2>3. CASE e = d /\ NextDeploy(d)
    <3>1. run[d].pc = "next" /\ UNCHANGED exec BY <2>3 DEF NextDeploy, At, db
    <3>2. ~Unsettled(d) BY <1>1, <3>1 DEF LeftInv
    <3>3. ~Unsettled(d)' BY <3>1, <3>2 DEF Unsettled, Targets
    <3>4. QED BY <2>3, <3>3 DEF Hanging
  <2>4. CASE e = d /\ ~NextDeploy(d)
    <3>1. run'[d].pc # "off"
      <4>1. run[d] \in Runs /\ run[d].pc # "off" BY <2>1 DEF On
      <4>2. CASE Load(d)
        BY <4>1, <4>2 DEF Load, Goto, Becomes, Runs
      <4>3. CASE LoadFails(d) BY <4>1, <4>3 DEF LoadFails, Goto, Becomes, Runs
      <4>4. CASE CancelWave(d) \/ WholeWave(d)
        <5>1. PICK w \in run[d].waves, pc \in {"sweep", "fan"} :
                run'[d] = [run[d] EXCEPT !.waves = @ \ {w}, !.pc = pc, !.todo = WaveMembers(d, w)]
          BY <4>4 DEF CancelWave, WholeWave, Begun, Becomes
        <5>2. QED BY <4>1, <5>1 DEF Runs
      <4>5. CASE FirstAlone(d) BY <4>1, <4>5 DEF FirstAlone, Begun, Becomes, Runs
      <4>6. CASE JoinFirst(d) BY <4>1, <4>6 DEF JoinFirst, Becomes, Runs
      <4>7. CASE FanOut(d) BY <4>1, <4>7 DEF FanOut, Becomes, Runs
      <4>8. CASE Join(d) BY <4>1, <4>8 DEF Join, Becomes, Runs
      <4>9. CASE FanDone(d) \/ SweepDone(d) \/ LastWaveDone(d) \/ Cleanup(d)
        BY <4>1, <4>9 DEF FanDone, SweepDone, LastWaveDone, Cleanup, Goto, Becomes, Runs
      <4>10. CASE CancelOne(d) BY <4>1, <4>10 DEF CancelOne, Becomes, Runs
      <4>11. QED
        BY <1>5, <2>4, <4>2, <4>3, <4>4, <4>5, <4>6, <4>7, <4>8, <4>9, <4>10 DEF LoopStep
    <3>2. QED BY <2>4, <3>1 DEF Owned
  <2>5. CASE e # d
    <3>1. Hanging(e) /\ ~On(e) BY <1>1, <2>1, <2>2, <2>5
    <3>2. handler[e] \in {"stored", "superseding"} \/ pending = e
      BY <1>3, <2>1, <3>1 DEF Owned, On
    <3>3. ASSUME pending = e PROVE pending' = e \/ run'[e].pc = "load"
      <4>1. CASE NextDeploy(d)
        BY <2>5, <3>3, <4>1 DEF NextDeploy, NoRun
      <4>2. CASE ~NextDeploy(d)
        BY <1>5, <3>3, <4>2 DEF LoopStep, Load, LoadFails, CancelWave, FirstAlone, WholeWave,
           JoinFirst, FanOut, Join, FanDone, CancelOne, SweepDone, LastWaveDone, Cleanup, EndWave
      <4>3. QED BY <4>1, <4>2
    <3>4. QED BY <2>1, <3>2, <3>3 DEF Owned
  <2>6. QED BY <2>3, <2>4, <2>5
<1>6. ASSUME UNCHANGED <<proc, handler, pending, run>>, ~Create(e) PROVE Owned(e)'
  BY <1>1, <1>2, <1>3, <1>6 DEF Owned
<1>7. UNCHANGED handler => ~Create(e) BY DEF Create
<1>8. CASE \E d \in Deploys, i \in Instances : WorkerStep(d, i) BY <1>6, <1>7, <1>8, WorkerEffect
<1>9. CASE \E d \in Deploys, p \in Members : RecomputeStep(d, p)
  BY <1>6, <1>7, <1>9, RecomputeEffect
<1>10. CASE Recovery
  <2>1. RecoverEnqueue
    <3>1. proc = "recovering" BY <1>10, RecoveryEffect
    <3>2. QED BY <1>10, <3>1 DEF Recovery, RecoverSelect, RecoverClosed, RecoverList,
            RecoverSupersede, RecoverSuperseded, RecoverFail, RecoverCancel, RecoverRecompute
  <2>2. ~On(e) /\ ~Create(e) BY <1>7, <1>10, RecoveryEffect
  <2>3. Hanging(e) BY <1>1, <2>2
  <2>4. e = recov.latest BY <2>1, <2>3 DEF RecoverEnqueue, RecovInv, SupersedingInv
  <2>5. e # None BY DeploysAssumption DEF None
  <2>6. QED BY <2>1, <2>4, <2>5 DEF RecoverEnqueue, StartLoop, NoRun, Owned
<1>11. CASE Wire
  <2>1. UNCHANGED <<handler, pending, run>> /\ proc = "wiring" BY <1>11 DEF Wire, rollout
  <2>2. QED BY <1>1, <1>3, <1>7, <2>1 DEF Owned, On
<1>12. CASE Start \/ Crash \/ Stop \/ Exit BY <1>12 DEF Start, Crash, Stop, Exit, Dies
<1>13. CASE AllServed BY <1>6, <1>7, <1>13 DEF AllServed, vars, rollout
<1>14. QED
  BY <1>4, <1>5, <1>8, <1>9, <1>10, <1>11, <1>12, <1>13 DEF Next

LEMMA InitOrphan == ASSUME Init PROVE TrackInv /\ LeftInv /\ NoOrphan
<1>1. TrackInv BY DEF Init, NoGoroutines, NoWorker, TrackInv
<1>2. LeftInv BY DEF Init, NoGoroutines, NoRun, LeftInv
<1>3. NoOrphan BY DEF Init, NoOrphan
<1>4. QED BY <1>1, <1>2, <1>3

LEMMA UnchangedOrphan ==
  ASSUME UNCHANGED vars, TrackInv, LeftInv, NoOrphan PROVE TrackInv' /\ LeftInv' /\ NoOrphan'
<1> USE DEF vars, db, rollout, bounds
<1>1. TrackInv' BY DEF TrackInv
<1>2. LeftInv' BY DEF LeftInv, Unsettled, Targets, Passed
<1>3. NoOrphan' BY DEF NoOrphan, Unsettled, Targets, Owned
<1>4. QED BY <1>1, <1>2, <1>3

LEMMA TrackHolds == Spec => [](TrackInv /\ LeftInv /\ NoOrphan)
<1>1. TypeOK /\ TypeOK' /\ SafetyInv /\ SafetyInv' /\ GateInv /\ RowsInv /\ TrackInv /\ LeftInv
      /\ NoOrphan /\ [Next]_vars => TrackInv' /\ LeftInv' /\ NoOrphan'
  BY TrackStep, LeftStep, OrphanStep, UnchangedOrphan
<1>2. QED BY <1>1, InitOrphan, TypeCorrect, Safety, GateHolds, RowsHold, PTL DEF Spec

\* While main serves and no statement has failed, a deploy with an execution
\* that can still move is held by its handler, the pending slot or the loop,
\* across crashes, restarts, supersedes and recoveries in any order.
THEOREM NothingForgotten == Spec => []NoOrphan
  BY TrackHolds, PTL

-----------------------------------------------------------------------------
(***************************************************************************)
(* If the instance that starts first pins, all instances of a rollout pin  *)
(* the same image: ImageInv is inductive.                                  *)
(***************************************************************************)

\* What PinnedOf, PromotedOf and ResolvedOf say of deploy e depends on this.
Unmoved(e) == /\ pinned'[e] = pinned[e] /\ launched'[e] = launched[e]
              /\ Targets(e)' = Targets(e) /\ (RootDone => RootDone')

LEMMA LeadFrame ==
  ASSUME NEW e \in Deploys, Targets(e)' = Targets(e)
  PROVE  \A i : Lead(e, i)' = Lead(e, i)
  BY DEF Lead, Leads

LEMMA PinsFrame ==
  ASSUME NEW e \in Deploys, pinned'[e] = pinned[e]
  PROVE  (\A v : Pins(e, v)' = Pins(e, v)) /\ Pinned(e)' = Pinned(e)
  BY DEF Pins, Pinned

LEMMA PinnedFrame ==
  ASSUME NEW e \in Deploys, PinnedOf(e), pinned'[e] = pinned[e], launched'[e] = launched[e],
         Targets(e)' = Targets(e) \/ Targets(e)' = {}, digest'[e] = digest[e]
  PROVE  PinnedOf(e)'
<1>1. CASE Targets(e)' = Targets(e) BY <1>1, PinsFrame, LeadFrame DEF PinnedOf
<1>2. CASE Targets(e)' = {}
  <2>1. \A i : ~Lead(e, i)' BY <1>2 DEF Lead, Leads
  <2>2. QED BY <2>1, PinsFrame DEF PinnedOf
<1>3. QED BY <1>1, <1>2

LEMMA PromotedFrame ==
  ASSUME NEW e \in Deploys, PromotedOf(e), Unmoved(e), digest'[e] = digest[e], run'[e] = run[e]
  PROVE  PromotedOf(e)'
<1>1. Gated(e) => Gated(e)' BY DEF Unmoved, Gated
<1>2. \A i : Lead(e, i)' = Lead(e, i) BY LeadFrame DEF Unmoved
<1>3. \A v : Pins(e, v)' = Pins(e, v) BY PinsFrame DEF Unmoved
<1>4. QED BY <1>1, <1>2, <1>3 DEF PromotedOf, Unmoved

LEMMA ResolvedFrame ==
  ASSUME NEW e \in Deploys, ResolvedOf(e), Unmoved(e), run'[e] = run[e], worker'[e] = worker[e]
  PROVE  ResolvedOf(e)'
<1>1. \A i : Lead(e, i)' = Lead(e, i) BY LeadFrame DEF Unmoved
<1>2. (\A v : Pins(e, v)' = Pins(e, v)) /\ Pinned(e)' = Pinned(e) BY PinsFrame DEF Unmoved
<1>3. QED BY <1>1, <1>2 DEF ResolvedOf, Unmoved

\* A deploy that is not in the loop.
LEMMA ImageIdle ==
  ASSUME NEW e \in Deploys, run'[e].pc \in {"off", "load", "next"},
         \A i \in Instances : worker'[e][i].pc = "off"
  PROVE  PromotedOf(e)' /\ ResolvedOf(e)'
  BY DEF PromotedOf, ResolvedOf

LEMMA LeadIsOne ==
  ASSUME NEW d \in Deploys, NEW i \in Instances, NEW j \in Instances, Lead(d, i), Lead(d, j)
  PROVE  i = j
<1>1. i \in Targets(d) /\ j \in Targets(d) BY DEF Lead, Leads
<1>2. WaveOf[d][i] \in Nat /\ WaveOf[d][j] \in Nat BY WaveAssumption
<1>3. WaveOf[d][i] = WaveOf[d][j] BY <1>1, <1>2 DEF Lead, Leads
<1>4. i <= j /\ j <= i BY <1>1, <1>3 DEF Lead, Leads
<1>5. i \in Nat /\ j \in Nat BY InstancesAssumption
<1>6. QED BY <1>4, <1>5

LEMMA HandlerImage ==
  ASSUME LeadsPin, TypeOK, SafetyInv, HandInv, LoopInv, ImageInv, NEW d \in Deploys, Handler(d),
         NEW e \in Deploys
  PROVE  PinnedOf(e)' /\ PromotedOf(e)' /\ ResolvedOf(e)'
<1> USE DEF ImageInv
<1>1. UNCHANGED <<launched, answer, pinned, worker, proc>>
  BY DEF Handler, Build, CreateBroken, Create, CreateFails, EnqueueFree, EnqueueWait,
     EnqueueReplace, EnqueueReplaced, ReplaceFails, rollout, history
<1>2. ASSUME ~Create(e) PROVE digest'[e] = digest[e] /\ MovesOn(e)
  <2>1. CASE Create(d)
    <3>1. e # d BY <1>2, <2>1
    <3>2. digest'[e] = digest[e] /\ exec'[e] = exec[e]
      BY <2>1, <3>1 DEF Create, TypeOK, RowsOK
    <3>3. QED BY <3>2, StillMoves
  <2>2. CASE EnqueueReplace(d) BY <2>2, SweepMoves DEF EnqueueReplace, Statuses, TypeOK
  <2>3. CASE ~Create(d) /\ ~EnqueueReplace(d)
    <3>1. UNCHANGED <<digest, exec>>
      BY <2>3 DEF Handler, Build, CreateBroken, CreateFails, EnqueueFree, EnqueueWait,
         EnqueueReplaced, ReplaceFails, db
    <3>2. QED BY <3>1, StillMoves
  <2>4. QED BY <2>1, <2>2, <2>3
<1>3. CASE On(e)
  <2>1. ~Create(e) BY <1>3 DEF HandInv, Create
  <2>2. run'[e] = run[e] BY <1>3, HandlerRows
  <2>3. Unmoved(e) /\ digest'[e] = digest[e] BY <1>1, <1>2, <2>1 DEF Unmoved, MovesOn, RootDone
  <2>4. QED BY <1>1, <2>2, <2>3, PinnedFrame, PromotedFrame, ResolvedFrame DEF Unmoved
<1>4. CASE ~On(e)
  <2>1. PromotedOf(e)' /\ ResolvedOf(e)'
    <3>1. \A i \in Instances : worker'[e][i].pc = "off" BY <1>1, <1>4, IdleOff
    <3>2. run'[e].pc \in {"off", "load"}
      BY <1>4 DEF On, Handler, Build, CreateBroken, Create, CreateFails, EnqueueFree, EnqueueWait,
         EnqueueReplace, EnqueueReplaced, ReplaceFails, StartLoop, rollout, NoRun, TypeOK, RolloutOK
    <3>3. QED BY <3>1, <3>2, ImageIdle
  <2>2. CASE Create(e)
    <3>1. \A i \in Instances : launched[e][i] = 0
      BY <2>2 DEF Create, SafetyInv, BornInv, Unborn, Untouched
    <3>2. \A i \in Instances : pinned'[e][i] = NoImage BY <1>1, <3>1 DEF PinnedOf
    <3>3. (\A v : Pins(e, v)') /\ ~Pinned(e)' BY <3>2 DEF Pins, Pinned
    <3>4. PICK t \in Triggers[e] :
            /\ digest' = [digest EXCEPT ![e] = t.digest]
            /\ exec' = [exec EXCEPT ![e] =
                          [i \in Instances |-> IF i \in t.targets THEN "queued" ELSE NoRow]]
      BY <2>2 DEF Create
    <3>5. digest'[e] = t.digest BY <3>4 DEF TypeOK, RowsOK
    <3>6. t.targets \subseteq Instances BY TriggerAssumption
    <3>7. Targets(e)' = t.targets BY <3>4, <3>6 DEF Targets, NoRow, TypeOK, RowsOK
    <3>8. t.digest = NoImage => \A i \in Instances : Lead(e, i)' => i \in Pinners
      <4>1. \A i \in Instances : Lead(e, i)' <=> Leads(e, i, t.targets) BY <3>7 DEF Lead, Leads
      <4>2. QED BY <3>6, <4>1 DEF LeadsPin, Leads
    <3>9. \E v \in Digests : Pins(e, v)' BY <3>3 DEF Digests
    <3>10. QED BY <1>1, <2>1, <3>2, <3>3, <3>5, <3>8, <3>9 DEF PinnedOf
  <2>3. CASE ~Create(e)
    BY <1>1, <1>2, <2>1, <2>3, PinnedFrame DEF MovesOn
  <2>4. QED BY <2>2, <2>3
<1>5. QED BY <1>3, <1>4

-----------------------------------------------------------------------------
(* The worker                                                               *)

\* What is launched while the lead's digest is missing follows the lead.
LEMMA LeadFirst ==
  ASSUME TypeOK, GateInv, ImageInv, NEW d \in Deploys, NEW i \in Instances,
         worker[d][i].pc = "execute", run[d].pc \in {"first", "join"}, digest[d] = NoImage,
         NEW l \in Instances, Lead(d, l)
  PROVE  launched[d][l] > 0
<1>1. CASE run[d].digest # NoImage BY <1>1 DEF ImageInv, PromotedOf
<1>2. CASE run[d].digest = NoImage
  <2>1. run[d].pc = "first" BY <1>2 DEF ImageInv, PromotedOf
  <2>2. Lead(d, i) BY <2>1 DEF ImageInv, ResolvedOf
  <2>3. i = l BY <2>2, LeadIsOne
  <2>4. QED BY <2>3 DEF GateInv, AnswerOf
<1>3. QED BY <1>1, <1>2

\* Execute, the one action that pins.
LEMMA ExecuteImage ==
  ASSUME TypeOK, SafetyInv, GateInv, ImageInv, NEW d \in Deploys, NEW i \in Instances,
         UNCHANGED <<digest, run, launched, proc>>, Targets(d)' = Targets(d),
         worker[d][i].pc = "execute",
         NEW ok \in BOOLEAN, NEW resolved \in Resolves(d, i, ok),
         worker' = [worker EXCEPT ![d][i] = Stopped(ok, resolved)],
         pinned' = IF i \in Pinners THEN [pinned EXCEPT ![d][i] = resolved] ELSE pinned
  PROVE  PinnedOf(d)' /\ PromotedOf(d)' /\ ResolvedOf(d)'
<1> /\ worker \in [Deploys -> [Instances -> Workers]]
    /\ pinned \in [Deploys -> [Instances -> Digests]]
    /\ run[d] \in Runs /\ run[d].digest \in Digests
  BY RunTypes DEF TypeOK, RolloutOK, HistoryOK
<1> DEFINE r == run[d]
<1> USE DEF ImageInv
<1>1. launched[d][i] > 0 BY DEF GateInv, AnswerOf
<1>2. r.pc \in {"first", "join"} BY DEF SafetyInv, SlotInv
<1>3. \A l \in Instances : digest[d] = NoImage /\ Lead(d, l) => launched[d][l] > 0
  BY <1>2, LeadFirst
<1>4. \A l : Lead(d, l)' = Lead(d, l) BY LeadFrame
<1>5. resolved \in Digests
  BY DEF Resolves, Digests
<1>6. \A j \in Instances : pinned'[d][j] \in {pinned[d][j], resolved}
  OBVIOUS
<1>7. \A j \in Instances : launched[d][j] = 0 => pinned'[d][j] = NoImage
  BY <1>1 DEF PinnedOf
<1>8. /\ worker'[d][i] = Stopped(ok, resolved)
      /\ \A j \in Instances \ {i} : worker'[d][j] = worker[d][j]
  OBVIOUS
<1>9. CASE r.digest # NoImage
  <2>1. resolved = r.digest BY <1>9 DEF Resolves
  <2>2. Pins(d, r.digest) /\ digest[d] \in {NoImage, r.digest}
        /\ (digest[d] = NoImage => \A l \in Instances : Lead(d, l) => launched[d][l] > 0)
    BY <1>2, <1>9 DEF PromotedOf
  <2>3. Pins(d, r.digest)' BY <1>6, <2>1, <2>2 DEF Pins
  <2>4. PinnedOf(d)'
    <3>1. \E v \in Digests : Pins(d, v)' BY <2>3
    <3>2. digest'[d] # NoImage => Pins(d, digest[d])' BY <2>2, <2>3
    <3>3. QED BY <1>3, <1>4, <1>7, <3>1, <3>2 DEF PinnedOf
  <2>5. PromotedOf(d)' BY <1>4, <1>9, <2>2, <2>3 DEF PromotedOf
  <2>6. r.pc = "join" BY <1>2, <1>9 DEF ResolvedOf
  <2>7. ResolvedOf(d)'
    <3>1. ASSUME NEW j \in Instances, worker'[d][j].pc # "off"
          PROVE  /\ worker'[d][j].digest # NoImage => launched[d][j] > 0
                 /\ worker'[d][j].digest \in {NoImage, r.digest}
      <4>1. CASE j = i BY <1>1, <1>8, <2>1, <4>1 DEF Stopped
      <4>2. CASE j # i BY <1>8, <2>6, <3>1, <4>2 DEF ResolvedOf
      <4>3. QED BY <4>1, <4>2
    <3>2. QED BY <2>6, <3>1 DEF ResolvedOf
  <2>8. QED BY <2>4, <2>5, <2>7
<1>10. CASE r.digest = NoImage
  <2>1. r.pc = "first" /\ digest[d] = NoImage BY <1>2, <1>10 DEF PromotedOf
  <2>2. Lead(d, i) /\ ~Pinned(d) BY <2>1 DEF ResolvedOf
  <2>3. i \in Pinners BY <2>1, <2>2 DEF PinnedOf
  <2>4. ok => resolved # NoImage BY <1>10, <2>3, ImageAssumption DEF Resolves
  <2>5. Pins(d, resolved)' BY <1>6, <2>2 DEF Pins, Pinned
  <2>6. PinnedOf(d)'
    <3>1. \E v \in Digests : Pins(d, v)' BY <1>5, <2>5
    <3>2. \A l \in Instances : Lead(d, l)' => l \in Pinners /\ launched'[d][l] > 0
      BY <1>3, <1>4, <2>1 DEF PinnedOf
    <3>3. QED BY <1>7, <2>1, <3>1, <3>2 DEF PinnedOf
  <2>7. PromotedOf(d)' BY <1>10, <2>1 DEF PromotedOf
  <2>8. ResolvedOf(d)'
    <3>1. \A j \in Instances \ {i} : worker'[d][j].pc = "off"
      BY <1>8, <2>1 DEF GateInv, GateOf
    <3>2. QED BY <1>1, <1>4, <1>8, <1>10, <2>1, <2>2, <2>4, <2>5, <3>1 DEF ResolvedOf, Stopped
  <2>9. QED BY <2>6, <2>7, <2>8
<1>11. QED BY <1>9, <1>10

LEMMA WorkerImage ==
  ASSUME TypeOK, SafetyInv, GateInv, ImageInv, NEW d \in Deploys, NEW i \in Instances,
         WorkerStep(d, i), NEW e \in Deploys
  PROVE  PinnedOf(e)' /\ PromotedOf(e)' /\ ResolvedOf(e)'
<1> /\ worker \in [Deploys -> [Instances -> Workers]]
    /\ launched \in [Deploys -> [Instances -> Nat]]
    /\ pinned \in [Deploys -> [Instances -> Digests]]
  BY DEF TypeOK, RolloutOK, HistoryOK
<1> USE DEF ImageInv
<1>1. UNCHANGED <<digest, run, proc>> BY WorkerEffect
<1>2. Targets(e)' = Targets(e) BY WorkerTargets
<1>3. PICK w \in Workers, s \in Statuses \cup {NoRow} :
        worker' = [worker EXCEPT ![d][i] = w] /\ WorkerDoes(d, i, w, s)
  BY WorkerEffect
<1>4. CASE e # d
  <2>1. worker'[e] = worker[e] BY <1>3, <1>4
  <2>2. pinned'[e] = pinned[e] /\ launched'[e] = launched[e] BY <1>3, <1>4 DEF WorkerDoes
  <2>3. Unmoved(e) BY <1>1, <1>2, <2>2 DEF Unmoved, RootDone
  <2>4. QED BY <1>1, <2>1, <2>3, PinnedFrame, PromotedFrame, ResolvedFrame DEF Unmoved
<1>5. CASE e = d /\ worker[d][i].pc = "execute"
  <2>1. PICK ok \in BOOLEAN : \E resolved \in Resolves(d, i, ok) :
          /\ w = Stopped(ok, resolved) /\ UNCHANGED launched
          /\ pinned' = IF i \in Pinners THEN [pinned EXCEPT ![d][i] = resolved] ELSE pinned
    BY <1>3, <1>5 DEF WorkerDoes
  <2>2. PICK resolved \in Resolves(d, i, ok) :
          /\ w = Stopped(ok, resolved) /\ UNCHANGED launched
          /\ pinned' = IF i \in Pinners THEN [pinned EXCEPT ![d][i] = resolved] ELSE pinned
    BY <2>1
  <2>3. QED BY <1>1, <1>2, <1>3, <1>5, <2>2, ExecuteImage
<1>6. CASE e = d /\ worker[d][i].pc # "execute"
  <2>1. UNCHANGED pinned BY <1>3, <1>6 DEF WorkerDoes
  <2>2. /\ \A l : Lead(d, l)' = Lead(d, l)
        /\ \A v : Pins(d, v)' = Pins(d, v)
        /\ Pinned(d)' = Pinned(d)
    BY <1>2, <1>6, <2>1, LeadFrame, PinsFrame
  <2>3. \A j \in Instances : launched[d][j] > 0 => launched'[d][j] > 0
    <3>1. UNCHANGED launched \/ launched' = [launched EXCEPT ![d][i] = @ + 1]
      BY <1>3, <1>6 DEF WorkerDoes
    <3>2. QED BY <3>1
  <2>4. \A j \in Instances : launched[d][j] \in Nat /\ launched'[d][j] \in Nat
    <3>1. UNCHANGED launched \/ launched' = [launched EXCEPT ![d][i] = @ + 1]
      BY <1>3, <1>6 DEF WorkerDoes
    <3>2. QED BY <3>1
  <2>5. PinnedOf(d)' BY <1>1, <2>1, <2>2, <2>3, <2>4 DEF PinnedOf
  <2>6. PromotedOf(d)' BY <1>1, <1>2, <1>6, <2>2, <2>3 DEF PromotedOf, Gated, RootDone
  <2>7. ResolvedOf(d)'
    <3>1. \A j \in Instances \ {i} : worker'[d][j] = worker[d][j] BY <1>3
    <3>2. worker'[d][i] = w /\ worker[d][i].pc # "off" BY <1>3 DEF WorkerDoes
    <3>3. \/ w.ok = worker[d][i].ok /\ w.digest = worker[d][i].digest
          \/ w = Stopped(FALSE, NoImage)
      BY <1>3, <1>6 DEF WorkerDoes, Workers
    <3>4. w.pc = "execute" => worker[d][i].pc = "acquire" /\ exec[d][i] = "dispatching"
      BY <1>3, <1>6 DEF WorkerDoes, Workers, Stopped
    <3>5. ASSUME run[d].pc = "first", w.pc = "execute" PROVE ~Pinned(d)
      <4>1. launched[d][i] = 0
        BY <3>4, <3>5 DEF SafetyInv, LaunchInv, TypeOK, HistoryOK
      <4>2. Lead(d, i) /\ run[d].digest = NoImage BY <3>2, <3>5 DEF ResolvedOf
      <4>3. digest[d] = NoImage BY <3>5, <4>2 DEF PromotedOf
      <4>4. QED BY <4>1, <4>2, <4>3 DEF PinnedOf
    <3>6. ASSUME NEW j \in Instances, worker'[d][j].pc # "off"
          PROVE  /\ worker'[d][j].digest # NoImage => launched'[d][j] > 0
                 /\ run[d].pc = "join" => worker'[d][j].digest \in {NoImage, run[d].digest}
                 /\ run[d].pc = "first" =>
                      /\ run[d].digest = NoImage /\ Lead(d, j)
                      /\ worker'[d][j].pc = "execute" => ~Pinned(d)
                      /\ worker'[d][j].digest # NoImage => Pins(d, worker'[d][j].digest)
                      /\ worker'[d][j].ok => worker'[d][j].digest # NoImage
      <4>1. CASE j = i
        <5>1. CASE w = Stopped(FALSE, NoImage)
          BY <3>2, <4>1, <5>1 DEF ResolvedOf, Stopped
        <5>2. CASE w.ok = worker[d][i].ok /\ w.digest = worker[d][i].digest
          BY <2>3, <3>2, <3>5, <4>1, <5>2 DEF ResolvedOf
        <5>3. QED BY <3>3, <5>1, <5>2
      <4>2. CASE j # i BY <2>3, <3>1, <3>6, <4>2 DEF ResolvedOf
      <4>3. QED BY <4>1, <4>2
    <3>7. QED BY <1>1, <2>2, <3>6 DEF ResolvedOf
  <2>8. QED BY <1>6, <2>5, <2>6, <2>7
<1>7. QED BY <1>4, <1>5, <1>6

-----------------------------------------------------------------------------
(* The loop                                                                 *)

LEMMA JoinImage ==
  ASSUME TypeOK, SafetyInv, ImageInv, NEW d \in Deploys, JoinFirst(d)
  PROVE  PinnedOf(d)' /\ PromotedOf(d)'
<1> /\ run \in [Deploys -> Runs] /\ run[d] \in Runs
    /\ digest \in [Deploys -> Digests] /\ worker \in [Deploys -> [Instances -> Workers]]
  BY DEF TypeOK, RolloutOK, RowsOK
<1> USE DEF ImageInv
<1>1. PICK i \in Instances :
        /\ worker[d][i].pc = "done"
        /\ LET new == Promoted(d, worker[d][i].digest)
           IN  /\ run'[d] = [run[d] EXCEPT !.pc = "fan", !.digest = new,
                                           !.failed = ~worker[d][i].ok]
               /\ digest'[d] \in {new, digest[d]}
  BY DEF JoinFirst, Becomes
<1>2. run[d].pc = "first" /\ UNCHANGED <<exec, launched, pinned, proc>>
  BY DEF JoinFirst, At, history, ByLoop
<1>3. run[d].digest = NoImage /\ Lead(d, i) BY <1>1, <1>2 DEF ResolvedOf
<1>4. digest[d] = NoImage BY <1>2, <1>3 DEF PromotedOf
<1> DEFINE new == worker[d][i].digest
<1>5. run'[d] = [run[d] EXCEPT !.pc = "fan", !.digest = new, !.failed = ~worker[d][i].ok]
      /\ digest'[d] \in {new, NoImage}
  BY <1>1, <1>3, <1>4 DEF Promoted
<1>6. run'[d].pc = "fan" /\ run'[d].digest = new /\ run'[d].failed = ~worker[d][i].ok
  BY <1>5 DEF Runs
<1>7. new # NoImage => Pins(d, new) /\ launched[d][i] > 0 BY <1>1, <1>2 DEF ResolvedOf
<1>8. worker[d][i].ok => new # NoImage BY <1>1, <1>2 DEF ResolvedOf
<1>9. Targets(d)' = Targets(d) BY <1>2 DEF Targets
<1>10. /\ \A l : Lead(d, l)' = Lead(d, l)
       /\ \A v : Pins(d, v)' = Pins(d, v)
       /\ Pinned(d)' = Pinned(d)
  BY <1>2, <1>9, LeadFrame, PinsFrame
<1>11. PinnedOf(d)' BY <1>2, <1>4, <1>5, <1>7, <1>10 DEF PinnedOf
<1>12. PromotedOf(d)'
  <2>1. new # NoImage => \A l \in Instances : Lead(d, l) => launched[d][l] > 0
    BY <1>3, <1>7, LeadIsOne
  <2>2. CASE new # NoImage
    BY <1>2, <1>5, <1>6, <1>7, <1>10, <2>1, <2>2 DEF PromotedOf
  <2>3. CASE new = NoImage BY <1>5, <1>6, <1>8, <2>3 DEF PromotedOf
  <2>4. QED BY <2>2, <2>3
<1>13. QED BY <1>11, <1>12

\* What a step of the loop that neither joins the first instance nor hands over
\* does to the image of its own deploy.
LEMMA OwnImage ==
  ASSUME TypeOK, SafetyInv, GateInv, ImageInv, NEW d \in Deploys, LoopStep(d),
         ~JoinFirst(d), ~NextDeploy(d), ~Cleanup(d), Targets(d)' = Targets(d)
  PROVE  PromotedOf(d)' /\ ResolvedOf(d)'
<1> DEFINE r == run[d]
<1> /\ run \in [Deploys -> Runs] /\ r \in Runs
    /\ worker \in [Deploys -> [Instances -> Workers]]
  BY DEF TypeOK, RolloutOK
<1> USE DEF ImageInv
<1>1. UNCHANGED <<launched, pinned, proc>> BY LoopEffect
<1>2. UNCHANGED digest
  BY DEF LoopStep, Load, LoadFails, CancelWave, FirstAlone, WholeWave, FanOut, Join, FanDone,
     CancelOne, SweepDone, LastWaveDone, EndWave, db
<1>3. /\ \A l : Lead(d, l)' = Lead(d, l)
      /\ \A v : Pins(d, v)' = Pins(d, v)
      /\ Pinned(d)' = Pinned(d)
  BY <1>1, LeadFrame, PinsFrame
<1>4. r.pc \notin {"first", "join"} => \A i \in Instances : worker[d][i].pc = "off"
  BY DEF SafetyInv, SlotInv
<1> DEFINE Idle == \A i \in Instances : worker'[d][i].pc = "off"
<1>5. Idle => ResolvedOf(d)' BY DEF ResolvedOf
\* The digest stands, and where it is missing the gate is shut.
<1>6. ASSUME r.pc \notin {"off", "load", "next"}, run'[d].digest = r.digest,
             r.digest = NoImage =>
               /\ run'[d].pc = "wave" /\ ~Gated(d)' =>
                    run'[d].waves = {WaveOf[d][i] : i \in Targets(d)}
               /\ run'[d].pc = "fan" => run'[d].failed
               /\ run'[d].pc # "join"
      PROVE  PromotedOf(d)'
  BY <1>1, <1>2, <1>3, <1>6 DEF PromotedOf
<1>7. CASE Load(d)
  <2>1. r.pc = "load" /\ UNCHANGED worker BY <1>7 DEF Load, At
  <2>2. Idle BY <1>4, <2>1
  <2>3. CASE dstatus[d] = "queued" /\ Targets(d) # {}
    <3>1. /\ run'[d].pc = "wave" /\ run'[d].digest = digest[d]
          /\ run'[d].waves = {WaveOf[d][i] : i \in Targets(d)}
      BY <1>7, <2>3 DEF Load, Becomes
    <3>2. digest[d] # NoImage => Pins(d, digest[d]) BY DEF PinnedOf
    <3>3. PromotedOf(d)' BY <1>2, <1>3, <3>1, <3>2 DEF PromotedOf
    <3>4. QED BY <1>5, <2>2, <3>3
  <2>4. CASE ~(dstatus[d] = "queued" /\ Targets(d) # {})
    <3>1. run'[d].pc = "next" BY <1>7, <2>4 DEF Load, Goto, Becomes, Runs
    <3>2. QED BY <2>2, <3>1, ImageIdle
  <2>5. QED BY <2>3, <2>4
<1>8. CASE LoadFails(d)
  <2>1. r.pc = "load" /\ UNCHANGED worker BY <1>8 DEF LoadFails, At
  <2>2. run'[d].pc = "next" BY <1>8 DEF LoadFails, Goto, Becomes, Runs
  <2>3. QED BY <1>4, <2>1, <2>2, ImageIdle
<1>9. CASE CancelWave(d) \/ WholeWave(d)
  <2>1. PICK w \in r.waves, pc \in {"sweep", "fan"} :
          /\ run'[d] = [r EXCEPT !.waves = @ \ {w}, !.pc = pc, !.todo = WaveMembers(d, w)]
          /\ pc = "fan" => r.digest # NoImage
    BY <1>9 DEF CancelWave, WholeWave, Begun, Becomes
  <2>2. r.pc = "wave" /\ UNCHANGED worker BY <1>9 DEF CancelWave, WholeWave, NextWave, At
  <2>3. run'[d].pc = pc /\ run'[d].digest = r.digest BY <2>1 DEF Runs
  <2>4. QED BY <1>4, <1>5, <1>6, <2>1, <2>2, <2>3
<1>10. CASE FirstAlone(d)
  <2>w. PICK w \in r.waves : \E first \in WaveMembers(d, w) :
          /\ NextWave(d, w) /\ First(first, WaveMembers(d, w))
          /\ Begun(d, w, "first", WaveMembers(d, w) \ {first})
          /\ worker' = [worker EXCEPT ![d][first] = Spawned]
    BY <1>10 DEF FirstAlone
  <2>1. PICK first \in Instances :
          /\ First(w, r.waves) /\ first \in WaveMembers(d, w) /\ First(first, WaveMembers(d, w))
          /\ run'[d] = [r EXCEPT !.waves = @ \ {w}, !.pc = "first",
                                 !.todo = WaveMembers(d, w) \ {first}]
          /\ worker' = [worker EXCEPT ![d][first] = Spawned]
    <3>1. PICK first \in WaveMembers(d, w) :
            /\ NextWave(d, w) /\ First(first, WaveMembers(d, w))
            /\ Begun(d, w, "first", WaveMembers(d, w) \ {first})
            /\ worker' = [worker EXCEPT ![d][first] = Spawned]
      BY <2>w
    <3>2. first \in Instances BY DEF WaveMembers, Targets
    <3>3. QED BY <3>1, <3>2 DEF Begun, Becomes, NextWave
  <2>2. r.pc = "wave" /\ ~Gated(d) /\ r.digest = NoImage BY <1>10 DEF FirstAlone, NextWave, At
  <2>3. run'[d].pc = "first" /\ run'[d].digest = r.digest BY <2>1 DEF Runs
  <2>4. r.waves = {WaveOf[d][i] : i \in Targets(d)} BY <2>2 DEF PromotedOf
  <2>5. Lead(d, first)
    <3>1. first \in Targets(d) /\ WaveOf[d][first] = w BY <2>1 DEF WaveMembers
    <3>2. \A j \in Targets(d) : w <= WaveOf[d][j] BY <2>1, <2>4 DEF First
    <3>3. \A j \in Targets(d) : WaveOf[d][j] = w => first <= j BY <2>1 DEF First, WaveMembers, Targets
    <3>4. QED BY <3>1, <3>2, <3>3 DEF Lead, Leads
  <2>6. /\ worker'[d][first] = Spawned
        /\ \A i \in Instances \ {first} : worker'[d][i].pc = "off"
    BY <1>4, <2>1, <2>2
  <2>7. ResolvedOf(d)'
    BY <1>3, <2>2, <2>3, <2>5, <2>6 DEF ResolvedOf, Spawned, NoWorker
  <2>8. QED BY <1>6, <2>2, <2>3, <2>7
<1>11. CASE FanOut(d)
  <2>1. /\ r.pc = "fan" /\ ~r.failed /\ run'[d] = [r EXCEPT !.pc = "join", !.todo = {}]
        /\ \A i \in Instances : worker'[d][i] \in {Spawned, NoWorker}
    BY <1>11 DEF FanOut, At, Becomes
  <2>2. run'[d].pc = "join" /\ run'[d].digest = r.digest BY <2>1 DEF Runs
  <2>3. r.digest # NoImage BY <2>1 DEF PromotedOf
  <2>4. ResolvedOf(d)' BY <2>1, <2>2 DEF ResolvedOf, Spawned, NoWorker
  <2>5. QED BY <1>6, <2>1, <2>2, <2>3, <2>4
<1>12. CASE Join(d)
  <2>1. r.pc = "join" /\ Idle BY <1>12 DEF Join, Collected, NoWorker, At
  <2>2. PICK failed : run'[d] = [r EXCEPT !.pc = "wave", !.failed = failed]
    BY <1>12 DEF Join, Becomes
  <2>3. run'[d].digest = r.digest BY <2>2 DEF Runs
  <2>4. r.digest # NoImage BY <2>1 DEF PromotedOf
  <2>5. QED BY <1>5, <1>6, <2>1, <2>3, <2>4
<1>13. CASE FanDone(d) \/ SweepDone(d)
  <2>1. r.pc \in {"fan", "sweep"} /\ UNCHANGED worker /\ run'[d] = [r EXCEPT !.pc = "wave"]
    BY <1>13 DEF FanDone, SweepDone, At, Goto, Becomes
  <2>2. run'[d].digest = r.digest /\ run'[d].failed = r.failed BY <2>1 DEF Runs
  <2>3. r.digest = NoImage => Gated(d) BY <2>1 DEF PromotedOf, GateInv, GateOf, Gated
  <2>4. Gated(d) => Gated(d)' BY <1>1, <2>2 DEF Gated, RootDone
  <2>5. Idle BY <1>4, <2>1
  <2>6. run'[d].pc = "wave" BY <2>1 DEF Runs
  <2>7. QED BY <1>5, <1>6, <2>1, <2>2, <2>3, <2>4, <2>5, <2>6
<1>14. CASE LastWaveDone(d)
  <2>1. r.pc = "wave" /\ UNCHANGED worker /\ run'[d] = [r EXCEPT !.pc = "clean"]
    BY <1>14 DEF LastWaveDone, At, Goto, Becomes
  <2>2. run'[d].digest = r.digest /\ run'[d].pc = "clean" BY <2>1 DEF Runs
  <2>3. QED BY <1>4, <1>5, <1>6, <2>1, <2>2
<1>15. CASE CancelOne(d)
  <2>1. r.pc \in {"fan", "sweep"} /\ UNCHANGED worker BY <1>15 DEF CancelOne, At
  <2>2. PICK i : run'[d] = [r EXCEPT !.todo = @ \ {i}] BY <1>15 DEF CancelOne, Becomes
  <2>3. run'[d].pc = r.pc /\ run'[d].digest = r.digest /\ run'[d].failed = r.failed
    BY <2>2 DEF Runs
  <2>4. r.digest = NoImage /\ r.pc = "fan" => r.failed BY DEF PromotedOf
  <2>5. QED BY <1>4, <1>5, <1>6, <2>1, <2>3, <2>4
<1>16. QED
  BY <1>7, <1>8, <1>9, <1>10, <1>11, <1>12, <1>13, <1>14, <1>15 DEF LoopStep

LEMMA LoopImage ==
  ASSUME TypeOK, SafetyInv, GateInv, HandInv, LoopInv, ImageInv, NEW d \in Deploys, LoopStep(d),
         NEW e \in Deploys
  PROVE  PinnedOf(e)' /\ PromotedOf(e)' /\ ResolvedOf(e)'
<1> /\ run \in [Deploys -> Runs] /\ digest \in [Deploys -> Digests]
  BY DEF TypeOK, RolloutOK, RowsOK
<1> USE DEF ImageInv
<1>1. UNCHANGED <<launched, pinned, proc, handler>> /\ On(d) BY LoopEffect
<1>2. Targets(e)' = Targets(e) \/ (Targets(e)' = {} /\ Cleanup(d))
  <2>1. UNCHANGED exec \/ CancelOne(d) \/ Cleanup(d)
    BY DEF LoopStep, Load, LoadFails, CancelWave, FirstAlone, WholeWave, JoinFirst, FanOut,
       Join, FanDone, SweepDone, LastWaveDone, NextDeploy, EndWave, db
  <2>2. CASE UNCHANGED exec BY <2>2 DEF Targets
  <2>3. CASE CancelOne(d)
    <3>1. PICK i \in Instances : \/ (exec' = [exec EXCEPT ![d][i] = "canceled"] /\ exec[d][i] = "queued")
                               \/ exec' = exec
      BY <2>3, RunTypes DEF CancelOne, StillIn, TypeOK
    <3>2. QED BY <3>1 DEF TypeOK, RowsOK, Targets, NoRow
  <2>4. CASE Cleanup(d) BY <2>4 DEF Cleanup, Targets
  <2>5. QED BY <2>1, <2>2, <2>3, <2>4
<1>3. digest'[e] = digest[e] \/ (e = d /\ JoinFirst(d))
  <2>1. CASE JoinFirst(d)
    <3>1. PICK new : digest' = [digest EXCEPT ![d] = new] \/ digest' = digest BY <2>1 DEF JoinFirst
    <3>2. e # d => digest'[e] = digest[e] BY <3>1
    <3>3. QED BY <2>1, <3>2
  <2>2. CASE ~JoinFirst(d)
    BY <2>2 DEF LoopStep, Load, LoadFails, CancelWave, FirstAlone, WholeWave, FanOut, Join,
       FanDone, CancelOne, SweepDone, LastWaveDone, Cleanup, NextDeploy, EndWave, db
  <2>3. QED BY <2>1, <2>2
<1>4. ASSUME ~(e = d /\ JoinFirst(d)) PROVE PinnedOf(e)'
  <2>1. digest'[e] = digest[e] BY <1>3, <1>4
  <2>2. Targets(e)' = Targets(e) \/ Targets(e)' = {} BY <1>2
  <2>3. QED BY <1>1, <2>1, <2>2, PinnedFrame
<1>5. CASE e # d
  <2>1. run'[e].pc \in {"off", "load"} /\ \A i \in Instances : worker'[e][i].pc = "off"
    BY <1>5, LoopEffect
  <2>2. QED BY <1>4, <1>5, <2>1, ImageIdle
<1>6. CASE e = d /\ JoinFirst(d)
  <2>1. ResolvedOf(d)'
    <3>1. \A i \in Instances : worker'[d][i].pc = "off"
      BY <1>6 DEF JoinFirst, Collected, NoWorker, TypeOK, RolloutOK
    <3>2. QED BY <3>1 DEF ResolvedOf
  <2>2. QED BY <1>6, <2>1, JoinImage
<1>7. CASE e = d /\ (NextDeploy(d) \/ Cleanup(d))
  <2>1. run'[d].pc \in {"off", "next"} /\ run[d].pc \in {"clean", "next"} /\ UNCHANGED worker
    <3>1. CASE NextDeploy(d)
      <4>1. pending # d BY <1>1 DEF HandInv
      <4>2. QED BY <3>1, <4>1 DEF NextDeploy, NoRun, At
    <3>2. CASE Cleanup(d) BY <3>2 DEF Cleanup, At, Goto, Becomes, Runs
    <3>3. QED BY <1>7, <3>1, <3>2
  <2>2. \A i \in Instances : worker'[d][i].pc = "off"
    BY <2>1 DEF SafetyInv, SlotInv
  <2>3. ~JoinFirst(d) BY <2>1 DEF JoinFirst, At
  <2>4. PinnedOf(d)' BY <1>4, <1>7, <2>3
  <2>5. QED BY <1>7, <2>1, <2>2, <2>4, ImageIdle
<1>8. CASE e = d /\ ~JoinFirst(d) /\ ~NextDeploy(d) /\ ~Cleanup(d)
  <2>1. Targets(d)' = Targets(d) BY <1>2, <1>8
  <2>2. QED BY <1>4, <1>8, <2>1, OwnImage
<1>9. QED BY <1>5, <1>6, <1>7, <1>8

-----------------------------------------------------------------------------
(* Theorem                                                                  *)

LEMMA ImageStep ==
  ASSUME LeadsPin, TypeOK, SafetyInv, GateInv, RowsInv, ImageInv, [Next]_vars PROVE ImageInv'
<1> USE DEF RowsInv, ImageInv
<1> SUFFICES ASSUME NEW e \in Deploys PROVE PinnedOf(e)' /\ PromotedOf(e)' /\ ResolvedOf(e)'
  OBVIOUS
<1>1. ASSUME Unmoved(e), digest'[e] = digest[e], run'[e] = run[e], worker'[e] = worker[e]
      PROVE  PinnedOf(e)' /\ PromotedOf(e)' /\ ResolvedOf(e)'
  BY <1>1, PinnedFrame, PromotedFrame, ResolvedFrame DEF Unmoved
<1>2. ASSUME Unmoved(e), digest'[e] = digest[e], run'[e].pc \in {"off", "load"},
             \A i \in Instances : worker'[e][i].pc = "off"
      PROVE  PinnedOf(e)' /\ PromotedOf(e)' /\ ResolvedOf(e)'
  BY <1>2, PinnedFrame, ImageIdle DEF Unmoved
<1>3. CASE \E d \in Deploys : Handler(d) BY <1>3, HandlerImage
<1>4. CASE \E d \in Deploys : LoopStep(d) BY <1>4, LoopImage
<1>5. CASE \E d \in Deploys, i \in Instances : WorkerStep(d, i) BY <1>5, WorkerImage
<1>6. CASE \E d \in Deploys, p \in Members : RecomputeStep(d, p)
  <2>1. UNCHANGED <<exec, digest, run, worker, launched, pinned, proc>> BY <1>6, RecomputeEffect
  <2>2. Unmoved(e) BY <2>1 DEF Unmoved, Targets, RootDone
  <2>3. QED BY <1>1, <2>1, <2>2
<1>7. CASE Recovery
  <2>1. /\ UNCHANGED <<digest, worker, history>> /\ proc = "recovering"
        /\ Targets(e)' = Targets(e) /\ ~On(e) /\ (\A i \in Instances : worker[e][i].pc = "off")
        /\ run'[e] = run[e] \/ run'[e].pc = "load"
    BY <1>7, RecoveryEffect
  <2>2. Unmoved(e) BY <2>1 DEF Unmoved, RootDone, history
  <2>3. QED BY <1>2, <2>1, <2>2 DEF On
<1>8. CASE Wire \/ Start \/ Stop \/ AllServed \/ UNCHANGED vars
  <2>1. UNCHANGED <<exec, digest, run, worker, launched, pinned>> /\ (RootDone => RootDone')
    BY <1>8 DEF Wire, Start, Stop, AllServed, vars, db, rollout, history, RootDone
  <2>2. Unmoved(e) BY <2>1 DEF Unmoved, Targets
  <2>3. QED BY <1>1, <2>1, <2>2
<1>9. CASE Crash \/ Exit
  <2>1. UNCHANGED <<exec, digest, launched, pinned>> BY <1>9 DEF Crash, Exit, Dies, db, history
  <2>2. run'[e].pc = "off" /\ \A i \in Instances : worker'[e][i].pc = "off"
    BY <1>9 DEF Crash, Exit, Dies, NoRun, NoWorker
  <2>3. Targets(e)' = Targets(e) BY <2>1 DEF Targets
  <2>4. PinnedOf(e)' BY <2>1, <2>3, PinnedFrame
  <2>5. QED BY <2>2, <2>4, ImageIdle
<1>10. QED BY <1>3, <1>4, <1>5, <1>6, <1>7, <1>8, <1>9 DEF Next

LEMMA InitImage == ASSUME Init PROVE ImageInv
<1>1. ASSUME NEW d \in Deploys PROVE PinnedOf(d) /\ PromotedOf(d) /\ ResolvedOf(d)
  <2>1. \A i : ~Lead(d, i) BY DEF Init, Lead, Leads, Targets
  <2>2. \A v : Pins(d, v) BY DEF Init, Pins
  <2>3. NoImage \in Digests BY DEF Digests
  <2>4. PinnedOf(d) BY <2>1, <2>2, <2>3 DEF Init, PinnedOf
  <2>5. PromotedOf(d) /\ ResolvedOf(d)
    BY DEF Init, NoGoroutines, NoRun, NoWorker, PromotedOf, ResolvedOf
  <2>6. QED BY <2>4, <2>5
<1>2. QED BY <1>1 DEF ImageInv

\* If the first instance of the first wave is one that pins, every instance of
\* a rollout that pins an image pins the same one, also across a crash between
\* the lead's pin and the row that remembers it.  (Otherwise the instances of
\* a later wave may start in parallel and each resolve :latest for itself.)
THEOREM SameImage == ASSUME LeadsPin PROVE Spec => []OneImage
<1>1. Init => ImageInv BY InitImage
<1>2. TypeOK /\ SafetyInv /\ GateInv /\ RowsInv /\ ImageInv /\ [Next]_vars => ImageInv'
  BY ImageStep
<1>3. ImageInv => OneImage
  <2>1. ASSUME ImageInv, NEW d \in Deploys, NEW i \in Instances, NEW j \in Instances,
               pinned[d][i] # NoImage, pinned[d][j] # NoImage
        PROVE  pinned[d][i] = pinned[d][j]
    <3>1. PICK v \in Digests : Pins(d, v) BY <2>1 DEF ImageInv, PinnedOf
    <3>2. QED BY <2>1, <3>1 DEF Pins
  <2>2. QED BY <2>1 DEF OneImage
<1>4. QED BY <1>1, <1>2, <1>3, TypeCorrect, Safety, GateHolds, RowsHold, PTL DEF Spec

-----------------------------------------------------------------------------
(***************************************************************************)
(* Until something fails the service keeps its lane: LaneInv is inductive, *)
(* and under it Rollout implements DeployLane.                             *)
(***************************************************************************)

\* A deploy that nobody touches keeps what StoredOf says of it.
LEMMA StoredFrame ==
  ASSUME NEW e \in Deploys, StoredOf(e), Targets(e)' = Targets(e),
         dstatus'[e] = dstatus[e], finished'[e] = finished[e],
         \A p \in Members : rc'[e][p].pc = "write" => rc'[e][p] = rc[e][p],
         handler'[e] \in {"stored", "superseding"} =>
           handler[e] \in {"stored", "superseding"} /\ exec'[e] = exec[e]
  PROVE  StoredOf(e)'
  BY DEF StoredOf, Untried

LEMMA StoredSuperseded ==
  ASSUME TypeOK, NEW e \in Deploys, StoredOf(e), NEW d \in Deploys, SupersedeRow(d),
         exec'[e] = exec[e], \A p \in Members : rc'[e][p].pc = "write" => rc'[e][p] = rc[e][p],
         handler'[e] \in {"stored", "superseding"} => handler[e] \in {"stored", "superseding"}
  PROVE  StoredOf(e)'
<1>1. Targets(e)' = Targets(e) BY DEF Targets
<1>2. CASE dstatus'[e] = dstatus[e] /\ finished'[e] = finished[e]
  BY <1>1, <1>2, StoredFrame
<1>3. CASE dstatus'[e] = "superseded" /\ finished'[e]
  BY <1>1, <1>3 DEF StoredOf, Untried
<1>4. QED BY <1>2, <1>3 DEF SupersedeRow, TypeOK, RowsOK

LEMMA StoredWritten ==
  ASSUME TypeOK, RowInv, NEW e \in Deploys, StoredOf(e), NEW d \in Deploys,
         NEW agg \in Statuses, NEW over \in BOOLEAN, WriteDeploy(d, agg, over), exec'[e] = exec[e],
         over => Terminal(agg), Targets(d) # {}, agg = "queued" => ~finished[d],
         \A p \in Members : rc'[e][p].pc = "write" => rc'[e][p] = rc[e][p],
         handler'[e] = handler[e]
  PROVE  StoredOf(e)'
<1>1. Targets(e)' = Targets(e) BY DEF Targets
<1>2. ~Terminal("queued") BY DEF Terminal, TerminalStatuses
<1>3. CASE dstatus'[e] = dstatus[e] /\ finished'[e] = finished[e]
  BY <1>1, <1>3 DEF StoredOf, Untried
<1>4. CASE e = d
  <2>1. CASE over /\ ~finished[d]
    <3>1. dstatus'[d] = agg /\ finished'[d] BY <2>1 DEF WriteDeploy, CanFinish, TypeOK, RowsOK
    <3>2. QED BY <1>1, <1>2, <1>4, <2>1, <3>1 DEF StoredOf, Untried
  <2>2. CASE over /\ finished[d] BY <1>3, <1>4, <2>2 DEF WriteDeploy, CanFinish
  <2>3. CASE ~over
    <3>1. dstatus'[d] = agg /\ finished'[d] = finished[d] BY <2>3 DEF WriteDeploy, TypeOK, RowsOK
    <3>2. QED BY <1>1, <1>4, <3>1 DEF StoredOf, Untried
  <2>4. QED BY <2>1, <2>2, <2>3
<1>5. CASE e # d BY <1>3, <1>5 DEF WriteDeploy, TypeOK, RowsOK
<1>6. QED BY <1>4, <1>5

\* Executions of which one is not queued do not aggregate to queued.
LEMMA AggregateQueued ==
  ASSUME NEW S \in SUBSET Statuses, AggregateStatus(S) = "queued" PROVE S \subseteq {"queued"}
  BY DEF AggregateStatus

LEMMA HandlerStored ==
  ASSUME TypeOK, SafetyInv, HandInv, NEW d \in Deploys, Handler(d), NEW e \in Deploys, StoredOf(e)
  PROVE  StoredOf(e)'
<1> /\ handler \in [Deploys -> HandlerPcs] /\ pending \in Deploys \cup {None}
    /\ dstatus \in [Deploys -> Statuses \cup {NoRow}] /\ finished \in [Deploys -> BOOLEAN]
    /\ exec \in [Deploys -> [Instances -> Statuses \cup {NoRow}]]
  BY DEF TypeOK, ProcessOK, RowsOK
<1>1. UNCHANGED rc
  BY DEF Handler, Build, CreateBroken, Create, CreateFails, EnqueueFree, EnqueueWait,
     EnqueueReplace, EnqueueReplaced, ReplaceFails, rollout
<1>2. CASE Create(d)
  <2>1. CASE e = d
    <3>1. ~finished[d] BY <1>2 DEF SafetyInv, BornInv, Unborn, Untouched, Create
    <3>2. PICK t \in Triggers[d] : exec' = [exec EXCEPT ![d] =
                     [i \in Instances |-> IF i \in t.targets THEN "queued" ELSE NoRow]]
      BY <1>2 DEF Create
    <3>3. t.targets # {} /\ t.targets \subseteq Instances BY TriggerAssumption
    <3>4. Untried(d)' BY <3>2, <3>3 DEF Untried, Targets, NoRow
    <3>5. finished'[d] = finished[d] BY <1>2 DEF Create
    <3>6. QED BY <1>1, <2>1, <3>1, <3>4, <3>5 DEF StoredOf, Untried
  <2>2. CASE e # d
    <3>1. exec'[e] = exec[e] /\ dstatus'[e] = dstatus[e] /\ finished'[e] = finished[e]
          /\ handler'[e] = handler[e]
      BY <1>2, <2>2 DEF Create
    <3>2. QED BY <1>1, <3>1, StoredFrame DEF Targets
  <2>3. QED BY <2>1, <2>2
<1>3. CASE CreateBroken(d)
  <2>1. CASE e = d BY <1>1, <1>3, <2>1 DEF CreateBroken, StoredOf
  <2>2. CASE e # d
    <3>1. exec'[e] = exec[e] /\ dstatus'[e] = dstatus[e] /\ finished'[e] = finished[e]
          /\ handler'[e] = handler[e]
      BY <1>3, <2>2 DEF CreateBroken
    <3>2. QED BY <1>1, <3>1, StoredFrame DEF Targets
  <2>3. QED BY <2>1, <2>2
<1>4. CASE EnqueueReplace(d)
  <2>1. Targets(e)' = Targets(e) BY <1>4, SweepTargets DEF EnqueueReplace, Statuses, NoRow
  <2>2. ASSUME e # pending PROVE exec'[e] = exec[e] BY <1>4, <2>2 DEF EnqueueReplace, Sweep
  <2>3. handler'[e] \in {"stored", "superseding"} => handler[e] \in {"stored", "superseding"}
    BY <1>4 DEF EnqueueReplace
  <2>4. handler[e] \in {"stored", "superseding"} => e # pending BY DEF HandInv
  <2>5. dstatus'[e] = dstatus[e] /\ finished'[e] = finished[e] BY <1>4 DEF EnqueueReplace
  <2>6. QED BY <1>1, <2>1, <2>2, <2>3, <2>4, <2>5, StoredFrame
<1>5. CASE EnqueueReplaced(d)
  <2>1. pending \in Deploys BY <1>5 DEF EnqueueReplaced, HandInv
  <2>2. QED BY <1>1, <1>5, <2>1, StoredSuperseded DEF EnqueueReplaced
<1>6. CASE Build(d) \/ CreateFails(d) \/ EnqueueFree(d) \/ EnqueueWait(d) \/ ReplaceFails(d)
  <2>1. UNCHANGED db BY <1>6 DEF Build, CreateFails, EnqueueFree, EnqueueWait, ReplaceFails
  <2>2. handler'[e] \in {"stored", "superseding"} => handler[e] \in {"stored", "superseding"}
    BY <1>6 DEF Build, CreateFails, EnqueueFree, EnqueueWait, ReplaceFails
  <2>3. QED BY <1>1, <2>1, <2>2, StoredFrame DEF db, Targets
<1>7. QED BY <1>2, <1>3, <1>4, <1>5, <1>6 DEF Handler

\* What a loop may do to the rows and recomputes.
LEMMA LoopRows ==
  ASSUME TypeOK, SafetyInv, NEW d \in Deploys, LoopStep(d), NEW e \in Deploys
  PROVE  /\ \A p \in Members : rc'[e][p].pc # "idle" => rc'[e][p] = rc[e][p] \/ rc'[e][p].pc = "read"
         /\ \/ dstatus'[e] = dstatus[e] /\ MovesOn(e) /\ (e # d => exec'[e] = exec[e])
            \/ Cleanup(d) /\ e \in Expired /\ Deleted(e) /\ dstatus'[e] = NoRow
<1> /\ rc \in [Deploys -> [Members -> Recomputes]]
    /\ exec \in [Deploys -> [Instances -> Statuses \cup {NoRow}]]
  BY DEF TypeOK, RolloutOK, RowsOK
<1>1. UNCHANGED rc \/ rc' = [rc EXCEPT ![d][Loop] = Recompute]
  BY DEF LoopStep, Load, LoadFails, CancelWave, FirstAlone, WholeWave, JoinFirst, FanOut,
     Join, FanDone, CancelOne, SweepDone, LastWaveDone, Cleanup, NextDeploy, EndWave
<1>2. \A p \in Members : rc'[e][p].pc # "idle" => rc'[e][p] = rc[e][p] \/ rc'[e][p].pc = "read"
  BY <1>1 DEF Recompute, NoRecompute
<1>3. CASE Cleanup(d) /\ e \in Expired /\ exec' # exec
  <2>1. dstatus'[e] = NoRow /\ \A i \in Instances : exec'[e][i] = NoRow
    BY <1>3 DEF Cleanup
  <2>2. QED BY <1>2, <1>3, <2>1 DEF Deleted, Targets
<1>4. CASE Cleanup(d) /\ (e \notin Expired \/ UNCHANGED <<dstatus, exec>>)
  <2>1. dstatus'[e] = dstatus[e] /\ exec'[e] = exec[e] BY <1>4 DEF Cleanup
  <2>2. QED BY <1>2, <2>1, StillMoves
<1>5. CASE ~Cleanup(d)
  <2>1. UNCHANGED dstatus
    BY <1>5 DEF LoopStep, Load, LoadFails, CancelWave, FirstAlone, WholeWave, JoinFirst, FanOut,
     Join, FanDone, CancelOne, SweepDone, LastWaveDone, Cleanup, NextDeploy, EndWave, db
  <2>2. e # d => exec'[e] = exec[e]
    BY <1>5 DEF LoopStep, Load, LoadFails, CancelWave, FirstAlone, WholeWave, JoinFirst, FanOut,
     Join, FanDone, CancelOne, SweepDone, LastWaveDone, NextDeploy, EndWave, db
  <2>3. UNCHANGED exec \/ CancelOne(d)
    BY <1>5 DEF LoopStep, Load, LoadFails, CancelWave, FirstAlone, WholeWave, JoinFirst, FanOut,
     Join, FanDone, SweepDone, LastWaveDone, NextDeploy, EndWave, db
  <2>4. CASE CancelOne(d)
    <3>1. PICK i \in Instances : \/ (exec' = [exec EXCEPT ![d][i] = "canceled"] /\ exec[d][i] = "queued")
                               \/ exec' = exec
      BY <2>4, RunTypes DEF CancelOne, StillIn, TypeOK
    <3>2. MovesOn(e) BY <3>1 DEF MovesOn, Targets, NoRow, Statuses, Terminal, TerminalStatuses
    <3>3. QED BY <1>2, <2>1, <2>2, <3>2
  <2>5. QED BY <1>2, <2>1, <2>3, <2>4, StillMoves
<1>6. CASE Cleanup(d) /\ e \in Expired /\ exec' = exec
  <2>1. CASE UNCHANGED <<dstatus, exec>> BY <1>4, <1>6, <2>1
  <2>2. CASE ~UNCHANGED <<dstatus, exec>>
    <3>1. /\ dstatus'[e] = NoRow
          /\ exec' = [f \in Deploys |-> IF f \in Expired THEN [i \in Instances |-> NoRow] ELSE exec[f]]
      BY <1>6, <2>2 DEF Cleanup
    <3>2. \A i \in Instances : exec'[e][i] = NoRow BY <1>6, <3>1
    <3>3. QED BY <1>2, <1>6, <3>1, <3>2 DEF Deleted, Targets
  <2>3. QED BY <2>1, <2>2
<1>7. QED BY <1>3, <1>4, <1>5, <1>6

LEMMA LoopStored ==
  ASSUME TypeOK, SafetyInv, HandInv, NEW d \in Deploys, LoopStep(d), NEW e \in Deploys, StoredOf(e)
  PROVE  StoredOf(e)'
<1>1. UNCHANGED <<handler, finished>> BY LoopEffect
<1>2. \A p \in Members : rc'[e][p].pc = "write" => rc'[e][p] = rc[e][p] BY LoopRows
<1>3. handler[e] \in {"stored", "superseding"} => ~On(e) /\ dstatus[e] = "queued"
  BY DEF HandInv, Fresh
<1>4. CASE dstatus'[e] = dstatus[e] /\ MovesOn(e) /\ (e # d => exec'[e] = exec[e])
  <2>1. handler[e] \in {"stored", "superseding"} => exec'[e] = exec[e] BY <1>3, <1>4, LoopEffect
  <2>2. QED BY <1>1, <1>2, <1>4, <2>1, StoredFrame DEF MovesOn
<1>5. CASE e \in Expired /\ Deleted(e) /\ dstatus'[e] = NoRow
  <2>1. dstatus[e] # "queued" BY <1>5 DEF Expired, Terminal, TerminalStatuses
  <2>2. QED BY <1>1, <1>2, <1>3, <1>5, <2>1 DEF StoredOf, Deleted, NoRow
<1>6. QED BY <1>4, <1>5, LoopRows

LEMMA WorkerStored ==
  ASSUME TypeOK, SafetyInv, HandInv, NEW d \in Deploys, NEW i \in Instances, WorkerStep(d, i),
         NEW e \in Deploys, StoredOf(e)
  PROVE  StoredOf(e)'
<1> rc \in [Deploys -> [Members -> Recomputes]] BY DEF TypeOK, RolloutOK
<1>1. UNCHANGED <<handler, finished, dstatus>> /\ Targets(e)' = Targets(e)
  BY WorkerEffect, WorkerTargets
<1>2. \A p \in Members : rc'[e][p].pc = "write" => rc'[e][p] = rc[e][p]
  <2>1. UNCHANGED rc \/ rc' = [rc EXCEPT ![d][i] = Recompute] BY WorkerEffect
  <2>2. QED BY <2>1 DEF Recompute, NoRecompute
<1>3. handler[e] \in {"stored", "superseding"} => exec'[e] = exec[e]
  <2>1. worker[d][i].pc # "off" BY WorkerEffect DEF WorkerDoes
  <2>2. On(d) BY <2>1 DEF SafetyInv, SlotInv, On
  <2>3. e # d => exec'[e] = exec[e] BY WorkerEffect DEF TypeOK, RowsOK
  <2>4. QED BY <2>2, <2>3 DEF HandInv, Fresh
<1>4. QED BY <1>1, <1>2, <1>3, StoredFrame

LEMMA RecomputeStored ==
  ASSUME TypeOK, SafetyInv, LoopInv, RowInv, NEW d \in Deploys, NEW p \in Members,
         RecomputeStep(d, p), StoredOf(d), NEW e \in Deploys, StoredOf(e)
  PROVE  StoredOf(e)'
<1> rc \in [Deploys -> [Members -> Recomputes]] BY DEF TypeOK, RolloutOK
<1>1. UNCHANGED <<handler, exec>> BY RecomputeEffect
<1>2. CASE e # d BY <1>1, <1>2, RecomputeEffect, StoredFrame DEF Targets
<1>3. CASE e = d /\ RecomputeRead(d, p)
  <2>1. \A q \in Members : rc'[d][q].pc = "write" /\ rc'[d][q].over => Terminal(rc'[d][q].agg)
    <3>1. \A q \in Members \ {p} : rc'[d][q] = rc[d][q] BY RecomputeEffect
    <3>2. rc'[d][p] = [pc |-> "write", agg |-> AggregateStatus(ExecStatuses(d)),
                       over |-> IsOver(ExecStatuses(d))] BY <1>3 DEF RecomputeRead
    <3>3. rc'[d][p].over => Terminal(rc'[d][p].agg)
      <4>1. rc'[d][p].over = IsOver(ExecStatuses(d)) /\ rc'[d][p].agg = AggregateStatus(ExecStatuses(d))
        BY <3>2
      <4>2. IsOver(ExecStatuses(d)) => Terminal(AggregateStatus(ExecStatuses(d))) BY DEF IsOver
      <4>3. QED BY <4>1, <4>2, Zenon
    <3>4. QED BY <3>1, <3>3 DEF StoredOf
  <2>2. UNCHANGED <<dstatus, finished>> BY <1>3 DEF RecomputeRead
  <2>3. QED BY <1>1, <1>3, <2>1, <2>2 DEF StoredOf, Untried, Targets
<1>4. CASE e = d /\ RecomputeWrite(d, p)
  <2>1. \A q \in Members : rc'[d][q].pc = "write" => rc'[d][q] = rc[d][q]
    <3>1. \A q \in Members \ {p} : rc'[d][q] = rc[d][q] BY RecomputeEffect
    <3>2. rc'[d][p].pc # "write"
      BY <1>4 DEF RecomputeWrite, RecomputeEnds, NoRecompute, Recomputes
    <3>3. QED BY <3>1, <3>2
  <2>2. rc[d][p].agg \in Statuses /\ rc[d][p].over \in BOOLEAN BY RecomputeTypes DEF TypeOK
  <2>3. Targets(d) # {}
    <3>1. rc[d][p].pc = "write" BY <1>4 DEF RecomputeWrite
    <3>2. run[d].pc \notin {"off", "load", "next"}
      BY <3>1 DEF LoopInv, LoopOf, SafetyInv, SlotInv, Members
    <3>3. QED BY <3>2 DEF LoopInv, LoopOf
  <2>4. rc[d][p].agg = "queued" => ~finished[d]
    BY <1>4 DEF RecomputeWrite, LoopInv, ReadOf, StoredOf
  <2>5. rc[d][p].over => Terminal(rc[d][p].agg) BY <1>4 DEF RecomputeWrite, StoredOf
  <2>6. WriteDeploy(d, rc[d][p].agg, rc[d][p].over) BY <1>4 DEF RecomputeWrite
  <2>7. QED BY <1>1, <1>4, <2>1, <2>2, <2>3, <2>4, <2>5, <2>6, StoredWritten
<1>5. CASE e = d /\ (RecomputeNotify(d, p) \/ RecomputeFails(d, p))
  <2>1. UNCHANGED <<dstatus, finished>> /\ rc' = [rc EXCEPT ![d][p] = NoRecompute]
    BY <1>5 DEF RecomputeNotify, RecomputeFails, RecomputeEnds
  <2>2. \A q \in Members : rc'[d][q].pc = "write" => rc'[d][q] = rc[d][q]
    BY <2>1 DEF NoRecompute
  <2>3. QED BY <1>1, <1>5, <2>1, <2>2, StoredFrame DEF Targets
<1>6. QED BY <1>2, <1>3, <1>4, <1>5 DEF RecomputeStep

LEMMA RecoveryStored ==
  ASSUME TypeOK, SafetyInv, HandInv, RowInv, RecovInv, Recovery, NEW e \in Deploys, StoredOf(e)
  PROVE  StoredOf(e)'
<1>1. /\ proc = "recovering" /\ UNCHANGED <<handler, rc>> /\ Targets(e)' = Targets(e)
  BY RecoveryEffect
<1>2. handler[e] \notin {"stored", "superseding"} BY <1>1 DEF HandInv
<1>3. CASE UNCHANGED <<dstatus, finished>>
  BY <1>1, <1>2, <1>3, StoredFrame
<1>4. CASE RecoverSuperseded
  <2>1. recov.half \in Deploys BY <1>4 DEF RecoverSuperseded, TypeOK, ProcessOK, Recoveries
  <2>2. QED BY <1>1, <1>4, <2>1, StoredSuperseded DEF RecoverSuperseded
<1>5. ASSUME NEW d \in Deploys, RecoverRecompute(d) PROVE StoredOf(e)'
  <2>1. Targets(d) # {} /\ ~Unsettled(d) BY <1>5 DEF RecoverRecompute, RecovInv, RecomputingInv
  <2>2. ExecStatuses(d) \in SUBSET Statuses BY StatusesOf DEF TypeOK
  <2>3. AggregateStatus(ExecStatuses(d)) \in Statuses /\ IsOver(ExecStatuses(d)) \in BOOLEAN
    BY <2>2, AggregateType DEF IsOver, AllTerminal, Terminal
  <2>4. AggregateStatus(ExecStatuses(d)) # "queued"
    <3>1. PICK i \in Targets(d) : TRUE BY <2>1
    <3>2. exec[d][i] \in ExecStatuses(d) /\ exec[d][i] # "queued"
      BY <2>1, <3>1 DEF ExecStatuses, Unsettled, Terminal, TerminalStatuses
    <3>3. QED BY <2>2, <3>2, AggregateQueued
  <2>5. IsOver(ExecStatuses(d)) => Terminal(AggregateStatus(ExecStatuses(d))) BY DEF IsOver
  <2>6. UNCHANGED exec /\ WriteDeploy(d, AggregateStatus(ExecStatuses(d)), IsOver(ExecStatuses(d)))
    BY <1>5 DEF RecoverRecompute
  <2>7. QED BY <1>1, <2>1, <2>3, <2>4, <2>5, <2>6, StoredWritten
<1>6. QED
  BY <1>3, <1>4, <1>5 DEF Recovery, RecoverSelect, RecoverClosed, RecoverList, RecoverSupersede,
     RecoverEnqueue, RecoverFail, RecoverCancel

LEMMA ProcessStored ==
  ASSUME TypeOK, Wire \/ Start \/ Crash \/ Stop \/ Exit \/ AllServed, NEW e \in Deploys, StoredOf(e)
  PROVE  StoredOf(e)'
<1>1. CASE Crash \/ Exit
  <2>1. Dies BY <1>1 DEF Crash, Exit
  <2>2. handler'[e] \notin {"stored", "superseding"} BY <2>1 DEF Dies
  <2>3. \A p \in Members : rc'[e][p].pc # "write" BY <2>1 DEF Dies, NoRecompute
  <2>4. QED BY <2>1, <2>2, <2>3, StoredFrame DEF Dies, db, Targets
<1>2. CASE Wire \/ Start \/ Stop \/ AllServed
  <2>1. UNCHANGED <<db, handler, rc>> BY <1>2 DEF Wire, Start, Stop, AllServed, rollout, vars
  <2>2. QED BY <2>1, StoredFrame DEF db, Targets
<1>3. QED BY <1>1, <1>2

\* The mutex is held only while a loop runs.
LockBusy == Locked => busy
LEMMA LockStep ==
  ASSUME TypeOK, SafetyInv, HandInv, LockBusy, Next PROVE LockBusy'
<1> handler \in [Deploys -> HandlerPcs] BY DEF TypeOK, ProcessOK
<1>1. ASSUME NEW d \in Deploys, Handler(d) PROVE LockBusy'
  <2>1. busy => busy'
    BY <1>1 DEF Handler, Build, CreateBroken, Create, CreateFails, EnqueueFree, EnqueueWait,
       EnqueueReplace, EnqueueReplaced, ReplaceFails, StartLoop
  <2>2. CASE EnqueueReplace(d) BY <2>2 DEF EnqueueReplace, ServiceFree, LockBusy
  <2>3. CASE ~EnqueueReplace(d)
    <3>1. \A e \in Deploys : handler'[e] = "superseding" => handler[e] = "superseding"
      BY <1>1, <2>3 DEF Handler, Build, CreateBroken, Create, CreateFails, EnqueueFree,
         EnqueueWait, EnqueueReplaced, ReplaceFails
    <3>2. QED BY <2>1, <3>1 DEF LockBusy, Locked
  <2>4. QED BY <2>2, <2>3
<1>2. ASSUME NEW d \in Deploys, LoopStep(d) PROVE LockBusy'
  <2>1. UNCHANGED handler BY <1>2, LoopEffect
  <2>2. CASE NextDeploy(d) BY <2>1, <2>2 DEF NextDeploy, LockBusy, Locked
  <2>3. CASE ~NextDeploy(d)
    <3>1. UNCHANGED busy
      BY <1>2, <2>3 DEF LoopStep, Load, LoadFails, CancelWave, FirstAlone, WholeWave, JoinFirst,
         FanOut, Join, FanDone, CancelOne, SweepDone, LastWaveDone, Cleanup, EndWave
    <3>2. QED BY <2>1, <3>1 DEF LockBusy, Locked
  <2>4. QED BY <2>2, <2>3
<1>3. CASE \E d \in Deploys, i \in Instances : WorkerStep(d, i)
  <2>1. UNCHANGED <<busy, handler>> BY <1>3, WorkerEffect
  <2>2. QED BY <2>1 DEF LockBusy, Locked
<1>4. CASE \E d \in Deploys, p \in Members : RecomputeStep(d, p)
  <2>1. UNCHANGED <<busy, handler>> BY <1>4, RecomputeEffect
  <2>2. QED BY <2>1 DEF LockBusy, Locked
<1>5. CASE Recovery
  <2>1. UNCHANGED handler /\ proc = "recovering" BY <1>5, RecoveryEffect
  <2>2. QED BY <2>1 DEF LockBusy, Locked, HandInv
<1>6. CASE Crash \/ Exit BY <1>6 DEF Crash, Exit, Dies, LockBusy, Locked
<1>7. CASE Wire \/ Start \/ Stop \/ AllServed
  <2>1. UNCHANGED <<busy, handler>> BY <1>7 DEF Wire, Start, Stop, AllServed, vars
  <2>2. QED BY <2>1 DEF LockBusy, Locked
<1>8. QED BY <1>1, <1>2, <1>3, <1>4, <1>5, <1>6, <1>7 DEF Next

-----------------------------------------------------------------------------
(* While nothing fails a restart finds only what will be recovered, and     *)
(* each deploy waits where the lane will find it: RestartInv, WaitsOf and   *)
(* TakenOf are kept.                                                        *)

\* What has not failed by the end of a step had not failed before it.
LEMMA SmoothBefore ==
  ASSUME TypeOK, SafetyInv, Next, Smooth' PROVE Smooth /\ ~Fault /\ ~Crash
<1> crashes \in Nat BY DEF TypeOK, ProcessOK
<1>1. faults = 0 /\ faults' = 0 BY FaultsGrow DEF Smooth
<1>2. ~Fault BY <1>1 DEF Fault
<1>3. ~Crash BY DEF Smooth, Crash
<1>4. crashes = 0
  <2>1. ASSUME NEW d \in Deploys, Handler(d) PROVE UNCHANGED crashes
    BY <1>2, <2>1 DEF Handler, Build, CreateBroken, Create, CreateFails, EnqueueFree, EnqueueWait,
       EnqueueReplace, EnqueueReplaced, ReplaceFails, bounds
  <2>2. ASSUME NEW d \in Deploys, LoopStep(d) PROVE UNCHANGED crashes
    BY <2>2 DEF LoopStep, Load, LoadFails, CancelWave, FirstAlone, WholeWave, JoinFirst, FanOut,
       Join, FanDone, CancelOne, SweepDone, LastWaveDone, Cleanup, NextDeploy, EndWave, ByLoop
  <2>3. ASSUME NEW d \in Deploys, NEW i \in Instances, WorkerStep(d, i) PROVE UNCHANGED crashes
    BY <2>3 DEF WorkerStep, Dispatch, Launch, AcquireFails, Execute, TransitionFails, ByWorker, ByLoop
  <2>4. ASSUME NEW d \in Deploys, NEW p \in Members, RecomputeStep(d, p) PROVE UNCHANGED crashes
    BY <2>4 DEF RecomputeStep, RecomputeRead, RecomputeWrite, RecomputeNotify, RecomputeFails,
       ByRecompute, ByLoop
  <2>5. CASE Recovery BY <2>5, RecoveryEffect DEF bounds, Smooth
  <2>6. CASE Wire \/ Start \/ Stop \/ Exit \/ AllServed
    BY <2>6 DEF Wire, Start, Stop, Exit, AllServed, vars, bounds, Smooth
  <2>7. QED BY <1>3, <2>1, <2>2, <2>3, <2>4, <2>5, <2>6 DEF Next, Smooth
<1>5. QED BY <1>1, <1>2, <1>3, <1>4 DEF Smooth

\* What the executions of a deploy say of it.
LEMMA Stages ==
  ASSUME RowsOK, NEW d \in Deploys
  PROVE  /\ Untried(d) => Unsettled(d) /\ ~Moved(d) /\ ~InFlight(d)
         /\ Targets(d) # {} => Untried(d) \/ Moved(d)
         /\ Unsettled(d) => Targets(d) # {}
         /\ Moved(d) => Targets(d) # {}
  BY DEF RowsOK, Untried, Unsettled, Moved, InFlight, InFlightStatuses, Targets, Terminal,
     TerminalStatuses, NoRow

LEMMA UntriedSwept ==
  ASSUME RowsOK, NEW d \in Deploys, NEW to \in TerminalStatuses, Sweep(d, {"queued"}, to)
  PROVE  /\ Untried(d) => ~Unsettled(d)'
         /\ ~Unsettled(d) => ~Unsettled(d)' /\ exec'[d] = exec[d]
         /\ Targets(d)' = Targets(d)
<1>1. ~Terminal("queued") /\ to # NoRow /\ "queued" # NoRow /\ ~Terminal(NoRow)
  BY DEF Terminal, TerminalStatuses, NoRow
<1>2. exec'[d] = [i \in Instances |-> IF exec[d][i] = "queued" THEN to ELSE exec[d][i]]
  BY DEF Sweep, RowsOK
<1>3. exec[d] \in [Instances -> Statuses \cup {NoRow}] BY DEF RowsOK
<1>4. Targets(d)' = Targets(d) BY <1>1, <1>2 DEF Targets
<1>5. Untried(d) => ~Unsettled(d)' BY <1>1, <1>2, <1>4 DEF Untried, Unsettled, Targets, Terminal
<1>6. ASSUME ~Unsettled(d) PROVE exec'[d] = exec[d]
  <2>1. \A i \in Instances : exec[d][i] # "queued" BY <1>1, <1>6 DEF Unsettled, Targets
  <2>2. QED BY <1>2, <1>3, <2>1
<1>7. QED BY <1>4, <1>5, <1>6 DEF Unsettled, Targets

LEMMA RestartStep ==
  ASSUME TypeOK, SafetyInv, RowsInv, RestartInv, \A d \in Deploys : WaitsOf(d), Next
  PROVE  RestartInv'
<1> USE DEF RowsInv
<1> SUFFICES ASSUME proc' = "recovering" PROVE RestartInv' BY DEF RestartInv, RecovAt
<1> recov \in Recoveries /\ None \notin Deploys BY DeploysAssumption DEF TypeOK, ProcessOK, None
<1> /\ recov.todo \in SUBSET Deploys /\ recov.ids \in SUBSET Deploys
    /\ recov.half \in Deploys \cup {None}
  BY DEF Recoveries
<1>1. CASE Recovery
  <2>1. proc = "recovering" /\ \A d \in Deploys : ~On(d) BY <1>1, RecoveryEffect
  <2>2. CASE RecoverSelect
    <3>1. LeftUnfinished = {}
      <4>1. SUFFICES ASSUME NEW d \in LeftUnfinished PROVE FALSE OBVIOUS
      <4>2. d \in Deploys /\ Unsettled(d) /\ dstatus[d] # NoRow /\ (dstatus[d] # "queued" \/ InFlight(d))
        BY DEF LeftUnfinished
      <4>3. Targets(d) # {} BY <4>2 DEF Unsettled
      <4>4. Untried(d) BY <2>1, <4>2, <4>3 DEF WaitsOf, On
      <4>5. ~InFlight(d) /\ ~Moved(d) BY <4>2, <4>4, Stages DEF TypeOK
      <4>6. QED BY <4>2, <4>3, <4>5 DEF RowInv, RowOf
    <3>2. QED BY <2>2, <3>1 DEF RecoverSelect, RestartInv, RecovAt
  <2>3. CASE RecoverClosed BY <2>3 DEF RecoverClosed, RestartInv, RecovAt
  <2>4. CASE RecoverList BY <2>4 DEF RecoverList, RestartInv, RecovAt, Last, Waiting
  <2>5. CASE RecoverSupersede BY <2>5 DEF RecoverSupersede, RestartInv, RecovAt
  <2>6. CASE RecoverSuperseded BY <2>6 DEF RecoverSuperseded, RestartInv, RecovAt
  <2>7. CASE RecoverEnqueue BY <2>7 DEF RecoverEnqueue
  <2>8. ASSUME NEW d \in Deploys, RecoverFail(d) \/ RecoverCancel(d) \/ RecoverRecompute(d)
        PROVE  FALSE
    BY <2>8 DEF RecoverFail, RecoverCancel, RecoverRecompute, RestartInv, RecovInv, ClosingInv, RecovAt
  <2>9. QED BY <1>1, <2>2, <2>3, <2>4, <2>5, <2>6, <2>7, <2>8 DEF Recovery
<1>2. CASE Start BY <1>2 DEF Start, RestartInv, RecovAt, NoRecovery
<1>3. CASE UNCHANGED vars BY <1>3 DEF vars, RestartInv, RecovAt
<1>4. QED BY <1>1, <1>2, <1>3, RecoversAlone

LEMMA WaitsFrame ==
  ASSUME NEW e \in Deploys, WaitsOf(e), run[e].pc = "off", exec'[e] = exec[e],
         dstatus'[e] = dstatus[e], finished'[e] = finished[e], GivingUp(e) => GivingUp(e)'
  PROVE  WaitsOf(e)'
<1>1. Targets(e)' = Targets(e) BY DEF Targets
<1>2. Untried(e)' = Untried(e) /\ Unsettled(e)' = Unsettled(e) BY <1>1 DEF Untried, Unsettled
<1>3. QED BY <1>1, <1>2 DEF WaitsOf

LEMMA WaitsBusy == ASSUME NEW e \in Deploys, run'[e].pc # "off" PROVE WaitsOf(e)'
  BY DEF WaitsOf

LEMMA TakenFrame ==
  ASSUME NEW e \in Deploys, TakenOf(e), run'[e] = run[e], exec'[e] = exec[e],
         rc'[e][Loop] = rc[e][Loop], finished[e] => finished'[e]
  PROVE  TakenOf(e)'
<1>1. Targets(e)' = Targets(e) BY DEF Targets
<1>2. Untried(e)' = Untried(e) /\ Moved(e)' = Moved(e) BY <1>1 DEF Untried, Moved
<1>3. QED BY <1>2 DEF TakenOf

LEMMA TakenOff == ASSUME NEW e \in Deploys, run'[e].pc = "off" PROVE TakenOf(e)'
  BY DEF TakenOf

LEMMA TakenLoad ==
  ASSUME NEW e \in Deploys, run'[e].pc = "load", Untried(e)' PROVE TakenOf(e)'
<1>1. \A i \in Instances : exec'[e][i] # "superseded"
  BY DEF Untried, Targets, NoRow
<1>2. QED BY <1>1 DEF TakenOf

\* Who is given up, by a handler or by recovery.
LEMMA GivenUpByHandler ==
  ASSUME NEW e \in Deploys, GivingUp(e), proc # "recovering" PROVE Locked /\ pending = e
  BY DEF GivingUp, RecovAt

LEMMA HandlerWaits ==
  ASSUME TypeOK, SafetyInv, RowsInv, LaneInv, Smooth, ~Fault, NEW d \in Deploys, Handler(d),
         NEW e \in Deploys
  PROVE  WaitsOf(e)' /\ TakenOf(e)'
<1> USE DEF RowsInv
<1> /\ handler \in [Deploys -> HandlerPcs] /\ pending \in Deploys \cup {None}
    /\ dstatus \in [Deploys -> Statuses \cup {NoRow}] /\ finished \in [Deploys -> BOOLEAN]
    /\ exec \in [Deploys -> [Instances -> Statuses \cup {NoRow}]]
    /\ run \in [Deploys -> Runs] /\ None \notin Deploys /\ RowsOK
  BY DeploysAssumption DEF TypeOK, ProcessOK, RowsOK, RolloutOK, None
<1>1. UNCHANGED <<rc, proc, recov>> /\ proc # "recovering"
  BY DEF Handler, Build, CreateBroken, Create, CreateFails, EnqueueFree, EnqueueWait,
     EnqueueReplace, EnqueueReplaced, ReplaceFails, rollout, Serving
<1>2. WaitsOf(e) /\ TakenOf(e) /\ StoredOf(e) /\ StoredOf(d) BY DEF LaneInv
<1>g. GivingUp(e) <=> Locked /\ pending = e BY <1>1 DEF GivingUp, RecovAt
<1>h. GivingUp(e)' <=> Locked' /\ pending' = e BY <1>1 DEF GivingUp, RecovAt
<1>3. ASSUME On(e) PROVE WaitsOf(e)' /\ TakenOf(e)'
  <2>1. run'[e] = run[e] /\ exec'[e] = exec[e] BY <1>3, HandlerRows
  <2>2. finished[e] => finished'[e]
    BY DEF Handler, Build, CreateBroken, Create, CreateFails, EnqueueFree, EnqueueWait,
       EnqueueReplace, EnqueueReplaced, ReplaceFails, db, SupersedeRow
  <2>3. TakenOf(e)' BY <1>1, <1>2, <2>1, <2>2, TakenFrame
  <2>4. QED BY <1>3, <2>1, <2>3, WaitsBusy DEF On
<1>4. ASSUME ~On(e) PROVE WaitsOf(e)' /\ TakenOf(e)'
  <2>0. run[e].pc = "off" BY <1>4 DEF On
  <2>1. CASE EnqueueFree(d) /\ e = d
    <3>1. run'[e].pc = "load" /\ UNCHANGED exec BY <2>1 DEF EnqueueFree, StartLoop, NoRun, db
    <3>2. Untried(e)' BY <1>2, <2>1, <3>1 DEF EnqueueFree, StoredOf, Untried, Targets
    <3>3. QED BY <3>1, <3>2, TakenLoad, WaitsBusy
  <2>2. CASE ~(EnqueueFree(d) /\ e = d)
    <3>1. run'[e] = run[e]
      BY <2>2 DEF Handler, Build, CreateBroken, Create, CreateFails, EnqueueFree, EnqueueWait,
         EnqueueReplace, EnqueueReplaced, ReplaceFails, rollout, StartLoop
    <3>2. TakenOf(e)' BY <2>0, <3>1, TakenOff
    <3>3. ASSUME exec'[e] = exec[e], dstatus'[e] = dstatus[e], finished'[e] = finished[e],
                 GivingUp(e) => GivingUp(e)'
          PROVE  WaitsOf(e)'
      BY <1>2, <2>0, <3>3, WaitsFrame
    <3>4. CASE Create(d) /\ e = d
      <4>1. PICK t \in Triggers[d] : exec' = [exec EXCEPT ![d] =
                     [i \in Instances |-> IF i \in t.targets THEN "queued" ELSE NoRow]]
        BY <3>4 DEF Create
      <4>2. t.targets # {} /\ t.targets \subseteq Instances BY TriggerAssumption
      <4>3. Untried(e)' BY <3>4, <4>1, <4>2 DEF Untried, Targets, NoRow
      <4>4. dstatus'[e] = "queued" BY <3>4 DEF Create
      <4>5. QED BY <3>2, <4>3, <4>4 DEF WaitsOf, Terminal, TerminalStatuses
    <3>5. CASE CreateBroken(d) /\ e = d
      <4>1. UNCHANGED exec /\ dstatus'[e] = "failed" /\ finished'[e] BY <3>5 DEF CreateBroken
      <4>2. Targets(e) = {}
        BY <3>5 DEF CreateBroken, SafetyInv, BornInv, Unborn, Untouched, Targets
      <4>3. Targets(e)' = {} BY <4>1, <4>2 DEF Targets
      <4>4. QED BY <3>2, <4>1, <4>3 DEF WaitsOf
    <3>6. CASE (Create(d) \/ CreateBroken(d)) /\ e # d
      <4>1. /\ exec'[e] = exec[e] /\ dstatus'[e] = dstatus[e] /\ finished'[e] = finished[e]
            /\ UNCHANGED pending
        BY <3>6 DEF Create, CreateBroken
      <4>2. Locked => Locked' BY <3>6 DEF Create, CreateBroken, Locked
      <4>3. QED BY <3>2, <1>g, <1>h, <3>3, <4>1, <4>2
    <3>7. CASE EnqueueReplace(d)
      <4>1. ~Locked /\ pending # None /\ Sweep(pending, {"queued"}, "superseded")
            /\ UNCHANGED <<dstatus, finished, pending>> /\ handler'[d] = "superseding"
        BY <3>7 DEF EnqueueReplace
      <4>2. CASE e # pending
        <5>1. exec'[e] = exec[e] BY <4>1, <4>2 DEF Sweep
        <5>2. QED BY <3>2, <1>g, <3>3, <4>1, <5>1
      <4>3. CASE e = pending
        <5>1. dstatus[e] = "queued" BY <4>1, <4>3 DEF HandInv, Fresh
        <5>2. Untried(e) BY <1>2, <1>g, <2>0, <4>1, <5>1 DEF WaitsOf
        <5>3. ~Unsettled(e)' BY <4>1, <4>3, <5>2, UntriedSwept DEF TerminalStatuses
        <5>4. Locked' BY <4>1 DEF Locked
        <5>5. QED BY <3>2, <1>h, <4>1, <4>3, <5>1, <5>3, <5>4 DEF WaitsOf, Terminal, TerminalStatuses
      <4>4. QED BY <4>2, <4>3
    <3>8. CASE EnqueueReplaced(d)
      <4>1. handler[d] = "superseding" /\ SupersedeRow(pending) /\ UNCHANGED exec
        BY <3>8 DEF EnqueueReplaced
      <4>2. pending \in Deploys BY <4>1 DEF HandInv
      <4>3. CASE e # pending
        <5>1. ~GivingUp(e) BY <1>g, <4>3
        <5>2. dstatus'[e] = dstatus[e] /\ finished'[e] = finished[e]
          BY <4>1, <4>2, <4>3 DEF SupersedeRow
        <5>3. QED BY <3>2, <3>3, <4>1, <5>1, <5>2
      <4>4. CASE e = pending
        <5>1. dstatus[e] = "queued" /\ ~Unsettled(e) BY <4>1, <4>2, <4>4 DEF HandInv, Fresh
        <5>2. dstatus'[e] = "superseded" /\ finished'[e] BY <4>1, <4>4, <5>1 DEF SupersedeRow
        <5>3. ~Unsettled(e)' BY <4>1, <5>1 DEF Unsettled, Targets
        <5>4. QED BY <3>2, <5>2, <5>3 DEF WaitsOf
      <4>5. QED BY <4>3, <4>4
    <3>9. CASE Build(d) \/ EnqueueFree(d) \/ EnqueueWait(d)
      <4>1. UNCHANGED db BY <3>9 DEF Build, EnqueueFree, EnqueueWait
      <4>2. GivingUp(e) => GivingUp(e)'
        <5>1. CASE Build(d)
          <6>1. Locked => Locked' BY <5>1 DEF Build, Locked
          <6>2. UNCHANGED pending BY <5>1 DEF Build
          <6>3. QED BY <1>g, <1>h, <6>1, <6>2
        <5>2. CASE EnqueueFree(d) \/ EnqueueWait(d)
          BY <1>g, <5>2 DEF EnqueueFree, EnqueueWait
        <5>3. QED BY <3>9, <5>1, <5>2
      <4>3. QED BY <3>2, <3>3, <4>1, <4>2 DEF db
    <3>10. ~CreateFails(d) /\ ~ReplaceFails(d) BY DEF CreateFails, ReplaceFails
    <3>11. QED
      BY <3>2, <3>4, <3>5, <3>6, <3>7, <3>8, <3>9, <3>10 DEF Handler
  <2>3. QED BY <2>1, <2>2
<1>5. QED BY <1>3, <1>4

\* The step of a loop on its own deploy.
LEMMA LoopTaken ==
  ASSUME TypeOK, SafetyInv, GateInv, LoopInv, RowInv, TrackInv, Smooth, ~Fault, NEW d \in Deploys,
         LoopStep(d), ~NextDeploy(d), TakenOf(d)
  PROVE  run'[d].pc # "off" /\ TakenOf(d)'
<1> DEFINE r == run[d]
<1> /\ exec \in [Deploys -> [Instances -> Statuses \cup {NoRow}]]
    /\ worker \in [Deploys -> [Instances -> Workers]]
    /\ rc \in [Deploys -> [Members -> Recomputes]]
    /\ run \in [Deploys -> Runs] /\ r \in Runs /\ RowsOK
  BY DEF TypeOK, RowsOK, RolloutOK
<1>1. On(d) /\ UNCHANGED finished BY LoopEffect
<1>2. proc \notin {"down", "recovering"} BY <1>1 DEF SafetyInv, SlotInv
<1>3. ASSUME NEW i \in Instances, worker[d][i].pc = "done" PROVE Moved(d)
  <2>1. Terminal(exec[d][i]) BY <1>2, <1>3 DEF TrackInv, Smooth
  <2>2. QED BY <2>1 DEF Moved, Targets, Terminal, TerminalStatuses, NoRow
<1>4. \A i \in Instances : exec[d][i] # "superseded" BY <1>1 DEF TakenOf, On
<1>5. ASSUME exec'[d] = exec[d] PROVE Moved(d)' = Moved(d)
  BY <1>5 DEF Moved, Targets
<1>6. ASSUME exec'[d] = exec[d], run'[d].pc \notin {"off", "load", "clean", "next"},
             run'[d].failed => Moved(d)
      PROVE  run'[d].pc # "off" /\ TakenOf(d)'
  BY <1>4, <1>5, <1>6 DEF TakenOf
<1>7. CASE Load(d)
  <2>1. dstatus[d] = "queued" /\ Targets(d) # {}
    BY <1>7 DEF Load, At, LoopInv, LoopOf, TakenOf, Untried
  <2>2. run'[d].pc = "wave" /\ ~run'[d].failed /\ UNCHANGED exec
    BY <1>7, <2>1 DEF Load, Becomes, db
  <2>3. QED BY <1>6, <2>2
<1>8. ~LoadFails(d) BY DEF LoadFails
<1>9. CASE CancelWave(d) \/ WholeWave(d)
  <2>1. PICK w \in run[d].waves, pc \in {"sweep", "fan"} :
          run' = [run EXCEPT ![d] = [run[d] EXCEPT !.waves = @ \ {w}, !.pc = pc, !.todo = WaveMembers(d, w)]]
    BY <1>9 DEF CancelWave, WholeWave, Begun, Becomes
  <2>2. run'[d].pc = pc /\ run'[d].failed = r.failed BY <2>1 DEF Runs
  <2>3. r.pc = "wave" /\ UNCHANGED exec BY <1>9 DEF CancelWave, WholeWave, NextWave, At, db
  <2>4. QED BY <1>6, <2>2, <2>3 DEF TakenOf
<1>10. CASE FirstAlone(d)
  <2>1. PICK w \in run[d].waves :
          \E todo : run' = [run EXCEPT ![d] = [run[d] EXCEPT !.waves = @ \ {w}, !.pc = "first", !.todo = todo]]
    BY <1>10 DEF FirstAlone, Begun, Becomes
  <2>2. run'[d].pc = "first" /\ run'[d].failed = r.failed BY <2>1 DEF Runs
  <2>3. ~r.failed /\ UNCHANGED exec BY <1>10 DEF FirstAlone, Gated, db
  <2>4. QED BY <1>6, <2>2, <2>3
<1>11. CASE JoinFirst(d)
  <2>1. PICK i \in Instances : worker[d][i].pc = "done" BY <1>11 DEF JoinFirst
  <2>2. Moved(d) BY <1>3, <2>1
  <2>3. run'[d].pc = "fan" /\ UNCHANGED exec BY <1>11 DEF JoinFirst, Becomes, Runs
  <2>4. QED BY <1>6, <2>2, <2>3
<1>12. CASE FanOut(d)
  <2>1. run'[d].pc = "join" /\ run'[d].failed = r.failed /\ UNCHANGED exec
    BY <1>12 DEF FanOut, Becomes, Runs, db
  <2>2. QED BY <1>6, <1>12, <2>1 DEF FanOut
<1>13. CASE Join(d)
  <2>1. /\ run' = [run EXCEPT ![d] = [run[d] EXCEPT !.pc = "wave",
              !.failed = \E i \in Instances : worker[d][i].pc = "done" /\ ~worker[d][i].ok]]
        /\ UNCHANGED exec
    BY <1>13 DEF Join, EndWave, Becomes, db
  <2>2. PICK failed : failed = (\E i \in Instances : worker[d][i].pc = "done" /\ ~worker[d][i].ok)
    OBVIOUS
  <2>3. run'[d].pc = "wave" /\ run'[d].failed = failed BY <2>1, <2>2 DEF Runs
  <2>4. failed => Moved(d) BY <1>3, <2>2
  <2>5. QED BY <1>6, <2>1, <2>3, <2>4
<1>14. CASE FanDone(d) \/ SweepDone(d)
  <2>1. run'[d].pc = "wave" /\ run'[d].failed = r.failed /\ r.pc \in {"fan", "sweep"} /\ UNCHANGED exec
    BY <1>14 DEF FanDone, SweepDone, EndWave, Goto, Becomes, Runs, At, db
  <2>2. QED BY <1>6, <2>1 DEF TakenOf
<1>15. CASE CancelOne(d)
  <2>1. PICK i \in run[d].todo :
          /\ run' = [run EXCEPT ![d] = [run[d] EXCEPT !.todo = @ \ {i}]]
          /\ exec' = IF StillIn(d, i, "queued") THEN [exec EXCEPT ![d][i] = "canceled"] ELSE exec
    BY <1>15 DEF CancelOne, Becomes
  <2>2. run'[d].pc = r.pc /\ run'[d].failed = r.failed BY <2>1 DEF Runs
  <2>3. r.pc \in {"fan", "sweep"} BY <1>15 DEF CancelOne, At
  <2>4. \A j \in Instances : exec'[d][j] # "superseded" BY <1>4, <2>1
  <2>5. MovesOn(d) BY <1>15, LoopRows DEF Cleanup, At, CancelOne
  <2>6. QED BY <2>2, <2>3, <2>4, <2>5, MovesKeep DEF TakenOf
<1>16. CASE LastWaveDone(d)
  <2>1. run'[d].pc = "clean" /\ UNCHANGED exec /\ rc'[d][Loop].pc = "read"
    BY <1>16 DEF LastWaveDone, EndWave, Goto, Becomes, Runs, db, Recompute, NoRecompute, Members
  <2>2. QED BY <1>4, <2>1 DEF TakenOf
<1>17. CASE Cleanup(d)
  <2>1. run'[d].pc = "next" BY <1>17 DEF Cleanup, Goto, Becomes, Runs
  <2>2. finished'[d] BY <1>1, <1>17 DEF Cleanup, At, TakenOf
  <2>3. \A i \in Instances : exec'[d][i] # "superseded"
    <3>1. exec'[d] = exec[d] \/ exec'[d] = [i \in Instances |-> NoRow] BY <1>17 DEF Cleanup
    <3>2. QED BY <1>4, <3>1 DEF NoRow
  <2>4. QED BY <2>1, <2>2, <2>3 DEF TakenOf
<1>18. QED
  BY <1>7, <1>8, <1>9, <1>10, <1>11, <1>12, <1>13, <1>14, <1>15, <1>16, <1>17 DEF LoopStep

LEMMA LoopWaits ==
  ASSUME TypeOK, SafetyInv, GateInv, RowsInv, TrackInv, LaneInv, Smooth, ~Fault, NEW d \in Deploys,
         LoopStep(d), NEW e \in Deploys
  PROVE  WaitsOf(e)' /\ TakenOf(e)'
<1> USE DEF RowsInv
<1> /\ run \in [Deploys -> Runs] /\ RowsOK /\ None \notin Deploys /\ pending \in Deploys \cup {None}
  BY DeploysAssumption DEF TypeOK, ProcessOK, RolloutOK, None
<1>1. /\ UNCHANGED <<handler, finished, proc, recov>> /\ On(d)
      /\ e # d => run[e].pc = "off"
  BY LoopEffect DEF On
<1>2. proc # "recovering" /\ proc # "down" BY <1>1 DEF SafetyInv, SlotInv
<1>3. WaitsOf(e) /\ TakenOf(e) /\ StoredOf(e) BY DEF LaneInv
<1>4. CASE e = d /\ ~NextDeploy(d)
  <2>1. TakenOf(d) BY <1>3, <1>4
  <2>2. run'[d].pc # "off" /\ TakenOf(d)' BY <1>4, <2>1, LoopTaken
  <2>3. QED BY <1>4, <2>2, WaitsBusy
<1>5. CASE e = d /\ NextDeploy(d)
  <2>1. pending # d BY <1>1 DEF HandInv
  <2>2. run'[d].pc = "off" /\ UNCHANGED db /\ run[d].pc = "next"
    BY <1>5, <2>1 DEF NextDeploy, NoRun, At
  <2>3. finished'[e] BY <1>1, <1>3, <1>5, <2>2 DEF TakenOf
  <2>4. dstatus'[e] # "queued" /\ ~Unsettled(e)'
    BY <1>3, <2>2, <2>3 DEF StoredOf, db, RowInv, RowOf, Unsettled, Targets
  <2>5. QED BY <1>5, <2>2, <2>3, <2>4, TakenOff DEF WaitsOf
<1>6. CASE e # d
  <2>1. CASE e \in Expired /\ Deleted(e) /\ dstatus'[e] = NoRow
    <3>1. ~NextDeploy(d) \/ run'[e].pc = "off"
      <4>1. ~Terminal("queued") BY DEF Terminal, TerminalStatuses
      <4>2. e # pending BY <2>1, <4>1 DEF Expired, HandInv, Fresh
      <4>3. QED BY <1>1, <1>6, <4>2, LoopEffect
    <3>2. run'[e].pc = "off" BY <1>1, <1>6, <3>1, LoopEffect
    <3>3. WaitsOf(e)' BY <2>1 DEF WaitsOf, Deleted, NoRow, Terminal, TerminalStatuses
    <3>4. QED BY <3>2, <3>3, TakenOff
  <2>2. CASE dstatus'[e] = dstatus[e] /\ exec'[e] = exec[e]
    <3>1. CASE NextDeploy(d) /\ e = pending /\ run'[e].pc = "load"
      <4>1. ~Locked BY <3>1 DEF NextDeploy
      <4>2. ~GivingUp(e) BY <1>2, <4>1 DEF GivingUp, RecovAt
      <4>3. dstatus[e] = "queued" BY <3>1 DEF HandInv, Fresh
      <4>4. Untried(e) BY <1>1, <1>3, <1>6, <4>2, <4>3 DEF WaitsOf
      <4>5. Untried(e)' BY <2>2, <4>4 DEF Untried, Targets
      <4>6. QED BY <3>1, <4>5, TakenLoad, WaitsBusy
    <3>2. CASE run'[e] = run[e]
      <4>1. GivingUp(e) => GivingUp(e)'
        <5>1. GivingUp(e) => Locked /\ pending = e BY <1>2, GivenUpByHandler
        <5>2. Locked => UNCHANGED pending
          BY DEF LoopStep, Load, LoadFails, CancelWave, FirstAlone, WholeWave, JoinFirst, FanOut,
             Join, FanDone, CancelOne, SweepDone, LastWaveDone, Cleanup, NextDeploy, EndWave
        <5>3. QED BY <1>1, <5>1, <5>2 DEF GivingUp, Locked
      <4>2. QED BY <1>1, <1>3, <1>6, <2>2, <3>2, <4>1, WaitsFrame, TakenOff
    <3>3. QED BY <1>6, <3>1, <3>2, LoopEffect
  <2>3. QED BY <1>6, <2>1, <2>2, LoopRows
<1>7. QED BY <1>4, <1>5, <1>6

\* A step that leaves the loop, the handlers and what they wait for alone.
LEMMA QuietWaits ==
  ASSUME UNCHANGED <<run, pending, handler, proc, recov>>, NEW e \in Deploys, WaitsOf(e), TakenOf(e),
         run[e].pc = "off", exec'[e] = exec[e], dstatus'[e] = dstatus[e], finished'[e] = finished[e]
  PROVE  WaitsOf(e)' /\ TakenOf(e)'
<1>1. GivingUp(e) => GivingUp(e)' BY DEF GivingUp, Locked, RecovAt
<1>2. QED BY <1>1, WaitsFrame, TakenOff

LEMMA WorkerWaits ==
  ASSUME TypeOK, SafetyInv, LaneInv, Smooth, NEW d \in Deploys, NEW i \in Instances,
         WorkerStep(d, i), NEW e \in Deploys
  PROVE  WaitsOf(e)' /\ TakenOf(e)'
<1> exec \in [Deploys -> [Instances -> Statuses \cup {NoRow}]] BY DEF TypeOK, RowsOK
<1>1. UNCHANGED <<dstatus, finished, pending, run, proc, recov, handler>> BY WorkerEffect
<1>2. WaitsOf(e) /\ TakenOf(e) BY DEF LaneInv
<1>3. PICK w \in Workers, s \in Statuses \cup {NoRow} :
        exec' = [exec EXCEPT ![d][i] = s] /\ WorkerDoes(d, i, w, s)
  BY WorkerEffect
<1>4. run[d].pc \in {"first", "join"} BY <1>3 DEF WorkerDoes, SafetyInv, SlotInv
<1>5. CASE e # d
  <2>1. ~On(e) BY <1>4, <1>5 DEF SafetyInv, SlotInv, On
  <2>2. exec'[e] = exec[e] BY <1>3, <1>5
  <2>3. QED BY <1>1, <1>2, <2>1, <2>2, QuietWaits DEF On
<1>6. CASE e = d
  <2>1. s \in {exec[d][i], "dispatching", "running", "unreachable", "failed", "succeeded"}
    BY <1>3 DEF WorkerDoes
  <2>2. \A j \in Instances : exec'[d][j] # "superseded"
    <3>1. \A j \in Instances : exec[d][j] # "superseded" BY <1>2, <1>4, <1>6 DEF TakenOf
    <3>2. QED BY <1>3, <2>1, <3>1
  <2>3. MovesOn(d)
    <3>1. s = exec[d][i] \/ (~Terminal(exec[d][i]) /\ s \in Statuses \ {"queued"})
      BY <1>3 DEF WorkerDoes, Statuses, Terminal, TerminalStatuses
    <3>2. Targets(d)' = Targets(d) BY WorkerTargets
    <3>3. QED BY <1>3, <3>1, <3>2 DEF MovesOn
  <2>4. TakenOf(e)' BY <1>1, <1>2, <1>4, <1>6, <2>2, <2>3, MovesKeep DEF TakenOf
  <2>5. QED BY <1>1, <1>4, <1>6, <2>4, WaitsBusy
<1>7. QED BY <1>5, <1>6

LEMMA RecomputeWaits ==
  ASSUME TypeOK, SafetyInv, RowsInv, LeftInv, LaneInv, Smooth, ~Fault, NEW d \in Deploys,
         NEW p \in Members, RecomputeStep(d, p), NEW e \in Deploys
  PROVE  WaitsOf(e)' /\ TakenOf(e)'
<1> USE DEF RowsInv
<1> /\ rc \in [Deploys -> [Members -> Recomputes]] /\ finished \in [Deploys -> BOOLEAN] /\ RowsOK
  BY DEF TypeOK, RolloutOK, RowsOK
<1>1. UNCHANGED <<exec, pending, run, proc, recov, handler>> BY RecomputeEffect
<1>2. WaitsOf(e) /\ TakenOf(e) BY DEF LaneInv
<1>3. On(d) BY RecomputeEffect, IdleOff
<1>4. CASE e # d
  <2>1. ~On(e) BY <1>3, <1>4 DEF SafetyInv, SlotInv
  <2>2. QED BY <1>1, <1>2, <1>4, <2>1, RecomputeEffect, QuietWaits DEF On
<1>5. CASE e = d
  <2>1. finished[d] => finished'[d]
    BY DEF RecomputeStep, RecomputeRead, RecomputeWrite, RecomputeNotify, RecomputeFails, WriteDeploy
  <2>2. CASE rc'[d][Loop] = rc[d][Loop]
    BY <1>1, <1>2, <1>3, <1>5, <2>1, <2>2, TakenFrame, WaitsBusy DEF On
  <2>3. CASE p = Loop /\ run[d].pc # "clean"
    <3>1. TakenOf(d)' 
      <4>1. Untried(d)' = Untried(d) /\ Moved(d)' = Moved(d)
        BY <1>1 DEF Untried, Moved, Targets
      <4>2. QED BY <1>1, <1>2, <1>5, <2>1, <2>3, <4>1 DEF TakenOf
    <3>2. QED BY <1>1, <1>3, <1>5, <3>1, WaitsBusy DEF On
  <2>4. CASE p = Loop /\ run[d].pc = "clean"
    <3>1. /\ rc'[d][Loop].pc \in {"idle", "notify"} => finished'[d]
          /\ rc'[d][Loop].pc = "write" => rc'[d][Loop].over
      <4>1. CASE RecomputeRead(d, p)
        <5>1. rc'[d][Loop] = [pc |-> "write", agg |-> AggregateStatus(ExecStatuses(d)),
                              over |-> IsOver(ExecStatuses(d))]
          BY <2>4, <4>1 DEF RecomputeRead
        <5>2. ~Unsettled(d) /\ Targets(d) # {} BY <2>4 DEF LeftInv, Smooth, LoopInv, LoopOf
        <5>3. ExecStatuses(d) \subseteq TerminalStatuses \ {"superseded"} /\ ExecStatuses(d) # {}
          BY <1>2, <1>5, <2>4, <5>2 DEF ExecStatuses, Unsettled, Terminal, TakenOf, Targets
        <5>4. IsOver(ExecStatuses(d))
          BY <5>3 DEF IsOver, AllTerminal, AggregateStatus, Terminal, TerminalStatuses, BadStatuses
        <5>5. rc'[d][Loop].pc = "write" BY <5>1
        <5>6. rc'[d][Loop].over = IsOver(ExecStatuses(d)) BY <5>1
        <5>7. rc'[d][Loop].over BY <5>4, <5>6, Zenon
        <5>8. QED BY <5>5, <5>7
      <4>2. CASE RecomputeWrite(d, p)
        <5>1. rc[d][p].over BY <1>2, <1>5, <2>4, <4>2 DEF RecomputeWrite, TakenOf
        <5>2. finished'[d] BY <4>2, <5>1 DEF RecomputeWrite, WriteDeploy, CanFinish
        <5>3. rc'[d][Loop].pc # "write"
          BY <2>4, <4>2 DEF RecomputeWrite, RecomputeEnds, NoRecompute, Recomputes
        <5>4. QED BY <5>2, <5>3
      <4>3. CASE RecomputeNotify(d, p)
        <5>1. finished'[d] BY <1>2, <1>5, <2>1, <2>4, <4>3 DEF RecomputeNotify, TakenOf
        <5>2. rc'[d][Loop].pc = "idle"
          BY <2>4, <4>3 DEF RecomputeNotify, RecomputeEnds, NoRecompute
        <5>3. QED BY <5>1, <5>2
      <4>4. ~RecomputeFails(d, p) BY DEF RecomputeFails
      <4>5. QED BY <4>1, <4>2, <4>3, <4>4 DEF RecomputeStep
    <3>2. TakenOf(d)' BY <1>1, <1>2, <1>5, <2>4, <3>1 DEF TakenOf
    <3>3. QED BY <1>1, <1>3, <1>5, <3>2, WaitsBusy DEF On
  <2>5. p # Loop => rc'[d][Loop] = rc[d][Loop] BY RecomputeEffect DEF Members
  <2>6. QED BY <2>2, <2>3, <2>4, <2>5
<1>6. QED BY <1>4, <1>5

LEMMA RecoveryWaits ==
  ASSUME TypeOK, SafetyInv, RowsInv, LaneInv, Smooth, Recovery, NEW e \in Deploys
  PROVE  WaitsOf(e)' /\ TakenOf(e)'
<1> USE DEF RowsInv
<1> /\ recov \in Recoveries /\ None \notin Deploys /\ RowsOK /\ run \in [Deploys -> Runs]
    /\ recov.half \in Deploys \cup {None} /\ recov.latest \in Deploys \cup {None}
    /\ recov.todo \subseteq Deploys
  BY DeploysAssumption DEF TypeOK, ProcessOK, RolloutOK, None, Recoveries
<1>1. /\ proc = "recovering" /\ UNCHANGED <<handler, pending>>
      /\ ~On(e) /\ (run'[e] = run[e] \/ (RecoverEnqueue /\ e = recov.latest /\ run'[e].pc = "load"))
  BY RecoveryEffect
<1>2. WaitsOf(e) /\ TakenOf(e) /\ StoredOf(e) /\ run[e].pc = "off" BY <1>1 DEF LaneInv, On
<1>3. ~Locked BY <1>1 DEF HandInv, Locked
<1>4. ASSUME ~RecoverEnqueue PROVE TakenOf(e)' BY <1>1, <1>2, <1>4, TakenOff
<1>5. CASE RecoverSelect \/ RecoverClosed \/ RecoverList
  <2>1. ~GivingUp(e)
    <3>1. ~RecovAt("supersede")
      BY <1>5 DEF RecoverSelect, RecoverClosed, RecoverList, RecovAt
    <3>2. QED BY <1>3, <3>1 DEF GivingUp
  <2>2. UNCHANGED <<dstatus, finished, exec, run>> BY <1>5 DEF RecoverSelect, RecoverClosed, RecoverList
  <2>3. QED BY <1>2, <2>1, <2>2, WaitsFrame, TakenOff
<1>6. CASE RecoverSupersede
  <2>1. PICK d \in recov.todo :
          Sweep(d, {"queued"}, "superseded") /\ recov' = [recov EXCEPT !.half = d]
    BY <1>6 DEF RecoverSupersede
  <2>2. /\ RecovAt("supersede") /\ recov.half = None /\ UNCHANGED <<dstatus, finished, proc, run>>
    BY <1>6 DEF RecoverSupersede
  <2>3. ~GivingUp(e) BY <1>3, <2>2 DEF GivingUp
  <2>4. CASE e # d
    <3>1. exec'[e] = exec[e] BY <2>1, <2>4 DEF Sweep
    <3>2. QED BY <1>2, <2>2, <2>3, <3>1, WaitsFrame, TakenOff
  <2>5. CASE e = d
    <3>1. Targets(e)' = Targets(e) /\ (Untried(e) \/ ~Unsettled(e) => ~Unsettled(e)')
      BY <2>1, <2>5, UntriedSwept DEF TerminalStatuses
    <3>2. RecovAt("supersede")' /\ recov'.half = e BY <2>1, <2>2, <2>5 DEF RecovAt, Recoveries
    <3>3. GivingUp(e)' BY <3>2 DEF GivingUp
    <3>4. WaitsOf(e)' BY <1>2, <2>2, <3>1, <3>3 DEF WaitsOf
    <3>5. QED BY <1>2, <2>2, <3>4, TakenOff
  <2>6. QED BY <2>4, <2>5
<1>7. CASE RecoverSuperseded
  <2>1. RecovAt("supersede") /\ recov.half # None /\ SupersedeRow(recov.half) /\ UNCHANGED <<exec, run>>
    BY <1>7 DEF RecoverSuperseded
  <2>2. CASE e # recov.half
    <3>1. ~GivingUp(e) BY <1>3, <2>2 DEF GivingUp
    <3>2. dstatus'[e] = dstatus[e] /\ finished'[e] = finished[e] BY <2>1, <2>2 DEF SupersedeRow, RowsOK
    <3>3. QED BY <1>2, <2>1, <3>1, <3>2, WaitsFrame, TakenOff
  <2>3. CASE e = recov.half
    <3>1. ~Unsettled(e) BY <2>1, <2>3 DEF RecovInv, SupersedingInv
    <3>2. ~Unsettled(e)' BY <2>1, <3>1 DEF Unsettled, Targets
    <3>3. dstatus'[e] # "queued" /\ (Terminal(dstatus'[e]) => finished'[e])
      BY <1>2, <2>1, <2>3 DEF SupersedeRow, RowsOK, WaitsOf
    <3>4. QED BY <1>2, <2>1, <3>2, <3>3, TakenOff DEF WaitsOf
  <2>4. QED BY <2>2, <2>3
<1>8. CASE RecoverEnqueue
  <2>1. RecovAt("supersede") /\ recov.todo = {} /\ UNCHANGED <<dstatus, finished, exec>>
    BY <1>8 DEF RecoverEnqueue
  <2>2. ~GivingUp(e)
    <3>1. recov.half = None BY <2>1 DEF RecovInv, SupersedingInv
    <3>2. QED BY <1>3, <3>1 DEF GivingUp
  <2>3. CASE run'[e].pc = "load" /\ e = recov.latest
    <3>1. dstatus[e] = "queued" BY <2>1, <2>3 DEF RecovInv, SupersedingInv
    <3>2. Untried(e) BY <1>2, <2>2, <3>1 DEF WaitsOf
    <3>3. Untried(e)' BY <2>1, <3>2 DEF Untried, Targets
    <3>4. QED BY <2>3, <3>3, TakenLoad, WaitsBusy
  <2>4. CASE run'[e] = run[e] BY <1>2, <2>1, <2>2, <2>4, WaitsFrame, TakenOff
  <2>5. QED BY <1>1, <2>3, <2>4
<1>9. ASSUME NEW d \in Deploys, RecoverFail(d) \/ RecoverCancel(d) \/ RecoverRecompute(d)
      PROVE  FALSE
  <2>1. RestartInv BY DEF LaneInv
  <2>2. QED BY <1>9, <2>1 DEF RecoverFail, RecoverCancel, RecoverRecompute, RestartInv,
         RecovInv, ClosingInv, RecovAt
<1>10. QED BY <1>5, <1>6, <1>7, <1>8, <1>9 DEF Recovery

LEMMA ProcessWaits ==
  ASSUME TypeOK, SafetyInv, HandInv, LaneInv, Smooth, Wire \/ Start \/ Stop \/ Exit \/ AllServed,
         NEW e \in Deploys
  PROVE  WaitsOf(e)' /\ TakenOf(e)'
<1>1. WaitsOf(e) /\ TakenOf(e) BY DEF LaneInv
<1>2. CASE Exit
  <2>1. ~On(e) /\ ~Locked /\ proc = "stopping" BY <1>2 DEF Exit, SafetyInv, SlotInv, LaneInv
  <2>2. ~GivingUp(e) BY <2>1 DEF GivingUp, RecovAt
  <2>3. UNCHANGED db /\ run'[e].pc = "off" BY <1>2 DEF Exit, Dies, NoRun
  <2>4. QED BY <1>1, <2>1, <2>2, <2>3, WaitsFrame, TakenOff DEF db, On
<1>3. CASE Wire \/ Start \/ Stop \/ AllServed
  <2>1. UNCHANGED <<dstatus, finished, exec, run, rc, handler, pending>>
    BY <1>3 DEF Wire, Start, Stop, AllServed, vars, db, rollout
  <2>2. RecovAt("supersede") => RecovAt("supersede")' /\ recov' = recov
    BY <1>3 DEF RecovAt, Wire, Start, Stop, AllServed, vars
  <2>3. GivingUp(e) => GivingUp(e)' BY <2>1, <2>2 DEF GivingUp, Locked
  <2>4. TakenOf(e)' BY <1>1, <2>1, TakenFrame
  <2>5. CASE run[e].pc = "off" BY <1>1, <2>1, <2>3, <2>4, <2>5, WaitsFrame
  <2>6. CASE run[e].pc # "off" BY <2>1, <2>4, <2>6, WaitsBusy
  <2>7. QED BY <2>5, <2>6
<1>4. QED BY <1>2, <1>3

LEMMA StoredStep ==
  ASSUME TypeOK, SafetyInv, RowsInv, \A e \in Deploys : StoredOf(e), Next
  PROVE  \A e \in Deploys : StoredOf(e)'
<1> USE DEF RowsInv
<1>1. CASE \E d \in Deploys : Handler(d) BY <1>1, HandlerStored
<1>2. CASE \E d \in Deploys : LoopStep(d) BY <1>2, LoopStored
<1>3. CASE \E d \in Deploys, i \in Instances : WorkerStep(d, i) BY <1>3, WorkerStored
<1>4. CASE \E d \in Deploys, p \in Members : RecomputeStep(d, p) BY <1>4, RecomputeStored
<1>5. CASE Recovery BY <1>5, RecoveryStored
<1>6. CASE Wire \/ Start \/ Crash \/ Stop \/ Exit \/ AllServed BY <1>6, ProcessStored
<1>7. QED BY <1>1, <1>2, <1>3, <1>4, <1>5, <1>6 DEF Next

LEMMA LaneInvStep ==
  ASSUME TypeOK, SafetyInv, GateInv, RowsInv, TrackInv, LeftInv, LaneInv, Next PROVE LaneInv'
<1>1. LockBusy' BY LockStep DEF LaneInv, LockBusy, RowsInv
<1>2. \A e \in Deploys : StoredOf(e)' BY StoredStep DEF LaneInv
<1>3. ASSUME Smooth' PROVE RestartInv' /\ \A e \in Deploys : WaitsOf(e)' /\ TakenOf(e)'
  <2>1. Smooth /\ ~Fault /\ ~Crash BY <1>3, SmoothBefore
  <2>2. RestartInv' BY <2>1, RestartStep DEF LaneInv
  <2>3. ASSUME NEW e \in Deploys PROVE WaitsOf(e)' /\ TakenOf(e)'
    <3>1. CASE \E d \in Deploys : Handler(d) BY <2>1, <3>1, HandlerWaits
    <3>2. CASE \E d \in Deploys : LoopStep(d) BY <2>1, <3>2, LoopWaits
    <3>3. CASE \E d \in Deploys, i \in Instances : WorkerStep(d, i) BY <2>1, <3>3, WorkerWaits
    <3>4. CASE \E d \in Deploys, p \in Members : RecomputeStep(d, p) BY <2>1, <3>4, RecomputeWaits
    <3>5. CASE Recovery BY <2>1, <3>5, RecoveryWaits
    <3>6. CASE Wire \/ Start \/ Stop \/ Exit \/ AllServed BY <2>1, <3>6, ProcessWaits DEF RowsInv
    <3>7. QED BY <2>1, <3>1, <3>2, <3>3, <3>4, <3>5, <3>6 DEF Next
  <2>4. QED BY <2>2, <2>3
<1>4. QED BY <1>1, <1>2, <1>3 DEF LaneInv, LockBusy

LEMMA InitLane == ASSUME Init PROVE LaneInv
<1>1. \A d \in Deploys : run[d].pc = "off" /\ \A p \in Members : rc[d][p].pc = "idle"
  BY DEF Init, NoGoroutines, NoRun, NoRecompute
<1>2. ~Locked BY DEF Init, Locked
<1>3. \A d \in Deploys : StoredOf(d) BY <1>1 DEF Init, StoredOf
<1>4. RestartInv BY DEF Init, RestartInv, RecovAt
<1>5. ~Terminal(NoRow) BY DEF NoRow, Terminal, TerminalStatuses
<1>6. \A d \in Deploys : WaitsOf(d) /\ TakenOf(d)
  BY <1>1, <1>5 DEF Init, WaitsOf, TakenOf, Targets, NoRow
<1>7. QED BY <1>2, <1>3, <1>4, <1>6 DEF LaneInv

LEMMA UnchangedLane == ASSUME UNCHANGED vars, LaneInv PROVE LaneInv'
<1> USE DEF vars, db, rollout, bounds
<1>1. Locked' = Locked /\ Smooth' = Smooth BY DEF Locked, Smooth
<1>2. ASSUME NEW d \in Deploys
      PROVE  StoredOf(d)' = StoredOf(d) /\ WaitsOf(d)' = WaitsOf(d) /\ TakenOf(d)' = TakenOf(d)
  BY DEF StoredOf, WaitsOf, TakenOf, Untried, Unsettled, Moved, Targets, GivingUp, Locked, RecovAt
<1>3. RestartInv' = RestartInv BY DEF RestartInv, RecovAt
<1>4. QED BY <1>1, <1>2, <1>3 DEF LaneInv

-----------------------------------------------------------------------------
(* Every step is one of DeployLane, or one it does not see                  *)

\* What may become of a deploy in one step of DeployLane.
Ages(d) ==
  \/ Life(d)' = Life(d)
  \/ Life(d) = "absent" /\ Life(d)' \in {"waiting", "ended"}
  \/ Life(d) = "waiting" /\ Life(d)' = "active" /\ \A e \in Deploys : Life(e) # "active"
  \/ Life(d) = "active" /\ Life(d)' = "ended"
  \/ /\ Life(d) = "waiting" /\ Life(d)' = "ended"
     /\ RootDone \/ \E e \in Deploys \ {d} : Life(e) = "waiting"

LEMMA LaneMoves ==
  ASSUME NEW d \in Deploys, Ages(d), RootDone' = RootDone,
         \A e \in Deploys \ {d} : Life(e)' = Life(e)
  PROVE  Lane!Next \/ UNCHANGED Lane!vars
<1> DEFINE lives == [e \in Deploys |-> Life(e)]
<1>1. PICK to : to = Life(d)' OBVIOUS
<1>2. [e \in Deploys |-> Life(e)'] = [lives EXCEPT ![d] = to] BY <1>1
<1>3. lives[d] = Life(d) /\ \A e \in Deploys : lives[e] = Life(e) OBVIOUS
<1>4. CASE Life(d)' = Life(d) BY <1>4 DEF Lane!vars
<1>5. CASE Life(d)' # Life(d)
  <2>1. \/ Lane!Arrive(d) \/ Lane!Reject(d) \/ Lane!Begin(d) \/ Lane!End(d) \/ Lane!GiveUp(d)
    BY <1>1, <1>2, <1>3, <1>5 DEF Ages, Lane!Arrive, Lane!Reject, Lane!Begin, Lane!End, Lane!GiveUp, Lane!Become
  <2>2. QED BY <2>1 DEF Lane!Next
<1>6. QED BY <1>4, <1>5


\* The rows of a deploy say where it is.
LifeIs(d) ==
  /\ Life(d) \in {"ended", "absent", "waiting", "active"}
  /\ Life(d) = "ended" <=> (finished[d] \/ (Targets(d) # {} /\ ~Unsettled(d)))
  /\ Life(d) = "absent" <=> (~finished[d] /\ Targets(d) = {})
  /\ Life(d) = "waiting" <=> Untried(d)
  /\ Life(d) = "active" <=> (Moved(d) /\ Unsettled(d))
AllLives == RowsOK /\ RowInv /\ (\A d \in Deploys : StoredOf(d)) => \A d \in Deploys : LifeIs(d)

LEMMA LivesNow == AllLives
<1> SUFFICES ASSUME RowsOK, NEW d \in Deploys, RowOf(d), StoredOf(d) PROVE LifeIs(d)
  BY DEF AllLives, RowInv
<1>1. finished[d] => ~Unsettled(d) BY DEF RowOf
<1>2. dstatus[d] = NoRow => Targets(d) = {} BY DEF RowOf
<1>3. Targets(d) = {} /\ ~finished[d] => dstatus[d] = NoRow BY DEF StoredOf
<1>4. Untried(d) <=> Targets(d) # {} /\ \A i \in Targets(d) : exec[d][i] = "queued" BY DEF Untried
<1>5. /\ Untried(d) => Unsettled(d) /\ ~Moved(d)
      /\ Targets(d) # {} => Untried(d) \/ Moved(d)
      /\ Unsettled(d) => Targets(d) # {}
      /\ Moved(d) => Targets(d) # {}
  BY Stages
<1>6. QED BY <1>1, <1>2, <1>3, <1>4, <1>5 DEF LifeIs, Life, Ended

LEMMA LivesNext == AllLives'
  BY LivesNow, PTL

LEMMA SameLife ==
  ASSUME NEW d \in Deploys, exec'[d] = exec[d], LifeIs(d), LifeIs(d)',
         finished'[d] = finished[d] \/ (Targets(d) # {} /\ ~Unsettled(d))
  PROVE  Life(d)' = Life(d)
<1>1. Targets(d)' = Targets(d) BY DEF Targets
<1>2. Untried(d)' = Untried(d) /\ Unsettled(d)' = Unsettled(d) /\ Moved(d)' = Moved(d)
  BY <1>1 DEF Untried, Unsettled, Moved
<1>3. QED BY <1>1, <1>2 DEF LifeIs

\* Only the loop makes a deploy active.
LEMMA OffNotActive ==
  ASSUME TypeOK, LaneInv, Smooth, NEW e \in Deploys, ~On(e), LifeIs(e) PROVE Life(e) # "active"
<1>1. WaitsOf(e) BY DEF LaneInv
<1>2. Targets(e) = {} \/ Untried(e) \/ ~Unsettled(e) BY <1>1 DEF WaitsOf, On
<1>3. QED BY <1>2, Stages DEF TypeOK, LifeIs

\* An execution that moves on begins its rollout, goes on with it or ends it.
LEMMA MoveAges ==
  ASSUME RowsOK, NEW d \in Deploys, MovesOn(d), LifeIs(d), LifeIs(d)', finished'[d] = finished[d],
         \A e \in Deploys \ {d} : Life(e) # "active",
         Untried(d) /\ ~Unsettled(d)' => RootDone \/ \E e \in Deploys \ {d} : Life(e) = "waiting"
  PROVE  Ages(d)
<1>1. Targets(d)' = Targets(d) BY DEF MovesOn
<1>2. ~Unsettled(d) => ~Unsettled(d)' BY MovesKeep
<1>3. Moved(d) => Moved(d)' BY MovesKeep
<1>4. Targets(d) # {} => Untried(d)' \/ Moved(d)' BY <1>1 DEF Untried, Moved
<1>5. CASE Life(d) \in {"ended", "absent"} BY <1>1, <1>2, <1>5 DEF LifeIs, Ages
<1>6. CASE Life(d) = "waiting"
  <2>1. Targets(d) # {} /\ Untried(d) /\ ~finished[d] BY <1>6, Stages DEF LifeIs
  <2>2. CASE Unsettled(d)' BY <1>1, <1>4, <1>6, <2>1, <2>2 DEF LifeIs, Ages
  <2>3. CASE ~Unsettled(d)' BY <1>1, <1>6, <2>1, <2>3 DEF LifeIs, Ages
  <2>4. QED BY <2>2, <2>3
<1>7. CASE Life(d) = "active"
  <2>1. Moved(d)' /\ Targets(d) # {} /\ ~finished[d] BY <1>3, <1>7, Stages DEF LifeIs
  <2>2. QED BY <1>1, <1>7, <2>1 DEF LifeIs, Ages
<1>8. QED BY <1>5, <1>6, <1>7 DEF LifeIs

\* One deploy ages, all others stay as they are.
OneAges == \E d \in Deploys : Ages(d) /\ \A e \in Deploys \ {d} : Life(e)' = Life(e)
LEMMA NoneAges == ASSUME \A e \in Deploys : Life(e)' = Life(e), Deploys # {} PROVE OneAges
  BY DEF OneAges, Ages

LEMMA HandlerAges ==
  ASSUME TypeOK, SafetyInv, RowsInv, LaneInv, Smooth, ~Fault, NEW d \in Deploys, Handler(d),
         \A e \in Deploys : LifeIs(e) /\ LifeIs(e)'
  PROVE  OneAges /\ UNCHANGED proc
<1> USE DEF RowsInv
<1> /\ handler \in [Deploys -> HandlerPcs] /\ pending \in Deploys \cup {None}
    /\ dstatus \in [Deploys -> Statuses \cup {NoRow}] /\ finished \in [Deploys -> BOOLEAN]
    /\ exec \in [Deploys -> [Instances -> Statuses \cup {NoRow}]]
    /\ None \notin Deploys /\ RowsOK
  BY DeploysAssumption DEF TypeOK, ProcessOK, RowsOK, None
<1>1. UNCHANGED proc /\ proc # "recovering"
  BY DEF Handler, Build, CreateBroken, Create, CreateFails, EnqueueFree, EnqueueWait,
     EnqueueReplace, EnqueueReplaced, ReplaceFails, Serving
<1>2. ASSUME NEW e \in Deploys, exec'[e] = exec[e],
             finished'[e] = finished[e] \/ (Targets(e) # {} /\ ~Unsettled(e))
      PROVE  Life(e)' = Life(e)
  BY <1>2, SameLife
<1>3. CASE Create(d) \/ CreateBroken(d)
  <2>1. \A e \in Deploys \ {d} : Life(e)' = Life(e)
    <3>1. \A e \in Deploys \ {d} : exec'[e] = exec[e] /\ finished'[e] = finished[e]
      BY <1>3 DEF Create, CreateBroken
    <3>2. QED BY <1>2, <3>1
  <2>2. ~finished[d] /\ Targets(d) = {}
    BY <1>3 DEF Create, CreateBroken, SafetyInv, BornInv, Unborn, Untouched, Targets
  <2>3. Life(d) = "absent" BY <2>2 DEF LifeIs
  <2>4. CASE CreateBroken(d)
    <3>1. finished'[d] BY <2>4 DEF CreateBroken
    <3>2. QED BY <1>1, <2>1, <2>3, <3>1 DEF LifeIs, Ages, OneAges
  <2>5. CASE Create(d)
    <3>1. PICK t \in Triggers[d] : exec' = [exec EXCEPT ![d] =
                     [i \in Instances |-> IF i \in t.targets THEN "queued" ELSE NoRow]]
      BY <2>5 DEF Create
    <3>2. t.targets # {} /\ t.targets \subseteq Instances BY TriggerAssumption
    <3>3. Untried(d)' BY <3>1, <3>2 DEF Untried, Targets, NoRow
    <3>4. QED BY <1>1, <2>1, <2>3, <3>3 DEF LifeIs, Ages, OneAges
  <2>6. QED BY <1>3, <2>4, <2>5
<1>4. CASE EnqueueReplace(d)
  <2>0. PICK old : old = pending OBVIOUS
  <2>1. /\ ~Locked /\ old # None /\ Sweep(old, {"queued"}, "superseded")
        /\ UNCHANGED finished /\ handler[d] = "stored"
    BY <1>4, <2>0 DEF EnqueueReplace
  <2>2. old \in Deploys \ {d} /\ dstatus[old] = "queued" /\ ~On(old)
    BY <2>0, <2>1 DEF HandInv, Fresh
  <2>3. ~GivingUp(old) BY <1>1, <2>1 DEF GivingUp, RecovAt
  <2>4. Untried(old)
    <3>1. WaitsOf(old) BY <2>2 DEF LaneInv
    <3>2. QED BY <2>2, <2>3, <3>1 DEF WaitsOf, On
  <2>5. Untried(d) BY <2>1 DEF LaneInv, StoredOf
  <2>6. ~Unsettled(old)' /\ Targets(old)' = Targets(old)
    BY <2>1, <2>2, <2>4, UntriedSwept DEF TerminalStatuses
  <2>7. Life(old) = "waiting" /\ Life(d) = "waiting" BY <2>2, <2>4, <2>5 DEF LifeIs
  <2>8. Life(old)' = "ended" BY <2>2, <2>4, <2>6 DEF LifeIs, Untried
  <2>9. \A e \in Deploys \ {old} : Life(e)' = Life(e)
    <3>1. \A e \in Deploys \ {old} : exec'[e] = exec[e] BY <2>1 DEF Sweep
    <3>2. QED BY <1>2, <2>1, <3>1
  <2>10. QED BY <1>1, <2>2, <2>7, <2>8, <2>9 DEF OneAges, Ages
<1>5. CASE EnqueueReplaced(d)
  <2>1. SupersedeRow(pending) /\ UNCHANGED exec /\ handler[d] = "superseding"
    BY <1>5 DEF EnqueueReplaced
  <2>2. pending \in Deploys /\ dstatus[pending] = "queued" /\ ~Unsettled(pending)
    BY <2>1 DEF HandInv, Fresh
  <2>3. Targets(pending) # {}
    <3>1. StoredOf(pending) BY <2>2 DEF LaneInv
    <3>2. QED BY <2>2, <3>1 DEF StoredOf, NoRow
  <2>4. \A e \in Deploys : finished'[e] = finished[e] \/ (Targets(e) # {} /\ ~Unsettled(e))
    BY <2>1, <2>2, <2>3 DEF SupersedeRow
  <2>5. QED BY <1>1, <1>2, <2>1, <2>4, NoneAges
<1>6. CASE Build(d) \/ EnqueueFree(d) \/ EnqueueWait(d)
  <2>1. UNCHANGED db BY <1>6 DEF Build, EnqueueFree, EnqueueWait
  <2>2. QED BY <1>1, <1>2, <2>1, NoneAges DEF db
<1>7. ~CreateFails(d) /\ ~ReplaceFails(d) BY DEF CreateFails, ReplaceFails
<1>8. QED BY <1>3, <1>4, <1>5, <1>6, <1>7 DEF Handler

LEMMA LoopAges ==
  ASSUME TypeOK, SafetyInv, GateInv, RowsInv, LaneInv, Smooth, ~Fault, NEW d \in Deploys,
         LoopStep(d), \A e \in Deploys : LifeIs(e) /\ LifeIs(e)'
  PROVE  OneAges /\ UNCHANGED proc
<1> RowsOK BY DEF TypeOK
<1>1. UNCHANGED <<proc, finished>> /\ On(d) /\ \A e \in Deploys \ {d} : ~On(e) BY LoopEffect
<1>2. ASSUME NEW e \in Deploys, e \in Expired, Deleted(e) \/ MovesOn(e), Cleanup(d)
      PROVE  Life(e)' = Life(e)
  <2>1. finished[e]
    <3>1. Terminal(dstatus[e]) BY <1>2 DEF Expired
    <3>2. CASE e = d BY <1>2, <3>2 DEF LaneInv, TakenOf, Cleanup, At
    <3>3. CASE e # d BY <1>1, <3>1, <3>3 DEF LaneInv, WaitsOf, On
    <3>4. QED BY <3>2, <3>3
  <2>2. QED BY <1>1, <2>1 DEF LifeIs
<1>3. ASSUME NEW e \in Deploys, e # d \/ exec'[e] = exec[e] PROVE Life(e)' = Life(e)
  <2>1. CASE exec'[e] = exec[e] BY <1>1, <2>1, SameLife
  <2>2. CASE exec'[e] # exec[e] BY <1>2, <1>3, <2>2, LoopRows
  <2>3. QED BY <2>1, <2>2
<1>4. CASE ~CancelOne(d)
  <2>1. UNCHANGED exec \/ Cleanup(d)
    BY <1>4 DEF LoopStep, Load, LoadFails, CancelWave, FirstAlone, WholeWave,
       JoinFirst, FanOut, Join, FanDone, SweepDone, LastWaveDone, NextDeploy, EndWave, db
  <2>2. exec'[d] = exec[d] \/ (d \in Expired /\ Cleanup(d))
    BY <2>1 DEF Cleanup, TypeOK, RowsOK
  <2>3. Life(d)' = Life(d)
    <3>1. CASE exec'[d] = exec[d] BY <1>3, <3>1
    <3>2. CASE d \in Expired /\ Cleanup(d) BY <1>2, <3>2, LoopRows
    <3>3. QED BY <2>2, <3>1, <3>2
  <2>4. QED BY <1>1, <1>3, <2>3, NoneAges
<1>5. CASE CancelOne(d)
  <2>1. MovesOn(d) BY <1>5, LoopRows DEF CancelOne, Cleanup, At
  <2>2. \A e \in Deploys \ {d} : Life(e) # "active" BY <1>1, OffNotActive
  <2>3. Untried(d) => RootDone
    <3>1. TakenOf(d) BY DEF LaneInv
    <3>2. run[d].pc \in {"fan", "sweep"} /\ (run[d].pc = "fan" => run[d].failed)
      BY <1>5 DEF CancelOne, At
    <3>3. Untried(d) => ~run[d].failed BY <3>1, <3>2, Stages DEF TakenOf
    <3>4. run[d].pc = "sweep" => run[d].failed \/ RootDone BY DEF GateInv, GateOf, Gated
    <3>5. QED BY <3>2, <3>3, <3>4
  <2>4. Ages(d) BY <1>1, <2>1, <2>2, <2>3, MoveAges
  <2>5. QED BY <1>1, <1>3, <2>4 DEF OneAges
<1>6. QED BY <1>4, <1>5

LEMMA WorkerAges ==
  ASSUME TypeOK, SafetyInv, LaneInv, Smooth, NEW d \in Deploys, NEW i \in Instances,
         WorkerStep(d, i), \A e \in Deploys : LifeIs(e) /\ LifeIs(e)'
  PROVE  OneAges /\ UNCHANGED proc
<1> exec \in [Deploys -> [Instances -> Statuses \cup {NoRow}]] /\ RowsOK BY DEF TypeOK, RowsOK
<1>1. UNCHANGED <<finished, proc>> BY WorkerEffect
<1>2. PICK w \in Workers, s \in Statuses \cup {NoRow} :
        exec' = [exec EXCEPT ![d][i] = s] /\ WorkerDoes(d, i, w, s)
  BY WorkerEffect
<1>3. On(d) BY <1>2 DEF WorkerDoes, SafetyInv, SlotInv, On
<1>4. \A e \in Deploys \ {d} : Life(e) # "active"
  <2>1. \A e \in Deploys \ {d} : ~On(e) BY <1>3 DEF SafetyInv, SlotInv
  <2>2. QED BY <2>1, OffNotActive
<1>5. \A e \in Deploys \ {d} : Life(e)' = Life(e)
  <2>1. \A e \in Deploys \ {d} : exec'[e] = exec[e] BY <1>2
  <2>2. QED BY <1>1, <2>1, SameLife
<1>6. MovesOn(d)
  <2>1. s = exec[d][i] \/ (~Terminal(exec[d][i]) /\ s \in Statuses \ {"queued"})
    BY <1>2 DEF WorkerDoes, Statuses, Terminal, TerminalStatuses
  <2>2. Targets(d)' = Targets(d) BY WorkerTargets
  <2>3. QED BY <1>2, <2>1, <2>2 DEF MovesOn
<1>7. Untried(d) => Unsettled(d)'
  <2>1. SUFFICES ASSUME Untried(d) PROVE Unsettled(d)' OBVIOUS
  <2>2. \A j \in Instances : exec[d][j] \in {"queued", NoRow} BY <2>1 DEF Untried, Targets
  <2>3. s \in {"dispatching", "queued", NoRow} BY <1>2, <2>2 DEF WorkerDoes, NoRow
  <2>4. \A j \in Instances : exec'[d][j] \in {"dispatching", "queued", NoRow}
    BY <1>2, <2>2, <2>3
  <2>5. Targets(d)' # {} /\ Targets(d)' \subseteq Instances
    BY <1>6, <2>1 DEF MovesOn, Untried, Targets
  <2>6. \A j \in Targets(d)' : ~Terminal(exec'[d][j])
    BY <2>4, <2>5 DEF Terminal, TerminalStatuses, NoRow
  <2>7. QED BY <2>5, <2>6 DEF Unsettled
<1>8. Ages(d) BY <1>1, <1>4, <1>6, <1>7, MoveAges
<1>9. QED BY <1>1, <1>5, <1>8 DEF OneAges

LEMMA RecomputeAges ==
  ASSUME TypeOK, SafetyInv, LoopInv, NEW d \in Deploys, NEW p \in Members, RecomputeStep(d, p),
         \A e \in Deploys : LifeIs(e) /\ LifeIs(e)'
  PROVE  OneAges /\ UNCHANGED proc
<1>1. /\ UNCHANGED <<exec, proc>> /\ rc[d][p].pc # "idle"
      /\ \A e \in Deploys \ {d} : finished'[e] = finished[e]
  BY RecomputeEffect
<1>2. finished'[d] = finished[d] \/ (Targets(d) # {} /\ ~Unsettled(d))
  <2>1. CASE RecomputeWrite(d, p) /\ rc[d][p].over
    <3>1. ~Unsettled(d) BY <2>1 DEF RecomputeWrite, LoopInv, ReadOf
    <3>2. run[d].pc \notin {"off", "load", "next"}
      BY <1>1 DEF LoopInv, LoopOf, SafetyInv, SlotInv, Members
    <3>3. QED BY <3>1, <3>2 DEF LoopInv, LoopOf
  <2>2. CASE ~(RecomputeWrite(d, p) /\ rc[d][p].over)
    BY <2>2 DEF RecomputeStep, RecomputeRead, RecomputeWrite, RecomputeNotify, RecomputeFails,
       WriteDeploy
  <2>3. QED BY <2>1, <2>2
<1>3. QED BY <1>1, <1>2, SameLife, NoneAges

LEMMA RecoveryAges ==
  ASSUME TypeOK, SafetyInv, RowsInv, LaneInv, Smooth, Recovery,
         \A e \in Deploys : LifeIs(e) /\ LifeIs(e)', Deploys # {}
  PROVE  OneAges
<1> USE DEF RowsInv
<1> /\ recov \in Recoveries /\ None \notin Deploys /\ RowsOK
    /\ recov.half \in Deploys \cup {None} /\ recov.latest \in Deploys \cup {None}
    /\ recov.todo \subseteq Deploys
  BY DeploysAssumption DEF TypeOK, ProcessOK, None, Recoveries
<1>1. ASSUME NEW e \in Deploys, exec'[e] = exec[e],
             finished'[e] = finished[e] \/ (Targets(e) # {} /\ ~Unsettled(e))
      PROVE  Life(e)' = Life(e)
  BY <1>1, SameLife
<1>2. proc = "recovering" /\ \A e \in Deploys : ~On(e) BY RecoveryEffect
<1>3. \A e \in Deploys : WaitsOf(e) /\ StoredOf(e) BY DEF LaneInv
<1>4. CASE RecoverSelect \/ RecoverClosed \/ RecoverList \/ RecoverEnqueue
  BY <1>1, <1>4, NoneAges DEF RecoverSelect, RecoverClosed, RecoverList, RecoverEnqueue
<1>5. CASE RecoverSupersede
  <2>1. PICK d \in recov.todo : Sweep(d, {"queued"}, "superseded") BY <1>5 DEF RecoverSupersede
  <2>2. RecovAt("supersede") /\ recov.half = None /\ UNCHANGED finished BY <1>5 DEF RecoverSupersede
  <2>3. \A e \in Deploys \ {d} : Life(e)' = Life(e)
    <3>1. \A e \in Deploys \ {d} : exec'[e] = exec[e] BY <2>1 DEF Sweep
    <3>2. QED BY <1>1, <2>2, <3>1
  <2>4. CASE ~Untried(d)
    <3>1. exec'[d] = exec[d]
      <4>1. CASE Targets(d) = {}
        <5>1. exec[d] = [i \in Instances |-> exec[d][i]] BY DEF RowsOK
        <5>2. \A i \in Instances : exec[d][i] # "queued" BY <4>1 DEF Targets, NoRow
        <5>3. exec'[d] = [i \in Instances |-> IF exec[d][i] \in {"queued"} THEN "superseded" ELSE exec[d][i]]
          BY <2>1 DEF Sweep, RowsOK
        <5>4. QED BY <5>1, <5>2, <5>3
      <4>2. CASE ~Unsettled(d) BY <2>1, <4>2, UntriedSwept DEF TerminalStatuses
      <4>3. QED BY <1>2, <1>3, <2>4, <4>1, <4>2 DEF WaitsOf, On
    <3>2. QED BY <1>1, <2>2, <2>3, <3>1, NoneAges
  <2>5. CASE Untried(d)
    <3>1. recov.latest \in Deploys \ {d} /\ dstatus[recov.latest] = "queued"
      BY <2>1, <2>2 DEF LaneInv, RestartInv, RecovInv, SupersedingInv
    <3>2. ~GivingUp(recov.latest)
      BY <1>2, <2>2, <3>1 DEF GivingUp, HandInv, Locked
    <3>3. Untried(recov.latest) BY <1>2, <1>3, <3>1, <3>2 DEF WaitsOf, On
    <3>4. ~Unsettled(d)' /\ Targets(d)' = Targets(d) BY <2>1, <2>5, UntriedSwept DEF TerminalStatuses
    <3>5. Life(d) = "waiting" /\ Life(d)' = "ended" /\ Life(recov.latest) = "waiting"
      BY <2>1, <2>5, <3>1, <3>3, <3>4 DEF LifeIs, Untried
    <3>6. QED BY <2>1, <2>3, <3>1, <3>5 DEF OneAges, Ages
  <2>6. QED BY <2>4, <2>5
<1>6. CASE RecoverSuperseded
  <2>1. RecovAt("supersede") /\ recov.half # None /\ SupersedeRow(recov.half) /\ UNCHANGED exec
    BY <1>6 DEF RecoverSuperseded
  <2>2. recov.half \in Deploys /\ ~Unsettled(recov.half)
    BY <2>1 DEF RecovInv, SupersedingInv
  <2>3. dstatus[recov.half] = "queued" => Targets(recov.half) # {}
    BY <1>3, <2>2 DEF StoredOf, NoRow
  <2>4. \A e \in Deploys : finished'[e] = finished[e] \/ (Targets(e) # {} /\ ~Unsettled(e))
    BY <2>1, <2>2, <2>3 DEF SupersedeRow, RowsOK
  <2>5. QED BY <1>1, <2>1, <2>4, NoneAges
<1>7. ASSUME NEW d \in Deploys, RecoverFail(d) \/ RecoverCancel(d) \/ RecoverRecompute(d)
      PROVE  FALSE
  <2>1. RestartInv BY DEF LaneInv
  <2>2. QED BY <1>7, <2>1 DEF RecoverFail, RecoverCancel, RecoverRecompute, RestartInv,
         RecovInv, ClosingInv, RecovAt
<1>8. QED BY <1>4, <1>5, <1>6, <1>7 DEF Recovery

LEMMA LaneStep ==
  ASSUME TypeOK, TypeOK', SafetyInv, GateInv, RowsInv, RowsInv', LaneInv, LaneInv', Next, Smooth'
  PROVE  Lane!Next \/ UNCHANGED Lane!vars
<1>1. Smooth /\ ~Fault /\ ~Crash BY SmoothBefore
<1>2. \A e \in Deploys : LifeIs(e) /\ LifeIs(e)'
  BY LivesNow, LivesNext DEF AllLives, TypeOK, RowsInv, LaneInv
<1>3. ASSUME OneAges, RootDone' = RootDone PROVE Lane!Next \/ UNCHANGED Lane!vars
  BY <1>3, LaneMoves DEF OneAges
<1>4. ASSUME \A e \in Deploys : Life(e)' = Life(e), RootDone' = RootDone
      PROVE  Lane!Next \/ UNCHANGED Lane!vars
  BY <1>4 DEF Lane!vars
<1>5. ASSUME NEW d \in Deploys, Handler(d) PROVE Lane!Next \/ UNCHANGED Lane!vars
  <2>1. OneAges /\ UNCHANGED proc BY <1>1, <1>2, <1>5, HandlerAges
  <2>2. QED BY <1>3, <2>1 DEF RootDone
<1>6. ASSUME NEW d \in Deploys, LoopStep(d) PROVE Lane!Next \/ UNCHANGED Lane!vars
  <2>1. OneAges /\ UNCHANGED proc BY <1>1, <1>2, <1>6, LoopAges
  <2>2. QED BY <1>3, <2>1 DEF RootDone
<1>7. ASSUME NEW d \in Deploys, NEW i \in Instances, WorkerStep(d, i)
      PROVE  Lane!Next \/ UNCHANGED Lane!vars
  <2>1. OneAges /\ UNCHANGED proc BY <1>1, <1>2, <1>7, WorkerAges
  <2>2. QED BY <1>3, <2>1 DEF RootDone
<1>8. ASSUME NEW d \in Deploys, NEW p \in Members, RecomputeStep(d, p)
      PROVE  Lane!Next \/ UNCHANGED Lane!vars
  <2>1. OneAges /\ UNCHANGED proc BY <1>2, <1>8, RecomputeAges DEF RowsInv
  <2>2. QED BY <1>3, <2>1 DEF RootDone
<1>9. CASE Recovery
  <2>1. RootDone' = RootDone BY <1>9, RecoveryEffect DEF RootDone
  <2>2. CASE Deploys = {} BY <1>4, <2>1, <2>2
  <2>3. CASE Deploys # {} BY <1>1, <1>2, <1>3, <1>9, <2>1, <2>3, RecoveryAges
  <2>4. QED BY <2>2, <2>3
<1>10. CASE Wire \/ Start \/ Stop \/ Exit \/ AllServed
  <2>1. UNCHANGED db BY <1>10 DEF Wire, Start, Stop, Exit, AllServed, Dies, vars
  <2>2. \A e \in Deploys : Life(e)' = Life(e) BY <1>2, <2>1, SameLife DEF db
  <2>3. CASE Wire \/ Start \/ AllServed
    <3>1. RootDone' = RootDone BY <2>3 DEF Wire, Start, AllServed, vars, RootDone
    <3>2. QED BY <1>4, <2>2, <3>1
  <2>4. CASE Stop \/ Exit
    <3>1. RootDone' = ~RootDone BY <2>4 DEF Stop, Exit, Dies, RootDone
    <3>2. Lane!Toggle BY <2>2, <3>1 DEF Lane!Toggle
    <3>3. QED BY <3>2 DEF Lane!Next
  <2>5. QED BY <1>10, <2>3, <2>4
<1>11. QED BY <1>1, <1>5, <1>6, <1>7, <1>8, <1>9, <1>10 DEF Next

LEMMA UnchangedLife == ASSUME UNCHANGED vars PROVE UNCHANGED Lane!vars
<1> USE DEF vars, db
<1>1. RootDone' = RootDone BY DEF RootDone
<1>2. \A e \in Deploys : Life(e)' = Life(e) BY DEF Life, Ended, Unsettled, Targets
<1>3. QED BY <1>1, <1>2 DEF Lane!vars

LEMMA InitLife == ASSUME Init PROVE Lane!Init
<1>1. \A d \in Deploys : Life(d) = "absent"
  BY DEF Init, Life, Ended, Targets, NoRow
<1>2. ~RootDone BY DEF Init, RootDone
<1>3. QED BY <1>1, <1>2 DEF Lane!Init

LEMMA LaneInvHolds == Spec => []LaneInv
<1>1. Init => LaneInv BY InitLane
<1>2. TypeOK /\ SafetyInv /\ GateInv /\ RowsInv /\ TrackInv /\ LeftInv /\ LaneInv /\ [Next]_vars
      => LaneInv'
  BY LaneInvStep, UnchangedLane
<1>3. QED
  BY <1>1, <1>2, TypeCorrect, Safety, GateHolds, RowsHold, TrackHolds, PTL DEF Spec

(* Rollout implements DeployLane until a statement fails or the process is *)
(* killed, whatever webhooks, supersedes, graceful restarts and recoveries *)
(* come together (scheduler.go:64-293, deploys.go:179-373): the deploys of *)
(* a service run one after the other, one that waits is given up only for  *)
(* another that waits or when main stops, and what has ended stays so.     *)
THEOREM LaneIsKept == Spec => KeepsLane
<1>1. Init => Lane!Init BY InitLife
<1>2. TypeOK /\ TypeOK' /\ SafetyInv /\ GateInv /\ RowsInv /\ RowsInv' /\ LaneInv /\ LaneInv'
      /\ [Next]_vars => [Smooth' => Lane!Next]_(Lane!vars)
  BY LaneStep, UnchangedLife
<1>3. QED
  BY <1>1, <1>2, TypeCorrect, Safety, GateHolds, RowsHold, LaneInvHolds, PTL DEF Spec, KeepsLane
=============================================================================
