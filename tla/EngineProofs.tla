----------------------------- MODULE EngineProofs -----------------------------
(***************************************************************************)
(* Theorems about Engine, for every set of validated pipelines and images, *)
(* and any number of executions, crashes and failing file operations.      *)
(***************************************************************************)
EXTENDS Engine, SequenceTheorems, WellFoundedInduction, TLAPS

-----------------------------------------------------------------------------
(* Steps                                                                    *)

\* The ops at work, and where they are.
Working == \/ Resolve \/ Pin \/ Pull \/ Up \/ Command \/ CreateTemp \/ Download
           \/ Clear \/ Unpack \/ Discard \/ SwapStep \/ Cleanup
OpPcs == {"resolve", "pin", "pull", "up", "command", "create", "fetch", "clear", "unpack",
          "discard", "cleanup"} \cup Swaps

LEMMA NextIs ==
  ASSUME [Next]_vars
  PROVE  \/ \E p \in Pipelines, d \in Digests : Begin(p, d)
         \/ NextStep \/ Try \/ Succeeds \/ Fails \/ Retries \/ Pause
         \/ \E ok \in BOOLEAN : Verify(ok)
         \/ Working \/ Deadline \/ Expire \/ Crash \/ (\E d \in Images : Push(d)) \/ UNCHANGED vars
  BY DEF Next, Loop, Commands, Files, Working, AllRun

LEMMA Kept ==
  ASSUME Working
  PROVE  /\ UNCHANGED <<runs, pipe, spec, step, attempt, result, verdict, deadline, expired, tried, won, late>>
         /\ UNCHANGED <<latest, pushes, crashes>>
         /\ pc \in OpPcs /\ pc' \in OpPcs \cup {"judge"}
<1> USE DEF ByOp, World, ByExtract, ByFile, Goes, Broken, Outcome, OpPcs, Swaps
<1>1. Leave \in OpPcs \cup {"judge"} BY DEF Leave
<1>2. CASE Resolve \/ Pin \/ Pull \/ Up \/ Command BY <1>2 DEF Resolve, Pin, Pull, Up, Command
<1>3. CASE CreateTemp \/ Download \/ Clear \/ Unpack \/ Discard \/ Cleanup
  BY <1>1, <1>3 DEF CreateTemp, Download, Clear, Unpack, Discard, Cleanup
<1>4. CASE SwapStep BY <1>1, <1>4 DEF SwapStep, Swap
<1>5. QED BY <1>2, <1>3, <1>4 DEF Working

LEMMA Spent == ASSUME Working, faults \in 0..MaxFaults PROVE faults' \in 0..MaxFaults /\ faults' >= faults
<1> USE EngineBoundAssumption DEF Fault
<1>1. CASE Resolve \/ Pin \/ Pull \/ Up \/ Command BY <1>1 DEF Resolve, Pin, Pull, Up, Command
<1>2. CASE CreateTemp \/ Download \/ Clear \/ Unpack \/ Discard \/ Cleanup
  BY <1>2 DEF CreateTemp, Download, Clear, Unpack, Discard, Cleanup
<1>3. CASE SwapStep BY <1>3 DEF SwapStep, Swap
<1>4. QED BY <1>1, <1>2, <1>3 DEF Working

LEMMA ErrorIs == \A kind \in Kinds : Error(kind) \in Kinds BY DEF Error, Kinds

\* A pipeline that was accepted.
LEMMA Accepted ==
  ASSUME NEW p \in Pipelines
  PROVE  /\ p \in Seq(Step) /\ Len(p) \in Nat \ {0} /\ DOMAIN p = 1..Len(p) /\ ValidPin(p) /\ ValidRetries(p)
         /\ \A k \in DOMAIN p : p[k] \in Step /\ k \in Nat \ {0} /\ Attempts(p[k]) \in Nat \ {0}
                                /\ (Attempts(p[k]) > 1 => p[k].op \in Retryable)
<1>1. p \in Seq(Step) /\ p # <<>> /\ ValidPin(p) /\ ValidRetries(p) BY PipelinesAssumption
<1>2. Len(p) \in Nat /\ DOMAIN p = 1..Len(p) /\ Len(p) # 0 BY <1>1, LenProperties, EmptySeq
<1>3. ASSUME NEW k \in DOMAIN p
      PROVE  /\ p[k] \in Step /\ k \in Nat \ {0} /\ Attempts(p[k]) \in Nat \ {0}
             /\ Attempts(p[k]) > 1 => p[k].op \in Retryable
  <2>1. p[k] \in Step /\ k \in Nat \ {0} BY <1>1, <1>2, ElementOfSeq
  <2>2. p[k].retries \in Nat \cup {Unset} /\ (p[k].retries # Unset => p[k].op \in Retryable)
    BY <1>1, <2>1 DEF Step, ValidRetries
  <2>3. CASE p[k].retries = Unset BY <2>1, <2>3 DEF Attempts, DefaultRetries, Retryable
  <2>4. CASE p[k].retries # Unset BY <2>1, <2>2, <2>4 DEF Attempts, Unset
  <2>5. QED BY <2>3, <2>4
<1>4. QED BY <1>1, <1>2, <1>3

LEMMA Here ==
  ASSUME TypeOK, InPlace
  PROVE  /\ pipe \in Pipelines /\ Len(pipe) \in Nat \ {0} /\ DOMAIN pipe = 1..Len(pipe)
         /\ step \in Nat \ {0} /\ step <= Len(pipe) + 1 /\ attempt \in Nat /\ late \in Nat
         /\ runs \in Nat /\ crashes \in Nat /\ faults \in Nat /\ pushes \in Nat
         /\ (runs > 0 => runs \in Versions)
         /\ pc \notin {"idle", "step"} =>
              /\ step \in DOMAIN pipe /\ This \in Step /\ Attempts(This) \in Nat \ {0} /\ attempt <= Attempts(This)
              /\ Attempts(This) > 1 => This.op \in Retryable
<1>1. pipe \in Pipelines BY DEF TypeOK
<1>2. Len(pipe) \in Nat \ {0} /\ DOMAIN pipe = 1..Len(pipe) BY <1>1, Accepted
<1>3. step \in 1..Len(pipe) + 1 /\ late \in Nat BY DEF TypeOK
<1>4. /\ runs \in 0..MaxRuns /\ crashes \in 0..MaxCrashes /\ faults \in 0..MaxFaults /\ pushes \in 0..MaxPushes
      /\ MaxRuns \in Nat /\ 1..MaxRuns \subseteq Versions
      /\ MaxPushes \in Nat /\ MaxCrashes \in Nat /\ MaxFaults \in Nat
  BY RunsAssumption, EngineBoundAssumption DEF TypeOK
<1>5. ASSUME step \in DOMAIN pipe
      PROVE  /\ This \in Step /\ Attempts(This) \in Nat \ {0} /\ attempt \in Nat /\ attempt <= Attempts(This)
             /\ Attempts(This) > 1 => This.op \in Retryable
  <2>1. This \in Step /\ Attempts(This) \in Nat \ {0} /\ (Attempts(This) > 1 => This.op \in Retryable)
    BY <1>1, <1>5, Accepted DEF This
  <2>2. attempt \in 0..Attempts(This) BY <1>5 DEF TypeOK
  <2>3. QED BY <2>1, <2>2
<1>6. attempt \in Nat
  <2>1. CASE step \in DOMAIN pipe BY <1>5, <2>1
  <2>2. CASE step \notin DOMAIN pipe BY <2>2 DEF TypeOK
  <2>3. QED BY <2>1, <2>2
<1>7. pc \notin {"idle", "step"} => step \in DOMAIN pipe BY DEF InPlace
<1>8. QED BY <1>1, <1>2, <1>3, <1>4, <1>5, <1>6, <1>7

LEMMA HalvesIn == \A v \in Versions : Halves(v) \subseteq Content /\ Whole(Halves(v)) /\ Halves(v) # {}
  BY DEF Content, Whole, Halves

-----------------------------------------------------------------------------
(* Types                                                                    *)

\* The directories stay within what is unpacked.
LEMMA DirsKept == ASSUME TypeOK, InPlace, Working \/ Crash PROVE DirsOK'
<1> USE DEF ClearNew, Cleared, Unpacked, PartlyUnpacked, DropOld, PartlyCleared, PartlyDropped, SetAside,
            Install, RollBack, Missing
<1>1. DirsOK BY DEF TypeOK
<1>2. pc # "idle" => Halves(runs) \subseteq Content BY Here, HalvesIn DEF InPlace
<1>3. CASE UNCHANGED dirs BY <1>1, <1>3 DEF dirs, DirsOK
<1>4. CASE ClearNew \/ PartlyCleared \/ DropOld \/ PartlyDropped \/ SetAside \/ Install \/ RollBack
  BY <1>1, <1>3, <1>4 DEF DirsOK
<1>5. CASE (Unpacked(runs) \/ PartlyUnpacked(runs)) /\ pc # "idle" BY <1>1, <1>2, <1>5 DEF DirsOK
<1>6. CASE Resolve \/ Pin \/ Pull \/ Up \/ Command \/ CreateTemp \/ Download \/ Cleanup
  BY <1>3, <1>6 DEF Resolve, Pin, Pull, Up, Command, CreateTemp, Download, Cleanup
<1>7. CASE Clear \/ Unpack \/ Discard BY <1>3, <1>4, <1>5, <1>7 DEF Clear, Unpack, Discard
<1>8. CASE SwapStep BY <1>3, <1>4, <1>8 DEF SwapStep, Swap, NoEffect
<1>9. CASE Crash BY <1>3, <1>4, <1>5, <1>9 DEF Crash, NoEffect
<1>10. QED BY <1>6, <1>7, <1>8, <1>9 DEF Working

LEMMA WorkingType == ASSUME TypeOK, InPlace, Working PROVE TypeOK'
<1>1. /\ UNCHANGED <<runs, pipe, spec, step, attempt, result, verdict, deadline, expired, tried, won, late>>
      /\ UNCHANGED <<latest, pushes, crashes>>
      /\ pc' \in Pcs
  BY Kept DEF OpPcs, Pcs, Swaps
<1>2. DirsOK' /\ faults' \in 0..MaxFaults BY DirsKept, Spent DEF TypeOK
<1>3. /\ err' \in {"none", "error", "permanent"} /\ pinned' \in Digests /\ resolved' \in Digests
      /\ tag' \in Digests /\ container' \in Digests /\ temp' \in BOOLEAN
  <2> USE ErrorIs DEF Kinds, Broken, Outcome, ByFile, ByExtract, docker, Cleaned
  <2>1. /\ err \in {"none", "error", "permanent"} /\ pinned \in Digests /\ resolved \in Digests
        /\ tag \in Digests /\ container \in Digests /\ temp \in BOOLEAN /\ latest \in Digests
    BY DEF TypeOK, Digests
  <2>2. CASE Resolve \/ Pin BY <2>1, <2>2 DEF Resolve, Pin
  <2>3. CASE Pull \/ Up \/ Command BY <2>1, <2>3 DEF Pull, Up, Command
  <2>4. CASE CreateTemp \/ Download \/ Cleanup BY <2>1, <2>4 DEF CreateTemp, Download, Cleanup
  <2>5. CASE Clear \/ Unpack \/ Discard BY <2>1, <2>5 DEF Clear, Unpack, Discard
  <2>6. CASE SwapStep BY <2>1, <2>6 DEF SwapStep, Swap
  <2>7. QED BY <2>2, <2>3, <2>4, <2>5, <2>6 DEF Working
<1>4. attempt' \in 0..(IF step' \in DOMAIN pipe' THEN Attempts(This)' ELSE 0) BY <1>1 DEF TypeOK, This, Attempts
<1>5. QED BY <1>1, <1>2, <1>3, <1>4 DEF TypeOK

LEMMA BeginType == ASSUME TypeOK, NEW p \in Pipelines, NEW d \in Digests, Begin(p, d) PROVE TypeOK'
<1>1. runs' \in 0..MaxRuns BY RunsAssumption DEF Begin, TypeOK
<1>2. /\ pipe' \in Pipelines /\ step' = 1 /\ attempt' = 0 /\ spec' \in Digests /\ result' \in Digests
      /\ pinned' \in Digests /\ resolved' \in Digests
  BY DEF Begin, Digests
<1>3. step' \in DOMAIN pipe' /\ Attempts(pipe'[step']) \in Nat \ {0} /\ step' \in 1..Len(pipe') + 1
  BY <1>2, Accepted
<1>4. attempt' \in 0..(IF step' \in DOMAIN pipe' THEN Attempts(This)' ELSE 0)
  BY <1>2, <1>3 DEF This, Attempts, DefaultRetries
<1>5. tried' \in Seq(DOMAIN pipe') /\ won' = {} BY EmptySeq DEF Begin
<1>6. QED BY <1>1, <1>2, <1>3, <1>4, <1>5 DEF Begin, World, TypeOK, dirs, DirsOK, Goes, Pcs

\* An attempt of a step there is.
LEMMA AttemptIs ==
  ASSUME TypeOK, UNCHANGED pipe, step' \in DOMAIN pipe, attempt' \in 0..Attempts(pipe[step'])
  PROVE  attempt' \in 0..(IF step' \in DOMAIN pipe' THEN Attempts(This)' ELSE 0)
  BY DEF This, Attempts, DefaultRetries

LEMMA LoopType == ASSUME TypeOK, InPlace, AttemptInv, Loop \/ (\E ok \in BOOLEAN : Verify(ok)) PROVE TypeOK'
<1> USE DEF Goes, Ends, World, ByLoop, dirs, local, docker, history, Pcs
<1>0. /\ pipe \in Pipelines /\ Len(pipe) \in Nat \ {0} /\ DOMAIN pipe = 1..Len(pipe)
      /\ step \in 1..Len(pipe) + 1 /\ step \in Nat /\ attempt \in Nat
      /\ pc \notin {"idle", "step"} =>
              /\ step \in DOMAIN pipe /\ Attempts(This) \in Nat \ {0} /\ attempt <= Attempts(This)
  BY Here DEF TypeOK
<1>1. UNCHANGED pipe
  BY DEF Loop, NextStep, Try, Succeeds, Fails, Retries, Pause, Verify
<1>2. /\ UNCHANGED <<dirs, runs, spec, pinned, docker, latest, pushes, crashes, faults>>
      /\ deadline' = deadline
  <2>1. CASE NextStep \/ Try BY <2>1 DEF NextStep, Try
  <2>2. CASE Succeeds \/ Fails BY <2>2 DEF Succeeds, Fails
  <2>3. CASE Retries \/ Pause BY <2>3 DEF Retries, Pause
  <2>4. CASE \E ok \in BOOLEAN : Verify(ok) BY <2>4 DEF Verify
  <2>5. QED BY <2>1, <2>2, <2>3, <2>4 DEF Loop
<1> DEFINE Rest == /\ pc' \in Pcs /\ err' \in {"none", "error", "permanent"} /\ result' \in Digests
                   /\ verdict' \in {"none", "ok", "failed"} /\ expired' \in BOOLEAN
                   /\ tried' \in Seq(DOMAIN pipe) /\ won' \subseteq DOMAIN pipe /\ late' \in Nat
                   /\ resolved' \in Digests
           Count == /\ step' \in 1..Len(pipe) + 1
                    /\ attempt' \in 0..(IF step' \in DOMAIN pipe' THEN Attempts(This)' ELSE 0)
<1>3. Reported \in Digests BY DEF Reported, TypeOK
<1>5. Rest
  <2>1. CASE NextStep BY <2>1 DEF NextStep, TypeOK
  <2>2. CASE Try
    <3>1. Enter(This.op) \in Pcs BY DEF Enter
    <3>2. Append(tried, step) \in Seq(DOMAIN pipe) BY <1>0, <2>2, AppendProperties DEF Try, TypeOK
    <3>3. late' \in Nat BY <2>2 DEF Try, TypeOK
    <3>4. QED BY <2>2, <3>1, <3>2, <3>3 DEF Try, TypeOK
  <2>3. CASE Succeeds BY <1>0, <1>3, <2>3 DEF Succeeds, TypeOK
  <2>4. CASE Fails \/ Retries \/ Pause BY <1>3, <2>4 DEF Fails, Retries, Pause, TypeOK
  <2>5. CASE \E ok \in BOOLEAN : Verify(ok) BY <2>5 DEF Verify, TypeOK
  <2>6. QED BY <2>1, <2>2, <2>3, <2>4, <2>5 DEF Loop
<1>6. Count
  <2>0. CASE UNCHANGED <<step, attempt>> BY <1>1, <2>0 DEF TypeOK, This, Attempts, DefaultRetries
  <2>1. CASE NextStep
    <3>1. CASE UNCHANGED <<step, attempt>> BY <2>0, <3>1
    <3>2. CASE step' = step /\ attempt' = 1 /\ ~(step > Len(pipe))
      <4>1. step' \in DOMAIN pipe BY <1>0, <3>2
      <4>2. Attempts(pipe[step']) \in Nat \ {0} BY <1>0, <4>1, Accepted
      <4>3. QED BY <1>0, <1>1, <3>2, <4>1, <4>2, AttemptIs
    <3>3. QED BY <2>1, <3>1, <3>2 DEF NextStep
  <2>2. CASE Try \/ Fails \/ Retries BY <2>0, <2>2 DEF Try, Fails, Retries
  <2>3. CASE Pause
    <3>1. CASE UNCHANGED <<step, attempt>> BY <2>0, <3>1
    <3>2. CASE step' = step /\ attempt' = attempt + 1
      <4>1. step \in DOMAIN pipe /\ attempt < Attempts(This) /\ Attempts(This) \in Nat BY <1>0, <2>3 DEF Pause, AttemptInv
      <4>2. attempt' \in 0..Attempts(pipe[step']) BY <1>0, <3>2, <4>1 DEF This
      <4>3. QED BY <1>0, <1>1, <3>2, <4>1, <4>2, AttemptIs
    <3>3. QED BY <2>3, <3>1, <3>2 DEF Pause
  <2>4. CASE Succeeds \/ (\E ok \in BOOLEAN : Verify(ok))
    <3>1. attempt' = 0 /\ step \in DOMAIN pipe /\ (step' = step \/ step' = step + 1)
      BY <1>0, <2>4 DEF Succeeds, Verify, AttemptInv
    <3>2. step' \in 1..Len(pipe) + 1 BY <1>0, <3>1
    <3>3. CASE step' \in DOMAIN pipe
      <4>1. Attempts(pipe[step']) \in Nat \ {0} BY <1>0, <3>3, Accepted
      <4>2. QED BY <1>1, <3>1, <3>2, <3>3, <4>1, AttemptIs
    <3>4. CASE step' \notin DOMAIN pipe BY <1>1, <3>1, <3>2, <3>4
    <3>5. QED BY <3>3, <3>4
  <2>5. QED BY <2>1, <2>2, <2>3, <2>4 DEF Loop
<1>7. QED BY <1>1, <1>2, <1>5, <1>6 DEF TypeOK, DirsOK

LEMMA TypeStep == ASSUME TypeOK, InPlace, AttemptInv, [Next]_vars PROVE TypeOK'
<1> USE DEF World, dirs, local, docker, history, This, Attempts, DefaultRetries, DirsOK
<1>1. CASE Working BY <1>1, WorkingType
<1>2. ASSUME NEW p \in Pipelines, NEW d \in Digests, Begin(p, d) PROVE TypeOK' BY <1>2, BeginType
<1>3. CASE Loop \/ (\E ok \in BOOLEAN : Verify(ok)) BY <1>3, LoopType
<1>4. CASE Deadline \/ Expire BY <1>4 DEF Deadline, Expire, ByTime, TypeOK
<1>5. CASE Crash
  <2>1. DirsOK' BY <1>5, DirsKept
  <2>2. crashes' \in 0..MaxCrashes BY <1>5, EngineBoundAssumption DEF Crash, TypeOK
  <2>3. QED BY <1>5, <2>1, <2>2 DEF Crash, Ends, Goes, Pcs, TypeOK
<1>6. ASSUME NEW d \in Images, Push(d) PROVE TypeOK'
  BY <1>6, EngineBoundAssumption DEF Push, TypeOK
<1>7. CASE UNCHANGED vars BY <1>7 DEF vars, bounds, TypeOK
<1>8. QED BY <1>1, <1>2, <1>3, <1>4, <1>5, <1>6, <1>7, NextIs DEF Loop

-----------------------------------------------------------------------------
(* In place                                                                 *)

\* Nothing moves but a clock, the registry or nothing at all.
Quiet == Deadline \/ Expire \/ (\E d \in Images : Push(d)) \/ UNCHANGED vars

LEMMA QuietIs ==
  ASSUME Quiet
  PROVE  /\ UNCHANGED <<to, old, new, runs, pipe, pc, step, attempt, err, pinned, verdict, container, temp>>
         /\ UNCHANGED <<tried, won, late, crashes, faults>>
         /\ deadline => deadline'
<1> USE DEF ByTime, World, dirs, local, docker, history
<1>1. CASE Deadline \/ Expire BY <1>1 DEF Deadline, Expire
<1>2. CASE \E d \in Images : Push(d) BY <1>2 DEF Push
<1>3. CASE UNCHANGED vars BY <1>3 DEF vars, bounds
<1>4. QED BY <1>1, <1>2, <1>3 DEF Quiet

\* A crash leaves an execution where it was, and ends it.
LEMMA CrashIs ==
  ASSUME Crash
  PROVE  /\ pc # "idle" /\ pc' = "idle" /\ verdict' = "failed" /\ crashes' = crashes + 1
         /\ UNCHANGED <<runs, pipe, step, attempt, err, pinned, container, temp, tried, won, late, faults>>
         /\ deadline' = deadline
         /\ \/ UNCHANGED <<to, old, new>>
            \/ pc \in {"clear", "discard", "unpack"} /\ UNCHANGED <<to, old>>
            \/ pc \in {"drop", "tidy"} /\ UNCHANGED <<to, new>>
  BY DEF Crash, Ends, Goes, local, docker, history, NoEffect, dirs, PartlyCleared, PartlyDropped, PartlyUnpacked

LEMMA EnterIs ==
  ASSUME TypeOK, InPlace, pc = "try"
  PROVE  /\ Enter(This.op) \in {"resolve", "pin", "pull", "up", "create", "fetch", "command"}
         /\ Enter(This.op) \in {"resolve", "pin"} => This.op = "image.pin"
         /\ Enter(This.op) = "up" => This.op = "compose.up"
         /\ Enter(This.op) = "create" => This.op = "image.extract"
         /\ Enter(This.op) = "fetch" => This.op = "artifact.extract"
         /\ Enter(This.op) \in {"resolve", "pin", "pull", "up", "command"} => This.op \notin Extraction
<1>1. This.op \in Ops BY Here DEF Step
<1>2. QED BY <1>1 DEF Enter, Ops, Extraction

\* Where an op goes on to.
LEMMA Onward ==
  ASSUME InPlace, Working
  PROVE  /\ pc' = "pin" => pc = "resolve"
         /\ pc' \notin {"resolve", "pull", "up", "command", "create", "fetch"}
         /\ pc' = "clear" => pc \in {"create", "fetch"}
         /\ pc' = "unpack" => pc = "clear"
         /\ pc' = "drop" => pc = "unpack"
         /\ pc' = "aside" => pc = "drop"
         /\ pc' = "install" => pc = "aside"
         /\ pc' = "rollback" => pc = "install"
         /\ pc' = "tidy" => pc = "install"
         /\ pc' = "discard" => pc = "unpack" /\ This.op = "artifact.extract"
         /\ pc' = "cleanup" => pc # "cleanup" /\ This.op = "image.extract"
         /\ pc' \in {"clear", "unpack", "drop", "aside", "install", "tidy"} => UNCHANGED err
         /\ pc' \in {"discard", "rollback"} => err' # "none"
         /\ err' = "none" => UNCHANGED err
<1> USE ErrorIs DEF Goes, Broken, Kinds, Outcome, Leave
<1>1. CASE Resolve \/ Pin BY <1>1 DEF Resolve, Pin
<1>2. CASE Pull \/ Up \/ Command BY <1>2 DEF Pull, Up, Command
<1>3. CASE CreateTemp \/ Download BY <1>3 DEF CreateTemp, Download
<1>4. CASE Clear BY <1>4 DEF Clear, InPlace, Extraction
<1>5. CASE Unpack BY <1>5 DEF Unpack, InPlace, Extraction
<1>6. CASE Discard \/ Cleanup BY <1>6 DEF Discard, Cleanup
<1>7. CASE SwapStep BY <1>7 DEF SwapStep, Swap, InPlace, Extraction, Swaps
<1>8. QED BY <1>1, <1>2, <1>3, <1>4, <1>5, <1>6, <1>7 DEF Working

LEMMA InPlaceStep == ASSUME TypeOK, InPlace, AttemptInv, [Next]_vars PROVE InPlace'
<1> USE DEF Goes, Ends, World, ByLoop, dirs, local, docker, history
<1>0. /\ Len(pipe) \in Nat \ {0} /\ DOMAIN pipe = 1..Len(pipe) /\ step \in Nat \ {0} /\ step <= Len(pipe) + 1
      /\ runs \in Nat
  BY Here
<1>1. CASE Working
  <2>1. /\ UNCHANGED <<runs, pipe, step>> /\ pc \in OpPcs /\ pc' \in OpPcs \cup {"judge"}
    BY <1>1, Kept
  <2>2. step \in DOMAIN pipe /\ runs > 0 BY <2>1 DEF InPlace, OpPcs, Swaps
  <2>3. This' = This BY <2>1 DEF This
  <2>4. /\ pc' \in {"resolve", "pin"} => This.op = "image.pin"
        /\ pc' \notin {"up", "pull", "command"}
        /\ pc' \in {"create", "cleanup"} => This.op = "image.extract"
        /\ pc' \in {"fetch", "discard"} => This.op = "artifact.extract"
    BY <1>1, Onward DEF InPlace
  <2>5. pc' \in Swaps \cup {"clear", "unpack"} => This.op \in Extraction
    BY <1>1, Onward DEF InPlace, Swaps, Extraction
  <2>6. /\ pc' \in {"create", "fetch", "clear", "unpack", "drop", "aside", "install", "tidy"} => err' = "none"
        /\ pc' \in {"discard", "rollback", "pause"} => err' # "none"
    <3>1. pc' # "pause" BY <2>1 DEF OpPcs, Swaps
    <3>2. QED BY <1>1, <3>1, Onward DEF InPlace
  <2>7. QED BY <2>1, <2>2, <2>3, <2>4, <2>5, <2>6 DEF InPlace
<1>2. ASSUME NEW p \in Pipelines, NEW d \in Digests, Begin(p, d) PROVE InPlace'
  <2>1. pc' = "step" /\ runs' > 0 BY <1>0, <1>2 DEF Begin
  <2>2. QED BY <2>1 DEF InPlace, Swaps
<1>3. CASE NextStep
  <2>1. UNCHANGED <<runs, pipe, step, err>> /\ pc' \in {"idle", "try"} /\ runs > 0
        /\ (pc' = "try" => ~(step > Len(pipe)))
    BY <1>3 DEF NextStep, InPlace
  <2>2. pc' = "try" => step \in DOMAIN pipe BY <1>0, <2>1
  <2>3. QED BY <2>1, <2>2 DEF InPlace, Swaps
<1>4. CASE Try
  <2>1. /\ UNCHANGED <<runs, pipe, step>> /\ pc' = Enter(This.op) /\ err' = "none" /\ runs > 0
        /\ step \in DOMAIN pipe /\ pc = "try"
    BY <1>4 DEF Try, InPlace
  <2>2. This' = This BY <2>1 DEF This
  <2>3. QED BY <2>1, <2>2, EnterIs DEF InPlace, Swaps
<1>5. CASE Succeeds \/ Fails \/ Retries \/ Pause \/ (\E ok \in BOOLEAN : Verify(ok))
  <2>1. /\ UNCHANGED <<runs, pipe, err>> /\ pc' \in {"idle", "step", "verify", "pause", "try"} /\ runs > 0
        /\ step \in DOMAIN pipe /\ (pc' \notin {"idle", "step"} => UNCHANGED step)
        /\ (pc' = "pause" => err # "none")
    <3>1. CASE Succeeds BY <3>1 DEF Succeeds, InPlace
    <3>2. CASE Fails \/ Retries \/ Pause BY <3>2 DEF Fails, Retries, Pause, InPlace
    <3>3. CASE \E ok \in BOOLEAN : Verify(ok) BY <3>3 DEF Verify, InPlace
    <3>4. QED BY <1>5, <3>1, <3>2, <3>3
  <2>2. QED BY <2>1 DEF InPlace, Swaps
<1>6. CASE Quiet BY <1>6, QuietIs DEF InPlace, This
<1>7. CASE Crash BY <1>7, CrashIs DEF InPlace, Swaps
<1>8. QED BY <1>1, <1>2, <1>3, <1>4, <1>5, <1>6, <1>7, NextIs DEF Quiet

-----------------------------------------------------------------------------
(* Attempts                                                                 *)

LEMMA AttemptStep == ASSUME TypeOK, InPlace, AttemptInv, late <= 1, [Next]_vars PROVE AttemptInv' /\ late' <= 1
<1> USE DEF Goes, Ends, World, ByLoop, dirs, local, docker, history
<1>0. /\ Len(pipe) \in Nat \ {0} /\ DOMAIN pipe = 1..Len(pipe) /\ step \in Nat \ {0} /\ late \in Nat
      /\ attempt \in Nat /\ tried \in Seq(DOMAIN pipe)
      /\ \A k \in DOMAIN tried : tried[k] \in Nat
      /\ pc \notin {"idle", "step"} =>
           /\ step \in DOMAIN pipe /\ Attempts(This) \in Nat \ {0} /\ attempt <= Attempts(This)
           /\ Attempts(This) > 1 => This.op \in Retryable
  <2>1. tried \in Seq(DOMAIN pipe) BY DEF TypeOK
  <2>2. \A k \in DOMAIN tried : tried[k] \in DOMAIN pipe BY <2>1, ElementOfSeq, LenProperties
  <2>3. DOMAIN pipe \subseteq Nat BY Here
  <2>4. QED BY <2>1, <2>2, <2>3, Here
<1>1. CASE Working
  <2>1. /\ UNCHANGED <<pipe, step, attempt, deadline, tried, won, late>>
        /\ pc \in OpPcs /\ pc' \in OpPcs \cup {"judge"}
    BY <1>1, Kept
  <2>2. /\ pc \notin {"idle", "step", "verify", "try", "pause"}
        /\ pc' \notin {"idle", "step", "verify", "try", "pause"}
    BY <2>1 DEF OpPcs, Swaps
  <2>3. QED BY <2>1, <2>2 DEF AttemptInv
<1>2. ASSUME NEW p \in Pipelines, NEW d \in Digests, Begin(p, d) PROVE AttemptInv' /\ late' <= 1
  <2>1. step' = 1 /\ attempt' = 0 /\ tried' = <<>> /\ won' = {} /\ late' = 0 /\ pc' = "step"
    BY <1>2 DEF Begin
  <2>2. DOMAIN tried' = {} /\ 1..step' - 1 = {} BY <2>1
  <2>3. QED BY <2>1, <2>2 DEF AttemptInv
<1>3. CASE NextStep
  <2>1. /\ UNCHANGED <<pipe, step, tried, won, late, deadline>> /\ pc = "step"
        /\ \/ pc' = "idle" /\ UNCHANGED attempt
           \/ pc' = "try" /\ attempt' = 1 /\ ~deadline
    BY <1>3 DEF NextStep, Stops
  <2>2. QED BY <1>0, <2>1 DEF AttemptInv
<1>4. CASE Try
  <2>1. /\ UNCHANGED <<pipe, step, attempt, won, deadline>> /\ pc = "try" /\ pc' = Enter(This.op)
        /\ tried' = Append(tried, step) /\ late' = IF deadline THEN late + 1 ELSE late
    BY <1>4 DEF Try
  <2>2. pc' \in {"resolve", "pin", "pull", "up", "create", "fetch", "command"} BY <2>1, EnterIs
  <2>3. late' <= 1 /\ (late' = 1 => deadline)
    BY <1>0, <2>1 DEF AttemptInv
  <2>4. /\ Len(tried) \in Nat /\ DOMAIN tried = 1..Len(tried) /\ DOMAIN tried' = 1..Len(tried) + 1
        /\ \A k \in DOMAIN tried : tried'[k] = tried[k]
        /\ tried'[Len(tried) + 1] = step
    BY <1>0, <2>1, <2>2, AppendProperties, LenProperties DEF InPlace
  <2>5. /\ \A j, k \in DOMAIN tried' : j < k => tried'[j] <= tried'[k]
        /\ \A k \in DOMAIN tried' : tried'[k] <= step
    <3>1. \A k \in DOMAIN tried' : k \in DOMAIN tried \/ k = Len(tried) + 1 BY <2>4
    <3>2. \A k \in DOMAIN tried : k <= Len(tried) /\ k \in Nat /\ tried'[k] = tried[k] /\ tried[k] <= step
      BY <2>4 DEF AttemptInv
    <3>3. \A j, k \in DOMAIN tried : j < k => tried[j] <= tried[k] BY DEF AttemptInv
    <3>4. ASSUME NEW j \in DOMAIN tried', NEW k \in DOMAIN tried', j < k PROVE tried'[j] <= tried'[k]
      <4>1. j \in DOMAIN tried BY <2>4, <3>1, <3>2, <3>4
      <4>2. QED BY <1>0, <2>4, <3>1, <3>2, <3>3, <3>4, <4>1
    <3>5. QED BY <1>0, <2>4, <3>1, <3>2, <3>4
  <2>6. attempt' > 0 BY <2>1 DEF AttemptInv
  <2>7. QED BY <2>1, <2>2, <2>3, <2>5, <2>6 DEF AttemptInv
<1>5. CASE Succeeds
  <2>1. /\ UNCHANGED <<pipe, deadline, tried, late>> /\ attempt' = 0 /\ won' = won \cup {step} /\ pc = "judge"
        /\ \/ pc' = "verify" /\ step' = step
           \/ pc' = "step" /\ step' = step + 1
    BY <1>5 DEF Succeeds
  <2>2. 1..step' - 1 \subseteq won' BY <1>0, <2>1 DEF AttemptInv
  <2>3. \A k \in DOMAIN tried : tried[k] <= step' /\ (pc' = "step" => tried[k] < step')
    BY <1>0, <2>1 DEF AttemptInv
  <2>4. QED BY <2>1, <2>2, <2>3 DEF AttemptInv
<1>6. CASE Fails \/ Retries
  <2>1. UNCHANGED <<pipe, step, attempt, deadline, tried, won, late>> /\ pc = "judge"
        /\ (pc' = "idle" \/ (pc' = "pause" /\ ~GivesUp))
    BY <1>6 DEF Fails, Retries
  <2>2. pc' = "pause" => This.op \in Retryable /\ attempt < Attempts(This) /\ ~deadline /\ This' = This
    BY <1>0, <2>1 DEF GivesUp, AttemptInv, This
  <2>3. pc' = "pause" => (This.op \in Retryable)' /\ (attempt < Attempts(This))' BY <2>1, <2>2 DEF Attempts, DefaultRetries
  <2>4. QED BY <2>1, <2>2, <2>3 DEF AttemptInv
<1>7. CASE Pause
  <2>1. UNCHANGED <<pipe, step, deadline, tried, won, late>> /\ pc = "pause"
        /\ \/ pc' = "idle" /\ UNCHANGED attempt
           \/ pc' = "try" /\ attempt' = attempt + 1
    BY <1>7 DEF Pause
  <2>2. This.op \in Retryable /\ attempt > 0 /\ late # 1 /\ This' = This BY <2>1 DEF AttemptInv, This
  <2>3. QED BY <1>0, <2>1, <2>2 DEF AttemptInv
<1>8. CASE \E ok \in BOOLEAN : Verify(ok)
  <2>1. /\ UNCHANGED <<pipe, attempt, deadline, tried, won, late>> /\ pc = "verify"
        /\ \/ pc' = "idle" /\ UNCHANGED step
           \/ pc' = "step" /\ step' = step + 1
    BY <1>8 DEF Verify
  <2>2. \A k \in DOMAIN tried : tried[k] <= step' /\ (pc' = "step" => tried[k] < step')
    BY <1>0, <2>1 DEF AttemptInv
  <2>3. 1..step' - 1 \subseteq won' BY <1>0, <2>1 DEF AttemptInv
  <2>4. QED BY <2>1, <2>2, <2>3 DEF AttemptInv
<1>9. CASE Quiet
  <2>1. /\ UNCHANGED <<pipe, pc, step, attempt, tried, won, late>> /\ (deadline => deadline')
        /\ This' = This
    BY <1>9, QuietIs DEF This
  <2>2. QED BY <2>1 DEF AttemptInv, Attempts, DefaultRetries
<1>10. CASE Crash BY <1>10, CrashIs DEF AttemptInv
<1>11. QED BY <1>1, <1>2, <1>3, <1>4, <1>5, <1>6, <1>7, <1>8, <1>9, <1>10, NextIs DEF Quiet

LEMMA OrderStep ==
  ASSUME TypeOK, InPlace, AttemptInv, late <= 1, InOrder, [Next]_vars PROVE InOrder'
<1> USE DEF Goes, Ends, World, ByLoop, dirs, local, docker, history
<1>0. AttemptInv' /\ late' <= 1 BY AttemptStep
<1>1. CASE UNCHANGED <<pipe, tried>> /\ won \subseteq won' BY <1>0, <1>1 DEF InOrder
<1>2. CASE Try
  <2>1. /\ tried \in Seq(DOMAIN pipe) /\ step \in DOMAIN pipe /\ step \in Nat
        /\ \A k \in DOMAIN tried : tried[k] \in Nat
        /\ UNCHANGED <<pipe, won>> /\ pc = "try" /\ attempt \in Nat /\ tried' = Append(tried, step)
    <3>1. tried \in Seq(DOMAIN pipe) BY DEF TypeOK
    <3>2. \A k \in DOMAIN tried : tried[k] \in DOMAIN pipe BY <3>1, ElementOfSeq, LenProperties
    <3>3. DOMAIN pipe \subseteq Nat BY Here
    <3>4. QED BY <1>2, <3>1, <3>2, <3>3, Here DEF Try, InPlace
  <2>2. /\ Len(tried) \in Nat /\ DOMAIN tried = 1..Len(tried) /\ DOMAIN tried' = 1..Len(tried) + 1
        /\ \A k \in DOMAIN tried : tried'[k] = tried[k] /\ k <= Len(tried)
        /\ \A k \in DOMAIN tried' : k \in Nat /\ (k \in DOMAIN tried \/ k = Len(tried) + 1)
        /\ tried'[Len(tried) + 1] = step
    BY <2>1, AppendProperties, LenProperties
  <2>3. ASSUME NEW j \in DOMAIN tried', NEW k \in DOMAIN tried', j < k, tried'[j] = tried'[k]
        PROVE  pipe[tried'[j]].op \in Retryable
    <3>1. j \in DOMAIN tried BY <2>2, <2>3
    <3>2. CASE k \in DOMAIN tried BY <2>2, <2>3, <3>1, <3>2 DEF InOrder
    <3>3. CASE k = Len(tried) + 1
      <4>1. tried[j] = step BY <2>2, <2>3, <3>1, <3>3
      <4>2. attempt # 1 /\ attempt > 0 BY <2>1, <3>1, <4>1 DEF AttemptInv
      <4>3. This.op \in Retryable BY <2>1, <4>2 DEF AttemptInv
      <4>4. QED BY <2>2, <3>1, <4>1, <4>3 DEF This
    <3>4. QED BY <2>2, <3>2, <3>3
  <2>4. ASSUME NEW k \in DOMAIN tried' PROVE 1..tried'[k] - 1 \subseteq won
    <3>1. 1..step - 1 \subseteq won BY DEF AttemptInv
    <3>2. QED BY <2>1, <2>2, <3>1, <2>4 DEF InOrder
  <2>5. \A j, k \in DOMAIN tried' : j < k => tried'[j] <= tried'[k] BY <1>0 DEF AttemptInv
  <2>6. QED BY <1>0, <2>1, <2>3, <2>4, <2>5 DEF InOrder
<1>3. ASSUME NEW p \in Pipelines, NEW d \in Digests, Begin(p, d) PROVE InOrder'
  <2>1. tried' = <<>> BY <1>3 DEF Begin
  <2>2. DOMAIN tried' = {} BY <2>1
  <2>3. QED BY <1>0, <2>2 DEF InOrder
<1>4. CASE Working BY <1>1, <1>4, Kept
<1>5. CASE NextStep \/ Succeeds \/ Fails \/ Retries \/ Pause \/ (\E ok \in BOOLEAN : Verify(ok))
  <2>1. UNCHANGED <<pipe, tried>> /\ won \subseteq won'
    <3>1. CASE NextStep \/ Succeeds BY <3>1 DEF NextStep, Succeeds
    <3>2. CASE Fails \/ Retries \/ Pause BY <3>2 DEF Fails, Retries, Pause
    <3>3. CASE \E ok \in BOOLEAN : Verify(ok) BY <3>3 DEF Verify
    <3>4. QED BY <1>5, <3>1, <3>2, <3>3
  <2>2. QED BY <1>1, <2>1
<1>6. CASE Quiet \/ Crash BY <1>1, <1>6, QuietIs, CrashIs
<1>7. QED BY <1>2, <1>3, <1>4, <1>5, <1>6, NextIs DEF Quiet

-----------------------------------------------------------------------------
(* What was pinned                                                          *)

\* The last compose.up of a pipeline that has one.
LEMMA LastUpIs ==
  ASSUME NEW p \in Pipelines, p = pipe, At(p, "compose.up") # {}
  PROVE  LastUp \in At(p, "compose.up") /\ \A u \in At(p, "compose.up") : u <= LastUp
<1> DEFINE S == At(p, "compose.up")
           n == Len(p) + 1
           T == {n - x : x \in S}
           R == OpToRel(<, Nat)
<1>1. n \in Nat /\ \A x \in S : x \in Nat /\ x < n BY Accepted DEF At
<1>2. S # {} OBVIOUS
<1> HIDE DEF S, n
<1>3. T \in SUBSET Nat /\ T # {}
  <2>1. \A x \in S : n - x \in Nat BY <1>1
  <2>2. QED BY <1>2, <2>1
<1>4. IsWellFoundedOn(R, Nat) BY NatLessThanWellFounded
<1> HIDE DEF T, R
<1>5. PICK z \in T : \A y \in T : ~(<<y, z>> \in R) BY <1>3, <1>4, WFMin
<1>6. PICK x \in S : z = n - x BY DEF T
<1>7. ASSUME NEW y \in S, ~(y <= x) PROVE FALSE
  <2>1. n - y \in T /\ n - y \in Nat /\ z \in Nat /\ n - y < z BY <1>1, <1>3, <1>6, <1>7 DEF T
  <2>2. <<n - y, z>> \in R BY <2>1 DEF R, OpToRel
  <2>3. QED BY <1>5, <2>1, <2>2
<1>8. \E k \in S : \A u \in S : u <= k BY <1>7
<1>9. QED BY <1>8 DEF S, LastUp

Verified == PinInv /\ SuccessIsPinned

LEMMA PinStep ==
  ASSUME TypeOK, InPlace, AttemptInv, Verified, [Next]_vars PROVE Verified'
<1> USE DEF Verified, Goes, Ends, World, ByLoop, dirs, local, docker, history
<1>0. /\ pipe \in Pipelines /\ DOMAIN pipe = 1..Len(pipe) /\ Len(pipe) \in Nat /\ step \in Nat
      /\ pinned # NoImage => /\ LastUp \in At(pipe, "compose.up") /\ LastUp \in DOMAIN pipe /\ LastUp \in Nat
                             /\ \A u \in At(pipe, "compose.up") : u <= LastUp
  <2>1. /\ pipe \in Pipelines /\ DOMAIN pipe = 1..Len(pipe) /\ Len(pipe) \in Nat /\ step \in Nat BY Here
  <2>2. pinned # NoImage => LastUp \in At(pipe, "compose.up") /\ \A u \in At(pipe, "compose.up") : u <= LastUp
    BY <2>1, LastUpIs DEF PinInv
  <2>3. QED BY <2>1, <2>2 DEF At
<1>a. UNCHANGED pipe => LastUp' = LastUp /\ At(pipe, "compose.up")' = At(pipe, "compose.up")
  BY DEF LastUp, At
<1>1. CASE Working /\ ~Pin
  <2>1. UNCHANGED <<pipe, step, verdict>> /\ pc \in OpPcs /\ pc' \in OpPcs \cup {"judge"} BY <1>1, Kept
  <2>2. UNCHANGED pinned
    <3>1. CASE Resolve \/ Pull \/ Up \/ Command BY <3>1 DEF Resolve, Pull, Up, Command
    <3>2. CASE CreateTemp \/ Download \/ Clear \/ Unpack \/ Discard \/ Cleanup
      BY <3>2 DEF CreateTemp, Download, Clear, Unpack, Discard, Cleanup, ByFile, ByExtract
    <3>3. CASE SwapStep BY <3>3 DEF SwapStep, Swap, ByFile, ByExtract
    <3>4. QED BY <1>1, <3>1, <3>2, <3>3 DEF Working
  <2>3. pinned # NoImage => step <= LastUp \/ container' = pinned
    <3>1. CASE Up
      <4>1. step \in At(pipe, "compose.up") BY <3>1 DEF Up, InPlace, This, At
      <4>2. QED BY <1>0, <4>1
    <3>2. CASE ~Up
      <4>1. UNCHANGED container
        <5>1. CASE Resolve \/ Pull \/ Command BY <5>1 DEF Resolve, Pull, Command
        <5>2. CASE CreateTemp \/ Download \/ Clear \/ Unpack \/ Discard \/ Cleanup
          BY <5>2 DEF CreateTemp, Download, Clear, Unpack, Discard, Cleanup, ByFile, ByExtract
        <5>3. CASE SwapStep BY <5>3 DEF SwapStep, Swap, ByFile, ByExtract
        <5>4. QED BY <1>1, <3>2, <5>1, <5>2, <5>3 DEF Working
      <4>2. QED BY <2>1, <4>1 DEF PinInv, OpPcs, Swaps
    <3>3. QED BY <3>1, <3>2
  <2>4. pc' # "idle" /\ pc' # "verify" BY <2>1 DEF OpPcs, Swaps
  <2>5. QED BY <1>a, <2>1, <2>2, <2>3, <2>4 DEF PinInv, SuccessIsPinned
<1>2. CASE Pin
  <2>1. /\ UNCHANGED <<pipe, step, container>> /\ pc = "pin" /\ pc' = "judge"
        /\ step \in At(pipe, "image.pin")
    BY <1>2 DEF Pin, ByOp, Broken, InPlace, This, At
  <2>2. PICK u \in At(pipe, "compose.up") : step < u BY <1>0, <2>1, Accepted DEF ValidPin
  <2>3. LastUp \in At(pipe, "compose.up") /\ u <= LastUp BY <1>0, <2>2, LastUpIs
  <2>4. step <= LastUp BY <1>0, <2>2, <2>3 DEF At
  <2>5. QED BY <1>a, <2>1, <2>2, <2>4 DEF PinInv, SuccessIsPinned
<1>3. ASSUME NEW p \in Pipelines, NEW d \in Digests, Begin(p, d) PROVE Verified'
  BY <1>3 DEF Begin, PinInv, SuccessIsPinned
<1>4. CASE NextStep
  <2>1. /\ UNCHANGED <<pipe, step, pinned, container>> /\ pc = "step" /\ pc' \in {"idle", "try"}
        /\ (pc' = "idle" /\ verdict' = "ok") => step > Len(pipe)
    BY <1>4 DEF NextStep
  <2>2. pinned # NoImage => step <= LastUp \/ container = pinned BY <2>1 DEF PinInv
  <2>3. step > Len(pipe) /\ pinned # NoImage => container = pinned BY <1>0, <2>2
  <2>4. QED BY <1>a, <2>1, <2>2, <2>3 DEF PinInv, SuccessIsPinned
<1>5. CASE Try
  <2>1. UNCHANGED <<pipe, step, pinned, container>> /\ pc = "try" /\ pc' = Enter(This.op) BY <1>5 DEF Try
  <2>2. pc' \notin {"idle", "verify"} BY <2>1, EnterIs
  <2>3. QED BY <1>a, <2>1, <2>2 DEF PinInv, SuccessIsPinned
<1>6. CASE Succeeds
  <2>1. /\ UNCHANGED <<pipe, pinned, container>> /\ pc = "judge"
        /\ IF pinned # NoImage /\ step = LastUp THEN pc' = "verify" /\ step' = step
           ELSE pc' = "step" /\ step' = step + 1
    BY <1>6 DEF Succeeds, Verifies
  <2>2. pinned # NoImage => step <= LastUp \/ container = pinned BY <2>1 DEF PinInv
  <2>3. pinned # NoImage => step' <= LastUp \/ container = pinned BY <1>0, <2>1, <2>2
  <2>4. QED BY <1>a, <2>1, <2>3 DEF PinInv, SuccessIsPinned
<1>7. CASE Fails \/ Retries \/ Pause
  <2>1. /\ UNCHANGED <<pipe, step, pinned, container>> /\ pc \in {"judge", "pause"}
        /\ \/ pc' = "idle" /\ verdict' = "failed"
           \/ pc' \in {"pause", "try"}
    BY <1>7 DEF Fails, Retries, Pause
  <2>2. QED BY <1>a, <2>1 DEF PinInv, SuccessIsPinned
<1>8. ASSUME NEW ok \in BOOLEAN, Verify(ok) PROVE Verified'
  <2>1. /\ UNCHANGED <<pipe, pinned, container>> /\ pc = "verify"
        /\ \/ pc' = "step" /\ step' = step + 1 /\ container = pinned
           \/ pc' = "idle" /\ verdict' = "failed"
    BY <1>8 DEF Verify
  <2>2. QED BY <1>a, <2>1 DEF PinInv, SuccessIsPinned
<1>9. CASE Quiet BY <1>a, <1>9, QuietIs DEF PinInv, SuccessIsPinned
<1>10. CASE Crash BY <1>a, <1>10, CrashIs DEF PinInv, SuccessIsPinned
<1>11. QED BY <1>1, <1>2, <1>3, <1>4, <1>5, <1>6, <1>7, <1>8, <1>9, <1>10, NextIs DEF Quiet

-----------------------------------------------------------------------------
(* The directories                                                          *)

Installed == to # Missing => Whole(to)
Placed == SwapInv /\ KeptInv /\ Installed

\* A step that touches neither the content nor what was set aside.
LEMMA Untouched ==
  ASSUME TypeOK, InPlace, Placed, UNCHANGED <<to, old, runs, crashes>>, faults' \in Nat, faults' >= faults,
         pc \notin Swaps, pc' \notin Swaps \ {"drop"}, pc' = "unpack" => new' = Missing,
         pc' = "drop" => new' = Halves(runs)
  PROVE  Placed'
<1>1. SwapInv' BY DEF SwapInv, Swaps
<1>2. crashes \in Nat /\ faults \in Nat BY Here
<1>3. KeptInv' BY <1>2 DEF Placed, KeptInv, Swaps, Whole
<1>4. Installed' BY DEF Placed, Installed, Whole
<1>5. QED BY <1>1, <1>3, <1>4 DEF Placed

LEMMA SwapPlaced == ASSUME TypeOK, InPlace, Placed, SwapStep PROVE Placed'
<1> USE DEF Goes, Broken, Missing, NoEffect, dirs
<1>0. /\ crashes \in Nat /\ faults \in Nat /\ runs \in Versions /\ pc # "idle"
      /\ UNCHANGED <<runs, crashes>>
      /\ Whole(Halves(runs)) /\ Halves(runs) # {}
  <2>1. Working /\ pc # "idle" BY DEF Working, SwapStep, Swap
  <2>2. runs \in Versions BY <2>1, Here DEF InPlace
  <2>3. QED BY <2>1, <2>2, Here, Kept, HalvesIn
<1>1. Leave \in {"cleanup", "judge"} BY DEF Leave
<1>2. CASE Swap("drop", DropOld, "aside", PartlyDropped, Leave)
  <2>1. /\ pc = "drop" /\ UNCHANGED <<to, new>>
        /\ \/ pc' = "aside" /\ old' = {} /\ UNCHANGED faults
           \/ pc' \in {"cleanup", "judge"} /\ faults' = faults + 1
    BY <1>1, <1>2 DEF Swap, DropOld, PartlyDropped, Fault
  <2>2. SwapInv' BY <1>0, <2>1 DEF Placed, SwapInv, Swaps
  <2>3. KeptInv' BY <1>0, <2>1 DEF Placed, KeptInv, Whole
  <2>4. Installed' BY <2>1 DEF Placed, Installed, Whole
  <2>5. QED BY <2>2, <2>3, <2>4 DEF Placed
<1>3. CASE Swap("aside", SetAside, "install", NoEffect, Leave)
  <2>1. /\ pc = "aside" /\ UNCHANGED new /\ old = {} /\ (to = {} \/ Whole(to))
        /\ \/ /\ pc' = "install" /\ UNCHANGED faults /\ to' = {}
              /\ IF to = {} THEN old' = {} ELSE old' = to
           \/ pc' \in {"cleanup", "judge"} /\ faults' = faults + 1 /\ UNCHANGED <<to, old>>
    BY <1>1, <1>3 DEF Swap, SetAside, Fault, Placed, SwapInv, Installed
  <2>2. SwapInv' BY <1>0, <2>1 DEF Placed, SwapInv, Swaps, Whole
  <2>3. KeptInv'
    <3>1. crashes = 0 /\ faults <= 1 => to # {}
      BY <2>1 DEF Placed, KeptInv, Whole, Halves
    <3>2. crashes = 0 /\ faults <= 1 => Whole(to) BY <2>1 DEF Placed, KeptInv
    <3>3. crashes = 0 /\ faults' <= 1 => Whole(IF pc' \in {"install", "rollback"} THEN old' ELSE to')
      BY <1>0, <2>1, <3>1, <3>2
    <3>4. crashes = 1 /\ faults' = 0 => pc' \in {"drop", "aside", "install"} BY <1>0, <2>1
    <3>5. QED BY <1>0, <3>3, <3>4 DEF KeptInv, Whole
  <2>4. Installed' BY <2>1 DEF Installed, Whole
  <2>5. QED BY <2>2, <2>3, <2>4 DEF Placed
<1>4. CASE Swap("install", Install, "tidy", NoEffect, "rollback")
  <2>1. /\ pc = "install" /\ UNCHANGED old /\ new = Halves(runs)
        /\ \/ pc' = "tidy" /\ UNCHANGED faults /\ to' = new
           \/ pc' = "rollback" /\ faults' = faults + 1 /\ UNCHANGED <<to, new>>
    BY <1>4 DEF Swap, Install, Fault, Placed, SwapInv, Swaps
  <2>2. SwapInv' BY <1>0, <2>1 DEF Placed, SwapInv, Swaps, Whole
  <2>3. KeptInv' BY <1>0, <2>1 DEF Placed, KeptInv, Whole
  <2>4. Installed' BY <1>0, <2>1 DEF Placed, Installed, Whole
  <2>5. QED BY <2>2, <2>3, <2>4 DEF Placed
<1>5. CASE Swap("rollback", RollBack, Leave, NoEffect, Leave)
  <2>1. /\ pc = "rollback" /\ UNCHANGED new /\ to = {} /\ (old = {} \/ Whole(old)) /\ faults > 0
        /\ pc' \in {"cleanup", "judge"}
        /\ \/ UNCHANGED faults /\ (IF old = {} THEN UNCHANGED <<to, old>> ELSE to' = old)
           \/ faults' = faults + 1 /\ UNCHANGED <<to, old>>
    BY <1>1, <1>5 DEF Swap, RollBack, Fault, Placed, SwapInv
  <2>2. SwapInv' BY <2>1 DEF SwapInv, Swaps
  <2>3. KeptInv'
    <3>1. crashes = 0 /\ faults <= 1 => Whole(old) /\ old # {}
      BY <2>1 DEF Placed, KeptInv, Whole, Halves
    <3>2. crashes = 0 /\ faults' <= 1 => Whole(to') BY <1>0, <2>1, <3>1
    <3>3. faults' # 0 BY <1>0, <2>1
    <3>4. QED BY <1>0, <2>1, <3>2, <3>3 DEF KeptInv, Whole
  <2>4. Installed' BY <2>1 DEF Installed, Whole
  <2>5. QED BY <2>2, <2>3, <2>4 DEF Placed
<1>6. CASE Swap("tidy", DropOld, Leave, PartlyDropped, Leave)
  <2>1. /\ pc = "tidy" /\ UNCHANGED <<to, new>> /\ pc' \in {"cleanup", "judge"} /\ to = Halves(runs)
        /\ (UNCHANGED faults \/ faults' = faults + 1)
    BY <1>1, <1>6 DEF Swap, DropOld, PartlyDropped, Fault, Placed, SwapInv
  <2>2. SwapInv' BY <2>1 DEF SwapInv, Swaps
  <2>3. Whole(to') BY <1>0, <2>1
  <2>4. KeptInv' BY <2>1, <2>3 DEF KeptInv, Whole
  <2>5. Installed' BY <2>3 DEF Installed, Whole
  <2>6. QED BY <2>2, <2>4, <2>5 DEF Placed
<1>7. QED BY <1>2, <1>3, <1>4, <1>5, <1>6 DEF SwapStep

LEMMA PlacedStep == ASSUME TypeOK, InPlace, Placed, [Next]_vars PROVE Placed'
<1> USE DEF Goes, Ends, World, ByLoop, local, docker, history, dirs, Missing
<1>0. crashes \in Nat /\ faults \in Nat BY Here
<1>1. CASE Working /\ ~SwapStep
  <2>1. /\ UNCHANGED <<runs, crashes>> /\ faults' \in Nat /\ faults' >= faults
    BY <1>1, Kept, Spent, EngineBoundAssumption DEF TypeOK
  <2>2. pc \notin Swaps /\ UNCHANGED <<to, old>>
    <3>1. CASE Resolve \/ Pin \/ Pull BY <3>1 DEF Resolve, Pin, Pull, Swaps
    <3>2. CASE Up \/ Command BY <3>2 DEF Up, Command, Swaps
    <3>3. CASE CreateTemp \/ Download \/ Cleanup BY <3>3 DEF CreateTemp, Download, Cleanup, Swaps
    <3>4. CASE Clear \/ Unpack \/ Discard
      BY <3>4 DEF Clear, Unpack, Discard, ClearNew, PartlyCleared, Unpacked, PartlyUnpacked, Swaps
    <3>5. QED BY <1>1, <3>1, <3>2, <3>3, <3>4 DEF Working
  <2>3. pc' \notin Swaps \ {"drop"} BY <1>1, <2>2, Onward DEF Swaps
  <2>4. pc' = "unpack" => new' = Missing
    <3>1. pc' = "unpack" => pc = "clear" BY <1>1, Onward
    <3>2. pc = "clear" => Clear
      BY <1>1 DEF Working, Resolve, Pin, Pull, Up, Command, CreateTemp, Download, Unpack, Discard, Cleanup
    <3>3. Clear /\ pc' = "unpack" => new' = Missing BY DEF Clear, ClearNew, Cleared, Broken, Leave
    <3>4. QED BY <3>1, <3>2, <3>3
  <2>5. pc' = "drop" => new' = Halves(runs)
    <3>1. pc' = "drop" => pc = "unpack" BY <1>1, Onward
    <3>2. pc = "unpack" => Unpack
      BY <1>1 DEF Working, Resolve, Pin, Pull, Up, Command, CreateTemp, Download, Clear, Discard, Cleanup
    <3>3. Unpack /\ pc' = "drop" => Unpacked(runs) BY DEF Unpack, Broken
    <3>4. pc = "unpack" => new = {} BY DEF Placed, SwapInv
    <3>5. QED BY <3>1, <3>2, <3>3, <3>4 DEF Unpacked
  <2>6. QED BY <2>1, <2>2, <2>3, <2>4, <2>5, Untouched
<1>2. CASE SwapStep BY <1>2, SwapPlaced
<1>3. ASSUME NEW p \in Pipelines, NEW d \in Digests, Begin(p, d) PROVE Placed'
  <2>1. pc = "idle" /\ pc' = "step" /\ UNCHANGED <<to, old, new, crashes, faults>> BY <1>3 DEF Begin
  <2>2. SwapInv' BY <2>1 DEF SwapInv, Swaps
  <2>3. KeptInv' /\ Installed' BY <2>1 DEF Placed, KeptInv, Installed, Whole
  <2>4. QED BY <2>2, <2>3 DEF Placed
<1>4. CASE NextStep \/ Try \/ Succeeds \/ Fails \/ Retries \/ Pause \/ (\E ok \in BOOLEAN : Verify(ok))
  <2>1. /\ UNCHANGED <<to, old, new, runs, crashes, faults>>
        /\ pc \notin Swaps /\ pc' \notin Swaps \cup {"unpack"}
    <3>1. CASE NextStep \/ Succeeds BY <3>1 DEF NextStep, Succeeds, Swaps
    <3>2. CASE Try BY <3>2, EnterIs DEF Try, Swaps
    <3>3. CASE Fails \/ Retries \/ Pause BY <3>3 DEF Fails, Retries, Pause, Swaps
    <3>4. CASE \E ok \in BOOLEAN : Verify(ok) BY <3>4 DEF Verify, Swaps
    <3>5. QED BY <1>4, <3>1, <3>2, <3>3, <3>4
  <2>2. QED BY <1>0, <2>1, Untouched DEF Swaps
<1>5. CASE Quiet BY <1>5, QuietIs DEF Placed, SwapInv, KeptInv, Installed, Whole
<1>6. CASE Crash
  <2>1. /\ pc # "idle" /\ pc' = "idle" /\ crashes' = crashes + 1 /\ UNCHANGED <<runs, faults, to>>
        /\ UNCHANGED old \/ pc \in {"drop", "tidy"}
    BY <1>6, CrashIs
  <2>2. SwapInv' BY <2>1 DEF SwapInv, Swaps
  <2>3. Installed' BY <2>1 DEF Placed, Installed, Whole
  <2>4. crashes = 0 /\ faults = 0 => Whole(to') \/ Whole(old') BY <1>0, <2>1 DEF Placed, KeptInv, Whole
  <2>5. KeptInv' BY <1>0, <2>1, <2>4 DEF KeptInv, Whole
  <2>6. QED BY <2>2, <2>3, <2>5 DEF Placed
<1>7. QED BY <1>1, <1>2, <1>3, <1>4, <1>5, <1>6, NextIs DEF Quiet

\* Only the swap changes what is installed.
LEMMA ToStays ==
  ASSUME TypeOK, InPlace, Working
  PROVE  \/ UNCHANGED to
         \/ pc \in Swaps /\ This.op \in Extraction
<1> USE DEF dirs
<1>1. CASE Resolve \/ Pin \/ Pull \/ Up \/ Command BY <1>1 DEF Resolve, Pin, Pull, Up, Command
<1>2. CASE CreateTemp \/ Download \/ Cleanup BY <1>2 DEF CreateTemp, Download, Cleanup
<1>3. CASE Clear \/ Unpack \/ Discard
  BY <1>3 DEF Clear, Unpack, Discard, ClearNew, PartlyCleared, Unpacked, PartlyUnpacked
<1>4. CASE SwapStep
  <2>1. pc \in Swaps BY <1>4 DEF SwapStep, Swap, Swaps
  <2>2. QED BY <2>1 DEF InPlace
<1>5. QED BY <1>1, <1>2, <1>3, <1>4 DEF Working

\* An extraction that went well has come to its last step.
LEMMA LastStep ==
  ASSUME TypeOK, InPlace, Working, pc' \in {"judge", "cleanup"}, err' = "none", This.op \in Extraction
  PROVE  pc \in {"tidy", "cleanup"} /\ UNCHANGED to /\ err = "none"
<1> USE ErrorIs DEF Kinds, Goes, Broken, Leave
<1>0. err = "none" BY Onward
<1>1. CASE Resolve \/ Pin BY <1>1 DEF Resolve, Pin, InPlace, Extraction
<1>2. CASE Pull \/ Up \/ Command BY <1>2 DEF Pull, Up, Command, InPlace, Extraction
<1>3. CASE CreateTemp \/ Download BY <1>3 DEF CreateTemp, Download
<1>4. CASE Clear BY <1>4 DEF Clear
<1>5. CASE Unpack BY <1>5 DEF Unpack
<1>6. CASE Discard BY <1>0, <1>6 DEF Discard, InPlace
<1>7. CASE Cleanup BY <1>0, <1>7 DEF Cleanup, dirs
<1>8. CASE SwapStep
  <2>1. CASE Swap("drop", DropOld, "aside", PartlyDropped, Leave) BY <2>1 DEF Swap
  <2>2. CASE Swap("aside", SetAside, "install", NoEffect, Leave) BY <2>2 DEF Swap
  <2>3. CASE Swap("install", Install, "tidy", NoEffect, "rollback") BY <2>3 DEF Swap
  <2>4. CASE Swap("rollback", RollBack, Leave, NoEffect, Leave) BY <1>0, <2>4 DEF Swap, InPlace
  <2>5. CASE Swap("tidy", DropOld, Leave, PartlyDropped, Leave)
    BY <1>0, <2>5 DEF Swap, DropOld, PartlyDropped
  <2>6. QED BY <1>8, <2>1, <2>2, <2>3, <2>4, <2>5 DEF SwapStep
<1>9. QED BY <1>1, <1>2, <1>3, <1>4, <1>5, <1>6, <1>7, <1>8 DEF Working

LEMMA ExtractedIs ==
  ASSUME TypeOK, InPlace
  PROVE  /\ UNCHANGED pipe => \A n : Extracted(n)' <=> Extracted(n)
         /\ pc \notin {"idle", "step"} =>
              (Extracted(step + 1) <=> Extracted(step) \/ This.op \in Extraction)
         /\ step > Len(pipe) => step = Len(pipe) + 1
<1>1. DOMAIN pipe = 1..Len(pipe) /\ Len(pipe) \in Nat /\ step \in Nat /\ step <= Len(pipe) + 1 BY Here
<1>2. UNCHANGED pipe => \A n : Extracted(n)' <=> Extracted(n) BY DEF Extracted
<1>3. ASSUME step \in DOMAIN pipe
      PROVE  Extracted(step + 1) <=> Extracted(step) \/ This.op \in Extraction
  BY <1>1, <1>3 DEF Extracted, This
<1>4. QED BY <1>1, <1>2, <1>3 DEF InPlace

LEMMA BroughtStep == ASSUME TypeOK, InPlace, SwapInv, BroughtInv, [Next]_vars PROVE BroughtInv'
<1> USE DEF Goes, Ends, World, ByLoop, local, docker, history, dirs
<1>0. step \in Nat BY Here
<1>1. CASE Working
  <2>1. /\ UNCHANGED <<runs, pipe, step>> /\ pc \in OpPcs /\ pc' \in OpPcs \cup {"judge"} BY <1>1, Kept
  <2>2. pc' \notin {"idle", "step", "verify"} /\ pc \notin {"idle", "step"} BY <2>1 DEF OpPcs, Swaps
  <2>3. This' = This /\ (Extracted(step)' <=> Extracted(step)) BY <2>1, ExtractedIs DEF This
  <2>4. This.op \notin Extraction /\ Extracted(step) => to' = Halves(runs)
    BY <1>1, <2>2, ToStays DEF BroughtInv
  <2>5. pc' \in {"judge", "cleanup"} /\ err' = "none" /\ This.op \in Extraction => to' = Halves(runs)
    BY <1>1, LastStep DEF SwapInv, BroughtInv
  <2>6. QED BY <2>1, <2>2, <2>3, <2>4, <2>5 DEF BroughtInv
<1>2. ASSUME NEW p \in Pipelines, NEW d \in Digests, Begin(p, d) PROVE BroughtInv'
  <2>1. pc' = "step" /\ step' = 1 /\ pipe' = p BY <1>2 DEF Begin
  <2>2. ~Extracted(step)' BY <2>1, Accepted DEF Extracted
  <2>3. QED BY <2>1, <2>2 DEF BroughtInv
<1>3. CASE NextStep
  <2>1. /\ UNCHANGED <<runs, pipe, step, to, err>> /\ pc = "step"
        /\ \/ pc' = "idle" /\ (verdict' = "ok" => step > Len(pipe))
           \/ pc' = "try"
    BY <1>3 DEF NextStep
  <2>2. /\ This' = This /\ (Extracted(step)' <=> Extracted(step))
        /\ Extracted(Len(pipe) + 1)' <=> Extracted(Len(pipe) + 1)
        /\ step > Len(pipe) => step = Len(pipe) + 1
    BY <2>1, ExtractedIs DEF This, Extracted
  <2>3. Extracted(step) => to' = Halves(runs') BY <2>1 DEF BroughtInv
  <2>4. QED BY <2>1, <2>2, <2>3 DEF BroughtInv
<1>4. CASE Try
  <2>1. UNCHANGED <<runs, pipe, step, to>> /\ pc = "try" /\ pc' = Enter(This.op) BY <1>4 DEF Try
  <2>2. pc' \in {"resolve", "pin", "pull", "up", "create", "fetch", "command"} BY <2>1, EnterIs
  <2>3. This' = This /\ (Extracted(step)' <=> Extracted(step)) BY <2>1 DEF This, Extracted
  <2>4. QED BY <2>1, <2>2, <2>3 DEF BroughtInv
<1>5. CASE Succeeds
  <2>1. /\ UNCHANGED <<runs, pipe, to, err>> /\ pc = "judge" /\ err = "none"
        /\ \/ pc' = "verify" /\ step' = step
           \/ pc' = "step" /\ step' = step + 1
    BY <1>5 DEF Succeeds
  <2>2. Extracted(step + 1) => to' = Halves(runs')
    BY <2>1, ExtractedIs DEF BroughtInv
  <2>3. \A n \in Nat : Extracted(n)' <=> Extracted(n) BY <2>1, ExtractedIs
  <2>4. CASE pc' = "step" /\ step' = step + 1
    <3>1. Extracted(step)' <=> Extracted(step + 1) BY <2>1, <2>4 DEF Extracted
    <3>2. QED BY <2>2, <2>4, <3>1 DEF BroughtInv
  <2>5. CASE pc' = "verify" /\ step' = step
    <3>1. /\ Extracted(step + 1)' <=> Extracted(step + 1)
          /\ Extracted(step)' <=> Extracted(step)
          /\ This' = This
      BY <2>1, <2>5 DEF Extracted, This
    <3>2. Extracted(step) => to' = Halves(runs') BY <2>1, <2>2, ExtractedIs
    <3>3. QED BY <2>2, <2>5, <3>1, <3>2 DEF BroughtInv
  <2>6. QED BY <2>1, <2>4, <2>5
<1>6. CASE Fails \/ Retries \/ Pause
  <2>1. /\ UNCHANGED <<runs, pipe, step, to>> /\ pc \in {"judge", "pause"}
        /\ \/ pc' = "idle" /\ verdict' = "failed"
           \/ pc' \in {"pause", "try"}
    BY <1>6 DEF Fails, Retries, Pause
  <2>2. This' = This /\ (Extracted(step)' <=> Extracted(step)) BY <2>1 DEF This, Extracted
  <2>3. QED BY <2>1, <2>2 DEF BroughtInv
<1>7. ASSUME NEW ok \in BOOLEAN, Verify(ok) PROVE BroughtInv'
  <2>1. /\ UNCHANGED <<runs, pipe, to>> /\ pc = "verify"
        /\ \/ pc' = "step" /\ step' = step + 1
           \/ pc' = "idle" /\ verdict' = "failed"
    BY <1>7 DEF Verify
  <2>2. CASE pc' = "step" /\ step' = step + 1
    <3>1. Extracted(step)' <=> Extracted(step + 1) BY <2>1, <2>2 DEF Extracted
    <3>2. QED BY <2>1, <2>2, <3>1 DEF BroughtInv
  <2>3. CASE pc' = "idle" /\ verdict' = "failed" BY <2>3 DEF BroughtInv
  <2>4. QED BY <2>1, <2>2, <2>3
<1>8. CASE Quiet
  <2>1. UNCHANGED <<to, runs, pipe, pc, step, err, verdict>> BY <1>8, QuietIs
  <2>2. QED BY <2>1 DEF BroughtInv, Extracted, This
<1>9. CASE Crash BY <1>9, CrashIs DEF BroughtInv
<1>10. QED BY <1>1, <1>2, <1>3, <1>4, <1>5, <1>6, <1>7, <1>8, <1>9, NextIs DEF Quiet

LEMMA TempStep == ASSUME TypeOK, InPlace, TempInv, [Next]_vars PROVE TempInv'
<1> USE DEF Goes, Ends, World, ByLoop, local, docker, history, dirs
<1> DEFINE During == {"clear", "unpack", "drop", "aside", "install", "tidy", "cleanup"}
<1>0. crashes \in Nat /\ faults \in Nat BY Here
<1>1. CASE Working
  <2>1. UNCHANGED <<pipe, step, crashes>> /\ This' = This BY <1>1, Kept DEF This
  <2>2. faults' \in Nat /\ faults' >= faults BY <1>1, Spent, EngineBoundAssumption DEF TypeOK
  <2>3. SUFFICES ASSUME temp', crashes = 0, faults' = 0 PROVE pc' \in During /\ This.op = "image.extract"
    BY <2>1 DEF TempInv
  <2>4. faults = 0 /\ faults' # faults + 1 BY <1>0, <2>2, <2>3
  <2>5. temp => pc \in During /\ This.op = "image.extract" BY <2>3, <2>4 DEF TempInv
  <2> USE DEF Broken, Leave, ByFile, ByExtract, Fault
  <2>6. CASE Resolve \/ Pin \/ Pull \/ Up \/ Command
    <3>1. UNCHANGED temp /\ pc \notin During BY <2>6 DEF Resolve, Pin, Pull, Up, Command
    <3>2. QED BY <2>3, <2>5, <3>1
  <2>7. CASE CreateTemp BY <2>3, <2>5, <2>7 DEF CreateTemp, InPlace
  <2>8. CASE Download BY <2>3, <2>5, <2>8 DEF Download
  <2>9. CASE Clear BY <2>3, <2>4, <2>5, <2>9 DEF Clear
  <2>10. CASE Unpack BY <2>3, <2>5, <2>10 DEF Unpack
  <2>11. CASE Discard BY <2>3, <2>5, <2>11 DEF Discard
  <2>12. CASE Cleanup BY <2>3, <2>4, <2>12 DEF Cleanup, Cleaned
  <2>13. CASE SwapStep BY <2>3, <2>4, <2>5, <2>13 DEF SwapStep, Swap
  <2>14. QED BY <1>1, <2>6, <2>7, <2>8, <2>9, <2>10, <2>11, <2>12, <2>13 DEF Working
<1>2. ASSUME NEW p \in Pipelines, NEW d \in Digests, Begin(p, d) PROVE TempInv'
  BY <1>2 DEF Begin, TempInv
<1>3. CASE NextStep \/ Try \/ Succeeds \/ Fails \/ Retries \/ Pause \/ (\E ok \in BOOLEAN : Verify(ok))
  <2>1. UNCHANGED <<temp, crashes, faults>> /\ pc \notin During
    <3>1. CASE NextStep \/ Succeeds BY <3>1 DEF NextStep, Succeeds
    <3>2. CASE Try BY <3>2 DEF Try
    <3>3. CASE Fails \/ Retries \/ Pause BY <3>3 DEF Fails, Retries, Pause
    <3>4. CASE \E ok \in BOOLEAN : Verify(ok) BY <3>4 DEF Verify
    <3>5. QED BY <1>3, <3>1, <3>2, <3>3, <3>4
  <2>2. QED BY <2>1 DEF TempInv
<1>4. CASE Quiet BY <1>4, QuietIs DEF TempInv, This
<1>5. CASE Crash BY <1>0, <1>5, CrashIs DEF TempInv
<1>6. QED BY <1>1, <1>2, <1>3, <1>4, <1>5, NextIs DEF Quiet

-----------------------------------------------------------------------------
(* Together                                                                 *)

Sound == TypeOK /\ InPlace /\ AttemptInv /\ late <= 1 /\ InOrder /\ Verified /\ Placed /\ BroughtInv /\ TempInv

LEMMA SoundInit == ASSUME Init PROVE Sound
<1>1. 0 \in Versions /\ Halves(0) \subseteq Content /\ Whole(Halves(0)) BY VersionsAssumption, HalvesIn
<1>2. /\ pipe \in Pipelines /\ 1 \in DOMAIN pipe /\ 1 \in 1..Len(pipe) + 1 /\ Attempts(pipe[1]) \in Nat \ {0}
  BY Accepted DEF Init
<1>3. TypeOK
  <2>1. DirsOK BY <1>1 DEF Init, DirsInit, DirsOK, Missing
  <2>2. attempt \in 0..(IF step \in DOMAIN pipe THEN Attempts(This) ELSE 0) BY <1>2 DEF Init, This
  <2>3. tried \in Seq(DOMAIN pipe) BY EmptySeq DEF Init
  <2>4. /\ runs \in 0..MaxRuns /\ pushes \in 0..MaxPushes /\ crashes \in 0..MaxCrashes /\ faults \in 0..MaxFaults
    BY RunsAssumption, EngineBoundAssumption DEF Init
  <2>5. QED BY <1>2, <2>1, <2>2, <2>3, <2>4 DEF Init, TypeOK, Digests, Pcs
<1>4. InPlace BY DEF Init, InPlace, Swaps
<1>5. DOMAIN tried = {} /\ 1..step - 1 = {} BY DEF Init
<1>6. AttemptInv /\ late <= 1 /\ InOrder BY <1>5 DEF Init, AttemptInv, InOrder
<1>7. Verified BY DEF Init, Verified, PinInv, SuccessIsPinned
<1>8. Placed BY <1>1 DEF Init, DirsInit, Placed, SwapInv, KeptInv, Installed, Swaps
<1>9. BroughtInv /\ TempInv BY DEF Init, BroughtInv, TempInv
<1>10. QED BY <1>3, <1>4, <1>6, <1>7, <1>8, <1>9 DEF Sound

LEMMA SoundStep == ASSUME Sound, [Next]_vars PROVE Sound'
<1> USE DEF Sound
<1>1. TypeOK' BY TypeStep
<1>2. InPlace' BY InPlaceStep
<1>3. AttemptInv' /\ late' <= 1 /\ InOrder' BY AttemptStep, OrderStep
<1>4. Verified' BY PinStep
<1>5. Placed' BY PlacedStep
<1>6. BroughtInv' /\ TempInv' BY BroughtStep, TempStep DEF Placed
<1>7. QED BY <1>1, <1>2, <1>3, <1>4, <1>5, <1>6

LEMMA StaysSound == Spec => []Sound
<1>1. Init => Sound BY SoundInit
<1>2. Sound /\ [Next]_vars => Sound' BY SoundStep
<1>3. QED BY <1>1, <1>2, PTL DEF Spec

\* No step runs past its pipeline, and no attempt past what its op is allowed
\* (engine.go:208-243, attempts.go:22-51).
THEOREM EngineTypes == Spec => []TypeOK
<1>1. Sound => TypeOK BY DEF Sound
<1>2. QED BY <1>1, StaysSound, PTL

\* Steps run in the order of the pipeline, none after one that failed; only
\* what is safe to run again runs twice (modifiers.go:31-39, attempts.go:22-24).
THEOREM StepsInOrder == Spec => []InOrder
<1>1. Sound => InOrder BY DEF Sound
<1>2. QED BY <1>1, StaysSound, PTL

\* A deploy that pinned an image and succeeded runs what it pinned, however
\* :latest moved (pin.go:68-70).
THEOREM PinnedIsRun == Spec => []SuccessIsPinned
<1>1. Sound => SuccessIsPinned BY DEF Sound, Verified
<1>2. QED BY <1>1, StaysSound, PTL

\* What is installed is whole, whatever fails and however often the process
\* dies, and one such event never loses the last whole copy (extract.go:59-62,
\* 248-249).
THEOREM ContentIsSafe == Spec => []ContentSafe
<1>1. ASSUME Sound PROVE ContentSafe
  <2>1. SwapInv /\ KeptInv /\ (to # Missing => Whole(to)) BY <1>1 DEF Sound, Placed, Installed
  <2>2. crashes \in Nat /\ faults \in Nat BY <1>1, Here DEF Sound
  <2>3. pc \in {"drop", "aside", "install"} => Whole(new)
    <3>1. pc \in {"drop", "aside", "install"} => runs \in Versions /\ new = Halves(runs)
      BY <1>1, <2>1, Here DEF Sound, InPlace, SwapInv, Swaps
    <3>2. QED BY <3>1, HalvesIn
  <2>4. ASSUME crashes + faults <= 1 PROVE Whole(to) \/ Whole(old) \/ Whole(new)
    <3>1. (crashes = 0 /\ faults <= 1) \/ (crashes = 1 /\ faults = 0) BY <2>2, <2>4
    <3>2. QED BY <2>1, <2>3, <3>1 DEF KeptInv
  <2>5. QED BY <2>1, <2>4 DEF ContentSafe
<1>2. Sound => ContentSafe BY <1>1
<1>3. QED BY <1>2, StaysSound, PTL

\* An execution that ends of itself leaves whole content behind, what it
\* brought if it succeeded, and no temporary container (extract.go:50-51,
\* 263-268).
THEOREM EndsClean == Spec => []CleanEnd
<1>1. ASSUME Sound, pc = "idle", runs > 0, crashes = 0
      PROVE  /\ faults <= 1 => Whole(to)
             /\ verdict = "ok" /\ Extracts => to = Halves(runs)
             /\ faults = 0 => ~temp
  <2>1. faults <= 1 => Whole(to) BY <1>1 DEF Sound, Placed, KeptInv
  <2>2. faults = 0 => ~temp BY <1>1 DEF Sound, TempInv
  <2>3. Extracts => Extracted(Len(pipe) + 1)
    <3>1. DOMAIN pipe = 1..Len(pipe) /\ Len(pipe) \in Nat BY <1>1, Here DEF Sound
    <3>2. QED BY <3>1 DEF Extracts, Extracted, At, Extraction
  <2>4. QED BY <1>1, <2>1, <2>2, <2>3 DEF Sound, BroughtInv
<1>2. Sound => CleanEnd BY <1>1 DEF CleanEnd
<1>3. QED BY <1>2, StaysSound, PTL
=============================================================================
