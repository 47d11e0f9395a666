------------------------------- MODULE Engine -------------------------------
(***************************************************************************)
(* The engine on one instance: executions one after the other, each a      *)
(* pipeline of steps with attempts under two deadlines (engine/engine.go,  *)
(* attempts.go), the digest that image.pin resolves, pins and has verified *)
(* (pin.go), and the directories that the extract ops swap (extract.go).   *)
(* An op's commands may fail, or hang until a deadline kills them.  All    *)
(* other ops are commands as far as the engine can tell.  A container that a     *)
(* killed `docker create` made all the same has no id the engine could     *)
(* know, and is left out.                                                  *)
(***************************************************************************)
EXTENDS SwapDir, Integers, Sequences, FiniteSets

CONSTANTS
  Pipelines,   \* validated pipelines: sequences of [op, retries, timed]
  Images,      \* digests of the service's image
  NoImage,
  MaxRuns,     \* bound: executions
  MaxPushes,   \* bound: how often :latest moves in the registry
  MaxCrashes,  \* bound: how often the process dies
  MaxFaults    \* bound: how often a file operation or a removal fails

Unset == -1      \* no `retries:` modifier
Ops == {"image.pin", "image.extract", "artifact.extract", "compose.pull", "compose.up", "run"}
Step == [op : Ops, retries : Nat \cup {Unset}, timed : BOOLEAN]

\* The ops that are safe to run again, and how often by default.
DefaultRetries(op) == IF op \in {"image.pin", "artifact.extract"} THEN 2 ELSE 0
Retryable == {"image.pin", "artifact.extract", "compose.pull"}
AttemptsMut(step) == (IF step.retries # Unset THEN step.retries ELSE 1) + 1
Attempts(step) == (IF step.retries # Unset THEN step.retries ELSE DefaultRetries(step.op)) + 1

\* validatePin, parseRetries: what main would not have accepted is not run.
At(p, op) == {k \in DOMAIN p : p[k].op = op}
ValidPin(p) == \A k \in At(p, "image.pin") : \E u \in At(p, "compose.up") : k < u
ValidRetries(p) == \A k \in DOMAIN p : p[k].retries # Unset => p[k].op \in Retryable

ASSUME PipelinesAssumption ==
  \A p \in Pipelines : p \in Seq(Step) /\ p # <<>> /\ ValidPin(p) /\ ValidRetries(p)
ASSUME EngineImageAssumption == NoImage \notin Images /\ Images # {}
ASSUME RunsAssumption == MaxRuns \in Nat /\ 1..MaxRuns \subseteq Versions
ASSUME EngineBoundAssumption == MaxPushes \in Nat /\ MaxCrashes \in Nat /\ MaxFaults \in Nat

VARIABLES
  runs,       \* executions so far; execution n extracts version n
  pipe, spec, \* the pipeline and the digest of the current one
  pc,         \* where the engine is in it
  step, attempt,
  err,        \* how the attempt went: none, error, permanent
  pinned,     \* execState: the digest that was pinned
  resolved,   \* local to imagePin: the digest it is about to pin
  result,     \* Result.Digest
  verdict,    \* none, ok, failed
  deadline,   \* the execution's context is done
  expired,    \* the attempt's own context is done
  latest,     \* what :latest is in the registry, ...
  tag,        \* ... what it is here, ...
  container,  \* ... and what the service's container runs
  temp,       \* the temporary container of this execution exists
  tried,      \* history: the steps of the attempts of this execution
  won,        \* history: the steps of this execution that succeeded
  late,       \* history: attempts that began when the deadline had passed
  pushes, crashes, faults

local == <<step, attempt, err, pinned, resolved, result, verdict, deadline, expired>>
docker == <<tag, container, temp>>
history == <<tried, won, late>>
bounds == <<pushes, crashes, faults>>
vars == <<dirs, runs, pipe, spec, pc, local, latest, docker, history, bounds>>

Digests == Images \cup {NoImage}
Pcs == {"idle", "step", "try", "resolve", "pin", "pull", "up", "command", "create", "fetch",
        "clear", "unpack", "discard", "drop", "aside", "install", "rollback", "tidy", "cleanup",
        "judge", "pause", "verify"}

This == pipe[step]

TypeOK ==
  /\ DirsOK
  /\ runs \in 0..MaxRuns /\ pipe \in Pipelines /\ spec \in Digests /\ pc \in Pcs
  /\ step \in 1..Len(pipe) + 1
  /\ attempt \in 0..(IF step \in DOMAIN pipe THEN Attempts(This) ELSE 0)
  /\ err \in {"none", "error", "permanent"}
  /\ pinned \in Digests /\ resolved \in Digests /\ result \in Digests
  /\ verdict \in {"none", "ok", "failed"}
  /\ deadline \in BOOLEAN /\ expired \in BOOLEAN
  /\ latest \in Images /\ tag \in Digests /\ container \in Digests
  /\ temp \in BOOLEAN
  /\ tried \in Seq(DOMAIN pipe) /\ won \subseteq DOMAIN pipe /\ late \in Nat
  /\ pushes \in 0..MaxPushes /\ crashes \in 0..MaxCrashes /\ faults \in 0..MaxFaults

Init ==
  /\ DirsInit
  /\ runs = 0 /\ pipe \in Pipelines /\ spec = NoImage /\ pc = "idle"
  /\ step = 1 /\ attempt = 0 /\ err = "none"
  /\ pinned = NoImage /\ resolved = NoImage /\ result = NoImage
  /\ verdict = "none" /\ deadline = FALSE /\ expired = FALSE
  /\ latest \in Images /\ tag = NoImage /\ container = NoImage /\ temp = FALSE
  /\ tried = <<>> /\ won = {} /\ late = 0
  /\ pushes = 0 /\ crashes = 0 /\ faults = 0

Fault == faults < MaxFaults /\ faults' = faults + 1
Goes(next) == pc' = next

-----------------------------------------------------------------------------
(* Execute: the steps in order                                              *)

World == UNCHANGED <<latest, pushes, crashes>>
Begin(p, digest) ==
  /\ pc = "idle" /\ runs < MaxRuns
  /\ runs' = runs + 1 /\ pipe' = p /\ spec' = digest /\ result' = digest
  /\ Goes("step") /\ step' = 1 /\ attempt' = 0 /\ err' = "none"
  /\ pinned' = NoImage /\ resolved' = NoImage /\ verdict' = "none"
  /\ deadline' = FALSE /\ expired' = FALSE
  /\ tried' = <<>> /\ won' = {} /\ late' = 0 /\ temp' = FALSE
  /\ UNCHANGED <<dirs, tag, container, faults>> /\ World

Ends(v) == Goes("idle") /\ verdict' = v

ByLoop == UNCHANGED <<dirs, runs, pipe, spec, err, pinned, resolved, result, deadline, docker,
                      late, faults>> /\ World

Stops == deadline

\* The head of the loop: no step starts once the context is done.
NextStep ==
  /\ pc = "step"
  /\ IF step > Len(pipe) THEN Ends("ok") /\ UNCHANGED attempt
     ELSE IF Stops THEN Ends("failed") /\ UNCHANGED attempt
     ELSE Goes("try") /\ attempt' = 1 /\ UNCHANGED verdict
  /\ UNCHANGED <<step, expired, tried, won>> /\ ByLoop

\* runAttempt: the attempt's own context, and the op's first command.
Enter(op) ==
  CASE op = "image.pin" -> IF spec = NoImage THEN "resolve" ELSE "pin"
    [] op = "compose.pull" -> "pull"
    [] op = "compose.up" -> "up"
    [] op = "image.extract" -> "create"
    [] op = "artifact.extract" -> "fetch"
    [] OTHER -> "command"

Try ==
  /\ pc = "try"
  /\ Goes(Enter(This.op))
  /\ expired' = FALSE /\ err' = "none" /\ resolved' = spec
  /\ tried' = Append(tried, step)
  /\ late' = IF deadline THEN late + 1 ELSE late
  /\ UNCHANGED <<dirs, runs, pipe, spec, step, attempt, pinned, result, verdict, deadline,
                 docker, won, faults>> /\ World

LastUpMut == CHOOSE k \in At(pipe, "compose.up") : \A u \in At(pipe, "compose.up") : k <= u
LastUp == CHOOSE k \in At(pipe, "compose.up") : \A u \in At(pipe, "compose.up") : u <= k
Verifies == pinned # NoImage /\ step = LastUp

GivesUp == err = "permanent" \/ deadline \/ attempt = Attempts(This)

Reported == IF pinned # NoImage THEN pinned ELSE result

Succeeds ==
  /\ pc = "judge" /\ err = "none"
  /\ won' = won \cup {step}
  /\ IF Verifies THEN Goes("verify") /\ UNCHANGED step ELSE Goes("step") /\ step' = step + 1
  /\ result' = Reported /\ attempt' = 0 /\ expired' = FALSE
  /\ UNCHANGED <<dirs, runs, pipe, spec, err, pinned, resolved, verdict, deadline,
                 docker, tried, late, faults>> /\ World

\* runAttempts: the step has failed for good, ...
Fails ==
  /\ pc = "judge" /\ err # "none" /\ GivesUp
  /\ Ends("failed") /\ result' = Reported
  /\ UNCHANGED <<dirs, runs, pipe, spec, step, attempt, err, pinned, resolved, deadline, expired,
                 docker, history, faults>> /\ World

\* ... or is tried again after a pause, ...
Retries ==
  /\ pc = "judge" /\ err # "none" /\ ~GivesUp
  /\ Goes("pause")
  /\ UNCHANGED <<step, attempt, verdict, expired, tried, won>> /\ ByLoop

\* ... which the execution's deadline may cut short; with both due the select
\* takes either.
Pause ==
  /\ pc = "pause"
  /\ \/ deadline /\ Ends("failed") /\ result' = Reported /\ UNCHANGED attempt
     \/ Goes("try") /\ attempt' = attempt + 1 /\ UNCHANGED <<verdict, result>>
  /\ UNCHANGED <<dirs, runs, pipe, spec, step, err, pinned, resolved, deadline, expired,
                 docker, history, faults>> /\ World

\* verifyPin.
Verify(ok) ==
  /\ pc = "verify"
  /\ ok => container = pinned
  /\ IF ok THEN Goes("step") /\ step' = step + 1 /\ UNCHANGED verdict
     ELSE Ends("failed") /\ UNCHANGED step
  /\ UNCHANGED <<attempt, expired, tried, won>> /\ ByLoop

-----------------------------------------------------------------------------
(* The ops                                                                  *)

\* runAttempt: when the attempt's own timeout is what ended it, the step
\* timed out, whatever the killed command returned.
Error(kind) == IF expired /\ ~deadline THEN "error" ELSE kind
Kinds == {"error", "permanent"}
Broken(next, kind) == Goes(next) /\ err' = Error(kind)

ByOp == UNCHANGED <<runs, pipe, spec, step, attempt, result, verdict, deadline, expired,
                    tried, won, late>> /\ World

\* image.pin without a digest: pull :latest and see what it is, ...
Resolve ==
  /\ pc = "resolve"
  /\ \/ tag' = latest /\ resolved' = latest /\ Goes("pin") /\ UNCHANGED err
     \/ Broken("judge", "error") /\ UNCHANGED resolved /\ tag' \in {tag, latest}
  /\ UNCHANGED <<dirs, pinned, container, temp, faults>> /\ ByOp

\* ... pull the digest, tag it :latest here, and remember it.
Pin ==
  /\ pc = "pin"
  /\ \/ /\ tag' = resolved /\ pinned' = resolved
        /\ Goes("judge") /\ UNCHANGED err
     \/ /\ \E kind \in Kinds : (kind = "permanent" => spec # NoImage) /\ Broken("judge", kind)
        /\ tag' \in {tag, resolved} /\ UNCHANGED pinned
  /\ UNCHANGED <<dirs, resolved, container, temp, faults>> /\ ByOp

\* Commands: a failed or killed one may have had its effect.
Outcome == Goes("judge") /\ (UNCHANGED err \/ err' = Error("error"))

Pull ==
  /\ pc = "pull" /\ Outcome
  /\ tag' \in {tag, latest}
  /\ UNCHANGED <<dirs, pinned, resolved, container, temp, faults>> /\ ByOp

\* compose up, of the service's container or of another one.
Up ==
  /\ pc = "up" /\ Outcome
  /\ container' \in {container, tag}
  /\ UNCHANGED <<dirs, pinned, resolved, tag, temp, faults>> /\ ByOp

Command ==
  /\ pc = "command" /\ Outcome
  /\ UNCHANGED <<dirs, pinned, resolved, docker, faults>> /\ ByOp

ByExtract == UNCHANGED <<pinned, resolved, container>> /\ ByOp
Leave == IF This.op = "image.extract" THEN "cleanup" ELSE "judge"

\* image.extract: a temporary container, of :latest pulled anew or not, ...
CreateTemp ==
  /\ pc = "create"
  /\ \/ temp' = TRUE /\ Goes("clear") /\ UNCHANGED err
     \/ Broken("judge", "error") /\ UNCHANGED temp
  /\ tag' \in {tag, latest}
  /\ UNCHANGED <<dirs, faults>> /\ ByExtract

ByFile == UNCHANGED tag /\ ByExtract

\* ... artifact.extract: a download with the right sum.
Download ==
  /\ pc = "fetch"
  /\ \/ Goes("clear") /\ UNCHANGED err
     \/ \E kind \in Kinds : Broken("judge", kind)
  /\ UNCHANGED <<dirs, temp, faults>> /\ ByFile

Clear ==
  /\ pc = "clear"
  /\ \/ ClearNew /\ Goes("unpack") /\ UNCHANGED <<err, faults>>
     \/ Fault /\ PartlyCleared /\ Broken(Leave, "error")
  /\ UNCHANGED temp /\ ByFile

\* docker cp, or the archive; one of an unknown type is not unpacked at all.
Unpack ==
  /\ pc = "unpack"
  /\ \/ Unpacked(runs) /\ Goes("drop") /\ UNCHANGED err
     \/ /\ PartlyUnpacked(runs)
        /\ Broken(IF This.op = "artifact.extract" THEN "discard" ELSE "cleanup", "error")
     \/ This.op = "artifact.extract" /\ Broken("judge", "permanent") /\ UNCHANGED dirs
  /\ UNCHANGED <<temp, faults>> /\ ByFile

Discard ==
  /\ pc = "discard" /\ Goes("judge")
  /\ \/ ClearNew /\ UNCHANGED faults
     \/ Fault /\ PartlyCleared
  /\ UNCHANGED <<err, temp>> /\ ByFile

\* swapDir, which heeds no context.
Swap(at, Effect, next, Failed, otherwise) ==
  /\ pc = at
  /\ \/ Effect /\ Goes(next) /\ UNCHANGED <<err, faults>>
     \/ Fault /\ Failed /\ Broken(otherwise, "error")
  /\ UNCHANGED temp /\ ByFile

NoEffect == UNCHANGED dirs
SwapStep ==
  \/ Swap("drop", DropOld, "aside", PartlyDropped, Leave)
  \/ Swap("aside", SetAside, "install", NoEffect, Leave)
  \/ Swap("install", Install, "tidy", NoEffect, "rollback")
  \/ Swap("rollback", RollBack, Leave, NoEffect, Leave)
  \/ Swap("tidy", DropOld, Leave, PartlyDropped, Leave)

\* docker rm, under a context of its own; a failure is only logged.
Cleaned == FALSE
Cleanup ==
  /\ pc = "cleanup" /\ Goes("judge")
  /\ \/ temp' = Cleaned /\ UNCHANGED faults
     \/ Fault /\ UNCHANGED temp
  /\ UNCHANGED <<dirs, err>> /\ ByFile

-----------------------------------------------------------------------------
(* Deadlines, the world and the process                                     *)

ByTime == UNCHANGED <<dirs, runs, pipe, spec, pc, step, attempt, err, pinned, resolved, result,
                      verdict, docker, history, faults>> /\ World

\* The execution's timeout, or the edge or main shutting down.
Deadline == pc # "idle" /\ ~deadline /\ deadline' = TRUE /\ UNCHANGED expired /\ ByTime

\* The step's own timeout, while an attempt runs.
Expire ==
  /\ pc \notin {"idle", "step", "try", "judge", "pause", "verify"} /\ This.timed /\ ~expired
  /\ expired' = TRUE /\ UNCHANGED deadline /\ ByTime

KilledMut == FALSE
Killed == deadline \/ expired

Push(d) ==
  /\ pushes < MaxPushes /\ d # latest /\ latest' = d /\ pushes' = pushes + 1
  /\ UNCHANGED <<dirs, runs, pipe, spec, pc, local, docker, history, crashes, faults>>

\* The process dies: main will call the execution failed or unreachable.
Crash ==
  /\ pc # "idle" /\ crashes < MaxCrashes /\ crashes' = crashes + 1
  /\ Ends("failed")
  /\ \/ NoEffect
     \/ pc \in {"clear", "discard"} /\ PartlyCleared
     \/ pc \in {"drop", "tidy"} /\ PartlyDropped
     \/ pc = "unpack" /\ PartlyUnpacked(runs)
  /\ UNCHANGED <<runs, pipe, spec, step, attempt, err, pinned, resolved, result, deadline,
                 expired, latest, docker, history, pushes, faults>>

AllRun == pc = "idle" /\ runs = MaxRuns /\ UNCHANGED vars

Commands == Resolve \/ Pin \/ Pull \/ Up \/ Command \/ CreateTemp \/ Download \/ Unpack
            \/ Verify(TRUE) \/ Verify(FALSE)
Files == Clear \/ Discard \/ SwapStep \/ Cleanup
Loop == NextStep \/ Try \/ Succeeds \/ Fails \/ Retries \/ Pause

Next ==
  \/ \E p \in Pipelines, d \in Digests : Begin(p, d)
  \/ Loop \/ Commands \/ Files \/ Deadline \/ Expire \/ Crash \/ AllRun
  \/ \E d \in Images : Push(d)

Spec == Init /\ [][Next]_vars

\* A command may take for ever, unless it is killed; the deadline comes.
KilledCommand == Killed /\ Commands
FairSpec == Spec /\ WF_vars(Loop) /\ WF_vars(Files) /\ WF_vars(Deadline) /\ WF_vars(KilledCommand)

-----------------------------------------------------------------------------
(* Properties                                                               *)

\* What is installed is one whole version, never leftovers of an unpacking
\* that failed or was killed; and no single crash or failed file operation
\* loses the last whole copy of the content (extract.go:59-62, 248-249).
ContentSafe ==
  /\ to # Missing => Whole(to)
  /\ crashes + faults <= 1 => Whole(to) \/ Whole(old) \/ Whole(new)

\* An execution that ends without a crash has left the content it found or the
\* content it brought, the latter if it succeeded, and no temporary container,
\* even if a deadline is what ended it (extract.go:50-51, 263-268).
Extracts == At(pipe, "image.extract") \cup At(pipe, "artifact.extract") # {}
CleanEnd ==
  pc = "idle" /\ runs > 0 /\ crashes = 0 =>
    /\ faults <= 1 => Whole(to)
    /\ verdict = "ok" /\ Extracts => to = Halves(runs)
    /\ faults = 0 => ~temp

\* Steps run in order, none after one that failed; only an op that is safe to
\* run again runs twice (modifiers.go:31-39); and once the deadline has passed
\* no attempt starts but one that was about to (attempts.go:22-24).
InOrder ==
  /\ \A j, k \in DOMAIN tried : j < k =>
       /\ tried[j] <= tried[k]
       /\ tried[j] = tried[k] => pipe[tried[j]].op \in Retryable
  /\ \A k \in DOMAIN tried : 1..tried[k] - 1 \subseteq won
  /\ late <= 1

\* A deploy that pinned an image succeeds only if the service runs it, however
\* :latest moves meanwhile (pin.go:68-70).
SuccessIsPinned == pc = "idle" /\ verdict = "ok" /\ pinned # NoImage => container = pinned

\* What these rest on.  An attempt is of a step there is, and in the place that
\* its op has (engine.go:208-243).
Extraction == {"image.extract", "artifact.extract"}
Swaps == {"drop", "aside", "install", "rollback", "tidy"}
InPlace ==
  /\ pc # "idle" => runs > 0
  /\ pc \notin {"idle", "step"} => step \in DOMAIN pipe
  /\ pc \in {"resolve", "pin"} => This.op = "image.pin"
  /\ pc = "up" => This.op = "compose.up"
  /\ pc \in {"pull", "command"} => This.op \notin Extraction
  /\ pc \in {"create", "cleanup"} => This.op = "image.extract"
  /\ pc \in {"fetch", "discard"} => This.op = "artifact.extract"
  /\ pc \in Swaps \cup {"clear", "unpack"} => This.op \in Extraction
  /\ pc \in {"create", "fetch", "clear", "unpack", "drop", "aside", "install", "tidy"} => err = "none"
  /\ pc \in {"discard", "rollback", "pause"} => err # "none"

\* The next attempt of a step is its first, or one its op allows
\* (attempts.go:22-51).
AttemptInv ==
  /\ 1..step - 1 \subseteq won /\ (pc = "verify" => step \in won)
  /\ \A j, k \in DOMAIN tried : j < k => tried[j] <= tried[k]
  /\ \A k \in DOMAIN tried : tried[k] <= step
  /\ pc \in {"step", "verify"} => attempt = 0
  /\ pc \notin {"idle", "step", "verify"} => attempt > 0
  /\ pc = "step" \/ (pc = "try" /\ attempt = 1) => \A k \in DOMAIN tried : tried[k] < step
  /\ pc = "try" /\ attempt > 1 => This.op \in Retryable
  /\ pc = "pause" => This.op \in Retryable /\ attempt < Attempts(This)
  /\ late = 1 => deadline /\ pc \notin {"try", "pause"}

\* Past its last compose.up a pipeline pins no more, and what the service runs
\* has been verified (pin.go:27-49, 68-99).
PinInv ==
  /\ pinned # NoImage /\ pc # "idle" => step <= LastUp \/ container = pinned
  /\ pc = "verify" => pinned # NoImage /\ step = LastUp
  /\ pinned # NoImage => At(pipe, "compose.up") # {}

\* One version at a time is unpacked, and set in place of another that is first
\* set aside (extract.go:59-62, 221-270).
SwapInv ==
  /\ pc = "unpack" => new = Missing
  /\ pc \in Swaps \ {"tidy"} => new = Halves(runs)
  /\ pc = "aside" => old = Missing
  /\ pc \in {"install", "rollback"} => to = Missing /\ (old = Missing \/ Whole(old))
  /\ pc = "tidy" => to = Halves(runs)
  /\ pc = "rollback" => faults > 0

\* The content that was there survives one failed file operation, and, with
\* what is about to be installed, one crash.
KeptInv ==
  /\ crashes = 0 /\ faults <= 1 => Whole(IF pc \in {"install", "rollback"} THEN old ELSE to)
  /\ crashes = 1 /\ faults = 0 => pc \in {"drop", "aside", "install"} \/ Whole(to) \/ Whole(old)

\* What an extraction installed stays until the next one.
Extracted(n) == \E k \in DOMAIN pipe : k < n /\ pipe[k].op \in Extraction
BroughtInv ==
  /\ pc = "idle" /\ verdict = "ok" /\ runs > 0 /\ Extracted(Len(pipe) + 1) => to = Halves(runs)
  /\ pc = "step" /\ Extracted(step) => to = Halves(runs)
  /\ pc = "verify" /\ Extracted(step + 1) => to = Halves(runs)
  /\ pc \notin {"idle", "step"} /\ This.op \notin Extraction /\ Extracted(step) => to = Halves(runs)
  /\ pc \in {"judge", "cleanup"} /\ err = "none" /\ This.op \in Extraction => to = Halves(runs)

\* A temporary container is removed by the step that made it.
TempInv ==
  temp /\ crashes = 0 /\ faults = 0 =>
    pc \in {"clear", "unpack", "drop", "aside", "install", "tidy", "cleanup"} /\ This.op = "image.extract"

\* Every execution ends, hanging commands included (exec.go:42-51).
ExecutionEnds == pc # "idle" ~> pc = "idle"
=============================================================================
