# hookploy: a verification project

TLA+ specifications of [hookploy](../src/README.md), model-checked with TLC, with
safety proved with TLAPS. hookploy is one *main* process that turns
webhooks into deploys and runs them on servers, through *edge* processes that
dial in from those servers. The repository is the reference: every definition
below is a translation of the source lines that `PROJECT.json` ("map") names.

Contents: [inventory](#inventory) · [modules](#modules) ·
[runs](#runs-and-bounds) · [fairness](#fairness) · [proofs](#what-is-proved) ·
[disagreements](#where-the-code-disagrees-with-its-own-words) ·
[not modelled](#what-is-only-checked-and-what-is-not-modelled) · [plan](#plan)

## Inventory

    hookploy.yaml ──> config ──> ops    (what a deploy is built from, and who may ask for it)
                        v
    webhook ──> httpapi.enqueue ──> scheduler ──> executor.Registry ──> edgehub ══> edge agent
                      │                │  ^              (or local engine)   ^  SSE / gRPC   │
                      v                v  │ Recover                          └── results ────┘
                    store (SQLite, one connection) ──> broadcaster ──> log followers
                                       │ Notify
                                       v
                    edgewatch ──> notify.Hub ──> Telegram

| component | state | operations | hard because |
|---|---|---|---|
| **store** `store/deploys.go` | `deploys`, `executions` rows | create, guarded transition, recompute, supersede, recover, retention | operations of several statements, one connection: goroutines interleave between statements, crashes fall between them |
| **scheduler** `scheduler/` | `busy`/`pending` per service; a loop and a worker per execution | Enqueue, loop, runDeploy, runExecution, recompute, Recover, Shutdown | latest wins, waves, digest promotion, concurrent recomputes, ignored write errors, restart |
| **webhook** `httpapi/webhook.go`, `store/tokens.go` | the request; rows of tokens | authenticate, look up, read, build, create, enqueue; create, rotate, revoke | steps that race with other requests, with reloads and with the token commands |
| **configuration** `config/`, `cli/cmd_main.go` | the file, the configuration served, the registered local servers | load, reload, register | reloads overlap; what is checked per service must hold per instance |
| **ops** `ops/` | none | parse, target, interpolate, marshal, count attempts | one pipeline is copied through JSON three times and run by engines of other releases |
| **executor registry** `executor/` | server → executor | Register, Unregister, Acquire (waits) | one executor value for all attachments of a server |
| **edge hub** `edgehub/hub.go` | current session, in-flight executions, grace generation and timers | Attach, Detach, Execute, HandleDone, expireGrace | sections under a mutex with calls in between; sessions end after their replacement |
| **edge endpoints** `httpapi/edge.go`, `grpcapi/` | a handler per session, a bounded dispatch queue | greet, serve, close, done | the two transports lose different things |
| **edge agent** `edge/` | session, running executions, unacknowledged results, buffered progress | dial, receive, run, buffer, post, acknowledge, flush | lost and late POSTs, bounded buffers, two flushers, crash |
| **log** `store/logs.go` | rows, subscriptions, followers | AppendLog, publish, FollowDeploy | replay and live feed overlap, bounded channels |
| **watcher** `edgewatch/` | alerted flag per edge | tick, Shutdown | pairs of alarms and all-clears |
| **notifier** `notify/notify.go` | bounded queue, wake channel, one goroutine | enqueue, drain, retry, popIf, finalDrain | eviction under a delivery, lost wakeups, shutdown |
| **engine** `engine/` | one pipeline | steps, attempts, pin, extract, swapDir | nested deadlines, crash between renames |
| **pure parts** `model/`, `notify/classify.go`, `config/schema.go` | none | aggregate, classify, publish the schema | corner cases, two definitions of one format |
| **workflow runs** `store/workflowruns.go` | rows | conditional upsert, retention | deliveries out of order |

What makes them correct, in one sentence each: a service runs one rollout at a
time and latest wins; a rollout finishes exactly once, when all its executions
have settled, and is announced at most once; nothing is launched twice, whatever
crashes; waves are gated and pin one image; an engine runs what the file says, from
a file that main accepted and for a caller whose token lives; the hub holds an execution only as
long as somebody will end it; a result is forgotten only when main has it; a
follower sees every line once and an end; news goes out in order and again only if
nobody heard it arrive, what is said of an edge last is what is believed of it, and
shutdown ends; the page shows of a workflow run what
GitHub said last.

`PROJECT.json` lists every component, modelled or not, and the hazards: the
places where this code is hard to test, each with the properties that watch it.

## Modules

    Status ── Rollout ── RolloutProps ── MCRollout            rows, scheduler, webhook, main
                              ├ refines ─ DeployLane          what a service promises
                              └ RolloutProofs ── RolloutRowProofs
    EdgeWire ─┬─ EdgeHub ───┬─ EdgeLink ── EdgeLinkProps ── MCEdgeLink
              └─ EdgeAgent ─┘                  └ EdgeLinkProofs   main and one edge
    LogFollow ── Updates ── LogProofs                         an edge's log, its store, a follower
    SwapDir ── Engine ── MCEngine                             one execution on its instance
                 └ EngineProofs
    NotifyHub ── MCNotifyHub                                  watcher, notifier, classification
          └ NotifyHubProofs
    Ops ── Config ── Schema ── Ingress ── MCIngress           file, reloads, tokens, requests, snapshots
                                  └ IngressProofs
    WorkflowRuns ── MCWorkflowRuns                            GitHub's runs
          └ WorkflowRunsProofs

A module states its properties next to its actions (Rollout and EdgeLink, which are
long, in a module of their own), then the invariants that the safety properties rest
on; the theorems are in the `…Proofs` module.

### Rollout (with Status and DeployLane)

One service, since services share nothing but the process. A statement of the
store is a step: `db.SetMaxOpenConns(1)` makes statements atomic and everything
else in an operation interleaves. A goroutine is a program counter:

| variable | code |
|---|---|
| `dstatus`, `finished`, `digest` | `deploys.status`, `finished_at IS NOT NULL`, `digest` |
| `exec[d][i]` | `executions.status`, `absent` for an instance the request left out |
| `handler[d]` | the webhook request that creates `d` |
| `busy`, `pending` | `svcState` |
| `run[d]` | the loop inside `runDeploy(d)`: waves left, members of the wave to start or sweep, digest, failed |
| `worker[d][i]` | `runExecution` |
| `rc[d][p]` | `recompute` by `p` (the loop is 0): the aggregate it has read and not yet written |
| `proc`, `recov`, `wired` | the process, the position in `Recover`, whether `Notify` is set |
| `launched`, `answer`, `pinned`, `notified` | history |

`Transition`, `WriteDeploy` and `SupersedeRow` are the guarded UPDATEs;
`RecomputeRead` and `RecomputeWrite` the two statements of
`RecomputeDeployStatus`, with the compare-and-set on `finished_at` in the second.
`EnqueueReplace`/`EnqueueReplaced` hold the scheduler's mutex (`Locked`). `Crash`
keeps the rows and forgets the rest; `Stop` cancels the root context and `Exit`
waits for the loops. A failing statement (`Fault`) is ignored where the code
ignores it. An error inside `Recover` ends the process and is one of the crashes.

Deploys are numbered in the order of `created_at`. `Status` aggregates the *set*
of statuses of the executions: the code's loop over a list tells no more apart.

`DeployLane` is what a service promises with the rollout left out: a deploy is
absent, waiting, active or ended; one is active at a time; a waiting one is given
up only for another that waits or because main shuts down. `KeepsLane` is
`Lane!Spec` under the mapping `Life` (a deploy has ended when all its executions
are terminal, is active when one has left `queued`), for as long as no statement has
failed and main has not crashed (`Smooth`); clean restarts, with what `Recover` does
after them, are included. A crash between the two UPDATEs of a supersession ends a
deploy that recovery then finds queued, which `DeployLane` does not describe.

### EdgeWire, EdgeHub, EdgeAgent, EdgeLink

Main and one edge, over either transport (`sse` is chosen initially). Sessions
are numbered in the order the edge dials them. Each section under the hub's or
the registry's mutex is one step, and what the code does between them is another:
`Attach` / `CloseOld` / `Register`, `Detach` / `Unregister`, `Hold` / `Send…` /
`Leave`.

Reductions: the pump's window and its idle wait are one program counter; what a
result says is left out (`settled` tells whether there is one); `bufferDone` and
the deferred `finish` are one step, because what a dial advertises is their union;
the four attempts of `ReportDone` are repetitions of `Post`; a POST that is sent
again while one is in transit is the same POST; processes restart in the step that
kills them; the grace window is positive (its default is 60 s); main's deadline
passes no later than the edge's, which starts later. Log lines, op events and
heartbeats are left out: silence is `GiveUp`.

### LogFollow, Updates

`LogFollow` has the rows of one deploy, the goroutines that append and publish, the
end of the deploy (stamp, then publish Done), retention, one follower goroutine and
its consumer. A line is its rowid. `sub` and `out` are the two channels, bounded by
`SubCap` (1024 in the code) and `OutCap` (64).

`Updates` says where the lines come from and makes a system of both. Its lines are
those of one execution, numbered as the engine says them (`Say`); what it shares with
the other executions of its session is there as far as it can touch them:

* the session's buffer is one for all: at most `BufferCap` of these lines are in it,
  and those of others may leave no room (`Say` may give a line up at any time);
* it is emptied by `flushLoop` (`Flush`, `LeaveLoop`) and by the pump whenever it
  reports a result, of this execution (`ReportDone`) or of another (`ReportOther`).
  Each waits for its POST, so two are under way at once, and more after one timed out;
* a POST fails before main has it (`PostFails`), or is given up after its 15 seconds
  while main goes on with it (`TimesOut`). `batch[p]` is one with the handler it gets:
  `at` says where it is, `by` who waits for it, `lines` what is left of it. The writers
  of `LogFollow` are these handlers, of which there are as many as `Writers`.

`text` is what the rows say. Three history variables remember what the promise about
it must except: `losses` counts the times progress was given up, `overlap` says that a
POST of this execution was begun beside another, `late` holds the lines that were under
way when the result was reported, which waits for no POST but its own. How a result
travels is EdgeLink's; here it is reported, settled and stamped once.

### SwapDir, Engine

One instance and the executions that reach it one after the other: `Begin` is a
call of `Execute` with any validated pipeline and any digest of the rollout.

| variable | code |
|---|---|
| `pc`, `step`, `attempt`, `err` | the position in `Execute`, `runAttempts` and the op that runs |
| `pinned`, `resolved`, `result` | `execState.digest`, the local digest of `imagePin`, `Result.Digest` |
| `deadline`, `expired` | the execution's context is done; the attempt's own timeout has passed |
| `to`, `old`, `new` | the directories `<to>`, `<to>.old`, `<to>.new` |
| `latest`, `tag`, `container`, `temp` | what `:latest` is in the registry and here, what the service runs, the temporary container |

A version is two halves, so that a directory can hold one version, part of one, or
a mixture. Every file operation is a step that may fail (`Fault`), having done
part of its work if it is a removal, and that a crash may follow or interrupt. A
command fails or succeeds, and when it fails it may have had its effect; it ends
on its own or is killed (`Killed`) once its context is done. swapDir and unpacking
an archive heed no context, as in the code. Whether a service has one container or
several is left out: `container` is the one the pin is about, and a successful
`compose.up` may leave it alone.

### NotifyHub

The watcher's polls, the notification hub and the decision what a deploy is worth
telling. An item is a kind and a subject, with the number of its arrival and its
attempts; the kind of a deploy's event is computed at each attempt from `row`, the
history of one service, as `buildEvent` does.

A deploy is stored (`Create`) and ends (`Settle`, with the item that
`Scheduler.recompute` queues, or `Supersede`, without one) in any order: the list that
`recovered` reads is sorted by the time of creation, while deploys run in the order
they are enqueued, which two webhooks may swap. `overtaken` remembers the successes
that ended before a deploy listed as older. That the end of a deploy and its `Notify`
are one step hides nothing here: the worker reads only rows, and what it reads of
*other* deploys can be of any moment. `Reclaim` is retention.

Whether an edge has a session is a free choice at each poll: `Offline` and `Online` are
the polls that have something to announce. The policy (`Wanted`) is a constant, a reload
switches notifications as a whole or declares a server anew; `MainStarted` is left out.

A `Send` is two things: whether the backend accepts (`Takes`) and whether that is heard.
`Delivers` is both, `Fails` and `FailsForGood` are an attempt that failed, with the
message accepted or not. `last` is what was accepted last, with the number of times
and whether it was heard; `told` the same of each edge. `lossy` has the edges of which
some news was dropped, collapsed, filtered or given up unaccepted, `spoiled` those of
which that was the latest news, until newer news of it is queued.

`Stop` is the point where main stops the notifier: watcher and scheduler went before it
(`cmd_main.go:203`), so nothing is queued after it. Two things this module does not
show: a deploy that the race of `stale_status` leaves `running` is read as such at
delivery, and its notification is dropped without a word; and at the bounds of the run
no deploy is reclaimed while its news still waits, which the theorems cover.

### Ops, Config, Schema, Ingress

`Ops` and `Config` are operators: what a written step is read as (`StepAccepted`,
`Parsed`), the pipeline of an instance (`StepsFor`), its way through JSON
(`Marshal`, `Unmarshal`), interpolation, attempts, what engines of other releases do
(`RunBy`, `RunByOld`); which files load (`FileAccepted`) and the shape they are
brought into (`Normalized`). Integers are as wide as `MaxInt` says and wrap as in
Go. A file is a record of what decides: step arguments are known or not, complete or
not, plain or a reference into the payload; names, addresses and paths are given or
`Unset`; a `github_repo` is a pair, a pair with a line break in it, or something
else. `Schema` says which of the same files the published JSON schema passes.

`Ingress` is the part with state:

| variable | code |
|---|---|
| `disk` | hookploy.yaml, edited once |
| `served`, `registered` | `cfgVal`; servers whose executor is main's own |
| `reload[r]` | a reload between `config.Load`, `cfgVal.Store` and `registerLocals` |
| `keys` | the rows of the service's tokens, written by a command of its own process |
| `request[q]` | a handler between looking its token up, reading `Config()` and `BuildDeploy`; webhook, manual deploy or task |
| `deploy[q]`, `ran[q]` | the executions with their snapshots; what an engine on main or on an edge made of each |
| `returned`, `overlap`, `rotated` | history |

What happens to a deploy between `Submit` and the engine is Rollout and EdgeLink.

### WorkflowRuns

GitHub's side (`github`, `wire`) changes a run and sends a delivery that may be
lost, refused, sent again or overtaken; a handler upserts (`Supersedes` is the
WHERE of the upsert, `Started` its COALESCE) and then cleans up, in two statements.
Timestamps have whole seconds, so that several changes fall into one.

## Runs and bounds

| run | question | bounds |
|---|---|---|
| `rollout` | do rows, notification, executors and recovery agree whatever interleaves, fails or crashes? | 2 deploys (the first may be a one-instance task), 2 instances, one deploy in one wave and one in two, 2 digests, 1 kept, any 2 of 2 crashes, 1 stop and 1 failing statement (`TwoMishaps`) |
| `rollout_live` | does every deploy finish, is the lane kept? | 3 deploys, 1 instance, 1 stop or 1 failing statement (`OneMishap`) |
| `stale_status`, `recovery_gap` | disagreements, below | 1 deploy |
| `edge_sessions` | sessions, timers, orphans, results; does every held execution converge, every result get through? | 2 executions, 3 sessions, 1 fault, queue and buffer of 1 |
| `knock_out` | disagreement, below | 2 sessions |
| `engine` | directories, attempts, pin, end | 2 executions, 3 pipelines, 2 digests, 1 push, 1 crash, 1 failing file operation |
| `log_follow` | buffer, batches, rows, replay, live feed, end | 2 POSTs at a time (`Writers`), 2 lines, progress given up once (`MaxLosses`), buffer of 2, channels of 1 |
| `log_gap` | disagreement, below | the same, a subscription of 2 |
| `notify` | queue, retries, recoveries, watcher, shutdown | 2 old deploys (failed, superseded) and 2 new ones, look-back and retention 3, 1 edge, 3 items (`MaxItems`), 1 reload, queue of 2, 2 attempts |
| `workflow` | deliveries out of order, retention, convergence | 2 runs of a repository that keeps 1, the first rerun (4 changes), 3 seconds, 1 delivery sent again, 2 handlers |
| `ingress` | what is accepted, served and run, and for whom | 7 files that load and 10 that must not, 1 edit, 2 reloads, 2 tokens and a foreign one, 1 request of 3 kinds with 5 bodies, engines of 4 kinds; the file is edited or tokens change, not both (`OneConcern`) |

Why these are enough for the cases that matter. A recompute race needs two
workers; a stale one also needs the closing recompute. Three deploys are needed
for one to run, one to wait and one to replace it. Two waves are needed for
gating, and a deploy without them for one worker to overtake another. Any two
mishaps meet in any order and between any two statements, a crash during the
recovery from another among them; three are left to the theorems, which bound
nothing. In `rollout_live` there is one of a stop and a failing statement: no fair
action of it brings a second one about, so no fair behaviour is cut short. In
`ingress` an edit and a command about tokens meet in two guards only (a command
opens the file first), which the theorems cover without the bound. Three sessions are
needed for a session that ends after its replacement's replacement, a queue and a
buffer of one so that both overflow. Two lines and two POSTs give one line
replayed or at the seam and one behind it, lines that overtake each other, and a
subscription that loses a line or Done. A flusher that finds no slot waits, in the model
only: a third POST under way at once is left to the theorems (three lines, two losses
and a subscription of 2 were run once as well). Two runs with one kept let a late delivery bring back a run that retention
took; a rerun has a second start, and three seconds make two changes share one. The
files of `ingress` each meet one check of the loader from either side. With
a queue of 2 and 3 items the notifier's queue overflows under a delivery, whose item
may have been accepted unheard; two new deploys swap places; a look-back of 3 over 4
deploys is both enough and, at times, exhausted (4 items passed, too). A crash between
two renames only bites in the execution that follows, hence two executions; the
verification of a pin only matters if `:latest` moves between two `compose.up`s,
hence the push and the pipeline with a pull between them.

Every property has a mutant in `PROJECT.json`: a change of one mapped definition,
of the kind a slip in that code would be, that the run catches.

## Fairness

* **Rollout** (`Fairness`): the handler of a request that arrived, the loop, each
  worker and each recompute go on, recovery proceeds, and main is started again.
  They are goroutines whose every wait is bounded (`Acquire` by its window,
  `Execute` by the execution's timeout). Requests, stops and crashes need not
  happen.
* **EdgeLink** (`FairSpec`): weak fairness of `Step` as a whole, which is weaker
  than fairness of each goroutine and enough because `Step` cannot go on forever
  between faults. Nothing is assumed of timeouts, faults, or an edge that is away
  ever dialing again; `ResultsGetThrough` is conditional on the edge being up
  again and again.
* **Updates** (`FairSpecAll`): the execution ends, its result is reported and its deploy
  finished (`Ending`); main goes on with the POSTs that are under way, so that each is
  answered; so do the follower and a consumer that is there. A POST has a timeout, and
  handlers wait for nothing but the store. Nothing is assumed of lines, other
  executions, broken streams or retention.
* **WorkflowRuns**: a delivery that reached main is handled and the handler's
  cleanup runs or is skipped; GitHub need not change a run again.
* **NotifyHub**: the delivery goroutine goes on during shutdown; nothing else is
  assumed.
* **Engine** (`FairSpec`): the engine's own steps go on, the execution's deadline
  comes (`scheduler.go:228` and `agent.go:230` set one), and a command whose
  context is done ends, since the runner kills its process group. A command that
  is not killed may hang for ever.

## What is proved

A run looks at a small instance; a theorem holds for every value of the constants:
any number of deploys, instances, waves, images, sessions, executions, lines, edges,
files, tokens or runs, any capacity of a buffer, queue or channel, and any number of
crashes, failures and lost messages, under the assumptions named in the modules (sets
of numbered things are sets of natural numbers, a default is not one of the values it
stands beside, bounds are natural numbers). `TwoMishaps`, `OneMishap` and `OneConcern`
belong to the MC modules and bound no theorem.

| module | theorem | states |
|---|---|---|
| RolloutProofs | `TypeCorrect`, `Safety` | `TypeOK`, `SafetyInv` |
| | `Serialized` | `OneRollout` |
| | `NotifiedOnce` | `NotifyOnce` |
| | `NeverRelaunched` | `LaunchedOnce` |
| | `SettledForGood` | `ExecutionsFinal` |
| RolloutRowProofs | `WavesAreGated` | `WaveGate` |
| | `FinishedIsTrue` | `FinishIsTrue` |
| | `StartedForGood` | `NeverRequeued` |
| | `NothingForgotten` | `NoOrphan` |
| | `SameImage` | `OneImage`, if `LeadsPin` |
| | `LaneIsKept` | `KeepsLane`, the refinement of `DeployLane` |
| EdgeLinkProofs | `LinkTypes` | `TypeOK` |
| | `LastAttachedOwns` | `OneOwner` |
| | `AwayIsTimed` | `HeldHasTimer` |
| | `ResultsAreKept` | `ResultKept` |
| | `OrphansAreLost` | `OrphansOfLastDial` |
| NotifyHubProofs | `HubTypesHold` | `TypeOK` |
| | `NewsInOrder` | `InOrder` |
| | `AlarmsAreTrue` | `FlagMatchesNews` |
| | `RecoveriesAreEarned` | `RecoveredIsEarned` |
| | `NoWakeupIsLost` | `NoLostWakeup` |
| EngineProofs | `EngineTypes` | `TypeOK` |
| | `StepsInOrder` | `InOrder` |
| | `PinnedIsRun` | `SuccessIsPinned` |
| | `ContentIsSafe` | `ContentSafe` |
| | `EndsClean` | `CleanEnd` |
| LogProofs | `SentOnce` | `NoRepeats` |
| | `NothingIsLost` | `Accounted` |
| | `LogsAreWhole` | `LogIsWhole` |
| WorkflowRunsProofs | `ShownIsNewest` | `NewestShown` |
| | `StartsAreKept` | `StartKept` |
| | `OnlyTheOldestGo` | `OldestGoes` |
| IngressProofs | `ReloadTakesHold` | `ServesTheFile` |
| | `RevokedOpensNothing` | `OnlyLiveKeys` |
| | `EditorsAgree` | `EditorAgrees` |
| | `EnginesRunTheFile` | `RunsAsWritten` |
| | `AcceptedWorks` | `AcceptedIsSound` |

These are all the invariants and action properties that a run checks, and the
refinement; what is left to TLC alone is liveness. Every theorem is about the
specification the run checks (`Spec`, `SpecAll` in Updates). Hardly any of the properties is inductive as it stands; the sections below
say what each rests on. The invariants were model-checked before they were proved.

### Rollout

That two loops do not run together follows from `busy`, which only helps if every
running deploy implies it and no worker outlives the loop that waits for it.
`SafetyInv` says so, in four parts:

* `SlotInv` — one deploy in the loop, `busy` while there is one, workers only
  while the loop is in `first` or `join`, and no loop before `Recover` ends;
* `BornInv` — before `CreateDeploy` nothing anywhere refers to the deploy, so no
  goroutine can resurrect it;
* `NotifyInv` — whoever is about to notify won the compare-and-set, alone, and
  nobody has notified before;
* `LaunchInv` — what was launched is past `dispatching`, and no statement leads
  back.

Each part is preserved by one lemma per group of actions (handlers, loop, workers,
recomputes, recovery, process), after typing. `SettledForGood` needs no strengthening
but typing: every UPDATE of an execution either is guarded by a non-terminal status
or sweeps only such rows.

`RolloutRowProofs` adds what the rows mean.

* `WaveGate` follows from `GateInv`: a worker was let in by the answers of all
  earlier waves (`AnswerOf`), an answer that was given stands (`ReportedOf`), and a
  loop that neither failed nor is shutting down has only successes behind it
  (`GateOf`). The rows play no part in it, so failing statements do not matter.
* `FinishIsTrue` and `NeverRequeued` need `HandInv` (a deploy is handed from its
  handler to the pending slot to the loop, and nothing of it moves before), `LoopInv`
  and `RowInv`. The heart is `ReadOf`: what a recompute has read and not yet written
  may be stale, yet *all settled* and *all succeeded* stay true once read, and
  *queued* is read by nobody but the loop before it starts a worker. That `running`
  may be stale is the disagreement `stale_status`.
* `NoOrphan` needs `RecovInv` (how far `Recover` is: what is in flight is still to be
  closed, then nothing is, and what has not settled is on its list), `TrackInv` (while
  no statement fails, an execution in flight has the worker that drives it) and
  `LeftInv` (what the loop has left behind has settled).
* `OneImage` rests on `PinnedOf` and `PromotedOf`: nobody pins before the lead, and
  the others run what the lead pinned. It is proved under `LeadsPin`: the first
  instance of the first wave of a deploy that comes without a digest is one that pins. The
  assumption is needed: `on:` can take `image.pin` from the first instance. While
  there is no digest the loop runs the first execution of each wave alone and promotes
  only what that one reports (`scheduler.go:136-147`): the others of a wave whose first
  does not pin resolve `:latest` each for itself. A
  crash that forgets a digest before it was stored is covered: the lead is never
  launched again, which keeps the gate shut for the rest.
* `KeepsLane` is shown step by step: at most one deploy changes its `Life` in a step,
  and by one of the actions of `DeployLane`. `LaneInv` says why. A deploy that the loop
  does not have is untried or over and its row says so, but for one that is just being
  superseded (`WaitsOf`); so only the loop's is active, and a worker can begin another
  only once the loop has left its predecessor. What the loop has was taken untouched, and
  it leaves nothing before it reads finished (`TakenOf`). A row that is written fits the
  executions (`StoredOf`), and a recovery after a clean stop has nothing to close and
  supersedes only for another deploy that it enqueues (`RestartInv`).

### EdgeLink

`LinkInv` puts `OneOwner`, `HeldHasTimer` and `ResultKept` together with what they
need: sessions come in the order they are dialed, and nothing reaches an edge over
one that is not attached (`SessionInv`); no timer is of a generation to come
(`TimerInv`), so that the next one started is the only live one; the hub holds what a
goroutine is executing, nobody has seen what was not sent, and main has what it
acknowledged (`ExecInv`); and what an edge has when it attaches is what it claimed
(`ClaimInv`), which is all of `OrphansOfLastDial`. The last one and `ResultKept` are
about SSE: over gRPC a stream's result may be lost with the stream.

### LogFollow, Updates

A line is in one place at a time: with its writer until it is published
(`WritersInv`), in the subscription only after that and once (`SubInv`), in the replay
as a run of consecutive rows that begins after the last one sent (`ReplayInv`); and
what was sent beyond the replay has left the subscription (`SentInv`). `NoRepeats`
and `Accounted` are inductive with these.

`LogIsWhole` follows from three facts about the way to the store. `PlacesInv`: a line is
in one place, the store, a batch or the buffer, and those in the buffer were said after
all the others; so no line is stored twice. `OrderInv`: while no two POSTs were begun
beside each other, at most one batch has lines left, and they come after the rows.
`KeptInv`: while nothing was given up, a line that was said is in one of these places, or
it is late and was dropped because its execution had settled; and once the result is
reported the buffer is empty and what is under way is late or in the batch that the
report waits for. None of it depends on how many slots, flushes or executions there are.

### NotifyHub

Five parts hold together. `Hub` has the types, the item under delivery, which is still
the head or was dropped meanwhile (`SendInv`), which is what `popIf` looks at, and the
kind it was found to be worth (`KindInv`). `Chain` has the queue: sorted by arrival, one
item of a kind and subject at most, and all newer than what the backend accepted last
but for the very item, if that was not heard to be accepted and attempts are left
(`QueueInv`, `Unheard`). With both a step that the backend accepts takes the next item or
the same again: `InOrder`. `Words` and `Flags` carry the two halves of `FlagMatchesNews`:
the last word on an edge that is not spoiled, and the news of one that is not lossy,
taken without the item that was already accepted. `KeepInv` (what retention deletes is
older than all that it keeps) and `LastInv` carry `RecoveredIsEarned`: the walk back
through the history stops at the right row because what lies between never ran or has
not ended, however far it is, and it stays the right row until a deploy that is listed as
older ends, which is what makes a success overtaken.

### Engine

Each theorem has its own part: positions (`InPlace`) and attempts (`AttemptInv`) for
`InOrder`; `PinInv` for `SuccessIsPinned` (past its last `compose.up` a pipeline pins
no more, and what runs has been verified); `SwapInv` and `KeptInv` for `ContentSafe`
(the content that was there survives one failed file operation or, together with what
is about to be installed, one crash); `BroughtInv` and `TempInv` for `CleanEnd`.

### WorkflowRuns

`NewestShown` is inductive with typing: a row is only replaced by a delivery that is
not older, and leaves the table together with its history. `StartKept` adds `StartInv`:
a run's start is not before its creation and deliveries carry GitHub's own, so
`COALESCE` can only move it forward. `OldestGoes` needs that there are finitely many
rows, so that the newest `Keep` of them exist; how many stay is counted with the
library's facts about cardinality.

### Ingress

`IngressInv` has three parts beside typing. `ReloadInv`: as long as no two reloads
overlap, what was returned, what is served, what the reload under way has read and
what is on disk are in this order of age. `RequestInv` carries that to a request: it
holds no file older than what was returned when it came. `KeyInv`: a token that is
revoked stays so, and who got past `Authenticate` held one that was live. That the
schema is looser than the loader follows from no history at all: a lemma per part of
a file (a step, a pipeline, a rollout, notifications) shows what the loader accepts to
match, and `EditorsAgree` adds that the file on disk is one of them.

`RunsAsWritten` and `AcceptedIsSound` follow a deploy from the file to the engine.
`DeployInv` is the inductive part: a deploy that is there holds the executions that
`BuildDeploy` makes of the request and of an accepted file, and what was run of each is
what an engine *with* modifiers does with its snapshot. An engine on an edge may lack
them; that it then does the same with whatever the hub lets it have is `EnginesAgree`,
from `NeedsModifiers` and the assumption that a release from v0.7.0 on has them
(`VersionsAssumption`). The rest is about the operators:

* a step keeps its fields through parsing, `Copy`, filling in and two trips through JSON
  (`FinalIs`, `SentIs`); the steps of an instance are the same picked before or after
  (`StepsAreMine`); `RunAsWritten` adds what an engine makes of one. A step that is
  retried `MaxInt` times is excused: there `retries + 1` wraps, and `Attempts` is
  negative (`Countable`);
* `StepsFor` keeps the steps in their order: `InOrder` names the position with so many
  below it, and `InOrderGrows` and `InOrderHasAll` show by counting that positions grow
  and none is left out;
* `Execs` goes through the waves by recursion. That there is such a function, and that
  places in waves and executions are each other's (`AllPlaced`), is shown at the
  least wave where it would fail, since ℕ is well-founded;
* what the loader checked of the file then holds of what is sent (`SnapshotIsSound`), and
  as a rollout names each instance once (`OnePlace`) so do the executions (`OneExec`).

`IsService` is the shape of a service that decodes at all: names are strings, a step has
one `on:` at most, as `parseMapStep` refuses a second.

## Where the code disagrees with its own words

Each is a `violation` run with TLC's counterexample, and a finding in
`PROJECT.json` with the quoted line.

* **stale_status** (`deploys.go:260`): a recompute that read before its sibling
  settled writes last, and a finished deploy reads `running` for good.
* **recovery_gap** (`deploys.go:320`): a crash between the last transition and its
  recompute leaves a deploy that recovery never selects.
* **log_gap** (`logs.go:126`): a follower whose deploy finishes during its replay is
  told Done without the lines in its subscription.
* **knock_out** (`hub.go:216`): an edge that reconnects while its old session is
  between the hub's lock and `Unregister` loses the registration of the new one.

Met while modelling, and excused or left open by the properties that meet them:

* main stops waiting for an execution without telling the edge (`hub.go:372`), and
  the next deploy can overlap the previous one on the same instance;
* two webhooks that race between `CreateDeploy` and `Enqueue` supersede the newer
  deploy (against "latest wins"), and `on:` can take `image.pin` from the first
  instance, so that the others resolve `:latest` each for itself;
* a request that Attaches after its edge gave up on it orphans work that is alive
  ("nothing will ever report them", `hub.go:166`); a result evicted from the edge's
  buffer leaves main waiting until its own deadline;
* "a deploy's log must not end after its own result" (`transport_sse.go:337`): what
  `flushLoop` is posting when `ReportDone` flushes may arrive after the result and is then
  stored late or not at all (`late`); two POSTs at once may store an execution's lines in
  another order than it said them (`overlap`), be it because another execution's result
  flushed the shared buffer or because a POST timed out while main was at it; and what an
  execution says after the session it was started on broke goes to a buffer that nobody
  posts any more (`losses`);
* op rows take the same two ways as log lines: `StartOp` and `FinishOp` may overtake
  each other (not modelled);
* a `Send` that times out after the backend accepted it is sent again, so that an alarm
  goes out more than once (`telegram.go:84-95`, `notify.go:333-346`);
* an alarm that was given up is still followed by its all-clear, against "only an outage
  that was announced gets one" (`notify.go:244-246`, `watcher.go:53-54`); and news that
  comes while the same news is being sent is collapsed into it, a case the comment at
  `notify.go:274` takes to be impossible: after offline, online and offline in that
  time the all-clear is the last word;
* a success that ends before a deploy listed as older is read as if it had come after
  it: two webhooks that race between `CreateDeploy` and `Enqueue` can make it a recovery
  that none was, or hide one (`classify.go:95-117`);
* an instance key that is written twice in the file is accepted and deployed twice
  (`raw.go:119`); a step budget beyond 2^63 ns wraps around and fits
  (`config.go:467`); overlapping reloads may leave the older file served
  (`cmd_main.go:91`), and `registerLocals` never unregisters;
* the schema flags what the loader takes: empty keys, lists and maps, unquoted numbers
  where a string is meant, and a line break in `github_repo` (`docs/json-output.md:33` calls it the looser of the two);
* two changes of a workflow run in one second: the one that is delivered last wins,
  an `in_progress` over a `completed` too (`workflowruns.go:54`);
* a crash between a migration and its `PRAGMA user_version` (`store.go:140-143`)
  makes the next start run it again and fail (not modelled).

## What is only checked and what is not modelled

TLC only:

* liveness (`EveryDeployFinishes`, `HoldsConverge`, `ResultsGetThrough`,
  `FollowEnds`, `ShutdownEnds`, `ExecutionEnds`, `ShowsTheTruth`): it rests on
  fairness and ENABLED, which are out of the prover's reach;

Induction over data is out of the provers' reach as a rule that takes a predicate. Where
a theorem needs one it is made by hand, for the predicate at hand, as a descent to the least
counterexample.

The type invariants of EdgeLink, LogFollow, NotifyHub and Engine are proved
along with the rest, and no run spends its time on them.

Not modelled, with the reason at each component in `PROJECT.json`: pure I/O
(process groups and signals, archive formats, HTTP plumbing, Telegram), text
(parsing, rendering, the command line), read-only pages, random tokens, generated
code.

## Plan

1. *(done)* `Rollout` with its abstraction and proofs; the edge link; followers;
   the notifier; `Engine` and `SwapDir`.
2. *(done)* `Ops`, `Config`, `Schema` and `Ingress` with its proofs; `WorkflowRuns`;
   `Updates`, the log from the edge to the follower.
3. *(done)* Proofs of the safety of every component: each invariant and action
   property that a run checks, and the refinement of `DeployLane`.
4. The log over gRPC and the op rows; the environment file of `env.write`.
