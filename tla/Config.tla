------------------------------- MODULE Config -------------------------------
(***************************************************************************)
(* Loading hookploy.yaml (internal/config): which files are accepted, and  *)
(* the one shape every accepted service is brought into.  A file declares  *)
(* its servers, its notification settings and one service; several         *)
(* services are accepted one by one.                                       *)
(***************************************************************************)
EXTENDS Ops

CONSTANTS DefaultTimeout

\* model.EventKinds, with the half that is about nodes.
DeployKinds == {"deploy.failed", "deploy.succeeded", "deploy.recovered", "deploy.unreachable"}
NodeKinds == {"main.started", "edge.offline", "edge.online"}
EventKinds == DeployKinds \cup NodeKinds
DefaultEventKinds == {"deploy.failed"} \cup NodeKinds

Positions(s, x) == {k \in DOMAIN s : s[k] = x}
Elements(s) == {s[k] : k \in DOMAIN s}

-----------------------------------------------------------------------------
(* Notifications: a raw block is [provider, creds, after, events], a       *)
(* service's override {} or {[enabled, events]}.                           *)

NotifyAccepted(n) ==
  /\ n.after >= 0
  /\ n.provider \in {Unset, "telegram"} /\ (n.provider = "telegram" => n.creds)
  /\ \A kinds \in n.events : kinds \subseteq EventKinds

GlobalEvents(n) == IF n.events = {} THEN DefaultEventKinds ELSE UNION n.events

OverrideAccepted(raw) ==
  \A o \in raw.notify : \A kinds \in o.events : kinds \subseteq DeployKinds

\* The resolved policy: the kinds a service's deploys are announced for.
Wants(raw, n) ==
  IF \E o \in raw.notify : ~o.enabled THEN {}
  ELSE IF \E o \in raw.notify : o.events # {} THEN UNION {UNION o.events : o \in raw.notify}
  ELSE GlobalEvents(n) \ NodeKinds

-----------------------------------------------------------------------------
(* Targets: server and dir, or a list of instances with a rollout.         *)

Sugar(raw) == raw.server # Unset

InstancesOf(raw) ==
  IF Sugar(raw) THEN <<[name |-> raw.name, server |-> raw.server, dir |-> raw.dir]>>
  ELSE [k \in DOMAIN raw.instances |->
          [raw.instances[k] EXCEPT !.dir = IF @ = Unset THEN raw.dir ELSE @]]

InstanceNames(raw) == {i.name : i \in Elements(InstancesOf(raw))}

TargetsAccepted(raw, servers) ==
  /\ Sugar(raw) # (raw.instances # <<>>)
  /\ \A i \in Elements(InstancesOf(raw)) :
       i.server # Unset /\ i.server \in servers /\ i.dir # Unset

Once(raw, name) ==        \* of all places in all waves, one
  \E w \in DOMAIN raw.rollout : \E k \in DOMAIN raw.rollout[w] :
    /\ raw.rollout[w][k] = name
    /\ \A v \in DOMAIN raw.rollout : Positions(raw.rollout[v], name) = IF v = w THEN {k} ELSE {}

RolloutAccepted(raw) ==
  raw.rollout # <<>> =>
    /\ ~Sugar(raw)
    /\ \A w \in Elements(raw.rollout) : Elements(w) \subseteq InstanceNames(raw)
    /\ \A name \in InstanceNames(raw) : Once(raw, name)

\* By default one instance after the other.
RolloutOf(raw) ==
  IF raw.rollout # <<>> THEN raw.rollout
  ELSE [k \in DOMAIN InstancesOf(raw) |-> <<InstancesOf(raw)[k].name>>]

-----------------------------------------------------------------------------
(* Pipelines                                                               *)

PipelineParses(raws) == \A k \in DOMAIN raws : StepAccepted(raws[k])
ParsePipeline(raws) == [k \in DOMAIN raws |-> Parsed(raws[k])]

\* validateStepBudget, in Go's arithmetic.
Worst(s) == Wrap(Wrap(Attempts(s) * s.timeout) + Wrap((Attempts(s) - 1) * RetryInterval))
BudgetFits(s, timeout) == s.timeout = 0 \/ Worst(s) <= timeout

\* validatePin, of the steps one instance runs.
PinVerified(steps) ==
  \A k \in DOMAIN steps : steps[k].op = "image.pin" =>
    \E m \in DOMAIN steps : m > k /\ steps[m].op = "compose.up"

\* validatePipeline.
PinsVerifiedMut(raw, steps) == PinVerified(steps)
PinsVerified(raw, steps) ==
  \A name \in InstanceNames(raw) : PinVerified(StepsFor(steps, name))

PipelineAccepted(raw, steps, timeout) ==
  /\ \A s \in Elements(steps) :
       /\ s.op = "image.pin" => raw.image # Unset
       /\ s.on \subseteq InstanceNames(raw)
       /\ BudgetFits(s, timeout)
  /\ \A name \in InstanceNames(raw) : StepsFor(steps, name) # <<>>
  /\ PinsVerified(raw, steps)

TimeoutOf(raw) == IF raw.timeout = 0 THEN DefaultTimeout ELSE raw.timeout

\* github_repo, which links a service to its workflow runs in the web UI, is a
\* "pair" of an owner and a repository, such a pair with a line "broken" in it,
\* or anything "else".
RepoAccepted(raw) == raw.repo # "else"

\* normalizeService.  The one task a service may have is {} or {steps}.
ServiceAccepted(raw, servers) ==
  /\ OverrideAccepted(raw)
  /\ RepoAccepted(raw)
  /\ TargetsAccepted(raw, servers)
  /\ RolloutAccepted(raw)
  /\ raw.deploy # <<>> /\ PipelineParses(raw.deploy)
  /\ PipelineAccepted(raw, ParsePipeline(raw.deploy), TimeoutOf(raw))
  /\ \A task \in raw.task :
       /\ PipelineParses(task)
       /\ \A k \in DOMAIN task : task[k].on = {}
       /\ task # <<>> => PipelineAccepted(raw, ParsePipeline(task), TimeoutOf(raw))

\* Decoding is strict: f.odd says that it has an unknown key, or a value of
\* another shape than its key takes.
Decodes(f) == ~f.odd
FileAccepted(f) ==
  Decodes(f) /\ NotifyAccepted(f.notify) /\ ServiceAccepted(f.service, f.servers)

Normalized(f) ==
  LET raw == f.service IN
  [image |-> raw.image, webhook |-> raw.webhook, timeout |-> TimeoutOf(raw),
   wants |-> Wants(raw, f.notify), instances |-> InstancesOf(raw), rollout |-> RolloutOf(raw),
   deploy |-> ParsePipeline(raw.deploy), tasks |-> {ParsePipeline(t) : t \in raw.task \ {<<>>}}]

\* Service.Instance: the first of that name.
InstanceNamed(svc, name) ==
  svc.instances[CHOOSE k \in DOMAIN svc.instances :
    /\ svc.instances[k].name = name
    /\ \A m \in 1..(k - 1) : svc.instances[m].name # name]
=============================================================================
