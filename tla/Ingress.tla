------------------------------ MODULE Ingress ------------------------------
(***************************************************************************)
(* From a request to what an engine does: main serves a configuration      *)
(* while the file is edited and reloaded, service tokens are created,      *)
(* rotated and revoked by a command of its own process, and handlers       *)
(* authenticate, look the service up and build a deploy from it, which is  *)
(* handed to engines of several versions (httpapi/webhook.go and           *)
(* server.go, scheduler/build.go, store/tokens.go, cli/cmd_main.go).       *)
(* What becomes of a deploy in between is Rollout and EdgeHub.             *)
(***************************************************************************)
EXTENDS Schema, FiniteSets

CONSTANTS
  Content,     \* the files there may be, in a sequence
  First,       \* those main may be started with
  Edits,       \* those the operator may write later
  Payloads,    \* [key, digest] of a body
  Names,       \* of instances, as a task trigger gives them
  Versions,    \* of engines on edges
  Keys,        \* the service's tokens in the order of their creation
  Foreign,     \* a token of another service or kind
  Requests, Reloaders

\* What the fields of a file hold, as far as it decodes.
RawSteps ==
  [op : STRING, odd : BOOLEAN, on : SUBSET SUBSET STRING, timeout : SUBSET Int, retries : SUBSET Int,
   args : SUBSET [known : BOOLEAN, complete : BOOLEAN, text : STRING, polls : Int]]
IsPipeline(raws) ==
  raws \in Seq(RawSteps) /\ \A k \in DOMAIN raws : \A a, b \in raws[k].on : a = b
IsService(raw) ==
  /\ raw.name \in STRING /\ raw.repo \in {Unset, "pair", "broken", "else"}
  /\ raw.instances \in Seq([name : STRING, server : STRING, dir : STRING])
  /\ raw.rollout \in Seq(Seq(STRING))
  /\ IsPipeline(raw.deploy)
  /\ \A t \in raw.task : IsPipeline(t) /\ \A u \in raw.task : u = t

ASSUME IngressAssumption ==
  /\ First \subseteq DOMAIN Content /\ Edits \subseteq DOMAIN Content
  /\ Keys \subseteq Nat \ {0} /\ Foreign \notin Keys
  /\ \A f \in DOMAIN Content : IsService(Content[f].service)

\* Engines of ModifiersSince and later, and builds in between, have the modifiers.
ASSUME VersionsAssumption ==
  \A v \in Versions : v.modifiers \in BOOLEAN /\ (AtLeast(v, ModifiersSince) => v.modifiers)

Accepted == {f \in DOMAIN Content : FileAccepted(Content[f])}
Loaded == [f \in Accepted |-> Normalized(Content[f])]

VARIABLES
  disk,        \* [rev, file] of hookploy.yaml
  served,      \* the same of cfgVal
  registered,  \* servers the registry holds main's own executor for
  reload,      \* the reloads: [pc, rev, file]
  returned,    \* history: the newest revision a reload said ok to
  overlap,     \* history: two reloads were under way together
  keys,        \* the rows of the tokens
  rotated,     \* history: the key of a rotation no command came after
  request,     \* a handler and what it knows
  deploy,      \* what it built
  ran          \* what engines did of it

config == <<disk, served, registered, reload, returned, overlap>>
access == <<keys, rotated>>
vars == <<config, access, request, deploy, ran>>

NoRequest == [pc |-> "none"]
NoDeploy == [built |-> FALSE, execs |-> <<>>]
Waiting == [state |-> "waiting", did |-> <<>>]

Init ==
  /\ \E f \in First \cap Accepted :
       /\ disk = [rev |-> 0, file |-> f]
       /\ served = disk
       /\ registered = Content[f].locals
  /\ reload = [r \in Reloaders |-> [pc |-> "idle"]]
  /\ returned = 0 /\ overlap = FALSE
  /\ keys = [k \in Keys |-> IF k = 1 THEN "active" ELSE "none"]
  /\ rotated = 0
  /\ request = [q \in Requests |-> NoRequest]
  /\ deploy = [q \in Requests |-> NoDeploy]
  /\ ran = [q \in Requests |-> <<>>]

-----------------------------------------------------------------------------
(* The file, and reloads from the signal loop and from handlers: Load,     *)
(* cfgVal.Store, registerLocals.  Nothing unregisters main's executor but  *)
(* an edge that attaches for any declared server and replaces it.          *)

Edit ==
  /\ disk.rev = 0
  /\ \E f \in Edits : disk' = [rev |-> 1, file |-> f]
  /\ UNCHANGED <<served, registered, reload, returned, overlap, access, request, deploy, ran>>

UnderWay == {r \in Reloaders : reload[r].pc \in {"loaded", "stored"}}

\* A file that does not load ends the reload; the old one is kept.
Load(r) ==
  /\ reload[r].pc = "idle"
  /\ reload' = [reload EXCEPT ![r] = IF disk.file \in Accepted
                       THEN [pc |-> "loaded", rev |-> disk.rev, file |-> disk.file]
                       ELSE [pc |-> "failed"]]
  /\ overlap' = (overlap \/ UnderWay # {})
  /\ UNCHANGED <<disk, served, registered, returned, access, request, deploy, ran>>

ServedMut(r) == IF served.rev = 0 THEN served ELSE [rev |-> reload[r].rev, file |-> reload[r].file]
Served(r) == [rev |-> reload[r].rev, file |-> reload[r].file]

Store(r) ==
  /\ reload[r].pc = "loaded"
  /\ served' = Served(r)
  /\ reload' = [reload EXCEPT ![r].pc = "stored"]
  /\ UNCHANGED <<disk, registered, returned, overlap, access, request, deploy, ran>>

RegisterLocals(r) ==
  /\ reload[r].pc = "stored"
  /\ registered' = registered \cup Content[reload[r].file].locals
  /\ reload' = [reload EXCEPT ![r].pc = "done"]
  /\ returned' = IF reload[r].rev > returned THEN reload[r].rev ELSE returned
  /\ UNCHANGED <<disk, served, overlap, access, request, deploy, ran>>

EdgeAttaches(server) ==
  /\ server \in registered \cap Content[served.file].servers
  /\ registered' = registered \ {server}
  /\ UNCHANGED <<disk, served, reload, returned, overlap, access, request, deploy, ran>>

-----------------------------------------------------------------------------
(* token create, rotate and revoke, each a process of its own that loads   *)
(* the file and then executes one statement or transaction                 *)

Opens == disk.file \in Accepted

Active == {k \in Keys : keys[k] = "active"}
Fresh(k) == keys[k] = "none" /\ \A m \in Keys : m < k => keys[m] # "none"

CreateKey(k) ==
  /\ Opens /\ Fresh(k)
  /\ keys' = [keys EXCEPT ![k] = "active"] /\ rotated' = 0
  /\ UNCHANGED <<config, request, deploy, ran>>

RotateToMut(k) == [m \in Keys |-> IF m = k \/ m \in Active THEN "revoked" ELSE keys[m]]
RotateTo(k) ==
  [m \in Keys |-> IF m = k THEN "active" ELSE IF m \in Active THEN "revoked" ELSE keys[m]]

RotateKey(k) ==
  /\ Opens /\ Fresh(k)
  /\ keys' = RotateTo(k) /\ rotated' = k
  /\ UNCHANGED <<config, request, deploy, ran>>

RevokeKeys ==
  /\ Opens /\ Active # {}
  /\ keys' = [m \in Keys |-> IF m \in Active THEN "revoked" ELSE keys[m]] /\ rotated' = 0
  /\ UNCHANGED <<config, request, deploy, ran>>

-----------------------------------------------------------------------------
(* BuildDeploy                                                             *)

StepsOf(svc, req) ==
  IF req.kind = "task" THEN CHOOSE t \in svc.tasks : TRUE ELSE svc.deploy

\* The one instance of a task: it may be left out where there is only one.
Targeted(svc, req) ==
  IF req.instance # Unset THEN req.instance ELSE svc.instances[1].name

TargetKnown(svc, req) ==
  /\ req.instance = Unset => Len(svc.instances) = 1
  /\ Targeted(svc, req) \in {i.name : i \in Elements(svc.instances)}

Buildable(svc, req) ==
  /\ Interpolable(StepsOf(svc, req), req.payload)
  /\ req.payload.digest # "bad"
  /\ req.kind = "task" => TargetKnown(svc, req)

NewExec(svc, req, name, wave) ==
  LET i == InstanceNamed(svc, name) IN
  [instance |-> name, server |-> i.server, dir |-> i.dir, image |-> svc.image, wave |-> wave,
   timeout |-> svc.timeout,
   ops |-> MarshalSteps(StepsFor(Interpolated(StepsOf(svc, req), req.payload), name))]

\* The waves one after the other, each in the order it is written.
Execs(svc, req) ==
  IF req.kind = "task" THEN <<NewExec(svc, req, Targeted(svc, req), 0)>>
  ELSE LET all[w \in 0..Len(svc.rollout)] ==
             IF w = 0 THEN <<>>
             ELSE all[w - 1] \o [k \in DOMAIN svc.rollout[w] |->
                                   NewExec(svc, req, svc.rollout[w][k], w - 1)]
       IN all[Len(svc.rollout)]

-----------------------------------------------------------------------------
(* The handlers of POST /hooks/{service}, of the deploy trigger and of the *)
(* task trigger; the last two have an admin token.                         *)

Arrived(kind, key, instance, payload) ==
  [pc |-> IF kind = "hook" THEN "arrived" ELSE "known", kind |-> kind, key |-> key,
   instance |-> instance, payload |-> payload, rev |-> 0, file |-> 0,
   floor |-> returned,                                         \* history
   dead |-> {k \in Keys : keys[k] = "revoked"}]                \* history

Arrive(q) ==
  /\ request[q] = NoRequest
  /\ \A p \in Requests : p < q => request[p] # NoRequest
  /\ \E kind \in {"hook", "deploy", "task"}, key \in Keys \cup {Foreign},
        instance \in Names \cup {Unset}, payload \in Payloads :
       /\ kind # "hook" => key = Foreign
       /\ kind # "task" => instance = Unset
       /\ request' = [request EXCEPT ![q] = Arrived(kind, key, instance, payload)]
  /\ UNCHANGED <<config, access, deploy, ran>>

\* LookupToken finds what is not revoked, of any kind.
Found(key) == key = Foreign \/ keys[key] = "active"

Authenticate(q) ==
  /\ request[q].pc = "arrived"
  /\ request' = [request EXCEPT ![q].pc = IF Found(request[q].key) THEN "known" ELSE "refused"]
  /\ UNCHANGED <<config, access, deploy, ran>>

\* The service as the handler goes on to use it, whatever is stored later.
Serves(q) ==
  /\ request[q].kind = "hook" => request[q].key # Foreign /\ Loaded[served.file].webhook
  /\ request[q].kind = "task" => Loaded[served.file].tasks # {}

Resolve(q) ==
  /\ request[q].pc = "known"
  /\ request' = [request EXCEPT ![q].pc = IF Serves(q) THEN "resolved" ELSE "refused",
                                ![q].rev = served.rev, ![q].file = served.file]
  /\ UNCHANGED <<config, access, deploy, ran>>

\* A body too large or no JSON object.
Readable(q) == request[q].payload.key # "unreadable"
ReadFails(q) ==
  /\ request[q].pc = "resolved" /\ ~Readable(q)
  /\ request' = [request EXCEPT ![q].pc = "refused"]
  /\ UNCHANGED <<config, access, deploy, ran>>

\* enqueue, once the body is read: a deploy that cannot be built is stored
\* as failed.
Submit(q) ==
  /\ request[q].pc = "resolved" /\ Readable(q)
  /\ LET svc == Loaded[request[q].file]
         req == request[q] IN
     /\ deploy' = [deploy EXCEPT ![q] =
          IF Buildable(svc, req) THEN [built |-> TRUE, execs |-> Execs(svc, req)] ELSE NoDeploy]
     /\ ran' = [ran EXCEPT ![q] =
          IF Buildable(svc, req) THEN [k \in DOMAIN Execs(svc, req) |-> Waiting] ELSE <<>>]
  /\ request' = [request EXCEPT ![q].pc = "accepted"]
  /\ UNCHANGED <<config, access>>

-----------------------------------------------------------------------------
(* An execution reaches its server's executor: main's own where that one   *)
(* is registered, else an edge of some version, which may be refused.      *)

Waits(q, k) ==
  ran[q][k].state = "waiting" /\ \A m \in 1..(k - 1) : ran[q][m].state # "waiting"

RunsOnMain(q, k) ==
  LET e == deploy[q].execs[k] IN
  /\ Waits(q, k) /\ e.server \in registered
  /\ ran' = [ran EXCEPT ![q][k] = [state |-> "ran", did |-> Engine(TRUE, e.ops)]]
  /\ UNCHANGED <<config, access, request, deploy>>

RunsOnEdge(q, k, v) ==
  LET e == deploy[q].execs[k] IN
  /\ Waits(q, k) /\ e.server \notin registered
  /\ ran' = [ran EXCEPT ![q][k] =
       IF EdgeMayRun(v, UnmarshalSteps(e.ops))
       THEN [state |-> "ran", did |-> Engine(v.modifiers, e.ops)]
       ELSE [state |-> "refused", did |-> <<>>]]
  /\ UNCHANGED <<config, access, request, deploy>>

-----------------------------------------------------------------------------
Next ==
  \/ Edit
  \/ \E r \in Reloaders : Load(r) \/ Store(r) \/ RegisterLocals(r)
  \/ \E server \in registered : EdgeAttaches(server)
  \/ \E k \in Keys : CreateKey(k) \/ RotateKey(k)
  \/ RevokeKeys
  \/ \E q \in Requests : Arrive(q) \/ Authenticate(q) \/ Resolve(q) \/ ReadFails(q) \/ Submit(q)
  \/ \E q \in Requests : \E k \in DOMAIN ran[q] :
       RunsOnMain(q, k) \/ \E v \in Versions : RunsOnEdge(q, k, v)

Spec == Init /\ [][Next]_vars

-----------------------------------------------------------------------------
(* What the file says an instance runs: the steps whose on: is absent or   *)
(* names it, with the payload in place of references, tried as often and   *)
(* as long as is written or documented, in the order of the file.          *)

Only(S, default) == IF S = {} THEN default ELSE CHOOSE x \in S : TRUE
NoArgs == [text |-> "plain", polls |-> 0]

WrittenStep(raw, payload) ==
  LET args == Only(raw.args, NoArgs) IN
  [op |-> raw.op,
   text |-> CASE args.text = "plain" -> "plain"
              [] payload.key \in {"absent", "null"} -> "empty"
              [] OTHER -> payload.key,
   tries |-> 1 + Only(raw.retries, IF raw.op \in {"image.pin", "artifact.extract"} THEN 2 ELSE 0),
   bound |-> Only(raw.timeout, 0),
   polls |-> IF raw.op = "healthcheck" /\ args.polls = 0 THEN 5 ELSE args.polls]

RawsOf(f, req) ==
  IF req.kind = "task" THEN CHOOSE t \in f.service.task : TRUE ELSE f.service.deploy

Written(f, req, name) ==
  LET raws == RawsOf(f, req)
      mine == InOrder({k \in DOMAIN raws : \A on \in raws[k].on : name \in on})
  IN [j \in DOMAIN mine |-> WrittenStep(raws[mine[j]], req.payload)]

FileOf(q) == Content[request[q].file]

\* Retries of which there can be one more, the first try.
Countable(raws) == \A k \in DOMAIN raws : \A n \in raws[k].retries : n < MaxInt

(* What an engine runs, after parsing, normalization, interpolation, the   *)
(* stored snapshot and the wire, is what the file says the instance runs;  *)
(* an engine of an older release that would run it in another way is never *)
(* handed it (modifiers.go:50-53).  Steps that are to be retried as often  *)
(* as an int can say are excused.                                          *)
RunsAsWritten ==
  \A q \in Requests : \A k \in DOMAIN ran[q] :
    ran[q][k].state = "ran" /\ Countable(RawsOf(FileOf(q), request[q])) =>
      ran[q][k].did = Written(FileOf(q), request[q], deploy[q].execs[k].instance)

(* Every accepted deploy is one that can work: each instance of the        *)
(* service has one execution, in the wave the file gives it and with       *)
(* something to run; whatever it pins is brought up later by the same      *)
(* instance; and the tries a bounded step promises fit into the timeout    *)
(* (config.go:421-429, :458-461).  Services that name an instance twice    *)
(* and budgets beyond the range of an int are excused.                     *)
NamedOnce(raw) ==
  \A i, j \in DOMAIN raw.instances : raw.instances[i].name = raw.instances[j].name => i = j

InRange(tries, s) == tries * s.timeout + (tries - 1) * RetryInterval <= MaxInt

ExecIsSound(e) ==
  LET steps == UnmarshalSteps(e.ops) IN
  /\ steps # <<>>
  /\ \A k \in DOMAIN steps :
       /\ steps[k].op = "image.pin" =>
            /\ e.image # Unset
            /\ \E m \in DOMAIN steps : m > k /\ steps[m].op = "compose.up"
       /\ LET tries == 1 + Only(steps[k].retries, DefaultRetries(steps[k].op)) IN
          steps[k].timeout > 0 /\ InRange(tries, steps[k]) =>
            tries * steps[k].timeout + (tries - 1) * RetryInterval <= e.timeout

WaveIsWritten(raw, e) ==
  IF raw.rollout = <<>>
  THEN InstancesOf(raw)[e.wave + 1].name = e.instance
  ELSE e.instance \in Elements(raw.rollout[e.wave + 1])

AcceptedIsSound ==
  \A q \in Requests : deploy[q].built /\ NamedOnce(FileOf(q).service) =>
    LET execs == deploy[q].execs
        raw == FileOf(q).service IN
    /\ \A k \in DOMAIN execs : ExecIsSound(execs[k])
    /\ request[q].kind # "task" =>
         /\ \A name \in InstanceNames(raw) :
              Cardinality({k \in DOMAIN execs : execs[k].instance = name}) = 1
         /\ \A k \in DOMAIN execs : WaveIsWritten(raw, execs[k])
    /\ request[q].kind = "task" =>
         Len(execs) = 1 /\ request[q].instance \in {Unset, execs[1].instance}

(* A request that arrives after a reload said ok is built from that file   *)
(* or a newer one, and never from a file that does not load.  Two reloads  *)
(* that overlap are excused: the one that read the file first may store it *)
(* last.                                                                   *)
ServesTheFile ==
  \A q \in Requests : request[q].pc = "accepted" =>
    /\ request[q].file \in Accepted
    /\ overlap \/ request[q].rev >= request[q].floor

\* Those the schema turns away that load all the same.
Flagged == {f \in Accepted : Plain(Content[f]) /\ ~FileMatches(Content[f])}

(* An editor that checks the file on disk against the published schema     *)
(* flags nothing that main would load: the schema is the looser of the two *)
(* (docs/json-output.md:33, schema.go:53), for files with nothing empty,   *)
(* no unquoted number and no broken repository name in them.               *)
EditorAgrees == disk.file \notin Flagged

(* After a rotation just the new token opens the service, and a token that *)
(* was dead when its request arrived opens nothing.                        *)
OnlyLiveKeys ==
  /\ rotated # 0 => Active = {rotated}
  /\ \A q \in Requests : request[q].pc = "accepted" /\ request[q].kind = "hook" =>
       request[q].key \notin request[q].dead \cup {Foreign}
=============================================================================
