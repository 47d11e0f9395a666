----------------------------- MODULE NotifyHub -----------------------------
(***************************************************************************)
(* Telling somebody: the edge watcher (edgewatch/watcher.go) and the       *)
(* notification hub (notify/notify.go), a bounded queue in memory drained  *)
(* by one goroutine with bounded retries.  News is a deploy of one service *)
(* that settled or an edge that was announced offline or back; what kind   *)
(* of event a deploy is worth is read from the history of its service when *)
(* it is delivered (classify.go).  The texts and the backoff's lengths are *)
(* left out.                                                               *)
(***************************************************************************)
EXTENDS Naturals, Sequences, FiniteSets

CONSTANTS
  Deploys,      \* deploys of one service, numbered as ListDeploys orders them
  Outcomes,     \* how a deploy may end
  Stored,       \* how the first of them had ended when the model starts
  Wanted,       \* the kinds that the policies ask for
  Lookback,     \* recoveryLookback
  Keep,         \* RetainPerService
  Edges,        \* the declared remote servers
  QueueCap,     \* defaultQueueCap
  MaxAttempts,  \* defaultMaxAttempts
  MaxItems,     \* bound: news queued in all
  MaxReloads    \* bound: configuration reloads

Bad == {"failed", "unreachable", "canceled"}
DeployKinds == {"failed", "unreachable", "succeeded", "recovered"}
NodeKinds == {"offline", "online"}
Kinds == DeployKinds \cup NodeKinds
\* A deploy that has not ended: not stored yet, or queued or running.
Open == {"none", "moving"}

ASSUME DeploysAssumption == Deploys \subseteq Nat /\ IsFiniteSet(Deploys) /\ Edges \cap Deploys = {}
ASSUME StoredAssumption == DOMAIN Stored \subseteq Deploys /\ \A d \in DOMAIN Stored : Stored[d] \in Outcomes
ASSUME OutcomesAssumption == Outcomes \subseteq Bad \cup {"succeeded", "superseded"}
ASSUME WantedAssumption == Wanted \subseteq Kinds
\* What is looked back on is kept (recoveryLookback 20, RetainPerService 50).
ASSUME BoundsAssumption ==
  /\ Lookback \in Nat \ {0} /\ Keep \in Nat /\ Lookback <= Keep
  /\ QueueCap \in Nat \ {0} /\ MaxAttempts \in Nat \ {0} /\ MaxItems \in Nat /\ MaxReloads \in Nat

VARIABLES
  enabled,   \* notify.provider is set
  reloads,
  alerted,   \* edges announced offline (serverState.alerted)
  row,       \* none, moving, or how the deploy ended
  reclaimed, \* deploys whose rows retention deleted
  stopping,  \* main shuts down: the watcher is gone, the root context canceled
  queue,     \* pending items [kind, of, id, attempts]
  wake,      \* the wake channel holds its one token
  worker,    \* [pc, item, kind, final] of the delivery goroutine
  count,     \* history: items queued so far; an item's id is its number
  last,      \* history: what the backend accepted last, how often, and whether
             \* it was heard to, ...
  told,      \* ... and what it accepted last of each edge
  overtaken, \* history: successes that ended before a deploy that is older
  lossy,     \* history: edges of which some news was not sent, ...
  spoiled    \* ... and those of which that was the latest

history == <<row, reclaimed, overtaken>>
watch == <<enabled, reloads, alerted>>
losses == <<lossy, spoiled>>
vars == <<watch, history, stopping, queue, wake, worker, count, last, told, losses>>

Attempts == 0..MaxAttempts - 1
Item == [kind : {"deploy"}, of : Deploys, id : 1..MaxItems, attempts : Attempts]
        \cup [kind : NodeKinds, of : Edges, id : 1..MaxItems, attempts : Attempts]
\* What the backend got: the kind is the event's.
Message == [kind : Kinds, of : Deploys \cup Edges, id : 1..MaxItems, times : 1..MaxAttempts, answered : BOOLEAN]
\* No item: the delivery goroutine holds none.
Nothing == [kind |-> "none", of |-> "none", id |-> 0, attempts |-> 0]
Silence == [kind |-> "none", of |-> "none", id |-> 0, times |-> 0, answered |-> TRUE]

TypeOK ==
  /\ enabled \in BOOLEAN /\ reloads \in 0..MaxReloads /\ alerted \subseteq Edges
  /\ row \in [Deploys -> Outcomes \cup Open \cup {"superseded"}]
  /\ reclaimed \subseteq Deploys /\ overtaken \subseteq Deploys
  /\ stopping \in BOOLEAN
  /\ queue \in Seq(Item) /\ Len(queue) <= QueueCap
  /\ wake \in BOOLEAN
  /\ worker \in [pc : {"select", "loop", "resolve", "send", "sleep", "stopped"},
                 item : Item \cup {Nothing}, kind : Kinds \cup {"none"}, final : BOOLEAN]
  /\ count \in 0..MaxItems /\ last \in Message \cup {Silence}
  /\ told \in [Edges -> NodeKinds \cup {"none"}]
  /\ lossy \subseteq Edges /\ spoiled \subseteq Edges

Idle == [pc |-> "select", item |-> Nothing, kind |-> "none", final |-> FALSE]

Init ==
  /\ enabled = TRUE /\ reloads = 0 /\ alerted = {}
  /\ row = [d \in Deploys |-> IF d \in DOMAIN Stored THEN Stored[d] ELSE "none"]
  /\ reclaimed = {} /\ overtaken = {}
  /\ stopping = FALSE
  /\ queue = <<>> /\ wake = FALSE /\ worker = Idle
  /\ count = 0 /\ last = Silence /\ told = [e \in Edges |-> "none"]
  /\ lossy = {} /\ spoiled = {}

-----------------------------------------------------------------------------
(* The queue                                                                *)

SameKey(p, q) == p.kind = q.kind /\ p.of = q.of
Waits(p) == \E k \in DOMAIN queue : SameKey(queue[k], p)
Full == Len(queue) >= QueueCap

Join(q, p) == Append(q, p)

News(kind, x) == [kind |-> kind, of |-> x, id |-> count + 1, attempts |-> 0]
Queued(q, x) == \E k \in DOMAIN q : q[k].of = x

\* An item of x is given up or dropped from the queue.
Loses(x) ==
  /\ lossy' = lossy \cup (Edges \cap {x})
  /\ spoiled' = spoiled \cup {e \in Edges \cap {x} : ~Queued(queue', e)}

\* enqueue: dropped when notifications are off, collapsed into what already
\* waits, at the oldest item's expense when the queue is full.
Enqueue(p) ==
  IF ~enabled \/ Waits(p)
    THEN /\ lossy' = lossy \cup (Edges \cap {p.of}) /\ spoiled' = spoiled \cup (Edges \cap {p.of})
         /\ UNCHANGED <<queue, wake, count>>
    ELSE /\ queue' = Join(IF Full THEN Tail(queue) ELSE queue, p)
         /\ wake' = TRUE
         /\ count' = p.id
         /\ LET evicted == IF Full THEN Edges \cap {Head(queue).of} ELSE {} IN
              /\ lossy' = lossy \cup evicted
              /\ spoiled' = (spoiled \ {p.of}) \cup {e \in evicted : ~Queued(queue', e)}

CanQueue == count < MaxItems
ByProducer == UNCHANGED <<stopping, worker, last, told>>

-----------------------------------------------------------------------------
(* The deploys of the service                                               *)

Becomes(d, state) == row' = [row EXCEPT ![d] = state]
Ended(d) == row[d] \notin Open
ByDeploy == UNCHANGED <<watch, reclaimed>> /\ ByProducer
NoNews == UNCHANGED <<queue, wake, count, losses>>
Older(d) == {c \in Deploys : c < d}

\* A handler stores a deploy.  The time it is listed by was taken before, so two
\* handlers may store theirs in either order.
Create(d) ==
  /\ row[d] = "none" /\ ~stopping
  /\ Becomes(d, "moving") /\ UNCHANGED overtaken
  /\ NoNews /\ ByDeploy

\* A deploy ends, in the order handlers came to Enqueue or at once if it cannot
\* be built, which need not be the order they are listed in.  Notify is called
\* for each, ...
Settle(d, s) ==
  /\ row[d] = "moving" /\ s # "superseded" /\ ~stopping /\ CanQueue
  /\ Becomes(d, s)
  /\ overtaken' = overtaken \cup {e \in Deploys : e > d /\ row[e] = "succeeded"}
  /\ Enqueue(News("deploy", d)) /\ ByDeploy

\* ... but not for one that another replaced in the queue.
Supersede(d) ==
  /\ row[d] = "moving" /\ ~stopping
  /\ \E c \in Deploys \ {d} : row[c] = "moving"
  /\ Becomes(d, "superseded") /\ UNCHANGED overtaken
  /\ NoNews /\ ByDeploy

\* The newest rows of the service.
Rows == {d \in Deploys : row[d] # "none"} \ reclaimed
Newest(k) == {d \in Rows : Cardinality({e \in Rows : e > d}) < k}

\* CleanupService, when a rollout is over.
Reclaim ==
  /\ ~stopping
  /\ \E d \in Rows \ Newest(Keep) : Ended(d)
  /\ reclaimed' = reclaimed \cup {d \in Rows \ Newest(Keep) : Ended(d)}
  /\ UNCHANGED <<row, overtaken, watch>> /\ NoNews /\ ByProducer

-----------------------------------------------------------------------------
(* The watcher                                                              *)

ByWatcher == UNCHANGED history /\ ByProducer

\* A poll finds an edge gone past the threshold, or one back that it had
\* announced; whether there is a session is up to the edge.
Announces(e, kind) ==
  /\ ~stopping /\ CanQueue
  /\ Enqueue(News(kind, e))
  /\ UNCHANGED <<enabled, reloads>> /\ ByWatcher

Offline(e) ==
  /\ e \notin alerted
  /\ alerted' = alerted \cup {e}
  /\ Announces(e, "offline")

AnnouncedMut(e) == TRUE
Announced(e) == e \in alerted

\* The edge is back, after an outage that was announced.
Online(e) ==
  /\ Announced(e)
  /\ alerted' = alerted \ {e}
  /\ Announces(e, "online")

\* SIGHUP: notifications are switched, or a server is removed and declared
\* again, which starts its clock afresh.
Reload ==
  /\ ~stopping /\ reloads < MaxReloads /\ reloads' = reloads + 1
  /\ \/ enabled' = ~enabled /\ UNCHANGED <<alerted, losses>>
     \/ \E e \in alerted :
          /\ alerted' = alerted \ {e}
          /\ lossy' = lossy \cup {e} /\ spoiled' = spoiled \cup {e}
          /\ UNCHANGED enabled
  /\ UNCHANGED <<queue, wake, count>> /\ ByWatcher

-----------------------------------------------------------------------------
(* What is worth telling                                                    *)

SaysMut(d) == Ended(d)
Says(d) == row[d] \in Bad \cup {"succeeded"}

\* recovered: the last deploy before this one that says anything ended badly.
Recovered(d) ==
  d \in Newest(Lookback) /\ \E c \in Newest(Lookback) \cap Older(d) :
    /\ row[c] \in Bad
    /\ \A b \in Newest(Lookback) \cap Older(d) : b > c => ~Says(b)

\* classify, of a deploy that has settled.
Classified(d) ==
  IF row[d] = "succeeded" /\ Recovered(d) THEN "recovered" ELSE row[d]

\* GetDeploy finds no row.
Gone(p) == p.of \in reclaimed

\* resolve, buildEvent: the policy is that of the moment.
Kind(p) == IF p.kind = "deploy" THEN Classified(p.of) ELSE p.kind
Wants(kind) == kind \in Wanted
Worthy(p) == ~Gone(p) /\ Wants(Kind(p))

-----------------------------------------------------------------------------
(* The delivery goroutine                                                   *)

ByWorker == UNCHANGED <<watch, history, stopping, count>>
Goes(pc) == worker' = [worker EXCEPT !.pc = pc, !.item = Nothing, !.kind = "none"]

\* The context drain runs under, the root's or the last pass's own, is or may
\* be over.
Done == stopping /\ ~worker.final
MayBeDone == stopping
LeavesMut == "select"
Leaves == IF worker.final THEN "stopped" ELSE "select"

Quietly == UNCHANGED <<wake, last, told, losses>> /\ ByWorker

Wake ==
  /\ worker.pc = "select" /\ wake
  /\ wake' = FALSE
  /\ Goes("loop")
  /\ UNCHANGED <<queue, last, told, losses>> /\ ByWorker

\* finalDrain: a last pass, under a short context of its own.
LastPass ==
  /\ worker.pc = "select" /\ stopping
  /\ worker' = [Idle EXCEPT !.pc = IF queue = <<>> THEN "stopped" ELSE "loop", !.final = TRUE]
  /\ UNCHANGED queue /\ Quietly

Peek ==
  /\ worker.pc = "loop"
  /\ \/ (MayBeDone \/ queue = <<>>) /\ Goes(Leaves)
     \/ /\ ~Done /\ queue # <<>>
        /\ worker' = [worker EXCEPT !.pc = "resolve", !.item = Head(queue)]
  /\ UNCHANGED queue /\ Quietly

StillHeadMut == FALSE
StillHead == queue # <<>> /\ SameKey(Head(queue), worker.item)
PopIf == queue' = IF StillHead THEN Tail(queue) ELSE queue
AfterOneMut == "select"
AfterOne == "loop"

\* What is to be said is settled before it is sent, anew for each attempt.
Resolves ==
  /\ worker.pc = "resolve" /\ enabled /\ Worthy(worker.item)
  /\ worker' = [worker EXCEPT !.pc = "send", !.kind = Kind(worker.item)]
  /\ UNCHANGED queue /\ Quietly

\* Notifications are off, policy does not want it, or the deploy is deleted.
Filters ==
  /\ worker.pc = "resolve" /\ ~(enabled /\ Worthy(worker.item))
  /\ PopIf /\ Loses(worker.item.of) /\ Goes(AfterOne)
  /\ UNCHANGED <<wake, last, told>> /\ ByWorker

\* The backend accepts what is sent, and it is heard to or not.
Takes(answered) ==
  /\ worker.pc = "send"
  /\ last' = [kind |-> worker.kind, of |-> worker.item.of, id |-> worker.item.id,
              times |-> IF last.id = worker.item.id THEN last.times + 1 ELSE 1,
              answered |-> answered]
  /\ told' = [e \in Edges |-> IF e = worker.item.of THEN worker.item.kind ELSE told[e]]

Delivers ==
  /\ Takes(TRUE)
  /\ PopIf /\ Goes(AfterOne)
  /\ UNCHANGED <<wake, losses>> /\ ByWorker

GivesUp == worker.item.attempts + 1 >= MaxAttempts

\* The backend refuses or is out of reach, its answer is lost or late, the
\* context ended under it, or the store did not tell.
CanFail == worker.pc = "send" \/ (worker.pc = "resolve" /\ enabled /\ worker.item.kind = "deploy")

FailsForGood ==
  /\ CanFail /\ GivesUp
  /\ PopIf /\ Goes(AfterOne)
  /\ \/ Takes(FALSE) /\ UNCHANGED losses
     \/ UNCHANGED <<last, told>> /\ Loses(worker.item.of)
  /\ UNCHANGED wake /\ ByWorker

Fails ==
  /\ CanFail /\ ~GivesUp
  /\ Goes("sleep")
  /\ queue' = IF StillHead THEN [queue EXCEPT ![1].attempts = worker.item.attempts + 1] ELSE queue
  /\ Takes(FALSE) \/ UNCHANGED <<last, told>>
  /\ UNCHANGED <<wake, losses>> /\ ByWorker

Sleeps ==
  /\ worker.pc = "sleep"
  /\ \/ MayBeDone /\ Goes(Leaves)
     \/ ~Done /\ Goes("loop")
  /\ UNCHANGED queue /\ Quietly

-----------------------------------------------------------------------------
(* Shutdown                                                                 *)

\* runMain has left its loop: the watcher went first, then the scheduler, which
\* settles what it held, and now the notifier.
Stop ==
  /\ ~stopping /\ stopping' = TRUE
  /\ UNCHANGED <<watch, history, queue, wake, worker, count, last, told, losses>>

Stopped == worker.pc = "stopped" /\ UNCHANGED vars

Works == Wake \/ LastPass \/ Peek \/ Resolves \/ Delivers \/ Filters \/ FailsForGood \/ Fails \/ Sleeps

Next ==
  \/ Works \/ Reclaim \/ Reload \/ Stop \/ Stopped
  \/ \E d \in Deploys : Create(d) \/ Supersede(d)
  \/ \E d \in Deploys, s \in Outcomes : Settle(d, s)
  \/ \E e \in Edges : Offline(e) \/ Online(e)

Spec == Init /\ [][Next]_vars

\* The goroutine runs on while main waits for it; nobody has to stop it or to
\* have news.
FairSpec == Spec /\ WF_vars(stopping /\ Works)

-----------------------------------------------------------------------------
(* Properties                                                               *)

\* News goes out in the order it came in, and an item goes out again only if the
\* backend was not heard to accept it, at most as often as it is tried, whatever
\* is dropped or put in its place meanwhile (notify.go:323-346, 407-424).
InOrder ==
  [][\/ last'.id > last.id /\ last'.times = 1
     \/ last'.id = last.id /\ ~last.answered /\ last'.times \in 2..MaxAttempts]_last

\* What people end up being told of an edge is what the watcher believes, however
\* much of its news was lost before the latest: the last of what is queued of
\* it, or else of what was sent, is an alarm exactly if its outage is announced.
\* As long as nothing of it was lost, alarms and all-clears alternate, too, from
\* what was sent to what is queued (watcher.go:50-54, notify.go:244-246).
EndsWith(q, e, kind) ==
  \E k \in DOMAIN q : q[k].of = e /\ q[k].kind = kind /\ \A j \in DOMAIN q : q[j].of = e => j <= k
LastWord(e, kind) == IF Queued(queue, e) THEN EndsWith(queue, e, kind) ELSE told[e] = kind
NewsOf(e) ==
  {[id |-> queue[k].id, kind |-> queue[k].kind] :
     k \in {j \in DOMAIN queue : queue[j].of = e /\ queue[j].id # last.id}}
Between(p, q, S) == \E r \in S : p.id < r.id /\ r.id < q.id
Alternates(S) == \A p, q \in S : p.id < q.id /\ ~Between(p, q, S) => p.kind # q.kind
First(p, S) == \A q \in S : p.id <= q.id
FlagMatchesNews ==
  /\ \A e \in Edges \ spoiled : e \in alerted <=> LastWord(e, "offline")
  /\ \A e \in Edges \ lossy :
       /\ Alternates(NewsOf(e))
       /\ \A p \in NewsOf(e) :
            First(p, NewsOf(e)) => p.kind = IF told[e] = "offline" THEN "online" ELSE "offline"

\* A success is told as a recovery if, and while nothing is out of the window
\* only if, the last run before it that ended left the service broken, however
\* late it is delivered and whatever has run since; unless a deploy that is
\* older ended after it (classify.go:95-97).
BrokenBefore(d) ==
  \E c \in Older(d) :
    row[c] \in Bad /\ \A b \in Older(d) : b > c => row[b] \in Open \cup {"superseded"}
Earned(kind, d) ==
  kind \in {"recovered", "succeeded"} /\ d \notin overtaken =>
    /\ kind = "recovered" => BrokenBefore(d)
    /\ kind = "succeeded" /\ Cardinality(Rows \cup reclaimed) <= Lookback => ~BrokenBefore(d)
RecoveredIsEarned == Earned(last.kind, last.of)

\* No wakeup is lost: the goroutine never waits with news in the queue and no
\* token in the channel, whatever arrives while it drains (notify.go:297-302).
NoLostWakeup == worker.pc = "select" /\ queue # <<>> => wake \/ stopping

\* What these rest on.  Items are queued in order and none waits twice; what the
\* backend accepted last is older, but for the oldest if it was not heard to
\* (notify.go:269-285).
Unheard(p) == p.id = last.id /\ ~last.answered /\ last.times <= p.attempts
QueueInv ==
  /\ last.id <= count
  /\ \A j, k \in DOMAIN queue :
       /\ j < k => queue[j].id < queue[k].id
       /\ SameKey(queue[j], queue[k]) => j = k
       /\ last.id < queue[k].id \/ Unheard(queue[k])
       /\ queue[k].id <= count
\* What the backend accepted last of an edge is what that edge was told.
LastIs(p) == p.id = last.id /\ p.of \in Edges => told[p.of] = p.kind
ToldInv == \A k \in DOMAIN queue : LastIs(queue[k])

\* A delivery under way is of an item that is still the oldest or was dropped
\* meanwhile (notify.go:399-416).
Sending == worker.pc \in {"resolve", "send"}
SendInv ==
  Sending =>
    /\ worker.item # Nothing /\ worker.item.id <= count
    /\ last.id < worker.item.id \/ Unheard(worker.item)
    /\ LastIs(worker.item)
    /\ \A k \in DOMAIN queue :
         worker.item.id < queue[k].id \/ (k = 1 /\ queue[k].id = worker.item.id /\ StillHead)
    /\ worker.item.of \in Edges \ spoiled => Queued(queue, worker.item.of)
    /\ worker.item.of \in Edges \ lossy => StillHead /\ Head(queue).id = worker.item.id
LossInv == spoiled \subseteq lossy

\* What retention deletes is older than all that it keeps (deploys.go:294-304),
\* and a success is told of a deploy that succeeded.
KeepInv == \A b \in reclaimed : Cardinality({e \in Rows : e > b}) >= Keep
Tells(kind, d) == kind \in {"recovered", "succeeded"} => d \in Deploys /\ row[d] = "succeeded"
LastInv == Tells(last.kind, last.of)
KindInv ==
  worker.pc = "send" =>
    /\ worker.kind \in Kinds
    /\ Tells(worker.kind, worker.item.of) /\ Earned(worker.kind, worker.item.of)

\* Shutdown ends, even with a dead backend.
ShutdownEnds == stopping ~> worker.pc = "stopped"
=============================================================================
