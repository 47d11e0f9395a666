--------------------------- MODULE NotifyHubProofs ---------------------------
(***************************************************************************)
(* Theorems about NotifyHub, for every set of deploys and edges, every     *)
(* policy, and any capacity, number of attempts and look-back.             *)
(***************************************************************************)
EXTENDS NotifyHub, SequenceTheorems, FiniteSetTheorems, WellFoundedInduction, TLAPS

-----------------------------------------------------------------------------
(* The queue                                                                *)

\* The items of a queue are in order, and numbered from lo to hi.
Sorted(q, lo, hi) ==
  \A j, k \in DOMAIN q :
    /\ j < k => q[j].id < q[k].id
    /\ SameKey(q[j], q[k]) => j = k
    /\ lo <= q[k].id /\ q[k].id <= hi

LEMMA Tailed ==
  ASSUME NEW S, NEW q \in Seq(S), q # <<>>
  PROVE  /\ Tail(q) \in Seq(S) /\ Len(Tail(q)) = Len(q) - 1 /\ Head(q) = q[1] /\ Head(q) \in S
         /\ 1 \in DOMAIN q
         /\ \A k \in DOMAIN Tail(q) : k + 1 \in DOMAIN q /\ Tail(q)[k] = q[k + 1]
         /\ \A k \in DOMAIN q : k = 1 \/ (k - 1 \in DOMAIN Tail(q) /\ q[k] = Tail(q)[k - 1])
<1> DEFINE t == Tail(q)
<1>1. /\ t \in Seq(S) /\ Len(t) = Len(q) - 1 /\ Head(q) \in S /\ Head(q) = q[1]
      /\ Len(q) \in Nat \ {0} /\ \A k \in 1..Len(t) : t[k] = q[k + 1]
  BY HeadTailProperties, EmptySeq
<1> HIDE DEF t
<1>2. DOMAIN q = 1..Len(q) /\ DOMAIN t = 1..Len(t) BY <1>1
<1>3. \A k \in 1..Len(t) : k + 1 \in 1..Len(q) BY <1>1
<1>4. \A k \in 1..Len(q) : k = 1 \/ (k - 1 \in 1..Len(t) /\ q[k] = t[k - 1]) BY <1>1
<1>5. QED BY <1>1, <1>2, <1>3, <1>4 DEF t

LEMMA Appended ==
  ASSUME NEW S, NEW q \in Seq(S), NEW p \in S
  PROVE  /\ Append(q, p) \in Seq(S) /\ Len(Append(q, p)) = Len(q) + 1
         /\ DOMAIN Append(q, p) = DOMAIN q \cup {Len(q) + 1}
         /\ \A k \in DOMAIN q : k <= Len(q) /\ Append(q, p)[k] = q[k]
         /\ Append(q, p)[Len(q) + 1] = p
<1>1. /\ Append(q, p) \in Seq(S) /\ Len(Append(q, p)) = Len(q) + 1
      /\ \A k \in 1..Len(q) : Append(q, p)[k] = q[k]
      /\ Append(q, p)[Len(q) + 1] = p
  BY AppendProperties
<1>2. /\ DOMAIN q = 1..Len(q) /\ DOMAIN Append(q, p) = 1..Len(q) + 1
      /\ 1..Len(q) + 1 = (1..Len(q)) \cup {Len(q) + 1}
  BY <1>1
<1>3. QED BY <1>1, <1>2

LEMMA ItemIs == \A p \in Item : p.id \in Nat \ {0} /\ p.attempts \in Attempts
  BY DEF Item

LEMMA ElementsAre ==
  ASSUME NEW q \in Seq(Item)
  PROVE  \A k \in DOMAIN q : k \in Nat \ {0} /\ q[k] \in Item /\ q[k].id \in Nat
  BY LenProperties, ElementOfSeq, ItemIs

LEMMA SortedTail ==
  ASSUME NEW q \in Seq(Item), q # <<>>, NEW lo \in Nat, NEW hi \in Nat, Sorted(q, lo, hi)
  PROVE  Sorted(Tail(q), lo, hi) /\ \A k \in DOMAIN Tail(q) : Head(q).id < Tail(q)[k].id
<1>1. \A k \in DOMAIN Tail(q) : k \in Nat /\ k + 1 \in DOMAIN q /\ 1 < k + 1 /\ Tail(q)[k] = q[k + 1]
  BY Tailed
<1>2. 1 \in DOMAIN q /\ Head(q) = q[1] BY Tailed
<1>3. ASSUME NEW j \in DOMAIN Tail(q), NEW k \in DOMAIN Tail(q)
      PROVE  /\ j < k => Tail(q)[j].id < Tail(q)[k].id
             /\ SameKey(Tail(q)[j], Tail(q)[k]) => j = k
             /\ Head(q).id < Tail(q)[k].id /\ lo <= Tail(q)[k].id /\ Tail(q)[k].id <= hi
  <2>1. j + 1 \in DOMAIN q /\ k + 1 \in DOMAIN q /\ j \in Nat /\ k \in Nat BY <1>1
  <2>2. /\ j + 1 < k + 1 => q[j + 1].id < q[k + 1].id
        /\ SameKey(q[j + 1], q[k + 1]) => j + 1 = k + 1
        /\ lo <= q[k + 1].id /\ q[k + 1].id <= hi /\ q[1].id < q[k + 1].id
    BY <1>1, <1>2, <2>1 DEF Sorted
  <2>3. QED BY <1>1, <1>2, <2>1, <2>2
<1>4. QED BY <1>3 DEF Sorted

LEMMA SortedAppend ==
  ASSUME NEW q \in Seq(Item), NEW p \in Item, NEW lo \in Nat, NEW hi \in Nat, Sorted(q, lo, hi),
         lo <= hi, p.id = hi + 1, \A k \in DOMAIN q : ~SameKey(q[k], p)
  PROVE  Sorted(Append(q, p), lo, hi + 1)
<1> DEFINE r == Append(q, p)
           n == Len(q) + 1
<1>1. /\ DOMAIN r = DOMAIN q \cup {n} /\ r[n] = p
      /\ \A k \in DOMAIN q : k \in Nat /\ k < n /\ r[k] = q[k] /\ q[k] \in Item
      /\ n \in Nat
  BY Appended, LenProperties, ElementOfSeq
<1>2. \A k \in DOMAIN q : q[k].id \in Nat /\ lo <= q[k].id /\ q[k].id < hi + 1 BY <1>1, ItemIs DEF Sorted
<1>3. lo <= hi + 1 OBVIOUS
<1>4. \A k \in DOMAIN q : ~SameKey(p, q[k]) BY DEF SameKey
<1> HIDE DEF r, n
<1>5. Sorted(r, lo, hi + 1)
  <2>1. SUFFICES ASSUME NEW j \in DOMAIN r, NEW k \in DOMAIN r
                 PROVE  /\ j < k => r[j].id < r[k].id
                        /\ SameKey(r[j], r[k]) => j = k
                        /\ lo <= r[k].id /\ r[k].id <= hi + 1
    BY DEF Sorted
  <2>2. CASE j \in DOMAIN q /\ k \in DOMAIN q BY <1>1, <1>2, <2>2 DEF Sorted
  <2>3. CASE j \in DOMAIN q /\ k = n BY <1>1, <1>2, <1>3, <2>3
  <2>4. CASE j = n /\ k \in DOMAIN q BY <1>1, <1>2, <1>4, <2>4
  <2>5. CASE j = n /\ k = n BY <1>1, <1>3, <2>5
  <2>6. QED BY <1>1, <2>2, <2>3, <2>4, <2>5
<1>6. QED BY <1>5 DEF r

\* What is queued of x, and its last kind, as the queue moves.
LEMMA QueuedAppend ==
  ASSUME NEW q \in Seq(Item), NEW p \in Item, NEW x
  PROVE  Queued(Append(q, p), x) <=> Queued(q, x) \/ p.of = x
  BY Appended DEF Queued

LEMMA QueuedTail ==
  ASSUME NEW q \in Seq(Item), q # <<>>, NEW x
  PROVE  Queued(q, x) <=> Head(q).of = x \/ Queued(Tail(q), x)
<1> DEFINE t == Tail(q)
<1>1. /\ Head(q) = q[1] /\ 1 \in DOMAIN q
      /\ \A k \in DOMAIN t : k + 1 \in DOMAIN q /\ t[k] = q[k + 1]
      /\ \A k \in DOMAIN q : k = 1 \/ (k - 1 \in DOMAIN t /\ q[k] = t[k - 1])
  BY Tailed
<1> HIDE DEF t
<1>2. Queued(q, x) <=> q[1].of = x \/ Queued(t, x) BY <1>1 DEF Queued
<1>3. QED BY <1>1, <1>2 DEF t

LEMMA EndsAppend ==
  ASSUME NEW q \in Seq(Item), NEW p \in Item, NEW x, NEW kind
  PROVE  /\ p.of = x => (EndsWith(Append(q, p), x, kind) <=> p.kind = kind)
         /\ p.of # x => (EndsWith(Append(q, p), x, kind) <=> EndsWith(q, x, kind))
<1> DEFINE r == Append(q, p)
           n == Len(q) + 1
<1>1. /\ DOMAIN r = DOMAIN q \cup {n} /\ r[n] = p /\ n \in Nat
      /\ \A k \in DOMAIN q : k \in Nat /\ k < n /\ r[k] = q[k]
  BY Appended, LenProperties
<1> HIDE DEF r, n
<1>2. ASSUME p.of = x PROVE EndsWith(r, x, kind) <=> p.kind = kind
  <2>1. \A j \in DOMAIN r : j <= n BY <1>1
  <2>2. \A k \in DOMAIN r : n <= k => k = n BY <1>1
  <2>3. QED BY <1>1, <1>2, <2>1, <2>2 DEF EndsWith
<1>3. ASSUME p.of # x PROVE EndsWith(r, x, kind) <=> EndsWith(q, x, kind)
  BY <1>1, <1>3 DEF EndsWith
<1>4. QED BY <1>2, <1>3 DEF r

LEMMA EndsTail ==
  ASSUME NEW q \in Seq(Item), q # <<>>, NEW x, NEW kind
  PROVE  /\ Queued(Tail(q), x) => (EndsWith(Tail(q), x, kind) <=> EndsWith(q, x, kind))
         /\ Head(q).of = x /\ ~Queued(Tail(q), x) => (EndsWith(q, x, kind) <=> Head(q).kind = kind)
<1> DEFINE t == Tail(q)
<1>1. /\ Head(q) = q[1] /\ 1 \in DOMAIN q
      /\ \A k \in DOMAIN t : k + 1 \in DOMAIN q /\ t[k] = q[k + 1]
      /\ \A k \in DOMAIN q : k = 1 \/ (k - 1 \in DOMAIN t /\ q[k] = t[k - 1])
  BY Tailed
<1>2. /\ \A k \in DOMAIN t : k \in Nat \ {0}
      /\ \A k \in DOMAIN q : k \in Nat \ {0}
  BY Tailed, LenProperties
<1> HIDE DEF t
<1>3. ASSUME Queued(t, x) PROVE EndsWith(t, x, kind) <=> EndsWith(q, x, kind)
  <2>1. PICK i \in DOMAIN t : t[i].of = x BY <1>3 DEF Queued
  <2>2. ASSUME EndsWith(t, x, kind) PROVE EndsWith(q, x, kind)
    <3>1. PICK k \in DOMAIN t : t[k].of = x /\ t[k].kind = kind /\ \A j \in DOMAIN t : t[j].of = x => j <= k
      BY <2>2 DEF EndsWith
    <3>2. ASSUME NEW j \in DOMAIN q, q[j].of = x PROVE j <= k + 1
      <4>1. CASE j = 1 BY <1>2, <4>1
      <4>2. CASE j # 1
        <5>1. j - 1 \in DOMAIN t /\ t[j - 1] = q[j] BY <1>1, <4>2
        <5>2. j - 1 <= k BY <3>1, <3>2, <5>1
        <5>3. QED BY <1>2, <5>2
      <4>3. QED BY <4>1, <4>2
    <3>3. k + 1 \in DOMAIN q /\ q[k + 1] = t[k] BY <1>1
    <3>4. QED BY <3>1, <3>2, <3>3 DEF EndsWith
  <2>3. ASSUME EndsWith(q, x, kind) PROVE EndsWith(t, x, kind)
    <3>1. PICK k \in DOMAIN q : q[k].of = x /\ q[k].kind = kind /\ \A j \in DOMAIN q : q[j].of = x => j <= k
      BY <2>3 DEF EndsWith
    <3>2. i + 1 \in DOMAIN q /\ q[i + 1].of = x BY <1>1, <2>1
    <3>3. i + 1 <= k BY <3>1, <3>2
    <3>4. k # 1 BY <1>2, <3>3
    <3>5. k - 1 \in DOMAIN t /\ t[k - 1] = q[k] BY <1>1, <3>4
    <3>6. ASSUME NEW j \in DOMAIN t, t[j].of = x PROVE j <= k - 1
      <4>1. j + 1 <= k BY <1>1, <3>1, <3>6
      <4>2. QED BY <1>2, <4>1
    <3>7. QED BY <3>1, <3>5, <3>6 DEF EndsWith
  <2>4. QED BY <2>2, <2>3
<1>4. ASSUME Head(q).of = x, ~Queued(t, x) PROVE EndsWith(q, x, kind) <=> Head(q).kind = kind
  <2>1. \A k \in DOMAIN q : q[k].of = x => k = 1 BY <1>1, <1>4 DEF Queued
  <2>2. 1 <= 1 OBVIOUS
  <2>3. QED BY <1>1, <1>4, <2>1, <2>2 DEF EndsWith
<1>5. QED BY <1>3, <1>4 DEF t

-----------------------------------------------------------------------------
(* Types                                                                    *)

LEMMA Bounds ==
  /\ QueueCap \in Nat \ {0} /\ MaxAttempts \in Nat \ {0} /\ MaxReloads \in Nat /\ MaxItems \in Nat
  /\ Lookback \in Nat \ {0} /\ Keep \in Nat /\ Lookback <= Keep
  BY BoundsAssumption

LEMMA Enqueued ==
  ASSUME TypeOK, NEW p \in Item, Enqueue(p)
  PROVE  \/ /\ UNCHANGED <<queue, wake, count>>
            /\ lossy' = lossy \cup (Edges \cap {p.of}) /\ spoiled' = spoiled \cup (Edges \cap {p.of})
         \/ /\ enabled /\ ~Waits(p) /\ wake' = TRUE /\ count' = p.id
            /\ \/ /\ queue' = Append(queue, p) /\ Len(queue) < QueueCap
                  /\ lossy' = lossy /\ spoiled' = spoiled \ {p.of}
               \/ /\ queue # <<>> /\ queue' = Append(Tail(queue), p)
                  /\ lossy' = lossy \cup (Edges \cap {Head(queue).of})
                  /\ spoiled' = (spoiled \ {p.of})
                                \cup {e \in Edges \cap {Head(queue).of} : ~Queued(queue', e)}
<1> queue \in Seq(Item) BY DEF TypeOK
<1>1. Full => queue # <<>> BY Bounds, EmptySeq DEF Full
<1>2. ~Full => Len(queue) < QueueCap BY Bounds, LenProperties DEF Full
<1>3. CASE ~enabled \/ Waits(p) BY <1>3 DEF Enqueue
<1>4. CASE enabled /\ ~Waits(p) /\ Full BY <1>1, <1>4 DEF Enqueue, Join
<1>5. CASE enabled /\ ~Waits(p) /\ ~Full BY <1>2, <1>5 DEF Enqueue, Join
<1>6. QED BY <1>3, <1>4, <1>5

LEMMA EnqueueType ==
  ASSUME TypeOK, NEW p \in Item, p.id = count + 1, Enqueue(p)
  PROVE  /\ queue' \in Seq(Item) /\ Len(queue') <= QueueCap /\ wake' \in BOOLEAN
         /\ lossy' \subseteq Edges /\ spoiled' \subseteq Edges
         /\ count' \in 0..MaxItems /\ (count' = count \/ count' = count + 1)
<1> queue \in Seq(Item) /\ Len(queue) <= QueueCap /\ count \in 0..MaxItems BY DEF TypeOK
<1>0. Len(queue) \in Nat BY LenProperties
<1>1. p.id \in 1..MaxItems /\ MaxItems \in Nat BY Bounds DEF Item
<1>2. /\ lossy' \subseteq Edges /\ spoiled' \subseteq Edges /\ (count' = count \/ count' = p.id)
      /\ (wake' = wake \/ wake' = TRUE)
  BY Enqueued DEF TypeOK
<1>3. count' \in 0..MaxItems /\ (count' = count \/ count' = count + 1) BY <1>1, <1>2
<1>4. wake' \in BOOLEAN BY <1>2 DEF TypeOK
<1>5. queue' \in Seq(Item) /\ Len(queue') <= QueueCap
  <2>1. CASE UNCHANGED queue BY <2>1
  <2>2. CASE queue' = Append(queue, p) /\ Len(queue) < QueueCap BY <1>0, <2>2, Appended, Bounds
  <2>3. CASE queue # <<>> /\ queue' = Append(Tail(queue), p)
    <3>1. Tail(queue) \in Seq(Item) /\ Len(Tail(queue)) = Len(queue) - 1 BY <2>3, Tailed
    <3>2. QED BY <1>0, <2>3, <3>1, Appended, Bounds
  <2>4. QED BY <2>1, <2>2, <2>3, Enqueued
<1>6. QED BY <1>2, <1>3, <1>4, <1>5

LEMMA PopType ==
  ASSUME TypeOK, PopIf PROVE queue' \in Seq(Item) /\ Len(queue') <= QueueCap
<1> queue \in Seq(Item) /\ Len(queue) <= QueueCap /\ Len(queue) \in Nat BY LenProperties DEF TypeOK
<1>1. CASE StillHead
  <2>1. queue # <<>> BY <1>1 DEF StillHead
  <2>2. QED BY <1>1, <2>1, Tailed, Bounds DEF PopIf
<1>2. CASE ~StillHead BY <1>2 DEF PopIf
<1>3. QED BY <1>1, <1>2

WorkerPcs == {"select", "loop", "resolve", "send", "sleep", "stopped"}
Workers == [pc : WorkerPcs, item : Item \cup {Nothing}, kind : Kinds \cup {"none"}, final : BOOLEAN]

LEMMA GoesType ==
  ASSUME TypeOK, NEW pc \in WorkerPcs, Goes(pc)
  PROVE  worker' \in Workers /\ worker'.pc = pc /\ worker'.item = Nothing
  BY DEF TypeOK, Goes, WorkerPcs, Workers

Hub == TypeOK /\ SendInv /\ KindInv

LEMMA SendingItem == ASSUME Hub, Sending PROVE worker.item \in Item
  BY DEF Hub, TypeOK, SendInv, Sending

\* A try of the item in delivery that the backend accepts.
LEMMA TakesType ==
  ASSUME Hub, NEW answered \in BOOLEAN, Takes(answered)
  PROVE  last' \in Message /\ told' \in [Edges -> NodeKinds \cup {"none"}]
<1> USE DEF Hub
<1>1. worker.item \in Item /\ worker.pc = "send" BY SendingItem DEF Takes, Sending
<1>2. last' \in Message
  <2> DEFINE n == IF last.id = worker.item.id THEN last.times + 1 ELSE 1
  <2>1. worker.kind \in Kinds BY <1>1 DEF KindInv
  <2>2. worker.item.of \in Deploys \cup Edges /\ worker.item.id \in 1..MaxItems /\ worker.item.id \in Nat \ {0}
    BY <1>1, ItemIs DEF Item
  <2>3. n \in 1..MaxAttempts
    <3>1. CASE last.id = worker.item.id
      <4>1. Unheard(worker.item)
        <5>1. last.id < worker.item.id \/ Unheard(worker.item) BY <1>1 DEF SendInv, Sending
        <5>2. QED BY <2>2, <3>1, <5>1
      <4>2. last.times <= worker.item.attempts BY <4>1 DEF Unheard
      <4>3. last \in Message BY <2>2, <3>1 DEF TypeOK, Silence
      <4>4. last.times \in 1..MaxAttempts BY <4>3 DEF Message
      <4>5. worker.item.attempts \in 0..MaxAttempts - 1 BY <1>1, ItemIs DEF Attempts
      <4>6. QED BY <3>1, <4>2, <4>4, <4>5, Bounds
    <3>2. CASE last.id # worker.item.id BY <3>2, Bounds
    <3>3. QED BY <3>1, <3>2
  <2> HIDE DEF n
  <2>4. last' = [kind |-> worker.kind, of |-> worker.item.of, id |-> worker.item.id, times |-> n, answered |-> answered]
    BY DEF Takes, n
  <2>5. QED BY <2>1, <2>2, <2>3, <2>4 DEF Message
<1>3. told' \in [Edges -> NodeKinds \cup {"none"}]
  <2>1. \A e \in Edges : e = worker.item.of => worker.item.kind \in NodeKinds
    BY <1>1, DeploysAssumption DEF Item
  <2>2. \A e \in Edges : (IF e = worker.item.of THEN worker.item.kind ELSE told[e]) \in NodeKinds \cup {"none"}
    BY <2>1 DEF TypeOK
  <2>3. told' = [e \in Edges |-> IF e = worker.item.of THEN worker.item.kind ELSE told[e]]
    BY DEF Takes
  <2>4. QED BY <2>2, <2>3
<1>4. QED BY <1>2, <1>3

\* A failed try is counted.
LEMMA FailsType ==
  ASSUME Hub, Fails
  PROVE  /\ queue' \in Seq(Item) /\ Len(queue') = Len(queue) /\ DOMAIN queue' = DOMAIN queue
         /\ \A k \in DOMAIN queue : /\ queue'[k].id = queue[k].id /\ queue'[k].kind = queue[k].kind
                                    /\ queue'[k].of = queue[k].of
         /\ StillHead => queue'[1].attempts = worker.item.attempts + 1
         /\ \A k \in DOMAIN queue : k # 1 \/ ~StillHead => queue'[k] = queue[k]
<1> USE DEF Hub
<1> queue \in Seq(Item) BY DEF TypeOK
<1>1. worker.item \in Item BY SendingItem DEF Fails, CanFail, Sending
<1>2. worker.item.attempts + 1 \in Attempts
  <2>1. worker.item.attempts \in 0..MaxAttempts - 1 BY <1>1, ItemIs DEF Attempts
  <2>2. worker.item.attempts + 1 < MaxAttempts BY <2>1, Bounds DEF Fails, GivesUp
  <2>3. QED BY <2>1, <2>2, Bounds DEF Attempts
<1>3. CASE StillHead
  <2>1. Head(queue) = queue[1] /\ queue[1] \in Item /\ 1 \in DOMAIN queue BY <1>3, Tailed DEF StillHead
  <2> DEFINE h == [queue[1] EXCEPT !.attempts = worker.item.attempts + 1]
  <2>2. h \in Item /\ h.id = queue[1].id /\ h.kind = queue[1].kind /\ h.of = queue[1].of
        /\ h.attempts = worker.item.attempts + 1
    BY <1>2, <2>1 DEF Item
  <2>3. queue' = [queue EXCEPT ![1] = h] BY <1>3, <2>1 DEF Fails
  <2> HIDE DEF h
  <2>4. queue' \in Seq(Item) /\ Len(queue') = Len(queue) BY <2>1, <2>2, <2>3, ExceptSeq, LenProperties
  <2>5. DOMAIN queue' = DOMAIN queue /\ queue'[1] = h /\ \A k \in DOMAIN queue : k # 1 => queue'[k] = queue[k]
    BY <2>1, <2>3
  <2>6. QED BY <1>3, <2>2, <2>4, <2>5
<1>4. CASE ~StillHead BY <1>4 DEF Fails
<1>5. QED BY <1>3, <1>4

LEMMA ByWorkerIs == ASSUME ByWorker
  PROVE UNCHANGED <<enabled, reloads, alerted, row, reclaimed, overtaken, stopping, count>>
  BY DEF ByWorker, watch, history

LEMMA LosesType == ASSUME TypeOK, NEW x, Loses(x) PROVE lossy' \subseteq Edges /\ spoiled' \subseteq Edges
  BY DEF TypeOK, Loses

LEMMA WorksType == ASSUME Hub, Works PROVE TypeOK'
<1> USE DEF Hub, WorkerPcs
<1> TypeOK OBVIOUS
<1>0. Leaves \in WorkerPcs /\ AfterOne \in WorkerPcs BY DEF Leaves, AfterOne
<1>a. UNCHANGED <<enabled, reloads, alerted, row, reclaimed, overtaken, stopping, count>>
  BY ByWorkerIs DEF Works, Wake, LastPass, Peek, Resolves, Delivers, Filters, FailsForGood, Fails, Sleeps, Quietly
<1>b. ASSUME queue' \in Seq(Item), Len(queue') <= QueueCap, wake' \in BOOLEAN, worker' \in Workers,
             last' \in Message \cup {Silence}, told' \in [Edges -> NodeKinds \cup {"none"}],
             lossy' \subseteq Edges, spoiled' \subseteq Edges
      PROVE TypeOK'
  BY <1>a, <1>b DEF TypeOK, Workers
<1>c. ASSUME UNCHANGED queue PROVE queue' \in Seq(Item) /\ Len(queue') <= QueueCap BY <1>c DEF TypeOK
<1>d. ASSUME UNCHANGED <<last, told>> PROVE last' \in Message \cup {Silence} /\ told' \in [Edges -> NodeKinds \cup {"none"}]
  BY <1>d DEF TypeOK
<1>e. ASSUME UNCHANGED losses PROVE lossy' \subseteq Edges /\ spoiled' \subseteq Edges BY <1>e DEF TypeOK, losses
<1>1. CASE Wake
  <2>1. worker' \in Workers BY <1>1, GoesType DEF Wake
  <2>2. QED BY <1>1, <1>b, <1>c, <1>d, <1>e, <2>1 DEF Wake
<1>2. CASE Peek \/ Sleeps \/ LastPass \/ Resolves
  <2>1. UNCHANGED <<queue, wake, last, told>> /\ UNCHANGED losses
    BY <1>2 DEF Peek, Sleeps, LastPass, Resolves, Quietly
  <2>2. worker' \in Workers
    <3>1. CASE \E pc \in WorkerPcs : Goes(pc) BY <3>1, GoesType
    <3>2. CASE queue # <<>> /\ worker' = [worker EXCEPT !.pc = "resolve", !.item = Head(queue)]
      <4>1. Head(queue) \in Item BY <3>2, Tailed DEF TypeOK
      <4>2. QED BY <3>2, <4>1 DEF TypeOK, Workers
    <3>3. CASE LastPass BY <3>3 DEF LastPass, Idle, Workers
    <3>4. CASE Resolves
      <4>1. Kind(worker.item) \in Kinds BY <3>4, WantedAssumption DEF Resolves, Worthy, Wants
      <4>2. QED BY <3>4, <4>1 DEF Resolves, TypeOK, Workers
    <3>5. QED BY <1>0, <1>2, <3>1, <3>2, <3>3, <3>4 DEF Peek, Sleeps
  <2>3. wake' \in BOOLEAN BY <2>1 DEF TypeOK
  <2>4. QED BY <1>b, <1>c, <1>d, <1>e, <2>1, <2>2, <2>3
<1>3. CASE Delivers
  <2>1. worker' \in Workers BY <1>0, <1>3, GoesType DEF Delivers
  <2>2. last' \in Message /\ told' \in [Edges -> NodeKinds \cup {"none"}] BY <1>3, TakesType DEF Delivers
  <2>3. queue' \in Seq(Item) /\ Len(queue') <= QueueCap BY <1>3, PopType DEF Delivers
  <2>4. wake' \in BOOLEAN /\ UNCHANGED losses BY <1>3 DEF Delivers, TypeOK
  <2>5. QED BY <1>b, <1>e, <2>1, <2>2, <2>3, <2>4
<1>4. CASE Filters
  <2>1. worker' \in Workers BY <1>0, <1>4, GoesType DEF Filters
  <2>2. queue' \in Seq(Item) /\ Len(queue') <= QueueCap BY <1>4, PopType DEF Filters
  <2>3. lossy' \subseteq Edges /\ spoiled' \subseteq Edges BY <1>4, LosesType DEF Filters
  <2>4. wake' \in BOOLEAN /\ UNCHANGED <<last, told>> BY <1>4 DEF Filters, TypeOK
  <2>5. QED BY <1>b, <1>d, <2>1, <2>2, <2>3, <2>4
<1>5. CASE FailsForGood
  <2>1. worker' \in Workers BY <1>0, <1>5, GoesType DEF FailsForGood
  <2>2. queue' \in Seq(Item) /\ Len(queue') <= QueueCap BY <1>5, PopType DEF FailsForGood
  <2>3. wake' \in BOOLEAN BY <1>5 DEF FailsForGood, TypeOK
  <2>4. CASE Takes(FALSE) /\ UNCHANGED losses
    <3>1. last' \in Message /\ told' \in [Edges -> NodeKinds \cup {"none"}] BY <2>4, TakesType
    <3>2. QED BY <1>b, <1>e, <2>1, <2>2, <2>3, <2>4, <3>1
  <2>5. CASE UNCHANGED <<last, told>> /\ Loses(worker.item.of)
    <3>1. lossy' \subseteq Edges /\ spoiled' \subseteq Edges BY <2>5, LosesType
    <3>2. QED BY <1>b, <1>d, <2>1, <2>2, <2>3, <2>5, <3>1
  <2>6. QED BY <1>5, <2>4, <2>5 DEF FailsForGood
<1>6. CASE Fails
  <2>1. worker' \in Workers BY <1>6, GoesType DEF Fails
  <2>2. queue' \in Seq(Item) /\ Len(queue') <= QueueCap BY <1>6, FailsType DEF TypeOK
  <2>3. wake' \in BOOLEAN /\ UNCHANGED losses BY <1>6 DEF Fails, TypeOK
  <2>4. last' \in Message \cup {Silence} /\ told' \in [Edges -> NodeKinds \cup {"none"}]
    <3>1. CASE Takes(FALSE) BY <3>1, TakesType
    <3>2. CASE UNCHANGED <<last, told>> BY <1>d, <3>2
    <3>3. QED BY <1>6, <3>1, <3>2 DEF Fails
  <2>5. QED BY <1>b, <1>e, <2>1, <2>2, <2>3, <2>4
<1>7. QED BY <1>1, <1>2, <1>3, <1>4, <1>5, <1>6 DEF Works

\* Who queues, and what: the steps that are not the delivery goroutine's.
States == Outcomes \cup Open \cup {"superseded"}

LEMMA BecomesOne ==
  ASSUME TypeOK, NEW d \in Deploys, NEW state \in States, Becomes(d, state)
  PROVE  /\ row' \in [Deploys -> Outcomes \cup Open \cup {"superseded"}]
         /\ \A c \in Deploys : c # d => row'[c] = row[c]
         /\ row'[d] = state
  BY DEF TypeOK, Becomes, States

LEMMA NewsIs ==
  ASSUME TypeOK, CanQueue
  PROVE  /\ \A d \in Deploys : News("deploy", d) \in Item
         /\ \A e \in Edges, kind \in NodeKinds : News(kind, e) \in Item
<1>1. count + 1 \in 1..MaxItems BY Bounds DEF CanQueue, TypeOK
<1>2. 0 \in Attempts BY Bounds DEF Attempts
<1>3. QED BY <1>1, <1>2 DEF News, Item

\* What a settling deploy and a turn of an edge share.
LEMMA Produces ==
  ASSUME Hub, NEW d \in Deploys, NEW s \in Outcomes, Settle(d, s)
  PROVE  /\ News("deploy", d) \in Item /\ News("deploy", d).id = count + 1 /\ News("deploy", d).of = d
         /\ Enqueue(News("deploy", d)) /\ UNCHANGED <<watch, worker, last, told, stopping>> /\ TypeOK'
<1> USE DEF Hub
<1> DEFINE p == News("deploy", d)
<1>1. p \in Item /\ p.id = count + 1 /\ p.of = d /\ Enqueue(p)
  <2>1. p.id = count + 1 /\ p.of = d BY DEF News
  <2>2. QED BY <2>1, NewsIs DEF Settle
<1>2. UNCHANGED <<watch, worker, last, told, stopping, reclaimed>> BY DEF Settle, ByDeploy, ByProducer
<1> HIDE DEF p
<1>3. row' \in [Deploys -> Outcomes \cup Open \cup {"superseded"}] BY BecomesOne DEF Settle, States
<1>4. overtaken' \subseteq Deploys BY DEF Settle, TypeOK
<1>5. /\ queue' \in Seq(Item) /\ Len(queue') <= QueueCap /\ wake' \in BOOLEAN
      /\ lossy' \subseteq Edges /\ spoiled' \subseteq Edges /\ count' \in 0..MaxItems
  BY <1>1, EnqueueType
<1>6. TypeOK' BY <1>2, <1>3, <1>4, <1>5 DEF TypeOK, watch
<1>7. QED BY <1>1, <1>2, <1>6 DEF p

LEMMA Turns ==
  ASSUME Hub, NEW e \in Edges, Offline(e) \/ Online(e)
  PROVE  \E kind \in NodeKinds :
         /\ News(kind, e) \in Item /\ News(kind, e).id = count + 1 /\ News(kind, e).of = e
         /\ News(kind, e).kind = kind
         /\ Enqueue(News(kind, e)) /\ UNCHANGED <<history, worker, last, told, stopping>> /\ TypeOK'
         /\ kind = IF e \in alerted THEN "online" ELSE "offline"
         /\ alerted' = IF e \in alerted THEN alerted \ {e} ELSE alerted \cup {e}
<1> USE DEF Hub
<1>1. PICK kind \in NodeKinds :
        /\ Announces(e, kind) /\ kind = IF e \in alerted THEN "online" ELSE "offline"
        /\ alerted' = IF e \in alerted THEN alerted \ {e} ELSE alerted \cup {e}
  BY DEF Offline, Online, Announced, NodeKinds
<1> DEFINE p == News(kind, e)
<1>2. p.id = count + 1 /\ p.of = e /\ p.kind = kind BY DEF News
<1>3. p \in Item /\ Enqueue(p) BY <1>1, NewsIs DEF Announces
<1>4. UNCHANGED <<history, worker, last, told, stopping, enabled, reloads>>
  BY <1>1 DEF Announces, ByWatcher, ByProducer
<1> HIDE DEF p
<1>5. /\ queue' \in Seq(Item) /\ Len(queue') <= QueueCap /\ wake' \in BOOLEAN
      /\ lossy' \subseteq Edges /\ spoiled' \subseteq Edges /\ count' \in 0..MaxItems
  BY <1>2, <1>3, EnqueueType
<1>6. alerted' \subseteq Edges BY <1>1 DEF TypeOK
<1>7. TypeOK' BY <1>4, <1>5, <1>6 DEF TypeOK, history
<1>8. QED BY <1>1, <1>2, <1>3, <1>4, <1>7 DEF p

\* The other steps queue nothing.
Quiet == Reclaim \/ Reload \/ Stop \/ Stopped \/ (\E d \in Deploys : Create(d) \/ Supersede(d)) \/ UNCHANGED vars

LEMMA QuietIs ==
  ASSUME Quiet
  PROVE  /\ UNCHANGED <<queue, wake, count, worker, last, told>>
         /\ lossy \subseteq lossy' /\ spoiled \subseteq spoiled'
         /\ Reload \/ UNCHANGED <<watch, losses>>
         /\ stopping' = stopping \/ stopping'
<1>1. CASE Reclaim BY <1>1 DEF Reclaim, NoNews, ByProducer, watch, losses
<1>2. CASE Reload BY <1>2 DEF Reload, ByWatcher, ByProducer, losses
<1>3. CASE Stop \/ Stopped \/ UNCHANGED vars BY <1>3 DEF Stop, Stopped, vars, losses
<1>4. CASE \E d \in Deploys : Create(d) \/ Supersede(d)
  BY <1>4 DEF Create, Supersede, NoNews, ByDeploy, ByProducer, watch, losses
<1>5. QED BY <1>1, <1>2, <1>3, <1>4 DEF Quiet

LEMMA HubTypes == ASSUME Hub, [Next]_vars PROVE TypeOK'
<1> USE DEF Hub
<1>1. CASE Works BY <1>1, WorksType
<1>2. CASE Reclaim
  <2>1. reclaimed' \subseteq Deploys BY <1>2 DEF Reclaim, Rows, TypeOK
  <2>2. QED BY <1>2, <2>1 DEF Reclaim, NoNews, losses, ByProducer, watch, TypeOK
<1>3. CASE Reload
  <2>1. UNCHANGED <<row, reclaimed, overtaken, queue, wake, count, stopping, worker, last, told>>
    BY <1>3 DEF Reload, ByWatcher, history, ByProducer
  <2>2. reloads' \in 0..MaxReloads BY <1>3, Bounds DEF Reload, TypeOK
  <2>3. enabled' \in BOOLEAN /\ alerted' \subseteq Edges /\ lossy' \subseteq Edges /\ spoiled' \subseteq Edges
    BY <1>3 DEF Reload, losses, TypeOK
  <2>4. QED BY <2>1, <2>2, <2>3 DEF TypeOK
<1>4. CASE Stop \/ Stopped \/ UNCHANGED vars
  BY <1>4 DEF Stop, Stopped, vars, watch, history, losses, TypeOK
<1>5. ASSUME NEW d \in Deploys, Create(d) \/ Supersede(d) PROVE TypeOK'
  <2>1. row' \in [Deploys -> Outcomes \cup Open \cup {"superseded"}]
    <3>1. "moving" \in States /\ "superseded" \in States BY DEF States, Open
    <3>2. QED BY <1>5, <3>1, BecomesOne DEF Create, Supersede
  <2>2. QED BY <1>5, <2>1 DEF Create, Supersede, NoNews, ByDeploy, ByProducer, watch, losses, TypeOK
<1>6. ASSUME NEW d \in Deploys, NEW s \in Outcomes, Settle(d, s) PROVE TypeOK'
  BY <1>6, Produces
<1>7. ASSUME NEW e \in Edges, Offline(e) \/ Online(e) PROVE TypeOK'
  BY <1>7, Turns
<1>8. QED BY <1>1, <1>2, <1>3, <1>4, <1>5, <1>6, <1>7 DEF Next

-----------------------------------------------------------------------------
(* Order                                                                    *)

LEMMA Counted == ASSUME TypeOK PROVE last.id \in Nat /\ count \in Nat
  BY Bounds DEF TypeOK, Message, Silence

LEMMA QueueIs ==
  ASSUME TypeOK
  PROVE  QueueInv <=> /\ last.id <= count /\ Sorted(queue, last.id, count)
                      /\ \A k \in DOMAIN queue : queue[k].id = last.id => Unheard(queue[k])
<1>1. queue \in Seq(Item) BY DEF TypeOK
<1>2. \A k \in DOMAIN queue : queue[k].id \in Nat BY <1>1, ElementsAre
<1>3. last.id \in Nat BY Counted
<1>4. QED BY <1>2, <1>3 DEF QueueInv, Sorted, Unheard

LEMMA QueueWas ==
  ASSUME TypeOK'
  PROVE  QueueInv' <=> /\ last'.id <= count' /\ Sorted(queue', last'.id, count')
                       /\ \A k \in DOMAIN queue' :
                            queue'[k].id = last'.id =>
                              ~last'.answered /\ last'.times <= queue'[k].attempts
<1>1. queue' \in Seq(Item) BY DEF TypeOK
<1>2. \A k \in DOMAIN queue' : queue'[k].id \in Nat BY <1>1, ElementsAre
<1>3. last'.id \in Nat BY Bounds DEF TypeOK, Message, Silence
<1>4. QED BY <1>2, <1>3 DEF QueueInv, Sorted, Unheard

\* What the queue and a delivery under way are to what went out.
Chain == QueueInv /\ ToldInv /\ LossInv

LEMMA EnqueueOrder ==
  ASSUME Hub, Chain, TypeOK', NEW p \in Item, p.id = count + 1, Enqueue(p), UNCHANGED <<worker, last, told>>
  PROVE  Chain' /\ SendInv'
<1> USE DEF Hub, Chain
<1> queue \in Seq(Item) BY DEF TypeOK
<1> last' = last /\ worker' = worker /\ told' = told OBVIOUS
<1>0. last.id \in Nat /\ count \in Nat /\ p.id \in Nat BY Counted, ItemIs
<1>1. /\ last.id <= count /\ Sorted(queue, last.id, count)
      /\ \A k \in DOMAIN queue : queue[k].id = last.id => Unheard(queue[k])
  BY QueueIs
<1>a. \A k \in DOMAIN queue : k \in Nat \ {0} /\ queue[k] \in Item /\ queue[k].id \in Nat BY ElementsAre
<1>b. ASSUME Sending
      PROVE  /\ worker.item \in Item /\ worker.item.id \in Nat
             /\ worker.item # Nothing /\ worker.item.id <= count
             /\ last.id < worker.item.id \/ Unheard(worker.item)
             /\ LastIs(worker.item)
             /\ \A k \in DOMAIN queue :
                  worker.item.id < queue[k].id \/ (k = 1 /\ queue[k].id = worker.item.id /\ StillHead)
             /\ worker.item.of \in Edges \ spoiled => Queued(queue, worker.item.of)
             /\ worker.item.of \in Edges \ lossy => StillHead /\ Head(queue).id = worker.item.id
  BY <1>b, SendingItem, ItemIs DEF SendInv
<1>2. CASE UNCHANGED <<queue, count>> /\ lossy' = lossy \cup (Edges \cap {p.of})
           /\ spoiled' = spoiled \cup (Edges \cap {p.of})
  <2>1. QueueInv' BY <1>2 DEF QueueInv, Unheard
  <2>2. ToldInv' BY <1>2 DEF ToldInv, LastIs
  <2>3. LossInv' BY <1>2 DEF LossInv
  <2>4. SendInv' BY <1>2 DEF SendInv, Sending, StillHead, Unheard, LastIs
  <2>5. QED BY <2>1, <2>2, <2>3, <2>4
<1>3. CASE queue' = Append(queue, p) /\ count' = count + 1 /\ ~Waits(p) /\ lossy' = lossy /\ spoiled' = spoiled \ {p.of}
  <2>a. /\ DOMAIN queue' = DOMAIN queue \cup {Len(queue) + 1} /\ queue'[Len(queue) + 1] = p
        /\ \A k \in DOMAIN queue : queue'[k] = queue[k]
        /\ queue' \in Seq(Item) /\ queue' # <<>>
    BY <1>3, Appended, AppendProperties
  <2>1. QueueInv'
    <3>1. Sorted(queue', last'.id, count') BY <1>0, <1>1, <1>3, SortedAppend DEF Waits
    <3>2. \A k \in DOMAIN queue' : queue'[k].id = last'.id => ~last'.answered /\ last'.times <= queue'[k].attempts
      <4>1. p.id # last.id BY <1>0, <1>1
      <4>2. QED BY <1>1, <2>a, <4>1 DEF Unheard
    <3>3. QED BY <1>0, <1>1, <1>3, <3>1, <3>2, QueueWas
  <2>2. ToldInv'
    <3>1. p.id # last.id BY <1>0, <1>1
    <3>2. QED BY <2>a, <3>1 DEF ToldInv, LastIs
  <2>3. LossInv' BY <1>3 DEF LossInv
  <2>4. ASSUME Sending PROVE SendInv'
    <3>1. StillHead => StillHead' /\ Head(queue') = Head(queue)
      <4>1. SUFFICES ASSUME StillHead PROVE StillHead' /\ Head(queue') = Head(queue) OBVIOUS
      <4>2. Head(queue) = queue[1] /\ 1 \in DOMAIN queue BY <4>1, Tailed DEF StillHead
      <4>3. Head(queue') = queue'[1] BY <2>a, Tailed
      <4>4. QED BY <2>a, <4>1, <4>2, <4>3 DEF StillHead
    <3>2. worker.item.id < p.id BY <1>0, <1>b, <2>4
    <3>3. ASSUME NEW k \in DOMAIN queue'
          PROVE worker.item.id < queue'[k].id \/ (k = 1 /\ queue'[k].id = worker.item.id /\ StillHead')
      <4>1. CASE k \in DOMAIN queue BY <1>b, <2>4, <2>a, <3>1, <4>1
      <4>2. CASE k = Len(queue) + 1 BY <2>a, <3>2, <4>2
      <4>3. QED BY <2>a, <4>1, <4>2
    <3>4. worker.item.id <= count' BY <1>0, <1>3, <1>b, <2>4
    <3>5. worker.item.of \in Edges \ spoiled' => Queued(queue', worker.item.of)
      BY <1>3, <1>b, <2>4, QueuedAppend
    <3>6. QED BY <1>3, <1>b, <2>4, <3>1, <3>3, <3>4, <3>5 DEF SendInv, Unheard, LastIs
  <2>5. QED BY <2>1, <2>2, <2>3, <2>4 DEF SendInv, Sending
<1>4. CASE /\ queue # <<>> /\ queue' = Append(Tail(queue), p) /\ count' = count + 1 /\ ~Waits(p)
           /\ lossy' = lossy \cup (Edges \cap {Head(queue).of})
           /\ spoiled' = (spoiled \ {p.of}) \cup {e \in Edges \cap {Head(queue).of} : ~Queued(queue', e)}
  <2> DEFINE t == Tail(queue)
  <2>a. /\ t \in Seq(Item) /\ Sorted(t, last.id, count) /\ Head(queue) = queue[1] /\ 1 \in DOMAIN queue
        /\ \A k \in DOMAIN t : k \in Nat \ {0} /\ k + 1 \in DOMAIN queue /\ t[k] = queue[k + 1]
    BY <1>0, <1>1, <1>4, SortedTail, Tailed, LenProperties
  <2>b. \A k \in DOMAIN t : ~SameKey(t[k], p) BY <1>4, <2>a DEF Waits
  <2>c. \A x : Queued(queue, x) <=> Head(queue).of = x \/ Queued(t, x) BY <1>4, QueuedTail
  <2> HIDE DEF t
  <2>d. queue' = Append(t, p) BY <1>4 DEF t
  <2>e. /\ DOMAIN queue' = DOMAIN t \cup {Len(t) + 1} /\ queue'[Len(t) + 1] = p
        /\ \A k \in DOMAIN t : queue'[k] = t[k]
    BY <2>a, <2>d, Appended
  <2>1. QueueInv'
    <3>1. Sorted(queue', last'.id, count')
      <4>1. Sorted(Append(t, p), last.id, count + 1) BY <1>0, <1>1, <2>a, <2>b, SortedAppend
      <4>2. QED BY <1>4, <2>d, <4>1
    <3>2. \A k \in DOMAIN queue' : queue'[k].id = last'.id => ~last'.answered /\ last'.times <= queue'[k].attempts
      <4>1. p.id # last.id BY <1>0, <1>1
      <4>2. QED BY <1>1, <2>a, <2>e, <4>1 DEF Unheard
    <3>3. QED BY <1>0, <1>1, <1>4, <3>1, <3>2, QueueWas
  <2>2. ToldInv'
    <3>1. p.id # last.id BY <1>0, <1>1
    <3>2. QED BY <2>a, <2>e, <3>1 DEF ToldInv, LastIs
  <2>3. LossInv' BY <1>4 DEF LossInv
  <2>4. ASSUME Sending PROVE SendInv'
    <3>1. worker.item.id < p.id BY <1>0, <1>b, <2>4
    <3>2. ASSUME NEW k \in DOMAIN t PROVE worker.item.id < t[k].id
      <4>1. k + 1 # 1 /\ k + 1 \in DOMAIN queue /\ t[k] = queue[k + 1] BY <2>a
      <4>2. QED BY <1>b, <2>4, <4>1
    <3>3. \A k \in DOMAIN queue' : worker.item.id < queue'[k].id BY <2>e, <3>1, <3>2
    <3>4. worker.item.of \notin Edges \ lossy'
      <4>1. CASE StillHead BY <1>4, <4>1 DEF StillHead, SameKey
      <4>2. CASE ~StillHead BY <1>4, <1>b, <2>4, <4>2
      <4>3. QED BY <4>1, <4>2
    <3>5. worker.item.id <= count' BY <1>0, <1>4, <1>b, <2>4
    <3>6. worker.item.of \in Edges \ spoiled' => Queued(queue', worker.item.of)
      <4>1. SUFFICES ASSUME worker.item.of \in Edges \ spoiled', ~Queued(queue', worker.item.of) PROVE FALSE
        OBVIOUS
      <4>2. p.of # worker.item.of /\ ~Queued(t, worker.item.of) BY <2>a, <2>d, <4>1, QueuedAppend
      <4>3. Head(queue).of # worker.item.of /\ worker.item.of \notin spoiled BY <1>4, <4>1, <4>2
      <4>4. QED BY <1>b, <2>4, <2>c, <4>1, <4>2, <4>3
    <3>7. QED BY <1>b, <2>4, <3>3, <3>4, <3>5, <3>6 DEF SendInv, Unheard, LastIs
  <2>5. QED BY <2>1, <2>2, <2>3, <2>4 DEF SendInv, Sending
<1>5. QED BY <1>2, <1>3, <1>4, Enqueued

\* When a delivery is over, all that is left in the queue is newer.
LEMMA PopOrder ==
  ASSUME Hub, QueueInv, Sending, PopIf
  PROVE  /\ Sorted(queue', last.id, count)
         /\ \A k \in DOMAIN queue' : worker.item.id < queue'[k].id
         /\ worker.item.id \in Nat /\ last.id <= worker.item.id /\ worker.item.id <= count
<1> USE DEF Hub
<1> queue \in Seq(Item) BY DEF TypeOK
<1>0. last.id \in Nat /\ count \in Nat BY Counted
<1>1. Sorted(queue, last.id, count) BY QueueIs
<1>2. /\ \A k \in DOMAIN queue :
           worker.item.id < queue[k].id \/ (k = 1 /\ queue[k].id = worker.item.id /\ StillHead)
      /\ last.id < worker.item.id \/ last.id = worker.item.id
      /\ worker.item.id <= count
  BY DEF SendInv, Unheard
<1>3. worker.item.id \in Nat BY SendingItem, ItemIs
<1>4. CASE StillHead
  <2>1. queue # <<>> /\ queue' = Tail(queue) BY <1>4 DEF StillHead, PopIf
  <2>2. Sorted(queue', last.id, count) BY <1>0, <1>1, <2>1, SortedTail
  <2>3. \A k \in DOMAIN queue' : k \in Nat \ {0} /\ k + 1 \in DOMAIN queue /\ queue'[k] = queue[k + 1]
    BY <2>1, Tailed, LenProperties
  <2>4. \A k \in DOMAIN queue' : k + 1 # 1 BY <2>3
  <2>5. \A k \in DOMAIN queue' : worker.item.id < queue'[k].id BY <1>2, <2>3, <2>4
  <2>6. QED BY <1>0, <1>2, <1>3, <2>2, <2>5
<1>5. CASE ~StillHead
  <2>1. queue' = queue BY <1>5 DEF PopIf
  <2>2. QED BY <1>0, <1>1, <1>2, <1>3, <1>5, <2>1
<1>6. QED BY <1>4, <1>5

\* After it, with what the backend accepted last as it was or the item's.
LEMMA PopChain ==
  ASSUME Hub, Chain, TypeOK', Sending, PopIf, count' = count,
         (last'.id = last.id /\ UNCHANGED told) \/ last'.id = worker.item.id
  PROVE  QueueInv' /\ ToldInv'
<1>1. /\ Sorted(queue', last.id, count)
      /\ \A k \in DOMAIN queue' : worker.item.id < queue'[k].id
      /\ worker.item.id \in Nat /\ last.id <= worker.item.id /\ worker.item.id <= count
  BY PopOrder DEF Chain
<1>2. /\ last.id \in Nat /\ last'.id \in Nat /\ count \in Nat
      /\ \A k \in DOMAIN queue' : queue'[k].id \in Nat
  BY <1>1, Counted, ElementsAre DEF Hub, TypeOK
<1>3. \A k \in DOMAIN queue' : last'.id < queue'[k].id BY <1>1, <1>2
<1>4. last'.id <= count' BY <1>1, <1>2
<1>5. Sorted(queue', last'.id, count') BY <1>1, <1>2, <1>3 DEF Sorted
<1>6. QueueInv' BY <1>2, <1>3, <1>4, <1>5, QueueWas
<1>7. ToldInv' BY <1>2, <1>3 DEF ToldInv, LastIs
<1>8. QED BY <1>6, <1>7

LEMMA TakesIs ==
  ASSUME Hub, Chain, NEW answered \in BOOLEAN, Takes(answered)
  PROVE  /\ Sending /\ last'.id = worker.item.id /\ last'.answered = answered
         /\ \/ last'.id > last.id /\ last'.times = 1
            \/ last'.id = last.id /\ ~last.answered /\ last'.times \in 2..MaxAttempts
               /\ last'.times <= worker.item.attempts + 1
<1> USE DEF Hub
<1>1. Sending BY DEF Takes, Sending
<1>2. last.id < worker.item.id \/ Unheard(worker.item) BY <1>1 DEF SendInv
<1>3. worker.item \in Item BY <1>1, SendingItem
<1>4. /\ worker.item.id \in Nat \ {0} /\ last.id \in Nat /\ worker.item.attempts \in 0..MaxAttempts - 1
  BY <1>3, ItemIs, Counted DEF Attempts
<1>5. last'.id = worker.item.id /\ last'.answered = answered
      /\ last'.times = IF last.id = worker.item.id THEN last.times + 1 ELSE 1
  BY DEF Takes
<1>6. CASE last.id = worker.item.id
  <2>1. ~last.answered /\ last.times <= worker.item.attempts BY <1>2, <1>4, <1>6 DEF Unheard
  <2>2. last \in Message BY <1>4, <1>6 DEF TypeOK, Silence
  <2>3. last.times \in 1..MaxAttempts BY <2>2 DEF Message
  <2>4. last.times + 1 \in 2..MaxAttempts /\ last.times + 1 <= worker.item.attempts + 1
    BY <1>4, <2>1, <2>3, Bounds
  <2>5. QED BY <1>1, <1>5, <1>6, <2>1, <2>4
<1>7. CASE last.id # worker.item.id
  <2>1. last.id < worker.item.id BY <1>2, <1>7 DEF Unheard
  <2>2. QED BY <1>1, <1>4, <1>5, <1>7, <2>1
<1>8. QED BY <1>6, <1>7

LEMMA WorksOrder == ASSUME Hub, Chain, TypeOK', Works PROVE Chain' /\ SendInv'
<1> USE DEF Hub
<1> queue \in Seq(Item) BY DEF TypeOK
<1>0. last.id \in Nat /\ count \in Nat /\ UNCHANGED count
  BY Counted, ByWorkerIs DEF Works, Wake, LastPass, Peek, Resolves, Delivers, Filters, FailsForGood, Fails, Sleeps, Quietly
<1>a. ASSUME NEW pc \in {"select", "loop", "sleep", "stopped"}, Goes(pc) PROVE SendInv'
  <2>1. worker'.pc = pc BY <1>a DEF Goes, TypeOK
  <2>2. QED BY <1>a, <2>1 DEF SendInv, Sending
<1>b. Leaves \in {"select", "stopped"} /\ AfterOne = "loop" BY DEF Leaves, AfterOne
<1>c. ASSUME UNCHANGED <<queue, last, told>>, UNCHANGED losses PROVE Chain'
  <2>1. QueueInv' BY <1>0, <1>c DEF Chain, QueueInv, Unheard
  <2>2. QED BY <1>c, <2>1 DEF Chain, ToldInv, LastIs, LossInv, losses
<1>d. ASSUME NEW x, Loses(x) \/ UNCHANGED losses PROVE LossInv' BY <1>d DEF Chain, LossInv, Loses, losses
<1>1. CASE Wake BY <1>1, <1>a, <1>c DEF Wake
<1>2. CASE Sleeps BY <1>2, <1>a, <1>b, <1>c DEF Sleeps, Quietly
<1>3. CASE LastPass
  <2>1. worker'.pc \in {"stopped", "loop"} BY <1>3 DEF LastPass, Idle
  <2>2. QED BY <1>3, <1>c, <2>1 DEF LastPass, Quietly, SendInv, Sending
<1>4. CASE Peek /\ Goes(Leaves) BY <1>4, <1>a, <1>b, <1>c DEF Peek, Quietly
<1>5. CASE Peek /\ ~Goes(Leaves)
  <2>1. /\ queue # <<>> /\ UNCHANGED <<queue, last, told>> /\ UNCHANGED losses /\ worker'.item = Head(queue)
    BY <1>5 DEF Peek, Quietly, TypeOK
  <2>2. Head(queue) = queue[1] /\ 1 \in DOMAIN queue /\ Head(queue) \in Item BY <2>1, Tailed
  <2>3. Head(queue) # Nothing BY <2>2, ItemIs DEF Nothing
  <2>4. /\ last.id < queue[1].id \/ Unheard(queue[1])
        /\ queue[1].id <= count
        /\ \A k \in DOMAIN queue : 1 < k => queue[1].id < queue[k].id
        /\ LastIs(queue[1])
    BY <2>2 DEF Chain, QueueInv, ToldInv
  <2>5. \A k \in DOMAIN queue : k = 1 \/ 1 < k BY LenProperties
  <2>6. StillHead' BY <2>1, <2>2 DEF StillHead, SameKey
  <2>7. Queued(queue, queue[1].of) BY <2>2 DEF Queued
  <2>8. SendInv' BY <1>0, <2>1, <2>2, <2>3, <2>4, <2>5, <2>6, <2>7 DEF SendInv, Unheard, LastIs
  <2>9. QED BY <1>c, <2>1, <2>8
<1>6. CASE Resolves
  <2>1. Sending /\ worker'.item = worker.item /\ UNCHANGED <<queue, last, told>> /\ UNCHANGED losses
    BY <1>6 DEF Resolves, Sending, Quietly, TypeOK
  <2>2. SendInv' BY <1>0, <2>1 DEF SendInv, StillHead, Unheard, LastIs, losses
  <2>3. QED BY <1>c, <2>1, <2>2
<1>7. CASE Delivers
  <2>1. Sending /\ PopIf /\ last'.id = worker.item.id /\ UNCHANGED losses BY <1>7, TakesIs DEF Delivers
  <2>2. QueueInv' /\ ToldInv' BY <1>0, <2>1, PopChain
  <2>3. QED BY <1>7, <1>a, <1>b, <1>d, <2>1, <2>2 DEF Delivers, Chain
<1>8. CASE Filters
  <2>1. Sending /\ PopIf /\ UNCHANGED <<last, told>> BY <1>8 DEF Filters, Sending
  <2>2. QueueInv' /\ ToldInv' BY <1>0, <2>1, PopChain
  <2>3. QED BY <1>8, <1>a, <1>b, <1>d, <2>2 DEF Filters, Chain
<1>9. CASE FailsForGood
  <2>1. Sending /\ PopIf BY <1>9 DEF FailsForGood, CanFail, Sending
  <2>2. (last'.id = last.id /\ UNCHANGED told) \/ last'.id = worker.item.id BY <1>9, TakesIs DEF FailsForGood
  <2>3. QueueInv' /\ ToldInv' BY <1>0, <2>1, <2>2, PopChain
  <2>4. QED BY <1>9, <1>a, <1>b, <1>d, <2>3 DEF FailsForGood, Chain
<1>10. CASE Fails
  <2>1. Sending /\ UNCHANGED losses /\ SendInv' BY <1>10, <1>a DEF Fails, CanFail, Sending
  <2>2. /\ queue' \in Seq(Item) /\ DOMAIN queue' = DOMAIN queue
        /\ \A k \in DOMAIN queue : /\ queue'[k].id = queue[k].id /\ queue'[k].kind = queue[k].kind
                                   /\ queue'[k].of = queue[k].of
        /\ StillHead => queue'[1].attempts = worker.item.attempts + 1
        /\ \A k \in DOMAIN queue : k # 1 \/ ~StillHead => queue'[k] = queue[k]
    BY <1>10, FailsType
  <2>3. /\ worker.item.id \in Nat /\ worker.item.id <= count
        /\ last.id < worker.item.id \/ Unheard(worker.item)
        /\ \A k \in DOMAIN queue :
             worker.item.id < queue[k].id \/ (k = 1 /\ queue[k].id = worker.item.id /\ StillHead)
        /\ LastIs(worker.item) /\ worker.item.attempts \in Nat
    <3>1. worker.item \in Item BY <2>1, SendingItem
    <3>2. worker.item.attempts \in 0..MaxAttempts - 1 BY <3>1, ItemIs DEF Attempts
    <3>3. QED BY <2>1, <3>1, <3>2, ItemIs DEF SendInv
  <2>4. \A k \in DOMAIN queue : queue[k].id \in Nat BY ElementsAre
  <2>5. /\ last.id <= count /\ Sorted(queue, last.id, count)
        /\ \A k \in DOMAIN queue : queue[k].id = last.id => Unheard(queue[k])
    BY QueueIs DEF Chain
  <2>6. CASE UNCHANGED <<last, told>>
    <3>1. Sorted(queue', last'.id, count') BY <1>0, <2>2, <2>5, <2>6 DEF Sorted, SameKey
    <3>2. ASSUME NEW k \in DOMAIN queue', queue'[k].id = last'.id
          PROVE ~last'.answered /\ last'.times <= queue'[k].attempts
      <4>1. k \in DOMAIN queue /\ queue[k].id = last.id /\ Unheard(queue[k]) BY <2>2, <2>5, <2>6, <3>2
      <4>2. CASE k = 1 /\ StillHead
        <5>1. last.id = worker.item.id /\ Unheard(worker.item)
          BY <1>0, <2>3, <2>4, <4>1 DEF Unheard
        <5>2. last.times \in Nat BY DEF TypeOK, Message, Silence
        <5>3. QED BY <2>2, <2>3, <2>6, <4>2, <5>1, <5>2 DEF Unheard
      <4>3. CASE ~(k = 1 /\ StillHead) BY <2>2, <2>6, <4>1, <4>3 DEF Unheard
      <4>4. QED BY <4>2, <4>3
    <3>3. QueueInv' BY <1>0, <2>5, <2>6, <3>1, <3>2, QueueWas
    <3>4. ToldInv' BY <2>2, <2>6 DEF Chain, ToldInv, LastIs
    <3>5. QED BY <1>d, <2>1, <3>3, <3>4 DEF Chain
  <2>7. CASE Takes(FALSE)
    <3>1. /\ last'.id = worker.item.id /\ ~last'.answered
          /\ last'.times = 1 \/ last'.times <= worker.item.attempts + 1
      BY <2>7, TakesIs
    <3>2. Sorted(queue', last'.id, count')
      <4>1. \A k \in DOMAIN queue' : last'.id <= queue'[k].id BY <2>2, <2>3, <2>4, <3>1
      <4>2. QED BY <1>0, <2>2, <2>5, <4>1 DEF Sorted, SameKey
    <3>3. ASSUME NEW k \in DOMAIN queue', queue'[k].id = last'.id
          PROVE ~last'.answered /\ last'.times <= queue'[k].attempts
      <4>1. k = 1 /\ StillHead BY <2>2, <2>3, <2>4, <3>1, <3>3
      <4>2. 1 <= worker.item.attempts + 1 BY <2>3
      <4>3. QED BY <2>2, <3>1, <4>1, <4>2
    <3>4. last'.id <= count' BY <1>0, <2>3, <3>1
    <3>5. QueueInv' BY <3>2, <3>3, <3>4, QueueWas
    <3>6. ToldInv'
      <4>1. ASSUME NEW k \in DOMAIN queue', queue'[k].id = last'.id, queue'[k].of \in Edges
            PROVE told'[queue'[k].of] = queue'[k].kind
        <5>1. k = 1 /\ StillHead BY <2>2, <2>3, <2>4, <3>1, <4>1
        <5>2. queue'[k].of = worker.item.of /\ queue'[k].kind = worker.item.kind
          <6>1. Head(queue) = queue[1] BY <5>1, Tailed DEF StillHead
          <6>2. QED BY <2>2, <4>1, <5>1, <6>1 DEF StillHead, SameKey
        <5>3. QED BY <2>7, <4>1, <5>2 DEF Takes
      <4>2. QED BY <4>1 DEF ToldInv, LastIs
    <3>7. QED BY <1>d, <2>1, <3>5, <3>6 DEF Chain
  <2>8. QED BY <1>10, <2>1, <2>6, <2>7 DEF Fails
<1>11. QED BY <1>1, <1>2, <1>3, <1>4, <1>5, <1>6, <1>7, <1>8, <1>9, <1>10 DEF Works

LEMMA OrderStep == ASSUME Hub, Chain, TypeOK', [Next]_vars PROVE Chain' /\ SendInv'
<1> USE DEF Hub
<1>1. CASE Works BY <1>1, WorksOrder
<1>2. CASE Quiet
  <2>1. UNCHANGED <<queue, count, worker, last, told>> /\ lossy \subseteq lossy' /\ spoiled \subseteq spoiled'
    BY <1>2, QuietIs
  <2>2. LossInv'
    <3>1. CASE Reload BY <3>1 DEF Reload, losses, Chain, LossInv
    <3>2. CASE UNCHANGED <<watch, losses>> BY <3>2 DEF losses, Chain, LossInv
    <3>3. QED BY <1>2, <3>1, <3>2, QuietIs
  <2>3. QueueInv' BY <2>1 DEF Chain, QueueInv, Unheard
  <2>4. ToldInv' BY <2>1 DEF Chain, ToldInv, LastIs
  <2>5. SendInv' BY <2>1 DEF SendInv, Sending, StillHead, Unheard, LastIs
  <2>6. QED BY <2>2, <2>3, <2>4, <2>5 DEF Chain
<1>3. ASSUME NEW d \in Deploys, NEW s \in Outcomes, Settle(d, s) PROVE Chain' /\ SendInv'
  BY <1>3, Produces, EnqueueOrder
<1>4. ASSUME NEW e \in Edges, Offline(e) \/ Online(e) PROVE Chain' /\ SendInv'
  <2>1. PICK kind \in NodeKinds :
          /\ News(kind, e) \in Item /\ News(kind, e).id = count + 1 /\ Enqueue(News(kind, e))
          /\ UNCHANGED <<worker, last, told>>
    BY <1>4, Turns
  <2>2. QED BY <2>1, EnqueueOrder
<1>5. QED BY <1>1, <1>2, <1>3, <1>4 DEF Next, Quiet

LEMMA Ahead ==
  ASSUME Hub, Chain, [Next]_vars
  PROVE  \/ last' = last
         \/ last'.id > last.id /\ last'.times = 1
         \/ last'.id = last.id /\ ~last.answered /\ last'.times \in 2..MaxAttempts
<1>1. CASE Takes(TRUE) \/ Takes(FALSE) BY <1>1, TakesIs
<1>2. CASE Works /\ ~Takes(TRUE) /\ ~Takes(FALSE)
  BY <1>2 DEF Works, Wake, LastPass, Peek, Resolves, Delivers, Filters, FailsForGood, Fails, Sleeps, Quietly
<1>3. CASE Quiet BY <1>3, QuietIs
<1>4. CASE \E d \in Deploys, s \in Outcomes : Settle(d, s) BY <1>4, Produces
<1>5. CASE \E e \in Edges : Offline(e) \/ Online(e) BY <1>5, Turns
<1>6. QED BY <1>1, <1>2, <1>3, <1>4, <1>5 DEF Next, Quiet

-----------------------------------------------------------------------------
(* Alarms and all-clears                                                    *)

\* What holds of an edge none of whose news was lost: N is what is queued of it
\* and not known to have arrived, t what people were told of it, a whether its
\* outage is announced.
Final(p, N) == \A q \in N : q.id <= p.id
Flag(N, t, a) ==
  /\ Alternates(N)
  /\ \A p \in N : First(p, N) => p.kind = IF t = "offline" THEN "online" ELSE "offline"
  /\ a <=> IF N = {} THEN t = "offline" ELSE \E p \in N : Final(p, N) /\ p.kind = "offline"
Flags == \A e \in Edges \ lossy : Flag(NewsOf(e), told[e], e \in alerted)
Words == \A e \in Edges \ spoiled : (e \in alerted) <=> LastWord(e, "offline")

NewsSet(N) == /\ \A p \in N : p.id \in Nat /\ p.kind \in NodeKinds
              /\ \A p, q \in N : p.id = q.id => p = q

LEMMA FlagAdded ==
  ASSUME NEW N, NewsSet(N), NEW t, NEW a \in BOOLEAN, Flag(N, t, a),
         NEW x, x.id \in Nat, x.kind = IF a THEN "online" ELSE "offline", \A p \in N : p.id < x.id
  PROVE  Flag(N \cup {x}, t, ~a)
<1> DEFINE M == N \cup {x}
<1> USE DEF NewsSet
<1>1. Final(x, M) BY DEF Final
<1>2. \A p \in N : ~Final(p, M) BY DEF Final
<1>3. \A p \in M : First(p, M) => p.kind = IF t = "offline" THEN "online" ELSE "offline"
  <2>1. SUFFICES ASSUME NEW p \in M, First(p, M)
                 PROVE p.kind = IF t = "offline" THEN "online" ELSE "offline"
    OBVIOUS
  <2>2. CASE p \in N BY <2>1, <2>2 DEF First, Flag
  <2>3. CASE p = x
    <3>1. N = {} BY <2>1, <2>3 DEF First
    <3>2. a <=> t = "offline" BY <3>1 DEF Flag
    <3>3. QED BY <2>3, <3>2
  <2>4. QED BY <2>2, <2>3
<1>4. Alternates(M)
  <2>1. SUFFICES ASSUME NEW p \in M, NEW q \in M, p.id < q.id, ~Between(p, q, M) PROVE p.kind # q.kind
    BY DEF Alternates
  <2>2. p \in N BY <2>1
  <2>3. CASE q \in N BY <2>1, <2>2, <2>3 DEF Flag, Alternates, Between
  <2>4. CASE q = x
    <3>1. Final(p, N) BY <2>1, <2>2, <2>4 DEF Between, Final
    <3>2. a <=> p.kind = "offline"
      <4>1. a <=> \E r \in N : Final(r, N) /\ r.kind = "offline" BY <2>2 DEF Flag
      <4>2. \A r \in N : Final(r, N) => r = p BY <2>2, <3>1 DEF Final
      <4>3. QED BY <2>2, <3>1, <4>1, <4>2
    <3>3. QED BY <2>4, <3>2
  <2>5. QED BY <2>3, <2>4
<1>5. (\E p \in M : Final(p, M) /\ p.kind = "offline") <=> ~a BY <1>1, <1>2
<1>6. M # {} OBVIOUS
<1>7. QED BY <1>3, <1>4, <1>5, <1>6 DEF Flag

LEMMA FlagDropped ==
  ASSUME NEW N, NewsSet(N), NEW t, NEW a \in BOOLEAN, Flag(N, t, a),
         NEW h \in N, \A p \in N : p # h => h.id < p.id
  PROVE  Flag(N \ {h}, h.kind, a)
<1> DEFINE M == N \ {h}
<1> USE DEF NewsSet
<1>1. Alternates(M)
  <2>1. SUFFICES ASSUME NEW p \in M, NEW q \in M, p.id < q.id, ~Between(p, q, M) PROVE p.kind # q.kind
    BY DEF Alternates
  <2>2. ~Between(p, q, N) BY <2>1 DEF Between
  <2>3. QED BY <2>1, <2>2 DEF Flag, Alternates
<1>2. ASSUME NEW p \in M, First(p, M) PROVE p.kind = IF h.kind = "offline" THEN "online" ELSE "offline"
  <2>1. ~Between(h, p, N) BY <1>2 DEF First, Between
  <2>2. h.kind # p.kind BY <1>2, <2>1 DEF Flag, Alternates
  <2>3. QED BY <2>2 DEF NodeKinds
<1>3. a <=> IF M = {} THEN h.kind = "offline" ELSE \E p \in M : Final(p, M) /\ p.kind = "offline"
  <2>1. a <=> \E p \in N : Final(p, N) /\ p.kind = "offline" BY DEF Flag
  <2>2. CASE M = {}
    <3>1. N = {h} BY <2>2
    <3>2. Final(h, N) BY <3>1 DEF Final
    <3>3. QED BY <2>1, <2>2, <3>1, <3>2
  <2>3. CASE M # {}
    <3>1. ~Final(h, N) BY <2>3 DEF Final
    <3>2. \A p \in M : Final(p, M) <=> Final(p, N) BY DEF Final
    <3>3. QED BY <2>1, <2>3, <3>1, <3>2
  <2>4. QED BY <2>2, <2>3
<1>4. QED BY <1>1, <1>2, <1>3 DEF Flag

\* The news of an edge, as the queue moves.
Said(p) == [id |-> p.id, kind |-> p.kind]
In(q, e, n, x) == \E k \in DOMAIN q : q[k].of = e /\ q[k].id # n /\ x = Said(q[k])

LEMMA NewsAre ==
  /\ \A e, x : x \in NewsOf(e) <=> In(queue, e, last.id, x)
  /\ \A e, x : x \in NewsOf(e)' <=> In(queue', e, last'.id, x)
  BY DEF NewsOf, Said, In

LEMMA NewsIsSet == ASSUME TypeOK, QueueInv, NEW e \in Edges PROVE NewsSet(NewsOf(e))
<1> queue \in Seq(Item) BY DEF TypeOK
<1>1. \A k \in DOMAIN queue : queue[k] \in Item /\ k \in Nat BY LenProperties, ElementOfSeq
<1>2. \A k \in DOMAIN queue : queue[k].of = e => queue[k].kind \in NodeKinds
  BY <1>1, DeploysAssumption DEF Item
<1>3. \A p \in NewsOf(e) : p.id \in Nat /\ p.kind \in NodeKinds BY <1>1, <1>2, ItemIs, NewsAre DEF Said, In
<1>4. \A j, k \in DOMAIN queue : queue[j].id = queue[k].id => j = k
  BY <1>1, ItemIs DEF QueueInv
<1>5. \A p, q \in NewsOf(e) : p.id = q.id => p = q BY <1>4, NewsAre DEF Said, In
<1>6. QED BY <1>3, <1>5 DEF NewsSet

\* Without its oldest item, the news of another edge is as it was.
LEMMA InTail ==
  ASSUME NEW q \in Seq(Item), q # <<>>, NEW e, Head(q).of # e, NEW n, NEW x
  PROVE  In(Tail(q), e, n, x) <=> In(q, e, n, x)
<1> DEFINE t == Tail(q)
<1>1. /\ Head(q) = q[1] /\ 1 \in DOMAIN q
      /\ \A k \in DOMAIN t : k + 1 \in DOMAIN q /\ t[k] = q[k + 1]
      /\ \A k \in DOMAIN q : k = 1 \/ (k - 1 \in DOMAIN t /\ q[k] = t[k - 1])
  BY Tailed
<1> HIDE DEF t
<1>2. In(t, e, n, x) <=> In(q, e, n, x) BY <1>1 DEF In
<1>3. QED BY <1>2 DEF t

\* ... and so is what is not numbered as its oldest item is.
LEMMA InRest ==
  ASSUME NEW q \in Seq(Item), q # <<>>, NEW e, NEW x
  PROVE  In(Tail(q), e, Head(q).id, x) <=> In(q, e, Head(q).id, x)
<1> DEFINE t == Tail(q)
<1>1. /\ Head(q) = q[1] /\ 1 \in DOMAIN q
      /\ \A k \in DOMAIN t : k + 1 \in DOMAIN q /\ t[k] = q[k + 1]
      /\ \A k \in DOMAIN q : k = 1 \/ (k - 1 \in DOMAIN t /\ q[k] = t[k - 1])
  BY Tailed
<1> HIDE DEF t
<1>2. In(t, e, q[1].id, x) <=> In(q, e, q[1].id, x) BY <1>1 DEF In
<1>3. QED BY <1>1, <1>2 DEF t

LEMMA InAppend ==
  ASSUME NEW q \in Seq(Item), NEW p \in Item, NEW e, NEW n, NEW x
  PROVE  In(Append(q, p), e, n, x) <=> In(q, e, n, x) \/ (p.of = e /\ p.id # n /\ x = Said(p))
  BY Appended DEF In

LEMMA NewsEnqueued ==
  ASSUME Hub, Chain, NEW p \in Item, p.id = count + 1, Enqueue(p), UNCHANGED last, NEW e \in Edges \ lossy'
  PROVE  /\ e \notin lossy
         /\ p.of # e => NewsOf(e)' = NewsOf(e)
         /\ p.of = e => NewsOf(e)' = NewsOf(e) \cup {Said(p)}
<1> USE DEF Hub
<1> queue \in Seq(Item) BY DEF TypeOK
<1> last' = last OBVIOUS
<1>0. p.id # last.id BY Counted DEF Chain, QueueInv
<1>1. CASE UNCHANGED queue /\ lossy' = lossy \cup (Edges \cap {p.of})
  <2>1. NewsOf(e)' = NewsOf(e) BY <1>1 DEF NewsOf
  <2>2. QED BY <1>1, <2>1
<1>2. CASE queue' = Append(queue, p) /\ lossy' = lossy
  <2>1. \A x : x \in NewsOf(e)' <=> x \in NewsOf(e) \/ (p.of = e /\ x = Said(p))
    BY <1>0, <1>2, InAppend, NewsAre
  <2>2. QED BY <1>2, <2>1
<1>3. CASE /\ queue # <<>> /\ queue' = Append(Tail(queue), p)
           /\ lossy' = lossy \cup (Edges \cap {Head(queue).of})
  <2>1. Tail(queue) \in Seq(Item) BY <1>3, Tailed
  <2>2. Head(queue).of # e BY <1>3
  <2>3. \A x : x \in NewsOf(e)' <=> x \in NewsOf(e) \/ (p.of = e /\ x = Said(p))
    BY <1>0, <1>3, <2>1, <2>2, InAppend, InTail, NewsAre
  <2>4. QED BY <1>3, <2>3
<1>4. QED BY <1>1, <1>2, <1>3, Enqueued

LEMMA TurnFlag ==
  ASSUME Hub, Chain, Flags, NEW e \in Edges, Offline(e) \/ Online(e) PROVE Flags'
<1> USE DEF Hub
<1>1. PICK kind \in NodeKinds :
        /\ News(kind, e) \in Item /\ News(kind, e).id = count + 1 /\ News(kind, e).of = e
        /\ News(kind, e).kind = kind /\ Enqueue(News(kind, e)) /\ UNCHANGED <<worker, last, told>>
        /\ kind = IF e \in alerted THEN "online" ELSE "offline"
        /\ alerted' = IF e \in alerted THEN alerted \ {e} ELSE alerted \cup {e}
  BY Turns
<1> DEFINE p == News(kind, e)
<1>2. p \in Item /\ p.id = count + 1 /\ p.of = e /\ p.kind = kind /\ Enqueue(p) /\ UNCHANGED <<last, told>>
  BY <1>1
<1> HIDE DEF p
<1>3. SUFFICES ASSUME NEW f \in Edges \ lossy' PROVE Flag(NewsOf(f)', told'[f], f \in alerted')
  BY DEF Flags, Flag, Alternates, Between, First, Final
<1>4. /\ f \notin lossy /\ Flag(NewsOf(f), told[f], f \in alerted)
      /\ p.of # f => NewsOf(f)' = NewsOf(f)
      /\ p.of = f => NewsOf(f)' = NewsOf(f) \cup {Said(p)}
  BY <1>2, NewsEnqueued DEF Flags
<1>5. CASE f # e
  <2>1. (f \in alerted') = (f \in alerted) BY <1>1, <1>5
  <2>2. QED BY <1>2, <1>4, <1>5, <2>1
<1>6. CASE f = e
  <2>1. (f \in alerted') = ~(f \in alerted) BY <1>1, <1>6
  <2>2. \A x \in NewsOf(f) : x.id < count + 1
    <3>1. \A k \in DOMAIN queue : queue[k].id <= count /\ queue[k].id \in Nat
      BY ItemIs, ElementOfSeq, LenProperties DEF Chain, QueueInv, TypeOK
    <3>2. count \in Nat BY Counted
    <3>3. QED BY <3>1, <3>2, NewsAre DEF Said, In
  <2>3. Said(p).id = count + 1 /\ Said(p).kind = kind /\ count + 1 \in Nat BY <1>2, Counted DEF Said
  <2>4. NewsSet(NewsOf(f)) BY NewsIsSet DEF Chain
  <2>5. Flag(NewsOf(f) \cup {Said(p)}, told[f], ~(f \in alerted))
    <3> DEFINE x == Said(p)
               a == f \in alerted
               N == NewsOf(f)
    <3>1. a \in BOOLEAN /\ Flag(N, told[f], a) /\ NewsSet(N) BY <1>4, <2>4
    <3>2. x.id \in Nat /\ \A y \in N : y.id < x.id BY <2>2, <2>3
    <3>3. x.kind = IF a THEN "online" ELSE "offline" BY <1>1, <1>6, <2>3
    <3> HIDE DEF x, a, N
    <3>4. Flag(N \cup {x}, told[f], ~a) BY <3>1, <3>2, <3>3, FlagAdded
    <3>5. QED BY <3>4 DEF x, a, N
  <2>6. QED BY <1>2, <1>4, <1>6, <2>1, <2>5
<1>7. QED BY <1>5, <1>6

\* What is queued of anyone but the one in delivery is newer than that.
LEMMA Elsewhere ==
  ASSUME Hub, Chain, Sending, NEW k \in DOMAIN queue, queue[k].of # worker.item.of
  PROVE  queue[k].id # worker.item.id /\ queue[k].id # last.id
<1> USE DEF Hub
<1>1. worker.item.id < queue[k].id \/ (k = 1 /\ queue[k].id = worker.item.id /\ StillHead) BY DEF SendInv
<1>2. ~(k = 1 /\ StillHead)
  <2>1. SUFFICES ASSUME k = 1, StillHead PROVE FALSE OBVIOUS
  <2>2. Head(queue) = queue[1] BY <2>1, Tailed DEF StillHead, TypeOK
  <2>3. QED BY <2>1, <2>2 DEF StillHead, SameKey
<1>3. worker.item.id \in Nat /\ queue[k].id \in Nat /\ last.id \in Nat
  BY SendingItem, ItemIs, ElementsAre, Counted DEF TypeOK
<1>4. last.id < worker.item.id \/ last.id = worker.item.id BY DEF SendInv, Unheard
<1>5. QED BY <1>1, <1>2, <1>3, <1>4

\* The backend accepts news: what is left of it is what is not numbered as the
\* item in delivery is.
LEMMA TakesFlag ==
  ASSUME Hub, Chain, Flags, NEW answered \in BOOLEAN, Takes(answered), UNCHANGED <<alerted, lossy>>,
         \A e \in Edges \ lossy : \A x : In(queue', e, worker.item.id, x) <=> In(queue, e, worker.item.id, x)
  PROVE  Flags'
<1> USE DEF Hub
<1> queue \in Seq(Item) BY DEF TypeOK
<1>1. SUFFICES ASSUME NEW e \in Edges \ lossy PROVE Flag(NewsOf(e)', told'[e], e \in alerted)
  BY DEF Flags, Flag, Alternates, Between, First, Final
<1>2. Flag(NewsOf(e), told[e], e \in alerted) BY DEF Flags
<1>3. /\ Sending /\ last'.id = worker.item.id
      /\ told' = [f \in Edges |-> IF f = worker.item.of THEN worker.item.kind ELSE told[f]]
  BY TakesIs DEF Takes
<1>4. \A x : x \in NewsOf(e)' <=> In(queue, e, worker.item.id, x) BY <1>3, NewsAre
<1>5. CASE e # worker.item.of
  <2>1. \A x : In(queue, e, worker.item.id, x) <=> In(queue, e, last.id, x)
    BY <1>3, <1>5, Elsewhere DEF In
  <2>2. NewsOf(e)' = NewsOf(e) BY <1>4, <2>1, NewsAre
  <2>3. told'[e] = told[e] BY <1>3, <1>5
  <2>4. QED BY <1>2, <2>2, <2>3
<1>6. CASE e = worker.item.of
  <2>1. told'[e] = worker.item.kind BY <1>3, <1>6
  <2>2. StillHead /\ Head(queue).id = worker.item.id BY <1>3, <1>6 DEF SendInv
  <2>3. /\ queue # <<>> /\ Head(queue) = queue[1] /\ 1 \in DOMAIN queue
        /\ queue[1].of = e /\ queue[1].kind = worker.item.kind
    BY <1>6, <2>2, Tailed DEF StillHead, SameKey
  <2>4. CASE last.id = worker.item.id
    <3>1. NewsOf(e)' = NewsOf(e) BY <1>4, <2>4, NewsAre
    <3>2. told[e] = worker.item.kind BY <1>3, <1>6, <2>4 DEF SendInv, LastIs
    <3>3. QED BY <1>2, <2>1, <3>1, <3>2
  <2>5. CASE last.id # worker.item.id
    <3> DEFINE h == Said(queue[1])
    <3>1. \A k \in DOMAIN queue : k = 1 \/ 1 < k BY LenProperties
    <3>2. \A k \in DOMAIN queue : queue[k].id \in Nat /\ (k = 1 \/ queue[1].id < queue[k].id)
      BY <2>3, <3>1, ElementsAre DEF Chain, QueueInv
    <3>3. \A k \in DOMAIN queue : last.id <= queue[k].id /\ last.id \in Nat BY Counted, QueueIs DEF Chain, Sorted
    <3>4. \A k \in DOMAIN queue : queue[k].id # last.id
      <4>1. last.id < queue[1].id BY <2>2, <2>3, <2>5, <3>2, <3>3
      <4>2. QED BY <2>2, <2>3, <2>5, <3>2, <3>3, <4>1
    <3>5. \A k \in DOMAIN queue : queue[k].id = worker.item.id <=> k = 1 BY <2>2, <2>3, <3>2
    <3>6. NewsOf(e)' = NewsOf(e) \ {h}
      <4>1. \A x : x \in NewsOf(e)' <=> x \in NewsOf(e) /\ x # h
        BY <1>4, <2>3, <3>4, <3>5, NewsAre DEF In, Said
      <4>2. QED BY <4>1
    <3>7. h \in NewsOf(e) /\ h.kind = worker.item.kind BY <2>3, <3>4, NewsAre DEF Said, In
    <3>8. \A x \in NewsOf(e) : x # h => h.id < x.id BY <3>2, NewsAre DEF Said, In
    <3>9. NewsSet(NewsOf(e)) BY NewsIsSet DEF Chain
    <3> HIDE DEF h
    <3>10. Flag(NewsOf(e) \ {h}, h.kind, e \in alerted)
      <4> DEFINE a == e \in alerted
                 N == NewsOf(e)
      <4>1. a \in BOOLEAN /\ Flag(N, told[e], a) /\ NewsSet(N) /\ h \in N BY <1>2, <3>7, <3>9
      <4>2. \A x \in N : x # h => h.id < x.id BY <3>8
      <4> HIDE DEF a, N
      <4>3. Flag(N \ {h}, h.kind, a) BY <4>1, <4>2, FlagDropped
      <4>4. QED BY <4>3 DEF a, N
    <3>11. QED BY <2>1, <3>6, <3>7, <3>10
  <2>6. QED BY <2>4, <2>5
<1>7. QED BY <1>5, <1>6

\* A delivery is over.
LEMMA PopIn ==
  ASSUME Hub, Sending, PopIf, NEW e \in Edges, NEW x
  PROVE  /\ e # worker.item.of => \A n : In(queue', e, n, x) <=> In(queue, e, n, x)
         /\ e \notin lossy => (In(queue', e, worker.item.id, x) <=> In(queue, e, worker.item.id, x))
<1> USE DEF Hub
<1> queue \in Seq(Item) BY DEF TypeOK
<1>1. CASE StillHead
  <2>1. queue # <<>> /\ queue' = Tail(queue) /\ Head(queue).of = worker.item.of
    BY <1>1 DEF PopIf, StillHead, SameKey
  <2>2. CASE e # worker.item.of BY <2>1, <2>2, InTail
  <2>3. CASE e = worker.item.of
    <3>1. e \notin lossy => Head(queue).id = worker.item.id BY <2>3 DEF SendInv
    <3>2. QED BY <2>1, <2>3, <3>1, InRest
  <2>4. QED BY <2>2, <2>3
<1>2. CASE ~StillHead BY <1>2 DEF PopIf
<1>3. QED BY <1>1, <1>2

LEMMA FlagStep == ASSUME Hub, Chain, Flags, [Next]_vars PROVE Flags'
<1> USE DEF Hub
<1> queue \in Seq(Item) BY DEF TypeOK
<1>1. ASSUME UNCHANGED told, lossy \subseteq lossy', \A e \in Edges \ lossy' : NewsOf(e)' = NewsOf(e),
             \A e \in Edges \ lossy' : (e \in alerted') = (e \in alerted)
      PROVE Flags'
  BY <1>1 DEF Flags, Flag, Alternates, Between, First, Final
<1>a. ASSUME Works PROVE UNCHANGED alerted
  BY <1>a, ByWorkerIs DEF Works, Wake, LastPass, Peek, Resolves, Delivers, Filters, FailsForGood, Fails, Sleeps, Quietly
<1>2. CASE Wake \/ LastPass \/ Peek \/ Resolves \/ Sleeps
  <2>1. UNCHANGED <<told, lossy, queue, last>>
    BY <1>2 DEF Wake, LastPass, Peek, Resolves, Sleeps, Quietly, losses
  <2>2. UNCHANGED alerted BY <1>2, <1>a DEF Works
  <2>3. QED BY <1>1, <2>1, <2>2 DEF NewsOf
<1>3. CASE (Delivers \/ FailsForGood) /\ UNCHANGED losses
  <2>1. PICK answered \in BOOLEAN : Takes(answered) \/ UNCHANGED <<last, told>> BY <1>3 DEF Delivers, FailsForGood
  <2>2. Sending /\ PopIf /\ UNCHANGED <<alerted, lossy>>
    BY <1>3, <1>a DEF Delivers, FailsForGood, Takes, CanFail, Sending, losses, Works
  <2>3. CASE Takes(answered) BY <2>2, <2>3, PopIn, TakesFlag
  <2>4. CASE ~Takes(answered)
    <3>1. (UNCHANGED <<last, told>> /\ Loses(worker.item.of)) \/ Takes(TRUE) \/ Takes(FALSE)
      BY <1>3 DEF Delivers, FailsForGood
    <3>2. CASE Takes(TRUE) BY <2>2, <3>2, PopIn, TakesFlag
    <3>3. CASE Takes(FALSE) BY <2>2, <3>3, PopIn, TakesFlag
    <3>4. CASE UNCHANGED <<last, told>> /\ Loses(worker.item.of)
      <4>1. ASSUME NEW e \in Edges \ lossy' PROVE NewsOf(e)' = NewsOf(e)
        <5>1. e # worker.item.of BY <3>4, <4>1 DEF Loses
        <5>2. \A x : x \in NewsOf(e)' <=> x \in NewsOf(e) BY <2>2, <3>4, <5>1, PopIn, NewsAre
        <5>3. QED BY <5>2
      <4>2. QED BY <1>1, <2>2, <3>4, <4>1
    <3>5. QED BY <3>1, <3>2, <3>3, <3>4
  <2>5. QED BY <2>3, <2>4
<1>4. CASE (Filters \/ FailsForGood) /\ UNCHANGED <<last, told>> /\ Loses(worker.item.of)
  <2>1. Sending /\ PopIf /\ UNCHANGED alerted /\ lossy \subseteq lossy'
    BY <1>4, <1>a DEF Filters, FailsForGood, CanFail, Sending, Loses, Works
  <2>2. ASSUME NEW e \in Edges \ lossy' PROVE NewsOf(e)' = NewsOf(e)
    <3>1. e # worker.item.of BY <1>4, <2>2 DEF Loses
    <3>2. \A x : x \in NewsOf(e)' <=> x \in NewsOf(e) BY <1>4, <2>1, <3>1, PopIn, NewsAre
    <3>3. QED BY <3>2
  <2>3. QED BY <1>1, <1>4, <2>1, <2>2
<1>5. CASE Fails
  <2>1. /\ DOMAIN queue' = DOMAIN queue
        /\ \A k \in DOMAIN queue : /\ queue'[k].id = queue[k].id /\ queue'[k].kind = queue[k].kind
                                   /\ queue'[k].of = queue[k].of
    BY <1>5, FailsType
  <2>2. \A e, n, x : In(queue', e, n, x) <=> In(queue, e, n, x) BY <2>1 DEF In, Said
  <2>3. UNCHANGED <<alerted, lossy>> BY <1>5, <1>a DEF Fails, losses, Works
  <2>4. CASE Takes(FALSE) BY <2>2, <2>3, <2>4, TakesFlag
  <2>5. CASE UNCHANGED <<last, told>>
    <3>1. \A e, x : x \in NewsOf(e)' <=> x \in NewsOf(e) BY <2>2, <2>5, NewsAre
    <3>2. ASSUME NEW e \in Edges \ lossy' PROVE NewsOf(e)' = NewsOf(e)
      <4>1. \A x : x \in NewsOf(e)' <=> x \in NewsOf(e) BY <3>1
      <4>2. QED BY <4>1
    <3>3. QED BY <1>1, <2>3, <2>5, <3>2
  <2>6. QED BY <1>5, <2>4, <2>5 DEF Fails
<1>6. CASE Quiet
  <2>1. UNCHANGED <<told, queue, last>> /\ lossy \subseteq lossy' BY <1>6, QuietIs
  <2>2. \A e \in Edges \ lossy' : (e \in alerted') = (e \in alerted)
    <3>1. CASE Reload BY <3>1 DEF Reload
    <3>2. CASE UNCHANGED <<watch, losses>> BY <3>2 DEF watch
    <3>3. QED BY <1>6, <3>1, <3>2, QuietIs
  <2>3. \A e, x : x \in NewsOf(e)' <=> x \in NewsOf(e) BY <2>1, NewsAre
  <2>4. ASSUME NEW e \in Edges \ lossy' PROVE NewsOf(e)' = NewsOf(e)
    <3>1. \A x : x \in NewsOf(e)' <=> x \in NewsOf(e) BY <2>3
    <3>2. QED BY <3>1
  <2>5. QED BY <1>1, <2>1, <2>2, <2>4
<1>7. ASSUME NEW d \in Deploys, NEW s \in Outcomes, Settle(d, s) PROVE Flags'
  <2>1. /\ News("deploy", d) \in Item /\ News("deploy", d).id = count + 1 /\ News("deploy", d).of = d
        /\ Enqueue(News("deploy", d)) /\ UNCHANGED <<watch, last, told>>
    BY <1>7, Produces
  <2>2. \A e \in Edges : d # e BY DeploysAssumption
  <2>3. \A e \in Edges \ lossy' : e \notin lossy /\ NewsOf(e)' = NewsOf(e) BY <2>1, <2>2, NewsEnqueued
  <2>4. UNCHANGED alerted BY <2>1 DEF watch
  <2>5. \A e \in Edges \ lossy' : Flag(NewsOf(e)', told'[e], e \in alerted') BY <2>1, <2>3, <2>4 DEF Flags
  <2>6. QED BY <2>5 DEF Flags, Flag, Alternates, Between, First, Final
<1>8. CASE \E e \in Edges : Offline(e) \/ Online(e) BY <1>8, TurnFlag
<1>9. CASE Works
  <2>1. Filters => UNCHANGED <<last, told>> /\ Loses(worker.item.of) BY DEF Filters
  <2>2. Delivers => UNCHANGED losses BY DEF Delivers
  <2>3. FailsForGood => UNCHANGED losses \/ (UNCHANGED <<last, told>> /\ Loses(worker.item.of)) BY DEF FailsForGood
  <2>4. QED BY <1>2, <1>3, <1>4, <1>5, <1>9, <2>1, <2>2, <2>3 DEF Works
<1>10. QED BY <1>6, <1>7, <1>8, <1>9 DEF Next, Quiet

\* The last word on an edge, as the queue moves.
LEMMA WordEnqueued ==
  ASSUME Hub, NEW p \in Item, Enqueue(p), UNCHANGED told, NEW e \in Edges \ spoiled'
  PROVE  /\ p.of = e => (LastWord(e, "offline")' <=> p.kind = "offline")
         /\ p.of # e => e \notin spoiled /\ (LastWord(e, "offline")' <=> LastWord(e, "offline"))
<1> USE DEF Hub
<1> queue \in Seq(Item) BY DEF TypeOK
<1>1. LastWord(e, "offline")' <=> IF Queued(queue', e) THEN EndsWith(queue', e, "offline") ELSE told[e] = "offline"
  BY DEF LastWord, Queued, EndsWith
<1>2. CASE UNCHANGED queue /\ spoiled' = spoiled \cup (Edges \cap {p.of})
  <2>1. p.of # e /\ e \notin spoiled BY <1>2
  <2>2. QED BY <1>1, <1>2, <2>1 DEF LastWord
<1>3. CASE queue' = Append(queue, p) /\ spoiled' = spoiled \ {p.of}
  <2>1. Queued(queue', e) <=> Queued(queue, e) \/ p.of = e BY <1>3, QueuedAppend
  <2>2. QED BY <1>1, <1>3, <2>1, EndsAppend DEF LastWord
<1>4. CASE /\ queue # <<>> /\ queue' = Append(Tail(queue), p)
           /\ spoiled' = (spoiled \ {p.of}) \cup {f \in Edges \cap {Head(queue).of} : ~Queued(queue', f)}
  <2>1. Tail(queue) \in Seq(Item) BY <1>4, Tailed
  <2>2. Queued(queue', e) <=> Queued(Tail(queue), e) \/ p.of = e BY <1>4, <2>1, QueuedAppend
  <2>3. CASE p.of = e BY <1>1, <1>4, <2>1, <2>2, <2>3, EndsAppend
  <2>4. CASE p.of # e
    <3>1. e \notin spoiled BY <1>4, <2>4
    <3>2. Queued(queue, e) <=> Head(queue).of = e \/ Queued(Tail(queue), e) BY <1>4, QueuedTail
    <3>3. Head(queue).of = e => Queued(Tail(queue), e) BY <1>4, <2>2, <2>4
    <3>4. EndsWith(queue', e, "offline") <=> EndsWith(Tail(queue), e, "offline") BY <1>4, <2>1, <2>4, EndsAppend
    <3>5. Queued(Tail(queue), e) => (EndsWith(Tail(queue), e, "offline") <=> EndsWith(queue, e, "offline"))
      BY <1>4, EndsTail
    <3>6. QED BY <1>1, <2>2, <2>4, <3>1, <3>2, <3>3, <3>4, <3>5 DEF LastWord
  <2>5. QED BY <2>3, <2>4
<1>5. QED BY <1>2, <1>3, <1>4, Enqueued

\* ... when a delivery is over, ...
LEMMA WordPopped ==
  ASSUME Hub, Sending, PopIf, NEW e \in Edges \ spoiled,
         \/ e = worker.item.of /\ told'[e] = worker.item.kind
         \/ (e = worker.item.of => Queued(queue', e)) /\ told'[e] = told[e]
  PROVE  LastWord(e, "offline")' <=> LastWord(e, "offline")
<1> USE DEF Hub
<1> queue \in Seq(Item) BY DEF TypeOK
<1>1. LastWord(e, "offline")' <=> IF Queued(queue', e) THEN EndsWith(queue', e, "offline") ELSE told'[e] = "offline"
  BY DEF LastWord, Queued, EndsWith
<1>2. e = worker.item.of => Queued(queue, e) BY DEF SendInv
<1>3. CASE StillHead
  <2>1. /\ queue # <<>> /\ queue' = Tail(queue)
        /\ Head(queue).of = worker.item.of /\ Head(queue).kind = worker.item.kind
    BY <1>3 DEF PopIf, StillHead, SameKey
  <2>2. Queued(queue, e) <=> Head(queue).of = e \/ Queued(queue', e) BY <2>1, QueuedTail
  <2>3. Queued(queue', e) => (EndsWith(queue', e, "offline") <=> EndsWith(queue, e, "offline")) BY <2>1, EndsTail
  <2>4. Head(queue).of = e /\ ~Queued(queue', e)
           => (EndsWith(queue, e, "offline") <=> Head(queue).kind = "offline")
    BY <2>1, EndsTail
  <2>5. CASE Queued(queue', e) BY <1>1, <2>2, <2>3, <2>5 DEF LastWord
  <2>6. CASE ~Queued(queue', e) /\ e = worker.item.of
    <3>1. told'[e] = worker.item.kind BY <2>6
    <3>2. QED BY <1>1, <2>1, <2>2, <2>4, <2>6, <3>1 DEF LastWord
  <2>7. CASE ~Queued(queue', e) /\ e # worker.item.of BY <1>1, <2>1, <2>2, <2>7 DEF LastWord
  <2>8. QED BY <2>5, <2>6, <2>7
<1>4. CASE ~StillHead
  <2>1. queue' = queue BY <1>4 DEF PopIf
  <2>2. QED BY <1>1, <1>2, <2>1 DEF LastWord
<1>5. QED BY <1>3, <1>4

\* ... and when it is put off.
LEMMA WordFailed ==
  ASSUME Hub, Fails, NEW e \in Edges \ spoiled
  PROVE  LastWord(e, "offline")' <=> LastWord(e, "offline")
<1> USE DEF Hub
<1>1. /\ DOMAIN queue' = DOMAIN queue
      /\ \A k \in DOMAIN queue : queue'[k].kind = queue[k].kind /\ queue'[k].of = queue[k].of
  BY FailsType
<1>2. LastWord(e, "offline")' <=> IF Queued(queue', e) THEN EndsWith(queue', e, "offline") ELSE told'[e] = "offline"
  BY DEF LastWord, Queued, EndsWith
<1>3. /\ Queued(queue', e) <=> Queued(queue, e)
      /\ EndsWith(queue', e, "offline") <=> EndsWith(queue, e, "offline")
  BY <1>1 DEF Queued, EndsWith
<1>4. Queued(queue, e) \/ told'[e] = told[e]
  <2>1. e = worker.item.of => Queued(queue, e) BY DEF SendInv, Fails, CanFail, Sending
  <2>2. e # worker.item.of => told'[e] = told[e] BY DEF Fails, Takes
  <2>3. QED BY <2>1, <2>2
<1>5. QED BY <1>2, <1>3, <1>4 DEF LastWord

LEMMA WordStep == ASSUME Hub, Words, [Next]_vars PROVE Words'
<1> USE DEF Hub
<1>1. ASSUME \A e \in Edges \ spoiled' : /\ e \notin spoiled /\ (e \in alerted') = (e \in alerted)
                                         /\ LastWord(e, "offline")' <=> LastWord(e, "offline")
      PROVE Words'
  <2>1. ASSUME NEW e \in Edges \ spoiled' PROVE (e \in alerted') <=> LastWord(e, "offline")'
    BY <1>1, <2>1 DEF Words
  <2>2. QED BY <2>1 DEF Words
<1>a. ASSUME Works PROVE UNCHANGED alerted
  BY <1>a, ByWorkerIs DEF Works, Wake, LastPass, Peek, Resolves, Delivers, Filters, FailsForGood, Fails, Sleeps, Quietly
<1>2. CASE Wake \/ LastPass \/ Peek \/ Resolves \/ Sleeps
  <2>1. UNCHANGED <<told, spoiled, queue>>
    BY <1>2 DEF Wake, LastPass, Peek, Resolves, Sleeps, Quietly, losses
  <2>2. UNCHANGED alerted BY <1>2, <1>a DEF Works
  <2>3. QED BY <1>1, <2>1, <2>2 DEF LastWord
<1>3. CASE Delivers \/ Filters \/ FailsForGood
  <2>1. /\ Sending /\ PopIf /\ UNCHANGED alerted
        /\ \/ Takes(TRUE) /\ UNCHANGED spoiled
           \/ Takes(FALSE) /\ UNCHANGED spoiled
           \/ UNCHANGED told /\ Loses(worker.item.of)
    BY <1>3, <1>a DEF Delivers, Filters, FailsForGood, CanFail, Takes, Sending, losses, Works
  <2>2. ASSUME NEW e \in Edges \ spoiled'
        PROVE  e \notin spoiled /\ (LastWord(e, "offline")' <=> LastWord(e, "offline"))
    <3>1. CASE (Takes(TRUE) \/ Takes(FALSE)) /\ UNCHANGED spoiled
      <4>1. told'[e] = IF e = worker.item.of THEN worker.item.kind ELSE told[e] BY <3>1 DEF Takes
      <4>2. QED BY <2>1, <2>2, <3>1, <4>1, WordPopped
    <3>2. CASE UNCHANGED told /\ Loses(worker.item.of)
      <4>1. e \notin spoiled /\ (e = worker.item.of => Queued(queue', e)) BY <2>2, <3>2 DEF Loses
      <4>2. QED BY <2>1, <2>2, <3>2, <4>1, WordPopped
    <3>3. QED BY <2>1, <3>1, <3>2
  <2>3. QED BY <1>1, <2>1, <2>2
<1>4. CASE Fails
  <2>1. UNCHANGED <<alerted, spoiled>> BY <1>4, <1>a DEF Fails, losses, Works
  <2>2. QED BY <1>1, <1>4, <2>1, WordFailed
<1>5. CASE Quiet
  <2>1. UNCHANGED <<told, queue>> /\ spoiled \subseteq spoiled' BY <1>5, QuietIs
  <2>2. \A e \in Edges \ spoiled' : (e \in alerted') = (e \in alerted)
    <3>1. CASE Reload BY <3>1 DEF Reload
    <3>2. CASE UNCHANGED <<watch, losses>> BY <3>2 DEF watch
    <3>3. QED BY <1>5, <3>1, <3>2, QuietIs
  <2>3. QED BY <1>1, <2>1, <2>2 DEF LastWord
<1>6. ASSUME NEW d \in Deploys, NEW s \in Outcomes, Settle(d, s) PROVE Words'
  <2>1. /\ News("deploy", d) \in Item /\ News("deploy", d).of = d
        /\ Enqueue(News("deploy", d)) /\ UNCHANGED <<watch, told>>
    BY <1>6, Produces
  <2>2. \A e \in Edges : d # e BY DeploysAssumption
  <2>3. UNCHANGED alerted BY <2>1 DEF watch
  <2>4. QED BY <1>1, <2>1, <2>2, <2>3, WordEnqueued
<1>7. ASSUME NEW e \in Edges, Offline(e) \/ Online(e) PROVE Words'
  <2>1. PICK kind \in NodeKinds :
          /\ News(kind, e) \in Item /\ News(kind, e).of = e /\ News(kind, e).kind = kind
          /\ Enqueue(News(kind, e)) /\ UNCHANGED told
          /\ kind = IF e \in alerted THEN "online" ELSE "offline"
          /\ alerted' = IF e \in alerted THEN alerted \ {e} ELSE alerted \cup {e}
    BY <1>7, Turns
  <2> DEFINE p == News(kind, e)
  <2>2. p \in Item /\ p.of = e /\ p.kind = kind /\ Enqueue(p) BY <2>1
  <2> HIDE DEF p
  <2>3. ASSUME NEW f \in Edges \ spoiled' PROVE (f \in alerted') <=> LastWord(f, "offline")'
    <3>1. CASE f = e
      <4>1. LastWord(f, "offline")' <=> kind = "offline" BY <2>1, <2>2, <2>3, <3>1, WordEnqueued
      <4>2. (f \in alerted') <=> kind = "offline" BY <2>1, <3>1
      <4>3. QED BY <4>1, <4>2
    <3>2. CASE f # e
      <4>1. f \notin spoiled /\ (LastWord(f, "offline")' <=> LastWord(f, "offline"))
        BY <2>1, <2>2, <2>3, <3>2, WordEnqueued
      <4>2. (f \in alerted') <=> (f \in alerted) BY <2>1, <3>2
      <4>3. QED BY <4>1, <4>2 DEF Words
    <3>3. QED BY <3>1, <3>2
  <2>4. QED BY <2>3 DEF Words
<1>8. QED BY <1>2, <1>3, <1>4, <1>5, <1>6, <1>7 DEF Next, Quiet, Works

\* Both together.
LEMMA FlagsAreTrue == ASSUME Flags, Words PROVE FlagMatchesNews
  BY DEF Flags, Words, Flag, FlagMatchesNews

-----------------------------------------------------------------------------
(* The history of the service                                               *)

\* Of a set of numbers with at least k members, at least k are exceeded by fewer
\* than k.
LEMMA TopK ==
  ASSUME NEW S \in SUBSET Nat, IsFiniteSet(S), NEW k \in Nat, Cardinality(S) >= k
  PROVE  Cardinality({x \in S : Cardinality({y \in S : y > x}) < k}) >= k
<1> DEFINE Over(x) == {y \in S : y > x}
           T == {x \in S : Cardinality(Over(x)) < k}
           C == {Cardinality(Over(x)) : x \in S \ T}
           R == OpToRel(<, Nat)
<1>0. SUFFICES Cardinality(T) >= k OBVIOUS
<1>1. \A x : IsFiniteSet(Over(x)) /\ Cardinality(Over(x)) \in Nat
  <2>1. \A x : Over(x) \in SUBSET S OBVIOUS
  <2>2. QED BY <2>1, FS_Subset, FS_CardinalityType
<1>2. T \in SUBSET S /\ IsFiniteSet(T) /\ Cardinality(T) \in Nat
  <2>1. T \in SUBSET S OBVIOUS
  <2>2. QED BY <2>1, FS_Subset, FS_CardinalityType
<1> HIDE DEF T
<1>3. CASE T = S BY <1>3
<1>4. CASE T # S
  <2>1. C \in SUBSET Nat /\ C # {} BY <1>1, <1>2, <1>4
  <2>2. IsWellFoundedOn(R, Nat) BY NatLessThanWellFounded
  <2> HIDE DEF C, R
  <2>3. PICK z \in C : \A y \in C : ~(<<y, z>> \in R) BY <2>1, <2>2, WFMin
  <2>4. PICK x \in S \ T : z = Cardinality(Over(x)) BY <2>3 DEF C
  <2>5. Cardinality(Over(x)) >= k BY <1>1, <2>4 DEF T
  <2>6. Over(x) \in SUBSET T
    <3>1. SUFFICES ASSUME NEW y \in Over(x), y \notin T PROVE FALSE OBVIOUS
    <3>2. y \in S /\ y > x /\ x \in S /\ x \in Nat /\ y \in Nat BY <2>4, <3>1
    <3>3. Over(y) \in SUBSET Over(x) /\ y \notin Over(y) /\ y \in Over(x)
      <4>1. \A w \in S : w > y => w > x BY <3>2
      <4>2. ~(y > y) BY <3>2
      <4>3. QED BY <3>2, <4>1, <4>2
    <3>4. Cardinality(Over(y)) <= Cardinality(Over(x)) /\ Cardinality(Over(y)) # Cardinality(Over(x))
      BY <1>1, <3>3, FS_Subset
    <3>5. Cardinality(Over(y)) \in C BY <3>1, <3>2 DEF C
    <3>6. Cardinality(Over(y)) < z BY <1>1, <2>4, <3>4
    <3>7. <<Cardinality(Over(y)), z>> \in R BY <1>1, <2>4, <3>6 DEF R, OpToRel
    <3>8. QED BY <2>3, <3>5, <3>7
  <2>7. Cardinality(Over(x)) <= Cardinality(T) BY <1>2, <2>6, FS_Subset
  <2>8. QED BY <1>1, <1>2, <2>5, <2>7
<1>5. QED BY <1>3, <1>4

LEMMA RowsAre == /\ Rows \subseteq Deploys /\ IsFiniteSet(Rows)
                 /\ \A S \in SUBSET Rows : IsFiniteSet(S) /\ Cardinality(S) \in Nat
                                           /\ Cardinality(S) <= Cardinality(Rows)
<1>1. Rows \subseteq Deploys BY DEF Rows
<1>2. IsFiniteSet(Rows) BY <1>1, DeploysAssumption, FS_Subset
<1>3. QED BY <1>1, <1>2, FS_Subset, FS_CardinalityType

\* The windows are what is newest.
LEMMA NewestUp ==
  ASSUME NEW k \in Nat, NEW c \in Newest(k), NEW b \in Rows, b > c
  PROVE  b \in Newest(k)
<1> DEFINE B == {e \in Rows : e > b}
           C == {e \in Rows : e > c}
<1>1. c \in Rows /\ Cardinality(C) < k BY DEF Newest
<1>2. \A e \in Rows : e \in Nat BY RowsAre, DeploysAssumption
<1>3. B \in SUBSET C BY <1>1, <1>2
<1>4. IsFiniteSet(C) /\ Cardinality(C) \in Nat /\ Cardinality(B) \in Nat BY <1>3, RowsAre
<1>5. Cardinality(B) <= Cardinality(C) BY <1>3, <1>4, FS_Subset
<1>6. Cardinality(B) < k BY <1>1, <1>4, <1>5
<1>7. QED BY <1>6 DEF Newest

LEMMA AllNewest ==
  ASSUME NEW k \in Nat, Cardinality(Rows) <= k PROVE Newest(k) = Rows
<1>1. ASSUME NEW d \in Rows PROVE d \in Newest(k)
  <2> DEFINE D == {e \in Rows : e > d}
  <2>1. d \in Nat BY RowsAre, DeploysAssumption
  <2>2. D \in SUBSET Rows /\ d \notin D BY <2>1
  <2>3. Cardinality(D) # Cardinality(Rows) BY <2>2, RowsAre, FS_Subset
  <2>4. Cardinality(D) \in Nat /\ Cardinality(Rows) \in Nat /\ Cardinality(D) <= Cardinality(Rows)
    BY <2>2, RowsAre
  <2>5. Cardinality(D) < k BY <2>3, <2>4
  <2>6. QED BY <2>5 DEF Newest
<1>2. QED BY <1>1 DEF Newest

\* Past what is kept there are as many newer ones.
LEMMA Surpassed ==
  ASSUME NEW S \in SUBSET Deploys
  PROVE  IsFiniteSet(S) /\ Cardinality(S) \in Nat /\ \A T \in SUBSET S : Cardinality(T) <= Cardinality(S)
<1>1. IsFiniteSet(S) BY DeploysAssumption, FS_Subset
<1>2. QED BY <1>1, FS_Subset, FS_CardinalityType

LEMMA KeepsEnough ==
  ASSUME NEW b \in Deploys, Cardinality({e \in Rows : e > b}) >= Keep, NEW Q \in SUBSET Deploys,
         Newest(Keep) \subseteq Q
  PROVE  Cardinality({e \in Q : e > b}) >= Keep
<1> DEFINE S == {e \in Rows : e > b}
           T == {x \in S : Cardinality({y \in S : y > x}) < Keep}
           U == {e \in Q : e > b}
<1>1. S \in SUBSET Nat /\ S \in SUBSET Deploys /\ b \in Nat BY RowsAre, DeploysAssumption
<1>2. Cardinality(T) >= Keep BY <1>1, Surpassed, TopK, Bounds
<1>3. \A x \in T : x \in Newest(Keep)
  <2>1. SUFFICES ASSUME NEW x \in T PROVE x \in Newest(Keep) OBVIOUS
  <2>2. x \in Rows /\ x > b /\ x \in Nat BY <1>1, <2>1
  <2>3. {y \in S : y > x} = {y \in Rows : y > x}
    <3>1. \A y \in Rows : y > x => y > b BY <1>1, <2>2, RowsAre, DeploysAssumption
    <3>2. QED BY <3>1
  <2>4. QED BY <2>1, <2>2, <2>3 DEF Newest
<1>4. T \in SUBSET U /\ U \in SUBSET Deploys BY <1>1, <1>3
<1>5. Cardinality(T) <= Cardinality(U) /\ Cardinality(T) \in Nat /\ Cardinality(U) \in Nat
  <2>1. T \in SUBSET Deploys BY <1>1
  <2>2. QED BY <1>4, <2>1, Surpassed
<1>6. QED BY <1>2, <1>5, Bounds

\* How a step changes the history: a deploy that has ended stays as it is, one
\* that ends after a newer one succeeded is marked, and no row comes back.
Stays(c) == row'[c] = row[c] \/ (row[c] \in Open /\ row'[c] \in Open \cup {"superseded"})

HistoryMoves ==
  /\ \A c \in Deploys : Ended(c) => row'[c] = row[c]
  /\ \A d \in Deploys \ overtaken' : row[d] = "succeeded" => \A c \in Older(d) : Stays(c)
  /\ overtaken \subseteq overtaken' /\ reclaimed \subseteq reclaimed'
  /\ \A c \in Deploys : row[c] # "none" => row'[c] # "none"

LEMMA HistoryStep == ASSUME Hub, [Next]_vars PROVE HistoryMoves
<1> USE DEF Hub
<1>1. ASSUME UNCHANGED <<row, overtaken>>, reclaimed \subseteq reclaimed' PROVE HistoryMoves
  BY <1>1 DEF HistoryMoves, Stays
<1>2. CASE Works \/ Reclaim \/ Reload \/ Stop \/ Stopped \/ UNCHANGED vars
  BY <1>1, <1>2 DEF Works, Wake, LastPass, Peek, Resolves, Delivers, Filters, FailsForGood, Fails, Sleeps, Quietly,
     ByWorker, Reclaim, Reload, ByWatcher, Stop, Stopped, vars, history
<1>3. ASSUME NEW d \in Deploys, Create(d) \/ Supersede(d) PROVE HistoryMoves
  <2>1. PICK state \in {"moving", "superseded"} : Becomes(d, state) BY <1>3 DEF Create, Supersede
  <2>2. state \in States BY DEF States, Open
  <2>3. row'[d] = state /\ \A c \in Deploys : c # d => row'[c] = row[c] BY <2>1, <2>2, BecomesOne
  <2>4. row[d] \in Open /\ UNCHANGED <<overtaken, reclaimed>>
    BY <1>3 DEF Create, Supersede, Open, ByDeploy
  <2>5. \A c \in Deploys : Stays(c) /\ (Ended(c) => row'[c] = row[c]) /\ (row[c] # "none" => row'[c] # "none")
    BY <2>3, <2>4 DEF Stays, Open, Ended
  <2>6. QED BY <2>4, <2>5 DEF HistoryMoves, Older
<1>4. ASSUME NEW d \in Deploys, NEW s \in Outcomes, Settle(d, s) PROVE HistoryMoves
  <2>1. row'[d] = s /\ \A c \in Deploys : c # d => row'[c] = row[c]
    BY <1>4, BecomesOne DEF Settle, States
  <2>2. row[d] = "moving" /\ s # "none" /\ UNCHANGED reclaimed
    BY <1>4, OutcomesAssumption DEF Settle, Bad, ByDeploy
  <2>3. overtaken' = overtaken \cup {e \in Deploys : e > d /\ row[e] = "succeeded"} BY <1>4 DEF Settle
  <2>4. ASSUME NEW e \in Deploys \ overtaken', row[e] = "succeeded", NEW c \in Older(e) PROVE Stays(c)
    <3>1. c \in Deploys /\ c # d BY <2>3, <2>4, DeploysAssumption DEF Older
    <3>2. QED BY <2>1, <3>1 DEF Stays
  <2>5. \A c \in Deploys : (Ended(c) => row'[c] = row[c]) /\ (row[c] # "none" => row'[c] # "none")
    BY <2>1, <2>2 DEF Ended, Open
  <2>6. QED BY <2>2, <2>3, <2>4, <2>5 DEF HistoryMoves
<1>5. ASSUME NEW e \in Edges, Offline(e) \/ Online(e) PROVE HistoryMoves
  BY <1>1, <1>5 DEF Offline, Online, Announces, ByWatcher, history
<1>6. QED BY <1>2, <1>3, <1>4, <1>5 DEF Next

LEMMA KeepStep == ASSUME Hub, TypeOK', KeepInv, [Next]_vars PROVE KeepInv'
<1> USE DEF Hub
<1>1. Rows' \in SUBSET Deploys /\ reclaimed' \in SUBSET Deploys /\ reclaimed \in SUBSET Deploys
  BY DEF Rows, TypeOK
<1>2. KeepInv' <=> \A b \in reclaimed' : Cardinality({e \in Rows' : e > b}) >= Keep BY DEF KeepInv
<1>3. CASE Reclaim
  <2>1. /\ UNCHANGED row
        /\ \A x : x \in reclaimed' <=> x \in reclaimed \/ (x \in Rows \ Newest(Keep) /\ Ended(x))
    BY <1>3 DEF Reclaim
  <2>2. Newest(Keep) \subseteq Rows' BY <2>1 DEF Newest, Rows
  <2>3. ASSUME NEW b \in reclaimed' PROVE b \in Deploys /\ Cardinality({e \in Rows : e > b}) >= Keep
    <3>1. CASE b \in reclaimed BY <1>1, <3>1 DEF KeepInv
    <3>2. CASE b \in Rows \ Newest(Keep)
      <4>1. {e \in Rows : e > b} \in SUBSET Rows OBVIOUS
      <4>2. Cardinality({e \in Rows : e > b}) \in Nat BY <4>1, RowsAre
      <4>3. QED BY <3>2, <4>2, RowsAre, Bounds DEF Newest
    <3>3. QED BY <2>1, <3>1, <3>2
  <2>4. QED BY <1>1, <1>2, <2>2, <2>3, KeepsEnough
<1>4. CASE UNCHANGED reclaimed
  <2>1. Rows \subseteq Rows' BY <1>4, HistoryStep DEF HistoryMoves, Rows
  <2>2. ASSUME NEW b \in reclaimed PROVE Cardinality({e \in Rows' : e > b}) >= Keep
    <3> DEFINE P == {e \in Rows : e > b}
               Q == {e \in Rows' : e > b}
    <3>1. Cardinality(P) >= Keep BY <2>2 DEF KeepInv
    <3>2. P \in SUBSET Q /\ P \in SUBSET Deploys /\ Q \in SUBSET Deploys BY <1>1, <2>1, RowsAre
    <3>3. Cardinality(P) <= Cardinality(Q) /\ Cardinality(P) \in Nat /\ Cardinality(Q) \in Nat BY <3>2, Surpassed
    <3>4. QED BY <3>1, <3>3, Bounds
  <2>3. QED BY <1>2, <1>4, <2>2
<1>5. Reclaim \/ UNCHANGED reclaimed
  <2>1. CASE Works \/ Reload \/ Stop \/ Stopped
    BY <2>1 DEF Works, Wake, LastPass, Peek, Resolves, Delivers, Filters, FailsForGood, Fails, Sleeps, Quietly,
       ByWorker, Reload, ByWatcher, Stop, Stopped, vars, history
  <2>2. CASE \E e \in Edges : Offline(e) \/ Online(e) BY <2>2 DEF Offline, Online, Announces, ByWatcher, history
  <2>3. CASE \E d \in Deploys : Create(d) \/ Supersede(d) BY <2>3 DEF Create, Supersede, ByDeploy
  <2>4. CASE \E d \in Deploys, s \in Outcomes : Settle(d, s) BY <2>4 DEF Settle, ByDeploy
  <2>5. QED BY <2>1, <2>2, <2>3, <2>4 DEF Next, vars, history
<1>6. QED BY <1>3, <1>4, <1>5

\* What is in the window is read as it is: no row that is missing is newer.
LEMMA RecoveredWas ==
  ASSUME TypeOK, KeepInv, NEW d \in Deploys, Recovered(d) PROVE BrokenBefore(d)
<1> DEFINE L == Newest(Lookback)
<1>1. PICK c \in L \cap Older(d) : row[c] \in Bad /\ \A b \in L \cap Older(d) : b > c => ~Says(b)
  BY DEF Recovered
<1>2. c \in Rows /\ c \in Older(d) /\ c \in Nat /\ Cardinality({e \in Rows : e > c}) < Lookback
  BY <1>1, RowsAre, DeploysAssumption DEF Newest
<1>3. ASSUME NEW b \in Older(d), b > c PROVE row[b] \in Open \cup {"superseded"}
  <2>1. b \in Deploys /\ b \in Nat BY DeploysAssumption DEF Older
  <2>2. b \notin reclaimed
    <3>1. SUFFICES ASSUME b \in reclaimed PROVE FALSE OBVIOUS
    <3> DEFINE P == {e \in Rows : e > b}
               Q == {e \in Rows : e > c}
    <3>2. Cardinality(P) >= Keep BY <3>1 DEF KeepInv
    <3>3. P \in SUBSET Q /\ Q \in SUBSET Deploys /\ P \in SUBSET Deploys
      <4>1. \A e \in Rows : e \in Deploys /\ (e > b => e > c)
        BY <1>2, <1>3, <2>1, RowsAre, DeploysAssumption
      <4>2. QED BY <4>1
    <3>4. Cardinality(P) <= Cardinality(Q) /\ Cardinality(P) \in Nat /\ Cardinality(Q) \in Nat BY <3>3, Surpassed
    <3>5. QED BY <1>2, <3>2, <3>4, Bounds
  <2>3. CASE row[b] = "none" BY <2>3 DEF Open
  <2>4. CASE row[b] # "none"
    <3>1. b \in Rows BY <2>1, <2>2, <2>4 DEF Rows
    <3>2. b \in L BY <1>1, <1>3, <3>1, NewestUp, Bounds
    <3>3. ~Says(b) BY <1>1, <1>3, <3>2
    <3>4. row[b] \in Outcomes \cup Open \cup {"superseded"} BY <2>1 DEF TypeOK
    <3>5. QED BY <3>3, <3>4, OutcomesAssumption DEF Says
  <2>5. QED BY <2>3, <2>4
<1>4. QED BY <1>1, <1>2, <1>3 DEF BrokenBefore

LEMMA BrokenIsRecovered ==
  ASSUME TypeOK, KeepInv, NEW d \in Deploys, row[d] = "succeeded", d \notin reclaimed, BrokenBefore(d),
         Cardinality(Rows \cup reclaimed) <= Lookback
  PROVE  Recovered(d)
<1> DEFINE A == Rows \cup reclaimed
<1>0. A \in SUBSET Deploys /\ Rows \in SUBSET A BY RowsAre DEF TypeOK
<1>1. reclaimed = {}
  <2>1. SUFFICES ASSUME NEW b \in reclaimed PROVE FALSE OBVIOUS
  <2> DEFINE P == {e \in Rows : e > b}
  <2>2. b \in Nat BY <1>0, DeploysAssumption
  <2>3. P \in SUBSET A /\ b \in A /\ b \notin P BY <2>2
  <2>4. Cardinality(P) >= Keep BY <2>1 DEF KeepInv
  <2>5. Cardinality(P) <= Cardinality(A) /\ Cardinality(P) # Cardinality(A)
        /\ Cardinality(P) \in Nat /\ Cardinality(A) \in Nat
    <3>1. P \in SUBSET Deploys BY <1>0, <2>3
    <3>2. IsFiniteSet(A) BY <1>0, Surpassed
    <3>3. P # A BY <2>3
    <3>4. QED BY <1>0, <2>3, <3>1, <3>2, <3>3, Surpassed, FS_Subset
  <2>6. QED BY <2>4, <2>5, Bounds
<1>2. Newest(Lookback) = Rows BY <1>1, AllNewest, Bounds
<1>3. PICK c \in Older(d) : row[c] \in Bad /\ \A b \in Older(d) : b > c => row[b] \in Open \cup {"superseded"}
  BY DEF BrokenBefore
<1>4. c \in Rows /\ d \in Rows BY <1>1, <1>3 DEF Rows, Older, Bad
<1>5. \A b \in Older(d) : b > c => ~Says(b) BY <1>3 DEF Says, Bad, Open
<1>6. QED BY <1>2, <1>3, <1>4, <1>5 DEF Recovered

\* What is worth telling is told as it should be, ...
LEMMA ResolvesFairly ==
  ASSUME TypeOK, KeepInv, NEW p \in Item, Worthy(p)
  PROVE  Tells(Kind(p), p.of) /\ Earned(Kind(p), p.of)
<1>1. CASE Kind(p) \notin {"recovered", "succeeded"} BY <1>1 DEF Tells, Earned
<1>2. CASE Kind(p) \in {"recovered", "succeeded"}
  <2> DEFINE d == p.of
  <2>1. p.kind = "deploy" /\ d \in Deploys BY <1>2 DEF Item, Kind, NodeKinds
  <2>2. Kind(p) = Classified(d) /\ d \notin reclaimed BY <2>1 DEF Kind, Worthy, Gone
  <2>3. row[d] \in Outcomes \cup Open \cup {"superseded"} BY <2>1 DEF TypeOK
  <2>4. row[d] # "recovered" BY <2>3, OutcomesAssumption DEF Bad, Open
  <2>5. row[d] = "succeeded" /\ (Kind(p) = "recovered" <=> Recovered(d))
    BY <1>2, <2>2, <2>4 DEF Classified
  <2>6. Kind(p) = "recovered" => BrokenBefore(d) BY <2>1, <2>5, RecoveredWas
  <2>7. Kind(p) = "succeeded" /\ Cardinality(Rows \cup reclaimed) <= Lookback => ~BrokenBefore(d)
    BY <2>1, <2>2, <2>5, BrokenIsRecovered
  <2>8. QED BY <2>1, <2>5, <2>6, <2>7 DEF Tells, Earned
<1>3. QED BY <1>1, <1>2

\* ... and stays so.
LEMMA EarnedStep ==
  ASSUME Hub, TypeOK', [Next]_vars, NEW kind, NEW d, Tells(kind, d), Earned(kind, d)
  PROVE  Tells(kind, d)' /\ Earned(kind, d)'
<1> USE DEF Hub
<1>1. CASE kind \notin {"recovered", "succeeded"} BY <1>1 DEF Tells, Earned
<1>2. CASE kind \in {"recovered", "succeeded"}
  <2>1. d \in Deploys /\ row[d] = "succeeded" BY <1>2 DEF Tells
  <2>2. row'[d] = "succeeded" BY <2>1, HistoryStep DEF HistoryMoves, Ended, Open
  <2>3. ASSUME d \notin overtaken'
        PROVE  d \notin overtaken /\ (BrokenBefore(d)' <=> BrokenBefore(d))
    <3>1. d \notin overtaken BY <2>3, HistoryStep DEF HistoryMoves
    <3>2. \A c \in Older(d) : Stays(c) BY <2>1, <2>3, HistoryStep DEF HistoryMoves
    <3>3. \A c \in Older(d) : /\ row'[c] \in Bad <=> row[c] \in Bad
                              /\ row'[c] \in Open \cup {"superseded"} <=> row[c] \in Open \cup {"superseded"}
      BY <3>2 DEF Stays, Open, Bad
    <3>4. QED BY <3>1, <3>3 DEF BrokenBefore, Older
  <2>4. ASSUME Cardinality(Rows' \cup reclaimed') <= Lookback PROVE Cardinality(Rows \cup reclaimed) <= Lookback
    <3> DEFINE A == Rows \cup reclaimed
               B == Rows' \cup reclaimed'
    <3>1. A \in SUBSET B
      <4>1. reclaimed \subseteq reclaimed' BY HistoryStep DEF HistoryMoves
      <4>2. Rows \subseteq Rows' \cup reclaimed' BY HistoryStep DEF HistoryMoves, Rows
      <4>3. QED BY <4>1, <4>2
    <3>2. B \in SUBSET Deploys /\ A \in SUBSET Deploys BY <3>1 DEF Rows, TypeOK
    <3>3. Cardinality(A) <= Cardinality(B) /\ Cardinality(A) \in Nat /\ Cardinality(B) \in Nat BY <3>1, <3>2, Surpassed
    <3>4. QED BY <2>4, <3>3, Bounds
  <2>5. Tells(kind, d)' BY <2>1, <2>2 DEF Tells
  <2>6. Earned(kind, d)' BY <2>3, <2>4 DEF Earned
  <2>7. QED BY <2>5, <2>6
<1>3. QED BY <1>1, <1>2

LEMMA ToldStep ==
  ASSUME Hub, TypeOK', KeepInv, LastInv, RecoveredIsEarned, [Next]_vars
  PROVE  LastInv' /\ RecoveredIsEarned' /\ KindInv'
<1> USE DEF Hub
<1>1. \E kind, d : Tells(kind, d) /\ Earned(kind, d) /\ kind = last'.kind /\ d = last'.of
  <2>1. CASE UNCHANGED last BY <2>1 DEF LastInv, RecoveredIsEarned
  <2>2. CASE Takes(TRUE) \/ Takes(FALSE)
    <3>1. worker.pc = "send" /\ last'.kind = worker.kind /\ last'.of = worker.item.of BY <2>2 DEF Takes
    <3>2. QED BY <3>1 DEF KindInv
  <2>3. UNCHANGED last \/ Takes(TRUE) \/ Takes(FALSE)
    <3>1. CASE Works
      BY <3>1 DEF Works, Wake, LastPass, Peek, Resolves, Delivers, Filters, FailsForGood, Fails, Sleeps, Quietly
    <3>2. CASE Quiet BY <3>2, QuietIs
    <3>3. CASE \E d \in Deploys, s \in Outcomes : Settle(d, s) BY <3>3, Produces
    <3>4. CASE \E e \in Edges : Offline(e) \/ Online(e) BY <3>4, Turns
    <3>5. QED BY <3>1, <3>2, <3>3, <3>4 DEF Next, Quiet
  <2>4. QED BY <2>1, <2>2, <2>3
<1>2. LastInv' /\ RecoveredIsEarned'
  <2>1. PICK kind, d : Tells(kind, d) /\ Earned(kind, d) /\ kind = last'.kind /\ d = last'.of BY <1>1
  <2>2. Tells(kind, d)' /\ Earned(kind, d)' BY <2>1, EarnedStep
  <2>3. LastInv' BY <2>1, <2>2 DEF LastInv, Tells
  <2>4. RecoveredIsEarned' BY <2>1, <2>2 DEF RecoveredIsEarned, Earned, BrokenBefore, Older
  <2>5. QED BY <2>3, <2>4
<1>3. KindInv'
  <2>1. SUFFICES ASSUME worker'.pc = "send" PROVE KindInv' BY DEF KindInv
  <2>2. \E kind \in Kinds : \E d : Tells(kind, d) /\ Earned(kind, d) /\ kind = worker'.kind /\ d = worker'.item.of
    <3>1. CASE UNCHANGED worker BY <2>1, <3>1 DEF KindInv
    <3>2. CASE Resolves
      <4>1. worker.item \in Item BY <3>2, SendingItem DEF Resolves, Sending
      <4>2. worker'.kind = Kind(worker.item) /\ worker'.item = worker.item /\ Worthy(worker.item)
        BY <3>2 DEF Resolves, TypeOK
      <4>3. Kind(worker.item) \in Kinds BY <4>2, WantedAssumption DEF Worthy, Wants
      <4>4. QED BY <4>1, <4>2, <4>3, ResolvesFairly
    <3>3. UNCHANGED worker \/ Resolves
      <4>1. CASE Works
        BY <2>1, <4>1 DEF Works, Wake, LastPass, Peek, Delivers, Filters, FailsForGood, Fails, Sleeps,
           Goes, Leaves, AfterOne, Idle, TypeOK
      <4>2. CASE Quiet BY <4>2, QuietIs
      <4>3. CASE \E d \in Deploys, s \in Outcomes : Settle(d, s) BY <4>3, Produces
      <4>4. CASE \E e \in Edges : Offline(e) \/ Online(e) BY <4>4, Turns
      <4>5. QED BY <4>1, <4>2, <4>3, <4>4 DEF Next, Quiet
    <3>4. QED BY <3>1, <3>2, <3>3
  <2>3. PICK kind \in Kinds : \E d : Tells(kind, d) /\ Earned(kind, d) /\ kind = worker'.kind /\ d = worker'.item.of
    BY <2>2
  <2>4. PICK d : Tells(kind, d) /\ Earned(kind, d) /\ kind = worker'.kind /\ d = worker'.item.of BY <2>3
  <2>5. Tells(kind, d)' /\ Earned(kind, d)' BY <2>4, EarnedStep
  <2>6. QED BY <2>4, <2>5 DEF KindInv, Tells, Earned, BrokenBefore, Older
<1>4. QED BY <1>2, <1>3

-----------------------------------------------------------------------------
(* The wake channel                                                         *)

LEMMA WakeStep == ASSUME Hub, NoLostWakeup, [Next]_vars PROVE NoLostWakeup'
<1> USE DEF Hub
<1>1. CASE Works
  <2>1. UNCHANGED stopping
    BY <1>1, ByWorkerIs DEF Works, Wake, LastPass, Peek, Resolves, Delivers, Filters, FailsForGood, Fails, Sleeps, Quietly
  <2>2. CASE Wake \/ Resolves \/ Delivers \/ Filters \/ FailsForGood \/ Fails
    BY <2>2 DEF Wake, Resolves, Delivers, Filters, FailsForGood, Fails, Goes, AfterOne, TypeOK, NoLostWakeup
  <2>3. CASE LastPass \/ Peek \/ Sleeps
    <3>1. UNCHANGED <<queue, wake>> BY <2>3 DEF LastPass, Peek, Sleeps, Quietly
    <3>2. CASE LastPass BY <3>2 DEF LastPass, Idle, NoLostWakeup
    <3>3. CASE (MayBeDone \/ queue = <<>>) BY <2>1, <3>1, <3>3 DEF MayBeDone, NoLostWakeup
    <3>4. CASE worker'.pc # "select" BY <3>4 DEF NoLostWakeup
    <3>5. QED BY <2>3, <3>2, <3>3, <3>4 DEF Peek, Sleeps, Goes, TypeOK
  <2>4. QED BY <1>1, <2>2, <2>3 DEF Works
<1>2. CASE Quiet BY <1>2, QuietIs DEF NoLostWakeup
<1>3. ASSUME NEW p \in Item, Enqueue(p), UNCHANGED <<worker, stopping>> PROVE NoLostWakeup'
  BY <1>3, Enqueued DEF NoLostWakeup
<1>4. ASSUME NEW d \in Deploys, NEW s \in Outcomes, Settle(d, s) PROVE NoLostWakeup'
  BY <1>3, <1>4, Produces
<1>5. ASSUME NEW e \in Edges, Offline(e) \/ Online(e) PROVE NoLostWakeup'
  <2>1. PICK kind \in NodeKinds :
          News(kind, e) \in Item /\ Enqueue(News(kind, e)) /\ UNCHANGED <<worker, stopping>>
    BY <1>5, Turns
  <2>2. QED BY <1>3, <2>1
<1>6. QED BY <1>1, <1>2, <1>4, <1>5 DEF Next, Quiet

-----------------------------------------------------------------------------
(* Together                                                                 *)

Whole == Hub /\ Chain /\ Flags /\ Words /\ KeepInv /\ LastInv /\ RecoveredIsEarned /\ NoLostWakeup

LEMMA Begins == ASSUME Init PROVE Whole
<1>1. TypeOK
  <2>1. row \in [Deploys -> Outcomes \cup Open \cup {"superseded"}] BY StoredAssumption DEF Init, Open
  <2>2. queue \in Seq(Item) /\ Len(queue) = 0 BY EmptySeq DEF Init
  <2>3. worker \in Workers BY DEF Init, Idle, Workers, WorkerPcs
  <2>4. told \in [Edges -> NodeKinds \cup {"none"}] BY DEF Init
  <2>5. /\ reloads \in 0..MaxReloads /\ count \in 0..MaxItems
        /\ 0 <= QueueCap /\ last \in Message \cup {Silence}
    BY Bounds DEF Init
  <2>6. QED BY <2>1, <2>2, <2>3, <2>4, <2>5 DEF Init, TypeOK, Workers, WorkerPcs
<1>2. DOMAIN queue = {} BY DEF Init
<1>3. SendInv /\ KindInv BY DEF Init, Idle, SendInv, Sending, KindInv
<1>4. Chain BY <1>2 DEF Init, Silence, Chain, QueueInv, ToldInv, LossInv
<1>5. Flags
  <2>1. \A e : NewsOf(e) = {} BY <1>2 DEF NewsOf
  <2>2. QED BY <2>1 DEF Init, Flags, Flag, Alternates
<1>6. Words BY <1>2 DEF Init, Words, LastWord, Queued
<1>7. KeepInv /\ LastInv /\ RecoveredIsEarned
  BY DEF Init, KeepInv, LastInv, Tells, RecoveredIsEarned, Earned, Silence
<1>8. NoLostWakeup BY DEF Init, NoLostWakeup
<1>9. QED BY <1>1, <1>3, <1>4, <1>5, <1>6, <1>7, <1>8 DEF Whole, Hub

LEMMA GoesOn == ASSUME Whole, [Next]_vars PROVE Whole'
<1> USE DEF Whole
<1>1. TypeOK' BY HubTypes
<1>2. Chain' /\ SendInv' BY <1>1, OrderStep
<1>3. Flags' /\ Words' BY FlagStep, WordStep
<1>4. KeepInv' BY <1>1, KeepStep
<1>5. LastInv' /\ RecoveredIsEarned' /\ KindInv' BY <1>1, ToldStep
<1>6. NoLostWakeup' BY WakeStep
<1>7. QED BY <1>1, <1>2, <1>3, <1>4, <1>5, <1>6 DEF Hub

LEMMA Holds == Spec => []Whole
<1>1. Init => Whole BY Begins
<1>2. Whole /\ [Next]_vars => Whole' BY GoesOn
<1>3. QED BY <1>1, <1>2, PTL DEF Spec

\* The queue never holds more than its capacity, a delivery under way is of an
\* item, and none is sent more often than it is tried (notify.go:269-346).
THEOREM HubTypesHold == Spec => []TypeOK
<1>1. Whole => TypeOK BY DEF Whole, Hub
<1>2. QED BY <1>1, Holds, PTL

\* However items are dropped from under a delivery, what the backend takes is
\* newer than what it took before, or is what it took last and was not heard to
\* take (notify.go:326-346, 407-424).
THEOREM NewsInOrder == Spec => InOrder
<1>1. Whole /\ [Next]_vars
        => [\/ last'.id > last.id /\ last'.times = 1
            \/ last'.id = last.id /\ ~last.answered /\ last'.times \in 2..MaxAttempts]_last
  BY Ahead DEF Whole
<1>2. QED BY <1>1, Holds, PTL DEF Spec, InOrder

\* The last word on an edge is what the watcher believes unless that word itself
\* was lost, and alarms and all-clears of an edge alternate as long as none was,
\* whether or not the backend was heard to accept them (watcher.go:50-54).
THEOREM AlarmsAreTrue == Spec => []FlagMatchesNews
<1>1. Whole => FlagMatchesNews BY FlagsAreTrue DEF Whole
<1>2. QED BY <1>1, Holds, PTL

\* A success is told as a recovery if the last run before it that ended left the
\* service broken, and only then; in whatever order deploys are stored, run and
\* end, unless an older one ended after it (classify.go:93-96).
THEOREM RecoveriesAreEarned == Spec => []RecoveredIsEarned
<1>1. Whole => RecoveredIsEarned BY DEF Whole
<1>2. QED BY <1>1, Holds, PTL

\* The delivery goroutine never sleeps over news (notify.go:297-302).
THEOREM NoWakeupIsLost == Spec => []NoLostWakeup
<1>1. Whole => NoLostWakeup BY DEF Whole
<1>2. QED BY <1>1, Holds, PTL
=============================================================================
