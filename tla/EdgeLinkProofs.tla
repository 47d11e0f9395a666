---------------------------- MODULE EdgeLinkProofs ----------------------------
(***************************************************************************)
(* Theorems about EdgeLink, for every set of executions and sessions, both *)
(* transports, and any number of cuts, losses and crashes.                 *)
(***************************************************************************)
EXTENDS EdgeLinkProps, SequenceTheorems, TLAPS

-----------------------------------------------------------------------------
(* Values                                                                   *)

LEMMA Numbers == /\ Execs \subseteq Nat /\ NoExec \notin Execs
                 /\ Sessions \subseteq Nat /\ NoSession \notin Sessions
  BY ExecsAssumption, SessionsAssumption DEF NoExec, NoSession

LEMMA Pcs ==
  /\ \A pc \in CallerPcs : At(pc) \in Callers
  /\ \A s \in Sessions : [pc |-> "held", conn |-> s] \in Callers
  BY DEF At, Callers, CallerPcs

\* A buffer that lost one result, gained one, or lost its oldest.
In(x, q) == \E k \in DOMAIN q : q[k] = x

LEMMA Removed ==
  ASSUME NEW S, NEW q \in Seq(S), NEW i \in DOMAIN q
  PROVE  /\ RemoveAt(q, i) \in Seq(S) /\ Len(RemoveAt(q, i)) <= Len(q)
         /\ \A x : In(x, RemoveAt(q, i)) => In(x, q)
         /\ \A x : In(x, q) => x = q[i] \/ In(x, RemoveAt(q, i))
<1> DEFINE a == SubSeq(q, 1, i - 1)
           b == SubSeq(q, i + 1, Len(q))
           r == a \o b
<1>0. Len(q) \in Nat /\ DOMAIN q = 1..Len(q) /\ i \in 1..Len(q) /\ \A k \in 1..Len(q) : q[k] \in S
  OBVIOUS
<1>1. a \in Seq(S) /\ Len(a) = i - 1 /\ \A k \in 1..i - 1 : a[k] = q[k]
  <2>1. \A k \in 1..i - 1 : q[k] \in S /\ 1 + k - 1 = k BY <1>0
  <2>2. QED BY <1>0, <2>1, SubSeqProperties
<1>2. b \in Seq(S) /\ Len(b) = Len(q) - i /\ \A k \in 1..Len(q) - i : b[k] = q[i + k]
  <2>1. \A k \in i + 1..Len(q) : q[k] \in S BY <1>0
  <2>2. QED BY <1>0, <2>1, SubSeqProperties
<1> HIDE DEF a, b
<1>3. /\ r \in Seq(S) /\ Len(r) = Len(a) + Len(b)
      /\ \A k \in 1..Len(a) + Len(b) : r[k] = IF k <= Len(a) THEN a[k] ELSE b[k - Len(a)]
  BY <1>1, <1>2, ConcatProperties
<1> HIDE DEF r
<1>4. DOMAIN r = 1..Len(q) - 1 /\ Len(r) = Len(q) - 1 BY <1>0, <1>1, <1>2, <1>3
<1>5. ASSUME NEW k \in 1..i - 1 PROVE k \in DOMAIN r /\ r[k] = q[k]
  BY <1>0, <1>1, <1>2, <1>3, <1>4
<1>6. ASSUME NEW k \in 1..Len(q) - i PROVE i - 1 + k \in DOMAIN r /\ r[i - 1 + k] = q[i + k]
  <2> DEFINE j == i - 1 + k
  <2>0. Len(a) = i - 1 /\ Len(b) = Len(q) - i BY <1>1, <1>2
  <2>1. j \in 1..Len(a) + Len(b) /\ ~(j <= Len(a)) /\ j - Len(a) = k BY <1>0, <2>0
  <2>2. r[j] = b[k] BY <1>3, <2>1
  <2>3. QED BY <1>2, <1>4, <2>1, <2>2, <1>1
<1>7. ASSUME NEW x, In(x, r) PROVE In(x, q)
  <2>1. PICK k \in DOMAIN r : r[k] = x BY <1>7 DEF In
  <2>2. CASE k \in 1..i - 1 BY <1>0, <1>5, <2>1, <2>2 DEF In
  <2>3. CASE k \notin 1..i - 1
    <3>1. k - (i - 1) \in 1..Len(q) - i /\ i - 1 + (k - (i - 1)) = k /\ i + (k - (i - 1)) \in DOMAIN q
      BY <1>0, <1>4, <2>1, <2>3
    <3>2. r[k] = q[i + (k - (i - 1))] BY <3>1, <1>6
    <3>3. QED BY <2>1, <3>1, <3>2 DEF In
  <2>4. QED BY <2>2, <2>3
<1>8. ASSUME NEW x, In(x, q), x # q[i] PROVE In(x, r)
  <2>1. PICK k \in DOMAIN q : q[k] = x BY <1>8 DEF In
  <2>2. CASE k \in 1..i - 1 BY <1>5, <2>1, <2>2 DEF In
  <2>3. CASE k \notin 1..i - 1
    <3>1. k - i \in 1..Len(q) - i /\ i + (k - i) = k
      BY <1>0, <1>8, <2>1, <2>3
    <3>2. i - 1 + (k - i) \in DOMAIN r /\ r[i - 1 + (k - i)] = q[k] BY <3>1, <1>6
    <3>3. QED BY <2>1, <3>2 DEF In
  <2>4. QED BY <2>2, <2>3
<1>9. RemoveAt(q, i) = r BY DEF RemoveAt, r, a, b
<1>10. QED BY <1>0, <1>3, <1>4, <1>7, <1>8, <1>9

LEMMA Appended ==
  ASSUME NEW S, NEW q \in Seq(S), NEW x \in S
  PROVE  /\ Append(q, x) \in Seq(S) /\ Len(Append(q, x)) = Len(q) + 1
         /\ \A y : In(y, Append(q, x)) <=> y = x \/ In(y, q)
<1> DEFINE r == Append(q, x)
<1>1. /\ r \in Seq(S) /\ Len(r) = Len(q) + 1
      /\ \A k \in 1..Len(q) : r[k] = q[k]
      /\ r[Len(q) + 1] = x
  BY AppendProperties
<1> HIDE DEF r
<1>2. /\ DOMAIN q = 1..Len(q) /\ DOMAIN r = 1..Len(q) + 1 /\ Len(q) \in Nat
      /\ \A k \in 1..Len(q) + 1 : k = Len(q) + 1 \/ k \in 1..Len(q)
      /\ Len(q) + 1 \in 1..Len(q) + 1 /\ \A k \in 1..Len(q) : k \in 1..Len(q) + 1
  BY <1>1
<1>3. \A y : In(y, r) <=> y = x \/ In(y, q) BY <1>1, <1>2 DEF In
<1>4. QED BY <1>1, <1>3 DEF r

LEMMA Shifted ==
  ASSUME NEW S, NEW q \in Seq(S), q # <<>>
  PROVE  /\ Tail(q) \in Seq(S) /\ Len(Tail(q)) = Len(q) - 1 /\ Head(q) \in S /\ In(Head(q), q)
         /\ \A y : In(y, q) <=> y = Head(q) \/ In(y, Tail(q))
<1> DEFINE t == Tail(q)
<1>1. /\ t \in Seq(S) /\ Len(t) = Len(q) - 1 /\ Head(q) \in S /\ Head(q) = q[1]
      /\ Len(q) \in Nat \ {0} /\ \A k \in 1..Len(t) : t[k] = q[k + 1]
  BY HeadTailProperties, EmptySeq
<1> HIDE DEF t
<1>2. \A k \in 1..Len(q) : k = 1 \/ (k - 1 \in 1..Len(t) /\ q[k] = t[k - 1]) BY <1>1
<1>3. DOMAIN q = 1..Len(q) /\ DOMAIN t = 1..Len(t) /\ 1 \in DOMAIN q
      /\ \A k \in 1..Len(t) : k + 1 \in 1..Len(q)
  BY <1>1
<1>4. \A y : In(y, q) <=> y = Head(q) \/ In(y, t) BY <1>1, <1>2, <1>3 DEF In
<1>5. QED BY <1>1, <1>3, <1>4 DEF t, In

LEMMA UnackedIn == /\ \A e : e \in Unacked <=> In(e, pending)
                   /\ \A e : e \in Unacked' <=> In(e, pending')
  BY DEF Unacked, In

\* What the edge keeps for main once a result is buffered.
LEMMA Buffered ==
  ASSUME AgentOK, NEW e \in Execs, Buffer(e)
  PROVE  /\ pending' \in Seq(Execs) /\ Len(pending') <= PendingCap
         /\ forgotten \subseteq forgotten' /\ forgotten' \subseteq Execs \X {"evicted", "crash"}
         /\ Unacked' \subseteq Unacked \cup {e} /\ e \in Unacked'
         /\ \A p \in Unacked : p \in Unacked' \/ <<p, "evicted">> \in forgotten'
<1> USE DEF AgentOK
<1>1. CASE e \in Unacked BY <1>1 DEF Buffer, Unacked
<1>2. CASE e \notin Unacked /\ Full
  <2>1. pending # <<>> BY <1>2, AgentAssumption DEF Full
  <2> DEFINE t == Tail(pending)
  <2>2. /\ t \in Seq(Execs) /\ Len(t) = Len(pending) - 1 /\ Head(pending) \in Execs
        /\ \A y : In(y, pending) <=> y = Head(pending) \/ In(y, t)
    BY <2>1, Shifted
  <2>3. pending' = Append(t, e) /\ forgotten' = forgotten \cup {<<Head(pending), "evicted">>}
    BY <1>2 DEF Buffer
  <2> HIDE DEF t
  <2>4. /\ pending' \in Seq(Execs) /\ Len(pending') = Len(t) + 1
        /\ \A y : In(y, pending') <=> y = e \/ In(y, t)
    BY <2>2, <2>3, Appended
  <2>5. Len(pending) \in Nat BY LenProperties
  <2>6. QED BY <2>2, <2>3, <2>4, <2>5, UnackedIn, AgentAssumption
<1>3. CASE e \notin Unacked /\ ~Full
  <2>1. pending' = Append(pending, e) /\ UNCHANGED forgotten BY <1>3 DEF Buffer
  <2>2. /\ pending' \in Seq(Execs) /\ Len(pending') = Len(pending) + 1
        /\ \A y : In(y, pending') <=> y = e \/ In(y, pending)
    BY <2>1, Appended
  <2>3. Len(pending) < PendingCap BY <1>3, AgentAssumption DEF Full
  <2>4. QED BY <2>1, <2>2, <2>3, UnackedIn, AgentAssumption
<1>4. QED BY <1>1, <1>2, <1>3

LEMMA Acknowledged ==
  ASSUME AgentOK, NEW e \in Execs, AckDone(e)
  PROVE  /\ pending' \in Seq(Execs) /\ Len(pending') <= PendingCap
         /\ Unacked' \subseteq Unacked /\ Unacked \subseteq Unacked' \cup {e}
<1> pending \in Seq(Execs) /\ Len(pending) <= PendingCap BY DEF AgentOK
<1>1. CASE e \notin Unacked /\ UNCHANGED pending BY <1>1 DEF Unacked
<1>2. ASSUME NEW k \in DOMAIN pending, pending[k] = e, pending' = RemoveAt(pending, k)
      PROVE  /\ pending' \in Seq(Execs) /\ Len(pending') <= Len(pending)
             /\ Unacked' \subseteq Unacked /\ Unacked \subseteq Unacked' \cup {e}
  <2>1. /\ pending' \in Seq(Execs) /\ Len(pending') <= Len(pending)
        /\ \A x : In(x, pending') => In(x, pending)
        /\ \A x : In(x, pending) => x = e \/ In(x, pending')
    BY <1>2, Removed
  <2>2. QED BY <1>2, <2>1, UnackedIn
<1>3. QED BY <1>1, <1>2, AgentAssumption DEF AckDone

-----------------------------------------------------------------------------
(* Types                                                                    *)

Types == TypeOK /\ SessionInv

LEMMA CallerTypes ==
  ASSUME Types, NEW e \in Execs, CallerStep(e) \/ TimesOut(e) PROVE WireOK' /\ HubOK'
<1> USE DEF Types, TypeOK, HubOK, WireOK
<1>1. caller \in [Execs -> Callers] /\ current \in Sessions \cup {NoSession} OBVIOUS
<1>2. CASE Acquire(e) \/ AcquireExpires(e) \/ Refuse(e) \/ Return(e) \/ TimesOut(e) \/ Leave(e)
  <2>1. \E pc \in CallerPcs : caller' = [caller EXCEPT ![e] = At(pc)]
    BY <1>2 DEF Acquire, AcquireExpires, Refuse, Return, TimesOut, Leave, Goes, CallerPcs
  <2>2. caller' \in [Execs -> Callers] BY <1>1, <2>1, Pcs
  <2>3. UNCHANGED <<queue, wire>> /\ ByCaller
        /\ (UNCHANGED <<inflight, settled>> \/ (inflight' = inflight \ {e} /\ settled' = settled \ {e}))
    BY <1>2 DEF Acquire, AcquireExpires, Refuse, Return, TimesOut, Leave
  <2>4. QED BY <2>2, <2>3 DEF wire, ByCaller
<1>3. CASE Hold(e)
  <2>1. caller' = [caller EXCEPT ![e] = [pc |-> "held", conn |-> current]]
        /\ current \in Sessions
    BY <1>1, <1>3 DEF Hold, Goes
  <2>2. caller' \in [Execs -> Callers] BY <1>1, <2>1, Pcs
  <2>3. QED BY <1>3, <2>2 DEF Hold, ByCaller, wire
<1>4. CASE SendSSE(e)
  <2>1. \E pc \in CallerPcs : caller' = [caller EXCEPT ![e] = At(pc)]
    BY <1>4 DEF SendSSE, Goes, CallerPcs
  <2>2. caller' \in [Execs -> Callers] BY <1>1, <2>1, Pcs
  <2>3. QED BY <1>4, <2>2 DEF SendSSE, ByCaller, wire
<1>5. CASE SendGRPC(e)
  <2>1. \E pc \in CallerPcs : caller' = [caller EXCEPT ![e] = At(pc)]
    BY <1>5 DEF SendGRPC, Goes, CallerPcs
  <2>2. caller' \in [Execs -> Callers] BY <1>1, <2>1, Pcs
  <2>3. QED BY <1>5, <2>2 DEF SendGRPC, ByCaller
<1>6. QED BY <1>2, <1>3, <1>4, <1>5 DEF CallerStep

LEMMA SessionTypes ==
  ASSUME Types, NEW s \in Sessions, SessionStep(s) PROVE WireOK' /\ HubOK'
<1> USE DEF Types, TypeOK, HubOK, WireOK, ByHandler
<1>1. att \in [Sessions -> Attachments] /\ current \in Sessions \cup {NoSession} OBVIOUS
<1>2. \A pc \in AttPcs : [att EXCEPT ![s].pc = pc] \in [Sessions -> Attachments]
  BY <1>1 DEF Attachments
<1>3. \A pc \in AttPcs, o \in Sessions \cup {NoSession} :
        [att EXCEPT ![s] = [pc |-> pc, old |-> o]] \in [Sessions -> Attachments]
  BY <1>1 DEF Attachments
<1>4. {"greeted", "closing", "registering", "serving", "unregistering", "gone"} \subseteq AttPcs
  BY DEF AttPcs
<1>5. CASE Greet(s) BY <1>2, <1>4, <1>5 DEF Greet, Steps
<1>6. CASE Attach(s) BY <1>1, <1>3, <1>4, <1>6 DEF Attach, Settle, NextGen
<1>7. CASE CloseOld(s)
  <2>1. att[s].old \in Sessions \cup {NoSession} BY <1>1 DEF Attachments
  <2>2. QED BY <1>3, <1>4, <1>7, <2>1 DEF CloseOld
<1>8. CASE Register(s) BY <1>2, <1>4, <1>8 DEF Register, Steps
<1>9. CASE WriteExec(s) BY <1>9 DEF WriteExec
<1>10. CASE HandleUp(s) BY <1>10 DEF HandleUp, Settle
<1>11. CASE Detach(s)
  <2>1. att' \in [Sessions -> Attachments] BY <1>2, <1>4, <1>11 DEF Detach, Steps
  <2>2. graceGen \in Nat /\ NextGen \in Nat /\ timers \in SUBSET Nat BY DEF NextGen
  <2>3. graceGen' \in Nat /\ timers' \in SUBSET Nat BY <1>11, <2>2 DEF Detach
  <2>4. QED BY <1>11, <2>1, <2>3 DEF Detach
<1>12. CASE DetachStale(s) BY <1>2, <1>4, <1>12 DEF DetachStale, Returns, Steps
<1>13. CASE Unregister(s) BY <1>2, <1>4, <1>13 DEF Unregister, Returns, Steps
<1>14. QED BY <1>5, <1>6, <1>7, <1>8, <1>9, <1>10, <1>11, <1>12, <1>13 DEF SessionStep

LEMMA CrashTypes == ASSUME Types, MainCrash PROVE WireOK' /\ HubOK'
<1> USE DEF Types, TypeOK, HubOK, WireOK, MainCrash, Fault
<1>1. att' \in [Sessions -> Attachments] BY DEF Attachments, AttPcs
<1>2. caller' \in [Execs -> Callers]
  <2>1. \A e \in Execs : caller'[e] \in Callers BY Pcs DEF CallerPcs
  <2>2. QED BY <2>1
<1>3. cut' \in SUBSET Sessions OBVIOUS
<1>4. queue' \in [Sessions -> SUBSET Execs] OBVIOUS
<1>5. faults' \in Nat OBVIOUS
<1>6. graceGen' \in Nat /\ current' \in Sessions \cup {NoSession} /\ registered' \in BOOLEAN OBVIOUS
<1>7. QED BY <1>1, <1>2, <1>3, <1>4, <1>5, <1>6

LEMMA HubTypes == ASSUME Types, HubStep \/ HubFault PROVE WireOK' /\ HubOK'
<1>1. ASSUME NEW e \in Execs, HandlePost(e) PROVE WireOK' /\ HubOK'
  BY <1>1 DEF Types, TypeOK, HubOK, WireOK, HandlePost, Settle
<1>2. ASSUME NEW g \in timers, ExpireGrace(g) PROVE WireOK' /\ HubOK'
  BY <1>2 DEF Types, TypeOK, HubOK, WireOK, ExpireGrace, Settle, wire
<1>3. QED BY <1>1, <1>2, CallerTypes, SessionTypes, CrashTypes DEF HubStep, HubFault

LEMMA OnLine == ASSUME Types, agent.pc # "offline" PROVE agent.sess \in Sessions /\ agent.sess = dials
  BY DEF Types, TypeOK, WireOK, SessionInv

LEMMA LoopTypes ==
  ASSUME Types, (\E s \in Sessions : Dial(s)) \/ Connect \/ (\E e \in Execs : Receive(e)) \/ Lose \/ GiveUp
  PROVE  WireOK' /\ AgentOK'
<1> USE DEF Types, TypeOK, AgentOK, WireOK, ByLoop
<1>1. ASSUME NEW s \in Sessions, Dial(s) PROVE WireOK' /\ AgentOK'
  <2>1. Advertised \subseteq Execs BY DEF Advertised, InflightIDs, Unacked
  <2>2. QED BY <1>1, <2>1 DEF Dial
<1>2. CASE Connect BY <1>2 DEF Connect
<1>3. ASSUME NEW e \in Execs, Receive(e) PROVE WireOK' /\ AgentOK'
  <2>1. ranOn' \in [Execs -> Sessions \cup {NoSession}] /\ running' \in SUBSET Execs
    BY <1>3 DEF Receive
  <2>2. down' \in [Sessions -> SUBSET Execs] BY <1>3 DEF Receive
  <2>3. QED BY <1>3, <2>1, <2>2 DEF Receive
<1>4. CASE Lose BY <1>4 DEF Lose, Ends, wire
<1>5. CASE GiveUp BY <1>5, OnLine DEF GiveUp, Ends, Fault
<1>6. QED BY <1>1, <1>2, <1>3, <1>4, <1>5

LEMMA TaskTypes ==
  ASSUME Types, NEW e \in Execs,
         Finish(e) \/ Post(e) \/ AckDone(e) \/ PostFails(e) \/ PostTimesOut(e)
  PROVE  WireOK' /\ AgentOK'
<1> USE DEF Types, TypeOK, AgentOK, WireOK, ByTask
<1>1. CASE Finish(e)
  <2>1. up' \in [Sessions -> SUBSET Execs] BY <1>1 DEF Finish, SendDone
  <2>2. /\ pending' \in Seq(Execs) /\ Len(pending') <= PendingCap
        /\ forgotten' \subseteq Execs \X {"evicted", "crash"}
    BY <1>1, Buffered DEF Finish
  <2>3. QED BY <1>1, <2>1, <2>2 DEF Finish
<1>2. CASE Post(e) BY <1>2 DEF Post
<1>3. CASE AckDone(e) BY <1>3, Acknowledged DEF AckDone
<1>4. CASE PostFails(e) BY <1>4 DEF PostFails, wire
<1>5. CASE PostTimesOut(e) BY <1>5 DEF PostTimesOut, Fault
<1>6. QED BY <1>1, <1>2, <1>3, <1>4, <1>5

LEMMA AgentTypes == ASSUME Types, AgentStep \/ Redial \/ AgentFault PROVE WireOK' /\ AgentOK'
<1>1. CASE EdgeCrash
  <2>1. Unacked \subseteq Execs BY DEF Types, TypeOK, AgentOK, Unacked
  <2>2. <<>> \in Seq(Execs) /\ Len(<<>>) <= PendingCap BY AgentAssumption, EmptySeq
  <2>3. QED BY <1>1, <2>1, <2>2, OnLine
    DEF Types, TypeOK, AgentOK, WireOK, EdgeCrash, Ends, Fault
<1>2. QED BY <1>1, LoopTypes, TaskTypes DEF AgentStep, Redial, AgentFault

LEMMA NetworkTypes == ASSUME Types, Network PROVE WireOK'
  BY DEF Types, TypeOK, WireOK, Network, Cut, LosePost, Fault

LEMMA TypeStep == ASSUME Types, [Next]_vars PROVE TypeOK'
<1>1. HubOK /\ AgentOK /\ WireOK BY DEF Types, TypeOK
<1>2. UNCHANGED hub => HubOK' BY <1>1 DEF hub, HubOK
<1>3. UNCHANGED edge => AgentOK' BY <1>1 DEF edge, AgentOK
<1>4. UNCHANGED vars => WireOK' /\ HubOK' /\ AgentOK'
  BY <1>1 DEF vars, wire, hub, edge, WireOK, HubOK, AgentOK
<1>5. QED BY <1>2, <1>3, <1>4, HubTypes, AgentTypes, NetworkTypes DEF TypeOK, Next, Step, AllAnswered

-----------------------------------------------------------------------------
(* The grace window                                                         *)

LEMMA TimerKept ==
  ASSUME TimerInv, HeldHasTimer, UNCHANGED <<current, graceGen, timers>>,
         current # NoSession \/ inflight' \ settled' \subseteq inflight \ settled,
         inflight \subseteq Execs, inflight' \subseteq Execs
  PROVE  TimerInv' /\ HeldHasTimer'
  BY DEF TimerInv, HeldHasTimer

LEMMA TimerStep ==
  ASSUME Types, TypeOK', TimerInv, HeldHasTimer, [Next]_vars PROVE TimerInv' /\ HeldHasTimer'
<1> /\ graceGen \in Nat /\ timers \subseteq Nat /\ current \in Sessions \cup {NoSession}
    /\ inflight \subseteq Execs /\ inflight' \subseteq Execs
  BY DEF Types, TypeOK, HubOK
<1>1. ASSUME NEW e \in Execs, CallerStep(e) \/ TimesOut(e) \/ HandlePost(e)
      PROVE TimerInv' /\ HeldHasTimer'
  <2>1. UNCHANGED <<current, graceGen, timers>>
    BY <1>1 DEF CallerStep, Acquire, AcquireExpires, Hold, Refuse, SendSSE, SendGRPC, Return, Leave,
       TimesOut, HandlePost, ByCaller
  <2>2. current # NoSession \/ inflight' \ settled' \subseteq inflight \ settled
    BY <1>1 DEF CallerStep, Acquire, AcquireExpires, Hold, Refuse, SendSSE, SendGRPC, Return, Leave,
       TimesOut, HandlePost, Settle
  <2>3. QED BY <2>1, <2>2, TimerKept
<1>2. ASSUME NEW s \in Sessions, SessionStep(s) PROVE TimerInv' /\ HeldHasTimer'
  <2>1. inflight' = inflight BY <1>2
    DEF SessionStep, Greet, Attach, CloseOld, Register, WriteExec, HandleUp, Detach, DetachStale,
        Unregister, ByHandler
  <2>2. CASE Attach(s)
    <3>1. graceGen' = graceGen + 1 /\ timers' = timers /\ current' # NoSession
      BY <2>2, Numbers DEF Attach, NextGen
    <3>2. \A g \in timers : g < graceGen + 1 BY DEF TimerInv
    <3>3. QED BY <3>1, <3>2 DEF TimerInv, HeldHasTimer
  <2>3. CASE Detach(s)
    <3>1. CASE inflight = {}
      <4>1. UNCHANGED <<graceGen, timers>> BY <2>3, <3>1 DEF Detach, Holds
      <4>2. current' = NoSession BY <2>3 DEF Detach
      <4>3. QED BY <2>1, <3>1, <4>1, <4>2 DEF TimerInv, HeldHasTimer
    <3>2. CASE inflight # {}
      <4>1. graceGen' = graceGen + 1 /\ timers' = timers \cup {graceGen + 1} /\ current' = NoSession
        BY <2>3, <3>2 DEF Detach, Holds, NextGen
      <4>2. \A g \in timers : g <= graceGen + 1 BY DEF TimerInv
      <4>3. TimerInv' BY <4>1, <4>2 DEF TimerInv
      <4>4. QED BY <4>1, <4>3 DEF HeldHasTimer
    <3>3. QED BY <3>1, <3>2
  <2>4. CASE SessionStep(s) /\ ~Attach(s) /\ ~Detach(s)
    <3>1. UNCHANGED <<current, graceGen, timers>> /\ settled \subseteq settled'
      BY <2>4 DEF SessionStep, Greet, CloseOld, Register, WriteExec, HandleUp, DetachStale, Unregister, Settle
    <3>2. QED BY <2>1, <3>1, TimerKept
  <2>5. QED BY <1>2, <2>2, <2>3, <2>4
<1>3. ASSUME NEW g \in timers, ExpireGrace(g) PROVE TimerInv' /\ HeldHasTimer'
  <2>1. UNCHANGED <<current, graceGen, inflight>> /\ timers' = timers \ {g}
    BY <1>3 DEF ExpireGrace
  <2>2. TimerInv' BY <2>1 DEF TimerInv
  <2>3. CASE Stale(g)
    <3>1. UNCHANGED settled BY <1>3, <2>3 DEF ExpireGrace
    <3>2. QED BY <2>1, <2>2, <2>3, <3>1 DEF HeldHasTimer, Stale
  <2>4. CASE ~Stale(g)
    <3>1. inflight' \subseteq settled' BY <1>3, <2>4 DEF ExpireGrace, Settle
    <3>2. QED BY <2>1, <2>2, <2>4, <3>1 DEF HeldHasTimer, Stale
  <2>5. QED BY <2>3, <2>4
<1>4. CASE MainCrash BY <1>4 DEF MainCrash, TimerInv, HeldHasTimer
<1>5. CASE UNCHANGED hub BY <1>5, TimerKept DEF hub
<1>6. QED BY <1>1, <1>2, <1>3, <1>4, <1>5 DEF Next, Step, HubStep, HubFault, AllAnswered, vars

-----------------------------------------------------------------------------
(* Who owns the server                                                      *)

LEMMA OwnerFrame ==
  ASSUME UNCHANGED <<att, kicked, current>>
  PROVE  /\ OneOwner => OneOwner'
         /\ \A s : Fresh(s)' = Fresh(s) /\ Displaced(s)' = Displaced(s)
  BY DEF OneOwner, Attached, Fresh, Displaced

LEMMA Dialed ==
  ASSUME WireOK PROVE dials \in Nat /\ \A s \in Sessions : s \in Nat /\ (s <= dials <=> ~(s > dials))
  BY Numbers DEF WireOK, NoSession

LEMMA CallerSession ==
  ASSUME Types, OneOwner, NEW e \in Execs, UNCHANGED edge,
         CallerStep(e) \/ TimesOut(e) \/ HandlePost(e)
  PROVE  SessionInv' /\ OneOwner'
<1> USE DEF Types, SessionInv, CallerAt, Goes, ByCaller
<1> caller \in [Execs -> Callers] /\ queue \in [Sessions -> SUBSET Execs] /\ down \in [Sessions -> SUBSET Execs]
    /\ current \in Sessions \cup {NoSession}
  BY DEF TypeOK, HubOK, WireOK
<1>1. UNCHANGED <<att, kicked, current, dials, agent>>
  BY DEF CallerStep, Acquire, AcquireExpires, Hold, Refuse, SendSSE, SendGRPC, Return, Leave, TimesOut,
     HandlePost, wire, edge
<1>2. /\ OneOwner' /\ \A s : Fresh(s)' = Fresh(s) /\ Displaced(s)' = Displaced(s)
  BY <1>1, OwnerFrame
<1>3. CASE Hold(e)
  <2>1. caller'[e].conn \in Sessions /\ ~Fresh(caller'[e].conn) BY <1>3 DEF Hold
  <2>2. \A f \in Execs : f # e => caller'[f] = caller[f] BY <1>3 DEF Hold
  <2>3. UNCHANGED <<queue, down>> BY <1>3 DEF Hold, wire
  <2>4. QED BY <1>1, <1>2, <2>1, <2>2, <2>3
<1>4. CASE (CallerStep(e) /\ ~Hold(e)) \/ TimesOut(e) \/ HandlePost(e)
  <2>1. \A f \in Execs : caller'[f] = caller[f] \/ caller'[f].pc # "held"
    BY <1>4 DEF CallerStep, Acquire, AcquireExpires, Refuse, SendSSE, SendGRPC, Return, Leave, TimesOut,
       HandlePost, At
  <2>2. \A s \in Sessions : Fresh(s) => queue'[s] = queue[s]
    <3>1. CASE SendSSE(e) BY <3>1 DEF SendSSE
    <3>2. CASE UNCHANGED queue BY <3>2
    <3>3. QED BY <1>4, <3>1, <3>2
      DEF CallerStep, Acquire, AcquireExpires, Refuse, SendGRPC, Return, Leave, TimesOut, HandlePost
  <2>3. \A s \in Sessions : Fresh(s) => down'[s] = down[s]
    <3>1. CASE SendGRPC(e) BY <3>1 DEF SendGRPC
    <3>2. CASE UNCHANGED down BY <3>2
    <3>3. QED BY <1>4, <3>1, <3>2
      DEF CallerStep, Acquire, AcquireExpires, Refuse, SendSSE, Return, Leave, TimesOut, HandlePost, wire
  <2>4. QED BY <1>1, <1>2, <2>1, <2>2, <2>3
<1>5. QED BY <1>3, <1>4

LEMMA HandlerSession ==
  ASSUME Types, OneOwner, NEW s \in Sessions, UNCHANGED edge, SessionStep(s)
  PROVE  SessionInv' /\ OneOwner'
<1> USE DEF Types, SessionInv, AttAt, CallerAt, ByHandler
<1> /\ att \in [Sessions -> Attachments] /\ queue \in [Sessions -> SUBSET Execs]
    /\ down \in [Sessions -> SUBSET Execs] /\ current \in Sessions \cup {NoSession} /\ kicked \subseteq Sessions
  BY DEF TypeOK, HubOK, WireOK
<1>1. UNCHANGED <<dials, agent, caller>>
  BY DEF SessionStep, Greet, Attach, CloseOld, Register, WriteExec, HandleUp, Detach, DetachStale,
     Unregister, edge
<1>2. CASE Greet(s)
  <2>1. UNCHANGED <<kicked, current, queue, down>> /\ att[s].pc = "none" /\ s <= dials
        /\ att' = [att EXCEPT ![s].pc = att'[s].pc] /\ att'[s].pc \in {"greeted", "gone"}
    BY <1>2 DEF Greet, Steps, Attachments
  <2>2. \A t \in Sessions : t # s => att'[t] = att[t] BY <2>1
  <2>3. \A t : Displaced(t)' = Displaced(t) BY <2>1, <2>2 DEF Displaced
  <2>4. \A t \in Sessions : Attached(t)' = Attached(t) /\ (Fresh(t)' => Fresh(t))
    BY <2>1, <2>2 DEF Attached, Fresh
  <2>5. OneOwner' BY <2>1, <2>3, <2>4 DEF OneOwner
  <2>6. ~(s > dials) BY <2>1, Dialed DEF TypeOK
  <2>7. QED BY <1>1, <2>1, <2>2, <2>3, <2>4, <2>5, <2>6
<1>3. CASE Attach(s)
  <2>1. UNCHANGED <<kicked, queue, down>> /\ att[s].pc = "greeted" /\ current' = s
        /\ att'[s] = [pc |-> "closing", old |-> current] /\ \A t \in Sessions : t # s => att'[t] = att[t]
    BY <1>3 DEF Attach
  <2>2. \A t : Displaced(t)' <=> Displaced(t) \/ t = current BY <2>1 DEF Displaced
  <2>3. current # s /\ ~Displaced(s) BY <2>1 DEF Fresh
  <2>4. OneOwner' BY <2>1, <2>2, <2>3 DEF OneOwner, Attached
  <2>5. \A t \in Sessions : Fresh(t)' => Fresh(t) /\ t # s BY <2>1 DEF Fresh
  <2>6. QED BY <1>1, <2>1, <2>2, <2>4, <2>5 DEF Fresh
<1>4. CASE CloseOld(s)
  <2>1. UNCHANGED <<current, queue, down>> /\ att[s].pc = "closing"
        /\ kicked' = kicked \cup ({att[s].old} \ {NoSession})
        /\ att'[s] = [pc |-> "registering", old |-> NoSession] /\ \A t \in Sessions : t # s => att'[t] = att[t]
    BY <1>4 DEF CloseOld
  <2>2. \A t \in Sessions : Displaced(t)' = Displaced(t) BY <2>1, Numbers DEF Displaced
  <2>3. \A t \in Sessions : Fresh(t)' = Fresh(t) /\ Attached(t)' = Attached(t) BY <2>1 DEF Fresh, Attached
  <2>4. QED BY <1>1, <2>1, <2>2, <2>3 DEF OneOwner, Fresh
<1>5. CASE Register(s) \/ WriteExec(s) \/ HandleUp(s)
  <2>1. UNCHANGED <<current, kicked>> /\ att[s].pc \in {"registering", "serving"}
        /\ att'[s].pc = "serving" /\ \A t \in Sessions : t # s => att'[t] = att[t]
    <3>1. CASE Register(s) BY <3>1 DEF Register, Steps, Attachments
    <3>2. CASE WriteExec(s) \/ HandleUp(s) BY <3>2 DEF WriteExec, HandleUp
    <3>3. QED BY <1>5, <3>1, <3>2
  <2>2. \A t \in Sessions : t # s => queue'[t] = queue[t] /\ down'[t] = down[t]
    BY <1>5 DEF Register, WriteExec, HandleUp
  <2>3. \A t \in Sessions : Displaced(t)' = Displaced(t) BY <2>1 DEF Displaced
  <2>4. \A t \in Sessions : Fresh(t)' = Fresh(t) /\ Attached(t)' = Attached(t) BY <2>1 DEF Fresh, Attached
  <2>5. QED BY <1>1, <2>1, <2>2, <2>3, <2>4 DEF OneOwner, Fresh
<1>6. CASE Detach(s) \/ DetachStale(s) \/ Unregister(s)
  <2>1. UNCHANGED <<kicked, queue, down>> /\ att[s].pc \in {"serving", "unregistering"}
        /\ att'[s].pc \in {"unregistering", "gone"} /\ \A t \in Sessions : t # s => att'[t] = att[t]
    <3>1. CASE Detach(s) BY <3>1 DEF Detach, Ending, Steps, Attachments
    <3>2. CASE DetachStale(s) BY <3>2 DEF DetachStale, Ending, Returns, Steps, Attachments
    <3>3. CASE Unregister(s) BY <3>3 DEF Unregister, Returns, Steps, Attachments
    <3>4. QED BY <1>6, <3>1, <3>2, <3>3
  <2>2. \/ current = s /\ current' = NoSession
        \/ current # s /\ current' = current
    <3>1. current = s => att[s].pc # "unregistering" BY DEF OneOwner, Attached
    <3>2. QED BY <1>6, <3>1 DEF Detach, DetachStale, Unregister, IsCurrent
  <2>3. \A t \in Sessions : Displaced(t)' = Displaced(t) BY <2>1 DEF Displaced
  <2>4. \A t \in Sessions : Fresh(t)' = Fresh(t) BY <2>1 DEF Fresh
  <2>5. OneOwner' BY <2>1, <2>2, <2>3, Numbers DEF OneOwner, Attached
  <2>6. \A t \in Sessions : Fresh(t) => current' # t BY <2>2, Numbers
  <2>7. ~(s > dials) BY <2>1
  <2>8. QED BY <1>1, <2>1, <2>3, <2>4, <2>5, <2>6, <2>7
<1>7. QED BY <1>2, <1>3, <1>4, <1>5, <1>6 DEF SessionStep

LEMMA CrashSession ==
  ASSUME Types, OneOwner, UNCHANGED edge, MainCrash PROVE SessionInv' /\ OneOwner'
<1> USE DEF Types, SessionInv, CallerAt
<1> att \in [Sessions -> Attachments] /\ caller \in [Execs -> Callers] BY DEF TypeOK, HubOK
<1>1. UNCHANGED <<dials, agent, down>> /\ current' = NoSession /\ kicked' = {}
      /\ \A s \in Sessions : queue'[s] = {}
  BY DEF MainCrash, edge
<1>2. \A s \in Sessions : IF s <= dials THEN att'[s].pc = "gone" ELSE att'[s] = att[s] /\ att[s].pc = "none"
  <2>1. \A s \in Sessions : s <= dials <=> ~(s > dials) BY Dialed DEF TypeOK
  <2>2. ASSUME NEW s \in Sessions, s <= dials PROVE att'[s].pc = "gone"
    BY <2>2 DEF MainCrash, Attachments
  <2>3. ASSUME NEW s \in Sessions, ~(s <= dials) PROVE att'[s] = att[s] BY <2>3 DEF MainCrash
  <2>4. QED BY <2>1, <2>2, <2>3
<1>3. \A e \in Execs : caller'[e].pc # "held" BY DEF MainCrash, At
<1>4. \A s \in Sessions : ~Displaced(s)' /\ ~Attached(s)' /\ (Fresh(s)' => Fresh(s))
  BY <1>1, <1>2 DEF Displaced, Attached, Fresh
<1>5. \A s \in Sessions : s > dials => att'[s].pc = "none"
  <2>1. \A s \in Sessions : s <= dials <=> ~(s > dials) BY Dialed DEF TypeOK
  <2>2. QED BY <1>2, <2>1
<1>6. OneOwner' BY <1>1, <1>4, Numbers DEF OneOwner
<1>7. QED BY <1>1, <1>3, <1>4, <1>5, <1>6, Numbers

LEMMA AgentSession ==
  ASSUME Types, OneOwner, UNCHANGED hub, AgentStep \/ Redial \/ AgentFault PROVE SessionInv' /\ OneOwner'
<1> USE DEF Types, SessionInv, CallerAt
<1> /\ att \in [Sessions -> Attachments] /\ down \in [Sessions -> SUBSET Execs]
    /\ agent \in [pc : {"offline", "dialing", "up"}, sess : Sessions \cup {NoSession}]
  BY DEF TypeOK, HubOK, WireOK, AgentOK
<1>1. UNCHANGED <<att, kicked, current, queue, caller>> BY DEF hub
<1>2. OneOwner' /\ \A s : Fresh(s)' = Fresh(s) /\ Displaced(s)' = Displaced(s) BY <1>1, OwnerFrame
<1>3. \A s \in Sessions : down'[s] \subseteq down[s]
  BY DEF AgentStep, Redial, AgentFault, Dial, Connect, Receive, Lose, GiveUp, Finish, Post, AckDone,
     PostFails, PostTimesOut, EdgeCrash, wire
<1>4. CASE Redial
  <2>1. PICK s \in Sessions : Dial(s) BY <1>4 DEF Redial
  <2>2. dials' = s /\ s = dials + 1 /\ agent' = [pc |-> "dialing", sess |-> s] BY <2>1 DEF Dial
  <2>3. \A t \in Sessions : t > dials' => t > dials BY <2>2, Dialed DEF TypeOK
  <2>4. QED BY <1>1, <1>2, <1>3, <2>2, <2>3, Numbers
<1>5. CASE AgentStep \/ AgentFault
  <2>1. UNCHANGED dials
    BY <1>5 DEF AgentStep, AgentFault, Connect, Receive, Lose, GiveUp, Finish, Post, AckDone,
       PostFails, PostTimesOut, EdgeCrash, wire
  <2>2. \/ UNCHANGED agent
        \/ agent' = [pc |-> "offline", sess |-> NoSession]
        \/ agent.pc = "dialing" /\ agent' = [agent EXCEPT !.pc = "up"]
    BY <1>5 DEF AgentStep, AgentFault, Connect, Receive, Lose, GiveUp, Finish, Post, AckDone,
       PostFails, PostTimesOut, EdgeCrash, Ends, ByTask
  <2>3. QED BY <1>1, <1>2, <1>3, <2>1, <2>2
<1>6. QED BY <1>4, <1>5

LEMMA SessionStays ==
  ASSUME Types, OneOwner, UNCHANGED <<att, kicked, current, dials, agent, queue, down, caller>>
  PROVE  SessionInv' /\ OneOwner'
<1>1. OneOwner' /\ \A s : Fresh(s)' = Fresh(s) /\ Displaced(s)' = Displaced(s) BY OwnerFrame
<1>2. QED BY <1>1 DEF Types, SessionInv, CallerAt

LEMMA OwnerStep == ASSUME Types, OneOwner, [Next]_vars PROVE SessionInv' /\ OneOwner'
<1>1. ASSUME NEW g \in timers, ExpireGrace(g), UNCHANGED edge PROVE SessionInv' /\ OneOwner'
  BY <1>1, SessionStays DEF ExpireGrace, wire, edge
<1>2. CASE Network /\ UNCHANGED <<hub, edge>>
  <2>1. UNCHANGED <<dials, down>> BY <1>2 DEF Network, Cut, LosePost
  <2>2. QED BY <1>2, <2>1, SessionStays DEF hub, edge
<1>3. CASE UNCHANGED vars BY <1>3, SessionStays DEF vars, wire, hub, edge
<1>4. QED BY <1>1, <1>2, <1>3, CallerSession, HandlerSession, CrashSession, AgentSession, TypeStep
  DEF Next, Step, HubStep, HubFault, AllAnswered

-----------------------------------------------------------------------------
(* Where executions and their results are                                   *)

Kept == ExecInv /\ ResultKept

\* Nothing reaches anybody that was not on its way, and main forgets no
\* result it has been given.
LEMMA ExecFrame ==
  ASSUME TypeOK, Kept, UNCHANGED <<caller, inflight, sse>>, settled \subseteq settled',
         \A e \in Execs : Seen(e)' => Seen(e),
         \A e \in Execs : e \in acks' => e \in acks \/ e \notin inflight \/ e \in settled',
         \A e \in Execs : e \in Unacked => e \in Unacked' \/ Forgotten(e)' \/ (e \in acks /\ e \in reported),
         \A e \in Execs : e \in reported' => e \in reported \/ e \in Unacked' \/ ~sse,
         forgotten \subseteq forgotten'
  PROVE  Kept'
<1>1. ExecInv' BY DEF Kept, ExecInv, CallerAt
<1>2. \A e \in Execs : Forgotten(e) => Forgotten(e)' BY DEF Forgotten
<1>3. ResultKept' BY <1>2 DEF Kept, ExecInv, ResultKept, CallerAt
<1>4. QED BY <1>1, <1>3 DEF Kept

LEMMA CallerExec ==
  ASSUME Types, Kept, NEW f \in Execs, CallerStep(f) \/ TimesOut(f), UNCHANGED edge PROVE Kept'
<1> USE DEF CallerAt, Goes
<1> /\ caller \in [Execs -> Callers] /\ queue \in [Sessions -> SUBSET Execs]
    /\ down \in [Sessions -> SUBSET Execs]
  BY DEF Types, TypeOK, HubOK, WireOK
<1>1. UNCHANGED <<running, pending, forgotten, sse, posts, acks, reported>>
  BY DEF CallerStep, Acquire, AcquireExpires, Hold, Refuse, SendSSE, SendGRPC, Return, Leave, TimesOut,
     wire, edge
<1>2. UNCHANGED Unacked BY <1>1 DEF Unacked
<1>3. ASSUME NEW e \in Execs, e # f
      PROVE  /\ caller'[e] = caller[e] /\ (e \in inflight => e \in inflight') /\ (e \in settled' <=> e \in settled)
             /\ Seen(e)' => Seen(e)
  <2>1. caller'[e] = caller[e] /\ (e \in inflight => e \in inflight') /\ (e \in settled' <=> e \in settled)
    BY <1>3 DEF CallerStep, Acquire, AcquireExpires, Hold, Refuse, SendSSE, SendGRPC, Return, Leave, TimesOut
  <2>2. \A s \in Sessions : e \in queue'[s] => e \in queue[s]
    BY <1>3 DEF CallerStep, Acquire, AcquireExpires, Hold, Refuse, SendSSE, SendGRPC, Return, Leave, TimesOut
  <2>3. \A s \in Sessions : e \in down'[s] => e \in down[s]
    BY <1>3 DEF CallerStep, Acquire, AcquireExpires, Hold, Refuse, SendSSE, SendGRPC, Return, Leave,
       TimesOut, wire
  <2>4. QED BY <1>1, <1>2, <2>1, <2>2, <2>3 DEF Seen
<1>4. /\ caller'[f].pc \in {"held", "waiting", "leaving"} => f \in inflight'
      /\ caller'[f].pc = "waiting" => caller[f].pc = "held"
      /\ UNCHANGED <<queue, down>> \/ caller'[f].pc \in {"waiting", "leaving"}
      /\ Seen(f)' => caller'[f].pc \in {"waiting", "leaving", "over"}
  <2> USE DEF Kept, ExecInv
  <2>1. CASE Acquire(f) \/ AcquireExpires(f) \/ Hold(f) \/ Refuse(f)
    <3>1. UNCHANGED <<queue, down>> /\ caller[f].pc \in {"acquire", "acquired"}
      BY <2>1 DEF Acquire, AcquireExpires, Hold, Refuse, wire
    <3>2. ~Seen(f)' BY <1>1, <1>2, <3>1 DEF Seen
    <3>3. /\ caller'[f].pc \in {"acquired", "over", "held"} /\ (caller'[f].pc = "held" => f \in inflight')
      BY <2>1 DEF Acquire, AcquireExpires, Hold, Refuse, At
    <3>4. QED BY <3>1, <3>2, <3>3
  <2>2. CASE SendSSE(f) \/ SendGRPC(f)
    <3>1. caller[f].pc = "held" /\ caller'[f].pc \in {"waiting", "leaving"} /\ UNCHANGED inflight
      BY <2>2 DEF SendSSE, SendGRPC, At
    <3>2. QED BY <3>1
  <2>3. CASE Return(f) \/ TimesOut(f) \/ Leave(f)
    <3>1. /\ UNCHANGED <<queue, down>> /\ caller'[f].pc \in {"leaving", "over"}
          /\ caller'[f].pc = "leaving" => caller[f].pc = "waiting" /\ UNCHANGED inflight
      BY <2>3 DEF Return, TimesOut, Leave, At, wire
    <3>2. QED BY <3>1
  <2>4. QED BY <2>1, <2>2, <2>3 DEF CallerStep
<1>5. caller'[f].pc = "waiting" => f \notin acks' /\ f \notin reported'
  BY <1>1, <1>4 DEF Kept, ExecInv, Seen
<1>6. ExecInv' BY <1>1, <1>3, <1>4, <1>5 DEF Kept, ExecInv
<1>7. \A e \in Execs : Forgotten(e)' = Forgotten(e) BY <1>1 DEF Forgotten
<1>8. ResultKept' BY <1>1, <1>2, <1>3, <1>5, <1>7 DEF Kept, ResultKept
<1>9. QED BY <1>6, <1>8 DEF Kept

LEMMA HandlerExec ==
  ASSUME Types, Kept, UNCHANGED edge,
         \/ \E s \in Sessions : SessionStep(s)
         \/ \E g \in timers : ExpireGrace(g)
  PROVE  Kept'
<1>1. /\ UNCHANGED <<caller, inflight, sse, posts, acks, reported, running, pending, forgotten>>
      /\ settled \subseteq settled'
  BY DEF SessionStep, Greet, Attach, CloseOld, Register, WriteExec, HandleUp, Detach, DetachStale,
     Unregister, ByHandler, ExpireGrace, Settle, wire, edge
<1>2. UNCHANGED Unacked BY <1>1 DEF Unacked
<1>3. ASSUME NEW e \in Execs, NEW s \in Sessions, e \in queue'[s] \cup down'[s]
      PROVE e \in queue[s] \cup down[s]
  <2>1. CASE UNCHANGED <<queue, down>> BY <1>3, <2>1
  <2>2. ASSUME NEW t \in Sessions, WriteExec(t) PROVE e \in queue[s] \cup down[s]
    <3>1. PICK f \in queue[t] :
            /\ queue' = [queue EXCEPT ![t] = @ \ {f}]
            /\ down' = IF t \in cut THEN down ELSE [down EXCEPT ![t] = @ \cup {f}]
      BY <2>2 DEF WriteExec
    <3>2. queue \in [Sessions -> SUBSET Execs] /\ down \in [Sessions -> SUBSET Execs]
      BY DEF Types, TypeOK, HubOK, WireOK
    <3>3. CASE s = t BY <1>3, <3>1, <3>2, <3>3
    <3>4. CASE s # t BY <1>3, <3>1, <3>2, <3>4
    <3>5. QED BY <3>3, <3>4
  <2>3. QED BY <2>1, <2>2
    DEF SessionStep, Greet, Attach, CloseOld, Register, HandleUp, Detach, DetachStale, Unregister,
        ExpireGrace, wire
<1>4. \A e \in Execs : Seen(e)' => Seen(e) BY <1>1, <1>2, <1>3 DEF Seen
<1>5. QED BY <1>1, <1>2, <1>4, ExecFrame DEF Types

LEMMA PostExec ==
  ASSUME Types, Kept, UNCHANGED edge, NEW f \in Execs, HandlePost(f) PROVE Kept'
<1>1. /\ UNCHANGED <<caller, inflight, sse, reported, running, pending, forgotten, queue, down>>
      /\ settled' = settled \cup ({f} \cap inflight) /\ acks' = acks \cup {f} /\ posts' = posts \ {f}
      /\ f \in posts
  BY DEF HandlePost, Settle, edge
<1>2. UNCHANGED Unacked BY <1>1 DEF Unacked
<1>3. \A e \in Execs : Seen(e)' => Seen(e) BY <1>1, <1>2 DEF Seen
<1>4. QED BY <1>1, <1>2, <1>3, ExecFrame DEF Types

LEMMA CrashExec == ASSUME Types, Kept, UNCHANGED edge, MainCrash PROVE Kept'
<1>1. /\ UNCHANGED <<sse, reported, running, pending, forgotten, down>>
      /\ acks' = {} /\ posts' = {} /\ \A s \in Sessions : queue'[s] = {}
  BY DEF MainCrash, edge
<1>2. \A e \in Execs : caller'[e].pc = "over" \/ (caller'[e] = caller[e] /\ caller[e].pc = "acquire")
  BY DEF MainCrash, At, CallerAt
<1>3. \A e \in Execs : Seen(e)' => Seen(e) BY <1>1 DEF Seen, Unacked
<1>4. QED BY <1>1, <1>2, <1>3 DEF Kept, ExecInv, ResultKept, CallerAt

LEMMA LoopExec ==
  ASSUME Types, Kept, UNCHANGED hub,
         (\E s \in Sessions : Dial(s)) \/ Connect \/ (\E e \in Execs : Receive(e)) \/ Lose \/ GiveUp
  PROVE  Kept'
<1>1. UNCHANGED <<caller, inflight, settled, queue, sse, posts, acks, reported, pending, forgotten>>
  BY DEF Dial, Connect, Receive, Lose, GiveUp, hub, wire, ByLoop
<1>2. UNCHANGED Unacked BY <1>1 DEF Unacked
<1>3. \A e \in Execs : Seen(e)' => Seen(e)
  <2>1. CASE UNCHANGED <<down, running>> BY <1>1, <1>2, <2>1 DEF Seen
  <2>2. ASSUME NEW f \in Execs, Receive(f) PROVE \A e \in Execs : Seen(e)' => Seen(e)
    <3>1. /\ f \in down[agent.sess] /\ down' = [down EXCEPT ![agent.sess] = @ \ {f}]
          /\ running' \subseteq running \cup {f} /\ agent.pc = "up"
      BY <2>2 DEF Receive
    <3>2. agent.sess \in Sessions /\ down \in [Sessions -> SUBSET Execs]
      BY <3>1, OnLine DEF Types, TypeOK, WireOK
    <3>3. \A s \in Sessions : down'[s] \subseteq down[s] BY <3>1, <3>2
    <3>4. QED BY <1>1, <1>2, <3>1, <3>2, <3>3 DEF Seen
  <2>3. QED BY <2>1, <2>2 DEF Dial, Connect, Lose, GiveUp, wire
<1>4. QED BY <1>1, <1>2, <1>3, ExecFrame DEF Types

LEMMA TaskExec ==
  ASSUME Types, Kept, UNCHANGED hub, NEW f \in Execs,
         Finish(f) \/ Post(f) \/ AckDone(f) \/ PostFails(f) \/ PostTimesOut(f)
  PROVE  Kept'
<1> USE DEF Types, TypeOK
<1>0. UNCHANGED <<caller, inflight, settled, queue, down, sse>>
  BY DEF Finish, Post, AckDone, PostFails, PostTimesOut, hub, wire
<1>1. CASE Finish(f)
  <2>1. /\ f \in running /\ running' = running \ {f} /\ reported' = reported \cup {f}
        /\ UNCHANGED <<posts, acks>> /\ IF sse THEN Buffer(f) ELSE UNCHANGED <<pending, forgotten>>
    BY <1>1 DEF Finish
  <2>2. /\ forgotten \subseteq forgotten' /\ Unacked' \subseteq Unacked \cup {f} /\ (sse => f \in Unacked')
        /\ \A e \in Execs : e \in Unacked => e \in Unacked' \/ <<e, "evicted">> \in forgotten'
    <3>1. CASE sse BY <2>1, <3>1, Buffered
    <3>2. CASE ~sse BY <2>1, <3>2 DEF Unacked
    <3>3. QED BY <3>1, <3>2
  <2>3. \A e \in Execs : Seen(e)' => Seen(e) BY <1>0, <2>1, <2>2 DEF Seen
  <2>4. \A e \in Execs : e \in Unacked => e \in Unacked' \/ Forgotten(e)' BY <2>2 DEF Forgotten
  <2>5. QED BY <1>0, <2>1, <2>2, <2>3, <2>4, ExecFrame
<1>2. CASE AckDone(f)
  <2>1. /\ UNCHANGED <<running, forgotten, posts, reported>> /\ acks' \subseteq acks
        /\ f \in acks /\ Unacked' \subseteq Unacked /\ Unacked \subseteq Unacked' \cup {f}
    BY <1>2, Acknowledged DEF AckDone, Acked
  <2>2. \A e \in Execs : Seen(e)' => Seen(e) BY <1>0, <2>1 DEF Seen
  <2>3. ExecInv' BY <1>0, <2>1, <2>2 DEF Kept, ExecInv, CallerAt
  <2>4. \A e \in Execs : Forgotten(e)' = Forgotten(e) BY <2>1 DEF Forgotten
  <2>5. ResultKept' BY <1>0, <2>1, <2>4 DEF Kept, ExecInv, ResultKept, CallerAt
  <2>6. QED BY <2>3, <2>5 DEF Kept
<1>3. CASE Post(f)
  <2>1. /\ UNCHANGED <<running, pending, forgotten, reported>> /\ acks' \subseteq acks
        /\ posts' = posts \cup {f} /\ f = pending[1] /\ pending # <<>>
    BY <1>3 DEF Post, Head
  <2>2. UNCHANGED Unacked BY <2>1 DEF Unacked
  <2>3. f \in Unacked
    <3>1. In(Head(pending), pending) BY <2>1, Shifted DEF AgentOK
    <3>2. QED BY <1>3, <3>1, UnackedIn DEF Post
  <2>4. \A e \in Execs : Seen(e)' => Seen(e) BY <1>0, <2>1, <2>2, <2>3 DEF Seen
  <2>5. QED BY <1>0, <2>1, <2>2, <2>4, ExecFrame
<1>4. CASE PostFails(f) \/ PostTimesOut(f)
  <2>1. UNCHANGED <<running, pending, forgotten, reported, posts, acks>>
    BY <1>4 DEF PostFails, PostTimesOut, wire
  <2>2. UNCHANGED Unacked BY <2>1 DEF Unacked
  <2>3. \A e \in Execs : Seen(e)' => Seen(e) BY <1>0, <2>1, <2>2 DEF Seen
  <2>4. QED BY <1>0, <2>1, <2>2, <2>3, ExecFrame
<1>5. QED BY <1>1, <1>2, <1>3, <1>4

LEMMA ExecStep == ASSUME Types, Kept, [Next]_vars PROVE Kept'
<1>1. CASE EdgeCrash /\ UNCHANGED hub
  <2>1. /\ UNCHANGED <<caller, inflight, settled, queue, down, sse, posts, acks, reported>>
        /\ running' = {} /\ pending' = <<>>
        /\ forgotten' = forgotten \cup ((running \cup Unacked) \X {"crash"})
    BY <1>1 DEF EdgeCrash, hub
  <2>2. Unacked' = {} BY <2>1 DEF Unacked
  <2>3. \A e \in Execs : Seen(e)' => Seen(e) BY <2>1, <2>2 DEF Seen
  <2>4. \A e \in Execs : e \in Unacked => Forgotten(e)' BY <2>1 DEF Forgotten
  <2>5. QED BY <2>1, <2>2, <2>3, <2>4, ExecFrame DEF Types
<1>2. CASE Network /\ UNCHANGED <<hub, edge>>
  <2>1. /\ UNCHANGED <<caller, inflight, settled, queue, down, sse, reported, running, pending, forgotten>>
        /\ posts' \subseteq posts /\ acks' \subseteq acks
    BY <1>2 DEF Network, Cut, LosePost, hub, edge
  <2>2. UNCHANGED Unacked BY <2>1 DEF Unacked
  <2>3. \A e \in Execs : Seen(e)' => Seen(e) BY <2>1, <2>2 DEF Seen
  <2>4. QED BY <2>1, <2>2, <2>3, ExecFrame DEF Types
<1>3. CASE UNCHANGED vars
  <2>1. /\ UNCHANGED <<caller, inflight, settled, queue, down, sse, reported, running, pending, forgotten>>
        /\ UNCHANGED <<posts, acks>>
    BY <1>3 DEF vars, wire, hub, edge
  <2>2. UNCHANGED Unacked BY <2>1 DEF Unacked
  <2>3. \A e \in Execs : Seen(e)' => Seen(e) BY <2>1, <2>2 DEF Seen
  <2>4. QED BY <2>1, <2>2, <2>3, ExecFrame DEF Types
<1>4. QED BY <1>1, <1>2, <1>3, CallerExec, HandlerExec, PostExec, CrashExec, LoopExec, TaskExec
  DEF Next, Step, HubStep, HubFault, AgentStep, AgentFault, Redial, AllAnswered

-----------------------------------------------------------------------------
(* What the edge claims                                                     *)

LEMMA FreshBefore ==
  ASSUME Types, NEW s \in Sessions, HubStep \/ HubFault, Fresh(s)' PROVE Fresh(s)
<1> USE DEF Fresh
<1> att \in [Sessions -> Attachments] BY DEF Types, TypeOK, HubOK
<1>1. ASSUME NEW e \in Execs, CallerStep(e) \/ TimesOut(e) \/ HandlePost(e) PROVE Fresh(s)
  BY <1>1 DEF CallerStep, Acquire, AcquireExpires, Hold, Refuse, SendSSE, SendGRPC, Return, Leave,
     TimesOut, HandlePost, ByCaller
<1>2. ASSUME NEW g \in timers, ExpireGrace(g) PROVE Fresh(s) BY <1>2 DEF ExpireGrace
<1>3. ASSUME NEW t \in Sessions, SessionStep(t) PROVE Fresh(s)
  <2>1. CASE s # t
    <3>1. att'[s] = att[s]
      BY <1>3, <2>1 DEF SessionStep, Greet, Attach, CloseOld, Register, WriteExec, HandleUp, Detach,
         DetachStale, Unregister, Steps, Returns
    <3>2. QED BY <3>1
  <2>2. CASE s = t
    <3>1. att[t].pc \in {"none", "greeted"}
          \/ att'[t].pc \in {"closing", "registering", "serving", "unregistering", "gone"}
      <4>1. CASE Greet(t) BY <4>1 DEF Greet, AttAt
      <4>2. CASE Attach(t) BY <4>2 DEF Attach, AttAt
      <4>3. CASE CloseOld(t) \/ Register(t) BY <4>3 DEF CloseOld, Register, Steps, Attachments
      <4>4. CASE WriteExec(t) \/ HandleUp(t) BY <4>4 DEF WriteExec, HandleUp, AttAt
      <4>5. CASE Detach(t) BY <4>5 DEF Detach, Steps, Attachments
      <4>6. CASE DetachStale(t) \/ Unregister(t)
        BY <4>6 DEF DetachStale, Unregister, Returns, Steps, Attachments
      <4>7. QED BY <1>3, <4>1, <4>2, <4>3, <4>4, <4>5, <4>6 DEF SessionStep
    <3>2. QED BY <2>2, <3>1
  <2>3. QED BY <2>1, <2>2
<1>4. CASE MainCrash BY <1>4 DEF MainCrash
<1>5. QED BY <1>1, <1>2, <1>3, <1>4 DEF HubStep, HubFault

LEMMA ClaimFrame ==
  ASSUME ClaimInv, UNCHANGED <<sse, dials, claims>>, \A s \in Sessions : Fresh(s)' => Fresh(s),
         running' \cup Unacked' \subseteq running \cup Unacked
  PROVE  ClaimInv'
  BY DEF ClaimInv

LEMMA ClaimHub ==
  ASSUME Types, ClaimInv, HubStep \/ HubFault, UNCHANGED edge PROVE ClaimInv'
<1>1. UNCHANGED <<sse, dials, claims>>
  BY DEF HubStep, HubFault, CallerStep, Acquire, AcquireExpires, Hold, Refuse, SendSSE, SendGRPC,
     Return, Leave, TimesOut, HandlePost, ExpireGrace, MainCrash, SessionStep, Greet, Attach, CloseOld,
     Register, WriteExec, HandleUp, Detach, DetachStale, Unregister, ByHandler, wire
<1>2. running' \cup Unacked' \subseteq running \cup Unacked BY DEF edge, Unacked
<1>3. QED BY <1>1, <1>2, FreshBefore, ClaimFrame

LEMMA ClaimAgent ==
  ASSUME Types, ClaimInv, UNCHANGED hub, AgentStep \/ Redial \/ AgentFault PROVE ClaimInv'
<1>0. \A s : Fresh(s)' = Fresh(s) BY DEF hub, Fresh
<1>1. ASSUME NEW s \in Sessions, Dial(s) PROVE ClaimInv'
  <2>1. /\ UNCHANGED <<sse, running, pending>> /\ dials' = s
        /\ claims' = [claims EXCEPT ![s] = Advertised]
    BY <1>1 DEF Dial, ByLoop
  <2>2. sse => claims'[s] = running \cup Unacked
    BY <2>1 DEF Advertised, InflightIDs, Types, TypeOK, WireOK
  <2>3. UNCHANGED Unacked BY <2>1 DEF Unacked
  <2>4. QED BY <2>1, <2>2, <2>3 DEF ClaimInv
<1>2. ASSUME NEW e \in Execs, Receive(e) PROVE ClaimInv'
  <2>1. agent.sess \in Sessions /\ agent.sess = dials /\ e \in down[agent.sess]
    BY <1>2, OnLine DEF Receive
  <2>2. ~Fresh(dials) BY <2>1 DEF Types, SessionInv
  <2>3. UNCHANGED dials BY <1>2 DEF Receive
  <2>4. QED BY <1>0, <2>2, <2>3 DEF ClaimInv
<1>3. CASE (AgentStep \/ AgentFault) /\ ~\E e \in Execs : Receive(e)
  <2>1. UNCHANGED <<sse, dials, claims>>
    BY <1>3 DEF AgentStep, AgentFault, Connect, Lose, GiveUp, Finish, Post, AckDone, PostFails,
       PostTimesOut, EdgeCrash, wire
  <2>2. running' \cup Unacked' \subseteq running \cup Unacked
    <3>1. CASE UNCHANGED <<running, pending>> BY <3>1 DEF Unacked
    <3>2. ASSUME NEW e \in Execs, Finish(e) PROVE running' \cup Unacked' \subseteq running \cup Unacked
      <4>1. e \in running /\ running' \subseteq running /\ (Buffer(e) \/ UNCHANGED pending)
        BY <3>2 DEF Finish
      <4>2. CASE Buffer(e) BY <4>1, <4>2, Buffered DEF Types, TypeOK
      <4>3. CASE UNCHANGED pending BY <4>1, <4>3 DEF Unacked
      <4>4. QED BY <4>1, <4>2, <4>3
    <3>3. ASSUME NEW e \in Execs, AckDone(e) PROVE running' \cup Unacked' \subseteq running \cup Unacked
      BY <3>3, Acknowledged DEF Types, TypeOK, AckDone
    <3>4. CASE EdgeCrash BY <3>4 DEF EdgeCrash, Unacked
    <3>5. QED BY <1>3, <3>1, <3>2, <3>3, <3>4
      DEF AgentStep, AgentFault, Connect, Lose, GiveUp, Post, PostFails, PostTimesOut, ByLoop
  <2>3. QED BY <1>0, <2>1, <2>2, ClaimFrame
<1>4. QED BY <1>1, <1>2, <1>3 DEF Redial

LEMMA ClaimStep == ASSUME Types, ClaimInv, [Next]_vars PROVE ClaimInv'
<1>1. CASE (Network /\ UNCHANGED <<hub, edge>>) \/ UNCHANGED vars
  <2>1. UNCHANGED <<sse, dials, claims, att, running, pending>>
    BY <1>1 DEF Network, Cut, LosePost, vars, wire, hub, edge
  <2>2. (\A s : Fresh(s)' = Fresh(s)) /\ UNCHANGED Unacked BY <2>1 DEF Fresh, Unacked
  <2>3. QED BY <2>1, <2>2, ClaimFrame
<1>2. QED BY <1>1, ClaimHub, ClaimAgent DEF Next, Step, AllAnswered

-----------------------------------------------------------------------------
(* The theorems                                                             *)

Whole == TypeOK /\ LinkInv

LEMMA InitWhole == ASSUME Init PROVE Whole
<1> USE DEF Init, WireInit, HubInit, AgentInit
<1>1. WireOK BY DEF WireOK
<1>2. HubOK
  <2>1. att \in [Sessions -> Attachments] BY DEF Attachments, AttPcs
  <2>2. caller \in [Execs -> Callers] BY Pcs DEF CallerPcs
  <2>3. QED BY <2>1, <2>2 DEF HubOK
<1>3. AgentOK BY AgentAssumption, EmptySeq DEF AgentOK
<1>4. Unacked = {} BY DEF Unacked
<1>5. SessionInv /\ OneOwner
  <2>1. \A s : ~Displaced(s) /\ (s \in Sessions => ~Attached(s) /\ current # s /\ Fresh(s))
    BY Numbers DEF Displaced, Attached, Fresh
  <2>2. OneOwner BY <2>1 DEF OneOwner
  <2>3. QED BY <2>1, <2>2 DEF SessionInv, CallerAt, At
<1>6. TimerInv /\ HeldHasTimer BY DEF TimerInv, HeldHasTimer
<1>7. ExecInv /\ ResultKept BY <1>4 DEF ExecInv, ResultKept, Seen, CallerAt, At
<1>8. ClaimInv BY <1>4 DEF ClaimInv
<1>9. QED BY <1>1, <1>2, <1>3, <1>5, <1>6, <1>7, <1>8 DEF Whole, LinkInv, TypeOK

LEMMA WholeStep == ASSUME Whole, [Next]_vars PROVE Whole'
<1> USE DEF Whole, LinkInv
<1>1. TypeOK' BY TypeStep DEF Types
<1>2. QED BY <1>1, OwnerStep, TimerStep, ExecStep, ClaimStep DEF Types, Kept

LEMMA WholeHolds == Spec => []Whole
<1>1. Whole /\ [Next]_vars => Whole' BY WholeStep
<1>2. QED BY InitWhole, <1>1, PTL DEF Spec

\* The types of main, the edge and the wire between them.
THEOREM LinkTypes == Spec => []TypeOK
  BY WholeHolds, PTL DEF Whole

\* Of the sessions an edge has attached, the server belongs to the last one,
\* whichever handlers are still closing, registering or detaching (hub.go:127-212).
THEOREM LastAttachedOwns == Spec => []OneOwner
<1>1. Whole => OneOwner BY DEF Whole, LinkInv
<1>2. QED BY <1>1, WholeHolds, PTL

\* While the edge is away somebody gives up on what it holds, and no timer of
\* an earlier absence is left to give up on what it has come back for
\* (hub.go:203-239).
THEOREM AwayIsTimed == Spec => []HeldHasTimer
<1>1. Whole => HeldHasTimer BY DEF Whole, LinkInv
<1>2. QED BY <1>1, WholeHolds, PTL

\* The edge keeps a result until main has it, whatever is cut, lost or late
\* (agent.go:270-353).
THEOREM ResultsAreKept == Spec => []ResultKept
<1>1. Whole => ResultKept BY DEF Whole, LinkInv
<1>2. QED BY <1>1, WholeHolds, PTL

LEMMA OrphanStep ==
  ASSUME Whole, NEW s \in Sessions, sse, Attaching(s), s = dials, NEW e \in Orphans(s)
  PROVE  ~EdgeHas(e)
<1> USE DEF Whole, LinkInv
<1>1. Fresh(s) BY DEF Attaching, Fresh
<1>2. running \cup Unacked \subseteq claims[s] BY <1>1 DEF ClaimInv
<1>3. e \notin running \cup Unacked BY <1>2 DEF Orphans
<1>4. agent.pc = "up" => down[agent.sess] = {}
  <2>1. agent.pc = "up" => agent.sess = s BY DEF SessionInv
  <2>2. QED BY <1>1, <2>1 DEF SessionInv
<1>5. QED BY <1>3, <1>4 DEF EdgeHas

\* What main fails because a returning edge does not claim it is nothing the
\* edge still has (hub.go:156-187).
THEOREM OrphansAreLost == Spec => OrphansOfLastDial
<1>1. Whole => \A s \in Sessions : sse /\ Attaching(s) /\ s = dials => \A e \in Orphans(s) : ~EdgeHas(e)
  BY OrphanStep
<1>2. QED BY <1>1, WholeHolds, PTL DEF OrphansOfLastDial
=============================================================================
