----------------------------- MODULE LogProofs -----------------------------
(***************************************************************************)
(* Theorems about the log of a deploy, from the edge to its follower, for  *)
(* any number of lines and any capacity of the buffer and the channels.    *)
(***************************************************************************)
EXTENDS Updates, SequenceTheorems, TLAPS

-----------------------------------------------------------------------------
(* Sequences                                                                *)

LEMMA Appending ==
  ASSUME NEW S, NEW s \in Seq(S), NEW e \in S
  PROVE  /\ Append(s, e) \in Seq(S) /\ Len(Append(s, e)) = Len(s) + 1
         /\ Range(Append(s, e)) = Range(s) \cup {e}
         /\ IsInjective(s) /\ e \notin Range(s) => IsInjective(Append(s, e))
         /\ \A k \in 1..Len(s) : Append(s, e)[k] = s[k]
         /\ Append(s, e)[Len(s) + 1] = e
<1> DEFINE t == Append(s, e)
<1>1. /\ t \in Seq(S) /\ Len(t) = Len(s) + 1 /\ Len(s) \in Nat
      /\ \A k \in 1..Len(s) : t[k] = s[k]
      /\ t[Len(s) + 1] = e
  BY AppendProperties, LenProperties
<1> HIDE DEF t
<1>2. Range(t) = {t[k] : k \in 1..Len(t)} /\ Range(s) = {s[k] : k \in 1..Len(s)}
  BY <1>1, RangeEquality
<1>3. 1..Len(t) = 1..Len(s) \cup {Len(s) + 1} BY <1>1
<1>4. Range(t) = Range(s) \cup {e} BY <1>1, <1>2, <1>3
<1>5. ASSUME IsInjective(s), e \notin Range(s) PROVE IsInjective(t)
  <2>1. DOMAIN s = 1..Len(s) /\ DOMAIN t = 1..Len(t) BY <1>1
  <2>2. \A k \in 1..Len(s) : s[k] # e BY <1>2, <1>5
  <2>3. QED BY <1>1, <1>3, <1>5, <2>1, <2>2 DEF IsInjective
<1>6. QED BY <1>1, <1>4, <1>5 DEF t

LEMMA Taking ==
  ASSUME NEW S, NEW s \in Seq(S), s # <<>>
  PROVE  /\ Head(s) \in S /\ Head(s) = s[1] /\ Tail(s) \in Seq(S)
         /\ Len(s) \in Nat \ {0} /\ Len(Tail(s)) = Len(s) - 1
         /\ \A k \in 1..Len(Tail(s)) : Tail(s)[k] = s[k + 1]
         /\ Range(s) = {Head(s)} \cup Range(Tail(s))
         /\ IsInjective(s) => IsInjective(Tail(s)) /\ Head(s) \notin Range(Tail(s))
<1> DEFINE t == Tail(s)
<1>1. /\ Head(s) \in S /\ Head(s) = s[1] /\ t \in Seq(S)
      /\ Len(s) \in Nat \ {0} /\ Len(t) = Len(s) - 1
      /\ \A k \in 1..Len(t) : t[k] = s[k + 1]
  BY HeadTailProperties, EmptySeq
<1> HIDE DEF t
<1>2. Range(t) = {t[k] : k \in 1..Len(t)} /\ Range(s) = {s[k] : k \in 1..Len(s)}
  BY <1>1, RangeEquality
<1>3. /\ \A k \in 1..Len(t) : k + 1 \in 1..Len(s) /\ k + 1 # 1 /\ t[k] = s[k + 1]
      /\ \A k \in 1..Len(s) : k = 1 \/ (k - 1 \in 1..Len(t) /\ s[k] = t[k - 1])
      /\ 1 \in 1..Len(s)
  BY <1>1
<1>4. Range(s) = {Head(s)} \cup Range(t)
  <2>1. Range(s) \subseteq {Head(s)} \cup Range(t) BY <1>1, <1>2, <1>3
  <2>2. Head(s) \in Range(s) /\ Range(t) \subseteq Range(s) BY <1>1, <1>2, <1>3
  <2>3. QED BY <2>1, <2>2
<1>5. ASSUME IsInjective(s) PROVE IsInjective(t) /\ Head(s) \notin Range(t)
  <2>1. DOMAIN s = 1..Len(s) /\ DOMAIN t = 1..Len(t) BY <1>1
  <2>2. \A a, b \in 1..Len(s) : s[a] = s[b] => a = b BY <1>5, <2>1 DEF IsInjective
  <2>3. ASSUME NEW a \in 1..Len(t), NEW b \in 1..Len(t), t[a] = t[b] PROVE a = b
    <3>1. a + 1 = b + 1 BY <1>3, <2>2, <2>3
    <3>2. QED BY <3>1
  <2>4. \A k \in 1..Len(t) : t[k] # s[1] BY <1>3, <2>2
  <2>5. QED BY <1>1, <1>2, <2>1, <2>3, <2>4 DEF IsInjective
<1>6. QED BY <1>1, <1>4, <1>5 DEF t

LEMMA Sending ==
  ASSUME NEW S, NEW g \in Seq(S), NEW o \in Seq(S), NEW e \in S
  PROVE  g \o Append(o, e) = Append(g \o o, e)
<1>1. <<e>> \in Seq(S) /\ g \o o \in Seq(S) BY ConcatProperties
<1>2. Append(o, e) = o \o <<e>> /\ Append(g \o o, e) = (g \o o) \o <<e>> BY <1>1, AppendIsConcat
<1>3. QED BY <1>1, <1>2, ConcatAssociative

LEMMA Passing ==
  ASSUME NEW S, NEW g \in Seq(S), NEW o \in Seq(S), o # <<>>
  PROVE  Append(g, Head(o)) \o Tail(o) = g \o o
<1>1. Head(o) \in S /\ Tail(o) \in Seq(S) /\ <<Head(o)>> \in Seq(S) BY Taking
<1>2. o = <<Head(o)>> \o Tail(o)
  <2> DEFINE h == <<Head(o)>>
  <2>1. Len(h) = 1 /\ h[1] = Head(o) OBVIOUS
  <2>2. h \o Tail(o) \in Seq(S) /\ Len(h \o Tail(o)) = 1 + Len(Tail(o))
        /\ \A k \in 1..1 + Len(Tail(o)) : (h \o Tail(o))[k] = IF k <= 1 THEN h[k] ELSE Tail(o)[k - 1]
    BY <1>1, <2>1, ConcatProperties
  <2> HIDE DEF h
  <2>3. /\ Len(o) \in Nat \ {0} /\ Len(Tail(o)) = Len(o) - 1 /\ Head(o) = o[1]
        /\ \A k \in 1..Len(Tail(o)) : Tail(o)[k] = o[k + 1]
    BY Taking
  <2>4. \A k \in 1..Len(o) : o[k] = (h \o Tail(o))[k] BY <2>1, <2>2, <2>3
  <2>5. o = h \o Tail(o) BY <2>2, <2>3, <2>4, SeqEqual
  <2>6. QED BY <2>5 DEF h
<1>3. Append(g, Head(o)) = g \o <<Head(o)>> BY <1>1, AppendIsConcat
<1>4. QED BY <1>1, <1>2, <1>3, ConcatAssociative

-----------------------------------------------------------------------------
(* The steps of the log and its follower within those of the system         *)

LogStep ==
  \/ \E w \in Writers : FindSink(w) \/ AppendLine(w) \/ AppendFails(w) \/ PublishLine(w)
  \/ Stamp \/ PublishDone \/ Reclaim \/ FollowerStep \/ Cancel \/ Take

LEMMA Composed == [NextAll]_allVars => LogStep \/ UNCHANGED vars
<1> SUFFICES ASSUME [NextAll]_allVars PROVE LogStep \/ UNCHANGED vars OBVIOUS
<1>1. CASE EdgeStep \/ Break \/ HandleDone
  BY <1>1 DEF EdgeStep, Say, End, Flush, LeaveLoop, ReportOther, ReportDone, Break, HandleDone
<1>2. CASE Settles \/ Over \/ Streaming \/ ((Reclaim \/ Cancel \/ Take \/ Quiet) /\ UNCHANGED edge)
  BY <1>2 DEF Settles, Over, Streaming, LogStep, Quiet
<1>3. ASSUME NEW w \in Writers, PostFails(w) \/ TimesOut(w) \/ MainStep(w)
      PROVE  LogStep \/ UNCHANGED vars
  BY <1>3 DEF PostFails, TimesOut, MainStep, Arrives, HandleLog, DropLog, StoreLog, StoreFails, Streams,
              Answer, LogStep
<1>4. CASE UNCHANGED allVars BY <1>4 DEF allVars
<1>5. QED BY <1>1, <1>2, <1>3, <1>4 DEF NextAll

LEMMA Numbers ==
  /\ Events \subseteq Nat /\ Lines \subseteq Events /\ NoLine = 0 /\ DoneEvent \in Events
  /\ \A e \in Events : e = DoneEvent \/ e \in Lines
  /\ \A l \in Lines : l # DoneEvent /\ l > 0 /\ l <= MaxLines /\ l \in Nat
  /\ DoneEvent = 0 /\ MaxLines \in Nat
  BY LinesAssumption DEF Events, Lines, DoneEvent, NoLine

LEMMA Publishing ==
  ASSUME TypeOK, NEW ev \in Events, Publish(ev)
  PROVE  /\ sub' \in Seq(Events) /\ Len(sub') <= SubCap /\ missed' \subseteq Events
         /\ Range(sub') \subseteq Range(sub) \cup {ev} /\ missed \subseteq missed'
         /\ Range(sub) \subseteq Range(sub')
         /\ IsInjective(sub) /\ ev \notin Range(sub) => IsInjective(sub')
         /\ IF Subscribed THEN ev \in Range(sub') \cup missed' ELSE sub' = sub
<1> SubCap \in Nat BY CapsAssumption
<1> sub \in Seq(Events) /\ Len(sub) \in Nat /\ Len(sub) <= SubCap /\ missed \subseteq Events
  BY LenProperties DEF TypeOK
<1>1. CASE ~Subscribed BY <1>1 DEF Publish
<1>2. CASE Subscribed /\ Room
  <2>1. sub' = Append(sub, ev) /\ missed' = missed BY <1>2 DEF Publish
  <2>2. Len(sub) + 1 <= SubCap BY <1>2 DEF Room
  <2>3. QED BY <1>2, <2>1, <2>2, Appending
<1>3. CASE Subscribed /\ ~Room BY <1>3 DEF Publish
<1>4. QED BY <1>1, <1>2, <1>3

LEMMA TypeStep == TypeOK /\ WritersInv /\ (LogStep \/ UNCHANGED vars) => TypeOK'
<1> SUFFICES ASSUME TypeOK, WritersInv, LogStep \/ UNCHANGED vars PROVE TypeOK' OBVIOUS
<1> USE LinesAssumption, CapsAssumption
<1> Lines \subseteq Events /\ DoneEvent \in Events /\ Lines \subseteq Nat BY Numbers
<1>1. ASSUME NEW w \in Writers, FindSink(w) \/ AppendFails(w) PROVE TypeOK'
  <2>1. PICK pc \in {"idle", "held"} : writer' = [writer EXCEPT ![w].pc = pc]
    BY <1>1 DEF FindSink, AppendFails
  <2>2. writer' = [writer EXCEPT ![w] = [writer[w] EXCEPT !.pc = pc]] BY <2>1
  <2>3. [writer[w] EXCEPT !.pc = pc] \in [pc : {"idle", "held", "stored"}, line : Lines \cup {NoLine}]
    BY DEF TypeOK
  <2>4. writer' \in [Writers -> [pc : {"idle", "held", "stored"}, line : Lines \cup {NoLine}]]
    BY <2>2, <2>3 DEF TypeOK
  <2>5. QED BY <1>1, <2>4 DEF FindSink, AppendFails, ByWriter, TypeOK
<1>2. ASSUME NEW w \in Writers, AppendLine(w) PROVE TypeOK'
  <2>1. lines' = lines + 1 /\ lines' \in 0..MaxLines /\ lines + 1 \in Lines
    BY <1>2 DEF AppendLine, TypeOK, Lines
  <2>2. QED BY <1>2, <2>1 DEF AppendLine, ByWriter, TypeOK
<1>3. ASSUME NEW w \in Writers, PublishLine(w) PROVE TypeOK'
  <2>1. writer[w].line \in Events /\ Publish(writer[w].line) /\ writer[w].line \in Lines \cup {NoLine}
    BY <1>3 DEF PublishLine, TypeOK, NoLine, DoneEvent
  <2>2. sub' \in Seq(Events) /\ Len(sub') <= SubCap /\ missed' \subseteq Events BY <2>1, Publishing
  <2>3. writer' \in [Writers -> [pc : {"idle", "held", "stored"}, line : Lines \cup {NoLine}]]
    BY <1>3 DEF PublishLine, TypeOK
  <2>4. ASSUME deploy = "running" PROVE before' \subseteq Lines
    BY <1>3, <2>1, <2>4 DEF PublishLine, TypeOK, WritersInv
  <2>5. QED BY <1>3, <2>2, <2>3, <2>4 DEF PublishLine, ByWriter, TypeOK
<1>4. CASE Stamp \/ Reclaim BY <1>4 DEF Stamp, Reclaim, TypeOK
<1>5. CASE PublishDone
  <2>1. sub' \in Seq(Events) /\ Len(sub') <= SubCap /\ missed' \subseteq Events
    BY <1>5, Publishing DEF PublishDone
  <2>2. QED BY <1>5, <2>1 DEF PublishDone, TypeOK
<1>6. CASE Open \/ Subscribe \/ GoLive \/ Cancel
  BY <1>6 DEF Open, Subscribe, GoLive, Cancel, Goes, ByFollower, TypeOK, FollowerPcs
<1>7. CASE ReadRows
  <2>1. Stored \in Seq(Lines)
    <3>1. CASE gone BY <3>1, EmptySeq DEF Stored
    <3>2. CASE ~gone
      <4>1. lines \in Nat /\ \A k \in 1..lines : k \in Lines BY DEF TypeOK, Lines
      <4>2. [k \in 1..lines |-> k] \in Seq(Lines) BY <4>1, IsASeq
      <4>3. QED BY <3>2, <4>2 DEF Stored
    <3>3. QED BY <3>1, <3>2
  <2>2. QED BY <1>7, <2>1 DEF ReadRows, ByFollower, TypeOK, FollowerPcs
<1>8. ASSUME NEW ev \in Events, Send(ev)
      PROVE  out' \in Seq(Events) /\ Len(out') <= OutCap
  <2>1. out \in Seq(Events) /\ Len(out) \in Nat /\ Len(out) < OutCap /\ out' = Append(out, ev)
    BY <1>8, LenProperties DEF Send, TypeOK
  <2>2. QED BY <2>1, Appending
<1>9. CASE Replay
  <2>1. follower.replay \in Seq(Lines) /\ follower.replay # <<>> BY <1>9 DEF Replay, TypeOK
  <2>2. Head(follower.replay) \in Lines /\ Tail(follower.replay) \in Seq(Lines) BY <2>1, Taking
  <2>3. out' \in Seq(Events) /\ Len(out') <= OutCap BY <1>8, <1>9, <2>2 DEF Replay
  <2>4. QED BY <1>9, <2>2, <2>3 DEF Replay, ByFollower, TypeOK
<1>10. CASE EndsAtOnce
  BY <1>8, <1>10 DEF EndsAtOnce, Goes, ByFollower, TypeOK, FollowerPcs
<1>11. CASE Skip
  <2>1. sub' \in Seq(Events) /\ Len(sub') <= SubCap
    <3>1. sub \in Seq(Events) /\ sub # <<>> /\ sub' = Tail(sub) /\ Len(sub) <= SubCap BY <1>11 DEF Skip, TypeOK
    <3>2. QED BY <3>1, Taking
  <2>2. QED BY <1>11, <2>1 DEF Skip, ByFollower, TypeOK
<1>12. CASE Forward
  <2>1. sub \in Seq(Events) /\ sub # <<>> /\ sub' = Tail(sub) /\ Len(sub) <= SubCap /\ Send(Head(sub))
    BY <1>12 DEF Forward, TypeOK
  <2>2. Head(sub) \in Events /\ sub' \in Seq(Events) /\ Len(sub') <= SubCap BY <2>1, Taking
  <2>3. out' \in Seq(Events) /\ Len(out') <= OutCap BY <1>8, <2>1, <2>2
  <2>4. QED BY <1>12, <2>2, <2>3 DEF Forward, Goes, ByFollower, TypeOK, FollowerPcs
<1>13. CASE Take
  <2>1. out \in Seq(Events) /\ out # <<>> /\ out' = Tail(out) /\ Len(out) <= OutCap
        /\ got' = Append(got, Head(out)) /\ got \in Seq(Events)
    BY <1>13 DEF Take, TypeOK
  <2>2. Head(out) \in Events /\ out' \in Seq(Events) /\ Len(out') <= OutCap BY <2>1, Taking
  <2>3. got' \in Seq(Events) BY <2>1, <2>2, Appending
  <2>4. QED BY <1>13, <2>2, <2>3 DEF Take, TypeOK
<1>14. CASE UNCHANGED vars BY <1>14 DEF vars, TypeOK
<1>15. QED
  BY <1>1, <1>2, <1>3, <1>4, <1>5, <1>6, <1>7, <1>9, <1>10, <1>11, <1>12, <1>13, <1>14
     DEF LogStep, FollowerStep

-----------------------------------------------------------------------------
(* Writers                                                                  *)

FollowInv ==
  TypeOK /\ WritersInv /\ SubInv /\ ReplayInv /\ SentInv /\ NoRepeats /\ Accounted

\* What the writers' steps leave alone, and the follower's.
FollowerAlone == UNCHANGED <<follower, out, got>>

\* A step that publishes nothing and stores nothing changes what is published
\* only by ending the deploy, and nothing else but that or its retention.
LEMMA QuietStep ==
  ASSUME FollowInv, UNCHANGED <<lines, sub, missed, before, follower, out, got>>,
         \A w \in Writers : writer'[w].line = writer[w].line,
         deploy = "over" => deploy' = "over", deploy # "running" => deploy' # "running",
         gone => gone'
  PROVE  SubInv' /\ ReplayInv' /\ SentInv' /\ NoRepeats' /\ Accounted'
<1>1. \A l : InTransit(l)' <=> InTransit(l) BY DEF InTransit
<1>2. \A ev : Published(ev) => Published(ev)' BY <1>1 DEF Published
<1>3. SubInv' BY <1>2 DEF FollowInv, SubInv
<1>4. ReplayInv' /\ NoRepeats' BY DEF FollowInv, ReplayInv, NoRepeats, Sent
<1>5. SentInv' BY <1>2 DEF FollowInv, SentInv, Sent
<1>6. Accounted' BY <1>1 DEF FollowInv, Accounted, OnItsWay, Sent
<1>7. QED BY <1>3, <1>4, <1>5, <1>6

LEMMA HoldStep ==
  ASSUME FollowInv, NEW w \in Writers, FindSink(w) \/ AppendFails(w)
  PROVE  FollowInv'
<1>1. PICK pc \in {"idle", "held"} : writer' = [writer EXCEPT ![w].pc = pc]
  BY DEF FindSink, AppendFails
<1>2. writer[w].pc # "stored" BY DEF FindSink, AppendFails
<1>3. writer \in [Writers -> [pc : {"idle", "held", "stored"}, line : Lines \cup {NoLine}]]
  BY DEF FollowInv, TypeOK
<1>4. \A v \in Writers : writer'[v].line = writer[v].line
                         /\ (writer'[v].pc = "stored" <=> writer[v].pc = "stored")
  BY <1>1, <1>2, <1>3
<1>5. UNCHANGED <<lines, sub, missed, before, follower, out, got, deploy, gone>>
  BY DEF FindSink, AppendFails, ByWriter
<1>6. WritersInv' BY <1>4, <1>5 DEF FollowInv, WritersInv
<1>7. TypeOK' BY TypeStep DEF FollowInv, LogStep
<1>8. QED BY <1>4, <1>5, <1>6, <1>7, QuietStep DEF FollowInv

LEMMA EndStep ==
  ASSUME FollowInv, Stamp \/ Reclaim PROVE FollowInv'
<1>1. /\ UNCHANGED <<lines, writer, sub, missed, before, follower, out, got>>
      /\ deploy = "over" => deploy' = "over"
      /\ deploy # "running" => deploy' # "running"
      /\ gone => gone'
  BY DEF Stamp, Reclaim
<1>2. WritersInv' BY <1>1 DEF FollowInv, WritersInv
<1>3. TypeOK' BY TypeStep DEF FollowInv, LogStep
<1>4. QED BY <1>1, <1>2, <1>3, QuietStep DEF FollowInv

LEMMA AppendStep ==
  ASSUME FollowInv, NEW w \in Writers, AppendLine(w) PROVE FollowInv'
<1> USE Numbers
<1> DEFINE new == lines + 1
<1>1. /\ lines' = new /\ writer' = [writer EXCEPT ![w] = [pc |-> "stored", line |-> new]]
      /\ UNCHANGED <<sub, missed, before, deploy, gone, follower, out, got>>
      /\ writer[w].pc = "held" /\ ~gone /\ lines \in Nat
  BY DEF AppendLine, ByWriter, FollowInv, TypeOK
<1>2. /\ writer \in [Writers -> [pc : {"idle", "held", "stored"}, line : Lines \cup {NoLine}]]
      /\ \A v \in Writers : writer[v].line \in Nat /\ writer[v].line <= lines
      /\ writer[w].line = NoLine
  BY <1>1 DEF FollowInv, TypeOK, WritersInv
<1>3. writer'[w].line = new /\ writer'[w].pc = "stored" /\ \A v \in Writers \ {w} : writer'[v] = writer[v]
  BY <1>1, <1>2
<1>4. WritersInv'
  <2>1. ASSUME NEW v \in Writers
        PROVE  /\ writer'[v].pc = "stored" <=> writer'[v].line # NoLine
               /\ writer'[v].line <= lines'
    BY <1>1, <1>2, <1>3 DEF FollowInv, WritersInv
  <2>2. ASSUME NEW u \in Writers, NEW v \in Writers, writer'[u].line = writer'[v].line
        PROVE  u = v \/ writer'[u].line = NoLine
    BY <2>2, <1>1, <1>2, <1>3 DEF FollowInv, WritersInv
  <2>3. QED BY <2>1, <2>2 DEF WritersInv
<1>5. \A ev \in Nat : ev <= lines => (InTransit(ev)' <=> InTransit(ev)) \/ ev = NoLine
  BY <1>1, <1>2, <1>3 DEF InTransit
<1>6. \A ev \in Events : Published(ev) => Published(ev)'
  BY <1>1, <1>5 DEF Published
<1>7. Range(sub) \subseteq Events /\ before \subseteq Events /\ Range(Sent) \subseteq Events
  <2>1. Sent \in Seq(Events) BY ConcatProperties DEF Sent, FollowInv, TypeOK
  <2>2. QED BY <2>1, RangeOfSeq DEF FollowInv, TypeOK
<1>8. SubInv' BY <1>1, <1>6, <1>7 DEF FollowInv, SubInv
<1>9. ReplayInv'
  <2>1. follower.max \in Nat /\ Len(follower.replay) \in Nat BY LenProperties DEF FollowInv, TypeOK
  <2>2. follower.max + Len(follower.replay) <= new BY <1>1, <2>1 DEF FollowInv, ReplayInv
  <2>3. QED BY <1>1, <2>2 DEF FollowInv, ReplayInv, Sent
<1>10. NoRepeats' BY <1>1 DEF FollowInv, NoRepeats, Sent
<1>11. SentInv' BY <1>1, <1>6, <1>7 DEF FollowInv, SentInv, Sent
<1>12. Accounted'
  <2>1. ASSUME NEW l \in 1..new PROVE l = new \/ l \in 1..lines BY <1>1
  <2>2. \A l : l = new => InTransit(l)' BY <1>3 DEF InTransit
  <2>3. \A l \in 1..lines : InTransit(l) => InTransit(l)' BY <1>1, <1>5
  <2>4. OnItsWay' = OnItsWay /\ Sent' = Sent BY <1>1 DEF OnItsWay, Sent
  <2>5. QED BY <1>1, <2>1, <2>2, <2>3, <2>4 DEF FollowInv, Accounted
<1>13. TypeOK' BY TypeStep DEF FollowInv, LogStep
<1>14. QED BY <1>4, <1>8, <1>9, <1>10, <1>11, <1>12, <1>13 DEF FollowInv

\* What publishing an event that was not published before does to all but the
\* writers.
LEMMA PublishStep ==
  ASSUME FollowInv, NEW ev \in Events, Publish(ev), ~Published(ev), Published(ev)',
         UNCHANGED <<lines, gone, follower, out, got>>,
         \A w \in Writers : writer'[w].line \in {writer[w].line, NoLine},
         \A w \in Writers : writer'[w].line # writer[w].line => writer[w].line = ev,
         before \subseteq before', before' \subseteq before \cup {ev},
         deploy # "running" => deploy' # "running" /\ before' = before,
         deploy = "over" => deploy' = "over"
  PROVE  SubInv' /\ ReplayInv' /\ SentInv' /\ NoRepeats' /\ Accounted'
<1> USE Numbers
<1>1. ev \notin Range(sub) /\ IsInjective(sub) BY DEF FollowInv, SubInv
<1>2. /\ Range(sub') \subseteq Range(sub) \cup {ev} /\ missed \subseteq missed'
      /\ Range(sub) \subseteq Range(sub') /\ IsInjective(sub')
      /\ IF Subscribed THEN ev \in Range(sub') \cup missed' ELSE sub' = sub
  BY <1>1, Publishing DEF FollowInv
<1>3. ASSUME NEW e, Published(e) PROVE Published(e)'
  <2>1. InTransit(e)' => InTransit(e) \/ e = NoLine BY DEF InTransit
  <2>2. QED BY <1>3, <2>1 DEF Published
<1>4. SubInv'
  <2>1. ~Subscribed => sub' = sub BY <1>2
  <2>2. follower.pc \in {"start", "opened"} => ~Subscribed BY DEF Subscribed
  <2>3. QED BY <1>2, <1>3, <2>1, <2>2 DEF FollowInv, SubInv
<1>5. ReplayInv' /\ NoRepeats' BY DEF FollowInv, ReplayInv, NoRepeats, Sent
<1>6. SentInv' BY <1>2, <1>3 DEF FollowInv, SentInv, Sent
<1>7. Accounted'
  <2>1. OnItsWay \subseteq OnItsWay' BY <1>2 DEF OnItsWay, Sent
  <2>2. ASSUME follower.pc \in {"replaying", "live"}, ~gone, NEW l \in 1..lines
        PROVE  l \in OnItsWay' \/ InTransit(l)'
    <3>1. CASE l \in OnItsWay BY <2>1, <3>1
    <3>2. CASE InTransit(l)
      <4>1. PICK w \in Writers : writer[w].line = l BY <3>2 DEF InTransit
      <4>2. CASE writer'[w].line = l BY <4>2 DEF InTransit
      <4>3. CASE writer'[w].line # l
        <5>1. l = ev BY <4>1, <4>3
        <5>2. ev \in Range(sub') \cup missed' BY <1>2, <2>2 DEF Subscribed
        <5>3. QED BY <5>1, <5>2 DEF OnItsWay
      <4>4. QED BY <4>2, <4>3
    <3>3. QED BY <2>2, <3>1, <3>2 DEF FollowInv, Accounted
  <2>3. Sent' = Sent BY DEF Sent
  <2>4. ASSUME DoneEvent \in Range(Sent)'
        PROVE  deploy' # "running" /\ (gone' \/ before' \subseteq OnItsWay')
    BY <2>1, <2>3, <2>4 DEF FollowInv, Accounted
  <2>5. QED BY <2>2, <2>4 DEF Accounted
<1>8. QED BY <1>4, <1>5, <1>6, <1>7

LEMMA PublishLineStep ==
  ASSUME FollowInv, NEW w \in Writers, PublishLine(w) PROVE FollowInv'
<1> USE Numbers
<1>0. PICK ev \in Lines : ev = writer[w].line
  <2>1. writer[w].pc = "stored" BY DEF PublishLine
  <2>2. QED BY <2>1 DEF FollowInv, TypeOK, WritersInv
<1>1. /\ Publish(ev) /\ writer' = [writer EXCEPT ![w] = [pc |-> "idle", line |-> NoLine]]
      /\ before' = IF deploy = "running" THEN before \cup {ev} ELSE before
      /\ UNCHANGED <<lines, deploy, gone, follower, out, got>>
  BY <1>0 DEF PublishLine, ByWriter
<1>2. writer \in [Writers -> [pc : {"idle", "held", "stored"}, line : Lines \cup {NoLine}]]
  BY DEF FollowInv, TypeOK
<1>3. ev \in Lines /\ ev # DoneEvent /\ ev <= lines
  BY <1>0 DEF FollowInv, WritersInv
<1>4. /\ writer'[w].line = NoLine /\ writer'[w].pc = "idle"
      /\ \A v \in Writers \ {w} : writer'[v] = writer[v] /\ writer[v].line # ev
  BY <1>0, <1>1, <1>2, <1>3 DEF FollowInv, WritersInv
<1>5. WritersInv'
  <2>1. ASSUME NEW v \in Writers
        PROVE  /\ writer'[v].pc = "stored" <=> writer'[v].line # NoLine
               /\ writer'[v].line <= lines'
    <3>1. lines \in Nat BY DEF FollowInv, TypeOK
    <3>2. QED BY <1>1, <1>4, <3>1 DEF FollowInv, WritersInv
  <2>2. ASSUME NEW u \in Writers, NEW v \in Writers, writer'[u].line = writer'[v].line
        PROVE  u = v \/ writer'[u].line = NoLine
    BY <2>2, <1>4 DEF FollowInv, WritersInv
  <2>3. QED BY <2>1, <2>2 DEF WritersInv
<1>6. ~Published(ev) BY <1>0, <1>3 DEF Published, InTransit
<1>7. Published(ev)'
  <2>1. ~InTransit(ev)' BY <1>3, <1>4 DEF InTransit
  <2>2. QED BY <1>1, <1>3, <2>1 DEF Published
<1>8. TypeOK' BY TypeStep DEF FollowInv, LogStep
<1>9. /\ \A v \in Writers : writer'[v].line \in {writer[v].line, NoLine}
      /\ \A v \in Writers : writer'[v].line # writer[v].line => writer[v].line = ev
  BY <1>0, <1>4
<1>10. /\ before \subseteq before' /\ before' \subseteq before \cup {ev}
       /\ deploy # "running" => deploy' # "running" /\ before' = before
  BY <1>1
<1>11. SubInv' /\ ReplayInv' /\ SentInv' /\ NoRepeats' /\ Accounted'
  BY <1>1, <1>3, <1>6, <1>7, <1>9, <1>10, PublishStep
<1>12. QED BY <1>5, <1>8, <1>11 DEF FollowInv

LEMMA PublishDoneStep == ASSUME FollowInv, PublishDone PROVE FollowInv'
<1> USE Numbers
<1>1. /\ deploy = "stamped" /\ deploy' = "over" /\ Publish(DoneEvent)
      /\ UNCHANGED <<lines, writer, gone, before, follower, out, got>>
  BY DEF PublishDone
<1>2. ~Published(DoneEvent) /\ Published(DoneEvent)' BY <1>1 DEF Published
<1>3. WritersInv' BY <1>1 DEF FollowInv, WritersInv
<1>4. TypeOK' BY TypeStep DEF FollowInv, LogStep
<1>5. SubInv' /\ ReplayInv' /\ SentInv' /\ NoRepeats' /\ Accounted'
  BY <1>1, <1>2, PublishStep
<1>6. QED BY <1>3, <1>4, <1>5 DEF FollowInv

-----------------------------------------------------------------------------
(* The follower                                                             *)

LEMMA SentIs ==
  ASSUME TypeOK
  PROVE  /\ Sent \in Seq(Events) /\ Range(Sent) \subseteq Events
         /\ Len(Sent) \in Nat /\ DOMAIN Sent = 1..Len(Sent)
         /\ Range(Sent) = {Sent[k] : k \in 1..Len(Sent)}
<1>1. Sent \in Seq(Events) BY ConcatProperties DEF TypeOK, Sent
<1>2. QED BY <1>1, RangeOfSeq, LenProperties, RangeEquality

LEMMA SendStep ==
  ASSUME TypeOK, NoRepeats, NEW ev \in Events, Send(ev), UNCHANGED got,
         ev \notin Range(Sent), DoneEvent \notin Range(Sent)
  PROVE  NoRepeats' /\ Range(Sent)' = Range(Sent) \cup {ev}
<1>1. got \in Seq(Events) /\ out \in Seq(Events) BY DEF TypeOK
<1>2. Sent' = Append(Sent, ev) BY <1>1, Sending DEF Send, Sent
<1> DEFINE s == Sent
           t == Sent'
<1>3. /\ s \in Seq(Events) /\ Len(s) \in Nat /\ IsInjective(s)
      /\ \A k \in 1..Len(s) : s[k] # DoneEvent
  BY SentIs DEF NoRepeats
<1> HIDE DEF s, t
<1>4. /\ t \in Seq(Events) /\ Len(t) = Len(s) + 1 /\ Range(t) = Range(s) \cup {ev} /\ IsInjective(t)
      /\ \A k \in 1..Len(s) : t[k] = s[k]
  BY <1>2, <1>3, Appending DEF s, t
<1>5. DOMAIN t = 1..Len(t) BY <1>4, LenProperties
<1>6. \A k \in DOMAIN t : t[k] = DoneEvent => k = Len(t) BY <1>3, <1>4, <1>5
<1>7. QED BY <1>4, <1>6 DEF NoRepeats, s, t

LEMMA FollowerFrame ==
  ASSUME FollowInv, ByFollower, FollowerStep \/ Cancel
  PROVE  /\ TypeOK' /\ WritersInv' /\ \A ev : Published(ev)' <=> Published(ev)
         /\ \A l : InTransit(l)' <=> InTransit(l)
<1>1. TypeOK' BY TypeStep DEF FollowInv, LogStep
<1>2. WritersInv' BY DEF ByFollower, FollowInv, WritersInv
<1>3. \A l : InTransit(l)' <=> InTransit(l) BY DEF ByFollower, InTransit
<1>4. \A ev : Published(ev)' <=> Published(ev) BY <1>3 DEF ByFollower, Published
<1>5. QED BY <1>1, <1>2, <1>3, <1>4

LEMMA FollowerIs ==
  ASSUME TypeOK, NEW pc \in FollowerPcs, Goes(pc)
  PROVE  follower'.pc = pc /\ follower'.replay = follower.replay /\ follower'.max = follower.max
  BY DEF TypeOK, Goes

\* Going on to the next phase without an event.
LEMMA TurnStep ==
  ASSUME FollowInv, Open \/ Subscribe \/ GoLive \/ Cancel PROVE FollowInv'
<1>1. PICK pc \in FollowerPcs :
        /\ Goes(pc)
        /\ pc \in {"start", "opened"} => follower.pc = "start"
        /\ pc = "subscribed" => follower.pc = "opened"
        /\ pc = "live" => follower.pc = "replaying"
        /\ pc # "replaying"
  BY DEF Open, Subscribe, GoLive, Cancel, FollowerPcs
<1>2. ByFollower /\ UNCHANGED <<sub, out>> BY DEF Open, Subscribe, GoLive, Cancel
<1>3. follower'.pc = pc /\ follower'.replay = follower.replay /\ follower'.max = follower.max
  BY <1>1, FollowerIs DEF FollowInv
<1>4. /\ TypeOK' /\ WritersInv' /\ \A ev : Published(ev)' <=> Published(ev)
      /\ \A l : InTransit(l)' <=> InTransit(l)
  BY <1>2, FollowerFrame DEF FollowerStep
<1>5. UNCHANGED <<lines, deploy, gone, missed, before, got, sub, out>> BY <1>2 DEF ByFollower
<1>6. Sent' = Sent BY <1>5 DEF Sent
<1>7. SubInv' BY <1>1, <1>3, <1>4, <1>5 DEF FollowInv, SubInv
<1>8. ReplayInv' BY <1>1, <1>3, <1>5, <1>6 DEF FollowInv, ReplayInv
<1>9. NoRepeats' BY <1>6 DEF FollowInv, NoRepeats
<1>10. SentInv'
  <2>1. CASE pc = "live"
    <3>1. follower.pc = "replaying" BY <1>1, <2>1
    <3>2. 1..follower.max \subseteq Range(Sent) /\ DoneEvent \notin Range(Sent)
          /\ \A ev \in Range(Sent) : ~(ev > follower.max)
      BY <3>1 DEF FollowInv, SentInv
    <3>3. QED BY <1>3, <1>6, <3>2 DEF SentInv
  <2>2. CASE pc # "live" BY <2>2, <1>1, <1>3 DEF SentInv
  <2>3. QED BY <2>1, <2>2
<1>11. OnItsWay' = OnItsWay BY <1>3, <1>5, <1>6 DEF OnItsWay
<1>12. Accounted' BY <1>1, <1>3, <1>4, <1>5, <1>6, <1>11 DEF FollowInv, Accounted
<1>13. QED BY <1>4, <1>7, <1>8, <1>9, <1>10, <1>12 DEF FollowInv

LEMMA ReadStep == ASSUME FollowInv, ReadRows PROVE FollowInv'
<1> USE Numbers
<1>1. /\ follower.pc = "subscribed" /\ UNCHANGED <<sub, out>> /\ ByFollower
      /\ follower' = [follower EXCEPT !.pc = "replaying", !.replay = Stored]
  BY DEF ReadRows
<1>2. follower'.pc = "replaying" /\ follower'.replay = Stored /\ follower'.max = follower.max
  BY <1>1 DEF FollowInv, TypeOK
<1>3. follower.max = 0 /\ Sent = <<>> /\ lines \in Nat BY <1>1 DEF FollowInv, ReplayInv, TypeOK
<1>4. /\ TypeOK' /\ WritersInv' /\ \A ev : Published(ev)' <=> Published(ev)
      /\ \A l : InTransit(l)' <=> InTransit(l)
  BY <1>1, FollowerFrame DEF FollowerStep
<1>5. UNCHANGED <<lines, deploy, gone, missed, before, got, sub, out>> BY <1>1 DEF ByFollower
<1>6. Sent' = <<>> /\ Range(Sent)' = {} BY <1>3, <1>5 DEF Sent, Range
<1>7. SubInv' BY <1>2, <1>4, <1>5 DEF FollowInv, SubInv
<1> DEFINE r == Stored
<1>8. /\ Len(r) \in Nat /\ Len(r) <= lines /\ DOMAIN r = 1..Len(r) /\ \A k \in 1..Len(r) : r[k] = k
      /\ ~gone => Len(r) = lines /\ Range(r) = 1..lines
  <2>1. CASE gone BY <2>1, <1>3 DEF Stored
  <2>2. CASE ~gone
    <3>1. r = [k \in 1..lines |-> k] BY <2>2 DEF Stored
    <3>2. Len(r) = lines BY <3>1, <1>3
    <3>3. QED BY <3>1, <3>2, <1>3 DEF Range
  <2>3. QED BY <2>1, <2>2
<1> HIDE DEF r
<1>9. ReplayInv'
  <2>1. follower'.max = 0 /\ follower'.replay = r /\ lines' = lines BY <1>2, <1>3, <1>5 DEF r
  <2>2. \A n \in Nat : 0 + n = n OBVIOUS
  <2>3. 0 + Len(r) = Len(r) /\ \A k \in 1..Len(r) : 0 + k = k BY <1>8, <2>2
  <2>4. 0 + Len(r) <= lines /\ \A k \in DOMAIN r : r[k] = 0 + k BY <1>8, <2>3
  <2>5. QED BY <1>2, <2>1, <2>4 DEF ReplayInv
<1>10. SentInv' BY <1>2, <1>3, <1>6 DEF SentInv
<1>11. NoRepeats'
  <2>1. Sent' = Sent BY <1>3, <1>6
  <2>2. QED BY <2>1 DEF FollowInv, NoRepeats
<1>12. Accounted' BY <1>2, <1>5, <1>6, <1>8 DEF Accounted, OnItsWay, r
<1>13. QED BY <1>4, <1>7, <1>9, <1>10, <1>11, <1>12 DEF FollowInv

LEMMA ReplayStep == ASSUME FollowInv, Replay PROVE FollowInv'
<1> USE Numbers
<1>0. /\ follower.replay \in Seq(Lines) /\ follower.replay # <<>> /\ follower.pc = "replaying"
      /\ follower.max \in Nat
  BY DEF Replay, FollowInv, TypeOK
<1>1. PICK ev \in Lines : ev = Head(follower.replay) BY <1>0, Taking
<1> DEFINE r == follower.replay
           t == Tail(follower.replay)
<1>2. /\ Send(ev) /\ UNCHANGED sub /\ ByFollower
      /\ follower' = [follower EXCEPT !.replay = t, !.max = ev]
  BY <1>1 DEF Replay
<1>3. follower'.pc = "replaying" /\ follower'.replay = t /\ follower'.max = ev
  BY <1>0, <1>2 DEF FollowInv, TypeOK
<1>4. /\ TypeOK' /\ WritersInv' /\ \A e : Published(e)' <=> Published(e)
      /\ \A l : InTransit(l)' <=> InTransit(l)
  BY <1>2, FollowerFrame DEF FollowerStep
<1>5. UNCHANGED <<lines, deploy, gone, missed, before, got, sub>> BY <1>2 DEF ByFollower
<1>6. /\ Len(r) \in Nat \ {0} /\ t \in Seq(Lines) /\ Len(t) = Len(r) - 1 /\ ev = r[1]
      /\ \A k \in 1..Len(t) : t[k] = r[k + 1]
      /\ Range(r) = {ev} \cup Range(t)
  BY <1>0, <1>1, Taking
<1>7. /\ DOMAIN r = 1..Len(r) /\ DOMAIN t = 1..Len(t)
  BY <1>0, <1>6, LenProperties
<1>8. /\ follower.max + Len(r) <= lines /\ lines \in Nat
      /\ \A k \in 1..Len(r) : r[k] = follower.max + k
  <2>1. ReplayInv /\ lines \in Nat BY DEF FollowInv, TypeOK
  <2>2. follower.max + Len(r) <= lines /\ \A k \in DOMAIN r : r[k] = follower.max + k
    BY <2>1 DEF ReplayInv
  <2>3. QED BY <2>1, <2>2, <1>7
<1> HIDE DEF r, t
<1>9. ev = follower.max + 1 BY <1>0, <1>6, <1>8
<1>10. /\ 1..follower.max \subseteq Range(Sent) /\ DoneEvent \notin Range(Sent)
       /\ \A e \in Range(Sent) : ~(e > follower.max)
  BY <1>0 DEF FollowInv, SentInv
<1>11. ev \notin Range(Sent) /\ ev \in Events BY <1>0, <1>9, <1>10
<1>12. NoRepeats' /\ Range(Sent)' = Range(Sent) \cup {ev}
  BY <1>2, <1>5, <1>10, <1>11, SendStep DEF FollowInv
<1>13. ReplayInv'
  <2>1. ev + Len(t) <= lines BY <1>0, <1>6, <1>8, <1>9
  <2>2. \A k \in 1..Len(t) : t[k] = ev + k
    <3>1. ASSUME NEW k \in 1..Len(t) PROVE t[k] = ev + k
      <4>1. k + 1 \in 1..Len(r) /\ k \in Nat BY <1>6
      <4>2. t[k] = follower.max + (k + 1) BY <4>1, <1>6, <1>8
      <4>3. follower.max + (k + 1) = (follower.max + 1) + k BY <4>1, <1>0
      <4>4. QED BY <4>2, <4>3, <1>9
    <3>2. QED BY <3>1
  <2>3. QED BY <1>3, <1>5, <1>7, <2>1, <2>2 DEF ReplayInv
<1>14. SubInv' BY <1>0, <1>3, <1>4, <1>5 DEF FollowInv, SubInv
<1>15. SentInv'
  <2>1. 1..ev \subseteq Range(Sent)' BY <1>0, <1>9, <1>10, <1>12
  <2>2. \A e \in Range(Sent)' : ~(e > ev)
    <3>1. Range(Sent) \subseteq Nat BY SentIs DEF FollowInv
    <3>2. QED BY <3>1, <1>0, <1>9, <1>10, <1>12
  <2>3. DoneEvent \notin Range(Sent)' BY <1>1, <1>10, <1>12
  <2>4. QED BY <1>3, <2>1, <2>2, <2>3 DEF SentInv
<1>16. Accounted'
  <2>1. OnItsWay' = OnItsWay BY <1>3, <1>5, <1>6, <1>12 DEF OnItsWay, r
  <2>2. DoneEvent \notin Range(Sent)' BY <1>1, <1>10, <1>12
  <2>3. QED BY <1>0, <1>4, <1>5, <2>1, <2>2 DEF FollowInv, Accounted
<1>17. QED BY <1>4, <1>12, <1>13, <1>14, <1>15, <1>16 DEF FollowInv

\* A line that is stored and not in transit any more is on its way, to a
\* follower that reads, unless retention was faster.
LEMMA BeforeIsOnItsWay ==
  ASSUME FollowInv, follower.pc \in {"replaying", "live"}, ~gone PROVE before \subseteq OnItsWay
<1> USE Numbers
<1>1. ASSUME NEW l \in before PROVE l \in OnItsWay
  <2>1. l \in Lines BY DEF FollowInv, TypeOK
  <2>2. Published(l) BY DEF FollowInv, SubInv
  <2>3. l \in 1..lines /\ ~InTransit(l) BY <2>1, <2>2 DEF Published, FollowInv, TypeOK, Lines
  <2>4. QED BY <2>3 DEF FollowInv, Accounted
<1>2. QED BY <1>1

LEMMA EndsStep == ASSUME FollowInv, EndsAtOnce PROVE FollowInv'
<1> USE Numbers
<1>1. /\ follower.pc = "replaying" /\ deploy # "running" /\ ~gone /\ Send(DoneEvent)
      /\ Goes("closed") /\ UNCHANGED sub /\ ByFollower
  BY DEF EndsAtOnce, Finished
<1>2. follower'.pc = "closed" /\ follower'.replay = follower.replay /\ follower'.max = follower.max
  BY <1>1, FollowerIs DEF FollowInv, FollowerPcs
<1>3. /\ TypeOK' /\ WritersInv' /\ \A e : Published(e)' <=> Published(e)
      /\ \A l : InTransit(l)' <=> InTransit(l)
  BY <1>1, FollowerFrame DEF FollowerStep
<1>4. UNCHANGED <<lines, deploy, gone, missed, before, got, sub>> BY <1>1 DEF ByFollower
<1>5. DoneEvent \notin Range(Sent) BY <1>1 DEF FollowInv, SentInv
<1>6. NoRepeats' /\ Range(Sent)' = Range(Sent) \cup {DoneEvent}
  BY <1>1, <1>4, <1>5, SendStep DEF FollowInv
<1>7. SubInv' /\ ReplayInv' /\ SentInv'
  BY <1>2, <1>3, <1>4 DEF FollowInv, SubInv, ReplayInv, SentInv
<1>8. Accounted'
  <2>1. before \subseteq OnItsWay BY <1>1, BeforeIsOnItsWay
  <2>2. OnItsWay \subseteq OnItsWay' BY <1>2, <1>4, <1>6 DEF OnItsWay
  <2>3. QED BY <1>1, <1>2, <1>4, <2>1, <2>2 DEF Accounted
<1>9. QED BY <1>3, <1>6, <1>7, <1>8 DEF FollowInv

\* What the head of the subscription says, and what is behind it.
LEMMA NextEvent ==
  ASSUME FollowInv, sub # <<>>
  PROVE  /\ Head(sub) \in Events /\ Published(Head(sub)) /\ IsInjective(Tail(sub))
         /\ Range(sub) = {Head(sub)} \cup Range(Tail(sub)) /\ Head(sub) \notin Range(Tail(sub))
<1>1. sub \in Seq(Events) /\ IsInjective(sub) BY DEF FollowInv, TypeOK, SubInv
<1>2. /\ Head(sub) \in Events /\ Range(sub) = {Head(sub)} \cup Range(Tail(sub))
      /\ IsInjective(Tail(sub)) /\ Head(sub) \notin Range(Tail(sub))
  BY <1>1, Taking
<1>3. QED BY <1>2 DEF FollowInv, SubInv

LEMMA SkipStep == ASSUME FollowInv, Skip PROVE FollowInv'
<1> USE Numbers
<1>1. /\ follower.pc = "live" /\ sub # <<>> /\ sub' = Tail(sub) /\ Head(sub) # DoneEvent
      /\ Head(sub) <= follower.max /\ UNCHANGED <<follower, out>> /\ ByFollower
  BY DEF Skip, Replayed
<1>2. /\ TypeOK' /\ WritersInv' /\ \A e : Published(e)' <=> Published(e)
      /\ \A l : InTransit(l)' <=> InTransit(l)
  BY <1>1, FollowerFrame DEF FollowerStep
<1>3. UNCHANGED <<lines, deploy, gone, missed, before, got, out, follower>> BY <1>1 DEF ByFollower
<1>4. /\ Head(sub) \in Events /\ IsInjective(sub') /\ Range(sub) = {Head(sub)} \cup Range(sub')
  BY <1>1, NextEvent
<1>5. Sent' = Sent BY <1>3 DEF Sent
<1>6. SubInv' BY <1>1, <1>2, <1>3, <1>4 DEF FollowInv, SubInv
<1>7. ReplayInv' /\ NoRepeats' BY <1>3, <1>5 DEF FollowInv, ReplayInv, NoRepeats
<1>8. SentInv' BY <1>2, <1>3, <1>4, <1>5 DEF FollowInv, SentInv
<1>9. Accounted'
  <2>1. Head(sub) \in Range(Sent)
    <3>1. PICK ev \in Events : ev = Head(sub) BY <1>4
    <3>2. follower.max \in Nat BY DEF FollowInv, TypeOK
    <3>3. ev \in 1..follower.max BY <1>1, <3>1, <3>2
    <3>4. QED BY <1>1, <3>1, <3>3 DEF FollowInv, SentInv
  <2>2. OnItsWay' = OnItsWay BY <1>3, <1>4, <1>5, <2>1 DEF OnItsWay
  <2>3. QED BY <1>2, <1>3, <1>5, <2>2 DEF FollowInv, Accounted
<1>10. QED BY <1>2, <1>6, <1>7, <1>8, <1>9 DEF FollowInv

LEMMA ForwardStep == ASSUME FollowInv, Forward PROVE FollowInv'
<1> USE Numbers
<1>1. PICK ev \in Events : ev = Head(sub) BY NextEvent DEF Forward
<1>2. /\ follower.pc = "live" /\ sub # <<>> /\ sub' = Tail(sub) /\ Send(ev) /\ ByFollower
      /\ ev = DoneEvent \/ ev > follower.max
  <2>1. follower.max \in Nat BY DEF FollowInv, TypeOK
  <2>2. QED BY <1>1, <2>1 DEF Forward, Replayed
<1>3. PICK pc \in {"closed", "live"} : Goes(pc) /\ (pc = "closed" <=> ev = DoneEvent)
  BY <1>1 DEF Forward
<1>4. follower'.pc = pc /\ follower'.replay = follower.replay /\ follower'.max = follower.max
  BY <1>3, FollowerIs DEF FollowInv, FollowerPcs
<1>5. /\ TypeOK' /\ WritersInv' /\ \A e : Published(e)' <=> Published(e)
      /\ \A l : InTransit(l)' <=> InTransit(l)
  BY <1>2, FollowerFrame DEF FollowerStep
<1>6. UNCHANGED <<lines, deploy, gone, missed, before, got>> BY <1>2 DEF ByFollower
<1>7. /\ Published(ev) /\ IsInjective(sub') /\ Range(sub) = {ev} \cup Range(sub')
      /\ ev \notin Range(sub')
  BY <1>1, <1>2, NextEvent
<1>8. ev \notin Range(Sent) /\ DoneEvent \notin Range(Sent)
  BY <1>2, <1>7 DEF FollowInv, SentInv
<1>9. NoRepeats' /\ Range(Sent)' = Range(Sent) \cup {ev}
  BY <1>2, <1>6, <1>8, SendStep DEF FollowInv
<1>10. SubInv' BY <1>4, <1>5, <1>6, <1>7 DEF FollowInv, SubInv
<1>11. ReplayInv' BY <1>2, <1>4, <1>6 DEF FollowInv, ReplayInv
<1>12. SentInv'
  BY <1>2, <1>3, <1>4, <1>5, <1>7, <1>8, <1>9 DEF FollowInv, SentInv
<1>13. Accounted'
  <2>1. OnItsWay' = OnItsWay BY <1>4, <1>6, <1>7, <1>9 DEF OnItsWay
  <2>2. ASSUME follower'.pc \in {"replaying", "live"}, ~gone', NEW l \in 1..lines'
        PROVE  l \in OnItsWay' \/ InTransit(l)'
    BY <2>1, <2>2, <1>2, <1>5, <1>6 DEF FollowInv, Accounted
  <2>3. ASSUME DoneEvent \in Range(Sent)'
        PROVE  deploy' # "running" /\ (gone' \/ before' \subseteq OnItsWay')
    <3>1. deploy = "over" BY <1>7, <1>8, <1>9, <2>3 DEF Published
    <3>2. gone \/ before \subseteq OnItsWay BY <1>2, BeforeIsOnItsWay
    <3>3. QED BY <3>1, <3>2, <1>6, <2>1
  <2>4. QED BY <2>2, <2>3 DEF Accounted
<1>14. QED BY <1>5, <1>9, <1>10, <1>11, <1>12, <1>13 DEF FollowInv

LEMMA TakeStep == ASSUME FollowInv, Take PROVE FollowInv'
<1>1. Sent' = Sent
  <2>1. got \in Seq(Events) /\ out \in Seq(Events) /\ out # <<>> BY DEF Take, FollowInv, TypeOK
  <2>2. QED BY <2>1, Passing DEF Take, Sent
<1>2. UNCHANGED <<lines, writer, deploy, gone, sub, missed, before, follower>> BY DEF Take
<1>3. TypeOK' BY TypeStep DEF FollowInv, LogStep
<1>4. \A l : InTransit(l)' <=> InTransit(l) BY <1>2 DEF InTransit
<1>5. \A ev : Published(ev)' <=> Published(ev) BY <1>2, <1>4 DEF Published
<1>6. WritersInv' BY <1>2 DEF FollowInv, WritersInv
<1>7. SubInv' BY <1>2, <1>5 DEF FollowInv, SubInv
<1>8. ReplayInv' /\ NoRepeats' BY <1>1, <1>2 DEF FollowInv, ReplayInv, NoRepeats
<1>9. SentInv' BY <1>1, <1>2, <1>5 DEF FollowInv, SentInv
<1>10. OnItsWay' = OnItsWay BY <1>1, <1>2 DEF OnItsWay
<1>11. Accounted' BY <1>1, <1>2, <1>4, <1>10 DEF FollowInv, Accounted
<1>12. QED BY <1>3, <1>6, <1>7, <1>8, <1>9, <1>11 DEF FollowInv

LEMMA FollowStep == FollowInv /\ [NextAll]_allVars => FollowInv'
<1> SUFFICES ASSUME FollowInv, [NextAll]_allVars PROVE FollowInv' OBVIOUS
<1>1. CASE UNCHANGED vars
  <2>1. TypeOK' BY <1>1, TypeStep DEF FollowInv
  <2>2. \A l : InTransit(l)' <=> InTransit(l) BY <1>1 DEF InTransit, vars
  <2>3. WritersInv' BY <1>1 DEF FollowInv, WritersInv, vars
  <2>4. SubInv' /\ ReplayInv' /\ SentInv' /\ NoRepeats' /\ Accounted'
    BY <1>1, QuietStep DEF vars
  <2>5. QED BY <2>1, <2>3, <2>4 DEF FollowInv
<1>2. CASE LogStep
  BY <1>2, HoldStep, EndStep, AppendStep, PublishLineStep, PublishDoneStep, TurnStep, ReadStep,
     ReplayStep, EndsStep, SkipStep, ForwardStep, TakeStep DEF LogStep, FollowerStep
<1>3. QED BY <1>1, <1>2, Composed

LEMMA InitFollow == InitAll => FollowInv
<1> SUFFICES ASSUME InitAll PROVE FollowInv OBVIOUS
<1> USE Numbers
<1>1. TypeOK
  <2>1. Len(<<>>) = 0 /\ <<>> \in Seq(Events) /\ <<>> \in Seq(Lines) BY EmptySeq
  <2>2. follower \in [pc : FollowerPcs, replay : Seq(Lines), max : Lines \cup {NoLine}]
    BY <2>1 DEF InitAll, Init, FollowerPcs
  <2>3. writer \in [Writers -> [pc : {"idle", "held", "stored"}, line : Lines \cup {NoLine}]]
    BY DEF InitAll, Init
  <2>4. lines \in 0..MaxLines BY LinesAssumption DEF InitAll, Init
  <2>5. /\ sub \in Seq(Events) /\ Len(sub) <= SubCap /\ out \in Seq(Events) /\ Len(out) <= OutCap
        /\ got \in Seq(Events)
    BY <2>1, CapsAssumption DEF InitAll, Init
  <2>6. QED BY <2>2, <2>3, <2>4, <2>5 DEF InitAll, Init, TypeOK
<1>2. WritersInv BY DEF InitAll, Init, WritersInv
<1>3. Sent = <<>> /\ Range(Sent) = {} /\ Range(sub) = {} BY DEF InitAll, Init, Sent, Range
<1>4. SubInv BY <1>3 DEF InitAll, Init, SubInv, IsInjective
<1>5. ReplayInv BY <1>3 DEF InitAll, Init, ReplayInv
<1>6. SentInv BY DEF InitAll, Init, SentInv
<1>7. NoRepeats BY <1>3 DEF NoRepeats, IsInjective
<1>8. Accounted BY <1>3 DEF InitAll, Init, Accounted
<1>9. QED BY <1>1, <1>2, <1>4, <1>5, <1>6, <1>7, <1>8 DEF FollowInv

LEMMA Follows == SpecAll => []FollowInv
  BY InitFollow, FollowStep, PTL DEF SpecAll

-----------------------------------------------------------------------------
(* From the edge to the rows                                                *)

Sound == FollowInv /\ UpdatesOK /\ HandlersInv

Batches == [at : {"none", "edge", "main"}, by : Flushers \cup {"nobody"}, lines : Seq(Lines)]

LEMMA BatchIs ==
  ASSUME UpdatesOK, NEW p \in Writers
  PROVE  /\ batch \in [Writers -> Batches] /\ batch[p] \in Batches
         /\ batch[p].lines \in Seq(Lines) /\ Range(batch[p].lines) \subseteq Lines
         /\ Range(batch[p].lines) \subseteq UnderWay
<1>1. batch \in [Writers -> Batches] BY DEF UpdatesOK, Batches
<1>2. batch[p] \in Batches /\ batch[p].lines \in Seq(Lines) BY <1>1 DEF Batches
<1>3. Range(batch[p].lines) \subseteq Lines BY <1>2 DEF Range
<1>4. QED BY <1>1, <1>2, <1>3 DEF UnderWay

LEMMA NoBatchIs ==
  /\ NoBatch \in Batches /\ NoBatch.lines = <<>> /\ NoBatch.at = "none" /\ NoBatch.by = "nobody"
  /\ Range(<<>>) = {} /\ "loop" \in Flushers /\ "report" \in Flushers /\ "nobody" \notin Flushers
  BY EmptySeq DEF NoBatch, Batches, Range, Flushers

\* A step that leaves the edge alone.
LEMMA MainAlone ==
  ASSUME Sound, FollowInv', UNCHANGED edge, lines' = lines,
         \A p \in Writers : writer'[p].pc = "held" =>
           writer[p].pc = "held" \/ (batch[p].at = "main" /\ batch[p].lines # <<>>),
         deploy # "running" => deploy' # "running",
         deploy' # "running" => deploy # "running" \/ result = "settled",
         gone' => gone \/ deploy' # "running"
  PROVE  Sound'
<1>1. UpdatesOK' BY DEF Sound, UpdatesOK, edge
<1>2. /\ \A p \in Writers :
           /\ writer'[p].pc = "held" => batch'[p].at = "main" /\ batch'[p].lines # <<>>
           /\ batch'[p].at = "none" => batch'[p] = NoBatch
      /\ deploy' # "running" => result' = "settled"
  BY DEF Sound, HandlersInv, edge
<1>3. gone' => deploy' # "running" BY DEF Sound, HandlersInv
<1>4. QED BY <1>1, <1>2, <1>3 DEF Sound, HandlersInv

\* A step of the edge, or of what is between it and main's store.
LEMMA EdgeAlone ==
  ASSUME Sound, FollowInv', UNCHANGED vars, UpdatesOK',
         \A p \in Writers : \/ batch'[p] = batch[p]
                            \/ writer[p].pc # "held" /\ (batch'[p].at = "none" => batch'[p] = NoBatch),
         result = "settled" => result' = "settled"
  PROVE  Sound'
<1>1. UNCHANGED <<writer, deploy, gone>> BY DEF vars
<1>2. HandlersInv' BY <1>1 DEF Sound, HandlersInv
<1>3. QED BY <1>2 DEF Sound

\* Progress is given up a bounded number of times.
LEMMA Losing ==
  ASSUME UpdatesOK, GivesUp \/ UNCHANGED losses
  PROVE  losses' \in 0..MaxLosses /\ (losses' = 0 => losses = 0 /\ ~GivesUp)
  BY LossesAssumption DEF UpdatesOK, GivesUp

LEMMA SayStep == ASSUME Sound, FollowInv', Say PROVE Sound'
<1>1. said + 1 \in Lines /\ said + 1 \in 0..MaxLines
  BY LinesAssumption DEF Say, Sound, UpdatesOK, Lines
<1>2. buffer \in Seq(Lines) /\ Len(buffer) <= BufferCap /\ Len(buffer) \in Nat
  BY LenProperties DEF Sound, UpdatesOK
<1>3. buffer' \in Seq(Lines) /\ Len(buffer') <= BufferCap
  <2>1. CASE Len(buffer) < BufferCap /\ buffer' = Append(buffer, said + 1)
    <3>1. buffer' \in Seq(Lines) /\ Len(buffer') = Len(buffer) + 1
      BY <1>1, <1>2, <2>1, Appending
    <3>2. QED BY <1>2, <2>1, <3>1, BufferAssumption
  <2>2. CASE UNCHANGED buffer BY <1>2, <2>2
  <2>3. QED BY <2>1, <2>2 DEF Say
<1>4. UNCHANGED <<batch, session, result, text, overlap, late, lines, vars>> BY DEF Say, vars
<1>5. said' \in 0..MaxLines /\ losses' \in 0..MaxLosses
  BY <1>1, Losing DEF Say, Sound
<1>6. UpdatesOK' BY <1>3, <1>4, <1>5 DEF Sound, UpdatesOK
<1>7. QED BY <1>4, <1>6, EdgeAlone

\* What a flush does: nothing, or it moves the buffer to a free slot.
Taken(p, f) ==
  /\ buffer # <<>> /\ batch[p] = NoBatch
  /\ batch' \in [Writers -> Batches] /\ \A q \in Writers \ {p} : batch'[q] = batch[q]
  /\ batch'[p].at = "edge" /\ batch'[p].by = f /\ batch'[p].lines = buffer
  /\ overlap' = (overlap \/ UnderWay # {})

LEMMA TakesAllIs ==
  ASSUME Sound, NEW f \in Flushers, TakesAll(f)
  PROVE  /\ buffer' = <<>>
         /\ \/ buffer = <<>> /\ UNCHANGED <<batch, overlap>>
            \/ \E p \in Writers : Taken(p, f)
<1>1. batch \in [Writers -> Batches] /\ buffer \in Seq(Lines) BY DEF Sound, UpdatesOK, Batches
<1>2. CASE buffer = <<>> BY <1>2 DEF TakesAll
<1>3. CASE buffer # <<>>
  <2> DEFINE s == CHOOSE p \in Writers : batch[p] = NoBatch
  <2>1. s \in Writers /\ batch[s] = NoBatch BY <1>3 DEF TakesAll
  <2>2. /\ buffer' = <<>> /\ batch' = [batch EXCEPT ![s] = [at |-> "edge", by |-> f, lines |-> buffer]]
        /\ overlap' = (overlap \/ UnderWay # {})
    BY <1>3 DEF TakesAll
  <2>3. [at |-> "edge", by |-> f, lines |-> buffer] \in Batches BY <1>1 DEF Batches
  <2> HIDE DEF s
  <2>4. Taken(s, f) BY <1>1, <1>3, <2>1, <2>2, <2>3 DEF Taken
  <2>5. QED BY <2>1, <2>2, <2>4
<1>4. QED BY <1>2, <1>3

\* A free slot has no line that is being stored.
LEMMA FlushStep ==
  ASSUME Sound, FollowInv', NEW f \in Flushers, TakesAll(f),
         UNCHANGED <<vars, said, text, losses>>, session' \in {"up", "closed", "left"},
         result' \in {"none", "ready", "reporting", "settled"}, late' \subseteq Lines,
         result = "settled" => result' = "settled"
  PROVE  Sound'
<1>1. lines' = lines BY DEF vars
<1>2. buffer' \in Seq(Lines) /\ Len(buffer') <= BufferCap
  <2>1. buffer' = <<>> BY TakesAllIs
  <2>2. QED BY <2>1, EmptySeq, BufferAssumption
<1>3. CASE UNCHANGED <<batch, overlap>>
  <2>1. UpdatesOK' BY <1>1, <1>2, <1>3 DEF Sound, UpdatesOK
  <2>2. QED BY <1>3, <2>1, EdgeAlone
<1>4. ASSUME NEW p \in Writers, Taken(p, f) PROVE Sound'
  <2>1. batch' \in [Writers -> Batches] /\ batch[p] = NoBatch BY <1>4 DEF Taken
  <2>2. overlap' \in BOOLEAN BY <1>4 DEF Taken
  <2>3. UpdatesOK' BY <1>1, <1>2, <2>1, <2>2 DEF Sound, UpdatesOK, Batches
  <2>4. writer[p].pc # "held" BY <2>1, NoBatchIs DEF Sound, HandlersInv
  <2>5. \A q \in Writers : q = p \/ batch'[q] = batch[q] BY <1>4 DEF Taken
  <2>6. batch'[p].at # "none" BY <1>4 DEF Taken
  <2>7. QED BY <2>3, <2>4, <2>5, <2>6, EdgeAlone
<1>5. QED BY <1>3, <1>4, TakesAllIs

\* What becomes of a POST that carries on, or is done with.
Moved(p, b) ==
  /\ b \in Batches /\ batch' = [batch EXCEPT ![p] = b]
  /\ b = NoBatch \/ (b.at # "none" /\ b.lines = batch[p].lines)
  /\ b.by = batch[p].by \/ b.by = "nobody"

LEMMA Moves ==
  ASSUME Sound, NEW p \in Writers, PostFails(p) \/ TimesOut(p) \/ Arrives(p) \/ Answer(p)
  PROVE  \E b \in Batches : Moved(p, b) /\ (writer[p].pc # "held" \/ b.at = batch[p].at)
<1>1. batch[p] \in Batches /\ batch \in [Writers -> Batches] BY BatchIs DEF Sound
<1>2. CASE PostFails(p) \/ Answer(p)
  <2>1. batch' = [batch EXCEPT ![p] = NoBatch] BY <1>2 DEF PostFails, Answer
  <2>2. writer[p].pc # "held" BY <1>2 DEF PostFails, Answer, Sound, HandlersInv
  <2>3. Moved(p, NoBatch) BY <2>1, NoBatchIs DEF Moved
  <2>4. QED BY <2>2, <2>3, NoBatchIs
<1>3. CASE TimesOut(p)
  <2> DEFINE b == [batch[p] EXCEPT !.by = "nobody"]
  <2>1. batch[p].at # "none" BY <1>3, NoBatchIs DEF TimesOut, Sound, HandlersInv
  <2>2. b \in Batches /\ b.at = batch[p].at /\ b.lines = batch[p].lines /\ b.by = "nobody"
    BY <1>1 DEF Batches
  <2>3. batch' = [batch EXCEPT ![p] = b] BY <1>3 DEF TimesOut
  <2> HIDE DEF b
  <2>4. QED BY <2>1, <2>2, <2>3 DEF Moved
<1>4. CASE Arrives(p)
  <2> DEFINE b == [batch[p] EXCEPT !.at = "main"]
  <2>1. writer[p].pc # "held" BY <1>4 DEF Arrives, Sound, HandlersInv
  <2>2. b \in Batches /\ b.at = "main" /\ b.lines = batch[p].lines /\ b.by = batch[p].by
    BY <1>1 DEF Batches
  <2>3. batch' = [batch EXCEPT ![p] = b] BY <1>4 DEF Arrives
  <2> HIDE DEF b
  <2>4. QED BY <2>1, <2>2, <2>3 DEF Moved
<1>5. QED BY <1>2, <1>3, <1>4

LEMMA MovedIs ==
  ASSUME Sound, NEW p \in Writers, NEW b, Moved(p, b)
  PROVE  /\ batch' \in [Writers -> Batches] /\ batch'[p] = b
         /\ \A q \in Writers \ {p} : batch'[q] = batch[q]
         /\ \A q \in Writers : batch'[q].lines = batch[q].lines \/ batch'[q].lines = <<>>
         /\ \A q \in Writers : batch'[q].by = batch[q].by \/ batch'[q].by = "nobody"
<1>1. batch \in [Writers -> Batches] BY BatchIs DEF Sound
<1>2. /\ batch' \in [Writers -> Batches] /\ batch'[p] = b
      /\ \A q \in Writers \ {p} : batch'[q] = batch[q]
  BY <1>1 DEF Moved
<1>3. QED BY <1>2, NoBatchIs DEF Moved

LEMMA MovesStep ==
  ASSUME Sound, FollowInv', NEW p \in Writers,
         PostFails(p) \/ TimesOut(p) \/ Arrives(p) \/ Answer(p)
  PROVE  Sound'
<1>1. PICK b \in Batches : Moved(p, b) /\ (writer[p].pc # "held" \/ b.at = batch[p].at)
  BY Moves
<1>2. /\ batch' \in [Writers -> Batches] /\ batch'[p] = b
      /\ \A q \in Writers \ {p} : batch'[q] = batch[q]
  BY <1>1, MovedIs
<1>3. /\ UNCHANGED <<vars, said, buffer, session, result, text, overlap, late>>
      /\ GivesUp \/ UNCHANGED losses
  BY DEF PostFails, TimesOut, Arrives, Answer
<1>4. losses' \in 0..MaxLosses BY <1>3, Losing DEF Sound
<1>5. UpdatesOK' BY <1>2, <1>3, <1>4 DEF Sound, UpdatesOK, Batches, vars
<1>6. UNCHANGED <<writer, deploy, gone, lines>> BY <1>3 DEF vars
<1>7. batch'[p].at = "none" => batch'[p] = NoBatch BY <1>1, <1>2 DEF Moved
<1>8. writer[p].pc = "held" => batch'[p].at = "main" /\ batch'[p].lines # <<>>
  BY <1>1, <1>2, NoBatchIs DEF Moved, Sound, HandlersInv
<1>9. HandlersInv' BY <1>2, <1>3, <1>6, <1>7, <1>8 DEF Sound, HandlersInv
<1>10. QED BY <1>5, <1>9 DEF Sound

\* What storing the first line of a batch, or failing to, leaves of it.
LEMMA HandledIs ==
  ASSUME Sound, NEW p \in Writers, batch[p].lines # <<>>, Handled(p)
  PROVE  /\ batch' \in [Writers -> Batches]
         /\ batch'[p].at = batch[p].at /\ batch'[p].by = batch[p].by
         /\ batch'[p].lines = Tail(batch[p].lines) /\ Head(batch[p].lines) \in Lines
         /\ \A q \in Writers \ {p} : batch'[q] = batch[q]
<1>1. batch \in [Writers -> Batches] BY BatchIs DEF Sound
<1> DEFINE t == Tail(batch[p].lines)
<1>2. t \in Seq(Lines) /\ Head(batch[p].lines) \in Lines BY BatchIs, Taking DEF Sound
<1> HIDE DEF t
<1>3. batch' = [batch EXCEPT ![p] = [batch[p] EXCEPT !.lines = t]] BY DEF Handled, t
<1>4. [batch[p] EXCEPT !.lines = t] \in Batches BY <1>1, <1>2 DEF Batches
<1>5. /\ [batch[p] EXCEPT !.lines = t].lines = t /\ [batch[p] EXCEPT !.lines = t].at = batch[p].at
      /\ [batch[p] EXCEPT !.lines = t].by = batch[p].by
  BY <1>1 DEF Batches
<1>6. QED BY <1>1, <1>2, <1>3, <1>4, <1>5 DEF t

LEMMA DropStep == ASSUME Sound, FollowInv', NEW p \in Writers, DropLog(p) PROVE Sound'
<1>1. /\ batch[p].at = "main" /\ batch[p].lines # <<>> /\ writer[p].pc = "idle" /\ Handled(p)
      /\ UNCHANGED <<vars, said, buffer, session, result, text, losses, overlap, late>>
  BY DEF DropLog, Handles
<1>2. /\ batch' \in [Writers -> Batches] /\ batch'[p].at = "main"
      /\ \A q \in Writers \ {p} : batch'[q] = batch[q]
  BY <1>1, HandledIs
<1>3. UpdatesOK'
  <2>1. lines' = lines BY <1>1 DEF vars
  <2>2. QED BY <1>1, <1>2, <2>1 DEF Sound, UpdatesOK, Batches
<1>4. QED BY <1>1, <1>2, <1>3, EdgeAlone

LEMMA StoreStep ==
  ASSUME Sound, FollowInv', NEW p \in Writers, StoreLog(p) \/ StoreFails(p) PROVE Sound'
<1>1. /\ writer[p].pc = "held" /\ batch[p].at = "main" /\ batch[p].lines # <<>> /\ Handled(p)
      /\ UNCHANGED <<said, buffer, session, result, losses, overlap, late, deploy, gone>>
  BY DEF StoreLog, StoreFails, AppendLine, AppendFails, ByWriter, Sound, HandlersInv
<1>2. /\ batch' \in [Writers -> Batches] /\ batch'[p].at = "main" /\ Head(batch[p].lines) \in Lines
      /\ \A q \in Writers \ {p} : batch'[q] = batch[q]
  BY <1>1, HandledIs
<1>3. text' \in Seq(Lines) /\ Len(text') = lines'
  <2>1. CASE StoreLog(p)
    <3>1. text' = Append(text, Head(batch[p].lines)) /\ lines' = lines + 1
      BY <2>1 DEF StoreLog, AppendLine
    <3>2. QED BY <3>1, <1>2, Appending DEF Sound, UpdatesOK
  <2>2. CASE StoreFails(p) BY <2>2 DEF StoreFails, AppendFails, Sound, UpdatesOK
  <2>3. QED BY <2>1, <2>2
<1>4. UpdatesOK' BY <1>1, <1>2, <1>3 DEF Sound, UpdatesOK, Batches
<1>5. writer'[p].pc # "held" /\ \A q \in Writers \ {p} : writer'[q] = writer[q]
  <2>1. writer \in [Writers -> [pc : {"idle", "held", "stored"}, line : Lines \cup {NoLine}]]
    BY DEF Sound, FollowInv, TypeOK
  <2>2. \/ writer' = [writer EXCEPT ![p] = [pc |-> "stored", line |-> lines + 1]]
        \/ writer' = [writer EXCEPT ![p].pc = "idle"]
    BY DEF StoreLog, StoreFails, AppendLine, AppendFails
  <2>3. QED BY <2>1, <2>2
<1>6. HandlersInv'
  <2>1. \A q \in Writers :
          /\ writer'[q].pc = "held" => batch'[q].at = "main" /\ batch'[q].lines # <<>>
          /\ batch'[q].at = "none" => batch'[q] = NoBatch
    BY <1>2, <1>5 DEF Sound, HandlersInv
  <2>2. QED BY <1>1, <2>1 DEF Sound, HandlersInv
<1>7. QED BY <1>4, <1>6 DEF Sound

LEMMA StreamStep ==
  ASSUME Sound, FollowInv', UNCHANGED edge,
         \/ \E p \in Writers : HandleLog(p) \/ Streams(p)
         \/ Settles \/ Over \/ Streaming \/ Reclaim \/ Cancel \/ Take \/ Quiet
  PROVE  Sound'
<1>1. ASSUME NEW p \in Writers, HandleLog(p) \/ Streams(p)
      PROVE  /\ UNCHANGED <<lines, deploy, gone>>
             /\ \A q \in Writers : writer'[q].pc = "held" =>
                  writer[q].pc = "held" \/ (batch[q].at = "main" /\ batch[q].lines # <<>>)
  <2>1. writer \in [Writers -> [pc : {"idle", "held", "stored"}, line : Lines \cup {NoLine}]]
    BY DEF Sound, FollowInv, TypeOK
  <2>2. CASE HandleLog(p)
    BY <2>1, <2>2 DEF HandleLog, Handles, FindSink, ByWriter
  <2>3. CASE Streams(p)
    BY <2>1, <2>3 DEF Streams, PublishLine, ByWriter
  <2>4. QED BY <1>1, <2>2, <2>3
<1>2. ASSUME Settles \/ Over \/ Streaming \/ Reclaim \/ Cancel \/ Take \/ Quiet
      PROVE  /\ UNCHANGED <<lines, writer>>
             /\ deploy # "running" => deploy' # "running"
             /\ deploy' # "running" => deploy # "running" \/ result = "settled"
             /\ gone' => gone \/ deploy' # "running"
  <2>1. CASE Settles \/ Over \/ Reclaim BY <2>1 DEF Settles, Stamp, Over, PublishDone, Reclaim
  <2>2. CASE Streaming \/ Cancel \/ Take \/ Quiet
    BY <2>2 DEF Streaming, FollowerStep, Open, Subscribe, ReadRows, Replay, EndsAtOnce, GoLive,
                Skip, Forward, ByFollower, Cancel, Take, Quiet, vars
  <2>3. QED BY <1>2, <2>1, <2>2
<1>3. CASE \E p \in Writers : HandleLog(p) \/ Streams(p) BY <1>1, <1>3, MainAlone
<1>4. CASE Settles \/ Over \/ Streaming \/ Reclaim \/ Cancel \/ Take \/ Quiet
  BY <1>2, <1>4, MainAlone
<1>5. QED BY <1>3, <1>4

LEMMA SoundStep == Sound /\ [NextAll]_allVars => Sound'
<1> SUFFICES ASSUME Sound, [NextAll]_allVars PROVE Sound' OBVIOUS
<1>1. FollowInv' BY FollowStep DEF Sound
<1>2. CASE Say BY <1>1, <1>2, SayStep
<1>3. CASE End \/ Break \/ HandleDone
  <2>1. /\ UNCHANGED <<vars, said, buffer, batch, text, overlap, late>>
        /\ result = "settled" => result' = "settled"
        /\ result' \in {"none", "ready", "reporting", "settled"}
        /\ session' \in {"up", "closed", "left"}
        /\ GivesUp \/ UNCHANGED losses
    BY <1>3 DEF End, Break, HandleDone, Sound, UpdatesOK
  <2>2. losses' \in 0..MaxLosses BY <2>1, Losing DEF Sound
  <2>3. UpdatesOK' BY <2>1, <2>2 DEF Sound, UpdatesOK, vars
  <2>4. QED BY <1>1, <2>1, <2>3, EdgeAlone
<1>4. CASE Flush BY <1>1, <1>4, FlushStep, NoBatchIs DEF Flush, Sound, UpdatesOK
<1>5. CASE LeaveLoop BY <1>1, <1>5, FlushStep, NoBatchIs DEF LeaveLoop, Sound, UpdatesOK
<1>6. CASE ReportOther BY <1>1, <1>6, FlushStep, NoBatchIs DEF ReportOther, Sound, UpdatesOK
<1>7. CASE ReportDone
  <2>1. /\ UNCHANGED <<vars, said, session, text, losses>> /\ result = "ready" /\ result' = "reporting"
        /\ session \in {"up", "closed", "left"} /\ late' \subseteq Lines
    BY <1>7 DEF ReportDone, Sound, UpdatesOK, UnderWay
  <2>2. CASE TakesAll("report") BY <1>1, <2>1, <2>2, FlushStep, NoBatchIs
  <2>3. CASE UNCHANGED <<buffer, batch, overlap>>
    <3>1. UpdatesOK' BY <2>1, <2>3 DEF Sound, UpdatesOK, vars
    <3>2. QED BY <1>1, <2>1, <2>3, <3>1, EdgeAlone
  <2>4. QED BY <2>2, <2>3, <1>7 DEF ReportDone, FlushesFirst
<1>8. ASSUME NEW p \in Writers, PostFails(p) \/ TimesOut(p) \/ Arrives(p) \/ Answer(p) PROVE Sound'
  BY <1>1, <1>8, MovesStep
<1>9. ASSUME NEW p \in Writers, DropLog(p) PROVE Sound' BY <1>1, <1>9, DropStep
<1>10. ASSUME NEW p \in Writers, StoreLog(p) \/ StoreFails(p) PROVE Sound' BY <1>1, <1>10, StoreStep
<1>11. CASE \/ \E p \in Writers : HandleLog(p) \/ Streams(p)
            \/ Settles \/ Over \/ Streaming
            \/ ((Reclaim \/ Cancel \/ Take \/ Quiet) /\ UNCHANGED edge)
  <2>1. UNCHANGED edge BY <1>11 DEF HandleLog, Streams, Settles, Over, Streaming
  <2>2. QED BY <1>1, <1>11, <2>1, StreamStep
<1>12. CASE UNCHANGED allVars
  <2>1. UNCHANGED <<vars, edge, lines, writer, deploy, gone>> BY <1>12 DEF allVars, vars
  <2>2. QED BY <1>1, <2>1, MainAlone
<1>13. QED
  BY <1>2, <1>3, <1>4, <1>5, <1>6, <1>7, <1>8, <1>9, <1>10, <1>11, <1>12
     DEF NextAll, EdgeStep, MainStep

-----------------------------------------------------------------------------
(* Where the lines are                                                      *)

Flow == PlacesInv /\ OrderInv /\ KeptInv

\* The lines of the sequences that hold them.
LEMMA Held ==
  ASSUME UpdatesOK
  PROVE  /\ Range(text) \subseteq Nat /\ Range(buffer) \subseteq Nat /\ UnderWay \subseteq Nat
         /\ \A q \in Writers : Range(batch[q].lines) \subseteq Nat
<1>1. text \in Seq(Lines) /\ buffer \in Seq(Lines) BY DEF UpdatesOK
<1>2. Range(text) \subseteq Lines /\ Range(buffer) \subseteq Lines BY <1>1 DEF Range
<1>3. QED BY <1>2, BatchIs, Numbers DEF UnderWay

LEMMA Growing ==
  ASSUME NEW s \in Seq(Lines), NEW e \in Lines, Increases(s), \A x \in Range(s) : x < e
  PROVE  Increases(Append(s, e))
<1> DEFINE t == Append(s, e)
<1>1. /\ t \in Seq(Lines) /\ Len(t) = Len(s) + 1 /\ t[Len(s) + 1] = e /\ Len(s) \in Nat
      /\ \A k \in 1..Len(s) : t[k] = s[k]
  BY Appending, LenProperties
<1>2. DOMAIN s = 1..Len(s) /\ DOMAIN t = 1..Len(t) BY <1>1, LenProperties
<1> HIDE DEF t
<1>3. \A k \in 1..Len(s) : s[k] < e BY <1>2 DEF Range
<1>4. ASSUME NEW j \in DOMAIN t, NEW k \in DOMAIN t, j < k PROVE t[j] < t[k]
  <2>1. j \in 1..Len(s) /\ (k \in 1..Len(s) \/ k = Len(s) + 1) BY <1>1, <1>2, <1>4
  <2>2. CASE k \in 1..Len(s) BY <1>1, <1>2, <1>4, <2>1, <2>2 DEF Increases
  <2>3. CASE k = Len(s) + 1 BY <1>1, <1>3, <2>1, <2>3
  <2>4. QED BY <2>1, <2>2, <2>3
<1>5. QED BY <1>4 DEF Increases, t

LEMMA Shrinking ==
  ASSUME NEW s \in Seq(Lines), s # <<>>, Increases(s)
  PROVE  Increases(Tail(s)) /\ \A x \in Range(Tail(s)) : Head(s) < x
<1> DEFINE t == Tail(s)
<1>1. /\ t \in Seq(Lines) /\ Len(s) \in Nat \ {0} /\ Len(t) = Len(s) - 1 /\ Head(s) = s[1]
      /\ \A k \in 1..Len(t) : t[k] = s[k + 1]
  BY Taking
<1>2. DOMAIN s = 1..Len(s) /\ DOMAIN t = 1..Len(t) BY <1>1, LenProperties
<1> HIDE DEF t
<1>3. \A k \in 1..Len(t) : k + 1 \in 1..Len(s) /\ 1 < k + 1 /\ 1 \in 1..Len(s) BY <1>1
<1>4. ASSUME NEW j \in DOMAIN t, NEW k \in DOMAIN t, j < k PROVE t[j] < t[k]
  <2>1. j + 1 < k + 1 BY <1>2, <1>4
  <2>2. QED BY <1>1, <1>2, <1>3, <2>1 DEF Increases
<1>5. \A k \in DOMAIN t : Head(s) < t[k] BY <1>1, <1>2, <1>3 DEF Increases
<1>6. QED BY <1>4, <1>5 DEF Increases, Range, t

LEMMA NoLines ==
  /\ Increases(<<>>) /\ \A s : Ahead(s, <<>>) /\ Apart(s, <<>>)
  BY DEF Increases, Ahead, Apart, Range

\* No line is given a place by a POST that carries on or is done with.
LEMMA StandFlow ==
  ASSUME Sound, PlacesInv, OrderInv, UNCHANGED <<said, buffer, text, overlap>>,
         \A q \in Writers : batch'[q].lines = batch[q].lines \/ batch'[q].lines = <<>>
  PROVE  PlacesInv' /\ OrderInv'
<1>1. \A q \in Writers : Range(batch'[q].lines) \subseteq Range(batch[q].lines) BY NoBatchIs
<1>2. UnderWay' \subseteq UnderWay BY <1>1 DEF UnderWay
<1>3. PlacesInv'
  <2>1. \A q \in Writers : Increases(batch'[q].lines) BY NoLines DEF PlacesInv
  <2>2. \A x \in Range(text) \cup Range(buffer) \cup UnderWay' : x <= said BY <1>2 DEF PlacesInv
  <2>3. \A q \in Writers : Apart(text, batch'[q].lines) /\ Ahead(batch'[q].lines, buffer)
    BY <1>1 DEF PlacesInv, Apart, Ahead
  <2>4. \A q, r \in Writers : q # r => Apart(batch'[q].lines, batch'[r].lines)
    BY <1>1 DEF PlacesInv, Apart
  <2>5. QED BY <2>1, <2>2, <2>3, <2>4 DEF PlacesInv
<1>4. OrderInv'
  <2>1. SUFFICES ASSUME ~overlap
                 PROVE  /\ \A q \in Writers : Ahead(text, batch'[q].lines)
                        /\ \A q, r \in Writers : q # r => batch'[q].lines = <<>> \/ batch'[r].lines = <<>>
    BY DEF OrderInv
  <2>2. \A q \in Writers : Ahead(text, batch'[q].lines) BY <1>1, <2>1 DEF OrderInv, Ahead
  <2>3. QED BY <2>1, <2>2 DEF OrderInv
<1>5. QED BY <1>3, <1>4

LEMMA SayFlow == ASSUME Sound, PlacesInv, OrderInv, Say PROVE PlacesInv' /\ OrderInv'
<1>1. UNCHANGED <<batch, text, overlap>> /\ said' = said + 1 BY DEF Say
<1>2. /\ said \in Nat /\ said + 1 \in Lines /\ buffer \in Seq(Lines)
      /\ Range(text) \subseteq Lines /\ Range(buffer) \subseteq Lines /\ UnderWay \subseteq Lines
  BY LinesAssumption DEF Say, Sound, UpdatesOK, Lines, Range, UnderWay
<1>3. UnderWay' = UnderWay BY <1>1 DEF UnderWay
<1>4. ASSUME NEW x \in Range(text) \cup Range(buffer) \cup UnderWay
      PROVE  x \in Nat /\ x <= said /\ x < said + 1
  <2>1. x \in Nat /\ x <= said BY Held DEF PlacesInv, Sound
  <2>2. QED BY <1>2, <2>1
<1>5. /\ Range(buffer') \subseteq Range(buffer) \cup {said + 1} /\ Increases(buffer')
  <2>1. CASE buffer' = Append(buffer, said + 1)
    BY <1>2, <1>4, <2>1, Appending, Growing DEF PlacesInv
  <2>2. CASE UNCHANGED buffer BY <2>2 DEF PlacesInv
  <2>3. QED BY <2>1, <2>2 DEF Say
<1>6. Ahead(text, buffer') BY <1>4, <1>5 DEF PlacesInv, Ahead
<1>7. ASSUME NEW q \in Writers PROVE Ahead(batch[q].lines, buffer')
  <2>1. Range(batch[q].lines) \subseteq UnderWay BY BatchIs DEF Sound
  <2>2. QED BY <1>4, <1>5, <2>1 DEF PlacesInv, Ahead
<1>8. \A x \in Range(text) \cup Range(buffer') \cup UnderWay : x <= said + 1 BY <1>2, <1>4, <1>5
<1>9. PlacesInv' BY <1>1, <1>3, <1>5, <1>6, <1>7, <1>8 DEF PlacesInv
<1>10. OrderInv' BY <1>1 DEF OrderInv
<1>11. QED BY <1>9, <1>10

LEMMA FlushFlow ==
  ASSUME Sound, PlacesInv, OrderInv, NEW f \in Flushers, TakesAll(f), UNCHANGED <<said, text>>
  PROVE  PlacesInv' /\ OrderInv'
<1>1. CASE buffer = <<>> /\ UNCHANGED <<batch, overlap>>
  <2>1. buffer' = buffer BY <1>1, TakesAllIs
  <2>2. QED BY <1>1, <2>1, StandFlow
<1>2. ASSUME NEW p \in Writers, Taken(p, f) PROVE PlacesInv' /\ OrderInv'
  <2>1. /\ buffer' = <<>> /\ batch[p].lines = <<>> /\ batch'[p].lines = buffer
        /\ \A q \in Writers : q = p \/ batch'[q] = batch[q]
        /\ overlap' = (overlap \/ UnderWay # {})
    BY <1>2, TakesAllIs, NoBatchIs DEF Taken
  <2>2. UnderWay' \subseteq UnderWay \cup Range(buffer) BY <2>1 DEF UnderWay
  <2>3. /\ Increases(buffer') /\ \A q \in Writers : Increases(batch'[q].lines)
        /\ \A q \in Writers : Apart(text, batch'[q].lines)
    <3>1. Apart(text, buffer)
      <4>1. Range(text) \subseteq Nat /\ Range(buffer) \subseteq Nat
        BY Held DEF Sound
      <4>2. QED BY <4>1 DEF PlacesInv, Apart, Ahead
    <3>2. QED BY <2>1, <3>1, NoLines DEF PlacesInv
  <2>4. \A x \in Range(text) \cup Range(buffer') \cup UnderWay' : x <= said
    BY <2>1, <2>2, NoBatchIs DEF PlacesInv
  <2>5. Ahead(text, buffer') /\ \A q \in Writers : Ahead(batch'[q].lines, buffer')
    BY <2>1, NoLines
  <2>6. ASSUME NEW q \in Writers, NEW r \in Writers, q # r
        PROVE  Apart(batch'[q].lines, batch'[r].lines)
    <3>1. \A s \in Writers : Range(batch[s].lines) \subseteq Nat /\ Range(buffer) \subseteq Nat
      BY Held DEF Sound
    <3>2. \A s \in Writers : Apart(batch[s].lines, buffer) /\ Apart(buffer, batch[s].lines)
      BY <3>1 DEF PlacesInv, Apart, Ahead
    <3>3. CASE q = p BY <2>1, <2>6, <3>2, <3>3
    <3>4. CASE r = p BY <2>1, <2>6, <3>2, <3>4
    <3>5. CASE q # p /\ r # p BY <2>1, <2>6, <3>5 DEF PlacesInv
    <3>6. QED BY <3>3, <3>4, <3>5
  <2>7. PlacesInv' BY <2>1, <2>3, <2>4, <2>5, <2>6 DEF PlacesInv
  <2>8. OrderInv'
    <3>1. SUFFICES ASSUME ~overlap'
                   PROVE  /\ Increases(text) /\ \A q \in Writers : Ahead(text, batch'[q].lines)
                          /\ \A q, r \in Writers :
                               q # r => batch'[q].lines = <<>> \/ batch'[r].lines = <<>>
      BY DEF OrderInv
    <3>2. ~overlap /\ UnderWay = {} BY <2>1, <3>1
    <3>3. ASSUME NEW q \in Writers, q # p PROVE batch'[q].lines = <<>>
      <4>1. Range(batch[q].lines) = {} BY <3>2, BatchIs DEF Sound
      <4>2. batch[q].lines \in Seq(Lines) BY BatchIs DEF Sound
      <4>3. batch[q].lines = <<>>
        <5>1. SUFFICES ASSUME batch[q].lines # <<>> PROVE FALSE OBVIOUS
        <5>2. Head(batch[q].lines) \in Range(batch[q].lines) BY <4>2, <5>1, Taking
        <5>3. QED BY <4>1, <5>2
      <4>4. QED BY <2>1, <3>3, <4>3
    <3>4. \A q \in Writers : Ahead(text, batch'[q].lines)
      BY <2>1, <3>3, NoLines DEF PlacesInv
    <3>5. QED BY <3>2, <3>3, <3>4 DEF OrderInv
  <2>9. QED BY <2>7, <2>8
<1>3. QED BY <1>1, <1>2, TakesAllIs

\* A line leaves its batch, perhaps for its row.
LEMMA HandledFlow ==
  ASSUME Sound, PlacesInv, OrderInv, NEW p \in Writers, batch[p].lines # <<>>, Handled(p),
         UNCHANGED <<said, buffer, overlap>>,
         text' = text \/ text' = Append(text, Head(batch[p].lines))
  PROVE  /\ PlacesInv' /\ OrderInv'
         /\ UnderWay \subseteq UnderWay' \cup {Head(batch[p].lines)}
<1> DEFINE h == Head(batch[p].lines)
<1>1. /\ batch'[p].lines = Tail(batch[p].lines) /\ h \in Lines
      /\ \A q \in Writers : q = p \/ batch'[q] = batch[q]
  BY HandledIs
<1>2. /\ Range(batch[p].lines) = {h} \cup Range(batch'[p].lines)
      /\ Increases(batch'[p].lines) /\ \A x \in Range(batch'[p].lines) : h < x
  BY <1>1, BatchIs, Taking, Shrinking DEF PlacesInv, Sound
<1> HIDE DEF h
<1>3. \A q \in Writers : Range(batch'[q].lines) \subseteq Range(batch[q].lines) BY <1>1, <1>2
<1>4. UnderWay' \subseteq UnderWay /\ h \in UnderWay BY <1>1, <1>2, <1>3 DEF UnderWay
<1>5. UnderWay \subseteq UnderWay' \cup {h} BY <1>1, <1>2 DEF UnderWay
<1>6. text \in Seq(Lines) BY DEF Sound, UpdatesOK
<1>7. h \notin Range(text) /\ \A x \in Range(buffer) : h < x
  BY <1>2 DEF PlacesInv, Apart, Ahead
<1>8. Range(text') \subseteq Range(text) \cup {h} /\ IsInjective(text')
  <2>1. CASE text' = text BY <2>1 DEF PlacesInv
  <2>2. CASE text' = Append(text, h) BY <1>1, <1>6, <1>7, <2>2, Appending DEF PlacesInv
  <2>3. QED BY <2>1, <2>2 DEF h
<1>9. \A x \in Range(batch'[p].lines) : h # x
  BY <1>1, <1>2, <1>3, BatchIs, Numbers DEF Sound
<1>10. PlacesInv'
  <2>1. \A q \in Writers : Increases(batch'[q].lines) BY <1>1, <1>2 DEF PlacesInv
  <2>2. \A x \in Range(text') \cup Range(buffer) \cup UnderWay' : x <= said
    BY <1>4, <1>8 DEF PlacesInv
  <2>3. Ahead(text', buffer) BY <1>7, <1>8 DEF PlacesInv, Ahead
  <2>4. ASSUME NEW q \in Writers PROVE Apart(text', batch'[q].lines) /\ Ahead(batch'[q].lines, buffer)
    <3>1. Ahead(batch'[q].lines, buffer) BY <1>3 DEF PlacesInv, Ahead
    <3>2. \A x \in Range(batch'[q].lines) : x # h
      <4>1. CASE q = p BY <1>9, <4>1
      <4>2. CASE q # p BY <1>1, <1>2, <4>2 DEF PlacesInv, Apart
      <4>3. QED BY <4>1, <4>2
    <3>3. Apart(text', batch'[q].lines) BY <1>3, <1>8, <3>2 DEF PlacesInv, Apart
    <3>4. QED BY <3>1, <3>3
  <2>5. \A q, r \in Writers : q # r => Apart(batch'[q].lines, batch'[r].lines)
    BY <1>3 DEF PlacesInv, Apart
  <2>6. QED BY <1>8, <2>1, <2>2, <2>3, <2>4, <2>5 DEF PlacesInv
<1>11. OrderInv'
  <2>1. SUFFICES ASSUME ~overlap
                 PROVE  /\ Increases(text') /\ \A q \in Writers : Ahead(text', batch'[q].lines)
                        /\ \A q, r \in Writers :
                             q # r => batch'[q].lines = <<>> \/ batch'[r].lines = <<>>
    BY DEF OrderInv
  <2>2. \A q \in Writers : q = p \/ batch'[q].lines = <<>> BY <1>1, <2>1 DEF OrderInv
  <2>3. \A x \in Range(text) : x < h BY <1>2, <2>1 DEF OrderInv, Ahead
  <2>4. Increases(text')
    <3>1. CASE text' = text BY <2>1, <3>1 DEF OrderInv
    <3>2. CASE text' = Append(text, h)
      <4>1. Increases(text) BY <2>1 DEF OrderInv
      <4>2. QED BY <1>1, <1>6, <2>3, <3>2, <4>1, Growing
    <3>3. QED BY <3>1, <3>2 DEF h
  <2>5. Ahead(text', batch'[p].lines) BY <1>2, <1>3, <1>8, <2>1 DEF OrderInv, Ahead
  <2>6. QED BY <2>2, <2>4, <2>5, NoLines
<1>12. QED BY <1>5, <1>10, <1>11 DEF h

-----------------------------------------------------------------------------
(* What is kept                                                             *)

\* In words for a prover: where a line is, and what is late.
Placed(l) == l \in Range(text) \cup UnderWay \cup Range(buffer) \/ (result = "settled" /\ l \in late)
AllLate == \A q \in Writers : batch[q].by # "report" => Range(batch[q].lines) \subseteq late

LEMMA KeptIs ==
  KeptInv <=> (losses = 0 =>
    /\ session = "up" /\ \A l \in 1..said : Placed(l)
    /\ Reported => buffer = <<>> /\ AllLate
    /\ result = "settled" => ~Posts("report"))
  BY DEF KeptInv, Placed, AllLate

LEMMA SayKept == ASSUME Sound, KeptInv, losses = 0, Say, ~GivesUp PROVE KeptInv'
<1>1. /\ buffer' = Append(buffer, said + 1) /\ said' = said + 1 /\ ~Reported /\ ~Reported'
      /\ UNCHANGED <<batch, session, result, text, late>> /\ result # "settled"
  BY DEF Say, Reported
<1>2. said \in Nat /\ said + 1 \in Lines /\ buffer \in Seq(Lines)
  BY LinesAssumption DEF Say, Sound, UpdatesOK, Lines
<1>3. Range(buffer') = Range(buffer) \cup {said + 1} BY <1>1, <1>2, Appending
<1>4. UnderWay' = UnderWay BY <1>1 DEF UnderWay
<1>5. \A l \in 1..said' : l \in 1..said \/ l = said + 1 BY <1>1, <1>2
<1>6. \A l \in 1..said : Placed(l) BY KeptIs
<1>7. ASSUME NEW l \in 1..said' PROVE Placed(l)' BY <1>1, <1>3, <1>4, <1>5, <1>6 DEF Placed
<1>8. session' = "up" BY <1>1 DEF KeptInv
<1>9. KeptInv' <=> (losses' = 0 =>
        /\ session' = "up" /\ \A l \in 1..said' : Placed(l)'
        /\ Reported' => buffer' = <<>> /\ AllLate'
        /\ result' = "settled" => ~Posts("report")')
  BY DEF KeptInv, Placed, AllLate
<1>10. QED BY <1>1, <1>7, <1>8, <1>9

\* A flush before the result, or ahead of it.
LEMMA FlushKept ==
  ASSUME Sound, KeptInv, losses = 0, NEW f \in Flushers, TakesAll(f),
         UNCHANGED <<said, text, session>>,
         \/ UNCHANGED <<result, late>> /\ buffer # <<>>
         \/ /\ result = "ready" /\ result' = "reporting" /\ late' = UnderWay
            /\ f = "report" /\ ~Posts("report")
  PROVE  KeptInv'
<1>1. session = "up" /\ \A l \in 1..said : Placed(l) BY KeptIs
<1>2. ~Reported /\ result # "settled" /\ result' # "settled" BY DEF KeptInv, Reported
<1>3. buffer' = <<>> BY TakesAllIs
<1>4. Range(buffer) \subseteq Lines BY DEF Sound, UpdatesOK, Range
<1>5. /\ UnderWay \cup Range(buffer) \subseteq UnderWay'
      /\ \A q \in Writers : batch'[q].by = f \/ Range(batch'[q].lines) \subseteq UnderWay
  <2>1. CASE buffer = <<>> /\ UNCHANGED <<batch, overlap>>
    BY <2>1, NoBatchIs, BatchIs DEF UnderWay, Sound
  <2>2. ASSUME NEW p \in Writers, Taken(p, f)
        PROVE  /\ UnderWay \cup Range(buffer) \subseteq UnderWay'
               /\ \A q \in Writers : batch'[q].by = f \/ Range(batch'[q].lines) \subseteq UnderWay
    <3>1. /\ batch'[p].by = f /\ batch'[p].lines = buffer /\ batch[p].lines = <<>>
          /\ \A q \in Writers : q = p \/ batch'[q] = batch[q]
      BY <2>2, NoBatchIs DEF Taken
    <3>2. \A q \in Writers : Range(batch[q].lines) \subseteq UnderWay BY BatchIs DEF Sound
    <3>3. UnderWay \subseteq UnderWay' BY <3>1, NoBatchIs DEF UnderWay
    <3>4. Range(buffer) \subseteq UnderWay' BY <1>4, <3>1 DEF UnderWay
    <3>5. QED BY <3>1, <3>2, <3>3, <3>4
  <2>3. QED BY <2>1, <2>2, TakesAllIs
<1>6. ASSUME NEW l \in 1..said PROVE Placed(l)' BY <1>1, <1>2, <1>5 DEF Placed
<1>7. Reported' => AllLate' BY <1>2, <1>5 DEF AllLate, Reported
<1>8. QED BY <1>1, <1>2, <1>3, <1>6, <1>7 DEF KeptInv, Placed, AllLate

\* The lines stay, and so does who posts them, or its POST is over.
LEMMA StandKept ==
  ASSUME Sound, KeptInv, losses = 0, UNCHANGED <<said, buffer, text, session, late>>,
         \A q \in Writers : batch'[q].lines = batch[q].lines,
         \A q \in Writers :
           batch'[q].by = batch[q].by \/ (batch'[q].lines = <<>> /\ batch'[q].by = "nobody"),
         Reported' => Reported, result = "settled" => result' = "settled",
         result' = "settled" => result = "settled" \/ ~Posts("report")
  PROVE  KeptInv'
<1>1. UnderWay' = UnderWay BY DEF UnderWay
<1>2. session = "up" /\ \A l \in 1..said : Placed(l) BY KeptIs
<1>3. \A l \in 1..said : Placed(l)' BY <1>1, <1>2 DEF Placed
<1>4. Reported' => buffer' = <<>> /\ AllLate'
  <2>1. SUFFICES ASSUME Reported PROVE buffer = <<>> /\ AllLate' OBVIOUS
  <2>2. buffer = <<>> /\ AllLate BY <2>1, KeptIs
  <2>3. QED BY <2>2, NoBatchIs DEF AllLate
<1>5. result' = "settled" => ~Posts("report")'
  <2>1. Posts("report")' => Posts("report") BY DEF Posts
  <2>2. result = "settled" => ~Posts("report") BY KeptIs
  <2>3. QED BY <2>1, <2>2
<1>6. QED BY <1>2, <1>3, <1>4, <1>5 DEF KeptInv, Placed, AllLate

\* A line leaves its batch for its row, or late.
LEMMA HandledKept ==
  ASSUME Sound, KeptInv, PlacesInv, OrderInv, losses = 0,
         NEW p \in Writers, batch[p].lines # <<>>, Handled(p),
         UNCHANGED <<said, buffer, session, result, overlap, late>>,
         \/ text' = Append(text, Head(batch[p].lines))
         \/ text' = text /\ result = "settled"
  PROVE  KeptInv'
<1> DEFINE h == Head(batch[p].lines)
<1>1. UnderWay \subseteq UnderWay' \cup {h} BY HandledFlow
<1>2. /\ batch'[p].lines = Tail(batch[p].lines) /\ h \in Lines /\ batch'[p].by = batch[p].by
      /\ \A q \in Writers : q = p \/ batch'[q] = batch[q]
  BY HandledIs
<1>3. Range(batch[p].lines) = {h} \cup Range(batch'[p].lines)
  BY <1>2, BatchIs, Taking DEF Sound
<1> HIDE DEF h
<1>4. text \in Seq(Lines) BY DEF Sound, UpdatesOK
<1>5. /\ session = "up" /\ \A l \in 1..said : Placed(l)
      /\ Reported => buffer = <<>> /\ AllLate
      /\ result = "settled" => ~Posts("report")
  BY KeptIs
<1>6. Range(text) \subseteq Range(text') /\ (h \in Range(text') \/ (result = "settled" /\ h \in late))
  <2>1. CASE text' = Append(text, h) BY <1>2, <1>4, <2>1, Appending
  <2>2. CASE text' = text /\ result = "settled"
    <3>1. AllLate /\ batch[p].by # "report" BY <1>5, <2>2 DEF Reported, Posts
    <3>2. QED BY <1>3, <2>2, <3>1 DEF AllLate
  <2>3. QED BY <2>1, <2>2 DEF h
<1>7. \A l \in 1..said : Placed(l)' BY <1>1, <1>5, <1>6 DEF Placed
<1>8. Reported' => buffer' = <<>> /\ AllLate'
  <2>1. SUFFICES ASSUME Reported PROVE AllLate' BY <1>5 DEF Reported
  <2>2. AllLate BY <1>5, <2>1
  <2>3. QED BY <1>2, <1>3, <2>2 DEF AllLate
<1>9. result' = "settled" => ~Posts("report")' BY <1>2, <1>5 DEF Posts
<1>10. QED BY <1>5, <1>7, <1>8, <1>9 DEF KeptInv, Placed, AllLate

LEMMA FlowStep == ASSUME Sound, Flow, [NextAll]_allVars PROVE Flow'
<1>1. UpdatesOK /\ PlacesInv /\ OrderInv /\ KeptInv BY DEF Sound, Flow
<1>2. ASSUME losses' = 0, GivesUp \/ UNCHANGED losses PROVE losses = 0 /\ ~GivesUp
  BY <1>1, <1>2, Losing
<1>3. CASE Say
  <2>1. GivesUp \/ UNCHANGED losses BY <1>3 DEF Say
  <2>2. KeptInv'
    <3>1. CASE losses' = 0 BY <1>1, <1>2, <1>3, <2>1, <3>1, SayKept
    <3>2. CASE losses' # 0 BY <3>2 DEF KeptInv
    <3>3. QED BY <3>1, <3>2
  <2>3. QED BY <1>1, <1>3, <2>2, SayFlow DEF Flow
<1>4. CASE UNCHANGED edge
  <2>1. PlacesInv' /\ OrderInv' BY <1>1, <1>4, StandFlow DEF edge
  <2>2. KeptInv' BY <1>1, <1>4 DEF edge, KeptInv, Reported, Posts, UnderWay
  <2>3. QED BY <2>1, <2>2 DEF Flow
<1>5. CASE End \/ HandleDone
  <2>1. UNCHANGED <<said, buffer, batch, session, text, losses, overlap, late>>
    BY <1>5 DEF End, HandleDone
  <2>2. PlacesInv' /\ OrderInv' BY <1>1, <2>1, StandFlow
  <2>3. /\ Reported' => Reported
        /\ result = "settled" => result' = "settled"
        /\ result' = "settled" => result = "settled" \/ ~Posts("report")
    BY <1>5 DEF End, HandleDone, Reported
  <2>4. KeptInv'
    <3>1. CASE losses = 0 BY <1>1, <2>1, <2>3, <3>1, StandKept
    <3>2. CASE losses # 0 BY <2>1, <3>2 DEF KeptInv
    <3>3. QED BY <3>1, <3>2
  <2>5. QED BY <2>2, <2>4 DEF Flow
<1>6. CASE Break
  <2>1. /\ UNCHANGED <<said, buffer, batch, result, text, overlap, late>> /\ GivesUp BY <1>6 DEF Break
  <2>2. PlacesInv' /\ OrderInv' BY <1>1, <2>1, StandFlow
  <2>3. KeptInv' BY <1>2, <2>1 DEF KeptInv
  <2>4. QED BY <2>2, <2>3 DEF Flow
<1>7. CASE Flush \/ ReportOther
  <2>1. PICK f \in Flushers : TakesAll(f) BY <1>7, NoBatchIs DEF Flush, ReportOther
  <2>2. UNCHANGED <<said, session, result, text, losses, late>> /\ buffer # <<>>
    BY <1>7 DEF Flush, ReportOther
  <2>3. PlacesInv' /\ OrderInv' BY <1>1, <2>1, <2>2, FlushFlow
  <2>4. KeptInv'
    <3>1. CASE losses = 0 BY <1>1, <2>1, <2>2, <3>1, FlushKept
    <3>2. CASE losses # 0 BY <2>2, <3>2 DEF KeptInv
    <3>3. QED BY <3>1, <3>2
  <2>5. QED BY <2>3, <2>4 DEF Flow
<1>8. CASE LeaveLoop
  <2>1. TakesAll("loop") /\ session = "closed" /\ UNCHANGED <<said, result, text, losses, late>>
    BY <1>8 DEF LeaveLoop
  <2>2. PlacesInv' /\ OrderInv' BY <1>1, <2>1, FlushFlow, NoBatchIs
  <2>3. KeptInv' BY <1>1, <2>1 DEF KeptInv
  <2>4. QED BY <2>2, <2>3 DEF Flow
<1>9. CASE ReportDone
  <2>1. /\ result = "ready" /\ result' = "reporting" /\ late' = UnderWay /\ ~Posts("report")
        /\ UNCHANGED <<said, session, text, losses>> /\ FlushesFirst
    BY <1>9 DEF ReportDone
  <2>2. CASE TakesAll("report")
    <3>1. PlacesInv' /\ OrderInv' BY <1>1, <2>1, <2>2, FlushFlow, NoBatchIs
    <3>2. KeptInv'
      <4>1. CASE losses = 0 BY <1>1, <2>1, <2>2, <4>1, FlushKept, NoBatchIs
      <4>2. CASE losses # 0 BY <2>1, <4>2 DEF KeptInv
      <4>3. QED BY <4>1, <4>2
    <3>3. QED BY <3>1, <3>2 DEF Flow
  <2>3. CASE session # "up" /\ UNCHANGED <<buffer, batch, overlap>>
    <3>1. PlacesInv' /\ OrderInv' BY <1>1, <2>1, <2>3, StandFlow
    <3>2. KeptInv' BY <1>1, <2>1, <2>3 DEF KeptInv
    <3>3. QED BY <3>1, <3>2 DEF Flow
  <2>4. QED BY <2>1, <2>2, <2>3 DEF FlushesFirst
<1>10. ASSUME NEW p \in Writers, PostFails(p) \/ TimesOut(p) \/ Arrives(p) \/ Answer(p) PROVE Flow'
  <2>1. PICK b \in Batches : Moved(p, b) BY <1>10, Moves
  <2>2. /\ batch'[p] = b /\ \A q \in Writers \ {p} : batch'[q] = batch[q]
        /\ \A q \in Writers : batch'[q].lines = batch[q].lines \/ batch'[q].lines = <<>>
    BY <2>1, MovedIs
  <2>3. UNCHANGED <<said, buffer, session, result, text, overlap, late>>
    BY <1>10 DEF PostFails, TimesOut, Arrives, Answer
  <2>4. PlacesInv' /\ OrderInv' BY <1>1, <2>2, <2>3, StandFlow
  <2>5. CASE PostFails(p) \/ TimesOut(p)
    <3>1. GivesUp BY <2>5 DEF PostFails, TimesOut
    <3>2. KeptInv' BY <1>2, <3>1 DEF KeptInv
    <3>3. QED BY <2>4, <3>2 DEF Flow
  <2>6. CASE Arrives(p) \/ Answer(p)
    <3>1. UNCHANGED losses BY <2>6 DEF Arrives, Answer
    <3>2. batch \in [Writers -> Batches] BY <1>1, BatchIs
    <3>3. /\ batch'[p].lines = batch[p].lines
          /\ batch'[p].by = batch[p].by \/ (batch'[p].lines = <<>> /\ batch'[p].by = "nobody")
      BY <2>6, <3>2, NoBatchIs DEF Arrives, Answer, Batches
    <3>4. /\ \A q \in Writers : batch'[q].lines = batch[q].lines
          /\ \A q \in Writers :
               batch'[q].by = batch[q].by \/ (batch'[q].lines = <<>> /\ batch'[q].by = "nobody")
      BY <2>2, <3>3
    <3>5. KeptInv'
      <4>1. CASE losses = 0 BY <1>1, <2>3, <3>4, <4>1, StandKept DEF Reported
      <4>2. CASE losses # 0 BY <3>1, <4>2 DEF KeptInv
      <4>3. QED BY <4>1, <4>2
    <3>6. QED BY <2>4, <3>5 DEF Flow
  <2>7. QED BY <1>10, <2>5, <2>6
<1>11. ASSUME NEW p \in Writers, DropLog(p) \/ StoreLog(p) \/ StoreFails(p) PROVE Flow'
  <2>1. /\ batch[p].lines # <<>> /\ Handled(p)
        /\ UNCHANGED <<said, buffer, session, result, losses, overlap, late>>
    BY <1>11 DEF DropLog, Handles, StoreLog, StoreFails, AppendLine, AppendFails, Sound, HandlersInv
  <2>2. \/ text' = Append(text, Head(batch[p].lines))
        \/ text' = text /\ result = "settled"
    BY <1>11 DEF DropLog, StoreLog, StoreFails, AppendFails, Sound, HandlersInv
  <2>3. PlacesInv' /\ OrderInv' BY <1>1, <2>1, <2>2, HandledFlow
  <2>4. KeptInv'
    <3>1. CASE losses = 0 BY <1>1, <2>1, <2>2, <3>1, HandledKept
    <3>2. CASE losses # 0 BY <2>1, <3>2 DEF KeptInv
    <3>3. QED BY <3>1, <3>2
  <2>5. QED BY <2>3, <2>4 DEF Flow
<1>12. CASE \/ \E p \in Writers : HandleLog(p) \/ Streams(p)
            \/ Settles \/ Over \/ Streaming
            \/ ((Reclaim \/ Cancel \/ Take \/ Quiet) /\ UNCHANGED edge)
            \/ UNCHANGED allVars
  <2>1. UNCHANGED edge BY <1>12 DEF HandleLog, Streams, Settles, Over, Streaming, allVars
  <2>2. QED BY <1>4, <2>1
<1>13. QED
  BY <1>3, <1>5, <1>6, <1>7, <1>8, <1>9, <1>10, <1>11, <1>12 DEF NextAll, EdgeStep, MainStep

LEMMA InitSound == InitAll => Sound /\ Flow
<1> SUFFICES ASSUME InitAll PROVE Sound /\ Flow OBVIOUS
<1>1. FollowInv BY InitFollow
<1>2. /\ said = 0 /\ buffer = <<>> /\ batch = [p \in Writers |-> NoBatch] /\ session = "up"
      /\ result = "none" /\ text = <<>> /\ losses = 0 /\ overlap = FALSE /\ late = {}
      /\ lines = 0 /\ deploy = "running" /\ ~gone /\ \A p \in Writers : writer[p].pc = "idle"
  BY DEF InitAll, Init
<1>3. <<>> \in Seq(Lines) /\ Len(<<>>) = 0 BY EmptySeq
<1>4. UpdatesOK
  <2>1. batch \in [Writers -> Batches] BY <1>2, NoBatchIs
  <2>2. said \in 0..MaxLines /\ losses \in 0..MaxLosses BY <1>2, LinesAssumption, LossesAssumption
  <2>3. /\ buffer \in Seq(Lines) /\ Len(buffer) <= BufferCap /\ text \in Seq(Lines) /\ Len(text) = lines
    BY <1>2, <1>3, BufferAssumption
  <2>4. overlap \in BOOLEAN /\ late \subseteq Lines BY <1>2
  <2>5. QED BY <1>2, <2>1, <2>2, <2>3, <2>4 DEF UpdatesOK, Batches
<1>5. HandlersInv BY <1>2 DEF HandlersInv
<1>6. \A p \in Writers : batch[p].lines = <<>> BY <1>2, NoBatchIs
<1>7. UnderWay = {} BY <1>6, NoBatchIs DEF UnderWay
<1>8. PlacesInv
  <2>1. IsInjective(<<>>) BY <1>3 DEF IsInjective
  <2>2. QED BY <1>2, <1>6, <1>7, <2>1, NoLines, NoBatchIs DEF PlacesInv
<1>9. OrderInv BY <1>2, <1>6, NoLines DEF OrderInv
<1>10. KeptInv BY <1>2 DEF KeptInv, Reported
<1>11. QED BY <1>1, <1>4, <1>5, <1>8, <1>9, <1>10 DEF Sound, Flow

LEMMA Holds == SpecAll => [](Sound /\ Flow)
  BY InitSound, SoundStep, FlowStep, PTL DEF SpecAll

-----------------------------------------------------------------------------
(* Theorems                                                                 *)

\* A follower is sent no line twice and nothing after Done, whatever
\* interleaves with its replay (logs.go:91-92).
THEOREM SentOnce == SpecAll => []NoRepeats
<1>1. Sound => NoRepeats BY DEF Sound, FollowInv
<1>2. QED BY <1>1, Holds, PTL

\* Every stored line is with the consumer or on its way to it, unless its
\* subscription overflowed, and Done is told of nothing that may still change
\* (logs.go:91-92, 122-130).
THEOREM NothingIsLost == SpecAll => []Accounted
<1>1. Sound => Accounted BY DEF Sound, FollowInv
<1>2. QED BY <1>1, Holds, PTL

\* No line is stored twice, nor out of order but beside another POST, and all
\* that was said is stored when the result settles but for what was under way
\* as it was reported and what the code gives up (transport_sse.go:286, 324-341).
THEOREM LogsAreWhole == SpecAll => []LogIsWhole
<1>1. ASSUME Sound, Flow PROVE LogIsWhole
  <2>1. IsInjective(text) /\ (~overlap => Increases(text))
    BY <1>1 DEF Flow, PlacesInv, OrderInv
  <2>2. ASSUME result = "settled", losses = 0 PROVE (1..said) \ Range(text) \subseteq late
    <3>1. /\ \A l \in 1..said : Placed(l)
          /\ buffer = <<>> /\ AllLate /\ ~Posts("report")
      BY <1>1, <2>2, KeptIs DEF Flow, Reported
    <3>2. UnderWay \subseteq late BY <3>1 DEF AllLate, Posts, UnderWay
    <3>3. QED BY <3>1, <3>2, NoBatchIs DEF Placed
  <2>3. QED BY <2>1, <2>2 DEF LogIsWhole
<1>2. QED BY <1>1, Holds, PTL
=============================================================================
