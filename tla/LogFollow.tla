----------------------------- MODULE LogFollow -----------------------------
(***************************************************************************)
(* Following a deploy's log (store/logs.go): the rows of one deploy, the   *)
(* handlers that append to them, the broadcaster, and one follower with    *)
(* its consumer.  A line is its rowid; what it says is left out.  The      *)
(* statements of the store run on one connection, so each is a step; the   *)
(* broadcaster's sections are steps because of its mutex.  Updates says    *)
(* when a writer has a line, and composes the steps into a system.         *)
(***************************************************************************)
EXTENDS Naturals, Sequences, Functions

CONSTANTS
  Writers,   \* goroutines that log for the deploy's executions
  MaxLines,  \* bound: lines appended
  SubCap,    \* capacity of a subscription, 1024
  OutCap     \* capacity of the channel FollowDeploy returns, 64

ASSUME WritersAssumption == Writers # {}
ASSUME LinesAssumption == MaxLines \in Nat
ASSUME CapsAssumption == SubCap \in Nat \ {0} /\ OutCap \in Nat \ {0}

Lines == 1..MaxLines
DoneEvent == 0
Events == Lines \cup {DoneEvent}
NoLine == 0

VARIABLES
  lines,     \* the last rowid
  writer,    \* [pc, line] of each writer
  deploy,    \* running, stamped (finished_at is set), over (Done published)
  gone,      \* retention deleted the deploy
  sub,       \* the follower's subscription
  missed,    \* history: events dropped because sub was full
  before,    \* history: lines published before finished_at was set
  follower,  \* [pc, replay, max]: its goroutine
  out,       \* the channel to the consumer
  got        \* what the consumer has taken, in order

vars == <<lines, writer, deploy, gone, sub, missed, before, follower, out, got>>

FollowerPcs == {"start", "opened", "subscribed", "replaying", "live", "closed"}

TypeOK ==
  /\ lines \in 0..MaxLines
  /\ writer \in [Writers -> [pc : {"idle", "held", "stored"}, line : Lines \cup {NoLine}]]
  /\ deploy \in {"running", "stamped", "over"} /\ gone \in BOOLEAN
  /\ sub \in Seq(Events) /\ Len(sub) <= SubCap
  /\ missed \subseteq Events /\ before \subseteq Lines
  /\ follower \in [pc : FollowerPcs, replay : Seq(Lines), max : Lines \cup {NoLine}]
  /\ out \in Seq(Events) /\ Len(out) <= OutCap
  /\ got \in Seq(Events)

Init ==
  /\ lines = 0
  /\ writer = [w \in Writers |-> [pc |-> "idle", line |-> NoLine]]
  /\ deploy = "running" /\ gone = FALSE
  /\ sub = <<>> /\ missed = {} /\ before = {}
  /\ follower = [pc |-> "start", replay |-> <<>>, max |-> NoLine]
  /\ out = <<>> /\ got = <<>>

-----------------------------------------------------------------------------
(* Writers and the end of the deploy                                        *)

Subscribed == follower.pc \in {"subscribed", "replaying", "live"}

Room == Len(sub) < SubCap

\* A slow consumer loses the event rather than block the writer.
Publish(ev) ==
  IF ~Subscribed THEN UNCHANGED <<sub, missed>>
  ELSE IF Room THEN sub' = Append(sub, ev) /\ UNCHANGED missed
  ELSE missed' = missed \cup {ev} /\ UNCHANGED sub

ByWriter == UNCHANGED <<deploy, gone, follower, out, got>>

\* HandleLog finds the execution in flight and holds on to its sink, so its
\* line may be stored when the deploy is already over.
FindSink(w) ==
  /\ writer[w].pc = "idle" /\ deploy = "running"
  /\ writer' = [writer EXCEPT ![w].pc = "held"]
  /\ UNCHANGED <<lines, sub, missed, before>> /\ ByWriter

AppendLine(w) ==
  /\ writer[w].pc = "held" /\ lines < MaxLines /\ ~gone
  /\ lines' = lines + 1
  /\ writer' = [writer EXCEPT ![w] = [pc |-> "stored", line |-> lines + 1]]
  /\ UNCHANGED <<sub, missed, before>> /\ ByWriter

\* The execution was deleted: the INSERT fails its foreign key.
AppendFails(w) ==
  /\ writer[w].pc = "held" /\ gone
  /\ writer' = [writer EXCEPT ![w].pc = "idle"]
  /\ UNCHANGED <<lines, sub, missed, before>> /\ ByWriter

PublishLine(w) ==
  /\ writer[w].pc = "stored"
  /\ Publish(writer[w].line)
  /\ before' = IF deploy = "running" THEN before \cup {writer[w].line} ELSE before
  /\ writer' = [writer EXCEPT ![w] = [pc |-> "idle", line |-> NoLine]]
  /\ UNCHANGED lines /\ ByWriter

\* RecomputeDeployStatus sets finished_at, ...
Stamp ==
  /\ deploy = "running"
  /\ deploy' = "stamped"
  /\ UNCHANGED <<lines, writer, gone, sub, missed, before, follower, out, got>>

\* ... then publishes Done.
PublishDone ==
  /\ deploy = "stamped"
  /\ deploy' = "over"
  /\ Publish(DoneEvent)
  /\ UNCHANGED <<lines, writer, gone, before, follower, out, got>>

\* CleanupService, in the loop of another deploy of the service.
Reclaim ==
  /\ deploy # "running" /\ ~gone
  /\ gone' = TRUE
  /\ UNCHANGED <<lines, writer, deploy, sub, missed, before, follower, out, got>>

-----------------------------------------------------------------------------
(* FollowDeploy                                                             *)

ByFollower == UNCHANGED <<lines, writer, deploy, gone, missed, before, got>>
Goes(pc) == follower' = [follower EXCEPT !.pc = pc]

Open ==
  /\ follower.pc = "start"
  /\ Goes(IF gone THEN "closed" ELSE "opened")
  /\ UNCHANGED <<sub, out>> /\ ByFollower

Subscribe ==
  /\ follower.pc = "opened"
  /\ Goes("subscribed")
  /\ UNCHANGED <<sub, out>> /\ ByFollower

\* GetDeployLogs: the rows that are there now, in rowid order.
Stored == IF gone THEN <<>> ELSE [k \in 1..lines |-> k]

ReadRows ==
  /\ follower.pc = "subscribed"
  /\ follower' = [follower EXCEPT !.pc = "replaying", !.replay = Stored]
  /\ UNCHANGED <<sub, out>> /\ ByFollower

Send(ev) == Len(out) < OutCap /\ out' = Append(out, ev)

Replay ==
  /\ follower.pc = "replaying" /\ follower.replay # <<>>
  /\ Send(Head(follower.replay))
  /\ follower' = [follower EXCEPT !.replay = Tail(@), !.max = Head(follower.replay)]
  /\ UNCHANGED sub /\ ByFollower

FinishedMut == FALSE
Finished == deploy # "running" /\ ~gone

\* The deploy may have finished before the subscription.
EndsAtOnce ==
  /\ follower.pc = "replaying" /\ follower.replay = <<>> /\ Finished
  /\ Send(DoneEvent) /\ Goes("closed")
  /\ UNCHANGED sub /\ ByFollower

GoLive ==
  /\ follower.pc = "replaying" /\ follower.replay = <<>> /\ ~Finished
  /\ Goes("live")
  /\ UNCHANGED <<sub, out>> /\ ByFollower

ReplayedStrict(ev) == ev < follower.max
ReplayedWide(ev) == ev <= follower.max + 1
Replayed(ev) == ev <= follower.max

Skip ==
  /\ follower.pc = "live" /\ sub # <<>> /\ Head(sub) # DoneEvent /\ Replayed(Head(sub))
  /\ sub' = Tail(sub)
  /\ UNCHANGED <<follower, out>> /\ ByFollower

Forward ==
  /\ follower.pc = "live" /\ sub # <<>> /\ (Head(sub) = DoneEvent \/ ~Replayed(Head(sub)))
  /\ Send(Head(sub))
  /\ sub' = Tail(sub)
  /\ Goes(IF Head(sub) = DoneEvent THEN "closed" ELSE "live")
  /\ ByFollower

\* The client went away: cancel.
Cancel ==
  /\ follower.pc \in {"replaying", "live"}
  /\ Goes("closed")
  /\ UNCHANGED <<sub, out>> /\ ByFollower

\* handleLogs writes the next event to the client.
Take ==
  /\ out # <<>>
  /\ got' = Append(got, Head(out)) /\ out' = Tail(out)
  /\ UNCHANGED <<lines, writer, deploy, gone, sub, missed, before, follower>>

-----------------------------------------------------------------------------

FollowerStep ==
  \/ Open \/ Subscribe \/ ReadRows \/ Replay \/ EndsAtOnce \/ GoLive \/ Skip \/ Forward

\* Nothing is left to write and the stream has ended, or waits for ever.
Quiet == deploy = "over" /\ UNCHANGED vars

-----------------------------------------------------------------------------
(* Properties                                                               *)

Sent == got \o out

\* No event reaches the consumer twice, whatever interleaves with the replay
\* (logs.go:91-92), and nothing follows Done.
NoRepeats ==
  /\ IsInjective(Sent)
  /\ \A k \in DOMAIN Sent : Sent[k] = DoneEvent => k = Len(Sent)

\* Every line that was stored is with the consumer or on its way to it, unless
\* the subscription overflowed (logs.go:91-92); and nobody is told Done of a
\* deploy that may still change, nor is a line published ahead of it lost by
\* then but in a subscription that is given up unread (logs.go:122-130).
OnItsWay == Range(Sent) \cup Range(sub) \cup Range(follower.replay) \cup missed
InTransit(l) == \E w \in Writers : writer[w].line = l
Accounted ==
  /\ follower.pc \in {"replaying", "live"} /\ ~gone =>
       \A l \in 1..lines : l \in OnItsWay \/ InTransit(l)
  /\ DoneEvent \in Range(Sent) => deploy # "running" /\ (gone \/ before \subseteq OnItsWay)

\* What these rest on.  A line is on its way to the subscription from its row
\* until it is published, each by one writer.
WritersInv ==
  /\ \A w \in Writers :
       /\ writer[w].pc = "stored" <=> writer[w].line # NoLine
       /\ writer[w].line <= lines
  /\ \A v, w \in Writers : writer[v].line = writer[w].line => v = w \/ writer[v].line = NoLine

\* An event is published once: it has left its writer for good.
Published(ev) ==
  IF ev = DoneEvent THEN deploy = "over" ELSE ev <= lines /\ ~InTransit(ev)

SubInv ==
  /\ IsInjective(sub)
  /\ \A ev \in Range(sub) \cup before : Published(ev)
  /\ follower.pc \in {"start", "opened"} => sub = <<>>

\* The replay is of consecutive rows, from the one after the last it has sent.
ReplayInv ==
  /\ follower.max + Len(follower.replay) <= lines
  /\ \A k \in DOMAIN follower.replay : follower.replay[k] = follower.max + k
  /\ follower.pc \in {"start", "opened", "subscribed"} =>
       follower.replay = <<>> /\ follower.max = NoLine /\ Sent = <<>>

\* All rows of the replay have been sent, and what was sent after it has left
\* the subscription.
SentInv ==
  follower.pc \in {"replaying", "live"} =>
    /\ 1..follower.max \subseteq Range(Sent) /\ DoneEvent \notin Range(Sent)
    /\ \A ev \in Range(Sent) : ev > follower.max =>
         follower.pc = "live" /\ Published(ev) /\ ev \notin Range(sub)

\* "Subscribe before replaying so no line can fall between the two"
\* (logs.go:90-91): whoever is told Done has been sent every line that was
\* published before the deploy finished.
NothingBetween ==
  DoneEvent \in Range(Sent) /\ ~gone /\ missed = {} => before \subseteq Range(Sent)
=============================================================================
