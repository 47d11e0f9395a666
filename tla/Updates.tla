------------------------------ MODULE Updates ------------------------------
(***************************************************************************)
(* The way of a log line from an execution on an edge to main's store      *)
(* (edge/agent.go, edge/transport_sse.go, httpapi/edge.go, edgehub/hub.go),*)
(* composed with the store and a follower of LogFollow, whose writers are  *)
(* here the handlers of POSTs.  The lines are those of one execution, each *)
(* the number of it; the session's buffer, its flushLoop and the pump that *)
(* reports results serve other executions too.  What becomes of the result *)
(* itself is EdgeLink.                                                     *)
(***************************************************************************)
EXTENDS LogFollow

CONSTANTS
  BufferCap,   \* maxBufferedUpdates
  MaxLosses    \* bound: times that progress is given up

ASSUME BufferAssumption == BufferCap \in Nat \ {0}
ASSUME LossesAssumption == MaxLosses \in Nat

\* The flushers of a session: its flushLoop, and ReportDone in the pump.
Flushers == {"loop", "report"}

VARIABLES
  said,      \* lines the engine has logged
  buffer,    \* updates of the session the execution was started on
  batch,     \* [at, by, lines] of a POST: where it is, who waits for it
  session,   \* that session: up, closed, or left by its flushLoop too
  result,    \* of the execution: none, ready, reporting, settled on main
  text,      \* the line in each row
  losses,    \* history: how often progress was given up
  overlap,   \* history: a POST was begun beside another
  late       \* history: lines under way when the result was reported

edge == <<said, buffer, batch, session, result, text, losses, overlap, late>>
allVars == <<vars, edge>>

NoBatch == [at |-> "none", by |-> "nobody", lines |-> <<>>]

UpdatesOK ==
  /\ said \in 0..MaxLines
  /\ buffer \in Seq(Lines) /\ Len(buffer) <= BufferCap
  /\ batch \in [Writers -> [at : {"none", "edge", "main"}, by : Flushers \cup {"nobody"},
                            lines : Seq(Lines)]]
  /\ session \in {"up", "closed", "left"} /\ result \in {"none", "ready", "reporting", "settled"}
  /\ text \in Seq(Lines) /\ Len(text) = lines
  /\ losses \in 0..MaxLosses /\ overlap \in BOOLEAN /\ late \subseteq Lines

InitAll ==
  /\ Init
  /\ said = 0 /\ buffer = <<>> /\ batch = [p \in Writers |-> NoBatch]
  /\ session = "up" /\ result = "none" /\ text = <<>>
  /\ losses = 0 /\ overlap = FALSE /\ late = {}

-----------------------------------------------------------------------------
(* The edge                                                                *)

\* "progress is expendable; the result is not"
GivesUp == losses < MaxLosses /\ losses' = losses + 1

\* ReportUpdate: the buffer is bounded, and the lines of other executions take
\* room in it as well.
Say ==
  /\ result = "none" /\ said < MaxLines
  /\ said' = said + 1
  /\ \/ Len(buffer) < BufferCap /\ buffer' = Append(buffer, said + 1) /\ UNCHANGED losses
     \/ GivesUp /\ UNCHANGED buffer
  /\ UNCHANGED <<vars, batch, session, result, text, overlap, late>>

\* The execution ends; its result is buffered.
End ==
  /\ result = "none"
  /\ result' = "ready"
  /\ UNCHANGED <<vars, said, buffer, batch, session, text, losses, overlap, late>>

\* The stream breaks.  The execution goes on, and so does its sink.
Break ==
  /\ session = "up"
  /\ session' = "closed" /\ GivesUp
  /\ UNCHANGED <<vars, said, buffer, batch, result, text, overlap, late>>

\* A flusher waits for its POST.
Posts(f) == \E p \in Writers : batch[p].by = f
UnderWay == {l \in Lines : \E p \in Writers : l \in Range(batch[p].lines)}

\* flushUpdates takes what there is, of all executions, and posts it.  Two
\* POSTs under way at once are handled by two goroutines.
TakesAll(f) ==
  IF buffer = <<>> THEN UNCHANGED <<buffer, batch, overlap>>
  ELSE /\ buffer' = <<>>
       /\ \E p \in Writers : batch[p] = NoBatch
       /\ LET p == CHOOSE p \in Writers : batch[p] = NoBatch
          IN  batch' = [batch EXCEPT ![p] = [at |-> "edge", by |-> f, lines |-> buffer]]
       /\ overlap' = (overlap \/ UnderWay # {})

Flush ==
  /\ session # "left" /\ ~Posts("loop") /\ buffer # <<>>
  /\ TakesAll("loop")
  /\ UNCHANGED <<vars, said, session, result, text, losses, late>>

\* flushLoop ends with its session, after a last flush.
LeaveLoop ==
  /\ session = "closed" /\ ~Posts("loop")
  /\ TakesAll("loop") /\ session' = "left"
  /\ UNCHANGED <<vars, said, result, text, losses, late>>

\* The pump reports the result of another execution, and flushes the
\* session's buffer for it.  It may have picked the session before it broke.
ReportOther ==
  /\ ~Posts("report") /\ buffer # <<>>
  /\ TakesAll("report")
  /\ UNCHANGED <<vars, said, session, result, text, losses, late>>

\* ReportDone flushes the session it is called on first: the one the
\* execution logs to, unless that has gone.
FlushesMut == UNCHANGED <<buffer, batch, overlap>>
FlushesFirst ==
  \/ TakesAll("report")
  \/ session # "up" /\ UNCHANGED <<buffer, batch, overlap>>

ReportDone ==
  /\ result = "ready" /\ ~Posts("report")
  /\ FlushesFirst
  /\ result' = "reporting" /\ late' = UnderWay
  /\ UNCHANGED <<vars, said, session, text, losses>>

\* A POST of a batch is tried once, ...
PostFails(p) ==
  /\ batch[p].at = "edge"
  /\ batch' = [batch EXCEPT ![p] = NoBatch] /\ GivesUp
  /\ UNCHANGED <<vars, said, buffer, session, result, text, overlap, late>>

\* ... and when its 15 seconds are over, main may still be at it.
TimesOut(p) ==
  /\ batch[p].by \in Flushers
  /\ batch' = [batch EXCEPT ![p].by = "nobody"] /\ GivesUp
  /\ UNCHANGED <<vars, said, buffer, session, result, text, overlap, late>>

-----------------------------------------------------------------------------
(* Main                                                                    *)

\* handleEdgeUpdates reads the whole body, then hands its lines to the hub.
Arrives(p) ==
  /\ batch[p].at = "edge"
  /\ batch' = [batch EXCEPT ![p].at = "main"]
  /\ UNCHANGED <<vars, said, buffer, session, result, text, losses, overlap, late>>

Handles(p) == batch[p].at = "main" /\ batch[p].lines # <<>> /\ writer[p].pc = "idle"
Handled(p) == batch' = [batch EXCEPT ![p].lines = Tail(@)]

\* lookup, with and without the execution in flight.  It leaves the map
\* between its result and the end of the deploy.
HandleLog(p) == Handles(p) /\ FindSink(p) /\ UNCHANGED edge

DropLog(p) ==
  /\ Handles(p) /\ result = "settled" /\ Handled(p)
  /\ UNCHANGED <<vars, said, buffer, session, result, text, losses, overlap, late>>

StoreLog(p) ==
  /\ AppendLine(p) /\ Handled(p)
  /\ text' = Append(text, Head(batch[p].lines))
  /\ UNCHANGED <<said, buffer, session, result, losses, overlap, late>>

StoreFails(p) ==
  /\ AppendFails(p) /\ Handled(p)
  /\ UNCHANGED <<said, buffer, session, result, text, losses, overlap, late>>

Streams(p) == PublishLine(p) /\ UNCHANGED edge

Answer(p) ==
  /\ batch[p].at = "main" /\ batch[p].lines = <<>> /\ writer[p].pc = "idle"
  /\ batch' = [batch EXCEPT ![p] = NoBatch]
  /\ UNCHANGED <<vars, said, buffer, session, result, text, losses, overlap, late>>

\* handleEdgeDone, posted when the flush has been answered or given up: the
\* deploy can finish.
HandleDone ==
  /\ result = "reporting" /\ ~Posts("report")
  /\ result' = "settled"
  /\ UNCHANGED <<vars, said, buffer, batch, session, text, losses, overlap, late>>

Settles == result = "settled" /\ Stamp /\ UNCHANGED edge

-----------------------------------------------------------------------------
EdgeStep == Say \/ End \/ Flush \/ LeaveLoop \/ ReportOther \/ ReportDone
MainStep(p) ==
  \/ Arrives(p) \/ HandleLog(p) \/ DropLog(p) \/ StoreLog(p) \/ StoreFails(p) \/ Streams(p)
  \/ Answer(p)
Streaming == FollowerStep /\ UNCHANGED edge
Over == PublishDone /\ UNCHANGED edge

NextAll ==
  \/ EdgeStep \/ Break \/ HandleDone \/ Settles \/ Over
  \/ \E p \in Writers : PostFails(p) \/ TimesOut(p) \/ MainStep(p)
  \/ Streaming
  \/ (Reclaim \/ Cancel \/ Take \/ Quiet) /\ UNCHANGED edge

SpecAll == InitAll /\ [][NextAll]_allVars

\* Both processes run, every POST reaches main or fails and is handled there,
\* and the consumer reads as long as it is there.  The stream need not break,
\* nor other executions end, nor retention run.  What is fair in one formula
\* is done once each, so that it need not be fair one by one.
Ending == End \/ ReportDone \/ HandleDone \/ Settles \/ Over

FairSpecAll ==
  /\ SpecAll
  /\ WF_allVars(Ending) /\ WF_allVars(\E p \in Writers : MainStep(p))
  /\ WF_allVars(Streaming) /\ WF_allVars(Take /\ UNCHANGED edge)

-----------------------------------------------------------------------------
(* Properties                                                              *)

Increases(s) == \A j, k \in DOMAIN s : j < k => s[j] < s[k]

(* No line of a deploy is stored twice.  They are stored in the order they *)
(* were said unless two POSTs of them were under way at once.  And "a      *)
(* deploy's log must not end after its own result"                         *)
(* (transport_sse.go:337): what was said is stored when the result settles *)
(* but for what the flushLoop was still posting as it was reported, if no  *)
(* full buffer, failed POST or broken stream took what is documented as    *)
(* expendable.                                                             *)
LogIsWhole ==
  /\ IsInjective(text)
  /\ ~overlap => Increases(text)
  /\ result = "settled" /\ losses = 0 => (1..said) \ Range(text) \subseteq late

(* What it rests on.  A handler holds a sink only for a line of its batch.  *)
HandlersInv ==
  /\ \A p \in Writers :
       /\ writer[p].pc = "held" => batch[p].at = "main" /\ batch[p].lines # <<>>
       /\ batch[p].at = "none" => batch[p] = NoBatch
  /\ deploy # "running" => result = "settled"
  /\ gone => deploy # "running"

(* A line is in one place, and the later ones are further from the store.  *)
Ahead(s, t) == \A x \in Range(s), y \in Range(t) : x < y
Apart(s, t) == \A x \in Range(s), y \in Range(t) : x # y

PlacesInv ==
  /\ IsInjective(text) /\ Increases(buffer) /\ \A p \in Writers : Increases(batch[p].lines)
  /\ \A x \in Range(text) \cup Range(buffer) \cup UnderWay : x <= said
  /\ Ahead(text, buffer)
  /\ \A p \in Writers : Apart(text, batch[p].lines) /\ Ahead(batch[p].lines, buffer)
  /\ \A p, q \in Writers : p # q => Apart(batch[p].lines, batch[q].lines)

(* One batch under way at a time keeps the order.                          *)
OrderInv ==
  ~overlap =>
    /\ Increases(text)
    /\ \A p \in Writers : Ahead(text, batch[p].lines)
    /\ \A p, q \in Writers : p # q => batch[p].lines = <<>> \/ batch[q].lines = <<>>

(* And a line has not left its places before it was stored.                *)
Reported == result \in {"reporting", "settled"}

KeptInv ==
  losses = 0 =>
    /\ session = "up"
    /\ \A l \in 1..said :
         l \in Range(text) \cup UnderWay \cup Range(buffer) \/ (result = "settled" /\ l \in late)
    /\ Reported =>
         /\ buffer = <<>>
         /\ \A p \in Writers : batch[p].by # "report" => Range(batch[p].lines) \subseteq late
    /\ result = "settled" => ~Posts("report")

(* Every execution's deploy ends, and its follower is told so unless the   *)
(* event overflowed its subscription or retention deleted the deploy under *)
(* it (logs.go:77-80).                                                     *)
FollowEnds ==
  follower.pc # "start" ~>
    (deploy = "over" /\ (follower.pc = "closed" \/ DoneEvent \in missed \/ gone))
=============================================================================
