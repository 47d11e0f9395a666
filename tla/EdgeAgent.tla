------------------------------ MODULE EdgeAgent ------------------------------
(***************************************************************************)
(* The edge process (edge/agent.go and the two transports): one session at *)
(* a time, a goroutine per execution, and a pump that delivers results     *)
(* until main has acknowledged them.                                       *)
(***************************************************************************)
EXTENDS EdgeWire, SequencesExt

CONSTANTS
  PendingCap       \* defaultPendingCap

ASSUME AgentAssumption == PendingCap \in Nat \ {0}

VARIABLES
  agent,     \* the session loop: [pc, sess]
  running,   \* the keys of agent.running: the op engine is at work on them
  ranOn,     \* the session an execution came in on
  pending,   \* results main has not acknowledged, oldest first
  pump,      \* the result whose ReportDone is under way
  forgotten  \* history: results this edge evicted, or lost in a crash

edge == <<agent, running, ranOn, pending, pump, forgotten>>

Unacked == {pending[k] : k \in DOMAIN pending}

AgentOK ==
  /\ agent \in [pc : {"offline", "dialing", "up"}, sess : Sessions \cup {NoSession}]
  /\ running \in SUBSET Execs
  /\ ranOn \in [Execs -> Sessions \cup {NoSession}]
  /\ pending \in Seq(Execs) /\ Len(pending) <= PendingCap
  /\ pump \in Execs \cup {NoExec}
  /\ forgotten \subseteq Execs \X {"evicted", "crash"}

AgentInit ==
  /\ agent = [pc |-> "offline", sess |-> NoSession]
  /\ running = {}
  /\ ranOn = [e \in Execs |-> NoSession]
  /\ pending = <<>> /\ pump = NoExec
  /\ forgotten = {}

-----------------------------------------------------------------------------
(* The session loop                                                         *)

OnSession(s) == agent.sess = s /\ agent.pc = "up"
Ends == agent' = [pc |-> "offline", sess |-> NoSession]
ByLoop == UNCHANGED <<pending, pump, forgotten>>

\* What the next Dial advertises: work in progress and results main has not
\* taken yet.
InflightIDsMut == running
InflightIDs == running \cup Unacked

\* A gRPC Hello has no room for them.
Advertised == IF sse THEN InflightIDs ELSE {}

\* The request itself reaches main (or is lost with the stream).
Dial(s) ==
  /\ agent.pc = "offline" /\ s = dials + 1
  /\ dials' = s
  /\ claims' = [claims EXCEPT ![s] = Advertised]
  /\ agent' = [pc |-> "dialing", sess |-> s]
  /\ UNCHANGED <<running, ranOn, sse, hello, cut, down, up, posts, acks, reported, faults>>
  /\ ByLoop

\* The hello frame is in: the session is established.
Connect ==
  /\ agent.pc = "dialing" /\ agent.sess \in hello
  /\ agent' = [agent EXCEPT !.pc = "up"]
  /\ UNCHANGED <<running, ranOn, sse, dials, claims, hello, cut, down, up, posts, acks, reported, faults>>
  /\ ByLoop

\* start: a redelivery of something running is ignored.
Receive(e) ==
  /\ agent.pc = "up" /\ e \in down[agent.sess]
  /\ down' = [down EXCEPT ![agent.sess] = @ \ {e}]
  /\ IF e \in running THEN UNCHANGED <<running, ranOn>>
     ELSE /\ running' = running \cup {e}
          /\ ranOn' = [ranOn EXCEPT ![e] = IF sse THEN NoSession ELSE agent.sess]
  /\ UNCHANGED <<agent, sse, dials, claims, hello, cut, up, posts, acks, reported, faults>>
  /\ ByLoop

\* What a Recv on the stream comes to: an error once it is closed.
RecvFails == agent.sess \in cut

\* Dial fails, or Recv does: the stream is gone, or silent for too long.  The
\* edge closes its end.
Lose ==
  /\ agent.pc \in {"dialing", "up"} /\ RecvFails
  /\ Ends
  /\ UNCHANGED <<running, ranOn, wire>> /\ ByLoop

\* The handshake or the heartbeats take longer than the edge waits.
GiveUp ==
  /\ agent.pc \in {"dialing", "up"} /\ ~RecvFails /\ Fault
  /\ cut' = cut \cup {agent.sess}
  /\ Ends
  /\ UNCHANGED <<running, ranOn, sse, dials, claims, hello, down, up, posts, acks, reported>>
  /\ ByLoop

-----------------------------------------------------------------------------
(* Executions and their results                                             *)

ByTask == UNCHANGED <<agent, ranOn>>

Full == Len(pending) >= PendingCap

\* bufferDone: the oldest result makes room when the buffer is full.
Buffer(e) ==
  IF e \in Unacked THEN UNCHANGED <<pending, forgotten>>
  ELSE IF Full
    THEN pending' = Append(Tail(pending), e) /\ forgotten' = forgotten \cup {<<Head(pending), "evicted">>}
    ELSE pending' = Append(pending, e) /\ UNCHANGED forgotten

\* Over gRPC the result goes out once, on the session the execution came in on.
SendDone(e) ==
  up' = IF OnSession(ranOn[e]) /\ ranOn[e] \notin cut
          THEN [up EXCEPT ![ranOn[e]] = @ \cup {e}] ELSE up

\* The op engine is done; bufferDone and the deferred finish are one step,
\* since what Dial advertises is their union.
Finish(e) ==
  /\ e \in running
  /\ running' = running \ {e}
  /\ reported' = reported \cup {e}
  /\ IF sse THEN Buffer(e) /\ UNCHANGED up
     ELSE SendDone(e) /\ UNCHANGED <<pending, forgotten>>
  /\ UNCHANGED <<pump, sse, dials, claims, hello, cut, down, posts, acks, faults>> /\ ByTask

\* The pump posts the oldest result while a session is up.
Post(e) ==
  /\ pump = NoExec /\ agent.pc = "up" /\ pending # <<>> /\ e = Head(pending)
  /\ pump' = e
  /\ posts' = posts \cup {e} /\ acks' = acks \ {e}
  /\ UNCHANGED <<running, pending, forgotten, sse, dials, claims, hello, cut, down, up, reported, faults>>
  /\ ByTask

AckedMut(e) == TRUE
Acked(e) == e \in acks

\* ReportDone returned nil: main has the result.
AckDone(e) ==
  /\ pump = e /\ Acked(e)
  /\ pump' = NoExec
  /\ acks' = acks \ {e}
  /\ \/ \E k \in DOMAIN pending : pending[k] = e /\ pending' = RemoveAt(pending, k)
     \/ e \notin Unacked /\ UNCHANGED pending
  /\ UNCHANGED <<running, forgotten, sse, dials, claims, hello, cut, down, up, posts, reported, faults>>
  /\ ByTask

NoAnswerMut(e) == FALSE
NoAnswer(e) == e \notin posts \cup acks

\* It did not: the request or its answer was lost, ...
PostFails(e) ==
  /\ pump = e /\ NoAnswer(e)
  /\ pump' = NoExec
  /\ UNCHANGED <<running, pending, forgotten, wire>> /\ ByTask

\* ... or may still be on the way.  The result stays for the next try.
PostTimesOut(e) ==
  /\ pump = e /\ ~NoAnswer(e) /\ Fault
  /\ pump' = NoExec
  /\ UNCHANGED <<running, pending, forgotten, sse, dials, claims, hello, cut, down, up, posts, acks,
                 reported>>
  /\ ByTask

\* The edge process dies; its executions die with it.
EdgeCrash ==
  /\ agent.pc # "offline" /\ Fault
  /\ Ends
  /\ cut' = cut \cup {agent.sess}
  /\ running' = {} /\ pending' = <<>> /\ pump' = NoExec
  /\ forgotten' = forgotten \cup ((running \cup Unacked) \X {"crash"})
  /\ UNCHANGED <<ranOn, sse, dials, claims, hello, down, up, posts, acks, reported>>

\* Everything a running edge does by itself, but for dialing again.
AgentStep ==
  \/ Connect \/ Lose
  \/ \E e \in Execs :
       Receive(e) \/ Finish(e) \/ Post(e) \/ AckDone(e) \/ PostFails(e)

Redial == \E s \in Sessions : Dial(s)

AgentFault == GiveUp \/ EdgeCrash \/ \E e \in Execs : PostTimesOut(e)
=============================================================================
