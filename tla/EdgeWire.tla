------------------------------ MODULE EdgeWire ------------------------------
(***************************************************************************)
(* What main and one edge share: the sessions the edge dials, the frames   *)
(* and reports in transit, and the network that cuts, delays and loses     *)
(* them.  An edge speaks one of two transports (cmd_edge.go --transport):  *)
(* SSE, whose results are separate POSTs and whose sessions are resumable, *)
(* or gRPC, one stream for everything.                                     *)
(***************************************************************************)
EXTENDS Naturals, FiniteSets, Sequences

CONSTANTS
  Execs,       \* executions dispatched to this server, in order: 1, 2, ...
  Sessions,    \* sessions in the order the edge dials them: 1, 2, ...
  InstanceOf,  \* the service instance an execution deploys
  MaxFaults    \* how often a session is cut, a POST lost, or a process dies

NoSession == 0
NoExec == 0

ASSUME ExecsAssumption == Execs \subseteq Nat \ {0} /\ IsFiniteSet(Execs)
ASSUME SessionsAssumption == Sessions \subseteq Nat \ {0} /\ IsFiniteSet(Sessions)
ASSUME InstanceAssumption == InstanceOf \in [Execs -> Nat]
ASSUME FaultAssumption == MaxFaults \in Nat

VARIABLES
  sse,      \* the transport: SSE (resumable) or gRPC
  dials,    \* sessions dialed so far
  claims,   \* the executions each Dial advertised as in flight
  hello,    \* sessions whose hello (or ack) frame main has written
  cut,      \* sessions whose stream is closed, by either end or the network
  down,     \* exec frames on their way to the edge, per session
  up,       \* gRPC done messages on their way to main, per session
  posts,    \* done POSTs on their way to main
  acks,     \* 200 responses on their way back
  reported,   \* executions the edge's engine is done with
  faults

wire == <<sse, dials, claims, hello, cut, down, up, posts, acks, reported, faults>>

WireOK ==
  /\ sse \in BOOLEAN
  /\ dials \in {NoSession} \cup Sessions
  /\ claims \in [Sessions -> SUBSET Execs]
  /\ hello \in SUBSET Sessions /\ cut \in SUBSET Sessions
  /\ down \in [Sessions -> SUBSET Execs] /\ up \in [Sessions -> SUBSET Execs]
  /\ posts \in SUBSET Execs /\ acks \in SUBSET Execs /\ reported \in SUBSET Execs
  /\ faults \in Nat

WireInit ==
  /\ sse \in BOOLEAN
  /\ dials = NoSession
  /\ claims = [s \in Sessions |-> {}]
  /\ hello = {} /\ cut = {}
  /\ down = [s \in Sessions |-> {}] /\ up = [s \in Sessions |-> {}]
  /\ posts = {} /\ acks = {} /\ reported = {}
  /\ faults = 0

Fault == faults < MaxFaults /\ faults' = faults + 1

\* A proxy or a link cuts the stream; each end learns of it in its own time.
Cut(s) ==
  /\ s <= dials /\ s \notin cut /\ Fault
  /\ cut' = cut \cup {s}
  /\ UNCHANGED <<sse, dials, claims, hello, down, up, posts, acks, reported>>

\* A POST or its response never arrives.
LosePost(e) ==
  /\ Fault
  /\ \/ e \in posts /\ posts' = posts \ {e} /\ UNCHANGED acks
     \/ e \in acks /\ acks' = acks \ {e} /\ UNCHANGED posts
  /\ UNCHANGED <<sse, dials, claims, hello, cut, down, up, reported>>

Network == (\E s \in Sessions : Cut(s)) \/ (\E e \in Execs : LosePost(e))
=============================================================================
