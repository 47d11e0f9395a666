------------------------------- MODULE EdgeHub -------------------------------
(***************************************************************************)
(* Main's side of one edge: the hub (edgehub/hub.go), the registry the     *)
(* scheduler acquires executors from (executor/executor.go), the session   *)
(* handlers of the two transports (httpapi/edge.go, grpcapi/grpcapi.go)    *)
(* and the scheduler goroutines inside Acquire and Execute.                *)
(*                                                                         *)
(* Every section under the hub's or the registry's mutex is one step.      *)
(* att[s] is where the handler of session s is; caller[e] is where the     *)
(* goroutine that executes e is.  The hub installs and removes an          *)
(* attachment and its connection together, so `current` stands for both.   *)
(* What a result says is left out: whether there is one is what matters.   *)
(***************************************************************************)
EXTENDS EdgeWire

CONSTANTS
  QueueDepth       \* edgeQueueDepth

ASSUME HubAssumption == QueueDepth \in Nat

VARIABLES
  current,     \* st.current and st.conn
  inflight,    \* st.inflight
  settled,     \* executions whose done channel holds a result
  graceGen,    \* st.graceGen
  timers,      \* generations of the grace timers that have not fired
  registered,  \* the registry maps this server to its executor
  att,         \* the session handlers
  kicked,      \* connections the hub has closed
  queue,       \* sseConn.execCh
  caller       \* the goroutines in Acquire and Execute

hub == <<current, inflight, settled, graceGen, timers, registered, att, kicked, queue,
         caller>>

AttPcs == {"none", "greeted", "closing", "registering", "serving", "unregistering", "gone"}
Attachments == [pc : AttPcs, old : Sessions \cup {NoSession}]

CallerPcs == {"acquire", "acquired", "held", "waiting", "leaving", "over"}
Callers == [pc : CallerPcs, conn : Sessions \cup {NoSession}]
At(pc) == [pc |-> pc, conn |-> NoSession]

HubOK ==
  /\ current \in Sessions \cup {NoSession}
  /\ inflight \in SUBSET Execs /\ settled \in SUBSET Execs
  /\ graceGen \in Nat /\ timers \in SUBSET Nat
  /\ registered \in BOOLEAN
  /\ att \in [Sessions -> Attachments]
  /\ kicked \in SUBSET Sessions
  /\ queue \in [Sessions -> SUBSET Execs]
  /\ caller \in [Execs -> Callers]

HubInit ==
  /\ current = NoSession /\ inflight = {} /\ settled = {}
  /\ graceGen = 0 /\ timers = {} /\ registered = FALSE
  /\ att = [s \in Sessions |-> [pc |-> "none", old |-> NoSession]]
  /\ kicked = {} /\ queue = [s \in Sessions |-> {}]
  /\ caller = [e \in Execs |-> At("acquire")]

-----------------------------------------------------------------------------
(* Acquire and Execute                                                      *)

CallerAt(e, pc) == caller[e].pc = pc
Goes(e, next) == caller' = [caller EXCEPT ![e] = next]
ByCaller == UNCHANGED <<current, graceGen, timers, registered, att, kicked>>

\* The scheduler runs the deploys of a service one after the other.
Over(e) == CallerAt(e, "over")
Scheduled(e) == \A f \in Execs : f < e /\ InstanceOf[f] = InstanceOf[e] => Over(f)

Acquire(e) ==
  /\ CallerAt(e, "acquire") /\ Scheduled(e) /\ registered
  /\ Goes(e, At("acquired"))
  /\ UNCHANGED <<inflight, settled, queue, wire>> /\ ByCaller

\* Nobody registered within the window.
AcquireExpires(e) ==
  /\ CallerAt(e, "acquire") /\ Scheduled(e) /\ ~registered
  /\ Goes(e, At("over"))
  /\ UNCHANGED <<inflight, settled, queue, wire>> /\ ByCaller

\* Execute's critical section: the connection is read, the execution held.
Hold(e) ==
  /\ CallerAt(e, "acquired") /\ current # NoSession
  /\ Goes(e, [pc |-> "held", conn |-> current])
  /\ inflight' = inflight \cup {e}
  /\ UNCHANGED <<settled, queue, wire>> /\ ByCaller

\* The edge detached meanwhile, or is too old for the steps' modifiers.
Refuse(e) ==
  /\ CallerAt(e, "acquired")
  /\ Goes(e, At("over"))
  /\ UNCHANGED <<inflight, settled, queue, wire>> /\ ByCaller

\* SendExecution, outside the lock, on the connection seen under it.
SendSSE(e) ==
  /\ CallerAt(e, "held") /\ sse
  /\ LET c == caller[e].conn
     IN  IF c \in kicked \/ Cardinality(queue[c]) >= QueueDepth
           THEN Goes(e, At("leaving")) /\ UNCHANGED queue
           ELSE Goes(e, At("waiting")) /\ queue' = [queue EXCEPT ![c] = @ \cup {e}]
  /\ UNCHANGED <<inflight, settled, wire>> /\ ByCaller

\* A gRPC stream refuses a message once its handler has returned; on a cut
\* stream the message may also vanish.
SendGRPC(e) ==
  /\ CallerAt(e, "held") /\ ~sse
  /\ LET c == caller[e].conn
     IN  \/ c \in cut /\ Goes(e, At("leaving")) /\ UNCHANGED down
         \/ /\ att[c].pc # "gone" /\ Goes(e, At("waiting"))
            /\ down' = IF c \in cut THEN down ELSE [down EXCEPT ![c] = @ \cup {e}]
  /\ UNCHANGED <<inflight, settled, queue, sse, dials, claims, hello, cut, up, posts, acks,
                 reported, faults>>
  /\ ByCaller

Return(e) ==
  /\ CallerAt(e, "waiting") /\ e \in settled
  /\ Goes(e, At("leaving"))
  /\ UNCHANGED <<inflight, settled, queue, wire>> /\ ByCaller

TimesOut(e) ==
  /\ CallerAt(e, "waiting")
  /\ Goes(e, At("leaving"))
  /\ UNCHANGED <<inflight, settled, queue, wire>> /\ ByCaller

\* The deferred delete.
Leave(e) ==
  /\ CallerAt(e, "leaving")
  /\ Goes(e, At("over"))
  /\ inflight' = inflight \ {e} /\ settled' = settled \ {e}
  /\ UNCHANGED <<queue, wire>> /\ ByCaller

CallerStep(e) ==
  \/ Acquire(e) \/ AcquireExpires(e) \/ Hold(e) \/ Refuse(e)
  \/ SendSSE(e) \/ SendGRPC(e) \/ Return(e) \/ Leave(e)

-----------------------------------------------------------------------------
(* The session handlers                                                     *)

\* settle: the executions of S have a result from now on.
Settle(S) == settled' = settled \cup S

AttAt(s, pc) == att[s].pc = pc
Steps(s, pc) == att' = [att EXCEPT ![s].pc = pc]
ByHandler == UNCHANGED <<inflight, caller, sse, dials, claims, posts, acks, reported, faults>>

\* The request arrives: the stream is greeted before it is attached.  If the
\* peer is gone by then, writing the greeting may fail.
Greet(s) ==
  /\ s <= dials /\ AttAt(s, "none")
  /\ \/ Steps(s, "greeted") /\ hello' = hello \cup {s}
     \/ s \in cut /\ Steps(s, "gone") /\ UNCHANGED hello
  /\ UNCHANGED <<current, settled, graceGen, timers, registered, kicked, queue, cut, down, up>>
  /\ ByHandler

NextGen == graceGen + 1

\* Attach's critical section: stale timers are invalidated, what the edge no
\* longer claims is settled, and the session takes the server over.
Attach(s) ==
  /\ AttAt(s, "greeted")
  /\ graceGen' = NextGen
  /\ Settle(inflight \ claims[s])
  /\ current' = s
  /\ att' = [att EXCEPT ![s] = [pc |-> "closing", old |-> current]]
  /\ UNCHANGED <<timers, registered, kicked, queue, hello, cut, down, up>> /\ ByHandler

CloseOld(s) ==
  /\ AttAt(s, "closing")
  /\ kicked' = kicked \cup ({att[s].old} \ {NoSession})
  /\ att' = [att EXCEPT ![s] = [pc |-> "registering", old |-> NoSession]]
  /\ UNCHANGED <<current, settled, graceGen, timers, registered, queue, hello, cut, down, up>>
  /\ ByHandler

Register(s) ==
  /\ AttAt(s, "registering")
  /\ registered' = TRUE
  /\ Steps(s, "serving")
  /\ UNCHANGED <<current, settled, graceGen, timers, kicked, queue, hello, cut, down, up>>
  /\ ByHandler

\* The handler's select: write a queued execution, ...
WriteExec(s) ==
  /\ AttAt(s, "serving")
  /\ \E e \in queue[s] :
       /\ queue' = [queue EXCEPT ![s] = @ \ {e}]
       /\ down' = IF s \in cut THEN down ELSE [down EXCEPT ![s] = @ \cup {e}]
  /\ UNCHANGED <<current, settled, graceGen, timers, registered, att, kicked, hello, cut, up>>
  /\ ByHandler

\* ... or pass on a result that came up a gRPC stream, ...
HandleUp(s) ==
  /\ AttAt(s, "serving")
  /\ \E e \in up[s] :
       /\ up' = [up EXCEPT ![s] = @ \ {e}]
       /\ Settle({e} \cap inflight)
  /\ UNCHANGED <<current, graceGen, timers, registered, att, kicked, queue, hello, cut, down>>
  /\ ByHandler

\* ... or end, because of a kick or because the peer is gone.
Ending(s) == AttAt(s, "serving") /\ (s \in kicked \/ s \in cut)
Returns(s) == Steps(s, "gone") /\ cut' = cut \cup {s}     \* which ends the stream

\* Detach's critical section.
IsCurrentMut(s) == TRUE
IsCurrent(s) == current = s
HoldsMut == Cardinality(inflight) > 1
Holds == inflight # {}

Detach(s) ==
  /\ Ending(s) /\ IsCurrent(s)
  /\ current' = NoSession
  /\ Steps(s, "unregistering")
  /\ IF Holds THEN graceGen' = NextGen /\ timers' = timers \cup {NextGen}
     ELSE UNCHANGED <<graceGen, timers>>
  /\ UNCHANGED <<claims, settled, registered, kicked, queue, hello, cut, down, up>> /\ ByHandler

DetachStale(s) ==
  /\ Ending(s) /\ ~IsCurrent(s)
  /\ Returns(s)
  /\ UNCHANGED <<current, settled, graceGen, timers, registered, kicked, queue, hello, down, up>>
  /\ ByHandler

Unregister(s) ==
  /\ AttAt(s, "unregistering")
  /\ registered' = FALSE
  /\ Returns(s)
  /\ UNCHANGED <<current, settled, graceGen, timers, kicked, queue, hello, down, up>>
  /\ ByHandler

SessionStep(s) ==
  \/ Greet(s) \/ Attach(s) \/ CloseOld(s) \/ Register(s) \/ WriteExec(s) \/ HandleUp(s)
  \/ Detach(s) \/ DetachStale(s) \/ Unregister(s)

-----------------------------------------------------------------------------
(* The grace timer, the done POST, and a crash of main                      *)

StaleMut(g) == graceGen = g \/ current # NoSession
Stale(g) == graceGen # g \/ current # NoSession

ExpireGrace(g) ==
  /\ g \in timers
  /\ timers' = timers \ {g}
  /\ IF Stale(g) THEN UNCHANGED settled ELSE Settle(inflight)
  /\ UNCHANGED <<current, inflight, graceGen, registered, att, kicked, queue, caller, wire>>

\* POST /edge/executions/{id}/done: acknowledged whatever the hub knows of it.
HandlePost(e) ==
  /\ e \in posts
  /\ posts' = posts \ {e}
  /\ acks' = acks \cup {e}
  /\ Settle({e} \cap inflight)
  /\ UNCHANGED <<current, inflight, graceGen, timers, registered, att, kicked, queue, caller, sse, dials, claims, hello, cut, down, up, reported, faults>>

\* Main dies and comes back: Scheduler.Recover fails what it was running.
MainCrash ==
  /\ Fault
  /\ current' = NoSession /\ inflight' = {} /\ settled' = {} /\ graceGen' = 0 /\ timers' = {}
  /\ registered' = FALSE /\ kicked' = {} /\ queue' = [s \in Sessions |-> {}]
  /\ att' = [s \in Sessions |-> IF s <= dials THEN [att[s] EXCEPT !.pc = "gone"] ELSE att[s]]
  /\ caller' = [e \in Execs |-> IF CallerAt(e, "acquire") /\ ~Scheduled(e) THEN caller[e]
                                ELSE At("over")]
  /\ cut' = cut \cup {s \in Sessions : s <= dials}
  /\ posts' = {} /\ acks' = {}
  /\ UNCHANGED <<sse, dials, claims, hello, down, up, reported>>

\* Everything main does by itself: no timeout of an execution, no crash.
HubStep ==
  \/ \E e \in Execs : CallerStep(e) \/ HandlePost(e)
  \/ \E s \in Sessions : SessionStep(s)
  \/ \E g \in timers : ExpireGrace(g)

HubFault == MainCrash \/ \E e \in Execs : TimesOut(e)
=============================================================================
