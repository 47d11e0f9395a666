---------------------------- MODULE EdgeLinkProps ----------------------------
(* What main and one edge are checked for. *)
EXTENDS EdgeLink

-----------------------------------------------------------------------------
(* Safety                                                                   *)

\* The hub's idea of who owns the server follows the handlers: the current
\* session is the one attached handler that is not kicked and not about to be
\* (hub.go:189-201; a stale Detach changes nothing).
Attached(s) == att[s].pc \in {"closing", "registering", "serving"}
Displaced(s) == s \in kicked \/ \E t \in Sessions : att[t].pc = "closing" /\ att[t].old = s
OneOwner == \A s \in Sessions : current = s <=> Attached(s) /\ ~Displaced(s)

\* While the edge is away, somebody will give up on every execution it holds
\* (plan 2026-07-30: a held execution always converges), and a grace timer
\* that is live belongs to the present absence: none can settle work the
\* returned edge has adopted (hub.go:68-70).
HeldHasTimer ==
  /\ current = NoSession /\ (\E e \in inflight : e \notin settled) => graceGen \in timers
  /\ graceGen \in timers => current = NoSession

\* A result main waits for stays with the edge until main has it, whatever is
\* cut, lost or delivered late (agent.go:33-37), unless the edge itself died
\* or its buffer overflowed.
Forgotten(e) == \E why \in {"evicted", "crash"} : <<e, why>> \in forgotten
ResultKept ==
  \A e \in Execs :
    sse /\ e \in reported /\ caller[e].pc = "waiting" /\ e \notin settled
      => e \in Unacked \/ Forgotten(e)

\* Reconnecting fails an execution only if the edge has really lost it
\* (hub.go:165-169), as long as the attaching session is the last one dialed.
EdgeHas(e) == e \in running \cup Unacked \/ (agent.pc = "up" /\ e \in down[agent.sess])
Attaching(s) == att[s].pc = "greeted" /\ att'[s].pc = "closing"
Orphans(s) == {e \in inflight : e \notin settled /\ e \notin claims[s]}
OrphansOfLastDial ==
  [][\A s \in Sessions : sse /\ Attaching(s) /\ s = dials => \A e \in Orphans(s) : ~EdgeHas(e)]_vars

-----------------------------------------------------------------------------
(* What the safety properties rest on                                       *)

\* The sessions in the order they come: one that is not dialed has no handler,
\* the edge is only ever on the one it dialed last, and until its handler has
\* attached it nothing reaches the edge over it (hub.go:127-146, agent.go:75-92).
Fresh(s) == att[s].pc \in {"none", "greeted"}
SessionInv ==
  /\ agent.sess = IF agent.pc = "offline" THEN NoSession ELSE dials
  /\ dials = NoSession => agent.pc = "offline"
  /\ \A s \in Sessions : s > dials => att[s].pc = "none"
  /\ \A s \in Sessions : Fresh(s) => queue[s] = {} /\ down[s] = {} /\ current # s /\ ~Displaced(s)
  /\ \A e \in Execs : CallerAt(e, "held") => caller[e].conn \in Sessions /\ ~Fresh(caller[e].conn)

\* Every grace timer is of a generation the hub has had (hub.go:203-211).
TimerInv == \A g \in timers : g <= graceGen

\* Where an execution is: the hub holds what a goroutine is executing, nobody
\* has seen one that was not sent, and main has what it acknowledged
\* (hub.go:341-349, httpapi/edge.go:159-166).
Seen(e) ==
  \/ e \in running \cup Unacked \cup posts \cup acks \cup reported
  \/ \E s \in Sessions : e \in queue[s] \cup down[s]
ExecInv ==
  \A e \in Execs :
    /\ caller[e].pc \in {"held", "waiting", "leaving"} => e \in inflight
    /\ Seen(e) => caller[e].pc \in {"waiting", "leaving", "over"}
    /\ e \in acks /\ CallerAt(e, "waiting") => e \in settled

\* What the edge has while it attaches over the session it dialed last is what
\* it claimed there (agent.go:162-181).
ClaimInv ==
  \A s \in Sessions : sse /\ s = dials /\ Fresh(s) => running \cup Unacked \subseteq claims[s]

LinkInv == SessionInv /\ TimerInv /\ ExecInv /\ ClaimInv /\ OneOwner /\ HeldHasTimer /\ ResultKept

-----------------------------------------------------------------------------
(* Liveness                                                                 *)

\* While some goroutine, timer, frame or request can move, one does.  Nothing
\* is assumed of execution timeouts and faults, of an edge that is away ever
\* dialing again, nor of who moves: nothing in Step can go on forever.
FairSpec == Spec /\ WF_vars(Step)

\* An execution main waits for converges without its timeout, whether or not
\* the edge returns: by a result, a reconnect that does not claim it, or the
\* end of the grace window.  A result the edge's full buffer evicted is the
\* exception: the edge stays connected and main waits for its own timeout.
HoldsConverge ==
  \A e \in Execs :
    caller[e].pc = "waiting" ~> caller[e].pc # "waiting" \/ <<e, "evicted">> \in forgotten

\* "makes sure every result eventually gets through" (agent.go:32), to an edge
\* that keeps coming back.
ResultsGetThrough ==
  []<>(agent.pc = "up") => \A e \in Execs : e \in Unacked ~> e \notin Unacked

-----------------------------------------------------------------------------
(* Claims of the code's comments that it does not keep                      *)

\* "A stale session closing must not knock out its replacement"
\* (executor.go:62): once the handlers are at rest, the server is acquirable
\* as long as a session is attached.
AtRest == \A s \in Sessions : att[s].pc \notin {"closing", "registering", "unregistering"}
AttachedIsAcquirable == AtRest /\ current # NoSession => registered
=============================================================================
