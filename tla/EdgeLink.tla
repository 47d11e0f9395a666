------------------------------ MODULE EdgeLink ------------------------------
(***************************************************************************)
(* Main and one edge: EdgeHub and EdgeAgent over EdgeWire, and what the    *)
(* pair is checked for.                                                    *)
(***************************************************************************)
EXTENDS EdgeHub, EdgeAgent

vars == <<wire, hub, edge>>

Init == WireInit /\ HubInit /\ AgentInit

\* Every execution has its answer: main has nothing left to do.
AllAnswered == (\A e \in Execs : Over(e)) /\ UNCHANGED vars

Step == (HubStep /\ UNCHANGED edge) \/ (AgentStep /\ UNCHANGED hub)

Next ==
  \/ Step
  \/ Redial /\ UNCHANGED hub
  \/ HubFault /\ UNCHANGED edge
  \/ AgentFault /\ UNCHANGED hub
  \/ Network /\ UNCHANGED <<hub, edge>>
  \/ AllAnswered

Spec == Init /\ [][Next]_vars

\* The name both halves give their types.
TypeOK == WireOK /\ HubOK /\ AgentOK
=============================================================================
