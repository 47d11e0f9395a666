---------------------------- MODULE MCNotifyHub ----------------------------
(***************************************************************************)
(* NotifyHub for TLC: a service whose first deploy had failed and whose    *)
(* second was replaced in the queue, and a policy that asks for every kind *)
(* of event.                                                               *)
(***************************************************************************)
EXTENDS NotifyHub

LeftBroken == <<"failed", "superseded">>
EveryKind == Kinds
=============================================================================
