------------------------------- MODULE Schema -------------------------------
(***************************************************************************)
(* The JSON Schema that `hookploy schema` prints for editors               *)
(* (internal/config/schema.go): which of Config's raw files pass it.  It   *)
(* is generated from the ops and the event kinds beside the loader, not    *)
(* from it, and promises to be looser.  A key is written if it has a value *)
(* or is in raw.blank, which names those with an empty one; f.unquoted     *)
(* says that a number stands where a string is meant.                      *)
(***************************************************************************)
EXTENDS Config

KindEnum(scoped) == IF scoped THEN DeployKinds ELSE EventKinds

NotifyMatches(n) ==
  n.provider \in {Unset, "telegram", "center"} /\ \A kinds \in n.events : kinds \subseteq KindEnum(FALSE)
OverrideMatches(raw) == \A o \in raw.notify : \A kinds \in o.events : kinds \subseteq KindEnum(TRUE)

-----------------------------------------------------------------------------
(* A step: the bare name of an op all of whose arguments may be left out;  *)
(* or a map of one op to its arguments, null for such an op, with any of   *)
(* the modifiers beside it.                                                *)

ArgsMatch(raw) == IF raw.args = {} THEN raw.op \in ArgsOptional
                  ELSE \A a \in raw.args : a.known /\ a.complete

OnMatches(on) == on # {}

MayRetryMut(op) == DefaultRetries(op) > 0
MayRetry(op) == op \in Retryable

StepMatches(raw) ==
  /\ ~raw.odd
  /\ raw.op \in Registry /\ ArgsMatch(raw)
  /\ \A on \in raw.on : OnMatches(on)
  /\ \A n \in raw.retries : MayRetry(raw.op) /\ n >= 0

PipelineMatches(raws) == raws # <<>> /\ \A k \in DOMAIN raws : StepMatches(raws[k])

-----------------------------------------------------------------------------
WritesInstances(raw) == raw.instances # <<>> \/ "instances" \in raw.blank
WritesRollout(raw) == raw.rollout # <<>> \/ "rollout" \in raw.blank

RepoMatches(raw) == raw.repo \in {Unset, "pair"} /\ "github_repo" \notin raw.blank

ServiceMatches(raw) ==
  /\ OverrideMatches(raw)
  /\ RepoMatches(raw)
  /\ PipelineMatches(raw.deploy) /\ \A task \in raw.task : PipelineMatches(task)
  /\ WritesInstances(raw) => raw.instances # <<>>
  /\ \A k \in DOMAIN raw.instances : raw.instances[k].server # Unset
  /\ \A w \in DOMAIN raw.rollout : raw.rollout[w] # <<>>
  /\ WritesRollout(raw) => WritesInstances(raw)
  /\ \/ raw.server # Unset /\ raw.dir # Unset /\ ~WritesInstances(raw)
     \/ raw.server = Unset /\ WritesInstances(raw)

FileMatches(f) ==
  /\ ~f.odd /\ ~f.unquoted
  /\ NotifyMatches(f.notify) /\ ServiceMatches(f.service)

\* What the loader takes and the schema does not: a key that is written and
\* empty, a number for a string, and a line break in a repository's name.
Plain(f) ==
  /\ ~f.unquoted /\ f.service.blank = {} /\ f.service.repo # "broken"
  /\ \A w \in DOMAIN f.service.rollout : f.service.rollout[w] # <<>>
  /\ <<>> \notin f.service.task
=============================================================================
