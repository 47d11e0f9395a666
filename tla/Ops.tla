-------------------------------- MODULE Ops --------------------------------
(***************************************************************************)
(* Pipeline steps (internal/ops): what a written step is read as, how it   *)
(* travels to the engine, and which engines run it as written.  An         *)
(* optional field is the set of its value, or {}.  Argument values matter  *)
(* only as plain text, or a reference into the payload.                    *)
(***************************************************************************)
EXTENDS Integers, Sequences, FiniteSets

CONSTANTS
  MaxInt,          \* the largest int, 2^63 - 1
  RetryInterval    \* the pause between two attempts

ASSUME OpsAssumption == MaxInt \in Nat /\ RetryInterval \in Nat

\* The empty string of a field or an argument that is not given.
Unset == "unset"

\* Go's integers wrap around.
Wrap(x) == ((x + MaxInt + 1) % (2 * (MaxInt + 1))) - (MaxInt + 1)

\* The registry, the ops whose arguments may be left out, and the retries of
\* those that are safe to run again.
Registry == {"image.pin", "image.extract", "artifact.extract", "compose.pull", "compose.up",
             "compose.run", "compose.exec", "compose.restart", "env.require", "env.write",
             "healthcheck", "run"}
ArgsOptional == {"image.pin", "compose.pull", "compose.up", "compose.restart"}
Retryable == {"image.pin", "artifact.extract", "compose.pull"}
DefaultRetries(op) == IF op \in {"image.pin", "artifact.extract"} THEN 2 ELSE 0
DefaultPolls == 5

-----------------------------------------------------------------------------
(* ParseStep: a raw step is                                                *)
(*   [op, odd, args, on, timeout, retries]                                 *)
(* where odd says that it is neither a string nor a map with one op name   *)
(* and no modifier twice, and args is {} or                                *)
(*   {[known, complete, text, polls]}                                      *)

Known(raw) == \A a \in raw.args : a.known
Complete(raw) ==
  IF raw.args = {} THEN raw.op \in ArgsOptional ELSE \A a \in raw.args : a.complete

StepAccepted(raw) ==
  /\ ~raw.odd
  /\ {} \notin raw.on
  /\ raw.op \in Registry /\ Known(raw) /\ Complete(raw)
  /\ \A t \in raw.timeout : t > 0
  /\ \A n \in raw.retries : raw.op \in Retryable /\ n >= 0

\* setDefaults; only a healthcheck has any.
PollsOf(op, n) == IF op = "healthcheck" /\ n = 0 THEN DefaultPolls ELSE n

Parsed(raw) ==
  [op |-> raw.op,
   text |-> IF raw.args = {} THEN "plain" ELSE (CHOOSE a \in raw.args : TRUE).text,
   polls |-> PollsOf(raw.op, IF raw.args = {} THEN 0 ELSE (CHOOSE a \in raw.args : TRUE).polls),
   on |-> UNION raw.on,
   timeout |-> IF raw.timeout = {} THEN 0 ELSE CHOOSE t \in raw.timeout : TRUE,
   retries |-> raw.retries]

\* on:, the one definition of targeting, and the pipeline of an instance.
RunsOn(s, i) == s.on = {} \/ i \in s.on
InOrder(S) ==        \* positions, lowest first: the j-th has j - 1 below it
  [j \in 1..Cardinality(S) |-> CHOOSE k \in S : Cardinality({m \in S : m < k}) = j - 1]
StepsFor(steps, i) ==
  LET mine == InOrder({k \in DOMAIN steps : RunsOn(steps[k], i)}) IN
  [j \in DOMAIN mine |-> steps[mine[j]]]

Attempts(s) ==
  IF s.retries = {} THEN DefaultRetries(s.op) + 1
  ELSE Wrap((CHOOSE n \in s.retries : TRUE) + 1)

-----------------------------------------------------------------------------
(* The snapshot: on stays behind, what is zero or nil is omitted.          *)

RetriesField(s) == s.retries

Marshal(s) ==
  [op |-> s.op, text |-> s.text, polls |-> s.polls,
   timeout |-> {s.timeout} \ {0}, retries |-> RetriesField(s)]

Unmarshal(j) ==
  [op |-> j.op, text |-> j.text, polls |-> PollsOf(j.op, j.polls), on |-> {},
   timeout |-> IF j.timeout = {} THEN 0 ELSE CHOOSE t \in j.timeout : TRUE,
   retries |-> j.retries]

MarshalSteps(steps) == [k \in DOMAIN steps |-> Marshal(steps[k])]
UnmarshalSteps(js) == [k \in DOMAIN js |-> Unmarshal(js[k])]

-----------------------------------------------------------------------------
(* Interpolate: a copy by way of the snapshot, with on carried over, and   *)
(* the references filled in.  A required one must be there, and none may   *)
(* name what is no scalar.  payload.key is "absent", "null", "nested" or a *)
(* value.                                                                  *)

Fillable(s, payload) ==
  \/ s.text = "plain"
  \/ payload.key # "nested" /\ (s.text = "required" => payload.key # "absent")

Filled(s, payload) ==
  CASE s.text = "plain" -> "plain"
    [] payload.key \in {"absent", "null"} -> "empty"
    [] OTHER -> payload.key

Interpolable(steps, payload) == \A k \in DOMAIN steps : Fillable(steps[k], payload)

CopyMut(s) == Unmarshal(Marshal(s))
Copy(s) == [Unmarshal(Marshal(s)) EXCEPT !.on = s.on]

Interpolated(steps, payload) ==
  [k \in DOMAIN steps |-> [Copy(steps[k]) EXCEPT !.text = Filled(steps[k], payload)]]

-----------------------------------------------------------------------------
(* Versions are "dev", "unknown" or the numbers of vX.Y.Z.                 *)

ModifiersSince == <<0, 7, 0>>

\* The order of the first number that differs.
Less(a, b) == \E k \in 1..3 : a[k] < b[k] /\ \A m \in 1..(k - 1) : a[m] = b[m]

Numbered(v) == v.name = "release"
AtLeast(v, min) == v.name = "dev" \/ (Numbered(v) /\ ~Less(v.core, min))

\* The steps an older engine would run in its own way.
NeedsModifiers(s) ==
  \/ s.timeout > 0 \/ s.retries # {}
  \/ s.op = "healthcheck" /\ s.polls # DefaultPolls

NeedsModifierSupport(steps) == \E k \in DOMAIN steps : NeedsModifiers(steps[k])

\* checkEdgeVersion, the answer of the hub before it sends.
EdgeMayRun(v, steps) == ~NeedsModifierSupport(steps) \/ AtLeast(v, ModifiersSince)

-----------------------------------------------------------------------------
(* What an engine makes of a step: the number of tries and the bound of    *)
(* each, and how often a healthcheck polls.  Engines before ModifiersSince *)
(* decode any snapshot, look for retries in a healthcheck's arguments, and *)
(* have a loop of three tries of their own in the ops that need it.        *)

RunBy(s) ==
  [op |-> s.op, text |-> s.text, tries |-> Attempts(s), bound |-> s.timeout, polls |-> s.polls]

RunByOld(s) ==
  [op |-> s.op, text |-> s.text, tries |-> DefaultRetries(s.op) + 1, bound |-> 0,
   polls |-> IF s.op = "healthcheck" THEN DefaultPolls ELSE s.polls]

Engine(new, js) ==
  [k \in DOMAIN js |-> IF new THEN RunBy(Unmarshal(js[k])) ELSE RunByOld(Unmarshal(js[k]))]
=============================================================================
