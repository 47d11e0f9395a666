----------------------------- MODULE MCIngress -----------------------------
(* Instances of Ingress for TLC: files as operators write them, some of     *)
(* which must not load, bodies and engines.                                 *)
EXTENDS Ingress, TLC

Step(op, args, on, timeout, retries) ==
  [op |-> op, odd |-> FALSE, args |-> args, on |-> on, timeout |-> timeout, retries |-> retries]
Args(text, polls) == {[known |-> TRUE, complete |-> TRUE, text |-> text, polls |-> polls]}
Bare(op) == Step(op, {}, {}, {}, {})
For(i, op) == Step(op, {}, {{i}}, {}, {})
Run(text) == Step("run", Args(text, 0), {}, {}, {})
Poll(n) == Step("healthcheck", Args("plain", n), {}, {}, {})
PinUp(timeout, retries) == <<Step("image.pin", {}, {}, timeout, retries), Bare("compose.up")>>

At(name, server) == [name |-> name, server |-> server, dir |-> Unset]
Apart == <<At("a", "s1"), At("z", "s2")>>
NoNotify == [provider |-> Unset, creds |-> FALSE, after |-> 0, events |-> {}]

Sugared(steps, task, timeout) ==
  [name |-> "a", server |-> "s1", dir |-> "d", image |-> "i", timeout |-> timeout, repo |-> "pair",
   webhook |-> TRUE, notify |-> {}, instances |-> <<>>, rollout |-> <<>>, blank |-> {},
   deploy |-> steps, task |-> task]
On(instances, rollout, steps, timeout) ==
  [Sugared(steps, {}, timeout) EXCEPT !.server = Unset, !.instances = instances, !.rollout = rollout]
File(locals, service) ==
  [odd |-> FALSE, unquoted |-> FALSE, notify |-> NoNotify, servers |-> {"s1", "s2"}, locals |-> locals, service |-> service]

Files == <<
  File({"s1"}, Sugared(PinUp({}, {0}) \o <<Poll(0)>>, {<<Run("required")>>}, 0)),
  File({"s1"}, On(Apart, <<>>, <<For("a", "image.pin"), For("a", "compose.up"),
                                 For("z", "compose.pull"), Run("optional")>>, 0)),
  File({}, On(Apart, << <<"z">>, <<"a">> >>, <<Run("required"), Poll(3)>>, 0)),
  File({}, On(Apart, << <<"a", "z">> >>, PinUp({3}, {}), 11)),
  File({}, [Sugared(PinUp({2}, {0}), {<<>>}, 0) EXCEPT !.webhook = FALSE, !.repo = "broken"]),
  (* Accepted all the same: an instance twice, a budget out of range.        *)
  File({}, On(<<At("a", "s1"), At("a", "s2")>>, <<>>, <<Run("plain")>>, 0)),
  File({}, Sugared(<<Step("compose.pull", {}, {}, {5}, {29})>>, {}, 0)),
  (* Refused: tries and pauses beyond the timeout, a pin that another        *)
  (* instance brings up, an instance in two waves.                           *)
  File({}, On(Apart, <<>>, PinUp({3}, {}), 0)),
  File({}, On(Apart, <<>>, <<Bare("image.pin"), For("z", "compose.up")>>, 0)),
  File({}, On(Apart, << <<"a">>, <<"z", "a">> >>, <<Run("plain")>>, 0)),
  (* A retry of what must not run again, nothing left to run, a task with    *)
  (* on:, an unknown kind of event, a node's kind in a service, an unknown   *)
  (* key, half a repository.                                                 *)
  File({}, Sugared(<<Step("compose.up", {}, {}, {}, {1})>>, {}, 0)),
  File({}, On(Apart, <<>>, <<For("a", "compose.up")>>, 0)),
  File({}, Sugared(PinUp({}, {}), {<<For("a", "compose.up")>>}, 0)),
  [File({}, Sugared(PinUp({}, {}), {}, 0)) EXCEPT !.notify.events = {{"unknown"}}],
  File({}, [Sugared(PinUp({}, {}), {}, 0) EXCEPT
              !.notify = {[enabled |-> TRUE, events |-> {{"edge.offline"}}]}]),
  [File({}, Sugared(PinUp({}, {}), {}, 0)) EXCEPT !.odd = TRUE],
  File({}, [Sugared(PinUp({}, {}), {}, 0) EXCEPT !.repo = "else"]) >>

AllFiles == DOMAIN Files

Bodies == {[key |-> "absent", digest |-> "absent"], [key |-> "x", digest |-> "valid"],
           [key |-> "x", digest |-> "bad"], [key |-> "nested", digest |-> "absent"],
           [key |-> "unreadable", digest |-> "absent"]}

Release(core, modifiers) == [name |-> "release", core |-> core, modifiers |-> modifiers]
Engines == {Release(<<0, 6, 9>>, FALSE), Release(<<0, 7, 0>>, TRUE),
            [name |-> "dev", core |-> <<>>, modifiers |-> TRUE],
            [name |-> "unknown", core |-> <<>>, modifiers |-> FALSE]}

(* The file is edited or tokens change, not both.                          *)
OneConcern == disk.rev = 0 \/ keys = [k \in Keys |-> IF k = 1 THEN "active" ELSE "none"]

CONSTANTS r1, r2
AnyReloader == Permutations(Reloaders)
=============================================================================
