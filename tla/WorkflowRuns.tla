---------------------------- MODULE WorkflowRuns ----------------------------
(***************************************************************************)
(* The GitHub Actions runs main shows (httpapi/github.go,                  *)
(* store/workflowruns.go).  GitHub sends a delivery for each change of a   *)
(* run; deliveries are lost, sent again and overtake one another.  The     *)
(* handler upserts a row under the condition that the delivery is not      *)
(* older, then deletes the repo's oldest rows: two statements, with other  *)
(* handlers, a failure or a crash in between.  Timestamps have whole       *)
(* seconds.  Names, titles and branches are left out.                      *)
(***************************************************************************)
EXTENDS Naturals, FiniteSets

CONSTANTS
  Runs,         \* GitHub's run ids
  Repos,        \* repositories
  RepoOf,       \* the repository of a run
  Keep,         \* retainWorkflowRunsPerRepo, 200
  MaxTime,      \* bound: seconds
  MaxChanges,   \* bound: changes of each run, three for one attempt
  MaxResent,    \* bound: deliveries sent again
  MaxHandlers   \* bound: handlers of a repository between their statements

ASSUME RunsAssumption == Runs \subseteq Nat /\ Repos # {}
ASSUME RepoAssumption == RepoOf \in [Runs -> Repos]
ASSUME BoundsAssumption ==
  /\ Keep \in Nat \ {0} /\ MaxTime \in Nat
  /\ MaxChanges \in [Runs -> Nat] /\ MaxResent \in Nat
  /\ MaxHandlers \in Nat \ {0}

Times == 0..MaxTime
Never == MaxTime + 1                   \* a NULL timestamp
Absent == [n |-> 0]                    \* no row
RunStatus == <<"queued", "in_progress", "completed">>

(* The n-th change of a run: attempts follow one another, a rerun keeps    *)
(* the id.                                                                 *)
Status(n) == RunStatus[((n - 1) % 3) + 1]

Deliveries == [run : Runs, n : Nat \ {0}, created : Times, updated : Times,
               started : Times \cup {Never}]
Rows == [n : Nat \ {0}, created : Times, updated : Times,
         started : Times \cup {Never}]

VARIABLES
  clock,
  github,    \* [n, created, started] of each run; n = 0: not created yet
  wire,      \* deliveries GitHub has sent and main has not answered
  resent,    \* deliveries sent a second time
  rows,      \* the table workflow_runs
  cleaning,  \* the handlers of each repo that have upserted but not cleaned up
  applied,   \* history: deliveries executed against a run's present row
  missed,    \* history: runs that lost a delivery
  skipped    \* history: repos with a cleanup that never happened

vars == <<clock, github, wire, resent, rows, cleaning, applied, missed, skipped>>

TypeOK ==
  /\ clock \in Times
  /\ github \in [Runs -> [n : Nat, created : Times,
                          started : Times \cup {Never}]]
  /\ wire \subseteq Deliveries
  /\ resent \in 0..MaxResent
  /\ rows \in [Runs -> Rows \cup {Absent}]
  /\ cleaning \in [Repos -> Nat]
  /\ applied \in [Runs -> SUBSET Deliveries]
  /\ missed \subseteq Runs /\ skipped \subseteq Repos

Init ==
  /\ clock = 0
  /\ github = [r \in Runs |-> [n |-> 0, created |-> 0, started |-> Never]]
  /\ wire = {} /\ resent = 0
  /\ rows = [r \in Runs |-> Absent]
  /\ cleaning = [p \in Repos |-> 0]
  /\ applied = [r \in Runs |-> {}]
  /\ missed = {} /\ skipped = {}

Present == {r \in Runs : rows[r] # Absent}

-----------------------------------------------------------------------------
(* GitHub: time passes, a run changes and says so.  Its start is that of   *)
(* its attempt, and nil while it is queued.                                *)

Tick ==
  /\ clock < MaxTime
  /\ clock' = clock + 1
  /\ UNCHANGED <<github, wire, resent, rows, cleaning, applied, missed, skipped>>

Change(r) ==
  /\ github[r].n < MaxChanges[r]
  /\ LET n == github[r].n + 1
         created == IF n = 1 THEN clock ELSE github[r].created
         started == CASE Status(n) = "queued" -> Never
                      [] Status(n) = "in_progress" -> clock
                      [] Status(n) = "completed" -> github[r].started
     IN /\ github' = [github EXCEPT ![r] = [n |-> n, created |-> created, started |-> started]]
        /\ wire' = wire \cup {[run |-> r, n |-> n, created |-> created,
                                updated |-> clock, started |-> started]}
  /\ UNCHANGED <<clock, resent, rows, cleaning, applied, missed, skipped>>

-----------------------------------------------------------------------------
(* handleGitHubWebhook.  A delivery is refused without a trace when no     *)
(* secret is configured (404), it cannot be read or is too large (400,     *)
(* 413), its signature is not the secret's (401), it is no workflow run    *)
(* (400) or the upsert fails (500); GitHub does not try again by itself.   *)

Refuse(d) ==
  /\ d \in wire
  /\ wire' = wire \ {d}
  /\ missed' = missed \cup {d.run}
  /\ UNCHANGED <<clock, github, resent, rows, cleaning, applied, skipped>>

(* UpsertWorkflowRun: the conditional update, and COALESCE for the start.  *)

SupersedesAlways(d, row) == TRUE
StartedNone(d, row) == d.started

Supersedes(d, row) == d.updated >= row.updated

Started(d, row) ==
  IF d.started # Never \/ row = Absent THEN d.started ELSE row.started

Upserted(d, row) ==
  IF row = Absent \/ Supersedes(d, row)
  THEN [n |-> d.n, created |-> d.created, updated |-> d.updated,
        started |-> Started(d, row)]
  ELSE row

Upsert(d, again) ==
  /\ d \in wire /\ cleaning[RepoOf[d.run]] < MaxHandlers
  /\ again => resent < MaxResent          \* an operator has it sent again
  /\ wire' = IF again THEN wire ELSE wire \ {d}
  /\ resent' = IF again THEN resent + 1 ELSE resent
  /\ rows' = [rows EXCEPT ![d.run] = Upserted(d, @)]
  /\ applied' = [applied EXCEPT ![d.run] = @ \cup {d}]
  /\ cleaning' = [cleaning EXCEPT ![RepoOf[d.run]] = @ + 1]
  /\ UNCHANGED <<clock, github, missed, skipped>>

-----------------------------------------------------------------------------
(* CleanupWorkflowRuns: the repo's rows but the newest Keep go.            *)

NewerInverted(q, r) == rows[r].created >= rows[q].created /\ q # r

Newer(q, r) ==
  \/ rows[q].created > rows[r].created
  \/ rows[q].created = rows[r].created /\ q > r

InRepo(p) == {r \in Present : RepoOf[r] = p}

Rank(p, r) == Cardinality({q \in InRepo(p) : Newer(q, r)})

Retained(p) == {r \in InRepo(p) : Rank(p, r) < Keep}

Cleanup(p) ==
  /\ cleaning[p] > 0
  /\ cleaning' = [cleaning EXCEPT ![p] = @ - 1]
  /\ LET old == InRepo(p) \ Retained(p) IN
     /\ rows' = [r \in Runs |-> IF r \in old THEN Absent ELSE rows[r]]
     /\ applied' = [r \in Runs |-> IF r \in old THEN {} ELSE applied[r]]
  /\ skipped' = skipped \ {p}
  /\ UNCHANGED <<clock, github, wire, resent, missed>>

(* The DELETE fails, its error ignored, or main dies before it.            *)

SkipCleanup(p) ==
  /\ cleaning[p] > 0
  /\ cleaning' = [cleaning EXCEPT ![p] = @ - 1]
  /\ skipped' = skipped \cup {p}
  /\ UNCHANGED <<clock, github, wire, resent, rows, applied, missed>>

-----------------------------------------------------------------------------
(* What the dashboard lists, ListActiveWorkflowRuns.                       *)

Active == {r \in Present : Status(rows[r].n) # "completed"}

-----------------------------------------------------------------------------
Next ==
  \/ Tick
  \/ \E r \in Runs : Change(r)
  \/ \E d \in wire : Refuse(d)
  \/ \E d \in wire : \E again \in BOOLEAN : Upsert(d, again)
  \/ \E p \in Repos : Cleanup(p) \/ SkipCleanup(p)

Spec == Init /\ [][Next]_vars

(* Main answers what reaches it and a handler runs to its end; GitHub may  *)
(* never change a run again.                                               *)
Fairness ==
  /\ \A r \in Runs : WF_vars(\E d \in wire : d.run = r /\ Upsert(d, FALSE))
  /\ \A p \in Repos : WF_vars(Cleanup(p))

FairSpec == Spec /\ Fairness

-----------------------------------------------------------------------------
(* A row shows the newest of the deliveries that reached it, in whatever   *)
(* order they came: its updated_at is the largest of them and its status   *)
(* that of a delivery with that timestamp.                                 *)
NewestShown ==
  \A r \in Present :
    /\ \E d \in applied[r] : d.n = rows[r].n /\ d.updated = rows[r].updated
    /\ \A d \in applied[r] : d.updated <= rows[r].updated

(* A run that was started stays so while its row lives, also when a rerun  *)
(* is queued, and its start moves only forward: the duration on the page   *)
(* is never that of an earlier attempt than one it has shown.  A delivery  *)
(* of the same second as the row may still take the start back.            *)
StartKept ==
  [][\A r \in Present : rows'[r] # Absent /\ rows[r].started # Never =>
       /\ rows'[r].started # Never
       /\ rows'[r].updated > rows[r].updated => rows'[r].started >= rows[r].started]_vars

(* Retention takes only the oldest: when a row goes, Keep newer ones of    *)
(* its repo stay.                                                          *)
OldestGoes ==
  [][\A r \in Present : rows'[r] = Absent =>
       Cardinality({q \in InRepo(RepoOf[r]) : rows'[q] # Absent /\ Newer(q, r)}) >= Keep]_vars

(* Why the start moves forward: no start is later than the change that     *)
(* tells it, of two changes the later one tells the later start, and       *)
(* GitHub's own is the latest.  This holds of what is under way, of a row  *)
(* (whose start may be an earlier delivery's) and between the two.         *)
StartsInOrder(d, e) ==
  d.updated < e.updated /\ d.started # Never /\ e.started # Never => d.started <= e.started

StartIsPast(d, r) ==
  /\ d.updated <= clock
  /\ d.started # Never => d.started <= d.updated
  /\ d.started # Never /\ github[r].started # Never => d.started <= github[r].started

StartInv ==
  /\ \A r \in Runs : github[r].started # Never => github[r].started <= clock
  /\ \A d \in wire : StartIsPast(d, d.run)
  /\ \A d, e \in wire : d.run = e.run => StartsInOrder(d, e)
  /\ \A r \in Present : StartIsPast(rows[r], r)
  /\ \A r \in Present : \A d \in wire : d.run = r => StartsInOrder(rows[r], d)

(* The second that decides what is shown holds one change of the run.      *)
Distinct(r) ==
  \A d \in applied[r] : d.updated = rows[r].updated => d.n = rows[r].n

(* Once all deliveries have arrived, what a page shows of a run is what    *)
(* GitHub last said, however they were ordered: no row of a late delivery  *)
(* stays behind, not even one that brings back a run retention had taken.  *)
(* Runs with two changes in one second are excused, runs that lost a       *)
(* delivery, and repos whose last cleanup never happened.                  *)
Excused(r) == r \in missed \/ RepoOf[r] \in skipped \/ ~Distinct(r)

ShowsTheTruth ==
  \A r \in Runs :
    <>[](r \in Present /\ ~Excused(r) =>
           /\ rows[r].n = github[r].n
           /\ (r \in Active) = (Status(github[r].n) # "completed"))
=============================================================================
