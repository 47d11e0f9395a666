------------------------- MODULE WorkflowRunsProofs -------------------------
(***************************************************************************)
(* For any runs, repositories, retention and number of deliveries, in any  *)
(* order: a row shows the newest of the deliveries that reached it, starts *)
(* only move forward, and retention takes the oldest.                      *)
(***************************************************************************)
EXTENDS WorkflowRuns, FiniteSetTheorems, WellFoundedInduction, TLAPS

(* What NewestShown rests on: deliveries are counted only against a row    *)
(* that is there, and all of them are real ones.                           *)
RowInv ==
  /\ wire \subseteq Deliveries
  /\ rows \in [Runs -> Rows \cup {Absent}]
  /\ applied \in [Runs -> SUBSET Deliveries]
  /\ \A r \in Runs : rows[r] = Absent => applied[r] = {}
  /\ NewestShown

(* GitHub's own state, which every delivery is taken from.                 *)
GithubInv ==
  /\ clock \in Times
  /\ github \in [Runs -> [n : Nat, created : Times, started : Times \cup {Never}]]

Inv == GithubInv /\ RowInv

(* A row is told from no row by its fields.                                *)
LEMMA RowsArePresent == ASSUME NEW row \in Rows PROVE row # Absent
  BY DEF Rows, Absent

(* What an upsert leaves is a row, and the newer of the two.               *)
LEMMA UpsertedIsNewest ==
  ASSUME NEW d \in Deliveries, NEW row \in Rows \cup {Absent}
  PROVE  /\ Upserted(d, row) \in Rows
         /\ Upserted(d, row).updated >= d.updated
         /\ row # Absent => Upserted(d, row).updated >= row.updated
         /\ \/ Upserted(d, row).n = d.n /\ Upserted(d, row).updated = d.updated
            \/ row # Absent /\ Upserted(d, row) = row
<1> USE BoundsAssumption
<1>1. d.n \in Nat \ {0} /\ d.created \in Times /\ d.updated \in Times
      /\ d.started \in Times \cup {Never}
  BY DEF Deliveries
<1>2. CASE row = Absent
  <2>1. Upserted(d, row) = [n |-> d.n, created |-> d.created, updated |-> d.updated,
                            started |-> d.started]
    BY <1>2 DEF Upserted, Started
  <2>2. Upserted(d, row) \in Rows
    BY <1>1, <2>1 DEF Rows
  <2> QED BY <1>1, <1>2, <2>1, <2>2 DEF Times
<1>3. CASE row # Absent
  <2>1. row \in Rows /\ row.updated \in Times /\ row.started \in Times \cup {Never}
    BY <1>3 DEF Rows
  <2>2. CASE Supersedes(d, row)
    <3>1. Started(d, row) \in Times \cup {Never}
      BY <1>1, <2>1 DEF Started
    <3>2. Upserted(d, row) = [n |-> d.n, created |-> d.created, updated |-> d.updated,
                              started |-> Started(d, row)]
      BY <2>2 DEF Upserted
    <3>3. Upserted(d, row) \in Rows
      BY <1>1, <3>1, <3>2 DEF Rows
    <3> QED
      BY <1>1, <1>3, <2>1, <2>2, <3>2, <3>3 DEF Supersedes, Times
  <2>3. CASE ~Supersedes(d, row)
    BY <1>1, <1>3, <2>1, <2>3 DEF Upserted, Supersedes, Times
  <2> QED BY <2>2, <2>3
<1> QED BY <1>2, <1>3

LEMMA InitInv == Init => Inv
<1> USE BoundsAssumption
<1> SUFFICES ASSUME Init PROVE Inv OBVIOUS
<1>1. GithubInv
  BY DEF Init, GithubInv, Times, Never
<1>2. rows \in [Runs -> Rows \cup {Absent}] /\ applied \in [Runs -> SUBSET Deliveries]
  BY DEF Init
<1>3. NewestShown
  BY DEF Init, NewestShown, Present
<1> QED BY <1>1, <1>2, <1>3 DEF Inv, RowInv, Init

(* A delivery is added to those of its run's row, upserted with it.        *)
LEMMA UpsertInv ==
  ASSUME Inv, NEW d, NEW again \in BOOLEAN, Upsert(d, again)
  PROVE  Inv'
<1> USE BoundsAssumption
<1> DEFINE r == d.run
<1>1. d \in wire /\ d \in Deliveries /\ r \in Runs
  BY DEF Inv, RowInv, Upsert, Deliveries
<1>2. GithubInv'
  BY DEF Inv, GithubInv, Upsert
<1>3. (wire \subseteq Deliveries)'
  BY DEF Inv, RowInv, Upsert
<1>4. rows' = [rows EXCEPT ![r] = Upserted(d, rows[r])]
      /\ applied' = [applied EXCEPT ![r] = applied[r] \cup {d}]
  BY DEF Upsert
<1>5. rows[r] \in Rows \cup {Absent} /\ applied[r] \subseteq Deliveries
  BY <1>1 DEF Inv, RowInv
<1>6. Upserted(d, rows[r]) \in Rows /\ Upserted(d, rows[r]) # Absent
  BY <1>1, <1>5, UpsertedIsNewest, RowsArePresent
<1>7. /\ rows' \in [Runs -> Rows \cup {Absent}]
      /\ applied' \in [Runs -> SUBSET Deliveries]
      /\ \A q \in Runs : rows'[q] = Absent => applied'[q] = {}
  BY <1>1, <1>4, <1>5, <1>6 DEF Inv, RowInv
<1>8. NewestShown'
  <2> SUFFICES ASSUME NEW q \in Runs, rows'[q] # Absent
               PROVE  /\ \E e \in applied'[q] : e.n = rows'[q].n /\ e.updated = rows'[q].updated
                      /\ \A e \in applied'[q] : e.updated <= rows'[q].updated
    BY DEF NewestShown, Present
  <2>1. CASE q # r
    BY <2>1, <1>4 DEF Inv, RowInv, NewestShown, Present
  <2>2. CASE q = r
    <3>1. rows'[q] = Upserted(d, rows[r]) /\ applied'[q] = applied[r] \cup {d}
      BY <1>1, <1>4, <2>2 DEF Inv, RowInv
    <3>2. \E e \in applied'[q] : e.n = rows'[q].n /\ e.updated = rows'[q].updated
      <4>1. CASE Upserted(d, rows[r]).n = d.n /\ Upserted(d, rows[r]).updated = d.updated
        BY <3>1, <4>1
      <4>2. CASE rows[r] # Absent /\ Upserted(d, rows[r]) = rows[r]
        BY <1>1, <3>1, <4>2 DEF Inv, RowInv, NewestShown, Present
      <4> QED BY <1>1, <1>5, <4>1, <4>2, UpsertedIsNewest
    <3>3. ASSUME NEW e \in applied'[q] PROVE e.updated <= rows'[q].updated
      <4>1. CASE e = d
        <5>1. Upserted(d, rows[r]).updated >= d.updated
          BY <1>1, <1>5, UpsertedIsNewest
        <5> QED BY <1>6, <3>1, <4>1, <5>1 DEF Rows, Times, Deliveries
      <4>2. CASE e \in applied[r]
        <5>1. rows[r] # Absent /\ e.updated <= rows[r].updated
          BY <1>1, <4>2 DEF Inv, RowInv, NewestShown, Present
        <5>2. Upserted(d, rows[r]).updated >= rows[r].updated
          BY <1>1, <1>5, <5>1, UpsertedIsNewest
        <5>3. e.updated \in Times /\ rows[r].updated \in Times
              /\ Upserted(d, rows[r]).updated \in Times
          BY <1>5, <1>6, <4>2, <5>1 DEF Rows, Deliveries
        <5> QED BY <3>1, <5>1, <5>2, <5>3 DEF Times
      <4> QED BY <3>1, <3>3, <4>1, <4>2
    <3> QED BY <3>2, <3>3
  <2> QED BY <2>1, <2>2
<1> QED BY <1>2, <1>3, <1>7, <1>8 DEF Inv, RowInv

(* Retention takes a row and forgets its deliveries with it.               *)
LEMMA CleanupInv ==
  ASSUME Inv, NEW p \in Repos, Cleanup(p)
  PROVE  Inv'
<1> DEFINE old == InRepo(p) \ Retained(p)
<1>1. /\ rows' = [r \in Runs |-> IF r \in old THEN Absent ELSE rows[r]]
      /\ applied' = [r \in Runs |-> IF r \in old THEN {} ELSE applied[r]]
      /\ UNCHANGED <<clock, github, wire>>
  BY DEF Cleanup
<1> HIDE DEF old
<1>2. /\ rows' \in [Runs -> Rows \cup {Absent}]
      /\ applied' \in [Runs -> SUBSET Deliveries]
      /\ \A r \in Runs : rows'[r] = Absent => applied'[r] = {}
  BY <1>1 DEF Inv, RowInv
<1>3. NewestShown'
  BY <1>1 DEF Inv, RowInv, NewestShown, Present
<1> QED BY <1>1, <1>2, <1>3 DEF Inv, RowInv, GithubInv

(* GitHub's changes add a delivery and touch no row.                       *)
LEMMA ChangeInv ==
  ASSUME Inv, NEW r \in Runs, Change(r)
  PROVE  Inv'
<1> USE BoundsAssumption
<1> DEFINE n == github[r].n + 1
           created == IF n = 1 THEN clock ELSE github[r].created
           started == CASE Status(n) = "queued" -> Never
                        [] Status(n) = "in_progress" -> clock
                        [] Status(n) = "completed" -> github[r].started
<1>1. n \in Nat \ {0} /\ created \in Times
  BY DEF Inv, GithubInv
<1>2. Status(n) \in {"queued", "in_progress", "completed"}
  <2>1. (n - 1) % 3 \in 0..2
    BY <1>1
  <2> QED BY <2>1 DEF Status, RunStatus
<1>3. started \in Times \cup {Never}
  BY <1>2 DEF Inv, GithubInv
<1> HIDE DEF n, created, started
<1>4. /\ github' = [github EXCEPT ![r] = [n |-> n, created |-> created, started |-> started]]
      /\ wire' = wire \cup {[run |-> r, n |-> n, created |-> created,
                              updated |-> clock, started |-> started]}
      /\ UNCHANGED <<clock, rows, applied>>
  BY DEF Change, n, created, started
<1>5. GithubInv'
  BY <1>1, <1>3, <1>4 DEF Inv, GithubInv
<1>6. wire' \subseteq Deliveries
  BY <1>1, <1>3, <1>4 DEF Inv, GithubInv, RowInv, Deliveries
<1>7. NewestShown'
  BY <1>4 DEF Inv, RowInv, NewestShown, Present
<1> QED BY <1>4, <1>5, <1>6, <1>7 DEF Inv, RowInv

LEMMA NextInv == Inv /\ [Next]_vars => Inv'
<1> USE BoundsAssumption
<1> SUFFICES ASSUME Inv, [Next]_vars PROVE Inv' OBVIOUS
<1>1. CASE Tick
  BY <1>1 DEF Tick, Inv, GithubInv, RowInv, NewestShown, Present, Times
<1>2. CASE \E r \in Runs : Change(r)
  BY <1>2, ChangeInv
<1>3. CASE \E d \in wire : Refuse(d)
  BY <1>3 DEF Refuse, Inv, GithubInv, RowInv, NewestShown, Present
<1>4. CASE \E d \in wire : \E again \in BOOLEAN : Upsert(d, again)
  BY <1>4, UpsertInv
<1>5. CASE \E p \in Repos : Cleanup(p)
  BY <1>5, CleanupInv
<1>6. CASE \E p \in Repos : SkipCleanup(p)
  BY <1>6 DEF SkipCleanup, Inv, GithubInv, RowInv, NewestShown, Present
<1>7. CASE UNCHANGED vars
  BY <1>7 DEF vars, Inv, GithubInv, RowInv, NewestShown, Present
<1> QED BY <1>1, <1>2, <1>3, <1>4, <1>5, <1>6, <1>7 DEF Next

-----------------------------------------------------------------------------
(* The start of a run                                                       *)

(* What an upsert leaves of the start: that of the delivery, or of the row  *)
(* when the delivery has none.                                              *)
LEMMA UpsertedStart ==
  ASSUME NEW d \in Deliveries, NEW row \in Rows \cup {Absent}
  PROVE  \/ row # Absent /\ Upserted(d, row) = row
         \/ /\ Upserted(d, row).updated = d.updated /\ Upserted(d, row).started = d.started
            /\ row # Absent /\ row.started # Never => d.started # Never
         \/ /\ Upserted(d, row).updated = d.updated /\ Upserted(d, row).started = row.started
            /\ row # Absent /\ d.started = Never /\ row.updated <= d.updated
<1>1. CASE row # Absent /\ ~Supersedes(d, row) BY <1>1 DEF Upserted
<1>2. CASE row = Absent \/ Supersedes(d, row)
  <2>1. Upserted(d, row) = [n |-> d.n, created |-> d.created, updated |-> d.updated,
                            started |-> Started(d, row)]
    BY <1>2 DEF Upserted
  <2>2. CASE d.started # Never \/ row = Absent
    BY <2>1, <2>2 DEF Started
  <2>3. CASE d.started = Never /\ row # Absent
    <3>1. row.updated <= d.updated
      BY <1>2, <2>3, BoundsAssumption DEF Supersedes, Deliveries, Rows, Times
    <3>2. QED BY <2>1, <2>3, <3>1 DEF Started
  <2>4. QED BY <2>2, <2>3
<1>3. QED BY <1>1, <1>2

LEMMA StartUpsert ==
  ASSUME Inv, StartInv, NEW d, NEW again \in BOOLEAN, Upsert(d, again)
  PROVE  StartInv'
<1> USE BoundsAssumption
<1> DEFINE r == d.run
           up == Upserted(d, rows[r])
<1>1. d \in wire /\ d \in Deliveries /\ r \in Runs /\ rows[r] \in Rows \cup {Absent}
  BY DEF Inv, RowInv, Upsert, Deliveries
<1>2. /\ wire' \subseteq wire /\ UNCHANGED <<clock, github>>
      /\ rows' = [rows EXCEPT ![r] = up]
  BY DEF Upsert
<1>3. rows \in [Runs -> Rows \cup {Absent}] /\ wire \subseteq Deliveries /\ clock \in Times
  BY DEF Inv, RowInv, GithubInv
<1>4. up \in Rows BY <1>1, UpsertedIsNewest
<1>5. \/ rows[r] # Absent /\ up = rows[r]
      \/ up.updated = d.updated /\ up.started = d.started
      \/ /\ up.updated = d.updated /\ up.started = rows[r].started
         /\ rows[r] # Absent /\ d.started = Never /\ rows[r].updated <= d.updated
  BY <1>1, UpsertedStart
<1> HIDE DEF up
<1>6. /\ up.updated \in Times /\ up.started \in Times \cup {Never}
      /\ d.updated \in Times /\ d.started \in Times \cup {Never}
      /\ rows[r] # Absent => rows[r].updated \in Times /\ rows[r].started \in Times \cup {Never}
  BY <1>1, <1>4 DEF Rows, Deliveries
<1>7. /\ StartIsPast(d, r)
      /\ rows[r] # Absent => StartIsPast(rows[r], r)
      /\ \A e \in wire : e.run = r => StartsInOrder(d, e)
      /\ rows[r] # Absent => \A e \in wire : e.run = r => StartsInOrder(rows[r], e)
  BY <1>1 DEF StartInv, Present
<1>8. StartIsPast(up, r)
  BY <1>5, <1>6, <1>7, <1>3 DEF StartIsPast, Times, Never
<1>9. ASSUME NEW e \in wire, e.run = r PROVE StartsInOrder(up, e)
  <2>1. e.updated \in Times BY <1>3, <1>9 DEF Deliveries
  <2>2. StartsInOrder(d, e) /\ (rows[r] # Absent => StartsInOrder(rows[r], e)) BY <1>7, <1>9
  <2>3. QED BY <2>1, <2>2, <1>5, <1>6 DEF StartsInOrder, Times
<1>10. /\ \A q \in Runs : github'[q].started # Never => github'[q].started <= clock'
       /\ \A e \in wire' : StartIsPast(e, e.run)'
       /\ \A e, f \in wire' : e.run = f.run => StartsInOrder(e, f)
  BY <1>2 DEF StartInv, StartIsPast
<1>11. ASSUME NEW q \in Runs, rows'[q] # Absent
       PROVE  StartIsPast(rows[q], q)' /\ \A e \in wire' : e.run = q => StartsInOrder(rows'[q], e)
  <2>1. CASE q = r
    <3>1. rows'[q] = up BY <1>1, <1>2, <1>3, <2>1
    <3>2. QED BY <3>1, <1>2, <1>8, <1>9, <2>1 DEF StartIsPast
  <2>2. CASE q # r
    <3>1. rows'[q] = rows[q] BY <1>2, <1>3, <2>2
    <3>2. q \in Present BY <3>1, <1>11 DEF Present
    <3>3. QED BY <3>1, <3>2, <1>2 DEF StartInv, StartIsPast
  <2>3. QED BY <2>1, <2>2
<1>12. QED BY <1>10, <1>11 DEF StartInv, Present, StartsInOrder

(* A change of a run is later than everything GitHub has said before, and   *)
(* an attempt that starts, starts now.                                      *)
LEMMA StartChange ==
  ASSUME Inv, StartInv, NEW r \in Runs, Change(r)
  PROVE  StartInv'
<1> USE BoundsAssumption
<1> DEFINE n == github[r].n + 1
           created == IF n = 1 THEN clock ELSE github[r].created
           started == CASE Status(n) = "queued" -> Never
                        [] Status(n) = "in_progress" -> clock
                        [] Status(n) = "completed" -> github[r].started
           new == [run |-> r, n |-> n, created |-> created, updated |-> clock, started |-> started]
<1>1. /\ github' = [github EXCEPT ![r] = [n |-> n, created |-> created, started |-> started]]
      /\ wire' = wire \cup {new}
      /\ UNCHANGED <<clock, rows>>
  BY DEF Change
<1>2. /\ clock \in Times /\ github[r].started \in Times \cup {Never} /\ github[r].n \in Nat
      /\ github \in [Runs -> [n : Nat, created : Times, started : Times \cup {Never}]]
      /\ wire \subseteq Deliveries /\ rows \in [Runs -> Rows \cup {Absent}]
  BY DEF Inv, GithubInv, RowInv
<1>3. started \in {Never, clock, github[r].started}
  <2>1. (n - 1) % 3 \in 0..2 BY <1>2
  <2>2. Status(n) \in {"queued", "in_progress", "completed"} BY <2>1 DEF Status, RunStatus
  <2>3. QED BY <2>2
<1>4. new.updated = clock /\ new.started = started /\ new.run = r OBVIOUS
<1> HIDE DEF started, new, n, created
<1>5. github'[r].started = started /\ \A q \in Runs \ {r} : github'[q] = github[q]
  BY <1>1, <1>2
<1>6. ASSUME NEW d, NEW q \in Runs, d.updated \in Times, d.started \in Times \cup {Never},
             StartIsPast(d, q)
      PROVE  /\ d.updated <= clock'
             /\ d.started # Never => d.started <= d.updated
             /\ d.started # Never /\ github'[q].started # Never => d.started <= github'[q].started
             /\ q = r => StartsInOrder(d, new)
             /\ StartsInOrder(new, d)
  <2>1. CASE q # r
    BY <1>1, <1>2, <1>4, <1>5, <1>6, <2>1 DEF StartIsPast, StartsInOrder, Times, Never
  <2>2. CASE q = r
    BY <1>1, <1>2, <1>3, <1>4, <1>5, <1>6, <2>2 DEF StartIsPast, StartsInOrder, Times, Never
  <2>3. QED BY <2>1, <2>2
<1>7. /\ new.updated <= clock'
      /\ new.started # Never => new.started <= new.updated
      /\ new.started # Never /\ github'[r].started # Never => new.started <= github'[r].started
      /\ StartsInOrder(new, new)
  <2>1. CASE started = github[r].started /\ started # Never
    <3>1. started \in Times BY <1>2, <2>1
    <3>2. started <= clock BY <2>1 DEF StartInv
    <3>3. QED BY <1>1, <1>2, <1>4, <1>5, <3>1, <3>2 DEF StartsInOrder, Times
  <2>2. CASE started \in {Never, clock}
    BY <1>1, <1>2, <1>4, <1>5, <2>2 DEF StartsInOrder, Times, Never
  <2>3. QED BY <1>3, <2>1, <2>2
<1>8. ASSUME NEW d \in wire
      PROVE  d.run \in Runs /\ d.updated \in Times /\ d.started \in Times \cup {Never} /\ StartIsPast(d, d.run)
  BY <1>2 DEF Deliveries, StartInv
<1>9. ASSUME NEW q \in Present
      PROVE  q \in Runs /\ rows[q].updated \in Times /\ rows[q].started \in Times \cup {Never}
             /\ StartIsPast(rows[q], q)
  BY <1>2 DEF Present, Rows, StartInv
<1>10. \A q \in Runs : github'[q].started # Never => github'[q].started <= clock'
  <2>1. started # Never => started <= clock BY <1>2, <1>3 DEF StartInv, Times
  <2>2. QED BY <1>1, <1>5, <2>1 DEF StartInv
<1>11. ASSUME NEW d \in wire' PROVE StartIsPast(d, d.run)'
  <2>1. CASE d \in wire BY <2>1, <1>6, <1>8 DEF StartIsPast
  <2>2. CASE d = new BY <2>2, <1>4, <1>7 DEF StartIsPast
  <2>3. QED BY <2>1, <2>2, <1>1
<1>12. ASSUME NEW d \in wire', NEW e \in wire', d.run = e.run PROVE StartsInOrder(d, e)
  <2>1. CASE d \in wire /\ e \in wire BY <2>1, <1>12 DEF StartInv
  <2>2. CASE d \in wire /\ e = new BY <2>2, <1>4, <1>6, <1>8, <1>12
  <2>3. CASE d = new /\ e \in wire BY <2>3, <1>6, <1>8
  <2>4. CASE d = new /\ e = new BY <2>4, <1>7
  <2>5. QED BY <2>1, <2>2, <2>3, <2>4, <1>1
<1>13. ASSUME NEW q \in Present PROVE StartIsPast(rows[q], q)' BY <1>1, <1>6, <1>9 DEF StartIsPast
<1>14. ASSUME NEW q \in Present, NEW d \in wire', d.run = q PROVE StartsInOrder(rows[q], d)
  <2>1. CASE d \in wire BY <2>1, <1>14 DEF StartInv
  <2>2. CASE d = new BY <2>2, <1>4, <1>6, <1>9, <1>14
  <2>3. QED BY <2>1, <2>2, <1>1
<1>15. Present' = Present /\ rows' = rows BY <1>1 DEF Present
<1>16. QED BY <1>10, <1>11, <1>12, <1>13, <1>14, <1>15 DEF StartInv, StartsInOrder

LEMMA InitStart == Init => StartInv
  BY BoundsAssumption DEF Init, StartInv, Present, Times, Never

LEMMA StartStep == Inv /\ StartInv /\ [Next]_vars => StartInv'
<1> USE BoundsAssumption
<1> SUFFICES ASSUME Inv, StartInv, [Next]_vars PROVE StartInv' OBVIOUS
<1> clock \in Times /\ wire \subseteq Deliveries /\ rows \in [Runs -> Rows \cup {Absent}]
  BY DEF Inv, GithubInv, RowInv
<1>1. CASE Tick
  <2>1. clock' = clock + 1 /\ UNCHANGED <<github, wire, rows>> BY <1>1 DEF Tick
  <2>2. \A q \in Runs : github[q].started \in Times \cup {Never} BY DEF Inv, GithubInv
  <2>3. \A d \in wire : d.updated \in Times /\ d.run \in Runs BY DEF Deliveries
  <2>4. \A q \in Present : rows[q].updated \in Times BY DEF Present, Rows
  <2>5. ASSUME NEW d \in wire PROVE StartIsPast(d, d.run)'
    BY <2>1, <2>3 DEF StartInv, StartIsPast, Times
  <2>6. ASSUME NEW q \in Present PROVE StartIsPast(rows[q], q)'
    BY <2>1, <2>4 DEF StartInv, StartIsPast, Times
  <2>7. \A q \in Runs : github'[q].started # Never => github'[q].started <= clock'
    BY <2>1, <2>2 DEF StartInv, Times, Never
  <2>8. wire' = wire /\ rows' = rows /\ Present' = Present BY <2>1 DEF Present
  <2>9. QED BY <2>5, <2>6, <2>7, <2>8 DEF StartInv, StartsInOrder
<1>2. CASE \E r \in Runs : Change(r) BY <1>2, StartChange
<1>3. CASE \E d \in wire : Refuse(d)
  BY <1>3 DEF Refuse, StartInv, StartIsPast, StartsInOrder, Present
<1>4. CASE \E d \in wire : \E again \in BOOLEAN : Upsert(d, again) BY <1>4, StartUpsert
<1>5. CASE \E p \in Repos : Cleanup(p)
  <2>1. PICK p \in Repos : Cleanup(p) BY <1>5
  <2>2. /\ UNCHANGED <<clock, github, wire>>
        /\ \A r \in Runs : rows'[r] \in {rows[r], Absent}
    BY <2>1 DEF Cleanup
  <2>3. \A r \in Present' : r \in Present /\ rows'[r] = rows[r] BY <2>2 DEF Present
  <2>4. QED BY <2>2, <2>3 DEF StartInv, StartIsPast, StartsInOrder
<1>6. CASE \E p \in Repos : SkipCleanup(p)
  BY <1>6 DEF SkipCleanup, StartInv, StartIsPast, StartsInOrder, Present
<1>7. CASE UNCHANGED vars BY <1>7 DEF vars, StartInv, StartIsPast, StartsInOrder, Present
<1> QED BY <1>1, <1>2, <1>3, <1>4, <1>5, <1>6, <1>7 DEF Next

-----------------------------------------------------------------------------
(* Retention                                                                *)

(* There are never infinitely many rows: ranks are numbers.                 *)
Countable == IsFiniteSet(Present)

LEMMA CountableStep == Inv /\ Countable /\ [Next]_vars => Countable'
<1> SUFFICES ASSUME Inv, Countable, [Next]_vars PROVE Countable' OBVIOUS
<1>1. CASE UNCHANGED rows BY <1>1 DEF Countable, Present
<1>2. ASSUME NEW d \in wire, NEW again \in BOOLEAN, Upsert(d, again) PROVE Countable'
  <2>1. Present' \subseteq Present \cup {d.run}
    BY <1>2 DEF Upsert, Present, Inv, RowInv
  <2>2. IsFiniteSet(Present \cup {d.run}) BY FS_AddElement DEF Countable
  <2>3. QED BY <2>1, <2>2, FS_Subset DEF Countable
<1>3. ASSUME NEW p \in Repos, Cleanup(p) PROVE Countable'
  <2>1. Present' \subseteq Present BY <1>3 DEF Cleanup, Present
  <2>2. QED BY <2>1, FS_Subset DEF Countable
<1>4. CASE \/ Tick \/ \E r \in Runs : Change(r)
           \/ \E d \in wire : Refuse(d)
           \/ \E p \in Repos : SkipCleanup(p)
  BY <1>1, <1>4 DEF Tick, Change, Refuse, SkipCleanup
<1>5. CASE UNCHANGED vars BY <1>1, <1>5 DEF vars
<1>6. QED BY <1>2, <1>3, <1>4, <1>5 DEF Next

(* Retention orders the rows of a repository: by created_at, then by id.    *)
LEMMA NewerIsAnOrder ==
  ASSUME Inv, NEW q \in Present, NEW r \in Present, NEW s \in Present
  PROVE  ~Newer(r, r) /\ (Newer(q, r) /\ Newer(r, s) => Newer(q, s))
<1>1. q \in Nat /\ r \in Nat /\ s \in Nat BY RunsAssumption DEF Present
<1>2. rows[q].created \in Nat /\ rows[r].created \in Nat /\ rows[s].created \in Nat
  BY BoundsAssumption DEF Inv, RowInv, Present, Rows, Times
<1>3. QED BY <1>1, <1>2 DEF Newer

LEMMA RanksAreNumbers ==
  ASSUME Inv, Countable, NEW p \in Repos, NEW r \in InRepo(p)
  PROVE  /\ Rank(p, r) \in Nat
         /\ \A b \in InRepo(p) : Newer(b, r) => Rank(p, b) < Rank(p, r)
<1> DEFINE Above(x) == {q \in InRepo(p) : Newer(q, x)}
<1>1. ASSUME NEW x \in InRepo(p) PROVE IsFiniteSet(Above(x)) /\ Cardinality(Above(x)) \in Nat
  <2>1. Above(x) \subseteq Present BY DEF InRepo
  <2>2. QED BY <2>1, FS_Subset, FS_CardinalityType DEF Countable
<1>2. ASSUME NEW b \in InRepo(p), Newer(b, r) PROVE Cardinality(Above(b)) < Cardinality(Above(r))
  <2>1. Above(b) \subseteq Above(r) BY <1>2, NewerIsAnOrder DEF InRepo
  <2>2. b \in Above(r) /\ b \notin Above(b) BY <1>2, NewerIsAnOrder DEF InRepo
  <2>3. Cardinality(Above(b)) <= Cardinality(Above(r))
        /\ Cardinality(Above(b)) # Cardinality(Above(r))
    BY <1>1, <2>1, <2>2, FS_Subset
  <2>4. QED BY <1>1, <2>3
<1>3. QED BY <1>1, <1>2 DEF Rank

(* Of the rows that go, take from those that are newer than a given one the *)
(* newest: it is outranked only by rows that stay, and by Keep of them.     *)
LEMMA EnoughStay ==
  ASSUME Inv, Countable, NEW p \in Repos, NEW r \in InRepo(p) \ Retained(p)
  PROVE  Cardinality({q \in Retained(p) : Newer(q, r)}) >= Keep
<1> USE BoundsAssumption
<1> DEFINE T == {x \in InRepo(p) \ Retained(p) : x = r \/ Newer(x, r)}
           R == OpToRel(<, Nat)
           Ranks == {Rank(p, x) : x \in T}
           Stay == {q \in Retained(p) : Newer(q, r)}
<1>1. Ranks \subseteq Nat /\ Ranks # {} /\ IsWellFoundedOn(R, Nat)
  BY RanksAreNumbers, NatLessThanWellFounded
<1>2. PICK k \in Ranks : \A j \in Ranks : ~(<<j, k>> \in R) BY <1>1, WFMin
<1>3. PICK m \in T : Rank(p, m) = k OBVIOUS
<1>4. ASSUME NEW x \in InRepo(p), Newer(x, m) PROVE x \in Stay
  <2>1. Newer(x, r) BY <1>3, <1>4, NewerIsAnOrder DEF InRepo
  <2>2. Rank(p, x) < k /\ Rank(p, x) \in Nat /\ k \in Nat BY <1>3, <1>4, RanksAreNumbers
  <2>3. <<Rank(p, x), k>> \in R BY <2>2 DEF OpToRel
  <2>4. x \notin T BY <1>2, <2>3
  <2>5. QED BY <2>1, <2>4, <1>4
<1>5. {q \in InRepo(p) : Newer(q, m)} \subseteq Stay BY <1>4
<1>6. IsFiniteSet(Stay) /\ Cardinality(Stay) \in Nat
  <2>1. Stay \subseteq Present BY DEF Retained, InRepo
  <2>2. QED BY <2>1, FS_Subset, FS_CardinalityType DEF Countable
<1>7. Rank(p, m) <= Cardinality(Stay) BY <1>5, <1>6, FS_Subset DEF Rank
<1>8. Rank(p, m) >= Keep /\ Rank(p, m) \in Nat BY <1>3, RanksAreNumbers DEF Retained
<1>9. QED BY <1>6, <1>7, <1>8

-----------------------------------------------------------------------------
(* Theorems                                                                 *)

(* Whatever is lost, sent again or reordered, and however many handlers    *)
(* run: a row shows the newest delivery that reached it.                   *)
THEOREM ShownIsNewest == Spec => []NewestShown
<1>1. Inv => NewestShown
  BY DEF Inv, RowInv
<1> QED BY <1>1, InitInv, NextInv, PTL DEF Spec

(* A run that was shown started stays so, also when its rerun is queued,    *)
(* and a later delivery moves its start only forward.                       *)
THEOREM StartsAreKept == Spec => StartKept
<1> DEFINE Kept == \A r \in Present : rows'[r] # Absent /\ rows[r].started # Never =>
                     /\ rows'[r].started # Never
                     /\ rows'[r].updated > rows[r].updated => rows'[r].started >= rows[r].started
<1>1. Inv /\ StartInv /\ [Next]_vars => [Kept]_vars
  <2> USE BoundsAssumption
  <2> SUFFICES ASSUME Inv, StartInv, Next, NEW r \in Present, rows'[r] # Absent, rows[r].started # Never
               PROVE  /\ rows'[r].started # Never
                      /\ rows'[r].updated > rows[r].updated => rows'[r].started >= rows[r].started
    OBVIOUS
  <2>1. r \in Runs /\ rows[r] \in Rows /\ rows[r].updated \in Times /\ rows[r].started \in Times
    BY DEF Inv, RowInv, Present, Rows
  <2>2. CASE rows'[r] = rows[r] BY <2>1, <2>2 DEF Times
  <2>3. ASSUME NEW d \in wire, NEW again \in BOOLEAN, Upsert(d, again)
        PROVE  /\ rows'[r].started # Never
               /\ rows'[r].updated > rows[r].updated => rows'[r].started >= rows[r].started
    <3>1. rows' = [rows EXCEPT ![d.run] = Upserted(d, rows[d.run])] BY <2>3 DEF Upsert
    <3>2. CASE d.run # r
      <4>1. rows'[r] = rows[r] BY <3>1, <3>2, <2>1 DEF Inv, RowInv
      <4>2. QED BY <4>1, <2>2
    <3>3. CASE d.run = r
      <4>1. rows'[r] = Upserted(d, rows[r]) BY <2>1, <3>1, <3>3 DEF Inv, RowInv
      <4>2. d \in Deliveries /\ rows[r] # Absent /\ StartsInOrder(rows[r], d)
        BY <3>3 DEF Inv, RowInv, StartInv, Present
      <4>3. d.updated \in Times /\ d.started \in Times \cup {Never} BY <4>2 DEF Deliveries
      <4>4. \/ rows'[r] = rows[r]
            \/ /\ rows'[r].updated = d.updated /\ rows'[r].started = d.started
               /\ d.started # Never
            \/ rows'[r].updated = d.updated /\ rows'[r].started = rows[r].started
        BY <2>1, <4>1, <4>2, UpsertedStart
      <4>5. QED BY <2>1, <4>2, <4>3, <4>4 DEF StartsInOrder, Times, Never
    <3>4. QED BY <3>2, <3>3
  <2>4. ASSUME NEW p \in Repos, Cleanup(p) PROVE rows'[r] = rows[r] BY <2>1, <2>4 DEF Cleanup
  <2>5. CASE \/ Tick \/ \E q \in Runs : Change(q)
             \/ \E d \in wire : Refuse(d)
             \/ \E p \in Repos : SkipCleanup(p)
    BY <2>2, <2>5 DEF Tick, Change, Refuse, SkipCleanup
  <2>6. QED BY <2>2, <2>3, <2>4, <2>5 DEF Next
<1>2. Inv /\ StartInv /\ [Next]_vars => Inv' /\ StartInv' BY NextInv, StartStep
<1>3. Init => Inv /\ StartInv BY InitInv, InitStart
<1>4. QED BY <1>1, <1>2, <1>3, PTL DEF Spec, StartKept

(* A row leaves the table only when Keep newer ones of its repository       *)
(* stay, however many handlers upsert and clean up.                         *)
THEOREM OnlyTheOldestGo == Spec => OldestGoes
<1> DEFINE Goes == \A r \in Present : rows'[r] = Absent =>
                     Cardinality({q \in InRepo(RepoOf[r]) : rows'[q] # Absent /\ Newer(q, r)}) >= Keep
<1>1. Inv /\ Countable /\ [Next]_vars => [Goes]_vars
  <2> SUFFICES ASSUME Inv, Countable, Next, NEW r \in Present, rows'[r] = Absent
               PROVE  Cardinality({q \in InRepo(RepoOf[r]) : rows'[q] # Absent /\ Newer(q, r)}) >= Keep
    OBVIOUS
  <2>1. r \in Runs /\ rows[r] # Absent /\ RepoOf[r] \in Repos BY RepoAssumption DEF Present
  <2>2. \E p \in Repos : Cleanup(p)
    <3>1. CASE UNCHANGED rows BY <2>1, <3>1
    <3>2. ASSUME NEW d \in wire, NEW again \in BOOLEAN, Upsert(d, again) PROVE FALSE
      <4>1. rows' = [rows EXCEPT ![d.run] = Upserted(d, rows[d.run])] BY <3>2 DEF Upsert
      <4>2. d \in Deliveries /\ d.run \in Runs /\ rows[d.run] \in Rows \cup {Absent}
        BY DEF Inv, RowInv, Deliveries
      <4>3. Upserted(d, rows[d.run]) # Absent BY <4>2, UpsertedIsNewest, RowsArePresent
      <4>4. QED BY <2>1, <4>1, <4>2, <4>3 DEF Inv, RowInv
    <3>3. CASE \/ Tick \/ \E q \in Runs : Change(q)
               \/ \E d \in wire : Refuse(d)
               \/ \E p \in Repos : SkipCleanup(p)
      BY <3>1, <3>3 DEF Tick, Change, Refuse, SkipCleanup
    <3>4. QED BY <3>2, <3>3 DEF Next
  <2>3. PICK p \in Repos : Cleanup(p) BY <2>2
  <2>4. \A q \in Runs : rows'[q] = IF q \in InRepo(p) \ Retained(p) THEN Absent ELSE rows[q]
    BY <2>3 DEF Cleanup
  <2>5. r \in InRepo(p) \ Retained(p) /\ RepoOf[r] = p BY <2>1, <2>4 DEF InRepo
  <2>6. {q \in InRepo(p) : rows'[q] # Absent /\ Newer(q, r)} = {q \in Retained(p) : Newer(q, r)}
    BY <2>4 DEF InRepo, Retained, Present
  <2>7. QED BY <2>5, <2>6, EnoughStay
<1>2. Inv /\ Countable /\ [Next]_vars => Inv' /\ Countable' BY NextInv, CountableStep
<1>3. Init => Inv /\ Countable
  <2>1. ASSUME Init PROVE Countable
    <3>1. Present = {} BY <2>1 DEF Init, Present
    <3>2. QED BY <3>1, FS_EmptySet DEF Countable
  <2>2. QED BY <2>1, InitInv
<1>4. QED BY <1>1, <1>2, <1>3, PTL DEF Spec, OldestGoes
=============================================================================
