--------------------------- MODULE IngressProofs ---------------------------
(***************************************************************************)
(* Proofs about Ingress: which tokens open the service, which file a       *)
(* request is served from, that the published schema is looser than the    *)
(* loader, that engines run what is written in the file and that a deploy  *)
(* that is accepted can work, for any files, tokens, reloads and requests. *)
(***************************************************************************)
EXTENDS Ingress, TLAPS, FiniteSetTheorems, WellFoundedInduction

-----------------------------------------------------------------------------
(* The types, and the two halves of the inductive invariant.               *)

RequestStates == {"arrived", "known", "resolved", "accepted", "refused"}

RequestRecords ==
  [pc : RequestStates, kind : {"hook", "deploy", "task"}, key : Keys \cup {Foreign},
   instance : Names \cup {Unset}, payload : Payloads, rev : Nat, file : DOMAIN Content \cup {0},
   floor : Nat, dead : SUBSET Keys]

Reloads ==
  {[pc |-> "idle"], [pc |-> "failed"]} \cup
  [pc : {"loaded", "stored", "done"}, rev : Nat, file : Accepted]

TypeInv ==
  /\ disk \in [rev : Nat, file : DOMAIN Content]
  /\ served \in [rev : Nat, file : DOMAIN Content]
  /\ reload \in [Reloaders -> Reloads]
  /\ returned \in Nat /\ overlap \in BOOLEAN
  /\ keys \in [Keys -> {"none", "active", "revoked"}] /\ rotated \in Keys \cup {0}
  /\ request \in [Requests -> RequestRecords \cup {NoRequest}]

(* Without an overlap the revisions of disk, the reload under way, what is *)
(* served and what was returned are in that order, newest first.           *)
ReloadInv ==
  /\ served.file \in Accepted /\ served.rev <= disk.rev
  /\ \A r \in Reloaders : reload[r].pc = "loaded" => reload[r].rev <= disk.rev
  /\ ~overlap =>
       /\ \A r, s \in UnderWay : r = s
       /\ returned <= served.rev
       /\ \A r \in Reloaders : reload[r].pc = "loaded" => served.rev <= reload[r].rev
       /\ \A r \in Reloaders : reload[r].pc = "stored" => reload[r].rev <= served.rev

RequestInv ==
  \A q \in Requests :
    /\ request[q].pc # "none" => request[q].floor <= returned
    /\ request[q].pc \in {"resolved", "accepted"} =>
         /\ request[q].file \in Accepted
         /\ overlap \/ request[q].floor <= request[q].rev

(* A token that is dead stays so, and one that got past Authenticate was   *)
(* alive then.                                                             *)
KeyInv ==
  /\ rotated # 0 => Active = {rotated}
  /\ \A q \in Requests :
       /\ request[q].pc # "none" => \A k \in request[q].dead : keys[k] = "revoked"
       /\ request[q].pc \in {"known", "resolved", "accepted"} /\ request[q].kind = "hook" =>
            request[q].key \notin request[q].dead
       /\ request[q].pc \in {"resolved", "accepted"} /\ request[q].kind = "hook" =>
            request[q].key # Foreign

-----------------------------------------------------------------------------
(* What the fields of a request and of a reload are, once it has them.     *)

LEMMA RequestFields ==
  ASSUME TypeInv, NEW q \in Requests, request[q].pc # "none"
  PROVE request[q] \in RequestRecords
  BY DEF TypeInv, NoRequest

LEMMA ReloadFields ==
  ASSUME TypeInv, NEW r \in Reloaders, reload[r].pc \in {"loaded", "stored", "done"}
  PROVE reload[r] \in [pc : {"loaded", "stored", "done"}, rev : Nat, file : Accepted]
  BY DEF TypeInv, Reloads

LEMMA AcceptedAreFiles == Accepted \subseteq DOMAIN Content
  BY DEF Accepted

LEMMA InitInv == Init => TypeInv /\ ReloadInv /\ RequestInv /\ KeyInv
<1> SUFFICES ASSUME Init PROVE TypeInv /\ ReloadInv /\ RequestInv /\ KeyInv
  OBVIOUS
<1>1. PICK f \in First \cap Accepted : disk = [rev |-> 0, file |-> f] /\ served = disk
  BY DEF Init
<1>2. f \in DOMAIN Content /\ f \in Accepted
  BY <1>1, AcceptedAreFiles
<1>3. TypeInv
  BY <1>1, <1>2 DEF Init, TypeInv, Reloads, NoRequest
<1>4. ReloadInv
  BY <1>1, <1>2 DEF Init, ReloadInv, UnderWay
<1>5. RequestInv
  BY DEF Init, RequestInv, NoRequest
<1>6. KeyInv
  BY DEF Init, KeyInv, NoRequest
<1> QED BY <1>3, <1>4, <1>5, <1>6

LEMMA TypeStep == TypeInv /\ [Next]_vars => TypeInv'
<1> SUFFICES ASSUME TypeInv, [Next]_vars PROVE TypeInv'
  OBVIOUS
<1> USE IngressAssumption
<1>1. CASE Edit
  BY <1>1 DEF Edit, TypeInv, access
<1>2. ASSUME NEW r \in Reloaders, Load(r) PROVE TypeInv'
  BY <1>2 DEF Load, TypeInv, access, Reloads
<1>3. ASSUME NEW r \in Reloaders, Store(r) PROVE TypeInv'
  <2>1. reload[r] \in [pc : {"loaded", "stored", "done"}, rev : Nat, file : Accepted]
    BY <1>3, ReloadFields DEF Store
  <2>2. [reload[r] EXCEPT !.pc = "stored"] \in Reloads
    BY <2>1 DEF Reloads
  <2>3. Served(r) \in [rev : Nat, file : DOMAIN Content]
    BY <2>1, AcceptedAreFiles DEF Served
  <2> QED BY <1>3, <2>2, <2>3 DEF Store, TypeInv, access
<1>4. ASSUME NEW r \in Reloaders, RegisterLocals(r) PROVE TypeInv'
  <2>1. reload[r] \in [pc : {"loaded", "stored", "done"}, rev : Nat, file : Accepted]
    BY <1>4, ReloadFields DEF RegisterLocals
  <2>2. [reload[r] EXCEPT !.pc = "done"] \in Reloads /\ reload[r].rev \in Nat
    BY <2>1 DEF Reloads
  <2> QED BY <1>4, <2>2 DEF RegisterLocals, TypeInv, access
<1>5. ASSUME NEW server \in registered, EdgeAttaches(server) PROVE TypeInv'
  BY <1>5 DEF EdgeAttaches, TypeInv, access
<1>6. ASSUME NEW k \in Keys, CreateKey(k) PROVE TypeInv'
  BY <1>6 DEF CreateKey, TypeInv, config
<1>7. ASSUME NEW k \in Keys, RotateKey(k) PROVE TypeInv'
  BY <1>7 DEF RotateKey, RotateTo, TypeInv, config
<1>8. CASE RevokeKeys
  BY <1>8 DEF RevokeKeys, TypeInv, config
<1>9. ASSUME NEW q \in Requests, Arrive(q) PROVE TypeInv'
  <2>1. ASSUME NEW kind \in {"hook", "deploy", "task"}, NEW key \in Keys \cup {Foreign},
               NEW instance \in Names \cup {Unset}, NEW payload \in Payloads
        PROVE Arrived(kind, key, instance, payload) \in RequestRecords
    <3> DEFINE dead == {k \in Keys : keys[k] = "revoked"}
    <3>1. dead \in SUBSET Keys /\ returned \in Nat
      BY DEF TypeInv
    <3> DEFINE pc == IF kind = "hook" THEN "arrived" ELSE "known"
    <3>3. pc \in RequestStates
      BY DEF RequestStates
    <3>4. Arrived(kind, key, instance, payload) =
            [pc |-> pc, kind |-> kind, key |-> key, instance |-> instance, payload |-> payload,
             rev |-> 0, file |-> 0, floor |-> returned, dead |-> dead]
      BY DEF Arrived
    <3> HIDE DEF dead, pc
    <3>5. [pc |-> pc, kind |-> kind, key |-> key, instance |-> instance, payload |-> payload,
           rev |-> 0, file |-> 0, floor |-> returned, dead |-> dead] \in RequestRecords
      <4>1. 0 \in DOMAIN Content \cup {0} /\ 0 \in Nat
        OBVIOUS
      <4> QED BY <3>1, <3>3, <4>1 DEF RequestRecords
    <3> QED BY <3>4, <3>5
  <2>2. PICK kind \in {"hook", "deploy", "task"}, key \in Keys \cup {Foreign},
             instance \in Names \cup {Unset}, payload \in Payloads :
          request' = [request EXCEPT ![q] = Arrived(kind, key, instance, payload)]
    BY <1>9 DEF Arrive
  <2> QED BY <1>9, <2>1, <2>2 DEF Arrive, TypeInv, config, access
<1>10. ASSUME NEW q \in Requests, Authenticate(q) PROVE TypeInv'
  <2>1. request[q] \in RequestRecords
    BY <1>10, RequestFields DEF Authenticate
  <2>3. [request[q] EXCEPT !.pc = IF Found(request[q].key) THEN "known" ELSE "refused"] \in RequestRecords
    BY <2>1 DEF RequestRecords, RequestStates
  <2> QED BY <1>10, <2>3 DEF Authenticate, TypeInv, config, access
<1>11. ASSUME NEW q \in Requests, Resolve(q) PROVE TypeInv'
  <2>1. request[q] \in RequestRecords
    BY <1>11, RequestFields DEF Resolve
  <2>2. served.rev \in Nat /\ served.file \in DOMAIN Content
    BY DEF TypeInv
  <2>3. [request[q] EXCEPT !.pc = IF Serves(q) THEN "resolved" ELSE "refused",
                           !.rev = served.rev, !.file = served.file]
          \in RequestRecords
    BY <2>1, <2>2 DEF RequestRecords, RequestStates
  <2> QED BY <1>11, <2>3 DEF Resolve, TypeInv, config, access
<1>12. ASSUME NEW q \in Requests, ReadFails(q) PROVE TypeInv'
  <2>1. request[q] \in RequestRecords
    BY <1>12, RequestFields DEF ReadFails
  <2>3. [request[q] EXCEPT !.pc = "refused"] \in RequestRecords
    BY <2>1 DEF RequestRecords, RequestStates
  <2> QED BY <1>12, <2>3 DEF ReadFails, TypeInv, config, access
<1>13. ASSUME NEW q \in Requests, Submit(q) PROVE TypeInv'
  <2>1. request[q] \in RequestRecords
    BY <1>13, RequestFields DEF Submit
  <2>3. [request[q] EXCEPT !.pc = "accepted"] \in RequestRecords
    BY <2>1 DEF RequestRecords, RequestStates
  <2> QED BY <1>13, <2>3 DEF Submit, TypeInv, config, access
<1>14. ASSUME NEW q \in Requests, NEW k \in DOMAIN ran[q], RunsOnMain(q, k) PROVE TypeInv'
  BY <1>14 DEF RunsOnMain, TypeInv, config, access
<1>15. ASSUME NEW q \in Requests, NEW k \in DOMAIN ran[q], NEW v \in Versions,
              RunsOnEdge(q, k, v)
       PROVE TypeInv'
  BY <1>15 DEF RunsOnEdge, TypeInv, config, access
<1>16. CASE UNCHANGED vars
  BY <1>16 DEF vars, config, access, TypeInv
<1> QED
  BY <1>1, <1>2, <1>3, <1>4, <1>5, <1>6, <1>7, <1>8, <1>9, <1>10, <1>11, <1>12, <1>13, <1>14,
     <1>15, <1>16 DEF Next

-----------------------------------------------------------------------------
(* Only the four actions of the file and of reloads touch what ReloadInv   *)
(* is about.                                                               *)

LEMMA ReloadStep == TypeInv /\ ReloadInv /\ [Next]_vars => ReloadInv'
<1> SUFFICES ASSUME TypeInv, ReloadInv, [Next]_vars PROVE ReloadInv'
  OBVIOUS
<1>1. disk.rev \in Nat /\ served.rev \in Nat /\ returned \in Nat
  BY DEF TypeInv
<1>2. CASE Edit
  <2>1. disk'.rev = 1 /\ disk.rev = 0
    BY <1>2 DEF Edit
  <2>2. \A r \in Reloaders : reload[r].pc = "loaded" => reload[r].rev \in Nat
    BY ReloadFields
  <2> QED BY <1>1, <1>2, <2>1, <2>2 DEF Edit, ReloadInv, UnderWay
<1>3. ASSUME NEW r \in Reloaders, Load(r) PROVE ReloadInv'
  <2>1. reload' = [reload EXCEPT ![r] = IF disk.file \in Accepted
                       THEN [pc |-> "loaded", rev |-> disk.rev, file |-> disk.file]
                       ELSE [pc |-> "failed"]]
    BY <1>3 DEF Load
  <2>2. reload'[r].pc \in {"loaded", "failed"}
        /\ (reload'[r].pc = "loaded" => reload'[r].rev = disk.rev)
    BY <2>1 DEF TypeInv
  <2>3. \A s \in Reloaders \ {r} : reload'[s] = reload[s]
    BY <2>1 DEF TypeInv
  <2>4. ~overlap' => UnderWay = {} /\ ~overlap
    BY <1>3 DEF Load, TypeInv
  <2>5. UNCHANGED <<disk, served, returned>>
    BY <1>3 DEF Load
  <2>6. ~overlap' => UnderWay' \subseteq {r} /\ \A s \in Reloaders : reload'[s].pc # "stored"
    BY <2>2, <2>3, <2>4 DEF UnderWay
  <2> QED BY <1>1, <2>2, <2>3, <2>4, <2>5, <2>6 DEF ReloadInv, UnderWay
<1>4. ASSUME NEW r \in Reloaders, Store(r) PROVE ReloadInv'
  <2>1. reload[r] \in [pc : {"loaded", "stored", "done"}, rev : Nat, file : Accepted]
    BY <1>4, ReloadFields DEF Store
  <2>2. reload'[r].pc = "stored" /\ reload'[r].rev = reload[r].rev
    BY <1>4, <2>1 DEF Store, TypeInv
  <2>3. \A s \in Reloaders \ {r} : reload'[s] = reload[s]
    BY <1>4 DEF Store, TypeInv
  <2>4. served'.rev = reload[r].rev /\ served'.file = reload[r].file
    BY <1>4 DEF Store, Served
  <2>5. UNCHANGED <<disk, returned, overlap>>
    BY <1>4 DEF Store
  <2>6. reload[r].pc = "loaded" /\ UnderWay' = UnderWay /\ r \in UnderWay
    BY <1>4, <2>2, <2>3 DEF UnderWay, Store
  <2>7. ~overlap => \A s \in Reloaders : reload'[s].pc \in {"loaded", "stored"} => s = r
    BY <2>5, <2>6 DEF UnderWay, ReloadInv
  <2>8. reload[r].rev \in Nat /\ reload[r].file \in Accepted /\ reload[r].rev <= disk.rev
    BY <2>1, <2>6 DEF ReloadInv
  <2>9. ~overlap => returned <= reload[r].rev
    BY <1>1, <2>6, <2>8 DEF ReloadInv
  <2>10. \A s \in Reloaders : reload'[s].pc = "loaded" => reload'[s].rev <= disk.rev
    BY <2>2, <2>3 DEF ReloadInv
  <2>11. ~overlap => \A a, b \in UnderWay' : a = b
    BY <2>6 DEF ReloadInv
  <2> QED BY <2>2, <2>4, <2>5, <2>7, <2>8, <2>9, <2>10, <2>11 DEF ReloadInv
<1>5. ASSUME NEW r \in Reloaders, RegisterLocals(r) PROVE ReloadInv'
  <2>1. reload[r] \in [pc : {"loaded", "stored", "done"}, rev : Nat, file : Accepted]
    BY <1>5, ReloadFields DEF RegisterLocals
  <2>2. reload'[r].pc = "done"
    BY <1>5, <2>1 DEF RegisterLocals, TypeInv
  <2>3. \A s \in Reloaders \ {r} : reload'[s] = reload[s]
    BY <1>5 DEF RegisterLocals, TypeInv
  <2>4. UNCHANGED <<disk, served, overlap>> /\ returned' \in {returned, reload[r].rev}
    BY <1>5 DEF RegisterLocals
  <2>5. ~overlap => returned' <= served.rev
    BY <1>5, <2>4 DEF ReloadInv, RegisterLocals
  <2>6. UnderWay' \subseteq UnderWay
    BY <2>2, <2>3 DEF UnderWay
  <2> QED BY <2>2, <2>3, <2>4, <2>5, <2>6 DEF ReloadInv
<1>6. CASE UNCHANGED <<disk, served, reload, returned, overlap>>
  BY <1>6 DEF ReloadInv, UnderWay
<1> QED
  BY <1>2, <1>3, <1>4, <1>5, <1>6
  DEF Next, vars, config, access, EdgeAttaches, CreateKey, RotateKey, RevokeKeys, Arrive,
      Authenticate, Resolve, ReadFails, Submit, RunsOnMain, RunsOnEdge

LEMMA RequestStep == TypeInv /\ ReloadInv /\ RequestInv /\ [Next]_vars => RequestInv'
<1> SUFFICES ASSUME TypeInv, ReloadInv, RequestInv, [Next]_vars PROVE RequestInv'
  OBVIOUS
<1>1. returned \in Nat /\ served.rev \in Nat
  BY DEF TypeInv
<1>2. CASE UNCHANGED <<request, returned, overlap>>
  BY <1>2 DEF RequestInv
<1>3. ASSUME NEW r \in Reloaders, Load(r) PROVE RequestInv'
  BY <1>3 DEF Load, RequestInv
<1>4. ASSUME NEW r \in Reloaders, RegisterLocals(r) PROVE RequestInv'
  <2>1. reload[r].rev \in Nat
    BY <1>4, ReloadFields DEF RegisterLocals
  <2>2. returned <= returned'
    BY <1>1, <1>4, <2>1 DEF RegisterLocals
  <2>3. UNCHANGED <<request, overlap>> /\ returned' \in Nat
    BY <1>1, <1>4, <2>1 DEF RegisterLocals
  <2>4. \A q \in Requests : request[q].pc # "none" => request[q].floor \in Nat
    BY RequestFields DEF RequestRecords
  <2>5. \A q \in Requests : request[q].pc # "none" => request[q].floor <= returned'
    BY <1>1, <2>2, <2>3, <2>4 DEF RequestInv
  <2> QED BY <2>3, <2>5 DEF RequestInv
<1>5. ASSUME NEW q \in Requests, Arrive(q) PROVE RequestInv'
  <2>1. PICK kind \in {"hook", "deploy", "task"}, key \in Keys \cup {Foreign},
             instance \in Names \cup {Unset}, payload \in Payloads :
          request' = [request EXCEPT ![q] = Arrived(kind, key, instance, payload)]
    BY <1>5 DEF Arrive
  <2> DEFINE dead == {k \in Keys : keys[k] = "revoked"}
             pc == IF kind = "hook" THEN "arrived" ELSE "known"
  <2>2. request'[q] = [pc |-> pc, kind |-> kind, key |-> key, instance |-> instance,
                       payload |-> payload, rev |-> 0, file |-> 0, floor |-> returned,
                       dead |-> dead]
    BY <2>1 DEF TypeInv, Arrived
  <2>3. pc \in {"arrived", "known"}
    OBVIOUS
  <2> HIDE DEF dead, pc
  <2>6. request'[q].pc = pc /\ request'[q].floor = returned
    BY <2>2
  <2>4. \A p \in Requests \ {q} : request'[p] = request[p]
    BY <2>1 DEF TypeInv
  <2>5. UNCHANGED <<returned, overlap>>
    BY <1>5 DEF Arrive, config
  <2>7. request'[q].pc \notin {"resolved", "accepted"}
    BY <2>3, <2>6
  <2>8. request'[q].floor <= returned'
    BY <1>1, <2>5, <2>6
  <2> QED BY <2>4, <2>5, <2>7, <2>8 DEF RequestInv
<1>6. ASSUME NEW q \in Requests, Resolve(q) PROVE RequestInv'
  <2>1. request[q] \in RequestRecords
    BY <1>6, RequestFields DEF Resolve
  <2>2. request'[q] = [request[q] EXCEPT !.pc = IF Serves(q) THEN "resolved" ELSE "refused",
                                          !.rev = served.rev, !.file = served.file]
    BY <1>6 DEF Resolve, TypeInv
  <2>3. request'[q].floor = request[q].floor /\ request'[q].rev = served.rev
        /\ request'[q].file = served.file
    BY <2>1, <2>2 DEF RequestRecords
  <2>4. \A p \in Requests \ {q} : request'[p] = request[p]
    BY <1>6 DEF Resolve, TypeInv
  <2>5. UNCHANGED <<returned, overlap>>
    BY <1>6 DEF Resolve, config
  <2>6. request[q].floor \in Nat /\ request[q].floor <= returned
    BY <1>6, <2>1 DEF RequestInv, RequestRecords, Resolve
  <2>7. overlap \/ request[q].floor <= served.rev
    BY <1>1, <2>6 DEF ReloadInv
  <2>8. served.file \in Accepted
    BY DEF ReloadInv
  <2> QED BY <2>3, <2>4, <2>5, <2>6, <2>7, <2>8 DEF RequestInv
<1>7. ASSUME NEW q \in Requests, NEW to \in {"known", "refused", "accepted"},
             request' = [request EXCEPT ![q].pc = to], UNCHANGED <<returned, overlap>>,
             request[q].pc # "none",
             to = "accepted" => request[q].pc = "resolved"
      PROVE RequestInv'
  <2>1. request[q] \in RequestRecords
    BY <1>7, RequestFields
  <2>2. request'[q] = [request[q] EXCEPT !.pc = to]
    BY <1>7 DEF TypeInv
  <2>3. /\ request'[q].floor = request[q].floor /\ request'[q].rev = request[q].rev
        /\ request'[q].file = request[q].file /\ request'[q].pc = to
    BY <2>1, <2>2 DEF RequestRecords
  <2>4. \A p \in Requests \ {q} : request'[p] = request[p]
    BY <1>7 DEF TypeInv
  <2> QED BY <1>7, <2>3, <2>4 DEF RequestInv
<1>8. ASSUME NEW q \in Requests, Authenticate(q) PROVE RequestInv'
  BY <1>7, <1>8 DEF Authenticate, config
<1>9. ASSUME NEW q \in Requests, ReadFails(q) PROVE RequestInv'
  BY <1>7, <1>9 DEF ReadFails, config
<1>10. ASSUME NEW q \in Requests, Submit(q) PROVE RequestInv'
  BY <1>7, <1>10 DEF Submit, config
<1> QED
  BY <1>2, <1>3, <1>4, <1>5, <1>6, <1>8, <1>9, <1>10
  DEF Next, vars, config, access, Edit, Store, EdgeAttaches, CreateKey, RotateKey, RevokeKeys,
      RunsOnMain, RunsOnEdge

-----------------------------------------------------------------------------
(* A revoked row stays revoked, whichever command runs.                    *)

LEMMA RevokedStaysSo ==
  ASSUME TypeInv, [Next]_vars, NEW k \in Keys, keys[k] = "revoked"
  PROVE keys'[k] = "revoked"
<1>1. ASSUME NEW m \in Keys, CreateKey(m) PROVE keys'[k] = "revoked"
  BY <1>1 DEF CreateKey, Fresh, TypeInv
<1>2. ASSUME NEW m \in Keys, RotateKey(m) PROVE keys'[k] = "revoked"
  <2>1. k # m /\ k \notin Active
    BY <1>2 DEF RotateKey, Fresh, Active
  <2> QED BY <1>2, <2>1 DEF RotateKey, RotateTo
<1>3. CASE RevokeKeys
  BY <1>3 DEF RevokeKeys
<1>4. CASE UNCHANGED keys
  BY <1>4
<1> QED
  BY <1>1, <1>2, <1>3, <1>4
  DEF Next, vars, access, Edit, Load, Store, RegisterLocals, EdgeAttaches, Arrive, Authenticate,
      Resolve, ReadFails, Submit, RunsOnMain, RunsOnEdge

LEMMA RotatedStep ==
  ASSUME TypeInv, KeyInv, [Next]_vars
  PROVE (rotated # 0 => Active = {rotated})'
<1>1. ASSUME NEW k \in Keys, CreateKey(k) PROVE (rotated # 0 => Active = {rotated})'
  BY <1>1 DEF CreateKey
<1>2. ASSUME NEW k \in Keys, RotateKey(k) PROVE (rotated # 0 => Active = {rotated})'
  <2>1. keys' = RotateTo(k) /\ rotated' = k
    BY <1>2 DEF RotateKey
  <2>2. \A m \in Keys : keys'[m] = "active" <=> m = k
    BY <2>1 DEF RotateTo, Active
  <2> QED BY <2>1, <2>2 DEF Active
<1>3. CASE RevokeKeys
  BY <1>3 DEF RevokeKeys
<1>4. CASE UNCHANGED access
  BY <1>4 DEF access, KeyInv, Active
<1> QED
  BY <1>1, <1>2, <1>3, <1>4
  DEF Next, vars, Edit, Load, Store, RegisterLocals, EdgeAttaches, Arrive, Authenticate,
      Resolve, ReadFails, Submit, RunsOnMain, RunsOnEdge

LEMMA KeyStep == TypeInv /\ KeyInv /\ [Next]_vars => KeyInv'
<1> SUFFICES ASSUME TypeInv, KeyInv, [Next]_vars PROVE KeyInv'
  OBVIOUS
<1> DEFINE Rest(q) ==
      /\ request[q].pc # "none" => \A k \in request[q].dead : keys[k] = "revoked"
      /\ request[q].pc \in {"known", "resolved", "accepted"} /\ request[q].kind = "hook" =>
           request[q].key \notin request[q].dead
      /\ request[q].pc \in {"resolved", "accepted"} /\ request[q].kind = "hook" =>
           request[q].key # Foreign
<1>1. (rotated # 0 => Active = {rotated})'
  BY RotatedStep
<1>2. ASSUME NEW q \in Requests, request'[q] = request[q] PROVE Rest(q)'
  <2>1. CASE request[q].pc = "none"
    BY <1>2, <2>1
  <2>2. CASE request[q].pc # "none"
    <3>1. request[q].dead \subseteq Keys
      BY <2>2, RequestFields DEF RequestRecords
    <3>2. \A k \in request[q].dead : keys'[k] = "revoked"
      BY <2>2, <3>1, RevokedStaysSo DEF KeyInv
    <3> QED BY <1>2, <3>2 DEF KeyInv
  <2> QED BY <2>1, <2>2
<1>3. ASSUME NEW q \in Requests, Arrive(q) PROVE Rest(q)'
  <2>1. PICK kind \in {"hook", "deploy", "task"}, key \in Keys \cup {Foreign},
             instance \in Names \cup {Unset}, payload \in Payloads :
          request' = [request EXCEPT ![q] = Arrived(kind, key, instance, payload)]
    BY <1>3 DEF Arrive
  <2> DEFINE dead == {k \in Keys : keys[k] = "revoked"}
             pc == IF kind = "hook" THEN "arrived" ELSE "known"
  <2>2. request'[q] = [pc |-> pc, kind |-> kind, key |-> key, instance |-> instance,
                       payload |-> payload, rev |-> 0, file |-> 0, floor |-> returned,
                       dead |-> dead]
    BY <2>1 DEF TypeInv, Arrived
  <2>3. pc \in {"arrived", "known"} /\ (pc = "known" => kind # "hook")
    OBVIOUS
  <2>4. \A k \in dead : keys[k] = "revoked"
    OBVIOUS
  <2>5. UNCHANGED keys
    BY <1>3 DEF Arrive, access
  <2> HIDE DEF dead, pc
  <2>6. request'[q].pc = pc /\ request'[q].kind = kind /\ request'[q].dead = dead
    BY <2>2
  <2> QED BY <2>3, <2>4, <2>5, <2>6
<1>4. ASSUME NEW q \in Requests, Authenticate(q) PROVE Rest(q)'
  <2>1. request[q] \in RequestRecords
    BY <1>4, RequestFields DEF Authenticate
  <2> DEFINE to == IF Found(request[q].key) THEN "known" ELSE "refused"
  <2>2. request'[q] = [request[q] EXCEPT !.pc = to]
    BY <1>4 DEF Authenticate, TypeInv
  <2>3. to \in {"known", "refused"} /\ (to = "known" => Found(request[q].key))
    OBVIOUS
  <2>4. UNCHANGED keys
    BY <1>4 DEF Authenticate, access
  <2> HIDE DEF to
  <2>5. /\ request'[q].pc = to /\ request'[q].kind = request[q].kind
        /\ request'[q].dead = request[q].dead /\ request'[q].key = request[q].key
    BY <2>1, <2>2 DEF RequestRecords
  <2>6. \A k \in request[q].dead : keys[k] = "revoked"
    BY <1>4 DEF Authenticate, KeyInv
  <2>7. request[q].dead \subseteq Keys
    BY <2>1 DEF RequestRecords
  <2>8. to = "known" => request[q].key \notin request[q].dead
    BY <2>3, <2>6, <2>7, IngressAssumption DEF Found
  <2> QED BY <2>3, <2>4, <2>5, <2>6, <2>8
<1>5. ASSUME NEW q \in Requests, Resolve(q) PROVE Rest(q)'
  <2>1. request[q] \in RequestRecords
    BY <1>5, RequestFields DEF Resolve
  <2> DEFINE to == IF Serves(q) THEN "resolved" ELSE "refused"
  <2>2. request'[q] = [request[q] EXCEPT !.pc = to, !.rev = served.rev, !.file = served.file]
    BY <1>5 DEF Resolve, TypeInv
  <2>3. to \in {"resolved", "refused"}
        /\ (to = "resolved" /\ request[q].kind = "hook" => request[q].key # Foreign)
    BY DEF Serves
  <2>4. UNCHANGED keys
    BY <1>5 DEF Resolve, access
  <2> HIDE DEF to
  <2>5. /\ request'[q].pc = to /\ request'[q].kind = request[q].kind
        /\ request'[q].dead = request[q].dead /\ request'[q].key = request[q].key
    BY <2>1, <2>2 DEF RequestRecords
  <2> QED BY <1>5, <2>3, <2>4, <2>5 DEF Resolve, KeyInv
<1>6. ASSUME NEW q \in Requests, NEW to \in {"refused", "accepted"},
             request' = [request EXCEPT ![q].pc = to], UNCHANGED keys,
             request[q].pc = "resolved"
      PROVE Rest(q)'
  <2>1. request[q] \in RequestRecords
    BY <1>6, RequestFields
  <2>2. request'[q] = [request[q] EXCEPT !.pc = to]
    BY <1>6 DEF TypeInv
  <2>3. /\ request'[q].pc = to /\ request'[q].kind = request[q].kind
        /\ request'[q].dead = request[q].dead /\ request'[q].key = request[q].key
    BY <2>1, <2>2 DEF RequestRecords
  <2> QED BY <1>6, <2>3 DEF KeyInv
<1>7. ASSUME NEW q \in Requests, ReadFails(q) \/ Submit(q) PROVE Rest(q)'
  BY <1>6, <1>7 DEF ReadFails, Submit, access
<1>8. ASSUME NEW q \in Requests,
             Arrive(q) \/ Authenticate(q) \/ Resolve(q) \/ ReadFails(q) \/ Submit(q)
      PROVE \A p \in Requests \ {q} : request'[p] = request[p]
  BY <1>8 DEF Arrive, Authenticate, Resolve, ReadFails, Submit, TypeInv
<1>9. CASE UNCHANGED request
  BY <1>1, <1>2, <1>9 DEF KeyInv
<1>10. ASSUME NEW q \in Requests,
              Arrive(q) \/ Authenticate(q) \/ Resolve(q) \/ ReadFails(q) \/ Submit(q)
       PROVE KeyInv'
  <2>1. \A p \in Requests : Rest(p)'
    BY <1>2, <1>3, <1>4, <1>5, <1>7, <1>8, <1>10
  <2> QED BY <1>1, <2>1 DEF KeyInv
<1> QED
  BY <1>9, <1>10
  DEF Next, vars, config, access, Edit, Load, Store, RegisterLocals, EdgeAttaches, CreateKey,
      RotateKey, RevokeKeys, RunsOnMain, RunsOnEdge

-----------------------------------------------------------------------------
(* The schema, part by part.                                               *)

LEMMA StepsAreLooser ==
  ASSUME NEW raws, PipelineParses(raws), raws # <<>>
  PROVE PipelineMatches(raws)
<1>1. ASSUME NEW raw, StepAccepted(raw) PROVE StepMatches(raw)
  BY <1>1 DEF StepAccepted, StepMatches, Known, Complete, ArgsMatch, OnMatches, MayRetry
<1> QED BY <1>1 DEF PipelineParses, PipelineMatches

LEMMA NotifyIsLooser ==
  ASSUME NEW f, NotifyAccepted(f.notify), OverrideAccepted(f.service)
  PROVE NotifyMatches(f.notify) /\ OverrideMatches(f.service)
  BY DEF NotifyAccepted, OverrideAccepted, NotifyMatches, OverrideMatches, KindEnum

\* Every instance names its server, and the short form has its dir.
LEMMA TargetsAreWritten ==
  ASSUME NEW raw, NEW servers, TargetsAccepted(raw, servers),
         raw.instances \in Seq([name : STRING, server : STRING, dir : STRING])
  PROVE /\ \A k \in DOMAIN raw.instances : raw.instances[k].server # Unset
        /\ Sugar(raw) => raw.dir # Unset /\ raw.instances = <<>>
        /\ ~Sugar(raw) => raw.instances # <<>>
<1>1. CASE Sugar(raw)
  <2>1. raw.instances = <<>>
    BY <1>1 DEF TargetsAccepted
  <2>2. InstancesOf(raw) = <<[name |-> raw.name, server |-> raw.server, dir |-> raw.dir]>>
    BY <1>1 DEF InstancesOf
  <2>3. [name |-> raw.name, server |-> raw.server, dir |-> raw.dir] \in Elements(InstancesOf(raw))
    <3>1. 1 \in DOMAIN InstancesOf(raw)
          /\ InstancesOf(raw)[1] = [name |-> raw.name, server |-> raw.server, dir |-> raw.dir]
      BY <2>2
    <3> QED BY <3>1, Zenon DEF Elements
  <2>4. raw.dir # Unset
    BY <2>3 DEF TargetsAccepted
  <2> QED BY <1>1, <2>1, <2>4
<1>2. CASE ~Sugar(raw)
  <2>1. raw.instances # <<>>
    <3>1. (raw.server # Unset) = FALSE
      BY <1>2 DEF Sugar
    <3>2. (raw.server # Unset) # (raw.instances # <<>>)
      BY Zenon DEF TargetsAccepted, Sugar
    <3> QED BY <3>1, <3>2
  <2>2. ASSUME NEW k \in DOMAIN raw.instances PROVE raw.instances[k].server # Unset
    <3> DEFINE i == [raw.instances[k] EXCEPT !.dir = IF @ = Unset THEN raw.dir ELSE @]
    <3>1. raw.instances[k] \in [name : STRING, server : STRING, dir : STRING]
      <4> DEFINE Instance == [name : STRING, server : STRING, dir : STRING]
      <4> HIDE DEF Instance
      <4>1. \A s \in Seq(Instance) : \A m \in DOMAIN s : s[m] \in Instance
        OBVIOUS
      <4>2. raw.instances \in Seq(Instance)
        BY DEF Instance
      <4>3. raw.instances[k] \in Instance
        BY <2>2, <4>1, <4>2
      <4> QED BY <4>3 DEF Instance
    <3>2. i.server = raw.instances[k].server
      BY <3>1
    <3>3. InstancesOf(raw) =
            [m \in DOMAIN raw.instances |->
               [raw.instances[m] EXCEPT !.dir = IF @ = Unset THEN raw.dir ELSE @]]
      BY <1>2 DEF InstancesOf
    <3>4. k \in DOMAIN InstancesOf(raw) /\ InstancesOf(raw)[k] = i
      BY <3>3, Zenon
    <3>5. i \in Elements(InstancesOf(raw))
      BY <3>4, Zenon DEF Elements
    <3>6. i.server # Unset
      BY <3>5, Zenon DEF TargetsAccepted
    <3> QED BY <3>2, <3>6
  <2> QED BY <1>2, <2>1, <2>2
<1> QED BY <1>1, <1>2

LEMMA SchemaIsLooser ==
  ASSUME NEW f, FileAccepted(f), Plain(f), f.service.repo \in {Unset, "pair", "broken", "else"},
         f.service.instances \in Seq([name : STRING, server : STRING, dir : STRING])
  PROVE FileMatches(f)
<1> DEFINE raw == f.service
<1>1. ServiceAccepted(raw, f.servers) /\ NotifyAccepted(f.notify) /\ ~f.odd
  BY DEF FileAccepted, Decodes
<1>2. NotifyMatches(f.notify) /\ OverrideMatches(raw)
  BY <1>1, NotifyIsLooser DEF ServiceAccepted
<1>3. PipelineMatches(raw.deploy)
  BY <1>1, StepsAreLooser DEF ServiceAccepted
<1>4. ASSUME NEW task \in raw.task PROVE PipelineMatches(task)
  <2>1. PipelineParses(task) /\ task # <<>>
    BY <1>1, <1>4 DEF ServiceAccepted, Plain
  <2> QED BY <2>1, StepsAreLooser
<1>5. /\ \A k \in DOMAIN raw.instances : raw.instances[k].server # Unset
      /\ Sugar(raw) => raw.dir # Unset /\ raw.instances = <<>>
      /\ ~Sugar(raw) => raw.instances # <<>>
  BY <1>1, TargetsAreWritten DEF ServiceAccepted
<1>6. raw.blank = {} /\ \A w \in DOMAIN raw.rollout : raw.rollout[w] # <<>>
  BY DEF Plain
<1>7. WritesRollout(raw) => ~Sugar(raw)
  BY <1>1, <1>6 DEF WritesRollout, ServiceAccepted, RolloutAccepted
<1>8. RepoMatches(raw)
  BY <1>1, <1>6 DEF RepoMatches, ServiceAccepted, RepoAccepted, Plain
<1>9. ServiceMatches(raw)
  BY <1>2, <1>3, <1>4, <1>5, <1>6, <1>7, <1>8
  DEF ServiceMatches, WritesInstances, Sugar
<1> QED BY <1>1, <1>2, <1>9 DEF FileMatches, Plain

-----------------------------------------------------------------------------
(* The invariant of the specification, and what follows from it.           *)

IngressInv == TypeInv /\ ReloadInv /\ RequestInv /\ KeyInv

LEMMA IngressInvHolds == Spec => []IngressInv
<1>1. Init => IngressInv
  BY InitInv DEF IngressInv
<1>2. IngressInv /\ [Next]_vars => IngressInv'
  BY TypeStep, ReloadStep, RequestStep, KeyStep DEF IngressInv
<1> QED BY <1>1, <1>2, PTL DEF Spec

(* A deploy that is requested after a reload said ok is built from that    *)
(* file or a newer one, unless reloads overlapped (cmd_main.go:85-103,     *)
(* webhook.go:30-56), however many reloads and requests there are.         *)
THEOREM ReloadTakesHold == Spec => []ServesTheFile
<1>1. IngressInv => ServesTheFile
  <2> SUFFICES ASSUME IngressInv, NEW q \in Requests, request[q].pc = "accepted"
               PROVE request[q].file \in Accepted
                     /\ (overlap \/ request[q].rev >= request[q].floor)
    BY DEF ServesTheFile
  <2>1. request[q].rev \in Nat /\ request[q].floor \in Nat
    BY RequestFields DEF IngressInv, RequestRecords
  <2> QED BY <2>1 DEF IngressInv, RequestInv
<1> QED BY <1>1, IngressInvHolds, PTL

(* A token that was revoked before a request arrived lets it do nothing,   *)
(* and after a rotation the new token is the only one (store/tokens.go,    *)
(* httpapi/webhook.go:30), for any tokens in any order of commands.        *)
THEOREM RevokedOpensNothing == Spec => []OnlyLiveKeys
<1>1. IngressInv => OnlyLiveKeys
  BY DEF IngressInv, KeyInv, OnlyLiveKeys
<1> QED BY <1>1, IngressInvHolds, PTL

(* The published schema flags nothing that main would load, of whatever    *)
(* files (schema.go:53 beside config.go:288), as long as nothing in them   *)
(* is written empty and no number stands for a string.                     *)
THEOREM EditorsAgree == Spec => []EditorAgrees
<1>1. IngressInv => EditorAgrees
  <2> SUFFICES ASSUME NEW f \in Accepted, Plain(Content[f])
               PROVE FileMatches(Content[f])
    BY DEF EditorAgrees, Flagged
  <2>1. f \in DOMAIN Content /\ FileAccepted(Content[f])
    BY DEF Accepted
  <2> QED BY <2>1, SchemaIsLooser, IngressAssumption DEF IsService
<1> QED BY <1>1, IngressInvHolds, PTL

-----------------------------------------------------------------------------
(* Positions in order                                                       *)

\* Every set of naturals that has a member has a least one.
LEMMA Least ==
  ASSUME NEW S \in SUBSET Nat, S # {} PROVE \E x \in S : \A y \in S : x <= y
<1> DEFINE R == OpToRel(<, Nat)
<1>1. PICK x \in S : \A y \in S : ~(<<y, x>> \in R)
  BY NatLessThanWellFounded, WFMin
<1>2. ASSUME NEW y \in S, ~(x <= y) PROVE <<y, x>> \in R
  <2>1. x \in Nat /\ y \in Nat /\ y < x BY <1>2
  <2>2. QED BY <2>1 DEF OpToRel
<1>3. QED BY <1>1, <1>2

\* The members of S below k: a member of InOrder(S) is at the place they leave it.
Below(S, k) == {m \in S : m < k}

LEMMA BelowIsFinite ==
  ASSUME NEW n \in Nat, NEW S, \A m \in S : m \in Nat /\ 1 <= m /\ m <= n, NEW k \in Int
  PROVE  IsFiniteSet(S) /\ IsFiniteSet(Below(S, k)) /\ Cardinality(Below(S, k)) \in Nat
         /\ Cardinality(S) \in Nat
<1>1. IsFiniteSet(1..n) BY FS_Interval
<1>2. S \in SUBSET (1..n) /\ IsFiniteSet(S) BY <1>1, FS_Subset
<1>3. Below(S, k) \in SUBSET S BY DEF Below
<1>4. QED BY <1>2, <1>3, FS_Subset, FS_CardinalityType

\* There is a member with as many below it as there may be.
LEMMA Ranked ==
  ASSUME NEW n \in Nat, NEW S, \A m \in S : m \in Nat /\ 1 <= m /\ m <= n, NEW j \in 1..Cardinality(S)
  PROVE  \E k \in S : Cardinality(Below(S, k)) = j - 1
<1> DEFINE Reach == {k \in Nat : Cardinality(Below(S, k + 1)) >= j}
<1>1. j \in Nat /\ j >= 1 /\ j <= Cardinality(S) BY BelowIsFinite
<1>2. n \in Reach
  <2>1. Below(S, n + 1) = S BY DEF Below
  <2>2. QED BY <1>1, <2>1
<1>3. PICK k \in Reach : \A y \in Reach : k <= y BY <1>2, Least
<1>4. k \in Nat /\ Cardinality(Below(S, k + 1)) >= j OBVIOUS
<1> Cardinality(Below(S, k)) \in Nat /\ IsFiniteSet(Below(S, k)) BY <1>4, BelowIsFinite
<1>5. k >= 1
  <2>1. SUFFICES ASSUME k = 0 PROVE FALSE BY <1>4
  <2>2. Below(S, k + 1) = {} BY <2>1 DEF Below
  <2>3. QED BY <1>1, <1>4, <2>2, FS_EmptySet
<1>6. Cardinality(Below(S, k)) < j
  <2>1. k - 1 \in Nat /\ k - 1 \notin Reach BY <1>3, <1>4, <1>5
  <2>2. k - 1 + 1 = k BY <1>4
  <2>3. QED BY <1>1, <2>1, <2>2
<1>7. Below(S, k + 1) = IF k \in S THEN Below(S, k) \cup {k} ELSE Below(S, k) BY <1>4 DEF Below
<1>8. k \in S BY <1>1, <1>4, <1>6, <1>7
<1>9. Cardinality(Below(S, k + 1)) = Cardinality(Below(S, k)) + 1
  <2>1. k \notin Below(S, k) BY <1>4 DEF Below
  <2>2. QED BY <1>7, <1>8, <2>1, FS_AddElement
<1>10. QED BY <1>1, <1>4, <1>6, <1>8, <1>9

\* InOrder is defined at every place, ...
LEMMA InOrderDomain ==
  ASSUME NEW n \in Nat, NEW S, \A m \in S : m \in Nat /\ 1 <= m /\ m <= n
  PROVE  /\ DOMAIN InOrder(S) = 1..Cardinality(S)
         /\ \A j \in DOMAIN InOrder(S) :
              InOrder(S)[j] \in S /\ Cardinality(Below(S, InOrder(S)[j])) = j - 1
<1>1. DOMAIN InOrder(S) = 1..Cardinality(S) BY DEF InOrder
<1>2. ASSUME NEW j \in 1..Cardinality(S)
      PROVE  InOrder(S)[j] \in S /\ Cardinality(Below(S, InOrder(S)[j])) = j - 1
  <2>1. InOrder(S)[j] = CHOOSE k \in S : Cardinality(Below(S, k)) = j - 1 BY DEF InOrder, Below
  <2>2. QED BY <2>1, Ranked
<1>3. QED BY <1>1, <1>2

\* What is in order grows, ...
LEMMA InOrderGrows ==
  ASSUME NEW n \in Nat, NEW S, \A m \in S : m \in Nat /\ 1 <= m /\ m <= n,
         NEW i \in DOMAIN InOrder(S), NEW j \in DOMAIN InOrder(S), i < j
  PROVE  InOrder(S)[i] < InOrder(S)[j]
<1> Cardinality(S) \in Nat BY BelowIsFinite
<1> DEFINE a == InOrder(S)[i]
           b == InOrder(S)[j]
<1>0. DOMAIN InOrder(S) = 1..Cardinality(S) BY InOrderDomain
<1>1. /\ a \in S /\ Cardinality(Below(S, a)) = i - 1 /\ b \in S
      /\ Cardinality(Below(S, b)) = j - 1 /\ i \in Nat /\ j \in Nat
  BY <1>0, InOrderDomain
<1> HIDE DEF a, b
<1>2. SUFFICES ASSUME b <= a PROVE FALSE BY <1>1 DEF a, b
<1>3. Below(S, b) \in SUBSET Below(S, a) BY <1>1, <1>2 DEF Below
<1>4. Cardinality(Below(S, b)) <= Cardinality(Below(S, a))
  <2>1. IsFiniteSet(Below(S, a)) BY <1>1, BelowIsFinite
  <2>2. QED BY <1>3, <2>1, FS_Subset
<1>5. QED BY <1>1, <1>4

\* ... and leaves nothing out.
LEMMA InOrderHasAll ==
  ASSUME NEW n \in Nat, NEW S, \A m \in S : m \in Nat /\ 1 <= m /\ m <= n, NEW k \in S
  PROVE  \E j \in DOMAIN InOrder(S) : InOrder(S)[j] = k
<1> Cardinality(S) \in Nat BY BelowIsFinite
<1> DEFINE j == Cardinality(Below(S, k)) + 1
<1>1. /\ k \in Int /\ Cardinality(Below(S, k)) \in Nat
      /\ IsFiniteSet(S) /\ IsFiniteSet(Below(S, k))
  BY BelowIsFinite
<1>2. j \in 1..Cardinality(S)
  <2>1. Below(S, k) \in SUBSET S /\ Below(S, k) # S BY <1>1 DEF Below
  <2>2. Cardinality(Below(S, k)) <= Cardinality(S) /\ Cardinality(Below(S, k)) # Cardinality(S)
    BY <1>1, <2>1, FS_Subset
  <2>3. QED BY <1>1, <2>2
<1>3. DEFINE a == InOrder(S)[j]
<1>4. a \in S /\ Cardinality(Below(S, a)) = j - 1 /\ j \in DOMAIN InOrder(S) BY <1>2, InOrderDomain
<1> HIDE DEF a
<1>5. Cardinality(Below(S, a)) = Cardinality(Below(S, k)) BY <1>1, <1>4
<1>6. IsFiniteSet(Below(S, a)) /\ a \in Nat BY <1>4, BelowIsFinite
<1>7. Below(S, a) = Below(S, k)
  <2>1. CASE a <= k
    <3>1. Below(S, a) \in SUBSET Below(S, k) BY <1>6, <2>1 DEF Below
    <3>2. QED BY <1>1, <1>5, <3>1, FS_Subset
  <2>2. CASE k <= a
    <3>1. Below(S, k) \in SUBSET Below(S, a) BY <1>6, <2>2 DEF Below
    <3>2. QED BY <1>5, <1>6, <3>1, FS_Subset
  <2>3. QED BY <1>1, <1>6, <2>1, <2>2
<1>8. ~(a < k) /\ ~(k < a) BY <1>4, <1>6, <1>7 DEF Below
<1>9. QED BY <1>1, <1>4, <1>6, <1>8 DEF a

-----------------------------------------------------------------------------
(* What becomes of a step on its way                                        *)

(* Final is the step the snapshot holds, Sent what an engine reads of it:   *)
(* parsed, copied, filled in, written as JSON and read again (ops.go,       *)
(* modifiers.go, scheduler/build.go).                                       *)
Final(raw, payload) == [Copy(Parsed(raw)) EXCEPT !.text = Filled(Parsed(raw), payload)]
Sent(raw, payload) == Unmarshal(Marshal(Final(raw, payload)))

\* A default that is written out is read as itself.
LEMMA PollsOnce ==
  ASSUME NEW op, NEW n PROVE PollsOf(op, PollsOf(op, n)) = PollsOf(op, n)
  BY DEF PollsOf, DefaultPolls

\* JSON keeps all of a step but the instances it is for.
LEMMA SentBack ==
  ASSUME NEW op, NEW text, NEW n, NEW on, NEW timeout, NEW retries
  PROVE  LET s == [op |-> op, text |-> text, polls |-> PollsOf(op, n), on |-> on,
                   timeout |-> timeout, retries |-> retries]
         IN Unmarshal(Marshal(s)) =
              [op |-> op, text |-> text, polls |-> PollsOf(op, n), on |-> {},
               timeout |-> timeout, retries |-> retries]
<1> DEFINE polls == PollsOf(op, n)
           s == [op |-> op, text |-> text, polls |-> polls, on |-> on,
                 timeout |-> timeout, retries |-> retries]
           back == IF {timeout} \ {0} = {} THEN 0 ELSE CHOOSE t \in {timeout} \ {0} : TRUE
<1>1. PollsOf(op, polls) = polls BY PollsOnce
<1>2. back = timeout OBVIOUS
<1> HIDE DEF polls, back
<1>3. Marshal(s) = [op |-> op, text |-> text, polls |-> polls, timeout |-> {timeout} \ {0},
                    retries |-> retries]
  BY DEF Marshal, RetriesField
<1>4. Unmarshal(Marshal(s)) = [op |-> op, text |-> text, polls |-> polls, on |-> {},
                               timeout |-> back, retries |-> retries]
  BY <1>1, <1>3 DEF Unmarshal, back
<1>5. QED BY <1>2, <1>4 DEF polls

PollsIn(raw) == IF raw.args = {} THEN 0 ELSE (CHOOSE a \in raw.args : TRUE).polls

\* The fields of a step as it is parsed, as the snapshot holds it and as it is read.
LEMMA ParsedIs ==
  ASSUME NEW raw
  PROVE  Parsed(raw) = [op |-> raw.op, text |-> Parsed(raw).text, polls |-> PollsOf(raw.op, PollsIn(raw)),
                        on |-> UNION raw.on, timeout |-> Parsed(raw).timeout, retries |-> raw.retries]
  BY DEF Parsed, PollsIn

LEMMA FinalIs ==
  ASSUME NEW raw, NEW payload
  PROVE  Final(raw, payload) =
           [op |-> raw.op, text |-> Filled(Parsed(raw), payload),
            polls |-> PollsOf(raw.op, PollsIn(raw)), on |-> UNION raw.on,
            timeout |-> Parsed(raw).timeout, retries |-> raw.retries]
<1> DEFINE s == Parsed(raw)
           n == PollsIn(raw)
           op == raw.op
<1>1. s = [op |-> op, text |-> s.text, polls |-> PollsOf(op, n), on |-> UNION raw.on,
           timeout |-> s.timeout, retries |-> raw.retries]
  BY ParsedIs
<1>2. PICK text, timeout, on, retries :
        text = s.text /\ timeout = s.timeout /\ on = UNION raw.on /\ retries = raw.retries
  OBVIOUS
<1> HIDE DEF s, n, op
<1>3. s = [op |-> op, text |-> text, polls |-> PollsOf(op, n), on |-> on,
           timeout |-> timeout, retries |-> retries]
  BY <1>1, <1>2
<1>4. Unmarshal(Marshal(s)) = [op |-> op, text |-> text, polls |-> PollsOf(op, n), on |-> {},
                               timeout |-> timeout, retries |-> retries]
  BY <1>3, SentBack
<1>5. Copy(s) = s BY <1>3, <1>4 DEF Copy
<1>6. [s EXCEPT !.text = Filled(s, payload)] =
        [op |-> op, text |-> Filled(s, payload), polls |-> PollsOf(op, n), on |-> on,
         timeout |-> timeout, retries |-> retries]
  BY <1>3
<1>7. Final(raw, payload) = [s EXCEPT !.text = Filled(s, payload)] BY <1>5 DEF Final, s
<1>8. QED BY <1>2, <1>6, <1>7 DEF s, n, op

LEMMA SentIs ==
  ASSUME NEW raw, NEW payload
  PROVE  Sent(raw, payload) =
           [op |-> raw.op, text |-> Filled(Parsed(raw), payload),
            polls |-> PollsOf(raw.op, PollsIn(raw)), on |-> {},
            timeout |-> Parsed(raw).timeout, retries |-> raw.retries]
<1>1. PICK op, text, n, on, timeout, retries :
        /\ op = raw.op /\ text = Filled(Parsed(raw), payload) /\ n = PollsIn(raw)
        /\ on = UNION raw.on /\ timeout = Parsed(raw).timeout /\ retries = raw.retries
  OBVIOUS
<1>2. Final(raw, payload) = [op |-> op, text |-> text, polls |-> PollsOf(op, n), on |-> on,
                             timeout |-> timeout, retries |-> retries]
  BY <1>1, FinalIs
<1>3. Unmarshal(Marshal(Final(raw, payload))) =
        [op |-> op, text |-> text, polls |-> PollsOf(op, n), on |-> {},
         timeout |-> timeout, retries |-> retries]
  BY <1>2, SentBack
<1>4. QED BY <1>1, <1>3 DEF Sent

\* Integers that fit wrap to themselves.
LEMMA WrapFits ==
  ASSUME NEW x \in Int, 0 <= x, x <= MaxInt PROVE Wrap(x) = x
<1> MaxInt \in Nat BY OpsAssumption
<1> DEFINE m == 2 * (MaxInt + 1)
           y == x + MaxInt + 1
<1>1. y \in Int /\ m \in Int /\ 0 <= y /\ y < m OBVIOUS
<1> HIDE DEF m, y
<1>2. y % m = y BY <1>1
<1>3. Wrap(x) = (y % m) - (MaxInt + 1) BY DEF Wrap, m, y
<1>4. QED BY <1>2, <1>3 DEF y

\* What comes of an accepted step is what the file says, if its tries can be counted.
LEMMA RunAsWritten ==
  ASSUME NEW raw \in RawSteps, StepAccepted(raw), \A n \in raw.retries : n < MaxInt, NEW payload
  PROVE  RunBy(Sent(raw, payload)) = WrittenStep(raw, payload)
<1> DEFINE s == Sent(raw, payload)
           w == WrittenStep(raw, payload)
<1>1. s = [op |-> raw.op, text |-> Filled(Parsed(raw), payload),
           polls |-> PollsOf(raw.op, PollsIn(raw)), on |-> {},
           timeout |-> Parsed(raw).timeout, retries |-> raw.retries]
  BY SentIs
<1>2. Attempts(s) = w.tries
  <2>1. w.tries = 1 + Only(raw.retries, DefaultRetries(raw.op))
    BY DEF WrittenStep, DefaultRetries
  <2>2. CASE raw.retries = {}
    <3>1. DefaultRetries(raw.op) \in Int BY DEF DefaultRetries
    <3>2. Attempts(s) = DefaultRetries(raw.op) + 1 BY <1>1, <2>2 DEF Attempts
    <3>3. w.tries = 1 + DefaultRetries(raw.op) BY <2>1, <2>2 DEF Only
    <3>4. QED BY <3>1, <3>2, <3>3
  <2>3. CASE raw.retries # {}
    <3>1. PICK n : n = CHOOSE m \in raw.retries : TRUE OBVIOUS
    <3>2. n \in raw.retries /\ raw.retries \in SUBSET Int BY <2>3, <3>1 DEF RawSteps
    <3>3. n \in Int /\ 0 <= n /\ n < MaxInt BY <3>2 DEF StepAccepted
    <3>4. n + 1 \in Int /\ n + 1 <= MaxInt BY <3>3, OpsAssumption
    <3>5. Wrap(n + 1) = n + 1 BY <3>3, <3>4, WrapFits
    <3>6. Attempts(s) = Wrap(n + 1) BY <1>1, <2>3, <3>1 DEF Attempts
    <3>7. w.tries = 1 + n BY <2>1, <2>3, <3>1 DEF Only
    <3>8. QED BY <3>3, <3>5, <3>6, <3>7
  <2>4. QED BY <2>2, <2>3
<1>3. s.text = w.text
  <2>1. Parsed(raw).text = Only(raw.args, NoArgs).text BY DEF Parsed, Only, NoArgs
  <2>2. QED BY <1>1, <2>1 DEF WrittenStep, Filled
<1>4. s.timeout = w.bound BY <1>1 DEF WrittenStep, Parsed, Only
<1>5. s.polls = w.polls BY <1>1 DEF WrittenStep, Parsed, PollsIn, PollsOf, DefaultPolls, Only, NoArgs
<1>6. s.op = w.op BY <1>1 DEF WrittenStep
<1>7. RunBy(s) = [op |-> w.op, text |-> w.text, tries |-> w.tries, bound |-> w.bound, polls |-> w.polls]
  BY <1>2, <1>3, <1>4, <1>5, <1>6 DEF RunBy
<1>8. w = [op |-> w.op, text |-> w.text, tries |-> w.tries, bound |-> w.bound, polls |-> w.polls]
  BY DEF WrittenStep
<1>9. QED BY <1>7, <1>8

\* An engine that is old runs alike what it may be handed.
LEMMA OldRunAlike ==
  ASSUME NEW raw \in RawSteps, StepAccepted(raw), NEW payload, ~NeedsModifiers(Sent(raw, payload))
  PROVE  RunByOld(Sent(raw, payload)) = RunBy(Sent(raw, payload))
<1> DEFINE s == Sent(raw, payload)
<1>1. s = [op |-> raw.op, text |-> Filled(Parsed(raw), payload),
           polls |-> PollsOf(raw.op, PollsIn(raw)), on |-> {},
           timeout |-> Parsed(raw).timeout, retries |-> raw.retries]
  BY SentIs
<1>2. ~NeedsModifiers(s) OBVIOUS
<1>3. s.timeout = 0
  <2>1. raw.timeout \in SUBSET Int BY DEF RawSteps
  <2>2. raw.timeout = {} \/ (CHOOSE t \in raw.timeout : TRUE) > 0 BY <2>1 DEF StepAccepted
  <2>3. QED BY <1>1, <1>2, <2>2 DEF Parsed, NeedsModifiers
<1> HIDE DEF s
<1>4. Attempts(s) = DefaultRetries(s.op) + 1 BY <1>2 DEF NeedsModifiers, Attempts
<1>5. s.op = "healthcheck" => s.polls = DefaultPolls BY <1>2 DEF NeedsModifiers
<1>6. RunByOld(s) = RunBy(s) BY <1>3, <1>4, <1>5 DEF RunByOld, RunBy
<1>7. QED BY <1>6 DEF s

-----------------------------------------------------------------------------
(* What becomes of a pipeline                                               *)

\* The steps of a pipeline that are for an instance.
Mine(raws, name) == InOrder({k \in DOMAIN raws : \A on \in raws[k].on : name \in on})

LEMMA MineIsInside ==
  ASSUME NEW raws, IsPipeline(raws), NEW name
  PROVE  /\ DOMAIN Mine(raws, name) = 1..Len(Mine(raws, name))
         /\ \A j \in DOMAIN Mine(raws, name) : Mine(raws, name)[j] \in DOMAIN raws
<1> DEFINE S == {k \in DOMAIN raws : \A on \in raws[k].on : name \in on}
<1>1. Len(raws) \in Nat /\ DOMAIN raws = 1..Len(raws) BY DEF IsPipeline
<1>2. \A m \in S : m \in Nat /\ 1 <= m /\ m <= Len(raws) BY <1>1
<1> HIDE DEF S
<1>3. DOMAIN InOrder(S) = 1..Cardinality(S) /\ Cardinality(S) \in Nat
      /\ \A j \in DOMAIN InOrder(S) : InOrder(S)[j] \in S
  BY <1>1, <1>2, InOrderDomain, BelowIsFinite
<1>4. Len(InOrder(S)) = Cardinality(S) BY <1>3 DEF InOrder
<1>5. QED BY <1>3, <1>4 DEF Mine, S

\* A step that names no instance is for all of them.
LEMMA OnIsOne ==
  ASSUME NEW on, {} \notin on, \A a, b \in on : a = b, NEW name
  PROVE  (UNION on = {} \/ name \in UNION on) <=> \A a \in on : name \in a
<1>1. CASE on = {} BY <1>1
<1>2. ASSUME NEW a \in on
      PROVE  (UNION on = {} \/ name \in UNION on) <=> \A b \in on : name \in b
  <2>1. UNION on = a /\ a # {} BY <1>2
  <2>2. QED BY <1>2, <2>1
<1>3. QED BY <1>1, <1>2

\* Parsed before or after, an instance has the same steps.
LEMMA StepsAreMine ==
  ASSUME NEW raws, IsPipeline(raws), PipelineParses(raws), NEW payload, NEW name
  PROVE  /\ StepsFor(ParsePipeline(raws), name) =
              [j \in DOMAIN Mine(raws, name) |-> Parsed(raws[Mine(raws, name)[j]])]
         /\ StepsFor(Interpolated(ParsePipeline(raws), payload), name) =
              [j \in DOMAIN Mine(raws, name) |-> Final(raws[Mine(raws, name)[j]], payload)]
<1> DEFINE mine == Mine(raws, name)
           S == {k \in DOMAIN raws : \A on \in raws[k].on : name \in on}
           steps == ParsePipeline(raws)
           filled == Interpolated(steps, payload)
<1>1. steps = [k \in DOMAIN raws |-> Parsed(raws[k])] BY DEF ParsePipeline
<1>2. filled = [k \in DOMAIN raws |-> Final(raws[k], payload)] BY <1>1 DEF Interpolated, Final
<1>3. ASSUME NEW k \in DOMAIN raws
      PROVE  /\ RunsOn(Parsed(raws[k]), name) <=> \A on \in raws[k].on : name \in on
             /\ RunsOn(Final(raws[k], payload), name) <=> \A on \in raws[k].on : name \in on
  <2>1. {} \notin raws[k].on BY <1>3 DEF PipelineParses, StepAccepted
  <2>2. \A a, b \in raws[k].on : a = b BY <1>3 DEF IsPipeline
  <2>3. (UNION raws[k].on = {} \/ name \in UNION raws[k].on) <=> \A on \in raws[k].on : name \in on
    BY <2>1, <2>2, OnIsOne
  <2>4. Parsed(raws[k]).on = UNION raws[k].on BY DEF Parsed
  <2>5. Final(raws[k], payload).on = UNION raws[k].on BY FinalIs
  <2>6. QED BY <2>3, <2>4, <2>5 DEF RunsOn
<1>4. {k \in DOMAIN steps : RunsOn(steps[k], name)} = S BY <1>1, <1>3
<1>5. {k \in DOMAIN filled : RunsOn(filled[k], name)} = S BY <1>2, <1>3
<1>6. \A j \in DOMAIN mine : mine[j] \in DOMAIN raws BY MineIsInside
<1>7. mine = InOrder(S) BY DEF Mine
<1> HIDE DEF steps, filled, S, mine
<1>8. StepsFor(steps, name) = [j \in DOMAIN mine |-> steps[mine[j]]]
  BY <1>4, <1>7 DEF StepsFor
<1>9. StepsFor(filled, name) = [j \in DOMAIN mine |-> filled[mine[j]]]
  BY <1>5, <1>7 DEF StepsFor
<1>10. StepsFor(steps, name) = [j \in DOMAIN mine |-> Parsed(raws[mine[j]])]
  BY <1>1, <1>6, <1>8
<1>11. StepsFor(filled, name) = [j \in DOMAIN mine |-> Final(raws[mine[j]], payload)]
  BY <1>2, <1>6, <1>9
<1>12. QED BY <1>10, <1>11 DEF steps, filled, mine

\* The snapshot of what an instance runs, and what an engine reads of it.
Snapshot(raws, payload, name) ==
  MarshalSteps(StepsFor(Interpolated(ParsePipeline(raws), payload), name))

LEMMA SnapshotRead ==
  ASSUME NEW raws, IsPipeline(raws), PipelineParses(raws), NEW payload, NEW name
  PROVE  /\ DOMAIN Snapshot(raws, payload, name) = DOMAIN Mine(raws, name)
         /\ \A j \in DOMAIN Mine(raws, name) :
              Unmarshal(Snapshot(raws, payload, name)[j]) = Sent(raws[Mine(raws, name)[j]], payload)
  BY StepsAreMine DEF Snapshot, MarshalSteps, Sent

\* What an engine is to do of it.
WrittenFor(raws, payload, name) ==
  [j \in DOMAIN Mine(raws, name) |-> WrittenStep(raws[Mine(raws, name)[j]], payload)]

\* Where the tries can be counted an engine does with a snapshot what is written.
LEMMA EngineRuns ==
  ASSUME NEW raws, IsPipeline(raws), PipelineParses(raws), Countable(raws), NEW payload, NEW name
  PROVE  Engine(TRUE, Snapshot(raws, payload, name)) = WrittenFor(raws, payload, name)
<1> DEFINE mine == Mine(raws, name)
           js == Snapshot(raws, payload, name)
<1>1. DOMAIN js = DOMAIN mine BY SnapshotRead
<1>2. ASSUME NEW j \in DOMAIN mine
      PROVE  RunBy(Unmarshal(js[j])) = WrittenStep(raws[mine[j]], payload)
  <2>1. mine[j] \in DOMAIN raws BY MineIsInside
  <2>2. raws[mine[j]] \in RawSteps BY <2>1 DEF IsPipeline
  <2>3. StepAccepted(raws[mine[j]]) BY <2>1 DEF PipelineParses
  <2>4. \A n \in raws[mine[j]].retries : n < MaxInt BY <2>1 DEF Countable
  <2>5. Unmarshal(js[j]) = Sent(raws[mine[j]], payload) BY SnapshotRead
  <2>6. QED BY <2>2, <2>3, <2>4, <2>5, RunAsWritten
<1> HIDE DEF mine, js
<1>3. Engine(TRUE, js) = [j \in DOMAIN mine |-> RunBy(Unmarshal(js[j]))] BY <1>1 DEF Engine
<1>4. QED BY <1>2, <1>3 DEF WrittenFor, mine, js

\* The hub hands an engine only what that engine runs as any other would.
LEMMA EnginesAgree ==
  ASSUME NEW raws, IsPipeline(raws), PipelineParses(raws), NEW payload, NEW name, NEW v \in Versions,
         EdgeMayRun(v, UnmarshalSteps(Snapshot(raws, payload, name)))
  PROVE  Engine(v.modifiers, Snapshot(raws, payload, name)) =
         Engine(TRUE, Snapshot(raws, payload, name))
<1> DEFINE mine == Mine(raws, name)
           js == Snapshot(raws, payload, name)
<1>1. v.modifiers \in BOOLEAN /\ (AtLeast(v, ModifiersSince) => v.modifiers) BY VersionsAssumption
<1>2. CASE v.modifiers = TRUE BY <1>2
<1>3. CASE v.modifiers = FALSE
  <2>1. ~NeedsModifierSupport(UnmarshalSteps(js)) BY <1>1, <1>3 DEF EdgeMayRun
  <2>2. ASSUME NEW j \in DOMAIN js PROVE RunByOld(Unmarshal(js[j])) = RunBy(Unmarshal(js[j]))
    <3>1. j \in DOMAIN mine BY SnapshotRead
    <3>2. mine[j] \in DOMAIN raws BY <3>1, MineIsInside
    <3>3. raws[mine[j]] \in RawSteps /\ StepAccepted(raws[mine[j]])
      BY <3>2 DEF IsPipeline, PipelineParses
    <3>4. Unmarshal(js[j]) = Sent(raws[mine[j]], payload) BY <3>1, SnapshotRead
    <3>5. ~NeedsModifiers(Unmarshal(js[j])) BY <2>1 DEF NeedsModifierSupport, UnmarshalSteps
    <3>6. QED BY <3>3, <3>4, <3>5, OldRunAlike
  <2> HIDE DEF js
  <2>3. Engine(FALSE, js) = Engine(TRUE, js) BY <2>2 DEF Engine
  <2>4. QED BY <1>3, <2>3 DEF js
<1>4. QED BY <1>1, <1>2, <1>3

-----------------------------------------------------------------------------
(* The executions of a deploy: the waves one after the other                *)

(* Execs is defined by recursion over the waves. Rolled names that         *)
(* function; that there is one, and what it is at each wave, is by the      *)
(* least wave at which it would not be so.                                  *)
WaveExecs(svc, req, w) ==
  [k \in DOMAIN svc.rollout[w] |-> NewExec(svc, req, svc.rollout[w][k], w - 1)]
Unrolls(svc, req, n, all) ==
  all = [w \in 0..n |-> IF w = 0 THEN <<>> ELSE all[w - 1] \o WaveExecs(svc, req, w)]
Rolled(svc, req) == CHOOSE all : Unrolls(svc, req, Len(svc.rollout), all)

LEMMA RolledIs ==
  ASSUME NEW svc, NEW req, req.kind # "task"
  PROVE  Execs(svc, req) = Rolled(svc, req)[Len(svc.rollout)]
  BY DEF Execs, Rolled, Unrolls, WaveExecs

LEMMA Unrolled ==
  ASSUME NEW svc, NEW req, NEW n \in Nat PROVE \E all : Unrolls(svc, req, n, all)
<1> DEFINE Bad == {m \in Nat : ~\E all : Unrolls(svc, req, m, all)}
<1>1. SUFFICES ASSUME Bad # {} PROVE FALSE OBVIOUS
<1>2. PICK m \in Bad : \A y \in Bad : m <= y BY <1>1, Least
<1>3. CASE m = 0
  <2> DEFINE none == [w \in 0..0 |-> <<>>]
  <2>1. Unrolls(svc, req, 0, none) BY DEF Unrolls
  <2>2. QED BY <1>2, <1>3, <2>1
<1>4. CASE m # 0
  <2>1. m - 1 \in Nat /\ m - 1 \notin Bad BY <1>2, <1>4
  <2>2. PICK g : Unrolls(svc, req, m - 1, g) BY <2>1
  <2> DEFINE h == [w \in 0..m |-> IF w = m THEN g[m - 1] \o WaveExecs(svc, req, m) ELSE g[w]]
  <2>3. ASSUME NEW w \in 0..m
        PROVE  h[w] = IF w = 0 THEN <<>> ELSE h[w - 1] \o WaveExecs(svc, req, w)
    <3>1. CASE w = m
      <4>1. m - 1 \in 0..m /\ m - 1 # m /\ m \in Nat BY <1>4
      <4>2. h[m - 1] = g[m - 1] /\ h[w] = g[m - 1] \o WaveExecs(svc, req, m) BY <3>1, <4>1
      <4>3. QED BY <1>4, <3>1, <4>2
    <3>2. CASE w # m
      <4>1. w \in 0..m - 1 /\ m \in Nat BY <3>2
      <4>2. h[w] = g[w] BY <3>2
      <4>3. g[w] = IF w = 0 THEN <<>> ELSE g[w - 1] \o WaveExecs(svc, req, w)
        BY <2>2, <4>1 DEF Unrolls
      <4>4. CASE w # 0
        <5>1. w - 1 \in 0..m /\ w - 1 # m BY <4>1, <4>4
        <5>2. h[w - 1] = g[w - 1] BY <5>1
        <5>3. QED BY <4>2, <4>3, <4>4, <5>2
      <4>5. QED BY <4>2, <4>3, <4>4
    <3>3. QED BY <3>1, <3>2
  <2>4. Unrolls(svc, req, m, h)
    <3>1. h = [w \in 0..m |-> h[w]] OBVIOUS
    <3> HIDE DEF h
    <3>2. QED BY <2>3, <3>1 DEF Unrolls
  <2>5. QED BY <1>2, <2>4
<1>5. QED BY <1>3, <1>4

LEMMA RolledSteps ==
  ASSUME NEW svc, NEW req, svc.rollout \in Seq(Seq(STRING))
  PROVE  /\ Rolled(svc, req)[0] = <<>>
         /\ \A w \in 1..Len(svc.rollout) :
              Rolled(svc, req)[w] = Rolled(svc, req)[w - 1] \o WaveExecs(svc, req, w)
<1> DEFINE n == Len(svc.rollout)
           all == Rolled(svc, req)
<1>1. n \in Nat OBVIOUS
<1>2. Unrolls(svc, req, n, all) BY <1>1, Unrolled DEF Rolled
<1> HIDE DEF all, n
<1>3. all = [w \in 0..n |-> IF w = 0 THEN <<>> ELSE all[w - 1] \o WaveExecs(svc, req, w)]
  BY <1>2 DEF Unrolls
<1>4. all[0] = <<>> BY <1>1, <1>3
<1>5. ASSUME NEW w \in 1..n PROVE all[w] = all[w - 1] \o WaveExecs(svc, req, w)
  <2>1. w \in 0..n /\ w # 0 BY <1>1
  <2>2. QED BY <1>3, <2>1
<1>6. QED BY <1>4, <1>5 DEF all, n

\* What one wave after the other makes: places in waves and executions are
\* each other's.
NewExecs(svc, req) == {NewExec(svc, req, name, w) : name \in STRING, w \in Nat}

Placed(svc, req, w) ==
  LET all == Rolled(svc, req) IN
  /\ all[w] \in Seq(NewExecs(svc, req))
  /\ \A v \in 1..w : \A k \in DOMAIN svc.rollout[v] :
       /\ Len(all[v - 1]) + k \in DOMAIN all[w]
       /\ all[w][Len(all[v - 1]) + k] = NewExec(svc, req, svc.rollout[v][k], v - 1)
  /\ \A j \in DOMAIN all[w] : \E v \in 1..w : \E k \in DOMAIN svc.rollout[v] :
       j = Len(all[v - 1]) + k

\* One wave has an execution for each name in it.
LEMMA WaveIsSeq ==
  ASSUME NEW svc, NEW req, svc.rollout \in Seq(Seq(STRING)), NEW w \in 1..Len(svc.rollout)
  PROVE  /\ WaveExecs(svc, req, w) \in Seq(NewExecs(svc, req))
         /\ Len(WaveExecs(svc, req, w)) = Len(svc.rollout[w])
         /\ DOMAIN svc.rollout[w] = 1..Len(svc.rollout[w]) /\ Len(svc.rollout[w]) \in Nat
<1> DEFINE n == Len(svc.rollout[w])
<1>1. svc.rollout[w] \in Seq(STRING) OBVIOUS
<1>2. DOMAIN svc.rollout[w] = 1..n /\ n \in Nat BY <1>1
<1>3. \A k \in 1..n : NewExec(svc, req, svc.rollout[w][k], w - 1) \in NewExecs(svc, req)
  <2>1. w - 1 \in Nat OBVIOUS
  <2>2. \A k \in 1..n : svc.rollout[w][k] \in STRING BY <1>1, <1>2
  <2> HIDE DEF n
  <2>3. QED BY <2>1, <2>2 DEF NewExecs
<1>4. WaveExecs(svc, req, w) = [k \in 1..n |-> NewExec(svc, req, svc.rollout[w][k], w - 1)]
  BY <1>2 DEF WaveExecs
<1> HIDE DEF n
<1>5. QED BY <1>2, <1>3, <1>4 DEF n

\* Where the elements of two sequences are when they are one.
LEMMA OneAfterTheOther ==
  ASSUME NEW X, NEW s \in Seq(X), NEW t \in Seq(X)
  PROVE  /\ s \o t \in Seq(X) /\ Len(s \o t) = Len(s) + Len(t)
         /\ DOMAIN (s \o t) = 1..Len(s) + Len(t) /\ DOMAIN s = 1..Len(s)
         /\ Len(s) \in Nat /\ Len(t) \in Nat
         /\ \A j \in 1..Len(s) : (s \o t)[j] = s[j]
         /\ \A k \in 1..Len(t) : Len(s) + k \in 1..Len(s) + Len(t) /\ (s \o t)[Len(s) + k] = t[k]
  OBVIOUS

\* The places hold of a wave if they hold of those before it, so of all.
LEMMA PlacedStep ==
  ASSUME NEW svc, NEW req, svc.rollout \in Seq(Seq(STRING)), NEW w \in 1..Len(svc.rollout),
         \A u \in 0..w - 1 : Placed(svc, req, u)
  PROVE  Placed(svc, req, w)
<1> DEFINE all == Rolled(svc, req)
           wave == WaveExecs(svc, req, w)
           X == NewExecs(svc, req)
<1>1. w - 1 \in 0..w - 1 /\ w \in Nat /\ w >= 1 OBVIOUS
<1>2. Placed(svc, req, w - 1) BY <1>1
<1>3. all[w - 1] \in Seq(X) /\ wave \in Seq(X) BY <1>2, WaveIsSeq DEF Placed
<1>4. all[w] = all[w - 1] \o wave BY RolledSteps
<1>5. /\ DOMAIN svc.rollout[w] = 1..Len(wave)
      /\ \A k \in 1..Len(wave) : wave[k] = NewExec(svc, req, svc.rollout[w][k], w - 1)
  BY WaveIsSeq DEF WaveExecs
<1> HIDE DEF all, wave, X
<1>6. /\ all[w] \in Seq(X) /\ Len(all[w]) = Len(all[w - 1]) + Len(wave)
      /\ DOMAIN all[w] = 1..Len(all[w - 1]) + Len(wave) /\ DOMAIN all[w - 1] = 1..Len(all[w - 1])
      /\ Len(all[w - 1]) \in Nat /\ Len(wave) \in Nat
      /\ \A j \in 1..Len(all[w - 1]) : all[w][j] = all[w - 1][j]
      /\ \A k \in 1..Len(wave) :
           /\ Len(all[w - 1]) + k \in 1..Len(all[w - 1]) + Len(wave)
           /\ all[w][Len(all[w - 1]) + k] = wave[k]
  BY <1>3, <1>4, OneAfterTheOther
<1>7. ASSUME NEW v \in 1..w, NEW k \in DOMAIN svc.rollout[v]
      PROVE  /\ Len(all[v - 1]) + k \in DOMAIN all[w]
             /\ all[w][Len(all[v - 1]) + k] = NewExec(svc, req, svc.rollout[v][k], v - 1)
  <2>1. CASE v = w
    <3>1. k \in 1..Len(wave) BY <1>5, <2>1
    <3>2. QED BY <1>5, <1>6, <2>1, <3>1
  <2>2. CASE v # w
    <3>1. v \in 1..w - 1 BY <1>1, <2>2
    <3> DEFINE j == Len(all[v - 1]) + k
    <3>2. j \in DOMAIN all[w - 1] /\ all[w - 1][j] = NewExec(svc, req, svc.rollout[v][k], v - 1)
      BY <1>2, <3>1 DEF Placed, all
    <3> HIDE DEF j
    <3>3. j \in DOMAIN all[w] /\ all[w][j] = all[w - 1][j] BY <1>6, <3>2
    <3>4. QED BY <3>2, <3>3 DEF j
  <2>3. QED BY <2>1, <2>2
<1>8. ASSUME NEW j \in DOMAIN all[w]
      PROVE  \E v \in 1..w : \E k \in DOMAIN svc.rollout[v] : j = Len(all[v - 1]) + k
  <2>1. j \in Nat /\ 1 <= j /\ j <= Len(all[w - 1]) + Len(wave) BY <1>6
  <2>2. CASE j <= Len(all[w - 1])
    <3>1. j \in DOMAIN all[w - 1] BY <1>6, <2>1, <2>2
    <3>2. PICK v \in 1..w - 1 : \E k \in DOMAIN svc.rollout[v] : j = Len(all[v - 1]) + k
      BY <1>2, <3>1 DEF Placed, all
    <3>3. v \in 1..w BY <1>1
    <3>4. QED BY <3>2, <3>3
  <2>3. CASE j > Len(all[w - 1])
    <3> DEFINE k == j - Len(all[w - 1])
    <3>0. PICK m, n \in Nat : m = Len(all[w - 1]) /\ n = Len(wave) BY <1>6
    <3>1. k \in 1..Len(wave) /\ j = Len(all[w - 1]) + k
      <4>1. j \in Nat /\ j > m /\ j <= m + n BY <2>1, <2>3, <3>0
      <4>2. j - m \in 1..n /\ j = m + (j - m) BY <4>1
      <4>3. QED BY <3>0, <4>2
    <3>2. w \in 1..w BY <1>1
    <3>3. QED BY <1>5, <3>1, <3>2
  <2>4. QED BY <1>6, <2>1, <2>2, <2>3
<1>9. QED BY <1>6, <1>7, <1>8 DEF Placed, all, X

LEMMA AllPlaced ==
  ASSUME NEW svc, NEW req, svc.rollout \in Seq(Seq(STRING)), NEW w \in 0..Len(svc.rollout)
  PROVE  Placed(svc, req, w)
<1> DEFINE n == Len(svc.rollout)
           Bad == {m \in 0..n : ~Placed(svc, req, m)}
<1>1. SUFFICES ASSUME Bad # {} PROVE FALSE OBVIOUS
<1>2. n \in Nat /\ Bad \in SUBSET Nat OBVIOUS
<1>3. PICK m \in Bad : \A y \in Bad : m <= y BY <1>1, <1>2, Least
<1>4. CASE m = 0
  <2>1. Rolled(svc, req)[0] = <<>> BY RolledSteps
  <2>2. Placed(svc, req, 0) BY <2>1 DEF Placed
  <2>3. QED BY <1>4, <2>2
<1>5. CASE m # 0
  <2>1. m \in 1..n BY <1>2, <1>5
  <2>2. \A u \in 0..m - 1 : Placed(svc, req, u)
    <3>1. ASSUME NEW u \in 0..m - 1 PROVE Placed(svc, req, u)
      <4>1. u \in 0..n /\ ~(m <= u) BY <1>2, <2>1
      <4>2. QED BY <1>3, <4>1
    <3>2. QED BY <3>1
  <2>3. QED BY <2>1, <2>2, PlacedStep
<1>6. QED BY <1>4, <1>5

-----------------------------------------------------------------------------
(* What a deploy holds is built from an accepted file, and what ran of it   *)
(* is what an engine with modifiers runs: DeployInv is inductive.           *)

\* The request as enqueue had it.
Asked(q) == [request[q] EXCEPT !.pc = "resolved"]
ServiceOf(q) == Loaded[request[q].file]

BuiltOf(q) ==
  /\ request[q].pc = "accepted"
  /\ Buildable(ServiceOf(q), Asked(q))
  /\ deploy[q] = [built |-> TRUE, execs |-> Execs(ServiceOf(q), Asked(q))]

RanOf(q) ==
  /\ DOMAIN ran[q] = DOMAIN deploy[q].execs
  /\ \A k \in DOMAIN ran[q] :
       ran[q][k].state = "ran" => ran[q][k].did = Engine(TRUE, deploy[q].execs[k].ops)

DeployInv ==
  /\ DOMAIN deploy = Requests /\ DOMAIN ran = Requests
  /\ \A q \in Requests :
       /\ request[q].pc \in {"resolved", "accepted"} /\ request[q].kind = "task" =>
            ServiceOf(q).tasks # {}
       /\ deploy[q] = NoDeploy \/ BuiltOf(q)
       /\ RanOf(q)

\* What main has loaded is an accepted file, with the defaults filled in.
LEMMA LoadedIs ==
  ASSUME NEW f \in Accepted
  PROVE  /\ Loaded[f] = Normalized(Content[f]) /\ f \in DOMAIN Content
         /\ FileAccepted(Content[f]) /\ IsService(Content[f].service)
  BY IngressAssumption DEF Loaded, Accepted

LEMMA NormalizedIs ==
  ASSUME NEW f \in Accepted
  PROVE  LET raw == Content[f].service IN
         /\ Loaded[f].rollout = RolloutOf(raw)
         /\ Loaded[f].instances = InstancesOf(raw)
         /\ Loaded[f].deploy = ParsePipeline(raw.deploy)
         /\ Loaded[f].tasks = {ParsePipeline(t) : t \in raw.task \ {<<>>}}
         /\ Loaded[f].image = raw.image
         /\ Loaded[f].timeout = TimeoutOf(raw)
<1> DEFINE raw == Content[f].service
<1>1. PICK image, webhook, timeout, wants, instances, rollout, deploys, tasks :
        /\ image = raw.image /\ timeout = TimeoutOf(raw) /\ instances = InstancesOf(raw)
        /\ rollout = RolloutOf(raw) /\ deploys = ParsePipeline(raw.deploy)
        /\ tasks = {ParsePipeline(t) : t \in raw.task \ {<<>>}}
        /\ webhook = raw.webhook /\ wants = Wants(raw, Content[f].notify)
  OBVIOUS
<1>2. Loaded[f] = [image |-> image, webhook |-> webhook, timeout |-> timeout, wants |-> wants,
                   instances |-> instances, rollout |-> rollout, deploy |-> deploys, tasks |-> tasks]
  BY <1>1, LoadedIs DEF Normalized
<1>3. QED BY <1>1, <1>2

\* The one task there may be.
LEMMA TaskIs ==
  ASSUME NEW f \in Accepted, Loaded[f].tasks # {}
  PROVE  LET tasks == Content[f].service.task IN
         /\ (CHOOSE t \in tasks : TRUE) \in tasks \ {<<>>}
         /\ (CHOOSE t \in Loaded[f].tasks : TRUE) = ParsePipeline(CHOOSE t \in tasks : TRUE)
<1> DEFINE tasks == Content[f].service.task
           parsed == Loaded[f].tasks
<1>1. parsed = {ParsePipeline(t) : t \in tasks \ {<<>>}} BY NormalizedIs
<1>2. PICK t \in tasks : t # <<>> BY <1>1
<1>3. \A u \in tasks : u = t BY LoadedIs DEF IsService
<1> HIDE DEF parsed, tasks
<1>4. tasks = {t} BY <1>2, <1>3
<1>5. parsed = {ParsePipeline(t)} BY <1>1, <1>2, <1>4
<1>6. (CHOOSE u \in tasks : TRUE) = t BY <1>4
<1>7. (CHOOSE p \in parsed : TRUE) = ParsePipeline(t) BY <1>5
<1>8. QED BY <1>2, <1>6, <1>7 DEF parsed, tasks

\* The steps a request asks for are those the file writes for it, read.
LEMMA StepsAreWritten ==
  ASSUME NEW f \in Accepted, NEW req, req.kind = "task" => Loaded[f].tasks # {}
  PROVE  LET raws == RawsOf(Content[f], req) IN
         /\ IsPipeline(raws) /\ PipelineParses(raws)
         /\ StepsOf(Loaded[f], req) = ParsePipeline(raws)
         /\ PipelineAccepted(Content[f].service, ParsePipeline(raws), TimeoutOf(Content[f].service))
<1> DEFINE raw == Content[f].service
<1>1. IsService(raw) /\ ServiceAccepted(raw, Content[f].servers) BY LoadedIs DEF FileAccepted
<1>2. CASE req.kind = "task"
  <2> DEFINE t == CHOOSE t \in raw.task : TRUE
  <2>1. t \in raw.task /\ t # <<>> /\ StepsOf(Loaded[f], req) = ParsePipeline(t)
    BY <1>2, TaskIs DEF StepsOf
  <2>2. RawsOf(Content[f], req) = t BY <1>2 DEF RawsOf
  <2> HIDE DEF t
  <2>3. IsPipeline(t) BY <1>1, <2>1 DEF IsService
  <2>4. PipelineParses(t) /\ PipelineAccepted(raw, ParsePipeline(t), TimeoutOf(raw))
    BY <1>1, <2>1 DEF ServiceAccepted
  <2>5. QED BY <2>1, <2>2, <2>3, <2>4
<1>3. CASE req.kind # "task"
  <2>1. RawsOf(Content[f], req) = raw.deploy BY <1>3 DEF RawsOf
  <2>2. StepsOf(Loaded[f], req) = ParsePipeline(raw.deploy)
    BY <1>3, NormalizedIs DEF StepsOf
  <2>3. IsPipeline(raw.deploy) BY <1>1 DEF IsService
  <2>4. /\ PipelineParses(raw.deploy)
        /\ PipelineAccepted(raw, ParsePipeline(raw.deploy), TimeoutOf(raw))
    BY <1>1 DEF ServiceAccepted
  <2>5. QED BY <2>1, <2>2, <2>3, <2>4
<1>4. QED BY <1>2, <1>3

\* What a sequence holds is of its type.
LEMMA ElementOf ==
  ASSUME NEW X, NEW s \in Seq(X), NEW k \in DOMAIN s PROVE s[k] \in X
  OBVIOUS

\* The instances are those written, or the one of the short form.
LEMMA InstancesAre ==
  ASSUME NEW raw, IsService(raw)
  PROVE  /\ Len(InstancesOf(raw)) \in Nat /\ DOMAIN InstancesOf(raw) = 1..Len(InstancesOf(raw))
         /\ \A k \in DOMAIN InstancesOf(raw) : InstancesOf(raw)[k].name \in STRING
         /\ Sugar(raw) => Len(InstancesOf(raw)) = 1
         /\ ~Sugar(raw) =>
              /\ DOMAIN InstancesOf(raw) = DOMAIN raw.instances
              /\ \A k \in DOMAIN raw.instances : InstancesOf(raw)[k].name = raw.instances[k].name
<1>1. CASE Sugar(raw)
  <2>1. InstancesOf(raw) = <<[name |-> raw.name, server |-> raw.server, dir |-> raw.dir]>>
    BY <1>1 DEF InstancesOf
  <2>2. QED BY <1>1, <2>1 DEF IsService
<1>2. CASE ~Sugar(raw)
  <2> DEFINE n == Len(raw.instances)
             made(k) == [raw.instances[k] EXCEPT !.dir = IF @ = Unset THEN raw.dir ELSE @]
  <2>1. InstancesOf(raw) = [k \in DOMAIN raw.instances |-> made(k)] BY <1>2 DEF InstancesOf
  <2>2. DOMAIN raw.instances = 1..n /\ n \in Nat BY DEF IsService
  <2>3. ASSUME NEW k \in 1..n
        PROVE  made(k).name = raw.instances[k].name /\ raw.instances[k].name \in STRING
    <3>1. raw.instances \in Seq([name : STRING, server : STRING, dir : STRING]) BY DEF IsService
    <3>2. raw.instances[k] \in [name : STRING, server : STRING, dir : STRING] BY <3>1, <2>2, ElementOf
    <3>3. QED BY <3>2
  <2> HIDE DEF n, made
  <2>4. Len(InstancesOf(raw)) = n BY <2>1, <2>2
  <2>5. QED BY <1>2, <2>1, <2>2, <2>3, <2>4
<1>3. QED BY <1>1, <1>2

LEMMA RolloutTypes ==
  ASSUME NEW f \in Accepted
  PROVE  Loaded[f].rollout \in Seq(Seq(STRING))
<1> DEFINE raw == Content[f].service
           n == Len(InstancesOf(raw))
<1>1. IsService(raw) BY LoadedIs
<1>2. Loaded[f].rollout = RolloutOf(raw) BY NormalizedIs
<1>3. CASE raw.rollout # <<>> BY <1>1, <1>2, <1>3 DEF RolloutOf, IsService
<1>4. CASE raw.rollout = <<>>
  <2>1. RolloutOf(raw) = [k \in DOMAIN InstancesOf(raw) |-> <<InstancesOf(raw)[k].name>>]
    BY <1>4 DEF RolloutOf
  <2>2. /\ n \in Nat /\ DOMAIN InstancesOf(raw) = 1..n
        /\ \A k \in 1..n : InstancesOf(raw)[k].name \in STRING
    BY <1>1, InstancesAre
  <2>3. \A k \in 1..n : <<InstancesOf(raw)[k].name>> \in Seq(STRING) BY <2>2
  <2>4. RolloutOf(raw) = [k \in 1..n |-> <<InstancesOf(raw)[k].name>>] BY <2>1, <2>2
  <2> HIDE DEF n
  <2>5. QED BY <1>2, <2>2, <2>3, <2>4
<1>5. QED BY <1>3, <1>4

\* An execution is the snapshot of what the file says its instance runs.
LEMMA ExecsAre ==
  ASSUME NEW f \in Accepted, NEW req, req.kind = "task" => Loaded[f].tasks # {},
         NEW k \in DOMAIN Execs(Loaded[f], req)
  PROVE  \E name, w : Execs(Loaded[f], req)[k] = NewExec(Loaded[f], req, name, w)
<1> DEFINE svc == Loaded[f]
           n == Len(svc.rollout)
<1>1. CASE req.kind = "task"
  <2>1. Execs(svc, req) = <<NewExec(svc, req, Targeted(svc, req), 0)>> BY <1>1 DEF Execs
  <2>2. QED BY <2>1
<1>2. CASE req.kind # "task"
  <2>1. svc.rollout \in Seq(Seq(STRING)) /\ n \in 0..n BY RolloutTypes
  <2>2. Placed(svc, req, n) BY <2>1, AllPlaced
  <2>3. Execs(svc, req) = Rolled(svc, req)[n] BY <1>2, RolledIs
  <2>4. Execs(svc, req) \in Seq(NewExecs(svc, req)) BY <2>2, <2>3 DEF Placed
  <2> HIDE DEF svc
  <2>5. Execs(svc, req)[k] \in NewExecs(svc, req) BY <2>4 DEF svc
  <2>6. QED BY <2>5 DEF NewExecs, svc
<1>3. QED BY <1>1, <1>2

LEMMA OpsAre ==
  ASSUME NEW f \in Accepted, NEW req, req.kind = "task" => Loaded[f].tasks # {},
         NEW k \in DOMAIN Execs(Loaded[f], req)
  PROVE  LET e == Execs(Loaded[f], req)[k] IN
         e.ops = Snapshot(RawsOf(Content[f], req), req.payload, e.instance)
<1> DEFINE svc == Loaded[f]
           raws == RawsOf(Content[f], req)
<1>1. PICK name, w : Execs(svc, req)[k] = NewExec(svc, req, name, w) BY ExecsAre
<1>2. StepsOf(svc, req) = ParsePipeline(raws) BY StepsAreWritten
<1>3. NewExec(svc, req, name, w).instance = name BY DEF NewExec
<1>4. NewExec(svc, req, name, w).ops = Snapshot(raws, req.payload, name)
  BY <1>2 DEF NewExec, Snapshot
<1>5. QED BY <1>1, <1>3, <1>4

LEMMA InitDeploy == Init => DeployInv
<1> SUFFICES ASSUME Init PROVE DeployInv OBVIOUS
<1>1. request = [q \in Requests |-> NoRequest] /\ deploy = [q \in Requests |-> NoDeploy]
      /\ ran = [q \in Requests |-> <<>>]
  BY DEF Init
<1>2. QED BY <1>1 DEF DeployInv, RanOf, NoRequest, NoDeploy

\* A request that is not yet accepted has no deploy.
LEMMA DeployKept ==
  ASSUME DeployInv, UNCHANGED <<deploy, ran>>, NEW q \in Requests, request[q].pc # "accepted",
         \A p \in Requests \ {q} : request'[p] = request[p],
         request'[q].pc \in {"resolved", "accepted"} /\ request'[q].kind = "task" =>
           ServiceOf(q)'.tasks # {}
  PROVE  DeployInv'
<1>1. ASSUME NEW p \in Requests
      PROVE  /\ request'[p].pc \in {"resolved", "accepted"} /\ request'[p].kind = "task" =>
                  ServiceOf(p)'.tasks # {}
             /\ deploy'[p] = NoDeploy \/ BuiltOf(p)'
             /\ RanOf(p)'
  <2>1. RanOf(p)' BY DEF DeployInv, RanOf
  <2>2. CASE p = q
    <3>1. deploy[p] = NoDeploy BY <2>2 DEF DeployInv, BuiltOf
    <3>2. QED BY <2>1, <2>2, <3>1
  <2>3. CASE p # q
    <3>1. request'[p] = request[p] BY <2>3
    <3>2. QED BY <2>1, <3>1 DEF DeployInv, BuiltOf, ServiceOf, Asked
  <2>4. QED BY <2>2, <2>3
<1>2. QED BY <1>1 DEF DeployInv

LEMMA SubmitDeploys ==
  ASSUME TypeInv, RequestInv, DeployInv, NEW q \in Requests, Submit(q) PROVE DeployInv'
<1> DEFINE svc == ServiceOf(q)
           req == request[q]
           execs == Execs(svc, req)
<1>1. /\ req.pc = "resolved" /\ req \in RequestRecords /\ req.file \in Accepted
      /\ request' = [request EXCEPT ![q].pc = "accepted"]
      /\ deploy' = [deploy EXCEPT ![q] =
           IF Buildable(svc, req) THEN [built |-> TRUE, execs |-> execs] ELSE NoDeploy]
      /\ ran' = [ran EXCEPT ![q] =
           IF Buildable(svc, req) THEN [k \in DOMAIN execs |-> Waiting] ELSE <<>>]
  BY RequestFields DEF Submit, ServiceOf, RequestInv
<1>2. \A p \in Requests \ {q} :
        request'[p] = request[p] /\ deploy'[p] = deploy[p] /\ ran'[p] = ran[p]
  BY <1>1 DEF TypeInv, DeployInv
<1>3. request'[q] = [req EXCEPT !.pc = "accepted"] BY <1>1 DEF TypeInv
<1>4. request'[q].file = req.file /\ request'[q].pc = "accepted" /\ request'[q].kind = req.kind
  BY <1>1, <1>3 DEF RequestRecords
<1>5. Asked(q)' = req BY <1>1, <1>3 DEF Asked, RequestRecords
<1>6. ServiceOf(q)' = svc BY <1>4 DEF ServiceOf
<1> HIDE DEF svc, req, execs
<1>7. deploy'[q] = NoDeploy \/ BuiltOf(q)'
  <2>1. CASE Buildable(svc, req)
    <3>1. deploy'[q] = [built |-> TRUE, execs |-> execs] BY <1>1, <2>1 DEF DeployInv
    <3>2. QED BY <1>4, <1>5, <1>6, <2>1, <3>1 DEF BuiltOf, execs
  <2>2. CASE ~Buildable(svc, req) BY <1>1, <2>2 DEF DeployInv
  <2>3. QED BY <2>1, <2>2
<1>8. RanOf(q)'
  <2>1. CASE Buildable(svc, req)
    <3>1. deploy'[q].execs = execs /\ ran'[q] = [k \in DOMAIN execs |-> Waiting]
      BY <1>1, <2>1 DEF DeployInv
    <3>2. \A k \in DOMAIN ran'[q] : ran'[q][k].state # "ran" BY <3>1 DEF Waiting
    <3>3. DOMAIN ran'[q] = DOMAIN deploy'[q].execs BY <3>1
    <3>4. QED BY <3>2, <3>3 DEF RanOf
  <2>2. CASE ~Buildable(svc, req)
    <3>1. deploy'[q] = NoDeploy /\ ran'[q] = <<>> BY <1>1, <2>2 DEF DeployInv
    <3>2. QED BY <3>1 DEF RanOf, NoDeploy
  <2>3. QED BY <2>1, <2>2
<1>9. request'[q].kind = "task" => ServiceOf(q)'.tasks # {}
  BY <1>1, <1>4, <1>6 DEF DeployInv, svc, req
<1>10. ASSUME NEW p \in Requests, p # q
       PROVE  /\ request'[p].pc \in {"resolved", "accepted"} /\ request'[p].kind = "task" =>
                   ServiceOf(p)'.tasks # {}
              /\ deploy'[p] = NoDeploy \/ BuiltOf(p)'
              /\ RanOf(p)'
  <2>1. request'[p] = request[p] /\ deploy'[p] = deploy[p] /\ ran'[p] = ran[p] BY <1>2, <1>10
  <2>2. QED BY <2>1 DEF DeployInv, BuiltOf, RanOf, ServiceOf, Asked
<1>11. DOMAIN deploy' = Requests /\ DOMAIN ran' = Requests BY <1>1 DEF DeployInv
<1>12. QED BY <1>7, <1>8, <1>9, <1>10, <1>11 DEF DeployInv

\* An execution runs as it is, on main or on an edge that may run it.
LEMMA ExecRuns ==
  ASSUME TypeInv, RequestInv, DeployInv, NEW q \in Requests, NEW k \in DOMAIN ran[q],
         RunsOnMain(q, k) \/ \E v \in Versions : RunsOnEdge(q, k, v)
  PROVE  DeployInv'
<1> DEFINE e == deploy[q].execs[k]
<1>1. UNCHANGED <<request, deploy>> BY DEF RunsOnMain, RunsOnEdge
<1>2. PICK new : /\ ran' = [ran EXCEPT ![q][k] = new]
                 /\ new.state = "ran" => new.did = Engine(TRUE, e.ops)
  <2>1. CASE RunsOnMain(q, k)
    <3> DEFINE new == [state |-> "ran", did |-> Engine(TRUE, e.ops)]
    <3>1. ran' = [ran EXCEPT ![q][k] = new] BY <2>1 DEF RunsOnMain
    <3>2. new.state = "ran" => new.did = Engine(TRUE, e.ops)
      <4>1. PICK x : x = Engine(TRUE, e.ops) OBVIOUS
      <4>2. QED BY <4>1
    <3> HIDE DEF new
    <3> WITNESS new
    <3>3. QED BY <3>1, <3>2
  <2>2. ASSUME NEW v \in Versions, RunsOnEdge(q, k, v)
        PROVE  \E new : /\ ran' = [ran EXCEPT ![q][k] = new]
                        /\ new.state = "ran" => new.did = Engine(TRUE, e.ops)
    <3> DEFINE may == EdgeMayRun(v, UnmarshalSteps(e.ops))
               new == IF may THEN [state |-> "ran", did |-> Engine(v.modifiers, e.ops)]
                      ELSE [state |-> "refused", did |-> <<>>]
    <3>1. ran' = [ran EXCEPT ![q][k] = new] BY <2>2 DEF RunsOnEdge
    <3>2. ASSUME may PROVE Engine(v.modifiers, e.ops) = Engine(TRUE, e.ops)
      <4> DEFINE req == Asked(q)
                 f == request[q].file
      <4>1. k \in DOMAIN deploy[q].execs BY DEF DeployInv, RanOf
      <4>2. BuiltOf(q) BY <4>1 DEF DeployInv, NoDeploy
      <4>3. /\ request[q].pc = "accepted" /\ f \in Accepted
            /\ deploy[q].execs = Execs(Loaded[f], req)
        BY <4>2 DEF BuiltOf, ServiceOf, RequestInv
      <4>4. req.kind = "task" => Loaded[f].tasks # {}
        <5>1. request[q] \in RequestRecords BY <4>3, RequestFields
        <5>2. req.kind = request[q].kind BY <5>1 DEF Asked, RequestRecords
        <5>3. QED BY <4>3, <5>2 DEF DeployInv, ServiceOf
      <4> HIDE DEF req, f
      <4>5. e.ops = Snapshot(RawsOf(Content[f], req), req.payload, e.instance)
        BY <4>1, <4>3, <4>4, OpsAre
      <4>6. IsPipeline(RawsOf(Content[f], req)) /\ PipelineParses(RawsOf(Content[f], req))
        BY <4>3, <4>4, StepsAreWritten
      <4>7. QED BY <3>2, <4>5, <4>6, EnginesAgree
    <3>3. new.state = "ran" => new.did = Engine(TRUE, e.ops)
      <4> HIDE DEF may, e
      <4>1. QED BY <3>2
    <3> HIDE DEF new, may, e
    <3> WITNESS new
    <3>4. QED BY <3>1, <3>3
  <2>3. QED BY <2>1, <2>2
<1>3. ran'[q] = [ran[q] EXCEPT ![k] = new] /\ \A p \in Requests \ {q} : ran'[p] = ran[p]
  BY <1>2 DEF DeployInv
<1>4. RanOf(q)'
  <2>1. DOMAIN ran'[q] = DOMAIN ran[q] BY <1>3
  <2>2. \A m \in DOMAIN ran[q] : ran'[q][m] = IF m = k THEN new ELSE ran[q][m] BY <1>3
  <2>3. QED BY <1>1, <1>2, <2>1, <2>2 DEF DeployInv, RanOf
<1>5. ASSUME NEW p \in Requests, p # q PROVE RanOf(p)'
  <2>1. ran'[p] = ran[p] /\ deploy'[p] = deploy[p] BY <1>1, <1>3, <1>5
  <2>2. RanOf(p) BY DEF DeployInv
  <2>3. QED BY <2>1, <2>2 DEF RanOf
<1>6. DOMAIN ran' = Requests BY <1>2 DEF DeployInv
<1>7. QED BY <1>1, <1>4, <1>5, <1>6 DEF DeployInv, BuiltOf, ServiceOf, Asked

LEMMA DeployStep ==
  ASSUME TypeInv, ReloadInv, RequestInv, DeployInv, [Next]_vars PROVE DeployInv'
<1>1. CASE UNCHANGED <<request, deploy, ran>>
  BY <1>1 DEF DeployInv, BuiltOf, RanOf, ServiceOf, Asked
<1>2. ASSUME NEW q \in Requests, Arrive(q) PROVE DeployInv'
  <2>1. /\ request[q] = NoRequest /\ UNCHANGED <<deploy, ran>>
        /\ \A p \in Requests \ {q} : request'[p] = request[p]
        /\ request'[q].pc \in {"arrived", "known"}
    BY <1>2 DEF Arrive, Arrived, TypeInv
  <2>2. QED BY <2>1, DeployKept DEF NoRequest
<1>3. ASSUME NEW q \in Requests, Authenticate(q) \/ ReadFails(q) PROVE DeployInv'
  <2>1. /\ request[q].pc # "accepted" /\ UNCHANGED <<deploy, ran>>
        /\ \A p \in Requests \ {q} : request'[p] = request[p]
        /\ request'[q].pc \notin {"resolved", "accepted"}
    <3>1. request[q].pc # "none" BY <1>3 DEF Authenticate, ReadFails
    <3>2. request[q] \in RequestRecords BY <3>1, RequestFields
    <3>3. QED BY <1>3, <3>2 DEF Authenticate, ReadFails, TypeInv, RequestRecords
  <2>2. QED BY <2>1, DeployKept
<1>4. ASSUME NEW q \in Requests, Resolve(q) PROVE DeployInv'
  <2>1. request[q].pc = "known" /\ request[q] \in RequestRecords BY <1>4, RequestFields DEF Resolve
  <2>2. /\ UNCHANGED <<deploy, ran>> /\ \A p \in Requests \ {q} : request'[p] = request[p]
        /\ request'[q].pc = (IF Serves(q) THEN "resolved" ELSE "refused")
        /\ request'[q].file = served.file /\ request'[q].kind = request[q].kind
    BY <1>4, <2>1 DEF Resolve, TypeInv, RequestRecords
  <2>3. request'[q].pc \in {"resolved", "accepted"} /\ request'[q].kind = "task" =>
          ServiceOf(q)'.tasks # {}
    BY <2>2 DEF Serves, ServiceOf
  <2>4. QED BY <2>1, <2>2, <2>3, DeployKept
<1>5. ASSUME NEW q \in Requests, Submit(q) PROVE DeployInv' BY <1>5, SubmitDeploys
<1>6. ASSUME NEW q \in Requests, NEW k \in DOMAIN ran[q],
             RunsOnMain(q, k) \/ \E v \in Versions : RunsOnEdge(q, k, v)
      PROVE  DeployInv'
  BY <1>6, ExecRuns
<1>7. QED
  BY <1>1, <1>2, <1>3, <1>4, <1>5, <1>6
  DEF Next, vars, Edit, Load, Store, RegisterLocals, EdgeAttaches, CreateKey, RotateKey, RevokeKeys

LEMMA DeployInvHolds == Spec => []DeployInv
<1>1. IngressInv /\ DeployInv /\ [Next]_vars => DeployInv' BY DeployStep DEF IngressInv
<1>2. QED BY <1>1, InitDeploy, IngressInvHolds, PTL DEF Spec

(* What an engine did for an execution is what the file a request was       *)
(* served from writes for that instance: the steps that are for it, in      *)
(* order, with the payload filled in, as often and as long as written,      *)
(* through parsing, copying, JSON and whichever engine the hub lets run it  *)
(* (ops/ops.go, ops/modifiers.go:50-53, scheduler/build.go), of whatever    *)
(* files and versions; a step to be retried as often as an int can say is   *)
(* excused.                                                                 *)
THEOREM EnginesRunTheFile == Spec => []RunsAsWritten
<1>1. IngressInv /\ DeployInv => RunsAsWritten
  <2> SUFFICES ASSUME IngressInv, DeployInv, NEW q \in Requests, NEW k \in DOMAIN ran[q],
                      ran[q][k].state = "ran", Countable(RawsOf(FileOf(q), request[q]))
               PROVE  ran[q][k].did = Written(FileOf(q), request[q], deploy[q].execs[k].instance)
    BY DEF RunsAsWritten
  <2> DEFINE req == Asked(q)
             f == request[q].file
             e == deploy[q].execs[k]
             raws == RawsOf(Content[f], req)
  <2>1. k \in DOMAIN deploy[q].execs /\ ran[q][k].did = Engine(TRUE, e.ops) BY DEF DeployInv, RanOf
  <2>2. BuiltOf(q) BY <2>1 DEF DeployInv, NoDeploy
  <2>3. request[q].pc = "accepted" /\ f \in Accepted /\ deploy[q].execs = Execs(Loaded[f], req)
    BY <2>2 DEF BuiltOf, ServiceOf, RequestInv, IngressInv
  <2>4. request[q] \in RequestRecords BY <2>3, RequestFields DEF IngressInv
  <2>5. req.kind = request[q].kind /\ req.payload = request[q].payload
    BY <2>4 DEF Asked, RequestRecords
  <2>6. req.kind = "task" => Loaded[f].tasks # {} BY <2>3, <2>5 DEF DeployInv, ServiceOf
  <2>7. RawsOf(Content[f], request[q]) = raws BY <2>5 DEF RawsOf
  <2>8. Countable(raws) BY <2>7 DEF FileOf
  <2> HIDE DEF req, f, e
  <2>9. e.ops = Snapshot(raws, req.payload, e.instance) BY <2>1, <2>3, <2>6, OpsAre DEF e
  <2>10. IsPipeline(raws) /\ PipelineParses(raws) BY <2>3, <2>6, StepsAreWritten
  <2> HIDE DEF raws
  <2>11. Engine(TRUE, e.ops) = WrittenFor(raws, req.payload, e.instance)
    BY <2>8, <2>9, <2>10, EngineRuns
  <2>12. Written(Content[f], request[q], e.instance) = WrittenFor(raws, request[q].payload, e.instance)
    BY <2>7 DEF Written, Mine, WrittenFor
  <2>13. QED BY <2>1, <2>5, <2>11, <2>12 DEF FileOf, f, e
<1>2. QED BY <1>1, IngressInvHolds, DeployInvHolds, PTL

-----------------------------------------------------------------------------
(* What an accepted file makes of a deploy                                  *)

\* A bound on the time of all tries is one on their number.
LEMMA TriesTakeTime ==
  ASSUME NEW tries \in Int, tries >= 1, NEW t \in Int, t >= 1
  PROVE  /\ tries * t \in Int /\ tries <= tries * t
         /\ (tries - 1) * RetryInterval \in Int /\ 0 <= (tries - 1) * RetryInterval
<1> RetryInterval \in Nat BY OpsAssumption
<1>1. tries * t = tries + tries * (t - 1) OBVIOUS
<1>2. \A a, b \in Nat : a * b \in Nat OBVIOUS
<1>3. tries \in Nat /\ t - 1 \in Nat /\ tries - 1 \in Nat OBVIOUS
<1>4. tries * (t - 1) \in Nat /\ (tries - 1) * RetryInterval \in Nat BY <1>2, <1>3
<1>5. QED BY <1>1, <1>4

\* What is in the range of an int does not wrap.
LEMMA NoneWraps ==
  ASSUME NEW tries \in Int, tries >= 1, NEW t \in Int, t >= 1,
         tries * t + (tries - 1) * RetryInterval <= MaxInt
  PROVE  /\ tries <= MaxInt
         /\ Wrap(Wrap(tries * t) + Wrap((tries - 1) * RetryInterval)) =
              tries * t + (tries - 1) * RetryInterval
<1> DEFINE a == tries * t
           b == (tries - 1) * RetryInterval
<1>1. a \in Int /\ b \in Int /\ tries <= a /\ 0 <= b /\ a + b <= MaxInt BY TriesTakeTime
<1> HIDE DEF a, b
<1> MaxInt \in Nat BY OpsAssumption
<1>2. 0 <= a /\ a <= MaxInt /\ b <= MaxInt /\ a + b \in Int /\ 0 <= a + b BY <1>1
<1>3. Wrap(a) = a /\ Wrap(b) = b /\ Wrap(a + b) = a + b BY <1>1, <1>2, WrapFits
<1>4. tries <= MaxInt BY <1>1, <1>2
<1>5. Wrap(Wrap(a) + Wrap(b)) = a + b BY <1>3
<1>6. QED BY <1>4, <1>5 DEF a, b

\* Within the range of an int the tries of an accepted step fit the time of its service.
LEMMA TriesFit ==
  ASSUME NEW raw \in RawSteps, StepAccepted(raw), NEW payload, NEW timeout,
         BudgetFits(Parsed(raw), timeout)
  PROVE  LET s == Sent(raw, payload)
             tries == 1 + Only(s.retries, DefaultRetries(s.op)) IN
         s.timeout > 0 /\ InRange(tries, s) =>
           tries * s.timeout + (tries - 1) * RetryInterval <= timeout
<1> DEFINE s == Sent(raw, payload)
           p == Parsed(raw)
           tries == 1 + Only(s.retries, DefaultRetries(s.op))
<1>1. /\ s.retries = raw.retries /\ s.op = raw.op /\ s.timeout = p.timeout
      /\ p.retries = raw.retries /\ p.op = raw.op
  BY SentIs, ParsedIs
<1>2. p.timeout \in Int
  <2>1. raw.timeout \in SUBSET Int BY DEF RawSteps
  <2>2. QED BY <2>1 DEF Parsed
<1>3. tries \in Int /\ tries >= 1
  <2>1. raw.retries \in SUBSET Int BY DEF RawSteps
  <2>2. \A n \in raw.retries : n >= 0 BY DEF StepAccepted
  <2>3. DefaultRetries(raw.op) \in Nat BY DEF DefaultRetries
  <2>4. QED BY <1>1, <2>1, <2>2, <2>3 DEF Only
<1>4. tries <= MaxInt => Attempts(p) = tries
  <2>1. CASE raw.retries = {}
    <3>1. DefaultRetries(raw.op) \in Nat BY DEF DefaultRetries
    <3>2. QED BY <1>1, <2>1, <3>1 DEF Attempts, Only
  <2>2. CASE raw.retries # {}
    <3>1. PICK n : n = CHOOSE m \in raw.retries : TRUE OBVIOUS
    <3>2. tries = 1 + n /\ Attempts(p) = Wrap(n + 1) BY <1>1, <2>2, <3>1 DEF Only, Attempts
    <3>3. n \in Int
      <4>1. n \in raw.retries /\ raw.retries \in SUBSET Int BY <2>2, <3>1 DEF RawSteps
      <4>2. QED BY <4>1
    <3>4. tries = n + 1 BY <3>2, <3>3
    <3> HIDE DEF tries
    <3>5. tries <= MaxInt => Wrap(tries) = tries BY <1>3, WrapFits
    <3>6. QED BY <3>2, <3>4, <3>5
  <2>3. QED BY <2>1, <2>2
<1> HIDE DEF s, p, tries
<1>5. SUFFICES ASSUME s.timeout > 0, InRange(tries, s)
               PROVE  tries * s.timeout + (tries - 1) * RetryInterval <= timeout
  BY DEF s, tries
<1> DEFINE t == p.timeout
<1>6. t \in Int /\ t >= 1 /\ s.timeout = t BY <1>1, <1>2, <1>5
<1>7. tries * t + (tries - 1) * RetryInterval <= MaxInt BY <1>5, <1>6 DEF InRange
<1>8. Attempts(p) = tries BY <1>3, <1>4, <1>6, <1>7, NoneWraps
<1>9. Worst(p) = tries * t + (tries - 1) * RetryInterval
  BY <1>3, <1>6, <1>7, <1>8, NoneWraps DEF Worst
<1>10. Worst(p) <= timeout BY <1>6 DEF BudgetFits, p
<1>11. QED BY <1>6, <1>9, <1>10

\* A snapshot of an accepted pipeline can work: it runs, deploys its pin, and fits its time.
LEMMA SnapshotIsSound ==
  ASSUME NEW raw, NEW raws, IsPipeline(raws), PipelineParses(raws), NEW timeout,
         PipelineAccepted(raw, ParsePipeline(raws), timeout),
         NEW payload, NEW name \in InstanceNames(raw), NEW e, e.image = raw.image,
         e.timeout = timeout, e.ops = Snapshot(raws, payload, name)
  PROVE  ExecIsSound(e)
<1> DEFINE mine == Mine(raws, name)
           parsed == ParsePipeline(raws)
           own == StepsFor(parsed, name)
           steps == UnmarshalSteps(e.ops)
<1>1. /\ DOMAIN mine = 1..Len(mine)
      /\ \A j \in DOMAIN mine : mine[j] \in DOMAIN raws
  BY MineIsInside
<1>2. own = [j \in DOMAIN mine |-> Parsed(raws[mine[j]])] BY StepsAreMine
<1>3. steps = [j \in DOMAIN mine |-> Sent(raws[mine[j]], payload)]
  <2>1. PICK js : js = Snapshot(raws, payload, name) OBVIOUS
  <2>2. DOMAIN js = DOMAIN mine /\ \A j \in DOMAIN mine : Unmarshal(js[j]) = Sent(raws[mine[j]], payload)
    BY <2>1, SnapshotRead
  <2>3. steps = UnmarshalSteps(js) BY <2>1
  <2> HIDE DEF steps, mine
  <2>4. QED BY <2>2, <2>3 DEF UnmarshalSteps
<1>4. own # <<>> /\ PinVerified(own) BY DEF PipelineAccepted, PinsVerified
<1>5. ASSUME NEW j \in DOMAIN mine
      PROVE  /\ Sent(raws[mine[j]], payload).op = Parsed(raws[mine[j]]).op
             /\ Parsed(raws[mine[j]]) \in Elements(parsed)
  <2>1. Sent(raws[mine[j]], payload).op = Parsed(raws[mine[j]]).op BY SentIs, ParsedIs
  <2>2. mine[j] \in DOMAIN raws BY <1>1
  <2>3. QED BY <2>1, <2>2 DEF Elements, ParsePipeline
<1> HIDE DEF mine, parsed, own, steps
<1>6. steps # <<>>
  <2>1. SUFFICES ASSUME steps = <<>> PROVE FALSE OBVIOUS
  <2>2. DOMAIN mine = {} BY <1>3, <2>1
  <2>3. own = <<>> BY <1>2, <2>2
  <2>4. QED BY <1>4, <2>3
<1>7. ASSUME NEW k \in DOMAIN steps, steps[k].op = "image.pin"
      PROVE  e.image # Unset /\ \E m \in DOMAIN steps : m > k /\ steps[m].op = "compose.up"
  <2>1. k \in DOMAIN mine /\ own[k].op = "image.pin" /\ own[k] \in Elements(parsed)
    BY <1>2, <1>3, <1>5, <1>7
  <2>2. raw.image # Unset BY <2>1 DEF PipelineAccepted, parsed
  <2>3. PICK m \in DOMAIN own : m > k /\ own[m].op = "compose.up"
    BY <1>2, <1>4, <2>1 DEF PinVerified
  <2>4. m \in DOMAIN steps /\ steps[m].op = "compose.up" BY <1>2, <1>3, <1>5, <2>3
  <2>5. QED BY <2>2, <2>3, <2>4
<1>8. ASSUME NEW k \in DOMAIN steps
      PROVE  LET tries == 1 + Only(steps[k].retries, DefaultRetries(steps[k].op)) IN
             steps[k].timeout > 0 /\ InRange(tries, steps[k]) =>
               tries * steps[k].timeout + (tries - 1) * RetryInterval <= e.timeout
  <2> DEFINE r == raws[mine[k]]
  <2>1. k \in DOMAIN mine /\ steps[k] = Sent(r, payload) BY <1>3
  <2>2. mine[k] \in DOMAIN raws /\ Parsed(r) \in Elements(parsed) BY <1>1, <1>5, <2>1
  <2>3. r \in RawSteps
    <3>1. raws \in Seq(RawSteps) BY DEF IsPipeline
    <3>2. QED BY <2>2, <3>1
  <2>4. StepAccepted(r) BY <2>2 DEF PipelineParses
  <2>5. BudgetFits(Parsed(r), timeout) BY <2>2 DEF PipelineAccepted, parsed
  <2> HIDE DEF r
  <2>6. QED BY <2>1, <2>3, <2>4, <2>5, TriesFit
<1>9. QED BY <1>6, <1>7, <1>8 DEF ExecIsSound, steps

\* The rollout names instances of the file.
LEMMA TheNames ==
  ASSUME NEW f \in Accepted
  PROVE  \A v \in DOMAIN Loaded[f].rollout : \A k \in DOMAIN Loaded[f].rollout[v] :
           Loaded[f].rollout[v][k] \in InstanceNames(Content[f].service)
<1> DEFINE raw == Content[f].service
<1>1. RolloutAccepted(raw) BY LoadedIs DEF FileAccepted, ServiceAccepted
<1>2. Loaded[f].rollout = RolloutOf(raw) BY NormalizedIs
<1>3. CASE raw.rollout # <<>>
  <2>1. Loaded[f].rollout = raw.rollout BY <1>2, <1>3 DEF RolloutOf
  <2>2. \A w \in Elements(raw.rollout) : Elements(w) \subseteq InstanceNames(raw)
    BY <1>1, <1>3 DEF RolloutAccepted
  <2>3. QED BY <2>1, <2>2 DEF Elements
<1>4. CASE raw.rollout = <<>>
  <2>1. Loaded[f].rollout = [k \in DOMAIN InstancesOf(raw) |-> <<InstancesOf(raw)[k].name>>]
    BY <1>2, <1>4 DEF RolloutOf
  <2>2. \A k \in DOMAIN InstancesOf(raw) : InstancesOf(raw)[k].name \in InstanceNames(raw)
    BY DEF InstanceNames, Elements
  <2>3. QED BY <2>1, <2>2
<1>5. QED BY <1>3, <1>4

\* Each instance has one place in the rollout.
LEMMA OnePlace ==
  ASSUME NEW f \in Accepted, NamedOnce(Content[f].service),
         NEW name \in InstanceNames(Content[f].service)
  PROVE  \E v \in DOMAIN Loaded[f].rollout : \E k \in DOMAIN Loaded[f].rollout[v] :
           /\ Loaded[f].rollout[v][k] = name
           /\ \A u \in DOMAIN Loaded[f].rollout : \A m \in DOMAIN Loaded[f].rollout[u] :
                Loaded[f].rollout[u][m] = name => u = v /\ m = k
<1> DEFINE raw == Content[f].service
           ro == Loaded[f].rollout
<1>1. RolloutAccepted(raw) /\ IsService(raw) BY LoadedIs DEF FileAccepted, ServiceAccepted
<1>2. ro = RolloutOf(raw) BY NormalizedIs
<1>3. CASE raw.rollout # <<>>
  <2>1. ro = raw.rollout BY <1>2, <1>3 DEF RolloutOf
  <2>2. Once(raw, name) BY <1>1, <1>3 DEF RolloutAccepted
  <2>3. PICK v \in DOMAIN ro : \E k \in DOMAIN ro[v] :
          /\ ro[v][k] = name
          /\ \A u \in DOMAIN ro : Positions(ro[u], name) = IF u = v THEN {k} ELSE {}
    BY <2>1, <2>2 DEF Once
  <2>4. PICK k \in DOMAIN ro[v] :
          /\ ro[v][k] = name
          /\ \A u \in DOMAIN ro : Positions(ro[u], name) = IF u = v THEN {k} ELSE {}
    BY <2>3
  <2> HIDE DEF ro
  <2>5. ASSUME NEW u \in DOMAIN ro, NEW m \in DOMAIN ro[u], ro[u][m] = name PROVE u = v /\ m = k
    <3>1. m \in Positions(ro[u], name) BY <2>5 DEF Positions
    <3>2. QED BY <2>4, <3>1
  <2>6. QED BY <2>4, <2>5 DEF ro
<1>4. CASE raw.rollout = <<>>
  <2> DEFINE all == InstancesOf(raw)
  <2>1. ro = [k \in DOMAIN all |-> <<all[k].name>>] BY <1>2, <1>4 DEF RolloutOf
  <2>2. PICK v \in DOMAIN all : all[v].name = name BY DEF InstanceNames, Elements
  <2>3. ASSUME NEW u \in DOMAIN all, all[u].name = name PROVE u = v
    <3>1. CASE Sugar(raw)
      <4>1. DOMAIN all = 1..1 BY <1>1, <3>1, InstancesAre
      <4>2. QED BY <2>2, <4>1
    <3>2. CASE ~Sugar(raw)
      <4>1. u \in DOMAIN raw.instances /\ v \in DOMAIN raw.instances
            /\ raw.instances[u].name = raw.instances[v].name
        BY <1>1, <2>2, <2>3, <3>2, InstancesAre
      <4>2. QED BY <4>1 DEF NamedOnce
    <3>3. QED BY <3>1, <3>2
  <2> HIDE DEF all, ro
  <2>4. v \in DOMAIN ro /\ 1 \in DOMAIN ro[v] /\ ro[v][1] = name BY <2>1, <2>2
  <2>5. ASSUME NEW u \in DOMAIN ro, NEW m \in DOMAIN ro[u], ro[u][m] = name PROVE u = v /\ m = 1
    <3>1. u \in DOMAIN all /\ ro[u] = <<all[u].name>> BY <2>1
    <3>2. m = 1 /\ all[u].name = name BY <2>5, <3>1
    <3>3. QED BY <2>3, <3>1, <3>2
  <2>6. QED BY <2>4, <2>5 DEF ro
<1>5. QED BY <1>3, <1>4

\* The executions of a rollout and the places in its waves are each other's.
PlaceOf(svc, req, v, k) == Len(Rolled(svc, req)[v - 1]) + k

LEMMA RolledOut ==
  ASSUME NEW f \in Accepted, NEW req, req.kind # "task"
  PROVE  /\ DOMAIN Loaded[f].rollout = 1..Len(Loaded[f].rollout)
         /\ Placed(Loaded[f], req, Len(Loaded[f].rollout))
         /\ Execs(Loaded[f], req) = Rolled(Loaded[f], req)[Len(Loaded[f].rollout)]
<1>1. Loaded[f].rollout \in Seq(Seq(STRING)) BY RolloutTypes
<1> DEFINE svc == Loaded[f]
<1> HIDE DEF svc
<1>2. svc.rollout \in Seq(Seq(STRING)) BY <1>1 DEF svc
<1>3. Len(svc.rollout) \in 0..Len(svc.rollout) /\ DOMAIN svc.rollout = 1..Len(svc.rollout) BY <1>2
<1>4. Placed(svc, req, Len(svc.rollout)) BY <1>2, <1>3, AllPlaced
<1>5. Execs(svc, req) = Rolled(svc, req)[Len(svc.rollout)] BY RolledIs
<1>6. QED BY <1>3, <1>4, <1>5 DEF svc

LEMMA PlacesAreExecs ==
  ASSUME NEW f \in Accepted, NEW req, req.kind # "task",
         NEW v \in DOMAIN Loaded[f].rollout, NEW k \in DOMAIN Loaded[f].rollout[v]
  PROVE  /\ PlaceOf(Loaded[f], req, v, k) \in DOMAIN Execs(Loaded[f], req)
         /\ Execs(Loaded[f], req)[PlaceOf(Loaded[f], req, v, k)] =
              NewExec(Loaded[f], req, Loaded[f].rollout[v][k], v - 1)
<1> DEFINE svc == Loaded[f]
           n == Len(svc.rollout)
<1>1. v \in 1..n /\ Placed(svc, req, n) /\ Execs(svc, req) = Rolled(svc, req)[n] BY RolledOut
<1> HIDE DEF svc, n
<1>2. k \in DOMAIN svc.rollout[v] BY DEF svc
<1>3. PICK j : j = PlaceOf(svc, req, v, k) OBVIOUS
<1>4. j \in DOMAIN Rolled(svc, req)[n]
      /\ Rolled(svc, req)[n][j] = NewExec(svc, req, svc.rollout[v][k], v - 1)
  BY <1>1, <1>2, <1>3 DEF Placed, PlaceOf
<1>5. QED BY <1>1, <1>3, <1>4 DEF svc

LEMMA ExecsHavePlaces ==
  ASSUME NEW f \in Accepted, NEW req, req.kind # "task", NEW j \in DOMAIN Execs(Loaded[f], req)
  PROVE  \E v \in DOMAIN Loaded[f].rollout : \E k \in DOMAIN Loaded[f].rollout[v] :
           /\ j = PlaceOf(Loaded[f], req, v, k)
           /\ Execs(Loaded[f], req)[j] = NewExec(Loaded[f], req, Loaded[f].rollout[v][k], v - 1)
<1> DEFINE svc == Loaded[f]
           n == Len(svc.rollout)
<1>1. /\ DOMAIN svc.rollout = 1..n /\ Placed(svc, req, n)
      /\ Execs(svc, req) = Rolled(svc, req)[n]
  BY RolledOut
<1> HIDE DEF svc, n
<1>2. j \in DOMAIN Rolled(svc, req)[n] BY <1>1 DEF svc
<1>3. PICK v \in 1..n : \E k \in DOMAIN svc.rollout[v] : j = PlaceOf(svc, req, v, k)
  BY <1>1, <1>2 DEF Placed, PlaceOf
<1>4. PICK k \in DOMAIN svc.rollout[v] : j = PlaceOf(svc, req, v, k) BY <1>3
<1>5. v \in DOMAIN svc.rollout BY <1>1
<1>6. Execs(svc, req)[j] = NewExec(svc, req, svc.rollout[v][k], v - 1)
  BY <1>4, <1>5, PlacesAreExecs DEF svc
<1>7. QED BY <1>4, <1>5, <1>6 DEF svc

\* A task runs on the one instance it is asked for.
LEMMA TaskTargets ==
  ASSUME NEW f \in Accepted, NEW req, req.kind = "task", Buildable(Loaded[f], req)
  PROVE  /\ Execs(Loaded[f], req) = <<NewExec(Loaded[f], req, Targeted(Loaded[f], req), 0)>>
         /\ Targeted(Loaded[f], req) \in InstanceNames(Content[f].service)
         /\ req.instance \in {Unset, Targeted(Loaded[f], req)}
<1>1. Loaded[f].instances = InstancesOf(Content[f].service) BY NormalizedIs
<1>2. Targeted(Loaded[f], req) \in InstanceNames(Content[f].service)
  BY <1>1 DEF Buildable, TargetKnown, InstanceNames
<1>3. QED BY <1>2 DEF Execs, Targeted

\* An execution is of an instance in the file, ...
LEMMA ExecsAreNamed ==
  ASSUME NEW f \in Accepted, NEW req, Buildable(Loaded[f], req),
         NEW j \in DOMAIN Execs(Loaded[f], req)
  PROVE  \E name \in InstanceNames(Content[f].service) : \E w :
           Execs(Loaded[f], req)[j] = NewExec(Loaded[f], req, name, w)
<1>1. CASE req.kind = "task"
  <2>1. j = 1 BY <1>1, TaskTargets
  <2>2. QED BY <1>1, <2>1, TaskTargets
<1>2. CASE req.kind # "task"
  <2>1. PICK v \in DOMAIN Loaded[f].rollout : \E k \in DOMAIN Loaded[f].rollout[v] :
          Execs(Loaded[f], req)[j] = NewExec(Loaded[f], req, Loaded[f].rollout[v][k], v - 1)
    BY <1>2, ExecsHavePlaces
  <2>2. QED BY <2>1, TheNames
<1>3. QED BY <1>1, <1>2

\* ... and sound.
LEMMA ExecsAreSound ==
  ASSUME NEW f \in Accepted, NEW req, Buildable(Loaded[f], req),
         req.kind = "task" => Loaded[f].tasks # {},
         NEW j \in DOMAIN Execs(Loaded[f], req)
  PROVE  ExecIsSound(Execs(Loaded[f], req)[j])
<1> DEFINE raw == Content[f].service
           raws == RawsOf(Content[f], req)
<1>1. PICK name \in InstanceNames(raw) : \E w :
        Execs(Loaded[f], req)[j] = NewExec(Loaded[f], req, name, w)
  BY ExecsAreNamed
<1>2. PICK w : Execs(Loaded[f], req)[j] = NewExec(Loaded[f], req, name, w) BY <1>1
<1>3. PICK e : e = NewExec(Loaded[f], req, name, w) OBVIOUS
<1>4. /\ IsPipeline(raws) /\ PipelineParses(raws) /\ StepsOf(Loaded[f], req) = ParsePipeline(raws)
      /\ PipelineAccepted(raw, ParsePipeline(raws), TimeoutOf(raw))
  BY StepsAreWritten
<1>5. e.image = raw.image /\ e.timeout = TimeoutOf(raw) BY <1>3, NormalizedIs DEF NewExec
<1>6. e.ops = Snapshot(raws, req.payload, name) BY <1>3, <1>4 DEF NewExec, Snapshot
<1> HIDE DEF raw, raws
<1>7. ExecIsSound(e) BY <1>4, <1>5, <1>6, SnapshotIsSound
<1>8. QED BY <1>2, <1>3, <1>7

\* Each instance has one execution, ...
LEMMA OneExec ==
  ASSUME NEW f \in Accepted, NamedOnce(Content[f].service), NEW req, req.kind # "task",
         NEW name \in InstanceNames(Content[f].service)
  PROVE  Cardinality({j \in DOMAIN Execs(Loaded[f], req) : Execs(Loaded[f], req)[j].instance = name}) = 1
<1> DEFINE ro == Loaded[f].rollout
           execs == Execs(Loaded[f], req)
           At(v, k) == PlaceOf(Loaded[f], req, v, k)
           his == {j \in DOMAIN execs : execs[j].instance = name}
<1>1. PICK v \in DOMAIN ro : \E k \in DOMAIN ro[v] :
        /\ ro[v][k] = name
        /\ \A u \in DOMAIN ro : \A m \in DOMAIN ro[u] : ro[u][m] = name => u = v /\ m = k
  BY OnePlace
<1>2. PICK k \in DOMAIN ro[v] :
        /\ ro[v][k] = name
        /\ \A u \in DOMAIN ro : \A m \in DOMAIN ro[u] : ro[u][m] = name => u = v /\ m = k
  BY <1>1
<1>3. \A i, w : NewExec(Loaded[f], req, i, w).instance = i BY DEF NewExec
<1>4. At(v, k) \in DOMAIN execs /\ execs[At(v, k)] = NewExec(Loaded[f], req, name, v - 1)
  BY <1>2, PlacesAreExecs
<1>5. ASSUME NEW j \in DOMAIN execs, execs[j].instance = name PROVE j = At(v, k)
  <2>1. PICK u \in DOMAIN ro : \E m \in DOMAIN ro[u] :
          j = At(u, m) /\ execs[j] = NewExec(Loaded[f], req, ro[u][m], u - 1)
    BY ExecsHavePlaces
  <2>2. PICK m \in DOMAIN ro[u] :
          j = At(u, m) /\ execs[j] = NewExec(Loaded[f], req, ro[u][m], u - 1)
    BY <2>1
  <2>3. ro[u][m] = name BY <1>3, <1>5, <2>2
  <2>4. QED BY <1>2, <2>2, <2>3
<1> DEFINE x == At(v, k)
<1>6. execs[x].instance = name BY <1>3, <1>4
<1> HIDE DEF ro, execs, x, At
<1>7. his = {x} BY <1>4, <1>5, <1>6 DEF x
<1>8. QED BY <1>7, FS_Singleton DEF execs

\* ... in the wave that is written.
LEMMA WavesAreWritten ==
  ASSUME NEW f \in Accepted, NEW req, req.kind # "task", NEW j \in DOMAIN Execs(Loaded[f], req)
  PROVE  WaveIsWritten(Content[f].service, Execs(Loaded[f], req)[j])
<1> DEFINE raw == Content[f].service
           ro == Loaded[f].rollout
<1>1. PICK v \in DOMAIN ro : \E k \in DOMAIN ro[v] :
        Execs(Loaded[f], req)[j] = NewExec(Loaded[f], req, ro[v][k], v - 1)
  BY ExecsHavePlaces
<1>2. PICK k \in DOMAIN ro[v] : Execs(Loaded[f], req)[j] = NewExec(Loaded[f], req, ro[v][k], v - 1)
  BY <1>1
<1>3. PICK e : e = NewExec(Loaded[f], req, ro[v][k], v - 1) OBVIOUS
<1>4. e.instance = ro[v][k] /\ e.wave = v - 1 BY <1>3 DEF NewExec
<1>5. v \in Nat
  <2>1. ro \in Seq(Seq(STRING)) BY RolloutTypes
  <2> HIDE DEF ro
  <2>2. QED BY <2>1
<1>6. e.wave + 1 = v BY <1>4, <1>5
<1>7. ro = RolloutOf(raw) BY NormalizedIs
<1>8. CASE raw.rollout # <<>>
  <2>1. ro = raw.rollout BY <1>7, <1>8 DEF RolloutOf
  <2>2. QED BY <1>2, <1>3, <1>4, <1>6, <1>8, <2>1 DEF WaveIsWritten, Elements
<1>9. CASE raw.rollout = <<>>
  <2>1. ro = [m \in DOMAIN InstancesOf(raw) |-> <<InstancesOf(raw)[m].name>>]
    BY <1>7, <1>9 DEF RolloutOf
  <2> HIDE DEF ro
  <2>2. ro[v][k] = InstancesOf(raw)[v].name BY <2>1
  <2>3. QED BY <1>2, <1>3, <1>4, <1>6, <1>9, <2>2 DEF WaveIsWritten, ro
<1>10. QED BY <1>8, <1>9

(* A deploy that is accepted can work, whatever the files: every execution  *)
(* has steps, an image to pin and a step that deploys it, and time for the  *)
(* tries of each of its steps; every instance has one execution, in the     *)
(* wave the file writes; a task has the one it was asked for                *)
(* (config.go:421-479, scheduler/build.go).                                 *)
THEOREM AcceptedWorks == Spec => []AcceptedIsSound
<1>1. IngressInv /\ DeployInv => AcceptedIsSound
  <2> SUFFICES ASSUME IngressInv, DeployInv, NEW q \in Requests, deploy[q].built,
                      NamedOnce(FileOf(q).service)
               PROVE  LET execs == deploy[q].execs
                          raw == FileOf(q).service IN
                      /\ \A k \in DOMAIN execs : ExecIsSound(execs[k])
                      /\ request[q].kind # "task" =>
                           /\ \A name \in InstanceNames(raw) :
                                Cardinality({k \in DOMAIN execs : execs[k].instance = name}) = 1
                           /\ \A k \in DOMAIN execs : WaveIsWritten(raw, execs[k])
                      /\ request[q].kind = "task" =>
                           Len(execs) = 1 /\ request[q].instance \in {Unset, execs[1].instance}
    BY DEF AcceptedIsSound
  <2> DEFINE req == Asked(q)
             f == request[q].file
             execs == deploy[q].execs
  <2>1. BuiltOf(q) BY DEF DeployInv, NoDeploy
  <2>2. /\ request[q].pc = "accepted" /\ f \in Accepted /\ execs = Execs(Loaded[f], req)
        /\ Buildable(Loaded[f], req)
    BY <2>1 DEF BuiltOf, ServiceOf, RequestInv, IngressInv
  <2>3. request[q] \in RequestRecords BY <2>2, RequestFields DEF IngressInv
  <2>4. req.kind = request[q].kind /\ req.instance = request[q].instance
    BY <2>3 DEF Asked, RequestRecords
  <2>5. req.kind = "task" => Loaded[f].tasks # {} BY <2>2, <2>4 DEF DeployInv, ServiceOf
  <2>6. NamedOnce(Content[f].service) BY DEF FileOf
  <2>7. FileOf(q) = Content[f] BY DEF FileOf
  <2> HIDE DEF req, f, execs
  <2>8. \A k \in DOMAIN execs : ExecIsSound(execs[k]) BY <2>2, <2>5, ExecsAreSound
  <2>9. CASE req.kind # "task"
    <3>1. \A name \in InstanceNames(Content[f].service) :
            Cardinality({k \in DOMAIN execs : execs[k].instance = name}) = 1
      BY <2>2, <2>6, <2>9, OneExec
    <3>2. \A k \in DOMAIN execs : WaveIsWritten(Content[f].service, execs[k])
      BY <2>2, <2>9, WavesAreWritten
    <3>3. QED BY <2>4, <2>7, <2>8, <2>9, <3>1, <3>2 DEF execs
  <2>10. CASE req.kind = "task"
    <3> DEFINE target == Targeted(Loaded[f], req)
    <3>1. execs = <<NewExec(Loaded[f], req, target, 0)>> /\ req.instance \in {Unset, target}
      BY <2>2, <2>10, TaskTargets
    <3>2. PICK e : e = NewExec(Loaded[f], req, target, 0) OBVIOUS
    <3>3. e.instance = target BY <3>2 DEF NewExec
    <3> HIDE DEF target
    <3>4. Len(execs) = 1 /\ execs[1] = e BY <3>1, <3>2
    <3>5. QED BY <2>4, <2>8, <2>10, <3>1, <3>3, <3>4 DEF execs
  <2>11. QED BY <2>9, <2>10
<1>2. QED BY <1>1, IngressInvHolds, DeployInvHolds, PTL
=============================================================================
