------------------------ MODULE RouteLedger_proofs ------------------------
(***************************************************************************)
(* The ledger's pairing transactions, taken in any order and with any set  *)
(* of Workers connected, keep the invariants of RouteLedger: for every set *)
(* of Workers and every number of proposals, routes and state versions.    *)
(***************************************************************************)
EXTENDS RouteLedger, TLAPS

\* Route identifiers are issued in order and never reused, so that a route_id
\* names one route (_issue_pair_route_id_locked).
RouteIdsIssued ==
    /\ \A r \in routes : r.id <= issued
    /\ \A r, s \in routes : r.id = s.id => r = s

LedgerInv ==
    /\ LedgerTypeOK
    /\ WorkerOnOneRoute
    /\ ClaimsBacked
    /\ AssertionsBound
    /\ RouteIdsIssued

\* A change of state alone leaves a route's identity and its Workers.
LEMMA RouteUpdate ==
    ASSUME NEW r \in Route, NEW s \in {"ACTIVE", "UNPAIRING"}
    PROVE  LET t == [r EXCEPT !.state = s] IN
           /\ t \in Route /\ t.id = r.id /\ t.state = s /\ Pair(t) = Pair(r)
  BY DEF Route, Pair

\* Nor does the lapse of a reservation change its Workers.
LEMMA ReservationUpdate ==
    ASSUME NEW p \in Reservation
    PROVE  LET t == [p EXCEPT !.lapsed = TRUE] IN
           /\ t \in Reservation /\ Pair(t) = Pair(p)
  BY DEF Reservation, Pair

\* A route and a reservation name Workers of the ledger.
LEMMA PairsOfWorkers ==
    /\ \A r \in Route : Pair(r) \subseteq Workers /\ Pair(r) # {}
    /\ \A p \in Reservation : Pair(p) \subseteq Workers /\ Pair(p) # {}
  BY DEF Route, Reservation, Pair

\* Expiry only removes reservations.
LEMMA UnexpiredSubset == Unexpired \subseteq reservations
  BY DEF Unexpired
----------------------------------------------------------------------------
\* An empty ledger.
LEMMA InitInv == LedgerInit => LedgerInv
<1> SUFFICES ASSUME LedgerInit PROVE LedgerInv
  OBVIOUS
<1> USE LedgerAssumption DEF LedgerAssumption
<1>1. LedgerTypeOK
  BY DEF LedgerInit, LedgerTypeOK, Absent, Versions, RouteIds
<1>2. WorkerOnOneRoute /\ ClaimsBacked /\ RouteIdsIssued
  BY DEF LedgerInit, WorkerOnOneRoute, ClaimsBacked, RouteIdsIssued
<1>3. AssertionsBound
  BY DEF LedgerInit, AssertionsBound
<1> QED
  BY <1>1, <1>2, <1>3 DEF LedgerInv

\* Type correctness, one transaction after the other.
LEMMA TypeStep == LedgerTypeOK /\ [LedgerNext]_ledger => LedgerTypeOK'
<1> SUFFICES ASSUME LedgerTypeOK, [LedgerNext]_ledger PROVE LedgerTypeOK'
  OBVIOUS
<1> USE LedgerAssumption DEF LedgerAssumption
<1>1. ASSUME NEW p \in reservations, Lapse(p) PROVE LedgerTypeOK'
  BY <1>1, ReservationUpdate DEF Lapse, LedgerTypeOK, unpair
<1>2. ASSUME NEW l \in Workers, NEW f \in Workers, NEW connected \in SUBSET Workers,
             Reserve(l, f, connected)
      PROVE  LedgerTypeOK'
  <2>1. reservations' \subseteq Reservation
    <3>1. [id |-> proposed', leader |-> l, follower |-> f, lapsed |-> FALSE] \in Reservation
      BY <1>2 DEF Reserve, LedgerTypeOK, Reservation, ProposalIds
    <3> QED
      BY <1>2, <3>1, UnexpiredSubset DEF Reserve, LedgerTypeOK
  <2>2. claims' \subseteq SUBSET Workers
    BY <1>2 DEF Reserve, LedgerTypeOK, UnexpiredClaims, ClaimsWithout
  <2> QED
    BY <1>2, <2>1, <2>2 DEF Reserve, LedgerTypeOK, unpair
<1>3. ASSUME NEW p \in reservations, NEW connected \in SUBSET Workers, CreateRoute(p, connected)
      PROVE  LedgerTypeOK'
  <2>1. routes' \subseteq Route
    BY <1>3 DEF CreateRoute, LedgerTypeOK, Reservation, Route, RouteIds
  <2>2. claims' \subseteq SUBSET Workers
    BY <1>3, PairsOfWorkers DEF CreateRoute, LedgerTypeOK, UnexpiredClaims, ClaimsWithout
  <2> QED
    BY <1>3, <2>1, <2>2, UnexpiredSubset DEF CreateRoute, LedgerTypeOK, unpair
<1>4. ASSUME NEW ps \in SUBSET reservations, Release(ps) PROVE LedgerTypeOK'
  BY <1>4 DEF Release, LedgerTypeOK, ClaimsWithout, unpair
<1>5. ASSUME NEW p \in reservations, NEW connected \in SUBSET Workers, CreateFails(p, connected)
      PROVE  LedgerTypeOK'
  BY <1>5, <1>4 DEF CreateFails
<1>6. ASSUME NEW r \in routes, NEW w \in Workers, EnterUnpairing(r, w) \/ CancelUnpairing(r, w)
      PROVE  LedgerTypeOK'
  <2>1. routes' \subseteq Route
    <3>1. [r EXCEPT !.state = "UNPAIRING"] \in Route /\ [r EXCEPT !.state = "ACTIVE"] \in Route
      BY RouteUpdate DEF LedgerTypeOK
    <3> QED
      BY <1>6, <3>1 DEF EnterUnpairing, CancelUnpairing, LedgerTypeOK
  <2>2. assertions' \in [RouteIds -> [Workers -> Versions \cup {Absent}]]
    BY <1>6 DEF EnterUnpairing, CancelUnpairing, RemoveAssertions, LedgerTypeOK
  <2> QED
    BY <1>6, <2>1, <2>2 DEF EnterUnpairing, CancelUnpairing, LedgerTypeOK
<1>7. ASSUME NEW r \in routes, NEW w \in Workers, NEW v \in Versions, RecordVersion(r, w, v)
      PROVE  LedgerTypeOK'
  <2>1. versions' \in [RouteIds -> [Workers -> Versions \cup {Absent}]]
    BY <1>7 DEF RecordVersion, LedgerTypeOK
  <2>2. assertions' \in [RouteIds -> [Workers -> Versions \cup {Absent}]]
    BY <1>7 DEF RecordVersion, RemoveAssertions, LedgerTypeOK
  <2> QED
    BY <1>7, <2>1, <2>2 DEF RecordVersion, LedgerTypeOK, pairing
<1>8. ASSUME NEW rs \in SUBSET routes, RemoveRoutes(rs)
      PROVE  /\ routes' \subseteq Route
             /\ versions' \in [RouteIds -> [Workers -> Versions \cup {Absent}]]
             /\ assertions' \in [RouteIds -> [Workers -> Versions \cup {Absent}]]
  BY <1>8 DEF RemoveRoutes, LedgerTypeOK
<1>9. ASSUME NEW r \in routes, NEW w \in Workers, NEW v \in Versions, RecordAssertion(r, w, v)
      PROVE  LedgerTypeOK'
  <2>1. CASE PeerFresh(r, w)
    BY <1>9, <2>1, <1>8 DEF RecordAssertion, LedgerTypeOK
  <2>2. CASE ~PeerFresh(r, w)
    <3>0. /\ versions' = [versions EXCEPT ![r.id][w] = v]
          /\ assertions' = [assertions EXCEPT ![r.id][w] = v]
      BY <1>9, <2>2 DEF RecordAssertion
    <3>1. versions' \in [RouteIds -> [Workers -> Versions \cup {Absent}]]
      BY <3>0 DEF LedgerTypeOK
    <3>2. assertions' \in [RouteIds -> [Workers -> Versions \cup {Absent}]]
      BY <3>0 DEF LedgerTypeOK
    <3>3. UNCHANGED <<status, routes, reservations, claims, proposed, issued>>
      BY <1>9, <2>2 DEF RecordAssertion, pairing
    <3> QED
      BY <3>1, <3>2, <3>3 DEF LedgerTypeOK
  <2> QED
    BY <2>1, <2>2
<1>10. ASSUME NEW w \in Workers, Revoke(w) PROVE LedgerTypeOK'
  BY <1>10 DEF Revoke, LedgerTypeOK, pairing, unpair
<1>11. ASSUME NEW w \in Workers, Delete(w) PROVE LedgerTypeOK'
  <2>1. status' \in [Workers -> {"none", "active", "revoked"}] /\ reservations' \subseteq Reservation
        /\ claims' \subseteq SUBSET Workers
    BY <1>11 DEF Delete, LedgerTypeOK
  <2>2. RemoveRoutes({r \in routes : w \in Pair(r)})
    BY <1>11 DEF Delete
  <2> QED
    BY <1>11, <2>1, <2>2, <1>8 DEF Delete, LedgerTypeOK
<1>12. ASSUME NEW w \in Workers, Approve(w) PROVE LedgerTypeOK'
  BY <1>12 DEF Approve, LedgerTypeOK, pairing, unpair
<1>13. CASE ExpireLapsed
  BY <1>13, UnexpiredSubset DEF ExpireLapsed, LedgerTypeOK, UnexpiredClaims, ClaimsWithout, unpair
<1>14. CASE DropOrphanedClaims
  BY <1>14 DEF DropOrphanedClaims, LedgerTypeOK, unpair
<1>15. CASE UNCHANGED ledger
  BY <1>15 DEF ledger, pairing, unpair, LedgerTypeOK
<1> QED
  BY <1>1, <1>2, <1>3, <1>4, <1>5, <1>6, <1>7, <1>9, <1>10, <1>11, <1>12, <1>13, <1>14, <1>15
     DEF LedgerNext

----------------------------------------------------------------------------
(***************************************************************************)
(* The shapes that transactions share.                                     *)
(***************************************************************************)

\* Nothing about routes, versions and assertions changes.
LEMMA RoutesKept ==
    ASSUME AssertionsBound, RouteIdsIssued, UNCHANGED <<routes, versions, assertions, issued>>
    PROVE  AssertionsBound' /\ RouteIdsIssued'
  BY DEF AssertionsBound, RouteIdsIssued

\* Reservations go, with the claims that only they hold.
LEMMA ReservationsGo ==
    ASSUME WorkerOnOneRoute, ClaimsBacked, NEW ps \in SUBSET reservations,
           routes' = routes, reservations' = reservations \ ps, claims' = ClaimsWithout(ps)
    PROVE  WorkerOnOneRoute' /\ ClaimsBacked'
<1>1. WorkerOnOneRoute'
  BY DEF WorkerOnOneRoute
<1>2. \A r \in routes' : Pair(r) \in claims'
  BY DEF ClaimsBacked, ClaimsWithout
<1>3. ASSUME NEW c \in claims'
      PROVE  (\E r \in routes' : Pair(r) = c) \/ \E p \in reservations' : Pair(p) = c
  BY DEF ClaimsBacked, ClaimsWithout
<1> QED
  BY <1>1, <1>2, <1>3 DEF ClaimsBacked

\* What is left of reservations and claims once the lapsed rows are expired.
LEMMA ExpiredView ==
    ASSUME WorkerOnOneRoute, ClaimsBacked
    PROVE  /\ \A r \in routes : Pair(r) \in UnexpiredClaims
           /\ \A c \in UnexpiredClaims : (\E r \in routes : Pair(r) = c) \/ \E p \in Unexpired : Pair(p) = c
  BY UnexpiredSubset DEF ClaimsBacked, UnexpiredClaims, ClaimsWithout

\* Routes are removed with everything the ledger holds about them.
LEMMA RoutesGo ==
    ASSUME LedgerTypeOK, AssertionsBound, RouteIdsIssued, NEW rs \in SUBSET routes,
           RemoveRoutes(rs), issued' = issued
    PROVE  AssertionsBound' /\ RouteIdsIssued'
<1>1. RouteIdsIssued'
  BY DEF RemoveRoutes, RouteIdsIssued
<1>2. ASSUME NEW i \in RouteIds, NEW w \in Workers, assertions'[i][w] # Absent
      PROVE  /\ \E r \in routes' : r.id = i /\ r.state = "UNPAIRING" /\ w \in Pair(r)
             /\ assertions'[i][w] = versions'[i][w]
  <2>1. ~ \E r \in rs : r.id = i
    BY <1>2 DEF RemoveRoutes
  <2>2. assertions'[i] = assertions[i] /\ versions'[i] = versions[i]
    BY <2>1 DEF RemoveRoutes
  <2> QED
    BY <1>2, <2>1, <2>2 DEF AssertionsBound, RemoveRoutes
<1> QED
  BY <1>1, <1>2 DEF AssertionsBound

\* A route changes its state and loses its assertions.
LEMMA RouteTurns ==
    ASSUME LedgerInv, NEW r \in routes, NEW s \in {"ACTIVE", "UNPAIRING"},
           routes' = (routes \ {r}) \cup {[r EXCEPT !.state = s]},
           RemoveAssertions(r, Workers),
           UNCHANGED <<reservations, claims, versions, issued>>
    PROVE  WorkerOnOneRoute' /\ ClaimsBacked' /\ AssertionsBound' /\ RouteIdsIssued'
<1> DEFINE t == [r EXCEPT !.state = s]
<1>1. t.id = r.id /\ Pair(t) = Pair(r)
  BY RouteUpdate DEF LedgerInv, LedgerTypeOK
<1>2. routes' = (routes \ {r}) \cup {t}
  OBVIOUS
<1> HIDE DEF t
<1>3. WorkerOnOneRoute'
  BY <1>1, <1>2 DEF LedgerInv, WorkerOnOneRoute
<1>4. ClaimsBacked'
  BY <1>1, <1>2 DEF LedgerInv, ClaimsBacked
<1>5. RouteIdsIssued'
  BY <1>1, <1>2 DEF LedgerInv, RouteIdsIssued
<1>6. ASSUME NEW i \in RouteIds, NEW w \in Workers, assertions'[i][w] # Absent
      PROVE  /\ \E q \in routes' : q.id = i /\ q.state = "UNPAIRING" /\ w \in Pair(q)
             /\ assertions'[i][w] = versions'[i][w]
  <2>1. i # r.id
    BY <1>6 DEF RemoveAssertions, LedgerInv, LedgerTypeOK
  <2>2. assertions'[i] = assertions[i]
    BY <2>1 DEF RemoveAssertions, LedgerInv, LedgerTypeOK
  <2> QED
    BY <1>6, <1>2, <2>1, <2>2 DEF LedgerInv, AssertionsBound
<1> QED
  BY <1>3, <1>4, <1>5, <1>6 DEF AssertionsBound
----------------------------------------------------------------------------
\* A reservation, or the route it becomes, never overlaps another one.
LEMMA ReserveStep ==
    ASSUME LedgerInv, NEW l \in Workers, NEW f \in Workers, NEW connected \in SUBSET Workers,
           Reserve(l, f, connected)
    PROVE  WorkerOnOneRoute' /\ ClaimsBacked'
<1> DEFINE n == [id |-> proposed', leader |-> l, follower |-> f, lapsed |-> FALSE]
<1>1. reservations' = Unexpired \cup {n} /\ claims' = UnexpiredClaims \cup {Pair(n)} /\ routes' = routes
  BY DEF Reserve, Pair
<1>2. \A q \in Unexpired : Pair(q) \cap Pair(n) = {}
  BY DEF Reserve, CanReserve, Eligible, Pair
<1>3. \A r \in routes : Pair(r) \cap Pair(n) = {}
  BY DEF Reserve, CanReserve, Eligible, Pair, Routed
<1> HIDE DEF n
<1>4. WorkerOnOneRoute'
  BY <1>1, <1>2, <1>3, UnexpiredSubset DEF LedgerInv, WorkerOnOneRoute
<1>5. ClaimsBacked'
  BY <1>1, ExpiredView DEF LedgerInv, ClaimsBacked
<1> QED
  BY <1>4, <1>5

\* The route takes the place of its reservation, under a new route_id.
LEMMA CreateStep ==
    ASSUME LedgerInv, NEW p \in reservations, NEW connected \in SUBSET Workers,
           CreateRoute(p, connected)
    PROVE  WorkerOnOneRoute' /\ ClaimsBacked' /\ AssertionsBound' /\ RouteIdsIssued'
<1> DEFINE n == [id |-> issued', leader |-> p.leader, follower |-> p.follower, state |-> "ACTIVE"]
<1>1. /\ reservations' = Unexpired \ {p} /\ claims' = UnexpiredClaims \cup {Pair(n)}
      /\ routes' = routes \cup {n} /\ n.id = issued' /\ p \in Unexpired
  BY DEF CreateRoute, CanCreate, Pair
<1>2. Pair(n) = Pair(p)
  BY DEF Pair
<1>3. \A q \in Unexpired \ {p} : Pair(q) \cap Pair(n) = {}
  BY DEF CreateRoute, CanCreate, Eligible, Pair
<1>4. \A r \in routes : Pair(r) \cap Pair(n) = {}
  BY DEF CreateRoute, CanCreate, Eligible, Pair, Routed
<1> HIDE DEF n
<1>5. WorkerOnOneRoute'
  BY <1>1, <1>3, <1>4, UnexpiredSubset DEF LedgerInv, WorkerOnOneRoute
<1>6. ClaimsBacked'
  BY <1>1, <1>2, ExpiredView DEF LedgerInv, ClaimsBacked
<1>7. issued \in Nat /\ issued' = issued + 1 /\ \A r \in routes : r.id \in Nat
  BY LedgerAssumption DEF CreateRoute, LedgerInv, LedgerTypeOK, Route, RouteIds, LedgerAssumption
<1>8. RouteIdsIssued'
  BY <1>1, <1>7 DEF LedgerInv, RouteIdsIssued
<1>9. AssertionsBound'
  BY <1>1 DEF LedgerInv, AssertionsBound, CreateRoute, unpair
<1> QED
  BY <1>5, <1>6, <1>8, <1>9

\* A new state version voids the assertion that was bound to the old one.
LEMMA VersionStep ==
    ASSUME LedgerInv, NEW r \in routes, NEW w \in Workers, NEW v \in Versions, RecordVersion(r, w, v)
    PROVE  AssertionsBound'
<1>1. r.id \in RouteIds
  BY DEF LedgerInv, LedgerTypeOK, Route
<1> SUFFICES ASSUME NEW i \in RouteIds, NEW u \in Workers, assertions'[i][u] # Absent
             PROVE  /\ \E q \in routes' : q.id = i /\ q.state = "UNPAIRING" /\ u \in Pair(q)
                    /\ assertions'[i][u] = versions'[i][u]
  BY DEF AssertionsBound
<1>2. CASE v = versions[r.id][w]
  BY <1>1, <1>2 DEF RecordVersion, LedgerInv, LedgerTypeOK, AssertionsBound, pairing
<1>3. CASE v # versions[r.id][w]
  <2>1. ~(i = r.id /\ u = w) /\ assertions[i][u] # Absent /\ assertions'[i][u] = assertions[i][u]
    BY <1>1, <1>3 DEF RecordVersion, RemoveAssertions, LedgerInv, LedgerTypeOK
  <2>2. versions'[i][u] = versions[i][u]
    BY <1>1, <2>1 DEF RecordVersion, LedgerInv, LedgerTypeOK
  <2> QED
    BY <2>1, <2>2 DEF RecordVersion, LedgerInv, AssertionsBound, pairing
<1> QED
  BY <1>2, <1>3

\* One assertion is stored, or the second one removes the route.
LEMMA AssertionStep ==
    ASSUME LedgerInv, NEW r \in routes, NEW w \in Workers, NEW v \in Versions, RecordAssertion(r, w, v)
    PROVE  WorkerOnOneRoute' /\ ClaimsBacked' /\ AssertionsBound' /\ RouteIdsIssued'
<1>1. CASE PeerFresh(r, w)
  <2>1. RemoveRoutes({r}) /\ claims' = claims \ {Pair(r)} /\ UNCHANGED <<reservations, issued>>
    BY <1>1 DEF RecordAssertion
  <2>2. WorkerOnOneRoute'
    BY <2>1 DEF LedgerInv, WorkerOnOneRoute, RemoveRoutes
  <2>3. \A s \in routes' : Pair(s) # Pair(r)
    BY <2>1, PairsOfWorkers DEF RemoveRoutes, LedgerInv, LedgerTypeOK, WorkerOnOneRoute
  <2>4. ClaimsBacked'
    BY <2>1, <2>3 DEF LedgerInv, ClaimsBacked, RemoveRoutes
  <2> QED
    BY <2>1, <2>2, <2>4, RoutesGo DEF LedgerInv
<1>2. CASE ~PeerFresh(r, w)
  <2>1. /\ versions' = [versions EXCEPT ![r.id][w] = v]
        /\ assertions' = [assertions EXCEPT ![r.id][w] = v]
        /\ UNCHANGED <<routes, reservations, claims, issued>>
    BY <1>2 DEF RecordAssertion, pairing
  <2>2. WorkerOnOneRoute' /\ ClaimsBacked' /\ RouteIdsIssued'
    BY <2>1 DEF LedgerInv, WorkerOnOneRoute, ClaimsBacked, RouteIdsIssued
  <2>3. ASSUME NEW i \in RouteIds, NEW u \in Workers, assertions'[i][u] # Absent
        PROVE  /\ \E q \in routes' : q.id = i /\ q.state = "UNPAIRING" /\ u \in Pair(q)
               /\ assertions'[i][u] = versions'[i][u]
    <3>1. CASE i = r.id /\ u = w
      BY <2>1, <3>1 DEF RecordAssertion, CanAssert, LedgerInv, LedgerTypeOK
    <3>2. CASE ~(i = r.id /\ u = w)
      <4>1. assertions'[i][u] = assertions[i][u] /\ versions'[i][u] = versions[i][u]
        BY <2>1, <3>2 DEF LedgerInv, LedgerTypeOK
      <4> QED
        BY <2>1, <2>3, <4>1 DEF LedgerInv, AssertionsBound
    <3> QED
      BY <3>1, <3>2
  <2> QED
    BY <2>2, <2>3 DEF AssertionsBound
<1> QED
  BY <1>1, <1>2

\* A deleted Worker takes its routes, reservations and claims with it.
LEMMA DeleteStep ==
    ASSUME LedgerInv, NEW w \in Workers, Delete(w)
    PROVE  WorkerOnOneRoute' /\ ClaimsBacked' /\ AssertionsBound' /\ RouteIdsIssued'
<1> DEFINE rs == {r \in routes : w \in Pair(r)}
           ps == {p \in reservations : w \in Pair(p)}
<1>1. /\ RemoveRoutes(rs) /\ reservations' = reservations \ ps /\ issued' = issued
      /\ claims' = {c \in claims : (\A r \in rs : Pair(r) # c) /\ \A p \in ps : Pair(p) # c}
  BY DEF Delete
<1>2. routes' = routes \ rs
  BY <1>1 DEF RemoveRoutes
<1>3. WorkerOnOneRoute'
  BY <1>1, <1>2 DEF LedgerInv, WorkerOnOneRoute
<1>4. ASSUME NEW r \in routes' PROVE Pair(r) \in claims'
  <2>1. Pair(r) \in claims /\ w \notin Pair(r)
    BY <1>2, <1>4 DEF LedgerInv, ClaimsBacked
  <2> QED
    BY <1>1, <2>1
<1>5. ASSUME NEW c \in claims'
      PROVE  (\E r \in routes' : Pair(r) = c) \/ \E p \in reservations' : Pair(p) = c
  BY <1>1, <1>2, <1>5 DEF LedgerInv, ClaimsBacked
<1> QED
  BY <1>1, <1>3, <1>4, <1>5, RoutesGo DEF LedgerInv, ClaimsBacked
----------------------------------------------------------------------------
\* The inductive step: one transaction after the other.
LEMMA InvStep == LedgerInv /\ [LedgerNext]_ledger => LedgerInv'
<1> SUFFICES ASSUME LedgerInv, [LedgerNext]_ledger
             PROVE  WorkerOnOneRoute' /\ ClaimsBacked' /\ AssertionsBound' /\ RouteIdsIssued'
  BY TypeStep DEF LedgerInv
<1>1. ASSUME NEW p \in reservations, Lapse(p)
      PROVE  WorkerOnOneRoute' /\ ClaimsBacked' /\ AssertionsBound' /\ RouteIdsIssued'
  <2> DEFINE t == [p EXCEPT !.lapsed = TRUE]
  <2>1. reservations' = (reservations \ {p}) \cup {t} /\ Pair(t) = Pair(p)
        /\ UNCHANGED <<routes, claims, versions, assertions, issued>>
    BY <1>1, ReservationUpdate DEF Lapse, unpair, LedgerInv, LedgerTypeOK
  <2> HIDE DEF t
  <2>2. WorkerOnOneRoute'
    BY <2>1 DEF LedgerInv, WorkerOnOneRoute
  <2>3. ClaimsBacked'
    BY <2>1 DEF LedgerInv, ClaimsBacked
  <2> QED
    BY <2>1, <2>2, <2>3, RoutesKept DEF LedgerInv
<1>2. ASSUME NEW l \in Workers, NEW f \in Workers, NEW connected \in SUBSET Workers,
             Reserve(l, f, connected)
      PROVE  WorkerOnOneRoute' /\ ClaimsBacked' /\ AssertionsBound' /\ RouteIdsIssued'
  <2>1. UNCHANGED <<routes, versions, assertions, issued>>
    BY <1>2 DEF Reserve, unpair
  <2> QED
    BY <1>2, <2>1, ReserveStep, RoutesKept DEF LedgerInv
<1>3. ASSUME NEW ps \in SUBSET reservations, Release(ps)
      PROVE  WorkerOnOneRoute' /\ ClaimsBacked' /\ AssertionsBound' /\ RouteIdsIssued'
  <2>1. /\ reservations' = reservations \ ps /\ claims' = ClaimsWithout(ps)
        /\ UNCHANGED <<routes, versions, assertions, issued>>
    BY <1>3 DEF Release, unpair
  <2> QED
    BY <2>1, ReservationsGo, RoutesKept DEF LedgerInv
<1>4. ASSUME NEW p \in reservations, NEW connected \in SUBSET Workers,
             CreateRoute(p, connected) \/ CreateFails(p, connected)
      PROVE  WorkerOnOneRoute' /\ ClaimsBacked' /\ AssertionsBound' /\ RouteIdsIssued'
  <2>1. CASE CreateRoute(p, connected)
    BY <2>1, CreateStep
  <2>2. CASE CreateFails(p, connected)
    BY <2>2, <1>3 DEF CreateFails
  <2> QED
    BY <1>4, <2>1, <2>2
<1>5. ASSUME NEW r \in routes, NEW w \in Workers, EnterUnpairing(r, w) \/ CancelUnpairing(r, w)
      PROVE  WorkerOnOneRoute' /\ ClaimsBacked' /\ AssertionsBound' /\ RouteIdsIssued'
  BY <1>5, RouteTurns DEF EnterUnpairing, CancelUnpairing
<1>6. ASSUME NEW r \in routes, NEW w \in Workers, NEW v \in Versions, RecordVersion(r, w, v)
      PROVE  WorkerOnOneRoute' /\ ClaimsBacked' /\ AssertionsBound' /\ RouteIdsIssued'
  <2>1. UNCHANGED <<routes, reservations, claims, issued>>
    BY <1>6 DEF RecordVersion, pairing
  <2> QED
    BY <1>6, <2>1, VersionStep DEF LedgerInv, WorkerOnOneRoute, ClaimsBacked, RouteIdsIssued
<1>7. ASSUME NEW r \in routes, NEW w \in Workers, NEW v \in Versions, RecordAssertion(r, w, v)
      PROVE  WorkerOnOneRoute' /\ ClaimsBacked' /\ AssertionsBound' /\ RouteIdsIssued'
  BY <1>7, AssertionStep
<1>8. ASSUME NEW w \in Workers, Delete(w)
      PROVE  WorkerOnOneRoute' /\ ClaimsBacked' /\ AssertionsBound' /\ RouteIdsIssued'
  BY <1>8, DeleteStep
<1>9. CASE \/ \E w \in Workers : Revoke(w) \/ Approve(w)
           \/ UNCHANGED ledger
  <2>1. UNCHANGED <<routes, reservations, claims, versions, assertions, issued>>
    BY <1>9 DEF Revoke, Approve, ledger, pairing, unpair
  <2> QED
    BY <2>1, RoutesKept DEF LedgerInv, WorkerOnOneRoute, ClaimsBacked
<1>10. CASE ExpireLapsed
  <2>1. /\ Unexpired = reservations \ (reservations \ Unexpired)
        /\ reservations' = Unexpired /\ claims' = ClaimsWithout(reservations \ Unexpired)
        /\ UNCHANGED <<routes, versions, assertions, issued>>
    BY <1>10, UnexpiredSubset DEF ExpireLapsed, UnexpiredClaims, unpair
  <2> QED
    BY <2>1, ReservationsGo, RoutesKept DEF LedgerInv
<1>11. CASE DropOrphanedClaims
  <2>1. UNCHANGED <<routes, reservations, versions, assertions, issued>>
    BY <1>11 DEF DropOrphanedClaims, unpair
  <2>2. WorkerOnOneRoute' /\ ClaimsBacked'
    BY <1>11, <2>1 DEF DropOrphanedClaims, LedgerInv, WorkerOnOneRoute, ClaimsBacked
  <2> QED
    BY <2>1, <2>2, RoutesKept DEF LedgerInv
<1> QED
  BY <1>1, <1>2, <1>3, <1>4, <1>5, <1>6, <1>7, <1>8, <1>9, <1>10, <1>11 DEF LedgerNext

\* The pairing transactions keep the whole inductive invariant.
THEOREM LedgerInvariant == LedgerSpec => []LedgerInv
  BY InitInv, InvStep, PTL DEF LedgerSpec

\* Every row of the ledger stays of its type.
THEOREM LedgerTyped == LedgerSpec => []LedgerTypeOK
<1>1. LedgerInv => LedgerTypeOK
  BY DEF LedgerInv
<1> QED
  BY <1>1, LedgerInvariant, PTL

\* No Worker is ever in two routes, two reservations, or one of each.
THEOREM OneRoutePerWorker == LedgerSpec => []WorkerOnOneRoute
<1>1. LedgerInv => WorkerOnOneRoute
  BY DEF LedgerInv
<1> QED
  BY <1>1, LedgerInvariant, PTL

\* Claims and what they are held for come and go together.
THEOREM ClaimsStayBacked == LedgerSpec => []ClaimsBacked
<1>1. LedgerInv => ClaimsBacked
  BY DEF LedgerInv
<1> QED
  BY <1>1, LedgerInvariant, PTL

\* A stored assertion is never stale: its route is UNPAIRING and its version
\* the last one recorded.
THEOREM AssertionsStayBound == LedgerSpec => []AssertionsBound
<1>1. LedgerInv => AssertionsBound
  BY DEF LedgerInv
<1> QED
  BY <1>1, LedgerInvariant, PTL
----------------------------------------------------------------------------
\* approve_enrollment is the only transaction that activates a Worker, and it
\* revokes every active Worker of the account.
THEOREM OneActive == LedgerSpec => []OneActivePerAccount
<1> DEFINE J == LedgerTypeOK /\ OneActivePerAccount
<1>1. LedgerInit => J
  <2>1. LedgerInit => OneActivePerAccount
    BY LedgerAssumption DEF LedgerInit, OneActivePerAccount, Active, LedgerAssumption
  <2> QED
    BY <2>1, InitInv DEF LedgerInv
<1>2. J /\ [LedgerNext]_ledger => J'
  <2> SUFFICES ASSUME J, [LedgerNext]_ledger PROVE OneActivePerAccount'
    BY TypeStep
  <2>1. CASE status' = status
    BY <2>1 DEF OneActivePerAccount, Active
  <2>2. ASSUME NEW w \in Workers, Revoke(w) \/ Delete(w) PROVE OneActivePerAccount'
    <3>1. \A u \in Workers : status'[u] = "active" => status[u] = "active"
      BY <2>2 DEF Revoke, Delete, LedgerTypeOK
    <3> QED
      BY <3>1 DEF OneActivePerAccount, Active
  <2>3. ASSUME NEW w \in Workers, Approve(w) PROVE OneActivePerAccount'
    <3>1. \A u \in Workers : status'[u] = "active" =>
              u = w \/ (Active(u) /\ u \notin Predecessors(w))
      BY <2>3 DEF Approve, Active
    <3> QED
      BY <3>1 DEF OneActivePerAccount, Active, Predecessors
  <2>4. \/ status' = status
        \/ \E w \in Workers : Revoke(w) \/ Delete(w) \/ Approve(w)
    BY DEF LedgerNext, ledger, Lapse, Reserve, CreateRoute, CreateFails, Release, EnterUnpairing,
           CancelUnpairing, RecordVersion, RecordAssertion, ExpireLapsed, DropOrphanedClaims
  <2> QED
    BY <2>1, <2>2, <2>3, <2>4
<1> QED
  BY <1>1, <1>2, PTL DEF LedgerSpec
----------------------------------------------------------------------------
\* A reservation, and the route it becomes, joins two Workers.
TwoWorkers ==
    /\ \A r \in routes : r.leader # r.follower
    /\ \A p \in reservations : p.leader # p.follower

\* Transactions keep it so.
LEMMA TwoWorkersStep == LedgerInv /\ TwoWorkers /\ [LedgerNext]_ledger => TwoWorkers'
<1> SUFFICES ASSUME LedgerInv, TwoWorkers, [LedgerNext]_ledger PROVE TwoWorkers'
  OBVIOUS
<1>1. ASSUME NEW p \in reservations, Lapse(p) PROVE TwoWorkers'
  <2>1. p \in Reservation
    BY DEF LedgerInv, LedgerTypeOK
  <2>2. [p EXCEPT !.lapsed = TRUE].leader # [p EXCEPT !.lapsed = TRUE].follower
    BY <2>1 DEF Reservation, TwoWorkers
  <2> QED
    BY <1>1, <2>2 DEF Lapse, TwoWorkers
<1>2. ASSUME NEW l \in Workers, NEW f \in Workers, NEW connected \in SUBSET Workers,
             Reserve(l, f, connected)
      PROVE  TwoWorkers'
  BY <1>2, UnexpiredSubset DEF Reserve, CanReserve, TwoWorkers
<1>3. ASSUME NEW p \in reservations, NEW connected \in SUBSET Workers, CreateRoute(p, connected)
      PROVE  TwoWorkers'
  BY <1>3, UnexpiredSubset DEF CreateRoute, TwoWorkers
<1>4. ASSUME NEW r \in routes, NEW w \in Workers, EnterUnpairing(r, w) \/ CancelUnpairing(r, w)
      PROVE  TwoWorkers'
  <2>1. r \in Route
    BY DEF LedgerInv, LedgerTypeOK
  <2>2. \A s \in {"ACTIVE", "UNPAIRING"} : [r EXCEPT !.state = s].leader # [r EXCEPT !.state = s].follower
    BY <2>1 DEF Route, TwoWorkers
  <2> QED
    BY <1>4, <2>2 DEF EnterUnpairing, CancelUnpairing, TwoWorkers
<1>5. CASE routes' \subseteq routes /\ reservations' \subseteq reservations
  BY <1>5 DEF TwoWorkers
<1>6. CASE \/ \E p \in reservations, connected \in SUBSET Workers : CreateFails(p, connected)
           \/ \E ps \in SUBSET reservations : Release(ps)
           \/ \E r \in routes, w \in Workers, v \in Versions : RecordVersion(r, w, v) \/ RecordAssertion(r, w, v)
           \/ \E w \in Workers : Revoke(w) \/ Delete(w) \/ Approve(w)
           \/ ExpireLapsed
           \/ DropOrphanedClaims
           \/ UNCHANGED ledger
  <2>1. routes' \subseteq routes /\ reservations' \subseteq reservations
    BY <1>6, UnexpiredSubset
       DEF CreateFails, Release, RecordVersion, RecordAssertion, RemoveRoutes, Revoke, Delete, Approve,
           ExpireLapsed, DropOrphanedClaims, ledger, pairing
  <2> QED
    BY <2>1, <1>5
<1> QED
  BY <1>1, <1>2, <1>3, <1>4, <1>6 DEF LedgerNext

\* A route goes when it was UNPAIRING and its other Worker had asserted, or with
\* a deleted Worker; a route_id that has gone is not issued again.
THEOREM SafeEnd == LedgerSpec => RoutesEndSafely
<1> DEFINE J == LedgerInv /\ TwoWorkers
           Ended == \A r \in routes : (\A s \in routes' : s.id # r.id) =>
             \/ r.state = "UNPAIRING" /\ \E w \in Pair(r) : assertions[r.id][w] # Absent
             \/ \E w \in Pair(r) : status[w] # "none" /\ status'[w] = "none"
           Fresh == \A s \in routes' : (\A r \in routes : r.id # s.id) => s.id > issued
<1>1. LedgerInit => J
  BY InitInv DEF LedgerInit, TwoWorkers
<1>2. J /\ [LedgerNext]_ledger => J'
  BY InvStep, TwoWorkersStep
<1>3. J /\ LedgerNext => Ended /\ Fresh
  <2> SUFFICES ASSUME J, LedgerNext PROVE Ended /\ Fresh
    OBVIOUS
  <2>1. CASE routes' = routes
    BY <2>1
  <2>2. ASSUME NEW p \in reservations, NEW connected \in SUBSET Workers, CreateRoute(p, connected)
        PROVE  Ended /\ Fresh
    <3>1. issued \in Nat
      BY LedgerAssumption DEF LedgerInv, LedgerTypeOK, LedgerAssumption
    <3>2. issued' = issued + 1 /\ issued' > issued
      BY <2>2, <3>1 DEF CreateRoute
    <3> QED
      BY <2>2, <3>2 DEF CreateRoute
  <2>3. ASSUME NEW r \in routes, NEW w \in Workers, EnterUnpairing(r, w) \/ CancelUnpairing(r, w)
        PROVE  Ended /\ Fresh
    <3>1. \A s \in {"ACTIVE", "UNPAIRING"} : [r EXCEPT !.state = s].id = r.id
      BY RouteUpdate DEF LedgerInv, LedgerTypeOK
    <3> QED
      BY <2>3, <3>1 DEF EnterUnpairing, CancelUnpairing
  <2>4. ASSUME NEW r \in routes, NEW w \in Workers, NEW v \in Versions, RecordAssertion(r, w, v)
        PROVE  Ended /\ Fresh
    <3>1. CASE PeerFresh(r, w)
      <4>1. PICK u \in Pair(r) : u # w
        BY DEF TwoWorkers, Pair
      <4>2. r.state = "UNPAIRING" /\ assertions[r.id][u] # Absent
        BY <2>4, <3>1, <4>1 DEF RecordAssertion, CanAssert, PeerFresh
      <4>3. routes' = routes \ {r}
        BY <2>4, <3>1 DEF RecordAssertion, RemoveRoutes
      <4> QED
        BY <4>1, <4>2, <4>3
    <3>2. CASE ~PeerFresh(r, w)
      BY <2>4, <3>2, <2>1 DEF RecordAssertion, pairing
    <3> QED
      BY <3>1, <3>2
  <2>5. ASSUME NEW w \in Workers, Delete(w) PROVE Ended /\ Fresh
    <3>1. routes' = routes \ {r \in routes : w \in Pair(r)}
      BY <2>5 DEF Delete, RemoveRoutes
    <3>2. status[w] # "none" /\ status'[w] = "none"
      BY <2>5 DEF Delete, LedgerInv, LedgerTypeOK
    <3> QED
      BY <3>1, <3>2
  <2>6. \/ routes' = routes
        \/ \E p \in reservations, connected \in SUBSET Workers : CreateRoute(p, connected)
        \/ \E r \in routes, w \in Workers : EnterUnpairing(r, w) \/ CancelUnpairing(r, w)
        \/ \E r \in routes, w \in Workers, v \in Versions : RecordAssertion(r, w, v)
        \/ \E w \in Workers : Delete(w)
    BY DEF LedgerNext, Lapse, Reserve, CreateFails, Release, RecordVersion, Revoke, Approve,
           ExpireLapsed, DropOrphanedClaims, pairing
  <2> QED
    BY <2>1, <2>2, <2>3, <2>4, <2>5, <2>6
<1>4. J /\ [LedgerNext]_ledger => [Ended /\ Fresh]_ledger
  BY <1>3
<1> QED
  BY <1>1, <1>2, <1>4, PTL DEF LedgerSpec, RoutesEndSafely
=============================================================================
