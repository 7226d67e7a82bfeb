---------------------------- MODULE RouteLedger ----------------------------
(***************************************************************************)
(* The pairing part of the control-plane ledger                            *)
(* (src/abt/controlplane/ledger.py): which Workers are active, which pairs *)
(* hold a reservation or a route, the execution-mode claims and the        *)
(* safe-unpair arbitration.                                                *)
(*                                                                         *)
(* Every operation is one transaction under one lock; a LedgerError rolls  *)
(* it back, so that a refused operation changes nothing and needs no       *)
(* action, with one exception: a failed route creation releases its        *)
(* reservation in a second transaction (CreateFails).  PairRoutes calls    *)
(* these transactions from the service; here they come in any order, with  *)
(* any set of Workers connected.                                           *)
(***************************************************************************)
EXTENDS Integers

CONSTANTS
    Workers,      \* worker_ids, the ones not yet approved included
    Account,      \* the MT5 account (login, server) of each
    Approved,     \* the Workers approved at the start
    MaxProposals, MaxRoutes, MaxVersion  \* bounds

ASSUME LedgerAssumption ==
    /\ Approved \subseteq Workers
    /\ \A v, w \in Approved : Account[v] = Account[w] => v = w
    /\ MaxProposals \in Nat /\ MaxRoutes \in Nat /\ MaxVersion \in Nat

ProposalIds == 1..MaxProposals
RouteIds == 1..MaxRoutes

\* A state version that was never recorded, or an assertion that is not held.
Absent == -1
Versions == 0..MaxVersion

VARIABLES
    status,        \* workers.status, "none" where there is no row
    routes,        \* pair_routes
    reservations,  \* pair_route_reservations; lapsed: expires_at has passed
    claims,        \* pair_execution_owners, by their unordered pair_key
    versions,      \* pair_route_worker_state_versions
    assertions,    \* pair_unpair_assertions
    proposed,      \* proposal_ids handed out
    issued         \* pair_route_identifiers: route_ids handed out

pairing == <<routes, reservations, claims, proposed, issued>>
unpair == <<versions, assertions>>
ledger == <<status, pairing, unpair>>

Route == [id : RouteIds, leader : Workers, follower : Workers, state : {"ACTIVE", "UNPAIRING"}]
Reservation == [id : ProposalIds, leader : Workers, follower : Workers, lapsed : BOOLEAN]

Pair(x) == {x.leader, x.follower}
Active(w) == status[w] = "active"
Routed == {w \in Workers : \E r \in routes : w \in Pair(r)}

\* The rows that _expire_pair_route_reservations_locked leaves.
Unexpired == {p \in reservations : ~p.lapsed}

\* The claims left after the reservations ps are released: a claim is kept
\* when a route holds the same pair.
ClaimsWithout(ps) ==
    {c \in claims : (\E r \in routes : Pair(r) = c) \/ \A p \in ps : Pair(p) # c}

UnexpiredClaims == ClaimsWithout(reservations \ Unexpired)

\* Fault: only routes are looked at.
Eligible_RoutesOnly(l, f, others) == l \notin Routed /\ f \notin Routed

\* _require_pair_worker_eligibility_locked, among the other reservations.
Eligible(l, f, others) ==
    /\ l \notin Routed /\ f \notin Routed
    /\ \A q \in others : Pair(q) \cap {l, f} = {}
    /\ \A c \in UnexpiredClaims : c \cap {l, f} # {} => c = {l, f}

MayPair(l, f, connected) == {l, f} \subseteq connected /\ Active(l) /\ Active(f)

\* Time passes: the 30 seconds of a reservation are over.
Lapse(p) ==
    /\ ~p.lapsed
    /\ reservations' = (reservations \ {p}) \cup {[p EXCEPT !.lapsed = TRUE]}
    /\ UNCHANGED <<status, routes, claims, proposed, issued, unpair>>

\* The one transaction that only expires: available_pair_followers.
ExpireLapsed ==
    /\ reservations' = Unexpired
    /\ claims' = UnexpiredClaims
    /\ UNCHANGED <<status, routes, proposed, issued, unpair>>

CanReserve(l, f, connected) ==
    /\ l # f
    /\ MayPair(l, f, connected)
    /\ Eligible(l, f, Unexpired)

\* reserve_pair_route_proposal: both Workers, or none, and their claim.
Reserve(l, f, connected) ==
    /\ proposed < MaxProposals
    /\ CanReserve(l, f, connected)
    /\ proposed' = proposed + 1
    /\ reservations' = Unexpired \cup {[id |-> proposed', leader |-> l, follower |-> f, lapsed |-> FALSE]}
    /\ claims' = UnexpiredClaims \cup {{l, f}}
    /\ UNCHANGED <<status, routes, issued, unpair>>

CanCreate(p, connected) ==
    /\ p \in Unexpired
    /\ MayPair(p.leader, p.follower, connected)
    /\ Eligible(p.leader, p.follower, Unexpired \ {p})

\* create_pair_route: the reservation becomes a route.
CreateRoute(p, connected) ==
    /\ issued < MaxRoutes
    /\ CanCreate(p, connected)
    /\ issued' = issued + 1
    /\ routes' = routes \cup {[id |-> issued', leader |-> p.leader, follower |-> p.follower, state |-> "ACTIVE"]}
    /\ reservations' = Unexpired \ {p}
    /\ claims' = UnexpiredClaims \cup {Pair(p)}
    /\ UNCHANGED <<status, proposed, unpair>>

\* Fault: the claim is not released with the reservation.
Release_KeepsClaim(ps) ==
    /\ reservations' = reservations \ ps
    /\ UNCHANGED <<status, routes, claims, proposed, issued, unpair>>

\* release_pair_route_reservation: refusal, disconnect, failed acceptance.
Release(ps) ==
    /\ reservations' = reservations \ ps
    /\ claims' = ClaimsWithout(ps)
    /\ UNCHANGED <<status, routes, proposed, issued, unpair>>

\* create_pair_route refused: rolled back, and then the reservation released.
CreateFails(p, connected) ==
    /\ ~CanCreate(p, connected)
    /\ Release({p})

RemoveAssertions(r, ws) ==
    assertions' = [assertions EXCEPT ![r.id] = [w \in Workers |-> IF w \in ws THEN Absent ELSE @[w]]]

\* enter_pair_route_unpairing, by either Worker of the route.
EnterUnpairing(r, w) ==
    /\ w \in Pair(r)
    /\ routes' = (routes \ {r}) \cup {[r EXCEPT !.state = "UNPAIRING"]}
    /\ RemoveAssertions(r, Workers)
    /\ UNCHANGED <<status, reservations, claims, versions, proposed, issued>>

\* Fault: a cancelled unpair leaves its assertions behind.
CancelUnpairing_KeepsAssertions(r, w) ==
    /\ w \in Pair(r)
    /\ r.state = "UNPAIRING"
    /\ routes' = (routes \ {r}) \cup {[r EXCEPT !.state = "ACTIVE"]}
    /\ UNCHANGED <<status, reservations, claims, unpair, proposed, issued>>

\* cancel_pair_route_unpairing.
CancelUnpairing(r, w) ==
    /\ w \in Pair(r)
    /\ r.state = "UNPAIRING"
    /\ routes' = (routes \ {r}) \cup {[r EXCEPT !.state = "ACTIVE"]}
    /\ RemoveAssertions(r, Workers)
    /\ UNCHANGED <<status, reservations, claims, versions, proposed, issued>>

\* record_pair_worker_state_version: never backwards; a new version voids the
\* assertion that was bound to the old one.
RecordVersion(r, w, v) ==
    /\ v \in Versions
    /\ w \in Pair(r)
    /\ v >= versions[r.id][w]
    /\ versions' = [versions EXCEPT ![r.id][w] = v]
    /\ IF v = versions[r.id][w] THEN UNCHANGED assertions ELSE RemoveAssertions(r, {w})
    /\ UNCHANGED <<status, pairing>>

\* _remove_pair_route_locked for the routes rs.
RemoveRoutes(rs) ==
    /\ routes' = routes \ rs
    /\ versions' = [i \in RouteIds |->
          IF \E r \in rs : r.id = i THEN [w \in Workers |-> Absent] ELSE versions[i]]
    /\ assertions' = [i \in RouteIds |->
          IF \E r \in rs : r.id = i THEN [w \in Workers |-> Absent] ELSE assertions[i]]

CanAssert(r, w, v) ==
    /\ v \in Versions
    /\ w \in Pair(r)
    /\ r.state = "UNPAIRING"
    /\ v >= versions[r.id][w]

\* The other Worker of the route has asserted its current version.
PeerFresh(r, w) ==
    \A u \in Pair(r) \ {w} : assertions[r.id][u] # Absent /\ assertions[r.id][u] = versions[r.id][u]

\* record_pair_unpair_assertion: the second fresh assertion removes the route.
RecordAssertion(r, w, v) ==
    /\ CanAssert(r, w, v)
    /\ IF PeerFresh(r, w)
         THEN /\ RemoveRoutes({r})
              /\ claims' = claims \ {Pair(r)}
              /\ UNCHANGED <<status, reservations, proposed, issued>>
         ELSE /\ versions' = [versions EXCEPT ![r.id][w] = v]
              /\ assertions' = [assertions EXCEPT ![r.id][w] = v]
              /\ UNCHANGED <<status, pairing>>

\* revoke_worker: routes, reservations and claims stay.
Revoke(w) ==
    /\ Active(w)
    /\ status' = [status EXCEPT ![w] = "revoked"]
    /\ UNCHANGED <<pairing, unpair>>

\* delete_worker: whatever the Worker was part of goes with it.
Delete(w) ==
    LET rs == {r \in routes : w \in Pair(r)}
        ps == {p \in reservations : w \in Pair(p)} IN
    /\ status[w] # "none"
    /\ status' = [status EXCEPT ![w] = "none"]
    /\ RemoveRoutes(rs)
    /\ reservations' = reservations \ ps
    /\ claims' = {c \in claims : (\A r \in rs : Pair(r) # c) /\ \A p \in ps : Pair(p) # c}
    /\ UNCHANGED <<proposed, issued>>

Predecessors(w) == {u \in Workers : Active(u) /\ Account[u] = Account[w]}

\* Fault: the predecessor stays active.
Approve_KeepsPredecessor(w) ==
    /\ status[w] = "none"
    /\ \A u \in Predecessors(w) : u \notin Routed /\ \A p \in reservations : u \notin Pair(p)
    /\ status' = [status EXCEPT ![w] = "active"]
    /\ UNCHANGED <<pairing, unpair>>

\* approve_enrollment: the new Worker supersedes the account's active one,
\* unless that one is paired or reserved (a lapsed row counts as well).
Approve(w) ==
    /\ status[w] = "none"
    /\ \A u \in Predecessors(w) : u \notin Routed /\ \A p \in reservations : u \notin Pair(p)
    /\ status' = [u \in Workers |->
          IF u = w THEN "active" ELSE IF u \in Predecessors(w) THEN "revoked" ELSE status[u]]
    /\ UNCHANGED <<pairing, unpair>>

\* _drop_orphaned_pair_cell_claims, when the ledger is opened.
DropOrphanedClaims ==
    /\ claims' = {c \in claims : \E r \in routes : Pair(r) = c}
    /\ UNCHANGED <<status, routes, reservations, proposed, issued, unpair>>

LedgerInit ==
    /\ status = [w \in Workers |-> IF w \in Approved THEN "active" ELSE "none"]
    /\ routes = {} /\ reservations = {} /\ claims = {}
    /\ versions = [i \in RouteIds |-> [w \in Workers |-> Absent]]
    /\ assertions = versions
    /\ proposed = 0 /\ issued = 0

LedgerNext ==
    \/ \E p \in reservations : Lapse(p)
    \/ \E l, f \in Workers, connected \in SUBSET Workers : Reserve(l, f, connected)
    \/ \E p \in reservations, connected \in SUBSET Workers :
          CreateRoute(p, connected) \/ CreateFails(p, connected)
    \/ \E ps \in SUBSET reservations : Release(ps)
    \/ \E r \in routes, w \in Workers : EnterUnpairing(r, w) \/ CancelUnpairing(r, w)
    \/ \E r \in routes, w \in Workers, v \in Versions : RecordVersion(r, w, v) \/ RecordAssertion(r, w, v)
    \/ \E w \in Workers : Revoke(w) \/ Delete(w) \/ Approve(w)
    \/ ExpireLapsed
    \/ DropOrphanedClaims

LedgerSpec == LedgerInit /\ [][LedgerNext]_ledger
----------------------------------------------------------------------------
LedgerTypeOK ==
    /\ status \in [Workers -> {"none", "active", "revoked"}]
    /\ routes \subseteq Route
    /\ reservations \subseteq Reservation
    /\ claims \subseteq SUBSET Workers
    /\ versions \in [RouteIds -> [Workers -> Versions \cup {Absent}]]
    /\ assertions \in [RouteIds -> [Workers -> Versions \cup {Absent}]]
    /\ proposed \in 0..MaxProposals
    /\ issued \in 0..MaxRoutes

\* Two-phase pairing keeps every Worker in at most one route or reservation,
\* however reservations, refusals, expiries, deletions and route creations
\* interleave (_require_pair_worker_eligibility_locked in both transactions),
\* so that two leaders who choose the same follower never both get it.
WorkerOnOneRoute ==
    /\ \A r, s \in routes : r # s => Pair(r) \cap Pair(s) = {}
    /\ \A p, q \in reservations : p # q => Pair(p) \cap Pair(q) = {}
    /\ \A r \in routes, p \in reservations : Pair(r) \cap Pair(p) = {}

\* An execution-mode claim lives as long as its reservation or route: a route
\* always has its claim, and no claim outlives what it was taken for, where it
\* would block both Workers from pairing for ever.  (A restart drops the claims
\* of reservations, which their creation takes again.)
ClaimsBacked ==
    /\ \A r \in routes : Pair(r) \in claims
    /\ \A c \in claims : \/ \E r \in routes : Pair(r) = c
                         \/ \E p \in reservations : Pair(p) = c

\* A stored safe-unpair assertion speaks of a route that exists and is
\* UNPAIRING, of one of its Workers and of the version last recorded for it:
\* enter, cancel, a newer version and the removal of the route each discard
\* what they make stale.
AssertionsBound ==
    \A i \in RouteIds, w \in Workers : assertions[i][w] # Absent =>
        /\ \E r \in routes : r.id = i /\ r.state = "UNPAIRING" /\ w \in Pair(r)
        /\ assertions[i][w] = versions[i][w]

\* At most one Worker per MT5 account is active, through approvals, revocations
\* and deletions (approve_enrollment supersedes the active predecessor).
OneActivePerAccount ==
    \A v, w \in Workers : Active(v) /\ Active(w) /\ Account[v] = Account[w] => v = w

\* A route ends only by a safe unpair, for which it was UNPAIRING and one of
\* its Workers had already asserted, or because a Worker of it was deleted; and
\* a route_id that is gone never comes back.
RoutesEndSafely ==
    [][/\ \A r \in routes : (\A s \in routes' : s.id # r.id) =>
             \/ r.state = "UNPAIRING" /\ \E w \in Pair(r) : assertions[r.id][w] # Absent
             \/ \E w \in Pair(r) : status[w] # "none" /\ status'[w] = "none"
       /\ \A s \in routes' : (\A r \in routes : r.id # s.id) => s.id > issued]_ledger
=============================================================================
