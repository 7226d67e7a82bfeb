---------------------------- MODULE PairRoutes ----------------------------
(***************************************************************************)
(* Pairing and safe unpairing end to end: the ledger's transactions        *)
(* (RouteLedger), the control-plane service that runs them for the         *)
(* messages of authenticated sessions (src/abt/controlplane/service.py),   *)
(* and the PairCellRuntime of every Worker                                 *)
(* (src/abt/worker/pair_cell_adapter.py) that negotiates a route, keeps a  *)
(* durable copy of it and asserts when it may go.                          *)
(*                                                                         *)
(* A session carries messages in order both ways and loses them when it    *)
(* breaks; nothing is replayed into the next one.  A Worker builds a new   *)
(* runtime for each session from its files.  The service is one event      *)
(* loop, so a message is handled atomically.  Of the attempts of a cell    *)
(* only their existence and the state version are kept.                    *)
(*                                                                         *)
(* Left out: --follower-worker-id (a leader that proposes once), the role  *)
(* declarations table (leaders are those started as such), --unpair and    *)
(* --cancel-unpair at startup (an operator's command at any time instead), *)
(* replies that their receiver ignores, and the race of two new sessions   *)
(* of one Worker superseding the same old one.                             *)
(***************************************************************************)
EXTENDS RouteLedger, Sequences, FiniteSets

CONSTANTS
    Leaders,      \* the Workers started as interactive leaders
    Commands,     \* of {"enter", "cancel"}: what operators ask for
    FaultKinds,   \* of {"drop", "restart", "revoke", "delete"}
    MaxEvents,    \* bound: commands and faults together
    MaxPending    \* bound: unserved messages of a Worker when it acts on its own

\* A Worker is told apart from the absence of one.
ASSUME PairRoutesAssumption == "none" \notin Workers

VARIABLES
    conn,     \* worker_connections: none, live, closing (still registered,
              \* its reservations already released), ended (the reverse)
    session,  \* whether the Worker holds an open session
    up, down, \* messages from and to each Worker
    owed,     \* pushes the Worker has yet to serve after a reply overtook them
    wk,       \* the runtime and the files of each Worker
    commands, faults,  \* how many there have been
    excused,  \* history: an UNPAIRING was cancelled, or a Worker deleted
    crossed   \* history: a follower was reserved again while an earlier proposal,
              \* or its decision on one, was still under way

network == <<conn, session, up, down, owed>>
counts == <<commands, faults, excused, crossed>>
vars == <<ledger, network, wk, counts>>

NoRoute == [id |-> 0, leader |-> "none", follower |-> "none", state |-> "ACTIVE"]
NoBudget == [proposal |-> 0, role |-> "none", peer |-> "none"]

\* Worker memory: the pairing state, the proposal, the published state version,
\* the fail-closed mark and the cell's metadata reconciliation.  Durable: the
\* frozen budget, the route copy, the state version and whether an attempt is
\* unresolved.
NewWorker == [pairing |-> "unstarted", proposal |-> 0, pending |-> "none", published |-> Absent,
              failed |-> FALSE, reconciling |-> FALSE,
              budget |-> NoBudget, route |-> NoRoute, version |-> 0, busy |-> FALSE]

Role(w, r) == IF r.leader = w THEN "leader" ELSE "follower"
Peer(w, r) == IF r.leader = w THEN r.follower ELSE r.leader
RouteOf(w) == {r \in routes : w \in Pair(r)}
View(w) == IF RouteOf(w) = {} THEN NoRoute ELSE CHOOSE r \in RouteOf(w) : TRUE
RouteNamed(id) == {r \in routes : r.id = id}
Holds(w) == {p \in reservations : w \in Pair(p)}

\* _connected_worker_ids: registered with exactly one session.
Connected == {w \in Workers : conn[w] \in {"live", "closing"}}

----------------------------------------------------------------------------
(***************************************************************************)
(* Messages.                                                               *)
(***************************************************************************)

\* _push_worker_relay to each target of the function mail: nothing is kept for
\* a Worker without a live session.
Deliver(mail) ==
    down' = [w \in Workers |->
        IF w \in DOMAIN mail /\ conn[w] = "live" /\ session[w] THEN down[w] \o mail[w] ELSE down[w]]

Mail(ws, m) == [w \in ws |-> <<m>>]

\* A reply to w and a notification to the Workers ws, w first if among them.
ReplyAndPush(w, reply, ws, push) ==
    [u \in ws \cup {w} |-> (IF u = w THEN <<reply>> ELSE <<>>) \o (IF u \in ws THEN <<push>> ELSE <<>>)]

\* The next message of an authenticated session.
Receives(w, type) ==
    /\ conn[w] = "live" /\ Active(w)
    /\ up[w] # <<>> /\ Head(up[w]).type = type
    /\ up' = [up EXCEPT ![w] = Tail(@)]
    /\ UNCHANGED <<conn, session, owed, wk, commands, faults>>

Takes(w, type) == Receives(w, type) /\ UNCHANGED <<excused, crossed>>

Replies == {"role_result", "list_result", "proposal_result", "decision_result", "sync_result",
            "unpair_result", "version_result", "assertion_result"}

\* _drain_control serves all replies at hand before all pushes at hand, so a
\* reply may overtake the pushes that arrived before it.
Served(w) ==
    {k \in DOMAIN down[w] :
        \/ k = 1
        \/ owed[w] = 0 /\ down[w][k].type \in Replies /\ \A j \in 1..(k - 1) : down[w][j].type \notin Replies}

\* The Worker serves the k-th message, ends as rec and sends ms.
Serve(w, k, rec, ms) ==
    /\ session[w]
    /\ down' = [down EXCEPT ![w] = SubSeq(@, 1, k - 1) \o SubSeq(@, k + 1, Len(@))]
    /\ owed' = [owed EXCEPT ![w] = IF k > 1 THEN k - 1 ELSE IF @ > 0 THEN @ - 1 ELSE 0]
    /\ wk' = [wk EXCEPT ![w] = rec]
    /\ up' = [up EXCEPT ![w] = @ \o ms]
    /\ UNCHANGED <<ledger, conn, session, counts>>

\* A step of the Worker between two drains.
Act(w, rec, ms) ==
    /\ session[w] /\ owed[w] = 0
    /\ Len(up[w]) + Len(down[w]) < MaxPending
    /\ wk' = [wk EXCEPT ![w] = rec]
    /\ up' = [up EXCEPT ![w] = @ \o ms]
    /\ UNCHANGED <<ledger, conn, session, down, owed>>

UnderWay(w, types) ==
    \/ \E i \in DOMAIN up[w] : up[w][i].type \in types
    \/ \E i \in DOMAIN down[w] : down[w][i].type \in types

SyncRequest == [type |-> "sync"]

\* A proposal, or the decision on it, that is still under way.
UnderDecision(proposal) ==
    \E w \in Workers :
        \/ \E i \in DOMAIN up[w] : up[w][i].type = "decision" /\ up[w][i].proposal = proposal
        \/ \E i \in DOMAIN down[w] : down[w][i].type = "proposed" /\ down[w][i].proposal = proposal
----------------------------------------------------------------------------
(***************************************************************************)
(* The service: _apply_pair_cell_control_message, one action per type.     *)
(***************************************************************************)

HandleRole(w) ==
    /\ Takes(w, "role")
    /\ Deliver(Mail({w}, [type |-> "role_result", route |-> View(w)]))
    /\ UNCHANGED ledger

\* available_pair_followers, in a transaction that expires reservations.
HandleList(w) ==
    /\ Takes(w, "list")
    /\ ExpireLapsed
    /\ Deliver(Mail({w}, [type |-> "list_result",
          followers |-> {u \in Connected \ (Leaders \cup {w}) :
              Active(u) /\ u \notin Routed /\ \A p \in Unexpired : u \notin Pair(p)}]))

\* The answer says as well whether the Worker's pairing could still be open
\* (see SyncResult).
HandleSync(w) ==
    /\ Takes(w, "sync")
    /\ Deliver(Mail({w}, [type |-> "sync_result", route |-> View(w),
                          open |-> (\E p \in Holds(w) : ~p.lapsed) \/ UnderDecision(wk[w].proposal)]))
    /\ UNCHANGED ledger

HandleProposal(w) ==
    LET f == Head(up[w]).follower IN
    /\ Receives(w, "proposal")
    /\ \/ /\ Reserve(w, f, Connected)
          /\ crossed' = (crossed \/ UnderWay(f, {"proposed", "decision"}))
          /\ Deliver(ReplyAndPush(w, [type |-> "proposal_result", proposal |-> proposed'],
                                  {f}, [type |-> "proposed", proposal |-> proposed', leader |-> w]))
       \/ /\ ~CanReserve(w, f, Connected)
          /\ Deliver(Mail({w}, [type |-> "proposal_result", proposal |-> 0]))
          /\ UNCHANGED <<ledger, crossed>>
    /\ UNCHANGED excused

\* pair_cell_pairing_decision: the reservation must name this follower.
HandleDecision(w) ==
    LET m == Head(up[w])
        named == {p \in reservations : p.id = m.proposal /\ p.follower = w} IN
    /\ Takes(w, "decision")
    /\ \/ /\ named = {}
          /\ Deliver(Mail({w}, [type |-> "decision_result", accepted |-> FALSE, route |-> NoRoute]))
          /\ UNCHANGED ledger
       \/ \E p \in named :
            \/ /\ ~m.accepted
               /\ Release({p})
               /\ Deliver(ReplyAndPush(w, [type |-> "decision_result", accepted |-> TRUE, route |-> NoRoute],
                                       {p.leader}, [type |-> "pairing_ended", proposal |-> p.id]))
            \/ /\ m.accepted
               /\ CreateRoute(p, Connected)
               /\ LET r == CHOOSE r \in routes' : r.id = issued' IN
                  Deliver(ReplyAndPush(w, [type |-> "decision_result", accepted |-> TRUE, route |-> r],
                                       Pair(p), [type |-> "established", route |-> r]))
            \/ /\ m.accepted
               /\ CreateFails(p, Connected)
               /\ Deliver(ReplyAndPush(w, [type |-> "decision_result", accepted |-> FALSE, route |-> NoRoute],
                                       {p.leader}, [type |-> "pairing_ended", proposal |-> p.id]))

\* pair_cell_unpair: both Workers are told the new state of the route.
HandleUnpair(w) ==
    LET m == Head(up[w]) IN
    /\ Receives(w, "unpair")
    /\ \/ \E r \in RouteNamed(m.route) :
            LET s == [r EXCEPT !.state = IF m.action = "enter" THEN "UNPAIRING" ELSE "ACTIVE"] IN
            /\ \/ m.action = "enter" /\ EnterUnpairing(r, w) /\ UNCHANGED excused
               \/ m.action = "cancel" /\ CancelUnpairing(r, w) /\ excused' = TRUE
            /\ Deliver(ReplyAndPush(w, [type |-> "unpair_result", route |-> s],
                                    Pair(r), [type |-> "state_changed", route |-> s]))
       \/ /\ \A r \in RouteNamed(m.route) : w \in Pair(r) => m.action = "cancel" /\ r.state = "ACTIVE"
          /\ UNCHANGED <<ledger, down, excused>>
    /\ UNCHANGED crossed

HandleVersion(w) ==
    LET m == Head(up[w]) IN
    /\ Takes(w, "version")
    /\ \/ \E r \in RouteNamed(m.route) : RecordVersion(r, w, m.version) /\ UNCHANGED down
       \/ /\ \A r \in RouteNamed(m.route) : w \in Pair(r) => m.version < versions[r.id][w]
          /\ Deliver(Mail({w}, [type |-> "version_result"]))
          /\ UNCHANGED ledger

\* pair_cell_unpair_assertion: a removed route is announced to both Workers.
HandleAssertion(w) ==
    LET m == Head(up[w]) IN
    /\ Takes(w, "assertion")
    /\ \/ \E r \in RouteNamed(m.route) :
            /\ RecordAssertion(r, w, m.version)
            /\ IF PeerFresh(r, w)
                 THEN Deliver(ReplyAndPush(w, [type |-> "assertion_result"],
                                           Pair(r), [type |-> "removed", route |-> r.id]))
                 ELSE UNCHANGED down
       \/ /\ \A r \in RouteNamed(m.route) : ~CanAssert(r, w, m.version)
          /\ UNCHANGED <<ledger, down>>
----------------------------------------------------------------------------
(***************************************************************************)
(* The Worker: records after each kind of news.                            *)
(***************************************************************************)

\* _discard_proposal_records.
Discarded(rec) == [rec EXCEPT !.budget = NoBudget, !.pending = "none", !.proposal = 0]

\* _pairing_conflict: an interactive leader lists again, a follower is idle.
Conflicted(w, rec) == [Discarded(rec) EXCEPT !.pairing = IF w \in Leaders THEN "selecting" ELSE "unpaired"]

\* _feed_route_metadata and _apply_route_metadata: another route, or none, is a
\* disagreement; the same route brings its state.
Fed(rec, view) ==
    IF view.id = rec.route.id
      THEN [rec EXCEPT !.reconciling = FALSE, !.route.state = view.state]
      ELSE [rec EXCEPT !.reconciling = TRUE]

\* FrozenBudget.bound_to.
Bound(w, rec, view, proposal) ==
    /\ rec.budget.role = Role(w, view)
    /\ rec.budget.peer = Peer(w, view)
    /\ proposal \in {0, rec.budget.proposal}

\* _adopt_controller_route: only the frozen budget of this pairing will do.
Adopted(w, rec, view, proposal) ==
    IF rec.route # NoRoute THEN Fed(rec, view)
    ELSE IF Bound(w, rec, view, proposal) THEN [rec EXCEPT !.route = view, !.pairing = "routed"]
    ELSE [rec EXCEPT !.failed = TRUE, !.pairing = "unpaired"]

\* _construct_cell asks for the authoritative route.
OnAdopt(w, rec, view, proposal) ==
    IF rec.route = NoRoute /\ Bound(w, rec, view, proposal) THEN <<SyncRequest>> ELSE <<>>

\* Fault: the pairing state survives the route.
Unrouted_StillRouted(rec) == [NewWorker EXCEPT !.version = rec.version, !.busy = rec.busy, !.pairing = rec.pairing]

\* _route_removed: pairable again; an unresolved attempt is kept.
Unrouted(rec) == [NewWorker EXCEPT !.version = rec.version, !.busy = rec.busy]

\* safe_unpair_assertion: no unresolved attempt, account empty.
Safe(rec) == ~rec.busy

News(w, k, type) == k \in Served(w) /\ down[w][k].type = type

RoleResult(w, k) ==
    LET view == down[w][k].route  rec == wk[w] IN
    /\ News(w, k, "role_result")
    /\ \/ /\ view # NoRoute
          /\ Serve(w, k, Adopted(w, rec, view, 0), OnAdopt(w, rec, view, 0))
       \/ /\ view = NoRoute /\ w \in Leaders
          /\ Serve(w, k, [rec EXCEPT !.pairing = "listing"], <<[type |-> "list"]>>)
       \/ /\ view = NoRoute /\ w \notin Leaders
          /\ Serve(w, k, [rec EXCEPT !.pairing = "available"], <<>>)

\* _select_from_listing: the operator picks one, or none.
ListResult(w, k) ==
    /\ News(w, k, "list_result")
    /\ \/ \E f \in down[w][k].followers :
            Serve(w, k, [wk[w] EXCEPT !.pairing = "proposing", !.pending = f],
                  <<[type |-> "proposal", follower |-> f]>>)
       \/ Serve(w, k, [wk[w] EXCEPT !.pairing = "unpaired"], <<>>)

\* An accepted proposal freezes the leader's budget.
ProposalResult(w, k) ==
    LET p == down[w][k].proposal  rec == wk[w] IN
    /\ News(w, k, "proposal_result")
    /\ \/ p = 0 /\ Serve(w, k, Conflicted(w, rec), <<>>)
       \/ /\ p # 0
          /\ Serve(w, k, [rec EXCEPT !.pairing = "awaiting_decision", !.proposal = p,
                             !.budget = IF rec.pending = "none" THEN @
                                        ELSE [proposal |-> p, role |-> "leader", peer |-> rec.pending]], <<>>)

DecisionResult(w, k) ==
    LET m == down[w][k]  rec == wk[w] IN
    /\ News(w, k, "decision_result")
    /\ \/ ~m.accepted /\ Serve(w, k, [Discarded(rec) EXCEPT !.pairing = "available"], <<>>)
       \/ /\ m.accepted /\ m.route # NoRoute
          /\ Serve(w, k, Adopted(w, rec, m.route, rec.proposal), OnAdopt(w, rec, m.route, rec.proposal))
       \/ /\ m.accepted /\ m.route = NoRoute
          /\ Serve(w, k, [rec EXCEPT !.proposal = 0, !.pairing = "available"], <<>>)

\* Fault: any sync without a route abandons the pairing.
PastGrace_AtOnce(m) == TRUE

\* A Worker gives a pairing up 90 s after it was begun.  The reservation lasts
\* 30 s and messages take less than the 60 s of grace: an answer that arrives
\* so late was given when the reservation had lapsed or was gone, and proposal
\* and decision had been served.
PastGrace(m) == ~m.open

SyncResult(w, k) ==
    LET m == down[w][k]  rec == wk[w] IN
    /\ News(w, k, "sync_result")
    /\ \/ m.route # NoRoute /\ Serve(w, k, Adopted(w, rec, m.route, 0), OnAdopt(w, rec, m.route, 0))
       \/ /\ m.route = NoRoute /\ rec.route # NoRoute   \* _reconcile_absent_controller_route
          /\ Serve(w, k, IF rec.route.state = "UNPAIRING" /\ Safe(rec) THEN Unrouted(rec)
                         ELSE [rec EXCEPT !.reconciling = TRUE], <<>>)
       \/ /\ m.route = NoRoute /\ rec.route = NoRoute   \* _reconcile_absent_pairing
          /\ PastGrace(m) /\ rec.pairing \in {"awaiting_decision", "deciding"}
          /\ Serve(w, k, IF rec.pairing = "deciding" THEN [Discarded(rec) EXCEPT !.pairing = "available"]
                         ELSE Conflicted(w, rec), <<>>)
       \/ /\ m.route = NoRoute /\ rec.route = NoRoute   \* too early, or not pairing
          /\ Serve(w, k, rec, <<>>)

UnpairResult(w, k) ==
    /\ News(w, k, "unpair_result")
    /\ Serve(w, k, IF wk[w].route = NoRoute THEN wk[w] ELSE Fed(wk[w], down[w][k].route), <<>>)

\* A refused state version is published again.
VersionResult(w, k) ==
    /\ News(w, k, "version_result")
    /\ Serve(w, k, [wk[w] EXCEPT !.published = Absent], <<>>)

\* The reply to the assertion that removed the route.
AssertionResult(w, k) ==
    /\ News(w, k, "assertion_result")
    /\ Serve(w, k, Unrouted(wk[w]), <<>>)

\* _answer_pairing_proposal: the budget is frozen before the decision leaves.
\* The refusal reasons that are not kept (terminal, balance, clock) may apply.
Proposed(w, k) ==
    LET m == down[w][k]  rec == wk[w] IN
    /\ News(w, k, "proposed")
    /\ \/ /\ ~rec.failed /\ rec.route = NoRoute /\ ~rec.busy
          /\ Serve(w, k, [rec EXCEPT !.pairing = "deciding", !.proposal = m.proposal,
                             !.budget = [proposal |-> m.proposal, role |-> "follower", peer |-> m.leader]],
                   <<[type |-> "decision", proposal |-> m.proposal, accepted |-> TRUE]>>)
       \/ Serve(w, k, rec, <<[type |-> "decision", proposal |-> m.proposal, accepted |-> FALSE]>>)

\* refused, failed and reservation_released: none of them is compared with the
\* proposal the Worker is in.
PairingEnded(w, k) ==
    LET rec == wk[w] IN
    /\ News(w, k, "pairing_ended")
    /\ Serve(w, k, IF rec.route # NoRoute THEN rec
                   ELSE IF w \notin Leaders /\ rec.pairing \in {"available", "deciding"}
                          THEN [Discarded(rec) EXCEPT !.pairing = "available"]
                          ELSE Conflicted(w, rec), <<>>)

Established(w, k) ==
    LET view == down[w][k].route  rec == wk[w] IN
    /\ News(w, k, "established")
    /\ Serve(w, k, Adopted(w, rec, view, rec.proposal), OnAdopt(w, rec, view, rec.proposal))

StateChanged(w, k) ==
    /\ News(w, k, "state_changed")
    /\ Serve(w, k, IF wk[w].route = NoRoute THEN wk[w] ELSE Fed(wk[w], down[w][k].route), <<>>)

Removed(w, k) ==
    /\ News(w, k, "removed")
    /\ Serve(w, k, IF wk[w].route.id = down[w][k].route THEN Unrouted(wk[w]) ELSE wk[w], <<>>)
----------------------------------------------------------------------------
(***************************************************************************)
(* The Worker: what the pump does on its own.                              *)
(***************************************************************************)

\* _advance_pairing does nothing for a Worker with a cell or failed closed.
Advancing(w, state) == wk[w].pairing = state /\ wk[w].route = NoRoute /\ ~wk[w].failed

DeclareRole(w) ==
    /\ Advancing(w, "unstarted")
    /\ Act(w, [wk[w] EXCEPT !.pairing = "declaring"], <<[type |-> "role"]>>)
    /\ UNCHANGED counts

BeginSelection(w) ==
    /\ Advancing(w, "selecting")
    /\ Act(w, [wk[w] EXCEPT !.pairing = "listing"], <<[type |-> "list"]>>)
    /\ UNCHANGED counts

\* Every 30 s while a decision is out, or while the cell disagrees with the
\* controller; the model has one request under way at a time.
RequestSync(w) ==
    /\ \/ Advancing(w, "awaiting_decision") \/ Advancing(w, "deciding")
       \/ wk[w].reconciling
    /\ ~UnderWay(w, {"sync", "sync_result"})
    /\ Act(w, wk[w], <<SyncRequest>>)
    /\ UNCHANGED counts

\* _sync_route_control: first the version, then, while UNPAIRING, the assertion
\* (sent again on a heartbeat).
PublishVersion(w) ==
    LET rec == wk[w] IN
    /\ rec.route # NoRoute /\ ~rec.reconciling
    /\ rec.version # rec.published
    /\ Act(w, [rec EXCEPT !.published = rec.version],
           <<[type |-> "version", route |-> rec.route.id, version |-> rec.version]>>)
    /\ UNCHANGED counts

AssertSafe(w) ==
    LET rec == wk[w] IN
    /\ rec.route # NoRoute /\ ~rec.reconciling
    /\ rec.version = rec.published
    /\ rec.route.state = "UNPAIRING" /\ Safe(rec)
    /\ ~UnderWay(w, {"assertion", "assertion_result"})
    /\ Act(w, rec, <<[type |-> "assertion", route |-> rec.route.id, version |-> rec.version]>>)
    /\ UNCHANGED counts

\* Fault: an UNPAIRING route still admits attempts.
StartAttempt_WhileUnpairing(w) ==
    LET rec == wk[w] IN
    /\ rec.route # NoRoute /\ ~rec.reconciling
    /\ ~rec.busy /\ rec.version < MaxVersion
    /\ \/ rec.route.leader = w
       \/ wk[rec.route.leader].busy /\ wk[rec.route.leader].route.id = rec.route.id
    /\ Act(w, [rec EXCEPT !.busy = TRUE, !.version = @ + 1], <<>>)
    /\ UNCHANGED counts

\* The cell creates an attempt as leader, or takes the leader's as follower.
StartAttempt(w) ==
    LET rec == wk[w] IN
    /\ rec.route # NoRoute /\ ~rec.reconciling /\ rec.route.state = "ACTIVE"
    /\ ~rec.busy /\ rec.version < MaxVersion
    /\ \/ rec.route.leader = w
       \/ wk[rec.route.leader].busy /\ wk[rec.route.leader].route.id = rec.route.id
    /\ Act(w, [rec EXCEPT !.busy = TRUE, !.version = @ + 1], <<>>)
    /\ UNCHANGED counts

\* The attempt and its effects are terminal.
FinishAttempt(w) ==
    LET rec == wk[w] IN
    /\ rec.route # NoRoute /\ rec.busy /\ rec.version < MaxVersion
    /\ Act(w, [rec EXCEPT !.busy = FALSE, !.version = @ + 1], <<>>)
    /\ UNCHANGED counts

\* request_safe_unpair, cancel_safe_unpair.
OperatorCommand(w, action) ==
    /\ commands + faults < MaxEvents
    /\ wk[w].route # NoRoute
    /\ Act(w, wk[w], <<[type |-> "unpair", route |-> wk[w].route.id, action |-> action]>>)
    /\ commands' = commands + 1
    /\ UNCHANGED <<faults, excused, crossed>>
----------------------------------------------------------------------------
(***************************************************************************)
(* Sessions, restarts and the administrator.                               *)
(***************************************************************************)

Fault(kind) == kind \in FaultKinds /\ faults = 0 /\ commands + faults < MaxEvents /\ faults' = faults + 1

\* worker_session: a new runtime on the Worker's side; an older session that
\* the service still holds is superseded, without releasing reservations.
OpenSession(w) ==
    LET rec == wk[w] IN
    /\ ~session[w] /\ Active(w)
    /\ session' = [session EXCEPT ![w] = TRUE]
    /\ conn' = [conn EXCEPT ![w] = "live"]
    /\ wk' = [wk EXCEPT ![w] = [NewWorker EXCEPT
                 !.budget = rec.budget, !.route = rec.route, !.version = rec.version, !.busy = rec.busy,
                 !.pairing = IF rec.route = NoRoute THEN "unstarted" ELSE "routed"]]
    /\ up' = [up EXCEPT ![w] = IF rec.route = NoRoute THEN <<>> ELSE <<SyncRequest>>]
    /\ down' = [down EXCEPT ![w] = <<>>]
    /\ owed' = [owed EXCEPT ![w] = 0]
    /\ UNCHANGED <<ledger, counts>>

\* The Worker loses its session; what it sent may still arrive.
LoseSession(w) ==
    /\ session[w] /\ Fault("drop")
    /\ session' = [session EXCEPT ![w] = FALSE]
    /\ down' = [down EXCEPT ![w] = <<>>]
    /\ owed' = [owed EXCEPT ![w] = 0]
    /\ UNCHANGED <<ledger, conn, up, wk, commands, excused, crossed>>

\* _release_pair_cell_reservations_for_worker.
ReleaseHeld(w) ==
    /\ Release(Holds(w))
    /\ Deliver([u \in {v \in Workers \ {w} : \E p \in Holds(w) : v \in Pair(p)} |->
                  <<[type |-> "pairing_ended", proposal |-> (CHOOSE p \in Holds(w) : u \in Pair(p)).id]>>])

\* The service notices: reservations first, the registry after another await.
NoticeDisconnect(w) ==
    /\ ~session[w] /\ conn[w] \in {"live", "ended"}
    /\ ReleaseHeld(w)
    /\ conn' = [conn EXCEPT ![w] = IF @ = "live" THEN "closing" ELSE "none"]
    /\ up' = [up EXCEPT ![w] = <<>>]
    /\ UNCHANGED <<session, owed, wk, counts>>

DiscardConnection(w) ==
    /\ conn[w] = "closing"
    /\ conn' = [conn EXCEPT ![w] = "none"]
    /\ UNCHANGED <<ledger, session, up, down, owed, wk, counts>>

ReservationLapses ==
    /\ \E p \in reservations : Lapse(p)
    /\ UNCHANGED <<network, wk, counts>>

\* The control plane restarts: all sessions are gone, the ledger is reopened.
Restart ==
    /\ Fault("restart")
    /\ DropOrphanedClaims
    /\ conn' = [w \in Workers |-> "none"]
    /\ session' = [w \in Workers |-> FALSE]
    /\ up' = [w \in Workers |-> <<>>] /\ down' = up'
    /\ owed' = [w \in Workers |-> 0]
    /\ UNCHANGED <<wk, commands, excused, crossed>>

\* The endpoints unregister the Worker's sessions and close them.
Unregister(w) ==
    /\ conn' = [conn EXCEPT ![w] = IF @ = "none" THEN "none" ELSE "ended"]
    /\ session' = [session EXCEPT ![w] = FALSE]
    /\ up' = [up EXCEPT ![w] = <<>>]
    /\ owed' = [owed EXCEPT ![w] = 0]

RevokeWorker(w) ==
    /\ Fault("revoke")
    /\ Revoke(w)
    /\ Unregister(w)
    /\ down' = [down EXCEPT ![w] = <<>>]
    /\ UNCHANGED <<wk, commands, excused, crossed>>

\* The surviving peer is told that the route is gone.
DeleteWorker(w) ==
    LET rs == {r \in routes : w \in Pair(r)} IN
    /\ Fault("delete")
    /\ Delete(w)
    /\ Unregister(w)
    /\ Deliver([u \in {v \in Workers \ {w} : \E r \in rs : v \in Pair(r)} |->
                  <<[type |-> "removed", route |-> (CHOOSE r \in rs : u \in Pair(r)).id]>>])
    /\ excused' = TRUE
    /\ UNCHANGED <<wk, commands, crossed>>

\* approve_enrollment refuses while a predecessor is connected.
ApproveWorker(w) ==
    /\ w \notin Approved /\ wk[w] = NewWorker   \* a new worker_id
    /\ \A u \in Predecessors(w) : conn[u] \in {"none", "ended"}
    /\ Approve(w)
    /\ UNCHANGED <<network, wk, counts>>
----------------------------------------------------------------------------
\* The approved Workers have opened a session and declared their role.
Init ==
    /\ LedgerInit
    /\ conn = [w \in Workers |-> IF w \in Approved THEN "live" ELSE "none"]
    /\ session = [w \in Workers |-> w \in Approved]
    /\ up = [w \in Workers |-> <<>>] /\ down = up
    /\ owed = [w \in Workers |-> 0]
    /\ wk = [w \in Workers |-> [NewWorker EXCEPT !.pairing =
          IF w \notin Approved THEN @ ELSE IF w \in Leaders THEN "selecting" ELSE "available"]]
    /\ commands = 0 /\ faults = 0 /\ excused = FALSE /\ crossed = FALSE

Service(w) ==
    \/ HandleRole(w) \/ HandleList(w) \/ HandleSync(w) \/ HandleProposal(w) \/ HandleDecision(w)
    \/ HandleUnpair(w) \/ HandleVersion(w) \/ HandleAssertion(w)

Answered(w, k) ==
    \/ RoleResult(w, k) \/ ListResult(w, k) \/ ProposalResult(w, k) \/ DecisionResult(w, k)
    \/ SyncResult(w, k) \/ UnpairResult(w, k) \/ VersionResult(w, k) \/ AssertionResult(w, k)

Notified(w, k) ==
    \/ Proposed(w, k) \/ PairingEnded(w, k) \/ Established(w, k) \/ StateChanged(w, k) \/ Removed(w, k)

Pump(w) ==
    \/ DeclareRole(w) \/ BeginSelection(w) \/ RequestSync(w) \/ PublishVersion(w) \/ AssertSafe(w)
    \/ StartAttempt(w) \/ FinishAttempt(w)
    \/ \E action \in Commands : OperatorCommand(w, action)

Connection(w) ==
    \/ OpenSession(w) \/ LoseSession(w) \/ NoticeDisconnect(w) \/ DiscardConnection(w)
    \/ RevokeWorker(w) \/ DeleteWorker(w) \/ ApproveWorker(w)

Next ==
    \/ \E w \in Workers : Service(w) \/ Pump(w) \/ Connection(w)
    \/ \E w \in Workers : \E k \in DOMAIN down[w] : Answered(w, k) \/ Notified(w, k)
    \/ ReservationLapses
    \/ Restart

Spec == Init /\ [][Next]_vars
----------------------------------------------------------------------------
PairingStates == {"unstarted", "declaring", "selecting", "listing", "proposing", "awaiting_decision",
                  "deciding", "available", "unpaired", "routed"}

TypeOK ==
    /\ LedgerTypeOK
    /\ conn \in [Workers -> {"none", "live", "closing", "ended"}]
    /\ session \in [Workers -> BOOLEAN]
    /\ owed \in [Workers -> Nat]
    /\ \A w \in Workers :
          /\ owed[w] <= Len(down[w])
          /\ session[w] => conn[w] = "live"
          /\ wk[w].pairing \in PairingStates
          /\ wk[w].proposal \in ProposalIds \cup {0}
          /\ wk[w].route = NoRoute \/ wk[w].route \in Route
          /\ wk[w].version \in Versions /\ wk[w].published \in Versions \cup {Absent}
          /\ wk[w].pairing = "routed" => wk[w].route # NoRoute

\* A Worker with an unresolved attempt is still on the route it trades on: the
\* safe unpair, arbitrated over two sessions on versions and assertions, never
\* takes a route away under an attempt (_sync_route_control against
\* record_pair_unpair_assertion; _reset_route_scoped_state calls the opposite
\* a contradiction).  Excepted are an administrator's deletion of a Worker and
\* routes whose UNPAIRING was cancelled before, where an assertion of the
\* earlier episode may still be under way.
UnpairedIsIdle ==
    \/ excused
    \/ \A w \in Workers : wk[w].busy => RouteNamed(wk[w].route.id) # {}

\* While no session breaks, no restart happens and the administrator leaves the
\* Workers alone, every Worker that the controller routes still holds the
\* budget it froze for that pairing, in whatever order decisions, expiries,
\* refusals and syncs arrive: none fails closed (_adopt_controller_route).
\* Excepted is a follower that another leader reserved while it was still
\* answering a proposal that had lapsed: the late refusal of that answer
\* discards the budget of the new proposal, since the Worker compares no ids
\* (_handle_control_result).
FailsClosedOnlyAfterFault ==
    (\E w \in Workers : wk[w].failed) => faults > 0 \/ crossed
=============================================================================
