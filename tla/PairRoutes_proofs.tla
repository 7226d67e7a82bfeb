------------------------- MODULE PairRoutes_proofs -------------------------
(***************************************************************************)
(* Pairing end to end implements the ledger's transactions: every step of  *)
(* PairRoutes, whatever the Workers, the sessions and the faults do, is a  *)
(* transaction of RouteLedger or leaves the ledger alone.  What is proved  *)
(* of the ledger therefore holds of the whole.                             *)
(*                                                                         *)
(* Then the types (RuntimeInv), and the safe unpair (UnpairInv).  Both     *)
(* rest on three descriptions of a step: what the service sends is true    *)
(* when it is sent (Sends), what a Worker makes of a message (Turns), and  *)
(* what it does by itself (Moves).                                         *)
(*                                                                         *)
(* Last the negotiation (BudgetInv): while no session breaks, a Worker     *)
(* that adopts a route finds the budget it froze for it.  There a step is  *)
(* the service's, that attends to one message and to the queues of all     *)
(* (Attends), or a Worker's, that goes on by itself (Goes).                *)
(***************************************************************************)
EXTENDS PairRoutes, RouteLedger_proofs, SequenceTheorems

\* The messages of one session, handled by the service.
LEMMA ServiceStep ==
    ASSUME NEW w \in Workers, Service(w)
    PROVE  LedgerNext \/ UNCHANGED ledger
<1>1. CASE HandleRole(w) \/ HandleSync(w)
  BY <1>1 DEF HandleRole, HandleSync
<1>2. CASE HandleList(w)
  BY <1>2 DEF HandleList, LedgerNext
<1>3. CASE HandleProposal(w)
  <2>1. ASSUME NEW f, Reserve(w, f, Connected) PROVE LedgerNext
    <3>1. f \in Workers /\ Connected \in SUBSET Workers
      BY <2>1 DEF Reserve, CanReserve, MayPair, Connected
    <3> QED
      BY <2>1, <3>1 DEF LedgerNext
  <2> QED
    BY <1>3, <2>1 DEF HandleProposal
<1>4. CASE HandleDecision(w)
  <2>1. Connected \in SUBSET Workers
    BY DEF Connected
  <2>2. ASSUME NEW p \in reservations,
               Release({p}) \/ CreateRoute(p, Connected) \/ CreateFails(p, Connected)
        PROVE  LedgerNext
    <3>1. CASE Release({p})
      <4>1. {p} \in SUBSET reservations
        OBVIOUS
      <4> QED
        BY <3>1, <4>1 DEF LedgerNext
    <3>2. CASE CreateRoute(p, Connected) \/ CreateFails(p, Connected)
      BY <3>2, <2>1 DEF LedgerNext
    <3> QED
      BY <2>2, <3>1, <3>2
  <2> QED
    BY <1>4, <2>2 DEF HandleDecision
<1>5. CASE HandleUnpair(w)
  BY <1>5 DEF HandleUnpair, RouteNamed, LedgerNext
<1>6. CASE HandleVersion(w)
  <2>1. ASSUME NEW r \in routes, NEW v, RecordVersion(r, w, v) PROVE LedgerNext
    BY <2>1 DEF RecordVersion, LedgerNext
  <2> QED
    BY <1>6, <2>1 DEF HandleVersion, RouteNamed
<1>7. CASE HandleAssertion(w)
  <2>1. ASSUME NEW r \in routes, NEW v, RecordAssertion(r, w, v) PROVE LedgerNext
    BY <2>1 DEF RecordAssertion, CanAssert, LedgerNext
  <2> QED
    BY <1>7, <2>1 DEF HandleAssertion, RouteNamed
<1> QED
  BY <1>1, <1>2, <1>3, <1>4, <1>5, <1>6, <1>7 DEF Service

\* A Worker writes its own files and memory only.
LEMMA WorkerStep ==
    ASSUME NEW w \in Workers, NEW k \in DOMAIN down[w], Answered(w, k) \/ Notified(w, k)
    PROVE  UNCHANGED ledger
<1>1. CASE Answered(w, k)
  BY <1>1 DEF Answered, RoleResult, ListResult, ProposalResult, DecisionResult, SyncResult, UnpairResult,
              VersionResult, AssertionResult, Serve
<1>2. CASE Notified(w, k)
  BY <1>2 DEF Notified, Proposed, PairingEnded, Established, StateChanged, Removed, Serve
<1> QED
  BY <1>1, <1>2

\* Sessions, and what the administrator does.
LEMMA ConnectionStep ==
    ASSUME NEW w \in Workers, Connection(w)
    PROVE  LedgerNext \/ UNCHANGED ledger
<1>1. CASE OpenSession(w) \/ LoseSession(w) \/ DiscardConnection(w)
  BY <1>1 DEF OpenSession, LoseSession, DiscardConnection
<1>2. CASE NoticeDisconnect(w)
  <2>1. Holds(w) \in SUBSET reservations
    BY DEF Holds
  <2> QED
    BY <1>2, <2>1 DEF NoticeDisconnect, ReleaseHeld, LedgerNext
<1>3. CASE RevokeWorker(w) \/ DeleteWorker(w) \/ ApproveWorker(w)
  BY <1>3 DEF RevokeWorker, DeleteWorker, ApproveWorker, LedgerNext
<1> QED
  BY <1>1, <1>2, <1>3 DEF Connection

\* Every step is a transaction of the ledger, or leaves it alone.
LEMMA LedgerStep == [Next]_vars => [LedgerNext]_ledger
<1> SUFFICES ASSUME [Next]_vars PROVE LedgerNext \/ UNCHANGED ledger
  OBVIOUS
<1>1. ASSUME NEW w \in Workers, Service(w) \/ Connection(w) PROVE LedgerNext \/ UNCHANGED ledger
  BY <1>1, ServiceStep, ConnectionStep
<1>2. ASSUME NEW w \in Workers, Pump(w) PROVE UNCHANGED ledger
  BY <1>2 DEF Pump, DeclareRole, BeginSelection, RequestSync, PublishVersion, AssertSafe, StartAttempt,
              FinishAttempt, OperatorCommand, Act
<1>3. ASSUME NEW w \in Workers, NEW k \in DOMAIN down[w], Answered(w, k) \/ Notified(w, k)
      PROVE  UNCHANGED ledger
  BY <1>3, WorkerStep
<1>4. CASE ReservationLapses
  BY <1>4 DEF ReservationLapses, LedgerNext
<1>5. CASE Restart
  BY <1>5 DEF Restart, LedgerNext
<1>6. CASE UNCHANGED vars
  BY <1>6 DEF vars
<1> QED
  BY <1>1, <1>2, <1>3, <1>4, <1>5, <1>6 DEF Next

\* Pairing over sessions, restarts and operators' commands implements the
\* abstract ledger.
THEOREM PairingImplementsLedger == Spec => LedgerSpec
<1>1. Init => LedgerInit
  BY DEF Init
<1> QED
  BY <1>1, LedgerStep, PTL DEF Spec, LedgerSpec

\* Two leaders that propose to the same follower, or a re-pairing that races an
\* expiry, a disconnect or a deletion, never put a Worker on two routes.
THEOREM PairedOnce == Spec => []WorkerOnOneRoute
  BY PairingImplementsLedger, OneRoutePerWorker, PTL

\* Whatever fails between two Workers and the service, no claim is left behind
\* and no route loses its own.
THEOREM ClaimsSurviveFaults == Spec => []ClaimsBacked
  BY PairingImplementsLedger, ClaimsStayBacked, PTL

\* No late, repeated or reordered message leaves a stale assertion in the ledger.
THEOREM NoStaleAssertion == Spec => []AssertionsBound
  BY PairingImplementsLedger, AssertionsStayBound, PTL

\* Administration and pairing in any order leave one active Worker per account.
THEOREM OneActiveWorker == Spec => []OneActivePerAccount
  BY PairingImplementsLedger, OneActive, PTL

\* End to end, a route ends by a safe unpair or with a deleted Worker only.
THEOREM RoutesEnd == Spec => RoutesEndSafely
  BY PairingImplementsLedger, SafeEnd, PTL
----------------------------------------------------------------------------
(***************************************************************************)
(* Types of the messages and of what a Worker keeps.                       *)
(***************************************************************************)

AnyRoute == Route \cup {NoRoute}
ActiveRoute == {r \in Route : r.state = "ACTIVE"}

Budgets == [proposal : ProposalIds \cup {0}, role : {"none", "leader", "follower"}, peer : Workers \cup {"none"}]

Runtimes == [pairing : PairingStates, proposal : ProposalIds \cup {0}, pending : Workers \cup {"none"},
             published : Versions \cup {Absent}, failed : BOOLEAN, reconciling : BOOLEAN,
             budget : Budgets, route : AnyRoute, version : Versions, busy : BOOLEAN]

\* What a runtime may become: one that negotiates no longer has a route.
Sound == {rec \in Runtimes : rec.pairing = "routed" => rec.route # NoRoute}

Upward ==
    [type : {"role", "list", "sync"}]
      \cup [type : {"proposal"}, follower : Workers]
      \cup [type : {"decision"}, proposal : ProposalIds, accepted : BOOLEAN]
      \cup [type : {"unpair"}, route : RouteIds, action : Commands]
      \cup [type : {"version", "assertion"}, route : RouteIds, version : Versions]

Downward ==
    [type : {"role_result"}, route : AnyRoute]
      \cup [type : {"list_result"}, followers : SUBSET Workers]
      \cup [type : {"sync_result"}, route : AnyRoute, open : BOOLEAN]
      \cup [type : {"proposal_result"}, proposal : ProposalIds \cup {0}]
      \cup [type : {"decision_result"}, accepted : BOOLEAN, route : AnyRoute]
      \cup [type : {"unpair_result", "state_changed"}, route : Route]
      \cup [type : {"version_result", "assertion_result"}]
      \cup [type : {"proposed"}, proposal : ProposalIds, leader : Workers]
      \cup [type : {"pairing_ended"}, proposal : ProposalIds]
      \cup [type : {"established"}, route : ActiveRoute]
      \cup [type : {"removed"}, route : RouteIds]

RuntimeInv ==
    /\ LedgerInv
    /\ conn \in [Workers -> {"none", "live", "closing", "ended"}]
    /\ session \in [Workers -> BOOLEAN]
    /\ owed \in [Workers -> Nat]
    /\ up \in [Workers -> Seq(Upward)]
    /\ down \in [Workers -> Seq(Downward)]
    /\ wk \in [Workers -> Sound]
    /\ \A w \in Workers : owed[w] <= Len(down[w])
    /\ \A w \in Workers : session[w] => conn[w] = "live"

\* What the news to a Worker carry.
LEMMA DownwardFields ==
    ASSUME NEW m \in Downward
    PROVE  /\ m.type \in {"role_result", "sync_result", "decision_result"} => m.route \in AnyRoute
           /\ m.type \in {"unpair_result", "state_changed"} => m.route \in Route
           /\ m.type = "established" => m.route \in ActiveRoute
           /\ m.type = "removed" => m.route \in RouteIds
           /\ m.type = "list_result" => m.followers \subseteq Workers
           /\ m.type = "proposal_result" => m.proposal \in ProposalIds \cup {0}
           /\ m.type = "proposed" => m.proposal \in ProposalIds /\ m.leader \in Workers
  BY DEF Downward

\* The messages that are sent.
LEMMA DownwardMade ==
    /\ \A r \in AnyRoute : [type |-> "role_result", route |-> r] \in Downward
    /\ \A r \in AnyRoute, b \in BOOLEAN : [type |-> "sync_result", route |-> r, open |-> b] \in Downward
    /\ \A r \in AnyRoute, b \in BOOLEAN : [type |-> "decision_result", accepted |-> b, route |-> r] \in Downward
    /\ \A s \in SUBSET Workers : [type |-> "list_result", followers |-> s] \in Downward
    /\ \A p \in ProposalIds \cup {0} : [type |-> "proposal_result", proposal |-> p] \in Downward
    /\ \A r \in Route : [type |-> "unpair_result", route |-> r] \in Downward
    /\ \A r \in Route : [type |-> "state_changed", route |-> r] \in Downward
    /\ [type |-> "version_result"] \in Downward /\ [type |-> "assertion_result"] \in Downward
    /\ \A p \in ProposalIds, w \in Workers : [type |-> "proposed", proposal |-> p, leader |-> w] \in Downward
    /\ \A p \in ProposalIds : [type |-> "pairing_ended", proposal |-> p] \in Downward
    /\ \A r \in ActiveRoute : [type |-> "established", route |-> r] \in Downward
    /\ \A i \in RouteIds : [type |-> "removed", route |-> i] \in Downward
  BY DEF Downward

LEMMA UpwardMade ==
    /\ [type |-> "role"] \in Upward /\ [type |-> "list"] \in Upward /\ SyncRequest \in Upward
    /\ \A w \in Workers : [type |-> "proposal", follower |-> w] \in Upward
    /\ \A p \in ProposalIds, b \in BOOLEAN : [type |-> "decision", proposal |-> p, accepted |-> b] \in Upward
    /\ \A i \in RouteIds, a \in Commands : [type |-> "unpair", route |-> i, action |-> a] \in Upward
    /\ \A i \in RouteIds, v \in Versions : [type |-> "version", route |-> i, version |-> v] \in Upward
    /\ \A i \in RouteIds, v \in Versions : [type |-> "assertion", route |-> i, version |-> v] \in Upward
  BY DEF Upward, SyncRequest

\* The queue to u is what it was, followed by messages of S of which the first
\* may be a reply.
Grown(u, S) ==
    /\ Len(down[u]) <= Len(down'[u])
    /\ \A k \in DOMAIN down'[u] : k <= Len(down[u]) => down'[u][k] = down[u][k]
    /\ \A k \in DOMAIN down'[u] : k > Len(down[u]) => down'[u][k] \in S
    /\ \A k \in DOMAIN down'[u] :
          k > Len(down[u]) /\ down'[u][k].type \in Replies => k = Len(down[u]) + 1

OneReply(s) == \A k \in DOMAIN s : s[k].type \in Replies => k = 1

\* Messages are put at the end.
LEMMA AppendGrows ==
    ASSUME NEW u, down[u] \in Seq(Downward), NEW S \in SUBSET Downward, NEW s \in Seq(S), OneReply(s),
           down'[u] = down[u] \o s
    PROVE  Grown(u, S) /\ down'[u] \in Seq(Downward)
<1> DEFINE d == down[u]
           e == down'[u]
<1>1. d \in Seq(Downward) /\ s \in Seq(Downward) /\ e = d \o s
  <2>1. DOMAIN s = 1 .. Len(s) /\ Len(s) \in Nat /\ \A k \in 1 .. Len(s) : s[k] \in S
    OBVIOUS
  <2>2. s = [k \in 1 .. Len(s) |-> s[k]] /\ \A k \in 1 .. Len(s) : s[k] \in Downward
    BY <2>1
  <2> QED
    BY <2>1, <2>2
<1> HIDE DEF d, e
<1>2. /\ e \in Seq(Downward) /\ Len(d) \in Nat /\ Len(s) \in Nat /\ Len(e) = Len(d) + Len(s) /\ DOMAIN e = 1 .. Len(e)
      /\ \A k \in DOMAIN e : k <= Len(d) => e[k] = d[k]
      /\ \A k \in DOMAIN e : k > Len(d) => e[k] = s[k - Len(d)] /\ k - Len(d) \in DOMAIN s
  BY <1>1
<1>3. \A k \in DOMAIN s : s[k] \in S
  OBVIOUS
<1>4. \A k \in DOMAIN e : k > Len(d) => e[k] \in S
  BY <1>2, <1>3
<1>5. ASSUME NEW k \in DOMAIN e, k > Len(d), e[k].type \in Replies
      PROVE  k = Len(d) + 1
  <2>1. k - Len(d) = 1
    BY <1>2, <1>5 DEF OneReply
  <2> QED
    BY <1>2, <2>1
<1> QED
  BY <1>2, <1>4, <1>5 DEF Grown, d, e

\* Nothing is sent to u.
LEMMA SameGrows ==
    ASSUME NEW u, down[u] \in Seq(Downward), down'[u] = down[u]
    PROVE  \A S : Grown(u, S)
<1> DEFINE d == down[u]
<1>1. d \in Seq(Downward) /\ down'[u] = d
  OBVIOUS
<1> HIDE DEF d
<1>2. Len(d) \in Nat /\ DOMAIN d = 1 .. Len(d)
  BY <1>1
<1> QED
  BY <1>1, <1>2 DEF Grown, d

\* A delivery reaches the Workers that are served and no others.
LEMMA DeliverGrows ==
    ASSUME RuntimeInv, NEW mail, Deliver(mail), NEW S \in [Workers -> SUBSET Downward],
           \A u \in Workers : u \in DOMAIN mail => mail[u] \in Seq(S[u]) /\ OneReply(mail[u])
    PROVE  down' \in [Workers -> Seq(Downward)] /\ \A u \in Workers : Grown(u, S[u])
<1>1. down \in [Workers -> Seq(Downward)]
  BY DEF RuntimeInv
<1>2. \A u \in Workers : down'[u] = down[u] \/ (u \in DOMAIN mail /\ down'[u] = down[u] \o mail[u])
  BY DEF Deliver
<1>3. ASSUME NEW u \in Workers PROVE Grown(u, S[u]) /\ down'[u] \in Seq(Downward)
  <2>1. CASE down'[u] = down[u]
    BY <1>1, <2>1, SameGrows
  <2>2. CASE u \in DOMAIN mail /\ down'[u] = down[u] \o mail[u]
    BY <1>1, <2>2, AppendGrows
  <2> QED
    BY <1>2, <2>1, <2>2
<1>4. down' = [u \in Workers |-> down'[u]]
  BY DEF Deliver
<1> QED
  BY <1>3, <1>4

LEMMA OneMessage ==
    ASSUME NEW T, NEW m \in T
    PROVE  <<m>> \in Seq(T) /\ OneReply(<<m>>)
  BY DEF OneReply

LEMMA TwoMessages ==
    ASSUME NEW T, NEW m \in T, NEW n \in T, n.type \notin Replies
    PROVE  /\ <<m>> \o <<n>> \in Seq(T) /\ OneReply(<<m>> \o <<n>>)
<1>1. PICK t : t = <<m>> \o <<n>>
  OBVIOUS
<1>2. t \in Seq(T) /\ DOMAIN t = {1, 2} /\ t[2] = n
  BY <1>1
<1>3. OneReply(t)
  BY <1>2 DEF OneReply
<1> QED
  BY <1>1, <1>2, <1>3

\* What u is sent when w gets a reply and the Workers ws a push.
Sent(u, w, reply, ws, push) == {m \in {reply, push} : (m = reply /\ u = w) \/ (m = push /\ u \in ws)}

LEMMA ReplyGrows ==
    ASSUME RuntimeInv, NEW w \in Workers, NEW ws \in SUBSET Workers, NEW reply \in Downward,
           NEW push \in Downward, push.type \notin Replies, Deliver(ReplyAndPush(w, reply, ws, push))
    PROVE  /\ down' \in [Workers -> Seq(Downward)]
           /\ \A u \in Workers : Grown(u, Sent(u, w, reply, ws, push))
<1> DEFINE S == [u \in Workers |-> Sent(u, w, reply, ws, push)]
           mail == ReplyAndPush(w, reply, ws, push)
<1>1. S \in [Workers -> SUBSET Downward]
  BY DEF Sent
<1>2. ASSUME NEW u \in Workers, u \in DOMAIN mail PROVE mail[u] \in Seq(S[u]) /\ OneReply(mail[u])
  <2>1. mail[u] = (IF u = w THEN <<reply>> ELSE <<>>) \o (IF u \in ws THEN <<push>> ELSE <<>>) /\ (u = w \/ u \in ws)
    BY <1>2 DEF ReplyAndPush
  <2>2. S[u] = Sent(u, w, reply, ws, push)
    OBVIOUS
  <2> HIDE DEF mail, S
  <2>6. <<reply>> \o <<>> = <<reply>> /\ <<>> \o <<push>> = <<push>>
    OBVIOUS
  <2>3. CASE u = w /\ u \in ws
    <3>1. mail[u] = <<reply>> \o <<push>>
      BY <2>1, <2>3
    <3>2. reply \in S[u] /\ push \in S[u]
      BY <2>2, <2>3 DEF Sent
    <3> QED
      BY <3>1, <3>2, TwoMessages
  <2>4. CASE u = w /\ u \notin ws
    <3>1. mail[u] = <<reply>>
      BY <2>1, <2>4, <2>6
    <3>2. reply \in S[u]
      BY <2>2, <2>4 DEF Sent
    <3> QED
      BY <3>1, <3>2, OneMessage
  <2>5. CASE u # w /\ u \in ws
    <3>1. mail[u] = <<push>>
      BY <2>1, <2>5, <2>6
    <3>2. push \in S[u]
      BY <2>2, <2>5 DEF Sent
    <3> QED
      BY <3>1, <3>2, OneMessage
  <2> QED
    BY <2>1, <2>3, <2>4, <2>5
<1>3. Deliver(mail)
  OBVIOUS
<1>4. \A u \in Workers : S[u] = Sent(u, w, reply, ws, push)
  OBVIOUS
<1> HIDE DEF mail, S
<1> QED
  BY <1>1, <1>2, <1>3, <1>4, DeliverGrows

\* A message to each of some Workers.
LEMMA MailGrows ==
    ASSUME RuntimeInv, NEW mail, Deliver(mail), NEW S \in [Workers -> SUBSET Downward],
           \A u \in Workers : u \in DOMAIN mail => \E m \in S[u] : mail[u] = <<m>>
    PROVE  down' \in [Workers -> Seq(Downward)] /\ \A u \in Workers : Grown(u, S[u])
<1>2. ASSUME NEW u \in Workers, u \in DOMAIN mail PROVE mail[u] \in Seq(S[u]) /\ OneReply(mail[u])
  <2>1. PICK m \in S[u] : mail[u] = <<m>>
    BY <1>2
  <2> QED
    BY <2>1, OneMessage
<1> QED
  BY <1>2, DeliverGrows
----------------------------------------------------------------------------
(***************************************************************************)
(* What a Worker becomes by each kind of news.                             *)
(***************************************************************************)

LEMMA RouteIsNot == \A r \in Route : r # NoRoute /\ r.id # 0
  BY LedgerAssumption DEF Route, RouteIds, NoRoute

LEMMA NewWorkerSound == NewWorker \in Sound /\ NewWorker.route = NoRoute /\ ~NewWorker.busy
  BY LedgerAssumption
     DEF NewWorker, Sound, Runtimes, PairingStates, Budgets, NoBudget, AnyRoute, Versions

LEMMA DiscardedSound ==
    ASSUME NEW rec \in Runtimes, NEW state \in PairingStates \ {"routed"}
    PROVE  LET n == [Discarded(rec) EXCEPT !.pairing = state] IN
           n \in Sound /\ n.route = rec.route /\ n.busy = rec.busy
<1>1. NoBudget \in Budgets
  BY DEF NoBudget, Budgets
<1> QED
  BY <1>1 DEF Discarded, Sound, Runtimes

LEMMA ConflictedSound ==
    ASSUME NEW w, NEW rec \in Runtimes
    PROVE  Conflicted(w, rec) \in Sound /\ Conflicted(w, rec).route = rec.route /\ Conflicted(w, rec).busy = rec.busy
<1>1. (IF w \in Leaders THEN "selecting" ELSE "unpaired") \in PairingStates \ {"routed"}
  BY DEF PairingStates
<1> QED
  BY <1>1, DiscardedSound DEF Conflicted

\* The same route, whatever its state.
SameRoute(x, y) == x.id = y.id /\ x.leader = y.leader /\ x.follower = y.follower

LEMMA FedSound ==
    ASSUME NEW rec \in Sound, NEW view \in Route
    PROVE  /\ Fed(rec, view) \in Sound /\ Fed(rec, view).busy = rec.busy
           /\ view.id # rec.route.id => Fed(rec, view).route = rec.route
           /\ view.id = rec.route.id => /\ SameRoute(Fed(rec, view).route, rec.route)
                                        /\ Fed(rec, view).route.state = view.state
<1>1. CASE view.id = rec.route.id
  <2>1. rec.route \in Route /\ view.state \in {"ACTIVE", "UNPAIRING"}
    BY <1>1, RouteIsNot DEF Sound, Runtimes, AnyRoute, NoRoute, Route
  <2>2. PICK r : r = [rec.route EXCEPT !.state = view.state]
    OBVIOUS
  <2>3. r \in Route /\ SameRoute(r, rec.route) /\ r.state = view.state
    BY <2>1, <2>2 DEF Route, SameRoute
  <2>4. Fed(rec, view) = [rec EXCEPT !.reconciling = FALSE, !.route = r]
    BY <1>1, <2>2 DEF Fed, Sound, Runtimes
  <2>5. r \in AnyRoute /\ r # NoRoute
    BY <2>3, RouteIsNot DEF AnyRoute
  <2>6. /\ Fed(rec, view) \in Sound /\ Fed(rec, view).busy = rec.busy /\ Fed(rec, view).route = r
    BY <2>4, <2>5 DEF Sound, Runtimes
  <2> QED
    BY <1>1, <2>3, <2>6
<1>2. CASE view.id # rec.route.id
  <2>1. Fed(rec, view) = [rec EXCEPT !.reconciling = TRUE]
    BY <1>2 DEF Fed
  <2> QED
    BY <1>2, <2>1 DEF Sound, Runtimes
<1> QED
  BY <1>1, <1>2

LEMMA AdoptedSound ==
    ASSUME NEW w \in Workers, NEW rec \in Sound, NEW view \in Route, NEW proposal
    PROVE  LET n == Adopted(w, rec, view, proposal) IN
           /\ n \in Sound /\ n.busy = rec.busy
           /\ rec.route # NoRoute => n = Fed(rec, view)
           /\ rec.route = NoRoute => n.route \in {NoRoute, view}
<1> DEFINE n == Adopted(w, rec, view, proposal)
<1>1. view \in AnyRoute /\ view # NoRoute /\ "routed" \in PairingStates /\ "unpaired" \in PairingStates
  BY RouteIsNot DEF AnyRoute, PairingStates
<1>2. CASE rec.route # NoRoute
  BY <1>2, FedSound DEF Adopted
<1>3. CASE rec.route = NoRoute
  <2>1. n = [rec EXCEPT !.route = view, !.pairing = "routed"] \/ n = [rec EXCEPT !.failed = TRUE, !.pairing = "unpaired"]
    BY <1>3 DEF Adopted
  <2> HIDE DEF n
  <2>2. CASE n = [rec EXCEPT !.route = view, !.pairing = "routed"]
    BY <1>1, <1>3, <2>2 DEF Sound, Runtimes, n
  <2>3. CASE n = [rec EXCEPT !.failed = TRUE, !.pairing = "unpaired"]
    BY <1>1, <1>3, <2>3 DEF Sound, Runtimes, n
  <2> QED
    BY <2>1, <2>2, <2>3
<1> QED
  BY <1>2, <1>3

LEMMA UnroutedSound ==
    ASSUME NEW rec \in Sound
    PROVE  Unrouted(rec) \in Sound /\ Unrouted(rec).route = NoRoute /\ Unrouted(rec).busy = rec.busy
<1>1. rec.version \in Versions /\ rec.busy \in BOOLEAN
  BY DEF Sound, Runtimes
<1>2. Unrouted(rec) = [NewWorker EXCEPT !.version = rec.version, !.busy = rec.busy]
  BY DEF Unrouted
<1> QED
  BY <1>1, <1>2, NewWorkerSound DEF Sound, Runtimes

\* One message is taken out of a queue.
LEMMA TakenOut ==
    ASSUME NEW T, NEW d \in Seq(T), NEW k \in 1 .. Len(d)
    PROVE  LET e == SubSeq(d, 1, k - 1) \o SubSeq(d, k + 1, Len(d)) IN
           /\ e \in Seq(T) /\ Len(d) \in Nat /\ Len(e) = Len(d) - 1 /\ DOMAIN e = 1 .. Len(e)
           /\ \A j \in DOMAIN e : j < k => j \in DOMAIN d /\ e[j] = d[j]
           /\ \A j \in DOMAIN e : j >= k => j + 1 \in DOMAIN d /\ e[j] = d[j + 1]
<1>0. PICK n \in Nat : n = Len(d)
  OBVIOUS
<1>1. k \in Nat /\ k >= 1 /\ k <= n /\ DOMAIN d = 1 .. n /\ \A i \in 1 .. n : d[i] \in T
  BY <1>0
<1>2. PICK a : a = SubSeq(d, 1, k - 1)
  OBVIOUS
<1>3. PICK b : b = SubSeq(d, k + 1, n)
  OBVIOUS
<1>4. a \in Seq(T) /\ Len(a) = k - 1 /\ \A j \in 1 .. (k - 1) : a[j] = d[j]
  <2>1. 1 \in Int /\ k - 1 \in Int /\ \A i \in 1 .. (k - 1) : d[i] \in T
    BY <1>1
  <2>2. /\ a \in Seq(T) /\ Len(a) = (IF 1 <= k - 1 THEN (k - 1) - 1 + 1 ELSE 0)
        /\ \A j \in 1 .. ((k - 1) - 1 + 1) : a[j] = d[1 + j - 1]
    BY <1>2, <2>1, SubSeqProperties
  <2>3. \A j \in 1 .. (k - 1) : j \in 1 .. ((k - 1) - 1 + 1) /\ 1 + j - 1 = j
    BY <1>1
  <2>4. Len(a) = k - 1
    BY <1>1, <2>2
  <2> QED
    BY <2>2, <2>3, <2>4
<1>5. b \in Seq(T) /\ Len(b) = n - k /\ \A j \in 1 .. (n - k) : b[j] = d[j + k]
  <2>1. k + 1 \in Int /\ n \in Int /\ \A i \in (k + 1) .. n : d[i] \in T
    BY <1>1
  <2>2. /\ b \in Seq(T) /\ Len(b) = (IF k + 1 <= n THEN n - (k + 1) + 1 ELSE 0)
        /\ \A j \in 1 .. (n - (k + 1) + 1) : b[j] = d[(k + 1) + j - 1]
    BY <1>3, <2>1, SubSeqProperties
  <2>3. \A j \in 1 .. (n - k) : j \in 1 .. (n - (k + 1) + 1) /\ (k + 1) + j - 1 = j + k
    BY <1>1
  <2>4. Len(b) = n - k
    BY <1>1, <2>2
  <2> QED
    BY <2>2, <2>3, <2>4
<1> DEFINE e == a \o b
<1>6. /\ e \in Seq(T) /\ Len(e) = Len(a) + Len(b)
      /\ \A i \in 1 .. Len(a) + Len(b) : e[i] = IF i <= Len(a) THEN a[i] ELSE b[i - Len(a)]
  BY <1>4, <1>5, ConcatProperties
<1> HIDE DEF e
<1>7. Len(e) = n - 1 /\ DOMAIN e = 1 .. (n - 1)
  BY <1>1, <1>4, <1>5, <1>6
<1>8. \A i \in 1 .. (n - 1) : e[i] = IF i <= k - 1 THEN a[i] ELSE b[i - (k - 1)]
  BY <1>1, <1>4, <1>5, <1>6
<1>9. ASSUME NEW j \in DOMAIN e, j < k PROVE j \in DOMAIN d /\ e[j] = d[j]
  BY <1>1, <1>4, <1>7, <1>8, <1>9
<1>10. ASSUME NEW j \in DOMAIN e, j >= k PROVE j + 1 \in DOMAIN d /\ e[j] = d[j + 1]
  <2>1. j \in 1 .. (n - 1) /\ ~(j <= k - 1) /\ j - (k - 1) \in 1 .. (n - k) /\ (j - (k - 1)) + k = j + 1
    BY <1>1, <1>7, <1>10
  <2>2. e[j] = b[j - (k - 1)] /\ b[j - (k - 1)] = d[(j - (k - 1)) + k]
    BY <1>5, <1>8, <2>1
  <2> QED
    BY <1>1, <2>1, <2>2
<1>11. /\ e \in Seq(T) /\ Len(d) \in Nat /\ Len(e) = Len(d) - 1 /\ DOMAIN e = 1 .. Len(e)
       /\ \A j \in DOMAIN e : j < k => j \in DOMAIN d /\ e[j] = d[j]
       /\ \A j \in DOMAIN e : j >= k => j + 1 \in DOMAIN d /\ e[j] = d[j + 1]
  BY <1>0, <1>6, <1>7, <1>9, <1>10
<1>12. e = SubSeq(d, 1, k - 1) \o SubSeq(d, k + 1, Len(d))
  BY <1>0, <1>2, <1>3 DEF e
<1> QED
  BY <1>11, <1>12

\* What the steps of sessions and Workers show by themselves; the ledger's
\* invariant is kept by its transactions.
RuntimeStep ==
    /\ conn' \in [Workers -> {"none", "live", "closing", "ended"}]
    /\ session' \in [Workers -> BOOLEAN]
    /\ owed' \in [Workers -> Nat]
    /\ up' \in [Workers -> Seq(Upward)]
    /\ down' \in [Workers -> Seq(Downward)]
    /\ wk' \in [Workers -> Sound]
    /\ \A w \in Workers : owed'[w] <= Len(down'[w])
    /\ \A w \in Workers : session'[w] => conn'[w] = "live"

LEMMA RuntimeKept == ASSUME RuntimeInv, [Next]_vars, RuntimeStep PROVE RuntimeInv'
<1>1. LedgerInv'
  BY LedgerStep, InvStep DEF RuntimeInv
<1> QED
  BY <1>1 DEF RuntimeInv, RuntimeStep

\* The Worker serves a message.
LEMMA ServeTyped ==
    ASSUME RuntimeInv, NEW w \in Workers, NEW k \in Served(w), NEW rec \in Sound, NEW ms \in Seq(Upward),
           Serve(w, k, rec, ms)
    PROVE  RuntimeStep
<1>1. /\ conn \in [Workers -> {"none", "live", "closing", "ended"}] /\ session \in [Workers -> BOOLEAN]
      /\ owed \in [Workers -> Nat] /\ up \in [Workers -> Seq(Upward)] /\ down \in [Workers -> Seq(Downward)]
      /\ wk \in [Workers -> Sound]
      /\ \A u \in Workers : owed[u] <= Len(down[u]) /\ (session[u] => conn[u] = "live")
  BY DEF RuntimeInv
<1>2. k \in DOMAIN down[w] /\ (k = 1 \/ owed[w] = 0)
  BY DEF Served
<1>3. k \in 1 .. Len(down[w]) /\ Len(down[w]) \in Nat
  BY <1>1, <1>2
<1>4. PICK e : e = SubSeq(down[w], 1, k - 1) \o SubSeq(down[w], k + 1, Len(down[w]))
  OBVIOUS
<1>5. e \in Seq(Downward) /\ Len(e) = Len(down[w]) - 1
  BY <1>1, <1>3, <1>4, TakenOut
<1>6. /\ down' = [down EXCEPT ![w] = e] /\ wk' = [wk EXCEPT ![w] = rec] /\ up' = [up EXCEPT ![w] = @ \o ms]
      /\ owed' = [owed EXCEPT ![w] = IF k > 1 THEN k - 1 ELSE IF @ > 0 THEN @ - 1 ELSE 0]
      /\ UNCHANGED <<conn, session>>
  BY <1>4 DEF Serve
<1>7. down' \in [Workers -> Seq(Downward)] /\ wk' \in [Workers -> Sound] /\ up' \in [Workers -> Seq(Upward)]
  <2>1. up[w] \o ms \in Seq(Upward)
    BY <1>1
  <2> QED
    BY <1>1, <1>5, <1>6, <2>1
<1>8. owed'[w] \in Nat /\ owed'[w] <= Len(down'[w])
  BY <1>1, <1>2, <1>3, <1>5, <1>6
<1>9. \A u \in Workers : u # w => owed'[u] = owed[u] /\ down'[u] = down[u]
  BY <1>1, <1>6
<1>10. owed' \in [Workers -> Nat]
  <2>1. \A u \in Workers : owed'[u] \in Nat
    BY <1>1, <1>8, <1>9
  <2>2. owed' = [u \in Workers |-> owed'[u]]
    BY <1>1, <1>6
  <2> QED
    BY <2>1, <2>2
<1>11. \A u \in Workers : owed'[u] <= Len(down'[u])
  BY <1>1, <1>8, <1>9
<1> QED
  BY <1>1, <1>6, <1>7, <1>10, <1>11 DEF RuntimeStep

\* The Worker does something by itself.
LEMMA ActTyped ==
    ASSUME RuntimeInv, NEW w \in Workers, NEW rec \in Sound, NEW ms \in Seq(Upward), Act(w, rec, ms)
    PROVE  RuntimeStep
<1>1. /\ up \in [Workers -> Seq(Upward)] /\ wk \in [Workers -> Sound]
  BY DEF RuntimeInv
<1>2. up[w] \o ms \in Seq(Upward)
  BY <1>1
<1>3. up' \in [Workers -> Seq(Upward)] /\ wk' \in [Workers -> Sound]
  BY <1>1, <1>2 DEF Act
<1> QED
  BY <1>3 DEF RuntimeInv, RuntimeStep, Act

\* The service takes a message, and sends some.
LEMMA ServiceTyped ==
    ASSUME RuntimeInv, UNCHANGED <<conn, session, owed, wk>>, up' \in [Workers -> Seq(Upward)],
           down' \in [Workers -> Seq(Downward)], \A u \in Workers : \E S : Grown(u, S)
    PROVE  RuntimeStep
<1>1. \A u \in Workers : Len(down[u]) <= Len(down'[u]) /\ Len(down[u]) \in Nat /\ Len(down'[u]) \in Nat
  BY DEF Grown, RuntimeInv
<1>2. \A u \in Workers : owed[u] \in Nat /\ owed[u] <= Len(down[u])
  BY DEF RuntimeInv
<1>3. \A u \in Workers : owed'[u] <= Len(down'[u])
  BY <1>1, <1>2
<1> QED
  BY <1>3 DEF RuntimeInv, RuntimeStep
----------------------------------------------------------------------------
(***************************************************************************)
(* News from the service: what it says of routes is true when it is sent.  *)
(***************************************************************************)

\* News of a route, and the ones from which a Worker may adopt it.
StateTypes == {"role_result", "decision_result", "sync_result", "established", "unpair_result", "state_changed"}
OfferTypes == {"role_result", "decision_result", "sync_result", "established"}

About(m, i) == m.type \in StateTypes /\ m.route.id = i
Offers(m, i) == m.type \in OfferTypes /\ m.route.id = i

\* The route was issued and removed.
Gone(i) == i \in RouteIds /\ i <= issued /\ \A r \in routes : r.id # i

\* The message m to u agrees with the ledger of the new state; a route is
\* announced when it is issued, and the reply to an assertion is given when it
\* has removed the route.
True(u, m) ==
    /\ m.type \in StateTypes => m.route = NoRoute \/ (m.route \in routes' /\ u \in Pair(m.route))
    /\ m.type = "sync_result" /\ m.route = NoRoute => \A r \in routes' : u \notin Pair(r)
    /\ m.type = "removed" => Gone(m.route)'
    /\ m.type = "established" => m.route.id > issued
    /\ m.type = "assertion_result" =>
          /\ up[u] # <<>> /\ Head(up[u]).type = "assertion"
          /\ \E i \in RouteIds : i = Head(up[u]).route /\ ~Gone(i) /\ Gone(i)'

Tidings(u) == {m \in Downward : True(u, m)}

Sends == down' \in [Workers -> Seq(Downward)] /\ \A u \in Workers : Grown(u, Tidings(u))

LEMMA GrownMore ==
    ASSUME NEW u, NEW S, NEW T, Grown(u, S), S \subseteq T
    PROVE  Grown(u, T)
  BY DEF Grown

LEMMA SendsNothing == ASSUME RuntimeInv, UNCHANGED down PROVE Sends
  BY SameGrows DEF RuntimeInv, Sends

LEMMA SendsReply ==
    ASSUME RuntimeInv, NEW w \in Workers, NEW m \in Downward, True(w, m), Deliver(Mail({w}, m))
    PROVE  Sends
<1> DEFINE S == [u \in Workers |-> IF u = w THEN {m} ELSE {}]
           mail == Mail({w}, m)
<1>1. S \in [Workers -> SUBSET Downward]
  OBVIOUS
<1>2. \A u \in Workers : u \in DOMAIN mail => \E n \in S[u] : mail[u] = <<n>>
  BY DEF Mail
<1>3. \A u \in Workers : S[u] \subseteq Tidings(u)
  BY DEF Tidings
<1>4. Deliver(mail)
  OBVIOUS
<1> HIDE DEF S, mail
<1>5. down' \in [Workers -> Seq(Downward)] /\ \A u \in Workers : Grown(u, S[u])
  BY <1>1, <1>2, <1>4, MailGrows
<1> QED
  BY <1>3, <1>5, GrownMore DEF Sends

LEMMA SendsEach ==
    ASSUME RuntimeInv, NEW mail, Deliver(mail),
           \A u \in Workers : u \in DOMAIN mail => \E m \in Downward : True(u, m) /\ mail[u] = <<m>>
    PROVE  Sends
<1> DEFINE S == [u \in Workers |-> Tidings(u)]
<1>1. S \in [Workers -> SUBSET Downward] /\ \A u \in Workers : S[u] = Tidings(u)
  BY DEF Tidings
<1>2. \A u \in Workers : u \in DOMAIN mail => \E n \in S[u] : mail[u] = <<n>>
  BY DEF Tidings
<1> HIDE DEF S
<1>3. down' \in [Workers -> Seq(Downward)] /\ \A u \in Workers : Grown(u, S[u])
  BY <1>1, <1>2, MailGrows
<1> QED
  BY <1>1, <1>3 DEF Sends

LEMMA SendsBoth ==
    ASSUME RuntimeInv, NEW w \in Workers, NEW ws \in SUBSET Workers, NEW reply \in Downward, NEW push \in Downward,
           push.type \notin Replies, True(w, reply), \A u \in ws : True(u, push),
           Deliver(ReplyAndPush(w, reply, ws, push))
    PROVE  Sends
<1>1. down' \in [Workers -> Seq(Downward)] /\ \A u \in Workers : Grown(u, Sent(u, w, reply, ws, push))
  BY ReplyGrows
<1>2. \A u \in Workers : Sent(u, w, reply, ws, push) \subseteq Tidings(u)
  BY DEF Sent, Tidings
<1> QED
  BY <1>1, <1>2, GrownMore DEF Sends

LEMMA ViewFacts ==
    ASSUME LedgerTypeOK, NEW w \in Workers
    PROVE  /\ View(w) \in AnyRoute
           /\ \/ View(w) = NoRoute /\ \A r \in routes : w \notin Pair(r)
              \/ View(w) \in routes /\ w \in Pair(View(w))
<1>1. CASE RouteOf(w) = {}
  BY <1>1 DEF RouteOf, View, AnyRoute
<1>2. CASE RouteOf(w) # {}
  <2>1. View(w) \in RouteOf(w)
    BY <1>2 DEF View
  <2> QED
    BY <2>1 DEF RouteOf, LedgerTypeOK, AnyRoute
<1> QED
  BY <1>1, <1>2

\* News that carry no route are true.
LEMMA OtherNews ==
    ASSUME NEW u, NEW m, m.type \in {"list_result", "proposal_result", "version_result", "proposed", "pairing_ended"}
    PROVE  True(u, m)
  BY DEF True, StateTypes

\* Messages and their fields.
LEMMA RouteNews ==
    ASSUME NEW u, NEW r, r = NoRoute \/ (r \in routes' /\ u \in Pair(r))
    PROVE  /\ True(u, [type |-> "role_result", route |-> r])
           /\ \A b : True(u, [type |-> "decision_result", accepted |-> b, route |-> r])
           /\ True(u, [type |-> "unpair_result", route |-> r])
           /\ True(u, [type |-> "state_changed", route |-> r])
           /\ r.id > issued => True(u, [type |-> "established", route |-> r])
           /\ (r = NoRoute => \A s \in routes' : u \notin Pair(s)) =>
                 \A b : True(u, [type |-> "sync_result", route |-> r, open |-> b])
  BY DEF True, StateTypes

LEMMA RoleSends ==
    ASSUME RuntimeInv, NEW w \in Workers, HandleRole(w) \/ HandleSync(w)
    PROVE  Sends
<1>1. LedgerTypeOK
  BY DEF RuntimeInv, LedgerInv
<1>2. routes' = routes
  BY DEF HandleRole, HandleSync, ledger, pairing
<1> DEFINE r == View(w)
<1>3. /\ r \in AnyRoute
      /\ r = NoRoute \/ (r \in routes' /\ w \in Pair(r))
      /\ r = NoRoute => \A s \in routes' : w \notin Pair(s)
  <2>1. \A s \in routes : s # NoRoute
    BY <1>1, RouteIsNot DEF LedgerTypeOK
  <2> QED
    BY <1>1, <1>2, <2>1, ViewFacts
<1>4. CASE HandleRole(w)
  <2>1. Deliver(Mail({w}, [type |-> "role_result", route |-> r]))
    BY <1>4 DEF HandleRole
  <2> HIDE DEF r
  <2>2. [type |-> "role_result", route |-> r] \in Downward /\ True(w, [type |-> "role_result", route |-> r])
    BY <1>3, DownwardMade, RouteNews
  <2> QED
    BY <2>1, <2>2, SendsReply
<1>5. CASE HandleSync(w)
  <2> DEFINE open == (\E p \in Holds(w) : ~p.lapsed) \/ UnderDecision(wk[w].proposal)
  <2>1. Deliver(Mail({w}, [type |-> "sync_result", route |-> r, open |-> open]))
    BY <1>5 DEF HandleSync
  <2>2. open \in BOOLEAN
    OBVIOUS
  <2> HIDE DEF r, open
  <2>3. PICK m : m = [type |-> "sync_result", route |-> r, open |-> open]
    OBVIOUS
  <2>4. m \in Downward
    BY <1>3, <2>2, <2>3, DownwardMade
  <2>5. True(w, m)
    BY <1>3, <2>3, RouteNews
  <2> QED
    BY <2>1, <2>3, <2>4, <2>5, SendsReply
<1> QED
  BY <1>4, <1>5

LEMMA ListSends ==
    ASSUME RuntimeInv, NEW w \in Workers, HandleList(w)
    PROVE  Sends
<1>1. PICK s : /\ s \in SUBSET Workers
               /\ Deliver(Mail({w}, [type |-> "list_result", followers |-> s]))
  BY DEF HandleList, Connected
<1>2. PICK m : m = [type |-> "list_result", followers |-> s]
  OBVIOUS
<1>3. m \in Downward /\ m.type = "list_result"
  BY <1>1, <1>2, DownwardMade
<1>4. True(w, m)
  BY <1>3, OtherNews
<1> QED
  BY <1>1, <1>2, <1>3, <1>4, SendsReply

LEMMA ProposalSends ==
    ASSUME RuntimeInv, LedgerInv', NEW w \in Workers, HandleProposal(w)
    PROVE  Sends
<1>1. CASE \E f : Reserve(w, f, Connected) /\ Deliver(ReplyAndPush(w, [type |-> "proposal_result", proposal |-> proposed'],
                        {f}, [type |-> "proposed", proposal |-> proposed', leader |-> w]))
  <2>1. PICK f : /\ Reserve(w, f, Connected)
                 /\ Deliver(ReplyAndPush(w, [type |-> "proposal_result", proposal |-> proposed'],
                        {f}, [type |-> "proposed", proposal |-> proposed', leader |-> w]))
    BY <1>1
  <2>2. {f} \in SUBSET Workers
    BY <2>1 DEF Reserve, CanReserve, MayPair, Connected
  <2>3. PICK p : p = proposed' /\ p \in ProposalIds
    <3>1. proposed \in 0 .. MaxProposals /\ proposed < MaxProposals /\ proposed' = proposed + 1
      BY <2>1 DEF RuntimeInv, LedgerInv, LedgerTypeOK, Reserve
    <3> QED
      BY <3>1, LedgerAssumption DEF ProposalIds
  <2>4. PICK a : a = [type |-> "proposal_result", proposal |-> p]
    OBVIOUS
  <2>5. PICK b : b = [type |-> "proposed", proposal |-> p, leader |-> w]
    OBVIOUS
  <2>6. a \in Downward /\ a.type = "proposal_result" /\ b \in Downward /\ b.type = "proposed"
    BY <2>3, <2>4, <2>5, DownwardMade
  <2>7. b.type \notin Replies /\ True(w, a) /\ \A u \in {f} : True(u, b)
    BY <2>6, OtherNews DEF Replies
  <2>8. Deliver(ReplyAndPush(w, a, {f}, b))
    BY <2>1, <2>3, <2>4, <2>5
  <2> QED
    BY <2>2, <2>6, <2>7, <2>8, SendsBoth
<1>2. CASE Deliver(Mail({w}, [type |-> "proposal_result", proposal |-> 0]))
  <2>1. PICK m : m = [type |-> "proposal_result", proposal |-> 0]
    OBVIOUS
  <2>2. m \in Downward /\ m.type = "proposal_result"
    BY <2>1, DownwardMade
  <2>3. True(w, m)
    BY <2>2, OtherNews
  <2> QED
    BY <1>2, <2>1, <2>2, <2>3, SendsReply
<1> QED
  BY <1>1, <1>2 DEF HandleProposal

LEMMA VersionSends ==
    ASSUME RuntimeInv, NEW w \in Workers, HandleVersion(w)
    PROVE  Sends
<1>1. CASE UNCHANGED down
  BY <1>1, SendsNothing
<1>2. CASE Deliver(Mail({w}, [type |-> "version_result"]))
  <2>1. PICK m : m = [type |-> "version_result"]
    OBVIOUS
  <2>2. m \in Downward /\ m.type = "version_result"
    BY <2>1, DownwardMade
  <2>3. True(w, m)
    BY <2>2, OtherNews
  <2> QED
    BY <1>2, <2>1, <2>2, <2>3, SendsReply
<1> QED
  BY <1>1, <1>2 DEF HandleVersion

LEMMA DecisionSends ==
    ASSUME RuntimeInv, LedgerInv', NEW w \in Workers, HandleDecision(w)
    PROVE  Sends
<1>1. ASSUME NEW b \in BOOLEAN
      PROVE  LET m == [type |-> "decision_result", accepted |-> b, route |-> NoRoute] IN
             m \in Downward /\ True(w, m)
  <2>1. NoRoute \in AnyRoute
    BY DEF AnyRoute
  <2> QED
    BY <2>1, DownwardMade, RouteNews
<1>2. ASSUME Deliver(Mail({w}, [type |-> "decision_result", accepted |-> FALSE, route |-> NoRoute]))
      PROVE  Sends
  <2>1. PICK m : m = [type |-> "decision_result", accepted |-> FALSE, route |-> NoRoute]
    OBVIOUS
  <2>2. m \in Downward /\ True(w, m)
    BY <1>1, <2>1
  <2> QED
    BY <1>2, <2>1, <2>2, SendsReply
<1>3. ASSUME NEW p \in reservations, NEW b \in BOOLEAN,
             Deliver(ReplyAndPush(w, [type |-> "decision_result", accepted |-> b, route |-> NoRoute],
                                  {p.leader}, [type |-> "pairing_ended", proposal |-> p.id]))
      PROVE  Sends
  <2>1. p.id \in ProposalIds /\ {p.leader} \in SUBSET Workers
    BY DEF RuntimeInv, LedgerInv, LedgerTypeOK, Reservation
  <2>2. PICK m : m = [type |-> "decision_result", accepted |-> b, route |-> NoRoute]
    OBVIOUS
  <2>3. PICK n : n = [type |-> "pairing_ended", proposal |-> p.id]
    OBVIOUS
  <2>4. m \in Downward /\ True(w, m)
    BY <1>1, <2>2
  <2>5. n \in Downward /\ n.type = "pairing_ended"
    BY <2>1, <2>3, DownwardMade
  <2>6. n.type \notin Replies /\ \A u \in {p.leader} : True(u, n)
    BY <2>5, OtherNews DEF Replies
  <2> QED
    BY <1>3, <2>1, <2>2, <2>3, <2>4, <2>5, <2>6, SendsBoth
<1>4. ASSUME NEW p \in reservations, p.follower = w, CreateRoute(p, Connected),
             LET r == CHOOSE r \in routes' : r.id = issued' IN
             Deliver(ReplyAndPush(w, [type |-> "decision_result", accepted |-> TRUE, route |-> r],
                                  Pair(p), [type |-> "established", route |-> r]))
      PROVE  Sends
  <2>1. PICK n : n = [id |-> issued', leader |-> p.leader, follower |-> p.follower, state |-> "ACTIVE"]
    OBVIOUS
  <2>2. routes' = routes \cup {n} /\ n.id = issued' /\ n.state = "ACTIVE" /\ Pair(n) = Pair(p) /\ issued' = issued + 1
    BY <1>4, <2>1 DEF CreateRoute, Pair
  <2>3. \A r \in routes : r.id # issued'
    BY <2>2 DEF RuntimeInv, LedgerInv, RouteIdsIssued, LedgerTypeOK, Route, RouteIds
  <2>4. n = CHOOSE r \in routes' : r.id = issued'
    BY <2>2, <2>3
  <2>5. n \in ActiveRoute /\ n \in AnyRoute /\ n \in routes'
    BY <2>2 DEF LedgerInv, LedgerTypeOK, ActiveRoute, AnyRoute
  <2>6. Pair(p) \in SUBSET Workers /\ w \in Pair(n)
    BY <1>4, <2>2, PairsOfWorkers DEF RuntimeInv, LedgerInv, LedgerTypeOK, Pair
  <2>7. PICK a : a = [type |-> "decision_result", accepted |-> TRUE, route |-> n]
    OBVIOUS
  <2>8. PICK b : b = [type |-> "established", route |-> n]
    OBVIOUS
  <2>9. a \in Downward /\ b \in Downward /\ b.type \notin Replies
    BY <2>5, <2>7, <2>8, DownwardMade DEF Replies
  <2>12. n.id > issued
    BY <2>2 DEF RuntimeInv, LedgerInv, LedgerTypeOK
  <2>10. True(w, a) /\ \A u \in Pair(p) : True(u, b)
    BY <2>2, <2>5, <2>6, <2>7, <2>8, <2>12, RouteNews
  <2>11. Deliver(ReplyAndPush(w, a, Pair(p), b))
    BY <1>4, <2>4, <2>7, <2>8
  <2> QED
    BY <2>6, <2>9, <2>10, <2>11, SendsBoth
<1> QED
  BY <1>2, <1>3, <1>4 DEF HandleDecision

LEMMA UnpairSends ==
    ASSUME RuntimeInv, LedgerInv', NEW w \in Workers, HandleUnpair(w)
    PROVE  Sends
<1>1. CASE UNCHANGED down
  BY <1>1, SendsNothing
<1>2. ASSUME NEW r \in routes, NEW a,
             LET s == [r EXCEPT !.state = IF a = "enter" THEN "UNPAIRING" ELSE "ACTIVE"] IN
             /\ (a = "enter" /\ EnterUnpairing(r, w)) \/ (a = "cancel" /\ CancelUnpairing(r, w))
             /\ Deliver(ReplyAndPush(w, [type |-> "unpair_result", route |-> s],
                                    Pair(r), [type |-> "state_changed", route |-> s]))
      PROVE  Sends
  <2>1. PICK s : s = [r EXCEPT !.state = IF a = "enter" THEN "UNPAIRING" ELSE "ACTIVE"]
    OBVIOUS
  <2>2. s \in routes' /\ w \in Pair(r)
    BY <1>2, <2>1 DEF EnterUnpairing, CancelUnpairing
  <2>3. s \in Route /\ Pair(s) = Pair(r) /\ Pair(r) \in SUBSET Workers
    BY <2>1, RouteUpdate, PairsOfWorkers DEF RuntimeInv, LedgerInv, LedgerTypeOK
  <2>4. PICK m : m = [type |-> "unpair_result", route |-> s]
    OBVIOUS
  <2>5. PICK n : n = [type |-> "state_changed", route |-> s]
    OBVIOUS
  <2>6. m \in Downward /\ n \in Downward /\ n.type \notin Replies
    BY <2>3, <2>4, <2>5, DownwardMade DEF Replies
  <2>7. True(w, m) /\ \A u \in Pair(r) : True(u, n)
    BY <2>2, <2>3, <2>4, <2>5, RouteNews
  <2>8. Deliver(ReplyAndPush(w, m, Pair(r), n))
    BY <1>2, <2>1, <2>4, <2>5
  <2> QED
    BY <2>3, <2>6, <2>7, <2>8, SendsBoth
<1> QED
  BY <1>1, <1>2 DEF HandleUnpair, RouteNamed

\* Without the routes rs their ids are gone.
LEMMA RemovedGone ==
    ASSUME LedgerInv, NEW rs \in SUBSET routes, routes' = routes \ rs, issued' = issued, NEW r \in rs
    PROVE  r.id \in RouteIds /\ ~Gone(r.id) /\ Gone(r.id)'
<1>1. r \in routes /\ r.id \in RouteIds /\ r.id <= issued
  BY DEF LedgerInv, LedgerTypeOK, Route, RouteIdsIssued
<1>2. \A s \in routes' : s.id # r.id
  BY <1>1 DEF LedgerInv, RouteIdsIssued
<1> QED
  BY <1>1, <1>2 DEF Gone

LEMMA AssertionSends ==
    ASSUME RuntimeInv, NEW w \in Workers, HandleAssertion(w)
    PROVE  Sends
<1>1. CASE UNCHANGED down
  BY <1>1, SendsNothing
<1>2. ASSUME NEW r \in routes, NEW v, r.id = Head(up[w]).route, RecordAssertion(r, w, v), PeerFresh(r, w),
             Deliver(ReplyAndPush(w, [type |-> "assertion_result"], Pair(r), [type |-> "removed", route |-> r.id]))
      PROVE  Sends
  <2>1. LedgerInv /\ {r} \in SUBSET routes /\ routes' = routes \ {r} /\ issued' = issued
    BY <1>2 DEF RuntimeInv, RecordAssertion, RemoveRoutes
  <2>2. r.id \in RouteIds /\ ~Gone(r.id) /\ Gone(r.id)' /\ Pair(r) \in SUBSET Workers
    BY <2>1, RemovedGone, PairsOfWorkers DEF LedgerInv, LedgerTypeOK
  <2>3. PICK m : m = [type |-> "assertion_result"]
    OBVIOUS
  <2>4. PICK n : n = [type |-> "removed", route |-> r.id]
    OBVIOUS
  <2>5. /\ m \in Downward /\ m.type = "assertion_result"
        /\ n \in Downward /\ n.type = "removed" /\ n.route = r.id /\ n.type \notin Replies
    BY <2>2, <2>3, <2>4, DownwardMade DEF Replies
  <2>6. up[w] # <<>> /\ Head(up[w]).type = "assertion"
    BY DEF HandleAssertion, Takes, Receives
  <2>10. PICK i \in RouteIds : i = r.id
    BY <2>2
  <2>11. ~Gone(i) /\ Gone(i)' /\ i = Head(up[w]).route
    BY <1>2, <2>2, <2>10
  <2>7. True(w, m)
    BY <2>5, <2>6, <2>11 DEF True, StateTypes
  <2>8. \A u \in Pair(r) : True(u, n)
    BY <2>2, <2>5 DEF True, StateTypes
  <2>9. Deliver(ReplyAndPush(w, m, Pair(r), n))
    BY <1>2, <2>3, <2>4
  <2> QED
    BY <2>2, <2>5, <2>7, <2>8, <2>9, SendsBoth
<1> QED
  BY <1>1, <1>2 DEF HandleAssertion, RouteNamed

LEMMA ReleaseSends ==
    ASSUME RuntimeInv, NEW w \in Workers, ReleaseHeld(w)
    PROVE  Sends
<1> DEFINE us == {v \in Workers \ {w} : \E p \in Holds(w) : v \in Pair(p)}
           mail == [u \in us |->
                      <<[type |-> "pairing_ended", proposal |-> (CHOOSE p \in Holds(w) : u \in Pair(p)).id]>>]
<1>1. ASSUME NEW u \in us PROVE \E m \in Downward : True(u, m) /\ mail[u] = <<m>>
  <2>1. PICK p : p = CHOOSE q \in Holds(w) : u \in Pair(q)
    OBVIOUS
  <2>2. p \in Holds(w)
    BY <1>1, <2>1
  <2>3. p.id \in ProposalIds
    BY <2>2 DEF Holds, RuntimeInv, LedgerInv, LedgerTypeOK, Reservation
  <2>4. PICK m : m = [type |-> "pairing_ended", proposal |-> p.id]
    OBVIOUS
  <2>5. m \in Downward /\ m.type = "pairing_ended"
    BY <2>3, <2>4, DownwardMade
  <2>6. True(u, m)
    BY <2>5, OtherNews
  <2>7. mail[u] = <<m>>
    BY <1>1, <2>1, <2>4
  <2> QED
    BY <2>5, <2>6, <2>7
<1>2. Deliver(mail) /\ DOMAIN mail = us
  BY DEF ReleaseHeld
<1> HIDE DEF mail, us
<1> QED
  BY <1>1, <1>2, SendsEach

LEMMA DeleteSends ==
    ASSUME RuntimeInv, NEW w \in Workers, DeleteWorker(w)
    PROVE  Sends
<1> DEFINE rs == {r \in routes : w \in Pair(r)}
           us == {v \in Workers \ {w} : \E r \in rs : v \in Pair(r)}
           mail == [u \in us |-> <<[type |-> "removed", route |-> (CHOOSE r \in rs : u \in Pair(r)).id]>>]
<1>0. LedgerInv /\ rs \in SUBSET routes /\ routes' = routes \ rs /\ issued' = issued
  BY DEF RuntimeInv, DeleteWorker, Delete, RemoveRoutes
<1>1. ASSUME NEW u \in us PROVE \E m \in Downward : True(u, m) /\ mail[u] = <<m>>
  <2>1. PICK r : r = CHOOSE q \in rs : u \in Pair(q)
    OBVIOUS
  <2>2. r \in rs
    BY <1>1, <2>1
  <2> HIDE DEF rs
  <2>3. r.id \in RouteIds /\ Gone(r.id)'
    BY <1>0, <2>2, RemovedGone
  <2> USE DEF rs
  <2>4. PICK m : m = [type |-> "removed", route |-> r.id]
    OBVIOUS
  <2>5. m \in Downward /\ m.type = "removed" /\ m.route = r.id
    BY <2>3, <2>4, DownwardMade
  <2>6. True(u, m)
    BY <2>3, <2>5 DEF True, StateTypes
  <2>7. mail[u] = <<m>>
    BY <1>1, <2>1, <2>4
  <2> QED
    BY <2>5, <2>6, <2>7
<1>2. Deliver(mail) /\ DOMAIN mail = us
  BY DEF DeleteWorker
<1> HIDE DEF mail, us, rs
<1> QED
  BY <1>1, <1>2, SendsEach

\* A message is taken from the front of a queue.
LEMMA TakenTyped ==
    ASSUME RuntimeInv, NEW w \in Workers, up[w] # <<>>, up' = [up EXCEPT ![w] = Tail(@)]
    PROVE  up' \in [Workers -> Seq(Upward)]
<1>1. up[w] \in Seq(Upward)
  BY DEF RuntimeInv
<1>2. Tail(up[w]) \in Seq(Upward)
  BY <1>1
<1> QED
  BY <1>2 DEF RuntimeInv

\* Everything the service does.
LEMMA ServiceSends ==
    ASSUME RuntimeInv, LedgerInv', NEW w \in Workers, Service(w)
    PROVE  /\ Sends /\ UNCHANGED <<conn, session, owed, wk>>
           /\ conn[w] = "live" /\ up[w] # <<>> /\ up' = [up EXCEPT ![w] = Tail(@)]
<1>1. Sends
  BY RoleSends, ListSends, ProposalSends, DecisionSends, UnpairSends, VersionSends, AssertionSends DEF Service
<1>2. UNCHANGED <<conn, session, owed, wk>> /\ conn[w] = "live" /\ up[w] # <<>> /\ up' = [up EXCEPT ![w] = Tail(@)]
  BY DEF Service, HandleRole, HandleList, HandleSync, HandleProposal, HandleDecision, HandleUnpair, HandleVersion,
         HandleAssertion, Takes, Receives
<1> QED
  BY <1>1, <1>2

LEMMA ServiceStepTyped ==
    ASSUME RuntimeInv, LedgerInv', NEW w \in Workers, Service(w)
    PROVE  RuntimeStep
  BY ServiceSends, TakenTyped, ServiceTyped DEF Sends
----------------------------------------------------------------------------
(***************************************************************************)
(* What a Worker does with a message: its route stays, takes the state     *)
(* that the message gives, is adopted from an offer, or is given up.       *)
(***************************************************************************)

GivesUp(w, m) ==
    \/ m.type = "assertion_result"
    \/ m.type = "removed" /\ m.route = wk[w].route.id
    \/ m.type = "sync_result" /\ m.route = NoRoute /\ wk[w].route.state = "UNPAIRING" /\ ~wk[w].busy

Turns(w, m, rec) ==
    /\ rec \in Sound /\ rec.busy = wk[w].busy
    /\ \/ rec.route = wk[w].route
       \/ /\ m.type \in StateTypes /\ m.route \in Route /\ m.route.id = wk[w].route.id
          /\ SameRoute(rec.route, wk[w].route) /\ rec.route.state = m.route.state
       \/ m.type \in OfferTypes /\ m.route \in Route /\ wk[w].route = NoRoute /\ rec.route = m.route
       \/ rec.route = NoRoute /\ GivesUp(w, m)

\* Messages other than an assertion.
Plain == {ms \in Seq(Upward) : \A j \in DOMAIN ms : ms[j].type # "assertion"}

Handles(w, k) == k \in Served(w) /\ \E rec, ms : Turns(w, down[w][k], rec) /\ ms \in Plain /\ Serve(w, k, rec, ms)

LEMMA PlainMessage ==
    /\ <<>> \in Plain
    /\ \A m \in Upward : m.type # "assertion" => <<m>> \in Plain
  BY DEF Plain

LEMMA OnAdoptPlain == \A w, rec, view, proposal : OnAdopt(w, rec, view, proposal) \in Plain
<1>1. SyncRequest \in Upward /\ SyncRequest.type # "assertion"
  BY UpwardMade DEF SyncRequest
<1> QED
  BY <1>1, PlainMessage DEF OnAdopt

\* The news k to w and the Worker w, as they are before it is served.
LEMMA Serving ==
    ASSUME RuntimeInv, NEW w \in Workers, NEW k \in DOMAIN down[w]
    PROVE  down[w][k] \in Downward /\ wk[w] \in Sound /\ wk[w] \in Runtimes
  BY DEF RuntimeInv, Sound

LEMMA SameTurns ==
    ASSUME NEW w, NEW m, NEW rec \in Sound, rec.route = wk[w].route, rec.busy = wk[w].busy
    PROVE  Turns(w, m, rec)
  BY DEF Turns

LEMMA FedTurns ==
    ASSUME NEW w, wk[w] \in Sound, NEW m, m.type \in StateTypes, m.route \in Route
    PROVE  Turns(w, m, Fed(wk[w], m.route))
<1> DEFINE rec == Fed(wk[w], m.route)
<1>1. /\ rec \in Sound /\ rec.busy = wk[w].busy
      /\ m.route.id # wk[w].route.id => rec.route = wk[w].route
      /\ m.route.id = wk[w].route.id => SameRoute(rec.route, wk[w].route) /\ rec.route.state = m.route.state
  BY FedSound
<1> QED
  BY <1>1 DEF Turns

LEMMA AdoptTurns ==
    ASSUME NEW w \in Workers, wk[w] \in Sound, NEW m, m.type \in OfferTypes, m.route \in Route, NEW proposal
    PROVE  Turns(w, m, Adopted(w, wk[w], m.route, proposal))
<1>1. m.type \in StateTypes
  BY DEF OfferTypes, StateTypes
<1>2. CASE wk[w].route # NoRoute
  BY <1>1, <1>2, FedTurns, AdoptedSound
<1>3. CASE wk[w].route = NoRoute
  <2> DEFINE rec == Adopted(w, wk[w], m.route, proposal)
  <2>1. rec \in Sound /\ rec.busy = wk[w].busy /\ rec.route \in {NoRoute, m.route}
    BY <1>3, AdoptedSound
  <2> HIDE DEF rec
  <2> QED
    BY <1>3, <2>1 DEF Turns, rec
<1> QED
  BY <1>2, <1>3

LEMMA UnroutedTurns ==
    ASSUME NEW w, wk[w] \in Sound, NEW m, GivesUp(w, m)
    PROVE  Turns(w, m, Unrouted(wk[w]))
  BY UnroutedSound DEF Turns

\* A change of what the Worker remembers of the negotiation.
LEMMA RecUpdate ==
    ASSUME NEW rec \in Runtimes, NEW state \in PairingStates \ {"routed"}
    PROVE  /\ LET n == [rec EXCEPT !.pairing = state] IN n \in Sound /\ n.route = rec.route /\ n.busy = rec.busy
           /\ \A f \in Workers : LET n == [rec EXCEPT !.pairing = state, !.pending = f] IN
                 n \in Sound /\ n.route = rec.route /\ n.busy = rec.busy
           /\ LET n == [rec EXCEPT !.proposal = 0, !.pairing = state] IN
                 n \in Sound /\ n.route = rec.route /\ n.busy = rec.busy
  BY DEF Sound, Runtimes

LEMMA MarkUpdate ==
    ASSUME NEW rec \in Sound
    PROVE  /\ LET n == [rec EXCEPT !.reconciling = TRUE] IN n \in Sound /\ n.route = rec.route /\ n.busy = rec.busy
           /\ LET n == [rec EXCEPT !.published = Absent] IN n \in Sound /\ n.route = rec.route /\ n.busy = rec.busy
  BY DEF Sound, Runtimes

\* The replies.
LEMMA RoleHandled ==
    ASSUME RuntimeInv, NEW w \in Workers, NEW k \in DOMAIN down[w], RoleResult(w, k)
    PROVE  Handles(w, k)
<1> DEFINE m == down[w][k]
<1>1. k \in Served(w) /\ m.type = "role_result" /\ m.route \in AnyRoute /\ wk[w] \in Sound /\ wk[w] \in Runtimes
  BY Serving, DownwardFields DEF RoleResult, News
<1>2. CASE m.route # NoRoute /\ Serve(w, k, Adopted(w, wk[w], m.route, 0), OnAdopt(w, wk[w], m.route, 0))
  <2>1. m.route \in Route /\ m.type \in OfferTypes
    BY <1>1, <1>2 DEF AnyRoute, OfferTypes
  <2>2. Turns(w, m, Adopted(w, wk[w], m.route, 0))
    BY <1>1, <2>1, AdoptTurns
  <2> QED
    BY <1>1, <1>2, <2>2, OnAdoptPlain DEF Handles
<1>3. CASE Serve(w, k, [wk[w] EXCEPT !.pairing = "listing"], <<[type |-> "list"]>>)
  <2>1. "listing" \in PairingStates \ {"routed"}
    BY DEF PairingStates
  <2>2. Turns(w, m, [wk[w] EXCEPT !.pairing = "listing"])
    BY <1>1, <2>1, RecUpdate, SameTurns
  <2>3. <<[type |-> "list"]>> \in Plain
    BY UpwardMade, PlainMessage
  <2> QED
    BY <1>1, <1>3, <2>2, <2>3 DEF Handles
<1>4. CASE Serve(w, k, [wk[w] EXCEPT !.pairing = "available"], <<>>)
  <2>1. "available" \in PairingStates \ {"routed"}
    BY DEF PairingStates
  <2>2. Turns(w, m, [wk[w] EXCEPT !.pairing = "available"])
    BY <1>1, <2>1, RecUpdate, SameTurns
  <2> QED
    BY <1>1, <1>4, <2>2, PlainMessage DEF Handles
<1> QED
  BY <1>2, <1>3, <1>4 DEF RoleResult

LEMMA ListHandled ==
    ASSUME RuntimeInv, NEW w \in Workers, NEW k \in DOMAIN down[w], ListResult(w, k)
    PROVE  Handles(w, k)
<1> DEFINE m == down[w][k]
<1>1. k \in Served(w) /\ m.type = "list_result" /\ m.followers \subseteq Workers /\ wk[w] \in Runtimes
  BY Serving, DownwardFields DEF ListResult, News
<1>2. ASSUME NEW f \in m.followers,
             Serve(w, k, [wk[w] EXCEPT !.pairing = "proposing", !.pending = f], <<[type |-> "proposal", follower |-> f]>>)
      PROVE  Handles(w, k)
  <2>1. "proposing" \in PairingStates \ {"routed"} /\ f \in Workers
    BY <1>1 DEF PairingStates
  <2>2. Turns(w, m, [wk[w] EXCEPT !.pairing = "proposing", !.pending = f])
    BY <1>1, <2>1, RecUpdate, SameTurns
  <2>3. <<[type |-> "proposal", follower |-> f]>> \in Plain
    BY <2>1, UpwardMade, PlainMessage
  <2> QED
    BY <1>1, <1>2, <2>2, <2>3 DEF Handles
<1>3. CASE Serve(w, k, [wk[w] EXCEPT !.pairing = "unpaired"], <<>>)
  <2>1. "unpaired" \in PairingStates \ {"routed"}
    BY DEF PairingStates
  <2>2. Turns(w, m, [wk[w] EXCEPT !.pairing = "unpaired"])
    BY <1>1, <2>1, RecUpdate, SameTurns
  <2> QED
    BY <1>1, <1>3, <2>2, PlainMessage DEF Handles
<1> QED
  BY <1>2, <1>3 DEF ListResult

LEMMA ProposalHandled ==
    ASSUME RuntimeInv, NEW w \in Workers, NEW k \in DOMAIN down[w], ProposalResult(w, k)
    PROVE  Handles(w, k)
<1> DEFINE m == down[w][k]
<1>1. k \in Served(w) /\ m.type = "proposal_result" /\ m.proposal \in ProposalIds \cup {0} /\ wk[w] \in Runtimes
  BY Serving, DownwardFields DEF ProposalResult, News
<1>2. CASE Serve(w, k, Conflicted(w, wk[w]), <<>>)
  <2>1. Turns(w, m, Conflicted(w, wk[w]))
    BY <1>1, ConflictedSound, SameTurns
  <2> QED
    BY <1>1, <1>2, <2>1, PlainMessage DEF Handles
<1>3. CASE m.proposal # 0 /\ Serve(w, k, [wk[w] EXCEPT !.pairing = "awaiting_decision", !.proposal = m.proposal,
                             !.budget = IF wk[w].pending = "none" THEN @
                                        ELSE [proposal |-> m.proposal, role |-> "leader", peer |-> wk[w].pending]], <<>>)
  <2>1. "awaiting_decision" \in PairingStates \ {"routed"} /\ m.proposal \in ProposalIds
    BY <1>1, <1>3 DEF PairingStates
  <2>2. PICK b : b = IF wk[w].pending = "none" THEN wk[w].budget
                     ELSE [proposal |-> m.proposal, role |-> "leader", peer |-> wk[w].pending]
    OBVIOUS
  <2>3. b \in Budgets
    BY <1>1, <2>1, <2>2 DEF Runtimes, Budgets
  <2>4. Serve(w, k, [wk[w] EXCEPT !.pairing = "awaiting_decision", !.proposal = m.proposal, !.budget = b], <<>>)
    BY <1>1, <1>3, <2>2
  <2>5. Turns(w, m, [wk[w] EXCEPT !.pairing = "awaiting_decision", !.proposal = m.proposal, !.budget = b])
    <3>1. PICK p \in ProposalIds : p = m.proposal
      BY <2>1
    <3>2. PICK n : n = [wk[w] EXCEPT !.pairing = "awaiting_decision", !.proposal = p, !.budget = b]
      OBVIOUS
    <3>3. n \in Sound /\ n.route = wk[w].route /\ n.busy = wk[w].busy
      BY <1>1, <2>1, <2>3, <3>2 DEF Sound, Runtimes
    <3> QED
      BY <3>1, <3>2, <3>3, SameTurns
  <2> QED
    BY <1>1, <2>4, <2>5, PlainMessage DEF Handles
<1> QED
  BY <1>2, <1>3 DEF ProposalResult

LEMMA DecisionHandled ==
    ASSUME RuntimeInv, NEW w \in Workers, NEW k \in DOMAIN down[w], DecisionResult(w, k)
    PROVE  Handles(w, k)
<1> DEFINE m == down[w][k]
<1>1. k \in Served(w) /\ m.type = "decision_result" /\ m.route \in AnyRoute /\ wk[w] \in Sound /\ wk[w] \in Runtimes
  BY Serving, DownwardFields DEF DecisionResult, News
<1>2. "available" \in PairingStates \ {"routed"}
  BY DEF PairingStates
<1>3. CASE Serve(w, k, [Discarded(wk[w]) EXCEPT !.pairing = "available"], <<>>)
  <2>1. Turns(w, m, [Discarded(wk[w]) EXCEPT !.pairing = "available"])
    BY <1>1, <1>2, DiscardedSound, SameTurns
  <2> QED
    BY <1>1, <1>3, <2>1, PlainMessage DEF Handles
<1>4. CASE m.route # NoRoute /\ Serve(w, k, Adopted(w, wk[w], m.route, wk[w].proposal), OnAdopt(w, wk[w], m.route, wk[w].proposal))
  <2>1. m.route \in Route /\ m.type \in OfferTypes
    BY <1>1, <1>4 DEF AnyRoute, OfferTypes
  <2>2. Turns(w, m, Adopted(w, wk[w], m.route, wk[w].proposal))
    BY <1>1, <2>1, AdoptTurns
  <2> QED
    BY <1>1, <1>4, <2>2, OnAdoptPlain DEF Handles
<1>5. CASE Serve(w, k, [wk[w] EXCEPT !.proposal = 0, !.pairing = "available"], <<>>)
  <2>1. Turns(w, m, [wk[w] EXCEPT !.proposal = 0, !.pairing = "available"])
    BY <1>1, <1>2, RecUpdate, SameTurns
  <2> QED
    BY <1>1, <1>5, <2>1, PlainMessage DEF Handles
<1> QED
  BY <1>3, <1>4, <1>5 DEF DecisionResult

LEMMA SyncHandled ==
    ASSUME RuntimeInv, NEW w \in Workers, NEW k \in DOMAIN down[w], SyncResult(w, k)
    PROVE  Handles(w, k)
<1> DEFINE m == down[w][k]
<1>1. k \in Served(w) /\ m.type = "sync_result" /\ m.route \in AnyRoute /\ wk[w] \in Sound /\ wk[w] \in Runtimes
  BY Serving, DownwardFields DEF SyncResult, News
<1>2. CASE m.route # NoRoute /\ Serve(w, k, Adopted(w, wk[w], m.route, 0), OnAdopt(w, wk[w], m.route, 0))
  <2>1. m.route \in Route /\ m.type \in OfferTypes
    BY <1>1, <1>2 DEF AnyRoute, OfferTypes
  <2>2. Turns(w, m, Adopted(w, wk[w], m.route, 0))
    BY <1>1, <2>1, AdoptTurns
  <2> QED
    BY <1>1, <1>2, <2>2, OnAdoptPlain DEF Handles
<1>3. CASE m.route = NoRoute /\ Serve(w, k, IF wk[w].route.state = "UNPAIRING" /\ Safe(wk[w]) THEN Unrouted(wk[w])
                                            ELSE [wk[w] EXCEPT !.reconciling = TRUE], <<>>)
  <2>1. CASE wk[w].route.state = "UNPAIRING" /\ Safe(wk[w])
    <3>1. Turns(w, m, Unrouted(wk[w]))
      BY <1>1, <1>3, <2>1, UnroutedTurns DEF GivesUp, Safe
    <3> QED
      BY <1>1, <1>3, <2>1, <3>1, PlainMessage DEF Handles
  <2>2. CASE ~(wk[w].route.state = "UNPAIRING" /\ Safe(wk[w]))
    <3>1. Turns(w, m, [wk[w] EXCEPT !.reconciling = TRUE])
      BY <1>1, MarkUpdate, SameTurns
    <3> QED
      BY <1>1, <1>3, <2>2, <3>1, PlainMessage DEF Handles
  <2> QED
    BY <2>1, <2>2
<1>4. CASE Serve(w, k, IF wk[w].pairing = "deciding" THEN [Discarded(wk[w]) EXCEPT !.pairing = "available"]
                       ELSE Conflicted(w, wk[w]), <<>>)
  <2>1. "available" \in PairingStates \ {"routed"}
    BY DEF PairingStates
  <2>2. Turns(w, m, [Discarded(wk[w]) EXCEPT !.pairing = "available"])
    BY <1>1, <2>1, DiscardedSound, SameTurns
  <2>3. Turns(w, m, Conflicted(w, wk[w]))
    BY <1>1, ConflictedSound, SameTurns
  <2> QED
    BY <1>1, <1>4, <2>2, <2>3, PlainMessage DEF Handles
<1>5. CASE Serve(w, k, wk[w], <<>>)
  BY <1>1, <1>5, SameTurns, PlainMessage DEF Handles
<1> QED
  BY <1>2, <1>3, <1>4, <1>5 DEF SyncResult

LEMMA ResultHandled ==
    ASSUME RuntimeInv, NEW w \in Workers, NEW k \in DOMAIN down[w],
           UnpairResult(w, k) \/ VersionResult(w, k) \/ AssertionResult(w, k)
    PROVE  Handles(w, k)
<1> DEFINE m == down[w][k]
<1>1. k \in Served(w) /\ wk[w] \in Sound /\ m \in Downward
  BY Serving DEF UnpairResult, VersionResult, AssertionResult, News
<1>2. CASE UnpairResult(w, k)
  <2>1. m.type = "unpair_result" /\ Serve(w, k, IF wk[w].route = NoRoute THEN wk[w] ELSE Fed(wk[w], m.route), <<>>)
    BY <1>2 DEF UnpairResult, News
  <2>2. m.type \in StateTypes /\ m.route \in Route
    BY <1>1, <2>1, DownwardFields DEF StateTypes
  <2>3. Turns(w, m, wk[w]) /\ Turns(w, m, Fed(wk[w], m.route))
    BY <1>1, <2>2, SameTurns, FedTurns
  <2> QED
    BY <1>1, <2>1, <2>3, PlainMessage DEF Handles
<1>3. CASE VersionResult(w, k)
  <2>1. Serve(w, k, [wk[w] EXCEPT !.published = Absent], <<>>)
    BY <1>3 DEF VersionResult
  <2>2. Turns(w, m, [wk[w] EXCEPT !.published = Absent])
    BY <1>1, MarkUpdate, SameTurns
  <2> QED
    BY <1>1, <2>1, <2>2, PlainMessage DEF Handles
<1>4. CASE AssertionResult(w, k)
  <2>1. m.type = "assertion_result" /\ Serve(w, k, Unrouted(wk[w]), <<>>)
    BY <1>4 DEF AssertionResult, News
  <2>2. Turns(w, m, Unrouted(wk[w]))
    BY <1>1, <2>1, UnroutedTurns DEF GivesUp
  <2> QED
    BY <1>1, <2>1, <2>2, PlainMessage DEF Handles
<1> QED
  BY <1>2, <1>3, <1>4

\* The pushes.
LEMMA ProposedHandled ==
    ASSUME RuntimeInv, NEW w \in Workers, NEW k \in DOMAIN down[w], Proposed(w, k)
    PROVE  Handles(w, k)
<1> DEFINE m == down[w][k]
<1>1. k \in Served(w) /\ wk[w] \in Sound /\ wk[w] \in Runtimes /\ m.proposal \in ProposalIds /\ m.leader \in Workers
  BY Serving, DownwardFields DEF Proposed, News
<1>2. PICK p \in ProposalIds : p = m.proposal
  BY <1>1
<1>3. PICK b : b = [proposal |-> p, role |-> "follower", peer |-> m.leader]
  OBVIOUS
<1>4. b \in Budgets /\ "deciding" \in PairingStates \ {"routed"}
  BY <1>1, <1>3 DEF Budgets, PairingStates
<1>5. PICK n : n = [wk[w] EXCEPT !.pairing = "deciding", !.proposal = p, !.budget = b]
  OBVIOUS
<1>6. n \in Sound /\ n.route = wk[w].route /\ n.busy = wk[w].busy
  BY <1>1, <1>4, <1>5 DEF Sound, Runtimes
<1>7. Turns(w, m, n) /\ Turns(w, m, wk[w])
  BY <1>1, <1>6, SameTurns
<1>8. /\ <<[type |-> "decision", proposal |-> p, accepted |-> TRUE]>> \in Plain
      /\ <<[type |-> "decision", proposal |-> p, accepted |-> FALSE]>> \in Plain
  BY UpwardMade, PlainMessage
<1>9. \/ Serve(w, k, n, <<[type |-> "decision", proposal |-> p, accepted |-> TRUE]>>)
      \/ Serve(w, k, wk[w], <<[type |-> "decision", proposal |-> p, accepted |-> FALSE]>>)
  BY <1>2, <1>3, <1>5 DEF Proposed
<1> QED
  BY <1>1, <1>7, <1>8, <1>9 DEF Handles

LEMMA EndedHandled ==
    ASSUME RuntimeInv, NEW w \in Workers, NEW k \in DOMAIN down[w], PairingEnded(w, k)
    PROVE  Handles(w, k)
<1> DEFINE m == down[w][k]
<1>1. k \in Served(w) /\ wk[w] \in Sound /\ wk[w] \in Runtimes
  BY Serving DEF PairingEnded, News
<1>2. "available" \in PairingStates \ {"routed"}
  BY DEF PairingStates
<1>3. Turns(w, m, wk[w])
  BY <1>1, SameTurns
<1>4. Turns(w, m, [Discarded(wk[w]) EXCEPT !.pairing = "available"])
  BY <1>1, <1>2, DiscardedSound, SameTurns
<1>5. Turns(w, m, Conflicted(w, wk[w]))
  BY <1>1, ConflictedSound, SameTurns
<1>6. \/ Serve(w, k, wk[w], <<>>) \/ Serve(w, k, [Discarded(wk[w]) EXCEPT !.pairing = "available"], <<>>)
      \/ Serve(w, k, Conflicted(w, wk[w]), <<>>)
  BY DEF PairingEnded
<1> QED
  BY <1>1, <1>3, <1>4, <1>5, <1>6, PlainMessage DEF Handles

LEMMA RouteHandled ==
    ASSUME RuntimeInv, NEW w \in Workers, NEW k \in DOMAIN down[w],
           Established(w, k) \/ StateChanged(w, k) \/ Removed(w, k)
    PROVE  Handles(w, k)
<1> DEFINE m == down[w][k]
<1>1. k \in Served(w) /\ wk[w] \in Sound /\ m \in Downward
  BY Serving DEF Established, StateChanged, Removed, News
<1>2. CASE Established(w, k)
  <2>1. /\ m.type = "established"
        /\ Serve(w, k, Adopted(w, wk[w], m.route, wk[w].proposal), OnAdopt(w, wk[w], m.route, wk[w].proposal))
    BY <1>2 DEF Established, News
  <2>2. m.route \in Route /\ m.type \in OfferTypes
    BY <1>1, <2>1, DownwardFields DEF ActiveRoute, OfferTypes
  <2>3. Turns(w, m, Adopted(w, wk[w], m.route, wk[w].proposal))
    BY <1>1, <2>2, AdoptTurns
  <2> QED
    BY <1>1, <2>1, <2>3, OnAdoptPlain DEF Handles
<1>3. CASE StateChanged(w, k)
  <2>1. m.type = "state_changed" /\ Serve(w, k, IF wk[w].route = NoRoute THEN wk[w] ELSE Fed(wk[w], m.route), <<>>)
    BY <1>3 DEF StateChanged, News
  <2>2. m.type \in StateTypes /\ m.route \in Route
    BY <1>1, <2>1, DownwardFields DEF StateTypes
  <2>3. Turns(w, m, wk[w]) /\ Turns(w, m, Fed(wk[w], m.route))
    BY <1>1, <2>2, SameTurns, FedTurns
  <2> QED
    BY <1>1, <2>1, <2>3, PlainMessage DEF Handles
<1>4. CASE Removed(w, k)
  <2>1. m.type = "removed" /\ Serve(w, k, IF wk[w].route.id = m.route THEN Unrouted(wk[w]) ELSE wk[w], <<>>)
    BY <1>4 DEF Removed, News
  <2>2. Turns(w, m, wk[w])
    BY <1>1, SameTurns
  <2>3. wk[w].route.id = m.route => Turns(w, m, Unrouted(wk[w]))
    BY <1>1, <2>1, UnroutedTurns DEF GivesUp
  <2> QED
    BY <1>1, <2>1, <2>2, <2>3, PlainMessage DEF Handles
<1> QED
  BY <1>2, <1>3, <1>4

LEMMA NewsHandled ==
    ASSUME RuntimeInv, NEW w \in Workers, NEW k \in DOMAIN down[w], Answered(w, k) \/ Notified(w, k)
    PROVE  Handles(w, k)
  BY RoleHandled, ListHandled, ProposalHandled, DecisionHandled, SyncHandled, ResultHandled, ProposedHandled,
     EndedHandled, RouteHandled
     DEF Answered, Notified

LEMMA HandlesTyped ==
    ASSUME RuntimeInv, NEW w \in Workers, NEW k \in DOMAIN down[w], Handles(w, k)
    PROVE  RuntimeStep
<1>1. PICK rec, ms : Turns(w, down[w][k], rec) /\ ms \in Plain /\ Serve(w, k, rec, ms)
  BY DEF Handles
<1>2. k \in Served(w) /\ rec \in Sound /\ ms \in Seq(Upward)
  BY <1>1 DEF Handles, Turns, Plain
<1> QED
  BY <1>1, <1>2, ServeTyped
----------------------------------------------------------------------------
(***************************************************************************)
(* What a Worker does by itself: its route stays, an attempt is begun only *)
(* on an ACTIVE one, and an assertion is made only by an idle Worker whose *)
(* route is UNPAIRING.                                                     *)
(***************************************************************************)

Asserts(w, ms) ==
    /\ wk[w].route # NoRoute /\ wk[w].route.state = "UNPAIRING" /\ ~wk[w].busy
    /\ \E m \in Upward : ms = <<m>> /\ m.type = "assertion" /\ m.route = wk[w].route.id

Moves(w, rec, ms) ==
    /\ rec \in Sound /\ rec.route = wk[w].route
    /\ rec.busy => wk[w].busy \/ (wk[w].route # NoRoute /\ wk[w].route.state = "ACTIVE")
    /\ ms \in Seq(Upward)
    /\ ms \in Plain \/ (Asserts(w, ms) /\ rec.busy = wk[w].busy)

Acts(w) == \E rec, ms : Moves(w, rec, ms) /\ Act(w, rec, ms)

LEMMA PlainMoves ==
    ASSUME NEW w, NEW rec \in Sound, rec.route = wk[w].route,
           rec.busy => wk[w].busy \/ (wk[w].route # NoRoute /\ wk[w].route.state = "ACTIVE"),
           NEW ms \in Plain, Act(w, rec, ms)
    PROVE  Acts(w)
  BY DEF Acts, Moves, Plain

LEMMA NextVersion == \A v \in Versions : v < MaxVersion => v + 1 \in Versions
  BY LedgerAssumption DEF Versions

LEMMA PublishUpdate ==
    ASSUME NEW rec \in Sound, NEW n, n = [rec EXCEPT !.published = rec.version]
    PROVE  n \in Sound /\ n.route = rec.route /\ n.busy = rec.busy
<1>1. rec.version \in Versions \cup {Absent}
  BY DEF Sound, Runtimes
<1> QED
  BY <1>1 DEF Sound, Runtimes

LEMMA PumpActs ==
    ASSUME RuntimeInv, NEW w \in Workers, Pump(w)
    PROVE  Acts(w)
<1>1. wk[w] \in Sound /\ wk[w] \in Runtimes /\ wk[w].version \in Versions /\ wk[w].route \in AnyRoute
  BY DEF RuntimeInv, Sound, Runtimes
<1>2. wk[w].route # NoRoute => wk[w].route.id \in RouteIds
  BY <1>1 DEF AnyRoute, Route
<1>3. ASSUME NEW state \in PairingStates \ {"routed"}, NEW ms \in Plain, Act(w, [wk[w] EXCEPT !.pairing = state], ms)
      PROVE  Acts(w)
  <2>1. PICK n : n = [wk[w] EXCEPT !.pairing = state]
    OBVIOUS
  <2>2. n \in Sound /\ n.route = wk[w].route /\ n.busy = wk[w].busy
    BY <1>1, <2>1 DEF Sound, Runtimes
  <2> QED
    BY <1>3, <2>1, <2>2, PlainMoves
<1>4. ASSUME NEW ms \in Plain, Act(w, wk[w], ms) PROVE Acts(w)
  BY <1>1, <1>4, PlainMoves
<1>5. CASE DeclareRole(w)
  <2>1. "declaring" \in PairingStates \ {"routed"} /\ <<[type |-> "role"]>> \in Plain
    BY UpwardMade, PlainMessage DEF PairingStates
  <2> QED
    BY <1>3, <1>5, <2>1 DEF DeclareRole
<1>6. CASE BeginSelection(w)
  <2>1. "listing" \in PairingStates \ {"routed"} /\ <<[type |-> "list"]>> \in Plain
    BY UpwardMade, PlainMessage DEF PairingStates
  <2> QED
    BY <1>3, <1>6, <2>1 DEF BeginSelection
<1>7. CASE RequestSync(w)
  <2>1. <<SyncRequest>> \in Plain
    BY UpwardMade, PlainMessage DEF SyncRequest
  <2> QED
    BY <1>4, <1>7, <2>1 DEF RequestSync
<1>8. CASE PublishVersion(w)
  <2>1. PICK m : m = [type |-> "version", route |-> wk[w].route.id, version |-> wk[w].version]
    OBVIOUS
  <2>2. m \in Upward /\ m.type = "version"
    BY <1>1, <1>2, <1>8, <2>1, UpwardMade DEF PublishVersion
  <2>3. PICK n : n = [wk[w] EXCEPT !.published = wk[w].version]
    OBVIOUS
  <2>4. n \in Sound /\ n.route = wk[w].route /\ n.busy = wk[w].busy
    BY <1>1, <2>3, PublishUpdate
  <2>5. Act(w, n, <<m>>) /\ <<m>> \in Plain
    BY <1>8, <2>1, <2>2, <2>3, PlainMessage DEF PublishVersion
  <2> QED
    BY <2>4, <2>5, PlainMoves
<1>9. CASE AssertSafe(w)
  <2>1. PICK m : m = [type |-> "assertion", route |-> wk[w].route.id, version |-> wk[w].version]
    OBVIOUS
  <2>2. m \in Upward /\ m.type = "assertion" /\ m.route = wk[w].route.id
    BY <1>1, <1>2, <1>9, <2>1, UpwardMade DEF AssertSafe
  <2>3. Act(w, wk[w], <<m>>) /\ Asserts(w, <<m>>) /\ <<m>> \in Seq(Upward)
    BY <1>9, <2>1, <2>2 DEF AssertSafe, Asserts, Safe
  <2> QED
    BY <1>1, <2>3 DEF Acts, Moves
<1>10. CASE StartAttempt(w)
  <2>1. PICK n : n = [wk[w] EXCEPT !.busy = TRUE, !.version = @ + 1]
    OBVIOUS
  <2>4. wk[w].version + 1 \in Versions
    BY <1>1, <1>10, NextVersion DEF StartAttempt
  <2>2. n \in Sound /\ n.route = wk[w].route
    BY <1>1, <2>1, <2>4 DEF Sound, Runtimes
  <2>3. Act(w, n, <<>>) /\ wk[w].route # NoRoute /\ wk[w].route.state = "ACTIVE"
    BY <1>10, <2>1 DEF StartAttempt
  <2> QED
    BY <2>2, <2>3, PlainMoves, PlainMessage
<1>11. CASE FinishAttempt(w)
  <2>1. PICK n : n = [wk[w] EXCEPT !.busy = FALSE, !.version = @ + 1]
    OBVIOUS
  <2>2. n \in Sound /\ n.route = wk[w].route /\ n.busy = FALSE
    <3>1. wk[w].version + 1 \in Versions
      BY <1>1, <1>11, NextVersion DEF FinishAttempt
    <3> QED
      BY <1>1, <2>1, <3>1 DEF Sound, Runtimes
  <2>3. Act(w, n, <<>>)
    BY <1>11, <2>1 DEF FinishAttempt
  <2> QED
    BY <2>2, <2>3, PlainMoves, PlainMessage
<1>12. ASSUME NEW action \in Commands, OperatorCommand(w, action) PROVE Acts(w)
  <2>1. PICK m : m = [type |-> "unpair", route |-> wk[w].route.id, action |-> action]
    OBVIOUS
  <2>2. m \in Upward /\ m.type = "unpair"
    BY <1>2, <1>12, <2>1, UpwardMade DEF OperatorCommand
  <2>3. Act(w, wk[w], <<m>>) /\ <<m>> \in Plain
    BY <1>12, <2>1, <2>2, PlainMessage DEF OperatorCommand
  <2> QED
    BY <1>4, <2>3
<1> QED
  BY <1>5, <1>6, <1>7, <1>8, <1>9, <1>10, <1>11, <1>12 DEF Pump

LEMMA ActsTyped ==
    ASSUME RuntimeInv, NEW w \in Workers, Acts(w)
    PROVE  RuntimeStep
<1>1. PICK rec, ms : Moves(w, rec, ms) /\ Act(w, rec, ms)
  BY DEF Acts
<1>2. rec \in Sound /\ ms \in Seq(Upward)
  BY <1>1 DEF Moves
<1> QED
  BY <1>1, <1>2, ActTyped
----------------------------------------------------------------------------
(***************************************************************************)
(* Sessions, and the theorem about types.                                  *)
(***************************************************************************)

\* The runtime that a Worker builds from its files.
LEMMA ReopenedSound ==
    ASSUME NEW rec \in Sound,
           NEW n, n = [NewWorker EXCEPT !.budget = rec.budget, !.route = rec.route, !.version = rec.version,
                          !.busy = rec.busy, !.pairing = IF rec.route = NoRoute THEN "unstarted" ELSE "routed"]
    PROVE  n \in Sound /\ n.route = rec.route /\ n.busy = rec.busy
<1>1. /\ rec.budget \in Budgets /\ rec.route \in AnyRoute /\ rec.version \in Versions /\ rec.busy \in BOOLEAN
      /\ "unstarted" \in PairingStates /\ "routed" \in PairingStates
  BY DEF Sound, Runtimes, PairingStates
<1>2. NewWorker \in Runtimes
  BY NewWorkerSound DEF Sound
<1> QED
  BY <1>1, <1>2 DEF Sound, Runtimes

LEMMA SessionTyped ==
    ASSUME RuntimeInv, NEW w \in Workers, OpenSession(w) \/ LoseSession(w) \/ DiscardConnection(w) \/ RevokeWorker(w)
    PROVE  RuntimeStep
<1> DEFINE States == {"none", "live", "closing", "ended"}
<1>1. /\ conn \in [Workers -> States] /\ session \in [Workers -> BOOLEAN] /\ owed \in [Workers -> Nat]
      /\ up \in [Workers -> Seq(Upward)] /\ down \in [Workers -> Seq(Downward)] /\ wk \in [Workers -> Sound]
      /\ \A u \in Workers : owed[u] <= Len(down[u])
      /\ \A u \in Workers : session[u] => conn[u] = "live"
  BY DEF RuntimeInv
<1>2. <<>> \in Seq(Upward) /\ <<SyncRequest>> \in Seq(Upward) /\ <<>> \in Seq(Downward)
  BY UpwardMade
<1>3. CASE OpenSession(w)
  <2>1. PICK n : n = [NewWorker EXCEPT !.budget = wk[w].budget, !.route = wk[w].route, !.version = wk[w].version,
                          !.busy = wk[w].busy, !.pairing = IF wk[w].route = NoRoute THEN "unstarted" ELSE "routed"]
    OBVIOUS
  <2>2. n \in Sound
    BY <1>1, <2>1, ReopenedSound
  <2>3. PICK s \in Seq(Upward) : s = IF wk[w].route = NoRoute THEN <<>> ELSE <<SyncRequest>>
    BY <1>2
  <2>4. /\ session' = [session EXCEPT ![w] = TRUE] /\ conn' = [conn EXCEPT ![w] = "live"] /\ wk' = [wk EXCEPT ![w] = n]
        /\ up' = [up EXCEPT ![w] = s] /\ down' = [down EXCEPT ![w] = <<>>] /\ owed' = [owed EXCEPT ![w] = 0]
    BY <1>3, <2>1, <2>3 DEF OpenSession
  <2> QED
    BY <1>1, <1>2, <2>2, <2>4 DEF RuntimeStep
<1>4. CASE LoseSession(w)
  BY <1>1, <1>2, <1>4 DEF RuntimeStep, LoseSession
<1>5. CASE DiscardConnection(w)
  BY <1>1, <1>5 DEF RuntimeStep, DiscardConnection
<1>6. CASE RevokeWorker(w)
  BY <1>1, <1>2, <1>6 DEF RuntimeStep, RevokeWorker, Unregister
<1> QED
  BY <1>3, <1>4, <1>5, <1>6

LEMMA NoticeTyped ==
    ASSUME RuntimeInv, NEW w \in Workers, NoticeDisconnect(w) \/ DeleteWorker(w)
    PROVE  RuntimeStep
<1> DEFINE States == {"none", "live", "closing", "ended"}
<1>1. /\ conn \in [Workers -> States] /\ session \in [Workers -> BOOLEAN] /\ owed \in [Workers -> Nat]
      /\ up \in [Workers -> Seq(Upward)] /\ down \in [Workers -> Seq(Downward)] /\ wk \in [Workers -> Sound]
      /\ \A u \in Workers : owed[u] <= Len(down[u])
      /\ \A u \in Workers : session[u] => conn[u] = "live"
  BY DEF RuntimeInv
<1>2. Sends
  BY ReleaseSends, DeleteSends DEF NoticeDisconnect
<1>3. /\ down' \in [Workers -> Seq(Downward)]
      /\ \A u \in Workers : Len(down[u]) <= Len(down'[u]) /\ Len(down[u]) \in Nat /\ Len(down'[u]) \in Nat
  BY <1>1, <1>2 DEF Sends, Grown
<1>4. <<>> \in Seq(Upward)
  OBVIOUS
<1>5. CASE NoticeDisconnect(w)
  <2>1. conn' \in [Workers -> States] /\ up' \in [Workers -> Seq(Upward)] /\ UNCHANGED <<session, owed, wk>>
    BY <1>1, <1>4, <1>5 DEF NoticeDisconnect
  <2>2. \A u \in Workers : session'[u] => conn'[u] = "live"
    BY <1>1, <1>5 DEF NoticeDisconnect
  <2>3. \A u \in Workers : owed'[u] <= Len(down'[u])
    BY <1>1, <1>3, <2>1
  <2> QED
    BY <1>1, <1>3, <2>1, <2>2, <2>3 DEF RuntimeStep
<1>6. CASE DeleteWorker(w)
  <2>1. /\ conn' \in [Workers -> States] /\ up' \in [Workers -> Seq(Upward)] /\ session' \in [Workers -> BOOLEAN]
        /\ owed' \in [Workers -> Nat] /\ wk' = wk
    BY <1>1, <1>4, <1>6 DEF DeleteWorker, Unregister
  <2>2. \A u \in Workers : session'[u] => conn'[u] = "live"
    BY <1>1, <1>6 DEF DeleteWorker, Unregister
  <2>3. \A u \in Workers : owed'[u] <= owed[u]
    BY <1>1, <1>6 DEF DeleteWorker, Unregister
  <2>4. \A u \in Workers : owed'[u] <= Len(down'[u])
    BY <1>1, <1>3, <2>1, <2>3
  <2> QED
    BY <1>1, <1>3, <2>1, <2>2, <2>4 DEF RuntimeStep
<1> QED
  BY <1>5, <1>6

LEMMA ConnectionTyped ==
    ASSUME RuntimeInv, NEW w \in Workers, Connection(w)
    PROVE  RuntimeStep
<1>1. CASE ApproveWorker(w)
  BY <1>1 DEF ApproveWorker, network, RuntimeInv, RuntimeStep
<1> QED
  BY <1>1, SessionTyped, NoticeTyped DEF Connection

LEMMA RuntimeTyped == RuntimeInv /\ [Next]_vars => RuntimeInv'
<1> SUFFICES ASSUME RuntimeInv, [Next]_vars PROVE RuntimeStep
  BY RuntimeKept
<1>0. LedgerInv'
  BY LedgerStep, InvStep DEF RuntimeInv
<1>1. ASSUME NEW w \in Workers, Service(w) PROVE RuntimeStep
  BY <1>0, <1>1, ServiceStepTyped
<1>2. ASSUME NEW w \in Workers, Pump(w) PROVE RuntimeStep
  BY <1>2, PumpActs, ActsTyped
<1>3. ASSUME NEW w \in Workers, Connection(w) PROVE RuntimeStep
  BY <1>3, ConnectionTyped
<1>4. ASSUME NEW w \in Workers, NEW k \in DOMAIN down[w], Answered(w, k) \/ Notified(w, k) PROVE RuntimeStep
  BY <1>4, NewsHandled, HandlesTyped
<1>5. CASE ReservationLapses
  BY <1>5 DEF ReservationLapses, network, RuntimeInv, RuntimeStep
<1>6. CASE Restart
  <2>1. /\ conn' = [w \in Workers |-> "none"] /\ session' = [w \in Workers |-> FALSE]
        /\ up' = [w \in Workers |-> <<>>] /\ down' = [w \in Workers |-> <<>>] /\ owed' = [w \in Workers |-> 0] /\ wk' = wk
    BY <1>6 DEF Restart
  <2>2. <<>> \in Seq(Upward) /\ <<>> \in Seq(Downward) /\ Len(<<>>) = 0
    OBVIOUS
  <2> QED
    BY <2>1, <2>2 DEF RuntimeInv, RuntimeStep
<1>7. CASE UNCHANGED vars
  BY <1>7 DEF vars, network, RuntimeInv, RuntimeStep
<1> QED
  BY <1>1, <1>2, <1>3, <1>4, <1>5, <1>6, <1>7 DEF Next

LEMMA RuntimeInit == Init => RuntimeInv
<1> SUFFICES ASSUME Init PROVE RuntimeInv
  OBVIOUS
<1>1. LedgerInv
  BY InitInv DEF Init
<1>2. /\ conn \in [Workers -> {"none", "live", "closing", "ended"}] /\ session \in [Workers -> BOOLEAN]
      /\ \A w \in Workers : session[w] => conn[w] = "live"
  <2>1. /\ conn = [w \in Workers |-> IF w \in Approved THEN "live" ELSE "none"]
        /\ session = [w \in Workers |-> w \in Approved]
    BY DEF Init
  <2>2. conn \in [Workers -> {"none", "live", "closing", "ended"}]
    BY <2>1
  <2>3. session \in [Workers -> BOOLEAN]
    <3>1. \A w \in Workers : (w \in Approved) \in BOOLEAN
      OBVIOUS
    <3> QED
      BY <2>1, <3>1, Zenon
  <2>4. \A w \in Workers : session[w] => conn[w] = "live"
    BY <2>1
  <2> QED
    BY <2>2, <2>3, <2>4
<1>3. up = [w \in Workers |-> <<>>] /\ down = [w \in Workers |-> <<>>] /\ owed = [w \in Workers |-> 0]
  BY DEF Init
<1>4. <<>> \in Seq(Upward) /\ <<>> \in Seq(Downward) /\ Len(<<>>) = 0
  OBVIOUS
<1>5. /\ up \in [Workers -> Seq(Upward)] /\ down \in [Workers -> Seq(Downward)] /\ owed \in [Workers -> Nat]
      /\ \A w \in Workers : owed[w] <= Len(down[w])
  BY <1>3, <1>4
<1>6. wk \in [Workers -> Sound]
  <2>1. ASSUME NEW s \in PairingStates \ {"routed"} PROVE [NewWorker EXCEPT !.pairing = s] \in Sound
    BY NewWorkerSound DEF Sound, Runtimes
  <2>2. ASSUME NEW w \in Workers PROVE wk[w] \in Sound
    <3>1. PICK s : s = IF w \notin Approved THEN "unstarted" ELSE IF w \in Leaders THEN "selecting" ELSE "available"
      OBVIOUS
    <3>2. s \in PairingStates \ {"routed"}
      BY <3>1 DEF PairingStates
    <3>3. wk[w] = [NewWorker EXCEPT !.pairing = s]
      BY <3>1 DEF Init, NewWorker
    <3> QED
      BY <2>1, <3>2, <3>3
  <2>3. wk = [w \in Workers |-> wk[w]]
    BY DEF Init
  <2> QED
    BY <2>2, <2>3
<1> QED
  BY <1>1, <1>2, <1>5, <1>6 DEF RuntimeInv

\* Messages, sessions and the files of the Workers stay consistent, whatever
\* overtakes, is lost or restarts: only sessions that the service registered
\* are open, no reply overtakes more pushes than there are, and a Worker that
\* calls itself routed has a route.
THEOREM RuntimeInvariant == Spec => []RuntimeInv
  BY RuntimeInit, RuntimeTyped, PTL DEF Spec

\* The type invariant of pairing end to end (PairCellRuntime, the service and
\* the ledger).
THEOREM PairingTyped == Spec => []TypeOK
<1>1. RuntimeInv => TypeOK
  <2> SUFFICES ASSUME RuntimeInv PROVE TypeOK
    OBVIOUS
  <2>1. ASSUME NEW w \in Workers
        PROVE  /\ wk[w].pairing \in PairingStates
               /\ wk[w].proposal \in ProposalIds \cup {0}
               /\ wk[w].route = NoRoute \/ wk[w].route \in Route
               /\ wk[w].version \in Versions /\ wk[w].published \in Versions \cup {Absent}
               /\ wk[w].pairing = "routed" => wk[w].route # NoRoute
    <3>1. wk[w] \in Sound
      BY DEF RuntimeInv
    <3> QED
      BY <3>1 DEF Sound, Runtimes, AnyRoute
  <2> QED
    BY <2>1 DEF RuntimeInv, TypeOK, LedgerInv
<1> QED
  BY <1>1, RuntimeInvariant, PTL
----------------------------------------------------------------------------
(***************************************************************************)
(* Safe unpair.  The inductive invariant says, of each Worker, how its     *)
(* route copy, the news on their way to it and its assertion stand to the  *)
(* ledger.  What it says of states and of attempts ends when an UNPAIRING  *)
(* is cancelled, the rest when a Worker is deleted.                        *)
(***************************************************************************)

\* What a copy or news say of a route: its Workers, and an UNPAIRING that the
\* ledger has not taken back.
Fits(w, x) ==
    /\ x.id <= issued
    /\ \A r \in routes : r.id = x.id =>
          /\ w \in Pair(r) /\ r.leader = x.leader /\ r.follower = x.follower
          /\ excused \/ (x.state = "UNPAIRING" => r.state = "UNPAIRING")

\* News of the route i from before it was UNPAIRING: once an UNPAIRING has been
\* cancelled, only the announcement of the route is known to be.
Stale(m, i) == About(m, i) /\ (m.type = "established" \/ (~excused /\ m.route.state # "UNPAIRING"))

\* The Worker has its route i, knows that it is UNPAIRING and is idle, and no
\* news on their way are from before.
Settled(w, i) ==
    /\ wk[w].route.id = i
    /\ excused \/ (wk[w].route.state = "UNPAIRING" /\ ~wk[w].busy)
    /\ \A k \in DOMAIN down[w] : ~Stale(down[w][k], i)

NoRouteNews(m) == m.type = "sync_result" /\ m.route = NoRoute

NewsFit(w) ==
    /\ Fits(w, wk[w].route)
    /\ \A k \in DOMAIN down[w] : down[w][k].type \in StateTypes => Fits(w, down[w][k].route)

\* News that follow an UNPAIRING of the same route are not from before it.
NewsInOrder(w) ==
    \A j, k \in DOMAIN down[w] :
        j < k /\ down[w][j].type \in StateTypes /\ down[w][j].route.state = "UNPAIRING"
        => ~Stale(down[w][k], down[w][j].route.id)

\* Nor are the news about a copy that is UNPAIRING, but for overtaken pushes.
CopyInOrder(w) ==
    wk[w].route.state = "UNPAIRING" =>
        \A k \in DOMAIN down[w] : k > owed[w] => ~Stale(down[w][k], wk[w].route.id)

\* An assertion, sent or recorded, is of a settled Worker or of a route that
\* is gone, and a copy of such a route is settled.
AssertedSettled(w) ==
    /\ \A k \in DOMAIN up[w] : up[w][k].type = "assertion" => Gone(up[w][k].route) \/ Settled(w, up[w][k].route)
    /\ \A i \in RouteIds : assertions[i][w] # Absent => Settled(w, i)
    /\ Gone(wk[w].route.id) => Settled(w, wk[w].route.id)

\* Only the Worker that still has the copy may be offered a route that is gone.
OffersKnown(w) ==
    \A k \in DOMAIN down[w], i \in RouteIds : Gone(i) /\ Offers(down[w][k], i) => wk[w].route.id = i

\* News of a removal are true, and are not followed by an offer of the route.
RemovalLast(w) ==
    \A k \in DOMAIN down[w] : down[w][k].type = "removed" =>
        /\ Gone(down[w][k].route)
        /\ \A l \in DOMAIN down[w] : l > k => ~Offers(down[w][l], down[w][k].route)

ReplyLast(w) ==
    \A k \in DOMAIN down[w] : down[w][k].type = "assertion_result" =>
        /\ Gone(wk[w].route.id)
        /\ \A l \in DOMAIN down[w] : l > k => ~Offers(down[w][l], wk[w].route.id)
        /\ \A l \in DOMAIN down[w] : down[w][l].type = "assertion_result" => l = k
        /\ \A l \in DOMAIN down[w] : l < k =>
              /\ ~NoRouteNews(down[w][l])
              /\ down[w][l].type = "removed" => down[w][l].route # wk[w].route.id

AbsenceLast(w) ==
    \A k \in DOMAIN down[w] : NoRouteNews(down[w][k]) =>
        /\ wk[w].route # NoRoute =>
              /\ Gone(wk[w].route.id)
              /\ \A l \in DOMAIN down[w] : l > k => ~Offers(down[w][l], wk[w].route.id)
        /\ \A l \in DOMAIN down[w], i \in RouteIds : l < k /\ Offers(down[w][l], i) => Gone(i)

BusyRouted(w) == excused \/ (wk[w].busy => wk[w].route # NoRoute)

Knows(w) ==
    /\ NewsFit(w) /\ NewsInOrder(w) /\ CopyInOrder(w) /\ AssertedSettled(w) /\ OffersKnown(w)
    /\ RemovalLast(w) /\ ReplyLast(w) /\ AbsenceLast(w) /\ BusyRouted(w)

UnpairInv == (excused /\ faults > 0) \/ \A w \in Workers : Knows(w)

\* What a step of the service, of time or of the administrator may do to the
\* ledger: a route is new, or keeps its Workers and its UNPAIRING; when it goes,
\* its Workers are settled; and so is a Worker whose assertion is recorded.
Evolves ==
    /\ excused => excused'
    /\ issued <= issued'
    /\ \A s \in routes' : \/ s.id > issued
                          \/ \E r \in routes : /\ SameRoute(r, s)
                                               /\ excused' \/ (r.state = "UNPAIRING" => s.state = "UNPAIRING")
    /\ \A i \in RouteIds : Gone(i)' => Gone(i) \/ \E r \in routes : r.id = i /\ \A v \in Pair(r) : Settled(v, i)
    /\ \A i \in RouteIds, v \in Workers : assertions'[i][v] # Absent => assertions[i][v] # Absent \/ Settled(v, i)

\* The Worker itself does nothing: it may be sent true news, and the service
\* may take what it has sent.
Hears(u) ==
    /\ wk'[u] = wk[u] /\ owed'[u] = owed[u]
    /\ down'[u] \in Seq(Downward) /\ Grown(u, Tidings(u))
    /\ \A k \in DOMAIN up'[u] : \E j \in DOMAIN up[u] : up'[u][k] = up[u][j]

LEMMA IdsAreNumbers ==
    /\ \A x \in AnyRoute : x.id \in Nat /\ (x.id \in RouteIds \/ x = NoRoute)
    /\ \A i \in RouteIds : i \in Nat /\ i # 0
    /\ NoRoute.id = 0 /\ NoRoute.state = "ACTIVE"
  BY LedgerAssumption DEF AnyRoute, Route, RouteIds, NoRoute

LEMMA OffersAreNews == OfferTypes \subseteq StateTypes /\ "sync_result" \in OfferTypes
  BY DEF OfferTypes, StateTypes

LEMMA NewsRoutes == \A m \in Downward : m.type \in StateTypes => m.route \in AnyRoute
  BY DownwardFields DEF StateTypes, AnyRoute, ActiveRoute

LEMMA IssuedNumbers == LedgerInv => issued \in Nat /\ \A r \in routes : r \in Route /\ r.id \in RouteIds
  BY LedgerAssumption DEF LedgerInv, LedgerTypeOK, Route

LEMMA GoneStays ==
    ASSUME LedgerInv, LedgerInv', Evolves, NEW i, Gone(i)
    PROVE  Gone(i)'
<1>1. issued \in Nat /\ issued' \in Nat /\ i \in RouteIds /\ i \in Nat /\ i <= issued /\ issued <= issued'
  BY IssuedNumbers, IdsAreNumbers DEF Gone, Evolves, LedgerInv, LedgerTypeOK
<1>2. ASSUME NEW s \in routes', s.id = i PROVE FALSE
  <2>1. \E r \in routes : r.id = s.id
    BY <1>1, <1>2 DEF Evolves, SameRoute
  <2> QED
    BY <1>2, <2>1 DEF Gone
<1>3. i <= issued'
  BY <1>1
<1> QED
  BY <1>1, <1>2, <1>3 DEF Gone

LEMMA FitsStays ==
    ASSUME LedgerInv, LedgerInv', Evolves, NEW u, NEW x, x.id \in Nat, Fits(u, x)
    PROVE  Fits(u, x)'
<1>1. issued \in Nat /\ issued' \in Nat /\ x.id <= issued /\ issued <= issued'
  BY IssuedNumbers DEF Fits, Evolves, LedgerInv, LedgerTypeOK
<1>2. ASSUME NEW s \in routes', s.id = x.id
      PROVE  /\ u \in Pair(s) /\ s.leader = x.leader /\ s.follower = x.follower
             /\ excused' \/ (x.state = "UNPAIRING" => s.state = "UNPAIRING")
  <2>1. PICK r \in routes : SameRoute(r, s) /\ (excused' \/ (r.state = "UNPAIRING" => s.state = "UNPAIRING"))
    BY <1>1, <1>2 DEF Evolves
  <2>2. excused => excused'
    BY DEF Evolves
  <2> QED
    BY <1>2, <2>1, <2>2 DEF Fits, SameRoute, Pair
<1>3. x.id <= issued'
  BY <1>1
<1> QED
  BY <1>2, <1>3 DEF Fits

\* True news fit the ledger, are not of a route that is gone, and are not from
\* before an UNPAIRING that the ledger has not taken back.
LEMMA TidingFacts ==
    ASSUME LedgerInv, LedgerInv', NEW u, NEW m \in Tidings(u), m.type \in StateTypes
    PROVE  /\ Fits(u, m.route)'
           /\ \A i \in RouteIds : m.route.id = i => ~Gone(i)'
           /\ \A x \in AnyRoute : Fits(u, x)' /\ x.id <= issued /\ (excused' \/ x.state = "UNPAIRING")
                 => ~Stale(m, x.id)'
           /\ \A x \in routes' : x.state = "UNPAIRING" => ~Stale(m, x.id)'
<1>1. m.route = NoRoute \/ (m.route \in routes' /\ u \in Pair(m.route))
  BY DEF Tidings, True
<1>2. issued' \in Nat /\ \A r \in routes' : r \in Route /\ r.id \in RouteIds /\ r.id <= issued'
  BY LedgerAssumption DEF LedgerInv, LedgerTypeOK, Route, RouteIdsIssued
<1>5. m.type = "established" => m.route \in Route /\ m.route.state = "ACTIVE" /\ m.route.id > issued
  BY DownwardFields DEF Tidings, True, ActiveRoute
<1>3. CASE m.route = NoRoute
  <2>1. Fits(u, m.route)' /\ \A i \in RouteIds : m.route.id # i
    BY <1>2, <1>3, IdsAreNumbers DEF Fits
  <2>2. m.type # "established"
    BY <1>3, <1>5, RouteIsNot
  <2>3. ASSUME NEW x \in AnyRoute, excused' \/ x.state = "UNPAIRING" PROVE ~Stale(m, x.id)'
    BY <1>3, <2>2, <2>3, IdsAreNumbers DEF Stale, About
  <2>4. \A x \in routes' : x \in AnyRoute
    BY <1>2 DEF AnyRoute
  <2> QED
    BY <2>1, <2>3, <2>4
<1>4. CASE m.route \in routes' /\ u \in Pair(m.route)
  <2>1. \A r \in routes' : r.id = m.route.id => r = m.route
    BY <1>4 DEF LedgerInv, RouteIdsIssued
  <2>2. Fits(u, m.route)'
    BY <1>2, <1>4, <2>1 DEF Fits
  <2>3. \A i \in RouteIds : m.route.id = i => ~Gone(i)'
    BY <1>4 DEF Gone
  <2>4. ASSUME NEW x \in AnyRoute, Fits(u, x)', x.id <= issued, excused' \/ x.state = "UNPAIRING", Stale(m, x.id)'
        PROVE  FALSE
    <3>1. x.id = m.route.id /\ (m.type = "established" \/ (~excused' /\ m.route.state # "UNPAIRING"))
      BY <2>4 DEF Stale, About
    <3>2. x.id \in Nat /\ issued \in Nat
      BY IdsAreNumbers, IssuedNumbers
    <3>3. m.type # "established"
      BY <1>5, <2>4, <3>1, <3>2
    <3> QED
      BY <1>4, <2>4, <3>1, <3>3 DEF Fits
  <2>5. ASSUME NEW x \in routes', x.state = "UNPAIRING", Stale(m, x.id)' PROVE FALSE
    BY <1>5, <2>1, <2>5 DEF Stale, About
  <2> QED
    BY <2>2, <2>3, <2>4, <2>5
<1> QED
  BY <1>1, <1>3, <1>4

\* A Worker that only listens keeps what it knows.
LEMMA HearsKnows ==
    ASSUME RuntimeInv, LedgerInv', Evolves, NEW u \in Workers, Hears(u), Knows(u)
    PROVE  Knows(u)'
<1>1. PICK d \in Seq(Downward) : d = down[u]
  BY DEF RuntimeInv
<1>2. PICK e \in Seq(Downward) : e = down'[u]
  BY DEF Hears
<1>3. PICK n \in Nat : n = Len(d)
  OBVIOUS
<1>4. PICK c \in AnyRoute : c = wk[u].route /\ c = wk'[u].route
  BY DEF RuntimeInv, Sound, Runtimes, Hears
<1>5. LedgerInv /\ wk'[u].busy = wk[u].busy /\ owed'[u] = owed[u]
  BY DEF RuntimeInv, Hears
<1>6. DOMAIN d = 1 .. n /\ DOMAIN d \subseteq Nat /\ DOMAIN e \subseteq Nat
  BY <1>3
<1>7. \A k \in DOMAIN e : /\ k <= n => k \in DOMAIN d /\ e[k] = d[k]
                          /\ k > n => e[k] \in Tidings(u) /\ (e[k].type \in Replies => k = n + 1)
  <2>1. \A k \in DOMAIN e : k <= n => k \in DOMAIN d
    BY <1>6
  <2> QED
    BY <1>1, <1>2, <1>3, <2>1 DEF Hears, Grown
<1>8. Fits(u, c) /\ \A k \in DOMAIN d : d[k].type \in StateTypes => Fits(u, d[k].route) /\ d[k].route \in AnyRoute
  BY <1>1, <1>4, NewsRoutes DEF Knows, NewsFit
<1>9. Fits(u, c)'
  BY <1>4, <1>5, <1>8, IdsAreNumbers, FitsStays
<1>10. ASSUME NEW k \in DOMAIN e, e[k].type \in StateTypes
       PROVE  e[k].route \in AnyRoute /\ Fits(u, e[k].route)'
  <2>1. PICK m \in Downward : m = e[k]
    OBVIOUS
  <2>2. m.route \in AnyRoute /\ m.route.id \in Nat
    BY <1>10, <2>1, NewsRoutes, IdsAreNumbers
  <2>3. CASE k <= n
    <3>1. Fits(u, m.route)
      BY <1>7, <1>8, <1>10, <2>1, <2>3
    <3>2. Fits(u, m.route)'
      BY <1>5, <2>2, <3>1, FitsStays
    <3> QED
      BY <2>1, <2>2, <3>2
  <2>4. CASE k > n
    <3>1. m \in Tidings(u) /\ m.type \in StateTypes
      BY <1>7, <1>10, <2>1, <2>4
    <3>2. Fits(u, m.route)'
      BY <1>5, <3>1, TidingFacts
    <3> QED
      BY <2>1, <2>2, <3>2
  <2> QED
    BY <1>6, <2>3, <2>4
<1>11. ASSUME NEW k \in DOMAIN e, k > n, e[k].type \in StateTypes
       PROVE  /\ \A i \in RouteIds : e[k].route.id = i => ~Gone(i)'
              /\ \A x \in AnyRoute : Fits(u, x)' /\ x.id <= issued /\ (excused' \/ x.state = "UNPAIRING")
                    => ~Stale(e[k], x.id)'
              /\ \A x \in routes' : x.state = "UNPAIRING" => ~Stale(e[k], x.id)'
              /\ e[k].route = NoRoute \/ e[k].route \in routes'
  <2>1. PICK m \in Tidings(u) : m = e[k]
    BY <1>7, <1>11
  <2>2. m.type \in StateTypes
    BY <1>11, <2>1
  <2>3. /\ \A i \in RouteIds : m.route.id = i => ~Gone(i)'
        /\ \A x \in AnyRoute : Fits(u, x)' /\ x.id <= issued /\ (excused' \/ x.state = "UNPAIRING")
              => ~Stale(m, x.id)'
        /\ \A x \in routes' : x.state = "UNPAIRING" => ~Stale(m, x.id)'
    BY <1>5, <2>1, <2>2, TidingFacts
  <2>4. m.route = NoRoute \/ m.route \in routes'
    BY <2>2 DEF Tidings, True
  <2> QED
    BY <2>1, <2>3, <2>4 DEF Stale, About
<1>12. \A i \in RouteIds : Gone(i) => Gone(i)'
  BY <1>5, GoneStays
<1>16. \A m, i : Stale(m, i)' => Stale(m, i) /\ m.type \in StateTypes
  BY DEF Evolves, Stale, About
<1>17. (excused => excused') /\ c.id <= issued
  BY <1>8 DEF Evolves, Fits
<1>13. ASSUME NEW i, Settled(u, i) PROVE Settled(u, i)'
  <2>1. c.id = i /\ (excused' \/ (c.state = "UNPAIRING" /\ ~wk'[u].busy))
    BY <1>4, <1>5, <1>13, <1>17 DEF Settled
  <2>2. ASSUME NEW k \in DOMAIN e PROVE ~Stale(e[k], i)'
    <3>1. CASE k <= n
      <4>1. k \in DOMAIN down[u] /\ e[k] = down[u][k]
        BY <1>1, <1>7, <3>1
      <4>2. ~Stale(e[k], i)
        BY <1>13, <4>1 DEF Settled
      <4> QED
        BY <1>16, <4>2
    <3>2. CASE k > n
      <4>1. e[k].type \in StateTypes => ~Stale(e[k], c.id)'
        BY <1>9, <1>11, <1>17, <2>1, <3>2
      <4> QED
        BY <1>16, <2>1, <4>1
    <3> QED
      BY <1>6, <3>1, <3>2
  <2> QED
    BY <1>2, <1>4, <2>1, <2>2 DEF Settled, Stale, About
<1>14. ASSUME NEW x \in AnyRoute, Fits(u, x), x.id \in RouteIds, Gone(x.id)'
       PROVE  Gone(x.id) \/ Settled(u, x.id)
  <2>1. PICK i \in RouteIds : i = x.id
    BY <1>14
  <2>2. Gone(i) \/ \E r \in routes : r.id = i /\ \A v \in Pair(r) : Settled(v, i)
    BY <1>14, <2>1 DEF Evolves
  <2>3. \A r \in routes : r.id = i => u \in Pair(r)
    BY <1>14, <2>1 DEF Fits
  <2> QED
    BY <2>1, <2>2, <2>3
<1>15. \A k \in DOMAIN e, i \in RouteIds : k > n /\ Offers(e[k], i) => ~Gone(i)'
  BY <1>11, OffersAreNews DEF Offers
<1>20. NewsFit(u)'
  BY <1>2, <1>4, <1>9, <1>10 DEF NewsFit
<1>21. NewsInOrder(u)'
  <2>1. ASSUME NEW j \in DOMAIN e, NEW k \in DOMAIN e, j < k, e[j].type \in StateTypes,
               e[j].route.state = "UNPAIRING"
        PROVE  ~Stale(e[k], e[j].route.id)'
    <3>2. CASE k <= n
      <4>1. j <= n
        BY <1>6, <2>1, <3>2
      <4>2. j \in DOMAIN d /\ k \in DOMAIN d /\ e[j] = d[j] /\ e[k] = d[k]
        BY <1>7, <3>2, <4>1
      <4>3. ~Stale(e[k], e[j].route.id)
        BY <1>1, <2>1, <4>2 DEF Knows, NewsInOrder
      <4> QED
        BY <1>16, <4>3
    <3>3. CASE k > n /\ e[k].type \in StateTypes
      <4>1. PICK x \in AnyRoute : x = e[j].route /\ Fits(u, x)'
        BY <1>10, <2>1
      <4>2. CASE j <= n
        <5>1. x.id <= issued
          BY <1>7, <1>8, <2>1, <4>1, <4>2 DEF Fits
        <5>2. ~Stale(e[k], x.id)'
          BY <1>11, <2>1, <3>3, <4>1, <5>1
        <5> QED
          BY <4>1, <5>2
      <4>3. CASE j > n
        <5>1. x \in routes'
          BY <1>11, <2>1, <4>1, <4>3, IdsAreNumbers
        <5>2. ~Stale(e[k], x.id)'
          BY <1>11, <2>1, <3>3, <4>1, <5>1
        <5> QED
          BY <4>1, <5>2
      <4> QED
        BY <1>6, <4>2, <4>3
    <3>4. CASE e[k].type \notin StateTypes
      BY <1>16, <3>4
    <3> QED
      BY <1>6, <3>2, <3>3, <3>4
  <2> QED
    BY <1>2, <2>1 DEF NewsInOrder, Stale, About
<1>22. CopyInOrder(u)'
  <2>1. ASSUME c.state = "UNPAIRING", NEW k \in DOMAIN e, k > owed[u]
        PROVE  ~Stale(e[k], c.id)'
    <3>1. CASE k <= n
      <4>1. k \in DOMAIN down[u] /\ e[k] = down[u][k]
        BY <1>1, <1>7, <3>1
      <4>2. ~Stale(e[k], c.id)
        BY <1>4, <2>1, <4>1 DEF Knows, CopyInOrder
      <4> QED
        BY <1>16, <4>2
    <3>2. CASE k > n
      <4>1. e[k].type \in StateTypes => ~Stale(e[k], c.id)'
        BY <1>9, <1>11, <1>17, <2>1, <3>2
      <4> QED
        BY <1>16, <4>1
    <3> QED
      BY <1>6, <3>1, <3>2
  <2> QED
    BY <1>2, <1>4, <1>5, <2>1 DEF CopyInOrder, Stale, About
<1>23. AssertedSettled(u)'
  <2>0. PICK f : f = up'[u]
    OBVIOUS
  <2>1. ASSUME NEW k \in DOMAIN f, f[k].type = "assertion"
        PROVE  Gone(f[k].route)' \/ Settled(u, f[k].route)'
    <3>1. PICK j \in DOMAIN up[u] : f[k] = up[u][j]
      BY <2>0 DEF Hears
    <3>2. PICK i : i = up[u][j].route
      OBVIOUS
    <3>3. Gone(i) \/ Settled(u, i)
      BY <2>1, <3>1, <3>2 DEF Knows, AssertedSettled
    <3>4. Gone(i) => i \in RouteIds
      BY DEF Gone
    <3>5. Gone(i)' \/ Settled(u, i)'
      BY <1>12, <1>13, <3>3, <3>4
    <3> QED
      BY <3>1, <3>2, <3>5
  <2>2. ASSUME NEW i \in RouteIds, assertions'[i][u] # Absent PROVE Settled(u, i)'
    <3>1. assertions[i][u] # Absent \/ Settled(u, i)
      BY <2>2 DEF Evolves
    <3>2. Settled(u, i)
      BY <3>1 DEF Knows, AssertedSettled
    <3> QED
      BY <1>13, <3>2
  <2>3. ASSUME Gone(c.id)' PROVE Settled(u, c.id)'
    <3>1. c.id \in RouteIds
      BY <2>3 DEF Gone
    <3>2. Settled(u, c.id)
      <4>1. Gone(c.id) => Settled(u, c.id)
        BY <1>4 DEF Knows, AssertedSettled
      <4> QED
        BY <1>8, <1>14, <2>3, <3>1, <4>1
    <3> QED
      BY <1>13, <3>2
  <2> QED
    BY <1>4, <2>0, <2>1, <2>2, <2>3 DEF AssertedSettled
<1>24. OffersKnown(u)'
  <2>1. ASSUME NEW k \in DOMAIN e, NEW i \in RouteIds, Gone(i)', Offers(e[k], i) PROVE c.id = i
    <3>1. k <= n
      BY <1>6, <1>15, <2>1
    <3>2. k \in DOMAIN d /\ Offers(d[k], i) /\ d[k].type \in StateTypes /\ d[k].route.id = i
      BY <1>7, <2>1, <3>1, OffersAreNews DEF Offers
    <3>3. PICK x \in AnyRoute : x = d[k].route /\ Fits(u, x) /\ x.id = i
      BY <1>8, <3>2
    <3>4. CASE Gone(i)
      BY <1>1, <1>4, <3>2, <3>4 DEF Knows, OffersKnown
    <3>5. CASE Settled(u, i)
      BY <1>4, <3>5 DEF Settled
    <3> QED
      BY <1>14, <2>1, <3>3, <3>4, <3>5
  <2> QED
    BY <1>2, <1>4, <2>1 DEF OffersKnown, Offers
<1>25. RemovalLast(u)'
  <2>1. ASSUME NEW k \in DOMAIN e, e[k].type = "removed"
        PROVE  Gone(e[k].route)' /\ \A l \in DOMAIN e : l > k => ~Offers(e[l], e[k].route)
    <3>1. PICK i : i = e[k].route
      OBVIOUS
    <3>2. CASE k <= n
      <4>1. k \in DOMAIN d /\ d[k].type = "removed" /\ d[k].route = i
        BY <1>7, <2>1, <3>1, <3>2
      <4>2. Gone(i) /\ \A l \in DOMAIN d : l > k => ~Offers(d[l], i)
        BY <1>1, <4>1 DEF Knows, RemovalLast
      <4>3. i \in RouteIds /\ Gone(i)'
        BY <1>12, <4>2 DEF Gone
      <4>4. ASSUME NEW l \in DOMAIN e, l > k PROVE ~Offers(e[l], i)
        <5>1. CASE l <= n
          BY <1>7, <4>2, <4>4, <5>1
        <5>2. CASE l > n
          BY <1>15, <4>3, <5>2
        <5> QED
          BY <1>6, <5>1, <5>2
      <4> QED
        BY <3>1, <4>3, <4>4
    <3>3. CASE k > n
      <4>1. PICK m \in Tidings(u) : m = e[k]
        BY <1>7, <3>3
      <4>2. m.type = "removed" /\ m.route = i
        BY <2>1, <3>1, <4>1
      <4>3. Gone(i)'
        BY <4>1, <4>2 DEF Tidings, True
      <4>4. i \in RouteIds
        BY <4>3 DEF Gone
      <4>5. \A l \in DOMAIN e : l > k => l > n
        BY <1>6, <3>3
      <4> QED
        BY <1>15, <3>1, <4>3, <4>4, <4>5
    <3> QED
      BY <1>6, <3>2, <3>3
  <2> QED
    BY <1>2, <2>1 DEF RemovalLast, Offers
<1>26. ReplyLast(u)'
  <2>1. ASSUME NEW k \in DOMAIN e, e[k].type = "assertion_result", k > n
        PROVE  k = n + 1 /\ c.id \in RouteIds /\ ~Gone(c.id) /\ Gone(c.id)'
    <3>1. k = n + 1
      BY <1>7, <2>1 DEF Replies
    <3>2. PICK m \in Tidings(u) : m = e[k]
      BY <1>7, <2>1
    <3>3. m.type = "assertion_result"
      BY <2>1, <3>2
    <3>4. PICK i \in RouteIds : up[u] # <<>> /\ Head(up[u]).type = "assertion" /\ i = Head(up[u]).route /\ ~Gone(i) /\ Gone(i)'
      BY <3>2, <3>3 DEF Tidings, True
    <3>5. up[u] \in Seq(Upward)
      BY DEF RuntimeInv
    <3>6. 1 \in DOMAIN up[u] /\ Head(up[u]) = up[u][1]
      BY <3>4, <3>5
    <3>7. Settled(u, i)
      BY <3>4, <3>6 DEF Knows, AssertedSettled
    <3>8. c.id = i
      BY <1>4, <3>7 DEF Settled
    <3> QED
      BY <3>1, <3>4, <3>8
  <2>2. ASSUME NEW k \in DOMAIN e, e[k].type = "assertion_result", k <= n
        PROVE  /\ k \in DOMAIN d /\ d[k].type = "assertion_result"
               /\ Gone(c.id) /\ c.id \in RouteIds /\ Gone(c.id)'
               /\ \A l \in DOMAIN d : l > k => ~Offers(d[l], c.id)
               /\ \A l \in DOMAIN d : d[l].type = "assertion_result" => l = k
               /\ \A l \in DOMAIN d : l < k => ~NoRouteNews(d[l]) /\ (d[l].type = "removed" => d[l].route # c.id)
    <3>1. k \in DOMAIN down[u] /\ down[u][k].type = "assertion_result"
      BY <1>1, <1>7, <2>2
    <3>2. /\ Gone(c.id)
          /\ \A l \in DOMAIN d : l > k => ~Offers(d[l], c.id)
          /\ \A l \in DOMAIN d : d[l].type = "assertion_result" => l = k
          /\ \A l \in DOMAIN d : l < k => ~NoRouteNews(d[l]) /\ (d[l].type = "removed" => d[l].route # c.id)
      BY <1>1, <1>4, <3>1 DEF Knows, ReplyLast
    <3>3. c.id \in RouteIds
      BY <3>2 DEF Gone
    <3> QED
      BY <1>1, <1>12, <3>1, <3>2, <3>3
  <2>3. ASSUME NEW k \in DOMAIN e, e[k].type = "assertion_result"
        PROVE  /\ Gone(c.id)'
               /\ \A l \in DOMAIN e : l > k => ~Offers(e[l], c.id)
               /\ \A l \in DOMAIN e : e[l].type = "assertion_result" => l = k
               /\ \A l \in DOMAIN e : l < k => ~NoRouteNews(e[l]) /\ (e[l].type = "removed" => e[l].route # c.id)
    <3>1. CASE k <= n
      <4>1. ASSUME NEW l \in DOMAIN e, l > k PROVE ~Offers(e[l], c.id)
        <5>1. CASE l <= n
          BY <1>7, <2>2, <2>3, <3>1, <4>1, <5>1
        <5>2. CASE l > n
          BY <1>15, <2>2, <2>3, <3>1, <5>2
        <5> QED
          BY <1>6, <5>1, <5>2
      <4>2. ASSUME NEW l \in DOMAIN e, e[l].type = "assertion_result" PROVE l = k
        <5>1. CASE l <= n
          BY <1>7, <2>2, <2>3, <3>1, <4>2, <5>1
        <5>2. CASE l > n
          BY <2>1, <2>2, <2>3, <3>1, <4>2, <5>2
        <5> QED
          BY <1>6, <5>1, <5>2
      <4>3. ASSUME NEW l \in DOMAIN e, l < k PROVE ~NoRouteNews(e[l]) /\ (e[l].type = "removed" => e[l].route # c.id)
        <5>1. l <= n
          BY <1>6, <3>1, <4>3
        <5> QED
          BY <1>7, <2>2, <2>3, <3>1, <4>3, <5>1
      <4> QED
        BY <2>2, <2>3, <3>1, <4>1, <4>2, <4>3
    <3>2. CASE k > n
      <4>0. k = n + 1 /\ c.id \in RouteIds /\ ~Gone(c.id) /\ Gone(c.id)'
        BY <2>1, <2>3, <3>2
      <4>1. ASSUME NEW l \in DOMAIN e, l > k PROVE ~Offers(e[l], c.id)
        <5>1. l > n
          BY <1>6, <3>2, <4>1
        <5> QED
          BY <1>15, <4>0, <5>1
      <4>2. ASSUME NEW l \in DOMAIN e, e[l].type = "assertion_result" PROVE l = k
        <5>1. CASE l <= n
          BY <2>2, <4>0, <4>2, <5>1
        <5>2. CASE l > n
          BY <2>1, <4>0, <4>2, <5>2
        <5> QED
          BY <1>6, <5>1, <5>2
      <4>3. ASSUME NEW l \in DOMAIN e, l < k PROVE ~NoRouteNews(e[l]) /\ (e[l].type = "removed" => e[l].route # c.id)
        <5>1. l <= n
          BY <1>6, <4>0, <4>3
        <5>2. l \in DOMAIN down[u] /\ e[l] = down[u][l]
          BY <1>1, <1>7, <5>1
        <5>3. NoRouteNews(e[l]) => Gone(c.id) \/ c = NoRoute
          BY <1>4, <5>2 DEF Knows, AbsenceLast
        <5>4. e[l].type = "removed" => Gone(e[l].route)
          BY <5>2 DEF Knows, RemovalLast
        <5>5. c # NoRoute
          BY <4>0, IdsAreNumbers
        <5> QED
          BY <4>0, <5>3, <5>4, <5>5
      <4> QED
        BY <4>0, <4>1, <4>2, <4>3
    <3> QED
      BY <1>6, <3>1, <3>2
  <2> QED
    BY <1>2, <1>4, <2>3 DEF ReplyLast, NoRouteNews, Offers
<1>27. AbsenceLast(u)'
  <2>1. ASSUME NEW k \in DOMAIN e, NoRouteNews(e[k])
        PROVE  /\ c # NoRoute => Gone(c.id)' /\ \A l \in DOMAIN e : l > k => ~Offers(e[l], c.id)
               /\ \A l \in DOMAIN e, i \in RouteIds : l < k /\ Offers(e[l], i) => Gone(i)'
    <3>0. c # NoRoute => c.id \in RouteIds
      BY IdsAreNumbers
    <3>1. CASE k <= n
      <4>1. k \in DOMAIN down[u] /\ NoRouteNews(down[u][k])
        BY <1>1, <1>7, <2>1, <3>1
      <4>2. /\ c # NoRoute => Gone(c.id) /\ \A l \in DOMAIN d : l > k => ~Offers(d[l], c.id)
            /\ \A l \in DOMAIN d, i \in RouteIds : l < k /\ Offers(d[l], i) => Gone(i)
        BY <1>1, <1>4, <4>1 DEF Knows, AbsenceLast
      <4>3. c # NoRoute => Gone(c.id)'
        BY <1>12, <3>0, <4>2
      <4>4. ASSUME c # NoRoute, NEW l \in DOMAIN e, l > k PROVE ~Offers(e[l], c.id)
        <5>1. CASE l <= n
          BY <1>7, <4>2, <4>4, <5>1
        <5>2. CASE l > n
          BY <1>15, <3>0, <4>3, <4>4, <5>2
        <5> QED
          BY <1>6, <5>1, <5>2
      <4>5. ASSUME NEW l \in DOMAIN e, NEW i \in RouteIds, l < k, Offers(e[l], i) PROVE Gone(i)'
        <5>1. l <= n
          BY <1>6, <3>1, <4>5
        <5> QED
          BY <1>7, <1>12, <4>2, <4>5, <5>1
      <4> QED
        BY <4>3, <4>4, <4>5
    <3>2. CASE k > n
      <4>1. PICK m \in Tidings(u) : m = e[k]
        BY <1>7, <3>2
      <4>2. m.type = "sync_result" /\ m.route = NoRoute
        BY <2>1, <4>1 DEF NoRouteNews
      <4>3. \A r \in routes' : u \notin Pair(r)
        BY <4>1, <4>2 DEF Tidings, True
      <4>4. ASSUME NEW x \in AnyRoute, x.id \in RouteIds, Fits(u, x)' PROVE Gone(x.id)'
        BY <4>3, <4>4 DEF Fits, Gone
      <4>5. c # NoRoute => Gone(c.id)'
        BY <1>9, <3>0, <4>4
      <4>6. ASSUME c # NoRoute, NEW l \in DOMAIN e, l > k PROVE ~Offers(e[l], c.id)
        <5>1. l > n
          BY <1>6, <3>2, <4>6
        <5> QED
          BY <1>15, <3>0, <4>5, <4>6, <5>1
      <4>7. ASSUME NEW l \in DOMAIN e, NEW i \in RouteIds, l < k, Offers(e[l], i) PROVE Gone(i)'
        <5>1. PICK x \in AnyRoute : x = e[l].route /\ Fits(u, x)' /\ x.id = i
          BY <1>10, <4>7, OffersAreNews DEF Offers
        <5> QED
          BY <4>4, <5>1
      <4> QED
        BY <4>5, <4>6, <4>7
    <3> QED
      BY <1>6, <3>1, <3>2
  <2> QED
    BY <1>2, <1>4, <2>1 DEF AbsenceLast, NoRouteNews, Offers
<1>28. BusyRouted(u)'
  BY <1>4, <1>5, <1>17 DEF Knows, BusyRouted
<1> QED
  BY <1>20, <1>21, <1>22, <1>23, <1>24, <1>25, <1>26, <1>27, <1>28 DEF Knows

LEMMA LedgerRests ==
    ASSUME LedgerInv, UNCHANGED <<routes, issued, assertions, excused>>
    PROVE  Evolves
<1>1. \A i \in RouteIds : Gone(i)' => Gone(i)
  BY DEF Gone
<1>2. issued <= issued'
  BY IssuedNumbers
<1>3. \A s \in routes' : s \in routes /\ SameRoute(s, s)
  BY DEF SameRoute
<1> QED
  BY <1>1, <1>2, <1>3 DEF Evolves

LEMMA NothingHeard ==
    ASSUME RuntimeInv, NEW u \in Workers, wk'[u] = wk[u], owed'[u] = owed[u], down'[u] = down[u], up'[u] = up[u]
    PROVE  Hears(u)
<1>1. down[u] \in Seq(Downward)
  BY DEF RuntimeInv
<1> QED
  BY <1>1, SameGrows DEF Hears

\* A session begins or ends: what was on its way to the Worker is lost.
Forgets(u) ==
    /\ wk'[u].route = wk[u].route /\ wk'[u].busy = wk[u].busy
    /\ down'[u] = <<>>
    /\ \A k \in DOMAIN up'[u] : up'[u][k].type = "assertion" => \E j \in DOMAIN up[u] : up'[u][k] = up[u][j]
    /\ UNCHANGED <<routes, issued, assertions, excused>>

LEMMA ForgetsKnows ==
    ASSUME RuntimeInv, NEW u \in Workers, Forgets(u), Knows(u)
    PROVE  Knows(u)'
<1>1. PICK c : c = wk[u].route /\ c = wk'[u].route
  BY DEF Forgets
<1>2. wk'[u].busy = wk[u].busy /\ DOMAIN down'[u] = {} /\ UNCHANGED <<routes, issued, assertions, excused>>
  BY DEF Forgets
<1>3. \A i : Gone(i)' <=> Gone(i)
  BY <1>2 DEF Gone
<1>4. ASSUME NEW i, Settled(u, i) PROVE Settled(u, i)'
  BY <1>1, <1>2, <1>4 DEF Settled
<1>5. NewsFit(u)'
  <2>1. Fits(u, c)
    BY <1>1 DEF Knows, NewsFit
  <2>2. Fits(u, c)'
    BY <1>2, <2>1 DEF Fits
  <2> QED
    BY <1>1, <1>2, <2>2 DEF NewsFit
<1>6. AssertedSettled(u)'
  <2>0. PICK f : f = up'[u]
    OBVIOUS
  <2>1. ASSUME NEW k \in DOMAIN f, f[k].type = "assertion" PROVE Gone(f[k].route)' \/ Settled(u, f[k].route)'
    <3>1. PICK j \in DOMAIN up[u] : f[k] = up[u][j]
      BY <2>0, <2>1 DEF Forgets
    <3>2. Gone(f[k].route) \/ Settled(u, f[k].route)
      BY <2>1, <3>1 DEF Knows, AssertedSettled
    <3> QED
      BY <1>3, <1>4, <3>2
  <2>2. ASSUME NEW i \in RouteIds, assertions'[i][u] # Absent PROVE Settled(u, i)'
    BY <1>2, <1>4, <2>2 DEF Knows, AssertedSettled
  <2>3. Gone(c.id)' => Settled(u, c.id)'
    BY <1>1, <1>3, <1>4 DEF Knows, AssertedSettled
  <2> QED
    BY <1>1, <2>0, <2>1, <2>2, <2>3 DEF AssertedSettled
<1>7. NewsInOrder(u)' /\ CopyInOrder(u)' /\ OffersKnown(u)' /\ RemovalLast(u)' /\ ReplyLast(u)' /\ AbsenceLast(u)'
  BY <1>2 DEF NewsInOrder, CopyInOrder, OffersKnown, RemovalLast, ReplyLast, AbsenceLast
<1>8. BusyRouted(u)'
  BY <1>1, <1>2 DEF Knows, BusyRouted
<1> QED
  BY <1>5, <1>6, <1>7, <1>8 DEF Knows

\* What is appended to the messages of a Worker.
LEMMA Appended ==
    ASSUME NEW T, NEW s \in Seq(T), NEW t \in Seq(T), NEW f, f = s \o t
    PROVE  \A k \in DOMAIN f : (\E j \in DOMAIN s : f[k] = s[j]) \/ (\E j \in DOMAIN t : f[k] = t[j])
<1>1. PICK n \in Nat : n = Len(s)
  OBVIOUS
<1>2. PICK p \in Nat : p = Len(t)
  OBVIOUS
<1>3. /\ DOMAIN f = 1 .. (n + p) /\ DOMAIN s = 1 .. n /\ DOMAIN t = 1 .. p
      /\ \A k \in 1 .. (n + p) : f[k] = IF k <= n THEN s[k] ELSE t[k - n]
  BY <1>1, <1>2
<1>4. \A k \in 1 .. (n + p) : k <= n => k \in 1 .. n
  OBVIOUS
<1>5. \A k \in 1 .. (n + p) : ~(k <= n) => k - n \in 1 .. p
  OBVIOUS
<1> QED
  BY <1>3, <1>4, <1>5

\* A Worker that acts by itself: it asserts only when it is settled.
LEMMA ActsKnows ==
    ASSUME RuntimeInv, NEW w \in Workers, Acts(w), excused' = excused, Knows(w)
    PROVE  Knows(w)'
<1>1. PICK rec, ms : Moves(w, rec, ms) /\ Act(w, rec, ms)
  BY DEF Acts
<1>2. PICK c \in AnyRoute : c = wk[w].route
  BY DEF RuntimeInv, Sound, Runtimes
<1>3. wk'[w] = rec /\ rec.route = c /\ (rec.busy => wk[w].busy \/ (c # NoRoute /\ c.state = "ACTIVE"))
  BY <1>1, <1>2 DEF Moves, Act, RuntimeInv
<1>4. owed[w] = 0 /\ owed' = owed /\ down' = down /\ UNCHANGED <<routes, issued, assertions, excused>>
  BY <1>1 DEF Act, ledger, pairing, unpair
<1>5. PICK d \in Seq(Downward) : d = down[w] /\ d = down'[w]
  BY <1>4 DEF RuntimeInv
<1>6. \A i : Gone(i)' <=> Gone(i)
  BY <1>4 DEF Gone
<1>7. ASSUME NEW i, Settled(w, i) PROVE Settled(w, i)'
  BY <1>2, <1>3, <1>4, <1>5, <1>7 DEF Settled, Stale, About
<1>8. AssertedSettled(w)'
  <2>0. PICK f : f = up'[w]
    OBVIOUS
  <2>1. up[w] \in Seq(Upward) /\ ms \in Seq(Upward) /\ f = up[w] \o ms
    BY <1>1, <2>0 DEF RuntimeInv, Moves, Act
  <2>2. ASSUME NEW k \in DOMAIN f, f[k].type = "assertion" PROVE Gone(f[k].route)' \/ Settled(w, f[k].route)'
    <3>1. CASE \E j \in DOMAIN up[w] : f[k] = up[w][j]
      <4>1. Gone(f[k].route) \/ Settled(w, f[k].route)
        BY <2>2, <3>1 DEF Knows, AssertedSettled
      <4> QED
        BY <1>6, <1>7, <4>1
    <3>2. CASE \E j \in DOMAIN ms : f[k] = ms[j]
      <4>1. ms \notin Plain
        BY <2>2, <3>2 DEF Plain
      <4>2. Asserts(w, ms)
        BY <1>1, <4>1 DEF Moves
      <4>3. PICK m \in Upward : ms = <<m>> /\ m.route = c.id
        BY <1>2, <4>2 DEF Asserts
      <4>4. f[k].route = c.id
        BY <3>2, <4>3
      <4>5. c.state = "UNPAIRING" /\ ~wk[w].busy
        BY <1>2, <4>2 DEF Asserts
      <4>6. DOMAIN d \subseteq 1 .. Len(d)
        OBVIOUS
      <4>7. \A k1 \in DOMAIN d : ~Stale(d[k1], c.id)
        BY <1>2, <1>4, <1>5, <4>5, <4>6 DEF Knows, CopyInOrder
      <4>8. Settled(w, c.id)
        BY <1>2, <1>5, <4>5, <4>7 DEF Settled
      <4> QED
        BY <1>7, <4>4, <4>8
    <3> QED
      BY <2>1, <3>1, <3>2, Appended
  <2>3. ASSUME NEW i \in RouteIds, assertions'[i][w] # Absent PROVE Settled(w, i)'
    BY <1>4, <1>7, <2>3 DEF Knows, AssertedSettled
  <2>4. Gone(c.id)' => Settled(w, c.id)'
    BY <1>2, <1>6, <1>7 DEF Knows, AssertedSettled
  <2> QED
    BY <1>3, <2>0, <2>2, <2>3, <2>4 DEF AssertedSettled
<1>9. NewsFit(w)'
  <2>1. \A x : Fits(w, x) => Fits(w, x)'
    BY <1>4 DEF Fits
  <2>2. Fits(w, c) /\ \A k \in DOMAIN d : d[k].type \in StateTypes => Fits(w, d[k].route)
    BY <1>2, <1>5 DEF Knows, NewsFit
  <2> QED
    BY <1>3, <1>5, <2>1, <2>2 DEF NewsFit
<1>10. NewsInOrder(w)' /\ CopyInOrder(w)'
  BY <1>2, <1>3, <1>4, <1>5 DEF Knows, NewsInOrder, CopyInOrder, Stale, About
<1>11. OffersKnown(w)'
  BY <1>2, <1>3, <1>5, <1>6 DEF Knows, OffersKnown
<1>12. RemovalLast(w)'
  BY <1>5, <1>6 DEF Knows, RemovalLast
<1>13. ReplyLast(w)'
  BY <1>2, <1>3, <1>5, <1>6 DEF Knows, ReplyLast
<1>14. AbsenceLast(w)'
  BY <1>2, <1>3, <1>5, <1>6 DEF Knows, AbsenceLast
<1>15. BusyRouted(w)'
  BY <1>2, <1>3, <1>4 DEF Knows, BusyRouted
<1> QED
  BY <1>8, <1>9, <1>10, <1>11, <1>12, <1>13, <1>14, <1>15 DEF Knows

\* A Worker that serves its k-th message.
LEMMA HandlesKnows ==
    ASSUME RuntimeInv, NEW w \in Workers, NEW k \in DOMAIN down[w], Handles(w, k), Knows(w)
    PROVE  Knows(w)'
<1>1. PICK rec, ms : Turns(w, down[w][k], rec) /\ ms \in Plain /\ Serve(w, k, rec, ms)
  BY DEF Handles
<1>2. PICK d \in Seq(Downward) : d = down[w]
  BY DEF RuntimeInv
<1>3. PICK m \in Downward : m = d[k]
  BY <1>2
<1>4. PICK e : e = down'[w]
  OBVIOUS
<1>5. PICK n \in Nat : n = Len(d)
  OBVIOUS
<1>6. PICK o \in Nat : o = owed[w]
  BY DEF RuntimeInv
<1>7. PICK c \in AnyRoute : c = wk[w].route
  BY DEF RuntimeInv, Sound, Runtimes
<1>8. PICK b \in AnyRoute : b = rec.route
  BY <1>1 DEF Turns, Sound, Runtimes
<1>9. wk'[w] = rec /\ rec.busy = wk[w].busy /\ UNCHANGED <<routes, issued, assertions, excused>>
  BY <1>1 DEF Turns, Serve, RuntimeInv, ledger, pairing, unpair, counts
<1>10. k \in DOMAIN d /\ k \in Nat /\ DOMAIN d = 1 .. n /\ DOMAIN d \subseteq Nat
  BY <1>2, <1>5
<1>11. k = 1 \/ (o = 0 /\ \A j \in DOMAIN d : j < k => d[j].type \notin Replies)
  <2>1. k = 1 \/ (o = 0 /\ \A j \in 1 .. (k - 1) : d[j].type \notin Replies)
    BY <1>2, <1>6 DEF Handles, Served
  <2>2. \A j \in DOMAIN d : j < k => j \in 1 .. (k - 1)
    BY <1>10
  <2> QED
    BY <2>1, <2>2
<1>12. m.type \notin Replies => k = 1
  BY <1>2, <1>3 DEF Handles, Served
\* Where the messages of e were in d.
<1> DEFINE at(j) == IF j < k THEN j ELSE j + 1
<1>13. \A j \in DOMAIN e : j \in Nat /\ at(j) \in DOMAIN d /\ e[j] = d[at(j)] /\ at(j) # k
  <2>1. PICK q : q = SubSeq(d, 1, k - 1) \o SubSeq(d, k + 1, Len(d))
    OBVIOUS
  <2>2. e = q
    BY <1>1, <1>2, <1>4, <2>1 DEF Serve, RuntimeInv
  <2>3. k \in 1 .. Len(d)
    BY <1>5, <1>10
  <2>4. /\ q \in Seq(Downward) /\ DOMAIN q = 1 .. Len(q)
        /\ \A j \in DOMAIN q : j < k => j \in DOMAIN d /\ q[j] = d[j]
        /\ \A j \in DOMAIN q : j >= k => j + 1 \in DOMAIN d /\ q[j] = d[j + 1]
    BY <2>1, <2>3, TakenOut
  <2>5. \A j \in DOMAIN q : j \in Nat
    BY <2>4
  <2>6. \A j \in DOMAIN q : j < k => at(j) = j
    OBVIOUS
  <2>7. \A j \in DOMAIN q : ~(j < k) => j >= k /\ at(j) = j + 1
    BY <1>10, <2>5
  <2>8. \A j \in Nat : at(j) # k
    BY <1>10
  <2> HIDE DEF at
  <2> QED
    BY <2>2, <2>4, <2>5, <2>6, <2>7, <2>8
<1>14. \A i, j \in Nat : (i < j <=> at(i) < at(j)) /\ (i > j <=> at(i) > at(j)) /\ (at(i) = at(j) => i = j) /\ at(i) \in Nat
  BY <1>10
<1>15. \A j \in DOMAIN e : j > owed'[w] => at(j) > k /\ at(j) > o
  <2>1. owed'[w] = IF k > 1 THEN k - 1 ELSE IF o > 0 THEN o - 1 ELSE 0
    BY <1>1, <1>6 DEF Serve, RuntimeInv
  <2> QED
    BY <1>10, <1>11, <1>13, <2>1
<1> HIDE DEF at
<1>16. \A i : Gone(i)' <=> Gone(i)
  BY <1>9 DEF Gone
<1>17. \A x : Fits(w, x) => Fits(w, x)'
  BY <1>9 DEF Fits
<1>18. \/ b = c
       \/ /\ m.type \in StateTypes /\ m.route \in Route /\ m.route.id = c.id
          /\ b.id = c.id /\ b.leader = c.leader /\ b.follower = c.follower /\ b.state = m.route.state
       \/ m.type \in OfferTypes /\ m.route \in Route /\ c = NoRoute /\ b = m.route
       \/ b = NoRoute /\ GivesUp(w, m)
  BY <1>1, <1>2, <1>3, <1>7, <1>8 DEF Turns, SameRoute
<1>19. ~Gone(0) /\ NoRoute.id = 0 /\ NoRoute.state = "ACTIVE"
  BY IdsAreNumbers DEF Gone
\* A route that is adopted is not gone.
<1>20. ASSUME m.type \in OfferTypes, c = NoRoute PROVE ~Gone(m.route.id)
  <2>1. ASSUME Gone(m.route.id) PROVE FALSE
    <3>1. PICK i \in RouteIds : i = m.route.id
      BY <2>1 DEF Gone
    <3>2. Offers(d[k], i)
      BY <1>3, <1>20, <3>1 DEF Offers
    <3>3. c.id = i
      BY <1>2, <1>7, <1>10, <2>1, <3>1, <3>2 DEF Knows, OffersKnown
    <3> QED
      BY <1>19, <1>20, <3>3, IdsAreNumbers
  <2> QED
    BY <2>1
\* A route that is given up is gone, the Worker is settled, and no offer of it
\* nor a reply to an assertion is left.
<1>21. ASSUME GivesUp(w, m)
       PROVE  /\ Gone(c.id) /\ Settled(w, c.id)
              /\ \A j \in DOMAIN d : j # k => ~Offers(d[j], c.id) /\ d[j].type # "assertion_result"
  <2>1. m.type = "assertion_result" \/ (m.type = "removed" /\ m.route = c.id) \/ (NoRouteNews(m) /\ c # NoRoute)
    BY <1>7, <1>19, <1>21 DEF GivesUp, NoRouteNews
  <2>2. Gone(c.id) /\ \A j \in DOMAIN d : j > k => ~Offers(d[j], c.id)
    <3>1. CASE m.type = "assertion_result"
      BY <1>2, <1>3, <1>7, <1>10, <3>1 DEF Knows, ReplyLast
    <3>2. CASE m.type = "removed" /\ m.route = c.id
      BY <1>2, <1>3, <1>10, <3>2 DEF Knows, RemovalLast
    <3>3. CASE NoRouteNews(m) /\ c # NoRoute
      BY <1>2, <1>3, <1>7, <1>10, <3>3 DEF Knows, AbsenceLast
    <3> QED
      BY <2>1, <3>1, <3>2, <3>3
  <2>3. Settled(w, c.id)
    BY <1>7, <2>2 DEF Knows, AssertedSettled
  <2>4. ASSUME NEW j \in DOMAIN d, j < k PROVE ~Offers(d[j], c.id) /\ d[j].type # "assertion_result"
    <3>1. k # 1
      BY <1>10, <2>4
    <3>2. d[j].type \notin Replies
      BY <1>11, <2>4, <3>1
    <3>3. ASSUME Offers(d[j], c.id) PROVE FALSE
      <4>1. d[j].type = "established"
        BY <3>2, <3>3 DEF Offers, OfferTypes, Replies
      <4>2. About(d[j], c.id)
        BY <3>3, OffersAreNews DEF Offers, About
      <4> QED
        BY <1>2, <2>3, <4>1, <4>2 DEF Settled, Stale
    <3> QED
      BY <3>2, <3>3 DEF Replies
  <2>5. ASSUME NEW j \in DOMAIN d, j > k, d[j].type = "assertion_result" PROVE FALSE
    <3>1. /\ \A l \in DOMAIN d : d[l].type = "assertion_result" => l = j
          /\ ~NoRouteNews(d[k]) /\ (d[k].type = "removed" => d[k].route # c.id)
      BY <1>2, <1>7, <1>10, <2>5 DEF Knows, ReplyLast
    <3>2. m.type # "assertion_result"
      BY <1>3, <1>10, <2>5, <3>1
    <3> QED
      BY <1>3, <2>1, <3>1, <3>2
  <2> QED
    BY <1>10, <2>2, <2>3, <2>4, <2>5
\* A settled Worker stays so, unless it gives its route up.
<1>22. ASSUME NEW i \in RouteIds, Settled(w, i), b # NoRoute PROVE Settled(w, i)'
  <2>1. c.id = i /\ (excused \/ (c.state = "UNPAIRING" /\ ~wk[w].busy))
    BY <1>7, <1>22 DEF Settled
  <2>2. b.id = i /\ (excused \/ b.state = "UNPAIRING")
    <3>1. ASSUME m.type \in StateTypes, m.route.id = c.id PROVE excused \/ m.route.state = "UNPAIRING"
      BY <1>2, <1>3, <1>10, <1>22, <2>1, <3>1 DEF Settled, Stale, About
    <3>2. ASSUME c = NoRoute, m.route \in Route, b = m.route, m.type \in OfferTypes PROVE FALSE
      <4>1. i \notin RouteIds
        BY <1>19, <2>1, <3>2, IdsAreNumbers
      <4> QED
        BY <1>22, <4>1
    <3> QED
      BY <1>18, <1>19, <1>22, <2>1, <3>1, <3>2
  <2>3. \A j \in DOMAIN e : ~Stale(e[j], i)
    BY <1>2, <1>13, <1>22 DEF Settled
  <2> QED
    BY <1>4, <1>8, <1>9, <2>1, <2>2, <2>3 DEF Settled, Stale, About
<1>23. NewsFit(w)'
  <2>1. Fits(w, c) /\ \A j \in DOMAIN d : d[j].type \in StateTypes => Fits(w, d[j].route)
    BY <1>2, <1>7 DEF Knows, NewsFit
  <2>2. Fits(w, b)
    <3>1. Fits(w, NoRoute)
      <4>1. issued \in Nat /\ \A r \in routes : r.id # 0
        BY IssuedNumbers, IdsAreNumbers DEF RuntimeInv
      <4> QED
        BY <1>19, <4>1 DEF Fits
    <3>2. m.type \in StateTypes => Fits(w, m.route)
      BY <1>3, <1>10, <2>1
    <3>3. CASE /\ m.type \in StateTypes /\ m.route.id = c.id
               /\ b.id = c.id /\ b.leader = c.leader /\ b.follower = c.follower /\ b.state = m.route.state
      BY <2>1, <3>2, <3>3 DEF Fits
    <3> QED
      BY <1>18, <2>1, <3>1, <3>2, <3>3, OffersAreNews
  <2>3. Fits(w, b)'
    BY <1>17, <2>2
  <2>4. ASSUME NEW j \in DOMAIN e, e[j].type \in StateTypes PROVE Fits(w, e[j].route)'
    <3>1. Fits(w, e[j].route)
      BY <1>13, <2>1, <2>4
    <3> QED
      BY <1>17, <3>1
  <2> QED
    BY <1>4, <1>8, <1>9, <2>3, <2>4 DEF NewsFit
<1>24. NewsInOrder(w)'
  <2>1. ASSUME NEW i \in DOMAIN e, NEW j \in DOMAIN e, i < j, e[i].type \in StateTypes,
               e[i].route.state = "UNPAIRING"
        PROVE  ~Stale(e[j], e[i].route.id)
    <3>1. at(i) \in DOMAIN d /\ at(j) \in DOMAIN d /\ at(i) < at(j) /\ e[i] = d[at(i)] /\ e[j] = d[at(j)]
      BY <1>13, <1>14, <2>1
    <3> QED
      BY <1>2, <2>1, <3>1 DEF Knows, NewsInOrder
  <2> QED
    BY <1>4, <1>9, <2>1 DEF NewsInOrder, Stale, About
<1>25. CopyInOrder(w)'
  <2>1. ASSUME b.state = "UNPAIRING", NEW j \in DOMAIN e, j > owed'[w]
        PROVE  ~Stale(e[j], b.id)
    <3>1. at(j) \in DOMAIN d /\ at(j) > k /\ at(j) > o /\ e[j] = d[at(j)]
      BY <1>13, <1>15, <2>1
    <3>2. CASE b = c
      BY <1>2, <1>6, <1>7, <2>1, <3>1, <3>2 DEF Knows, CopyInOrder
    <3>3. CASE m.type \in StateTypes /\ m.route.id = b.id /\ b.state = m.route.state
      <4>1. k < at(j) /\ d[k].type \in StateTypes /\ d[k].route.state = "UNPAIRING" /\ d[k].route.id = b.id
        BY <1>3, <1>10, <1>14, <2>1, <3>1, <3>3
      <4>2. ~Stale(d[at(j)], d[k].route.id)
        BY <1>2, <1>10, <3>1, <4>1 DEF Knows, NewsInOrder
      <4> QED
        BY <3>1, <4>1, <4>2
    <3> QED
      BY <1>18, <1>19, <2>1, <3>2, <3>3, OffersAreNews
  <2> QED
    BY <1>4, <1>8, <1>9, <2>1 DEF CopyInOrder, Stale, About
<1>26. AssertedSettled(w)'
  <2>0. PICK f : f = up'[w]
    OBVIOUS
  <2>1. up[w] \in Seq(Upward) /\ ms \in Seq(Upward) /\ f = up[w] \o ms
    BY <1>1, <2>0 DEF RuntimeInv, Plain, Serve
  <2>2. ASSUME NEW i \in RouteIds, Settled(w, i), ~Gone(i) PROVE Settled(w, i)'
    <3>1. c.id = i /\ c # NoRoute
      BY <1>7, <1>19, <2>2, IdsAreNumbers DEF Settled
    <3>2. b # NoRoute
      BY <1>18, <1>19, <1>21, <2>2, <3>1, RouteIsNot
    <3> QED
      BY <1>22, <2>2, <3>2
  <2>3. ASSUME NEW j \in DOMAIN f, f[j].type = "assertion" PROVE Gone(f[j].route)' \/ Settled(w, f[j].route)'
    <3>1. \E l \in DOMAIN up[w] : f[j] = up[w][l]
      BY <1>1, <2>1, <2>3, Appended DEF Plain
    <3>2. Gone(f[j].route) \/ Settled(w, f[j].route)
      BY <2>3, <3>1 DEF Knows, AssertedSettled
    <3>3. f[j].route \in RouteIds
      <4>1. PICK a \in Upward : a = f[j]
        BY <2>1, <3>1
      <4> QED
        BY <2>3, <4>1 DEF Upward
    <3> QED
      BY <1>16, <2>2, <3>2, <3>3
  <2>4. ASSUME NEW i \in RouteIds, assertions'[i][w] # Absent PROVE Settled(w, i)'
    <3>1. Settled(w, i) /\ assertions[i][w] # Absent
      BY <1>9, <2>4 DEF Knows, AssertedSettled
    <3>2. ~Gone(i)
      BY <3>1 DEF RuntimeInv, LedgerInv, AssertionsBound, Gone
    <3> QED
      BY <2>2, <3>1, <3>2
  <2>5. ASSUME Gone(b.id)' PROVE Settled(w, b.id)'
    <3>1. Gone(b.id) /\ b # NoRoute /\ b.id \in RouteIds
      BY <1>16, <1>19, <2>5 DEF Gone
    <3>2. b.id = c.id
      BY <1>18, <1>20, <3>1
    <3>3. Settled(w, b.id)
      BY <1>7, <3>1, <3>2 DEF Knows, AssertedSettled
    <3> QED
      BY <1>22, <3>1, <3>3
  <2> QED
    BY <1>8, <1>9, <2>0, <2>3, <2>4, <2>5 DEF AssertedSettled
<1>27. OffersKnown(w)'
  <2>1. ASSUME NEW j \in DOMAIN e, NEW i \in RouteIds, Gone(i)', Offers(e[j], i) PROVE b.id = i
    <3>1. Gone(i) /\ at(j) \in DOMAIN d /\ Offers(d[at(j)], i) /\ at(j) # k
      BY <1>13, <1>16, <2>1
    <3>2. c.id = i
      BY <1>2, <1>7, <3>1 DEF Knows, OffersKnown
    <3>3. c # NoRoute
      BY <1>19, <3>1, <3>2
    <3>4. ~GivesUp(w, m)
      BY <1>21, <3>1, <3>2
    <3> QED
      BY <1>18, <3>2, <3>3, <3>4
  <2> QED
    BY <1>4, <1>8, <1>9, <2>1 DEF OffersKnown, Offers
<1>28. RemovalLast(w)'
  <2>1. ASSUME NEW j \in DOMAIN e, e[j].type = "removed"
        PROVE  Gone(e[j].route)' /\ \A l \in DOMAIN e : l > j => ~Offers(e[l], e[j].route)
    <3>1. at(j) \in DOMAIN d /\ d[at(j)].type = "removed" /\ e[j] = d[at(j)]
      BY <1>13, <2>1
    <3>2. Gone(e[j].route) /\ \A l \in DOMAIN d : l > at(j) => ~Offers(d[l], e[j].route)
      BY <1>2, <3>1 DEF Knows, RemovalLast
    <3>3. \A l \in DOMAIN e : l > j => at(l) \in DOMAIN d /\ at(l) > at(j) /\ e[l] = d[at(l)]
      BY <1>13, <1>14
    <3> QED
      BY <1>16, <3>2, <3>3
  <2> QED
    BY <1>4, <2>1 DEF RemovalLast, Offers
<1>29. ReplyLast(w)'
  <2>1. ASSUME NEW j \in DOMAIN e, e[j].type = "assertion_result"
        PROVE  /\ Gone(b.id)'
               /\ \A l \in DOMAIN e : l > j => ~Offers(e[l], b.id)
               /\ \A l \in DOMAIN e : e[l].type = "assertion_result" => l = j
               /\ \A l \in DOMAIN e : l < j => ~NoRouteNews(e[l]) /\ (e[l].type = "removed" => e[l].route # b.id)
    <3>1. at(j) \in DOMAIN d /\ d[at(j)].type = "assertion_result" /\ at(j) # k
      BY <1>13, <2>1
    <3>2. /\ Gone(c.id)
          /\ \A l \in DOMAIN d : l > at(j) => ~Offers(d[l], c.id)
          /\ \A l \in DOMAIN d : d[l].type = "assertion_result" => l = at(j)
          /\ \A l \in DOMAIN d : l < at(j) => ~NoRouteNews(d[l]) /\ (d[l].type = "removed" => d[l].route # c.id)
      BY <1>2, <1>7, <3>1 DEF Knows, ReplyLast
    <3>3. ~GivesUp(w, m) /\ c # NoRoute
      BY <1>19, <1>21, <3>1, <3>2
    <3>4. b.id = c.id
      BY <1>18, <3>3
    <3>5. \A l \in DOMAIN e : /\ at(l) \in DOMAIN d /\ e[l] = d[at(l)] /\ (at(l) = at(j) => l = j)
                              /\ l > j => at(l) > at(j)
                              /\ l < j => at(l) < at(j)
      BY <1>13, <1>14
    <3> QED
      BY <1>16, <3>2, <3>4, <3>5
  <2> QED
    BY <1>4, <1>8, <1>9, <2>1 DEF ReplyLast, Offers, NoRouteNews
<1>30. AbsenceLast(w)'
  <2>1. ASSUME NEW j \in DOMAIN e, NoRouteNews(e[j])
        PROVE  /\ b # NoRoute => Gone(b.id)' /\ \A l \in DOMAIN e : l > j => ~Offers(e[l], b.id)
               /\ \A l \in DOMAIN e, i \in RouteIds : l < j /\ Offers(e[l], i) => Gone(i)'
    <3>1. at(j) \in DOMAIN d /\ NoRouteNews(d[at(j)]) /\ at(j) # k /\ at(j) \in Nat
      BY <1>10, <1>13, <2>1
    <3>2. /\ c # NoRoute => Gone(c.id) /\ \A l \in DOMAIN d : l > at(j) => ~Offers(d[l], c.id)
          /\ \A l \in DOMAIN d, i \in RouteIds : l < at(j) /\ Offers(d[l], i) => Gone(i)
      BY <1>2, <1>7, <3>1 DEF Knows, AbsenceLast
    <3>3. \A l \in DOMAIN e : /\ at(l) \in DOMAIN d /\ e[l] = d[at(l)]
                              /\ l > j => at(l) > at(j)
                              /\ l < j => at(l) < at(j)
      BY <1>13, <1>14
    <3>4. ASSUME m.type \in OfferTypes, m.route \in Route, c = NoRoute PROVE FALSE
      <4>1. CASE k < at(j)
        <5>1. PICK i \in RouteIds : i = m.route.id
          BY <3>4 DEF Route
        <5>2. Offers(d[k], i)
          BY <1>3, <3>4, <5>1 DEF Offers
        <5>3. Gone(i)
          BY <1>10, <3>2, <4>1, <5>2
        <5> QED
          BY <1>20, <3>4, <5>1, <5>3
      <4>2. CASE at(j) < k
        <5>1. d[at(j)].type \in Replies /\ k # 1
          BY <1>10, <3>1, <4>2 DEF NoRouteNews, Replies
        <5> QED
          BY <1>11, <3>1, <4>2, <5>1
      <4> QED
        BY <1>10, <3>1, <4>1, <4>2
    <3>5. b # NoRoute => b.id = c.id /\ c # NoRoute
      <4>1. m.route \in Route /\ m.route.id = c.id => c # NoRoute
        BY <1>19, RouteIsNot
      <4> QED
        BY <1>18, <3>4, <4>1
    <3> QED
      BY <1>16, <3>2, <3>3, <3>5
  <2> QED
    BY <1>4, <1>8, <1>9, <2>1 DEF AbsenceLast, Offers, NoRouteNews
<1>31. BusyRouted(w)'
  <2>1. ASSUME rec.busy, b = NoRoute, ~excused PROVE FALSE
    <3>1. c # NoRoute
      BY <1>7, <1>9, <2>1 DEF Knows, BusyRouted
    <3>2. ~GivesUp(w, m)
      BY <1>9, <1>21, <2>1 DEF Settled
    <3> QED
      BY <1>18, <1>19, <2>1, <3>1, <3>2, RouteIsNot
  <2> QED
    BY <1>8, <1>9, <2>1 DEF BusyRouted
<1> QED
  BY <1>23, <1>24, <1>25, <1>26, <1>27, <1>28, <1>29, <1>30, <1>31 DEF Knows

\* The steps of the ledger.
LEMMA CreateEvolves ==
    ASSUME LedgerInv, LedgerInv', NEW p, NEW connected, CreateRoute(p, connected), excused' = excused
    PROVE  Evolves
<1>1. PICK n : n = [id |-> issued', leader |-> p.leader, follower |-> p.follower, state |-> "ACTIVE"]
  OBVIOUS
<1>2. routes' = routes \cup {n} /\ n.id = issued' /\ issued' = issued + 1 /\ assertions' = assertions
  BY <1>1 DEF CreateRoute, unpair
<1>3. issued \in Nat /\ RouteIds \subseteq Nat
  BY IssuedNumbers, IdsAreNumbers
<1>4. ASSUME NEW i \in RouteIds, Gone(i)' PROVE Gone(i)
  <2>1. i <= issued' /\ i # issued' /\ i \in Nat
    BY <1>2, <1>3, <1>4 DEF Gone
  <2>2. i <= issued
    BY <1>2, <1>3, <2>1
  <2> QED
    BY <1>2, <1>4, <2>2 DEF Gone
<1>5. issued <= issued' /\ n.id > issued
  BY <1>2, <1>3
<1>6. \A s \in routes : SameRoute(s, s)
  BY DEF SameRoute
<1> QED
  BY <1>2, <1>4, <1>5, <1>6 DEF Evolves

\* An UNPAIRING begins; when one is cancelled, what depends on it is excused.
LEMMA UnpairEvolves ==
    ASSUME LedgerInv, NEW r \in routes, NEW w,
           \/ EnterUnpairing(r, w) /\ excused' = excused
           \/ CancelUnpairing(r, w) /\ excused'
    PROVE  Evolves
<1>1. PICK s : s \in {[r EXCEPT !.state = "UNPAIRING"], [r EXCEPT !.state = "ACTIVE"]}
               /\ routes' = (routes \ {r}) \cup {s}
               /\ (excused' \/ s = [r EXCEPT !.state = "UNPAIRING"])
  BY DEF EnterUnpairing, CancelUnpairing
<1>2. r \in Route /\ r.id \in RouteIds /\ SameRoute(r, s) /\ s.id = r.id /\ (excused' \/ s.state = "UNPAIRING")
  BY <1>1, IssuedNumbers DEF Route, SameRoute
<1>3. routes' = (routes \ {r}) \cup {s} /\ issued' = issued /\ RemoveAssertions(r, Workers) /\ (excused => excused')
  BY <1>1 DEF EnterUnpairing, CancelUnpairing
<1>7. \A t \in routes : SameRoute(t, t)
  BY DEF SameRoute
<1>4. \A i \in RouteIds : Gone(i)' => Gone(i)
  BY <1>2, <1>3 DEF Gone
<1>5. \A i \in RouteIds, v \in Workers : assertions'[i][v] # Absent => assertions[i][v] # Absent
  BY <1>2, <1>3 DEF RemoveAssertions, LedgerInv, LedgerTypeOK
<1>6. issued <= issued'
  BY <1>3, IssuedNumbers
<1> QED
  BY <1>2, <1>3, <1>4, <1>5, <1>6, <1>7 DEF Evolves

LEMMA VersionEvolves ==
    ASSUME LedgerInv, NEW r \in routes, NEW w \in Workers, NEW v, RecordVersion(r, w, v), excused' = excused
    PROVE  Evolves
<1>1. routes' = routes /\ issued' = issued /\ r.id \in RouteIds
  BY IssuedNumbers DEF RecordVersion, pairing
<1>2. \A i \in RouteIds : Gone(i)' => Gone(i)
  BY <1>1 DEF Gone
<1>3. \A i \in RouteIds, u \in Workers : assertions'[i][u] # Absent => assertions[i][u] # Absent
  <2>1. CASE assertions' = assertions
    BY <2>1
  <2>2. CASE RemoveAssertions(r, {w})
    BY <1>1, <2>2 DEF RemoveAssertions, LedgerInv, LedgerTypeOK
  <2> QED
    BY <2>1, <2>2 DEF RecordVersion
<1>4. issued <= issued'
  BY <1>1, IssuedNumbers
<1> QED
  BY <1>1, <1>2, <1>3, <1>4 DEF Evolves, SameRoute

\* The second fresh assertion removes a route when both Workers are settled.
LEMMA AssertionEvolves ==
    ASSUME LedgerInv, NEW r \in routes, NEW w \in Workers, NEW v, RecordAssertion(r, w, v), Settled(w, r.id),
           \A u \in Workers : Knows(u), excused' = excused
    PROVE  Evolves
<1>1. r \in Route /\ r.id \in RouteIds /\ Pair(r) \subseteq Workers /\ issued \in Nat
  BY IssuedNumbers, PairsOfWorkers
<1>2. CASE PeerFresh(r, w)
  <2>1. RemoveRoutes({r}) /\ issued' = issued
    BY <1>2 DEF RecordAssertion
  <2>2. routes' = routes \ {r}
    BY <2>1 DEF RemoveRoutes
  <2>3. \A u \in Pair(r) : Settled(u, r.id)
    BY <1>1, <1>2 DEF PeerFresh, Knows, AssertedSettled
  <2>4. ASSUME NEW i \in RouteIds, Gone(i)'
        PROVE  Gone(i) \/ \E s \in routes : s.id = i /\ \A u \in Pair(s) : Settled(u, i)
    BY <2>1, <2>2, <2>3, <2>4 DEF Gone
  <2>5. \A i \in RouteIds, u \in Workers : assertions'[i][u] # Absent => assertions[i][u] # Absent
    BY <2>1 DEF RemoveRoutes
  <2>6. issued <= issued'
    BY <1>1, <2>1
  <2> QED
    BY <2>2, <2>4, <2>5, <2>6 DEF Evolves, SameRoute
<1>3. CASE ~PeerFresh(r, w)
  <2>1. assertions' = [assertions EXCEPT ![r.id][w] = v] /\ routes' = routes /\ issued' = issued
    BY <1>3 DEF RecordAssertion, pairing
  <2>2. \A i \in RouteIds : Gone(i)' => Gone(i)
    BY <2>1 DEF Gone
  <2>3. ASSUME NEW i \in RouteIds, NEW u \in Workers, assertions'[i][u] # Absent
        PROVE  assertions[i][u] # Absent \/ Settled(u, i)
    BY <1>1, <2>1, <2>3 DEF LedgerInv, LedgerTypeOK
  <2>4. issued <= issued'
    BY <1>1, <2>1
  <2> QED
    BY <2>1, <2>2, <2>3, <2>4 DEF Evolves, SameRoute
<1> QED
  BY <1>2, <1>3

LEMMA ServiceEvolves ==
    ASSUME RuntimeInv, LedgerInv', NEW w \in Workers, Service(w), \A u \in Workers : Knows(u)
    PROVE  Evolves
<1>0. LedgerInv
  BY DEF RuntimeInv
<1>1. CASE UNCHANGED <<routes, issued, assertions, excused>>
  BY <1>0, <1>1, LedgerRests
<1>2. CASE HandleRole(w) \/ HandleSync(w) \/ HandleList(w)
  BY <1>1, <1>2 DEF HandleRole, HandleSync, HandleList, ExpireLapsed, ledger, pairing, unpair, Takes
<1>3. CASE HandleProposal(w)
  BY <1>1, <1>3 DEF HandleProposal, Reserve, ledger, pairing, unpair
<1>8. HandleDecision(w) \/ HandleVersion(w) \/ HandleAssertion(w) => excused' = excused
  BY DEF HandleDecision, HandleVersion, HandleAssertion, Takes
<1>4. CASE HandleDecision(w)
  <2>1. ASSUME NEW p, CreateRoute(p, Connected) PROVE Evolves
    BY <1>0, <1>4, <1>8, <2>1, CreateEvolves
  <2>2. ASSUME NEW p, Release({p}) \/ CreateFails(p, Connected) PROVE Evolves
    BY <1>1, <1>4, <1>8, <2>2 DEF Release, CreateFails, unpair
  <2>3. ASSUME UNCHANGED ledger PROVE Evolves
    BY <1>1, <1>4, <1>8, <2>3 DEF ledger, pairing, unpair
  <2> QED
    BY <1>4, <2>1, <2>2, <2>3 DEF HandleDecision
<1>5. CASE HandleUnpair(w)
  <2>2. ASSUME UNCHANGED ledger, excused' = excused PROVE Evolves
    BY <1>1, <2>2 DEF ledger, pairing, unpair
  <2>3. ASSUME NEW r \in RouteNamed(Head(up[w]).route),
               \/ EnterUnpairing(r, w) /\ UNCHANGED excused
               \/ CancelUnpairing(r, w) /\ excused' = TRUE
        PROVE  Evolves
    <3>1. r \in routes
      BY DEF RouteNamed
    <3>2. excused' = TRUE => excused'
      BY Zenon
    <3>3. CASE EnterUnpairing(r, w) /\ UNCHANGED excused
      <4>1. excused' = excused
        BY <3>3
      <4> QED
        BY <1>0, <3>1, <3>3, <4>1, UnpairEvolves, Zenon
    <3>4. CASE CancelUnpairing(r, w) /\ excused' = TRUE
      BY <1>0, <3>1, <3>2, <3>4, UnpairEvolves, Zenon
    <3> QED
      BY <2>3, <3>3, <3>4
  <2>4. \/ \E r \in RouteNamed(Head(up[w]).route) :
              \/ EnterUnpairing(r, w) /\ UNCHANGED excused
              \/ CancelUnpairing(r, w) /\ excused' = TRUE
        \/ UNCHANGED <<ledger, excused>>
    BY <1>5, Zenon DEF HandleUnpair
  <2> QED
    BY <2>2, <2>3, <2>4
<1>6. CASE HandleVersion(w)
  <2>1. ASSUME NEW r \in routes, NEW v, RecordVersion(r, w, v) PROVE Evolves
    BY <1>0, <1>6, <1>8, <2>1, VersionEvolves
  <2>2. ASSUME UNCHANGED ledger PROVE Evolves
    BY <1>1, <1>6, <1>8, <2>2 DEF ledger, pairing, unpair
  <2> QED
    BY <1>6, <2>1, <2>2 DEF HandleVersion, RouteNamed
<1>7. CASE HandleAssertion(w)
  <2>1. ASSUME NEW r \in routes, NEW v, r.id = Head(up[w]).route, RecordAssertion(r, w, v) PROVE Evolves
    <3>1. up[w] \in Seq(Upward) /\ up[w] # <<>> /\ Head(up[w]).type = "assertion"
      BY <1>7 DEF RuntimeInv, HandleAssertion, Takes, Receives
    <3>2. 1 \in DOMAIN up[w] /\ Head(up[w]) = up[w][1]
      BY <3>1
    <3>3. ~Gone(r.id)
      BY DEF Gone
    <3>4. Settled(w, r.id)
      BY <2>1, <3>1, <3>2, <3>3 DEF Knows, AssertedSettled
    <3> QED
      BY <1>0, <1>7, <1>8, <2>1, <3>4, AssertionEvolves
  <2>2. ASSUME UNCHANGED ledger PROVE Evolves
    BY <1>1, <1>7, <1>8, <2>2 DEF ledger, pairing, unpair
  <2> QED
    BY <1>7, <2>1, <2>2 DEF HandleAssertion, RouteNamed
<1> QED
  BY <1>2, <1>3, <1>4, <1>5, <1>6, <1>7 DEF Service

\* All Workers listen.
LEMMA AllHear ==
    ASSUME RuntimeInv, LedgerInv', Evolves, \A u \in Workers : Knows(u), \A u \in Workers : Hears(u)
    PROVE  \A u \in Workers : Knows(u)'
<1>1. ASSUME NEW u \in Workers PROVE Knows(u)'
  <2>1. Hears(u) /\ Knows(u)
    OBVIOUS
  <2> QED
    BY <2>1, HearsKnows
<1> QED
  BY <1>1

LEMMA ServiceKnows ==
    ASSUME RuntimeInv, LedgerInv', NEW w \in Workers, Service(w), \A u \in Workers : Knows(u)
    PROVE  \A u \in Workers : Knows(u)'
<1>1. /\ Sends /\ UNCHANGED <<conn, session, owed, wk>> /\ up[w] # <<>> /\ up' = [up EXCEPT ![w] = Tail(@)]
  BY ServiceSends
<1>2. ASSUME NEW u \in Workers PROVE \A k \in DOMAIN up'[u] : \E j \in DOMAIN up[u] : up'[u][k] = up[u][j]
  <2>1. up[u] \in Seq(Upward) /\ up[w] \in Seq(Upward)
    BY DEF RuntimeInv
  <2>2. CASE u # w
    BY <1>1, <2>2 DEF RuntimeInv
  <2>3. CASE u = w
    <3>1. PICK s \in Seq(Upward) : s = up[w] /\ s # <<>>
      BY <1>1, <2>1
    <3>2. up'[u] = Tail(s)
      BY <1>1, <2>3, <3>1 DEF RuntimeInv
    <3>3. DOMAIN Tail(s) = 1 .. (Len(s) - 1) /\ \A k \in 1 .. (Len(s) - 1) : Tail(s)[k] = s[k + 1] /\ k + 1 \in DOMAIN s
      BY <3>1
    <3> QED
      BY <2>3, <3>1, <3>2, <3>3
  <2> QED
    BY <2>2, <2>3
<1>3. \A u \in Workers : Hears(u)
  BY <1>1, <1>2 DEF Hears, Sends
<1> QED
  BY <1>3, ServiceEvolves, AllHear

\* One Worker moves; the others and the ledger do not.
LEMMA OneMoves ==
    ASSUME RuntimeInv, LedgerInv', UNCHANGED <<routes, issued, assertions, excused>>, \A u \in Workers : Knows(u),
           NEW w \in Workers, Knows(w)',
           \A u \in Workers \ {w} : wk'[u] = wk[u] /\ owed'[u] = owed[u] /\ down'[u] = down[u] /\ up'[u] = up[u]
    PROVE  \A u \in Workers : Knows(u)'
<1>1. Evolves
  BY LedgerRests DEF RuntimeInv
<1>2. ASSUME NEW u \in Workers, u # w PROVE Knows(u)'
  <2>1. Hears(u)
    BY <1>2, NothingHeard
  <2> QED
    BY <1>1, <2>1, HearsKnows
<1> QED
  BY <1>2

LEMMA WorkerKnows ==
    ASSUME RuntimeInv, LedgerInv', NEW w \in Workers, \A u \in Workers : Knows(u),
           Pump(w) \/ \E k \in DOMAIN down[w] : Answered(w, k) \/ Notified(w, k)
    PROVE  \A u \in Workers : Knows(u)'
<1>1. CASE Pump(w)
  <2>1. Acts(w)
    BY <1>1, PumpActs
  <2>5. excused' = excused
    BY <1>1 DEF counts, Pump, DeclareRole, BeginSelection, RequestSync, PublishVersion, AssertSafe, StartAttempt,
                FinishAttempt, OperatorCommand
  <2>2. Knows(w)'
    BY <2>1, <2>5, ActsKnows
  <2>3. \A u \in Workers \ {w} : wk'[u] = wk[u] /\ owed'[u] = owed[u] /\ down'[u] = down[u] /\ up'[u] = up[u]
    BY <2>1 DEF Acts, Act, RuntimeInv
  <2>4. UNCHANGED <<routes, issued, assertions, excused>>
    BY <2>1, <2>5 DEF Acts, Act, ledger, pairing, unpair
  <2> QED
    BY <2>2, <2>3, <2>4, OneMoves
<1>2. ASSUME NEW k \in DOMAIN down[w], Answered(w, k) \/ Notified(w, k) PROVE \A u \in Workers : Knows(u)'
  <2>1. Handles(w, k)
    BY <1>2, NewsHandled
  <2>2. Knows(w)'
    BY <2>1, HandlesKnows
  <2>3. \A u \in Workers \ {w} : wk'[u] = wk[u] /\ owed'[u] = owed[u] /\ down'[u] = down[u] /\ up'[u] = up[u]
    BY <2>1 DEF Handles, Serve, RuntimeInv
  <2>4. UNCHANGED <<routes, issued, assertions, excused>>
    BY <2>1 DEF Handles, Serve, ledger, pairing, unpair, counts
  <2> QED
    BY <2>2, <2>3, <2>4, OneMoves
<1> QED
  BY <1>1, <1>2

LEMMA ConnectionKnows ==
    ASSUME RuntimeInv, LedgerInv', NEW w \in Workers, \A u \in Workers : Knows(u), Connection(w),
           ~DeleteWorker(w)
    PROVE  \A u \in Workers : Knows(u)'
<1>0. /\ up \in [Workers -> Seq(Upward)] /\ down \in [Workers -> Seq(Downward)] /\ wk \in [Workers -> Sound]
      /\ owed \in [Workers -> Nat]
  BY DEF RuntimeInv
<1>1. CASE OpenSession(w)
  <2>1. /\ \A u \in Workers \ {w} : wk'[u] = wk[u] /\ owed'[u] = owed[u] /\ down'[u] = down[u] /\ up'[u] = up[u]
        /\ UNCHANGED <<routes, issued, assertions, excused>>
    BY <1>0, <1>1 DEF OpenSession, ledger, pairing, unpair, counts
  <2>2. PICK n : n = [NewWorker EXCEPT !.budget = wk[w].budget, !.route = wk[w].route, !.version = wk[w].version,
                          !.busy = wk[w].busy, !.pairing = IF wk[w].route = NoRoute THEN "unstarted" ELSE "routed"]
    OBVIOUS
  <2>3. n.route = wk[w].route /\ n.busy = wk[w].busy
    BY <2>2 DEF NewWorker
  <2>4. wk'[w] = n /\ down'[w] = <<>> /\ up'[w] \in {<<>>, <<SyncRequest>>}
    BY <1>0, <1>1, <2>2 DEF OpenSession
  <2>5. \A k \in DOMAIN up'[w] : up'[w][k].type # "assertion"
    <3>1. CASE up'[w] = <<>>
      BY <3>1
    <3>2. CASE up'[w] = <<SyncRequest>>
      BY <3>2 DEF SyncRequest
    <3> QED
      BY <2>4, <3>1, <3>2
  <2>6. Forgets(w)
    BY <2>1, <2>3, <2>4, <2>5 DEF Forgets
  <2>7. Knows(w)'
    BY <2>6, ForgetsKnows
  <2> QED
    BY <2>1, <2>7, OneMoves
<1>2. CASE LoseSession(w) \/ RevokeWorker(w)
  <2>1. /\ \A u \in Workers \ {w} : wk'[u] = wk[u] /\ owed'[u] = owed[u] /\ down'[u] = down[u] /\ up'[u] = up[u]
        /\ UNCHANGED <<routes, issued, assertions, excused>> /\ wk' = wk /\ down'[w] = <<>>
    BY <1>0, <1>2 DEF LoseSession, RevokeWorker, Unregister, Revoke, ledger, pairing, unpair
  <2>2. up'[w] = up[w] \/ up'[w] = <<>>
    BY <1>0, <1>2 DEF LoseSession, RevokeWorker, Unregister
  <2>3. Forgets(w)
    BY <2>1, <2>2 DEF Forgets
  <2>4. Knows(w)'
    BY <2>3, ForgetsKnows
  <2> QED
    BY <2>1, <2>4, OneMoves
<1>3. CASE NoticeDisconnect(w)
  <2>1. Sends
    BY <1>3, ReleaseSends DEF NoticeDisconnect
  <2>2. UNCHANGED <<routes, issued, assertions, excused, owed, wk>> /\ up' = [up EXCEPT ![w] = <<>>]
    BY <1>3 DEF NoticeDisconnect, ReleaseHeld, Release, unpair, counts
  <2>3. ASSUME NEW u \in Workers PROVE up'[u] = up[u] \/ up'[u] = <<>>
    BY <1>0, <2>2
  <2>4. \A u \in Workers : Hears(u)
    BY <2>1, <2>2, <2>3 DEF Hears, Sends
  <2>5. Evolves
    BY <2>2, LedgerRests DEF RuntimeInv
  <2> QED
    BY <2>4, <2>5, AllHear
<1>4. CASE DiscardConnection(w) \/ ApproveWorker(w)
  <2>1. UNCHANGED <<routes, issued, assertions, excused, owed, wk, up, down>>
    BY <1>4 DEF DiscardConnection, ApproveWorker, Approve, network, ledger, pairing, unpair, counts
  <2>2. \A u \in Workers : Hears(u)
    BY <2>1, NothingHeard
  <2>3. Evolves
    BY <2>1, LedgerRests DEF RuntimeInv
  <2> QED
    BY <2>2, <2>3, AllHear
<1> QED
  BY <1>1, <1>2, <1>3, <1>4 DEF Connection

\* A fault is the first one, and history is not forgotten.
LEMMA CountsGrow ==
    ASSUME RuntimeInv, [Next]_vars
    PROVE  /\ faults' = faults \/ (faults = 0 /\ faults' = 1)
           /\ excused => excused'
           /\ crossed => crossed'
<1>0. ASSUME NEW kind, Fault(kind) PROVE faults = 0 /\ faults' = 1
  BY <1>0 DEF Fault
<1>1. ASSUME NEW w \in Workers, Service(w)
      PROVE  faults' = faults /\ (excused => excused') /\ (crossed => crossed')
  <2>1. ASSUME NEW type, Takes(w, type) PROVE UNCHANGED <<faults, excused, crossed>>
    BY <2>1 DEF Takes, Receives
  <2>2. ASSUME NEW type, Receives(w, type) PROVE faults' = faults
    BY <2>2 DEF Receives
  <2>3. HandleProposal(w) => excused' = excused /\ (crossed => crossed')
    <3>1. HandleProposal(w) => excused' = excused /\ (\/ crossed' = crossed
                                                    \/ crossed' = (crossed \/ UnderWay(Head(up[w]).follower, {"proposed", "decision"})))
      BY DEF HandleProposal
    <3>2. crossed' = (crossed \/ UnderWay(Head(up[w]).follower, {"proposed", "decision"})) => (crossed => crossed')
      BY Zenon
    <3> QED
      BY <3>1, <3>2
  <2>4. HandleUnpair(w) => crossed' = crossed /\ (excused => excused')
    <3>1. HandleUnpair(w) => crossed' = crossed /\ (excused' = TRUE \/ excused' = excused)
      BY DEF HandleUnpair
    <3>2. excused' = TRUE => excused'
      BY Zenon
    <3> QED
      BY <3>1, <3>2
  <2>5. HandleProposal(w) \/ HandleUnpair(w) => faults' = faults
    BY <2>2 DEF HandleProposal, HandleUnpair
  <2>6. HandleRole(w) \/ HandleList(w) \/ HandleSync(w) \/ HandleDecision(w) \/ HandleVersion(w) \/ HandleAssertion(w)
        => UNCHANGED <<faults, excused, crossed>>
    BY <2>1 DEF HandleRole, HandleList, HandleSync, HandleDecision, HandleVersion, HandleAssertion
  <2> QED
    BY <1>1, <2>3, <2>4, <2>5, <2>6 DEF Service
<1>2. ASSUME NEW w \in Workers, Pump(w) PROVE UNCHANGED <<faults, excused, crossed>>
  <2>1. ASSUME NEW action, OperatorCommand(w, action) PROVE UNCHANGED <<faults, excused, crossed>>
    BY <2>1 DEF OperatorCommand
  <2> QED
    BY <1>2, <2>1 DEF counts, Pump, DeclareRole, BeginSelection, RequestSync, PublishVersion, AssertSafe, StartAttempt,
              FinishAttempt
<1>3. CASE \E w \in Workers : Connection(w)
  BY <1>0, <1>3 DEF counts, Connection, OpenSession, LoseSession, NoticeDisconnect, DiscardConnection, RevokeWorker,
                    DeleteWorker, ApproveWorker
<1>4. CASE \E w \in Workers : \E k \in DOMAIN down[w] : Answered(w, k) \/ Notified(w, k)
  BY <1>4, NewsHandled DEF Handles, Serve, counts
<1>5. CASE ReservationLapses \/ Restart \/ UNCHANGED vars
  BY <1>0, <1>5 DEF ReservationLapses, Restart, vars, counts
<1> QED
  BY <1>1, <1>2, <1>3, <1>4, <1>5 DEF Next

LEMMA UnpairStep == RuntimeInv /\ UnpairInv /\ [Next]_vars => UnpairInv'
<1> SUFFICES ASSUME RuntimeInv, UnpairInv, [Next]_vars, ~(excused' /\ faults' > 0) PROVE \A u \in Workers : Knows(u)'
  BY DEF UnpairInv
<1>1. LedgerInv'
  BY LedgerStep, InvStep DEF RuntimeInv
<1>2. \A u \in Workers : Knows(u)
  BY CountsGrow DEF UnpairInv
<1>3. ASSUME NEW w \in Workers, Service(w) PROVE \A u \in Workers : Knows(u)'
  BY <1>1, <1>2, <1>3, ServiceKnows
<1>4. ASSUME NEW w \in Workers, Pump(w) \/ \E k \in DOMAIN down[w] : Answered(w, k) \/ Notified(w, k)
      PROVE  \A u \in Workers : Knows(u)'
  BY <1>1, <1>2, <1>4, WorkerKnows
<1>5. ASSUME NEW w \in Workers, Connection(w) PROVE \A u \in Workers : Knows(u)'
  <2>1. ~DeleteWorker(w)
    BY DEF DeleteWorker, Fault
  <2> QED
    BY <1>1, <1>2, <1>5, <2>1, ConnectionKnows
<1>6. CASE Restart
  <2>1. \A u \in Workers : down'[u] = <<>> /\ up'[u] = <<>>
    BY <1>6 DEF Restart
  <2>2. UNCHANGED <<routes, issued, assertions, excused, wk>>
    BY <1>6 DEF Restart, DropOrphanedClaims, unpair
  <2>3. ASSUME NEW u \in Workers PROVE Knows(u)'
    <3>1. Forgets(u)
      BY <2>1, <2>2 DEF Forgets
    <3> QED
      BY <1>2, <3>1, ForgetsKnows
  <2> QED
    BY <2>3
<1>7. CASE ReservationLapses \/ UNCHANGED vars
  <2>1. UNCHANGED <<routes, issued, assertions, excused, owed, wk, up, down>>
    BY <1>7 DEF ReservationLapses, Lapse, vars, network, ledger, pairing, unpair, counts
  <2>2. \A u \in Workers : Hears(u)
    BY <2>1, NothingHeard
  <2>3. Evolves
    BY <2>1, LedgerRests DEF RuntimeInv
  <2> QED
    BY <1>1, <1>2, <2>2, <2>3, AllHear
<1> QED
  BY <1>3, <1>4, <1>5, <1>6, <1>7 DEF Next

LEMMA UnpairInit == Init => UnpairInv
<1> SUFFICES ASSUME Init, NEW u \in Workers PROVE Knows(u)
  BY DEF UnpairInv
<1>1. RuntimeInv
  BY RuntimeInit
<1>2. routes = {} /\ issued = 0 /\ down[u] = <<>> /\ up[u] = <<>>
  BY DEF Init, LedgerInit
<1>3. \A i \in RouteIds : assertions[i][u] = Absent
  BY DEF Init, LedgerInit
<1>4. wk[u].route = NoRoute /\ wk[u].busy = FALSE
  <2>1. PICK s : wk[u] = [NewWorker EXCEPT !.pairing = s]
    BY DEF Init
  <2> QED
    BY <2>1 DEF NewWorker
<1>5. NoRoute.id = 0 /\ NoRoute.state = "ACTIVE" /\ ~Gone(0)
  BY IdsAreNumbers DEF Gone
<1>6. NewsFit(u)
  BY <1>2, <1>4, <1>5 DEF NewsFit, Fits
<1>7. AssertedSettled(u)
  BY <1>2, <1>3, <1>4, <1>5 DEF AssertedSettled
<1>8. NewsInOrder(u) /\ CopyInOrder(u) /\ OffersKnown(u) /\ RemovalLast(u) /\ ReplyLast(u) /\ AbsenceLast(u)
  BY <1>2 DEF NewsInOrder, CopyInOrder, OffersKnown, RemovalLast, ReplyLast, AbsenceLast
<1>9. BusyRouted(u)
  BY <1>4 DEF BusyRouted
<1> QED
  BY <1>6, <1>7, <1>8, <1>9 DEF Knows

\* What a Worker has, is being told and has asserted agrees with the ledger in
\* every order of replies, pushes, losses, restarts and reconnections.
THEOREM UnpairInvariant == Spec => []UnpairInv
  BY UnpairInit, UnpairStep, RuntimeInvariant, PTL DEF Spec

\* The safe unpair never takes a route away under an unresolved attempt
\* (record_pair_unpair_assertion against _sync_route_control).
THEOREM UnpairKeepsAttempts == Spec => []UnpairedIsIdle
<1>1. RuntimeInv /\ UnpairInv => UnpairedIsIdle
  <2> SUFFICES ASSUME RuntimeInv, UnpairInv, ~excused, NEW w \in Workers, wk[w].busy
               PROVE  RouteNamed(wk[w].route.id) # {}
    BY DEF UnpairedIsIdle
  <2>1. Knows(w)
    BY DEF UnpairInv
  <2>2. wk[w].route \in AnyRoute /\ wk[w].route # NoRoute
    BY <2>1 DEF RuntimeInv, Sound, Runtimes, Knows, BusyRouted
  <2>3. wk[w].route.id \in RouteIds /\ wk[w].route.id <= issued
    BY <2>1, <2>2, IdsAreNumbers DEF Knows, NewsFit, Fits
  <2>4. ~Gone(wk[w].route.id)
    BY <2>1 DEF Knows, AssertedSettled, Settled
  <2> QED
    BY <2>3, <2>4 DEF Gone, RouteNamed
<1> QED
  BY <1>1, RuntimeInvariant, UnpairInvariant, PTL
----------------------------------------------------------------------------
(***************************************************************************)
(* The negotiation: what every Worker, its two queues and the ledger know  *)
(* of each other while no session breaks and no reservation crosses        *)
(* another.  A leader that the ledger has bound, by a reservation or a     *)
(* route, has frozen its budget or is about to learn the id for which it   *)
(* will (Proposes); a follower has yet to be asked, or has answered, and   *)
(* once the route exists still holds the budget of its answer (Asked,      *)
(* Accepts).  The rest is what keeps that true: a request and its result   *)
(* belong to the Worker's present step (InStep), and no late refusal or    *)
(* sync is left that would discard the budget (SyncsFirst, EndedLast,      *)
(* OneQuestion).                                                           *)
(***************************************************************************)

\* No session has broken, and no follower was reserved with an earlier
\* negotiation under way.
Quiet == faults = 0 /\ ~crossed

Paired(w) == \E x \in reservations \cup routes : w \in Pair(x)

\* A Worker without a session has not begun; none has failed closed.
Attached(w) ==
    /\ conn[w] = IF session[w] THEN "live" ELSE "none"
    /\ ~session[w] => wk[w] = NewWorker /\ up[w] = <<>> /\ down[w] = <<>> /\ ~Paired(w)
    /\ ~wk[w].failed
    /\ wk[w].reconciling => wk[w].route # NoRoute

\* Leaders and followers negotiate in different messages.
Sides(w) ==
    /\ w \in Leaders => ~UnderWay(w, {"decision", "proposed", "decision_result"})
    /\ w \notin Leaders => /\ ~UnderWay(w, {"list", "list_result", "proposal", "proposal_result", "pairing_ended"})
                           /\ wk[w].pairing # "selecting"
    /\ \A i \in DOMAIN up[w] : up[w][i].type = "proposal" => up[w][i].follower \notin Leaders
    /\ \A k \in DOMAIN down[w] : down[w][k].type = "list_result" => down[w][k].followers \cap Leaders = {}

\* At most one message of these types is under way.
Once(w, types) ==
    /\ \A i, j \in DOMAIN up[w] : up[w][i].type \in types /\ up[w][j].type \in types => i = j
    /\ \A i, j \in DOMAIN down[w] : down[w][i].type \in types /\ down[w][j].type \in types => i = j
    /\ \A i \in DOMAIN up[w], j \in DOMAIN down[w] : ~(up[w][i].type \in types /\ down[w][j].type \in types)

\* A request, or its result, is of the Worker's present step.
Step(w, types, state) ==
    /\ Once(w, types)
    /\ UnderWay(w, types) => wk[w].pairing = state /\ wk[w].route = NoRoute

RoleTypes == {"role", "role_result"}
ListTypes == {"list", "list_result"}
ProposalTypes == {"proposal", "proposal_result"}
SyncTypes == {"sync", "sync_result"}

InStep(w) ==
    /\ Step(w, RoleTypes, "declaring") /\ Step(w, ListTypes, "listing") /\ Step(w, ProposalTypes, "proposing")
    /\ wk[w].pairing = "proposing" => wk[w].pending # "none"
    /\ \A i \in DOMAIN up[w] : up[w][i].type = "proposal" => up[w][i].follower = wk[w].pending

\* Nothing of a sync is left when the Worker proposes.
SyncsFirst(w) ==
    /\ \A i, j \in DOMAIN up[w] : up[w][i].type = "list" /\ up[w][j].type = "sync" => j < i
    /\ \A k \in DOMAIN down[w] : down[w][k].type = "list_result" =>
          /\ \A j \in DOMAIN up[w] : up[w][j].type # "sync"
          /\ \A l \in DOMAIN down[w] : down[w][l].type = "sync_result" => l < k
    /\ UnderWay(w, ProposalTypes) => ~UnderWay(w, SyncTypes)

\* News that end a pairing, for the leader and for the follower.
Closes(m) == m.type = "pairing_ended" \/ (NoRouteNews(m) /\ ~m.open)
Refuses(m) == Closes(m) \/ (m.type = "decision_result" /\ ~m.accepted)

\* The end of a pairing reaches a leader that still waits for it, or has to
\* serve it before anything else.
EndedLast(w) ==
    \A k \in DOMAIN down[w] : down[w][k].type = "pairing_ended" =>
        /\ ~Paired(w) /\ wk[w].route = NoRoute
        /\ \A l \in DOMAIN down[w] : l < k => ~Closes(down[w][l])
        /\ \/ wk[w].pairing = "awaiting_decision"
           \/ wk[w].pairing = "selecting" /\ k <= owed[w]
           \/ \E j \in DOMAIN down[w] : j < k /\ down[w][j].type = "proposal_result" /\ down[w][j].proposal # 0

\* The leader w has proposed to f, and its budget is frozen for that proposal
\* or will be when it learns the id.
Proposes(w, id, f) ==
    /\ wk[w].route = NoRoute
    /\ \/ /\ wk[w].pairing = "proposing" /\ wk[w].pending = f
          /\ \E k \in DOMAIN down[w] :
                /\ down[w][k].type = "proposal_result" /\ down[w][k].proposal = id
                /\ \A l \in DOMAIN down[w] : down[w][l].type = "established" => k < l
       \/ /\ wk[w].pairing = "awaiting_decision" /\ wk[w].proposal = id
          /\ wk[w].budget = [proposal |-> id, role |-> "leader", peer |-> f]
    /\ \A k \in DOMAIN down[w] : ~Closes(down[w][k])

\* The follower w has frozen its budget for the leader l, and keeps it.
Accepts(w, l) ==
    /\ wk[w].route = NoRoute
    /\ wk[w].budget.role = "follower" /\ wk[w].budget.peer = l /\ wk[w].proposal \in {0, wk[w].budget.proposal}
    /\ \A k \in DOMAIN down[w] : ~Refuses(down[w][k])

\* The follower w of the reservation p has yet to learn of it, or the service
\* to learn its decision.
Asked(w, p) ==
    \/ \E k \in DOMAIN down[w] :
          /\ down[w][k].type = "proposed" /\ down[w][k].proposal = p.id /\ down[w][k].leader = p.leader
          /\ p.lapsed \/ \A j \in DOMAIN down[w] : Refuses(down[w][j]) => j < k
    \/ \E i \in DOMAIN up[w] :
          /\ up[w][i].type = "decision" /\ up[w][i].proposal = p.id
          /\ up[w][i].accepted /\ ~p.lapsed => Accepts(w, p.leader)

\* A follower is asked one thing at a time, and not while it is on a route.
OneQuestion(w) ==
    /\ Once(w, {"decision", "proposed"}) /\ Once(w, {"decision", "decision_result"})
    /\ \A j, k \in DOMAIN down[w] : down[w][j].type = "proposed" /\ down[w][k].type = "decision_result" => k < j
    /\ w \in Routed => ~UnderWay(w, {"decision", "proposed"})

LeaderBound(w) ==
    /\ \A p \in reservations : w \in Pair(p) => p.follower # w /\ Proposes(w, p.id, p.follower)
    /\ \A r \in routes : w \in Pair(r) =>
          /\ r.follower # w
          /\ IF wk[w].route = NoRoute THEN \E id \in ProposalIds : Proposes(w, id, r.follower)
             ELSE wk[w].route.id = r.id

FollowerBound(w) ==
    /\ \A p \in reservations : w \in Pair(p) => p.leader # w /\ Asked(w, p)
    /\ \A r \in routes : w \in Pair(r) =>
          /\ r.leader # w
          /\ IF wk[w].route = NoRoute THEN Accepts(w, r.leader) ELSE wk[w].route.id = r.id

Leads(w) == InStep(w) /\ SyncsFirst(w) /\ EndedLast(w) /\ LeaderBound(w)
Follows(w) == OneQuestion(w) /\ FollowerBound(w)
Deals(w) == Attached(w) /\ Sides(w) /\ (w \in Leaders => Leads(w)) /\ (w \notin Leaders => Follows(w))

BudgetInv == Quiet => \A w \in Workers : Deals(w)

(***************************************************************************)
(* How a queue changes: at most one message leaves it, others are put at   *)
(* its end.                                                                *)
(***************************************************************************)

\* Where the message that is now the j-th was before the k-th was taken out.
At(k, j) == IF j < k THEN j ELSE j + 1

\* The queue old without its k-th message (if it has one), followed by messages
\* of N of different types.
Changed(new, old, k, N) ==
    /\ \A j \in DOMAIN new : \/ At(k, j) \in DOMAIN old /\ new[j] = old[At(k, j)]
                             \/ At(k, j) > Len(old) /\ new[j] \in N
    /\ \A i \in DOMAIN old : i # k => \E j \in DOMAIN new : At(k, j) = i
    /\ \A i, j \in DOMAIN new :
          At(k, i) > Len(old) /\ At(k, j) > Len(old) /\ new[i].type = new[j].type => i = j

LEMMA AtFacts ==
    ASSUME NEW k \in Nat
    PROVE  \A i, j \in Nat : /\ At(k, i) \in Nat /\ At(k, i) # k
                             /\ i < j <=> At(k, i) < At(k, j)
                             /\ At(k, i) = At(k, j) => i = j
  BY DEF At

\* What the queue keeps, in its order, and what is new in it.
Kept(new, old, k, N) ==
    /\ \A j \in DOMAIN new :
          \/ /\ At(k, j) \in DOMAIN old /\ At(k, j) # k /\ new[j] = old[At(k, j)]
             /\ \A i \in DOMAIN new : At(k, i) > Len(old) => j < i
          \/ At(k, j) > Len(old) /\ new[j] \in N
    /\ \A i \in DOMAIN old : i # k => \E j \in DOMAIN new : At(k, j) = i /\ new[j] = old[i]
    /\ \A i, j \in DOMAIN new : (i < j <=> At(k, i) < At(k, j)) /\ (At(k, i) = At(k, j) => i = j)
    /\ \A i, j \in DOMAIN new :
          At(k, i) > Len(old) /\ At(k, j) > Len(old) /\ new[i].type = new[j].type => i = j

LEMMA ChangedKept ==
    ASSUME NEW T, NEW old \in Seq(T), NEW new \in Seq(T), NEW k \in Nat, NEW N, Changed(new, old, k, N)
    PROVE  Kept(new, old, k, N)
<1>1. PICK n \in Nat : n = Len(old)
  OBVIOUS
<1>2. DOMAIN old = 1 .. n /\ DOMAIN new = 1 .. Len(new) /\ Len(new) \in Nat
  BY <1>1
<1>3. \A j \in DOMAIN new : j \in Nat
  BY <1>2
<1>4. \A i \in DOMAIN new : At(k, i) \in Nat /\ At(k, i) # k
  BY <1>3, AtFacts
<1>9. \A i, j \in DOMAIN new : (i < j <=> At(k, i) < At(k, j)) /\ (At(k, i) = At(k, j) => i = j)
  BY <1>3, AtFacts
<1>5. \A i \in DOMAIN old : i \in Nat /\ i <= n
  BY <1>2
<1>6. ASSUME NEW j \in DOMAIN new, At(k, j) \in DOMAIN old, NEW i \in DOMAIN new, At(k, i) > Len(old) PROVE j < i
  <2>1. At(k, j) < At(k, i)
    <3>1. PICK a \in Nat : a = At(k, j)
      BY <1>4
    <3>2. PICK b \in Nat : b = At(k, i)
      BY <1>4
    <3>3. a <= n /\ b > n
      BY <1>1, <1>5, <1>6, <3>1, <3>2
    <3> QED
      BY <3>1, <3>2, <3>3
  <2> QED
    BY <1>9, <2>1
<1>7. ASSUME NEW i \in DOMAIN old, i # k PROVE \E j \in DOMAIN new : At(k, j) = i /\ new[j] = old[i]
  <2>1. PICK j \in DOMAIN new : At(k, j) = i
    BY <1>7 DEF Changed
  <2>2. ~(At(k, j) > Len(old))
    BY <1>1, <1>5, <2>1
  <2> QED
    BY <2>1, <2>2 DEF Changed
<1>8. ASSUME NEW j \in DOMAIN new
      PROVE  \/ /\ At(k, j) \in DOMAIN old /\ At(k, j) # k /\ new[j] = old[At(k, j)]
                /\ \A i \in DOMAIN new : At(k, i) > Len(old) => j < i
             \/ At(k, j) > Len(old) /\ new[j] \in N
  <2>1. CASE At(k, j) \in DOMAIN old /\ new[j] = old[At(k, j)]
    BY <1>4, <1>6, <2>1
  <2>2. CASE At(k, j) > Len(old) /\ new[j] \in N
    BY <2>2
  <2> QED
    BY <2>1, <2>2 DEF Changed
<1>10. \A i, j \in DOMAIN new : At(k, i) > Len(old) /\ At(k, j) > Len(old) /\ new[i].type = new[j].type => i = j
  BY DEF Changed
<1> QED
  BY <1>7, <1>8, <1>9, <1>10 DEF Kept

LEMMA TailChanged ==
    ASSUME NEW T, NEW s \in Seq(T), s # <<>>
    PROVE  \A N : Changed(Tail(s), s, 1, N)
<1>1. PICK n \in Nat : n = Len(s)
  OBVIOUS
<1>2. PICK t : t = Tail(s)
  OBVIOUS
<1>3. n > 0 /\ Len(t) = n - 1 /\ DOMAIN t = 1 .. (n - 1) /\ DOMAIN s = 1 .. n /\ \A j \in DOMAIN t : t[j] = s[j + 1]
  BY <1>1, <1>2
<1>4. \A j \in DOMAIN t : At(1, j) = j + 1 /\ j + 1 \in DOMAIN s
  BY <1>3 DEF At
<1>5. ASSUME NEW i \in DOMAIN s, i # 1 PROVE \E j \in DOMAIN t : At(1, j) = i
  <2>1. i - 1 \in DOMAIN t /\ (i - 1) + 1 = i
    BY <1>3, <1>5
  <2> QED
    BY <1>4, <2>1
<1>6. \A j \in DOMAIN t : ~(At(1, j) > n)
  BY <1>3, <1>4
<1> QED
  BY <1>1, <1>2, <1>3, <1>4, <1>5, <1>6 DEF Changed

LEMMA AppendChanged ==
    ASSUME NEW T, NEW s \in Seq(T), NEW t \in Seq(T), NEW N, \A j \in DOMAIN t : t[j] \in N,
           \A i, j \in DOMAIN t : t[i].type = t[j].type => i = j, NEW f, f = s \o t
    PROVE  Changed(f, s, Len(s) + 1, N)
<1>1. PICK n \in Nat : n = Len(s)
  OBVIOUS
<1>2. PICK p \in Nat : p = Len(t)
  OBVIOUS
<1>3. /\ DOMAIN f = 1 .. (n + p) /\ DOMAIN s = 1 .. n /\ DOMAIN t = 1 .. p
      /\ \A k \in 1 .. (n + p) : f[k] = IF k <= n THEN s[k] ELSE t[k - n]
  BY <1>1, <1>2
<1>4. \A j \in DOMAIN f : j <= n => At(n + 1, j) = j /\ j \in DOMAIN s /\ f[j] = s[j]
  BY <1>3 DEF At
<1>5. \A j \in DOMAIN f : ~(j <= n) => At(n + 1, j) > n /\ j - n \in DOMAIN t /\ f[j] = t[j - n]
  BY <1>3 DEF At
<1>6. \A i \in DOMAIN s : i \in DOMAIN f /\ i <= n
  BY <1>3
<1>7. ASSUME NEW i \in DOMAIN f, NEW j \in DOMAIN f, At(n + 1, i) > n, At(n + 1, j) > n, f[i].type = f[j].type
      PROVE  i = j
  <2>1. ~(i <= n) /\ ~(j <= n)
    BY <1>3, <1>4, <1>7
  <2>2. i - n = j - n
    BY <1>5, <1>7, <2>1
  <2> QED
    BY <1>3, <2>2
<1>8. \A i \in DOMAIN s : \E j \in DOMAIN f : At(n + 1, j) = i
  BY <1>4, <1>6
<1>9. \A j \in DOMAIN f : \/ At(n + 1, j) \in DOMAIN s /\ f[j] = s[At(n + 1, j)]
                          \/ At(n + 1, j) > n /\ f[j] \in N
  BY <1>4, <1>5
<1> QED
  BY <1>1, <1>7, <1>8, <1>9 DEF Changed

LEMMA SameChanged ==
    ASSUME NEW T, NEW s \in Seq(T)
    PROVE  \A N : Changed(s, s, Len(s) + 1, N)
<1>1. PICK n \in Nat : n = Len(s)
  OBVIOUS
<1>2. DOMAIN s = 1 .. n
  BY <1>1
<1>3. \A j \in DOMAIN s : At(n + 1, j) = j /\ ~(At(n + 1, j) > n)
  BY <1>2 DEF At
<1> QED
  BY <1>1, <1>3 DEF Changed

LEMMA OutChanged ==
    ASSUME NEW T, NEW d \in Seq(T), NEW k \in DOMAIN d, NEW e, e = SubSeq(d, 1, k - 1) \o SubSeq(d, k + 1, Len(d))
    PROVE  \A N : Changed(e, d, k, N)
<1>1. PICK n \in Nat : n = Len(d)
  OBVIOUS
<1>2. k \in 1 .. n /\ DOMAIN d = 1 .. n
  BY <1>1
<1>3. /\ Len(e) = n - 1 /\ DOMAIN e = 1 .. Len(e)
      /\ \A j \in DOMAIN e : j < k => j \in DOMAIN d /\ e[j] = d[j]
      /\ \A j \in DOMAIN e : j >= k => j + 1 \in DOMAIN d /\ e[j] = d[j + 1]
  BY <1>1, <1>2, TakenOut
<1>4. \A j \in DOMAIN e : j < k => At(k, j) = j
  BY DEF At
<1>5. \A j \in DOMAIN e : ~(j < k) => At(k, j) = j + 1 /\ j >= k
  BY <1>2, <1>3 DEF At
<1>6. \A j \in DOMAIN e : At(k, j) \in DOMAIN d /\ e[j] = d[At(k, j)]
  BY <1>3, <1>4, <1>5
<1>7. \A j \in DOMAIN d : ~(j > n)
  BY <1>2
<1>8. ASSUME NEW i \in DOMAIN d, i # k PROVE \E j \in DOMAIN e : At(k, j) = i
  <2>1. CASE i < k
    <3>1. i \in DOMAIN e
      BY <1>2, <1>3, <2>1
    <3> QED
      BY <1>4, <2>1, <3>1
  <2>2. CASE i > k
    <3>1. i - 1 \in DOMAIN e /\ ~(i - 1 < k) /\ (i - 1) + 1 = i
      BY <1>2, <1>3, <2>2
    <3> QED
      BY <1>5, <3>1
  <2> QED
    BY <1>2, <1>8, <2>1, <2>2
<1> QED
  BY <1>1, <1>6, <1>7, <1>8 DEF Changed

\* The messages of u in both directions change: the a-th of the ones it has sent
\* is taken and those of M follow, and so with the b-th and N of its news.
Turned(u, a, M, b, N) ==
    /\ a \in Nat /\ b \in Nat
    /\ up'[u] \in Seq(Upward) /\ Changed(up'[u], up[u], a, M)
    /\ down'[u] \in Seq(Downward) /\ Changed(down'[u], down[u], b, N)

\* A message of one of these types is taken.
Out(u, a, b, types) ==
    \/ a \in DOMAIN up[u] /\ up[u][a].type \in types
    \/ b \in DOMAIN down[u] /\ down[u][b].type \in types

LEMMA TurnedKept ==
    ASSUME RuntimeInv, NEW u \in Workers, NEW a, NEW M, NEW b, NEW N, Turned(u, a, M, b, N)
    PROVE  Kept(up'[u], up[u], a, M) /\ Kept(down'[u], down[u], b, N)
<1>1. up[u] \in Seq(Upward) /\ down[u] \in Seq(Downward)
  BY DEF RuntimeInv
<1> QED
  BY <1>1, ChangedKept DEF Turned

\* What is under way was under way, or is new.
LEMMA StillUnderWay ==
    ASSUME RuntimeInv, NEW u \in Workers, NEW a, NEW M, NEW b, NEW N, Turned(u, a, M, b, N), NEW T
    PROVE  UnderWay(u, T)' => UnderWay(u, T) \/ \E m \in M \cup N : m.type \in T
<1>1. ASSUME NEW j \in DOMAIN up'[u], up'[u][j].type \in T
      PROVE  UnderWay(u, T) \/ \E m \in M \cup N : m.type \in T
  BY <1>1, TurnedKept DEF Kept, UnderWay
<1>2. ASSUME NEW j \in DOMAIN down'[u], down'[u][j].type \in T
      PROVE  UnderWay(u, T) \/ \E m \in M \cup N : m.type \in T
  BY <1>2, TurnedKept DEF Kept, UnderWay
<1> QED
  BY <1>1, <1>2 DEF UnderWay

\* The only one is taken.
LEMMA NoLonger ==
    ASSUME RuntimeInv, NEW u \in Workers, NEW a, NEW M, NEW b, NEW N, Turned(u, a, M, b, N), NEW T,
           Once(u, T), Out(u, a, b, T)
    PROVE  UnderWay(u, T)' => \E m \in M \cup N : m.type \in T
<1>1. ASSUME NEW j \in DOMAIN up'[u], up'[u][j].type \in T
      PROVE  \E m \in M \cup N : m.type \in T
  <2>1. CASE At(a, j) \in DOMAIN up[u] /\ At(a, j) # a /\ up'[u][j] = up[u][At(a, j)]
    BY <1>1, <2>1 DEF Once, Out
  <2> QED
    BY <1>1, <2>1, TurnedKept DEF Kept
<1>2. ASSUME NEW j \in DOMAIN down'[u], down'[u][j].type \in T
      PROVE  \E m \in M \cup N : m.type \in T
  <2>1. CASE At(b, j) \in DOMAIN down[u] /\ At(b, j) # b /\ down'[u][j] = down[u][At(b, j)]
    BY <1>2, <2>1 DEF Once, Out
  <2> QED
    BY <1>2, <2>1, TurnedKept DEF Kept
<1> QED
  BY <1>1, <1>2 DEF UnderWay

LEMMA StillOnce ==
    ASSUME RuntimeInv, NEW u \in Workers, NEW a, NEW M, NEW b, NEW N, Turned(u, a, M, b, N), NEW T,
           Once(u, T), \A m \in M \cup N : m.type \notin T
    PROVE  Once(u, T)'
<1>1. \A j \in DOMAIN up'[u] : up'[u][j].type \in T => At(a, j) \in DOMAIN up[u] /\ up[u][At(a, j)].type \in T
  BY TurnedKept DEF Kept
<1>2. \A j \in DOMAIN down'[u] : down'[u][j].type \in T => At(b, j) \in DOMAIN down[u] /\ down[u][At(b, j)].type \in T
  BY TurnedKept DEF Kept
<1>3. ASSUME NEW i \in DOMAIN up'[u], NEW j \in DOMAIN up'[u], up'[u][i].type \in T, up'[u][j].type \in T PROVE i = j
  <2>1. At(a, i) = At(a, j)
    BY <1>1, <1>3 DEF Once
  <2> QED
    BY <2>1, TurnedKept DEF Kept
<1>4. ASSUME NEW i \in DOMAIN down'[u], NEW j \in DOMAIN down'[u], down'[u][i].type \in T, down'[u][j].type \in T PROVE i = j
  <2>1. At(b, i) = At(b, j)
    BY <1>2, <1>4 DEF Once
  <2> QED
    BY <2>1, TurnedKept DEF Kept
<1>5. ASSUME NEW i \in DOMAIN up'[u], NEW j \in DOMAIN down'[u], up'[u][i].type \in T, down'[u][j].type \in T PROVE FALSE
  BY <1>1, <1>2, <1>5 DEF Once
<1> QED
  BY <1>3, <1>4, <1>5 DEF Once

\* The only one is answered, or a first one is sent.
LEMMA OnceAgain ==
    ASSUME RuntimeInv, NEW u \in Workers, NEW a, NEW M, NEW b, NEW N, Turned(u, a, M, b, N), NEW T,
           Once(u, T), ~UnderWay(u, T) \/ Out(u, a, b, T),
           \A m, n \in M \cup N : m.type \in T /\ n.type \in T => m.type = n.type,
           (\A m \in M : m.type \notin T) \/ (\A m \in N : m.type \notin T)
    PROVE  Once(u, T)'
<1>1. ASSUME NEW j \in DOMAIN up'[u], up'[u][j].type \in T
      PROVE  At(a, j) > Len(up[u]) /\ up'[u][j] \in M
  <2>1. CASE At(a, j) \in DOMAIN up[u] /\ At(a, j) # a /\ up'[u][j] = up[u][At(a, j)]
    BY <1>1, <2>1 DEF Once, Out, UnderWay
  <2> QED
    BY <1>1, <2>1, TurnedKept DEF Kept
<1>2. ASSUME NEW j \in DOMAIN down'[u], down'[u][j].type \in T
      PROVE  At(b, j) > Len(down[u]) /\ down'[u][j] \in N
  <2>1. CASE At(b, j) \in DOMAIN down[u] /\ At(b, j) # b /\ down'[u][j] = down[u][At(b, j)]
    BY <1>2, <2>1 DEF Once, Out, UnderWay
  <2> QED
    BY <1>2, <2>1, TurnedKept DEF Kept
<1>3. ASSUME NEW i \in DOMAIN up'[u], NEW j \in DOMAIN up'[u], up'[u][i].type \in T, up'[u][j].type \in T PROVE i = j
  BY <1>1, <1>3, TurnedKept DEF Kept
<1>4. ASSUME NEW i \in DOMAIN down'[u], NEW j \in DOMAIN down'[u], down'[u][i].type \in T, down'[u][j].type \in T PROVE i = j
  BY <1>2, <1>4, TurnedKept DEF Kept
<1>5. ASSUME NEW i \in DOMAIN up'[u], NEW j \in DOMAIN down'[u], up'[u][i].type \in T, down'[u][j].type \in T PROVE FALSE
  BY <1>1, <1>2, <1>5
<1> QED
  BY <1>3, <1>4, <1>5 DEF Once

(***************************************************************************)
(* The service handles the next message of w.                              *)
(***************************************************************************)

\* What it may send to u: results answer requests; a pairing is declared ended
\* or absent when u is in none; a follower is asked when nothing is under way.
Due(w, u, m) ==
    /\ m.type = "role_result" => u = w /\ Head(up[w]).type = "role"
    /\ m.type = "list_result" => u = w /\ Head(up[w]).type = "list" /\ m.followers \cap Leaders = {}
    /\ m.type = "proposal_result" => u = w /\ Head(up[w]).type = "proposal"
    /\ m.type = "decision_result" => u = w /\ Head(up[w]).type = "decision" /\ (~m.accepted => ~Paired(u)')
    /\ m.type = "sync_result" => u = w /\ Head(up[w]).type = "sync"
    /\ NoRouteNews(m) /\ ~m.open =>
          /\ u \notin Routed /\ ~UnderDecision(wk[u].proposal)
          /\ \A p \in reservations : u \in Pair(p) => p.lapsed
    /\ m.type = "proposed" => u \notin Leaders /\ u \notin Routed /\ ~UnderWay(u, {"decision", "proposed"})
    /\ m.type = "pairing_ended" => /\ Head(up[w]).type = "decision" /\ ~Paired(u)'
                                   /\ \E p \in reservations : u = p.leader
    /\ m.type = "established" => Head(up[w]).type = "decision"

Tells(w, u) == {m \in Downward : Due(w, u, m)}

\* A reservation is made: both Workers are told.
Asks(w, p) ==
    /\ Head(up[w]).type = "proposal" /\ p.leader = w /\ p.follower = Head(up[w]).follower
    /\ w \notin Routed /\ session[p.follower] /\ p.follower \in Workers
    /\ \E k \in DOMAIN down'[w] :
          At(Len(down[w]) + 1, k) > Len(down[w])
          /\ down'[w][k].type = "proposal_result" /\ down'[w][k].proposal = p.id
    /\ \E k \in DOMAIN down'[p.follower] :
          /\ At(Len(down[p.follower]) + 1, k) > Len(down[p.follower])
          /\ down'[p.follower][k].type = "proposed" /\ down'[p.follower][k].proposal = p.id
          /\ down'[p.follower][k].leader = w

\* The follower w accepts the proposal p.
Accepted(w, p) ==
    /\ Head(up[w]).type = "decision" /\ Head(up[w]).accepted /\ Head(up[w]).proposal = p.id
    /\ p.follower = w /\ ~p.lapsed

Attends(w) ==
    /\ UNCHANGED <<conn, session, owed, wk>>
    /\ conn[w] = "live" /\ up[w] # <<>>
    /\ \A u \in Workers :
          /\ Turned(u, IF u = w THEN 1 ELSE Len(up[u]) + 1, {}, Len(down[u]) + 1, Tells(w, u))
          /\ u # w => up'[u] = up[u]
          /\ ~session[u] => down'[u] = down[u]
    /\ \A p \in reservations' : \/ p \in reservations /\ (Head(up[w]).type = "decision" => p.follower # w)
                                \/ Asks(w, p)
    /\ \A r \in routes' : \/ \E s \in routes : SameRoute(s, r)
                          \/ \E p \in reservations : r.leader = p.leader /\ r.follower = p.follower /\ Accepted(w, p)

\* What is asked upwards is not what is said downwards.
LEMMA OtherTypes == \A m \in Downward : m.type \notin {"role", "list", "sync", "proposal", "decision"}
  BY DEF Downward

\* The next message of w.
LEMMA HeadFacts ==
    ASSUME RuntimeInv, NEW w \in Workers, up[w] # <<>>
    PROVE  /\ 1 \in DOMAIN up[w] /\ Head(up[w]) = up[w][1] /\ Head(up[w]) \in Upward
           /\ \A T : Head(up[w]).type \in T => UnderWay(w, T) /\ \A b : Out(w, 1, b, T)
<1>1. PICK x \in Seq(Upward) : x = up[w]
  BY DEF RuntimeInv
<1>2. 1 \in DOMAIN x /\ Head(x) = x[1] /\ Head(x) \in Upward
  BY <1>1
<1> QED
  BY <1>1, <1>2 DEF UnderWay, Out

\* Only a Worker of a reservation or of a route, or one that is asked, is in one.
LEMMA AttendsPaired ==
    ASSUME NEW w \in Workers, Attends(w), NEW u, Paired(u)'
    PROVE  Paired(u) \/ (Head(up[w]).type = "proposal" /\ (u = w \/ (u = Head(up[w]).follower /\ session[u])))
<1>1. PICK x \in reservations' \cup routes' : u \in Pair(x)
  BY DEF Paired
<1>2. CASE x \in reservations'
  BY <1>1, <1>2 DEF Attends, Asks, Paired, Pair
<1>3. CASE x \in routes'
  BY <1>1, <1>3 DEF Attends, Accepted, Paired, Pair, SameRoute
<1> QED
  BY <1>1, <1>2, <1>3

LEMMA AttendsAttached ==
    ASSUME RuntimeInv, NEW w \in Workers, Attends(w), \A v \in Workers : Deals(v), NEW u \in Workers
    PROVE  Attached(u)'
<1>1. Attached(u) /\ Attached(w)
  BY DEF Deals
<1>2. session[w]
  BY <1>1 DEF Attends, Attached
<1>3. wk'[u] = wk[u] /\ conn'[u] = conn[u] /\ session'[u] = session[u]
  BY DEF Attends
<1>4. ASSUME ~session[u] PROVE up'[u] = <<>> /\ down'[u] = <<>> /\ ~Paired(u)'
  <2>1. u # w /\ up[u] = <<>> /\ down[u] = <<>> /\ ~Paired(u)
    BY <1>1, <1>2, <1>4 DEF Attached
  <2>2. up'[u] = up[u] /\ down'[u] = down[u]
    BY <1>4, <2>1 DEF Attends
  <2> QED
    BY <1>4, <2>1, <2>2, AttendsPaired
<1> QED
  BY <1>1, <1>3, <1>4 DEF Attached

\* What u is sent.
LEMMA AttendsTurned ==
    ASSUME RuntimeInv, NEW w \in Workers, Attends(w), NEW u \in Workers
    PROVE  \E a : /\ Turned(u, a, {}, Len(down[u]) + 1, Tells(w, u)) /\ (u = w => a = 1)
                  /\ a \in DOMAIN up[u] => u = w
<1>1. PICK x \in Seq(Upward) : x = up[u]
  BY DEF RuntimeInv
<1>2. Len(x) + 1 \notin DOMAIN x
  BY <1>1
<1> QED
  BY <1>1, <1>2 DEF Attends

LEMMA AttendsSides ==
    ASSUME RuntimeInv, NEW w \in Workers, Attends(w), \A v \in Workers : Deals(v), NEW u \in Workers
    PROVE  Sides(u)'
<1>1. PICK a : Turned(u, a, {}, Len(down[u]) + 1, Tells(w, u))
  BY AttendsTurned
<1>2. \A T : UnderWay(u, T)' => UnderWay(u, T) \/ \E m \in Tells(w, u) : m.type \in T
  BY <1>1, StillUnderWay
<1>3. up[w] # <<>> /\ wk'[u] = wk[u]
  BY DEF Attends
<1>4. \A T : Head(up[w]).type \in T => UnderWay(w, T)
  BY <1>3, HeadFacts
<1>5. Sides(u) /\ (u \notin Leaders => Follows(u))
  BY DEF Deals
<1>6. ASSUME u \in Leaders PROVE ~UnderWay(u, {"decision", "proposed", "decision_result"})'
  BY <1>2, <1>4, <1>5, <1>6, OtherTypes DEF Tells, Due, Sides
<1>7. ASSUME u \notin Leaders
      PROVE  ~UnderWay(u, {"list", "list_result", "proposal", "proposal_result", "pairing_ended"})'
  <2>1. \A p \in reservations : u # p.leader
    BY <1>5, <1>7 DEF Follows, FollowerBound, Pair
  <2> QED
    BY <1>2, <1>4, <1>5, <1>7, <2>1, OtherTypes DEF Tells, Due, Sides
<1>8. ASSUME NEW i \in DOMAIN up'[u], up'[u][i].type = "proposal" PROVE up'[u][i].follower \notin Leaders
  BY <1>1, <1>5, <1>8, TurnedKept DEF Kept, Sides
<1>9. ASSUME NEW k \in DOMAIN down'[u], down'[u][k].type = "list_result" PROVE down'[u][k].followers \cap Leaders = {}
  BY <1>1, <1>5, <1>9, TurnedKept DEF Kept, Sides, Tells, Due
<1> QED
  BY <1>3, <1>5, <1>6, <1>7, <1>8, <1>9 DEF Sides

\* A request is answered in its step.
LEMMA AttendsStep ==
    ASSUME RuntimeInv, NEW w \in Workers, Attends(w), NEW u \in Workers, NEW request, NEW result, NEW state,
           Step(u, {request, result}, state),
           \A m \in Tells(w, u) : m.type \in {request, result} => m.type = result /\ u = w /\ Head(up[w]).type = request
    PROVE  Step(u, {request, result}, state)'
<1> DEFINE T == {request, result}
<1>1. PICK a : Turned(u, a, {}, Len(down[u]) + 1, Tells(w, u)) /\ (u = w => a = 1)
  BY AttendsTurned
<1>2. up[w] # <<>> /\ wk'[u] = wk[u]
  BY DEF Attends
<1>3. Once(u, T)'
  <2>1. CASE \A m \in Tells(w, u) : m.type \notin T
    BY <1>1, <2>1, StillOnce DEF Step
  <2>2. CASE u = w /\ Head(up[w]).type = request
    <3>1. Out(u, a, Len(down[u]) + 1, T)
      BY <1>1, <1>2, <2>2, HeadFacts
    <3>2. Once(u, T) /\ \A m, n \in {} \cup Tells(w, u) : m.type \in T /\ n.type \in T => m.type = n.type
      BY DEF Step
    <3> HIDE DEF T
    <3> QED
      BY <1>1, <3>1, <3>2, OnceAgain
  <2> QED
    BY <2>1, <2>2
<1>4. UnderWay(u, T)' => UnderWay(u, T)
  BY <1>1, <1>2, StillUnderWay, HeadFacts
<1> QED
  BY <1>2, <1>3, <1>4 DEF Step

LEMMA AttendsInStep ==
    ASSUME RuntimeInv, NEW w \in Workers, Attends(w), NEW u \in Workers, InStep(u)
    PROVE  InStep(u)'
<1>1. PICK a : Turned(u, a, {}, Len(down[u]) + 1, Tells(w, u))
  BY AttendsTurned
<1>2. wk'[u] = wk[u]
  BY DEF Attends
<1>3. Step(u, RoleTypes, "declaring")'
  <2>1. \A m \in Tells(w, u) : m.type \in {"role", "role_result"}
                               => m.type = "role_result" /\ u = w /\ Head(up[w]).type = "role"
    BY OtherTypes DEF Tells, Due
  <2> QED
    BY <2>1, AttendsStep DEF InStep, RoleTypes
<1>4. Step(u, ListTypes, "listing")'
  <2>1. \A m \in Tells(w, u) : m.type \in {"list", "list_result"}
                               => m.type = "list_result" /\ u = w /\ Head(up[w]).type = "list"
    BY OtherTypes DEF Tells, Due
  <2> QED
    BY <2>1, AttendsStep DEF InStep, ListTypes
<1>5. Step(u, ProposalTypes, "proposing")'
  <2>1. \A m \in Tells(w, u) : m.type \in {"proposal", "proposal_result"}
                               => m.type = "proposal_result" /\ u = w /\ Head(up[w]).type = "proposal"
    BY OtherTypes DEF Tells, Due
  <2> QED
    BY <2>1, AttendsStep DEF InStep, ProposalTypes
<1>6. \A i \in DOMAIN up'[u] : up'[u][i].type = "proposal" => up'[u][i].follower = wk'[u].pending
  BY <1>1, <1>2, TurnedKept DEF Kept, InStep
<1> QED
  BY <1>2, <1>3, <1>4, <1>5, <1>6 DEF InStep

\* The queue of news keeps its places.
LEMMA SamePlace ==
    ASSUME RuntimeInv, NEW u \in Workers
    PROVE  \A k \in DOMAIN down'[u] : k \in Nat /\ At(Len(down[u]) + 1, k) \in DOMAIN down[u] => At(Len(down[u]) + 1, k) = k
<1>1. PICK y \in Seq(Downward) : y = down[u]
  BY DEF RuntimeInv
<1>2. PICK n \in Nat : n = Len(y) /\ DOMAIN y = 1 .. n
  BY <1>1
<1>3. \A k \in Nat : At(n + 1, k) \in 1 .. n => At(n + 1, k) = k
  BY DEF At
<1> QED
  BY <1>1, <1>2, <1>3

LEMMA AttendsSyncs ==
    ASSUME RuntimeInv, NEW w \in Workers, Attends(w), NEW u \in Workers, SyncsFirst(u)
    PROVE  SyncsFirst(u)'
<1>1. PICK a : Turned(u, a, {}, Len(down[u]) + 1, Tells(w, u)) /\ (u = w => a = 1)
  BY AttendsTurned
<1>2. Kept(up'[u], up[u], a, {}) /\ Kept(down'[u], down[u], Len(down[u]) + 1, Tells(w, u))
  BY <1>1, TurnedKept
<1>3. up[w] # <<>>
  BY DEF Attends
<1>4. 1 \in DOMAIN up[w] /\ Head(up[w]) = up[w][1] /\ \A T : Head(up[w]).type \in T => UnderWay(w, T)
  BY <1>3, HeadFacts
<1>5. \A m \in Tells(w, u) : /\ m.type = "sync_result" => u = w /\ up[u][1].type = "sync"
                             /\ m.type = "list_result" => u = w /\ up[u][1].type = "list"
  BY <1>4 DEF Tells, Due
<1>6. ASSUME NEW i \in DOMAIN up'[u], NEW j \in DOMAIN up'[u], up'[u][i].type = "list", up'[u][j].type = "sync"
      PROVE  j < i
  <2>1. At(a, j) < At(a, i)
    BY <1>2, <1>6 DEF Kept, SyncsFirst
  <2> QED
    BY <1>2, <2>1 DEF Kept
<1>7. ASSUME NEW k \in DOMAIN down'[u], down'[u][k].type = "list_result"
      PROVE  /\ \A j \in DOMAIN up'[u] : up'[u][j].type # "sync"
             /\ \A l \in DOMAIN down'[u] : down'[u][l].type = "sync_result" => l < k
  <2> DEFINE b == Len(down[u]) + 1
  <2>1. CASE At(b, k) \in DOMAIN down[u] /\ down'[u][k] = down[u][At(b, k)]
    <3>1. \A j \in DOMAIN up[u] : up[u][j].type # "sync"
      BY <1>7, <2>1 DEF SyncsFirst
    <3>2. \A j \in DOMAIN up'[u] : up'[u][j].type # "sync"
      BY <1>2, <3>1 DEF Kept
    <3>3. ASSUME NEW l \in DOMAIN down'[u], down'[u][l].type = "sync_result" PROVE l < k
      <4>1. down'[u][l] \notin Tells(w, u)
        BY <1>4, <1>5, <3>1, <3>3
      <4>2. At(b, l) \in DOMAIN down[u] /\ down'[u][l] = down[u][At(b, l)]
        BY <1>2, <4>1 DEF Kept
      <4>3. At(b, l) < At(b, k)
        BY <1>7, <2>1, <3>3, <4>2 DEF SyncsFirst
      <4> QED
        BY <1>2, <4>3 DEF Kept
    <3> QED
      BY <3>2, <3>3
  <2>2. CASE At(b, k) > Len(down[u]) /\ down'[u][k] \in Tells(w, u)
    <3>1. u = w /\ a = 1 /\ up[u][1].type = "list"
      BY <1>1, <1>5, <1>7, <2>2
    <3>2. ASSUME NEW j \in DOMAIN up'[u], up'[u][j].type = "sync" PROVE FALSE
      <4>1. At(a, j) \in DOMAIN up[u] /\ up[u][At(a, j)].type = "sync"
        BY <1>2, <3>2 DEF Kept
      <4>2. At(a, j) < 1
        BY <1>4, <3>1, <4>1 DEF SyncsFirst
      <4>3. PICK x \in Seq(Upward) : x = up[u]
        BY DEF RuntimeInv
      <4>4. DOMAIN x = 1 .. Len(x)
        OBVIOUS
      <4> QED
        BY <4>1, <4>2, <4>3, <4>4
    <3>3. ASSUME NEW l \in DOMAIN down'[u], down'[u][l].type = "sync_result" PROVE l < k
      <4>1. down'[u][l] \notin Tells(w, u)
        BY <1>5, <3>1, <3>3
      <4> QED
        BY <1>2, <2>2, <4>1 DEF Kept
    <3> QED
      BY <3>2, <3>3
  <2> QED
    BY <1>2, <2>1, <2>2 DEF Kept
<1>8. ASSUME UnderWay(u, ProposalTypes)' PROVE ~UnderWay(u, SyncTypes)'
  <2>1. UnderWay(u, ProposalTypes)
    BY <1>1, <1>4, <1>8, StillUnderWay, OtherTypes DEF Tells, Due, ProposalTypes
  <2>2. ~UnderWay(u, SyncTypes)
    BY <2>1 DEF SyncsFirst
  <2> QED
    BY <1>1, <1>4, <2>2, StillUnderWay, OtherTypes DEF Tells, Due, SyncTypes
<1> QED
  BY <1>6, <1>7, <1>8 DEF SyncsFirst

\* A leader that has proposed keeps its proposal while nothing ends it.
LEMMA ProposesStays ==
    ASSUME RuntimeInv, NEW u \in Workers, NEW a, NEW N, Turned(u, a, {}, Len(down[u]) + 1, N), wk'[u] = wk[u],
           NEW id, NEW f, Proposes(u, id, f), \A m \in N : ~Closes(m)
    PROVE  Proposes(u, id, f)'
<1> DEFINE b == Len(down[u]) + 1
<1>1. Kept(down'[u], down[u], b, N)
  BY TurnedKept
<1>2. \A k \in DOMAIN down'[u] : ~Closes(down'[u][k])
  BY <1>1 DEF Kept, Proposes
<1>3. ASSUME NEW k \in DOMAIN down[u], down[u][k].type = "proposal_result", down[u][k].proposal = id,
             \A l \in DOMAIN down[u] : down[u][l].type = "established" => k < l
      PROVE  \E j \in DOMAIN down'[u] :
                /\ down'[u][j].type = "proposal_result" /\ down'[u][j].proposal = id
                /\ \A l \in DOMAIN down'[u] : down'[u][l].type = "established" => j < l
  <2>0. k # b
    <3>1. PICK y \in Seq(Downward) : y = down[u]
      BY DEF RuntimeInv
    <3>2. Len(y) + 1 \notin DOMAIN y
      OBVIOUS
    <3> QED
      BY <3>1, <3>2
  <2>1. PICK j \in DOMAIN down'[u] : At(b, j) = k /\ down'[u][j] = down[u][k]
    BY <1>1, <2>0 DEF Kept
  <2>2. ASSUME NEW l \in DOMAIN down'[u], down'[u][l].type = "established" PROVE j < l
    <3>1. CASE At(b, l) \in DOMAIN down[u] /\ down'[u][l] = down[u][At(b, l)]
      <4>1. At(b, j) < At(b, l)
        BY <1>3, <2>1, <2>2, <3>1
      <4> QED
        BY <1>1, <4>1 DEF Kept
    <3>2. CASE At(b, l) > Len(down[u])
      <4>1. ~(At(b, j) > Len(down[u]))
        <5>1. PICK y \in Seq(Downward) : y = down[u]
          BY DEF RuntimeInv
        <5>2. \A i \in DOMAIN y : ~(i > Len(y))
          OBVIOUS
        <5> QED
          BY <2>1, <5>1, <5>2
      <4> QED
        BY <1>1, <3>2, <4>1 DEF Kept
    <3> QED
      BY <1>1, <3>1, <3>2 DEF Kept
  <2> QED
    BY <1>3, <2>1, <2>2
<1> QED
  BY <1>2, <1>3 DEF Proposes

LEMMA AcceptsStays ==
    ASSUME RuntimeInv, NEW u \in Workers, NEW a, NEW N, Turned(u, a, {}, Len(down[u]) + 1, N), wk'[u] = wk[u],
           NEW l, Accepts(u, l), \A m \in N : ~Refuses(m)
    PROVE  Accepts(u, l)'
<1>1. Kept(down'[u], down[u], Len(down[u]) + 1, N)
  BY TurnedKept
<1>2. \A k \in DOMAIN down'[u] : ~Refuses(down'[u][k])
  BY <1>1 DEF Kept, Accepts
<1> QED
  BY <1>2 DEF Accepts

\* A follower in a reservation follows, and its leader leads.
LEMMA ReservedSides ==
    ASSUME RuntimeInv, \A v \in Workers : Deals(v), NEW x \in reservations \cup routes
    PROVE  x.leader \in Workers /\ x.follower \in Workers /\ x.leader \in Leaders /\ x.follower \notin Leaders
<1>1. x.leader \in Workers /\ x.follower \in Workers
  BY DEF RuntimeInv, LedgerInv, LedgerTypeOK, Route, Reservation
<1> QED
  BY <1>1 DEF Deals, Leads, Follows, LeaderBound, FollowerBound, Pair

\* The proposal of a reservation is under decision.
LEMMA ReservedAsked ==
    ASSUME RuntimeInv, \A v \in Workers : Deals(v), NEW p \in reservations
    PROVE  Asked(p.follower, p) /\ UnderDecision(p.id)
<1>1. p.follower \in Workers /\ p.follower \notin Leaders
  BY ReservedSides
<1>2. Asked(p.follower, p)
  BY <1>1 DEF Deals, Follows, FollowerBound, Pair
<1> QED
  BY <1>1, <1>2 DEF Asked, UnderDecision

\* A place in a queue is not beyond its end.
LEMMA InQueue ==
    ASSUME RuntimeInv, NEW u \in Workers
    PROVE  /\ \A k \in DOMAIN down[u] : k \in Nat /\ k # Len(down[u]) + 1 /\ ~(k > Len(down[u])) /\ k >= 1
           /\ \A k \in DOMAIN up[u] : k \in Nat /\ k # Len(up[u]) + 1 /\ ~(k > Len(up[u])) /\ k >= 1
<1>1. PICK y \in Seq(Downward) : y = down[u]
  BY DEF RuntimeInv
<1>2. PICK x \in Seq(Upward) : x = up[u]
  BY DEF RuntimeInv
<1>3. \A k \in DOMAIN y : k \in Nat /\ k # Len(y) + 1 /\ ~(k > Len(y)) /\ k >= 1
  OBVIOUS
<1>4. \A k \in DOMAIN x : k \in Nat /\ k # Len(x) + 1 /\ ~(k > Len(x)) /\ k >= 1
  OBVIOUS
<1> QED
  BY <1>1, <1>2, <1>3, <1>4

\* A leader that proposes has no end of a pairing, no sync and no result on its way.
LEMMA ProposingClear ==
    ASSUME NEW u, InStep(u), SyncsFirst(u), EndedLast(u), NEW i \in DOMAIN up[u], up[u][i].type = "proposal"
    PROVE  /\ wk[u].pairing = "proposing" /\ wk[u].route = NoRoute /\ wk[u].pending = up[u][i].follower
           /\ \A k \in DOMAIN down[u] : down[u][k].type \notin {"pairing_ended", "sync_result", "proposal_result"}
<1>1. UnderWay(u, ProposalTypes)
  BY DEF UnderWay, ProposalTypes
<1>2. wk[u].pairing = "proposing" /\ wk[u].route = NoRoute /\ wk[u].pending = up[u][i].follower
  BY <1>1 DEF InStep, Step
<1>3. \A k \in DOMAIN down[u] : down[u][k].type # "proposal_result"
  BY DEF InStep, Step, Once, ProposalTypes
<1>4. \A k \in DOMAIN down[u] : down[u][k].type # "sync_result"
  BY <1>1 DEF SyncsFirst, UnderWay, SyncTypes
<1>5. \A k \in DOMAIN down[u] : down[u][k].type # "pairing_ended"
  BY <1>2, <1>3 DEF EndedLast
<1> QED
  BY <1>2, <1>3, <1>4, <1>5

LEMMA AttendsEnded ==
    ASSUME RuntimeInv, NEW w \in Workers, Attends(w), \A v \in Workers : Deals(v), NEW u \in Workers, u \in Leaders
    PROVE  EndedLast(u)'
<1> DEFINE b == Len(down[u]) + 1
<1>1. PICK a : Turned(u, a, {}, b, Tells(w, u)) /\ (u = w => a = 1)
  BY AttendsTurned
<1>2. Kept(down'[u], down[u], b, Tells(w, u))
  BY <1>1, TurnedKept
<1>3. up[w] # <<>> /\ wk'[u] = wk[u] /\ owed'[u] = owed[u]
  BY DEF Attends
<1>4. 1 \in DOMAIN up[w] /\ Head(up[w]) = up[w][1]
  BY <1>3, HeadFacts
<1>5. InStep(u) /\ SyncsFirst(u) /\ EndedLast(u) /\ LeaderBound(u)
  BY DEF Deals, Leads
<1>6. \A k \in DOMAIN down'[u] : k \in Nat
  <2>1. PICK y \in Seq(Downward) : y = down'[u]
    BY <1>1 DEF Turned
  <2> QED
    BY <2>1
<1>7. ASSUME NEW k \in DOMAIN down'[u], down'[u][k].type = "pairing_ended"
      PROVE  /\ ~Paired(u)' /\ wk'[u].route = NoRoute
             /\ \A l \in DOMAIN down'[u] : l < k => ~Closes(down'[u][l])
             /\ \/ wk'[u].pairing = "awaiting_decision"
                \/ wk'[u].pairing = "selecting" /\ k <= owed'[u]
                \/ \E j \in DOMAIN down'[u] : j < k /\ down'[u][j].type = "proposal_result" /\ down'[u][j].proposal # 0
  <2>1. CASE At(b, k) \in DOMAIN down[u] /\ down'[u][k] = down[u][At(b, k)] /\ \A l \in DOMAIN down'[u] : At(b, l) > Len(down[u]) => k < l
    <3>1. /\ ~Paired(u) /\ wk[u].route = NoRoute
          /\ \A l \in DOMAIN down[u] : l < At(b, k) => ~Closes(down[u][l])
          /\ \/ wk[u].pairing = "awaiting_decision"
             \/ wk[u].pairing = "selecting" /\ At(b, k) <= owed[u]
             \/ \E j \in DOMAIN down[u] : j < At(b, k) /\ down[u][j].type = "proposal_result" /\ down[u][j].proposal # 0
      BY <1>5, <1>7, <2>1 DEF EndedLast
    <3>2. ~Paired(u)'
      <4>1. ASSUME Head(up[w]).type = "proposal", u = w PROVE FALSE
        BY <1>4, <1>5, <1>7, <2>1, <4>1, ProposingClear
      <4>2. ASSUME Head(up[w]).type = "proposal", u = Head(up[w]).follower PROVE FALSE
        <5>1. Sides(w)
          BY DEF Deals
        <5> QED
          BY <1>4, <4>2, <5>1 DEF Sides
      <4> QED
        BY <3>1, <4>1, <4>2, AttendsPaired
    <3>3. ASSUME NEW l \in DOMAIN down'[u], l < k PROVE ~Closes(down'[u][l])
      <4>1. ~(At(b, l) > Len(down[u]))
        BY <1>6, <2>1, <3>3
      <4>2. At(b, l) \in DOMAIN down[u] /\ down'[u][l] = down[u][At(b, l)] /\ At(b, l) < At(b, k)
        BY <1>2, <3>3, <4>1 DEF Kept
      <4> QED
        BY <3>1, <4>2
    <3>4. At(b, k) = k
      BY <1>6, <2>1, SamePlace
    <3>5. ASSUME NEW j \in DOMAIN down[u], j < At(b, k), down[u][j].type = "proposal_result", down[u][j].proposal # 0
          PROVE  \E i \in DOMAIN down'[u] : i < k /\ down'[u][i].type = "proposal_result" /\ down'[u][i].proposal # 0
      <4>1. PICK i \in DOMAIN down'[u] : At(b, i) = j /\ down'[u][i] = down[u][j]
        BY <1>2, InQueue DEF Kept
      <4>2. i < k
        BY <1>2, <3>5, <4>1 DEF Kept
      <4> QED
        BY <3>5, <4>1, <4>2
    <3> QED
      BY <1>3, <3>1, <3>2, <3>3, <3>4, <3>5
  <2>2. CASE At(b, k) > Len(down[u]) /\ down'[u][k] \in Tells(w, u)
    <3>1. Head(up[w]).type = "decision" /\ ~Paired(u)' /\ \E p \in reservations : u = p.leader
      BY <1>7, <2>2 DEF Tells, Due
    <3>2. PICK p \in reservations : u = p.leader
      BY <3>1
    <3>3. Proposes(u, p.id, p.follower)
      BY <1>5, <3>2 DEF LeaderBound, Pair
    <3>4. ASSUME NEW l \in DOMAIN down'[u], l < k PROVE ~Closes(down'[u][l])
      <4>1. CASE At(b, l) \in DOMAIN down[u] /\ down'[u][l] = down[u][At(b, l)]
        BY <3>3, <4>1 DEF Proposes
      <4>2. CASE At(b, l) > Len(down[u]) /\ down'[u][l] \in Tells(w, u)
        <5>1. down'[u][l].type # "sync_result"
          BY <3>1, <4>2 DEF Tells, Due
        <5>2. down'[u][l].type # "pairing_ended"
          <6>1. l = k => FALSE
            BY <1>6, <3>4
          <6> QED
            BY <1>2, <1>7, <2>2, <4>2, <6>1 DEF Kept
        <5> QED
          BY <5>1, <5>2 DEF Closes, NoRouteNews
      <4> QED
        BY <1>2, <4>1, <4>2 DEF Kept
    <3>5. ASSUME NEW j \in DOMAIN down[u], down[u][j].type = "proposal_result", down[u][j].proposal = p.id
          PROVE  \E i \in DOMAIN down'[u] : i < k /\ down'[u][i].type = "proposal_result" /\ down'[u][i].proposal # 0
      <4>1. PICK i \in DOMAIN down'[u] : At(b, i) = j /\ down'[u][i] = down[u][j]
        BY <1>2, InQueue DEF Kept
      <4>2. i < k
        BY <1>2, <2>2, <4>1, InQueue DEF Kept
      <4>3. p.id # 0
        BY DEF RuntimeInv, LedgerInv, LedgerTypeOK, Reservation, ProposalIds
      <4> QED
        BY <3>5, <4>1, <4>2, <4>3
    <3> QED
      BY <1>3, <3>1, <3>3, <3>4, <3>5 DEF Proposes
  <2> QED
    BY <1>2, <2>1, <2>2 DEF Kept
<1> QED
  BY <1>7 DEF EndedLast

\* No announcement of a route is on its way to a leader that has none.
LEMMA NothingEstablished ==
    ASSUME RuntimeInv, NEW w \in Workers, Knows(w), wk[w].route = NoRoute, w \notin Routed
    PROVE  \A k \in DOMAIN down[w] : down[w][k].type # "established"
<1> SUFFICES ASSUME NEW k \in DOMAIN down[w], down[w][k].type = "established" PROVE FALSE
  OBVIOUS
<1>1. PICK m \in Downward : m = down[w][k]
  BY DEF RuntimeInv
<1>2. m.route \in ActiveRoute /\ m.type \in StateTypes /\ m.type \in OfferTypes
  BY <1>1, DownwardFields DEF StateTypes, OfferTypes
<1>3. m.route.id \in RouteIds
  BY <1>2 DEF ActiveRoute, Route
<1>4. Fits(w, m.route)
  BY <1>1, <1>2 DEF Knows, NewsFit
<1>5. Gone(m.route.id)
  BY <1>3, <1>4 DEF Fits, Gone, Routed
<1>6. Offers(down[w][k], m.route.id)
  BY <1>1, <1>2 DEF Offers
<1>7. wk[w].route.id = m.route.id
  BY <1>3, <1>5, <1>6 DEF Knows, OffersKnown
<1> QED
  BY <1>3, <1>7, IdsAreNumbers

LEMMA AttendsLeader ==
    ASSUME RuntimeInv, NEW w \in Workers, Attends(w), \A v \in Workers : Deals(v), NEW u \in Workers, u \in Leaders,
           Knows(u)
    PROVE  LeaderBound(u)'
<1> DEFINE b == Len(down[u]) + 1
<1>1. PICK a : Turned(u, a, {}, b, Tells(w, u)) /\ (u = w => a = 1)
  BY AttendsTurned
<1>2. Kept(down'[u], down[u], b, Tells(w, u))
  BY <1>1, TurnedKept
<1>3. up[w] # <<>> /\ wk'[u] = wk[u]
  BY DEF Attends
<1>4. 1 \in DOMAIN up[w] /\ Head(up[w]) = up[w][1] /\ \A T : Head(up[w]).type \in T => UnderWay(w, T)
  BY <1>3, HeadFacts
<1>5. InStep(u) /\ SyncsFirst(u) /\ EndedLast(u) /\ LeaderBound(u)
  BY DEF Deals, Leads
<1>6. Sides(w)
  BY DEF Deals
<1>7. ASSUME NEW p \in reservations', u \in Pair(p) PROVE p.follower # u /\ Proposes(u, p.id, p.follower)'
  <2>0. Paired(u)'
    BY <1>7 DEF Paired
  <2>1. CASE p \in reservations
    <3>1. p.follower # u /\ Proposes(u, p.id, p.follower)
      BY <1>5, <1>7, <2>1 DEF LeaderBound
    <3>2. ASSUME NEW m \in Tells(w, u), Closes(m) PROVE FALSE
      <4>1. NoRouteNews(m) /\ ~m.open /\ u = w /\ Head(up[w]).type = "sync" /\ ~UnderDecision(wk[u].proposal)
        BY <2>0, <3>2 DEF Closes, Tells, Due, NoRouteNews
      <4>2. UnderWay(u, SyncTypes)
        BY <1>4, <4>1 DEF SyncTypes
      <4>3. ~UnderWay(u, ProposalTypes)
        BY <1>5, <4>2 DEF SyncsFirst
      <4>4. wk[u].proposal = p.id
        BY <3>1, <4>3 DEF Proposes, UnderWay, ProposalTypes
      <4> QED
        BY <2>1, <4>1, <4>4, ReservedAsked
    <3> QED
      BY <1>1, <1>3, <3>1, <3>2, ProposesStays
  <2>2. CASE Asks(w, p)
    <3>1. Head(up[w]).type = "proposal" /\ p.follower = up[w][1].follower /\ p.follower \notin Leaders
      BY <1>4, <1>6, <2>2 DEF Asks, Sides
    <3>2. u = w /\ p.follower # u
      BY <1>7, <2>2, <3>1 DEF Asks, Pair
    <3>3. /\ wk[u].pairing = "proposing" /\ wk[u].route = NoRoute /\ wk[u].pending = p.follower
          /\ \A k \in DOMAIN down[u] : down[u][k].type \notin {"pairing_ended", "sync_result", "proposal_result"}
      BY <1>4, <1>5, <3>1, <3>2, ProposingClear
    <3>4. \A k \in DOMAIN down[u] : down[u][k].type # "established"
      BY <2>2, <3>2, <3>3, NothingEstablished DEF Asks
    <3>5. \A m \in Tells(w, u) : m.type \notin {"pairing_ended", "sync_result", "established"}
      BY <3>1 DEF Tells, Due
    <3>6. \A k \in DOMAIN down'[u] : down'[u][k].type \notin {"pairing_ended", "sync_result", "established"}
      BY <1>2, <3>3, <3>4, <3>5 DEF Kept
    <3>7. \E k \in DOMAIN down'[u] : down'[u][k].type = "proposal_result" /\ down'[u][k].proposal = p.id
      BY <2>2, <3>2 DEF Asks
    <3> QED
      BY <1>3, <3>2, <3>3, <3>6, <3>7 DEF Proposes, Closes, NoRouteNews
  <2> QED
    BY <1>7, <2>1, <2>2 DEF Attends
<1>8. ASSUME NEW r \in routes', u \in Pair(r)
      PROVE  /\ r.follower # u
             /\ wk'[u].route = NoRoute => \E id \in ProposalIds : Proposes(u, id, r.follower)'
             /\ wk'[u].route # NoRoute => wk'[u].route.id = r.id
  <2>0. Paired(u)'
    BY <1>8 DEF Paired
  <2>1. ASSUME NEW s \in routes, SameRoute(s, r)
        PROVE  /\ r.follower # u
               /\ wk'[u].route = NoRoute => \E id \in ProposalIds : Proposes(u, id, r.follower)'
               /\ wk'[u].route # NoRoute => wk'[u].route.id = r.id
    <3>1. /\ r.follower # u
          /\ wk[u].route = NoRoute => \E id \in ProposalIds : Proposes(u, id, r.follower)
          /\ wk[u].route # NoRoute => wk[u].route.id = r.id
      BY <1>5, <1>8, <2>1 DEF LeaderBound, SameRoute, Pair
    <3>2. u \in Routed
      BY <1>8, <2>1 DEF Routed, SameRoute, Pair
    <3>3. \A m \in Tells(w, u) : ~Closes(m)
      BY <2>0, <3>2 DEF Closes, Tells, Due
    <3>4. ASSUME NEW id \in ProposalIds, Proposes(u, id, r.follower) PROVE Proposes(u, id, r.follower)'
      BY <1>1, <1>3, <3>3, <3>4, ProposesStays
    <3> QED
      BY <1>3, <3>1, <3>4
  <2>2. ASSUME NEW p \in reservations, r.leader = p.leader, r.follower = p.follower, Accepted(w, p)
        PROVE  /\ r.follower # u
               /\ wk'[u].route = NoRoute => \E id \in ProposalIds : Proposes(u, id, r.follower)'
               /\ wk'[u].route # NoRoute => wk'[u].route.id = r.id
    <3>1. p.follower # u /\ Proposes(u, p.id, p.follower)
      BY <1>5, <1>8, <2>2 DEF LeaderBound, Pair
    <3>2. wk[u].route = NoRoute /\ p.id \in ProposalIds
      BY <3>1 DEF Proposes, RuntimeInv, LedgerInv, LedgerTypeOK, Reservation
    <3>3. \A m \in Tells(w, u) : ~Closes(m)
      BY <2>0, <2>2 DEF Closes, Tells, Due, Accepted, NoRouteNews
    <3>4. Proposes(u, p.id, p.follower)'
      BY <1>1, <1>3, <3>1, <3>3, ProposesStays
    <3> QED
      BY <1>3, <2>2, <3>1, <3>2, <3>4
  <2> QED
    BY <1>8, <2>1, <2>2 DEF Attends
<1> QED
  BY <1>7, <1>8 DEF LeaderBound

LEMMA AttendsQuestion ==
    ASSUME RuntimeInv, NEW w \in Workers, Attends(w), \A v \in Workers : Deals(v), NEW u \in Workers, u \notin Leaders
    PROVE  OneQuestion(u)'
<1> DEFINE b == Len(down[u]) + 1
           T == {"decision", "proposed"}
<1>1. PICK a : Turned(u, a, {}, b, Tells(w, u)) /\ (u = w => a = 1)
  BY AttendsTurned
<1>2. Kept(down'[u], down[u], b, Tells(w, u))
  BY <1>1, TurnedKept
<1>3. up[w] # <<>>
  BY DEF Attends
<1>4. 1 \in DOMAIN up[w] /\ Head(up[w]) = up[w][1] /\ \A S : Head(up[w]).type \in S => UnderWay(w, S) /\ Out(w, 1, b, S)
  BY <1>3, HeadFacts
<1>5. OneQuestion(u) /\ FollowerBound(u)
  BY DEF Deals, Follows
<1>6. \A m \in Tells(w, u) : /\ m.type # "decision" /\ (m.type = "proposed" => ~UnderWay(u, T) /\ u \notin Routed)
                             /\ m.type = "decision_result" => u = w /\ Head(up[w]).type = "decision"
  BY OtherTypes DEF Tells, Due
<1>7. Once(u, T)'
  <2>1. CASE \A m \in Tells(w, u) : m.type \notin T
    BY <1>1, <1>5, <2>1, StillOnce DEF OneQuestion
  <2>2. CASE ~UnderWay(u, T)
    <3>1. Once(u, T) /\ \A m, n \in {} \cup Tells(w, u) : m.type \in T /\ n.type \in T => m.type = n.type
      BY <1>5, <1>6 DEF OneQuestion
    <3> HIDE DEF T
    <3> QED
      BY <1>1, <2>2, <3>1, OnceAgain
  <2> QED
    BY <1>6, <2>1, <2>2
<1>8. Once(u, {"decision", "decision_result"})'
  <2>1. CASE \A m \in Tells(w, u) : m.type \notin {"decision", "decision_result"}
    BY <1>1, <1>5, <2>1, StillOnce DEF OneQuestion
  <2>2. CASE u = w /\ Head(up[w]).type = "decision"
    <3>1. Out(u, a, b, {"decision", "decision_result"})
      BY <1>1, <1>4, <2>2
    <3>2. Once(u, {"decision", "decision_result"})
      BY <1>5 DEF OneQuestion
    <3>3. \A m, n \in {} \cup Tells(w, u) :
            m.type \in {"decision", "decision_result"} /\ n.type \in {"decision", "decision_result"} => m.type = n.type
      BY <1>6
    <3> QED
      BY <1>1, <3>1, <3>2, <3>3, OnceAgain
  <2> QED
    BY <1>6, <2>1, <2>2
<1>9. ASSUME NEW j \in DOMAIN down'[u], NEW k \in DOMAIN down'[u], down'[u][j].type = "proposed",
             down'[u][k].type = "decision_result"
      PROVE  k < j
  <2>1. CASE At(b, k) \in DOMAIN down[u] /\ down'[u][k] = down[u][At(b, k)]
    <3>1. CASE At(b, j) \in DOMAIN down[u] /\ down'[u][j] = down[u][At(b, j)]
      <4>1. At(b, k) < At(b, j)
        BY <1>5, <1>9, <2>1, <3>1 DEF OneQuestion
      <4> QED
        BY <1>2, <4>1 DEF Kept
    <3>2. CASE At(b, j) > Len(down[u])
      BY <1>2, <2>1, <3>2, InQueue DEF Kept
    <3> QED
      BY <1>2, <3>1, <3>2 DEF Kept
  <2>2. CASE down'[u][k] \in Tells(w, u)
    <3>1. u = w /\ up[u][1].type = "decision" /\ UnderWay(u, T)
      BY <1>4, <1>6, <1>9, <2>2
    <3>2. down'[u][j] \notin Tells(w, u)
      BY <1>6, <1>9, <3>1
    <3>3. At(b, j) \in DOMAIN down[u] /\ down'[u][j] = down[u][At(b, j)]
      BY <1>2, <3>2 DEF Kept
    <3> QED
      BY <1>4, <1>5, <1>9, <3>1, <3>3 DEF OneQuestion, Once
  <2> QED
    BY <1>2, <2>1, <2>2 DEF Kept
<1>10. ASSUME (u \in Routed)' PROVE ~UnderWay(u, T)'
  <2>1. PICK r \in routes' : u \in Pair(r)
    BY <1>10 DEF Routed
  <2>2. ASSUME NEW s \in routes, SameRoute(s, r) PROVE ~UnderWay(u, T)'
    <3>1. u \in Routed
      BY <2>1, <2>2 DEF Routed, SameRoute, Pair
    <3>2. ~UnderWay(u, T)
      BY <1>5, <3>1 DEF OneQuestion
    <3> QED
      BY <1>1, <1>6, <3>1, <3>2, StillUnderWay
  <2>3. ASSUME NEW p \in reservations, r.leader = p.leader, r.follower = p.follower, Accepted(w, p)
        PROVE  ~UnderWay(u, T)'
    <3>1. u = w /\ Head(up[w]).type = "decision"
      BY <1>5, <2>1, <2>3 DEF FollowerBound, Accepted, Pair
    <3>2. UnderWay(u, T) /\ Out(u, a, b, T)
      BY <1>1, <1>4, <3>1
    <3>3. Once(u, T)
      BY <1>5 DEF OneQuestion
    <3>4. \A m \in {} \cup Tells(w, u) : m.type \notin T
      BY <1>6, <3>2
    <3> HIDE DEF T
    <3> QED
      BY <1>1, <3>2, <3>3, <3>4, NoLonger
  <2> QED
    BY <2>1, <2>2, <2>3 DEF Attends
<1> QED
  BY <1>7, <1>8, <1>9, <1>10 DEF OneQuestion

LEMMA AttendsFollower ==
    ASSUME RuntimeInv, NEW w \in Workers, Attends(w), \A v \in Workers : Deals(v), NEW u \in Workers, u \notin Leaders
    PROVE  FollowerBound(u)'
<1> DEFINE b == Len(down[u]) + 1
<1>1. PICK a : Turned(u, a, {}, b, Tells(w, u)) /\ (u = w => a = 1) /\ (a \in DOMAIN up[u] => u = w)
  BY AttendsTurned
<1>2. Kept(down'[u], down[u], b, Tells(w, u)) /\ Kept(up'[u], up[u], a, {})
  BY <1>1, TurnedKept
<1>3. up[w] # <<>> /\ wk'[u] = wk[u]
  BY DEF Attends
<1>4. 1 \in DOMAIN up[w] /\ Head(up[w]) = up[w][1] /\ \A T : Head(up[w]).type \in T => UnderWay(w, T)
  BY <1>3, HeadFacts
<1>5. OneQuestion(u) /\ FollowerBound(u)
  BY DEF Deals, Follows
\* While it is in a pair, it is not told that this has ended.
<1>6. ASSUME Paired(u)', NEW m \in Tells(w, u), Refuses(m)
      PROVE  m.type = "sync_result" /\ u \notin Routed /\ \A p \in reservations : u \in Pair(p) => p.lapsed
  BY <1>6 DEF Refuses, Closes, NoRouteNews, Tells, Due
<1>7. ASSUME NEW p \in reservations', u \in Pair(p) PROVE p.leader # u /\ Asked(u, p)'
  <2>0. Paired(u)'
    BY <1>7 DEF Paired
  <2>1. CASE p \in reservations /\ (Head(up[w]).type = "decision" => p.follower # w)
    <3>1. p.leader # u /\ p.follower = u /\ Asked(u, p)
      BY <1>5, <1>7, <2>1 DEF FollowerBound, Pair
    <3>2. ~p.lapsed => \A m \in Tells(w, u) : ~Refuses(m)
      BY <1>6, <1>7, <2>0, <2>1
    <3>3. ASSUME NEW k \in DOMAIN down[u],
                 down[u][k].type = "proposed" /\ down[u][k].proposal = p.id /\ down[u][k].leader = p.leader,
                 p.lapsed \/ \A j \in DOMAIN down[u] : Refuses(down[u][j]) => j < k
          PROVE  Asked(u, p)'
      <4>1. PICK i \in DOMAIN down'[u] : At(b, i) = k /\ down'[u][i] = down[u][k]
        BY <1>2, InQueue DEF Kept
      <4>2. ASSUME ~p.lapsed, NEW j \in DOMAIN down'[u], Refuses(down'[u][j]) PROVE j < i
        <5>1. At(b, j) \in DOMAIN down[u] /\ down'[u][j] = down[u][At(b, j)]
          BY <1>2, <3>2, <4>2 DEF Kept
        <5>2. At(b, j) < At(b, i)
          BY <3>3, <4>1, <4>2, <5>1
        <5> QED
          BY <1>2, <5>2 DEF Kept
      <4> QED
        BY <3>3, <4>1, <4>2 DEF Asked
    <3>4. ASSUME NEW i \in DOMAIN up[u], up[u][i].type = "decision" /\ up[u][i].proposal = p.id,
                 up[u][i].accepted /\ ~p.lapsed => Accepts(u, p.leader)
          PROVE  Asked(u, p)'
      <4>1. i # a
        BY <1>1, <1>4, <2>1, <3>1, <3>4
      <4>2. PICK j \in DOMAIN up'[u] : up'[u][j] = up[u][i]
        BY <1>2, <4>1 DEF Kept
      <4>3. ASSUME up[u][i].accepted, ~p.lapsed PROVE Accepts(u, p.leader)'
        BY <1>1, <1>3, <3>2, <3>4, <4>3, AcceptsStays
      <4> QED
        BY <3>4, <4>2, <4>3 DEF Asked
    <3> QED
      BY <3>1, <3>3, <3>4 DEF Asked
  <2>2. CASE Asks(w, p)
    <3>1. w \in Leaders
      <4>1. UnderWay(w, {"list", "list_result", "proposal", "proposal_result", "pairing_ended"}) /\ Sides(w)
        BY <1>4, <2>2 DEF Asks, Deals
      <4> QED
        BY <4>1 DEF Sides
    <3>2. u = p.follower /\ p.leader = w /\ p.leader # u
      BY <1>7, <2>2, <3>1 DEF Asks, Pair
    <3>3. PICK k \in DOMAIN down'[u] : /\ At(b, k) > Len(down[u])
                                       /\ down'[u][k].type = "proposed" /\ down'[u][k].proposal = p.id
                                       /\ down'[u][k].leader = p.leader
      BY <2>2, <3>2 DEF Asks
    <3>4. ASSUME NEW j \in DOMAIN down'[u], Refuses(down'[u][j]) PROVE j < k
      <4>1. down'[u][j] \notin Tells(w, u)
        BY <2>2, <3>4 DEF Asks, Tells, Due, Refuses, Closes, NoRouteNews
      <4> QED
        BY <1>2, <3>3, <4>1 DEF Kept
    <3> QED
      BY <3>2, <3>3, <3>4 DEF Asked
  <2> QED
    BY <1>7, <2>1, <2>2 DEF Attends
<1>8. ASSUME NEW r \in routes', u \in Pair(r)
      PROVE  /\ r.leader # u
             /\ wk'[u].route = NoRoute => Accepts(u, r.leader)'
             /\ wk'[u].route # NoRoute => wk'[u].route.id = r.id
  <2>0. Paired(u)'
    BY <1>8 DEF Paired
  <2>1. ASSUME NEW s \in routes, SameRoute(s, r)
        PROVE  /\ r.leader # u
               /\ wk'[u].route = NoRoute => Accepts(u, r.leader)'
               /\ wk'[u].route # NoRoute => wk'[u].route.id = r.id
    <3>1. /\ r.leader # u
          /\ wk[u].route = NoRoute => Accepts(u, r.leader)
          /\ wk[u].route # NoRoute => wk[u].route.id = r.id
      BY <1>5, <1>8, <2>1 DEF FollowerBound, SameRoute, Pair
    <3>2. u \in Routed
      BY <1>8, <2>1 DEF Routed, SameRoute, Pair
    <3>3. \A m \in Tells(w, u) : ~Refuses(m)
      BY <1>6, <2>0, <3>2
    <3>4. ASSUME Accepts(u, r.leader) PROVE Accepts(u, r.leader)'
      BY <1>1, <1>3, <3>3, <3>4, AcceptsStays
    <3> QED
      BY <1>3, <3>1, <3>4
  <2>2. ASSUME NEW p \in reservations, r.leader = p.leader, r.follower = p.follower, Accepted(w, p)
        PROVE  /\ r.leader # u
               /\ wk'[u].route = NoRoute => Accepts(u, r.leader)'
               /\ wk'[u].route # NoRoute => wk'[u].route.id = r.id
    <3>1. p.leader # u /\ u = w /\ Asked(u, p)
      BY <1>5, <1>8, <2>2 DEF FollowerBound, Accepted, Pair
    <3>2. up[u][1].type = "decision" /\ up[u][1].accepted /\ 1 \in DOMAIN up[u] /\ ~p.lapsed
      BY <1>4, <2>2, <3>1 DEF Accepted
    <3>3. Accepts(u, p.leader)
      BY <1>5, <3>1, <3>2 DEF Asked, OneQuestion, Once
    <3>4. \A m \in Tells(w, u) : ~Refuses(m)
      BY <1>6, <2>0, <2>2 DEF Accepted, Tells, Due
    <3>5. Accepts(u, p.leader)' /\ wk[u].route = NoRoute
      BY <1>1, <1>3, <3>3, <3>4, AcceptsStays DEF Accepts
    <3> QED
      BY <1>3, <2>2, <3>1, <3>5
  <2> QED
    BY <1>8, <2>1, <2>2 DEF Attends
<1> QED
  BY <1>7, <1>8 DEF FollowerBound

\* The service keeps the deals.
LEMMA AttendsDeals ==
    ASSUME RuntimeInv, NEW w \in Workers, Attends(w), \A v \in Workers : Deals(v) /\ Knows(v), NEW u \in Workers
    PROVE  Deals(u)'
<1>1. Attached(u)' /\ Sides(u)'
  BY AttendsAttached, AttendsSides
<1>2. ASSUME u \in Leaders PROVE Leads(u)'
  BY <1>2, AttendsInStep, AttendsSyncs, AttendsEnded, AttendsLeader DEF Deals, Leads
<1>3. ASSUME u \notin Leaders PROVE Follows(u)'
  BY <1>3, AttendsQuestion, AttendsFollower DEF Follows
<1> QED
  BY <1>1, <1>2, <1>3 DEF Deals

----------------------------------------------------------------------------
(***************************************************************************)
(* Every handler of the service does as Attends says.                      *)
(***************************************************************************)

\* What is put at the end of a queue is there.
Behind(f, s, t) == \A j \in DOMAIN t : \E k \in DOMAIN f : At(Len(s) + 1, k) > Len(s) /\ f[k] = t[j]

LEMMA AtTheEnd ==
    ASSUME NEW s \in Seq(Downward), NEW t \in Seq(Downward), NEW f, f = s \o t
    PROVE  Behind(f, s, t)
<1> SUFFICES ASSUME NEW j \in DOMAIN t
             PROVE  \E k \in DOMAIN f : At(Len(s) + 1, k) > Len(s) /\ f[k] = t[j]
  BY DEF Behind
<1>1. PICK n \in Nat : n = Len(s)
  OBVIOUS
<1>2. PICK p \in Nat : p = Len(t)
  OBVIOUS
<1>3. DOMAIN f = 1 .. (n + p) /\ DOMAIN t = 1 .. p /\ \A k \in 1 .. (n + p) : f[k] = IF k <= n THEN s[k] ELSE t[k - n]
  BY <1>1, <1>2
<1>4. n + j \in DOMAIN f /\ ~(n + j <= n) /\ (n + j) - n = j
  BY <1>3
<1>5. f[n + j] = t[j] /\ At(n + 1, n + j) > n
  BY <1>3, <1>4 DEF At
<1> QED
  BY <1>1, <1>4, <1>5

\* All the news of this step are due.
Posts(w) ==
    \A u \in Workers :
        /\ down'[u] \in Seq(Downward)
        /\ Changed(down'[u], down[u], Len(down[u]) + 1, Tells(w, u))
        /\ ~session[u] => down'[u] = down[u]

\* All the mail is due, and each Worker gets one message of a type.
DueMail(w, mail) ==
    \A u \in Workers : u \in DOMAIN mail =>
        /\ mail[u] \in Seq(Downward) /\ \A j \in DOMAIN mail[u] : mail[u][j] \in Tells(w, u)
        /\ \A i, j \in DOMAIN mail[u] : mail[u][i].type = mail[u][j].type => i = j

LEMMA DeliverPosts ==
    ASSUME RuntimeInv, NEW w, NEW mail, Deliver(mail), DueMail(w, mail)
    PROVE  /\ Posts(w)
           /\ \A u \in Workers : u \in DOMAIN mail /\ conn[u] = "live" /\ session[u] =>
                 Behind(down'[u], down[u], mail[u])
<1>1. down \in [Workers -> Seq(Downward)]
  BY DEF RuntimeInv
<1>2. \A u \in Workers : down'[u] = IF u \in DOMAIN mail /\ conn[u] = "live" /\ session[u] THEN down[u] \o mail[u] ELSE down[u]
  BY DEF Deliver
<1>3. ASSUME NEW u \in Workers
      PROVE  /\ down'[u] \in Seq(Downward)
             /\ Changed(down'[u], down[u], Len(down[u]) + 1, Tells(w, u))
             /\ ~session[u] => down'[u] = down[u]
             /\ u \in DOMAIN mail /\ conn[u] = "live" /\ session[u] =>
                 Behind(down'[u], down[u], mail[u])
  <2>0. PICK y \in Seq(Downward) : y = down[u]
    BY <1>1
  <2>1. CASE u \in DOMAIN mail /\ conn[u] = "live" /\ session[u]
    <3>1. PICK s \in Seq(Downward) : s = mail[u]
      BY <2>1 DEF DueMail
    <3>2. PICK f : f = y \o s
      OBVIOUS
    <3>3. down'[u] = f
      BY <1>2, <2>0, <2>1, <3>1, <3>2
    <3>4. (\A j \in DOMAIN s : s[j] \in Tells(w, u)) /\ \A i, j \in DOMAIN s : s[i].type = s[j].type => i = j
      BY <2>1, <3>1 DEF DueMail
    <3>5. f \in Seq(Downward)
      BY <3>2
    <3>6. Changed(f, y, Len(y) + 1, Tells(w, u))
      BY <3>2, <3>4, AppendChanged
    <3>7. Behind(f, y, s)
      BY <3>2, AtTheEnd
    <3> QED
      BY <2>0, <2>1, <3>1, <3>3, <3>5, <3>6, <3>7
  <2>2. CASE ~(u \in DOMAIN mail /\ conn[u] = "live" /\ session[u])
    <3>1. down'[u] = y
      BY <1>2, <2>0, <2>2
    <3>2. Changed(y, y, Len(y) + 1, Tells(w, u))
      BY SameChanged
    <3> QED
      BY <2>0, <2>2, <3>1, <3>2
  <2> QED
    BY <2>1, <2>2
<1> QED
  BY <1>3 DEF Posts

LEMMA PostsNothing == ASSUME RuntimeInv, NEW w, UNCHANGED down PROVE Posts(w)
<1>1. ASSUME NEW u \in Workers
      PROVE  down'[u] \in Seq(Downward) /\ Changed(down'[u], down[u], Len(down[u]) + 1, Tells(w, u)) /\ down'[u] = down[u]
  <2>1. PICK y \in Seq(Downward) : y = down[u]
    BY DEF RuntimeInv
  <2>2. Changed(y, y, Len(y) + 1, Tells(w, u))
    BY SameChanged
  <2> QED
    BY <2>1, <2>2
<1> QED
  BY <1>1 DEF Posts

LEMMA PostsReply ==
    ASSUME RuntimeInv, NEW w \in Workers, NEW m \in Downward, Due(w, w, m), Deliver(Mail({w}, m))
    PROVE  Posts(w)
<1>1. PICK mail : mail = Mail({w}, m)
  OBVIOUS
<1>2. DOMAIN mail = {w} /\ mail[w] = <<m>>
  BY <1>1 DEF Mail
<1>3. PICK s : s = <<m>>
  OBVIOUS
<1>4. s \in Seq(Downward) /\ DOMAIN s = {1} /\ s[1] = m
  BY <1>3
<1>5. m \in Tells(w, w)
  BY DEF Tells
<1>6. DueMail(w, mail)
  <2>1. ASSUME NEW u \in Workers, u \in DOMAIN mail
        PROVE  /\ mail[u] \in Seq(Downward) /\ \A j \in DOMAIN mail[u] : mail[u][j] \in Tells(w, u)
               /\ \A i, j \in DOMAIN mail[u] : mail[u][i].type = mail[u][j].type => i = j
    <3>1. u = w /\ mail[u] = s
      BY <1>2, <1>3, <2>1
    <3> QED
      BY <1>4, <1>5, <3>1
  <2> QED
    BY <2>1 DEF DueMail
<1>7. Deliver(mail)
  BY <1>1
<1> QED
  BY <1>6, <1>7, DeliverPosts

LEMMA PostsBoth ==
    ASSUME RuntimeInv, NEW w \in Workers, NEW ws \in SUBSET Workers, NEW reply \in Downward, NEW push \in Downward,
           reply.type # push.type, Due(w, w, reply), \A u \in ws : Due(w, u, push),
           Deliver(ReplyAndPush(w, reply, ws, push))
    PROVE  /\ Posts(w)
           /\ conn[w] = "live" /\ session[w] =>
                 \E k \in DOMAIN down'[w] : At(Len(down[w]) + 1, k) > Len(down[w]) /\ down'[w][k] = reply
           /\ \A u \in ws : conn[u] = "live" /\ session[u] =>
                 \E k \in DOMAIN down'[u] : At(Len(down[u]) + 1, k) > Len(down[u]) /\ down'[u][k] = push
<1>1. PICK mail : mail = ReplyAndPush(w, reply, ws, push)
  OBVIOUS
<1>2. /\ DOMAIN mail = ws \cup {w}
      /\ \A u \in ws \cup {w} :
            mail[u] = (IF u = w THEN <<reply>> ELSE <<>>) \o (IF u \in ws THEN <<push>> ELSE <<>>)
  BY <1>1 DEF ReplyAndPush
<1>3. reply \in Tells(w, w) /\ \A u \in ws : push \in Tells(w, u)
  BY DEF Tells
<1>4. ASSUME NEW u \in ws \cup {w}
      PROVE  /\ mail[u] \in Seq(Downward) /\ \A j \in DOMAIN mail[u] : mail[u][j] \in Tells(w, u)
             /\ \A i, j \in DOMAIN mail[u] : mail[u][i].type = mail[u][j].type => i = j
             /\ u = w => \E j \in DOMAIN mail[u] : mail[u][j] = reply
             /\ u \in ws => \E j \in DOMAIN mail[u] : mail[u][j] = push
  <2>1. CASE u = w /\ u \in ws
    <3>1. PICK s : s = <<reply>> \o <<push>>
      OBVIOUS
    <3>2. s \in Seq(Downward) /\ DOMAIN s = {1, 2} /\ s[1] = reply /\ s[2] = push
      BY <3>1
    <3>3. mail[u] = s
      BY <1>2, <2>1, <3>1
    <3> QED
      BY <1>3, <2>1, <3>2, <3>3
  <2>2. CASE u = w /\ u \notin ws
    <3>1. PICK s : s = <<reply>> \o <<>>
      OBVIOUS
    <3>2. s \in Seq(Downward) /\ DOMAIN s = {1} /\ s[1] = reply
      BY <3>1
    <3>3. mail[u] = s
      BY <1>2, <2>2, <3>1
    <3> QED
      BY <1>3, <2>2, <3>2, <3>3
  <2>3. CASE u # w
    <3>1. PICK s : s = <<>> \o <<push>>
      OBVIOUS
    <3>2. s \in Seq(Downward) /\ DOMAIN s = {1} /\ s[1] = push
      BY <3>1
    <3>3. mail[u] = s
      BY <1>2, <2>3, <3>1
    <3> QED
      BY <1>3, <2>3, <3>2, <3>3
  <2> QED
    BY <2>1, <2>2, <2>3
<1>5. DueMail(w, mail)
  BY <1>2, <1>4 DEF DueMail
<1>6. Deliver(mail)
  BY <1>1
<1>7. Posts(w) /\ \A u \in Workers : u \in DOMAIN mail /\ conn[u] = "live" /\ session[u] =>
                 Behind(down'[u], down[u], mail[u])
  BY <1>5, <1>6, DeliverPosts
<1>8. \A u \in ws \cup {w} : u \in Workers /\ u \in DOMAIN mail
  BY <1>2
<1>9. ASSUME conn[w] = "live", session[w]
      PROVE  \E k \in DOMAIN down'[w] : At(Len(down[w]) + 1, k) > Len(down[w]) /\ down'[w][k] = reply
  <2>1. PICK j \in DOMAIN mail[w] : mail[w][j] = reply
    BY <1>4
  <2> QED
    BY <1>7, <1>8, <1>9, <2>1 DEF Behind
<1>10. ASSUME NEW u \in ws, conn[u] = "live", session[u]
       PROVE  \E k \in DOMAIN down'[u] : At(Len(down[u]) + 1, k) > Len(down[u]) /\ down'[u][k] = push
  <2>1. PICK j \in DOMAIN mail[u] : mail[u][j] = push
    BY <1>4
  <2> QED
    BY <1>7, <1>8, <1>10, <2>1 DEF Behind
<1> QED
  BY <1>7, <1>9, <1>10

\* The ledger's part of Attends.
Arranges(w) ==
    /\ \A p \in reservations' : \/ p \in reservations /\ (Head(up[w]).type = "decision" => p.follower # w)
                                \/ Asks(w, p)
    /\ \A r \in routes' : \/ \E s \in routes : SameRoute(s, r)
                          \/ \E p \in reservations : r.leader = p.leader /\ r.follower = p.follower /\ Accepted(w, p)

LEMMA Attending ==
    ASSUME RuntimeInv, NEW w \in Workers, NEW type, Receives(w, type), Posts(w), Arranges(w)
    PROVE  Attends(w)
<1>1. ASSUME NEW u \in Workers
      PROVE  /\ Turned(u, IF u = w THEN 1 ELSE Len(up[u]) + 1, {}, Len(down[u]) + 1, Tells(w, u))
             /\ u # w => up'[u] = up[u]
             /\ ~session[u] => down'[u] = down[u]
  <2>1. PICK x \in Seq(Upward) : x = up[u]
    BY DEF RuntimeInv
  <2>2. PICK y \in Seq(Downward) : y = down[u]
    BY DEF RuntimeInv
  <2>3. up'[u] = IF u = w THEN Tail(x) ELSE x
    BY <2>1 DEF Receives, RuntimeInv
  <2>4. u = w => x # <<>>
    BY <2>1 DEF Receives
  <2>5. up'[u] \in Seq(Upward) /\ Changed(up'[u], x, IF u = w THEN 1 ELSE Len(x) + 1, {})
    <3>1. CASE u = w
      <4>1. Tail(x) \in Seq(Upward) /\ Changed(Tail(x), x, 1, {})
        BY <2>4, <3>1, TailChanged
      <4> QED
        BY <2>3, <3>1, <4>1
    <3>2. CASE u # w
      <4>1. Changed(x, x, Len(x) + 1, {})
        BY SameChanged
      <4> QED
        BY <2>3, <3>2, <4>1
    <3> QED
      BY <3>1, <3>2
  <2>6. Len(x) + 1 \in Nat /\ Len(y) + 1 \in Nat
    OBVIOUS
  <2> QED
    BY <2>1, <2>2, <2>3, <2>5, <2>6 DEF Turned, Posts
<1> QED
  BY <1>1 DEF Attends, Arranges, Receives

\* News that have no bearing on the negotiation.
LEMMA OtherDue ==
    ASSUME NEW w, NEW u, NEW m,
           m.type \in {"unpair_result", "state_changed", "version_result", "assertion_result", "removed"}
    PROVE  Due(w, u, m)
  BY DEF Due, NoRouteNews

\* No reservation and no route is made.
LEMMA NothingArranged ==
    ASSUME NEW w, reservations' \subseteq reservations, Head(up[w]).type # "decision",
           \A r \in routes' : \E s \in routes : SameRoute(s, r)
    PROVE  Arranges(w)
  BY DEF Arranges

LEMMA SameAsBefore == ASSUME routes' \subseteq routes PROVE \A r \in routes' : \E s \in routes : SameRoute(s, r)
  BY DEF SameRoute

LEMMA RoleAttends ==
    ASSUME RuntimeInv, NEW w \in Workers, HandleRole(w)
    PROVE  Attends(w)
<1>1. Receives(w, "role") /\ Head(up[w]).type = "role" /\ routes' = routes /\ reservations' = reservations
  BY DEF HandleRole, Takes, Receives, ledger, pairing
<1>2. PICK m : m = [type |-> "role_result", route |-> View(w)]
  OBVIOUS
<1>3. m \in Downward /\ m.type = "role_result"
  <2>1. View(w) \in AnyRoute
    BY ViewFacts DEF RuntimeInv, LedgerInv
  <2> QED
    BY <1>2, <2>1, DownwardMade
<1>4. Due(w, w, m)
  BY <1>1, <1>3 DEF Due, NoRouteNews
<1>5. Posts(w)
  BY <1>2, <1>3, <1>4, PostsReply DEF HandleRole
<1>6. Arranges(w)
  BY <1>1, SameAsBefore, NothingArranged
<1> QED
  BY <1>1, <1>5, <1>6, Attending

LEMMA SyncAttends ==
    ASSUME RuntimeInv, NEW w \in Workers, HandleSync(w)
    PROVE  Attends(w)
<1>1. Receives(w, "sync") /\ Head(up[w]).type = "sync" /\ routes' = routes /\ reservations' = reservations
  BY DEF HandleSync, Takes, Receives, ledger, pairing
<1>2. PICK open \in BOOLEAN : open = ((\E p \in Holds(w) : ~p.lapsed) \/ UnderDecision(wk[w].proposal))
  OBVIOUS
<1>3. PICK v : v = View(w)
  OBVIOUS
<1>4. v \in AnyRoute /\ (v = NoRoute => w \notin Routed)
  <2>1. \A s \in routes : s # NoRoute
    BY RouteIsNot DEF RuntimeInv, LedgerInv, LedgerTypeOK
  <2> QED
    BY <1>3, <2>1, ViewFacts DEF RuntimeInv, LedgerInv, Routed
<1>5. PICK m : m = [type |-> "sync_result", route |-> v, open |-> open]
  OBVIOUS
<1>6. m \in Downward /\ m.type = "sync_result" /\ m.route = v /\ m.open = open
  BY <1>2, <1>4, <1>5, DownwardMade
<1>7. Due(w, w, m)
  <2>1. ASSUME NoRouteNews(m), ~m.open
        PROVE  /\ w \notin Routed /\ ~UnderDecision(wk[w].proposal)
               /\ \A p \in reservations : w \in Pair(p) => p.lapsed
    BY <1>2, <1>4, <1>6, <2>1 DEF NoRouteNews, Holds
  <2> QED
    BY <1>1, <1>6, <2>1 DEF Due
<1>8. Posts(w)
  <2>1. Deliver(Mail({w}, m))
    BY <1>2, <1>3, <1>5 DEF HandleSync
  <2> QED
    BY <1>6, <1>7, <2>1, PostsReply
<1>9. Arranges(w)
  BY <1>1, SameAsBefore, NothingArranged
<1> QED
  BY <1>1, <1>8, <1>9, Attending

LEMMA ListAttends ==
    ASSUME RuntimeInv, NEW w \in Workers, HandleList(w)
    PROVE  Attends(w)
<1>1. /\ Receives(w, "list") /\ Head(up[w]).type = "list"
      /\ routes' = routes /\ reservations' \subseteq reservations
  BY DEF HandleList, Takes, Receives, ExpireLapsed, Unexpired
<1>2. PICK s : /\ s \in SUBSET Workers /\ s \cap Leaders = {}
               /\ Deliver(Mail({w}, [type |-> "list_result", followers |-> s]))
  BY DEF HandleList, Connected
<1>3. PICK m : m = [type |-> "list_result", followers |-> s]
  OBVIOUS
<1>4. m \in Downward /\ m.type = "list_result" /\ m.followers = s
  BY <1>2, <1>3, DownwardMade
<1>5. Due(w, w, m)
  BY <1>1, <1>2, <1>4 DEF Due, NoRouteNews
<1>6. Posts(w)
  BY <1>2, <1>3, <1>4, <1>5, PostsReply
<1>7. Arranges(w)
  BY <1>1, SameAsBefore, NothingArranged
<1> QED
  BY <1>1, <1>6, <1>7, Attending

LEMMA VersionAttends ==
    ASSUME RuntimeInv, NEW w \in Workers, HandleVersion(w)
    PROVE  Attends(w)
<1>1. /\ Receives(w, "version") /\ Head(up[w]).type = "version"
      /\ routes' = routes /\ reservations' = reservations
  BY DEF HandleVersion, Takes, Receives, RecordVersion, ledger, pairing
<1>2. CASE UNCHANGED down
  BY <1>1, <1>2, PostsNothing, SameAsBefore, NothingArranged, Attending
<1>3. CASE Deliver(Mail({w}, [type |-> "version_result"]))
  <2>1. PICK m : m = [type |-> "version_result"]
    OBVIOUS
  <2>2. m \in Downward /\ m.type = "version_result"
    BY <2>1, DownwardMade
  <2>3. Posts(w)
    <3>1. Due(w, w, m)
      BY <2>2, OtherDue
    <3> QED
      BY <1>3, <2>1, <2>2, <3>1, PostsReply
  <2> QED
    BY <1>1, <2>3, SameAsBefore, NothingArranged, Attending
<1> QED
  BY <1>2, <1>3 DEF HandleVersion

LEMMA UnpairAttends ==
    ASSUME RuntimeInv, NEW w \in Workers, HandleUnpair(w)
    PROVE  Attends(w)
<1>1. Receives(w, "unpair") /\ Head(up[w]).type = "unpair"
  BY DEF HandleUnpair, Receives
<1>2. CASE UNCHANGED <<ledger, down>>
  <2>1. routes' = routes /\ reservations' = reservations
    BY <1>2 DEF ledger, pairing
  <2> QED
    BY <1>1, <1>2, <2>1, PostsNothing, SameAsBefore, NothingArranged, Attending
<1>3. ASSUME NEW r \in routes, NEW a,
             LET s == [r EXCEPT !.state = IF a = "enter" THEN "UNPAIRING" ELSE "ACTIVE"] IN
             /\ (a = "enter" /\ EnterUnpairing(r, w)) \/ (a = "cancel" /\ CancelUnpairing(r, w))
             /\ Deliver(ReplyAndPush(w, [type |-> "unpair_result", route |-> s],
                                    Pair(r), [type |-> "state_changed", route |-> s]))
      PROVE  Attends(w)
  <2>1. PICK s : s = [r EXCEPT !.state = IF a = "enter" THEN "UNPAIRING" ELSE "ACTIVE"]
    OBVIOUS
  <2>2. routes' = (routes \ {r}) \cup {s} /\ reservations' = reservations
    BY <1>3, <2>1 DEF EnterUnpairing, CancelUnpairing
  <2>3. s \in Route /\ SameRoute(r, s) /\ Pair(r) \in SUBSET Workers
    <3>1. r \in Route
      BY DEF RuntimeInv, LedgerInv, LedgerTypeOK
    <3>2. s.id = r.id /\ s.leader = r.leader /\ s.follower = r.follower
      BY <2>1, <3>1 DEF Route
    <3> QED
      BY <2>1, <3>1, <3>2, RouteUpdate, PairsOfWorkers DEF SameRoute, RuntimeInv, LedgerInv, LedgerTypeOK
  <2>4. PICK m : m = [type |-> "unpair_result", route |-> s]
    OBVIOUS
  <2>5. PICK n : n = [type |-> "state_changed", route |-> s]
    OBVIOUS
  <2>6. m \in Downward /\ n \in Downward /\ m.type = "unpair_result" /\ n.type = "state_changed"
    BY <2>3, <2>4, <2>5, DownwardMade
  <2>7. Due(w, w, m) /\ \A u \in Pair(r) : Due(w, u, n)
    BY <2>6, OtherDue
  <2>8. Deliver(ReplyAndPush(w, m, Pair(r), n))
    BY <1>3, <2>1, <2>4, <2>5
  <2>9. Posts(w)
    BY <2>3, <2>6, <2>7, <2>8, PostsBoth
  <2>10. \A t \in routes' : \E x \in routes : SameRoute(x, t)
    BY <2>2, <2>3 DEF SameRoute
  <2> QED
    BY <1>1, <2>2, <2>9, <2>10, NothingArranged, Attending
<1> QED
  BY <1>2, <1>3 DEF HandleUnpair, RouteNamed

LEMMA AssertionAttends ==
    ASSUME RuntimeInv, NEW w \in Workers, HandleAssertion(w)
    PROVE  Attends(w)
<1>1. Receives(w, "assertion") /\ Head(up[w]).type = "assertion"
  BY DEF HandleAssertion, Takes, Receives
<1>2. routes' \subseteq routes /\ reservations' = reservations
  BY DEF HandleAssertion, RecordAssertion, RemoveRoutes, ledger, pairing
<1>3. Arranges(w)
  BY <1>1, <1>2, SameAsBefore, NothingArranged
<1>4. CASE UNCHANGED down
  BY <1>1, <1>3, <1>4, PostsNothing, Attending
<1>5. ASSUME NEW r \in routes,
             Deliver(ReplyAndPush(w, [type |-> "assertion_result"], Pair(r), [type |-> "removed", route |-> r.id]))
      PROVE  Attends(w)
  <2>1. r.id \in RouteIds /\ Pair(r) \in SUBSET Workers
    BY IssuedNumbers, PairsOfWorkers DEF RuntimeInv
  <2>2. PICK m : m = [type |-> "assertion_result"]
    OBVIOUS
  <2>3. PICK n : n = [type |-> "removed", route |-> r.id]
    OBVIOUS
  <2>4. m \in Downward /\ m.type = "assertion_result" /\ n \in Downward /\ n.type = "removed"
    BY <2>1, <2>2, <2>3, DownwardMade
  <2>5. Due(w, w, m) /\ \A u \in Pair(r) : Due(w, u, n)
    BY <2>4, OtherDue
  <2>6. Posts(w)
    BY <1>5, <2>1, <2>2, <2>3, <2>4, <2>5, PostsBoth
  <2> QED
    BY <1>1, <1>3, <2>6, Attending
<1> QED
  BY <1>4, <1>5 DEF HandleAssertion, RouteNamed

LEMMA ProposalAttends ==
    ASSUME RuntimeInv, LedgerInv', NEW w \in Workers, HandleProposal(w), \A v \in Workers : Deals(v), ~crossed'
    PROVE  Attends(w)
<1>1. Receives(w, "proposal") /\ Head(up[w]).type = "proposal" /\ conn[w] = "live" /\ up[w] # <<>>
  BY DEF HandleProposal, Receives
<1>2. ASSUME Deliver(Mail({w}, [type |-> "proposal_result", proposal |-> 0])), UNCHANGED <<ledger, crossed>>
      PROVE  Attends(w)
  <2>1. routes' = routes /\ reservations' = reservations
    BY <1>2 DEF ledger, pairing
  <2>2. PICK m : m = [type |-> "proposal_result", proposal |-> 0]
    OBVIOUS
  <2>3. m \in Downward /\ m.type = "proposal_result"
    BY <2>2, DownwardMade
  <2>4. Due(w, w, m)
    BY <1>1, <2>3 DEF Due, NoRouteNews
  <2>5. Posts(w)
    BY <1>2, <2>2, <2>3, <2>4, PostsReply
  <2> QED
    BY <1>1, <2>1, <2>5, SameAsBefore, NothingArranged, Attending
<1>3. ASSUME NEW f, f = Head(up[w]).follower, Reserve(w, f, Connected),
             crossed' = (crossed \/ UnderWay(f, {"proposed", "decision"})),
             Deliver(ReplyAndPush(w, [type |-> "proposal_result", proposal |-> proposed'],
                                  {f}, [type |-> "proposed", proposal |-> proposed', leader |-> w]))
      PROVE  Attends(w)
  <2>1. f \in Workers /\ f \in Connected /\ w \notin Routed /\ f \notin Routed /\ routes' = routes
    BY <1>3 DEF Reserve, CanReserve, MayPair, Eligible, Connected
  <2>2. f \notin Leaders
    BY <1>1, <1>3, HeadFacts DEF Deals, Sides
  <2>3. ~UnderWay(f, {"decision", "proposed"})
    BY <1>3 DEF UnderWay
  <2>4. conn[f] = "live" /\ session[f] /\ session[w]
    BY <1>1, <2>1 DEF Deals, Attached, Connected
  <2>5. PICK p : p = proposed' /\ p \in ProposalIds
    <3>1. proposed \in 0 .. MaxProposals /\ proposed < MaxProposals /\ proposed' = proposed + 1
      BY <1>3 DEF RuntimeInv, LedgerInv, LedgerTypeOK, Reserve
    <3> QED
      BY <3>1, LedgerAssumption DEF ProposalIds
  <2>6. PICK a : a = [type |-> "proposal_result", proposal |-> p]
    OBVIOUS
  <2>7. PICK b : b = [type |-> "proposed", proposal |-> p, leader |-> w]
    OBVIOUS
  <2>8. /\ a \in Downward /\ a.type = "proposal_result" /\ a.proposal = p
        /\ b \in Downward /\ b.type = "proposed" /\ b.proposal = p /\ b.leader = w
    BY <2>5, <2>6, <2>7, DownwardMade
  <2>9. Due(w, w, a) /\ \A u \in {f} : Due(w, u, b)
    BY <1>1, <2>1, <2>2, <2>3, <2>8 DEF Due, NoRouteNews
  <2>10. {f} \in SUBSET Workers /\ Deliver(ReplyAndPush(w, a, {f}, b))
    BY <1>3, <2>1, <2>5, <2>6, <2>7
  <2>11. /\ Posts(w)
         /\ \E k \in DOMAIN down'[w] : At(Len(down[w]) + 1, k) > Len(down[w]) /\ down'[w][k] = a
         /\ \E k \in DOMAIN down'[f] : At(Len(down[f]) + 1, k) > Len(down[f]) /\ down'[f][k] = b
    <3>1. PICK ws : ws = {f}
      OBVIOUS
    <3>2. ws \in SUBSET Workers /\ Deliver(ReplyAndPush(w, a, ws, b)) /\ \A u \in ws : Due(w, u, b)
      BY <2>9, <2>10, <3>1
    <3>3. a.type # b.type
      BY <2>8
    <3>4. /\ Posts(w)
          /\ conn[w] = "live" /\ session[w] =>
                \E k \in DOMAIN down'[w] : At(Len(down[w]) + 1, k) > Len(down[w]) /\ down'[w][k] = a
          /\ \A u \in ws : conn[u] = "live" /\ session[u] =>
                \E k \in DOMAIN down'[u] : At(Len(down[u]) + 1, k) > Len(down[u]) /\ down'[u][k] = b
      BY <2>8, <2>9, <3>2, <3>3, PostsBoth
    <3> QED
      BY <1>1, <2>4, <3>1, <3>4
  <2>12. PICK q : q = [id |-> p, leader |-> w, follower |-> f, lapsed |-> FALSE]
    OBVIOUS
  <2>13. reservations' = Unexpired \cup {q} /\ q.id = p /\ q.leader = w /\ q.follower = f
    BY <1>3, <2>5, <2>12 DEF Reserve
  <2>14. Asks(w, q)
    BY <1>1, <1>3, <2>1, <2>4, <2>8, <2>11, <2>13 DEF Asks
  <2>15. Arranges(w)
    <3>1. \A x \in reservations' : x \in reservations \/ Asks(w, x)
      BY <2>13, <2>14 DEF Unexpired
    <3> QED
      BY <1>1, <2>1, <3>1, SameAsBefore DEF Arranges
  <2> QED
    BY <1>1, <2>11, <2>15, Attending
<1> QED
  BY <1>2, <1>3 DEF HandleProposal

\* The decision of w is on the one reservation that names it as follower.
LEMMA DecisionFacts ==
    ASSUME RuntimeInv, NEW w \in Workers, Deals(w), up[w] # <<>>, Head(up[w]).type = "decision"
    PROVE  /\ w \notin Routed
           /\ \A q \in reservations : w \in Pair(q) => q.follower = w /\ q.id = Head(up[w]).proposal
           /\ \A p, q \in reservations : w \in Pair(p) /\ w \in Pair(q) => p = q
<1>1. 1 \in DOMAIN up[w] /\ Head(up[w]) = up[w][1]
  BY HeadFacts
<1>2. UnderWay(w, {"decision"}) /\ UnderWay(w, {"decision", "proposed"}) /\ UnderWay(w, {"decision", "proposed", "decision_result"})
  BY <1>1 DEF UnderWay
<1>3. w \notin Leaders
  BY <1>2 DEF Deals, Sides
<1>4. OneQuestion(w) /\ FollowerBound(w)
  BY <1>3 DEF Deals, Follows
<1>5. ASSUME NEW q \in reservations, w \in Pair(q)
      PROVE  q.follower = w /\ q.id = Head(up[w]).proposal
  <2>1. q.leader # w /\ Asked(w, q)
    BY <1>4, <1>5 DEF FollowerBound
  <2>2. \A k \in DOMAIN down[w] : down[w][k].type # "proposed"
    BY <1>1, <1>4 DEF OneQuestion, Once
  <2>3. PICK i \in DOMAIN up[w] : up[w][i].type = "decision" /\ up[w][i].proposal = q.id
    BY <2>1, <2>2 DEF Asked
  <2>4. i = 1
    BY <1>1, <1>4, <2>3 DEF OneQuestion, Once
  <2> QED
    BY <1>1, <1>5, <2>1, <2>3, <2>4 DEF Pair
<1>6. w \notin Routed
  BY <1>2, <1>4 DEF OneQuestion
<1>7. \A p, q \in reservations : w \in Pair(p) /\ w \in Pair(q) => p = q
  BY DEF RuntimeInv, LedgerInv, WorkerOnOneRoute
<1> QED
  BY <1>5, <1>6, <1>7

\* Without their reservation its Workers are in none, and on no route.
LEMMA ReleasedFree ==
    ASSUME RuntimeInv, NEW p \in reservations, NEW u \in Pair(p), reservations' = reservations \ {p}, routes' = routes
    PROVE  ~Paired(u)'
<1>1. \A q \in reservations : q # p => u \notin Pair(q)
  BY DEF RuntimeInv, LedgerInv, WorkerOnOneRoute
<1>2. \A r \in routes : u \notin Pair(r)
  BY DEF RuntimeInv, LedgerInv, WorkerOnOneRoute
<1> QED
  BY <1>1, <1>2 DEF Paired

LEMMA DecisionAttends ==
    ASSUME RuntimeInv, LedgerInv', NEW w \in Workers, HandleDecision(w), \A v \in Workers : Deals(v)
    PROVE  Attends(w)
<1>1. Receives(w, "decision") /\ Head(up[w]).type = "decision" /\ up[w] # <<>>
  BY DEF HandleDecision, Takes, Receives
<1>2. /\ w \notin Routed
      /\ \A q \in reservations : w \in Pair(q) => q.follower = w /\ q.id = Head(up[w]).proposal
      /\ \A p, q \in reservations : w \in Pair(p) /\ w \in Pair(q) => p = q
  BY <1>1, DecisionFacts
<1>3. ASSUME NEW b \in BOOLEAN, NEW m, m = [type |-> "decision_result", accepted |-> b, route |-> NoRoute]
      PROVE  m \in Downward /\ m.type = "decision_result" /\ m.accepted = b
  <2>1. NoRoute \in AnyRoute
    BY DEF AnyRoute
  <2> QED
    BY <1>3, <2>1, DownwardMade
<1>4. CASE /\ {p \in reservations : p.id = Head(up[w]).proposal /\ p.follower = w} = {}
           /\ Deliver(Mail({w}, [type |-> "decision_result", accepted |-> FALSE, route |-> NoRoute]))
           /\ UNCHANGED ledger
  <2>1. routes' = routes /\ reservations' = reservations
    BY <1>4 DEF ledger, pairing
  <2>2. \A q \in reservations : w \notin Pair(q)
    BY <1>2, <1>4
  <2>3. ~Paired(w)'
    BY <1>2, <2>1, <2>2 DEF Paired, Routed
  <2>4. PICK m : m = [type |-> "decision_result", accepted |-> FALSE, route |-> NoRoute]
    OBVIOUS
  <2>5. m \in Downward /\ m.type = "decision_result" /\ m.accepted = FALSE
    BY <1>3, <2>4
  <2>6. Due(w, w, m)
    BY <1>1, <2>3, <2>5 DEF Due, NoRouteNews
  <2>7. Posts(w)
    BY <1>4, <2>4, <2>5, <2>6, PostsReply
  <2>8. Arranges(w)
    BY <2>1, <2>2, SameAsBefore DEF Arranges, Pair
  <2> QED
    BY <1>1, <2>7, <2>8, Attending
<1>5. ASSUME NEW p \in reservations, p.follower = w, NEW b \in BOOLEAN, Release({p}),
             Deliver(ReplyAndPush(w, [type |-> "decision_result", accepted |-> b, route |-> NoRoute],
                                  {p.leader}, [type |-> "pairing_ended", proposal |-> p.id]))
      PROVE  Attends(w)
  <2>1. routes' = routes /\ reservations' = reservations \ {p}
    BY <1>5 DEF Release
  <2>2. w \in Pair(p) /\ p.leader \in Pair(p) /\ \A q \in reservations' : q.follower # w
    BY <1>2, <1>5, <2>1 DEF Pair
  <2>3. ~Paired(w)' /\ ~Paired(p.leader)'
    BY <2>1, <2>2, ReleasedFree
  <2>4. p.id \in ProposalIds /\ {p.leader} \in SUBSET Workers
    BY DEF RuntimeInv, LedgerInv, LedgerTypeOK, Reservation
  <2>5. PICK m : m = [type |-> "decision_result", accepted |-> b, route |-> NoRoute]
    OBVIOUS
  <2>6. PICK n : n = [type |-> "pairing_ended", proposal |-> p.id]
    OBVIOUS
  <2>7. m \in Downward /\ m.type = "decision_result" /\ n \in Downward /\ n.type = "pairing_ended"
    BY <1>3, <2>4, <2>5, <2>6, DownwardMade
  <2>8. Due(w, w, m)
    BY <1>1, <2>3, <2>7 DEF Due, NoRouteNews
  <2>9. \A u \in {p.leader} : Due(w, u, n)
    BY <1>1, <2>3, <2>7 DEF Due, NoRouteNews
  <2>10. Posts(w)
    BY <1>5, <2>4, <2>5, <2>6, <2>7, <2>8, <2>9, PostsBoth
  <2>11. Arranges(w)
    BY <2>1, <2>2, SameAsBefore DEF Arranges
  <2> QED
    BY <1>1, <2>10, <2>11, Attending
<1>6. ASSUME NEW p \in reservations, p.follower = w, p.id = Head(up[w]).proposal, Head(up[w]).accepted,
             CreateRoute(p, Connected),
             LET r == CHOOSE r \in routes' : r.id = issued' IN
             Deliver(ReplyAndPush(w, [type |-> "decision_result", accepted |-> TRUE, route |-> r],
                                  Pair(p), [type |-> "established", route |-> r]))
      PROVE  Attends(w)
  <2>1. PICK n : n = [id |-> issued', leader |-> p.leader, follower |-> p.follower, state |-> "ACTIVE"]
    OBVIOUS
  <2>2. /\ routes' = routes \cup {n} /\ n.id = issued' /\ n.state = "ACTIVE" /\ issued' = issued + 1
        /\ n.leader = p.leader /\ n.follower = p.follower /\ ~p.lapsed /\ reservations' = Unexpired \ {p}
    BY <1>6, <2>1 DEF CreateRoute, CanCreate, Unexpired
  <2>3. \A r \in routes : r.id # issued'
    BY <2>2 DEF RuntimeInv, LedgerInv, RouteIdsIssued, LedgerTypeOK, Route, RouteIds
  <2>4. n = CHOOSE r \in routes' : r.id = issued'
    BY <2>2, <2>3
  <2>5. n \in ActiveRoute /\ n \in AnyRoute
    BY <2>2 DEF LedgerInv, LedgerTypeOK, ActiveRoute, AnyRoute
  <2>6. Pair(p) \in SUBSET Workers /\ w \in Pair(p)
    BY <1>6, PairsOfWorkers DEF RuntimeInv, LedgerInv, LedgerTypeOK, Pair
  <2>7. PICK a : a = [type |-> "decision_result", accepted |-> TRUE, route |-> n]
    OBVIOUS
  <2>8. PICK b : b = [type |-> "established", route |-> n]
    OBVIOUS
  <2>9. /\ a \in Downward /\ a.type = "decision_result" /\ a.accepted = TRUE
        /\ b \in Downward /\ b.type = "established"
    BY <2>5, <2>7, <2>8, DownwardMade
  <2>10. Due(w, w, a) /\ \A u \in Pair(p) : Due(w, u, b)
    BY <1>1, <2>9 DEF Due, NoRouteNews
  <2>11. Deliver(ReplyAndPush(w, a, Pair(p), b))
    BY <1>6, <2>4, <2>7, <2>8
  <2>12. Posts(w)
    BY <2>6, <2>9, <2>10, <2>11, PostsBoth
  <2>13. \A q \in reservations' : q \in reservations /\ q.follower # w
    BY <1>2, <2>2, <2>6 DEF Unexpired, Pair
  <2>14. Accepted(w, p)
    BY <1>1, <1>6, <2>2 DEF Accepted
  <2>15. Arranges(w)
    <3>1. \A r \in routes' : \/ \E s \in routes : SameRoute(s, r)
                             \/ \E q \in reservations : r.leader = q.leader /\ r.follower = q.follower /\ Accepted(w, q)
      BY <2>2, <2>14 DEF SameRoute
    <3> QED
      BY <2>13, <3>1 DEF Arranges
  <2> QED
    BY <1>1, <2>12, <2>15, Attending
<1> QED
  BY <1>4, <1>5, <1>6 DEF HandleDecision, CreateFails

\* Every handler attends to the message it takes.
LEMMA ServiceAttends ==
    ASSUME RuntimeInv, LedgerInv', NEW w \in Workers, Service(w), \A v \in Workers : Deals(v), ~crossed'
    PROVE  Attends(w)
  BY RoleAttends, ListAttends, SyncAttends, ProposalAttends, DecisionAttends, UnpairAttends, VersionAttends,
     AssertionAttends DEF Service

----------------------------------------------------------------------------
(***************************************************************************)
(* A Worker that serves a message or acts by itself.                       *)
(***************************************************************************)

\* What is not touched stays as it is.
LEMMA Untouched ==
    ASSUME NEW u \in Workers, wk'[u] = wk[u], up'[u] = up[u], down'[u] = down[u], owed'[u] = owed[u],
           conn'[u] = conn[u], session'[u] = session[u], UNCHANGED <<reservations, routes>>, Deals(u)
    PROVE  Deals(u)'
<1>1. (Paired(u)' <=> Paired(u)) /\ (u \in Routed' <=> u \in Routed)
  BY DEF Paired, Routed
<1>2. \A T : UnderWay(u, T)' <=> UnderWay(u, T)
  BY DEF UnderWay
<1>3. \A T : Once(u, T)' <=> Once(u, T)
  BY DEF Once
<1>4. Attached(u)' /\ Sides(u)'
  BY <1>1, <1>2 DEF Deals, Attached, Sides
<1>5. ASSUME u \in Leaders PROVE Leads(u)'
  <2>1. InStep(u)' /\ SyncsFirst(u)'
    BY <1>2, <1>3, <1>5 DEF Deals, Leads, InStep, Step, SyncsFirst
  <2>2. EndedLast(u)'
    BY <1>1, <1>5 DEF Deals, Leads, EndedLast
  <2>3. \A id, f : Proposes(u, id, f) => Proposes(u, id, f)'
    BY DEF Proposes
  <2>4. LeaderBound(u)'
    BY <1>5, <2>3 DEF Deals, Leads, LeaderBound
  <2> QED
    BY <2>1, <2>2, <2>4 DEF Leads
<1>6. ASSUME u \notin Leaders PROVE Follows(u)'
  <2>1. OneQuestion(u)'
    BY <1>1, <1>2, <1>3, <1>6 DEF Deals, Follows, OneQuestion
  <2>2. \A l : Accepts(u, l) => Accepts(u, l)'
    BY DEF Accepts
  <2>3. \A p : Asked(u, p) => Asked(u, p)'
    BY <2>2 DEF Asked
  <2>4. FollowerBound(u)'
    BY <1>6, <2>2, <2>3 DEF Deals, Follows, FollowerBound
  <2> QED
    BY <2>1, <2>4 DEF Follows
<1> QED
  BY <1>4, <1>5, <1>6 DEF Deals

\* The Worker takes the b-th of its news and sends messages of M.
Goes(w, b, M) ==
    /\ session[w] /\ b \in Nat
    /\ UNCHANGED <<conn, session, routes, reservations>>
    /\ Turned(w, Len(up[w]) + 1, M, b, {})
    /\ \A j \in DOMAIN down'[w] : At(b, j) <= owed[w] => j <= owed'[w]
    /\ b \in DOMAIN down[w] /\ b > 1 => owed'[w] = b - 1

LEMMA ServeGoes ==
    ASSUME RuntimeInv, NEW w \in Workers, NEW k \in Served(w), NEW rec, NEW ms \in Seq(Upward), NEW M,
           \A j \in DOMAIN ms : ms[j] \in M, \A i, j \in DOMAIN ms : ms[i].type = ms[j].type => i = j,
           Serve(w, k, rec, ms)
    PROVE  Goes(w, k, M) /\ wk'[w] = rec
<1>1. PICK x \in Seq(Upward) : x = up[w]
  BY DEF RuntimeInv
<1>2. PICK y \in Seq(Downward) : y = down[w]
  BY DEF RuntimeInv
<1>3. k \in DOMAIN y
  BY <1>2 DEF Served
<1>4. PICK e : e = SubSeq(y, 1, k - 1) \o SubSeq(y, k + 1, Len(y))
  OBVIOUS
<1>5. PICK f : f = x \o ms
  OBVIOUS
<1>6. down'[w] = e /\ up'[w] = f /\ wk'[w] = rec
  BY <1>1, <1>2, <1>4, <1>5 DEF Serve, RuntimeInv
<1>7. e \in Seq(Downward) /\ f \in Seq(Upward) /\ k \in Nat /\ k \in 1 .. Len(y) /\ Len(x) + 1 \in Nat
  BY <1>3, <1>4, <1>5, TakenOut
<1>8. Changed(e, y, k, {})
  BY <1>3, <1>4, OutChanged
<1>9. Changed(f, x, Len(x) + 1, M)
  BY <1>5, AppendChanged
<1>10. Turned(w, Len(up[w]) + 1, M, k, {})
  BY <1>1, <1>2, <1>6, <1>7, <1>8, <1>9 DEF Turned
<1>11. PICK o \in Nat : o = owed[w]
  BY DEF RuntimeInv
<1>12. owed'[w] = IF k > 1 THEN k - 1 ELSE IF o > 0 THEN o - 1 ELSE 0
  BY <1>11 DEF Serve, RuntimeInv
<1>13. k # 1 => o = 0
  BY <1>11 DEF Served
<1>14. ASSUME NEW j \in DOMAIN down'[w], At(k, j) <= o PROVE j <= owed'[w]
  <2>1. j \in Nat /\ j >= 1
    BY <1>6, <1>7
  <2>2. CASE k = 1
    BY <1>12, <1>14, <2>1, <2>2 DEF At
  <2>3. CASE k # 1
    BY <1>7, <1>13, <1>14, <2>1, <2>3 DEF At
  <2> QED
    BY <2>2, <2>3
<1>15. session[w] /\ UNCHANGED <<conn, session, routes, reservations>>
  BY DEF Serve, ledger, pairing
<1>16. k > 1 => owed'[w] = k - 1
  BY <1>12
<1> QED
  BY <1>6, <1>7, <1>10, <1>11, <1>14, <1>15, <1>16 DEF Goes

LEMMA ActGoes ==
    ASSUME RuntimeInv, NEW w \in Workers, NEW rec, NEW ms \in Seq(Upward), NEW M,
           \A j \in DOMAIN ms : ms[j] \in M, \A i, j \in DOMAIN ms : ms[i].type = ms[j].type => i = j,
           Act(w, rec, ms)
    PROVE  Goes(w, Len(down[w]) + 1, M) /\ wk'[w] = rec /\ owed[w] = 0
<1>1. PICK x \in Seq(Upward) : x = up[w]
  BY DEF RuntimeInv
<1>2. PICK y \in Seq(Downward) : y = down[w]
  BY DEF RuntimeInv
<1>3. PICK f : f = x \o ms
  OBVIOUS
<1>4. down'[w] = y /\ up'[w] = f /\ wk'[w] = rec /\ owed[w] = 0 /\ owed'[w] = 0
  BY <1>1, <1>2, <1>3 DEF Act, RuntimeInv
<1>5. f \in Seq(Upward) /\ Len(x) + 1 \in Nat /\ Len(y) + 1 \in Nat /\ Len(y) + 1 \notin DOMAIN y
  BY <1>3
<1>6. Changed(y, y, Len(y) + 1, {})
  BY SameChanged
<1>7. Changed(f, x, Len(x) + 1, M)
  BY <1>3, AppendChanged
<1>8. Turned(w, Len(up[w]) + 1, M, Len(down[w]) + 1, {})
  BY <1>1, <1>2, <1>4, <1>5, <1>6, <1>7 DEF Turned
<1>10. \A j \in DOMAIN y : ~(At(Len(y) + 1, j) <= 0)
  <2>1. PICK n \in Nat : n = Len(y)
    OBVIOUS
  <2>2. \A j \in 1 .. n : ~(At(n + 1, j) <= 0)
    BY DEF At
  <2> QED
    BY <2>1, <2>2
<1>11. session[w] /\ UNCHANGED <<conn, session, routes, reservations>>
  BY DEF Act, ledger, pairing
<1> QED
  BY <1>2, <1>4, <1>5, <1>8, <1>10, <1>11 DEF Goes

\* Nothing, or one message, is sent.
LEMMA ServeNone ==
    ASSUME RuntimeInv, NEW w \in Workers, NEW k \in Served(w), NEW rec, Serve(w, k, rec, <<>>)
    PROVE  Goes(w, k, {}) /\ wk'[w] = rec
<1>1. PICK ms : ms = <<>>
  OBVIOUS
<1>2. ms \in Seq(Upward) /\ \A j \in DOMAIN ms : FALSE
  BY <1>1
<1>3. Serve(w, k, rec, ms)
  BY <1>1
<1> QED
  BY <1>2, <1>3, ServeGoes

LEMMA ServeOne ==
    ASSUME RuntimeInv, NEW w \in Workers, NEW k \in Served(w), NEW rec, NEW m \in Upward, Serve(w, k, rec, <<m>>)
    PROVE  Goes(w, k, {m}) /\ wk'[w] = rec /\ \E i \in DOMAIN up'[w] : up'[w][i] = m
<1>0. <<m>> \in Seq(Upward)
  OBVIOUS
<1>1. PICK ms \in Seq(Upward) : ms = <<m>>
  BY <1>0, Zenon
<1>2. ms \in Seq(Upward) /\ DOMAIN ms = {1} /\ ms[1] = m
  BY <1>1
<1>3. Serve(w, k, rec, ms)
  BY <1>1
<1>4. PICK M : M = {m}
  OBVIOUS
<1>5. (\A j \in DOMAIN ms : ms[j] \in M) /\ \A i, j \in DOMAIN ms : ms[i].type = ms[j].type => i = j
  BY <1>2, <1>4
<1>6. Goes(w, k, M) /\ wk'[w] = rec
  BY <1>2, <1>3, <1>5, ServeGoes
<1>7. PICK x \in Seq(Upward) : x = up[w]
  BY DEF RuntimeInv
<1>8. PICK f : f = x \o ms
  OBVIOUS
<1>9. up'[w] = f
  BY <1>3, <1>7, <1>8 DEF Serve, RuntimeInv
<1>10. Len(x) + 1 \in DOMAIN f /\ f[Len(x) + 1] = m
  <2>1. PICK n \in Nat : n = Len(x)
    OBVIOUS
  <2>2. PICK p \in Nat : p = Len(ms)
    OBVIOUS
  <2>3. p = 1
    BY <1>1, <2>2
  <2>4. DOMAIN f = 1 .. (n + p) /\ \A i \in 1 .. (n + p) : f[i] = IF i <= n THEN x[i] ELSE ms[i - n]
    BY <1>8, <2>1, <2>2
  <2>5. n + 1 \in 1 .. (n + p) /\ ~(n + 1 <= n) /\ (n + 1) - n = 1
    BY <2>3
  <2> QED
    BY <1>2, <2>1, <2>4, <2>5
<1> QED
  BY <1>4, <1>6, <1>9, <1>10

LEMMA ActNone ==
    ASSUME RuntimeInv, NEW w \in Workers, NEW rec, Act(w, rec, <<>>)
    PROVE  Goes(w, Len(down[w]) + 1, {}) /\ wk'[w] = rec
<1>1. PICK ms : ms = <<>>
  OBVIOUS
<1>2. ms \in Seq(Upward) /\ \A j \in DOMAIN ms : FALSE
  BY <1>1
<1>3. Act(w, rec, ms)
  BY <1>1
<1> QED
  BY <1>2, <1>3, ActGoes

LEMMA ActOne ==
    ASSUME RuntimeInv, NEW w \in Workers, NEW rec, NEW m \in Upward, Act(w, rec, <<m>>)
    PROVE  Goes(w, Len(down[w]) + 1, {m}) /\ wk'[w] = rec /\ owed[w] = 0
<1>1. PICK ms : ms = <<m>>
  OBVIOUS
<1>2. ms \in Seq(Upward) /\ DOMAIN ms = {1} /\ ms[1] = m
  BY <1>1
<1>3. Act(w, rec, ms)
  BY <1>1
<1>4. PICK M : M = {m}
  OBVIOUS
<1>5. (\A j \in DOMAIN ms : ms[j] \in M) /\ \A i, j \in DOMAIN ms : ms[i].type = ms[j].type => i = j
  BY <1>2, <1>4
<1> QED
  BY <1>2, <1>3, <1>4, <1>5, ActGoes

LEMMA GoesFacts ==
    ASSUME RuntimeInv, NEW w \in Workers, NEW b, NEW M, Goes(w, b, M)
    PROVE  /\ \A T : UnderWay(w, T)' => UnderWay(w, T) \/ \E m \in M : m.type \in T
           /\ \A j \in DOMAIN down'[w] :
                 At(b, j) \in DOMAIN down[w] /\ At(b, j) # b /\ down'[w][j] = down[w][At(b, j)]
           /\ \A i \in DOMAIN down[w] : i # b => \E j \in DOMAIN down'[w] : At(b, j) = i /\ down'[w][j] = down[w][i]
           /\ \A i, j \in DOMAIN down'[w] : i < j <=> At(b, i) < At(b, j)
           /\ \A i \in DOMAIN up[w] : \E j \in DOMAIN up'[w] : up'[w][j] = up[w][i]
           /\ \A j \in DOMAIN up'[w] : (\E i \in DOMAIN up[w] : up'[w][j] = up[w][i]) \/ up'[w][j] \in M
           /\ (Paired(w)' <=> Paired(w)) /\ Routed' = Routed
<1>1. Turned(w, Len(up[w]) + 1, M, b, {})
  BY DEF Goes
<1>2. Kept(up'[w], up[w], Len(up[w]) + 1, M) /\ Kept(down'[w], down[w], b, {})
  BY <1>1, TurnedKept
<1>3. \A T : UnderWay(w, T)' => UnderWay(w, T) \/ \E m \in M : m.type \in T
  BY <1>1, StillUnderWay
<1>4. /\ \A j \in DOMAIN down'[w] : At(b, j) \in DOMAIN down[w] /\ At(b, j) # b /\ down'[w][j] = down[w][At(b, j)]
      /\ \A i \in DOMAIN down[w] : i # b => \E j \in DOMAIN down'[w] : At(b, j) = i /\ down'[w][j] = down[w][i]
      /\ \A i, j \in DOMAIN down'[w] : i < j <=> At(b, i) < At(b, j)
  BY <1>2 DEF Kept
<1>5. \A i \in DOMAIN up[w] : i # Len(up[w]) + 1
  BY InQueue
<1>6. /\ \A i \in DOMAIN up[w] : \E j \in DOMAIN up'[w] : up'[w][j] = up[w][i]
      /\ \A j \in DOMAIN up'[w] : (\E i \in DOMAIN up[w] : up'[w][j] = up[w][i]) \/ up'[w][j] \in M
  BY <1>2, <1>5 DEF Kept
<1>7. (Paired(w)' <=> Paired(w)) /\ Routed' = Routed
  BY DEF Goes, Paired, Routed
<1> QED
  BY <1>3, <1>4, <1>6, <1>7

\* A request begins a step.
LEMMA StepBegins ==
    ASSUME RuntimeInv, NEW w \in Workers, NEW b, NEW M, Goes(w, b, M), NEW T, NEW state, Once(w, T),
           ~UnderWay(w, T) \/ Out(w, Len(up[w]) + 1, b, T), \A m, n \in M : m.type = n.type,
           wk'[w].pairing = state, wk'[w].route = NoRoute
    PROVE  Step(w, T, state)'
<1>1. Turned(w, Len(up[w]) + 1, M, b, {})
  BY DEF Goes
<1>2. Once(w, T)'
  <2>1. \A m, n \in M \cup {} : m.type \in T /\ n.type \in T => m.type = n.type
    OBVIOUS
  <2>2. \A m \in {} : m.type \notin T
    OBVIOUS
  <2> QED
    BY <1>1, <2>1, <2>2, OnceAgain
<1> QED
  BY <1>2 DEF Step

\* A step is over.
LEMMA StepOver ==
    ASSUME RuntimeInv, NEW w \in Workers, NEW b, NEW M, Goes(w, b, M), NEW T, Once(w, T),
           ~UnderWay(w, T) \/ Out(w, Len(up[w]) + 1, b, T), \A m \in M : m.type \notin T
    PROVE  ~UnderWay(w, T)' /\ Once(w, T)'
<1>1. Turned(w, Len(up[w]) + 1, M, b, {})
  BY DEF Goes
<1>2. \A m \in M \cup {} : m.type \notin T
  OBVIOUS
<1>3. Once(w, T)'
  BY <1>1, <1>2, StillOnce
<1>4. ~UnderWay(w, T)'
  <2>1. CASE ~UnderWay(w, T)
    BY <2>1, GoesFacts
  <2>2. CASE Out(w, Len(up[w]) + 1, b, T)
    BY <1>1, <1>2, <2>2, NoLonger
  <2> QED
    BY <2>1, <2>2
<1> QED
  BY <1>3, <1>4

\* A step goes on.
LEMMA StepStays ==
    ASSUME RuntimeInv, NEW w \in Workers, NEW b, NEW M, Goes(w, b, M), NEW T, NEW state, Step(w, T, state),
           \A m \in M : m.type \notin T, wk'[w].pairing = wk[w].pairing, wk[w].route = NoRoute => wk'[w].route = NoRoute
    PROVE  Step(w, T, state)'
<1>1. Turned(w, Len(up[w]) + 1, M, b, {}) /\ \A m \in M \cup {} : m.type \notin T
  BY DEF Goes
<1>2. Once(w, T)'
  BY <1>1, StillOnce DEF Step
<1>3. UnderWay(w, T)' => UnderWay(w, T)
  BY GoesFacts
<1> QED
  BY <1>2, <1>3 DEF Step

\* A Worker that is neither in a step nor told of an end has only what it is bound to.
LEMMA IdleLeads ==
    ASSUME NEW w, ~UnderWay(w, RoleTypes)', ~UnderWay(w, ListTypes)', ~UnderWay(w, ProposalTypes)',
           Once(w, RoleTypes)', Once(w, ListTypes)', Once(w, ProposalTypes)',
           EndedLast(w)', wk'[w].pairing # "proposing", LeaderBound(w)'
    PROVE  Leads(w)'
<1>1. \A i \in DOMAIN up'[w] : up'[w][i].type \notin {"list", "proposal"}
  BY DEF UnderWay, ListTypes, ProposalTypes
<1>2. \A i \in DOMAIN down'[w] : down'[w][i].type # "list_result"
  BY DEF UnderWay, ListTypes
<1>3. InStep(w)'
  BY <1>1 DEF InStep, Step
<1>4. SyncsFirst(w)'
  BY <1>1, <1>2 DEF SyncsFirst
<1> QED
  BY <1>3, <1>4 DEF Leads

\* In which steps a leader may be told that a pairing ended.
LEMMA EndedWhen ==
    ASSUME NEW w, InStep(w), EndedLast(w), NEW k \in DOMAIN down[w], down[w][k].type = "pairing_ended"
    PROVE  wk[w].pairing \in {"awaiting_decision", "selecting", "proposing"} /\ wk[w].route = NoRoute /\ ~Paired(w)
<1>1. ASSUME NEW j \in DOMAIN down[w], down[w][j].type = "proposal_result" PROVE wk[w].pairing = "proposing"
  BY <1>1 DEF InStep, Step, UnderWay, ProposalTypes
<1> QED
  BY <1>1 DEF EndedLast

\* In which steps a leader may be in a pairing.
LEMMA PairedWhen ==
    ASSUME RuntimeInv, NEW w, LeaderBound(w), wk[w].route = NoRoute, Paired(w)
    PROVE  \E id \in ProposalIds : \E f : Proposes(w, id, f)
<1>1. \A p \in reservations : p.id \in ProposalIds
  BY DEF RuntimeInv, LedgerInv, LedgerTypeOK, Reservation
<1> QED
  BY <1>1 DEF LeaderBound, Paired

\* The Worker is not in a pairing.
LEMMA UnboundLeader ==
    ASSUME NEW w, ~Paired(w)'
    PROVE  LeaderBound(w)'
  BY DEF LeaderBound, Paired

LEMMA GoesAttached ==
    ASSUME RuntimeInv, NEW w \in Workers, NEW b, NEW M, Goes(w, b, M), Attached(w), ~wk'[w].failed,
           wk'[w].reconciling => wk'[w].route # NoRoute
    PROVE  Attached(w)'
  BY DEF Goes, Attached

LEMMA GoesSides ==
    ASSUME RuntimeInv, NEW w \in Workers, NEW b, NEW M, Goes(w, b, M), Sides(w),
           w \in Leaders => \A m \in M : m.type # "decision" /\ (m.type = "proposal" => m.follower \notin Leaders),
           w \notin Leaders => wk'[w].pairing # "selecting" /\ \A m \in M : m.type \notin {"list", "proposal"},
           \A m \in M : m \in Upward
    PROVE  Sides(w)'
<1>1. \A m \in M : m.type \notin {"proposed", "decision_result", "list_result", "proposal_result", "pairing_ended"}
  BY DEF Upward
<1>2. ASSUME w \in Leaders PROVE ~UnderWay(w, {"decision", "proposed", "decision_result"})'
  BY <1>1, <1>2, GoesFacts DEF Sides
<1>3. ASSUME w \notin Leaders
      PROVE  ~UnderWay(w, {"list", "list_result", "proposal", "proposal_result", "pairing_ended"})'
  BY <1>1, <1>3, GoesFacts DEF Sides
<1>4. \A i \in DOMAIN up'[w] : up'[w][i].type = "proposal" => up'[w][i].follower \notin Leaders
  BY GoesFacts DEF Sides
<1>5. \A k \in DOMAIN down'[w] : down'[w][k].type = "list_result" => down'[w][k].followers \cap Leaders = {}
  BY GoesFacts DEF Sides
<1> QED
  BY <1>2, <1>3, <1>4, <1>5 DEF Sides

\* The leader's part of a step.
Clear(w, b, T) == ~UnderWay(w, T) \/ Out(w, Len(up[w]) + 1, b, T)

LEMMA LeaderRests ==
    ASSUME RuntimeInv, NEW w \in Workers, NEW b, NEW M, Goes(w, b, M), InStep(w),
           Clear(w, b, RoleTypes), Clear(w, b, ListTypes), Clear(w, b, ProposalTypes),
           \A m \in M : m.type \notin {"role", "list", "proposal"} /\ m \in Upward,
           wk'[w].pairing # "proposing", EndedLast(w)', LeaderBound(w)'
    PROVE  Leads(w)'
<1>1. \A m \in M : m.type \notin RoleTypes /\ m.type \notin ListTypes /\ m.type \notin ProposalTypes
  BY DEF RoleTypes, ListTypes, ProposalTypes, Upward
<1>2. Once(w, RoleTypes) /\ Once(w, ListTypes) /\ Once(w, ProposalTypes)
  BY DEF InStep, Step
<1>3. ~UnderWay(w, RoleTypes)' /\ Once(w, RoleTypes)'
  BY <1>1, <1>2, StepOver DEF Clear
<1>4. ~UnderWay(w, ListTypes)' /\ Once(w, ListTypes)'
  BY <1>1, <1>2, StepOver DEF Clear
<1>5. ~UnderWay(w, ProposalTypes)' /\ Once(w, ProposalTypes)'
  BY <1>1, <1>2, StepOver DEF Clear
<1> QED
  BY <1>3, <1>4, <1>5, IdleLeads

\* Which steps are clear.
LEMMA StepsClear ==
    ASSUME NEW w, NEW b, InStep(w)
    PROVE  /\ wk[w].pairing # "declaring" \/ wk[w].route # NoRoute => Clear(w, b, RoleTypes)
           /\ wk[w].pairing # "listing" \/ wk[w].route # NoRoute => Clear(w, b, ListTypes)
           /\ wk[w].pairing # "proposing" \/ wk[w].route # NoRoute => Clear(w, b, ProposalTypes)
           /\ \A T : b \in DOMAIN down[w] /\ down[w][b].type \in T => Clear(w, b, T)
  BY DEF InStep, Step, Clear, Out

\* No end of a pairing is left.
LEMMA EndedNone ==
    ASSUME RuntimeInv, NEW w \in Workers, NEW b, NEW M, Goes(w, b, M),
           \A k \in DOMAIN down[w] : down[w][k].type = "pairing_ended" => k = b
    PROVE  EndedLast(w)'
  BY GoesFacts DEF EndedLast

LEMMA LeaderAdopts ==
    ASSUME RuntimeInv, NEW w \in Workers, NEW b, NEW M, Goes(w, b, M), Leads(w),
           \A m \in M : m.type = "sync" /\ m \in Upward, NEW r \in routes, w \in Pair(r),
           wk[w].route = NoRoute, wk[w].pairing = "awaiting_decision",
           wk'[w].route.id = r.id, wk'[w].route # NoRoute, wk'[w].pairing = "routed"
    PROVE  Leads(w)'
<1>1. InStep(w) /\ EndedLast(w) /\ LeaderBound(w)
  BY DEF Leads
<1>2. Paired(w)
  BY DEF Paired
<1>3. EndedLast(w)'
  BY <1>1, <1>2, EndedNone DEF EndedLast
<1>4. routes' = routes /\ reservations' = reservations
  BY DEF Goes
<1>5. (\A p \in reservations : w \notin Pair(p)) /\ \A s \in routes : w \in Pair(s) => s = r
  BY DEF RuntimeInv, LedgerInv, WorkerOnOneRoute
<1>6. LeaderBound(w)'
  BY <1>1, <1>4, <1>5 DEF LeaderBound
<1>7. Clear(w, b, RoleTypes) /\ Clear(w, b, ListTypes) /\ Clear(w, b, ProposalTypes)
  BY <1>1, StepsClear
<1> QED
  BY <1>1, <1>3, <1>6, <1>7, LeaderRests

\* A copy of a route that is gone goes as well.
LEMMA LeaderLeaves ==
    ASSUME RuntimeInv, NEW w \in Workers, NEW b, Goes(w, b, {}), Leads(w),
           wk[w].route # NoRoute, Gone(wk[w].route.id), wk'[w].pairing = "unstarted"
    PROVE  Leads(w)'
<1>1. InStep(w) /\ EndedLast(w) /\ LeaderBound(w)
  BY DEF Leads
<1>2. EndedLast(w)'
  BY <1>1, EndedNone DEF EndedLast
<1>3. ~Paired(w)
  BY <1>1 DEF LeaderBound, Proposes, Paired, Gone
<1>4. LeaderBound(w)'
  BY <1>3, GoesFacts, UnboundLeader
<1>5. Clear(w, b, RoleTypes) /\ Clear(w, b, ListTypes) /\ Clear(w, b, ProposalTypes)
  BY <1>1, StepsClear
<1> QED
  BY <1>1, <1>2, <1>4, <1>5, LeaderRests

\* A listing of which none is chosen, and a proposal that is refused.
LEMMA LeaderRefused ==
    ASSUME RuntimeInv, NEW w \in Workers, NEW b \in DOMAIN down[w], Goes(w, b, {}), Leads(w),
           \/ down[w][b].type = "list_result"
           \/ down[w][b].type = "proposal_result" /\ down[w][b].proposal = 0,
           wk'[w].pairing \in {"unpaired", "selecting"}
    PROVE  Leads(w)'
<1>1. InStep(w) /\ EndedLast(w) /\ LeaderBound(w)
  BY DEF Leads
<1>2. /\ wk[w].route = NoRoute
      /\ down[w][b].type = "list_result" => wk[w].pairing = "listing"
      /\ down[w][b].type = "proposal_result" => wk[w].pairing = "proposing"
  BY <1>1 DEF InStep, Step, UnderWay, ListTypes, ProposalTypes
<1>3. \A j \in DOMAIN down[w] : down[w][j].type = "proposal_result" => down[w][b].type = "proposal_result" /\ j = b
  <2>1. ASSUME NEW j \in DOMAIN down[w], down[w][j].type = "proposal_result"
        PROVE  down[w][b].type = "proposal_result" /\ j = b
    <3>1. UnderWay(w, ProposalTypes)
      BY <2>1 DEF UnderWay, ProposalTypes
    <3>2. wk[w].pairing = "proposing" /\ Once(w, ProposalTypes)
      BY <1>1, <3>1 DEF InStep, Step
    <3>3. down[w][b].type = "proposal_result"
      BY <1>2, <3>2
    <3> QED
      BY <2>1, <3>2, <3>3 DEF Once, ProposalTypes
  <2> QED
    BY <2>1
<1>4. ~Paired(w)
  <2>1. ASSUME NEW id \in ProposalIds, NEW f, Proposes(w, id, f) PROVE FALSE
    <3>1. id # 0
      BY DEF ProposalIds
    <3> QED
      BY <1>2, <1>3, <2>1, <3>1 DEF Proposes
  <2> QED
    BY <1>1, <1>2, <2>1, PairedWhen
<1>5. EndedLast(w)'
  <2>1. ASSUME NEW k \in DOMAIN down[w], down[w][k].type = "pairing_ended" PROVE FALSE
    <3>1. wk[w].pairing = "awaiting_decision" \/ wk[w].pairing = "selecting"
          \/ \E j \in DOMAIN down[w] : down[w][j].type = "proposal_result" /\ down[w][j].proposal # 0
      BY <1>1, <2>1 DEF EndedLast
    <3> QED
      BY <1>2, <1>3, <3>1
  <2> QED
    BY <2>1, EndedNone
<1>6. LeaderBound(w)'
  BY <1>4, GoesFacts, UnboundLeader
<1>7. Clear(w, b, RoleTypes) /\ Clear(w, b, ListTypes) /\ Clear(w, b, ProposalTypes)
  BY <1>1, <1>2, StepsClear DEF ListTypes, ProposalTypes
<1> QED
  BY <1>1, <1>5, <1>6, <1>7, LeaderRests

\* The pairing has ended.
LEMMA LeaderEnded ==
    ASSUME RuntimeInv, NEW w \in Workers, NEW b \in DOMAIN down[w], Goes(w, b, {}), Leads(w), b = 1,
           down[w][b].type = "pairing_ended", wk'[w].pairing = "selecting"
    PROVE  Leads(w)'
<1>1. InStep(w) /\ EndedLast(w) /\ LeaderBound(w)
  BY DEF Leads
<1>2. \A j \in DOMAIN down[w] : ~(j < b) /\ j \in Nat
  BY InQueue
<1>3. ~Paired(w) /\ wk[w].route = NoRoute /\ wk[w].pairing \in {"awaiting_decision", "selecting"}
  BY <1>1, <1>2 DEF EndedLast
<1>4. \A k \in DOMAIN down[w] : down[w][k].type = "pairing_ended" => k = b
  <2>1. ASSUME NEW k \in DOMAIN down[w], down[w][k].type = "pairing_ended" PROVE ~(b < k)
    BY <1>1, <2>1 DEF EndedLast, Closes
  <2> QED
    BY <1>2, <2>1
<1>5. EndedLast(w)'
  BY <1>4, EndedNone
<1>6. LeaderBound(w)'
  BY <1>3, GoesFacts, UnboundLeader
<1>7. Clear(w, b, RoleTypes) /\ Clear(w, b, ListTypes) /\ Clear(w, b, ProposalTypes)
  BY <1>1, <1>3, StepsClear
<1> QED
  BY <1>1, <1>5, <1>6, <1>7, LeaderRests

\* The pairing is given up.
LEMMA LeaderGivesUp ==
    ASSUME RuntimeInv, NEW w \in Workers, NEW b \in DOMAIN down[w], Goes(w, b, {}), Leads(w),
           NoRouteNews(down[w][b]), ~down[w][b].open, wk[w].route = NoRoute, wk[w].pairing = "awaiting_decision",
           wk'[w].pairing = "selecting", wk'[w].route = NoRoute
    PROVE  Leads(w)'
<1>1. InStep(w) /\ EndedLast(w) /\ LeaderBound(w)
  BY DEF Leads
<1>2. Closes(down[w][b]) /\ down[w][b].type # "pairing_ended"
  BY DEF Closes, NoRouteNews
<1>3. ~Paired(w)
  BY <1>1, <1>2, PairedWhen DEF Proposes
<1>4. LeaderBound(w)'
  BY <1>3, GoesFacts, UnboundLeader
<1>5. EndedLast(w)'
  <2>1. ASSUME NEW k \in DOMAIN down'[w], down'[w][k].type = "pairing_ended"
        PROVE  /\ \A l \in DOMAIN down'[w] : l < k => ~Closes(down'[w][l])
               /\ k <= owed'[w]
    <3>1. At(b, k) \in DOMAIN down[w] /\ At(b, k) # b /\ down[w][At(b, k)].type = "pairing_ended"
      BY <2>1, GoesFacts
    <3>2. \A l \in DOMAIN down[w] : l < At(b, k) => ~Closes(down[w][l])
      BY <1>1, <3>1 DEF EndedLast
    <3>3. \A l \in DOMAIN down'[w] : l < k => ~Closes(down'[w][l])
      BY <2>1, <3>2, GoesFacts
    <3>4. PICK c : c = At(b, k)
      OBVIOUS
    <3>5. ~(b < c) /\ c # b /\ c \in Nat /\ b \in Nat /\ c >= 1
      BY <1>2, <3>1, <3>2, <3>4, InQueue
    <3>6. k \in Nat
      <4>1. PICK y \in Seq(Downward) : y = down'[w]
        BY DEF Goes, Turned
      <4> QED
        BY <2>1, <4>1
    <3>7. b > 1 /\ k <= b - 1
      BY <3>4, <3>5, <3>6 DEF At
    <3>8. owed'[w] = b - 1
      BY <3>7 DEF Goes
    <3> QED
      BY <3>3, <3>7, <3>8
  <2>2. ~Paired(w)'
    BY <1>3, GoesFacts
  <2> QED
    BY <2>1, <2>2 DEF EndedLast
<1>6. Clear(w, b, RoleTypes) /\ Clear(w, b, ListTypes) /\ Clear(w, b, ProposalTypes)
  BY <1>1, StepsClear
<1> QED
  BY <1>1, <1>4, <1>5, <1>6, LeaderRests

\* The proposal was accepted: the leader freezes its budget.
LEMMA LeaderFreezes ==
    ASSUME RuntimeInv, NEW w \in Workers, NEW b \in DOMAIN down[w], Goes(w, b, {}), Leads(w),
           NEW p, down[w][b].type = "proposal_result", down[w][b].proposal = p, p # 0,
           wk'[w].pairing = "awaiting_decision", wk'[w].proposal = p, wk'[w].route = wk[w].route,
           wk'[w].budget = [proposal |-> p, role |-> "leader", peer |-> wk[w].pending]
    PROVE  Leads(w)'
<1>1. InStep(w) /\ EndedLast(w) /\ LeaderBound(w)
  BY DEF Leads
<1>2. wk[w].route = NoRoute /\ wk[w].pairing = "proposing" /\ Once(w, ProposalTypes)
  BY <1>1 DEF InStep, Step, UnderWay, ProposalTypes
<1>3. \A j \in DOMAIN down[w] : down[w][j].type = "proposal_result" => j = b
  BY <1>2 DEF Once, ProposalTypes
<1>4. \A id, f : Proposes(w, id, f) => Proposes(w, id, f)'
  <2>1. ASSUME NEW id, NEW f, Proposes(w, id, f) PROVE Proposes(w, id, f)'
    <3>1. id = p /\ wk[w].pending = f
      BY <1>2, <1>3, <2>1 DEF Proposes
    <3>2. \A k \in DOMAIN down'[w] : ~Closes(down'[w][k])
      BY <2>1, GoesFacts DEF Proposes
    <3> QED
      BY <1>2, <3>1, <3>2 DEF Proposes
  <2> QED
    BY <2>1
<1>5. LeaderBound(w)'
  <2>1. routes' = routes /\ reservations' = reservations /\ wk'[w].route = NoRoute
    BY <1>2 DEF Goes
  <2> QED
    BY <1>1, <1>2, <1>4, <2>1 DEF LeaderBound
<1>6. EndedLast(w)'
  <2>1. ASSUME NEW k \in DOMAIN down'[w], down'[w][k].type = "pairing_ended"
        PROVE  ~Paired(w)' /\ \A l \in DOMAIN down'[w] : l < k => ~Closes(down'[w][l])
    BY <1>1, <2>1, GoesFacts DEF EndedLast
  <2> QED
    BY <1>2, <2>1 DEF EndedLast
<1>7. Clear(w, b, RoleTypes) /\ Clear(w, b, ListTypes) /\ Clear(w, b, ProposalTypes)
  BY <1>1, <1>2, StepsClear DEF ProposalTypes
<1> QED
  BY <1>1, <1>5, <1>6, <1>7, LeaderRests

\* The leader declares its role.
LEMMA LeaderDeclares ==
    ASSUME RuntimeInv, NEW w \in Workers, NEW b, NEW m \in Upward, Goes(w, b, {m}), Leads(w), m.type = "role",
           wk[w].route = NoRoute, wk[w].pairing = "unstarted", wk'[w].pairing = "declaring", wk'[w].route = NoRoute
    PROVE  Leads(w)'
<1>1. InStep(w) /\ EndedLast(w) /\ LeaderBound(w)
  BY DEF Leads
<1>2. ~UnderWay(w, RoleTypes) /\ ~UnderWay(w, ListTypes) /\ ~UnderWay(w, ProposalTypes)
  BY <1>1 DEF InStep, Step
<1>3. m.type \notin ListTypes /\ m.type \notin ProposalTypes /\ Once(w, RoleTypes) /\ Once(w, ListTypes) /\ Once(w, ProposalTypes)
  BY <1>1 DEF ListTypes, ProposalTypes, InStep, Step
<1>4. Step(w, RoleTypes, "declaring")'
  BY <1>2, <1>3, StepBegins
<1>5. ~UnderWay(w, ListTypes)' /\ Once(w, ListTypes)'
  BY <1>2, <1>3, StepOver
<1>6. ~UnderWay(w, ProposalTypes)' /\ Once(w, ProposalTypes)'
  BY <1>2, <1>3, StepOver
<1>7. EndedLast(w)'
  BY <1>1, EndedWhen, EndedNone
<1>8. LeaderBound(w)'
  BY <1>1, PairedWhen, GoesFacts, UnboundLeader DEF Proposes
<1>9. \A i \in DOMAIN up'[w] : up'[w][i].type \notin {"list", "proposal"}
  BY <1>5, <1>6 DEF UnderWay, ListTypes, ProposalTypes
<1>10. \A i \in DOMAIN down'[w] : down'[w][i].type # "list_result"
  BY <1>5 DEF UnderWay, ListTypes
<1>11. InStep(w)'
  BY <1>4, <1>5, <1>6, <1>9 DEF InStep, Step
<1>12. SyncsFirst(w)'
  BY <1>6, <1>9, <1>10 DEF SyncsFirst
<1> QED
  BY <1>7, <1>8, <1>11, <1>12 DEF Leads

\* The leader asks for the followers.
LEMMA LeaderLists ==
    ASSUME RuntimeInv, NEW w \in Workers, NEW b, NEW m \in Upward, Goes(w, b, {m}), Leads(w), m.type = "list",
           wk[w].route = NoRoute, wk'[w].pairing = "listing", wk'[w].route = NoRoute,
           \/ b \in DOMAIN down[w] /\ down[w][b].type = "role_result"
           \/ wk[w].pairing = "selecting" /\ owed[w] = 0
    PROVE  Leads(w)'
<1>1. InStep(w) /\ EndedLast(w) /\ LeaderBound(w) /\ SyncsFirst(w)
  BY DEF Leads
<1>2. b \in DOMAIN down[w] /\ down[w][b].type = "role_result" => wk[w].pairing = "declaring"
  BY <1>1 DEF InStep, Step, UnderWay, RoleTypes
<1>3. Clear(w, b, RoleTypes) /\ ~UnderWay(w, ListTypes) /\ ~UnderWay(w, ProposalTypes)
  BY <1>1, <1>2, StepsClear DEF InStep, Step, RoleTypes
<1>4. m.type \notin RoleTypes /\ m.type \notin ProposalTypes /\ Once(w, RoleTypes) /\ Once(w, ListTypes) /\ Once(w, ProposalTypes)
  BY <1>1 DEF RoleTypes, ProposalTypes, InStep, Step
<1>5. Step(w, ListTypes, "listing")'
  BY <1>3, <1>4, StepBegins
<1>6. ~UnderWay(w, RoleTypes)' /\ Once(w, RoleTypes)'
  BY <1>3, <1>4, StepOver DEF Clear
<1>7. ~UnderWay(w, ProposalTypes)' /\ Once(w, ProposalTypes)'
  BY <1>3, <1>4, StepOver
<1>8. \A k \in DOMAIN down[w] : down[w][k].type # "pairing_ended"
  <2>1. ASSUME NEW k \in DOMAIN down[w], down[w][k].type = "pairing_ended" PROVE FALSE
    <3>1. wk[w].pairing = "selecting" /\ owed[w] = 0
      BY <1>1, <1>2, <2>1, EndedWhen
    <3>2. \A j \in DOMAIN down[w] : down[w][j].type # "proposal_result"
      BY <1>3 DEF UnderWay, ProposalTypes
    <3>3. k <= 0
      BY <1>1, <2>1, <3>1, <3>2 DEF EndedLast
    <3> QED
      BY <3>3, InQueue
  <2> QED
    BY <2>1
<1>9. EndedLast(w)'
  BY <1>8, EndedNone
<1>10. LeaderBound(w)'
  BY <1>1, <1>2, PairedWhen, GoesFacts, UnboundLeader DEF Proposes
<1>11. \A i \in DOMAIN up'[w] : up'[w][i].type # "proposal"
  BY <1>7 DEF UnderWay, ProposalTypes
<1>12. \A i \in DOMAIN down'[w] : down'[w][i].type # "list_result"
  BY <1>3, GoesFacts DEF UnderWay, ListTypes
<1>13. InStep(w)'
  BY <1>5, <1>6, <1>7, <1>11 DEF InStep, Step
<1>14. \A i, j \in DOMAIN up'[w] : up'[w][i].type = "list" /\ up'[w][j].type = "sync" => j < i
  <2>1. Kept(up'[w], up[w], Len(up[w]) + 1, {m})
    BY TurnedKept DEF Goes
  <2>2. ASSUME NEW i \in DOMAIN up'[w], NEW j \in DOMAIN up'[w], up'[w][i].type = "list", up'[w][j].type = "sync"
        PROVE  j < i
    <3>1. At(Len(up[w]) + 1, i) > Len(up[w])
      BY <1>3, <2>1, <2>2 DEF Kept, UnderWay, ListTypes
    <3>2. up'[w][j] # m
      BY <2>2
    <3> QED
      BY <2>1, <3>1, <3>2 DEF Kept
  <2> QED
    BY <2>2
<1>15. SyncsFirst(w)'
  BY <1>7, <1>12, <1>14 DEF SyncsFirst
<1> QED
  BY <1>9, <1>10, <1>13, <1>15 DEF Leads

\* The leader proposes.
LEMMA LeaderProposes ==
    ASSUME RuntimeInv, NEW w \in Workers, NEW b \in DOMAIN down[w], NEW m \in Upward, Goes(w, b, {m}), Leads(w),
           b \in Served(w), down[w][b].type = "list_result", m.type = "proposal", m.follower # "none",
           wk'[w].pairing = "proposing", wk'[w].pending = m.follower, wk'[w].route = wk[w].route
    PROVE  Leads(w)'
<1>1. InStep(w) /\ EndedLast(w) /\ LeaderBound(w) /\ SyncsFirst(w)
  BY DEF Leads
<1>2. wk[w].pairing = "listing" /\ wk[w].route = NoRoute
  BY <1>1 DEF InStep, Step, UnderWay, ListTypes
<1>3. Clear(w, b, ListTypes) /\ ~UnderWay(w, RoleTypes) /\ ~UnderWay(w, ProposalTypes)
  BY <1>1, <1>2, StepsClear DEF InStep, Step, ListTypes
<1>4. m.type \notin RoleTypes /\ m.type \notin ListTypes /\ Once(w, RoleTypes) /\ Once(w, ListTypes) /\ Once(w, ProposalTypes)
  BY <1>1 DEF RoleTypes, ListTypes, InStep, Step
<1>5. Step(w, ProposalTypes, "proposing")'
  BY <1>2, <1>3, <1>4, StepBegins
<1>6. ~UnderWay(w, RoleTypes)' /\ Once(w, RoleTypes)'
  BY <1>3, <1>4, StepOver
<1>7. ~UnderWay(w, ListTypes)' /\ Once(w, ListTypes)'
  BY <1>3, <1>4, StepOver DEF Clear
<1>8. EndedLast(w)'
  BY <1>1, <1>2, EndedWhen, EndedNone
<1>9. LeaderBound(w)'
  BY <1>1, <1>2, PairedWhen, GoesFacts, UnboundLeader DEF Proposes
<1>10. \A i \in DOMAIN up'[w] : up'[w][i].type = "proposal" => up'[w][i] = m
  BY <1>3, GoesFacts DEF UnderWay, ProposalTypes
<1>11. InStep(w)'
  BY <1>5, <1>6, <1>7, <1>10 DEF InStep, Step
<1>12. ~UnderWay(w, SyncTypes)
  <2>1. \A j \in DOMAIN up[w] : up[w][j].type # "sync"
    BY <1>1 DEF SyncsFirst
  <2>2. \A j \in DOMAIN up[w] : up[w][j].type # "sync_result"
    <3>1. \A x \in Upward : x.type # "sync_result"
      BY DEF Upward
    <3>2. PICK x \in Seq(Upward) : x = up[w]
      BY DEF RuntimeInv
    <3> QED
      BY <3>1, <3>2
  <2>3. \A j \in DOMAIN down[w] : down[w][j].type # "sync"
    <3>1. PICK y \in Seq(Downward) : y = down[w]
      BY DEF RuntimeInv
    <3> QED
      BY <3>1, OtherTypes
  <2>4. ASSUME NEW j \in DOMAIN down[w], down[w][j].type = "sync_result" PROVE FALSE
    <3>1. j < b
      BY <1>1, <2>4 DEF SyncsFirst
    <3>2. j \in Nat /\ b \in Nat /\ j >= 1
      BY InQueue
    <3>3. b # 1 /\ j \in 1 .. (b - 1)
      BY <3>1, <3>2
    <3>4. down[w][j].type \notin Replies
      BY <3>3 DEF Served
    <3> QED
      BY <2>4, <3>4 DEF Replies
  <2> QED
    BY <2>1, <2>2, <2>3, <2>4 DEF UnderWay, SyncTypes
<1>13. ~UnderWay(w, SyncTypes)'
  BY <1>12, GoesFacts DEF SyncTypes
<1>14. (\A i \in DOMAIN up'[w] : up'[w][i].type # "list") /\ \A i \in DOMAIN down'[w] : down'[w][i].type # "list_result"
  BY <1>7 DEF UnderWay, ListTypes
<1>15. SyncsFirst(w)'
  BY <1>13, <1>14 DEF SyncsFirst
<1> QED
  BY <1>8, <1>9, <1>11, <1>15 DEF Leads

\* The leader goes on as it was.
SameTalk(w) ==
    /\ wk'[w].pairing = wk[w].pairing /\ wk'[w].pending = wk[w].pending
    /\ wk'[w].proposal = wk[w].proposal /\ wk'[w].budget = wk[w].budget
    /\ wk'[w].route.id = wk[w].route.id /\ (wk'[w].route = NoRoute <=> wk[w].route = NoRoute)

LEMMA LeaderKeeps ==
    ASSUME RuntimeInv, NEW w \in Workers, NEW b, NEW M, Goes(w, b, M), Leads(w), SameTalk(w),
           \A m \in M : m.type \notin {"role", "list", "proposal"} /\ m \in Upward,
           b \in DOMAIN down[w] => down[w][b].type \notin {"proposal_result", "pairing_ended"},
           (\E m \in M : m.type = "sync") => ~UnderWay(w, ListTypes) /\ ~UnderWay(w, ProposalTypes)
    PROVE  Leads(w)'
<1>1. InStep(w) /\ EndedLast(w) /\ LeaderBound(w) /\ SyncsFirst(w)
  BY DEF Leads
<1>2. \A m \in M : m.type \notin RoleTypes /\ m.type \notin ListTypes /\ m.type \notin ProposalTypes /\ m.type # "sync_result"
  BY DEF RoleTypes, ListTypes, ProposalTypes, Upward
<1>3. InStep(w)'
  <2>1. Step(w, RoleTypes, "declaring")'
    BY <1>1, <1>2, StepStays DEF SameTalk, InStep
  <2>2. Step(w, ListTypes, "listing")'
    BY <1>1, <1>2, StepStays DEF SameTalk, InStep
  <2>3. Step(w, ProposalTypes, "proposing")'
    BY <1>1, <1>2, StepStays DEF SameTalk, InStep
  <2>4. \A i \in DOMAIN up'[w] : up'[w][i].type = "proposal" => up'[w][i].follower = wk'[w].pending
    BY <1>1, GoesFacts DEF SameTalk, InStep
  <2> QED
    BY <1>1, <2>1, <2>2, <2>3, <2>4 DEF SameTalk, InStep
<1>4. SyncsFirst(w)'
  <2>1. CASE \E m \in M : m.type = "sync"
    <3>1. ~UnderWay(w, ListTypes)' /\ ~UnderWay(w, ProposalTypes)'
      BY <1>2, <2>1, GoesFacts
    <3> QED
      BY <3>1 DEF SyncsFirst, UnderWay, ListTypes
  <2>2. CASE \A m \in M : m.type # "sync"
    <3>1. Kept(up'[w], up[w], Len(up[w]) + 1, M)
      BY TurnedKept DEF Goes
    <3>2. \A i, j \in DOMAIN up'[w] : up'[w][i].type = "list" /\ up'[w][j].type = "sync" => j < i
      <4>1. ASSUME NEW i \in DOMAIN up'[w], NEW j \in DOMAIN up'[w], up'[w][i].type = "list", up'[w][j].type = "sync"
            PROVE  j < i
        <5>1. At(Len(up[w]) + 1, j) < At(Len(up[w]) + 1, i)
          BY <1>1, <2>2, <3>1, <4>1 DEF Kept, SyncsFirst
        <5> QED
          BY <3>1, <5>1 DEF Kept
      <4> QED
        BY <4>1
    <3>3. ASSUME NEW k \in DOMAIN down'[w], down'[w][k].type = "list_result"
          PROVE  /\ \A j \in DOMAIN up'[w] : up'[w][j].type # "sync"
                 /\ \A l \in DOMAIN down'[w] : down'[w][l].type = "sync_result" => l < k
      <4>1. At(b, k) \in DOMAIN down[w] /\ down[w][At(b, k)].type = "list_result"
        BY <3>3, GoesFacts
      <4>2. /\ \A j \in DOMAIN up[w] : up[w][j].type # "sync"
            /\ \A l \in DOMAIN down[w] : down[w][l].type = "sync_result" => l < At(b, k)
        BY <1>1, <4>1 DEF SyncsFirst
      <4>3. \A j \in DOMAIN up'[w] : up'[w][j].type # "sync"
        BY <2>2, <4>2, GoesFacts
      <4>4. \A l \in DOMAIN down'[w] : down'[w][l].type = "sync_result" => l < k
        BY <3>3, <4>2, GoesFacts
      <4> QED
        BY <4>3, <4>4
    <3>4. UnderWay(w, ProposalTypes)' => ~UnderWay(w, SyncTypes)'
      BY <1>1, <1>2, <2>2, GoesFacts DEF SyncsFirst, SyncTypes
    <3> QED
      BY <3>2, <3>3, <3>4 DEF SyncsFirst
  <2> QED
    BY <2>1, <2>2
<1>5. EndedLast(w)'
  <2>1. ASSUME NEW k \in DOMAIN down'[w], down'[w][k].type = "pairing_ended"
        PROVE  /\ ~Paired(w)' /\ wk'[w].route = NoRoute
               /\ \A l \in DOMAIN down'[w] : l < k => ~Closes(down'[w][l])
               /\ \/ wk'[w].pairing = "awaiting_decision"
                  \/ wk'[w].pairing = "selecting" /\ k <= owed'[w]
                  \/ \E j \in DOMAIN down'[w] : j < k /\ down'[w][j].type = "proposal_result" /\ down'[w][j].proposal # 0
    <3>1. At(b, k) \in DOMAIN down[w] /\ down[w][At(b, k)].type = "pairing_ended"
      BY <2>1, GoesFacts
    <3>2. /\ ~Paired(w) /\ wk[w].route = NoRoute
          /\ \A l \in DOMAIN down[w] : l < At(b, k) => ~Closes(down[w][l])
          /\ \/ wk[w].pairing = "awaiting_decision"
             \/ wk[w].pairing = "selecting" /\ At(b, k) <= owed[w]
             \/ \E j \in DOMAIN down[w] : j < At(b, k) /\ down[w][j].type = "proposal_result" /\ down[w][j].proposal # 0
      BY <1>1, <3>1 DEF EndedLast
    <3>3. ~Paired(w)' /\ wk'[w].route = NoRoute
      BY <3>2, GoesFacts DEF SameTalk
    <3>4. \A l \in DOMAIN down'[w] : l < k => ~Closes(down'[w][l])
      BY <2>1, <3>2, GoesFacts
    <3>5. At(b, k) <= owed[w] => k <= owed'[w]
      BY <2>1 DEF Goes
    <3>6. ASSUME NEW j \in DOMAIN down[w], j < At(b, k), down[w][j].type = "proposal_result", down[w][j].proposal # 0
          PROVE  \E i \in DOMAIN down'[w] : i < k /\ down'[w][i].type = "proposal_result" /\ down'[w][i].proposal # 0
      BY <2>1, <3>6, GoesFacts
    <3> QED
      BY <3>2, <3>3, <3>4, <3>5, <3>6 DEF SameTalk
  <2> QED
    BY <2>1 DEF EndedLast
<1>6. \A id, f : Proposes(w, id, f) => Proposes(w, id, f)'
  <2>1. ASSUME NEW id, NEW f, Proposes(w, id, f) PROVE Proposes(w, id, f)'
    <3>1. \A k \in DOMAIN down'[w] : ~Closes(down'[w][k])
      BY <2>1, GoesFacts DEF Proposes
    <3>2. ASSUME NEW k \in DOMAIN down[w], down[w][k].type = "proposal_result", down[w][k].proposal = id,
                 \A l \in DOMAIN down[w] : down[w][l].type = "established" => k < l
          PROVE  \E j \in DOMAIN down'[w] :
                    /\ down'[w][j].type = "proposal_result" /\ down'[w][j].proposal = id
                    /\ \A l \in DOMAIN down'[w] : down'[w][l].type = "established" => j < l
      <4>1. PICK j \in DOMAIN down'[w] : At(b, j) = k /\ down'[w][j] = down[w][k]
        BY <3>2, GoesFacts
      <4>2. \A l \in DOMAIN down'[w] : down'[w][l].type = "established" => j < l
        BY <3>2, <4>1, GoesFacts
      <4> QED
        BY <3>2, <4>1, <4>2
    <3> QED
      BY <2>1, <3>1, <3>2 DEF Proposes, SameTalk
  <2> QED
    BY <2>1
<1>7. LeaderBound(w)'
  <2>1. routes' = routes /\ reservations' = reservations
    BY DEF Goes
  <2> QED
    BY <1>1, <1>6, <2>1 DEF LeaderBound, SameTalk
<1> QED
  BY <1>3, <1>4, <1>5, <1>7 DEF Leads

\* The follower's part: it keeps a budget that it is bound to.
LEMMA FollowerGoesOn ==
    ASSUME RuntimeInv, NEW w \in Workers, NEW b, NEW M, Goes(w, b, M), Follows(w),
           \A m \in M : m.type # "decision" /\ m \in Upward,
           b \in DOMAIN down[w] => down[w][b].type # "proposed",
           \A p \in reservations : w \in Pair(p) /\ Accepts(w, p.leader) => Accepts(w, p.leader)',
           \A r \in routes : w \in Pair(r) =>
              IF wk'[w].route = NoRoute THEN Accepts(w, r.leader)' ELSE wk'[w].route.id = r.id
    PROVE  Follows(w)'
<1>1. OneQuestion(w) /\ FollowerBound(w)
  BY DEF Follows
<1>2. \A m \in M : m.type \notin {"decision", "proposed"} /\ m.type \notin {"decision", "decision_result"}
  BY DEF Upward
<1>3. Turned(w, Len(up[w]) + 1, M, b, {})
  BY DEF Goes
<1>4. Once(w, {"decision", "proposed"})'
  <2>1. \A m \in M \cup {} : m.type \notin {"decision", "proposed"}
    BY <1>2
  <2> QED
    BY <1>1, <1>3, <2>1, StillOnce DEF OneQuestion
<1>5. Once(w, {"decision", "decision_result"})'
  <2>1. \A m \in M \cup {} : m.type \notin {"decision", "decision_result"}
    BY <1>2
  <2> QED
    BY <1>1, <1>3, <2>1, StillOnce DEF OneQuestion
<1>6. \A j, k \in DOMAIN down'[w] : down'[w][j].type = "proposed" /\ down'[w][k].type = "decision_result" => k < j
  BY <1>1, GoesFacts DEF OneQuestion
<1>7. w \in Routed' => ~UnderWay(w, {"decision", "proposed"})'
  BY <1>1, <1>2, GoesFacts DEF OneQuestion
<1>8. OneQuestion(w)'
  BY <1>4, <1>5, <1>6, <1>7 DEF OneQuestion
<1>9. ASSUME NEW p \in reservations, w \in Pair(p), Asked(w, p) PROVE Asked(w, p)'
  <2>1. ASSUME NEW k \in DOMAIN down[w], down[w][k].type = "proposed", down[w][k].proposal = p.id,
               down[w][k].leader = p.leader, p.lapsed \/ \A j \in DOMAIN down[w] : Refuses(down[w][j]) => j < k
        PROVE  Asked(w, p)'
    <3>1. PICK i \in DOMAIN down'[w] : At(b, i) = k /\ down'[w][i] = down[w][k]
      BY <2>1, GoesFacts
    <3>2. p.lapsed \/ \A j \in DOMAIN down'[w] : Refuses(down'[w][j]) => j < i
      BY <2>1, <3>1, GoesFacts
    <3> QED
      BY <2>1, <3>1, <3>2 DEF Asked
  <2>2. ASSUME NEW i \in DOMAIN up[w], up[w][i].type = "decision", up[w][i].proposal = p.id,
               up[w][i].accepted /\ ~p.lapsed => Accepts(w, p.leader)
        PROVE  Asked(w, p)'
    <3>1. PICK j \in DOMAIN up'[w] : up'[w][j] = up[w][i]
      BY GoesFacts
    <3>2. up'[w][j].accepted /\ ~p.lapsed => Accepts(w, p.leader)'
      BY <1>9, <2>2, <3>1
    <3> QED
      BY <2>2, <3>1, <3>2 DEF Asked
  <2> QED
    BY <1>9, <2>1, <2>2 DEF Asked
<1>10. routes' = routes /\ reservations' = reservations
  BY DEF Goes
<1>11. FollowerBound(w)'
  BY <1>1, <1>9, <1>10 DEF FollowerBound
<1> QED
  BY <1>8, <1>11 DEF Follows

\* The follower answers a proposal.
LEMMA FollowerAnswers ==
    ASSUME RuntimeInv, NEW w \in Workers, NEW b \in DOMAIN down[w], NEW m \in Upward, Goes(w, b, {m}), Follows(w), b = 1,
           down[w][b].type = "proposed", m.type = "decision", m.proposal = down[w][b].proposal,
           \E i \in DOMAIN up'[w] : up'[w][i] = m,
           m.accepted => /\ wk'[w].route = NoRoute /\ wk'[w].proposal = m.proposal
                         /\ wk'[w].budget = [proposal |-> m.proposal, role |-> "follower", peer |-> down[w][b].leader]
    PROVE  Follows(w)'
<1>1. OneQuestion(w) /\ FollowerBound(w)
  BY DEF Follows
<1>2. \A j \in DOMAIN down[w] : ~(j < b) /\ j \in Nat
  BY InQueue
<1>3. w \notin Routed
  BY <1>1 DEF OneQuestion, UnderWay
<1>4. \A k \in DOMAIN down[w] : down[w][k].type # "decision_result"
  BY <1>1, <1>2 DEF OneQuestion
<1>5. (\A i \in DOMAIN up[w] : up[w][i].type # "decision") /\ \A k \in DOMAIN down[w] : down[w][k].type = "proposed" => k = b
  BY <1>1 DEF OneQuestion, Once
<1>6. Turned(w, Len(up[w]) + 1, {m}, b, {})
  BY DEF Goes
<1>7. \A x, y \in {m} \cup {} : x.type = y.type
  OBVIOUS
<1>8. Once(w, {"decision", "proposed"})'
  <2>1. Out(w, Len(up[w]) + 1, b, {"decision", "proposed"})
    BY DEF Out
  <2>2. \A x, y \in {m} \cup {} : x.type \in {"decision", "proposed"} /\ y.type \in {"decision", "proposed"} => x.type = y.type
    BY <1>7
  <2>3. \A x \in {} : x.type \notin {"decision", "proposed"}
    OBVIOUS
  <2> QED
    BY <1>1, <1>6, <2>1, <2>2, <2>3, OnceAgain DEF OneQuestion
<1>9. Once(w, {"decision", "decision_result"})'
  <2>1. ~UnderWay(w, {"decision", "decision_result"})
    <3>1. \A x \in Upward : x.type # "decision_result"
      BY DEF Upward
    <3>2. PICK x \in Seq(Upward) : x = up[w]
      BY DEF RuntimeInv
    <3>3. PICK y \in Seq(Downward) : y = down[w]
      BY DEF RuntimeInv
    <3> QED
      BY <1>4, <1>5, <3>1, <3>2, <3>3, OtherTypes DEF UnderWay
  <2>2. \A x, y \in {m} \cup {} : x.type \in {"decision", "decision_result"} /\ y.type \in {"decision", "decision_result"} => x.type = y.type
    BY <1>7
  <2>3. \A x \in {} : x.type \notin {"decision", "decision_result"}
    OBVIOUS
  <2> QED
    BY <1>1, <1>6, <2>1, <2>2, <2>3, OnceAgain DEF OneQuestion
<1>10. \A j \in DOMAIN down'[w] : down'[w][j].type # "proposed"
  BY <1>5, GoesFacts
<1>11. OneQuestion(w)'
  BY <1>3, <1>8, <1>9, <1>10, GoesFacts DEF OneQuestion
<1>12. PICK i \in DOMAIN up'[w] : up'[w][i] = m
  OBVIOUS
<1>13. ASSUME NEW p \in reservations, w \in Pair(p) PROVE p.leader # w /\ Asked(w, p)'
  <2>1. p.leader # w /\ Asked(w, p)
    BY <1>1, <1>13 DEF FollowerBound
  <2>2. /\ down[w][b].proposal = p.id /\ down[w][b].leader = p.leader
        /\ p.lapsed \/ \A j \in DOMAIN down[w] : Refuses(down[w][j]) => j < b
    BY <1>5, <2>1 DEF Asked
  <2>3. ASSUME m.accepted, ~p.lapsed PROVE Accepts(w, p.leader)'
    <3>1. \A j \in DOMAIN down'[w] : ~Refuses(down'[w][j])
      BY <1>2, <2>2, <2>3, GoesFacts
    <3> QED
      BY <2>2, <2>3, <3>1 DEF Accepts
  <2> QED
    BY <1>12, <2>1, <2>2, <2>3 DEF Asked
<1>14. FollowerBound(w)'
  <2>1. routes' = routes /\ reservations' = reservations
    BY DEF Goes
  <2>2. \A r \in routes : w \notin Pair(r)
    BY <1>3 DEF Routed
  <2> QED
    BY <1>13, <2>1, <2>2 DEF FollowerBound
<1> QED
  BY <1>11, <1>14 DEF Follows

\* What becomes of the records of a pairing.
LEMMA ConflictedTalk ==
    ASSUME NEW w, NEW rec \in Runtimes, NEW n, n = Conflicted(w, rec)
    PROVE  /\ n.pairing = (IF w \in Leaders THEN "selecting" ELSE "unpaired")
           /\ n.failed = rec.failed /\ n.reconciling = rec.reconciling /\ n.route = rec.route
  BY DEF Conflicted, Discarded, Runtimes

LEMMA FedTalk ==
    ASSUME NEW rec \in Sound, rec.route # NoRoute, NEW view \in Route, NEW n, n = Fed(rec, view)
    PROVE  /\ n.pairing = rec.pairing /\ n.pending = rec.pending /\ n.proposal = rec.proposal /\ n.budget = rec.budget
           /\ n.failed = rec.failed /\ n.route.id = rec.route.id /\ n.route # NoRoute
<1>1. rec \in Runtimes /\ rec.route \in Route
  BY DEF Sound, Runtimes, AnyRoute
<1>2. CASE view.id = rec.route.id
  <2>1. n = [rec EXCEPT !.reconciling = FALSE, !.route.state = view.state]
    BY <1>2 DEF Fed
  <2>2. /\ n.pairing = rec.pairing /\ n.pending = rec.pending /\ n.proposal = rec.proposal /\ n.budget = rec.budget
        /\ n.failed = rec.failed /\ n.route = [rec.route EXCEPT !.state = view.state]
    BY <1>1, <2>1 DEF Runtimes
  <2>3. n.route \in Route /\ n.route.id = rec.route.id
    BY <1>1, <2>2 DEF Route
  <2> QED
    BY <2>2, <2>3, RouteIsNot
<1>3. CASE view.id # rec.route.id
  <2>1. n = [rec EXCEPT !.reconciling = TRUE]
    BY <1>3 DEF Fed
  <2> QED
    BY <1>1, <2>1 DEF Runtimes
<1> QED
  BY <1>2, <1>3

LEMMA AdoptedTalk ==
    ASSUME NEW w, NEW rec \in Sound, rec.route = NoRoute, NEW view, NEW proposal, Bound(w, rec, view, proposal),
           NEW n, n = Adopted(w, rec, view, proposal)
    PROVE  n.route = view /\ n.pairing = "routed" /\ n.failed = rec.failed /\ n.reconciling = rec.reconciling
<1>1. n = [rec EXCEPT !.route = view, !.pairing = "routed"] /\ rec \in Runtimes
  BY DEF Adopted, Sound
<1> QED
  BY <1>1 DEF Runtimes

LEMMA UnroutedTalk ==
    ASSUME NEW rec, NEW n, n = Unrouted(rec)
    PROVE  n.route = NoRoute /\ n.pairing = "unstarted" /\ n.failed = FALSE /\ n.reconciling = FALSE
  BY DEF Unrouted, NewWorker

\* A Worker of which nothing changes that matters here.
LEMMA KeepsDeals ==
    ASSUME RuntimeInv, NEW w \in Workers, NEW b, NEW M, Goes(w, b, M), Deals(w), SameTalk(w),
           wk'[w].failed = wk[w].failed, wk'[w].reconciling => wk'[w].route # NoRoute,
           \A m \in M : m.type \notin {"role", "list", "proposal", "decision"} /\ m \in Upward,
           b \in DOMAIN down[w] => down[w][b].type \notin {"proposal_result", "pairing_ended", "proposed"},
           (\E m \in M : m.type = "sync") /\ w \in Leaders => ~UnderWay(w, ListTypes) /\ ~UnderWay(w, ProposalTypes)
    PROVE  Deals(w)'
<1>1. Attached(w) /\ Sides(w)
  BY DEF Deals
<1>2. Attached(w)'
  BY <1>1, GoesAttached DEF Attached
<1>3. Sides(w)'
  <2>1. w \notin Leaders => wk'[w].pairing # "selecting"
    BY <1>1 DEF Sides, SameTalk
  <2> QED
    BY <1>1, <2>1, GoesSides
<1>4. ASSUME w \in Leaders PROVE Leads(w)'
  BY <1>4, LeaderKeeps DEF Deals
<1>5. ASSUME w \notin Leaders PROVE Follows(w)'
  <2>1. Follows(w)
    BY <1>5 DEF Deals
  <2>2. \A l : Accepts(w, l) => Accepts(w, l)'
    BY GoesFacts DEF Accepts, SameTalk
  <2>3. \A r \in routes : w \in Pair(r) =>
           IF wk'[w].route = NoRoute THEN Accepts(w, r.leader)' ELSE wk'[w].route.id = r.id
    BY <2>1, <2>2 DEF Follows, FollowerBound, SameTalk
  <2> QED
    BY <2>1, <2>2, <2>3, FollowerGoesOn
<1> QED
  BY <1>2, <1>3, <1>4, <1>5 DEF Deals

\* A Worker that gives up the copy of a route that is gone.
LEMMA LeavesDeals ==
    ASSUME RuntimeInv, NEW w \in Workers, NEW b, Goes(w, b, {}), Deals(w),
           wk[w].route # NoRoute, Gone(wk[w].route.id), wk'[w] = Unrouted(wk[w]),
           b \in DOMAIN down[w] => down[w][b].type # "proposed"
    PROVE  Deals(w)'
<1>1. Attached(w) /\ Sides(w)
  BY DEF Deals
<1>2. wk'[w].route = NoRoute /\ wk'[w].pairing = "unstarted" /\ wk'[w].failed = FALSE /\ wk'[w].reconciling = FALSE
  BY UnroutedTalk
<1>3. Attached(w)'
  BY <1>1, <1>2, GoesAttached
<1>4. Sides(w)'
  BY <1>1, <1>2, GoesSides
<1>5. ASSUME w \in Leaders PROVE Leads(w)'
  BY <1>2, <1>5, LeaderLeaves DEF Deals
<1>6. ASSUME w \notin Leaders PROVE Follows(w)'
  <2>1. Follows(w)
    BY <1>6 DEF Deals
  <2>2. \A l : ~Accepts(w, l)
    BY DEF Accepts
  <2>3. \A r \in routes : w \notin Pair(r)
    BY <2>1 DEF Follows, FollowerBound, Gone
  <2> QED
    BY <2>1, <2>2, <2>3, FollowerGoesOn
<1> QED
  BY <1>3, <1>4, <1>5, <1>6 DEF Deals

\* What is offered to a Worker without a route is its route in the ledger.
LEMMA OfferCurrent ==
    ASSUME RuntimeInv, NEW w \in Workers, Knows(w), NEW k \in DOMAIN down[w], down[w][k].type \in OfferTypes,
           down[w][k].route # NoRoute, wk[w].route = NoRoute
    PROVE  down[w][k].route \in Route /\ \E r \in routes : SameRoute(r, down[w][k].route) /\ w \in Pair(r)
<1>1. PICK m \in Downward : m = down[w][k]
  BY DEF RuntimeInv
<1>2. m.type \in StateTypes /\ m.type \in OfferTypes
  BY <1>1 DEF StateTypes, OfferTypes
<1>3. m.route \in Route /\ m.route.id \in RouteIds
  BY <1>1, <1>2, NewsRoutes DEF AnyRoute, Route
<1>4. Fits(w, m.route)
  BY <1>1, <1>2 DEF Knows, NewsFit
<1>5. ~Gone(m.route.id)
  <2>1. Gone(m.route.id) => wk[w].route.id = m.route.id
    BY <1>1, <1>2, <1>3 DEF Knows, OffersKnown, Offers
  <2> QED
    BY <1>3, <2>1, IdsAreNumbers
<1>6. PICK r \in routes : r.id = m.route.id
  BY <1>3, <1>4, <1>5 DEF Gone, Fits
<1> QED
  BY <1>1, <1>3, <1>4, <1>6 DEF Fits, SameRoute

\* A route is offered.
LEMMA AdoptsDeals ==
    ASSUME RuntimeInv, NEW w \in Workers, NEW k \in Served(w), k \in DOMAIN down[w], Deals(w), Knows(w),
           down[w][k].type \in OfferTypes, NEW view, view = down[w][k].route, view # NoRoute,
           NEW proposal \in {0, wk[w].proposal},
           Serve(w, k, Adopted(w, wk[w], view, proposal), OnAdopt(w, wk[w], view, proposal))
    PROVE  Deals(w)'
<1>1. Attached(w) /\ Sides(w) /\ wk[w] \in Sound
  BY DEF Deals, RuntimeInv
<1>2. down[w][k].type \notin {"proposal_result", "pairing_ended", "proposed"}
  BY DEF OfferTypes
<1>3. ASSUME wk[w].route # NoRoute PROVE Deals(w)'
  <2>1. view \in Route
    <3>1. PICK m \in Downward : m = down[w][k]
      BY DEF RuntimeInv
    <3> QED
      BY <3>1, NewsRoutes, OffersAreNews DEF AnyRoute
  <2>2. Serve(w, k, Fed(wk[w], view), <<>>)
    BY <1>3 DEF Adopted, OnAdopt
  <2>3. Goes(w, k, {}) /\ wk'[w] = Fed(wk[w], view)
    BY <2>2, ServeNone
  <2>4. SameTalk(w) /\ wk'[w].failed = wk[w].failed /\ wk'[w].route # NoRoute
    BY <1>1, <1>3, <2>1, <2>3, FedTalk DEF SameTalk
  <2> QED
    BY <1>2, <2>3, <2>4, KeepsDeals
<1>4. ASSUME wk[w].route = NoRoute PROVE Deals(w)'
  <2>1. view \in Route
    BY <1>4, OfferCurrent
  <2>2. PICK r \in routes : SameRoute(r, view) /\ w \in Pair(r)
    BY <1>4, OfferCurrent
  <2>3. (\A p \in reservations : w \notin Pair(p)) /\ \A s \in routes : w \in Pair(s) => s = r
    BY <2>2 DEF RuntimeInv, LedgerInv, WorkerOnOneRoute
  <2>4. ASSUME w \in Leaders
        PROVE  Bound(w, wk[w], view, proposal) /\ wk[w].pairing = "awaiting_decision"
    <3>1. InStep(w) /\ SyncsFirst(w) /\ LeaderBound(w)
      BY <2>4 DEF Deals, Leads
    <3>2. PICK id \in ProposalIds : r.follower # w /\ Proposes(w, id, r.follower)
      BY <1>4, <2>2, <3>1 DEF LeaderBound
    <3>3. ASSUME NEW j \in DOMAIN down[w], down[w][j].type = "proposal_result", wk[w].pairing = "proposing",
                 \A l \in DOMAIN down[w] : down[w][l].type = "established" => j < l
          PROVE  FALSE
      <4>1. UnderWay(w, ProposalTypes)
        BY <3>3 DEF UnderWay, ProposalTypes
      <4>2. down[w][k].type # "sync_result"
        BY <3>1, <4>1 DEF SyncsFirst, UnderWay, SyncTypes
      <4>3. down[w][k].type # "role_result"
        BY <3>1, <3>3 DEF InStep, Step, UnderWay, RoleTypes
      <4>4. down[w][k].type # "decision_result"
        BY <1>1, <2>4 DEF Sides, UnderWay
      <4>5. down[w][k].type = "established"
        BY <4>2, <4>3, <4>4 DEF OfferTypes
      <4>6. k = 1 /\ j < k
        BY <3>3, <4>5 DEF Served, Replies
      <4> QED
        BY <4>6, InQueue
    <3>4. wk[w].pairing = "awaiting_decision" /\ wk[w].proposal = id /\ wk[w].budget = [proposal |-> id, role |-> "leader", peer |-> r.follower]
      BY <3>2, <3>3 DEF Proposes
    <3>5. view.leader = w /\ view.follower = r.follower
      BY <2>2, <3>2 DEF SameRoute, Pair
    <3> QED
      BY <3>4, <3>5 DEF Bound, Role, Peer
  <2>5. ASSUME w \notin Leaders PROVE Bound(w, wk[w], view, proposal)
    <3>1. r.leader # w /\ Accepts(w, r.leader)
      BY <1>4, <2>2, <2>5 DEF Deals, Follows, FollowerBound
    <3>2. view.leader = r.leader
      BY <2>2 DEF SameRoute
    <3> QED
      BY <3>1, <3>2 DEF Accepts, Bound, Role, Peer
  <2>6. Bound(w, wk[w], view, proposal)
    BY <2>4, <2>5
  <2>7. SyncRequest \in Upward /\ SyncRequest.type = "sync"
    BY UpwardMade DEF SyncRequest
  <2>8. Serve(w, k, Adopted(w, wk[w], view, proposal), <<SyncRequest>>)
    BY <1>4, <2>6 DEF OnAdopt
  <2>9. Goes(w, k, {SyncRequest}) /\ wk'[w] = Adopted(w, wk[w], view, proposal)
    BY <2>7, <2>8, ServeOne
  <2>10. /\ wk'[w].route = view /\ wk'[w].pairing = "routed" /\ wk'[w].failed = wk[w].failed
         /\ wk'[w].reconciling = wk[w].reconciling
    BY <1>1, <1>4, <2>6, <2>9, AdoptedTalk
  <2>11. wk'[w].route # NoRoute /\ wk'[w].route.id = r.id
    BY <2>1, <2>2, <2>10, RouteIsNot DEF SameRoute
  <2>12. Attached(w)'
    BY <1>1, <2>9, <2>10, <2>11, GoesAttached DEF Attached
  <2>13. Sides(w)'
    BY <1>1, <2>7, <2>9, <2>10, GoesSides
  <2>14. ASSUME w \in Leaders PROVE Leads(w)'
    BY <1>4, <2>2, <2>4, <2>7, <2>9, <2>10, <2>11, <2>14, LeaderAdopts DEF Deals
  <2>15. ASSUME w \notin Leaders PROVE Follows(w)'
    <3>1. Follows(w)
      BY <2>15 DEF Deals
    <3>2. \A m \in {SyncRequest} : m.type # "decision" /\ m \in Upward
      BY <2>7
    <3>3. \A s \in routes : w \in Pair(s) =>
             IF wk'[w].route = NoRoute THEN Accepts(w, s.leader)' ELSE wk'[w].route.id = s.id
      BY <2>3, <2>11
    <3> QED
      BY <1>2, <2>3, <2>9, <3>1, <3>2, <3>3, FollowerGoesOn
  <2> QED
    BY <2>12, <2>13, <2>14, <2>15 DEF Deals
<1> QED
  BY <1>3, <1>4

LEMMA LeaderDeals ==
    ASSUME RuntimeInv, NEW w \in Workers, w \in Leaders, NEW b, NEW M, Goes(w, b, M), Deals(w), Leads(w)',
           wk'[w].failed = wk[w].failed, wk'[w].reconciling = wk[w].reconciling, wk'[w].route = wk[w].route,
           \A m \in M : m \in Upward /\ m.type # "decision" /\ (m.type = "proposal" => m.follower \notin Leaders)
    PROVE  Deals(w)'
<1>1. Attached(w) /\ Sides(w)
  BY DEF Deals
<1>2. Attached(w)'
  BY <1>1, GoesAttached DEF Attached
<1>3. Sides(w)'
  BY <1>1, GoesSides
<1> QED
  BY <1>2, <1>3 DEF Deals

\* A follower that keeps its budget.
LEMMA FollowerKeeps ==
    ASSUME RuntimeInv, NEW w \in Workers, w \notin Leaders, NEW b, NEW M, Goes(w, b, M), Deals(w),
           wk'[w].failed = wk[w].failed, wk'[w].reconciling = wk[w].reconciling, wk'[w].route = wk[w].route,
           wk'[w].budget = wk[w].budget, wk'[w].proposal \in {0, wk[w].proposal}, wk'[w].pairing # "selecting",
           \A m \in M : m \in Upward /\ m.type \notin {"list", "proposal", "decision"},
           b \in DOMAIN down[w] => down[w][b].type # "proposed"
    PROVE  Deals(w)'
<1>1. Attached(w) /\ Sides(w) /\ Follows(w)
  BY DEF Deals
<1>2. Attached(w)'
  BY <1>1, GoesAttached DEF Attached
<1>3. Sides(w)'
  BY <1>1, GoesSides
<1>4. \A l : Accepts(w, l) => Accepts(w, l)'
  BY GoesFacts DEF Accepts
<1>5. \A r \in routes : w \in Pair(r) =>
         IF wk'[w].route = NoRoute THEN Accepts(w, r.leader)' ELSE wk'[w].route.id = r.id
  BY <1>1, <1>4 DEF Follows, FollowerBound
<1>6. Follows(w)'
  BY <1>1, <1>4, <1>5, FollowerGoesOn
<1> QED
  BY <1>2, <1>3, <1>6 DEF Deals

\* A follower that discards its budget is not bound to one.
LEMMA FollowerDiscards ==
    ASSUME RuntimeInv, NEW w \in Workers, w \notin Leaders, NEW b \in DOMAIN down[w], Goes(w, b, {}), Deals(w),
           Refuses(down[w][b]), down[w][b].type # "proposed",
           wk'[w].failed = wk[w].failed, wk'[w].reconciling = wk[w].reconciling, wk'[w].route = wk[w].route,
           wk'[w].pairing # "selecting"
    PROVE  Deals(w)'
<1>1. Attached(w) /\ Sides(w) /\ Follows(w)
  BY DEF Deals
<1>2. Attached(w)'
  BY <1>1, GoesAttached DEF Attached
<1>3. Sides(w)'
  BY <1>1, GoesSides
<1>4. \A l : ~Accepts(w, l)
  BY DEF Accepts
<1>5. \A r \in routes : w \in Pair(r) =>
         IF wk'[w].route = NoRoute THEN Accepts(w, r.leader)' ELSE wk'[w].route.id = r.id
  BY <1>1, <1>4 DEF Follows, FollowerBound
<1>6. Follows(w)'
  BY <1>1, <1>4, <1>5, FollowerGoesOn
<1> QED
  BY <1>2, <1>3, <1>6 DEF Deals

\* A leader is never deciding on a pairing of its own.
LEMMA LeaderStops ==
    ASSUME RuntimeInv, NEW w \in Workers, NEW b, Goes(w, b, {}), Leads(w), wk[w].route = NoRoute,
           wk[w].pairing = "deciding", wk'[w].pairing # "proposing"
    PROVE  Leads(w)'
<1>1. InStep(w) /\ EndedLast(w) /\ LeaderBound(w)
  BY DEF Leads
<1>2. EndedLast(w)'
  BY <1>1, EndedWhen, EndedNone
<1>3. LeaderBound(w)'
  BY <1>1, PairedWhen, GoesFacts, UnboundLeader DEF Proposes
<1>4. Clear(w, b, RoleTypes) /\ Clear(w, b, ListTypes) /\ Clear(w, b, ProposalTypes)
  BY <1>1, StepsClear
<1> QED
  BY <1>1, <1>2, <1>3, <1>4, LeaderRests

\* The same, with nothing or one message sent.
LEMMA FollowerRests ==
    ASSUME RuntimeInv, NEW w \in Workers, w \notin Leaders, NEW b, Goes(w, b, {}), Deals(w),
           wk'[w].failed = wk[w].failed, wk'[w].reconciling = wk[w].reconciling, wk'[w].route = wk[w].route,
           wk'[w].budget = wk[w].budget, wk'[w].proposal \in {0, wk[w].proposal}, wk'[w].pairing # "selecting",
           b \in DOMAIN down[w] => down[w][b].type # "proposed"
    PROVE  Deals(w)'
<1>1. PICK M : M = {}
  OBVIOUS
<1>2. Goes(w, b, M) /\ \A m \in M : m \in Upward /\ m.type \notin {"list", "proposal", "decision"}
  BY <1>1
<1> QED
  BY <1>2, FollowerKeeps

LEMMA LeaderSends ==
    ASSUME RuntimeInv, NEW w \in Workers, w \in Leaders, NEW b, NEW m \in Upward, Goes(w, b, {m}), Deals(w), Leads(w)',
           wk'[w].failed = wk[w].failed, wk'[w].reconciling = wk[w].reconciling, wk'[w].route = wk[w].route,
           m.type # "decision", m.type = "proposal" => m.follower \notin Leaders
    PROVE  Deals(w)'
<1>1. PICK M : M = {m}
  OBVIOUS
<1>2. /\ Goes(w, b, M)
      /\ \A n \in M : n \in Upward /\ n.type # "decision" /\ (n.type = "proposal" => n.follower \notin Leaders)
  BY <1>1
<1> QED
  BY <1>2, LeaderDeals

LEMMA NewsFacts ==
    ASSUME RuntimeInv, NEW w \in Workers, NEW k, NEW type, News(w, k, type)
    PROVE  /\ k \in Served(w) /\ k \in DOMAIN down[w] /\ down[w][k] \in Downward /\ down[w][k].type = type
           /\ type \notin Replies => k = 1
           /\ wk[w] \in Sound /\ wk[w] \in Runtimes
           /\ \A T : type \in T => UnderWay(w, T)
<1>1. k \in Served(w) /\ k \in DOMAIN down[w] /\ down[w][k].type = type /\ (type \notin Replies => k = 1)
  BY DEF News, Served
<1>2. down[w][k] \in Downward
  BY <1>1 DEF RuntimeInv
<1>3. wk[w] \in Sound /\ wk[w] \in Runtimes
  BY DEF RuntimeInv, Sound
<1> QED
  BY <1>1, <1>2, <1>3 DEF UnderWay

LEMMA RoleResultDeals ==
    ASSUME RuntimeInv, NEW w \in Workers, NEW k, RoleResult(w, k), Deals(w), Knows(w)
    PROVE  Deals(w)'
<1>1. /\ k \in Served(w) /\ k \in DOMAIN down[w] /\ down[w][k].type = "role_result"
      /\ wk[w] \in Sound /\ wk[w] \in Runtimes /\ UnderWay(w, RoleTypes)
  BY NewsFacts DEF RoleResult, RoleTypes
<1>2. ASSUME NEW view, view = down[w][k].route, view # NoRoute,
             Serve(w, k, Adopted(w, wk[w], view, 0), OnAdopt(w, wk[w], view, 0))
      PROVE  Deals(w)'
  BY <1>1, <1>2, AdoptsDeals DEF OfferTypes
<1>3. ASSUME w \in Leaders, Serve(w, k, [wk[w] EXCEPT !.pairing = "listing"], <<[type |-> "list"]>>)
      PROVE  Deals(w)'
  <2>1. PICK m \in Upward : m = [type |-> "list"]
    BY UpwardMade
  <2>2. Goes(w, k, {m}) /\ wk'[w] = [wk[w] EXCEPT !.pairing = "listing"]
    BY <1>1, <1>3, <2>1, ServeOne
  <2>3. /\ wk'[w].pairing = "listing" /\ wk'[w].route = wk[w].route /\ wk'[w].failed = wk[w].failed
        /\ wk'[w].reconciling = wk[w].reconciling
    BY <1>1, <2>2 DEF Runtimes
  <2>4. Leads(w) /\ wk[w].route = NoRoute
    BY <1>1, <1>3 DEF Deals, Leads, InStep, Step
  <2>5. m.type = "list"
    BY <2>1
  <2>6. Leads(w)'
    BY <1>1, <2>2, <2>3, <2>4, <2>5, LeaderLists
  <2> QED
    BY <1>3, <2>2, <2>3, <2>5, <2>6, LeaderSends
<1>4. ASSUME w \notin Leaders, Serve(w, k, [wk[w] EXCEPT !.pairing = "available"], <<>>)
      PROVE  Deals(w)'
  <2>1. Goes(w, k, {}) /\ wk'[w] = [wk[w] EXCEPT !.pairing = "available"]
    BY <1>1, <1>4, ServeNone
  <2>2. /\ wk'[w].pairing = "available" /\ wk'[w].route = wk[w].route /\ wk'[w].failed = wk[w].failed
        /\ wk'[w].reconciling = wk[w].reconciling /\ wk'[w].budget = wk[w].budget /\ wk'[w].proposal = wk[w].proposal
    BY <1>1, <2>1 DEF Runtimes
  <2> QED
    BY <1>1, <1>4, <2>1, <2>2, FollowerRests
<1> QED
  BY <1>2, <1>3, <1>4 DEF RoleResult

LEMMA ListResultDeals ==
    ASSUME RuntimeInv, NEW w \in Workers, NEW k, ListResult(w, k), Deals(w)
    PROVE  Deals(w)'
<1>1. /\ k \in Served(w) /\ k \in DOMAIN down[w] /\ down[w][k] \in Downward /\ down[w][k].type = "list_result"
      /\ wk[w] \in Runtimes
      /\ UnderWay(w, {"list", "list_result", "proposal", "proposal_result", "pairing_ended"})
  <2>1. News(w, k, "list_result")
    BY DEF ListResult
  <2>2. PICK T : T = {"list", "list_result", "proposal", "proposal_result", "pairing_ended"}
    OBVIOUS
  <2>3. "list_result" \in T
    BY <2>2
  <2> QED
    BY <2>1, <2>2, <2>3, NewsFacts
<1>2. w \in Leaders /\ Leads(w) /\ down[w][k].followers \cap Leaders = {} /\ down[w][k].followers \subseteq Workers
  BY <1>1, DownwardFields DEF Deals, Sides
<1>3. ASSUME NEW f \in down[w][k].followers,
             Serve(w, k, [wk[w] EXCEPT !.pairing = "proposing", !.pending = f], <<[type |-> "proposal", follower |-> f]>>)
      PROVE  Deals(w)'
  <2>1. f \in Workers /\ f \notin Leaders /\ f # "none"
    BY <1>2, PairRoutesAssumption
  <2>2. PICK m \in Upward : m = [type |-> "proposal", follower |-> f]
    BY <2>1, UpwardMade
  <2>3. Goes(w, k, {m}) /\ wk'[w] = [wk[w] EXCEPT !.pairing = "proposing", !.pending = f]
    BY <1>1, <1>3, <2>2, ServeOne
  <2>4. /\ wk'[w].pairing = "proposing" /\ wk'[w].pending = f /\ wk'[w].route = wk[w].route
        /\ wk'[w].failed = wk[w].failed /\ wk'[w].reconciling = wk[w].reconciling
    BY <1>1, <2>3 DEF Runtimes
  <2>5. m.type = "proposal" /\ m.follower = f
    BY <2>2
  <2>6. Leads(w)'
    BY <1>1, <1>2, <2>1, <2>3, <2>4, <2>5, LeaderProposes
  <2> QED
    BY <1>2, <2>1, <2>3, <2>4, <2>5, <2>6, LeaderSends
<1>4. ASSUME Serve(w, k, [wk[w] EXCEPT !.pairing = "unpaired"], <<>>)
      PROVE  Deals(w)'
  <2>1. Goes(w, k, {}) /\ wk'[w] = [wk[w] EXCEPT !.pairing = "unpaired"]
    BY <1>1, <1>4, ServeNone
  <2>2. /\ wk'[w].pairing = "unpaired" /\ wk'[w].route = wk[w].route /\ wk'[w].failed = wk[w].failed
        /\ wk'[w].reconciling = wk[w].reconciling
    BY <1>1, <2>1 DEF Runtimes
  <2>3. Leads(w)'
    BY <1>1, <1>2, <2>1, <2>2, LeaderRefused
  <2> QED
    BY <1>2, <2>1, <2>2, <2>3, LeaderDeals
<1> QED
  BY <1>3, <1>4 DEF ListResult

LEMMA ProposalResultDeals ==
    ASSUME RuntimeInv, NEW w \in Workers, NEW k, ProposalResult(w, k), Deals(w)
    PROVE  Deals(w)'
<1>1. /\ k \in Served(w) /\ k \in DOMAIN down[w] /\ down[w][k].type = "proposal_result"
      /\ wk[w] \in Runtimes /\ UnderWay(w, ProposalTypes)
      /\ UnderWay(w, {"list", "list_result", "proposal", "proposal_result", "pairing_ended"})
  BY NewsFacts DEF ProposalResult, ProposalTypes
<1>2. w \in Leaders /\ Leads(w)
  BY <1>1 DEF Deals, Sides
<1>3. ASSUME down[w][k].proposal = 0, Serve(w, k, Conflicted(w, wk[w]), <<>>) PROVE Deals(w)'
  <2>1. Goes(w, k, {}) /\ wk'[w] = Conflicted(w, wk[w])
    BY <1>1, <1>3, ServeNone
  <2>2. /\ wk'[w].pairing = "selecting" /\ wk'[w].route = wk[w].route /\ wk'[w].failed = wk[w].failed
        /\ wk'[w].reconciling = wk[w].reconciling
    BY <1>1, <1>2, <2>1, ConflictedTalk
  <2>3. Leads(w)'
    BY <1>1, <1>2, <1>3, <2>1, <2>2, LeaderRefused
  <2> QED
    BY <1>2, <2>1, <2>2, <2>3, LeaderDeals
<1>4. ASSUME NEW p, p = down[w][k].proposal, p # 0,
             Serve(w, k, [wk[w] EXCEPT !.pairing = "awaiting_decision", !.proposal = p,
                             !.budget = IF wk[w].pending = "none" THEN @
                                        ELSE [proposal |-> p, role |-> "leader", peer |-> wk[w].pending]], <<>>)
      PROVE  Deals(w)'
  <2>1. PICK n : n = [wk[w] EXCEPT !.pairing = "awaiting_decision", !.proposal = p,
                             !.budget = IF wk[w].pending = "none" THEN @
                                        ELSE [proposal |-> p, role |-> "leader", peer |-> wk[w].pending]]
    OBVIOUS
  <2>2. Goes(w, k, {}) /\ wk'[w] = n
    BY <1>1, <1>4, <2>1, ServeNone
  <2>3. wk[w].pending # "none"
    BY <1>1, <1>2 DEF Leads, InStep, Step
  <2>4. /\ n.pairing = "awaiting_decision" /\ n.proposal = p /\ n.route = wk[w].route /\ n.failed = wk[w].failed
        /\ n.reconciling = wk[w].reconciling /\ n.budget = [proposal |-> p, role |-> "leader", peer |-> wk[w].pending]
    BY <1>1, <2>1, <2>3 DEF Runtimes
  <2>5. Leads(w)'
    BY <1>1, <1>2, <1>4, <2>2, <2>4, LeaderFreezes
  <2> QED
    BY <1>2, <2>2, <2>4, <2>5, LeaderDeals
<1> QED
  BY <1>3, <1>4 DEF ProposalResult

LEMMA DecisionResultDeals ==
    ASSUME RuntimeInv, NEW w \in Workers, NEW k, DecisionResult(w, k), Deals(w), Knows(w)
    PROVE  Deals(w)'
<1>1. /\ k \in Served(w) /\ k \in DOMAIN down[w] /\ down[w][k].type = "decision_result"
      /\ wk[w] \in Runtimes /\ UnderWay(w, {"decision", "proposed", "decision_result"})
  BY NewsFacts DEF DecisionResult
<1>2. w \notin Leaders
  BY <1>1 DEF Deals, Sides
<1>3. ASSUME ~down[w][k].accepted, Serve(w, k, [Discarded(wk[w]) EXCEPT !.pairing = "available"], <<>>) PROVE Deals(w)'
  <2>1. Goes(w, k, {}) /\ wk'[w] = [Discarded(wk[w]) EXCEPT !.pairing = "available"]
    BY <1>1, <1>3, ServeNone
  <2>2. /\ wk'[w].pairing = "available" /\ wk'[w].route = wk[w].route /\ wk'[w].failed = wk[w].failed
        /\ wk'[w].reconciling = wk[w].reconciling
    <3>1. PICK rec \in Runtimes : rec = wk[w]
      BY <1>1
    <3>2. PICK n : n = [Discarded(rec) EXCEPT !.pairing = "available"]
      OBVIOUS
    <3>3. n.pairing = "available" /\ n.failed = rec.failed /\ n.reconciling = rec.reconciling /\ n.route = rec.route
      BY <3>2 DEF Discarded, Runtimes
    <3> QED
      BY <2>1, <3>1, <3>2, <3>3
  <2>3. Refuses(down[w][k])
    BY <1>1, <1>3 DEF Refuses
  <2> QED
    BY <1>1, <1>2, <2>1, <2>2, <2>3, FollowerDiscards
<1>4. ASSUME NEW view, view = down[w][k].route, view # NoRoute,
             Serve(w, k, Adopted(w, wk[w], view, wk[w].proposal), OnAdopt(w, wk[w], view, wk[w].proposal))
      PROVE  Deals(w)'
  BY <1>1, <1>4, AdoptsDeals DEF OfferTypes
<1>5. ASSUME Serve(w, k, [wk[w] EXCEPT !.proposal = 0, !.pairing = "available"], <<>>) PROVE Deals(w)'
  <2>1. Goes(w, k, {}) /\ wk'[w] = [wk[w] EXCEPT !.proposal = 0, !.pairing = "available"]
    BY <1>1, <1>5, ServeNone
  <2>2. /\ wk'[w].pairing = "available" /\ wk'[w].route = wk[w].route /\ wk'[w].failed = wk[w].failed
        /\ wk'[w].reconciling = wk[w].reconciling /\ wk'[w].budget = wk[w].budget /\ wk'[w].proposal = 0
    BY <1>1, <2>1 DEF Runtimes
  <2> QED
    BY <1>1, <1>2, <2>1, <2>2, FollowerRests
<1> QED
  BY <1>3, <1>4, <1>5 DEF DecisionResult

\* The Worker takes note of the news, and sends nothing.
LEMMA RestDeals ==
    ASSUME RuntimeInv, NEW w \in Workers, NEW b, Goes(w, b, {}), Deals(w), SameTalk(w),
           wk'[w].failed = wk[w].failed, wk'[w].reconciling => wk'[w].route # NoRoute,
           b \in DOMAIN down[w] => down[w][b].type \notin {"proposal_result", "pairing_ended", "proposed"}
    PROVE  Deals(w)'
<1>1. PICK M : M = {}
  OBVIOUS
<1>2. /\ Goes(w, b, M) /\ \A m \in M : m.type \notin {"role", "list", "proposal", "decision"} /\ m \in Upward
      /\ ~\E m \in M : m.type = "sync"
  BY <1>1
<1> QED
  BY <1>2, KeepsDeals

LEMMA SameDeals ==
    ASSUME RuntimeInv, NEW w \in Workers, NEW b, Goes(w, b, {}), Deals(w), wk'[w] = wk[w],
           b \in DOMAIN down[w] => down[w][b].type \notin {"proposal_result", "pairing_ended", "proposed"}
    PROVE  Deals(w)'
<1>1. SameTalk(w)
  BY DEF SameTalk
<1>2. wk'[w].reconciling => wk'[w].route # NoRoute
  BY DEF Deals, Attached
<1> QED
  BY <1>1, <1>2, RestDeals

\* A leader that starts over.
LEMMA LeaderAgain ==
    ASSUME RuntimeInv, NEW w \in Workers, w \in Leaders, NEW b, Goes(w, b, {}), Deals(w), Leads(w)',
           wk'[w].failed = wk[w].failed, wk'[w].reconciling = wk[w].reconciling, wk'[w].route = wk[w].route
    PROVE  Deals(w)'
<1>1. PICK M : M = {}
  OBVIOUS
<1>2. /\ Goes(w, b, M)
      /\ \A n \in M : n \in Upward /\ n.type # "decision" /\ (n.type = "proposal" => n.follower \notin Leaders)
  BY <1>1
<1> QED
  BY <1>2, LeaderDeals

\* A sync without a route, for a Worker that has one or none.
LEMMA AbsentRouteDeals ==
    ASSUME RuntimeInv, NEW w \in Workers, NEW k \in Served(w), k \in DOMAIN down[w], NoRouteNews(down[w][k]),
           Deals(w), Knows(w), wk[w].route # NoRoute,
           \/ Serve(w, k, Unrouted(wk[w]), <<>>)
           \/ Serve(w, k, [wk[w] EXCEPT !.reconciling = TRUE], <<>>)
    PROVE  Deals(w)'
<1>1. down[w][k].type = "sync_result"
  BY DEF NoRouteNews
<1>2. CASE Serve(w, k, Unrouted(wk[w]), <<>>)
  <2>1. Goes(w, k, {}) /\ wk'[w] = Unrouted(wk[w])
    BY <1>2, ServeNone
  <2>2. Gone(wk[w].route.id)
    BY DEF Knows, AbsenceLast
  <2> QED
    BY <1>1, <2>1, <2>2, LeavesDeals
<1>3. CASE Serve(w, k, [wk[w] EXCEPT !.reconciling = TRUE], <<>>)
  <2>1. PICK n : n = [wk[w] EXCEPT !.reconciling = TRUE]
    OBVIOUS
  <2>2. Goes(w, k, {}) /\ wk'[w] = n
    BY <1>3, <2>1, ServeNone
  <2>3. PICK rec \in Runtimes : rec = wk[w]
    BY DEF RuntimeInv, Sound
  <2>4. n = [rec EXCEPT !.reconciling = TRUE]
    BY <2>1, <2>3
  <2>5. /\ n.pairing = rec.pairing /\ n.pending = rec.pending /\ n.proposal = rec.proposal
        /\ n.budget = rec.budget /\ n.failed = rec.failed /\ n.route = rec.route
    BY <2>4 DEF Runtimes
  <2>6. SameTalk(w) /\ wk'[w].failed = wk[w].failed /\ wk'[w].route # NoRoute
    BY <2>2, <2>3, <2>5 DEF SameTalk
  <2> QED
    BY <1>1, <2>2, <2>6, RestDeals
<1> QED
  BY <1>2, <1>3

LEMMA AbsentPairingDeals ==
    ASSUME RuntimeInv, NEW w \in Workers, NEW k \in Served(w), k \in DOMAIN down[w], NoRouteNews(down[w][k]),
           Deals(w), ~down[w][k].open, wk[w].route = NoRoute,
           \/ wk[w].pairing = "deciding" /\ Serve(w, k, [Discarded(wk[w]) EXCEPT !.pairing = "available"], <<>>)
           \/ wk[w].pairing = "awaiting_decision" /\ Serve(w, k, Conflicted(w, wk[w]), <<>>)
    PROVE  Deals(w)'
<1>1. down[w][k].type = "sync_result" /\ Refuses(down[w][k])
  BY DEF NoRouteNews, Refuses, Closes
<1>2. PICK rec \in Runtimes : rec = wk[w]
  BY DEF RuntimeInv, Sound
<1>3. ASSUME wk[w].pairing = "deciding", Serve(w, k, [Discarded(wk[w]) EXCEPT !.pairing = "available"], <<>>)
      PROVE  Deals(w)'
  <2>1. PICK n : n = [Discarded(rec) EXCEPT !.pairing = "available"]
    OBVIOUS
  <2>2. n.pairing = "available" /\ n.failed = rec.failed /\ n.reconciling = rec.reconciling /\ n.route = rec.route
    BY <2>1 DEF Discarded, Runtimes
  <2>3. Goes(w, k, {}) /\ wk'[w] = n
    BY <1>2, <1>3, <2>1, ServeNone
  <2>4. CASE w \in Leaders
    <3>1. Leads(w)'
      BY <1>3, <2>2, <2>3, <2>4, LeaderStops DEF Deals
    <3> QED
      BY <1>2, <2>2, <2>3, <2>4, <3>1, LeaderAgain
  <2>5. CASE w \notin Leaders
    BY <1>1, <1>2, <2>2, <2>3, <2>5, FollowerDiscards
  <2> QED
    BY <2>4, <2>5
<1>4. ASSUME wk[w].pairing = "awaiting_decision", Serve(w, k, Conflicted(w, wk[w]), <<>>)
      PROVE  Deals(w)'
  <2>1. PICK n : n = Conflicted(w, rec)
    OBVIOUS
  <2>2. /\ n.pairing = (IF w \in Leaders THEN "selecting" ELSE "unpaired")
        /\ n.failed = rec.failed /\ n.reconciling = rec.reconciling /\ n.route = rec.route
    BY <2>1, ConflictedTalk
  <2>3. Goes(w, k, {}) /\ wk'[w] = n
    BY <1>2, <1>4, <2>1, ServeNone
  <2>4. CASE w \in Leaders
    <3>1. Leads(w)'
      BY <1>2, <1>4, <2>2, <2>3, <2>4, LeaderGivesUp DEF Deals
    <3> QED
      BY <1>2, <2>2, <2>3, <2>4, <3>1, LeaderAgain
  <2>5. CASE w \notin Leaders
    BY <1>1, <1>2, <2>2, <2>3, <2>5, FollowerDiscards
  <2> QED
    BY <2>4, <2>5
<1> QED
  BY <1>3, <1>4

LEMMA SyncResultDeals ==
    ASSUME RuntimeInv, NEW w \in Workers, NEW k, SyncResult(w, k), Deals(w), Knows(w)
    PROVE  Deals(w)'
<1>1. k \in Served(w) /\ k \in DOMAIN down[w] /\ down[w][k].type = "sync_result"
  <2>1. News(w, k, "sync_result")
    BY DEF SyncResult
  <2> QED
    BY <2>1, NewsFacts
<1>2. ASSUME NEW view, view = down[w][k].route, view # NoRoute,
             Serve(w, k, Adopted(w, wk[w], view, 0), OnAdopt(w, wk[w], view, 0))
      PROVE  Deals(w)'
  BY <1>1, <1>2, AdoptsDeals DEF OfferTypes
<1>3. ASSUME down[w][k].route = NoRoute, wk[w].route # NoRoute,
             Serve(w, k, IF wk[w].route.state = "UNPAIRING" /\ Safe(wk[w]) THEN Unrouted(wk[w])
                         ELSE [wk[w] EXCEPT !.reconciling = TRUE], <<>>)
      PROVE  Deals(w)'
  <2>1. NoRouteNews(down[w][k])
    BY <1>1, <1>3 DEF NoRouteNews
  <2>2. \/ Serve(w, k, Unrouted(wk[w]), <<>>)
        \/ Serve(w, k, [wk[w] EXCEPT !.reconciling = TRUE], <<>>)
    BY <1>3
  <2> QED
    BY <1>1, <1>3, <2>1, <2>2, AbsentRouteDeals
<1>4. ASSUME down[w][k].route = NoRoute, wk[w].route = NoRoute, PastGrace(down[w][k]),
             wk[w].pairing \in {"awaiting_decision", "deciding"},
             Serve(w, k, IF wk[w].pairing = "deciding" THEN [Discarded(wk[w]) EXCEPT !.pairing = "available"]
                         ELSE Conflicted(w, wk[w]), <<>>)
      PROVE  Deals(w)'
  <2>1. NoRouteNews(down[w][k]) /\ ~down[w][k].open
    BY <1>1, <1>4 DEF NoRouteNews, PastGrace
  <2>2. \/ wk[w].pairing = "deciding" /\ Serve(w, k, [Discarded(wk[w]) EXCEPT !.pairing = "available"], <<>>)
        \/ wk[w].pairing = "awaiting_decision" /\ Serve(w, k, Conflicted(w, wk[w]), <<>>)
    BY <1>4
  <2> QED
    BY <1>1, <1>4, <2>1, <2>2, AbsentPairingDeals
<1>5. ASSUME Serve(w, k, wk[w], <<>>) PROVE Deals(w)'
  <2>1. Goes(w, k, {}) /\ wk'[w] = wk[w]
    BY <1>1, <1>5, ServeNone
  <2> QED
    BY <1>1, <2>1, SameDeals
<1> QED
  BY <1>2, <1>3, <1>4, <1>5 DEF SyncResult

\* A state of the route, in a reply or a push.
LEMMA StateDeals ==
    ASSUME RuntimeInv, NEW w \in Workers, NEW k \in Served(w), k \in DOMAIN down[w], Deals(w),
           down[w][k].type \in {"unpair_result", "state_changed"},
           Serve(w, k, IF wk[w].route = NoRoute THEN wk[w] ELSE Fed(wk[w], down[w][k].route), <<>>)
    PROVE  Deals(w)'
<1>1. CASE wk[w].route = NoRoute
  <2>1. Serve(w, k, wk[w], <<>>)
    BY <1>1
  <2>2. Goes(w, k, {}) /\ wk'[w] = wk[w]
    BY <2>1, ServeNone
  <2> QED
    BY <2>2, SameDeals
<1>2. CASE wk[w].route # NoRoute
  <2>1. PICK rec \in Sound : rec = wk[w]
    BY DEF RuntimeInv
  <2>2. PICK view \in Route : view = down[w][k].route
    BY DownwardFields DEF RuntimeInv
  <2>3. PICK n : n = Fed(rec, view)
    OBVIOUS
  <2>4. Serve(w, k, n, <<>>)
    BY <1>2, <2>1, <2>2, <2>3
  <2>5. Goes(w, k, {}) /\ wk'[w] = n
    BY <2>4, ServeNone
  <2>6. /\ n.pairing = rec.pairing /\ n.pending = rec.pending /\ n.proposal = rec.proposal /\ n.budget = rec.budget
        /\ n.failed = rec.failed /\ n.route.id = rec.route.id /\ n.route # NoRoute
    BY <1>2, <2>1, <2>3, FedTalk
  <2>7. SameTalk(w) /\ wk'[w].failed = wk[w].failed /\ wk'[w].route # NoRoute
    BY <1>2, <2>1, <2>5, <2>6 DEF SameTalk
  <2> QED
    BY <2>5, <2>7, RestDeals
<1> QED
  BY <1>1, <1>2

LEMMA UnpairResultDeals ==
    ASSUME RuntimeInv, NEW w \in Workers, NEW k, UnpairResult(w, k) \/ StateChanged(w, k), Deals(w)
    PROVE  Deals(w)'
<1>1. PICK type \in {"unpair_result", "state_changed"} : News(w, k, type)
  BY DEF UnpairResult, StateChanged
<1>2. k \in Served(w) /\ k \in DOMAIN down[w] /\ down[w][k].type = type
  BY <1>1, NewsFacts
<1>3. Serve(w, k, IF wk[w].route = NoRoute THEN wk[w] ELSE Fed(wk[w], down[w][k].route), <<>>)
  BY DEF UnpairResult, StateChanged
<1> QED
  BY <1>1, <1>2, <1>3, StateDeals

LEMMA VersionResultDeals ==
    ASSUME RuntimeInv, NEW w \in Workers, NEW k, VersionResult(w, k), Deals(w)
    PROVE  Deals(w)'
<1>1. k \in Served(w) /\ k \in DOMAIN down[w] /\ down[w][k].type = "version_result"
  <2>1. News(w, k, "version_result")
    BY DEF VersionResult
  <2> QED
    BY <2>1, NewsFacts
<1>2. PICK rec \in Runtimes : rec = wk[w]
  BY DEF RuntimeInv, Sound
<1>3. PICK n : n = [rec EXCEPT !.published = Absent]
  OBVIOUS
<1>4. /\ n.pairing = rec.pairing /\ n.pending = rec.pending /\ n.proposal = rec.proposal /\ n.budget = rec.budget
      /\ n.failed = rec.failed /\ n.route = rec.route /\ n.reconciling = rec.reconciling
  BY <1>3 DEF Runtimes
<1>5. Serve(w, k, n, <<>>)
  BY <1>2, <1>3 DEF VersionResult
<1>6. Goes(w, k, {}) /\ wk'[w] = n
  BY <1>1, <1>5, ServeNone
<1>7. SameTalk(w) /\ wk'[w].failed = wk[w].failed /\ (wk'[w].reconciling => wk'[w].route # NoRoute)
  BY <1>2, <1>4, <1>6 DEF SameTalk, Deals, Attached
<1> QED
  BY <1>1, <1>6, <1>7, RestDeals

LEMMA GoneRoute ==
    ASSUME NEW i, Gone(i)
    PROVE  i # NoRoute.id
  BY IdsAreNumbers DEF Gone, NoRoute

LEMMA AssertionResultDeals ==
    ASSUME RuntimeInv, NEW w \in Workers, NEW k, AssertionResult(w, k), Deals(w), Knows(w)
    PROVE  Deals(w)'
<1>1. k \in Served(w) /\ k \in DOMAIN down[w] /\ down[w][k].type = "assertion_result"
  <2>1. News(w, k, "assertion_result")
    BY DEF AssertionResult
  <2> QED
    BY <2>1, NewsFacts
<1>2. Gone(wk[w].route.id) /\ wk[w].route # NoRoute
  BY <1>1, GoneRoute DEF Knows, ReplyLast
<1>3. Goes(w, k, {}) /\ wk'[w] = Unrouted(wk[w])
  BY <1>1, ServeNone DEF AssertionResult
<1> QED
  BY <1>1, <1>2, <1>3, LeavesDeals

LEMMA RemovedDeals ==
    ASSUME RuntimeInv, NEW w \in Workers, NEW k, Removed(w, k), Deals(w), Knows(w)
    PROVE  Deals(w)'
<1>1. k \in Served(w) /\ k \in DOMAIN down[w] /\ down[w][k].type = "removed"
  <2>1. News(w, k, "removed")
    BY DEF Removed
  <2> QED
    BY <2>1, NewsFacts
<1>2. CASE wk[w].route.id = down[w][k].route
  <2>1. Gone(wk[w].route.id) /\ wk[w].route # NoRoute
    BY <1>1, <1>2, GoneRoute DEF Knows, RemovalLast
  <2>2. Serve(w, k, Unrouted(wk[w]), <<>>)
    BY <1>2 DEF Removed
  <2>3. Goes(w, k, {}) /\ wk'[w] = Unrouted(wk[w])
    BY <1>1, <2>2, ServeNone
  <2> QED
    BY <1>1, <2>1, <2>3, LeavesDeals
<1>3. CASE wk[w].route.id # down[w][k].route
  <2>1. Serve(w, k, wk[w], <<>>)
    BY <1>3 DEF Removed
  <2>2. Goes(w, k, {}) /\ wk'[w] = wk[w]
    BY <1>1, <2>1, ServeNone
  <2> QED
    BY <1>1, <2>2, SameDeals
<1> QED
  BY <1>2, <1>3

LEMMA EstablishedDeals ==
    ASSUME RuntimeInv, NEW w \in Workers, NEW k, Established(w, k), Deals(w), Knows(w)
    PROVE  Deals(w)'
<1>1. k \in Served(w) /\ k \in DOMAIN down[w] /\ down[w][k] \in Downward /\ down[w][k].type = "established"
  <2>1. News(w, k, "established")
    BY DEF Established
  <2> QED
    BY <2>1, NewsFacts
<1>2. PICK view : view = down[w][k].route
  OBVIOUS
<1>3. view # NoRoute
  BY <1>1, <1>2, DownwardFields, IdsAreNumbers DEF ActiveRoute, Route
<1>4. Serve(w, k, Adopted(w, wk[w], view, wk[w].proposal), OnAdopt(w, wk[w], view, wk[w].proposal))
  BY <1>2 DEF Established
<1> QED
  BY <1>1, <1>2, <1>3, <1>4, AdoptsDeals DEF OfferTypes

\* The end of a pairing concerns a leader, whose proposal it was.
LEMMA PairingEndedDeals ==
    ASSUME RuntimeInv, NEW w \in Workers, NEW k, PairingEnded(w, k), Deals(w)
    PROVE  Deals(w)'
<1>1. k \in Served(w) /\ k \in DOMAIN down[w] /\ down[w][k].type = "pairing_ended" /\ k = 1
  <2>1. News(w, k, "pairing_ended")
    BY DEF PairingEnded
  <2>2. "pairing_ended" \notin Replies
    BY DEF Replies
  <2> QED
    BY <2>1, <2>2, NewsFacts
<1>2. UnderWay(w, {"list", "list_result", "proposal", "proposal_result", "pairing_ended"})
  BY <1>1 DEF UnderWay
<1>3. w \in Leaders /\ Leads(w)
  BY <1>2 DEF Deals, Sides
<1>4. wk[w].route = NoRoute
  BY <1>1, <1>3 DEF Leads, EndedLast
<1>5. PICK rec \in Runtimes : rec = wk[w]
  BY DEF RuntimeInv, Sound
<1>6. PICK n : n = Conflicted(w, rec)
  OBVIOUS
<1>7. n.pairing = "selecting" /\ n.failed = rec.failed /\ n.reconciling = rec.reconciling /\ n.route = rec.route
  BY <1>3, <1>6, ConflictedTalk
<1>8. Serve(w, k, n, <<>>)
  BY <1>3, <1>4, <1>5, <1>6 DEF PairingEnded
<1>9. Goes(w, k, {}) /\ wk'[w] = n
  BY <1>1, <1>8, ServeNone
<1>10. Leads(w)'
  BY <1>1, <1>3, <1>7, <1>9, LeaderEnded
<1> QED
  BY <1>3, <1>5, <1>7, <1>9, <1>10, LeaderAgain

\* A follower answers the proposal that it has taken from its queue.
LEMMA AnswersDeals ==
    ASSUME RuntimeInv, NEW w \in Workers, NEW k \in DOMAIN down[w], k \in Served(w), k = 1, Deals(w),
           down[w][k].type = "proposed", NEW rec, NEW m \in Upward, Serve(w, k, rec, <<m>>),
           m.type = "decision", m.proposal = down[w][k].proposal,
           rec.failed = wk[w].failed, rec.reconciling = wk[w].reconciling, rec.route = wk[w].route,
           rec.pairing # "selecting",
           m.accepted => /\ rec.route = NoRoute /\ rec.proposal = m.proposal
                         /\ rec.budget = [proposal |-> m.proposal, role |-> "follower", peer |-> down[w][k].leader]
    PROVE  Deals(w)'
<1>1. w \notin Leaders /\ Follows(w) /\ Attached(w) /\ Sides(w)
  <2>1. UnderWay(w, {"decision", "proposed", "decision_result"})
    BY DEF UnderWay
  <2> QED
    BY <2>1 DEF Deals, Sides
<1>2. Goes(w, k, {m}) /\ wk'[w] = rec /\ \E i \in DOMAIN up'[w] : up'[w][i] = m
  BY ServeOne
<1>3. Follows(w)'
  BY <1>1, <1>2, FollowerAnswers
<1>4. PICK M : M = {m}
  OBVIOUS
<1>5. Goes(w, k, M) /\ \A n \in M : n \in Upward /\ n.type = "decision"
  BY <1>2, <1>4
<1>6. Attached(w)'
  BY <1>1, <1>2, <1>5, GoesAttached DEF Attached
<1>7. Sides(w)'
  BY <1>1, <1>2, <1>5, GoesSides
<1> QED
  BY <1>1, <1>3, <1>6, <1>7 DEF Deals

LEMMA ProposedDeals ==
    ASSUME RuntimeInv, NEW w \in Workers, NEW k, Proposed(w, k), Deals(w)
    PROVE  Deals(w)'
<1>1. /\ k \in Served(w) /\ k \in DOMAIN down[w] /\ down[w][k] \in Downward /\ down[w][k].type = "proposed"
      /\ k = 1
  <2>1. News(w, k, "proposed")
    BY DEF Proposed
  <2>2. "proposed" \notin Replies
    BY DEF Replies
  <2> QED
    BY <2>1, <2>2, NewsFacts
<1>2. PICK id \in ProposalIds : id = down[w][k].proposal
  BY <1>1, DownwardFields
<1>3. PICK l : l = down[w][k].leader
  OBVIOUS
<1>4. PICK rec \in Runtimes : rec = wk[w]
  BY DEF RuntimeInv, Sound
<1>5. w \notin Leaders
  <2>1. UnderWay(w, {"decision", "proposed", "decision_result"})
    BY <1>1 DEF UnderWay
  <2> QED
    BY <2>1 DEF Deals, Sides
<1>6. rec.pairing # "selecting"
  BY <1>4, <1>5 DEF Deals, Sides
<1>7. ASSUME rec.route = NoRoute,
             Serve(w, k, [rec EXCEPT !.pairing = "deciding", !.proposal = id,
                             !.budget = [proposal |-> id, role |-> "follower", peer |-> l]],
                   <<[type |-> "decision", proposal |-> id, accepted |-> TRUE]>>)
      PROVE  Deals(w)'
  <2>1. PICK m \in Upward : m = [type |-> "decision", proposal |-> id, accepted |-> TRUE]
    BY UpwardMade
  <2>2. PICK n : n = [rec EXCEPT !.pairing = "deciding", !.proposal = id,
                             !.budget = [proposal |-> id, role |-> "follower", peer |-> l]]
    OBVIOUS
  <2>3. /\ n.failed = rec.failed /\ n.reconciling = rec.reconciling /\ n.route = rec.route /\ n.pairing = "deciding"
        /\ n.proposal = id /\ n.budget = [proposal |-> id, role |-> "follower", peer |-> l]
    BY <2>2 DEF Runtimes
  <2>4. Serve(w, k, n, <<m>>)
    BY <1>7, <2>1, <2>2
  <2>5. m.type = "decision" /\ m.proposal = id
    BY <2>1
  <2> QED
    BY <1>1, <1>2, <1>3, <1>4, <1>7, <2>3, <2>4, <2>5, AnswersDeals
<1>8. ASSUME Serve(w, k, rec, <<[type |-> "decision", proposal |-> id, accepted |-> FALSE]>>)
      PROVE  Deals(w)'
  <2>1. PICK m \in Upward : m = [type |-> "decision", proposal |-> id, accepted |-> FALSE]
    BY UpwardMade
  <2>2. Serve(w, k, rec, <<m>>)
    BY <1>8, <2>1
  <2>3. m.type = "decision" /\ m.proposal = id /\ ~m.accepted
    BY <2>1
  <2> QED
    BY <1>1, <1>2, <1>4, <1>6, <2>2, <2>3, AnswersDeals
<1> QED
  BY <1>2, <1>3, <1>4, <1>7, <1>8 DEF Proposed

\* What a Worker does leaves the others as they are.
Alone(w) ==
    /\ \A u \in Workers \ {w} : /\ wk'[u] = wk[u] /\ up'[u] = up[u] /\ down'[u] = down[u] /\ owed'[u] = owed[u]
                                /\ conn'[u] = conn[u] /\ session'[u] = session[u]
    /\ UNCHANGED <<reservations, routes>>

LEMMA AloneDeals ==
    ASSUME NEW w \in Workers, Alone(w), Deals(w)', \A u \in Workers : Deals(u), NEW u \in Workers
    PROVE  Deals(u)'
<1>1. CASE u = w
  BY <1>1
<1>2. CASE u # w
  BY <1>2, Untouched DEF Alone
<1> QED
  BY <1>1, <1>2

LEMMA ServeAlone ==
    ASSUME RuntimeInv, NEW w \in Workers, NEW k, NEW rec, NEW ms, Serve(w, k, rec, ms)
    PROVE  Alone(w)
<1>1. PICK q : down' = [down EXCEPT ![w] = q]
  BY DEF Serve
<1>2. PICK o : owed' = [owed EXCEPT ![w] = o]
  BY DEF Serve
<1>3. PICK n : up' = [up EXCEPT ![w] = n]
  BY DEF Serve
<1>4. wk' = [wk EXCEPT ![w] = rec] /\ UNCHANGED <<conn, session, reservations, routes>>
  BY DEF Serve, ledger, pairing
<1>5. down \in [Workers -> Seq(Downward)] /\ owed \in [Workers -> Nat] /\ up \in [Workers -> Seq(Upward)] /\ wk \in [Workers -> Sound]
  BY DEF RuntimeInv
<1> QED
  BY <1>1, <1>2, <1>3, <1>4, <1>5 DEF Alone

LEMMA ActAlone ==
    ASSUME RuntimeInv, NEW w \in Workers, NEW rec, NEW ms, Act(w, rec, ms)
    PROVE  Alone(w)
<1>1. PICK n : up' = [up EXCEPT ![w] = n]
  BY DEF Act
<1>2. wk' = [wk EXCEPT ![w] = rec] /\ UNCHANGED <<conn, session, down, owed, reservations, routes>>
  BY DEF Act, ledger, pairing
<1>3. up \in [Workers -> Seq(Upward)] /\ wk \in [Workers -> Sound]
  BY DEF RuntimeInv
<1> QED
  BY <1>1, <1>2, <1>3 DEF Alone

LEMMA NewsAlone ==
    ASSUME RuntimeInv, NEW w \in Workers, NEW k, Answered(w, k) \/ Notified(w, k)
    PROVE  Alone(w)
<1>1. \E rec, ms : Serve(w, k, rec, ms)
  <2>1. ASSUME Answered(w, k) PROVE \E rec, ms : Serve(w, k, rec, ms)
    BY <2>1 DEF Answered, RoleResult, ListResult, ProposalResult, DecisionResult, SyncResult, UnpairResult,
         VersionResult, AssertionResult
  <2>2. ASSUME Notified(w, k) PROVE \E rec, ms : Serve(w, k, rec, ms)
    BY <2>2 DEF Notified, Proposed, PairingEnded, Established, StateChanged, Removed
  <2> QED
    BY <2>1, <2>2
<1> QED
  BY <1>1, ServeAlone

LEMMA NewsDeals ==
    ASSUME RuntimeInv, NEW w \in Workers, NEW k, Answered(w, k) \/ Notified(w, k), \A v \in Workers : Deals(v) /\ Knows(v)
    PROVE  \A u \in Workers : Deals(u)'
<1>1. Deals(w) /\ Knows(w)
  OBVIOUS
<1>2. CASE Answered(w, k)
  BY <1>1, <1>2, RoleResultDeals, ListResultDeals, ProposalResultDeals, DecisionResultDeals, SyncResultDeals,
     UnpairResultDeals, VersionResultDeals, AssertionResultDeals, NewsAlone, AloneDeals DEF Answered
<1>3. CASE Notified(w, k)
  BY <1>1, <1>3, ProposedDeals, PairingEndedDeals, EstablishedDeals, UnpairResultDeals, RemovedDeals,
     NewsAlone, AloneDeals DEF Notified
<1> QED
  BY <1>2, <1>3

\* A Worker that acts on its own serves nothing.
LEMMA NothingServed ==
    ASSUME RuntimeInv, NEW w \in Workers
    PROVE  Len(down[w]) + 1 \notin DOMAIN down[w]
<1>1. PICK q \in Seq(Downward) : q = down[w]
  BY DEF RuntimeInv
<1> QED
  BY <1>1

\* It keeps to its talk, and sends a message outside it.
LEMMA ActsDeals ==
    ASSUME RuntimeInv, NEW w \in Workers, NEW rec, NEW m \in Upward, Act(w, rec, <<m>>), Deals(w),
           rec.pairing = wk[w].pairing, rec.pending = wk[w].pending, rec.proposal = wk[w].proposal,
           rec.budget = wk[w].budget, rec.route = wk[w].route, rec.failed = wk[w].failed,
           rec.reconciling = wk[w].reconciling,
           m.type \notin {"role", "list", "proposal", "decision"},
           m.type = "sync" /\ w \in Leaders => ~UnderWay(w, ListTypes) /\ ~UnderWay(w, ProposalTypes)
    PROVE  Deals(w)'
<1>1. PICK b : b = Len(down[w]) + 1
  OBVIOUS
<1>2. b \notin DOMAIN down[w]
  BY <1>1, NothingServed
<1>3. PICK M : M = {m} /\ Goes(w, b, M) /\ wk'[w] = rec
  BY <1>1, ActOne
<1>4. SameTalk(w) /\ wk'[w].failed = wk[w].failed /\ (wk'[w].reconciling => wk'[w].route # NoRoute)
  BY <1>3 DEF SameTalk, Deals, Attached
<1>5. \A n \in M : n.type \notin {"role", "list", "proposal", "decision"} /\ n \in Upward
  BY <1>3
<1>6. (\E n \in M : n.type = "sync") /\ w \in Leaders => ~UnderWay(w, ListTypes) /\ ~UnderWay(w, ProposalTypes)
  BY <1>3
<1> QED
  BY <1>2, <1>3, <1>4, <1>5, <1>6, KeepsDeals

LEMMA DeclareRoleDeals ==
    ASSUME RuntimeInv, NEW w \in Workers, DeclareRole(w), Deals(w)
    PROVE  Deals(w)' /\ Alone(w)
<1>1. PICK m \in Upward : m = [type |-> "role"]
  BY UpwardMade
<1>2. PICK rec \in Runtimes : rec = wk[w]
  BY DEF RuntimeInv, Sound
<1>3. PICK n : n = [rec EXCEPT !.pairing = "declaring"]
  OBVIOUS
<1>4. /\ n.pairing = "declaring" /\ n.route = rec.route /\ n.failed = rec.failed /\ n.reconciling = rec.reconciling
      /\ n.budget = rec.budget /\ n.proposal = rec.proposal
  BY <1>3 DEF Runtimes
<1>5. Act(w, n, <<m>>) /\ wk[w].pairing = "unstarted" /\ wk[w].route = NoRoute
  BY <1>1, <1>2, <1>3 DEF DeclareRole, Advancing
<1>6. PICK b : b = Len(down[w]) + 1
  OBVIOUS
<1>7. b \notin DOMAIN down[w] /\ Goes(w, b, {m}) /\ wk'[w] = n
  BY <1>5, <1>6, NothingServed, ActOne
<1>8. m.type = "role"
  BY <1>1
<1>9. CASE w \in Leaders
  <2>1. Leads(w)'
    BY <1>2, <1>4, <1>5, <1>7, <1>8, <1>9, LeaderDeclares DEF Deals
  <2> QED
    BY <1>2, <1>4, <1>5, <1>7, <1>8, <1>9, <2>1, LeaderSends, ActAlone
<1>10. CASE w \notin Leaders
  <2>1. PICK M : M = {m}
    OBVIOUS
  <2>2. Goes(w, b, M) /\ \A x \in M : x \in Upward /\ x.type \notin {"list", "proposal", "decision"}
    BY <1>7, <1>8, <2>1
  <2> QED
    BY <1>2, <1>4, <1>5, <1>7, <1>10, <2>2, FollowerKeeps, ActAlone
<1> QED
  BY <1>9, <1>10

LEMMA BeginSelectionDeals ==
    ASSUME RuntimeInv, NEW w \in Workers, BeginSelection(w), Deals(w)
    PROVE  Deals(w)' /\ Alone(w)
<1>1. PICK m \in Upward : m = [type |-> "list"]
  BY UpwardMade
<1>2. PICK rec \in Runtimes : rec = wk[w]
  BY DEF RuntimeInv, Sound
<1>3. PICK n : n = [rec EXCEPT !.pairing = "listing"]
  OBVIOUS
<1>4. n.pairing = "listing" /\ n.route = rec.route /\ n.failed = rec.failed /\ n.reconciling = rec.reconciling
  BY <1>3 DEF Runtimes
<1>5. Act(w, n, <<m>>) /\ wk[w].pairing = "selecting" /\ wk[w].route = NoRoute
  BY <1>1, <1>2, <1>3 DEF BeginSelection, Advancing
<1>6. PICK b : b = Len(down[w]) + 1
  OBVIOUS
<1>7. b \notin DOMAIN down[w] /\ Goes(w, b, {m}) /\ wk'[w] = n /\ owed[w] = 0
  BY <1>5, <1>6, NothingServed, ActOne
<1>8. m.type = "list"
  BY <1>1
<1>9. w \in Leaders /\ Leads(w)
  BY <1>5 DEF Deals, Sides
<1>10. Leads(w)'
  BY <1>2, <1>4, <1>5, <1>7, <1>8, <1>9, LeaderLists
<1> QED
  BY <1>2, <1>4, <1>5, <1>7, <1>8, <1>9, <1>10, LeaderSends, ActAlone

LEMMA RequestSyncDeals ==
    ASSUME RuntimeInv, NEW w \in Workers, RequestSync(w), Deals(w)
    PROVE  Deals(w)' /\ Alone(w)
<1>1. PICK m \in Upward : m = SyncRequest
  BY UpwardMade
<1>2. m.type = "sync"
  BY <1>1 DEF SyncRequest
<1>3. Act(w, wk[w], <<m>>)
  BY <1>1 DEF RequestSync
<1>4. wk[w].route # NoRoute \/ wk[w].pairing \in {"awaiting_decision", "deciding"}
  BY DEF RequestSync, Advancing, Deals, Attached
<1>5. w \in Leaders => ~UnderWay(w, ListTypes) /\ ~UnderWay(w, ProposalTypes)
  BY <1>4 DEF Deals, Leads, InStep, Step
<1> QED
  BY <1>2, <1>3, <1>5, ActsDeals, ActAlone

LEMMA RouteKnown ==
    ASSUME RuntimeInv, NEW w \in Workers, wk[w].route # NoRoute
    PROVE  wk[w].route.id \in RouteIds /\ wk[w].version \in Versions
  BY IdsAreNumbers DEF RuntimeInv, Sound, Runtimes

LEMMA PublishDeals ==
    ASSUME RuntimeInv, NEW w \in Workers, PublishVersion(w) \/ AssertSafe(w), Deals(w)
    PROVE  Deals(w)' /\ Alone(w)
<1>1. PICK rec \in Runtimes : rec = wk[w]
  BY DEF RuntimeInv, Sound
<1>2. rec.route.id \in RouteIds /\ rec.version \in Versions
  BY <1>1, RouteKnown DEF PublishVersion, AssertSafe
<1>3. CASE PublishVersion(w)
  <2>1. PICK m \in Upward : m = [type |-> "version", route |-> rec.route.id, version |-> rec.version]
    BY <1>2, UpwardMade
  <2>2. PICK n : n = [rec EXCEPT !.published = rec.version]
    OBVIOUS
  <2>3. /\ n.pairing = rec.pairing /\ n.pending = rec.pending /\ n.proposal = rec.proposal /\ n.budget = rec.budget
        /\ n.failed = rec.failed /\ n.route = rec.route /\ n.reconciling = rec.reconciling
    BY <2>2 DEF Runtimes
  <2>4. Act(w, n, <<m>>)
    BY <1>1, <1>3, <2>1, <2>2 DEF PublishVersion
  <2>5. m.type = "version"
    BY <2>1
  <2> QED
    BY <1>1, <2>3, <2>4, <2>5, ActsDeals, ActAlone
<1>4. CASE AssertSafe(w)
  <2>1. PICK m \in Upward : m = [type |-> "assertion", route |-> rec.route.id, version |-> rec.version]
    BY <1>2, UpwardMade
  <2>2. Act(w, rec, <<m>>)
    BY <1>1, <1>4, <2>1 DEF AssertSafe
  <2>3. m.type = "assertion"
    BY <2>1
  <2> QED
    BY <1>1, <2>2, <2>3, ActsDeals, ActAlone
<1> QED
  BY <1>3, <1>4

LEMMA AttemptDeals ==
    ASSUME RuntimeInv, NEW w \in Workers, StartAttempt(w) \/ FinishAttempt(w), Deals(w)
    PROVE  Deals(w)' /\ Alone(w)
<1>1. PICK rec \in Runtimes : rec = wk[w]
  BY DEF RuntimeInv, Sound
<1>2. PICK busy : Act(w, [rec EXCEPT !.busy = busy, !.version = @ + 1], <<>>)
  BY <1>1 DEF StartAttempt, FinishAttempt
<1>3. PICK n : n = [rec EXCEPT !.busy = busy, !.version = @ + 1]
  OBVIOUS
<1>4. /\ n.pairing = rec.pairing /\ n.pending = rec.pending /\ n.proposal = rec.proposal /\ n.budget = rec.budget
      /\ n.failed = rec.failed /\ n.route = rec.route /\ n.reconciling = rec.reconciling
  BY <1>3 DEF Runtimes
<1>5. Act(w, n, <<>>)
  BY <1>2, <1>3
<1>7. PICK b : b = Len(down[w]) + 1
  OBVIOUS
<1>8. b \notin DOMAIN down[w] /\ Goes(w, b, {}) /\ wk'[w] = n
  BY <1>5, <1>7, NothingServed, ActNone
<1>9. SameTalk(w) /\ wk'[w].failed = wk[w].failed /\ (wk'[w].reconciling => wk'[w].route # NoRoute)
  BY <1>1, <1>4, <1>8 DEF SameTalk, Deals, Attached
<1> QED
  BY <1>5, <1>8, <1>9, RestDeals, ActAlone

LEMMA CommandDeals ==
    ASSUME RuntimeInv, NEW w \in Workers, NEW action \in Commands, OperatorCommand(w, action), Deals(w)
    PROVE  Deals(w)' /\ Alone(w)
<1>1. wk[w].route.id \in RouteIds
  BY RouteKnown DEF OperatorCommand
<1>2. PICK m \in Upward : m = [type |-> "unpair", route |-> wk[w].route.id, action |-> action]
  BY <1>1, UpwardMade
<1>3. Act(w, wk[w], <<m>>)
  BY <1>2 DEF OperatorCommand
<1>4. m.type = "unpair"
  BY <1>2
<1> QED
  BY <1>3, <1>4, ActsDeals, ActAlone

LEMMA PumpDeals ==
    ASSUME RuntimeInv, NEW w \in Workers, Pump(w), \A v \in Workers : Deals(v)
    PROVE  \A u \in Workers : Deals(u)'
<1>1. Deals(w)' /\ Alone(w)
  BY DeclareRoleDeals, BeginSelectionDeals, RequestSyncDeals, PublishDeals, AttemptDeals, CommandDeals DEF Pump
<1> QED
  BY <1>1, AloneDeals

\* A Worker without messages that is in no pairing.
Silent(w) ==
    /\ up[w] = <<>> /\ down[w] = <<>> /\ ~Paired(w)
    /\ wk[w].pairing # "proposing" /\ (wk[w].pairing = "selecting" => w \in Leaders)
    /\ ~wk[w].failed /\ ~wk[w].reconciling
    /\ conn[w] = IF session[w] THEN "live" ELSE "none"
    /\ ~session[w] => wk[w] = NewWorker

LEMMA SilentDeals ==
    ASSUME NEW w, Silent(w)
    PROVE  Deals(w)
<1>1. DOMAIN up[w] = {} /\ DOMAIN down[w] = {}
  BY DEF Silent
<1>2. \A T : ~UnderWay(w, T) /\ Once(w, T)
  BY <1>1 DEF UnderWay, Once
<1>3. \A x \in reservations \cup routes : w \notin Pair(x)
  BY DEF Silent, Paired
<1>4. Attached(w)
  BY DEF Silent, Attached
<1>5. Sides(w)
  BY <1>1, <1>2 DEF Silent, Sides
<1>6. InStep(w) /\ SyncsFirst(w)
  BY <1>1, <1>2 DEF Silent, InStep, Step, SyncsFirst
<1>7. EndedLast(w)
  BY <1>1 DEF EndedLast
<1>8. LeaderBound(w) /\ FollowerBound(w)
  BY <1>3 DEF LeaderBound, FollowerBound
<1>9. OneQuestion(w)
  BY <1>1, <1>2 DEF OneQuestion
<1> QED
  BY <1>4, <1>5, <1>6, <1>7, <1>8, <1>9 DEF Deals, Leads, Follows

LEMMA DealsInit == Init => BudgetInv
<1> SUFFICES ASSUME Init, NEW w \in Workers PROVE Deals(w)
  BY DEF BudgetInv
<1>1. up[w] = <<>> /\ down[w] = <<>>
  BY DEF Init
<1>2. ~Paired(w)
  BY DEF Init, LedgerInit, Paired
<1>3. conn[w] = IF session[w] THEN "live" ELSE "none"
  BY DEF Init
<1>4. PICK state : /\ state = IF w \notin Approved THEN "unstarted" ELSE IF w \in Leaders THEN "selecting" ELSE "available"
                   /\ wk[w] = [NewWorker EXCEPT !.pairing = state]
  BY DEF Init, NewWorker
<1>5. wk[w].pairing = state /\ ~wk[w].failed /\ ~wk[w].reconciling
  BY <1>4 DEF NewWorker
<1>6. ~session[w] => wk[w] = NewWorker
  BY <1>4 DEF Init, NewWorker
<1>7. Silent(w)
  BY <1>1, <1>2, <1>3, <1>4, <1>5, <1>6 DEF Silent
<1> QED
  BY <1>7, SilentDeals

\* The first session of a Worker.
LEMMA OpenSessionDeals ==
    ASSUME RuntimeInv, NEW w \in Workers, OpenSession(w), \A v \in Workers : Deals(v), NEW u \in Workers
    PROVE  Deals(u)'
<1>1. wk[w] = NewWorker /\ ~Paired(w)
  BY DEF OpenSession, Deals, Attached
<1>2. Silent(w)'
  <2>1. /\ session'[w] /\ conn'[w] = "live" /\ down'[w] = <<>>
        /\ UNCHANGED <<reservations, routes>>
    BY DEF OpenSession, RuntimeInv, ledger, pairing
  <2>2. wk[w].route = NoRoute
    BY <1>1 DEF NewWorker
  <2>3. up'[w] = <<>>
    BY <2>2 DEF OpenSession, RuntimeInv
  <2>4. wk'[w].pairing = "unstarted" /\ ~wk'[w].failed /\ ~wk'[w].reconciling
    <3>1. wk'[w] = [NewWorker EXCEPT !.budget = wk[w].budget, !.route = wk[w].route, !.version = wk[w].version,
                       !.busy = wk[w].busy, !.pairing = "unstarted"]
      BY <2>2 DEF OpenSession, RuntimeInv
    <3> QED
      BY <3>1 DEF NewWorker
  <2>5. ~Paired(w)'
    BY <1>1, <2>1 DEF Paired
  <2> QED
    BY <2>1, <2>3, <2>4, <2>5 DEF Silent
<1>3. Deals(w)'
  BY <1>2, SilentDeals, PTL
<1>4. Alone(w)
  <2>1. PICK c : conn' = [conn EXCEPT ![w] = c]
    BY DEF OpenSession
  <2>2. PICK s : session' = [session EXCEPT ![w] = s]
    BY DEF OpenSession
  <2>3. PICK rec : wk' = [wk EXCEPT ![w] = rec]
    BY DEF OpenSession
  <2>4. PICK q : up' = [up EXCEPT ![w] = q]
    BY DEF OpenSession
  <2>5. down' = [down EXCEPT ![w] = <<>>] /\ owed' = [owed EXCEPT ![w] = 0] /\ UNCHANGED <<reservations, routes>>
    BY DEF OpenSession, ledger, pairing
  <2>6. /\ down \in [Workers -> Seq(Downward)] /\ owed \in [Workers -> Nat] /\ up \in [Workers -> Seq(Upward)]
        /\ wk \in [Workers -> Sound] /\ conn \in [Workers -> {"none", "live", "closing", "ended"}]
        /\ session \in [Workers -> BOOLEAN]
    BY DEF RuntimeInv
  <2> QED
    BY <2>1, <2>2, <2>3, <2>4, <2>5, <2>6 DEF Alone
<1> QED
  BY <1>3, <1>4, AloneDeals

LEMMA StillDeals ==
    ASSUME UNCHANGED <<network, wk, reservations, routes>>, NEW u \in Workers, Deals(u)
    PROVE  Deals(u)'
  BY Untouched DEF network

\* While no session breaks, none is to be noticed.
LEMMA ConnectionDeals ==
    ASSUME RuntimeInv, NEW w \in Workers, Connection(w), faults' = 0, \A v \in Workers : Deals(v), NEW u \in Workers
    PROVE  Deals(u)'
<1>1. CASE OpenSession(w)
  BY <1>1, OpenSessionDeals
<1>2. CASE LoseSession(w) \/ RevokeWorker(w) \/ DeleteWorker(w)
  BY <1>2 DEF LoseSession, RevokeWorker, DeleteWorker, Fault
<1>3. CASE NoticeDisconnect(w) \/ DiscardConnection(w)
  BY <1>3 DEF NoticeDisconnect, DiscardConnection, Deals, Attached
<1>4. CASE ApproveWorker(w)
  <2>1. UNCHANGED <<network, wk, reservations, routes>>
    BY <1>4 DEF ApproveWorker, Approve, pairing
  <2> QED
    BY <2>1, StillDeals
<1> QED
  BY <1>1, <1>2, <1>3, <1>4 DEF Connection

\* A reservation that lapses binds its leader as before and its follower less.
LEMMA LapseDeals ==
    ASSUME RuntimeInv, ReservationLapses, NEW w \in Workers, Deals(w)
    PROVE  Deals(w)'
<1>1. PICK p \in reservations : Lapse(p)
  BY DEF ReservationLapses
<1>2. PICK q : q = [p EXCEPT !.lapsed = TRUE]
  OBVIOUS
<1>3. p \in Reservation
  BY DEF RuntimeInv, LedgerInv, LedgerTypeOK
<1>4. q.id = p.id /\ q.leader = p.leader /\ q.follower = p.follower /\ q.lapsed
  BY <1>2, <1>3 DEF Reservation
<1>5. /\ reservations' = (reservations \ {p}) \cup {q}
      /\ UNCHANGED <<conn, session, up, down, owed, wk, routes>>
  BY <1>1, <1>2 DEF Lapse, ReservationLapses, network
<1>6. Pair(q) = Pair(p)
  BY <1>4 DEF Pair
<1>7. Paired(w)' <=> Paired(w)
  BY <1>5, <1>6 DEF Paired
<1>8. Attached(w)' /\ Sides(w)'
  <2>1. Attached(w)'
    BY <1>5, <1>7 DEF Deals, Attached
  <2>2. Sides(w)'
    BY <1>5 DEF Deals, Sides, UnderWay
  <2> QED
    BY <2>1, <2>2
<1>9. ASSUME w \in Leaders PROVE Leads(w)'
  <2>1. InStep(w)' /\ SyncsFirst(w)'
    BY <1>5, <1>9 DEF Deals, Leads, InStep, SyncsFirst, Step, Once, UnderWay
  <2>2. EndedLast(w)'
    BY <1>5, <1>7, <1>9 DEF Deals, Leads, EndedLast, Closes, NoRouteNews
  <2>3. \A id, f : Proposes(w, id, f) => Proposes(w, id, f)'
    BY <1>5 DEF Proposes, Closes, NoRouteNews
  <2>4. LeaderBound(w)'
    BY <1>4, <1>5, <1>6, <1>9, <2>3 DEF Deals, Leads, LeaderBound
  <2> QED
    BY <2>1, <2>2, <2>4 DEF Leads
<1>10. ASSUME w \notin Leaders PROVE Follows(w)'
  <2>1. OneQuestion(w)'
    BY <1>5, <1>10 DEF Deals, Follows, OneQuestion, Once, UnderWay, Routed
  <2>2. \A l : Accepts(w, l) => Accepts(w, l)'
    BY <1>5 DEF Accepts, Refuses, Closes, NoRouteNews
  <2>3. ASSUME NEW x \in reservations', w \in Pair(x)
        PROVE  x.leader # w /\ Asked(w, x)'
    <3>1. CASE x \in reservations
      <4>1. x.leader # w /\ Asked(w, x)
        BY <1>10, <2>3, <3>1 DEF Deals, Follows, FollowerBound
      <4> QED
        BY <1>5, <2>2, <4>1 DEF Asked, Refuses, Closes, NoRouteNews
    <3>2. CASE x = q
      <4>1. p.leader # w /\ Asked(w, p)
        BY <1>6, <1>10, <2>3, <3>2 DEF Deals, Follows, FollowerBound
      <4> QED
        BY <1>4, <1>5, <3>2, <4>1 DEF Asked
    <3> QED
      BY <1>5, <3>1, <3>2
  <2>4. ASSUME NEW r \in routes', w \in Pair(r)
        PROVE  r.leader # w /\ IF wk'[w].route = NoRoute THEN Accepts(w, r.leader)' ELSE wk'[w].route.id = r.id
    BY <1>5, <1>10, <2>2, <2>4 DEF Deals, Follows, FollowerBound
  <2>5. FollowerBound(w)'
    BY <2>3, <2>4 DEF FollowerBound
  <2> QED
    BY <2>1, <2>5 DEF Follows
<1> QED
  BY <1>8, <1>9, <1>10 DEF Deals

LEMMA BudgetStep == RuntimeInv /\ UnpairInv /\ BudgetInv /\ [Next]_vars => BudgetInv'
<1> SUFFICES ASSUME RuntimeInv, UnpairInv, BudgetInv, [Next]_vars, Quiet', NEW u \in Workers PROVE Deals(u)'
  BY DEF BudgetInv
<1>1. faults' = 0 /\ ~crossed' /\ faults = 0 /\ ~crossed
  BY CountsGrow DEF Quiet
<1>2. \A v \in Workers : Deals(v) /\ Knows(v)
  BY <1>1 DEF BudgetInv, Quiet, UnpairInv
<1>3. LedgerInv'
  BY RuntimeTyped DEF RuntimeInv
<1>4. ASSUME NEW w \in Workers, Service(w) PROVE Deals(u)'
  <2>1. Attends(w)
    BY <1>1, <1>2, <1>3, <1>4, ServiceAttends
  <2> QED
    BY <1>2, <2>1, AttendsDeals
<1>5. ASSUME NEW w \in Workers, Pump(w) PROVE Deals(u)'
  BY <1>2, <1>5, PumpDeals
<1>6. ASSUME NEW w \in Workers, Connection(w) PROVE Deals(u)'
  BY <1>1, <1>2, <1>6, ConnectionDeals
<1>7. ASSUME NEW w \in Workers, NEW k \in DOMAIN down[w], Answered(w, k) \/ Notified(w, k) PROVE Deals(u)'
  BY <1>2, <1>7, NewsDeals
<1>8. CASE ReservationLapses
  BY <1>2, <1>8, LapseDeals
<1>9. CASE Restart
  BY <1>1, <1>9 DEF Restart, Fault
<1>10. CASE UNCHANGED vars
  <2>1. UNCHANGED <<network, wk, reservations, routes>>
    BY <1>10 DEF vars, ledger, pairing
  <2> QED
    BY <1>2, <2>1, StillDeals
<1> QED
  BY <1>4, <1>5, <1>6, <1>7, <1>8, <1>9, <1>10 DEF Next

\* The inductive invariant of the negotiation.
THEOREM NegotiationInvariant == Spec => []BudgetInv
  BY DealsInit, BudgetStep, RuntimeInvariant, UnpairInvariant, PTL DEF Spec

\* While no session breaks, the administrator leaves the Workers alone and no
\* follower is reserved across an earlier negotiation, no Worker fails closed:
\* each finds the budget it froze when it adopts a route
\* (_adopt_controller_route), in whatever order decisions, expiries, refusals
\* and syncs arrive.
THEOREM BudgetsKept == Spec => []FailsClosedOnlyAfterFault
<1> DEFINE Counted == faults \in {0, 1}
<1>1. Init => Counted
  BY DEF Init
<1>2. RuntimeInv /\ Counted /\ [Next]_vars => Counted'
  BY CountsGrow
<1>3. Counted /\ BudgetInv => FailsClosedOnlyAfterFault
  BY DEF BudgetInv, Quiet, Deals, Attached, FailsClosedOnlyAfterFault
<1> QED
  <2> HIDE DEF Counted
  <2> QED
    BY <1>1, <1>2, <1>3, RuntimeInvariant, NegotiationInvariant, PTL DEF Spec
=============================================================================
