------------------------------ MODULE PairCell ------------------------------
(***************************************************************************)
(* The attempt lifecycle of PairExecutionCell (src/abt/pair_cell.py), run  *)
(* by the leader and by the follower Worker of one route, with the relay   *)
(* between them and the MT5 account of each.                               *)
(*                                                                         *)
(* A cell is single-threaded: handle_event() runs one handler and then     *)
(* _progress().  run[w] is that thread of control.  Its stages are the     *)
(* steps a crash or the broker can fall between: every durable commit and  *)
(* every MT5 call.  A stage is never skipped: the thread returns to "idle" *)
(* only through the whole of _progress().  The stages of one cell touch    *)
(* its own state, its own account and the tail of its peer's inbox, so     *)
(* they commute with the peer's and one cell at a time runs its thread.    *)
(*                                                                         *)
(* Prices, sizes and readiness facts are data: whether a quote, a fill or  *)
(* a readiness fact qualifies is a free choice.  Attempt IDs are numbers   *)
(* in the order the leader mints them; 0 is "no attempt".                  *)
(***************************************************************************)
EXTENDS Naturals, Sequences, FiniteSets

CONSTANTS
    MaxAttempts,     \* bound: attempts the leader may mint
    MaxInbox,        \* bound: envelopes under way to one Worker (more are lost)
    MaxUpsets,       \* bound: upsets, of every kind together
    UpsetKinds,      \* what may upset the plain course of an attempt: faults, timeouts and
                     \* closes
    Fills            \* what MT5 may do with an order besides executing or refusing it at
                     \* once: "working": let it rest first; "partial": fill it in part

ASSUME BoundsAssumption ==
    /\ MaxAttempts \in Nat \ {0}
    /\ MaxInbox \in Nat \ {0}
    /\ MaxUpsets \in Nat
    /\ UpsetKinds \subseteq {"close", "timeout", "write", "read", "market", "refusal", "evidence",
                        "relay", "crash"}
    /\ Fills \subseteq {"working", "partial"}

VARIABLES
    run,      \* the thread of control of each cell (volatile)
    mem,      \* what a cell keeps in memory only (volatile)
    leg,      \* LegState in memory (volatile)
    disk,     \* the cell_leg_state row (durable)
    db,       \* the other tables of the cell's database (durable)
    jr,       \* the Worker's effect journal (durable)
    brk,      \* the MT5 account of each Worker (external)
    inbox,    \* envelopes relayed to each Worker, in order (external)
    upsets    \* upsets so far

vars == <<run, mem, leg, disk, db, jr, brk, inbox, upsets>>

Workers == {"leader", "follower"}
Peer(w) == IF w = "leader" THEN "follower" ELSE "leader"
Attempts == 1 .. MaxAttempts
NoAttempt == 0

-----------------------------------------------------------------------------
(* Vocabulary                                                               *)

PairStates == {"IDLE", "ENTERING", "ENTRY_UNCERTAIN", "AWAITING_PAIR_CONFIRMATION",
               "PROTECTING", "ACTIVE", "CONVERGING_EMPTY", "EMPTY", "NEEDS_HUMAN"}
EntryStatuses == {"pending", "sent", "filled", "rejected", "expired_not_started",
                  "unknown_after_send"}
Protections == {"rough", "precise", "fallback"}
NonSendStatuses == {"rejected", "expired_not_started", "no_attempt_record"}
TerminalStatuses == NonSendStatuses \cup {"empty"}
PeerStatuses == {"unknown", "inconsistent", "protection_precise", "protection_rough_fallback"}
                \cup EntryStatuses \cup TerminalStatuses

\* Rows of cell_attempts: no row, not terminal, or terminal with its reason.
RowStates == {"none", "live", "rejected", "no_effect", "both_empty"}

\* Broker effects of one attempt, and the rows of the journal.
Effects == {"entry", "protection", "rollback", "cancel", "close"}
Containment == {"cancel", "close"}
EffectStates == {"none", "prepared", "send_started", "success", "failure", "observed"}
Open(j) == j \in {"prepared", "send_started"}

\* What the account holds of an attempt: a working order, a position with one
\* of the two protections, a position of another volume (partial fill), a
\* position whose accepted close has not executed yet, or nothing.
Holdings == {"none", "working", "rough", "precise", "partial", "closing"}
Positions == {"rough", "precise", "closing", "partial"}
Matching == {"rough", "precise", "closing"}
Exposure == Positions \cup {"working"}

\* Why a cell needs a human: no peer proof, exposure it cannot attribute, a
\* containment effect of unknown outcome, or one that failed with its target
\* still there.
Stops == {"none", "proof", "unattributed", "uncertain", "cancel_failed", "close_failed"}
FailedStop(effect) == IF effect = "cancel" THEN "cancel_failed" ELSE "close_failed"

Stages == {"idle", "down", "leg", "prepare", "relay", "mark", "call", "done", "read",
           "observe", "ticket", "advance", "stops", "settle", "gate", "create", "confirm",
           "protect", "converge", "rolled", "final", "tail", "wrap", "stopped"}

Message(k, a, s) == [kind |-> k, a |-> a, status |-> s]
Status(a, s) == Message("leg_status", a, s)
Kinds == {"attempt", "leg_status", "leg_status_request", "pair_entry_confirmed",
          "pair_entry_failed"}
Messages == [kind : Kinds, a : Attempts, status : PeerStatuses]

-----------------------------------------------------------------------------
(* Records                                                                  *)

NoEntry == [a \in Attempts |-> "none"]
Thread(at) ==
    [at |-> at, ret |-> "gate", then |-> "gate", job |-> "entry", out |-> "none",
     first |-> "positions", pos |-> NoEntry, ord |-> {}, fresh |-> FALSE]

NoLeg ==
    [a |-> NoAttempt, entry |-> "pending", prot |-> "rough", empty |-> FALSE,
     relayed |-> FALSE, ticket |-> NoAttempt, seen |-> "none",
     protRef |-> "none", closeRef |-> FALSE]

FreshMem ==
    [cur |-> NoAttempt, st |-> "IDLE", timer |-> FALSE, wait |-> "no", probed |-> FALSE,
     deferred |-> {}, session |-> TRUE]

NoStop == [why |-> "none", a |-> NoAttempt]

NoRows ==
    [row |-> NoEntry, last |-> NoAttempt, desired |-> "NONE", confirmed |-> FALSE,
     active |-> FALSE, human |-> NoStop, peer |-> "unknown"]

Cur(w) == mem[w].cur
At(w, stage) == run[w].at = stage
Quiet == \A w \in Workers : run[w].at \in {"idle", "down"}

-----------------------------------------------------------------------------
(* Messages, memory and tables                                              *)

\* The relay forwards in order or not at all: nothing is kept for a peer that
\* is down, and a full inbox stands for an envelope lost on the way.
Deliver(q, ms) ==
    LET all == q \o ms IN SubSeq(all, 1, IF Len(all) < MaxInbox THEN Len(all) ELSE MaxInbox)
Relay(w, rest, ms) ==
    inbox' = [inbox EXCEPT ![w] = rest,
                           ![Peer(w)] = IF run[Peer(w)].at = "down" THEN @ ELSE Deliver(@, ms)]
Send(w, ms) == Relay(w, inbox[w], ms)

SetDb(w, d) == db' = [db EXCEPT ![w] = d]
SetMem(w, m) == mem' = [mem EXCEPT ![w] = m]
SetLeg(w, l) == leg' = [leg EXCEPT ![w] = l]
SaveLeg(w, l) == SetLeg(w, l) /\ disk' = [disk EXCEPT ![w] = l]

\* _begin_close() of a cell with an attempt: idempotent, and it disarms the
\* confirmation timer.
CloseDb(d) == [d EXCEPT !.desired = "EMPTY"]
CloseMem(m) == [m EXCEPT !.timer = FALSE]
BeginClose(w) == SetDb(w, CloseDb(db[w])) /\ SetMem(w, CloseMem(mem[w]))

\* _set_needs_human()
Stop(d, why, a) == [d EXCEPT !.human = [why |-> why, a |-> a]]
Stopped(w) == db[w].human.why # "none"

Upset(kind) == kind \in UpsetKinds /\ upsets < MaxUpsets /\ upsets' = upsets + 1
UpsetIf(kind, p) == IF p THEN Upset(kind) ELSE UNCHANGED upsets

Journal(w, effect) == jr[w][Cur(w)][effect]
SetJournal(w, effect, state) == jr' = [jr EXCEPT ![w][Cur(w)][effect] = state]

\* _record_effect_observation() for several effects: only an open one changes.
RecordObserved(w, effects) ==
    jr' = [jr EXCEPT ![w][Cur(w)] =
             [e \in Effects |-> IF e \in effects /\ Open(@[e]) THEN "observed" ELSE @[e]]]

\* The journal's readiness gate in _local_ready().
JournalClear(w) == \A a \in Attempts, e \in Effects : ~Open(jr[w][a][e])

-----------------------------------------------------------------------------
(* When a stage has something to do                                         *)

\* _maybe_create_attempt(): every gate that is not a market or sizing fact.
CanCreate(w) ==
    /\ w = "leader"
    /\ Cur(w) = NoAttempt /\ mem[w].st \in {"IDLE", "EMPTY"} /\ mem[w].session
    /\ JournalClear(w)
    /\ \E a \in Attempts : db[w].row[a] = "none"

Entered(w) == Cur(w) # NoAttempt /\ db[w].desired # "EMPTY"

\* _own_evidence_inconsistency() and _peer_evidence_state()
OwnExact(l) == l.entry = "filled" /\ (l.prot \in {"rough", "fallback"} => l.seen = "rough")

\* Fault: a peer that only sent its entry counts as filled.
BothObserved_PeerSent(w) ==
    /\ w = "leader" /\ ~db[w].confirmed /\ Cur(w) # NoAttempt /\ db[w].desired = "ACTIVE"
    /\ OwnExact(leg[w]) /\ db[w].peer \in {"sent", "filled"}

BothObserved(w) ==
    /\ w = "leader" /\ ~db[w].confirmed /\ Cur(w) # NoAttempt /\ db[w].desired = "ACTIVE"
    /\ OwnExact(leg[w]) /\ db[w].peer = "filled"

NeedsProtection(w) ==
    Cur(w) # NoAttempt /\ db[w].confirmed /\ db[w].desired = "ACTIVE" /\ leg[w].prot = "rough"

Converging(w) == Cur(w) # NoAttempt /\ db[w].desired = "EMPTY"

\* Fault: a peer that said nothing is taken for one that sent nothing.
PeerSendPossible_UnknownIsSafe(w) == db[w].peer \notin TerminalStatuses \cup {"unknown"}

PeerSendPossible(w) ==
    /\ db[w].peer \notin TerminalStatuses
    /\ db[w].peer = "unknown" => w = "follower" \/ leg[w].relayed

\* Fault: the peer's proof is enough, the own leg is not looked at.
CanFinalize_PeerOnly(w) ==
    /\ Cur(w) # NoAttempt
    /\ db[w].peer = "empty" \/ ~PeerSendPossible(w)

CanFinalize(w) ==
    /\ Cur(w) # NoAttempt /\ leg[w].empty
    /\ db[w].peer = "empty" \/ ~PeerSendPossible(w)

Awaiting(w) == Cur(w) # NoAttempt /\ leg[w].empty

\* _maybe_declare_active(): both legs report the same verified protection.
ExpectedProtection(l) == IF l.prot = "precise" THEN "precise" ELSE "rough"
Verified(l) == l.prot \in {"precise", "fallback"}
PeerAgrees(w) ==
    \/ leg[w].prot = "precise" /\ db[w].peer = "protection_precise"
    \/ leg[w].prot = "fallback" /\ db[w].peer = "protection_rough_fallback"

\* Fault: a cell is ACTIVE as soon as its own protection is verified.
Protected_OwnOnly(w) ==
    /\ Cur(w) # NoAttempt /\ db[w].confirmed /\ db[w].desired = "ACTIVE"
    /\ Verified(leg[w]) /\ leg[w].seen = ExpectedProtection(leg[w])

Protected(w) ==
    /\ Cur(w) # NoAttempt /\ db[w].confirmed /\ db[w].desired = "ACTIVE"
    /\ PeerAgrees(w) /\ leg[w].seen = ExpectedProtection(leg[w])

\* _apply_broker_snapshot(): what the snapshot of thread t shows.
Matches(t) == {a \in Attempts : t.pos[a] \in Matching}
Unproved(w, t) ==
    \/ leg[w].entry = "unknown_after_send"
    \/ leg[w].entry = "sent" /\ Matches(t) # {}
Owned(w) == leg[w].ticket # NoAttempt /\ run[w].pos[leg[w].ticket] \in Positions

-----------------------------------------------------------------------------
(* Steps of the thread.  _progress() is the stages "gate", "create",        *)
(* "confirm", "protect", "converge", "tail" and "wrap", in this order; one  *)
(* with nothing to do is passed over.                                       *)

Due(w, stage) ==
    CASE stage = "gate" -> IF Stopped(w) THEN mem[w].st # "NEEDS_HUMAN" \/ CanFinalize(w) \/ Awaiting(w)
                                         ELSE Entered(w)
      [] stage = "create" -> CanCreate(w)
      [] stage = "confirm" -> BothObserved(w)
      [] stage = "protect" -> NeedsProtection(w)
      [] stage = "converge" -> Converging(w) /\ ~(leg[w].empty /\ mem[w].st = "CONVERGING_EMPTY")
      [] stage = "tail" -> CanFinalize(w)
      [] stage = "wrap" -> Awaiting(w) \/ (Protected(w) /\ ~(mem[w].st = "ACTIVE" /\ db[w].active))
      [] stage = "stopped" -> Awaiting(w)
      [] OTHER -> TRUE

FromWrap(w) == IF Due(w, "wrap") THEN "wrap" ELSE "idle"
FromTail(w) == IF Due(w, "tail") THEN "tail" ELSE FromWrap(w)
FromConverge(w) == IF Due(w, "converge") THEN "converge" ELSE FromTail(w)
FromProtect(w) == IF Due(w, "protect") THEN "protect" ELSE FromConverge(w)
FromConfirm(w) == IF Due(w, "confirm") THEN "confirm" ELSE FromProtect(w)
FromCreate(w) == IF Due(w, "create") THEN "create" ELSE FromConfirm(w)
FromGate(w) ==
    CASE mem[w].deferred # {} \/ Due(w, "gate") -> "gate"
      [] mem[w].deferred = {} /\ ~Due(w, "gate") -> IF Stopped(w) THEN "idle" ELSE FromCreate(w)
From(w, stage) ==
    CASE stage = "gate" -> FromGate(w)
      [] stage = "create" -> FromCreate(w)
      [] stage = "confirm" -> FromConfirm(w)
      [] stage = "protect" -> FromProtect(w)
      [] stage = "converge" -> FromConverge(w)
      [] stage = "tail" -> FromTail(w)
      [] stage = "wrap" -> FromWrap(w)
      [] stage = "stopped" -> IF Due(w, "stopped") THEN "stopped" ELSE "idle"
      [] OTHER -> stage

Goto(w, stage) == run' = [run EXCEPT ![w].at = stage]
Begin(w, thread) == run' = [run EXCEPT ![w] = thread]

\* The thread goes on at the next stage with something to do.  Only "settle"
\* and "stops" still look at the snapshot the event has read.
Resume(w, stage) ==
    \E s \in {stage} :     \* a name for the stage before this step
        IF s \in {"settle", "stops"} THEN Goto(w, s) ELSE Begin(w, Thread(From(w, s)'))

\* A broker snapshot is two MT5 calls.  _request_broker_read() asks for the
\* positions first, the adapter's periodic read for the orders.  The first call
\* has no effect of its own and is part of the step that asks for it.
SeenPositions(w) == [a \in Attempts |-> IF brk[w][a] \in Positions THEN brk[w][a] ELSE "none"]
SeenOrders(w) == {a \in Attempts : brk[w][a] = "working"}
Read(w, thread, ret) ==
    [thread EXCEPT !.at = "read", !.ret = ret, !.first = "positions", !.pos = SeenPositions(w),
                   !.fresh = FALSE]

\* _request_broker_read(), after which the thread goes on at ret.
ReadThen(w, ret) == Begin(w, Read(w, run[w], ret))

\* _run_broker_write() of an effect that has been prepared.
WriteNow(w, effect) == Begin(w, [run[w] EXCEPT !.at = "mark", !.job = effect])

\* _maybe_finalize_empty(), after which the thread goes on at then.
FinalThen(w, then) ==
    IF CanFinalize(w)' THEN Begin(w, [run[w] EXCEPT !.at = "final", !.then = then])
                       ELSE Resume(w, then)

\* The second part of _apply_broker_snapshot() and, for a cell that is to be
\* empty, _advance_convergence().
AfterTicket(w) ==
    IF db'[w].desired = "EMPTY" THEN Goto(w, "advance") ELSE Resume(w, run[w].ret)
AfterEntryRead(w) == IF leg'[w].ticket # NoAttempt THEN Goto(w, "ticket") ELSE AfterTicket(w)

-----------------------------------------------------------------------------
(* Creating and admitting an attempt                                        *)

AfterEntry(w) == IF w = "leader" THEN "confirm" ELSE "gate"

NextAttempt == CHOOSE a \in Attempts :
    db["leader"].row[a] = "none" /\ \A b \in 1 .. (a - 1) : db["leader"].row[b] # "none"

\* The attempt becomes the current one and its row is committed.
AdoptAttempt(w, a) ==
    /\ SetMem(w, [mem[w] EXCEPT !.cur = a])
    /\ SetDb(w, [db[w] EXCEPT !.row[a] = "live", !.last = a])

\* _maybe_create_attempt() of an attempt the market offers, or not.
CreateAttempt(w) ==
    /\ At(w, "create")
    /\ AdoptAttempt(w, NextAttempt)
    /\ Goto(w, "leg")
    /\ UNCHANGED <<leg, disk, jr, brk, inbox, upsets>>

NoCandidate(w) ==
    /\ At(w, "create")
    /\ UNCHANGED <<mem, leg, disk, db, jr, brk, inbox, upsets>>
    /\ Resume(w, "confirm")

\* Desired state and the leg row, which names the effect before it exists.
PersistLeg(w) ==
    /\ At(w, "leg")
    /\ SaveLeg(w, [NoLeg EXCEPT !.a = Cur(w)])
    /\ SetDb(w, [db[w] EXCEPT !.desired = "ACTIVE"])
    /\ SetMem(w, [mem[w] EXCEPT !.st = "ENTERING"])
    /\ Goto(w, "prepare")
    /\ UNCHANGED <<jr, brk, inbox, upsets>>

\* _prepare_entry_effect() and _start_timer().
PrepareEntry(w) ==
    /\ At(w, "prepare")
    /\ SetJournal(w, "entry", "prepared")
    /\ SetMem(w, [mem[w] EXCEPT !.timer = TRUE])
    /\ IF w = "leader" THEN Goto(w, "relay") ELSE WriteNow(w, "entry")
    /\ UNCHANGED <<leg, disk, db, brk, inbox, upsets>>

\* Fault: the attempt leaves, and attempt_relayed is only in memory.
RelayAttempt_NotDurable(w) ==
    /\ At(w, "relay")
    /\ SetLeg(w, [leg[w] EXCEPT !.relayed = TRUE])
    /\ Send(w, <<Message("attempt", Cur(w), "unknown")>>)
    /\ WriteNow(w, "entry")
    /\ UNCHANGED <<mem, disk, db, jr, brk, upsets>>

\* attempt_relayed is durable before the attempt can leave.
RelayAttempt(w) ==
    /\ At(w, "relay")
    /\ SaveLeg(w, [leg[w] EXCEPT !.relayed = TRUE])
    /\ Send(w, <<Message("attempt", Cur(w), "unknown")>>)
    /\ WriteNow(w, "entry")
    /\ UNCHANGED <<mem, db, jr, brk, upsets>>

-----------------------------------------------------------------------------
(* A broker write: _run_broker_write()                                      *)

\* The scheduler refuses it before MT5 is called (_not_started): a frozen
\* scheduler refuses everything but emergencies, a full one everything.
RefuseWrite(w) ==
    /\ At(w, "mark") /\ Upset("refusal")
    /\ RecordObserved(w, {run[w].job})
    /\ run' = [run EXCEPT ![w] = [@ EXCEPT !.at = "done", !.out = "refused"]]
    /\ UNCHANGED <<mem, leg, disk, db, brk, inbox>>

MarkSendStarted(w) ==
    /\ At(w, "mark")
    /\ SetJournal(w, run[w].job, "send_started")
    /\ Goto(w, "call")
    /\ UNCHANGED <<mem, leg, disk, db, brk, inbox, upsets>>

\* What mt5.order_send() may do to the holding h of the attempt it is about,
\* and what it returns: a success or a failure receipt, or nothing usable.
EntryResults ==
    {<<"rough", "success">>, <<"none", "failure">>, <<"none", "raised">>, <<"rough", "raised">>}
    \cup (IF "working" \in Fills THEN {<<"working", "success">>, <<"working", "raised">>} ELSE {})
    \cup (IF "partial" \in Fills THEN {<<"partial", "failure">>, <<"partial", "raised">>} ELSE {})
ModifyResults(h, to) ==
    {<<h, "failure">>, <<h, "raised">>}
    \cup (IF h \in {"rough", "precise"} THEN {<<to, "success">>, <<to, "raised">>} ELSE {})
CloseResults(h) ==
    {<<h, "failure">>, <<h, "raised">>}
    \cup (IF h \in Positions THEN {<<"none", "success">>, <<"none", "raised">>} ELSE {})
    \cup (IF h \in Positions /\ "working" \in Fills THEN {<<"closing", "success">>} ELSE {})
CancelResults(h) ==
    {<<h, "failure">>, <<h, "raised">>}
    \cup (IF h = "working" THEN {<<"none", "success">>, <<"none", "raised">>} ELSE {})

Target(w) ==
    CASE run[w].job = "cancel" -> CHOOSE a \in run[w].ord : TRUE
      [] run[w].job = "entry" -> Cur(w)
      [] OTHER -> leg[w].ticket

Results(job, h) ==
    CASE job = "entry" -> EntryResults
      [] job = "protection" -> ModifyResults(h, "precise")
      [] job = "rollback" -> ModifyResults(h, "rough")
      [] job = "close" -> CloseResults(h)
      [] job = "cancel" -> CancelResults(h)

TargetThere(job, h) ==
    CASE job = "entry" -> TRUE
      [] job = "cancel" -> h = "working"
      [] OTHER -> h \notin {"none", "closing"}

\* order_send() and record_receipt().  A failure is an upset, unless the target
\* is no longer there.
OrderSend(w) ==
    LET a == Target(w) IN
    /\ At(w, "call")
    /\ \E r \in Results(run[w].job, brk[w][a]) :
        /\ brk' = [brk EXCEPT ![w][a] = r[1]]
        /\ run' = [run EXCEPT ![w] = [@ EXCEPT !.at = "done", !.out = r[2]]]
        /\ IF r[2] = "raised" THEN UNCHANGED jr ELSE SetJournal(w, run[w].job, r[2])
        /\ UpsetIf("write", r[2] = "raised" \/ (r[2] = "failure" /\ TargetThere(run[w].job, brk[w][a])))
    /\ UNCHANGED <<mem, leg, disk, db, inbox>>

Done(w, job, outs) == At(w, "done") /\ run[w].job = job /\ run[w].out \in outs

-----------------------------------------------------------------------------
(* _send_entry(): what the outcome of the entry write leads to              *)

EntryAccepted(w) ==
    /\ Done(w, "entry", {"success"})
    /\ SaveLeg(w, [leg[w] EXCEPT !.entry = "sent"])
    /\ Send(w, <<Status(Cur(w), "sent")>>)
    /\ ReadThen(w, AfterEntry(w))
    /\ UNCHANGED <<mem, db, jr, brk, upsets>>

EntryRejected(w) ==
    /\ Done(w, "entry", {"failure", "refused"})
    /\ SaveLeg(w, [leg[w] EXCEPT !.entry = "rejected"])
    /\ Send(w, <<Status(Cur(w), "rejected"), Message("pair_entry_failed", Cur(w), "unknown")>>)
    /\ BeginClose(w)
    /\ UNCHANGED <<jr, brk, upsets>>
    /\ Resume(w, AfterEntry(w))

EntryUnknown(w) ==
    /\ Done(w, "entry", {"raised"})
    /\ SaveLeg(w, [leg[w] EXCEPT !.entry = "unknown_after_send"])
    /\ SetMem(w, [mem[w] EXCEPT !.st = "ENTRY_UNCERTAIN"])
    /\ ReadThen(w, AfterEntry(w))
    /\ UNCHANGED <<db, jr, brk, inbox, upsets>>

-----------------------------------------------------------------------------
(* The second call of a broker read, and what the snapshot leads to          *)

\* With no live attempt the snapshot is only cached.
ReadSecond(w) ==
    LET t == IF run[w].first = "positions"
             THEN [run[w] EXCEPT !.ord = SeenOrders(w), !.fresh = TRUE]
             ELSE [run[w] EXCEPT !.pos = SeenPositions(w), !.fresh = TRUE]
        stage == CASE Cur(w) = NoAttempt -> From(w, run[w].ret)
                   [] Cur(w) # NoAttempt /\ Unproved(w, t) -> "observe"
                   [] OTHER -> IF leg[w].ticket # NoAttempt THEN "ticket"
                               ELSE IF db[w].desired = "EMPTY" THEN "advance"
                               ELSE From(w, run[w].ret)
    IN
    /\ At(w, "read")
    /\ Begin(w, IF stage = "idle" THEN Thread("idle") ELSE [t EXCEPT !.at = stage])
    /\ UNCHANGED <<mem, leg, disk, db, jr, brk, inbox, upsets>>

\* An MT5 read that raises or returns None establishes nothing.
ReadFails(w) ==
    /\ At(w, "read") /\ run[w].first = "positions" /\ Upset("read")
    /\ UNCHANGED <<mem, leg, disk, db, jr, brk, inbox>>
    /\ Resume(w, run[w].ret)

-----------------------------------------------------------------------------
(* _apply_broker_snapshot(), first part: the entry                          *)

EntryAmbiguous(w) ==
    /\ At(w, "observe") /\ Cardinality(Matches(run[w])) > 1
    /\ BeginClose(w)
    /\ UNCHANGED <<leg, disk, jr, brk, inbox, upsets>>
    /\ AfterEntryRead(w)

Filled(w) ==
    LET t == CHOOSE a \in Matches(run[w]) : TRUE IN
    /\ SaveLeg(w, [leg[w] EXCEPT !.entry = "filled", !.ticket = t, !.seen = run[w].pos[t]])
    /\ RecordObserved(w, {"entry"})

\* The exact position is observed.
EntryFilled(w) ==
    /\ At(w, "observe") /\ Cardinality(Matches(run[w])) = 1
    /\ Filled(w)
    /\ SetMem(w, [mem[w] EXCEPT !.st = "AWAITING_PAIR_CONFIRMATION"])
    /\ Send(w, <<Status(Cur(w), "filled")>>)
    /\ UNCHANGED <<db, brk, upsets>>
    /\ AfterEntryRead(w)

\* It is observed, but its evidence does not match the immutable attempt.
EntryInconsistent(w) ==
    /\ At(w, "observe") /\ Cardinality(Matches(run[w])) = 1 /\ Upset("evidence")
    /\ Filled(w)
    /\ SetMem(w, CloseMem([mem[w] EXCEPT !.st = "AWAITING_PAIR_CONFIRMATION"]))
    /\ SetDb(w, CloseDb(db[w]))
    /\ Send(w, <<Status(Cur(w), "inconsistent"), Message("pair_entry_failed", Cur(w), "unknown")>>)
    /\ UNCHANGED brk
    /\ AfterEntryRead(w)

\* An uncertain entry with no matching position is resolved as rejected.
EntryAbsent(w) ==
    /\ At(w, "observe") /\ Matches(run[w]) = {}
    /\ SaveLeg(w, [leg[w] EXCEPT !.entry = "rejected"])
    /\ RecordObserved(w, {"entry"})
    /\ Send(w, <<Status(Cur(w), "rejected"), Message("pair_entry_failed", Cur(w), "unknown")>>)
    /\ BeginClose(w)
    /\ UNCHANGED <<brk, upsets>>
    /\ AfterEntryRead(w)

-----------------------------------------------------------------------------
(* _apply_broker_snapshot(), second part: the owned ticket                  *)

\* The effects the leg names are settled; a filled leg that vanished closes.
TicketGone(w) ==
    LET vanished == leg[w].entry = "filled" /\ ~leg[w].empty
        d == IF vanished THEN CloseDb(db[w]) ELSE db[w]
    IN
    /\ At(w, "ticket") /\ ~Owned(w)
    /\ RecordObserved(w, {leg[w].protRef} \cup (IF leg[w].closeRef THEN {"close"} ELSE {}))
    /\ SetDb(w, d)
    /\ SetMem(w, IF vanished THEN CloseMem(mem[w]) ELSE mem[w])
    /\ UNCHANGED <<leg, disk, brk, inbox, upsets>>
    /\ AfterTicket(w)

\* A verified protection the broker contradicts is an integrity divergence.
TicketHeld(w) ==
    LET held == run[w].pos[leg[w].ticket]
        diverged == Verified(leg[w]) /\ held # ExpectedProtection(leg[w])
        d == IF diverged THEN CloseDb(db[w]) ELSE db[w]
    IN
    /\ At(w, "ticket") /\ Owned(w)
    /\ RecordObserved(w, {leg[w].protRef})
    /\ SetDb(w, d)
    /\ SetMem(w, IF diverged THEN CloseMem(mem[w]) ELSE mem[w])
    /\ IF Verified(leg[w]) /\ ~diverged
       THEN SaveLeg(w, [leg[w] EXCEPT !.seen = held])
       ELSE UNCHANGED <<leg, disk>>
    /\ UNCHANGED <<brk, inbox, upsets>>
    /\ AfterTicket(w)

-----------------------------------------------------------------------------
(* _advance_convergence() and _journaled_emergency_write()                   *)

\* Which containment write the snapshot asks for, if any.
Wanted(w) ==
    CASE run[w].ord # {} -> "cancel"
      [] run[w].ord = {} /\ Owned(w) /\ ~Stopped(w) -> "close"
      [] OTHER -> "none"

\* Fault: a containment effect whose send was interrupted is sent again.
StartContainment_Resends(w) ==
    LET effect == Wanted(w) IN
    /\ At(w, "advance") /\ effect # "none"
    /\ Journal(w, effect) \in {"none", "prepared", "send_started"}
    /\ SetJournal(w, effect, "prepared")
    /\ SetLeg(w, IF effect = "close" THEN [leg[w] EXCEPT !.closeRef = TRUE] ELSE leg[w])
    /\ WriteNow(w, effect)
    /\ UNCHANGED <<mem, disk, db, brk, inbox, upsets>>

\* A containment effect that was never sent is written now; close_effect_id is
\* set in memory only.
StartContainment(w) ==
    LET effect == Wanted(w) IN
    /\ At(w, "advance") /\ effect # "none" /\ Journal(w, effect) \in {"none", "prepared"}
    /\ SetJournal(w, effect, "prepared")
    /\ SetLeg(w, IF effect = "close" THEN [leg[w] EXCEPT !.closeRef = TRUE] ELSE leg[w])
    /\ WriteNow(w, effect)
    /\ UNCHANGED <<mem, disk, db, brk, inbox, upsets>>

\* A success receipt exists: wait for the broker.
ContainmentAccepted(w) ==
    LET effect == Wanted(w) IN
    /\ At(w, "advance") /\ effect # "none" /\ Journal(w, effect) = "success"
    /\ SetMem(w, [mem[w] EXCEPT !.deferred = @ \ {effect}])
    /\ SetLeg(w, IF effect = "close" THEN [leg[w] EXCEPT !.closeRef = TRUE] ELSE leg[w])
    /\ UNCHANGED <<disk, db, jr, brk, inbox, upsets>>
    /\ Resume(w, run[w].ret)

\* A failure receipt or an observation may be stale: read again once, then
\* leave the verdict to _maybe_resolve_deferred_containment().
ContainmentDeferred(w) ==
    LET effect == Wanted(w) IN
    /\ At(w, "advance") /\ effect # "none" /\ Journal(w, effect) \in {"failure", "observed"}
    /\ SetMem(w, [mem[w] EXCEPT !.deferred = @ \cup {effect}])
    /\ SetLeg(w, IF effect = "close" THEN [leg[w] EXCEPT !.closeRef = TRUE] ELSE leg[w])
    /\ UNCHANGED <<disk, db, jr, brk, inbox, upsets>>
    /\ IF effect \in mem[w].deferred THEN Resume(w, run[w].ret) ELSE ReadThen(w, run[w].ret)

\* It may have crossed the boundary: never resent.
ContainmentUncertain(w) ==
    LET effect == Wanted(w) IN
    /\ At(w, "advance") /\ effect # "none" /\ Journal(w, effect) = "send_started"
    /\ SetDb(w, Stop(db[w], "uncertain", Cur(w)))
    /\ SetLeg(w, IF effect = "close" THEN [leg[w] EXCEPT !.closeRef = TRUE] ELSE leg[w])
    /\ UNCHANGED <<mem, disk, jr, brk, inbox, upsets>>
    /\ Resume(w, run[w].ret)

\* A stopped cell leaves its own position alone.
HeldWhileStopped(w) ==
    /\ At(w, "advance") /\ run[w].ord = {} /\ Owned(w) /\ Stopped(w)
    /\ UNCHANGED <<mem, leg, disk, db, jr, brk, inbox, upsets>>
    /\ Resume(w, run[w].ret)

\* Exposure that is not the owned ticket is never closed on a guess.
Unattributed(w) ==
    /\ At(w, "advance") /\ run[w].ord = {} /\ ~Owned(w)
    /\ \E a \in Attempts : run[w].pos[a] \in Positions
    /\ SetDb(w, Stop(db[w], "unattributed", Cur(w)))
    /\ UNCHANGED <<mem, leg, disk, jr, brk, inbox, upsets>>
    /\ Resume(w, run[w].ret)

\* Fault: emptiness is judged by the orders alone.
VerifiedEmpty_OrdersOnly(w) ==
    /\ At(w, "advance") /\ run[w].ord = {}
    /\ SaveLeg(w, [leg[w] EXCEPT !.empty = TRUE])
    /\ SetMem(w, [mem[w] EXCEPT !.st = "CONVERGING_EMPTY"])
    /\ Send(w, <<Status(Cur(w), "empty")>>)
    /\ UNCHANGED <<db, jr, brk, upsets>>
    /\ FinalThen(w, run[w].ret)

VerifiedEmpty(w) ==
    /\ At(w, "advance") /\ run[w].ord = {}
    /\ \A a \in Attempts : run[w].pos[a] \notin Positions
    /\ ~leg[w].empty
    /\ SaveLeg(w, [leg[w] EXCEPT !.empty = TRUE])
    /\ SetMem(w, [mem[w] EXCEPT !.st = "CONVERGING_EMPTY"])
    /\ Send(w, <<Status(Cur(w), "empty")>>)
    /\ UNCHANGED <<db, jr, brk, upsets>>
    /\ FinalThen(w, run[w].ret)

StillEmpty(w) ==
    /\ At(w, "advance") /\ run[w].ord = {}
    /\ \A a \in Attempts : run[w].pos[a] \notin Positions
    /\ leg[w].empty
    /\ UNCHANGED <<mem, leg, disk, db, jr, brk, inbox, upsets>>
    /\ Resume(w, run[w].ret)

\* The outcome of a containment write: a success is read back, a failure
\* receipt waits for the next snapshot, anything else stops the cell.
ContainmentDone(w) ==
    /\ At(w, "done") /\ run[w].job \in Containment
    /\ SetDb(w, IF run[w].out \in {"success", "failure"} THEN db[w]
                ELSE Stop(db[w], "uncertain", Cur(w)))
    /\ UNCHANGED <<mem, leg, disk, jr, brk, inbox, upsets>>
    /\ IF run[w].out = "success" THEN ReadThen(w, run[w].ret) ELSE Resume(w, run[w].ret)

-----------------------------------------------------------------------------
(* _progress(): deferred containment, the stop gate, exits and timers        *)

\* Whether the latest snapshot shows the target of a containment effect; a
\* snapshot cached from an earlier event may say either.
MayBeAbsent(w, effect) ==
    run[w].fresh => IF effect = "cancel" THEN run[w].ord = {} ELSE ~Owned(w)
MayBePresent(w, effect) ==
    run[w].fresh => IF effect = "cancel" THEN run[w].ord # {} ELSE Owned(w)

\* The settle window of a deferred effect has elapsed: read once more.
SettleDeferred(w) ==
    /\ At(w, "gate")
    /\ \E effect \in mem[w].deferred :
          Begin(w, [Read(w, run[w], "settle") EXCEPT !.job = effect])
    /\ UNCHANGED <<mem, leg, disk, db, jr, brk, inbox, upsets>>

SettledAbsent(w) ==
    /\ At(w, "settle") /\ MayBeAbsent(w, run[w].job)
    /\ SetMem(w, [mem[w] EXCEPT !.deferred = @ \ {run[w].job}])
    /\ UNCHANGED <<leg, disk, db, jr, brk, inbox, upsets>>
    /\ Resume(w, "gate")

SettledPresent(w) ==
    /\ At(w, "settle") /\ MayBePresent(w, run[w].job) /\ Cur(w) # NoAttempt
    /\ SetMem(w, [mem[w] EXCEPT !.deferred = @ \ {run[w].job}])
    /\ SetDb(w, Stop(db[w], FailedStop(run[w].job), Cur(w)))
    /\ UNCHANGED <<leg, disk, jr, brk, inbox, upsets>>
    /\ Resume(w, "gate")

\* A stopped cell only finalizes and awaits proof.
GateStopped(w) ==
    /\ At(w, "gate") /\ Stopped(w)
    /\ SetMem(w, [mem[w] EXCEPT !.st = "NEEDS_HUMAN"])
    /\ UNCHANGED <<leg, disk, db, jr, brk, inbox, upsets>>
    /\ FinalThen(w, "stopped")

\* _enforce_exit_policy(): a blackout or the maximum holding time.
ExitPolicy(w) ==
    /\ At(w, "gate") /\ ~Stopped(w) /\ Entered(w) /\ Upset("close")
    /\ BeginClose(w)
    /\ UNCHANGED <<leg, disk, jr, brk, inbox>>
    /\ Resume(w, "create")

\* _enforce_timers(): the confirmation timer of this role has expired.
ConfirmationTimeout(w) ==
    /\ At(w, "gate") /\ ~Stopped(w) /\ Entered(w) /\ mem[w].timer /\ ~db[w].confirmed /\ Upset("timeout")
    /\ Send(w, IF w = "leader" THEN <<Message("pair_entry_failed", Cur(w), "unknown")>> ELSE <<>>)
    /\ BeginClose(w)
    /\ UNCHANGED <<leg, disk, jr, brk>>
    /\ Resume(w, "create")

GatePass(w) ==
    /\ At(w, "gate") /\ ~Stopped(w)
    /\ UNCHANGED <<mem, leg, disk, db, jr, brk, inbox, upsets>>
    /\ Resume(w, "create")

-----------------------------------------------------------------------------
(* _progress(): pair confirmation and protection                            *)

EmitConfirmation(w) ==
    /\ At(w, "confirm")
    /\ SetDb(w, [db[w] EXCEPT !.confirmed = TRUE])
    /\ SetMem(w, [mem[w] EXCEPT !.timer = FALSE])
    /\ Send(w, <<Message("pair_entry_confirmed", Cur(w), "unknown")>>)
    /\ UNCHANGED <<leg, disk, jr, brk, upsets>>
    /\ Resume(w, "protect")

\* The peer's own evidence does not match the attempt.
PeerInconsistent(w) ==
    /\ At(w, "confirm") /\ Upset("evidence")
    /\ Send(w, <<Message("pair_entry_failed", Cur(w), "unknown")>>)
    /\ BeginClose(w)
    /\ UNCHANGED <<leg, disk, jr, brk>>
    /\ Resume(w, "protect")

\* The mirrored box is written once; protection_effect_id is set in memory.
StartProtection(w) ==
    /\ At(w, "protect")
    /\ SetJournal(w, "protection", "prepared")
    /\ SetLeg(w, [leg[w] EXCEPT !.protRef = "protection"])
    /\ WriteNow(w, "protection")
    /\ UNCHANGED <<mem, disk, db, brk, inbox, upsets>>

\* _freeze_or_fallback_protection(): the leg is never precise here, so no leg
\* ever becomes frozen.
Fallback(w) ==
    /\ SaveLeg(w, [leg[w] EXCEPT !.prot = "fallback"])
    /\ Send(w, <<Status(Cur(w), "protection_rough_fallback")>>)
    /\ Resume(w, "converge")

\* No executable box exists for these fills.
NoMirroredBox(w) ==
    /\ At(w, "protect") /\ Upset("evidence")
    /\ UNCHANGED <<mem, db, jr, brk>>
    /\ Fallback(w)

ProtectionApplied(w) ==
    /\ Done(w, "protection", {"success"})
    /\ SaveLeg(w, [leg[w] EXCEPT !.prot = "precise"])
    /\ SetMem(w, [mem[w] EXCEPT !.st = "PROTECTING"])
    /\ Send(w, <<Status(Cur(w), "protection_precise")>>)
    /\ ReadThen(w, "converge")
    /\ UNCHANGED <<db, jr, brk, upsets>>

ProtectionRefused(w) ==
    /\ Done(w, "protection", {"failure", "raised", "refused"})
    /\ UNCHANGED <<mem, db, jr, brk, upsets>>
    /\ Fallback(w)

\* _restore_rough_protection(): the outcome of the rollback write; its report
\* follows the read.
RollbackApplied(w) ==
    /\ Done(w, "rollback", {"success"})
    /\ SaveLeg(w, [leg[w] EXCEPT !.prot = "fallback", !.protRef = "rollback"])
    /\ ReadThen(w, "rolled")
    /\ UNCHANGED <<mem, db, jr, brk, inbox, upsets>>

RollbackReported(w) ==
    /\ At(w, "rolled")
    /\ Send(w, IF Cur(w) = NoAttempt THEN <<>>
               ELSE <<Status(Cur(w), "protection_rough_fallback")>>)
    /\ UNCHANGED <<mem, leg, disk, db, jr, brk, upsets>>
    /\ Resume(w, "gate")

RollbackFailed(w) ==
    /\ Done(w, "rollback", {"failure", "raised", "refused"})
    /\ BeginClose(w)
    /\ UNCHANGED <<leg, disk, jr, brk, inbox, upsets>>
    /\ Resume(w, "gate")

-----------------------------------------------------------------------------
(* _progress(): convergence, finalization and the wait for peer proof        *)

\* _maybe_progress_convergence()
Converge(w) ==
    /\ At(w, "converge")
    /\ SetMem(w, [mem[w] EXCEPT !.st = "CONVERGING_EMPTY"])
    /\ UNCHANGED <<leg, disk, db, jr, brk, inbox, upsets>>
    /\ IF leg[w].empty THEN Resume(w, "tail") ELSE ReadThen(w, "tail")

\* _terminate_attempt() and _reset_attempt(): the row becomes terminal and the
\* cell forgets the attempt.
ResetMem(m) ==
    [m EXCEPT !.cur = NoAttempt, !.st = "EMPTY", !.timer = FALSE, !.wait = "no",
              !.probed = FALSE, !.deferred = {}]
ResetDb(d, a, reason) ==
    [d EXCEPT !.row[a] = reason, !.desired = "NONE", !.confirmed = FALSE, !.active = FALSE,
              !.peer = "unknown"]

FinalizeEmpty(w) ==
    LET a == Cur(w)
        d == ResetDb(db[w], a, "both_empty")
    IN
    /\ run[w].at \in {"final", "tail"}
    /\ SetMem(w, ResetMem(mem[w]))
    /\ SetDb(w, IF d.human = [why |-> "proof", a |-> a] THEN [d EXCEPT !.human = NoStop] ELSE d)
    /\ SaveLeg(w, NoLeg)
    /\ UNCHANGED <<jr, brk, inbox, upsets>>
    /\ Resume(w, IF At(w, "tail") THEN "wrap" ELSE run[w].then)

Ending(w) == run[w].at \in {"wrap", "stopped"}

DeclareActive(w) ==
    /\ At(w, "wrap") /\ ~Awaiting(w) /\ Protected(w)
    /\ SetMem(w, [mem[w] EXCEPT !.st = "ACTIVE"])
    /\ SetDb(w, [db[w] EXCEPT !.active = TRUE])
    /\ Begin(w, Thread("idle"))
    /\ UNCHANGED <<leg, disk, jr, brk, inbox, upsets>>

\* _await_peer_terminal_proof(): the escalation window opens, or nothing is
\* due yet.
AwaitProof(w) ==
    /\ Ending(w) /\ Awaiting(w)
    /\ SetMem(w, [mem[w] EXCEPT !.wait = IF @ = "no" THEN "yes" ELSE @])
    /\ Begin(w, Thread("idle"))
    /\ UNCHANGED <<leg, disk, db, jr, brk, inbox, upsets>>

ProofProbe(a) == <<Status(a, "empty"), Message("leg_status_request", a, "unknown")>>

\* A probe is due, and the session is up.  Bound: it waits until the envelopes
\* before it are taken or leave room for it.
ProbePeer(w) ==
    /\ Ending(w) /\ Awaiting(w) /\ mem[w].wait = "yes" /\ mem[w].session
    /\ Len(inbox[Peer(w)]) + 2 <= MaxInbox
    /\ \A i \in DOMAIN inbox[Peer(w)] : inbox[Peer(w)][i].kind # "leg_status_request"
    /\ SetMem(w, [mem[w] EXCEPT !.probed = TRUE])
    /\ Send(w, ProofProbe(Cur(w)))
    /\ Begin(w, Thread("idle"))
    /\ UNCHANGED <<leg, disk, db, jr, brk, upsets>>

\* The window is over without a word of the peer: stop, unless another stop
\* is already latched.
EscalateSilence(w) ==
    /\ Ending(w) /\ Awaiting(w) /\ mem[w].wait = "yes" /\ Upset("timeout")
    /\ db[w].human.why \in {"none", "proof"}
    /\ SetMem(w, [mem[w] EXCEPT !.wait = "over"])
    /\ SetDb(w, Stop(db[w], "proof", Cur(w)))
    /\ Begin(w, Thread("idle"))
    /\ UNCHANGED <<leg, disk, jr, brk, inbox>>

-----------------------------------------------------------------------------
(* Latched stops that later evidence resolves                               *)

\* _recover_terminal_proof_stop() and _recover_terminalized_containment_stop():
\* the attempt of the stop is terminal with both legs empty.
Resolved(d) ==
    d.human.why \in {"proof", "uncertain", "cancel_failed", "close_failed"}
    /\ d.row[d.human.a] = "both_empty"
Unlatched(d) == [d EXCEPT !.human = NoStop]

StopResolved(w) ==
    /\ At(w, "stops") /\ Resolved(db[w])
    /\ SetDb(w, Unlatched(db[w]))
    /\ SetMem(w, [mem[w] EXCEPT !.st = "EMPTY"])
    /\ UNCHANGED <<leg, disk, jr, brk, inbox, upsets>>
    /\ Resume(w, "gate")

\* _recover_latched_containment_replay_stop(): the target of the failed effect
\* is gone and the readiness facts, which may be older, show a flat account.
StopOutdated(w) ==
    /\ At(w, "stops") /\ ~Resolved(db[w])
    /\ \E effect \in Containment :
          db[w].human.why = FailedStop(effect) /\ MayBeAbsent(w, effect)
    /\ SetDb(w, Unlatched(db[w]))
    /\ UNCHANGED <<mem, leg, disk, jr, brk, inbox, upsets>>
    /\ Resume(w, "gate")

StopKept(w) ==
    /\ At(w, "stops") /\ ~Resolved(db[w])
    /\ UNCHANGED <<mem, leg, disk, db, jr, brk, inbox, upsets>>
    /\ Resume(w, "gate")

-----------------------------------------------------------------------------
(* handle_event(): local events                                             *)

Ready(w) == Quiet /\ At(w, "idle")
\* A clock tick, and every event that only changes data.
Tick(w) ==
    /\ Ready(w)
    /\ UNCHANGED <<mem, leg, disk, db, jr, brk, inbox, upsets>>
    /\ Resume(w, "gate")

\* BrokerSnapshotEvent: the adapter's periodic snapshot.  One that has nothing
\* to tell (no attempt and no stop, or an empty leg and a flat account) changes
\* nothing and is left out.
SnapshotEvent(w) ==
    /\ Ready(w)
    /\ Stopped(w) \/ (Cur(w) # NoAttempt /\ (leg[w].empty => \E a \in Attempts : brk[w][a] \in Exposure))
    /\ Begin(w, [Thread("read") EXCEPT !.first = "orders", !.ord = SeenOrders(w), !.ret = "stops"])
    /\ UNCHANGED <<mem, leg, disk, db, jr, brk, inbox, upsets>>

\* Any other authenticated envelope of a live peer restarts the proof window;
\* a window that is open stays open.
HearPeer(w) ==
    /\ Ready(w) /\ run[Peer(w)].at # "down" /\ mem[w].wait = "over"
    /\ SetMem(w, [mem[w] EXCEPT !.wait = "no"])
    /\ UNCHANGED <<leg, disk, db, jr, brk, inbox, upsets>>
    /\ Resume(w, "gate")

SessionLost(w) ==
    /\ Ready(w) /\ mem[w].session /\ Upset("relay")
    /\ SetMem(w, [mem[w] EXCEPT !.session = FALSE])
    /\ UNCHANGED <<leg, disk, db, jr, brk, inbox>>
    /\ Resume(w, "gate")

\* The peer session returns: _probe_peer_terminal_proof_now() and the stops.
SessionUp(w) ==
    LET probes == Awaiting(w) /\ PeerSendPossible(w) IN
    /\ Ready(w) /\ ~mem[w].session
    /\ SetMem(w, [mem[w] EXCEPT !.session = TRUE, !.wait = IF probes THEN "no" ELSE @,
                                 !.probed = @ \/ probes])
    /\ Send(w, IF probes THEN ProofProbe(Cur(w)) ELSE <<>>)
    /\ Begin(w, Thread("stops"))
    /\ UNCHANGED <<leg, disk, db, jr, brk, upsets>>

\* request_close(): operator, shutdown, risk.
RequestClose(w) ==
    /\ Ready(w) /\ Entered(w) /\ Upset("close")
    /\ BeginClose(w)
    /\ ReadThen(w, "gate")
    /\ UNCHANGED <<leg, disk, jr, brk, inbox>>

-----------------------------------------------------------------------------
(* handle_event(): relayed envelopes                                        *)

\* Any envelope restarts the proof window.
Heard(w) == [mem[w] EXCEPT !.wait = "no"]
Receiving(w, kind) == Ready(w) /\ inbox[w] # <<>> /\ Head(inbox[w]).kind = kind
Reply(w, ms) == Relay(w, Tail(inbox[w]), ms)
Ignore(w) ==
    /\ Reply(w, <<>>)
    /\ SetMem(w, Heard(w))
    /\ UNCHANGED <<leg, disk, db, jr, brk, upsets>>
    /\ Resume(w, "gate")

\* _report_current_leg_status()
CurrentStatus(l) ==
    CASE l.empty -> "empty"
      [] ~l.empty /\ l.prot = "precise" -> "protection_precise"
      [] OTHER -> l.entry

\* _answer_leg_status(): from the current leg or the durable row only.
\* Fault: the terminal reason of the row is sent as if it were a status.
TerminalStatus_Raw(row) == row

TerminalStatus(row) == IF row = "rejected" THEN "rejected" ELSE "empty"

\* Fault: only the current attempt is answered, a finished one is not.
Answer_CurrentOnly(w, a, noRecord) ==
    IF Cur(w) = a THEN <<Status(a, CurrentStatus(leg[w]))>> ELSE <<>>

Answer(w, a, noRecord) ==
    CASE Cur(w) = a -> <<Status(a, CurrentStatus(leg[w]))>>
      [] Cur(w) # a /\ db[w].row[a] = "none" ->
            IF noRecord THEN <<Status(a, "no_attempt_record")>> ELSE <<>>
      [] Cur(w) # a /\ db[w].row[a] = "live" -> <<>>
      [] OTHER -> <<Status(a, TerminalStatus(db[w].row[a]))>>

AnswerAndGo(w, a, noRecord) ==
    /\ Reply(w, Answer(w, a, noRecord))
    /\ SetMem(w, Heard(w))
    /\ UNCHANGED <<leg, disk, db, jr, brk, upsets>>
    /\ Resume(w, "gate")

\* _handle_attempt(): a known attempt is answered from its durable outcome.
ReplayAttempt(w) ==
    /\ Receiving(w, "attempt") /\ db[w].row[Head(inbox[w]).a] # "none"
    /\ AnswerAndGo(w, Head(inbox[w]).a, FALSE)

\* _attempt_admission_reason(): the gates that are not sizing or policy facts.
Admissible(w) ==
    /\ Cur(w) = NoAttempt \/ mem[w].st \in {"EMPTY", "IDLE"}
    /\ ~Stopped(w) /\ mem[w].session /\ JournalClear(w)

AdmitAttempt(w) ==
    LET a == Head(inbox[w]).a IN
    /\ Receiving(w, "attempt") /\ db[w].row[a] = "none" /\ Admissible(w)
    /\ SetMem(w, [Heard(w) EXCEPT !.cur = a])
    /\ SetDb(w, [db[w] EXCEPT !.row[a] = "live", !.last = a])
    /\ Reply(w, <<>>)
    /\ Begin(w, Thread("leg"))
    /\ UNCHANGED <<leg, disk, jr, brk, upsets>>

\* _persist_rejected_attempt(): the refusal is durable before it is reported.
RefuseAttempt(w) ==
    LET a == Head(inbox[w]).a IN
    /\ Receiving(w, "attempt") /\ db[w].row[a] = "none"
    /\ UpsetIf("refusal", Admissible(w))
    /\ SetMem(w, Heard(w))
    /\ SetDb(w, [db[w] EXCEPT !.row[a] = "rejected", !.last = a])
    /\ Reply(w, <<Status(a, "rejected")>>)
    /\ UNCHANGED <<leg, disk, jr, brk>>
    /\ Resume(w, "gate")

HandleLegStatusRequest(w) ==
    /\ Receiving(w, "leg_status_request")
    /\ AnswerAndGo(w, Head(inbox[w]).a, TRUE)

\* _record_late_peer_leg_status(): a peer still at work is answered once.
LateLegStatus(w) ==
    LET m == Head(inbox[w]) IN
    /\ Receiving(w, "leg_status") /\ m.a # Cur(w)
    /\ IF m.status \in TerminalStatuses THEN Ignore(w) ELSE AnswerAndGo(w, m.a, FALSE)

CurrentLegStatus(w, statuses) ==
    Receiving(w, "leg_status") /\ Head(inbox[w]).a = Cur(w) /\ Head(inbox[w]).status \in statuses
PeerSaid(w) == [db[w] EXCEPT !.peer = Head(inbox[w]).status]

\* An unsolicited no_attempt_record may mean the attempt is still in transit.
UnsolicitedNoRecord(w) ==
    /\ CurrentLegStatus(w, {"no_attempt_record"}) /\ ~mem[w].probed
    /\ Ignore(w)

\* The peer failed, never sent or is empty: converge, finalize if possible.
PeerFailed(w) ==
    /\ CurrentLegStatus(w, TerminalStatuses \cup {"inconsistent"})
    /\ Head(inbox[w]).status = "no_attempt_record" => mem[w].probed
    /\ SetDb(w, CloseDb(PeerSaid(w)))
    /\ SetMem(w, CloseMem(Heard(w)))
    /\ Reply(w, <<>>)
    /\ UNCHANGED <<leg, disk, jr, brk, upsets>>
    /\ FinalThen(w, "gate")

\* A second rollback of the same attempt is answered from what the scheduler
\* remembers, where a failure receipt counts as completed, or refused by the
\* journal.
ReplayedRollback(w) ==
    IF Journal(w, "rollback") \in {"success", "failure"} THEN {"success", "raised"} ELSE {"raised"}

\* The peer kept its rough protection: a precise leg rolls back, once.
PeerFellBack(w) ==
    /\ CurrentLegStatus(w, {"protection_rough_fallback"}) /\ leg[w].prot = "precise"
    /\ SetDb(w, PeerSaid(w))
    /\ SetMem(w, Heard(w))
    /\ Reply(w, <<>>)
    /\ IF Journal(w, "rollback") = "none"
       THEN /\ SetJournal(w, "rollback", "prepared")
            /\ Begin(w, [Thread("mark") EXCEPT !.job = "rollback"])
       ELSE /\ \E out \in ReplayedRollback(w) :
                  Begin(w, [Thread("done") EXCEPT !.job = "rollback", !.out = out])
            /\ RecordObserved(w, {"rollback"}) \/ UNCHANGED jr
    /\ UNCHANGED <<leg, disk, brk, upsets>>

\* Every other status of the current attempt is remembered.
PeerProgress(w) ==
    /\ CurrentLegStatus(w, PeerStatuses \ (TerminalStatuses \cup {"inconsistent"}))
    /\ Head(inbox[w]).status = "protection_rough_fallback" => leg[w].prot # "precise"
    /\ SetDb(w, PeerSaid(w))
    /\ SetMem(w, Heard(w))
    /\ Reply(w, <<>>)
    /\ UNCHANGED <<leg, disk, jr, brk, upsets>>
    /\ Resume(w, "gate")

\* _handle_pair_entry_confirmed(): only on the entry path, only while the
\* follower's own timer runs, and only before it expires.
OnEntryPath(w) ==
    /\ Head(inbox[w]).a = Cur(w) /\ db[w].desired = "ACTIVE"
    /\ mem[w].st \notin {"CONVERGING_EMPTY", "EMPTY", "NEEDS_HUMAN"}

ConfirmationAccepted(w) ==
    /\ Receiving(w, "pair_entry_confirmed") /\ OnEntryPath(w) /\ mem[w].timer
    /\ SetDb(w, [db[w] EXCEPT !.confirmed = TRUE])
    /\ SetMem(w, CloseMem(Heard(w)))
    /\ Reply(w, <<>>)
    /\ UNCHANGED <<leg, disk, jr, brk, upsets>>
    /\ Resume(w, "gate")

ConfirmationLate(w) ==
    /\ Receiving(w, "pair_entry_confirmed") /\ OnEntryPath(w)
    /\ UpsetIf("timeout", mem[w].timer)
    /\ SetDb(w, CloseDb(db[w]))
    /\ SetMem(w, CloseMem(Heard(w)))
    /\ Reply(w, <<>>)
    /\ UNCHANGED <<leg, disk, jr, brk>>
    /\ Resume(w, "gate")

ConfirmationIgnored(w) ==
    /\ Receiving(w, "pair_entry_confirmed") /\ ~OnEntryPath(w)
    /\ Ignore(w)

HandlePairEntryFailed(w) ==
    /\ Receiving(w, "pair_entry_failed")
    /\ SetDb(w, IF Head(inbox[w]).a = Cur(w) THEN CloseDb(db[w]) ELSE db[w])
    /\ SetMem(w, IF Head(inbox[w]).a = Cur(w) THEN CloseMem(Heard(w)) ELSE Heard(w))
    /\ Reply(w, <<>>)
    /\ UNCHANGED <<leg, disk, jr, brk, upsets>>
    /\ Resume(w, "gate")

-----------------------------------------------------------------------------
(* Faults, the broker, and restarts                                         *)

\* An envelope is lost, or sent again by the outbox after an ambiguous failure.
Lose(w) ==
    /\ Quiet /\ inbox[w] # <<>> /\ Upset("relay")
    /\ inbox' = [inbox EXCEPT ![w] = Tail(@)]
    /\ UNCHANGED <<run, mem, leg, disk, db, jr, brk>>

Duplicate(w) ==
    /\ Quiet /\ inbox[w] # <<>> /\ Len(inbox[w]) < MaxInbox /\ Upset("relay")
    /\ inbox' = [inbox EXCEPT ![w] = <<Head(@)>> \o @]
    /\ UNCHANGED <<run, mem, leg, disk, db, jr, brk>>

(* WorkerPairCellRelay.send(): an envelope whose send raised waits in the     *)
(* outbox until the next flush_pending(), and the next one passes it.  A      *)
(* proof request cannot pass an attempt: the failed send or flush takes the   *)
(* peer session down before the clock ticks, and the request waits for a pump *)
(* whose flush emptied the outbox.                                            *)
MayPass(late, early) == ~(early.kind = "attempt" /\ late.kind = "leg_status_request")

Overtake(w) ==
    /\ Quiet /\ Len(inbox[w]) > 1 /\ Upset("relay")
    /\ inbox[w][1] # inbox[w][2] /\ MayPass(inbox[w][2], inbox[w][1])
    /\ inbox' = [inbox EXCEPT ![w] = <<@[2], @[1]>> \o SubSeq(@, 3, Len(@))]
    /\ UNCHANGED <<run, mem, leg, disk, db, jr, brk>>

\* The Worker process dies, between any two steps of its thread.
Crash(w) ==
    /\ ~At(w, "down") /\ (Quiet \/ ~At(w, "idle")) /\ Upset("crash")
    /\ Begin(w, Thread("down"))
    /\ SetMem(w, FreshMem)
    /\ SetLeg(w, NoLeg)
    /\ inbox' = [inbox EXCEPT ![w] = <<>>]
    /\ UNCHANGED <<disk, db, jr, brk>>

\* The broker executes a resting order, in full or in part.
BrokerFills(w, a) ==
    /\ brk[w][a] = "working"
    /\ \E h \in {"rough"} \cup (Fills \cap {"partial"}) : brk' = [brk EXCEPT ![w][a] = h]
    /\ UNCHANGED <<run, mem, leg, disk, db, jr, inbox, upsets>>

\* It cancels the order, or closes the position at its stop or target or
\* because an accepted close executes.
BrokerEnds(w, a) ==
    /\ brk[w][a] \in Exposure
    /\ UpsetIf("market", brk[w][a] # "closing")
    /\ brk' = [brk EXCEPT ![w][a] = "none"]
    /\ UNCHANGED <<run, mem, leg, disk, db, jr, inbox>>

\* _load_persisted_state(): the latest attempt, if it is not terminal.
Loaded(w) ==
    LET a == db[w].last IN
    IF a # NoAttempt /\ db[w].row[a] = "live" THEN a ELSE NoAttempt

\* _recovered_state()
RecoveredState(d, l) ==
    CASE l.entry = "unknown_after_send" -> "ENTRY_UNCERTAIN"
      [] l.entry # "unknown_after_send" /\ d.desired = "EMPTY" -> "CONVERGING_EMPTY"
      [] l.entry # "unknown_after_send" /\ d.desired # "EMPTY" ->
            CASE Verified(l) /\ d.active -> "ACTIVE"
              [] ~(Verified(l) /\ d.active) /\ l.entry = "filled" -> "AWAITING_PAIR_CONFIRMATION"
              [] OTHER -> "ENTERING"

\* _reconcile_entry_effect_state(): the journal decides what a pending leg did.
ReconciledEntry(l, j) ==
    CASE l.entry # "pending" -> l.entry
      [] l.entry = "pending" /\ j \in {"none", "prepared"} -> "expired_not_started"
      [] OTHER -> "unknown_after_send"

\* Fault: a recovered attempt goes back to where it was heading.
RecoveredDb_Reopened(d, st) == IF st = "ACTIVE" THEN d ELSE [d EXCEPT !.desired = "ACTIVE"]

\* recover(): anything but ACTIVE is contained.
RecoveredDb(d, st) == IF st = "ACTIVE" THEN d ELSE CloseDb(d)

\* recover() with no unresolved attempt.
RestartIdle(w) ==
    LET d == [db[w] EXCEPT !.desired = "NONE", !.confirmed = FALSE, !.active = FALSE,
                           !.peer = "unknown"]
    IN
    /\ At(w, "down") /\ Loaded(w) = NoAttempt
    /\ SetDb(w, IF Resolved(d) THEN Unlatched(d) ELSE d)
    /\ SetMem(w, IF Resolved(d) THEN [FreshMem EXCEPT !.st = "EMPTY"] ELSE FreshMem)
    /\ Begin(w, Thread("idle"))
    /\ UNCHANGED <<leg, disk, jr, brk, inbox, upsets>>

\* recover() of an attempt without a leg row: it provably had no effect.
RestartWithoutLeg(w) ==
    LET d == ResetDb(db[w], Loaded(w), "no_effect") IN
    /\ At(w, "down") /\ Loaded(w) # NoAttempt /\ disk[w].a # Loaded(w)
    /\ SetDb(w, IF Resolved(d) THEN Unlatched(d) ELSE d)
    /\ SetMem(w, [FreshMem EXCEPT !.st = "EMPTY"])
    /\ Begin(w, Thread("idle"))
    /\ UNCHANGED <<leg, disk, jr, brk, inbox, upsets>>

\* recover() of an attempt with a leg.
RestartWithLeg(w) ==
    LET a == Loaded(w)
        l == disk[w]
        st == RecoveredState(db[w], l)
        d == RecoveredDb(db[w], st)
    IN
    /\ Quiet /\ At(w, "down") /\ a # NoAttempt /\ l.a = a
    /\ SaveLeg(w, [l EXCEPT !.entry = ReconciledEntry(l, jr[w][a]["entry"])])
    /\ jr' = [jr EXCEPT ![w][a]["entry"] =
                 IF l.entry = "pending" /\ @ = "prepared" THEN "observed" ELSE @]
    /\ SetDb(w, IF Resolved(d) THEN Unlatched(d) ELSE d)
    /\ SetMem(w, [FreshMem EXCEPT !.cur = a, !.st = IF Resolved(d) THEN "EMPTY" ELSE st])
    /\ ReadThen(w, "gate")
    /\ UNCHANGED <<brk, inbox, upsets>>

-----------------------------------------------------------------------------
Init ==
    /\ run = [w \in Workers |-> Thread("idle")]
    /\ mem = [w \in Workers |-> FreshMem]
    /\ leg = [w \in Workers |-> NoLeg]
    /\ disk = [w \in Workers |-> NoLeg]
    /\ db = [w \in Workers |-> NoRows]
    /\ jr = [w \in Workers |-> [a \in Attempts |-> [e \in Effects |-> "none"]]]
    /\ brk = [w \in Workers |-> NoEntry]
    /\ inbox = [w \in Workers |-> <<>>]
    /\ upsets = 0

Entering(w) ==
    \/ CreateAttempt(w) \/ NoCandidate(w) \/ PersistLeg(w) \/ PrepareEntry(w) \/ RelayAttempt(w)
    \/ EntryAccepted(w) \/ EntryRejected(w) \/ EntryUnknown(w)

Writing(w) == RefuseWrite(w) \/ MarkSendStarted(w) \/ OrderSend(w)

Observing(w) ==
    \/ ReadSecond(w) \/ ReadFails(w)
    \/ EntryAmbiguous(w) \/ EntryFilled(w) \/ EntryInconsistent(w) \/ EntryAbsent(w)
    \/ TicketGone(w) \/ TicketHeld(w)

Containing(w) ==
    \/ StartContainment(w) \/ ContainmentAccepted(w) \/ ContainmentDeferred(w)
    \/ ContainmentUncertain(w) \/ HeldWhileStopped(w) \/ Unattributed(w) \/ VerifiedEmpty(w)
    \/ StillEmpty(w) \/ ContainmentDone(w) \/ SettleDeferred(w) \/ SettledAbsent(w) \/ SettledPresent(w)
    \/ StopResolved(w) \/ StopOutdated(w) \/ StopKept(w)

Progressing(w) ==
    \/ GateStopped(w) \/ ExitPolicy(w) \/ ConfirmationTimeout(w) \/ GatePass(w)
    \/ EmitConfirmation(w) \/ PeerInconsistent(w)
    \/ StartProtection(w) \/ NoMirroredBox(w) \/ ProtectionApplied(w) \/ ProtectionRefused(w)
    \/ RollbackApplied(w) \/ RollbackReported(w) \/ RollbackFailed(w)
    \/ Converge(w) \/ FinalizeEmpty(w)
    \/ DeclareActive(w) \/ AwaitProof(w) \/ ProbePeer(w) \/ EscalateSilence(w)

LocalEvent(w) ==
    /\ Ready(w)
    /\ \/ Tick(w) \/ SnapshotEvent(w) \/ HearPeer(w) \/ SessionLost(w) \/ SessionUp(w) \/ RequestClose(w)

Envelope(w) ==
    /\ Ready(w) /\ inbox[w] # <<>>
    /\ \/ ReplayAttempt(w) \/ AdmitAttempt(w) \/ RefuseAttempt(w)
       \/ HandleLegStatusRequest(w) \/ LateLegStatus(w) \/ UnsolicitedNoRecord(w)
       \/ PeerFailed(w) \/ PeerFellBack(w) \/ PeerProgress(w)
       \/ ConfirmationAccepted(w) \/ ConfirmationLate(w) \/ ConfirmationIgnored(w)
       \/ HandlePairEntryFailed(w)

Restart(w) == RestartIdle(w) \/ RestartWithoutLeg(w) \/ RestartWithLeg(w)

ThreadStep(w) ==
    /\ run[w].at \notin {"idle", "down"}
    /\ Entering(w) \/ Writing(w) \/ Observing(w) \/ Containing(w) \/ Progressing(w)

Next ==
    \E w \in Workers :
        \/ ThreadStep(w) \/ LocalEvent(w) \/ Envelope(w)
        \/ Lose(w) \/ Duplicate(w) \/ Overtake(w) \/ Crash(w) \/ Restart(w)
        \/ \E a \in Attempts : BrokerFills(w, a) \/ BrokerEnds(w, a)

Spec == Init /\ [][Next]_vars

(* A running Worker runs its thread and its clock, drains its envelopes, lets *)
(* the probe interval elapse, and is reconnected and restarted; an accepted   *)
(* close executes.  SF because a handler here waits for the other's thread.   *)
Fairness ==
    \A w \in Workers :
        /\ WF_vars(ThreadStep(w))
        /\ SF_vars(Tick(w)) /\ SF_vars(Envelope(w)) /\ SF_vars(ProbePeer(w))
        /\ SF_vars(Restart(w) \/ SessionUp(w))
        /\ \A a \in Attempts : WF_vars(brk[w][a] = "closing" /\ BrokerEnds(w, a))

FairSpec == Spec /\ Fairness

-----------------------------------------------------------------------------
Holding == [Attempts -> Holdings]
Threads ==
    [at : Stages, ret : Stages, then : Stages, job : Effects,
     out : {"none", "success", "failure", "raised", "refused"},
     first : {"positions", "orders"}, pos : Holding, ord : SUBSET Attempts, fresh : BOOLEAN]
Legs ==
    [a : Attempts \cup {NoAttempt}, entry : EntryStatuses, prot : Protections, empty : BOOLEAN,
     relayed : BOOLEAN, ticket : Attempts \cup {NoAttempt}, seen : Holdings,
     protRef : Effects \cup {"none"}, closeRef : BOOLEAN]
Mems ==
    [cur : Attempts \cup {NoAttempt}, st : PairStates, timer : BOOLEAN, wait : {"no", "yes", "over"},
     probed : BOOLEAN, deferred : SUBSET Containment, session : BOOLEAN]
Rows ==
    [row : [Attempts -> RowStates], last : Attempts \cup {NoAttempt},
     desired : {"NONE", "ACTIVE", "EMPTY"}, confirmed : BOOLEAN, active : BOOLEAN,
     human : [why : Stops, a : Attempts \cup {NoAttempt}], peer : PeerStatuses]

(* Type correctness of the whole state.                                      *)
TypeOK ==
    /\ run \in [Workers -> Threads]
    /\ mem \in [Workers -> Mems]
    /\ leg \in [Workers -> Legs]
    /\ disk \in [Workers -> Legs]
    /\ db \in [Workers -> Rows]
    /\ jr \in [Workers -> [Attempts -> [Effects -> EffectStates]]]
    /\ brk \in [Workers -> Holding]
    /\ inbox \in [Workers -> Seq(Messages)] /\ \A w \in Workers : Len(inbox[w]) <= MaxInbox
    /\ upsets \in 0 .. MaxUpsets

-----------------------------------------------------------------------------
(* Safety                                                                    *)

Terminal(row) == row \in {"rejected", "no_effect", "both_empty"}
Exposed(w, a) == brk[w][a] \in Exposure

\* The attempt a Worker is at work on; while it is down, the one it would load.
Responsible(w) == IF At(w, "down") THEN Loaded(w) ELSE Cur(w)

(* A Worker never abandons exposure of its own: whatever its account holds of *)
(* an attempt, that attempt is the one the Worker is at work on, and is the   *)
(* one it would recover if it crashed now.                                    *)
NoAbandonedExposure ==
    \A w \in Workers, a \in Attempts : Exposed(w, a) => a = Responsible(w) /\ a = Loaded(w)

(* "both_empty_verified" is true of both accounts: the peer of a Worker that  *)
(* finalized an attempt has no exposure of it and never will.                 *)
PairTerminal ==
    \A w \in Workers, a \in Attempts :
        db[w].row[a] = "both_empty" =>
            /\ ~Exposed(Peer(w), a)
            /\ jr[Peer(w)][a]["entry"] # "prepared"

\* The leg of attempt a that Worker w has on record was filled.
FilledOnRecord(w, a) == disk[w].a = a /\ disk[w].entry = "filled"

(* The leader confirms the pair only after the follower really filled, and    *)
(* the follower believes a confirmation only the leader gave: with any        *)
(* interleaving, loss or restart, a confirmed cell's peer has the filled leg  *)
(* on record or has finished the attempt.                                     *)
ConfirmedMeansFilled ==
    \A w \in Workers :
        LET a == IF At(w, "down") THEN disk[w].a ELSE Cur(w) IN
        db[w].confirmed => FilledOnRecord(Peer(w), a) \/ Terminal(db[Peer(w)].row[a])

(* One attempt at a time: when the leader prepares the entry of a later        *)
(* attempt, neither account holds anything of an earlier one.                 *)
OneAttemptAtATime ==
    \A a, b \in Attempts :
        (a < b /\ jr["leader"][b]["entry"] # "none") => \A w \in Workers : ~Exposed(w, a)

(* Two ACTIVE cells of one attempt hold the same kind of protection: never a  *)
(* mirrored box on one side and the rough stops on the other.                 *)
ActiveLegsMatch ==
    (/\ \A w \in Workers : Cur(w) # NoAttempt /\ mem[w].st = "ACTIVE"
     /\ Cur("leader") = Cur("follower"))
    => leg["leader"].prot = leg["follower"].prot

(* Containment is irrevocable: once an attempt is to be EMPTY it stays so     *)
(* until it is terminal, through every later message and restart.             *)
ContainmentIrrevocable ==
    [][\A w \in Workers :
          (db[w].desired = "EMPTY" /\ Loaded(w) # NoAttempt)
          => db'[w].desired = "EMPTY" \/ Terminal(db'[w].row[db[w].last])]_vars

(* Containment completes: a Worker that has to be EMPTY eventually finishes   *)
(* the attempt, or a Worker of the pair asks for a human; two cells never     *)
(* wait for each other's proof in silence, whatever closes, timeouts, lost    *)
(* envelopes and lost sessions they meet (proof probes, pair_cell.py:7753).   *)
ContainmentCompletes ==
    \A w \in Workers :
        db[w].desired = "EMPTY" ~> (db[w].desired # "EMPTY" \/ \E v \in Workers : Stopped(v))

\* The journal of both cells as abstract effects: a receipt is a receipt,
\* whatever its retcode.
EffectIds == Workers \X Attempts \X Effects
LifecycleState(j) ==
    CASE j = "none" -> "absent"
      [] j \in {"success", "failure"} -> "receipt"
      [] OTHER -> j
Lifecycle == INSTANCE EffectLifecycle
    WITH Ids <- EffectIds, effect <- [i \in EffectIds |-> LifecycleState(jr[i[1]][i[2]][i[3]])]

(* The cell keeps the journal's promise with all its retries, replays and     *)
(* restarts: no effect crosses the send boundary twice, none goes back, and   *)
(* conclusive evidence stays.                                                 *)
KeepsLifecycle == Lifecycle!Spec

(* No effect of an attempt is left open once the attempt is terminal: the     *)
(* journal gate of _local_ready() can open again.                             *)
JournalSettled ==
    \A w \in Workers, a \in Attempts :
        Terminal(db[w].row[a]) => \A e \in Effects : ~Open(jr[w][a][e])
=============================================================================
