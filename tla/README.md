# Verification of abt

TLA+ models of *abt*, a system that opens and closes paired (hedged) positions on two
MetaTrader 5 accounts. The source is under `src/abt` (Python); `src/docs/adr` holds the design
decisions. `PROJECT.json` maps every definition to the lines it stands for, and lists the
components, runs, mutants, findings, hazards and theorems.

## 1. Inventory

Two **Workers**, a *leader* and a *follower*, each own one MT5 account and run the same code. A
**control plane** enrols them, pairs them into a *route* and forwards their envelopes. It never
trades. Everything that protects money is decided in the Workers.

| Component | State | Operations | Interacts with |
|---|---|---|---|
| Pair Execution Cell (`pair_cell.py`) | tables `cell_attempts`, `cell_leg_state`, `cell_peer_leg`, desired state, operator stop; in memory the current attempt, pair state, timers, proof window | `handle_event` (tick, broker snapshot, session up/down, relay envelope), `request_close`, `recover` | journal, scheduler, MT5, relay |
| Effect journal (`worker/effect_journal.py`) | `broker_effects`: one row per effect ID | `prepare`, `mark_send_started`, `record_receipt`, `record_observation`, `unresolved` | the cell, reconciliation |
| Trader RPC scheduler (`worker/scheduler.py`) | priority queues, known commands, remembered outcomes, the active item | `admit`, `next`, `before_broker_send`, `complete`, `freeze`, `release` | the cell, adapter reads |
| Pair-cell adapter (`worker/pair_cell_adapter.py`) | relay outbox, pairing state, frozen budget, durable route copy, published versions | relay send/flush, pairing steps, route adoption and removal, unpair assertions, pump, snapshot read | session, cell, MT5 |
| Reconciliation (`worker/reconciliation.py`) | permission state, backoff, session | poll, reconnect, journaled write | MT5, journal, scheduler |
| Session (`worker/session.py`) | connection, queued replies and pushes | connect, receive, drain | control plane, adapter |
| Certificate rotation (`worker/rotation.py`) | device keys, identity file, rotation journal, list of retired keys | recover, clean up, rotate | control plane, key store |
| Ledger (`controlplane/ledger.py`) | invites, enrolments, roles, reservations, routes, sessions, certificates | create/redeem/revoke, reserve, route, unpair, authorize relay, rotate, expire | service |
| Service (`controlplane/service.py`) | live sockets | worker session, relay, pair-cell control, rotation | ledger, Workers |
| Sizing, protection prices, discovery and ranking (`pair_cell.py`) | catalogs, plans, quarantine, epochs | pure computation; reseed, rediscovery, quarantine, cooldown | cell |
| Key stores, Wine bridge, CLIs, backup, crypto, console | files, processes | I/O | - |

**What is hard here.** A cell makes several durable commits and MT5 calls per event, and a crash
may separate any two of them. MT5 answers may be lost after the order executed. A broker snapshot
is two calls. The relay is best effort: envelopes are lost with a session or with a peer that is
down, and sent again after an ambiguous failure. The two cells decide independently, and each
needs proof about the other's account that it cannot observe. Broker-side stops close a leg at
any time.

**What makes the components correct.**

- Journal: an effect is sent at most once; a row that says `prepared` proves nothing was sent;
  conclusive evidence is final.
- Cell: exposure is never abandoned; an attempt is finished only when both accounts are safe; a
  pair is confirmed only when both legs filled; two active legs have the same protection;
  containment is irrevocable and completes, or a human is asked.
- Scheduler: every admitted command ends exactly once, and nothing that may have been sent is denied;
  queue and memory stay bounded.
- Rotation: the identity on disk always names a key that exists; the Worker can always prove the
  key the controller asks for; no process works with a superseded key for ever; certificates are
  replaced and superseded keys deleted in the end.
- Ledger: a Worker is in at most one route or reservation; claims live as long as what they were
  taken for; assertions are never stale; one active Worker per account.
- Pairing end to end: a route is not taken away under an attempt, and a Worker that the controller
  routes still holds the budget it froze for that pairing.

## 2. Modules

### EffectLifecycle

The abstract promise about one broker effect: absent, prepared, past the send boundary, settled by
a receipt or an observation; only forward, and a receipt only beyond the boundary. EffectJournal
implements it (`ImplementsLifecycle`, also proved) and so does PairCell, where the two cells of a
route retry, replay and recover on top of the journal (`KeepsLifecycle`). A step of the abstract
specification may move several effects.

### EffectJournal, EffectJournal_proofs

`journal` is the table, `writer` one call of the write routine
(`_execute_broker_operation`/`_journaled_order_send`, and `_run_broker_write` in the cell), `calls`
counts the MT5 calls per effect. Each commit and the MT5 call are actions of their own, and
`Crash` ends the writer between any two. `calls` is a history variable; `MaxCalls` (at least 2) caps
it so that a second call is possible and would be seen.

### PairCell, PairCell_proofs, PairCellPair_proofs, PairCellExposure_proofs

Both cells of one route, the relay and the two accounts.

| Variable | Code |
|---|---|
| `run[w]` | where `handle_event`/`_progress` stands: every durable commit and MT5 call is a stage |
| `mem[w]` | `_attempt`, `_state`, confirmation timer, proof window (`wait`), probes sent, deferred containment, peer session |
| `leg[w]`, `disk[w]` | `LegState` in memory and the `cell_leg_state` row; they differ where the code changes the object and persists it later |
| `db[w]` | attempt rows and the latest of them, desired state, pair confirmation, ACTIVE mark, operator stop, peer status |
| `jr[w]` | the effect journal, by attempt and effect |
| `brk[w]` | what the account holds of each attempt |
| `inbox[w]` | envelopes under way |
| `upsets` | how many faults, timeouts and closes have happened |

A handler never yields: its stages run to the end of `_progress`, which passes over the stages
with nothing to do (`Due`, `From`). A crash or the broker may come between any two stages, and so
may the peer's steps in effect: the stages of one cell touch only its own state, its own account
and the tail of the peer's inbox, so they commute with the peer's, and the model runs one cell's
thread at a time. A position seen in a snapshot, its match with the attempt, a quote, a policy or
a size are data: `evidence`, `refusal` and `NoCandidate` choose freely whether they qualify.

The journal's states here are those of EffectJournal with the receipt split by its retcode
(`success`, `failure`). What an MT5 call can do and return (`EntryResults`, `ModifyResults`,
`CloseResults`, `CancelResults`) is external and follows from how the code reads retcodes: an order
may execute at once, rest (`Fills` has `"working"`), fill in part (`"partial"`), be refused, or do
either with no usable receipt. An entry that expired before it was sent (`expired_not_started`,
`pair_cell.py:6390`) ends like a rejected one in `EntryRejected`: nothing was sent, and the two differ
in the reported status only.

The relay is a queue per Worker that may lose, repeat or reorder (`Lose`, `Duplicate`, `Overtake`).
An envelope whose send raised waits in the sender's outbox until the next flush and is passed by the
next one sent. `MayPass` excludes one case, a proof request passing its attempt: a failed send or
flush is fed to the cell as a lost peer session before its clock ticks, a cell without a session
sends no request, and the session returns in a pump whose flush emptied the outbox. This assumes
that one pump takes less than the confirmation timeout that precedes the first request. The request
passing the attempt would break `PairTerminal`: the answer "no record" would be taken for proof.
The drop of the oldest of 256 waiting envelopes is a `Lose`.

**Bounds.** `MaxAttempts` attempts, `MaxInbox` envelopes to one Worker (a further one is lost, which
the real relay may do as well), `MaxUpsets` upsets of the kinds in `UpsetKinds`: `close` (operator,
exit policy), `timeout` (confirmation, proof window), `write` (MT5 failure or no receipt), `read`
(failed snapshot), `market` (broker-side exit or cancel), `refusal` (scheduler, admission),
`evidence` (mismatching fill), `relay` (loss, duplication, lost session), `crash`. The plain course of
an attempt takes none, so every run contains it, and two or three upsets at any steps are enough
for all the recovery paths: between them the passing runs fire every action.

**Fairness** (`FairSpec`). A running process runs its thread (WF). The pump ticks a cell, drains its
envelopes, and the probe interval elapses, however often the other cell's thread comes in between
(SF: in the model an event waits until both threads are idle, in reality they are two processes).
A Worker is restarted and its session reconnects (the supervisor and the reconnect loop). An
accepted close executes. Nothing is assumed of timers, operators or the market.

**Left out:** shadow mode, trailing updates of the leader's stop after ACTIVE, the reseed,
rediscovery, quarantine and cooldown gates of attempt creation (they only restrict it), a failing
disk, and the `frozen` protection status, which no path of this code reaches.

### RpcScheduler, MCRpcScheduler, RpcScheduler_proofs

`queues`, `active`, `known` and `completed` are the scheduler's `_queues`, `_active`, `_known` and
`_completed`; an item keeps its first request, the commands it answers and whether its telemetry
says that the MT5 action started. `journal` is what the effect journal decides: it survives a crash,
the rest does not. The actions are the branches of `admit` (frozen, expired, joined to a waiting
background item, queue full, enqueued), of `next` (expired, frozen, taken) and of the two callers
that take an item to MT5, `_run_broker_write` and `_dispatch_scheduled_trader_rpc`. The last check
(`before_broker_send`), the mark in the journal and the MT5 call are steps of their own (`step`): the
Worker may be frozen, the deadline may pass and the process may crash between any two of them, and the
journal may refuse the mark (`MarkRefused`). A dispatch that finds a receipt in the journal is answered
from it (`FromEvidence`), and one that finds the send boundary crossed is uncertain
(`EffectUncertain`). A repeated effect that is answered from memory (`Replayed`) resolves its open
journal row as not started, as the cell does. `Requests` may be delivered any number of times.
`freeze()` and `release()` are modelled as part of the scheduler's interface; no caller in this
repository uses them.

That no write is sent against a freeze or after its deadline is not a property of this code: the check
precedes the journal's commit, and what happens after it is not looked at again.

Bounds: a capacity of 2 for 4 commands, so that the queue fills and outcomes are forgotten, and one
deadline (`MaxNow`). Fairness (`FairSpec`): the callers drain the queue and complete what they took;
both are loops that run to the end within one call. An emergency item therefore is served.

### CertificateRotation, CertificateRotation_proofs

Worker and controller of one rotation after the other. Every file write, key operation and request
of `maintain_worker_certificate`, `_recover_pending_rotation` and `_clean_retired_keys` is an action
(`pc` names the points between them). The process may crash between any two, and each write, key
operation and request may fail (`Failures`), the write of the list of retired keys after a deletion
included. Keys are numbered by creation. `used` and `struck` are history variables: the keys that were
once the identity, and the unprotected windows that a fault has hit. Those are `rotation` (from the
rotate request to the saved identity: no file tells what has been done), `save` (the identity cannot
be saved: in addition the journal names a key that is then deleted) and `cleanup` (from the first
deleted key to the written list). `OutOfKeys` ends a run at `MaxKeys`.

**The process and the disk.** `identity` is what the identity file names, `current` is what the process
works with; the two differ more often than the code suggests. `WorkerCertificateRotated` "signals the
caller to reconnect using the atomically saved replacement identity" (`rotation.py:30`), but it is a
`WorkerEnrollmentError`, and a session's reconciliation runs inside `run_with_retries`
(`reconciliation.py:188-206`, called at 477), which catches the first two errors of a session and
starts the reconciliation again in the same session (`Retried`, `RotationSwallowed`). Maintenance then
runs with the old identity, key and certificate: it may find a journal whose retired key is the active
one and switch the identity on disk once more (`RecoverSwitch`), and it finds its own certificate past
the half life and asks for another rotation, which the controller refuses because its key has changed
(`StaleNeverCommits`). Only the third error of a session reaches the loop that loads the new identity
(`Reconnect`); otherwise the controller ends the session when the old certificate's hour has passed,
the process cannot open another one with the old key and exits (`GivesUp`), and the operator's restart
loads the identity on disk. `SupersededProcessEnds` says that one of them always happens. The finding
of this module is `v_lockout`; this divergence from the docstring is recorded here and, as a hazard, in
`PROJECT.json`.

**Time.** A certificate ages (`HalfLifePasses`) and may expire at any time after that, whether it is the
ledger's or the one of the open session (`CertificateExpires`). An expired certificate opens no session
(`cli.py:574`) and ends one in its maintenance (`MaintainExpired`), for good: as
`test_expired_certificate_requires_operator_action` has it, nothing but the operator replaces it, so the
two liveness properties about certificates and keys end there. A session that maintenance ended with a
`WorkerRotationError` goes on and tries again the next day (`DayPasses`).

Fairness: the Worker's loop goes on, the controller answers, days pass, and a process that exited is
started again by its operator. Bounds: 4 keys (3 rotations) and 3 faults, enough for a failed rotation,
its recovery and a second rotation on top. Left out: a journal or state file that cannot be read or
parsed (both are written atomically), and revocation.

### RouteLedger, RouteLedger_proofs

The pairing part of the ledger as transactions: reservation, route creation, release and expiry,
claims, unpair, state versions and assertions, approval, revocation, deletion, and the orphaned
claims dropped when the ledger is opened. A `LedgerError` rolls back, so a refused operation needs no
action, except a failed route creation, which releases its reservation. `LedgerSpec` lets them come
in any order with any set of connected Workers; it is the abstract specification that PairRoutes
implements.

### PairRoutes, MCPairRoutes, PairRoutes_proofs

RouteLedger composed with the service and with the `PairCellRuntime` of every Worker.

| Variable | Code |
|---|---|
| ledger variables | as in RouteLedger |
| `conn` | `worker_connections`, with the states in which a dying session is still registered or already unregistered |
| `session`, `up`, `down` | the Worker's open session and what is under way in it |
| `owed` | pushes that wait because `_drain_control` serves replies first |
| `wk[w]` | pairing state, proposal, published version, fail-closed mark, reconciliation; durable: frozen budget, route copy, state version, unresolved attempt |
| `commands`, `faults` | how many operator commands and faults |
| `excused`, `crossed` | history: whether an UNPAIRING was cancelled or a Worker deleted; whether a follower was reserved again while an earlier proposal, or its decision on one, was under way |

There is one `Handle` action per control message, with the transaction it runs, the reply and the
pushes; one action per reply and push that a Worker serves; and the Worker's own steps: declaring,
selecting, syncing, publishing versions and assertions, starting and finishing attempts. A session
breaks at any time and loses what was sent to the Worker, while what the Worker sent may still be
handled; the service notices later. The control plane restarts; an administrator approves, revokes
and deletes.

Bounds: two leaders, each on its own account, one follower, and a successor on the follower's account;
two proposals, one route, versions to 2, together two operator commands and faults of which at most one
is a fault, and one unserved message when a Worker acts on its own. `Scope` bounds how they combine. The
two leaders compete for the follower in every way as long as nothing is upset, and across a lost session
or a restart of the control plane until a route exists. The other commands and faults are explored for
the first leader while the second has not begun to select, and two of them on its first proposal. That is
enough for two leaders that choose the same follower, for a refused or lapsed proposal followed by a
route, for its unpairing, and for a cancel or a fault in between. One route is enough for
`WorkerOnOneRoute`: a second reservation of the follower breaks it already. The eligibility check has to
be dropped as a whole to see that, because the claim of a reservation protects the follower as well as
the reservation itself (`Eligible_RoutesOnly`).

Timing: a Worker gives a pairing up 90 s after its proposal (`PAIRING_RESERVATION_GRACE_SECONDS`),
when the reservation has expired (30 s); the model takes for granted that a proposal and its decision
are not under way for longer than the 60 s between (`PastGrace`).

The properties have exceptions and an assumption; these behaviours are what they are for. TLC finds
each with a variant of the instance:

- With two `enter` commands and a `cancel` between, and two unserved messages, `UnpairedIsIdle` fails
  without its exception: the assertion of the first UNPAIRING, still under way, is accepted in the
  second, while the Worker, told ACTIVE in between, has started an attempt. The ledger discards
  stored assertions (`ledger.py:896` "safety is always re-proved from fresh evidence"), not those on
  their way, and the version has not been published yet.
- Without the timing assumption `FailsClosedOnlyAfterFault` fails with no fault: a late refused
  decision of the first proposal discards the budget frozen for the second, because
  `pair_cell_adapter.py:2293` and `:2437` do not compare proposals.
- With two active leaders the same happens although the timing assumption holds (`crossed`). The
  first leader's proposal lapses while the follower's answer is under way; the second leader reserves
  the follower, which freezes a budget for it and decides again; the refusal of the first decision
  then arrives and discards that budget; the second decision creates the route, and the follower,
  told of it, fails closed. `_reconcile_absent_pairing` takes care not to "throw away the frozen
  startup balance of a route that was in fact created a moment later" (`:2347`); the refused decision
  does just that. The behaviour came up in the proof of `FailsClosedOnlyAfterFault`, where the
  invariant was not inductive; the run `routes` reaches it as well, in 15 steps. The property excepts
  the crossing and nothing else.

A Worker that is routed may also hold a pairing state of selection, because the replies to a listing
or a proposal are not guarded by the cell's existence; it has no effect while the cell exists.

Left out: `--follower-worker-id` (a leader that proposes once), the role table (leaders are those
started as such), `--unpair` and `--cancel-unpair` at startup (an operator command at any time
instead), malformed messages, and two new sessions of one Worker that supersede the same old one.
Three simplifications: one reply at a time may overtake the pushes before it (`Served`), where `_drain_control` serves all replies at hand first; a
follower whose pairing ends is idle or available and never selects (`Conflicted`), although a follower
started on a terminal has `options.interactive` as well (`pair_cell_adapter.py:2214`); and the deletion
of a Worker and the push to its peer are one step (`DeleteWorker`), although `service.py:472` awaits in
between, which the exception of `UnpairedIsIdle` for deletions covers.

## 3. Runs

| Run | Instance | What it shows |
|---|---|---|
| `journal` | 2 effects, 2 payloads | no blind retry, evidence final, implements EffectLifecycle |
| `faults` | 1 attempt, 2 upsets of all kinds | every safety property of the cell with any two upsets; implements EffectLifecycle |
| `attempts` | 2 attempts, 2 of crash/write/market | leftovers of an attempt never meet the next one; deferred verdicts and stops keep every position |
| `fills` | 2 attempts, resting orders, 1 failed write | confirmation and protection agree although orders fill late |
| `progress` | 1 attempt, 2 of close/relay/timeout (no crash, no failed write), `FairSpec` | containment completes |
| `scheduler` | 4 commands, capacity 2, `FairSpec` | every command is accounted for and answered by one item, nothing is sent twice, denials are true, emergencies are served |
| `rotation` | 4 keys, 3 faults, `FairSpec` | no key is lost or forgotten, the only lock-outs are the named windows, a process with a superseded key ends, certificates and keys are replaced in the end unless the certificate expires |
| `routes` | 4 Workers (2 competing leaders), 2 proposals, 1 route, `Scope` | two leaders never both get a follower; pairing and unpairing with every kind of fault |
| `v_journal` | as `faults` | violated: `JournalSettled` |
| `v_snapshot` | resting orders, 1 close | violated: `NoAbandonedExposure` |
| `v_terminal` | partial fills, 1 failed write | violated: `PairTerminal` |
| `v_lockout` | 1 lost answer | violated: `FailsSafely` |

The four violations are findings, described with the lines they contradict in `PROJECT.json`:

1. a protection effect that is journaled before the leg row names it stays open for ever after a
   crash and blocks every later entry;
2. an order that fills between `positions_get` and `orders_get` is seen by neither, and a closing
   cell finishes with an open position;
3. a partial fill (retcode 10010) is reported as a rejection, on which the peer finalizes;
4. a rotation whose answer is lost, or that fails before the identity is saved, "failed safely"
   only in words: the Worker deletes the key the controller has switched to.

`NoAbandonedExposure` therefore holds for orders that execute or are refused at once (`faults`,
`attempts`), and not for resting ones. Besides, ADR-0010 lets the leader run on alone after the
follower's leg empties (lines 456-459), while the code closes it at once (`pair_cell.py:7231`); the
model follows the code.

CHECK_DEADLOCK is off in `routes` only: Workers that have ended up unpaired have nothing left to do.

Every property of a passing run has a mutant, an operator named after the definition it replaces
with the fault it introduces, stated just before it.

## 4. Proofs

All for any values of the constants.

**EffectJournal_proofs** (assumption `MaxCallsAssumption`): `TypeCorrect`, `AtMostOnce`,
`PreparedUnsent`, `ReceiptSent`, the action property `EvidenceFinal` and the refinement
`LifecycleImplemented` (the mapping keeps the state of each row and drops payload and evidence).
`SentAtMostOnce` is not inductive: a row in `prepared` could have been sent before. `JournalInv` adds
where the writer stands (`WriterAgrees`) and `UnsentRows` (absent and prepared rows were never sent).
It is preserved because a row leaves `prepared` only together with the writer's step to `started`,
and no row returns to it.

**RpcScheduler_proofs** (`SchedulerAssumption`): `CalledOnce`, `DenialsAreTrue`. `OnceInv` adds that an
effect which is none or prepared in the journal has no send, and that the active item between the mark
and the call has crossed the journal's boundary and has not been sent: that is what makes the forgetful
scheduler safe. `DenialInv` adds that waiting items have not begun; only the active one
can have, and it is completed by `Serve` alone, which denies a call only before it began.
The accounting is proved with `WorkInv` (`WorkAccounted`), from which `SchedulerTyped`,
`StaysBounded`, `CommandsAccounted` and `OneItemEach` follow. It strengthens the two properties to
equivalences (`Accounted`: a command is at work exactly when an item holds it, and has an outcome
exactly when it is remembered) and to places (`Single`: two places of the queues, or a place and the
active item, never hold the same command), because an item is moved, joined and dropped by its
place. `Limited` counts the places of all queues.

**PairCell_proofs** (`BoundsAssumption`; any number of attempts, any inbox, any upsets, any `Fills`):
what one cell keeps by itself, as `OwnInvariant`. `Own(w)` says that what put the thread at its stage
still holds (`Control`), which attempt row a restart would load (`RowsKept`), that the leg in memory
is the one on disk (`LegKept`), and what the journal says at each stage of a broker write
(`EntryStage`, `EntryKept`, `ProtectedOnce`). It gives `TypeCorrect`, the action property
`ContainmentKept` (containment is irrevocable) and the refinement
`LifecycleKept`: whatever is retried, replayed and recovered, each effect of the two cells goes
through EffectLifecycle. Most steps are `Routine`, and one lemma says what those preserve; broker
writes, creation, adoption and recovery have lemmas of their own.

**PairCellPair_proofs**: what the two cells know of each other, as `PairInvariant`. A property such as
`ConfirmedMeansFilled` relates two cells that never read each other's state, so `PairInv` says of every
word about the peer, on record or under way, that it is `Backed`: it was true when sent and cannot
become false. A leg that is `Spent` (finished, never heard of, empty or never sent) never sends its
entry; a leg that filled was filled; a leg that fell back to its rough stops stays there. `Ordered`,
that no proof request passes its attempt, is where the assumption behind `MayPass` enters: it makes
"no record" a proof. Results: `ConfirmedFilled`, `ActiveMatch` and `NothingToSend` (no cell still has
the entry of an attempt to send that its peer finished as empty).

**PairCellExposure_proofs** (hypothesis `Fills = {}`: MT5 executes or refuses a market order at once):
`NothingAbandoned`, `TerminalForBoth` and `OneAtATime`, from `ExposureInvariant`. It adds what the
accounts hold: a position belongs to the attempt at work or the one a restart would load, and if its leg
is still pending, the journal knows that the send may have begun (`Remembered`); a refused entry left
nothing (`Refused`); and a position that a snapshot did not show is not there (`SeenAll`). The
hypothesis is not a convenience: `SeenAll` is false for resting orders (`v_snapshot`) and `Refused`
for partial fills (`v_terminal`), and the results are false with them.

**CertificateRotation_proofs** (`RotationAssumption`): `RotationTyped`, `IdentityKeySafe`,
`SupersededKeysKnown`, `JournalAgrees`, `NoOtherLockout` and the action property `StaleNeverCommits`: the
ledger's key changes only for a process that works with the identity on disk, however often a process
with a superseded key asks. None is inductive alone. `RotationInv` adds that keys are numbered by
creation and the replacement of an unfinished rotation was never the identity (`KeysInv`); that a journal
exists only after the controller's commit, names the ledger's key until it is removed and, in its two
keys, both the identity on disk and the one of the process (`JournalInv`); that a process with a
superseded key cannot prove the ledger's, and a request that can still be committed was made by one that
is not superseded (`StaleInv`); what has been written at each point (`PointInv`); and that without a
strike the identity is the ledger's key except between the controller's commit and the saved identity
(`LockInv`).

**RouteLedger_proofs** (`LedgerAssumption`): `LedgerTyped`, `OneRoutePerWorker`, `ClaimsStayBacked`,
`AssertionsStayBound`, `OneActive` and the action property `SafeEnd`. The inductive invariant
`LedgerInv` joins the first three properties with the types and with `RouteIdsIssued` (a route_id names
one route and was issued before); that one Worker per account is active is inductive by itself.

**PairRoutes_proofs**: `PairingImplementsLedger` (`Spec => LedgerSpec`): every step of the service, the
Workers, the network and the administrator is one ledger transaction or leaves the ledger alone, and
with it all of the ledger's theorems hold end to end (`PairedOnce`, `ClaimsSurviveFaults`,
`NoStaleAssertion`, `OneActiveWorker`, `RoutesEnd`).

Then `PairingTyped`, from `RuntimeInv`, and the safe unpair, `UnpairKeepsAttempts` (a route is never
removed while one of its Workers has an attempt, unless an UNPAIRING was cancelled or a Worker
deleted). `UnpairedIsIdle` speaks of the moment after the removal, whereas the route is removed by
an assertion that may have been sent long before, so the invariant is about what is under way.
`UnpairInv` says of each Worker (`Knows`):

- an assertion, under way or recorded, is of a `Settled` Worker (its copy says UNPAIRING, it is idle,
  and no news under way could make it ACTIVE again) or of a route that is gone (`AssertedSettled`);
- the copy and the news fit the ledger (`NewsFit`), and an UNPAIRING is not followed by an ACTIVE of
  the same route (`NewsInOrder`, `CopyInOrder`; only a push overtaken by a reply is excepted, and
  the Worker serves it before it asserts or starts anything);
- a route that is gone is not offered to a Worker that has dropped it (`OffersKnown`), and nothing
  offers it behind the news of its end (`RemovalLast`, `ReplyLast`, `AbsenceLast`), since adopting it
  again would let the Worker trade on a route that does not exist;
- a Worker with an attempt has a route (`BusyRouted`).

What an UNPAIRING promises is given up once one was cancelled (`excused`, in `Stale` and `Settled`);
what concerns routes that are gone stays, unless a session broke as well, since `BudgetInv` needs it.

Each action is first shown to be one of three kinds: the service only sends what is true when it is
sent (`Sends`), a Worker turns to a message as its guards allow (`Turns`), or it acts by itself
(`Moves`); the invariant is then preserved by kind.

Last `BudgetsKept`: until a session breaks, an administrator acts or a reservation crosses an earlier
negotiation, no Worker fails closed. A Worker fails closed when it adopts a route without the budget
of that pairing, and by then the negotiation is over; the invariant has to follow it from the
proposal on, through the ledger, both budgets and the four queues. `BudgetInv` says of each Worker
(`Deals`), on top of `RuntimeInv` and `UnpairInv`:

- a Worker without a session has not begun, and leaders and followers negotiate in different messages
  (`Attached`, `Sides`);
- a leader's request or its result is alone under way and belongs to the leader's present step
  (`InStep`), nothing of a sync is left when it proposes (`SyncsFirst`), and a notice that a pairing
  ended finds it waiting for it, or in front of everything else (`EndedLast`);
- a leader in a reservation or a route without a copy of it (`LeaderBound`, `Proposes`) has frozen the
  budget, or will when it serves the proposal's result, which comes before the route's
  announcement, and no news under way closes the pairing;
- a follower is asked one thing at a time and not while routed (`OneQuestion`); in a reservation it has
  yet to serve the proposal, behind every refusal under way, or its decision is under way (`Asked`);
  an accepted one, and any route, has its budget frozen and nothing under way that would discard it
  (`FollowerBound`, `Accepts`).

The service's steps are `Attends`: one message is taken and only news that are `Due` are sent. A
Worker's steps are `Goes`: one message is taken, some are sent, the others and the ledger are left
alone. `crossed` is needed for `Asked`: a second question would otherwise stand before the refusal
of the first. `PastGrace` is what makes a sync that ends a pairing (`Closes`) one that was answered
when nothing was reserved or under decision. BudgetInv was checked with TLC on four instances,
one of them with two active leaders and three proposals, before it was proved.

Assumptions: `LedgerAssumption`, and `PairRoutesAssumption` (no Worker is named "none", the word for
the absence of one).

Only model-checked is liveness: `ContainmentCompletes`, `EmergencyServed`, `SupersededProcessEnds`,
`CertificateReplaced`, `RetiredKeysDeleted` (the prover has no support for fairness). Every invariant and action property of
the passing runs is proved.

Where orders rest or fill in part, the three exposure results do not hold (runs `v_snapshot`,
`v_terminal`), and nothing is proved in their place.

## 5. Plan

Done: EffectLifecycle, EffectJournal, PairCell, RpcScheduler, CertificateRotation, RouteLedger,
PairRoutes, with the proofs above. Next, in this order:

1. `PairAttempt`: the abstract attempt (both legs entered, confirmed, contained, finished) that
   PairCell implements; the step lemmas `Routine`, `Working` and `Adopts` describe its steps already.
2. The relay outbox with the session flags as a module of its own, to check what `MayPass` takes
   from the pump; reseed, rediscovery, quarantine and cooldown of the cell; permission polling;
   invites and enrolment of the ledger.

## 6. Not modelled

Decimal sizing, protection prices, ranking and discovery statistics (computation over market data
with no interleaving); key stores, cryptography, Wine marshalling, command lines, console, backup
and deployment (I/O); the audit log, admin sessions and pages of the ledger; `web/` (presentation
of the ledger's rows), `scripts/`, `prototypes/`.

`.github/skills/impeccable` is a vendored third-party design tool for coding assistants, written in
JavaScript. It is most of the repository's lines and no part of abt, so no module models it.
