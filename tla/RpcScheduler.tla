--------------------------- MODULE RpcScheduler ---------------------------
(***************************************************************************)
(* The scheduler through which every MT5 call of a Worker goes             *)
(* (src/abt/worker/scheduler.py), together with the callers that take its  *)
(* items to the broker: _run_broker_write of the Pair Execution Cell and   *)
(* _dispatch_scheduled_trader_rpc of the Worker.                           *)
(*                                                                         *)
(* A command is admitted, waits in the queue of its priority, becomes the  *)
(* one active item, passes a last check, is marked in the effect journal,  *)
(* calls MT5 and is completed with an outcome that is remembered for       *)
(* repeated deliveries.  Time passes and the process may stop between any  *)
(* two of these steps.                                                     *)
(* All of it is in memory: the outcomes of long ago are dropped, and a     *)
(* crash forgets everything.  The effect journal is not forgotten; of it   *)
(* the module keeps what decides whether a command may be sent.  A durable *)
(* request is a write with an effect ID; the others are reads.             *)
(***************************************************************************)
EXTENDS Naturals, Sequences, FiniteSets

CONSTANTS
    Requests,  \* the requests that may be delivered, any number of times
    Capacity,  \* of the queues together, and of the remembered outcomes
    MaxNow     \* bound on the clock

Priorities == {"emergency", "execution", "protection", "normal", "background"}

\* Smaller ranks go first.
Rank == [emergency |-> 1, execution |-> 2, protection |-> 3, normal |-> 4, background |-> 5]

Never == MaxNow + 1

ASSUME SchedulerAssumption ==
    /\ Capacity \in Nat \ {0} /\ MaxNow \in Nat
    /\ \A r \in Requests :
          /\ r.priority \in Priorities
          /\ r.expires \in 0..Never
          /\ r.durable \in BOOLEAN
          /\ r.priority = "background" => ~r.durable

Commands == {r.command : r \in Requests}

Categories == {"completed", "unknown_after_send", "rejected_worker_state",
               "rejected_preflight", "expired_not_started"}

\* Outcomes that say MT5 was not called.
NotStartedCategories == {"rejected_worker_state", "rejected_preflight", "expired_not_started"}

\* How far its caller has taken the active item.
Steps == {"taken", "checked", "marked", "called"}

VARIABLES
    queues,     \* per priority: the waiting items, oldest first
    active,     \* the item taken by next(), or NoItem
    step,       \* where the caller is with it
    known,      \* per command: unknown, at work or its remembered outcome
    completed,  \* the commands with a remembered outcome, oldest first
    frozen, now,
    journal,    \* per command: the state of its effect
    sends       \* history: how often MT5 was called for it

memory == <<queues, active, step, known, completed>>
vars == <<memory, frozen, now, journal, sends>>

\* A scheduled item: the request it was made for, the commands it answers and
\* whether mt5_action_started_at is in its telemetry.
Items == [request : Requests, commands : Seq(Commands), started : BOOLEAN]

NoRequest == [command |-> "none", payload |-> "none", priority |-> "none",
              expires |-> Never, durable |-> FALSE]

NoItem == [request |-> NoRequest, commands |-> <<>>, started |-> FALSE]

Forgotten == [at |-> "none", category |-> "none", started |-> FALSE]

AtWork == [at |-> "work", category |-> "none", started |-> FALSE]

Entries ==
    {Forgotten, AtWork} \cup [at : {"outcome"}, category : Categories, started : BOOLEAN]

EffectStates == {"none", "prepared", "send_started", "receipt", "observed"}

TypeOK ==
    /\ queues \in [Priorities -> Seq(Items)]
    /\ active \in Items \cup {NoItem} /\ step \in Steps
    /\ known \in [Commands -> Entries]
    /\ completed \in Seq(Commands)
    /\ frozen \in BOOLEAN /\ now \in 0..MaxNow
    /\ journal \in [Commands -> EffectStates]
    /\ sends \in [Commands -> Nat]

Init ==
    /\ queues = [p \in Priorities |-> <<>>]
    /\ active = NoItem /\ step = "taken"
    /\ known = [c \in Commands |-> Forgotten]
    /\ completed = <<>>
    /\ frozen = FALSE /\ now = 0
    /\ journal = [c \in Commands |-> "none"]
    /\ sends = [c \in Commands |-> 0]

-----------------------------------------------------------------------------
(* Helpers                                                                 *)

Elements(s) == {s[i] : i \in DOMAIN s}

\* The waiting items, by priority and place.
Places == UNION {{<<p, i>> : i \in DOMAIN queues[p]} : p \in Priorities}

Waiting == {queues[x[1]][x[2]] : x \in Places}

queued_count == Cardinality(Places)

Expired(r) == r.expires # Never /\ now >= r.expires

Ordinary(r) == r.priority # "emergency"

\* move_to_end() of commands that may have been remembered before: the others
\* keep their order.
Without(commands) ==
    IF Elements(completed) \cap Elements(commands) = {} THEN completed
    ELSE SelectSeq(completed, LAMBDA c : c \notin Elements(commands))

\* Fault: one outcome too many is kept.
Latest_OneMore(commands) ==
    LET all == Without(commands) \o commands
    IN IF Len(all) <= Capacity + 1 THEN all ELSE SubSeq(all, Len(all) - Capacity, Len(all))

\* _remember() for each of the commands: they become the latest, and the oldest
\* beyond the capacity are forgotten.
Latest(commands) ==
    LET all == Without(commands) \o commands
    IN IF Len(all) <= Capacity THEN all ELSE SubSeq(all, Len(all) - Capacity + 1, Len(all))

Remember(commands, category, started) ==
    /\ completed' = Latest(commands)
    /\ known' = [c \in Commands |->
          IF c \in Elements(commands) /\ c \in Elements(completed')
          THEN [at |-> "outcome", category |-> category, started |-> started]
          ELSE IF c \in Elements(commands) \cup Elements(completed) /\ c \notin Elements(completed')
               THEN Forgotten
               ELSE known[c]]

\* Fault: only the request that was scheduled gets the outcome.
Complete_FirstOnly(item, category) ==
    /\ Remember(<<Head(item.commands)>>, category, item.started)
    /\ active' = IF active = item THEN NoItem ELSE active
    /\ step' = IF active = item THEN "taken" ELSE step

\* _complete() of an item that has just left its queue, or of the active one.
Complete(item, category) ==
    /\ Remember(item.commands, category, item.started)
    /\ active' = IF active = item THEN NoItem ELSE active
    /\ step' = IF active = item THEN "taken" ELSE step

\* _not_started() of the cell: an effect that is still open is resolved.  (An
\* item drained by another caller leaves its effect as it is.)
NotStarted(c) ==
    journal' = IF journal[c] \in {"prepared", "send_started"}
               THEN [journal EXCEPT ![c] = "observed"] ELSE journal

\* The journal knows of a write before the scheduler does.
Prepare(r) ==
    journal' = IF r.durable /\ journal[r.command] = "none"
               THEN [journal EXCEPT ![r.command] = "prepared"] ELSE journal

\* The outcome of a refused command, and what its caller makes of it.
Refuse(r, category) ==
    /\ Remember(<<r.command>>, category, FALSE)
    /\ IF r.durable
       THEN journal' = [journal EXCEPT ![r.command] =
                           IF @ \in {"none", "prepared", "send_started"} THEN "observed" ELSE @]
       ELSE UNCHANGED journal
    /\ UNCHANGED <<queues, active, step, frozen, now, sends>>

-----------------------------------------------------------------------------
(* admit().  A command that is at work, or known with another payload, is  *)
(* answered without any effect.                                            *)

\* Fault: only a remembered outcome stops a repeated command.
New_IgnoresWork(r) == known[r.command].at # "outcome"

New(r) == known[r.command].at = "none"

AdmitFrozen(r) ==
    /\ New(r) /\ frozen /\ Ordinary(r)
    /\ Refuse(r, "rejected_worker_state")

Admissible(r) == New(r) /\ ~(frozen /\ Ordinary(r))

AdmitExpired(r) ==
    /\ Admissible(r) /\ Expired(r) /\ ~r.durable
    /\ Refuse(r, "expired_not_started")

InTime(r) == Admissible(r) /\ (Expired(r) => r.durable)

\* A waiting background item with the same payload, the oldest first.
Equivalents(r) ==
    {i \in DOMAIN queues["background"] :
        r.priority = "background" /\ queues["background"][i].request.payload = r.payload}

\* A background request joins it.
Coalesce(r) ==
    /\ InTime(r) /\ Equivalents(r) # {}
    /\ LET i == CHOOSE i \in Equivalents(r) : \A j \in Equivalents(r) : i <= j
       IN queues' = [queues EXCEPT !["background"][i].commands = Append(@, r.command)]
    /\ known' = [known EXCEPT ![r.command] = AtWork]
    /\ UNCHANGED <<active, step, completed, frozen, now, journal, sends>>

AdmitFull(r) ==
    /\ InTime(r) /\ Equivalents(r) = {} /\ queued_count >= Capacity
    /\ Refuse(r, "rejected_preflight")

Enqueue(r) ==
    /\ InTime(r) /\ Equivalents(r) = {} /\ queued_count < Capacity
    /\ queues' = [queues EXCEPT ![r.priority] =
          Append(@, [request |-> r, commands |-> <<r.command>>, started |-> FALSE])]
    /\ known' = [known EXCEPT ![r.command] = AtWork]
    /\ Prepare(r)
    /\ UNCHANGED <<active, step, completed, frozen, now, sends>>

\* A repeated effect is answered from memory; the cell takes that for proof
\* that nothing was sent.
Replayed(r) ==
    /\ known[r.command].at = "outcome" /\ r.durable
    /\ NotStarted(r.command)
    /\ UNCHANGED <<memory, frozen, now, sends>>

-----------------------------------------------------------------------------
(* next()                                                                  *)

\* Fault: the lowest priority goes first.
First_Reversed(p) ==
    /\ active = NoItem
    /\ queues[p] # <<>>
    /\ \A q \in Priorities : Rank[q] > Rank[p] => queues[q] = <<>>

\* The oldest item of the highest priority.
First(p) ==
    /\ active = NoItem
    /\ queues[p] # <<>>
    /\ \A q \in Priorities : Rank[q] < Rank[p] => queues[q] = <<>>

Dequeue(p) == queues' = [queues EXCEPT ![p] = Tail(@)]

NextExpired(p) ==
    /\ First(p) /\ Expired(Head(queues[p]).request) /\ ~Head(queues[p]).request.durable
    /\ Dequeue(p)
    /\ Complete(Head(queues[p]), "expired_not_started")
    /\ UNCHANGED <<frozen, now, journal, sends>>

NextFrozen(p) ==
    /\ First(p) /\ (Expired(Head(queues[p]).request) => Head(queues[p]).request.durable)
    /\ frozen /\ Ordinary(Head(queues[p]).request)
    /\ Dequeue(p)
    /\ Complete(Head(queues[p]), "rejected_worker_state")
    /\ NotStarted(Head(queues[p]).request.command) \/ UNCHANGED journal
    /\ UNCHANGED <<frozen, now, sends>>

NextActive(p) ==
    /\ First(p) /\ (Expired(Head(queues[p]).request) => Head(queues[p]).request.durable)
    /\ ~(frozen /\ Ordinary(Head(queues[p]).request))
    /\ Dequeue(p)
    /\ active' = Head(queues[p])
    /\ UNCHANGED <<step, known, completed, frozen, now, journal, sends>>

-----------------------------------------------------------------------------
(* The active item                                                         *)

Unstarted == active # NoItem /\ ~active.started

ReadDone ==
    /\ Unstarted /\ ~active.request.durable
    /\ Complete(active, "completed")
    /\ UNCHANGED <<queues, frozen, now, journal, sends>>

\* An item no handler can serve, a payload it refuses, or an effect resolved by
\* an observation, which has no return code to answer from.
Unservable ==
    /\ Unstarted
    /\ Complete(active, "rejected_preflight")
    /\ UNCHANGED <<queues, frozen, now, journal, sends>>

Writing == Unstarted /\ active.request.durable

\* The Worker serves an item of the cell: an effect whose receipt is in the
\* journal is answered from it ...
FromEvidence ==
    /\ Writing /\ journal[active.request.command] = "receipt"
    /\ Complete(active, "completed")
    /\ UNCHANGED <<queues, frozen, now, journal, sends>>

\* ... and one that may have been sent is uncertain (BrokerEffectUncertain).
EffectUncertain ==
    /\ Writing /\ journal[active.request.command] = "send_started"
    /\ Complete(active, "unknown_after_send")
    /\ UNCHANGED <<queues, frozen, now, journal, sends>>

\* Fault: a category the protocol does not have.
SendRefused_Unknown(category) ==
    /\ Writing /\ frozen /\ Ordinary(active.request)
    /\ Complete(active, "frozen")
    /\ UNCHANGED <<queues, frozen, now, journal, sends>>

\* _before_broker_send(): the last check refuses the write ...
SendRefused(category) ==
    /\ Writing
    /\ \/ frozen /\ Ordinary(active.request) /\ category = "rejected_worker_state"
       \/ /\ ~(frozen /\ Ordinary(active.request))
          /\ Expired(active.request) /\ category = "expired_not_started"
    /\ Complete(active, category)
    /\ NotStarted(active.request.command) \/ UNCHANGED journal
    /\ UNCHANGED <<queues, frozen, now, sends>>

\* ... or notes that the MT5 action starts.
SendChecked ==
    /\ Writing /\ ~(frozen /\ Ordinary(active.request)) /\ ~Expired(active.request)
    /\ active' = [active EXCEPT !.started = TRUE]
    /\ step' = "checked"
    /\ UNCHANGED <<queues, known, completed, frozen, now, journal, sends>>

\* Fault: the boundary is not asked of the journal.
MarkSendStarted_Unasked ==
    /\ step = "checked"
    /\ journal' = [journal EXCEPT ![active.request.command] = "send_started"]
    /\ step' = "marked"
    /\ UNCHANGED <<queues, active, known, completed, frozen, now, sends>>

\* mark_send_started() commits the boundary before the call ...
MarkSendStarted ==
    /\ step = "checked" /\ journal[active.request.command] = "prepared"
    /\ journal' = [journal EXCEPT ![active.request.command] = "send_started"]
    /\ step' = "marked"
    /\ UNCHANGED <<queues, active, known, completed, frozen, now, sends>>

\* ... or refuses an effect that has been sent or resolved before.
MarkRefused ==
    /\ step = "checked" /\ journal[active.request.command] # "prepared"
    /\ Complete(active, "unknown_after_send")
    /\ UNCHANGED <<queues, frozen, now, journal, sends>>

\* order_send()
OrderSend ==
    /\ step = "marked"
    /\ sends' = [sends EXCEPT ![active.request.command] = @ + 1]
    /\ step' = "called"
    /\ UNCHANGED <<queues, active, known, completed, frozen, now, journal>>

\* The receipt is recorded.
ReceiptKept ==
    /\ step = "called"
    /\ Complete(active, "completed")
    /\ journal' = [journal EXCEPT ![active.request.command] = "receipt"]
    /\ UNCHANGED <<queues, frozen, now, sends>>

\* Fault: an error after the boundary is reported like one before it.
ReceiptLost_Preflight ==
    /\ step = "called"
    /\ Complete(active, "rejected_preflight")
    /\ UNCHANGED <<queues, frozen, now, journal, sends>>

\* MT5 raised, returned nothing usable, or the journal refused the receipt.
ReceiptLost ==
    /\ step = "called"
    /\ Complete(active, "unknown_after_send")
    /\ UNCHANGED <<queues, frozen, now, journal, sends>>

-----------------------------------------------------------------------------
Freeze ==
    /\ ~frozen
    /\ frozen' = TRUE
    /\ UNCHANGED <<memory, now, journal, sends>>

Release ==
    /\ frozen
    /\ frozen' = FALSE
    /\ UNCHANGED <<memory, now, journal, sends>>

Tick ==
    /\ now < MaxNow
    /\ now' = now + 1
    /\ UNCHANGED <<memory, frozen, journal, sends>>

\* The process is restarted: only the journal remains.
Crash ==
    /\ queues' = [p \in Priorities |-> <<>>]
    /\ active' = NoItem /\ step' = "taken"
    /\ known' = [c \in Commands |-> Forgotten]
    /\ completed' = <<>>
    /\ frozen' = FALSE
    /\ UNCHANGED <<now, journal, sends>>

Admit ==
    \E r \in Requests :
        \/ AdmitFrozen(r) \/ AdmitExpired(r) \/ Coalesce(r) \/ AdmitFull(r) \/ Enqueue(r)
        \/ Replayed(r)

Take == \E p \in Priorities : NextExpired(p) \/ NextFrozen(p) \/ NextActive(p)

Serve ==
    \/ ReadDone \/ Unservable \/ FromEvidence \/ EffectUncertain
    \/ SendChecked \/ MarkSendStarted \/ MarkRefused \/ OrderSend \/ ReceiptKept \/ ReceiptLost
    \/ \E category \in NotStartedCategories : SendRefused(category)

Next == Admit \/ Take \/ Serve \/ Freeze \/ Release \/ Tick \/ Crash

Spec == Init /\ [][Next]_vars

\* The callers drain the queue and complete what they took.
FairSpec == Spec /\ WF_vars(Take) /\ WF_vars(Serve)

-----------------------------------------------------------------------------
(* Properties                                                              *)

\* The commands an item answers, wherever the item is.
AtWorkCommands ==
    UNION {Elements(item.commands) : item \in Waiting \cup {active}}

\* "Every item dequeued from the Worker's shared scheduler is terminalized
\* exactly once" (ADR 0010): a command is at work exactly as long as some
\* waiting or active item will answer it, and its outcome is remembered from
\* then on until it is forgotten; no command is lost by coalescing, by the
\* expiry of its item or by the bounded memory.
EveryCommandAccounted ==
    /\ {c \in Commands : known[c].at = "work"} = AtWorkCommands
    /\ {c \in Commands : known[c].at = "outcome"} = Elements(completed)

\* One item answers a command: not two waiting ones, nor a waiting and the
\* active one, through any repeated delivery.
OneItemPerCommand ==
    \A x \in Places :
        LET mine == Elements(queues[x[1]][x[2]].commands)
        IN /\ mine \cap Elements(active.commands) = {}
           /\ \A y \in Places \ {x} : mine \cap Elements(queues[y[1]][y[2]].commands) = {}

\* The queues and the memory of outcomes stay within the capacity, although
\* coalesced and refused commands bypass the check of the queue.
Bounded == queued_count <= Capacity /\ Len(completed) <= Capacity

\* MT5 is called at most once per effect, although the scheduler forgets old
\* outcomes and loses all of them in a crash, also between the last check, the
\* mark and the call: the journal decides.
SentAtMostOnce == \A c \in Commands : sends[c] <= 1

\* An outcome that denies the MT5 call is only remembered for an item whose
\* call had not begun, whatever froze or expired after the last check.
NotStartedIsTrue ==
    \A c \in Commands :
        known[c].category \in NotStartedCategories => ~known[c].started

\* Emergency work never starves: it is taken before everything else and in the
\* order of its arrival, and nothing that is active stays so.
EmergencyServed ==
    \A c \in Commands :
        (\E i \in DOMAIN queues["emergency"] : c \in Elements(queues["emergency"][i].commands))
            ~> (known[c].at # "work")

=============================================================================
