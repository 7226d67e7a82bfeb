------------------------ MODULE RpcScheduler_proofs ------------------------
(***************************************************************************)
(* What the scheduler and its callers guarantee about MT5 calls, for any   *)
(* requests, any capacity and any length of time.                          *)
(***************************************************************************)
EXTENDS RpcScheduler, FiniteSetTheorems, WellFoundedInduction, TLAPS

\* An effect that has not been sent is none or prepared in the journal, which
\* never returns to these states, or is marked and about to be called by the
\* one active item: neither the bounded memory of outcomes nor a crash can open
\* a second send.
OnceInv ==
    /\ journal \in [Commands -> EffectStates]
    /\ sends \in [Commands -> Nat]
    /\ \A c \in Commands : sends[c] <= 1
    /\ \A c \in Commands : journal[c] \in {"none", "prepared"} => sends[c] = 0
    /\ step \in Steps
    /\ active = NoItem => step = "taken"
    /\ step = "marked" => \A c \in Commands : c = active.request.command =>
          journal[c] \notin {"none", "prepared"} /\ sends[c] = 0

\* The caller stays where it is, or is not about to call.
Stays ==
    /\ step' \in Steps
    /\ active' = NoItem => step' = "taken"
    /\ step' = "marked" => UNCHANGED <<active, step>>

\* The callers' operations that leave both the journal and the history alone.
LEMMA Silent ==
    ASSUME OnceInv, UNCHANGED <<journal, sends>>, Stays
    PROVE  OnceInv'
  BY DEF OnceInv, Stays

\* An effect is resolved, or prepared before its first send.
LEMMA Resolved ==
    ASSUME OnceInv, NEW c, UNCHANGED sends, Stays,
           \/ UNCHANGED journal
           \/ \E s \in EffectStates \ {"none", "prepared"} : journal' = [journal EXCEPT ![c] = s]
           \/ journal[c] = "none" /\ journal' = [journal EXCEPT ![c] = "prepared"]
    PROVE  OnceInv'
<1>1. ASSUME step' = "marked", NEW d \in Commands, d = active'.request.command
      PROVE  journal'[d] \notin {"none", "prepared"} /\ sends'[d] = 0
  BY <1>1 DEF OnceInv, Stays, EffectStates
<1>2. /\ journal' \in [Commands -> EffectStates] /\ sends' \in [Commands -> Nat]
      /\ \A d \in Commands : sends'[d] <= 1
      /\ \A d \in Commands : journal'[d] \in {"none", "prepared"} => sends'[d] = 0
  BY DEF OnceInv, EffectStates
<1> QED
  BY <1>1, <1>2 DEF OnceInv, Stays

\* A completed item is the active one no longer.
LEMMA CompleteStays ==
    ASSUME OnceInv, NEW item, NEW category, Complete(item, category)
    PROVE  Stays
  BY DEF Complete, Stays, OnceInv, Steps

\* No step leads to a second call.
LEMMA OnceStep == OnceInv /\ [Next]_vars => OnceInv'
<1> SUFFICES ASSUME OnceInv, [Next]_vars PROVE OnceInv'
  OBVIOUS
<1>s. UNCHANGED <<active, step>> => Stays
  BY DEF Stays, OnceInv
<1>1. ASSUME NEW r \in Requests, NEW category, Refuse(r, category) PROVE OnceInv'
  <2>1. r.command \in Commands
    BY DEF Commands
  <2>2. \/ UNCHANGED journal
        \/ journal' = [journal EXCEPT ![r.command] = "observed"]
    BY <1>1, <2>1 DEF Refuse, OnceInv
  <2> QED
    BY <1>1, <1>s, <2>2, Resolved DEF Refuse, EffectStates
<1>2. ASSUME NEW r \in Requests, AdmitFrozen(r) \/ AdmitExpired(r) \/ AdmitFull(r) PROVE OnceInv'
  BY <1>1, <1>2 DEF AdmitFrozen, AdmitExpired, AdmitFull
<1>3. ASSUME NEW r \in Requests, Coalesce(r) PROVE OnceInv'
  BY <1>3, <1>s, Silent DEF Coalesce
<1>4. ASSUME NEW r \in Requests, Enqueue(r) PROVE OnceInv'
  BY <1>4, <1>s, Resolved DEF Enqueue, Prepare
<1>5. ASSUME NEW c, NotStarted(c) \/ UNCHANGED journal, UNCHANGED sends, Stays PROVE OnceInv'
  BY <1>5, Resolved DEF NotStarted, EffectStates
<1>6. ASSUME NEW r \in Requests, Replayed(r) PROVE OnceInv'
  BY <1>5, <1>6, <1>s DEF Replayed, memory
<1>7. ASSUME NEW p \in Priorities, NextExpired(p) \/ NextFrozen(p) \/ NextActive(p) PROVE OnceInv'
  <2>1. CASE NextExpired(p)
    BY <2>1, Silent, CompleteStays DEF NextExpired
  <2>2. CASE NextFrozen(p)
    BY <2>2, <1>5, CompleteStays DEF NextFrozen
  <2>3. CASE NextActive(p)
    <3>1. step = "taken" /\ step' = step
      BY <2>3 DEF NextActive, First, OnceInv
    <3> QED
      BY <2>3, <3>1, Silent DEF NextActive, Stays, Steps
  <2> QED
    BY <1>7, <2>1, <2>2, <2>3
<1>8. CASE ReadDone \/ Unservable \/ FromEvidence \/ EffectUncertain \/ MarkRefused \/ ReceiptLost
  <2>1. UNCHANGED <<journal, sends>> /\ \E category : Complete(active, category)
    BY <1>8 DEF ReadDone, Unservable, FromEvidence, EffectUncertain, MarkRefused, ReceiptLost
  <2> QED
    BY <2>1, Silent, CompleteStays
<1>9. ASSUME NEW category, SendRefused(category) PROVE OnceInv'
  BY <1>5, <1>9, CompleteStays DEF SendRefused
<1>10. CASE SendChecked
  <2>1. active # NoItem
    BY <1>10 DEF SendChecked, Writing, Unstarted
  <2>2. active' # NoItem
    <3>1. active'.started = TRUE \/ active' = active
      BY <1>10 DEF SendChecked
    <3>2. NoItem.started = FALSE
      BY DEF NoItem
    <3> QED
      BY <2>1, <3>1, <3>2, Zenon
  <2> QED
    BY <1>10, <2>2, Silent DEF SendChecked, Stays, Steps
<1>11. CASE MarkSendStarted
  <2> DEFINE c == active.request.command
  <2>1. /\ journal[c] = "prepared" /\ journal' = [journal EXCEPT ![c] = "send_started"]
        /\ UNCHANGED <<active, sends>> /\ step' = "marked" /\ step = "checked"
    BY <1>11 DEF MarkSendStarted
  <2>2. active # NoItem
    BY <2>1 DEF OnceInv
  <2>3. active'.request.command = c
    BY <2>1
  <2> HIDE DEF c
  <2>4. journal' \in [Commands -> EffectStates]
    BY <2>1 DEF OnceInv, EffectStates
  <2>5. ASSUME NEW d \in Commands
        PROVE  /\ journal'[d] \in {"none", "prepared"} => sends'[d] = 0
               /\ d = c => journal'[d] \notin {"none", "prepared"} /\ sends'[d] = 0
    BY <2>1 DEF OnceInv
  <2> QED
    BY <2>1, <2>2, <2>3, <2>4, <2>5 DEF OnceInv, Steps
<1>12. CASE OrderSend
  <2> DEFINE c == active.request.command
  <2>1. /\ step = "marked" /\ step' = "called" /\ UNCHANGED <<active, journal>>
        /\ sends' = [sends EXCEPT ![c] = @ + 1]
    BY <1>12 DEF OrderSend
  <2>2. \A d \in Commands : d = c => journal[d] \notin {"none", "prepared"} /\ sends[d] = 0
    BY <2>1 DEF OnceInv
  <2> HIDE DEF c
  <2>3. ASSUME NEW d \in Commands
        PROVE  /\ sends'[d] \in Nat /\ sends'[d] <= 1
               /\ journal'[d] \in {"none", "prepared"} => sends'[d] = 0
    <3>1. CASE d = c
      BY <2>1, <2>2, <3>1 DEF OnceInv
    <3>2. CASE d # c
      BY <2>1, <3>2 DEF OnceInv
    <3> QED
      BY <3>1, <3>2
  <2>4. sends' \in [Commands -> Nat]
    <3>1. sends' = [d \in Commands |-> sends'[d]]
      BY <2>1 DEF OnceInv
    <3> QED
      BY <2>3, <3>1
  <2>5. active' # NoItem
    BY <2>1 DEF OnceInv
  <2> QED
    BY <2>1, <2>3, <2>4, <2>5 DEF OnceInv, Steps
<1>13. CASE ReceiptKept
  BY <1>13, Resolved, CompleteStays DEF ReceiptKept, EffectStates
<1>14. CASE Freeze \/ Release \/ Tick \/ UNCHANGED vars
  BY <1>14, <1>s, Silent DEF Freeze, Release, Tick, vars, memory
<1>15. CASE Crash
  BY <1>15, Silent DEF Crash, Stays, Steps
<1> QED
  BY <1>2, <1>3, <1>4, <1>6, <1>7, <1>8, <1>9, <1>10, <1>11, <1>12, <1>13, <1>14, <1>15
     DEF Next, Admit, Take, Serve

\* MT5 is called at most once for every effect.
THEOREM CalledOnce == Spec => []SentAtMostOnce
<1>1. Init => OnceInv
  BY DEF Init, OnceInv, EffectStates, Steps
<1>2. OnceInv => SentAtMostOnce
  BY DEF OnceInv, SentAtMostOnce
<1> QED
  BY <1>1, <1>2, OnceStep, PTL DEF Spec
----------------------------------------------------------------------------
(***************************************************************************)
(* Outcomes that deny the call.                                            *)
(***************************************************************************)

\* An item that no caller has begun.
IdleItems == [request : Requests, commands : Seq(Commands), started : {FALSE}]

\* Only the active item can have begun its call, and no remembered outcome
\* denies a call that had begun.
DenialInv ==
    /\ queues \in [Priorities -> Seq(IdleItems)]
    /\ active.started \in BOOLEAN
    /\ known \in [Commands -> Entries]
    /\ \A c \in Commands : known[c].category \in NotStartedCategories => known[c].started = FALSE

\* The oldest waiting item has not begun, and leaves a queue of such items.
LEMMA DequeueIdle ==
    ASSUME DenialInv, NEW p \in Priorities, queues[p] # <<>>, Dequeue(p)
    PROVE  Head(queues[p]) \in IdleItems /\ queues' \in [Priorities -> Seq(IdleItems)]
  BY DEF DenialInv, Dequeue

\* A waiting item that another command joins has not begun.
LEMMA JoinIdle ==
    ASSUME NEW item \in IdleItems, NEW c \in Commands
    PROVE  [item EXCEPT !.commands = Append(@, c)] \in IdleItems
<1>1. Append(item.commands, c) \in Seq(Commands)
  BY DEF IdleItems
<1>2. ASSUME NEW s \in Seq(Commands) PROVE [item EXCEPT !.commands = s] \in IdleItems
  BY DEF IdleItems
<1> QED
  BY <1>1, <1>2

\* Outcomes are remembered for what the item had done.
LEMMA RememberStep ==
    ASSUME DenialInv, NEW commands, NEW category \in Categories, NEW started \in BOOLEAN,
           category \in NotStartedCategories => started = FALSE,
           Remember(commands, category, started),
           queues' \in [Priorities -> Seq(IdleItems)],
           active'.started \in BOOLEAN
    PROVE  DenialInv'
<1>1. ASSUME NEW c \in Commands
      PROVE  /\ known'[c] \in Entries
             /\ known'[c].category \in NotStartedCategories => known'[c].started = FALSE
  <2>1. known'[c] \in {[at |-> "outcome", category |-> category, started |-> started], Forgotten, known[c]}
    BY DEF Remember
  <2>2. CASE known'[c] = [at |-> "outcome", category |-> category, started |-> started]
    BY <2>2 DEF Entries
  <2>3. CASE known'[c] = Forgotten
    BY <2>3 DEF Entries, Forgotten, NotStartedCategories
  <2>4. CASE known'[c] = known[c]
    BY <2>4 DEF DenialInv
  <2> QED
    BY <2>1, <2>2, <2>3, <2>4
<1>2. known' \in [Commands -> Entries]
  BY <1>1 DEF Remember
<1> QED
  BY <1>1, <1>2 DEF DenialInv

\* A command at work, which has no outcome yet.
LEMMA AtWorkStep ==
    ASSUME DenialInv, NEW c, known' = [known EXCEPT ![c] = AtWork], UNCHANGED active,
           queues' \in [Priorities -> Seq(IdleItems)]
    PROVE  DenialInv'
<1>1. AtWork \in Entries /\ AtWork.category \notin NotStartedCategories
  BY DEF AtWork, Entries, NotStartedCategories
<1>2. known' \in [Commands -> Entries]
  BY <1>1 DEF DenialInv
<1>3. ASSUME NEW d \in Commands, known'[d].category \in NotStartedCategories
      PROVE  known'[d].started = FALSE
  <2>1. d # c
    BY <1>1, <1>3 DEF DenialInv
  <2> QED
    BY <1>3, <2>1 DEF DenialInv
<1> QED
  BY <1>2, <1>3 DEF DenialInv

\* The active item is completed and its place is free.
LEMMA CompleteStep ==
    ASSUME DenialInv, NEW item, NEW category \in Categories, Complete(item, category),
           item.started \in BOOLEAN,
           category \in NotStartedCategories => item.started = FALSE,
           queues' \in [Priorities -> Seq(IdleItems)]
    PROVE  DenialInv'
<1>1. NoItem.started \in BOOLEAN
  BY DEF NoItem
<1>2. active'.started \in BOOLEAN
  <2>1. active' = NoItem \/ active' = active
    BY DEF Complete
  <2>2. active.started \in BOOLEAN
    BY DEF DenialInv
  <2> QED
    BY <1>1, <2>1, <2>2, Zenon
<1> QED
  BY <1>2, RememberStep DEF Complete

\* No step remembers a denial of a call that had begun.
LEMMA DenialStep == DenialInv /\ [Next]_vars => DenialInv'
<1> SUFFICES ASSUME DenialInv, [Next]_vars PROVE DenialInv'
  OBVIOUS
<1> USE SchedulerAssumption
<1>0. NotStartedCategories \subseteq Categories
  BY DEF NotStartedCategories, Categories
<1>k. queues \in [Priorities -> Seq(IdleItems)] /\ active.started \in BOOLEAN
  BY DEF DenialInv
<1>1. ASSUME NEW r \in Requests, AdmitFrozen(r) \/ AdmitExpired(r) \/ AdmitFull(r) PROVE DenialInv'
  <2>1. PICK category \in NotStartedCategories : Refuse(r, category)
    BY <1>1 DEF AdmitFrozen, AdmitExpired, AdmitFull, NotStartedCategories
  <2> QED
    BY <1>0, <1>k, <2>1, RememberStep DEF Refuse
<1>2. ASSUME NEW r \in Requests, Coalesce(r) PROVE DenialInv'
  <2>1. r.command \in Commands
    BY DEF Commands
  <2>2. PICK i : queues' = [queues EXCEPT !["background"][i].commands = Append(@, r.command)]
    BY <1>2 DEF Coalesce
  <2> DEFINE waiting == queues["background"]
             joined == [waiting[i] EXCEPT !.commands = Append(@, r.command)]
  <2>3. "background" \in Priorities /\ waiting \in Seq(IdleItems)
    BY <1>k DEF Priorities
  <2>4. queues' = [queues EXCEPT !["background"] = [waiting EXCEPT ![i] = joined]]
    BY <1>k, <2>2, <2>3
  <2>5. ASSUME i \in DOMAIN waiting PROVE joined \in IdleItems
    <3>1. waiting[i] \in IdleItems
      BY <2>3, <2>5
    <3> QED
      BY <2>1, <3>1, JoinIdle
  <2> HIDE DEF joined
  <2>7. [waiting EXCEPT ![i] = joined] \in Seq(IdleItems)
    <3>1. CASE i \in DOMAIN waiting
      BY <2>3, <2>5, <3>1
    <3>2. CASE i \notin DOMAIN waiting
      <4>1. [waiting EXCEPT ![i] = joined] = waiting
        BY <2>3, <3>2
      <4> QED
        BY <2>3, <4>1
    <3> QED
      BY <3>1, <3>2
  <2>8. queues' \in [Priorities -> Seq(IdleItems)]
    BY <1>k, <2>3, <2>4, <2>7
  <2> QED
    BY <1>2, <2>8, AtWorkStep DEF Coalesce
<1>3. ASSUME NEW r \in Requests, Enqueue(r) PROVE DenialInv'
  <2>1. r.command \in Commands
    BY DEF Commands
  <2>2. [request |-> r, commands |-> <<r.command>>, started |-> FALSE] \in IdleItems
    BY <2>1 DEF IdleItems
  <2>3. queues' \in [Priorities -> Seq(IdleItems)]
    BY <1>3, <1>k, <2>2 DEF Enqueue
  <2> QED
    BY <1>3, <2>3, AtWorkStep DEF Enqueue
<1>4. ASSUME NEW r \in Requests, Replayed(r) PROVE DenialInv'
  BY <1>4 DEF Replayed, memory, DenialInv
<1>5. ASSUME NEW p \in Priorities, NextExpired(p) \/ NextFrozen(p) \/ NextActive(p) PROVE DenialInv'
  <2>1. Head(queues[p]) \in IdleItems /\ queues' \in [Priorities -> Seq(IdleItems)]
    BY <1>5, DequeueIdle DEF NextExpired, NextFrozen, NextActive, First
  <2>2. Head(queues[p]).started = FALSE
    BY <2>1 DEF IdleItems
  <2>3. CASE NextExpired(p) \/ NextFrozen(p)
    <3>1. PICK category \in NotStartedCategories : Complete(Head(queues[p]), category)
      BY <2>3 DEF NextExpired, NextFrozen, NotStartedCategories
    <3> QED
      BY <1>0, <2>1, <2>2, <3>1, CompleteStep
  <2>4. CASE NextActive(p)
    <3>1. active'.started \in BOOLEAN
      BY <2>2, <2>4 DEF NextActive
    <3> QED
      BY <2>1, <2>4, <3>1 DEF NextActive, DenialInv
  <2> QED
    BY <1>5, <2>3, <2>4
<1>6. CASE ReadDone \/ Unservable \/ \E category \in NotStartedCategories : SendRefused(category)
  <2>1. PICK category \in Categories : Complete(active, category)
    BY <1>0, <1>6 DEF ReadDone, Unservable, SendRefused, Categories
  <2>2. active.started = FALSE
    BY <1>6, <1>k, Zenon DEF ReadDone, Unservable, SendRefused, Unstarted, Writing
  <2>3. UNCHANGED queues
    BY <1>6 DEF ReadDone, Unservable, SendRefused
  <2> QED
    BY <1>k, <2>1, <2>2, <2>3, CompleteStep
<1>7. CASE FromEvidence \/ EffectUncertain \/ MarkRefused \/ ReceiptKept \/ ReceiptLost
  <2>1. PICK category \in {"completed", "unknown_after_send"} : Complete(active, category)
    BY <1>7 DEF FromEvidence, EffectUncertain, MarkRefused, ReceiptKept, ReceiptLost
  <2>2. category \in Categories /\ category \notin NotStartedCategories
    BY <2>1 DEF Categories, NotStartedCategories
  <2>3. UNCHANGED queues
    BY <1>7 DEF FromEvidence, EffectUncertain, MarkRefused, ReceiptKept, ReceiptLost
  <2> QED
    BY <1>k, <2>1, <2>2, <2>3, CompleteStep
<1>8. CASE SendChecked \/ MarkSendStarted \/ OrderSend
  <2>1. UNCHANGED <<queues, known>>
    BY <1>8 DEF SendChecked, MarkSendStarted, OrderSend
  <2>2. active'.started = active.started \/ active'.started = TRUE
    <3>1. CASE SendChecked
      BY <3>1 DEF SendChecked
    <3>2. CASE MarkSendStarted \/ OrderSend
      BY <3>2 DEF MarkSendStarted, OrderSend
    <3> QED
      BY <1>8, <3>1, <3>2
  <2> QED
    BY <1>k, <2>1, <2>2, Zenon DEF DenialInv
<1>10. CASE Freeze \/ Release \/ Tick \/ UNCHANGED vars
  BY <1>10, Zenon DEF Freeze, Release, Tick, vars, memory, DenialInv
<1>11. CASE Crash
  <2>1. queues' \in [Priorities -> Seq(IdleItems)]
    BY <1>11 DEF Crash
  <2>2. active'.started \in BOOLEAN
    BY <1>11 DEF Crash, NoItem
  <2>3. known' = [c \in Commands |-> Forgotten]
    BY <1>11 DEF Crash
  <2>4. Forgotten \in Entries /\ Forgotten.category \notin NotStartedCategories
    BY DEF Forgotten, Entries, NotStartedCategories
  <2> QED
    BY <2>1, <2>2, <2>3, <2>4 DEF DenialInv
<1> QED
  BY <1>1, <1>2, <1>3, <1>4, <1>5, <1>6, <1>7, <1>8, <1>10, <1>11 DEF Next, Admit, Take, Serve

\* No remembered outcome denies an MT5 call that had begun, through every
\* coalescing, expiry, freeze, refusal and restart.
THEOREM DenialsAreTrue == Spec => []NotStartedIsTrue
<1>1. Init => DenialInv
  <2> SUFFICES ASSUME Init PROVE DenialInv
    OBVIOUS
  <2>1. Forgotten \in Entries /\ Forgotten.category \notin NotStartedCategories
    BY DEF Forgotten, Entries, NotStartedCategories
  <2>2. queues \in [Priorities -> Seq(IdleItems)] /\ active.started \in BOOLEAN
    BY DEF Init, NoItem
  <2>3. known = [c \in Commands |-> Forgotten]
    BY DEF Init
  <2> QED
    BY <2>1, <2>2, <2>3 DEF DenialInv
<1>2. DenialInv => NotStartedIsTrue
  <2> SUFFICES ASSUME DenialInv, NEW c \in Commands, known[c].category \in NotStartedCategories
               PROVE  ~known[c].started
    BY DEF NotStartedIsTrue
  <2>1. known[c].started = FALSE
    BY DEF DenialInv
  <2> QED
    BY <2>1
<1> QED
  BY <1>1, <1>2, DenialStep, PTL DEF Spec
----------------------------------------------------------------------------
(***************************************************************************)
(* Every command is accounted for.                                         *)
(***************************************************************************)

\* The waiting item at place i of queue p will answer c.
In(p, i, c) == i \in DOMAIN queues[p] /\ c \in Elements(queues[p][i].commands)

Queued(c) == \E p \in Priorities, i \in Nat : In(p, i, c)
Held(c) == Queued(c) \/ c \in Elements(active.commands)

\* A command at work is held by an item, which is waiting or active; one with
\* an outcome is remembered.
Accounted ==
    /\ \A c \in Commands : known[c].at = "work" <=> Held(c)
    /\ \A c \in Commands : known[c].at = "outcome" <=> c \in Elements(completed)

\* No two items hold the same command.
Single ==
    \A c \in Commands, p \in Priorities, i \in Nat : In(p, i, c) =>
        /\ c \notin Elements(active.commands)
        /\ \A q \in Priorities, j \in Nat : In(q, j, c) => q = p /\ j = i

\* The places of the queues, and the memory of outcomes, are limited.
Limited ==
    /\ IsFiniteSet(Places) /\ Cardinality(Places) <= Capacity
    /\ Len(completed) <= Capacity

WorkInv == TypeOK /\ DenialInv /\ OnceInv /\ Accounted /\ Single /\ Limited

\* The oldest outcomes are dropped, and no others.
LEMMA LatestFacts ==
    ASSUME completed \in Seq(Commands), NEW commands \in Seq(Commands),
           Elements(completed) \cap Elements(commands) = {}
    PROVE  /\ Latest(commands) \in Seq(Commands) /\ Len(Latest(commands)) <= Capacity
           /\ Elements(Latest(commands)) \subseteq Elements(completed) \cup Elements(commands)
<1> DEFINE all == completed \o commands
           n == Len(all)
<1>0. Capacity \in Nat \ {0}
  BY SchedulerAssumption
<1>1. /\ all \in Seq(Commands) /\ n = Len(completed) + Len(commands) /\ n \in Nat
      /\ Len(completed) \in Nat /\ Len(commands) \in Nat
  OBVIOUS
<1>2. Latest(commands) = IF n <= Capacity THEN all ELSE SubSeq(all, n - Capacity + 1, n)
  BY DEF Latest, Without
<1>3. Elements(all) \subseteq Elements(completed) \cup Elements(commands)
  <2>1. SUFFICES ASSUME NEW i \in DOMAIN all
                 PROVE  all[i] \in Elements(completed) \cup Elements(commands)
    BY DEF Elements
  <2>2. i \in 1 .. n
    BY <1>1
  <2>3. CASE i <= Len(completed)
    <3>1. all[i] = completed[i] /\ i \in DOMAIN completed
      BY <1>1, <2>2, <2>3
    <3> QED
      BY <3>1 DEF Elements
  <2>4. CASE i > Len(completed)
    <3>1. all[i] = commands[i - Len(completed)] /\ i - Len(completed) \in DOMAIN commands
      BY <1>1, <2>2, <2>4
    <3> QED
      BY <3>1 DEF Elements
  <2> QED
    BY <1>1, <2>2, <2>3, <2>4
<1> HIDE DEF all
<1>4. CASE n <= Capacity
  BY <1>1, <1>2, <1>3, <1>4
<1>5. CASE n > Capacity
  <2> DEFINE m == n - Capacity + 1
             t == SubSeq(all, m, n)
  <2>1. m \in 1 .. n
    BY <1>0, <1>1, <1>5
  <2>2. /\ t \in Seq(Commands) /\ Len(t) = Capacity
        /\ \A i \in 1 .. Capacity : t[i] = all[m + i - 1] /\ m + i - 1 \in 1 .. n
    BY <1>0, <1>1, <1>5, <2>1
  <2>3. Elements(t) \subseteq Elements(all)
    BY <1>0, <1>1, <2>2 DEF Elements
  <2>4. Latest(commands) = t
    BY <1>0, <1>1, <1>2, <1>5
  <2> QED
    BY <1>0, <1>3, <2>2, <2>3, <2>4
<1> QED
  BY <1>0, <1>1, <1>4, <1>5

\* Commands that get their outcome leave the work, and the rest stays.
LEMMA RememberFacts ==
    ASSUME TypeOK, Accounted, NEW commands \in Seq(Commands), NEW category, NEW started,
           Remember(commands, category, started),
           \A c \in Elements(commands) : known[c].at # "outcome"
    PROVE  /\ completed' \in Seq(Commands) /\ Len(completed') <= Capacity
           /\ \A c \in Commands :
                 /\ known'[c].at = "outcome" <=> c \in Elements(completed')
                 /\ known'[c].at = "work" <=> known[c].at = "work" /\ c \notin Elements(commands)
<1>1. /\ completed \in Seq(Commands) /\ Elements(commands) \subseteq Commands
      /\ Elements(completed) \subseteq Commands
  BY DEF TypeOK, Elements
<1>2. Elements(completed) \cap Elements(commands) = {}
  BY <1>1 DEF Accounted
<1>3. /\ completed' \in Seq(Commands) /\ Len(completed') <= Capacity
      /\ Elements(completed') \subseteq Elements(completed) \cup Elements(commands)
  <2>1. completed' = Latest(commands)
    BY DEF Remember
  <2> QED
    BY <1>1, <1>2, <2>1, LatestFacts
<1>4. ASSUME NEW c \in Commands
      PROVE  /\ known'[c].at = "outcome" <=> c \in Elements(completed')
             /\ known'[c].at = "work" <=> known[c].at = "work" /\ c \notin Elements(commands)
  <2>1. known'[c] = IF c \in Elements(commands) /\ c \in Elements(completed')
                    THEN [at |-> "outcome", category |-> category, started |-> started]
                    ELSE IF c \in Elements(commands) \cup Elements(completed) /\ c \notin Elements(completed')
                         THEN Forgotten
                         ELSE known[c]
    BY DEF Remember
  <2>2. [at |-> "outcome", category |-> category, started |-> started].at = "outcome" /\ Forgotten.at = "none"
    BY DEF Forgotten
  <2>3. known[c].at = "outcome" <=> c \in Elements(completed)
    BY DEF Accounted
  <2>4. CASE c \in Elements(commands)
    BY <1>2, <2>1, <2>2, <2>4
  <2>5. CASE c \notin Elements(commands)
    BY <1>3, <2>1, <2>2, <2>3, <2>5
  <2> QED
    BY <2>4, <2>5
<1> QED
  BY <1>3, <1>4

\* The item at place i0 of queue p0 is to answer c as well.
Joins(c, p0, i0) ==
    \A p \in Priorities, i \in Nat, d \in Commands :
        In(p, i, d)' <=> In(p, i, d) \/ (p = p0 /\ i = i0 /\ d = c)

\* A new command is taken up by one item.
LEMMA JoinWork ==
    ASSUME WorkInv, NEW c \in Commands, known[c].at = "none", known' = [known EXCEPT ![c] = AtWork],
           UNCHANGED <<active, completed>>, NEW p0 \in Priorities, NEW i0 \in Nat, Joins(c, p0, i0)
    PROVE  Accounted' /\ Single'
<1>1. known \in [Commands -> Entries] /\ Accounted /\ Single
  BY DEF WorkInv, TypeOK
<1>2. known'[c].at = "work" /\ \A d \in Commands : d # c => known'[d] = known[d]
  BY <1>1 DEF AtWork
<1>3. ~Held(c) /\ c \notin Elements(completed)
  BY <1>1 DEF Accounted
<1>4. \A d \in Commands : Queued(d)' <=> Queued(d) \/ d = c
  BY DEF Queued, Joins
<1>5. \A d \in Commands : Held(d)' <=> Held(d) \/ d = c
  BY <1>4 DEF Held
<1>6. Accounted'
  BY <1>1, <1>2, <1>3, <1>5 DEF Accounted
<1>7. Single'
  BY <1>1, <1>3 DEF Single, Held, Queued, Joins
<1> QED
  BY <1>6, <1>7

\* Commands that get their outcome are held no longer, and the others as before.
LEMMA AnswerWork ==
    ASSUME WorkInv, NEW commands \in Seq(Commands), NEW category, NEW started,
           Remember(commands, category, started),
           \A d \in Elements(commands) : known[d].at # "outcome",
           \A d \in Commands : Held(d)' <=> Held(d) /\ d \notin Elements(commands)
    PROVE  Accounted' /\ completed' \in Seq(Commands) /\ Len(completed') <= Capacity
<1>1. TypeOK /\ Accounted
  BY DEF WorkInv
<1>2. /\ completed' \in Seq(Commands) /\ Len(completed') <= Capacity
      /\ \A c \in Commands :
            /\ known'[c].at = "outcome" <=> c \in Elements(completed')
            /\ known'[c].at = "work" <=> known[c].at = "work" /\ c \notin Elements(commands)
  BY <1>1, RememberFacts
<1> QED
  BY <1>1, <1>2 DEF Accounted

\* The head of a queue leaves it.
LEMMA DequeueWork ==
    ASSUME WorkInv, NEW p0 \in Priorities, queues[p0] # <<>>, Dequeue(p0)
    PROVE  /\ \A p \in Priorities, i \in Nat, d \in Commands :
                 In(p, i, d)' <=> IF p = p0 THEN i > 0 /\ In(p, i + 1, d) ELSE In(p, i, d)
           /\ \A d \in Commands : In(p0, 1, d) <=> d \in Elements(Head(queues[p0]).commands)
           /\ Head(queues[p0]) \in Items /\ queues' \in [Priorities -> Seq(Items)]
           /\ Places' \subseteq Places
<1> DEFINE s == queues[p0]
<1>1. queues \in [Priorities -> Seq(Items)] /\ s \in Seq(Items) /\ s # <<>>
  BY DEF WorkInv, TypeOK
<1>2. queues' = [queues EXCEPT ![p0] = Tail(s)]
  BY DEF Dequeue
<1>3. /\ Len(s) \in Nat \ {0} /\ DOMAIN s = 1 .. Len(s) /\ Head(s) = s[1] /\ Tail(s) \in Seq(Items)
      /\ DOMAIN Tail(s) = 1 .. (Len(s) - 1)
      /\ \A i \in 1 .. (Len(s) - 1) : Tail(s)[i] = s[i + 1]
  BY <1>1
<1>4. queues'[p0] = Tail(s) /\ \A p \in Priorities : p # p0 => queues'[p] = queues[p]
  BY <1>1, <1>2
<1>5. queues' \in [Priorities -> Seq(Items)] /\ Head(s) \in Items
  BY <1>1, <1>2, <1>3
<1>6. ASSUME NEW i \in Nat, NEW d \in Commands PROVE In(p0, i, d)' <=> i > 0 /\ In(p0, i + 1, d)
  <2>1. i \in DOMAIN Tail(s) <=> i > 0 /\ i + 1 \in DOMAIN s
    BY <1>3
  <2>2. i \in DOMAIN Tail(s) => Tail(s)[i] = s[i + 1]
    BY <1>3
  <2> HIDE DEF s
  <2> QED
    BY <1>4, <2>1, <2>2 DEF In, s
<1>7. ASSUME NEW p \in Priorities, p # p0, NEW i \in Nat, NEW d \in Commands PROVE In(p, i, d)' <=> In(p, i, d)
  BY <1>4, <1>7 DEF In
<1>8. \A d \in Commands : In(p0, 1, d) <=> d \in Elements(Head(s).commands)
  <2>1. 1 \in DOMAIN s /\ s[1] = Head(s)
    BY <1>3
  <2> QED
    BY <2>1 DEF In
<1>9. Places' \subseteq Places
  <2>1. ASSUME NEW p \in Priorities PROVE DOMAIN queues'[p] \subseteq DOMAIN queues[p]
    <3>1. 1 .. (Len(s) - 1) \subseteq 1 .. Len(s)
      BY <1>3
    <3> HIDE DEF s
    <3>2. CASE p = p0
      BY <1>3, <1>4, <3>1, <3>2 DEF s
    <3>3. CASE p # p0
      BY <1>4, <3>3
    <3> QED
      BY <3>2, <3>3
  <2> QED
    BY <2>1 DEF Places
<1> QED
  BY <1>5, <1>6, <1>7, <1>8, <1>9

\* What the head answered is not held elsewhere.
LEMMA HeadWork ==
    ASSUME WorkInv, NEW p0 \in Priorities, queues[p0] # <<>>, Dequeue(p0), active = NoItem,
           NEW item, item = Head(queues[p0])
    PROVE  /\ item.commands \in Seq(Commands) /\ \A d \in Elements(item.commands) : d \in Commands /\ known[d].at = "work"
           /\ \A d \in Commands : Queued(d)' <=> Queued(d) /\ d \notin Elements(item.commands)
           /\ \A c \in Commands, p \in Priorities, i \in Nat : In(p, i, c)' =>
                 \A q \in Priorities, j \in Nat : In(q, j, c)' => q = p /\ j = i
<1>1. /\ Accounted /\ Single /\ item \in Items /\ Elements(active.commands) = {}
  BY DequeueWork DEF WorkInv, NoItem, Elements
<1>2. item.commands \in Seq(Commands) /\ Elements(item.commands) \subseteq Commands
  BY <1>1 DEF Items, Elements
<1>3. \A d \in Commands : In(p0, 1, d) <=> d \in Elements(item.commands)
  BY DequeueWork
<1>4. \A p \in Priorities, i \in Nat, d \in Commands :
         In(p, i, d)' <=> IF p = p0 THEN i > 0 /\ In(p, i + 1, d) ELSE In(p, i, d)
  BY DequeueWork
<1>5. \A d \in Elements(item.commands) : d \in Commands /\ known[d].at = "work"
  BY <1>1, <1>2, <1>3 DEF Accounted, Held, Queued
<1>6. \A i \in Nat, d \in Commands : In(p0, i, d) => i > 0
  <2>1. queues[p0] \in Seq(Items)
    BY DEF WorkInv, TypeOK
  <2>2. DOMAIN queues[p0] = 1 .. Len(queues[p0])
    BY <2>1
  <2> QED
    BY <2>2 DEF In
<1>7. ASSUME NEW d \in Commands PROVE Queued(d)' <=> Queued(d) /\ d \notin Elements(item.commands)
  <2>1. ASSUME Queued(d)' PROVE Queued(d) /\ d \notin Elements(item.commands)
    <3>1. PICK p \in Priorities, i \in Nat : In(p, i, d)'
      BY <2>1 DEF Queued
    <3>2. In(p, IF p = p0 THEN i + 1 ELSE i, d) /\ (p = p0 => i + 1 # 1)
      BY <1>4, <3>1
    <3>3. ~In(p0, 1, d)
      BY <1>1, <3>2 DEF Single
    <3> QED
      BY <1>3, <3>2, <3>3 DEF Queued
  <2>2. ASSUME Queued(d), d \notin Elements(item.commands) PROVE Queued(d)'
    <3>1. PICK p \in Priorities, i \in Nat : In(p, i, d)
      BY <2>2 DEF Queued
    <3>2. CASE p = p0
      <4>1. i > 0 /\ i # 1
        BY <1>3, <1>6, <2>2, <3>1, <3>2
      <4>2. i - 1 \in Nat /\ i - 1 > 0 /\ (i - 1) + 1 = i
        BY <4>1
      <4>3. In(p0, i - 1, d)'
        BY <1>4, <3>1, <3>2, <4>2
      <4> QED
        BY <4>2, <4>3 DEF Queued
    <3>3. CASE p # p0
      BY <1>4, <3>1, <3>3 DEF Queued
    <3> QED
      BY <3>2, <3>3
  <2> QED
    BY <2>1, <2>2
<1>8. ASSUME NEW c \in Commands, NEW p \in Priorities, NEW i \in Nat, In(p, i, c)',
             NEW q \in Priorities, NEW j \in Nat, In(q, j, c)'
      PROVE  q = p /\ j = i
  <2>1. In(p, IF p = p0 THEN i + 1 ELSE i, c) /\ In(q, IF q = p0 THEN j + 1 ELSE j, c)
    BY <1>4, <1>8
  <2>2. q = p /\ (IF q = p0 THEN j + 1 ELSE j) = (IF p = p0 THEN i + 1 ELSE i)
    BY <1>1, <2>1 DEF Single
  <2> QED
    BY <2>2
<1> QED
  BY <1>2, <1>5, <1>7, <1>8

\* The parts of the invariant that a step has to show by itself.
WorkStep ==
    /\ active' \in Items \cup {NoItem} /\ completed' \in Seq(Commands)
    /\ frozen' \in BOOLEAN /\ now' \in 0 .. MaxNow
    /\ Accounted' /\ Single' /\ Limited'

LEMMA WorkKept ==
    ASSUME WorkInv, [Next]_vars, WorkStep
    PROVE  WorkInv'
<1>1. DenialInv' /\ OnceInv'
  BY DenialStep, OnceStep DEF WorkInv
<1>2. IdleItems \subseteq Items
  BY DEF IdleItems, Items
<1>3. queues' \in [Priorities -> Seq(Items)]
  BY <1>1, <1>2 DEF DenialInv
<1>4. TypeOK'
  BY <1>1, <1>3 DEF TypeOK, WorkStep, DenialInv, OnceInv
<1> QED
  BY <1>1, <1>4 DEF WorkInv, WorkStep

\* The queues are as they were.
LEMMA SameQueues ==
    ASSUME UNCHANGED queues
    PROVE  /\ \A p \in Priorities, i \in Nat, d \in Commands : In(p, i, d)' <=> In(p, i, d)
           /\ \A d \in Commands : Queued(d)' <=> Queued(d)
           /\ Places' = Places
<1>1. \A p \in Priorities, i \in Nat, d \in Commands : In(p, i, d)' <=> In(p, i, d)
  BY DEF In
<1>2. \A d \in Commands : Queued(d)' <=> Queued(d)
  BY <1>1 DEF Queued
<1> QED
  BY <1>1, <1>2 DEF Places

\* Nothing moves, or only the active item begins its call.
LEMMA StillWork ==
    ASSUME WorkInv, UNCHANGED <<queues, known, completed>>, active'.commands = active.commands,
           active' \in Items \cup {NoItem}, frozen' \in BOOLEAN, now' \in 0 .. MaxNow
    PROVE  WorkStep
<1>1. TypeOK /\ Accounted /\ Single /\ Limited
  BY DEF WorkInv
<1>2. \A d \in Commands : Held(d)' <=> Held(d)
  BY SameQueues DEF Held
<1>3. Accounted'
  BY <1>1, <1>2 DEF Accounted
<1>4. Single'
  BY <1>1, SameQueues DEF Single
<1>5. Limited'
  BY <1>1, SameQueues DEF Limited
<1> QED
  BY <1>1, <1>3, <1>4, <1>5 DEF WorkStep, TypeOK

\* A refused command was not held.
LEMMA RefuseWork ==
    ASSUME WorkInv, NEW r \in Requests, New(r), NEW category, Refuse(r, category)
    PROVE  WorkStep
<1> DEFINE commands == <<r.command>>
<1>1. TypeOK /\ Accounted /\ Single /\ Limited /\ r.command \in Commands
  BY DEF WorkInv, Commands
<1>2. commands \in Seq(Commands) /\ Elements(commands) = {r.command}
  BY <1>1 DEF Elements
<1>3. /\ Remember(commands, category, FALSE) /\ UNCHANGED <<queues, active, frozen, now>>
  BY DEF Refuse
<1>4. known[r.command].at = "none" /\ ~Held(r.command)
  BY <1>1 DEF New, Accounted
<1>5. \A d \in Commands : Held(d)' <=> Held(d)
  BY <1>3, SameQueues DEF Held
<1> HIDE DEF commands
<1>6. Accounted' /\ completed' \in Seq(Commands) /\ Len(completed') <= Capacity
  BY <1>2, <1>3, <1>4, <1>5, AnswerWork
<1>7. Single'
  BY <1>1, <1>3, SameQueues DEF Single
<1>8. Limited'
  BY <1>1, <1>3, <1>6, SameQueues DEF Limited
<1> QED
  BY <1>1, <1>3, <1>6, <1>7, <1>8 DEF WorkStep, TypeOK

\* The active item answers its commands.
LEMMA ActiveWork ==
    ASSUME WorkInv, active # NoItem, NEW category, NEW started,
           Remember(active.commands, category, started), active' = NoItem, UNCHANGED <<queues, frozen, now>>
    PROVE  WorkStep
<1>1. TypeOK /\ Accounted /\ Single /\ Limited /\ active \in Items
  BY DEF WorkInv, TypeOK
<1>2. active.commands \in Seq(Commands) /\ Elements(active.commands) \subseteq Commands
  BY <1>1 DEF Items, Elements
<1>3. Elements(active'.commands) = {}
  BY DEF NoItem, Elements
<1>4. \A d \in Elements(active.commands) : known[d].at = "work"
  BY <1>1, <1>2 DEF Accounted, Held
<1>5. \A d \in Commands : Held(d)' <=> Held(d) /\ d \notin Elements(active.commands)
  BY <1>1, <1>3, SameQueues DEF Held, Queued, Single
<1>6. Accounted' /\ completed' \in Seq(Commands) /\ Len(completed') <= Capacity
  BY <1>2, <1>4, <1>5, AnswerWork
<1>7. Single'
  BY <1>1, <1>3, SameQueues DEF Single
<1>8. Limited'
  BY <1>1, <1>6, SameQueues DEF Limited
<1> QED
  BY <1>1, <1>6, <1>7, <1>8 DEF WorkStep, TypeOK

\* The head of a queue is answered, or becomes the active item.
LEMMA TakeWork ==
    ASSUME WorkInv, NEW p \in Priorities, NextExpired(p) \/ NextFrozen(p) \/ NextActive(p)
    PROVE  WorkStep
<1> DEFINE item == Head(queues[p])
<1>1. /\ TypeOK /\ Accounted /\ Single /\ Limited /\ active = NoItem /\ queues[p] # <<>> /\ Dequeue(p)
      /\ UNCHANGED <<frozen, now>> /\ Elements(active.commands) = {}
  BY DEF WorkInv, NextExpired, NextFrozen, NextActive, First, NoItem, Elements
<1>2. /\ item.commands \in Seq(Commands)
      /\ \A d \in Elements(item.commands) : d \in Commands /\ known[d].at = "work"
      /\ \A d \in Commands : Queued(d)' <=> Queued(d) /\ d \notin Elements(item.commands)
      /\ \A c \in Commands, q \in Priorities, i \in Nat : In(q, i, c)' =>
            \A s \in Priorities, j \in Nat : In(s, j, c)' => s = q /\ j = i
  BY <1>1, HeadWork
<1>3. item \in Items /\ Places' \subseteq Places
  BY <1>1, DequeueWork
<1> HIDE DEF item
<1>4. IsFiniteSet(Places') /\ Cardinality(Places') <= Capacity
  <2>1. IsFiniteSet(Places') /\ Cardinality(Places') <= Cardinality(Places)
    BY <1>1, <1>3, FS_Subset DEF Limited
  <2>2. Cardinality(Places) \in Nat /\ Cardinality(Places') \in Nat /\ Capacity \in Nat
    BY <1>1, <2>1, FS_CardinalityType, SchedulerAssumption DEF Limited
  <2> QED
    BY <1>1, <2>1, <2>2 DEF Limited
<1>5. CASE NextExpired(p) \/ NextFrozen(p)
  <2>1. PICK category : Complete(item, category)
    BY <1>5 DEF NextExpired, NextFrozen, item
  <2>2. Remember(item.commands, category, item.started) /\ active' = NoItem
    BY <1>1, <2>1 DEF Complete
  <2>3. Elements(active'.commands) = {}
    BY <2>2 DEF NoItem, Elements
  <2>4. \A d \in Commands : Held(d)' <=> Held(d) /\ d \notin Elements(item.commands)
    BY <1>1, <1>2, <2>3 DEF Held
  <2>5. Accounted' /\ completed' \in Seq(Commands) /\ Len(completed') <= Capacity
    BY <1>2, <2>2, <2>4, AnswerWork
  <2>6. Single'
    BY <1>2, <2>3 DEF Single
  <2> QED
    BY <1>1, <1>4, <2>2, <2>5, <2>6 DEF WorkStep, TypeOK, Limited
<1>6. CASE NextActive(p)
  <2>1. active' = item /\ UNCHANGED <<known, completed>>
    BY <1>6 DEF NextActive, item
  <2>2. \A d \in Elements(item.commands) : d \in Commands /\ Held(d)
    BY <1>1, <1>2 DEF Accounted
  <2>3. \A d \in Commands : Held(d)' <=> Held(d)
    BY <1>1, <1>2, <2>1, <2>2 DEF Held
  <2>4. Accounted'
    BY <1>1, <2>1, <2>3 DEF Accounted
  <2>5. Single'
    <3>1. \A c \in Commands, q \in Priorities, i \in Nat : In(q, i, c)' => c \notin Elements(active'.commands)
      BY <1>2, <2>1 DEF Queued
    <3> QED
      BY <1>2, <3>1 DEF Single
  <2> QED
    BY <1>1, <1>3, <1>4, <2>1, <2>4, <2>5 DEF WorkStep, TypeOK, Limited
<1> QED
  BY <1>5, <1>6

\* A set of places has a first one.
LEMMA FirstOfPlaces ==
    ASSUME NEW T, T \subseteq Nat, T # {}
    PROVE  \E i \in T : \A j \in T : i <= j
<1> DEFINE R == OpToRel(<, Nat)
<1>1. \A i, j \in Nat : <<i, j>> \in R <=> i < j
  BY DEF OpToRel
<1>2. IsWellFoundedOn(R, Nat)
  BY NatLessThanWellFounded
<1> HIDE DEF R
<1>3. PICK i \in T : \A j \in T : ~(<<j, i>> \in R)
  BY <1>2, WFMin
<1>4. \A j \in T : j \in Nat /\ i \in Nat /\ ~(j < i)
  BY <1>1, <1>3
<1>5. \A j \in T : i <= j
  BY <1>4
<1> QED
  BY <1>3, <1>5

\* A command is put at the end of its queue.
LEMMA EnqueueWork ==
    ASSUME WorkInv, NEW r \in Requests, Enqueue(r)
    PROVE  WorkStep
<1> DEFINE p0 == r.priority
           s == queues[p0]
           i0 == Len(s) + 1
           item == [request |-> r, commands |-> <<r.command>>, started |-> FALSE]
<1>1. TypeOK /\ Accounted /\ Single /\ Limited /\ r.command \in Commands /\ p0 \in Priorities
  BY SchedulerAssumption DEF WorkInv, Commands
<1>2. queues \in [Priorities -> Seq(Items)] /\ s \in Seq(Items)
  BY <1>1 DEF TypeOK
<1>3. item \in Items /\ item.commands = <<r.command>>
  BY <1>1 DEF Items
<1>4. /\ known[r.command].at = "none" /\ known' = [known EXCEPT ![r.command] = AtWork]
      /\ UNCHANGED <<active, completed, frozen, now>> /\ Cardinality(Places) < Capacity
      /\ queues' = [queues EXCEPT ![p0] = Append(s, item)]
  BY DEF Enqueue, InTime, Admissible, New, queued_count
<1> HIDE DEF item
<1>5. /\ i0 \in Nat /\ DOMAIN s = 1 .. Len(s) /\ Len(s) \in Nat
      /\ Append(s, item) \in Seq(Items) /\ DOMAIN Append(s, item) = 1 .. i0
      /\ Append(s, item)[i0] = item /\ \A i \in 1 .. Len(s) : Append(s, item)[i] = s[i]
  BY <1>2, <1>3
<1>6. /\ DOMAIN Append(s, item) = DOMAIN s \cup {i0} /\ i0 \notin DOMAIN s
  BY <1>5
<1>7. queues'[p0] = Append(s, item) /\ \A p \in Priorities : p # p0 => queues'[p] = queues[p]
  BY <1>1, <1>2, <1>4
<1>8. \A d : d \in Elements(item.commands) <=> d = r.command
  BY <1>3 DEF Elements
<1> HIDE DEF i0
<1>9. ASSUME NEW p \in Priorities, NEW i \in Nat, NEW d \in Commands
      PROVE  In(p, i, d)' <=> In(p, i, d) \/ (p = p0 /\ i = i0 /\ d = r.command)
  <2>1. CASE p # p0
    BY <1>7, <2>1 DEF In
  <2>2. CASE p = p0 /\ i = i0
    BY <1>5, <1>6, <1>7, <1>8, <2>2 DEF In
  <2>3. CASE p = p0 /\ i # i0
    <3>1. i \in DOMAIN s => Append(s, item)[i] = s[i]
      BY <1>5
    <3> QED
      BY <1>6, <1>7, <2>3, <3>1 DEF In
  <2> QED
    BY <2>1, <2>2, <2>3
<1>10. Accounted' /\ Single'
  <2>1. PICK i1 \in Nat, p1 \in Priorities, c \in Commands : i1 = i0 /\ p1 = p0 /\ c = r.command
    BY <1>1, <1>5
  <2>2. Joins(c, p1, i1)
    BY <1>9, <2>1 DEF Joins
  <2>3. known[c].at = "none" /\ known' = [known EXCEPT ![c] = AtWork] /\ UNCHANGED <<active, completed>>
    BY <1>4, <2>1
  <2> QED
    BY <2>2, <2>3, JoinWork
<1>11. Places' = Places \cup {<<p0, i0>>}
  <2>1. \A p \in Priorities : DOMAIN queues'[p] = IF p = p0 THEN DOMAIN queues[p] \cup {i0} ELSE DOMAIN queues[p]
    BY <1>6, <1>7
  <2> HIDE DEF p0, s
  <2>2. ASSUME NEW x PROVE x \in Places' <=> x \in Places \/ x = <<p0, i0>>
    <3>1. x \in Places' <=> \E p \in Priorities : \E i \in DOMAIN queues'[p] : x = <<p, i>>
      BY DEF Places
    <3>2. x \in Places <=> \E p \in Priorities : \E i \in DOMAIN queues[p] : x = <<p, i>>
      BY DEF Places
    <3> QED
      BY <1>1, <2>1, <3>1, <3>2
  <2> QED
    BY <2>2
<1>12. IsFiniteSet(Places') /\ Cardinality(Places') <= Capacity
  <2>1. IsFiniteSet(Places) /\ Cardinality(Places) \in Nat /\ Capacity \in Nat
    BY <1>1, FS_CardinalityType, SchedulerAssumption DEF Limited
  <2>2. /\ IsFiniteSet(Places \cup {<<p0, i0>>})
        /\ Cardinality(Places \cup {<<p0, i0>>}) \in {Cardinality(Places), Cardinality(Places) + 1}
    BY <2>1, FS_AddElement
  <2> QED
    BY <1>4, <1>11, <2>1, <2>2
<1> QED
  BY <1>1, <1>4, <1>10, <1>12 DEF WorkStep, TypeOK, Limited

\* A command joins the first waiting item that is equivalent to it.
LEMMA CoalesceWork ==
    ASSUME WorkInv, NEW r \in Requests, Coalesce(r)
    PROVE  WorkStep
<1> DEFINE s == queues["background"]
<1>1. /\ TypeOK /\ Accounted /\ Single /\ Limited /\ r.command \in Commands /\ "background" \in Priorities
      /\ queues \in [Priorities -> Seq(Items)] /\ s \in Seq(Items) /\ DOMAIN s = 1 .. Len(s)
  BY DEF WorkInv, TypeOK, Commands, Priorities
<1>2. PICK i0 \in DOMAIN s : queues' = [queues EXCEPT !["background"][i0].commands = Append(@, r.command)]
  <2> DEFINE first == CHOOSE i \in Equivalents(r) : \A j \in Equivalents(r) : i <= j
  <2>1. Equivalents(r) # {} /\ Equivalents(r) \subseteq DOMAIN s
    BY DEF Coalesce, Equivalents
  <2>2. Equivalents(r) \subseteq Nat
    BY <1>1, <2>1
  <2>3. \E i \in Equivalents(r) : \A j \in Equivalents(r) : i <= j
    BY <2>1, <2>2, FirstOfPlaces
  <2>4. first \in DOMAIN s
    BY <2>1, <2>3
  <2>5. queues' = [queues EXCEPT !["background"][first].commands = Append(@, r.command)]
    BY DEF Coalesce
  <2> QED
    BY <2>4, <2>5
<1>3. /\ known[r.command].at = "none" /\ known' = [known EXCEPT ![r.command] = AtWork]
      /\ UNCHANGED <<active, completed, frozen, now>>
  BY DEF Coalesce, InTime, Admissible, New
<1> DEFINE joined == [s[i0] EXCEPT !.commands = Append(@, r.command)]
<1>4. queues' = [queues EXCEPT !["background"] = [s EXCEPT ![i0] = joined]]
  BY <1>1, <1>2
<1>5. s[i0] \in Items /\ s[i0].commands \in Seq(Commands)
  <2>1. \A item \in Items : item.commands \in Seq(Commands)
    BY DEF Items
  <2>2. s[i0] \in Items
    BY <1>1, <1>2
  <2> QED
    BY <2>1, <2>2
<1>6. \A d : d \in Elements(joined.commands) <=> d \in Elements(s[i0].commands) \/ d = r.command
  <2> DEFINE w == s[i0].commands
  <2>1. joined.commands = Append(w, r.command)
    BY <1>5 DEF Items
  <2>2. \A d : d \in Elements(Append(w, r.command)) <=> d \in Elements(w) \/ d = r.command
    <3> HIDE DEF w
    <3> DEFINE c == r.command
               t == Append(w, c)
    <3>1. w \in Seq(Commands) /\ c \in Commands
      BY <1>1, <1>5 DEF w
    <3> HIDE DEF c
    <3>2. /\ Len(w) \in Nat /\ DOMAIN w = 1 .. Len(w) /\ DOMAIN t = 1 .. (Len(w) + 1)
          /\ t[Len(w) + 1] = c /\ \A i \in 1 .. Len(w) : t[i] = w[i]
      BY <3>1
    <3>3. DOMAIN t = DOMAIN w \cup {Len(w) + 1}
      BY <3>2
    <3> HIDE DEF t
    <3> QED
      BY <3>2, <3>3 DEF Elements, c, t
  <2> QED
    BY <2>1, <2>2
<1> HIDE DEF joined
<1>7. /\ queues'["background"] = [s EXCEPT ![i0] = joined]
      /\ \A p \in Priorities : p # "background" => queues'[p] = queues[p]
  BY <1>1, <1>4
<1>8. /\ DOMAIN queues'["background"] = DOMAIN s /\ queues'["background"][i0] = joined
      /\ \A i \in DOMAIN s : i # i0 => queues'["background"][i] = s[i]
  BY <1>1, <1>2, <1>7
<1>9. \A p \in Priorities : DOMAIN queues'[p] = DOMAIN queues[p]
  BY <1>7, <1>8
<1>10. Places' = Places
  BY <1>9 DEF Places
<1>11. PICK i1 \in Nat, p1 \in Priorities, c \in Commands : i1 = i0 /\ p1 = "background" /\ c = r.command
  BY <1>1, <1>2
<1>12. Joins(c, p1, i1)
  <2>1. SUFFICES ASSUME NEW p \in Priorities, NEW i \in Nat, NEW d \in Commands
                 PROVE  In(p, i, d)' <=> In(p, i, d) \/ (p = p1 /\ i = i1 /\ d = c)
    BY DEF Joins
  <2>2. CASE p # p1
    BY <1>7, <1>11, <2>2 DEF In
  <2>3. CASE p = p1 /\ i = i1
    BY <1>2, <1>6, <1>8, <1>11, <2>3 DEF In
  <2>4. CASE p = p1 /\ i # i1
    BY <1>8, <1>11, <2>4 DEF In
  <2> QED
    BY <2>2, <2>3, <2>4
<1>13. Accounted' /\ Single'
  <2>1. known[c].at = "none" /\ known' = [known EXCEPT ![c] = AtWork] /\ UNCHANGED <<active, completed>>
    BY <1>3, <1>11
  <2> QED
    BY <1>12, <2>1, JoinWork
<1>14. Limited'
  BY <1>1, <1>3, <1>10 DEF Limited
<1> QED
  BY <1>1, <1>3, <1>13, <1>14 DEF WorkStep, TypeOK

\* Every step keeps the account.
LEMMA WorkKeptByAll == WorkInv /\ [Next]_vars => WorkInv'
<1> SUFFICES ASSUME WorkInv, [Next]_vars PROVE WorkStep
  BY WorkKept
<1>0. /\ TypeOK /\ OnceInv /\ Accounted /\ Single /\ Limited /\ active \in Items \cup {NoItem}
      /\ frozen \in BOOLEAN /\ now \in 0 .. MaxNow /\ MaxNow \in Nat
  BY SchedulerAssumption DEF WorkInv, TypeOK
<1>1. ASSUME NEW r \in Requests, AdmitFrozen(r) \/ AdmitExpired(r) \/ AdmitFull(r) PROVE WorkStep
  <2>1. New(r) /\ \E category : Refuse(r, category)
    BY <1>1 DEF AdmitFrozen, AdmitExpired, AdmitFull, InTime, Admissible
  <2> QED
    BY <2>1, RefuseWork
<1>2. ASSUME NEW r \in Requests, Coalesce(r) \/ Enqueue(r) PROVE WorkStep
  BY <1>2, CoalesceWork, EnqueueWork
<1>3. ASSUME NEW r \in Requests, Replayed(r) PROVE WorkStep
  BY <1>0, <1>3, StillWork DEF Replayed, memory
<1>4. ASSUME NEW p \in Priorities, NextExpired(p) \/ NextFrozen(p) \/ NextActive(p) PROVE WorkStep
  BY <1>4, TakeWork
<1>5. CASE \/ ReadDone \/ Unservable \/ FromEvidence \/ EffectUncertain
           \/ MarkRefused \/ ReceiptKept \/ ReceiptLost
           \/ \E category \in NotStartedCategories : SendRefused(category)
  <2>1. UNCHANGED <<queues, frozen, now>> /\ \E category : Complete(active, category)
    BY <1>5 DEF ReadDone, Unservable, FromEvidence, EffectUncertain, MarkRefused, ReceiptKept,
                ReceiptLost, SendRefused
  <2>2. active # NoItem
    BY <1>0, <1>5 DEF ReadDone, Unservable, FromEvidence, EffectUncertain, MarkRefused, ReceiptKept,
                ReceiptLost, SendRefused, Writing, Unstarted, OnceInv
  <2>3. PICK category : Remember(active.commands, category, active.started) /\ active' = NoItem
    BY <2>1 DEF Complete
  <2> QED
    BY <2>1, <2>2, <2>3, ActiveWork
<1>6. CASE MarkSendStarted \/ OrderSend
  <2>1. UNCHANGED <<queues, active, known, completed, frozen, now>>
    BY <1>6 DEF MarkSendStarted, OrderSend
  <2> QED
    BY <1>0, <2>1, StillWork
<1>7. CASE SendChecked
  <2>1. active \in Items /\ UNCHANGED <<queues, known, completed, frozen, now>>
    BY <1>0, <1>7 DEF SendChecked, Writing, Unstarted
  <2>2. active' = [active EXCEPT !.started = TRUE]
    BY <1>7 DEF SendChecked
  <2>3. active' \in Items /\ active'.commands = active.commands
    BY <2>1, <2>2 DEF Items
  <2> QED
    BY <1>0, <2>1, <2>3, StillWork
<1>8. CASE Freeze \/ Release \/ Tick \/ UNCHANGED vars
  <2>1. UNCHANGED <<queues, active, known, completed>> /\ frozen' \in BOOLEAN /\ now' \in 0 .. MaxNow
    <3>1. UNCHANGED <<queues, active, known, completed>>
      BY <1>8 DEF Freeze, Release, Tick, vars, memory
    <3>2. frozen' \in BOOLEAN
      BY <1>0, <1>8 DEF Freeze, Release, Tick, vars
    <3>3. now' \in 0 .. MaxNow
      BY <1>0, <1>8 DEF Freeze, Release, Tick, vars
    <3> QED
      BY <3>1, <3>2, <3>3
  <2> QED
    BY <1>0, <2>1, StillWork
<1>9. CASE Crash
  <2>1. /\ queues' = [p \in Priorities |-> <<>>] /\ active' = NoItem /\ completed' = <<>>
        /\ known' = [c \in Commands |-> Forgotten] /\ frozen' = FALSE /\ now' = now
    BY <1>9 DEF Crash
  <2>2. /\ Elements(active'.commands) = {} /\ Elements(completed') = {}
        /\ \A c \in Commands : known'[c].at = "none"
    BY <2>1 DEF NoItem, Elements, Forgotten
  <2>3. \A p \in Priorities, i \in Nat, c \in Commands : ~In(p, i, c)'
    BY <2>1 DEF In
  <2>4. Accounted' /\ Single'
    BY <2>2, <2>3 DEF Accounted, Single, Held, Queued
  <2>5. Places' = {}
    BY <2>1 DEF Places
  <2>6. Limited'
    BY <2>1, <2>5, FS_EmptySet, SchedulerAssumption DEF Limited
  <2> QED
    <3>1. active' \in Items \cup {NoItem} /\ completed' \in Seq(Commands)
      BY <2>1
    <3>2. frozen' \in BOOLEAN
      BY <2>1
    <3>3. now' \in 0 .. MaxNow
      BY <1>0, <2>1
    <3> QED
      BY <2>4, <2>6, <3>1, <3>2, <3>3 DEF WorkStep
<1> QED
  BY <1>1, <1>2, <1>3, <1>4, <1>5, <1>6, <1>7, <1>8, <1>9 DEF Next, Admit, Take, Serve

\* Whatever is delivered, coalesced, expired, frozen, sent, completed or
\* forgotten, in any order and through any crash, the account of the commands
\* is kept, and queues and memory stay limited.
THEOREM WorkAccounted == Spec => []WorkInv
<1>1. Init => WorkInv
  <2> SUFFICES ASSUME Init PROVE WorkInv
    OBVIOUS
  <2>1. /\ queues = [p \in Priorities |-> <<>>] /\ active = NoItem /\ completed = <<>>
        /\ known = [c \in Commands |-> Forgotten] /\ frozen = FALSE /\ now = 0
        /\ journal = [c \in Commands |-> "none"] /\ sends = [c \in Commands |-> 0] /\ step = "taken"
    BY DEF Init
  <2>2. Forgotten \in Entries /\ Forgotten.category \notin NotStartedCategories /\ Forgotten.at = "none"
    BY DEF Forgotten, Entries, NotStartedCategories
  <2>3. queues \in [Priorities -> Seq(IdleItems)] /\ queues \in [Priorities -> Seq(Items)]
    BY <2>1
  <2>4. OnceInv
    BY <2>1 DEF OnceInv, EffectStates, Steps
  <2>5. active.started \in BOOLEAN /\ Elements(active.commands) = {} /\ Elements(completed) = {}
    BY <2>1 DEF NoItem, Elements
  <2>6. DenialInv
    BY <2>1, <2>2, <2>3, <2>5 DEF DenialInv
  <2>7. TypeOK
    <3>1. known \in [Commands -> Entries] /\ completed \in Seq(Commands) /\ active \in Items \cup {NoItem}
      BY <2>1, <2>2
    <3>2. frozen \in BOOLEAN
      BY <2>1
    <3>3. now \in 0 .. MaxNow
      BY <2>1, SchedulerAssumption
    <3> QED
      BY <2>3, <2>4, <3>1, <3>2, <3>3 DEF TypeOK, OnceInv
  <2>8. \A p \in Priorities, i \in Nat, c \in Commands : ~In(p, i, c)
    BY <2>1 DEF In
  <2>9. Accounted /\ Single
    BY <2>1, <2>2, <2>5, <2>8 DEF Accounted, Single, Held, Queued
  <2>10. Places = {}
    BY <2>1 DEF Places
  <2>11. Limited
    BY <2>1, <2>10, FS_EmptySet, SchedulerAssumption DEF Limited
  <2> QED
    BY <2>4, <2>6, <2>7, <2>9, <2>11 DEF WorkInv
<1> QED
  BY <1>1, WorkKeptByAll, PTL DEF Spec

\* The types of the scheduler's memory, the journal and the history.
THEOREM SchedulerTyped == Spec => []TypeOK
<1>1. WorkInv => TypeOK
  BY DEF WorkInv
<1> QED
  BY <1>1, WorkAccounted, PTL

\* The queues and the memory of outcomes never grow beyond the capacity.
THEOREM StaysBounded == Spec => []Bounded
<1>1. WorkInv => Bounded
  BY DEF WorkInv, Limited, Bounded, queued_count
<1> QED
  BY <1>1, WorkAccounted, PTL

\* A command is at work exactly as long as an item will answer it.
THEOREM CommandsAccounted == Spec => []EveryCommandAccounted
<1>1. WorkInv => EveryCommandAccounted
  <2> SUFFICES ASSUME WorkInv PROVE EveryCommandAccounted
    OBVIOUS
  <2>1. TypeOK /\ Accounted
    BY DEF WorkInv
  <2>2. Elements(completed) \subseteq Commands
    BY <2>1 DEF TypeOK, Elements
  <2>3. \A item \in Items : Elements(item.commands) \subseteq Commands
    BY DEF Items, Elements
  <2>4. Elements(NoItem.commands) = {}
    BY DEF NoItem, Elements
  <2>5. \A p \in Priorities : /\ DOMAIN queues[p] \subseteq Nat
                              /\ \A i \in DOMAIN queues[p] : queues[p][i] \in Items
    BY <2>1 DEF TypeOK
  <2>6. active \in Items \cup {NoItem}
    BY <2>1 DEF TypeOK
  <2>7. \A item : item \in Waiting <=> \E p \in Priorities : \E i \in DOMAIN queues[p] : item = queues[p][i]
    <3>1. \A x : x \in Places <=> \E p \in Priorities : \E i \in DOMAIN queues[p] : x = <<p, i>>
      BY DEF Places
    <3>2. \A x \in Places : \E p \in Priorities : \E i \in DOMAIN queues[p] : queues[x[1]][x[2]] = queues[p][i]
      BY <3>1
    <3>3. \A p \in Priorities : \A i \in DOMAIN queues[p] :
             \E x \in Places : queues[p][i] = queues[x[1]][x[2]]
      <4>1. SUFFICES ASSUME NEW p \in Priorities, NEW i \in DOMAIN queues[p]
                     PROVE  \E x \in Places : queues[p][i] = queues[x[1]][x[2]]
        OBVIOUS
      <4>2. <<p, i>> \in Places
        BY <3>1
      <4> WITNESS <<p, i>> \in Places
      <4> QED
        OBVIOUS
    <3> QED
      BY <3>2, <3>3 DEF Waiting
  <2>8. ASSUME NEW c PROVE c \in AtWorkCommands <=> c \in Commands /\ Held(c)
    <3>1. c \in AtWorkCommands <=> \/ c \in Elements(active.commands)
                                   \/ \E p \in Priorities : \E i \in DOMAIN queues[p] : c \in Elements(queues[p][i].commands)
      BY <2>7 DEF AtWorkCommands
    <3>2. c \in AtWorkCommands => c \in Commands
      BY <2>3, <2>4, <2>5, <2>6, <3>1
    <3>3. Held(c) <=> \/ c \in Elements(active.commands)
                      \/ \E p \in Priorities : \E i \in DOMAIN queues[p] : c \in Elements(queues[p][i].commands)
      BY <2>5 DEF Held, Queued, In
    <3> QED
      BY <3>1, <3>2, <3>3
  <2>9. {c \in Commands : known[c].at = "work"} = AtWorkCommands
    BY <2>1, <2>8 DEF Accounted
  <2>10. {c \in Commands : known[c].at = "outcome"} = Elements(completed)
    BY <2>1, <2>2 DEF Accounted
  <2> QED
    BY <2>9, <2>10 DEF EveryCommandAccounted
<1> QED
  BY <1>1, WorkAccounted, PTL

\* No two items answer the same command, through any repeated delivery.
THEOREM OneItemEach == Spec => []OneItemPerCommand
<1>1. WorkInv => OneItemPerCommand
  <2> SUFFICES ASSUME WorkInv PROVE OneItemPerCommand
    OBVIOUS
  <2>1. TypeOK /\ Single
    BY DEF WorkInv
  <2>2. ASSUME NEW p \in Priorities, NEW i \in DOMAIN queues[p], NEW c \in Elements(queues[p][i].commands)
        PROVE  i \in Nat /\ c \in Commands /\ In(p, i, c)
    <3>1. i \in Nat /\ queues[p][i] \in Items
      BY <2>1 DEF TypeOK
    <3>2. \A item \in Items : Elements(item.commands) \subseteq Commands
      BY DEF Items, Elements
    <3> QED
      BY <3>1, <3>2 DEF In
  <2>3. ASSUME NEW p \in Priorities, NEW i \in DOMAIN queues[p], NEW c \in Elements(queues[p][i].commands)
        PROVE  /\ c \notin Elements(active.commands)
               /\ \A q \in Priorities : \A j \in DOMAIN queues[q] :
                     c \in Elements(queues[q][j].commands) => q = p /\ j = i
    BY <2>1, <2>2 DEF Single
  <2>4. \A x \in Places : \E p \in Priorities : \E i \in DOMAIN queues[p] : x = <<p, i>>
    BY DEF Places
  <2>5. ASSUME NEW x \in Places, NEW c \in Elements(queues[x[1]][x[2]].commands)
        PROVE  /\ c \notin Elements(active.commands)
               /\ \A y \in Places \ {x} : c \notin Elements(queues[y[1]][y[2]].commands)
    <3>0. PICK p \in Priorities : \E i \in DOMAIN queues[p] : x = <<p, i>>
      BY <2>4
    <3>1. PICK i \in DOMAIN queues[p] : x = <<p, i>>
      BY <3>0
    <3>2. c \in Elements(queues[p][i].commands)
      BY <3>1
    <3>3. ASSUME NEW y \in Places, y # x PROVE c \notin Elements(queues[y[1]][y[2]].commands)
      <4>0. PICK q \in Priorities : \E j \in DOMAIN queues[q] : y = <<q, j>>
        BY <2>4
      <4>1. PICK j \in DOMAIN queues[q] : y = <<q, j>>
        BY <4>0
      <4>2. c \in Elements(queues[q][j].commands) => q = p /\ j = i
        BY <2>3, <3>2
      <4> QED
        BY <3>1, <3>3, <4>1, <4>2
    <3> QED
      BY <2>3, <3>2, <3>3
  <2> QED
    BY <2>5 DEF OneItemPerCommand
<1> QED
  BY <1>1, WorkAccounted, PTL
============================================================================
