-------------------------- MODULE PairCell_proofs --------------------------
(***************************************************************************)
(* What a cell keeps of its own, whatever its peer, its account and the    *)
(* relay do: for any number of attempts, any inbox, any upsets and any     *)
(* Fills.  A step of a Worker changes its own state and appends to the     *)
(* inbox of its peer; most steps are Routine, and one lemma says what such *)
(* a step preserves.                                                       *)
(***************************************************************************)
EXTENDS PairCell, SequenceTheorems, FiniteSetTheorems, TLAPS

USE BoundsAssumption

-----------------------------------------------------------------------------
(* The inductive invariant of one cell                                      *)

\* Where a broker read or a finalization may go on.
Rets == {"gate", "confirm", "converge", "tail", "stops", "settle", "rolled"}

\* Where _progress() may go on.
Landings == Rets \cup {"idle", "create", "protect", "wrap", "stopped"}

\* Stages that are only entered with an attempt.
Busy == {"leg", "prepare", "relay", "mark", "call", "done", "observe", "ticket", "advance",
         "confirm", "protect", "converge", "final", "tail"}

\* From the creation of an attempt to the outcome of its entry.
OnEntry(w) ==
    \/ run[w].at \in {"leg", "prepare", "relay"}
    \/ run[w].at \in {"mark", "call", "done"} /\ run[w].job = "entry"

\* What put the thread at its stage still holds.
StageDue(w) ==
    /\ At(w, "create") => CanCreate(w) /\ ~Stopped(w)
    /\ At(w, "confirm") => BothObserved(w)
    /\ At(w, "protect") => NeedsProtection(w)
    /\ At(w, "converge") => Converging(w)
    /\ run[w].at \in {"final", "tail"} => CanFinalize(w)

Control(w) ==
    /\ run[w].ret \in Rets /\ run[w].then \in Rets \cup {"stopped"}
    /\ run[w].at \in Busy => Cur(w) # NoAttempt
    /\ At(w, "relay") => w = "leader"
    /\ At(w, "down") => Cur(w) = NoAttempt
    /\ StageDue(w)

\* The attempt at work is the live one a restart would load; the leader mints
\* its attempts in order, and finishes each before the next.
RowsKept(w) ==
    /\ Cur(w) # NoAttempt => db[w].row[Cur(w)] = "live"
    /\ (~At(w, "down") /\ Loaded(w) # NoAttempt) => Cur(w) = Loaded(w)
    /\ OnEntry(w) => db[w].last = Cur(w)
    /\ w = "leader" =>
         \A a \in Attempts :
            /\ db[w].row[a] = "none" <=> a > db[w].last
            /\ db[w].row[a] # "rejected"
            /\ a < db[w].last => Terminal(db[w].row[a])

\* The leg in memory is the one on disk, but for the two effect references
\* that are set in memory only.
LegSame(l, k) ==
    /\ l.a = k.a /\ l.entry = k.entry /\ l.prot = k.prot /\ l.empty = k.empty
    /\ l.relayed = k.relayed /\ l.ticket = k.ticket /\ l.seen = k.seen
LegKept(w) ==
    /\ disk[w].a # NoAttempt => db[w].row[disk[w].a] # "none"
    /\ At(w, "leg") => disk[w].a # Cur(w)
    /\ (Cur(w) # NoAttempt /\ ~At(w, "leg")) => disk[w].a = Cur(w) /\ LegSame(leg[w], disk[w])

\* A cell with an attempt is never IDLE or EMPTY, a stop it carries is about
\* that attempt, and one without an attempt has nothing of the last one.
Decided(w) ==
    /\ (Cur(w) # NoAttempt /\ ~At(w, "leg")) => mem[w].st \notin {"IDLE", "EMPTY"}
    /\ Stopped(w) =>
         /\ Cur(w) # NoAttempt => db[w].human.a = Cur(w)
         /\ (At(w, "down") /\ Loaded(w) # NoAttempt) => db[w].human.a = Loaded(w)
    /\ (~At(w, "down") /\ (Cur(w) = NoAttempt \/ At(w, "leg"))) =>
         db[w].desired = "NONE" /\ ~db[w].confirmed /\ ~db[w].active /\ db[w].peer = "unknown"

\* The journal at each stage of a broker write.
EntryStage(w) ==
    /\ At(w, "leg") => \A e \in Effects : jr[w][Cur(w)][e] = "none"
    /\ At(w, "prepare") => Journal(w, "entry") = "none" /\ Journal(w, "protection") = "none"
    /\ At(w, "relay") => Journal(w, "entry") = "prepared" /\ Journal(w, "protection") = "none"
    /\ At(w, "mark") => Journal(w, run[w].job) = "prepared"
    /\ At(w, "call") => Journal(w, run[w].job) = "send_started"
    /\ (At(w, "done") /\ run[w].job = "entry") => Journal(w, "entry") \notin {"none", "prepared"}
    /\ (OnEntry(w) /\ ~At(w, "leg")) => leg[w].entry = "pending" /\ ~leg[w].empty
    /\ At(w, "observe") => leg[w].entry \in {"sent", "unknown_after_send"}

\* An entry that is prepared and not sent is the one the cell is about to send,
\* or one a restart will find and expire.
EntryKept(w) ==
    /\ \A a \in Attempts : db[w].row[a] = "none" => \A e \in Effects : jr[w][a][e] = "none"
    /\ (Cur(w) # NoAttempt /\ ~OnEntry(w)) => leg[w].entry # "pending"
    /\ \A a \in Attempts : jr[w][a]["entry"] = "prepared" =>
         /\ db[w].row[a] = "live" /\ db[w].last = a
         /\ disk[w].a = a /\ disk[w].entry = "pending" /\ ~disk[w].empty
         /\ At(w, "down") \/ (Cur(w) = a /\ OnEntry(w))

\* The mirrored box is written once.
ProtectedOnce(w) ==
    /\ (Cur(w) # NoAttempt /\ Journal(w, "protection") # "none") =>
         \/ leg[w].prot # "rough" \/ db[w].desired = "EMPTY"
         \/ run[w].at \in {"mark", "call", "done"} /\ run[w].job = "protection"
    /\ (run[w].at \in {"mark", "call", "done"} /\ run[w].job = "protection") => leg[w].prot = "rough"

\* Until a rollback is reported the leg is the one that fell back.
RolledBack(w) ==
    /\ At(w, "create") \/ OnEntry(w) => run[w].ret # "rolled"
    /\ ((run[w].ret = "rolled" \/ At(w, "rolled")) /\ Cur(w) # NoAttempt) => leg[w].prot = "fallback"

Own(w) ==
    Control(w) /\ RowsKept(w) /\ LegKept(w) /\ Decided(w) /\ EntryStage(w) /\ EntryKept(w)
    /\ ProtectedOnce(w) /\ RolledBack(w)

\* Only the leader sends attempts.
LeaderMail == \A i \in DOMAIN inbox["leader"] : inbox["leader"][i].kind # "attempt"

OwnInv == TypeOK /\ LeaderMail /\ \A w \in Workers : Own(w)

-----------------------------------------------------------------------------
(* What a step of one Worker may do                                         *)

\* It changes nothing of its peer.
Touch(w) ==
    /\ run' \in {run, [run EXCEPT ![w] = run'[w]]}
    /\ mem' \in {mem, [mem EXCEPT ![w] = mem'[w]]}
    /\ leg' \in {leg, [leg EXCEPT ![w] = leg'[w]]}
    /\ disk' \in {disk, [disk EXCEPT ![w] = disk'[w]]}
    /\ db' \in {db, [db EXCEPT ![w] = db'[w]]}
    /\ jr' \in {jr, [jr EXCEPT ![w] = jr'[w]]}
    /\ brk' \in {brk, [brk EXCEPT ![w] = brk'[w]]}
    /\ upsets' = upsets \/ (upsets < MaxUpsets /\ upsets' = upsets + 1)

\* An envelope m that w sends in this step is true of w after it.
Honest(w, m) ==
    /\ \/ Cur(w) # NoAttempt /\ m.a = Cur(w) /\ run[w].at \notin {"leg", "prepare"}
       \/ inbox[w] # <<>> /\ m.a = Head(inbox[w]).a
    /\ At(w, "relay") => m.kind = "attempt"
    /\ m.kind = "attempt" =>
         At(w, "relay") /\ m.a = Cur(w) /\ disk'[w].a = m.a /\ disk'[w].relayed
    /\ m.kind = "pair_entry_confirmed" =>
         w = "leader" /\ disk'[w].a = m.a /\ disk'[w].entry = "filled"
    /\ (m.kind = "leg_status" /\ m.status \in TerminalStatuses) =>
         \/ Terminal(db'[w].row[m.a])
         \/ /\ db'[w].row[m.a] = "none" /\ inbox[w] # <<>> /\ inbox'[w] = Tail(inbox[w])
            /\ Head(inbox[w]).kind = "leg_status_request" /\ m.a = Head(inbox[w]).a
         \/ /\ db'[w].row[m.a] = "live" /\ mem'[w].cur = m.a /\ run'[w].at # "leg" /\ disk'[w].a = m.a
            /\ disk'[w].empty \/ disk'[w].entry \in {"rejected", "expired_not_started"}
    /\ (m.kind = "leg_status" /\ m.status = "filled") =>
         disk'[w].a = m.a /\ disk'[w].entry = "filled"
    /\ (m.kind = "leg_status" /\ m.status = "protection_rough_fallback") =>
         disk'[w].a = m.a /\ disk'[w].prot = "fallback"

\* It takes the first envelope of its inbox, or drops them all, and appends
\* honest ones to the inbox of its peer.
Mail(w) ==
    LET q == inbox[Peer(w)]
        r == inbox'[Peer(w)]
    IN
    /\ inbox' \in [Workers -> Seq(Messages)]
    /\ \A v \in Workers : Len(inbox'[v]) <= MaxInbox
    /\ inbox'[w] \in {inbox[w], <<>>} \/ (inbox[w] # <<>> /\ inbox'[w] = Tail(inbox[w]))
    /\ Len(q) <= Len(r)
    /\ \A i \in 1 .. Len(q) : r[i] = q[i]
    /\ \A i \in 1 .. Len(r) : i > Len(q) => Honest(w, r[i])

\* How the journal of an effect may move.
JrMoves == {<<"none", "prepared">>, <<"prepared", "send_started">>, <<"prepared", "observed">>,
            <<"send_started", "success">>, <<"send_started", "failure">>,
            <<"send_started", "observed">>}
Journals == [Attempts -> [Effects -> EffectStates]]

\* What a step leaves of the memory m, the tables d, the leg on disk k and the
\* journal j of a cell that stays at work on attempt c (or on none).
MemKept(m, n) ==
    /\ n \in Mems /\ n.cur = m.cur
    /\ (n.cur # NoAttempt /\ m.st \notin {"IDLE", "EMPTY"}) => n.st \notin {"IDLE", "EMPTY"}
DbKept(c, d, e) ==
    /\ e \in Rows /\ e.row = d.row /\ e.last = d.last
    /\ d.desired = "EMPTY" => e.desired = "EMPTY"
    /\ e.human.why # "none" => e.human = d.human \/ (c # NoAttempt /\ e.human.a = c)
    /\ c = NoAttempt => /\ e.desired = d.desired /\ e.confirmed = d.confirmed
                        /\ e.active = d.active /\ e.peer = d.peer
LegSaved(c, k, ln, kn) ==
    /\ ln \in Legs /\ kn \in Legs /\ kn.a = k.a
    /\ c # NoAttempt => LegSame(ln, kn) /\ kn.entry # "pending"
    /\ k.empty => kn.empty
    /\ k.relayed => kn.relayed
    /\ k.entry \in {"rejected", "expired_not_started", "filled"} => kn.entry = k.entry
    /\ k.prot # "rough" => kn.prot # "rough" /\ (k.prot = "fallback" => kn.prot = "fallback")
JrKept(c, j, jn) ==
    /\ jn \in Journals
    /\ \A a \in Attempts, e \in Effects :
         \/ jn[a][e] = j[a][e]
         \/ /\ a = c /\ <<j[a][e], jn[a][e]>> \in JrMoves
            /\ e \in {"entry", "protection"} => jn[a][e] # "prepared"
Kept(w) ==
    /\ MemKept(mem[w], mem'[w]) /\ DbKept(Cur(w), db[w], db'[w])
    /\ LegSaved(Cur(w), disk[w], leg'[w], disk'[w]) /\ JrKept(Cur(w), jr[w], jr'[w])

\* The thread goes on outside a broker write and outside the entry path.
Plain(w) ==
    /\ run'[w] \in Threads
    /\ run'[w].at \in Landings \cup {"read", "observe", "ticket", "advance", "final"}
    /\ run'[w].at \in Busy => Cur(w)' # NoAttempt
    /\ StageDue(w)'
    /\ At(w, "observe")' => leg'[w].entry \in {"sent", "unknown_after_send"}
    /\ run'[w].ret \in Rets /\ run'[w].then \in Rets \cup {"stopped"}
    /\ At(w, "create")' => run'[w].ret # "rolled"
    /\ ((run'[w].ret = "rolled" \/ At(w, "rolled")') /\ Cur(w)' # NoAttempt) =>
          run[w].ret = "rolled" \/ At(w, "rolled") \/ disk'[w].prot = "fallback"

Routine(w) ==
    /\ run[w].at \notin {"down", "mark", "call"} /\ (OnEntry(w) => At(w, "done"))
    /\ (At(w, "done") /\ run[w].job = "protection") => disk'[w].prot # "rough"
    /\ Kept(w) /\ Plain(w) /\ Touch(w) /\ Mail(w) /\ brk' = brk

\* The state of one Worker, and the domains of the variables.
Local(w) ==
    /\ run[w] \in Threads /\ mem[w] \in Mems /\ leg[w] \in Legs /\ disk[w] \in Legs
    /\ db[w] \in Rows /\ jr[w] \in Journals /\ brk[w] \in Holding
    /\ inbox[w] \in Seq(Messages) /\ Len(inbox[w]) <= MaxInbox
Domains ==
    /\ DOMAIN run = Workers /\ DOMAIN mem = Workers /\ DOMAIN leg = Workers
    /\ DOMAIN disk = Workers /\ DOMAIN db = Workers /\ DOMAIN jr = Workers
    /\ DOMAIN brk = Workers /\ DOMAIN inbox = Workers

-----------------------------------------------------------------------------
(* Lemmas about the steps                                                   *)

LEMMA PeerFacts ==
    ASSUME NEW w \in Workers
    PROVE  Peer(w) \in Workers /\ Peer(w) # w /\ Peer(Peer(w)) = w
  BY DEF Peer, Workers

LEMMA Setup ==
    ASSUME OwnInv, NEW w \in Workers
    PROVE  Local(w) /\ Own(w) /\ Domains
  BY DEF OwnInv, TypeOK, Local, Domains, Journals

\* The relay keeps what is under way and appends some of what is sent.
LEMMA DeliverFacts ==
    ASSUME NEW q \in Seq(Messages), NEW ms \in Seq(Messages), Len(q) <= MaxInbox
    PROVE  /\ Deliver(q, ms) \in Seq(Messages)
           /\ Len(Deliver(q, ms)) <= MaxInbox
           /\ Len(q) <= Len(Deliver(q, ms))
           /\ \A i \in 1 .. Len(q) : Deliver(q, ms)[i] = q[i]
           /\ \A i \in 1 .. Len(Deliver(q, ms)) :
                 i > Len(q) => \E j \in 1 .. Len(ms) : Deliver(q, ms)[i] = ms[j]
<1> DEFINE all == q \o ms
           n == IF Len(all) < MaxInbox THEN Len(all) ELSE MaxInbox
<1>1. /\ all \in Seq(Messages) /\ Len(all) = Len(q) + Len(ms)
      /\ n \in 0 .. Len(all) /\ Len(q) <= n /\ n <= MaxInbox
  BY DEF Deliver
<1>2. /\ Deliver(q, ms) = SubSeq(all, 1, n) /\ SubSeq(all, 1, n) \in Seq(Messages)
      /\ Len(SubSeq(all, 1, n)) = n
      /\ \A i \in 1 .. n : SubSeq(all, 1, n)[i] = all[i]
  BY <1>1, SubSeqProperties DEF Deliver
<1>3. \A i \in 1 .. n : all[i] = IF i <= Len(q) THEN q[i] ELSE ms[i - Len(q)]
  BY <1>1
<1>4. ASSUME NEW i \in 1 .. Len(Deliver(q, ms)), i > Len(q)
      PROVE  \E j \in 1 .. Len(ms) : Deliver(q, ms)[i] = ms[j]
  <2>1. i \in 1 .. n /\ i - Len(q) \in 1 .. Len(ms) /\ Deliver(q, ms)[i] = ms[i - Len(q)]
    BY <1>1, <1>2, <1>3, <1>4
  <2> QED
    BY <2>1
<1> HIDE DEF n, all
<1> QED
  BY <1>1, <1>2, <1>3, <1>4

LEMMA TailFacts ==
    ASSUME NEW q \in Seq(Messages), q # <<>>
    PROVE  /\ Tail(q) \in Seq(Messages) /\ Len(Tail(q)) = Len(q) - 1 /\ Len(q) > 0
           /\ \A i \in 1 .. Len(Tail(q)) : Tail(q)[i] = q[i + 1]
           /\ Head(q) = q[1] /\ q[1] \in Messages
  OBVIOUS

\* Honest envelopes are honest mail, whether or not they arrive.
LEMMA RelayMail ==
    ASSUME OwnInv, NEW w \in Workers, NEW rest, NEW ms \in Seq(Messages), Relay(w, rest, ms),
           rest = inbox[w] \/ (inbox[w] # <<>> /\ rest = Tail(inbox[w])),
           \A j \in 1 .. Len(ms) : Honest(w, ms[j])
    PROVE  Mail(w) /\ inbox'[w] = rest
<1> DEFINE p == Peer(w)
           q == inbox[p]
<1>1. p \in Workers /\ p # w
  BY PeerFacts
<1>2. /\ inbox \in [Workers -> Seq(Messages)] /\ q \in Seq(Messages) /\ Len(q) <= MaxInbox
      /\ inbox[w] \in Seq(Messages) /\ Len(inbox[w]) <= MaxInbox
  BY <1>1 DEF OwnInv, TypeOK
<1>3. rest \in Seq(Messages) /\ Len(rest) <= MaxInbox
  <2>1. CASE inbox[w] # <<>> /\ rest = Tail(inbox[w])
    <3>1. rest \in Seq(Messages) /\ Len(rest) = Len(inbox[w]) - 1
      BY <1>2, <2>1, TailFacts
    <3> QED
      BY <1>2, <3>1
  <2> QED
    BY <1>2, <2>1
<1>4. /\ inbox'[w] = rest
      /\ inbox'[p] = IF run[p].at = "down" THEN q ELSE Deliver(q, ms)
      /\ \A v \in Workers \ {w, p} : inbox'[v] = inbox[v]
      /\ DOMAIN inbox' = Workers
      /\ inbox' = [v \in Workers |-> inbox'[v]]
  BY <1>1, <1>2 DEF Relay
<1>5. /\ inbox'[p] \in Seq(Messages) /\ Len(inbox'[p]) <= MaxInbox /\ Len(q) <= Len(inbox'[p])
      /\ \A i \in 1 .. Len(q) : inbox'[p][i] = q[i]
      /\ \A i \in 1 .. Len(inbox'[p]) : i > Len(q) => \E j \in 1 .. Len(ms) : inbox'[p][i] = ms[j]
  <2>1. CASE run[p].at = "down"
    BY <1>2, <1>4, <2>1
  <2>2. CASE run[p].at # "down"
    <3>1. inbox'[p] = Deliver(q, ms)
      BY <1>4, <2>2
    <3> QED
      BY <1>2, <3>1, DeliverFacts
  <2> QED
    BY <2>1, <2>2
<1>6. \A v \in Workers : inbox'[v] \in Seq(Messages) /\ Len(inbox'[v]) <= MaxInbox
  BY <1>2, <1>3, <1>4, <1>5 DEF OwnInv, TypeOK
<1>7. inbox' \in [Workers -> Seq(Messages)]
  BY <1>4, <1>6
<1> QED
  BY <1>3, <1>4, <1>5, <1>6, <1>7 DEF Mail

LEMMA NoMail ==
    ASSUME OwnInv, NEW w \in Workers, inbox' = inbox
    PROVE  Mail(w)
  BY PeerFacts DEF Mail, OwnInv, TypeOK

\* A step that keeps to its Worker keeps the types of the other.
LEMMA TouchTypes ==
    ASSUME OwnInv, NEW w \in Workers, Touch(w), Mail(w),
           run'[w] \in Threads, mem'[w] \in Mems, leg'[w] \in Legs, disk'[w] \in Legs,
           db'[w] \in Rows, jr'[w] \in Journals, brk'[w] \in Holding
    PROVE  TypeOK'
<1>1. /\ run' \in [Workers -> Threads] /\ mem' \in [Workers -> Mems]
      /\ leg' \in [Workers -> Legs] /\ disk' \in [Workers -> Legs]
  BY DEF OwnInv, TypeOK, Touch
<1>2. db' \in [Workers -> Rows] /\ brk' \in [Workers -> Holding]
  BY DEF OwnInv, TypeOK, Touch
<1>3. jr' \in [Workers -> Journals]
  BY DEF OwnInv, TypeOK, Touch, Journals
<1>4. upsets' \in 0 .. MaxUpsets
  BY DEF OwnInv, TypeOK, Touch
<1> QED
  BY <1>1, <1>2, <1>3, <1>4 DEF TypeOK, Mail, Journals

\* The cell of the other Worker is as it was.
LEMMA TouchFrame ==
    ASSUME OwnInv, NEW w \in Workers, Touch(w), NEW v \in Workers, v # w
    PROVE  /\ run'[v] = run[v] /\ mem'[v] = mem[v] /\ leg'[v] = leg[v] /\ disk'[v] = disk[v]
           /\ db'[v] = db[v] /\ jr'[v] = jr[v] /\ brk'[v] = brk[v]
           /\ Own(v)'
<1>1. /\ run'[v] = run[v] /\ mem'[v] = mem[v] /\ leg'[v] = leg[v] /\ disk'[v] = disk[v]
      /\ db'[v] = db[v] /\ jr'[v] = jr[v] /\ brk'[v] = brk[v]
  BY DEF OwnInv, TypeOK, Touch
<1>2. Own(v)
  BY DEF OwnInv
<1>3. Control(v)'
  BY <1>1, <1>2 DEF Own, Control, StageDue, At, Cur, Stopped, CanCreate, BothObserved,
                    NeedsProtection, Converging, CanFinalize, PeerSendPossible, JournalClear
<1>4. RowsKept(v)' /\ LegKept(v)' /\ Decided(v)'
  BY <1>1, <1>2 DEF Own, RowsKept, LegKept, Decided, At, Cur, Loaded, OnEntry, Stopped
<1>5. EntryStage(v)' /\ EntryKept(v)'
  BY <1>1, <1>2 DEF Own, EntryStage, EntryKept, At, Cur, OnEntry, Journal
<1>6. ProtectedOnce(v)' /\ RolledBack(v)'
  BY <1>1, <1>2 DEF Own, ProtectedOnce, RolledBack, At, Cur, OnEntry, Journal
<1> QED
  BY <1>1, <1>3, <1>4, <1>5, <1>6 DEF Own

LEMMA MailToLeader ==
    ASSUME OwnInv, NEW w \in Workers, Mail(w)
    PROVE  LeaderMail'
<1>1. SUFFICES ASSUME NEW i \in 1 .. Len(inbox'["leader"]), inbox'["leader"][i].kind = "attempt"
      PROVE  FALSE
  <2>1. inbox'["leader"] \in Seq(Messages)
    BY DEF Mail, Workers
  <2> QED
    BY <1>1, <2>1 DEF LeaderMail
<1>2. inbox["leader"] \in Seq(Messages) /\ LeaderMail
  BY DEF OwnInv, TypeOK, Workers
<1>3. CASE w = "leader"
  <2>1. CASE inbox["leader"] # <<>> /\ inbox'["leader"] = Tail(inbox["leader"])
    BY <1>1, <1>2, <2>1, TailFacts DEF LeaderMail
  <2>2. CASE inbox'["leader"] = <<>>
    BY <1>1, <2>2
  <2> QED
    BY <1>1, <1>2, <1>3, <2>1, <2>2 DEF Mail, LeaderMail
<1>4. CASE w = "follower"
  <2>1. Peer(w) = "leader"
    BY <1>4 DEF Peer
  <2>2. CASE i <= Len(inbox["leader"])
    BY <1>1, <1>2, <2>1, <2>2 DEF Mail, LeaderMail
  <2>3. CASE i > Len(inbox["leader"])
    <3>1. At(w, "relay")
      BY <1>1, <2>1, <2>3 DEF Mail, Honest
    <3> QED
      BY <1>4, <3>1 DEF OwnInv, Own, Control
  <2> QED
    BY <1>2, <2>2, <2>3
<1> QED
  BY <1>3, <1>4 DEF Workers

LEMMA StepInv ==
    ASSUME OwnInv, NEW w \in Workers, Touch(w), Mail(w), Own(w)',
           run'[w] \in Threads, mem'[w] \in Mems, leg'[w] \in Legs, disk'[w] \in Legs,
           db'[w] \in Rows, jr'[w] \in Journals, brk'[w] \in Holding
    PROVE  OwnInv'
<1>1. TypeOK' /\ LeaderMail'
  BY TouchTypes, MailToLeader
<1>2. \A v \in Workers : Own(v)'
  BY TouchFrame
<1> QED
  BY <1>1, <1>2 DEF OwnInv

\* What a routine step keeps.
LEMMA RoutineOwn ==
    ASSUME NEW w \in Workers, Local(w), Own(w), Routine(w)
    PROVE  Own(w)'
<1>1. /\ ~OnEntry(w)' /\ ~At(w, "down")' /\ ~At(w, "down") /\ ~At(w, "leg")' /\ ~At(w, "leg")
      /\ run'[w].at \notin {"mark", "call", "done", "relay"}
  BY DEF Routine, Plain, OnEntry, At, Landings, Rets
<1>2. Control(w)'
  BY <1>1 DEF Routine, Plain, Control, At
<1>3. RowsKept(w)'
  BY <1>1 DEF Own, RowsKept, Routine, Kept, MemKept, DbKept, Cur, Loaded
<1>4. LegKept(w)'
  BY <1>1 DEF Own, LegKept, Routine, Kept, MemKept, DbKept, LegSaved, LegSame, Cur
<1>5. Decided(w)'
  BY <1>1 DEF Own, Decided, Routine, Kept, MemKept, DbKept, Cur, Stopped
<1>6. EntryStage(w)'
  BY <1>1 DEF EntryStage, Routine, Plain, At, Landings, Rets
<1>7. /\ mem'[w].cur = Cur(w) /\ db'[w].row = db[w].row
      /\ Cur(w) # NoAttempt => db[w].row[Cur(w)] = "live" /\ Cur(w) \in Attempts
  BY DEF Own, RowsKept, Routine, Kept, MemKept, DbKept, Cur, Local, Mems
<1>8. EntryKept(w)'
  <2>1. ASSUME NEW a \in Attempts, db[w].row[a] = "none", NEW e \in Effects
        PROVE  jr'[w][a][e] = "none"
    <3>1. a # Cur(w) /\ jr[w][a][e] = "none"
      BY <1>7, <2>1 DEF Own, EntryKept, Attempts, NoAttempt
    <3> QED
      BY <3>1 DEF Routine, Kept, JrKept
  <2>2. ASSUME NEW a \in Attempts
        PROVE  jr'[w][a]["entry"] # "prepared"
    <3>1. jr[w][a]["entry"] # "prepared"
      BY DEF Own, EntryKept, EntryStage, Journal, OnEntry, At, Routine
    <3> QED
      BY <3>1 DEF Routine, Kept, JrKept, Effects
  <2>3. Cur(w)' # NoAttempt => leg'[w].entry # "pending"
    BY <1>7 DEF Routine, Kept, LegSaved, LegSame, Cur
  <2> QED
    BY <1>7, <2>1, <2>2, <2>3 DEF EntryKept
<1>9. Cur(w) # NoAttempt => leg[w].prot = disk[w].prot /\ leg'[w].prot = disk'[w].prot
  BY <1>1 DEF Own, LegKept, Routine, Kept, LegSaved, LegSame
<1>10. ProtectedOnce(w)'
  <2>1. SUFFICES ASSUME Cur(w) # NoAttempt, Journal(w, "protection")' # "none",
                        leg'[w].prot = "rough"
        PROVE  db'[w].desired = "EMPTY"
    BY <1>1, <1>7 DEF ProtectedOnce, At, Cur
  <2>2. disk'[w].prot = "rough" /\ disk[w].prot = "rough" /\ leg[w].prot = "rough"
    BY <2>1, <1>9 DEF Routine, Kept, LegSaved
  <2>3. Cur(w) \in Attempts /\ jr'[w][Cur(w)]["protection"] # "none"
    BY <1>7, <2>1 DEF Cur, Journal
  <2>4. Journal(w, "protection") # "none"
    BY <2>3 DEF Routine, Kept, JrKept, Effects, Journal, JrMoves
  <2>5. db[w].desired = "EMPTY"
    BY <2>1, <2>2, <2>4 DEF Own, ProtectedOnce, Routine, At
  <2> QED
    BY <2>5 DEF Routine, Kept, DbKept
<1>11. RolledBack(w)'
  <2>1. At(w, "create")' \/ OnEntry(w)' => run'[w].ret # "rolled"
    BY <1>1 DEF Routine, Plain
  <2>2. ASSUME run'[w].ret = "rolled" \/ At(w, "rolled")', Cur(w) # NoAttempt
        PROVE  leg'[w].prot = "fallback"
    BY <1>7, <1>9, <2>2 DEF Routine, Plain, Kept, LegSaved, Own, RolledBack, Cur
  <2> QED
    BY <1>7, <2>1, <2>2 DEF RolledBack, Cur
<1> QED
  BY <1>2, <1>3, <1>4, <1>5, <1>6, <1>8, <1>10, <1>11 DEF Own

LEMMA RoutineInv ==
    ASSUME OwnInv, NEW w \in Workers, Routine(w)
    PROVE  OwnInv'
<1>1. Local(w) /\ Own(w)
  BY Setup
<1>2. Own(w)'
  BY <1>1, RoutineOwn
<1>3. /\ run'[w] \in Threads /\ mem'[w] \in Mems /\ leg'[w] \in Legs /\ disk'[w] \in Legs
      /\ db'[w] \in Rows /\ jr'[w] \in Journals /\ brk'[w] \in Holding
  BY <1>1 DEF Routine, Plain, Kept, MemKept, DbKept, LegSaved, JrKept, Local
<1> QED
  BY <1>2, <1>3, StepInv DEF Routine

-----------------------------------------------------------------------------
(* Where the thread goes on                                                 *)

LEMMA ThreadFacts ==
    ASSUME NEW x \in Stages
    PROVE  /\ Thread(x) \in Threads /\ Thread(x).at = x /\ Thread(x).ret = "gate"
           /\ Thread(x).then = "gate" /\ Thread(x).job = "entry"
  BY DEF Thread, Threads, Stages, Effects, NoEntry, Holding, Holdings

LEMMA FromLands ==
    ASSUME NEW w \in Workers, NEW s \in Rets \cup {"create", "protect", "wrap", "stopped"},
           s = "create" => ~Stopped(w)
    PROVE  LET x == From(w, s) IN
           /\ x \in Landings /\ (x = "rolled" => s = "rolled") /\ (s = "rolled" => x = "rolled")
           /\ x = "create" => CanCreate(w) /\ ~Stopped(w)
           /\ x = "confirm" => BothObserved(w)
           /\ x = "protect" => NeedsProtection(w)
           /\ x = "converge" => Converging(w)
           /\ x = "tail" => CanFinalize(w)
  BY DEF From, FromGate, FromCreate, FromConfirm, FromProtect, FromConverge, FromTail, FromWrap,
         Due, Landings, Rets

\* The same after a step.
LEMMA FromLandsNext ==
    ASSUME NEW w \in Workers, NEW s \in Rets \cup {"create", "protect", "wrap", "stopped"},
           s = "create" => ~Stopped(w)'
    PROVE  LET x == From(w, s)' IN
           /\ x \in Landings /\ (x = "rolled" => s = "rolled")
           /\ x = "create" => CanCreate(w)' /\ ~Stopped(w)'
           /\ x = "confirm" => BothObserved(w)'
           /\ x = "protect" => NeedsProtection(w)'
           /\ x = "converge" => Converging(w)'
           /\ x = "tail" => CanFinalize(w)'
  BY DEF From, FromGate, FromCreate, FromConfirm, FromProtect, FromConverge, FromTail, FromWrap,
         Due, Landings, Rets

LEMMA PlainResume ==
    ASSUME OwnInv, NEW w \in Workers,
           NEW s \in Rets \cup {"create", "protect", "wrap", "stopped"}, Resume(w, s),
           s = "create" => ~Stopped(w)',
           s = "rolled" => run[w].ret = "rolled" \/ Cur(w)' = NoAttempt,
           s \in {"settle", "stops"} => run[w].ret # "rolled" \/ Cur(w)' = NoAttempt
    PROVE  Plain(w) /\ run' = [run EXCEPT ![w] = run'[w]]
<1> DEFINE x == From(w, s)'
<1>1. run \in [Workers -> Threads] /\ run[w] \in Threads /\ Own(w)
  BY Setup DEF OwnInv, TypeOK
<1>2. /\ x \in Landings /\ (x = "rolled" => s = "rolled")
      /\ x = "create" => CanCreate(w)' /\ ~Stopped(w)'
      /\ x = "confirm" => BothObserved(w)'
      /\ x = "protect" => NeedsProtection(w)'
      /\ x = "converge" => Converging(w)'
      /\ x = "tail" => CanFinalize(w)'
  BY FromLandsNext
<1>3. CASE s \in {"settle", "stops"}
  <2>1. run' = [run EXCEPT ![w] = [run[w] EXCEPT !.at = s]] /\ s \in Stages
    BY <1>3 DEF Resume, Goto, Stages
  <2>2. run'[w] = [run[w] EXCEPT !.at = s]
    BY <2>1, <1>1
  <2>3. run'[w] \in Threads /\ run'[w].at = s /\ run'[w].ret = run[w].ret /\ run'[w].then = run[w].then
    BY <1>1, <2>1, <2>2 DEF Threads
  <2> QED
    BY <1>1, <1>3, <2>1, <2>2, <2>3 DEF Plain, Landings, Rets, StageDue, At, Busy, Own, Control
<1>4. CASE s \notin {"settle", "stops"}
  <2>1. run' = [run EXCEPT ![w] = Thread(x)] /\ x \in Stages
    BY <1>2, <1>4 DEF Resume, Begin, Landings, Rets, Stages
  <2>2. run'[w] = Thread(x)
    BY <2>1, <1>1
  <2>3. run'[w] \in Threads /\ run'[w].at = x /\ run'[w].ret = "gate" /\ run'[w].then = "gate"
    BY <2>1, <2>2, ThreadFacts
  <2> HIDE DEF x
  <2>4. StageDue(w)' /\ (run'[w].at \in Busy => Cur(w)' # NoAttempt)
    BY <1>2, <2>3 DEF Landings, Rets, StageDue, At, Busy, BothObserved, NeedsProtection,
                      Converging, CanFinalize
  <2> QED
    BY <1>2, <2>1, <2>2, <2>3, <2>4 DEF Plain, Landings, Rets, At
<1> QED
  BY <1>3, <1>4

LEMMA PlainGoto ==
    ASSUME OwnInv, NEW w \in Workers, NEW s \in {"ticket", "advance"}, Goto(w, s),
           Cur(w)' # NoAttempt
    PROVE  Plain(w) /\ run' = [run EXCEPT ![w] = run'[w]]
<1>1. run \in [Workers -> Threads] /\ run[w] \in Threads /\ Own(w)
  BY Setup DEF OwnInv, TypeOK
<1>2. run' = [run EXCEPT ![w] = [run[w] EXCEPT !.at = s]] /\ s \in Stages
  BY DEF Goto, Stages
<1>3. run'[w] = [run[w] EXCEPT !.at = s]
  BY <1>1, <1>2
<1>4. run'[w] \in Threads /\ run'[w].at = s /\ run'[w].ret = run[w].ret /\ run'[w].then = run[w].then
  BY <1>1, <1>2, <1>3 DEF Threads
<1> QED
  BY <1>1, <1>2, <1>3, <1>4 DEF Plain, At, StageDue, Own, Control

LEMMA SeenType ==
    ASSUME OwnInv, NEW w \in Workers
    PROVE  SeenPositions(w) \in Holding /\ SeenOrders(w) \in SUBSET Attempts
  BY Setup DEF Local, SeenPositions, SeenOrders, Holding, Holdings

LEMMA PlainRead ==
    ASSUME OwnInv, NEW w \in Workers, NEW r \in Rets, ReadThen(w, r),
           r = "rolled" => run[w].ret = "rolled" \/ disk'[w].prot = "fallback"
    PROVE  Plain(w) /\ run' = [run EXCEPT ![w] = run'[w]]
<1>1. run \in [Workers -> Threads] /\ run[w] \in Threads /\ Own(w)
  BY Setup DEF OwnInv, TypeOK
<1>2. run' = [run EXCEPT ![w] = Read(w, run[w], r)]
  BY DEF ReadThen, Begin
<1>3. run'[w] = Read(w, run[w], r)
  BY <1>1, <1>2
<1>4. r \in Stages /\ "read" \in Stages /\ SeenPositions(w) \in Holding
  BY SeenType DEF Stages, Rets
<1>5. run'[w] \in Threads /\ run'[w].at = "read" /\ run'[w].ret = r /\ run'[w].then = run[w].then
  <2>1. run[w] \in Threads
    BY <1>1
  <2> QED
    BY <1>3, <1>4, <2>1 DEF Read, Threads
<1> QED
  BY <1>1, <1>2, <1>3, <1>5 DEF Plain, At, StageDue, Own, Control, Busy

LEMMA PlainIdle ==
    ASSUME OwnInv, NEW w \in Workers, NEW s \in {"idle", "stops"}, Begin(w, Thread(s))
    PROVE  Plain(w) /\ run' = [run EXCEPT ![w] = run'[w]]
<1>1. run \in [Workers -> Threads] /\ s \in Stages
  BY DEF OwnInv, TypeOK, Stages
<1>2. run' = [run EXCEPT ![w] = Thread(s)] /\ run'[w] = Thread(s)
  BY <1>1 DEF Begin
<1>3. run'[w] \in Threads /\ run'[w].at = s /\ run'[w].ret = "gate" /\ run'[w].then = "gate"
  BY <1>1, <1>2, ThreadFacts
<1> QED
  BY <1>2, <1>3 DEF Plain, At, StageDue, Landings, Rets, Busy

LEMMA PlainFinal ==
    ASSUME OwnInv, NEW w \in Workers, NEW r \in Rets \cup {"stopped"}, FinalThen(w, r),
           r = "rolled" => run[w].ret = "rolled",
           r \in {"settle", "stops"} => run[w].ret # "rolled"
    PROVE  Plain(w) /\ run' = [run EXCEPT ![w] = run'[w]]
<1>1. run \in [Workers -> Threads] /\ run[w] \in Threads /\ Own(w)
  BY Setup DEF OwnInv, TypeOK
<1>2. CASE ~CanFinalize(w)'
  BY <1>2, PlainResume DEF FinalThen, Rets
<1>3. CASE CanFinalize(w)'
  <2>1. run' = [run EXCEPT ![w] = [run[w] EXCEPT !.at = "final", !.then = r]]
    BY <1>3 DEF FinalThen, Begin
  <2>2. run'[w] = [run[w] EXCEPT !.at = "final", !.then = r]
    BY <1>1, <2>1
  <2>3. run'[w] \in Threads /\ run'[w].at = "final" /\ run'[w].ret = run[w].ret /\ run'[w].then = r
    <3>1. r \in Stages /\ "final" \in Stages /\ run[w] \in Threads
      BY <1>1 DEF Stages, Rets
    <3> QED
      BY <2>2, <3>1 DEF Threads
  <2> QED
    BY <1>1, <1>3, <2>1, <2>2, <2>3 DEF Plain, At, StageDue, Own, Control, CanFinalize
<1> QED
  BY <1>2, <1>3

-----------------------------------------------------------------------------
(* Updates of the records                                                   *)

LEMMA MemUpdates ==
    ASSUME NEW m \in Mems
    PROVE  /\ MemKept(m, m) /\ MemKept(m, CloseMem(m))
           /\ MemKept(m, [m EXCEPT !.wait = "no"]) /\ MemKept(m, CloseMem([m EXCEPT !.wait = "no"]))
           /\ \A b \in BOOLEAN : MemKept(m, [m EXCEPT !.timer = b])
           /\ \A x \in SUBSET Containment : MemKept(m, [m EXCEPT !.deferred = x])
<1>1. MemKept(m, m)
  BY DEF MemKept
<1>2. MemKept(m, CloseMem(m))
  BY DEF MemKept, Mems, CloseMem
<1>3. MemKept(m, [m EXCEPT !.wait = "no"])
  BY DEF MemKept, Mems
<1>4. MemKept(m, CloseMem([m EXCEPT !.wait = "no"]))
  BY DEF MemKept, Mems, CloseMem
<1>5. \A b \in BOOLEAN : MemKept(m, [m EXCEPT !.timer = b])
  BY DEF MemKept, Mems
<1>6. \A x \in SUBSET Containment : MemKept(m, [m EXCEPT !.deferred = x])
  BY DEF MemKept, Mems
<1> QED
  BY <1>1, <1>2, <1>3, <1>4, <1>5, <1>6

LEMMA MemStates ==
    ASSUME NEW m \in Mems, NEW s \in PairStates, s \notin {"IDLE", "EMPTY"}
    PROVE  MemKept(m, [m EXCEPT !.st = s]) /\ MemKept(m, CloseMem([m EXCEPT !.st = s]))
<1>1. MemKept(m, [m EXCEPT !.st = s])
  BY DEF MemKept, Mems
<1>2. MemKept(m, CloseMem([m EXCEPT !.st = s]))
  BY DEF MemKept, Mems, CloseMem
<1> QED
  BY <1>1, <1>2

LEMMA DbUpdates ==
    ASSUME NEW d \in Rows, NEW c \in Attempts
    PROVE  /\ \A x : DbKept(x, d, d)
           /\ DbKept(c, d, CloseDb(d))
           /\ \A why \in Stops : DbKept(c, d, Stop(d, why, c))
           /\ \A s \in PeerStatuses : DbKept(c, d, [d EXCEPT !.peer = s])
           /\ \A s \in PeerStatuses : DbKept(c, d, CloseDb([d EXCEPT !.peer = s]))
           /\ DbKept(c, d, [d EXCEPT !.confirmed = TRUE])
           /\ DbKept(c, d, [d EXCEPT !.active = TRUE])
<1>1. \A x : DbKept(x, d, d)
  BY DEF DbKept
<1>2. c # NoAttempt
  BY DEF Attempts, NoAttempt
<1>3. DbKept(c, d, CloseDb(d))
  BY <1>2 DEF DbKept, CloseDb, Rows
<1>4. ASSUME NEW why \in Stops PROVE DbKept(c, d, Stop(d, why, c))
  BY <1>2 DEF DbKept, Stop, Rows
<1>5. ASSUME NEW s \in PeerStatuses PROVE DbKept(c, d, [d EXCEPT !.peer = s])
  BY <1>2 DEF DbKept, Rows
<1>6. ASSUME NEW s \in PeerStatuses PROVE DbKept(c, d, CloseDb([d EXCEPT !.peer = s]))
  BY <1>2 DEF DbKept, CloseDb, Rows
<1>7. DbKept(c, d, [d EXCEPT !.confirmed = TRUE]) /\ DbKept(c, d, [d EXCEPT !.active = TRUE])
  BY <1>2 DEF DbKept, Rows
<1> QED
  BY <1>1, <1>3, <1>4, <1>5, <1>6, <1>7

\* A stop that is taken back.
LEMMA DbUnlatched ==
    ASSUME NEW d \in Rows, NEW c
    PROVE  DbKept(c, d, Unlatched(d))
  BY DEF DbKept, Unlatched, NoStop, Rows, Stops

\* What does not change is kept.
LEMMA Unmoved ==
    ASSUME OwnInv, NEW w \in Workers
    PROVE  /\ mem' = mem => MemKept(mem[w], mem'[w])
           /\ db' = db => DbKept(Cur(w), db[w], db'[w])
           /\ (leg' = leg /\ disk' = disk /\ ~OnEntry(w)) => LegSaved(Cur(w), disk[w], leg'[w], disk'[w])
           /\ jr' = jr => JrKept(Cur(w), jr[w], jr'[w])
<1>1. Local(w) /\ Own(w)
  BY Setup
<1>2. mem' = mem => MemKept(mem[w], mem'[w])
  BY <1>1 DEF Local, MemKept
<1>3. db' = db => DbKept(Cur(w), db[w], db'[w])
  BY <1>1 DEF Local, DbKept
<1>4. (leg' = leg /\ disk' = disk /\ ~OnEntry(w)) => LegSaved(Cur(w), disk[w], leg'[w], disk'[w])
  BY <1>1 DEF Local, LegSaved, LegSame, Own, LegKept, EntryKept, OnEntry, At
<1>5. jr' = jr => JrKept(Cur(w), jr[w], jr'[w])
  BY <1>1 DEF Local, JrKept
<1> QED
  BY <1>2, <1>3, <1>4, <1>5

LEMMA Observed ==
    ASSUME OwnInv, NEW w \in Workers, NEW E, RecordObserved(w, E), Cur(w) \in Attempts
    PROVE  JrKept(Cur(w), jr[w], jr'[w]) /\ jr' = [jr EXCEPT ![w] = jr'[w]]
<1>1. jr \in [Workers -> Journals] /\ jr[w] \in Journals
  BY DEF OwnInv, TypeOK, Journals
<1>2. jr'[w] = [jr[w] EXCEPT ![Cur(w)] =
                  [e \in Effects |-> IF e \in E /\ Open(@[e]) THEN "observed" ELSE @[e]]]
  BY <1>1 DEF RecordObserved
<1>3. jr' = [jr EXCEPT ![w] = jr'[w]]
  BY <1>1 DEF RecordObserved
<1>4. JrKept(Cur(w), jr[w], jr'[w])
  BY <1>1, <1>2 DEF JrKept, Journals, JrMoves, Open, EffectStates
<1> QED
  BY <1>3, <1>4

LEMMA Closing ==
    ASSUME OwnInv, NEW w \in Workers, BeginClose(w), Cur(w) \in Attempts
    PROVE  /\ MemKept(mem[w], mem'[w]) /\ mem' = [mem EXCEPT ![w] = mem'[w]]
           /\ DbKept(Cur(w), db[w], db'[w]) /\ db' = [db EXCEPT ![w] = db'[w]]
           /\ db'[w].human = db[w].human
<1>1. Local(w) /\ mem \in [Workers -> Mems] /\ db \in [Workers -> Rows]
  BY Setup DEF OwnInv, TypeOK
<1>2. mem' = [mem EXCEPT ![w] = CloseMem(mem[w])] /\ db' = [db EXCEPT ![w] = CloseDb(db[w])]
  BY DEF BeginClose, SetDb, SetMem
<1>3. mem'[w] = CloseMem(mem[w]) /\ db'[w] = CloseDb(db[w])
  BY <1>1, <1>2
<1>4. db'[w].human = db[w].human
  BY <1>1, <1>3 DEF CloseDb, Rows, Local
<1> QED
  BY <1>1, <1>2, <1>3, <1>4, MemUpdates, DbUpdates DEF Local

\* At these stages a cell neither enters nor waits for a broker write.
Free(w) == run[w].at \notin {"down", "leg", "prepare", "relay", "mark", "call", "done"}

LEMMA FreeRoutine ==
    ASSUME NEW w \in Workers, Free(w), Kept(w), Plain(w), Touch(w), Mail(w), brk' = brk
    PROVE  Routine(w)
  BY DEF Routine, Free, OnEntry, At

LEMMA FreeFacts ==
    ASSUME OwnInv, NEW w \in Workers, Free(w)
    PROVE  /\ ~OnEntry(w) /\ (run[w].at \in Busy => Cur(w) \in Attempts)
           /\ run[w].ret \in Rets /\ run[w].then \in Rets \cup {"stopped"}
  BY Setup DEF Free, OnEntry, Own, Control, Local, Mems, Cur, NoAttempt

\* A step that only moves the thread.
LEMMA StillRoutine ==
    ASSUME OwnInv, NEW w \in Workers, Free(w), Plain(w), run' = [run EXCEPT ![w] = run'[w]],
           UNCHANGED <<mem, leg, disk, db, jr, brk, inbox>>,
           upsets' = upsets \/ (upsets < MaxUpsets /\ upsets' = upsets + 1)
    PROVE  Routine(w)
<1>1. Kept(w)
  BY Unmoved, FreeFacts DEF Kept
<1>2. Touch(w)
  BY DEF Touch
<1> QED
  BY <1>1, <1>2, NoMail, FreeRoutine

LEMMA UpsetBound ==
    ASSUME NEW kind, NEW p, UpsetIf(kind, p) \/ Upset(kind)
    PROVE  upsets' = upsets \/ (upsets < MaxUpsets /\ upsets' = upsets + 1)
  BY DEF UpsetIf, Upset

-----------------------------------------------------------------------------
(* The steps that only move the thread                                      *)

LEMMA StillSteps ==
    ASSUME OwnInv, NEW w \in Workers,
           \/ NoCandidate(w) \/ ReadFails(w) \/ HeldWhileStopped(w) \/ StillEmpty(w)
           \/ StopKept(w) \/ GatePass(w) \/ Tick(w)
    PROVE  Routine(w)
<1>1. Free(w) /\ run[w].ret \in Rets
  BY FreeFacts DEF Free, NoCandidate, ReadFails, HeldWhileStopped, StillEmpty, StopKept, GatePass,
                   Tick, Ready, At
<1>2. /\ UNCHANGED <<mem, leg, disk, db, jr, brk, inbox>>
      /\ upsets' = upsets \/ (upsets < MaxUpsets /\ upsets' = upsets + 1)
  BY DEF NoCandidate, ReadFails, HeldWhileStopped, StillEmpty, StopKept, GatePass, Tick, Upset
<1>3. Resume(w, "confirm") \/ Resume(w, run[w].ret) \/ Resume(w, "gate") \/ (Resume(w, "create") /\ ~Stopped(w)')
  BY <1>2 DEF NoCandidate, ReadFails, HeldWhileStopped, StillEmpty, StopKept, GatePass, Tick, Stopped
<1>4. Plain(w) /\ run' = [run EXCEPT ![w] = run'[w]]
  BY <1>1, <1>3, PlainResume DEF Rets
<1> QED
  BY <1>1, <1>2, <1>4, StillRoutine

\* The thread at the second call of a read: what it has read, and where it goes.
LEMMA ReadSecondStep ==
    ASSUME OwnInv, NEW w \in Workers, ReadSecond(w)
    PROVE  Routine(w)
<1> DEFINE t == IF run[w].first = "positions"
                THEN [run[w] EXCEPT !.ord = SeenOrders(w), !.fresh = TRUE]
                ELSE [run[w] EXCEPT !.pos = SeenPositions(w), !.fresh = TRUE]
           x == From(w, run[w].ret)
           stage == CASE Cur(w) = NoAttempt -> x
                      [] Cur(w) # NoAttempt /\ Unproved(w, t) -> "observe"
                      [] OTHER -> IF leg[w].ticket # NoAttempt THEN "ticket"
                                  ELSE IF db[w].desired = "EMPTY" THEN "advance"
                                  ELSE x
<1>1. /\ At(w, "read") /\ run[w].ret \in Rets /\ run[w] \in Threads /\ run \in [Workers -> Threads]
      /\ run[w].then \in Rets \cup {"stopped"}
  BY Setup DEF ReadSecond, Own, Control, OwnInv, TypeOK
<1>2. /\ Begin(w, IF stage = "idle" THEN Thread("idle") ELSE [t EXCEPT !.at = stage])
      /\ UNCHANGED <<mem, leg, disk, db, jr, brk, inbox, upsets>>
  BY DEF ReadSecond
<1>3. /\ x \in Landings /\ (x = "rolled" => run[w].ret = "rolled") /\ (run[w].ret = "rolled" => x = "rolled")
      /\ x = "create" => CanCreate(w) /\ ~Stopped(w)
      /\ x = "confirm" => BothObserved(w)
      /\ x = "protect" => NeedsProtection(w)
      /\ x = "converge" => Converging(w)
      /\ x = "tail" => CanFinalize(w)
  BY <1>1, FromLands DEF Rets
<1>4. t \in Threads /\ t.ret = run[w].ret /\ t.then = run[w].then
  <2>1. SeenPositions(w) \in Holding /\ SeenOrders(w) \in SUBSET Attempts /\ run[w] \in Threads
    BY <1>1, SeenType
  <2> QED
    BY <2>1 DEF Threads
<1> HIDE DEF t, x
<1>5. /\ stage \in {x, "observe", "ticket", "advance"}
      /\ stage \in {"observe", "ticket", "advance"} => Cur(w) # NoAttempt \/ stage = x
      /\ stage = "observe" => Unproved(w, t) \/ stage = x
  OBVIOUS
<1> HIDE DEF stage
<1>6. stage \in Landings \cup {"observe", "ticket", "advance"} /\ stage \in Stages
  BY <1>3, <1>5 DEF Landings, Rets, Stages
<1>7. /\ run' = [run EXCEPT ![w] = run'[w]]
      /\ run'[w] = IF stage = "idle" THEN Thread("idle") ELSE [t EXCEPT !.at = stage]
  BY <1>1, <1>2 DEF Begin
<1>8. /\ run'[w] \in Threads /\ run'[w].at = stage
      /\ run'[w].ret \in {"gate", run[w].ret} /\ run'[w].then \in {"gate", run[w].then}
  <2>1. CASE stage = "idle"
    BY <1>6, <1>7, <2>1, ThreadFacts
  <2>2. CASE stage # "idle"
    BY <1>4, <1>6, <1>7, <2>2 DEF Threads
  <2> QED
    BY <2>1, <2>2
<1>9. Cur(w)' = Cur(w) /\ leg' = leg
  BY <1>2 DEF Cur
<1>10. StageDue(w)'
  <2>1. /\ stage = "create" => CanCreate(w) /\ ~Stopped(w)
        /\ stage = "confirm" => BothObserved(w)
        /\ stage = "protect" => NeedsProtection(w)
        /\ stage = "converge" => Converging(w)
        /\ stage \in {"final", "tail"} => CanFinalize(w)
    BY <1>3, <1>5, <1>6 DEF Landings, Rets
  <2> QED
    BY <2>1, <1>2, <1>8 DEF StageDue, At, Cur, Stopped, CanCreate, BothObserved, NeedsProtection,
                            Converging, CanFinalize, PeerSendPossible, JournalClear
<1>11. Plain(w)
  <2>1. run'[w].at \in Busy => Cur(w)' # NoAttempt
    BY <1>3, <1>5, <1>6, <1>8, <1>9 DEF Landings, Rets, Busy, BothObserved, NeedsProtection,
                                  Converging, CanFinalize
  <2>2. At(w, "observe")' => leg'[w].entry \in {"sent", "unknown_after_send"}
    BY <1>3, <1>5, <1>8, <1>9 DEF At, Unproved, Landings, Rets
  <2>3. At(w, "create")' => run'[w].ret # "rolled"
    BY <1>3, <1>5, <1>8 DEF At
  <2>4. (run'[w].ret = "rolled" \/ At(w, "rolled")') => run[w].ret = "rolled"
    BY <1>3, <1>5, <1>8 DEF At
  <2> QED
    BY <1>1, <1>6, <1>8, <1>10, <2>1, <2>2, <2>3, <2>4 DEF Plain, Rets
<1> QED
  BY <1>1, <1>2, <1>7, <1>11, StillRoutine DEF Free, At

\* Reads that an event or a deferred effect asks for.
LEMMA ReadSteps ==
    ASSUME OwnInv, NEW w \in Workers, SnapshotEvent(w) \/ SettleDeferred(w)
    PROVE  Routine(w)
<1>1. /\ run[w] \in Threads /\ run \in [Workers -> Threads] /\ Free(w) /\ Own(w) /\ mem[w] \in Mems
      /\ UNCHANGED <<mem, leg, disk, db, jr, brk, inbox, upsets>>
  BY Setup DEF OwnInv, TypeOK, Free, SnapshotEvent, SettleDeferred, Ready, At
<1>2. SeenPositions(w) \in Holding /\ SeenOrders(w) \in SUBSET Attempts
  BY SeenType
<1>3. {"read", "stops", "settle"} \subseteq Stages
  BY DEF Stages
<1>4. \E t \in Threads :
         /\ run' = [run EXCEPT ![w] = t]
         /\ t.at = "read" /\ t.ret \in {"stops", "settle"} /\ t.then \in Rets \cup {"stopped"}
  <2>1. CASE SnapshotEvent(w)
    <3> DEFINE u == Thread("read")
               t == [u EXCEPT !.first = "orders", !.ord = SeenOrders(w), !.ret = "stops"]
    <3>1. u \in Threads /\ u.at = "read" /\ u.then = "gate"
      BY <1>3, ThreadFacts
    <3> HIDE DEF u
    <3>2. t \in Threads /\ t.at = "read" /\ t.ret = "stops" /\ t.then = "gate"
      BY <3>1, <1>2, <1>3 DEF Threads
    <3>3. run' = [run EXCEPT ![w] = t]
      BY <2>1 DEF SnapshotEvent, Begin, u
    <3> HIDE DEF t
    <3> QED
      BY <3>2, <3>3 DEF Rets
  <2>2. CASE SettleDeferred(w)
    <3>1. PICK effect \in mem[w].deferred : Begin(w, [Read(w, run[w], "settle") EXCEPT !.job = effect])
      BY <2>2 DEF SettleDeferred
    <3>2. effect \in Effects
      BY <1>1, <3>1 DEF Mems, Containment, Effects
    <3> DEFINE u == Read(w, run[w], "settle")
               t == [u EXCEPT !.job = effect]
    <3>3. u \in Threads /\ u.at = "read" /\ u.ret = "settle" /\ u.then = run[w].then
      BY <1>1, <1>2, <1>3 DEF Read, Threads
    <3> HIDE DEF u
    <3>4. t \in Threads /\ t.at = "read" /\ t.ret = "settle" /\ t.then = run[w].then
      BY <3>2, <3>3 DEF Threads
    <3>5. run' = [run EXCEPT ![w] = t]
      BY <3>1 DEF Begin, u
    <3> HIDE DEF t
    <3> QED
      BY <1>1, <3>4, <3>5 DEF Own, Control
  <2> QED
    BY <2>1, <2>2
<1>5. Plain(w) /\ run' = [run EXCEPT ![w] = run'[w]]
  BY <1>1, <1>4 DEF Plain, At, StageDue, Landings, Rets, Busy
<1> QED
  BY <1>1, <1>5, StillRoutine

-----------------------------------------------------------------------------
(* The steps that send nothing                                              *)

LEMMA AfterReadPlain ==
    ASSUME OwnInv, NEW w \in Workers, Free(w), Cur(w)' # NoAttempt,
           AfterEntryRead(w) \/ AfterTicket(w)
    PROVE  Plain(w) /\ run' = [run EXCEPT ![w] = run'[w]]
<1>1. run[w].ret \in Rets
  BY FreeFacts
<1>2. Goto(w, "ticket") \/ Goto(w, "advance") \/ Resume(w, run[w].ret)
  BY DEF AfterEntryRead, AfterTicket
<1> QED
  BY <1>1, <1>2, PlainGoto, PlainResume DEF Rets

\* A step on the memory and the tables of a cell.
LEMMA CalmRoutine ==
    ASSUME OwnInv, NEW w \in Workers, Free(w), UNCHANGED <<leg, disk, jr, brk, inbox>>,
           mem' = mem \/ (mem' = [mem EXCEPT ![w] = mem'[w]] /\ MemKept(mem[w], mem'[w])),
           db' = db \/ (db' = [db EXCEPT ![w] = db'[w]] /\ DbKept(Cur(w), db[w], db'[w])),
           upsets' = upsets \/ (upsets < MaxUpsets /\ upsets' = upsets + 1),
           Plain(w), run' = [run EXCEPT ![w] = run'[w]]
    PROVE  Routine(w)
<1>1. Kept(w)
  BY Unmoved, FreeFacts DEF Kept
<1>2. Touch(w)
  BY DEF Touch
<1> QED
  BY <1>1, <1>2, NoMail, FreeRoutine

\* The attempt is to be closed.
LEMMA CloseSteps ==
    ASSUME OwnInv, NEW w \in Workers, EntryAmbiguous(w) \/ ExitPolicy(w) \/ RequestClose(w)
    PROVE  Routine(w)
<1>1. /\ Free(w) /\ Cur(w) \in Attempts /\ BeginClose(w) /\ UNCHANGED <<leg, disk, jr, brk, inbox>>
      /\ upsets' = upsets \/ (upsets < MaxUpsets /\ upsets' = upsets + 1)
  BY Setup, FreeFacts DEF EntryAmbiguous, ExitPolicy, RequestClose, Entered, Ready, Upset, Free, At,
                          Busy, Local, Mems, Cur
<1>2. /\ MemKept(mem[w], mem'[w]) /\ mem' = [mem EXCEPT ![w] = mem'[w]]
      /\ DbKept(Cur(w), db[w], db'[w]) /\ db' = [db EXCEPT ![w] = db'[w]]
      /\ db'[w].human = db[w].human
  BY <1>1, Closing
<1>3. Cur(w)' # NoAttempt
  BY <1>1, <1>2 DEF MemKept, Cur, Attempts, NoAttempt
<1>4. Plain(w) /\ run' = [run EXCEPT ![w] = run'[w]]
  <2>1. CASE EntryAmbiguous(w)
    BY <1>1, <1>3, <2>1, AfterReadPlain DEF EntryAmbiguous
  <2>2. CASE ExitPolicy(w)
    <3>1. Resume(w, "create") /\ ~Stopped(w)'
      BY <1>2, <2>2 DEF ExitPolicy, Stopped
    <3> QED
      BY <3>1, PlainResume DEF Rets
  <2>3. CASE RequestClose(w)
    BY <2>3, PlainRead DEF RequestClose, Rets
  <2> QED
    BY <1>1, <2>1, <2>2, <2>3
<1> QED
  BY <1>1, <1>2, <1>4, CalmRoutine

\* The cell stops.
LEMMA StopSteps ==
    ASSUME OwnInv, NEW w \in Workers, Unattributed(w) \/ SettledPresent(w) \/ EscalateSilence(w)
    PROVE  Routine(w)
<1>1. /\ Free(w) /\ Cur(w) \in Attempts /\ UNCHANGED <<leg, disk, jr, brk, inbox>>
      /\ upsets' = upsets \/ (upsets < MaxUpsets /\ upsets' = upsets + 1)
      /\ run[w].ret \in Rets /\ mem[w] \in Mems /\ db[w] \in Rows /\ Domains
  BY Setup, FreeFacts DEF Unattributed, SettledPresent, EscalateSilence, Ending, Awaiting, Upset,
                          Free, At, Busy, Local, Mems, Cur
<1>2. \E why \in Stops : SetDb(w, Stop(db[w], why, Cur(w)))
  BY DEF Unattributed, SettledPresent, EscalateSilence, Stops, FailedStop
<1>3. db' = [db EXCEPT ![w] = db'[w]] /\ DbKept(Cur(w), db[w], db'[w])
  <2>1. PICK why \in Stops : db' = [db EXCEPT ![w] = Stop(db[w], why, Cur(w))]
    BY <1>2 DEF SetDb
  <2>2. db'[w] = Stop(db[w], why, Cur(w)) /\ db' = [db EXCEPT ![w] = db'[w]]
    BY <1>1, <2>1 DEF Domains
  <2>3. DbKept(Cur(w), db[w], Stop(db[w], why, Cur(w)))
    BY <1>1, DbUpdates
  <2> QED
    BY <2>2, <2>3
<1>4. mem' = mem \/ (mem' = [mem EXCEPT ![w] = mem'[w]] /\ MemKept(mem[w], mem'[w]))
  <2>1. CASE Unattributed(w)
    BY <2>1 DEF Unattributed
  <2>2. CASE SettledPresent(w)
    <3>1. mem' = [mem EXCEPT ![w] = [mem[w] EXCEPT !.deferred = mem[w].deferred \ {run[w].job}]]
      BY <2>2 DEF SettledPresent, SetMem
    <3>2. mem[w].deferred \ {run[w].job} \in SUBSET Containment
      BY <1>1 DEF Mems
    <3> QED
      BY <1>1, <3>1, <3>2, MemUpdates DEF Domains
  <2>3. CASE EscalateSilence(w)
    <3>1. mem' = [mem EXCEPT ![w] = [mem[w] EXCEPT !.wait = "over"]]
      BY <2>3 DEF EscalateSilence, SetMem
    <3>2. MemKept(mem[w], [mem[w] EXCEPT !.wait = "over"])
      BY <1>1 DEF MemKept, Mems
    <3> QED
      BY <1>1, <3>1, <3>2 DEF Domains
  <2> QED
    BY <2>1, <2>2, <2>3
<1>5. Plain(w) /\ run' = [run EXCEPT ![w] = run'[w]]
  <2>1. Resume(w, run[w].ret) \/ Resume(w, "gate") \/ Begin(w, Thread("idle"))
    BY DEF Unattributed, SettledPresent, EscalateSilence
  <2> QED
    BY <1>1, <2>1, PlainResume, PlainIdle DEF Rets
<1> QED
  BY <1>1, <1>3, <1>4, <1>5, CalmRoutine

\* A latched stop is taken back; the attempt of a resolved one is not the
\* current one, which is live.
LEMMA UnlatchSteps ==
    ASSUME OwnInv, NEW w \in Workers, StopResolved(w) \/ StopOutdated(w)
    PROVE  Routine(w)
<1>1. /\ Free(w) /\ UNCHANGED <<leg, disk, jr, brk, inbox, upsets>> /\ Resume(w, "gate")
      /\ mem[w] \in Mems /\ db[w] \in Rows /\ Domains /\ Own(w)
  BY Setup DEF StopResolved, StopOutdated, Free, At, Local
<1>2. SetDb(w, Unlatched(db[w]))
  BY DEF StopResolved, StopOutdated
<1>3. db' = [db EXCEPT ![w] = db'[w]] /\ DbKept(Cur(w), db[w], db'[w])
  BY <1>1, <1>2, DbUnlatched DEF SetDb, Domains
<1>4. mem' = mem \/ (mem' = [mem EXCEPT ![w] = mem'[w]] /\ MemKept(mem[w], mem'[w]))
  <2>1. CASE StopOutdated(w)
    BY <2>1 DEF StopOutdated
  <2>2. CASE StopResolved(w)
    <3>1. mem' = [mem EXCEPT ![w] = [mem[w] EXCEPT !.st = "EMPTY"]]
      BY <2>2 DEF StopResolved, SetMem
    <3>2. Cur(w) = NoAttempt
      BY <1>1, <2>2 DEF StopResolved, Resolved, Own, Decided, RowsKept, Stopped
    <3>3. MemKept(mem[w], [mem[w] EXCEPT !.st = "EMPTY"])
      BY <1>1, <3>2 DEF MemKept, Mems, PairStates, Cur
    <3> QED
      BY <1>1, <3>1, <3>3 DEF Domains
  <2> QED
    BY <2>1, <2>2
<1>5. Plain(w) /\ run' = [run EXCEPT ![w] = run'[w]]
  BY <1>1, PlainResume DEF Rets
<1> QED
  BY <1>1, <1>3, <1>4, <1>5, CalmRoutine

\* Only the memory changes.
LEMMA MemSteps ==
    ASSUME OwnInv, NEW w \in Workers,
           \/ SettledAbsent(w) \/ GateStopped(w) \/ Converge(w) \/ AwaitProof(w)
           \/ HearPeer(w) \/ SessionLost(w)
    PROVE  Routine(w)
<1>1. /\ Free(w) /\ UNCHANGED <<leg, disk, db, jr, brk, inbox>>
      /\ upsets' = upsets \/ (upsets < MaxUpsets /\ upsets' = upsets + 1)
      /\ run[w].ret \in Rets /\ mem[w] \in Mems /\ Domains
  BY Setup, FreeFacts DEF SettledAbsent, GateStopped, Converge, AwaitProof, HearPeer, SessionLost,
                          Ending, Ready, Upset, Free, At, Local
<1>2. mem' = [mem EXCEPT ![w] = mem'[w]] /\ MemKept(mem[w], mem'[w])
  <2>1. CASE SettledAbsent(w)
    <3>1. mem' = [mem EXCEPT ![w] = [mem[w] EXCEPT !.deferred = mem[w].deferred \ {run[w].job}]]
      BY <2>1 DEF SettledAbsent, SetMem
    <3>2. mem[w].deferred \ {run[w].job} \in SUBSET Containment
      BY <1>1 DEF Mems
    <3> QED
      BY <1>1, <3>1, <3>2, MemUpdates DEF Domains
  <2>2. CASE GateStopped(w) \/ Converge(w)
    <3>1. PICK s \in {"NEEDS_HUMAN", "CONVERGING_EMPTY"} :
              mem' = [mem EXCEPT ![w] = [mem[w] EXCEPT !.st = s]]
      BY <2>2 DEF GateStopped, Converge, SetMem
    <3>2. MemKept(mem[w], [mem[w] EXCEPT !.st = s])
      BY <1>1, MemStates DEF PairStates
    <3> QED
      BY <1>1, <3>1, <3>2 DEF Domains
  <2>3. CASE AwaitProof(w) \/ HearPeer(w)
    <3>1. PICK x \in {"no", "yes", "over"} : mem' = [mem EXCEPT ![w] = [mem[w] EXCEPT !.wait = x]]
      BY <1>1, <2>3 DEF AwaitProof, HearPeer, SetMem, Mems
    <3>2. MemKept(mem[w], [mem[w] EXCEPT !.wait = x])
      BY <1>1 DEF MemKept, Mems
    <3> QED
      BY <1>1, <3>1, <3>2 DEF Domains
  <2>4. CASE SessionLost(w)
    <3>1. mem' = [mem EXCEPT ![w] = [mem[w] EXCEPT !.session = FALSE]]
      BY <2>4 DEF SessionLost, SetMem
    <3>2. MemKept(mem[w], [mem[w] EXCEPT !.session = FALSE])
      BY <1>1 DEF MemKept, Mems
    <3> QED
      BY <1>1, <3>1, <3>2 DEF Domains
  <2> QED
    BY <2>1, <2>2, <2>3, <2>4
<1>3. Plain(w) /\ run' = [run EXCEPT ![w] = run'[w]]
  <2>1. \/ Resume(w, "gate") \/ Resume(w, "tail") \/ ReadThen(w, "tail")
        \/ FinalThen(w, "stopped") \/ Begin(w, Thread("idle"))
    BY DEF SettledAbsent, GateStopped, Converge, AwaitProof, HearPeer, SessionLost
  <2> QED
    BY <2>1, PlainResume, PlainRead, PlainFinal, PlainIdle DEF Rets
<1> QED
  BY <1>1, <1>2, <1>3, CalmRoutine

LEMMA DeclareActiveStep ==
    ASSUME OwnInv, NEW w \in Workers, DeclareActive(w)
    PROVE  Routine(w)
<1>1. /\ Free(w) /\ UNCHANGED <<leg, disk, jr, brk, inbox, upsets>> /\ Cur(w) \in Attempts
      /\ mem[w] \in Mems /\ db[w] \in Rows /\ Domains /\ Begin(w, Thread("idle"))
  BY Setup DEF DeclareActive, Protected, Free, At, Local, Mems, Cur
<1>2. /\ mem'[w] = [mem[w] EXCEPT !.st = "ACTIVE"] /\ mem' = [mem EXCEPT ![w] = mem'[w]]
      /\ db'[w] = [db[w] EXCEPT !.active = TRUE] /\ db' = [db EXCEPT ![w] = db'[w]]
  BY <1>1 DEF DeclareActive, SetMem, SetDb, Domains
<1>3. MemKept(mem[w], mem'[w]) /\ DbKept(Cur(w), db[w], db'[w])
  <2>1. "ACTIVE" \in PairStates
    BY DEF PairStates
  <2>2. MemKept(mem[w], mem'[w])
    BY <1>1, <1>2, <2>1, MemStates
  <2>3. DbKept(Cur(w), db[w], [db[w] EXCEPT !.active = TRUE])
    BY <1>1, DbUpdates
  <2> QED
    BY <1>2, <2>2, <2>3
<1>4. Plain(w) /\ run' = [run EXCEPT ![w] = run'[w]]
  BY <1>1, PlainIdle
<1> QED
  BY <1>1, <1>2, <1>3, <1>4, CalmRoutine

\* A containment effect that is not written now: close_effect_id is set in
\* memory, and nothing else of the leg changes.
LEMMA ContainmentSteps ==
    ASSUME OwnInv, NEW w \in Workers,
           ContainmentAccepted(w) \/ ContainmentDeferred(w) \/ ContainmentUncertain(w)
    PROVE  Routine(w)
<1>1. /\ Free(w) /\ Cur(w) \in Attempts /\ UNCHANGED <<disk, jr, brk, inbox, upsets>>
      /\ run[w].ret \in Rets /\ Local(w) /\ Own(w) /\ Domains /\ At(w, "advance")
  BY Setup, FreeFacts DEF ContainmentAccepted, ContainmentDeferred, ContainmentUncertain, Free, At,
                          Busy
<1>2. mem' = mem \/ (mem' = [mem EXCEPT ![w] = mem'[w]] /\ MemKept(mem[w], mem'[w]))
  <2>1. CASE ContainmentUncertain(w)
    BY <2>1 DEF ContainmentUncertain
  <2>2. CASE ContainmentAccepted(w) \/ ContainmentDeferred(w)
    <3>1. Wanted(w) # "none" => Wanted(w) \in Containment
      BY DEF Wanted, Containment
    <3>2. PICK x \in SUBSET Containment : mem' = [mem EXCEPT ![w] = [mem[w] EXCEPT !.deferred = x]]
      <4>1. mem[w].deferred \in SUBSET Containment
        BY <1>1 DEF Local, Mems
      <4> QED
        BY <2>2, <3>1, <4>1 DEF ContainmentAccepted, ContainmentDeferred, SetMem
    <3> QED
      BY <1>1, <3>2, MemUpdates DEF Domains, Local
  <2> QED
    BY <2>1, <2>2
<1>3. db' = db \/ (db' = [db EXCEPT ![w] = db'[w]] /\ DbKept(Cur(w), db[w], db'[w]))
  <2>1. CASE ContainmentUncertain(w)
    <3>1. db' = [db EXCEPT ![w] = Stop(db[w], "uncertain", Cur(w))]
      BY <2>1 DEF ContainmentUncertain, SetDb
    <3>2. DbKept(Cur(w), db[w], Stop(db[w], "uncertain", Cur(w)))
      BY <1>1, DbUpdates DEF Stops, Local
    <3> QED
      BY <1>1, <3>1, <3>2 DEF Domains
  <2> QED
    BY <2>1 DEF ContainmentAccepted, ContainmentDeferred, ContainmentUncertain
<1>4. leg' = [leg EXCEPT ![w] = leg'[w]] /\ LegSaved(Cur(w), disk[w], leg'[w], disk'[w])
  <2>1. PICK l \in {leg[w], [leg[w] EXCEPT !.closeRef = TRUE]} : leg' = [leg EXCEPT ![w] = l]
    BY DEF ContainmentAccepted, ContainmentDeferred, ContainmentUncertain, SetLeg
  <2>2. leg[w] \in Legs /\ disk[w] \in Legs /\ LegSame(leg[w], disk[w]) /\ leg[w].entry # "pending"
    BY <1>1 DEF Local, Own, LegKept, EntryKept, OnEntry, At, Attempts, NoAttempt
  <2>3. l \in Legs /\ LegSame(l, disk[w]) /\ l.entry # "pending"
    BY <2>1, <2>2 DEF Legs, LegSame
  <2> QED
    BY <1>1, <2>1, <2>2, <2>3 DEF Domains, LegSaved, LegSame
<1>5. Plain(w) /\ run' = [run EXCEPT ![w] = run'[w]]
  <2>1. Resume(w, run[w].ret) \/ ReadThen(w, run[w].ret)
    BY DEF ContainmentAccepted, ContainmentDeferred, ContainmentUncertain
  <2> QED
    BY <1>1, <2>1, PlainResume, PlainRead DEF Rets
<1>6. Kept(w)
  BY <1>1, <1>2, <1>3, <1>4, Unmoved DEF Kept
<1>7. Touch(w)
  BY <1>1, <1>2, <1>3, <1>4, <1>5 DEF Touch
<1> QED
  BY <1>1, <1>5, <1>6, <1>7, NoMail, FreeRoutine

LEMMA TicketGoneStep ==
    ASSUME OwnInv, NEW w \in Workers, TicketGone(w)
    PROVE  Routine(w)
<1>1. /\ Free(w) /\ Cur(w) \in Attempts /\ Local(w) /\ Domains
      /\ UNCHANGED <<leg, disk, brk, inbox, upsets>> /\ AfterTicket(w)
  BY Setup, FreeFacts DEF TicketGone, Free, At, Busy
<1>2. /\ mem'[w] \in {mem[w], CloseMem(mem[w])} /\ mem' = [mem EXCEPT ![w] = mem'[w]]
      /\ db'[w] \in {db[w], CloseDb(db[w])} /\ db' = [db EXCEPT ![w] = db'[w]]
  BY <1>1 DEF TicketGone, SetMem, SetDb, Domains
<1>3. MemKept(mem[w], mem'[w]) /\ DbKept(Cur(w), db[w], db'[w])
  BY <1>1, <1>2, MemUpdates, DbUpdates DEF Local
<1>4. JrKept(Cur(w), jr[w], jr'[w]) /\ jr' = [jr EXCEPT ![w] = jr'[w]]
  BY <1>1, Observed DEF TicketGone
<1>5. Plain(w) /\ run' = [run EXCEPT ![w] = run'[w]]
  BY <1>1, <1>3, AfterReadPlain DEF MemKept, Cur, Attempts, NoAttempt
<1>6. Kept(w)
  BY <1>1, <1>3, <1>4, Unmoved, FreeFacts DEF Kept
<1>7. Touch(w)
  BY <1>1, <1>2, <1>4, <1>5 DEF Touch
<1> QED
  BY <1>1, <1>5, <1>6, <1>7, NoMail, FreeRoutine

LEMMA TicketHeldStep ==
    ASSUME OwnInv, NEW w \in Workers, TicketHeld(w)
    PROVE  Routine(w)
<1>1. /\ Free(w) /\ Cur(w) \in Attempts /\ Local(w) /\ Own(w) /\ Domains
      /\ UNCHANGED <<brk, inbox, upsets>> /\ AfterTicket(w) /\ At(w, "ticket")
  BY Setup, FreeFacts DEF TicketHeld, Free, At, Busy
<1>2. /\ mem'[w] \in {mem[w], CloseMem(mem[w])} /\ mem' = [mem EXCEPT ![w] = mem'[w]]
      /\ db'[w] \in {db[w], CloseDb(db[w])} /\ db' = [db EXCEPT ![w] = db'[w]]
  BY <1>1 DEF TicketHeld, SetMem, SetDb, Domains
<1>3. MemKept(mem[w], mem'[w]) /\ DbKept(Cur(w), db[w], db'[w])
  BY <1>1, <1>2, MemUpdates, DbUpdates DEF Local
<1>4. JrKept(Cur(w), jr[w], jr'[w]) /\ jr' = [jr EXCEPT ![w] = jr'[w]]
  BY <1>1, Observed DEF TicketHeld
<1>5. Plain(w) /\ run' = [run EXCEPT ![w] = run'[w]]
  BY <1>1, <1>3, AfterReadPlain DEF MemKept, Cur, Attempts, NoAttempt
<1>6. /\ LegSaved(Cur(w), disk[w], leg'[w], disk'[w])
      /\ leg' \in {leg, [leg EXCEPT ![w] = leg'[w]]} /\ disk' \in {disk, [disk EXCEPT ![w] = disk'[w]]}
  <2>1. CASE leg' = leg /\ disk' = disk
    BY <1>1, <2>1, Unmoved, FreeFacts
  <2>2. CASE SaveLeg(w, [leg[w] EXCEPT !.seen = run[w].pos[leg[w].ticket]])
    <3>1. run[w].pos[leg[w].ticket] \in Holdings
      BY DEF TicketHeld, Owned, Positions, Holdings
    <3>2. leg[w] \in Legs /\ disk[w] \in Legs /\ LegSame(leg[w], disk[w]) /\ leg[w].entry # "pending"
      BY <1>1 DEF Local, Own, LegKept, EntryKept, OnEntry, At, Attempts, NoAttempt
    <3> DEFINE l == [leg[w] EXCEPT !.seen = run[w].pos[leg[w].ticket]]
    <3>3. /\ l \in Legs /\ l.a = leg[w].a /\ l.entry = leg[w].entry /\ l.prot = leg[w].prot
          /\ l.empty = leg[w].empty /\ l.relayed = leg[w].relayed
      BY <3>1, <3>2 DEF Legs
    <3>4. leg' = [leg EXCEPT ![w] = l] /\ disk' = [disk EXCEPT ![w] = l]
      BY <2>2 DEF SaveLeg, SetLeg
    <3> HIDE DEF l
    <3>5. leg'[w] = l /\ disk'[w] = l
      BY <1>1, <3>4 DEF Domains
    <3> QED
      BY <3>2, <3>3, <3>4, <3>5 DEF LegSaved, LegSame
  <2> QED
    BY <2>1, <2>2 DEF TicketHeld
<1>7. Kept(w)
  BY <1>3, <1>4, <1>6 DEF Kept
<1>8. Touch(w)
  BY <1>1, <1>2, <1>4, <1>5, <1>6 DEF Touch
<1> QED
  BY <1>1, <1>5, <1>7, <1>8, NoMail, FreeRoutine

-----------------------------------------------------------------------------
(* The steps that save the leg or send                                      *)

LEMMA MessageFacts ==
    ASSUME NEW k \in Kinds, NEW a \in Attempts, NEW s \in PeerStatuses
    PROVE  /\ Message(k, a, s) \in Messages
           /\ Message(k, a, s).kind = k /\ Message(k, a, s).a = a /\ Message(k, a, s).status = s
  BY DEF Message, Messages

LEMMA StatusFacts ==
    ASSUME NEW a \in Attempts, NEW s \in PeerStatuses
    PROVE  /\ Status(a, s) \in Messages
           /\ Status(a, s).kind = "leg_status" /\ Status(a, s).a = a /\ Status(a, s).status = s
  BY MessageFacts DEF Status, Kinds

\* A cell past the entry of its attempt has the leg of that attempt.
LEMMA LegAtWork ==
    ASSUME OwnInv, NEW w \in Workers, Cur(w) # NoAttempt, ~At(w, "leg")
    PROVE  /\ Cur(w) \in Attempts /\ db[w].row[Cur(w)] = "live" /\ disk[w].a = Cur(w)
           /\ leg[w] \in Legs /\ disk[w] \in Legs /\ LegSame(leg[w], disk[w])
           /\ ~OnEntry(w) => leg[w].entry # "pending"
  BY Setup DEF Own, RowsKept, LegKept, EntryKept, Local, Mems, Cur, NoAttempt

\* What the cell may do to its leg once the entry has an outcome.
LegMoves(l, n) ==
    /\ n \in Legs /\ n.a = l.a /\ n.entry # "pending"
    /\ l.empty => n.empty
    /\ l.relayed => n.relayed
    /\ l.entry \in {"rejected", "expired_not_started", "filled"} => n.entry = l.entry
    /\ l.prot # "rough" => n.prot # "rough" /\ (l.prot = "fallback" => n.prot = "fallback")

LEMMA SavedLeg ==
    ASSUME OwnInv, NEW w \in Workers, Cur(w) # NoAttempt, ~At(w, "leg"), NEW n, SaveLeg(w, n),
           LegMoves(leg[w], n)
    PROVE  /\ LegSaved(Cur(w), disk[w], leg'[w], disk'[w])
           /\ leg' = [leg EXCEPT ![w] = leg'[w]] /\ disk' = [disk EXCEPT ![w] = disk'[w]]
           /\ leg'[w] = n /\ disk'[w] = n
<1>1. Domains /\ LegSame(leg[w], disk[w])
  BY Setup, LegAtWork
<1>2. leg' = [leg EXCEPT ![w] = n] /\ disk' = [disk EXCEPT ![w] = n]
  BY DEF SaveLeg, SetLeg
<1>3. leg'[w] = n /\ disk'[w] = n
  BY <1>1, <1>2 DEF Domains
<1> QED
  BY <1>1, <1>2, <1>3 DEF LegSaved, LegMoves, LegSame

LEMMA LegUpdates ==
    ASSUME NEW l \in Legs
    PROVE  /\ \A s \in EntryStatuses :
                (s # "pending" /\ l.entry \in {"pending", "sent", "unknown_after_send"})
                => LegMoves(l, [l EXCEPT !.entry = s])
           /\ \A t \in Attempts, h \in Holdings :
                l.entry \in {"sent", "unknown_after_send"}
                => LegMoves(l, [l EXCEPT !.entry = "filled", !.ticket = t, !.seen = h])
           /\ l.entry # "pending" =>
                /\ LegMoves(l, [l EXCEPT !.empty = TRUE])
                /\ LegMoves(l, [l EXCEPT !.prot = "fallback"])
                /\ l.prot = "rough" => LegMoves(l, [l EXCEPT !.prot = "precise"])
                /\ LegMoves(l, [l EXCEPT !.prot = "fallback", !.protRef = "rollback"])
<1>1. ASSUME NEW s \in EntryStatuses, s # "pending", l.entry \in {"pending", "sent", "unknown_after_send"}
      PROVE  LegMoves(l, [l EXCEPT !.entry = s])
  BY <1>1 DEF LegMoves, Legs
<1>2. ASSUME NEW t \in Attempts, NEW h \in Holdings, l.entry \in {"sent", "unknown_after_send"}
      PROVE  LegMoves(l, [l EXCEPT !.entry = "filled", !.ticket = t, !.seen = h])
  <2>1. "filled" \in EntryStatuses
    BY DEF EntryStatuses
  <2> QED
    BY <1>2, <2>1 DEF LegMoves, Legs
<1>3. l.entry # "pending" => LegMoves(l, [l EXCEPT !.empty = TRUE])
  BY DEF LegMoves, Legs
<1>4. {"precise", "fallback"} \subseteq Protections /\ "rollback" \in Effects
  BY DEF Protections, Effects
<1>5. l.entry # "pending" =>
         /\ LegMoves(l, [l EXCEPT !.prot = "fallback"])
         /\ l.prot = "rough" => LegMoves(l, [l EXCEPT !.prot = "precise"])
  BY <1>4 DEF LegMoves, Legs
<1>6. l.entry # "pending" => LegMoves(l, [l EXCEPT !.prot = "fallback", !.protRef = "rollback"])
  BY <1>4 DEF LegMoves, Legs
<1> QED
  BY <1>1, <1>2, <1>3, <1>5, <1>6

\* What a cell says of its own attempt.
LEMMA HonestStatus ==
    ASSUME OwnInv, NEW w \in Workers, Cur(w) # NoAttempt, run[w].at \notin {"leg", "prepare", "relay"},
           Kept(w), Plain(w), NEW s \in PeerStatuses,
           s \in TerminalStatuses =>
              disk'[w].empty \/ disk'[w].entry \in {"rejected", "expired_not_started"},
           s = "filled" => disk'[w].entry = "filled",
           s = "protection_rough_fallback" => disk'[w].prot = "fallback"
    PROVE  Status(Cur(w), s) \in Messages /\ Honest(w, Status(Cur(w), s))
<1>1. Cur(w) \in Attempts /\ db[w].row[Cur(w)] = "live" /\ disk[w].a = Cur(w)
  BY LegAtWork DEF At
<1>2. db'[w].row[Cur(w)] = "live" /\ disk'[w].a = Cur(w) /\ mem'[w].cur = Cur(w) /\ run'[w].at # "leg"
  BY <1>1 DEF Kept, DbKept, LegSaved, MemKept, Cur, Plain, Landings, Rets
<1> DEFINE m == Status(Cur(w), s)
<1>3. m \in Messages /\ m.kind = "leg_status" /\ m.a = Cur(w) /\ m.status = s
  BY <1>1, StatusFacts
<1> HIDE DEF m
<1>4. Honest(w, m)
  BY <1>1, <1>2, <1>3 DEF Honest, At
<1> QED
  BY <1>3, <1>4 DEF m

LEMMA HonestWord ==
    ASSUME OwnInv, NEW w \in Workers, Cur(w) # NoAttempt, run[w].at \notin {"leg", "prepare", "relay"},
           NEW k \in {"pair_entry_failed", "leg_status_request"}
    PROVE  Message(k, Cur(w), "unknown") \in Messages /\ Honest(w, Message(k, Cur(w), "unknown"))
<1>1. Cur(w) \in Attempts /\ "unknown" \in PeerStatuses /\ k \in Kinds
  BY LegAtWork DEF At, PeerStatuses, Kinds
<1> DEFINE m == Message(k, Cur(w), "unknown")
<1>2. m \in Messages /\ m.kind = k /\ m.a = Cur(w)
  BY <1>1, MessageFacts
<1> HIDE DEF m
<1>3. Honest(w, m)
  BY <1>2 DEF Honest, At
<1> QED
  BY <1>2, <1>3 DEF m

\* One envelope, two, or none.
LEMMA SendMail ==
    ASSUME OwnInv, NEW w \in Workers, NEW rest,
           rest = inbox[w] \/ (inbox[w] # <<>> /\ rest = Tail(inbox[w]))
    PROVE  /\ Relay(w, rest, <<>>) => Mail(w)
           /\ \A m \in Messages : (Relay(w, rest, <<m>>) /\ Honest(w, m)) => Mail(w)
           /\ \A m, n \in Messages :
                (Relay(w, rest, <<m, n>>) /\ Honest(w, m) /\ Honest(w, n)) => Mail(w)
<1>1. ASSUME Relay(w, rest, <<>>)
      PROVE  Mail(w)
  <2> DEFINE ms == << >>
  <2>1. ms \in Seq(Messages) /\ Len(ms) = 0
    OBVIOUS
  <2>2. Relay(w, rest, ms)
    BY <1>1
  <2> HIDE DEF ms
  <2>3. \A j \in 1 .. Len(ms) : Honest(w, ms[j])
    BY <2>1
  <2> QED
    BY <2>1, <2>2, <2>3, RelayMail
<1>2. ASSUME NEW m \in Messages, Relay(w, rest, <<m>>), Honest(w, m)
      PROVE  Mail(w)
  <2> DEFINE ms == <<m>>
  <2>1. ms \in Seq(Messages) /\ \A j \in 1 .. Len(ms) : ms[j] = m
    OBVIOUS
  <2>2. Relay(w, rest, ms)
    BY <1>2
  <2> HIDE DEF ms
  <2> QED
    BY <1>2, <2>1, <2>2, RelayMail
<1>3. ASSUME NEW m \in Messages, NEW n \in Messages, Relay(w, rest, <<m, n>>), Honest(w, m), Honest(w, n)
      PROVE  Mail(w)
  <2> DEFINE ms == <<m, n>>
  <2>1. ms \in Seq(Messages) /\ \A j \in 1 .. Len(ms) : ms[j] \in {m, n}
    OBVIOUS
  <2>2. Relay(w, rest, ms)
    BY <1>3
  <2> HIDE DEF ms
  <2> QED
    BY <1>3, <2>1, <2>2, RelayMail
<1> QED
  BY <1>1, <1>2, <1>3

\* The outcome of the entry write.
LEMMA EntryOutcomeSteps ==
    ASSUME OwnInv, NEW w \in Workers, EntryAccepted(w) \/ EntryRejected(w) \/ EntryUnknown(w)
    PROVE  Routine(w)
<1>1. /\ At(w, "done") /\ run[w].job = "entry" /\ Local(w) /\ Domains /\ Own(w)
      /\ jr' = jr /\ brk' = brk /\ upsets' = upsets
  BY Setup DEF EntryAccepted, EntryRejected, EntryUnknown, Done
<1>2. /\ Cur(w) # NoAttempt /\ ~At(w, "leg") /\ OnEntry(w) /\ leg[w] \in Legs
      /\ leg[w].entry = "pending" /\ Cur(w) \in Attempts
  BY <1>1 DEF Own, Control, Busy, At, OnEntry, EntryStage, Local, Mems, Cur
<1>3. PICK s \in {"sent", "rejected", "unknown_after_send"} :
         /\ SaveLeg(w, [leg[w] EXCEPT !.entry = s])
         /\ s = "rejected" <=> EntryRejected(w)
  BY <1>1 DEF EntryAccepted, EntryRejected, EntryUnknown, Done
<1>4. /\ LegSaved(Cur(w), disk[w], leg'[w], disk'[w])
      /\ leg' = [leg EXCEPT ![w] = leg'[w]] /\ disk' = [disk EXCEPT ![w] = disk'[w]]
      /\ EntryRejected(w) => disk'[w].entry = "rejected"
  <2>1. s \in EntryStatuses /\ LegMoves(leg[w], [leg[w] EXCEPT !.entry = s])
    BY <1>2, LegUpdates DEF EntryStatuses
  <2> QED
    BY <1>2, <1>3, <2>1, SavedLeg DEF Legs
<1>5. /\ mem' = mem \/ (mem' = [mem EXCEPT ![w] = mem'[w]] /\ MemKept(mem[w], mem'[w]))
      /\ db' = db \/ (db' = [db EXCEPT ![w] = db'[w]] /\ DbKept(Cur(w), db[w], db'[w]))
  <2>1. CASE EntryAccepted(w)
    BY <2>1 DEF EntryAccepted
  <2>2. CASE EntryRejected(w)
    BY <1>2, <2>2, Closing DEF EntryRejected
  <2>3. CASE EntryUnknown(w)
    <3>1. "ENTRY_UNCERTAIN" \in PairStates /\ mem[w] \in Mems
      BY <1>1 DEF PairStates, Local
    <3>2. MemKept(mem[w], [mem[w] EXCEPT !.st = "ENTRY_UNCERTAIN"])
      BY <3>1, MemStates
    <3> QED
      BY <1>1, <2>3, <3>2 DEF EntryUnknown, SetMem, Domains
  <2> QED
    BY <2>1, <2>2, <2>3
<1>6. Kept(w)
  BY <1>1, <1>4, <1>5, Unmoved DEF Kept
<1>7. Plain(w) /\ run' = [run EXCEPT ![w] = run'[w]]
  <2>1. AfterEntry(w) \in {"confirm", "gate"}
    BY DEF AfterEntry
  <2>2. ReadThen(w, AfterEntry(w)) \/ Resume(w, AfterEntry(w))
    BY DEF EntryAccepted, EntryRejected, EntryUnknown
  <2> QED
    BY <2>1, <2>2, PlainResume, PlainRead DEF Rets
<1>8. Mail(w)
  <2>1. run[w].at \notin {"leg", "prepare", "relay"} /\ {"sent", "rejected", "unknown"} \subseteq PeerStatuses
    BY <1>1 DEF At, PeerStatuses, EntryStatuses
  <2>2. CASE EntryAccepted(w)
    <3>1. Status(Cur(w), "sent") \in Messages /\ Honest(w, Status(Cur(w), "sent"))
      BY <1>2, <1>6, <1>7, <2>1, HonestStatus DEF TerminalStatuses, NonSendStatuses
    <3> QED
      BY <2>2, <3>1, SendMail DEF EntryAccepted, Send
  <2>3. CASE EntryRejected(w)
    <3>1. Status(Cur(w), "rejected") \in Messages /\ Honest(w, Status(Cur(w), "rejected"))
      BY <1>2, <1>4, <1>6, <1>7, <2>1, <2>3, HonestStatus
    <3>2. /\ Message("pair_entry_failed", Cur(w), "unknown") \in Messages
          /\ Honest(w, Message("pair_entry_failed", Cur(w), "unknown"))
      BY <1>2, <2>1, HonestWord
    <3> QED
      BY <2>3, <3>1, <3>2, SendMail DEF EntryRejected, Send
  <2>4. CASE EntryUnknown(w)
    BY <2>4, NoMail DEF EntryUnknown
  <2> QED
    BY <2>2, <2>3, <2>4
<1>9. Touch(w)
  BY <1>1, <1>4, <1>5, <1>7 DEF Touch
<1> QED
  BY <1>1, <1>6, <1>7, <1>8, <1>9 DEF Routine, At

\* What the read of an uncertain entry shows.
LEMMA EntryReadSteps ==
    ASSUME OwnInv, NEW w \in Workers, EntryFilled(w) \/ EntryInconsistent(w) \/ EntryAbsent(w)
    PROVE  Routine(w)
<1>1. /\ At(w, "observe") /\ Free(w) /\ Local(w) /\ Domains /\ Own(w) /\ brk' = brk
      /\ upsets' = upsets \/ (upsets < MaxUpsets /\ upsets' = upsets + 1)
      /\ AfterEntryRead(w) /\ RecordObserved(w, {"entry"})
  BY Setup DEF EntryFilled, EntryInconsistent, EntryAbsent, Filled, Upset, Free, At
<1>2. /\ Cur(w) # NoAttempt /\ ~At(w, "leg") /\ leg[w] \in Legs /\ Cur(w) \in Attempts
      /\ leg[w].entry \in {"sent", "unknown_after_send"} /\ mem[w] \in Mems /\ db[w] \in Rows
  BY <1>1 DEF Own, Control, Busy, At, EntryStage, Local, Mems, Cur
<1>3. /\ LegSaved(Cur(w), disk[w], leg'[w], disk'[w])
      /\ leg' = [leg EXCEPT ![w] = leg'[w]] /\ disk' = [disk EXCEPT ![w] = disk'[w]]
      /\ disk'[w].entry = IF EntryAbsent(w) THEN "rejected" ELSE "filled"
  <2>1. CASE EntryAbsent(w)
    <3>1. LegMoves(leg[w], [leg[w] EXCEPT !.entry = "rejected"])
      BY <1>2, LegUpdates DEF EntryStatuses
    <3>2. SaveLeg(w, [leg[w] EXCEPT !.entry = "rejected"])
      BY <2>1 DEF EntryAbsent
    <3> QED
      BY <1>2, <2>1, <3>1, <3>2, SavedLeg DEF Legs
  <2>2. CASE ~EntryAbsent(w)
    <3> DEFINE t == CHOOSE a \in Matches(run[w]) : TRUE
               n == [leg[w] EXCEPT !.entry = "filled", !.ticket = t, !.seen = run[w].pos[t]]
    <3>1. Filled(w) /\ Matches(run[w]) # {}
      <4>1. Filled(w) /\ Cardinality(Matches(run[w])) = 1
        BY <2>2 DEF EntryFilled, EntryInconsistent
      <4> QED
        BY <4>1, FS_EmptySet
    <3>2. t \in Attempts /\ run[w].pos[t] \in Holdings
      BY <1>1, <3>1 DEF Matches, Matching, Holdings
    <3>3. SaveLeg(w, n)
      BY <3>1 DEF Filled
    <3> HIDE DEF t
    <3>4. LegMoves(leg[w], n)
      BY <1>2, <3>2, LegUpdates
    <3>5. n.entry = "filled"
      BY <1>2 DEF Legs
    <3> HIDE DEF n
    <3> QED
      BY <1>2, <2>2, <3>3, <3>4, <3>5, SavedLeg
  <2> QED
    BY <2>1, <2>2
<1>4. /\ mem' = [mem EXCEPT ![w] = mem'[w]] /\ MemKept(mem[w], mem'[w])
      /\ db' = db \/ (db' = [db EXCEPT ![w] = db'[w]] /\ DbKept(Cur(w), db[w], db'[w]))
  <2>1. CASE EntryAbsent(w)
    BY <1>2, <2>1, Closing DEF EntryAbsent
  <2>2. CASE EntryFilled(w) \/ EntryInconsistent(w)
    <3>1. /\ MemKept(mem[w], [mem[w] EXCEPT !.st = "AWAITING_PAIR_CONFIRMATION"])
          /\ MemKept(mem[w], CloseMem([mem[w] EXCEPT !.st = "AWAITING_PAIR_CONFIRMATION"]))
      <4>1. "AWAITING_PAIR_CONFIRMATION" \in PairStates
        BY DEF PairStates
      <4> QED
        BY <1>2, <4>1, MemStates
    <3>2. mem' = [mem EXCEPT ![w] = mem'[w]] /\ MemKept(mem[w], mem'[w])
      BY <1>1, <2>2, <3>1 DEF EntryFilled, EntryInconsistent, SetMem, Domains
    <3>3. DbKept(Cur(w), db[w], CloseDb(db[w]))
      BY <1>2, DbUpdates
    <3> QED
      BY <1>1, <2>2, <3>2, <3>3 DEF EntryFilled, EntryInconsistent, SetDb, Domains
  <2> QED
    BY <2>1, <2>2
<1>5. JrKept(Cur(w), jr[w], jr'[w]) /\ jr' = [jr EXCEPT ![w] = jr'[w]]
  BY <1>1, <1>2, Observed
<1>6. Kept(w)
  BY <1>3, <1>4, <1>5, Unmoved DEF Kept
<1>7. Plain(w) /\ run' = [run EXCEPT ![w] = run'[w]]
  BY <1>1, <1>2, <1>4, AfterReadPlain DEF MemKept, Cur
<1>8. Mail(w)
  <2>1. run[w].at \notin {"leg", "prepare", "relay"} /\ {"filled", "rejected", "inconsistent"} \subseteq PeerStatuses
    BY <1>1 DEF At, PeerStatuses, EntryStatuses
  <2>2. /\ Message("pair_entry_failed", Cur(w), "unknown") \in Messages
        /\ Honest(w, Message("pair_entry_failed", Cur(w), "unknown"))
    BY <1>2, <2>1, HonestWord
  <2>3. CASE EntryFilled(w)
    <3>1. Status(Cur(w), "filled") \in Messages /\ Honest(w, Status(Cur(w), "filled"))
      <4>1. ~EntryAbsent(w)
        <5>1. Cardinality(Matches(run[w])) = 1
          BY <2>3 DEF EntryFilled
        <5> QED
          BY <5>1, FS_EmptySet DEF EntryAbsent
      <4> QED
        BY <1>2, <1>3, <1>6, <1>7, <2>1, <4>1, HonestStatus DEF TerminalStatuses, NonSendStatuses
    <3> QED
      BY <2>3, <3>1, SendMail DEF EntryFilled, Send
  <2>4. CASE EntryInconsistent(w)
    <3>1. Status(Cur(w), "inconsistent") \in Messages /\ Honest(w, Status(Cur(w), "inconsistent"))
      BY <1>2, <1>6, <1>7, <2>1, HonestStatus DEF TerminalStatuses, NonSendStatuses
    <3> QED
      BY <2>2, <2>4, <3>1, SendMail DEF EntryInconsistent, Send
  <2>5. CASE EntryAbsent(w)
    <3>1. Status(Cur(w), "rejected") \in Messages /\ Honest(w, Status(Cur(w), "rejected"))
      BY <1>2, <1>3, <1>6, <1>7, <2>1, <2>5, HonestStatus
    <3> QED
      BY <2>2, <2>5, <3>1, SendMail DEF EntryAbsent, Send
  <2> QED
    BY <2>3, <2>4, <2>5
<1>9. Touch(w)
  BY <1>1, <1>3, <1>4, <1>5, <1>7 DEF Touch
<1> QED
  BY <1>1, <1>6, <1>7, <1>8, <1>9, FreeRoutine

LEMMA VerifiedEmptyStep ==
    ASSUME OwnInv, NEW w \in Workers, VerifiedEmpty(w)
    PROVE  Routine(w)
<1>1. /\ At(w, "advance") /\ Free(w) /\ Local(w) /\ Domains /\ UNCHANGED <<db, jr, brk, upsets>>
      /\ run[w].ret \in Rets /\ Cur(w) # NoAttempt
  BY Setup, FreeFacts DEF VerifiedEmpty, Free, At, Busy, Attempts, NoAttempt
<1>2. ~At(w, "leg") /\ leg[w] \in Legs /\ leg[w].entry # "pending" /\ mem[w] \in Mems
  BY <1>1, LegAtWork, FreeFacts DEF At, Local
<1>3. /\ LegSaved(Cur(w), disk[w], leg'[w], disk'[w]) /\ disk'[w].empty
      /\ leg' = [leg EXCEPT ![w] = leg'[w]] /\ disk' = [disk EXCEPT ![w] = disk'[w]]
  <2>1. LegMoves(leg[w], [leg[w] EXCEPT !.empty = TRUE]) /\ [leg[w] EXCEPT !.empty = TRUE].empty
    BY <1>2, LegUpdates DEF Legs
  <2>2. SaveLeg(w, [leg[w] EXCEPT !.empty = TRUE])
    BY DEF VerifiedEmpty
  <2> QED
    BY <1>1, <1>2, <2>1, <2>2, SavedLeg
<1>4. mem' = [mem EXCEPT ![w] = mem'[w]] /\ MemKept(mem[w], mem'[w])
  <2>1. MemKept(mem[w], [mem[w] EXCEPT !.st = "CONVERGING_EMPTY"])
    BY <1>2, MemStates DEF PairStates
  <2> QED
    BY <1>1, <2>1 DEF VerifiedEmpty, SetMem, Domains
<1>5. Kept(w)
  BY <1>1, <1>3, <1>4, Unmoved DEF Kept
<1>6. Plain(w) /\ run' = [run EXCEPT ![w] = run'[w]]
  BY <1>1, PlainFinal DEF VerifiedEmpty
<1>7. Mail(w)
  <2>1. run[w].at \notin {"leg", "prepare", "relay"} /\ "empty" \in PeerStatuses
    BY <1>1 DEF At, PeerStatuses, TerminalStatuses
  <2>2. Status(Cur(w), "empty") \in Messages /\ Honest(w, Status(Cur(w), "empty"))
    BY <1>1, <1>3, <1>5, <1>6, <2>1, HonestStatus
  <2> QED
    BY <2>2, SendMail DEF VerifiedEmpty, Send
<1>8. Touch(w)
  BY <1>1, <1>3, <1>4, <1>6 DEF Touch
<1> QED
  BY <1>1, <1>5, <1>6, <1>7, <1>8, FreeRoutine

LEMMA ContainmentDoneStep ==
    ASSUME OwnInv, NEW w \in Workers, ContainmentDone(w)
    PROVE  Routine(w)
<1>1. /\ At(w, "done") /\ run[w].job \in Containment /\ Own(w) /\ Local(w) /\ Domains
      /\ UNCHANGED <<mem, leg, disk, jr, brk, inbox, upsets>>
  BY Setup DEF ContainmentDone
<1>2. ~OnEntry(w) /\ run[w].job # "protection" /\ Cur(w) \in Attempts /\ run[w].ret \in Rets
  BY <1>1 DEF OnEntry, At, Containment, Own, Control, Busy, Local, Mems, Cur
<1>3. db' = [db EXCEPT ![w] = db'[w]] /\ DbKept(Cur(w), db[w], db'[w])
  <2>1. DbKept(Cur(w), db[w], db[w]) /\ DbKept(Cur(w), db[w], Stop(db[w], "uncertain", Cur(w)))
    BY <1>1, <1>2, DbUpdates DEF Local, Stops
  <2> QED
    BY <1>1, <2>1 DEF ContainmentDone, SetDb, Domains
<1>4. Kept(w)
  BY <1>1, <1>2, <1>3, Unmoved DEF Kept
<1>5. Plain(w) /\ run' = [run EXCEPT ![w] = run'[w]]
  <2>1. Resume(w, run[w].ret) \/ ReadThen(w, run[w].ret)
    BY DEF ContainmentDone
  <2> QED
    BY <1>2, <2>1, PlainResume, PlainRead DEF Rets
<1>6. Touch(w)
  BY <1>1, <1>3, <1>5 DEF Touch
<1> QED
  BY <1>1, <1>2, <1>4, <1>5, <1>6, NoMail DEF Routine, At

\* The pair is closed, with or without a word to the peer.
LEMMA PairCloseSteps ==
    ASSUME OwnInv, NEW w \in Workers, ConfirmationTimeout(w) \/ PeerInconsistent(w)
    PROVE  Routine(w)
<1>1. /\ Free(w) /\ Cur(w) \in Attempts /\ Cur(w) # NoAttempt /\ BeginClose(w)
      /\ UNCHANGED <<leg, disk, jr, brk>>
      /\ upsets' = upsets \/ (upsets < MaxUpsets /\ upsets' = upsets + 1)
      /\ run[w].at \notin {"leg", "prepare", "relay"}
  BY Setup, FreeFacts DEF ConfirmationTimeout, PeerInconsistent, Entered, Upset, Free, At, Busy,
                          Local, Mems, Cur, Attempts, NoAttempt
<1>2. /\ MemKept(mem[w], mem'[w]) /\ mem' = [mem EXCEPT ![w] = mem'[w]]
      /\ DbKept(Cur(w), db[w], db'[w]) /\ db' = [db EXCEPT ![w] = db'[w]]
      /\ db'[w].human = db[w].human
  BY <1>1, Closing
<1>3. Kept(w)
  BY <1>1, <1>2, Unmoved, FreeFacts DEF Kept
<1>4. Plain(w) /\ run' = [run EXCEPT ![w] = run'[w]]
  <2>1. (Resume(w, "create") /\ ~Stopped(w)') \/ Resume(w, "protect")
    BY <1>2 DEF ConfirmationTimeout, PeerInconsistent, Stopped
  <2> QED
    BY <2>1, PlainResume DEF Rets
<1>5. Mail(w)
  <2>1. /\ Message("pair_entry_failed", Cur(w), "unknown") \in Messages
        /\ Honest(w, Message("pair_entry_failed", Cur(w), "unknown"))
    BY <1>1, HonestWord
  <2>2. Send(w, <<Message("pair_entry_failed", Cur(w), "unknown")>>) \/ Send(w, <<>>)
    BY DEF ConfirmationTimeout, PeerInconsistent
  <2> QED
    BY <2>1, <2>2, SendMail DEF Send
<1>6. Touch(w)
  BY <1>1, <1>2, <1>4 DEF Touch
<1> QED
  BY <1>1, <1>3, <1>4, <1>5, <1>6, FreeRoutine

LEMMA EmitConfirmationStep ==
    ASSUME OwnInv, NEW w \in Workers, EmitConfirmation(w)
    PROVE  Routine(w)
<1>1. /\ At(w, "confirm") /\ Free(w) /\ Local(w) /\ Own(w) /\ Domains
      /\ UNCHANGED <<leg, disk, jr, brk, upsets>> /\ mem[w] \in Mems /\ db[w] \in Rows
  BY Setup DEF EmitConfirmation, Free, At, Local
<1>2. w = "leader" /\ Cur(w) # NoAttempt /\ leg[w].entry = "filled"
  BY <1>1 DEF Own, Control, StageDue, BothObserved, OwnExact
<1>3. ~At(w, "leg") /\ Cur(w) \in Attempts /\ disk[w].a = Cur(w) /\ disk[w].entry = "filled"
  BY <1>1, <1>2, LegAtWork DEF At, LegSame
<1>4. mem' = [mem EXCEPT ![w] = mem'[w]] /\ MemKept(mem[w], mem'[w])
  <2>1. MemKept(mem[w], [mem[w] EXCEPT !.timer = FALSE])
    BY <1>1, MemUpdates
  <2> QED
    BY <1>1, <2>1 DEF EmitConfirmation, SetMem, Domains
<1>5. db' = [db EXCEPT ![w] = db'[w]] /\ DbKept(Cur(w), db[w], db'[w])
  <2>1. DbKept(Cur(w), db[w], [db[w] EXCEPT !.confirmed = TRUE])
    BY <1>1, <1>3, DbUpdates
  <2> QED
    BY <1>1, <2>1 DEF EmitConfirmation, SetDb, Domains
<1>6. Kept(w)
  BY <1>1, <1>4, <1>5, Unmoved, FreeFacts DEF Kept
<1>7. Plain(w) /\ run' = [run EXCEPT ![w] = run'[w]]
  BY PlainResume DEF EmitConfirmation, Rets
<1>8. Mail(w)
  <2> DEFINE m == Message("pair_entry_confirmed", Cur(w), "unknown")
  <2>1. m \in Messages /\ m.kind = "pair_entry_confirmed" /\ m.a = Cur(w)
    BY <1>3, MessageFacts DEF Kinds, PeerStatuses
  <2>2. Send(w, <<m>>)
    BY DEF EmitConfirmation
  <2> HIDE DEF m
  <2>3. Honest(w, m)
    BY <1>1, <1>2, <1>3, <2>1 DEF Honest, At
  <2> QED
    BY <2>1, <2>2, <2>3, SendMail DEF Send
<1>9. Touch(w)
  BY <1>1, <1>4, <1>5, <1>7 DEF Touch
<1> QED
  BY <1>1, <1>6, <1>7, <1>8, <1>9, FreeRoutine

\* The box is applied, or the rough protection stays, or comes back.
LEMMA ProtectionSteps ==
    ASSUME OwnInv, NEW w \in Workers,
           \/ NoMirroredBox(w) \/ ProtectionRefused(w) \/ ProtectionApplied(w) \/ RollbackApplied(w)
    PROVE  Routine(w)
<1>1. /\ Local(w) /\ Own(w) /\ Domains /\ mem[w] \in Mems /\ UNCHANGED <<db, jr, brk>>
      /\ upsets' = upsets \/ (upsets < MaxUpsets /\ upsets' = upsets + 1)
      /\ run[w].at \in {"protect", "done"} /\ (At(w, "done") => run[w].job # "entry")
  BY Setup DEF NoMirroredBox, ProtectionRefused, ProtectionApplied, RollbackApplied, Done, Upset,
               At, Local
<1>2. /\ Cur(w) # NoAttempt /\ ~At(w, "leg") /\ ~OnEntry(w) /\ run[w].at \notin {"leg", "prepare", "relay"}
      /\ ProtectionApplied(w) => leg[w].prot = "rough"
  BY <1>1 DEF Own, Control, Busy, At, OnEntry, ProtectedOnce, ProtectionApplied, Done
<1>3. leg[w] \in Legs /\ leg[w].entry # "pending"
  BY <1>2, LegAtWork
<1>4. PICK n : /\ SaveLeg(w, n) /\ LegMoves(leg[w], n) /\ n.prot # "rough"
               /\ ~ProtectionApplied(w) => n.prot = "fallback"
  <2>1. CASE ProtectionApplied(w)
    <3>1. LegMoves(leg[w], [leg[w] EXCEPT !.prot = "precise"])
      BY <1>2, <1>3, <2>1, LegUpdates
    <3>2. SaveLeg(w, [leg[w] EXCEPT !.prot = "precise"]) /\ [leg[w] EXCEPT !.prot = "precise"].prot = "precise"
      BY <1>3, <2>1 DEF ProtectionApplied, Legs
    <3> QED
      BY <2>1, <3>1, <3>2
  <2>2. CASE RollbackApplied(w)
    <3> DEFINE n == [leg[w] EXCEPT !.prot = "fallback", !.protRef = "rollback"]
    <3>1. LegMoves(leg[w], n)
      BY <1>3, LegUpdates
    <3>2. SaveLeg(w, n) /\ n.prot = "fallback"
      BY <1>3, <2>2 DEF RollbackApplied, Legs
    <3> HIDE DEF n
    <3> QED
      BY <3>1, <3>2
  <2>3. CASE NoMirroredBox(w) \/ ProtectionRefused(w)
    <3> DEFINE n == [leg[w] EXCEPT !.prot = "fallback"]
    <3>1. LegMoves(leg[w], n)
      BY <1>3, LegUpdates
    <3>2. SaveLeg(w, n) /\ n.prot = "fallback"
      BY <1>3, <2>3 DEF NoMirroredBox, ProtectionRefused, Fallback, Legs
    <3> HIDE DEF n
    <3> QED
      BY <3>1, <3>2
  <2> QED
    BY <2>1, <2>2, <2>3
<1>5. /\ LegSaved(Cur(w), disk[w], leg'[w], disk'[w]) /\ disk'[w].prot # "rough"
      /\ ~ProtectionApplied(w) => disk'[w].prot = "fallback"
      /\ leg' = [leg EXCEPT ![w] = leg'[w]] /\ disk' = [disk EXCEPT ![w] = disk'[w]]
  BY <1>2, <1>4, SavedLeg
<1>6. mem' = mem \/ (mem' = [mem EXCEPT ![w] = mem'[w]] /\ MemKept(mem[w], mem'[w]))
  <2>1. MemKept(mem[w], [mem[w] EXCEPT !.st = "PROTECTING"])
    BY <1>1, MemStates DEF PairStates
  <2> QED
    BY <1>1, <2>1 DEF NoMirroredBox, ProtectionRefused, ProtectionApplied, RollbackApplied, SetMem,
                      Domains
<1>7. Kept(w)
  BY <1>1, <1>5, <1>6, Unmoved DEF Kept
<1>8. Plain(w) /\ run' = [run EXCEPT ![w] = run'[w]]
  <2>1. \/ Resume(w, "converge") \/ ReadThen(w, "converge")
        \/ ReadThen(w, "rolled") /\ RollbackApplied(w)
    BY DEF NoMirroredBox, ProtectionRefused, ProtectionApplied, RollbackApplied, Fallback
  <2>2. RollbackApplied(w) => ~ProtectionApplied(w)
    BY DEF RollbackApplied, ProtectionApplied, Done
  <2> QED
    BY <1>5, <2>1, <2>2, PlainResume, PlainRead DEF Rets
<1>9. Mail(w)
  <2>1. {"protection_precise", "protection_rough_fallback"} \subseteq PeerStatuses
    BY DEF PeerStatuses
  <2>2. CASE ProtectionApplied(w)
    <3>1. Status(Cur(w), "protection_precise") \in Messages /\ Honest(w, Status(Cur(w), "protection_precise"))
      BY <1>2, <1>7, <1>8, <2>1, HonestStatus DEF TerminalStatuses, NonSendStatuses
    <3> QED
      BY <2>2, <3>1, SendMail DEF ProtectionApplied, Send
  <2>3. CASE RollbackApplied(w)
    BY <2>3, NoMail DEF RollbackApplied
  <2>4. CASE NoMirroredBox(w) \/ ProtectionRefused(w)
    <3>1. ~ProtectionApplied(w)
      BY <2>4 DEF NoMirroredBox, ProtectionRefused, ProtectionApplied, Done, At
    <3>2. /\ Status(Cur(w), "protection_rough_fallback") \in Messages
          /\ Honest(w, Status(Cur(w), "protection_rough_fallback"))
      BY <1>2, <1>5, <1>7, <1>8, <2>1, <3>1, HonestStatus DEF TerminalStatuses, NonSendStatuses
    <3> QED
      BY <2>4, <3>2, SendMail DEF NoMirroredBox, ProtectionRefused, Fallback, Send
  <2> QED
    BY <2>2, <2>3, <2>4
<1>10. Touch(w)
  BY <1>1, <1>5, <1>6, <1>8 DEF Touch
<1> QED
  BY <1>1, <1>2, <1>5, <1>7, <1>8, <1>9, <1>10 DEF Routine

LEMMA RollbackSteps ==
    ASSUME OwnInv, NEW w \in Workers, RollbackReported(w) \/ RollbackFailed(w)
    PROVE  Routine(w)
<1>1. /\ Local(w) /\ Own(w) /\ UNCHANGED <<leg, disk, jr, brk, upsets>> /\ Resume(w, "gate")
      /\ run[w].at \in {"rolled", "done"} /\ (At(w, "done") => run[w].job = "rollback")
      /\ At(w, "done") <=> ~RollbackReported(w)
  BY Setup DEF RollbackReported, RollbackFailed, Done, At
<1>2. ~OnEntry(w) /\ (At(w, "done") => Cur(w) \in Attempts) /\ run[w].at \notin {"leg", "prepare", "relay"}
  BY <1>1 DEF Own, Control, Busy, At, OnEntry, Local, Mems, Cur
<1>3. /\ mem' = mem \/ (mem' = [mem EXCEPT ![w] = mem'[w]] /\ MemKept(mem[w], mem'[w]))
      /\ db' = db \/ (db' = [db EXCEPT ![w] = db'[w]] /\ DbKept(Cur(w), db[w], db'[w]))
  <2>1. CASE RollbackReported(w)
    BY <2>1 DEF RollbackReported
  <2>2. CASE ~RollbackReported(w)
    BY <1>1, <1>2, <2>2, Closing DEF RollbackFailed
  <2> QED
    BY <2>1, <2>2
<1>4. Kept(w)
  BY <1>1, <1>2, <1>3, Unmoved DEF Kept
<1>5. Plain(w) /\ run' = [run EXCEPT ![w] = run'[w]]
  BY <1>1, PlainResume DEF Rets
<1>6. Mail(w)
  <2>1. CASE ~RollbackReported(w)
    BY <2>1, NoMail DEF RollbackFailed
  <2>2. CASE RollbackReported(w) /\ Cur(w) = NoAttempt
    BY <2>2, SendMail DEF RollbackReported, Send
  <2>3. CASE RollbackReported(w) /\ Cur(w) # NoAttempt
    <3>1. At(w, "rolled") /\ leg[w].prot = "fallback"
      BY <1>1, <2>3 DEF RollbackReported, Own, RolledBack
    <3>2. disk'[w].prot = "fallback"
      BY <1>1, <2>3, <3>1, LegAtWork DEF At, LegSame
    <3>3. /\ Status(Cur(w), "protection_rough_fallback") \in Messages
          /\ Honest(w, Status(Cur(w), "protection_rough_fallback"))
      BY <1>2, <1>4, <1>5, <2>3, <3>2, HonestStatus DEF PeerStatuses, TerminalStatuses, NonSendStatuses
    <3> QED
      BY <2>3, <3>3, SendMail DEF RollbackReported, Send
  <2> QED
    BY <2>1, <2>2, <2>3
<1>7. Touch(w)
  BY <1>1, <1>3, <1>5 DEF Touch
<1> QED
  BY <1>1, <1>2, <1>4, <1>5, <1>6, <1>7 DEF Routine, At

\* A proof probe, after a time or when the session returns.
LEMMA ProbeSteps ==
    ASSUME OwnInv, NEW w \in Workers, ProbePeer(w) \/ SessionUp(w)
    PROVE  Routine(w)
<1>1. /\ Free(w) /\ UNCHANGED <<leg, disk, db, jr, brk, upsets>> /\ mem[w] \in Mems /\ Domains
      /\ run[w].at \notin {"leg", "prepare", "relay"}
  BY Setup DEF ProbePeer, SessionUp, Ending, Ready, Free, At, Local
<1>2. mem' = [mem EXCEPT ![w] = mem'[w]] /\ MemKept(mem[w], mem'[w])
  <2>1. CASE ProbePeer(w)
    <3>1. MemKept(mem[w], [mem[w] EXCEPT !.probed = TRUE])
      BY <1>1 DEF MemKept, Mems
    <3> QED
      BY <1>1, <2>1, <3>1 DEF ProbePeer, SetMem, Domains
  <2>2. CASE SessionUp(w)
    <3> DEFINE probes == Awaiting(w) /\ PeerSendPossible(w)
               x == IF probes THEN "no" ELSE mem[w].wait
               y == mem[w].probed \/ probes
               n == [mem[w] EXCEPT !.session = TRUE, !.wait = x, !.probed = y]
    <3>1. mem' = [mem EXCEPT ![w] = n]
      BY <2>2 DEF SessionUp, SetMem
    <3>2. x \in {"no", "yes", "over"} /\ y \in BOOLEAN
      BY <1>1 DEF Mems
    <3> HIDE DEF x, y
    <3>3. MemKept(mem[w], n)
      BY <1>1, <3>2 DEF MemKept, Mems
    <3> HIDE DEF n
    <3> QED
      BY <1>1, <3>1, <3>3 DEF Domains
  <2> QED
    BY <2>1, <2>2
<1>3. Kept(w)
  BY <1>1, <1>2, Unmoved, FreeFacts DEF Kept
<1>4. Plain(w) /\ run' = [run EXCEPT ![w] = run'[w]]
  BY PlainIdle DEF ProbePeer, SessionUp
<1>5. Mail(w)
  <2>1. Send(w, <<>>) \/ (Awaiting(w) /\ Send(w, ProofProbe(Cur(w))))
    BY DEF ProbePeer, SessionUp
  <2>2. CASE Send(w, <<>>)
    BY <2>2, SendMail DEF Send
  <2>3. CASE Awaiting(w) /\ Send(w, ProofProbe(Cur(w)))
    <3>1. Cur(w) # NoAttempt /\ ~At(w, "leg") /\ leg[w].empty
      BY <1>1, <2>3 DEF Awaiting, At
    <3>2. disk'[w].empty
      BY <1>1, <3>1, LegAtWork DEF LegSame
    <3>3. Status(Cur(w), "empty") \in Messages /\ Honest(w, Status(Cur(w), "empty"))
      BY <1>1, <1>3, <1>4, <3>1, <3>2, HonestStatus DEF PeerStatuses, TerminalStatuses
    <3>4. /\ Message("leg_status_request", Cur(w), "unknown") \in Messages
          /\ Honest(w, Message("leg_status_request", Cur(w), "unknown"))
      BY <1>1, <3>1, HonestWord
    <3> QED
      BY <2>3, <3>3, <3>4, SendMail DEF ProofProbe, Send
  <2> QED
    BY <2>1, <2>2, <2>3
<1>6. Touch(w)
  BY <1>1, <1>2, <1>4 DEF Touch
<1> QED
  BY <1>1, <1>3, <1>4, <1>5, <1>6, FreeRoutine

-----------------------------------------------------------------------------
(* The envelopes                                                            *)

LEMMA EnvelopeFacts ==
    ASSUME OwnInv, NEW w \in Workers, Ready(w), inbox[w] # <<>>
    PROVE  /\ Free(w) /\ At(w, "idle") /\ Local(w) /\ Domains /\ Own(w) /\ mem[w] \in Mems
           /\ Head(inbox[w]) \in Messages /\ Head(inbox[w]).a \in Attempts
           /\ Head(inbox[w]).status \in PeerStatuses
           /\ MemKept(mem[w], Heard(w)) /\ MemKept(mem[w], CloseMem(Heard(w)))
<1>1. Free(w) /\ At(w, "idle") /\ Local(w) /\ Domains /\ Own(w) /\ mem[w] \in Mems
  BY Setup DEF Ready, Free, At, Local
<1>2. Head(inbox[w]) \in Messages
  BY <1>1, TailFacts DEF Local
<1> QED
  BY <1>1, <1>2, MemUpdates DEF Messages, Heard

\* An envelope that is not answered.
LEMMA EnvelopeRoutine ==
    ASSUME OwnInv, NEW w \in Workers, Ready(w), inbox[w] # <<>>, Reply(w, <<>>),
           UNCHANGED <<leg, disk, jr, brk>>,
           mem' = [mem EXCEPT ![w] = mem'[w]], MemKept(mem[w], mem'[w]),
           db' = db \/ (db' = [db EXCEPT ![w] = db'[w]] /\ DbKept(Cur(w), db[w], db'[w])),
           upsets' = upsets \/ (upsets < MaxUpsets /\ upsets' = upsets + 1),
           Resume(w, "gate") \/ FinalThen(w, "gate")
    PROVE  Routine(w)
<1>1. Free(w)
  BY EnvelopeFacts
<1>2. Kept(w)
  BY <1>1, Unmoved, FreeFacts DEF Kept
<1>3. Plain(w) /\ run' = [run EXCEPT ![w] = run'[w]]
  BY PlainResume, PlainFinal DEF Rets
<1>4. Mail(w)
  BY SendMail DEF Reply
<1>5. Touch(w)
  BY <1>3 DEF Touch
<1> QED
  BY <1>1, <1>2, <1>3, <1>4, <1>5, FreeRoutine

LEMMA IgnoreStep ==
    ASSUME OwnInv, NEW w \in Workers, Ready(w), inbox[w] # <<>>, Ignore(w)
    PROVE  Routine(w)
<1>1. mem' = [mem EXCEPT ![w] = mem'[w]] /\ MemKept(mem[w], mem'[w])
  BY EnvelopeFacts DEF Ignore, SetMem, Domains
<1> QED
  BY <1>1, EnvelopeRoutine DEF Ignore

LEMMA AnswerStep ==
    ASSUME OwnInv, NEW w \in Workers, Ready(w), inbox[w] # <<>>, NEW noRecord \in BOOLEAN,
           noRecord => Head(inbox[w]).kind = "leg_status_request",
           AnswerAndGo(w, Head(inbox[w]).a, noRecord)
    PROVE  Routine(w)
<1> DEFINE a == Head(inbox[w]).a
<1>1. Free(w) /\ a \in Attempts /\ Domains /\ Local(w) /\ run[w].at \notin {"leg", "prepare", "relay"}
  BY EnvelopeFacts DEF At
<1>2. mem' = [mem EXCEPT ![w] = mem'[w]] /\ MemKept(mem[w], mem'[w])
  BY EnvelopeFacts DEF AnswerAndGo, SetMem, Domains
<1>3. UNCHANGED <<leg, disk, db, jr, brk, upsets>> /\ Reply(w, Answer(w, a, noRecord))
  BY DEF AnswerAndGo
<1>4. Kept(w)
  BY <1>1, <1>2, <1>3, Unmoved, FreeFacts DEF Kept
<1>5. Plain(w) /\ run' = [run EXCEPT ![w] = run'[w]]
  BY PlainResume DEF AnswerAndGo, Rets
<1>6. inbox'[w] = Tail(inbox[w])
  BY <1>1, <1>3, PeerFacts DEF Reply, Relay, Domains
<1>7. \/ Answer(w, a, noRecord) = <<>>
      \/ \E s \in PeerStatuses : Answer(w, a, noRecord) = <<Status(a, s)>> /\ Honest(w, Status(a, s))
  <2>1. CASE Cur(w) = a
    <3> DEFINE s == CurrentStatus(leg[w])
    <3>1. Cur(w) # NoAttempt /\ ~At(w, "leg")
      BY <1>1, <2>1 DEF Attempts, NoAttempt, At
    <3>2. LegSame(leg[w], disk[w]) /\ leg[w] \in Legs
      BY <3>1, LegAtWork
    <3>3. leg[w].entry \in EntryStatuses /\ EntryStatuses \subseteq PeerStatuses
          /\ {"empty", "protection_precise"} \subseteq PeerStatuses
      BY <3>2 DEF Legs, PeerStatuses, TerminalStatuses
    <3>4. /\ s \in PeerStatuses /\ s # "protection_rough_fallback"
          /\ s \in TerminalStatuses => leg[w].empty \/ leg[w].entry \in {"rejected", "expired_not_started"}
          /\ s = "filled" => leg[w].entry = "filled"
      BY <3>3 DEF CurrentStatus, TerminalStatuses, NonSendStatuses, EntryStatuses
    <3>5. Answer(w, a, noRecord) = <<Status(a, s)>>
      BY <2>1 DEF Answer
    <3> HIDE DEF s
    <3>6. Honest(w, Status(Cur(w), s))
      BY <1>1, <1>3, <1>4, <1>5, <3>1, <3>2, <3>4, HonestStatus DEF LegSame
    <3> QED
      BY <2>1, <3>4, <3>5, <3>6
  <2>2. CASE Cur(w) # a /\ db[w].row[a] = "none"
    <3> DEFINE m == Status(a, "no_attempt_record")
    <3>1. "no_attempt_record" \in PeerStatuses
      BY DEF PeerStatuses, TerminalStatuses, NonSendStatuses
    <3>2. m.kind = "leg_status" /\ m.a = a /\ m.status = "no_attempt_record"
      BY <1>1, <3>1, StatusFacts
    <3>3. Answer(w, a, noRecord) = IF noRecord THEN <<m>> ELSE <<>>
      BY <2>2 DEF Answer
    <3> HIDE DEF m
    <3>4. noRecord => Honest(w, m)
      BY <1>1, <1>3, <1>6, <2>2, <3>2 DEF Honest, At
    <3> QED
      BY <3>1, <3>3, <3>4 DEF m
  <2>3. CASE Cur(w) # a /\ db[w].row[a] = "live"
    BY <2>3 DEF Answer
  <2>4. CASE Cur(w) # a /\ db[w].row[a] \notin {"none", "live"}
    <3> DEFINE s == TerminalStatus(db[w].row[a])
               m == Status(a, s)
    <3>1. s \in {"rejected", "empty"} /\ s \in PeerStatuses
      BY DEF TerminalStatus, PeerStatuses, TerminalStatuses, EntryStatuses
    <3>2. Answer(w, a, noRecord) = <<m>>
      BY <2>4 DEF Answer
    <3>3. Terminal(db[w].row[a])
      <4>1. db[w].row[a] \in RowStates
        BY <1>1 DEF Local, Rows
      <4> QED
        BY <2>4, <4>1 DEF RowStates, Terminal
    <3> HIDE DEF s
    <3>4. m.kind = "leg_status" /\ m.a = a /\ m.status = s
      BY <1>1, <3>1, StatusFacts
    <3> HIDE DEF m
    <3>5. Honest(w, m)
      BY <1>1, <1>3, <3>1, <3>3, <3>4 DEF Honest, At
    <3> QED
      BY <3>1, <3>2, <3>5 DEF m
  <2> QED
    BY <2>1, <2>2, <2>3, <2>4
<1>8. Mail(w)
  <2>1. CASE Answer(w, a, noRecord) = <<>>
    BY <1>3, <2>1, SendMail DEF Reply
  <2>2. ASSUME NEW s \in PeerStatuses, Answer(w, a, noRecord) = <<Status(a, s)>>, Honest(w, Status(a, s))
        PROVE  Mail(w)
    <3>1. Status(a, s) \in Messages
      BY <1>1, StatusFacts
    <3> QED
      BY <1>3, <2>2, <3>1, SendMail DEF Reply
  <2> QED
    BY <1>7, <2>1, <2>2
<1>9. Touch(w)
  BY <1>2, <1>3, <1>5 DEF Touch
<1> QED
  BY <1>1, <1>3, <1>4, <1>5, <1>8, <1>9, FreeRoutine

\* Envelopes that change nothing, and those that are answered.
LEMMA AnswerSteps ==
    ASSUME OwnInv, NEW w \in Workers,
           \/ ReplayAttempt(w) \/ HandleLegStatusRequest(w) \/ LateLegStatus(w)
           \/ UnsolicitedNoRecord(w) \/ ConfirmationIgnored(w)
    PROVE  Routine(w)
<1>1. Ready(w) /\ inbox[w] # <<>>
  BY DEF ReplayAttempt, HandleLegStatusRequest, LateLegStatus, UnsolicitedNoRecord,
         ConfirmationIgnored, Receiving, CurrentLegStatus
<1>2. \/ Ignore(w)
      \/ \E noRecord \in BOOLEAN :
            /\ AnswerAndGo(w, Head(inbox[w]).a, noRecord)
            /\ noRecord => Head(inbox[w]).kind = "leg_status_request"
  BY DEF ReplayAttempt, HandleLegStatusRequest, LateLegStatus, UnsolicitedNoRecord,
         ConfirmationIgnored, Receiving
<1> QED
  BY <1>1, <1>2, IgnoreStep, AnswerStep

\* Envelopes about the attempt at work.
LEMMA PeerNewsSteps ==
    ASSUME OwnInv, NEW w \in Workers,
           \/ PeerFailed(w) \/ PeerProgress(w) \/ ConfirmationAccepted(w) \/ ConfirmationLate(w)
           \/ HandlePairEntryFailed(w)
    PROVE  Routine(w)
<1>1. /\ Ready(w) /\ inbox[w] # <<>> /\ Reply(w, <<>>) /\ UNCHANGED <<leg, disk, jr, brk>>
      /\ upsets' = upsets \/ (upsets < MaxUpsets /\ upsets' = upsets + 1)
      /\ Resume(w, "gate") \/ FinalThen(w, "gate")
  BY UpsetBound DEF PeerFailed, PeerProgress, ConfirmationAccepted, ConfirmationLate,
         HandlePairEntryFailed, Receiving, CurrentLegStatus
<1>2. /\ mem[w] \in Mems /\ db[w] \in Rows /\ Domains /\ Head(inbox[w]).a \in Attempts
      /\ Head(inbox[w]).status \in PeerStatuses
      /\ MemKept(mem[w], Heard(w)) /\ MemKept(mem[w], CloseMem(Heard(w)))
  BY <1>1, EnvelopeFacts DEF Local
<1>3. mem' = [mem EXCEPT ![w] = mem'[w]] /\ MemKept(mem[w], mem'[w])
  <2>1. SetMem(w, Heard(w)) \/ SetMem(w, CloseMem(Heard(w)))
    BY DEF PeerFailed, PeerProgress, ConfirmationAccepted, ConfirmationLate, HandlePairEntryFailed
  <2> QED
    BY <1>2, <2>1 DEF SetMem, Domains
<1>4. db' = db \/ (db' = [db EXCEPT ![w] = db'[w]] /\ DbKept(Cur(w), db[w], db'[w]))
  <2>1. CASE HandlePairEntryFailed(w) /\ Head(inbox[w]).a # Cur(w)
    <3>1. db' = [db EXCEPT ![w] = db[w]] /\ DbKept(Cur(w), db[w], db[w])
      BY <1>2, <2>1 DEF HandlePairEntryFailed, SetDb, DbKept
    <3> QED
      BY <1>2, <3>1 DEF Domains
  <2>2. CASE ~(HandlePairEntryFailed(w) /\ Head(inbox[w]).a # Cur(w))
    <3>1. Cur(w) \in Attempts
      BY <1>2, <2>2 DEF PeerFailed, PeerProgress, ConfirmationAccepted, ConfirmationLate,
                        CurrentLegStatus, OnEntryPath
    <3>2. \/ SetDb(w, CloseDb(PeerSaid(w))) \/ SetDb(w, PeerSaid(w)) \/ SetDb(w, CloseDb(db[w]))
          \/ SetDb(w, [db[w] EXCEPT !.confirmed = TRUE])
      BY <2>2 DEF PeerFailed, PeerProgress, ConfirmationAccepted, ConfirmationLate,
                  HandlePairEntryFailed
    <3>3. /\ DbKept(Cur(w), db[w], CloseDb(PeerSaid(w))) /\ DbKept(Cur(w), db[w], PeerSaid(w))
          /\ DbKept(Cur(w), db[w], CloseDb(db[w]))
          /\ DbKept(Cur(w), db[w], [db[w] EXCEPT !.confirmed = TRUE])
      BY <1>2, <3>1, DbUpdates DEF PeerSaid
    <3> QED
      BY <1>2, <3>2, <3>3 DEF SetDb, Domains
  <2> QED
    BY <2>1, <2>2
<1> QED
  BY <1>1, <1>3, <1>4, EnvelopeRoutine

-----------------------------------------------------------------------------
(* The steps of a broker write                                              *)

\* The thread is at a broker write of the attempt; the leg may only learn that
\* the attempt was relayed, and the effect moves on.
Writes(w) ==
    /\ run'[w] \in Threads /\ run'[w].at \in {"relay", "mark", "call", "done"}
    /\ run'[w].ret \in {run[w].ret, "gate"} /\ run'[w].then \in {run[w].then, "gate"}
    /\ At(w, "relay")' => w = "leader" /\ At(w, "prepare")
    /\ OnEntry(w)' <=> OnEntry(w)
    /\ (run[w].at \in {"mark", "call", "done"} /\ run[w].job = "protection") => run'[w].job = "protection"
    /\ (run'[w].at # "relay" /\ run'[w].job = "protection") => disk[w].prot = "rough"
    /\ (run'[w].at # "relay" /\ run'[w].job = "rollback") =>
         \/ run[w].at \in {"mark", "call", "done"} /\ run[w].job = "rollback"
         \/ /\ inbox[w] # <<>> /\ Head(inbox[w]).kind = "leg_status"
            /\ Head(inbox[w]).a = Cur(w) /\ Head(inbox[w]).status = "protection_rough_fallback"
LegHeld(k, ln, kn) ==
    /\ ln \in Legs /\ kn \in Legs /\ LegSame(ln, kn) /\ kn.a = k.a /\ kn.entry = k.entry
    /\ kn.empty = k.empty /\ kn.prot = k.prot /\ (k.relayed => kn.relayed)
JrWritten(w) ==
    LET c == Cur(w)
        j == jr'[w][c]
    IN
    /\ jr'[w] \in Journals
    /\ \A a \in Attempts, e \in Effects :
         \/ jr'[w][a][e] = jr[w][a][e]
         \/ /\ a = c /\ <<jr[w][a][e], jr'[w][a][e]>> \in JrMoves
            /\ e = "entry" => OnEntry(w)
            /\ e = "protection" => run'[w].job = "protection" /\ run'[w].at # "relay"
    /\ At(w, "relay")' => j["entry"] = "prepared" /\ j["protection"] = "none"
    /\ At(w, "mark")' => j[run'[w].job] = "prepared"
    /\ At(w, "call")' => j[run'[w].job] = "send_started"
    /\ (At(w, "done")' /\ run'[w].job = "entry") => j["entry"] \notin {"none", "prepared"}
Working(w) ==
    /\ run[w].at \notin {"down", "leg"} /\ Cur(w) # NoAttempt
    /\ Writes(w) /\ JrWritten(w) /\ LegHeld(disk[w], leg'[w], disk'[w])
    /\ MemKept(mem[w], mem'[w]) /\ DbKept(Cur(w), db[w], db'[w])
    /\ Touch(w) /\ Mail(w) /\ brk'[w] \in Holding

LEMMA WorkingOwn ==
    ASSUME NEW w \in Workers, Local(w), Own(w), Working(w)
    PROVE  Own(w)'
<1>1. /\ ~At(w, "down")' /\ ~At(w, "down") /\ ~At(w, "leg")' /\ ~At(w, "leg")
      /\ run'[w].at \notin {"down", "leg", "prepare", "create", "observe", "rolled"}
      /\ mem'[w].cur = Cur(w) /\ Cur(w) # NoAttempt /\ Cur(w) \in Attempts
  BY DEF Working, Writes, At, MemKept, Cur, Local, Mems
<1>2. /\ db'[w].row = db[w].row /\ db'[w].last = db[w].last /\ db[w].row[Cur(w)] = "live"
      /\ LegSame(leg[w], disk[w]) /\ disk[w].a = Cur(w)
  BY <1>1 DEF Working, DbKept, Own, RowsKept, LegKept
<1>3. Control(w)'
  BY <1>1 DEF Working, Writes, Own, Control, StageDue, At, Cur, Rets
<1>4. RowsKept(w)'
  BY <1>1, <1>2 DEF Working, Writes, Own, RowsKept, Cur, Loaded
<1>5. LegKept(w)'
  BY <1>1, <1>2 DEF Working, LegHeld, Own, LegKept, Cur
<1>6. Decided(w)'
  BY <1>1 DEF Own, Decided, Working, MemKept, DbKept, Cur, Stopped
<1>7. EntryStage(w)'
  <2>1. OnEntry(w)' => leg'[w].entry = "pending" /\ ~leg'[w].empty
    BY <1>1, <1>2 DEF Working, Writes, LegHeld, LegSame, Own, EntryStage
  <2>2. /\ At(w, "relay")' => Journal(w, "entry")' = "prepared" /\ Journal(w, "protection")' = "none"
        /\ At(w, "mark")' => Journal(w, run[w].job)' = "prepared"
        /\ At(w, "call")' => Journal(w, run[w].job)' = "send_started"
        /\ (At(w, "done")' /\ run'[w].job = "entry") => Journal(w, "entry")' \notin {"none", "prepared"}
    BY <1>1 DEF Working, JrWritten, Journal, Cur
  <2> QED
    BY <1>1, <2>1, <2>2 DEF EntryStage, At
<1>8. EntryKept(w)'
  <2>1. ASSUME NEW a \in Attempts, db[w].row[a] = "none", NEW e \in Effects
        PROVE  jr'[w][a][e] = "none"
    <3>1. a # Cur(w) /\ jr[w][a][e] = "none"
      BY <1>2, <2>1 DEF Own, EntryKept
    <3> QED
      BY <3>1 DEF Working, JrWritten
  <2>2. ~OnEntry(w)' => leg'[w].entry # "pending"
    BY <1>1, <1>2 DEF Working, Writes, LegHeld, LegSame, Own, EntryKept
  <2>3. ASSUME NEW a \in Attempts, jr'[w][a]["entry"] = "prepared"
        PROVE  /\ db'[w].row[a] = "live" /\ db'[w].last = a
               /\ disk'[w].a = a /\ disk'[w].entry = "pending" /\ ~disk'[w].empty
               /\ Cur(w)' = a /\ OnEntry(w)'
    <3>1. jr[w][a]["entry"] = "prepared" \/ (a = Cur(w) /\ OnEntry(w))
      BY <2>3 DEF Working, JrWritten, Effects
    <3>2. a = Cur(w) /\ OnEntry(w)
      BY <1>1, <3>1 DEF Own, EntryKept
    <3>3. db[w].last = a /\ disk[w].entry = "pending" /\ ~disk[w].empty
      BY <1>1, <1>2, <3>2 DEF Own, RowsKept, EntryStage, LegSame
    <3> QED
      BY <1>1, <1>2, <3>2, <3>3 DEF Working, LegHeld, Writes, Cur
  <2> QED
    BY <1>2, <2>1, <2>2, <2>3 DEF EntryKept
<1>9. leg'[w].prot = leg[w].prot /\ disk[w].prot = leg[w].prot
  BY <1>2 DEF Working, LegHeld, LegSame
<1>10. ProtectedOnce(w)'
  <2>1. ASSUME Journal(w, "protection")' # "none"
        PROVE  \/ leg'[w].prot # "rough" \/ db'[w].desired = "EMPTY"
               \/ run'[w].at \in {"mark", "call", "done"} /\ run'[w].job = "protection"
    <3>1. \/ Journal(w, "protection") # "none"
          \/ run'[w].at \in {"mark", "call", "done"} /\ run'[w].job = "protection"
      <4>1. jr'[w][Cur(w)]["protection"] # "none"
        BY <1>1, <2>1 DEF Journal, Cur
      <4>2. \/ jr'[w][Cur(w)]["protection"] = jr[w][Cur(w)]["protection"]
            \/ run'[w].job = "protection" /\ run'[w].at # "relay"
        BY <1>1 DEF Working, JrWritten, Effects
      <4> QED
        BY <4>1, <4>2 DEF Working, Writes, Journal
    <3>2. CASE Journal(w, "protection") # "none"
      <4>1. \/ leg[w].prot # "rough" \/ db[w].desired = "EMPTY"
            \/ run[w].at \in {"mark", "call", "done"} /\ run[w].job = "protection"
        BY <1>1, <3>2 DEF Own, ProtectedOnce
      <4>2. CASE run[w].at \in {"mark", "call", "done"} /\ run[w].job = "protection"
        <5>1. ~OnEntry(w)' /\ run'[w].job = "protection"
          BY <4>2 DEF Working, Writes, OnEntry
        <5> QED
          BY <5>1 DEF Working, Writes, OnEntry
      <4> QED
        BY <1>9, <4>1, <4>2 DEF Working, DbKept
    <3> QED
      BY <3>1, <3>2
  <2>2. (run'[w].at # "relay" /\ run'[w].job = "protection") => leg'[w].prot = "rough"
    BY <1>9 DEF Working, Writes
  <2> QED
    BY <2>1, <2>2 DEF ProtectedOnce
<1>11. RolledBack(w)'
  BY <1>1, <1>9 DEF Working, Writes, Own, RolledBack, At, Cur
<1> QED
  BY <1>3, <1>4, <1>5, <1>6, <1>7, <1>8, <1>10, <1>11 DEF Own

LEMMA WorkingInv ==
    ASSUME OwnInv, NEW w \in Workers, Working(w)
    PROVE  OwnInv'
<1>1. Own(w)'
  BY Setup, WorkingOwn
<1>2. /\ run'[w] \in Threads /\ mem'[w] \in Mems /\ leg'[w] \in Legs /\ disk'[w] \in Legs
      /\ db'[w] \in Rows /\ jr'[w] \in Journals /\ brk'[w] \in Holding
  BY DEF Working, Writes, MemKept, DbKept, LegHeld, JrWritten
<1> QED
  BY <1>1, <1>2, StepInv DEF Working

LEMMA Journaled ==
    ASSUME OwnInv, NEW w \in Workers, Cur(w) \in Attempts, NEW e \in Effects, NEW s \in EffectStates,
           SetJournal(w, e, s)
    PROVE  /\ jr' = [jr EXCEPT ![w] = jr'[w]] /\ jr'[w] \in Journals /\ jr'[w][Cur(w)][e] = s
           /\ \A a \in Attempts, f \in Effects :
                 jr'[w][a][f] = IF a = Cur(w) /\ f = e THEN s ELSE jr[w][a][f]
<1>1. jr \in [Workers -> Journals] /\ jr[w] \in Journals
  BY DEF OwnInv, TypeOK, Journals
<1>2. jr'[w] = [jr[w] EXCEPT ![Cur(w)][e] = s] /\ jr' = [jr EXCEPT ![w] = jr'[w]]
  BY <1>1 DEF SetJournal
<1> QED
  BY <1>1, <1>2 DEF Journals

\* The effect of a journal entry that was observed.
LEMMA ObservedOne ==
    ASSUME OwnInv, NEW w \in Workers, Cur(w) \in Attempts, NEW e \in Effects,
           RecordObserved(w, {e})
    PROVE  /\ jr' = [jr EXCEPT ![w] = jr'[w]] /\ jr'[w] \in Journals
           /\ \A a \in Attempts, f \in Effects :
                 jr'[w][a][f] = IF a = Cur(w) /\ f = e /\ Open(jr[w][a][f]) THEN "observed"
                                ELSE jr[w][a][f]
<1>1. jr \in [Workers -> Journals] /\ jr[w] \in Journals /\ "observed" \in EffectStates
  BY DEF OwnInv, TypeOK, Journals, EffectStates
<1>2. jr'[w] = [jr[w] EXCEPT ![Cur(w)] =
                  [f \in Effects |-> IF f \in {e} /\ Open(@[f]) THEN "observed" ELSE @[f]]]
  BY <1>1 DEF RecordObserved
<1>3. jr' = [jr EXCEPT ![w] = jr'[w]]
  BY <1>1 DEF RecordObserved
<1> QED
  BY <1>1, <1>2, <1>3 DEF Journals

LEMMA WriteNowThread ==
    ASSUME OwnInv, NEW w \in Workers, NEW e \in Effects, WriteNow(w, e)
    PROVE  /\ run' = [run EXCEPT ![w] = run'[w]] /\ run'[w] \in Threads
           /\ run'[w].at = "mark" /\ run'[w].job = e
           /\ run'[w].ret = run[w].ret /\ run'[w].then = run[w].then
<1>1. run \in [Workers -> Threads] /\ run[w] \in Threads /\ "mark" \in Stages
  BY DEF OwnInv, TypeOK, Stages
<1>2. run' = [run EXCEPT ![w] = [run[w] EXCEPT !.at = "mark", !.job = e]]
  BY DEF WriteNow, Begin
<1>3. run'[w] = [run[w] EXCEPT !.at = "mark", !.job = e]
  BY <1>1, <1>2
<1> QED
  BY <1>1, <1>2, <1>3 DEF Threads

LEMMA GotoThread ==
    ASSUME OwnInv, NEW w \in Workers, NEW s \in Stages, Goto(w, s)
    PROVE  /\ run' = [run EXCEPT ![w] = run'[w]] /\ run'[w] \in Threads
           /\ run'[w].at = s /\ run'[w].job = run[w].job
           /\ run'[w].ret = run[w].ret /\ run'[w].then = run[w].then
<1>1. run \in [Workers -> Threads] /\ run[w] \in Threads
  BY DEF OwnInv, TypeOK
<1>2. run' = [run EXCEPT ![w] = [run[w] EXCEPT !.at = s]]
  BY DEF Goto
<1>3. run'[w] = [run[w] EXCEPT !.at = s]
  BY <1>1, <1>2
<1> QED
  BY <1>1, <1>2, <1>3 DEF Threads

LEMMA DoneThread ==
    ASSUME OwnInv, NEW w \in Workers, NEW o \in {"success", "failure", "raised", "refused"},
           run' = [run EXCEPT ![w] = [@ EXCEPT !.at = "done", !.out = o]]
    PROVE  /\ run' = [run EXCEPT ![w] = run'[w]] /\ run'[w] \in Threads
           /\ run'[w].at = "done" /\ run'[w].job = run[w].job /\ run'[w].out = o
           /\ run'[w].ret = run[w].ret /\ run'[w].then = run[w].then
<1>1. run \in [Workers -> Threads] /\ run[w] \in Threads /\ "done" \in Stages
  BY DEF OwnInv, TypeOK, Stages
<1>2. run'[w] = [run[w] EXCEPT !.at = "done", !.out = o]
  BY <1>1
<1> QED
  BY <1>1, <1>2 DEF Threads

LEMMA HeldLeg ==
    ASSUME OwnInv, NEW w \in Workers, Cur(w) # NoAttempt, ~At(w, "leg"), disk' = disk,
           leg' = leg \/ (leg' = [leg EXCEPT ![w] = leg'[w]] /\ leg'[w] \in Legs
                          /\ LegSame(leg'[w], leg[w]))
    PROVE  LegHeld(disk[w], leg'[w], disk'[w])
  BY LegAtWork DEF LegHeld, LegSame

\* From the prepared entry to its send: the attempt is relayed first.
LEMMA PrepareEntryStep ==
    ASSUME OwnInv, NEW w \in Workers, PrepareEntry(w)
    PROVE  Working(w)
<1>1. /\ At(w, "prepare") /\ Local(w) /\ Domains /\ Own(w) /\ mem[w] \in Mems
      /\ UNCHANGED <<leg, disk, db, brk, inbox, upsets>>
  BY Setup DEF PrepareEntry, Local
<1>2. /\ Cur(w) # NoAttempt /\ Cur(w) \in Attempts /\ OnEntry(w) /\ ~At(w, "leg")
      /\ Journal(w, "entry") = "none" /\ Journal(w, "protection") = "none"
  BY <1>1 DEF Own, Control, Busy, At, OnEntry, EntryStage, Local, Mems, Cur
<1>3. /\ jr' = [jr EXCEPT ![w] = jr'[w]] /\ jr'[w] \in Journals
      /\ \A a \in Attempts, f \in Effects :
            jr'[w][a][f] = IF a = Cur(w) /\ f = "entry" THEN "prepared" ELSE jr[w][a][f]
  BY <1>2, Journaled DEF PrepareEntry, Effects, EffectStates
<1>4. MemKept(mem[w], mem'[w]) /\ mem' = [mem EXCEPT ![w] = mem'[w]]
  <2>1. MemKept(mem[w], [mem[w] EXCEPT !.timer = TRUE])
    BY <1>1, MemUpdates
  <2> QED
    BY <1>1, <2>1 DEF PrepareEntry, SetMem, Domains
<1>5. /\ run' = [run EXCEPT ![w] = run'[w]] /\ run'[w] \in Threads
      /\ run'[w].ret = run[w].ret /\ run'[w].then = run[w].then
      /\ \/ w = "leader" /\ run'[w].at = "relay" /\ run'[w].job = run[w].job
         \/ run'[w].at = "mark" /\ run'[w].job = "entry"
  BY WriteNowThread, GotoThread DEF PrepareEntry, Effects, Stages
<1>6. Writes(w)
  BY <1>1, <1>2, <1>5 DEF Writes, OnEntry, At
<1>7. JrWritten(w)
  <2>1. \A a \in Attempts, e \in Effects :
          \/ jr'[w][a][e] = jr[w][a][e]
          \/ a = Cur(w) /\ <<jr[w][a][e], jr'[w][a][e]>> \in JrMoves /\ e = "entry"
    BY <1>2, <1>3 DEF JrMoves, Journal
  <2>2. jr'[w][Cur(w)]["entry"] = "prepared" /\ jr'[w][Cur(w)]["protection"] = "none"
    BY <1>2, <1>3 DEF Journal, Effects
  <2> QED
    BY <1>2, <1>3, <1>5, <2>1, <2>2 DEF JrWritten, At
<1>8. DbKept(Cur(w), db[w], db'[w])
  BY <1>1, Unmoved
<1>9. LegHeld(disk[w], leg'[w], disk'[w])
  BY <1>1, <1>2, HeldLeg
<1>10. Touch(w)
  BY <1>1, <1>3, <1>4, <1>5 DEF Touch
<1> QED
  BY <1>1, <1>2, <1>4, <1>6, <1>7, <1>8, <1>9, <1>10, NoMail DEF Working, Local, At

LEMMA RelayAttemptStep ==
    ASSUME OwnInv, NEW w \in Workers, RelayAttempt(w)
    PROVE  Working(w)
<1>1. /\ At(w, "relay") /\ Local(w) /\ Domains /\ Own(w) /\ UNCHANGED <<mem, db, jr, brk, upsets>>
  BY Setup DEF RelayAttempt
<1>2. /\ Cur(w) # NoAttempt /\ Cur(w) \in Attempts /\ OnEntry(w) /\ ~At(w, "leg")
      /\ Journal(w, "entry") = "prepared" /\ jr[w] \in Journals /\ brk[w] \in Holding
  BY <1>1 DEF Own, Control, Busy, At, OnEntry, EntryStage, Local, Mems, Cur
<1>3. /\ run' = [run EXCEPT ![w] = run'[w]] /\ run'[w] \in Threads
      /\ run'[w].ret = run[w].ret /\ run'[w].then = run[w].then
      /\ run'[w].at = "mark" /\ run'[w].job = "entry"
  BY WriteNowThread DEF RelayAttempt, Effects
<1>4. /\ LegHeld(disk[w], leg'[w], disk'[w]) /\ disk'[w].a = Cur(w) /\ disk'[w].relayed
      /\ leg' = [leg EXCEPT ![w] = leg'[w]] /\ disk' = [disk EXCEPT ![w] = disk'[w]]
  <2> DEFINE n == [leg[w] EXCEPT !.relayed = TRUE]
  <2>1. LegSame(leg[w], disk[w]) /\ leg[w] \in Legs /\ disk[w].a = Cur(w)
    BY <1>2, LegAtWork
  <2>2. /\ n \in Legs /\ n.relayed /\ n.a = leg[w].a /\ n.entry = leg[w].entry
        /\ n.empty = leg[w].empty /\ n.prot = leg[w].prot
    BY <2>1 DEF Legs
  <2>3. leg' = [leg EXCEPT ![w] = n] /\ disk' = [disk EXCEPT ![w] = n]
    BY DEF RelayAttempt, SaveLeg, SetLeg
  <2> HIDE DEF n
  <2>4. leg'[w] = n /\ disk'[w] = n
    BY <1>1, <2>3 DEF Domains
  <2> QED
    BY <2>1, <2>2, <2>3, <2>4 DEF LegHeld, LegSame
<1>5. Writes(w)
  BY <1>1, <1>2, <1>3 DEF Writes, OnEntry, At
<1>6. JrWritten(w)
  BY <1>1, <1>2, <1>3 DEF JrWritten, Journal, At
<1>7. MemKept(mem[w], mem'[w]) /\ DbKept(Cur(w), db[w], db'[w])
  BY <1>1, Unmoved
<1>8. Mail(w)
  <2> DEFINE m == Message("attempt", Cur(w), "unknown")
  <2>1. m \in Messages /\ m.kind = "attempt" /\ m.a = Cur(w)
    BY <1>2, MessageFacts DEF Kinds, PeerStatuses
  <2>2. Send(w, <<m>>)
    BY DEF RelayAttempt
  <2> HIDE DEF m
  <2>3. Honest(w, m)
    BY <1>1, <1>2, <1>4, <2>1 DEF Honest, At
  <2> QED
    BY <2>1, <2>2, <2>3, SendMail DEF Send
<1>9. Touch(w)
  BY <1>1, <1>3, <1>4 DEF Touch
<1> QED
  BY <1>1, <1>2, <1>4, <1>5, <1>6, <1>7, <1>8, <1>9 DEF Working, At

\* The write itself: refused, marked, sent.
LEMMA WriteSteps ==
    ASSUME OwnInv, NEW w \in Workers, RefuseWrite(w) \/ MarkSendStarted(w) \/ OrderSend(w)
    PROVE  Working(w)
<1> DEFINE job == run[w].job
<1>1. /\ run[w].at \in {"mark", "call"} /\ Local(w) /\ Domains /\ Own(w)
      /\ UNCHANGED <<mem, leg, disk, db, inbox>>
  BY Setup DEF RefuseWrite, MarkSendStarted, OrderSend, At
<1>2. /\ Cur(w) # NoAttempt /\ Cur(w) \in Attempts /\ ~At(w, "leg") /\ job \in Effects
      /\ At(w, "mark") => Journal(w, job) = "prepared"
      /\ At(w, "call") => Journal(w, job) = "send_started"
      /\ jr[w] \in Journals /\ brk[w] \in Holding
  BY <1>1 DEF Own, Control, Busy, At, EntryStage, Local, Mems, Cur, Threads
<1>3. /\ run' = [run EXCEPT ![w] = run'[w]] /\ run'[w] \in Threads /\ run'[w].job = job
      /\ run'[w].ret = run[w].ret /\ run'[w].then = run[w].then
      /\ \/ MarkSendStarted(w) /\ run'[w].at = "call"
         \/ (RefuseWrite(w) \/ OrderSend(w)) /\ run'[w].at = "done"
  <2>1. CASE MarkSendStarted(w)
    BY <2>1, GotoThread DEF MarkSendStarted, Stages
  <2>2. CASE RefuseWrite(w)
    <3>1. run' = [run EXCEPT ![w] = [@ EXCEPT !.at = "done", !.out = "refused"]]
      BY <2>2 DEF RefuseWrite
    <3>2. /\ run' = [run EXCEPT ![w] = run'[w]] /\ run'[w] \in Threads
          /\ run'[w].at = "done" /\ run'[w].job = run[w].job /\ run'[w].out = "refused"
          /\ run'[w].ret = run[w].ret /\ run'[w].then = run[w].then
      BY <3>1, DoneThread
    <3> QED
      BY <2>2, <3>2
  <2>3. CASE OrderSend(w)
    <3>1. PICK r \in Results(job, brk[w][Target(w)]) :
              run' = [run EXCEPT ![w] = [@ EXCEPT !.at = "done", !.out = r[2]]]
      BY <2>3 DEF OrderSend
    <3>2. r[2] \in {"success", "failure", "raised", "refused"}
      BY <1>2, <3>1 DEF Results, EntryResults, ModifyResults, CloseResults, CancelResults, Effects
    <3>3. /\ run' = [run EXCEPT ![w] = run'[w]] /\ run'[w] \in Threads
          /\ run'[w].at = "done" /\ run'[w].job = run[w].job /\ run'[w].out = r[2]
          /\ run'[w].ret = run[w].ret /\ run'[w].then = run[w].then
      BY <3>1, <3>2, DoneThread
    <3> QED
      BY <2>3, <3>3
  <2> QED
    BY <2>1, <2>2, <2>3
<1>4. /\ jr' = jr \/ jr' = [jr EXCEPT ![w] = jr'[w]]
      /\ jr'[w] \in Journals
      /\ \A a \in Attempts, e \in Effects :
           \/ jr'[w][a][e] = jr[w][a][e]
           \/ a = Cur(w) /\ e = job /\ <<jr[w][a][e], jr'[w][a][e]>> \in JrMoves
      /\ run'[w].at = "call" => jr'[w][Cur(w)][job] = "send_started"
      /\ run'[w].at = "done" => jr'[w][Cur(w)][job] \notin {"none", "prepared"}
  <2>1. CASE MarkSendStarted(w) /\ run'[w].at = "call"
    <3>1. /\ jr' = [jr EXCEPT ![w] = jr'[w]] /\ jr'[w] \in Journals
          /\ jr'[w][Cur(w)][job] = "send_started"
          /\ \A a \in Attempts, f \in Effects :
                jr'[w][a][f] = IF a = Cur(w) /\ f = job THEN "send_started" ELSE jr[w][a][f]
      BY <1>2, <2>1, Journaled DEF MarkSendStarted, EffectStates
    <3>2. jr[w][Cur(w)][job] = "prepared"
      BY <1>2, <2>1 DEF MarkSendStarted, Journal
    <3> QED
      BY <2>1, <3>1, <3>2 DEF JrMoves
  <2>2. CASE RefuseWrite(w) /\ run'[w].at = "done"
    <3>1. /\ jr' = [jr EXCEPT ![w] = jr'[w]] /\ jr'[w] \in Journals
          /\ \A a \in Attempts, f \in Effects :
                jr'[w][a][f] = IF a = Cur(w) /\ f = job /\ Open(jr[w][a][f]) THEN "observed"
                               ELSE jr[w][a][f]
      BY <1>2, <2>2, ObservedOne DEF RefuseWrite
    <3>2. jr[w][Cur(w)][job] = "prepared"
      BY <1>2, <2>2 DEF RefuseWrite, Journal
    <3>3. jr'[w][Cur(w)][job] = "observed"
      BY <1>2, <3>1, <3>2 DEF Open
    <3> QED
      BY <2>2, <3>1, <3>2, <3>3 DEF JrMoves
  <2>3. CASE OrderSend(w) /\ run'[w].at = "done"
    <3>1. jr[w][Cur(w)][job] = "send_started"
      BY <1>2, <2>3 DEF OrderSend, Journal
    <3>2. PICK r \in Results(job, brk[w][Target(w)]) :
              IF r[2] = "raised" THEN jr' = jr ELSE SetJournal(w, job, r[2])
      BY <2>3 DEF OrderSend
    <3>3. r[2] \in {"success", "failure", "raised"}
      BY <1>2, <3>2 DEF Results, EntryResults, ModifyResults, CloseResults, CancelResults, Effects
    <3>4. CASE r[2] = "raised"
      BY <1>2, <2>3, <3>1, <3>2, <3>4
    <3>5. CASE r[2] # "raised"
      <4>1. r[2] \in EffectStates
        BY <3>3, <3>5 DEF EffectStates
      <4>2. /\ jr' = [jr EXCEPT ![w] = jr'[w]] /\ jr'[w] \in Journals
            /\ jr'[w][Cur(w)][job] = r[2]
            /\ \A a \in Attempts, f \in Effects :
                  jr'[w][a][f] = IF a = Cur(w) /\ f = job THEN r[2] ELSE jr[w][a][f]
        BY <1>2, <3>2, <3>5, <4>1, Journaled
      <4> QED
        BY <2>3, <3>1, <3>3, <3>5, <4>2 DEF JrMoves
    <3> QED
      BY <3>4, <3>5
  <2> QED
    BY <1>3, <2>1, <2>2, <2>3
<1>5. brk' \in {brk, [brk EXCEPT ![w] = brk'[w]]} /\ brk'[w] \in Holding
  <2>1. CASE ~OrderSend(w)
    BY <1>2, <2>1 DEF RefuseWrite, MarkSendStarted
  <2>2. CASE OrderSend(w)
    <3>1. PICK r \in Results(job, brk[w][Target(w)]) : brk' = [brk EXCEPT ![w][Target(w)] = r[1]]
      BY <2>2 DEF OrderSend
    <3>2. r[1] \in Holdings \cup {brk[w][Target(w)]}
      BY <1>2, <3>1 DEF Results, EntryResults, ModifyResults, CloseResults, CancelResults, Effects,
                        Holdings
    <3>3. brk'[w] = [brk[w] EXCEPT ![Target(w)] = r[1]] /\ brk' = [brk EXCEPT ![w] = brk'[w]]
      BY <1>1, <3>1 DEF Domains
    <3>4. CASE Target(w) \in Attempts
      <4>1. r[1] \in Holdings
        BY <1>2, <3>2, <3>4 DEF Holding
      <4> QED
        BY <1>2, <3>3, <3>4, <4>1 DEF Holding
    <3>5. CASE Target(w) \notin Attempts
      BY <1>2, <3>3, <3>5 DEF Holding
    <3> QED
      BY <3>3, <3>4, <3>5
  <2> QED
    BY <2>1, <2>2
<1>6. Writes(w)
  <2>1. (At(w, "mark") \/ At(w, "call")) /\ (job = "protection" => disk[w].prot = "rough")
    BY <1>1, <1>2, LegAtWork DEF Own, ProtectedOnce, At, LegSame
  <2> QED
    BY <1>3, <2>1 DEF Writes, OnEntry, At
<1>7. JrWritten(w)
  <2>1. job = "entry" => OnEntry(w)
    BY <1>1 DEF OnEntry
  <2> QED
    BY <1>2, <1>3, <1>4, <2>1 DEF JrWritten, At
<1>8. MemKept(mem[w], mem'[w]) /\ DbKept(Cur(w), db[w], db'[w])
  BY <1>1, Unmoved
<1>9. LegHeld(disk[w], leg'[w], disk'[w])
  BY <1>1, <1>2, HeldLeg
<1>10. upsets' = upsets \/ (upsets < MaxUpsets /\ upsets' = upsets + 1)
  BY UpsetBound DEF RefuseWrite, MarkSendStarted, OrderSend
<1>11. Touch(w)
  BY <1>1, <1>3, <1>4, <1>5, <1>10 DEF Touch
<1> QED
  BY <1>1, <1>2, <1>5, <1>6, <1>7, <1>8, <1>9, <1>11, NoMail DEF Working, At

LEMMA StartContainmentStep ==
    ASSUME OwnInv, NEW w \in Workers, StartContainment(w)
    PROVE  Working(w)
<1> DEFINE effect == Wanted(w)
<1>1. /\ At(w, "advance") /\ Local(w) /\ Domains /\ Own(w) /\ effect # "none"
      /\ UNCHANGED <<mem, disk, db, brk, inbox, upsets>>
      /\ Journal(w, effect) \in {"none", "prepared"} /\ SetJournal(w, effect, "prepared")
      /\ WriteNow(w, effect)
  BY Setup DEF StartContainment
<1>2. /\ Cur(w) # NoAttempt /\ Cur(w) \in Attempts /\ ~At(w, "leg") /\ ~OnEntry(w) /\ brk[w] \in Holding
      /\ effect \in {"cancel", "close"} /\ effect \in Effects
  BY <1>1 DEF Own, Control, Busy, At, OnEntry, Local, Mems, Cur, Wanted, Effects
<1> HIDE DEF effect
<1>3. /\ run' = [run EXCEPT ![w] = run'[w]] /\ run'[w] \in Threads
      /\ run'[w].at = "mark" /\ run'[w].job = effect
      /\ run'[w].ret = run[w].ret /\ run'[w].then = run[w].then
  BY <1>1, <1>2, WriteNowThread
<1>4. /\ jr' = [jr EXCEPT ![w] = jr'[w]] /\ jr'[w] \in Journals
      /\ jr'[w][Cur(w)][effect] = "prepared"
      /\ \A a \in Attempts, f \in Effects :
            jr'[w][a][f] = IF a = Cur(w) /\ f = effect THEN "prepared" ELSE jr[w][a][f]
  BY <1>1, <1>2, Journaled DEF EffectStates
<1>5. Writes(w)
  BY <1>1, <1>2, <1>3 DEF Writes, OnEntry, At
<1>6. JrWritten(w)
  <2>1. \A a \in Attempts, f \in Effects :
          \/ jr'[w][a][f] = jr[w][a][f]
          \/ a = Cur(w) /\ f = effect /\ <<jr[w][a][f], jr'[w][a][f]>> \in JrMoves
    BY <1>1, <1>4 DEF Journal, JrMoves
  <2> QED
    BY <1>2, <1>3, <1>4, <2>1 DEF JrWritten, At
<1>7. LegHeld(disk[w], leg'[w], disk'[w]) /\ leg' = [leg EXCEPT ![w] = leg'[w]]
  <2>1. PICK n \in {leg[w], [leg[w] EXCEPT !.closeRef = TRUE]} : leg' = [leg EXCEPT ![w] = n]
    BY DEF StartContainment, SetLeg
  <2>2. leg[w] \in Legs
    BY <1>1 DEF Local
  <2>3. n \in Legs /\ LegSame(n, leg[w])
    BY <2>1, <2>2 DEF Legs, LegSame
  <2>4. leg'[w] = n
    BY <1>1, <2>1 DEF Domains
  <2> QED
    BY <1>1, <1>2, <2>1, <2>3, <2>4, HeldLeg
<1>8. MemKept(mem[w], mem'[w]) /\ DbKept(Cur(w), db[w], db'[w])
  BY <1>1, Unmoved
<1>9. Touch(w)
  BY <1>1, <1>3, <1>4, <1>7 DEF Touch
<1> QED
  BY <1>1, <1>2, <1>5, <1>6, <1>7, <1>8, <1>9, NoMail DEF Working, At

LEMMA StartProtectionStep ==
    ASSUME OwnInv, NEW w \in Workers, StartProtection(w)
    PROVE  Working(w)
<1>1. /\ At(w, "protect") /\ Local(w) /\ Domains /\ Own(w)
      /\ UNCHANGED <<mem, disk, db, brk, inbox, upsets>>
  BY Setup DEF StartProtection
<1>2. /\ Cur(w) # NoAttempt /\ Cur(w) \in Attempts /\ ~At(w, "leg") /\ ~OnEntry(w) /\ brk[w] \in Holding
      /\ leg[w].prot = "rough" /\ db[w].desired = "ACTIVE"
  BY <1>1 DEF Own, Control, Busy, At, OnEntry, Local, Mems, Cur, StageDue, NeedsProtection
<1>3. Journal(w, "protection") = "none"
  BY <1>1, <1>2 DEF Own, ProtectedOnce, At
<1>4. /\ run' = [run EXCEPT ![w] = run'[w]] /\ run'[w] \in Threads
      /\ run'[w].at = "mark" /\ run'[w].job = "protection"
      /\ run'[w].ret = run[w].ret /\ run'[w].then = run[w].then
  BY WriteNowThread DEF StartProtection, Effects
<1>5. /\ jr' = [jr EXCEPT ![w] = jr'[w]] /\ jr'[w] \in Journals
      /\ jr'[w][Cur(w)]["protection"] = "prepared"
      /\ \A a \in Attempts, f \in Effects :
            jr'[w][a][f] = IF a = Cur(w) /\ f = "protection" THEN "prepared" ELSE jr[w][a][f]
  BY <1>2, Journaled DEF StartProtection, EffectStates, Effects
<1>6. Writes(w)
  BY <1>1, <1>2, <1>4, LegAtWork DEF Writes, OnEntry, At, LegSame
<1>7. JrWritten(w)
  <2>1. \A a \in Attempts, f \in Effects :
          \/ jr'[w][a][f] = jr[w][a][f]
          \/ a = Cur(w) /\ f = "protection" /\ <<jr[w][a][f], jr'[w][a][f]>> \in JrMoves
    BY <1>3, <1>5 DEF Journal, JrMoves
  <2> QED
    BY <1>4, <1>5, <2>1 DEF JrWritten, At
<1>8. LegHeld(disk[w], leg'[w], disk'[w]) /\ leg' = [leg EXCEPT ![w] = leg'[w]]
  <2> DEFINE n == [leg[w] EXCEPT !.protRef = "protection"]
  <2>1. leg[w] \in Legs /\ "protection" \in Effects
    BY <1>1 DEF Local, Effects
  <2>2. n \in Legs /\ LegSame(n, leg[w])
    BY <2>1 DEF Legs, LegSame
  <2>3. leg' = [leg EXCEPT ![w] = n]
    BY DEF StartProtection, SetLeg
  <2> HIDE DEF n
  <2>4. leg'[w] = n
    BY <1>1, <2>3 DEF Domains
  <2> QED
    BY <1>1, <1>2, <2>2, <2>3, <2>4, HeldLeg
<1>9. MemKept(mem[w], mem'[w]) /\ DbKept(Cur(w), db[w], db'[w])
  BY <1>1, Unmoved
<1>10. Touch(w)
  BY <1>1, <1>4, <1>5, <1>8 DEF Touch
<1> QED
  BY <1>1, <1>2, <1>6, <1>7, <1>8, <1>9, <1>10, NoMail DEF Working, At

LEMMA PeerFellBackStep ==
    ASSUME OwnInv, NEW w \in Workers, PeerFellBack(w)
    PROVE  Working(w)
<1>1. /\ Ready(w) /\ inbox[w] # <<>> /\ Reply(w, <<>>) /\ UNCHANGED <<leg, disk, brk, upsets>>
      /\ Head(inbox[w]).a = Cur(w) /\ SetMem(w, Heard(w)) /\ SetDb(w, PeerSaid(w))
      /\ leg[w].prot = "precise"
  BY DEF PeerFellBack, CurrentLegStatus, Receiving
<1>2. /\ At(w, "idle") /\ Local(w) /\ Domains /\ Own(w) /\ Cur(w) \in Attempts
      /\ Head(inbox[w]).status \in PeerStatuses /\ MemKept(mem[w], Heard(w)) /\ brk[w] \in Holding
      /\ Cur(w) # NoAttempt /\ ~At(w, "leg") /\ ~OnEntry(w) /\ run \in [Workers -> Threads]
  BY <1>1, EnvelopeFacts DEF Local, Attempts, NoAttempt, At, OnEntry, OwnInv, TypeOK
<1>3. /\ mem' = [mem EXCEPT ![w] = mem'[w]] /\ MemKept(mem[w], mem'[w])
      /\ db' = [db EXCEPT ![w] = db'[w]] /\ DbKept(Cur(w), db[w], db'[w])
  <2>1. DbKept(Cur(w), db[w], PeerSaid(w))
    BY <1>2, DbUpdates DEF PeerSaid, Local
  <2> QED
    BY <1>1, <1>2, <2>1 DEF SetMem, SetDb, Domains
<1>4. \E t \in Threads :
         /\ run' = [run EXCEPT ![w] = t] /\ t.job = "rollback" /\ t.ret = "gate" /\ t.then = "gate"
         /\ t.at = IF Journal(w, "rollback") = "none" THEN "mark" ELSE "done"
  <2>1. "mark" \in Stages /\ "done" \in Stages /\ "rollback" \in Effects
    BY DEF Stages, Effects
  <2>2. CASE Journal(w, "rollback") = "none"
    <3> DEFINE u == Thread("mark")
               t == [u EXCEPT !.job = "rollback"]
    <3>1. u \in Threads /\ u.at = "mark" /\ u.ret = "gate" /\ u.then = "gate"
      BY <2>1, ThreadFacts
    <3>2. run' = [run EXCEPT ![w] = t]
      BY <2>2 DEF PeerFellBack, Begin
    <3> HIDE DEF u
    <3>3. t \in Threads /\ t.at = "mark" /\ t.job = "rollback" /\ t.ret = "gate" /\ t.then = "gate"
      BY <2>1, <3>1 DEF Threads
    <3> HIDE DEF t
    <3> QED
      BY <2>2, <3>2, <3>3
  <2>3. CASE Journal(w, "rollback") # "none"
    <3>1. PICK out \in {"success", "raised"} :
              Begin(w, [Thread("done") EXCEPT !.job = "rollback", !.out = out])
      BY <2>3 DEF PeerFellBack, ReplayedRollback
    <3> DEFINE u == Thread("done")
               t == [u EXCEPT !.job = "rollback", !.out = out]
    <3>2. u \in Threads /\ u.at = "done" /\ u.ret = "gate" /\ u.then = "gate"
      BY <2>1, ThreadFacts
    <3>3. run' = [run EXCEPT ![w] = t]
      BY <3>1 DEF Begin
    <3> HIDE DEF u
    <3>4. t \in Threads /\ t.at = "done" /\ t.job = "rollback" /\ t.ret = "gate" /\ t.then = "gate"
      BY <2>1, <3>1, <3>2 DEF Threads
    <3> HIDE DEF t
    <3> QED
      BY <2>3, <3>3, <3>4
  <2> QED
    BY <2>2, <2>3
<1>5. /\ run' = [run EXCEPT ![w] = run'[w]] /\ run'[w] \in Threads /\ run'[w].job = "rollback"
      /\ run'[w].ret = "gate" /\ run'[w].then = "gate"
      /\ run'[w].at = IF Journal(w, "rollback") = "none" THEN "mark" ELSE "done"
  BY <1>2, <1>4
<1>6. Writes(w)
  <2>1. /\ inbox[w] # <<>> /\ Head(inbox[w]).kind = "leg_status" /\ Head(inbox[w]).a = Cur(w)
        /\ Head(inbox[w]).status = "protection_rough_fallback"
    BY DEF PeerFellBack, CurrentLegStatus, Receiving
  <2>2. ~At(w, "idle") \/ run'[w].at # "relay"
    BY <1>5
  <2> QED
    BY <1>2, <1>5, <2>1, <2>2 DEF Writes, OnEntry, At
<1>7. JrWritten(w) /\ (jr' = jr \/ jr' = [jr EXCEPT ![w] = jr'[w]])
  <2>1. CASE Journal(w, "rollback") = "none"
    <3>1. /\ jr' = [jr EXCEPT ![w] = jr'[w]] /\ jr'[w] \in Journals
          /\ jr'[w][Cur(w)]["rollback"] = "prepared"
          /\ \A a \in Attempts, f \in Effects :
                jr'[w][a][f] = IF a = Cur(w) /\ f = "rollback" THEN "prepared" ELSE jr[w][a][f]
      BY <1>2, <2>1, Journaled DEF PeerFellBack, EffectStates, Effects
    <3>2. \A a \in Attempts, f \in Effects :
            \/ jr'[w][a][f] = jr[w][a][f]
            \/ a = Cur(w) /\ f = "rollback" /\ <<jr[w][a][f], jr'[w][a][f]>> \in JrMoves
      BY <2>1, <3>1 DEF Journal, JrMoves
    <3> QED
      BY <1>5, <2>1, <3>1, <3>2 DEF JrWritten, At
  <2>2. CASE Journal(w, "rollback") # "none" /\ jr' = jr
    BY <1>2, <1>5, <2>2 DEF JrWritten, At, Local
  <2>3. CASE Journal(w, "rollback") # "none" /\ RecordObserved(w, {"rollback"})
    <3>1. /\ jr' = [jr EXCEPT ![w] = jr'[w]] /\ jr'[w] \in Journals
          /\ \A a \in Attempts, f \in Effects :
                jr'[w][a][f] = IF a = Cur(w) /\ f = "rollback" /\ Open(jr[w][a][f]) THEN "observed"
                               ELSE jr[w][a][f]
      BY <1>2, <2>3, ObservedOne DEF Effects
    <3>2. \A a \in Attempts, f \in Effects :
            \/ jr'[w][a][f] = jr[w][a][f]
            \/ a = Cur(w) /\ f = "rollback" /\ <<jr[w][a][f], jr'[w][a][f]>> \in JrMoves
      BY <3>1 DEF JrMoves, Open
    <3> QED
      BY <1>5, <2>3, <3>1, <3>2 DEF JrWritten, At
  <2> QED
    BY <2>1, <2>2, <2>3 DEF PeerFellBack
<1>8. LegHeld(disk[w], leg'[w], disk'[w])
  BY <1>1, <1>2, HeldLeg
<1>9. Mail(w)
  BY <1>1, SendMail DEF Reply
<1>10. Touch(w)
  BY <1>1, <1>3, <1>5, <1>7 DEF Touch
<1> QED
  BY <1>1, <1>2, <1>3, <1>6, <1>7, <1>8, <1>9, <1>10 DEF Working, At

-----------------------------------------------------------------------------
(* The steps that begin, finish or forget an attempt                        *)

\* With no attempt at work, no row is live and no entry is about to be sent.
LEMMA AtRest ==
    ASSUME NEW w \in Workers, Local(w), Own(w), ~At(w, "down"), ~OnEntry(w)
    PROVE  /\ \A a \in Attempts : jr[w][a]["entry"] # "prepared"
           /\ Cur(w) = NoAttempt => (db[w].last # NoAttempt => db[w].row[db[w].last] # "live")
  BY DEF Own, EntryKept, RowsKept, Loaded

\* The attempt becomes the one at work.
Adopts(w, a) ==
    /\ a \in Attempts /\ db[w].row[a] = "none" /\ Cur(w) = NoAttempt
    /\ run[w].at \in {"create", "idle"} /\ ~Stopped(w)
    /\ w = "leader" => a = db[w].last + 1
    /\ w = "follower" => inbox[w] # <<>> /\ Head(inbox[w]).kind = "attempt" /\ Head(inbox[w]).a = a
    /\ mem'[w] \in Mems /\ mem'[w].cur = a /\ mem'[w].st = mem[w].st
    /\ db'[w] = [db[w] EXCEPT !.row[a] = "live", !.last = a]
    /\ run'[w] \in Threads /\ At(w, "leg")'
    /\ run'[w].ret \in Rets \ {"rolled"} /\ run'[w].then \in Rets \cup {"stopped"}
    /\ UNCHANGED <<leg, disk, jr, brk>> /\ Touch(w) /\ Mail(w)

LEMMA AdoptsInv ==
    ASSUME OwnInv, NEW w \in Workers, NEW a \in Attempts, Adopts(w, a)
    PROVE  OwnInv'
<1>1. Local(w) /\ Own(w) /\ ~At(w, "down") /\ ~OnEntry(w) /\ db[w] \in Rows /\ a # NoAttempt
      /\ ~At(w, "leg")
  BY Setup DEF Adopts, At, OnEntry, Local, Attempts, NoAttempt
<1>2. /\ db'[w].row = [db[w].row EXCEPT ![a] = "live"] /\ db'[w].last = a
      /\ db'[w].desired = db[w].desired /\ db'[w].confirmed = db[w].confirmed
      /\ db'[w].active = db[w].active /\ db'[w].peer = db[w].peer /\ db'[w].human = db[w].human
      /\ db'[w] \in Rows
  <2>1. db'[w] = [db[w] EXCEPT !.row[a] = "live", !.last = a]
    BY DEF Adopts
  <2>2. db[w].row \in [Attempts -> RowStates] /\ "live" \in RowStates /\ a \in Attempts
    BY <1>1 DEF RowStates, Rows
  <2>3. [db[w].row EXCEPT ![a] = "live"] \in [Attempts -> RowStates]
    BY <2>2
  <2>4. db'[w] = [db[w] EXCEPT !.row = [db[w].row EXCEPT ![a] = "live"], !.last = a]
    BY <1>1, <2>1 DEF Rows
  <2> QED
    BY <1>1, <2>2, <2>3, <2>4 DEF Rows
<1>3. /\ db'[w].row[a] = "live" /\ \A b \in Attempts : b # a => db'[w].row[b] = db[w].row[b]
      /\ db[w].row \in [Attempts -> RowStates]
  BY <1>1, <1>2 DEF Rows
<1>4. /\ run'[w].at = "leg" /\ Cur(w)' = a /\ leg' = leg /\ disk' = disk /\ jr' = jr /\ ~Stopped(w)'
  BY <1>2 DEF Adopts, At, Cur, Stopped
<1>5. Control(w)'
  BY <1>1, <1>4 DEF Adopts, Control, StageDue, At
<1>6. RowsKept(w)'
  <2>1. Loaded(w)' = a
    BY <1>1, <1>2, <1>3 DEF Loaded
  <2>2. ASSUME w = "leader"
        PROVE  \A b \in Attempts :
                 /\ db'[w].row[b] = "none" <=> b > db'[w].last
                 /\ db'[w].row[b] # "rejected"
                 /\ b < db'[w].last => Terminal(db'[w].row[b])
    <3>1. a = db[w].last + 1 /\ db[w].last \in Attempts \cup {NoAttempt}
      BY <1>1, <2>2 DEF Adopts, Rows
    <3>2. \A b \in Attempts :
            /\ db[w].row[b] = "none" <=> b > db[w].last
            /\ db[w].row[b] # "rejected"
            /\ b < db[w].last => Terminal(db[w].row[b])
      BY <1>1, <2>2 DEF Own, RowsKept
    <3>3. db[w].last # NoAttempt => Terminal(db[w].row[db[w].last])
      BY <1>1, <1>3, <3>1, <3>2, AtRest DEF Adopts, RowStates, Terminal, Attempts, NoAttempt
    <3> QED
      BY <1>2, <1>3, <3>1, <3>2, <3>3 DEF Attempts, NoAttempt
  <2> QED
    BY <1>2, <1>3, <1>4, <2>1, <2>2 DEF RowsKept
<1>7. LegKept(w)'
  <2>1. disk[w].a # NoAttempt => db[w].row[disk[w].a] # "none" /\ disk[w].a \in Attempts
    BY <1>1 DEF Own, LegKept, Local, Legs
  <2>2. disk[w].a # a
    BY <1>1, <2>1 DEF Adopts
  <2>3. disk[w].a # NoAttempt => db'[w].row[disk[w].a] # "none"
    BY <1>3, <2>1, <2>2
  <2> QED
    BY <1>4, <2>2, <2>3 DEF LegKept, At
<1>8. Decided(w)'
  BY <1>1, <1>2, <1>4 DEF Own, Decided, Adopts, At
<1>9. \A e \in Effects : jr[w][a][e] = "none"
  BY <1>1 DEF Adopts, Own, EntryKept
<1>10. EntryStage(w)' /\ EntryKept(w)'
  <2>1. \A b \in Attempts : jr[w][b]["entry"] # "prepared"
    BY <1>1, AtRest
  <2>2. \A b \in Attempts : db'[w].row[b] = "none" => \A e \in Effects : jr[w][b][e] = "none"
    BY <1>1, <1>3 DEF Own, EntryKept
  <2> QED
    BY <1>4, <1>9, <2>1, <2>2 DEF EntryStage, EntryKept, OnEntry, At
<1>11. ProtectedOnce(w)' /\ RolledBack(w)'
  BY <1>4, <1>9 DEF ProtectedOnce, RolledBack, Journal, Effects, At, Adopts
<1>12. Own(w)'
  BY <1>5, <1>6, <1>7, <1>8, <1>10, <1>11 DEF Own
<1> QED
  BY <1>1, <1>2, <1>12, StepInv DEF Adopts, Local

LEMMA NextAttemptFacts ==
    ASSUME OwnInv, CanCreate("leader")
    PROVE  NextAttempt \in Attempts /\ db["leader"].row[NextAttempt] = "none"
           /\ NextAttempt = db["leader"].last + 1
<1>1. /\ db["leader"].last \in Attempts \cup {NoAttempt}
      /\ \A a \in Attempts : db["leader"].row[a] = "none" <=> a > db["leader"].last
      /\ \E a \in Attempts : db["leader"].row[a] = "none"
  BY Setup DEF Workers, Own, RowsKept, Local, Rows, CanCreate
<1>2. db["leader"].last + 1 \in Attempts
  BY <1>1 DEF Attempts, NoAttempt
<1>3. \E a \in Attempts :
         db["leader"].row[a] = "none" /\ \A b \in 1 .. (a - 1) : db["leader"].row[b] # "none"
  BY <1>1, <1>2 DEF Attempts, NoAttempt
<1>4. /\ NextAttempt \in Attempts /\ db["leader"].row[NextAttempt] = "none"
      /\ \A b \in 1 .. (NextAttempt - 1) : db["leader"].row[b] # "none"
  BY <1>3 DEF NextAttempt
<1>5. NextAttempt = db["leader"].last + 1
  BY <1>1, <1>2, <1>4 DEF Attempts, NoAttempt
<1> QED
  BY <1>4, <1>5

LEMMA CreateAttemptStep ==
    ASSUME OwnInv, NEW w \in Workers, CreateAttempt(w)
    PROVE  Adopts(w, NextAttempt) /\ NextAttempt \in Attempts
<1>1. /\ At(w, "create") /\ Local(w) /\ Domains /\ Own(w) /\ UNCHANGED <<leg, disk, jr, brk, inbox, upsets>>
      /\ mem[w] \in Mems
  BY Setup DEF CreateAttempt, Local
<1>2. w = "leader" /\ Cur(w) = NoAttempt /\ ~Stopped(w) /\ CanCreate(w)
  BY <1>1 DEF Own, Control, StageDue, CanCreate
<1>3. /\ NextAttempt \in Attempts /\ db[w].row[NextAttempt] = "none"
      /\ NextAttempt = db[w].last + 1
  BY <1>2, NextAttemptFacts
<1> HIDE DEF NextAttempt
<1>4. /\ mem' = [mem EXCEPT ![w] = mem'[w]] /\ mem'[w] \in Mems /\ mem'[w].cur = NextAttempt
      /\ mem'[w].st = mem[w].st
      /\ db' = [db EXCEPT ![w] = db'[w]]
      /\ db'[w] = [db[w] EXCEPT !.row[NextAttempt] = "live", !.last = NextAttempt]
  <2>1. mem'[w] = [mem[w] EXCEPT !.cur = NextAttempt] /\ mem' = [mem EXCEPT ![w] = mem'[w]]
    BY <1>1 DEF CreateAttempt, AdoptAttempt, SetMem, Domains
  <2>2. mem'[w] \in Mems /\ mem'[w].cur = NextAttempt /\ mem'[w].st = mem[w].st
    BY <1>1, <1>3, <2>1 DEF Mems
  <2> QED
    BY <1>1, <2>1, <2>2 DEF CreateAttempt, AdoptAttempt, SetDb, Domains
<1>5. /\ run' = [run EXCEPT ![w] = run'[w]] /\ run'[w] \in Threads /\ run'[w].at = "leg"
      /\ run'[w].ret = run[w].ret /\ run'[w].then = run[w].then
  BY GotoThread DEF CreateAttempt, Stages
<1>6. Touch(w)
  BY <1>1, <1>4, <1>5 DEF Touch
<1>7. run[w].ret \in Rets \ {"rolled"} /\ run[w].then \in Rets \cup {"stopped"}
  BY <1>1 DEF Own, Control, RolledBack
<1> QED
  BY <1>1, <1>2, <1>3, <1>4, <1>5, <1>6, <1>7, NoMail DEF Adopts, At, Workers

LEMMA AdmitAttemptStep ==
    ASSUME OwnInv, NEW w \in Workers, AdmitAttempt(w)
    PROVE  Adopts(w, Head(inbox[w]).a) /\ Head(inbox[w]).a \in Attempts /\ w = "follower"
<1> DEFINE a == Head(inbox[w]).a
<1>1. /\ Ready(w) /\ inbox[w] # <<>> /\ Head(inbox[w]).kind = "attempt" /\ db[w].row[a] = "none"
      /\ Admissible(w) /\ UNCHANGED <<leg, disk, jr, brk, upsets>> /\ Reply(w, <<>>)
      /\ SetMem(w, [Heard(w) EXCEPT !.cur = a])
      /\ SetDb(w, [db[w] EXCEPT !.row[a] = "live", !.last = a]) /\ Begin(w, Thread("leg"))
  BY DEF AdmitAttempt, Receiving
<1>2. /\ At(w, "idle") /\ Domains /\ Own(w) /\ a \in Attempts /\ Heard(w) \in Mems /\ Local(w)
  BY <1>1, EnvelopeFacts DEF MemKept
<1>3. w = "follower"
  <2>1. inbox["leader"] # <<>> => Head(inbox["leader"]).kind # "attempt"
    <3>1. inbox["leader"] \in Seq(Messages) /\ LeaderMail
      BY DEF OwnInv, TypeOK, Workers
    <3> QED
      BY <3>1, TailFacts DEF LeaderMail
  <2> QED
    BY <1>1, <2>1 DEF Workers
<1>4. Cur(w) = NoAttempt /\ ~Stopped(w)
  BY <1>1, <1>2 DEF Admissible, Own, Decided, At
<1> HIDE DEF a
<1>5. /\ mem' = [mem EXCEPT ![w] = mem'[w]] /\ mem'[w] \in Mems /\ mem'[w].cur = a
      /\ mem'[w].st = mem[w].st
      /\ db' = [db EXCEPT ![w] = db'[w]]
      /\ db'[w] = [db[w] EXCEPT !.row[a] = "live", !.last = a]
  <2>1. mem'[w] = [Heard(w) EXCEPT !.cur = a] /\ mem' = [mem EXCEPT ![w] = mem'[w]]
    BY <1>1, <1>2 DEF SetMem, Domains
  <2>2. Heard(w).st = mem[w].st
    BY <1>2 DEF Heard, Mems, Local
  <2>6. mem'[w] \in Mems /\ mem'[w].cur = a /\ mem'[w].st = mem[w].st
    BY <1>2, <2>1, <2>2 DEF Mems
  <2>3. db' = [db EXCEPT ![w] = [db[w] EXCEPT !.row[a] = "live", !.last = a]]
    BY <1>1 DEF SetDb
  <2>4. DOMAIN db = Workers
    BY <1>2 DEF Domains
  <2>5. /\ db'[w] = [db[w] EXCEPT !.row[a] = "live", !.last = a]
        /\ db' = [db EXCEPT ![w] = db'[w]]
    BY <2>3, <2>4
  <2> QED
    BY <2>1, <2>5, <2>6
<1>6. /\ run' = [run EXCEPT ![w] = run'[w]] /\ run'[w] \in Threads /\ run'[w].at = "leg"
      /\ run'[w].ret = "gate" /\ run'[w].then = "gate"
  <2>1. run' = [run EXCEPT ![w] = Thread("leg")] /\ run'[w] = Thread("leg")
    BY <1>1, <1>2 DEF Begin, Domains
  <2>2. "leg" \in Stages
    BY DEF Stages
  <2>3. /\ Thread("leg") \in Threads /\ Thread("leg").at = "leg" /\ Thread("leg").ret = "gate"
        /\ Thread("leg").then = "gate"
    BY <2>2, ThreadFacts
  <2> QED
    BY <2>1, <2>3
<1>7. Mail(w)
  BY <1>1, SendMail DEF Reply
<1>8. Touch(w)
  BY <1>1, <1>5, <1>6 DEF Touch
<1>9. Adopts(w, a)
  <2>1. inbox[w] # <<>> /\ Head(inbox[w]).kind = "attempt" /\ Head(inbox[w]).a = a
    BY <1>1 DEF a
  <2> QED
    BY <1>1, <1>2, <1>3, <1>4, <1>5, <1>6, <1>7, <1>8, <2>1 DEF Adopts, At, Rets
<1> QED
  BY <1>2, <1>3, <1>9 DEF a

LEMMA PersistLegStep ==
    ASSUME OwnInv, NEW w \in Workers, PersistLeg(w)
    PROVE  /\ OwnInv' /\ Touch(w) /\ Mail(w)
           /\ Cur(w) \in Attempts /\ Cur(w)' = Cur(w) /\ db'[w].row = db[w].row /\ db'[w].last = db[w].last
           /\ db[w].last = Cur(w) /\ db'[w].confirmed = db[w].confirmed /\ db'[w].active = db[w].active
           /\ db'[w].peer = db[w].peer /\ db[w].desired = "NONE" /\ db'[w].human = db[w].human
           /\ disk'[w] = [NoLeg EXCEPT !.a = Cur(w)] /\ mem'[w].st = "ENTERING"
           /\ run'[w].at = "prepare" /\ jr' = jr /\ brk' = brk
<1>1. /\ At(w, "leg") /\ Local(w) /\ Domains /\ Own(w) /\ UNCHANGED <<jr, brk, inbox, upsets>>
      /\ mem[w] \in Mems /\ db[w] \in Rows /\ OnEntry(w)
  BY Setup DEF PersistLeg, Local, OnEntry, At
<1>2. /\ Cur(w) # NoAttempt /\ Cur(w) \in Attempts /\ db[w].row[Cur(w)] = "live" /\ db[w].last = Cur(w)
      /\ \A e \in Effects : jr[w][Cur(w)][e] = "none"
      /\ db[w].desired = "NONE"
  BY <1>1 DEF Own, Control, Busy, At, Local, Mems, Cur, RowsKept, EntryStage, Decided
<1>3. /\ mem'[w].cur = Cur(w) /\ mem'[w].st = "ENTERING" /\ mem'[w] \in Mems
      /\ mem' = [mem EXCEPT ![w] = mem'[w]]
  <2>1. mem'[w] = [mem[w] EXCEPT !.st = "ENTERING"] /\ mem' = [mem EXCEPT ![w] = mem'[w]]
    BY <1>1 DEF PersistLeg, SetMem, Domains
  <2>2. "ENTERING" \in PairStates
    BY DEF PairStates
  <2> QED
    BY <1>1, <2>1, <2>2 DEF Mems, Cur
<1>4. /\ db' = [db EXCEPT ![w] = db'[w]] /\ db'[w] \in Rows
      /\ db'[w].row = db[w].row /\ db'[w].last = db[w].last /\ db'[w].human = db[w].human
      /\ db'[w].confirmed = db[w].confirmed /\ db'[w].active = db[w].active
      /\ db'[w].peer = db[w].peer
  <2>1. db'[w] = [db[w] EXCEPT !.desired = "ACTIVE"] /\ db' = [db EXCEPT ![w] = db'[w]]
    BY <1>1 DEF PersistLeg, SetDb, Domains
  <2> QED
    BY <1>1, <2>1 DEF Rows
<1>5. /\ leg' = [leg EXCEPT ![w] = leg'[w]] /\ disk' = [disk EXCEPT ![w] = disk'[w]]
      /\ disk'[w] = [NoLeg EXCEPT !.a = Cur(w)] /\ leg'[w] = disk'[w]
      /\ disk'[w] \in Legs /\ disk'[w].a = Cur(w) /\ disk'[w].entry = "pending" /\ ~disk'[w].empty
      /\ disk'[w].prot = "rough"
  <2> DEFINE n == [NoLeg EXCEPT !.a = Cur(w)]
  <2>1. n \in Legs /\ n.a = Cur(w) /\ n.entry = "pending" /\ ~n.empty /\ n.prot = "rough"
    BY <1>2 DEF NoLeg, Legs, EntryStatuses, Protections, Holdings, NoAttempt
  <2>2. leg' = [leg EXCEPT ![w] = n] /\ disk' = [disk EXCEPT ![w] = n]
    BY DEF PersistLeg, SaveLeg, SetLeg
  <2>3. leg'[w] = n /\ disk'[w] = n
    BY <1>1, <2>2 DEF Domains
  <2> QED
    BY <2>1, <2>2, <2>3
<1>6. /\ run' = [run EXCEPT ![w] = run'[w]] /\ run'[w] \in Threads /\ run'[w].at = "prepare"
      /\ run'[w].ret = run[w].ret /\ run'[w].then = run[w].then
  BY GotoThread DEF PersistLeg, Stages
<1>7. Cur(w)' = Cur(w) /\ (Stopped(w)' <=> Stopped(w)) /\ Loaded(w)' = Loaded(w)
  BY <1>3, <1>4 DEF Cur, Stopped, Loaded
<1>8. Control(w)'
  BY <1>1, <1>2, <1>6, <1>7 DEF Own, Control, StageDue, At
<1>9. RowsKept(w)' /\ LegKept(w)'
  <2>1. RowsKept(w)'
    BY <1>1, <1>2, <1>4, <1>6, <1>7 DEF Own, RowsKept, At
  <2>2. LegKept(w)'
    BY <1>2, <1>4, <1>5, <1>6, <1>7 DEF LegKept, LegSame, At
  <2> QED
    BY <2>1, <2>2
<1>10. Decided(w)'
  BY <1>1, <1>2, <1>3, <1>4, <1>6, <1>7 DEF Own, Decided, At
<1>11. EntryStage(w)'
  BY <1>1, <1>2, <1>5, <1>6, <1>7 DEF EntryStage, Journal, At, Effects
<1>12. EntryKept(w)'
  <2>1. \A a \in Attempts : jr[w][a]["entry"] # "prepared"
    BY <1>1, <1>2 DEF Own, EntryKept, At, Effects
  <2> QED
    BY <1>1, <1>4, <1>5, <1>6, <2>1 DEF Own, EntryKept, OnEntry, At
<1>13. ProtectedOnce(w)' /\ RolledBack(w)'
  BY <1>1, <1>2, <1>6, <1>7 DEF Own, ProtectedOnce, RolledBack, Journal, Effects, At
<1>14. Own(w)'
  BY <1>8, <1>9, <1>10, <1>11, <1>12, <1>13 DEF Own
<1>15. Touch(w) /\ Mail(w)
  BY <1>1, <1>3, <1>4, <1>5, <1>6, NoMail DEF Touch
<1>16. OwnInv'
  BY <1>1, <1>3, <1>4, <1>5, <1>6, <1>14, <1>15, StepInv DEF Local
<1> QED
  BY <1>1, <1>2, <1>3, <1>4, <1>5, <1>6, <1>7, <1>15, <1>16

\* The attempt at work is the last one, or the last one is not live.
LEMMA FinalizeEmptyStep ==
    ASSUME OwnInv, NEW w \in Workers, FinalizeEmpty(w)
    PROVE  /\ OwnInv' /\ Touch(w) /\ Mail(w)
           /\ Cur(w) \in Attempts /\ Cur(w)' = NoAttempt /\ CanFinalize(w)
           /\ db'[w].row = [db[w].row EXCEPT ![Cur(w)] = "both_empty"] /\ db'[w].last = db[w].last
           /\ ~db'[w].confirmed /\ ~db'[w].active /\ db'[w].peer = "unknown"
           /\ disk'[w].a = NoAttempt /\ mem'[w].st = "EMPTY" /\ Plain(w) /\ jr' = jr /\ brk' = brk
<1> DEFINE a == Cur(w)
           d == ResetDb(db[w], a, "both_empty")
           s == IF At(w, "tail") THEN "wrap" ELSE run[w].then
<1>1. /\ run[w].at \in {"final", "tail"} /\ Local(w) /\ Domains /\ Own(w)
      /\ UNCHANGED <<jr, brk, inbox, upsets>> /\ mem[w] \in Mems /\ db[w] \in Rows /\ Resume(w, s)
  BY Setup DEF FinalizeEmpty, Local
<1>2. /\ Cur(w) # NoAttempt /\ Cur(w) \in Attempts /\ CanFinalize(w) /\ db[w].row[a] = "live"
      /\ ~At(w, "down") /\ ~OnEntry(w) /\ run[w].then \in Rets \cup {"stopped"}
  BY <1>1 DEF Own, Control, StageDue, CanFinalize, At, OnEntry, Local, Mems, Cur, RowsKept
<1>3. /\ mem' = [mem EXCEPT ![w] = mem'[w]] /\ mem'[w] \in Mems /\ mem'[w].cur = NoAttempt
      /\ mem'[w].st = "EMPTY"
  <2>1. mem'[w] = ResetMem(mem[w]) /\ mem' = [mem EXCEPT ![w] = mem'[w]]
    BY <1>1 DEF FinalizeEmpty, SetMem, Domains
  <2>2. "EMPTY" \in PairStates
    BY DEF PairStates
  <2> QED
    BY <1>1, <2>1, <2>2 DEF ResetMem, Mems
<1>4. /\ d \in Rows /\ d.row = [db[w].row EXCEPT ![a] = "both_empty"] /\ d.last = db[w].last
      /\ d.desired = "NONE" /\ ~d.confirmed /\ ~d.active /\ d.peer = "unknown"
  <2>1. "both_empty" \in RowStates /\ "unknown" \in PeerStatuses
    BY DEF RowStates, PeerStatuses
  <2> QED
    BY <1>1, <2>1 DEF ResetDb, Rows
<1>5. /\ db' = [db EXCEPT ![w] = db'[w]]
      /\ db'[w] = IF d.human = [why |-> "proof", a |-> a] THEN [d EXCEPT !.human = NoStop] ELSE d
  BY <1>1 DEF FinalizeEmpty, SetDb, Domains
<1> HIDE DEF d
<1>6. /\ db'[w] \in Rows /\ db'[w].row = [db[w].row EXCEPT ![a] = "both_empty"]
      /\ db'[w].last = db[w].last
      /\ db'[w].desired = "NONE" /\ ~db'[w].confirmed /\ ~db'[w].active /\ db'[w].peer = "unknown"
  <2>1. NoStop \in [why : Stops, a : Attempts \cup {NoAttempt}]
    BY DEF NoStop, Stops
  <2> QED
    BY <1>4, <1>5, <2>1 DEF Rows
<1>7. /\ leg' = [leg EXCEPT ![w] = leg'[w]] /\ disk' = [disk EXCEPT ![w] = disk'[w]]
      /\ disk'[w] \in Legs /\ leg'[w] \in Legs /\ disk'[w].a = NoAttempt
  <2>1. NoLeg \in Legs /\ NoLeg.a = NoAttempt
    BY DEF NoLeg, Legs, EntryStatuses, Protections, Holdings
  <2>2. leg' = [leg EXCEPT ![w] = NoLeg] /\ disk' = [disk EXCEPT ![w] = NoLeg]
    BY DEF FinalizeEmpty, SaveLeg, SetLeg
  <2>3. leg'[w] = NoLeg /\ disk'[w] = NoLeg
    BY <1>1, <2>2 DEF Domains
  <2> QED
    BY <2>1, <2>2, <2>3
<1>8. /\ db'[w].row[a] = "both_empty" /\ \A b \in Attempts : b # a => db'[w].row[b] = db[w].row[b]
      /\ db[w].row \in [Attempts -> RowStates]
  BY <1>1, <1>2, <1>6 DEF Rows
<1>9. Plain(w) /\ run' = [run EXCEPT ![w] = run'[w]]
  <2>1. Cur(w)' = NoAttempt
    BY <1>3 DEF Cur
  <2>2. s \in Rets \cup {"create", "protect", "wrap", "stopped"} /\ s # "create"
    BY <1>2 DEF Rets
  <2> HIDE DEF s
  <2> QED
    BY <1>1, <2>1, <2>2, PlainResume
<1>10. /\ Cur(w)' = NoAttempt /\ ~OnEntry(w)' /\ ~At(w, "down")' /\ ~At(w, "leg")'
       /\ run'[w].at \notin {"mark", "call", "done", "relay", "prepare"} /\ run'[w] \in Threads
  BY <1>3, <1>9 DEF Cur, Plain, OnEntry, At, Landings, Rets
<1>11. Control(w)'
  BY <1>9, <1>10 DEF Plain, Control, At
<1>12. RowsKept(w)'
  <2>1. Loaded(w)' = NoAttempt
    BY <1>1, <1>2, <1>6, <1>8 DEF Own, RowsKept, Loaded, Rows
  <2> QED
    BY <1>1, <1>2, <1>6, <1>8, <1>10, <2>1 DEF Own, RowsKept, Terminal
<1>13. LegKept(w)' /\ Decided(w)'
  BY <1>6, <1>7, <1>10 DEF LegKept, Decided
<1>14. EntryStage(w)'
  BY <1>9, <1>10 DEF EntryStage, Plain, At
<1>15. EntryKept(w)'
  <2>1. \A b \in Attempts : jr[w][b]["entry"] # "prepared"
    BY <1>1, <1>2, AtRest
  <2>2. \A b \in Attempts : db'[w].row[b] = "none" => \A e \in Effects : jr[w][b][e] = "none"
    BY <1>1, <1>8 DEF Own, EntryKept
  <2> QED
    BY <1>1, <1>10, <2>1, <2>2 DEF EntryKept
<1>16. ProtectedOnce(w)' /\ RolledBack(w)'
  BY <1>9, <1>10 DEF ProtectedOnce, RolledBack, Plain
<1>17. Own(w)'
  BY <1>11, <1>12, <1>13, <1>14, <1>15, <1>16 DEF Own
<1>18. Touch(w) /\ Mail(w)
  BY <1>1, <1>3, <1>5, <1>7, <1>9, NoMail DEF Touch
<1>19. OwnInv'
  BY <1>1, <1>3, <1>6, <1>7, <1>10, <1>17, <1>18, StepInv DEF Local
<1> QED
  BY <1>1, <1>2, <1>3, <1>6, <1>7, <1>9, <1>10, <1>18, <1>19

\* A refused attempt is on record before the refusal is reported; the attempt
\* at work, if any, goes on.
LEMMA RefuseAttemptStep ==
    ASSUME OwnInv, NEW w \in Workers, RefuseAttempt(w)
    PROVE  /\ OwnInv' /\ Touch(w) /\ Mail(w) /\ w = "follower" /\ At(w, "idle")
           /\ Head(inbox[w]).a \in Attempts /\ db[w].row[Head(inbox[w]).a] = "none"
           /\ inbox[w] # <<>> /\ Head(inbox[w]).kind = "attempt"
           /\ db'[w].row = [db[w].row EXCEPT ![Head(inbox[w]).a] = "rejected"]
           /\ db'[w].last = Head(inbox[w]).a /\ db'[w].desired = db[w].desired
           /\ db'[w].confirmed = db[w].confirmed /\ db'[w].active = db[w].active
           /\ db'[w].peer = db[w].peer /\ db'[w].human = db[w].human
           /\ MemKept(mem[w], mem'[w]) /\ mem'[w].st = mem[w].st
           /\ Plain(w) /\ leg' = leg /\ disk' = disk /\ jr' = jr /\ brk' = brk
<1> DEFINE a == Head(inbox[w]).a
           m == Status(a, "rejected")
<1>1. /\ Ready(w) /\ inbox[w] # <<>> /\ Head(inbox[w]).kind = "attempt" /\ db[w].row[a] = "none"
      /\ UNCHANGED <<leg, disk, jr, brk>> /\ Reply(w, <<m>>) /\ SetMem(w, Heard(w))
      /\ SetDb(w, [db[w] EXCEPT !.row[a] = "rejected", !.last = a]) /\ Resume(w, "gate")
      /\ upsets' = upsets \/ (upsets < MaxUpsets /\ upsets' = upsets + 1)
  BY UpsetBound DEF RefuseAttempt, Receiving
<1>2. /\ At(w, "idle") /\ Domains /\ Own(w) /\ a \in Attempts /\ MemKept(mem[w], Heard(w)) /\ Local(w)
      /\ db[w] \in Rows /\ mem[w] \in Mems
  BY <1>1, EnvelopeFacts DEF Local
<1>3. w = "follower"
  <2>1. inbox["leader"] # <<>> => Head(inbox["leader"]).kind # "attempt"
    <3>1. inbox["leader"] \in Seq(Messages) /\ LeaderMail
      BY DEF OwnInv, TypeOK, Workers
    <3> QED
      BY <3>1, TailFacts DEF LeaderMail
  <2> QED
    BY <1>1, <2>1 DEF Workers
<1> HIDE DEF a
<1>4. /\ mem'[w] = Heard(w) /\ mem' = [mem EXCEPT ![w] = mem'[w]] /\ MemKept(mem[w], mem'[w])
      /\ mem'[w].st = mem[w].st /\ Cur(w)' = Cur(w) /\ mem'[w] \in Mems
  <2>1. mem'[w] = Heard(w) /\ mem' = [mem EXCEPT ![w] = mem'[w]]
    BY <1>1, <1>2 DEF SetMem, Domains
  <2>2. Heard(w).st = mem[w].st
    BY <1>2 DEF Heard, Mems
  <2> QED
    BY <1>2, <2>1, <2>2 DEF MemKept, Cur
<1>5. /\ db' = [db EXCEPT ![w] = db'[w]] /\ db'[w].row = [db[w].row EXCEPT ![a] = "rejected"]
      /\ db'[w].last = a
      /\ db'[w].desired = db[w].desired /\ db'[w].confirmed = db[w].confirmed
      /\ db'[w].active = db[w].active /\ db'[w].peer = db[w].peer /\ db'[w].human = db[w].human
      /\ db'[w] \in Rows
  <2>1. db' = [db EXCEPT ![w] = [db[w] EXCEPT !.row[a] = "rejected", !.last = a]]
    BY <1>1 DEF SetDb
  <2>2. DOMAIN db = Workers
    BY <1>2 DEF Domains
  <2>3. /\ db'[w] = [db[w] EXCEPT !.row[a] = "rejected", !.last = a]
        /\ db' = [db EXCEPT ![w] = db'[w]]
    BY <2>1, <2>2
  <2>4. db[w].row \in [Attempts -> RowStates] /\ "rejected" \in RowStates
    BY <1>2 DEF RowStates, Rows
  <2>5. [db[w].row EXCEPT ![a] = "rejected"] \in [Attempts -> RowStates]
    BY <1>2, <2>4
  <2>6. db'[w] = [db[w] EXCEPT !.row = [db[w].row EXCEPT ![a] = "rejected"], !.last = a]
    BY <1>2, <2>3 DEF Rows
  <2> QED
    BY <1>2, <2>3, <2>5, <2>6 DEF Rows
<1>6. /\ db'[w].row[a] = "rejected" /\ \A b \in Attempts : b # a => db'[w].row[b] = db[w].row[b]
  BY <1>2, <1>5 DEF Rows
<1>7. Plain(w) /\ run' = [run EXCEPT ![w] = run'[w]]
  BY <1>1, PlainResume DEF Rets
<1>8. Mail(w)
  <2>1. "rejected" \in PeerStatuses
    BY DEF PeerStatuses, TerminalStatuses, NonSendStatuses
  <2>2. m \in Messages /\ m.kind = "leg_status" /\ m.a = a /\ m.status = "rejected"
    BY <1>2, <2>1, StatusFacts
  <2>3. Honest(w, m)
    BY <1>1, <1>2, <1>6, <2>2 DEF Honest, Terminal, At, a
  <2> QED
    BY <1>1, <2>2, <2>3, SendMail DEF Reply
<1> HIDE DEF m
<1>9. /\ ~OnEntry(w)' /\ ~At(w, "down")' /\ ~At(w, "leg")' /\ ~OnEntry(w) /\ ~At(w, "leg")
      /\ ~At(w, "down")
      /\ run'[w].at \notin {"mark", "call", "done", "relay", "prepare"} /\ run'[w] \in Threads
  BY <1>2, <1>7 DEF Plain, OnEntry, At, Landings, Rets
<1>10. a # NoAttempt /\ Loaded(w)' = NoAttempt
  BY <1>2, <1>5, <1>6 DEF Attempts, NoAttempt, Loaded
<1>11. Cur(w) # a /\ (Cur(w) # NoAttempt => Cur(w) \in Attempts /\ db[w].row[Cur(w)] = "live")
  BY <1>1, <1>2 DEF Own, RowsKept, Mems, Cur, Attempts, NoAttempt
<1>12. Control(w)'
  BY <1>4, <1>7, <1>9 DEF Plain, Control, At
<1>13. RowsKept(w)'
  BY <1>3, <1>4, <1>6, <1>9, <1>10, <1>11 DEF RowsKept
<1>14. LegKept(w)' /\ Decided(w)'
  <2>1. disk[w].a \in Attempts \cup {NoAttempt}
    BY <1>2 DEF Local, Legs
  <2>2. LegKept(w)'
    BY <1>1, <1>2, <1>4, <1>6, <1>9, <2>1 DEF Own, LegKept
  <2>3. Decided(w)'
    BY <1>2, <1>4, <1>5, <1>9 DEF Own, Decided, Stopped
  <2> QED
    BY <2>2, <2>3
<1>15. EntryStage(w)'
  BY <1>7, <1>9 DEF EntryStage, Plain, At
<1>16. EntryKept(w)'
  <2>1. \A b \in Attempts : jr[w][b]["entry"] # "prepared"
    BY <1>2, <1>9, AtRest
  <2>2. \A b \in Attempts : db'[w].row[b] = "none" => \A e \in Effects : jr[w][b][e] = "none"
    BY <1>2, <1>6 DEF Own, EntryKept
  <2>3. Cur(w) # NoAttempt => leg[w].entry # "pending"
    BY <1>2, <1>9 DEF Own, EntryKept
  <2> QED
    BY <1>1, <1>4, <2>1, <2>2, <2>3 DEF EntryKept
<1>17. ProtectedOnce(w)' /\ RolledBack(w)'
  <2>1. ProtectedOnce(w)'
    BY <1>1, <1>2, <1>4, <1>5, <1>9 DEF Own, ProtectedOnce, Journal, At
  <2>2. At(w, "create")' => run'[w].ret # "rolled"
    BY <1>7 DEF Plain
  <2>3. ((run'[w].ret = "rolled" \/ At(w, "rolled")') /\ Cur(w) # NoAttempt) => leg'[w].prot = "fallback"
    <3>1. ((run'[w].ret = "rolled" \/ At(w, "rolled")') /\ Cur(w) # NoAttempt) =>
             run[w].ret = "rolled" \/ disk'[w].prot = "fallback"
      BY <1>2, <1>4, <1>7 DEF Plain, At
    <3>2. Cur(w) # NoAttempt => leg[w].prot = disk[w].prot
      BY <1>2, <1>9 DEF Own, LegKept, LegSame
    <3> QED
      BY <1>1, <1>2, <3>1, <3>2 DEF Own, RolledBack
  <2>4. RolledBack(w)'
    BY <1>4, <1>9, <2>2, <2>3 DEF RolledBack
  <2> QED
    BY <2>1, <2>4
<1>18. Own(w)'
  BY <1>12, <1>13, <1>14, <1>15, <1>16, <1>17 DEF Own
<1>19. Touch(w)
  BY <1>1, <1>4, <1>5, <1>7 DEF Touch
<1>20. OwnInv'
  BY <1>1, <1>2, <1>4, <1>5, <1>8, <1>9, <1>18, <1>19, StepInv DEF Local
<1> QED
  BY <1>1, <1>2, <1>3, <1>4, <1>5, <1>7, <1>8, <1>19, <1>20 DEF a

-----------------------------------------------------------------------------
(* A crash, and the three ways to recover                                   *)

\* A stop of a cell that dies is about the attempt its restart will load.
LEMMA CrashStep ==
    ASSUME OwnInv, NEW w \in Workers, Crash(w)
    PROVE  /\ OwnInv' /\ Touch(w) /\ Mail(w) /\ ~At(w, "down") /\ At(w, "down")'
           /\ inbox'[w] = <<>> /\ inbox'[Peer(w)] = inbox[Peer(w)]
           /\ mem'[w].cur = NoAttempt /\ mem'[w].st = "IDLE"
           /\ disk' = disk /\ db' = db /\ jr' = jr /\ brk' = brk
<1>1. /\ ~At(w, "down") /\ Local(w) /\ Domains /\ Own(w) /\ UNCHANGED <<disk, db, jr, brk>>
      /\ upsets < MaxUpsets /\ upsets' = upsets + 1
  BY Setup DEF Crash, Upset
<1>2. /\ mem' = [mem EXCEPT ![w] = mem'[w]] /\ mem'[w] \in Mems /\ mem'[w].cur = NoAttempt
      /\ mem'[w].st = "IDLE"
  <2>1. mem'[w] = FreshMem /\ mem' = [mem EXCEPT ![w] = mem'[w]]
    BY <1>1 DEF Crash, SetMem, Domains
  <2>2. FreshMem \in Mems /\ FreshMem.cur = NoAttempt /\ FreshMem.st = "IDLE"
    BY DEF FreshMem, Mems, PairStates
  <2> QED
    BY <2>1, <2>2
<1>3. leg' = [leg EXCEPT ![w] = leg'[w]] /\ leg'[w] \in Legs
  <2>1. NoLeg \in Legs
    BY DEF NoLeg, Legs, EntryStatuses, Protections, Holdings
  <2>2. leg' = [leg EXCEPT ![w] = NoLeg] /\ leg'[w] = NoLeg
    BY <1>1 DEF Crash, SetLeg, Domains
  <2> QED
    BY <2>1, <2>2
<1>4. /\ run' = [run EXCEPT ![w] = run'[w]] /\ run'[w] \in Threads /\ run'[w].at = "down"
      /\ run'[w].ret = "gate" /\ run'[w].then = "gate"
  <2>1. run' = [run EXCEPT ![w] = Thread("down")] /\ run'[w] = Thread("down")
    BY <1>1 DEF Crash, Begin, Domains
  <2>2. "down" \in Stages
    BY DEF Stages
  <2>3. /\ Thread("down") \in Threads /\ Thread("down").at = "down" /\ Thread("down").ret = "gate"
        /\ Thread("down").then = "gate"
    BY <2>2, ThreadFacts
  <2> QED
    BY <2>1, <2>3
<1>5. Mail(w) /\ inbox'[w] = <<>> /\ inbox'[Peer(w)] = inbox[Peer(w)]
  <2>1. /\ inbox \in [Workers -> Seq(Messages)] /\ \A v \in Workers : Len(inbox[v]) <= MaxInbox
        /\ inbox' = [inbox EXCEPT ![w] = <<>>] /\ Peer(w) \in Workers /\ Peer(w) # w
    BY PeerFacts DEF Crash, OwnInv, TypeOK
  <2>2. /\ inbox'[w] = <<>> /\ \A v \in Workers : v # w => inbox'[v] = inbox[v]
        /\ <<>> \in Seq(Messages) /\ Len(<<>>) = 0
    BY <2>1
  <2>3. inbox' \in [Workers -> Seq(Messages)] /\ \A v \in Workers : Len(inbox'[v]) <= MaxInbox
    BY <2>1, <2>2
  <2> QED
    BY <2>1, <2>2, <2>3 DEF Mail
<1>6. /\ Cur(w)' = NoAttempt /\ ~OnEntry(w)' /\ Loaded(w)' = Loaded(w) /\ (Stopped(w)' <=> Stopped(w))
  BY <1>1, <1>2, <1>4 DEF Cur, OnEntry, Loaded, Stopped
<1>7. Control(w)'
  BY <1>4, <1>6 DEF Control, StageDue, At, Rets, Busy
<1>8. RowsKept(w)' /\ LegKept(w)'
  BY <1>1, <1>4, <1>6 DEF Own, RowsKept, LegKept, At
<1>9. Decided(w)'
  <2>1. (Stopped(w) /\ Loaded(w) # NoAttempt) => db[w].human.a = Loaded(w)
    BY <1>1 DEF Own, RowsKept, Decided
  <2> QED
    BY <1>1, <1>4, <1>6, <2>1 DEF Decided, At
<1>10. EntryStage(w)' /\ EntryKept(w)'
  BY <1>1, <1>4, <1>6 DEF Own, EntryStage, EntryKept, At
<1>11. ProtectedOnce(w)' /\ RolledBack(w)'
  BY <1>4, <1>6 DEF ProtectedOnce, RolledBack, At
<1>12. Own(w)'
  BY <1>7, <1>8, <1>9, <1>10, <1>11 DEF Own
<1>13. Touch(w)
  BY <1>1, <1>2, <1>3, <1>4 DEF Touch
<1>14. OwnInv'
  BY <1>1, <1>2, <1>3, <1>4, <1>5, <1>12, <1>13, StepInv DEF Local
<1> QED
  BY <1>1, <1>2, <1>4, <1>5, <1>13, <1>14 DEF At

\* A restart without an attempt to recover: there is none, or the latest one
\* never had a leg row and is over without effect.
LEMMA RestartAtRest ==
    ASSUME OwnInv, NEW w \in Workers, RestartIdle(w) \/ RestartWithoutLeg(w)
    PROVE  /\ OwnInv' /\ Touch(w) /\ Mail(w) /\ At(w, "down") /\ At(w, "idle")' /\ inbox' = inbox
           /\ Cur(w)' = NoAttempt /\ mem'[w].st # "ACTIVE"
           /\ \/ Loaded(w) = NoAttempt /\ db'[w].row = db[w].row
              \/ /\ Loaded(w) \in Attempts /\ disk[w].a # Loaded(w)
                 /\ db'[w].row = [db[w].row EXCEPT ![Loaded(w)] = "no_effect"]
           /\ db'[w].last = db[w].last /\ db'[w].desired = "NONE"
           /\ ~db'[w].confirmed /\ ~db'[w].active /\ db'[w].peer = "unknown"
           /\ disk' = disk /\ jr' = jr /\ brk' = brk
<1>1. /\ At(w, "down") /\ Local(w) /\ Domains /\ Own(w) /\ UNCHANGED <<leg, disk, jr, brk, inbox, upsets>>
      /\ db[w] \in Rows /\ Begin(w, Thread("idle"))
  BY Setup DEF RestartIdle, RestartWithoutLeg, Local
<1> DEFINE d == IF Loaded(w) = NoAttempt
                THEN [db[w] EXCEPT !.desired = "NONE", !.confirmed = FALSE, !.active = FALSE,
                                   !.peer = "unknown"]
                ELSE ResetDb(db[w], Loaded(w), "no_effect")
<1>2. db' = [db EXCEPT ![w] = IF Resolved(d) THEN Unlatched(d) ELSE d]
  BY DEF RestartIdle, RestartWithoutLeg, SetDb
<1>3. mem' = [mem EXCEPT ![w] = FreshMem] \/ mem' = [mem EXCEPT ![w] = [FreshMem EXCEPT !.st = "EMPTY"]]
  BY DEF RestartIdle, RestartWithoutLeg, SetMem
<1>4. /\ Loaded(w) # NoAttempt => /\ disk[w].a # Loaded(w) /\ Loaded(w) \in Attempts
                                  /\ Loaded(w) = db[w].last /\ db[w].row[Loaded(w)] = "live"
  BY <1>1 DEF RestartIdle, RestartWithoutLeg, Loaded, Rows, NoAttempt
<1>5. /\ d \in Rows /\ d.last = db[w].last /\ d.desired = "NONE" /\ ~d.confirmed /\ ~d.active
      /\ d.peer = "unknown"
      /\ d.row = IF Loaded(w) = NoAttempt THEN db[w].row
                 ELSE [db[w].row EXCEPT ![Loaded(w)] = "no_effect"]
  <2>1. "no_effect" \in RowStates /\ "unknown" \in PeerStatuses
    BY DEF RowStates, PeerStatuses
  <2>2. CASE Loaded(w) = NoAttempt
    BY <1>1, <2>1, <2>2 DEF Rows
  <2>3. CASE Loaded(w) # NoAttempt
    BY <1>1, <1>4, <2>1, <2>3 DEF ResetDb, Rows
  <2> QED
    BY <2>2, <2>3
<1> HIDE DEF d
<1>6. /\ db' = [db EXCEPT ![w] = db'[w]] /\ db'[w] \in Rows /\ db'[w].last = db[w].last
      /\ db'[w].desired = "NONE" /\ ~db'[w].confirmed /\ ~db'[w].active /\ db'[w].peer = "unknown"
      /\ db'[w].row = d.row
  <2>1. db'[w] = (IF Resolved(d) THEN Unlatched(d) ELSE d) /\ db' = [db EXCEPT ![w] = db'[w]]
    BY <1>1, <1>2 DEF Domains
  <2>2. NoStop \in [why : Stops, a : Attempts \cup {NoAttempt}]
    BY DEF NoStop, Stops
  <2> QED
    BY <1>5, <2>1, <2>2 DEF Unlatched, Rows
<1>7. /\ mem' = [mem EXCEPT ![w] = mem'[w]] /\ mem'[w] \in Mems /\ mem'[w].cur = NoAttempt
      /\ mem'[w].st # "ACTIVE"
  <2>1. mem'[w] \in {FreshMem, [FreshMem EXCEPT !.st = "EMPTY"]} /\ mem' = [mem EXCEPT ![w] = mem'[w]]
    BY <1>1, <1>3 DEF Domains
  <2>2. /\ FreshMem \in Mems /\ FreshMem.cur = NoAttempt /\ FreshMem.st = "IDLE"
        /\ [FreshMem EXCEPT !.st = "EMPTY"].st = "EMPTY"
        /\ [FreshMem EXCEPT !.st = "EMPTY"] \in Mems
        /\ [FreshMem EXCEPT !.st = "EMPTY"].cur = NoAttempt
    BY DEF FreshMem, Mems, PairStates
  <2> QED
    BY <2>1, <2>2
<1>8. /\ run' = [run EXCEPT ![w] = run'[w]] /\ run'[w] \in Threads /\ run'[w].at = "idle"
      /\ run'[w].ret = "gate" /\ run'[w].then = "gate"
  <2>1. run' = [run EXCEPT ![w] = Thread("idle")] /\ run'[w] = Thread("idle")
    BY <1>1 DEF Begin, Domains
  <2>2. "idle" \in Stages
    BY DEF Stages
  <2>3. /\ Thread("idle") \in Threads /\ Thread("idle").at = "idle" /\ Thread("idle").ret = "gate"
        /\ Thread("idle").then = "gate"
    BY <2>2, ThreadFacts
  <2> QED
    BY <2>1, <2>3
<1>9. Cur(w)' = NoAttempt /\ ~OnEntry(w)' /\ ~At(w, "down")' /\ ~At(w, "leg")'
  BY <1>7, <1>8 DEF Cur, OnEntry, At
<1>10. /\ \A b \in Attempts : b # Loaded(w) => db'[w].row[b] = db[w].row[b]
       /\ Loaded(w) # NoAttempt => db'[w].row[Loaded(w)] = "no_effect"
  BY <1>1, <1>4, <1>5, <1>6 DEF Rows, Attempts, NoAttempt
<1>11. Loaded(w)' = NoAttempt
  <2>1. CASE Loaded(w) = NoAttempt
    BY <1>5, <1>6, <2>1 DEF Loaded
  <2>2. CASE Loaded(w) # NoAttempt
    BY <1>4, <1>6, <1>10, <2>2 DEF Loaded
  <2> QED
    BY <2>1, <2>2
<1>12. Control(w)'
  BY <1>8, <1>9 DEF Control, StageDue, At, Rets, Busy
<1>13. RowsKept(w)'
  <2>1. \A b \in Attempts :
           \/ db'[w].row[b] = db[w].row[b]
           \/ b = Loaded(w) /\ db[w].row[b] = "live" /\ db'[w].row[b] = "no_effect"
    BY <1>4, <1>10 DEF Attempts, NoAttempt
  <2>2. w = "leader" =>
          \A b \in Attempts :
            /\ db'[w].row[b] = "none" <=> b > db'[w].last
            /\ db'[w].row[b] # "rejected"
            /\ b < db'[w].last => Terminal(db'[w].row[b])
    BY <1>1, <1>6, <2>1 DEF Own, RowsKept, Terminal
  <2> QED
    BY <1>9, <1>11, <2>2 DEF RowsKept
<1>14. LegKept(w)' /\ Decided(w)'
  <2>1. disk[w].a \in Attempts \cup {NoAttempt}
    BY <1>1 DEF Local, Legs
  <2>2. LegKept(w)'
    BY <1>1, <1>4, <1>9, <1>10, <2>1 DEF Own, LegKept
  <2>3. Decided(w)'
    BY <1>6, <1>9 DEF Decided
  <2> QED
    BY <2>2, <2>3
<1>15. EntryStage(w)' /\ EntryKept(w)'
  <2>1. \A b \in Attempts : jr[w][b]["entry"] # "prepared"
    BY <1>1, <1>4 DEF Own, EntryKept, Loaded, Attempts, NoAttempt
  <2>2. \A b \in Attempts : db'[w].row[b] = "none" => \A e \in Effects : jr[w][b][e] = "none"
    <3>1. \A b \in Attempts : db'[w].row[b] = "none" => db[w].row[b] = "none"
      BY <1>4, <1>10 DEF Attempts, NoAttempt
    <3> QED
      BY <1>1, <3>1 DEF Own, EntryKept
  <2> QED
    BY <1>1, <1>8, <1>9, <2>1, <2>2 DEF EntryStage, EntryKept, At
<1>16. ProtectedOnce(w)' /\ RolledBack(w)'
  BY <1>8, <1>9 DEF ProtectedOnce, RolledBack, At
<1>17. Own(w)'
  BY <1>12, <1>13, <1>14, <1>15, <1>16 DEF Own
<1>18. Touch(w) /\ Mail(w)
  BY <1>1, <1>6, <1>7, <1>8, NoMail DEF Touch
<1>19. OwnInv'
  BY <1>1, <1>6, <1>7, <1>8, <1>17, <1>18, StepInv DEF Local
<1> QED
  BY <1>1, <1>4, <1>5, <1>6, <1>7, <1>8, <1>9, <1>18, <1>19 DEF At

LEMMA ReadThread ==
    ASSUME OwnInv, NEW w \in Workers, NEW r \in Stages, ReadThen(w, r)
    PROVE  /\ run' = [run EXCEPT ![w] = run'[w]] /\ run'[w] \in Threads
           /\ run'[w].at = "read" /\ run'[w].ret = r
           /\ run'[w].then = run[w].then /\ run'[w].job = run[w].job
<1>1. run \in [Workers -> Threads] /\ run[w] \in Threads
  BY DEF OwnInv, TypeOK
<1>2. run' = [run EXCEPT ![w] = Read(w, run[w], r)]
  BY DEF ReadThen, Begin
<1>3. run'[w] = Read(w, run[w], r)
  BY <1>1, <1>2
<1>4. "read" \in Stages /\ SeenPositions(w) \in Holding
  BY SeenType DEF Stages
<1>5. /\ run'[w] \in Threads /\ run'[w].at = "read" /\ run'[w].ret = r
      /\ run'[w].then = run[w].then /\ run'[w].job = run[w].job
  <2>1. run[w] \in Threads
    BY <1>1
  <2> QED
    BY <1>3, <1>4, <2>1 DEF Read, Threads
<1> QED
  BY <1>1, <1>2, <1>3, <1>5

\* The journal decides what a leg that was still pending did; an entry that was
\* prepared is expired, and anything but ACTIVE is contained.
LEMMA RestartWithLegStep ==
    ASSUME OwnInv, NEW w \in Workers, RestartWithLeg(w)
    PROVE  /\ OwnInv' /\ Touch(w) /\ Mail(w) /\ At(w, "down") /\ At(w, "read")' /\ inbox' = inbox
           /\ Loaded(w) \in Attempts /\ disk[w].a = Loaded(w) /\ Cur(w)' = Loaded(w)
           /\ db'[w].row = db[w].row /\ db'[w].last = db[w].last
           /\ db'[w].confirmed = db[w].confirmed /\ db'[w].active = db[w].active
           /\ db'[w].peer = db[w].peer /\ (db[w].desired = "EMPTY" => db'[w].desired = "EMPTY")
           /\ mem'[w].st = "ACTIVE" => db[w].active /\ Verified(disk[w])
           /\ disk'[w].a = disk[w].a /\ disk'[w].prot = disk[w].prot /\ disk'[w].empty = disk[w].empty
           /\ disk'[w].relayed = disk[w].relayed
           /\ disk'[w].entry = ReconciledEntry(disk[w], jr[w][Loaded(w)]["entry"])
           /\ run'[w].job = run[w].job
           /\ \A b \in Attempts, e \in Effects :
                 jr'[w][b][e] = IF b = Loaded(w) /\ e = "entry" /\ disk[w].entry = "pending"
                                   /\ jr[w][b][e] = "prepared"
                                THEN "observed" ELSE jr[w][b][e]
           /\ brk' = brk
<1> DEFINE a == Loaded(w)
           l == disk[w]
           st == RecoveredState(db[w], l)
           d == RecoveredDb(db[w], st)
           j == jr[w][a]["entry"]
           n == [l EXCEPT !.entry = ReconciledEntry(l, j)]
<1>1. /\ At(w, "down") /\ Local(w) /\ Domains /\ Own(w) /\ UNCHANGED <<brk, inbox, upsets>>
      /\ db[w] \in Rows /\ a # NoAttempt /\ l.a = a /\ ReadThen(w, "gate") /\ l \in Legs
      /\ jr[w] \in Journals /\ run[w] \in Threads
  BY Setup DEF RestartWithLeg, Local
<1>2. a \in Attempts /\ db[w].last = a /\ db[w].row[a] = "live"
  BY <1>1 DEF Loaded, Rows
<1>3. /\ n \in Legs /\ n.a = l.a /\ n.prot = l.prot /\ n.empty = l.empty /\ n.relayed = l.relayed
      /\ n.entry = ReconciledEntry(l, j) /\ n.entry # "pending"
  <2>1. ReconciledEntry(l, j) \in EntryStatuses /\ ReconciledEntry(l, j) # "pending"
    BY <1>1 DEF ReconciledEntry, EntryStatuses, Legs
  <2> QED
    BY <1>1, <2>1 DEF Legs
<1>4. st \in PairStates /\ st \notin {"IDLE", "EMPTY"} /\ (st = "ACTIVE" => Verified(l) /\ db[w].active)
  BY DEF RecoveredState, PairStates
<1>5. /\ d \in Rows /\ d.row = db[w].row /\ d.last = db[w].last /\ d.human = db[w].human
      /\ d.confirmed = db[w].confirmed /\ d.active = db[w].active /\ d.peer = db[w].peer
      /\ st # "ACTIVE" => d.desired = "EMPTY"
      /\ db[w].desired = "EMPTY" => d.desired = "EMPTY"
  BY <1>1 DEF RecoveredDb, CloseDb, Rows
<1>6. ~Resolved(d)
  <2>1. SUFFICES ASSUME Resolved(d) PROVE FALSE
    OBVIOUS
  <2>2. db[w].human.why # "none" /\ db[w].row[db[w].human.a] = "both_empty"
    BY <1>5, <2>1 DEF Resolved
  <2>3. db[w].human.a = a
    BY <1>1, <2>2 DEF Own, Decided, Stopped
  <2> QED
    BY <1>2, <2>2, <2>3
<1> HIDE DEF n, st, d
<1>7. /\ db' = [db EXCEPT ![w] = db'[w]] /\ db'[w] = d
      /\ mem' = [mem EXCEPT ![w] = mem'[w]] /\ mem'[w] = [FreshMem EXCEPT !.cur = a, !.st = st]
      /\ leg' = [leg EXCEPT ![w] = n] /\ disk' = [disk EXCEPT ![w] = n]
      /\ leg'[w] = n /\ disk'[w] = n
  <2>1. db' = [db EXCEPT ![w] = d]
    BY <1>6 DEF RestartWithLeg, SetDb, d, st
  <2>2. mem' = [mem EXCEPT ![w] = [FreshMem EXCEPT !.cur = a, !.st = st]]
    BY <1>6 DEF RestartWithLeg, SetMem, d, st
  <2>3. leg' = [leg EXCEPT ![w] = n] /\ disk' = [disk EXCEPT ![w] = n]
    BY DEF RestartWithLeg, SaveLeg, SetLeg, n
  <2> QED
    BY <1>1, <2>1, <2>2, <2>3 DEF Domains
<1>8. mem'[w] \in Mems /\ mem'[w].cur = a /\ mem'[w].st = st
  <2>1. a \in Attempts \cup {NoAttempt} /\ st \in PairStates
    BY <1>2, <1>4
  <2> HIDE DEF a
  <2>2. FreshMem \in Mems
    BY DEF FreshMem, Mems, PairStates
  <2> QED
    BY <1>7, <2>1, <2>2 DEF Mems
<1>9. /\ jr' = [jr EXCEPT ![w] = jr'[w]] /\ jr'[w] \in Journals
      /\ \A b \in Attempts, e \in Effects :
            jr'[w][b][e] = IF b = a /\ e = "entry" /\ l.entry = "pending" /\ jr[w][b][e] = "prepared"
                           THEN "observed" ELSE jr[w][b][e]
  <2>1. jr' = [jr EXCEPT ![w] = [jr[w] EXCEPT ![a] = [jr[w][a] EXCEPT !["entry"] =
                 IF l.entry = "pending" /\ @ = "prepared" THEN "observed" ELSE @]]]
    BY DEF RestartWithLeg
  <2>2. jr'[w] = [jr[w] EXCEPT ![a] = [jr[w][a] EXCEPT !["entry"] =
                 IF l.entry = "pending" /\ @ = "prepared" THEN "observed" ELSE @]]
        /\ jr' = [jr EXCEPT ![w] = jr'[w]]
    BY <1>1, <2>1 DEF Domains
  <2>3. "observed" \in EffectStates /\ "entry" \in Effects
    BY DEF EffectStates, Effects
  <2> DEFINE x == IF l.entry = "pending" /\ jr[w][a]["entry"] = "prepared" THEN "observed"
                  ELSE jr[w][a]["entry"]
             f == [jr[w][a] EXCEPT !["entry"] = x]
  <2>4. /\ jr[w] \in [Attempts -> [Effects -> EffectStates]] /\ a \in Attempts
        /\ jr'[w] = [jr[w] EXCEPT ![a] = f] /\ x \in EffectStates
    BY <1>1, <1>2, <2>2, <2>3 DEF Journals
  <2>5. x = IF l.entry = "pending" /\ jr[w][a]["entry"] = "prepared" THEN "observed"
            ELSE jr[w][a]["entry"]
    OBVIOUS
  <2> HIDE DEF a, l, x
  <2>6. /\ f \in [Effects -> EffectStates]
        /\ \A e \in Effects : f[e] = IF e = "entry" THEN x ELSE jr[w][a][e]
    BY <2>3, <2>4
  <2> HIDE DEF f
  <2>7. /\ jr'[w] \in [Attempts -> [Effects -> EffectStates]]
        /\ \A b \in Attempts : jr'[w][b] = IF b = a THEN f ELSE jr[w][b]
    BY <2>4, <2>6
  <2>8. ASSUME NEW b \in Attempts, NEW e \in Effects
        PROVE  jr'[w][b][e] = IF b = a /\ e = "entry" /\ l.entry = "pending" /\ jr[w][b][e] = "prepared"
                              THEN "observed" ELSE jr[w][b][e]
    <3>1. CASE b = a /\ e = "entry"
      BY <2>5, <2>6, <2>7, <3>1
    <3>2. CASE b = a /\ e # "entry"
      BY <2>6, <2>7, <3>2
    <3>3. CASE b # a
      BY <2>7, <3>3
    <3> QED
      BY <3>1, <3>2, <3>3
  <2>9. jr' = [jr EXCEPT ![w] = jr'[w]]
    BY <2>2
  <2> QED
    BY <2>7, <2>8, <2>9 DEF Journals
<1>10. /\ run' = [run EXCEPT ![w] = run'[w]] /\ run'[w] \in Threads /\ run'[w].at = "read"
       /\ run'[w].ret = "gate" /\ run'[w].then = run[w].then /\ run'[w].job = run[w].job
  <2>1. "gate" \in Stages
    BY DEF Stages
  <2> QED
    BY <1>1, <2>1, ReadThread
<1>11. /\ Cur(w)' = a /\ ~OnEntry(w)' /\ ~At(w, "down")' /\ ~At(w, "leg")' /\ Loaded(w)' = a
       /\ (Stopped(w)' <=> Stopped(w)) /\ a # NoAttempt
  BY <1>1, <1>2, <1>5, <1>7, <1>8, <1>10 DEF Cur, OnEntry, At, Loaded, Stopped
<1>12. Control(w)'
  <2>1. run[w].then \in Rets \cup {"stopped"}
    BY <1>1 DEF Own, Control
  <2> QED
    BY <1>10, <1>11, <2>1 DEF Control, StageDue, At, Rets, Busy
<1>13. RowsKept(w)' /\ LegKept(w)'
  <2>1. RowsKept(w)'
    BY <1>1, <1>2, <1>5, <1>7, <1>11 DEF Own, RowsKept
  <2>2. LegKept(w)'
    BY <1>1, <1>2, <1>3, <1>5, <1>7, <1>11 DEF LegKept, LegSame
  <2> QED
    BY <2>1, <2>2
<1>14. Decided(w)'
  <2>1. Stopped(w) => db[w].human.a = a
    BY <1>1 DEF Own, Decided
  <2> QED
    BY <1>4, <1>5, <1>7, <1>8, <1>11, <2>1 DEF Decided
<1>15. EntryStage(w)' /\ EntryKept(w)'
  <2>1. ASSUME NEW b \in Attempts PROVE jr'[w][b]["entry"] # "prepared"
    <3>1. jr[w][b]["entry"] = "prepared" => b = a /\ l.entry = "pending"
      BY <1>1, <1>2 DEF Own, EntryKept
    <3> QED
      BY <1>9, <3>1 DEF Effects
  <2>2. \A b \in Attempts : db'[w].row[b] = "none" => \A e \in Effects : jr'[w][b][e] = "none"
    BY <1>1, <1>2, <1>5, <1>7, <1>9 DEF Own, EntryKept
  <2>3. EntryStage(w)'
    BY <1>10, <1>11 DEF EntryStage, At
  <2> QED
    BY <1>3, <1>7, <2>1, <2>2, <2>3 DEF EntryKept
<1>16. ProtectedOnce(w)' /\ RolledBack(w)'
  <2>1. leg'[w].prot # "rough" \/ db'[w].desired = "EMPTY"
    BY <1>3, <1>4, <1>5, <1>7 DEF Verified
  <2> QED
    BY <1>10, <1>11, <2>1 DEF ProtectedOnce, RolledBack, At
<1>17. Own(w)'
  BY <1>12, <1>13, <1>14, <1>15, <1>16 DEF Own
<1>18. Touch(w) /\ Mail(w)
  BY <1>1, <1>7, <1>9, <1>10, NoMail DEF Touch
<1>19. OwnInv'
  BY <1>1, <1>3, <1>5, <1>7, <1>8, <1>9, <1>10, <1>17, <1>18, StepInv DEF Local
<1> QED
  BY <1>1, <1>2, <1>3, <1>4, <1>5, <1>7, <1>8, <1>9, <1>10, <1>11, <1>18, <1>19 DEF At

-----------------------------------------------------------------------------
(* The relay and the broker                                                 *)

\* An envelope is lost, sent again or overtaken: what arrives was under way.
LEMMA RelaySteps ==
    ASSUME OwnInv, NEW w \in Workers, Lose(w) \/ Duplicate(w) \/ Overtake(w)
    PROVE  /\ OwnInv' /\ UNCHANGED <<run, mem, leg, disk, db, jr, brk>>
           /\ \A v \in Workers : v # w => inbox'[v] = inbox[v]
           /\ \A i \in DOMAIN inbox'[w] : \E k \in DOMAIN inbox[w] : inbox'[w][i] = inbox[w][k]
           /\ inbox'[w] \in Seq(Messages) /\ inbox[w] \in Seq(Messages)
<1> DEFINE q == inbox[w]
           n == CASE Lose(w) -> Tail(q)
                  [] ~Lose(w) /\ Duplicate(w) -> <<Head(q)>> \o q
                  [] OTHER -> <<q[2], q[1]>> \o SubSeq(q, 3, Len(q))
<1>1. /\ inbox \in [Workers -> Seq(Messages)] /\ \A v \in Workers : Len(inbox[v]) <= MaxInbox
      /\ q \in Seq(Messages) /\ Len(q) <= MaxInbox /\ LeaderMail /\ TypeOK
  BY DEF OwnInv, TypeOK
<1>2. /\ inbox' = [inbox EXCEPT ![w] = n] /\ UNCHANGED <<run, mem, leg, disk, db, jr, brk>>
      /\ upsets < MaxUpsets /\ upsets' = upsets + 1
  BY DEF Lose, Duplicate, Overtake, Upset
<1>3. n \in Seq(Messages) /\ Len(n) <= MaxInbox /\ \A i \in 1 .. Len(n) : \E k \in 1 .. Len(q) : n[i] = q[k]
  <2>1. CASE Lose(w)
    <3>1. q # <<>> /\ n = Tail(q)
      BY <2>1 DEF Lose
    <3>2. /\ Tail(q) \in Seq(Messages) /\ Len(Tail(q)) = Len(q) - 1 /\ Len(q) > 0
          /\ \A i \in 1 .. Len(Tail(q)) : Tail(q)[i] = q[i + 1]
      BY <1>1, <3>1, TailFacts
    <3> HIDE DEF n, q
    <3>3. \A i \in 1 .. Len(n) : i + 1 \in 1 .. Len(q) /\ n[i] = q[i + 1]
      BY <1>1, <3>1, <3>2
    <3> QED
      BY <1>1, <3>1, <3>2, <3>3
  <2>2. CASE ~Lose(w) /\ Duplicate(w)
    <3>1. q # <<>> /\ n = <<Head(q)>> \o q /\ Len(q) < MaxInbox
      BY <2>2 DEF Duplicate
    <3>2. Head(q) = q[1] /\ q[1] \in Messages /\ Len(q) > 0
      BY <1>1, <3>1, TailFacts
    <3> HIDE DEF n, q
    <3>3. /\ n \in Seq(Messages) /\ Len(n) = Len(q) + 1
          /\ \A i \in 1 .. Len(n) : n[i] = IF i = 1 THEN q[1] ELSE q[i - 1]
      BY <1>1, <3>1, <3>2
    <3>4. \A i \in 1 .. Len(n) : (i = 1 \/ i - 1 \in 1 .. Len(q)) /\ 1 \in 1 .. Len(q)
      BY <1>1, <3>2, <3>3
    <3> QED
      BY <1>1, <3>1, <3>3, <3>4
  <2>3. CASE ~Lose(w) /\ ~Duplicate(w)
    <3>1. Len(q) > 1 /\ n = <<q[2], q[1]>> \o SubSeq(q, 3, Len(q))
      BY <2>3 DEF Overtake
    <3> HIDE DEF n, q
    <3>2. Len(q) \in Nat /\ q[1] \in Messages /\ q[2] \in Messages /\ <<q[2], q[1]>> \in Seq(Messages)
      BY <1>1, <3>1
    <3>3. /\ SubSeq(q, 3, Len(q)) \in Seq(Messages) /\ Len(SubSeq(q, 3, Len(q))) = Len(q) - 2
          /\ \A i \in 1 .. Len(q) - 2 : SubSeq(q, 3, Len(q))[i] = q[i + 2]
      BY <1>1, <3>1, <3>2, SubSeqProperties
    <3>4. /\ n \in Seq(Messages) /\ Len(n) = Len(q)
          /\ \A i \in 1 .. Len(n) : n[i] = IF i <= 2 THEN <<q[2], q[1]>>[i] ELSE SubSeq(q, 3, Len(q))[i - 2]
      BY <1>1, <3>1, <3>2, <3>3
    <3>5. \A i \in 1 .. Len(n) : i > 2 => i - 2 \in 1 .. Len(q) - 2
      BY <3>2, <3>4
    <3>6. \A i \in 1 .. Len(n) : i > 2 => n[i] = q[i]
      BY <3>2, <3>3, <3>4, <3>5
    <3>7. n[1] = q[2] /\ n[2] = q[1] /\ 1 \in 1 .. Len(q) /\ 2 \in 1 .. Len(q)
      BY <3>1, <3>2, <3>4
    <3>8. \A i \in 1 .. Len(n) : i = 1 \/ i = 2 \/ i > 2
      BY <3>2, <3>4
    <3> QED
      BY <1>1, <3>4, <3>6, <3>7, <3>8
  <2> QED
    BY <2>1, <2>2, <2>3
<1> HIDE DEF n
<1>4. /\ inbox'[w] = n /\ \A v \in Workers : v # w => inbox'[v] = inbox[v]
      /\ inbox' \in [Workers -> Seq(Messages)] /\ \A v \in Workers : Len(inbox'[v]) <= MaxInbox
  BY <1>1, <1>2, <1>3
<1>5. \A i \in DOMAIN inbox'[w] : \E k \in DOMAIN inbox[w] : inbox'[w][i] = inbox[w][k]
  BY <1>1, <1>3, <1>4
<1>6. LeaderMail'
  BY <1>1, <1>4, <1>5 DEF LeaderMail, Workers
<1>7. TypeOK'
  BY <1>1, <1>2, <1>4 DEF TypeOK
<1>8. \A v \in Workers : Own(v)'
  <2>1. Touch("leader") /\ Touch("follower")
    BY <1>2 DEF Touch
  <2> QED
    BY <2>1, TouchFrame DEF Workers
<1> QED
  BY <1>2, <1>1, <1>3, <1>4, <1>5, <1>6, <1>7, <1>8 DEF OwnInv

\* The account of one Worker changes by itself.
LEMMA BrokerSteps ==
    ASSUME OwnInv, NEW w \in Workers, NEW a \in Attempts, BrokerFills(w, a) \/ BrokerEnds(w, a)
    PROVE  /\ OwnInv' /\ UNCHANGED <<run, mem, leg, disk, db, jr, inbox>>
           /\ \A v \in Workers, b \in Attempts : (v # w \/ b # a) => brk'[v][b] = brk[v][b]
           /\ Exposed(w, a)
<1>1. PICK h \in Holdings : brk' = [brk EXCEPT ![w] = [brk[w] EXCEPT ![a] = h]]
  BY DEF BrokerFills, BrokerEnds, Holdings
<1>2. /\ UNCHANGED <<run, mem, leg, disk, db, jr, inbox>> /\ brk[w][a] \in Exposure
      /\ upsets' = upsets \/ (upsets < MaxUpsets /\ upsets' = upsets + 1)
  BY DEF BrokerFills, BrokerEnds, UpsetIf, Upset, Exposure
<1>3. brk \in [Workers -> [Attempts -> Holdings]]
  BY DEF OwnInv, TypeOK, Holding
<1>4. /\ brk' \in [Workers -> [Attempts -> Holdings]] /\ brk' = [brk EXCEPT ![w] = brk'[w]]
      /\ \A v \in Workers, b \in Attempts : (v # w \/ b # a) => brk'[v][b] = brk[v][b]
  BY <1>1, <1>3
<1>5. TypeOK' /\ LeaderMail'
  BY <1>2, <1>4 DEF OwnInv, TypeOK, LeaderMail, Holding
<1>6. \A v \in Workers : Own(v)'
  <2>1. /\ \A v \in Workers : Own(v)
        /\ mem' = mem /\ leg' = leg /\ disk' = disk /\ db' = db /\ jr' = jr /\ run' = run
    BY <1>2 DEF OwnInv
  <2>2. \A v \in Workers : Control(v)'
    BY <2>1 DEF Own, Control, StageDue, At, Cur, Stopped, CanCreate, BothObserved,
                    NeedsProtection, Converging, CanFinalize, PeerSendPossible, JournalClear
  <2>3. \A v \in Workers : RowsKept(v)' /\ LegKept(v)' /\ Decided(v)'
    BY <2>1 DEF Own, RowsKept, LegKept, Decided, At, Cur, Loaded, OnEntry, Stopped
  <2>4. \A v \in Workers : EntryStage(v)' /\ EntryKept(v)'
    BY <2>1 DEF Own, EntryStage, EntryKept, At, Cur, OnEntry, Journal
  <2>5. \A v \in Workers : ProtectedOnce(v)' /\ RolledBack(v)'
    BY <2>1 DEF Own, ProtectedOnce, RolledBack, At, Cur, OnEntry, Journal
  <2> QED
    BY <2>2, <2>3, <2>4, <2>5 DEF Own
<1> QED
  BY <1>2, <1>4, <1>5, <1>6 DEF OwnInv, Exposed

-----------------------------------------------------------------------------
(* Every step                                                               *)

\* The kinds of steps the lemmas above know.
Step(w) ==
    \/ Routine(w) \/ Working(w) \/ \E a \in Attempts : Adopts(w, a)
    \/ PersistLeg(w) \/ FinalizeEmpty(w) \/ RefuseAttempt(w)
    \/ Crash(w) \/ Restart(w)
    \/ Lose(w) \/ Duplicate(w) \/ Overtake(w)
    \/ \E a \in Attempts : BrokerFills(w, a) \/ BrokerEnds(w, a)

LEMMA ThreadStepKinds ==
    ASSUME OwnInv, NEW w \in Workers, ThreadStep(w)
    PROVE  Step(w)
<1>1. CASE Entering(w)
  BY <1>1, CreateAttemptStep, StillSteps, PrepareEntryStep, RelayAttemptStep, EntryOutcomeSteps
     DEF Entering, Step
<1>2. CASE Writing(w)
  BY <1>2, WriteSteps DEF Writing, Step
<1>3. CASE Observing(w)
  BY <1>3, ReadSecondStep, StillSteps, CloseSteps, EntryReadSteps, TicketGoneStep, TicketHeldStep
     DEF Observing, Step
<1>4. CASE Containing(w)
  BY <1>4, StartContainmentStep, ContainmentSteps, StillSteps, StopSteps, VerifiedEmptyStep,
     ContainmentDoneStep, ReadSteps, MemSteps, UnlatchSteps DEF Containing, Step
<1>5. CASE Progressing(w)
  BY <1>5, MemSteps, CloseSteps, PairCloseSteps, StillSteps, EmitConfirmationStep,
     StartProtectionStep, ProtectionSteps, RollbackSteps, DeclareActiveStep, ProbeSteps, StopSteps
     DEF Progressing, Step
<1> QED
  BY <1>1, <1>2, <1>3, <1>4, <1>5 DEF ThreadStep

LEMMA EventKinds ==
    ASSUME OwnInv, NEW w \in Workers, LocalEvent(w) \/ Envelope(w)
    PROVE  Step(w)
<1>1. CASE LocalEvent(w)
  BY <1>1, StillSteps, ReadSteps, MemSteps, ProbeSteps, CloseSteps DEF LocalEvent, Step
<1>2. CASE Envelope(w)
  BY <1>2, AnswerSteps, AdmitAttemptStep, PeerNewsSteps, PeerFellBackStep DEF Envelope, Step
<1> QED
  BY <1>1, <1>2

LEMMA StepKinds ==
    ASSUME OwnInv, Next
    PROVE  \E w \in Workers : Step(w)
<1>1. PICK w \in Workers :
        \/ ThreadStep(w) \/ LocalEvent(w) \/ Envelope(w)
        \/ Lose(w) \/ Duplicate(w) \/ Overtake(w) \/ Crash(w) \/ Restart(w)
        \/ \E a \in Attempts : BrokerFills(w, a) \/ BrokerEnds(w, a)
  BY DEF Next
<1>2. Step(w)
  BY <1>1, ThreadStepKinds, EventKinds DEF Step
<1> QED
  BY <1>2

LEMMA InitOwn ==
    ASSUME Init
    PROVE  OwnInv
<1>1. "idle" \in Stages
  BY DEF Stages
<1>2. /\ Thread("idle") \in Threads /\ Thread("idle").at = "idle" /\ Thread("idle").ret = "gate"
      /\ Thread("idle").then = "gate"
  BY <1>1, ThreadFacts
<1>3. /\ FreshMem \in Mems /\ FreshMem.cur = NoAttempt
      /\ NoLeg \in Legs /\ NoLeg.a = NoAttempt
  BY DEF FreshMem, Mems, PairStates, NoLeg, Legs, EntryStatuses, Protections, Holdings
<1>4. /\ NoRows \in Rows /\ \A a \in Attempts : NoRows.row[a] = "none"
      /\ NoRows.last = NoAttempt /\ NoRows.desired = "NONE" /\ ~NoRows.confirmed /\ ~NoRows.active
      /\ NoRows.peer = "unknown" /\ NoRows.human.why = "none"
  BY DEF NoRows, NoStop, NoEntry, Rows, RowStates, Stops, PeerStatuses
<1>5. NoEntry \in Holding
  BY DEF NoEntry, Holding, Holdings
<1>6. TypeOK
  <2>1. jr \in [Workers -> [Attempts -> [Effects -> EffectStates]]]
    BY DEF Init, EffectStates
  <2>2. /\ inbox \in [Workers -> Seq(Messages)] /\ \A w \in Workers : Len(inbox[w]) <= MaxInbox
        /\ upsets \in 0 .. MaxUpsets
    BY DEF Init
  <2> QED
    BY <1>2, <1>3, <1>4, <1>5, <2>1, <2>2 DEF Init, TypeOK
<1>7. LeaderMail
  BY DEF Init, LeaderMail, Workers
<1>8. ASSUME NEW w \in Workers PROVE Own(w)
  <2>1. /\ run[w].at = "idle" /\ run[w].ret = "gate" /\ run[w].then = "gate" /\ Cur(w) = NoAttempt
        /\ db[w] = NoRows /\ disk[w] = NoLeg
        /\ \A a \in Attempts, e \in Effects : jr[w][a][e] = "none"
    BY <1>2, <1>3 DEF Init, Cur
  <2>2. Control(w)
    BY <2>1 DEF Control, StageDue, At, Rets, Busy
  <2>3. RowsKept(w) /\ LegKept(w) /\ Decided(w)
    BY <1>3, <1>4, <2>1 DEF RowsKept, LegKept, Decided, Loaded, OnEntry, At, Stopped, Attempts,
                           NoAttempt
  <2>4. EntryStage(w) /\ EntryKept(w)
    BY <2>1 DEF EntryStage, EntryKept, OnEntry, At, Effects
  <2>5. ProtectedOnce(w) /\ RolledBack(w)
    BY <2>1 DEF ProtectedOnce, RolledBack, OnEntry, At
  <2> QED
    BY <2>2, <2>3, <2>4, <2>5 DEF Own
<1> QED
  BY <1>6, <1>7, <1>8 DEF OwnInv

LEMMA StepOwn ==
    ASSUME OwnInv, NEW w \in Workers, Step(w)
    PROVE  OwnInv'
  BY RoutineInv, WorkingInv, AdoptsInv, PersistLegStep, FinalizeEmptyStep, RefuseAttemptStep,
     CrashStep, RestartAtRest, RestartWithLegStep, RelaySteps, BrokerSteps DEF Step, Restart

LEMMA StutterOwn ==
    ASSUME OwnInv, UNCHANGED vars
    PROVE  OwnInv'
<1>1. Touch("leader") /\ Touch("follower") /\ inbox' = inbox /\ brk' = brk /\ upsets' = upsets
      /\ UNCHANGED <<run, mem, leg, disk, db, jr>>
  BY DEF Touch, vars
<1>2. \A v \in Workers : Own(v)'
  BY <1>1, TouchFrame DEF Workers
<1>3. TypeOK' /\ LeaderMail'
  BY <1>1 DEF OwnInv, TypeOK, LeaderMail
<1> QED
  BY <1>2, <1>3 DEF OwnInv

\* What a cell keeps of its own is invariant, whatever its peer, its account
\* and the relay do: the attempt at work is the live one a restart would load,
\* its leg in memory is the one on disk, an entry that is prepared and not sent
\* is about to be sent or will be expired, the mirrored box is written once.
THEOREM OwnInvariant == Spec => []OwnInv
<1>1. Init => OwnInv
  BY InitOwn
<1>2. OwnInv /\ [Next]_vars => OwnInv'
  BY StepKinds, StepOwn, StutterOwn
<1> QED
  BY <1>1, <1>2, PTL DEF Spec

\* Every variable keeps its type; an inbox never exceeds its bound.
THEOREM TypeCorrect == Spec => []TypeOK
<1>1. OwnInv => TypeOK
  BY DEF OwnInv
<1> QED
  BY <1>1, OwnInvariant, PTL

-----------------------------------------------------------------------------
(* Containment is irrevocable                                               *)

\* One step keeps the decision to be EMPTY, or finishes the attempt.
LEMMA ContainmentStep ==
    ASSUME OwnInv, NEW w \in Workers, Step(w), NEW v \in Workers,
           db[v].desired = "EMPTY", Loaded(v) # NoAttempt
    PROVE  db'[v].desired = "EMPTY" \/ Terminal(db'[v].row[db[v].last])
<1>1. Local(v) /\ Own(v) /\ db[v] \in Rows /\ Loaded(v) = db[v].last /\ db[v].last \in Attempts
  BY Setup DEF Local, Loaded, Rows
<1>2. (Touch(w) /\ v # w) => db'[v] = db[v]
  BY TouchFrame
<1>3. CASE Routine(w) \/ Working(w)
  BY <1>2, <1>3 DEF Routine, Working, Kept, DbKept
<1>4. CASE \E a \in Attempts : Adopts(w, a)
  <2>1. v # w
    BY <1>1, <1>4 DEF Adopts, Own, RowsKept, At
  <2> QED
    BY <1>2, <1>4, <2>1 DEF Adopts
<1>5. CASE PersistLeg(w)
  BY <1>2, <1>5, PersistLegStep
<1>6. CASE FinalizeEmpty(w)
  <2>1. v = w => Cur(w) = db[w].last
    BY <1>1, <1>6 DEF FinalizeEmpty, Own, RowsKept, At
  <2>2. v = w => db'[w].row[db[w].last] = "both_empty"
    <3>1. db'[w].row = [db[w].row EXCEPT ![Cur(w)] = "both_empty"] /\ Cur(w) \in Attempts
      BY <1>6, FinalizeEmptyStep
    <3>2. v = w => db[w].row \in [Attempts -> RowStates]
      BY <1>1 DEF Rows
    <3> QED
      BY <2>1, <3>1, <3>2
  <2> QED
    BY <1>2, <1>6, <2>2, FinalizeEmptyStep DEF Terminal
<1>7. CASE RefuseAttempt(w)
  BY <1>2, <1>7, RefuseAttemptStep
<1>8. CASE Crash(w)
  BY <1>8, CrashStep
<1>9. CASE RestartIdle(w) \/ RestartWithoutLeg(w)
  <2>1. v = w => db'[w].row = [db[w].row EXCEPT ![Loaded(w)] = "no_effect"]
    BY <1>9, RestartAtRest
  <2>2. v = w => db'[w].row[db[w].last] = "no_effect"
    BY <1>1, <2>1 DEF Rows
  <2> QED
    BY <1>2, <1>9, <2>2, RestartAtRest DEF Terminal
<1>10. CASE RestartWithLeg(w)
  BY <1>2, <1>10, RestartWithLegStep
<1>11. CASE Lose(w) \/ Duplicate(w) \/ Overtake(w)
  BY <1>11, RelaySteps
<1>12. CASE \E a \in Attempts : BrokerFills(w, a) \/ BrokerEnds(w, a)
  BY <1>12, BrokerSteps
<1> QED
  BY <1>3, <1>4, <1>5, <1>6, <1>7, <1>8, <1>9, <1>10, <1>11, <1>12 DEF Step, Restart

\* Once an attempt is to be EMPTY it stays so until it is terminal: no message,
\* no confirmation and no restart takes _begin_close() back.
THEOREM ContainmentKept == Spec => ContainmentIrrevocable
<1>1. OwnInv /\ [Next]_vars =>
        [\A w \in Workers :
            (db[w].desired = "EMPTY" /\ Loaded(w) # NoAttempt)
            => db'[w].desired = "EMPTY" \/ Terminal(db'[w].row[db[w].last])]_vars
  BY StepKinds, ContainmentStep
<1> QED
  BY <1>1, OwnInvariant, PTL DEF Spec, ContainmentIrrevocable

-----------------------------------------------------------------------------
(* The journal keeps its promise                                            *)

LEMMA JournalStep ==
    ASSUME OwnInv, NEW w \in Workers, Step(w),
           NEW v \in Workers, NEW a \in Attempts, NEW e \in Effects
    PROVE  jr'[v][a][e] = jr[v][a][e] \/ <<jr[v][a][e], jr'[v][a][e]>> \in JrMoves
<1>1. (Touch(w) /\ v # w) => jr'[v] = jr[v]
  BY TouchFrame
<1>2. CASE Routine(w)
  BY <1>1, <1>2 DEF Routine, Kept, JrKept
<1>3. CASE Working(w)
  BY <1>1, <1>3 DEF Working, JrWritten
<1>4. CASE \E b \in Attempts : Adopts(w, b)
  BY <1>4 DEF Adopts
<1>5. CASE PersistLeg(w) \/ FinalizeEmpty(w) \/ RefuseAttempt(w) \/ Crash(w)
  BY <1>5, PersistLegStep, FinalizeEmptyStep, RefuseAttemptStep, CrashStep
<1>6. CASE RestartIdle(w) \/ RestartWithoutLeg(w)
  BY <1>6, RestartAtRest
<1>7. CASE RestartWithLeg(w)
  BY <1>1, <1>7, RestartWithLegStep DEF JrMoves
<1>8. CASE Lose(w) \/ Duplicate(w) \/ Overtake(w)
  BY <1>8, RelaySteps
<1>9. CASE \E b \in Attempts : BrokerFills(w, b) \/ BrokerEnds(w, b)
  BY <1>9, BrokerSteps
<1> QED
  BY <1>2, <1>3, <1>4, <1>5, <1>6, <1>7, <1>8, <1>9 DEF Step, Restart

\* The cell keeps the journal's promise with all its retries, replays and
\* restarts: it implements EffectLifecycle for every effect of both Workers.
THEOREM LifecycleKept == Spec => KeepsLifecycle
<1> DEFINE f == [i \in EffectIds |-> LifecycleState(jr[i[1]][i[2]][i[3]])]
<1>1. Init => Lifecycle!Init
  BY DEF Init, Lifecycle!Init, EffectIds, LifecycleState
<1>2. OwnInv /\ OwnInv' /\ [Next]_vars => [Lifecycle!Next]_f
  <2>1. SUFFICES ASSUME OwnInv, OwnInv', [Next]_vars
        PROVE  Lifecycle!Next \/ f' = f
    OBVIOUS
  <2>2. CASE UNCHANGED vars
    BY <2>2 DEF vars
  <2>3. CASE Next
    <3>1. \A v \in Workers, a \in Attempts, e \in Effects :
            jr'[v][a][e] = jr[v][a][e] \/ <<jr[v][a][e], jr'[v][a][e]>> \in JrMoves
      BY <2>1, <2>3, StepKinds, JournalStep
    <3>2. \A v \in Workers, a \in Attempts, e \in Effects :
            jr[v][a][e] \in EffectStates /\ jr'[v][a][e] \in EffectStates
      BY <2>1 DEF OwnInv, TypeOK
    <3>3. \A x, y \in EffectStates :
            /\ LifecycleState(x) \in Lifecycle!States
            /\ <<x, y>> \in JrMoves => <<LifecycleState(x), LifecycleState(y)>> \in Lifecycle!Follows
      BY DEF EffectStates, LifecycleState, Lifecycle!States, JrMoves, Lifecycle!Follows
    <3>4. ASSUME NEW i \in EffectIds
          PROVE  /\ f'[i] \in Lifecycle!States
                 /\ f'[i] = f[i] \/ <<f[i], f'[i]>> \in Lifecycle!Follows
      <4>1. PICK v \in Workers, a \in Attempts, e \in Effects : i = <<v, a, e>>
        BY DEF EffectIds
      <4>2. f[i] = LifecycleState(jr[v][a][e]) /\ f'[i] = LifecycleState(jr'[v][a][e])
        BY <4>1
      <4> QED
        BY <3>1, <3>2, <3>3, <4>2
    <3>5. f' \in [EffectIds -> Lifecycle!States]
      BY <3>4
    <3> HIDE DEF f
    <3> QED
      BY <3>4, <3>5 DEF Lifecycle!Next, f
  <2> QED
    BY <2>1, <2>2, <2>3
<1> QED
  BY <1>1, <1>2, OwnInvariant, PTL DEF Spec, KeepsLifecycle, Lifecycle!Spec
====
