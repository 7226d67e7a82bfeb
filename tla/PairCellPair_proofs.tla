------------------------ MODULE PairCellPair_proofs ------------------------
(***************************************************************************)
(* What the two cells of a route know of each other.  Every word under way *)
(* or on record about the peer was true when it was sent, and what it says *)
(* can no longer become false: a leg that has nothing to send never sends, *)
(* a leg that filled was filled, a leg that fell back to its rough stops   *)
(* stays there.  With this, for any number of attempts, any loss, repeat   *)
(* and overtaking of envelopes and any crashes: a confirmed cell's peer    *)
(* has filled, and two ACTIVE cells hold the same kind of protection.      *)
(***************************************************************************)
EXTENDS PairCell_proofs

USE BoundsAssumption

-----------------------------------------------------------------------------
(* The inductive invariant of the pair                                      *)

\* The leader has not let attempt a go yet.
Unsent(a) ==
    \/ db["leader"].row[a] = "none"
    \/ Cur("leader") = a /\ run["leader"].at \in {"leg", "prepare", "relay"}

\* Attempt a is on its way to the follower.
Under(a) ==
    \E i \in DOMAIN inbox["follower"] :
        inbox["follower"][i].kind = "attempt" /\ inbox["follower"][i].a = a

\* The Worker v, or the leader for both, has finished attempt a.
Over(v, a) == Terminal(db[v].row[a]) \/ (v = "follower" /\ Terminal(db["leader"].row[a]))

\* v has nothing of attempt a and will not send its entry (again): it finished
\* it, never heard of it and never will, or its leg is empty or never sent.
Spent(v, a) ==
    \/ Terminal(db[v].row[a])
    \/ v = "follower" /\ db[v].row[a] = "none" /\ ~Under(a) /\ ~Unsent(a)
    \/ /\ db[v].row[a] = "live" /\ ~(Cur(v) = a /\ At(v, "leg"))
       /\ disk[v].a = a => disk[v].empty \/ disk[v].entry \in {"rejected", "expired_not_started"}

HadFilled(v, a) == FilledOnRecord(v, a) \/ Over(v, a)
FellBack(v, a) == (disk[v].a = a /\ disk[v].prot = "fallback") \/ Over(v, a)

\* What the envelope m of v says holds of v.
Backed(v, m) ==
    /\ ~Unsent(m.a)
    /\ m.kind = "leg_status" =>
         /\ m.status \in TerminalStatuses => Spent(v, m.a)
         /\ m.status = "filled" => HadFilled(v, m.a)
         /\ m.status = "protection_rough_fallback" => FellBack(v, m.a)
    /\ m.kind = "pair_entry_confirmed" => HadFilled(v, m.a)

Carries(w, m) == \E i \in DOMAIN inbox[w] : inbox[w][i] = m
InboxBacked ==
    \A w \in Workers, m \in Messages : Carries(w, m) => Backed(Peer(w), m)

\* A proof request never arrives before the attempt it asks about.
Ordered ==
    \A i, j \in DOMAIN inbox["follower"] :
        (/\ i < j /\ inbox["follower"][i].kind = "leg_status_request"
         /\ inbox["follower"][j].kind = "attempt")
        => inbox["follower"][i].a # inbox["follower"][j].a

\* The follower knows an attempt only after the leader recorded that it let
\* it go.
Known ==
    \A a \in Attempts : (db["follower"].row[a] # "none" \/ Under(a)) =>
        /\ ~Unsent(a)
        /\ Terminal(db["leader"].row[a]) \/ (disk["leader"].a = a /\ disk["leader"].relayed)

\* What a cell has on record of its peer.
PeerBacked ==
    \A w \in Workers, m \in Messages :
        (m.kind = "leg_status" /\ m.a = Responsible(w) /\ m.status = db[w].peer /\ m.status # "unknown")
        => Backed(Peer(w), m)

\* An attempt is finished only when the peer is spent.
BothSpent ==
    /\ \A w \in Workers, a \in Attempts : db[w].row[a] = "both_empty" => Spent(Peer(w), a)
    /\ \A a \in Attempts : Terminal(db["leader"].row[a]) => Spent("follower", a)

\* The attempt whose leg the tables are about.
Holder(w) == IF At(w, "down") THEN disk[w].a ELSE Cur(w)
ConfirmedBacked ==
    \A w \in Workers : db[w].confirmed =>
        \E a \in Attempts : Holder(w) = a /\ db[w].row[a] = "live" /\ HadFilled(Peer(w), a)

RollingBack(w) == run[w].at \in {"mark", "call", "done"} /\ run[w].job = "rollback"
Active(w) == db[w].active \/ mem[w].st = "ACTIVE"
ActiveBacked ==
    \A w \in Workers :
        /\ RollingBack(w) => \E a \in Attempts : Cur(w) = a /\ FellBack(Peer(w), a)
        /\ (Cur(w) = NoAttempt \/ At(w, "leg")) => mem[w].st # "ACTIVE"
        /\ \A a \in Attempts : (Responsible(w) = a /\ disk[w].a = a /\ Active(w)) =>
             /\ disk[w].prot # "rough"
             /\ disk[w].prot = "fallback" => FellBack(Peer(w), a)

PairInv ==
    /\ OwnInv /\ InboxBacked /\ Ordered /\ Known /\ PeerBacked
    /\ BothSpent /\ ConfirmedBacked /\ ActiveBacked

-----------------------------------------------------------------------------
(* What a step learns of the peer                                           *)

\* The envelope w takes is of this kind and about its attempt.
Taking(w, kind) == inbox[w] # <<>> /\ Head(inbox[w]).kind = kind /\ Head(inbox[w]).a = Cur(w)

\* Nothing is learnt of the peer, and the leg does not fall back but by a
\* rollback.
DbCalm(d, e) == e.peer = d.peer /\ e.confirmed = d.confirmed /\ e.active = d.active
ProtCalm(w) ==
    disk'[w].prot = disk[w].prot \/ disk[w].prot # "precise" \/ (At(w, "done") /\ run[w].job = "rollback")
StCalm(w) == mem'[w].st = "ACTIVE" => mem[w].st = "ACTIVE"

\* The peer's status and the confirmation come from the relay, or from both
\* fills; a cell is ACTIVE only once both protections agree.
Learns(w) ==
    /\ \/ db'[w].peer = db[w].peer
       \/ Taking(w, "leg_status") /\ db'[w].peer = Head(inbox[w]).status
    /\ db'[w].confirmed => \/ db[w].confirmed \/ BothObserved(w)
                           \/ Taking(w, "pair_entry_confirmed")
    /\ Active(w)' => Active(w) \/ (Protected(w) /\ disk' = disk)
    /\ (mem'[w].st = "ACTIVE") => mem[w].st = "ACTIVE" \/ Protected(w)
    /\ ProtCalm(w)

LEMMA CalmLearns ==
    ASSUME NEW w \in Workers, DbCalm(db[w], db'[w]), StCalm(w), ProtCalm(w)
    PROVE  Learns(w)
  BY DEF DbCalm, StCalm, Learns, Active

LEMMA DbCalms ==
    ASSUME NEW d \in Rows, NEW s, NEW a
    PROVE  /\ DbCalm(d, d) /\ DbCalm(d, CloseDb(d)) /\ DbCalm(d, Stop(d, s, a))
           /\ DbCalm(d, Unlatched(d))
  BY DEF DbCalm, CloseDb, Stop, Unlatched, Rows

\* Most steps leave the tables alone.
LEMMA StillCalm ==
    ASSUME OwnInv, NEW w \in Workers,
           \/ NoCandidate(w) \/ PrepareEntry(w) \/ RelayAttempt(w) \/ RefuseWrite(w)
           \/ MarkSendStarted(w) \/ OrderSend(w) \/ ReadSecond(w) \/ ReadFails(w)
           \/ StartContainment(w) \/ ContainmentAccepted(w) \/ ContainmentDeferred(w)
           \/ HeldWhileStopped(w) \/ StillEmpty(w) \/ SettleDeferred(w) \/ SettledAbsent(w)
           \/ StopKept(w) \/ GatePass(w) \/ StartProtection(w) \/ RollbackReported(w)
           \/ AwaitProof(w) \/ ProbePeer(w)
           \/ Tick(w) \/ SnapshotEvent(w) \/ HearPeer(w) \/ SessionLost(w) \/ SessionUp(w)
           \/ ReplayAttempt(w) \/ HandleLegStatusRequest(w) \/ LateLegStatus(w)
           \/ UnsolicitedNoRecord(w) \/ ConfirmationIgnored(w)
    PROVE  Learns(w)
<1>1. mem \in [Workers -> Mems] /\ leg \in [Workers -> Legs] /\ disk \in [Workers -> Legs] /\ mem[w] \in Mems
  BY DEF OwnInv, TypeOK
<1>2. db' = db
  BY DEF NoCandidate, PrepareEntry, RelayAttempt, RefuseWrite, MarkSendStarted, OrderSend, ReadSecond,
         ReadFails, StartContainment, ContainmentAccepted, ContainmentDeferred, HeldWhileStopped,
         StillEmpty, SettleDeferred, SettledAbsent, StopKept, GatePass, StartProtection,
         RollbackReported, AwaitProof, ProbePeer, Tick, SnapshotEvent, HearPeer, SessionLost,
         SessionUp, ReplayAttempt, HandleLegStatusRequest, LateLegStatus, UnsolicitedNoRecord,
         ConfirmationIgnored, Ignore, AnswerAndGo
<1>3. disk' = disk \/ RelayAttempt(w)
  BY DEF NoCandidate, PrepareEntry, RefuseWrite, MarkSendStarted, OrderSend, ReadSecond,
         ReadFails, StartContainment, ContainmentAccepted, ContainmentDeferred, HeldWhileStopped,
         StillEmpty, SettleDeferred, SettledAbsent, StopKept, GatePass, StartProtection,
         RollbackReported, AwaitProof, ProbePeer, Tick, SnapshotEvent, HearPeer, SessionLost,
         SessionUp, ReplayAttempt, HandleLegStatusRequest, LateLegStatus, UnsolicitedNoRecord,
         ConfirmationIgnored, Ignore, AnswerAndGo
<1>4. ProtCalm(w)
  <2>1. CASE RelayAttempt(w)
    <3>1. At(w, "relay") /\ Cur(w) # NoAttempt /\ LegSame(leg[w], disk[w])
      BY <2>1, Setup DEF RelayAttempt, Own, Control, Busy, LegKept, At
    <3>2. disk'[w] = [leg[w] EXCEPT !.relayed = TRUE] /\ leg[w] \in Legs
      BY <1>1, <2>1 DEF RelayAttempt, SaveLeg
    <3> QED
      BY <3>1, <3>2 DEF ProtCalm, LegSame, Legs
  <2> QED
    BY <1>3, <2>1 DEF ProtCalm
<1>5. StCalm(w)
  <2>1. CASE \/ NoCandidate(w) \/ RelayAttempt(w) \/ RefuseWrite(w) \/ MarkSendStarted(w)
             \/ OrderSend(w) \/ ReadSecond(w) \/ ReadFails(w) \/ StartContainment(w)
             \/ HeldWhileStopped(w) \/ StillEmpty(w) \/ SettleDeferred(w) \/ StopKept(w)
             \/ GatePass(w) \/ StartProtection(w) \/ RollbackReported(w) \/ Tick(w)
             \/ SnapshotEvent(w)
    BY <2>1 DEF StCalm, NoCandidate, RelayAttempt, RefuseWrite, MarkSendStarted, OrderSend,
         ReadSecond, ReadFails, StartContainment, HeldWhileStopped, StillEmpty, SettleDeferred,
         StopKept, GatePass, StartProtection, RollbackReported, Tick, SnapshotEvent
  <2>2. CASE \/ PrepareEntry(w) \/ AwaitProof(w) \/ ProbePeer(w) \/ HearPeer(w) \/ SessionLost(w)
             \/ SessionUp(w)
    <3>1. CASE PrepareEntry(w)
      BY <1>1, <3>1 DEF StCalm, PrepareEntry, SetMem, Mems
    <3>2. CASE AwaitProof(w)
      BY <1>1, <3>2 DEF StCalm, AwaitProof, SetMem, Mems
    <3>3. CASE ProbePeer(w)
      BY <1>1, <3>3 DEF StCalm, ProbePeer, SetMem, Mems
    <3>4. CASE HearPeer(w) \/ SessionLost(w)
      BY <1>1, <3>4 DEF StCalm, HearPeer, SessionLost, SetMem, Mems
    <3>5. CASE SessionUp(w)
      BY <1>1, <3>5 DEF StCalm, SessionUp, SetMem, Mems
    <3> QED
      BY <2>2, <3>1, <3>2, <3>3, <3>4, <3>5
  <2>3. CASE ContainmentAccepted(w) \/ ContainmentDeferred(w) \/ SettledAbsent(w)
    BY <1>1, <2>3 DEF StCalm, ContainmentAccepted, ContainmentDeferred, SettledAbsent, SetMem, Mems
  <2>4. CASE \/ ReplayAttempt(w) \/ HandleLegStatusRequest(w) \/ LateLegStatus(w)
             \/ UnsolicitedNoRecord(w) \/ ConfirmationIgnored(w)
    <3>1. SetMem(w, Heard(w))
      BY <2>4 DEF ReplayAttempt, HandleLegStatusRequest, LateLegStatus, UnsolicitedNoRecord,
                  ConfirmationIgnored, Ignore, AnswerAndGo
    <3> QED
      BY <1>1, <3>1 DEF StCalm, SetMem, Heard, Mems
  <2> QED
    BY <2>1, <2>2, <2>3, <2>4
<1> QED
  BY <1>2, <1>4, <1>5, CalmLearns DEF DbCalm

\* A step that changes the leg or the state of the attempt.
LEMMA LegCalm ==
    ASSUME OwnInv, NEW w \in Workers,
           \/ EntryAccepted(w) \/ EntryUnknown(w) \/ EntryFilled(w) \/ VerifiedEmpty(w)
           \/ GateStopped(w) \/ Converge(w) \/ NoMirroredBox(w) \/ ProtectionApplied(w)
           \/ ProtectionRefused(w) \/ RollbackApplied(w)
    PROVE  Learns(w)
<1>1. mem \in [Workers -> Mems] /\ leg \in [Workers -> Legs] /\ disk \in [Workers -> Legs] /\ mem[w] \in Mems
      /\ leg[w] \in Legs
  BY DEF OwnInv, TypeOK
<1>2. db' = db
  BY DEF EntryAccepted, EntryUnknown, EntryFilled, VerifiedEmpty, GateStopped, Converge,
         NoMirroredBox, ProtectionApplied, ProtectionRefused, RollbackApplied
<1>3. (GateStopped(w) \/ Converge(w)) => disk' = disk
  BY DEF GateStopped, Converge
<1>4. (\/ EntryAccepted(w) \/ EntryUnknown(w) \/ EntryFilled(w) \/ VerifiedEmpty(w)
       \/ NoMirroredBox(w) \/ ProtectionApplied(w) \/ ProtectionRefused(w))
      => LegSame(leg[w], disk[w])
  <2>1. Own(w)
    BY Setup
  <2>2. (\/ EntryAccepted(w) \/ EntryUnknown(w) \/ EntryFilled(w) \/ VerifiedEmpty(w)
         \/ NoMirroredBox(w) \/ ProtectionApplied(w) \/ ProtectionRefused(w))
        => run[w].at \in {"done", "observe", "advance", "protect"}
    BY DEF EntryAccepted, EntryUnknown, EntryFilled, VerifiedEmpty, NoMirroredBox, ProtectionApplied,
           ProtectionRefused, Done, At
  <2> QED
    BY <2>1, <2>2 DEF Own, Control, Busy, LegKept, At
<1>5. ProtCalm(w)
  <2>1. CASE EntryAccepted(w) \/ EntryUnknown(w) \/ VerifiedEmpty(w)
    BY <1>1, <1>4, <2>1 DEF ProtCalm, EntryAccepted, EntryUnknown, VerifiedEmpty, SaveLeg, LegSame, Legs
  <2>2. CASE EntryFilled(w)
    BY <1>1, <1>4, <2>2 DEF ProtCalm, EntryFilled, Filled, SaveLeg, LegSame, Legs
  <2>3. CASE NoMirroredBox(w) \/ ProtectionApplied(w) \/ ProtectionRefused(w)
    <3>1. leg[w].prot = "rough"
      <4>1. Own(w)
        BY Setup
      <4>2. At(w, "protect") \/ (At(w, "done") /\ run[w].job = "protection")
        BY <2>3 DEF NoMirroredBox, ProtectionApplied, ProtectionRefused, Done
      <4> QED
        BY <4>1, <4>2 DEF Own, Control, StageDue, NeedsProtection, ProtectedOnce, At
    <3> QED
      BY <1>4, <2>3, <3>1 DEF ProtCalm, LegSame
  <2>4. CASE RollbackApplied(w)
    BY <2>4 DEF ProtCalm, RollbackApplied, Done
  <2> QED
    BY <1>3, <2>1, <2>2, <2>3, <2>4 DEF ProtCalm
<1>6. StCalm(w)
  <2>1. CASE EntryAccepted(w) \/ NoMirroredBox(w) \/ ProtectionRefused(w) \/ RollbackApplied(w)
    BY <2>1 DEF StCalm, EntryAccepted, NoMirroredBox, ProtectionRefused, RollbackApplied
  <2>2. CASE EntryUnknown(w) \/ EntryFilled(w) \/ VerifiedEmpty(w)
    BY <1>1, <2>2 DEF StCalm, EntryUnknown, EntryFilled, VerifiedEmpty, SetMem, Mems
  <2>3. CASE GateStopped(w) \/ Converge(w) \/ ProtectionApplied(w)
    BY <1>1, <2>3 DEF StCalm, GateStopped, Converge, ProtectionApplied, SetMem, Mems
  <2> QED
    BY <2>1, <2>2, <2>3
<1> QED
  BY <1>2, <1>5, <1>6, CalmLearns DEF DbCalm

\* A step that closes, stops or resolves a stop.
LEMMA TablesCalm ==
    ASSUME OwnInv, NEW w \in Workers,
           \/ EntryRejected(w) \/ EntryAmbiguous(w) \/ EntryInconsistent(w) \/ EntryAbsent(w)
           \/ TicketGone(w) \/ TicketHeld(w) \/ ExitPolicy(w) \/ ConfirmationTimeout(w)
           \/ PeerInconsistent(w) \/ RollbackFailed(w) \/ RequestClose(w) \/ ConfirmationLate(w)
           \/ HandlePairEntryFailed(w) \/ ContainmentUncertain(w) \/ Unattributed(w)
           \/ ContainmentDone(w) \/ SettledPresent(w) \/ EscalateSilence(w)
           \/ StopResolved(w) \/ StopOutdated(w)
    PROVE  Learns(w)
<1>1. /\ mem \in [Workers -> Mems] /\ leg \in [Workers -> Legs] /\ disk \in [Workers -> Legs]
      /\ mem[w] \in Mems /\ leg[w] \in Legs /\ db \in [Workers -> Rows] /\ db[w] \in Rows /\ Own(w)
  BY DEF OwnInv, TypeOK
<1>2. DbCalm(db[w], db'[w])
  <2>1. CASE \/ EntryRejected(w) \/ EntryAmbiguous(w) \/ EntryInconsistent(w) \/ EntryAbsent(w)
             \/ TicketGone(w) \/ TicketHeld(w) \/ ExitPolicy(w) \/ ConfirmationTimeout(w)
             \/ PeerInconsistent(w) \/ RollbackFailed(w) \/ RequestClose(w) \/ ConfirmationLate(w)
             \/ HandlePairEntryFailed(w)
    <3>1. db' = [db EXCEPT ![w] = CloseDb(db[w])] \/ db' = [db EXCEPT ![w] = db[w]]
      BY <2>1 DEF EntryRejected, EntryAmbiguous, EntryInconsistent, EntryAbsent, TicketGone, TicketHeld,
             ExitPolicy, ConfirmationTimeout, PeerInconsistent, RollbackFailed, RequestClose,
             ConfirmationLate, HandlePairEntryFailed, BeginClose, SetDb
    <3>2. db'[w] = CloseDb(db[w]) \/ db'[w] = db[w]
      BY <1>1, <3>1
    <3> QED
      BY <1>1, <3>2, DbCalms
  <2>2. CASE \/ ContainmentUncertain(w) \/ Unattributed(w) \/ ContainmentDone(w)
             \/ SettledPresent(w) \/ EscalateSilence(w) \/ StopResolved(w) \/ StopOutdated(w)
    <3>1. \/ \E s, a : db' = [db EXCEPT ![w] = Stop(db[w], s, a)]
          \/ db' = [db EXCEPT ![w] = Unlatched(db[w])] \/ db' = [db EXCEPT ![w] = db[w]]
      BY <2>2 DEF ContainmentUncertain, Unattributed, ContainmentDone, SettledPresent,
             EscalateSilence, StopResolved, StopOutdated, SetDb
    <3>2. (\E s, a : db'[w] = Stop(db[w], s, a)) \/ db'[w] = Unlatched(db[w]) \/ db'[w] = db[w]
      BY <1>1, <3>1
    <3> QED
      BY <1>1, <3>2, DbCalms
  <2> QED
    BY <2>1, <2>2
<1>3. ProtCalm(w)
  <2>1. CASE \/ EntryAmbiguous(w) \/ TicketGone(w) \/ ExitPolicy(w) \/ ConfirmationTimeout(w)
             \/ PeerInconsistent(w) \/ RollbackFailed(w) \/ RequestClose(w) \/ ConfirmationLate(w)
             \/ HandlePairEntryFailed(w) \/ ContainmentUncertain(w) \/ Unattributed(w)
             \/ ContainmentDone(w) \/ SettledPresent(w) \/ EscalateSilence(w)
             \/ StopResolved(w) \/ StopOutdated(w)
    BY <2>1 DEF ProtCalm, EntryAmbiguous, TicketGone, ExitPolicy, ConfirmationTimeout, PeerInconsistent,
           RollbackFailed, RequestClose, ConfirmationLate, HandlePairEntryFailed,
           ContainmentUncertain, Unattributed, ContainmentDone, SettledPresent, EscalateSilence,
           StopResolved, StopOutdated
  <2>2. CASE EntryRejected(w) \/ EntryInconsistent(w) \/ EntryAbsent(w) \/ TicketHeld(w)
    <3>1. LegSame(leg[w], disk[w])
      <4>1. run[w].at \in {"done", "observe", "ticket"}
        BY <2>2 DEF EntryRejected, EntryInconsistent, EntryAbsent, TicketHeld, Done, At
      <4> QED
        BY <1>1, <4>1 DEF Own, Control, Busy, LegKept, At
    <3>2. CASE EntryRejected(w) \/ EntryAbsent(w)
      BY <1>1, <3>1, <3>2 DEF ProtCalm, EntryRejected, EntryAbsent, SaveLeg, LegSame, Legs
    <3>3. CASE EntryInconsistent(w)
      BY <1>1, <3>1, <3>3 DEF ProtCalm, EntryInconsistent, Filled, SaveLeg, LegSame, Legs
    <3>4. CASE TicketHeld(w)
      BY <1>1, <3>1, <3>4 DEF ProtCalm, TicketHeld, SaveLeg, LegSame, Legs
    <3> QED
      BY <2>2, <3>2, <3>3, <3>4
  <2> QED
    BY <2>1, <2>2
<1>4. StCalm(w)
  <2>1. CASE \/ EntryRejected(w) \/ EntryAmbiguous(w) \/ EntryAbsent(w) \/ TicketGone(w)
             \/ TicketHeld(w) \/ ExitPolicy(w) \/ ConfirmationTimeout(w) \/ PeerInconsistent(w)
             \/ RollbackFailed(w) \/ RequestClose(w)
    <3>1. mem' = [mem EXCEPT ![w] = CloseMem(mem[w])] \/ mem' = [mem EXCEPT ![w] = mem[w]]
      BY <2>1 DEF EntryRejected, EntryAmbiguous, EntryAbsent, TicketGone, TicketHeld, ExitPolicy,
             ConfirmationTimeout, PeerInconsistent, RollbackFailed, RequestClose, BeginClose, SetMem
    <3> QED
      BY <1>1, <3>1 DEF StCalm, CloseMem, Mems
  <2>2. CASE ConfirmationLate(w) \/ HandlePairEntryFailed(w)
    <3>1. mem' = [mem EXCEPT ![w] = CloseMem(Heard(w))] \/ mem' = [mem EXCEPT ![w] = Heard(w)]
      BY <2>2 DEF ConfirmationLate, HandlePairEntryFailed, SetMem
    <3>2. mem'[w] = CloseMem(Heard(w)) \/ mem'[w] = Heard(w)
      BY <1>1, <3>1
    <3>3. mem'[w].st = mem[w].st
      BY <1>1, <3>2 DEF CloseMem, Heard, Mems
    <3> QED
      BY <3>3 DEF StCalm
  <2>3. CASE EntryInconsistent(w) \/ StopResolved(w)
    <3>1. \/ mem'[w] = CloseMem([mem[w] EXCEPT !.st = "AWAITING_PAIR_CONFIRMATION"])
          \/ mem'[w] = [mem[w] EXCEPT !.st = "EMPTY"]
      BY <1>1, <2>3 DEF EntryInconsistent, StopResolved, SetMem
    <3>2. mem'[w].st # "ACTIVE"
      BY <1>1, <3>1 DEF CloseMem, Mems
    <3> QED
      BY <3>2 DEF StCalm
  <2>4. CASE SettledPresent(w) \/ EscalateSilence(w)
    BY <1>1, <2>4 DEF StCalm, SettledPresent, EscalateSilence, SetMem, Mems
  <2>5. CASE ContainmentUncertain(w) \/ Unattributed(w) \/ ContainmentDone(w) \/ StopOutdated(w)
    BY <2>5 DEF StCalm, ContainmentUncertain, Unattributed, ContainmentDone, StopOutdated
  <2> QED
    BY <2>1, <2>2, <2>3, <2>4, <2>5
<1> QED
  BY <1>2, <1>3, <1>4, CalmLearns

\* The six steps that learn something.
LEMMA NewsLearns ==
    ASSUME OwnInv, NEW w \in Workers,
           \/ EmitConfirmation(w) \/ DeclareActive(w) \/ PeerFailed(w) \/ PeerFellBack(w)
           \/ PeerProgress(w) \/ ConfirmationAccepted(w)
    PROVE  Learns(w)
<1>1. /\ mem \in [Workers -> Mems] /\ mem[w] \in Mems /\ db \in [Workers -> Rows] /\ db[w] \in Rows /\ Own(w)
  BY DEF OwnInv, TypeOK
<1>2. disk' = disk
  BY DEF EmitConfirmation, DeclareActive, PeerFailed, PeerFellBack, PeerProgress, ConfirmationAccepted
<1>3. CASE EmitConfirmation(w)
  <2>1. BothObserved(w)
    BY <1>1, <1>3 DEF EmitConfirmation, Own, Control, StageDue
  <2>2. db'[w] = [db[w] EXCEPT !.confirmed = TRUE] /\ mem'[w] = [mem[w] EXCEPT !.timer = FALSE]
    BY <1>1, <1>3 DEF EmitConfirmation, SetDb, SetMem
  <2>3. db'[w].peer = db[w].peer /\ db'[w].active = db[w].active /\ mem'[w].st = mem[w].st
    BY <1>1, <2>2 DEF Rows, Mems
  <2> QED
    BY <1>2, <2>1, <2>3 DEF Learns, ProtCalm, Active
<1>4. CASE DeclareActive(w)
  <2>1. Protected(w) /\ db'[w] = [db[w] EXCEPT !.active = TRUE]
    BY <1>1, <1>4 DEF DeclareActive, SetDb
  <2>2. db'[w].peer = db[w].peer /\ db'[w].confirmed = db[w].confirmed
    BY <1>1, <2>1 DEF Rows
  <2> QED
    BY <1>2, <2>1, <2>2 DEF Learns, ProtCalm, Active
<1>5. CASE PeerFailed(w) \/ PeerFellBack(w) \/ PeerProgress(w)
  <2>1. Taking(w, "leg_status")
    BY <1>5 DEF PeerFailed, PeerFellBack, PeerProgress, CurrentLegStatus, Receiving, Taking
  <2>2. db'[w] = PeerSaid(w) \/ db'[w] = CloseDb(PeerSaid(w))
    BY <1>1, <1>5 DEF PeerFailed, PeerFellBack, PeerProgress, SetDb
  <2>3. mem'[w] = Heard(w) \/ mem'[w] = CloseMem(Heard(w))
    BY <1>1, <1>5 DEF PeerFailed, PeerFellBack, PeerProgress, SetMem
  <2>4. /\ db'[w].peer = Head(inbox[w]).status /\ db'[w].confirmed = db[w].confirmed
        /\ db'[w].active = db[w].active
    BY <1>1, <2>2 DEF PeerSaid, CloseDb, Rows
  <2>5. mem'[w].st = mem[w].st
    BY <1>1, <2>3 DEF Heard, CloseMem, Mems
  <2> QED
    BY <1>2, <2>1, <2>4, <2>5 DEF Learns, ProtCalm, Active
<1>6. CASE ConfirmationAccepted(w)
  <2>1. Taking(w, "pair_entry_confirmed")
    BY <1>6 DEF ConfirmationAccepted, OnEntryPath, Receiving, Taking
  <2>2. db'[w] = [db[w] EXCEPT !.confirmed = TRUE] /\ mem'[w] = CloseMem(Heard(w))
    BY <1>1, <1>6 DEF ConfirmationAccepted, SetDb, SetMem
  <2>3. db'[w].peer = db[w].peer /\ db'[w].active = db[w].active /\ mem'[w].st = mem[w].st
    BY <1>1, <2>2 DEF Rows, Mems, CloseMem, Heard
  <2> QED
    BY <1>2, <2>1, <2>3 DEF Learns, ProtCalm, Active
<1> QED
  BY <1>3, <1>4, <1>5, <1>6

\* The kinds of steps of a Worker that runs, and what they learn.
Runs(w) ==
    \/ (Routine(w) \/ Working(w)) /\ Learns(w)
    \/ \E a \in Attempts : Adopts(w, a)
    \/ PersistLeg(w) \/ FinalizeEmpty(w) \/ RefuseAttempt(w)

LEMMA ThreadRuns ==
    ASSUME OwnInv, NEW w \in Workers, ThreadStep(w)
    PROVE  Runs(w)
<1>1. CASE Entering(w)
  BY <1>1, CreateAttemptStep, StillSteps, PrepareEntryStep, RelayAttemptStep, EntryOutcomeSteps,
     StillCalm, LegCalm, TablesCalm DEF Entering, Runs
<1>2. CASE Writing(w)
  BY <1>2, WriteSteps, StillCalm DEF Writing, Runs
<1>3. CASE Observing(w)
  BY <1>3, ReadSecondStep, StillSteps, CloseSteps, EntryReadSteps, TicketGoneStep, TicketHeldStep,
     StillCalm, LegCalm, TablesCalm DEF Observing, Runs
<1>4. CASE Containing(w)
  BY <1>4, StartContainmentStep, ContainmentSteps, StillSteps, StopSteps, VerifiedEmptyStep,
     ContainmentDoneStep, ReadSteps, MemSteps, UnlatchSteps, StillCalm, LegCalm, TablesCalm
     DEF Containing, Runs
<1>5. CASE Progressing(w)
  BY <1>5, MemSteps, CloseSteps, PairCloseSteps, StillSteps, EmitConfirmationStep,
     StartProtectionStep, ProtectionSteps, RollbackSteps, DeclareActiveStep, ProbeSteps, StopSteps,
     StillCalm, LegCalm, TablesCalm, NewsLearns DEF Progressing, Runs
<1> QED
  BY <1>1, <1>2, <1>3, <1>4, <1>5 DEF ThreadStep

LEMMA EventRuns ==
    ASSUME OwnInv, NEW w \in Workers, LocalEvent(w) \/ Envelope(w)
    PROVE  Runs(w)
<1>1. CASE LocalEvent(w)
  BY <1>1, StillSteps, ReadSteps, MemSteps, ProbeSteps, CloseSteps, StillCalm, TablesCalm
     DEF LocalEvent, Runs
<1>2. CASE Envelope(w)
  BY <1>2, AnswerSteps, AdmitAttemptStep, PeerNewsSteps, PeerFellBackStep, StillCalm, TablesCalm,
     NewsLearns DEF Envelope, Runs
<1> QED
  BY <1>1, <1>2

-----------------------------------------------------------------------------
(* What a step of one Worker may do to the pair                             *)

\* How the row of an attempt may move.
RowMoves(w) ==
    \A a \in Attempts :
        \/ db'[w].row[a] = db[w].row[a]
        \/ /\ db[w].row[a] = "none" /\ db'[w].row[a] \in {"live", "rejected"}
           /\ w = "follower" => Under(a)
           /\ w = "leader" => db'[w].row[a] = "live"
        \/ /\ db[w].row[a] = "live" /\ db'[w].row[a] = "both_empty"
           /\ a = Cur(w) /\ run[w].at \in {"final", "tail"} /\ CanFinalize(w)
        \/ /\ db[w].row[a] = "live" /\ db'[w].row[a] = "no_effect"
           /\ At(w, "down") /\ disk[w].a # a

\* The stages before an attempt leaves follow each other.
EntryMoves(w) ==
    /\ At(w, "leg")' => db[w].row[Cur(w)'] = "none"
    /\ At(w, "prepare")' => At(w, "leg") /\ Cur(w)' = Cur(w)
    /\ At(w, "relay")' => At(w, "prepare") /\ Cur(w)' = Cur(w)

\* What a leg on disk says stays said, until another attempt takes its place.
Steady(k, kn) ==
    /\ kn.a = k.a /\ (k.empty => kn.empty) /\ (k.relayed => kn.relayed)
    /\ k.entry \in {"rejected", "expired_not_started", "filled"} => kn.entry = k.entry
    /\ k.prot = "fallback" => kn.prot = "fallback"
DiskMoves(w) ==
    \/ Steady(disk[w], disk'[w])
    \/ At(w, "leg") /\ disk'[w].a = Cur(w)
    \/ disk'[w].a = NoAttempt /\ disk[w].a = Cur(w) /\ Terminal(db'[w].row[Cur(w)])

\* What a cell has on record of its peer, and of the pair.
PeerNews(w) ==
    (Responsible(w)' # NoAttempt /\ db'[w].peer # "unknown") =>
        \/ Responsible(w)' = Responsible(w) /\ db'[w].peer = db[w].peer
        \/ /\ inbox[w] # <<>> /\ Head(inbox[w]).kind = "leg_status"
           /\ Head(inbox[w]).a = Responsible(w)' /\ Head(inbox[w]).status = db'[w].peer
ConfirmNews(w) ==
    db'[w].confirmed =>
        \/ db[w].confirmed /\ Holder(w)' = Holder(w) /\ (At(w, "down")' => db' = db)
        \/ /\ ~At(w, "down") /\ ~At(w, "down")' /\ Cur(w)' = Cur(w) /\ Cur(w) # NoAttempt
           /\ BothObserved(w) \/ Taking(w, "pair_entry_confirmed")
RollbackNews(w) ==
    RollingBack(w)' =>
        /\ Cur(w)' = Cur(w) /\ Cur(w) # NoAttempt
        /\ \/ RollingBack(w)
           \/ Taking(w, "leg_status") /\ Head(inbox[w]).status = "protection_rough_fallback"
RestNews(w) ==
    ((Cur(w)' = NoAttempt \/ At(w, "leg")') /\ mem'[w].st = "ACTIVE") =>
        (Cur(w) = NoAttempt \/ At(w, "leg")) /\ mem[w].st = "ACTIVE"
ActiveNews(w) ==
    (Responsible(w)' # NoAttempt /\ disk'[w].a = Responsible(w)' /\ Active(w)') =>
        /\ Responsible(w)' = Responsible(w) /\ disk[w].a = Responsible(w)
        /\ Active(w) \/ (Protected(w) /\ ~At(w, "down") /\ ~At(w, "leg") /\ disk' = disk)
        /\ disk[w].prot # "rough" => disk'[w].prot # "rough"
        /\ disk'[w].prot = "fallback" => disk[w].prot # "precise" \/ RollingBack(w)

Acts(w) ==
    /\ Touch(w) /\ Mail(w)
    /\ RowMoves(w) /\ EntryMoves(w) /\ DiskMoves(w)
    /\ PeerNews(w) /\ ConfirmNews(w) /\ RollbackNews(w) /\ RestNews(w) /\ ActiveNews(w)

\* A cell that keeps its attempt.
LEMMA RoutineActs ==
    ASSUME OwnInv, NEW w \in Workers, Routine(w), Learns(w)
    PROVE  Acts(w)
<1>1. /\ ~At(w, "down") /\ Cur(w)' = Cur(w) /\ db'[w].row = db[w].row
      /\ run'[w].at \notin {"down", "leg", "prepare", "relay", "mark", "call", "done"}
      /\ Touch(w) /\ Mail(w)
  BY DEF Routine, Kept, MemKept, DbKept, Plain, Landings, Rets, At, Cur
<1>2. /\ LegSaved(Cur(w), disk[w], leg'[w], disk'[w]) /\ Own(w)
      /\ Cur(w) = NoAttempt => db'[w].peer = db[w].peer /\ db'[w].confirmed = db[w].confirmed
  BY DEF Routine, Kept, DbKept, OwnInv
<1>3. Responsible(w) = Cur(w) /\ Responsible(w)' = Cur(w) /\ Holder(w) = Cur(w) /\ Holder(w)' = Cur(w)
      /\ ~At(w, "down")' /\ ~At(w, "leg")'
  BY <1>1 DEF Responsible, Holder, At
<1>4. RowMoves(w) /\ EntryMoves(w)
  BY <1>1 DEF RowMoves, EntryMoves, At
<1>5. DiskMoves(w) /\ disk'[w].a = disk[w].a /\ (disk[w].prot # "rough" => disk'[w].prot # "rough")
  BY <1>2 DEF DiskMoves, Steady, LegSaved
<1>6. PeerNews(w)
  BY <1>3 DEF PeerNews, Learns, Taking
<1>7. (Cur(w) = NoAttempt \/ At(w, "leg")) => ~db[w].confirmed /\ ~BothObserved(w) /\ ~Protected(w)
      /\ db[w].desired = "NONE"
  BY <1>1, <1>2 DEF Own, Decided, BothObserved, Protected
<1>8. ConfirmNews(w)
  BY <1>1, <1>2, <1>3, <1>7 DEF ConfirmNews, Learns
<1>9. RollbackNews(w) /\ RestNews(w)
  BY <1>1, <1>3, <1>7 DEF RollbackNews, RestNews, RollingBack, Learns
<1>10. ActiveNews(w)
  <2>1. Active(w)' => Active(w) \/ (Protected(w) /\ ~At(w, "leg") /\ disk' = disk)
    BY <1>7 DEF Learns
  <2>2. disk'[w].prot = "fallback" => disk[w].prot # "precise" \/ RollingBack(w)
    BY DEF Learns, ProtCalm, RollingBack, At
  <2> QED
    BY <1>1, <1>3, <1>5, <2>1, <2>2 DEF ActiveNews
<1> QED
  BY <1>1, <1>4, <1>5, <1>6, <1>8, <1>9, <1>10 DEF Acts

LEMMA WorkingActs ==
    ASSUME OwnInv, NEW w \in Workers, Working(w), Learns(w)
    PROVE  Acts(w)
<1>1. /\ ~At(w, "down") /\ ~At(w, "leg") /\ Cur(w)' = Cur(w) /\ db'[w].row = db[w].row
      /\ run'[w].at \in {"relay", "mark", "call", "done"} /\ Cur(w) # NoAttempt
      /\ Touch(w) /\ Mail(w)
  BY DEF Working, Writes, MemKept, DbKept, At, Cur
<1>2. LegHeld(disk[w], leg'[w], disk'[w]) /\ Writes(w)
  BY DEF Working
<1>3. Responsible(w) = Cur(w) /\ Responsible(w)' = Cur(w) /\ Holder(w) = Cur(w) /\ Holder(w)' = Cur(w)
      /\ ~At(w, "down")' /\ ~At(w, "leg")' /\ ~At(w, "prepare")'
  BY <1>1 DEF Responsible, Holder, At
<1>4. RowMoves(w) /\ EntryMoves(w)
  BY <1>1, <1>2, <1>3 DEF RowMoves, EntryMoves, Writes
<1>5. DiskMoves(w) /\ disk'[w].a = disk[w].a /\ disk'[w].prot = disk[w].prot
  BY <1>2 DEF DiskMoves, Steady, LegHeld
<1>6. PeerNews(w)
  BY <1>3 DEF PeerNews, Learns, Taking
<1>7. ConfirmNews(w)
  BY <1>1, <1>3 DEF ConfirmNews, Learns
<1>8. RollbackNews(w)
  BY <1>1, <1>2, <1>3 DEF RollbackNews, RollingBack, Writes, Taking
<1>9. RestNews(w)
  BY <1>1, <1>3 DEF RestNews
<1>10. ActiveNews(w)
  BY <1>1, <1>3, <1>5 DEF ActiveNews, Learns
<1> QED
  BY <1>1, <1>4, <1>5, <1>6, <1>7, <1>8, <1>9, <1>10 DEF Acts

\* The steps that begin, finish or forget an attempt.
LEMMA AdoptsActs ==
    ASSUME OwnInv, NEW w \in Workers, NEW a \in Attempts, Adopts(w, a)
    PROVE  Acts(w)
<1>1. /\ Local(w) /\ Own(w) /\ ~At(w, "down") /\ Cur(w) = NoAttempt /\ Cur(w)' = a /\ At(w, "leg")'
      /\ db[w].row[a] = "none" /\ disk' = disk /\ Touch(w) /\ Mail(w) /\ mem'[w].st = mem[w].st
      /\ db'[w] = [db[w] EXCEPT !.row[a] = "live", !.last = a] /\ a # NoAttempt
  BY Setup DEF Adopts, At, Cur, Attempts, NoAttempt
<1>2. /\ db'[w].row = [db[w].row EXCEPT ![a] = "live"] /\ db'[w].confirmed = db[w].confirmed
      /\ db'[w].active = db[w].active /\ db'[w].peer = db[w].peer
      /\ db[w].row \in [Attempts -> RowStates]
  BY <1>1 DEF Local, Rows
<1>3. ~db[w].confirmed /\ ~db[w].active /\ db[w].peer = "unknown" /\ disk[w].a # a
  BY <1>1 DEF Own, Decided, LegKept
<1>4. w = "follower" => Under(a)
  <2>1. SUFFICES ASSUME w = "follower" PROVE Under(a)
    OBVIOUS
  <2>2. /\ inbox["follower"] # <<>> /\ Head(inbox["follower"]).kind = "attempt"
        /\ Head(inbox["follower"]).a = a /\ inbox["follower"] \in Seq(Messages)
    BY <1>1, <2>1 DEF Adopts, Local
  <2>3. Head(inbox["follower"]) = inbox["follower"][1] /\ 1 \in DOMAIN inbox["follower"]
    BY <2>2, TailFacts
  <2> QED
    BY <2>2, <2>3 DEF Under
<1>5. RowMoves(w)
  BY <1>1, <1>2, <1>4 DEF RowMoves
<1>6. EntryMoves(w) /\ DiskMoves(w)
  BY <1>1 DEF EntryMoves, DiskMoves, Steady, At
<1>7. Responsible(w)' = a /\ ~RollingBack(w)'
  BY <1>1 DEF Responsible, RollingBack, At
<1>8. PeerNews(w) /\ ConfirmNews(w) /\ RollbackNews(w) /\ RestNews(w) /\ ActiveNews(w)
  BY <1>1, <1>2, <1>3, <1>7 DEF PeerNews, ConfirmNews, RollbackNews, RestNews, ActiveNews
<1> QED
  BY <1>1, <1>5, <1>6, <1>8 DEF Acts

LEMMA PersistActs ==
    ASSUME OwnInv, NEW w \in Workers, PersistLeg(w)
    PROVE  Acts(w)
<1>1. /\ At(w, "leg") /\ Own(w) /\ Touch(w) /\ Mail(w) /\ run'[w].at = "prepare" /\ Cur(w)' = Cur(w)
      /\ Cur(w) \in Attempts /\ Cur(w) # NoAttempt
      /\ db'[w].row = db[w].row /\ db'[w].confirmed = db[w].confirmed /\ db'[w].active = db[w].active
      /\ db'[w].peer = db[w].peer /\ mem'[w].st = "ENTERING"
      /\ disk'[w] = [NoLeg EXCEPT !.a = Cur(w)]
  BY PersistLegStep DEF PersistLeg, OwnInv, Attempts, NoAttempt
<1>2. disk'[w].a = Cur(w)
  BY <1>1 DEF NoLeg
<1>3. ~db[w].confirmed /\ ~db[w].active /\ db[w].peer = "unknown"
  BY <1>1 DEF Own, Decided, At
<1>4. RowMoves(w) /\ EntryMoves(w) /\ DiskMoves(w)
  BY <1>1, <1>2 DEF RowMoves, EntryMoves, DiskMoves, At
<1>5. PeerNews(w) /\ ConfirmNews(w) /\ RollbackNews(w) /\ RestNews(w) /\ ActiveNews(w)
  BY <1>1, <1>3 DEF PeerNews, ConfirmNews, RollbackNews, RestNews, ActiveNews, RollingBack, Active
<1> QED
  BY <1>1, <1>4, <1>5 DEF Acts

LEMMA FinalizeActs ==
    ASSUME OwnInv, NEW w \in Workers, FinalizeEmpty(w)
    PROVE  Acts(w)
<1>1. /\ run[w].at \in {"final", "tail"} /\ Own(w) /\ Local(w) /\ Touch(w) /\ Mail(w)
      /\ Cur(w) \in Attempts /\ Cur(w)' = NoAttempt /\ CanFinalize(w)
      /\ db'[w].row = [db[w].row EXCEPT ![Cur(w)] = "both_empty"]
      /\ ~db'[w].confirmed /\ ~db'[w].active /\ db'[w].peer = "unknown"
      /\ disk'[w].a = NoAttempt /\ mem'[w].st = "EMPTY" /\ Plain(w)
  BY FinalizeEmptyStep, Setup DEF FinalizeEmpty
<1>2. /\ db[w].row \in [Attempts -> RowStates] /\ db[w].row[Cur(w)] = "live" /\ disk[w].a = Cur(w)
      /\ Cur(w) # NoAttempt
  BY <1>1 DEF Local, Rows, Own, RowsKept, LegKept, Attempts, NoAttempt, At
<1>3. run'[w].at \notin {"down", "leg", "prepare", "relay", "mark", "call", "done"}
  BY <1>1 DEF Plain, Landings, Rets
<1>4. RowMoves(w)
  BY <1>1, <1>2 DEF RowMoves
<1>5. EntryMoves(w) /\ DiskMoves(w)
  BY <1>1, <1>2, <1>3 DEF EntryMoves, DiskMoves, At, Terminal
<1>6. Responsible(w)' = NoAttempt /\ ~RollingBack(w)'
  BY <1>1, <1>3 DEF Responsible, RollingBack, At
<1>7. PeerNews(w) /\ ConfirmNews(w) /\ RollbackNews(w) /\ RestNews(w) /\ ActiveNews(w)
  BY <1>1, <1>6 DEF PeerNews, ConfirmNews, RollbackNews, RestNews, ActiveNews
<1> QED
  BY <1>1, <1>4, <1>5, <1>7 DEF Acts

LEMMA RefuseActs ==
    ASSUME OwnInv, NEW w \in Workers, RefuseAttempt(w)
    PROVE  Acts(w)
<1> DEFINE a == Head(inbox[w]).a
<1>1. /\ At(w, "idle") /\ Own(w) /\ Local(w) /\ Touch(w) /\ Mail(w) /\ w = "follower"
      /\ a \in Attempts /\ db[w].row[a] = "none"
      /\ inbox[w] # <<>> /\ Head(inbox[w]).kind = "attempt"
      /\ db'[w].row = [db[w].row EXCEPT ![a] = "rejected"]
      /\ db'[w].confirmed = db[w].confirmed /\ db'[w].active = db[w].active
      /\ db'[w].peer = db[w].peer /\ Cur(w)' = Cur(w) /\ mem'[w].st = mem[w].st
      /\ Plain(w) /\ disk' = disk
  BY RefuseAttemptStep, Setup DEF MemKept, Cur
<1>2. run'[w].at \notin {"down", "leg", "prepare", "relay", "mark", "call", "done"}
  BY <1>1 DEF Plain, Landings, Rets
<1>3. Under(a)
  <2>1. inbox["follower"] \in Seq(Messages) /\ inbox["follower"] # <<>>
    BY <1>1 DEF Local
  <2>2. Head(inbox["follower"]) = inbox["follower"][1] /\ 1 \in DOMAIN inbox["follower"]
    BY <2>1, TailFacts
  <2> QED
    BY <1>1, <2>2 DEF Under
<1>4. db[w].row \in [Attempts -> RowStates]
  BY <1>1 DEF Local, Rows
<1>5. RowMoves(w)
  BY <1>1, <1>3, <1>4 DEF RowMoves
<1>6. EntryMoves(w) /\ DiskMoves(w)
  BY <1>1, <1>2 DEF EntryMoves, DiskMoves, Steady, At
<1>7. /\ Responsible(w)' = Responsible(w) /\ Holder(w)' = Holder(w) /\ ~RollingBack(w)'
      /\ ~At(w, "leg") /\ ~At(w, "down")' /\ ~At(w, "leg")' /\ (Active(w)' <=> Active(w))
  BY <1>1, <1>2 DEF Responsible, Holder, RollingBack, At, Active
<1>8. PeerNews(w) /\ ConfirmNews(w) /\ RollbackNews(w) /\ RestNews(w) /\ ActiveNews(w)
  BY <1>1, <1>7 DEF PeerNews, ConfirmNews, RollbackNews, RestNews, ActiveNews
<1> QED
  BY <1>1, <1>5, <1>6, <1>8 DEF Acts

\* A crash, and a restart.
LEMMA CrashActs ==
    ASSUME OwnInv, NEW w \in Workers, Crash(w)
    PROVE  Acts(w)
<1>1. /\ Own(w) /\ Touch(w) /\ Mail(w) /\ ~At(w, "down") /\ At(w, "down")' /\ mem'[w].st = "IDLE"
      /\ disk' = disk /\ db' = db
  BY CrashStep, Setup
<1>2. RowMoves(w) /\ EntryMoves(w) /\ DiskMoves(w)
  BY <1>1 DEF RowMoves, EntryMoves, DiskMoves, Steady, At
<1>3. Responsible(w)' # NoAttempt => Responsible(w)' = Responsible(w)
  BY <1>1 DEF Responsible, Own, RowsKept, Loaded
<1>4. db[w].confirmed => Holder(w)' = Holder(w)
  BY <1>1 DEF Holder, Own, Decided, LegKept
<1>5. ~RollingBack(w)' /\ (Active(w)' => Active(w))
  BY <1>1 DEF RollingBack, At, Active
<1>6. PeerNews(w) /\ ConfirmNews(w) /\ RollbackNews(w) /\ RestNews(w) /\ ActiveNews(w)
  BY <1>1, <1>3, <1>4, <1>5 DEF PeerNews, ConfirmNews, RollbackNews, RestNews, ActiveNews
<1> QED
  BY <1>1, <1>2, <1>6 DEF Acts

LEMMA RestartActs ==
    ASSUME OwnInv, NEW w \in Workers, Restart(w)
    PROVE  Acts(w)
<1>1. CASE RestartIdle(w) \/ RestartWithoutLeg(w)
  <2>1. /\ Own(w) /\ Local(w) /\ Touch(w) /\ Mail(w) /\ At(w, "down") /\ At(w, "idle")'
        /\ Cur(w)' = NoAttempt /\ mem'[w].st # "ACTIVE"
        /\ ~db'[w].confirmed /\ ~db'[w].active /\ db'[w].peer = "unknown" /\ disk' = disk
    BY <1>1, RestartAtRest, Setup
  <2>2. \/ db'[w].row = db[w].row
        \/ /\ Loaded(w) \in Attempts /\ disk[w].a # Loaded(w) /\ db[w].row[Loaded(w)] = "live"
           /\ db'[w].row = [db[w].row EXCEPT ![Loaded(w)] = "no_effect"]
    BY <1>1, RestartAtRest DEF Loaded, Attempts, NoAttempt
  <2>3. db[w].row \in [Attempts -> RowStates]
    BY <2>1 DEF Local, Rows
  <2>4. RowMoves(w)
    BY <2>1, <2>2, <2>3 DEF RowMoves
  <2>5. EntryMoves(w) /\ DiskMoves(w)
    BY <2>1 DEF EntryMoves, DiskMoves, Steady, At
  <2>6. Responsible(w)' = NoAttempt /\ ~RollingBack(w)'
    BY <2>1 DEF Responsible, RollingBack, At
  <2>7. PeerNews(w) /\ ConfirmNews(w) /\ RollbackNews(w) /\ RestNews(w) /\ ActiveNews(w)
    BY <2>1, <2>6 DEF PeerNews, ConfirmNews, RollbackNews, RestNews, ActiveNews
  <2> QED
    BY <2>1, <2>4, <2>5, <2>7 DEF Acts
<1>2. CASE RestartWithLeg(w)
  <2>1. /\ Touch(w) /\ Mail(w) /\ At(w, "down") /\ At(w, "read")'
        /\ Loaded(w) \in Attempts /\ disk[w].a = Loaded(w) /\ Cur(w)' = Loaded(w)
        /\ db'[w].row = db[w].row /\ db'[w].confirmed = db[w].confirmed
        /\ db'[w].active = db[w].active /\ db'[w].peer = db[w].peer
        /\ mem'[w].st = "ACTIVE" => db[w].active
        /\ disk'[w].a = disk[w].a /\ disk'[w].prot = disk[w].prot /\ disk'[w].empty = disk[w].empty
        /\ disk'[w].relayed = disk[w].relayed
        /\ disk'[w].entry = ReconciledEntry(disk[w], jr[w][Loaded(w)]["entry"])
    BY <1>2, RestartWithLegStep
  <2>2. disk[w].entry # "pending" => disk'[w].entry = disk[w].entry
    BY <2>1 DEF ReconciledEntry
  <2>3. RowMoves(w) /\ EntryMoves(w) /\ DiskMoves(w)
    BY <2>1, <2>2 DEF RowMoves, EntryMoves, DiskMoves, Steady, At
  <2>4. /\ Responsible(w)' = Loaded(w) /\ Responsible(w) = Loaded(w) /\ Holder(w)' = Holder(w)
        /\ ~RollingBack(w)' /\ Loaded(w) # NoAttempt /\ ~At(w, "down")' /\ ~At(w, "leg")'
        /\ (Active(w)' => Active(w))
    BY <2>1 DEF Responsible, Holder, RollingBack, At, Active, Attempts, NoAttempt
  <2>5. PeerNews(w) /\ ConfirmNews(w) /\ RollbackNews(w) /\ RestNews(w) /\ ActiveNews(w)
    BY <2>1, <2>4 DEF PeerNews, ConfirmNews, RollbackNews, RestNews, ActiveNews
  <2> QED
    BY <2>1, <2>3, <2>5 DEF Acts
<1> QED
  BY <1>1, <1>2 DEF Restart

\* Every step of the two Workers; the others are the relay's and the broker's.
LEMMA StepActs ==
    ASSUME OwnInv, NEW w \in Workers,
           ThreadStep(w) \/ LocalEvent(w) \/ Envelope(w) \/ Crash(w) \/ Restart(w)
    PROVE  Acts(w)
<1>1. Runs(w) => Acts(w)
  BY RoutineActs, WorkingActs, AdoptsActs, PersistActs, FinalizeActs, RefuseActs DEF Runs
<1> QED
  BY <1>1, ThreadRuns, EventRuns, CrashActs, RestartActs

-----------------------------------------------------------------------------
(* What stays true of the pair, whichever Worker acts                       *)

LEMMA RowsOf ==
    ASSUME OwnInv, NEW w \in Workers, Acts(w)
    PROVE  \A v \in Workers, a \in Attempts :
              /\ Terminal(db[v].row[a]) => Terminal(db'[v].row[a])
              /\ db[v].row[a] # "none" => db'[v].row[a] # "none"
              /\ db[v].row[a] = "live" => db'[v].row[a] = "live" \/ Terminal(db'[v].row[a])
<1>1. \A v \in Workers : v # w => db'[v] = db[v]
  BY TouchFrame DEF Acts
<1>2. RowMoves(w)
  BY DEF Acts
<1> QED
  BY <1>1, <1>2 DEF RowMoves, Terminal

\* An attempt that was let go stays so.
LEMMA SentStays ==
    ASSUME OwnInv, NEW w \in Workers, Acts(w), NEW a \in Attempts, ~Unsent(a)
    PROVE  ~Unsent(a)'
<1>1. CASE w = "leader"
  <2>1. db["leader"].row[a] # "none" /\ db'["leader"].row[a] # "none"
    BY <1>1, RowsOf DEF Unsent
  <2>2. EntryMoves("leader") /\ ~(Cur("leader") = a /\ run["leader"].at \in {"leg", "prepare", "relay"})
    BY <1>1 DEF Acts, Unsent
  <2> QED
    BY <2>1, <2>2 DEF Unsent, EntryMoves, At
<1>2. CASE w # "leader"
  <2>1. db'["leader"] = db["leader"] /\ run'["leader"] = run["leader"] /\ mem'["leader"] = mem["leader"]
    BY <1>2, TouchFrame DEF Acts, Workers
  <2> QED
    BY <2>1 DEF Unsent, Cur
<1> QED
  BY <1>1, <1>2

\* A new attempt under way is the one the leader relays in this step.
LEMMA NewUnder ==
    ASSUME OwnInv, NEW w \in Workers, Acts(w), NEW a \in Attempts, Under(a)', ~Under(a)
    PROVE  /\ w = "leader" /\ At(w, "relay") /\ a = Cur(w)
           /\ disk'["leader"].a = a /\ disk'["leader"].relayed
<1> DEFINE q == inbox["follower"]
           r == inbox'["follower"]
<1>1. q \in Seq(Messages) /\ r \in Seq(Messages) /\ Mail(w)
  BY DEF OwnInv, TypeOK, Acts, Mail, Workers
<1>2. PICK i \in 1 .. Len(r) : r[i].kind = "attempt" /\ r[i].a = a
  BY <1>1 DEF Under
<1>3. \A k \in 1 .. Len(q) : ~(q[k].kind = "attempt" /\ q[k].a = a)
  BY <1>1 DEF Under
<1>4. CASE w = "follower"
  <2>1. r \in {q, <<>>} \/ (q # <<>> /\ r = Tail(q))
    BY <1>1, <1>4 DEF Mail
  <2>2. CASE q # <<>> /\ r = Tail(q)
    <3>1. i + 1 \in 1 .. Len(q) /\ r[i] = q[i + 1]
      BY <1>1, <1>2, <2>2, TailFacts
    <3> QED
      BY <1>2, <1>3, <3>1
  <2>3. r # <<>>
    BY <1>1, <1>2
  <2> QED
    BY <1>2, <1>3, <2>1, <2>2, <2>3
<1>5. CASE w = "leader"
  <2>1. Peer(w) = "follower"
    BY <1>5 DEF Peer
  <2>2. i > Len(q)
    BY <1>1, <1>2, <1>3, <2>1 DEF Mail
  <2>3. Honest(w, r[i])
    BY <1>1, <1>2, <2>1, <2>2 DEF Mail
  <2> QED
    BY <1>2, <1>5, <2>3 DEF Honest
<1> QED
  BY <1>4, <1>5 DEF Workers

\* A Worker that is spent stays so.
LEMMA SpentStays ==
    ASSUME OwnInv, NEW w \in Workers, Acts(w), NEW v \in Workers, NEW a \in Attempts, Spent(v, a)
    PROVE  Spent(v, a)'
<1>1. CASE Terminal(db[v].row[a])
  BY <1>1, RowsOf DEF Spent
<1>2. CASE v = "follower" /\ db[v].row[a] = "none" /\ ~Under(a) /\ ~Unsent(a)
  <2>1. ~Unsent(a)'
    BY <1>2, SentStays
  <2>2. ~Under(a)'
    <3>1. SUFFICES ASSUME Under(a)' PROVE FALSE
      OBVIOUS
    <3>2. w = "leader" /\ At(w, "relay") /\ a = Cur(w)
      BY <1>2, <3>1, NewUnder
    <3> QED
      BY <1>2, <3>2 DEF Unsent, At
  <2>3. db'[v].row[a] = "none"
    <3>1. CASE w = v
      BY <1>2, <3>1 DEF Acts, RowMoves
    <3>2. CASE w # v
      <4>1. db'[v] = db[v]
        BY <3>2, TouchFrame DEF Acts
      <4> QED
        BY <1>2, <4>1
    <3> QED
      BY <3>1, <3>2
  <2> QED
    BY <1>2, <2>1, <2>2, <2>3 DEF Spent
<1>3. CASE /\ db[v].row[a] = "live" /\ ~(Cur(v) = a /\ At(v, "leg"))
           /\ disk[v].a = a => disk[v].empty \/ disk[v].entry \in {"rejected", "expired_not_started"}
  <2>1. CASE w # v
    <3>1. db'[v] = db[v] /\ run'[v] = run[v] /\ mem'[v] = mem[v] /\ disk'[v] = disk[v]
      BY <2>1, TouchFrame DEF Acts
    <3> QED
      BY <1>3, <3>1 DEF Spent, Cur, At
  <2>2. CASE w = v
    <3>1. db'[v].row[a] = "live" \/ Terminal(db'[v].row[a])
      BY <1>3, RowsOf
    <3>2. ~(Cur(v)' = a /\ At(v, "leg")')
      BY <1>3, <2>2 DEF Acts, EntryMoves
    <3>3. disk'[v].a = a => disk'[v].empty \/ disk'[v].entry \in {"rejected", "expired_not_started"}
      BY <1>3, <2>2 DEF Acts, DiskMoves, Steady, Attempts, NoAttempt
    <3> QED
      BY <3>1, <3>2, <3>3 DEF Spent
  <2> QED
    BY <2>1, <2>2
<1> QED
  BY <1>1, <1>2, <1>3 DEF Spent

LEMMA OverStays ==
    ASSUME OwnInv, NEW w \in Workers, Acts(w), NEW v \in Workers, NEW a \in Attempts, Over(v, a)
    PROVE  Over(v, a)'
  BY RowsOf DEF Over, Workers

\* The leg on disk of attempt a is replaced only once a is over.
LEMMA LegReplaced ==
    ASSUME OwnInv, Known, BothSpent, NEW w \in Workers, NEW a \in Attempts, disk[w].a = a, At(w, "leg")
    PROVE  Over(w, a)
<1>1. /\ Own(w) /\ Local(w) /\ Cur(w) # NoAttempt /\ Cur(w) \in Attempts /\ db[w].row[a] # "none"
      /\ a # NoAttempt /\ a # Cur(w) /\ db[w].last = Cur(w) /\ db[w].row[Cur(w)] = "live"
  <2>1. Own(w) /\ Local(w) /\ a # NoAttempt
    BY Setup DEF Attempts, NoAttempt
  <2>2. Cur(w) # NoAttempt /\ Cur(w) \in Attempts
    BY <2>1 DEF Own, Control, Busy, At, Local, Mems, Cur
  <2> QED
    BY <2>1, <2>2 DEF Own, LegKept, RowsKept, OnEntry, At
<1>2. CASE w = "leader"
  <2>1. /\ db[w].row[a] = "none" <=> a > db[w].last
        /\ a < db[w].last => Terminal(db[w].row[a])
    BY <1>1, <1>2 DEF Own, RowsKept
  <2> QED
    BY <1>1, <2>1 DEF Over, Attempts
<1>3. CASE w = "follower"
  <2> DEFINE b == Cur(w)
  <2>1. Terminal(db["leader"].row[a]) \/ disk["leader"].a = a
    BY <1>1, <1>3 DEF Known
  <2>2. Terminal(db["leader"].row[b]) \/ disk["leader"].a = b
    BY <1>1, <1>3 DEF Known
  <2>3. ~Spent("follower", b)
    BY <1>1, <1>3 DEF Spent, Terminal
  <2>4. ~Terminal(db["leader"].row[b])
    BY <1>1, <2>3 DEF BothSpent
  <2> QED
    BY <1>1, <1>3, <2>1, <2>2, <2>4 DEF Over
<1> QED
  BY <1>2, <1>3 DEF Workers

LEMMA FilledStays ==
    ASSUME OwnInv, Known, BothSpent, NEW w \in Workers, Acts(w), NEW v \in Workers, NEW a \in Attempts
    PROVE  /\ HadFilled(v, a) => HadFilled(v, a)'
           /\ FellBack(v, a) => FellBack(v, a)'
<1>1. Over(v, a) => Over(v, a)'
  BY OverStays
<1>2. CASE w # v
  <2>1. disk'[v] = disk[v]
    BY <1>2, TouchFrame DEF Acts
  <2> QED
    BY <1>1, <2>1 DEF HadFilled, FellBack, FilledOnRecord
<1>3. CASE w = v /\ disk[v].a = a
  <2>1. CASE Steady(disk[v], disk'[v])
    BY <1>1, <1>3, <2>1 DEF HadFilled, FellBack, FilledOnRecord, Steady
  <2>2. CASE At(v, "leg")
    BY <1>1, <1>3, <2>2, LegReplaced DEF HadFilled, FellBack
  <2>3. CASE disk[v].a = Cur(v) /\ Terminal(db'[v].row[Cur(v)])
    BY <1>3, <2>3 DEF HadFilled, FellBack, Over
  <2> QED
    BY <1>3, <2>1, <2>2, <2>3 DEF Acts, DiskMoves
<1>4. CASE disk[v].a # a
  BY <1>1, <1>4 DEF HadFilled, FellBack, FilledOnRecord
<1> QED
  BY <1>2, <1>3, <1>4

\* What an envelope says stays true.
LEMMA BackedStays ==
    ASSUME OwnInv, Known, BothSpent, NEW w \in Workers, Acts(w), NEW v \in Workers,
           NEW m \in Messages, Backed(v, m)
    PROVE  Backed(v, m)'
<1>1. m.a \in Attempts
  BY DEF Messages
<1> QED
  BY <1>1, SentStays, SpentStays, FilledStays DEF Backed

LEMMA HeadBacked ==
    ASSUME PairInv, NEW w \in Workers, inbox[w] # <<>>
    PROVE  Head(inbox[w]) \in Messages /\ Backed(Peer(w), Head(inbox[w]))
<1>1. inbox[w] \in Seq(Messages) /\ InboxBacked
  BY DEF PairInv, OwnInv, TypeOK
<1>2. Head(inbox[w]) = inbox[w][1] /\ inbox[w][1] \in Messages /\ 1 \in DOMAIN inbox[w]
  BY <1>1, TailFacts
<1> QED
  BY <1>1, <1>2 DEF InboxBacked, Carries

\* What a Worker sends is true of it.
LEMMA HonestBacked ==
    ASSUME PairInv, OwnInv', NEW w \in Workers, Acts(w), NEW m \in Messages, Honest(w, m)
    PROVE  Backed(w, m)'
<1>1. /\ OwnInv /\ Known /\ BothSpent /\ Own(w) /\ Local(w) /\ m.a \in Attempts
      /\ inbox[w] \in Seq(Messages)
  BY Setup DEF PairInv, Messages, Local
<1>2. inbox[w] # <<>> => Head(inbox[w]) = inbox[w][1] /\ 1 \in DOMAIN inbox[w]
  BY <1>1, TailFacts
<1>3. (inbox[w] # <<>> /\ m.a = Head(inbox[w]).a) => ~Unsent(m.a)
  BY HeadBacked DEF Backed
<1>4. ~Unsent(m.a)'
  <2>1. CASE inbox[w] # <<>> /\ m.a = Head(inbox[w]).a
    BY <1>1, <1>3, <2>1, SentStays
  <2>2. CASE Cur(w) # NoAttempt /\ m.a = Cur(w) /\ run[w].at \notin {"leg", "prepare"}
    <3>1. db[w].row[m.a] = "live"
      BY <1>1, <2>2 DEF Own, RowsKept
    <3>2. CASE w = "follower"
      BY <1>1, <3>1, <3>2, SentStays DEF Known
    <3>3. CASE w = "leader"
      <4>1. db'["leader"].row[m.a] # "none"
        BY <1>1, <3>1, <3>3, RowsOf
      <4>2. ~(Cur("leader")' = m.a /\ run'["leader"].at \in {"leg", "prepare", "relay"})
        BY <2>2, <3>1, <3>3 DEF Acts, EntryMoves, At
      <4> QED
        BY <4>1, <4>2 DEF Unsent
    <3> QED
      BY <3>2, <3>3 DEF Workers
  <2> QED
    BY <2>1, <2>2 DEF Honest
<1>5. (m.kind = "leg_status" /\ m.status \in TerminalStatuses) => Spent(w, m.a)'
  <2>1. SUFFICES ASSUME m.kind = "leg_status", m.status \in TerminalStatuses
        PROVE  Spent(w, m.a)'
    OBVIOUS
  <2>2. CASE Terminal(db'[w].row[m.a])
    BY <2>2 DEF Spent
  <2>3. CASE /\ db'[w].row[m.a] = "none" /\ inbox[w] # <<>> /\ inbox'[w] = Tail(inbox[w])
             /\ Head(inbox[w]).kind = "leg_status_request" /\ m.a = Head(inbox[w]).a
    <3>1. w = "follower"
      BY <1>4, <2>3 DEF Unsent, Workers
    <3>2. ~Under(m.a)'
      <4> DEFINE q == inbox["follower"]
                 r == inbox'["follower"]
      <4>1. /\ q \in Seq(Messages) /\ q # <<>> /\ r = Tail(q) /\ Len(r) = Len(q) - 1 /\ r \in Seq(Messages)
            /\ \A i \in 1 .. Len(r) : r[i] = q[i + 1]
        <5>1. q \in Seq(Messages) /\ q # <<>> /\ r = Tail(q)
          BY <1>1, <2>3, <3>1
        <5> HIDE DEF q, r
        <5> QED
          BY <5>1, TailFacts
      <4>2. q[1].kind = "leg_status_request" /\ q[1].a = m.a
        BY <1>2, <2>3, <3>1
      <4>3. ASSUME NEW i \in 1 .. Len(r), r[i].kind = "attempt", r[i].a = m.a
            PROVE  FALSE
        <5>1. 1 \in DOMAIN q /\ i + 1 \in DOMAIN q /\ 1 < i + 1 /\ r[i] = q[i + 1]
          BY <4>1, <4>3
        <5> QED
          BY <4>2, <4>3, <5>1 DEF PairInv, Ordered
      <4> QED
        BY <4>1, <4>3 DEF Under
    <3> QED
      BY <1>4, <2>3, <3>1, <3>2 DEF Spent
  <2>4. CASE /\ db'[w].row[m.a] = "live" /\ mem'[w].cur = m.a /\ run'[w].at # "leg" /\ disk'[w].a = m.a
             /\ disk'[w].empty \/ disk'[w].entry \in {"rejected", "expired_not_started"}
    BY <2>4 DEF Spent, At
  <2> QED
    BY <2>1, <2>2, <2>3, <2>4 DEF Honest
<1>6. /\ (m.kind = "leg_status" /\ m.status = "filled") => HadFilled(w, m.a)'
      /\ m.kind = "pair_entry_confirmed" => HadFilled(w, m.a)'
      /\ (m.kind = "leg_status" /\ m.status = "protection_rough_fallback") => FellBack(w, m.a)'
  BY DEF Honest, HadFilled, FellBack, FilledOnRecord
<1> QED
  BY <1>4, <1>5, <1>6 DEF Backed

-----------------------------------------------------------------------------
(* A step of a Worker keeps the invariant                                   *)

LEMMA ActsInbox ==
    ASSUME PairInv, OwnInv', NEW w \in Workers, Acts(w)
    PROVE  InboxBacked'
<1>1. SUFFICES ASSUME NEW v \in Workers, NEW m \in Messages, Carries(v, m)'
      PROVE  Backed(Peer(v), m)'
  BY DEF InboxBacked
<1>2. /\ OwnInv /\ Known /\ BothSpent /\ InboxBacked /\ Mail(w) /\ Peer(v) \in Workers /\ Peer(w) \in Workers
      /\ Peer(Peer(w)) = w /\ Peer(w) # w
  BY PeerFacts DEF PairInv, Acts
<1>3. inbox[v] \in Seq(Messages) /\ inbox'[v] \in Seq(Messages)
  BY <1>2 DEF OwnInv, TypeOK, Mail
<1>4. PICK i \in 1 .. Len(inbox'[v]) : inbox'[v][i] = m
  BY <1>1, <1>3 DEF Carries
<1>5. ASSUME NEW k \in 1 .. Len(inbox[v]), m = inbox[v][k]
      PROVE  Backed(Peer(v), m)'
  <2>1. Carries(v, m)
    BY <1>3, <1>5 DEF Carries
  <2>2. Backed(Peer(v), m)
    BY <1>2, <2>1 DEF InboxBacked
  <2> QED
    BY <1>2, <2>2, BackedStays
<1>6. CASE v = w
  <2>1. inbox'[v] \in {inbox[v], <<>>} \/ (inbox[v] # <<>> /\ inbox'[v] = Tail(inbox[v]))
    BY <1>2, <1>6 DEF Mail
  <2>2. inbox'[v] # <<>>
    BY <1>3, <1>4
  <2>3. CASE inbox[v] # <<>> /\ inbox'[v] = Tail(inbox[v])
    <3>1. i + 1 \in 1 .. Len(inbox[v]) /\ inbox'[v][i] = inbox[v][i + 1]
      BY <1>3, <2>3, TailFacts
    <3> QED
      BY <1>4, <1>5, <3>1
  <2> QED
    BY <1>4, <1>5, <2>1, <2>2, <2>3
<1>7. CASE v # w
  <2>1. v = Peer(w) /\ Peer(v) = w
    BY <1>7 DEF Peer, Workers
  <2>2. CASE i <= Len(inbox[v])
    <3>1. i \in 1 .. Len(inbox[v]) /\ inbox'[v][i] = inbox[v][i]
      BY <1>2, <1>3, <2>1, <2>2 DEF Mail
    <3> QED
      BY <1>4, <1>5, <3>1
  <2>3. CASE i > Len(inbox[v])
    <3>1. Honest(w, m)
      BY <1>2, <1>3, <1>4, <2>1, <2>3 DEF Mail
    <3> QED
      BY <2>1, <3>1, HonestBacked
  <2> QED
    BY <1>3, <2>2, <2>3
<1> QED
  BY <1>6, <1>7

LEMMA ActsOrdered ==
    ASSUME PairInv, NEW w \in Workers, Acts(w)
    PROVE  Ordered'
<1> DEFINE q == inbox["follower"]
           r == inbox'["follower"]
<1>1. /\ q \in Seq(Messages) /\ r \in Seq(Messages) /\ Mail(w) /\ InboxBacked /\ Ordered
      /\ Len(q) \in Nat /\ Len(r) \in Nat
  BY DEF PairInv, OwnInv, TypeOK, Acts, Mail, Workers
<1>2. SUFFICES ASSUME NEW i \in 1 .. Len(r), NEW j \in 1 .. Len(r), i < j,
                      r[i].kind = "leg_status_request", r[j].kind = "attempt", r[i].a = r[j].a
      PROVE  FALSE
  BY <1>1 DEF Ordered
<1>3. ASSUME NEW k \in 1 .. Len(q), NEW l \in 1 .. Len(q), k < l, r[i] = q[k], r[j] = q[l]
      PROVE  FALSE
  BY <1>1, <1>2, <1>3 DEF Ordered
<1>4. CASE w = "follower"
  <2>1. r \in {q, <<>>} \/ (q # <<>> /\ r = Tail(q))
    BY <1>1, <1>4 DEF Mail
  <2>2. CASE q # <<>> /\ r = Tail(q)
    <3>1. Len(r) = Len(q) - 1 /\ \A n \in 1 .. Len(r) : r[n] = q[n + 1]
      BY <1>1, <2>2, TailFacts
    <3>2. i + 1 \in 1 .. Len(q) /\ j + 1 \in 1 .. Len(q) /\ i + 1 < j + 1 /\ r[i] = q[i + 1] /\ r[j] = q[j + 1]
      BY <1>1, <1>2, <3>1
    <3> QED
      BY <1>3, <3>2
  <2>3. r # <<>>
    BY <1>1, <1>2
  <2> QED
    BY <1>2, <1>3, <2>1, <2>2, <2>3
<1>5. CASE w = "leader"
  <2>1. Peer(w) = "follower" /\ Peer("follower") = "leader"
    BY <1>5 DEF Peer
  <2>2. /\ \A n \in 1 .. Len(q) : r[n] = q[n]
        /\ \A n \in 1 .. Len(r) : n > Len(q) => Honest(w, r[n])
    BY <1>1, <2>1 DEF Mail
  <2>3. CASE j <= Len(q)
    <3>1. i \in 1 .. Len(q) /\ j \in 1 .. Len(q) /\ r[i] = q[i] /\ r[j] = q[j]
      BY <1>1, <1>2, <2>2, <2>3
    <3> QED
      BY <1>2, <1>3, <3>1
  <2>4. CASE j > Len(q)
    <3>1. At(w, "relay") /\ r[j].a = Cur(w)
      BY <1>2, <2>2, <2>4 DEF Honest
    <3>2. Unsent(r[j].a)
      BY <1>5, <3>1 DEF Unsent, At
    <3>3. CASE i > Len(q)
      BY <1>2, <2>2, <3>1, <3>3 DEF Honest
    <3>4. CASE i <= Len(q)
      <4>1. i \in DOMAIN q /\ r[i] = q[i] /\ q[i] \in Messages
        BY <1>1, <1>2, <2>2, <3>4
      <4>2. Backed("leader", q[i])
        BY <1>1, <2>1, <4>1 DEF InboxBacked, Carries, Workers
      <4> QED
        BY <1>2, <3>2, <4>1, <4>2 DEF Backed
    <3> QED
      BY <1>1, <1>2, <3>3, <3>4
  <2> QED
    BY <1>1, <1>2, <2>3, <2>4
<1> QED
  BY <1>4, <1>5 DEF Workers

LEMMA ActsKnown ==
    ASSUME PairInv, OwnInv', NEW w \in Workers, Acts(w)
    PROVE  Known'
<1>1. OwnInv /\ Known /\ BothSpent /\ "leader" \in Workers /\ "follower" \in Workers
  BY DEF PairInv, Workers
<1>2. SUFFICES ASSUME NEW a \in Attempts, db'["follower"].row[a] # "none" \/ Under(a)'
      PROVE  /\ ~Unsent(a)'
             /\ Terminal(db'["leader"].row[a]) \/ (disk'["leader"].a = a /\ disk'["leader"].relayed)
  BY DEF Known
<1>3. CASE db["follower"].row[a] # "none" \/ Under(a)
  <2>1. /\ ~Unsent(a)
        /\ Terminal(db["leader"].row[a]) \/ (disk["leader"].a = a /\ disk["leader"].relayed)
    BY <1>1, <1>3 DEF Known
  <2>2. ~Unsent(a)'
    BY <1>1, <2>1, SentStays
  <2>3. CASE Terminal(db["leader"].row[a])
    BY <1>1, <2>2, <2>3, RowsOf
  <2>4. CASE disk["leader"].a = a /\ disk["leader"].relayed
    <3>1. CASE w # "leader"
      <4>1. disk'["leader"] = disk["leader"]
        BY <1>1, <3>1, TouchFrame DEF Acts
      <4> QED
        BY <2>2, <2>4, <4>1
    <3>2. CASE w = "leader" /\ At(w, "leg")
      <4>1. Over(w, a) /\ Terminal(db["leader"].row[a])
        BY <1>1, <2>4, <3>2, LegReplaced DEF Over
      <4> QED
        BY <1>1, <2>2, <4>1, RowsOf
    <3>3. CASE w = "leader" /\ ~At(w, "leg")
      BY <2>2, <2>4, <3>3 DEF Acts, DiskMoves, Steady
    <3> QED
      BY <3>1, <3>2, <3>3
  <2> QED
    BY <2>1, <2>3, <2>4
<1>4. CASE db["follower"].row[a] = "none" /\ ~Under(a)
  <2>1. Under(a)'
    <3>1. SUFFICES ASSUME db'["follower"].row[a] # "none" PROVE FALSE
      BY <1>2
    <3>2. CASE w = "follower"
      BY <1>4, <3>1, <3>2 DEF Acts, RowMoves
    <3>3. CASE w # "follower"
      <4>1. db'["follower"] = db["follower"]
        BY <1>1, <3>3, TouchFrame DEF Acts
      <4> QED
        BY <1>4, <3>1, <4>1
    <3> QED
      BY <3>2, <3>3
  <2>2. /\ w = "leader" /\ At(w, "relay") /\ a = Cur(w)
        /\ disk'["leader"].a = a /\ disk'["leader"].relayed
    BY <1>1, <1>4, <2>1, NewUnder
  <2>3. db["leader"].row[a] = "live" /\ db'["leader"].row[a] # "none"
    <3>1. Own(w) /\ Cur(w) # NoAttempt
      BY <1>1, <2>2 DEF OwnInv, Attempts, NoAttempt
    <3>2. db["leader"].row[a] = "live"
      BY <2>2, <3>1 DEF Own, RowsKept
    <3> QED
      BY <1>1, <3>2, RowsOf
  <2>4. ~(Cur("leader")' = a /\ run'["leader"].at \in {"leg", "prepare", "relay"})
    BY <2>2, <2>3 DEF Acts, EntryMoves, At
  <2> QED
    BY <2>2, <2>3, <2>4 DEF Unsent
<1> QED
  BY <1>3, <1>4

LEMMA ActsPeer ==
    ASSUME PairInv, NEW w \in Workers, Acts(w)
    PROVE  PeerBacked'
<1>1. SUFFICES ASSUME NEW v \in Workers, NEW m \in Messages, m.kind = "leg_status",
                      m.a = Responsible(v)', m.status = db'[v].peer, m.status # "unknown"
      PROVE  Backed(Peer(v), m)'
  BY DEF PeerBacked
<1>2. OwnInv /\ Known /\ BothSpent /\ PeerBacked /\ Peer(v) \in Workers /\ m.a \in Attempts
  BY PeerFacts DEF PairInv, Messages
<1>3. Backed(Peer(v), m) => Backed(Peer(v), m)'
  BY <1>2, BackedStays
<1>4. CASE m.a = Responsible(v) /\ m.status = db[v].peer
  BY <1>1, <1>2, <1>3, <1>4 DEF PeerBacked
<1>5. CASE w # v
  <2>1. db'[v] = db[v] /\ run'[v] = run[v] /\ mem'[v] = mem[v]
    BY <1>2, <1>5, TouchFrame DEF Acts
  <2>2. Responsible(v)' = Responsible(v)
    BY <2>1 DEF Responsible, Loaded, Cur, At
  <2> QED
    BY <1>1, <1>4, <2>1, <2>2
<1>6. CASE w = v
  <2>1. PeerNews(v) /\ Responsible(v)' # NoAttempt
    BY <1>1, <1>2, <1>6 DEF Acts, Attempts, NoAttempt
  <2>2. CASE /\ inbox[v] # <<>> /\ Head(inbox[v]).kind = "leg_status"
             /\ Head(inbox[v]).a = Responsible(v)' /\ Head(inbox[v]).status = db'[v].peer
    <3>1. Head(inbox[v]) \in Messages /\ Backed(Peer(v), Head(inbox[v]))
      BY <2>2, HeadBacked
    <3>2. Head(inbox[v]) = m
      BY <1>1, <2>2, <3>1 DEF Messages
    <3> QED
      BY <1>3, <3>1, <3>2
  <2> QED
    BY <1>1, <1>4, <2>1, <2>2 DEF PeerNews
<1> QED
  BY <1>5, <1>6

\* A Worker finishes an attempt only when its peer is spent.
LEMMA FinishSpent ==
    ASSUME PairInv, NEW w \in Workers, Cur(w) \in Attempts, run[w].at \in {"final", "tail"}, CanFinalize(w)
    PROVE  Spent(Peer(w), Cur(w))
<1>1. /\ OwnInv /\ Known /\ PeerBacked /\ Own(w) /\ Local(w) /\ Cur(w) # NoAttempt /\ ~At(w, "leg") /\ ~At(w, "down")
      /\ db[w].peer \in PeerStatuses
  BY Setup DEF PairInv, Attempts, NoAttempt, At, Local, Rows
<1>2. db[w].row[Cur(w)] = "live" /\ leg[w].relayed = disk[w].relayed /\ disk[w].a = Cur(w)
  BY <1>1 DEF Own, RowsKept, LegKept, LegSame
<1>3. CASE db[w].peer \in TerminalStatuses
  <2> DEFINE m == Status(Cur(w), db[w].peer)
  <2>1. m \in Messages /\ m.kind = "leg_status" /\ m.a = Cur(w) /\ m.status = db[w].peer
    BY <1>1 DEF Status, Message, Messages, Kinds
  <2>2. Responsible(w) = Cur(w) /\ db[w].peer # "unknown"
    BY <1>1, <1>3 DEF Responsible, TerminalStatuses, NonSendStatuses
  <2> HIDE DEF m
  <2>3. Backed(Peer(w), m)
    BY <1>1, <2>1, <2>2 DEF PeerBacked
  <2> QED
    BY <1>3, <2>1, <2>3 DEF Backed
<1>4. CASE db[w].peer \notin TerminalStatuses
  <2>1. w = "leader" /\ ~disk[w].relayed /\ Peer(w) = "follower"
    BY <1>2, <1>4 DEF CanFinalize, PeerSendPossible, TerminalStatuses, Workers, Peer
  <2>2. ~Unsent(Cur(w))
    BY <1>2, <2>1 DEF Unsent
  <2>3. db["follower"].row[Cur(w)] = "none" /\ ~Under(Cur(w))
    BY <1>1, <1>2, <2>1 DEF Known, Terminal
  <2> QED
    BY <2>1, <2>2, <2>3 DEF Spent
<1> QED
  BY <1>3, <1>4

LEMMA ActsSpent ==
    ASSUME PairInv, OwnInv', NEW w \in Workers, Acts(w)
    PROVE  BothSpent'
<1>1. /\ OwnInv /\ Known /\ BothSpent /\ RowMoves(w) /\ Peer(w) \in Workers /\ Peer("leader") = "follower"
      /\ "leader" \in Workers /\ "follower" \in Workers
  BY PeerFacts DEF PairInv, Acts, Peer, Workers
<1>2. \A v \in Workers : v # w => db'[v] = db[v]
  BY <1>1, TouchFrame DEF Acts
<1>3. ASSUME NEW a \in Attempts, db[w].row[a] = "live", db'[w].row[a] = "both_empty"
      PROVE  Spent(Peer(w), a)'
  <2>1. a = Cur(w) /\ run[w].at \in {"final", "tail"} /\ CanFinalize(w)
    BY <1>1, <1>3 DEF RowMoves
  <2>2. Spent(Peer(w), a)
    BY <2>1, FinishSpent
  <2> QED
    BY <1>1, <2>2, SpentStays
<1>4. ASSUME NEW v \in Workers, NEW a \in Attempts, db'[v].row[a] = "both_empty"
      PROVE  Spent(Peer(v), a)'
  <2>1. CASE db[v].row[a] = "both_empty"
    <3>1. Spent(Peer(v), a) /\ Peer(v) \in Workers
      BY <1>1, <2>1, PeerFacts DEF BothSpent
    <3> QED
      BY <1>1, <3>1, SpentStays
  <2>2. CASE db[v].row[a] # "both_empty"
    <3>1. v = w /\ db[w].row[a] = "live"
      BY <1>1, <1>2, <1>4, <2>2 DEF RowMoves
    <3> QED
      BY <1>3, <1>4, <3>1
  <2> QED
    BY <2>1, <2>2
<1>5. ASSUME NEW a \in Attempts, Terminal(db'["leader"].row[a])
      PROVE  Spent("follower", a)'
  <2>1. CASE Terminal(db["leader"].row[a])
    <3>1. Spent("follower", a)
      BY <1>1, <2>1 DEF BothSpent
    <3> QED
      BY <1>1, <3>1, SpentStays
  <2>2. CASE ~Terminal(db["leader"].row[a])
    <3>1. w = "leader"
      BY <1>1, <1>2, <1>5, <2>2
    <3>2. CASE db[w].row[a] = "live" /\ db'[w].row[a] = "both_empty"
      BY <1>1, <1>3, <3>1, <3>2
    <3>3. CASE db[w].row[a] = "live" /\ At(w, "down") /\ disk[w].a # a
      <4>1. ~Unsent(a)
        BY <3>1, <3>3 DEF Unsent, At
      <4>2. db["follower"].row[a] = "none" /\ ~Under(a)
        BY <1>1, <2>2, <3>1, <3>3 DEF Known
      <4>3. Spent("follower", a)
        BY <4>1, <4>2 DEF Spent
      <4> QED
        BY <1>1, <4>3, SpentStays
    <3> QED
      BY <1>1, <1>5, <2>2, <3>1, <3>2, <3>3 DEF RowMoves, Terminal
  <2> QED
    BY <2>1, <2>2
<1> QED
  BY <1>4, <1>5 DEF BothSpent

LEMMA ActsConfirmed ==
    ASSUME PairInv, OwnInv', NEW w \in Workers, Acts(w)
    PROVE  ConfirmedBacked'
<1>1. /\ OwnInv /\ Known /\ BothSpent /\ ConfirmedBacked /\ PeerBacked /\ ConfirmNews(w)
  BY DEF PairInv, Acts
<1>2. SUFFICES ASSUME NEW v \in Workers, db'[v].confirmed
      PROVE  \E a \in Attempts : Holder(v)' = a /\ db'[v].row[a] = "live" /\ HadFilled(Peer(v), a)'
  BY DEF ConfirmedBacked
<1>3. Peer(v) \in Workers /\ \A a \in Attempts : HadFilled(Peer(v), a) => HadFilled(Peer(v), a)'
  BY <1>1, PeerFacts, FilledStays
<1>4. CASE w # v
  <2>1. db'[v] = db[v] /\ run'[v] = run[v] /\ mem'[v] = mem[v] /\ disk'[v] = disk[v]
    BY <1>1, <1>4, TouchFrame DEF Acts
  <2>2. Holder(v)' = Holder(v)
    BY <2>1 DEF Holder, Cur, At
  <2> QED
    BY <1>1, <1>2, <1>3, <2>1, <2>2 DEF ConfirmedBacked
<1>5. CASE w = v
  <2>1. ~At(v, "down")' => (Holder(v)' = Cur(v)' /\ \A a \in Attempts : Cur(v)' = a => db'[v].row[a] = "live")
    <3>1. Own(v)'
      BY DEF OwnInv
    <3> QED
      BY <3>1 DEF Holder, Own, RowsKept, Attempts, NoAttempt
  <2>2. CASE db[v].confirmed /\ Holder(v)' = Holder(v) /\ (At(v, "down")' => db' = db)
    <3>1. PICK a \in Attempts : Holder(v) = a /\ db[v].row[a] = "live" /\ HadFilled(Peer(v), a)
      BY <1>1, <2>2 DEF ConfirmedBacked
    <3>2. db'[v].row[a] = "live"
      BY <2>1, <2>2, <3>1
    <3> QED
      BY <1>3, <2>2, <3>1, <3>2
  <2>3. CASE /\ ~At(v, "down") /\ ~At(v, "down")' /\ Cur(v)' = Cur(v) /\ Cur(v) # NoAttempt
             /\ BothObserved(v) \/ Taking(v, "pair_entry_confirmed")
    <3>1. Cur(v) \in Attempts
      BY <1>1, <2>3 DEF OwnInv, TypeOK, Mems, Cur
    <3>2. HadFilled(Peer(v), Cur(v))
      <4>1. CASE BothObserved(v)
        <5> DEFINE m == Status(Cur(v), "filled")
        <5>1. m \in Messages /\ m.kind = "leg_status" /\ m.a = Cur(v) /\ m.status = "filled"
          BY <3>1 DEF Status, Message, Messages, Kinds, PeerStatuses, EntryStatuses
        <5>2. db[v].peer = "filled" /\ Responsible(v) = Cur(v)
          BY <2>3, <4>1 DEF BothObserved, Responsible
        <5> HIDE DEF m
        <5>3. Backed(Peer(v), m)
          BY <1>1, <5>1, <5>2 DEF PeerBacked
        <5> QED
          BY <5>1, <5>3 DEF Backed
      <4>2. CASE Taking(v, "pair_entry_confirmed")
        BY <4>2, HeadBacked DEF Taking, Backed
      <4> QED
        BY <2>3, <4>1, <4>2
    <3>3. PICK a \in Attempts : a = Cur(v)
      BY <3>1
    <3>4. HadFilled(Peer(v), a)' /\ Holder(v)' = a /\ db'[v].row[a] = "live"
      BY <1>3, <2>1, <2>3, <3>2, <3>3
    <3> QED
      BY <3>4
  <2> QED
    BY <1>1, <1>2, <1>5, <2>2, <2>3 DEF ConfirmNews
<1> QED
  BY <1>4, <1>5

LEMMA ActsActive ==
    ASSUME PairInv, OwnInv', NEW w \in Workers, Acts(w)
    PROVE  ActiveBacked'
<1>1. /\ OwnInv /\ Known /\ BothSpent /\ ActiveBacked /\ PeerBacked
      /\ RollbackNews(w) /\ RestNews(w) /\ ActiveNews(w)
  BY DEF PairInv, Acts
<1>2. SUFFICES ASSUME NEW v \in Workers
      PROVE  /\ RollingBack(v)' => \E a \in Attempts : Cur(v)' = a /\ FellBack(Peer(v), a)'
             /\ (Cur(v)' = NoAttempt \/ At(v, "leg")') => mem'[v].st # "ACTIVE"
             /\ \A a \in Attempts : (Responsible(v)' = a /\ disk'[v].a = a /\ Active(v)') =>
                  /\ disk'[v].prot # "rough"
                  /\ disk'[v].prot = "fallback" => FellBack(Peer(v), a)'
  BY DEF ActiveBacked
<1>3. Peer(v) \in Workers /\ \A a \in Attempts : FellBack(Peer(v), a) => FellBack(Peer(v), a)'
  BY <1>1, PeerFacts, FilledStays
<1>4. CASE w # v
  <2>1. db'[v] = db[v] /\ run'[v] = run[v] /\ mem'[v] = mem[v] /\ disk'[v] = disk[v]
    BY <1>1, <1>4, TouchFrame DEF Acts
  <2>2. /\ Responsible(v)' = Responsible(v) /\ (RollingBack(v)' <=> RollingBack(v)) /\ Cur(v)' = Cur(v)
        /\ (Active(v)' <=> Active(v)) /\ (At(v, "leg")' <=> At(v, "leg"))
    BY <2>1 DEF Responsible, Loaded, Cur, At, RollingBack, Active
  <2>3. RollingBack(v) => \E a \in Attempts : Cur(v) = a /\ FellBack(Peer(v), a)
    BY <1>1 DEF ActiveBacked
  <2>4. \A a \in Attempts : (Responsible(v) = a /\ disk[v].a = a /\ Active(v)) =>
                  /\ disk[v].prot # "rough"
                  /\ disk[v].prot = "fallback" => FellBack(Peer(v), a)
    BY <1>1 DEF ActiveBacked
  <2>5. (Cur(v) = NoAttempt \/ At(v, "leg")) => mem[v].st # "ACTIVE"
    BY <1>1 DEF ActiveBacked
  <2>6. RollingBack(v)' => \E a \in Attempts : Cur(v)' = a /\ FellBack(Peer(v), a)'
    BY <1>3, <2>2, <2>3
  <2>7. (Cur(v)' = NoAttempt \/ At(v, "leg")') => mem'[v].st # "ACTIVE"
    BY <2>1, <2>2, <2>5
  <2> QED
    BY <1>3, <2>1, <2>2, <2>4, <2>6, <2>7
<1>5. CASE w = v
  <2>1. RollingBack(v)' => \E a \in Attempts : Cur(v)' = a /\ FellBack(Peer(v), a)'
    <3>1. SUFFICES ASSUME RollingBack(v)'
          PROVE  \E a \in Attempts : Cur(v)' = a /\ FellBack(Peer(v), a)'
      OBVIOUS
    <3>2. \E a \in Attempts : Cur(v) = a /\ FellBack(Peer(v), a)
      <4>1. CASE RollingBack(v)
        BY <1>1, <4>1 DEF ActiveBacked
      <4>2. CASE Taking(v, "leg_status") /\ Head(inbox[v]).status = "protection_rough_fallback"
        <5>1. Head(inbox[v]) \in Messages /\ Backed(Peer(v), Head(inbox[v]))
          BY <4>2, HeadBacked DEF Taking
        <5>2. Cur(v) \in Attempts /\ FellBack(Peer(v), Cur(v))
          BY <4>2, <5>1 DEF Taking, Messages, Backed
        <5> QED
          BY <5>2
      <4> QED
        BY <1>1, <1>5, <3>1, <4>1, <4>2 DEF RollbackNews
    <3>3. Cur(v)' = Cur(v)
      BY <1>1, <1>5, <3>1 DEF RollbackNews
    <3> QED
      BY <1>3, <3>2, <3>3
  <2>2. (Cur(v)' = NoAttempt \/ At(v, "leg")') => mem'[v].st # "ACTIVE"
    BY <1>1, <1>5 DEF RestNews, ActiveBacked
  <2>3. ASSUME NEW a \in Attempts, Responsible(v)' = a, disk'[v].a = a, Active(v)'
        PROVE  /\ disk'[v].prot # "rough"
               /\ disk'[v].prot = "fallback" => FellBack(Peer(v), a)'
    <3>1. /\ Responsible(v) = a /\ disk[v].a = a
          /\ Active(v) \/ (Protected(v) /\ ~At(v, "down") /\ ~At(v, "leg") /\ disk' = disk)
          /\ disk[v].prot # "rough" => disk'[v].prot # "rough"
          /\ disk'[v].prot = "fallback" => disk[v].prot # "precise" \/ RollingBack(v)
      BY <1>1, <1>5, <2>3 DEF ActiveNews, Attempts, NoAttempt
    <3>2. disk[v].prot \in {"rough", "precise", "fallback"} /\ Own(v)
      BY <1>1 DEF OwnInv, TypeOK, Legs, Protections
    <3>3. CASE Active(v)
      <4>1. /\ disk[v].prot # "rough"
            /\ disk[v].prot = "fallback" => FellBack(Peer(v), a)
        BY <1>1, <3>1, <3>3 DEF ActiveBacked
      <4>2. RollingBack(v) => FellBack(Peer(v), a)
        <5>1. SUFFICES ASSUME RollingBack(v) PROVE FellBack(Peer(v), a)
          OBVIOUS
        <5>2. PICK b \in Attempts : Cur(v) = b /\ FellBack(Peer(v), b)
          BY <1>1, <5>1 DEF ActiveBacked
        <5>3. a = b
          BY <3>1, <5>1, <5>2 DEF Responsible, RollingBack, At
        <5> QED
          BY <5>2, <5>3
      <4> QED
        BY <1>3, <3>1, <3>2, <4>1, <4>2
    <3>4. CASE Protected(v) /\ ~At(v, "down") /\ ~At(v, "leg") /\ disk' = disk
      <4>1. Cur(v) = a /\ Cur(v) # NoAttempt
        BY <3>1, <3>4 DEF Responsible, Protected
      <4>2. leg[v].prot = disk[v].prot
        BY <3>2, <3>4, <4>1 DEF Own, LegKept, LegSame
      <4>3. \/ disk[v].prot = "precise"
            \/ disk[v].prot = "fallback" /\ db[v].peer = "protection_rough_fallback"
        BY <3>4, <4>2 DEF Protected, PeerAgrees
      <4>4. CASE disk[v].prot = "precise"
        BY <3>4, <4>4
      <4>5. CASE disk[v].prot = "fallback" /\ db[v].peer = "protection_rough_fallback"
        <5> DEFINE m == Status(a, "protection_rough_fallback")
        <5>1. m \in Messages /\ m.kind = "leg_status" /\ m.a = a /\ m.status = "protection_rough_fallback"
          BY DEF Status, Message, Messages, Kinds, PeerStatuses
        <5> HIDE DEF m
        <5>2. Backed(Peer(v), m)
          BY <1>1, <3>1, <4>5, <5>1 DEF PeerBacked
        <5>3. FellBack(Peer(v), a)
          BY <5>1, <5>2 DEF Backed
        <5> QED
          BY <1>3, <3>4, <4>5, <5>3
      <4> QED
        BY <4>3, <4>4, <4>5
    <3> QED
      BY <3>1, <3>3, <3>4
  <2> QED
    BY <2>1, <2>2, <2>3
<1> QED
  BY <1>4, <1>5

LEMMA ActsInv ==
    ASSUME PairInv, OwnInv', NEW w \in Workers, Acts(w)
    PROVE  PairInv'
  BY ActsInbox, ActsOrdered, ActsKnown, ActsPeer, ActsSpent, ActsConfirmed, ActsActive DEF PairInv

-----------------------------------------------------------------------------
(* The relay and the broker keep it too                                     *)

\* What is under way was under way; only an attempt that waits in the outbox
\* could be overtaken by a proof request, and that is what MayPass excludes.
LEMMA RelayOrder ==
    ASSUME OwnInv, NEW w \in Workers, Lose(w) \/ Duplicate(w) \/ Overtake(w),
           NEW i \in DOMAIN inbox'[w], NEW j \in DOMAIN inbox'[w], i < j,
           inbox'[w][i].kind = "leg_status_request", inbox'[w][j].kind = "attempt"
    PROVE  \E k, l \in DOMAIN inbox[w] : k < l /\ inbox'[w][i] = inbox[w][k] /\ inbox'[w][j] = inbox[w][l]
<1> DEFINE q == inbox[w]
           r == inbox'[w]
<1>1. inbox \in [Workers -> Seq(Messages)] /\ q \in Seq(Messages) /\ r \in Seq(Messages)
      /\ i \in 1 .. Len(r) /\ j \in 1 .. Len(r) /\ Len(r) \in Nat /\ Len(q) \in Nat
  BY RelaySteps DEF OwnInv, TypeOK
<1>2. ASSUME NEW k \in 1 .. Len(q), NEW l \in 1 .. Len(q), k < l, r[i] = q[k], r[j] = q[l]
      PROVE  \E x, y \in DOMAIN q : x < y /\ r[i] = q[x] /\ r[j] = q[y]
  BY <1>1, <1>2
<1>3. CASE Lose(w)
  <2>1. q # <<>> /\ r = Tail(q)
    BY <1>1, <1>3 DEF Lose
  <2>2. Len(r) = Len(q) - 1 /\ \A n \in 1 .. Len(r) : r[n] = q[n + 1]
    BY <1>1, <2>1, TailFacts
  <2> HIDE DEF q, r
  <2>3. i + 1 \in 1 .. Len(q) /\ j + 1 \in 1 .. Len(q) /\ i + 1 < j + 1 /\ r[i] = q[i + 1] /\ r[j] = q[j + 1]
    BY <1>1, <2>2
  <2> QED
    BY <1>2, <2>3 DEF q, r
<1>4. CASE Duplicate(w)
  <2>1. q # <<>> /\ r = <<Head(q)>> \o q
    BY <1>1, <1>4 DEF Duplicate
  <2>2. Head(q) = q[1] /\ q[1] \in Messages /\ Len(q) > 0
    BY <1>1, <2>1, TailFacts
  <2>3. r[i].kind = "leg_status_request" /\ r[j].kind = "attempt"
    OBVIOUS
  <2> HIDE DEF q, r
  <2>4. Len(r) = Len(q) + 1 /\ \A n \in 1 .. Len(r) : r[n] = IF n = 1 THEN q[1] ELSE q[n - 1]
    BY <1>1, <2>1, <2>2
  <2>5. j - 1 \in 1 .. Len(q) /\ r[j] = q[j - 1] /\ 1 \in 1 .. Len(q)
    BY <1>1, <2>2, <2>4
  <2>6. CASE i = 1
    <3>1. r[i] = q[1] /\ j - 1 # 1
      BY <1>1, <2>3, <2>4, <2>5, <2>6
    <3>2. 1 < j - 1
      BY <1>1, <2>5, <3>1
    <3> QED
      BY <1>2, <2>5, <3>1, <3>2 DEF q, r
  <2>7. CASE i # 1
    <3>1. i - 1 \in 1 .. Len(q) /\ r[i] = q[i - 1] /\ i - 1 < j - 1
      BY <1>1, <2>4, <2>7
    <3> QED
      BY <1>2, <2>5, <3>1 DEF q, r
  <2> QED
    BY <2>6, <2>7
<1>5. CASE Overtake(w)
  <2>1. Len(q) > 1 /\ r = <<q[2], q[1]>> \o SubSeq(q, 3, Len(q)) /\ MayPass(q[2], q[1])
    BY <1>1, <1>5 DEF Overtake
  <2>2. r[i].kind = "leg_status_request" /\ r[j].kind = "attempt"
    OBVIOUS
  <2> HIDE DEF q, r
  <2>3. q[1] \in Messages /\ q[2] \in Messages /\ <<q[2], q[1]>> \in Seq(Messages)
    BY <1>1, <2>1
  <2>4. /\ SubSeq(q, 3, Len(q)) \in Seq(Messages) /\ Len(SubSeq(q, 3, Len(q))) = Len(q) - 2
        /\ \A n \in 1 .. Len(q) - 2 : SubSeq(q, 3, Len(q))[n] = q[n + 2]
    BY <1>1, <2>1, <2>3, SubSeqProperties
  <2>5. /\ Len(r) = Len(q)
        /\ \A n \in 1 .. Len(r) : r[n] = IF n <= 2 THEN <<q[2], q[1]>>[n] ELSE SubSeq(q, 3, Len(q))[n - 2]
    BY <1>1, <2>1, <2>3, <2>4
  <2>6. \A n \in 1 .. Len(r) : n > 2 => n - 2 \in 1 .. Len(q) - 2 /\ n - 2 + 2 = n
    BY <1>1, <2>5
  <2>7. \A n \in 1 .. Len(r) : n > 2 => r[n] = q[n]
    BY <2>4, <2>5, <2>6
  <2>8. r[1] = q[2] /\ r[2] = q[1] /\ 1 \in 1 .. Len(q) /\ 2 \in 1 .. Len(q)
    BY <1>1, <2>1, <2>5
  <2>9. j # 2
    <3>1. SUFFICES ASSUME j = 2 PROVE FALSE
      OBVIOUS
    <3>2. i = 1
      BY <1>1, <3>1
    <3> QED
      BY <2>1, <2>2, <2>8, <3>1, <3>2 DEF MayPass
  <2>10. j > 2 /\ j \in 1 .. Len(q) /\ r[j] = q[j]
    BY <1>1, <2>5, <2>7, <2>9
  <2>11. \E k \in 1 .. Len(q) : k < j /\ r[i] = q[k]
    <3>1. i = 1 \/ i = 2 \/ i > 2
      BY <1>1
    <3>2. CASE i > 2
      BY <1>1, <2>5, <2>7, <3>2
    <3> QED
      BY <2>8, <2>10, <3>1, <3>2
  <2> QED
    BY <1>2, <2>10, <2>11 DEF q, r
<1> QED
  BY <1>3, <1>4, <1>5

\* No cell moves and nothing new is under way: what was backed stays backed,
\* and an attempt that was lost is one the follower will never hear of.
LEMMA QuieterInv ==
    ASSUME PairInv, OwnInv', Ordered', UNCHANGED <<run, mem, leg, disk, db>>,
           \A v \in Workers : \A i \in DOMAIN inbox'[v] : \E k \in DOMAIN inbox[v] : inbox'[v][i] = inbox[v][k]
    PROVE  PairInv'
<1>1. run' = run /\ mem' = mem /\ leg' = leg /\ disk' = disk /\ db' = db
  OBVIOUS
<1>2. ASSUME NEW a \in Attempts
      PROVE  /\ Unsent(a)' <=> Unsent(a)
             /\ Under(a)' => Under(a)
  <2>1. Unsent(a)' <=> Unsent(a)
    BY <1>1 DEF Unsent, Cur
  <2>2. Under(a)' => Under(a)
    BY DEF Under, Workers
  <2> QED
    BY <2>1, <2>2
<1>3. ASSUME NEW v \in Workers, NEW m \in Messages
      PROVE  Carries(v, m)' => Carries(v, m)
  BY DEF Carries
<1>4. ASSUME NEW v \in Workers, NEW a \in Attempts
      PROVE  /\ Spent(v, a) => Spent(v, a)'
             /\ HadFilled(v, a) => HadFilled(v, a)'
             /\ FellBack(v, a) => FellBack(v, a)'
  <2>1. Spent(v, a) => Spent(v, a)'
    BY <1>1, <1>2 DEF Spent, Cur, At
  <2>2. HadFilled(v, a) => HadFilled(v, a)'
    BY <1>1 DEF HadFilled, FilledOnRecord, Over
  <2>3. FellBack(v, a) => FellBack(v, a)'
    BY <1>1 DEF FellBack, Over
  <2> QED
    BY <2>1, <2>2, <2>3
<1>5. \A v \in Workers : Peer(v) \in Workers
  BY DEF Peer, Workers
<1>6. ASSUME NEW v \in Workers, NEW m \in Messages, Backed(v, m)
      PROVE  Backed(v, m)'
  <2>1. m.a \in Attempts
    BY DEF Messages
  <2> QED
    BY <1>2, <1>4, <1>6, <2>1 DEF Backed
<1>7. InboxBacked'
  BY <1>3, <1>5, <1>6 DEF PairInv, InboxBacked
<1>8. Known'
  BY <1>1, <1>2 DEF PairInv, Known
<1>9. PeerBacked'
  BY <1>1, <1>5, <1>6 DEF PairInv, PeerBacked, Responsible, Loaded, At, Cur
<1>10. BothSpent'
  <2>1. "follower" \in Workers
    BY DEF Workers
  <2> QED
    BY <1>1, <1>4, <1>5, <2>1 DEF PairInv, BothSpent
<1>11. ConfirmedBacked'
  BY <1>1, <1>4, <1>5 DEF PairInv, ConfirmedBacked, Holder, At, Cur
<1>12. ActiveBacked'
  BY <1>1, <1>4, <1>5 DEF PairInv, ActiveBacked, RollingBack, Active, Responsible, Loaded, At, Cur
<1> QED
  BY <1>7, <1>8, <1>9, <1>10, <1>11, <1>12 DEF PairInv

\* An envelope is lost, sent again or overtaken.
LEMMA RelayInv ==
    ASSUME PairInv, NEW w \in Workers, Lose(w) \/ Duplicate(w) \/ Overtake(w)
    PROVE  PairInv'
<1>1. OwnInv /\ Ordered
  BY DEF PairInv
<1>2. /\ OwnInv' /\ UNCHANGED <<run, mem, leg, disk, db>>
      /\ \A v \in Workers : v # w => inbox'[v] = inbox[v]
      /\ \A i \in DOMAIN inbox'[w] : \E k \in DOMAIN inbox[w] : inbox'[w][i] = inbox[w][k]
  BY <1>1, RelaySteps
<1>3. \A v \in Workers : \A i \in DOMAIN inbox'[v] : \E k \in DOMAIN inbox[v] : inbox'[v][i] = inbox[v][k]
  BY <1>2
<1>4. Ordered'
  <2>1. CASE w = "follower"
    <3>1. SUFFICES ASSUME NEW i \in DOMAIN inbox'["follower"], NEW j \in DOMAIN inbox'["follower"], i < j,
                          inbox'["follower"][i].kind = "leg_status_request",
                          inbox'["follower"][j].kind = "attempt"
                   PROVE  inbox'["follower"][i].a # inbox'["follower"][j].a
      BY DEF Ordered
    <3>2. \E k, l \in DOMAIN inbox[w] : k < l /\ inbox'[w][i] = inbox[w][k] /\ inbox'[w][j] = inbox[w][l]
      BY <1>1, <2>1, <3>1, RelayOrder
    <3> QED
      BY <1>1, <2>1, <3>1, <3>2 DEF Ordered
  <2>2. CASE w # "follower"
    BY <1>1, <1>2, <2>2 DEF Ordered, Workers
  <2> QED
    BY <2>1, <2>2
<1> QED
  BY <1>2, <1>3, <1>4, QuieterInv

\* An account changes by itself, or nothing does.
LEMMA StillInv ==
    ASSUME PairInv, OwnInv', UNCHANGED <<run, mem, leg, disk, db, inbox>>
    PROVE  PairInv'
<1>1. inbox' = inbox
  OBVIOUS
<1>2. Ordered'
  BY <1>1 DEF PairInv, Ordered
<1> QED
  BY <1>1, <1>2, QuieterInv

LEMMA InitPair ==
    ASSUME Init
    PROVE  PairInv
<1>1. OwnInv
  BY InitOwn
<1>2. /\ inbox["leader"] = <<>> /\ inbox["follower"] = <<>>
      /\ \A w \in Workers : run[w] = Thread("idle") /\ mem[w] = FreshMem /\ disk[w] = NoLeg /\ db[w] = NoRows
      /\ "leader" \in Workers /\ "follower" \in Workers
  BY DEF Init, Workers
<1>3. /\ Thread("idle").at = "idle" /\ FreshMem.cur = NoAttempt /\ FreshMem.st = "IDLE"
      /\ ~NoRows.confirmed /\ ~NoRows.active /\ NoRows.peer = "unknown"
      /\ \A a \in Attempts : NoRows.row[a] = "none"
  BY DEF Thread, FreshMem, NoRows, NoEntry
<1>4. /\ \A w \in Workers, m \in Messages : ~Carries(w, m)
      /\ \A a \in Attempts : ~Under(a)
  BY <1>2 DEF Carries, Under, Workers
<1>5. InboxBacked /\ Ordered
  BY <1>2, <1>4 DEF InboxBacked, Ordered
<1>6. Known
  BY <1>2, <1>3, <1>4 DEF Known
<1>7. PeerBacked
  BY <1>2, <1>3 DEF PeerBacked
<1>8. BothSpent /\ ConfirmedBacked
  BY <1>2, <1>3 DEF BothSpent, ConfirmedBacked, Terminal
<1>9. ActiveBacked
  BY <1>2, <1>3 DEF ActiveBacked, RollingBack, Active
<1> QED
  BY <1>1, <1>5, <1>6, <1>7, <1>8, <1>9 DEF PairInv

LEMMA StepPair ==
    ASSUME PairInv, Next
    PROVE  PairInv'
<1>1. OwnInv
  BY DEF PairInv
<1>2. OwnInv'
  BY <1>1, StepKinds, StepOwn
<1>3. PICK w \in Workers :
        \/ ThreadStep(w) \/ LocalEvent(w) \/ Envelope(w)
        \/ Lose(w) \/ Duplicate(w) \/ Overtake(w) \/ Crash(w) \/ Restart(w)
        \/ \E a \in Attempts : BrokerFills(w, a) \/ BrokerEnds(w, a)
  BY DEF Next
<1>4. CASE ThreadStep(w) \/ LocalEvent(w) \/ Envelope(w) \/ Crash(w) \/ Restart(w)
  <2>1. Acts(w)
    BY <1>1, <1>4, StepActs
  <2> QED
    BY <1>2, <2>1, ActsInv
<1>5. CASE Lose(w) \/ Duplicate(w) \/ Overtake(w)
  BY <1>5, RelayInv
<1>6. CASE \E a \in Attempts : BrokerFills(w, a) \/ BrokerEnds(w, a)
  <2>1. PICK a \in Attempts : BrokerFills(w, a) \/ BrokerEnds(w, a)
    BY <1>6
  <2>2. UNCHANGED <<run, mem, leg, disk, db, inbox>>
    BY <1>1, <2>1, BrokerSteps
  <2> QED
    BY <1>2, <2>2, StillInv
<1> QED
  BY <1>3, <1>4, <1>5, <1>6

-----------------------------------------------------------------------------
(* Results                                                                  *)

\* What one cell has on record or in its inbox about the other was true when it
\* was sent and can no longer become false, whatever is lost, repeated or
\* overtaken and however often either cell crashes (_apply_peer_leg_status and
\* the handlers of the pair envelopes act on such words without asking again).
THEOREM PairInvariant == Spec => []PairInv
<1>1. Init => PairInv
  BY InitPair
<1>2. PairInv /\ [Next]_vars => PairInv'
  <2>1. ASSUME PairInv, UNCHANGED vars PROVE PairInv'
    <3>1. OwnInv /\ OwnInv'
      BY <2>1, StutterOwn DEF PairInv
    <3>2. UNCHANGED <<run, mem, leg, disk, db, inbox>>
      BY <2>1 DEF vars
    <3> QED
      BY <2>1, <3>1, <3>2, StillInv
  <2> QED
    BY <2>1, StepPair
<1> QED
  BY <1>1, <1>2, PTL DEF Spec

\* A confirmed cell's peer has the filled leg on record or has finished the
\* attempt: neither the leader's emit of pair_entry_confirmed nor the
\* follower's acceptance of it can rest on a leg that did not fill.
THEOREM ConfirmedFilled == Spec => []ConfirmedMeansFilled
<1>1. PairInv => ConfirmedMeansFilled
  <2>1. SUFFICES ASSUME PairInv, NEW w \in Workers, db[w].confirmed
                 PROVE  FilledOnRecord(Peer(w), Holder(w)) \/ Terminal(db[Peer(w)].row[Holder(w)])
    BY DEF ConfirmedMeansFilled, Holder
  <2>2. PICK a \in Attempts : Holder(w) = a /\ db[w].row[a] = "live" /\ HadFilled(Peer(w), a)
    BY <2>1 DEF PairInv, ConfirmedBacked
  <2>3. Peer(w) = "follower" => w = "leader"
    BY DEF Peer, Workers
  <2>4. ~(Peer(w) = "follower" /\ Terminal(db["leader"].row[a]))
    BY <2>2, <2>3 DEF Terminal
  <2> QED
    BY <2>2, <2>4 DEF HadFilled, Over
<1> QED
  BY <1>1, PairInvariant, PTL

\* Two ACTIVE cells of one attempt hold the same kind of protection: a cell
\* declares the pair ACTIVE only with a box whose mirror the peer holds, and a
\* peer that rolled back to its rough stops takes the cell back with it.
THEOREM ActiveMatch == Spec => []ActiveLegsMatch
<1>1. PairInv => ActiveLegsMatch
  <2>1. SUFFICES ASSUME PairInv, \A w \in Workers : Cur(w) # NoAttempt /\ mem[w].st = "ACTIVE",
                        Cur("leader") = Cur("follower")
                 PROVE  leg["leader"].prot = leg["follower"].prot
    BY DEF ActiveLegsMatch
  <2> DEFINE a == Cur("leader")
  <2>2. OwnInv /\ TypeOK /\ "leader" \in Workers /\ "follower" \in Workers
    BY <2>1 DEF PairInv, OwnInv, Workers
  <2>3. a \in Attempts
    BY <2>1, <2>2 DEF TypeOK, Mems, Cur
  <2>4. ASSUME NEW w \in Workers
        PROVE  /\ Cur(w) = a /\ ~At(w, "leg") /\ ~At(w, "down")
               /\ disk[w].a = a /\ leg[w].prot = disk[w].prot
               /\ db[w].row[a] = "live" /\ Responsible(w) = a
               /\ disk[w].prot \in {"precise", "fallback"}
               /\ disk[w].prot = "fallback" => FellBack(Peer(w), a)
    <3>1. Cur(w) = a /\ Cur(w) # NoAttempt /\ Own(w)
      BY <2>1, <2>2 DEF Workers, OwnInv
    <3>2. ~At(w, "leg")
      BY <2>1 DEF PairInv, ActiveBacked
    <3>3. ~At(w, "down") /\ Responsible(w) = a
      BY <3>1 DEF Own, Control, Responsible
    <3>4. disk[w].a = a /\ leg[w].prot = disk[w].prot /\ db[w].row[a] = "live"
      BY <3>1, <3>2 DEF Own, LegKept, LegSame, RowsKept
    <3>5. disk[w].prot \in Protections
      BY <2>2 DEF TypeOK, Legs
    <3>6. Active(w)
      BY <2>1 DEF Active
    <3>7. disk[w].prot # "rough" /\ (disk[w].prot = "fallback" => FellBack(Peer(w), a))
      BY <2>1, <2>3, <3>3, <3>4, <3>6 DEF PairInv, ActiveBacked
    <3> QED
      BY <3>1, <3>2, <3>3, <3>4, <3>5, <3>7 DEF Protections
  <2>5. ~Over("leader", a) /\ ~Over("follower", a)
    BY <2>2, <2>4 DEF Over, Terminal
  <2>6. disk["leader"].prot = "fallback" <=> disk["follower"].prot = "fallback"
    BY <2>2, <2>4, <2>5 DEF FellBack, Peer
  <2> QED
    BY <2>2, <2>4, <2>6
<1> QED
  BY <1>1, PairInvariant, PTL

(* Once a cell has finished an attempt as empty on both sides, its peer has   *)
(* no entry of it ready to send: the half of PairTerminal that the journal    *)
(* keeps, whatever the accounts do.                                           *)
NoEntryAfterEnd ==
    \A w \in Workers, a \in Attempts :
        db[w].row[a] = "both_empty" => jr[Peer(w)][a]["entry"] # "prepared"

\* No cell of the pair can still send the entry of an attempt its peer finished
\* as empty (_finalize_empty), after any loss, repeat or restart.
THEOREM NothingToSend == Spec => []NoEntryAfterEnd
<1>1. PairInv => NoEntryAfterEnd
  <2>1. SUFFICES ASSUME PairInv, NEW w \in Workers, NEW a \in Attempts, db[w].row[a] = "both_empty",
                        jr[Peer(w)][a]["entry"] = "prepared"
                 PROVE  FALSE
    BY DEF NoEntryAfterEnd
  <2> DEFINE v == Peer(w)
  <2>2. v \in Workers /\ Spent(v, a) /\ OwnInv
    BY <2>1 DEF PairInv, BothSpent, Peer, Workers
  <2>3. Own(v)
    BY <2>2 DEF OwnInv
  <2>4. db[v].row[a] = "live" /\ disk[v].a = a /\ disk[v].entry = "pending" /\ ~disk[v].empty
    BY <2>1, <2>3 DEF Own, EntryKept
  <2> QED
    BY <2>2, <2>4 DEF Spent, Terminal
<1> QED
  BY <1>1, PairInvariant, PTL
====
