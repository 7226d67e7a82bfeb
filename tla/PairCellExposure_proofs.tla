----------------------- MODULE PairCellExposure_proofs -----------------------
(***************************************************************************)
(* What the two accounts of a route hold, where MT5 executes or refuses a  *)
(* market order at once and closes a position at once (Fills = {}): the    *)
(* runs show that a resting or partly filled order defeats these results.  *)
(* For any number of attempts, any loss, repeat and overtaking and any     *)
(* crashes: a cell never forgets a position of its own, an attempt is      *)
(* finished as empty only when both accounts are flat, and the leader does *)
(* not enter again before that.                                            *)
(***************************************************************************)
EXTENDS PairCellPair_proofs

USE BoundsAssumption

-----------------------------------------------------------------------------
(* The inductive invariant of the accounts                                  *)

\* What an account holds of an attempt when every order executes at once.
AtOnce == {"none", "rough", "precise"}

\* The leg on record has been given up as never sent.
NotSent == {"rejected", "expired_not_started"}

\* A position of attempt a is on record: the cell is at work on a and has its
\* leg, or is down and will load both; the leg is neither empty nor given up;
\* and if it is still pending, the journal knows that the send may have begun.
Remembers(w, a) ==
    /\ db[w].row[a] = "live" /\ db[w].last = a
    /\ disk[w].a = a /\ ~disk[w].empty /\ disk[w].entry \notin NotSent
    /\ disk[w].entry = "pending" => jr[w][a]["entry"] \notin {"none", "prepared"}
    /\ At(w, "down") \/ (Cur(w) = a /\ ~At(w, "leg"))
Remembered(w) ==
    \A a \in Attempts : brk[w][a] \in AtOnce /\ (Exposed(w, a) => Remembers(w, a))

\* An entry that MT5 refused, or was never asked, left nothing behind.
Refused(w) == Done(w, "entry", {"failure", "refused"}) => ~Exposed(w, Cur(w))

\* The thread has read the positions and has still to act on them.
Looking(w) == run[w].at \in {"observe", "ticket", "advance"} \/ (At(w, "read") /\ run[w].first = "positions")

\* A position it did not see is not there.
SeenAll(w) ==
    Looking(w) => \A a \in Attempts : run[w].pos[a] \in AtOnce /\ (run[w].pos[a] = "none" => ~Exposed(w, a))

Account(w) == Remembered(w) /\ Refused(w) /\ SeenAll(w)
ExposureInv == PairInv /\ \A w \in Workers : Account(w)

-----------------------------------------------------------------------------
(* What a step looks at                                                     *)

Looks(w) ==
    Looking(w)' => \/ Looking(w) /\ run'[w].pos = run[w].pos
                   \/ run'[w].pos = SeenPositions(w)

\* A read of the positions misses none.
LEMMA SeenFacts ==
    ASSUME NEW w \in Workers, Remembered(w), NEW a \in Attempts
    PROVE  SeenPositions(w)[a] \in AtOnce /\ (SeenPositions(w)[a] = "none" => ~Exposed(w, a))
  BY DEF Remembered, SeenPositions, Exposed, Exposure, Positions, AtOnce

\* The ways the thread of a cell goes on.
Onward(w) ==
    \/ \E s \in Rets \cup {"create", "protect", "wrap", "stopped"} : Resume(w, s) \/ FinalThen(w, s)
    \/ \E s \in {"idle", "stops"} : Begin(w, Thread(s))
    \/ \E r \in Rets : ReadThen(w, r)
    \/ run[w].at \in {"observe", "ticket"} /\ (AfterEntryRead(w) \/ AfterTicket(w))

LEMMA ResumeLands ==
    ASSUME OwnInv, NEW w \in Workers,
           NEW s \in Rets \cup {"create", "protect", "wrap", "stopped"}, Resume(w, s)
    PROVE  ~Looking(w)'
<1> DEFINE x == From(w, s)'
<1>1. run \in [Workers -> Threads] /\ run[w] \in Threads
  BY DEF OwnInv, TypeOK
<1>2. x \in Landings
  BY DEF From, FromGate, FromCreate, FromConfirm, FromProtect, FromConverge, FromTail, FromWrap,
         Landings, Rets
<1>3. CASE s \in {"settle", "stops"}
  <2>1. run'[w] = [run[w] EXCEPT !.at = s]
    BY <1>1, <1>3 DEF Resume, Goto
  <2>2. run'[w].at = s
    BY <1>1, <2>1 DEF Threads
  <2> QED
    BY <1>3, <2>2 DEF Looking, At
<1>4. CASE s \notin {"settle", "stops"}
  <2>1. run'[w] = Thread(x)
    BY <1>1, <1>4 DEF Resume, Begin
  <2>2. run'[w].at = x
    BY <2>1 DEF Thread
  <2> HIDE DEF x
  <2> QED
    BY <1>2, <2>2 DEF Looking, At, Landings, Rets
<1> QED
  BY <1>3, <1>4

LEMMA OnwardLooks ==
    ASSUME OwnInv, NEW w \in Workers, Onward(w)
    PROVE  Looks(w)
<1>1. run \in [Workers -> Threads] /\ run[w] \in Threads
  BY DEF OwnInv, TypeOK
<1>2. ASSUME NEW s \in Rets \cup {"create", "protect", "wrap", "stopped"}, Resume(w, s) \/ FinalThen(w, s)
      PROVE  Looks(w)
  <2>1. CASE Resume(w, s)
    BY <2>1, ResumeLands DEF Looks
  <2>2. CASE run' = [run EXCEPT ![w] = [run[w] EXCEPT !.at = "final", !.then = s]]
    <3>1. run'[w].at = "final"
      BY <1>1, <2>2 DEF Threads
    <3> QED
      BY <3>1 DEF Looks, Looking, At
  <2> QED
    BY <1>2, <2>1, <2>2 DEF FinalThen, Begin
<1>3. ASSUME NEW s \in {"idle", "stops"}, Begin(w, Thread(s)) PROVE Looks(w)
  <2>1. run'[w].at = s
    BY <1>1, <1>3 DEF Begin, Thread
  <2> QED
    BY <2>1 DEF Looks, Looking, At
<1>4. ASSUME NEW r \in Rets, ReadThen(w, r) PROVE Looks(w)
  <2>1. run'[w] = Read(w, run[w], r)
    BY <1>1, <1>4 DEF ReadThen, Begin
  <2>2. run'[w].pos = SeenPositions(w)
    BY <1>1, <2>1 DEF Read, Threads
  <2> QED
    BY <2>2 DEF Looks
<1>5. ASSUME NEW s \in {"ticket", "advance"}, Goto(w, s), run[w].at \in {"observe", "ticket"} PROVE Looks(w)
  <2>1. run'[w] = [run[w] EXCEPT !.at = s]
    BY <1>1, <1>5 DEF Goto
  <2>2. run'[w].pos = run[w].pos
    BY <1>1, <2>1 DEF Threads
  <2> QED
    BY <1>5, <2>2 DEF Looks, Looking
<1>6. run[w].ret \in Rets
  BY Setup DEF Own, Control
<1>7. (AfterEntryRead(w) \/ AfterTicket(w)) =>
        Goto(w, "ticket") \/ Goto(w, "advance") \/ Resume(w, run[w].ret)
  BY DEF AfterEntryRead, AfterTicket
<1> QED
  BY <1>2, <1>3, <1>4, <1>5, <1>6, <1>7 DEF Onward

\* A leg is given up only on a read that shows nothing of it, or on a refusal.
GivesUp(w) ==
    /\ disk'[w].empty => disk[w].empty \/ VerifiedEmpty(w)
    /\ disk'[w].entry \in NotSent => disk[w].entry \in NotSent \/ EntryAbsent(w) \/ EntryRejected(w)

Careful(w) == Looks(w) /\ GivesUp(w)

\* Most steps leave the leg alone.
LEMMA StillCareful ==
    ASSUME OwnInv, NEW w \in Workers,
           \/ NoCandidate(w) \/ ReadFails(w) \/ EntryAmbiguous(w) \/ TicketGone(w)
           \/ ContainmentAccepted(w) \/ ContainmentDeferred(w) \/ ContainmentUncertain(w)
           \/ HeldWhileStopped(w) \/ Unattributed(w) \/ StillEmpty(w) \/ ContainmentDone(w)
           \/ SettledAbsent(w) \/ SettledPresent(w) \/ StopResolved(w) \/ StopOutdated(w) \/ StopKept(w)
           \/ GateStopped(w) \/ ExitPolicy(w) \/ ConfirmationTimeout(w) \/ GatePass(w)
           \/ EmitConfirmation(w) \/ PeerInconsistent(w) \/ RollbackReported(w) \/ RollbackFailed(w)
           \/ Converge(w) \/ DeclareActive(w) \/ AwaitProof(w) \/ ProbePeer(w) \/ EscalateSilence(w)
    PROVE  Careful(w)
<1>1. disk' = disk
  BY DEF NoCandidate, ReadFails, EntryAmbiguous, TicketGone, ContainmentAccepted, ContainmentDeferred,
         ContainmentUncertain, HeldWhileStopped, Unattributed, StillEmpty, ContainmentDone,
         SettledAbsent, SettledPresent, StopResolved, StopOutdated, StopKept, GateStopped, ExitPolicy,
         ConfirmationTimeout, GatePass, EmitConfirmation, PeerInconsistent, RollbackReported,
         RollbackFailed, Converge, DeclareActive, AwaitProof, ProbePeer, EscalateSilence
<1>2. /\ run[w].ret \in Rets
      /\ {"gate", "confirm", "create", "protect", "tail", "stopped"}
            \subseteq Rets \cup {"create", "protect", "wrap", "stopped"}
      /\ Rets \subseteq Rets \cup {"create", "protect", "wrap", "stopped"}
      /\ "gate" \in Rets /\ "tail" \in Rets
  BY Setup DEF Own, Control, Rets
<1>3. CASE \/ NoCandidate(w) \/ ReadFails(w) \/ ContainmentAccepted(w) \/ ContainmentUncertain(w)
           \/ HeldWhileStopped(w) \/ Unattributed(w) \/ StillEmpty(w)
           \/ SettledAbsent(w) \/ SettledPresent(w) \/ StopResolved(w) \/ StopOutdated(w) \/ StopKept(w)
           \/ ExitPolicy(w) \/ ConfirmationTimeout(w) \/ GatePass(w)
           \/ EmitConfirmation(w) \/ PeerInconsistent(w) \/ RollbackReported(w) \/ RollbackFailed(w)
  <2>1. \/ Resume(w, "confirm") \/ Resume(w, "gate") \/ Resume(w, "create") \/ Resume(w, "protect")
        \/ Resume(w, run[w].ret)
    BY <1>3 DEF NoCandidate, ReadFails, ContainmentAccepted, ContainmentUncertain, HeldWhileStopped,
                Unattributed, StillEmpty, SettledAbsent, SettledPresent, StopResolved, StopOutdated,
                StopKept, ExitPolicy, ConfirmationTimeout, GatePass, EmitConfirmation,
                PeerInconsistent, RollbackReported, RollbackFailed
  <2>2. Onward(w)
    BY <1>2, <2>1 DEF Onward
  <2> QED
    BY <1>1, <2>2, OnwardLooks DEF Careful, GivesUp
<1>4. CASE \/ ContainmentDeferred(w) \/ ContainmentDone(w) \/ GateStopped(w) \/ Converge(w)
           \/ DeclareActive(w) \/ AwaitProof(w) \/ ProbePeer(w) \/ EscalateSilence(w)
  <2>1. \/ Resume(w, run[w].ret) \/ ReadThen(w, run[w].ret) \/ FinalThen(w, "stopped")
        \/ Resume(w, "tail") \/ ReadThen(w, "tail") \/ Begin(w, Thread("idle"))
    BY <1>4 DEF ContainmentDeferred, ContainmentDone, GateStopped, Converge, DeclareActive,
                AwaitProof, ProbePeer, EscalateSilence
  <2>2. Onward(w)
    BY <1>2, <2>1 DEF Onward
  <2> QED
    BY <1>1, <2>2, OnwardLooks DEF Careful, GivesUp
<1>5. CASE EntryAmbiguous(w) \/ TicketGone(w)
  <2>1. Onward(w)
    BY <1>5 DEF EntryAmbiguous, TicketGone, Onward, At
  <2> QED
    BY <1>1, <2>1, OnwardLooks DEF Careful, GivesUp
<1> QED
  BY <1>3, <1>4, <1>5

LEMMA EventCareful ==
    ASSUME OwnInv, NEW w \in Workers,
           \/ Tick(w) \/ HearPeer(w) \/ SessionLost(w) \/ SessionUp(w) \/ RequestClose(w)
           \/ ReplayAttempt(w) \/ HandleLegStatusRequest(w) \/ LateLegStatus(w)
           \/ UnsolicitedNoRecord(w) \/ PeerFailed(w) \/ PeerProgress(w)
           \/ ConfirmationAccepted(w) \/ ConfirmationLate(w) \/ ConfirmationIgnored(w)
           \/ HandlePairEntryFailed(w)
    PROVE  Careful(w)
<1>1. disk' = disk
  BY DEF Tick, HearPeer, SessionLost, SessionUp, RequestClose, ReplayAttempt, HandleLegStatusRequest,
         LateLegStatus, UnsolicitedNoRecord, PeerFailed, PeerProgress, ConfirmationAccepted,
         ConfirmationLate, ConfirmationIgnored, HandlePairEntryFailed, Ignore, AnswerAndGo
<1>2. Resume(w, "gate") \/ FinalThen(w, "gate") \/ ReadThen(w, "gate") \/ Begin(w, Thread("stops"))
  BY DEF Tick, HearPeer, SessionLost, SessionUp, RequestClose, ReplayAttempt, HandleLegStatusRequest,
         LateLegStatus, UnsolicitedNoRecord, PeerFailed, PeerProgress, ConfirmationAccepted,
         ConfirmationLate, ConfirmationIgnored, HandlePairEntryFailed, Ignore, AnswerAndGo
<1>3. Onward(w)
  BY <1>2 DEF Onward, Rets
<1> QED
  BY <1>1, <1>3, OnwardLooks DEF Careful, GivesUp

\* A read of its own.
LEMMA ReadCareful ==
    ASSUME OwnInv, NEW w \in Workers, ReadSecond(w) \/ SnapshotEvent(w) \/ SettleDeferred(w)
    PROVE  Careful(w)
<1>1. disk' = disk /\ run \in [Workers -> Threads] /\ run[w] \in Threads
  BY DEF ReadSecond, SnapshotEvent, SettleDeferred, OwnInv, TypeOK
<1>2. CASE ReadSecond(w)
  <2>1. At(w, "read")
    BY <1>2 DEF ReadSecond
  <2>2. run'[w] = Thread("idle") => ~Looking(w)'
    BY DEF Looking, At, Thread
  <2>3. CASE run[w].first = "positions"
    <3>1. \/ run'[w] = Thread("idle")
          \/ \E s : run'[w] = [[run[w] EXCEPT !.ord = SeenOrders(w), !.fresh = TRUE] EXCEPT !.at = s]
      BY <1>1, <1>2, <2>3 DEF ReadSecond, Begin
    <3>2. ASSUME NEW s, run'[w] = [[run[w] EXCEPT !.ord = SeenOrders(w), !.fresh = TRUE] EXCEPT !.at = s]
          PROVE  run'[w].pos = run[w].pos
      BY <1>1, <3>2 DEF Threads
    <3>3. Looks(w)
      BY <2>1, <2>2, <2>3, <3>1, <3>2 DEF Looks, Looking
    <3> QED
      BY <1>1, <3>3 DEF Careful, GivesUp
  <2>4. CASE run[w].first # "positions"
    <3>1. \/ run'[w] = Thread("idle")
          \/ \E s : run'[w] = [[run[w] EXCEPT !.pos = SeenPositions(w), !.fresh = TRUE] EXCEPT !.at = s]
      BY <1>1, <1>2, <2>4 DEF ReadSecond, Begin
    <3>2. ASSUME NEW s, run'[w] = [[run[w] EXCEPT !.pos = SeenPositions(w), !.fresh = TRUE] EXCEPT !.at = s]
          PROVE  run'[w].pos = SeenPositions(w)
      BY <1>1, <3>2 DEF Threads
    <3>3. Looks(w)
      BY <2>2, <3>1, <3>2 DEF Looks
    <3> QED
      BY <1>1, <3>3 DEF Careful, GivesUp
  <2> QED
    BY <2>3, <2>4
<1>3. CASE SnapshotEvent(w)
  <2>1. run'[w] = [Thread("read") EXCEPT !.first = "orders", !.ord = SeenOrders(w), !.ret = "stops"]
    BY <1>1, <1>3 DEF SnapshotEvent, Begin
  <2>2. run'[w].at = "read" /\ run'[w].first = "orders"
    BY <2>1 DEF Thread
  <2> QED
    BY <1>1, <2>2 DEF Careful, Looks, Looking, At, GivesUp
<1>4. CASE SettleDeferred(w)
  <2>1. PICK effect : run'[w] = [Read(w, run[w], "settle") EXCEPT !.job = effect]
    BY <1>1, <1>4 DEF SettleDeferred, Begin
  <2>2. run'[w].pos = SeenPositions(w)
    BY <1>1, <2>1 DEF Read, Threads
  <2> QED
    BY <1>1, <2>2 DEF Careful, Looks, GivesUp
<1> QED
  BY <1>2, <1>3, <1>4

\* The steps that save the leg.
LEMMA SaveCareful ==
    ASSUME OwnInv, NEW w \in Workers,
           \/ EntryAccepted(w) \/ EntryRejected(w) \/ EntryUnknown(w)
           \/ EntryFilled(w) \/ EntryInconsistent(w) \/ EntryAbsent(w) \/ TicketHeld(w) \/ VerifiedEmpty(w)
           \/ NoMirroredBox(w) \/ ProtectionRefused(w) \/ ProtectionApplied(w) \/ RollbackApplied(w)
    PROVE  Careful(w)
<1>1. /\ Cur(w) # NoAttempt /\ ~At(w, "leg") /\ disk \in [Workers -> Legs]
      /\ run[w].ret \in Rets
  BY Setup DEF EntryAccepted, EntryRejected, EntryUnknown, EntryFilled, EntryInconsistent, EntryAbsent,
               TicketHeld, VerifiedEmpty, NoMirroredBox, ProtectionRefused, ProtectionApplied,
               RollbackApplied, Done, Own, Control, Busy, At, OwnInv, TypeOK
<1>2. LegSame(leg[w], disk[w]) /\ leg[w] \in Legs
  BY <1>1, LegAtWork
<1>3. disk' = disk \/
        /\ disk'[w].empty = leg[w].empty \/ VerifiedEmpty(w)
        /\ \/ disk'[w].entry \in {leg[w].entry, "sent", "unknown_after_send", "filled"}
           \/ EntryAbsent(w) \/ EntryRejected(w)
  <2>1. ASSUME NEW s, SaveLeg(w, [leg[w] EXCEPT !.entry = s])
        PROVE  disk'[w].empty = leg[w].empty /\ disk'[w].entry = s
    BY <1>1, <1>2, <2>1 DEF SaveLeg, Legs
  <2>2. ASSUME NEW t, NEW h, SaveLeg(w, [leg[w] EXCEPT !.entry = "filled", !.ticket = t, !.seen = h])
        PROVE  disk'[w].empty = leg[w].empty /\ disk'[w].entry = "filled"
    BY <1>1, <1>2, <2>2 DEF SaveLeg, Legs
  <2>3. ASSUME NEW h,
               \/ SaveLeg(w, [leg[w] EXCEPT !.seen = h]) \/ SaveLeg(w, [leg[w] EXCEPT !.prot = h])
               \/ SaveLeg(w, [leg[w] EXCEPT !.prot = "fallback", !.protRef = h])
        PROVE  disk'[w].empty = leg[w].empty /\ disk'[w].entry = leg[w].entry
    <3>1. CASE SaveLeg(w, [leg[w] EXCEPT !.seen = h])
      BY <1>1, <1>2, <3>1 DEF SaveLeg, Legs
    <3>2. CASE SaveLeg(w, [leg[w] EXCEPT !.prot = h])
      BY <1>1, <1>2, <3>2 DEF SaveLeg, Legs
    <3>3. CASE SaveLeg(w, [leg[w] EXCEPT !.prot = "fallback", !.protRef = h])
      BY <1>1, <1>2, <3>3 DEF SaveLeg, Legs
    <3> QED
      BY <2>3, <3>1, <3>2, <3>3
  <2>4. SaveLeg(w, [leg[w] EXCEPT !.empty = TRUE]) => disk'[w].entry = leg[w].entry
    BY <1>1, <1>2 DEF SaveLeg, Legs
  <2>5. CASE EntryAccepted(w) \/ EntryRejected(w) \/ EntryUnknown(w) \/ EntryAbsent(w)
    BY <2>1, <2>5 DEF EntryAccepted, EntryRejected, EntryUnknown, EntryAbsent
  <2>6. CASE EntryFilled(w) \/ EntryInconsistent(w)
    BY <2>2, <2>6 DEF EntryFilled, EntryInconsistent, Filled
  <2>7. CASE \/ TicketHeld(w) \/ NoMirroredBox(w) \/ ProtectionRefused(w) \/ ProtectionApplied(w)
             \/ RollbackApplied(w)
    BY <2>3, <2>7 DEF TicketHeld, NoMirroredBox, ProtectionRefused, ProtectionApplied, RollbackApplied,
                      Fallback
  <2>8. CASE VerifiedEmpty(w)
    BY <2>4, <2>8 DEF VerifiedEmpty
  <2> QED
    BY <2>5, <2>6, <2>7, <2>8
<1>4. GivesUp(w)
  BY <1>2, <1>3 DEF GivesUp, LegSame, NotSent
<1>5. Onward(w)
  <2>1. \/ ReadThen(w, "confirm") \/ ReadThen(w, "gate") \/ Resume(w, "confirm") \/ Resume(w, "gate")
        \/ run[w].at \in {"observe", "ticket"} /\ (AfterEntryRead(w) \/ AfterTicket(w))
        \/ FinalThen(w, run[w].ret) \/ Resume(w, "converge") \/ ReadThen(w, "converge") \/ ReadThen(w, "rolled")
    BY DEF EntryAccepted, EntryRejected, EntryUnknown, EntryFilled, EntryInconsistent, EntryAbsent,
           TicketHeld, VerifiedEmpty, NoMirroredBox, ProtectionRefused, ProtectionApplied,
           RollbackApplied, Fallback, AfterEntry, At
  <2> QED
    BY <1>1, <2>1 DEF Onward, Rets
<1> QED
  BY <1>4, <1>5, OnwardLooks DEF Careful

\* The kinds of steps of a Worker that runs.
Paces(w) ==
    \/ Routine(w) /\ Careful(w)
    \/ Working(w) /\ (brk' = brk \/ OrderSend(w)) /\ (Done(w, "entry", {"failure", "refused"})' => Writing(w))
    \/ \E a \in Attempts : Adopts(w, a)
    \/ PersistLeg(w) \/ FinalizeEmpty(w) \/ RefuseAttempt(w)

\* A broker write that starts, and one that goes on.
LEMMA StartPaces ==
    ASSUME OwnInv, NEW w \in Workers,
           \/ PrepareEntry(w) \/ RelayAttempt(w) \/ StartContainment(w) \/ StartProtection(w)
           \/ PeerFellBack(w) \/ Writing(w)
    PROVE  Paces(w)
<1>1. Working(w)
  BY PrepareEntryStep, RelayAttemptStep, StartContainmentStep, StartProtectionStep, PeerFellBackStep,
     WriteSteps DEF Writing
<1>2. brk' = brk \/ OrderSend(w)
  BY DEF PrepareEntry, RelayAttempt, StartContainment, StartProtection, PeerFellBack, Writing,
         RefuseWrite, MarkSendStarted
<1>3. run \in [Workers -> Threads] /\ run[w] \in Threads
  BY DEF OwnInv, TypeOK
<1>4. CASE \/ PrepareEntry(w) \/ RelayAttempt(w) \/ StartContainment(w) \/ StartProtection(w)
  <2>1. Goto(w, "relay") \/ WriteNow(w, "entry") \/ WriteNow(w, "protection")
        \/ WriteNow(w, "cancel") \/ WriteNow(w, "close")
    BY <1>4 DEF PrepareEntry, RelayAttempt, StartContainment, StartProtection, Wanted
  <2>2. run'[w].at # "done"
    BY <2>1, GotoThread, WriteNowThread DEF Stages, Effects
  <2> QED
    BY <1>1, <1>2, <2>2 DEF Paces, Done, At
<1>5. CASE PeerFellBack(w)
  <2>1. ASSUME NEW s, NEW o,
               \/ run' = [run EXCEPT ![w] = [Thread(s) EXCEPT !.job = "rollback"]]
               \/ run' = [run EXCEPT ![w] = [Thread(s) EXCEPT !.job = "rollback", !.out = o]]
        PROVE  run'[w].job = "rollback"
    BY <1>3, <2>1 DEF Thread
  <2>2. run'[w].job = "rollback"
    BY <1>5, <2>1 DEF PeerFellBack, Begin
  <2> QED
    BY <1>1, <1>2, <2>2 DEF Paces, Done
<1> QED
  BY <1>1, <1>2, <1>4, <1>5 DEF Paces

LEMMA ThreadPaces ==
    ASSUME OwnInv, NEW w \in Workers, ThreadStep(w)
    PROVE  Paces(w)
<1>1. CASE Entering(w)
  BY <1>1, CreateAttemptStep, StillSteps, EntryOutcomeSteps, StartPaces, StillCareful, SaveCareful
     DEF Entering, Paces
<1>2. CASE Writing(w)
  BY <1>2, StartPaces
<1>3. CASE Observing(w)
  BY <1>3, ReadSecondStep, StillSteps, CloseSteps, EntryReadSteps, TicketGoneStep, TicketHeldStep,
     ReadCareful, StillCareful, SaveCareful DEF Observing, Paces
<1>4. CASE Containing(w)
  BY <1>4, ContainmentSteps, StillSteps, StopSteps, VerifiedEmptyStep, ContainmentDoneStep, ReadSteps,
     MemSteps, UnlatchSteps, StartPaces, ReadCareful, StillCareful, SaveCareful DEF Containing, Paces
<1>5. CASE Progressing(w)
  BY <1>5, MemSteps, CloseSteps, PairCloseSteps, StillSteps, EmitConfirmationStep, ProtectionSteps,
     RollbackSteps, DeclareActiveStep, ProbeSteps, StopSteps, StartPaces, StillCareful, SaveCareful
     DEF Progressing, Paces
<1> QED
  BY <1>1, <1>2, <1>3, <1>4, <1>5 DEF ThreadStep

LEMMA EventPaces ==
    ASSUME OwnInv, NEW w \in Workers, LocalEvent(w) \/ Envelope(w)
    PROVE  Paces(w)
<1>1. CASE LocalEvent(w)
  BY <1>1, StillSteps, ReadSteps, MemSteps, ProbeSteps, CloseSteps, EventCareful, ReadCareful
     DEF LocalEvent, Paces
<1>2. CASE Envelope(w)
  BY <1>2, AnswerSteps, AdmitAttemptStep, PeerNewsSteps, StartPaces, EventCareful DEF Envelope, Paces
<1> QED
  BY <1>1, <1>2

-----------------------------------------------------------------------------
(* What a step does to its own account                                      *)

LEMMA PositionFacts ==
    ASSUME NEW w \in Workers, NEW a \in Attempts, Remembered(w), Exposed(w, a), Own(w)
    PROVE  /\ Remembers(w, a) /\ ~At(w, "leg")
           /\ ~At(w, "down") => Cur(w) = a /\ leg[w].entry = disk[w].entry /\ leg[w].empty = disk[w].empty
<1>1. Remembers(w, a)
  BY DEF Remembered
<1>2. ~At(w, "leg")
  BY <1>1 DEF Remembers, At
<1>3. ~At(w, "down") => Cur(w) = a /\ Cur(w) # NoAttempt
  BY <1>1 DEF Remembers, Attempts, NoAttempt
<1> QED
  BY <1>1, <1>2, <1>3 DEF Own, LegKept, LegSame

\* A thread that looks at the positions after the step has seen them all.
LEMMA LooksSeen ==
    ASSUME NEW w \in Workers, Account(w), Looks(w), brk' = brk
    PROVE  SeenAll(w)'
<1>1. \A a \in Attempts : Exposed(w, a)' <=> Exposed(w, a)
  BY DEF Exposed
<1>2. CASE Looking(w) /\ run'[w].pos = run[w].pos
  BY <1>1, <1>2 DEF Account, SeenAll
<1>3. CASE run'[w].pos = SeenPositions(w)
  BY <1>1, <1>3, SeenFacts DEF Account, SeenAll
<1> QED
  BY <1>2, <1>3 DEF Looks, SeenAll

LEMMA RoutineAccount ==
    ASSUME OwnInv, NEW w \in Workers, Account(w), Routine(w), Careful(w)
    PROVE  Account(w)'
<1>1. /\ brk' = brk /\ db'[w].row = db[w].row /\ db'[w].last = db[w].last /\ Cur(w)' = Cur(w)
      /\ LegSaved(Cur(w), disk[w], leg'[w], disk'[w]) /\ Own(w) /\ ~At(w, "down")
      /\ run'[w].at \notin {"down", "leg", "done"}
  BY Setup DEF Routine, Kept, MemKept, DbKept, Plain, Landings, Rets, At, Cur
<1>2. SeenAll(w)' /\ Refused(w)'
  BY <1>1, LooksSeen DEF Careful, Refused, Done, At
<1>3. ASSUME NEW a \in Attempts
      PROVE  brk'[w][a] \in AtOnce /\ (Exposed(w, a)' => Remembers(w, a)')
  <2>1. brk'[w][a] \in AtOnce /\ (Exposed(w, a)' => Exposed(w, a))
    BY <1>1 DEF Account, Remembered, Exposed
  <2>2. SUFFICES ASSUME Exposed(w, a) PROVE Remembers(w, a)'
    BY <2>1
  <2>3. Remembers(w, a) /\ Cur(w) = a /\ ~At(w, "leg") /\ Cur(w) # NoAttempt
    BY <1>1, <2>2, PositionFacts DEF Account, Attempts, NoAttempt
  <2>4. disk'[w].a = a /\ disk'[w].entry # "pending"
    BY <1>1, <2>3 DEF LegSaved, Remembers
  <2>5. ~VerifiedEmpty(w)
    <3>1. SUFFICES ASSUME VerifiedEmpty(w) PROVE FALSE
      OBVIOUS
    <3>2. Looking(w) /\ run[w].pos[a] \notin Positions
      BY <3>1 DEF VerifiedEmpty, Looking, At
    <3> QED
      BY <2>2, <3>2 DEF Account, SeenAll, Positions, AtOnce
  <2>6. ~EntryAbsent(w)
    <3>1. SUFFICES ASSUME EntryAbsent(w) PROVE FALSE
      OBVIOUS
    <3>2. Looking(w) /\ run[w].pos[a] \notin Matching
      BY <3>1 DEF EntryAbsent, Matches, Looking, At
    <3> QED
      BY <2>2, <3>2 DEF Account, SeenAll, Matching, AtOnce
  <2>7. ~EntryRejected(w)
    BY <2>2, <2>3 DEF EntryRejected, Account, Refused
  <2>8. ~disk'[w].empty /\ disk'[w].entry \notin NotSent
    BY <2>3, <2>5, <2>6, <2>7 DEF Careful, GivesUp, Remembers
  <2> QED
    BY <1>1, <2>3, <2>4, <2>8 DEF Remembers, At
<1> QED
  BY <1>2, <1>3 DEF Account, Remembered

\* A broker write: MT5 executes at once, so what it holds afterwards is what it
\* held, or the position of the entry that was just sent.
LEMMA SendResults ==
    ASSUME OwnInv, Fills = {}, NEW w \in Workers, Remembered(w), OrderSend(w), NEW a \in Attempts
    PROVE  /\ brk'[w][a] \in AtOnce
           /\ Exposed(w, a)' => Exposed(w, a) \/ (run[w].job = "entry" /\ a = Cur(w))
           /\ (Done(w, "entry", {"failure", "refused"})' /\ a = Cur(w)) => ~Exposed(w, a)'
<1> DEFINE job == run[w].job
           h == brk[w][Target(w)]
<1>1. /\ Domains /\ brk[w] \in Holding /\ job \in Effects /\ run[w] \in Threads
      /\ brk \in [Workers -> Holding] /\ run \in [Workers -> Threads]
  BY Setup DEF Local, Threads, OwnInv, TypeOK
<1>2. PICK r \in Results(job, h) :
        /\ brk' = [brk EXCEPT ![w][Target(w)] = r[1]]
        /\ run' = [run EXCEPT ![w] = [@ EXCEPT !.at = "done", !.out = r[2]]]
  BY DEF OrderSend
<1>3. brk'[w] = [brk[w] EXCEPT ![Target(w)] = r[1]]
  BY <1>1, <1>2
<1>4. /\ job = "entry" => Target(w) = Cur(w)
      /\ job = "entry" => r \in {<<"rough", "success">>, <<"none", "failure">>, <<"none", "raised">>,
                                 <<"rough", "raised">>}
  BY <1>2 DEF Target, Results, EntryResults
<1>5. (job # "entry" /\ h \in AtOnce) => r[1] \in {h, "none"} \/ (r[1] \in AtOnce /\ h \in {"rough", "precise"})
  BY <1>1, <1>2 DEF Results, ModifyResults, CloseResults, CancelResults, Effects, AtOnce
<1>6. run'[w].job = job /\ run'[w].out = r[2] /\ run'[w].at = "done"
  <2>1. run'[w] = [run[w] EXCEPT !.at = "done", !.out = r[2]]
    BY <1>1, <1>2
  <2> QED
    BY <1>1, <2>1 DEF Threads
<1>7. brk[w][a] \in AtOnce
  BY DEF Remembered
<1>8. a # Target(w) => brk'[w][a] = brk[w][a]
  BY <1>1, <1>3 DEF Holding
<1>9. a = Target(w) => brk'[w][a] = r[1] /\ h \in AtOnce
  BY <1>1, <1>3, <1>7 DEF Holding
<1> HIDE DEF job, h
<1>10. CASE a # Target(w)
  BY <1>4, <1>6, <1>7, <1>8, <1>10 DEF Exposed, Done, job
<1>11. CASE a = Target(w) /\ job = "entry"
  <2>1. r[1] \in AtOnce /\ (r[2] \in {"failure", "refused"} => r[1] = "none")
    BY <1>4, <1>11 DEF AtOnce
  <2> QED
    BY <1>4, <1>6, <1>9, <1>11, <2>1 DEF Exposed, Exposure, Positions, Done, job
<1>12. CASE a = Target(w) /\ job # "entry"
  <2>1. r[1] \in AtOnce /\ (h \notin {"rough", "precise"} => r[1] = "none")
    BY <1>5, <1>9, <1>12 DEF AtOnce
  <2>2. h = brk[w][a]
    BY <1>12 DEF h
  <2> QED
    BY <1>6, <1>9, <1>12, <2>1, <2>2 DEF Exposed, Exposure, Positions, Done, job
<1> QED
  BY <1>10, <1>11, <1>12

LEMMA WorkingAccount ==
    ASSUME OwnInv, OwnInv', Fills = {}, NEW w \in Workers, Account(w), Working(w),
           brk' = brk \/ OrderSend(w), Done(w, "entry", {"failure", "refused"})' => Writing(w)
    PROVE  Account(w)'
<1>1. /\ db'[w].row = db[w].row /\ db'[w].last = db[w].last /\ Cur(w)' = Cur(w) /\ Cur(w) # NoAttempt
      /\ LegHeld(disk[w], leg'[w], disk'[w]) /\ Own(w) /\ Own(w)' /\ ~At(w, "down") /\ ~At(w, "leg")
      /\ run'[w].at \in {"relay", "mark", "call", "done"} /\ Remembered(w) /\ Cur(w) \in Attempts
  BY Setup, LegAtWork DEF Working, Writes, MemKept, DbKept, At, Cur, OwnInv, Account
<1>2. /\ disk'[w].a = disk[w].a /\ disk'[w].empty = disk[w].empty /\ disk'[w].entry = disk[w].entry
      /\ disk[w].a = Cur(w) /\ leg[w].entry = disk[w].entry /\ leg[w].empty = disk[w].empty
      /\ db[w].row[Cur(w)] = "live"
  BY <1>1, LegAtWork DEF LegHeld, LegSame
<1>3. SeenAll(w)'
  BY <1>1 DEF SeenAll, Looking, At
<1>4. ASSUME NEW a \in Attempts
      PROVE  /\ brk'[w][a] \in AtOnce
             /\ Exposed(w, a)' => Exposed(w, a) \/ (run[w].job = "entry" /\ a = Cur(w) /\ At(w, "call"))
  <2>1. CASE brk' = brk
    BY <1>1, <2>1 DEF Remembered, Exposed
  <2>2. CASE OrderSend(w)
    BY <1>1, <2>2, SendResults DEF OrderSend
  <2> QED
    BY <2>1, <2>2
\* The journal of the entry never goes back to prepared.
<1>5. ASSUME NEW a \in Attempts, jr[w][a]["entry"] \notin {"none", "prepared"}
      PROVE  jr'[w][a]["entry"] \notin {"none", "prepared"}
  <2>1. "entry" \in Effects
    BY DEF Effects
  <2>2. \/ jr'[w][a]["entry"] = jr[w][a]["entry"]
        \/ <<jr[w][a]["entry"], jr'[w][a]["entry"]>> \in JrMoves
    BY <2>1 DEF Working, JrWritten
  <2> QED
    BY <1>5, <2>2 DEF JrMoves
<1>6. ASSUME NEW a \in Attempts, Exposed(w, a)' PROVE Remembers(w, a)'
  <2>1. CASE Exposed(w, a)
    <3>1. Remembers(w, a) /\ Cur(w) = a
      BY <1>1, <2>1, PositionFacts
    <3> QED
      BY <1>1, <1>2, <1>5, <3>1 DEF Remembers, At
  <2>2. CASE run[w].job = "entry" /\ a = Cur(w) /\ At(w, "call")
    <3>1. OnEntry(w) /\ Journal(w, "entry") = "send_started"
      BY <1>1, <2>2 DEF OnEntry, At, Own, EntryStage
    <3>2. db[w].last = a /\ disk[w].entry = "pending" /\ ~disk[w].empty
      BY <1>1, <1>2, <2>2, <3>1 DEF Own, RowsKept, EntryStage
    <3>3. jr'[w][a]["entry"] \notin {"none", "prepared"}
      BY <1>5, <2>2, <3>1 DEF Journal
    <3> QED
      BY <1>1, <1>2, <2>2, <3>2, <3>3 DEF Remembers, At, NotSent
  <2> QED
    BY <1>4, <1>6, <2>1, <2>2
<1>7. Refused(w)'
  <2>1. SUFFICES ASSUME Done(w, "entry", {"failure", "refused"})' PROVE ~Exposed(w, Cur(w))'
    BY DEF Refused
  <2>2. CASE OrderSend(w)
    BY <1>1, <2>1, <2>2, SendResults
  <2>3. CASE RefuseWrite(w) \/ MarkSendStarted(w)
    <3>1. run[w].job = run'[w].job /\ At(w, "mark") /\ brk' = brk
      BY <2>3, GotoThread, DoneThread DEF RefuseWrite, MarkSendStarted, Stages
    <3>2. run[w].job = "entry"
      BY <2>1, <3>1 DEF Done
    <3>3. Journal(w, "entry") = "prepared" /\ OnEntry(w)
      BY <1>1, <3>1, <3>2 DEF Own, EntryStage, OnEntry, At
    <3>4. leg[w].entry = "pending"
      BY <1>1, <3>3 DEF Own, EntryStage
    <3>5. ~Exposed(w, Cur(w))
      BY <1>1, <1>2, <3>3, <3>4 DEF Remembered, Remembers, Journal
    <3> QED
      BY <1>1, <3>1, <3>5 DEF Exposed
  <2> QED
    BY <2>1, <2>2, <2>3 DEF Writing
<1> QED
  BY <1>3, <1>4, <1>6, <1>7 DEF Account, Remembered

\* A step of a cell whose account is flat.
LEMMA FlatAccount ==
    ASSUME NEW w \in Workers, Account(w), brk' = brk, \A a \in Attempts : ~Exposed(w, a),
           ~Looking(w)', ~At(w, "done")'
    PROVE  Account(w)'
<1>1. \A a \in Attempts : brk'[w][a] \in AtOnce /\ ~Exposed(w, a)'
  BY DEF Account, Remembered, Exposed
<1> QED
  BY <1>1 DEF Account, Remembered, Refused, SeenAll, Done, At

\* What is spent holds nothing.
LEMMA SpentFlat ==
    ASSUME NEW v \in Workers, NEW a \in Attempts, Remembered(v), Spent(v, a)
    PROVE  ~Exposed(v, a)
<1>1. SUFFICES ASSUME Remembers(v, a) PROVE FALSE
  BY DEF Remembered
<1> QED
  BY <1>1 DEF Remembers, Spent, Terminal, NotSent

\* The steps that begin or finish an attempt find the account flat.
LEMMA AdoptsAccount ==
    ASSUME OwnInv, NEW w \in Workers, Account(w), PersistLeg(w) \/ \E a \in Attempts : Adopts(w, a)
    PROVE  Account(w)'
<1>1. Own(w) /\ brk' = brk
  BY Setup, PersistLegStep DEF Adopts
<1>2. /\ ~At(w, "down") /\ (Cur(w) = NoAttempt \/ At(w, "leg"))
      /\ run'[w].at \in {"leg", "prepare"}
  BY PersistLegStep DEF Adopts, PersistLeg, At
<1>3. \A a \in Attempts : ~Exposed(w, a)
  BY <1>2 DEF Account, Remembered, Remembers, Attempts, NoAttempt
<1>4. ~Looking(w)' /\ ~At(w, "done")'
  BY <1>2 DEF Looking, At
<1> QED
  BY <1>1, <1>3, <1>4, FlatAccount

LEMMA FinalizeAccount ==
    ASSUME OwnInv, NEW w \in Workers, Account(w), FinalizeEmpty(w)
    PROVE  Account(w)'
<1> DEFINE s == IF At(w, "tail") THEN "wrap" ELSE run[w].then
<1>1. /\ Own(w) /\ brk' = brk /\ CanFinalize(w) /\ Plain(w) /\ run[w].at \in {"final", "tail"}
      /\ Resume(w, s)
  BY Setup, FinalizeEmptyStep DEF FinalizeEmpty
<1>2. run[w].then \in Rets \cup {"stopped"} /\ ~At(w, "leg") /\ ~At(w, "down") /\ leg[w].empty
  BY <1>1 DEF Own, Control, CanFinalize, At
<1>3. \A a \in Attempts : ~Exposed(w, a)
  BY <1>1, <1>2, PositionFacts DEF Account, Remembers
<1>4. s \in Rets \cup {"create", "protect", "wrap", "stopped"}
  BY <1>2
<1> HIDE DEF s
<1>5. ~Looking(w)' /\ ~At(w, "done")'
  BY <1>1, <1>4, ResumeLands DEF Plain, Landings, Rets, At
<1> QED
  BY <1>1, <1>3, <1>5, FlatAccount

\* A follower that holds a position is never handed another attempt: the leader
\* would have finished the first one, and so would the follower be spent.
LEMMA RefuseAccount ==
    ASSUME PairInv, NEW w \in Workers, Account(w), RefuseAttempt(w)
    PROVE  Account(w)'
<1> DEFINE b == Head(inbox[w]).a
<1>1. /\ OwnInv /\ Known /\ BothSpent /\ "leader" \in Workers /\ "follower" \in Workers
  BY DEF PairInv, Workers
<1>2. /\ w = "follower" /\ brk' = brk /\ b \in Attempts /\ db[w].row[b] = "none" /\ Plain(w)
      /\ inbox[w] # <<>> /\ Head(inbox[w]).kind = "attempt" /\ Resume(w, "gate") /\ Own("leader")
      /\ inbox[w] \in Seq(Messages) /\ db["leader"] \in Rows
  BY <1>1, Setup, RefuseAttemptStep DEF RefuseAttempt, Local
<1>3. Under(b)
  <2>1. Head(inbox[w]) = inbox[w][1] /\ 1 \in DOMAIN inbox[w]
    BY <1>2, TailFacts
  <2> QED
    BY <1>2, <2>1 DEF Under
<1>4. Own("leader") /\ db["leader"].row[b] # "none" /\ ~Terminal(db["leader"].row[b])
  <2>1. db["leader"].row[b] # "none"
    BY <1>1, <1>2, <1>3 DEF Known, Unsent
  <2>2. ASSUME Terminal(db["leader"].row[b]) PROVE FALSE
    <3>1. Spent("follower", b)
      BY <1>1, <1>2, <2>2 DEF BothSpent
    <3>2. db["follower"].row[b] = "none"
      BY <1>2
    <3> QED
      BY <1>3, <3>1, <3>2 DEF Spent, Terminal
  <2> QED
    BY <1>2, <2>1, <2>2
<1>5. ASSUME NEW a \in Attempts, Exposed(w, a) PROVE FALSE
  <2>1. Remembers(w, a)
    BY <1>5 DEF Account, Remembered
  <2>2. db["follower"].row[a] = "live" /\ a # b
    BY <1>2, <2>1 DEF Remembers
  <2>3. db["leader"].row[a] # "none"
    BY <1>1, <2>2 DEF Known, Unsent
  <2>4. ~Terminal(db["leader"].row[a])
    <3>1. SUFFICES ASSUME Terminal(db["leader"].row[a]) PROVE FALSE
      OBVIOUS
    <3>2. Spent("follower", a)
      BY <1>1, <3>1 DEF BothSpent
    <3> QED
      BY <1>2, <1>5, <3>2, SpentFlat DEF Account
  <2>5. db["leader"].last \in Nat /\ a \in Nat /\ b \in Nat
    BY <1>2 DEF Rows, Attempts, NoAttempt
  <2>6. RowsKept("leader")
    BY <1>4 DEF Own
  <2>7. a = db["leader"].last /\ b = db["leader"].last
    BY <1>2, <1>4, <2>3, <2>4, <2>5, <2>6 DEF RowsKept
  <2> QED
    BY <2>2, <2>7
<1>6. "gate" \in Rets
  BY DEF Rets
<1>7. ~Looking(w)' /\ ~At(w, "done")'
  BY <1>1, <1>2, <1>6, ResumeLands DEF Plain, Landings, Rets, At
<1> QED
  BY <1>2, <1>5, <1>7, FlatAccount

\* A crash loses nothing of a position, and the restart finds it.
LEMMA CrashAccount ==
    ASSUME OwnInv, NEW w \in Workers, Account(w), Crash(w)
    PROVE  Account(w)'
<1>1. At(w, "down")' /\ disk' = disk /\ db' = db /\ jr' = jr /\ brk' = brk
  BY CrashStep
<1>2. \A a \in Attempts : brk'[w][a] \in AtOnce /\ (Exposed(w, a)' => Exposed(w, a))
  BY <1>1 DEF Account, Remembered, Exposed
<1>3. \A a \in Attempts : Remembers(w, a) => Remembers(w, a)'
  BY <1>1 DEF Remembers, At
<1>4. ~Looking(w)' /\ ~At(w, "done")'
  BY <1>1 DEF Looking, At
<1> QED
  BY <1>2, <1>3, <1>4 DEF Account, Remembered, Refused, SeenAll, Done

LEMMA RestartAccount ==
    ASSUME OwnInv, NEW w \in Workers, Account(w), Restart(w)
    PROVE  Account(w)'
<1>1. CASE RestartIdle(w) \/ RestartWithoutLeg(w)
  <2>1. /\ At(w, "idle")' /\ brk' = brk
        /\ Loaded(w) = NoAttempt \/ disk[w].a # Loaded(w)
    BY <1>1, RestartAtRest
  <2>2. \A a \in Attempts : ~Exposed(w, a)
    BY <2>1 DEF Account, Remembered, Remembers, Loaded, Attempts, NoAttempt
  <2>3. ~Looking(w)' /\ ~At(w, "done")'
    BY <2>1 DEF Looking, At
  <2> QED
    BY <2>1, <2>2, <2>3, FlatAccount
<1>2. CASE RestartWithLeg(w)
  <2>1. /\ At(w, "read")' /\ Loaded(w) \in Attempts /\ disk[w].a = Loaded(w) /\ Cur(w)' = Loaded(w)
        /\ db'[w].row = db[w].row /\ db'[w].last = db[w].last
        /\ disk'[w].a = disk[w].a /\ disk'[w].empty = disk[w].empty
        /\ disk'[w].entry = ReconciledEntry(disk[w], jr[w][Loaded(w)]["entry"])
        /\ brk' = brk /\ ReadThen(w, "gate")
    BY <1>2, RestartWithLegStep DEF RestartWithLeg
  <2>2. ASSUME NEW a \in Attempts PROVE brk'[w][a] \in AtOnce /\ (Exposed(w, a)' => Remembers(w, a)')
    <3>1. brk'[w][a] \in AtOnce /\ (Exposed(w, a)' => Remembers(w, a))
      BY <2>1 DEF Account, Remembered, Exposed
    <3>2. SUFFICES ASSUME Remembers(w, a) PROVE Remembers(w, a)'
      BY <3>1
    <3>3. Loaded(w) = a
      BY <3>2 DEF Remembers, Loaded, Attempts, NoAttempt
    <3>4. disk'[w].entry \notin NotSent /\ disk'[w].entry # "pending"
      BY <2>1, <3>2, <3>3 DEF Remembers, ReconciledEntry, NotSent
    <3> QED
      BY <2>1, <3>2, <3>3, <3>4 DEF Remembers, At
  <2>3. Refused(w)'
    BY <2>1 DEF Refused, Done, At
  <2>4. "gate" \in Rets
    BY DEF Rets
  <2>5. Looks(w)
    BY <2>1, <2>4, OnwardLooks DEF Onward
  <2>6. SeenAll(w)'
    BY <2>1, <2>5, LooksSeen
  <2> QED
    BY <2>2, <2>3, <2>6 DEF Account, Remembered
<1> QED
  BY <1>1, <1>2 DEF Restart

-----------------------------------------------------------------------------
(* Every step                                                               *)

\* The account of the other Worker is as it was.
LEMMA AccountFrame ==
    ASSUME OwnInv, NEW v \in Workers, Account(v), run'[v] = run[v], mem'[v] = mem[v], disk'[v] = disk[v],
           db'[v] = db[v], jr'[v] = jr[v],
           \A a \in Attempts : brk'[v][a] = brk[v][a] \/ brk'[v][a] = "none"
    PROVE  Account(v)'
<1>1. \A a \in Attempts : brk'[v][a] \in AtOnce /\ (Exposed(v, a)' => Exposed(v, a))
  BY DEF Account, Remembered, Exposed, Exposure, Positions, AtOnce
<1>2. \A a \in Attempts : Remembers(v, a) => Remembers(v, a)'
  BY DEF Remembers, At, Cur
<1>3. Remembered(v)'
  BY <1>1, <1>2 DEF Account, Remembered
<1>4. SeenAll(v)'
  BY <1>1 DEF Account, SeenAll, Looking, At
<1>5. Refused(v)'
  <2>1. SUFFICES ASSUME Done(v, "entry", {"failure", "refused"})' PROVE ~Exposed(v, Cur(v))'
    BY DEF Refused
  <2>2. Done(v, "entry", {"failure", "refused"}) /\ Cur(v)' = Cur(v)
    BY <2>1 DEF Done, At, Cur
  <2>3. ~Exposed(v, Cur(v))
    BY <2>2 DEF Account, Refused
  <2>4. Cur(v) \in Attempts
    BY <2>2, Setup DEF Done, At, Own, Control, Busy, Local, Mems, Cur
  <2> QED
    BY <1>1, <2>2, <2>3, <2>4
<1> QED
  BY <1>3, <1>4, <1>5 DEF Account

LEMMA StepExposure ==
    ASSUME Fills = {}, ExposureInv, Next
    PROVE  ExposureInv'
<1>1. PairInv /\ OwnInv /\ PairInv' /\ OwnInv' /\ \A v \in Workers : Account(v)
  <2>1. PairInv /\ PairInv'
    BY StepPair DEF ExposureInv
  <2> QED
    BY <2>1 DEF ExposureInv, PairInv
<1>2. PICK w \in Workers :
        \/ ThreadStep(w) \/ LocalEvent(w) \/ Envelope(w)
        \/ Lose(w) \/ Duplicate(w) \/ Overtake(w) \/ Crash(w) \/ Restart(w)
        \/ \E a \in Attempts : BrokerFills(w, a) \/ BrokerEnds(w, a)
  BY DEF Next
<1>3. CASE ThreadStep(w) \/ LocalEvent(w) \/ Envelope(w) \/ Crash(w) \/ Restart(w)
  <2>1. Account(w)'
    <3>1. Paces(w) => Account(w)'
      BY <1>1, RoutineAccount, WorkingAccount, AdoptsAccount, FinalizeAccount, RefuseAccount DEF Paces
    <3> QED
      BY <1>1, <1>3, <3>1, ThreadPaces, EventPaces, CrashAccount, RestartAccount
  <2>2. Touch(w)
    BY <1>1, <1>3, StepActs DEF Acts
  <2>3. ASSUME NEW v \in Workers, v # w PROVE Account(v)'
    <3>1. /\ run'[v] = run[v] /\ mem'[v] = mem[v] /\ disk'[v] = disk[v]
          /\ db'[v] = db[v] /\ jr'[v] = jr[v] /\ brk'[v] = brk[v] /\ Account(v)
      BY <1>1, <2>2, <2>3, TouchFrame
    <3> QED
      BY <1>1, <3>1, AccountFrame
  <2> QED
    BY <1>1, <2>1, <2>3 DEF ExposureInv
<1>4. CASE Lose(w) \/ Duplicate(w) \/ Overtake(w)
  <2>1. run' = run /\ mem' = mem /\ disk' = disk /\ db' = db /\ jr' = jr /\ brk' = brk
    BY <1>1, <1>4, RelaySteps
  <2>2. \A v \in Workers : Account(v)'
    BY <1>1, <2>1, AccountFrame
  <2> QED
    BY <1>1, <2>2 DEF ExposureInv
<1>5. ASSUME NEW a \in Attempts, BrokerFills(w, a) \/ BrokerEnds(w, a)
      PROVE  ExposureInv'
  <2>1. /\ run' = run /\ mem' = mem /\ disk' = disk /\ db' = db /\ jr' = jr
        /\ \A v \in Workers, b \in Attempts : (v # w \/ b # a) => brk'[v][b] = brk[v][b]
    BY <1>1, <1>5, BrokerSteps
  <2>2. brk[w][a] # "working"
    BY <1>1 DEF Account, Remembered, AtOnce
  <2>3. brk' = [brk EXCEPT ![w] = [brk[w] EXCEPT ![a] = "none"]]
    BY <1>5, <2>2 DEF BrokerFills, BrokerEnds
  <2>4. brk'[w][a] = "none"
    BY <1>1, <2>3 DEF OwnInv, TypeOK, Holding
  <2>5. \A v \in Workers, b \in Attempts : brk'[v][b] = brk[v][b] \/ brk'[v][b] = "none"
    BY <2>1, <2>4
  <2>6. \A v \in Workers : Account(v)'
    BY <1>1, <2>1, <2>5, AccountFrame
  <2> QED
    BY <1>1, <2>6 DEF ExposureInv
<1> QED
  BY <1>2, <1>3, <1>4, <1>5

LEMMA InitExposure ==
    ASSUME Init
    PROVE  ExposureInv
<1>1. PairInv
  BY InitPair
<1>2. \A w \in Workers : brk[w] = NoEntry /\ run[w] = Thread("idle")
  BY DEF Init
<1>3. \A w \in Workers : run[w].at = "idle"
  BY <1>2 DEF Thread
<1>4. \A w \in Workers, a \in Attempts : brk[w][a] = "none"
  BY <1>2 DEF NoEntry
<1>5. \A w \in Workers : Account(w)
  BY <1>3, <1>4 DEF Account, Remembered, Refused, SeenAll, Looking, Done, At, Exposed, Exposure,
                    Positions, AtOnce
<1> QED
  BY <1>1, <1>5 DEF ExposureInv

(* The accounts: where MT5 executes a market order at once, what an account  *)
(* holds is on record with the cell that opened it, through crashes,          *)
(* restarts, unknown outcomes and refused, raised or failed calls             *)
(* (_run_broker_write(), recover() and _apply_broker_snapshot()).             *)
THEOREM ExposureInvariant ==
    ASSUME Fills = {}
    PROVE  Spec => []ExposureInv
<1>1. Init => ExposureInv
  BY InitExposure
<1>2. ExposureInv /\ [Next]_vars => ExposureInv'
  <2>1. ASSUME ExposureInv, UNCHANGED vars PROVE ExposureInv'
    <3>1. PairInv /\ OwnInv /\ OwnInv' /\ \A v \in Workers : Account(v)
      BY <2>1, StutterOwn DEF ExposureInv, PairInv
    <3>2. UNCHANGED <<run, mem, leg, disk, db, jr, brk, inbox>>
      BY <2>1 DEF vars
    <3>3. PairInv'
      BY <3>1, <3>2, StillInv
    <3>4. \A v \in Workers : Account(v)'
      BY <3>1, <3>2, AccountFrame
    <3> QED
      BY <3>3, <3>4 DEF ExposureInv
  <2> QED
    BY <2>1, StepExposure
<1> QED
  BY <1>1, <1>2, PTL DEF Spec

(* A Worker never abandons exposure of its own: whatever its account holds of *)
(* an attempt, the attempt is the one it is at work on and the one that       *)
(* _load_persisted_state() would load after a crash.                          *)
THEOREM NothingAbandoned ==
    ASSUME Fills = {}
    PROVE  Spec => []NoAbandonedExposure
<1>1. ExposureInv => NoAbandonedExposure
  <2>1. SUFFICES ASSUME ExposureInv, NEW w \in Workers, NEW a \in Attempts, Exposed(w, a)
                 PROVE  a = Responsible(w) /\ a = Loaded(w)
    BY DEF NoAbandonedExposure
  <2>2. Remembers(w, a)
    BY <2>1 DEF ExposureInv, Account, Remembered
  <2> QED
    BY <2>2 DEF Remembers, Responsible, Loaded, Attempts, NoAttempt
<1> QED
  BY <1>1, ExposureInvariant, PTL

(* An attempt that a Worker finished with "both_empty_verified"               *)
(* (_maybe_finalize_empty()) is flat on the other account too, and no entry   *)
(* of it waits there to be sent.                                              *)
THEOREM TerminalForBoth ==
    ASSUME Fills = {}
    PROVE  Spec => []PairTerminal
<1>1. ExposureInv /\ NoEntryAfterEnd => PairTerminal
  <2>1. SUFFICES ASSUME ExposureInv, NoEntryAfterEnd, NEW w \in Workers, NEW a \in Attempts,
                        db[w].row[a] = "both_empty"
                 PROVE  ~Exposed(Peer(w), a) /\ jr[Peer(w)][a]["entry"] # "prepared"
    BY DEF PairTerminal
  <2>2. Spent(Peer(w), a) /\ Peer(w) \in Workers /\ Remembered(Peer(w))
    BY <2>1, PeerFacts DEF ExposureInv, PairInv, BothSpent, Account
  <2> QED
    BY <2>1, <2>2, SpentFlat DEF NoEntryAfterEnd
<1> QED
  BY <1>1, ExposureInvariant, NothingToSend, PTL

(* One attempt at a time: once the leader prepares the entry of an attempt    *)
(* (_maybe_create_attempt() and _prepare_entry_effect()), both accounts are   *)
(* flat of every earlier one.                                                 *)
THEOREM OneAtATime ==
    ASSUME Fills = {}
    PROVE  Spec => []OneAttemptAtATime
<1>1. ExposureInv => OneAttemptAtATime
  <2>1. SUFFICES ASSUME ExposureInv, NEW a \in Attempts, NEW b \in Attempts, a < b,
                        jr["leader"][b]["entry"] # "none", NEW w \in Workers
                 PROVE  ~Exposed(w, a)
    BY DEF OneAttemptAtATime
  <2>2. /\ OwnInv /\ BothSpent /\ Own("leader") /\ Remembered(w) /\ "leader" \in Workers
        /\ "entry" \in Effects /\ db["leader"] \in Rows
    BY <2>1 DEF ExposureInv, PairInv, OwnInv, TypeOK, Account, Workers, Effects
  <2>3. db["leader"].row[b] # "none"
    BY <2>1, <2>2 DEF Own, EntryKept
  <2>4. db["leader"].last \in Nat /\ a \in Nat /\ b \in Nat
    BY <2>2 DEF Rows, Attempts, NoAttempt
  <2>5. Terminal(db["leader"].row[a])
    BY <2>1, <2>2, <2>3, <2>4 DEF Own, RowsKept
  <2>6. Spent(w, a)
    BY <2>2, <2>5 DEF BothSpent, Spent, Workers
  <2> QED
    BY <2>2, <2>6, SpentFlat
<1> QED
  BY <1>1, ExposureInvariant, PTL
====
