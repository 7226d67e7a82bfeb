------------------------ MODULE EffectJournal_proofs ------------------------
(***************************************************************************)
(* The no-blind-retry guarantees of the effect journal, for any set of     *)
(* effect IDs and payloads.                                                *)
(***************************************************************************)
EXTENDS EffectJournal, TLAPS

(* JournalInv holds initially: no row exists, nothing was called.           *)
LEMMA InitJournalInv == Init => JournalInv
<1> SUFFICES ASSUME Init PROVE JournalInv
    OBVIOUS
<1> USE MaxCallsAssumption DEF Init, NoRow, Idle
<1>1. TypeOK
    BY DEF MaxCallsAssumption, TypeOK, Row, States, Evidence, Writers
<1>2. WriterAgrees
    BY DEF WriterAgrees
<1>3. UnsentRows /\ SentAtMostOnce /\ ReceiptMeansSent
    BY DEF UnsentRows, SentAtMostOnce, ReceiptMeansSent
<1> QED
    BY <1>1, <1>2, <1>3 DEF JournalInv

(* _update() sets one row's state and evidence and leaves the rest alone.    *)
LEMMA UpdateRow ==
    ASSUME journal \in [Effects -> Row],
           NEW e \in Effects, NEW state \in States, NEW evidence \in Evidence,
           Update(e, state, evidence)
    PROVE  /\ journal' \in [Effects -> Row]
           /\ journal'[e].state = state
           /\ \A i \in Effects \ {e} : journal'[i] = journal[i]
<1>1. journal[e] \in Row
    OBVIOUS
<1>2. [journal[e] EXCEPT !.state = state, !.evidence = evidence] \in Row
    BY <1>1 DEF Row
<1> QED
    BY <1>1, <1>2 DEF Update, Row

(* Every step of the write routine, of the snapshot handler and every crash  *)
(* preserves JournalInv.                                                     *)
LEMMA NextJournalInv == JournalInv /\ [Next]_vars => JournalInv'
<1> SUFFICES ASSUME JournalInv, [Next]_vars PROVE JournalInv'
    OBVIOUS
<1> USE DEF JournalInv, TypeOK, Writers, Idle
<1>1. ASSUME NEW e \in Effects, NEW p \in Payloads, BeginWrite(e, p) PROVE JournalInv'
  <2>1. TypeOK'
      BY <1>1 DEF BeginWrite, Prepared, Row, States, Evidence, At
  <2>2. WriterAgrees'
      BY <1>1 DEF BeginWrite, At, WriterAgrees
  <2>3. UnsentRows' /\ SentAtMostOnce' /\ ReceiptMeansSent'
      BY <1>1 DEF BeginWrite, Prepared, Row, UnsentRows, SentAtMostOnce, ReceiptMeansSent
  <2> QED
      BY <2>1, <2>2, <2>3
<1>2. CASE RefusedBeforeSend
  <2>1. writer.effect \in Effects /\ Update(writer.effect, "observed", "observation")
      BY <1>2 DEF RefusedBeforeSend
  <2>2. /\ journal' \in [Effects -> Row]
        /\ journal'[writer.effect].state = "observed"
        /\ \A i \in Effects \ {writer.effect} : journal'[i] = journal[i]
      BY <2>1, UpdateRow DEF States, Evidence
  <2>3. TypeOK' /\ WriterAgrees'
      BY <1>2, <2>2 DEF RefusedBeforeSend, WriterAgrees
  <2>4. UnsentRows' /\ SentAtMostOnce' /\ ReceiptMeansSent'
      BY <1>2, <2>1, <2>2 DEF RefusedBeforeSend, UnsentRows, SentAtMostOnce, ReceiptMeansSent
  <2> QED
      BY <2>3, <2>4
<1>3. CASE MarkSendStarted
  <2>1. writer.effect \in Effects /\ Update(writer.effect, "send_started", "none")
      BY <1>3 DEF MarkSendStarted
  <2>2. /\ journal' \in [Effects -> Row]
        /\ journal'[writer.effect].state = "send_started"
        /\ \A i \in Effects \ {writer.effect} : journal'[i] = journal[i]
      BY <2>1, UpdateRow DEF States, Evidence
  <2>3. writer' = [writer EXCEPT !.at = "started"] /\ writer'.effect = writer.effect
      BY <1>3 DEF MarkSendStarted
  <2>4. TypeOK'
      BY <1>3, <2>2, <2>3 DEF MarkSendStarted
  <2>5. calls[writer.effect] = 0
      BY <1>3, <2>1 DEF MarkSendStarted, UnsentRows
  <2>6. WriterAgrees'
      BY <1>3, <2>1, <2>2, <2>3, <2>5 DEF MarkSendStarted, WriterAgrees
  <2>7. UnsentRows' /\ SentAtMostOnce' /\ ReceiptMeansSent'
      BY <1>3, <2>1, <2>2 DEF MarkSendStarted, UnsentRows, SentAtMostOnce, ReceiptMeansSent
  <2> QED
      BY <2>4, <2>6, <2>7
<1>4. CASE OrderSend
  <2>1. /\ writer.effect \in Effects
        /\ journal[writer.effect].state = "send_started"
        /\ calls[writer.effect] = 0
      BY <1>4 DEF OrderSend, WriterAgrees
  <2>2. writer' = [writer EXCEPT !.at = "called"] /\ writer'.effect = writer.effect
      BY <1>4 DEF OrderSend
  <2>3. /\ calls' \in [Effects -> 0 .. MaxCalls]
        /\ calls'[writer.effect] = 1
        /\ \A i \in Effects \ {writer.effect} : calls'[i] = calls[i]
      BY <1>4, <2>1, MaxCallsAssumption DEF OrderSend, MaxCallsAssumption
  <2>4. TypeOK'
      BY <1>4, <2>2, <2>3 DEF OrderSend
  <2>5. WriterAgrees'
      BY <1>4, <2>1, <2>2, <2>3 DEF OrderSend, WriterAgrees
  <2>6. UnsentRows' /\ SentAtMostOnce' /\ ReceiptMeansSent'
      BY <1>4, <2>1, <2>3 DEF OrderSend, UnsentRows, SentAtMostOnce, ReceiptMeansSent
  <2> QED
      BY <2>4, <2>5, <2>6
<1>5. ASSUME NEW evidence \in {"success", "rejected"}, RecordReceipt(evidence) PROVE JournalInv'
  <2>1. /\ writer.effect \in Effects
        /\ calls[writer.effect] = 1
        /\ Update(writer.effect, "receipt", evidence)
      BY <1>5 DEF RecordReceipt, WriterAgrees, MayComplete
  <2>2. /\ journal' \in [Effects -> Row]
        /\ journal'[writer.effect].state = "receipt"
        /\ \A i \in Effects \ {writer.effect} : journal'[i] = journal[i]
      BY <2>1, UpdateRow DEF States, Evidence
  <2>3. TypeOK' /\ WriterAgrees'
      BY <1>5, <2>2 DEF RecordReceipt, WriterAgrees
  <2>4. UnsentRows' /\ SentAtMostOnce' /\ ReceiptMeansSent'
      BY <1>5, <2>1, <2>2 DEF RecordReceipt, UnsentRows, SentAtMostOnce, ReceiptMeansSent
  <2> QED
      BY <2>3, <2>4
<1>6. ASSUME NEW e \in Effects, RecordObservation(e) PROVE JournalInv'
  <2>1. /\ journal' \in [Effects -> Row]
        /\ journal'[e].state = "observed"
        /\ \A i \in Effects \ {e} : journal'[i] = journal[i]
      BY <1>6, UpdateRow DEF RecordObservation, States, Evidence
  <2>2. TypeOK' /\ WriterAgrees'
      BY <1>6, <2>1 DEF RecordObservation, WriterAgrees
  <2>3. UnsentRows' /\ SentAtMostOnce' /\ ReceiptMeansSent'
      BY <1>6, <2>1 DEF RecordObservation, UnsentRows, SentAtMostOnce, ReceiptMeansSent
  <2> QED
      BY <2>2, <2>3
<1>7. CASE AbandonedBeforeSend \/ NoReceipt \/ Crash
  <2>1. writer' = Idle /\ journal' = journal /\ calls' = calls
      BY <1>7 DEF AbandonedBeforeSend, NoReceipt, Crash
  <2>2. TypeOK' /\ WriterAgrees'
      BY <2>1 DEF WriterAgrees
  <2>3. UnsentRows' /\ SentAtMostOnce' /\ ReceiptMeansSent'
      BY <2>1 DEF UnsentRows, SentAtMostOnce, ReceiptMeansSent
  <2> QED
      BY <2>2, <2>3
<1>8. CASE UNCHANGED vars
    BY <1>8 DEF vars, WriterAgrees, UnsentRows, SentAtMostOnce, ReceiptMeansSent
<1> QED
    BY <1>1, <1>2, <1>3, <1>4, <1>5, <1>6, <1>7, <1>8 DEF Next

(* JournalInv is an invariant of the journal.                                *)
THEOREM JournalInvariant == Spec => []JournalInv
  BY InitJournalInv, NextJournalInv, PTL DEF Spec

(* The rows, the writer and the call counts keep their shape.                *)
THEOREM TypeCorrect == Spec => []TypeOK
<1>1. JournalInv => TypeOK
    BY DEF JournalInv
<1> QED
    BY <1>1, JournalInvariant, PTL

(* order_send is called at most once for every effect ID, across crashes,    *)
(* lost receipts and repeated requests.                                      *)
THEOREM AtMostOnce == Spec => []SentAtMostOnce
<1>1. JournalInv => SentAtMostOnce
    BY DEF JournalInv
<1> QED
    BY <1>1, JournalInvariant, PTL

(* A row still in "prepared" proves that MT5 was never called for it.        *)
THEOREM PreparedUnsent == Spec => []PreparedMeansUnsent
<1>1. JournalInv => PreparedMeansUnsent
    BY DEF JournalInv, UnsentRows, PreparedMeansUnsent
<1> QED
    BY <1>1, JournalInvariant, PTL

(* A recorded receipt belongs to an effect that was sent exactly once.       *)
THEOREM ReceiptSent == Spec => []ReceiptMeansSent
<1>1. JournalInv => ReceiptMeansSent
    BY DEF JournalInv
<1> QED
    BY <1>1, JournalInvariant, PTL

(* Conclusive evidence and the payload of an effect ID are never rewritten.  *)
THEOREM EvidenceFinal == Spec => EvidenceIsFinal
<1> DEFINE A == \A e \in Effects :
          /\ journal[e].state \in {"receipt", "observed"} => journal'[e] = journal[e]
          /\ journal[e].state # "absent" => journal'[e].payload = journal[e].payload
<1>1. JournalInv /\ [Next]_vars => [A]_vars
  <2> SUFFICES ASSUME JournalInv, Next PROVE A
      OBVIOUS
  <2> USE DEF JournalInv, TypeOK, WriterAgrees, Row, Idle, Writers, At
  <2>1. ASSUME NEW e \in Effects, NEW p \in Payloads, BeginWrite(e, p) PROVE A
      BY <2>1 DEF BeginWrite, Prepared
  <2>2. CASE RefusedBeforeSend
      BY <2>2 DEF RefusedBeforeSend, Update, Unresolved
  <2>2a. CASE AbandonedBeforeSend
      BY <2>2a DEF AbandonedBeforeSend
  <2>3. CASE MarkSendStarted
      BY <2>3 DEF MarkSendStarted, Update
  <2>4. CASE OrderSend
      BY <2>4 DEF OrderSend
  <2>5. ASSUME NEW evidence \in {"success", "rejected"}, RecordReceipt(evidence) PROVE A
      BY <2>5 DEF RecordReceipt, Update
  <2>6. CASE NoReceipt
      BY <2>6 DEF NoReceipt
  <2>7. ASSUME NEW e \in Effects, RecordObservation(e) PROVE A
      BY <2>7 DEF RecordObservation, Update, Unresolved
  <2>8. CASE Crash
      BY <2>8 DEF Crash
  <2> QED
      BY <2>1, <2>2, <2>2a, <2>3, <2>4, <2>5, <2>6, <2>7, <2>8 DEF Next
<1> QED
    BY <1>1, JournalInvariant, PTL DEF Spec, EvidenceIsFinal

(* The write routine implements the abstract lifecycle of an effect: the     *)
(* state of a row only moves forward, through the send boundary at most once. *)
THEOREM LifecycleImplemented == Spec => ImplementsLifecycle
<1> DEFINE effect == [e \in Effects |-> journal[e].state]
<1>1. Init => Lifecycle!Init
    BY DEF Init, NoRow, Lifecycle!Init
<1>2. JournalInv /\ [Next]_vars => [Lifecycle!Next]_effect
  <2> SUFFICES ASSUME JournalInv, Next PROVE Lifecycle!Next \/ effect' = effect
      BY DEF vars
  <2>1. JournalInv'
      BY NextJournalInv
  <2>2. effect' \in [Effects -> Lifecycle!States]
      BY <2>1 DEF JournalInv, TypeOK, Row, States, Lifecycle!States
  <2> DEFINE Moves(i) == journal'[i].state = journal[i].state
                         \/ <<journal[i].state, journal'[i].state>> \in Lifecycle!Follows
  <2>3. \A i \in Effects : Moves(i)
    <3> USE DEF JournalInv, TypeOK, WriterAgrees, Row, Idle, Writers, At, Lifecycle!Follows
    <3>1. ASSUME NEW e \in Effects, NEW p \in Payloads, BeginWrite(e, p)
          PROVE \A i \in Effects : Moves(i)
        BY <3>1 DEF BeginWrite, Prepared
    <3>2. CASE RefusedBeforeSend
        BY <3>2 DEF RefusedBeforeSend, Update, Unresolved
    <3>3. CASE MarkSendStarted
        BY <3>3 DEF MarkSendStarted, Update
    <3>4. ASSUME NEW evidence \in {"success", "rejected"}, RecordReceipt(evidence)
          PROVE \A i \in Effects : Moves(i)
        BY <3>4 DEF RecordReceipt, Update
    <3>5. ASSUME NEW e \in Effects, RecordObservation(e)
          PROVE \A i \in Effects : Moves(i)
        BY <3>5 DEF RecordObservation, Update, Unresolved
    <3>6. CASE AbandonedBeforeSend \/ OrderSend \/ NoReceipt \/ Crash
        BY <3>6 DEF AbandonedBeforeSend, OrderSend, NoReceipt, Crash
    <3> QED
        BY <3>1, <3>2, <3>3, <3>4, <3>5, <3>6 DEF Next
  <2> QED
      BY <2>2, <2>3 DEF Lifecycle!Next
<1> QED
    BY <1>1, <1>2, JournalInvariant, PTL DEF Spec, ImplementsLifecycle, Lifecycle!Spec
=============================================================================
