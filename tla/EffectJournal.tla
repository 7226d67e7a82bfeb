--------------------------- MODULE EffectJournal ---------------------------
(***************************************************************************)
(* WorkerEffectJournal (src/abt/worker/effect_journal.py) and the broker   *)
(* write routine around it (_execute_broker_operation and                  *)
(* _journaled_order_send in src/abt/worker/reconciliation.py).             *)
(*                                                                         *)
(* The journal is a durable table: one row per effect ID, with the hash of *)
(* its payload, a state and, once conclusive, the evidence.  The writer is *)
(* volatile: it is one call of the write routine, which a crash of the     *)
(* Worker process may end between any two of its steps.  Each commit of    *)
(* the journal and the MT5 call itself are steps of their own, because     *)
(* those are the points a crash can separate.                              *)
(***************************************************************************)
EXTENDS Naturals

CONSTANTS Effects,      \* effect IDs a Worker may use
          Payloads,     \* distinct canonical payloads (compared by hash)
          MaxCalls      \* bound on the calls counted per effect ID

ASSUME MaxCallsAssumption == MaxCalls \in Nat /\ MaxCalls >= 2

VARIABLES
    journal,    \* effect ID -> its row (durable)
    writer,     \* the write routine in progress, or Idle (volatile)
    calls       \* effect ID -> how often order_send has been called for it

vars == <<journal, writer, calls>>

-----------------------------------------------------------------------------
(* Rows.  Evidence is what the row's evidence column says: a receipt is a   *)
(* success or a rejection, an observation is neither.                       *)

States == {"absent", "prepared", "send_started", "receipt", "observed"}
Evidence == {"none", "success", "rejected", "observation"}
NoPayload == "no payload"

Row == [state : States, payload : Payloads \cup {NoPayload}, evidence : Evidence]
NoRow == [state |-> "absent", payload |-> NoPayload, evidence |-> "none"]

\* unresolved(): the rows that block entry readiness.
Unresolved == {e \in Effects : journal[e].state \in {"prepared", "send_started"}}

Idle == [at |-> "idle"]
At(where, e, p) == [at |-> where, effect |-> e, payload |-> p]

-----------------------------------------------------------------------------
(* _update(): every change of a row's state and evidence goes through it.   *)

Update(e, state, evidence) ==
    journal' = [journal EXCEPT ![e].state = state, ![e].evidence = evidence]

\* _complete(): evidence may not contradict conclusive evidence of the other
\* kind; the same kind may be recorded again.
MayComplete(e, state) == journal[e].state \in {"prepared", "send_started", state}

\* Fault: INSERT OR REPLACE instead of returning the existing row.
Prepared_Replacing(e, p) ==
    [journal EXCEPT ![e] = [state |-> "prepared", payload |-> p, evidence |-> "none"]]

\* prepare(): insert a row, accept an equal one, refuse another payload.
Conflicts(e, p) == journal[e].state # "absent" /\ journal[e].payload # p
Prepared(e, p) ==
    IF journal[e].state = "absent"
    THEN [journal EXCEPT ![e] = [state |-> "prepared", payload |-> p, evidence |-> "none"]]
    ELSE journal

-----------------------------------------------------------------------------
Init ==
    /\ journal = [e \in Effects |-> NoRow]
    /\ writer = Idle
    /\ calls = [e \in Effects |-> 0]

(* A write is requested.  Only a row that is "prepared" after prepare() goes *)
(* on to the send; a conclusive row is answered from its evidence, a row in  *)
(* send_started is refused as uncertain, and a payload conflict raises.      *)
BeginWrite(e, p) ==
    /\ writer = Idle
    /\ ~Conflicts(e, p)
    /\ journal' = Prepared(e, p)
    /\ writer' = IF journal'[e].state = "prepared" THEN At("ready", e, p) ELSE Idle
    /\ UNCHANGED calls

\* Fault: the refusal is stored as a broker receipt.
RefusedBeforeSend_AsReceipt ==
    /\ writer.at = "ready"
    /\ Update(writer.effect, "receipt", "rejected")
    /\ writer' = Idle
    /\ UNCHANGED calls

(* before_broker_send() raised BrokerActionNotStarted in the Pair Execution  *)
(* Cell, whose _not_started() records that as an observation.                *)
RefusedBeforeSend ==
    /\ writer.at = "ready"
    /\ writer.effect \in Unresolved
    /\ Update(writer.effect, "observed", "observation")
    /\ writer' = Idle
    /\ UNCHANGED calls

(* The same refusal, or a failed permission check, in the reconciliation     *)
(* loop: the row stays prepared.                                             *)
AbandonedBeforeSend ==
    /\ writer.at = "ready"
    /\ writer' = Idle
    /\ UNCHANGED <<journal, calls>>

\* Fault: the boundary is crossed without being committed.
MarkSendStarted_NotCommitted ==
    /\ writer.at = "ready"
    /\ journal[writer.effect].state = "prepared"
    /\ writer' = [writer EXCEPT !.at = "started"]
    /\ UNCHANGED <<journal, calls>>

(* mark_send_started(): the irreversible boundary, crossed from "prepared"   *)
(* only.                                                                     *)
MarkSendStarted ==
    /\ writer.at = "ready"
    /\ journal[writer.effect].state = "prepared"
    /\ Update(writer.effect, "send_started", "none")
    /\ writer' = [writer EXCEPT !.at = "started"]
    /\ UNCHANGED calls

(* mt5.order_send(request), right after the boundary.                        *)
OrderSend ==
    /\ writer.at = "started"
    /\ calls[writer.effect] < MaxCalls
    /\ calls' = [calls EXCEPT ![writer.effect] = @ + 1]
    /\ writer' = [writer EXCEPT !.at = "called"]
    /\ UNCHANGED journal

(* The call returned a receipt and record_receipt() stores it; a conflict    *)
(* with an observation leaves the row as it is.                              *)
RecordReceipt(evidence) ==
    /\ writer.at = "called"
    /\ IF MayComplete(writer.effect, "receipt")
       THEN Update(writer.effect, "receipt", evidence)
       ELSE UNCHANGED journal
    /\ writer' = Idle
    /\ UNCHANGED calls

\* Fault: the routine ends without giving the writer back.
NoReceipt_KeepsWriter ==
    /\ writer.at = "called"
    /\ writer' = [writer EXCEPT !.at = "unknown"]
    /\ UNCHANGED <<journal, calls>>

(* The call raised, or returned no usable receipt: unknown_after_send.       *)
NoReceipt ==
    /\ writer.at = "called"
    /\ writer' = Idle
    /\ UNCHANGED <<journal, calls>>

\* Fault: an effect the broker does not show is prepared again.
RecordObservation_Reprepared(e) ==
    /\ writer = Idle
    /\ e \in Unresolved
    /\ Update(e, "prepared", "none")
    /\ UNCHANGED <<writer, calls>>

(* _record_effect_observation(): a broker snapshot settles an unresolved     *)
(* effect.  The snapshot is applied by the same thread, between two writes.  *)
RecordObservation(e) ==
    /\ writer = Idle
    /\ e \in Unresolved
    /\ Update(e, "observed", "observation")
    /\ UNCHANGED <<writer, calls>>

(* The Worker process ends; only the journal survives.                       *)
Crash ==
    /\ writer # Idle
    /\ writer' = Idle
    /\ UNCHANGED <<journal, calls>>

Next ==
    \/ \E e \in Effects, p \in Payloads : BeginWrite(e, p)
    \/ RefusedBeforeSend
    \/ AbandonedBeforeSend
    \/ MarkSendStarted
    \/ OrderSend
    \/ \E evidence \in {"success", "rejected"} : RecordReceipt(evidence)
    \/ NoReceipt
    \/ \E e \in Effects : RecordObservation(e)
    \/ Crash

Spec == Init /\ [][Next]_vars

-----------------------------------------------------------------------------
(* Type correctness: rows, the writer and the call counts keep their shape,  *)
(* and the writer only ever holds an effect whose row exists.                *)
Writers == {Idle} \cup [at : {"ready", "started", "called"}, effect : Effects, payload : Payloads]

TypeOK ==
    /\ journal \in [Effects -> Row]
    /\ writer \in Writers
    /\ calls \in [Effects -> 0 .. MaxCalls]

(* No blind retry: whatever crashes, lost receipts, repeated requests and    *)
(* late observations happen, order_send is called at most once per effect ID *)
(* (mark_send_started refuses any row that left "prepared").                 *)
SentAtMostOnce == \A e \in Effects : calls[e] <= 1

(* A row that still says "prepared" proves that MT5 was never called: the    *)
(* restart path of the cell relies on it to report expired_not_started.      *)
PreparedMeansUnsent == \A e \in Effects : journal[e].state = "prepared" => calls[e] = 0

(* A broker receipt is only ever recorded for an effect that was really      *)
(* sent; an observation may also settle an effect that never was.            *)
ReceiptMeansSent == \A e \in Effects : journal[e].state = "receipt" => calls[e] = 1

(* Conclusive evidence is final: a receipt never turns into an observation   *)
(* or the reverse, and the payload of an effect ID never changes, so that a  *)
(* replay answers what the broker answered first.                            *)
EvidenceIsFinal ==
    [][\A e \in Effects :
          /\ journal[e].state \in {"receipt", "observed"} => journal'[e] = journal[e]
          /\ journal[e].state # "absent" => journal'[e].payload = journal[e].payload]_vars

\* The rows, without payload and evidence, are an abstract effect each.
Lifecycle == INSTANCE EffectLifecycle
    WITH Ids <- Effects, effect <- [e \in Effects |-> journal[e].state]

(* The write routine, crashed and repeated at will, implements the abstract   *)
(* lifecycle of an effect: the state of a row only moves forward.            *)
ImplementsLifecycle == Lifecycle!Spec

-----------------------------------------------------------------------------
(* The inductive invariant of the proofs: where the writer stands decides    *)
(* what its row says and whether MT5 has been called.                        *)
WriterAgrees ==
    /\ writer.at = "ready" => journal[writer.effect].state = "prepared"
    /\ writer.at = "started" =>
          journal[writer.effect].state = "send_started" /\ calls[writer.effect] = 0
    /\ writer.at = "called" =>
          journal[writer.effect].state = "send_started" /\ calls[writer.effect] = 1

UnsentRows == \A e \in Effects : journal[e].state \in {"absent", "prepared"} => calls[e] = 0

JournalInv ==
    /\ TypeOK
    /\ WriterAgrees
    /\ UnsentRows
    /\ SentAtMostOnce
    /\ ReceiptMeansSent
=============================================================================
