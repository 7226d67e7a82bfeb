--------------------------- MODULE EffectLifecycle ---------------------------
(***************************************************************************)
(* What the journal promises about a broker effect, seen from outside: its *)
(* state only moves forward, through the send boundary at most once, and a *)
(* receipt is only recorded beyond that boundary.  EffectJournal and       *)
(* PairCell implement it; several effects may move in one of their steps.  *)
(***************************************************************************)
CONSTANT Ids         \* broker effects
VARIABLE effect      \* effect -> its state

States == {"absent", "prepared", "send_started", "receipt", "observed"}

\* Prepare, cross the boundary, and one conclusive kind of evidence.
Follows == {<<"absent", "prepared">>,
            <<"prepared", "send_started">>, <<"prepared", "observed">>,
            <<"send_started", "receipt">>, <<"send_started", "observed">>}

Init == effect = [i \in Ids |-> "absent"]

Next ==
    /\ effect' \in [Ids -> States]
    /\ \A i \in Ids : effect'[i] = effect[i] \/ <<effect[i], effect'[i]>> \in Follows

Spec == Init /\ [][Next]_effect
=============================================================================
