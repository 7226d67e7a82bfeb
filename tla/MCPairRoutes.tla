--------------------------- MODULE MCPairRoutes ---------------------------
(***************************************************************************)
(* PairRoutes for TLC: two leaders and a follower that are approved, each  *)
(* on an account of its own, and a second follower on the account of the   *)
(* first, which can be approved when the first is gone.                    *)
(***************************************************************************)
EXTENDS PairRoutes, TLC

CONSTANTS Leader1, Leader2, Follower1, Successor

MCWorkers == {Leader1, Leader2, Follower1, Successor}
MCAccount == (Leader1 :> "a") @@ (Leader2 :> "c") @@ (Follower1 :> "b") @@ (Successor :> "b")
MCApproved == {Leader1, Leader2, Follower1}
MCLeaders == {Leader1, Leader2}

\* Bound on top of the constants.  The leaders compete in every way as long as
\* nothing is upset, and with a lost session or a restart until a route is
\* there.  All other upsets are explored for the first leader, before the second
\* begins to select, and two of them only on its first proposal.
Scope ==
    \/ wk[Leader2].pairing = "selecting" /\ (proposed <= 1 \/ commands + faults <= 1)
    \/ commands = 0 /\ faults = 0
    \/ commands = 0 /\ routes = {} /\ \A w \in Approved : Active(w)
=============================================================================
