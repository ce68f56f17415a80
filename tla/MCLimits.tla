----------------------------- MODULE MCLimits -----------------------------
(***************************************************************************)
(* The handlers under a maxUnavailable that is no limit, and what any      *)
(* other value in its place would come to.                                 *)
(***************************************************************************)
EXTENDS MCNNCPHandler, MCMaxUnavailable

Claims == \E n \in Nodes : Claim(n)

\* No value deadlocks the rollout: whenever a node claims a slot, whatever the
\* field holds and however many nodes take part, at least one node may be
\* unavailable or the value is reported as invalid
\* (ScaledMaxUnavailableNodeCount).
NoValueBlocksTheRollout == [][Claims => Blocked = {}]_vars

\* A percentage is rounded up to the smallest number of nodes that is not
\* below it: a claim is never judged by more than one node above the exact
\* share, and up to 100% never by more than the nodes there are.
PercentageIsRoundedUp == [][Claims => Misrounded = {}]_vars

\* While a rollout spreads over the nodes its limit never shrinks, so a slot
\* that was free for a node stays within the limit when others join
\* (MaxUnavailableNodeCount is given the number of enactments so far).
LimitGrowsWithTheRollout ==
    [][numberOfEnactments' > numberOfEnactments => Shrinking = {}]_vars
=============================================================================
