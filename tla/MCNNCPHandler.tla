--------------------------- MODULE MCNNCPHandler ---------------------------
(***************************************************************************)
(* Small instances of NNCPHandler for TLC.                                 *)
(***************************************************************************)
EXTENDS NNCPHandler, MaxUnavailable, TLC

Symmetry == Permutations(Nodes)

\* maxUnavailable: 1
LimitOne(k) == MaxUnavailableNodeCount(k, [type |-> "int", val |-> 1]).count

\* maxUnavailable: "2"
LimitTwo(k) == MaxUnavailableNodeCount(k, [type |-> "intString", val |-> 2]).count

\* The default, half of the nodes.
LimitHalf(k) == MaxUnavailableNodeCount(k, [type |-> "nil", val |-> 0]).count

\* A value that resolves to no node, persisted before the CRD refused it.
LimitZero(k) == MaxUnavailableNodeCount(k, [type |-> "percent", val |-> 0]).count
=============================================================================
