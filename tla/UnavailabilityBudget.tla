----------------------- MODULE UnavailabilityBudget -----------------------
(***************************************************************************)
(* What maxUnavailable promises, with nothing of how it is kept: of every  *)
(* generation of a policy at most Limit(members) nodes are unavailable,    *)
(* where members is the number of nodes that take part in the rollout.     *)
(* Nodes become unavailable and available again one at a time.             *)
(***************************************************************************)
EXTENDS Naturals, FiniteSets

CONSTANTS
    Nodes,
    Generations,
    Limit(_)

VARIABLES
    unavailable,  \* for every generation, the nodes it makes unavailable
    members       \* how many nodes take part

budgetVars == <<unavailable, members>>

BudgetInit ==
    /\ unavailable = [g \in Generations |-> {}]
    /\ members = 0

\* Node n becomes unavailable because of generation g.
Take(n, g) ==
    /\ n \notin unavailable[g]
    /\ Cardinality(unavailable[g]) < Limit(members)
    /\ unavailable' = [unavailable EXCEPT ![g] = @ \cup {n}]
    /\ UNCHANGED members

Free(n, g) ==
    /\ n \in unavailable[g]
    /\ unavailable' = [unavailable EXCEPT ![g] = @ \ {n}]
    /\ UNCHANGED members

Join ==
    /\ members < Cardinality(Nodes)
    /\ members' = members + 1
    /\ UNCHANGED unavailable

BudgetNext ==
    \/ Join
    \/ \E n \in Nodes, g \in Generations : Take(n, g) \/ Free(n, g)

BudgetSpec == BudgetInit /\ [][BudgetNext]_budgetVars
=============================================================================
