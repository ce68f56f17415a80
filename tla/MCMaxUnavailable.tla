------------------------- MODULE MCMaxUnavailable -------------------------
(***************************************************************************)
(* maxUnavailable over every value within bounds, for every number of      *)
(* enactments a rollout goes through.                                      *)
(***************************************************************************)
EXTENDS MaxUnavailable

CONSTANTS
    MaxNodes,  \* bound on the number of enactments
    MaxValue,  \* bound on the number in the field
    Negative   \* bound on how far below zero it is

ASSUME ValuesAssumption == MaxNodes \in Nat /\ MaxValue \in Nat /\ Negative \in Nat

Values == [type : ValueTypes, val : (-Negative)..MaxValue]

Cases == [total : 0..MaxNodes, value : Values]

Result(c) == MaxUnavailableNodeCount(c.total, c.value)

\* Neither may a node be unavailable nor is the value reported as invalid.
Blocked == {c \in Cases : c.total > 0 /\ Usable(Result(c)) /\ Result(c).count < 1}

Misrounded ==
    {c \in Cases :
        /\ c.value.type = "percent"
        /\ \/ 100 * Result(c).count < c.value.val * c.total
           \/ 100 * (Result(c).count - 1) >= c.value.val * c.total
           \/ c.value.val \in 0..100 /\ Result(c).count \notin 0..c.total}

Shrinking ==
    {c \in Cases : /\ c.total < MaxNodes /\ c.value.val >= 0
                   /\ Result([c EXCEPT !.total = @ + 1]).count < Result(c).count}
=============================================================================
