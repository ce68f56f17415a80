-------------------------- MODULE MaxUnavailable --------------------------
(***************************************************************************)
(* pkg/node/nodes.go: the number of nodes that spec.maxUnavailable of a    *)
(* policy allows to be unavailable, given the number of its enactments.    *)
(*                                                                         *)
(* The field is an integer or a string.  What matters of a string is       *)
(* whether it is a percentage, an integer, or neither, and the number it   *)
(* holds; a value is a record [type, val] with type one of ValueTypes.     *)
(***************************************************************************)
EXTENDS Integers

ValueTypes == {"nil",        \* the field is not set
               "int",        \* 5
               "intString",  \* "5"
               "percent",    \* "5%"
               "badPercent", \* "x%"
               "badString"}  \* "x"

DefaultMaxunavailable == [type |-> "percent", val |-> 50]

MinMaxunavailable == 1

Errors == {"none", "invalid", "other"}

\* Mutation of CeilPercent: rounded down.
FloorPercent(x) == x \div 100

\* Division by 100, rounded up.
CeilPercent(x) == -((-x) \div 100)

\* intstr.GetScaledValueFromIntOrPercent, rounding up, of a value it accepts.
Scaled(v, total) == IF v.type = "percent" THEN CeilPercent(v.val * total) ELSE v.val

scaledDefaultMaxUnavailableNodeCount(matchingNodes) ==
    Scaled(DefaultMaxunavailable, matchingNodes)

\* Mutation of ScaledMaxUnavailableNodeCount: a limit of zero is no error.
ScaledUnchecked(matchingNodes, v) ==
    CASE v.type = "badString" ->
           [count |-> scaledDefaultMaxUnavailableNodeCount(matchingNodes), err |-> "invalid"]
      [] v.type = "badPercent" ->
           [count |-> scaledDefaultMaxUnavailableNodeCount(matchingNodes), err |-> "other"]
      [] v.type \in {"int", "intString", "percent"} ->
           [count |-> Scaled(v, matchingNodes), err |-> "none"]

\* Mutation of ScaledMaxUnavailableNodeCount: a percentage is rounded down, and
\* the default is used where that leaves no node.
ScaledDownOrDefault(matchingNodes, v) ==
    LET down == IF v.type = "percent" THEN FloorPercent(v.val * matchingNodes) ELSE v.val
    IN  [count |-> IF down < MinMaxunavailable
                   THEN scaledDefaultMaxUnavailableNodeCount(matchingNodes) ELSE down,
         err |-> "none"]

\* The count, and the error that comes with it: "invalid" is
\* InvalidMaxUnavailableError.
ScaledMaxUnavailableNodeCount(matchingNodes, v) ==
    CASE v.type = "badString" ->
           [count |-> scaledDefaultMaxUnavailableNodeCount(matchingNodes), err |-> "invalid"]
      [] v.type = "badPercent" ->
           [count |-> scaledDefaultMaxUnavailableNodeCount(matchingNodes), err |-> "other"]
      [] v.type \in {"int", "intString", "percent"} ->
           [count |-> Scaled(v, matchingNodes),
            err |-> IF matchingNodes > 0 /\ Scaled(v, matchingNodes) < MinMaxunavailable
                    THEN "invalid" ELSE "none"]

\* MaxUnavailableNodeCount, when the enactments can be listed.
MaxUnavailableNodeCount(enactmentsTotal, v) ==
    ScaledMaxUnavailableNodeCount(enactmentsTotal,
                                  IF v.type = "nil" THEN DefaultMaxunavailable ELSE v)

\* The limit incrementUnavailableNodeCount works with: every error but
\* "invalid" is logged and the count that came with it used.
Usable(r) == r.err # "invalid"
=============================================================================
