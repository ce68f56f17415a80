------------------------- MODULE PolicyConditions -------------------------
(***************************************************************************)
(* pkg/policyconditions: how the status of a policy is computed from the   *)
(* enactments of its nodes.  An enactment is a record with the fields      *)
(* exists, gen (Status.PolicyGeneration) and conds; es is a function from  *)
(* the nodes to their enactments.  The condition list of a policy is       *)
(* abstracted to the setter that wrote it.                                 *)
(***************************************************************************)
EXTENDS EnactmentConditions, Naturals, FiniteSets

PolicyConds == {"Unknown", "Progressing", "Available", "Degraded", "Ignored"}

\* IsUnknown looks at the Available condition, which SetPolicyProgressing
\* leaves Unknown too.
IsUnknown(cond) == cond \in {"Unknown", "Progressing"}

\* The nodes whose enactment is of generation g with the condition True: an
\* enactment of another generation counts as Unknown.
Failed(es, g) ==
    {n \in DOMAIN es : es[n].exists /\ es[n].gen = g /\ es[n].conds.failing = "True"}

Aborted(es, g) ==
    {n \in DOMAIN es : es[n].exists /\ es[n].gen = g /\ es[n].conds.aborted = "True"}

Available(es, g) ==
    {n \in DOMAIN es : es[n].exists /\ es[n].gen = g /\ es[n].conds.available = "True"}

Pending(es, g) ==
    {n \in DOMAIN es : es[n].exists /\ es[n].gen = g /\ es[n].conds.pending = "True"}

numberOfFinishedEnactments(es, g) ==
    Cardinality(Available(es, g)) + Cardinality(Failed(es, g))
        + Cardinality(Aborted(es, g))

\* The setter that setPolicyStatus calls.  matching is the set of nodes that
\* match the policy and run a handler, ready its subset of Ready nodes.
policyCond(es, g, matching, ready) ==
    IF matching = {} THEN "Ignored"
    ELSE IF Failed(es, g) \cup Aborted(es, g) # {} THEN "Degraded"
    ELSE IF \/ numberOfFinishedEnactments(es, g) < Cardinality(ready)
            \/ Pending(es, g) # {} THEN "Progressing"
    ELSE "Available"

\* Mutation of setPolicyStatus: success keeps the counters.
setPolicyStatusOnly(p, cond) == [p EXCEPT !.cond = cond]

\* setPolicyStatus on policy p.  Success also drops the slot counters.
setPolicyStatus(p, cond) ==
    [p EXCEPT !.cond = cond,
              !.count = IF cond = "Available" THEN [g \in DOMAIN @ |-> 0] ELSE @]

=============================================================================
