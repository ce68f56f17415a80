------------------------------ MODULE Metrics ------------------------------
(***************************************************************************)
(* The metrics process: four controllers that turn the NodeNetworkState of *)
(* a node, the enactments and the policies into gauges.  It is composed    *)
(* with NodeReport, which writes the NodeNetworkState; whoever writes      *)
(* enactments and policies is left open.                                   *)
(*                                                                         *)
(* The controllers read caches that nobody else reads and that feed back   *)
(* into nothing, so a step here is the moment the process sees a version;  *)
(* how long a version has been at the API server makes no difference.  A   *)
(* gauge is a function from the labels that have a value to the value, so  *)
(* that deleting one is visible; a controller can only delete what it      *)
(* remembers having set.                                                   *)
(***************************************************************************)
EXTENDS NodeReport

CONSTANTS
    Enactments,       \* enactments that may exist
    NodeLabel,        \* the node each is labelled with, "" when it has none
    EnactmentValues,  \* what an enactment may say: [features, conditions]
    Policies,         \* policies that may exist
    PolicyValues      \* what a policy may say: [conditions]

VARIABLES
    enactments,  \* the enactments at the API server
    policies,    \* the policies
    due,         \* the controllers that have a request queued
    gauges,      \* what the process exports
    old,         \* what each controller remembers of what it set
    written      \* whether enactments or policies have been written

metricsVars == <<enactments, policies, due, gauges, old, written>>
vars == <<nodeVars, metricsVars>>

EnactmentConditionTypes ==
    {"Available", "Failing", "Progressing", "Pending", "Aborted"}

PolicyConditionTypes == {"Available", "Degraded", "Progressing", "Ignored"}

Controllers == {"nns", "features", "status", "policies"}

Absent == [absent |-> TRUE]

ASSUME MetricsAssumption ==
    /\ NodeLabel \in [Enactments -> STRING]
    /\ Absent \notin EnactmentValues \cup PolicyValues

NoGauge == [k \in {} |-> 0]

NoGauges == [interfaces |-> NoGauge, routes |-> NoGauge, features |-> NoGauge,
             status |-> NoGauge, policies |-> NoGauge]

NothingOld == [interfaces |-> {}, routes |-> {}, features |-> {}, nodes |-> {}]

TypeOK ==
    /\ NodeTypeOK
    /\ enactments \in [Enactments -> EnactmentValues \cup {Absent}]
    /\ policies \in [Policies -> PolicyValues \cup {Absent}]
    /\ due \subseteq Controllers
    /\ written \in BOOLEAN

Init ==
    /\ NodeInit
    /\ enactments = [e \in Enactments |-> Absent]
    /\ policies = [p \in Policies |-> Absent]
    /\ due = {}
    /\ gauges = NoGauges
    /\ old = NothingOld
    /\ written = FALSE

-----------------------------------------------------------------------------
(* Predicates *)

\* conditions lists the types of the conditions that are True, in their order.
activeConditionType(o) ==
    IF o.conditions = <<>> THEN "" ELSE Head(o.conditions)

Present(o) == o # Absent

\* Creations, deletions and the updates that matter to a controller.
Notices(before, after, matters) ==
    IF Present(before) /\ Present(after) THEN matters
    ELSE Present(before) \/ Present(after)

activeConditionChanged(before, after) ==
    activeConditionType(before) # activeConditionType(after)

conditionChangePredicate(before, after) ==
    Notices(before, after, activeConditionChanged(before, after))

featuresChanged(before, after) == before.features # after.features

\* Mutation of onCreationOrUpdateForThisEnactment: deletions are not listened to.
AnythingButDeletions(before, after) ==
    Present(after) /\ (~Present(before) \/ featuresChanged(before, after))

onCreationOrUpdateForThisEnactment(before, after) ==
    Notices(before, after, featuresChanged(before, after))

onCreationOrUpdateForThisNNS(before, after) ==
    IF Exists(before) /\ Exists(after) THEN before.status # after.status
    ELSE Exists(before) \/ Exists(after)

-----------------------------------------------------------------------------
(* What happens to the objects *)

DueWhen(c, noticed) == IF noticed THEN {c} ELSE {}

\* The controllers of enactments and policies share nothing with the one of the
\* NNS.  This bound keeps apart what need not be interleaved: in a behaviour
\* there are either events around the handler or writes of these objects.
Write ==
    /\ written \/ events = 0
    /\ Event("change") /\ written' = TRUE
    /\ UNCHANGED <<host, node, apiVars, handlerVars, gauges, old>>

SeeNNS ==
    /\ written => UNCHANGED events
    /\ due' = due \cup DueWhen("nns", onCreationOrUpdateForThisNNS(nns, nns'))
    /\ UNCHANGED <<enactments, policies, gauges, old, written>>

WriteEnactment(e) ==
    \E after \in (EnactmentValues \cup {Absent}) \ {enactments[e]} :
        LET before == enactments[e]
        IN  /\ Write
            /\ enactments' = [enactments EXCEPT ![e] = after]
            /\ due' = due
                \cup DueWhen("features", onCreationOrUpdateForThisEnactment(before, after))
                \cup DueWhen("status", conditionChangePredicate(before, after))
            /\ UNCHANGED policies

WritePolicy(p) ==
    \E after \in (PolicyValues \cup {Absent}) \ {policies[p]} :
        /\ Write
        /\ policies' = [policies EXCEPT ![p] = after]
        /\ due' = due
            \cup DueWhen("policies", conditionChangePredicate(policies[p], after))
        /\ UNCHANGED enactments

-----------------------------------------------------------------------------
(* Controllers *)

\* Set what was counted, and delete what is remembered and was not counted.
Refreshed(gauge, counts, remembered) ==
    [k \in (DOMAIN gauge \ (remembered \ DOMAIN counts)) \cup DOMAIN counts |->
        IF k \in DOMAIN counts THEN counts[k] ELSE gauge[k]]

Runs(c) ==
    /\ c \in due
    /\ due' = due \ {c}
    /\ UNCHANGED <<nodeVars, enactments, policies, written>>

\* An NNS that is gone counts as one without interfaces and routes:
\* deleteNodeMetrics deletes all that is remembered.
updateNodeInterfaceMetrics(counts) ==
    Refreshed(gauges.interfaces, counts, old.interfaces)

\* Mutation of updateNodeRouteMetrics: gauges are set and never deleted.
neverDeleteRoutes(counts) == Refreshed(gauges.routes, counts, {})

updateNodeRouteMetrics(counts) ==
    Refreshed(gauges.routes, counts, old.routes)

\* Counting never fails: what the handler reports has been parsed the same way
\* when it was filtered.  A failing Get changes nothing and is retried.
ReconcileNNS ==
    /\ Runs("nns")
    /\ LET interfaces == CountInterfacesByType(nns.status)
           routes == CountRoutes(nns.status)
       IN  /\ gauges' = [gauges EXCEPT
                            !.interfaces = updateNodeInterfaceMetrics(interfaces),
                            !.routes = updateNodeRouteMetrics(routes)]
           /\ old' = [old EXCEPT !.interfaces = DOMAIN interfaces,
                                 !.routes = DOMAIN routes]

Existing(objects) == { k \in DOMAIN objects : Present(objects[k]) }

newFeatures ==
    UNION { enactments[e].features : e \in Existing(enactments) }

ReportFeatures ==
    /\ Runs("features")
    /\ gauges' = [gauges EXCEPT !.features =
            Refreshed(@, [f \in newFeatures |-> 1], old.features)]
    /\ old' = [old EXCEPT !.features = newFeatures]

newNodes == { NodeLabel[e] : e \in Existing(enactments) } \ {""}

counts(n, t) ==
    Cardinality({ e \in Existing(enactments) :
        NodeLabel[e] = n /\ activeConditionType(enactments[e]) = t })

ReportEnactmentStatus ==
    /\ Runs("status")
    /\ gauges' = [gauges EXCEPT !.status =
            Refreshed(@, [k \in newNodes \X EnactmentConditionTypes |->
                            counts(k[1], k[2])],
                      old.nodes \X EnactmentConditionTypes)]
    /\ old' = [old EXCEPT !.nodes = newNodes]

ReportPolicyStatus ==
    /\ Runs("policies")
    /\ gauges' = [gauges EXCEPT !.policies =
            Refreshed(@, [t \in PolicyConditionTypes |->
                Cardinality({ p \in Existing(policies) :
                    activeConditionType(policies[p]) = t })], {})]
    /\ UNCHANGED old

\* The gauges of a process go with it; a new one is told of every object as
\* created.
RestartMetrics ==
    /\ Event("crash")
    /\ due' = DueWhen("nns", Exists(nns))
        \cup (IF Existing(enactments) # {} THEN {"features", "status"} ELSE {})
        \cup DueWhen("policies", Existing(policies) # {})
    /\ gauges' = NoGauges
    /\ old' = NothingOld
    /\ UNCHANGED <<host, node, apiVars, handlerVars, enactments, policies, written>>

Next ==
    \/ NodeNext /\ SeeNNS
    \/ ReconcileNNS \/ ReportFeatures \/ ReportEnactmentStatus \/ ReportPolicyStatus
    \/ RestartMetrics
    \/ \E e \in Enactments : WriteEnactment(e)
    \/ \E p \in Policies : WritePolicy(p)

Spec == Init /\ [][Next]_vars

MetricsFairness ==
    /\ WF_vars(ReconcileNNS) /\ WF_vars(ReportFeatures)
    /\ WF_vars(ReportEnactmentStatus) /\ WF_vars(ReportPolicyStatus)

FairSpec == Spec /\ NodeFairness /\ MetricsFairness

-----------------------------------------------------------------------------
(* Properties *)

\* A controller remembers every gauge it has set, so that none can be left
\* behind: the old* fields of the reconcilers are the labels that exist.
GaugesAreRemembered ==
    /\ DOMAIN gauges.interfaces = old.interfaces
    /\ DOMAIN gauges.routes = old.routes
    /\ DOMAIN gauges.features = old.features
    /\ DOMAIN gauges.status = old.nodes \X EnactmentConditionTypes

Value(gauge, k) == IF k \in DOMAIN gauge THEN gauge[k] ELSE 0

\* What the gauges would show if they were read off the objects themselves.
NNSGaugesAreTrue ==
    /\ gauges.interfaces = CountInterfacesByType(nns.status)
    /\ gauges.routes = CountRoutes(nns.status)

FeatureGaugesAreTrue ==
    DOMAIN gauges.features = UNION { enactments[e].features : e \in Existing(enactments) }

StatusGaugesAreTrue ==
    \A n \in { NodeLabel[e] : e \in Enactments }, t \in EnactmentConditionTypes :
        Value(gauges.status, <<n, t>>) =
            Cardinality({ e \in Existing(enactments) :
                n # "" /\ NodeLabel[e] = n /\ activeConditionType(enactments[e]) = t })

PolicyGaugesAreTrue ==
    \A t \in PolicyConditionTypes :
        Value(gauges.policies, t) =
            Cardinality({ p \in Existing(policies) : activeConditionType(policies[p]) = t })

GaugesAreTrue ==
    NNSGaugesAreTrue /\ FeatureGaugesAreTrue /\ StatusGaugesAreTrue /\ PolicyGaugesAreTrue

\* A gauge is off only while its controller has a request to come: no event that
\* the predicates filter out would have changed a number, and no restart leaves
\* behind objects that are not counted (onCreationOrUpdateForThisEnactment,
\* conditionChangePredicate, onCreationOrUpdateForThisNNS).
GaugesLagOnlyWhenDue ==
    /\ "nns" \in due \/ NNSGaugesAreTrue
    /\ "features" \in due \/ FeatureGaugesAreTrue
    /\ "status" \in due \/ StatusGaugesAreTrue
    /\ "policies" \in due \/ PolicyGaugesAreTrue

\* The gauges end up showing what the objects say, across restarts of the
\* process and whatever was created, changed and deleted before, although most
\* updates are filtered out by the predicates of the controllers.
GaugesSettle == <>[]GaugesAreTrue

=============================================================================
