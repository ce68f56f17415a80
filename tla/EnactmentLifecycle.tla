------------------------ MODULE EnactmentLifecycle ------------------------
(***************************************************************************)
(* Policies, node labels and enactments come and go: how the policy        *)
(* reconciler creates and deletes the enactment of its node, and how the   *)
(* enactment controllers of all the handlers remove what was left behind.  *)
(*                                                                         *)
(* Handlers read policies and labels from caches that follow the API       *)
(* server with a delay, so the model keeps every version of the policy and *)
(* how far each handler has seen.  Slots, retries and failures to apply    *)
(* are in NNCPHandler; here every apply succeeds.                          *)
(***************************************************************************)
EXTENDS Integers, Sequences

CONSTANTS
    Nodes,        \* nodes that run a handler
    MaxVersions,  \* bound on the changes of the policy
    MaxEvents,    \* bound on the changes of node labels and the restarts
    Hazards       \* what else may happen, see HazardKinds

HazardKinds ==
    { "recreate",    \* a policy that was deleted is created again
      "relist",      \* a handler misses the versions between two it sees
      "lateWatch" }  \* a handler sees an enactment before its policy

ASSUME LifecycleAssumption ==
    /\ MaxVersions \in Nat /\ MaxEvents \in Nat
    /\ Hazards \subseteq HazardKinds

VARIABLES
    versions,    \* the versions of the policy
    labels,      \* the labels of each node
    seen,        \* the version in the cache of each handler
    seenLabels,  \* the labels of its node in that cache
    enactment,   \* the enactment of each node
    network,     \* the desired state each node applied last
    pc,          \* the next step of the policy reconciler of each node
    instance,    \* the generation and desired state it works on
    queued,      \* whether a request of the policy is queued
    events       \* how often labels changed or a handler was restarted

vars == <<versions, labels, seen, seenLabels, enactment, network, pc, instance,
          queued, events>>

-----------------------------------------------------------------------------

\* One label is enough to tell whether a selector matches.
LabelSets == SUBSET {"label"}

\* born: which creation of the policy this is; each version has a desired
\* state of its own.
Versions == [exists : BOOLEAN, born : 0..MaxVersions, gen : 0..MaxVersions,
             selector : LabelSets]

Absent(born) == [exists |-> FALSE, born |-> born, gen |-> 0, selector |-> {}]

Policy == versions[Len(versions)]

DesiredState(v) == <<v.born, v.gen>>

NoState == <<0, 0>>

States == (0..MaxVersions) \X (0..MaxVersions)

\* phase: "new" up to the apply, "finalizing" after it, "available" at last.
Enactments == [exists : BOOLEAN, gen : 0..MaxVersions, desired : States,
               phase : {"new", "finalizing", "available"}]

NoEnactment == [exists |-> FALSE, gen |-> 0, desired |-> NoState,
                phase |-> "new"]

TypeOK ==
    /\ versions \in Seq(Versions) /\ Len(versions) \in 1..MaxVersions
    /\ labels \in [Nodes -> LabelSets]
    /\ seen \in [Nodes -> 1..Len(versions)]
    /\ seenLabels \in [Nodes -> LabelSets]
    /\ enactment \in [Nodes -> Enactments]
    /\ network \in [Nodes -> States]
    /\ pc \in [Nodes -> {"idle", "initialize", "fillIn", "verify", "mark", "apply",
                         "success", "finalize", "delete"}]
    /\ instance \in [Nodes -> States]
    /\ queued \in [Nodes -> BOOLEAN]
    /\ events \in 0..MaxEvents

Init ==
    /\ versions = <<Absent(0)>>
    /\ labels = [n \in Nodes |-> {}]
    /\ seen = [n \in Nodes |-> 1]
    /\ seenLabels = labels
    /\ enactment = [n \in Nodes |-> NoEnactment]
    /\ network = [n \in Nodes |-> NoState]
    /\ pc = [n \in Nodes |-> "idle"]
    /\ instance = [n \in Nodes |-> NoState]
    /\ queued = [n \in Nodes |-> FALSE]
    /\ events = 0

-----------------------------------------------------------------------------
(* Users *)

Publish(v) ==
    /\ Len(versions) < MaxVersions
    /\ versions' = Append(versions, v)
    /\ UNCHANGED <<labels, seen, seenLabels, enactment, network, pc, instance,
                   queued, events>>

CreatePolicy ==
    /\ ~Policy.exists
    /\ Policy.born = 0 \/ "recreate" \in Hazards
    /\ \E s \in LabelSets :
          Publish([exists |-> TRUE, born |-> Policy.born + 1, gen |-> 1, selector |-> s])

\* A policy that failed on some node may be edited while others still apply it.
EditPolicy ==
    /\ Policy.exists
    /\ \E s \in LabelSets : Publish([Policy EXCEPT !.gen = @ + 1, !.selector = s])

DeletePolicy == Policy.exists /\ Publish(Absent(Policy.born))

\* The labels of n change; one change at a time is under way to its handler.
Relabel(n) ==
    /\ events < MaxEvents
    /\ seenLabels[n] = labels[n]
    /\ \E l \in LabelSets \ {labels[n]} : labels' = [labels EXCEPT ![n] = l]
    /\ events' = events + 1
    /\ UNCHANGED <<versions, seen, seenLabels, enactment, network, pc, instance,
                   queued>>

-----------------------------------------------------------------------------
(* Caches and events *)

Cached(n) == versions[seen[n]]

\* onCreateOrUpdateWithDifferentGenerationOrDelete, of the event that takes
\* the cache from version v to version w.
IsLetThrough(v, w) == v.exists # w.exists \/ v.gen # w.gen

\* The cache of n sees the next version, or the latest after a break.
SeePolicy(n) ==
    \E i \in (seen[n] + 1)..Len(versions) :
        /\ i = seen[n] + 1 \/ ("relist" \in Hazards /\ i = Len(versions))
        /\ seen' = [seen EXCEPT ![n] = i]
        /\ queued' = [queued EXCEPT ![n] = @ \/ IsLetThrough(Cached(n), versions[i])]
        /\ UNCHANGED <<versions, labels, seenLabels, enactment, network, pc, instance,
                       events>>

\* Mutation of allPolicies: a change of labels is not looked at.
noPolicies(n) == FALSE

\* allPolicies queues the policies that are in the cache.
allPolicies(n) == Cached(n).exists

\* onLabelsUpdatedForThisNode.
SeeLabels(n) ==
    /\ seenLabels[n] # labels[n]
    /\ seenLabels' = [seenLabels EXCEPT ![n] = labels[n]]
    /\ queued' = [queued EXCEPT ![n] = @ \/ allPolicies(n)]
    /\ UNCHANGED <<versions, labels, seen, enactment, network, pc, instance, events>>

-----------------------------------------------------------------------------
(* The policy reconciler *)

unmatchingLabels(nodeSelector, nodeLabels) == nodeSelector \ nodeLabels

Goto(n, label) ==
    /\ pc' = [pc EXCEPT ![n] = label]
    /\ instance' = [instance EXCEPT ![n] = IF label = "idle" THEN NoState ELSE @]
    /\ UNCHANGED queued

\* Reconcile returns an error and is tried again.
Fail(n) ==
    /\ pc' = [pc EXCEPT ![n] = "idle"]
    /\ instance' = [instance EXCEPT ![n] = NoState]
    /\ queued' = [queued EXCEPT ![n] = TRUE]

\* The cached policy is gone or does not select the node: its enactment goes.
Begin(n) ==
    /\ pc[n] = "idle"
    /\ queued[n]
    /\ queued' = [queued EXCEPT ![n] = FALSE]
    /\ instance' = [instance EXCEPT ![n] = DesiredState(Cached(n))]
    /\ pc' = [pc EXCEPT ![n] =
           IF Cached(n).exists /\ unmatchingLabels(Cached(n).selector, seenLabels[n]) = {}
           THEN "initialize" ELSE "delete"]
    /\ UNCHANGED <<versions, labels, seen, seenLabels, enactment, network, events>>

deleteEnactmentForPolicy(n) ==
    /\ pc[n] = "delete"
    /\ enactment' = [enactment EXCEPT ![n] = NoEnactment]
    /\ Goto(n, "idle")
    /\ UNCHANGED <<versions, labels, seen, seenLabels, network, events>>

Created == [NoEnactment EXCEPT !.exists = TRUE]

\* An enactment is created only for a policy and labels read afresh.
initializeEnactment(n) ==
    /\ pc[n] = "initialize"
    /\ \/ enactment[n].exists /\ Goto(n, "fillIn") /\ UNCHANGED enactment
       \/ /\ ~enactment[n].exists
          /\ ~Policy.exists \/ unmatchingLabels(Policy.selector, labels[n]) # {}
          /\ Fail(n)
          /\ UNCHANGED enactment
       \/ /\ ~enactment[n].exists
          /\ Policy.exists /\ unmatchingLabels(Policy.selector, labels[n]) = {}
          /\ enactment' = [enactment EXCEPT ![n] = Created]
          /\ Goto(n, "fillIn")
    /\ UNCHANGED <<versions, labels, seen, seenLabels, network, events>>

\* Mutation of resetPolicyGeneration: the phase of the old generation stays.
keepPhase(e, d) == [e EXCEPT !.gen = d[2], !.desired = d]

\* d is a desired state: the creation of the policy and its generation.
resetPolicyGeneration(e, d) ==
    [e EXCEPT !.phase = IF e.gen # d[2] THEN "new" ELSE @, !.gen = d[2], !.desired = d]

\* A write to the enactment of n that goes on with label, or fails if it was
\* deleted.
Write(n, e, label) ==
    \/ /\ enactment[n].exists
       /\ enactment' = [enactment EXCEPT ![n] = e]
       /\ Goto(n, label)
    \/ ~enactment[n].exists /\ Fail(n) /\ UNCHANGED enactment

fillInEnactmentStatus(n) ==
    /\ pc[n] = "fillIn"
    /\ Write(n, resetPolicyGeneration(enactment[n], instance[n]), "verify")
    /\ UNCHANGED <<versions, labels, seen, seenLabels, network, events>>

\* enactmentForPolicy, and whether the policy still exists; what is applied
\* already is not applied again.
Verify(n) ==
    /\ pc[n] = "verify"
    /\ \/ ~enactment[n].exists /\ Fail(n)
       \/ /\ enactment[n].exists
          /\ Goto(n, CASE ~Policy.exists -> "delete"
                       [] Policy.exists /\ enactment[n].phase = "available" -> "idle"
                       [] Policy.exists /\ enactment[n].phase = "finalizing" -> "finalize"
                       [] OTHER -> "mark")
    /\ UNCHANGED <<versions, labels, seen, seenLabels, enactment, network,
                   events>>

\* The claim of a slot, which fails if the policy is gone, and
\* NotifyProgressing.
Mark(n) ==
    /\ pc[n] = "mark"
    /\ \/ ~Policy.exists /\ Fail(n) /\ UNCHANGED enactment
       \/ Write(n, enactment[n], "apply")
    /\ UNCHANGED <<versions, labels, seen, seenLabels, network, events>>

\* ApplyDesiredState and NotifyFinalizing.
Apply(n) ==
    /\ pc[n] = "apply"
    /\ network' = [network EXCEPT ![n] = instance[n]]
    /\ Write(n, [enactment[n] EXCEPT !.phase = "finalizing"], "success")
    /\ UNCHANGED <<versions, labels, seen, seenLabels, events>>

\* The slot is released, which fails if the policy is gone, and the success
\* recorded.
Success(n) ==
    /\ pc[n] = "success"
    /\ \/ ~Policy.exists /\ Fail(n) /\ UNCHANGED enactment
       \/ Policy.exists /\ Write(n, [enactment[n] EXCEPT !.phase = "available"], "idle")
    /\ UNCHANGED <<versions, labels, seen, seenLabels, network, events>>

\* finalizeInterruptedApply: the success is recorded first, and the audit
\* after it fails if the policy is gone.
Finalize(n) ==
    /\ pc[n] = "finalize"
    /\ \/ /\ Policy.exists
          /\ Write(n, [enactment[n] EXCEPT !.phase = "available"], "idle")
       \/ /\ ~Policy.exists
          /\ enactment' = IF enactment[n].exists
                          THEN [enactment EXCEPT ![n].phase = "available"]
                          ELSE enactment
          /\ Fail(n)
    /\ UNCHANGED <<versions, labels, seen, seenLabels, network, events>>

ReconcileStep(n) ==
    \/ Begin(n) \/ deleteEnactmentForPolicy(n) \/ initializeEnactment(n)
    \/ fillInEnactmentStatus(n) \/ Verify(n) \/ Mark(n) \/ Apply(n) \/ Success(n)
    \/ Finalize(n)

-----------------------------------------------------------------------------
(* The enactment controller *)

\* Mutation of ReconcileEnactment: an enactment without a policy is kept.
LeaveEnactment(m, n) == FALSE /\ UNCHANGED vars

\* The controller of m looks at the enactment of n, when it is created, when
\* the handler of m starts and every few hours: with no policy in its cache
\* it deletes it.
ReconcileEnactment(m, n) ==
    /\ enactment[n].exists
    /\ ~Cached(m).exists
    /\ "lateWatch" \in Hazards \/ Cached(m).born = Policy.born
    /\ enactment' = [enactment EXCEPT ![n] = NoEnactment]
    /\ UNCHANGED <<versions, labels, seen, seenLabels, network, pc, instance,
                   queued, events>>

\* The handler of n dies and is restarted: it lists everything that exists,
\* and nothing tells it what was deleted meanwhile.  reclaimInterruptedSlots
\* records the success of an enactment that was finalizing, if it can.
Restart(n) ==
    /\ events < MaxEvents
    /\ events' = events + 1
    /\ pc' = [pc EXCEPT ![n] = "idle"]
    /\ instance' = [instance EXCEPT ![n] = NoState]
    /\ seen' = [seen EXCEPT ![n] = Len(versions)]
    /\ seenLabels' = [seenLabels EXCEPT ![n] = labels[n]]
    /\ queued' = [queued EXCEPT ![n] = Policy.exists]
    /\ \/ UNCHANGED enactment
       \/ /\ enactment[n].phase = "finalizing"
          /\ enactment' = [enactment EXCEPT ![n].phase = "available"]
    /\ UNCHANGED <<versions, labels, network>>

-----------------------------------------------------------------------------

User == CreatePolicy \/ EditPolicy \/ DeletePolicy \/ \E n \in Nodes : Relabel(n)

Handler(n) ==
    \/ SeePolicy(n)
    \/ SeeLabels(n)
    \/ ReconcileStep(n)
    \/ \E m \in Nodes : ReconcileEnactment(n, m)

Next == User \/ \E n \in Nodes : Handler(n) \/ Restart(n)

Spec == Init /\ [][Next]_vars

\* Watches deliver, and reconcilers and enactment controllers work their
\* queues off; users and crashes are under no obligation.
FairSpec ==
    /\ Spec
    /\ \A n \in Nodes :
          /\ WF_vars(SeePolicy(n))
          /\ WF_vars(SeeLabels(n))
          /\ WF_vars(ReconcileStep(n))
          /\ \A m \in Nodes : WF_vars(ReconcileEnactment(n, m))

-----------------------------------------------------------------------------

\* What an enactment reports as done is what its node applied: Available and
\* Finalizing enactments are not applied again (Reconcile: "Already fully
\* reconciled for this generation").
AvailableIsTrue ==
    \A n \in Nodes : /\ enactment[n].exists
                     /\ enactment[n].phase # "new"
                     => network[n] = enactment[n].desired

Selected(n) == Policy.exists /\ unmatchingLabels(Policy.selector, labels[n]) = {}

UpToDate(n) == seen[n] = Len(versions) /\ seenLabels[n] = labels[n]

AtRest(n) == pc[n] = "idle" /\ ~queued[n]

\* What EnactmentsFollowThePolicy promises for node n.
Followed(n) ==
    /\ enactment[n].exists <=> Selected(n)
    /\ Selected(n) => /\ enactment[n].phase = "available"
                      /\ enactment[n].desired = DesiredState(Policy)
                      /\ network[n] = DesiredState(Policy)

\* A handler that has seen the latest policy and labels and has no request left
\* has nothing left to do: no event is filtered out, no request dropped and no
\* enactment deleted by another handler while it was still needed
\* (onCreateOrUpdateWithDifferentGenerationOrDelete, the errors of Reconcile).
RestMeansFollowed ==
    \A n \in Nodes : UpToDate(n) /\ AtRest(n) /\ Policy.exists => Followed(n)

\* Once users are done, exactly the nodes the policy selects have an
\* enactment, and it is Available for the last generation: no enactment stays
\* behind a deleted policy or a changed label, even if a handler was down
\* when that happened (deleteEnactmentForPolicy, initializeEnactment, the
\* Reconcile of the enactment controller).
EnactmentsFollowThePolicy == <>[](\A n \in Nodes : Followed(n))
=============================================================================
