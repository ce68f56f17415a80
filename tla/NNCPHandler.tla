---------------------------- MODULE NNCPHandler ----------------------------
(***************************************************************************)
(* The NodeNetworkConfigurationPolicy controller of the handler daemonset, *)
(* one reconciler per node, and the maxUnavailable slots they share.       *)
(*                                                                         *)
(* One policy selects every node of Nodes.  Its status holds, for every    *)
(* generation, the number of nodes that are applying it                    *)
(* (UnavailableNodeCountMap): a reconciler claims a slot by incrementing   *)
(* the counter, marks its enactment Progressing, applies, and releases the *)
(* slot by decrementing the counter.  An audit repairs counters that dead  *)
(* handlers left too high.                                                 *)
(*                                                                         *)
(* A step is a call to the API server (a read-modify-write that the        *)
(* resource version makes atomic, with its retries) or the application of  *)
(* the desired state.  The update of the policy conditions is two steps:   *)
(* enactments may change between its lists and its write.  What the        *)
(* environment may do wrong is the constant Faults; MaxFaults bounds how   *)
(* often it does.                                                          *)
(***************************************************************************)
EXTENDS PolicyConditions

CONSTANTS
    Nodes,             \* nodes that match the policy and run a handler
    MaxGeneration,     \* bound on the edits of the policy
    RetriesUntilFail,  \* failed applies of a generation before giving up
    UpdateAttempts,    \* attempts of an update of the policy conditions
    Limit(_),          \* MaxUnavailableNodeCount, by number of enactments
    Faults,            \* what the environment may do wrong, see FaultKinds
    MaxFaults          \* bound on how often it does

FaultKinds ==
    { "apiError",       \* an API call fails, with no effect, until its retries end
      "lostReply",      \* a write lands, its reply is lost and it is tried again
      "crash",          \* the handler dies
      "longOutage",     \* a dead handler stays down past StaleEnactmentThreshold
      "longIdle",       \* a handler does not reconcile past that threshold
      "slowMarker",     \* a claim is not followed by its marker in AuditGraceWindow
      "watch",          \* the watch that feeds the cache of a handler breaks
      "oldList",        \* a restarted handler lists an older policy
      "applyError",     \* nmstate or the probes reject the desired state
      "generateError",  \* the desired state of the node cannot be generated
      "notReady",       \* a node turns NotReady, or Ready again
      "relabel" }       \* a label of the node changes and it reconciles again

Generations == 1..MaxGeneration

ASSUME NodesAssumption == IsFiniteSet(Nodes) /\ Nodes # {}

ASSUME BoundsAssumption ==
    /\ MaxGeneration \in Nat \ {0}
    /\ RetriesUntilFail \in Nat \ {0}
    /\ UpdateAttempts \in Nat \ {0}
    /\ MaxFaults \in Nat

ASSUME FaultsAssumption == Faults \subseteq FaultKinds

\* More enactments never lower the limit.
ASSUME LimitAssumption ==
    /\ \A k \in 0..Cardinality(Nodes) : Limit(k) \in Nat
    /\ \A k, l \in 0..Cardinality(Nodes) : k <= l => Limit(k) <= Limit(l)

VARIABLES
    policy,        \* the policy: generation, slot counters, and its condition
    enactment,     \* the enactment of each node
    pc,            \* the next step of the reconciler of each node
    instance,      \* what the running reconcile read of the policy
    policyStatus,  \* the condition its update computed, if it can be written
    queued,        \* whether a request is queued (or due for a requeue)
    watch,         \* the policy cache of each handler, when its watch is broken
    ready,         \* whether each node is Ready
    faults         \* how many faults have occurred

vars == <<policy, enactment, pc, instance, policyStatus, queued, watch, ready,
          faults>>

-----------------------------------------------------------------------------
(* State *)

\* recent: LastUnavailableNodeCountUpdate is younger than AuditGraceWindow.
Policies == [gen : Generations, count : [Generations -> Nat],
             recent : BOOLEAN, cond : PolicyConds]

NewPolicy == [gen |-> 1, count |-> [g \in Generations |-> 0],
              recent |-> FALSE, cond |-> "Unknown"]

\* gen: Status.PolicyGeneration (0 before it is filled in); fresh: the
\* heartbeat of its conditions is younger than StaleEnactmentThreshold.
Enactments == [exists : BOOLEAN, gen : 0..MaxGeneration, conds : ConditionLists,
               fresh : BOOLEAN, retries : [Generations -> Nat]]

NoEnactment == [exists |-> FALSE, gen |-> 0, conds |-> NoConditions,
                fresh |-> TRUE, retries |-> [g \in Generations |-> 0]]

Labels == {"idle", "initialize", "fillIn", "claim", "claimAgain", "auditBlocked",
           "pending", "abortCheck", "mark", "markClaimed", "compensate",
           "midUpdate", "apply", "retryCount", "retrying", "failed",
           "finalizing", "release", "success", "finalizeInterrupted",
           "audit", "update", "down", "startupAudit"}

Instances == [gen : 0..MaxGeneration, unknown : BOOLEAN]

NoInstance == [gen |-> 0, unknown |-> FALSE]

\* attempt: how often the update listed the enactments; cond: the condition it
\* computed from them, "None" if the policy was written since.
PolicyStatuses == [attempt : 0..UpdateAttempts, cond : PolicyConds \cup {"None"}]

NoStatus == [attempt |-> 0, cond |-> "None"]

Caches == [broken : BOOLEAN, seen : Policies]

LiveCache == [broken |-> FALSE, seen |-> NewPolicy]

TypeOK ==
    /\ policy \in Policies
    /\ enactment \in [Nodes -> Enactments]
    /\ pc \in [Nodes -> Labels]
    /\ instance \in [Nodes -> Instances]
    /\ policyStatus \in [Nodes -> PolicyStatuses]
    /\ queued \in [Nodes -> BOOLEAN]
    /\ watch \in [Nodes -> Caches]
    /\ ready \in [Nodes -> BOOLEAN]
    /\ faults \in 0..MaxFaults

\* The policy and the nodes exist, the handlers have started and every one
\* has the create event of the policy in its queue.
Init ==
    /\ policy = NewPolicy
    /\ enactment = [n \in Nodes |-> NoEnactment]
    /\ pc = [n \in Nodes |-> "idle"]
    /\ instance = [n \in Nodes |-> NoInstance]
    /\ policyStatus = [n \in Nodes |-> NoStatus]
    /\ queued = [n \in Nodes |-> TRUE]
    /\ watch = [n \in Nodes |-> LiveCache]
    /\ ready = [n \in Nodes |-> TRUE]
    /\ faults = 0

-----------------------------------------------------------------------------
(* Helpers *)

Fault(kind) ==
    /\ kind \in Faults
    /\ faults < MaxFaults
    /\ faults' = faults + 1

NoFault == UNCHANGED faults

Goto(n, label) == pc' = [pc EXCEPT ![n] = label] /\ UNCHANGED queued

\* Reconcile returns; requeue says whether its result asks for another one.
\* The deferred policyconditions.Update comes first.
Return(n, requeue) ==
    /\ pc' = [pc EXCEPT ![n] = "update"]
    /\ queued' = [queued EXCEPT ![n] = @ \/ requeue]

\* Mutation of Outdated: the policy is read again, but not the enactments.
OutdatedVersionOnly(s) == s

\* A conflict: the policy was written since s was computed.
Outdated(s) == [s EXCEPT !.cond = "None"]

\* A write of the policy moves its resource version, if only by the heartbeats
\* of its conditions: what other handlers computed from it cannot be written.
Write(p) ==
    /\ policy' = p
    /\ policyStatus' = [n \in Nodes |-> Outdated(policyStatus[n])]

NoWrite == UNCHANGED <<policy, policyStatus>>

\* The policy as the cached client of n returns it.
Cached(n) == IF watch[n].broken THEN watch[n].seen ELSE policy

\* The resource version of both is the same: a write based on p succeeds.
SameVersion(p, q) == p.gen = q.gen /\ p.count = q.count /\ p.cond = q.cond

\* generationKey: the generation the reconcile of n applies.
Gen(n) == enactment[n].gen

WithConditions(e, conds) == [e EXCEPT !.conds = conds, !.fresh = TRUE]

\* enactmentstatus.Update of the conditions of n, with its retries: Then is
\* what the caller does when it succeeds, Else when it fails.
Notify(n, conds, Then, Else) ==
    \/ /\ enactment' = [enactment EXCEPT ![n] = WithConditions(@, conds)]
       /\ NoFault
       /\ Then
    \/ /\ Fault("apiError")
       /\ Else
       /\ UNCHANGED enactment
    \/ /\ Fault("lostReply")
       /\ enactment' = [enactment EXCEPT ![n] = WithConditions(@, conds)]
       /\ UNCHANGED <<pc, queued>>

numberOfEnactments == Cardinality({n \in Nodes : enactment[n].exists})

ReadyNodes == {n \in Nodes : ready[n]}

\* Mutation of MayCompute: a write that conflicts is not tried again.
MayComputeOnce(s) == s.cond = "None" /\ s.attempt = 0

\* Whether policyconditions.Update reads everything (once more).
MayCompute(s) == s.cond = "None" /\ s.attempt < UpdateAttempts

\* It gets the policy, lists the enactments and the nodes, and computes the
\* condition of the policy.
ComputeStatus(n) ==
    /\ MayCompute(policyStatus[n])
    /\ policyStatus' = [policyStatus EXCEPT ![n] =
           [attempt |-> @.attempt + 1,
            cond |-> policyCond(enactment, policy.gen, Nodes, ReadyNodes)]]
    /\ NoFault
    /\ UNCHANGED <<policy, pc, queued>>

\* policyconditions.Update computes the status and writes it.  Then is what the
\* caller does next, also when its attempts are used up or a call fails.
UpdatePolicyConditions(n, Then) ==
    LET s == policyStatus[n] IN
    \/ ComputeStatus(n)
    \/ /\ s.cond # "None"
       /\ policy' = setPolicyStatus(policy, s.cond)
       /\ policyStatus' = [m \in Nodes |->
              IF m = n THEN NoStatus ELSE Outdated(policyStatus[m])]
       /\ NoFault
       /\ Then
    \/ /\ s.cond # "None"
       /\ Write(setPolicyStatus(policy, s.cond))
       /\ Fault("lostReply")
       /\ UNCHANGED <<pc, queued>>
    \/ /\ \/ s.cond = "None" /\ ~MayCompute(s) /\ NoFault
          \/ Fault("apiError")
       /\ policyStatus' = [policyStatus EXCEPT ![n] = NoStatus]
       /\ UNCHANGED policy
       /\ Then

-----------------------------------------------------------------------------
(* The slot counter *)

WithCount(p, g, k) == [p EXCEPT !.count[g] = k, !.recent = TRUE]

isLiveHolder(e) == IsProgressing(e.conds) /\ e.fresh

\* The nodes countSlotHolders counts for generation g.
SlotHolders(g) ==
    {n \in Nodes : /\ enactment[n].exists
                   /\ enactment[n].gen = g
                   /\ isLiveHolder(enactment[n]) \/ IsTerminallyFailed(enactment[n].conds)}

\* Mutation of AuditFindsGhosts: nothing is ever repaired.
AuditFindsNothing == FALSE

\* Whether AuditUnavailableSlots finds slots that nobody holds.
AuditFindsGhosts ==
    /\ ~policy.recent
    /\ policy.count[policy.gen] > Cardinality(SlotHolders(policy.gen))

AuditRepair ==
    Write(WithCount(policy, policy.gen, Cardinality(SlotHolders(policy.gen))))

\* AuditUnavailableSlots that succeeds, whether or not it repairs.
Audit ==
    \/ AuditFindsGhosts /\ AuditRepair
    \/ ~AuditFindsGhosts /\ NoWrite

\* Mutation of Decremented: the test for a counter of zero is missing.
DecrementedBelowZero(p, g) == WithCount(p, g, p.count[g] - 1)

\* Mutation of Decremented: the slot of the current generation is released.
DecrementedCurrent(p, g) ==
    IF p.count[p.gen] = 0 THEN p ELSE WithCount(p, p.gen, p.count[p.gen] - 1)

\* tryDecrementingUnavailableNodeCount on the policy it read.
Decremented(p, g) == IF p.count[g] = 0 THEN p ELSE WithCount(p, g, p.count[g] - 1)

-----------------------------------------------------------------------------
(* Reconcile *)

\* Reconcile up to initializeEnactment: read the cached policy and reset its
\* conditions unless it is Progressing.  A reset that fails is ignored; from
\* a cache that lags it always does.
Begin(n) ==
    LET cached == Cached(n) IN
    /\ pc[n] = "idle"
    /\ queued[n]
    /\ queued' = [queued EXCEPT ![n] = FALSE]
    /\ instance' = [instance EXCEPT ![n] =
           [gen |-> cached.gen, unknown |-> IsUnknown(cached.cond)]]
    /\ pc' = [pc EXCEPT ![n] = IF enactment[n].exists THEN "fillIn" ELSE "initialize"]
    /\ \/ /\ cached.cond # "Progressing"
          /\ SameVersion(cached, policy)
          /\ Write([policy EXCEPT !.cond = "Unknown"])
          /\ NoFault
       \/ /\ cached.cond = "Progressing" \/ ~SameVersion(cached, policy)
          /\ NoWrite
          /\ NoFault
       \/ /\ cached.cond # "Progressing"
          /\ Fault("apiError")
          /\ NoWrite
    /\ UNCHANGED <<enactment, watch, ready>>

\* initializeEnactment of a node that has none: create it, then write its
\* status.
Initialize(n) ==
    /\ pc[n] = "initialize"
    /\ \/ /\ enactment' = [enactment EXCEPT ![n] =
                 [NoEnactment EXCEPT !.exists = TRUE, !.conds = UnknownConditions]]
          /\ NoFault
          /\ Goto(n, "fillIn")
       \/ /\ Fault("apiError")
          /\ \/ UNCHANGED enactment
             \/ enactment' = [enactment EXCEPT ![n].exists = TRUE]
          /\ Return(n, TRUE)
    /\ UNCHANGED <<policy, policyStatus, instance, watch, ready>>

\* Mutation of resetPolicyGeneration: the old conditions are kept.
onlyGeneration(e, g) == [e EXCEPT !.gen = g]

\* resetPolicyGeneration: the conditions of another generation are dropped.
resetPolicyGeneration(e, g) ==
    [e EXCEPT !.conds = IF e.gen # g THEN NoConditions ELSE @, !.gen = g]

Exhausted(e) == e.gen # 0 /\ e.retries[e.gen] >= RetriesUntilFail

\* Mutation of Route: an applied enactment is not finalized but applied again.
RouteWithoutFinalizing(e, previous) ==
    IF Exhausted(e) THEN "update"
    ELSE IF IsAvailable(e.conds) THEN "audit"
    ELSE IF IsProgressing(e.conds) \/ IsRetrying(previous) THEN "mark"
    ELSE "claim"

\* Mutation of Route: the retry count is not looked at.
RouteWithoutRetryCount(e, previous) ==
    IF IsAvailable(e.conds) THEN "audit"
    ELSE IF IsFinalizing(e.conds) THEN "finalizeInterrupted"
    ELSE IF IsProgressing(e.conds) \/ IsRetrying(previous) THEN "mark"
    ELSE "claim"

\* Mutation of Route: a node that holds a slot claims again.
RouteClaimsAgain(e, previous) ==
    IF Exhausted(e) THEN "update"
    ELSE IF IsAvailable(e.conds) THEN "audit"
    ELSE IF IsFinalizing(e.conds) THEN "finalizeInterrupted"
    ELSE "claim"

\* Where Reconcile goes on from the filled-in enactment e.  previous is the
\* condition list from before it was filled in: a node that was retrying
\* does not claim (shouldIncrementUnavailableNodeCount), nor does one whose
\* enactment is Progressing (alreadyHoldsSlot).
Route(e, previous) ==
    IF Exhausted(e) THEN "update"
    ELSE IF IsAvailable(e.conds) THEN "audit"
    ELSE IF IsFinalizing(e.conds) THEN "finalizeInterrupted"
    ELSE IF IsProgressing(e.conds) \/ IsRetrying(previous) THEN "mark"
    ELSE "claim"

\* fillInEnactmentStatus, and what Reconcile decides on the enactment it
\* reads back.  An error while filling in ends the reconcile with no
\* requeue, one before or after it (initializeEnactment, enactmentForPolicy)
\* with one.  A desired state that cannot be generated fails the enactment.
FillIn(n) ==
    LET filled == resetPolicyGeneration(enactment[n], instance[n].gen) IN
    /\ pc[n] = "fillIn"
    /\ \/ /\ enactment' = [enactment EXCEPT ![n] = filled]
          /\ NoFault
          /\ Goto(n, Route(filled, enactment[n].conds))
       \/ /\ Fault("apiError")
          /\ \/ UNCHANGED enactment /\ \E requeue \in BOOLEAN : Return(n, requeue)
             \/ enactment' = [enactment EXCEPT ![n] = filled] /\ Return(n, TRUE)
       \/ /\ Fault("generateError")
          /\ enactment' = [enactment EXCEPT ![n] = filled]
          /\ Goto(n, "failed")
    /\ UNCHANGED <<policy, policyStatus, instance, watch, ready>>

\* Mutation of LimitIsInvalid: a limit of zero is used as it is.
LimitIsNeverInvalid == FALSE

\* InvalidMaxUnavailableError.
LimitIsInvalid == Limit(numberOfEnactments) < 1

\* Mutation of HasRoom: one slot too many.
HasRoomForOneMore(p, g, limit) == p.count[g] <= limit

HasRoom(p, g, limit) == p.count[g] < limit

\* incrementUnavailableNodeCount, from claimUnavailableSlot: "claim" is the
\* first attempt, "claimAgain" the one after an audit that repaired.  The
\* limit falls back to 1 when the enactments cannot be listed.  A cached
\* policy that is not the current one makes the write conflict.
Claim(n) ==
    LET cached == Cached(n)
        g == Gen(n)
        Refused == IF pc[n] = "claim" THEN "auditBlocked" ELSE "pending"
    IN
    /\ pc[n] \in {"claim", "claimAgain"}
    /\ instance' = [instance EXCEPT ![n] =
           [gen |-> cached.gen, unknown |-> IsUnknown(cached.cond)]]
    /\ \/ /\ LimitIsInvalid
          /\ NoFault
          /\ Goto(n, "failed")
          /\ NoWrite
       \/ \E limit \in {Limit(numberOfEnactments), 1} :
          /\ \/ limit = Limit(numberOfEnactments) /\ ~LimitIsInvalid /\ NoFault
             \/ limit = 1 /\ Fault("apiError")
          /\ \/ /\ ~HasRoom(cached, g, limit)
                /\ Goto(n, Refused)
                /\ NoWrite
             \/ /\ HasRoom(cached, g, limit)
                /\ ~SameVersion(cached, policy)
                /\ Goto(n, "pending")
                /\ NoWrite
             \/ /\ HasRoom(cached, g, limit)
                /\ SameVersion(cached, policy)
                /\ Write(WithCount(policy, g, policy.count[g] + 1))
                /\ Goto(n, "markClaimed")
       \/ /\ Fault("apiError")
          /\ Return(n, TRUE)
          /\ NoWrite
       \/ /\ HasRoom(cached, g, Limit(numberOfEnactments))
          /\ SameVersion(cached, policy)
          /\ Fault("lostReply")
          /\ Write(WithCount(policy, g, policy.count[g] + 1))
          /\ UNCHANGED <<pc, queued>>
    /\ UNCHANGED <<enactment, watch, ready>>

\* The audit of claimUnavailableSlot when the limit is reached.
AuditBlocked(n) ==
    /\ pc[n] = "auditBlocked"
    /\ \/ AuditFindsGhosts /\ AuditRepair /\ NoFault /\ Goto(n, "claimAgain")
       \/ ~AuditFindsGhosts /\ NoWrite /\ NoFault /\ Goto(n, "pending")
       \/ Fault("apiError") /\ NoWrite /\ Goto(n, "pending")
    /\ UNCHANGED <<enactment, instance, watch, ready>>

NotifyPending(n) ==
    /\ pc[n] = "pending"
    /\ Notify(n, SetPending, Goto(n, "abortCheck"), Goto(n, "abortCheck"))
    /\ UNCHANGED <<policy, policyStatus, instance, watch, ready>>

\* shouldAbortReconcile fails while some enactment has no conditions.
CountFails ==
    \/ \E m \in Nodes : enactment[m].exists /\ enactment[m].conds.failing = "Absent"
    \/ LimitIsInvalid

TerminallyFailed(g) ==
    {m \in Nodes : /\ enactment[m].exists
                   /\ enactment[m].gen = g
                   /\ IsTerminallyFailed(enactment[m].conds)}

shouldAbortReconcile(n) ==
    Cardinality(TerminallyFailed(instance[n].gen)) >= Limit(numberOfEnactments)

\* shouldAbortReconcile and NotifyAborted, whose failure is ignored.
AbortCheck(n) ==
    /\ pc[n] = "abortCheck"
    /\ \/ /\ CountFails \/ ~shouldAbortReconcile(n)
          /\ Return(n, TRUE)
          /\ NoFault
          /\ UNCHANGED enactment
       \/ /\ Fault("apiError")
          /\ Return(n, TRUE)
          /\ UNCHANGED enactment
       \/ /\ ~CountFails
          /\ shouldAbortReconcile(n)
          /\ Notify(n, SetAborted, Return(n, FALSE), Return(n, FALSE))
    /\ UNCHANGED <<policy, policyStatus, instance, watch, ready>>

\* NotifyProgressing: without the marker nothing is applied, and a slot
\* claimed by this reconcile ("markClaimed") is given back.
NotifyProgressing(n) ==
    /\ pc[n] \in {"mark", "markClaimed"}
    /\ Notify(n, SetProgressing,
              Goto(n, IF instance[n].unknown THEN "midUpdate" ELSE "apply"),
              IF pc[n] = "markClaimed" THEN Goto(n, "compensate") ELSE Return(n, TRUE))
    /\ UNCHANGED <<policy, policyStatus, instance, watch, ready>>

Compensate(n) ==
    /\ pc[n] = "compensate"
    /\ \/ Write(Decremented(policy, Gen(n))) /\ NoFault /\ Return(n, TRUE)
       \/ NoWrite /\ Fault("apiError") /\ Return(n, TRUE)
       \/ /\ Write(Decremented(policy, Gen(n)))
          /\ Fault("lostReply")
          /\ UNCHANGED <<pc, queued>>
    /\ UNCHANGED <<enactment, instance, watch, ready>>

MidUpdate(n) ==
    /\ pc[n] = "midUpdate"
    /\ UpdatePolicyConditions(n, Goto(n, "apply"))
    /\ UNCHANGED <<enactment, instance, watch, ready>>

\* ApplyDesiredState; the node is reconfiguring its network at this label.
Apply(n) ==
    /\ pc[n] = "apply"
    /\ \/ Goto(n, "finalizing")
       \/ "applyError" \in Faults /\ Goto(n, "retryCount")
    /\ UNCHANGED <<policy, policyStatus, enactment, instance, watch, ready, faults>>

IncrementRetryCount(n) ==
    /\ pc[n] = "retryCount"
    /\ \/ /\ enactment' = [enactment EXCEPT ![n].retries[Gen(n)] = @ + 1]
          /\ NoFault
          /\ Goto(n, IF enactment[n].retries[Gen(n)] + 1 >= RetriesUntilFail
                     THEN "failed" ELSE "retrying")
       \/ UNCHANGED enactment /\ Fault("apiError") /\ Return(n, TRUE)
       \/ /\ enactment' = [enactment EXCEPT ![n].retries[Gen(n)] = @ + 1]
          /\ Fault("lostReply")
          /\ Return(n, TRUE)
    /\ UNCHANGED <<policy, policyStatus, instance, watch, ready>>

\* NotifyFailedToConfigure, NotifyGenerateFailure: a slot is kept.
NotifyFailedToConfigure(n) ==
    /\ pc[n] = "failed"
    /\ Notify(n, SetFailed, Return(n, FALSE), Return(n, FALSE))
    /\ UNCHANGED <<policy, policyStatus, instance, watch, ready>>

NotifyRetrying(n) ==
    /\ pc[n] = "retrying"
    /\ Notify(n, SetRetry, Return(n, TRUE), Return(n, TRUE))
    /\ UNCHANGED <<policy, policyStatus, instance, watch, ready>>

NotifyFinalizing(n) ==
    /\ pc[n] = "finalizing"
    /\ Notify(n, SetFinalizing, Goto(n, "release"), Return(n, TRUE))
    /\ UNCHANGED <<policy, policyStatus, instance, watch, ready>>

\* decrementUnavailableNodeCount: a cached counter of 0 counts as released;
\* a cached counter that cannot be written is read again from the server.
Release(n) ==
    /\ pc[n] = "release"
    /\ \/ /\ Cached(n).count[Gen(n)] = 0
          /\ NoWrite
          /\ NoFault
          /\ Goto(n, "success")
       \/ /\ Cached(n).count[Gen(n)] > 0
          /\ Write(Decremented(policy, Gen(n)))
          /\ \/ NoFault /\ Goto(n, "success")
             \/ Fault("lostReply") /\ UNCHANGED <<pc, queued>>
       \/ NoWrite /\ Fault("apiError") /\ Return(n, TRUE)
    /\ UNCHANGED <<enactment, instance, watch, ready>>

NotifySuccess(n) ==
    /\ pc[n] = "success"
    /\ Notify(n, SetSuccess, Return(n, FALSE), Return(n, TRUE))
    /\ UNCHANGED <<policy, policyStatus, instance, watch, ready>>

\* finalizeInterruptedApply: record success, then release by audit.
FinalizeInterruptedApply(n) ==
    /\ pc[n] = "finalizeInterrupted"
    /\ Notify(n, SetSuccess, Goto(n, "audit"), Return(n, TRUE))
    /\ UNCHANGED <<policy, policyStatus, instance, watch, ready>>

ReleaseUnavailableSlotByAudit(n) ==
    /\ pc[n] = "audit"
    /\ \/ Audit /\ NoFault /\ Return(n, FALSE)
       \/ NoWrite /\ Fault("apiError") /\ Return(n, TRUE)
    /\ UNCHANGED <<enactment, instance, watch, ready>>

\* The deferred policyconditions.Update ends every reconcile.
DeferredUpdate(n) ==
    /\ pc[n] = "update"
    /\ UpdatePolicyConditions(n, Goto(n, "idle"))
    /\ instance' = [instance EXCEPT ![n] = NoInstance]
    /\ UNCHANGED <<enactment, watch, ready>>

ReconcileStep(n) ==
    \/ Begin(n) \/ Initialize(n) \/ FillIn(n) \/ Claim(n) \/ AuditBlocked(n)
    \/ NotifyPending(n) \/ AbortCheck(n) \/ NotifyProgressing(n) \/ Compensate(n)
    \/ MidUpdate(n) \/ Apply(n) \/ IncrementRetryCount(n) \/ NotifyRetrying(n)
    \/ NotifyFailedToConfigure(n) \/ NotifyFinalizing(n) \/ Release(n)
    \/ NotifySuccess(n) \/ FinalizeInterruptedApply(n)
    \/ ReleaseUnavailableSlotByAudit(n) \/ DeferredUpdate(n)

-----------------------------------------------------------------------------
(* Restart *)

BrokenAt(p) == [broken |-> TRUE, seen |-> p]

\* What an API server that lags may list: the policy as it was at an older
\* generation.
OlderVersions ==
    {p \in [gen : 1..(policy.gen - 1),
            count : [Generations -> 0..Limit(Cardinality(Nodes))],
            recent : {FALSE}, cond : PolicyConds] :
        \A g \in Generations : g > p.gen => p.count[g] = 0}

\* The handler dies; its pod is restarted with an empty queue and a new cache.
Crash(n) ==
    /\ pc[n] # "down"
    /\ Fault("crash")
    /\ pc' = [pc EXCEPT ![n] = "down"]
    /\ queued' = [queued EXCEPT ![n] = FALSE]
    /\ instance' = [instance EXCEPT ![n] = NoInstance]
    /\ policyStatus' = [policyStatus EXCEPT ![n] = NoStatus]
    /\ watch' = [watch EXCEPT ![n] = LiveCache]
    /\ UNCHANGED <<policy, enactment, ready>>

\* The cache of a handler that starts is filled by an API server that lags.
OldList(n) ==
    /\ pc[n] = "down"
    /\ ~watch[n].broken
    /\ Fault("oldList")
    /\ \E p \in OlderVersions : watch' = [watch EXCEPT ![n] = BrokenAt(p)]
    /\ UNCHANGED <<policy, enactment, pc, instance, policyStatus, queued, ready>>

\* The controllers start: the create event of the policy is queued.
StartControllers(n) ==
    /\ pc' = [pc EXCEPT ![n] = "idle"]
    /\ queued' = [queued EXCEPT ![n] = TRUE]

\* MarkInterrupted: Pending, with the retry count of the generation reset.
Interrupted(e) ==
    [WithConditions(e, SetPending) EXCEPT
        !.retries = [g \in Generations |-> IF g = e.gen THEN 0 ELSE @[g]]]

\* What reclaimInterruptedSlots makes of an enactment that was Progressing.
Recovered(e) ==
    IF IsFinalizing(e.conds) THEN WithConditions(e, SetSuccess) ELSE Interrupted(e)

\* reclaimInterruptedSlots: an own enactment that is still Progressing is
\* finalized or marked interrupted.  The controllers start whether or not
\* it succeeds.
ReclaimInterruptedSlots(n) ==
    LET e == enactment[n] IN
    /\ pc[n] = "down"
    /\ \/ /\ IsProgressing(e.conds)
          /\ enactment' = [enactment EXCEPT ![n] = Recovered(e)]
          /\ NoFault
          /\ Goto(n, "startupAudit")
       \/ /\ ~IsProgressing(e.conds) /\ NoFault
          /\ UNCHANGED enactment
          /\ StartControllers(n)
       \/ /\ Fault("apiError")
          /\ UNCHANGED enactment
          /\ StartControllers(n)
    /\ UNCHANGED <<policy, policyStatus, instance, watch, ready>>

StartupAudit(n) ==
    /\ pc[n] = "startupAudit"
    /\ \/ Audit /\ NoFault
       \/ NoWrite /\ Fault("apiError")
    /\ StartControllers(n)
    /\ UNCHANGED <<enactment, instance, watch, ready>>

-----------------------------------------------------------------------------
(* Environment *)

\* LastUnavailableNodeCountUpdate becomes older than AuditGraceWindow.  A
\* claim is followed by its marker, or by the compensating release, within
\* that window unless markers may be slow.
GraceExpires ==
    /\ policy.recent
    /\ \/ "slowMarker" \in Faults
       \/ \A n \in Nodes : pc[n] \notin {"markClaimed", "compensate"}
    /\ policy' = [policy EXCEPT !.recent = FALSE]
    /\ UNCHANGED <<enactment, pc, instance, policyStatus, queued, watch, ready, faults>>

\* Mutation of HeartbeatExpires: the threshold is shorter than an apply.
HeartbeatExpiresEarly(n) ==
    /\ isLiveHolder(enactment[n])
    /\ pc[n] \in {"down", "apply"}
    /\ Fault("longOutage")
    /\ enactment' = [enactment EXCEPT ![n].fresh = FALSE]
    /\ UNCHANGED <<policy, policyStatus, pc, instance, queued, watch, ready>>

\* The heartbeat of a holder becomes older than StaleEnactmentThreshold,
\* which is longer than any apply.
HeartbeatExpires(n) ==
    /\ isLiveHolder(enactment[n])
    /\ \/ pc[n] = "down" /\ Fault("longOutage")
       \/ pc[n] = "idle" /\ Fault("longIdle")
    /\ enactment' = [enactment EXCEPT ![n].fresh = FALSE]
    /\ UNCHANGED <<policy, policyStatus, pc, instance, queued, watch, ready>>

\* The admission policy of the deployment denies an edit unless the Available
\* condition has a reason other than ConfigurationProgressing.
EditIsAdmitted == policy.cond \in {"Available", "Degraded", "Ignored"}

\* A user edits the spec of the policy: handlers whose watch works reconcile.
EditPolicy ==
    /\ EditIsAdmitted
    /\ policy.gen < MaxGeneration
    /\ Write([policy EXCEPT !.gen = @ + 1])
    /\ queued' = [n \in Nodes |-> queued[n] \/ (pc[n] # "down" /\ ~watch[n].broken)]
    /\ UNCHANGED <<enactment, pc, instance, watch, ready, faults>>

\* The cache of n stays at what it has seen of the policy.
WatchBreaks(n) ==
    /\ pc[n] # "down"
    /\ ~watch[n].broken
    /\ Fault("watch")
    /\ watch' = [watch EXCEPT ![n] = BrokenAt([policy EXCEPT !.recent = FALSE])]
    /\ UNCHANGED <<policy, enactment, pc, instance, policyStatus, queued, ready>>

\* The cache catches up; an update event is let through by
\* onCreateOrUpdateWithDifferentGenerationOrDelete if the generation moved.
WatchRecovers(n) ==
    /\ pc[n] # "down"
    /\ watch[n].broken
    /\ watch' = [watch EXCEPT ![n] = LiveCache]
    /\ queued' = [queued EXCEPT ![n] = @ \/ watch[n].seen.gen # policy.gen]
    /\ UNCHANGED <<policy, enactment, pc, instance, policyStatus, ready, faults>>

\* onLabelsUpdatedForThisNode.
Relabel(n) ==
    /\ "relabel" \in Faults
    /\ pc[n] # "down"
    /\ queued' = [queued EXCEPT ![n] = TRUE]
    /\ UNCHANGED <<policy, enactment, pc, instance, policyStatus, watch, ready, faults>>

ReadinessChanges(n) ==
    /\ Fault("notReady")
    /\ ready' = [ready EXCEPT ![n] = ~@]
    /\ UNCHANGED <<policy, enactment, pc, instance, policyStatus, queued, watch>>

HandlerStep(n) ==
    ReconcileStep(n) \/ ReclaimInterruptedSlots(n) \/ StartupAudit(n)

NodeEnvironment(n) ==
    \/ Crash(n) \/ HeartbeatExpires(n) \/ WatchBreaks(n) \/ WatchRecovers(n)
    \/ OldList(n) \/ Relabel(n) \/ ReadinessChanges(n)

Next ==
    \/ \E n \in Nodes : HandlerStep(n) \/ NodeEnvironment(n)
    \/ GraceExpires
    \/ EditPolicy

Spec == Init /\ [][Next]_vars

\* The handlers run and are restarted, time passes and watches are
\* re-established; users and faults are under no obligation.
Fairness ==
    /\ \A n \in Nodes : WF_vars(HandlerStep(n)) /\ WF_vars(WatchRecovers(n))
    /\ WF_vars(GraceExpires)

FairSpec == Spec /\ Fairness

-----------------------------------------------------------------------------
(* Safety *)

\* The apply of generation g broke the node for good: its slot is kept.
FailedForGood(n) == IsTerminallyFailed(enactment[n].conds) /\ Exhausted(enactment[n])

\* The nodes that are applying generation g or were broken by it.
Unavailable(g) ==
    {n \in Nodes : Gen(n) = g /\ (pc[n] = "apply" \/ FailedForGood(n))}

\* maxUnavailable: of every generation, at most Limit nodes are applying it
\* or have failed to.  A policy that breaks the nodes it is applied to
\* breaks no more than that (Reconcile, claimUnavailableSlot).
MaxUnavailableRespected ==
    \A g \in Generations : Cardinality(Unavailable(g)) <= Limit(numberOfEnactments)

\* Node n relies on a slot of its generation: it has just claimed one, or its
\* enactment says so and it has yet to release it, or it keeps it after it
\* failed for good.
Holds(n) ==
    \/ pc[n] \in {"markClaimed", "compensate"}
    \/ /\ isLiveHolder(enactment[n])
       /\ IsFinalizing(enactment[n].conds) => pc[n] = "release"
    \/ FailedForGood(n)

Holders(g) == {n \in Nodes : Gen(n) = g /\ Holds(n)}

\* Every slot a node relies on is counted: no decrement and no audit, of any
\* handler at any time, gives away the slot of another node
\* (tryDecrementingUnavailableNodeCount, AuditUnavailableSlots).
HeldSlotsAreCounted ==
    \A g \in Generations : Cardinality(Holders(g)) <= policy.count[g]

\* Without a fault no slot is ever lost: every counter is the number of nodes that
\* rely on it, through edits, failing applies, aborts and success, so that the
\* audit has nothing to repair (claimUnavailableSlot and its releases).
SlotsDoNotLeak ==
    faults = 0 => \A g \in Generations : policy.count[g] = Cardinality(Holders(g))

Budget == INSTANCE UnavailabilityBudget WITH
    unavailable <- [g \in Generations |-> Holders(g)],
    members <- numberOfEnactments

\* The counters, markers and audits of all the handlers together implement
\* maxUnavailable: seen through the nodes that rely on a slot, every step is
\* one node taking a slot below the limit, one node giving its slot back, a
\* node joining the rollout, or nothing.
ImplementsBudget == Budget!BudgetSpec

\* The enactment records that the desired state is applied.
Committed(e) == IsFinalizing(e.conds) \/ IsAvailable(e.conds)

\* Once the desired state of a generation is recorded as applied, neither a
\* failed release, nor a spurious reconcile, nor a restart makes the node
\* apply it again: the enactment goes from Finalizing to Available and stays
\* there (Reconcile, finalizeInterruptedApply, reclaimInterruptedSlots).
CommittedIsNotReapplied ==
    [][\A n \in Nodes : Committed(enactment[n]) /\ Gen(n)' = Gen(n)
                            => Committed(enactment'[n])]_vars

\* A node that used up the retries of a generation does not apply it again,
\* whatever makes it reconcile (the check of RetryCount in Reconcile).
ExhaustedIsNotApplied ==
    \A n \in Nodes :
        pc[n] \in {"claim", "claimAgain", "mark", "markClaimed", "midUpdate", "apply"}
            => ~Exhausted(enactment[n])

\* A slot is claimed only below the limit, whatever replies are lost and
\* however old the cache of the claiming node is
\* (incrementUnavailableNodeCount).
CountersStayInBounds ==
    \A g \in Generations : policy.count[g] <= Limit(numberOfEnactments)

-----------------------------------------------------------------------------
(* Why the slots are safe *)

\* The environment the protocol is safe in: no write lands without its reply,
\* markers and reconciles are timely, nodes stay Ready, a handler that was
\* down for long can reach the server when it starts, and a policy whose
\* apply fails is not edited.
SafeFaults ==
    /\ Faults \cap {"lostReply", "longIdle", "slowMarker", "notReady"} = {}
    /\ ~({"apiError", "longOutage"} \subseteq Faults)
    /\ MaxGeneration = 1 \/ "applyError" \notin Faults
    /\ \A k \in 1..Cardinality(Nodes) : Limit(k) >= 1

\* What the enactment of n says is consistent: only a filled-in enactment is
\* in a phase of the rollout; retries belong to its generation; a node that
\* used them up still holds its slot; and only a node that is down has a
\* stale heartbeat.
EnactmentOK(n) ==
    LET e == enactment[n] IN
    /\ ~e.exists => e.gen = 0
    /\ e.gen = 0 => /\ ~IsProgressing(e.conds)
                    /\ ~IsAvailable(e.conds)
                    /\ ~IsTerminallyFailed(e.conds)
    /\ IsAvailable(e.conds) => ~IsProgressing(e.conds) /\ ~IsTerminallyFailed(e.conds)
    /\ IsRetrying(e.conds) => "applyError" \in Faults
    /\ \A g \in Generations : e.retries[g] # 0 => g = e.gen /\ "applyError" \in Faults
    /\ Exhausted(e) => \/ IsProgressing(e.conds) /\ ~IsFinalizing(e.conds)
                       \/ IsTerminallyFailed(e.conds)
    /\ IsProgressing(e.conds) /\ ~e.fresh => pc[n] = "down" /\ "longOutage" \in Faults

\* Where the reconcile of n is agrees with what its enactment says: it claims
\* only while nobody could take it for a holder, it has its marker while it
\* applies, and it releases only after the apply is recorded.
ReconcileOK(n) ==
    LET e == enactment[n] IN
    /\ pc[n] \in {"initialize", "fillIn"} => instance[n].gen # 0
    /\ pc[n] = "initialize" => ~e.exists
    /\ pc[n] = "fillIn" => e.exists
    /\ pc[n] = "failed" => e.gen # 0
    /\ pc[n] \in {"claim", "claimAgain", "auditBlocked", "pending", "abortCheck",
                  "markClaimed", "compensate"} =>
          /\ e.gen # 0
          /\ ~IsProgressing(e.conds)
          /\ ~IsAvailable(e.conds)
          /\ ~Exhausted(e)
    /\ pc[n] \in {"mark", "midUpdate", "apply", "retryCount", "retrying", "finalizing"} =>
          /\ IsProgressing(e.conds)
          /\ ~IsFinalizing(e.conds)
          /\ pc[n] # "retrying" => ~Exhausted(e)
    /\ pc[n] \in {"retryCount", "retrying"} => "applyError" \in Faults
    /\ pc[n] \in {"release", "success", "finalizeInterrupted"} => IsFinalizing(e.conds)
    /\ pc[n] \in {"markClaimed", "compensate"} => policy.recent

\* While a handler can write the Available it computed, which forgets every
\* counter, no node relies on a slot: a claim is a write of the policy.
StatusesOK ==
    \A n \in Nodes : policyStatus[n].cond = "Available" => \A m \in Nodes : ~Holds(m)

\* The inductive invariant of the slots: under SafeFaults every slot that a
\* node relies on is counted and every counter is within the limit, because
\* the markers and the steps of every reconcile agree.
SlotInvariant ==
    /\ TypeOK
    /\ \A n \in Nodes : ready[n] /\ EnactmentOK(n) /\ ReconcileOK(n)
    /\ StatusesOK
    /\ CountersStayInBounds
    /\ HeldSlotsAreCounted

-----------------------------------------------------------------------------
(* Liveness *)

\* The enactment of n is in a final state for the generation of the policy.
Settled(n) ==
    LET e == enactment[n] IN
    /\ e.gen = policy.gen
    /\ IsAvailable(e.conds) \/ IsTerminallyFailed(e.conds) \/ e.conds.aborted = "True"

\* The handler of n will reconcile without anybody doing anything: a request is
\* queued, or the watch has a new generation to deliver.
Awake(n) == queued[n] \/ (watch[n].broken /\ watch[n].seen.gen # policy.gen)

Resting(n) == pc[n] = "idle" /\ ~Awake(n)

\* Nobody is left waiting for an event that does not come: a handler comes to
\* rest only when its enactment is in a final state for the generation of the
\* policy, and when all rest the policy tells how the rollout ended, with no
\* slot in use if it went well (the results of Reconcile, the deferred
\* policyconditions.Update).
RestMeansDone ==
    /\ \A n \in Nodes : Resting(n) => Settled(n)
    /\ (\A n \in Nodes : Resting(n)) =>
          /\ policy.cond \in {"Available", "Degraded"}
          /\ policy.cond = "Available" =>
                /\ \A n \in Nodes : IsAvailable(enactment[n].conds)
                /\ \A g \in Generations : policy.count[g] = 0

\* A policy that says Available is right about every handler at rest: a node that
\* failed or reset its enactment while another handler had listed it as
\* Available, and before that handler wrote the policy, is still to write the
\* policy itself (the conflicts and retries of policyconditions.Update).
AvailableIsCorrected ==
    policy.cond = "Available" =>
        \A n \in Nodes : Resting(n) =>
            Gen(n) = policy.gen /\ IsAvailable(enactment[n].conds)

\* Every node ends up configured, failed or aborted for the last generation
\* and the policy says so, whichever handlers were restarted and whatever
\* slots they left behind (the audit on block, the requeues of Reconcile).
RolloutCompletes ==
    <>[](/\ \A n \in Nodes : Settled(n)
         /\ policy.cond \in {"Available", "Degraded"})

\* When no desired state fails, the rollout ends with every node configured and no
\* slot in use, even after restarts and long outages
\* (reclaimInterruptedSlots, finalizeInterruptedApply, setPolicyStatus).
RolloutSucceeds ==
    [](\A n \in Nodes : pc[n] \notin {"retryCount", "failed"}) =>
    <>[](/\ \A n \in Nodes : Gen(n) = policy.gen /\ IsAvailable(enactment[n].conds)
         /\ policy.cond = "Available"
         /\ \A g \in Generations : policy.count[g] = 0)

\* A maxUnavailable that resolves to no node does not leave the rollout
\* waiting: every enactment fails, and nothing is applied on the way
\* (InvalidMaxUnavailableError in Reconcile).
InvalidLimitFails ==
    /\ [](\A n \in Nodes : pc[n] # "apply")
    /\ <>[](/\ \A n \in Nodes : /\ Gen(n) = policy.gen
                                 /\ IsTerminallyFailed(enactment[n].conds)
            /\ policy.cond = "Degraded")

=============================================================================
