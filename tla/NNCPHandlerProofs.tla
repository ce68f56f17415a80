------------------------- MODULE NNCPHandlerProofs -------------------------
(***************************************************************************)
(* Type correctness of NNCPHandler, for every set of nodes, every limit,   *)
(* every set of faults and every bound on generations, retries and faults; *)
(* and the lemmas for NNCPSlotProofs and NNCPFaultProofs: what a step of   *)
(* one node, an audit or an update of the policy keeps, and that the steps *)
(* of a reconcile which only notify, or change no enactment, keep the      *)
(* invariant of the slots.                                                 *)
(***************************************************************************)
EXTENDS NNCPHandler, FiniteSetTheorems, TLAPS

-----------------------------------------------------------------------------
(* Types of the helpers *)

\* Every setter writes a condition list.
LEMMA ConditionListTypes ==
    /\ NoConditions \in ConditionLists
    /\ UnknownConditions \in ConditionLists
    /\ SetRetry \in ConditionLists
    /\ SetFailed \in ConditionLists
    /\ SetAborted \in ConditionLists
    /\ SetSuccess \in ConditionLists
    /\ SetPending \in ConditionLists
    /\ SetProgressing \in ConditionLists
    /\ SetFinalizing \in ConditionLists
  <1>1. NoConditions \in ConditionLists /\ UnknownConditions \in ConditionLists
    BY Zenon DEF NoConditions, UnknownConditions, ConditionLists, Statuses, Reasons
  <1>2. AllFalse \in ConditionLists /\ SetProgressing \in ConditionLists
    BY Zenon DEF AllFalse, SetProgressing, ConditionLists, Statuses, Reasons
  <1>3. SetRetry \in ConditionLists /\ SetFailed \in ConditionLists
    BY <1>2, Zenon DEF SetRetry, SetFailed, ConditionLists, Statuses, Reasons
  <1>4. SetAborted \in ConditionLists /\ SetSuccess \in ConditionLists
    BY <1>2, Zenon DEF SetAborted, SetSuccess, ConditionLists, Statuses, Reasons
  <1>5. SetPending \in ConditionLists
    BY <1>2, Zenon DEF SetPending, ConditionLists, Statuses, Reasons
  <1>6. SetFinalizing \in ConditionLists
    BY Zenon DEF SetFinalizing, SetProgressing, ConditionLists, Statuses, Reasons
  <1> QED BY <1>1, <1>2, <1>3, <1>4, <1>5, <1>6, Zenon

\* Writing conditions yields an enactment.
LEMMA WithConditionsType ==
    ASSUME NEW e \in Enactments, NEW c \in ConditionLists
    PROVE  WithConditions(e, c) \in Enactments
  BY Zenon DEF WithConditions, Enactments

\* Writing a counter yields a policy.
LEMMA WithCountType ==
    ASSUME NEW p \in Policies, NEW g, NEW k, g \in Generations => k \in Nat
    PROVE  WithCount(p, g, k) \in Policies
  BY Zenon DEF WithCount, Policies

\* A decrement yields a policy: it stops at zero.
LEMMA DecrementedType ==
    ASSUME NEW p \in Policies, NEW g
    PROVE  Decremented(p, g) \in Policies
  <1>1. g \in Generations => p.count[g] \in Nat
    BY Zenon DEF Policies
  <1>2. g \in Generations /\ p.count[g] # 0 => p.count[g] - 1 \in Nat
    BY <1>1
  <1>3. CASE p.count[g] = 0
    BY <1>3, Zenon DEF Decremented
  <1>4. CASE p.count[g] # 0
    BY <1>2, <1>4, WithCountType, Zenon DEF Decremented
  <1> QED BY <1>3, <1>4, Zenon

\* policyconditions.Update yields a policy.
LEMMA setPolicyStatusType ==
    ASSUME NEW p \in Policies, NEW cond \in PolicyConds
    PROVE  setPolicyStatus(p, cond) \in Policies
  BY Zenon DEF setPolicyStatus, Policies

\* It computes a condition of a policy.
LEMMA policyCondType ==
    ASSUME NEW es, NEW g, NEW matching, NEW rdy
    PROVE  policyCond(es, g, matching, rdy) \in PolicyConds
  BY Zenon DEF policyCond, PolicyConds

\* The reset at a new generation yields an enactment.
LEMMA resetPolicyGenerationType ==
    ASSUME NEW e \in Enactments, NEW g \in 0..MaxGeneration
    PROVE  resetPolicyGeneration(e, g) \in Enactments
  BY ConditionListTypes, Zenon DEF resetPolicyGeneration, Enactments

\* MarkInterrupted yields an enactment.
LEMMA InterruptedType ==
    ASSUME NEW e \in Enactments
    PROVE  Interrupted(e) \in Enactments
  <1>1. WithConditions(e, SetPending) \in Enactments
    BY WithConditionsType, ConditionListTypes, Zenon
  <1> QED BY <1>1, Zenon DEF Interrupted, Enactments

\* Start-up recovery yields an enactment.
LEMMA RecoveredType ==
    ASSUME NEW e \in Enactments
    PROVE  Recovered(e) \in Enactments
  BY InterruptedType, WithConditionsType, ConditionListTypes, Zenon DEF Recovered

\* The objects the system starts from.
LEMMA NewTypes == NewPolicy \in Policies /\ NoEnactment \in Enactments
  BY BoundsAssumption, ConditionListTypes
     DEF NewPolicy, Policies, NoEnactment, Enactments, Generations, PolicyConds

\* The nodes in a set can be counted.
LEMMA CardinalitiesAreNat ==
    /\ \A g : Cardinality(SlotHolders(g)) \in Nat
    /\ \A g : Cardinality(Holders(g)) \in Nat
    /\ \A g : Cardinality(Unavailable(g)) \in Nat
    /\ numberOfEnactments \in 0..Cardinality(Nodes)
  BY NodesAssumption, FS_Subset, FS_CardinalityType
     DEF SlotHolders, Holders, Unavailable, numberOfEnactments

-----------------------------------------------------------------------------
(* Type correctness *)

\* The initial state is well typed.
LEMMA TypeInit == Init => TypeOK
  <1>1. NoStatus \in PolicyStatuses
    BY BoundsAssumption DEF NoStatus, PolicyStatuses
  <1> QED BY <1>1, NewTypes, BoundsAssumption
          DEF Init, TypeOK, Labels, NoInstance, Instances, LiveCache, Caches

\* The next step of a reconcile is a step.
LEMMA GotoType ==
    ASSUME TypeOK, NEW n \in Nodes, NEW l \in Labels, Goto(n, l)
    PROVE  pc' \in [Nodes -> Labels] /\ queued' \in [Nodes -> BOOLEAN]
  BY Zenon DEF TypeOK, Goto

\* A return keeps pc and the queue well typed.
LEMMA ReturnType ==
    ASSUME TypeOK, NEW n \in Nodes, NEW requeue \in BOOLEAN, Return(n, requeue)
    PROVE  pc' \in [Nodes -> Labels] /\ queued' \in [Nodes -> BOOLEAN]
  BY Zenon DEF TypeOK, Return, Labels

\* A start of the controllers keeps pc and the queue well typed.
LEMMA StartControllersType ==
    ASSUME TypeOK, NEW n \in Nodes, StartControllers(n)
    PROVE  pc' \in [Nodes -> Labels] /\ queued' \in [Nodes -> BOOLEAN]
  BY Zenon DEF TypeOK, StartControllers, Labels

\* A fault keeps the budget of faults well typed.
LEMMA FaultType ==
    ASSUME TypeOK
    PROVE  /\ \A kind : Fault(kind) => faults' \in 0..MaxFaults
           /\ NoFault => faults' \in 0..MaxFaults
  BY BoundsAssumption DEF TypeOK, Fault, NoFault

\* Replacing one enactment keeps all of them well typed.
LEMMA EnactmentType ==
    ASSUME TypeOK, NEW n \in Nodes, NEW e \in Enactments,
           enactment' = [enactment EXCEPT ![n] = e]
    PROVE  enactment' \in [Nodes -> Enactments]
  BY Zenon DEF TypeOK

\* A notification keeps the enactments well typed.
LEMMA NotifyType ==
    ASSUME TypeOK, NEW n \in Nodes, NEW c \in ConditionLists,
           NEW ACTION Then, NEW ACTION Else, Notify(n, c, Then, Else)
    PROVE  enactment' \in [Nodes -> Enactments] /\ faults' \in 0..MaxFaults
  <1>1. enactment[n] \in Enactments
    BY Zenon DEF TypeOK
  <1>2. WithConditions(enactment[n], c) \in Enactments
    BY <1>1, WithConditionsType, Zenon
  <1> QED BY <1>2, EnactmentType, FaultType, Zenon DEF Notify, TypeOK

\* Counting a retry yields an enactment.
LEMMA RetriesType ==
    ASSUME NEW r \in [Generations -> Nat], NEW g
    PROVE  [r EXCEPT ![g] = @ + 1] \in [Generations -> Nat]
  <1> DEFINE k == r[g] + 1
  <1>1. g \in Generations => k \in Nat
    OBVIOUS
  <1> HIDE DEF k
  <1>2. [r EXCEPT ![g] = k] \in [Generations -> Nat]
    BY <1>1, Zenon
  <1> QED BY <1>2, Zenon DEF k

\* The update that is not running, and one that has to compute again.
LEMMA StatusTypes ==
    /\ NoStatus \in PolicyStatuses
    /\ \A s \in PolicyStatuses : Outdated(s) \in PolicyStatuses
  <1>1. NoStatus \in PolicyStatuses
    BY BoundsAssumption DEF NoStatus, PolicyStatuses
  <1>2. \A s \in PolicyStatuses : Outdated(s) \in PolicyStatuses
    BY Zenon DEF Outdated, PolicyStatuses
  <1> QED BY <1>1, <1>2, Zenon

\* A write keeps what was computed well typed, and so does none.
LEMMA WriteType ==
    ASSUME TypeOK
    PROVE  /\ NoWrite => policy' \in Policies /\ policyStatus' \in [Nodes -> PolicyStatuses]
           /\ \A p \in Policies : Write(p) =>
                 policy' \in Policies /\ policyStatus' \in [Nodes -> PolicyStatuses]
  BY StatusTypes, Zenon DEF TypeOK, Write, NoWrite

\* A step of the update of the policy conditions.
LEMMA UpdateType ==
    ASSUME TypeOK, NEW n \in Nodes, NEW l \in Labels, UpdatePolicyConditions(n, Goto(n, l))
    PROVE  /\ policy' \in Policies /\ policyStatus' \in [Nodes -> PolicyStatuses]
           /\ pc' \in [Nodes -> Labels] /\ queued' \in [Nodes -> BOOLEAN]
           /\ faults' \in 0..MaxFaults
  <1> DEFINE s == policyStatus[n]
             compute == [attempt |-> s.attempt + 1,
                         cond |-> policyCond(enactment, policy.gen, Nodes, ReadyNodes)]
  <1>1. s \in PolicyStatuses /\ policy \in Policies
    BY Zenon DEF TypeOK
  <1>2. pc' \in [Nodes -> Labels] /\ queued' \in [Nodes -> BOOLEAN] /\ faults' \in 0..MaxFaults
    BY GotoType, FaultType, Zenon DEF UpdatePolicyConditions, ComputeStatus, TypeOK
  <1>3. CASE ComputeStatus(n)
    <2>1. s.attempt + 1 \in 0..UpdateAttempts
      BY <1>1, <1>3, BoundsAssumption DEF ComputeStatus, MayCompute, PolicyStatuses
    <2>2. compute \in PolicyStatuses
      BY <2>1, policyCondType, Zenon DEF PolicyStatuses
    <2>3. policyStatus' = [policyStatus EXCEPT ![n] = compute] /\ policy' = policy
      BY <1>3, Zenon DEF ComputeStatus
    <2> QED BY <1>1, <1>2, <2>2, <2>3, Zenon DEF TypeOK
  <1>4. CASE s.cond # "None" /\ policy' = setPolicyStatus(policy, s.cond)
    <2>1. policy' \in Policies
      BY <1>1, <1>4, setPolicyStatusType, Zenon DEF PolicyStatuses
    <2>2. policyStatus' \in [Nodes -> PolicyStatuses]
      <3>1. \/ ComputeStatus(n)
            \/ policyStatus' = [m \in Nodes |-> IF m = n THEN NoStatus ELSE Outdated(policyStatus[m])]
            \/ policyStatus' = [m \in Nodes |-> Outdated(policyStatus[m])]
            \/ policyStatus' = [policyStatus EXCEPT ![n] = NoStatus]
        BY Zenon DEF UpdatePolicyConditions, Write
      <3> QED BY <1>3, <3>1, StatusTypes, Zenon DEF TypeOK
    <2> QED BY <1>2, <2>1, <2>2, Zenon
  <1>5. CASE policyStatus' = [policyStatus EXCEPT ![n] = NoStatus] /\ policy' = policy
    BY <1>1, <1>2, <1>5, StatusTypes, Zenon DEF TypeOK
  <1> QED BY <1>3, <1>4, <1>5, Zenon DEF UpdatePolicyConditions, Write

\* What a cache shows is a policy.
LEMMA CachedType ==
    ASSUME TypeOK, NEW n \in Nodes
    PROVE  [gen |-> Cached(n).gen, unknown |-> IsUnknown(Cached(n).cond)] \in Instances
  <1>1. Cached(n) \in Policies
    BY Zenon DEF Cached, Caches, TypeOK
  <1>2. Cached(n).gen \in 0..MaxGeneration
    BY <1>1, BoundsAssumption DEF Policies, Generations
  <1> QED BY <1>2 DEF Instances, IsUnknown

\* An audit that repairs yields a policy.
LEMMA RepairType ==
    ASSUME TypeOK
    PROVE  WithCount(policy, policy.gen, Cardinality(SlotHolders(policy.gen))) \in Policies
  BY CardinalitiesAreNat, WithCountType, Zenon DEF TypeOK

\* An older version of a policy is a policy.
LEMMA OlderVersionsType ==
    ASSUME TypeOK
    PROVE  OlderVersions \subseteq Policies
  <1> SUFFICES ASSUME NEW p \in OlderVersions PROVE p \in Policies
    OBVIOUS
  <1>1. /\ p \in [gen : 1..(policy.gen - 1),
                  count : [Generations -> 0..Limit(Cardinality(Nodes))],
                  recent : {FALSE}, cond : PolicyConds]
    BY Zenon DEF OlderVersions
  <1>2. 1..(policy.gen - 1) \subseteq Generations
    <2>1. policy.gen \in 1..MaxGeneration
      BY Zenon DEF TypeOK, Policies, Generations
    <2> QED BY <2>1, BoundsAssumption DEF Generations
  <1>3. 0..Limit(Cardinality(Nodes)) \subseteq Nat
    OBVIOUS
  <1>4. [Generations -> 0..Limit(Cardinality(Nodes))] \subseteq [Generations -> Nat]
    BY <1>3, Zenon
  <1> QED BY <1>1, <1>2, <1>4, Zenon DEF Policies

\* Every step keeps the types.
LEMMA TypeNext == ASSUME TypeOK, [Next]_vars PROVE TypeOK'
  <1>1. ASSUME NEW n \in Nodes, Begin(n) PROVE TypeOK'
    <2>1. instance' \in [Nodes -> Instances]
      BY <1>1, CachedType, Zenon DEF Begin, TypeOK
    <2>2. pc' \in [Nodes -> Labels] /\ queued' \in [Nodes -> BOOLEAN]
      BY <1>1, Zenon DEF Begin, Labels, TypeOK
    <2>3. [policy EXCEPT !.cond = "Unknown"] \in Policies
      BY Zenon DEF Policies, PolicyConds, TypeOK
    <2>4. policy' \in Policies /\ policyStatus' \in [Nodes -> PolicyStatuses]
      BY <1>1, <2>3, WriteType, Zenon DEF Begin
    <2>5. faults' \in 0..MaxFaults
      BY <1>1, FaultType, Zenon DEF Begin
    <2> QED BY <1>1, <2>1, <2>2, <2>4, <2>5, Zenon DEF Begin, TypeOK
  <1>2. ASSUME NEW n \in Nodes, Initialize(n) PROVE TypeOK'
    <2>1. [NoEnactment EXCEPT !.exists = TRUE, !.conds = UnknownConditions] \in Enactments
      BY <1>2, NewTypes, ConditionListTypes, Zenon DEF Enactments
    <2>2. [enactment[n] EXCEPT !.exists = TRUE] \in Enactments
      BY <1>2, Zenon DEF Enactments, TypeOK
    <2>3. enactment' \in [Nodes -> Enactments] /\ faults' \in 0..MaxFaults
      BY <1>2, <2>1, <2>2, FaultType, Zenon DEF Initialize, TypeOK
    <2>4. pc' \in [Nodes -> Labels] /\ queued' \in [Nodes -> BOOLEAN]
      BY <1>2, GotoType, ReturnType, Zenon DEF Initialize, Labels
    <2> QED BY <1>2, <2>1, <2>2, <2>3, <2>4, Zenon DEF Initialize, TypeOK
  <1>3. ASSUME NEW n \in Nodes, FillIn(n) PROVE TypeOK'
    <2>1. resetPolicyGeneration(enactment[n], instance[n].gen) \in Enactments
      BY <1>3, resetPolicyGenerationType, Zenon DEF Instances, TypeOK
    <2>2. enactment' \in [Nodes -> Enactments] /\ faults' \in 0..MaxFaults
      BY <1>3, <2>1, EnactmentType, FaultType, Zenon DEF FillIn, TypeOK
    <2>3. pc' \in [Nodes -> Labels] /\ queued' \in [Nodes -> BOOLEAN]
      BY <1>3, GotoType, ReturnType, Zenon DEF FillIn, Route, Labels
    <2> QED BY <1>3, <2>1, <2>2, <2>3, Zenon DEF FillIn, TypeOK
  <1>4. ASSUME NEW n \in Nodes, Claim(n) PROVE TypeOK'
    <2>1. instance' \in [Nodes -> Instances]
      BY <1>4, CachedType, Zenon DEF Claim, TypeOK
    <2>2. \A g \in Generations : policy.count[g] + 1 \in Nat
      BY <1>4 DEF Policies, TypeOK
    <2>3. WithCount(policy, Gen(n), policy.count[Gen(n)] + 1) \in Policies
      BY <2>2, WithCountType, Zenon DEF TypeOK
    <2>4. policy' \in Policies /\ policyStatus' \in [Nodes -> PolicyStatuses]
      BY <1>4, <2>3, WriteType, Zenon DEF Claim
    <2>5. faults' \in 0..MaxFaults
      BY <1>4, FaultType, Zenon DEF Claim
    <2>6. pc' \in [Nodes -> Labels] /\ queued' \in [Nodes -> BOOLEAN]
      BY <1>4, GotoType, ReturnType, Zenon DEF Claim, Labels, TypeOK
    <2> QED BY <1>4, <2>1, <2>4, <2>5, <2>6, Zenon DEF Claim, TypeOK
  <1>5. ASSUME NEW n \in Nodes, AuditBlocked(n) PROVE TypeOK'
    <2>1. policy' \in Policies /\ policyStatus' \in [Nodes -> PolicyStatuses]
      BY <1>5, RepairType, WriteType, Zenon DEF AuditBlocked, AuditRepair
    <2>3. faults' \in 0..MaxFaults
      BY <1>5, FaultType, Zenon DEF AuditBlocked
    <2>2. pc' \in [Nodes -> Labels] /\ queued' \in [Nodes -> BOOLEAN]
      BY <1>5, GotoType, Zenon DEF AuditBlocked, Labels
    <2> QED BY <1>5, <2>1, <2>2, <2>3, Zenon DEF AuditBlocked, TypeOK
  <1>6. ASSUME NEW n \in Nodes, NotifyPending(n) PROVE TypeOK'
    <2>1. enactment' \in [Nodes -> Enactments] /\ faults' \in 0..MaxFaults
      BY <1>6, NotifyType, ConditionListTypes, Zenon DEF NotifyPending
    <2>2. pc' \in [Nodes -> Labels] /\ queued' \in [Nodes -> BOOLEAN]
      BY <1>6, GotoType, ReturnType, Zenon DEF NotifyPending, Notify, Labels, TypeOK
    <2> QED BY <1>6, <2>1, <2>2, Zenon DEF NotifyPending, TypeOK
  <1>7. ASSUME NEW n \in Nodes, AbortCheck(n) PROVE TypeOK'
    <2>1. enactment' \in [Nodes -> Enactments] /\ faults' \in 0..MaxFaults
      BY <1>7, NotifyType, ConditionListTypes, FaultType, Zenon DEF AbortCheck, TypeOK
    <2>2. pc' \in [Nodes -> Labels] /\ queued' \in [Nodes -> BOOLEAN]
      BY <1>7, ReturnType, Zenon DEF AbortCheck, Notify, TypeOK
    <2> QED BY <1>7, <2>1, <2>2, Zenon DEF AbortCheck, TypeOK
  <1>8. ASSUME NEW n \in Nodes, NotifyProgressing(n) PROVE TypeOK'
    <2>1. enactment' \in [Nodes -> Enactments] /\ faults' \in 0..MaxFaults
      BY <1>8, NotifyType, ConditionListTypes, Zenon DEF NotifyProgressing
    <2>2. pc' \in [Nodes -> Labels] /\ queued' \in [Nodes -> BOOLEAN]
      BY <1>8, GotoType, ReturnType, Zenon DEF NotifyProgressing, Notify, Labels, TypeOK
    <2> QED BY <1>8, <2>1, <2>2, Zenon DEF NotifyProgressing, TypeOK
  <1>9. ASSUME NEW n \in Nodes, Compensate(n) PROVE TypeOK'
    <2>0. Decremented(policy, Gen(n)) \in Policies
      BY DecrementedType, Zenon DEF TypeOK
    <2>1. policy' \in Policies /\ policyStatus' \in [Nodes -> PolicyStatuses]
      BY <1>9, <2>0, WriteType, Zenon DEF Compensate
    <2>3. faults' \in 0..MaxFaults
      BY <1>9, FaultType, Zenon DEF Compensate
    <2>2. pc' \in [Nodes -> Labels] /\ queued' \in [Nodes -> BOOLEAN]
      BY <1>9, ReturnType, Zenon DEF Compensate, TypeOK
    <2> QED BY <1>9, <2>1, <2>2, <2>3, Zenon DEF Compensate, TypeOK
  <1>10. ASSUME NEW n \in Nodes, MidUpdate(n) PROVE TypeOK'
    <2>1. UpdatePolicyConditions(n, Goto(n, "apply")) /\ "apply" \in Labels
      BY <1>10, Zenon DEF MidUpdate, Labels
    <2> QED BY <1>10, <2>1, UpdateType, Zenon DEF MidUpdate, TypeOK
  <1>11. ASSUME NEW n \in Nodes, Apply(n) PROVE TypeOK'
    <2>1. pc' \in [Nodes -> Labels] /\ queued' \in [Nodes -> BOOLEAN]
      BY <1>11, GotoType, Zenon DEF Apply, Labels
    <2> QED BY <1>11, <2>1, Zenon DEF Apply, TypeOK
  <1>12. ASSUME NEW n \in Nodes, IncrementRetryCount(n) PROVE TypeOK'
    <2>1. [enactment[n].retries EXCEPT ![Gen(n)] = @ + 1] \in [Generations -> Nat]
      BY <1>12, RetriesType, Zenon DEF Enactments, TypeOK
    <2>2. [enactment[n] EXCEPT !.retries[Gen(n)] = @ + 1] \in Enactments
      BY <1>12, <2>1, ZenonT(30) DEF Enactments, TypeOK
    <2>3. enactment' \in [Nodes -> Enactments] /\ faults' \in 0..MaxFaults
      BY <1>12, <2>2, FaultType, Zenon DEF IncrementRetryCount, TypeOK
    <2>4. pc' \in [Nodes -> Labels] /\ queued' \in [Nodes -> BOOLEAN]
      BY <1>12, GotoType, ReturnType, Zenon DEF IncrementRetryCount, Labels
    <2> QED BY <1>12, <2>1, <2>2, <2>3, <2>4, Zenon DEF IncrementRetryCount, TypeOK
  <1>13. ASSUME NEW n \in Nodes, NotifyFailedToConfigure(n) PROVE TypeOK'
    <2>1. enactment' \in [Nodes -> Enactments] /\ faults' \in 0..MaxFaults
      BY <1>13, NotifyType, ConditionListTypes, Zenon DEF NotifyFailedToConfigure
    <2>2. pc' \in [Nodes -> Labels] /\ queued' \in [Nodes -> BOOLEAN]
      BY <1>13, GotoType, ReturnType, Zenon
         DEF NotifyFailedToConfigure, Notify, Labels, TypeOK
    <2> QED BY <1>13, <2>1, <2>2, Zenon DEF NotifyFailedToConfigure, TypeOK
  <1>14. ASSUME NEW n \in Nodes, NotifyRetrying(n) PROVE TypeOK'
    <2>1. enactment' \in [Nodes -> Enactments] /\ faults' \in 0..MaxFaults
      BY <1>14, NotifyType, ConditionListTypes, Zenon DEF NotifyRetrying
    <2>2. pc' \in [Nodes -> Labels] /\ queued' \in [Nodes -> BOOLEAN]
      BY <1>14, GotoType, ReturnType, Zenon DEF NotifyRetrying, Notify, Labels, TypeOK
    <2> QED BY <1>14, <2>1, <2>2, Zenon DEF NotifyRetrying, TypeOK
  <1>15. ASSUME NEW n \in Nodes, NotifyFinalizing(n) PROVE TypeOK'
    <2>1. enactment' \in [Nodes -> Enactments] /\ faults' \in 0..MaxFaults
      BY <1>15, NotifyType, ConditionListTypes, Zenon DEF NotifyFinalizing
    <2>2. pc' \in [Nodes -> Labels] /\ queued' \in [Nodes -> BOOLEAN]
      BY <1>15, GotoType, ReturnType, Zenon DEF NotifyFinalizing, Notify, Labels, TypeOK
    <2> QED BY <1>15, <2>1, <2>2, Zenon DEF NotifyFinalizing, TypeOK
  <1>16. ASSUME NEW n \in Nodes, Release(n) PROVE TypeOK'
    <2>0. Decremented(policy, Gen(n)) \in Policies
      BY DecrementedType, Zenon DEF TypeOK
    <2>1. policy' \in Policies /\ policyStatus' \in [Nodes -> PolicyStatuses]
      BY <1>16, <2>0, WriteType, Zenon DEF Release
    <2>3. faults' \in 0..MaxFaults
      BY <1>16, FaultType, Zenon DEF Release
    <2>2. pc' \in [Nodes -> Labels] /\ queued' \in [Nodes -> BOOLEAN]
      BY <1>16, GotoType, ReturnType, Zenon DEF Release, Labels, TypeOK
    <2> QED BY <1>16, <2>1, <2>2, <2>3, Zenon DEF Release, TypeOK
  <1>17. ASSUME NEW n \in Nodes, NotifySuccess(n) PROVE TypeOK'
    <2>1. enactment' \in [Nodes -> Enactments] /\ faults' \in 0..MaxFaults
      BY <1>17, NotifyType, ConditionListTypes, Zenon DEF NotifySuccess
    <2>2. pc' \in [Nodes -> Labels] /\ queued' \in [Nodes -> BOOLEAN]
      BY <1>17, GotoType, ReturnType, Zenon DEF NotifySuccess, Notify, Labels, TypeOK
    <2> QED BY <1>17, <2>1, <2>2, Zenon DEF NotifySuccess, TypeOK
  <1>18. ASSUME NEW n \in Nodes, FinalizeInterruptedApply(n) PROVE TypeOK'
    <2>1. enactment' \in [Nodes -> Enactments] /\ faults' \in 0..MaxFaults
      BY <1>18, NotifyType, ConditionListTypes, Zenon DEF FinalizeInterruptedApply
    <2>2. pc' \in [Nodes -> Labels] /\ queued' \in [Nodes -> BOOLEAN]
      BY <1>18, GotoType, ReturnType, Zenon
         DEF FinalizeInterruptedApply, Notify, Labels, TypeOK
    <2> QED BY <1>18, <2>1, <2>2, Zenon DEF FinalizeInterruptedApply, TypeOK
  <1>19. ASSUME NEW n \in Nodes, ReleaseUnavailableSlotByAudit(n) PROVE TypeOK'
    <2>1. policy' \in Policies /\ policyStatus' \in [Nodes -> PolicyStatuses]
      BY <1>19, RepairType, WriteType, Zenon DEF ReleaseUnavailableSlotByAudit, Audit, AuditRepair
    <2>3. faults' \in 0..MaxFaults
      BY <1>19, FaultType, Zenon DEF ReleaseUnavailableSlotByAudit
    <2>2. pc' \in [Nodes -> Labels] /\ queued' \in [Nodes -> BOOLEAN]
      BY <1>19, ReturnType, Zenon DEF ReleaseUnavailableSlotByAudit
    <2> QED BY <1>19, <2>1, <2>2, <2>3, Zenon DEF ReleaseUnavailableSlotByAudit, TypeOK
  <1>20. ASSUME NEW n \in Nodes, DeferredUpdate(n) PROVE TypeOK'
    <2>1. UpdatePolicyConditions(n, Goto(n, "idle")) /\ "idle" \in Labels
      BY <1>20, Zenon DEF DeferredUpdate, Labels
    <2>2. instance' \in [Nodes -> Instances]
      BY <1>20, BoundsAssumption DEF DeferredUpdate, NoInstance, Instances, TypeOK
    <2> QED BY <1>20, <2>1, <2>2, UpdateType, Zenon DEF DeferredUpdate, TypeOK
  <1>21. ASSUME NEW n \in Nodes, Crash(n) PROVE TypeOK'
    <2>1. pc' \in [Nodes -> Labels] /\ queued' \in [Nodes -> BOOLEAN]
      BY <1>21, Zenon DEF Crash, Labels, TypeOK
    <2>2. instance' \in [Nodes -> Instances] /\ faults' \in 0..MaxFaults
      BY <1>21, BoundsAssumption, FaultType DEF Crash, NoInstance, Instances, TypeOK
    <2>3. watch' \in [Nodes -> Caches]
      BY <1>21, NewTypes, Zenon DEF Crash, LiveCache, Caches, TypeOK
    <2>4. policyStatus' \in [Nodes -> PolicyStatuses]
      BY <1>21, StatusTypes, Zenon DEF Crash, TypeOK
    <2> QED BY <1>21, <2>1, <2>2, <2>3, <2>4, Zenon DEF Crash, TypeOK
  <1>22. ASSUME NEW n \in Nodes, ReclaimInterruptedSlots(n) PROVE TypeOK'
    <2>1. Recovered(enactment[n]) \in Enactments
      BY <1>22, RecoveredType, Zenon DEF TypeOK
    <2>2. enactment' \in [Nodes -> Enactments] /\ faults' \in 0..MaxFaults
      BY <1>22, <2>1, EnactmentType, FaultType, Zenon DEF ReclaimInterruptedSlots, TypeOK
    <2>3. pc' \in [Nodes -> Labels] /\ queued' \in [Nodes -> BOOLEAN]
      BY <1>22, GotoType, StartControllersType, Zenon DEF ReclaimInterruptedSlots, Labels
    <2> QED BY <1>22, <2>1, <2>2, <2>3, Zenon DEF ReclaimInterruptedSlots, TypeOK
  <1>23. ASSUME NEW n \in Nodes, StartupAudit(n) PROVE TypeOK'
    <2>1. policy' \in Policies /\ policyStatus' \in [Nodes -> PolicyStatuses]
      BY <1>23, RepairType, WriteType, Zenon DEF StartupAudit, Audit, AuditRepair
    <2>3. faults' \in 0..MaxFaults
      BY <1>23, FaultType, Zenon DEF StartupAudit
    <2>2. pc' \in [Nodes -> Labels] /\ queued' \in [Nodes -> BOOLEAN]
      BY <1>23, StartControllersType, Zenon DEF StartupAudit
    <2> QED BY <1>23, <2>1, <2>2, <2>3, Zenon DEF StartupAudit, TypeOK
  <1>24. ASSUME NEW n \in Nodes, HeartbeatExpires(n) PROVE TypeOK'
    <2>1. [enactment[n] EXCEPT !.fresh = FALSE] \in Enactments
      BY <1>24, Zenon DEF Enactments, TypeOK
    <2>2. enactment' \in [Nodes -> Enactments] /\ faults' \in 0..MaxFaults
      BY <1>24, <2>1, FaultType, Zenon DEF HeartbeatExpires, TypeOK
    <2> QED BY <1>24, <2>1, <2>2, Zenon DEF HeartbeatExpires, TypeOK
  <1>25. ASSUME NEW n \in Nodes, WatchBreaks(n) PROVE TypeOK'
    <2>1. [policy EXCEPT !.recent = FALSE] \in Policies
      BY <1>25, Zenon DEF Policies, TypeOK
    <2>2. watch' \in [Nodes -> Caches] /\ faults' \in 0..MaxFaults
      BY <1>25, <2>1, FaultType, Zenon DEF WatchBreaks, BrokenAt, Caches, TypeOK
    <2> QED BY <1>25, <2>1, <2>2, Zenon DEF WatchBreaks, TypeOK
  <1>26. ASSUME NEW n \in Nodes, WatchRecovers(n) PROVE TypeOK'
    <2>1. watch' \in [Nodes -> Caches]
      BY <1>26, NewTypes, Zenon DEF WatchRecovers, LiveCache, Caches, TypeOK
    <2>2. queued' \in [Nodes -> BOOLEAN]
      BY <1>26, Zenon DEF WatchRecovers, TypeOK
    <2> QED BY <1>26, <2>1, <2>2, Zenon DEF WatchRecovers, TypeOK
  <1>27. ASSUME NEW n \in Nodes, Relabel(n) PROVE TypeOK'
    <2>1. queued' \in [Nodes -> BOOLEAN]
      BY <1>27, Zenon DEF Relabel, TypeOK
    <2> QED BY <1>27, <2>1, Zenon DEF Relabel, TypeOK
  <1>28. ASSUME NEW n \in Nodes, ReadinessChanges(n) PROVE TypeOK'
    <2>1. ready' \in [Nodes -> BOOLEAN] /\ faults' \in 0..MaxFaults
      BY <1>28, FaultType, Zenon DEF ReadinessChanges, TypeOK
    <2> QED BY <1>28, <2>1, Zenon DEF ReadinessChanges, TypeOK
  <1>29. ASSUME GraceExpires PROVE TypeOK'
    BY <1>29, Zenon DEF GraceExpires, Policies, TypeOK
  <1>30. ASSUME EditPolicy PROVE TypeOK'
    <2>1. policy.gen \in 1..MaxGeneration
      BY Zenon DEF Policies, Generations, TypeOK
    <2>2. policy.gen + 1 \in Generations
      BY <1>30, <2>1, BoundsAssumption DEF EditPolicy, Generations
    <2>3. [policy EXCEPT !.gen = @ + 1] \in Policies
      BY <2>2, Zenon DEF Policies, TypeOK
    <2>4. policy' \in Policies /\ policyStatus' \in [Nodes -> PolicyStatuses]
      BY <1>30, <2>3, WriteType, Zenon DEF EditPolicy
    <2> QED BY <1>30, <2>4, Zenon DEF EditPolicy, TypeOK
  <1>31. ASSUME UNCHANGED vars PROVE TypeOK'
    BY <1>31, Zenon DEF vars, TypeOK
  <1>32. ASSUME NEW n \in Nodes, OldList(n) PROVE TypeOK'
    <2>1. watch' \in [Nodes -> Caches] /\ faults' \in 0..MaxFaults
      <3>1. PICK p \in OlderVersions : watch' = [watch EXCEPT ![n] = BrokenAt(p)]
        BY <1>32, Zenon DEF OldList
      <3>2. BrokenAt(p) \in Caches
        BY OlderVersionsType, Zenon DEF BrokenAt, Caches
      <3> QED BY <1>32, <3>1, <3>2, FaultType, Zenon DEF OldList, TypeOK
    <2> QED BY <1>32, <2>1, Zenon DEF OldList, TypeOK
  <1> QED
    BY <1>1, <1>2, <1>3, <1>4, <1>5, <1>6, <1>7, <1>8, <1>9, <1>10, <1>11, <1>12, <1>13, <1>14, <1>15, <1>16, <1>17, <1>18, <1>19, <1>20, <1>21, <1>22, <1>23, <1>24, <1>25, <1>26, <1>27, <1>28, <1>29, <1>30, <1>31, <1>32, SMTT(30)
       DEF Next, HandlerStep, ReconcileStep, NodeEnvironment

\* Type correctness: whatever the environment does, every counter of the
\* policy is a natural number (no decrement of Reconcile takes it below
\* zero), and every reconcile is at one of its steps.
THEOREM TypeCorrectness == Spec => []TypeOK
  BY TypeInit, TypeNext, PTL DEF Spec

-----------------------------------------------------------------------------
(* What the predicates say of the lists *)

\* What the predicates answer for every list a setter writes.
LEMMA ConditionFacts ==
    /\ \A c \in {NoConditions, UnknownConditions, SetAborted, SetPending} :
          ~IsProgressing(c) /\ ~IsAvailable(c) /\ ~IsTerminallyFailed(c)
    /\ IsTerminallyFailed(SetFailed) /\ ~IsAvailable(SetFailed)
    /\ IsAvailable(SetSuccess) /\ ~IsTerminallyFailed(SetSuccess)
    /\ IsRetrying(SetRetry) /\ ~IsFinalizing(SetRetry) /\ ~IsAvailable(SetRetry)
    /\ IsProgressing(SetProgressing) /\ ~IsFinalizing(SetProgressing)
    /\ ~IsAvailable(SetProgressing) /\ ~IsRetrying(SetProgressing)
    /\ IsFinalizing(SetFinalizing) /\ ~IsAvailable(SetFinalizing)
    /\ ~IsRetrying(SetFinalizing)
    /\ ~IsProgressing(SetFailed) /\ ~IsProgressing(SetSuccess)
  <1> USE DEF IsProgressing, IsFinalizing, IsAvailable, IsRetrying, IsTerminallyFailed
  <1>1. ASSUME NEW c \in {NoConditions, UnknownConditions, SetAborted, SetPending}
        PROVE  ~IsProgressing(c) /\ ~IsAvailable(c) /\ ~IsTerminallyFailed(c)
    <2>1. CASE c = NoConditions
      BY <2>1, Zenon DEF NoConditions
    <2>2. CASE c = UnknownConditions
      BY <2>2, Zenon DEF UnknownConditions
    <2>3. CASE c = SetAborted
      BY <2>3, Zenon DEF SetAborted, AllFalse
    <2>4. CASE c = SetPending
      BY <2>4, Zenon DEF SetPending, AllFalse
    <2> QED BY <1>1, <2>1, <2>2, <2>3, <2>4, Zenon
  <1>2. /\ IsTerminallyFailed(SetFailed) /\ ~IsAvailable(SetFailed)
        /\ IsAvailable(SetSuccess) /\ ~IsTerminallyFailed(SetSuccess)
        /\ ~IsProgressing(SetFailed) /\ ~IsProgressing(SetSuccess)
    BY Zenon DEF SetFailed, SetSuccess, AllFalse
  <1>3. IsRetrying(SetRetry) /\ ~IsFinalizing(SetRetry) /\ ~IsAvailable(SetRetry)
    BY Zenon DEF SetRetry, AllFalse
  <1>4. /\ IsProgressing(SetProgressing) /\ ~IsFinalizing(SetProgressing)
        /\ ~IsAvailable(SetProgressing) /\ ~IsRetrying(SetProgressing)
        /\ IsFinalizing(SetFinalizing) /\ ~IsAvailable(SetFinalizing)
        /\ ~IsRetrying(SetFinalizing)
    BY Zenon DEF SetProgressing, SetFinalizing
  <1> QED BY <1>1, <1>2, <1>3, <1>4, Zenon

\* Finalizing and retrying are kinds of progressing, a failure for good is not.
LEMMA PredicateFacts ==
    ASSUME NEW c
    PROVE  /\ IsFinalizing(c) => IsProgressing(c)
           /\ IsRetrying(c) => IsProgressing(c)
           /\ IsTerminallyFailed(c) => ~IsProgressing(c)
  BY Zenon DEF IsProgressing, IsFinalizing, IsRetrying, IsTerminallyFailed

\* Writing the conditions renews the heartbeat and leaves the rest.
LEMMA WithConditionsFields ==
    ASSUME NEW e \in Enactments, NEW c
    PROVE  /\ WithConditions(e, c).conds = c
           /\ WithConditions(e, c).fresh
           /\ WithConditions(e, c).gen = e.gen
           /\ WithConditions(e, c).exists = e.exists
           /\ WithConditions(e, c).retries = e.retries
           /\ Exhausted(WithConditions(e, c)) <=> Exhausted(e)
  BY Zenon DEF WithConditions, Enactments, Exhausted

\* An enactment that was not retried may be applied.
LEMMA NoRetriesLeaveSome ==
    ASSUME NEW e, e.gen # 0 => e.retries[e.gen] = 0
    PROVE  ~Exhausted(e)
  BY BoundsAssumption DEF Exhausted

\* What the steps of the reconcile do to pc.
LEMMA GotoFields ==
    ASSUME TypeOK, NEW n \in Nodes, NEW l, Goto(n, l)
    PROVE  pc'[n] = l /\ \A m \in Nodes \ {n} : pc'[m] = pc[m]
  BY Zenon DEF TypeOK, Goto

\* A return leads to the deferred update.
LEMMA ReturnFields ==
    ASSUME TypeOK, NEW n \in Nodes, NEW requeue, Return(n, requeue)
    PROVE  pc'[n] = "update" /\ \A m \in Nodes \ {n} : pc'[m] = pc[m]
  BY Zenon DEF TypeOK, Return

\* A start of the controllers leads to an idle reconcile.
LEMMA StartFields ==
    ASSUME TypeOK, NEW n \in Nodes, StartControllers(n)
    PROVE  pc'[n] = "idle" /\ \A m \in Nodes \ {n} : pc'[m] = pc[m]
  BY Zenon DEF TypeOK, StartControllers

-----------------------------------------------------------------------------
(* Steps of one node *)

\* A step of node n: of the other nodes nothing changes.
Frame(n) ==
    /\ \A m \in Nodes \ {n} : /\ pc'[m] = pc[m]
                             /\ enactment'[m] = enactment[m]
                             /\ instance'[m] = instance[m]
    /\ policy.recent => policy'.recent
    /\ ready' = ready

\* A step of n keeps what is known of the other nodes.
LEMMA OthersKeepOK ==
    ASSUME SlotInvariant, NEW n \in Nodes, Frame(n), EnactmentOK(n)', ReconcileOK(n)'
    PROVE  \A m \in Nodes : ready'[m] /\ EnactmentOK(m)' /\ ReconcileOK(m)'
  <1> SUFFICES ASSUME NEW m \in Nodes, m # n
               PROVE  ready'[m] /\ EnactmentOK(m)' /\ ReconcileOK(m)'
    BY Zenon DEF SlotInvariant, Frame
  <1>1. ready[m] /\ EnactmentOK(m) /\ ReconcileOK(m)
    BY Zenon DEF SlotInvariant
  <1>2. EnactmentOK(m)'
    BY <1>1, Zenon DEF Frame, EnactmentOK
  <1>3. ReconcileOK(m)'
    BY <1>1, Zenon DEF Frame, ReconcileOK
  <1> QED BY <1>1, <1>2, <1>3, Zenon DEF Frame

\* A step of n takes no slot from another node.
LEMMA OthersKeepHolding ==
    ASSUME NEW n \in Nodes, Frame(n), NEW m \in Nodes \ {n}
    PROVE  Gen(m)' = Gen(m) /\ Holds(m)' = Holds(m)
  BY Zenon DEF Frame, Gen, Holds, FailedForGood, isLiveHolder, Exhausted

\* Enactments are not deleted, so the limit does not shrink.
LEMMA LimitGrows ==
    ASSUME NEW n \in Nodes, Frame(n), enactment[n].exists => enactment'[n].exists
    PROVE  /\ Limit(numberOfEnactments) \in Nat
           /\ Limit(numberOfEnactments)' \in Nat
           /\ Limit(numberOfEnactments) <= Limit(numberOfEnactments)'
  <1> DEFINE S == {m \in Nodes : enactment[m].exists}
  <1>1. S \subseteq S' /\ S' \subseteq Nodes /\ S \subseteq Nodes
    BY Zenon DEF Frame
  <1>2. /\ Cardinality(S) \in 0..Cardinality(Nodes)
        /\ Cardinality(S') \in 0..Cardinality(Nodes)
        /\ Cardinality(S) <= Cardinality(S')
    BY <1>1, NodesAssumption, FS_Subset, FS_CardinalityType
  <1> QED BY <1>2, LimitAssumption, Zenon DEF numberOfEnactments

-----------------------------------------------------------------------------
(* Steps of the budget *)

\* Seen through the holders, a step of the budget of UnavailabilityBudget.
BudgetStep == [Budget!BudgetNext]_(Budget!budgetVars)

\* What every step must do: keep the invariant and implement the budget.
SafeStep == SlotInvariant' /\ BudgetStep

\* The budget counts as the handlers do.
LEMMA BudgetCounts ==
    ASSUME NEW S
    PROVE  Budget!Cardinality(S) = Cardinality(S)
  BY Zenon DEF Budget!Cardinality, Cardinality

\* A node that relies on a slot has an enactment of some generation.
LEMMA HoldersTakePart ==
    ASSUME SlotInvariant, NEW n \in Nodes, Holds(n)
    PROVE  Gen(n) \in Generations /\ enactment[n].exists
  <1>1. TypeOK /\ EnactmentOK(n) /\ ReconcileOK(n)
    BY Zenon DEF SlotInvariant
  <1>2. Gen(n) # 0 /\ enactment[n].exists
    BY <1>1, Zenon DEF Holds, isLiveHolder, FailedForGood, EnactmentOK, ReconcileOK, Gen
  <1>3. Gen(n) \in 0..MaxGeneration
    BY <1>1, Zenon DEF TypeOK, Enactments, Gen
  <1> QED BY <1>2, <1>3, BoundsAssumption DEF Generations

\* A step of n after which the same nodes hold the same slots: n joins the
\* rollout, or nothing happens.
LEMMA SameHoldersStep ==
    ASSUME NEW n \in Nodes, Frame(n), enactment[n].exists => enactment'[n].exists,
           \A g \in Generations : Holders(g)' = Holders(g)
    PROVE  BudgetStep
  <1> DEFINE S == {m \in Nodes : enactment[m].exists}
             U == [g \in Generations |-> Holders(g)]
  <1>1. U' = U
    BY Zenon
  <1>2. CASE S' = S
    <2>1. numberOfEnactments' = numberOfEnactments
      BY <1>2, Zenon DEF numberOfEnactments
    <2> QED BY <1>1, <2>1, Zenon DEF BudgetStep, Budget!budgetVars
  <1>3. CASE S' # S
    <2>1. n \notin S /\ S' = S \cup {n} /\ S' \subseteq Nodes /\ S \subseteq Nodes
      BY <1>3, Zenon DEF Frame
    <2>2. IsFiniteSet(S) /\ IsFiniteSet(S')
      BY <2>1, NodesAssumption, FS_Subset, Zenon
    <2>3. Cardinality(S') = Cardinality(S) + 1
      BY <2>1, <2>2, FS_AddElement, Zenon
    <2>4. /\ Cardinality(S) \in Nat
          /\ Cardinality(Nodes) \in Nat
          /\ Cardinality(S') <= Cardinality(Nodes)
      BY <2>1, <2>2, NodesAssumption, FS_Subset, FS_CardinalityType, Zenon
    <2>5. /\ numberOfEnactments < Cardinality(Nodes)
          /\ numberOfEnactments' = numberOfEnactments + 1
      <3> HIDE DEF S
      <3>1. Cardinality(S) < Cardinality(Nodes)
        BY <2>3, <2>4
      <3> USE DEF S
      <3> QED BY <2>3, <3>1, Zenon DEF numberOfEnactments
    <2>6. Budget!Join
      BY <1>1, <2>5, BudgetCounts, Zenon DEF Budget!Join
    <2> QED BY <2>6, Zenon DEF BudgetStep, Budget!BudgetNext
  <1> QED BY <1>2, <1>3, Zenon

\* A step of n that takes no slot gives one back, or is one of those.
LEMMA NoSlotIsTaken ==
    ASSUME SlotInvariant, NEW n \in Nodes, Frame(n),
           Holds(n)' => Holds(n) /\ Gen(n)' = Gen(n),
           enactment[n].exists => enactment'[n].exists
    PROVE  BudgetStep
  <1>1. CASE Holds(n)' \/ ~Holds(n)
    <2>1. \A g \in Generations : Holders(g)' = Holders(g)
      BY <1>1, OthersKeepHolding, Zenon DEF Holders
    <2> QED BY <2>1, SameHoldersStep, Zenon
  <1>2. CASE Holds(n) /\ ~Holds(n)'
    <2> SUFFICES ASSUME NEW g \in Generations, g = Gen(n), enactment[n].exists
                 PROVE  BudgetStep
      BY <1>2, HoldersTakePart, Zenon
    <2> DEFINE U == [h \in Generations |-> Holders(h)]
    <2>1. /\ n \in Holders(g)
          /\ Holders(g)' = Holders(g) \ {n}
          /\ \A h \in Generations \ {g} : Holders(h)' = Holders(h)
      BY <1>2, OthersKeepHolding, Zenon DEF Holders
    <2>2. n \in U[g] /\ U' = [U EXCEPT ![g] = @ \ {n}]
      BY <2>1, Zenon
    <2>3. numberOfEnactments' = numberOfEnactments
      <3>1. \A m \in Nodes : enactment'[m].exists <=> enactment[m].exists
        BY Zenon DEF Frame
      <3>2. {m \in Nodes : enactment'[m].exists} = {m \in Nodes : enactment[m].exists}
        BY <3>1, Zenon
      <3> QED BY <3>2, Zenon DEF numberOfEnactments
    <2>4. Budget!Free(n, g)
      BY <2>2, <2>3, Zenon DEF Budget!Free
    <2> QED BY <2>4, Zenon DEF BudgetStep, Budget!BudgetNext
  <1> QED BY <1>1, <1>2, Zenon

-----------------------------------------------------------------------------
(* Steps that keep enough slots *)

\* A step leaves the counters alone, or lowers them to no less than the slots
\* that are held, and an Available that can be written next lowers them no more.
EnoughSlots ==
    /\ \A g \in Generations : /\ policy'.count[g] <= policy.count[g]
                              /\ Cardinality(Holders(g)) <= policy'.count[g]
    /\ \A m \in Nodes : policyStatus'[m].cond = "Available" => \A k \in Nodes : ~Holds(k)

\* What a step leaves of what was computed.
NoNewStatus == \A m \in Nodes : policyStatus'[m].cond \in {policyStatus[m].cond, "None"}

\* A write leaves nothing, other steps than updates leave everything.
LEMMA StatusesStay ==
    ASSUME TypeOK
    PROVE  /\ \A p : Write(p) => NoNewStatus /\ \A m \in Nodes : policyStatus'[m].cond = "None"
           /\ NoWrite => NoNewStatus
           /\ policyStatus' = policyStatus => NoNewStatus
  <1>1. \A m \in Nodes : Outdated(policyStatus[m]).cond = "None"
    BY Zenon DEF TypeOK, PolicyStatuses, Outdated
  <1> QED BY <1>1, Zenon DEF Write, NoWrite, NoNewStatus

\* A step that leaves the counters alone keeps enough slots.
LEMMA SameCountIsEnough ==
    ASSUME SlotInvariant, policy'.count = policy.count, NoNewStatus
    PROVE  EnoughSlots
  <1>1. \A g \in Generations : /\ policy'.count[g] <= policy.count[g]
                               /\ Cardinality(Holders(g)) <= policy'.count[g]
    BY DEF SlotInvariant, HeldSlotsAreCounted, TypeOK, Policies
  <1>2. \A m \in Nodes : policyStatus'[m].cond = "Available" => \A k \in Nodes : ~Holds(k)
    BY Zenon DEF SlotInvariant, StatusesOK, NoNewStatus
  <1> QED BY <1>1, <1>2, Zenon DEF EnoughSlots

\* A step that writes nothing keeps enough slots.
LEMMA NoWriteIsEnough ==
    ASSUME SlotInvariant, NoWrite
    PROVE  EnoughSlots /\ policy' = policy
  <1>1. NoNewStatus /\ policy' = policy
    BY StatusesStay, Zenon DEF SlotInvariant, NoWrite
  <1> QED BY <1>1, SameCountIsEnough, Zenon

\* A step of n that keeps enough slots and makes n rely on no slot it did not
\* rely on before.
LEMMA LocalStep ==
    ASSUME SlotInvariant, TypeOK', NEW n \in Nodes, Frame(n),
           EnactmentOK(n)', ReconcileOK(n)',
           Holds(n)' => Holds(n) /\ Gen(n)' = Gen(n),
           enactment[n].exists => enactment'[n].exists,
           EnoughSlots
    PROVE  SafeStep
  <1>1. \A m \in Nodes : ready'[m] /\ EnactmentOK(m)' /\ ReconcileOK(m)'
    BY OthersKeepOK, Zenon
  <1>2. CountersStayInBounds'
    <2> SUFFICES ASSUME NEW g \in Generations
                 PROVE  policy'.count[g] <= Limit(numberOfEnactments)'
      BY Zenon DEF CountersStayInBounds
    <2>1. /\ policy.count[g] \in Nat
          /\ policy'.count[g] \in Nat
          /\ policy.count[g] <= Limit(numberOfEnactments)
      BY Zenon DEF SlotInvariant, CountersStayInBounds, TypeOK, Policies
    <2>2. policy'.count[g] <= policy.count[g]
      BY Zenon DEF EnoughSlots
    <2> QED BY <2>1, <2>2, LimitGrows
  <1>3. HeldSlotsAreCounted'
    <2> SUFFICES ASSUME NEW g \in Generations
                 PROVE  Cardinality(Holders(g)') <= policy'.count[g]
      BY Zenon DEF HeldSlotsAreCounted
    <2>1. Holders(g)' \subseteq Holders(g)
      BY OthersKeepHolding, Zenon DEF Holders
    <2>2. Cardinality(Holders(g)) \in Nat /\ Cardinality(Holders(g)') \in Nat
      BY <2>1, NodesAssumption, FS_Subset, FS_CardinalityType, Zenon DEF Holders
    <2>3. Cardinality(Holders(g)') <= Cardinality(Holders(g))
      BY <2>1, NodesAssumption, FS_Subset, Zenon DEF Holders
    <2>4. policy'.count[g] \in Nat /\ Cardinality(Holders(g)) <= policy'.count[g]
      BY Zenon DEF EnoughSlots, TypeOK, Policies
    <2> QED BY <2>2, <2>3, <2>4
  <1>4. BudgetStep
    BY NoSlotIsTaken, Zenon
  <1>5. StatusesOK'
    <2>1. \A k \in Nodes : Holds(k)' => Holds(k)
      BY OthersKeepHolding, Zenon
    <2> QED BY <2>1, Zenon DEF StatusesOK, EnoughSlots
  <1> QED BY <1>1, <1>2, <1>3, <1>4, <1>5, Zenon DEF SafeStep, SlotInvariant

-----------------------------------------------------------------------------
(* Steps that change the policy *)

\* AuditUnavailableSlots gives no held slot away: outside of the grace window
\* every holder has its marker.
LEMMA AuditIsSafe ==
    ASSUME SlotInvariant, AuditFindsGhosts, AuditRepair
    PROVE  EnoughSlots /\ (policy.recent => policy'.recent)
  <1> DEFINE k == Cardinality(SlotHolders(policy.gen))
  <1>1. k \in Nat /\ k < policy.count[policy.gen]
    BY CardinalitiesAreNat, Zenon DEF AuditFindsGhosts, SlotInvariant, TypeOK, Policies
  <1>2. /\ policy'.count[policy.gen] = k
        /\ \A g \in Generations \ {policy.gen} : policy'.count[g] = policy.count[g]
    BY Zenon DEF AuditRepair, Write, WithCount, SlotInvariant, TypeOK, Policies
  <1>3. Holders(policy.gen) \subseteq SlotHolders(policy.gen)
    <2> SUFFICES ASSUME NEW m \in Nodes, Gen(m) = policy.gen, Holds(m)
                 PROVE  m \in SlotHolders(policy.gen)
      BY Zenon DEF Holders
    <2>1. EnactmentOK(m) /\ ReconcileOK(m)
      BY Zenon DEF SlotInvariant
    <2>2. pc[m] \notin {"markClaimed", "compensate"}
      BY <2>1, Zenon DEF ReconcileOK, AuditFindsGhosts
    <2>3. isLiveHolder(enactment[m]) \/ IsTerminallyFailed(enactment[m].conds)
      BY <2>2, Zenon DEF Holds, FailedForGood
    <2>4. enactment[m].exists
      BY <2>1, <2>3, Zenon DEF EnactmentOK, isLiveHolder
    <2> QED BY <2>3, <2>4, Zenon DEF SlotHolders, Gen
  <1>4. Cardinality(Holders(policy.gen)) <= k
    BY <1>3, NodesAssumption, FS_Subset, Zenon DEF SlotHolders
  <1>5. ASSUME NEW g \in Generations
        PROVE  policy'.count[g] <= policy.count[g] /\ Cardinality(Holders(g)) <= policy'.count[g]
    <2>1. policy.count[g] \in Nat /\ Cardinality(Holders(g)) <= policy.count[g]
      BY Zenon DEF SlotInvariant, HeldSlotsAreCounted, TypeOK, Policies
    <2>2. CASE g = policy.gen
      BY <1>1, <1>2, <1>4, <2>1, <2>2
    <2>3. CASE g # policy.gen
      BY <1>2, <2>1, <2>3
    <2> QED BY <2>2, <2>3, Zenon
  <1>6. policy'.recent
    BY Zenon DEF AuditRepair, Write, WithCount, SlotInvariant, TypeOK, Policies
  <1>7. \A m \in Nodes : policyStatus'[m].cond = "None"
    BY StatusesStay, Zenon DEF AuditRepair, SlotInvariant
  <1> QED BY <1>5, <1>6, <1>7, Zenon DEF EnoughSlots

\* When the policy can be said to be Available, nobody relies on a slot.
LEMMA AvailableHoldsNothing ==
    ASSUME SlotInvariant, policyCond(enactment, policy.gen, Nodes, ReadyNodes) = "Available"
    PROVE  \A m \in Nodes : ~Holds(m)
  <1> DEFINE A == Available(enactment, policy.gen)
  <1>1. ReadyNodes = Nodes /\ DOMAIN enactment = Nodes
    BY Zenon DEF ReadyNodes, SlotInvariant, TypeOK
  <1>2. /\ Failed(enactment, policy.gen) = {}
        /\ Aborted(enactment, policy.gen) = {}
        /\ ~(numberOfFinishedEnactments(enactment, policy.gen) < Cardinality(Nodes))
    BY <1>1, Zenon DEF policyCond
  <1>3. A \subseteq Nodes
    BY <1>1, Zenon DEF Available
  <1>4. /\ Cardinality(Nodes) \in Nat
        /\ Cardinality(A) \in Nat
        /\ Cardinality(A) <= Cardinality(Nodes)
        /\ Cardinality(Nodes) = Cardinality(A) => Nodes = A
    BY <1>3, NodesAssumption, FS_Subset, FS_CardinalityType, Zenon
  <1>5. numberOfFinishedEnactments(enactment, policy.gen) = Cardinality(A)
    BY <1>2, <1>4, FS_EmptySet DEF numberOfFinishedEnactments
  <1>6. A = Nodes
    BY <1>2, <1>4, <1>5
  <1> SUFFICES ASSUME NEW m \in Nodes PROVE ~Holds(m)
    OBVIOUS
  <1>7. IsAvailable(enactment[m].conds)
    BY <1>6, Zenon DEF Available, IsAvailable
  <1>8. EnactmentOK(m) /\ ReconcileOK(m)
    BY Zenon DEF SlotInvariant
  <1> QED BY <1>7, <1>8, Zenon DEF EnactmentOK, ReconcileOK, Holds, FailedForGood, isLiveHolder

\* A write of the status changes the condition, and the counters to zero when it is
\* Available.
LEMMA setPolicyStatusFields ==
    ASSUME NEW p \in Policies, NEW cond
    PROVE  /\ setPolicyStatus(p, cond).cond = cond
           /\ setPolicyStatus(p, cond).gen = p.gen
           /\ setPolicyStatus(p, cond).recent = p.recent
           /\ cond # "Available" => setPolicyStatus(p, cond).count = p.count
           /\ cond = "Available" => setPolicyStatus(p, cond).count = [g \in Generations |-> 0]
  BY Zenon DEF setPolicyStatus, Policies

\* What a step of the update does, when l is where it leads: compute, write or
\* give up.
ListStep(n) ==
    /\ policyStatus[n].cond = "None" /\ policy' = policy /\ pc'[n] = pc[n]
    /\ policyStatus'[n].attempt = policyStatus[n].attempt + 1
    /\ policyStatus'[n].cond = policyCond(enactment, policy.gen, Nodes, ReadyNodes)
    /\ \A m \in Nodes \ {n} : policyStatus'[m] = policyStatus[m]

\* The write, with or without its reply.
WriteStep(n, l) ==
    /\ policyStatus[n].cond # "None" /\ policy' = setPolicyStatus(policy, policyStatus[n].cond)
    /\ \/ pc'[n] = l /\ policyStatus'[n] = NoStatus
       \/ Fault("lostReply") /\ pc'[n] = pc[n]
    /\ \A m \in Nodes : policyStatus'[m].cond = "None"
    /\ \A m \in Nodes \ {n} : policyStatus'[m].attempt = policyStatus[m].attempt

\* The attempts are used up, or a call fails.
GiveUpStep(n, l) ==
    /\ \/ Fault("apiError")
       \/ policyStatus[n].cond = "None" /\ ~MayCompute(policyStatus[n])
    /\ policy' = policy /\ pc'[n] = l /\ policyStatus'[n] = NoStatus
    /\ \A m \in Nodes \ {n} : policyStatus'[m] = policyStatus[m]

\* A step of the update is one of these.
LEMMA UpdateSteps ==
    ASSUME TypeOK, NEW n \in Nodes, NEW l, UpdatePolicyConditions(n, Goto(n, l))
    PROVE  /\ ListStep(n) \/ WriteStep(n, l) \/ GiveUpStep(n, l)
           /\ \A m \in Nodes \ {n} : pc'[m] = pc[m]
           /\ queued' = queued
  <1> DEFINE s == policyStatus[n]
             u == policyStatus'
  <1>1. \A m \in Nodes : Outdated(policyStatus[m]).cond = "None"
                        /\ Outdated(policyStatus[m]).attempt = policyStatus[m].attempt
    BY Zenon DEF TypeOK, PolicyStatuses, Outdated
  <1>2. NoStatus.cond = "None" /\ NoStatus.attempt = 0
    BY DEF NoStatus
  <1>3. queued' = queued
    BY Zenon DEF UpdatePolicyConditions, ComputeStatus, Goto
  <1>4. CASE ComputeStatus(n)
    <2>1. u[n] = [attempt |-> s.attempt + 1,
                  cond |-> policyCond(enactment, policy.gen, Nodes, ReadyNodes)]
      BY <1>4, Zenon DEF ComputeStatus, TypeOK
    <2>2. /\ u[n].attempt = s.attempt + 1
          /\ u[n].cond = policyCond(enactment, policy.gen, Nodes, ReadyNodes)
      BY <2>1, SMT
    <2>3. /\ s.cond = "None" /\ policy' = policy /\ pc' = pc
          /\ \A m \in Nodes \ {n} : u[m] = policyStatus[m]
      BY <1>4, Zenon DEF ComputeStatus, MayCompute, TypeOK
    <2> QED BY <1>3, <2>2, <2>3, Zenon DEF ListStep
  <1>5. CASE /\ s.cond # "None" /\ policy' = setPolicyStatus(policy, s.cond)
             /\ u = [m \in Nodes |-> IF m = n THEN NoStatus ELSE Outdated(policyStatus[m])]
             /\ Goto(n, l)
    BY <1>1, <1>2, <1>3, <1>5, GotoFields, Zenon DEF WriteStep
  <1>6. CASE /\ s.cond # "None" /\ Write(setPolicyStatus(policy, s.cond))
             /\ Fault("lostReply") /\ pc' = pc
    BY <1>1, <1>3, <1>6, Zenon DEF WriteStep, Write
  <1>7. CASE /\ Fault("apiError") \/ (s.cond = "None" /\ ~MayCompute(s))
             /\ u = [policyStatus EXCEPT ![n] = NoStatus] /\ policy' = policy /\ Goto(n, l)
    BY <1>3, <1>7, GotoFields, Zenon DEF GiveUpStep, TypeOK
  <1> QED BY <1>4, <1>5, <1>6, <1>7, Zenon DEF UpdatePolicyConditions

\* Where it leads.
LEMMA UpdateLabels ==
    ASSUME TypeOK, NEW n \in Nodes, NEW l, UpdatePolicyConditions(n, Goto(n, l))
    PROVE  pc'[n] \in {pc[n], l} /\ \A m \in Nodes \ {n} : pc'[m] = pc[m]
  BY UpdateSteps, Zenon DEF ListStep, WriteStep, GiveUpStep

\* policyconditions.Update forgets the counters only when no slot is held.
LEMMA UpdateIsSafe ==
    ASSUME SlotInvariant, NEW n \in Nodes, NEW l, UpdatePolicyConditions(n, Goto(n, l))
    PROVE  EnoughSlots /\ (policy.recent => policy'.recent)
  <1>0. TypeOK /\ policy \in Policies
    BY Zenon DEF SlotInvariant, TypeOK
  <1>1. CASE ListStep(n)
    <2>1. \A g \in Generations : /\ policy'.count[g] <= policy.count[g]
                                 /\ Cardinality(Holders(g)) <= policy'.count[g]
      BY <1>0, <1>1 DEF ListStep, SlotInvariant, HeldSlotsAreCounted, Policies
    <2>2. \A m \in Nodes : policyStatus'[m].cond = "Available" => \A k \in Nodes : ~Holds(k)
      BY <1>1, AvailableHoldsNothing, Zenon DEF ListStep, SlotInvariant, StatusesOK
    <2> QED BY <1>1, <2>1, <2>2, Zenon DEF EnoughSlots, ListStep
  <1>2. CASE GiveUpStep(n, l)
    <2>1. NoStatus.cond = "None"
      BY DEF NoStatus
    <2>2. NoNewStatus /\ policy' = policy
      BY <1>2, <2>1, Zenon DEF GiveUpStep, NoNewStatus
    <2> QED BY <2>2, SameCountIsEnough, Zenon
  <1>3. CASE WriteStep(n, l)
    <2> DEFINE cond == policyStatus[n].cond
    <2>1. /\ policy'.recent = policy.recent
          /\ cond # "Available" => policy'.count = policy.count
          /\ cond = "Available" => policy'.count = [g \in Generations |-> 0]
      BY <1>0, <1>3, setPolicyStatusFields, Zenon DEF WriteStep
    <2>2. NoNewStatus /\ \A m \in Nodes : policyStatus'[m].cond # "Available"
      BY <1>3, Zenon DEF WriteStep, NoNewStatus
    <2>3. CASE cond # "Available"
      BY <2>1, <2>2, <2>3, SameCountIsEnough, Zenon
    <2>4. CASE cond = "Available"
      <3>1. \A g \in Generations : Holders(g) = {}
        BY <2>4, Zenon DEF Holders, SlotInvariant, StatusesOK
      <3>2. \A g \in Generations : policy.count[g] \in Nat
        BY <1>0, Zenon DEF Policies
      <3>3. \A g \in Generations : policy'.count[g] = 0 /\ Cardinality(Holders(g)) = 0
        BY <2>1, <2>4, <3>1, FS_EmptySet, Zenon
      <3>4. \A g \in Generations : /\ policy'.count[g] <= policy.count[g]
                                   /\ Cardinality(Holders(g)) <= policy'.count[g]
        BY <3>2, <3>3
      <3> QED BY <2>1, <2>2, <3>4, Zenon DEF EnoughSlots
    <2> QED BY <2>3, <2>4, Zenon
  <1> QED BY <1>0, <1>1, <1>2, <1>3, UpdateSteps, Zenon

-----------------------------------------------------------------------------
(* Steps that change the enactment of the node *)

\* The conditions of n become c.
Marked(n, c) == enactment' = [enactment EXCEPT ![n] = WithConditions(@, c)]

\* What marking does to each field.
LEMMA MarkedFields ==
    ASSUME TypeOK, NEW n \in Nodes, NEW c, Marked(n, c)
    PROVE  /\ enactment'[n].conds = c
           /\ enactment'[n].fresh
           /\ enactment'[n].gen = enactment[n].gen
           /\ enactment'[n].exists = enactment[n].exists
           /\ enactment'[n].retries = enactment[n].retries
           /\ Exhausted(enactment'[n]) <=> Exhausted(enactment[n])
           /\ \A m \in Nodes \ {n} : enactment'[m] = enactment[m]
  <1>1. enactment[n] \in Enactments
    BY Zenon DEF TypeOK
  <1>2. enactment'[n] = WithConditions(enactment[n], c)
    BY Zenon DEF TypeOK, Marked
  <1>3. \A m \in Nodes \ {n} : enactment'[m] = enactment[m]
    BY Zenon DEF TypeOK, Marked
  <1> QED BY <1>1, <1>2, <1>3, WithConditionsFields

\* Marking keeps the enactment consistent.
LEMMA MarkedOK ==
    ASSUME TypeOK, NEW n \in Nodes, NEW c, Marked(n, c),
           EnactmentOK(n), enactment[n].gen # 0,
           IsAvailable(c) => ~IsProgressing(c) /\ ~IsTerminallyFailed(c),
           IsRetrying(c) => "applyError" \in Faults,
           Exhausted(enactment[n]) =>
               (IsProgressing(c) /\ ~IsFinalizing(c)) \/ IsTerminallyFailed(c)
    PROVE  EnactmentOK(n)'
  <1>1. enactment[n].exists
    BY Zenon DEF EnactmentOK
  <1> QED BY <1>1, MarkedFields, Zenon DEF EnactmentOK

\* Of an enactment that stays as it is only the time of its heartbeat and
\* the place of the reconcile matter.
LEMMA SameEnactmentOK ==
    ASSUME NEW n \in Nodes, EnactmentOK(n), enactment'[n] = enactment[n],
           pc[n] # "down" \/ "longOutage" \notin Faults \/ ~IsProgressing(enactment[n].conds)
               \/ pc'[n] = "down"
    PROVE  EnactmentOK(n)'
  BY Zenon DEF EnactmentOK

\* A step that at most writes the conditions of n and moves its reconcile on.
LEMMA NotifyStep ==
    ASSUME SlotInvariant, TypeOK', NEW n \in Nodes, NEW c,
           Marked(n, c) \/ enactment' = enactment,
           \A m \in Nodes \ {n} : pc'[m] = pc[m],
           UNCHANGED <<policy, policyStatus, instance, ready>>,
           EnactmentOK(n)', ReconcileOK(n)', Holds(n)' => Holds(n)
    PROVE  SafeStep
  <1>1. TypeOK
    BY Zenon DEF SlotInvariant
  <1>2. /\ \A m \in Nodes \ {n} : enactment'[m] = enactment[m]
        /\ enactment'[n].gen = enactment[n].gen
        /\ enactment'[n].exists = enactment[n].exists
    BY <1>1, MarkedFields, Zenon
  <1>3. Frame(n)
    BY <1>2, Zenon DEF Frame
  <1>4. Gen(n)' = Gen(n)
    BY <1>2, Zenon DEF Gen
  <1>5. EnoughSlots
    BY <1>1, StatusesStay, SameCountIsEnough, Zenon
  <1> QED BY <1>2, <1>3, <1>4, <1>5, LocalStep, Zenon

\* A reconcile that moves on with its enactment as it is relies on no more
\* slots, unless it goes where a slot is relied on.
LEMMA SameEnactmentHolds ==
    ASSUME NEW n \in Nodes, enactment'[n] = enactment[n],
           pc'[n] \notin {"markClaimed", "compensate", "release"}
    PROVE  Holds(n)' => Holds(n)
  BY Zenon DEF Holds, FailedForGood, isLiveHolder, Exhausted

\* The steps of the reconcile that write the conditions of the enactment.
LEMMA NotifyStepsAreSafe ==
    ASSUME SafeFaults, SlotInvariant, TypeOK', NEW n \in Nodes,
           \/ NotifyPending(n) \/ AbortCheck(n) \/ NotifyProgressing(n)
           \/ NotifyFailedToConfigure(n) \/ NotifyRetrying(n) \/ NotifyFinalizing(n)
           \/ NotifySuccess(n) \/ FinalizeInterruptedApply(n)
    PROVE  SafeStep
  <1>1. TypeOK /\ EnactmentOK(n) /\ ReconcileOK(n)
    BY Zenon DEF SlotInvariant
  <1>l. "lostReply" \notin Faults
    BY Zenon DEF SafeFaults
  <1>2. pc[n] # "down" => (IsProgressing(enactment[n].conds) => enactment[n].fresh)
    BY <1>1, Zenon DEF EnactmentOK
  <1>3. CASE NotifyPending(n)
    <2>1. /\ pc[n] = "pending"
          /\ Marked(n, SetPending) \/ enactment' = enactment
          /\ Goto(n, "abortCheck")
          /\ UNCHANGED <<policy, policyStatus, instance, ready>>
      BY <1>3, <1>l, Zenon DEF NotifyPending, Notify, Fault, Marked
    <2>2. pc'[n] = "abortCheck" /\ \A m \in Nodes \ {n} : pc'[m] = pc[m]
      BY <1>1, <2>1, GotoFields, Zenon
    <2>3. CASE Marked(n, SetPending)
      <3>1. EnactmentOK(n)'
        BY <1>1, <2>1, <2>3, MarkedOK, ConditionFacts, PredicateFacts DEF ReconcileOK
      <3>2. ReconcileOK(n)'
        <4>1. enactment[n].gen # 0 /\ ~Exhausted(enactment[n])
          BY <1>1, <2>1, Zenon DEF ReconcileOK
        <4>2. /\ enactment'[n].gen # 0 /\ ~Exhausted(enactment'[n])
              /\ enactment'[n].conds = SetPending
          BY <1>1, <2>3, <4>1, MarkedFields, Zenon
        <4>3. ~IsProgressing(enactment'[n].conds) /\ ~IsAvailable(enactment'[n].conds)
          BY <4>2, ConditionFacts, Zenon
        <4> QED BY <2>2, <4>2, <4>3, Zenon DEF ReconcileOK
      <3>3. ~Holds(n)'
        BY <1>1, <2>2, <2>3, MarkedFields, ConditionFacts
           DEF Holds, FailedForGood, isLiveHolder
      <3> QED BY <2>1, <2>2, <3>1, <3>2, <3>3, NotifyStep, Zenon
    <2>4. CASE enactment' = enactment
      <3>1. EnactmentOK(n)'
        BY <1>1, <2>1, <2>4, SameEnactmentOK, Zenon
      <3>2. ReconcileOK(n)'
        BY <1>1, <2>1, <2>2, <2>4 DEF ReconcileOK
      <3> QED BY <2>1, <2>2, <2>4, <3>1, <3>2, SameEnactmentHolds, NotifyStep
    <2> QED BY <2>1, <2>3, <2>4, Zenon
  <1>4. CASE AbortCheck(n)
    <2>1. /\ pc[n] = "abortCheck"
          /\ Marked(n, SetAborted) \/ enactment' = enactment
          /\ \E requeue \in BOOLEAN : Return(n, requeue)
          /\ UNCHANGED <<policy, policyStatus, instance, ready>>
      BY <1>4, <1>l, Zenon DEF AbortCheck, Notify, Fault, Marked
    <2>2. pc'[n] = "update" /\ \A m \in Nodes \ {n} : pc'[m] = pc[m]
      BY <1>1, <2>1, ReturnFields, Zenon
    <2>3. ReconcileOK(n)'
      BY <2>2, Zenon DEF ReconcileOK
    <2>4. CASE Marked(n, SetAborted)
      <3>1. EnactmentOK(n)'
        BY <1>1, <2>1, <2>4, MarkedOK, ConditionFacts, PredicateFacts DEF ReconcileOK
      <3>2. ~Holds(n)'
        BY <1>1, <2>2, <2>4, MarkedFields, ConditionFacts, Zenon
           DEF Holds, FailedForGood, isLiveHolder
      <3> QED BY <2>1, <2>2, <2>3, <3>1, <3>2, NotifyStep, Zenon
    <2>5. CASE enactment' = enactment
      <3>1. EnactmentOK(n)'
        BY <1>1, <2>1, <2>5, SameEnactmentOK, Zenon
      <3> QED BY <2>1, <2>2, <2>3, <2>5, <3>1, SameEnactmentHolds, NotifyStep
    <2> QED BY <2>1, <2>4, <2>5, Zenon
  <1>5. CASE NotifyProgressing(n)
    <2>1. /\ pc[n] \in {"mark", "markClaimed"}
          /\ UNCHANGED <<policy, policyStatus, instance, ready>>
          /\ \/ /\ Marked(n, SetProgressing)
                /\ Goto(n, IF instance[n].unknown THEN "midUpdate" ELSE "apply")
             \/ /\ enactment' = enactment
                /\ pc[n] = "markClaimed"
                /\ Goto(n, "compensate")
             \/ /\ enactment' = enactment
                /\ pc[n] = "mark"
                /\ Return(n, TRUE)
      BY <1>5, <1>l, Zenon DEF NotifyProgressing, Notify, Fault, Marked
    <2>2. enactment[n].gen # 0 /\ ~Exhausted(enactment[n])
      BY <1>1, <2>1, Zenon DEF ReconcileOK, EnactmentOK
    <2>3. Holds(n)
      BY <1>1, <1>2, <2>1, Zenon DEF ReconcileOK, Holds, isLiveHolder
    <2>4. CASE Marked(n, SetProgressing) /\ Goto(n, IF instance[n].unknown THEN "midUpdate" ELSE "apply")
      <3>1. pc'[n] \in {"midUpdate", "apply"} /\ \A m \in Nodes \ {n} : pc'[m] = pc[m]
        BY <1>1, <2>4, GotoFields, Zenon
      <3>2. EnactmentOK(n)'
        BY <1>1, <2>2, <2>4, MarkedOK, ConditionFacts, PredicateFacts, Zenon
      <3>3. ReconcileOK(n)'
        <4>1. enactment'[n].conds = SetProgressing /\ ~Exhausted(enactment'[n])
          BY <1>1, <2>2, <2>4, MarkedFields, Zenon
        <4>2. IsProgressing(enactment'[n].conds) /\ ~IsFinalizing(enactment'[n].conds)
          BY <4>1, ConditionFacts, Zenon
        <4> QED BY <3>1, <4>1, <4>2, Zenon DEF ReconcileOK
      <3> QED BY <2>1, <2>3, <2>4, <3>1, <3>2, <3>3, NotifyStep
    <2>5. CASE enactment' = enactment /\ pc[n] = "markClaimed" /\ Goto(n, "compensate")
      <3>1. pc'[n] = "compensate" /\ \A m \in Nodes \ {n} : pc'[m] = pc[m]
        BY <1>1, <2>5, GotoFields, Zenon
      <3>2. EnactmentOK(n)'
        BY <1>1, <2>5, SameEnactmentOK, Zenon
      <3>3. ReconcileOK(n)'
        BY <1>1, <2>1, <2>5, <3>1, Zenon DEF ReconcileOK
      <3> QED BY <2>1, <2>3, <2>5, <3>1, <3>2, <3>3, NotifyStep
    <2>6. CASE enactment' = enactment /\ pc[n] = "mark" /\ Return(n, TRUE)
      <3>1. pc'[n] = "update" /\ \A m \in Nodes \ {n} : pc'[m] = pc[m]
        BY <1>1, <2>6, ReturnFields, Zenon
      <3>2. EnactmentOK(n)'
        BY <1>1, <2>6, SameEnactmentOK, Zenon
      <3>3. ReconcileOK(n)'
        BY <3>1, Zenon DEF ReconcileOK
      <3> QED BY <2>1, <2>3, <2>6, <3>1, <3>2, <3>3, NotifyStep, Zenon
    <2> QED BY <2>1, <2>4, <2>5, <2>6, Zenon
  <1>6. CASE NotifyFailedToConfigure(n)
    <2>1. /\ pc[n] = "failed"
          /\ Marked(n, SetFailed) \/ enactment' = enactment
          /\ Return(n, FALSE)
          /\ UNCHANGED <<policy, policyStatus, instance, ready>>
      BY <1>6, <1>l, Zenon DEF NotifyFailedToConfigure, Notify, Fault, Marked
    <2>2. pc'[n] = "update" /\ \A m \in Nodes \ {n} : pc'[m] = pc[m]
      BY <1>1, <2>1, ReturnFields, Zenon
    <2>3. ReconcileOK(n)'
      BY <2>2, Zenon DEF ReconcileOK
    <2>4. CASE Marked(n, SetFailed)
      <3>1. EnactmentOK(n)'
        BY <1>1, <2>1, <2>4, MarkedOK, ConditionFacts, PredicateFacts, Zenon DEF ReconcileOK
      <3>2. Exhausted(enactment[n]) => Holds(n)
        BY <1>1, <1>2, <2>1, Zenon DEF EnactmentOK, Holds, FailedForGood, isLiveHolder
      <3>3. Holds(n)' => Exhausted(enactment[n])
        <4>1. /\ enactment'[n].conds = SetFailed
              /\ Exhausted(enactment'[n]) <=> Exhausted(enactment[n])
          BY <1>1, <2>4, MarkedFields, Zenon
        <4>2. ~IsProgressing(enactment'[n].conds)
          BY <4>1, ConditionFacts, Zenon
        <4> QED BY <2>2, <4>1, <4>2, Zenon DEF Holds, FailedForGood, isLiveHolder
      <3> QED BY <2>1, <2>2, <2>3, <3>1, <3>2, <3>3, NotifyStep
    <2>5. CASE enactment' = enactment
      <3>1. EnactmentOK(n)'
        BY <1>1, <2>1, <2>5, SameEnactmentOK, Zenon
      <3> QED BY <2>1, <2>2, <2>3, <2>5, <3>1, SameEnactmentHolds, NotifyStep
    <2> QED BY <2>1, <2>4, <2>5, Zenon
  <1>7. CASE NotifyRetrying(n)
    <2>1. /\ pc[n] = "retrying"
          /\ Marked(n, SetRetry) \/ enactment' = enactment
          /\ Return(n, TRUE)
          /\ UNCHANGED <<policy, policyStatus, instance, ready>>
      BY <1>7, <1>l, Zenon DEF NotifyRetrying, Notify, Fault, Marked
    <2>2. pc'[n] = "update" /\ \A m \in Nodes \ {n} : pc'[m] = pc[m]
      BY <1>1, <2>1, ReturnFields, Zenon
    <2>3. ReconcileOK(n)'
      BY <2>2, Zenon DEF ReconcileOK
    <2>4. Holds(n) /\ enactment[n].gen # 0 /\ "applyError" \in Faults
      BY <1>1, <1>2, <2>1, Zenon DEF ReconcileOK, EnactmentOK, Holds, isLiveHolder
    <2>5. CASE Marked(n, SetRetry)
      <3>1. EnactmentOK(n)'
        BY <1>1, <2>4, <2>5, MarkedOK, ConditionFacts, PredicateFacts, Zenon
      <3> QED BY <2>1, <2>2, <2>3, <2>4, <3>1, NotifyStep, Zenon
    <2>6. CASE enactment' = enactment
      <3>1. EnactmentOK(n)'
        BY <1>1, <2>1, <2>6, SameEnactmentOK, Zenon
      <3> QED BY <2>1, <2>2, <2>3, <2>4, <2>6, <3>1, NotifyStep, Zenon
    <2> QED BY <2>1, <2>5, <2>6, Zenon
  <1>8. CASE NotifyFinalizing(n)
    <2>1. /\ pc[n] = "finalizing"
          /\ UNCHANGED <<policy, policyStatus, instance, ready>>
          /\ \/ Marked(n, SetFinalizing) /\ Goto(n, "release")
             \/ enactment' = enactment /\ Return(n, TRUE)
      BY <1>8, <1>l, Zenon DEF NotifyFinalizing, Notify, Fault, Marked
    <2>2. Holds(n) /\ enactment[n].gen # 0 /\ ~Exhausted(enactment[n])
      BY <1>1, <1>2, <2>1, Zenon DEF ReconcileOK, EnactmentOK, Holds, isLiveHolder
    <2>3. CASE Marked(n, SetFinalizing) /\ Goto(n, "release")
      <3>1. pc'[n] = "release" /\ \A m \in Nodes \ {n} : pc'[m] = pc[m]
        BY <1>1, <2>3, GotoFields, Zenon
      <3>2. EnactmentOK(n)'
        BY <1>1, <2>2, <2>3, MarkedOK, ConditionFacts, PredicateFacts, Zenon
      <3>3. ReconcileOK(n)'
        <4>1. enactment'[n].conds = SetFinalizing
          BY <1>1, <2>3, MarkedFields, Zenon
        <4>2. IsFinalizing(enactment'[n].conds)
          BY <4>1, ConditionFacts, Zenon
        <4> QED BY <3>1, <4>2, Zenon DEF ReconcileOK
      <3> QED BY <2>1, <2>2, <2>3, <3>1, <3>2, <3>3, NotifyStep, Zenon
    <2>4. CASE enactment' = enactment /\ Return(n, TRUE)
      <3>1. pc'[n] = "update" /\ \A m \in Nodes \ {n} : pc'[m] = pc[m]
        BY <1>1, <2>4, ReturnFields, Zenon
      <3>2. EnactmentOK(n)'
        BY <1>1, <2>1, <2>4, SameEnactmentOK, Zenon
      <3>3. ReconcileOK(n)'
        BY <3>1, Zenon DEF ReconcileOK
      <3> QED BY <2>1, <2>2, <2>4, <3>1, <3>2, <3>3, NotifyStep
    <2> QED BY <2>1, <2>3, <2>4, Zenon
  <1>9. CASE NotifySuccess(n) \/ FinalizeInterruptedApply(n)
    <2>1. /\ pc[n] \in {"success", "finalizeInterrupted"}
          /\ UNCHANGED <<policy, policyStatus, instance, ready>>
          /\ Marked(n, SetSuccess) \/ enactment' = enactment
          /\ Goto(n, "audit") \/ \E requeue \in BOOLEAN : Return(n, requeue)
      BY <1>9, <1>l, Zenon DEF NotifySuccess, FinalizeInterruptedApply, Notify, Fault, Marked
    <2>2. pc'[n] \in {"audit", "update"} /\ \A m \in Nodes \ {n} : pc'[m] = pc[m]
      BY <1>1, <2>1, GotoFields, ReturnFields, Zenon
    <2>3. ReconcileOK(n)'
      BY <2>2, Zenon DEF ReconcileOK
    <2>4. enactment[n].gen # 0 /\ ~Exhausted(enactment[n])
      BY <1>1, <2>1, PredicateFacts, Zenon DEF ReconcileOK, EnactmentOK
    <2>5. CASE Marked(n, SetSuccess)
      <3>1. EnactmentOK(n)'
        BY <1>1, <2>4, <2>5, MarkedOK, ConditionFacts, PredicateFacts, Zenon
      <3>2. ~Holds(n)'
        BY <1>1, <2>2, <2>5, MarkedFields, ConditionFacts, Zenon
           DEF Holds, FailedForGood, isLiveHolder
      <3> QED BY <2>1, <2>2, <2>3, <3>1, <3>2, NotifyStep, Zenon
    <2>6. CASE enactment' = enactment
      <3>1. EnactmentOK(n)'
        BY <1>1, <2>1, <2>6, SameEnactmentOK, Zenon
      <3> QED BY <2>1, <2>2, <2>3, <2>6, <3>1, SameEnactmentHolds, NotifyStep, Zenon
    <2> QED BY <2>1, <2>5, <2>6, Zenon
  <1> QED BY <1>3, <1>4, <1>5, <1>6, <1>7, <1>8, <1>9, Zenon

\* A step of n that leaves its enactment and goes where no slot is relied on.
LEMMA QuietStep ==
    ASSUME SlotInvariant, TypeOK', NEW n \in Nodes, Frame(n), EnoughSlots,
           enactment' = enactment, EnactmentOK(n)', ReconcileOK(n)',
           pc'[n] \notin {"markClaimed", "compensate", "release"}
    PROVE  SafeStep
  <1>1. Gen(n)' = Gen(n)
    BY Zenon DEF Gen
  <1> QED BY <1>1, SameEnactmentHolds, LocalStep, Zenon

\* The steps that leave the enactment alone and take no slot.
LEMMA QuietStepsAreSafe ==
    ASSUME SafeFaults, SlotInvariant, TypeOK', NEW n \in Nodes,
           \/ Begin(n) \/ AuditBlocked(n) \/ MidUpdate(n) \/ Apply(n)
           \/ ReleaseUnavailableSlotByAudit(n) \/ DeferredUpdate(n)
           \/ Crash(n) \/ StartupAudit(n)
    PROVE  SafeStep
  <1>1. TypeOK /\ EnactmentOK(n) /\ ReconcileOK(n)
    BY Zenon DEF SlotInvariant
  <1>2. CASE Begin(n)
    <2>1. /\ pc[n] = "idle"
          /\ enactment' = enactment
          /\ ready' = ready
      BY <1>2, Zenon DEF Begin
    <2>2. /\ pc'[n] = IF enactment[n].exists THEN "fillIn" ELSE "initialize"
          /\ \A m \in Nodes \ {n} : pc'[m] = pc[m] /\ instance'[m] = instance[m]
      BY <1>1, <1>2, Zenon DEF Begin, TypeOK
    <2>3. instance'[n].gen # 0
      <3>0. Cached(n) \in Policies
        BY <1>1, Zenon DEF Cached, Caches, TypeOK
      <3>1. Cached(n).gen \in Generations
        BY <3>0, Zenon DEF Policies
      <3>2. instance'[n].gen = Cached(n).gen
        BY <1>1, <1>2, Zenon DEF Begin, TypeOK
      <3> QED BY <3>1, <3>2 DEF Generations
    <2>4. policy'.count = policy.count /\ policy'.recent = policy.recent /\ NoNewStatus
      BY <1>1, <1>2, StatusesStay, Zenon DEF Begin, Write, NoWrite, TypeOK, Policies
    <2>5. Frame(n)
      BY <2>1, <2>2, <2>4, Zenon DEF Frame
    <2>6. EnactmentOK(n)'
      BY <1>1, <2>1, SameEnactmentOK, Zenon
    <2>7. ReconcileOK(n)'
      BY <2>1, <2>2, <2>3, Zenon DEF ReconcileOK
    <2> QED BY <2>1, <2>2, <2>4, <2>5, <2>6, <2>7, SameCountIsEnough, QuietStep, Zenon
  <1>3. CASE AuditBlocked(n)
    <2>1. /\ pc[n] = "auditBlocked"
          /\ enactment' = enactment
          /\ ready' = ready
          /\ instance' = instance
          /\ Goto(n, "claimAgain") \/ Goto(n, "pending")
          /\ (AuditFindsGhosts /\ AuditRepair) \/ NoWrite
      BY <1>3, Zenon DEF AuditBlocked
    <2>2. pc'[n] \in {"claimAgain", "pending"} /\ \A m \in Nodes \ {n} : pc'[m] = pc[m]
      BY <1>1, <2>1, GotoFields, Zenon
    <2>3. EnoughSlots /\ (policy.recent => policy'.recent)
      BY <2>1, AuditIsSafe, NoWriteIsEnough, Zenon
    <2>4. Frame(n)
      BY <2>1, <2>2, <2>3, Zenon DEF Frame
    <2>5. EnactmentOK(n)'
      BY <1>1, <2>1, SameEnactmentOK, Zenon
    <2>6. ReconcileOK(n)'
      BY <1>1, <2>1, <2>2, Zenon DEF ReconcileOK
    <2> QED BY <2>1, <2>2, <2>3, <2>4, <2>5, <2>6, QuietStep
  <1>4. CASE MidUpdate(n)
    <2>1. /\ pc[n] = "midUpdate"
          /\ enactment' = enactment
          /\ ready' = ready
          /\ instance' = instance
          /\ UpdatePolicyConditions(n, Goto(n, "apply"))
      BY <1>4, Zenon DEF MidUpdate
    <2>2. pc'[n] \in {"midUpdate", "apply"} /\ \A m \in Nodes \ {n} : pc'[m] = pc[m]
      BY <1>1, <2>1, UpdateLabels, Zenon
    <2>3. EnoughSlots /\ (policy.recent => policy'.recent)
      BY <2>1, UpdateIsSafe, Zenon
    <2>4. Frame(n)
      BY <2>1, <2>2, <2>3, Zenon DEF Frame
    <2>5. EnactmentOK(n)'
      BY <1>1, <2>1, SameEnactmentOK, Zenon
    <2>6. ReconcileOK(n)'
      BY <1>1, <2>1, <2>2, Zenon DEF ReconcileOK
    <2> QED BY <2>1, <2>2, <2>3, <2>4, <2>5, <2>6, QuietStep, Zenon
  <1>5. CASE Apply(n)
    <2>1. /\ pc[n] = "apply"
          /\ enactment' = enactment
          /\ ready' = ready
          /\ instance' = instance
          /\ UNCHANGED <<policy, policyStatus>>
          /\ Goto(n, "finalizing") \/ ("applyError" \in Faults /\ Goto(n, "retryCount"))
      BY <1>5, Zenon DEF Apply
    <2>2. /\ pc'[n] = "finalizing" \/ ("applyError" \in Faults /\ pc'[n] = "retryCount")
          /\ \A m \in Nodes \ {n} : pc'[m] = pc[m]
      BY <1>1, <2>1, GotoFields, Zenon
    <2>3. Frame(n)
      BY <2>1, <2>2, Zenon DEF Frame
    <2>4. EnactmentOK(n)'
      BY <1>1, <2>1, SameEnactmentOK, Zenon
    <2>5. ReconcileOK(n)'
      BY <1>1, <2>1, <2>2, Zenon DEF ReconcileOK
    <2>6. EnoughSlots
      BY <2>1, NoWriteIsEnough, Zenon DEF NoWrite
    <2> QED BY <2>1, <2>2, <2>3, <2>4, <2>5, <2>6, QuietStep
  <1>6. CASE ReleaseUnavailableSlotByAudit(n)
    <2>1. /\ pc[n] = "audit"
          /\ enactment' = enactment
          /\ ready' = ready
          /\ instance' = instance
          /\ \E requeue \in BOOLEAN : Return(n, requeue)
          /\ (AuditFindsGhosts /\ AuditRepair) \/ NoWrite
      BY <1>6, Zenon DEF ReleaseUnavailableSlotByAudit, Audit
    <2>2. pc'[n] = "update" /\ \A m \in Nodes \ {n} : pc'[m] = pc[m]
      BY <1>1, <2>1, ReturnFields, Zenon
    <2>3. EnoughSlots /\ (policy.recent => policy'.recent)
      BY <2>1, AuditIsSafe, NoWriteIsEnough, Zenon
    <2>4. Frame(n)
      BY <2>1, <2>2, <2>3, Zenon DEF Frame
    <2>5. EnactmentOK(n)'
      BY <1>1, <2>1, SameEnactmentOK, Zenon
    <2>6. ReconcileOK(n)'
      BY <2>2, Zenon DEF ReconcileOK
    <2> QED BY <2>1, <2>2, <2>3, <2>4, <2>5, <2>6, QuietStep
  <1>7. CASE DeferredUpdate(n)
    <2>1. /\ pc[n] = "update"
          /\ enactment' = enactment
          /\ ready' = ready
          /\ \A m \in Nodes \ {n} : instance'[m] = instance[m]
          /\ UpdatePolicyConditions(n, Goto(n, "idle"))
      BY <1>1, <1>7, Zenon DEF DeferredUpdate, TypeOK
    <2>2. pc'[n] \in {"update", "idle"} /\ \A m \in Nodes \ {n} : pc'[m] = pc[m]
      BY <1>1, <2>1, UpdateLabels, Zenon
    <2>3. EnoughSlots /\ (policy.recent => policy'.recent)
      BY <2>1, UpdateIsSafe, Zenon
    <2>4. Frame(n)
      BY <2>1, <2>2, <2>3, Zenon DEF Frame
    <2>5. EnactmentOK(n)'
      BY <1>1, <2>1, SameEnactmentOK, Zenon
    <2>6. ReconcileOK(n)'
      BY <2>2, Zenon DEF ReconcileOK
    <2> QED BY <2>1, <2>2, <2>3, <2>4, <2>5, <2>6, QuietStep
  <1>8. CASE Crash(n)
    <2>1. /\ enactment' = enactment
          /\ ready' = ready
          /\ policy' = policy
          /\ pc'[n] = "down"
          /\ policyStatus' = [policyStatus EXCEPT ![n] = NoStatus]
          /\ \A m \in Nodes \ {n} : pc'[m] = pc[m] /\ instance'[m] = instance[m]
      BY <1>1, <1>8, Zenon DEF Crash, TypeOK
    <2>2. Frame(n)
      BY <2>1, Zenon DEF Frame
    <2>3. EnactmentOK(n)'
      BY <1>1, <2>1, SameEnactmentOK, Zenon
    <2>4. ReconcileOK(n)'
      BY <2>1, Zenon DEF ReconcileOK
    <2>5. EnoughSlots
      <3>1. NoStatus.cond = "None"
        BY DEF NoStatus
      <3>2. NoNewStatus
        BY <1>1, <2>1, <3>1, Zenon DEF NoNewStatus, TypeOK
      <3> QED BY <2>1, <3>2, SameCountIsEnough, Zenon
    <2> QED BY <2>1, <2>2, <2>3, <2>4, <2>5, QuietStep, Zenon
  <1>9. CASE StartupAudit(n)
    <2>1. /\ pc[n] = "startupAudit"
          /\ enactment' = enactment
          /\ ready' = ready
          /\ instance' = instance
          /\ StartControllers(n)
          /\ (AuditFindsGhosts /\ AuditRepair) \/ NoWrite
      BY <1>9, Zenon DEF StartupAudit, Audit
    <2>2. pc'[n] = "idle" /\ \A m \in Nodes \ {n} : pc'[m] = pc[m]
      BY <1>1, <2>1, StartFields, Zenon
    <2>3. EnoughSlots /\ (policy.recent => policy'.recent)
      BY <2>1, AuditIsSafe, NoWriteIsEnough, Zenon
    <2>4. Frame(n)
      BY <2>1, <2>2, <2>3, Zenon DEF Frame
    <2>5. EnactmentOK(n)'
      BY <1>1, <2>1, SameEnactmentOK, Zenon
    <2>6. ReconcileOK(n)'
      BY <2>2, Zenon DEF ReconcileOK
    <2> QED BY <2>1, <2>2, <2>3, <2>4, <2>5, <2>6, QuietStep, Zenon
  <1> QED BY <1>2, <1>3, <1>4, <1>5, <1>6, <1>7, <1>8, <1>9

=============================================================================
