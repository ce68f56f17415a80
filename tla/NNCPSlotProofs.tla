--------------------------- MODULE NNCPSlotProofs ---------------------------
(***************************************************************************)
(* The slots of NNCPHandler are safe under SafeFaults, for every set of    *)
(* nodes, every limit and every bound on generations, retries and faults;  *)
(* and none is lost as long as nothing goes wrong.                         *)
(***************************************************************************)
EXTENDS NNCPFaultProofs

-----------------------------------------------------------------------------
(* Steps that change more of the enactment than its conditions *)

\* An enactment that is not at the generation of the reconcile has no retries.
LEMMA OtherGenerationIsNew ==
    ASSUME SafeFaults, TypeOK, NEW n \in Nodes, EnactmentOK(n), instance[n].gen # 0,
           enactment[n].gen # instance[n].gen
    PROVE  /\ \A g \in Generations : enactment[n].retries[g] = 0
           /\ ~IsRetrying(enactment[n].conds)
  <1>1. instance[n].gen \in 0..MaxGeneration /\ enactment[n].gen \in 0..MaxGeneration
    BY Zenon DEF TypeOK, Instances, Enactments
  <1>2. "applyError" \in Faults => enactment[n].gen = 0
    BY <1>1 DEF SafeFaults
  <1>3. \A g \in Generations : g # 0
    BY DEF Generations
  <1> QED BY <1>2, <1>3, PredicateFacts, Zenon DEF EnactmentOK

\* The steps that create, reset, count or recover an enactment.
LEMMA EnactmentStepsAreSafe ==
    ASSUME SafeFaults, SlotInvariant, TypeOK', NEW n \in Nodes,
           \/ Initialize(n) \/ FillIn(n) \/ IncrementRetryCount(n)
           \/ ReclaimInterruptedSlots(n)
    PROVE  SafeStep
  <1>1. TypeOK /\ EnactmentOK(n) /\ ReconcileOK(n)
    BY Zenon DEF SlotInvariant
  <1> DEFINE e == enactment[n]
             f == enactment'[n]
  <1>2. e \in Enactments /\ f \in Enactments
    BY <1>1, Zenon DEF TypeOK
  <1>3. NoWrite /\ UNCHANGED <<policy, instance, ready>>
    BY Zenon DEF Initialize, FillIn, IncrementRetryCount, ReclaimInterruptedSlots, NoWrite
  <1>4. EnoughSlots
    BY <1>3, NoWriteIsEnough, Zenon
  <1>5. \A m \in Nodes \ {n} : enactment'[m] = enactment[m]
    BY <1>1, Zenon DEF TypeOK, Initialize, FillIn, IncrementRetryCount, ReclaimInterruptedSlots
  <1>6. \A m \in Nodes \ {n} : pc'[m] = pc[m]
    BY <1>1, Zenon DEF TypeOK, Initialize, FillIn, IncrementRetryCount, ReclaimInterruptedSlots,
                Goto, Return, StartControllers
  <1>7. Frame(n)
    BY <1>3, <1>5, <1>6, Zenon DEF Frame
  <1>8. \A g \in Generations : g # 0
    BY DEF Generations
  <1>9. CASE Initialize(n)
    <2>1. /\ pc[n] = "initialize"
          /\ ~e.exists
          /\ e.gen = 0
          /\ instance[n].gen # 0
      BY <1>1, <1>9, Zenon DEF Initialize, ReconcileOK, EnactmentOK
    <2>2. \/ /\ f = [NoEnactment EXCEPT !.exists = TRUE, !.conds = UnknownConditions]
             /\ pc'[n] = "fillIn"
          \/ f = e /\ pc'[n] = "update"
          \/ f = [e EXCEPT !.exists = TRUE] /\ pc'[n] = "update"
      BY <1>1, <1>9, Zenon DEF Initialize, Goto, Return, TypeOK
    <2>3. /\ f.gen = 0
          /\ f.conds = UnknownConditions \/ f.conds = e.conds
          /\ \A g \in Generations : f.retries[g] = 0
          /\ pc'[n] = "fillIn" => f.exists
      <3>1. \A g \in Generations : e.retries[g] = 0
        BY <1>1, <1>8, <2>1, Zenon DEF EnactmentOK
      <3>2. CASE f = [NoEnactment EXCEPT !.exists = TRUE, !.conds = UnknownConditions]
        BY <3>2, ZenonT(30) DEF NoEnactment
      <3>3. CASE f = e /\ pc'[n] = "update"
        BY <2>1, <3>1, <3>3, Zenon
      <3>4. CASE f = [e EXCEPT !.exists = TRUE]
        BY <1>2, <2>1, <3>1, <3>4, Zenon DEF Enactments
      <3> QED BY <2>2, <3>2, <3>3, <3>4, Zenon
    <2>4. ~IsProgressing(f.conds) /\ ~IsAvailable(f.conds) /\ ~IsTerminallyFailed(f.conds)
      BY <1>1, <2>1, <2>3, ConditionFacts, Zenon DEF EnactmentOK
    <2>5. EnactmentOK(n)'
      BY <2>3, <2>4, PredicateFacts, Zenon DEF EnactmentOK, Exhausted
    <2>6. ReconcileOK(n)'
      BY <1>3, <2>1, <2>2, <2>3, Zenon DEF ReconcileOK
    <2>7. ~Holds(n)'
      BY <2>2, <2>4, Zenon DEF Holds, isLiveHolder, FailedForGood
    <2> QED BY <1>4, <1>7, <2>1, <2>5, <2>6, <2>7, LocalStep
  <1>10. CASE FillIn(n)
    <2> DEFINE filled == resetPolicyGeneration(e, instance[n].gen)
    <2>1. pc[n] = "fillIn" /\ e.exists /\ instance[n].gen # 0
      BY <1>1, <1>10, Zenon DEF FillIn, ReconcileOK
    <2>2. \/ f = filled /\ pc'[n] = Route(filled, e.conds)
          \/ f = e /\ pc'[n] = "update"
          \/ f = filled /\ pc'[n] = "update"
          \/ f = filled /\ pc'[n] = "failed"
      BY <1>1, <1>10, Zenon DEF FillIn, Goto, Return, TypeOK
    <2>3. CASE f = e /\ pc'[n] = "update"
      <3>1. EnactmentOK(n)'
        BY <1>1, <2>1, <2>3, SameEnactmentOK, Zenon
      <3>2. ReconcileOK(n)'
        BY <2>3, Zenon DEF ReconcileOK
      <3>3. Gen(n)' = Gen(n)
        BY <2>3, Zenon DEF Gen
      <3> QED BY <1>4, <1>7, <2>3, <3>1, <3>2, <3>3, SameEnactmentHolds, LocalStep, Zenon
    <2>4. CASE f = filled /\ pc'[n] \in {Route(filled, e.conds), "update", "failed"}
      <3>1. /\ f.gen = instance[n].gen
            /\ f.exists = e.exists
            /\ f.retries = e.retries
            /\ f.fresh = e.fresh
            /\ f.conds = IF e.gen # instance[n].gen THEN NoConditions ELSE e.conds
        BY <1>2, <2>4, Zenon DEF resetPolicyGeneration, Enactments
      <3>2. e.gen = f.gen => f.conds = e.conds
        BY <3>1, Zenon
      <3>3. e.gen # f.gen => /\ \A g \in Generations : f.retries[g] = 0
                             /\ ~IsRetrying(e.conds)
                             /\ ~IsProgressing(f.conds)
                             /\ ~IsAvailable(f.conds)
                             /\ ~IsTerminallyFailed(f.conds)
        BY <1>1, <2>1, <3>1, OtherGenerationIsNew, ConditionFacts, Zenon
      <3>4. instance[n].gen \in Generations
        BY <1>1, <2>1 DEF TypeOK, Instances, Generations
      <3>5. e.gen # f.gen => ~Exhausted(f)
        BY <3>1, <3>3, <3>4, NoRetriesLeaveSome, Zenon
      <3>6. e.gen = f.gen => (Exhausted(f) <=> Exhausted(e))
        BY <3>1, Zenon DEF Exhausted
      <3>7. EnactmentOK(n)'
        <4>1. CASE e.gen = f.gen
          BY <1>1, <2>1, <3>1, <3>2, <3>6, <4>1 DEF EnactmentOK
        <4>2. CASE e.gen # f.gen
          BY <2>1, <3>1, <3>3, <3>5, <4>2, PredicateFacts DEF EnactmentOK
        <4> QED BY <4>1, <4>2, Zenon
      <3>8. IsRetrying(e.conds) => IsProgressing(f.conds)
        BY <3>2, <3>3, PredicateFacts, Zenon
      <3>9. \/ pc'[n] \in {"update", "failed", "audit"}
            \/ pc'[n] = "finalizeInterrupted" /\ IsFinalizing(f.conds)
            \/ /\ pc'[n] = "mark"
               /\ IsProgressing(f.conds) /\ ~IsFinalizing(f.conds) /\ ~Exhausted(f)
            \/ /\ pc'[n] = "claim"
               /\ ~IsProgressing(f.conds) /\ ~IsAvailable(f.conds) /\ ~Exhausted(f)
        BY <2>4, <3>8, Zenon DEF Route
      <3>10. ReconcileOK(n)'
        BY <2>1, <3>1, <3>9, Zenon DEF ReconcileOK
      <3>11. Holds(n)' => Holds(n) /\ Gen(n)' = Gen(n)
        BY <3>1, <3>2, <3>3, <3>6, <3>9, Zenon DEF Holds, isLiveHolder, FailedForGood, Gen
      <3> QED BY <1>4, <1>7, <3>1, <3>7, <3>10, <3>11, LocalStep
    <2> QED BY <2>2, <2>3, <2>4, Zenon
  <1>11. CASE IncrementRetryCount(n)
    <2>1. /\ pc[n] = "retryCount"
          /\ IsProgressing(e.conds) /\ ~IsFinalizing(e.conds)
          /\ "applyError" \in Faults
          /\ e.gen # 0
          /\ e.exists
          /\ e.fresh
      BY <1>1, <1>11, Zenon DEF IncrementRetryCount, ReconcileOK, EnactmentOK
    <2>2. e.gen \in Generations
      <3>1. e.gen \in 0..MaxGeneration
        BY <1>2, Zenon DEF Enactments
      <3> QED BY <2>1, <3>1, BoundsAssumption DEF Generations
    <2>3. /\ pc'[n] \in {"failed", "retrying", "update"}
          /\ f = e \/ f = [e EXCEPT !.retries[e.gen] = @ + 1]
      BY <1>1, <1>11, Zenon DEF IncrementRetryCount, Goto, Return, TypeOK, Gen
    <2>4. /\ f.gen = e.gen /\ f.exists = e.exists /\ f.fresh = e.fresh
          /\ f.conds = e.conds
          /\ \A g \in Generations : g # e.gen => f.retries[g] = e.retries[g]
      BY <1>2, <2>2, <2>3, ZenonT(30) DEF Enactments
    <2>5. EnactmentOK(n)'
      BY <1>1, <2>1, <2>4, Zenon DEF EnactmentOK
    <2>6. ReconcileOK(n)'
      BY <2>1, <2>3, <2>4, Zenon DEF ReconcileOK
    <2>7. Holds(n) /\ Gen(n)' = Gen(n)
      BY <2>1, <2>4, Zenon DEF Holds, isLiveHolder, Gen
    <2> QED BY <1>4, <1>7, <2>4, <2>5, <2>6, <2>7, LocalStep, Zenon
  <1>12. CASE ReclaimInterruptedSlots(n)
    <2>1. /\ pc[n] = "down"
          /\ \/ /\ IsProgressing(e.conds)
                /\ enactment' = [enactment EXCEPT ![n] = Recovered(e)]
                /\ pc'[n] = "startupAudit"
             \/ /\ ~IsProgressing(e.conds) \/ "longOutage" \notin Faults
                /\ enactment' = enactment
                /\ pc'[n] = "idle"
      BY <1>1, <1>12, Zenon
         DEF ReclaimInterruptedSlots, Fault, SafeFaults, Goto, StartControllers, TypeOK
    <2>2. CASE enactment' = enactment /\ pc'[n] = "idle"
      <3>1. EnactmentOK(n)'
        BY <1>1, <2>1, <2>2, SameEnactmentOK, Zenon
      <3>2. ReconcileOK(n)'
        BY <2>2, Zenon DEF ReconcileOK
      <3> QED BY <1>4, <1>7, <2>2, <3>1, <3>2, QuietStep, Zenon
    <2>3. CASE /\ IsProgressing(e.conds)
               /\ enactment' = [enactment EXCEPT ![n] = Recovered(e)]
               /\ pc'[n] = "startupAudit"
      <3>1. e.gen # 0 /\ e.exists
        BY <1>1, <2>3, Zenon DEF EnactmentOK
      <3>2. ReconcileOK(n)'
        BY <2>3, Zenon DEF ReconcileOK
      <3>3. f = Recovered(e)
        BY <1>1, <2>3, Zenon DEF TypeOK
      <3>4. CASE IsFinalizing(e.conds)
        <4>1. Marked(n, SetSuccess)
          BY <2>3, <3>4, Zenon DEF Recovered, Marked
        <4>2. ~Exhausted(e)
          BY <1>1, <3>4, PredicateFacts, Zenon DEF EnactmentOK
        <4>3. EnactmentOK(n)'
          BY <1>1, <3>1, <4>1, <4>2, MarkedOK, ConditionFacts, PredicateFacts
        <4>4. ~Holds(n)'
          BY <1>1, <2>3, <4>1, MarkedFields, ConditionFacts, Zenon
             DEF Holds, isLiveHolder, FailedForGood
        <4>5. f.exists
          BY <1>1, <3>1, <4>1, MarkedFields, Zenon
        <4> QED BY <1>4, <1>7, <3>2, <4>3, <4>4, <4>5, LocalStep, Zenon
      <3>5. CASE ~IsFinalizing(e.conds)
        <4>1. f = Interrupted(e)
          BY <3>3, <3>5, Zenon DEF Recovered
        <4>2. /\ f.gen = e.gen /\ f.exists = e.exists /\ f.conds = SetPending /\ f.fresh
              /\ \A g \in Generations : f.retries[g] = IF g = e.gen THEN 0 ELSE e.retries[g]
          <5> DEFINE w == WithConditions(e, SetPending)
          <5>1. /\ w \in Enactments /\ w.gen = e.gen /\ w.exists = e.exists
                /\ w.conds = SetPending /\ w.fresh /\ w.retries = e.retries
            BY <1>2, ConditionListTypes, WithConditionsType, WithConditionsFields, Zenon
          <5>2. f = [w EXCEPT !.retries =
                        [g \in Generations |-> IF g = e.gen THEN 0 ELSE w.retries[g]]]
            BY <4>1, Zenon DEF Interrupted
          <5> HIDE DEF w
          <5> QED BY <5>1, <5>2 DEF Enactments
        <4>3. \A g \in Generations : f.retries[g] = 0
          <5>1. \A g \in Generations : e.retries[g] # 0 => g = e.gen
            BY <1>1, Zenon DEF EnactmentOK
          <5> SUFFICES ASSUME NEW g \in Generations PROVE f.retries[g] = 0
            OBVIOUS
          <5>2. CASE g = e.gen
            BY <4>2, <5>2, Zenon
          <5>3. CASE g # e.gen
            BY <4>2, <5>1, <5>3, Zenon
          <5> QED BY <5>2, <5>3, Zenon
        <4>4. f.gen \in Generations
          <5>1. f.gen \in 0..MaxGeneration /\ f.gen # 0
            BY <1>2, <3>1, <4>2, Zenon DEF Enactments
          <5> QED BY <5>1, BoundsAssumption DEF Generations
        <4>5. ~Exhausted(f)
          BY <4>3, <4>4, NoRetriesLeaveSome, Zenon
        <4>6. ~IsProgressing(f.conds) /\ ~IsAvailable(f.conds) /\ ~IsTerminallyFailed(f.conds)
          BY <4>2, ConditionFacts, Zenon
        <4>7. EnactmentOK(n)'
          BY <3>1, <4>2, <4>3, <4>5, <4>6, PredicateFacts DEF EnactmentOK
        <4>8. ~Holds(n)'
          BY <2>3, <4>6, Zenon DEF Holds, isLiveHolder, FailedForGood
        <4> QED BY <1>4, <1>7, <3>1, <3>2, <4>2, <4>7, <4>8, LocalStep, Zenon
      <3> QED BY <3>4, <3>5, Zenon
    <2> QED BY <2>1, <2>2, <2>3, Zenon
  <1> QED BY <1>9, <1>10, <1>11, <1>12, Zenon

-----------------------------------------------------------------------------
(* Taking a slot and giving it back *)

\* The holders can be counted.
LEMMA HoldersAreFinite ==
    ASSUME NEW g
    PROVE  /\ IsFiniteSet(Holders(g))
           /\ Cardinality(Holders(g)) \in Nat
           /\ IsFiniteSet(Holders(g)')
           /\ Cardinality(Holders(g)') \in Nat
  BY NodesAssumption, FS_Subset, FS_CardinalityType, Zenon DEF Holders

\* A set with one more element has at most one more.
LEMMA OneHolderMore ==
    ASSUME NEW S, NEW T, NEW x, IsFiniteSet(S), T \subseteq S \cup {x}
    PROVE  /\ Cardinality(S) \in Nat
           /\ Cardinality(T) \in Nat
           /\ Cardinality(T) <= Cardinality(S) + 1
  <1>1. Cardinality(S) \in Nat
    BY FS_CardinalityType, Zenon
  <1>2. /\ IsFiniteSet(S \cup {x})
        /\ Cardinality(S \cup {x}) = Cardinality(S) \/ Cardinality(S \cup {x}) = Cardinality(S) + 1
    BY FS_AddElement, Zenon
  <1>3. Cardinality(T) \in Nat /\ Cardinality(T) <= Cardinality(S \cup {x})
    BY <1>2, FS_Subset, FS_CardinalityType, Zenon
  <1> QED BY <1>1, <1>2, <1>3

\* Arithmetic of the counters.
LEMMA OneLess ==
    ASSUME NEW a \in Nat, a >= 1
    PROVE  a - 1 \in Nat /\ a - 1 <= a
  OBVIOUS

\* A counter that stays is no larger.
LEMMA SameIsNoMore ==
    ASSUME NEW a \in Nat, NEW b, b = a
    PROVE  b <= a /\ b \in Nat
  OBVIOUS

\* A counter that covers a holder is not zero.
LEMMA SomeAreCounted ==
    ASSUME NEW S, NEW x \in S, IsFiniteSet(S), NEW a \in Nat, Cardinality(S) <= a
    PROVE  a >= 1
  <1>1. Cardinality(S) \in Nat /\ Cardinality(S) # 0
    BY FS_CardinalityType, FS_EmptySet, Zenon
  <1> QED BY <1>1

\* One holder and one slot less.
LEMMA OneLessEach ==
    ASSUME NEW a \in Nat, NEW b \in Nat, a <= b
    PROVE  a - 1 <= b - 1
  OBVIOUS

\* Below the limit there is room for one.
LEMMA OneMore ==
    ASSUME NEW a \in Nat, NEW b \in Nat, a < b
    PROVE  a + 1 <= b
  OBVIOUS

\* One holder and one slot more.
LEMMA OneMoreEach ==
    ASSUME NEW a \in Nat, NEW b \in Nat, NEW c \in Nat, a <= b + 1, b <= c
    PROVE  a <= c + 1
  OBVIOUS

\* A decrement by a node that stops relying on its slot.
LEMMA GiveBack ==
    ASSUME SlotInvariant, TypeOK', NEW n \in Nodes, Frame(n),
           enactment' = enactment, EnactmentOK(n)', ReconcileOK(n)',
           Gen(n) \in Generations, Holds(n), ~Holds(n)',
           policy' = Decremented(policy, Gen(n)), NoNewStatus
    PROVE  SafeStep
  <1> SUFFICES ASSUME NEW g \in Generations, g = Gen(n) PROVE SafeStep
    OBVIOUS
  <1>1. /\ policy \in Policies
        /\ \A h \in Generations : policy.count[h] \in Nat
        /\ \A h \in Generations : Cardinality(Holders(h)) <= policy.count[h]
    BY Zenon DEF SlotInvariant, TypeOK, Policies, HeldSlotsAreCounted
  <1>2. n \in Holders(g)
    BY Zenon DEF Holders
  <1>3. policy.count[g] >= 1
    <2>1. /\ policy.count[g] \in Nat
          /\ Cardinality(Holders(g)) <= policy.count[g]
          /\ IsFiniteSet(Holders(g))
      BY <1>1, HoldersAreFinite, Zenon
    <2> QED BY <1>2, <2>1, SomeAreCounted, Zenon
  <1>4. /\ policy'.count[g] = policy.count[g] - 1
        /\ \A h \in Generations \ {g} : policy'.count[h] = policy.count[h]
    BY <1>1, <1>3 DEF Decremented, WithCount, Policies
  <1>5. \A m \in Nodes : Gen(m)' = Gen(m)
    BY Zenon DEF Gen
  <1>6. /\ Holders(g)' = Holders(g) \ {n}
        /\ \A h \in Generations \ {g} : Holders(h)' = Holders(h)
    BY <1>5, OthersKeepHolding, Zenon DEF Holders
  <1>7. Cardinality(Holders(g)') = Cardinality(Holders(g)) - 1
    BY <1>2, <1>6, HoldersAreFinite, FS_RemoveElement, Zenon
  <1>8. \A m \in Nodes : ready'[m] /\ EnactmentOK(m)' /\ ReconcileOK(m)'
    BY OthersKeepOK, Zenon
  <1>9. numberOfEnactments' = numberOfEnactments
    BY Zenon DEF numberOfEnactments
  <1>10. CountersStayInBounds'
    <2> SUFFICES ASSUME NEW h \in Generations
                 PROVE  policy'.count[h] <= Limit(numberOfEnactments)'
      BY Zenon DEF CountersStayInBounds
    <2>1. policy.count[h] <= Limit(numberOfEnactments)
      BY Zenon DEF SlotInvariant, CountersStayInBounds
    <2>2. policy'.count[h] <= policy.count[h] /\ policy'.count[h] \in Nat
      <3>1. policy.count[h] \in Nat /\ policy.count[g] \in Nat
        BY <1>1, Zenon
      <3>2. CASE h = g
        BY <1>3, <1>4, <3>1, <3>2, OneLess, Zenon
      <3>3. CASE h # g
        <4>1. policy'.count[h] = policy.count[h]
          BY <1>4, <3>3, Zenon
        <4> QED BY <3>1, <4>1, SameIsNoMore, Zenon
      <3> QED BY <3>2, <3>3, Zenon
    <2>3. Limit(numberOfEnactments) \in Nat
      BY LimitGrows, Zenon
    <2> QED BY <1>1, <1>9, <2>1, <2>2, <2>3
  <1>11. HeldSlotsAreCounted'
    <2> SUFFICES ASSUME NEW h \in Generations
                 PROVE  Cardinality(Holders(h)') <= policy'.count[h]
      BY Zenon DEF HeldSlotsAreCounted
    <2>1. CASE h = g
      <3>1. /\ policy.count[g] \in Nat
            /\ Cardinality(Holders(g)) \in Nat
            /\ Cardinality(Holders(g)) <= policy.count[g]
        BY <1>1, HoldersAreFinite, Zenon
      <3> QED BY <1>4, <1>7, <2>1, <3>1, OneLessEach, Zenon
    <2>2. CASE h # g
      BY <1>1, <1>4, <1>6, <2>2, Zenon
    <2> QED BY <2>1, <2>2, Zenon
  <1>12. BudgetStep
    BY NoSlotIsTaken, Zenon
  <1>13. StatusesOK'
    BY Zenon DEF SlotInvariant, StatusesOK, NoNewStatus
  <1> QED BY <1>8, <1>10, <1>11, <1>12, <1>13, Zenon DEF SafeStep, SlotInvariant

\* An increment below the limit.
LEMMA TakeSlot ==
    ASSUME SlotInvariant, TypeOK', NEW n \in Nodes, Frame(n),
           enactment' = enactment, EnactmentOK(n)', ReconcileOK(n)',
           Gen(n) \in Generations, ~Holds(n), Holds(n)',
           policy.count[Gen(n)] < Limit(numberOfEnactments),
           policy' = WithCount(policy, Gen(n), policy.count[Gen(n)] + 1),
           \A m \in Nodes : policyStatus'[m].cond = "None"
    PROVE  SafeStep
  <1> SUFFICES ASSUME NEW g \in Generations, g = Gen(n) PROVE SafeStep
    OBVIOUS
  <1>1. /\ policy \in Policies
        /\ \A h \in Generations : policy.count[h] \in Nat
        /\ \A h \in Generations : Cardinality(Holders(h)) <= policy.count[h]
    BY Zenon DEF SlotInvariant, TypeOK, Policies, HeldSlotsAreCounted
  <1>2. /\ policy'.count[g] = policy.count[g] + 1
        /\ \A h \in Generations \ {g} : policy'.count[h] = policy.count[h]
    BY <1>1, Zenon DEF WithCount, Policies
  <1>3. \A m \in Nodes : Gen(m)' = Gen(m)
    BY Zenon DEF Gen
  <1>4. /\ Holders(g)' \subseteq Holders(g) \cup {n}
        /\ \A h \in Generations \ {g} : Holders(h)' = Holders(h)
    BY <1>3, OthersKeepHolding, Zenon DEF Holders
  <1>5. Cardinality(Holders(g)') <= Cardinality(Holders(g)) + 1
    BY <1>4, HoldersAreFinite, OneHolderMore, Zenon
  <1>6. \A m \in Nodes : ready'[m] /\ EnactmentOK(m)' /\ ReconcileOK(m)'
    BY OthersKeepOK, Zenon
  <1>7. numberOfEnactments' = numberOfEnactments /\ Limit(numberOfEnactments) \in Nat
    BY LimitGrows, Zenon DEF numberOfEnactments
  <1>8. CountersStayInBounds'
    <2> SUFFICES ASSUME NEW h \in Generations
                 PROVE  policy'.count[h] <= Limit(numberOfEnactments)'
      BY Zenon DEF CountersStayInBounds
    <2>1. policy.count[h] <= Limit(numberOfEnactments)
      BY Zenon DEF SlotInvariant, CountersStayInBounds
    <2>2. policy.count[h] \in Nat /\ policy.count[g] \in Nat
      BY <1>1, Zenon
    <2>3. CASE h = g
      <3>1. policy'.count[h] = policy.count[g] + 1
        BY <1>2, <2>3, Zenon
      <3>2. policy.count[g] + 1 <= Limit(numberOfEnactments)
        BY <1>7, <2>2, OneMore, Zenon
      <3> QED BY <1>7, <3>1, <3>2, Zenon
    <2>4. CASE h # g
      BY <1>2, <1>7, <2>1, <2>4, Zenon
    <2> QED BY <2>3, <2>4, Zenon
  <1>9. HeldSlotsAreCounted'
    <2> SUFFICES ASSUME NEW h \in Generations
                 PROVE  Cardinality(Holders(h)') <= policy'.count[h]
      BY Zenon DEF HeldSlotsAreCounted
    <2>1. CASE h = g
      <3>1. /\ policy.count[g] \in Nat
            /\ Cardinality(Holders(g)) \in Nat
            /\ Cardinality(Holders(g)') \in Nat
            /\ Cardinality(Holders(g)) <= policy.count[g]
        BY <1>1, HoldersAreFinite, Zenon
      <3> QED BY <1>2, <1>5, <2>1, <3>1, OneMoreEach, Zenon
    <2>2. CASE h # g
      BY <1>1, <1>2, <1>4, <2>2, Zenon
    <2> QED BY <2>1, <2>2, Zenon
  <1>10. BudgetStep
    <2> DEFINE U == [h \in Generations |-> Holders(h)]
    <2>1. n \notin Holders(g) /\ Holders(g)' = Holders(g) \cup {n}
      BY <1>3, OthersKeepHolding, Zenon DEF Holders
    <2>2. n \notin U[g] /\ U' = [U EXCEPT ![g] = @ \cup {n}]
      BY <1>4, <2>1, Zenon
    <2>3. Cardinality(Holders(g)) < Limit(numberOfEnactments)
      <3>1. /\ Cardinality(Holders(g)) \in Nat
            /\ policy.count[g] \in Nat
            /\ Limit(numberOfEnactments) \in Nat
            /\ Cardinality(Holders(g)) <= policy.count[g]
            /\ policy.count[g] < Limit(numberOfEnactments)
        BY <1>1, <1>7, HoldersAreFinite, Zenon
      <3> QED BY <3>1
    <2>4. Budget!Take(n, g)
      BY <1>7, <2>2, <2>3, BudgetCounts, Zenon DEF Budget!Take
    <2> QED BY <2>4, Zenon DEF BudgetStep, Budget!BudgetNext
  <1>11. StatusesOK'
    BY Zenon DEF StatusesOK
  <1> QED BY <1>6, <1>8, <1>9, <1>10, <1>11, Zenon DEF SafeStep, SlotInvariant

\* The steps that claim and release.
LEMMA SlotStepsAreSafe ==
    ASSUME SafeFaults, SlotInvariant, TypeOK', NEW n \in Nodes,
           Claim(n) \/ Compensate(n) \/ Release(n)
    PROVE  SafeStep
  <1>1. TypeOK /\ EnactmentOK(n) /\ ReconcileOK(n)
    BY Zenon DEF SlotInvariant
  <1>2. "lostReply" \notin Faults
    BY Zenon DEF SafeFaults
  <1>3. /\ enactment' = enactment
        /\ ready' = ready
        /\ \A m \in Nodes \ {n} : instance'[m] = instance[m]
        /\ pc[n] # "down"
    BY <1>1, Zenon DEF Claim, Compensate, Release, TypeOK
  <1>4. \A m \in Nodes \ {n} : pc'[m] = pc[m]
    BY <1>1, Zenon DEF TypeOK, Claim, Compensate, Release, Goto, Return
  <1>5. EnactmentOK(n)' /\ Gen(n)' = Gen(n)
    BY <1>1, <1>3, SameEnactmentOK, Zenon DEF Gen
  <1>6. Gen(n) # 0 => Gen(n) \in Generations
    BY <1>1 DEF Gen, TypeOK, Enactments, Generations
  <1>7. CASE Claim(n)
    <2>1. /\ pc[n] \in {"claim", "claimAgain"}
          /\ Gen(n) # 0
          /\ enactment[n].exists
      BY <1>1, <1>7, Zenon DEF Claim, ReconcileOK, EnactmentOK, Gen
    <2>2. \/ NoWrite /\ pc'[n] \in {"failed", "auditBlocked", "pending", "update"}
          \/ \E limit \in {Limit(numberOfEnactments), 1} :
                /\ HasRoom(Cached(n), Gen(n), limit)
                /\ SameVersion(Cached(n), policy)
                /\ Write(WithCount(policy, Gen(n), policy.count[Gen(n)] + 1))
                /\ pc'[n] = "markClaimed"
      BY <1>1, <1>2, <1>7, Zenon DEF Claim, Fault, Goto, Return, TypeOK
    <2>3. CASE NoWrite /\ pc'[n] \in {"failed", "auditBlocked", "pending", "update"}
      <3>0. EnoughSlots /\ policy' = policy
        BY <2>3, NoWriteIsEnough, Zenon
      <3>1. Frame(n)
        BY <1>3, <1>4, <3>0, Zenon DEF Frame
      <3>2. ReconcileOK(n)'
        BY <1>1, <1>3, <2>1, <2>3, Zenon DEF ReconcileOK, Gen
      <3> QED BY <1>3, <1>5, <2>3, <3>0, <3>1, <3>2, QuietStep
    <2>4. ASSUME NEW limit \in {Limit(numberOfEnactments), 1},
                 HasRoom(Cached(n), Gen(n), limit),
                 SameVersion(Cached(n), policy),
                 Write(WithCount(policy, Gen(n), policy.count[Gen(n)] + 1)),
                 pc'[n] = "markClaimed"
          PROVE  SafeStep
      <3>0. /\ policy' = WithCount(policy, Gen(n), policy.count[Gen(n)] + 1)
            /\ \A m \in Nodes : policyStatus'[m].cond = "None"
        BY <1>1, <2>4, StatusesStay, Zenon DEF Write
      <3>1. numberOfEnactments \in 1..Cardinality(Nodes)
        <4> DEFINE S == {m \in Nodes : enactment[m].exists}
        <4>1. n \in S /\ S \subseteq Nodes
          BY <2>1, Zenon
        <4>2. Cardinality(S) \in Nat /\ Cardinality(S) # 0 /\ Cardinality(S) <= Cardinality(Nodes)
          BY <4>1, NodesAssumption, FS_Subset, FS_CardinalityType, FS_EmptySet, Zenon
        <4>3. Cardinality(Nodes) \in Nat
          BY NodesAssumption, FS_CardinalityType, Zenon
        <4> QED BY <4>2, <4>3 DEF numberOfEnactments
      <3>2. Limit(numberOfEnactments) \in Nat /\ Limit(numberOfEnactments) >= 1
        BY <3>1, LimitAssumption DEF SafeFaults
      <3>3. policy.count[Gen(n)] \in Nat
        BY <1>1, <1>6, <2>1, Zenon DEF TypeOK, Policies
      <3>4. policy.count[Gen(n)] < limit
        BY <2>4, Zenon DEF HasRoom, SameVersion
      <3>5. policy.count[Gen(n)] < Limit(numberOfEnactments)
        BY <3>2, <3>3, <3>4
      <3>6. policy'.recent
        BY <1>1, <3>0, Zenon DEF WithCount, TypeOK, Policies
      <3>7. Frame(n)
        BY <1>3, <1>4, <3>6, Zenon DEF Frame
      <3>8. ReconcileOK(n)'
        BY <1>1, <1>3, <2>1, <2>4, <3>6, Zenon DEF ReconcileOK
      <3>9. ~Holds(n) /\ Holds(n)'
        BY <1>1, <2>1, <2>4, Zenon DEF Holds, isLiveHolder, FailedForGood, ReconcileOK
      <3> QED BY <1>3, <1>5, <1>6, <2>1, <3>0, <3>5, <3>7, <3>8, <3>9, TakeSlot
    <2> QED BY <2>2, <2>3, <2>4, Zenon
  <1>8. CASE Compensate(n) \/ Release(n)
    <2>1. /\ pc[n] \in {"compensate", "release"}
          /\ pc[n] = "compensate" => ~IsProgressing(enactment[n].conds) /\ ~Exhausted(enactment[n])
          /\ pc[n] = "release" => /\ IsFinalizing(enactment[n].conds)
                                  /\ IsProgressing(enactment[n].conds)
                                  /\ enactment[n].fresh
          /\ Gen(n) # 0
      BY <1>1, <1>3, <1>8, PredicateFacts, Zenon DEF Compensate, Release, ReconcileOK, EnactmentOK, Gen
    <2>2. /\ NoWrite \/ Write(Decremented(policy, Gen(n)))
          /\ pc'[n] \in {"success", "update"}
          /\ pc[n] = "compensate" => pc'[n] = "update"
      BY <1>1, <1>2, <1>8, Zenon DEF Compensate, Release, Fault, Goto, Return, TypeOK
    <2>0. /\ policy' = policy \/ policy' = Decremented(policy, Gen(n))
          /\ NoNewStatus
      BY <1>1, <2>2, StatusesStay, Zenon DEF Write, NoWrite
    <2>3. policy.recent => policy'.recent
      BY <1>1, <1>6, <2>0, <2>1, Zenon DEF Decremented, WithCount, TypeOK, Policies
    <2>4. Frame(n)
      BY <1>3, <1>4, <2>3, Zenon DEF Frame
    <2>5. ReconcileOK(n)'
      BY <1>3, <2>1, <2>2, Zenon DEF ReconcileOK
    <2>6. Holds(n)
      BY <2>1, Zenon DEF Holds, isLiveHolder
    <2>7. ~Holds(n)'
      BY <1>3, <2>1, <2>2, PredicateFacts, Zenon DEF Holds, isLiveHolder, FailedForGood
    <2>8. CASE policy' = policy
      BY <1>3, <1>5, <2>0, <2>4, <2>5, <2>7, <2>8, SameCountIsEnough, LocalStep
    <2>9. CASE policy' = Decremented(policy, Gen(n))
      BY <1>3, <1>5, <1>6, <2>0, <2>1, <2>4, <2>5, <2>6, <2>7, <2>9, GiveBack
    <2> QED BY <2>0, <2>8, <2>9, Zenon
  <1> QED BY <1>7, <1>8, Zenon

-----------------------------------------------------------------------------
(* The environment *)

\* Steps that change nothing the invariant is about but the grace window.
LEMMA IdleStep ==
    ASSUME SlotInvariant, TypeOK', UNCHANGED <<enactment, pc, instance, ready>>,
           policy'.count = policy.count, NoNewStatus,
           \/ policy.recent => policy'.recent
           \/ \A n \in Nodes : pc[n] \notin {"markClaimed", "compensate"}
    PROVE  SafeStep
  <1>1. ASSUME NEW n \in Nodes PROVE ready'[n] /\ EnactmentOK(n)' /\ ReconcileOK(n)'
    <2>1. ready[n] /\ EnactmentOK(n) /\ ReconcileOK(n)
      BY Zenon DEF SlotInvariant
    <2>2. EnactmentOK(n)'
      BY <2>1, SameEnactmentOK, Zenon
    <2>3. ReconcileOK(n)'
      BY <2>1, Zenon DEF ReconcileOK
    <2> QED BY <2>1, <2>2, <2>3, Zenon
  <1>2. CountersStayInBounds'
    BY Zenon DEF SlotInvariant, CountersStayInBounds, numberOfEnactments
  <1>3. HeldSlotsAreCounted'
    BY Zenon DEF SlotInvariant, HeldSlotsAreCounted, Holders, Holds, FailedForGood,
           isLiveHolder, Gen
  <1>4. BudgetStep
    <2>1. /\ [g \in Generations |-> Holders(g)]' = [g \in Generations |-> Holders(g)]
          /\ numberOfEnactments' = numberOfEnactments
      BY Zenon DEF Holders, Holds, FailedForGood, isLiveHolder, Gen, numberOfEnactments
    <2> QED BY <2>1, Zenon DEF BudgetStep, Budget!budgetVars
  <1>5. StatusesOK'
    BY Zenon DEF SlotInvariant, StatusesOK, NoNewStatus, Holds, FailedForGood,
           isLiveHolder, Gen
  <1> QED BY <1>1, <1>2, <1>3, <1>4, <1>5, Zenon DEF SafeStep, SlotInvariant

\* Edits, labels, watches, heartbeats and time keep the invariant.
LEMMA EnvironmentIsSafe ==
    ASSUME SafeFaults, SlotInvariant, TypeOK',
           \/ \E n \in Nodes : \/ HeartbeatExpires(n) \/ WatchBreaks(n)
                               \/ WatchRecovers(n) \/ OldList(n) \/ Relabel(n)
                               \/ ReadinessChanges(n)
           \/ GraceExpires
           \/ EditPolicy
           \/ UNCHANGED vars
    PROVE  SafeStep
  <1>1. TypeOK
    BY Zenon DEF SlotInvariant
  <1>2. ASSUME NEW n \in Nodes, HeartbeatExpires(n) PROVE SafeStep
    <2> DEFINE e == enactment[n]
               f == enactment'[n]
    <2>1. /\ isLiveHolder(e)
          /\ pc[n] = "down" /\ "longOutage" \in Faults
          /\ UNCHANGED <<policy, policyStatus, pc, instance, ready>>
          /\ f = [e EXCEPT !.fresh = FALSE]
          /\ \A m \in Nodes \ {n} : enactment'[m] = enactment[m]
      BY <1>1, <1>2, Zenon DEF HeartbeatExpires, Fault, SafeFaults, TypeOK
    <2>2. /\ f.gen = e.gen /\ f.exists = e.exists /\ f.conds = e.conds
          /\ f.retries = e.retries /\ ~f.fresh
      BY <1>1, <2>1 DEF TypeOK, Enactments
    <2>3. EnactmentOK(n) /\ ReconcileOK(n)
      BY Zenon DEF SlotInvariant
    <2>4. EnactmentOK(n)'
      BY <2>1, <2>2, <2>3, Zenon DEF EnactmentOK, Exhausted
    <2>5. ReconcileOK(n)'
      BY <2>1, Zenon DEF ReconcileOK
    <2>6. ~Holds(n)'
      BY <2>1, <2>2, PredicateFacts, Zenon DEF Holds, FailedForGood, isLiveHolder
    <2>7. Frame(n)
      BY <2>1, Zenon DEF Frame
    <2>8. EnoughSlots
      BY <2>1, NoWriteIsEnough, Zenon DEF NoWrite
    <2> QED BY <2>2, <2>4, <2>5, <2>6, <2>7, <2>8, LocalStep, Zenon
  <1>3. ASSUME NEW n \in Nodes,
               WatchBreaks(n) \/ WatchRecovers(n) \/ OldList(n) \/ Relabel(n)
        PROVE  SafeStep
    <2>1. UNCHANGED <<policy, policyStatus, enactment, pc, instance, ready>>
      BY <1>3, Zenon DEF WatchBreaks, WatchRecovers, OldList, Relabel
    <2> QED BY <1>1, <2>1, StatusesStay, IdleStep, Zenon
  <1>4. ASSUME NEW n \in Nodes, ReadinessChanges(n) PROVE SafeStep
    BY <1>4, Zenon DEF ReadinessChanges, Fault, SafeFaults
  <1>5. CASE GraceExpires
    <2>1. policy'.count = policy.count
      BY <1>1, <1>5, Zenon DEF GraceExpires, TypeOK, Policies
    <2>2. NoNewStatus
      BY <1>1, <1>5, StatusesStay, Zenon DEF GraceExpires
    <2> QED BY <1>5, <2>1, <2>2, IdleStep, Zenon DEF GraceExpires, SafeFaults
  <1>6. CASE EditPolicy
    <2>1. policy'.count = policy.count /\ policy'.recent = policy.recent
      BY <1>1, <1>6, Zenon DEF EditPolicy, Write, TypeOK, Policies
    <2>2. NoNewStatus
      BY <1>1, <1>6, StatusesStay, Zenon DEF EditPolicy
    <2> QED BY <1>6, <2>1, <2>2, IdleStep, Zenon DEF EditPolicy
  <1>7. CASE UNCHANGED vars
    BY <1>1, <1>7, StatusesStay, IdleStep, Zenon DEF vars
  <1> QED BY <1>2, <1>3, <1>4, <1>5, <1>6, <1>7

-----------------------------------------------------------------------------
(* The theorems *)

\* Nobody holds a slot at first.
LEMMA SlotInit ==
    ASSUME Init
    PROVE  SlotInvariant
  <1>1. TypeOK
    BY TypeInit, Zenon
  <1> USE DEF Init
  <1>2. ASSUME NEW n \in Nodes PROVE ready[n] /\ EnactmentOK(n) /\ ReconcileOK(n) /\ ~Holds(n)
    <2>1. enactment[n] = NoEnactment /\ pc[n] = "idle" /\ ready[n]
      OBVIOUS
    <2>2. /\ NoEnactment.gen = 0 /\ NoEnactment.conds = NoConditions
          /\ NoEnactment.fresh
          /\ \A g \in Generations : NoEnactment.retries[g] = 0
      BY Zenon DEF NoEnactment
    <2>3. EnactmentOK(n)
      BY <2>1, <2>2, ConditionFacts, PredicateFacts, Zenon DEF EnactmentOK, Exhausted
    <2>4. ReconcileOK(n)
      BY <2>1, Zenon DEF ReconcileOK
    <2>5. ~Holds(n)
      BY <2>1, <2>2, ConditionFacts, Zenon DEF Holds, FailedForGood, isLiveHolder
    <2> QED BY <2>1, <2>3, <2>4, <2>5, Zenon
  <1>3. \A g \in Generations : policy.count[g] = 0
    BY Zenon DEF NewPolicy
  <1>4. \A g \in Generations : Holders(g) = {}
    BY <1>2, Zenon DEF Holders
  <1>5. HeldSlotsAreCounted
    <2> SUFFICES ASSUME NEW g \in Generations
                 PROVE  Cardinality(Holders(g)) <= policy.count[g]
      BY Zenon DEF HeldSlotsAreCounted
    <2>1. Holders(g) = {} /\ policy.count[g] = 0
      BY <1>3, <1>4, Zenon
    <2>2. Cardinality(Holders(g)) = 0
      BY <2>1, FS_EmptySet, Zenon
    <2> QED BY <2>1, <2>2
  <1>6. numberOfEnactments \in 0..Cardinality(Nodes)
    BY NodesAssumption, FS_Subset, FS_CardinalityType DEF numberOfEnactments
  <1>7. CountersStayInBounds
    BY <1>3, <1>6, LimitAssumption DEF CountersStayInBounds
  <1>8. StatusesOK
    BY NoStatusFields, Zenon DEF StatusesOK
  <1> QED BY <1>1, <1>2, <1>5, <1>7, <1>8, Zenon DEF SlotInvariant

\* At first nobody takes part and nobody holds a slot.
LEMMA BudgetIsUnusedAtFirst ==
    ASSUME Init
    PROVE  Budget!BudgetInit
  <1>1. ASSUME NEW n \in Nodes PROVE ~enactment[n].exists /\ ~Holds(n)
    <2>1. enactment[n] = NoEnactment /\ pc[n] = "idle"
      BY DEF Init
    <2>2. ~NoEnactment.exists /\ NoEnactment.conds = NoConditions
      BY Zenon DEF NoEnactment
    <2> QED BY <2>1, <2>2, ConditionFacts, Zenon DEF Holds, FailedForGood, isLiveHolder
  <1>2. [g \in Generations |-> Holders(g)] = [g \in Generations |-> {}]
    BY <1>1, Zenon DEF Holders
  <1>3. numberOfEnactments = 0
    <2>1. {n \in Nodes : enactment[n].exists} = {}
      BY <1>1, Zenon
    <2> QED BY <2>1, FS_EmptySet, Zenon DEF numberOfEnactments
  <1> QED BY <1>2, <1>3, Zenon DEF Budget!BudgetInit

\* Every step keeps the invariant and implements the budget.
LEMMA SlotNext ==
    ASSUME SafeFaults, SlotInvariant, [Next]_vars
    PROVE  SafeStep
  <1>1. TypeOK'
    BY TypeNext, Zenon DEF SlotInvariant
  <1> QED
    BY <1>1, NotifyStepsAreSafe, QuietStepsAreSafe, EnactmentStepsAreSafe, Zenon,
       SlotStepsAreSafe, EnvironmentIsSafe
       DEF Next, HandlerStep, ReconcileStep, NodeEnvironment

\* The counters, the markers and the reconciles agree in every reachable
\* state: the inductive invariant the theorems below follow from.
THEOREM SlotInvariance ==
    ASSUME SafeFaults
    PROVE  Spec => []SlotInvariant
  <1>1. SlotInvariant /\ [Next]_vars => SlotInvariant'
    BY SlotNext, Zenon DEF SafeStep
  <1> QED BY <1>1, SlotInit, PTL DEF Spec

\* The handlers together implement the budget of maxUnavailable: in every
\* environment of SafeFaults each step of theirs is, seen through the nodes
\* that rely on a slot, one node taking a slot below the limit, one node
\* giving its slot back, a node joining the rollout, or nothing
\* (incrementUnavailableNodeCount, decrementUnavailableNodeCount,
\* AuditUnavailableSlots).
THEOREM HandlersImplementBudget ==
    ASSUME SafeFaults
    PROVE  Spec => ImplementsBudget
  <1>1. Init => Budget!BudgetInit
    BY BudgetIsUnusedAtFirst, Zenon
  <1>2. SlotInvariant /\ [Next]_vars => [Budget!BudgetNext]_(Budget!budgetVars)
    BY SlotNext, Zenon DEF SafeStep, BudgetStep
  <1> QED BY <1>1, <1>2, SlotInvariance, PTL DEF Spec, ImplementsBudget, Budget!BudgetSpec

\* No handler gives away the slot of another: in every environment of
\* SafeFaults, whatever the number of nodes, crashes and stale caches, every
\* slot a node relies on is counted (tryDecrementingUnavailableNodeCount,
\* AuditUnavailableSlots).
THEOREM SlotSafety ==
    ASSUME SafeFaults
    PROVE  Spec => []HeldSlotsAreCounted
  <1>1. SlotInvariant => HeldSlotsAreCounted
    BY Zenon DEF SlotInvariant
  <1> QED BY <1>1, SlotInvariance, PTL

\* maxUnavailable is respected: of every generation at most Limit nodes are
\* applying it or were broken by it (claimUnavailableSlot, Reconcile).
THEOREM MaxUnavailableIsRespected ==
    ASSUME SafeFaults
    PROVE  Spec => []MaxUnavailableRespected
  <1>1. ASSUME SlotInvariant PROVE MaxUnavailableRespected
    <2> SUFFICES ASSUME NEW g \in Generations
                 PROVE  Cardinality(Unavailable(g)) <= Limit(numberOfEnactments)
      BY Zenon DEF MaxUnavailableRespected
    <2>1. Unavailable(g) \subseteq Holders(g)
      <3> SUFFICES ASSUME NEW n \in Nodes, Gen(n) = g, pc[n] = "apply"
                   PROVE  Holds(n)
        BY Zenon DEF Unavailable, Holders, Holds
      <3>1. EnactmentOK(n) /\ ReconcileOK(n)
        BY <1>1, Zenon DEF SlotInvariant
      <3> QED BY <3>1, Zenon DEF EnactmentOK, ReconcileOK, Holds, isLiveHolder
    <2>2. /\ Cardinality(Unavailable(g)) \in Nat
          /\ Cardinality(Unavailable(g)) <= Cardinality(Holders(g))
      BY <2>1, HoldersAreFinite, FS_Subset, FS_CardinalityType, Zenon
    <2>3. /\ policy.count[g] \in Nat
          /\ Cardinality(Holders(g)) <= policy.count[g]
          /\ policy.count[g] <= Limit(numberOfEnactments)
      BY <1>1, Zenon DEF SlotInvariant, HeldSlotsAreCounted, CountersStayInBounds, TypeOK, Policies
    <2>4. Limit(numberOfEnactments) \in Nat
      BY NodesAssumption, FS_Subset, FS_CardinalityType, LimitAssumption DEF numberOfEnactments
    <2>5. Cardinality(Holders(g)) \in Nat
      BY HoldersAreFinite, Zenon
    <2>6. Cardinality(Unavailable(g)) <= policy.count[g]
      BY <2>2, <2>3, <2>5
    <2> QED BY <2>2, <2>3, <2>4, <2>6
  <1> QED BY <1>1, SlotInvariance, PTL

-----------------------------------------------------------------------------
(* No slot is lost *)

\* Where a reconcile is between two attempts to apply.
BetweenLabels == {"idle", "initialize", "fillIn", "finalizeInterrupted", "audit", "update"}

\* While nothing has gone wrong, the handler of n has not been restarted, its
\* cache is the policy, it gives up only when the retries are used up, and only
\* an apply that fails leaves it Progressing between two attempts.
LeakInv(n) ==
    LET e == enactment[n] IN
    /\ ~watch[n].broken
    /\ pc[n] \notin {"down", "startupAudit"}
    /\ pc[n] = "failed" /\ IsProgressing(e.conds) => Exhausted(e)
    /\ pc[n] \in BetweenLabels /\ IsProgressing(e.conds) => "applyError" \in Faults

\* Every counter is the number of slots that are relied on.
Exact == \A g \in Generations : policy.count[g] = Cardinality(Holders(g))

\* The inductive invariant of SlotsDoNotLeak, on top of SlotInvariant.
NoLeak == faults = 0 => Exact /\ \A n \in Nodes : LeakInv(n)

\* A node that relies on a slot still does after the step.
Keeps(n) == Holds(n) => Holds(n)' /\ Gen(n)' = Gen(n)

\* No fault occurs in a step after which none has occurred.
LEMMA NoFaultOccurs ==
    ASSUME TypeOK, faults' = 0
    PROVE  \A kind : ~Fault(kind)
  BY DEF TypeOK, Fault

\* Then none had occurred before it.
LEMMA NoFaultBefore ==
    ASSUME \A kind : ~Fault(kind), [Next]_vars
    PROVE  faults' = faults
  <1>1. ASSUME NEW n \in Nodes, HandlerStep(n) PROVE faults' = faults
    <2>1. CASE \/ NotifyPending(n) \/ AbortCheck(n) \/ NotifyProgressing(n)
               \/ NotifyFailedToConfigure(n) \/ NotifyRetrying(n) \/ NotifyFinalizing(n)
               \/ NotifySuccess(n) \/ FinalizeInterruptedApply(n)
      BY <2>1, Zenon DEF NotifyPending, AbortCheck, NotifyProgressing, NotifyFailedToConfigure,
         NotifyRetrying, NotifyFinalizing, NotifySuccess, FinalizeInterruptedApply, Notify,
         NoFault
    <2>2. CASE \/ Begin(n) \/ Claim(n) \/ AuditBlocked(n) \/ Compensate(n) \/ MidUpdate(n)
               \/ Apply(n)
      BY <2>2, Zenon DEF Begin, Claim, AuditBlocked, Compensate, MidUpdate, Apply,
         UpdatePolicyConditions, ComputeStatus, NoFault
    <2>3. CASE \/ Release(n) \/ ReleaseUnavailableSlotByAudit(n) \/ DeferredUpdate(n)
               \/ StartupAudit(n)
      BY <2>3, Zenon DEF Release, ReleaseUnavailableSlotByAudit, DeferredUpdate, StartupAudit,
         UpdatePolicyConditions, ComputeStatus, NoFault
    <2>4. CASE \/ Initialize(n) \/ FillIn(n) \/ IncrementRetryCount(n)
               \/ ReclaimInterruptedSlots(n)
      BY <2>4, Zenon DEF Initialize, FillIn, IncrementRetryCount, ReclaimInterruptedSlots,
         NoFault
    <2> QED BY <1>1, <2>1, <2>2, <2>3, <2>4, Zenon DEF HandlerStep, ReconcileStep
  <1>2. ASSUME NEW n \in Nodes, NodeEnvironment(n) PROVE faults' = faults
    BY <1>2, Zenon DEF NodeEnvironment, Crash, HeartbeatExpires, WatchBreaks, WatchRecovers,
       OldList, Relabel, ReadinessChanges
  <1>3. CASE GraceExpires \/ EditPolicy \/ UNCHANGED vars
    BY <1>3, Zenon DEF GraceExpires, EditPolicy, vars
  <1> QED BY <1>1, <1>2, <1>3, Zenon DEF Next

\* A reconcile that moves on with its enactment as it is keeps its slot.
LEMMA SameEnactmentKeeps ==
    ASSUME NEW n \in Nodes, enactment'[n] = enactment[n],
           pc[n] \notin {"markClaimed", "compensate", "release"}
    PROVE  Keeps(n)
  BY Zenon DEF Keeps, Holds, FailedForGood, isLiveHolder, Exhausted, Gen

\* So does one that says that it is Progressing.
LEMMA ProgressingKeeps ==
    ASSUME TypeOK, NEW n \in Nodes, NEW c, Marked(n, c), IsProgressing(c),
           IsFinalizing(c) => pc'[n] = "release"
    PROVE  Keeps(n)
  <1>1. enactment'[n].conds = c /\ enactment'[n].fresh /\ enactment'[n].gen = enactment[n].gen
    BY MarkedFields, Zenon
  <1> QED BY <1>1, Zenon DEF Keeps, Holds, isLiveHolder, Gen

\* The steps that write conditions, when no call fails.
LEMMA NotifiesDoNotLeak ==
    ASSUME SlotInvariant, NEW n \in Nodes, LeakInv(n), watch'[n] = watch[n],
           \A kind : ~Fault(kind),
           \/ NotifyPending(n) \/ AbortCheck(n) \/ NotifyProgressing(n)
           \/ NotifyFailedToConfigure(n) \/ NotifyRetrying(n) \/ NotifyFinalizing(n)
           \/ NotifySuccess(n) \/ FinalizeInterruptedApply(n)
    PROVE  LeakInv(n)' /\ Keeps(n)
  <1>1. TypeOK /\ EnactmentOK(n) /\ ReconcileOK(n)
    BY Zenon DEF SlotInvariant
  <1>2. pc[n] \in {"pending", "abortCheck", "success", "finalizeInterrupted"} => ~Holds(n)
    BY <1>1, PredicateFacts, Zenon
       DEF ReconcileOK, Holds, FailedForGood, isLiveHolder
  <1>3. ASSUME NEW c, Marked(n, c), ~IsProgressing(c),
               pc'[n] \in {"abortCheck", "audit", "update"}
        PROVE  LeakInv(n)'
    <2>1. enactment'[n].conds = c
      BY <1>1, <1>3, MarkedFields, Zenon
    <2>2. pc'[n] \notin {"down", "startupAudit", "failed"}
      BY <1>3, Zenon
    <2> QED BY <1>3, <2>1, <2>2, Zenon DEF LeakInv
  <1>4. CASE NotifyPending(n)
    <2>1. pc[n] = "pending" /\ Marked(n, SetPending) /\ pc'[n] = "abortCheck"
      BY <1>1, <1>4, GotoFields, Zenon DEF NotifyPending, Notify, Marked
    <2> QED BY <1>2, <1>3, <2>1, ConditionFacts, Zenon DEF Keeps
  <1>5. CASE AbortCheck(n)
    <2>1. /\ pc[n] = "abortCheck" /\ pc'[n] = "update"
          /\ Marked(n, SetAborted) \/ enactment' = enactment
      BY <1>1, <1>5, ReturnFields, Zenon DEF AbortCheck, Notify, Marked
    <2>2. CASE Marked(n, SetAborted)
      BY <1>2, <1>3, <2>1, <2>2, ConditionFacts, Zenon DEF Keeps
    <2>3. CASE enactment' = enactment
      <3>1. ~IsProgressing(enactment'[n].conds)
        BY <1>1, <2>1, <2>3, Zenon DEF ReconcileOK
      <3>2. pc'[n] \notin {"down", "startupAudit", "failed"}
        BY <2>1, Zenon
      <3> QED BY <1>2, <2>1, <3>1, <3>2, Zenon DEF LeakInv, Keeps
    <2> QED BY <2>1, <2>2, <2>3, Zenon
  <1>6. CASE NotifyProgressing(n)
    <2>1. Marked(n, SetProgressing) /\ pc'[n] \in {"midUpdate", "apply"}
      BY <1>1, <1>6, GotoFields, Zenon DEF NotifyProgressing, Notify, Marked
    <2>2. pc'[n] \notin BetweenLabels \cup {"down", "startupAudit", "failed"}
      BY <2>1, Zenon DEF BetweenLabels
    <2>3. LeakInv(n)'
      BY <2>2, Zenon DEF LeakInv
    <2> QED BY <1>1, <2>1, <2>3, ProgressingKeeps, ConditionFacts, Zenon
  <1>7. CASE NotifyFailedToConfigure(n)
    <2>1. pc[n] = "failed" /\ Marked(n, SetFailed) /\ pc'[n] = "update"
      BY <1>1, <1>7, ReturnFields, Zenon DEF NotifyFailedToConfigure, Notify, Marked
    <2>2. Holds(n) => Exhausted(enactment[n])
      BY <2>1, Zenon DEF Holds, FailedForGood, isLiveHolder, LeakInv
    <2>3. /\ enactment'[n].conds = SetFailed
          /\ enactment'[n].gen = enactment[n].gen
          /\ Exhausted(enactment'[n]) <=> Exhausted(enactment[n])
      BY <1>1, <2>1, MarkedFields, Zenon
    <2>4. Keeps(n)
      BY <2>2, <2>3, ConditionFacts, Zenon DEF Keeps, Holds, FailedForGood, Gen
    <2> QED BY <1>3, <2>1, <2>4, ConditionFacts, Zenon
  <1>8. CASE NotifyRetrying(n)
    <2>1. pc[n] = "retrying" /\ Marked(n, SetRetry) /\ pc'[n] = "update"
      BY <1>1, <1>8, ReturnFields, Zenon DEF NotifyRetrying, Notify, Marked
    <2>2. "applyError" \in Faults
      BY <1>1, <2>1, Zenon DEF ReconcileOK
    <2>3. LeakInv(n)'
      BY <2>1, <2>2, Zenon DEF LeakInv
    <2> QED BY <1>1, <2>1, <2>3, ProgressingKeeps, ConditionFacts, PredicateFacts, Zenon
  <1>9. CASE NotifyFinalizing(n)
    <2>1. Marked(n, SetFinalizing) /\ pc'[n] = "release"
      BY <1>1, <1>9, GotoFields, Zenon DEF NotifyFinalizing, Notify, Marked
    <2>2. pc'[n] \notin BetweenLabels \cup {"down", "startupAudit", "failed"}
      BY <2>1, Zenon DEF BetweenLabels
    <2>3. LeakInv(n)'
      BY <2>2, Zenon DEF LeakInv
    <2> QED BY <1>1, <2>1, <2>3, ProgressingKeeps, ConditionFacts, PredicateFacts, Zenon
  <1>10. CASE NotifySuccess(n)
    <2>1. pc[n] = "success" /\ Marked(n, SetSuccess) /\ pc'[n] = "update"
      BY <1>1, <1>10, ReturnFields, Zenon DEF NotifySuccess, Notify, Marked
    <2> QED BY <1>2, <1>3, <2>1, ConditionFacts, Zenon DEF Keeps
  <1>11. CASE FinalizeInterruptedApply(n)
    <2>1. pc[n] = "finalizeInterrupted" /\ Marked(n, SetSuccess) /\ pc'[n] = "audit"
      BY <1>1, <1>11, GotoFields, Zenon DEF FinalizeInterruptedApply, Notify, Marked
    <2> QED BY <1>2, <1>3, <2>1, ConditionFacts, Zenon DEF Keeps
  <1> QED BY <1>4, <1>5, <1>6, <1>7, <1>8, <1>9, <1>10, <1>11, Zenon

\* The steps that leave the enactment alone and take no slot.
LEMMA QuietStepsDoNotLeak ==
    ASSUME SlotInvariant, NEW n \in Nodes, LeakInv(n), watch'[n] = watch[n],
           \/ Begin(n) \/ AuditBlocked(n) \/ MidUpdate(n) \/ Apply(n)
           \/ ReleaseUnavailableSlotByAudit(n) \/ DeferredUpdate(n)
    PROVE  LeakInv(n)' /\ Keeps(n) /\ EnoughSlots
  <1>1. TypeOK /\ EnactmentOK(n) /\ ReconcileOK(n)
    BY Zenon DEF SlotInvariant
  <1>2. /\ enactment' = enactment
        /\ pc[n] \in {"idle", "auditBlocked", "midUpdate", "apply", "audit", "update"}
    BY Zenon DEF Begin, AuditBlocked, MidUpdate, Apply, ReleaseUnavailableSlotByAudit,
       DeferredUpdate
  <1>3. Keeps(n)
    <2>1. pc[n] \notin {"markClaimed", "compensate", "release"}
      BY <1>2, Zenon
    <2> QED BY <1>2, <2>1, SameEnactmentKeeps, Zenon
  <1>4. \/ pc'[n] \in {"claimAgain", "pending", "midUpdate", "apply", "finalizing", "retryCount"}
        \/ pc[n] \in BetweenLabels /\ pc'[n] \in {"initialize", "fillIn", "update", "idle"}
    <2>1. DeferredUpdate(n) => pc'[n] \in {"update", "idle"}
      BY <1>1, UpdateLabels, Zenon DEF DeferredUpdate
    <2>2. Begin(n) \/ ReleaseUnavailableSlotByAudit(n) \/ DeferredUpdate(n)
              => pc[n] \in BetweenLabels
      BY Zenon DEF Begin, ReleaseUnavailableSlotByAudit, DeferredUpdate, BetweenLabels
    <2> QED BY <1>1, <2>1, <2>2, QuietLabels, WriteLabels, Zenon
  <1>5. LeakInv(n)'
    <2>1. CASE pc'[n] \in {"claimAgain", "pending", "midUpdate", "apply", "finalizing",
                            "retryCount"}
      <3>1. pc'[n] \notin BetweenLabels \cup {"down", "startupAudit", "failed"}
        BY <2>1, Zenon DEF BetweenLabels
      <3> QED BY <3>1, Zenon DEF LeakInv
    <2>2. CASE pc[n] \in BetweenLabels /\ pc'[n] \in {"initialize", "fillIn", "update", "idle"}
      <3>1. pc'[n] \notin {"down", "startupAudit", "failed"}
        BY <2>2, Zenon
      <3> QED BY <1>2, <2>2, <3>1, Zenon DEF LeakInv
    <2> QED BY <1>4, <2>1, <2>2, Zenon
  <1>6. EnoughSlots
    <2>1. CASE Begin(n)
      <3>1. policy'.count = policy.count /\ NoNewStatus
        BY <1>1, <2>1, StatusesStay, Zenon DEF Begin, Write, NoWrite, TypeOK, Policies
      <3> QED BY <3>1, SameCountIsEnough, Zenon
    <2>2. CASE AuditBlocked(n) \/ ReleaseUnavailableSlotByAudit(n)
      <3>1. (AuditFindsGhosts /\ AuditRepair) \/ NoWrite
        BY <2>2, Zenon DEF AuditBlocked, ReleaseUnavailableSlotByAudit, Audit
      <3> QED BY <3>1, AuditIsSafe, NoWriteIsEnough, Zenon
    <2>3. CASE MidUpdate(n) \/ DeferredUpdate(n)
      BY <2>3, UpdateIsSafe, Zenon DEF MidUpdate, DeferredUpdate
    <2>4. CASE Apply(n)
      BY <2>4, NoWriteIsEnough, Zenon DEF Apply, NoWrite
    <2> QED BY <2>1, <2>2, <2>3, <2>4, Zenon
  <1> QED BY <1>3, <1>5, <1>6, Zenon

\* The steps that create, fill in or count, when no call fails.
LEMMA EnactmentStepsDoNotLeak ==
    ASSUME SafeFaults, SlotInvariant, TypeOK', NEW n \in Nodes, LeakInv(n),
           watch'[n] = watch[n], \A kind : ~Fault(kind),
           Initialize(n) \/ FillIn(n) \/ IncrementRetryCount(n)
    PROVE  LeakInv(n)' /\ Keeps(n)
  <1>1. TypeOK /\ EnactmentOK(n) /\ ReconcileOK(n)
    BY Zenon DEF SlotInvariant
  <1> DEFINE e == enactment[n]
             f == enactment'[n]
  <1>2. e \in Enactments /\ f \in Enactments
    BY <1>1, Zenon DEF TypeOK
  <1>3. CASE Initialize(n)
    <2>1. /\ pc[n] = "initialize" /\ pc'[n] = "fillIn"
          /\ f = [NoEnactment EXCEPT !.exists = TRUE, !.conds = UnknownConditions]
      BY <1>1, <1>3, GotoFields, Zenon DEF Initialize, TypeOK
    <2>2. f.conds = UnknownConditions
      BY <2>1, ZenonT(30) DEF NoEnactment
    <2>3. ~Holds(n)
      BY <1>1, <2>1, Zenon DEF ReconcileOK, EnactmentOK, Holds, FailedForGood, isLiveHolder
    <2>4. pc'[n] \notin {"down", "startupAudit", "failed"}
      BY <2>1, Zenon
    <2> QED BY <2>2, <2>3, <2>4, ConditionFacts, Zenon DEF LeakInv, Keeps
  <1>4. CASE FillIn(n)
    <2> DEFINE filled == resetPolicyGeneration(e, instance[n].gen)
    <2>1. /\ pc[n] = "fillIn" /\ e.exists /\ instance[n].gen # 0
          /\ f = filled /\ pc'[n] = Route(filled, e.conds)
      BY <1>1, <1>4, GotoFields, Zenon DEF FillIn, TypeOK, ReconcileOK
    <2>2. /\ f.gen = instance[n].gen
          /\ f.retries = e.retries
          /\ f.fresh = e.fresh
          /\ f.conds = IF e.gen # instance[n].gen THEN NoConditions ELSE e.conds
      BY <1>2, <2>1, Zenon DEF resetPolicyGeneration, Enactments
    <2>3. IsProgressing(e.conds) => "applyError" \in Faults
      BY <2>1, Zenon DEF LeakInv, BetweenLabels
    <2>4. Exhausted(f) => "applyError" \in Faults
      <3>1. instance[n].gen \in Generations
        BY <1>1, <2>1 DEF TypeOK, Instances, Generations
      <3>2. e.retries[f.gen] # 0 => "applyError" \in Faults
        BY <1>1, <2>2, <3>1, Zenon DEF EnactmentOK
      <3>3. f.retries[f.gen] = 0 => ~Exhausted(f)
        BY NoRetriesLeaveSome, Zenon
      <3> QED BY <2>2, <3>2, <3>3, Zenon
    <2>5. LeakInv(n)'
      <3>1. pc'[n] \in {"update", "audit", "finalizeInterrupted", "mark", "claim"}
        BY <2>1, Zenon DEF Route
      <3>2. pc'[n] \notin {"down", "startupAudit", "failed"}
        BY <3>1, Zenon
      <3>3. IsProgressing(f.conds) => "applyError" \in Faults
        BY <2>2, <2>3, ConditionFacts, Zenon
      <3> QED BY <3>2, <3>3, Zenon DEF LeakInv
    <2>6. CASE e.gen = f.gen
      <3>1. f.conds = e.conds /\ (Exhausted(f) <=> Exhausted(e))
        BY <2>2, <2>6, Zenon DEF Exhausted
      <3>2. Keeps(n)
        BY <2>1, <2>2, <2>6, <3>1, Zenon DEF Keeps, Holds, FailedForGood, isLiveHolder, Gen
      <3> QED BY <2>5, <3>2, Zenon
    <2>7. CASE e.gen # f.gen
      <3>1. "applyError" \in Faults => e.gen = 0
        <4>1. e.gen \in 0..MaxGeneration /\ f.gen \in 0..MaxGeneration /\ f.gen # 0
          BY <1>2, <2>1, <2>2, Zenon DEF Enactments
        <4> QED BY <2>7, <4>1 DEF SafeFaults
      <3>2. ~IsProgressing(e.conds)
        BY <1>1, <2>3, <3>1, Zenon DEF EnactmentOK
      <3>3. ~Exhausted(e)
        <4>1. \A g \in Generations : e.retries[g] = 0
          BY <1>1, <2>1, <2>2, <2>7, OtherGenerationIsNew, Zenon
        <4>2. e.gen # 0 => e.gen \in Generations
          BY <1>2 DEF Enactments, Generations
        <4> QED BY <4>1, <4>2, NoRetriesLeaveSome, Zenon
      <3>4. Keeps(n)
        BY <2>1, <3>2, <3>3, Zenon DEF Keeps, Holds, FailedForGood, isLiveHolder
      <3> QED BY <2>5, <3>4, Zenon
    <2> QED BY <2>6, <2>7, Zenon
  <1>5. CASE IncrementRetryCount(n)
    <2>1. /\ pc[n] = "retryCount"
          /\ IsProgressing(e.conds) /\ ~IsFinalizing(e.conds)
          /\ e.gen # 0
          /\ e.fresh
      BY <1>1, <1>5, Zenon DEF IncrementRetryCount, ReconcileOK, EnactmentOK
    <2>2. e.gen \in Generations
      <3>1. e.gen \in 0..MaxGeneration
        BY <1>2, Zenon DEF Enactments
      <3> QED BY <2>1, <3>1, BoundsAssumption DEF Generations
    <2>3. /\ f = [e EXCEPT !.retries[e.gen] = @ + 1]
          /\ pc'[n] = IF e.retries[e.gen] + 1 >= RetriesUntilFail THEN "failed" ELSE "retrying"
      BY <1>1, <1>5, GotoFields, Zenon DEF IncrementRetryCount, TypeOK, Gen
    <2>4. /\ f.gen = e.gen /\ f.fresh = e.fresh /\ f.conds = e.conds
          /\ f.retries[e.gen] = e.retries[e.gen] + 1
      BY <1>2, <2>2, <2>3, ZenonT(30) DEF Enactments
    <2>5. pc'[n] \in {"failed", "retrying"}
      BY <2>3, Zenon
    <2>6. pc'[n] = "failed" => Exhausted(f)
      BY <2>1, <2>3, <2>4, Zenon DEF Exhausted
    <2>7. pc'[n] \notin BetweenLabels \cup {"down", "startupAudit"}
      BY <2>5, Zenon DEF BetweenLabels
    <2>8. LeakInv(n)'
      BY <2>6, <2>7, Zenon DEF LeakInv
    <2>9. Keeps(n)
      BY <2>1, <2>4, Zenon DEF Keeps, Holds, isLiveHolder, Gen
    <2> QED BY <2>8, <2>9, Zenon
  <1> QED BY <1>3, <1>4, <1>5, Zenon

\* Others rely on the slots they relied on.
LEMMA OthersHoldOn ==
    ASSUME NEW m \in Nodes, pc'[m] = pc[m], enactment'[m] = enactment[m]
    PROVE  Gen(m)' = Gen(m) /\ Holds(m)' = Holds(m)
  BY Zenon DEF Gen, Holds, FailedForGood, isLiveHolder, Exhausted

\* The counters are exact when they do not exceed the holders: they are never
\* too low.
LEMMA NotTooHighIsExact ==
    ASSUME SlotInvariant', TypeOK',
           \A g \in Generations : policy'.count[g] <= Cardinality(Holders(g)')
    PROVE  Exact'
  <1> SUFFICES ASSUME NEW g \in Generations
               PROVE  policy'.count[g] = Cardinality(Holders(g)')
    BY Zenon DEF Exact
  <1>1. /\ policy'.count[g] \in Nat
        /\ Cardinality(Holders(g)') <= policy'.count[g]
    BY Zenon DEF SlotInvariant, HeldSlotsAreCounted, TypeOK, Policies
  <1>2. Cardinality(Holders(g)') \in Nat /\ policy'.count[g] <= Cardinality(Holders(g)')
    BY HoldersAreFinite, Zenon
  <1> QED BY <1>1, <1>2

\* A step that raises no counter and after which every holder still is one.
LEMMA KeepingIsExact ==
    ASSUME SlotInvariant, SlotInvariant', Exact, \A m \in Nodes : Keeps(m),
           \A g \in Generations : policy'.count[g] <= policy.count[g]
    PROVE  Exact'
  <1> SUFFICES ASSUME NEW g \in Generations
               PROVE  policy'.count[g] <= Cardinality(Holders(g)')
    BY NotTooHighIsExact, Zenon DEF SlotInvariant
  <1>1. Holders(g) \subseteq Holders(g)'
    BY Zenon DEF Holders, Keeps
  <1>2. /\ Cardinality(Holders(g)) <= Cardinality(Holders(g)')
        /\ Cardinality(Holders(g)) \in Nat
        /\ Cardinality(Holders(g)') \in Nat
    BY <1>1, HoldersAreFinite, FS_Subset, Zenon
  <1>3. policy.count[g] = Cardinality(Holders(g))
    BY Zenon DEF Exact
  <1>4. policy'.count[g] \in Nat
    BY Zenon DEF SlotInvariant, TypeOK, Policies
  <1>5. policy'.count[g] <= Cardinality(Holders(g))
    BY <1>3, Zenon
  <1> QED BY <1>2, <1>4, <1>5

\* A claim that is granted adds one slot and one holder.
LEMMA TakingIsExact ==
    ASSUME SlotInvariant, SlotInvariant', Exact, NEW n \in Nodes, enactment' = enactment,
           \A m \in Nodes \ {n} : pc'[m] = pc[m],
           Gen(n) \in Generations, ~Holds(n), Holds(n)',
           policy' = WithCount(policy, Gen(n), policy.count[Gen(n)] + 1)
    PROVE  Exact'
  <1> SUFFICES ASSUME NEW g \in Generations, NEW h \in Generations, h = Gen(n)
               PROVE  policy'.count[g] <= Cardinality(Holders(g)')
    BY NotTooHighIsExact, Zenon DEF SlotInvariant
  <1>1. policy \in Policies /\ policy.count[g] \in Nat
    BY Zenon DEF SlotInvariant, TypeOK, Policies
  <1>2. Gen(n)' = Gen(n) /\ \A m \in Nodes \ {n} : Gen(m)' = Gen(m) /\ Holds(m)' = Holds(m)
    BY OthersHoldOn, Zenon DEF Gen
  <1>3. policy.count[g] = Cardinality(Holders(g))
    BY Zenon DEF Exact
  <1>4. CASE g = h
    <2>1. n \notin Holders(g) /\ Holders(g)' = Holders(g) \cup {n}
      BY <1>2, <1>4, Zenon DEF Holders
    <2>2. Cardinality(Holders(g)') = Cardinality(Holders(g)) + 1
      BY <2>1, HoldersAreFinite, FS_AddElement, Zenon
    <2>3. policy'.count[g] = policy.count[g] + 1
      BY <1>1, <1>4, Zenon DEF WithCount, Policies
    <2>4. policy'.count[g] = Cardinality(Holders(g)')
      BY <1>3, <2>2, <2>3, Zenon
    <2>5. Cardinality(Holders(g)') \in Nat
      BY HoldersAreFinite, Zenon
    <2> QED BY <2>4, <2>5, SameIsNoMore, Zenon
  <1>5. CASE g # h
    <2>1. Holders(g)' = Holders(g)
      BY <1>2, <1>5, Zenon DEF Holders
    <2>2. policy'.count[g] = policy.count[g]
      BY <1>1, <1>5, Zenon DEF WithCount, Policies
    <2>3. policy'.count[g] = Cardinality(Holders(g)')
      BY <1>3, <2>1, <2>2, Zenon
    <2>4. Cardinality(Holders(g)') \in Nat
      BY HoldersAreFinite, Zenon
    <2> QED BY <2>3, <2>4, SameIsNoMore, Zenon
  <1> QED BY <1>4, <1>5, Zenon

\* A release takes one slot and one holder away.
LEMMA GivingBackIsExact ==
    ASSUME SlotInvariant, SlotInvariant', Exact, NEW n \in Nodes, enactment' = enactment,
           \A m \in Nodes \ {n} : pc'[m] = pc[m],
           Gen(n) \in Generations, Holds(n), ~Holds(n)',
           policy' = Decremented(policy, Gen(n))
    PROVE  Exact'
  <1> SUFFICES ASSUME NEW g \in Generations, NEW h \in Generations, h = Gen(n)
               PROVE  policy'.count[g] <= Cardinality(Holders(g)')
    BY NotTooHighIsExact, Zenon DEF SlotInvariant
  <1>1. policy \in Policies /\ policy.count[g] \in Nat
    BY Zenon DEF SlotInvariant, TypeOK, Policies
  <1>2. Gen(n)' = Gen(n) /\ \A m \in Nodes \ {n} : Gen(m)' = Gen(m) /\ Holds(m)' = Holds(m)
    BY OthersHoldOn, Zenon DEF Gen
  <1>3. policy.count[g] = Cardinality(Holders(g))
    BY Zenon DEF Exact
  <1>4. CASE g = h
    <2>1. n \in Holders(g) /\ Holders(g)' = Holders(g) \ {n}
      BY <1>2, <1>4, Zenon DEF Holders
    <2>2. Cardinality(Holders(g)') = Cardinality(Holders(g)) - 1
      BY <2>1, HoldersAreFinite, FS_RemoveElement, Zenon
    <2>3. policy.count[g] # 0
      BY <1>3, <2>1, HoldersAreFinite, FS_EmptySet, Zenon
    <2>4. policy'.count[g] = policy.count[g] - 1
      BY <1>1, <1>4, <2>3, Zenon DEF Decremented, WithCount, Policies
    <2>5. policy'.count[g] = Cardinality(Holders(g)')
      BY <1>3, <2>2, <2>4, Zenon
    <2>6. Cardinality(Holders(g)') \in Nat
      BY HoldersAreFinite, Zenon
    <2> QED BY <2>5, <2>6, SameIsNoMore, Zenon
  <1>5. CASE g # h
    <2>1. Holders(g)' = Holders(g)
      BY <1>2, <1>5, Zenon DEF Holders
    <2>2. policy'.count[g] = policy.count[g]
      BY <1>1, <1>5, Zenon DEF Decremented, WithCount, Policies
    <2>3. policy'.count[g] = Cardinality(Holders(g)')
      BY <1>3, <2>1, <2>2, Zenon
    <2>4. Cardinality(Holders(g)') \in Nat
      BY HoldersAreFinite, Zenon
    <2> QED BY <2>3, <2>4, SameIsNoMore, Zenon
  <1> QED BY <1>4, <1>5, Zenon

\* The steps that claim and release, when no call fails: a cache that is the
\* policy lets every release find the slot it gives back.
LEMMA SlotStepsDoNotLeak ==
    ASSUME SlotInvariant, SlotInvariant', Exact, NEW n \in Nodes, LeakInv(n),
           watch'[n] = watch[n], \A kind : ~Fault(kind),
           \A m \in Nodes \ {n} : pc'[m] = pc[m],
           Claim(n) \/ Compensate(n) \/ Release(n)
    PROVE  LeakInv(n)' /\ Exact'
  <1>1. TypeOK /\ EnactmentOK(n) /\ ReconcileOK(n)
    BY Zenon DEF SlotInvariant
  <1>2. enactment' = enactment
    BY Zenon DEF Claim, Compensate, Release
  <1>3. Gen(n) # 0 => Gen(n) \in Generations
    BY <1>1 DEF Gen, TypeOK, Enactments, Generations
  <1>4. \A g \in Generations : policy.count[g] \in Nat
    BY <1>1, Zenon DEF TypeOK, Policies
  <1>5. CASE Claim(n)
    <2>1. /\ pc[n] \in {"claim", "claimAgain"}
          /\ \/ policy' = policy /\ pc'[n] \in {"failed", "auditBlocked", "pending"}
             \/ /\ policy' = WithCount(policy, Gen(n), policy.count[Gen(n)] + 1)
                /\ pc'[n] = "markClaimed"
      BY <1>1, <1>5, GotoFields, Zenon DEF Claim, Write, NoWrite
    <2>2. ~Holds(n) /\ Gen(n) # 0 /\ ~IsProgressing(enactment'[n].conds)
      BY <1>1, <1>2, <2>1, Zenon DEF ReconcileOK, Holds, FailedForGood, isLiveHolder, Gen
    <2>3. LeakInv(n)'
      <3>1. pc'[n] \in {"failed", "auditBlocked", "pending", "markClaimed"}
        BY <2>1, Zenon
      <3>2. pc'[n] \notin {"down", "startupAudit"}
        BY <3>1, Zenon
      <3> QED BY <2>2, <3>2, Zenon DEF LeakInv
    <2>4. CASE policy' = policy
      <3>1. \A m \in Nodes : Keeps(m)
        BY <1>2, <2>2, OthersHoldOn, Zenon DEF Keeps
      <3>2. \A g \in Generations : policy'.count[g] <= policy.count[g]
        BY <1>4, <2>4, SameIsNoMore, Zenon
      <3> QED BY <2>3, <3>1, <3>2, KeepingIsExact, Zenon
    <2>5. CASE /\ policy' = WithCount(policy, Gen(n), policy.count[Gen(n)] + 1)
               /\ pc'[n] = "markClaimed"
      <3>1. Holds(n)'
        BY <2>5, Zenon DEF Holds
      <3> QED BY <1>2, <1>3, <2>2, <2>3, <2>5, <3>1, TakingIsExact, Zenon
    <2> QED BY <2>1, <2>4, <2>5, Zenon
  <1>6. CASE Compensate(n) \/ Release(n)
    <2>1. /\ pc[n] \in {"compensate", "release"}
          /\ pc[n] = "compensate" => ~IsProgressing(enactment[n].conds) /\ ~Exhausted(enactment[n])
          /\ pc[n] = "release" => /\ IsFinalizing(enactment[n].conds)
                                  /\ IsProgressing(enactment[n].conds)
                                  /\ enactment[n].fresh
          /\ Gen(n) # 0
      BY <1>1, <1>6, PredicateFacts, Zenon
         DEF Compensate, Release, ReconcileOK, EnactmentOK, Gen
    <2>2. Holds(n)
      BY <2>1, Zenon DEF Holds, isLiveHolder
    <2>3. policy.count[Gen(n)] # 0
      <3> SUFFICES ASSUME NEW g \in Generations, g = Gen(n) PROVE policy.count[g] # 0
        BY <1>3, <2>1, Zenon
      <3>1. n \in Holders(g) /\ policy.count[g] = Cardinality(Holders(g))
        BY <2>2, Zenon DEF Holders, Exact
      <3> QED BY <3>1, HoldersAreFinite, FS_EmptySet, Zenon
    <2>4. Cached(n).count[Gen(n)] # 0
      BY <2>3, Zenon DEF Cached, LeakInv
    <2>5. /\ policy' = Decremented(policy, Gen(n))
          /\ \/ pc[n] = "compensate" /\ pc'[n] = "update"
             \/ pc[n] = "release" /\ pc'[n] = "success"
      BY <1>1, <1>6, <2>4, GotoFields, ReturnFields, Zenon DEF Compensate, Release, Write
    <2>6. ~Holds(n)'
      BY <1>2, <2>1, <2>5, PredicateFacts, Zenon DEF Holds, isLiveHolder, FailedForGood
    <2>7. LeakInv(n)'
      <3>1. CASE pc[n] = "compensate" /\ pc'[n] = "update"
        BY <1>2, <2>1, <3>1, Zenon DEF LeakInv
      <3>2. CASE pc'[n] = "success"
        <4>1. pc'[n] \notin BetweenLabels \cup {"down", "startupAudit", "failed"}
          BY <3>2, Zenon DEF BetweenLabels
        <4> QED BY <4>1, Zenon DEF LeakInv
      <3> QED BY <2>5, <3>1, <3>2, Zenon
    <2> QED BY <1>2, <1>3, <2>1, <2>2, <2>5, <2>6, <2>7, GivingBackIsExact, Zenon
  <1> QED BY <1>5, <1>6, Zenon

\* Of a node to which nothing happens everything stays.
LEMMA UntouchedDoesNotLeak ==
    ASSUME NEW m \in Nodes, LeakInv(m), pc'[m] = pc[m], enactment'[m] = enactment[m],
           watch'[m].broken => watch[m].broken
    PROVE  LeakInv(m)' /\ Keeps(m)
  <1>1. LeakInv(m)'
    BY Zenon DEF LeakInv
  <1> QED BY <1>1, OthersHoldOn, Zenon DEF Keeps

\* No step loses a slot as long as nothing goes wrong.
LEMMA LeakNext ==
    ASSUME SafeFaults, SlotInvariant, NoLeak, [Next]_vars
    PROVE  NoLeak'
  <1> SUFFICES ASSUME faults' = 0 PROVE Exact' /\ \A n \in Nodes : LeakInv(n)'
    BY Zenon DEF NoLeak
  <1>1. TypeOK /\ TypeOK' /\ SlotInvariant'
    BY TypeNext, SlotNext, Zenon DEF SlotInvariant, SafeStep
  <1>2. \A kind : ~Fault(kind)
    BY <1>1, NoFaultOccurs, Zenon
  <1>3. Exact /\ \A n \in Nodes : LeakInv(n)
    BY <1>2, NoFaultBefore, Zenon DEF NoLeak
  <1>4. ASSUME NEW n \in Nodes, HandlerStep(n)
        PROVE  Exact' /\ \A m \in Nodes : LeakInv(m)'
    <2>1. watch' = watch
      BY <1>1, <1>4, HandlerKeepsWatch, Zenon
    <2>2. \A m \in Nodes \ {n} : pc'[m] = pc[m] /\ enactment'[m] = enactment[m]
      BY <1>1, <1>4, StepsAreLocal, Zenon
    <2>3. \A m \in Nodes \ {n} : LeakInv(m)' /\ Keeps(m)
      BY <1>3, <2>1, <2>2, UntouchedDoesNotLeak, Zenon
    <2>4. CASE Claim(n) \/ Compensate(n) \/ Release(n)
      <3>1. LeakInv(n)' /\ Exact'
        BY <1>1, <1>2, <1>3, <2>1, <2>2, <2>4, SlotStepsDoNotLeak, Zenon
      <3> QED BY <2>3, <3>1, Zenon
    <2>5. ~ReclaimInterruptedSlots(n) /\ ~StartupAudit(n)
      BY <1>3, Zenon DEF LeakInv, ReclaimInterruptedSlots, StartupAudit
    <2>6. CASE ~(Claim(n) \/ Compensate(n) \/ Release(n))
      <3>1. LeakInv(n)' /\ Keeps(n) /\ EnoughSlots
        <4>1. CASE \/ Begin(n) \/ AuditBlocked(n) \/ MidUpdate(n) \/ Apply(n)
                   \/ ReleaseUnavailableSlotByAudit(n) \/ DeferredUpdate(n)
          BY <1>3, <2>1, <4>1, QuietStepsDoNotLeak, Zenon
        <4>2. CASE Initialize(n) \/ FillIn(n) \/ IncrementRetryCount(n)
          <5>1. NoWrite
            BY <4>2, Zenon DEF Initialize, FillIn, IncrementRetryCount, NoWrite
          <5> QED BY <1>1, <1>2, <1>3, <2>1, <4>2, <5>1, EnactmentStepsDoNotLeak,
                     NoWriteIsEnough, Zenon
        <4>3. CASE \/ NotifyPending(n) \/ AbortCheck(n) \/ NotifyProgressing(n)
                   \/ NotifyFailedToConfigure(n) \/ NotifyRetrying(n) \/ NotifyFinalizing(n)
                   \/ NotifySuccess(n) \/ FinalizeInterruptedApply(n)
          <5>1. NoWrite
            BY <4>3, Zenon DEF NotifyPending, AbortCheck, NotifyProgressing,
               NotifyFailedToConfigure, NotifyRetrying, NotifyFinalizing, NotifySuccess,
               FinalizeInterruptedApply, NoWrite
          <5> QED BY <1>2, <1>3, <2>1, <4>3, <5>1, NotifiesDoNotLeak, NoWriteIsEnough, Zenon
        <4> QED BY <1>4, <2>5, <2>6, <4>1, <4>2, <4>3, Zenon DEF HandlerStep, ReconcileStep
      <3>2. \A m \in Nodes : LeakInv(m)' /\ Keeps(m)
        BY <2>3, <3>1, Zenon
      <3>3. \A g \in Generations : policy'.count[g] <= policy.count[g]
        BY <3>1, Zenon DEF EnoughSlots
      <3> QED BY <1>1, <1>3, <3>2, <3>3, KeepingIsExact, Zenon
    <2> QED BY <2>4, <2>6, Zenon
  <1>5. ASSUME UNCHANGED <<enactment, pc>>, policy'.count = policy.count,
               \A m \in Nodes : watch'[m].broken => watch[m].broken
        PROVE  Exact' /\ \A m \in Nodes : LeakInv(m)'
    <2>1. \A m \in Nodes : LeakInv(m)' /\ Keeps(m)
      BY <1>3, <1>5, UntouchedDoesNotLeak, Zenon
    <2>2. \A g \in Generations : policy.count[g] \in Nat
      BY <1>1, Zenon DEF TypeOK, Policies
    <2>3. \A g \in Generations : policy'.count[g] <= policy.count[g]
      BY <1>5, <2>2, SameIsNoMore, Zenon
    <2> QED BY <1>1, <1>3, <2>1, <2>3, KeepingIsExact, Zenon
  <1>6. ASSUME NEW n \in Nodes, NodeEnvironment(n)
        PROVE  Exact' /\ \A m \in Nodes : LeakInv(m)'
    <2>1. Relabel(n)
      BY <1>2, <1>3, <1>6, Zenon DEF NodeEnvironment, Crash, HeartbeatExpires, WatchBreaks,
         WatchRecovers, OldList, ReadinessChanges, LeakInv
    <2> QED BY <1>5, <2>1, Zenon DEF Relabel
  <1>7. CASE GraceExpires \/ EditPolicy
    <2>1. policy'.count = policy.count
      BY <1>1, <1>7, Zenon DEF GraceExpires, EditPolicy, Write, TypeOK, Policies
    <2> QED BY <1>5, <1>7, <2>1, Zenon DEF GraceExpires, EditPolicy
  <1>8. CASE UNCHANGED vars
    BY <1>5, <1>8, Zenon DEF vars
  <1> QED BY <1>4, <1>6, <1>7, <1>8, Zenon DEF Next

\* At first no slot is in use.
LEMMA LeakInit == ASSUME Init PROVE NoLeak
  <1>1. ASSUME NEW n \in Nodes PROVE LeakInv(n) /\ ~Holds(n)
    <2>1. enactment[n] = NoEnactment /\ pc[n] = "idle" /\ watch[n] = LiveCache
      BY DEF Init
    <2>2. NoEnactment.conds = NoConditions
      BY Zenon DEF NoEnactment
    <2>3. ~LiveCache.broken
      BY DEF LiveCache
    <2>4. ~IsProgressing(enactment[n].conds) /\ ~IsTerminallyFailed(enactment[n].conds)
      BY <2>1, <2>2, ConditionFacts, Zenon
    <2> QED BY <2>1, <2>3, <2>4, Zenon DEF LeakInv, Holds, FailedForGood, isLiveHolder
  <1>2. ASSUME NEW g \in Generations PROVE policy.count[g] = Cardinality(Holders(g))
    <2>1. Holders(g) = {}
      BY <1>1, Zenon DEF Holders
    <2>2. policy.count[g] = 0
      BY Zenon DEF Init, NewPolicy
    <2> QED BY <2>1, <2>2, FS_EmptySet, Zenon
  <1> QED BY <1>1, <1>2, Zenon DEF NoLeak, Exact

\* Without a fault no slot is ever lost, in every environment of SafeFaults and
\* whatever the number of nodes, edits and failing applies: every counter is the
\* number of nodes that rely on it, so that the audit has nothing to repair
\* (claimUnavailableSlot, decrementUnavailableNodeCount, setPolicyStatus).
THEOREM NoSlotLeaks ==
    ASSUME SafeFaults
    PROVE  Spec => []SlotsDoNotLeak
  <1>1. SlotInvariant /\ NoLeak /\ [Next]_vars => NoLeak'
    BY LeakNext, Zenon
  <1>2. NoLeak => SlotsDoNotLeak
    BY Zenon DEF NoLeak, Exact, SlotsDoNotLeak
  <1> QED BY <1>1, <1>2, LeakInit, SlotInvariance, PTL DEF Spec

=============================================================================
