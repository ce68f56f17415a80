-------------------------- MODULE NNCPFaultProofs --------------------------
(***************************************************************************)
(* What the handlers keep whatever faults occur, and however often: for    *)
(* every set of nodes, limit and bound on generations and retries.         *)
(***************************************************************************)
EXTENDS NNCPHandlerProofs

\* The steps of a reconcile after fillInEnactmentStatus.
FilledLabels ==
    {"claim", "claimAgain", "auditBlocked", "pending", "abortCheck", "mark", "markClaimed",
     "compensate", "midUpdate", "apply", "retryCount", "retrying", "failed", "finalizing",
     "release", "success", "finalizeInterrupted"}

\* Those that lead to an apply.
ApplyingLabels ==
    {"claim", "claimAgain", "auditBlocked", "mark", "markClaimed", "midUpdate", "apply"}

\* Those that write conditions which say that nothing is applied, or lead there.
\* A desired state that cannot be generated fails an applied enactment too.
IsUncommitted(label) ==
    \/ label \in ApplyingLabels \cup {"pending", "abortCheck", "retryCount", "retrying"}
    \/ label = "failed" /\ "generateError" \notin Faults

\* Where the reconcile of n is agrees with its enactment, under any fault.
NodeInv(n) ==
    LET e == enactment[n] IN
    /\ ~e.exists => e.gen = 0
    /\ e.gen = 0 => ~Committed(e)
    /\ IsAvailable(e.conds) => ~IsProgressing(e.conds)
    /\ pc[n] \in {"initialize", "fillIn"} => instance[n].gen # 0
    /\ pc[n] = "initialize" => ~e.exists
    /\ pc[n] = "fillIn" => e.exists
    /\ pc[n] \in FilledLabels => e.gen # 0
    /\ pc[n] \in ApplyingLabels => ~Exhausted(e)
    /\ IsUncommitted(pc[n]) => ~Committed(e)

\* The invariant: nodes do not share what it is about.
FaultInv == TypeOK /\ \A n \in Nodes : NodeInv(n)

\* What is applied stays applied.
StaysCommitted(n) ==
    Committed(enactment[n]) /\ Gen(n)' = Gen(n) => Committed(enactment'[n])

\* What every step does for n.
GoodStep(n) ==
    /\ NodeInv(n)'
    /\ enactment[n].exists => enactment'[n].exists
    /\ "generateError" \notin Faults => StaysCommitted(n)

-----------------------------------------------------------------------------
(* Steps of one node *)

\* Which conditions say that the desired state is applied.
LEMMA CommittedFacts ==
    ASSUME NEW e
    PROVE  /\ e.conds \in {NoConditions, UnknownConditions, SetAborted, SetPending, SetFailed,
                           SetRetry, SetProgressing} => ~Committed(e)
           /\ e.conds \in {SetFinalizing, SetSuccess} => Committed(e)
           /\ e.conds \in {NoConditions, UnknownConditions, SetAborted, SetPending, SetFailed,
                           SetRetry, SetProgressing, SetFinalizing, SetSuccess}
                  => (IsAvailable(e.conds) => ~IsProgressing(e.conds))
  BY ConditionFacts, PredicateFacts, Zenon DEF Committed

\* A node that nothing happens to.
LEMMA NothingHappens ==
    ASSUME NEW m \in Nodes, NodeInv(m), pc'[m] = pc[m], enactment'[m] = enactment[m],
           instance'[m] = instance[m]
    PROVE  GoodStep(m)
  <1>1. NodeInv(m)'
    BY Zenon DEF NodeInv, Committed, Exhausted
  <1> QED BY <1>1, Zenon DEF GoodStep, StaysCommitted, Committed

\* A step that leaves the enactment of n alone.
LEMMA SameEnactmentIsGood ==
    ASSUME NEW n \in Nodes, NodeInv(n), enactment'[n] = enactment[n],
           pc'[n] \in {"initialize", "fillIn"} => instance'[n].gen # 0,
           pc'[n] = "initialize" => ~enactment[n].exists,
           pc'[n] = "fillIn" => enactment[n].exists,
           pc'[n] \in FilledLabels => pc[n] \in FilledLabels,
           pc'[n] \in ApplyingLabels => pc[n] \in ApplyingLabels,
           IsUncommitted(pc'[n]) => IsUncommitted(pc[n])
    PROVE  GoodStep(n)
  <1>1. NodeInv(n)'
    BY Zenon DEF NodeInv, Committed, Exhausted, IsUncommitted
  <1> QED BY <1>1, Zenon DEF GoodStep, StaysCommitted, Committed

\* A write of the conditions, which may be lost.
LEMMA NotifyIsGood ==
    ASSUME TypeOK, NEW n \in Nodes, NEW c, NodeInv(n),
           Marked(n, c) \/ enactment' = enactment,
           pc[n] \in FilledLabels,
           pc'[n] \notin {"initialize", "fillIn"},
           pc'[n] \in ApplyingLabels => pc[n] \in ApplyingLabels,
           IsUncommitted(pc'[n]) => IsUncommitted(pc[n]),
           \/ c \in {SetFinalizing, SetSuccess} /\ ~IsUncommitted(pc'[n])
           \/ /\ c \in {SetAborted, SetPending, SetFailed, SetRetry, SetProgressing}
              /\ "generateError" \notin Faults => IsUncommitted(pc[n])
    PROVE  GoodStep(n)
  <1>1. CASE enactment' = enactment
    BY <1>1, SameEnactmentIsGood, Zenon
  <1>2. CASE Marked(n, c)
    <2>1. /\ enactment'[n].conds = c
          /\ enactment'[n].gen = enactment[n].gen
          /\ enactment'[n].exists = enactment[n].exists
          /\ Exhausted(enactment'[n]) <=> Exhausted(enactment[n])
      BY <1>2, MarkedFields, Zenon
    <2>2. enactment[n].gen # 0 /\ enactment[n].exists
      BY Zenon DEF NodeInv
    <2>3. CASE c \in {SetFinalizing, SetSuccess} /\ ~IsUncommitted(pc'[n])
      <3>1. Committed(enactment'[n])
        BY <2>1, <2>3, CommittedFacts, Zenon
      <3>2. NodeInv(n)'
        BY <2>1, <2>2, <2>3, CommittedFacts, Zenon DEF NodeInv
      <3> QED BY <2>1, <3>1, <3>2, Zenon DEF GoodStep, StaysCommitted
    <2>4. CASE /\ c \in {SetAborted, SetPending, SetFailed, SetRetry, SetProgressing}
               /\ "generateError" \notin Faults => IsUncommitted(pc[n])
      <3>1. ~Committed(enactment'[n])
        BY <2>1, <2>4, CommittedFacts, Zenon
      <3>2. NodeInv(n)'
        BY <2>1, <2>2, <2>4, <3>1, CommittedFacts, Zenon DEF NodeInv
      <3>3. "generateError" \notin Faults => ~Committed(enactment[n])
        BY <2>4, Zenon DEF NodeInv
      <3> QED BY <2>1, <3>2, <3>3, Zenon DEF GoodStep, StaysCommitted
    <2> QED BY <2>3, <2>4, Zenon
  <1> QED BY <1>1, <1>2, Zenon

\* The steps that write conditions.
LEMMA NotifyStepsAreGood ==
    ASSUME TypeOK, NEW n \in Nodes, NodeInv(n),
           \/ NotifyPending(n) \/ AbortCheck(n) \/ NotifyProgressing(n)
           \/ NotifyFailedToConfigure(n) \/ NotifyRetrying(n) \/ NotifyFinalizing(n)
           \/ NotifySuccess(n) \/ FinalizeInterruptedApply(n)
    PROVE  GoodStep(n)
  <1> USE DEF FilledLabels, ApplyingLabels, IsUncommitted
  <1>1. CASE NotifyPending(n)
    <2>1. /\ pc[n] = "pending" /\ pc'[n] \in {"pending", "abortCheck"}
          /\ Marked(n, SetPending) \/ enactment' = enactment
      BY <1>1, GotoFields, Zenon DEF NotifyPending, Notify, Marked
    <2> QED BY <2>1, NotifyIsGood, Zenon
  <1>2. CASE AbortCheck(n)
    <2>1. /\ pc[n] = "abortCheck" /\ pc'[n] \in {"update", "abortCheck"}
          /\ Marked(n, SetAborted) \/ enactment' = enactment
      BY <1>2, ReturnFields, Zenon DEF AbortCheck, Notify, Marked
    <2> QED BY <2>1, NotifyIsGood, Zenon
  <1>3. CASE NotifyProgressing(n)
    <2>1. /\ pc[n] \in {"mark", "markClaimed"}
          /\ pc'[n] = pc[n] \/ pc'[n] \in {"midUpdate", "apply", "compensate", "update"}
          /\ Marked(n, SetProgressing) \/ enactment' = enactment
      BY <1>3, GotoFields, ReturnFields, Zenon DEF NotifyProgressing, Notify, Marked
    <2> QED BY <2>1, NotifyIsGood, Zenon
  <1>4. CASE NotifyFailedToConfigure(n)
    <2>1. /\ pc[n] = "failed" /\ pc'[n] \in {"failed", "update"}
          /\ Marked(n, SetFailed) \/ enactment' = enactment
      BY <1>4, ReturnFields, Zenon DEF NotifyFailedToConfigure, Notify, Marked
    <2> QED BY <2>1, NotifyIsGood, Zenon
  <1>5. CASE NotifyRetrying(n)
    <2>1. /\ pc[n] = "retrying" /\ pc'[n] \in {"retrying", "update"}
          /\ Marked(n, SetRetry) \/ enactment' = enactment
      BY <1>5, ReturnFields, Zenon DEF NotifyRetrying, Notify, Marked
    <2> QED BY <2>1, NotifyIsGood, Zenon
  <1>6. CASE NotifyFinalizing(n)
    <2>1. /\ pc[n] = "finalizing" /\ pc'[n] \in {"finalizing", "release", "update"}
          /\ Marked(n, SetFinalizing) \/ enactment' = enactment
      BY <1>6, GotoFields, ReturnFields, Zenon DEF NotifyFinalizing, Notify, Marked
    <2> QED BY <2>1, NotifyIsGood, Zenon
  <1>7. CASE NotifySuccess(n)
    <2>1. /\ pc[n] = "success" /\ pc'[n] \in {"success", "update"}
          /\ Marked(n, SetSuccess) \/ enactment' = enactment
      BY <1>7, ReturnFields, Zenon DEF NotifySuccess, Notify, Marked
    <2> QED BY <2>1, NotifyIsGood, Zenon
  <1>8. CASE FinalizeInterruptedApply(n)
    <2>1. /\ pc[n] = "finalizeInterrupted"
          /\ pc'[n] \in {"finalizeInterrupted", "audit", "update"}
          /\ Marked(n, SetSuccess) \/ enactment' = enactment
      BY <1>8, GotoFields, ReturnFields, Zenon DEF FinalizeInterruptedApply, Notify, Marked
    <2> QED BY <2>1, NotifyIsGood, Zenon
  <1> QED BY <1>1, <1>2, <1>3, <1>4, <1>5, <1>6, <1>7, <1>8, Zenon

\* The steps that leave the enactment alone.
LEMMA QuietStepsAreGood ==
    ASSUME TypeOK, NEW n \in Nodes, NodeInv(n),
           \/ Begin(n) \/ Claim(n) \/ AuditBlocked(n) \/ Compensate(n) \/ MidUpdate(n)
           \/ Apply(n) \/ Release(n) \/ ReleaseUnavailableSlotByAudit(n)
           \/ DeferredUpdate(n) \/ Crash(n) \/ StartupAudit(n)
    PROVE  GoodStep(n)
  <1> USE DEF FilledLabels, ApplyingLabels, IsUncommitted
  <1>1. CASE Begin(n)
    <2>1. /\ pc'[n] = IF enactment[n].exists THEN "fillIn" ELSE "initialize"
          /\ instance'[n] = [gen |-> Cached(n).gen, unknown |-> IsUnknown(Cached(n).cond)]
          /\ enactment' = enactment
      BY <1>1, Zenon DEF Begin, TypeOK
    <2>2. Cached(n).gen \in Generations
      BY Zenon DEF Cached, TypeOK, Caches, Policies
    <2>3. instance'[n].gen # 0
      <3>1. instance'[n].gen = Cached(n).gen
        BY <2>1
      <3> QED BY <2>2, <3>1 DEF Generations
    <2> QED BY <2>1, <2>3, SameEnactmentIsGood, Zenon
  <1>2. CASE Claim(n)
    <2>1. /\ pc[n] \in {"claim", "claimAgain"} /\ enactment' = enactment
          /\ \/ pc'[n] = pc[n]
             \/ pc'[n] \in {"failed", "auditBlocked", "pending", "markClaimed", "update"}
      BY <1>2, GotoFields, ReturnFields, Zenon DEF Claim
    <2> QED BY <2>1, SameEnactmentIsGood, Zenon
  <1>3. CASE AuditBlocked(n)
    <2>1. /\ pc[n] = "auditBlocked" /\ pc'[n] \in {"claimAgain", "pending"}
          /\ enactment' = enactment
      BY <1>3, GotoFields, Zenon DEF AuditBlocked
    <2> QED BY <2>1, SameEnactmentIsGood, Zenon
  <1>4. CASE Compensate(n)
    <2>1. pc[n] = "compensate" /\ pc'[n] \in {"compensate", "update"} /\ enactment' = enactment
      BY <1>4, ReturnFields, Zenon DEF Compensate
    <2> QED BY <2>1, SameEnactmentIsGood, Zenon
  <1>5. CASE MidUpdate(n)
    <2>1. pc[n] = "midUpdate" /\ enactment' = enactment
      BY <1>5, Zenon DEF MidUpdate
    <2>2. pc'[n] \in {"midUpdate", "apply"}
      BY <1>5, <2>1, UpdateLabels, Zenon DEF MidUpdate
    <2> QED BY <2>1, <2>2, SameEnactmentIsGood, Zenon
  <1>6. CASE Apply(n)
    <2>1. pc[n] = "apply" /\ pc'[n] \in {"finalizing", "retryCount"} /\ enactment' = enactment
      BY <1>6, GotoFields, Zenon DEF Apply
    <2> QED BY <2>1, SameEnactmentIsGood, Zenon
  <1>7. CASE Release(n)
    <2>1. /\ pc[n] = "release" /\ pc'[n] \in {"release", "success", "update"}
          /\ enactment' = enactment
      BY <1>7, GotoFields, ReturnFields, Zenon DEF Release
    <2> QED BY <2>1, SameEnactmentIsGood, Zenon
  <1>8. CASE ReleaseUnavailableSlotByAudit(n)
    <2>1. pc'[n] = "update" /\ enactment' = enactment
      BY <1>8, ReturnFields, Zenon DEF ReleaseUnavailableSlotByAudit
    <2> QED BY <2>1, SameEnactmentIsGood, Zenon
  <1>9. CASE DeferredUpdate(n)
    <2>1. pc[n] = "update" /\ enactment' = enactment
      BY <1>9, Zenon DEF DeferredUpdate
    <2>2. pc'[n] \in {"update", "idle"}
      BY <1>9, <2>1, UpdateLabels, Zenon DEF DeferredUpdate
    <2> QED BY <2>1, <2>2, SameEnactmentIsGood, Zenon
  <1>10. CASE Crash(n)
    <2>1. pc'[n] = "down" /\ enactment' = enactment
      BY <1>10, Zenon DEF Crash, TypeOK
    <2> QED BY <2>1, SameEnactmentIsGood, Zenon
  <1>11. CASE StartupAudit(n)
    <2>1. pc'[n] = "idle" /\ enactment' = enactment
      BY <1>11, StartFields, Zenon DEF StartupAudit
    <2> QED BY <2>1, SameEnactmentIsGood, Zenon
  <1> QED BY <1>1, <1>2, <1>3, <1>4, <1>5, <1>6, <1>7, <1>8, <1>9, <1>10, <1>11, Zenon

\* The enactment of n becomes f.
LEMMA Becomes ==
    ASSUME TypeOK, NEW n \in Nodes, NEW f, enactment' = [enactment EXCEPT ![n] = f]
    PROVE  enactment'[n] = f
  BY Zenon DEF TypeOK

\* The steps that change more of the enactment than its conditions.
LEMMA EnactmentStepsAreGood ==
    ASSUME TypeOK, TypeOK', NEW n \in Nodes, NodeInv(n),
           \/ Initialize(n) \/ FillIn(n) \/ IncrementRetryCount(n)
           \/ ReclaimInterruptedSlots(n) \/ HeartbeatExpires(n)
    PROVE  GoodStep(n)
  <1> USE DEF FilledLabels, ApplyingLabels, IsUncommitted
  <1> DEFINE e == enactment[n]
             f == enactment'[n]
  <1>1. e \in Enactments /\ f \in Enactments
    BY Zenon DEF TypeOK
  <1>2. CASE Initialize(n)
    <2>1. /\ pc[n] = "initialize" /\ ~e.exists /\ e.gen = 0 /\ ~Committed(e)
          /\ instance' = instance
      BY <1>2, Zenon DEF Initialize, NodeInv
    <2>2. CASE enactment' = enactment /\ pc'[n] = "update"
      BY <2>2, SameEnactmentIsGood, Zenon
    <2>3. CASE f.gen = 0 /\ f.conds \in {e.conds, UnknownConditions} /\ f.exists
               /\ pc'[n] \in {"fillIn", "update"}
      <3>1. ~Committed(f)
        BY <2>1, <2>3, CommittedFacts, Zenon DEF Committed
      <3>2. NodeInv(n)'
        BY <2>1, <2>3, <3>1, CommittedFacts, Zenon DEF NodeInv
      <3> QED BY <2>1, <3>2, Zenon DEF GoodStep, StaysCommitted
    <2>4. \/ enactment' = enactment /\ pc'[n] = "update"
          \/ f = [e EXCEPT !.exists = TRUE] /\ pc'[n] = "update"
          \/ /\ f = [NoEnactment EXCEPT !.exists = TRUE, !.conds = UnknownConditions]
             /\ pc'[n] = "fillIn"
      BY <1>2, GotoFields, ReturnFields, Zenon DEF Initialize, TypeOK
    <2>5. f = [e EXCEPT !.exists = TRUE] => f.gen = e.gen /\ f.conds = e.conds /\ f.exists
      BY <1>1, Zenon DEF Enactments
    <2>6. f = [NoEnactment EXCEPT !.exists = TRUE, !.conds = UnknownConditions]
              => f.gen = 0 /\ f.conds = UnknownConditions /\ f.exists
      BY Zenon DEF NoEnactment
    <2> QED BY <2>1, <2>2, <2>3, <2>4, <2>5, <2>6, Zenon
  <1>3. CASE FillIn(n)
    <2> DEFINE g == instance[n].gen
    <2>1. /\ pc[n] = "fillIn" /\ e.exists /\ g # 0
          /\ instance' = instance
      BY <1>3, Zenon DEF FillIn, NodeInv
    <2>2. \/ enactment' = enactment /\ pc'[n] = "update"
          \/ /\ f = resetPolicyGeneration(e, g)
             /\ \/ pc'[n] = Route(f, e.conds)
                \/ pc'[n] = "update"
                \/ pc'[n] = "failed" /\ "generateError" \in Faults
      BY <1>3, GotoFields, ReturnFields, Becomes, Zenon DEF FillIn, Fault
    <2>3. CASE enactment' = enactment /\ pc'[n] = "update"
      BY <2>3, SameEnactmentIsGood, Zenon
    <2>4. CASE /\ f = resetPolicyGeneration(e, g)
               /\ \/ pc'[n] = Route(f, e.conds)
                  \/ pc'[n] = "update"
                  \/ pc'[n] = "failed" /\ "generateError" \in Faults
      <3>1. /\ f.gen = g /\ f.exists = e.exists
            /\ e.gen = g => f.conds = e.conds
            /\ e.gen # g => f.conds = NoConditions
        BY <1>1, <2>4 DEF resetPolicyGeneration, Enactments
      <3>2. \/ pc'[n] \in {"update", "audit", "finalizeInterrupted"}
            \/ pc'[n] = "failed" /\ "generateError" \in Faults
            \/ /\ pc'[n] \in {"mark", "claim"}
               /\ ~Exhausted(f)
               /\ ~IsAvailable(f.conds) /\ ~IsFinalizing(f.conds)
        BY <2>4, Zenon DEF Route
      <3>3. NodeInv(n)'
        BY <2>1, <3>1, <3>2, ConditionFacts, Zenon DEF NodeInv, Committed
      <3>4. StaysCommitted(n)
        BY <3>1, Zenon DEF StaysCommitted, Gen, Committed
      <3> QED BY <3>1, <3>3, <3>4, Zenon DEF GoodStep
    <2> QED BY <2>2, <2>3, <2>4, Zenon
  <1>4. CASE IncrementRetryCount(n)
    <2>1. /\ pc[n] = "retryCount" /\ e.gen # 0 /\ e.exists /\ ~Committed(e)
          /\ instance' = instance
      BY <1>4, Zenon DEF IncrementRetryCount, NodeInv
    <2>2. /\ pc'[n] \in {"failed", "retrying", "update"}
          /\ f = e \/ f = [e EXCEPT !.retries[e.gen] = @ + 1]
      BY <1>4, GotoFields, ReturnFields, Zenon DEF IncrementRetryCount, TypeOK, Gen
    <2>3. f.gen = e.gen /\ f.exists = e.exists /\ f.conds = e.conds
      BY <1>1, <2>2, Zenon DEF Enactments
    <2>4. NodeInv(n)'
      BY <2>1, <2>2, <2>3, Zenon DEF NodeInv, Committed
    <2> QED BY <2>1, <2>3, <2>4, Zenon DEF GoodStep, StaysCommitted
  <1>5. CASE ReclaimInterruptedSlots(n)
    <2>1. \/ enactment' = enactment /\ pc'[n] = "idle"
          \/ IsProgressing(e.conds) /\ f = Recovered(e) /\ pc'[n] = "startupAudit"
      BY <1>5, GotoFields, StartFields, Becomes, Zenon DEF ReclaimInterruptedSlots
    <2>2. CASE enactment' = enactment /\ pc'[n] = "idle"
      BY <2>2, SameEnactmentIsGood, Zenon
    <2>3. CASE IsProgressing(e.conds) /\ f = Recovered(e) /\ pc'[n] = "startupAudit"
      <3>1. CASE IsFinalizing(e.conds)
        <4>1. f.conds = SetSuccess /\ f.gen = e.gen /\ f.exists = e.exists
          <5>1. f = WithConditions(e, SetSuccess)
            BY <2>3, <3>1, Zenon DEF Recovered
          <5> QED BY <1>1, <5>1, WithConditionsFields
        <4>2. Committed(f) /\ Committed(e)
          BY <3>1, <4>1, CommittedFacts, Zenon DEF Committed
        <4>3. NodeInv(n)'
          BY <2>3, <4>1, <4>2, CommittedFacts, Zenon DEF NodeInv
        <4> QED BY <4>1, <4>2, <4>3, Zenon DEF GoodStep, StaysCommitted
      <3>2. CASE ~IsFinalizing(e.conds)
        <4> DEFINE w == WithConditions(e, SetPending)
        <4>1. /\ w \in Enactments /\ w.gen = e.gen /\ w.exists = e.exists
              /\ w.conds = SetPending
          BY <1>1, ConditionListTypes, WithConditionsType, WithConditionsFields, Zenon
        <4>2. f.gen = e.gen /\ f.exists = e.exists /\ f.conds = SetPending
          BY <2>3, <3>2, <4>1 DEF Recovered, Interrupted, Enactments
        <4>3. ~Committed(f)
          BY <4>2, CommittedFacts, Zenon
        <4>4. NodeInv(n)'
          BY <2>3, <4>2, <4>3, CommittedFacts, Zenon DEF NodeInv
        <4>5. ~Committed(e)
          BY <2>3, <3>2, Zenon DEF Committed, NodeInv
        <4> QED BY <4>2, <4>4, <4>5, Zenon DEF GoodStep, StaysCommitted
      <3> QED BY <3>1, <3>2, Zenon
    <2> QED BY <2>1, <2>2, <2>3, Zenon
  <1>6. CASE HeartbeatExpires(n)
    <2>1. /\ pc'[n] = pc[n] /\ instance'[n] = instance[n]
          /\ f = [e EXCEPT !.fresh = FALSE]
      BY <1>6, Zenon DEF HeartbeatExpires, TypeOK
    <2>2. f.gen = e.gen /\ f.exists = e.exists /\ f.conds = e.conds /\ f.retries = e.retries
      BY <1>1, <2>1, Zenon DEF Enactments
    <2>3. NodeInv(n)'
      BY <2>1, <2>2, Zenon DEF NodeInv, Committed, Exhausted
    <2> QED BY <2>2, <2>3, Zenon DEF GoodStep, StaysCommitted, Committed
  <1> QED BY <1>2, <1>3, <1>4, <1>5, <1>6, Zenon

-----------------------------------------------------------------------------
(* Every step *)

\* A handler writes its own enactment only, and the environment of a node
\* touches no other.
LEMMA StepsAreLocal ==
    ASSUME TypeOK, NEW n \in Nodes, HandlerStep(n) \/ NodeEnvironment(n),
           NEW m \in Nodes \ {n}
    PROVE  pc'[m] = pc[m] /\ enactment'[m] = enactment[m] /\ instance'[m] = instance[m]
  <1>1. CASE \/ NotifyPending(n) \/ AbortCheck(n) \/ NotifyProgressing(n)
             \/ NotifyFailedToConfigure(n) \/ NotifyRetrying(n) \/ NotifyFinalizing(n)
             \/ NotifySuccess(n) \/ FinalizeInterruptedApply(n)
    BY <1>1, Zenon DEF NotifyPending, AbortCheck, NotifyProgressing, NotifyFailedToConfigure,
       NotifyRetrying, NotifyFinalizing, NotifySuccess, FinalizeInterruptedApply, Notify,
       Goto, Return, TypeOK
  <1>2. CASE Begin(n) \/ Claim(n) \/ AuditBlocked(n) \/ Compensate(n) \/ Apply(n)
    BY <1>2, Zenon DEF Begin, Claim, AuditBlocked, Compensate, Apply, Goto, Return, TypeOK
  <1>3. CASE Release(n) \/ ReleaseUnavailableSlotByAudit(n) \/ StartupAudit(n)
    BY <1>3, Zenon DEF Release, ReleaseUnavailableSlotByAudit, StartupAudit, StartControllers,
       Goto, Return, TypeOK
  <1>6. CASE MidUpdate(n) \/ DeferredUpdate(n)
    <2>1. enactment' = enactment /\ instance'[m] = instance[m]
      BY <1>6, Zenon DEF MidUpdate, DeferredUpdate, TypeOK
    <2>2. pc'[m] = pc[m]
      BY <1>6, UpdateLabels, Zenon DEF MidUpdate, DeferredUpdate
    <2> QED BY <2>1, <2>2, Zenon
  <1>4. CASE \/ Initialize(n) \/ FillIn(n) \/ IncrementRetryCount(n)
             \/ ReclaimInterruptedSlots(n)
    BY <1>4, Zenon DEF Initialize, FillIn, IncrementRetryCount, ReclaimInterruptedSlots,
       StartControllers, Goto, Return, TypeOK
  <1>5. CASE NodeEnvironment(n)
    BY <1>5, Zenon DEF NodeEnvironment, Crash, HeartbeatExpires, WatchBreaks, WatchRecovers,
       OldList, Relabel, ReadinessChanges, TypeOK
  <1> QED BY <1>1, <1>2, <1>3, <1>4, <1>5, <1>6, Zenon DEF HandlerStep, ReconcileStep

\* Every step is good for every node.
LEMMA EveryStepIsGood ==
    ASSUME FaultInv, [Next]_vars, NEW m \in Nodes
    PROVE  GoodStep(m)
  <1>1. TypeOK /\ TypeOK' /\ NodeInv(m)
    BY TypeNext, Zenon DEF FaultInv
  <1>2. ASSUME NEW n \in Nodes, HandlerStep(n) \/ NodeEnvironment(n) PROVE GoodStep(m)
    <2>1. CASE m # n
      BY <1>1, <1>2, <2>1, StepsAreLocal, NothingHappens, Zenon
    <2>2. CASE m = n /\ \/ WatchBreaks(n) \/ WatchRecovers(n) \/ OldList(n)
                        \/ Relabel(n) \/ ReadinessChanges(n)
      BY <1>1, <2>2, NothingHappens, Zenon
         DEF WatchBreaks, WatchRecovers, OldList, Relabel, ReadinessChanges
    <2>3. CASE m = n /\ ~(\/ WatchBreaks(n) \/ WatchRecovers(n) \/ OldList(n)
                          \/ Relabel(n) \/ ReadinessChanges(n))
      BY <1>1, <1>2, <2>3, NotifyStepsAreGood, QuietStepsAreGood, EnactmentStepsAreGood, Zenon
         DEF HandlerStep, ReconcileStep, NodeEnvironment
    <2> QED BY <2>1, <2>2, <2>3, Zenon
  <1>3. CASE GraceExpires \/ EditPolicy \/ UNCHANGED vars
    BY <1>1, <1>3, NothingHappens, Zenon DEF GraceExpires, EditPolicy, vars
  <1> QED BY <1>2, <1>3, Zenon DEF Next

\* The invariant holds in every reachable state.
LEMMA FaultInvariance == Spec => []FaultInv
  <1>1. Init => FaultInv
    <2> SUFFICES ASSUME Init PROVE FaultInv
      OBVIOUS
    <2>1. ASSUME NEW n \in Nodes PROVE NodeInv(n)
      <3>1. enactment[n] = NoEnactment /\ pc[n] = "idle"
        BY DEF Init
      <3>2. NoEnactment.conds = NoConditions /\ NoEnactment.gen = 0
        BY Zenon DEF NoEnactment
      <3> QED BY <3>1, <3>2, CommittedFacts, Zenon
              DEF NodeInv, FilledLabels, ApplyingLabels, IsUncommitted
    <2> QED BY <2>1, TypeInit, Zenon DEF FaultInv
  <1>2. FaultInv /\ [Next]_vars => FaultInv'
    BY EveryStepIsGood, TypeNext, Zenon DEF FaultInv, GoodStep
  <1> QED BY <1>1, <1>2, PTL DEF Spec

-----------------------------------------------------------------------------
(* What happens to the policy *)

\* The slots a claim of n is granted: below the limit, or below one slot when
\* the enactments cannot be listed.
Granted(n) ==
    \E limit \in {Limit(numberOfEnactments), 1} :
        /\ pc[n] \in {"claim", "claimAgain"}
        /\ HasRoom(Cached(n), Gen(n), limit)
        /\ SameVersion(Cached(n), policy)
        /\ policy' = WithCount(policy, Gen(n), policy.count[Gen(n)] + 1)

\* Every write of the policy by a handler.
PolicyWrite(n) ==
    \/ policy' = policy
    \/ policy' = [policy EXCEPT !.cond = "Unknown"]
    \/ AuditFindsGhosts /\ AuditRepair
    \/ \E cond \in PolicyConds : policy' = setPolicyStatus(policy, cond)
    \/ policy' = Decremented(policy, Gen(n))
    \/ Granted(n)

\* The steps of a node write the policy in no other way.
LEMMA PolicyWrites ==
    ASSUME TypeOK, NEW n \in Nodes, HandlerStep(n) \/ NodeEnvironment(n)
    PROVE  PolicyWrite(n)
  <1> USE DEF PolicyWrite, Write, NoWrite
  <1>1. CASE \/ NotifyPending(n) \/ AbortCheck(n) \/ NotifyProgressing(n)
             \/ NotifyFailedToConfigure(n) \/ NotifyRetrying(n) \/ NotifyFinalizing(n)
             \/ NotifySuccess(n) \/ FinalizeInterruptedApply(n)
    BY <1>1, Zenon DEF NotifyPending, AbortCheck, NotifyProgressing, NotifyFailedToConfigure,
       NotifyRetrying, NotifyFinalizing, NotifySuccess, FinalizeInterruptedApply
  <1>2. CASE \/ Initialize(n) \/ FillIn(n) \/ IncrementRetryCount(n)
             \/ ReclaimInterruptedSlots(n) \/ Apply(n)
    BY <1>2, Zenon DEF Initialize, FillIn, IncrementRetryCount, ReclaimInterruptedSlots, Apply
  <1>3. CASE Begin(n)
    BY <1>3, Zenon DEF Begin
  <1>4. CASE Claim(n)
    BY <1>4, Zenon DEF Claim, Granted
  <1>5. CASE AuditBlocked(n) \/ ReleaseUnavailableSlotByAudit(n) \/ StartupAudit(n)
    BY <1>5, Zenon DEF AuditBlocked, ReleaseUnavailableSlotByAudit, StartupAudit, Audit
  <1>6. CASE Compensate(n) \/ Release(n)
    BY <1>6, Zenon DEF Compensate, Release
  <1>7. CASE MidUpdate(n) \/ DeferredUpdate(n)
    <2>1. \/ policy' = policy
          \/ /\ policyStatus[n].cond # "None"
             /\ policy' = setPolicyStatus(policy, policyStatus[n].cond)
      BY <1>7, UpdateSteps, Zenon DEF MidUpdate, DeferredUpdate, ListStep, WriteStep, GiveUpStep
    <2>2. policyStatus[n].cond \in PolicyConds \cup {"None"}
      BY Zenon DEF TypeOK, PolicyStatuses
    <2> QED BY <2>1, <2>2, Zenon
  <1>8. CASE NodeEnvironment(n)
    BY <1>8, Zenon DEF NodeEnvironment, Crash, HeartbeatExpires, WatchBreaks, WatchRecovers,
       OldList, Relabel, ReadinessChanges
  <1> QED BY <1>1, <1>2, <1>3, <1>4, <1>5, <1>6, <1>7, <1>8, Zenon
          DEF HandlerStep, ReconcileStep

\* No enactment is deleted: the limit does not shrink.
LEMMA LimitStays ==
    ASSUME \A m \in Nodes : enactment[m].exists => enactment'[m].exists
    PROVE  /\ Limit(numberOfEnactments) \in Nat
           /\ Limit(numberOfEnactments)' \in Nat
           /\ Limit(numberOfEnactments) <= Limit(numberOfEnactments)'
  <1> DEFINE S == {m \in Nodes : enactment[m].exists}
  <1>1. S \subseteq S' /\ S' \subseteq Nodes /\ S \subseteq Nodes
    BY Zenon
  <1>2. /\ Cardinality(S) \in 0..Cardinality(Nodes)
        /\ Cardinality(S') \in 0..Cardinality(Nodes)
        /\ Cardinality(S) <= Cardinality(S')
    BY <1>1, NodesAssumption, FS_Subset, FS_CardinalityType
  <1> QED BY <1>2, LimitAssumption, Zenon DEF numberOfEnactments

\* No write of the policy takes a counter past the limit.
LEMMA WritesStayInBounds ==
    ASSUME \A k \in 1..Cardinality(Nodes) : Limit(k) >= 1,
           FaultInv, TypeOK', CountersStayInBounds, NEW n \in Nodes, PolicyWrite(n),
           NEW g \in Generations
    PROVE  policy'.count[g] <= Limit(numberOfEnactments)
  <1>1. /\ policy \in Policies /\ policy.count[g] \in Nat /\ policy'.count[g] \in Nat
        /\ policy.count[g] <= Limit(numberOfEnactments)
    BY Zenon DEF FaultInv, TypeOK, Policies, CountersStayInBounds
  <1>2. numberOfEnactments \in 0..Cardinality(Nodes) /\ Limit(numberOfEnactments) \in Nat
    BY CardinalitiesAreNat, LimitAssumption, Zenon
  <1>3. CASE policy' = policy \/ policy' = [policy EXCEPT !.cond = "Unknown"]
    <2>1. policy'.count[g] = policy.count[g]
      BY <1>1, <1>3, Zenon DEF Policies
    <2> QED BY <1>1, <2>1, Zenon
  <1>4. CASE AuditFindsGhosts /\ AuditRepair
    <2> DEFINE k == Cardinality(SlotHolders(policy.gen))
    <2>1. k \in Nat /\ k < policy.count[policy.gen]
      BY <1>4, CardinalitiesAreNat, Zenon DEF AuditFindsGhosts
    <2>2. policy'.count[g] = IF g = policy.gen THEN k ELSE policy.count[g]
      BY <1>1, <1>4, Zenon DEF AuditRepair, Write, WithCount, Policies
    <2> HIDE DEF k
    <2> QED BY <1>1, <1>2, <2>1, <2>2
  <1>5. CASE \E cond \in PolicyConds : policy' = setPolicyStatus(policy, cond)
    <2>1. PICK cond \in PolicyConds : policy' = setPolicyStatus(policy, cond)
      BY <1>5, Zenon
    <2>2. policy'.count \in {policy.count, [h \in Generations |-> 0]}
      BY <1>1, <2>1, setPolicyStatusFields, Zenon
    <2>3. policy'.count[g] \in {0, policy.count[g]}
      BY <2>2, Zenon
    <2> QED BY <1>1, <1>2, <2>3
  <1>6. CASE policy' = Decremented(policy, Gen(n))
    <2>1. \/ policy'.count[g] = policy.count[g]
          \/ policy'.count[g] = policy.count[g] - 1
      BY <1>1, <1>6, Zenon DEF Decremented, WithCount, Policies
    <2> QED BY <1>1, <1>2, <2>1
  <1>7. CASE Granted(n)
    <2>1. PICK limit \in {Limit(numberOfEnactments), 1} :
             /\ pc[n] \in {"claim", "claimAgain"}
             /\ HasRoom(Cached(n), Gen(n), limit)
             /\ SameVersion(Cached(n), policy)
             /\ policy' = WithCount(policy, Gen(n), policy.count[Gen(n)] + 1)
      BY <1>7, Zenon DEF Granted
    <2>2. CASE g # Gen(n)
      <3>1. policy'.count[g] = policy.count[g]
        BY <1>1, <2>1, <2>2, Zenon DEF WithCount, Policies
      <3> QED BY <1>1, <3>1, Zenon
    <2>3. CASE g = Gen(n)
      <3>1. policy'.count[g] = policy.count[g] + 1
        BY <1>1, <2>1, <2>3, Zenon DEF WithCount, Policies
      <3>2. policy.count[g] < limit
        BY <2>1, <2>3, Zenon DEF HasRoom, SameVersion
      <3>3. enactment[n].exists
        BY <2>1, Zenon DEF FaultInv, NodeInv, FilledLabels
      <3>4. numberOfEnactments # 0
        <4> DEFINE S == {m \in Nodes : enactment[m].exists}
        <4>1. n \in S /\ IsFiniteSet(S)
          BY <3>3, NodesAssumption, FS_Subset, Zenon
        <4> QED BY <4>1, FS_EmptySet, Zenon DEF numberOfEnactments
      <3>5. numberOfEnactments \in 1..Cardinality(Nodes)
        BY <1>2, <3>4, NodesAssumption, FS_CardinalityType
      <3>6. Limit(numberOfEnactments) >= 1
        BY <3>5, Zenon
      <3> QED BY <1>1, <1>2, <2>1, <3>1, <3>2, <3>6
    <2> QED BY <2>2, <2>3, Zenon
  <1> QED BY <1>3, <1>4, <1>5, <1>6, <1>7, Zenon DEF PolicyWrite

-----------------------------------------------------------------------------
(* Generations *)

\* A handler that starts reads the policy as it is.
NoOldLists == "oldList" \notin Faults

\* What a node knows of the generation of the policy is then never ahead of it,
\* and what it follows is never ahead of what it knows.
GenInv(n) ==
    /\ watch[n].broken => watch[n].seen.gen <= policy.gen
    /\ instance[n].gen <= Cached(n).gen
    /\ Gen(n) <= Cached(n).gen
    /\ pc[n] \in {"initialize", "fillIn"} => Gen(n) <= instance[n].gen

\* The generations are numbers.
LEMMA GenTypes ==
    ASSUME TypeOK, NEW n \in Nodes
    PROVE  /\ policy.gen \in Nat /\ watch[n].seen.gen \in Nat /\ Cached(n).gen \in Nat
           /\ Gen(n) \in Nat /\ instance[n].gen \in Nat
  <1>1. /\ policy \in Policies /\ watch[n] \in Caches /\ enactment[n] \in Enactments
        /\ instance[n] \in Instances
    BY Zenon DEF TypeOK
  <1>2. /\ policy.gen \in Generations /\ watch[n].seen.gen \in Generations
        /\ enactment[n].gen \in 0..MaxGeneration /\ instance[n].gen \in 0..MaxGeneration
    BY <1>1, Zenon DEF Policies, Caches, Enactments, Instances
  <1>3. Cached(n).gen \in {policy.gen, watch[n].seen.gen}
    BY Zenon DEF Cached
  <1> QED BY <1>2, <1>3, BoundsAssumption DEF Generations, Gen

\* The same after a step.
LEMMA GenTypesNext ==
    ASSUME TypeOK', NEW n \in Nodes
    PROVE  policy'.gen \in Nat /\ Gen(n)' \in Nat /\ instance'[n].gen \in Nat
  <1>1. policy' \in Policies /\ enactment'[n] \in Enactments /\ instance'[n] \in Instances
    BY Zenon DEF TypeOK
  <1>2. /\ policy'.gen \in Generations
        /\ enactment'[n].gen \in 0..MaxGeneration /\ instance'[n].gen \in 0..MaxGeneration
    BY <1>1, Zenon DEF Policies, Enactments, Instances
  <1> QED BY <1>2, BoundsAssumption DEF Generations, Gen

\* No write of a handler changes the generation of the policy.
LEMMA WritesKeepGeneration ==
    ASSUME TypeOK, NEW n \in Nodes, HandlerStep(n) \/ NodeEnvironment(n)
    PROVE  policy'.gen = policy.gen
  <1>1. policy \in Policies /\ PolicyWrite(n)
    BY PolicyWrites, Zenon DEF TypeOK
  <1>2. CASE \E cond \in PolicyConds : policy' = setPolicyStatus(policy, cond)
    <2>1. PICK cond \in PolicyConds : policy' = setPolicyStatus(policy, cond)
      BY <1>2, Zenon
    <2> QED BY <1>1, <2>1, setPolicyStatusFields, Zenon
  <1>3. CASE ~(\E cond \in PolicyConds : policy' = setPolicyStatus(policy, cond))
    BY <1>1, <1>3, Zenon DEF PolicyWrite, AuditRepair, Write, Decremented, Granted, WithCount,
       Policies
  <1> QED BY <1>2, <1>3, Zenon

\* What a handler step does to the queue and the cache of a node.
LEMMA HandlerKeepsWatch ==
    ASSUME TypeOK, NEW n \in Nodes, HandlerStep(n), NEW m \in Nodes
    PROVE  /\ watch' = watch
           /\ m # n \/ ~Begin(n) => (queued[m] => queued'[m])
           /\ m # n => queued'[m] = queued[m]
  <1>1. CASE \/ NotifyPending(n) \/ AbortCheck(n) \/ NotifyProgressing(n)
             \/ NotifyFailedToConfigure(n) \/ NotifyRetrying(n) \/ NotifyFinalizing(n)
             \/ NotifySuccess(n) \/ FinalizeInterruptedApply(n)
    BY <1>1, Zenon DEF NotifyPending, AbortCheck, NotifyProgressing, NotifyFailedToConfigure,
       NotifyRetrying, NotifyFinalizing, NotifySuccess, FinalizeInterruptedApply, Notify,
       Goto, Return, TypeOK
  <1>2. CASE Claim(n) \/ AuditBlocked(n) \/ Compensate(n) \/ Apply(n)
    BY <1>2, Zenon DEF Claim, AuditBlocked, Compensate, Apply, Goto, Return, TypeOK
  <1>3. CASE Release(n) \/ ReleaseUnavailableSlotByAudit(n) \/ StartupAudit(n)
    BY <1>3, Zenon DEF Release, ReleaseUnavailableSlotByAudit, StartupAudit, StartControllers,
       Goto, Return, TypeOK
  <1>6. CASE MidUpdate(n) \/ DeferredUpdate(n)
    <2>1. watch' = watch
      BY <1>6, Zenon DEF MidUpdate, DeferredUpdate
    <2>2. queued' = queued
      BY <1>6, UpdateSteps, Zenon DEF MidUpdate, DeferredUpdate
    <2> QED BY <2>1, <2>2, Zenon
  <1>4. CASE \/ Initialize(n) \/ FillIn(n) \/ IncrementRetryCount(n)
             \/ ReclaimInterruptedSlots(n)
    BY <1>4, Zenon DEF Initialize, FillIn, IncrementRetryCount, ReclaimInterruptedSlots,
       StartControllers, Goto, Return, TypeOK
  <1>5. CASE Begin(n)
    BY <1>5, Zenon DEF Begin, TypeOK
  <1> QED BY <1>1, <1>2, <1>3, <1>4, <1>5, <1>6, Zenon DEF HandlerStep, ReconcileStep

\* What is around a handler leaves the queues and the caches of others alone.
LEMMA EnvironmentIsLocal ==
    ASSUME TypeOK, NEW n \in Nodes, NodeEnvironment(n), NEW m \in Nodes \ {n}
    PROVE  watch'[m] = watch[m] /\ queued'[m] = queued[m]
  BY Zenon DEF NodeEnvironment, Crash, HeartbeatExpires, WatchBreaks, WatchRecovers, OldList,
     Relabel, ReadinessChanges, TypeOK

\* What a restart makes of an enactment that was Progressing.
LEMMA RecoveredFields ==
    ASSUME NEW e \in Enactments
    PROVE  /\ Recovered(e).gen = e.gen
           /\ IsFinalizing(e.conds) => /\ Recovered(e).conds = SetSuccess
                                       /\ Recovered(e).retries = e.retries
           /\ ~IsFinalizing(e.conds) =>
                 /\ Recovered(e).conds = SetPending
                 /\ Recovered(e).retries
                        = [g \in Generations |-> IF g = e.gen THEN 0 ELSE e.retries[g]]
  <1> DEFINE w == WithConditions(e, SetPending)
  <1>1. w \in Enactments /\ w.gen = e.gen /\ w.conds = SetPending /\ w.retries = e.retries
    BY ConditionListTypes, WithConditionsType, WithConditionsFields, Zenon
  <1>2. Interrupted(e) = [w EXCEPT !.retries =
                             [g \in Generations |-> IF g = e.gen THEN 0 ELSE @[g]]]
    BY Zenon DEF Interrupted
  <1> HIDE DEF w
  <1>3. /\ Interrupted(e).gen = e.gen /\ Interrupted(e).conds = SetPending
        /\ Interrupted(e).retries = [g \in Generations |-> IF g = e.gen THEN 0 ELSE w.retries[g]]
    BY <1>1, <1>2, Zenon DEF Enactments
  <1>4. /\ Interrupted(e).gen = e.gen /\ Interrupted(e).conds = SetPending
        /\ Interrupted(e).retries = [g \in Generations |-> IF g = e.gen THEN 0 ELSE e.retries[g]]
    BY <1>1, <1>3, Zenon
  <1> QED BY <1>4, WithConditionsFields, Zenon DEF Recovered

\* Where a step that writes conditions leads.
LEMMA NotifyLabels ==
    ASSUME TypeOK, NEW n \in Nodes
    PROVE  /\ NotifyPending(n) => pc'[n] \in {"pending", "abortCheck"}
           /\ AbortCheck(n) => pc'[n] \in {"update", "abortCheck"}
           /\ NotifyProgressing(n) =>
                 pc'[n] \in {"mark", "markClaimed", "midUpdate", "apply", "compensate", "update"}
           /\ NotifyFailedToConfigure(n) => pc'[n] \in {"failed", "update"}
           /\ NotifyRetrying(n) => pc'[n] \in {"retrying", "update"}
           /\ NotifyFinalizing(n) => pc'[n] \in {"finalizing", "release", "update"}
           /\ NotifySuccess(n) => pc'[n] \in {"success", "update"}
           /\ FinalizeInterruptedApply(n) =>
                 pc'[n] \in {"finalizeInterrupted", "audit", "update"}
  <1>1. NotifyPending(n) => pc'[n] \in {"pending", "abortCheck"}
    BY GotoFields, Zenon DEF NotifyPending, Notify
  <1>2. AbortCheck(n) => pc'[n] \in {"update", "abortCheck"}
    BY ReturnFields, Zenon DEF AbortCheck, Notify
  <1>3. NotifyProgressing(n) =>
          pc'[n] \in {"mark", "markClaimed", "midUpdate", "apply", "compensate", "update"}
    BY GotoFields, ReturnFields, Zenon DEF NotifyProgressing, Notify
  <1>4. NotifyFailedToConfigure(n) => pc'[n] \in {"failed", "update"}
    BY ReturnFields, Zenon DEF NotifyFailedToConfigure, Notify
  <1>5. NotifyRetrying(n) => pc'[n] \in {"retrying", "update"}
    BY ReturnFields, Zenon DEF NotifyRetrying, Notify
  <1>6. NotifyFinalizing(n) => pc'[n] \in {"finalizing", "release", "update"}
    BY GotoFields, ReturnFields, Zenon DEF NotifyFinalizing, Notify
  <1>7. NotifySuccess(n) => pc'[n] \in {"success", "update"}
    BY ReturnFields, Zenon DEF NotifySuccess, Notify
  <1>8. FinalizeInterruptedApply(n) => pc'[n] \in {"finalizeInterrupted", "audit", "update"}
    BY GotoFields, ReturnFields, Zenon DEF FinalizeInterruptedApply, Notify
  <1> QED BY <1>1, <1>2, <1>3, <1>4, <1>5, <1>6, <1>7, <1>8, Zenon

\* Where a step that leaves the enactment alone leads.
LEMMA QuietLabels ==
    ASSUME TypeOK, NEW n \in Nodes
    PROVE  /\ AuditBlocked(n) => pc'[n] \in {"claimAgain", "pending"}
           /\ Compensate(n) => pc'[n] \in {"compensate", "update"}
           /\ MidUpdate(n) => pc'[n] \in {"midUpdate", "apply"}
           /\ Apply(n) => pc'[n] \in {"finalizing", "retryCount"}
           /\ Release(n) => pc'[n] \in {"release", "success", "update"}
           /\ ReleaseUnavailableSlotByAudit(n) => pc'[n] \in {"update"}
           /\ StartupAudit(n) => pc'[n] \in {"idle"}
  <1>1. AuditBlocked(n) => pc'[n] \in {"claimAgain", "pending"}
    BY GotoFields, Zenon DEF AuditBlocked
  <1>2. Compensate(n) => pc'[n] \in {"compensate", "update"}
    BY ReturnFields, Zenon DEF Compensate
  <1>3. MidUpdate(n) => pc'[n] \in {"midUpdate", "apply"}
    BY UpdateLabels, Zenon DEF MidUpdate
  <1>4. Apply(n) => pc'[n] \in {"finalizing", "retryCount"}
    BY GotoFields, Zenon DEF Apply
  <1>5. Release(n) => pc'[n] \in {"release", "success", "update"}
    BY GotoFields, ReturnFields, Zenon DEF Release
  <1>6. ReleaseUnavailableSlotByAudit(n) => pc'[n] \in {"update"}
    BY ReturnFields, Zenon DEF ReleaseUnavailableSlotByAudit
  <1>7. StartupAudit(n) => pc'[n] \in {"idle"}
    BY StartFields, Zenon DEF StartupAudit
  <1> QED BY <1>1, <1>2, <1>3, <1>4, <1>5, <1>6, <1>7, Zenon

\* Where the other steps lead.
LEMMA WriteLabels ==
    ASSUME TypeOK, NEW n \in Nodes
    PROVE  /\ Begin(n) => pc'[n] \in {"initialize", "fillIn"}
           /\ Initialize(n) => pc'[n] \in {"fillIn", "update"}
           /\ FillIn(n) =>
                 pc'[n] \in {"update", "audit", "finalizeInterrupted", "mark", "claim", "failed"}
           /\ Claim(n) =>
                 pc'[n] \in {"claim", "claimAgain", "failed", "auditBlocked", "pending",
                             "markClaimed", "update"}
           /\ IncrementRetryCount(n) => pc'[n] \in {"failed", "retrying", "update"}
           /\ ReclaimInterruptedSlots(n) => pc'[n] \in {"idle", "startupAudit"}
  <1>1. Begin(n) => pc'[n] \in {"initialize", "fillIn"}
    BY Zenon DEF Begin, TypeOK
  <1>2. Initialize(n) => pc'[n] \in {"fillIn", "update"}
    BY GotoFields, ReturnFields, Zenon DEF Initialize
  <1>3. FillIn(n) =>
          pc'[n] \in {"update", "audit", "finalizeInterrupted", "mark", "claim", "failed"}
    <2>1. Route(resetPolicyGeneration(enactment[n], instance[n].gen), enactment[n].conds)
          \in {"update", "audit", "finalizeInterrupted", "mark", "claim"}
      BY Zenon DEF Route
    <2> QED BY <2>1, GotoFields, ReturnFields, Zenon DEF FillIn
  <1>4. Claim(n) =>
          pc'[n] \in {"claim", "claimAgain", "failed", "auditBlocked", "pending",
                      "markClaimed", "update"}
    BY GotoFields, ReturnFields, Zenon DEF Claim
  <1>5. IncrementRetryCount(n) => pc'[n] \in {"failed", "retrying", "update"}
    BY GotoFields, ReturnFields, Zenon DEF IncrementRetryCount
  <1>6. ReclaimInterruptedSlots(n) => pc'[n] \in {"idle", "startupAudit"}
    BY GotoFields, StartFields, Zenon DEF ReclaimInterruptedSlots
  <1> QED BY <1>1, <1>2, <1>3, <1>4, <1>5, <1>6, Zenon

\* What a handler step does to the generations of its node.
GenMoves(n) ==
    /\ instance'[n].gen \in {0, instance[n].gen, Cached(n).gen}
    /\ \/ Gen(n)' = Gen(n)
       \/ pc[n] = "fillIn" /\ Gen(n)' = instance[n].gen /\ pc'[n] \notin {"initialize", "fillIn"}
    /\ pc'[n] \in {"initialize", "fillIn"} =>
          \/ instance'[n].gen = Cached(n).gen
          \/ pc[n] \in {"initialize", "fillIn"} /\ instance'[n].gen = instance[n].gen

\* Only filling in an enactment moves it to another generation.
LEMMA GenerationsMove ==
    ASSUME TypeOK, TypeOK', NEW n \in Nodes, NodeInv(n), HandlerStep(n)
    PROVE  GenMoves(n)
  <1> DEFINE e == enactment[n]
             f == enactment'[n]
  <1>1. e \in Enactments /\ f \in Enactments
    BY Zenon DEF TypeOK
  <1>2. ASSUME NEW c, Marked(n, c) \/ enactment' = enactment, instance' = instance,
               pc'[n] \notin {"initialize", "fillIn"}
        PROVE  GenMoves(n)
    BY <1>2, MarkedFields, Zenon DEF GenMoves, Gen
  <1>3. CASE \/ NotifyPending(n) \/ AbortCheck(n) \/ NotifyProgressing(n)
             \/ NotifyFailedToConfigure(n) \/ NotifyRetrying(n) \/ NotifyFinalizing(n)
             \/ NotifySuccess(n) \/ FinalizeInterruptedApply(n)
    <2>1. \E c : Marked(n, c) \/ enactment' = enactment
      BY <1>3, Zenon DEF NotifyPending, AbortCheck, NotifyProgressing, NotifyFailedToConfigure,
         NotifyRetrying, NotifyFinalizing, NotifySuccess, FinalizeInterruptedApply, Notify,
         Marked
    <2>2. instance' = instance
      BY <1>3, Zenon DEF NotifyPending, AbortCheck, NotifyProgressing, NotifyFailedToConfigure,
         NotifyRetrying, NotifyFinalizing, NotifySuccess, FinalizeInterruptedApply
    <2> QED BY <1>2, <1>3, <2>1, <2>2, NotifyLabels, Zenon
  <1>4. CASE \/ AuditBlocked(n) \/ Compensate(n) \/ MidUpdate(n) \/ Apply(n) \/ Release(n)
             \/ ReleaseUnavailableSlotByAudit(n) \/ StartupAudit(n)
    <2>1. enactment' = enactment /\ instance' = instance
      BY <1>4, Zenon DEF AuditBlocked, Compensate, MidUpdate, Apply, Release,
         ReleaseUnavailableSlotByAudit, StartupAudit
    <2> QED BY <1>2, <1>4, <2>1, QuietLabels, Zenon
  <1>5. CASE Begin(n)
    <2>1. /\ instance'[n] = [gen |-> Cached(n).gen, unknown |-> IsUnknown(Cached(n).cond)]
          /\ enactment' = enactment
      BY <1>5, Zenon DEF Begin, TypeOK
    <2>2. instance'[n].gen = Cached(n).gen
      BY <2>1
    <2> QED BY <2>1, <2>2, Zenon DEF GenMoves, Gen
  <1>6. CASE Claim(n)
    <2>1. /\ instance'[n] = [gen |-> Cached(n).gen, unknown |-> IsUnknown(Cached(n).cond)]
          /\ enactment' = enactment
      BY <1>6, Zenon DEF Claim, TypeOK
    <2>2. instance'[n].gen = Cached(n).gen
      BY <2>1
    <2> QED BY <2>1, <2>2, Zenon DEF GenMoves, Gen
  <1>7. CASE DeferredUpdate(n)
    <2>1. instance'[n] = NoInstance /\ enactment' = enactment /\ pc[n] = "update"
      BY <1>7, Zenon DEF DeferredUpdate, TypeOK
    <2>2. instance'[n].gen = 0
      BY <2>1 DEF NoInstance
    <2>3. pc'[n] \in {"update", "idle"}
      BY <1>7, <2>1, UpdateLabels, Zenon DEF DeferredUpdate
    <2> QED BY <2>1, <2>2, <2>3, Zenon DEF GenMoves, Gen
  <1>8. CASE Initialize(n)
    <2>1. pc[n] = "initialize" /\ e.gen = 0 /\ instance' = instance
      BY <1>8, Zenon DEF Initialize, NodeInv
    <2>2. \/ enactment' = enactment
          \/ f = [e EXCEPT !.exists = TRUE]
          \/ f = [NoEnactment EXCEPT !.exists = TRUE, !.conds = UnknownConditions]
      BY <1>8, Zenon DEF Initialize, TypeOK
    <2>3. f.gen = 0
      BY <1>1, <2>1, <2>2, Zenon DEF Enactments, NoEnactment
    <2> QED BY <2>1, <2>3, Zenon DEF GenMoves, Gen
  <1>9. CASE FillIn(n)
    <2>1. pc[n] = "fillIn" /\ instance' = instance
      BY <1>9, Zenon DEF FillIn
    <2>2. f = e \/ f = resetPolicyGeneration(e, instance[n].gen)
      BY <1>9, Becomes, Zenon DEF FillIn
    <2>3. f = resetPolicyGeneration(e, instance[n].gen) => f.gen = instance[n].gen
      BY <1>1 DEF resetPolicyGeneration, Enactments
    <2>4. pc'[n] \in {"update", "audit", "finalizeInterrupted", "mark", "claim", "failed"}
      BY <1>9, WriteLabels, Zenon
    <2> QED BY <2>1, <2>2, <2>3, <2>4, Zenon DEF GenMoves, Gen
  <1>10. CASE IncrementRetryCount(n)
    <2>1. /\ pc'[n] \in {"failed", "retrying", "update"} /\ instance' = instance
          /\ f = e \/ f = [e EXCEPT !.retries[e.gen] = @ + 1]
      BY <1>10, GotoFields, ReturnFields, Zenon DEF IncrementRetryCount, TypeOK, Gen
    <2>2. f.gen = e.gen
      BY <1>1, <2>1, Zenon DEF Enactments
    <2> QED BY <2>1, <2>2, Zenon DEF GenMoves, Gen
  <1>11. CASE ReclaimInterruptedSlots(n)
    <2>1. /\ f = e \/ f = Recovered(e)
          /\ instance' = instance
          /\ pc'[n] \in {"idle", "startupAudit"}
      BY <1>11, GotoFields, StartFields, Becomes, Zenon DEF ReclaimInterruptedSlots
    <2>2. f = Recovered(e) => f.gen = e.gen
      BY <1>1, RecoveredFields, Zenon
    <2> QED BY <1>11, <2>1, <2>2, Zenon DEF GenMoves, Gen, ReclaimInterruptedSlots
  <1> QED BY <1>3, <1>4, <1>5, <1>6, <1>7, <1>8, <1>9, <1>10, <1>11, Zenon
          DEF HandlerStep, ReconcileStep

\* What follows from the numbers: i and j are what a node read before and after a
\* step, g and h what it follows, c what is cached.
LEMMA GenOrder ==
    ASSUME NEW i \in Nat, NEW j \in Nat, NEW g \in Nat, NEW h \in Nat, NEW c \in Nat,
           i <= c, g <= c, j \in {0, i, c}, h = g \/ (h = i /\ g <= i)
    PROVE  j <= c /\ h <= c
  OBVIOUS

\* A node that does not take part in a step.
LEMMA GenStays ==
    ASSUME TypeOK, TypeOK', NEW n \in Nodes, GenInv(n), pc'[n] = pc[n], Gen(n)' = Gen(n),
           instance'[n] = instance[n], watch'[n] = watch[n], policy'.gen >= policy.gen
    PROVE  GenInv(n)'
  <1>1. /\ policy.gen \in Nat /\ watch[n].seen.gen \in Nat
        /\ Gen(n) \in Nat /\ instance[n].gen \in Nat
    BY GenTypes
  <1>2. policy'.gen \in Nat
    BY GenTypesNext
  <1>3. /\ Cached(n).gen = IF watch[n].broken THEN watch[n].seen.gen ELSE policy.gen
        /\ Cached(n)'.gen = IF watch[n].broken THEN watch[n].seen.gen ELSE policy'.gen
    BY DEF Cached
  <1>4. /\ watch[n].broken => watch[n].seen.gen <= policy'.gen
        /\ instance[n].gen <= Cached(n)'.gen
        /\ Gen(n) <= Cached(n)'.gen
    BY <1>1, <1>2, <1>3 DEF GenInv
  <1> QED BY <1>4, Zenon DEF GenInv

\* A step of a handler.
LEMMA GenHandlerStep ==
    ASSUME FaultInv, TypeOK', NEW n \in Nodes, GenInv(n), HandlerStep(n)
    PROVE  GenInv(n)'
  <1>1. TypeOK /\ NodeInv(n)
    BY Zenon DEF FaultInv
  <1>2. watch' = watch /\ policy'.gen = policy.gen
    BY <1>1, HandlerKeepsWatch, WritesKeepGeneration
  <1>3. Cached(n)'.gen = Cached(n).gen
    BY <1>2, Zenon DEF Cached
  <1>4. GenMoves(n)
    BY <1>1, GenerationsMove
  <1>5. /\ Cached(n).gen \in Nat /\ Gen(n) \in Nat /\ instance[n].gen \in Nat
        /\ Gen(n)' \in Nat /\ instance'[n].gen \in Nat
    BY <1>1, GenTypes, GenTypesNext
  <1>6. \/ Gen(n)' = Gen(n)
        \/ Gen(n)' = instance[n].gen /\ Gen(n) <= instance[n].gen
    BY <1>4, Zenon DEF GenMoves, GenInv
  <1>7. /\ instance[n].gen <= Cached(n).gen /\ Gen(n) <= Cached(n).gen
        /\ instance'[n].gen \in {0, instance[n].gen, Cached(n).gen}
    BY <1>4, Zenon DEF GenMoves, GenInv
  <1>8. instance'[n].gen <= Cached(n).gen /\ Gen(n)' <= Cached(n).gen
    BY <1>5, <1>6, <1>7, GenOrder
  <1>9. pc'[n] \in {"initialize", "fillIn"} => Gen(n)' <= instance'[n].gen
    BY <1>4, <1>8, Zenon DEF GenMoves, GenInv
  <1> QED BY <1>2, <1>3, <1>8, <1>9, Zenon DEF GenInv

\* A step of what is around a handler.
LEMMA GenEnvironment ==
    ASSUME NoOldLists, TypeOK, TypeOK', NEW n \in Nodes, GenInv(n), NodeEnvironment(n)
    PROVE  GenInv(n)'
  <1>1. policy'.gen = policy.gen
    BY WritesKeepGeneration
  <1>2. /\ policy.gen \in Nat /\ watch[n].seen.gen \in Nat /\ Cached(n).gen \in Nat
        /\ Gen(n) \in Nat /\ instance[n].gen \in Nat
    BY GenTypes
  <1>3. Gen(n)' = Gen(n)
    <2>1. enactment'[n] = enactment[n] \/ enactment'[n] = [enactment[n] EXCEPT !.fresh = FALSE]
      BY Zenon DEF NodeEnvironment, Crash, HeartbeatExpires, WatchBreaks, WatchRecovers, OldList,
         Relabel, ReadinessChanges, TypeOK
    <2>2. enactment[n] \in Enactments
      BY Zenon DEF TypeOK
    <2> QED BY <2>1, <2>2, Zenon DEF Gen, Enactments
  <1>4. CASE HeartbeatExpires(n) \/ Relabel(n) \/ ReadinessChanges(n)
    <2>1. pc'[n] = pc[n] /\ instance'[n] = instance[n] /\ watch'[n] = watch[n]
      BY <1>4, Zenon DEF HeartbeatExpires, Relabel, ReadinessChanges
    <2> QED BY <1>1, <1>2, <1>3, <2>1, GenStays
  <1>5. Cached(n).gen <= policy.gen
    BY <1>2 DEF Cached, GenInv
  <1>6. CASE /\ Cached(n)'.gen = policy.gen
             /\ watch'[n].broken => watch'[n].seen.gen = policy.gen
             /\ pc'[n] = pc[n] /\ instance'[n] = instance[n]
    <2>1. instance[n].gen <= policy.gen /\ Gen(n) <= policy.gen /\ policy.gen <= policy.gen
      BY <1>2, <1>5 DEF GenInv
    <2> QED BY <1>1, <1>3, <1>6, <2>1, Zenon DEF GenInv
  <1>7. CASE WatchBreaks(n)
    <2>1. /\ watch'[n] = [broken |-> TRUE, seen |-> [policy EXCEPT !.recent = FALSE]]
          /\ pc'[n] = pc[n] /\ instance'[n] = instance[n] /\ policy \in Policies
      BY <1>7, Zenon DEF WatchBreaks, BrokenAt, TypeOK
    <2>2. watch'[n].broken /\ watch'[n].seen.gen = policy.gen
      BY <2>1 DEF Policies
    <2> QED BY <1>6, <2>1, <2>2, Zenon DEF Cached
  <1>8. CASE WatchRecovers(n)
    <2>1. watch'[n] = LiveCache /\ pc'[n] = pc[n] /\ instance'[n] = instance[n]
      BY <1>8, Zenon DEF WatchRecovers, TypeOK
    <2>2. ~watch'[n].broken
      BY <2>1 DEF LiveCache
    <2> QED BY <1>1, <1>6, <2>1, <2>2, Zenon DEF Cached
  <1>9. CASE Crash(n)
    <2>1. watch'[n] = LiveCache /\ pc'[n] = "down" /\ instance'[n] = NoInstance
      BY <1>9, Zenon DEF Crash, TypeOK
    <2>2. ~watch'[n].broken /\ instance'[n].gen = 0
      BY <2>1 DEF LiveCache, NoInstance
    <2>3. Cached(n)'.gen = policy.gen
      BY <1>1, <2>2, Zenon DEF Cached
    <2>4. 0 <= policy.gen /\ Gen(n) <= policy.gen
      BY <1>2, <1>5 DEF GenInv
    <2> QED BY <1>3, <2>1, <2>2, <2>3, <2>4, Zenon DEF GenInv
  <1>10. ~OldList(n)
    BY Zenon DEF OldList, Fault, NoOldLists
  <1> QED BY <1>4, <1>7, <1>8, <1>9, <1>10, Zenon DEF NodeEnvironment

\* Every step keeps the order of the generations of every node.
LEMMA GenNext ==
    ASSUME NoOldLists, FaultInv, [Next]_vars, NEW m \in Nodes, GenInv(m)
    PROVE  GenInv(m)'
  <1>1. TypeOK /\ TypeOK'
    BY TypeNext, Zenon DEF FaultInv
  <1>2. policy.gen \in Nat /\ Gen(m) \in Nat
    BY <1>1, GenTypes
  <1>3. ASSUME NEW n \in Nodes, HandlerStep(n) \/ NodeEnvironment(n)
        PROVE  GenInv(m)'
    <2>1. CASE m # n
      <3>1. pc'[m] = pc[m] /\ enactment'[m] = enactment[m] /\ instance'[m] = instance[m]
        BY <1>1, <1>3, <2>1, StepsAreLocal, Zenon
      <3>2. watch'[m] = watch[m]
        BY <1>1, <1>3, <2>1, HandlerKeepsWatch, EnvironmentIsLocal, Zenon
      <3>3. policy'.gen = policy.gen
        BY <1>1, <1>3, WritesKeepGeneration
      <3>4. policy'.gen >= policy.gen /\ Gen(m)' = Gen(m)
        BY <1>2, <3>1, <3>3 DEF Gen
      <3> QED BY <1>1, <3>1, <3>2, <3>4, GenStays
    <2>2. CASE m = n
      BY <1>1, <1>3, <2>2, GenHandlerStep, GenEnvironment, Zenon
    <2> QED BY <2>1, <2>2
  <1>4. CASE GraceExpires \/ EditPolicy \/ UNCHANGED vars
    <2>1. /\ pc' = pc /\ enactment' = enactment /\ instance' = instance /\ watch' = watch
      BY <1>4, Zenon DEF GraceExpires, EditPolicy, vars
    <2>2. policy'.gen \in {policy.gen, policy.gen + 1}
      <3>1. policy \in Policies
        BY <1>1, Zenon DEF TypeOK
      <3> QED BY <1>4, <3>1, Zenon DEF GraceExpires, EditPolicy, Write, vars, Policies
    <2>3. policy'.gen >= policy.gen /\ Gen(m)' = Gen(m)
      BY <1>2, <2>1, <2>2 DEF Gen
    <2> QED BY <1>1, <2>1, <2>3, GenStays, Zenon
  <1> QED BY <1>3, <1>4, Zenon DEF Next

\* At first no node follows any generation.
LEMMA GenInit == ASSUME Init, NEW n \in Nodes PROVE GenInv(n)
  <1>1. /\ watch[n] = LiveCache /\ instance[n] = NoInstance /\ enactment[n] = NoEnactment
        /\ policy = NewPolicy /\ pc[n] = "idle"
    BY Zenon DEF Init
  <1>2. ~watch[n].broken /\ instance[n].gen = 0 /\ Gen(n) = 0 /\ policy.gen = 1
    BY <1>1 DEF LiveCache, NoInstance, NoEnactment, NewPolicy, Gen
  <1>3. Cached(n).gen = 1
    BY <1>2, Zenon DEF Cached
  <1> QED BY <1>1, <1>2, <1>3 DEF GenInv

-----------------------------------------------------------------------------
(* Rest *)

\* The calls of a handler succeed, at the latest when they are tried again.
ReliableCalls == Faults \cap {"apiError", "lostReply"} = {}

\* From the marker to the end of the apply.
MarkedLabels == {"midUpdate", "apply", "retryCount", "retrying", "finalizing"}

\* Wherever the reconcile of n is, it works for the generation of the policy or
\* there is another one to come, and it ends in a final state: the retries that are
\* used up are those of a failure that is recorded or about to be.
RestInv(n) ==
    LET e == enactment[n] IN
    /\ \A g \in Generations : g > e.gen => e.retries[g] = 0
    /\ Exhausted(e) =>
          \/ IsTerminallyFailed(e.conds)
          \/ /\ IsProgressing(e.conds) /\ ~IsFinalizing(e.conds)
             /\ pc[n] \in {"failed", "down"}
    /\ IsAvailable(e.conds) => e.conds.pending # "True"
    /\ pc[n] \in FilledLabels \ {"failed"} => ~Exhausted(e)
    /\ pc[n] \in MarkedLabels => IsProgressing(e.conds)
    /\ pc[n] = "audit" => IsAvailable(e.conds)
    /\ pc[n] \in {"update", "idle"} => Awake(n) \/ Settled(n)
    /\ pc[n] \in FilledLabels \cup {"audit"} => Awake(n) \/ Gen(n) = policy.gen
    /\ pc[n] \in {"initialize", "fillIn"} => Awake(n) \/ instance[n].gen = policy.gen

\* What is written makes no applied enactment Pending.
LEMMA PendingFacts ==
    ASSUME NEW c \in {NoConditions, UnknownConditions, SetAborted, SetPending, SetFailed,
                      SetRetry, SetProgressing, SetFinalizing, SetSuccess}
    PROVE  IsAvailable(c) => c.pending # "True"
  <1>1. SetSuccess.pending = "False"
    BY Zenon DEF SetSuccess, AllFalse
  <1>2. c # SetSuccess => ~IsAvailable(c)
    BY ConditionFacts, Zenon
  <1> QED BY <1>1, <1>2, Zenon

\* The aborted mark.
LEMMA AbortedFacts == SetAborted.aborted = "True"
  BY Zenon DEF SetAborted, AllFalse

\* A queued request, or an older generation in the cache, is not lost while a
\* reconcile runs.
LEMMA AwakeStays ==
    ASSUME TypeOK, NEW n \in Nodes, HandlerStep(n), ~Begin(n)
    PROVE  (Awake(n) => Awake(n)') /\ policy'.gen = policy.gen
  <1>1. watch' = watch /\ (queued[n] => queued'[n]) /\ policy'.gen = policy.gen
    BY HandlerKeepsWatch, WritesKeepGeneration, Zenon
  <1> QED BY <1>1, Zenon DEF Awake

\* A node that nothing happens to, but for its queue and its cache.
LEMMA RestStays ==
    ASSUME NEW n \in Nodes, RestInv(n), pc'[n] = pc[n], instance'[n] = instance[n],
           enactment'[n].gen = enactment[n].gen, enactment'[n].conds = enactment[n].conds,
           enactment'[n].retries = enactment[n].retries,
           \/ Awake(n)'
           \/ pc[n] = "down"
           \/ policy'.gen = policy.gen /\ (Awake(n) => Awake(n)')
    PROVE  RestInv(n)'
  BY Zenon DEF RestInv, Exhausted, Settled, Gen, MarkedLabels, FilledLabels

\* A reconcile writes conditions.
LEMMA RestMarked ==
    ASSUME TypeOK, NEW n \in Nodes, NEW c, RestInv(n), Marked(n, c),
           policy'.gen = policy.gen, Awake(n) => Awake(n)',
           pc[n] \in FilledLabels, pc[n] = "failed" => c = SetFailed,
           c \in {SetAborted, SetPending, SetFailed, SetRetry, SetProgressing, SetFinalizing,
                  SetSuccess},
           pc'[n] \in {"abortCheck", "midUpdate", "apply", "release", "audit", "update"},
           pc'[n] \in {"midUpdate", "apply"} => c = SetProgressing,
           pc'[n] = "audit" => c = SetSuccess,
           pc'[n] = "update" => c \in {SetAborted, SetFailed, SetSuccess} \/ Awake(n)',
           pc'[n] # "update" => pc[n] # "failed"
    PROVE  RestInv(n)'
  <1> DEFINE e == enactment[n]
             f == enactment'[n]
  <1>1. /\ f.conds = c /\ f.gen = e.gen /\ f.retries = e.retries
        /\ Exhausted(f) <=> Exhausted(e)
    BY MarkedFields, Zenon
  <1>2. \A g \in Generations : g > f.gen => f.retries[g] = 0
    BY <1>1, Zenon DEF RestInv
  <1>3. IsAvailable(f.conds) => f.conds.pending # "True"
    BY <1>1, PendingFacts, Zenon
  <1>4. Exhausted(f) => IsTerminallyFailed(f.conds)
    BY <1>1, ConditionFacts, Zenon DEF RestInv
  <1>5. pc'[n] \in FilledLabels \ {"failed"} => ~Exhausted(f)
    BY <1>1, Zenon DEF RestInv, FilledLabels
  <1>6. /\ pc'[n] \in MarkedLabels => IsProgressing(f.conds)
        /\ pc'[n] = "audit" => IsAvailable(f.conds)
    BY <1>1, ConditionFacts, Zenon DEF MarkedLabels
  <1>7. Awake(n)' \/ f.gen = policy'.gen
    BY <1>1, Zenon DEF RestInv, Gen
  <1>8. pc'[n] = "update" => Awake(n)' \/ Settled(n)'
    BY <1>1, <1>7, ConditionFacts, AbortedFacts, Zenon DEF Settled
  <1>9. pc'[n] \notin {"idle", "initialize", "fillIn", "down"}
    OBVIOUS
  <1> QED BY <1>2, <1>3, <1>4, <1>5, <1>6, <1>7, <1>8, <1>9, Zenon DEF RestInv, Gen

\* A reconcile leaves its enactment alone.
LEMMA RestUnwritten ==
    ASSUME NEW n \in Nodes, RestInv(n), enactment'[n] = enactment[n],
           policy'.gen = policy.gen, Awake(n) => Awake(n)',
           pc[n] \in FilledLabels \cup {"audit"}, pc[n] # "failed",
           pc'[n] \in FilledLabels \cup {"update"},
           pc[n] = "audit" => pc'[n] = "update",
           pc'[n] \in MarkedLabels => pc[n] \in MarkedLabels,
           pc'[n] = "update" => Awake(n)' \/ pc[n] = "audit"
    PROVE  RestInv(n)'
  <1> DEFINE e == enactment[n]
  <1>1. Exhausted(e) => pc[n] = "audit" /\ IsTerminallyFailed(e.conds)
    BY Zenon DEF RestInv
  <1>2. Awake(n)' \/ Gen(n)' = policy'.gen
    BY Zenon DEF RestInv, Gen
  <1>3. pc'[n] = "update" => Awake(n)' \/ Settled(n)'
    BY <1>2, Zenon DEF RestInv, Settled, Gen
  <1>4. pc'[n] \notin {"audit", "idle", "initialize", "fillIn", "down"}
    BY DEF FilledLabels
  <1>5. pc'[n] \in FilledLabels => ~Exhausted(e)
    BY <1>1, Zenon DEF FilledLabels
  <1> QED BY <1>1, <1>2, <1>3, <1>4, <1>5, Zenon DEF RestInv

\* A return with a requeue.
LEMMA RequeueIsAwake ==
    ASSUME TypeOK, NEW n \in Nodes, Return(n, TRUE) \/ StartControllers(n)
    PROVE  queued'[n] /\ Awake(n)'
  BY Zenon DEF Return, StartControllers, Awake, TypeOK

\* The steps that write conditions.
LEMMA RestNotifies ==
    ASSUME ReliableCalls, TypeOK, NEW n \in Nodes, RestInv(n),
           \/ NotifyPending(n) \/ AbortCheck(n) \/ NotifyProgressing(n)
           \/ NotifyFailedToConfigure(n) \/ NotifyRetrying(n) \/ NotifyFinalizing(n)
           \/ NotifySuccess(n) \/ FinalizeInterruptedApply(n)
    PROVE  RestInv(n)'
  <1>1. HandlerStep(n) /\ ~Begin(n)
    <2>1. pc[n] # "idle"
      BY Zenon DEF NotifyPending, AbortCheck, NotifyProgressing, NotifyFailedToConfigure,
         NotifyRetrying, NotifyFinalizing, NotifySuccess, FinalizeInterruptedApply
    <2> QED BY <2>1, Zenon DEF HandlerStep, ReconcileStep, Begin
  <1>2. (Awake(n) => Awake(n)') /\ policy'.gen = policy.gen
    BY <1>1, AwakeStays, Zenon
  <1>3. ~Fault("apiError") /\ ~Fault("lostReply")
    BY Zenon DEF Fault, ReliableCalls
  <1>4. CASE NotifyPending(n)
    <2>1. pc[n] = "pending" /\ Marked(n, SetPending) /\ Goto(n, "abortCheck")
      BY <1>4, <1>3, Zenon DEF NotifyPending, Notify, Marked
    <2>2. pc[n] = "pending" /\ Marked(n, SetPending) /\ pc'[n] = "abortCheck"
      BY <2>1, GotoFields, Zenon
    <2> QED BY <1>2, <2>2, RestMarked, Zenon DEF FilledLabels
  <1>5. CASE AbortCheck(n)
    <2>1. pc[n] = "abortCheck"
      BY <1>5, Zenon DEF AbortCheck
    <2>2. CASE Return(n, TRUE) /\ enactment' = enactment
      <3>1. pc'[n] = "update" /\ Awake(n)'
        BY <2>2, ReturnFields, RequeueIsAwake, Zenon
      <3> QED BY <1>2, <2>1, <2>2, <3>1, RestUnwritten, Zenon DEF FilledLabels, MarkedLabels
    <2>3. CASE Marked(n, SetAborted) /\ Return(n, FALSE)
      <3>1. pc'[n] = "update"
        BY <2>3, ReturnFields, Zenon
      <3> QED BY <1>2, <2>1, <2>3, <3>1, RestMarked, Zenon DEF FilledLabels
    <2>4. CASE Notify(n, SetAborted, Return(n, FALSE), Return(n, FALSE))
      BY <1>3, <2>3, <2>4, Zenon DEF Notify, Marked
    <2> QED BY <1>5, <1>3, <2>2, <2>4, Zenon DEF AbortCheck
  <1>6. CASE NotifyProgressing(n)
    <2>1. /\ pc[n] \in {"mark", "markClaimed"} /\ Marked(n, SetProgressing)
          /\ Goto(n, IF instance[n].unknown THEN "midUpdate" ELSE "apply")
      BY <1>6, <1>3, Zenon DEF NotifyProgressing, Notify, Marked
    <2>2. pc'[n] \in {"midUpdate", "apply"}
      BY <2>1, GotoFields, Zenon
    <2> QED BY <1>2, <2>1, <2>2, RestMarked, Zenon DEF FilledLabels
  <1>7. CASE NotifyFailedToConfigure(n)
    <2>1. pc[n] = "failed" /\ Marked(n, SetFailed) /\ Return(n, FALSE)
      BY <1>7, <1>3, Zenon DEF NotifyFailedToConfigure, Notify, Marked
    <2>2. pc[n] = "failed" /\ Marked(n, SetFailed) /\ pc'[n] = "update"
      BY <2>1, ReturnFields, Zenon
    <2> QED BY <1>2, <2>2, RestMarked, Zenon DEF FilledLabels
  <1>8. CASE NotifyRetrying(n)
    <2>1. pc[n] = "retrying" /\ Marked(n, SetRetry) /\ Return(n, TRUE)
      BY <1>8, <1>3, Zenon DEF NotifyRetrying, Notify, Marked
    <2>2. pc[n] = "retrying" /\ Marked(n, SetRetry) /\ pc'[n] = "update" /\ Awake(n)'
      BY <2>1, ReturnFields, RequeueIsAwake, Zenon
    <2> QED BY <1>2, <2>2, RestMarked, Zenon DEF FilledLabels
  <1>9. CASE NotifyFinalizing(n)
    <2>1. pc[n] = "finalizing" /\ Marked(n, SetFinalizing) /\ Goto(n, "release")
      BY <1>9, <1>3, Zenon DEF NotifyFinalizing, Notify, Marked
    <2>2. pc[n] = "finalizing" /\ Marked(n, SetFinalizing) /\ pc'[n] = "release"
      BY <2>1, GotoFields, Zenon
    <2> QED BY <1>2, <2>2, RestMarked, Zenon DEF FilledLabels
  <1>10. CASE NotifySuccess(n)
    <2>1. pc[n] = "success" /\ Marked(n, SetSuccess) /\ Return(n, FALSE)
      BY <1>10, <1>3, Zenon DEF NotifySuccess, Notify, Marked
    <2>2. pc[n] = "success" /\ Marked(n, SetSuccess) /\ pc'[n] = "update"
      BY <2>1, ReturnFields, Zenon
    <2> QED BY <1>2, <2>2, RestMarked, Zenon DEF FilledLabels
  <1>11. CASE FinalizeInterruptedApply(n)
    <2>1. pc[n] = "finalizeInterrupted" /\ Marked(n, SetSuccess) /\ Goto(n, "audit")
      BY <1>11, <1>3, Zenon DEF FinalizeInterruptedApply, Notify, Marked
    <2>2. pc[n] = "finalizeInterrupted" /\ Marked(n, SetSuccess) /\ pc'[n] = "audit"
      BY <2>1, GotoFields, Zenon
    <2> QED BY <1>2, <2>2, RestMarked, Zenon DEF FilledLabels
  <1> QED BY <1>4, <1>5, <1>6, <1>7, <1>8, <1>9, <1>10, <1>11, Zenon

\* The steps of a filled-in reconcile that leave the enactment alone.
LEMMA RestQuiet ==
    ASSUME ReliableCalls, TypeOK, NEW n \in Nodes, RestInv(n),
           \/ Claim(n) \/ AuditBlocked(n) \/ Compensate(n) \/ MidUpdate(n) \/ Apply(n)
           \/ Release(n) \/ ReleaseUnavailableSlotByAudit(n)
    PROVE  RestInv(n)'
  <1>1. HandlerStep(n) /\ ~Begin(n) /\ enactment' = enactment
    <2>1. pc[n] # "idle" /\ enactment' = enactment
      BY Zenon DEF Claim, AuditBlocked, Compensate, MidUpdate, Apply, Release,
         ReleaseUnavailableSlotByAudit
    <2> QED BY <2>1, Zenon DEF HandlerStep, ReconcileStep, Begin
  <1>2. (Awake(n) => Awake(n)') /\ policy'.gen = policy.gen
    BY <1>1, AwakeStays, Zenon
  <1>3. ~Fault("apiError") /\ ~Fault("lostReply")
    BY Zenon DEF Fault, ReliableCalls
  <1>4. Claim(n) => /\ pc[n] \in {"claim", "claimAgain"}
                    /\ pc'[n] \in {"failed", "auditBlocked", "pending", "markClaimed"}
    BY <1>3, GotoFields, Zenon DEF Claim
  <1>5. AuditBlocked(n) => pc[n] = "auditBlocked" /\ pc'[n] \in {"claimAgain", "pending"}
    BY <1>3, GotoFields, Zenon DEF AuditBlocked
  <1>6. Compensate(n) => pc[n] = "compensate" /\ pc'[n] = "update" /\ Awake(n)'
    BY <1>3, ReturnFields, RequeueIsAwake, Zenon DEF Compensate
  <1>7. MidUpdate(n) => pc[n] = "midUpdate" /\ pc'[n] \in {"midUpdate", "apply"}
    BY UpdateLabels, Zenon DEF MidUpdate
  <1>8. Apply(n) => pc[n] = "apply" /\ pc'[n] \in {"finalizing", "retryCount"}
    BY GotoFields, Zenon DEF Apply
  <1>9. Release(n) => pc[n] = "release" /\ pc'[n] = "success"
    BY <1>3, GotoFields, Zenon DEF Release
  <1>10. ReleaseUnavailableSlotByAudit(n) => pc[n] = "audit" /\ pc'[n] = "update"
    BY <1>3, ReturnFields, Zenon DEF ReleaseUnavailableSlotByAudit
  <1> USE DEF FilledLabels, MarkedLabels
  <1>11. CASE Claim(n) \/ AuditBlocked(n) \/ Compensate(n)
    BY <1>1, <1>2, <1>4, <1>5, <1>6, <1>11, RestUnwritten, Zenon
  <1>12. CASE MidUpdate(n) \/ Apply(n)
    BY <1>1, <1>2, <1>7, <1>8, <1>12, RestUnwritten, Zenon
  <1>13. CASE Release(n) \/ ReleaseUnavailableSlotByAudit(n)
    BY <1>1, <1>2, <1>9, <1>10, <1>13, RestUnwritten, Zenon
  <1> QED BY <1>11, <1>12, <1>13, Zenon

\* The ends of a reconcile and of a restart.
LEMMA RestEnds ==
    ASSUME TypeOK, NEW n \in Nodes, RestInv(n), DeferredUpdate(n) \/ StartupAudit(n)
    PROVE  RestInv(n)'
  <1>1. HandlerStep(n) /\ ~Begin(n) /\ enactment' = enactment
    <2>1. pc[n] # "idle" /\ enactment' = enactment
      BY Zenon DEF DeferredUpdate, StartupAudit
    <2> QED BY <2>1, Zenon DEF HandlerStep, ReconcileStep, Begin
  <1>2. (Awake(n) => Awake(n)') /\ policy'.gen = policy.gen
    BY <1>1, AwakeStays, Zenon
  <1>3. pc[n] \in {"update", "startupAudit"} /\ pc'[n] \in {"update", "idle"}
    BY UpdateLabels, StartFields, Zenon DEF DeferredUpdate, StartupAudit
  <1>4. Awake(n)' \/ Settled(n)'
    <2>1. CASE DeferredUpdate(n)
      BY <1>1, <1>2, <2>1, Zenon DEF DeferredUpdate, RestInv, Settled
    <2>2. CASE StartupAudit(n)
      BY <2>2, RequeueIsAwake, Zenon DEF StartupAudit
    <2> QED BY <2>1, <2>2, Zenon
  <1> QED BY <1>1, <1>3, <1>4, Zenon DEF RestInv, FilledLabels, MarkedLabels

\* The retries of a later generation are still unused.
LEMMA LaterRetries ==
    ASSUME NEW h \in Nat, NEW e \in Nat, NEW g \in Nat, h > g, e <= g
    PROVE  h > e
  OBVIOUS

\* The start of a reconcile.
LEMMA RestBegins ==
    ASSUME TypeOK, NEW n \in Nodes, RestInv(n), Begin(n)
    PROVE  RestInv(n)'
  <1>1. /\ pc[n] = "idle" /\ pc'[n] \in {"initialize", "fillIn"} /\ enactment' = enactment
        /\ instance'[n] = [gen |-> Cached(n).gen, unknown |-> IsUnknown(Cached(n).cond)]
    BY Zenon DEF Begin, TypeOK
  <1>2. watch' = watch /\ policy'.gen = policy.gen
    <2>1. HandlerStep(n)
      BY Zenon DEF HandlerStep, ReconcileStep
    <2> QED BY <2>1, HandlerKeepsWatch, WritesKeepGeneration, Zenon
  <1>3. instance'[n].gen = Cached(n).gen
    BY <1>1
  <1>4. Awake(n)' \/ instance'[n].gen = policy'.gen
    BY <1>2, <1>3, Zenon DEF Awake, Cached
  <1> QED BY <1>1, <1>4, Zenon DEF RestInv, FilledLabels, MarkedLabels

\* A new enactment.
LEMMA RestInitializes ==
    ASSUME ReliableCalls, TypeOK, NEW n \in Nodes, RestInv(n), Initialize(n)
    PROVE  RestInv(n)'
  <1> DEFINE f == enactment'[n]
  <1>1. (Awake(n) => Awake(n)') /\ policy'.gen = policy.gen
    BY AwakeStays, Zenon DEF HandlerStep, ReconcileStep, Initialize, Begin
  <1>2. ~Fault("apiError")
    BY Zenon DEF Fault, ReliableCalls
  <1>3. /\ pc[n] = "initialize" /\ pc'[n] = "fillIn" /\ instance' = instance
        /\ f = [NoEnactment EXCEPT !.exists = TRUE, !.conds = UnknownConditions]
    BY <1>2, GotoFields, Becomes, Zenon DEF Initialize
  <1>4. f.gen = 0 /\ f.conds = UnknownConditions /\ f.retries = [g \in Generations |-> 0]
    BY <1>3, Zenon DEF NoEnactment
  <1>5. ~Exhausted(f) /\ \A g \in Generations : f.retries[g] = 0
    BY <1>4, Zenon DEF Exhausted
  <1>6. Awake(n)' \/ instance'[n].gen = policy'.gen
    BY <1>1, <1>3, Zenon DEF RestInv
  <1>7. IsAvailable(f.conds) => f.conds.pending # "True"
    BY <1>4, PendingFacts, Zenon
  <1> QED BY <1>3, <1>5, <1>6, <1>7, Zenon DEF RestInv, FilledLabels, MarkedLabels

\* An enactment is filled in.
LEMMA RestFillsIn ==
    ASSUME ReliableCalls, TypeOK, TypeOK', NEW n \in Nodes, NodeInv(n), GenInv(n), RestInv(n),
           FillIn(n)
    PROVE  RestInv(n)'
  <1> DEFINE e == enactment[n]
             f == enactment'[n]
             g == instance[n].gen
  <1>1. (Awake(n) => Awake(n)') /\ policy'.gen = policy.gen
    BY AwakeStays, Zenon DEF HandlerStep, ReconcileStep, FillIn, Begin
  <1>2. ~Fault("apiError")
    BY Zenon DEF Fault, ReliableCalls
  <1>3. /\ pc[n] = "fillIn"
        /\ f = resetPolicyGeneration(e, g)
        /\ pc'[n] = Route(f, e.conds) \/ pc'[n] = "failed"
    BY <1>2, GotoFields, Becomes, Zenon DEF FillIn
  <1>4. e \in Enactments /\ f \in Enactments /\ instance[n] \in Instances
    BY Zenon DEF TypeOK
  <1>5. /\ f.gen = g /\ f.retries = e.retries
        /\ f.conds = IF e.gen # g THEN NoConditions ELSE e.conds
    BY <1>3, <1>4, Zenon DEF resetPolicyGeneration, Enactments
  <1>6. e.gen <= g /\ g # 0 /\ e.gen \in Nat /\ g \in Nat /\ g \in Generations
    <2>1. e.gen <= g /\ g # 0
      BY <1>3, Zenon DEF GenInv, NodeInv, Gen
    <2>2. e.gen \in Nat /\ g \in 0..MaxGeneration
      BY <1>4, GenTypes, Zenon DEF Gen, Instances
    <2> HIDE DEF g
    <2> QED BY <2>1, <2>2, BoundsAssumption DEF Generations
  <1>7. \A h \in Generations : h > f.gen => f.retries[h] = 0
    <2> SUFFICES ASSUME NEW h \in Generations, h > f.gen PROVE f.retries[h] = 0
      BY Zenon
    <2>1. h \in Nat
      BY BoundsAssumption DEF Generations
    <2>2. h > e.gen
      BY <1>5, <1>6, <2>1, LaterRetries, Zenon
    <2> QED BY <1>5, <2>2, Zenon DEF RestInv
  <1>8. Exhausted(f) => IsTerminallyFailed(f.conds)
    <2>1. CASE e.gen = g
      <3>1. f.conds = e.conds /\ (Exhausted(f) <=> Exhausted(e))
        BY <1>5, <2>1, Zenon DEF Exhausted
      <3> QED BY <1>3, <3>1, Zenon DEF RestInv
    <2>2. CASE e.gen # g
      <3>1. g > e.gen
        <4> HIDE DEF g, e
        <4> QED BY <1>6, <2>2
      <3>2. f.retries[f.gen] = 0
        BY <1>5, <1>6, <3>1, Zenon DEF RestInv
      <3> QED BY <3>2, NoRetriesLeaveSome, Zenon
    <2> QED BY <2>1, <2>2, Zenon
  <1>9. IsAvailable(f.conds) => f.conds.pending # "True"
    BY <1>5, PendingFacts, Zenon DEF RestInv
  <1>10. \/ pc'[n] = "update" /\ Exhausted(f)
         \/ pc'[n] = "audit" /\ IsAvailable(f.conds)
         \/ pc'[n] \in {"finalizeInterrupted", "mark", "claim"} /\ ~Exhausted(f)
         \/ pc'[n] = "failed"
    BY <1>3, Zenon DEF Route
  <1>11. Awake(n)' \/ f.gen = policy'.gen
    BY <1>1, <1>3, <1>5, Zenon DEF RestInv
  <1>12. pc'[n] = "update" => Awake(n)' \/ Settled(n)'
    BY <1>8, <1>10, <1>11, Zenon DEF Settled
  <1> HIDE DEF g, e
  <1> QED BY <1>7, <1>8, <1>9, <1>10, <1>11, <1>12, Zenon
          DEF RestInv, FilledLabels, MarkedLabels, Gen

\* A failed apply is counted.
LEMMA RestRetries ==
    ASSUME ReliableCalls, TypeOK, TypeOK', NEW n \in Nodes, NodeInv(n), RestInv(n),
           IncrementRetryCount(n)
    PROVE  RestInv(n)'
  <1> DEFINE e == enactment[n]
             f == enactment'[n]
             k == e.retries[e.gen] + 1
  <1>1. (Awake(n) => Awake(n)') /\ policy'.gen = policy.gen
    BY AwakeStays, Zenon DEF HandlerStep, ReconcileStep, IncrementRetryCount, Begin
  <1>2. ~Fault("apiError") /\ ~Fault("lostReply")
    BY Zenon DEF Fault, ReliableCalls
  <1>3. /\ pc[n] = "retryCount"
        /\ f = [e EXCEPT !.retries[e.gen] = @ + 1]
        /\ pc'[n] = IF k >= RetriesUntilFail THEN "failed" ELSE "retrying"
    BY <1>2, GotoFields, Zenon DEF IncrementRetryCount, TypeOK, Gen
  <1>4. e \in Enactments /\ e.gen # 0 /\ IsProgressing(e.conds) /\ ~IsFinalizing(e.conds)
    BY <1>3, Zenon DEF TypeOK, NodeInv, RestInv, FilledLabels, MarkedLabels, IsUncommitted,
       Committed
  <1>5. /\ f.gen = e.gen /\ f.conds = e.conds
        /\ f.retries = [e.retries EXCEPT ![e.gen] = @ + 1]
    BY <1>3, <1>4, Zenon DEF Enactments
  <1>6. e.gen \in Generations /\ e.gen \in Nat /\ e.retries \in [Generations -> Nat]
    <2>1. e.gen \in 0..MaxGeneration /\ e.retries \in [Generations -> Nat]
      BY <1>4, Zenon DEF Enactments
    <2> HIDE DEF e
    <2> QED BY <1>4, <2>1, BoundsAssumption DEF Generations
  <1>7. f.retries[f.gen] = k /\ \A h \in Generations \ {e.gen} : f.retries[h] = e.retries[h]
    BY <1>5, <1>6, Zenon
  <1>8. \A h \in Generations : h > f.gen => f.retries[h] = 0
    <2> SUFFICES ASSUME NEW h \in Generations, h > e.gen PROVE f.retries[h] = 0
      BY <1>5, Zenon
    <2>1. h # e.gen
      <3>1. h \in Nat
        BY BoundsAssumption DEF Generations
      <3> HIDE DEF e
      <3> QED BY <1>6, <3>1
    <2> QED BY <1>7, <2>1, Zenon DEF RestInv
  <1>9. Exhausted(f) => k >= RetriesUntilFail
    BY <1>7, Zenon DEF Exhausted
  <1>10. Awake(n)' \/ f.gen = policy'.gen
    BY <1>1, <1>3, <1>5, Zenon DEF RestInv, FilledLabels, Gen
  <1>11. \/ pc'[n] = "failed"
         \/ pc'[n] = "retrying" /\ ~Exhausted(f)
    BY <1>3, <1>9, Zenon
  <1>12. IsAvailable(f.conds) => f.conds.pending # "True"
    BY <1>5, Zenon DEF RestInv
  <1>13. IsProgressing(f.conds) /\ ~IsFinalizing(f.conds)
    BY <1>4, <1>5, Zenon
  <1> HIDE DEF e, k
  <1> QED BY <1>8, <1>10, <1>11, <1>12, <1>13, Zenon DEF RestInv, FilledLabels, MarkedLabels, Gen

\* A restart.
LEMMA RestReclaims ==
    ASSUME ReliableCalls, TypeOK, NEW n \in Nodes, RestInv(n), ReclaimInterruptedSlots(n)
    PROVE  RestInv(n)'
  <1> DEFINE e == enactment[n]
             f == enactment'[n]
  <1>1. ~Fault("apiError")
    BY Zenon DEF Fault, ReliableCalls
  <1>2. e \in Enactments /\ pc[n] = "down"
    BY Zenon DEF ReclaimInterruptedSlots, TypeOK
  <1>3. CASE ~IsProgressing(e.conds) /\ enactment' = enactment /\ StartControllers(n)
    <2>1. pc'[n] = "idle" /\ Awake(n)'
      BY <1>3, StartFields, RequeueIsAwake, Zenon
    <2> QED BY <1>3, <2>1, Zenon DEF RestInv, FilledLabels, MarkedLabels
  <1>4. CASE IsProgressing(e.conds) /\ f = Recovered(e) /\ pc'[n] = "startupAudit"
    <2>1. f.gen = e.gen /\ f.conds \in {SetSuccess, SetPending}
      BY <1>2, <1>4, RecoveredFields, Zenon
    <2>2. IsAvailable(f.conds) => f.conds.pending # "True"
      BY <2>1, PendingFacts, Zenon
    <2>3. \A h \in Generations : f.retries[h] \in {0, e.retries[h]}
      <3>1. CASE IsFinalizing(e.conds)
        <4>1. f.retries = e.retries
          BY <1>2, <1>4, <3>1, RecoveredFields, Zenon
        <4> QED BY <4>1, Zenon
      <3>2. CASE ~IsFinalizing(e.conds)
        <4>1. f.retries = [g \in Generations |-> IF g = e.gen THEN 0 ELSE e.retries[g]]
          BY <1>2, <1>4, <3>2, RecoveredFields, Zenon
        <4> QED BY <4>1, Zenon
      <3> QED BY <3>1, <3>2, Zenon
    <2>4. \A h \in Generations : h > f.gen => f.retries[h] = 0
      BY <2>1, <2>3, Zenon DEF RestInv
    <2>5. ~Exhausted(f)
      <3>1. CASE IsFinalizing(e.conds)
        <4>1. f.retries = e.retries
          BY <1>2, <1>4, <3>1, RecoveredFields, Zenon
        <4>2. ~Exhausted(e)
          BY <1>4, <3>1, PredicateFacts, Zenon DEF RestInv
        <4> QED BY <2>1, <4>1, <4>2, Zenon DEF Exhausted
      <3>2. CASE ~IsFinalizing(e.conds)
        <4>1. f.retries = [g \in Generations |-> IF g = e.gen THEN 0 ELSE e.retries[g]]
          BY <1>2, <1>4, <3>2, RecoveredFields, Zenon
        <4>2. e.gen # 0 => e.gen \in Generations
          <5>1. e.gen \in 0..MaxGeneration
            BY <1>2, Zenon DEF Enactments
          <5> HIDE DEF e
          <5> QED BY <5>1, BoundsAssumption DEF Generations
        <4>3. f.gen # 0 => f.retries[f.gen] = 0
          BY <2>1, <4>1, <4>2, Zenon
        <4> QED BY <4>3, NoRetriesLeaveSome, Zenon
      <3> QED BY <3>1, <3>2, Zenon
    <2> QED BY <1>4, <2>2, <2>4, <2>5, Zenon DEF RestInv, FilledLabels, MarkedLabels
  <1> QED BY <1>1, <1>3, <1>4, GotoFields, Becomes, Zenon DEF ReclaimInterruptedSlots

\* What is around a handler does not put it to sleep, short of a crash.
LEMMA EnvironmentWakes ==
    ASSUME TypeOK, NEW n \in Nodes, NodeEnvironment(n), ~Crash(n)
    PROVE  Awake(n) => Awake(n)'
  <1>1. policy'.gen = policy.gen
    BY WritesKeepGeneration, Zenon
  <1>2. CASE HeartbeatExpires(n) \/ ReadinessChanges(n)
    BY <1>1, <1>2, Zenon DEF HeartbeatExpires, ReadinessChanges, Awake
  <1>3. CASE WatchBreaks(n) \/ WatchRecovers(n) \/ OldList(n) \/ Relabel(n)
    <2>1. /\ WatchBreaks(n) \/ OldList(n) => ~watch[n].broken /\ queued' = queued
          /\ WatchRecovers(n) => queued'[n] = (queued[n] \/ watch[n].seen.gen # policy.gen)
          /\ Relabel(n) => queued'[n]
      BY Zenon DEF WatchBreaks, WatchRecovers, OldList, Relabel, TypeOK
    <2> QED BY <1>3, <2>1, Zenon DEF Awake
  <1> QED BY <1>2, <1>3, Zenon DEF NodeEnvironment

\* An edit wakes every handler that runs: a cache that does not show it is behind.
LEMMA EditsAreSeen ==
    ASSUME TypeOK, EditPolicy, NEW n \in Nodes, GenInv(n)
    PROVE  pc[n] = "down" \/ Awake(n)'
  <1>1. /\ queued'[n] = (queued[n] \/ (pc[n] # "down" /\ ~watch[n].broken)) /\ watch' = watch
        /\ policy'.gen = policy.gen + 1
    BY Zenon DEF EditPolicy, Write, TypeOK, Policies
  <1>2. watch[n].broken => watch[n].seen.gen # policy.gen + 1
    <2>1. policy.gen \in Nat /\ watch[n].seen.gen \in Nat
      BY GenTypes
    <2> QED BY <2>1 DEF GenInv
  <1> QED BY <1>1, <1>2, Zenon DEF Awake

\* A step of what is around a handler.
LEMMA RestEnvironment ==
    ASSUME TypeOK, NEW n \in Nodes, RestInv(n), NodeEnvironment(n)
    PROVE  RestInv(n)'
  <1>1. policy'.gen = policy.gen /\ policy \in Policies
    BY WritesKeepGeneration, Zenon DEF TypeOK
  <1>2. /\ enactment'[n].gen = enactment[n].gen /\ enactment'[n].conds = enactment[n].conds
        /\ enactment'[n].retries = enactment[n].retries
    <2>1. enactment'[n] = enactment[n] \/ enactment'[n] = [enactment[n] EXCEPT !.fresh = FALSE]
      BY Zenon DEF NodeEnvironment, Crash, HeartbeatExpires, WatchBreaks, WatchRecovers, OldList,
         Relabel, ReadinessChanges, TypeOK
    <2>2. enactment[n] \in Enactments
      BY Zenon DEF TypeOK
    <2> QED BY <2>1, <2>2, Zenon DEF Enactments
  <1>3. CASE Crash(n)
    <2>1. pc'[n] = "down"
      BY <1>3, Zenon DEF Crash, TypeOK
    <2>2. Exhausted(enactment'[n]) <=> Exhausted(enactment[n])
      BY <1>2, Zenon DEF Exhausted
    <2> QED BY <1>2, <2>1, <2>2, Zenon DEF RestInv, FilledLabels, MarkedLabels
  <1>4. CASE ~Crash(n)
    <2>1. pc'[n] = pc[n] /\ instance'[n] = instance[n]
      BY <1>4, Zenon DEF NodeEnvironment, HeartbeatExpires, WatchBreaks, WatchRecovers, OldList,
         Relabel, ReadinessChanges
    <2>2. Awake(n) => Awake(n)'
      BY <1>4, EnvironmentWakes, Zenon
    <2> QED BY <1>1, <1>2, <2>1, <2>2, RestStays, Zenon
  <1> QED BY <1>3, <1>4, Zenon

\* Every step keeps RestInv of every node.
LEMMA RestNext ==
    ASSUME ReliableCalls, FaultInv, [Next]_vars, NEW m \in Nodes, GenInv(m), RestInv(m)
    PROVE  RestInv(m)'
  <1>1. TypeOK /\ TypeOK' /\ NodeInv(m)
    BY TypeNext, Zenon DEF FaultInv
  <1>2. ASSUME NEW n \in Nodes, HandlerStep(n) \/ NodeEnvironment(n) PROVE RestInv(m)'
    <2>1. CASE m # n
      <3>1. pc'[m] = pc[m] /\ enactment'[m] = enactment[m] /\ instance'[m] = instance[m]
        BY <1>1, <1>2, <2>1, StepsAreLocal, Zenon
      <3>2. watch'[m] = watch[m] /\ queued'[m] = queued[m]
        BY <1>1, <1>2, <2>1, HandlerKeepsWatch, EnvironmentIsLocal, Zenon
      <3>3. policy'.gen = policy.gen
        BY <1>1, <1>2, WritesKeepGeneration
      <3>4. Awake(m) => Awake(m)'
        BY <3>2, <3>3, Zenon DEF Awake
      <3> QED BY <3>1, <3>3, <3>4, RestStays, Zenon
    <2>2. CASE m = n /\ NodeEnvironment(n)
      BY <1>1, <2>2, RestEnvironment, Zenon
    <2>3. CASE m = n /\ HandlerStep(n)
      BY <1>1, <2>3, RestNotifies, RestQuiet, RestEnds, RestBegins, RestInitializes, RestFillsIn,
         RestRetries, RestReclaims, Zenon DEF HandlerStep, ReconcileStep
    <2> QED BY <1>2, <2>1, <2>2, <2>3, Zenon
  <1>3. CASE GraceExpires \/ UNCHANGED vars
    <2>1. /\ pc' = pc /\ enactment' = enactment /\ instance' = instance /\ watch' = watch
          /\ queued' = queued /\ policy'.gen = policy.gen
      BY <1>1, <1>3, Zenon DEF GraceExpires, vars, TypeOK, Policies
    <2>2. Awake(m) => Awake(m)'
      BY <2>1, Zenon DEF Awake
    <2> QED BY <2>1, <2>2, RestStays, Zenon
  <1>4. CASE EditPolicy
    <2>1. /\ pc' = pc /\ enactment' = enactment /\ instance' = instance
      BY <1>4, Zenon DEF EditPolicy
    <2>2. pc[m] = "down" \/ Awake(m)'
      BY <1>1, <1>4, EditsAreSeen, Zenon
    <2> QED BY <2>1, <2>2, RestStays, Zenon
  <1> QED BY <1>2, <1>3, <1>4, Zenon DEF Next

\* At first every handler has the policy in its queue.
LEMMA RestInit == ASSUME Init, NEW n \in Nodes PROVE RestInv(n)
  <1>1. enactment[n] = NoEnactment /\ pc[n] = "idle" /\ queued[n]
    BY Zenon DEF Init
  <1>2. /\ NoEnactment.gen = 0 /\ NoEnactment.conds = NoConditions
        /\ NoEnactment.retries = [g \in Generations |-> 0]
    BY DEF NoEnactment
  <1>3. ~Exhausted(enactment[n]) /\ \A g \in Generations : enactment[n].retries[g] = 0
    BY <1>1, <1>2, Zenon DEF Exhausted
  <1>4. Awake(n)
    BY <1>1, Zenon DEF Awake
  <1>5. IsAvailable(enactment[n].conds) => enactment[n].conds.pending # "True"
    BY <1>1, <1>2, PendingFacts, Zenon
  <1> QED BY <1>1, <1>3, <1>4, <1>5, Zenon DEF RestInv, FilledLabels, MarkedLabels

\* What is written of a rollout that is over.
Tells(cond) ==
    /\ cond \in {"Available", "Degraded"}
    /\ cond = "Available" => \A n \in Nodes : IsAvailable(enactment[n].conds)

\* When the enactments of all nodes are final, the status says how it went.
LEMMA FinalStatus ==
    ASSUME TypeOK, \A n \in Nodes : NodeInv(n) /\ RestInv(n) /\ Settled(n)
    PROVE  Tells(policyCond(enactment, policy.gen, Nodes, ReadyNodes))
  <1> DEFINE g == policy.gen
             A == Available(enactment, g)
             F == Failed(enactment, g)
             B == Aborted(enactment, g)
             cond == policyCond(enactment, g, Nodes, ReadyNodes)
  <1>1. policy \in Policies /\ DOMAIN enactment = Nodes
    BY Zenon DEF TypeOK
  <1>2. g # 0
    <2>1. g \in Generations
      BY <1>1, Zenon DEF Policies
    <2> HIDE DEF g
    <2> QED BY <2>1, BoundsAssumption DEF Generations
  <1>4. CASE F \cup B # {}
    <2>1. cond = "Degraded"
      BY <1>4, NodesAssumption, Zenon DEF policyCond
    <2> QED BY <2>1, Zenon DEF Tells
  <1>5. CASE F \cup B = {}
    <2>1. ASSUME NEW n \in Nodes
          PROVE  /\ enactment[n].exists /\ enactment[n].gen = g
                 /\ enactment[n].conds.available = "True" /\ enactment[n].conds.pending # "True"
      <3>1. enactment[n].gen = g /\ enactment[n].exists
        BY <1>2, Zenon DEF Settled, NodeInv
      <3>2. n \notin F /\ n \notin B
        BY <1>5, Zenon
      <3>3. enactment[n].conds.failing # "True" /\ enactment[n].conds.aborted # "True"
        BY <1>1, <3>1, <3>2, Zenon DEF Failed, Aborted
      <3>4. IsAvailable(enactment[n].conds)
        BY <3>3, Zenon DEF Settled, IsTerminallyFailed
      <3> QED BY <3>1, <3>4, Zenon DEF RestInv, IsAvailable
    <2>2. A = Nodes /\ Pending(enactment, g) = {}
      BY <1>1, <2>1, Zenon DEF Available, Pending
    <2>3. Cardinality(F) = 0 /\ Cardinality(B) = 0
      <3>1. F = {} /\ B = {}
        BY <1>5, Zenon
      <3> QED BY <3>1, FS_EmptySet, Zenon
    <2>4. /\ Cardinality(Nodes) \in Nat /\ Cardinality(ReadyNodes) \in Nat
          /\ Cardinality(ReadyNodes) <= Cardinality(Nodes)
      <3>1. ReadyNodes \subseteq Nodes
        BY Zenon DEF ReadyNodes
      <3> QED BY <3>1, NodesAssumption, FS_Subset, FS_CardinalityType, Zenon
    <2>5. numberOfFinishedEnactments(enactment, g)
              = Cardinality(A) + Cardinality(F) + Cardinality(B)
      BY Zenon DEF numberOfFinishedEnactments
    <2> HIDE DEF A, F, B
    <2>6. ~(numberOfFinishedEnactments(enactment, g) < Cardinality(ReadyNodes))
      BY <2>2, <2>3, <2>4, <2>5
    <2>7. cond = "Available"
      BY <1>5, <2>2, <2>6, NodesAssumption, Zenon DEF policyCond, A, F, B
    <2>8. \A n \in Nodes : IsAvailable(enactment[n].conds)
      BY <2>1, Zenon DEF IsAvailable
    <2> QED BY <2>7, <2>8, Zenon DEF Tells
  <1> QED BY <1>4, <1>5, Zenon

\* A handler that takes a step other than the last one of a reconcile is not at
\* rest.
LEMMA RunsOn ==
    ASSUME TypeOK, NEW n \in Nodes, HandlerStep(n), ~DeferredUpdate(n)
    PROVE  ~Resting(n)'
  <1>1. CASE StartupAudit(n) \/ (ReclaimInterruptedSlots(n) /\ pc'[n] = "idle")
    <2>1. StartControllers(n)
      <3>1. CASE StartupAudit(n)
        BY <3>1, Zenon DEF StartupAudit
      <3>2. CASE ReclaimInterruptedSlots(n) /\ pc'[n] = "idle"
        <4>1. Goto(n, "startupAudit") => pc'[n] = "startupAudit"
          BY GotoFields, Zenon
        <4> QED BY <3>2, <4>1, Zenon DEF ReclaimInterruptedSlots
      <3> QED BY <1>1, <3>1, <3>2
    <2> QED BY <2>1, RequeueIsAwake, Zenon DEF Resting
  <1>2. CASE ~StartupAudit(n) /\ ~(ReclaimInterruptedSlots(n) /\ pc'[n] = "idle")
    <2>1. CASE \/ NotifyPending(n) \/ AbortCheck(n) \/ NotifyProgressing(n)
               \/ NotifyFailedToConfigure(n) \/ NotifyRetrying(n) \/ NotifyFinalizing(n)
               \/ NotifySuccess(n) \/ FinalizeInterruptedApply(n)
      BY <2>1, NotifyLabels, Zenon DEF Resting
    <2>2. CASE \/ AuditBlocked(n) \/ Compensate(n) \/ MidUpdate(n) \/ Apply(n) \/ Release(n)
               \/ ReleaseUnavailableSlotByAudit(n)
      BY <2>2, QuietLabels, Zenon DEF Resting
    <2>3. CASE \/ Begin(n) \/ Initialize(n) \/ FillIn(n) \/ Claim(n) \/ IncrementRetryCount(n)
      BY <2>3, WriteLabels, Zenon DEF Resting
    <2>4. CASE ReclaimInterruptedSlots(n)
      BY <1>2, <2>4, Zenon DEF Resting
    <2> QED BY <1>2, <2>1, <2>2, <2>3, <2>4, Zenon DEF HandlerStep, ReconcileStep
  <1> QED BY <1>1, <1>2, Zenon

-----------------------------------------------------------------------------
(* What the policy tells *)

\* The handler of n is still to write the policy, or to start again: its
\* deferred update has computed a status, or may.
WillUpdate(n) ==
    /\ ~Resting(n)
    /\ pc[n] = "update" /\ ~Awake(n) =>
          \/ policyStatus[n].cond # "None"
          \/ policyStatus[n].attempt < UpdateAttempts

\* And it does so also when another handler writes the policy first.
WillUpdateAgain(n) ==
    /\ ~Resting(n)
    /\ pc[n] = "update" /\ ~Awake(n) =>
          \/ policyStatus[n].attempt = 0
          \/ policyStatus[n].attempt = 1 /\ policyStatus[n].cond # "None"

\* A status is computed in policyconditions.Update only.
Unused(n) == policyStatus[n].attempt = 0 /\ policyStatus[n].cond = "None"

StatusInv(n) == pc[n] \notin {"midUpdate", "update"} => Unused(n)

\* What n is about to write is right, or somebody writes after it.
StatusTold(n) ==
    policyStatus[n].cond # "None" =>
        \/ Tells(policyStatus[n].cond)
        \/ Awake(n)
        \/ pc[n] = "midUpdate"
        \/ \E m \in Nodes \ {n} : WillUpdateAgain(m)

\* What is written is right.
PolicyTold ==
    /\ Tells(policy.cond)
    /\ policy.cond = "Available" => \A g \in Generations : policy.count[g] = 0

\* The invariant: what the policy says is right, or somebody is to correct it.
ToldInv ==
    /\ PolicyTold \/ \E n \in Nodes : WillUpdate(n)
    /\ \A n \in Nodes : StatusInv(n) /\ StatusTold(n)

LEMMA NoStatusFields == NoStatus.attempt = 0 /\ NoStatus.cond = "None"
  BY DEF NoStatus

\* A handler whose label and status stay, and that stays awake.
LEMMA WillStays ==
    ASSUME NEW m \in Nodes, pc'[m] = pc[m], Awake(m) => Awake(m)',
           policyStatus'[m] = policyStatus[m]
    PROVE  /\ WillUpdate(m) => WillUpdate(m)'
           /\ WillUpdateAgain(m) => WillUpdateAgain(m)'
           /\ StatusInv(m) => StatusInv(m)'
  BY Zenon DEF WillUpdate, WillUpdateAgain, StatusInv, Unused, Resting

\* A handler whose status another one makes outdated.
LEMMA WillOutdate ==
    ASSUME UpdateAttempts >= 2, NEW m \in Nodes, pc'[m] = pc[m], Awake(m) => Awake(m)',
           policyStatus'[m].attempt = policyStatus[m].attempt, policyStatus'[m].cond = "None"
    PROVE  /\ WillUpdateAgain(m) => WillUpdate(m)'
           /\ StatusInv(m) => StatusInv(m)'
           /\ StatusTold(m)'
  <1>1. 0 < UpdateAttempts /\ 1 < UpdateAttempts
    BY BoundsAssumption
  <1> QED BY <1>1, Zenon DEF WillUpdate, WillUpdateAgain, StatusInv, StatusTold, Unused, Resting

\* A handler that runs, outside policyconditions.Update.
LEMMA WillRun ==
    ASSUME NEW n \in Nodes, pc'[n] # "update" \/ Awake(n)', ~Resting(n)'
    PROVE  WillUpdate(n)' /\ WillUpdateAgain(n)'
  BY Zenon DEF WillUpdate, WillUpdateAgain

\* What a write does to a status.
LEMMA WriteOutdates ==
    ASSUME TypeOK, NEW m \in Nodes, \E p : Write(p)
    PROVE  /\ policyStatus'[m].attempt = policyStatus[m].attempt
           /\ policyStatus'[m].cond = "None"
  <1>1. policyStatus[m] \in PolicyStatuses /\ policyStatus'[m] = Outdated(policyStatus[m])
    BY Zenon DEF Write, TypeOK
  <1> QED BY <1>1, Zenon DEF Outdated, PolicyStatuses

\* Outside policyconditions.Update a handler writes the policy or leaves it alone,
\* and has computed no status.
LEMMA StepWrites ==
    ASSUME NEW n \in Nodes, HandlerStep(n), ~MidUpdate(n), ~DeferredUpdate(n)
    PROVE  (NoWrite \/ \E p : Write(p)) /\ pc[n] \notin {"midUpdate", "update"}
  <1>1. CASE \/ NotifyPending(n) \/ AbortCheck(n) \/ NotifyProgressing(n)
             \/ NotifyFailedToConfigure(n) \/ NotifyRetrying(n) \/ NotifyFinalizing(n)
             \/ NotifySuccess(n) \/ FinalizeInterruptedApply(n)
    BY <1>1, Zenon DEF NotifyPending, AbortCheck, NotifyProgressing, NotifyFailedToConfigure,
       NotifyRetrying, NotifyFinalizing, NotifySuccess, FinalizeInterruptedApply, NoWrite
  <1>2. CASE \/ Initialize(n) \/ FillIn(n) \/ IncrementRetryCount(n)
             \/ ReclaimInterruptedSlots(n) \/ Apply(n)
    BY <1>2, Zenon DEF Initialize, FillIn, IncrementRetryCount, ReclaimInterruptedSlots, Apply,
       NoWrite
  <1>3. CASE Begin(n) \/ Claim(n) \/ Compensate(n) \/ Release(n)
    BY <1>3, Zenon DEF Begin, Claim, Compensate, Release, NoWrite
  <1>4. CASE AuditBlocked(n) \/ ReleaseUnavailableSlotByAudit(n) \/ StartupAudit(n)
    BY <1>4, Zenon DEF AuditBlocked, ReleaseUnavailableSlotByAudit, StartupAudit, Audit,
       AuditRepair, NoWrite
  <1> QED BY <1>1, <1>2, <1>3, <1>4, Zenon DEF HandlerStep, ReconcileStep

\* A handler leaves the others where they are.
LEMMA OthersStay ==
    ASSUME TypeOK, NEW n \in Nodes, HandlerStep(n), NEW m \in Nodes \ {n}
    PROVE  pc'[m] = pc[m] /\ (Awake(m)' <=> Awake(m)) /\ enactment'[m] = enactment[m]
  <1>1. pc'[m] = pc[m] /\ enactment'[m] = enactment[m]
    BY StepsAreLocal, Zenon
  <1>2. watch' = watch /\ queued'[m] = queued[m] /\ policy'.gen = policy.gen
    BY HandlerKeepsWatch, WritesKeepGeneration, Zenon
  <1> QED BY <1>1, <1>2, Zenon DEF Awake

\* A step outside policyconditions.Update: its handler is to write the policy.
LEMMA ToldRuns ==
    ASSUME UpdateAttempts >= 2, TypeOK, ToldInv, NEW n \in Nodes, HandlerStep(n),
           ~MidUpdate(n), ~DeferredUpdate(n)
    PROVE  ToldInv'
  <1>1. (NoWrite \/ \E p : Write(p)) /\ Unused(n)
    BY StepWrites, Zenon DEF ToldInv, StatusInv
  <1>2. policyStatus'[n].attempt = 0 /\ policyStatus'[n].cond = "None"
    BY <1>1, WriteOutdates, Zenon DEF Unused, NoWrite
  <1>3. WillUpdate(n)' /\ WillUpdateAgain(n)' /\ StatusInv(n)' /\ StatusTold(n)'
    <2>1. ~Resting(n)'
      BY RunsOn, Zenon
    <2>2. 0 < UpdateAttempts
      BY BoundsAssumption
    <2> QED BY <1>2, <2>1, <2>2, Zenon
            DEF WillUpdate, WillUpdateAgain, StatusInv, StatusTold, Unused
  <1>4. ASSUME NEW m \in Nodes \ {n} PROVE StatusInv(m)' /\ StatusTold(m)'
    <2>1. pc'[m] = pc[m] /\ (Awake(m) => Awake(m)') /\ StatusInv(m)
      BY OthersStay, Zenon DEF ToldInv
    <2>2. CASE NoWrite
      <3>1. StatusInv(m)'
        BY <2>1, <2>2, WillStays, Zenon DEF NoWrite
      <3>2. n \in Nodes \ {m}
        OBVIOUS
      <3> QED BY <1>3, <3>1, <3>2, Zenon DEF StatusTold
    <2>3. CASE \E p : Write(p)
      BY <2>1, <2>3, WriteOutdates, WillOutdate, Zenon
    <2> QED BY <1>1, <2>2, <2>3, Zenon
  <1> QED BY <1>3, <1>4, Zenon DEF ToldInv

\* A step of policyconditions.Update computes the status of the policy.
LEMMA ToldLists ==
    ASSUME TypeOK, \A m \in Nodes : NodeInv(m) /\ RestInv(m), ToldInv,
           NEW n \in Nodes, MidUpdate(n) \/ DeferredUpdate(n), HandlerStep(n), ListStep(n)
    PROVE  ToldInv'
  <1>1. /\ pc'[n] = pc[n] /\ pc[n] \in {"midUpdate", "update"} /\ enactment' = enactment
        /\ Awake(n) => Awake(n)'
    BY AwakeStays, Zenon DEF MidUpdate, DeferredUpdate, ListStep, Begin
  <1>2. /\ policyStatus'[n].attempt = policyStatus[n].attempt + 1
        /\ policyStatus'[n].cond = policyCond(enactment, policy.gen, Nodes, ReadyNodes)
        /\ policyStatus[n].cond = "None" /\ policy' = policy
    BY Zenon DEF ListStep
  <1>3. policyStatus'[n].cond # "None"
    <2>1. policyStatus'[n].cond \in PolicyConds
      BY <1>2, policyCondType, Zenon
    <2> QED BY <2>1, Zenon DEF PolicyConds
  <1>4. WillUpdate(n)' /\ StatusInv(n)'
    BY <1>1, <1>3, Zenon DEF WillUpdate, StatusInv, Resting
  <1>5. \A c : Tells(c)' <=> Tells(c)
    BY <1>1, Zenon DEF Tells
  <1>6. ASSUME NEW m \in Nodes, WillUpdateAgain(m) PROVE WillUpdateAgain(m)'
    <2>1. CASE m # n
      BY <1>6, <2>1, OthersStay, WillStays, Zenon DEF ListStep
    <2>2. CASE m = n
      <3>1. policyStatus[n].attempt = 0 => policyStatus'[n].attempt = 1
        BY <1>2
      <3> QED BY <1>1, <1>2, <1>3, <1>6, <2>2, <3>1, Zenon DEF WillUpdateAgain, Resting
    <2> QED BY <2>1, <2>2, Zenon
  <1>7. ASSUME NEW m \in Nodes \ {n} PROVE StatusInv(m)' /\ StatusTold(m)'
    <2>1. pc'[m] = pc[m] /\ (Awake(m) => Awake(m)') /\ policyStatus'[m] = policyStatus[m]
      BY OthersStay, Zenon DEF ListStep
    <2>2. StatusInv(m)'
      BY <2>1, WillStays, Zenon DEF ToldInv
    <2>3. StatusTold(m)
      BY Zenon DEF ToldInv
    <2> QED BY <1>5, <1>6, <2>1, <2>2, <2>3, Zenon DEF StatusTold
  <1>8. StatusTold(n)'
    <2>1. CASE pc[n] = "midUpdate" \/ Awake(n)
      BY <1>1, <2>1, Zenon DEF StatusTold
    <2>2. CASE \E m \in Nodes \ {n} : WillUpdateAgain(m)
      BY <1>6, <2>2, Zenon DEF StatusTold
    <2>3. CASE /\ pc[n] = "update" /\ ~Awake(n)
               /\ ~ \E m \in Nodes \ {n} : WillUpdateAgain(m)
      <3>1. ASSUME NEW m \in Nodes PROVE Settled(m)
        <4>1. pc[m] \in {"update", "idle"} /\ ~Awake(m)
          <5>1. CASE m = n
            BY <2>3, <5>1, Zenon
          <5>2. CASE m # n
            BY <2>3, <5>2, Zenon DEF WillUpdateAgain, Resting
          <5> QED BY <5>1, <5>2, Zenon
        <4> QED BY <4>1, Zenon DEF RestInv
      <3>2. Tells(policyStatus'[n].cond)
        BY <1>2, <3>1, FinalStatus, Zenon
      <3> QED BY <1>5, <3>2, Zenon DEF StatusTold
    <2> QED BY <1>1, <2>1, <2>2, <2>3, Zenon
  <1> QED BY <1>4, <1>7, <1>8, Zenon DEF ToldInv

\* It writes what it computed.
LEMMA ToldWrites ==
    ASSUME UpdateAttempts >= 2, TypeOK, ToldInv, NEW n \in Nodes, NEW l \in {"apply", "idle"},
           pc[n] = "midUpdate" => l = "apply", HandlerStep(n), ~Begin(n),
           enactment' = enactment, WriteStep(n, l), ~Fault("lostReply")
    PROVE  ToldInv'
  <1>1. /\ policyStatus[n].cond # "None"
        /\ policy' = setPolicyStatus(policy, policyStatus[n].cond)
        /\ pc'[n] = l /\ policyStatus'[n] = NoStatus
    BY Zenon DEF WriteStep
  <1>2. Awake(n) => Awake(n)'
    BY AwakeStays, Zenon
  <1>3. StatusInv(n)' /\ StatusTold(n)'
    <2>1. policyStatus'[n].attempt = 0 /\ policyStatus'[n].cond = "None"
      BY <1>1, NoStatusFields, Zenon
    <2> QED BY <2>1, Zenon DEF StatusInv, StatusTold, Unused
  <1>4. ASSUME NEW m \in Nodes \ {n}
        PROVE  StatusInv(m)' /\ StatusTold(m)' /\ (WillUpdateAgain(m) => WillUpdate(m)')
    <2>1. /\ pc'[m] = pc[m] /\ (Awake(m) => Awake(m)') /\ StatusInv(m)
          /\ policyStatus'[m].attempt = policyStatus[m].attempt
          /\ policyStatus'[m].cond = "None"
      BY OthersStay, Zenon DEF WriteStep, ToldInv
    <2> QED BY <2>1, WillOutdate, Zenon
  <1>5. PolicyTold' \/ \E m \in Nodes : WillUpdate(m)'
    <2>1. CASE Tells(policyStatus[n].cond)
      <3>1. policy \in Policies
        BY Zenon DEF TypeOK
      <3>2. policy'.cond = policyStatus[n].cond
        BY <1>1, <3>1, setPolicyStatusFields, Zenon
      <3>3. policy'.cond = "Available" => \A g \in Generations : policy'.count[g] = 0
        <4>1. policyStatus[n].cond = "Available" =>
                setPolicyStatus(policy, policyStatus[n].cond).count = [g \in Generations |-> 0]
          BY <3>1, setPolicyStatusFields, Zenon
        <4> QED BY <1>1, <3>2, <4>1, Zenon
      <3>4. Tells(policy.cond)'
        BY <2>1, <3>2, Zenon DEF Tells
      <3> QED BY <3>3, <3>4, Zenon DEF PolicyTold
    <2>2. CASE Awake(n) \/ pc[n] = "midUpdate"
      <3>1. ~Resting(n)' /\ pc'[n] # "update"
        BY <1>1, <1>2, <2>2, Zenon DEF Resting
      <3> QED BY <3>1, WillRun, Zenon
    <2>3. CASE \E m \in Nodes \ {n} : WillUpdateAgain(m)
      BY <1>4, <2>3, Zenon
    <2> QED BY <1>1, <2>1, <2>2, <2>3, Zenon DEF ToldInv, StatusTold
  <1> QED BY <1>3, <1>4, <1>5, Zenon DEF ToldInv

\* It gives up: others wrote the policy too often.
LEMMA ToldGivesUp ==
    ASSUME UpdateAttempts >= 2, TypeOK, ToldInv, NEW n \in Nodes, NEW l \in {"apply", "idle"},
           pc[n] = "midUpdate" => l = "apply", pc[n] \in {"midUpdate", "update"},
           HandlerStep(n), ~Begin(n),
           enactment' = enactment, GiveUpStep(n, l), ~Fault("apiError")
    PROVE  ToldInv'
  <1>1. /\ policyStatus[n].cond = "None" /\ ~MayCompute(policyStatus[n]) /\ policy' = policy
        /\ pc'[n] = l /\ policyStatus'[n] = NoStatus
        /\ \A m \in Nodes \ {n} : policyStatus'[m] = policyStatus[m]
    BY Zenon DEF GiveUpStep
  <1>2. Awake(n) => Awake(n)'
    BY AwakeStays, Zenon
  <1>3. StatusInv(n)' /\ StatusTold(n)'
    <2>1. policyStatus'[n].attempt = 0 /\ policyStatus'[n].cond = "None"
      BY <1>1, NoStatusFields, Zenon
    <2> QED BY <2>1, Zenon DEF StatusInv, StatusTold, Unused
  <1>4. ASSUME WillUpdate(n) \/ WillUpdateAgain(n)
        PROVE  WillUpdate(n)' /\ WillUpdateAgain(n)'
    <2>1. ~(policyStatus[n].attempt < UpdateAttempts) /\ policyStatus[n].attempt # 0
      BY <1>1, BoundsAssumption DEF MayCompute
    <2>2. pc[n] = "midUpdate" \/ Awake(n)
      BY <1>1, <1>4, <2>1, Zenon DEF WillUpdate, WillUpdateAgain
    <2>3. ~Resting(n)' /\ pc'[n] # "update"
      BY <1>1, <1>2, <2>2, Zenon DEF Resting
    <2> QED BY <2>3, WillRun, Zenon
  <1>5. ASSUME NEW m \in Nodes \ {n}
        PROVE  /\ pc'[m] = pc[m] /\ policyStatus'[m] = policyStatus[m]
               /\ Awake(m) => Awake(m)'
               /\ WillUpdate(m) => WillUpdate(m)'
               /\ WillUpdateAgain(m) => WillUpdateAgain(m)'
               /\ StatusInv(m) => StatusInv(m)'
    <2>1. pc'[m] = pc[m] /\ (Awake(m) => Awake(m)') /\ policyStatus'[m] = policyStatus[m]
      BY <1>1, OthersStay, Zenon
    <2> QED BY <2>1, WillStays, Zenon
  <1>6. \A c : Tells(c)' <=> Tells(c)
    BY Zenon DEF Tells
  <1>7. PolicyTold => PolicyTold'
    BY <1>1, <1>6, Zenon DEF PolicyTold
  <1>8. ASSUME NEW m \in Nodes \ {n} PROVE StatusInv(m)' /\ StatusTold(m)'
    <2>1. StatusInv(m) /\ StatusTold(m)
      BY Zenon DEF ToldInv
    <2>2. \A k \in Nodes : WillUpdateAgain(k) => WillUpdateAgain(k)'
      BY <1>4, <1>5, Zenon
    <2> QED BY <1>5, <1>6, <2>1, <2>2, Zenon DEF StatusTold
  <1>9. PolicyTold' \/ \E m \in Nodes : WillUpdate(m)'
    BY <1>4, <1>5, <1>7, Zenon DEF ToldInv
  <1> QED BY <1>3, <1>8, <1>9, Zenon DEF ToldInv

\* A step of policyconditions.Update.
LEMMA ToldUpdates ==
    ASSUME UpdateAttempts >= 2, ReliableCalls, TypeOK,
           \A m \in Nodes : NodeInv(m) /\ RestInv(m), ToldInv,
           NEW n \in Nodes, MidUpdate(n) \/ DeferredUpdate(n)
    PROVE  ToldInv'
  <1>1. HandlerStep(n) /\ ~Begin(n) /\ enactment' = enactment
    <2>1. pc[n] # "idle" /\ enactment' = enactment
      BY Zenon DEF MidUpdate, DeferredUpdate
    <2> QED BY <2>1, Zenon DEF HandlerStep, ReconcileStep, Begin
  <1>2. ~Fault("apiError") /\ ~Fault("lostReply")
    BY Zenon DEF Fault, ReliableCalls
  <1>3. PICK l \in {"apply", "idle"} :
          /\ pc[n] \in {"midUpdate", "update"}
          /\ pc[n] = "midUpdate" => l = "apply"
          /\ UpdatePolicyConditions(n, Goto(n, l))
    <2>1. MidUpdate(n) => pc[n] = "midUpdate" /\ UpdatePolicyConditions(n, Goto(n, "apply"))
      BY Zenon DEF MidUpdate
    <2>2. DeferredUpdate(n) => pc[n] = "update" /\ UpdatePolicyConditions(n, Goto(n, "idle"))
      BY Zenon DEF DeferredUpdate
    <2> QED BY <2>1, <2>2, Zenon
  <1>4. ListStep(n) \/ WriteStep(n, l) \/ GiveUpStep(n, l)
    BY <1>3, UpdateSteps, Zenon
  <1> QED BY <1>1, <1>2, <1>3, <1>4, ToldLists, ToldWrites, ToldGivesUp, Zenon

\* Steps that leave the policy and the conditions of the enactments alone.
LEMMA ToldStays ==
    ASSUME ToldInv, policy'.cond = policy.cond, policy'.count = policy.count,
           \A m \in Nodes :
               /\ enactment'[m].conds = enactment[m].conds
               /\ \/ /\ pc'[m] = pc[m] /\ policyStatus'[m] = policyStatus[m]
                     /\ Awake(m) => Awake(m)'
                  \/ pc'[m] = "down" /\ policyStatus'[m] = NoStatus
    PROVE  ToldInv'
  <1>1. \A c : Tells(c)' <=> Tells(c)
    BY Zenon DEF Tells
  <1>2. ASSUME NEW m \in Nodes
        PROVE  /\ WillUpdate(m) => WillUpdate(m)'
               /\ WillUpdateAgain(m) => WillUpdateAgain(m)'
               /\ StatusInv(m)'
    <2>1. CASE /\ pc'[m] = pc[m] /\ policyStatus'[m] = policyStatus[m]
               /\ Awake(m) => Awake(m)'
      BY <2>1, WillStays, Zenon DEF ToldInv
    <2>2. CASE pc'[m] = "down" /\ policyStatus'[m] = NoStatus
      <3>1. ~Resting(m)' /\ pc'[m] # "update" /\ Unused(m)'
        BY <2>2, NoStatusFields, Zenon DEF Resting, Unused
      <3> QED BY <3>1, WillRun, Zenon DEF StatusInv
    <2> QED BY <2>1, <2>2, Zenon
  <1>3. ASSUME NEW m \in Nodes PROVE StatusTold(m)'
    <2>1. CASE /\ pc'[m] = pc[m] /\ policyStatus'[m] = policyStatus[m]
               /\ Awake(m) => Awake(m)'
      <3>1. StatusTold(m)
        BY Zenon DEF ToldInv
      <3> QED BY <1>1, <1>2, <2>1, <3>1, Zenon DEF StatusTold
    <2>2. CASE pc'[m] = "down" /\ policyStatus'[m] = NoStatus
      BY <2>2, NoStatusFields, Zenon DEF StatusTold
    <2> QED BY <2>1, <2>2, Zenon
  <1>4. PolicyTold => PolicyTold'
    BY <1>1, Zenon DEF PolicyTold
  <1> QED BY <1>2, <1>3, <1>4, Zenon DEF ToldInv

\* A step of what is around a handler.
LEMMA ToldEnvironment ==
    ASSUME TypeOK, ToldInv, NEW n \in Nodes, NodeEnvironment(n)
    PROVE  ToldInv'
  <1>1. policy' = policy
    BY Zenon DEF NodeEnvironment, Crash, HeartbeatExpires, WatchBreaks, WatchRecovers, OldList,
       Relabel, ReadinessChanges
  <1>2. ASSUME NEW m \in Nodes
        PROVE  /\ enactment'[m].conds = enactment[m].conds
               /\ \/ /\ pc'[m] = pc[m] /\ policyStatus'[m] = policyStatus[m]
                     /\ Awake(m) => Awake(m)'
                  \/ pc'[m] = "down" /\ policyStatus'[m] = NoStatus
    <2>1. enactment'[m].conds = enactment[m].conds
      <3>1. enactment'[m] = enactment[m] \/ enactment'[m] = [enactment[m] EXCEPT !.fresh = FALSE]
        BY Zenon DEF NodeEnvironment, Crash, HeartbeatExpires, WatchBreaks, WatchRecovers,
           OldList, Relabel, ReadinessChanges, TypeOK
      <3>2. enactment[m] \in Enactments
        BY Zenon DEF TypeOK
      <3> QED BY <3>1, <3>2, Zenon DEF Enactments
    <2>2. CASE m = n /\ Crash(n)
      BY <2>1, <2>2, Zenon DEF Crash, TypeOK
    <2>3. CASE ~(m = n /\ Crash(n))
      <3>1. pc'[m] = pc[m] /\ policyStatus'[m] = policyStatus[m]
        BY <2>3, Zenon DEF NodeEnvironment, Crash, HeartbeatExpires, WatchBreaks, WatchRecovers,
           OldList, Relabel, ReadinessChanges, TypeOK
      <3>2. Awake(m) => Awake(m)'
        <4>1. CASE m # n
          BY <1>1, <4>1, EnvironmentIsLocal, Zenon DEF Awake
        <4>2. CASE m = n
          BY <2>3, <4>2, EnvironmentWakes, Zenon
        <4> QED BY <4>1, <4>2, Zenon
      <3> QED BY <2>1, <3>1, <3>2, Zenon
    <2> QED BY <2>2, <2>3, Zenon
  <1> QED BY <1>1, <1>2, ToldStays, Zenon

\* Every step keeps what the policy tells.
LEMMA ToldNext ==
    ASSUME UpdateAttempts >= 2, ReliableCalls, FaultInv, [Next]_vars,
           \A m \in Nodes : GenInv(m) /\ RestInv(m), ToldInv
    PROVE  ToldInv'
  <1>1. TypeOK /\ \A m \in Nodes : NodeInv(m)
    BY Zenon DEF FaultInv
  <1>2. ASSUME NEW n \in Nodes, HandlerStep(n) PROVE ToldInv'
    BY <1>1, <1>2, ToldRuns, ToldUpdates, Zenon
  <1>3. ASSUME NEW n \in Nodes, NodeEnvironment(n) PROVE ToldInv'
    BY <1>1, <1>3, ToldEnvironment, Zenon
  <1>4. CASE GraceExpires \/ UNCHANGED vars
    <2>1. /\ pc' = pc /\ enactment' = enactment /\ watch' = watch /\ queued' = queued
          /\ policyStatus' = policyStatus /\ policy'.gen = policy.gen
          /\ policy'.cond = policy.cond /\ policy'.count = policy.count
      BY <1>1, <1>4, Zenon DEF GraceExpires, vars, TypeOK, Policies
    <2>2. \A m \in Nodes : Awake(m) => Awake(m)'
      BY <2>1, Zenon DEF Awake
    <2> QED BY <2>1, <2>2, ToldStays, Zenon
  <1>5. CASE EditPolicy
    <2>1. pc' = pc /\ \E p : Write(p)
      BY <1>5, Zenon DEF EditPolicy
    <2>2. ASSUME NEW m \in Nodes PROVE StatusInv(m)' /\ StatusTold(m)'
      <3>1. policyStatus'[m].attempt = policyStatus[m].attempt /\ policyStatus'[m].cond = "None"
        BY <1>1, <2>1, WriteOutdates, Zenon
      <3> QED BY <2>1, <3>1, Zenon DEF ToldInv, StatusInv, StatusTold, Unused
    <2>3. PICK n \in Nodes : TRUE
      BY NodesAssumption, Zenon
    <2>4. pc[n] = "down" \/ Awake(n)'
      BY <1>1, <1>5, EditsAreSeen, Zenon
    <2>5. WillUpdate(n)'
      BY <2>1, <2>4, WillRun, Zenon DEF Resting
    <2> QED BY <2>2, <2>5, Zenon DEF ToldInv
  <1> QED BY <1>2, <1>3, <1>4, <1>5, Zenon DEF Next

\* At first every handler is to write the policy.
LEMMA ToldInit == ASSUME Init PROVE ToldInv
  <1>1. ASSUME NEW n \in Nodes PROVE WillUpdate(n) /\ Unused(n)
    <2>1. pc[n] = "idle" /\ queued[n] /\ policyStatus[n] = NoStatus
      BY Zenon DEF Init
    <2> QED BY <2>1, NoStatusFields, Zenon DEF WillUpdate, Unused, Resting, Awake
  <1> QED BY <1>1, NodesAssumption, Zenon DEF ToldInv, StatusInv, StatusTold, Unused

-----------------------------------------------------------------------------
(* The theorems *)

\* Whatever fails, a node that used up the retries of a generation neither
\* claims a slot for it nor applies it again (the check of RetryCount in
\* Reconcile).
THEOREM ExhaustedIsNeverApplied == Spec => []ExhaustedIsNotApplied
  <1>1. FaultInv => ExhaustedIsNotApplied
    BY Zenon DEF FaultInv, NodeInv, ExhaustedIsNotApplied, ApplyingLabels
  <1> QED BY <1>1, FaultInvariance, PTL

\* Unless its desired state can no longer be generated, what a node has
\* recorded as applied is not applied again, whatever else fails (Reconcile,
\* finalizeInterruptedApply, reclaimInterruptedSlots).
THEOREM CommittedIsNeverReapplied ==
    ASSUME "generateError" \notin Faults
    PROVE  Spec => CommittedIsNotReapplied
  <1>1. FaultInv /\ [Next]_vars =>
          [\A n \in Nodes : Committed(enactment[n]) /\ Gen(n)' = Gen(n)
                                => Committed(enactment'[n])]_vars
    BY EveryStepIsGood, Zenon DEF GoodStep, StaysCommitted
  <1> QED BY <1>1, FaultInvariance, PTL DEF Spec, CommittedIsNotReapplied

\* As long as the calls of the handlers succeed in the end, nobody is left waiting:
\* a handler comes to rest only with an enactment that is final for the generation
\* of the policy, and when all rest the policy tells how the rollout ended.  Applies
\* may fail, handlers may be restarted, watches may break and nodes may turn
\* NotReady (the results of Reconcile, the deferred policyconditions.Update).  A
\* restarted handler reads the policy as it is, and an update of the policy that
\* conflicts is tried again at least once.
THEOREM RestIsDone ==
    ASSUME ReliableCalls, NoOldLists, UpdateAttempts >= 2
    PROVE  Spec => []RestMeansDone
  <1> DEFINE Inv == /\ \A n \in Nodes : GenInv(n) /\ RestInv(n)
                    /\ ToldInv
  <1>1. Init => Inv
    BY GenInit, RestInit, ToldInit, Zenon
  <1>2. FaultInv /\ Inv /\ [Next]_vars => Inv'
    BY GenNext, RestNext, ToldNext, Zenon
  <1>3. Inv => RestMeansDone
    <2> SUFFICES ASSUME Inv PROVE RestMeansDone
      OBVIOUS
    <2>1. ASSUME NEW n \in Nodes, Resting(n) PROVE Settled(n)
      BY <2>1, Zenon DEF RestInv, Resting
    <2>2. ASSUME \A n \in Nodes : Resting(n) PROVE PolicyTold
      BY <2>2, Zenon DEF ToldInv, WillUpdate
    <2> QED BY <2>1, <2>2, Zenon DEF RestMeansDone, PolicyTold, Tells
  <1> HIDE DEF Inv
  <1> QED BY <1>1, <1>2, <1>3, FaultInvariance, PTL DEF Spec

\* Where every number of nodes has a limit of one at least, a slot is claimed
\* only below it, whatever replies are lost and however old the cache of the
\* claiming node is (incrementUnavailableNodeCount).
THEOREM CountersAreBounded ==
    ASSUME \A k \in 1..Cardinality(Nodes) : Limit(k) >= 1
    PROVE  Spec => []CountersStayInBounds
  <1>1. Init => CountersStayInBounds
    <2> SUFFICES ASSUME Init, NEW g \in Generations
                 PROVE  policy.count[g] <= Limit(numberOfEnactments)
      BY Zenon DEF CountersStayInBounds
    <2>1. policy.count[g] = 0
      BY Zenon DEF Init, NewPolicy
    <2> QED BY <2>1, CardinalitiesAreNat, LimitAssumption
  <1>2. FaultInv /\ CountersStayInBounds /\ [Next]_vars => CountersStayInBounds'
    <2> SUFFICES ASSUME FaultInv, CountersStayInBounds, [Next]_vars, NEW g \in Generations
                 PROVE  policy'.count[g] <= Limit(numberOfEnactments)'
      BY Zenon DEF CountersStayInBounds
    <2>1. TypeOK /\ TypeOK'
      BY TypeNext, Zenon DEF FaultInv
    <2>2. /\ Limit(numberOfEnactments) \in Nat
          /\ Limit(numberOfEnactments)' \in Nat
          /\ Limit(numberOfEnactments) <= Limit(numberOfEnactments)'
      BY EveryStepIsGood, LimitStays, Zenon DEF GoodStep
    <2>3. policy'.count[g] <= Limit(numberOfEnactments)
      <3>1. CASE \E n \in Nodes : HandlerStep(n) \/ NodeEnvironment(n)
        BY <2>1, <3>1, PolicyWrites, WritesStayInBounds, Zenon
      <3>2. CASE GraceExpires \/ EditPolicy \/ UNCHANGED vars
        <4>1. policy'.count = policy.count
          BY <2>1, <3>2, Zenon DEF GraceExpires, EditPolicy, Write, vars, TypeOK, Policies
        <4> QED BY <4>1, Zenon DEF CountersStayInBounds
      <3> QED BY <3>1, <3>2, Zenon DEF Next
    <2>4. policy'.count[g] \in Nat
      BY <2>1, Zenon DEF TypeOK, Policies
    <2> QED BY <2>2, <2>3, <2>4
  <1> QED BY <1>1, <1>2, FaultInvariance, PTL DEF Spec

=============================================================================
