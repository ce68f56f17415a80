--------------------- MODULE EnactmentLifecycleProofs ---------------------
(***************************************************************************)
(* What an enactment reports as done was applied, and a handler at rest    *)
(* has done what its policy asks for: for any number of nodes, versions    *)
(* and events, as long as a deleted policy is not created again.           *)
(***************************************************************************)
EXTENDS EnactmentLifecycle, TLAPS

\* The policy is created once, so its generations tell its versions apart.
BornOnce == \A i \in 1..Len(versions) : versions[i].exists => versions[i].born = 1

Pairs == Int \X Int

VersionRecords == [exists : BOOLEAN, born : Int, gen : Int, selector : LabelSets]

PolicyInv ==
    /\ versions \in Seq(VersionRecords)
    /\ Len(versions) >= 1
    /\ BornOnce
    /\ seen \in [Nodes -> Int]
    /\ \A n \in Nodes : seen[n] \in 1..Len(versions)

EnactmentRecords == [exists : BOOLEAN, gen : Int, desired : Pairs,
                     phase : {"new", "finalizing", "available"}]

LabelNames == {"idle", "initialize", "fillIn", "verify", "mark", "apply",
               "success", "finalize", "delete"}

NodeTypes ==
    /\ enactment \in [Nodes -> EnactmentRecords]
    /\ network \in [Nodes -> Pairs]
    /\ pc \in [Nodes -> LabelNames]
    /\ instance \in [Nodes -> Pairs]

\* Of an enactment e, the state w its node applied, the step p its reconciler
\* is at and the desired state d that it works on.
Truthful(e, w, p, d) ==
    /\ e.exists /\ e.phase # "new" => w = e.desired /\ e.desired[1] = 1
    /\ e.gen = e.desired[2]
    /\ p \notin {"idle", "delete"} => d[1] = 1
    /\ p \in {"verify", "mark", "apply", "success", "finalize"} /\ e.exists => e.desired = d
    /\ p \in {"success", "finalize"} /\ e.exists => e.phase # "new"

NodesInv == \A n \in Nodes : Truthful(enactment[n], network[n], pc[n], instance[n])

LifecycleInv == PolicyInv /\ NodeTypes /\ NodesInv

\* There is neither a policy nor an enactment at first.
LEMMA LifecycleInit == Init => LifecycleInv
<1> SUFFICES ASSUME Init PROVE LifecycleInv
  OBVIOUS
<1> USE DEF Init, Absent, NoEnactment, NoState
<1>1. PolicyInv
  BY DEF PolicyInv, BornOnce, VersionRecords, LabelSets
<1>2. NodeTypes
  BY DEF NodeTypes, EnactmentRecords, Pairs, LabelNames
<1>3. NodesInv
  BY ZenonT(30) DEF NodesInv, Truthful
<1> QED
  BY <1>1, <1>2, <1>3 DEF LifecycleInv

\* A new version of the policy, of its only creation, is added.
LEMMA PublishStep ==
    ASSUME LifecycleInv, NEW v \in VersionRecords, v.exists => v.born = 1, Publish(v)
    PROVE  LifecycleInv'
<1>1. PolicyInv'
  BY DEF LifecycleInv, PolicyInv, BornOnce, Publish
<1>2. UNCHANGED <<enactment, network, pc, instance>>
  BY DEF Publish
<1> QED
  BY <1>1, <1>2 DEF LifecycleInv, NodeTypes, NodesInv

\* A step of the reconciler of n, or of whoever deletes its enactment.
LEMMA OneNode ==
    ASSUME LifecycleInv, UNCHANGED <<versions, seen>>, NEW n \in Nodes,
           NEW e \in EnactmentRecords, NEW w \in Pairs, NEW p \in LabelNames, NEW d \in Pairs,
           enactment' = [enactment EXCEPT ![n] = e],
           network' = [network EXCEPT ![n] = w],
           pc' = [pc EXCEPT ![n] = p],
           instance' = [instance EXCEPT ![n] = d],
           Truthful(e, w, p, d)
    PROVE  LifecycleInv'
<1>1. PolicyInv'
  BY DEF LifecycleInv, PolicyInv, BornOnce
<1>2. NodeTypes'
  BY DEF LifecycleInv, NodeTypes
<1>3. ASSUME NEW m \in Nodes
      PROVE  Truthful(enactment[m], network[m], pc[m], instance[m])'
  <2>1. CASE m = n
    BY <2>1 DEF LifecycleInv, NodeTypes
  <2>2. CASE m # n
    <3>1. UNCHANGED <<enactment[m], network[m], pc[m], instance[m]>>
      BY <2>2 DEF LifecycleInv, NodeTypes
    <3> QED
      BY <3>1 DEF LifecycleInv, NodesInv
  <2> QED
    BY <2>1, <2>2
<1> QED
  BY <1>1, <1>2, <1>3 DEF LifecycleInv, NodesInv

\* The types at one node, and that writing nothing is a write.
LEMMA AtNode ==
    ASSUME LifecycleInv, NEW n \in Nodes
    PROVE  /\ enactment[n] \in EnactmentRecords /\ network[n] \in Pairs
           /\ pc[n] \in LabelNames /\ instance[n] \in Pairs
           /\ Truthful(enactment[n], network[n], pc[n], instance[n])
           /\ enactment = [enactment EXCEPT ![n] = enactment[n]]
           /\ network = [network EXCEPT ![n] = network[n]]
           /\ pc = [pc EXCEPT ![n] = pc[n]]
           /\ instance = [instance EXCEPT ![n] = instance[n]]
BY DEF LifecycleInv, NodeTypes, NodesInv

\* The values that no enactment, and a new one, have.
LEMMA NothingIsTyped ==
    /\ NoState \in Pairs /\ NoEnactment \in EnactmentRecords /\ Created \in EnactmentRecords
    /\ Created.gen = 0 /\ Created.desired = NoState /\ Created.phase = "new"
    /\ NoState[2] = 0
<1>1. NoState \in Pairs /\ NoState[2] = 0
  BY DEF NoState, Pairs
<1>2. /\ NoEnactment \in EnactmentRecords
      /\ NoEnactment.gen = 0 /\ NoEnactment.desired = NoState /\ NoEnactment.phase = "new"
  BY <1>1 DEF NoEnactment, EnactmentRecords
<1>3. /\ Created \in EnactmentRecords
      /\ Created.gen = 0 /\ Created.desired = NoState /\ Created.phase = "new"
  BY <1>2, ZenonT(30) DEF Created, EnactmentRecords
<1> QED
  BY <1>1, <1>2, <1>3

\* A request that ends leaves the enactment as it is.
LEMMA IdleIsTruthful ==
    ASSUME NEW e, NEW w, NEW p, NEW d, Truthful(e, w, p, d)
    PROVE  Truthful(e, w, "idle", NoState) /\ Truthful(e, w, "delete", d)
BY DEF Truthful

\* A step of the reconciler that writes to the enactment, or fails.
LEMMA WriteStep ==
    ASSUME LifecycleInv, UNCHANGED <<versions, seen>>, NEW n \in Nodes,
           NEW e \in EnactmentRecords, NEW w \in Pairs, NEW p \in LabelNames,
           network' = [network EXCEPT ![n] = w],
           Write(n, e, p),
           enactment[n].exists => Truthful(e, w, p, IF p = "idle" THEN NoState ELSE instance[n])
    PROVE  LifecycleInv'
<1> USE AtNode, NothingIsTyped
<1>1. CASE /\ enactment[n].exists
           /\ enactment' = [enactment EXCEPT ![n] = e]
           /\ Goto(n, p)
  <2>1. CASE p = "idle"
    <3>1. instance' = [instance EXCEPT ![n] = NoState] /\ pc' = [pc EXCEPT ![n] = p]
      BY <1>1, <2>1 DEF Goto
    <3> QED
      BY <1>1, <2>1, <3>1, OneNode, ZenonT(30)
  <2>2. CASE p # "idle"
    <3>1. instance' = [instance EXCEPT ![n] = instance[n]] /\ pc' = [pc EXCEPT ![n] = p]
      BY <1>1, <2>2 DEF Goto
    <3> QED
      BY <1>1, <2>2, <3>1, OneNode, ZenonT(30)
  <2> QED
    BY <2>1, <2>2
<1>2. CASE ~enactment[n].exists /\ Fail(n) /\ UNCHANGED enactment
  <2>1. /\ instance' = [instance EXCEPT ![n] = NoState] /\ pc' = [pc EXCEPT ![n] = "idle"]
        /\ enactment' = [enactment EXCEPT ![n] = enactment[n]]
    BY <1>2 DEF Fail
  <2>2. Truthful(enactment[n], w, "idle", NoState)
    BY <1>2 DEF Truthful
  <2> QED
    BY <2>1, <2>2, OneNode, ZenonT(30) DEF LabelNames
<1> QED
  BY <1>1, <1>2 DEF Write

\* A step of the reconciler that leaves the enactment and fails.
LEMMA FailStep ==
    ASSUME LifecycleInv, UNCHANGED <<versions, seen, network, enactment>>, NEW n \in Nodes, Fail(n)
    PROVE  LifecycleInv'
<1>1. /\ instance' = [instance EXCEPT ![n] = NoState] /\ pc' = [pc EXCEPT ![n] = "idle"]
      /\ enactment' = [enactment EXCEPT ![n] = enactment[n]]
      /\ network' = [network EXCEPT ![n] = network[n]]
  BY AtNode DEF Fail
<1>2. NoState \in Pairs /\ "idle" \in LabelNames
  BY NothingIsTyped DEF LabelNames
<1>3. Truthful(enactment[n], network[n], "idle", NoState)
  BY AtNode, IdleIsTruthful
<1>4. enactment[n] \in EnactmentRecords /\ network[n] \in Pairs
  BY AtNode
<1> QED
  BY <1>1, <1>2, <1>3, <1>4, OneNode, ZenonT(30)

\* Every step of the reconciler of n keeps the invariant.
LEMMA ReconcileKeeps ==
    ASSUME LifecycleInv, NEW n \in Nodes, ReconcileStep(n)
    PROVE  LifecycleInv'
<1> DEFINE e == enactment[n]
           w == network[n]
           d == instance[n]
<1>0. /\ e \in EnactmentRecords /\ w \in Pairs /\ d \in Pairs
      /\ Truthful(e, w, pc[n], d)
      /\ enactment = [enactment EXCEPT ![n] = e]
      /\ network = [network EXCEPT ![n] = w]
      /\ instance = [instance EXCEPT ![n] = d]
  BY AtNode
<1>1. CASE Begin(n)
  <2> DEFINE p == IF Cached(n).exists /\ unmatchingLabels(Cached(n).selector, seenLabels[n]) = {}
                  THEN "initialize" ELSE "delete"
             c == DesiredState(Cached(n))
  <2>1. Cached(n) \in VersionRecords /\ (Cached(n).exists => Cached(n).born = 1)
    BY DEF LifecycleInv, PolicyInv, BornOnce, Cached
  <2>2. c \in Pairs /\ (Cached(n).exists => c[1] = 1)
    BY <2>1 DEF DesiredState, Pairs, VersionRecords
  <2>3. pc' = [pc EXCEPT ![n] = p] /\ instance' = [instance EXCEPT ![n] = c]
    BY <1>1 DEF Begin
  <2>4. UNCHANGED <<versions, seen, enactment, network>>
    BY <1>1 DEF Begin
  <2>5. p \in {"initialize", "delete"} /\ (p = "initialize" => c[1] = 1)
    BY <2>2
  <2>7. p \in LabelNames
    BY <2>5 DEF LabelNames
  <2> HIDE DEF p, c
  <2>6. Truthful(e, w, p, c)
    BY <1>0, <2>5 DEF Truthful
  <2> QED
    BY <1>0, <2>2, <2>3, <2>4, <2>6, <2>7, OneNode, ZenonT(30)
<1>2. CASE deleteEnactmentForPolicy(n)
  <2>1. /\ enactment' = [enactment EXCEPT ![n] = NoEnactment]
        /\ pc' = [pc EXCEPT ![n] = "idle"] /\ instance' = [instance EXCEPT ![n] = NoState]
        /\ UNCHANGED <<versions, seen, network>>
    BY <1>2 DEF deleteEnactmentForPolicy, Goto
  <2>2. Truthful(NoEnactment, w, "idle", NoState)
    BY NothingIsTyped DEF Truthful, NoEnactment
  <2> QED
    BY <1>0, <2>1, <2>2, NothingIsTyped, OneNode, ZenonT(30) DEF LabelNames
<1>3. CASE initializeEnactment(n)
  <2>1. pc[n] = "initialize" /\ UNCHANGED <<versions, seen, network>>
    BY <1>3 DEF initializeEnactment
  <2>2. CASE Goto(n, "fillIn") /\ UNCHANGED enactment
    <3>1. pc' = [pc EXCEPT ![n] = "fillIn"] /\ instance' = [instance EXCEPT ![n] = d]
      BY <2>2 DEF Goto
    <3>2. Truthful(e, w, "fillIn", d)
      BY <1>0, <2>1 DEF Truthful
    <3>3. /\ enactment' = [enactment EXCEPT ![n] = e] /\ network' = [network EXCEPT ![n] = w]
          /\ "fillIn" \in LabelNames
      BY <1>0, <2>1, <2>2 DEF LabelNames
    <3> HIDE DEF e, w, d
    <3> QED
      BY <1>0, <2>1, <3>1, <3>2, <3>3, OneNode, ZenonT(30)
  <2>3. CASE Fail(n) /\ UNCHANGED enactment
    BY <2>1, <2>3, FailStep
  <2>4. CASE enactment' = [enactment EXCEPT ![n] = Created] /\ Goto(n, "fillIn")
    <3>1. pc' = [pc EXCEPT ![n] = "fillIn"] /\ instance' = [instance EXCEPT ![n] = d]
      BY <2>4 DEF Goto
    <3>2. Truthful(Created, w, "fillIn", d)
      BY <1>0, <2>1, NothingIsTyped DEF Truthful
    <3>3. Created \in EnactmentRecords /\ "fillIn" \in LabelNames
      BY NothingIsTyped DEF LabelNames
    <3> QED
      BY <1>0, <2>1, <2>4, <3>1, <3>2, <3>3, OneNode, ZenonT(30)
  <2> QED
    BY <1>3, <2>2, <2>3, <2>4 DEF initializeEnactment
<1>4. CASE fillInEnactmentStatus(n)
  <2> DEFINE r == resetPolicyGeneration(e, d)
  <2>1. /\ pc[n] = "fillIn" /\ UNCHANGED <<versions, seen, network>> /\ Write(n, r, "verify")
    BY <1>4 DEF fillInEnactmentStatus
  <2>2. /\ r \in EnactmentRecords /\ r.gen = d[2] /\ r.desired = d
        /\ r.phase = IF e.gen # d[2] THEN "new" ELSE e.phase
        /\ r.exists = e.exists
    BY <1>0, ZenonT(30) DEF resetPolicyGeneration, EnactmentRecords, Pairs
  <2> HIDE DEF r
  <2>3. d[1] = 1
    BY <1>0, <2>1 DEF Truthful
  <2>4. ASSUME r.exists, r.phase # "new" PROVE w = d
    <3>1. e.exists /\ e.phase # "new" /\ e.gen = d[2]
      BY <2>2, <2>4
    <3>2. w = e.desired /\ e.desired[1] = d[1] /\ e.desired[2] = d[2]
      BY <1>0, <2>3, <3>1 DEF Truthful
    <3> QED
      BY <1>0, <3>2 DEF EnactmentRecords, Pairs
  <2>5. Truthful(r, w, "verify", d)
    BY <2>2, <2>3, <2>4 DEF Truthful
  <2> QED
    BY <1>0, <2>1, <2>2, <2>5, WriteStep DEF LabelNames
<1>5. CASE Verify(n)
  <2>1. pc[n] = "verify" /\ UNCHANGED <<versions, seen, network, enactment>>
    BY <1>5 DEF Verify
  <2>2. CASE Fail(n)
    BY <2>1, <2>2, FailStep
  <2>3. CASE \/ Goto(n, "delete") \/ Goto(n, "idle") \/ Goto(n, "mark")
             \/ e.phase = "finalizing" /\ Goto(n, "finalize")
    <3>1. PICK p \in {"delete", "idle", "mark", "finalize"} :
             Goto(n, p) /\ (p = "finalize" => e.phase = "finalizing")
      BY <2>3
    <3>2. CASE p = "idle"
      <4>1. pc' = [pc EXCEPT ![n] = "idle"] /\ instance' = [instance EXCEPT ![n] = NoState]
        BY <3>1, <3>2 DEF Goto
      <4>2. Truthful(e, w, "idle", NoState) /\ NoState \in Pairs /\ "idle" \in LabelNames
        BY <1>0, IdleIsTruthful, NothingIsTyped DEF LabelNames
      <4> QED
        BY <1>0, <2>1, <4>1, <4>2, OneNode, ZenonT(30)
    <3>3. CASE p # "idle"
      <4>1. pc' = [pc EXCEPT ![n] = p] /\ instance' = [instance EXCEPT ![n] = d]
        BY <3>1, <3>3 DEF Goto
      <4>2. Truthful(e, w, p, d)
        BY <1>0, <2>1, <3>1, <3>3 DEF Truthful
      <4>3. p \in LabelNames
        BY <3>1 DEF LabelNames
      <4> QED
        BY <1>0, <2>1, <4>1, <4>2, <4>3, OneNode, ZenonT(30)
    <3> QED
      BY <3>2, <3>3
  <2> QED
    BY <1>5, <2>2, <2>3 DEF Verify
<1>6. CASE Mark(n)
  <2>1. pc[n] = "mark" /\ UNCHANGED <<versions, seen, network>>
    BY <1>6 DEF Mark
  <2>2. CASE Fail(n) /\ UNCHANGED enactment
    BY <2>1, <2>2, FailStep
  <2>3. CASE Write(n, e, "apply")
    <3>1. Truthful(e, w, "apply", d)
      BY <1>0, <2>1 DEF Truthful
    <3> QED
      BY <1>0, <2>1, <2>3, <3>1, WriteStep DEF LabelNames
  <2> QED
    BY <1>6, <2>2, <2>3 DEF Mark
<1>7. CASE Apply(n)
  <2> DEFINE r == [e EXCEPT !.phase = "finalizing"]
  <2>1. /\ pc[n] = "apply" /\ UNCHANGED <<versions, seen>>
        /\ network' = [network EXCEPT ![n] = d] /\ Write(n, r, "success")
    BY <1>7 DEF Apply
  <2>2. /\ r \in EnactmentRecords /\ r.exists = e.exists /\ r.gen = e.gen
        /\ r.desired = e.desired /\ r.phase = "finalizing"
    BY <1>0 DEF EnactmentRecords
  <2> HIDE DEF r
  <2>3. Truthful(r, d, "success", d)
    BY <1>0, <2>1, <2>2 DEF Truthful
  <2> QED
    BY <1>0, <2>1, <2>2, <2>3, WriteStep, ZenonT(30) DEF LabelNames
<1>8. ASSUME pc[n] \in {"success", "finalize"}
      PROVE  LET r == [e EXCEPT !.phase = "available"]
             IN  r \in EnactmentRecords /\ (e.exists => Truthful(r, w, "idle", NoState))
  <2> DEFINE r == [e EXCEPT !.phase = "available"]
  <2>1. /\ r \in EnactmentRecords /\ r.exists = e.exists /\ r.gen = e.gen
        /\ r.desired = e.desired /\ r.phase = "available"
    BY <1>0 DEF EnactmentRecords
  <2> HIDE DEF r
  <2>2. e.exists => Truthful(r, w, "idle", NoState)
    BY <1>0, <1>8, <2>1 DEF Truthful
  <2> QED
    BY <2>1, <2>2 DEF r
<1>9. CASE Success(n)
  <2>1. pc[n] = "success" /\ UNCHANGED <<versions, seen, network>>
    BY <1>9 DEF Success
  <2>2. CASE Fail(n) /\ UNCHANGED enactment
    BY <2>1, <2>2, FailStep
  <2>3. CASE Write(n, [e EXCEPT !.phase = "available"], "idle")
    BY <1>0, <1>8, <2>1, <2>3, WriteStep DEF LabelNames
  <2> QED
    BY <1>9, <2>2, <2>3 DEF Success
<1>10. CASE Finalize(n)
  <2>1. pc[n] = "finalize" /\ UNCHANGED <<versions, seen, network>>
    BY <1>10 DEF Finalize
  <2>2. CASE Write(n, [e EXCEPT !.phase = "available"], "idle")
    BY <1>0, <1>8, <2>1, <2>2, WriteStep DEF LabelNames
  <2>3. CASE e.exists /\ enactment' = [enactment EXCEPT ![n].phase = "available"] /\ Fail(n)
    <3>1. /\ enactment' = [enactment EXCEPT ![n] = [e EXCEPT !.phase = "available"]]
          /\ pc' = [pc EXCEPT ![n] = "idle"] /\ instance' = [instance EXCEPT ![n] = NoState]
      BY <2>3 DEF Fail
    <3> DEFINE r == [e EXCEPT !.phase = "available"]
    <3>2. r \in EnactmentRecords /\ Truthful(r, w, "idle", NoState)
      BY <1>8, <2>1, <2>3
    <3>3. NoState \in Pairs /\ "idle" \in LabelNames
      BY NothingIsTyped DEF LabelNames
    <3>4. enactment' = [enactment EXCEPT ![n] = r]
      BY <3>1
    <3> HIDE DEF r
    <3> QED
      BY <1>0, <2>1, <3>1, <3>2, <3>3, <3>4, OneNode, ZenonT(30)
  <2>4. CASE UNCHANGED enactment /\ Fail(n)
    BY <2>1, <2>4, FailStep
  <2> QED
    BY <1>10, <2>2, <2>3, <2>4 DEF Finalize
<1> QED
  BY <1>1, <1>2, <1>3, <1>4, <1>5, <1>6, <1>7, <1>9, <1>10 DEF ReconcileStep

\* A handler starts from what exists.
LEMMA RestartKeeps ==
    ASSUME LifecycleInv, NEW n \in Nodes, Restart(n)
    PROVE  LifecycleInv'
<1>1. PolicyInv'
  BY DEF Restart, LifecycleInv, PolicyInv, BornOnce
<1>2. /\ pc' = [pc EXCEPT ![n] = "idle"] /\ instance' = [instance EXCEPT ![n] = NoState]
      /\ UNCHANGED network
  BY DEF Restart
<1>3. PICK e \in EnactmentRecords :
         /\ enactment' = [enactment EXCEPT ![n] = e]
         /\ Truthful(e, network[n], "idle", NoState)
  <2>1. CASE UNCHANGED enactment
    BY <2>1, AtNode, IdleIsTruthful
  <2>2. CASE /\ enactment[n].phase = "finalizing"
             /\ enactment' = [enactment EXCEPT ![n].phase = "available"]
    <3> DEFINE r == [enactment[n] EXCEPT !.phase = "available"]
    <3>1. /\ r \in EnactmentRecords /\ r.exists = enactment[n].exists /\ r.gen = enactment[n].gen
          /\ r.desired = enactment[n].desired /\ r.phase = "available"
      BY AtNode DEF EnactmentRecords
    <3>2. enactment' = [enactment EXCEPT ![n] = r]
      BY <2>2
    <3> HIDE DEF r
    <3>3. Truthful(r, network[n], "idle", NoState)
      BY <2>2, <3>1, AtNode DEF Truthful
    <3> QED
      BY <3>1, <3>2, <3>3, ZenonT(30)
  <2> QED
    BY <2>1, <2>2 DEF Restart
<1>4. NodeTypes'
  BY <1>2, <1>3, NothingIsTyped DEF LifecycleInv, NodeTypes, LabelNames
<1>5. ASSUME NEW m \in Nodes
      PROVE  Truthful(enactment[m], network[m], pc[m], instance[m])'
  <2>1. CASE m = n
    <3>1. enactment'[m] = e /\ network'[m] = network[n] /\ pc'[m] = "idle" /\ instance'[m] = NoState
      BY <1>2, <1>3, <2>1 DEF LifecycleInv, NodeTypes
    <3> QED
      BY <1>3, <3>1
  <2>2. CASE m # n
    <3>1. UNCHANGED <<enactment[m], network[m], pc[m], instance[m]>>
      BY <1>2, <1>3, <2>2 DEF LifecycleInv, NodeTypes
    <3> QED
      BY <3>1 DEF LifecycleInv, NodesInv
  <2> QED
    BY <2>1, <2>2
<1> QED
  BY <1>1, <1>4, <1>5 DEF LifecycleInv, NodesInv

\* Every step keeps the invariant, if a policy is created only once.
LEMMA LifecycleNext ==
    ASSUME "recreate" \notin Hazards
    PROVE  LifecycleInv /\ [Next]_vars => LifecycleInv'
<1> SUFFICES ASSUME LifecycleInv, [Next]_vars PROVE LifecycleInv'
  OBVIOUS
<1>0. Policy \in VersionRecords /\ (Policy.exists => Policy.born = 1)
  BY DEF LifecycleInv, PolicyInv, BornOnce, Policy
<1>1. ASSUME UNCHANGED <<versions, seen, enactment, network, pc, instance>> PROVE LifecycleInv'
  BY <1>1 DEF LifecycleInv, PolicyInv, BornOnce, NodeTypes, NodesInv
<1>2. CASE CreatePolicy
  <2>1. PICK s \in LabelSets :
          Publish([exists |-> TRUE, born |-> Policy.born + 1, gen |-> 1, selector |-> s])
    BY <1>2, ZenonT(30) DEF CreatePolicy
  <2>2. Policy.born = 0
    BY <1>2 DEF CreatePolicy
  <2> DEFINE v == [exists |-> TRUE, born |-> Policy.born + 1, gen |-> 1, selector |-> s]
  <2>3. v \in VersionRecords /\ v.born = 1
    BY <2>2 DEF VersionRecords
  <2>4. Publish(v)
    BY <2>1
  <2> HIDE DEF v
  <2> QED
    BY <2>3, <2>4, PublishStep
<1>3. CASE EditPolicy
  <2>1. PICK s \in LabelSets : Publish([Policy EXCEPT !.gen = @ + 1, !.selector = s])
    BY <1>3, ZenonT(30) DEF EditPolicy
  <2> DEFINE v == [Policy EXCEPT !.gen = @ + 1, !.selector = s]
  <2>2. v \in VersionRecords /\ v.exists = Policy.exists /\ v.born = Policy.born
    <3> DEFINE g == Policy.gen + 1
    <3>1. g \in Int /\ v = [Policy EXCEPT !.gen = g, !.selector = s]
      BY <1>0 DEF VersionRecords
    <3> HIDE DEF g, v
    <3> QED
      BY <1>0, <3>1, ZenonT(30) DEF VersionRecords
  <2>3. Publish(v)
    BY <2>1
  <2> HIDE DEF v
  <2> QED
    BY <1>0, <2>2, <2>3, PublishStep
<1>4. CASE DeletePolicy
  <2>1. Absent(Policy.born) \in VersionRecords /\ ~Absent(Policy.born).exists
    BY <1>0 DEF Absent, VersionRecords, LabelSets
  <2> QED
    BY <1>4, <2>1, PublishStep DEF DeletePolicy
<1>5. ASSUME NEW n \in Nodes, Relabel(n) PROVE LifecycleInv'
  BY <1>1, <1>5 DEF Relabel
<1>6. ASSUME NEW n \in Nodes, SeePolicy(n) PROVE LifecycleInv'
  <2>1. PICK i \in (seen[n] + 1)..Len(versions) :
           /\ seen' = [seen EXCEPT ![n] = i]
           /\ UNCHANGED <<versions, enactment, network, pc, instance>>
    BY <1>6, ZenonT(30) DEF SeePolicy
  <2>2. PolicyInv'
    BY <2>1 DEF LifecycleInv, PolicyInv, BornOnce
  <2> QED
    BY <2>1, <2>2 DEF LifecycleInv, NodeTypes, NodesInv
<1>7. ASSUME NEW n \in Nodes, SeeLabels(n) PROVE LifecycleInv'
  BY <1>1, <1>7 DEF SeeLabels
<1>8. ASSUME NEW n \in Nodes, NEW m \in Nodes, ReconcileEnactment(m, n) PROVE LifecycleInv'
  <2>1. /\ enactment' = [enactment EXCEPT ![n] = NoEnactment]
        /\ UNCHANGED <<versions, seen, network, pc, instance>>
    BY <1>8 DEF ReconcileEnactment
  <2>2. Truthful(NoEnactment, network[n], pc[n], instance[n])
    BY AtNode, NothingIsTyped DEF Truthful, NoEnactment
  <2>3. /\ network' = [network EXCEPT ![n] = network[n]]
        /\ pc' = [pc EXCEPT ![n] = pc[n]]
        /\ instance' = [instance EXCEPT ![n] = instance[n]]
        /\ network[n] \in Pairs /\ pc[n] \in LabelNames /\ instance[n] \in Pairs
    BY <2>1, AtNode
  <2>4. NoEnactment \in EnactmentRecords
    BY NothingIsTyped
  <2> QED
    BY <2>1, <2>2, <2>3, <2>4, OneNode, ZenonT(30)
<1>9. CASE UNCHANGED vars
  BY <1>1, <1>9 DEF vars
<1> QED
  BY <1>2, <1>3, <1>4, <1>5, <1>6, <1>7, <1>8, <1>9, ReconcileKeeps, RestartKeeps
  DEF Next, User, Handler

\* What an enactment reports as done is what its node applied, for any number
\* of nodes, edits, relabellings and restarts, watches that lag or are broken
\* off, and enactments deleted under a running reconciler - unless a policy is
\* deleted and created again (Reconcile: "Already fully reconciled for this
\* generation").
THEOREM AvailableIsAlwaysTrue ==
    ASSUME "recreate" \notin Hazards
    PROVE  Spec => []AvailableIsTrue
<1>1. LifecycleInv => AvailableIsTrue
  BY DEF LifecycleInv, NodesInv, Truthful, AvailableIsTrue
<1> QED
  BY <1>1, LifecycleInit, LifecycleNext, PTL DEF Spec

-----------------------------------------------------------------------------
(* A handler at rest has followed its policy *)

\* Whether policy c selects a node with labels l.
Wants(c, l) == c.exists /\ unmatchingLabels(c.selector, l) = {}

\* Of an enactment e, the step p its reconciler is at, the desired state d that
\* it works on, whether a request is queued, and the policy c and labels l in
\* the cache: what is not queued is done, or being done for what is cached.
Follow(e, p, d, q, c, l) ==
    \/ q
    \/ /\ p = "idle"
       /\ e.exists <=> Wants(c, l)
       /\ Wants(c, l) => e.phase = "available" /\ e.desired = DesiredState(c)
    \/ p = "delete" /\ ~Wants(c, l)
    \/ p \notin {"idle", "delete"} /\ Wants(c, l) /\ d = DesiredState(c)

Follows(n) ==
    Follow(enactment[n], pc[n], instance[n], queued[n], Cached(n), seenLabels[n])

CacheTypes ==
    /\ labels \in [Nodes -> LabelSets]
    /\ seenLabels \in [Nodes -> LabelSets]
    /\ queued \in [Nodes -> BOOLEAN]

\* While the policy exists, every change of it is let through, and only a cache
\* that is older than the policy has none.
Lineage ==
    Policy.exists =>
        /\ \A i \in 1..Len(versions) : ~versions[i].exists => versions[i].born = 0
        /\ \A i, j \in 1..Len(versions) :
              i < j /\ versions[i].exists /\ versions[j].exists
                  => versions[i].gen < versions[j].gen

\* Nothing happens before the policy is created.
Untouched ==
    Policy.born = 0 =>
        Len(versions) = 1 /\ \A n \in Nodes : AtRest(n) /\ ~enactment[n].exists

FollowInv ==
    /\ CacheTypes
    /\ Lineage
    /\ Untouched
    /\ Policy.exists => \A n \in Nodes : Follows(n)

\* There is no policy to follow at first.
LEMMA FollowInit == Init => FollowInv
<1> SUFFICES ASSUME Init PROVE FollowInv
  OBVIOUS
<1>1. Len(versions) = 1 /\ Policy = Absent(0) /\ ~Policy.exists
  BY DEF Init, Policy, Absent
<1>2. CacheTypes
  BY DEF Init, CacheTypes, LabelSets
<1>3. \A n \in Nodes : AtRest(n) /\ ~enactment[n].exists
  BY ZenonT(30) DEF Init, AtRest, NoEnactment
<1> QED
  BY <1>1, <1>2, <1>3 DEF FollowInv, Lineage, Untouched

\* What is known of the policy and of the cache of n.
LEMMA AtCache ==
    ASSUME LifecycleInv, NEW n \in Nodes
    PROVE  /\ Policy \in VersionRecords /\ (Policy.exists => Policy.born = 1)
           /\ Cached(n) \in VersionRecords
           /\ seen[n] \in 1..Len(versions) /\ Len(versions) \in Nat
BY DEF LifecycleInv, PolicyInv, BornOnce, Policy, Cached

\* A node nothing happens to.
LEMMA OthersFollow ==
    ASSUME NEW n, Follows(n),
           UNCHANGED <<enactment[n], pc[n], instance[n], queued[n], Cached(n), seenLabels[n]>>
    PROVE  Follows(n)'
BY DEF Follows

\* A request that is queued is still to be done.
LEMMA QueuedFollows == ASSUME NEW n, queued'[n] PROVE Follows(n)'
BY DEF Follows, Follow

\* A reconciler that fails is tried again.
LEMMA FailFollows ==
    ASSUME CacheTypes, NEW n \in Nodes, Fail(n)
    PROVE  Follows(n)'
<1>1. queued'[n]
  BY DEF Fail, CacheTypes
<1> QED
  BY <1>1, QueuedFollows

\* A reconciler that goes on, and writes e to the enactment.
LEMMA GoOnFollows ==
    ASSUME LifecycleInv, CacheTypes, NEW n \in Nodes, Follows(n),
           UNCHANGED <<versions, seen, seenLabels>>,
           pc[n] \notin {"idle", "delete"},
           NEW e, enactment'[n] = e,
           NEW p, p # "delete", Goto(n, p),
           p = "idle" => e.exists /\ e.phase = "available" /\ e.desired = instance[n]
    PROVE  Follows(n)'
<1>1. pc'[n] = p /\ queued'[n] = queued[n] /\ (p # "idle" => instance'[n] = instance[n])
  BY DEF Goto, LifecycleInv, NodeTypes
<1>2. Cached(n)' = Cached(n) /\ seenLabels'[n] = seenLabels[n]
  BY DEF Cached
<1>3. CASE queued[n]
  BY <1>1, <1>3, QueuedFollows
<1>4. CASE ~queued[n]
  <2>1. Wants(Cached(n), seenLabels[n]) /\ instance[n] = DesiredState(Cached(n))
    BY <1>4 DEF Follows, Follow
  <2>2. Follow(e, p, instance'[n], queued[n], Cached(n), seenLabels[n])
    BY <1>1, <2>1 DEF Follow
  <2> QED
    BY <1>1, <1>2, <2>2 DEF Follows
<1> QED
  BY <1>3, <1>4

\* A reconciler that writes to the enactment, or fails.
LEMMA WriteFollows ==
    ASSUME LifecycleInv, CacheTypes, NEW n \in Nodes, Follows(n),
           UNCHANGED <<versions, seen, seenLabels>>,
           pc[n] \notin {"idle", "delete"},
           NEW e, NEW p, p # "delete", Write(n, e, p),
           p = "idle" /\ enactment[n].exists =>
               e.exists /\ e.phase = "available" /\ e.desired = instance[n]
    PROVE  Follows(n)'
<1>1. CASE enactment[n].exists /\ enactment' = [enactment EXCEPT ![n] = e] /\ Goto(n, p)
  <2>1. enactment'[n] = e
    BY <1>1 DEF LifecycleInv, NodeTypes
  <2> QED
    BY <1>1, <2>1, GoOnFollows
<1>2. CASE Fail(n)
  BY <1>2, FailFollows
<1> QED
  BY <1>1, <1>2 DEF Write

\* A step of the reconciler of n while its policy exists.
LEMMA ReconcileFollows ==
    ASSUME LifecycleInv, CacheTypes, NEW n \in Nodes, Follows(n), Policy.exists, ReconcileStep(n)
    PROVE  Follows(n)'
<1> DEFINE e == enactment[n]
           d == instance[n]
           c == Cached(n)
           l == seenLabels[n]
<1>0. e \in EnactmentRecords /\ Truthful(e, network[n], pc[n], d)
  BY AtNode
<1>1. UNCHANGED <<versions, seen, seenLabels>> /\ UNCHANGED c
  BY DEF ReconcileStep, Begin, deleteEnactmentForPolicy, initializeEnactment,
         fillInEnactmentStatus, Verify, Mark, Apply, Success, Finalize, Cached
<1>2. CASE Begin(n)
  <2>1. /\ queued'[n] = FALSE /\ instance'[n] = DesiredState(c)
        /\ pc'[n] = IF Wants(c, l) THEN "initialize" ELSE "delete"
    BY <1>2 DEF Begin, CacheTypes, LifecycleInv, NodeTypes, Wants
  <2>2. Follow(enactment'[n], pc'[n], instance'[n], queued'[n], c, l)
    BY <2>1 DEF Follow
  <2> QED
    BY <1>1, <2>2 DEF Follows
<1>3. CASE deleteEnactmentForPolicy(n)
  <2>1. /\ pc[n] = "delete" /\ pc'[n] = "idle" /\ queued'[n] = queued[n]
        /\ enactment'[n] = NoEnactment
    BY <1>3 DEF deleteEnactmentForPolicy, Goto, LifecycleInv, NodeTypes
  <2>2. ~NoEnactment.exists
    BY DEF NoEnactment
  <2>3. CASE queued[n]
    BY <2>1, <2>3, QueuedFollows
  <2>4. CASE ~queued[n]
    <3>1. ~Wants(c, l)
      BY <2>1, <2>4 DEF Follows, Follow
    <3>2. Follow(NoEnactment, "idle", instance'[n], queued'[n], c, l)
      BY <2>2, <3>1 DEF Follow
    <3> QED
      BY <1>1, <2>1, <3>2 DEF Follows
  <2> QED
    BY <2>3, <2>4
<1>4. CASE initializeEnactment(n)
  <2>1. pc[n] \notin {"idle", "delete"}
    BY <1>4 DEF initializeEnactment
  <2>2. CASE Goto(n, "fillIn")
    BY <1>1, <2>1, <2>2, GoOnFollows
  <2>3. CASE Fail(n)
    BY <2>3, FailFollows
  <2> QED
    BY <1>4, <2>2, <2>3 DEF initializeEnactment
<1>5. CASE fillInEnactmentStatus(n)
  <2>1. pc[n] \notin {"idle", "delete"} /\ Write(n, resetPolicyGeneration(e, d), "verify")
    BY <1>5 DEF fillInEnactmentStatus
  <2> QED
    BY <1>1, <2>1, WriteFollows
<1>6. CASE Verify(n)
  <2>1. pc[n] = "verify" /\ pc[n] \notin {"idle", "delete"} /\ UNCHANGED enactment
    BY <1>6 DEF Verify
  <2>2. CASE Fail(n)
    BY <2>2, FailFollows
  <2>3. CASE /\ e.exists
             /\ \/ e.phase = "available" /\ Goto(n, "idle")
                \/ Goto(n, "finalize") \/ Goto(n, "mark")
    <3>1. e.desired = d
      BY <1>0, <2>1, <2>3 DEF Truthful
    <3>2. CASE e.phase = "available" /\ Goto(n, "idle")
      BY <1>1, <2>1, <2>3, <3>1, <3>2, GoOnFollows
    <3>3. CASE Goto(n, "finalize")
      BY <1>1, <2>1, <3>3, GoOnFollows
    <3>4. CASE Goto(n, "mark")
      BY <1>1, <2>1, <3>4, GoOnFollows
    <3> QED
      BY <2>3, <3>2, <3>3, <3>4
  <2> QED
    BY <1>6, <2>2, <2>3 DEF Verify
<1>7. CASE Mark(n)
  <2>1. pc[n] \notin {"idle", "delete"} /\ Write(n, e, "apply")
    BY <1>7 DEF Mark
  <2> QED
    BY <1>1, <2>1, WriteFollows
<1>8. CASE Apply(n)
  <2>1. pc[n] \notin {"idle", "delete"} /\ Write(n, [e EXCEPT !.phase = "finalizing"], "success")
    BY <1>8 DEF Apply
  <2> QED
    BY <1>1, <2>1, WriteFollows
<1>9. CASE Success(n) \/ Finalize(n)
  <2> DEFINE r == [e EXCEPT !.phase = "available"]
  <2>1. pc[n] \in {"success", "finalize"} /\ pc[n] \notin {"idle", "delete"} /\ Write(n, r, "idle")
    BY <1>9 DEF Success, Finalize
  <2>2. r.exists = e.exists /\ r.desired = e.desired /\ r.phase = "available"
    BY <1>0 DEF EnactmentRecords
  <2>3. e.exists => e.desired = d
    BY <1>0, <2>1 DEF Truthful
  <2> HIDE DEF r
  <2> QED
    BY <1>1, <2>1, <2>2, <2>3, WriteFollows
<1> QED
  BY <1>2, <1>3, <1>4, <1>5, <1>6, <1>7, <1>8, <1>9 DEF ReconcileStep

\* The cache of n sees another version: every one that matters is let through.
LEMMA SeePolicyFollows ==
    ASSUME LifecycleInv, CacheTypes, Lineage, NEW n \in Nodes, Follows(n), Policy.exists,
           SeePolicy(n)
    PROVE  Follows(n)'
<1>1. PICK i \in (seen[n] + 1)..Len(versions) :
         /\ seen' = [seen EXCEPT ![n] = i]
         /\ queued' = [queued EXCEPT ![n] = @ \/ IsLetThrough(Cached(n), versions[i])]
         /\ UNCHANGED <<versions, seenLabels, enactment, pc, instance>>
  BY ZenonT(30) DEF SeePolicy
<1> DEFINE c == Cached(n)
           v == versions[i]
<1>2. /\ i \in 1..Len(versions) /\ seen[n] < i
      /\ seen[n] \in 1..Len(versions)
      /\ c \in VersionRecords /\ v \in VersionRecords
  BY AtCache DEF LifecycleInv, PolicyInv
<1>3. Cached(n)' = v
  BY <1>1 DEF Cached, LifecycleInv, PolicyInv
<1>4. queued'[n] = (queued[n] \/ IsLetThrough(c, v))
  BY <1>1 DEF CacheTypes
<1>5. CASE queued[n] \/ c.exists \/ v.exists
  <2>1. c.exists /\ v.exists => c.gen < v.gen
    BY <1>2 DEF Lineage, Cached
  <2>2. queued[n] \/ IsLetThrough(c, v)
    BY <1>2, <1>5, <2>1 DEF IsLetThrough, VersionRecords
  <2> QED
    BY <1>4, <2>2, QueuedFollows
<1>6. CASE ~queued[n] /\ ~c.exists /\ ~v.exists
  <2>1. ~Wants(c, seenLabels[n]) /\ ~Wants(v, seenLabels[n])
    BY <1>6 DEF Wants
  <2>2. Follow(enactment[n], pc[n], instance[n], queued[n], c, seenLabels[n])
    BY DEF Follows
  <2>3. Follow(enactment[n], pc[n], instance[n], queued'[n], v, seenLabels[n])
    BY <1>6, <2>1, <2>2 DEF Follow
  <2> QED
    BY <1>1, <1>3, <2>3 DEF Follows
<1> QED
  BY <1>5, <1>6

\* The cache of n sees the labels: a policy that is in the cache is looked at.
LEMMA SeeLabelsFollows ==
    ASSUME LifecycleInv, CacheTypes, NEW n \in Nodes, Follows(n), SeeLabels(n)
    PROVE  Follows(n)'
<1> DEFINE c == Cached(n)
<1>1. /\ UNCHANGED <<enactment, pc, instance>> /\ Cached(n)' = c
      /\ queued'[n] = (queued[n] \/ c.exists)
  BY DEF SeeLabels, allPolicies, Cached, CacheTypes
<1>2. CASE queued[n] \/ c.exists
  BY <1>1, <1>2, QueuedFollows
<1>3. CASE ~queued[n] /\ ~c.exists
  <2>1. \A l : ~Wants(c, l)
    BY <1>3 DEF Wants
  <2>2. Follow(enactment[n], pc[n], instance[n], queued[n], c, seenLabels[n])
    BY DEF Follows
  <2>3. Follow(enactment[n], pc[n], instance[n], queued'[n], c, seenLabels'[n])
    BY <1>3, <2>1, <2>2 DEF Follow
  <2> QED
    BY <1>1, <2>3 DEF Follows
<1> QED
  BY <1>2, <1>3

\* A new version of a policy that exists, or the first one, is still to be seen.
LEMMA PublishFollows ==
    ASSUME LifecycleInv, FollowInv, NEW v \in VersionRecords, Publish(v), v.born # 0,
           v.exists => Policy.born = 0 \/ (Policy.exists /\ Policy.gen < v.gen)
    PROVE  FollowInv'
<1>1. /\ versions \in Seq(VersionRecords) /\ Len(versions) \in Nat /\ Len(versions) >= 1
      /\ Len(versions') = Len(versions) + 1 /\ Policy' = v
      /\ \A i \in 1..Len(versions) : versions'[i] = versions[i]
      /\ versions'[Len(versions) + 1] = v
      /\ UNCHANGED <<labels, seen, seenLabels, enactment, pc, instance, queued>>
  BY DEF Publish, Policy, LifecycleInv, PolicyInv
<1>2. CacheTypes' /\ Untouched'
  BY <1>1 DEF FollowInv, CacheTypes, Untouched
<1>3. /\ Policy \in VersionRecords /\ Policy = versions[Len(versions)]
      /\ (Policy.exists => Policy.born = 1)
  BY DEF LifecycleInv, PolicyInv, BornOnce, Policy
<1>4. CASE ~v.exists
  <2>1. Lineage' /\ ~Policy'.exists
    BY <1>1, <1>4 DEF Lineage
  <2> QED
    BY <1>2, <2>1 DEF FollowInv
<1>5. CASE v.exists /\ Policy.born = 0
  <2>1. /\ Len(versions) = 1 /\ ~Policy.exists
        /\ \A n \in Nodes : AtRest(n) /\ ~enactment[n].exists
    BY <1>3, <1>5 DEF FollowInv, Untouched
  <2>2. versions'[1] = Policy /\ versions'[2] = v /\ Len(versions') = 2
    BY <1>1, <1>3, <2>1
  <2>3. Lineage'
    BY <1>5, <2>1, <2>2 DEF Lineage
  <2>4. ASSUME NEW n \in Nodes PROVE Follows(n)'
    <3>1. seen[n] = 1
      BY <2>1, AtCache
    <3>2. Cached(n)' = Policy
      BY <1>1, <2>2, <3>1 DEF Cached
    <3>3. pc'[n] = "idle" /\ ~enactment'[n].exists /\ ~Wants(Policy, seenLabels'[n])
      BY <1>1, <2>1 DEF AtRest, Wants
    <3>4. Follow(enactment'[n], pc'[n], instance'[n], queued'[n], Policy, seenLabels'[n])
      BY <3>3 DEF Follow
    <3> QED
      BY <3>2, <3>4 DEF Follows
  <2> QED
    BY <1>2, <2>3, <2>4 DEF FollowInv
<1>6. CASE v.exists /\ Policy.exists /\ Policy.gen < v.gen
  <2>1. ASSUME NEW i \in 1..Len(versions'), ~versions'[i].exists PROVE versions'[i].born = 0
    BY <1>1, <1>6, <2>1 DEF FollowInv, Lineage
  <2>2. ASSUME NEW i \in 1..Len(versions'), NEW j \in 1..Len(versions'),
               i < j, versions'[i].exists, versions'[j].exists
        PROVE  versions'[i].gen < versions'[j].gen
    <3>1. i \in 1..Len(versions) /\ versions'[i] = versions[i] /\ versions[i] \in VersionRecords
      BY <1>1, <2>2
    <3>2. CASE j \in 1..Len(versions)
      BY <1>1, <1>6, <2>2, <3>1, <3>2 DEF FollowInv, Lineage
    <3>3. CASE j = Len(versions) + 1
      <4>1. versions[i].gen <= Policy.gen
        <5>1. CASE i = Len(versions)
          BY <1>3, <3>1, <5>1 DEF VersionRecords
        <5>2. CASE i # Len(versions)
          <6>1. i < Len(versions) /\ Len(versions) \in 1..Len(versions)
            BY <1>1, <3>1, <5>2
          <6>2. versions[i].gen < Policy.gen
            BY <1>3, <1>6, <2>2, <3>1, <6>1 DEF FollowInv, Lineage
          <6> QED
            BY <1>3, <3>1, <6>2 DEF VersionRecords
        <5> QED
          BY <5>1, <5>2
      <4>2. versions[i].gen \in Int /\ Policy.gen \in Int /\ v.gen \in Int
        BY <1>3, <3>1 DEF VersionRecords
      <4> QED
        BY <1>1, <1>6, <3>1, <3>3, <4>1, <4>2
    <3> QED
      BY <1>1, <3>2, <3>3
  <2>3. ASSUME NEW n \in Nodes PROVE Follows(n)'
    <3>1. Cached(n)' = Cached(n)
      BY <1>1, AtCache DEF Cached
    <3> QED
      BY <1>1, <1>6, <3>1, OthersFollow DEF FollowInv
  <2> QED
    BY <1>2, <2>1, <2>2, <2>3 DEF FollowInv, Lineage
<1> QED
  BY <1>4, <1>5, <1>6

\* A step that leaves the policy alone and happens to node n.
LEMMA OneFollows ==
    ASSUME LifecycleInv, FollowInv, UNCHANGED versions, CacheTypes', NEW n \in Nodes,
           Policy.exists => Follows(n)',
           Policy.born = 0 => AtRest(n)' /\ ~enactment'[n].exists,
           \A m \in Nodes \ {n} : UNCHANGED <<enactment[m], pc[m], instance[m], queued[m],
                                              seen[m], seenLabels[m]>>
    PROVE  FollowInv'
<1>1. UNCHANGED Policy /\ Lineage'
  BY DEF FollowInv, Lineage, Policy
<1>2. ASSUME NEW m \in Nodes, m # n PROVE UNCHANGED Cached(m)
  BY <1>2 DEF Cached
<1>3. Untouched'
  <2> SUFFICES ASSUME Policy.born = 0
               PROVE  Len(versions) = 1 /\ \A m \in Nodes : (AtRest(m) /\ ~enactment[m].exists)'
    BY <1>1 DEF Untouched
  <2>1. ASSUME NEW m \in Nodes, m # n PROVE (AtRest(m) /\ ~enactment[m].exists)'
    BY <2>1 DEF FollowInv, Untouched, AtRest
  <2> QED
    BY <2>1 DEF FollowInv, Untouched
<1>4. ASSUME Policy.exists, NEW m \in Nodes, m # n PROVE Follows(m)'
  BY <1>2, <1>4, OthersFollow DEF FollowInv
<1> QED
  BY <1>1, <1>3, <1>4 DEF FollowInv

\* Before the policy is created, no handler has anything to do.
LEMMA NothingToDo ==
    ASSUME LifecycleInv, FollowInv, Policy.born = 0, NEW n \in Nodes
    PROVE  /\ pc[n] = "idle" /\ queued[n] = FALSE /\ ~enactment[n].exists
           /\ ~Policy.exists /\ Cached(n) = Policy
           /\ ~SeePolicy(n) /\ ~ReconcileStep(n)
<1>1. pc[n] = "idle" /\ queued[n] = FALSE /\ ~enactment[n].exists /\ Len(versions) = 1
  BY DEF FollowInv, Untouched, AtRest, CacheTypes
<1>2. ~Policy.exists /\ seen[n] = 1
  BY <1>1, AtCache
<1>3. Cached(n) = Policy
  BY <1>1, <1>2 DEF Cached, Policy
<1>4. ~SeePolicy(n)
  BY <1>1, <1>2 DEF SeePolicy
<1>5. ~ReconcileStep(n)
  BY <1>1 DEF ReconcileStep, Begin, deleteEnactmentForPolicy, initializeEnactment,
         fillInEnactmentStatus, Verify, Mark, Apply, Success, Finalize
<1> QED
  BY <1>1, <1>2, <1>3, <1>4, <1>5

\* A step of the reconciler of n.
LEMMA ReconcileKeepsFollowing ==
    ASSUME LifecycleInv, FollowInv, NEW n \in Nodes, ReconcileStep(n)
    PROVE  FollowInv'
<1>1. UNCHANGED <<versions, labels, seen, seenLabels>>
  BY DEF ReconcileStep, Begin, deleteEnactmentForPolicy, initializeEnactment,
         fillInEnactmentStatus, Verify, Mark, Apply, Success, Finalize
<1>2. \E e, p, d, q :
         /\ enactment' = [enactment EXCEPT ![n] = e] /\ pc' = [pc EXCEPT ![n] = p]
         /\ instance' = [instance EXCEPT ![n] = d] /\ queued' = [queued EXCEPT ![n] = q]
         /\ q \in BOOLEAN
  <2>0. /\ enactment = [enactment EXCEPT ![n] = enactment[n]]
        /\ queued = [queued EXCEPT ![n] = queued[n]] /\ queued[n] \in BOOLEAN
    BY AtNode DEF FollowInv, CacheTypes
  <2>1. \E e : enactment' = [enactment EXCEPT ![n] = e]
    <3>1. CASE UNCHANGED enactment
      BY <2>0, <3>1
    <3>2. CASE enactment' # enactment
      BY <3>2 DEF ReconcileStep, Begin, deleteEnactmentForPolicy, initializeEnactment,
         fillInEnactmentStatus, Verify, Mark, Apply, Success, Finalize, Write
    <3> QED
      BY <3>1, <3>2
  <2>2. \/ Begin(n) \/ Fail(n)
        \/ \E p \in LabelNames : Goto(n, p)
    BY DEF ReconcileStep, deleteEnactmentForPolicy, initializeEnactment,
         fillInEnactmentStatus, Verify, Mark, Apply, Success, Finalize, Write, LabelNames
  <2>3. \E p, d, q : /\ pc' = [pc EXCEPT ![n] = p] /\ instance' = [instance EXCEPT ![n] = d]
                     /\ queued' = [queued EXCEPT ![n] = q] /\ q \in BOOLEAN
    <3>1. CASE Begin(n)
      BY <3>1 DEF Begin
    <3>2. CASE Fail(n)
      BY <3>2 DEF Fail
    <3>3. CASE \E p \in LabelNames : Goto(n, p)
      <4>1. PICK p : Goto(n, p)
        BY <3>3
      <4> QED
        BY <2>0, <4>1 DEF Goto
    <3> QED
      BY <2>2, <3>1, <3>2, <3>3
  <2> QED
    BY <2>1, <2>3
<1>3. CacheTypes'
  BY <1>1, <1>2 DEF FollowInv, CacheTypes
<1>4. \A m \in Nodes \ {n} : UNCHANGED <<enactment[m], pc[m], instance[m], queued[m],
                                         seen[m], seenLabels[m]>>
  BY <1>1, <1>2 DEF LifecycleInv, NodeTypes, FollowInv, CacheTypes
<1>5. Policy.exists => Follows(n)'
  BY ReconcileFollows DEF FollowInv
<1>6. Policy.born # 0
  BY NothingToDo
<1> QED
  BY <1>1, <1>3, <1>4, <1>5, <1>6, OneFollows

\* A handler that starts lists the policy, and looks at it.
LEMMA RestartKeepsFollowing ==
    ASSUME LifecycleInv, FollowInv, NEW n \in Nodes, Restart(n)
    PROVE  FollowInv'
<1>1. UNCHANGED <<versions, labels>> /\ CacheTypes'
  BY AtCache DEF Restart, FollowInv, CacheTypes, VersionRecords
<1>2. queued'[n] = Policy.exists /\ pc'[n] = "idle"
  BY DEF Restart, FollowInv, CacheTypes, LifecycleInv, NodeTypes
<1>3. enactment'[n].exists = enactment[n].exists
  BY DEF Restart, LifecycleInv, NodeTypes, EnactmentRecords
<1>4. \A m \in Nodes \ {n} : UNCHANGED <<enactment[m], pc[m], instance[m], queued[m],
                                         seen[m], seenLabels[m]>>
  BY DEF Restart, LifecycleInv, NodeTypes, PolicyInv, FollowInv, CacheTypes
<1>5. Policy.exists => Follows(n)'
  BY <1>2, QueuedFollows
<1>6. Policy.born = 0 => AtRest(n)' /\ ~enactment'[n].exists
  BY <1>2, <1>3, NothingToDo DEF AtRest
<1> QED
  BY <1>1, <1>4, <1>5, <1>6, OneFollows

\* Every step keeps the invariant, if a policy is created only once and seen by
\* a handler before the enactments of it.
LEMMA FollowNext ==
    ASSUME "recreate" \notin Hazards, "lateWatch" \notin Hazards
    PROVE  LifecycleInv /\ FollowInv /\ [Next]_vars => FollowInv'
<1> SUFFICES ASSUME LifecycleInv, FollowInv, [Next]_vars PROVE FollowInv'
  OBVIOUS
<1>0. /\ Policy \in VersionRecords /\ (Policy.exists => Policy.born = 1)
      /\ Policy.born \in Int /\ Policy.gen \in Int
  <2>1. Policy \in VersionRecords /\ (Policy.exists => Policy.born = 1)
    BY DEF LifecycleInv, PolicyInv, BornOnce, Policy
  <2> QED
    BY <2>1 DEF VersionRecords
<1>1. CASE CreatePolicy
  <2>1. PICK s \in LabelSets :
          Publish([exists |-> TRUE, born |-> Policy.born + 1, gen |-> 1, selector |-> s])
    BY <1>1, ZenonT(30) DEF CreatePolicy
  <2>2. Policy.born = 0
    BY <1>1 DEF CreatePolicy
  <2> DEFINE v == [exists |-> TRUE, born |-> Policy.born + 1, gen |-> 1, selector |-> s]
  <2>3. v \in VersionRecords /\ v.born = 1
    BY <2>2 DEF VersionRecords
  <2>4. Publish(v)
    BY <2>1
  <2> HIDE DEF v
  <2> QED
    BY <2>2, <2>3, <2>4, PublishFollows
<1>2. CASE EditPolicy
  <2>1. PICK s \in LabelSets : Publish([Policy EXCEPT !.gen = @ + 1, !.selector = s])
    BY <1>2, ZenonT(30) DEF EditPolicy
  <2> DEFINE v == [Policy EXCEPT !.gen = @ + 1, !.selector = s]
             g == Policy.gen + 1
  <2>2. g \in Int /\ Policy.gen < g /\ v = [Policy EXCEPT !.gen = g, !.selector = s]
    BY <1>0
  <2>3. Publish(v)
    BY <2>1
  <2> HIDE DEF v, g
  <2>4. v \in VersionRecords /\ v.born = Policy.born /\ v.gen = g
    BY <1>0, <2>2, ZenonT(30) DEF VersionRecords
  <2>5. Policy.exists /\ v.born = 1 /\ Policy.gen < v.gen
    BY <1>0, <1>2, <2>2, <2>4 DEF EditPolicy
  <2> QED
    BY <2>3, <2>4, <2>5, PublishFollows
<1>3. CASE DeletePolicy
  <2> DEFINE v == Absent(Policy.born)
  <2>1. v \in VersionRecords /\ ~v.exists /\ v.born = Policy.born
    BY <1>0 DEF Absent, VersionRecords, LabelSets
  <2>2. Publish(v) /\ Policy.born = 1
    BY <1>0, <1>3 DEF DeletePolicy
  <2> HIDE DEF v
  <2> QED
    BY <2>1, <2>2, PublishFollows
<1>4. ASSUME UNCHANGED <<versions, seen, seenLabels, enactment, pc, instance, queued>>, CacheTypes'
      PROVE  FollowInv'
  BY <1>4 DEF FollowInv, Lineage, Untouched, AtRest, Follows, Cached, Policy
<1>5. ASSUME NEW n \in Nodes, Relabel(n) PROVE FollowInv'
  <2>1. CacheTypes'
    BY <1>5 DEF Relabel, FollowInv, CacheTypes
  <2> QED
    BY <1>4, <1>5, <2>1 DEF Relabel
<1>6. ASSUME NEW n \in Nodes, SeePolicy(n) PROVE FollowInv'
  <2>1. PICK i : /\ seen' = [seen EXCEPT ![n] = i]
                 /\ queued' = [queued EXCEPT ![n] = @ \/ IsLetThrough(Cached(n), versions[i])]
                 /\ UNCHANGED <<versions, labels, seenLabels, enactment, pc, instance>>
    BY <1>6, ZenonT(30) DEF SeePolicy
  <2>2. CacheTypes'
    BY <2>1 DEF FollowInv, CacheTypes
  <2>3. \A m \in Nodes \ {n} : UNCHANGED <<enactment[m], pc[m], instance[m], queued[m],
                                           seen[m], seenLabels[m]>>
    BY <2>1 DEF LifecycleInv, PolicyInv, FollowInv, CacheTypes
  <2>4. Policy.exists => Follows(n)'
    BY <1>6, SeePolicyFollows DEF FollowInv
  <2>5. Policy.born # 0
    BY <1>6, NothingToDo
  <2> QED
    BY <2>1, <2>2, <2>3, <2>4, <2>5, OneFollows
<1>7. ASSUME NEW n \in Nodes, SeeLabels(n) PROVE FollowInv'
  <2>1. /\ UNCHANGED <<versions, labels, seen, enactment, pc, instance>>
        /\ seenLabels' = [seenLabels EXCEPT ![n] = labels[n]]
        /\ queued' = [queued EXCEPT ![n] = @ \/ Cached(n).exists]
    BY <1>7 DEF SeeLabels, allPolicies
  <2>2. CacheTypes'
    BY <2>1 DEF FollowInv, CacheTypes
  <2>3. \A m \in Nodes \ {n} : UNCHANGED <<enactment[m], pc[m], instance[m], queued[m],
                                           seen[m], seenLabels[m]>>
    BY <2>1 DEF FollowInv, CacheTypes
  <2>4. Policy.exists => Follows(n)'
    BY <1>7, SeeLabelsFollows DEF FollowInv
  <2>5. Policy.born = 0 => AtRest(n)' /\ ~enactment'[n].exists
    <3> SUFFICES ASSUME Policy.born = 0 PROVE AtRest(n)' /\ ~enactment'[n].exists
      OBVIOUS
    <3>1. pc[n] = "idle" /\ queued[n] = FALSE /\ ~enactment[n].exists /\ ~Cached(n).exists
      BY NothingToDo
    <3>2. queued'[n] = (queued[n] \/ Cached(n).exists)
      BY <2>1 DEF FollowInv, CacheTypes
    <3> QED
      BY <2>1, <3>1, <3>2 DEF AtRest
  <2> QED
    BY <2>1, <2>2, <2>3, <2>4, <2>5, OneFollows
<1>8. ASSUME NEW n \in Nodes, NEW m \in Nodes, ReconcileEnactment(m, n) PROVE FollowInv'
  <2>1. /\ enactment' = [enactment EXCEPT ![n] = NoEnactment]
        /\ UNCHANGED <<versions, labels, seen, seenLabels, pc, instance, queued>>
        /\ enactment[n].exists /\ ~Cached(m).exists /\ Cached(m).born = Policy.born
    BY <1>8 DEF ReconcileEnactment
  <2>2. CacheTypes'
    BY <2>1 DEF FollowInv, CacheTypes
  <2>3. Policy.born # 0
    BY <2>1, NothingToDo
  <2>4. ~Policy.exists
    <3>1. Policy.exists => Cached(m).born = 0
      BY <2>1, AtCache DEF FollowInv, Lineage, Cached
    <3> QED
      BY <2>1, <2>3, <3>1
  <2>5. \A k \in Nodes \ {n} : UNCHANGED <<enactment[k], pc[k], instance[k], queued[k],
                                           seen[k], seenLabels[k]>>
    BY <2>1 DEF LifecycleInv, NodeTypes
  <2> QED
    BY <2>1, <2>2, <2>3, <2>4, <2>5, OneFollows
<1>9. CASE UNCHANGED vars
  <2>1. CacheTypes'
    BY <1>9 DEF vars, FollowInv, CacheTypes
  <2> QED
    BY <1>4, <1>9, <2>1 DEF vars
<1> QED
  BY <1>1, <1>2, <1>3, <1>5, <1>6, <1>7, <1>8, <1>9, ReconcileKeepsFollowing,
     RestartKeepsFollowing
  DEF Next, User, Handler

\* A handler that has seen the latest policy and labels and has no request left
\* has done all there is to do for the policy: its node has an Available
\* enactment of the last generation if it is selected and none otherwise, for
\* any number of nodes, edits, relabellings and restarts and for watches that
\* lag or are broken off (onCreateOrUpdateWithDifferentGenerationOrDelete, the
\* errors of Reconcile).
THEOREM RestIsFollowed ==
    ASSUME "recreate" \notin Hazards, "lateWatch" \notin Hazards
    PROVE  Spec => []RestMeansFollowed
<1>1. ASSUME LifecycleInv, FollowInv PROVE RestMeansFollowed
  <2> SUFFICES ASSUME NEW n \in Nodes, UpToDate(n), AtRest(n), Policy.exists
               PROVE  Followed(n)
    BY DEF RestMeansFollowed
  <2>1. Cached(n) = Policy /\ seenLabels[n] = labels[n]
    BY DEF UpToDate, Cached, Policy
  <2>2. Selected(n) <=> Wants(Cached(n), seenLabels[n])
    BY <2>1 DEF Selected, Wants
  <2>3. /\ enactment[n].exists <=> Selected(n)
        /\ Selected(n) => /\ enactment[n].phase = "available"
                          /\ enactment[n].desired = DesiredState(Policy)
    BY <1>1, <2>1, <2>2 DEF FollowInv, Follows, Follow, AtRest
  <2>4. Selected(n) => network[n] = enactment[n].desired
    BY <1>1, <2>3, AtNode DEF Truthful
  <2> QED
    BY <2>3, <2>4 DEF Followed
<1> QED
  BY <1>1, LifecycleInit, LifecycleNext, FollowInit, FollowNext, PTL DEF Spec
=============================================================================
