--------------------------- MODULE OperatorProofs ---------------------------
(***************************************************************************)
(* What holds of the operator for every set of names, profiles and bounds. *)
(***************************************************************************)
EXTENDS Operator, FiniteSetTheorems, TLAPS

\* What the proofs use of the constants.
LEMMA Constants == MaxEvents \in Nat /\ "nmstate" \in Names /\ NoName \notin Names
BY OperatorAssumption

\* The calls of Reconcile by their position.
LEMMA StepPositions ==
    /\ Len(Steps) = 9
    /\ \A i \in 1..9 : /\ Steps[i] = "status" <=> i = 9
                       /\ Steps[i] = "cleanup" <=> i = 8
                       /\ Steps[i] = "profile" <=> i = 3
                       /\ Steps[i] \in {"servers", "tlsConfig"} <=> i \in {4, 5}
BY DEF Steps

-----------------------------------------------------------------------------
(* Types *)

\* There are no more NMStates than events to create them.
TypeInv == TypeOK /\ created <= events + 1

\* The first NMState is typed.
LEMMA TypeInit == Init => TypeInv
<1> SUFFICES ASSUME Init PROVE TypeInv
  OBVIOUS
<1>1. NewNMState(1, 1) \in NMStates
  BY Constants DEF NMStates, NewNMState
<1>2. /\ nmstates \in [Names -> NMStates \cup {NoNMState}]
      /\ cache \in [Names -> NMStates \cup {NoNMState}]
  BY <1>1 DEF Init
<1>3. DOMAIN objects = Manifests /\ \A m \in Manifests : objects[m] = Nothing
  BY DEF Init
<1>4. created \in 1..(MaxEvents + 1) /\ events \in 0..MaxEvents /\ created <= events + 1
  BY Constants DEF Init
<1> QED
  BY <1>2, <1>3, <1>4 DEF Init, TypeInv, TypeOK, NoWorkloads

\* A reconcile in progress is one of an NMState that was found.
LEMMA WorkIsTyped ==
    ASSUME TypeOK, work # Idle
    PROVE  /\ DOMAIN work = {"step", "name", "instance", "spec"}
           /\ work.step \in 1..9 /\ work.name \in Names /\ work.instance \in NMStates
BY StepPositions DEF TypeOK

\* Writing a status changes nothing but the status.
LEMMA StatusWrittenKeeps ==
    ASSUME TypeOK, work # Idle,
           NEW status \in {"progressing", "available", "warned", "degraded"}
    PROVE  /\ StatusWritten(status) \in [Names -> NMStates \cup {NoNMState}]
           /\ \A n \in Names : /\ StatusWritten(status)[n].uid = nmstates[n].uid
                               /\ StatusWritten(status)[n].born = nmstates[n].born
<1>1. work.name \in Names /\ work.instance \in NMStates
  BY WorkIsTyped
<1>2. CASE nmstates[work.name] = work.instance
  <2>1. StatusWritten(status) = [nmstates EXCEPT ![work.name].status = status]
    BY <1>2 DEF StatusWritten
  <2>2. [nmstates[work.name] EXCEPT !.status = status] \in NMStates
    BY <1>1, <1>2 DEF NMStates
  <2> QED
    BY <1>1, <1>2, <2>1, <2>2 DEF TypeOK, NMStates
<1>3. CASE nmstates[work.name] # work.instance
  BY <1>3 DEF StatusWritten, TypeOK
<1> QED
  BY <1>2, <1>3

\* What events count.
LEMMA EventCounts ==
    ASSUME TypeInv, Event
    PROVE  events' \in 0..MaxEvents /\ events' = events + 1 /\ created + 1 \in 1..(MaxEvents + 1)
BY Constants DEF TypeInv, TypeOK, Event

\* A bound that has room keeps it when the bounding number grows.
LEMMA RoomStays ==
    ASSUME NEW i \in Int, NEW j \in Int, NEW k \in Int, i <= j + 1, k >= j
    PROVE  i <= k + 1
OBVIOUS

\* A request ends in nothing, in the deletion of a duplicate, or in work on an
\* NMState that the cache has.
LEMMA ReconcileTyped ==
    ASSUME TypeInv, NEW n \in Names, Reconcile(n) PROVE TypeInv'
<1>1. UNCHANGED <<objects, obsolete, created, cache, workloads, resync>> /\ queue' \subseteq Names
  BY DEF Reconcile, TypeInv, TypeOK
<1>2. nmstates' \in [Names -> NMStates \cup {NoNMState}]
  BY DEF Reconcile, DuplicateDeleted, TypeInv, TypeOK
<1>3. work' = work \/ (Found(n) /\ work' = Started(n))
  BY Zenon DEF Reconcile
<1>4. Found(n) => cache[n] \in NMStates
  BY DEF Found, TypeInv, TypeOK
<1>5. \/ work' = Idle
      \/ /\ DOMAIN work' = {"step", "name", "instance", "spec"}
         /\ work'.step \in 1..Len(Steps) /\ work'.name \in Names
         /\ work'.instance \in NMStates
  <2>1. CASE work' = work
    BY <2>1, Zenon DEF TypeInv, TypeOK
  <2>2. CASE Found(n) /\ work' = Started(n)
    BY <1>4, <2>2, StepPositions DEF Started
  <2> QED
    BY <1>3, <2>1, <2>2
<1>6. events' \in 0..MaxEvents /\ events' >= events
  <2>1. CASE UNCHANGED events
    BY <2>1 DEF TypeInv, TypeOK
  <2>2. CASE Event
    BY <2>2, EventCounts DEF TypeInv, TypeOK
  <2> QED
    BY <2>1, <2>2 DEF Reconcile
<1>7. neglected' \subseteq 1..(MaxEvents + 1)
  <2>1. neglected' = neglected \/ (Found(n) /\ neglected' = neglected \cup {cache[n].uid})
    BY Zenon DEF Reconcile
  <2> QED
    BY <1>4, <2>1, ZenonT(30) DEF NMStates, TypeInv, TypeOK
<1>8. created' <= events' + 1
  <2>1. created \in Int /\ events \in Int /\ created <= events + 1
    BY Constants DEF TypeInv, TypeOK
  <2>2. created' = created /\ events' \in Int /\ events' >= events
    BY <1>1, <1>6, Constants
  <2> QED
    BY <2>1, <2>2, RoomStays, Zenon
<1> QED
  BY <1>1, <1>2, <1>5, <1>6, <1>7, <1>8, Zenon DEF TypeInv, TypeOK

\* The steps of the reconcile in progress.
LEMMA WorkTyped ==
    ASSUME TypeInv,
           ApplyManifest \/ ReadTLSProfile \/ cleanupObsoleteResources \/ reconcileStatus \/ CallRefused
    PROVE  TypeInv'
<1> USE DEF TypeInv
<1>1. work.step \in 1..9 /\ work.name \in Names /\ work.instance \in NMStates /\ work # Idle
  BY WorkIsTyped DEF ApplyManifest, ReadTLSProfile, cleanupObsoleteResources, reconcileStatus,
                     CallRefused
<1>2. UNCHANGED <<cache, workloads, created, neglected>>
  BY DEF ApplyManifest, ReadTLSProfile, cleanupObsoleteResources, reconcileStatus, CallRefused
<1>3. nmstates' \in [Names -> NMStates \cup {NoNMState}]
  BY <1>1, StatusWrittenKeeps
     DEF ApplyManifest, ReadTLSProfile, cleanupObsoleteResources, reconcileStatus, CallRefused,
         setDegradedCondition, DeploymentStatus, TypeOK
<1>4. DOMAIN objects' = Manifests /\ \A m \in Manifests : objects'[m] = Nothing \/ objects'[m].owner \in Owners
  <2>1. CASE ApplyManifest
    <3>1. Rendered(Step).owner \in Owners
      BY <1>1 DEF Rendered, Owners, NMStates
    <3> QED
      BY <2>1, <3>1 DEF ApplyManifest, TypeOK
  <2>2. CASE ~ApplyManifest
    <3>1. objects' = objects
      BY <2>2 DEF ReadTLSProfile, cleanupObsoleteResources, reconcileStatus, CallRefused
    <3> QED
      BY <3>1, Zenon DEF TypeOK
  <2> QED
    BY <2>1, <2>2
<1>5. queue' \subseteq Names /\ resync' \subseteq Names
  BY <1>1 DEF ApplyManifest, ReadTLSProfile, cleanupObsoleteResources, reconcileStatus, CallRefused,
         setDegradedCondition, Retry, RequeueAfter, nmstateRequestsFromHandlerNamespace, Existing, TypeOK
<1>6. \/ work' = Idle
      \/ /\ DOMAIN work' = {"step", "name", "instance", "spec"}
         /\ work'.step \in 1..Len(Steps) /\ work'.name \in Names
         /\ work'.instance \in NMStates
  <2>1. CASE ApplyManifest \/ cleanupObsoleteResources
    <3>1. work.step + 1 \in 1..Len(Steps)
      BY <1>1, <2>1, StepPositions DEF ApplyManifest, cleanupObsoleteResources, Step, Manifests
    <3>2. work' = [work EXCEPT !.step = @ + 1]
      BY <2>1 DEF ApplyManifest, cleanupObsoleteResources, Continue
    <3> QED
      BY <1>1, <3>1, <3>2, WorkIsTyped
  <2>2. CASE ReadTLSProfile
    <3>1. \/ work' = Idle
          \/ \E spec : work' = [work EXCEPT !.step = @ + 1, !.spec = spec]
      BY <2>2, ZenonT(30) DEF ReadTLSProfile, setDegradedCondition, Retry
    <3>2. work.step + 1 \in 1..Len(Steps)
      BY <1>1, <2>2, StepPositions DEF ReadTLSProfile, Step
    <3> QED
      BY <1>1, <3>1, <3>2, WorkIsTyped, ZenonT(30)
  <2>3. CASE reconcileStatus \/ CallRefused
    BY <2>3 DEF reconcileStatus, CallRefused, Retry, RequeueAfter
  <2> QED
    BY <2>1, <2>2, <2>3
<1>7. obsolete' \in BOOLEAN
  BY ZenonT(30) DEF ApplyManifest, ReadTLSProfile, cleanupObsoleteResources, reconcileStatus, CallRefused, TypeOK
<1>8. events' \in 0..MaxEvents /\ created' <= events' + 1
  <2>1. CASE CallRefused
    BY <1>2, <2>1, EventCounts, Constants DEF CallRefused, TypeOK
  <2>2. CASE UNCHANGED events
    BY <1>2, <2>2 DEF TypeOK
  <2> QED
    BY <2>1, <2>2 DEF ApplyManifest, ReadTLSProfile, cleanupObsoleteResources, reconcileStatus
<1> QED
  BY <1>2, <1>3, <1>4, <1>5, <1>6, <1>7, <1>8, Zenon DEF TypeOK

\* The watches, the timer and a restart.
LEMMA WatchTyped ==
    ASSUME TypeInv,
           \/ \E n \in Names : ResyncPeriodEnds(n)
           \/ SeeNMStates \/ SeeWorkloads \/ Restart
           \/ \E p \in SecurityProfiles : TLSProfileChanges(p)
    PROVE  TypeInv'
<1> USE DEF TypeInv
<1>1. UNCHANGED <<nmstates, objects, obsolete, created, neglected>>
  BY DEF ResyncPeriodEnds, SeeNMStates, SeeWorkloads, Restart, TLSProfileChanges, clusterVars
<1>2. cache' \in [Names -> NMStates \cup {NoNMState}]
  BY DEF ResyncPeriodEnds, SeeNMStates, SeeWorkloads, Restart, TLSProfileChanges, TypeOK
<1>3. Workloads.owner \in Names \cup {NoName}
  <2>1. CASE objects["servers"] = Nothing
    BY <2>1 DEF Workloads, NoWorkloads
  <2>2. CASE objects["servers"] # Nothing
    <3>1. objects["servers"].owner \in Owners
      BY <2>2 DEF TypeOK, Manifests
    <3> QED
      BY <2>2, <3>1 DEF Workloads, Owners, NoOwner
  <2> QED
    BY <2>1, <2>2
<1>4. workloads'.owner \in Names \cup {NoName}
  BY <1>3 DEF ResyncPeriodEnds, SeeNMStates, SeeWorkloads, Restart, TLSProfileChanges, TypeOK
<1>5. queue' \subseteq Names /\ resync' \subseteq Names
  BY <1>3, Constants
     DEF ResyncPeriodEnds, SeeNMStates, SeeWorkloads, Restart, TLSProfileChanges, Existing, TypeOK
<1>6. work' = work \/ work' = Idle
  BY DEF ResyncPeriodEnds, SeeNMStates, SeeWorkloads, Restart, TLSProfileChanges
<1>7. events' \in 0..MaxEvents /\ created' <= events' + 1
  <2>1. CASE UNCHANGED events
    BY <1>1, <2>1 DEF TypeOK
  <2>2. CASE Event
    BY <1>1, <2>2, EventCounts, Constants DEF TypeOK
  <2> QED
    BY <2>1, <2>2 DEF ResyncPeriodEnds, SeeNMStates, SeeWorkloads, Restart, TLSProfileChanges
<1> QED
  BY <1>1, <1>2, <1>4, <1>5, <1>6, <1>7, Zenon DEF TypeOK

\* Users and the cluster.
LEMMA ClusterTyped ==
    ASSUME TypeInv,
           \/ \E n \in Names : Create(n) \/ Delete(n)
           \/ \E m \in Manifests : Drift(m) \/ CollectGarbage(m)
           \/ StartPods \/ PodsStop
    PROVE  TypeInv'
<1> USE DEF TypeInv
<1>1. UNCHANGED <<obsolete, cache, workloads, resync, work, neglected>>
  BY DEF Create, Delete, Drift, CollectGarbage, StartPods, PodsStop, operatorVars
<1>2. queue' \subseteq Names
  BY DEF Create, Delete, Drift, CollectGarbage, StartPods, PodsStop, operatorVars,
         nmstateRequestsFromHandlerNamespace, Existing, TypeOK
<1>3. DOMAIN objects' = Manifests /\ \A m \in Manifests : objects'[m] = Nothing \/ objects'[m].owner \in Owners
  <2>1. CASE UNCHANGED objects
    BY <2>1 DEF TypeOK
  <2>2. ASSUME NEW m \in Manifests, Drift(m) PROVE <1>3!1 /\ <1>3!2
    <3> DEFINE o == [owner |-> NoOwner, data |-> Drifted]
    <3>1. o.owner \in Owners
      BY DEF Owners
    <3>2. objects' = [objects EXCEPT ![m] = o] \/ objects' = [objects EXCEPT ![m] = Nothing]
      BY <2>2 DEF Drift
    <3> HIDE DEF o
    <3> QED
      BY <3>1, <3>2 DEF TypeOK
  <2>3. ASSUME NEW m \in Manifests, CollectGarbage(m) PROVE <1>3!1 /\ <1>3!2
    BY <2>3 DEF CollectGarbage, TypeOK
  <2> QED
    BY <2>1, <2>2, <2>3 DEF Create, Delete, StartPods, PodsStop
<1>4. /\ nmstates' \in [Names -> NMStates \cup {NoNMState}]
      /\ created' \in 1..(MaxEvents + 1) /\ events' \in 0..MaxEvents /\ created' <= events' + 1
  <2>1. ASSUME NEW n \in Names, Create(n) PROVE <1>4!1 /\ <1>4!2
    <3>1. /\ created + 1 \in 1..(MaxEvents + 1) /\ created' = created + 1
          /\ events' \in 0..MaxEvents /\ events' = events + 1
      BY <2>1, EventCounts DEF Create
    <3>2. PICK second \in {created + 1} \cup (IF "twins" \in Hazards THEN {created} ELSE {}) :
             nmstates' = [nmstates EXCEPT ![n] = NewNMState(created + 1, second)]
      BY <2>1, ZenonT(30) DEF Create
    <3>3. second \in 1..(MaxEvents + 1)
      BY <3>1, <3>2 DEF TypeOK
    <3>4. NewNMState(created + 1, second) \in NMStates
      BY <3>1, <3>3 DEF NMStates, NewNMState
    <3> QED
      BY <3>1, <3>2, <3>4 DEF TypeOK
  <2>2. ASSUME NEW n \in Names, Delete(n) PROVE <1>4!1 /\ <1>4!2
    BY <2>2, EventCounts, Constants DEF Delete, TypeOK
  <2>3. CASE UNCHANGED <<nmstates, created, events>>
    BY <2>3 DEF TypeOK
  <2>4. CASE UNCHANGED <<nmstates, created>> /\ Event
    BY <2>4, EventCounts, Constants DEF TypeOK
  <2> QED
    BY <2>1, <2>2, <2>3, <2>4 DEF Drift, CollectGarbage, StartPods, PodsStop
<1> QED
  BY <1>1, <1>2, <1>3, <1>4, Zenon DEF TypeOK

\* Type correctness is inductive.
LEMMA TypeNext == TypeInv /\ [Next]_vars => TypeInv'
<1> SUFFICES ASSUME TypeInv, [Next]_vars PROVE TypeInv'
  OBVIOUS
<1>1. CASE UNCHANGED vars
  BY <1>1, Zenon DEF vars, clusterVars, operatorVars, TypeInv, TypeOK
<1>2. CASE Next
  BY <1>2, ReconcileTyped, WorkTyped, WatchTyped, ClusterTyped
     DEF Next, ReconcileSteps, ClusterSteps
<1> QED
  BY <1>1, <1>2

\* The operator's variables keep their types, for any number of NMStates and
\* events (NMStateReconciler).
THEOREM OperatorTypes == Spec => []TypeOK
<1>1. TypeInv => TypeOK
  BY DEF TypeInv
<1> QED
  BY <1>1, TypeInit, TypeNext, PTL DEF Spec

-----------------------------------------------------------------------------
(* Profiles *)

\* From the step that reads the profile on, the reconcile carries one that can
\* be honored; so does everything it has written, and everyone who has read that.
HonorInv ==
    /\ work = Idle \/ work.step <= 3 \/ canBeHonored(work.spec)
    /\ \A m \in {"servers", "tlsConfig"} : objects[m] = Nothing \/ canBeHonored(objects[m].data)
    /\ pods.serves = NoSpec \/ canBeHonored(pods.serves)

\* The reconcile in progress checks a profile before it writes it.
LEMMA HonorWork ==
    ASSUME TypeOK, HonorInv,
           ApplyManifest \/ ReadTLSProfile \/ cleanupObsoleteResources \/ reconcileStatus \/ CallRefused
    PROVE  HonorInv'
<1> DEFINE Checked == work = Idle \/ work.step <= 3 \/ canBeHonored(work.spec)
<1>0. pods' = pods /\ work # Idle
  BY DEF ApplyManifest, ReadTLSProfile, cleanupObsoleteResources, reconcileStatus, CallRefused
<1>1. /\ DOMAIN work = {"step", "name", "instance", "spec"} /\ work.step \in 1..9
      /\ work.step <= 3 \/ canBeHonored(work.spec)
  BY <1>0, WorkIsTyped DEF HonorInv
<1>2. CASE ApplyManifest
  <2>1. Step = "profile" <=> work.step = 3
    BY <1>1, StepPositions DEF Step
  <2>2. Step \in {"servers", "tlsConfig"} => canBeHonored(work.spec)
    BY <1>1, StepPositions DEF Step
  <2>3. Checked'
    BY <1>1, <1>2, <2>1 DEF ApplyManifest, Continue, Manifests
  <2>4. ASSUME NEW m \in {"servers", "tlsConfig"}
        PROVE  objects'[m] = Nothing \/ canBeHonored(objects'[m].data)
    <3>1. CASE objects'[m] = objects[m]
      BY <3>1 DEF HonorInv
    <3>2. CASE objects'[m] # objects[m]
      <4>1. Step = m /\ objects'[m] = Rendered(m)
        BY <1>2, <3>2 DEF ApplyManifest, Manifests, TypeOK
      <4>2. objects'[m].data = work.spec
        BY <4>1 DEF Rendered
      <4> QED
        BY <2>2, <4>1, <4>2
    <3> QED
      BY <3>1, <3>2
  <2> QED
    BY <1>0, <2>3, <2>4 DEF HonorInv
<1>3. CASE ReadTLSProfile
  <2>1. objects' = objects
    BY <1>3 DEF ReadTLSProfile
  <2>2. Checked'
    <3> DEFINE spec == GetTLSProfileSpec(apiServer)
    <3>1. CASE Servable(spec)
      <4>1. work' = [work EXCEPT !.step = @ + 1, !.spec = spec.val]
        BY <1>3, <3>1 DEF ReadTLSProfile
      <4>2. work'.spec = spec.val
        BY <1>1, <4>1
      <4> QED
        BY <3>1, <4>2 DEF Servable
    <3>2. CASE ~Servable(spec)
      BY <1>3, <3>2 DEF ReadTLSProfile, setDegradedCondition, Retry
    <3> QED
      BY <3>1, <3>2
  <2> QED
    BY <1>0, <2>1, <2>2 DEF HonorInv
<1>4. CASE cleanupObsoleteResources
  <2>1. work.step = 8
    BY <1>1, <1>4, StepPositions DEF cleanupObsoleteResources, Step
  <2>2. Checked'
    BY <1>1, <1>4, <2>1 DEF cleanupObsoleteResources, Continue
  <2> QED
    BY <1>0, <1>4, <2>2 DEF cleanupObsoleteResources, HonorInv
<1>5. CASE reconcileStatus \/ CallRefused
  <2>1. work' = Idle /\ objects' = objects
    BY <1>5 DEF reconcileStatus, CallRefused, RequeueAfter, Retry
  <2> QED
    BY <1>0, <2>1 DEF HonorInv
<1> QED
  BY <1>2, <1>3, <1>4, <1>5

\* The other actions start or drop a reconcile, remove objects, or let pods read
\* what has been written.
LEMMA HonorNext == TypeOK /\ HonorInv /\ [Next]_vars => HonorInv'
<1> SUFFICES ASSUME TypeOK, HonorInv, [Next]_vars PROVE HonorInv'
  OBVIOUS
<1>1. CASE ApplyManifest \/ ReadTLSProfile \/ cleanupObsoleteResources \/ reconcileStatus \/ CallRefused
  BY <1>1, HonorWork
<1>2. ASSUME NEW n \in Names, Reconcile(n) PROVE HonorInv'
  <2>1. objects' = objects /\ pods' = pods /\ (work' = work \/ work' = Started(n))
    BY <1>2, Zenon DEF Reconcile
  <2>2. Started(n).step <= 3
    BY DEF Started
  <2> QED
    BY <2>1, <2>2, Zenon DEF HonorInv
<1>3. ASSUME NEW m \in Manifests, Drift(m) \/ CollectGarbage(m) PROVE HonorInv'
  <2>1. /\ work' = work /\ pods' = pods
        /\ \A k \in {"servers", "tlsConfig"} : objects'[k] = objects[k] \/ objects'[k] = Nothing
    BY <1>3 DEF Drift, CollectGarbage, Shared, operatorVars, Manifests, TypeOK
  <2> QED
    BY <2>1 DEF HonorInv
<1>4. CASE StartPods
  BY <1>4 DEF StartPods, operatorVars, HonorInv
<1>5. CASE PodsStop
  BY <1>5 DEF PodsStop, operatorVars, NoPods, HonorInv
<1>6. CASE UNCHANGED <<objects, pods>> /\ (work' = work \/ work' = Idle)
  BY <1>6 DEF HonorInv
<1> QED
  BY <1>1, <1>2, <1>3, <1>4, <1>5, <1>6
     DEF Next, ReconcileSteps, ClusterSteps, ResyncPeriodEnds, Create, Delete, SeeNMStates,
         SeeWorkloads, Restart, TLSProfileChanges, vars, clusterVars, operatorVars

\* Nothing is deployed at first.
LEMMA HonorInit == Init => HonorInv
BY DEF Init, HonorInv, NoPods, Manifests

\* Whatever profiles the cluster goes through and wherever a reconcile is cut
\* off, the servers are only ever given one they can honor (applyHandler).
THEOREM ServersGetHonoredProfiles == Spec => []OnlyHonoredProfiles
<1>1. Init => HonorInv
  BY HonorInit
<1>2. HonorInv => OnlyHonoredProfiles
  BY DEF HonorInv, OnlyHonoredProfiles
<1> QED
  BY <1>1, <1>2, HonorNext, OperatorTypes, PTL DEF Spec

-----------------------------------------------------------------------------
(* The one NMState *)

\* No NMState, neither at the API server nor in the cache, is older than u.
NoneOlder(u) ==
    /\ u \in 0..created
    /\ \A n \in Names : /\ nmstates[n].uid = 0 \/ nmstates[n].uid >= u
                        /\ cache[n].uid = 0 \/ cache[n].uid >= u

\* NMStates are numbered in the order of their creation, and the cache shows a
\* past of the API server: what is there and is older than something in the
\* cache is in the cache too.
CacheIsAPast ==
    /\ \A n \in Names :
          /\ nmstates[n].uid <= created /\ nmstates[n].born = nmstates[n].uid
          /\ cache[n].uid <= created /\ cache[n].born = cache[n].uid
          /\ nmstates[n].uid = 0 \/ cache[n].uid <= nmstates[n].uid
    /\ \A j, k \in Names :
          /\ nmstates[j].uid = nmstates[k].uid => j = k \/ nmstates[j].uid = 0
          /\ cache[j].uid = cache[k].uid => j = k \/ cache[j].uid = 0
          /\ \/ nmstates[k].uid = 0
             \/ nmstates[k].uid >= cache[j].uid
             \/ nmstates[k].uid = cache[k].uid

\* An NMState that is being deployed, or was, is the oldest of all.
OldestInv ==
    /\ CacheIsAPast
    /\ \A m \in Manifests : objects[m] = Nothing \/ NoneOlder(objects[m].owner.uid)
    /\ NoneOlder(work.instance.uid)

\* The numbers are natural, and an NMState is there exactly if it has one.
LEMMA Uids ==
    ASSUME TypeOK, NEW n \in Names
    PROVE  /\ nmstates[n].uid \in Nat /\ cache[n].uid \in Nat /\ created \in Nat
           /\ nmstates[n] = NoNMState <=> nmstates[n].uid = 0
           /\ cache[n] = NoNMState <=> cache[n].uid = 0
BY Constants DEF TypeOK, NMStates, NoNMState

\* Steps that leave the numbers alone keep the order, and what they deploy is
\* what the reconcile is about.
LEMMA SameNumbers ==
    ASSUME TypeOK, TypeOK', OldestInv, created' = created,
           \A n \in Names : /\ nmstates'[n].uid = nmstates[n].uid
                            /\ nmstates'[n].born = nmstates[n].born
                            /\ cache'[n] = cache[n],
           work'.instance.uid \in {work.instance.uid, 0},
           \A m \in Manifests :
              \/ objects'[m] = Nothing \/ objects'[m] = objects[m]
              \/ objects'[m].owner.uid \in {work.instance.uid, 0}
    PROVE  OldestInv'
<1>1. CacheIsAPast'
  BY DEF OldestInv, CacheIsAPast
<1>2. ASSUME NEW u, NoneOlder(u) PROVE NoneOlder(u)'
  BY <1>2 DEF NoneOlder
<1>3. NoneOlder(0)'
  <2>1. ASSUME NEW n \in Names
        PROVE  nmstates'[n].uid \in Nat /\ cache'[n].uid \in Nat /\ created' \in Nat
    BY Uids
  <2>2. created' \in Nat
    BY DEF TypeOK
  <2> QED
    BY <2>1, <2>2 DEF NoneOlder
<1>4. NoneOlder(work.instance.uid)'
  BY <1>2, <1>3 DEF OldestInv
<1>5. ASSUME NEW m \in Manifests
      PROVE  objects'[m] = Nothing \/ NoneOlder(objects[m].owner.uid)'
  BY <1>2, <1>3 DEF OldestInv
<1> QED
  BY <1>1, <1>4, <1>5 DEF OldestInv

\* A deletion leaves no one older than before, and a creation adds the youngest.
LEMMA OneChanges ==
    ASSUME TypeOK, TypeOK', OldestInv, NEW n \in Names, "twins" \notin Hazards,
           \/ nmstates' = [nmstates EXCEPT ![n] = NoNMState] /\ created' = created
           \/ Create(n),
           cache' = cache, objects' = objects, work' = work
    PROVE  OldestInv'
<1>0. /\ nmstates \in [Names -> NMStates \cup {NoNMState}]
      /\ nmstates' \in [Names -> NMStates \cup {NoNMState}]
      /\ created \in Nat
  BY Constants DEF TypeOK
<1>1. /\ created' >= created /\ created' \in Nat
      /\ \A k \in Names :
            \/ nmstates'[k] = nmstates[k]
            \/ nmstates'[k].uid = 0 /\ nmstates'[k].born = 0
            \/ k = n /\ nmstates'[k].uid = created + 1 /\ nmstates'[k].born = created + 1 /\ created' = created + 1
  <2>1. CASE nmstates' = [nmstates EXCEPT ![n] = NoNMState] /\ created' = created
    BY <1>0, <2>1 DEF NoNMState
  <2>2. CASE Create(n)
    <3>1. /\ created' = created + 1
          /\ nmstates' = [nmstates EXCEPT ![n] = NewNMState(created + 1, created + 1)]
      BY <2>2 DEF Create
    <3> QED
      BY <1>0, <3>1 DEF NewNMState
  <2> QED
    BY <2>1, <2>2
<1>2. \A k \in Names : /\ nmstates[k].uid \in Nat /\ cache[k].uid \in Nat /\ created \in Nat
                        /\ nmstates'[k].uid \in Nat
  <2>1. ASSUME NEW k \in Names PROVE nmstates'[k].uid \in Nat
    BY <1>0, Constants DEF NMStates, NoNMState
  <2> QED
    BY <1>0, <2>1, Uids
<1>3. CacheIsAPast'
  <2>0. cache' = cache /\ CacheIsAPast
    BY DEF OldestInv
  <2>1. ASSUME NEW k \in Names PROVE CacheIsAPast!1!(k)'
    <3>1. CacheIsAPast!1!(k)
      BY <2>0 DEF CacheIsAPast
    <3> QED
      BY <1>1, <1>2, <2>0, <3>1
  <2>2. ASSUME NEW j \in Names, NEW k \in Names PROVE CacheIsAPast!2!(j, k)'
    BY <1>1, <1>2, <2>0 DEF CacheIsAPast
  <2> QED
    BY <2>1, <2>2 DEF CacheIsAPast
<1>4. ASSUME NEW u, NoneOlder(u) PROVE NoneOlder(u)'
  BY <1>1, <1>2, <1>4 DEF NoneOlder
<1> QED
  BY <1>3, <1>4 DEF OldestInv

\* The cache catches up.
LEMMA CacheCatchesUp ==
    ASSUME TypeOK, OldestInv, cache' = nmstates, nmstates' = nmstates, created' = created,
           objects' = objects, work' = work \/ work' = Idle
    PROVE  OldestInv'
<1>1. \A k \in Names : nmstates[k].uid \in Nat /\ created \in Nat
  BY Uids
<1>2. CacheIsAPast'
  BY <1>1 DEF OldestInv, CacheIsAPast
<1>3. ASSUME NEW u, NoneOlder(u) PROVE NoneOlder(u)'
  BY <1>3 DEF NoneOlder
<1>4. NoneOlder(Idle.instance.uid)'
  BY <1>1, Constants DEF NoneOlder, Idle, NoNMState
<1> QED
  BY <1>2, <1>3, <1>4 DEF OldestInv

\* A reconcile starts for an NMState that is the oldest in the cache, and so the
\* oldest of all.
LEMMA StartsForTheOldest ==
    ASSUME TypeOK, OldestInv, NEW n \in Names, Found(n), n \in FirstListed(n)
    PROVE  NoneOlder(cache[n].uid)
<1>1. Existing(cache) # {}
  BY DEF Found, Existing
<1>2. \A k \in Existing(cache) : cache[n].born <= cache[k].born
  BY <1>1 DEF FirstListed, Oldest
<1>3. \A k \in Names : cache[k].uid = 0 \/ cache[n].uid <= cache[k].uid
  BY <1>2, Uids DEF Existing, OldestInv, CacheIsAPast
<1>4. ASSUME NEW k \in Names PROVE nmstates[k].uid = 0 \/ nmstates[k].uid >= cache[n].uid
  <2>1. nmstates[k].uid = 0 \/ nmstates[k].uid >= cache[n].uid \/ nmstates[k].uid = cache[k].uid
    BY DEF OldestInv, CacheIsAPast
  <2> QED
    BY <1>3, <2>1, Uids
<1>5. cache[n].uid \in 0..created
  <2>1. cache[n].uid <= created
    BY DEF OldestInv, CacheIsAPast
  <2> QED
    BY <2>1, Uids
<1> QED
  BY <1>3, <1>4, <1>5, Uids DEF NoneOlder

\* A request starts work on the oldest, deletes an NMState, or does neither.
LEMMA OldestReconcile ==
    ASSUME TypeOK, TypeOK', OldestInv, "twins" \notin Hazards, NEW n \in Names, Reconcile(n)
    PROVE  OldestInv'
<1>1. cache' = cache /\ objects' = objects /\ created' = created
  BY DEF Reconcile
<1>2. CASE work' = work /\ nmstates' = nmstates
  BY <1>1, <1>2, SameNumbers
<1>3. CASE work' = work /\ DuplicateDeleted(n)
  BY <1>1, <1>3, OneChanges, ZenonT(30) DEF DuplicateDeleted
<1>4. CASE Found(n) /\ n \in FirstListed(n) /\ work' = Started(n) /\ nmstates' = nmstates
  <2>1. ASSUME NEW u, NoneOlder(u) PROVE NoneOlder(u)'
    BY <1>1, <1>4, <2>1 DEF NoneOlder
  <2>2. work'.instance = cache[n]
    BY <1>4 DEF Started
  <2>3. NoneOlder(work.instance.uid)'
    BY <1>4, <2>1, <2>2, StartsForTheOldest
  <2>4. CacheIsAPast'
    BY <1>1, <1>4 DEF OldestInv, CacheIsAPast
  <2> QED
    BY <1>1, <2>1, <2>3, <2>4 DEF OldestInv
<1> QED
  BY <1>2, <1>3, <1>4, Zenon DEF Reconcile

\* The steps of a reconcile write a status, or an object for its NMState.
LEMMA OldestWork ==
    ASSUME TypeOK, TypeOK', OldestInv,
           ApplyManifest \/ ReadTLSProfile \/ cleanupObsoleteResources \/ reconcileStatus \/ CallRefused
    PROVE  OldestInv'
<1>1. work # Idle /\ cache' = cache /\ created' = created
  BY DEF ApplyManifest, ReadTLSProfile, cleanupObsoleteResources, reconcileStatus, CallRefused
<1>2. DOMAIN work = {"step", "name", "instance", "spec"}
  BY <1>1, WorkIsTyped
<1>3. work'.instance.uid \in {work.instance.uid, 0}
  <2>1. CASE work' = Idle
    BY <2>1 DEF Idle, NoNMState
  <2>2. CASE work' = [work EXCEPT !.step = @ + 1]
    BY <1>2, <2>2
  <2>3. ASSUME NEW spec, work' = [work EXCEPT !.step = @ + 1, !.spec = spec]
        PROVE  work'.instance.uid \in {work.instance.uid, 0}
    BY <1>2, <2>3
  <2> QED
    BY <2>1, <2>2, <2>3, Zenon
       DEF ApplyManifest, ReadTLSProfile, cleanupObsoleteResources, reconcileStatus,
           CallRefused, Continue, setDegradedCondition, RequeueAfter, Retry
<1>4. \A n \in Names : nmstates'[n].uid = nmstates[n].uid /\ nmstates'[n].born = nmstates[n].born
  <2>1. \/ nmstates' = nmstates \/ nmstates' = StatusWritten("degraded")
        \/ nmstates' = StatusWritten(DeploymentStatus)
    BY DEF ApplyManifest, ReadTLSProfile, cleanupObsoleteResources, reconcileStatus, CallRefused,
           setDegradedCondition
  <2>2. DeploymentStatus \in {"progressing", "available", "warned", "degraded"}
    BY DEF DeploymentStatus
  <2> QED
    BY <1>1, <2>1, <2>2, StatusWrittenKeeps
<1>5. ASSUME NEW m \in Manifests
      PROVE  objects'[m] = objects[m] \/ objects'[m].owner.uid \in {work.instance.uid, 0}
  <2>1. objects' = objects \/ (objects' = [objects EXCEPT ![Step] = Rendered(Step)] /\ Step \in Manifests)
    BY DEF ApplyManifest, ReadTLSProfile, cleanupObsoleteResources, reconcileStatus, CallRefused
  <2>2. objects'[m] = objects[m] \/ objects'[m] = Rendered(m)
    BY <2>1 DEF TypeOK
  <2> QED
    BY <2>2 DEF Rendered, NoOwner
<1> QED
  BY <1>1, <1>3, <1>4, <1>5, SameNumbers

\* The NMState that is deployed is the oldest: an inductive invariant.
LEMMA OldestNext ==
    ASSUME TypeOK, TypeOK', OldestInv, "twins" \notin Hazards, [Next]_vars PROVE OldestInv'
<1>1. CASE ApplyManifest \/ ReadTLSProfile \/ cleanupObsoleteResources \/ reconcileStatus \/ CallRefused
  BY <1>1, OldestWork
<1>2. ASSUME NEW n \in Names, Reconcile(n) PROVE OldestInv'
  BY <1>2, OldestReconcile
<1>3. ASSUME NEW n \in Names, Create(n) \/ Delete(n) PROVE OldestInv'
  <2>1. cache' = cache /\ objects' = objects /\ work' = work
    BY <1>3 DEF Create, Delete, operatorVars
  <2>2. \/ Create(n)
        \/ nmstates' = [nmstates EXCEPT ![n] = NoNMState] /\ created' = created
    BY <1>3 DEF Delete
  <2> QED
    BY <2>1, <2>2, OneChanges
<1>4. CASE SeeNMStates \/ Restart
  BY <1>4, CacheCatchesUp DEF SeeNMStates, Restart, clusterVars
<1>5. ASSUME NEW m \in Manifests, Drift(m) \/ CollectGarbage(m) PROVE OldestInv'
  <2>1. work' = work /\ nmstates' = nmstates /\ cache' = cache /\ created' = created
    BY <1>5 DEF Drift, CollectGarbage, operatorVars
  <2>2. PICK o \in {Nothing, [owner |-> NoOwner, data |-> Drifted]} :
           objects' = [objects EXCEPT ![m] = o]
    BY <1>5 DEF Drift, CollectGarbage
  <2>3. \A k \in Manifests : \/ objects'[k] = objects[k] \/ objects'[k] = Nothing
                             \/ objects'[k].owner.uid = 0
    <3>1. DOMAIN objects = Manifests
      BY DEF TypeOK
    <3> QED
      BY <2>2, <3>1 DEF NoOwner
  <2> QED
    BY <2>1, <2>3, SameNumbers
<1>6. CASE UNCHANGED <<objects, nmstates, cache, created, work>>
  BY <1>6, SameNumbers
<1> QED
  BY <1>1, <1>2, <1>3, <1>4, <1>5, <1>6
     DEF Next, ReconcileSteps, ClusterSteps, ResyncPeriodEnds, SeeWorkloads, TLSProfileChanges,
         StartPods, PodsStop, vars, clusterVars, operatorVars

\* The duplicate a reconcile deletes is younger than one the cache has.
LEMMA OnlyDuplicatesAreDeleted ==
    ASSUME TypeOK, OldestInv, NEW n \in Names, Reconcile(n), nmstates'[n] # nmstates[n],
           NEW m \in Manifests, objects[m] # Nothing
    PROVE  objects[m].owner.uid # nmstates[n].uid
<1>1. PICK first \in FirstListed(n) : Found(n) /\ first # n /\ DuplicateDeleted(n)
  BY Zenon DEF Reconcile
<1>2. nmstates[n] # NoNMState
  BY <1>1 DEF DuplicateDeleted, TypeOK
<1>3. first \in Existing(cache) /\ n \in Existing(cache) /\ cache[first].born <= cache[n].born
  BY <1>1 DEF FirstListed, Oldest, Found, Existing
<1>4. first \in Names /\ cache[first].uid # 0 /\ nmstates[n].uid # 0
  BY <1>2, <1>3, Uids DEF Existing
<1>5. cache[first].uid <= cache[n].uid /\ cache[first].uid # cache[n].uid /\ cache[n].uid <= nmstates[n].uid
  BY <1>1, <1>3, <1>4 DEF OldestInv, CacheIsAPast
<1>6. cache[first].uid >= objects[m].owner.uid
  BY <1>4 DEF OldestInv, NoneOlder
<1>7. objects[m].owner.uid \in Nat
  <2>1. NoneOlder(objects[m].owner.uid)
    BY DEF OldestInv
  <2>2. created \in Nat
    BY Uids
  <2> QED
    BY <2>1, <2>2 DEF NoneOlder
<1>8. cache[first].uid \in Nat /\ cache[n].uid \in Nat /\ nmstates[n].uid \in Nat
  BY <1>4, Uids
<1>9. ASSUME NEW a \in Nat, NEW b \in Nat, NEW c \in Nat, NEW d \in Nat,
             a >= d, a <= b, a # b, b <= c
      PROVE  d # c
  BY <1>9
<1> QED
  BY <1>5, <1>6, <1>7, <1>8, <1>9

\* As long as no two NMStates are created in the same second, the controller
\* never deletes the one that has been deployed, however old its cache is
\* (Reconcile).
THEOREM DeployedStays ==
    ASSUME "twins" \notin Hazards
    PROVE  Spec => DeployedIsKept
<1>1. Init => OldestInv
  <2> SUFFICES ASSUME Init PROVE OldestInv
    OBVIOUS
  <2>1. CacheIsAPast
    BY DEF Init, CacheIsAPast, NewNMState, NoNMState
  <2>2. NoneOlder(0)
    BY DEF Init, NoneOlder, NewNMState, NoNMState
  <2> QED
    BY <2>1, <2>2 DEF Init, OldestInv, Idle, NoNMState
<1>2. TypeOK /\ TypeOK' /\ OldestInv /\ [Next]_vars => OldestInv'
  BY OldestNext
<1>3. TypeOK /\ OldestInv /\ [Next]_vars =>
        [\A n \in Names :
             Reconcile(n) /\ nmstates'[n] # nmstates[n] =>
                 \A m \in Manifests : \/ objects[m] = Nothing
                                      \/ objects[m].owner.uid # nmstates[n].uid]_vars
  BY OnlyDuplicatesAreDeleted
<1> QED
  BY <1>1, <1>2, <1>3, OperatorTypes, PTL DEF Spec, DeployedIsKept

-----------------------------------------------------------------------------
(* Requests *)

\* No NMState is forgotten, and none, in the cache or not, is yet to be created:
\* one that is created is news.
MindedInv ==
    /\ NMStatesAreNotForgotten
    /\ \A n \in Names : nmstates[n].uid <= created /\ cache[n].uid <= created

\* The NMState n has a request, or the watch has news of it.
Attended(n) == n \in queue \cup resync \cup {work.name} \/ cache[n] # nmstates[n]

\* Steps that leave the cache alone, and give a request to what they change.
LEMMA RequestsStay ==
    ASSUME MindedInv, created' = created, cache' = cache, neglected' = neglected,
           \A n \in Names : /\ nmstates'[n].uid = nmstates[n].uid \/ nmstates'[n] = NoNMState
                            /\ \/ nmstates'[n] = nmstates[n]
                               \/ nmstates'[n] = NoNMState
                               \/ nmstates[n] # NoNMState /\ n \in queue' \cup resync',
           \A n \in Names : n \in queue \cup resync \cup {work.name} =>
                                n \in queue' \cup resync' \cup {work'.name},
           created \in Nat
    PROVE  MindedInv'
<1>1. ASSUME NEW n \in Minded' PROVE Attended(n)'
  <2>1. n \in Names /\ nmstates'[n] # NoNMState /\ nmstates'[n].uid \notin neglected
    BY DEF Minded, Existing
  <2>2. CASE nmstates'[n] = nmstates[n]
    <3>1. n \in Minded
      BY <2>1, <2>2 DEF Minded, Existing
    <3> QED
      BY <2>1, <2>2, <3>1 DEF MindedInv, NMStatesAreNotForgotten, Attended
  <2>3. CASE n \in queue' \cup resync'
    BY <2>3 DEF Attended
  <2> QED
    BY <2>1, <2>2, <2>3
<1>2. ASSUME NEW n \in Names PROVE nmstates'[n].uid <= created' /\ cache'[n].uid <= created'
  BY DEF MindedInv, NoNMState
<1> QED
  BY <1>1, <1>2 DEF MindedInv, NMStatesAreNotForgotten, Attended

\* A request that is taken from the queue is for an NMState that is gone, is
\* worked on, or is deleted; or its deletion is refused.
LEMMA RequestIsTaken ==
    ASSUME TypeOK, MindedInv, NEW n \in Names, Reconcile(n)
    PROVE  MindedInv'
<1>1. /\ queue' = queue \ {n} /\ work = Idle
      /\ UNCHANGED <<cache, resync, created>>
  BY DEF Reconcile
<1>2. \/ ~Found(n) /\ UNCHANGED <<nmstates, work, neglected>>
      \/ work' = Started(n) /\ UNCHANGED <<nmstates, neglected>>
      \/ DuplicateDeleted(n) /\ UNCHANGED <<neglected, work>>
      \/ neglected' = neglected \cup {cache[n].uid} /\ UNCHANGED <<nmstates, work>>
  BY Zenon DEF Reconcile
<1>3. \A k \in Names : nmstates'[k] = nmstates[k] \/ (k = n /\ nmstates'[k] = NoNMState)
  BY <1>2 DEF DuplicateDeleted, TypeOK
<1>4. ASSUME NEW k \in Minded' PROVE Attended(k)'
  <2>1. k \in Names /\ nmstates'[k] # NoNMState /\ nmstates'[k] = nmstates[k]
    BY <1>3 DEF Minded, Existing
  <2>2. nmstates[k].uid \notin neglected'
    BY <2>1 DEF Minded
  <2>3. k \in Minded
    BY <1>2, <2>1, <2>2 DEF Minded, Existing
  <2>4. k \in queue \cup resync \/ cache[k] # nmstates[k]
    BY <1>1, <2>1, <2>3, Constants DEF MindedInv, NMStatesAreNotForgotten, Idle
  <2>5. CASE k # n
    BY <1>1, <2>1, <2>4, <2>5 DEF Attended
  <2>6. CASE k = n
    <3>1. CASE ~Found(n)
      BY <1>1, <2>1, <2>6, <3>1 DEF Found, Attended
    <3>2. CASE work' = Started(n)
      BY <2>6, <3>2 DEF Started, Attended
    <3>3. CASE DuplicateDeleted(n)
      BY <2>1, <2>6, <3>3 DEF DuplicateDeleted, TypeOK
    <3>4. CASE neglected' = neglected \cup {cache[n].uid}
      BY <1>1, <2>1, <2>2, <2>6, <3>4 DEF Attended
    <3> QED
      BY <1>2, <3>1, <3>2, <3>3, <3>4
  <2> QED
    BY <2>5, <2>6
<1>5. ASSUME NEW k \in Names PROVE nmstates'[k].uid <= created' /\ cache'[k].uid <= created'
  <2>1. created \in Nat
    BY Uids
  <2> QED
    BY <1>1, <1>3, <2>1 DEF MindedInv, NoNMState
<1> QED
  BY <1>4, <1>5 DEF MindedInv, NMStatesAreNotForgotten, Attended

\* A reconcile that ends leaves a request behind.
LEMMA WorkIsFollowed ==
    ASSUME TypeOK, MindedInv,
           ApplyManifest \/ ReadTLSProfile \/ cleanupObsoleteResources \/ reconcileStatus \/ CallRefused
    PROVE  MindedInv'
<1>1. work # Idle /\ UNCHANGED <<cache, created, neglected>>
  BY DEF ApplyManifest, ReadTLSProfile, cleanupObsoleteResources, reconcileStatus, CallRefused
<1>2. DOMAIN work = {"step", "name", "instance", "spec"} /\ work.name \in Names /\ work.instance \in NMStates
  BY <1>1, WorkIsTyped
<1>3. /\ queue \subseteq queue' /\ resync \subseteq resync'
      /\ work'.name = work.name \/ work.name \in queue' \cup resync'
  <2>1. CASE ApplyManifest \/ cleanupObsoleteResources
    BY <1>2, <2>1 DEF ApplyManifest, cleanupObsoleteResources, Continue
  <2>2. CASE ReadTLSProfile
    <3>1. \/ \E spec : work' = [work EXCEPT !.step = @ + 1, !.spec = spec] /\ queue' = queue
          \/ Retry
      BY <2>2, ZenonT(30) DEF ReadTLSProfile, setDegradedCondition
    <3>2. resync' = resync
      BY <2>2 DEF ReadTLSProfile
    <3> QED
      BY <1>2, <3>1, <3>2 DEF Retry
  <2>3. CASE reconcileStatus \/ CallRefused
    BY <2>3 DEF reconcileStatus, CallRefused, Retry, RequeueAfter
  <2> QED
    BY <2>1, <2>2, <2>3
<1>4. \/ nmstates' = nmstates
      \/ /\ work.name \in queue' \cup resync'
         /\ \E status : nmstates' = StatusWritten(status)
  BY DEF ApplyManifest, ReadTLSProfile, cleanupObsoleteResources, reconcileStatus, CallRefused,
         setDegradedCondition, Retry, RequeueAfter
<1>5. ASSUME NEW n \in Names
      PROVE  /\ nmstates'[n].uid = nmstates[n].uid
             /\ \/ nmstates'[n] = nmstates[n]
                \/ nmstates[n] # NoNMState /\ n \in queue' \cup resync'
  <2>1. CASE nmstates' = nmstates
    BY <2>1
  <2>2. CASE nmstates' # nmstates
    <3>1. PICK status : nmstates' = StatusWritten(status)
      BY <1>4, <2>2
    <3>2. nmstates[work.name] = work.instance /\ nmstates' = [nmstates EXCEPT ![work.name].status = status]
      BY <2>2, <3>1 DEF StatusWritten
    <3>3. work.instance # NoNMState /\ [work.instance EXCEPT !.status = status].uid = work.instance.uid
      BY <1>2, Constants DEF NMStates, NoNMState
    <3>4. nmstates' = [nmstates EXCEPT ![work.name] = [work.instance EXCEPT !.status = status]]
      BY <3>2
    <3> QED
      BY <1>2, <1>4, <2>2, <3>2, <3>3, <3>4 DEF TypeOK
  <2> QED
    BY <2>1, <2>2
<1>6. created \in Nat
  BY <1>2, Uids
<1> QED
  BY <1>1, <1>3, <1>5, <1>6, RequestsStay

\* The watch tells of every NMState that is new to the cache, and a restarted
\* operator is told of all of them.
LEMMA NewsIsQueued ==
    ASSUME TypeOK, MindedInv, SeeNMStates \/ Restart
    PROVE  MindedInv'
<1>1. UNCHANGED <<nmstates, created, neglected>> /\ cache' = nmstates
  BY DEF SeeNMStates, Restart, clusterVars
<1>2. ASSUME NEW n \in Minded' PROVE n \in queue' \cup resync' \cup {work'.name}
  <2>1. n \in Minded /\ n \in Existing(nmstates)
    BY <1>1 DEF Minded, Existing
  <2>2. CASE SeeNMStates
    <3>1. /\ queue' = queue \cup {k \in Names : cache[k] # nmstates[k]}
          /\ resync' = resync /\ work' = work
      BY <2>2 DEF SeeNMStates
    <3> QED
      BY <2>1, <3>1 DEF MindedInv, NMStatesAreNotForgotten, Existing
  <2>3. CASE Restart
    BY <2>1, <2>3 DEF Restart
  <2> QED
    BY <2>2, <2>3
<1> QED
  BY <1>1, <1>2 DEF MindedInv, NMStatesAreNotForgotten

\* A new NMState is not in the cache.
LEMMA CreationIsNews ==
    ASSUME TypeOK, MindedInv, NEW n \in Names, Create(n)
    PROVE  MindedInv'
<1>1. /\ created' = created + 1 /\ UNCHANGED <<cache, queue, resync, work, neglected>>
      /\ \E b : nmstates' = [nmstates EXCEPT ![n] = NewNMState(created + 1, b)]
  BY Zenon DEF Create, operatorVars
<1>2. /\ nmstates'[n].uid = created + 1
      /\ \A k \in Names \ {n} : nmstates'[k] = nmstates[k]
  <2>1. PICK b : nmstates' = [nmstates EXCEPT ![n] = NewNMState(created + 1, b)]
    BY <1>1
  <2>2. NewNMState(created + 1, b).uid = created + 1
    BY DEF NewNMState
  <2>3. DOMAIN nmstates = Names
    BY DEF TypeOK
  <2> QED
    BY <2>1, <2>2, <2>3, ZenonT(30)
<1>3. \A k \in Names : nmstates[k].uid \in Nat /\ cache[k].uid \in Nat /\ created \in Nat
  BY Uids
<1>4. \A k \in Names : nmstates'[k].uid <= created' /\ cache'[k].uid <= created'
  <2>1. ASSUME NEW k \in Names PROVE nmstates'[k].uid <= created' /\ cache'[k].uid <= created'
    <3>1. nmstates[k].uid <= created /\ cache[k].uid <= created
      BY DEF MindedInv
    <3>2. nmstates'[k].uid \in {nmstates[k].uid, created + 1} /\ cache'[k] = cache[k]
      BY <1>1, <1>2
    <3>3. ASSUME NEW a \in Nat, NEW c \in Nat, NEW b, a <= c, b \in {a, c + 1} PROVE b <= c + 1
      BY <3>3
    <3>4. nmstates'[k].uid <= created + 1
      BY <1>3, <3>1, <3>2, <3>3, Zenon
    <3>5. cache[k].uid <= created + 1
      BY <1>3, <3>1
    <3> QED
      BY <1>1, <3>2, <3>4, <3>5, Zenon
  <2> QED
    BY <2>1
<1>5. cache[n] # nmstates'[n]
  BY <1>2, <1>3 DEF MindedInv
<1>6. ASSUME NEW k \in Minded' PROVE Attended(k)'
  <2>1. CASE k = n
    BY <1>1, <1>5, <2>1 DEF Attended
  <2>2. CASE k # n
    <3>1. k \in Minded /\ k \in Names
      BY <1>1, <1>2, <2>2 DEF Minded, Existing
    <3> QED
      BY <1>1, <1>2, <2>2, <3>1 DEF MindedInv, NMStatesAreNotForgotten, Attended
  <2> QED
    BY <2>1, <2>2
<1> QED
  BY <1>4, <1>6 DEF MindedInv, NMStatesAreNotForgotten, Attended

\* Every step keeps a request for every NMState.
LEMMA MindedNext == TypeOK /\ MindedInv /\ [Next]_vars => MindedInv'
<1> SUFFICES ASSUME TypeOK, MindedInv, [Next]_vars PROVE MindedInv'
  OBVIOUS
<1>0. created \in Nat
  BY Constants DEF TypeOK
<1>1. CASE ApplyManifest \/ ReadTLSProfile \/ cleanupObsoleteResources \/ reconcileStatus \/ CallRefused
  BY <1>1, WorkIsFollowed
<1>2. ASSUME NEW n \in Names, Reconcile(n) PROVE MindedInv'
  BY <1>2, RequestIsTaken
<1>3. ASSUME NEW n \in Names, ResyncPeriodEnds(n) PROVE MindedInv'
  BY <1>0, <1>3, RequestsStay DEF ResyncPeriodEnds, clusterVars
<1>4. ASSUME NEW n \in Names, Create(n) PROVE MindedInv'
  BY <1>4, CreationIsNews
<1>5. ASSUME NEW n \in Names, Delete(n) PROVE MindedInv'
  <2>1. UNCHANGED <<created, cache, queue, resync, work, neglected>>
    BY <1>5 DEF Delete, operatorVars
  <2>2. \A k \in Names : nmstates'[k] = nmstates[k] \/ nmstates'[k] = NoNMState
    BY <1>5 DEF Delete, TypeOK
  <2> QED
    BY <1>0, <2>1, <2>2, RequestsStay
<1>6. CASE SeeNMStates \/ Restart
  BY <1>6, NewsIsQueued
<1>7. CASE /\ UNCHANGED <<nmstates, cache, created, neglected, work, resync>>
           /\ queue \subseteq queue'
  BY <1>0, <1>7, RequestsStay
<1> QED
  BY <1>1, <1>2, <1>3, <1>4, <1>5, <1>6, <1>7
     DEF Next, ReconcileSteps, ClusterSteps, SeeWorkloads, TLSProfileChanges, Drift,
         CollectGarbage, StartPods, PodsStop, vars, clusterVars, operatorVars

\* However calls fail, caches lag and NMStates come and go, every NMState has a
\* request or news to come, unless its deletion as a duplicate was refused
\* (Reconcile, SetupWithManager).
THEOREM NMStatesAreMinded == Spec => []NMStatesAreNotForgotten
<1>1. Init => MindedInv
  <2> SUFFICES ASSUME Init PROVE MindedInv
    OBVIOUS
  <2>1. \A n \in Names : cache[n] = NoNMState /\ nmstates[n].uid <= 1 /\ created = 1
    BY DEF Init, NewNMState, NoNMState
  <2> QED
    BY <2>1 DEF MindedInv, NMStatesAreNotForgotten, Minded, Existing, NoNMState
<1>2. MindedInv => NMStatesAreNotForgotten
  BY DEF MindedInv
<1> QED
  BY <1>1, <1>2, MindedNext, OperatorTypes, PTL DEF Spec

-----------------------------------------------------------------------------
(* TLS profiles *)

\* Every known version has a number, up to 1.3.
LEMMA VersionsHaveNumbers ==
    ASSUME NEW name, tlsVersion(name).ok
    PROVE  tlsVersion(name).val \in 10..TLS13
<1>1. CASE name = ""
  <2>1. tlsVersion(name).val = TLS12
    <3> DEFINE versions == {"VersionTLS10", "VersionTLS11", "VersionTLS12", "VersionTLS13"}
    <3>1. DOMAIN versionNumber = versions
      BY DEF versionNumber
    <3>2. name \notin versions
      BY <1>1, Zenon
    <3>3. tlsVersion(name) = Success(TLS12)
      BY <1>1, <3>1, <3>2, Zenon DEF tlsVersion
    <3> QED
      BY <3>3 DEF Success
  <2> QED
    BY <2>1 DEF TLS12, TLS13
<1>2. CASE name # "" /\ name \in DOMAIN versionNumber
  <2>1. \A v \in DOMAIN versionNumber : versionNumber[v] \in 10..13
    BY DEF versionNumber, TLS12, TLS13
  <2> QED
    BY <1>2, <2>1, ZenonT(30) DEF tlsVersion, Success, TLS13
<1>3. CASE name # "" /\ name \notin DOMAIN versionNumber
  BY <1>3, ZenonT(30) DEF tlsVersion, Error
<1> QED
  BY <1>1, <1>2, <1>3, ZenonT(30)

\* What the servers are given of a profile they can honor.
LEMMA HonoredConfig ==
    ASSUME NEW p, canBeHonored(p)
    PROVE  /\ NewTLSConfigFromProfile(p).val.minVersion = minVersion(p)
           /\ NewTLSConfigFromProfile(p).val.cipherSuites =
                  IF minVersion(p) = TLS13 THEN {} ELSE tls12CipherCodes(cipherCodes(p.ciphers))
           /\ NewTLSConfigFromProfile(p).val.curves = curveCodes(p.curves)
BY DEF NewTLSConfigFromProfile, Success

\* A profile without an error is one they can honor.
LEMMA HonoredCan ==
    ASSUME NEW p \in Honored
    PROVE  canBeHonored(p)
BY DEF Honored, NewTLSConfigFromProfile, Error

\* The TLS 1.3 suites are among the codes of any list that names them all.
LEMMA SuitesAreNamed ==
    ASSUME NEW ciphers
    PROVE  tls13Codes \subseteq cipherCodes(ciphers \cup (DOMAIN tls13CipherSuites \ ciphers))
<1> SUFFICES ASSUME NEW c \in DOMAIN tls13CipherSuites
             PROVE  tls13CipherSuites[c] \in
                        cipherCodes(ciphers \cup (DOMAIN tls13CipherSuites \ ciphers))
  BY DEF tls13Codes
<1>1. c \in DOMAIN ianaCiphers /\ ianaCiphers[c] = tls13CipherSuites[c]
  BY TLSTables
<1>2. c \in ianaName(c)
  BY <1>1 DEF ianaName
<1> QED
  BY <1>1, <1>2 DEF cipherCodes

\* A longer list has more codes.
LEMMA CodesGrow ==
    ASSUME NEW A, NEW B, A \subseteq B
    PROVE  cipherCodes(A) \subseteq cipherCodes(B)
BY DEF cipherCodes

\* No version is above the newest one, or above itself.
LEMMA NoVersionIsOlder ==
    ASSUME NEW v \in 10..TLS13, NEW w \in {TLS13, v} PROVE ~(w < v)
BY DEF TLS13

\* The versions are in order.
LEMMA VersionOrder ==
    ASSUME NEW v \in 10..TLS13
    PROVE  /\ TLS13 \in v..TLS13 /\ TLS12 # TLS13
           /\ v <= TLS12 <=> v # TLS13
           /\ v # TLS13 => TLS12 \in v..TLS13
           /\ v = TLS13 => \A w \in v..TLS13 : w = TLS13
BY DEF TLS12, TLS13

\* The newest version a profile allows is the one its servers enable at least.
LEMMA MinVersions ==
    ASSUME NEW p, canBeHonored(p)
    PROVE  minVersion(p) \in {TLS13, tlsVersion(p.minTLSVersion).val} /\ minVersion(p) \in 10..TLS13
<1>1. tlsVersion(p.minTLSVersion).val \in 10..TLS13 /\ TLS13 \in 10..TLS13
  BY VersionsHaveNumbers DEF canBeHonored, TLS13
<1> QED
  BY <1>1, Zenon DEF minVersion

\* What a server offers are the suites of TLS 1.3 and, with TLS 1.2, its own.
LEMMA OfferedSuites ==
    ASSUME NEW conf, conf.minVersion \in 10..TLS13
    PROVE  /\ Suites(conf, TLS12) = conf.cipherSuites
           /\ tls13Codes \subseteq Offered(conf)
           /\ Offered(conf) \subseteq tls13Codes \cup conf.cipherSuites
           /\ conf.minVersion # TLS13 => conf.cipherSuites \subseteq Offered(conf)
<1>1. /\ TLS13 \in conf.minVersion..TLS13 /\ TLS12 # TLS13
      /\ conf.minVersion # TLS13 => TLS12 \in conf.minVersion..TLS13
  BY VersionOrder
<1>2. Suites(conf, TLS12) = conf.cipherSuites /\ Suites(conf, TLS13) = tls13Codes
  BY <1>1 DEF Suites
<1>3. ASSUME NEW v PROVE Suites(conf, v) \subseteq tls13Codes \cup conf.cipherSuites
  <2>1. CASE v = TLS13
    BY <1>2, <2>1, Zenon
  <2>2. CASE v = TLS12
    BY <1>2, <2>2, Zenon
  <2>3. CASE v # TLS13 /\ v # TLS12
    <3>1. Suites(conf, v) = conf.cipherSuites \cap legacyCipherSuites
      BY <2>3 DEF Suites
    <3> QED
      BY <3>1, Zenon
  <2> QED
    BY <2>1, <2>2, <2>3, Zenon
<1> QED
  BY <1>1, <1>2, <1>3, Zenon DEF Offered

\* A server offers no more than its profile allows but what is reported.
LEMMA HonoredIsNotExceeded ==
    ASSUME NEW p, canBeHonored(p)
    PROVE  ~Exceeds(NewTLSConfigFromProfile(p).val, p)
<1> DEFINE conf == NewTLSConfigFromProfile(p).val
<1>1. /\ conf.minVersion = minVersion(p)
      /\ conf.cipherSuites = IF minVersion(p) = TLS13 THEN {}
                             ELSE tls12CipherCodes(cipherCodes(p.ciphers))
      /\ conf.curves = curveCodes(p.curves)
  BY HonoredConfig
<1> HIDE DEF conf
<1>4. conf.minVersion \in 10..TLS13
  BY <1>1, MinVersions, Zenon
<1>2. ASSUME p.ciphers # {}
      PROVE  Offered(conf) \subseteq cipherCodes(p.ciphers \cup unsupportedEntries(p).unenforceable)
  <2>1. unsupportedEntries(p).unenforceable = DOMAIN tls13CipherSuites \ p.ciphers
    BY <1>2 DEF unsupportedEntries, unenforceableTLS13Ciphers
  <2>2. conf.cipherSuites \subseteq cipherCodes(p.ciphers)
    BY <1>1 DEF tls12CipherCodes
  <2>3. cipherCodes(p.ciphers) \subseteq
            cipherCodes(p.ciphers \cup (DOMAIN tls13CipherSuites \ p.ciphers))
    BY CodesGrow
  <2>4. tls13Codes \subseteq cipherCodes(p.ciphers \cup (DOMAIN tls13CipherSuites \ p.ciphers))
    BY SuitesAreNamed
  <2> QED
    BY <1>4, <2>1, <2>2, <2>3, <2>4, OfferedSuites, Zenon
<1>3. ASSUME p.curves # {} PROVE OfferedCurves(conf) \subseteq curveCodes(p.curves)
  BY <1>1, <1>3 DEF canBeHonored, OfferedCurves
<1>6. ~(conf.minVersion < tlsVersion(p.minTLSVersion).val)
  <2>1. tlsVersion(p.minTLSVersion).val \in 10..TLS13
    BY VersionsHaveNumbers, Zenon DEF canBeHonored
  <2>2. conf.minVersion \in {TLS13, tlsVersion(p.minTLSVersion).val}
    BY <1>1, MinVersions, Zenon
  <2> QED
    BY <2>1, <2>2, NoVersionIsOlder, Zenon
<1>7. ~Exceeds(conf, p)
  BY <1>2, <1>3, <1>6, Zenon DEF Exceeds
<1> QED
  BY <1>7 DEF conf

\* Whatever the cipher tables and the profiles the cluster goes through, a server
\* offers no more than its profile allows but what is reported
\* (NewTLSConfigFromProfile).
THEOREM ProfilesAreNotExceeded == Spec => []NothingBeyondTheProfile
<1>1. HonorInv => NothingBeyondTheProfile
  <2> SUFFICES ASSUME HonorInv PROVE NothingBeyondTheProfile
    OBVIOUS
  <2>1. Exceeded = {}
    BY HonoredCan, HonoredIsNotExceeded DEF Exceeded
  <2>2. \A p \in Serving : canBeHonored(p)
    BY DEF HonorInv, Serving
  <2> QED
    BY <2>1, <2>2, HonoredIsNotExceeded DEF NothingBeyondTheProfile
<1>2. Init => HonorInv
  BY HonorInit
<1> QED
  BY <1>1, <1>2, HonorNext, OperatorTypes, PTL DEF Spec

\* What a profile lists is offered, reported or ruled out by its own version.
LEMMA HonoredIsServed ==
    ASSUME NEW p, canBeHonored(p)
    PROVE  ~FallsShort(NewTLSConfigFromProfile(p).val, p)
<1> DEFINE conf == NewTLSConfigFromProfile(p).val
<1>1. /\ conf.minVersion = minVersion(p)
      /\ conf.cipherSuites = IF minVersion(p) = TLS13 THEN {}
                             ELSE tls12CipherCodes(cipherCodes(p.ciphers))
      /\ conf.curves = curveCodes(p.curves)
  BY HonoredConfig
<1> HIDE DEF conf
<1>6. conf.minVersion \in 10..TLS13
  BY <1>1, MinVersions, Zenon
<1>2. ASSUME p.ciphers # {}, conf.minVersion <= TLS12 PROVE Suites(conf, TLS12) # {}
  <2>1. minVersion(p) # TLS13
    BY <1>1, <1>2, <1>6, VersionOrder, Zenon
  <2>2. tls12CipherCodes(cipherCodes(p.ciphers)) # {}
    BY <1>2, <2>1, Zenon DEF minVersion
  <2> QED
    BY <1>1, <1>6, <2>1, <2>2, OfferedSuites, Zenon
<1>3. ASSUME tlsVersion(p.minTLSVersion).val < TLS13
      PROVE  cipherCodes(p.ciphers \ unsupportedEntries(p).ciphers) \subseteq Offered(conf)
  <2>1. cipherCodes(p.ciphers \ unsupportedEntries(p).ciphers) \subseteq cipherCodes(p.ciphers)
    BY CodesGrow
  <2>2. CASE minVersion(p) = TLS13
    <3>1. tls12CipherCodes(cipherCodes(p.ciphers)) = {}
      BY <1>3, <2>2 DEF minVersion, TLS13
    <3> QED
      BY <1>6, <2>1, <3>1, OfferedSuites DEF tls12CipherCodes
  <2>3. CASE minVersion(p) # TLS13
    BY <1>1, <1>6, <2>1, <2>3, OfferedSuites DEF tls12CipherCodes
  <2> QED
    BY <2>2, <2>3
<1>4. curveCodes(p.curves \ unsupportedEntries(p).curves) \subseteq OfferedCurves(conf)
  <2>1. curveCodes(p.curves \ unsupportedEntries(p).curves) \subseteq curveCodes(p.curves)
    BY DEF curveCodes
  <2>2. curveCodes(p.curves) \subseteq GoCurves
    BY TLSTables DEF curveCodes
  <2> QED
    BY <1>1, <2>1, <2>2 DEF OfferedCurves
<1>5. ~FallsShort(conf, p)
  BY <1>2, <1>3, <1>4, ZenonT(30) DEF FallsShort
<1> QED
  BY <1>5 DEF conf

\* Whatever the cipher tables and the profiles the cluster goes through, what the
\* profile of a server lists is offered by a version it enables, reported or
\* ruled out by its own version, and TLS 1.2 is not enabled without a suite for
\* it (NewTLSConfigFromProfile, UnsupportedEntries).
THEOREM ListedIsNotLost == Spec => []ListedIsServedOrReported
<1>1. HonorInv => ListedIsServedOrReported
  <2> SUFFICES ASSUME HonorInv PROVE ListedIsServedOrReported
    OBVIOUS
  <2>1. Missed = {}
    BY HonoredCan, HonoredIsServed DEF Missed
  <2>2. \A p \in Serving : canBeHonored(p)
    BY DEF HonorInv, Serving
  <2> QED
    BY <2>1, <2>2, HonoredIsServed DEF ListedIsServedOrReported
<1>2. Init => HonorInv
  BY HonorInit
<1> QED
  BY <1>1, <1>2, HonorNext, OperatorTypes, PTL DEF Spec
=============================================================================
