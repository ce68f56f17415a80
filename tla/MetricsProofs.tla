--------------------------- MODULE MetricsProofs ---------------------------
(***************************************************************************)
(* What holds of the node controller and of the metrics controllers for    *)
(* every set of network states, objects, hazards and bounds.               *)
(***************************************************************************)
EXTENDS Metrics, FiniteSetTheorems, TLAPS

-----------------------------------------------------------------------------
(* Types *)

Statuses == Reports \cup {EmptyState}

NNSUpTo(v) ==
    [version : 0..v, status : Statuses, refresh : 0..v, owner : 0..(MaxEvents + 1)]

Works(v) == [at : {"idle", "create", "fill", "update"}, state : Statuses, nns : NNSUpTo(v)]

\* A version is of the NNS what it was at that version or before.
LEMMA VersionsGrow ==
    ASSUME NEW v \in Nat, NEW w \in Nat, v <= w
    PROVE  NNSUpTo(v) \subseteq NNSUpTo(w) /\ Works(v) \subseteq Works(w)
<1>1. NNSUpTo(v) \subseteq NNSUpTo(w)
  BY DEF NNSUpTo
<1> QED
  BY <1>1 DEF Works

\* The type invariant in these terms.
LEMMA NodeTypes ==
    NodeTypeOK <=>
        /\ host \in HostStates
        /\ node \in 0..(MaxEvents + 1)
        /\ version \in Nat
        /\ nns \in NNSUpTo(version) /\ cached \in NNSUpTo(version)
        /\ pending \in Seq(NNSUpTo(version))
        /\ queue \in BOOLEAN /\ timer \in BOOLEAN
        /\ lastState \in Statuses
        /\ work \in Works(version)
        /\ events \in 0..MaxEvents /\ disturbed \in BOOLEAN
BY DEF NodeTypeOK, NNSs, NNSUpTo, Works, Statuses

\* No NNS and no write.
LEMMA NothingIsTyped ==
    ASSUME NEW v \in Nat
    PROVE  NoNNS \in NNSUpTo(v) /\ Idle \in Works(v) /\ EmptyState \in Statuses
<1>1. MaxEvents \in Nat
  BY ReportAssumption
<1>2. EmptyState \in Statuses
  BY DEF Statuses
<1>3. NoNNS \in NNSUpTo(v)
  BY <1>1, <1>2 DEF NoNNS, NNSUpTo
<1> QED
  BY <1>2, <1>3 DEF Idle, Works

\* The variables that one step of the node controller or its surroundings
\* leaves typed: those of the environment, and those of the handler.
EnvTypes == /\ host \in HostStates /\ node \in 0..(MaxEvents + 1)
            /\ events \in 0..MaxEvents /\ disturbed \in BOOLEAN
ApiTypes == /\ version \in Nat /\ nns \in NNSUpTo(version)
            /\ pending \in Seq(NNSUpTo(version))
CacheTypes == /\ version \in Nat /\ cached \in NNSUpTo(version) /\ work \in Works(version)
OtherTypes == queue \in BOOLEAN /\ timer \in BOOLEAN /\ lastState \in Statuses

\* They are all of them.
LEMMA NodeTypeParts == NodeTypeOK <=> EnvTypes /\ ApiTypes /\ CacheTypes /\ OtherTypes
BY NodeTypes DEF EnvTypes, ApiTypes, CacheTypes, OtherTypes

\* The same after a step.
LEMMA NodeTypesNext ==
    ASSUME EnvTypes', ApiTypes', CacheTypes', OtherTypes'
    PROVE  NodeTypeOK'
BY DEF EnvTypes, ApiTypes, CacheTypes, OtherTypes, NodeTypeOK, NNSs, NNSUpTo, Works, Statuses

\* Nothing is reported at first.
LEMMA NodeTypesInit == NodeInit => NodeTypeOK
<1> SUFFICES ASSUME NodeInit PROVE NodeTypeOK
  OBVIOUS
<1>1. MaxEvents \in Nat /\ FirstState \in HostStates
  BY ReportAssumption
<1>2. NoNNS \in NNSUpTo(0) /\ Idle \in Works(0) /\ EmptyState \in Statuses
  BY NothingIsTyped
<1>3. EnvTypes
  <2>1. 1 \in 0..(MaxEvents + 1) /\ 0 \in 0..MaxEvents
    BY <1>1
  <2> QED
    BY <1>1, <2>1, ZenonT(30) DEF NodeInit, EnvTypes
<1>4. ApiTypes
  BY <1>2 DEF NodeInit, ApiTypes
<1>5. CacheTypes
  BY <1>2 DEF NodeInit, CacheTypes
<1>6. OtherTypes
  BY <1>2, ZenonT(30) DEF NodeInit, OtherTypes
<1> QED
  BY <1>3, <1>4, <1>5, <1>6, NodeTypeParts

\* An event is counted.
LEMMA EventTypes ==
    ASSUME EnvTypes, NEW kind, Event(kind)
    PROVE  events' \in 0..MaxEvents /\ disturbed' \in BOOLEAN
<1>1. events' \in 0..MaxEvents
  BY ReportAssumption DEF EnvTypes, Event
<1>2. disturbed' \in BOOLEAN
  BY Zenon DEF EnvTypes, Event
<1> QED
  BY <1>1, <1>2

\* A write hands out the next version.
LEMMA StoreTypes ==
    ASSUME ApiTypes, NEW o \in NNSUpTo(version + 1), Store(o)
    PROVE  /\ ApiTypes'
           /\ version' = version + 1
           /\ nns' = [o EXCEPT !.version = version + 1]
           /\ nns' \in NNSUpTo(version + 1)
           /\ nns'.version = version + 1 /\ nns'.status = o.status /\ nns'.refresh = o.refresh
           /\ pending' = Append(pending, nns')
<1>1. /\ version' = version + 1 /\ nns' = [o EXCEPT !.version = version + 1]
      /\ pending' = Append(pending, nns') /\ version \in Nat
  BY DEF Store, Publish, ApiTypes
<1>2. /\ nns' \in NNSUpTo(version + 1)
      /\ nns'.version = version + 1 /\ nns'.status = o.status /\ nns'.refresh = o.refresh
  BY <1>1 DEF NNSUpTo
<1>3. NNSUpTo(version) \subseteq NNSUpTo(version + 1)
  BY <1>1, VersionsGrow
<1>4. pending \in Seq(NNSUpTo(version + 1))
  BY <1>3 DEF ApiTypes
<1>5. pending' \in Seq(NNSUpTo(version + 1))
  BY <1>1, <1>2, <1>4
<1> QED
  BY <1>1, <1>2, <1>5 DEF ApiTypes

\* What is typed stays typed when versions are handed out.
LEMMA CacheTypesGrow ==
    ASSUME CacheTypes, version' \in Nat, version' >= version
    PROVE  cached \in NNSUpTo(version') /\ work \in Works(version')
BY VersionsGrow DEF CacheTypes
-----------------------------------------------------------------------------
(* Versions *)

\* The versions of the NNS that anything may still be compared with.
Objects ==
    {nns, cached} \cup {pending[i] : i \in 1..Len(pending)}
        \cup {o \in {work.nns} : work.at \in {"fill", "update"}}

\* A version has one status, and what has none is not there.
ObjectsInv ==
    /\ \A o \in Objects : o \in NNSUpTo(version) /\ (o.version = 0 => o = NoNNS)
    /\ \A o, p \in Objects : o.version = p.version => o.status = p.status

\* A write to come fills in what has just been created, or brings news compared
\* with what the handler read.
WorkInv ==
    /\ work.at # "idle" => work.state \in Reports
    /\ work.at \in {"create", "fill"} => work.nns.status = EmptyState
    /\ work.at = "create" => work.nns.version = 0
    /\ work.at = "update" => work.nns.status # work.state
    /\ work.at \in {"fill", "update"} => work.nns.version # 0

ReportInv == NodeTypeOK /\ ObjectsInv /\ WorkInv

\* Nothing new is seen.
LEMMA SameObjects ==
    ASSUME ObjectsInv, version \in Nat, version' = version, Objects' \subseteq Objects \cup {NoNNS}
    PROVE  ObjectsInv'
<1>1. NoNNS \in NNSUpTo(version) /\ NoNNS.version = 0
  BY NothingIsTyped DEF NoNNS
<1>2. \A o \in Objects \cup {NoNNS} : o \in NNSUpTo(version) /\ (o.version = 0 => o = NoNNS)
  BY <1>1 DEF ObjectsInv
<1>3. \A o, p \in Objects \cup {NoNNS} : o.version = p.version => o.status = p.status
  BY <1>1, <1>2 DEF ObjectsInv
<1> HIDE DEF Objects
<1> QED
  BY <1>2, <1>3 DEF ObjectsInv

\* A version that has just been handed out is seen.
LEMMA NewObject ==
    ASSUME ObjectsInv, version \in Nat, version' = version + 1,
           NEW x \in NNSUpTo(version + 1), x.version = version + 1,
           Objects' \subseteq Objects \cup {x}
    PROVE  ObjectsInv'
<1>1. NNSUpTo(version) \subseteq NNSUpTo(version + 1)
  BY VersionsGrow
<1>2. \A o \in Objects : o.version # version + 1
  BY DEF ObjectsInv, NNSUpTo
<1>3. \A o \in Objects \cup {x} : o \in NNSUpTo(version + 1) /\ (o.version = 0 => o = NoNNS)
  BY <1>1 DEF ObjectsInv
<1>4. \A o, p \in Objects \cup {x} : o.version = p.version => o.status = p.status
  BY <1>2 DEF ObjectsInv
<1> QED
  BY <1>3, <1>4 DEF ObjectsInv

\* A version is published.
LEMMA PendingGrows ==
    ASSUME NEW S, pending \in Seq(S), NEW x \in S, pending' = Append(pending, x)
    PROVE  {pending'[i] : i \in 1..Len(pending')} \subseteq {pending[i] : i \in 1..Len(pending)} \cup {x}
OBVIOUS

\* The next version is delivered.
LEMMA PendingShrinks ==
    ASSUME NEW S, pending \in Seq(S), pending # <<>>, pending' = Tail(pending)
    PROVE  /\ Head(pending) \in {pending[i] : i \in 1..Len(pending)}
           /\ pending' \in Seq(S)
           /\ {pending'[i] : i \in 1..Len(pending')} \subseteq {pending[i] : i \in 1..Len(pending)}
<1>1. Len(pending) \in Nat /\ Len(pending) >= 1 /\ Head(pending) = pending[1]
  OBVIOUS
<1>2. Len(pending') = Len(pending) - 1 /\ \A i \in 1..Len(pending') : pending'[i] = pending[i + 1]
  BY <1>1
<1> QED
  BY <1>1, <1>2

\* Steps that hand out no version.
LEMMA QuietStep ==
    ASSUME ReportInv, version' = version,
           nns' \in Objects \cup {NoNNS}, cached' \in Objects \cup {NoNNS},
           pending' \in Seq(NNSUpTo(version)),
           {pending'[i] : i \in 1..Len(pending')} \subseteq Objects \cup {NoNNS},
           work' \in Works(version), work'.at \in {"fill", "update"} => work'.nns \in Objects
    PROVE  ApiTypes' /\ CacheTypes' /\ ObjectsInv'
<1>1. version \in Nat /\ ObjectsInv
  BY NodeTypes DEF ReportInv
<1>2. \A o \in Objects \cup {NoNNS} : o \in NNSUpTo(version)
  BY <1>1, NothingIsTyped DEF ObjectsInv
<1>3. ApiTypes' /\ CacheTypes'
  BY <1>1, <1>2 DEF ApiTypes, CacheTypes
<1>4. Objects' \subseteq Objects \cup {NoNNS}
  <2> DEFINE Known == Objects
  <2> HIDE DEF Known
  <2>1. Known = Objects
    BY DEF Known
  <2> QED
    BY <2>1 DEF Objects
<1> QED
  BY <1>1, <1>3, <1>4, SameObjects

\* Steps that write the NNS.
LEMMA StoreStep ==
    ASSUME ReportInv, NEW o \in NNSUpTo(version + 1), Store(o), cached' = cached,
           \/ work' = work \/ work' = Idle
           \/ work' \in Works(version') /\ work'.nns = nns'
    PROVE  /\ ApiTypes' /\ CacheTypes' /\ ObjectsInv'
           /\ nns'.version = version + 1 /\ nns'.version # 0
           /\ nns'.status = o.status /\ nns'.refresh = o.refresh
           /\ nns' \in NNSUpTo(version')
<1>1. version \in Nat /\ ObjectsInv /\ ApiTypes /\ CacheTypes
  BY NodeTypeParts DEF ReportInv, ApiTypes
<1>2. /\ ApiTypes' /\ version' = version + 1
      /\ nns' \in NNSUpTo(version + 1) /\ nns'.version = version + 1
      /\ nns'.status = o.status /\ nns'.refresh = o.refresh
      /\ pending' = Append(pending, nns')
  BY <1>1, StoreTypes
<1>3. cached \in NNSUpTo(version') /\ work \in Works(version') /\ Idle \in Works(version')
  BY <1>1, <1>2, CacheTypesGrow, NothingIsTyped
<1>4. CacheTypes'
  BY <1>1, <1>2, <1>3 DEF CacheTypes
<1>5. {pending'[i] : i \in 1..Len(pending')} \subseteq {pending[i] : i \in 1..Len(pending)} \cup {nns'}
  <2>1. NNSUpTo(version) \subseteq NNSUpTo(version + 1)
    BY <1>1, VersionsGrow
  <2>2. pending \in Seq(NNSUpTo(version + 1))
    BY <1>1, <2>1 DEF ApiTypes
  <2> QED
    BY <1>2, <2>2, PendingGrows
<1>6. Objects' \subseteq Objects \cup {nns'}
  BY <1>5 DEF Objects, Idle
<1>7. ObjectsInv'
  BY <1>1, <1>2, <1>6, NewObject
<1> QED
  BY <1>1, <1>2, <1>4, <1>7

\* Nothing is left to be written, or what was.
LEMMA SameWork ==
    ASSUME WorkInv, work' = work \/ work' = Idle
    PROVE  WorkInv'
BY DEF WorkInv, Idle

\* Steps that leave the API server and the cache alone and begin no write.
LEMMA KeptStep ==
    ASSUME ReportInv, nns' = nns, version' = version, pending' = pending, cached' = cached,
           work' = work \/ work' = Idle
    PROVE  ApiTypes' /\ CacheTypes' /\ ObjectsInv' /\ WorkInv'
<1>1. /\ version \in Nat /\ pending \in Seq(NNSUpTo(version)) /\ work \in Works(version)
      /\ WorkInv
  BY NodeTypes DEF ReportInv
<1>2. /\ nns \in Objects /\ cached \in Objects
      /\ {pending[i] : i \in 1..Len(pending)} \subseteq Objects
      /\ work.at \in {"fill", "update"} => work.nns \in Objects
  BY DEF Objects
<1>3. Idle \in Works(version) /\ Idle.at = "idle"
  BY <1>1, NothingIsTyped DEF Idle
<1>4. ApiTypes' /\ CacheTypes' /\ ObjectsInv'
  BY <1>1, <1>2, <1>3, QuietStep
<1> QED
  BY <1>1, <1>4, SameWork

\* Steps after which there is no NNS.
LEMMA GoneStep ==
    ASSUME ReportInv, Publish(NoNNS), version' = version, cached' = cached, work' = work
    PROVE  ApiTypes' /\ CacheTypes' /\ ObjectsInv' /\ WorkInv'
<1>1. /\ version \in Nat /\ pending \in Seq(NNSUpTo(version)) /\ work \in Works(version)
      /\ WorkInv
  BY NodeTypes DEF ReportInv
<1>2. NoNNS \in NNSUpTo(version)
  BY <1>1, NothingIsTyped
<1>3. nns' = NoNNS /\ pending' = Append(pending, NoNNS)
  BY DEF Publish
<1>4. /\ pending' \in Seq(NNSUpTo(version))
      /\ {pending'[i] : i \in 1..Len(pending')} \subseteq {pending[i] : i \in 1..Len(pending)} \cup {NoNNS}
  BY <1>1, <1>2, <1>3, PendingGrows
<1>5. /\ cached \in Objects
      /\ {pending[i] : i \in 1..Len(pending)} \subseteq Objects
      /\ work.at \in {"fill", "update"} => work.nns \in Objects
  BY DEF Objects
<1>6. ApiTypes' /\ CacheTypes' /\ ObjectsInv'
  BY <1>1, <1>3, <1>4, <1>5, QuietStep
<1> QED
  BY <1>1, <1>6, SameWork

\* Reconcile begins a write only if it brings news compared with its cache.
LEMMA ReconcileStep ==
    ASSUME ReportInv, Reconcile
    PROVE  ReportInv'
<1> DEFINE s == filterOut(host)
           begun == [at |-> IF Exists(cached) THEN "update" ELSE "create", state |-> s,
                     nns |-> [cached EXCEPT !.owner = IF Exists(cached) THEN @ ELSE node]]
<1>1. /\ EnvTypes /\ ApiTypes /\ CacheTypes /\ OtherTypes /\ ObjectsInv /\ WorkInv
      /\ cached \in Objects
  BY NodeTypeParts DEF ReportInv, Objects
<1>2. s \in Reports /\ s \in Statuses
  BY <1>1 DEF EnvTypes, Reports, Statuses
<1>3. /\ work' = Idle \/ (work' = begun /\ (Exists(cached) => cached.status # s))
      /\ lastState' \in {lastState, s} /\ queue' = FALSE
      /\ timer' = (timer \/ Unchanged(s) \/ (node # 0 /\ Exists(cached) /\ cached.status = s))
      /\ disturbed' = (disturbed \/ pending # <<>>)
      /\ host' = host /\ node' = node /\ events' = events /\ cached' = cached
      /\ nns' = nns /\ version' = version /\ pending' = pending
  BY DEF Reconcile, apiVars
<1>4. OtherTypes' /\ EnvTypes'
  <2>1. timer' \in BOOLEAN /\ disturbed' \in BOOLEAN
    BY <1>3, Zenon
  <2> QED
    BY <1>1, <1>2, <1>3, <2>1, ZenonT(30) DEF OtherTypes, EnvTypes
<1>5. /\ cached \in NNSUpTo(version) /\ node \in 0..(MaxEvents + 1)
      /\ cached.version = 0 => cached = NoNNS
  BY <1>1 DEF CacheTypes, EnvTypes, ObjectsInv
<1>6. CASE work' = begun /\ (Exists(cached) => cached.status # s)
  <2> DEFINE o == [cached EXCEPT !.owner = IF Exists(cached) THEN @ ELSE node]
  <2>1. /\ o \in NNSUpTo(version) /\ o.version = cached.version /\ o.status = cached.status
        /\ Exists(cached) => o = cached
    BY <1>5 DEF NNSUpTo
  <2>2. /\ work'.at = IF Exists(cached) THEN "update" ELSE "create"
        /\ work'.state = s /\ work'.nns = o
    BY <1>6
  <2>3. work' \in Works(version)
    <3> HIDE DEF o, s
    <3> QED
      BY <1>2, <1>6, <2>1, <2>2 DEF Works, o
  <2> HIDE DEF o, s, begun
  <2>4. ~Exists(cached) => cached.status = EmptyState /\ cached.version = 0
    BY <1>5 DEF Exists, NoNNS
  <2>5. Exists(cached) => cached.version # 0
    BY DEF Exists
  <2>6. WorkInv'
    BY <1>2, <1>6, <2>1, <2>2, <2>4, <2>5 DEF WorkInv
  <2>7. work'.at \in {"fill", "update"} => work'.nns \in Objects
    BY <1>1, <2>1, <2>2
  <2>8. /\ nns \in Objects /\ {pending[i] : i \in 1..Len(pending)} \subseteq Objects
        /\ pending \in Seq(NNSUpTo(version))
    BY <1>1 DEF Objects, ApiTypes
  <2>9. ApiTypes' /\ CacheTypes' /\ ObjectsInv'
    BY <1>1, <1>3, <2>3, <2>7, <2>8, QuietStep
  <2> QED
    BY <1>4, <2>6, <2>9, NodeTypesNext DEF ReportInv
<1>7. CASE work' = Idle
  BY <1>3, <1>4, <1>7, KeptStep, NodeTypesNext DEF ReportInv
<1> QED
  BY <1>3, <1>6, <1>7

\* An event leaves the node what it is.
LEMMA EventStep ==
    ASSUME EnvTypes, NEW kind, Event(kind), host' \in HostStates, node' \in 0..(MaxEvents + 1)
    PROVE  EnvTypes'
BY EventTypes DEF EnvTypes

\* A failed Reconcile is queued again.
LEMMA FailStep ==
    ASSUME OtherTypes, Fail
    PROVE  OtherTypes' /\ cached' = cached /\ work' = Idle
BY DEF OtherTypes, Fail

\* The NNS is created without a status.
LEMMA InitializeStep ==
    ASSUME ReportInv, InitializeNodeNetworkState
    PROVE  ReportInv'
<1>1. /\ EnvTypes /\ OtherTypes /\ WorkInv /\ work.at = "create"
      /\ work \in Works(version) /\ version \in Nat
  BY NodeTypeParts DEF ReportInv, InitializeNodeNetworkState, CacheTypes
<1>2. work.nns \in NNSUpTo(version + 1) /\ work.nns.status = EmptyState /\ work.state \in Reports
  <2>1. NNSUpTo(version) \subseteq NNSUpTo(version + 1)
    BY <1>1, VersionsGrow
  <2> QED
    BY <1>1, <2>1 DEF Works, WorkInv
<1>3. CASE /\ Store(work.nns)
           /\ work' = [work EXCEPT !.at = "fill", !.nns = nns']
           /\ UNCHANGED <<envVars, cached, queue, timer, lastState>>
  <2>1. /\ nns' \in NNSUpTo(version + 1) /\ version' = version + 1
        /\ ApiTypes
    BY <1>1, <1>2, <1>3, StoreTypes, NodeTypeParts DEF ReportInv
  <2>2. work' \in Works(version') /\ work'.nns = nns' /\ work'.at = "fill" /\ work'.state = work.state
    <3>1. work.state \in Statuses
      BY <1>2 DEF Statuses
    <3>2. work' = [at |-> "fill", state |-> work.state, nns |-> nns']
      BY <1>1, <1>3, ZenonT(30) DEF Works
    <3> QED
      BY <2>1, <3>1, <3>2 DEF Works
  <2>3. /\ ApiTypes' /\ CacheTypes' /\ ObjectsInv'
        /\ nns'.version # 0 /\ nns'.status = EmptyState
    BY <1>2, <1>3, <2>2, StoreStep
  <2>4. WorkInv'
    BY <1>2, <2>2, <2>3 DEF WorkInv
  <2>5. EnvTypes' /\ OtherTypes'
    BY <1>1, <1>3 DEF EnvTypes, OtherTypes, envVars
  <2> QED
    BY <2>3, <2>4, <2>5, NodeTypesNext DEF ReportInv
<1>4. CASE Fail /\ UNCHANGED <<envVars, apiVars>>
  <2>1. EnvTypes'
    BY <1>1, <1>4 DEF EnvTypes, envVars
  <2> QED
    BY <1>1, <1>4, <2>1, FailStep, KeptStep, NodeTypesNext DEF ReportInv, apiVars
<1>5. CASE Event("refused") /\ Fail /\ UNCHANGED <<host, node, apiVars>>
  <2>1. EnvTypes'
    BY <1>1, <1>5, EventStep DEF EnvTypes
  <2> QED
    BY <1>1, <1>5, <2>1, FailStep, KeptStep, NodeTypesNext DEF ReportInv, apiVars
<1>6. CASE Event("lost") /\ Fail /\ Store(work.nns) /\ UNCHANGED <<host, node>>
  <2>1. EnvTypes'
    BY <1>1, <1>6, EventStep DEF EnvTypes
  <2>2. OtherTypes' /\ cached' = cached /\ work' = Idle
    BY <1>1, <1>6, FailStep
  <2>3. ApiTypes' /\ CacheTypes' /\ ObjectsInv'
    BY <1>2, <1>6, <2>2, StoreStep
  <2> QED
    BY <1>1, <2>1, <2>2, <2>3, SameWork, NodeTypesNext DEF ReportInv
<1> QED
  BY <1>3, <1>4, <1>5, <1>6 DEF InitializeNodeNetworkState

\* An update writes the state that Reconcile found, and only over the version
\* that it was compared with.
LEMMA UpdateStep ==
    ASSUME ReportInv, UpdateCurrentState
    PROVE  /\ ReportInv'
           /\ nns' = nns \/ (Current(work.nns) /\ nns'.status = work.state)
<1> DEFINE o == [nns EXCEPT !.status = work.state]
<1>1. /\ EnvTypes /\ ApiTypes /\ OtherTypes /\ WorkInv /\ work.at \in {"fill", "update"}
      /\ work \in Works(version) /\ version \in Nat
  BY NodeTypeParts DEF ReportInv, UpdateCurrentState, CacheTypes
<1>2. work.state \in Reports /\ work.state \in Statuses
  BY <1>1 DEF WorkInv, Statuses
<1>3. o \in NNSUpTo(version + 1) /\ o.status = work.state
  <2>1. nns \in NNSUpTo(version + 1)
    BY <1>1, VersionsGrow DEF ApiTypes
  <2> QED
    BY <1>2, <2>1 DEF NNSUpTo
<1> HIDE DEF o
<1>4. CASE Current(work.nns) /\ Store(o) /\ Done(work.state) /\ UNCHANGED envVars
  <2>1. EnvTypes'
    BY <1>1, <1>4 DEF EnvTypes, envVars
  <2>2. OtherTypes' /\ cached' = cached /\ work' = Idle
    BY <1>1, <1>2, <1>4 DEF OtherTypes, Done
  <2>3. ApiTypes' /\ CacheTypes' /\ ObjectsInv' /\ nns'.status = work.state
    BY <1>3, <1>4, <2>2, StoreStep
  <2> QED
    BY <1>1, <1>4, <2>1, <2>2, <2>3, SameWork, NodeTypesNext DEF ReportInv
<1>5. CASE Fail /\ UNCHANGED <<envVars, apiVars>>
  <2>1. EnvTypes'
    BY <1>1, <1>5 DEF EnvTypes, envVars
  <2> QED
    BY <1>1, <1>5, <2>1, FailStep, KeptStep, NodeTypesNext DEF ReportInv, apiVars
<1>6. CASE Event("refused") /\ Fail /\ UNCHANGED <<host, node, apiVars>>
  <2>1. EnvTypes'
    BY <1>1, <1>6, EventStep DEF EnvTypes
  <2> QED
    BY <1>1, <1>6, <2>1, FailStep, KeptStep, NodeTypesNext DEF ReportInv, apiVars
<1>7. CASE Event("lost") /\ Fail /\ Current(work.nns) /\ Store(o) /\ UNCHANGED <<host, node>>
  <2>1. EnvTypes'
    BY <1>1, <1>7, EventStep DEF EnvTypes
  <2>2. OtherTypes' /\ cached' = cached /\ work' = Idle
    BY <1>1, <1>7, FailStep
  <2>3. ApiTypes' /\ CacheTypes' /\ ObjectsInv' /\ nns'.status = work.state
    BY <1>3, <1>7, <2>2, StoreStep
  <2> QED
    BY <1>1, <1>7, <2>1, <2>2, <2>3, SameWork, NodeTypesNext DEF ReportInv
<1> QED
  BY <1>4, <1>5, <1>6, <1>7 DEF UpdateCurrentState, o

\* Everything else leaves the status of the NNS alone, unless it removes the NNS.
LEMMA OtherSteps ==
    ASSUME ReportInv,
           \/ RefreshPeriodEnds \/ WatchNNS \/ forceNNSRefresh \/ HostChanges \/ DeleteNNS
           \/ RemoveNode \/ AddNode \/ CollectNNS \/ Restart
    PROVE  /\ ReportInv'
           /\ nns' = nns \/ nns' = NoNNS \/ nns'.refresh # nns.refresh
<1>1. /\ EnvTypes /\ ApiTypes /\ CacheTypes /\ OtherTypes /\ WorkInv
      /\ work \in Works(version) /\ version \in Nat /\ MaxEvents \in Nat
      /\ host \in HostStates /\ node \in 0..(MaxEvents + 1)
  BY NodeTypeParts, ReportAssumption DEF ReportInv, CacheTypes, EnvTypes
<1>2. CASE RefreshPeriodEnds
  <2>1. EnvTypes' /\ OtherTypes'
    BY <1>1, <1>2, ZenonT(30) DEF RefreshPeriodEnds, EnvTypes, OtherTypes, envVars
  <2> QED
    BY <1>2, <2>1, KeptStep, NodeTypesNext DEF ReportInv, RefreshPeriodEnds, apiVars
<1>3. CASE WatchNNS
  <2>1. EnvTypes' /\ OtherTypes'
    <3>1. queue' \in BOOLEAN
      BY <1>3, Zenon DEF WatchNNS
    <3> QED
      BY <1>1, <1>3, <3>1 DEF WatchNNS, EnvTypes, OtherTypes, envVars
  <2>2. /\ cached' \in {pending[i] : i \in 1..Len(pending)}
        /\ pending' \in Seq(NNSUpTo(version))
        /\ {pending'[i] : i \in 1..Len(pending')} \subseteq {pending[i] : i \in 1..Len(pending)}
    <3>1. pending # <<>> /\ cached' = Head(pending) /\ pending' = Tail(pending)
      BY <1>3 DEF WatchNNS
    <3> QED
      BY <1>1, <3>1, PendingShrinks DEF ApiTypes
  <2>3. /\ nns \in Objects /\ {pending[i] : i \in 1..Len(pending)} \subseteq Objects
        /\ work.at \in {"fill", "update"} => work.nns \in Objects
    BY DEF Objects
  <2>4. nns' = nns /\ version' = version /\ work' = work
    BY <1>3 DEF WatchNNS
  <2>5. ApiTypes' /\ CacheTypes' /\ ObjectsInv'
    BY <1>1, <2>2, <2>3, <2>4, QuietStep
  <2> QED
    BY <1>1, <2>1, <2>4, <2>5, SameWork, NodeTypesNext DEF ReportInv
<1>4. CASE forceNNSRefresh
  <2> DEFINE o == [nns EXCEPT !.refresh = version + 1]
  <2>1. o \in NNSUpTo(version + 1) /\ o.refresh = version + 1 /\ nns.refresh # version + 1
    <3>1. nns \in NNSUpTo(version + 1) /\ nns.refresh \in 0..version
      BY <1>1, VersionsGrow DEF ApiTypes, NNSUpTo
    <3> QED
      BY <1>1, <3>1 DEF NNSUpTo
  <2>2. Store(o) /\ cached' = cached /\ work' = work
    BY <1>4 DEF forceNNSRefresh, handlerVars
  <2>3. EnvTypes'
    BY <1>1, <1>4, EventStep DEF forceNNSRefresh
  <2>4. OtherTypes'
    BY <1>1, <1>4 DEF forceNNSRefresh, handlerVars, OtherTypes
  <2> HIDE DEF o
  <2>5. ApiTypes' /\ CacheTypes' /\ ObjectsInv' /\ nns'.refresh # nns.refresh
    BY <2>1, <2>2, StoreStep
  <2> QED
    BY <1>1, <2>2, <2>3, <2>4, <2>5, SameWork, NodeTypesNext DEF ReportInv
<1>5. CASE HostChanges \/ RemoveNode
  <2>1. host' \in HostStates /\ node' \in 0..(MaxEvents + 1)
    BY <1>1, <1>5 DEF HostChanges, RemoveNode
  <2>2. EnvTypes'
    BY <1>1, <1>5, <2>1, EventStep DEF HostChanges, RemoveNode
  <2>3. OtherTypes'
    BY <1>1, <1>5 DEF HostChanges, RemoveNode, OtherTypes, handlerVars
  <2> QED
    BY <1>5, <2>2, <2>3, KeptStep, NodeTypesNext DEF ReportInv, HostChanges, RemoveNode, apiVars, handlerVars
<1>6. CASE AddNode
  <2>1. EnvTypes' /\ OtherTypes'
    BY <1>1, <1>6 DEF AddNode, EnvTypes, OtherTypes
  <2> QED
    BY <1>6, <2>1, KeptStep, NodeTypesNext DEF ReportInv, AddNode, apiVars
<1>7. CASE DeleteNNS
  <2>1. EnvTypes'
    BY <1>1, <1>7, EventStep DEF DeleteNNS
  <2>2. OtherTypes' /\ nns' = NoNNS
    BY <1>1, <1>7 DEF DeleteNNS, Publish, OtherTypes, handlerVars
  <2> QED
    BY <1>7, <2>1, <2>2, GoneStep, NodeTypesNext DEF ReportInv, DeleteNNS, handlerVars
<1>8. CASE CollectNNS
  <2>1. EnvTypes' /\ OtherTypes' /\ nns' = NoNNS
    BY <1>1, <1>8 DEF CollectNNS, Publish, EnvTypes, OtherTypes, envVars, handlerVars
  <2> QED
    BY <1>8, <2>1, GoneStep, NodeTypesNext DEF ReportInv, CollectNNS, handlerVars
<1>9. CASE Restart
  <2>1. EnvTypes'
    BY <1>1, <1>9, EventStep DEF Restart
  <2>2. OtherTypes'
    <3>1. queue' \in BOOLEAN /\ timer' \in BOOLEAN
      BY <1>9, Zenon DEF Restart
    <3> QED
      BY <1>9, <3>1 DEF Restart, OtherTypes, Statuses
  <2>3. nns \in Objects
    BY DEF Objects
  <2>4. /\ pending' = <<>> /\ work' = Idle /\ Idle \in Works(version) /\ Idle.at = "idle"
        /\ nns' = nns /\ version' = version /\ cached' = nns
    BY <1>1, <1>9, NothingIsTyped DEF Restart, Idle
  <2>5. pending' \in Seq(NNSUpTo(version)) /\ {pending'[i] : i \in 1..Len(pending')} = {}
    BY <2>4
  <2>6. ApiTypes' /\ CacheTypes' /\ ObjectsInv'
    BY <2>3, <2>4, <2>5, QuietStep
  <2> QED
    BY <1>1, <2>1, <2>2, <2>4, <2>6, SameWork, NodeTypesNext DEF ReportInv
<1> QED
  BY <1>2, <1>3, <1>4, <1>5, <1>6, <1>7, <1>8, <1>9

\* Nothing is compared at first.
LEMMA ReportInit == Init => ReportInv
<1> SUFFICES ASSUME Init PROVE ReportInv
  OBVIOUS
<1>1. NodeInit
  BY DEF Init
<1>2. NodeTypeOK /\ NoNNS \in NNSUpTo(0)
  BY <1>1, NodeTypesInit, NothingIsTyped
<1>3. version = 0 /\ work = Idle /\ nns = NoNNS /\ cached = NoNNS /\ pending = <<>>
  BY <1>1 DEF NodeInit
<1>4. Objects = {NoNNS}
  BY <1>3 DEF Objects, Idle
<1>5. ObjectsInv
  BY <1>2, <1>3, <1>4 DEF ObjectsInv
<1>6. WorkInv
  BY <1>3 DEF WorkInv, Idle
<1> QED
  BY <1>2, <1>5, <1>6 DEF ReportInv

\* A step that is not one of the node controller and its surroundings.
LEMMA NotTheNode ==
    ASSUME [Next]_vars
    PROVE  NodeNext \/ nns' = nns
<1>1. ASSUME NEW e \in Enactments, WriteEnactment(e) PROVE nns' = nns
  BY <1>1, Zenon DEF WriteEnactment, Write, apiVars
<1>2. ASSUME NEW p \in Policies, WritePolicy(p) PROVE nns' = nns
  BY <1>2, Zenon DEF WritePolicy, Write, apiVars
<1>3. CASE RestartMetrics
  BY <1>3, Zenon DEF RestartMetrics, apiVars
<1>4. CASE ReconcileNNS \/ ReportFeatures \/ ReportEnactmentStatus \/ ReportPolicyStatus
  BY <1>4, Zenon DEF ReconcileNNS, ReportFeatures, ReportEnactmentStatus, ReportPolicyStatus, Runs, nodeVars
<1> QED
  BY <1>1, <1>2, <1>3, <1>4, Zenon DEF Next, vars, nodeVars

\* A step of the composition keeps the invariant.
LEMMA ReportStep ==
    ASSUME ReportInv, [Next]_vars
    PROVE  ReportInv'
<1>1. CASE NodeNext
  BY <1>1, ReconcileStep, InitializeStep, UpdateStep, OtherSteps DEF NodeNext, HandlerSteps
<1>2. CASE UNCHANGED nodeVars
  <2>1. EnvTypes' /\ OtherTypes'
    BY <1>2, NodeTypeParts DEF ReportInv, EnvTypes, OtherTypes, nodeVars
  <2> QED
    BY <1>2, <2>1, KeptStep, NodeTypesNext DEF ReportInv, nodeVars
<1>3. CASE /\ UNCHANGED <<host, node, apiVars, handlerVars>>
           /\ Event("change") \/ Event("crash")
  <2>1. EnvTypes /\ OtherTypes
    BY NodeTypeParts DEF ReportInv
  <2>2. EnvTypes'
    BY <1>3, <2>1, EventStep DEF EnvTypes
  <2>3. OtherTypes'
    BY <1>3, <2>1 DEF OtherTypes, handlerVars
  <2> QED
    BY <1>3, <2>2, <2>3, KeptStep, NodeTypesNext DEF ReportInv, apiVars, handlerVars
<1>4. ASSUME NEW e \in Enactments, WriteEnactment(e) PROVE ReportInv'
  BY <1>3, <1>4, Zenon DEF WriteEnactment, Write
<1>5. ASSUME NEW p \in Policies, WritePolicy(p) PROVE ReportInv'
  BY <1>3, <1>5, Zenon DEF WritePolicy, Write
<1>6. CASE RestartMetrics
  BY <1>3, <1>6, Zenon DEF RestartMetrics
<1>7. CASE ReconcileNNS \/ ReportFeatures \/ ReportEnactmentStatus \/ ReportPolicyStatus
  BY <1>2, <1>7, Zenon DEF ReconcileNNS, ReportFeatures, ReportEnactmentStatus, ReportPolicyStatus, Runs
<1> QED
  BY <1>1, <1>2, <1>4, <1>5, <1>6, <1>7, Zenon DEF Next, vars

-----------------------------------------------------------------------------
(* News *)

\* Interfaces and network states made of any values.
Interfaces(V) == [name : V, type : V, state : V, timers : V, lifetimes : V]

States(V) == [ifaces : SUBSET Interfaces(V), running : SUBSET V, config : SUBSET V, filled : BOOLEAN]

Told(i) == <<i.name, i.type, i.state>>

\* An interface in a report has nothing that ticks.
LEMMA FilteredInterface ==
    ASSUME NEW V, 0 \in V, NEW ifaces \in SUBSET Interfaces(V),
           \A i \in ifaces : i.type = "linux-bridge" \/ i.timers = 0,
           NEW i \in filterOutInterfaces(ifaces)
    PROVE  i \in Interfaces(V) /\ i.timers = 0 /\ i.lifetimes = 0
<1>1. PICK j \in ifaces : i = filterOutDynamicAttributes(j)
  BY DEF filterOutInterfaces
<1>2. j \in Interfaces(V)
  OBVIOUS
<1> DEFINE b == filterOutBridgeDynamicAttributes(j)
<1>3. b \in Interfaces(V) /\ b.timers = 0
  BY <1>1, <1>2 DEF filterOutBridgeDynamicAttributes, Interfaces
<1>4. i = [b EXCEPT !.lifetimes = 0]
  BY <1>1 DEF filterOutDynamicAttributes, filterOutAddressLifetimes
<1> HIDE DEF b
<1> QED
  BY <1>3, <1>4 DEF Interfaces

\* So what a report says beyond its essence is nothing.
LEMMA EssenceTells ==
    ASSUME NEW V, 0 \in V, HostStates \subseteq States(V),
           NEW s \in Reports, NEW t \in Reports, Essence(s) = Essence(t)
    PROVE  s = t
<1> DEFINE Still == { i \in Interfaces(V) : i.timers = 0 /\ i.lifetimes = 0 }
<1>1. ASSUME NEW r \in Reports
      PROVE  /\ r = [ifaces |-> r.ifaces, running |-> r.running, config |-> r.config, filled |-> r.filled]
             /\ r.ifaces \subseteq Still
  <2>1. PICK h \in HostStates : r = filterOut(h)
    BY <1>1 DEF Reports
  <2>2. h \in States(V) /\ \A i \in h.ifaces : i.type = "linux-bridge" \/ i.timers = 0
    BY ReportAssumption
  <2>3. h.ifaces \in SUBSET Interfaces(V)
    BY <2>2 DEF States
  <2>4. filterOutInterfaces(h.ifaces) \subseteq Still
    BY <2>2, <2>3, FilteredInterface
  <2> HIDE DEF Still
  <2> QED
    BY <2>1, <2>2, <2>4, ZenonT(30) DEF filterOut, States
<1>2. /\ {Told(i) : i \in s.ifaces} = {Told(i) : i \in t.ifaces}
      /\ s.running = t.running /\ s.config = t.config /\ s.filled = t.filled
  BY DEF Essence, Told
<1>3. ASSUME NEW a \in Reports, NEW b \in Reports,
             {Told(i) : i \in a.ifaces} = {Told(i) : i \in b.ifaces}
      PROVE  a.ifaces \subseteq b.ifaces
  <2> SUFFICES ASSUME NEW i \in a.ifaces PROVE i \in b.ifaces
    OBVIOUS
  <2>1. PICK j \in b.ifaces : Told(i) = Told(j)
    <3>1. Told(i) \in {Told(k) : k \in b.ifaces}
      BY <1>3
    <3> QED
      BY <3>1
  <2>2. i \in Still /\ j \in Still
    BY <1>1
  <2>3. i = j
    BY <2>1, <2>2 DEF Interfaces, Told
  <2> QED
    BY <2>3
<1>4. s.ifaces = t.ifaces
  <2>1. s.ifaces \subseteq t.ifaces
    BY <1>2, <1>3
  <2>2. t.ifaces \subseteq s.ifaces
    BY <1>2, <1>3, ZenonT(30)
  <2> QED
    BY <2>1, <2>2, ZenonT(30)
<1> QED
  BY <1>1, <1>2, <1>4

\* A report is never empty.
LEMMA ReportsAreFilled ==
    ASSUME NEW V, HostStates \subseteq States(V), NEW s \in Reports
    PROVE  Essence(s) # Essence(EmptyState)
<1>1. PICK h \in HostStates : s = filterOut(h)
  BY DEF Reports
<1>2. h \in States(V) /\ h.filled
  BY ReportAssumption
<1>3. s.filled
  BY <1>1, <1>2 DEF filterOut, States
<1> QED
  BY <1>3 DEF Essence, EmptyState

\* The node controller rewrites the status of an NNS only when that tells its
\* readers something new, whatever states the node goes through and however late
\* its cache is (node_controller.go Reconcile, client.go UpdateCurrentState).
THEOREM EveryWriteIsNews ==
    ASSUME NEW V, 0 \in V, HostStates \subseteq States(V)
    PROVE  Spec => WritesAreNews
<1> DEFINE News == (Exists(nns) /\ Exists(nns') /\ nns'.version # nns.version
                       /\ nns'.refresh = nns.refresh)
                   => Essence(nns'.status) # Essence(nns.status)
<1>1. Init => ReportInv
  BY ReportInit
<1>2. ReportInv /\ [Next]_vars => ReportInv'
  BY ReportStep
<1>3. ReportInv /\ [Next]_vars => [News]_nodeVars
  <2> SUFFICES ASSUME ReportInv, [Next]_vars PROVE News
    OBVIOUS
  <2>1. CASE nns' = nns \/ nns' = NoNNS \/ nns'.refresh # nns.refresh
    BY <2>1 DEF Exists, NoNNS
  <2>2. CASE UpdateCurrentState
    <3> SUFFICES ASSUME Current(work.nns), nns'.status = work.state PROVE News
      BY <2>1, <2>2, UpdateStep
    <3>1. /\ work.at \in {"fill", "update"} /\ work.state \in Reports
          /\ work.nns.version = nns.version
      BY <2>2 DEF UpdateCurrentState, ReportInv, WorkInv, Current
    <3>2. nns \in Objects /\ work.nns \in Objects
      BY <3>1 DEF Objects
    <3>3. nns.status = work.nns.status
      BY <3>1, <3>2 DEF ReportInv, ObjectsInv
    <3>4. nns.status \in Statuses
      BY NodeTypes DEF ReportInv, NNSUpTo
    <3>5. nns.status = EmptyState \/ (nns.status \in Reports /\ nns.status # work.state)
      BY <3>1, <3>3, <3>4 DEF ReportInv, WorkInv, Statuses
    <3> QED
      BY <3>1, <3>5, EssenceTells, ReportsAreFilled
  <2>3. CASE InitializeNodeNetworkState
    <3>1. nns' = nns \/ ~Exists(nns)
      BY <2>3 DEF InitializeNodeNetworkState, apiVars
    <3> QED
      BY <2>1, <3>1
  <2>4. CASE Reconcile
    BY <2>1, <2>4 DEF Reconcile, apiVars
  <2>5. CASE NodeNext
    BY <2>1, <2>2, <2>3, <2>4, <2>5, OtherSteps DEF NodeNext, HandlerSteps
  <2>6. CASE nns' = nns
    BY <2>1, <2>6
  <2> HIDE DEF News
  <2> QED
    BY <2>5, <2>6, NotTheNode
<1> QED
  BY <1>1, <1>2, <1>3, PTL DEF Spec, WritesAreNews
-----------------------------------------------------------------------------
(* Requests *)

\* A step around the node controller leaves its requests alone, or makes one.
LEMMA RequestStays ==
    ASSUME NodeIsNotForgotten, node' = node \/ node' = 0,
           queue => queue', timer => timer' \/ queue', work' = work
    PROVE  NodeIsNotForgotten'
BY Zenon DEF NodeIsNotForgotten

\* No step of the node controller ends without a request or a write to come.
LEMMA RequestNext ==
    ASSUME ReportInv, NodeIsNotForgotten, [Next]_vars
    PROVE  NodeIsNotForgotten'
<1>1. CASE Reconcile
  <2> DEFINE s == filterOut(host)
             skipped == Exists(cached) /\ cached.status = s
  <2>1. /\ timer' = (timer \/ Unchanged(s) \/ (node # 0 /\ skipped)) /\ node' = node
        /\ \/ Unchanged(s) \/ node = 0 \/ skipped
           \/ work'.at \in {"update", "create"}
    BY <1>1 DEF Reconcile
  <2>2. work'.at \in {"update", "create"} => work' # Idle
    BY DEF Idle
  <2> HIDE DEF s, skipped
  <2> QED
    BY <2>1, <2>2, Zenon DEF NodeIsNotForgotten
<1>2. CASE InitializeNodeNetworkState
  <2>1. queue' \/ work' = [work EXCEPT !.at = "fill", !.nns = nns']
    BY <1>2, Zenon DEF InitializeNodeNetworkState, Fail
  <2>2. work' = [work EXCEPT !.at = "fill", !.nns = nns'] => work' # Idle
    <3>1. work \in Works(version)
      BY NodeTypes DEF ReportInv
    <3>2. [work EXCEPT !.at = "fill", !.nns = nns'].at = "fill"
      BY <3>1 DEF Works
    <3>3. Idle.at # "fill"
      BY DEF Idle
    <3> QED
      BY <3>2, <3>3, Zenon
  <2> QED
    BY <2>1, <2>2, Zenon DEF NodeIsNotForgotten
<1>3. CASE UpdateCurrentState
  <2>1. queue' \/ timer'
    BY <1>3, Zenon DEF UpdateCurrentState, Done, Fail
  <2> QED
    BY <2>1, Zenon DEF NodeIsNotForgotten
<1>4. CASE AddNode \/ Restart
  BY <1>4, Zenon DEF AddNode, Restart, NodeIsNotForgotten
<1>5. CASE NodeNext
  <2>1. \/ <1>1!1 \/ <1>2!1 \/ <1>3!1 \/ <1>4!1
        \/ RefreshPeriodEnds \/ WatchNNS \/ forceNNSRefresh \/ HostChanges \/ DeleteNNS
        \/ RemoveNode \/ CollectNNS
    BY <1>5, Zenon DEF NodeNext, HandlerSteps
  <2>2. \/ <1>1!1 \/ <1>2!1 \/ <1>3!1 \/ <1>4!1
        \/ /\ node' = node \/ node' = 0
           /\ queue => queue'
           /\ timer => timer' \/ queue'
           /\ work' = work
    BY <2>1, Zenon DEF RefreshPeriodEnds, WatchNNS, forceNNSRefresh, HostChanges, DeleteNNS,
                       RemoveNode, CollectNNS, envVars, handlerVars
  <2> QED
    BY <1>1, <1>2, <1>3, <1>4, <2>2, RequestStays, Zenon
<1>6. CASE UNCHANGED <<node, handlerVars>>
  BY <1>6, RequestStays, Zenon DEF handlerVars
<1>7. ASSUME NEW e \in Enactments, WriteEnactment(e) PROVE NodeIsNotForgotten'
  BY <1>6, <1>7, Zenon DEF WriteEnactment, Write
<1>8. ASSUME NEW p \in Policies, WritePolicy(p) PROVE NodeIsNotForgotten'
  BY <1>6, <1>8, Zenon DEF WritePolicy, Write
<1>9. CASE RestartMetrics
  BY <1>6, <1>9, Zenon DEF RestartMetrics
<1>10. CASE UNCHANGED nodeVars
  BY <1>6, <1>10, Zenon DEF nodeVars, handlerVars
<1>11. CASE ReconcileNNS \/ ReportFeatures \/ ReportEnactmentStatus \/ ReportPolicyStatus
  BY <1>10, <1>11, Zenon DEF ReconcileNNS, ReportFeatures, ReportEnactmentStatus, ReportPolicyStatus, Runs
<1> QED
  BY <1>5, <1>7, <1>8, <1>9, <1>10, <1>11, Zenon DEF Next, vars

\* Whatever is refused, lost, deleted or restarted, the node controller looks at
\* its Node again (the results of Reconcile).
THEOREM NodeIsLookedAtAgain == Spec => []NodeIsNotForgotten
<1>1. Init => NodeIsNotForgotten
  BY Zenon DEF Init, NodeInit, NodeIsNotForgotten
<1>2. ReportInv /\ NodeIsNotForgotten /\ [Next]_vars => NodeIsNotForgotten'
  BY RequestNext
<1>3. ReportInv /\ [Next]_vars => ReportInv'
  BY ReportStep
<1> QED
  BY <1>1, <1>2, <1>3, ReportInit, PTL DEF Spec

-----------------------------------------------------------------------------
(* Silence *)

\* The watch delivers the NNS in the end: the last version on its way, or else
\* the cached one, is the current one.
LatestInv == IF pending = <<>> THEN cached = nns ELSE pending[Len(pending)] = nns

\* As long as nothing disturbed the report, the NNS belongs to the Node, and the
\* controller remembers what the NNS says or nothing.
MemoryInv ==
    ~disturbed => /\ node # 0
                  /\ Exists(nns) => nns.owner = node
                  /\ work.at = "create" => work.nns.owner = node
                  /\ lastState \in {EmptyState, nns.status}

\* What is published is the last on its way.
LEMMA PublishedIsLatest ==
    ASSUME NEW S, pending \in Seq(S), NEW x \in S, nns' = x, pending' = Append(pending, x)
    PROVE  LatestInv'
<1>1. pending' # <<>> /\ pending'[Len(pending')] = x
  OBVIOUS
<1> QED
  BY <1>1 DEF LatestInv

\* What is delivered is no longer on its way.
LEMMA DeliveredIsLatest ==
    ASSUME NEW S, pending \in Seq(S), pending # <<>>, LatestInv,
           cached' = Head(pending), pending' = Tail(pending), nns' = nns
    PROVE  LatestInv'
<1>1. pending[Len(pending)] = nns /\ Len(pending) \in Nat \ {0}
  BY DEF LatestInv
<1>2. CASE Len(pending) = 1
  BY <1>1, <1>2 DEF LatestInv
<1>3. CASE Len(pending) # 1
  <2>1. Len(pending') = Len(pending) - 1
    BY <1>1
  <2>2. \A i \in 1..Len(pending') : pending'[i] = pending[i + 1]
    BY <1>1
  <2>3. Len(pending') \in 1..Len(pending') /\ Len(pending') + 1 = Len(pending)
    BY <1>1, <1>3, <2>1
  <2>4. pending' # <<>>
    <3>1. Len(pending') # 0 /\ Len(<<>>) = 0
      BY <1>1, <1>3, <2>1
    <3> QED
      BY <3>1, Zenon
  <2> QED
    BY <1>1, <2>2, <2>3, <2>4 DEF LatestInv
<1> QED
  BY <1>2, <1>3

\* A version that is stored is published.
LEMMA StoredIsLatest ==
    ASSUME ReportInv, NEW o \in NNSUpTo(version + 1), Store(o)
    PROVE  LatestInv'
<1>1. ApiTypes
  BY NodeTypeParts DEF ReportInv
<1>2. pending' = Append(pending, nns') /\ nns' \in NNSUpTo(version + 1)
  BY <1>1, StoreTypes
<1>3. pending \in Seq(NNSUpTo(version + 1))
  <2>1. NNSUpTo(version) \subseteq NNSUpTo(version + 1)
    BY <1>1, VersionsGrow DEF ApiTypes
  <2> QED
    BY <1>1, <2>1 DEF ApiTypes
<1> QED
  BY <1>2, <1>3, PublishedIsLatest

\* The NNS with another status, or none, is typed.
LEMMA NextVersionTyped ==
    ASSUME ReportInv
    PROVE  /\ NoNNS \in NNSUpTo(version) /\ nns \in NNSUpTo(version + 1)
           /\ work.nns \in NNSUpTo(version + 1)
           /\ \A s \in Statuses : [nns EXCEPT !.status = s] \in NNSUpTo(version + 1)
           /\ [nns EXCEPT !.refresh = version + 1] \in NNSUpTo(version + 1)
           /\ pending \in Seq(NNSUpTo(version)) /\ work.state \in Statuses
<1>1. version \in Nat /\ nns \in NNSUpTo(version) /\ work \in Works(version)
      /\ pending \in Seq(NNSUpTo(version))
  BY NodeTypes DEF ReportInv
<1>2. nns \in NNSUpTo(version + 1) /\ work.nns \in NNSUpTo(version + 1) /\ work.state \in Statuses
  BY <1>1, VersionsGrow DEF Works
<1>3. /\ \A s \in Statuses : [nns EXCEPT !.status = s] \in NNSUpTo(version + 1)
      /\ [nns EXCEPT !.refresh = version + 1] \in NNSUpTo(version + 1)
  <2>1. nns \in [version : 0..(version + 1), status : Statuses, refresh : 0..(version + 1),
                  owner : 0..(MaxEvents + 1)]
    BY <1>2 DEF NNSUpTo
  <2>2. version + 1 \in 0..(version + 1)
    BY <1>1
  <2> QED
    BY <2>1, <2>2 DEF NNSUpTo
<1> QED
  BY <1>1, <1>2, <1>3, NothingIsTyped

\* Every step of the node controller and its surroundings keeps the order of the
\* watch.
LEMMA LatestStep ==
    ASSUME ReportInv, LatestInv, NodeNext
    PROVE  LatestInv'
<1>1. CASE UNCHANGED <<nns, pending, cached>>
  BY <1>1 DEF LatestInv
<1>2. ASSUME NEW o \in NNSUpTo(version + 1), Store(o) PROVE LatestInv'
  BY <1>2, StoredIsLatest
<1>3. CASE Publish(NoNNS)
  BY <1>3, NextVersionTyped, PublishedIsLatest DEF Publish
<1>4. CASE WatchNNS
  BY <1>4, NextVersionTyped, DeliveredIsLatest DEF WatchNNS
<1>5. CASE Restart
  BY <1>5 DEF Restart, LatestInv
<1>6. CASE InitializeNodeNetworkState
  <2>1. Store(work.nns) \/ UNCHANGED <<nns, pending, cached>>
    BY <1>6 DEF InitializeNodeNetworkState, apiVars, Fail
  <2> QED
    BY <1>1, <1>2, <2>1, NextVersionTyped
<1>7. CASE UpdateCurrentState
  <2>1. Store([nns EXCEPT !.status = work.state]) \/ UNCHANGED <<nns, pending, cached>>
    BY <1>7 DEF UpdateCurrentState, apiVars, Fail
  <2> QED
    BY <1>1, <1>2, <2>1, NextVersionTyped
<1>8. CASE forceNNSRefresh
  BY <1>2, <1>8, NextVersionTyped DEF forceNNSRefresh
<1>9. CASE DeleteNNS \/ CollectNNS
  BY <1>3, <1>9 DEF DeleteNNS, CollectNNS
<1>10. CASE Reconcile \/ RefreshPeriodEnds \/ HostChanges \/ RemoveNode \/ AddNode
  BY <1>1, <1>10 DEF Reconcile, RefreshPeriodEnds, HostChanges, RemoveNode, AddNode, apiVars, handlerVars
<1> QED
  BY <1>4, <1>5, <1>6, <1>7, <1>8, <1>9, <1>10 DEF NodeNext, HandlerSteps

\* A version that is stored keeps its owner and status.
LEMMA StoredKeeps ==
    ASSUME ReportInv, NEW o \in NNSUpTo(version + 1), Store(o)
    PROVE  nns'.owner = o.owner /\ nns'.status = o.status /\ Exists(nns')
<1>1. nns' = [o EXCEPT !.version = version + 1] /\ version \in Nat
  BY NodeTypes DEF Store, Publish, ReportInv
<1> QED
  BY <1>1 DEF NNSUpTo, Exists

\* Nothing that is refused is disturbing.
LEMMA Disturbs ==
    ASSUME NEW kind, Event(kind), ~disturbed'
    PROVE  ~disturbed /\ kind \notin Disturbing
BY Zenon DEF Event

\* A step that disturbs nothing and leaves the NNS, its owner and the memory
\* alone.
LEMMA MemoryStays ==
    ASSUME MemoryInv, disturbed => disturbed', node' = node,
           Exists(nns') => nns'.owner = nns.owner /\ Exists(nns), nns'.status = nns.status,
           work' = work \/ work' = Idle, lastState' \in {lastState, EmptyState}
    PROVE  MemoryInv'
<1> SUFFICES ASSUME ~disturbed' PROVE MemoryInv'
  BY Zenon DEF MemoryInv
<1>1. /\ node # 0
      /\ Exists(nns) => nns.owner = node
      /\ work.at = "create" => work.nns.owner = node
      /\ lastState \in {EmptyState, nns.status}
  BY Zenon DEF MemoryInv
<1>2. work'.at = "create" => work'.nns.owner = node
  BY <1>1 DEF Idle
<1> QED
  BY <1>1, <1>2, Zenon DEF MemoryInv

\* Reconcile remembers what it has found in a cache that is not behind.
LEMMA ReconcileMemory ==
    ASSUME ReportInv, LatestInv, MemoryInv, Reconcile
    PROVE  MemoryInv'
<1> DEFINE s == filterOut(host)
           skipped == Exists(cached) /\ cached.status = s
           begun == [at |-> IF Exists(cached) THEN "update" ELSE "create", state |-> s,
                     nns |-> [cached EXCEPT !.owner = IF Exists(cached) THEN @ ELSE node]]
<1> SUFFICES ASSUME ~disturbed' PROVE MemoryInv'
  BY Zenon DEF MemoryInv
<1>1. /\ disturbed' = (disturbed \/ pending # <<>>) /\ node' = node /\ nns' = nns
      /\ lastState' = IF node # 0 /\ skipped THEN s ELSE lastState
      /\ work' = Idle \/ work' = begun
  BY DEF Reconcile, apiVars
<1>2. ~disturbed /\ pending = <<>>
  BY <1>1, Zenon
<1>3. cached = nns
  BY <1>2 DEF LatestInv
<1>4. /\ node # 0
      /\ Exists(nns) => nns.owner = node
      /\ lastState \in {EmptyState, nns.status}
  BY <1>2, Zenon DEF MemoryInv
<1>5. work'.at = "create" => work'.nns.owner = node
  <2>1. cached \in NNSUpTo(version)
    BY NodeTypes DEF ReportInv
  <2>2. begun.at = "create" => begun.nns.owner = node
    BY <2>1 DEF NNSUpTo
  <2>3. Idle.at # "create"
    BY DEF Idle
  <2> HIDE DEF begun
  <2> QED
    BY <1>1, <2>2, <2>3, Zenon
<1>6. lastState' \in {EmptyState, nns'.status}
  BY <1>1, <1>3, <1>4
<1> QED
  BY <1>1, <1>4, <1>5, <1>6, Zenon DEF MemoryInv

\* A new NNS belongs to the Node and says nothing; nothing is remembered.
LEMMA InitializeMemory ==
    ASSUME ReportInv, MemoryInv, InitializeNodeNetworkState
    PROVE  MemoryInv'
<1> SUFFICES ASSUME ~disturbed' PROVE MemoryInv'
  BY Zenon DEF MemoryInv
<1>1. CASE Fail /\ UNCHANGED <<node, nns>>
  <2>1. ~disturbed
    BY Zenon DEF InitializeNodeNetworkState, Event, envVars
  <2> QED
    BY <1>1, <2>1, MemoryStays, Zenon DEF Fail
<1>2. CASE /\ ~Exists(nns) /\ Store(work.nns) /\ work' = [work EXCEPT !.at = "fill", !.nns = nns']
           /\ UNCHANGED <<envVars, lastState>>
  <2>1. ~disturbed /\ node' = node /\ lastState' = lastState
    BY <1>2, Zenon DEF envVars
  <2>2. nns = NoNNS
    BY <1>2 DEF ReportInv, ObjectsInv, Objects, Exists
  <2>3. work.at = "create" /\ work \in Works(version)
    BY NodeTypes DEF InitializeNodeNetworkState, ReportInv
  <2>4. lastState = EmptyState /\ work.nns.owner = node /\ node # 0
    BY <2>1, <2>2, <2>3 DEF MemoryInv, NoNNS
  <2>5. nns'.owner = node /\ nns'.status = EmptyState
    BY <1>2, <2>3, <2>4, NextVersionTyped, StoredKeeps DEF ReportInv, WorkInv
  <2>6. work'.at = "fill"
    BY <1>2, <2>3 DEF Works
  <2> QED
    BY <2>1, <2>4, <2>5, <2>6 DEF MemoryInv
<1>3. CASE Event("lost")
  BY <1>3, Disturbs DEF Disturbing
<1> QED
  BY <1>1, <1>2, <1>3, Zenon DEF InitializeNodeNetworkState, envVars, apiVars

\* What has been written is what is remembered.
LEMMA UpdateMemory ==
    ASSUME ReportInv, MemoryInv, UpdateCurrentState
    PROVE  MemoryInv'
<1> SUFFICES ASSUME ~disturbed' PROVE MemoryInv'
  BY Zenon DEF MemoryInv
<1>1. CASE Fail /\ UNCHANGED <<node, nns>>
  <2>1. ~disturbed
    BY Zenon DEF UpdateCurrentState, Event, envVars
  <2> QED
    BY <1>1, <2>1, MemoryStays, Zenon DEF Fail
<1>2. CASE /\ Current(work.nns) /\ Store([nns EXCEPT !.status = work.state]) /\ Done(work.state)
           /\ UNCHANGED envVars
  <2>1. ~disturbed /\ node' = node /\ lastState' = work.state /\ work' = Idle /\ Exists(nns)
    BY <1>2, Zenon DEF envVars, Done, Current
  <2>2. node # 0 /\ nns.owner = node
    BY <2>1, Zenon DEF MemoryInv
  <2>3. nns \in NNSUpTo(version + 1)
    BY NextVersionTyped
  <2>4. [nns EXCEPT !.status = work.state].owner = nns.owner
        /\ [nns EXCEPT !.status = work.state].status = work.state
    BY <2>3 DEF NNSUpTo
  <2>5. nns'.owner = node /\ nns'.status = work.state
    BY <1>2, <2>2, <2>4, NextVersionTyped, StoredKeeps
  <2>6. work'.at # "create"
    BY <2>1 DEF Idle
  <2> QED
    BY <2>1, <2>2, <2>5, <2>6 DEF MemoryInv
<1>3. CASE Event("lost")
  BY <1>3, Disturbs DEF Disturbing
<1> QED
  BY <1>1, <1>2, <1>3, Zenon DEF UpdateCurrentState, envVars, apiVars

\* The refresh label touches neither the owner nor the status.
LEMMA RefreshMemory ==
    ASSUME ReportInv, MemoryInv, forceNNSRefresh
    PROVE  MemoryInv'
<1> DEFINE o == [nns EXCEPT !.refresh = version + 1]
<1>1. nns \in NNSUpTo(version + 1) /\ o \in NNSUpTo(version + 1)
  BY NextVersionTyped
<1>2. o.owner = nns.owner /\ o.status = nns.status
  BY <1>1 DEF NNSUpTo
<1> HIDE DEF o
<1>3. nns'.owner = nns.owner /\ nns'.status = nns.status
  BY <1>1, <1>2, StoredKeeps DEF forceNNSRefresh, o
<1>4. Exists(nns) /\ node' = node /\ work' = work /\ lastState' = lastState
  BY DEF forceNNSRefresh, Current, handlerVars
<1>5. disturbed => disturbed'
  BY Zenon DEF forceNNSRefresh, Event
<1> QED
  BY <1>3, <1>4, <1>5, MemoryStays, Zenon

\* Every step of the node controller and its surroundings keeps the memory true.
LEMMA MemoryStep ==
    ASSUME ReportInv, LatestInv, MemoryInv, NodeNext
    PROVE  MemoryInv'
<1>1. CASE UNCHANGED <<node, nns, work, lastState>> /\ (disturbed => disturbed')
  BY <1>1, MemoryStays, Zenon
<1>2. CASE WatchNNS \/ RefreshPeriodEnds \/ HostChanges
  BY <1>1, <1>2, Zenon DEF WatchNNS, RefreshPeriodEnds, HostChanges, Event, envVars, apiVars, handlerVars
<1>3. CASE Restart
  <2>1. /\ node' = node /\ nns' = nns /\ work' = Idle /\ lastState' = EmptyState
        /\ disturbed => disturbed'
    BY <1>3, Zenon DEF Restart, Event
  <2> QED
    BY <2>1, MemoryStays, Zenon
<1>4. CASE DeleteNNS \/ RemoveNode
  <2>1. disturbed'
    BY <1>4, Disturbs DEF DeleteNNS, RemoveNode, Disturbing
  <2> QED
    BY <2>1, Zenon DEF MemoryInv
<1>5. CASE AddNode \/ CollectNNS
  <2>1. disturbed
    BY <1>5, Zenon DEF AddNode, CollectNNS, MemoryInv
  <2>2. disturbed'
    BY <1>5, <2>1, Zenon DEF AddNode, CollectNNS, envVars
  <2> QED
    BY <2>2, Zenon DEF MemoryInv
<1> QED
  BY <1>2, <1>3, <1>4, <1>5, ReconcileMemory, InitializeMemory, UpdateMemory, RefreshMemory, Zenon
  DEF NodeNext, HandlerSteps

\* A step of the metrics or of what they follow.
LEMMA QuietForTheNode ==
    ASSUME [Next]_vars
    PROVE  NodeNext \/ (UNCHANGED <<node, apiVars, handlerVars>> /\ (disturbed => disturbed'))
<1> DEFINE Quiet == UNCHANGED <<node, apiVars, handlerVars>> /\ (disturbed => disturbed')
<1> SUFFICES NodeNext \/ Quiet
  OBVIOUS
<1>1. ASSUME NEW e \in Enactments, WriteEnactment(e) PROVE Quiet
  BY <1>1, Zenon DEF WriteEnactment, Write, Event
<1>2. ASSUME NEW p \in Policies, WritePolicy(p) PROVE Quiet
  BY <1>2, Zenon DEF WritePolicy, Write, Event
<1>3. CASE RestartMetrics
  BY <1>3, Zenon DEF RestartMetrics, Event
<1>4. UNCHANGED nodeVars => Quiet
  <2> SUFFICES ASSUME UNCHANGED nodeVars PROVE Quiet
    OBVIOUS
  <2>1. UNCHANGED <<node, apiVars, handlerVars>>
    BY DEF nodeVars, apiVars, handlerVars
  <2> QED
    BY <2>1, Zenon DEF nodeVars
<1>5. CASE ReconcileNNS \/ ReportFeatures \/ ReportEnactmentStatus \/ ReportPolicyStatus
  BY <1>4, <1>5, Zenon DEF ReconcileNNS, ReportFeatures, ReportEnactmentStatus, ReportPolicyStatus, Runs
<1> HIDE DEF Quiet
<1>6. UNCHANGED vars => UNCHANGED nodeVars
  BY DEF vars
<1> QED
  BY <1>1, <1>2, <1>3, <1>4, <1>5, <1>6, Zenon DEF Next

\* A Reconcile that writes nothing while nothing disturbed the report leaves an
\* NNS that shows the state of the node, whatever states the node goes through
\* and whichever writes were refused (node_controller.go Reconcile).
THEOREM SilenceIsReport ==
    ASSUME NEW V, HostStates \subseteq States(V)
    PROVE  Spec => SilenceMeansReported
<1> DEFINE Silent == Reconcile /\ node # 0 /\ work' = Idle /\ ~disturbed'
           Inv == ReportInv /\ LatestInv /\ MemoryInv
<1>1. Init => Inv
  <2>1. NodeInit => LatestInv
    BY DEF NodeInit, LatestInv
  <2>2. NodeInit => MemoryInv
    BY DEF NodeInit, MemoryInv, NoNNS, Exists, Idle
  <2> QED
    BY <2>1, <2>2, ReportInit DEF Init
<1>2. Inv /\ [Next]_vars => Inv'
  <2> SUFFICES ASSUME Inv, [Next]_vars PROVE LatestInv' /\ MemoryInv'
    BY ReportStep
  <2>1. CASE UNCHANGED <<node, apiVars, handlerVars>> /\ (disturbed => disturbed')
    <3>1. LatestInv'
      BY <2>1 DEF apiVars, handlerVars, LatestInv
    <3>2. MemoryInv'
      BY <2>1, MemoryStays, Zenon DEF apiVars, handlerVars
    <3> QED
      BY <3>1, <3>2
  <2>2. CASE NodeNext
    BY <2>2, LatestStep, MemoryStep
  <2> QED
    BY <2>1, <2>2, QuietForTheNode
<1>3. Inv /\ [Next]_vars => [Silent => nns.status = filterOut(host)]_nodeVars
  <2> SUFFICES ASSUME Inv, Silent PROVE nns.status = filterOut(host)
    BY Zenon
  <2> DEFINE s == filterOut(host)
  <2>1. ~disturbed /\ cached = nns
    BY Zenon DEF Reconcile, LatestInv
  <2>2. s # EmptyState
    <3>1. s \in Reports
      BY NodeTypes DEF ReportInv, Reports
    <3> QED
      BY <3>1, ReportsAreFilled
  <2>3. lastState \in {EmptyState, nns.status}
    BY <2>1, Zenon DEF MemoryInv
  <2>4. Unchanged(s) \/ (Exists(cached) /\ cached.status = s) \/ work'.at \in {"create", "update"}
    BY DEF Reconcile
  <2>5. work'.at = "idle"
    BY DEF Idle
  <2> QED
    BY <2>1, <2>2, <2>3, <2>4, <2>5 DEF Unchanged
<1> HIDE DEF Inv, Silent
<1> QED
  BY <1>1, <1>2, <1>3, PTL DEF Spec, SilenceMeansReported, Silent

-----------------------------------------------------------------------------
(* Gauges *)

GaugeNames == {"interfaces", "routes", "features", "status", "policies"}

OldNames == {"interfaces", "routes", "features", "nodes"}

GaugeInv ==
    /\ DOMAIN gauges = GaugeNames /\ DOMAIN old = OldNames
    /\ GaugesAreRemembered

\* When all that is exported is remembered, what is exported next is what was
\* counted.
LEMMA RefreshedDomain ==
    ASSUME NEW gauge, NEW numbers, NEW remembered, DOMAIN gauge = remembered
    PROVE  DOMAIN Refreshed(gauge, numbers, remembered) = DOMAIN numbers
BY SMTT(30) DEF Refreshed

\* A process starts with no gauges and no memory of any.
LEMMA NothingIsRemembered ==
    ASSUME gauges = NoGauges, old = NothingOld
    PROVE  GaugeInv
BY DEF NoGauges, NothingOld, NoGauge, GaugeInv, GaugesAreRemembered, GaugeNames, OldNames

\* So does a restarted one.
LEMMA NothingIsRememberedNext ==
    ASSUME gauges' = NoGauges, old' = NothingOld
    PROVE  GaugeInv'
BY DEF NoGauges, NothingOld, NoGauge, GaugeInv, GaugesAreRemembered, GaugeNames, OldNames

\* The controller of the NNS.
LEMMA NNSGauges == ASSUME GaugeInv, ReconcileNNS PROVE GaugeInv'
<1> DEFINE ifaces == CountInterfacesByType(nns.status)
           routes == CountRoutes(nns.status)
<1>1. /\ gauges' = [gauges EXCEPT !.interfaces = Refreshed(gauges.interfaces, ifaces, old.interfaces),
                                  !.routes = Refreshed(gauges.routes, routes, old.routes)]
      /\ old' = [old EXCEPT !.interfaces = DOMAIN ifaces, !.routes = DOMAIN routes]
  BY Zenon DEF ReconcileNNS, updateNodeInterfaceMetrics, updateNodeRouteMetrics
<1> HIDE DEF ifaces, routes
<1>2. /\ DOMAIN Refreshed(gauges.interfaces, ifaces, old.interfaces) = DOMAIN ifaces
      /\ DOMAIN Refreshed(gauges.routes, routes, old.routes) = DOMAIN routes
  BY RefreshedDomain DEF GaugeInv, GaugesAreRemembered
<1> QED
  BY <1>1, <1>2 DEF GaugeInv, GaugesAreRemembered, GaugeNames, OldNames

\* The controller of the features.
LEMMA FeatureGauges == ASSUME GaugeInv, ReportFeatures PROVE GaugeInv'
<1> DEFINE numbers == [f \in newFeatures |-> 1]
<1>1. /\ gauges' = [gauges EXCEPT !.features = Refreshed(gauges.features, numbers, old.features)]
      /\ old' = [old EXCEPT !.features = newFeatures]
  BY DEF ReportFeatures, GaugeInv, GaugeNames
<1>2. DOMAIN numbers = newFeatures
  OBVIOUS
<1> HIDE DEF numbers
<1>3. DOMAIN Refreshed(gauges.features, numbers, old.features) = newFeatures
  BY <1>2, RefreshedDomain DEF GaugeInv, GaugesAreRemembered
<1> QED
  BY <1>1, <1>3 DEF GaugeInv, GaugesAreRemembered, GaugeNames, OldNames

\* The controller of the enactments' conditions.
LEMMA StatusGauges == ASSUME GaugeInv, ReportEnactmentStatus PROVE GaugeInv'
<1> DEFINE numbers == [k \in newNodes \X EnactmentConditionTypes |-> counts(k[1], k[2])]
           kept == old.nodes \X EnactmentConditionTypes
<1>1. /\ gauges' = [gauges EXCEPT !.status = Refreshed(gauges.status, numbers, kept)]
      /\ old' = [old EXCEPT !.nodes = newNodes]
  BY DEF ReportEnactmentStatus, GaugeInv, GaugeNames
<1>2. DOMAIN numbers = newNodes \X EnactmentConditionTypes /\ DOMAIN gauges.status = kept
  BY DEF GaugeInv, GaugesAreRemembered
<1> HIDE DEF numbers, kept
<1>3. DOMAIN Refreshed(gauges.status, numbers, kept) = newNodes \X EnactmentConditionTypes
  BY <1>2, RefreshedDomain
<1> QED
  BY <1>1, <1>3 DEF GaugeInv, GaugesAreRemembered, GaugeNames, OldNames

\* A step keeps what is exported remembered.
LEMMA GaugeStep ==
    ASSUME GaugeInv, [Next]_vars
    PROVE  GaugeInv'
<1>1. CASE UNCHANGED <<gauges, old>>
  BY <1>1 DEF GaugeInv, GaugesAreRemembered
<1>2. CASE ReportPolicyStatus
  <2>1. /\ old' = old /\ DOMAIN gauges' = DOMAIN gauges
        /\ \A k \in GaugeNames \ {"policies"} : gauges'[k] = gauges[k]
    BY <1>2 DEF ReportPolicyStatus, GaugeInv
  <2> QED
    BY <2>1 DEF GaugeInv, GaugesAreRemembered, GaugeNames
<1>3. CASE RestartMetrics
  BY <1>3, NothingIsRememberedNext, Zenon DEF RestartMetrics
<1>4. CASE NodeNext /\ SeeNNS
  BY <1>1, <1>4, Zenon DEF SeeNNS
<1>5. ASSUME NEW e \in Enactments, WriteEnactment(e) PROVE GaugeInv'
  BY <1>1, <1>5, Zenon DEF WriteEnactment, Write
<1>6. ASSUME NEW p \in Policies, WritePolicy(p) PROVE GaugeInv'
  BY <1>1, <1>6, Zenon DEF WritePolicy, Write
<1> QED
  BY <1>1, <1>2, <1>3, <1>4, <1>5, <1>6, NNSGauges, FeatureGauges, StatusGauges, Zenon
     DEF Next, vars, metricsVars

\* A controller remembers every gauge it has set, whatever objects there are and
\* whatever was missed or done twice (the old* fields of controllers/metrics).
THEOREM EveryGaugeIsRemembered == Spec => []GaugesAreRemembered
<1>1. Init => GaugeInv
  BY NothingIsRemembered DEF Init
<1>2. GaugeInv /\ [Next]_vars => GaugeInv'
  BY GaugeStep
<1>3. GaugeInv => GaugesAreRemembered
  BY DEF GaugeInv
<1> QED
  BY <1>1, <1>2, <1>3, PTL DEF Spec

\* The types of the objects that the metrics count.
ObjectTypes == /\ enactments \in [Enactments -> EnactmentValues \cup {Absent}]
               /\ policies \in [Policies -> PolicyValues \cup {Absent}]
               /\ due \subseteq Controllers
               /\ written \in BOOLEAN

\* Every step keeps them.
LEMMA ObjectTypesNext ==
    ASSUME ObjectTypes, [Next]_vars
    PROVE  ObjectTypes'
<1>1. CASE UNCHANGED vars
  BY <1>1 DEF vars, metricsVars, ObjectTypes
<1>2. CASE NodeNext /\ SeeNNS
  BY <1>2 DEF SeeNNS, DueWhen, Controllers, ObjectTypes
<1>3. ASSUME NEW c, Runs(c) PROVE ObjectTypes'
  BY <1>3 DEF Runs, ObjectTypes
<1>4. CASE RestartMetrics
  BY <1>4 DEF RestartMetrics, DueWhen, Controllers, ObjectTypes
<1>5. ASSUME NEW e \in Enactments, WriteEnactment(e) PROVE ObjectTypes'
  <2>1. PICK after \in (EnactmentValues \cup {Absent}) \ {enactments[e]} : WriteEnactment(e)!(after)
    BY <1>5, Zenon DEF WriteEnactment
  <2>2. /\ enactments' = [enactments EXCEPT ![e] = after] /\ policies' = policies
        /\ written' = TRUE /\ due' \subseteq due \cup {"features", "status"}
    BY <2>1 DEF Write, DueWhen
  <2> QED
    BY <2>2 DEF Controllers, ObjectTypes
<1>6. ASSUME NEW p \in Policies, WritePolicy(p) PROVE ObjectTypes'
  <2>1. PICK after \in (PolicyValues \cup {Absent}) \ {policies[p]} : WritePolicy(p)!(after)
    BY <1>6, Zenon DEF WritePolicy
  <2>2. /\ policies' = [policies EXCEPT ![p] = after] /\ enactments' = enactments
        /\ written' = TRUE /\ due' \subseteq due \cup {"policies"}
    BY <2>1 DEF Write, DueWhen
  <2> QED
    BY <2>2 DEF Controllers, ObjectTypes
<1>7. CASE ReconcileNNS \/ ReportFeatures \/ ReportEnactmentStatus \/ ReportPolicyStatus
  BY <1>3, <1>7, Zenon DEF ReconcileNNS, ReportFeatures, ReportEnactmentStatus, ReportPolicyStatus
<1> QED
  BY <1>1, <1>2, <1>4, <1>5, <1>6, <1>7, Zenon DEF Next

\* Every step of the node controller, of the metrics process and of what is
\* around them keeps the types.
THEOREM ReportTypes == Spec => []TypeOK
<1>1. Init => ReportInv /\ ObjectTypes
  <2>1. Init => ObjectTypes
    BY ZenonT(30) DEF Init, ObjectTypes
  <2> QED
    BY <2>1, ReportInit
<1>2. ObjectTypes /\ [Next]_vars => ObjectTypes'
  BY ObjectTypesNext
<1>3. ReportInv /\ ObjectTypes => TypeOK
  BY DEF ReportInv, ObjectTypes, TypeOK
<1>4. ReportInv /\ [Next]_vars => ReportInv'
  BY ReportStep
<1> QED
  BY <1>1, <1>2, <1>3, <1>4, PTL DEF Spec

-----------------------------------------------------------------------------
(* Numbers *)

\* When all that is exported is remembered, what is exported next is what was
\* counted, with its numbers.
LEMMA RefreshedNumbers ==
    ASSUME NEW gauge, NEW numbers, numbers = [k \in DOMAIN numbers |-> numbers[k]]
    PROVE  Refreshed(gauge, numbers, DOMAIN gauge) = numbers
<1>1. (DOMAIN gauge \ (DOMAIN gauge \ DOMAIN numbers)) \cup DOMAIN numbers = DOMAIN numbers
  OBVIOUS
<1>2. Refreshed(gauge, numbers, DOMAIN gauge)
        = [k \in DOMAIN numbers |-> IF k \in DOMAIN numbers THEN numbers[k] ELSE gauge[k]]
  BY <1>1, Zenon DEF Refreshed
<1>3. @ = [k \in DOMAIN numbers |-> numbers[k]]
  OBVIOUS
<1> QED
  BY <1>2, <1>3, Zenon

\* There is nothing to count in an NNS that nobody has filled in.
LEMMA NothingToCount ==
    /\ CountInterfacesByType(EmptyState) = NoGauge
    /\ CountRoutes(EmptyState) = NoGauge
<1>1. EmptyState.ifaces = {} /\ EmptyState.running = {}
  BY DEF EmptyState
<1>2. { i.type : i \in EmptyState.ifaces } \ {""} = {}
  BY <1>1, Zenon
<1>3. { RouteKey(r, EmptyState) : r \in EmptyState.running } = {}
  BY <1>1, Zenon
<1>4. ASSUME NEW D, D = {} PROVE [t \in D |-> Cardinality({ i \in EmptyState.ifaces : i.type = t })] = NoGauge
  BY <1>4 DEF NoGauge
<1>5. ASSUME NEW D, D = {}
      PROVE [k \in D |-> Cardinality({ r \in EmptyState.running : RouteKey(r, EmptyState) = k })] = NoGauge
  BY <1>5 DEF NoGauge
<1>6. CountInterfacesByType(EmptyState) = NoGauge
  BY <1>2, <1>4, Zenon DEF CountInterfacesByType
<1>7. CountRoutes(EmptyState) = NoGauge
  BY <1>3, <1>5, Zenon DEF CountRoutes
<1> QED
  BY <1>6, <1>7

\* An NNS that is not there has not been filled in.
LEMMA GoneIsEmpty ==
    ASSUME ReportInv, ~Exists(nns)
    PROVE  nns.status = EmptyState
BY DEF ReportInv, ObjectsInv, Objects, Exists, NoNNS

\* The same after a step.
LEMMA GoneIsEmptyNext ==
    ASSUME ReportInv', ~Exists(nns')
    PROVE  nns'.status = EmptyState
BY DEF ReportInv, ObjectsInv, Objects, Exists, NoNNS

\* A process starts without gauges.
LEMMA NoGaugesNames ==
    /\ NoGauges.interfaces = NoGauge /\ NoGauges.routes = NoGauge
    /\ NoGauges.features = NoGauge /\ NoGauges.status = NoGauge
    /\ NoGauges.policies = NoGauge
    /\ DOMAIN NoGauge = {}
BY DEF NoGauges, NoGauge

\* The gauges of the NNS are true unless their controller has a request.
LEMMA NNSLag ==
    ASSUME ReportInv, ReportInv', GaugeInv, "nns" \in due \/ NNSGaugesAreTrue, [Next]_vars
    PROVE  ("nns" \in due \/ NNSGaugesAreTrue)'
<1>1. CASE /\ gauges'.interfaces = gauges.interfaces /\ gauges'.routes = gauges.routes
           /\ nns'.status = nns.status /\ ("nns" \in due => "nns" \in due')
  BY <1>1, Zenon DEF NNSGaugesAreTrue
<1>2. CASE NodeNext /\ SeeNNS
  <2>1. gauges' = gauges /\ due' = due \cup DueWhen("nns", onCreationOrUpdateForThisNNS(nns, nns'))
    BY <1>2, Zenon DEF SeeNNS
  <2>2. CASE onCreationOrUpdateForThisNNS(nns, nns')
    BY <2>1, <2>2 DEF DueWhen
  <2>3. CASE ~onCreationOrUpdateForThisNNS(nns, nns')
    <3>1. nns'.status = nns.status
      BY <2>3, GoneIsEmpty, GoneIsEmptyNext, Zenon DEF onCreationOrUpdateForThisNNS
    <3> QED
      BY <1>1, <2>1, <3>1, Zenon
  <2> QED
    BY <2>2, <2>3
<1>3. CASE ReconcileNNS
  <2> DEFINE ifaces == CountInterfacesByType(nns.status)
             routes == CountRoutes(nns.status)
  <2>1. /\ gauges' = [gauges EXCEPT !.interfaces = Refreshed(gauges.interfaces, ifaces, old.interfaces),
                                    !.routes = Refreshed(gauges.routes, routes, old.routes)]
        /\ nns' = nns
    BY <1>3, Zenon DEF ReconcileNNS, updateNodeInterfaceMetrics, updateNodeRouteMetrics, Runs, nodeVars
  <2>2. /\ ifaces = [k \in DOMAIN ifaces |-> ifaces[k]] /\ routes = [k \in DOMAIN routes |-> routes[k]]
    BY Zenon DEF CountInterfacesByType, CountRoutes
  <2> HIDE DEF ifaces, routes
  <2>3. /\ Refreshed(gauges.interfaces, ifaces, old.interfaces) = ifaces
        /\ Refreshed(gauges.routes, routes, old.routes) = routes
    <3>1. old.interfaces = DOMAIN gauges.interfaces /\ old.routes = DOMAIN gauges.routes
      BY DEF GaugeInv, GaugesAreRemembered
    <3>2. Refreshed(gauges.interfaces, ifaces, DOMAIN gauges.interfaces) = ifaces
      BY <2>2, RefreshedNumbers
    <3>3. Refreshed(gauges.routes, routes, DOMAIN gauges.routes) = routes
      BY <2>2, RefreshedNumbers
    <3> QED
      BY <3>1, <3>2, <3>3
  <2>4. gauges'.interfaces = ifaces /\ gauges'.routes = routes
    BY <2>1, <2>3 DEF GaugeInv, GaugeNames
  <2> QED
    BY <2>1, <2>4, Zenon DEF NNSGaugesAreTrue, ifaces, routes
<1>4. CASE ReportFeatures \/ ReportEnactmentStatus \/ ReportPolicyStatus
  <2>1. gauges'.interfaces = gauges.interfaces /\ gauges'.routes = gauges.routes
    BY <1>4 DEF ReportFeatures, ReportEnactmentStatus, ReportPolicyStatus, GaugeInv, GaugeNames
  <2>2. nns' = nns
    BY <1>4, Zenon DEF ReportFeatures, ReportEnactmentStatus, ReportPolicyStatus, Runs, nodeVars
  <2>3. "nns" \in due => "nns" \in due'
    BY <1>4 DEF ReportFeatures, ReportEnactmentStatus, ReportPolicyStatus, Runs
  <2> QED
    BY <1>1, <2>1, <2>2, <2>3, Zenon
<1>5. CASE RestartMetrics
  <2>1. nns' = nns /\ gauges' = NoGauges /\ (Exists(nns) => "nns" \in due')
    BY <1>5 DEF RestartMetrics, apiVars, DueWhen
  <2>2. ~Exists(nns) => gauges'.interfaces = CountInterfacesByType(nns.status)
                        /\ gauges'.routes = CountRoutes(nns.status)
    BY <2>1, NothingToCount, NoGaugesNames, GoneIsEmpty, Zenon
  <2> QED
    BY <2>1, <2>2, Zenon DEF NNSGaugesAreTrue
<1>6. CASE UNCHANGED <<nns, gauges>> /\ due \subseteq due'
  BY <1>1, <1>6
<1>7. ASSUME NEW e \in Enactments, WriteEnactment(e) PROVE UNCHANGED <<nns, gauges>> /\ due \subseteq due'
  BY <1>7, ZenonT(30) DEF WriteEnactment, Write, apiVars
<1>8. ASSUME NEW p \in Policies, WritePolicy(p) PROVE UNCHANGED <<nns, gauges>> /\ due \subseteq due'
  BY <1>8, ZenonT(30) DEF WritePolicy, Write, apiVars
<1>9. CASE UNCHANGED vars
  BY <1>6, <1>9 DEF vars, nodeVars, metricsVars
<1> QED
  BY <1>2, <1>3, <1>4, <1>5, <1>6, <1>7, <1>8, <1>9, Zenon DEF Next

\* A write of an enactment, as far as the metrics see it: what is filtered out
\* is an update of an enactment that stays.
LEMMA EnactmentWritten ==
    ASSUME ObjectTypes, NEW e \in Enactments, WriteEnactment(e)
    PROVE  /\ gauges' = gauges /\ policies' = policies /\ due \subseteq due'
           /\ Existing(enactments) \subseteq Enactments /\ Existing(enactments') \subseteq Enactments
           /\ \A d \in Enactments \ {e} : enactments'[d] = enactments[d]
           /\ \/ "features" \in due'
              \/ Present(enactments[e]) /\ Present(enactments'[e])
                 /\ enactments'[e].features = enactments[e].features
           /\ \/ "status" \in due'
              \/ Present(enactments[e]) /\ Present(enactments'[e])
                 /\ activeConditionType(enactments'[e]) = activeConditionType(enactments[e])
<1>1. PICK after \in (EnactmentValues \cup {Absent}) \ {enactments[e]} : WriteEnactment(e)!(after)
  BY Zenon DEF WriteEnactment
<1>2. /\ enactments' = [enactments EXCEPT ![e] = after] /\ policies' = policies /\ gauges' = gauges
      /\ due' = due \cup DueWhen("features", onCreationOrUpdateForThisEnactment(enactments[e], after))
                    \cup DueWhen("status", conditionChangePredicate(enactments[e], after))
  BY <1>1, Zenon DEF Write
<1>3. enactments'[e] = after /\ \A d \in Enactments \ {e} : enactments'[d] = enactments[d]
  BY <1>2 DEF ObjectTypes
<1>4. DOMAIN enactments = Enactments /\ DOMAIN enactments' = Enactments
  BY <1>2 DEF ObjectTypes
<1>5. /\ onCreationOrUpdateForThisEnactment(enactments[e], after) => "features" \in due'
      /\ conditionChangePredicate(enactments[e], after) => "status" \in due'
  BY <1>2 DEF DueWhen
<1>6. after # enactments[e]
  OBVIOUS
<1>7. Present(enactments[e]) \/ Present(after)
  BY <1>6, Zenon DEF Present
<1>8. \/ onCreationOrUpdateForThisEnactment(enactments[e], after)
      \/ Present(enactments[e]) /\ Present(after) /\ after.features = enactments[e].features
  BY <1>7, Zenon DEF onCreationOrUpdateForThisEnactment, Notices, featuresChanged
<1>9. \/ conditionChangePredicate(enactments[e], after)
      \/ Present(enactments[e]) /\ Present(after)
         /\ activeConditionType(after) = activeConditionType(enactments[e])
  BY <1>7, Zenon DEF conditionChangePredicate, Notices, activeConditionChanged
<1>10. due \subseteq due'
  BY <1>2, Zenon
<1>11. Existing(enactments) \subseteq Enactments /\ Existing(enactments') \subseteq Enactments
  BY <1>4 DEF Existing
<1> QED
  BY <1>2, <1>3, <1>5, <1>8, <1>9, <1>10, <1>11, Zenon

\* The same for a policy.
LEMMA PolicyWritten ==
    ASSUME ObjectTypes, NEW p \in Policies, WritePolicy(p)
    PROVE  /\ gauges' = gauges /\ enactments' = enactments /\ due \subseteq due'
           /\ DOMAIN policies = Policies /\ DOMAIN policies' = Policies
           /\ \A d \in Policies \ {p} : policies'[d] = policies[d]
           /\ \/ "policies" \in due'
              \/ Present(policies[p]) /\ Present(policies'[p])
                 /\ activeConditionType(policies'[p]) = activeConditionType(policies[p])
<1>1. PICK after \in (PolicyValues \cup {Absent}) \ {policies[p]} : WritePolicy(p)!(after)
  BY Zenon DEF WritePolicy
<1>2. /\ policies' = [policies EXCEPT ![p] = after] /\ enactments' = enactments /\ gauges' = gauges
      /\ due' = due \cup DueWhen("policies", conditionChangePredicate(policies[p], after))
  BY <1>1, Zenon DEF Write
<1>3. policies'[p] = after /\ \A d \in Policies \ {p} : policies'[d] = policies[d]
  BY <1>2 DEF ObjectTypes
<1>4. DOMAIN policies = Policies /\ DOMAIN policies' = Policies
  BY <1>2 DEF ObjectTypes
<1>5. conditionChangePredicate(policies[p], after) => "policies" \in due'
  BY <1>2 DEF DueWhen
<1>6. Present(policies[p]) \/ Present(after)
  BY Zenon DEF Present
<1>7. \/ conditionChangePredicate(policies[p], after)
      \/ Present(policies[p]) /\ Present(after)
         /\ activeConditionType(after) = activeConditionType(policies[p])
  BY <1>6, Zenon DEF conditionChangePredicate, Notices, activeConditionChanged
<1>8. due \subseteq due'
  BY <1>2, Zenon
<1> QED
  BY <1>2, <1>3, <1>4, <1>5, <1>7, <1>8, Zenon

\* A step that is no write of an enactment or a policy and no report.
LEMMA OtherLag ==
    ASSUME (NodeNext /\ SeeNNS) \/ UNCHANGED vars \/ ReconcileNNS, GaugeInv
    PROVE  /\ gauges'.features = gauges.features /\ gauges'.status = gauges.status
           /\ gauges'.policies = gauges.policies
           /\ enactments' = enactments /\ policies' = policies
           /\ due \subseteq due' \cup {"nns"}
<1>1. CASE NodeNext /\ SeeNNS
  BY <1>1, Zenon DEF SeeNNS
<1>2. CASE UNCHANGED vars
  BY <1>2 DEF vars, metricsVars
<1>3. CASE ReconcileNNS
  <2>1. enactments' = enactments /\ policies' = policies /\ due \subseteq due' \cup {"nns"}
    BY <1>3, Zenon DEF ReconcileNNS, Runs
  <2>2. /\ gauges'.features = gauges.features /\ gauges'.status = gauges.status
        /\ gauges'.policies = gauges.policies
    BY <1>3 DEF ReconcileNNS, GaugeInv, GaugeNames
  <2> QED
    BY <2>1, <2>2
<1> QED
  BY <1>1, <1>2, <1>3

\* A process that has just started is told of all objects there are.
LEMMA RestartLag ==
    ASSUME RestartMetrics
    PROVE  /\ enactments' = enactments /\ policies' = policies
           /\ gauges'.features = NoGauge /\ gauges'.status = NoGauge /\ gauges'.policies = NoGauge
           /\ Existing(enactments) = {} \/ {"features", "status"} \subseteq due'
           /\ Existing(policies) = {} \/ "policies" \in due'
<1>1. enactments' = enactments /\ policies' = policies /\ gauges' = NoGauges
  BY Zenon DEF RestartMetrics
<1>2. /\ Existing(enactments) = {} \/ {"features", "status"} \subseteq due'
      /\ Existing(policies) = {} \/ "policies" \in due'
  BY DEF RestartMetrics, DueWhen
<1> QED
  BY <1>1, <1>2, NoGaugesNames, Zenon

\* The gauges of the features are true unless their controller has a request.
LEMMA FeatureLag ==
    ASSUME ObjectTypes, GaugeInv, "features" \in due \/ FeatureGaugesAreTrue, [Next]_vars
    PROVE  ("features" \in due \/ FeatureGaugesAreTrue)'
<1>1. CASE /\ gauges'.features = gauges.features /\ enactments' = enactments
           /\ "features" \in due => "features" \in due'
  BY <1>1, Zenon DEF FeatureGaugesAreTrue
<1>2. CASE (NodeNext /\ SeeNNS) \/ UNCHANGED vars \/ ReconcileNNS
  BY <1>1, <1>2, OtherLag
<1>3. CASE ReportFeatures
  <2>1. GaugeInv' /\ old' = [old EXCEPT !.features = newFeatures] /\ enactments' = enactments
    BY <1>3, FeatureGauges, Zenon DEF ReportFeatures, Runs
  <2>2. DOMAIN gauges'.features = newFeatures
    BY <2>1 DEF GaugeInv, GaugesAreRemembered, OldNames
  <2> QED
    BY <2>1, <2>2, Zenon DEF newFeatures, FeatureGaugesAreTrue
<1>4. CASE ReportEnactmentStatus \/ ReportPolicyStatus
  <2>1. gauges'.features = gauges.features
    BY <1>4 DEF ReportEnactmentStatus, ReportPolicyStatus, GaugeInv, GaugeNames
  <2>2. enactments' = enactments
    BY <1>4, Zenon DEF ReportEnactmentStatus, ReportPolicyStatus, Runs
  <2>3. "features" \in due => "features" \in due'
    BY <1>4 DEF ReportEnactmentStatus, ReportPolicyStatus, Runs
  <2> QED
    BY <1>1, <2>1, <2>2, <2>3, Zenon
<1>5. CASE RestartMetrics
  <2>1. Existing(enactments) = {} => UNION { enactments[e].features : e \in Existing(enactments) } = {}
    BY Zenon
  <2> QED
    BY <1>5, <2>1, RestartLag, NoGaugesNames DEF FeatureGaugesAreTrue
<1>6. ASSUME NEW e \in Enactments, WriteEnactment(e) PROVE ("features" \in due \/ FeatureGaugesAreTrue)'
  <2>1. /\ gauges' = gauges /\ due \subseteq due'
        /\ Existing(enactments) \subseteq Enactments /\ Existing(enactments') \subseteq Enactments
        /\ \A d \in Enactments \ {e} : enactments'[d] = enactments[d]
        /\ \/ "features" \in due'
           \/ Present(enactments[e]) /\ Present(enactments'[e])
              /\ enactments'[e].features = enactments[e].features
    BY <1>6, EnactmentWritten, Zenon
  <2>2. CASE "features" \notin due'
    <3>1. FeatureGaugesAreTrue
      BY <2>1, <2>2, Zenon
    <3>2. ASSUME NEW d \in Enactments
          PROVE  /\ enactments'[d].features = enactments[d].features
                 /\ Present(enactments'[d]) <=> Present(enactments[d])
      <4>1. CASE d = e
        BY <2>1, <2>2, <4>1, Zenon
      <4>2. CASE d # e
        <5>1. enactments'[d] = enactments[d]
          BY <2>1, <4>2, Zenon
        <5> QED
          BY <5>1, Zenon
      <4> QED
        BY <4>1, <4>2
    <3>3. DOMAIN enactments = Enactments /\ DOMAIN enactments' = Enactments
      BY ObjectTypesNext DEF ObjectTypes
    <3>4. Existing(enactments') = Existing(enactments)
      BY <3>2, <3>3, Zenon DEF Existing
    <3>5. UNION { enactments'[d].features : d \in Existing(enactments') }
            = UNION { enactments[d].features : d \in Existing(enactments) }
      BY <2>1, <3>2, <3>4
    <3> QED
      BY <2>1, <3>1, <3>5, Zenon DEF FeatureGaugesAreTrue
  <2> QED
    BY <2>2
<1>7. ASSUME NEW p \in Policies, WritePolicy(p) PROVE ("features" \in due \/ FeatureGaugesAreTrue)'
  BY <1>1, <1>7, PolicyWritten, Zenon
<1> QED
  BY <1>2, <1>3, <1>4, <1>5, <1>6, <1>7, Zenon DEF Next

\* The enactments and policies that are counted under a label.
Labelled(n, t) ==
    { e \in Existing(enactments) :
        n # "" /\ NodeLabel[e] = n /\ activeConditionType(enactments[e]) = t }

Conditioned(t) == { p \in Existing(policies) : activeConditionType(policies[p]) = t }

\* What the controller of the enactments' conditions sets.
LEMMA StatusNumbers ==
    ASSUME GaugeInv, ReportEnactmentStatus,
           NEW n \in { NodeLabel[e] : e \in Enactments }, NEW t \in EnactmentConditionTypes
    PROVE  Value(gauges'.status, <<n, t>>) = Cardinality(Labelled(n, t))
<1> DEFINE numbers == [k \in newNodes \X EnactmentConditionTypes |-> counts(k[1], k[2])]
           kept == old.nodes \X EnactmentConditionTypes
<1>1. gauges' = [gauges EXCEPT !.status = Refreshed(gauges.status, numbers, kept)]
  BY DEF ReportEnactmentStatus, GaugeInv, GaugeNames
<1>2. DOMAIN gauges.status = kept
  BY DEF GaugeInv, GaugesAreRemembered
<1>3. numbers = [k \in DOMAIN numbers |-> numbers[k]] /\ DOMAIN numbers = newNodes \X EnactmentConditionTypes
  BY Zenon
<1>4. <<n, t>> \in DOMAIN numbers <=> n \in newNodes
  BY <1>3
<1>5. n \in newNodes => numbers[<<n, t>>] = counts(n, t)
  OBVIOUS
<1> HIDE DEF numbers, kept
<1>6. gauges'.status = numbers
  <2>1. Refreshed(gauges.status, numbers, DOMAIN gauges.status) = numbers
    BY <1>3, RefreshedNumbers
  <2> QED
    BY <1>1, <1>2, <2>1 DEF GaugeInv, GaugeNames
<1>7. CASE n \in newNodes
  <2>1. n # ""
    BY <1>7, Zenon DEF newNodes
  <2>2. Labelled(n, t) = { e \in Existing(enactments) :
                             NodeLabel[e] = n /\ activeConditionType(enactments[e]) = t }
    BY <2>1, Zenon DEF Labelled
  <2>3. counts(n, t) = Cardinality(Labelled(n, t))
    BY <2>2, Zenon DEF counts
  <2> QED
    BY <1>4, <1>5, <1>6, <1>7, <2>3, Zenon DEF Value
<1>8. CASE n \notin newNodes
  <2>1. Labelled(n, t) = {}
    BY <1>8, Zenon DEF Labelled, newNodes
  <2>2. Value(gauges'.status, <<n, t>>) = 0
    BY <1>4, <1>6, <1>8, Zenon DEF Value
  <2> QED
    BY <2>1, <2>2, FS_EmptySet
<1> QED
  BY <1>7, <1>8

\* The gauges of the enactments' conditions are true unless their controller has
\* a request.
LEMMA StatusLag ==
    ASSUME ObjectTypes, GaugeInv, "status" \in due \/ StatusGaugesAreTrue, [Next]_vars
    PROVE  ("status" \in due \/ StatusGaugesAreTrue)'
<1>1. CASE /\ gauges'.status = gauges.status /\ enactments' = enactments
           /\ "status" \in due => "status" \in due'
  BY <1>1, Zenon DEF StatusGaugesAreTrue
<1>2. CASE (NodeNext /\ SeeNNS) \/ UNCHANGED vars \/ ReconcileNNS
  BY <1>1, <1>2, OtherLag
<1>3. CASE ReportEnactmentStatus
  <2>1. enactments' = enactments
    BY <1>3, Zenon DEF ReportEnactmentStatus, Runs
  <2>2. \A n \in { NodeLabel[e] : e \in Enactments }, t \in EnactmentConditionTypes :
            Value(gauges'.status, <<n, t>>) = Cardinality(Labelled(n, t))
    BY <1>3, StatusNumbers, Zenon
  <2> QED
    BY <2>1, <2>2, Zenon DEF Labelled, StatusGaugesAreTrue
<1>4. CASE ReportFeatures \/ ReportPolicyStatus
  <2>1. gauges'.status = gauges.status
    BY <1>4 DEF ReportFeatures, ReportPolicyStatus, GaugeInv, GaugeNames
  <2>2. enactments' = enactments
    BY <1>4, Zenon DEF ReportFeatures, ReportPolicyStatus, Runs
  <2>3. "status" \in due => "status" \in due'
    BY <1>4 DEF ReportFeatures, ReportPolicyStatus, Runs
  <2> QED
    BY <1>1, <2>1, <2>2, <2>3, Zenon
<1>5. CASE RestartMetrics
  <2>1. CASE Existing(enactments) = {}
    <3>1. enactments' = enactments /\ gauges'.status = NoGauge
      BY <1>5, RestartLag
    <3>2. \A n, t : Value(NoGauge, <<n, t>>) = 0
      BY NoGaugesNames, Zenon DEF Value
    <3>3. \A n, t : Labelled(n, t) = {}
      BY <2>1, Zenon DEF Labelled
    <3>4. Cardinality({}) = 0
      BY FS_EmptySet
    <3>5. \A n \in { NodeLabel[e] : e \in Enactments }, t \in EnactmentConditionTypes :
              Value(gauges'.status, <<n, t>>) = Cardinality(Labelled(n, t))
      BY <3>1, <3>2, <3>3, <3>4, Zenon
    <3> QED
      BY <3>1, <3>5, Zenon DEF Labelled, StatusGaugesAreTrue
  <2> QED
    BY <1>5, <2>1, RestartLag
<1>6. ASSUME NEW e \in Enactments, WriteEnactment(e) PROVE ("status" \in due \/ StatusGaugesAreTrue)'
  <2>1. /\ gauges' = gauges /\ due \subseteq due'
        /\ \A d \in Enactments \ {e} : enactments'[d] = enactments[d]
        /\ \/ "status" \in due'
           \/ Present(enactments[e]) /\ Present(enactments'[e])
              /\ activeConditionType(enactments'[e]) = activeConditionType(enactments[e])
    BY <1>6, EnactmentWritten, Zenon
  <2>2. CASE "status" \notin due'
    <3>1. StatusGaugesAreTrue
      BY <2>1, <2>2, Zenon
    <3>2. ASSUME NEW d \in Enactments
          PROVE  /\ activeConditionType(enactments'[d]) = activeConditionType(enactments[d])
                 /\ Present(enactments'[d]) <=> Present(enactments[d])
      <4>1. CASE d = e
        BY <2>1, <2>2, <4>1, Zenon
      <4>2. CASE d # e
        <5>1. enactments'[d] = enactments[d]
          BY <2>1, <4>2, Zenon
        <5> QED
          BY <5>1, Zenon
      <4> QED
        BY <4>1, <4>2
    <3>3. DOMAIN enactments = Enactments /\ DOMAIN enactments' = Enactments
      BY ObjectTypesNext DEF ObjectTypes
    <3>4. Existing(enactments') = Existing(enactments) /\ Existing(enactments) \subseteq Enactments
      BY <3>2, <3>3, Zenon DEF Existing
    <3>5. ASSUME NEW n, NEW t PROVE Labelled(n, t)' = Labelled(n, t)
      BY <3>2, <3>4, Zenon DEF Labelled
    <3>6. \A n \in { NodeLabel[d] : d \in Enactments }, t \in EnactmentConditionTypes :
              Value(gauges.status, <<n, t>>) = Cardinality(Labelled(n, t))
      BY <3>1, Zenon DEF StatusGaugesAreTrue, Labelled
    <3>7. \A n \in { NodeLabel[d] : d \in Enactments }, t \in EnactmentConditionTypes :
              Value(gauges'.status, <<n, t>>) = Cardinality(Labelled(n, t)')
      BY <2>1, <3>5, <3>6, Zenon
    <3> QED
      BY <3>7, Zenon DEF StatusGaugesAreTrue, Labelled
  <2> QED
    BY <2>2
<1>7. ASSUME NEW p \in Policies, WritePolicy(p) PROVE ("status" \in due \/ StatusGaugesAreTrue)'
  BY <1>1, <1>7, PolicyWritten, Zenon
<1> QED
  BY <1>2, <1>3, <1>4, <1>5, <1>6, <1>7, Zenon DEF Next

\* The gauges of the policies are true unless their controller has a request.
LEMMA PolicyLag ==
    ASSUME ObjectTypes, GaugeInv, "policies" \in due \/ PolicyGaugesAreTrue, [Next]_vars
    PROVE  ("policies" \in due \/ PolicyGaugesAreTrue)'
<1>1. CASE /\ gauges'.policies = gauges.policies /\ policies' = policies
           /\ "policies" \in due => "policies" \in due'
  BY <1>1, Zenon DEF PolicyGaugesAreTrue
<1>2. CASE (NodeNext /\ SeeNNS) \/ UNCHANGED vars \/ ReconcileNNS
  BY <1>1, <1>2, OtherLag
<1>3. CASE ReportPolicyStatus
  <2> DEFINE numbers == [t \in PolicyConditionTypes |-> Cardinality(Conditioned(t))]
  <2>1. policies' = policies
    BY <1>3, Zenon DEF ReportPolicyStatus, Runs
  <2>2. gauges' = [gauges EXCEPT !.policies = Refreshed(gauges.policies, numbers, {})]
    BY <1>3 DEF ReportPolicyStatus, GaugeInv, GaugeNames, Conditioned
  <2>3. DOMAIN numbers = PolicyConditionTypes
        /\ \A t \in PolicyConditionTypes : numbers[t] = Cardinality(Conditioned(t))
    OBVIOUS
  <2> HIDE DEF numbers
  <2>4. gauges'.policies = Refreshed(gauges.policies, numbers, {})
    BY <2>2 DEF GaugeInv, GaugeNames
  <2>5. \A t \in PolicyConditionTypes : Value(gauges'.policies, t) = Cardinality(Conditioned(t))
    BY <2>3, <2>4 DEF Refreshed, Value
  <2> QED
    BY <2>1, <2>5, Zenon DEF Conditioned, PolicyGaugesAreTrue
<1>4. CASE ReportFeatures \/ ReportEnactmentStatus
  <2>1. gauges'.policies = gauges.policies
    BY <1>4 DEF ReportFeatures, ReportEnactmentStatus, GaugeInv, GaugeNames
  <2>2. policies' = policies
    BY <1>4, Zenon DEF ReportFeatures, ReportEnactmentStatus, Runs
  <2>3. "policies" \in due => "policies" \in due'
    BY <1>4 DEF ReportFeatures, ReportEnactmentStatus, Runs
  <2> QED
    BY <1>1, <2>1, <2>2, <2>3, Zenon
<1>5. CASE RestartMetrics
  <2>1. CASE Existing(policies) = {}
    <3>1. policies' = policies /\ gauges'.policies = NoGauge
      BY <1>5, RestartLag
    <3>2. \A t : Value(NoGauge, t) = 0
      BY NoGaugesNames, Zenon DEF Value
    <3>3. \A t : Conditioned(t) = {}
      BY <2>1, Zenon DEF Conditioned
    <3>4. Cardinality({}) = 0
      BY FS_EmptySet
    <3>5. \A t : Value(gauges'.policies, t) = Cardinality(Conditioned(t))
      BY <3>1, <3>2, <3>3, <3>4, Zenon
    <3> QED
      BY <3>1, <3>5, Zenon DEF Conditioned, PolicyGaugesAreTrue
  <2> QED
    BY <1>5, <2>1, RestartLag
<1>6. ASSUME NEW p \in Policies, WritePolicy(p) PROVE ("policies" \in due \/ PolicyGaugesAreTrue)'
  <2>1. /\ gauges' = gauges /\ due \subseteq due'
        /\ DOMAIN policies = Policies /\ DOMAIN policies' = Policies
        /\ \A d \in Policies \ {p} : policies'[d] = policies[d]
        /\ \/ "policies" \in due'
           \/ Present(policies[p]) /\ Present(policies'[p])
              /\ activeConditionType(policies'[p]) = activeConditionType(policies[p])
    BY <1>6, PolicyWritten, Zenon
  <2>2. CASE "policies" \notin due'
    <3>1. PolicyGaugesAreTrue
      BY <2>1, <2>2, Zenon
    <3>2. ASSUME NEW d \in Policies
          PROVE  /\ activeConditionType(policies'[d]) = activeConditionType(policies[d])
                 /\ Present(policies'[d]) <=> Present(policies[d])
      <4>1. CASE d = p
        BY <2>1, <2>2, <4>1, Zenon
      <4>2. CASE d # p
        <5>1. policies'[d] = policies[d]
          BY <2>1, <4>2, Zenon
        <5> QED
          BY <5>1, Zenon
      <4> QED
        BY <4>1, <4>2
    <3>3. Existing(policies') = Existing(policies) /\ Existing(policies) \subseteq Policies
      BY <2>1, <3>2, Zenon DEF Existing
    <3>4. ASSUME NEW t PROVE Conditioned(t)' = Conditioned(t)
      BY <3>2, <3>3, Zenon DEF Conditioned
    <3>5. \A t \in PolicyConditionTypes : Value(gauges.policies, t) = Cardinality(Conditioned(t))
      BY <3>1, Zenon DEF PolicyGaugesAreTrue, Conditioned
    <3>6. \A t \in PolicyConditionTypes : Value(gauges'.policies, t) = Cardinality(Conditioned(t)')
      BY <2>1, <3>4, <3>5, Zenon
    <3> QED
      BY <3>6, Zenon DEF PolicyGaugesAreTrue, Conditioned
  <2> QED
    BY <2>2
<1>7. ASSUME NEW e \in Enactments, WriteEnactment(e) PROVE ("policies" \in due \/ PolicyGaugesAreTrue)'
  BY <1>1, <1>7, EnactmentWritten, Zenon
<1> QED
  BY <1>2, <1>3, <1>4, <1>5, <1>6, <1>7, Zenon DEF Next

\* A gauge is off only while its controller has a request to come, whatever
\* objects there are, whatever happens to them and whenever the process is
\* restarted (the predicates of controllers/metrics).
THEOREM GaugesLag == Spec => []GaugesLagOnlyWhenDue
<1> DEFINE Inv == ReportInv /\ GaugeInv /\ ObjectTypes /\ GaugesLagOnlyWhenDue
<1>1. Init => Inv
  <2> SUFFICES ASSUME Init PROVE GaugeInv /\ ObjectTypes /\ GaugesLagOnlyWhenDue
    BY ReportInit
  <2>1. GaugeInv
    BY NothingIsRemembered DEF Init
  <2>2. ObjectTypes
    BY ZenonT(30) DEF Init, ObjectTypes
  <2>3. nns.status = EmptyState
    BY DEF Init, NodeInit, NoNNS
  <2>4. Existing(enactments) = {} /\ Existing(policies) = {}
    BY Zenon DEF Init, Existing, Present
  <2>5. gauges = NoGauges
    BY DEF Init
  <2>6. NNSGaugesAreTrue
    BY <2>3, <2>5, NothingToCount, NoGaugesNames, Zenon DEF NNSGaugesAreTrue
  <2>7. FeatureGaugesAreTrue
    <3>1. UNION { enactments[e].features : e \in Existing(enactments) } = {}
      BY <2>4, Zenon
    <3> QED
      BY <2>5, <3>1, NoGaugesNames DEF FeatureGaugesAreTrue
  <2>8. Cardinality({}) = 0 /\ \A k : Value(NoGauge, k) = 0
    BY FS_EmptySet, NoGaugesNames DEF Value
  <2>9. StatusGaugesAreTrue
    <3>1. \A n, t : { e \in Existing(enactments) :
                        n # "" /\ NodeLabel[e] = n /\ activeConditionType(enactments[e]) = t } = {}
      BY <2>4, Zenon
    <3> QED
      BY <2>5, <2>8, <3>1, NoGaugesNames, Zenon DEF StatusGaugesAreTrue
  <2>10. PolicyGaugesAreTrue
    <3>1. \A t : { p \in Existing(policies) : activeConditionType(policies[p]) = t } = {}
      BY <2>4, Zenon
    <3> QED
      BY <2>5, <2>8, <3>1, NoGaugesNames, Zenon DEF PolicyGaugesAreTrue
  <2> QED
    BY <2>1, <2>2, <2>6, <2>7, <2>9, <2>10, Zenon DEF GaugesLagOnlyWhenDue
<1>2. Inv /\ [Next]_vars => Inv'
  <2> SUFFICES ASSUME Inv, [Next]_vars PROVE Inv'
    OBVIOUS
  <2>1. ReportInv' /\ GaugeInv' /\ ObjectTypes'
    BY ReportStep, GaugeStep, ObjectTypesNext
  <2>2. ("nns" \in due \/ NNSGaugesAreTrue)'
    BY <2>1, NNSLag DEF GaugesLagOnlyWhenDue
  <2>3. ("features" \in due \/ FeatureGaugesAreTrue)'
    BY FeatureLag DEF GaugesLagOnlyWhenDue
  <2>4. ("status" \in due \/ StatusGaugesAreTrue)'
    BY StatusLag DEF GaugesLagOnlyWhenDue
  <2>5. ("policies" \in due \/ PolicyGaugesAreTrue)'
    BY PolicyLag DEF GaugesLagOnlyWhenDue
  <2> QED
    BY <2>1, <2>2, <2>3, <2>4, <2>5, Zenon DEF GaugesLagOnlyWhenDue
<1>3. Inv => GaugesLagOnlyWhenDue
  OBVIOUS
<1> HIDE DEF Inv
<1> QED
  BY <1>1, <1>2, <1>3, PTL DEF Spec
=============================================================================
