------------------------------ MODULE Operator ------------------------------
(***************************************************************************)
(* The operator: one controller that keeps a single NMState, renders the   *)
(* manifests for it and applies them in order, and reports in its status   *)
(* how the deployment is doing (controllers/operator, pkg/render).         *)
(*                                                                         *)
(* NMStates and workloads are read from caches that lag behind the API     *)
(* server; the APIServer object is read uncached; every write goes to the  *)
(* API server and may be refused.  Around the controller are the users who *)
(* create and delete NMStates, the garbage collector, the pods that read   *)
(* their TLS profile from a ConfigMap when they start, and whoever removes *)
(* or edits what has been applied.                                         *)
(*                                                                         *)
(* A manifest here stands for one or two directories of manifests, except  *)
(* that the handler's is split: files go in the order of their names, so   *)
(* the workloads (handler.yaml) go before the ConfigMap with the TLS       *)
(* profile (tls_config.yaml).  The hash on the pod template stands for the *)
(* profile it is the hash of.                                              *)
(***************************************************************************)
EXTENDS TLSProfile, Sequences

CONSTANTS
    Names,             \* names of NMStates
    SecurityProfiles,  \* values of the APIServer's tlsSecurityProfile
    FirstProfile,      \* the one at the start
    NoMatch,           \* manifests of kinds this cluster does not have
    MaxEvents,         \* bound on what happens around the controller
    Hazards            \* which of these can happen

HazardKinds ==
    {"refused", "deleteRefused", "crash", "deleted", "twins", "drift", "podsLost", "profile"}

VARIABLES
    nmstates,   \* the NMStates at the API server
    apiServer,  \* the cluster's tlsSecurityProfile
    objects,    \* what is applied of each manifest
    obsolete,   \* whether resources of an earlier version are still there
    pods,       \* the pods that serve TLS: their template, the profile they read
    cache,      \* the NMStates the operator has seen
    workloads,  \* the Deployments it has seen
    queue,      \* names with a request queued
    resync,     \* names with a RequeueAfter pending
    work,       \* the reconcile in progress
    created,    \* how many NMStates there have been
    neglected,  \* uids of duplicates whose deletion was refused
    events      \* how much has happened around the controller

clusterVars == <<nmstates, apiServer, objects, obsolete, pods, created>>
operatorVars == <<cache, workloads, queue, resync, work>>
vars == <<clusterVars, operatorVars, neglected, events>>

\* Reconcile, in the order of its calls: the manifests are in applyManifests'
\* order, with the read of the TLS profile where applyHandler starts.
Steps == <<"cluster", "access", "profile", "servers", "tlsConfig", "plugin", "console",
           "cleanup", "status">>

Manifests == {"cluster", "access", "servers", "tlsConfig", "plugin", "console"}

\* CRDs, the namespace and the cluster's console have no controller reference.
Shared == {"cluster", "console"}

NoNMState == [uid |-> 0, born |-> 0, status |-> "absent"]

NMStates ==
    [uid : 1..(MaxEvents + 1), born : 1..(MaxEvents + 1),
     status : {"none", "progressing", "available", "warned", "degraded"}]

NewNMState(u, b) == [uid |-> u, born |-> b, status |-> "none"]

NoName == "no name"
NoOwner == [name |-> NoName, uid |-> 0]
Owners == [name : Names, uid : 1..(MaxEvents + 1)] \cup {NoOwner}

Plain == [profile |-> FALSE]
Drifted == [drifted |-> TRUE]
Nothing == [nothing |-> TRUE]

Idle == [step |-> 0, name |-> NoName, instance |-> NoNMState, spec |-> NoSpec]

NoPods == [template |-> Nothing, serves |-> NoSpec]

NoWorkloads == [rollout |-> "none", owner |-> NoName]

Existing(s) == {n \in Names : s[n] # NoNMState}

ASSUME OperatorAssumption ==
    /\ "nmstate" \in Names /\ NoName \notin Names
    /\ FirstProfile \in SecurityProfiles
    /\ SecurityProfiles \subseteq SecurityProfile
    /\ NoMatch \subseteq Manifests \ (Shared \cup {"servers", "tlsConfig"})
    /\ MaxEvents \in Nat
    /\ Hazards \subseteq HazardKinds

TypeOK ==
    /\ nmstates \in [Names -> NMStates \cup {NoNMState}]
    /\ cache \in [Names -> NMStates \cup {NoNMState}]
    /\ DOMAIN objects = Manifests
    /\ \A m \in Manifests : objects[m] = Nothing \/ objects[m].owner \in Owners
    /\ workloads.owner \in Names \cup {NoName}
    /\ queue \subseteq Names /\ resync \subseteq Names
    /\ \/ work = Idle
       \/ /\ DOMAIN work = {"step", "name", "instance", "spec"}
          /\ work.step \in 1..Len(Steps) /\ work.name \in Names
          /\ work.instance \in NMStates
    /\ neglected \subseteq 1..(MaxEvents + 1)
    /\ obsolete \in BOOLEAN /\ created \in 1..(MaxEvents + 1) /\ events \in 0..MaxEvents

\* The NMState of the installation instructions has just been created.
Init ==
    /\ nmstates = [n \in Names |-> IF n = "nmstate" THEN NewNMState(1, 1) ELSE NoNMState]
    /\ apiServer = FirstProfile
    /\ objects = [m \in Manifests |-> Nothing]
    /\ obsolete = TRUE
    /\ pods = NoPods
    /\ cache = [n \in Names |-> NoNMState]
    /\ workloads = NoWorkloads
    /\ queue = {} /\ resync = {}
    /\ work = Idle
    /\ created = 1 /\ neglected = {} /\ events = 0

-----------------------------------------------------------------------------
(* Reconcile *)

Event == events < MaxEvents /\ events' = events + 1

Step == Steps[work.step]

\* The requests of the watch on the handler namespace.
nmstateRequestsFromHandlerNamespace == Existing(cache)

Found(n) == cache[n] # NoNMState

\* sort.Slice puts one of the NMStates with the least creation time first; the
\* time has seconds, and the order of a cache's list is arbitrary.
Oldest(s) == {n \in Existing(s) : \A m \in Existing(s) : s[n].born <= s[m].born}

\* Mutation of FirstListed: the latest NMState replaces the others.
NewestFirst(n) ==
    IF Existing(cache) = {} THEN {n}
    ELSE {k \in Existing(cache) : \A m \in Existing(cache) : cache[k].born >= cache[m].born}

\* The NMState that counts, for a request for n; an empty list lets n pass.
FirstListed(n) == IF Existing(cache) = {} THEN {n} ELSE Oldest(cache)

\* Mutation of DuplicateDeleted: a duplicate is ignored, and left where it is.
DuplicateIgnored(n) == nmstates' = nmstates

\* The deletion is by name, without preconditions.
DuplicateDeleted(n) == nmstates' = [nmstates EXCEPT ![n] = NoNMState]

Started(n) == [step |-> 1, name |-> n, instance |-> cache[n], spec |-> NoSpec]

\* Not found, deletion of a duplicate, or the start of applyManifests.  A refused
\* deletion is logged and not tried again.
Reconcile(n) ==
    /\ work = Idle /\ n \in queue
    /\ queue' = queue \ {n}
    /\ \/ ~Found(n) /\ UNCHANGED <<nmstates, work, neglected, events>>
       \/ /\ Found(n)
          /\ \E first \in FirstListed(n) :
                IF first = n THEN work' = Started(n) /\ UNCHANGED <<nmstates, neglected, events>>
                ELSE /\ \/ DuplicateDeleted(n) /\ UNCHANGED <<neglected, events>>
                        \/ /\ "deleteRefused" \in Hazards /\ Event
                           /\ neglected' = neglected \cup {cache[n].uid}
                           /\ UNCHANGED nmstates
                     /\ UNCHANGED work
    /\ UNCHANGED <<apiServer, objects, obsolete, pods, created, cache, workloads, resync>>

\* On to the next step; the files of a directory are in the order of their names.
Continue == work' = [work EXCEPT !.step = @ + 1]

Rendered(m) ==
    [owner |-> IF m \in Shared THEN NoOwner
               ELSE [name |-> work.name, uid |-> work.instance.uid],
     data  |-> IF m \in {"servers", "tlsConfig"} THEN work.spec ELSE Plain]

\* renderAndApply of one manifest; a kind the cluster does not have is skipped.
\* A change of the namespace comes back through its watch.
ApplyManifest ==
    /\ work # Idle /\ Step \in Manifests
    /\ objects' = IF Step \in NoMatch THEN objects
                  ELSE [objects EXCEPT ![Step] = Rendered(Step)]
    /\ queue' = IF Step = "cluster" /\ objects' # objects
                THEN queue \cup nmstateRequestsFromHandlerNamespace ELSE queue
    /\ Continue
    /\ UNCHANGED <<nmstates, apiServer, obsolete, pods, created, cache, workloads, resync, neglected, events>>

\* The status is applied with the resourceVersion and the uid that were read, so
\* it conflicts when the NMState has changed since.
StatusWritten(status) ==
    IF nmstates[work.name] = work.instance
    THEN [nmstates EXCEPT ![work.name].status = status] ELSE nmstates

\* Reconcile returns an error: the request is queued again.
Retry == queue' = queue \cup {work.name} /\ work' = Idle

\* Callers ignore whether the condition could be written.
setDegradedCondition == nmstates' = StatusWritten("degraded") /\ Retry

\* Mutation of Servable: nobody asks whether the servers can honor the profile.
AnyProfile(spec) == spec.ok

Servable(spec) == spec.ok /\ canBeHonored(spec.val)

\* applyHandler up to its renderAndApply.
ReadTLSProfile ==
    /\ work # Idle /\ Step = "profile"
    /\ LET spec == GetTLSProfileSpec(apiServer)
       IN  IF Servable(spec)
           THEN /\ work' = [work EXCEPT !.step = @ + 1, !.spec = spec.val]
                /\ UNCHANGED <<nmstates, queue>>
           ELSE setDegradedCondition
    /\ UNCHANGED <<apiServer, objects, obsolete, pods, created, cache, workloads, resync, neglected, events>>

cleanupObsoleteResources ==
    /\ work # Idle /\ Step = "cleanup"
    /\ obsolete' = FALSE
    /\ Continue
    /\ UNCHANGED <<nmstates, apiServer, objects, pods, created, cache, workloads, queue, resync, neglected, events>>

\* Mutation of DeploymentStatus: a profile that is honored in part only is not mentioned.
DeploymentStatusUnwarned ==
    IF workloads.rollout = "rolling" THEN "progressing" ELSE "available"

\* A workload the cache does not have yet counts as done.
DeploymentStatus ==
    CASE workloads.rollout = "rolling"              -> "progressing"
      [] ~IsEmpty(unsupportedEntries(work.spec))    -> "warned"
      [] OTHER                                      -> "available"

\* Mutation of RequeueAfter: a reconcile that went well is the last one.
NotRequeued == work' = Idle /\ UNCHANGED <<resync, queue>>

RequeueAfter == resync' = resync \cup {work.name} /\ work' = Idle /\ UNCHANGED queue

\* Every condition gets a new heartbeat, so the write comes back as an event
\* unless it falls into the same second; such a request is no more than a
\* resync that is early.
reconcileStatus ==
    /\ work # Idle /\ Step = "status"
    /\ nmstates' = StatusWritten(DeploymentStatus)
    /\ IF nmstates[work.name] = work.instance THEN RequeueAfter
       ELSE Retry /\ UNCHANGED resync
    /\ UNCHANGED <<apiServer, objects, obsolete, pods, created, cache, workloads, neglected, events>>

\* A call fails.  Only what fails inside applyManifests is reported, and that
\* report may fail as well.
CallRefused ==
    /\ work # Idle /\ "refused" \in Hazards /\ Event
    /\ Retry
    /\ \/ UNCHANGED nmstates
       \/ Step \notin {"cleanup", "status"} /\ nmstates' = StatusWritten("degraded")
    /\ UNCHANGED <<apiServer, objects, obsolete, pods, created, cache, workloads, resync, neglected>>

ResyncPeriodEnds(n) ==
    /\ n \in resync
    /\ resync' = resync \ {n} /\ queue' = queue \cup {n}
    /\ UNCHANGED <<clusterVars, cache, workloads, work, neglected, events>>

-----------------------------------------------------------------------------
(* What the operator watches *)

\* Creations, updates and deletions of NMStates; a watch keeps their order.
SeeNMStates ==
    /\ cache # nmstates
    /\ cache' = nmstates
    /\ queue' = queue \cup {n \in Names : cache[n] # nmstates[n]}
    /\ UNCHANGED <<clusterVars, workloads, resync, work, neglected, events>>

\* Whether the replicas of the workloads are up to date and available.
Workloads ==
    IF objects["servers"] = Nothing THEN NoWorkloads
    ELSE [rollout |-> IF pods.template = objects["servers"].data THEN "done" ELSE "rolling",
          owner   |-> objects["servers"].owner.name]

\* Owns(Deployment), Owns(DaemonSet): events go to the owner, before and after.
SeeWorkloads ==
    /\ workloads # Workloads
    /\ workloads' = Workloads
    /\ queue' = queue \cup ({workloads.owner, Workloads.owner} \ {NoName})
    /\ UNCHANGED <<clusterVars, cache, resync, work, neglected, events>>

Restart ==
    /\ "crash" \in Hazards /\ Event
    /\ cache' = nmstates /\ workloads' = Workloads
    /\ queue' = Existing(nmstates) \cup {"nmstate"}
    /\ resync' = {} /\ work' = Idle
    /\ UNCHANGED <<clusterVars, neglected>>

\* The watch on the APIServer asks for the NMState called "nmstate".
TLSProfileChanges(p) ==
    /\ "profile" \in Hazards /\ Event
    /\ apiServer # p /\ apiServer' = p
    /\ queue' = queue \cup {"nmstate"}
    /\ UNCHANGED <<nmstates, objects, obsolete, pods, created, cache, workloads, resync, work, neglected>>

-----------------------------------------------------------------------------
(* Users and the cluster *)

\* born is the second of the creation; with twins a second may see two.
Create(n) ==
    /\ Event /\ nmstates[n] = NoNMState
    /\ created' = created + 1
    /\ \E second \in {created + 1} \cup (IF "twins" \in Hazards THEN {created} ELSE {}) :
          nmstates' = [nmstates EXCEPT ![n] = NewNMState(created + 1, second)]
    /\ UNCHANGED <<apiServer, objects, obsolete, pods, operatorVars, neglected>>

Delete(n) ==
    /\ "deleted" \in Hazards /\ Event /\ nmstates[n] # NoNMState
    /\ nmstates' = [nmstates EXCEPT ![n] = NoNMState]
    /\ UNCHANGED <<apiServer, objects, obsolete, pods, created, operatorVars, neglected>>

\* Somebody edits the namespace or the console, or deletes anything else.
Drift(m) ==
    /\ "drift" \in Hazards /\ Event /\ objects[m] # Nothing
    /\ objects' = [objects EXCEPT ![m] =
                      IF m \in Shared THEN [owner |-> NoOwner, data |-> Drifted] ELSE Nothing]
    /\ queue' = IF m = "cluster" THEN queue \cup nmstateRequestsFromHandlerNamespace ELSE queue
    /\ UNCHANGED <<nmstates, apiServer, obsolete, pods, created, cache, workloads, resync, work, neglected>>

\* What is owned by an NMState that is gone is deleted.
CollectGarbage(m) ==
    /\ objects[m] # Nothing /\ objects[m].owner # NoOwner
    /\ objects[m].owner.uid \notin {nmstates[n].uid : n \in Names}
    /\ objects' = [objects EXCEPT ![m] = Nothing]
    /\ UNCHANGED <<nmstates, apiServer, obsolete, pods, created, operatorVars, neglected, events>>

\* Pods are started for the template of the workload, and read the ConfigMap
\* that is there at that moment; without one they do not start.
StartPods ==
    /\ objects["servers"] # Nothing /\ objects["tlsConfig"] # Nothing
    /\ pods.template # objects["servers"].data
    /\ pods' = [template |-> objects["servers"].data, serves |-> objects["tlsConfig"].data]
    /\ UNCHANGED <<nmstates, apiServer, objects, obsolete, created, operatorVars, neglected, events>>

PodsStop ==
    /\ pods # NoPods
    /\ \/ objects["servers"] = Nothing /\ UNCHANGED events
       \/ "podsLost" \in Hazards /\ Event
    /\ pods' = NoPods
    /\ UNCHANGED <<nmstates, apiServer, objects, obsolete, created, operatorVars, neglected>>

-----------------------------------------------------------------------------
(* Specification *)

ReconcileSteps ==
    \/ \E n \in Names : Reconcile(n)
    \/ ApplyManifest
    \/ ReadTLSProfile
    \/ cleanupObsoleteResources
    \/ reconcileStatus

ClusterSteps == \/ \E m \in Manifests : CollectGarbage(m)
                \/ StartPods
                \/ PodsStop

Next ==
    \/ ReconcileSteps
    \/ CallRefused
    \/ \E n \in Names : ResyncPeriodEnds(n) \/ Create(n) \/ Delete(n)
    \/ SeeNMStates \/ SeeWorkloads \/ Restart
    \/ \E p \in SecurityProfiles : TLSProfileChanges(p)
    \/ \E m \in Manifests : Drift(m)
    \/ ClusterSteps

Spec == Init /\ [][Next]_vars

\* A running controller works its queue off, timers fire, watches deliver, and
\* the cluster collects garbage and starts pods.  A request is not passed over
\* for ever by the other names': the work queue is first in, first out.
FairSpec ==
    /\ Spec
    /\ WF_vars(ReconcileSteps)
    /\ \A n \in Names : SF_vars(Reconcile(n)) /\ WF_vars(ResyncPeriodEnds(n))
    /\ WF_vars(SeeNMStates) /\ WF_vars(SeeWorkloads)
    /\ WF_vars(ClusterSteps)

-----------------------------------------------------------------------------
(* Properties *)

Profile == GetTLSProfileSpec(apiServer)

\* No profile the servers cannot honor reaches them, whatever the cluster's
\* profile changes to while a reconcile is under way: "it would crash-loop the
\* TLS-serving pods" (applyHandler).
OnlyHonoredProfiles ==
    \A spec \in {objects[m].data : m \in {k \in {"servers", "tlsConfig"} : objects[k] # Nothing}}
                 \cup ({pods.serves} \ {NoSpec}) : canBeHonored(spec)

Serving == {pods.serves} \ {NoSpec}

\* A server never offers more than the profile it was started with allows,
\* unless the excess is reported (UnenforceableCiphers), and never an older
\* version than the profile names, and no other profile would make it:
\* NewTLSConfigFromProfile fails "instead of falling back to Go defaults that
\* may exceed it".
NothingBeyondTheProfile ==
    \A p \in Serving : ~Exceeds(NewTLSConfigFromProfile(p).val, p) /\ Exceeded = {}

\* A server whose profile lists ciphers has one for TLS 1.2 when it enables it,
\* and every listed cipher or curve is offered by some version it enables,
\* reported as unsupported, or of a version the profile itself rules out; no
\* other profile would change that (NewTLSConfigFromProfile: "When the profile
\* permits no TLS 1.2 cipher, serve TLS 1.3 only"; UnsupportedEntries).
ListedIsServedOrReported ==
    \A p \in Serving : ~FallsShort(NewTLSConfigFromProfile(p).val, p) /\ Missed = {}

\* The controller deletes duplicates only: never an NMState that owns anything
\* that has been deployed (Reconcile's "We only want one instance of NMState").
DeployedIsKept ==
    [][\A n \in Names :
           Reconcile(n) /\ nmstates'[n] # nmstates[n] =>
               \A m \in Manifests : \/ objects[m] = Nothing
                                    \/ objects[m].owner.uid # nmstates[n].uid]_vars

Minded == {n \in Existing(nmstates) : nmstates[n].uid \notin neglected}

\* No NMState is forgotten: each has a request queued, under way or due after the
\* resync period, or the watch has news of it, whatever calls failed and whatever
\* the cache showed when it was looked at last.  Only one whose deletion as a
\* duplicate was refused has none (Retry, RequeueAfter, SetupWithManager).
NMStatesAreNotForgotten ==
    \A n \in Minded : n \in queue \cup resync \cup {work.name} \/ cache[n] # nmstates[n]

\* Duplicates do not stay, however their creation and deletion interleave with
\* what the cache shows; only one whose deletion was refused does, since
\* Reconcile returns without an error.
OneRemains == <>[](Cardinality(Minded) <= 1)

\* What is applied for the NMState n when its reconciles get through.  With a
\* profile that cannot be honored they stop where the handler would be applied.
Deployed(n) ==
    /\ \A m \in Manifests \ NoMatch :
          m \in {"cluster", "access"} \/ Servable(Profile) =>
              /\ objects[m] # Nothing
              /\ m \notin Shared => objects[m].owner = [name |-> n, uid |-> nmstates[n].uid]
              /\ objects[m].data = IF m \in {"servers", "tlsConfig"} THEN Profile.val ELSE Plain
    /\ Servable(Profile) => ~obsolete

\* Once the cluster is left alone, the NMState that is left has its manifests
\* applied, up to date and owned by it, and without an NMState nothing it owned
\* is left: refused calls, crashes, drift, re-creation under the same name and
\* changes of the profile are made up for (RequeueAfter, retries, the watches).
ClusterFollowsNMState ==
    <>[](/\ \A n \in Minded : Deployed(n)
         /\ Existing(nmstates) = {} => \A m \in Manifests \ Shared : objects[m] = Nothing)

\* The status ends up telling the truth: Degraded when the profile cannot be
\* honored, Available with a warning when only a part of it can, Available
\* otherwise (reconcileStatus, setDegradedCondition).
TrueStatus ==
    CASE ~Servable(Profile)                           -> "degraded"
      [] ~IsEmpty(unsupportedEntries(Profile.val))    -> "warned"
      [] OTHER                                        -> "available"

StatusSettles == <>[](\A n \in Minded : nmstates[n].status = TrueStatus)

\* The pods end up serving the cluster's profile: "it updates the ConfigMap and
\* rolls the Deployments via a hash annotation" (cmd/handler/main.go).
PodsServeTheProfile ==
    <>[](Minded # {} /\ Servable(Profile) => pods.serves = Profile.val)
=============================================================================
