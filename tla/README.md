# kubernetes-nmstate in TLA+

A formal model of kubernetes-nmstate: how the handlers of a cluster, one per
node, roll a `NodeNetworkConfigurationPolicy` (NNCP) out over their nodes, how
each applies the desired state to its own node and reports the state of the node
as a `NodeNetworkState` (NNS), how the `NodeNetworkConfigurationEnactment`s (NNCE)
that record the outcome come and go, how the metrics process turns all of these
into gauges, and how the operator deploys the rest for an `NMState`. The modules
are checked with TLC on small instances. All safety properties of the passing runs but
one, `AvailableIsCorrected`, are also proved with TLAPS for every value of the constants.

## The system

| Part | Source | State | Operations |
|---|---|---|---|
| Policy reconciler | `controllers/handler/nodenetworkconfigurationpolicy_controller.go` | policy, enactments, work queue, caches | `Reconcile` and the functions it calls, the watches that trigger it |
| Slots and audit | the same, `pkg/node/audit.go` | `UnavailableNodeCountMap`, `LastUnavailableNodeCountUpdate` | claim, release, compensating release, audit |
| `maxUnavailable` | `pkg/node/nodes.go` | none | scaling a value to a number of nodes |
| Enactment conditions | `pkg/enactmentstatus` | conditions, heartbeats, retry counts | `Notify...`, `MarkInterrupted`, the predicates |
| Policy conditions | `pkg/policyconditions` | conditions of the policy | `Reset`, `Update` |
| Start-up | `cmd/handler/main.go` | none of its own | `reclaimInterruptedSlots` |
| Enactment controller | `controllers/handler/nodenetworkconfigurationenactment_controller.go` | enactments | deletion of enactments without a policy |
| Apply | `pkg/client`, `pkg/probe`, `pkg/nmstatectl` | configuration of the node, nmstate's checkpoint | `ApplyDesiredState`, probes, commit, rollback |
| Node controller | `controllers/handler/node_controller.go`, `pkg/client`, `pkg/state` | NNS, the state stored last | periodic and forced refresh, creation and update of the NNS |
| Metrics | `controllers/metrics`, `pkg/monitoring` | gauges, the labels that were set | four reconcilers and their predicates |
| Operator | `controllers/operator`, `pkg/render`, `pkg/cluster` | NMStates, manifests, status | choose the NMState, apply, clean up, report |
| TLS profile | `pkg/tls` | none | from the cluster's profile to a `tls.Config` |
| Webhook | `pkg/webhook`, `deploy/handler/operator.yaml` | conditions of the policy | conditions to Unknown, time stamp, admission rules |

Operator, metrics process and handlers meet only in the objects of the API
server. Handlers never talk to each other. They share the policy's status, where they
count the nodes that are busy, and read each other's enactments. What makes this
hard:

- a claim and its marker are two writes to two objects, and so are the release
  and the record of success;
- handlers die at any point, and the network they configure is the one they
  reach the API server over, so writes fail exactly when they matter most;
- caches lag, and some reads go through them while others do not;
- a policy is edited, deleted or recreated while nodes still work on it;
- several timeouts (probes, checkpoint, grace window, staleness threshold) have
  to be in the right order;
- the node controller, the metrics controllers and the operator decide on what
  they remember or have cached, and filter most events out;
- the operator applies its manifests one by one, in the order of file names, and
  any of the calls may fail.

## Modules

| Module | Models |
|---|---|
| `EnactmentConditions` | the condition lists of an enactment: what each setter writes and each predicate reads |
| `PolicyConditions` | how the policy's condition follows from the enactments |
| `MaxUnavailable` | the value of `spec.maxUnavailable`, scaled, with its errors |
| `NNCPHandler` | the reconcilers of all the nodes, their slots, restarts and faults |
| `UnavailabilityBudget` | abstract: what `maxUnavailable` promises |
| `ApplyDesiredState` | one node applying desired states, with time |
| `TransactionalApply` | abstract: what an apply promises the reconciler |
| `EnactmentLifecycle` | creation and deletion of policies, labels and enactments, with lagging caches |
| `NetworkState` | pkg/state: what is filtered out of a reported state, what the metrics count |
| `NodeReport` | one node controller, its cache, its memory and the NNS it writes |
| `Metrics` | the four metrics controllers, composed with `NodeReport` |
| `TLSProfile` | pkg/tls: which specification applies and which configuration a server gets |
| `Operator` | the operator's reconciler, its caches and watches, and the cluster around it |
| `MC...` | small instances for TLC |
| `...Proofs` | theorems, the lemmas they rest on, and their proofs |

Definitions whose comment begins with "Mutation of" are plausible bugs in the
definition they name. The specifications do not use them; putting one in the
place of the original makes TLC report the property it is paired with in
`PROJECT.json`, which shows that the property depends on that piece of code.

### NNCPHandler

`policy` is the NNCP: its generation, a counter per generation, whether the last
count update is within `AuditGraceWindow` (`recent`), and the setter that wrote
its conditions (`cond`). `enactment[n]` is the NNCE of node `n`: generation,
conditions, whether its heartbeat is younger than the staleness threshold
(`fresh`), retries per generation. `pc[n]` is where the reconcile of `n` stands,
`instance[n]` what it read of the policy, `policyStatus[n]` the condition that a
running `policyconditions.Update` has computed and not yet written, `queued[n]` its
work queue, `watch[n]` the snapshot its cache is stuck at while its watch is broken.

Each action is one call to the API server, or the apply. A read-modify-write
guarded by the resource version is one step, together with its retries on
conflict: it fails only through the fault `apiError`. Steps follow `Reconcile`
from top to bottom:

| Step | Action |
|---|---|
| read policy, reset conditions | `Begin` |
| `initializeEnactment`, `fillInEnactmentStatus` | `Initialize`, `FillIn` |
| exhausted, Available, Finalizing, already Progressing, retrying | `Route` |
| `claimUnavailableSlot` | `Claim`, `AuditBlocked`, and `Claim` once more |
| refused | `NotifyPending`, `AbortCheck` |
| Progressing marker, compensating release | `NotifyProgressing`, `Compensate` |
| mid-way `policyconditions.Update` | `MidUpdate` |
| `ApplyDesiredState` | `Apply` |
| apply failed | `IncrementRetryCount`, `NotifyRetrying`, `NotifyFailedToConfigure` |
| apply succeeded | `NotifyFinalizing`, `Release`, `NotifySuccess` |
| finish an earlier apply | `FinalizeInterruptedApply`, `ReleaseUnavailableSlotByAudit` |
| deferred `policyconditions.Update` | `DeferredUpdate` |
| start-up | `ReclaimInterruptedSlots`, `StartupAudit` |

`policyconditions.Update` gets the policy, lists enactments and nodes, and writes the
policy. Other handlers may do anything between the list and the write, so these are
two steps (`ComputeStatus`, and the write in `UpdatePolicyConditions`). A write of
the policy by anybody makes the ones that others have computed conflict
(`Outdated`); they start over, `UpdateAttempts` times in all. The code has two rounds
of five attempts, the first of which reads a cached policy and only conflicts where
that is old.

`AuditUnavailableSlots` also lists and then writes, and is one step. A claim, a
release, a reset and an edit write the policy, so they make the late write conflict
and start over. What happens otherwise between list and write leaves the policy
alone: a node marks itself (Progressing once more, Finalizing, Retrying, Failed,
Success, Pending) or is refused a slot. That ends in the same state when the audit
writes at the time of its list, or when the refusal comes before it.

`Faults` says which faults of the environment may occur and `MaxFaults` how
often: failing calls (`apiError`), writes that land while their reply is lost
(`lostReply`), crashes, handlers that stay down (`longOutage`) or idle
(`longIdle`) past the threshold, markers later than the grace window
(`slowMarker`), broken watches, restarted handlers whose first list comes from an API
server that is behind (`oldList`), nodes that turn NotReady, desired states that
cannot be generated. Failing applies and label changes are not counted. The cache of
a running handler never goes back: client-go asks for nothing older than it has seen.
A restarted one has seen nothing.

A policy is edited only when the admission rule of `deploy/handler/operator.yaml`
lets it be: its Available condition has a reason, and that is not
`ConfigurationProgressing`. A Degraded policy qualifies even while nodes still
apply or retry it.

### ApplyDesiredState

`active` is the configuration of the kernel, `saved` the one that stays,
`checkpoint` the minutes until nmstate rolls back by itself, `elapsed` the
minutes since the call. The steps are those of the function: `Select` (one probe
per step), `RollbackFirst`, `Set`, `Run`, then `Commit`, or `Rollback` and
`Rerun`. Every step takes any time up to its timeout. The handler may die
anywhere, and `nmstatectl` with it in the middle of `Set`; it may also die when the
commit is done and before `ReturnOutput` reports it. nmstate itself is
external: a set with a pending checkpoint fails, a failed set leaves nothing
behind, commit and rollback fail without a checkpoint, and a commit or rollback that
reports an error has done nothing.

`TransactionalApply` is what the reconciler may rely on: a call takes effect at most
once, a call that reports success has taken effect, one that reports an error has
not, and one that is cut short may have or not. That is why a restarted handler that
finds its enactment Progressing applies again instead of guessing.

A dns probe may take longer than its timeout: it does not heed the deadline of
the poll and gives every name server the whole timeout. `ProbeTime` has that.

### EnactmentLifecycle

`versions` is the history of the policy and `seen[n]` how far the cache of
handler `n` is in it. Slots, retries and failing applies are left to
`NNCPHandler`; what is kept is every check of existence, selector and generation,
and whether it reads the cache or the server. An enactment's `phase` tells
whether its desired state is yet to be applied, applied (Finalizing), or reported
(Available). The controllers of all handlers look at all enactments and delete
one when their cache has no policy for it.

### NodeReport and Metrics

`nns` is the NodeNetworkState at the API server and `pending` the versions that
the watch has yet to deliver into `cached`. `lastState` is the field of that name
of the reconciler; `work` is the write a running `Reconcile` is about to make:

| Code | Action |
|---|---|
| `Reconcile` up to the first write, with both early returns | `Reconcile` |
| `InitializeNodeNetworkState` | `InitializeNodeNetworkState` |
| `UpdateCurrentState`, the status write | `UpdateCurrentState` |
| the periodic request | `RefreshPeriodEnds` |
| watch and `onDeleteOrForceUpdateForThisNode` | `WatchNNS` |
| `forceNNSRefresh` of the policy controller | `forceNNSRefresh` |
| owner reference on the Node | `CollectNNS` |

`Reconcile` reads the node's state, the Node and the NNS; it is one step because
nothing but a watch event could come between, and that only makes the read look
later. A refused write, a write whose reply is lost, a deleted NNS, a removed
Node, a slow watch and a restart are `Hazards`; `disturbed` remembers whether one
of those happened that can leave the NNS behind the node.

`CountInterfacesByType` and `CountRoutes` return an error for a state that cannot be
parsed. `filterOut` parses every state into the same type before it is reported, so
`ReconcileNNS` has no step for that.

`Metrics` adds the objects that other processes write (`enactments`, `policies`,
by anybody and in any order), the requests that are `due`, the `gauges`, and in
`old` what each controller remembers of the labels it has set. A gauge is a
function from labels to values, so a label that is never deleted is visible.

### TLSProfile and Operator

`TLSProfile` has the functions of pkg/tls over sets of names, with the tables of
ciphers and curves as constants. `Operator` uses it at the step where
`applyHandler` decides whether the profile can be honored. What Go makes of a
configuration is external (`Suites`, `Offered`): TLS 1.3 has its own suites, TLS 1.2
the configured ones, and older versions those of them that are in
`legacyCipherSuites`.

`nmstates` are the objects at the API server, `cache` what the operator has seen
of them; `objects` is what is applied of each manifest, with owner and content;
`work` is the reconcile in progress: its position in `Steps`, the request, the
NMState it read and the profile. `pods` is what runs: the template the pods were
started for and the profile they read when they started.

| Code | Action |
|---|---|
| `Reconcile` up to `applyManifests`: not found, duplicates | `Reconcile` |
| `renderAndApply`, one manifest after the other | `ApplyManifest` |
| `GetTLSProfileSpec`, `canBeHonored`, `setDegradedCondition` | `ReadTLSProfile` |
| `cleanupObsoleteResources` | `cleanupObsoleteResources` |
| `reconcileStatus`, `RequeueAfter` | `reconcileStatus`, `ResyncPeriodEnds` |
| an error anywhere | `CallRefused` |
| the watches of `SetupWithManager` | `SeeNMStates`, `SeeWorkloads`, `TLSProfileChanges`, `Drift` of the namespace |

Users, garbage collection, pods and drift are actions of their own. The order of
`Steps` is that of the directories in `applyManifests` and of the file names in
them, which `build/Dockerfile.operator` copies as they are. The cluster is taken
for an OpenShift one with the console; a kind that it lacks is in `NoMatch`.

## What is checked

Passing runs:

| Run | Instance | Shows |
|---|---|---|
| `edit` | 2 nodes, 1 slot, 2 generations, 2 tries, 2 faults (failing calls, crashes, broken watches, restarts on an older policy, states that cannot be generated) | the slot invariant, so that no slot of another node is given away, across edits; the handlers implement `UnavailabilityBudget` (318,875 states) |
| `unreliable` | 2 nodes, limit 2, every fault but ungenerated states, 2 of them | what holds without assumptions: types, counters within bounds, no apply after the last retry, no second apply (1,481,574 states) |
| `rollout` | 2 nodes, 1 slot, crashes, long outages, failing applies, broken watches, states that cannot be generated, 2 faults | at most one node applies or is broken; no slot is lost before the first fault; a handler comes to rest only when it is done; an Available that is written late is corrected; every rollout ends, and ends Available with no slot in use if nothing failed (668,710 states) |
| `limits` | 2 nodes and `"0%"`; every type of value with numbers from -2 to 105, up to 12 nodes | an invalid limit fails every enactment instead of blocking, across an edit and a broken watch; no value blocks a rollout; percentages are rounded up; the limit never shrinks as nodes join |
| `apply` | 3 name servers, 7 overrides of the threshold | the apply is a transaction; it ends before the staleness threshold (140,238 states) |
| `lifecycle` | 2 nodes, 4 versions of the policy, a relabel or a restart, missed events | enactments follow the policy, and a handler that is up to date and at rest has followed it; what they report as applied is applied |
| `reporting` | 3 network states, 2 enactments, 1 policy, 3 events, every hazard of `NodeReport` | no write of the NNS is noise, and a `Reconcile` that writes nothing had nothing to write; a Node is never forgotten; it has an NNS in the end, which shows the node's state unless disturbed; gauges are never forgotten, off only with a request to come, and settle on what the objects say |
| `operator` | 2 names, 3 profiles, 2 events, every hazard but `twins`; all profiles over 5 cipher and 3 curve names | no NMState is forgotten; one remains, never at the cost of a deployed one; what is deployed follows it; no server gets a profile it cannot honor or offers more than it; the status ends up true (379,913 states) |

Runs that TLC must refute, because a comment, test or document of the repository
says otherwise (`findings` in `PROJECT.json` quotes it):

| Run | What happens |
|---|---|
| `retry_after_edit` | A node is retrying generation 1, so the policy is Degraded and may be edited. `previousConditions` is from before the reset, so the node does not claim a slot of generation 2 and applies it next to the node that holds the only one. |
| `recreated` | A policy is deleted and created again under its name while one request is queued. It is at generation 1 again, the old enactment of generation 1 is Available, and so the new desired state is reported without being applied. |
| `nns_recreated` | A deleted NNS is created again without status; a refresh label set in between makes the status write fail. The next `Reconcile` finds an NNS and the state it stored last, and returns early every time. |
| `tls_rollout` | Pods that start between the patch of the workloads and that of the ConfigMap read the old profile, carry the hash of the new one, and are not rolled again. |

Two nodes are enough for the questions about slots because every interaction goes
through one counter and is between a node that holds a slot and one that claims,
audits or releases. One slot makes every claim contend. Two tries are the smallest
number with a failure that is not the last, and two attempts of an update of the
policy the smallest with one that conflicts and one that does not. Two faults cover
a fault during the recovery from another. Two generations show an old and a new one side by
side; the counters of more are independent. Four versions of a policy are enough
to create it, change it twice and delete it. Three events around a node controller
cover a change, what undoes its report and a crash in the recovery. Two events
around the operator cover a duplicate that is created while another NMState goes,
and a failure while the profile changes. In `Metrics` a behaviour has either events
around the handler or writes of enactments and policies, whose controllers share
nothing. Symmetry is used only in runs without liveness properties.
`CHECK_DEADLOCK FALSE` is set where a system that has finished has nothing left to
do.

### Fairness

Weak fairness of the steps of every handler (it is scheduled, and restarted by
its DaemonSet), of watches (client-go re-establishes them), of the end of the
grace window (time passes), and in `EnactmentLifecycle` of each step of the
caches, reconcilers and enactment controllers (whose refresh timer makes them
look at every enactment again). Nothing is assumed of users, of faults, or of the
order in which handlers run; weak fairness suffices because a refused node is
requeued and its polling stays enabled.

In `NodeReport` and `Metrics`: weak fairness of each step of the controllers, the
watch, the refresh timer and the garbage collector. In `Operator`: weak fairness of
the reconciler, timers, watches, garbage collection and pods, and strong fairness
of `Reconcile(n)` for each name. A request can lose its turn to another name's
again and again, but the work queue is first in, first out.

## What is proved

The constants are arbitrary within the named assumptions of the modules, which TLC
evaluates in the runs. `HeldSlotsAreCounted` is a conjunct of `SlotInvariant`, which
the runs check; the `TypeOK` of `ApplyDesiredState`, `Metrics` and `Operator` is left
to the proofs.

| Module | Theorem | Establishes | Assumes |
|---|---|---|---|
| `NNCPHandlerProofs` | `TypeCorrectness` | `TypeOK` | nothing |
| `NNCPSlotProofs` | `SlotInvariance`, `SlotSafety`, `MaxUnavailableIsRespected` | `SlotInvariant`, `HeldSlotsAreCounted`, `MaxUnavailableRespected` | `SafeFaults` |
| | `NoSlotLeaks` | `SlotsDoNotLeak` | `SafeFaults` |
| | `HandlersImplementBudget` | `ImplementsBudget`: the refinement of `UnavailabilityBudget` | `SafeFaults` |
| `NNCPFaultProofs` | `ExhaustedIsNeverApplied` | `ExhaustedIsNotApplied` | nothing |
| | `CommittedIsNeverReapplied` | `CommittedIsNotReapplied` | states can be generated |
| | `CountersAreBounded` | `CountersStayInBounds` | every limit is at least 1 |
| | `RestIsDone` | `RestMeansDone` | calls do not fail and no reply is lost (`ReliableCalls`), a restarted handler lists the current policy (`NoOldLists`), two attempts or more |
| `MaxUnavailableProofs` | `EveryValueLetsTheRolloutGo`, `EveryPercentageIsRoundedUp`, `EveryLimitGrows` | `NoValueBlocksTheRollout`, `PercentageIsRoundedUp`, `LimitGrowsWithTheRollout` | nothing |
| `ApplyDesiredStateProofs` | `ApplyIsTransactional`, `ApplyTypes` | `IsTransactional`, `TypeOK` | nothing |
| | `FourNameServersFit` | `ApplyFitsTheThreshold` | at most 4 name servers |
| `EnactmentLifecycleProofs` | `AvailableIsAlwaysTrue` | `AvailableIsTrue` | a policy is not created again |
| | `RestIsFollowed` | `RestMeansFollowed` | nor is an enactment seen before its policy |
| `OperatorProofs` | `OperatorTypes`, `ServersGetHonoredProfiles`, `NMStatesAreMinded` | `TypeOK`, `OnlyHonoredProfiles`, `NMStatesAreNotForgotten` | nothing |
| | `DeployedStays` | `DeployedIsKept` | no two NMStates in one second |
| | `ProfilesAreNotExceeded`, `ListedIsNotLost` | `NothingBeyondTheProfile`, `ListedIsServedOrReported` | nothing |
| `MetricsProofs` | `ReportTypes`, `EveryGaugeIsRemembered`, `GaugesLag` | `TypeOK`, `GaugesAreRemembered`, `GaugesLagOnlyWhenDue` | nothing |
| | `NodeIsLookedAtAgain` | `NodeIsNotForgotten` | nothing |
| | `EveryWriteIsNews`, `SilenceIsReport` | `WritesAreNews`, `SilenceMeansReported` | states and interfaces are records |

**Slots.** `MaxUnavailableRespected` says how many nodes apply or are broken; it is
not inductive, because it does not mention the counter. `HeldSlotsAreCounted`
relates nodes to the counter, but an audit recounts from the markers. So
`SlotInvariant` adds that marker and reconcile agree: a node claims only while
nobody could take it for a holder (`EnactmentOK`, `ReconcileOK`), it has its marker
while it applies, and a slot that is claimed and not yet marked is younger than the
grace window, so no audit runs. Each step is then one of three kinds, with a lemma
each: it leaves the counter alone and makes no node a holder; it lowers the
counter and keeps enough for the holders; or it claims a slot below the limit.
Cardinalities enter only through these lemmas. The same three kinds are the steps
of `UnavailabilityBudget`, so the lemmas conclude `SafeStep`: the invariant and the
step of the budget at once.

`SafeFaults` excludes what the runs and the observations below show to break the
limit: lost replies, markers later than the grace window, reconcilers idle past
the threshold, NotReady nodes, a long outage together with failing writes, and
failing applies together with edits.

`SlotsDoNotLeak` is the converse of `HeldSlotsAreCounted`: until a first fault the
counter is not too high either. `NoLeak` adds to the slot invariant that no watch is
broken and no handler down, that a node which gives up still has its marker only
with its retries used up, and that only a failing apply leaves a marker between two
attempts. Each step keeps all the holders, adds the node that claims, or removes the
one that releases. The audit, which counts the markers, then counts what is there.

**Under any fault.** `NNCPFaultProofs` does without `SafeFaults`. Its invariant
`NodeInv` relates, node by node, the step of the reconcile to the generation, the
conditions and the retries of the enactment: past `fillInEnactmentStatus` an
enactment is at the generation of its reconcile unless it was created anew, and no
step that leads to an apply is reached with one that is committed or exhausted.
Each assumption is needed: a state that cannot be generated fails an enactment that
was committed; the limit falls back to 1 when the nodes cannot be listed, which
exceeds an invalid limit of 0.

`RestMeansDone` is the safety part of `RolloutCompletes`. `GenInv` says that a cache
is never ahead of the policy, a reconcile not ahead of its cache, and an enactment not
ahead of either. `RestInv` says, of every step of a reconcile, that it works for the
generation of the policy or that another request is to come, and that retries that
are used up are recorded as a failure or about to be. `ToldInv` is about the update of
the policy: what the policy says is right, or some handler is still to write it; and
what a handler has computed is right, or another one writes after it, also when it
meets a conflict first. With failing calls `RestMeansDone` does not hold: see the two
dropped errors in the observations. Restarts on an older policy take an enactment
back to the generation they saw, which `GenInv` excludes, so the proof leaves them
out; TLC finds them harmless with two nodes and two generations.

**Apply.** The transaction is proved from the types and `TransactionInv`, which
says that while the checkpoint of a change is alive the active configuration is the
desired one: it is what a commit that succeeds makes permanent. For the time,
`TimeInv` bounds what has elapsed by the step and by the probes that are still to
run. A rollback happens only while the checkpoint is alive, and the checkpoint is
counted from the start of `Set`, so the second run of the probes starts within the
time that the first run would have had. In total an apply takes at most
19 + 4 x (name servers) minutes; the threshold is at least 39.

**Life cycle.** `LifecycleInv` says that once the enactment is filled in its
desired state is the one the reconciler works on, that generations tell the versions
of a policy apart (its `born` is always 1), and that it is past "new" only if that
state was applied. Deletions by other handlers fit in because only the node's own
reconciler creates its enactment. `RestMeansFollowed` is the safety part of
`EnactmentsFollowThePolicy`. `FollowInv` says that a node without a request has done,
or is doing, what its cache asks for (`Follows`), and that every version of an
existing policy has a higher generation than those before it (`Lineage`): so the
predicate lets every change through, and no cache takes an existing policy for a
deleted one and makes its handler delete an enactment.

**Operator.** `DeployedIsKept` rests on `OldestInv`: NMStates are numbered in the
order of their creation, the cache shows a past of the API server
(`CacheIsAPast`), and what is deployed or being deployed belongs to an NMState
than which none, there or in the cache, is older (`NoneOlder`). A reconcile
deletes only what is younger than something its cache has. The TLS theorems
combine a fact about the functions of pkg/tls, for every profile that can be
honored, with the invariant that servers get no other; `OfferedSuites` says what the
versions a server enables come to. `NMStatesAreNotForgotten` is
almost inductive: a new NMState is news to the cache because its number is new.

**Reports.** `WritesAreNews` rests on `ReportInv`: among the versions of the NNS
that the API server, the watch, the cache and the write in progress still hold, a
version has one status (`ObjectsInv`), and a write in progress either fills in an
NNS without a status or differs from the version it read (`WorkInv`). The API
server accepts it only over that version. Two reports that differ, differ in more
than what ticks, because `filterOut` has removed that; `ReportAssumption` says that
only bridges have timers. `SilenceMeansReported` adds `LatestInv` and `MemoryInv`:
the last version on its way to the cache is the current one, and the controller
remembers what the NNS says, or nothing, unless something disturbed the report.
`GaugesLagOnlyWhenDue` follows, controller by controller, from what its predicates
let through: a write that is filtered out leaves what the gauges count unchanged.

Only model-checked: `AvailableIsCorrected`, because it depends on the bounds. With
three nodes and faults enough a handler may use up its attempts while the policy
still says Available, and rest; `RestMeansDone`, which is proved, says that this is
corrected when all rest. And liveness under fairness, which the prover does not
handle. These are `RolloutCompletes`, `RolloutSucceeds`, `InvalidLimitFails`,
`EnactmentsFollowThePolicy`, `NodeHasReport`, `ReportedUnlessDisturbed`,
`GaugesSettle`, `OneRemains`, `ClusterFollowsNMState` and `StatusSettles`. For most
of them a safety part is proved, which says that nothing stops before it is done
(`RestMeansDone`, `RestMeansFollowed`, `NodeIsNotForgotten`, `SilenceMeansReported`,
`GaugesLagOnlyWhenDue`, `NMStatesAreNotForgotten`); that it does stop is TLC's part.

## Observations outside the runs

TLC also shows these on instances of the same modules. They limit what the
properties above can say.

- A handler that was down past the staleness threshold and cannot write at
  start-up finds its enactment Progressing and resumes without a slot, although an
  audit may have given that slot away.
- A decrement lands, its reply is lost, and the retry decrements again: the slot of
  another node is gone (`MCNNCPHandler`, one slot, faults `lostReply` and
  `apiError`, `MaxUnavailableRespected`).
- A finished enactment of a NotReady node is compared with the number of Ready nodes
  and stands in for one that failed (faults `notReady` and `applyError`,
  `AvailableIsCorrected`; `policyconditions/conditions.go:288`).
- Two NMStates created within one second have no order. The controller may deploy
  one and then delete it in favour of the other (hazard `twins`, `DeployedIsKept`).
- With more than four name servers an apply may take as long as the shortest
  threshold that an override can set (`ApplyFitsTheThreshold`).
- An enactment controller whose policy cache lags behind its enactment cache
  deletes an enactment whose policy exists, and nothing re-creates it until the
  next reconcile. The constant `Hazards` has this as `lateWatch`; `lifecycle`
  leaves it out.
- A status write of the NNS whose reply is lost, or a watch that is behind, together
  with a state that changes back leaves the NNS at the state in between. `disturbed`
  sets these aside in `ReportedUnlessDisturbed`.

Seen while modelling:

- Counters are per generation. After an edit, nodes of the old and of the new
  generation may apply at the same time, each within its limit.
- A release that reads a cached counter of zero does nothing and reports no
  error. The slot stays counted until an audit, which a blocked node or the next
  reconcile runs.
- After the last retry the error of the failure write is dropped. If that write
  fails, the enactment stays Progressing and later reconciles skip it.
- An error of `fillInEnactmentStatus` other than NotFound ends the reconcile with
  no requeue.
- A duplicate NMState whose deletion is refused stays until something else asks for
  it; `OneRemains` leaves it out.
- A change of the cluster's TLS profile asks for the NMState called `nmstate`; one of
  another name is brought up to date by its next resync.
- `webhookReplicaCount` counts tolerated taints, not nodes: one node with the master
  and the control-plane taint, both of which are tolerated by default, counts as two.
- `NewTLSConfigFromProfile` looks at the ciphers of TLS 1.2 only. A profile that
  allows TLS 1.0 and lists none that is older enables 1.0 and 1.1 without a suite,
  and one that lists no ciphers at all enables 1.2 without any; a client of that
  version is turned away.
- The first status may say Available before the cache has the Deployments.
- The status is written inside `reconcileStatus` and by errors of `applyManifests`
  only; it keeps its value when the clean-up fails.
- `docs/content/user-guide/101-reporting.md:166` says the state is refreshed every 5
  seconds; `pkg/node/refresh.go` has a minute.

## Not modelled

- The webhook's hooks set empty conditions to Unknown, which is how
  `NNCPHandler` starts, and stamp a time nothing reads. The denial of edits while a
  policy is in progress guards `EditPolicy`.
- `SecurityProfileWatcher` (`pkg/tls/controller.go`): no program sets it up.
- The generation of desired states (nmpolicy is a library, bridge defaults rewrite
  YAML) beyond its success or failure. Decoding of YAML, messages, events, logs, the
  text of templates, environment variables and files.
- The composition of `NNCPHandler` with the steps of `ApplyDesiredState`. In the
  reconciler an apply is one step that succeeds or fails. `TransactionalApply`, which
  the apply is proved to implement, justifies this (a crash after the commit is one
  after the `Apply` step, with the enactment still Progressing), and the one timing fact the
  reconciler needs is `ApplyFitsTheThreshold`.
- The number of webhook replicas, a pure count of taints that the rendered Deployment
  alone depends on.
- The file lock that keeps two handlers of one node apart: the models have one
  handler per node. The set-up of managers, leader election and caches.
