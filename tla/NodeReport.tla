---------------------------- MODULE NodeReport ----------------------------
(***************************************************************************)
(* How the handler of one node reports the network state of that node: the *)
(* node controller, the functions it calls to write the NodeNetworkState   *)
(* (NNS), and the label by which the policy controller asks for a refresh. *)
(*                                                                         *)
(* The handler reads the NNS from a cache that follows the API server      *)
(* through a watch, and writes it with the resource version it read.       *)
(***************************************************************************)
EXTENDS NetworkState, Sequences

CONSTANTS
    HostStates,  \* network states the node can be in, as nmstate shows them
    FirstState,  \* the one it starts in
    MaxEvents,   \* bound on what happens around the handler
    Hazards      \* what may happen besides changes of the network

HazardKinds ==
    { "crash",      \* the handler is restarted
      "refused",    \* a write fails
      "lost",       \* a write lands but its reply is lost
      "deleted",    \* somebody deletes the NNS
      "node",       \* the Node object is removed and added again
      "slowWatch" } \* a request is handled before the watch has delivered the
                    \* last version of the NNS

\* What can leave the NNS behind the node, see StateIsReported.
Disturbing == {"lost", "deleted", "node", "slowWatch"}

ASSUME ReportAssumption ==
    /\ MaxEvents \in Nat
    /\ Hazards \subseteq HazardKinds
    /\ FirstState \in HostStates
    /\ \A s \in HostStates :
          s.filled /\ \A i \in s.ifaces : i.type = "linux-bridge" \/ i.timers = 0

VARIABLES
    host,       \* the network state of the node
    node,       \* the UID of the Node object, 0 when there is none
    nns,        \* the NodeNetworkState at the API server
    version,    \* the last resource version the API server handed out
    pending,    \* the versions of the NNS that the watch has yet to deliver
    cached,     \* the NNS in the cache of the handler
    queue,      \* whether a request of the node controller is queued
    timer,      \* whether one waits for the end of the refresh period
    lastState,  \* NodeReconciler.lastState
    work,       \* the write a running Reconcile is about to make
    events,     \* how much has happened around the handler
    disturbed   \* whether any of it was Disturbing

envVars == <<host, node, events, disturbed>>
apiVars == <<nns, version, pending>>
handlerVars == <<cached, queue, timer, lastState, work>>
nodeVars == <<host, node, events, disturbed, nns, version, pending, cached,
              queue, timer, lastState, work>>

NoNNS == [version |-> 0, status |-> EmptyState, refresh |-> 0, owner |-> 0]

Exists(o) == o.version # 0

Idle == [at |-> "idle", state |-> EmptyState, nns |-> NoNNS]

Reports == { filterOut(s) : s \in HostStates }

\* refresh: the version at which the force-refresh label was set last, which
\* stands for the time that is its value; 0 when there is no label.
NNSs == [version : 0..version, status : Reports \cup {EmptyState},
         refresh : 0..version, owner : 0..MaxEvents + 1]

NodeTypeOK ==
    /\ host \in HostStates
    /\ node \in 0..MaxEvents + 1
    /\ version \in Nat
    /\ nns \in NNSs /\ cached \in NNSs
    /\ pending \in Seq(NNSs)
    /\ queue \in BOOLEAN /\ timer \in BOOLEAN
    /\ lastState \in Reports \cup {EmptyState}
    /\ work \in [at : {"idle", "create", "fill", "update"},
                 state : Reports \cup {EmptyState}, nns : NNSs]
    /\ events \in 0..MaxEvents /\ disturbed \in BOOLEAN

\* The Node is there, nothing has been reported, and the manager has just
\* started: the Node is announced to the controller as created.
NodeInit ==
    /\ host = FirstState
    /\ node = 1
    /\ nns = NoNNS /\ version = 0
    /\ pending = <<>>
    /\ cached = NoNNS
    /\ queue = TRUE /\ timer = FALSE
    /\ lastState = EmptyState
    /\ work = Idle
    /\ events = 0 /\ disturbed = FALSE

-----------------------------------------------------------------------------
(* The API server *)

Event(kind) ==
    /\ kind \in Hazards \cup {"change"}
    /\ events < MaxEvents
    /\ events' = events + 1
    /\ disturbed' = (disturbed \/ kind \in Disturbing)

Publish(o) ==
    /\ nns' = o
    /\ pending' = Append(pending, o)

Store(o) ==
    /\ version' = version + 1
    /\ Publish([o EXCEPT !.version = version + 1])

\* What an update reads back must be what it read before.
Current(o) == Exists(nns) /\ nns.version = o.version

-----------------------------------------------------------------------------
(* The node controller *)

\* Mutation of Fail: the state is recorded before it is known to be stored.
FailButRecord ==
    /\ work' = Idle
    /\ queue' = TRUE
    /\ lastState' = work.state
    /\ UNCHANGED <<cached, timer>>

\* Mutation of Fail: the error is logged and dropped.
FailQuietly ==
    /\ work' = Idle
    /\ UNCHANGED <<cached, queue, timer, lastState>>

\* An error sends the request back to the queue.
Fail ==
    /\ work' = Idle
    /\ queue' = TRUE
    /\ UNCHANGED <<cached, timer, lastState>>

Done(s) ==
    /\ work' = Idle
    /\ lastState' = s
    /\ timer' = TRUE
    /\ UNCHANGED <<cached, queue>>

\* Mutation of Unchanged: nobody asks whether there is an NNS.
SameState(s) == lastState = s

\* The early return of Reconcile.
Unchanged(s) == Exists(cached) /\ lastState = s

\* Reconcile up to its first write.  Errors before that put the request back
\* and change nothing, which is a stuttering step.
Reconcile ==
    /\ queue /\ work = Idle
    /\ pending # <<>> => "slowWatch" \in Hazards
    /\ disturbed' = (disturbed \/ pending # <<>>)
    /\ LET s == filterOut(host)
           unchanged == Unchanged(s)
           skipped == Exists(cached) /\ cached.status = s
       IN  /\ queue' = FALSE
           /\ timer' = (timer \/ unchanged \/ (node # 0 /\ skipped))
           /\ lastState' = IF node # 0 /\ skipped THEN s ELSE lastState
           /\ work' = IF unchanged \/ node = 0 \/ skipped THEN Idle
                      ELSE [at |-> IF Exists(cached) THEN "update" ELSE "create",
                            state |-> s,
                            nns |-> [cached EXCEPT !.owner =
                                        IF Exists(cached) THEN @ ELSE node]]
    /\ UNCHANGED <<host, node, events, apiVars, cached>>

InitializeNodeNetworkState ==
    /\ work.at = "create"
    /\ \/ /\ ~Exists(nns)
          /\ Store(work.nns)
          /\ work' = [work EXCEPT !.at = "fill", !.nns = nns']
          /\ UNCHANGED <<envVars, cached, queue, timer, lastState>>
       \/ /\ Exists(nns) /\ Fail
          /\ UNCHANGED <<envVars, apiVars>>
       \/ /\ Event("refused") /\ Fail
          /\ UNCHANGED <<host, node, apiVars>>
       \/ /\ Event("lost") /\ Fail
          /\ ~Exists(nns) /\ Store(work.nns)
          /\ UNCHANGED <<host, node>>

UpdateCurrentState ==
    /\ work.at \in {"fill", "update"}
    /\ \/ /\ Current(work.nns)
          /\ Store([nns EXCEPT !.status = work.state])
          /\ Done(work.state)
          /\ UNCHANGED envVars
       \/ /\ ~Current(work.nns) /\ Fail
          /\ UNCHANGED <<envVars, apiVars>>
       \/ /\ Event("refused") /\ Fail
          /\ UNCHANGED <<host, node, apiVars>>
       \/ /\ Event("lost") /\ Fail
          /\ Current(work.nns)
          /\ Store([nns EXCEPT !.status = work.state])
          /\ UNCHANGED <<host, node>>

RefreshPeriodEnds ==
    /\ timer
    /\ timer' = FALSE /\ queue' = TRUE
    /\ UNCHANGED <<envVars, apiVars, cached, lastState, work>>

shouldForceRefresh(old, new) ==
    new.refresh # 0 /\ new.refresh # old.refresh

onDeleteOrForceUpdateForThisNode(old, new) ==
    /\ Exists(old)
    /\ ~Exists(new) \/ shouldForceRefresh(old, new)

WatchNNS ==
    /\ pending # <<>>
    /\ cached' = Head(pending)
    /\ pending' = Tail(pending)
    /\ queue' = (queue \/ onDeleteOrForceUpdateForThisNode(cached, cached'))
    /\ UNCHANGED <<envVars, nns, version, timer, lastState, work>>

\* By the policy controller, after it applied a policy.  A refusal, an outdated
\* version included, is only logged.
forceNNSRefresh ==
    /\ Exists(cached) /\ Current(cached)
    /\ Event("change")
    /\ Store([nns EXCEPT !.refresh = version + 1])
    /\ UNCHANGED <<host, node, handlerVars>>

-----------------------------------------------------------------------------
(* Around the handler *)

HostChanges ==
    /\ Event("change")
    /\ host' \in HostStates \ {host}
    /\ UNCHANGED <<node, apiVars, handlerVars>>

DeleteNNS ==
    /\ Exists(nns)
    /\ Event("deleted") /\ Publish(NoNNS)
    /\ UNCHANGED <<host, node, version, handlerVars>>

RemoveNode ==
    /\ node # 0 /\ Event("node")
    /\ node' = 0
    /\ UNCHANGED <<host, apiVars, handlerVars>>

AddNode ==
    /\ node = 0 /\ node' = events + 1 /\ queue' = TRUE
    /\ UNCHANGED <<host, events, disturbed, apiVars, cached, timer, lastState, work>>

\* The garbage collector removes an NNS whose owner is gone.
CollectNNS ==
    /\ Exists(nns) /\ nns.owner # node
    /\ Publish(NoNNS)
    /\ UNCHANGED <<envVars, version, handlerVars>>

Restart ==
    /\ Event("crash")
    /\ cached' = nns
    /\ pending' = <<>>
    /\ queue' = (node # 0) /\ timer' = FALSE
    /\ lastState' = EmptyState
    /\ work' = Idle
    /\ UNCHANGED <<host, node, nns, version>>

HandlerSteps ==
    \/ Reconcile \/ InitializeNodeNetworkState \/ UpdateCurrentState
    \/ RefreshPeriodEnds

NodeNext ==
    \/ HandlerSteps \/ WatchNNS \/ forceNNSRefresh
    \/ HostChanges \/ DeleteNNS \/ RemoveNode \/ AddNode \/ CollectNNS \/ Restart

\* The handler, the watch and the garbage collector go on; nothing around them
\* has to happen.
NodeFairness ==
    /\ WF_nodeVars(Reconcile) /\ WF_nodeVars(InitializeNodeNetworkState)
    /\ WF_nodeVars(UpdateCurrentState) /\ WF_nodeVars(RefreshPeriodEnds)
    /\ WF_nodeVars(WatchNNS) /\ WF_nodeVars(CollectNNS)

-----------------------------------------------------------------------------
(* Properties *)

\* What a reader of the report can act on: everything but the attributes that
\* tick.
Essence(s) ==
    [ifaces |-> { <<i.name, i.type, i.state>> : i \in s.ifaces },
     running |-> s.running, config |-> s.config, filled |-> s.filled]

\* The node controller rewrites the status of an NNS only when that tells its
\* readers something new (node_controller.go:93 "Reduce apiserver hits"): not
\* because of a timer that ticked or a veth of a pod, and not a second time
\* because its cache is behind or a reply was lost.
WritesAreNews ==
    [][ (Exists(nns) /\ Exists(nns') /\ nns'.version # nns.version
            /\ nns'.refresh = nns.refresh)
        => Essence(nns'.status) # Essence(nns.status) ]_nodeVars

\* While there is a Node the controller looks at it again: a request is queued,
\* under way or waits for the end of the refresh period, after early returns,
\* refused writes, conflicts and restarts alike (the results of Reconcile).
NodeIsNotForgotten == node # 0 => queue \/ timer \/ work # Idle

\* A Reconcile that writes nothing leaves nothing to write: what it remembers
\* and what it has cached make it return early only when the NNS shows the state
\* of the node, refused and outdated writes in between included (lastState is
\* recorded after the write, node_controller.go:113-120).
SilenceMeansReported ==
    [][ (Reconcile /\ node # 0 /\ work' = Idle /\ ~disturbed')
        => nns.status = filterOut(host) ]_nodeVars

\* A Node that stays has an NNS in the end, whatever happened before.
NodeHasReport == <>[](node # 0 => Exists(nns))

\* The NNS shows in the end the state its node is in, when no NNS was deleted,
\* no reply was lost and the watch kept up: restarts, writes that failed, refresh
\* labels and changes during a Reconcile do no harm (node_controller.go:113-120).
ReportedUnlessDisturbed ==
    <>[](~disturbed => nns.status = filterOut(host))

\* The NNS shows in the end the state its node is in (101-reporting.md:7 "The
\* operator periodically reports state of node network interfaces").
StateIsReported ==
    <>[](node # 0 => nns.status = filterOut(host))

=============================================================================
