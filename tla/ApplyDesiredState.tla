------------------------ MODULE ApplyDesiredState ------------------------
(***************************************************************************)
(* pkg/client, pkg/probe and pkg/nmstatectl: how the handler applies a     *)
(* desired state.  nmstate takes a checkpoint, the handler probes whether  *)
(* the node is still connected, and then commits or rolls back; nmstate    *)
(* rolls back by itself when the checkpoint expires.                       *)
(*                                                                         *)
(* Time is counted in minutes, because the code relates several timeouts:  *)
(* those of the probes, of the checkpoint, and the age at which the audit  *)
(* of slots takes a node that is applying for dead.                        *)
(***************************************************************************)
EXTENDS Integers, Sequences

CONSTANTS
    Configs,      \* desired states, and Initial
    Empty,        \* the desired state with nothing in it
    Initial,      \* the configuration of the node before the first call
    Partial,      \* a configuration nmstate was killed in the middle of
    NameServers,  \* number of name servers of the node
    Overrides     \* values of NMSTATE_ENACTMENT_STALE_THRESHOLD, 0 for none

ASSUME ConfigsAssumption ==
    Initial \in Configs /\ Partial \notin Configs /\ Empty \notin Configs

ASSUME TimesAssumption == NameServers \in Nat /\ Overrides \subseteq Int

VARIABLES
    pc,          \* the next step of ApplyDesiredState
    desired,     \* its argument
    result,      \* what it returned
    probes,      \* the probes that are to run again after the change
    todo,        \* the probes that are still to run
    elapsed,     \* minutes since the call
    active,      \* the configuration of the kernel
    saved,       \* the configuration that is there to stay
    checkpoint,  \* nmstate's checkpoint: minutes until it expires, 0 if none
    threshold    \* StaleEnactmentThreshold

vars == <<pc, desired, result, probes, todo, elapsed, active, saved, checkpoint, threshold>>

-----------------------------------------------------------------------------
(* Timeouts, in minutes *)

defaultGwRetrieveTimeout == 2
defaultGwProbeTimeout == 2
defaultDNSProbeTimeout == 2
apiServerProbeTimeout == 2
nodeReadinessProbeTimeout == 2

DesiredStateConfigurationTimeout == (defaultGwProbeTimeout + apiServerProbeTimeout) * 2

ProbesTotalTimeout ==
    defaultGwRetrieveTimeout + defaultDNSProbeTimeout + defaultDNSProbeTimeout
        + apiServerProbeTimeout + nodeReadinessProbeTimeout

worstCaseApplyCycle == DesiredStateConfigurationTimeout + 3 * ProbesTotalTimeout

DefaultStaleEnactmentThreshold == worstCaseApplyCycle + 5

\* Mutation of StaleEnactmentThreshold: every positive override is honored.
AnyOverride(override) == IF override <= 0 THEN DefaultStaleEnactmentThreshold ELSE override

\* An override is honored only above the worst case.
StaleEnactmentThreshold(override) ==
    IF override <= worstCaseApplyCycle THEN DefaultStaleEnactmentThreshold ELSE override

externalConnectivityProbes == <<"ping", "dns">>

internalConnectivityProbes == <<"api-server", "node-readiness">>

\* How long a probe may take.  The condition of the dns probe does not heed
\* the deadline it is polled under: it asks every name server in turn, each
\* with the whole timeout, and may start just before the deadline.
ProbeTime(p) ==
    CASE p = "ping" -> defaultGwProbeTimeout
      [] p = "dns" -> defaultDNSProbeTimeout + NameServers * defaultDNSProbeTimeout
      [] p = "api-server" -> apiServerProbeTimeout
      [] p = "node-readiness" -> nodeReadinessProbeTimeout

-----------------------------------------------------------------------------

\* Set and three runs of all the probes.
MaxTime ==
    DesiredStateConfigurationTimeout
        + 3 * (ProbeTime("ping") + ProbeTime("dns") + ProbeTime("api-server")
                   + ProbeTime("node-readiness"))

AllProbes == externalConnectivityProbes \o internalConnectivityProbes

Probes == {AllProbes[i] : i \in DOMAIN AllProbes}

TypeOK ==
    /\ pc \in {"idle", "select", "rollbackFirst", "set", "run", "rollback", "rerun", "commit",
               "return"}
    /\ desired \in Configs \cup {Empty}
    /\ result \in {"none", "running", "ok", "error"}
    /\ probes \in Seq(Probes)
    /\ todo \in Seq(Probes)
    /\ elapsed \in 0..MaxTime
    /\ active \in Configs \cup {Partial}
    /\ saved \in Configs
    /\ checkpoint \in 0..DesiredStateConfigurationTimeout
    /\ threshold \in Nat

Init ==
    /\ pc = "idle"
    /\ desired = Initial
    /\ result = "none"
    /\ probes = <<>>
    /\ todo = <<>>
    /\ elapsed = 0
    /\ active = Initial
    /\ saved = Initial
    /\ checkpoint = 0
    /\ threshold \in {StaleEnactmentThreshold(o) : o \in Overrides}

\* t minutes pass: a checkpoint that expires restores what it saved.
Pass(t) ==
    /\ elapsed' = elapsed + t
    /\ \/ checkpoint > t /\ checkpoint' = checkpoint - t /\ UNCHANGED active
       \/ checkpoint \in 1..t /\ checkpoint' = 0 /\ active' = saved
       \/ checkpoint = 0 /\ UNCHANGED <<checkpoint, active>>

\* ApplyDesiredState returns.
Return(res) ==
    /\ pc' = "idle"
    /\ result' = res
    /\ probes' = <<>>
    /\ todo' = <<>>

\* There is nothing to do for an empty desired state.
CallEmpty ==
    /\ pc = "idle"
    /\ desired' = Empty
    /\ result' = "ok"
    /\ elapsed' = 0
    /\ UNCHANGED <<pc, probes, todo, active, saved, checkpoint, threshold>>

Call ==
    /\ pc = "idle"
    /\ desired' \in Configs
    /\ result' = "running"
    /\ elapsed' = 0
    /\ pc' = "select"
    /\ probes' = <<>>
    /\ todo' = externalConnectivityProbes
    /\ UNCHANGED <<active, saved, checkpoint, threshold>>

\* probe.Select: of the external probes those that work now, then the
\* internal ones.
Select ==
    /\ pc = "select"
    /\ \E t \in 0..ProbeTime(Head(todo)), works \in BOOLEAN :
          /\ Pass(t)
          /\ LET found == IF works THEN Append(probes, Head(todo)) ELSE probes IN
             IF Len(todo) > 1
             THEN probes' = found /\ UNCHANGED pc
             ELSE probes' = found \o internalConnectivityProbes /\ pc' = "rollbackFirst"
    /\ todo' = Tail(todo)
    /\ UNCHANGED <<desired, result, saved, threshold>>

\* nmstatectl.Rollback of what an interrupted call left; its error, also the
\* one that there is no checkpoint, is ignored.
RollbackFirst ==
    /\ pc = "rollbackFirst"
    /\ pc' = "set"
    /\ \/ checkpoint > 0 /\ checkpoint' = 0 /\ active' = saved
       \/ UNCHANGED <<checkpoint, active>>
    /\ UNCHANGED <<desired, result, probes, todo, elapsed, saved, threshold>>

\* nmstatectl.Set: apply without commit.  nmstate refuses to start while a
\* checkpoint is pending, and undoes what it did when it fails.
Set ==
    /\ pc = "set"
    /\ \/ \E t \in 0..(DesiredStateConfigurationTimeout - 1) :
             /\ checkpoint = 0
             /\ checkpoint' = DesiredStateConfigurationTimeout - t
             /\ active' = desired
             /\ elapsed' = elapsed + t
             /\ todo' = probes
             /\ pc' = "run"
             /\ UNCHANGED <<result, probes>>
       \/ \E t \in 0..DesiredStateConfigurationTimeout : Pass(t) /\ Return("error")
    /\ UNCHANGED <<desired, saved, threshold>>

\* probe.Run after the change: the first probe that fails, or nmstatectl
\* failing to show the state, calls for a rollback.
Run ==
    /\ pc = "run"
    /\ \E t \in 0..ProbeTime(Head(todo)), works \in BOOLEAN :
          /\ Pass(t)
          /\ pc' = IF ~works THEN "rollback" ELSE IF Len(todo) > 1 THEN "run" ELSE "commit"
    /\ todo' = Tail(todo)
    /\ UNCHANGED <<desired, result, probes, saved, threshold>>

\* Mutation of Commit: a commit that fails is not noticed.
CommitUnchecked ==
    /\ pc = "commit"
    /\ \/ checkpoint > 0 /\ saved' = active /\ checkpoint' = 0
       \/ UNCHANGED <<saved, checkpoint>>
    /\ pc' = "return"
    /\ UNCHANGED <<desired, result, probes, todo, elapsed, active, threshold>>

\* nmstatectl.Commit makes the change permanent and drops the checkpoint; it
\* fails if the checkpoint expired, and may fail otherwise.
Commit ==
    /\ pc = "commit"
    /\ \/ /\ checkpoint > 0 /\ checkpoint' = 0 /\ saved' = active
          /\ pc' = "return"
          /\ UNCHANGED <<result, probes, todo>>
       \/ Return("error") /\ UNCHANGED <<saved, checkpoint>>
    /\ UNCHANGED <<desired, elapsed, active, threshold>>

\* The handler learns that the commit succeeded and returns.
ReturnOutput ==
    /\ pc = "return"
    /\ Return("ok")
    /\ UNCHANGED <<desired, elapsed, active, saved, checkpoint, threshold>>

\* rollback: nmstatectl.Rollback, which fails like Commit, then the probes.
Rollback ==
    /\ pc = "rollback"
    /\ \/ /\ checkpoint > 0 /\ checkpoint' = 0 /\ active' = saved
          /\ todo' = probes
          /\ pc' = "rerun"
          /\ UNCHANGED <<result, probes>>
       \/ Return("error") /\ UNCHANGED <<checkpoint, active>>
    /\ UNCHANGED <<desired, elapsed, saved, threshold>>

\* probe.Run after the rollback; its outcome is an error in any case.
Rerun ==
    /\ pc = "rerun"
    /\ \E t \in 0..ProbeTime(Head(todo)), works \in BOOLEAN :
          /\ Pass(t)
          /\ IF works /\ Len(todo) > 1
             THEN todo' = Tail(todo) /\ UNCHANGED <<pc, result, probes>>
             ELSE Return("error")
    /\ UNCHANGED <<desired, saved, threshold>>

\* The handler dies, and nmstatectl with it if it is running: before or after
\* its effect, or in the middle of a change.
Crash ==
    /\ pc # "idle"
    /\ Return("none")
    /\ \/ UNCHANGED <<checkpoint, active>>
       \/ /\ pc = "set" /\ checkpoint = 0
          /\ checkpoint' = DesiredStateConfigurationTimeout
          /\ active' \in {desired, Partial}
    /\ UNCHANGED <<desired, elapsed, saved, threshold>>

\* Time passes between two calls.
Tick ==
    /\ pc = "idle"
    /\ checkpoint > 0
    /\ checkpoint' = checkpoint - 1
    /\ active' = IF checkpoint = 1 THEN saved ELSE active
    /\ UNCHANGED <<pc, desired, result, probes, todo, elapsed, saved, threshold>>

Step ==
    \/ Select \/ RollbackFirst \/ Set \/ Run \/ Commit \/ ReturnOutput \/ Rollback \/ Rerun

Next == Call \/ CallEmpty \/ Step \/ Crash \/ Tick

Spec == Init /\ [][Next]_vars

-----------------------------------------------------------------------------

Transaction == INSTANCE TransactionalApply WITH
    configured <- saved, requested <- desired,
    result <- IF pc = "return" THEN "committed" ELSE result

\* To its caller ApplyDesiredState is a transaction: after success the node
\* keeps the desired state, after an error it keeps what it had, and a call
\* that is killed anywhere has done all of it or nothing, even if the
\* checkpoint expires under slow probes or a call is interrupted and repeated.
IsTransactional == Transaction!Spec

\* audit.go: the staleness threshold exceeds the longest time that the apply
\* of a live holder takes, so no audit takes its slot away.
ApplyFitsTheThreshold == elapsed < threshold
=============================================================================
