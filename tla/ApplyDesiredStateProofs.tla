--------------------- MODULE ApplyDesiredStateProofs ---------------------
(***************************************************************************)
(* ApplyDesiredState is a transaction, for every set of configurations,    *)
(* number of name servers and threshold; and with up to four name servers  *)
(* it is over before the audit of slots takes it for dead.                 *)
(***************************************************************************)
EXTENDS ApplyDesiredState, SequenceTheorems, TLAPS

\* While a call runs and its checkpoint is alive, the configuration it would
\* commit is the desired one.
TransactionInv ==
    /\ checkpoint \in Nat
    /\ result \in {"none", "running", "ok", "error"}
    /\ pc = "idle" <=> result # "running"
    /\ pc # "idle" => desired \in Configs
    /\ pc \in {"run", "commit"} /\ checkpoint > 0 => active = desired

\* Before the first apply no call runs.
LEMMA TransactionInit == Init => TransactionInv
BY DEF Init, TransactionInv

\* Time that passes keeps what the checkpoint is about.
LEMMA PassKeeps ==
    ASSUME TransactionInv, NEW t \in Nat, Pass(t)
    PROVE  /\ checkpoint' \in Nat
           /\ checkpoint' > 0 => checkpoint > 0 /\ active' = active
BY DEF TransactionInv, Pass

\* Every step of an apply keeps the invariant.
LEMMA TransactionNext == TransactionInv /\ [Next]_vars => TransactionInv'
<1> SUFFICES ASSUME TransactionInv, [Next]_vars PROVE TransactionInv'
  OBVIOUS
<1>1. CASE Call
  BY <1>1 DEF Call, TransactionInv
<1>2. CASE CallEmpty
  BY <1>2 DEF CallEmpty, TransactionInv
<1>3. CASE Select
  <2>1. PICK t \in 0..ProbeTime(Head(todo)) : Pass(t)
    BY <1>3 DEF Select
  <2>2. t \in Nat
    BY <2>1
  <2>3. pc' \in {"select", "rollbackFirst"} /\ pc = "select"
    BY <1>3 DEF Select
  <2>4. UNCHANGED <<desired, result, saved>>
    BY <1>3 DEF Select
  <2> QED
    BY <2>1, <2>2, <2>3, <2>4, PassKeeps DEF TransactionInv
<1>4. CASE RollbackFirst
  BY <1>4 DEF RollbackFirst, TransactionInv
<1>5. CASE Set
  <2>1. CASE checkpoint = 0 /\ pc' = "run"
    <3>1. PICK t \in 0..(DesiredStateConfigurationTimeout - 1) :
             checkpoint' = DesiredStateConfigurationTimeout - t
      BY <1>5, <2>1 DEF Set, Return
    <3>2. checkpoint' \in Nat /\ checkpoint' > 0
      BY <3>1 DEF DesiredStateConfigurationTimeout, defaultGwProbeTimeout, apiServerProbeTimeout
    <3>3. active' = desired /\ UNCHANGED <<desired, result, saved>> /\ pc = "set"
      BY <1>5, <2>1 DEF Set, Return
    <3> QED
      BY <2>1, <3>2, <3>3 DEF TransactionInv
  <2>2. CASE \E t \in 0..DesiredStateConfigurationTimeout : Pass(t) /\ Return("error")
    <3>1. PICK t \in 0..DesiredStateConfigurationTimeout : Pass(t) /\ Return("error")
      BY <2>2
    <3>2. t \in Nat /\ UNCHANGED <<desired, saved>>
      BY <1>5, <3>1 DEF Set
    <3> QED
      BY <3>1, <3>2, PassKeeps DEF TransactionInv, Return
  <2> QED
    BY <1>5, <2>1, <2>2 DEF Set
<1>6. CASE Run
  <2>1. PICK t \in 0..ProbeTime(Head(todo)) : Pass(t)
    BY <1>6 DEF Run
  <2>2. t \in Nat
    BY <2>1
  <2>3. pc' \in {"run", "rollback", "commit"} /\ pc = "run"
    BY <1>6 DEF Run
  <2>4. UNCHANGED <<desired, result, saved>>
    BY <1>6 DEF Run
  <2> QED
    BY <2>1, <2>2, <2>3, <2>4, PassKeeps DEF TransactionInv
<1>7. CASE Commit
  BY <1>7 DEF Commit, Return, TransactionInv
<1>8. CASE Rollback
  BY <1>8 DEF Rollback, Return, TransactionInv
<1>9. CASE Rerun
  <2>1. PICK t \in 0..ProbeTime(Head(todo)) : Pass(t)
    BY <1>9 DEF Rerun
  <2>2. t \in Nat
    BY <2>1
  <2>3. \/ pc' = "rerun" /\ UNCHANGED result
        \/ pc' = "idle" /\ result' = "error"
    BY <1>9 DEF Rerun, Return
  <2>4. UNCHANGED <<desired, saved>> /\ pc = "rerun"
    BY <1>9 DEF Rerun
  <2> QED
    BY <2>1, <2>2, <2>3, <2>4, PassKeeps DEF TransactionInv
<1>10. CASE Crash
  BY <1>10 DEF Crash, Return, TransactionInv,
     DesiredStateConfigurationTimeout, defaultGwProbeTimeout, apiServerProbeTimeout
<1>11. CASE Tick
  BY <1>11 DEF Tick, TransactionInv
<1>12. CASE UNCHANGED vars
  BY <1>12 DEF vars, TransactionInv
<1>13. CASE ReturnOutput
  BY <1>13 DEF ReturnOutput, Return, TransactionInv
<1> QED
  BY <1>1, <1>2, <1>3, <1>4, <1>5, <1>6, <1>7, <1>8, <1>9, <1>10, <1>11, <1>12, <1>13
  DEF Next, Step

\* The invariant holds in every reachable state.
LEMMA TransactionInvariance == Spec => []TransactionInv
<1> QED
  BY TransactionInit, TransactionNext, PTL DEF Spec

\* ApplyDesiredState implements the transaction its callers rely on: every
\* one of its steps is the begin, the commit, the success, the failure or the
\* end by a crash of a call, or invisible to them.  What it keeps changes only
\* by the commit; a call that is killed after it is not reported as failed.
THEOREM ApplyIsTransactional == Spec => IsTransactional
<1>1. Init => Transaction!Init
  BY DEF Init, Transaction!Init
<1> DEFINE outcome == IF pc = "return" THEN "committed" ELSE result
<1>2. TransactionInv /\ [Next]_vars => [Transaction!Next]_<<saved, desired, outcome>>
  <2> SUFFICES ASSUME TransactionInv, [Next]_vars
               PROVE  [Transaction!Next]_<<saved, desired, outcome>>
    OBVIOUS
  <2> USE DEF Transaction!Next, Transaction!InProgress, Transaction!Call,
              Transaction!CallEmpty, Transaction!Commit, Transaction!Succeed,
              Transaction!Fail, Transaction!CutShort
  <2>1. CASE Call
    BY <2>1 DEF Call, TransactionInv
  <2>2. CASE CallEmpty
    BY <2>2 DEF CallEmpty, TransactionInv
  <2>3. CASE Select
    BY <2>3 DEF Select
  <2>4. CASE RollbackFirst
    BY <2>4 DEF RollbackFirst
  <2>5. CASE Set
    BY <2>5 DEF Set, Return, TransactionInv
  <2>6. CASE Run
    BY <2>6 DEF Run
  <2>7. CASE Commit
    BY <2>7 DEF Commit, Return, TransactionInv
  <2>8. CASE Rollback
    BY <2>8 DEF Rollback, Return, TransactionInv
  <2>9. CASE Rerun
    BY <2>9 DEF Rerun, Return, TransactionInv
  <2>10. CASE Crash
    BY <2>10 DEF Crash, Return, TransactionInv
  <2>11. CASE Tick
    BY <2>11 DEF Tick
  <2>12. CASE UNCHANGED vars
    BY <2>12 DEF vars
  <2>13. CASE ReturnOutput
    BY <2>13 DEF ReturnOutput, Return, TransactionInv
  <2> QED
    BY <2>1, <2>2, <2>3, <2>4, <2>5, <2>6, <2>7, <2>8, <2>9, <2>10, <2>11, <2>12,
       <2>13 DEF Next, Step
<1> QED
  BY <1>1, <1>2, TransactionInvariance, PTL DEF Spec, IsTransactional, Transaction!Spec

-----------------------------------------------------------------------------
(* Time *)

\* The probes that Select may choose, and what is left of them.
WithBoth == <<"ping", "dns", "api-server", "node-readiness">>
WithDns == <<"dns", "api-server", "node-readiness">>
WithPing == <<"ping", "api-server", "node-readiness">>
OnlyInternal == <<"api-server", "node-readiness">>
LastProbe == <<"node-readiness">>

\* What the probes leave when the first of them has run.
LEMMA Pieces ==
    /\ Head(WithBoth) = "ping" /\ Tail(WithBoth) = WithDns /\ Len(WithBoth) = 4
    /\ Head(WithDns) = "dns" /\ Tail(WithDns) = OnlyInternal /\ Len(WithDns) = 3
    /\ Head(WithPing) = "ping" /\ Tail(WithPing) = OnlyInternal /\ Len(WithPing) = 3
    /\ Head(OnlyInternal) = "api-server" /\ Tail(OnlyInternal) = LastProbe /\ Len(OnlyInternal) = 2
    /\ Head(LastProbe) = "node-readiness" /\ Tail(LastProbe) = <<>> /\ Len(LastProbe) = 1
BY DEF WithBoth, WithDns, WithPing, OnlyInternal, LastProbe

\* The same for the external probes alone.
LEMMA Pieces2 ==
    /\ Head(<<"ping", "dns">>) = "ping" /\ Tail(<<"ping", "dns">>) = <<"dns">> /\ Len(<<"ping", "dns">>) = 2
    /\ Head(<<"dns">>) = "dns" /\ Tail(<<"dns">>) = <<>> /\ Len(<<"dns">>) = 1
OBVIOUS

\* Sequences that begin with one element.
LEMMA JoinOne ==
    ASSUME NEW S, NEW a \in S, NEW b \in S, NEW c \in S
    PROVE  /\ <<a>> \o <<b, c>> = <<a, b, c>>
           /\ Append(<<a>>, b) = <<a, b>>
<1>1. /\ <<a>> \in Seq(S) /\ Len(<<a>>) = 1 /\ <<a>>[1] = a
      /\ <<b, c>> \in Seq(S) /\ Len(<<b, c>>) = 2 /\ <<b, c>>[1] = b /\ <<b, c>>[2] = c
  OBVIOUS
<1>2. <<a>> \o <<b, c>> = <<a, b, c>>
  <2> DEFINE s == <<a>> \o <<b, c>>
  <2>1. /\ s \in Seq(S) /\ Len(s) = Len(<<a>>) + Len(<<b, c>>)
        /\ \A i \in 1..(Len(<<a>>) + Len(<<b, c>>)) :
              s[i] = IF i <= Len(<<a>>) THEN <<a>>[i] ELSE <<b, c>>[i - Len(<<a>>)]
    BY <1>1, ConcatProperties, Zenon
  <2> HIDE DEF s
  <2>2. Len(s) = 3 /\ s[1] = a /\ s[2] = b /\ s[3] = c
    BY <1>1, <2>1
  <2>3. s = <<a, b, c>>
    BY <2>1, <2>2
  <2> QED
    BY <2>3 DEF s
<1>3. Append(<<a>>, b) = <<a, b>>
  <2> DEFINE s == Append(<<a>>, b)
  <2>1. /\ s \in Seq(S) /\ Len(s) = Len(<<a>>) + 1
        /\ \A i \in 1..Len(<<a>>) : s[i] = <<a>>[i]
        /\ s[Len(<<a>>) + 1] = b
    BY <1>1, AppendProperties
  <2> HIDE DEF s
  <2>2. Len(s) = 2 /\ s[1] = a /\ s[2] = b
    BY <1>1, <2>1
  <2>3. s = <<a, b>>
    BY <2>1, <2>2
  <2> QED
    BY <2>3 DEF s
<1> QED
  BY <1>2, <1>3

\* Sequences that begin with two elements.
LEMMA JoinTwo ==
    ASSUME NEW S, NEW a \in S, NEW b \in S, NEW c \in S, NEW d \in S
    PROVE  <<a, b>> \o <<c, d>> = <<a, b, c, d>>
<1>1. /\ <<a, b>> \in Seq(S) /\ Len(<<a, b>>) = 2 /\ <<a, b>>[1] = a /\ <<a, b>>[2] = b
      /\ <<c, d>> \in Seq(S) /\ Len(<<c, d>>) = 2 /\ <<c, d>>[1] = c /\ <<c, d>>[2] = d
  OBVIOUS
<1> DEFINE s == <<a, b>> \o <<c, d>>
<1>2. /\ s \in Seq(S) /\ Len(s) = Len(<<a, b>>) + Len(<<c, d>>)
      /\ \A i \in 1..(Len(<<a, b>>) + Len(<<c, d>>)) :
            s[i] = IF i <= Len(<<a, b>>) THEN <<a, b>>[i] ELSE <<c, d>>[i - Len(<<a, b>>)]
  BY <1>1, ConcatProperties, Zenon
<1> HIDE DEF s
<1>3. Len(s) = 4 /\ s[1] = a /\ s[2] = b /\ s[3] = c /\ s[4] = d
  BY <1>1, <1>2
<1>4. s = <<a, b, c, d>>
  BY <1>2, <1>3
<1> QED
  BY <1>4 DEF s

\* probe.Select collects one of four sequences of probes.
LEMMA Joins ==
    /\ Append(<<>>, "ping") = <<"ping">>
    /\ Append(<<>>, "dns") = <<"dns">>
    /\ Append(<<"ping">>, "dns") = <<"ping", "dns">>
    /\ <<>> \o internalConnectivityProbes = OnlyInternal
    /\ <<"ping">> \o internalConnectivityProbes = WithPing
    /\ <<"dns">> \o internalConnectivityProbes = WithDns
    /\ <<"ping", "dns">> \o internalConnectivityProbes = WithBoth
<1> DEFINE W == {"ping", "dns", "api-server", "node-readiness"}
<1>1. Append(<<>>, "ping") = <<"ping">> /\ Append(<<>>, "dns") = <<"dns">>
  OBVIOUS
<1>2. <<>> \o internalConnectivityProbes = OnlyInternal
  BY DEF OnlyInternal, internalConnectivityProbes
<1>3. "ping" \in W /\ "dns" \in W /\ "api-server" \in W /\ "node-readiness" \in W
  OBVIOUS
<1> HIDE DEF W
<1>4. /\ Append(<<"ping">>, "dns") = <<"ping", "dns">>
      /\ <<"ping">> \o <<"api-server", "node-readiness">> = <<"ping", "api-server", "node-readiness">>
      /\ <<"dns">> \o <<"api-server", "node-readiness">> = <<"dns", "api-server", "node-readiness">>
  BY <1>3, JoinOne, Zenon
<1>5. <<"ping", "dns">> \o <<"api-server", "node-readiness">>
        = <<"ping", "dns", "api-server", "node-readiness">>
  BY <1>3, JoinTwo, ZenonT(30)
<1> QED
  BY <1>1, <1>2, <1>4, <1>5, Zenon DEF WithBoth, WithDns, WithPing, OnlyInternal, internalConnectivityProbes

\* The longest time a name server lookup, the selection of probes and a whole
\* apply may take.
DnsTime == 2 + 2 * NameServers
SelectTime == 2 + DnsTime
ApplyTime == SelectTime + 7 + 6 + DnsTime

\* The timeouts of the code, in minutes.
LEMMA ProbeTimes ==
    /\ ProbeTime("ping") = 2
    /\ ProbeTime("dns") = DnsTime
    /\ ProbeTime("api-server") = 2
    /\ ProbeTime("node-readiness") = 2
    /\ DnsTime \in Nat /\ DnsTime >= 2
    /\ DesiredStateConfigurationTimeout = 8
BY TimesAssumption
DEF ProbeTime, DnsTime, defaultGwProbeTimeout, defaultDNSProbeTimeout, apiServerProbeTimeout,
    nodeReadinessProbeTimeout, DesiredStateConfigurationTimeout

\* The probes s are still to run and fit in what is left of the apply.
Fits(s, e) ==
    \/ s = WithBoth /\ e + 6 + DnsTime <= ApplyTime
    \/ s = WithDns /\ e + 4 + DnsTime <= ApplyTime
    \/ s = WithPing /\ e + 6 <= ApplyTime
    \/ s = OnlyInternal /\ e + 4 <= ApplyTime
    \/ s = LastProbe /\ e + 2 <= ApplyTime

\* Where a call is bounds the time it has taken.  A checkpoint started by Set
\* bounds it again when the probes fail: a rollback succeeds only before the
\* checkpoint expires, and leaves time for the probes to run once more.
TimeInv ==
    /\ elapsed \in Nat /\ elapsed <= ApplyTime
    /\ checkpoint \in 0..8
    /\ pc \in {"idle", "select", "rollbackFirst", "set", "run", "rollback", "rerun", "commit",
               "return"}
    /\ pc = "select" =>
          \/ todo = externalConnectivityProbes /\ probes = <<>> /\ elapsed = 0
          \/ todo = <<"dns">> /\ probes \in {<<>>, <<"ping">>} /\ elapsed <= 2
    /\ pc \in {"rollbackFirst", "set"} => elapsed <= SelectTime
    /\ pc \in {"rollbackFirst", "set", "run", "rollback"} =>
          probes \in {WithBoth, WithDns, WithPing, OnlyInternal}
    /\ pc \in {"run", "rerun"} => Fits(todo, elapsed)
    /\ pc \in {"run", "rollback"} /\ checkpoint > 0 => elapsed + checkpoint <= SelectTime + 8

\* No time has passed before the first call.
LEMMA TimeInit == Init => TimeInv
BY ProbeTimes DEF Init, TimeInv, ApplyTime, SelectTime

\* While time passes, a checkpoint that is alive comes closer to its end.
LEMMA TimePasses ==
    ASSUME TimeInv, NEW t \in Nat, Pass(t)
    PROVE  /\ elapsed' = elapsed + t /\ elapsed' \in Nat
           /\ checkpoint' \in 0..8
           /\ checkpoint' > 0 => checkpoint > 0 /\ elapsed' + checkpoint' = elapsed + checkpoint
BY DEF TimeInv, Pass

\* Running the first of the probes leaves the others, and the time they need.
LEMMA ProbeFits ==
    ASSUME Fits(todo, elapsed), elapsed \in Nat,
           NEW t \in 0..ProbeTime(Head(todo))
    PROVE  /\ elapsed + t <= ApplyTime
           /\ Len(todo) > 1 => Fits(Tail(todo), elapsed + t)
<1> USE ProbeTimes DEF ApplyTime, SelectTime
<1>1. CASE todo = WithBoth
  BY <1>1, Pieces DEF Fits
<1>2. CASE todo = WithDns
  BY <1>2, Pieces DEF Fits
<1>3. CASE todo = WithPing
  BY <1>3, Pieces DEF Fits
<1>4. CASE todo = OnlyInternal
  BY <1>4, Pieces DEF Fits
<1>5. CASE todo = LastProbe
  BY <1>5, Pieces DEF Fits
<1> QED
  BY <1>1, <1>2, <1>3, <1>4, <1>5 DEF Fits

\* After Set, and after a rollback, there is time for every selection.
LEMMA AllFit ==
    ASSUME NEW s \in {WithBoth, WithDns, WithPing, OnlyInternal}, NEW e \in Nat, e <= SelectTime + 7
    PROVE  Fits(s, e)
BY ProbeTimes DEF Fits, ApplyTime, SelectTime

\* Every step of an apply keeps the bounds.
LEMMA TimeNext == TimeInv /\ [Next]_vars => TimeInv'
<1> SUFFICES ASSUME TimeInv, [Next]_vars PROVE TimeInv'
  OBVIOUS
<1>0. SelectTime \in Nat /\ ApplyTime \in Nat /\ SelectTime + 8 <= ApplyTime
  BY ProbeTimes DEF ApplyTime, SelectTime
<1>1. CASE Call
  BY <1>0, <1>1 DEF Call, TimeInv
<1>2. CASE CallEmpty
  BY <1>0, <1>2 DEF CallEmpty, TimeInv
<1>3. CASE Select
  <2>1. PICK t \in 0..ProbeTime(Head(todo)), works \in BOOLEAN :
          /\ Pass(t)
          /\ LET found == IF works THEN Append(probes, Head(todo)) ELSE probes IN
             IF Len(todo) > 1
             THEN probes' = found /\ UNCHANGED pc
             ELSE probes' = found \o internalConnectivityProbes /\ pc' = "rollbackFirst"
    BY <1>3 DEF Select
  <2>2. pc = "select" /\ todo' = Tail(todo)
    BY <1>3 DEF Select
  <2>3. CASE todo = externalConnectivityProbes /\ probes = <<>> /\ elapsed = 0
    <3>1. Head(todo) = "ping" /\ Tail(todo) = <<"dns">> /\ Len(todo) = 2
      BY <2>3, Pieces2 DEF externalConnectivityProbes
    <3>2. t \in 0..2
      BY <2>1, <3>1, ProbeTimes
    <3>3. probes' \in {<<>>, <<"ping">>} /\ pc' = "select"
      BY <2>1, <2>2, <2>3, <3>1, Joins
    <3> QED
      BY <1>0, <2>1, <2>2, <2>3, <3>1, <3>2, <3>3, TimePasses DEF TimeInv
  <2>4. CASE todo = <<"dns">> /\ probes \in {<<>>, <<"ping">>} /\ elapsed <= 2
    <3>1. Head(todo) = "dns" /\ ~(Len(todo) > 1)
      BY <2>4, Pieces2
    <3>2. t \in Nat /\ t <= DnsTime
      BY <2>1, <3>1, ProbeTimes
    <3>3. pc' = "rollbackFirst"
      BY <2>1, <3>1
    <3>4. probes' \in {WithBoth, WithDns, WithPing, OnlyInternal}
      BY <2>1, <2>4, <3>1, Joins, ZenonT(30)
    <3>5. elapsed' <= SelectTime
      BY <2>1, <2>4, <3>2, TimePasses, ProbeTimes DEF SelectTime, TimeInv
    <3> QED
      BY <1>0, <2>1, <3>2, <3>3, <3>4, <3>5, TimePasses DEF TimeInv
  <2> QED
    BY <2>2, <2>3, <2>4 DEF TimeInv
<1>4. CASE RollbackFirst
  BY <1>0, <1>4 DEF RollbackFirst, TimeInv
<1>5. CASE Set
  <2>1. elapsed <= SelectTime /\ probes \in {WithBoth, WithDns, WithPing, OnlyInternal}
    BY <1>5 DEF Set, TimeInv
  <2>2. CASE \E t \in 0..(DesiredStateConfigurationTimeout - 1) :
             /\ checkpoint' = DesiredStateConfigurationTimeout - t
             /\ elapsed' = elapsed + t
             /\ todo' = probes
             /\ pc' = "run"
             /\ UNCHANGED probes
    <3>1. PICK t \in 0..7 :
             /\ checkpoint' = 8 - t
             /\ elapsed' = elapsed + t
             /\ todo' = probes
             /\ pc' = "run"
             /\ UNCHANGED probes
      BY <2>2, ProbeTimes
    <3>2. elapsed' \in Nat /\ elapsed' <= SelectTime + 7 /\ elapsed' + checkpoint' <= SelectTime + 8
      BY <1>0, <2>1, <3>1 DEF TimeInv
    <3>3. Fits(todo', elapsed')
      BY <2>1, <3>1, <3>2, AllFit
    <3> QED
      BY <1>0, <2>1, <3>1, <3>2, <3>3 DEF TimeInv
  <2>3. CASE \E t \in 0..DesiredStateConfigurationTimeout : Pass(t) /\ Return("error")
    <3>1. PICK t \in 0..8 : Pass(t) /\ Return("error")
      BY <2>3, ProbeTimes
    <3>2. elapsed' <= SelectTime + 8
      BY <1>0, <2>1, <3>1, TimePasses DEF TimeInv
    <3> QED
      BY <1>0, <3>1, <3>2, TimePasses DEF TimeInv, Return
  <2> QED
    BY <1>5, <2>2, <2>3 DEF Set
<1>6. CASE Run
  <2>1. PICK t \in 0..ProbeTime(Head(todo)), works \in BOOLEAN :
          /\ Pass(t)
          /\ pc' = IF ~works THEN "rollback" ELSE IF Len(todo) > 1 THEN "run" ELSE "commit"
    BY <1>6 DEF Run
  <2>2. pc = "run" /\ todo' = Tail(todo) /\ UNCHANGED probes
    BY <1>6 DEF Run
  <2>3. Fits(todo, elapsed) /\ elapsed \in Nat /\ t \in Nat
    BY <2>1, <2>2 DEF TimeInv
  <2>4. elapsed' <= ApplyTime /\ (Len(todo) > 1 => Fits(todo', elapsed'))
    BY <2>1, <2>2, <2>3, ProbeFits, TimePasses
  <2> QED
    BY <1>0, <2>1, <2>2, <2>3, <2>4, TimePasses DEF TimeInv
<1>7. CASE Commit
  BY <1>0, <1>7 DEF Commit, Return, TimeInv
<1>8. CASE Rollback
  <2>1. CASE checkpoint > 0 /\ pc' = "rerun"
    <3>1. elapsed \in Nat /\ elapsed <= SelectTime + 7
      BY <1>0, <1>8, <2>1 DEF Rollback, TimeInv
    <3>2. /\ probes \in {WithBoth, WithDns, WithPing, OnlyInternal} /\ todo' = probes
          /\ elapsed' = elapsed /\ checkpoint' = 0
      BY <1>8, <2>1 DEF Rollback, Return, TimeInv
    <3>3. Fits(todo', elapsed')
      BY <3>1, <3>2, AllFit
    <3> QED
      BY <2>1, <3>1, <3>2, <3>3 DEF TimeInv
  <2>2. CASE Return("error") /\ UNCHANGED <<checkpoint, active>>
    BY <1>8, <2>2 DEF Rollback, Return, TimeInv
  <2> QED
    BY <1>8, <2>1, <2>2 DEF Rollback
<1>9. CASE Rerun
  <2>1. PICK t \in 0..ProbeTime(Head(todo)), works \in BOOLEAN :
          /\ Pass(t)
          /\ IF works /\ Len(todo) > 1
             THEN todo' = Tail(todo) /\ UNCHANGED <<pc, result, probes>>
             ELSE Return("error")
    BY <1>9 DEF Rerun
  <2>2. pc = "rerun"
    BY <1>9 DEF Rerun
  <2>3. Fits(todo, elapsed) /\ elapsed \in Nat /\ t \in Nat
    BY <2>1, <2>2 DEF TimeInv
  <2>4. elapsed' <= ApplyTime /\ (Len(todo) > 1 => Fits(Tail(todo), elapsed'))
    BY <2>1, <2>2, <2>3, ProbeFits, TimePasses
  <2> QED
    BY <1>0, <2>1, <2>2, <2>3, <2>4, TimePasses, ZenonT(30) DEF TimeInv, Return
<1>10. CASE Crash
  BY <1>0, <1>10, ProbeTimes DEF Crash, Return, TimeInv
<1>11. CASE Tick
  BY <1>11 DEF Tick, TimeInv
<1>12. CASE UNCHANGED vars
  BY <1>12 DEF vars, TimeInv
<1>13. CASE ReturnOutput
  BY <1>0, <1>13 DEF ReturnOutput, Return, TimeInv
<1> QED
  BY <1>1, <1>2, <1>3, <1>4, <1>5, <1>6, <1>7, <1>8, <1>9, <1>10, <1>11, <1>12, <1>13
  DEF Next, Step

\* The threshold is never below the default one or the worst case.
LEMMA ThresholdNext ==
    /\ Init => threshold \in Int /\ threshold > 38
    /\ [Next]_vars => UNCHANGED threshold
<1>1. Init => threshold \in Int /\ threshold > 38
  BY TimesAssumption DEF Init, StaleEnactmentThreshold, DefaultStaleEnactmentThreshold,
     worstCaseApplyCycle, DesiredStateConfigurationTimeout, ProbesTotalTimeout,
     defaultGwRetrieveTimeout, defaultGwProbeTimeout, defaultDNSProbeTimeout,
     apiServerProbeTimeout, nodeReadinessProbeTimeout
<1>2. [Next]_vars => UNCHANGED threshold
  BY DEF Next, Step, vars, Call, CallEmpty, Select, RollbackFirst, Set, Run, Commit,
     ReturnOutput, Rollback, Rerun, Crash, Tick
<1> QED
  BY <1>1, <1>2

\* With up to four name servers the apply of a live holder ends before an
\* audit takes its slot for stale (StaleEnactmentThreshold, probe.Select,
\* probe.Run).
THEOREM FourNameServersFit ==
    ASSUME NameServers <= 4
    PROVE  Spec => []ApplyFitsTheThreshold
<1> DEFINE Inv == TimeInv /\ threshold \in Int /\ threshold > 38
<1>1. Init => Inv
  BY TimeInit, ThresholdNext
<1>2. Inv /\ [Next]_vars => Inv'
  BY TimeNext, ThresholdNext
<1>3. Inv => ApplyFitsTheThreshold
  BY TimesAssumption DEF TimeInv, ApplyFitsTheThreshold, ApplyTime, SelectTime, DnsTime
<1> QED
  BY <1>1, <1>2, <1>3, PTL DEF Spec

\* The names of the probes.
LEMMA ProbeNames == {"ping", "dns", "api-server", "node-readiness"} \subseteq Probes
<1>1. AllProbes = WithBoth
  BY Joins, Zenon DEF AllProbes, externalConnectivityProbes
<1>2. /\ DOMAIN WithBoth = 1..4
      /\ WithBoth[1] = "ping" /\ WithBoth[2] = "dns"
      /\ WithBoth[3] = "api-server" /\ WithBoth[4] = "node-readiness"
  BY DEF WithBoth
<1> QED
  BY <1>1, <1>2 DEF Probes

\* The sequences of probes that occur.
LEMMA ProbeSeqs ==
    /\ <<>> \in Seq(Probes) /\ externalConnectivityProbes \in Seq(Probes)
    /\ <<"ping">> \in Seq(Probes) /\ <<"dns">> \in Seq(Probes)
    /\ \A s \in {WithBoth, WithDns, WithPing, OnlyInternal, LastProbe} : s \in Seq(Probes)
<1>1. /\ <<>> \in Seq(Probes) /\ externalConnectivityProbes \in Seq(Probes)
      /\ <<"ping">> \in Seq(Probes) /\ <<"dns">> \in Seq(Probes)
  BY ProbeNames DEF externalConnectivityProbes
<1>2. WithBoth \in Seq(Probes)
  BY ProbeNames DEF WithBoth
<1>3. WithDns \in Seq(Probes)
  BY ProbeNames DEF WithDns
<1>4. WithPing \in Seq(Probes)
  BY ProbeNames DEF WithPing
<1>5. OnlyInternal \in Seq(Probes)
  BY ProbeNames DEF OnlyInternal
<1>6. LastProbe \in Seq(Probes)
  BY ProbeNames DEF LastProbe
<1> QED
  BY <1>1, <1>2, <1>3, <1>4, <1>5, <1>6, Zenon

\* The part of the state that no bound on the time is about.
RestOK ==
    /\ desired \in Configs \cup {Empty}
    /\ result \in {"none", "running", "ok", "error"}
    /\ probes \in Seq(Probes)
    /\ todo \in Seq(Probes)
    /\ active \in Configs \cup {Partial}
    /\ saved \in Configs

\* Every step keeps the variables in their sets.
LEMMA RestNext ==
    ASSUME RestOK, TransactionInv, TransactionInv', TimeInv, TimeInv', [Next]_vars
    PROVE  RestOK'
<1>1. ASSUME todo # <<>> PROVE Tail(todo) \in Seq(Probes)
  BY <1>1 DEF RestOK
<1>2. ASSUME NEW t, Pass(t) PROVE active' \in Configs \cup {Partial}
  BY <1>2 DEF Pass, RestOK
<1>3. CASE Call
  BY <1>3, ProbeSeqs DEF Call, RestOK
<1>4. CASE CallEmpty
  BY <1>4 DEF CallEmpty, RestOK
<1>5. CASE Select
  <2>1. todo # <<>>
    BY <1>5, Pieces2 DEF Select, TimeInv, externalConnectivityProbes
  <2>2. active' \in Configs \cup {Partial} /\ pc' \in {"select", "rollbackFirst"}
    BY <1>2, <1>5 DEF Select
  <2>3. probes' \in Seq(Probes)
    BY <2>2, ProbeSeqs, ZenonT(30) DEF TimeInv
  <2> QED
    BY <1>1, <1>5, <2>1, <2>2, <2>3 DEF Select, RestOK
<1>6. CASE RollbackFirst
  BY <1>6 DEF RollbackFirst, RestOK
<1>7. CASE Set
  <2>1. active' \in Configs \cup {Partial}
    BY <1>2, <1>7 DEF Set, TransactionInv
  <2> QED
    BY <1>7, <2>1, ProbeSeqs, ZenonT(30) DEF Set, Return, RestOK
<1>8. CASE Run
  <2>1. todo # <<>>
    BY <1>8, Pieces DEF Run, TimeInv, Fits
  <2> QED
    BY <1>1, <1>2, <1>8, <2>1 DEF Run, RestOK
<1>9. CASE Commit
  <2>1. CASE checkpoint > 0 /\ saved' = active /\ UNCHANGED <<result, probes, todo>>
    BY <1>9, <2>1 DEF Commit, RestOK, TransactionInv
  <2>2. CASE Return("error") /\ UNCHANGED saved
    BY <1>9, <2>2, ProbeSeqs DEF Commit, Return, RestOK
  <2> QED
    BY <1>9, <2>1, <2>2 DEF Commit
<1>10. CASE Rollback
  BY <1>10, ProbeSeqs, ZenonT(30) DEF Rollback, Return, RestOK
<1>11. CASE Rerun
  <2>1. todo # <<>>
    BY <1>11, Pieces DEF Rerun, TimeInv, Fits
  <2> QED
    BY <1>1, <1>2, <1>11, <2>1, ProbeSeqs, ZenonT(30) DEF Rerun, Return, RestOK
<1>12. CASE Crash
  BY <1>12, ProbeSeqs DEF Crash, Return, RestOK, TransactionInv
<1>13. CASE Tick
  BY <1>13 DEF Tick, RestOK
<1>14. CASE UNCHANGED vars
  BY <1>14 DEF vars, RestOK
<1>15. CASE ReturnOutput
  BY <1>15, ProbeSeqs DEF ReturnOutput, Return, RestOK
<1> QED
  BY <1>3, <1>4, <1>5, <1>6, <1>7, <1>8, <1>9, <1>10, <1>11, <1>12, <1>13, <1>14,
     <1>15 DEF Next, Step

\* An apply stays within its types, and within the time of Set and three runs
\* of all the probes, for every number of name servers (ApplyDesiredState,
\* probe.Select, probe.Run).
THEOREM ApplyTypes == Spec => []TypeOK
<1> DEFINE Inv == TransactionInv /\ TimeInv /\ RestOK /\ threshold \in Int /\ threshold > 38
<1>1. Init => Inv
  <2>1. Init => RestOK
    BY ConfigsAssumption, ProbeSeqs DEF Init, RestOK
  <2> QED
    BY <2>1, TransactionInit, TimeInit, ThresholdNext
<1>2. Inv /\ [Next]_vars => Inv'
  BY TransactionNext, TimeNext, RestNext, ThresholdNext
<1>3. Inv => TypeOK
  <2>1. MaxTime = 32 + 6 * NameServers
    BY ProbeTimes, TimesAssumption DEF MaxTime, DnsTime
  <2>2. ApplyTime \in Nat /\ ApplyTime <= MaxTime
    BY <2>1, TimesAssumption DEF ApplyTime, SelectTime, DnsTime
  <2> QED
    BY <2>1, <2>2, ProbeTimes, TimesAssumption DEF TimeInv, RestOK, TypeOK
<1> QED
  BY <1>1, <1>2, <1>3, PTL DEF Spec
=============================================================================
