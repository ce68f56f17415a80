----------------------------- MODULE MCMetrics -----------------------------
(* Values for model-checking NodeReport and Metrics. *)
EXTENDS Metrics

Iface(name, type, state, timers, lifetimes) ==
    [name |-> name, type |-> type, state |-> state,
     timers |-> timers, lifetimes |-> lifetimes]

Route(dest, colon, hop) == [dest |-> dest, colon |-> colon, hop |-> hop]

State(ifaces, running, config) ==
    [ifaces |-> ifaces, running |-> running, config |-> config, filled |-> TRUE]

Default == Route("default", FALSE, "eth0")

\* A node with one interface.
MCFirstState ==
    State({Iface("eth0", "ethernet", "up", 0, 2)}, {Default}, {})

\* The same node with the veth of a pod, a route through it and less time left
\* on an address; and with a bridge that has a static IPv6 route.
MCHostStates ==
    { MCFirstState,
      State({Iface("eth0", "ethernet", "up", 0, 1), Iface("veth1", "veth", "ignore", 0, 0)},
            {Default, Route("pod", FALSE, "veth1")}, {}),
      State({Iface("eth0", "ethernet", "up", 0, 1), Iface("br1", "linux-bridge", "up", 7, 0)},
            {Default, Route("lan", TRUE, "br1")}, {Route("lan", TRUE, "br1")}) }

MCNodeLabel == [e1 |-> "n1", e2 |-> ""]

MCEnactments == DOMAIN MCNodeLabel

MCEnactmentValues ==
    { [features |-> {"f"}, conditions |-> <<"Failing", "Progressing">>],
      [features |-> {}, conditions |-> <<"Available">>] }

MCPolicies == {"p1"}

MCPolicyValues ==
    { [conditions |-> <<>>], [conditions |-> <<"Available">>] }

=============================================================================
