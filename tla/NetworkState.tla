--------------------------- MODULE NetworkState ---------------------------
(***************************************************************************)
(* The network state of a node as nmstate shows it, and the functions of   *)
(* pkg/state on it: what is filtered out before the state is reported and  *)
(* what the metrics count.                                                 *)
(*                                                                         *)
(* An interface is a record [name, type, state, timers, lifetimes], where  *)
(* timers and lifetimes are the attributes that tick without anybody       *)
(* changing the configuration and 0 is an attribute that is not there.  A  *)
(* route is a record [dest, colon, hop]: its destination, whether that is  *)
(* written with a colon, and its next-hop interface.  The parts of the     *)
(* state that no function looks into (addresses, DNS, OVN) are left out.   *)
(***************************************************************************)
EXTENDS FiniteSets, Integers

\* The status of a NodeNetworkState nobody has filled in: the empty document.
EmptyState == [ifaces |-> {}, running |-> {}, config |-> {}, filled |-> FALSE]

-----------------------------------------------------------------------------
(* Filtering *)

isVeth(i) == i.type = "veth"

isUnmanaged(i) == i.state = "ignore"

filterOutBridgeDynamicAttributes(i) ==
    IF i.type = "linux-bridge" THEN [i EXCEPT !.timers = 0] ELSE i

filterOutAddressLifetimes(i) == [i EXCEPT !.lifetimes = 0]

\* Mutation of filterOutDynamicAttributes: the attributes that tick stay.
keepDynamicAttributes(i) == i

filterOutDynamicAttributes(i) ==
    filterOutAddressLifetimes(filterOutBridgeDynamicAttributes(i))

filterOutInterfaces(ifaces) ==
    { filterOutDynamicAttributes(i) :
        i \in { j \in ifaces : ~(isVeth(j) /\ isUnmanaged(j)) } }

isInInterfaces(name, ifaces) == \E i \in ifaces : i.name = name

filterOutRoutes(routes, ifaces) ==
    { r \in routes : isInInterfaces(r.hop, ifaces) }

filterOut(s) ==
    LET ifaces == filterOutInterfaces(s.ifaces)
    IN  [s EXCEPT !.ifaces = ifaces,
                  !.running = filterOutRoutes(s.running, ifaces),
                  !.config = filterOutRoutes(s.config, ifaces)]

-----------------------------------------------------------------------------
(* Counting *)

CountInterfacesByType(s) ==
    [t \in { i.type : i \in s.ifaces } \ {""} |->
        Cardinality({ i \in s.ifaces : i.type = t })]

getIPStack(r) == IF r.colon THEN "ipv6" ELSE "ipv4"

\* Static routes are told by their destination alone.
RouteKey(r, s) ==
    [stack |-> getIPStack(r),
     type |-> IF \E c \in s.config : c.dest = r.dest THEN "static" ELSE "dynamic"]

CountRoutes(s) ==
    [k \in { RouteKey(r, s) : r \in s.running } |->
        Cardinality({ r \in s.running : RouteKey(r, s) = k })]

=============================================================================
