------------------------ MODULE TransactionalApply ------------------------
(***************************************************************************)
(* What applying a desired state promises the policy reconciler: the node  *)
(* keeps the desired state when the call reports success, and what it had  *)
(* when the call reports an error.  A call that is cut short has done all  *)
(* of it or nothing; its caller does not learn which.                      *)
(***************************************************************************)
CONSTANTS
    Configs,  \* network configurations of the node
    Empty,    \* the request to change nothing
    Initial   \* the one it starts with

VARIABLES
    configured,  \* what the node keeps
    requested,   \* the desired state of the latest call
    result       \* what became of that call

InProgress == result \in {"running", "committed"}

Init == configured = Initial /\ requested = Initial /\ result = "none"

Call ==
    /\ ~InProgress
    /\ requested' \in Configs
    /\ result' = "running"
    /\ UNCHANGED configured

CallEmpty ==
    /\ ~InProgress
    /\ requested' = Empty
    /\ result' = "ok"
    /\ UNCHANGED configured

\* The only step that changes what the node keeps.
Commit ==
    /\ result = "running"
    /\ result' = "committed"
    /\ configured' = requested
    /\ UNCHANGED requested

Succeed ==
    /\ result = "committed"
    /\ result' = "ok"
    /\ UNCHANGED <<configured, requested>>

Fail ==
    /\ result = "running"
    /\ result' = "error"
    /\ UNCHANGED <<configured, requested>>

\* The handler dies.
CutShort ==
    /\ InProgress
    /\ result' = "none"
    /\ UNCHANGED <<configured, requested>>

Next == Call \/ CallEmpty \/ Commit \/ Succeed \/ Fail \/ CutShort

Spec == Init /\ [][Next]_<<configured, requested, result>>
=============================================================================
