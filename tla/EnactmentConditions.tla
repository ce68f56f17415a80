------------------------ MODULE EnactmentConditions ------------------------
(***************************************************************************)
(* The condition list of a NodeNetworkConfigurationEnactment: what each    *)
(* setter of pkg/enactmentstatus/conditions writes and what the predicates *)
(* of pkg/enactmentstatus and pkg/node/audit.go read.                      *)
(*                                                                         *)
(* A list holds five conditions.  Every setter writes all five, so a list  *)
(* is a record with one status per condition ("Absent": the condition is   *)
(* not in the list).  Of the reasons only the one of the Progressing       *)
(* condition is ever read, and only to recognise the finalizing phase.     *)
(***************************************************************************)

Statuses == {"Absent", "Unknown", "False", "True"}

Reasons == {"", "ConfigurationProgressing", "ConfigurationFinalizing"}

ConditionLists == [failing : Statuses, progressing : Statuses,
                   available : Statuses, pending : Statuses,
                   aborted : Statuses, reason : Reasons]

\* The empty list that resetPolicyGeneration leaves behind.
NoConditions ==
    [failing |-> "Absent", progressing |-> "Absent", available |-> "Absent",
     pending |-> "Absent", aborted |-> "Absent", reason |-> ""]

\* The list of a new enactment.
UnknownConditions ==
    [failing |-> "Unknown", progressing |-> "Unknown", available |-> "Unknown",
     pending |-> "Unknown", aborted |-> "Unknown", reason |-> ""]

\* No setter but the ones below is used.
AllFalse ==
    [failing |-> "False", progressing |-> "False", available |-> "False",
     pending |-> "False", aborted |-> "False", reason |-> ""]

SetRetry == [AllFalse EXCEPT !.failing = "True", !.progressing = "True"]

SetFailed == [AllFalse EXCEPT !.failing = "True"]

SetAborted == [AllFalse EXCEPT !.aborted = "True"]

SetSuccess == [AllFalse EXCEPT !.available = "True"]

SetPending == [AllFalse EXCEPT !.pending = "True"]

SetProgressing ==
    [failing |-> "Unknown", progressing |-> "True", available |-> "Unknown",
     pending |-> "False", aborted |-> "False",
     reason |-> "ConfigurationProgressing"]

SetFinalizing == [SetProgressing EXCEPT !.reason = "ConfigurationFinalizing"]

-----------------------------------------------------------------------------

IsProgressing(c) == c.progressing = "True"

IsFinalizing(c) ==
    c.progressing = "True" /\ c.reason = "ConfigurationFinalizing"

IsAvailable(c) == c.available = "True"

IsRetrying(c) == c.failing = "True" /\ c.progressing = "True"

\* isTerminallyFailed of the audit, and the filter of shouldAbortReconcile.
IsTerminallyFailed(c) == c.progressing = "False" /\ c.failing = "True"

=============================================================================
