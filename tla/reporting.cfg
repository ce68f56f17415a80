SPECIFICATION FairSpec
CONSTANTS
    HostStates <- MCHostStates
    FirstState <- MCFirstState
    MaxEvents = 3
    Hazards = {"crash", "refused", "lost", "deleted", "node", "slowWatch"}
    Enactments <- MCEnactments
    NodeLabel <- MCNodeLabel
    EnactmentValues <- MCEnactmentValues
    Policies <- MCPolicies
    PolicyValues <- MCPolicyValues
INVARIANT GaugesAreRemembered
INVARIANT GaugesLagOnlyWhenDue
INVARIANT NodeIsNotForgotten
PROPERTY WritesAreNews
PROPERTY SilenceMeansReported
PROPERTY NodeHasReport
PROPERTY ReportedUnlessDisturbed
PROPERTY GaugesSettle
