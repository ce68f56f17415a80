SPECIFICATION FairSpec
CONSTANTS
    HostStates <- MCHostStates
    FirstState <- MCFirstState
    MaxEvents = 2
    Hazards = {"deleted"}
    Enactments <- MCEnactments
    NodeLabel <- MCNodeLabel
    EnactmentValues <- MCEnactmentValues
    Policies <- MCPolicies
    PolicyValues <- MCPolicyValues
PROPERTY StateIsReported
