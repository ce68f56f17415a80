SPECIFICATION FairSpec
CONSTANTS
    Nodes = {n1,n2}
    MaxVersions = 4
    MaxEvents = 1
    Hazards = {"relist"}
CHECK_DEADLOCK FALSE
INVARIANT AvailableIsTrue
INVARIANT RestMeansFollowed
PROPERTY EnactmentsFollowThePolicy
