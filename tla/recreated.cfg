SPECIFICATION Spec
CONSTANTS
    Nodes = {n1}
    MaxVersions = 4
    MaxEvents = 0
    Hazards = {"recreate"}
CHECK_DEADLOCK FALSE
INVARIANT AvailableIsTrue
