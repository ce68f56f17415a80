SPECIFICATION Spec
CONSTANTS
    Nodes = {n1, n2}
    MaxGeneration = 2
    RetriesUntilFail = 2
    UpdateAttempts = 2
    Limit <- LimitOne
    Faults = {"applyError"}
    MaxFaults = 0
CHECK_DEADLOCK FALSE
INVARIANT MaxUnavailableRespected
