SPECIFICATION Spec
CONSTANTS
    Nodes = {n1,n2}
    MaxGeneration = 2
    RetriesUntilFail = 2
    UpdateAttempts = 2
    Limit <- LimitOne
    Faults = {"apiError","crash","watch","oldList","generateError"}
    MaxFaults = 2
SYMMETRY Symmetry
CHECK_DEADLOCK FALSE
INVARIANT SlotInvariant
PROPERTY ImplementsBudget
