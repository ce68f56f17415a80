SPECIFICATION FairSpec
CONSTANTS
    Nodes = {n1,n2}
    MaxGeneration = 1
    RetriesUntilFail = 2
    UpdateAttempts = 2
    Limit <- LimitOne
    Faults = {"crash","longOutage","applyError","watch","generateError"}
    MaxFaults = 2
CHECK_DEADLOCK FALSE
INVARIANT MaxUnavailableRespected
INVARIANT SlotsDoNotLeak
INVARIANT RestMeansDone
PROPERTY RolloutCompletes
PROPERTY RolloutSucceeds
INVARIANT AvailableIsCorrected
