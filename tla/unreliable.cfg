SPECIFICATION Spec
CONSTANTS
    Nodes = {n1,n2}
    MaxGeneration = 1
    RetriesUntilFail = 1
    UpdateAttempts = 2
    Limit <- LimitTwo
    Faults = {"apiError","lostReply","crash","longOutage","longIdle","slowMarker","watch","applyError","notReady","relabel"}
    MaxFaults = 2
SYMMETRY Symmetry
CHECK_DEADLOCK FALSE
INVARIANT TypeOK
INVARIANT ExhaustedIsNotApplied
INVARIANT CountersStayInBounds
PROPERTY CommittedIsNotReapplied
