CONSTANTS
    Callers = {p1, p2}
    WorkflowIDs = {w1}
    External = External
    MaxRuns = 3
SPECIFICATION FairSpec
INVARIANTS
    RequestToOwnChild
    NilMeansServed
    RequestIsAwaited
PROPERTIES
    CallReturns
CHECK_DEADLOCK FALSE
