CONSTANTS
    Runs = {r1, r2}
    NoRun = NoRun
    Clients = {c1}
    ReadyAt = 1
    MaxVersion = 2
SPECIFICATION FairDataSpec
INVARIANTS
    
    RetriesUntilDeadline
PROPERTIES
    QueryReturns
CHECK_DEADLOCK FALSE
