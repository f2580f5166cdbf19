CONSTANTS
    Workers = {w1, w2}
    MaxStatements = 3
    MaxCalls = 3
    MaxFaults = 1
SPECIFICATION Spec
INVARIANTS
    SchemaIsPrefix
    NilOwnsOnceStatements
    RaceHasWinner
CHECK_DEADLOCK FALSE
