CONSTANTS
    Callers = {c1, c2}
    MaxBatch = 2
    MaxLate = 1
    MaxCalls = 3
SPECIFICATION Spec
INVARIANTS
    NilMeansStored
    NoGaps

    
CHECK_DEADLOCK FALSE
