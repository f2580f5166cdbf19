CONSTANTS
    Callers = {c1, c2, c3}
    Servers = {s1, s2}
    NoServer = NoServer
    Keys = {k}
    Values = {"text", "number"}
    Absent = Absent
    RATE_LIMITER = 2
    MaxCalls = 1
SPECIFICATION Spec
INVARIANTS
    
    LimitedAtRightServer
CHECK_DEADLOCK FALSE
