CONSTANTS
    Callers = {c1, c2}
    Values = {v1, v2}
    NoValue = NoValue
    Drivers = {"mysql", "postgresql"}
    MaxOpenConns = 2
    MaxRows = 2
    MaxCalls = 2
    MaxScanFailures = 1
SPECIFICATION Spec
INVARIANTS
    SavedIdIsOwn
    FindAllIsSnapshot
    ConnectionsAccounted
PROPERTIES
    PoolRecovers
CHECK_DEADLOCK FALSE
