CONSTANTS
    Messages = {m1, m2, m3}
    Workers = {w1, w2}
    NoMessage = NoMessage
    MaxInFlight = 2
    MaxAttempts = 2
    MaxFaults = 2
SPECIFICATION NsqSpec
INVARIANTS
    AtLeastOnce
    InFlightIsHere
PROPERTIES
    EventuallyHandled
CHECK_DEADLOCK FALSE
