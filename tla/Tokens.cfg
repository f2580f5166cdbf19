CONSTANTS
    Texts = {NoText, t1}
    NoText = NoText
    Absent = Absent
    Unset = Unset
    Invalid = Invalid
    Hour = 3
    Second = 2
    MaxID = 1
    MaxNow = 8
SPECIFICATION Spec
INVARIANTS
    IdentityKept
    AuthorizationKept
    RefreshOutlivesAccess
CHECK_DEADLOCK FALSE
