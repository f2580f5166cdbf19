CONSTANTS
    Runs = {r1}
    Names = {a, b, c}
    a = a
    b = b
    c = c
    submit = submit
    approve = approve
    NoName = NoName
    NoData = NoData
    Signals = {submit, approve}
    NoSignal = NoSignal
    DefaultCorrectionSignal = submit
    DefaultMaxCorrectionAttempts = 1
    Payloads = {"null", "true", "object"}
    Transitions <- MCTransitions
    Tunings <- MCTunings
    MaxSignals = 3
    MaxSteps = 3
SPECIFICATION Spec
INVARIANTS
    TypeOK
    PathFollowsTransitions
    EverySignalBuysOneRun
    ExecutionBudget
    ApprovalsGranted
    StatusReport
PROPERTIES
    ImplementsExecutionStatus
CHECK_DEADLOCK FALSE
