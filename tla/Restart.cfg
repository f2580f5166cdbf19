CONSTANTS
    Runs = {r1}
    Names = {a, b}
    a = a
    b = b
    c = c
    submit = submit
    approve = approve
    NoName = NoName
    NoData = NoData
    Signals = {submit, approve}
    NoSignal = NoSignal
    DefaultCorrectionSignal = submit
    DefaultMaxCorrectionAttempts = 1
    Payloads = {"null", "true"}
    Transitions <- TwoStepAcyclic
    Tunings <- RestartTunings
    MaxSignals = 2
    MaxSteps = 2
    MaxLosses = 2
SPECIFICATION RestartSpec
INVARIANTS
    StatusOutlivesWorker
    AttributeOutlivesWorker
PROPERTIES
    ImplementsPipeline
    Settles
    CancelReturns
CHECK_DEADLOCK FALSE
