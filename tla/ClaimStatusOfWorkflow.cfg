CONSTANTS
    Runs = {r1, r2}
    Names = {a, b}
    a = a
    b = b
    c = c
    submit = submit
    approve = approve
    NoName = NoName
    NoData = NoData
    Signals = {submit, approve}
    NoSignal = NoSignal
    DefaultCorrectionSignal = submit
    DefaultMaxCorrectionAttempts = 1
    Payloads = {"null", "true"}
    Transitions <- TwoStepTransitions
    Tunings <- OneTuning
    MaxSignals = 2
    MaxSteps = 2
SPECIFICATION Spec
INVARIANT
    StatusOfTheWorkflow
CHECK_DEADLOCK FALSE
