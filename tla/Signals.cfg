CONSTANTS
    Callers = {c1, c2}
    Signals = {s1, s2}
    NoSignal = NoSignal
    MaxSignals = 3
SPECIFICATION FairSpec
INVARIANTS
    EverySignalOnce
    AnswerTellsSignal
PROPERTIES
    ListenersConsume
CHECK_DEADLOCK FALSE
