SPECIFICATION Spec
CONSTANTS
    Callers = {c1, c2}
    InitialLimit = 1
    MinConcurrency = 1
    RTTs = {20, 40}
    MayDecay = TRUE
    HealthCap = 1
    MaxLimit = 3
INVARIANTS TypeOK AdmittedWithinPeak DegradedIsCurrent
PROPERTIES BacksOff GrowsBack
