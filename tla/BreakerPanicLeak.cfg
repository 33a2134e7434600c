SPECIFICATION FairSpec
CONSTANTS
    c1 = c1
    c2 = c2
    c3 = c3
    Calls <- ThreeCalls
    WindowSize = 2
    MinimumCalls = 2
    FailureRateThreshold = 50
    ResetTimeout = 1
    HalfOpenMaxCalls = 2
    HealthCap = 1
    Monitored = FALSE
    MayPanic = TRUE
PROPERTY HalfOpenIsLeft
