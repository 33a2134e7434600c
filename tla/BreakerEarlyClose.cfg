SPECIFICATION Spec
CONSTANTS
    c1 = c1
    c2 = c2
    c3 = c3
    Calls <- ThreeCalls
    WindowSize = 4
    MinimumCalls = 3
    FailureRateThreshold = 50
    ResetTimeout = 1
    HalfOpenMaxCalls = 3
    HealthCap = 2
    Monitored = FALSE
    MayPanic = FALSE
PROPERTY OpenWaitsForResetTimeout
