SPECIFICATION FairSpec
CONSTANTS
    c1 = c1
    c2 = c2
    c3 = c3
    Callers <- ThreeCallers
    MaxAttempts = 3
    MaxCapacity = 7
    RetryCost = 3
    SuccessRefill = 1
    MaxExecutions = 4
INVARIANTS TypeOK RetryBudget
PROPERTY RetriesDieOut
