SPECIFICATION Spec
CONSTANTS
    MinimumCalls = 3
    FailureRateThreshold = 60
    NumBuckets = 3
    BucketDuration = 2
    MaxTime = 10
    MaxOutcomes = 5
INVARIANTS OnlyRecentCounted
