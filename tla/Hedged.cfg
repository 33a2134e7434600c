SPECIFICATION FairSpec
CONSTANTS
    MaxAttempts = 4
    HasBucket = TRUE
    MayCancel = TRUE
INVARIANTS NobodyIsStuck InFlightExact OkHasValue ExhaustionIsComplete
PROPERTIES RefinesHedgedContract EveryoneLeaves CancellationIsPrompt
CHECK_DEADLOCK FALSE
