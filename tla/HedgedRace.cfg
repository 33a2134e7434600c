SPECIFICATION Spec
CONSTANTS
    MaxAttempts = 2
    HasBucket = TRUE
    MayCancel = TRUE
PROPERTIES ResultNotRaced
CHECK_DEADLOCK FALSE
