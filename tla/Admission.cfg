SPECIFICATION Spec
CONSTANTS
    Callers = {c1, c2, c3}
    low = low
    critical = critical
    Priorities = {low, critical}
    Capacity = 2
    Share <- LowShed
    Limit = 2
    Interval = 3
    Horizon = 4
SYMMETRY CallerSymmetry
INVARIANTS TypeOK GrantsBounded ThresholdUncontended StartsBounded
PROPERTY DeniedOnlyWhenBusy
