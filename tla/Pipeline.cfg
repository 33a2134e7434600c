SPECIFICATION FairSpec
CONSTANTS
    c1 = c1
    c2 = c2
    c3 = c3
    Callers = {c1, c2, c3}
    Scenarios <- Explored
    MaxPanics = 2
INVARIANTS MachineTypeOK OnePipeline VerdictsAreFinal VerdictIsTheLastRuns InsideExact
PROPERTIES RefinesCallContract EveryCallEnds
