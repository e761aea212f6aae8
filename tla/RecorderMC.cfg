SPECIFICATION FairSpec
CONSTANTS
    Options <- MCOptions
    Faults = TRUE
    MaxOut = 1
    MaxWrites = 1
    MaxTime = 1
    MaxEmits = 1
INVARIANTS
    ProcessBoundaries
    LatestPosition
    CompletedIsWhole
    FinalStateIsTheWorkspace
    ChildIsReaped
    RefusedOnlyIfDegraded
PROPERTIES
    RunReturns
