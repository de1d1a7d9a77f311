SPECIFICATION FairSpec
CONSTANTS
    a = a
    b = b
    c = c
    ghost = ghost
    Steps <- MCSteps
    Names <- MCNames
    Graphs <- MCGraphs
    MaxParallel = 2
INVARIANTS
    TypeOK
    MeasureAlone
    DependenciesCompleted
    FailurePropagates
    CycleIsReal
    HitIsStored
PROPERTIES
    RaiseIsContained
    DagSpec
    Terminates
