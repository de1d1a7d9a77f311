SPECIFICATION FairSpec
CONSTANTS
    Procs = {p1, p2}
    MaxRuns = 2
    Crashes = TRUE
INVARIANTS
    TypeOK
    VisibleIsWhole
    EntryNotLost
PROPERTIES
    EntryIsStable
    StoreEnds
