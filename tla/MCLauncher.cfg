SPECIFICATION FairSpec
CONSTANTS
    MaxRuns = 2
INVARIANTS
    TypeOK
    AbortHasACause
PROPERTIES
    SettledAfterVerdict
    VerdictFollowsExit
    BreachIsStopped
