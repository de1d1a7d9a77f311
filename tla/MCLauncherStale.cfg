SPECIFICATION Spec
CONSTANTS
    MaxRuns = 2
INVARIANTS
    NoResultIsFailed
