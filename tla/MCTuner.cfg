SPECIFICATION Spec
CONSTANTS
    Jobs <- MCJobs
INVARIANTS
    TypeOK
    NothingBeatsTheBest
    CountersMatchTrials
    SearchIsBounded
    SearchIsComplete
PROPERTIES
    Terminates
