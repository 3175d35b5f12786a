CONSTANTS
    NumWorkers = 2
    NumJobs = 3
    Attempts = 2
    Counting = {TRUE, FALSE}
SPECIFICATION FairSpec
INVARIANTS
    TypeOK
    HandleInOnePlace
    NothingLeftToRun
    OwnCore
PROPERTIES
    ImplementsLife
    EveryJobEnds
    PoolStops
