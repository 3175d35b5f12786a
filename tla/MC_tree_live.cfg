CONSTANTS
    NumTasks = 2
    Forms <- MCWaits
    Assigns = FALSE
    MainGets = TRUE
    Nested = FALSE
    Resources <- MCResources
SPECIFICATION FairSpec
CHECK_DEADLOCK FALSE
PROPERTIES
    ImplementsLife
    AllEnds
