CONSTANTS
    NumTasks = 3
    Forms <- MCAwaits
    Assigns = TRUE
    MainGets = FALSE
    Nested = FALSE
    Resources <- MCResources
SPECIFICATION Spec
CHECK_DEADLOCK FALSE
INVARIANTS
    TypeOK
    NoUseAfterFree
    ResumedOnce
    ResultBeforeUse
    RefsExact
    PoolKnown
PROPERTIES
    ImplementsLife
