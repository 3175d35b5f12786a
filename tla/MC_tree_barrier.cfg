CONSTANTS
    NumTasks = 3
    Forms <- MCBarriers
    Assigns = TRUE
    MainGets = FALSE
    Nested = FALSE
    Resources <- MCResources
SPECIFICATION Spec
CHECK_DEADLOCK FALSE
INVARIANTS
    RefsExact
    RootWaits
    BarrierWaits
