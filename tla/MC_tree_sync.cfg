CONSTANTS
    NumTasks = 3
    Forms <- MCSync
    Assigns = FALSE
    MainGets = FALSE
    Nested = FALSE
    Resources <- MCResources
SPECIFICATION Spec
CHECK_DEADLOCK FALSE
INVARIANTS
    AwaiterOutlivesSuspend
