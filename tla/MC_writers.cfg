CONSTANTS
    NumTasks = 3
    Nodes <- MCNodes2
    AccessLists <- MCWriteOnly
    Handles <- MCHandles
    AllocatorChoices <- MCReusedHandles
    NoHandle <- MCNoHandle
    Capacity = 5
    InvalidWaitState = 16
SPECIFICATION FairSpec
CHECK_DEADLOCK TRUE
PROPERTIES
    EveryTaskRuns
