CONSTANTS
    NumTasks = 3
    Nodes <- MCNodes1
    AccessLists <- MCReadWrite
    Handles <- MCHandles
    AllocatorChoices <- MCReusedHandles
    NoHandle <- MCNoHandle
    Capacity = 5
    InvalidWaitState = 16
SPECIFICATION FairSpec
CHECK_DEADLOCK FALSE
PROPERTIES
    EveryTaskRuns
