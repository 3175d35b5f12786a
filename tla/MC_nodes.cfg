CONSTANTS
    NumTasks = 3
    Nodes <- MCNodes2
    AccessLists <- MCTwoNodes
    Handles <- MCHandles
    AllocatorChoices <- MCReusedHandles
    NoHandle <- MCNoHandle
    Capacity = 5
    InvalidWaitState = 16
SPECIFICATION Spec
CHECK_DEADLOCK FALSE
INVARIANTS
    TypeOK
    ProgramOrder
    HandedOnce
    TakeoverNeverSucceeds
    IInv
    NoLateWake
    RemoveFindsTask
    OneWakerPerSlot
PROPERTIES
    ImplementsOrder
