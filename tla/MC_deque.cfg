CONSTANTS
    Thieves = {s1, s2}
    MaxItems = 4
    InitCap = 1
SPECIFICATION FairSpec
INVARIANTS
    TypeOK
    EveryItemOnce
    WinnerReadsOldest
PROPERTIES
    ImplementsWorkDeque
    EventuallyTaken
