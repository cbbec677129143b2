CONSTANTS
    Capacity = 3
    Nest = 1
    MaxCalls = 4
SPECIFICATION LiveSpec
INVARIANTS
    TypeOK
    RunsOldest
    WorkIsPended
PROPERTIES
    RejectsOnlyWhenFull
    ImplementsTaskQueue
    NothingIsLost
