CONSTANTS
    high = high
    low1 = low1
    low2 = low2
    coop = coop
    Event = {high, low1, low2, coop}
    None = None
    Priorities = {0, 1, 2, 3}
    Cooperative = 3
    InitPriority <- Urgencies
    Depth = 2
    Programs <- AllPrograms
SPECIFICATION LiveSpec
INVARIANTS
    TypeOK
    MostUrgentRuns
    ListsSound
    NextIsReady
PROPERTIES
    FifoAmongEquals
    DueEventsRun
CHECK_DEADLOCK FALSE
