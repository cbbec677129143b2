CONSTANTS
    Size = 6
    Packet = 2
    Timeout = 2
    Scenes <- AllScenes
    Perils = {}
SPECIFICATION LiveSpec
INVARIANTS
    TypeOK
    RingIsQueue
    CalledOnce
PROPERTIES
    EverythingEnds
CHECK_DEADLOCK FALSE
