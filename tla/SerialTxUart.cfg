CONSTANTS
    Size = 4
    Packet = 2
    Cdc = FALSE
    Prompt = TRUE
    Failures = {TRUE, FALSE}
    MaxWrite = 3
    MaxBytes = 8
SPECIFICATION LiveSpec
INVARIANTS
    TypeOK
    WireInOrder
PROPERTIES
    CallbackAfterData
    CallsComplete
CHECK_DEADLOCK FALSE
