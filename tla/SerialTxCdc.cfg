CONSTANTS
    Size = 4
    Packet = 2
    Cdc = TRUE
    Prompt = TRUE
    Failures = {FALSE}
    MaxWrite = 3
    MaxBytes = 6
SPECIFICATION Spec
PROPERTIES
    CallbackAfterData
CHECK_DEADLOCK FALSE
