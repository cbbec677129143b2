CONSTANTS
    Wire = Wire
    t1 = t1
    Async = {t1}
    None = None
    a1 = a1
    a2 = a2
    Address = {a1}
    Messages <- Transfers
    NBYTES_MAX = 2
    Prompt = TRUE
    MaxCalls = 3
SPECIFICATION LiveSpec
INVARIANTS
    TypeOK
PROPERTIES
    StatusIsTrue
    KeptForItsClient
    EverythingEnds
CHECK_DEADLOCK FALSE
