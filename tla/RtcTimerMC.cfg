CONSTANTS
    t1 = t1
    t2 = t2
    t3 = t3
    Timer = {t1, t2, t3}
    None = None
    Delays = {1, 3}
    Instants = {2}
    MaxDelta = 2
    Stops = {}
    Depth = 7
    MaxCalls = 3
    MaxNow = 7
SPECIFICATION Spec
SYMMETRY Symmetric
INVARIANTS
    TypeOK
    DeltasAreDues
    NoStall
CHECK_DEADLOCK FALSE
