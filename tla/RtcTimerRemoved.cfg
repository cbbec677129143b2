CONSTANTS
    t1 = t1
    t2 = t2
    t3 = t3
    Timer = {t1, t2}
    None = None
    Delays = {1, 3}
    Instants = {}
    MaxDelta = 2
    Stops = {t1}
    Depth = 7
    MaxCalls = 3
    MaxNow = 6
SPECIFICATION Spec
PROPERTIES
    NotEarly
CHECK_DEADLOCK FALSE
