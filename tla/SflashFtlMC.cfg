CONSTANTS
    S = 3
    B = 5
    Half = 2
    Direct = 1
    N = 3
    Values = {v1, v2}
    Blank = Blank
    Torn = Torn
    MaxCalls = 5
    Cuts = {}
SYMMETRY Anyone
SPECIFICATION Spec
INVARIANTS
    TypeOK
    TablesMatchFlash
    AllocationEnds
PROPERTIES
    ImplementsBlockStore
