SPECIFICATION Spec
CONSTANTS
    S = 3
    B = 4
    Half = 2
    Direct = 1
    N = 2
    Values = {v1, v2}
    Blank = Blank
    Torn = Torn
    MaxCalls = 3
    Cuts = {"rewrite"}
SYMMETRY Anyone
INVARIANTS
    NothingTorn
