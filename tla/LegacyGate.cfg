CONSTANTS
    Requests = {r1, r2}
    Writers = {w1, w2}
    FetchMax = 1
    WriteMax = 0
    Margin = 1
    Skew = 0
    Faults = TRUE
    MaxNow = 3
SPECIFICATION Spec
SYMMETRY Symmetry
INVARIANT TypeOK
PROPERTY GateBlocksStale
