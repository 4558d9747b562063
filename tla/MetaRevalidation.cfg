CONSTANTS
    Requests = {r1, r2}
    Writers = {w1, w2}
    ETags = {a, b}
    Gone = Gone
    NoEntry = NoEntry
    Paths = {"get","reval"}
    Evicts = FALSE
    Faults = FALSE
SPECIFICATION Spec
SYMMETRY Symmetry
INVARIANT SettledMatches

