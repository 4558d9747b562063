CONSTANTS
    Requests = {r1, r2}
    Writers = {w1, w2}
    ETags = {a, b}
    Gone = Gone
    NoEntry = NoEntry
    Paths = {"get", "warm", "rewarm", "tee", "meta", "footer", "reval", "range", "heal"}
    Evicts = TRUE
    Faults = FALSE
SPECIFICATION Spec
SYMMETRY Symmetry
PROPERTY GuardedRemoval
