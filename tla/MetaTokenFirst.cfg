CONSTANTS
    Requests = {r1, r2}
    Writers = {w1, w2}
    ETags = {a, b}
    Gone = Gone
    NoEntry = NoEntry
    Paths = {"get", "footer", "tee"}
    Evicts = FALSE
    Faults = TRUE
SPECIFICATION Spec
SYMMETRY Symmetry
INVARIANTS TypeOK ReadAfterWrite SettledMatches TokensOrdered
PROPERTIES NeverDowngrades ImplementsCachedObject
