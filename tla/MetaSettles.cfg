CONSTANTS
    Requests = {r1, r2}
    Writers = {w1, w2}
    ETags = {a}
    Gone = Gone
    NoEntry = NoEntry
    Paths = {"get"}
    Evicts = FALSE
    Faults = FALSE
SPECIFICATION FairSpec


PROPERTY EventuallyFresh
