CONSTANTS
    Versions = {1, 2}
    Blocks = {0, 1, 2}
    Slots = {1, 2}
    Bufs = {1, 2, 3}
    Callers = {1, 2, 3}
    MaxFaults = 1
    MaxVer = 2
    None = None
    Absent = Absent
    Size = 5
    BlockSize = 2
    Jobs <- MCJobs
    Scenarios <- MCScenarios
    Fanout = 2
    InlineFetches = 1
    Window = 2
SPECIFICATION Spec
INVARIANTS TypeOK ServedExactly BuffersOwned OneFlight StaleInvalidates
PROPERTY PromotionHonest
