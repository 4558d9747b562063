SPECIFICATION Spec
CONSTANTS
    r1 = r1
    r2 = r2
    r3 = r3
    Requests <- MCRequests
    Scenarios <- MCScenarios
    MaxInflight = 2
    Stoppers = {"other"}
    None = None
INVARIANTS
    TypeOK
    StorageOutlivesUse
    JoinsHold
    NobodyWaitsAlone
PROPERTIES
    StopReturns
