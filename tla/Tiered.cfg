CONSTANTS
    Clients = {c1, c2}
    Readers = {r1}
    Nodes = {n1, n2}
    ETags = {e1, e2}
    SmallETags = {e1}
    Kinds = {"put", "ifmatch", "ifnone", "upstream", "complete", "delete", "bulk", "copy"}
    MaxRetries = 1
    MaxFaults = 1
    Gone = Gone
    Seed = Seed
    Nowhere = Nowhere
SPECIFICATION Spec
INVARIANTS TypeOK BodiesReclaimed MissIsTrue
PROPERTIES BackgroundHealsMarkers LocalCopySurvives AckedIsVisible ConditionalIsAtomic
SYMMETRY Symmetry
