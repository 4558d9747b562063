SPECIFICATION Spec
CHECK_DEADLOCK FALSE
CONSTANTS
    Jobs <- MCJobs
    ChannelBuf = 2
    QueueCap = 1
    Inline = 2
INVARIANTS
    TypeOK
    CommittedWhole
    SlotCoversBuffers
PROPERTIES
    PopulateEnds
