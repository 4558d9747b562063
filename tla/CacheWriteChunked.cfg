SPECIFICATION Spec
CHECK_DEADLOCK FALSE
CONSTANTS
    Jobs <- ChunkedJobs
    ChannelBuf = 2
    QueueCap = 1
    Inline = 2
INVARIANTS
    CommittedWhole
