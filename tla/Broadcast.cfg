SPECIFICATION FairSpec
CONSTANTS
    f = f
    j = j
    cache = cache
    Clients = {f, j}
    Fetcher = f
    CacheListener = cache
    Bufs = {1, 2, 3, 4, 5, 6, 7, 8}
    ChannelBuf = 1
    MaxChunks = 3
    Setups <- MCSetups
INVARIANTS
    TypeOK
    InOrder
    SuccessIsWhole
    OneOwner
PROPERTY
    EveryoneAnswered
