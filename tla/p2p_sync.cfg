SPECIFICATION FairSpec
CONSTANTS
    ZeroId = "0"
    Block <- NetBlocks
    Witness = {"A"}
    previous <- NetPrev
    block_num <- NetNum
    ancestors <- NetAncestors
    producer <- NoProducer
    skipped <- NoSkipped
    schedule <- NoSchedule
    EarlyBad = {}
    LateBad = {}
    UndoDepth = 2
    IdsLimit = 4
    Peer = {"p", "q"}
    Trx = {"t", "u"}
    BadTrx = {"u"}
    MaxBlocksPerPeer = 2
    MaxHandled = 2
    MaxPrefetch = 1
    MinIdsToPrefetch = 8
    PlausibleHeight = 12
    Mixes <- NetMixes
    MaxLag = 2
    MaxInFlight = 1
    MaxGrowth = 4
    MaxRecent = 4
    MaxTrxOffered = 1
    MaxOffered = 2
    Offers = {"a3", "t", "u"}
INVARIANTS
    TypeOK
    RequestsSound
    ListsSound
    
PROPERTIES
    HonestNotBlamed
    SyncedMeansCaughtUp
    SyncEnds
CHECK_DEADLOCK FALSE
