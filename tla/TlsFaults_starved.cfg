SPECIFICATION Spec
CONSTANTS
    PeerTypes <- AnsweredRecords
    Chunk = 2
    BaseCap = 2
    MaxWrites = 2
    MaxPeerRecords = 3
    MayStarve = TRUE
    NetMayFail = TRUE
INVARIANT QueuesFit
PROPERTY ImplementsChannel
CHECK_DEADLOCK FALSE
