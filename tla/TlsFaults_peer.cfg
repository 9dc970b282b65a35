SPECIFICATION Spec
CONSTANTS
    PeerTypes <- ForeignRecords
    Chunk = 3
    BaseCap = 1
    MaxWrites = 0
    MaxPeerRecords = 5
    MayStarve = FALSE
    NetMayFail = FALSE
INVARIANT TypeOK
INVARIANT QueuesFit
INVARIANT NothingLostInside
PROPERTY ImplementsChannel
CHECK_DEADLOCK FALSE
