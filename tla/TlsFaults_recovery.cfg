SPECIFICATION FairSpec
CONSTANTS
    PeerTypes <- PassedOver
    Chunk = 3
    BaseCap = 2
    MaxWrites = 2
    MaxPeerRecords = 3
    MayStarve = FALSE
    NetMayFail = TRUE
INVARIANT NothingLostInside
INVARIANT CleanEndLosesNothing
PROPERTY SentIsRead
CHECK_DEADLOCK FALSE
