SPECIFICATION Spec
CONSTANTS
    PeerTypes <- PassedOver
    Chunk = 2
    BaseCap = 2
    MaxWrites = 0
    MaxPeerRecords = 1
    MayStarve = TRUE
    NetMayFail = FALSE
INVARIANT HelloIsOut
CHECK_DEADLOCK FALSE
