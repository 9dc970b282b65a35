SPECIFICATION Spec
CONSTANTS
    PeerTypes <- PassedOver
    Chunk = 2
    BaseCap = 2
    MaxWrites = 2
    MaxPeerRecords = 1
    MayStarve = TRUE
    NetMayFail = FALSE
INVARIANT AcceptedIsSealed
CHECK_DEADLOCK FALSE
