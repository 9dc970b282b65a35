SPECIFICATION FairSpec
CONSTANTS
    NumFlights <- Tls12
    Chunk = 3
    MaxFragment = 1
    Capacity = 2
    MaxBytes = 2
    MaxRead = 1
    RefusableFlights <- AnyRefusal
    Faults = TRUE
INVARIANT NoHandshakeStandoff
INVARIANT RefusedGetsNothing
PROPERTY ImplementsChannel
PROPERTY HandshakeEnds
CHECK_DEADLOCK FALSE
