SPECIFICATION ReadingSpec
CONSTANTS
    NumFlights <- Tls13
    Chunk = 3
    MaxFragment = 2
    Capacity = 8
    MaxBytes = 2
    MaxRead = 2
    RefusableFlights <- Certificates
    Faults = FALSE
INVARIANT TypeOK
INVARIANT BlocksOnlyWhenDrained
INVARIANT NoHandshakeStandoff
INVARIANT RefusedGetsNothing
PROPERTY NothingUnsentOnRelease
PROPERTY ImplementsChannel
PROPERTY CloseIsSeen
PROPERTY CloseReturns
CHECK_DEADLOCK FALSE
