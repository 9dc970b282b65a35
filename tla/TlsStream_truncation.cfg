SPECIFICATION Spec
CONSTANTS
    NumFlights <- Tls13
    Chunk = 3
    MaxFragment = 1
    Capacity = 4
    MaxBytes = 1
    MaxRead = 1
    RefusableFlights <- NoRefusal
    Faults = FALSE
INVARIANT TruncationIsReal
CHECK_DEADLOCK FALSE
