\* Names of up to eight characters, labels of up to three; bytes of four bits,
\* and lengths of up to two of them.
SPECIFICATION Spec
CONSTANTS
    MaxLabel = 3
    MaxName = 7
    Base = 16
    MaxLenBytes = 2
    Word = 256
    SequenceTag = 3
    VersionTag = 10
INVARIANTS
    RealNamesPass
    NothingElsePasses
    StaysInside
    FindsTheKey
    EndIsCloseNotify
    ErrorIsOfThisCall
CHECK_DEADLOCK FALSE
