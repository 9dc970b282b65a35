SPECIFICATION Spec
CONSTANT MaxAlpn = 2
INVARIANT TypeOK
INVARIANT Owned
INVARIANT ReleasedOnReturn
INVARIANT EstablishedIsVerified
INVARIANT PumpsAsConfigured
INVARIANT ErrorTellsCause
CHECK_DEADLOCK FALSE
