SPECIFICATION FairSpec
CONSTANT Protocols = {"h2", "http/1.1"}
CONSTANT Setups <- AllSetups
INVARIANT TypeOK
INVARIANT FailsOnlyByRefusal
INVARIANT NothingLeftWhenOver
INVARIANT AgreeWhenOver
INVARIANT AuthenticatedWhenOver
PROPERTY BothEnd
PROPERTY ImplementsFlights
