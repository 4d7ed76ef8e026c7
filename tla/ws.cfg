SPECIFICATION FairSpec
CONSTANTS
    Msg <- MCMsg
    Payload <- MCPayload
    Closers = {"client", "server"}
INVARIANTS
    TypeOK
    WriteScheduled
    NothingLost
PROPERTIES
    ImplementsLink
    ClosedAfterAll
    HandshakesEnd
CHECK_DEADLOCK FALSE
