SPECIFICATION FairSpec
CONSTANTS
    Msg <- MCMsg
    Picture <- MCPicture
    MaxBuf = 1
    Typed <- MCTyped
INVARIANTS
    TypeOK
    DropsOldest
    SentOnce
    FlowFollowed
    TypedRead
PROPERTIES
    NewestSent
CHECK_DEADLOCK FALSE
