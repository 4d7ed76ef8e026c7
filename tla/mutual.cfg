SPECIFICATION FairSpec
CONSTANTS
    a1 = a1
    b1 = b1
    b2 = b2
    NoCon = NoCon
    Hdl <- PairHdl
    Alias <- Names
    Undefined = "undefined"
    UriAlias <- MCUriAlias
    FRAMEPOOLMAXSIZE = 2
    Relock = {"blocks"}
    Texts <- Mutual
    FollowsFlow <- PairHdl
    MaxCmds = 1
    MaxFrames = 1
    MaxSent = 2
PROPERTY
    HandlerReturns
CHECK_DEADLOCK FALSE
