SPECIFICATION FairSpec
CONSTANTS
    a1 = a1
    b1 = b1
    b2 = b2
    NoCon = NoCon
    Hdl <- PairHdl
    Alias <- Names
    Undefined = "undefined"
    UriAlias <- MCUriAlias
    FRAMEPOOLMAXSIZE = 1
    Relock = {"blocks"}
    Texts <- AToB
    FollowsFlow <- PairHdl
    MaxCmds = 1
    MaxFrames = 2
    MaxSent = 3
PROPERTY
    HandlerReturns
CHECK_DEADLOCK FALSE
