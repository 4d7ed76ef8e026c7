SPECIFICATION FairSpec
CONSTANTS
    a1 = a1
    b1 = b1
    b2 = b2
    NoCon = NoCon
    Hdl <- ThreeHdl
    Alias <- Names
    Undefined = "undefined"
    UriAlias <- MCUriAlias
    FRAMEPOOLMAXSIZE = 1
    Relock = {}
    Texts <- AToB
    FollowsFlow <- ThreeHdl
    MaxCmds = 1
    MaxFrames = 1
    MaxSent = 2
PROPERTIES
    HandlerReturns
    LinkHealed
    NeedResolved
    PoolDrained
