SPECIFICATION FairSpec
CONSTANTS
    a1 = a1
    b1 = b1
    b2 = b2
    NoCon = NoCon
    Hdl <- ThreeHdl
    Alias <- Names
    Undefined = "undefined"
    UriAlias <- MCUriAlias
    FRAMEPOOLMAXSIZE = 1
    Relock = {"reenters"}
    Texts <- ATwiceToB
    FollowsFlow <- ThreeHdl
    MaxCmds = 1
    MaxFrames = 0
    MaxSent = 1
PROPERTY
    LinkHealed
