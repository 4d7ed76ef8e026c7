SPECIFICATION Spec
CONSTANTS
    a1 = a1
    b1 = b1
    b2 = b2
    NoCon = NoCon
    Hdl <- ThreeHdl
    Alias <- Names
    Undefined = "undefined"
    UriAlias <- NamelessUriAlias
    FRAMEPOOLMAXSIZE = 1
    Relock = {"reenters"}
    Texts <- AToB
    FollowsFlow <- ThreeHdl
    MaxCmds = 1
    MaxFrames = 0
    MaxSent = 1
INVARIANT
    UnreachableBranches
CHECK_DEADLOCK FALSE
