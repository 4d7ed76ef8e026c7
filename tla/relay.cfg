SPECIFICATION Spec
CONSTANTS
    a1 = a1
    b1 = b1
    b2 = b2
    NoCon = NoCon
    Hdl <- ThreeHdl
    Alias <- Names
    Undefined = "undefined"
    UriAlias <- MCUriAlias
    FRAMEPOOLMAXSIZE = 2
    Relock = {"blocks", "throws", "reenters"}
    Texts <- AToAB
    FollowsFlow <- ThreeHdl
    MaxCmds = 1
    MaxFrames = 3
    MaxSent = 4
INVARIANTS
    NoDangling
PROPERTIES
    RelaySpec
CHECK_DEADLOCK FALSE
