SPECIFICATION Spec
CONSTANTS
    a1 = a1
    b1 = b1
    b2 = b2
    NoCon = NoCon
    Hdl <- ThreeHdl
    Alias <- Names
    Undefined = "undefined"
    UriAlias <- MCUriAlias
    FRAMEPOOLMAXSIZE = 1
    Relock = {"blocks", "throws", "reenters"}
    Texts <- AToB
    FollowsFlow = {}
    MaxCmds = 2
    MaxFrames = 1
    MaxSent = 2
INVARIANTS
    TypeOK
    RegistryConsistent
    UnreachableBranches
    NoDangling
    RequestKept
    NoCircularWait
PROPERTIES
    OpenStaysRegistered
    RegistrySpec
CHECK_DEADLOCK FALSE
