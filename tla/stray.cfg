SPECIFICATION Spec
CONSTANTS
    o1 = o1
    o2 = o2
    s1 = s1
    s2 = s2
    s3 = s3
    NoObj = NoObj
    NoSock = NoSock
    Obj <- MCObj
    Sock <- MCSock
    IdOf <- MCIdOf
    ObjOf <- MCObjOf
    MaxRows = 1
    MaxCols = 2
    ConnectsOnce = FALSE
PROPERTY
    StopsAll
