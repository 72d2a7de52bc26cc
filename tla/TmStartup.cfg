SPECIFICATION StartSpec
CONSTANTS
    TM_OBJECT_MAX = 8
    CtxSize = 266
    ObjSize <- MCObjSize
    Argvs <- MCArgvs
    Atoi <- MCAtoi
    TooLong = {"long"}
INVARIANTS
    StartTypeOK
    PartsDisjoint
    RunHoldsExactly
    NothingElseForgotten
    UsesHeldOnly
    ParsesAgree
PROPERTIES
    StartupSettles
CHECK_DEADLOCK FALSE
