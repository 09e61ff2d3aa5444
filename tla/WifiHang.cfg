SPECIFICATION Spec
CONSTANTS
    InitTicks = 10
    Candidates = 2
    MayStall = {}
    APs = {"cafe", "home"}
    Secure = {"home"}
    Slots = 3
    LastChannel = 2
    MaxConnects = 0
    MaxTx = 13
    MaxScans = 0
PROPERTY InitCompletes
CHECK_DEADLOCK FALSE
