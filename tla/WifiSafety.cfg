SPECIFICATION Spec
CONSTANTS
    InitTicks = 10
    Candidates = 2
    MayStall = {"MmioPollMacClock", "FwUpload", "FwWaitAlive", "tick"}
    APs = {"cafe", "home"}
    Secure = {"home"}
    Slots = 3
    LastChannel = 2
    MaxConnects = 2
    MaxTx = 11
    MaxScans = 1
INVARIANTS LinkProtected InitOutcome RingIsFifo SecureAddressIsCurrent
CHECK_DEADLOCK FALSE
