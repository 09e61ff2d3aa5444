SPECIFICATION KerSpec
CONSTANTS
    GenMod = 3
    SlotMod = 256
    MaxSlots = 4
    MaxAllocs = 7
    Closing <- AllClosing
    AsPids = {0, 1}
    AsMax = 2
    AsFrames = 3
    AsPage = 2
    AsHeap = 2
    AsStack = 6
    AsSizes = {0, 3}
    ClIds = {1, 2}
    ClMax = 4
    ClHorizon = 2
    ClDelays = {0, 1}
    ClIntervals = {0, 1}
    ClLimits = {1, 4}
    ClPops = 2
    EcCalls = 2
    FbTotal = 7
    FbWord = 4
    FbLowSkip = 2
    FbLowEnd = 3
    FbRam = {0, 1, 2, 4, 5, 6}
    FbCr3 = 1
    KlCapacity = 3
    KlLine = 2
    KlBytes = 6
    TrCapacity = 3
    TrEvents = 8
    EvMax = 2
    EvEvents = 3
    EvHandlers = 2
    KpPages = 6
    KpRam = 3
    KpDevice = 2
    KpMaxCount = 2
    KpMaxFbs = 1
    LcProcs = {1, 2}
    LcCalls = 2
    LcTicks = 2
    LcPerSec = 2
    LcFile = 2
    LfFds = 4
    LfVfs = 2
    LfDirs = {1}
    LfEntries = 2
    LfRoom = 1
    LmPageSize = 2
    LmPages = 4
    LmMax = 4
    LmBase = 1
    LmVdso = 3
    LmHeap = 0
    LmFrames = 3
    LmAddrs = {0, 2, 3, 6}
    LmLens = {0, 3, 4}
    NfProcs = {1, 2}
    NfSize = 3
    NfVfs = 3
    NfKeys = 3
    NfOps = 4
    NmUser = 5
    NmArea = 3
    NmFrames = 3
    NmMax = 4
    NmOps = 3
    NoProcs = {1, 2}
    NoMax = 2
    NoEnd = 2
    NoOps = 3
    PtFan = 2
    PtFrames = 4
    PtVirts = {0, 1, 3}
    PtShift = 4
    SlSizes <- SlSizesMC
    SlPage = 4
    SlFrames = 2
    SlAsked = {1, 2, 3}
    SlOps = 8
    UmPageSize = 2
    UmPages = 2
    UmMax = 3
INVARIANTS StaleNeverResolves LiveResolves CleanupReleasesAll
    LinuxKept MemoryKept NativeKept 
PROPERTIES ImplementsFlatMap KernelSteps
CHECK_DEADLOCK FALSE
