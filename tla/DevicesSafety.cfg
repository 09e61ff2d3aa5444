SPECIFICATION DevSpec
CONSTANTS
    BhFrames = 10
    BhFwFrame = 6
    BhFiles <- BhFilesMC
    BhArgsPages = 1
    BhMapPages = 1
    BhArgsLimit = 9
    BhRetries = 2
    BhAttempts = 2
    BhTableCount = 2
    BhLow = 2
    BhPad = 1
    BhKernelRun = 2
    SdValues = {0, 1}
    SdMaxCards = 2
    EhQhs = 1
    EhQtds = 3
    EhPages = 2
    EhAddresses = 3
    EpPorts = 2
    EpPlugs = 2
    XrLen = 3
    XrEvents = 3
    XrCommands = 6
    XsMax = 2
    XsPages = 1
    XsPending = 2
    XpUsb3 <- MCUsb3
    XpRetries = 2
    XpEvents = 2
    MsLbas = {0, 1}
    MsValues = {0, 1}
    MsTags = 4
    UsAddrs = {1}
    UsRescans = 3
    BsFrames <- BsFramesMC
    BsHeard = 2
    BsScans = 1
    DlServers = {1, 2}
    DlStarts = 2
    DlReplies = 3
    DlLayouts <- DlLayoutsMC
    DmFrames = 3
    DmTop = 4
    DmSizes = {2, 3}
    DmDevices = {"rtsx", "wifi"}
    DmIdOf <- DmIdOfMC
    DmRegions = {1, 2}
    DmOwner <- DmOwnerMC
    DmPools = {2, 4, 8}
    DmCache = 1
    HcRing = 4
    HcVerbs = 4
    HcUnsol = 2
    HpHalf = 2
    HpBlocks = 6
    HrCodecs <- HrCodecsMC
    IhRing = 2
    IhFound <- IhFoundMC
    IhImages <- IhImagesMC
    IhAttempts = 2
    IhTries = 1
    IhSram = 12
    KuCases <- KuCasesMC
    KuFlips = {0, 1, 12}
    LpThreads = {1, 2}
    LpMessages <- LpMessagesMC
    LpMax = 4
    LpRoom = 50
    LpLogs = 3
    MwUses = 3
    PsMachines <- PsMachinesMC
    PsBuses = 5
    PsDevs = 2
    PsFns = 2
    PsBase = 5
    PqSize = 2
    PqTotal = 5
    PqChunk = 2
    PqRates = {1, 2, 3}
    PqFrames = 4
    PtTimeouts = 1
    PtPackets = 3
    PtLosses = 1
    VgQueue = 2
    VgWidth = 4
    VgMax = 7
    WkAttempts = 2
    WkSends = 3
    WkKeyData <- WkKeyDataMC
INVARIANTS HostsKept DisksKept  MachineKept WirelessKept
PROPERTIES DeviceSteps DevicesProgress
CHECK_DEADLOCK FALSE
