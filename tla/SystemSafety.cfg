SPECIFICATION SysSpec
CONSTANTS
    EdFiles <- EdFilesMC
    EdViewport = 2
    EdMaxBytes = 3
    ExFiles <- ExFilesMC
    ExStart <- ExStartMC
    ExMaxHist = 2
    IrEntries = 2
    IrStandard <- IrDirs
    IpKeys = {"enter", "bksp", "shift", "rctrl"}
    IpMoves = 2
    IpChanges = 1
    IpRawMax = 1
    IpCharMax = 1
    KfChunk = 1
    KfMaxFile = 2
    KfOps = 3
    MwMaxLen = 5
    MwMaxBoxes = 2
    MwSides = {0, 1, 2, 3}
    NmLists <- NmListsMC
    NmMaxLen = 2
    NmMaxQueue = 1
    PiPage = 2
    PiFile = 4
    PiFrames = 6
    SuCells = 3
    ShLines <- MCShLines
    ShControls <- MCShControls
    ShPresets = {"fullerene"}
    ShHistMax = 2
    ShCapMax = 3
    TsSizes <- TsSizesMC
    TsMaxBack = 2
    TsMaxLen = 2
    TsStamps = 4
    TsChars = {"a", "b"}
    VwPaths = {"p", "q"}
    VwFrames = {1, 2}
    VwMaxWins = 3
    WaFiles <- WaFilesMC
    WaDir <- WaDirMC
    WaDot = 25
    WaArgs <- WaArgsMC
    WaChunk = 2
    WaMaxFds = 6
    WaMaxBytes = 5
    WaIovs <- WaIovsMC
    WaOps = 4
    WmPlaces = {1}
    WmMaxId = 2
    WmTitled = {1}
INVARIANTS  TerminalKept ProgramsKept
PROPERTIES  SystemSteps
CHECK_DEADLOCK FALSE
