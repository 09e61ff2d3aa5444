SPECIFICATION StoSpec
CONSTANTS
    Paths <- Chain
    Devices = {"usb0", "sd0"}
    Usb = {"usb0"}
    FdMod = 2
    MaxFs = 3
    MaxIno = 3
    MaxLocal = 1
    Sectors = 3
    Value = {0, 1}
    Capacity = 2
    MaxCount = 2
    ExSectors = 2
    ExValue = {0, 1}
    ExCapacity = 1
    ExChunk = 2
    FvNames = {"a"}
    FvFdMod = 4
    FvMaxSize = 1
    PmSectors = 3
    PmEntries = 2
    PmParts <- MCParts
    VfPaths = {"a", "b", "y", "z"}
    VfFiles <- MCFiles
    VfJobs <- MCJobs
    VfChunk = 2
    VfInodes = 4
INVARIANTS DescriptorsSound LeaseIffMounted MountPoints CacheSound VolumesKept
PROPERTIES CacheIsTransparent VolumeSteps
CHECK_DEADLOCK FALSE
