SPECIFICATION SyncSpec
CONSTANTS
    MaxPid = 4
    MaxProcs = 4
    Exiting = {4}
    Faulting = {4}
    Linux = {}
    Stray = FALSE
    Events = {event}
    Shared = {event}
    MaxHandles = 2
    MaxWaiters = 3
INVARIANTS WaitsSound
PROPERTY ImplementsScheduler
CHECK_DEADLOCK FALSE
