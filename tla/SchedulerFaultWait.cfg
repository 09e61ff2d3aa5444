SPECIFICATION Spec
CONSTANTS
    MaxPid = 3
    MaxProcs = 3
    Exiting = {}
    Faulting = {2, 3}
    Linux = {}
    Stray = FALSE
INVARIANTS
    NoLostWait
CHECK_DEADLOCK FALSE
