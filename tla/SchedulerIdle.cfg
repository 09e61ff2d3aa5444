SPECIFICATION Spec
CONSTANTS
    MaxPid = 3
    MaxProcs = 3
    Exiting = {2, 3}
    Faulting = {2, 3}
    Linux = {}
    Stray = FALSE
INVARIANTS
    IdleSurvives
CHECK_DEADLOCK FALSE
