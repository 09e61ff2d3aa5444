SPECIFICATION Spec
CONSTANTS
    MaxPid = 5
    MaxProcs = 3
    Exiting = {2, 3, 4, 5}
    Faulting = {2, 3, 4, 5}
    Linux = {3}
    Stray = FALSE
INVARIANTS SchedulerSound
PROPERTIES NoPidReuse
CHECK_DEADLOCK FALSE
