SPECIFICATION FairSpec
CONSTANTS
    MaxPid = 4
    MaxProcs = 4
    Exiting = {2, 3, 4}
    Faulting = {}
    Linux = {3}
    Stray = FALSE
INVARIANTS
    NoLostWait
    CurrentIsRunning
PROPERTIES
    RoundRobin
    ReadyRuns
CHECK_DEADLOCK FALSE
