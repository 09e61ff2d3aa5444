SPECIFICATION Spec
CONSTANTS
    GenMod = 256
    SlotMod = 256
    MaxSlots = 257
    MaxAllocs = 257
    Closing = {}
INVARIANT LiveResolves
CHECK_DEADLOCK FALSE
