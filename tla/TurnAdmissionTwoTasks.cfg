CONSTANTS
    MaxSlot = 4
    Dispatch = {d1}
    MaxThreads = 2
    MaxOther = 2
    MaxInput = 2
    Inputs = {"user", "interrupt"}
    MayRefuse = FALSE
SPECIFICATION Spec
INVARIANTS
    SingleTask
CHECK_DEADLOCK FALSE
