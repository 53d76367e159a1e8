CONSTANTS
    MaxSlot = 6
    Dispatch = {d1, d2}
    MaxThreads = 2
    MaxOther = 2
    MaxInput = 1
    Inputs = {"user", "auto"}
    MayRefuse = FALSE
SPECIFICATION FairSpec
INVARIANTS
    TasklessTurnIsOwned
    SingleTask
PROPERTIES
    LeasedMailIsDelivered
CHECK_DEADLOCK FALSE
