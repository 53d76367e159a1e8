CONSTANTS
    MaxSlot = 4
    Dispatch = {d1}
    MaxThreads = 1
    MaxOther = 1
    MaxInput = 1
    Inputs = {"user", "auto"}
    MayRefuse = FALSE
SPECIFICATION FairSpec
PROPERTIES
    TriggerIsServed
CHECK_DEADLOCK FALSE
