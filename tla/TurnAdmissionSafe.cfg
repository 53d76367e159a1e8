CONSTANTS
    MaxSlot = 5
    Dispatch = {d1}
    MaxThreads = 2
    MaxOther = 1
    MaxInput = 3
    Inputs = {"user", "auto", "interrupt", "replace"}
    MayRefuse = TRUE
SPECIFICATION FairSpec
INVARIANTS
    TypeOK
    GuardsExact
    ClaimHasOwner
PROPERTIES
    InputIsAnswered
CHECK_DEADLOCK FALSE
