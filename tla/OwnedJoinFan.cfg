CONSTANTS
    root = root
    mid = mid
    leaf = leaf
    Thread = {root, mid, leaf}
    Root = root
    Parent <- Fan
    MaxTurn = 2
    MaxGen = 1
    MaxObs = 2
    MaxUser <- NoUser
    Kinds = {TRUE, FALSE}
    Endings = {"Completed", "Errored"}
    MayShutdown = {}
SPECIFICATION Spec
INVARIANTS
    AggregateConserved
PROPERTIES
    OnlyCompleteIsDelivered
    ImplementsContract
CHECK_DEADLOCK FALSE
SYMMETRY Siblings
