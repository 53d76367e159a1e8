CONSTANTS
    root = root
    mid = mid
    leaf = leaf
    Thread = {root, mid, leaf}
    Root = root
    Parent <- Chain
    MaxTurn = 2
    MaxGen = 1
    MaxObs = 1
    MaxUser <- NoUser
    Kinds = {TRUE}
    Endings = {"Completed", "Errored"}
    MayShutdown = {}
SPECIFICATION Spec
INVARIANTS
    NoStaleAggregate
CHECK_DEADLOCK FALSE
