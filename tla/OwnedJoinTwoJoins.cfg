CONSTANTS
    root = root
    mid = mid
    leaf = leaf
    Thread = {root, mid, leaf}
    Root = root
    Parent <- Chain
    MaxTurn = 2
    MaxGen = 2
    MaxObs = 1
    MaxUser <- UserOfR
    Kinds = {TRUE}
    Endings = {"Completed"}
    MayShutdown = {}
SPECIFICATION Spec
INVARIANTS
    OneJoinPerTurn
CHECK_DEADLOCK FALSE
