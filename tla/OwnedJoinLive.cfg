CONSTANTS
    root = root
    mid = mid
    leaf = leaf
    Thread = {root, mid, leaf}
    Root = root
    Parent <- Chain
    MaxTurn = 2
    MaxGen = 1
    MaxObs = 1
    MaxUser <- UserOfR
    Kinds = {TRUE}
    Endings = {"Completed"}
    MayShutdown = {mid}
SPECIFICATION FairSpec
PROPERTIES
    JoinIsDelivered
CHECK_DEADLOCK FALSE
