CONSTANTS
    root = root
    mid = mid
    leaf = leaf
    Thread = {root, mid, leaf}
    Root = root
    Parent <- Chain
    MaxTurn = 2
    MaxGen = 1
    MaxObs = 1
    MaxUser <- NoUser
    Kinds = {TRUE}
    Endings = {"Completed"}
    MayShutdown = {}
SPECIFICATION FairSpec
PROPERTIES
    SuccessorIsReported
CHECK_DEADLOCK FALSE
