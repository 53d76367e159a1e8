CONSTANTS
    root = root
    mid = mid
    leaf = leaf
    Thread = {root, mid, leaf}
    Root = root
    Parent <- Chain
    MaxTurn = 2
    MaxGen = 1
    MaxObs = 1
    MaxUser <- UserOfM
    Kinds = {TRUE}
    Endings = {"Completed", "Interrupted"}
    MayShutdown = {mid}
SPECIFICATION Spec
INVARIANTS
    TypeOK
    ExactTerminal
    AggregateConserved
    NoStaleAggregate
    UnambiguousContinuation
    SettledResult
PROPERTIES
    ImplementsContract
CHECK_DEADLOCK FALSE
