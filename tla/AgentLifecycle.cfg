SPECIFICATION Spec
CONSTANTS
    a1 = a1
    a2 = a2
    k1 = k1
    k2 = k2
    Agent = {a1, a2}
    Root = Root
    Caller = {k1, k2}
    Free = Free
    Reserved = Reserved
    Layouts <- Sessions
    MaxInc = 2
    MaxThreads = 2
SYMMETRY Callers
INVARIANTS
    TypeOK
    PendingExact
    CountCovers
    SingleRuntime
    KnownIsOpen
    OpenIsKnown
    NamesUnique
    Tracked
    ClosedIsStopped
PROPERTY
    CloseSparesReplacement
CHECK_DEADLOCK FALSE
