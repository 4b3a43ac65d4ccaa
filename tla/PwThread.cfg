SPECIFICATION ThreadSpec
CONSTANTS
    c = c
    o = o
    w1 = w1
    w2 = w2
    Creator = c
    Other = o
    Worker = {w1, w2}
    Thread = {c, o, w1, w2}
    NoThread = NoThread
    MaxDepth = 2
CHECK_DEADLOCK FALSE
INVARIANTS
    SectionsExclude
    LockStateRestored
    MisusedOnlyAfterConstructor
    ResourcesFreed
PROPERTY JoinReturns
