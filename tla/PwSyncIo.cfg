SPECIFICATION MCSpec
CONSTANTS
    t1 = t1
    t2 = t2
    t3 = t3
    Thread = {t1, t2, t3}
    NoThread = NoThread
    LockCallers = {t1, t2}
    SpuriousTimeouts = TRUE
    MaxTicks = 2
    r1 = r1
    r2 = r2
    r3 = r3
    Releaser = {r1, r2, r3}
    w1 = w1
    w2 = w2
    Writer = {w1, w2}
    Reader = {r1}
    Nobody = Nobody
    Stale = Stale
    TxSize = 2
    RxSize = 3
    RxChunk = 4
    TxDepth = 1
    RxDepth = 6
    MaxText = 3
    MaxCalls = 2
    MaxBytes = 6
    Work = 6
    CallCost = 3
CHECK_DEADLOCK FALSE
INVARIANTS
    OwnershipAccounted
    WakeupsAccounted
    LinesWhole
    ReadsAccounted
PROPERTIES
    TakenOverOnlyByRelocker
    ReleaseReachesWaiter
    ReceiveIsQueue
    WrittenIsSent
