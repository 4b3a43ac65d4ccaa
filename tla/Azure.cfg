SPECIFICATION MCSpec
CONSTANTS
    QueueSize = 2
    MaxFailures = 2
    MaxContexts = 4
    ThreadId = {1, 2}
    i1 = i1
    i2 = i2
    Instance = {i1, i2}
    MaxSockets = 3
    MaxSends = 2
    Sizes = {2}
    MaxSent = 4
    IoCalls = 4
CHECK_DEADLOCK FALSE
INVARIANTS
    TeardownSafe
    TimeKept
    WholeBuffersInOrder
    InstancesSound
    ChainSoundUntilEndDestroyed
    ExitHeard
PROPERTIES
    TerminateEndsTask
    JoinEnds
