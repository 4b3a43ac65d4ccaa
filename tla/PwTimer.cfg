SPECIFICATION Spec
CONSTANTS
    NativeTicks = 4
    MaxTime = 11
    Deadlines <- MCDeadlines
    MaxCalls = 4
    MaxQueued = 2
CHECK_DEADLOCK FALSE
INVARIANTS
    ClockRight
    CalledOnceWhenDue
    AbortsOnlyRacedOrLong
PROPERTY TimerFires
