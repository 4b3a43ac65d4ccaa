SPECIFICATION MutexSpec
CONSTANTS
    t1 = t1
    t2 = t2
    t3 = t3
    Thread = {t1, t2, t3}
    NoThread = NoThread
    LockCallers = {t1, t2}
    SpuriousTimeouts = FALSE
    MaxTicks = 2
CHECK_DEADLOCK FALSE
PROPERTIES
    UnlockWakesWaiter
