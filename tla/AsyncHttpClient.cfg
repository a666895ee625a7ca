SPECIFICATION FairSpec
CONSTANTS
    Task = {t1, t2, t3}
    NoTask = NoTask
    Fds = {f1, f2}
    NoChannel = NoChannel
    Timed = {t1, t2}
    Delayed = {t1}
    RetryCount = 1
    Faults = {"resolve"}
INVARIANTS
    OnePlace
    PoolExact
    RightResponse
PROPERTIES
    Settled
CHECK_DEADLOCK FALSE
