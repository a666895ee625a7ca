SPECIFICATION FairSpec
CONSTANTS
    Task = {t1, t2}
    NoTask = NoTask
    Fds = {f1, f2}
    NoChannel = NoChannel
    Timed = {t1, t2}
    Delayed = {t1}
    RetryCount = 1
    Faults = {}
PROPERTIES
    CalledBack
CHECK_DEADLOCK FALSE
