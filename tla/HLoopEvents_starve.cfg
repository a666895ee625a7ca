SPECIFICATION FairSpec
CONSTANTS
    t1 = t1
    t2 = t2
    i1 = i1
    o1 = o1
    NoEvent = NoEvent
    Timers = {t1}
    PeriodTimers = {}
    Idles = {}
    Ios = {o1}
    Timeout <- OneTick
    INFINITE = 3
    Repeats = {3}
    MaxStep = 1
    Flags = {}
    Ops = {"htimer_add", "hio_add"}
    DelAfterReset = FALSE
PROPERTIES
    ReadyIoServed
CHECK_DEADLOCK FALSE
