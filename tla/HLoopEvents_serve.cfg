SPECIFICATION TimedSpec
CONSTANTS
    t1 = t1
    t2 = t2
    i1 = i1
    o1 = o1
    NoEvent = NoEvent
    Timers = {t1, t2}
    PeriodTimers = {t2}
    Idles = {i1}
    Ios = {o1}
    Timeout <- ThreeTicks
    INFINITE = 3
    Repeats = {1, 3}
    MaxStep = 1
    Flags = {"AUTO_FREE", "QUIT_WHEN_NO_ACTIVE_EVENTS"}
    Ops = {"htimer_add", "htimer_reset", "htimer_del", "hidle_add", "hio_add", "hloop_stop"}
    DelAfterReset = FALSE
PROPERTIES
    DueTimerServed
    ReadyIoServed
    LoopQuits
CHECK_DEADLOCK FALSE
