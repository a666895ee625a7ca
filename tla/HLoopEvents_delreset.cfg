SPECIFICATION Spec
CONSTANTS
    t1 = t1
    t2 = t2
    i1 = i1
    o1 = o1
    NoEvent = NoEvent
    Timers = {t1, t2}
    PeriodTimers = {}
    Idles = {}
    Ios = {}
    Timeout <- OneTick
    INFINITE = 3
    Repeats = {1}
    MaxStep = 1
    Flags = {}
    Ops = {"htimer_add", "htimer_reset", "htimer_del"}
    DelAfterReset = TRUE
INVARIANTS
    NoDanglingLink
CHECK_DEADLOCK FALSE
