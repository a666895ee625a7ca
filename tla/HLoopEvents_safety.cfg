SPECIFICATION Spec
CONSTANTS
    t1 = t1
    t2 = t2
    i1 = i1
    o1 = o1
    NoEvent = NoEvent
    Timers = {t1, t2}
    PeriodTimers = {}
    Idles = {i1}
    Ios = {o1}
    Timeout <- FirstLonger
    INFINITE = 3
    Repeats = {0, 1, 2}
    MaxStep = 1
    Flags = {"RUN_ONCE"}
    Ops <- AllOps
    DelAfterReset = FALSE
INVARIANTS
    NoDanglingLink
    NoLeak
    CountersExact
    CalledAsAsked
CHECK_DEADLOCK FALSE
