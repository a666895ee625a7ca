SPECIFICATION FairSpec
CONSTANTS
    thread_num = 1
    Posters = {p1}
    Task = {t1}
    Pre = Pre
    NoTask = NoTask
    Waits = {TRUE}
    MaxStops = 2
    Disciplined = FALSE
PROPERTIES
    StopEnds
CHECK_DEADLOCK FALSE
