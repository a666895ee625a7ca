SPECIFICATION FairSpec
CONSTANTS
    thread_num = 2
    Posters = {p1, p2}
    Task = {t1, t2}
    Pre = Pre
    NoTask = NoTask
    Waits = {TRUE, FALSE}
    MaxStops = 1
    Disciplined = TRUE
PROPERTIES
    IsMailbox
    StopEnds
    TasksRun
CHECK_DEADLOCK FALSE
