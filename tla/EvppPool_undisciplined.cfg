SPECIFICATION FairSpec
CONSTANTS
    thread_num = 1
    Posters = {p1}
    Task = {t1}
    Pre = Pre
    NoTask = NoTask
    Waits = {FALSE}
    MaxStops = 1
    Disciplined = FALSE
INVARIANTS
    NoFault
CHECK_DEADLOCK FALSE
