SPECIFICATION Spec
CONSTANTS
    c1 = c1
    c2 = c2
    NoThread = NoThread
    NoObject = NoObject
    Callers = {c1, c2}
    Calls <- TwoOwners
    pool_size = 2
    MaxTasks = 2
    MaxStarts = 1
    MaxCalls = 1
    Borrowers = {1, 2}
    InitNum = 0
    MaxNum = 1
    MaxObjects = 2
    MaxManage = 0
INVARIANT NeverCallsNothing
CHECK_DEADLOCK FALSE
