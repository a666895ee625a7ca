SPECIFICATION Spec
CONSTANTS
    loop = loop
    p1 = p1
    p2 = p2
    Loop = loop
    NoThread = NoThread
    NoEvent = NoEvent
    Posters = {p1}
    Creator = loop
    Calls <- TwoEach
    Ops <- ForeignStop
    Users = 1
    SockCap = 2
    ReadBuf = 2
    Flags = {"AUTO_FREE"}
INVARIANTS
    NoCallOutlivesLoop
CHECK_DEADLOCK FALSE
