SPECIFICATION Spec
CONSTANTS
    loop = loop
    p1 = p1
    p2 = p2
    Loop = loop
    NoThread = NoThread
    NoEvent = NoEvent
    Posters = {p1, p2}
    Creator = loop
    Calls <- TwoEach
    Ops <- PostAndRelease
    Users = 1
    SockCap = 1
    ReadBuf = 2
    Flags = {}
INVARIANTS
    ActivesExact
CHECK_DEADLOCK FALSE
