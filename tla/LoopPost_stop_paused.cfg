SPECIFICATION FairSpec
CONSTANTS
    loop = loop
    p1 = p1
    p2 = p2
    Loop = loop
    NoThread = NoThread
    NoEvent = NoEvent
    Posters = {p1}
    Creator = loop
    Calls <- ThreeEach
    Ops <- PauseAgainstStop
    Users = 1
    SockCap = 2
    ReadBuf = 2
    Flags = {}
PROPERTIES
    StopTakesEffect
CHECK_DEADLOCK FALSE
