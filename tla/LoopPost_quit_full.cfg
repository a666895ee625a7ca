SPECIFICATION FairSpec
CONSTANTS
    loop = loop
    p1 = p1
    p2 = p2
    Loop = loop
    NoThread = NoThread
    NoEvent = NoEvent
    Posters = {p1, p2}
    Creator = loop
    Calls <- TwoEach
    Ops <- PostAndRelease
    Users = 1
    SockCap = 1
    ReadBuf = 2
    Flags = {"QUIT_WHEN_NO_ACTIVE_EVENTS"}
PROPERTIES
    QuitsWhenIdle
CHECK_DEADLOCK FALSE
