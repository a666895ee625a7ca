SPECIFICATION FairSpec
CONSTANTS
    loop = loop
    p1 = p1
    p2 = p2
    Loop = loop
    NoThread = NoThread
    NoEvent = NoEvent
    Posters = {p1, p2}
    Creator = loop
    Calls <- TwoAndOne
    Ops <- AllCalls
    Users = 1
    SockCap = 2
    ReadBuf = 2
    Flags = {"AUTO_FREE", "QUIT_WHEN_NO_ACTIVE_EVENTS"}
INVARIANTS
    ByteForEveryEvent
PROPERTIES
    IsMailbox
    PostServed
    StopUnlessPaused
    QuitsUnlessFull
CHECK_DEADLOCK FALSE
