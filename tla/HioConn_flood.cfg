SPECIFICATION FairSpec
CONSTANTS
    Ops = {"hio_write", "hio_close", "hio_read", "hio_read_stop"}
    InWriteCb = {}
    Lens = {2}
    MaxBytes = 4
    MaxIds = 1
    MaxDepth = 4
    SendBuf = 1
    ReadBuf = 1
    QueueInit = 2
PROPERTIES
    CloseTimeoutCloses
CHECK_DEADLOCK FALSE
