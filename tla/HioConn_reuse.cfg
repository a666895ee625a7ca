SPECIFICATION FairSpec
CONSTANTS
    Ops = {"hio_write", "hio_close", "hio_read_stop", "hio_read", "hio_connect", "foreign_close"}
    InWriteCb = {}
    Lens = {2}
    MaxBytes = 2
    MaxIds = 2
    MaxDepth = 3
    SendBuf = 1
    ReadBuf = 1
    QueueInit = 1
INVARIANTS
    CloseCbOnce
PROPERTIES
    CloseCompletes
    ForeignCloseCompletes
CHECK_DEADLOCK FALSE
