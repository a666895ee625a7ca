SPECIFICATION Spec
CONSTANTS
    Ops = {"hio_write", "hio_close", "hio_read_stop", "hio_read", "hio_connect", "keepalive", "foreign_close"}
    InWriteCb = {}
    Lens = {1}
    MaxBytes = 1
    MaxIds = 2
    MaxDepth = 4
    SendBuf = 1
    ReadBuf = 1
    QueueInit = 4
INVARIANTS
    CloseMeant
CHECK_DEADLOCK FALSE
