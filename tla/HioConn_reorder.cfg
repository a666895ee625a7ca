SPECIFICATION Spec
CONSTANTS
    Ops = {"hio_write", "hio_close", "hio_read", "hio_connect"}
    InWriteCb = {"hio_write"}
    Lens = {2}
    MaxBytes = 4
    MaxIds = 1
    MaxDepth = 5
    SendBuf = 1
    ReadBuf = 1
    QueueInit = 4
INVARIANTS
    StreamInOrder
CHECK_DEADLOCK FALSE
