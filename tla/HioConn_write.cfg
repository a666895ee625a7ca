SPECIFICATION Spec
CONSTANTS
    Ops = {"hio_write", "hio_close", "hio_read_stop", "hio_read", "hio_connect", "keepalive"}
    InWriteCb = {}
    Lens = {1, 2}
    MaxBytes = 4
    MaxIds = 2
    MaxDepth = 3
    SendBuf = 1
    ReadBuf = 1
    QueueInit = 1
INVARIANTS
    StreamInOrder
    GracefulClose
CHECK_DEADLOCK FALSE
