SPECIFICATION Spec
CONSTANTS
    Fds = {f1, f2}
    MaxClients = 3
    Slots = 3
    Lines <- LinesQuit
    Chunks <- ChunksLong
INVARIANTS
    CommandObeyed
CHECK_DEADLOCK FALSE
