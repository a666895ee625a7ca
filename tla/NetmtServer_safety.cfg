SPECIFICATION Spec
CONSTANTS
    Fds = {f1, f2}
    MaxClients = 3
    Slots = 3
    Lines <- LinesAll
    Chunks <- ChunksAll
INVARIANTS
    ListExact
    Broadcast
CHECK_DEADLOCK FALSE
