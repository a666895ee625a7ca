SPECIFICATION Spec
CONSTANTS
    Fds = {f1, f2}
    MaxClients = 3
    Slots = 3
    Lines <- LinesAll
    Chunks <- ChunksAll
INVARIANTS
    NoFreedNode
CHECK_DEADLOCK FALSE
