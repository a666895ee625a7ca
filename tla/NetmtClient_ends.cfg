SPECIFICATION FairSpec
CONSTANTS
    Connects = {"ok", "in progress"}
    Lines = {"start", "stop", "close", "quit", "text"}
PROPERTIES
    EndsWithConnection
    NoticesServerGone
CHECK_DEADLOCK FALSE
